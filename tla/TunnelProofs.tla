---------------------------- MODULE TunnelProofs ----------------------------
(***************************************************************************)
(* Theorems about the tunnel, for any bounds: a tunnel has at most one     *)
(* upstream, and the patron's browser applies the broadcasts in order, a   *)
(* connection leaving none out.  The first follows from what a tunnel's    *)
(* variables say about its sockets (SessionInv); the second from that and  *)
(* from what is in the pipe of the browser's own session (PipeInv): every  *)
(* part of it holds consecutive frames, and continues the part before it.  *)
(***************************************************************************)
EXTENDS Tunnel, FiniteSetTheorems, TLAPS

NoneLive(s) == \A k \in Attempts : socket[s][k] \notin Live

(* What the variables of a tunnel say about its upstream sockets.          *)
SessionInv(s) ==
  /\ \A j, k \in Attempts : socket[s][j] \in Live /\ socket[s][k] \in Live => j = k
  /\ \A k \in Attempts :
       /\ socket[s][k] \in {"connecting", "accepted"} => upstreamAttempt[s] = k
       /\ socket[s][k] = "open" => upstream[s] = k
       /\ upstream[s] = k /\ ~tunnelClosed[s] => socket[s][k] = "open"
       /\ <<s, k>> \in clients => socket[s][k] \in {"accepted", "open"}
       /\ upstreamFrames[s][k] # <<>> => socket[s][k] \in {"accepted", "open"}
  /\ retryTimer[s] =>
       /\ ~tunnelClosed[s] /\ NoneLive(s)
       /\ upstreamAttempt[s] \in Attempts /\ upstreamAttempt[s] # WS_UPSTREAM_MAX_ATTEMPTS
  /\ tunnelClosed[s] <=> clientSocket[s] = "closed"
  /\ clientSocket[s] = "none" =>
       /\ \A k \in Attempts : socket[s][k] = "none"
       /\ ~retryTimer[s] /\ upstreamAttempt[s] = 0
  /\ pendingFrames[s] # <<>> => clientSocket[s] = "connecting"
  /\ clientFrames[s] # <<>> => clientSocket[s] \in {"open", "closed"}
  /\ s > session => clientSocket[s] = "none"
  /\ Attached(s) /\ tunnelClosed[s] => NoneLive(s)

-----------------------------------------------------------------------------
(* The pipe of the browser's session.                                      *)

(* q holds consecutive frames, the last of them e.                         *)
Ends(q, e) == \A n \in 1..Len(q) : q[n] = e - Len(q) + n

Front == IF clientSocket[session] = "connecting" THEN pendingFrames[session]
         ELSE clientFrames[session]

LastReceived == received[Len(received)]
Here == received # <<>> /\ LastReceived.session = session

(* The frames the gateway has handed over end with e.                      *)
Continues(e) == Ends(Front, e) /\ (Here => LastReceived.frame = e - Len(Front))

(* The upstream's frames end with e, the latest broadcast while it is a    *)
(* client, and follow those that were handed over.                         *)
UpstreamEnds(k, e) ==
  LET frames == upstreamFrames[session][k]
  IN  /\ Ends(frames, e)
      /\ <<session, k>> \in clients => e = broadcasts
      /\ socket[session][k] = "open" => Continues(e - Len(frames))

(* The session has frames of an upstream; another may not take over.       *)
Begun == Front # <<>> \/ Here

(* The frames of q are newer than the frame f.                             *)
Newer(f, q) == \A n \in 1..Len(q) : f < q[n]
NewerThanLast(q) == Newer(LastReceived.frame, q)

(* The pipe of a session the browser is attached to; nothing that earlier   *)
(* sessions received is in it.                                             *)
PipeInv ==
  /\ \E e \in 0..broadcasts : Continues(e)
  /\ \A k \in Attempts : \E e \in 0..broadcasts : UpstreamEnds(k, e)
  /\ received # <<>> /\ ~Here =>
       NewerThanLast(Front) /\ \A k \in Attempts : NewerThanLast(upstreamFrames[session][k])
  /\ Here => clientSocket[session] \in {"open", "closed"}
  /\ Begun =>
       /\ ~retryTimer[session]
       /\ \A k \in Attempts : socket[session][k] \notin {"connecting", "accepted"}

ReceivedInv ==
  received # <<>> => LastReceived.frame <= broadcasts /\ LastReceived.session <= session

IInv ==
  /\ TypeOK
  /\ \A s \in Sessions : SessionInv(s)
  /\ Attached(session) => PipeInv
  /\ ReceivedInv
  /\ InOrder

-----------------------------------------------------------------------------
(* Types.                                                                  *)

(* The bounds are numbers, the attempts among them.                        *)
LEMMA Bounds ==
  /\ WS_UPSTREAM_MAX_ATTEMPTS \in Nat /\ WS_UPSTREAM_MAX_ATTEMPTS \in Attempts /\ 1 \in Attempts
  /\ MaxSessions \in Nat /\ 1 \in Sessions /\ MaxFrames \in Nat /\ MaxFailures \in Nat
  /\ Sessions \subseteq Nat /\ Attempts \subseteq Nat /\ Frames \subseteq Nat
  /\ 0 \notin Attempts
BY BoundAssumption DEF Attempts, Sessions, Frames

(* A failure is counted up to the bound.                                   *)
LEMMA FailureType == ASSUME TypeOK, Failure PROVE failures' \in 0..MaxFailures
BY Bounds DEF TypeOK, Failure

(* Closing a tunnel keeps its variables' types.                            *)
LEMMA ShutType ==
  ASSUME TypeOK, NEW s \in Sessions, ShutTunnel(s)
  PROVE  /\ tunnelClosed' \in [Sessions -> BOOLEAN] /\ retryTimer' \in [Sessions -> BOOLEAN]
         /\ pendingFrames' \in [Sessions -> Seq(Frames)]
         /\ upstream' \in [Sessions -> Attempts \cup {0}]
         /\ upstreamAttempt' \in [Sessions -> Attempts \cup {0}]
         /\ clientSocket' \in [Sessions -> {"none", "connecting", "open", "closed"}]
BY DEF TypeOK, ShutTunnel

(* So does dropping an upstream.                                           *)
LEMMA DropType ==
  ASSUME TypeOK, NEW s \in Sessions, NEW k \in Attempts, DropUpstream(s, k)
  PROVE  /\ socket' \in [Sessions -> [Attempts -> Live \cup {"none", "closed"}]]
         /\ upstreamFrames' \in [Sessions -> [Attempts -> Seq(Frames)]]
         /\ clients' \subseteq Sessions \X Attempts
BY DEF TypeOK, DropUpstream

(* Starting an upstream, below the last attempt.                           *)
LEMMA ConnectType ==
  ASSUME TypeOK, NEW s \in Sessions, ConnectUpstream(s),
         tunnelClosed[s] \/ upstreamAttempt[s] # WS_UPSTREAM_MAX_ATTEMPTS
  PROVE  /\ socket' \in [Sessions -> [Attempts -> Live \cup {"none", "closed"}]]
         /\ upstreamAttempt' \in [Sessions -> Attempts \cup {0}]
<1>1. CASE tunnelClosed[s]
  BY <1>1 DEF TypeOK, ConnectUpstream
<1>2. CASE ~tunnelClosed[s]
  <2>1. upstreamAttempt[s] \in Attempts \cup {0} /\ upstreamAttempt[s] # WS_UPSTREAM_MAX_ATTEMPTS
    BY <1>2 DEF TypeOK
  <2>2. upstreamAttempt[s] + 1 \in Attempts
    BY <2>1, BoundAssumption DEF Attempts
  <2>3. socket' = [socket EXCEPT ![s][upstreamAttempt[s] + 1] = "connecting"]
    BY <1>2 DEF ConnectUpstream
  <2>4. socket' \in [Sessions -> [Attempts -> Live \cup {"none", "closed"}]]
    BY <2>2, <2>3 DEF TypeOK, Live
  <2>5. QED
    BY <1>2, <2>2, <2>4 DEF TypeOK, ConnectUpstream
<1>3. QED
  BY <1>1, <1>2

(* Handing frames over.                                                    *)
LEMMA FlushType ==
  ASSUME TypeOK, NEW s \in Sessions, NEW frames \in Seq(Frames), Flush(s, frames)
  PROVE  clientFrames' \in [Sessions -> Seq(Frames)] /\ pendingFrames' \in [Sessions -> Seq(Frames)]
<1>1. clientFrames[s] \o frames \in Seq(Frames) /\ <<>> \in Seq(Frames)
  BY DEF TypeOK
<1>2. CASE clientSocket'[s] = "open"
  BY <1>1, <1>2 DEF TypeOK, Flush
<1>3. CASE clientSocket'[s] # "open"
  BY <1>3 DEF TypeOK, Flush
<1>4. QED
  BY <1>2, <1>3

(* Every step keeps the types.                                             *)
LEMMA TypeStep ==
  ASSUME TypeOK, \A s \in Sessions : SessionInv(s), [Next]_vars PROVE TypeOK'
<1> USE DEF service, wire, tunnel, browser
<1>1. ASSUME NEW s \in Sessions, OpenTunnel(s) PROVE TypeOK'
  <2>1. upstreamAttempt[s] # WS_UPSTREAM_MAX_ATTEMPTS
    BY <1>1, Bounds DEF OpenTunnel, SessionInv
  <2>2. clientSocket' \in [Sessions -> {"none", "connecting", "open", "closed"}]
    BY <1>1 DEF OpenTunnel, TypeOK
  <2>3. QED
    BY <1>1, <2>1, <2>2, ConnectType DEF OpenTunnel, TypeOK
<1>2. ASSUME NEW s \in Sessions, ClientCloses(s) PROVE TypeOK'
  <2>1. upstream[s] # 0 => upstream[s] \in Attempts
    BY DEF TypeOK
  <2>2. QED
    BY <1>2, <2>1, ShutType, DropType DEF ClientCloses, TypeOK
<1>3. ASSUME NEW s \in Sessions, Retry(s) PROVE TypeOK'
  <2>1. upstreamAttempt[s] # WS_UPSTREAM_MAX_ATTEMPTS
    BY <1>3 DEF Retry, SessionInv
  <2>2. QED
    BY <1>3, <2>1, ConnectType DEF Retry, TypeOK
<1>4. ASSUME NEW s \in Sessions, ClientOpens(s) PROVE TypeOK'
  <2>1. pendingFrames[s] \in Seq(Frames)
    BY DEF TypeOK
  <2>2. QED
    BY <1>4, <2>1, FlushType DEF ClientOpens, TypeOK
<1>5. ASSUME NEW s \in Sessions, NEW k \in Attempts, UpstreamOpens(s, k) PROVE TypeOK'
  <2>1. pendingFrames[s] \in Seq(Frames)
    BY DEF TypeOK
  <2>2. /\ socket' \in [Sessions -> [Attempts -> Live \cup {"none", "closed"}]]
        /\ upstream' \in [Sessions -> Attempts \cup {0}]
        /\ upstreamAttempt' \in [Sessions -> Attempts \cup {0}]
    BY <1>5 DEF UpstreamOpens, TypeOK, Live
  <2>3. QED
    BY <1>5, <2>1, <2>2, FlushType DEF UpstreamOpens, TypeOK
<1>6. ASSUME NEW s \in Sessions, NEW k \in Attempts, UpstreamMessage(s, k) PROVE TypeOK'
  <2>1. upstreamFrames[s][k] \in Seq(Frames) /\ upstreamFrames[s][k] # <<>>
    BY <1>6 DEF UpstreamMessage, TypeOK
  <2>2. Head(upstreamFrames[s][k]) \in Frames /\ Tail(upstreamFrames[s][k]) \in Seq(Frames)
    BY <2>1
  <2>3. upstreamFrames' \in [Sessions -> [Attempts -> Seq(Frames)]]
    BY <1>6, <2>2 DEF UpstreamMessage, TypeOK
  <2>4. /\ Append(pendingFrames[s], Head(upstreamFrames[s][k])) \in Seq(Frames)
        /\ <<Head(upstreamFrames[s][k])>> \o pendingFrames[s] \in Seq(Frames)
    BY <2>2 DEF TypeOK
  <2>5. clientFrames' \in [Sessions -> Seq(Frames)] /\ pendingFrames' \in [Sessions -> Seq(Frames)]
    BY <1>6, <2>4, FlushType DEF UpstreamMessage, TypeOK
  <2>6. QED
    BY <1>6, <2>3, <2>5 DEF UpstreamMessage, TypeOK
<1>7. ASSUME NEW s \in Sessions, NEW k \in Attempts, UpstreamCloses(s, k) PROVE TypeOK'
  <2>1. failures' \in 0..MaxFailures
    BY <1>7, FailureType DEF UpstreamCloses, TypeOK
  <2>2. QED
    BY <1>7, <2>1, ShutType, DropType DEF UpstreamCloses, TypeOK
<1>8. ASSUME NEW s \in Sessions, NEW k \in Attempts, Accept(s, k) PROVE TypeOK'
  BY <1>8 DEF Accept, TypeOK, Live
<1>9. CASE Broadcast
  <2>1. broadcasts' \in 0..MaxFrames /\ broadcasts + 1 \in Frames
    BY <1>9, Bounds DEF Broadcast, TypeOK, Frames
  <2>2. \A s \in Sessions, k \in Attempts :
          Append(upstreamFrames[s][k], broadcasts + 1) \in Seq(Frames)
    BY <2>1 DEF TypeOK
  <2>3. QED
    BY <1>9, <2>1, <2>2 DEF Broadcast, TypeOK
<1>10. CASE Restart
  BY <1>10, FailureType DEF Restart, TypeOK
<1>11. CASE BrowserMessage
  <2>1. /\ Head(clientFrames[session]) \in Frames /\ Tail(clientFrames[session]) \in Seq(Frames)
        /\ session \in Sessions
    BY <1>11 DEF BrowserMessage, TypeOK
  <2>2. [frame |-> Head(clientFrames[session]), session |-> session]
          \in [frame : Frames, session : Sessions]
    BY <2>1
  <2>3. received' \in Seq([frame : Frames, session : Sessions])
    BY <1>11, <2>2 DEF BrowserMessage, TypeOK
  <2>4. QED
    BY <1>11, <2>1, <2>3 DEF BrowserMessage, TypeOK
<1>12. CASE BrowserOpens \/ Unmount
  <2>1. [clientFrames EXCEPT ![session] = <<>>] \in [Sessions -> Seq(Frames)]
    BY DEF TypeOK
  <2>2. QED
    BY <1>12, <2>1 DEF BrowserOpens, Unmount, TypeOK
<1>13. CASE BrowserCloses
  <2>1. [clientFrames EXCEPT ![session] = <<>>] \in [Sessions -> Seq(Frames)]
    BY DEF TypeOK
  <2>2. failures' \in 0..MaxFailures /\ clientFrames' \in [Sessions -> Seq(Frames)]
    BY <1>13, <2>1, FailureType DEF BrowserCloses, TypeOK
  <2>3. QED
    BY <1>13, <2>2 DEF BrowserCloses, TypeOK
<1>14. CASE Reconnect
  <2>1. session + 1 \in Sessions
    BY <1>14, Bounds DEF Reconnect, TypeOK, Sessions
  <2>2. QED
    BY <1>14, <2>1 DEF Reconnect, TypeOK
<1>15. CASE UNCHANGED vars
  BY <1>15 DEF vars, TypeOK
<1>16. QED
  BY <1>1, <1>2, <1>3, <1>4, <1>5, <1>6, <1>7, <1>8, <1>9, <1>10, <1>11, <1>12, <1>13, <1>14, <1>15
  DEF Next, TunnelStep, UpstreamStep, BrowserStep

-----------------------------------------------------------------------------
(* The tunnels.                                                            *)

(* Nothing of session t changes.                                           *)
Untouched(t) ==
  /\ socket'[t] = socket[t] /\ upstreamFrames'[t] = upstreamFrames[t]
  /\ upstream'[t] = upstream[t] /\ upstreamAttempt'[t] = upstreamAttempt[t]
  /\ retryTimer'[t] = retryTimer[t] /\ tunnelClosed'[t] = tunnelClosed[t]
  /\ pendingFrames'[t] = pendingFrames[t] /\ clientFrames'[t] = clientFrames[t]
  /\ clientSocket'[t] = clientSocket[t]
  /\ \A k \in Attempts : <<t, k>> \in clients' <=> <<t, k>> \in clients

(* A tunnel that nothing happens to is as it was.                          *)
LEMMA UntouchedSession ==
  ASSUME NEW t \in Sessions, SessionInv(t), Untouched(t), session' = session, hook' = hook
  PROVE  SessionInv(t)'
BY DEF SessionInv, Untouched, NoneLive, Attached

(* A step of tunnel s happens to no other.                                 *)
LEMMA TunnelLocal ==
  ASSUME TypeOK, NEW s \in Sessions, NEW t \in Sessions, t # s,
         TunnelStep(s) \/ \E k \in Attempts : UpstreamStep(s, k) \/ UpstreamCloses(s, k)
  PROVE  Untouched(t) /\ session' = session /\ hook' = hook
<1> USE DEF service, wire, tunnel, browser, Untouched, TypeOK
<1>1. CASE OpenTunnel(s) \/ Retry(s)
  BY <1>1 DEF OpenTunnel, Retry, ConnectUpstream
<1>2. CASE ClientOpens(s)
  BY <1>2 DEF ClientOpens, Flush
<1>3. CASE ClientCloses(s)
  BY <1>3 DEF ClientCloses, ShutTunnel, DropUpstream
<1>4. ASSUME NEW k \in Attempts, Accept(s, k)
      PROVE  Untouched(t) /\ session' = session /\ hook' = hook
  BY <1>4 DEF Accept
<1>5. ASSUME NEW k \in Attempts, UpstreamOpens(s, k)
      PROVE  Untouched(t) /\ session' = session /\ hook' = hook
  BY <1>5 DEF UpstreamOpens, Flush
<1>6. ASSUME NEW k \in Attempts, UpstreamMessage(s, k)
      PROVE  Untouched(t) /\ session' = session /\ hook' = hook
  BY <1>6 DEF UpstreamMessage, Flush
<1>7. ASSUME NEW k \in Attempts, UpstreamCloses(s, k)
      PROVE  Untouched(t) /\ session' = session /\ hook' = hook
  <2>1. /\ session' = session /\ hook' = hook /\ clientFrames' = clientFrames
        /\ DropUpstream(s, k)
        /\ \/ UNCHANGED <<upstream, upstreamAttempt, tunnelClosed, pendingFrames, clientSocket>>
              /\ retryTimer'[t] = retryTimer[t]
           \/ ShutTunnel(s)
    BY <1>7 DEF UpstreamCloses
  <2>2. /\ socket'[t] = socket[t] /\ upstreamFrames'[t] = upstreamFrames[t]
        /\ \A j \in Attempts : <<t, j>> \in clients' <=> <<t, j>> \in clients
    BY <2>1 DEF DropUpstream
  <2>3. /\ upstream'[t] = upstream[t] /\ upstreamAttempt'[t] = upstreamAttempt[t]
        /\ retryTimer'[t] = retryTimer[t] /\ tunnelClosed'[t] = tunnelClosed[t]
        /\ pendingFrames'[t] = pendingFrames[t] /\ clientSocket'[t] = clientSocket[t]
    BY <2>1 DEF ShutTunnel
  <2>4. QED
    BY <2>1, <2>2, <2>3
<1>8. QED
  BY <1>1, <1>2, <1>3, <1>4, <1>5, <1>6, <1>7 DEF TunnelStep, UpstreamStep

(* A tunnel opens with its first upstream.                                 *)
LEMMA OpenTunnelSession ==
  ASSUME TypeOK, NEW s \in Sessions, SessionInv(s), OpenTunnel(s) PROVE SessionInv(s)'
<1>1. /\ ~tunnelClosed[s] /\ upstreamAttempt[s] = 0 /\ ~retryTimer[s]
      /\ \A k \in Attempts : socket[s][k] = "none"
      /\ pendingFrames[s] = <<>> /\ clientFrames[s] = <<>>
      /\ \A k \in Attempts : <<s, k>> \notin clients /\ upstreamFrames[s][k] = <<>>
      /\ \A k \in Attempts : upstream[s] # k
      /\ ~(s > session)
  <2>1. clientSocket[s] = "none" /\ s = session /\ s \in Nat
    BY Bounds DEF OpenTunnel, Attached
  <2>2. /\ ~tunnelClosed[s] /\ upstreamAttempt[s] = 0 /\ ~retryTimer[s]
        /\ \A k \in Attempts : socket[s][k] = "none"
    BY <2>1 DEF SessionInv
  <2>3. pendingFrames[s] = <<>> /\ clientFrames[s] = <<>>
    BY <2>1 DEF SessionInv
  <2>4. \A k \in Attempts : <<s, k>> \notin clients /\ upstreamFrames[s][k] = <<>>
    BY <2>2 DEF SessionInv
  <2>5. \A k \in Attempts : upstream[s] # k
    BY <2>2 DEF SessionInv
  <2>6. ~(s > session)
    BY <2>1
  <2>7. QED
    BY <2>2, <2>3, <2>4, <2>5, <2>6
<1>2. /\ clientSocket'[s] \in {"connecting", "open"} /\ upstreamAttempt'[s] = 1
      /\ \A k \in Attempts : socket'[s][k] = IF k = 1 THEN "connecting" ELSE "none"
      /\ UNCHANGED <<clients, upstreamFrames, clientFrames, upstream, retryTimer, tunnelClosed,
                     pendingFrames, session, hook>>
  BY <1>1, Bounds DEF OpenTunnel, ConnectUpstream, TypeOK, service, wire, browser
<1>3. QED
  BY <1>1, <1>2 DEF SessionInv, NoneLive, Live, Attached

(* A retry starts the next upstream where there is none.                   *)
LEMMA RetrySession ==
  ASSUME TypeOK, NEW s \in Sessions, SessionInv(s), Retry(s) PROVE SessionInv(s)'
<1>1. /\ ~tunnelClosed[s] /\ NoneLive(s) /\ clientSocket[s] # "none"
      /\ upstreamAttempt[s] \in Attempts /\ upstreamAttempt[s] # WS_UPSTREAM_MAX_ATTEMPTS
  BY DEF Retry, SessionInv
<1> DEFINE next == upstreamAttempt[s] + 1
<1>2. next \in Attempts
  BY <1>1, BoundAssumption DEF Attempts
<1>3. \A k \in Attempts : upstream[s] # k /\ <<s, k>> \notin clients /\ upstreamFrames[s][k] = <<>>
  BY <1>1 DEF SessionInv, NoneLive, Live
<1>4. /\ retryTimer'[s] = FALSE /\ upstreamAttempt'[s] = next
      /\ \A k \in Attempts : socket'[s][k] = IF k = next THEN "connecting" ELSE socket[s][k]
      /\ UNCHANGED <<clients, upstreamFrames, clientFrames, upstream, tunnelClosed, clientSocket,
                     pendingFrames, session, hook>>
  BY <1>1, <1>2 DEF Retry, ConnectUpstream, TypeOK, service, wire, browser
<1>5. QED
  <2> HIDE DEF next
  <2>1. QED
    BY <1>1, <1>2, <1>3, <1>4 DEF SessionInv, NoneLive, Live, Attached

(* The patron's socket opens, and what was held back is handed over.       *)
LEMMA ClientOpensSession ==
  ASSUME TypeOK, NEW s \in Sessions, SessionInv(s), ClientOpens(s) PROVE SessionInv(s)'
<1>1. /\ clientSocket'[s] = "open" /\ clientSocket[s] = "connecting" /\ pendingFrames'[s] = <<>>
      /\ UNCHANGED <<clients, upstreamFrames, socket, upstream, upstreamAttempt, retryTimer,
                     tunnelClosed, session, hook>>
  BY DEF ClientOpens, Flush, TypeOK, service, browser
<1>2. QED
  BY <1>1 DEF SessionInv, NoneLive, Attached

(* The patron has left: the upstream in use is closed with the tunnel.     *)
LEMMA ClientClosesSession ==
  ASSUME TypeOK, NEW s \in Sessions, SessionInv(s), ClientCloses(s) PROVE SessionInv(s)'
<1>1. /\ clientSocket[s] \in {"connecting", "open"} /\ ~tunnelClosed[s] /\ ~Attached(s)
      /\ upstream[s] # 0 => upstream[s] \in Attempts
  BY DEF ClientCloses, SessionInv, TypeOK
<1>2. /\ clientSocket'[s] = "closed" /\ tunnelClosed'[s] /\ pendingFrames'[s] = <<>>
      /\ ~retryTimer'[s] /\ upstream'[s] = 0
      /\ UNCHANGED <<upstreamAttempt, clientFrames, session, hook>>
  BY DEF ClientCloses, ShutTunnel, TypeOK, browser
<1>3. \A k \in Attempts :
        IF k = upstream[s]
        THEN /\ socket'[s][k] = "closed" /\ upstreamFrames'[s][k] = <<>>
             /\ <<s, k>> \notin clients'
        ELSE /\ socket'[s][k] = socket[s][k] /\ upstreamFrames'[s][k] = upstreamFrames[s][k]
             /\ <<s, k>> \in clients' <=> <<s, k>> \in clients
  <2>1. CASE upstream[s] = 0
    BY <2>1, Bounds DEF ClientCloses
  <2>2. CASE upstream[s] # 0
    BY <1>1, <2>2 DEF ClientCloses, DropUpstream, TypeOK
  <2>3. QED
    BY <2>1, <2>2
<1>4. \A k \in Attempts : socket'[s][k] # "open"
  BY ZenonT(60), <1>3 DEF SessionInv
<1>5. QED
  BY ZenonT(60), <1>1, <1>2, <1>3, <1>4, Bounds DEF SessionInv, NoneLive, Attached, Live

(* The service accepts an upstream.                                        *)
LEMMA AcceptSession ==
  ASSUME TypeOK, NEW s \in Sessions, NEW k \in Attempts, SessionInv(s), Accept(s, k)
  PROVE  SessionInv(s)'
<1>1. /\ socket[s][k] = "connecting"
      /\ \A j \in Attempts : socket'[s][j] = IF j = k THEN "accepted" ELSE socket[s][j]
      /\ \A j \in Attempts : <<s, j>> \in clients' <=> <<s, j>> \in clients \/ j = k
      /\ UNCHANGED <<upstreamFrames, clientFrames, upstream, upstreamAttempt, retryTimer,
                     tunnelClosed, pendingFrames, clientSocket, session, hook>>
  BY DEF Accept, TypeOK, wire, tunnel, browser
<1>2. QED
  BY <1>1 DEF SessionInv, NoneLive, Attached, Live

(* An upstream opens: it is the tunnel's only one.                         *)
LEMMA UpstreamOpensSession ==
  ASSUME TypeOK, NEW s \in Sessions, NEW k \in Attempts, SessionInv(s), UpstreamOpens(s, k)
  PROVE  SessionInv(s)'
<1>1. /\ socket[s][k] = "accepted" /\ upstream'[s] = k /\ upstreamAttempt'[s] = 0
      /\ \A j \in Attempts : socket'[s][j] = IF j = k THEN "open" ELSE socket[s][j]
      /\ UNCHANGED <<clients, clientSocket, upstreamFrames, retryTimer, tunnelClosed, session, hook>>
  BY DEF UpstreamOpens, TypeOK, service, browser
<1>2. /\ pendingFrames'[s] # <<>> => clientSocket[s] = "connecting"
      /\ clientFrames'[s] # <<>> => clientSocket[s] \in {"open", "closed"}
  <2>1. CASE clientSocket[s] = "open"
    BY <1>1, <2>1 DEF UpstreamOpens, Flush, TypeOK
  <2>2. CASE clientSocket[s] # "open"
    BY <1>1, <2>2 DEF UpstreamOpens, Flush, SessionInv
  <2>3. QED
    BY <2>1, <2>2
<1>3. \A j \in Attempts : j # k => socket[s][j] \notin Live
  BY <1>1 DEF SessionInv, Live
<1>4. QED
  BY <1>1, <1>2, <1>3 DEF SessionInv, NoneLive, Attached, Live

(* A frame passes from the upstream to the patron's side.                  *)
LEMMA UpstreamMessageSession ==
  ASSUME TypeOK, NEW s \in Sessions, NEW k \in Attempts, SessionInv(s), UpstreamMessage(s, k)
  PROVE  SessionInv(s)'
<1>1. /\ socket[s][k] = "open" /\ upstreamFrames[s][k] # <<>>
      /\ \A j \in Attempts : j # k => upstreamFrames'[s][j] = upstreamFrames[s][j]
      /\ UNCHANGED <<clients, clientSocket, socket, upstream, upstreamAttempt, retryTimer,
                     tunnelClosed, session, hook>>
  BY DEF UpstreamMessage, TypeOK, service, browser
<1>2. /\ pendingFrames'[s] # <<>> => clientSocket[s] = "connecting"
      /\ clientFrames'[s] # <<>> => clientSocket[s] \in {"open", "closed"}
  <2>1. CASE clientSocket[s] = "connecting"
    BY <1>1, <2>1 DEF UpstreamMessage, SessionInv
  <2>2. CASE clientSocket[s] = "open"
    BY <1>1, <2>2 DEF UpstreamMessage, Flush, TypeOK
  <2>3. CASE clientSocket[s] \notin {"connecting", "open"}
    BY <1>1, <2>3 DEF UpstreamMessage, Flush, SessionInv
  <2>4. QED
    BY <2>1, <2>2, <2>3
<1>3. QED
  BY <1>1, <1>2 DEF SessionInv, NoneLive, Attached

(* An upstream closes: its tunnel shuts, or waits to try the next one.     *)
LEMMA UpstreamClosesSession ==
  ASSUME TypeOK, NEW s \in Sessions, NEW k \in Attempts, SessionInv(s), UpstreamCloses(s, k)
  PROVE  SessionInv(s)'
<1>1. /\ socket[s][k] \in Live
      /\ \A j \in Attempts : socket'[s][j] = IF j = k THEN "closed" ELSE socket[s][j]
      /\ \A j \in Attempts : upstreamFrames'[s][j] = IF j = k THEN <<>> ELSE upstreamFrames[s][j]
      /\ \A j \in Attempts : <<s, j>> \in clients' <=> <<s, j>> \in clients /\ j # k
      /\ UNCHANGED <<clientFrames, session, hook>>
  BY DEF UpstreamCloses, DropUpstream, TypeOK, Live, browser
<1>2. \A j \in Attempts : socket'[s][j] \notin Live
  BY <1>1 DEF SessionInv, Live
<1>3. \A j \in Attempts : <<s, j>> \notin clients' /\ upstreamFrames'[s][j] = <<>>
  BY <1>1, <1>2 DEF SessionInv, Live
<1>4. CASE tunnelClosed[s]
  BY <1>1, <1>2, <1>3, <1>4 DEF UpstreamCloses, tunnel, SessionInv, NoneLive, Attached, Live
<1>5. CASE ~tunnelClosed[s] /\ ShutTunnel(s)
  <2>1. /\ clientSocket'[s] = "closed" /\ tunnelClosed'[s] /\ pendingFrames'[s] = <<>>
        /\ ~retryTimer'[s] /\ upstream'[s] = 0
    BY <1>5 DEF ShutTunnel, TypeOK
  <2>2. ~(s > session)
    BY <1>1 DEF SessionInv, Live
  <2>3. QED
    BY <1>1, <1>2, <1>3, <2>1, <2>2, Bounds DEF SessionInv, NoneLive, Attached, Live
<1>6. CASE /\ ~tunnelClosed[s] /\ ~GivesUp(s, k)
           /\ retryTimer' = [retryTimer EXCEPT ![s] = TRUE]
           /\ UNCHANGED <<upstream, upstreamAttempt, tunnelClosed, pendingFrames, clientSocket>>
  <2>1. /\ socket[s][k] # "open" /\ upstreamAttempt[s] = k /\ k # WS_UPSTREAM_MAX_ATTEMPTS
    <3>1. socket[s][k] = "open" => upstream[s] = k
      BY DEF SessionInv
    <3>2. socket[s][k] # "open" /\ ~(k >= WS_UPSTREAM_MAX_ATTEMPTS)
      BY <1>6, <3>1 DEF GivesUp
    <3>3. k # WS_UPSTREAM_MAX_ATTEMPTS
      BY <3>2, Bounds
    <3>4. socket[s][k] \in {"connecting", "accepted"}
      BY <1>1, <3>2 DEF Live
    <3>5. QED
      BY <3>2, <3>3, <3>4 DEF SessionInv
  <2>2. \A j \in Attempts : upstream[s] # j
    BY <1>1, <1>6, <2>1 DEF SessionInv, Live
  <2>3. retryTimer'[s] /\ clientSocket[s] # "none"
    BY <1>1, <1>6 DEF TypeOK, SessionInv, Live
  <2>4. QED
    BY <1>1, <1>2, <1>3, <1>6, <2>1, <2>2, <2>3 DEF SessionInv, NoneLive, Attached, Live
<1>7. QED
  BY <1>4, <1>5, <1>6 DEF UpstreamCloses

(* A broadcast adds frames to clients alone.                               *)
LEMMA BroadcastSession ==
  ASSUME TypeOK, NEW s \in Sessions, SessionInv(s), Broadcast PROVE SessionInv(s)'
<1>1. /\ \A k \in Attempts : <<s, k>> \notin clients => upstreamFrames'[s][k] = upstreamFrames[s][k]
      /\ UNCHANGED <<clients, socket, clientFrames, tunnel, browser>>
  BY DEF Broadcast
<1>2. QED
  BY <1>1 DEF SessionInv, NoneLive, Attached, tunnel, browser

(* The service restarts: sockets it does not know stay open for a while.   *)
LEMMA RestartSession ==
  ASSUME TypeOK, NEW s \in Sessions, SessionInv(s), Restart PROVE SessionInv(s)'
BY DEF Restart, SessionInv, NoneLive, Attached, wire, tunnel, browser

(* The hook's steps: a session is attached only where it was, or anew.     *)
LEMMA HookSession ==
  ASSUME TypeOK, NEW s \in Sessions, SessionInv(s),
         BrowserStep \/ BrowserCloses \/ Unmount
  PROVE  SessionInv(s)'
<1> USE DEF service, wire, tunnel, browser, SessionInv, NoneLive, Attached
<1>1. CASE BrowserOpens
  BY <1>1 DEF BrowserOpens
<1>2. CASE BrowserMessage
  <2>1. clientFrames'[s] # <<>> => clientFrames[s] # <<>>
    BY <1>2 DEF BrowserMessage, TypeOK
  <2>2. QED
    BY <1>2, <2>1 DEF BrowserMessage
<1>3. CASE BrowserCloses \/ Unmount
  <2>1. clientFrames'[s] # <<>> => clientFrames[s] # <<>>
    BY <1>3 DEF BrowserCloses, Unmount, TypeOK
  <2>2. QED
    BY <1>3, <2>1 DEF BrowserCloses, Unmount
<1>4. CASE Reconnect
  <2>1. session' = session + 1 /\ session \in Nat /\ s \in Nat
    BY <1>4, Bounds DEF Reconnect, TypeOK
  <2>2. s > session' => s > session
    BY <2>1
  <2>3. Attached(s)' => s > session
    BY <2>1
  <2>4. QED
    BY <1>4, <2>2, <2>3 DEF Reconnect
<1>5. QED
  BY <1>1, <1>2, <1>3, <1>4 DEF BrowserStep

(* Every step keeps every tunnel's invariant.                              *)
LEMMA SessionStep ==
  ASSUME TypeOK, NEW t \in Sessions, SessionInv(t), [Next]_vars PROVE SessionInv(t)'
<1>1. ASSUME NEW s \in Sessions, s # t,
             TunnelStep(s) \/ \E k \in Attempts : UpstreamStep(s, k) \/ UpstreamCloses(s, k)
      PROVE  SessionInv(t)'
  BY <1>1, TunnelLocal, UntouchedSession
<1>2. CASE TunnelStep(t)
  BY <1>2, OpenTunnelSession, ClientOpensSession, ClientClosesSession, RetrySession DEF TunnelStep
<1>3. ASSUME NEW k \in Attempts, UpstreamStep(t, k) \/ UpstreamCloses(t, k) PROVE SessionInv(t)'
  BY <1>3, AcceptSession, UpstreamOpensSession, UpstreamMessageSession, UpstreamClosesSession
  DEF UpstreamStep
<1>4. CASE BrowserStep \/ BrowserCloses \/ Unmount
  BY <1>4, HookSession
<1>5. CASE Broadcast
  BY <1>5, BroadcastSession
<1>6. CASE Restart
  BY <1>6, RestartSession
<1>7. CASE UNCHANGED vars
  BY <1>7, UntouchedSession DEF vars, Untouched
<1>8. QED
  BY <1>1, <1>2, <1>3, <1>4, <1>5, <1>6, <1>7 DEF Next

-----------------------------------------------------------------------------
(* Consecutive frames.                                                     *)

(* Taking the first frame leaves the end where it is.                      *)
LEMMA EndsTail ==
  ASSUME NEW q \in Seq(Frames), q # <<>>, NEW e \in Int, Ends(q, e)
  PROVE  /\ Ends(Tail(q), e) /\ Head(q) = e - Len(q) + 1 /\ Head(q) \in Frames
         /\ Tail(q) \in Seq(Frames) /\ Len(Tail(q)) = Len(q) - 1 /\ Len(q) \in Nat
<1>1. Len(q) \in Nat /\ Len(q) > 0 /\ Len(Tail(q)) = Len(q) - 1 /\ Tail(q) \in Seq(Frames)
  OBVIOUS
<1>2. \A n \in 1..Len(Tail(q)) : Tail(q)[n] = q[n + 1]
  OBVIOUS
<1>3. Head(q) = q[1] /\ Head(q) \in Frames
  OBVIOUS
<1>4. Ends(Tail(q), e)
  BY <1>1, <1>2 DEF Ends
<1>5. Head(q) = e - Len(q) + 1
  BY <1>1, <1>3 DEF Ends
<1>6. QED
  BY <1>1, <1>3, <1>4, <1>5

(* The next frame continues it.                                            *)
LEMMA EndsAppend ==
  ASSUME NEW q \in Seq(Frames), NEW e \in Int, Ends(q, e), NEW f, f = e + 1
  PROVE  Ends(Append(q, f), f) /\ Len(Append(q, f)) = Len(q) + 1 /\ Len(q) \in Nat
BY DEF Ends

(* Nothing ends anywhere.                                                  *)
LEMMA EndsEmpty == ASSUME NEW e PROVE Ends(<<>>, e)
BY DEF Ends

(* The last element is one.                                                *)
LEMMA LastElement == ASSUME NEW S, NEW q \in Seq(S), q # <<>> PROVE q[Len(q)] \in S
OBVIOUS

(* Nothing is newer than anything.                                         *)
LEMMA NewerEmpty == ASSUME NEW f PROVE Newer(f, <<>>)
BY DEF Newer

(* What is appended to newer frames is newer, if it is.                    *)
LEMMA NewerAppend ==
  ASSUME NEW q \in Seq(Frames), NEW f, Newer(f, q), NEW next, f < next
  PROVE  Newer(f, Append(q, next))
BY DEF Newer

(* So is the rest of newer frames, and the first of them.                  *)
LEMMA NewerTail ==
  ASSUME NEW q \in Seq(Frames), q # <<>>, NEW f, Newer(f, q)
  PROVE  Newer(f, Tail(q)) /\ f < Head(q)
BY DEF Newer

-----------------------------------------------------------------------------
(* The pipe of the browser's session.                                      *)

(* What IInv says of the browser's session.                                *)
LEMMA Present ==
  ASSUME IInv
  PROVE  /\ session \in Sessions /\ session \in Nat /\ SessionInv(session) /\ TypeOK
         /\ broadcasts \in Nat /\ 0 \in 0..broadcasts
         /\ Front \in Seq(Frames) /\ clientFrames[session] \in Seq(Frames)
         /\ pendingFrames[session] \in Seq(Frames)
         /\ \A k \in Attempts : upstreamFrames[session][k] \in Seq(Frames)
<1>1. TypeOK /\ session \in Sessions /\ broadcasts \in Nat
  BY SMTT(30), Bounds DEF IInv, TypeOK
<1>2. /\ clientFrames[session] \in Seq(Frames) /\ pendingFrames[session] \in Seq(Frames)
      /\ \A k \in Attempts : upstreamFrames[session][k] \in Seq(Frames)
  BY <1>1 DEF TypeOK
<1>3. session \in Nat /\ SessionInv(session) /\ 0 \in 0..broadcasts
  BY <1>1, Bounds DEF IInv
<1>4. Front \in Seq(Frames)
  BY <1>2 DEF Front
<1>5. QED
  BY <1>1, <1>2, <1>3, <1>4

(* A pipe nothing has come through is as it should be ...                  *)
Fresh ==
  /\ broadcasts \in Nat /\ Front = <<>> /\ ~Here
  /\ \A k \in Attempts : <<session, k>> \notin clients /\ upstreamFrames[session][k] = <<>>

(* ... since nothing can be out of order in it.                            *)
LEMMA FreshPipe == Fresh => PipeInv
<1> SUFFICES ASSUME Fresh PROVE PipeInv
  OBVIOUS
<1>1. 0 \in 0..broadcasts
  BY DEF Fresh
<1>2. ASSUME NEW e PROVE Continues(e)
  <2>1. Ends(Front, e) /\ ~Here
    BY EndsEmpty DEF Fresh
  <2>2. QED
    BY <2>1 DEF Continues
<1>3. ASSUME NEW k \in Attempts PROVE UpstreamEnds(k, 0)
  <2>1. Ends(upstreamFrames[session][k], 0) /\ <<session, k>> \notin clients
    BY EndsEmpty DEF Fresh
  <2>2. QED
    BY <1>2, <2>1 DEF UpstreamEnds
<1>4. NewerThanLast(Front) /\ \A k \in Attempts : NewerThanLast(upstreamFrames[session][k])
  BY NewerEmpty DEF NewerThanLast, Fresh
<1>5. ~Begun /\ ~Here
  BY DEF Begun, Fresh
<1>6. QED
  BY <1>1, <1>2, <1>3, <1>4, <1>5 DEF PipeInv

(* ... and so it is after a step.                                          *)
LEMMA FreshNext == Fresh' => PipeInv'
BY FreshPipe, PTL

(* What the pipe is made of stays, or an upstream's part is gone with it;  *)
(* no socket opens in it, no upstream joins.                               *)
PipeKept ==
  /\ session' = session /\ received' = received /\ Front' = Front
  /\ broadcasts' = broadcasts
  /\ \A k \in Attempts :
       /\ \/ upstreamFrames'[session][k] = upstreamFrames[session][k]
          \/ upstreamFrames'[session][k] = <<>> /\ socket'[session][k] # "open"
       /\ <<session, k>> \in clients' =>
            <<session, k>> \in clients /\ upstreamFrames'[session][k] = upstreamFrames[session][k]
       /\ socket'[session][k] = "open" => socket[session][k] = "open"
       /\ socket'[session][k] \in {"connecting", "accepted"} =>
            socket[session][k] \in {"connecting", "accepted"}
  /\ retryTimer'[session] => retryTimer[session]
  /\ clientSocket[session] \in {"open", "closed"} => clientSocket'[session] \in {"open", "closed"}

(* It is then still as it should be.                                       *)
LEMMA KeptPipe == ASSUME PipeInv, PipeKept PROVE PipeInv'
<1>1. Here' <=> Here
  BY DEF PipeKept, Here, LastReceived
<1>2. LastReceived' = LastReceived /\ Front' = Front /\ broadcasts' = broadcasts
  BY DEF PipeKept, LastReceived
<1>3. ASSUME NEW e, Continues(e) PROVE Continues(e)'
  BY <1>1, <1>2, <1>3 DEF Continues
<1>4. ASSUME NEW k \in Attempts, NEW e, UpstreamEnds(k, e) PROVE UpstreamEnds(k, e)'
  <2>1. Ends(upstreamFrames[session][k], e) /\ session' = session
    BY <1>4 DEF UpstreamEnds, PipeKept
  <2>2. Ends(upstreamFrames'[session][k], e)
    <3>1. Ends(<<>>, e)
      BY EndsEmpty
    <3>2. \/ upstreamFrames'[session][k] = upstreamFrames[session][k]
          \/ upstreamFrames'[session][k] = <<>>
      BY DEF PipeKept
    <3>3. QED
      BY <2>1, <3>1, <3>2
  <2>3. <<session, k>> \in clients' => e = broadcasts'
    BY <1>4 DEF UpstreamEnds, PipeKept
  <2>4. ASSUME socket'[session][k] = "open"
        PROVE  Continues(e - Len(upstreamFrames[session][k]))'
    <3>1. PICK d : d = e - Len(upstreamFrames[session][k])
      OBVIOUS
    <3>2. Continues(d)'
      BY <1>3, <1>4, <2>4, <3>1 DEF UpstreamEnds, PipeKept
    <3>3. d = (e - Len(upstreamFrames[session][k]))'
      BY <2>4, <3>1 DEF PipeKept
    <3>4. QED
      BY <3>2, <3>3 DEF Continues
  <2>5. QED
    BY <2>1, <2>2, <2>3, <2>4 DEF UpstreamEnds
<1>5. received # <<>> /\ ~Here =>
        /\ Newer(LastReceived.frame, Front)
        /\ \A k \in Attempts : Newer(LastReceived.frame, upstreamFrames[session][k])
  BY DEF PipeInv, NewerThanLast
<1>6. received' # <<>> /\ ~Here' =>
        /\ NewerThanLast(Front)'
        /\ \A k \in Attempts : NewerThanLast(upstreamFrames[session][k])'
  <2>1. Newer(LastReceived.frame, <<>>)
    BY NewerEmpty
  <2>2. session' = session /\ received' = received
        /\ \A k \in Attempts : \/ upstreamFrames'[session][k] = upstreamFrames[session][k]
                                \/ upstreamFrames'[session][k] = <<>>
    BY DEF PipeKept
  <2>3. QED
    BY <1>1, <1>2, <1>5, <2>1, <2>2 DEF NewerThanLast
<1>7. Here' => clientSocket'[session'] \in {"open", "closed"}
  BY <1>1 DEF PipeInv, PipeKept
<1>8. Begun' =>
        /\ ~retryTimer'[session']
        /\ \A k \in Attempts : socket'[session'][k] \notin {"connecting", "accepted"}
  BY <1>1, <1>2 DEF PipeInv, PipeKept, Begun
<1>9. /\ \E e \in 0..broadcasts' : Continues(e)'
      /\ \A k \in Attempts : \E e \in 0..broadcasts' : UpstreamEnds(k, e)'
  BY <1>2, <1>3, <1>4 DEF PipeInv
<1>10. QED
  BY <1>6, <1>7, <1>8, <1>9 DEF PipeInv

(* Where nothing is live, nothing is on its way from an upstream.          *)
LEMMA NoneLiveEmpty ==
  ASSUME NEW s, SessionInv(s), NoneLive(s)
  PROVE  \A k \in Attempts : <<s, k>> \notin clients /\ upstreamFrames[s][k] = <<>>
BY DEF SessionInv, NoneLive, Live

(* A step of another session leaves the pipe alone.                        *)
LEMMA OtherPipe ==
  ASSUME PipeInv, Untouched(session), UNCHANGED <<session, received, broadcasts>>
  PROVE  PipeInv'
BY KeptPipe DEF Untouched, PipeKept, Front

(* A tunnel opens, a retry starts: nothing has come through yet.           *)
LEMMA ConnectPipe ==
  ASSUME IInv, PipeInv, OpenTunnel(session) \/ Retry(session) PROVE PipeInv'
<1>1. Front = <<>> /\ ~Here
  <2>1. CASE OpenTunnel(session)
    <3>1. clientSocket[session] = "none"
      BY <2>1 DEF OpenTunnel
    <3>2. clientFrames[session] = <<>> /\ ~Here
      BY <3>1, Present DEF SessionInv, PipeInv
    <3>3. QED
      BY <3>1, <3>2 DEF Front
  <2>2. CASE Retry(session)
    BY <2>2 DEF Retry, PipeInv, Begun
  <2>3. QED
    BY <2>1, <2>2
<1>2. NoneLive(session)
  BY Present DEF OpenTunnel, Retry, SessionInv, NoneLive, Live
<1>3. \A k \in Attempts : <<session, k>> \notin clients /\ upstreamFrames[session][k] = <<>>
  BY <1>2, Present, NoneLiveEmpty
<1>4. pendingFrames[session] = <<>> /\ clientFrames[session] = <<>>
  BY <1>1, Present DEF Front, SessionInv
<1>5. UNCHANGED <<clients, broadcasts, upstreamFrames, clientFrames, pendingFrames, session, received>>
  BY DEF OpenTunnel, Retry, service, wire, browser
<1>6. Fresh'
  BY <1>1, <1>3, <1>4, <1>5, Present DEF Fresh, Front, Here, LastReceived
<1>7. QED
  BY <1>6, FreshNext

(* The patron's socket opens: what was held back is handed over.           *)
LEMMA ClientOpensPipe ==
  ASSUME IInv, PipeInv, ClientOpens(session) PROVE PipeInv'
<1>1. /\ clientSocket[session] = "connecting" /\ clientSocket'[session] = "open"
      /\ UNCHANGED <<broadcasts, clients, upstreamFrames, socket, retryTimer, session, received>>
      /\ clientFrames'[session] = clientFrames[session] \o pendingFrames[session]
  BY Present DEF ClientOpens, Flush, TypeOK, service, browser
<1>2. clientFrames[session] = <<>>
  BY <1>1, Present DEF SessionInv
<1>3. Front' = Front
  <2>1. <<>> \o pendingFrames[session] = pendingFrames[session]
    BY Present
  <2>2. QED
    BY <1>1, <1>2, <2>1 DEF Front
<1>4. PipeKept
  BY <1>1, <1>3 DEF PipeKept
<1>5. QED
  BY <1>4, KeptPipe

(* Nothing has come through, and nothing will but what is on its way, in   *)
(* whatever state the sockets are.                                         *)
LEMMA QuietPipe ==
  ASSUME IInv, PipeInv, ~Here, Front' = <<>>, UNCHANGED <<broadcasts, session, received>>,
         \A k \in Attempts :
           \/ upstreamFrames'[session][k] = <<>>
           \/ /\ upstreamFrames'[session][k] = upstreamFrames[session][k]
              /\ <<session, k>> \in clients' => <<session, k>> \in clients
  PROVE  PipeInv'
<1>1. broadcasts \in Nat /\ broadcasts' = broadcasts /\ session' = session /\ received' = received
  BY Present
<1>2. ~Here' /\ LastReceived' = LastReceived
  BY <1>1 DEF Here, LastReceived
<1>3. \A e : Continues(e)'
  BY <1>2, EndsEmpty DEF Continues
<1>4. ASSUME NEW k \in Attempts PROVE \E e \in 0..broadcasts' : UpstreamEnds(k, e)'
  <2>1. CASE upstreamFrames'[session][k] = <<>>
    <3>1. Ends(upstreamFrames'[session'][k], broadcasts')
      BY <1>1, <2>1, EndsEmpty
    <3>2. UpstreamEnds(k, broadcasts)'
      BY <1>3, <3>1 DEF UpstreamEnds
    <3>3. broadcasts' \in 0..broadcasts'
      BY <1>1
    <3>4. QED
      BY <3>2, <3>3
  <2>2. CASE /\ upstreamFrames'[session][k] = upstreamFrames[session][k]
             /\ <<session, k>> \in clients' => <<session, k>> \in clients
    <3>1. PICK e \in 0..broadcasts : UpstreamEnds(k, e)
      BY DEF PipeInv
    <3>2. UpstreamEnds(k, e)'
      BY <1>1, <1>3, <2>2, <3>1 DEF UpstreamEnds
    <3>3. QED
      BY <1>1, <3>1, <3>2
  <2>3. QED
    BY <2>1, <2>2
<1>5. \E e \in 0..broadcasts' : Continues(e)'
  <2>1. 0 \in 0..broadcasts'
    BY <1>1
  <2>2. QED
    BY <1>3, <2>1
<1>6. received' # <<>> =>
        NewerThanLast(Front)' /\ \A k \in Attempts : NewerThanLast(upstreamFrames[session][k])'
  <2>1. Newer(LastReceived'.frame, <<>>)
    BY NewerEmpty
  <2>2. received # <<>> => \A k \in Attempts : Newer(LastReceived.frame, upstreamFrames[session][k])
    BY DEF PipeInv, NewerThanLast
  <2>3. QED
    BY <1>1, <1>2, <2>1, <2>2 DEF NewerThanLast
<1>7. ~Begun'
  BY <1>2 DEF Begun
<1>8. QED
  BY <1>2, <1>4, <1>5, <1>6, <1>7 DEF PipeInv

(* An upstream is accepted before anything has come through.               *)
LEMMA AcceptPipe ==
  ASSUME IInv, PipeInv, NEW k \in Attempts, Accept(session, k) PROVE PipeInv'
<1>1. /\ socket[session][k] = "connecting"
      /\ \A j \in Attempts : <<session, j>> \in clients' <=> <<session, j>> \in clients \/ j = k
      /\ UNCHANGED <<broadcasts, upstreamFrames, clientFrames, pendingFrames,
                     clientSocket, session, received>>
  BY Present DEF Accept, TypeOK, wire, tunnel, browser
<1>2. Front = <<>> /\ ~Here
  BY <1>1 DEF PipeInv, Begun
<1>3. Front' = <<>>
  BY <1>1, <1>2 DEF Front
<1>4. upstreamFrames[session][k] = <<>>
  BY <1>1, Present DEF SessionInv
<1>5. QED
  BY <1>1, <1>2, <1>3, <1>4, QuietPipe

(* It opens before anything has come through, too.                         *)
LEMMA UpstreamOpensPipe ==
  ASSUME IInv, PipeInv, NEW k \in Attempts, UpstreamOpens(session, k) PROVE PipeInv'
<1>1. /\ socket[session][k] = "accepted"
      /\ UNCHANGED <<broadcasts, clients, upstreamFrames, clientSocket, session, received>>
  BY DEF UpstreamOpens, service, browser
<1>2. Front = <<>> /\ ~Here
  BY <1>1 DEF PipeInv, Begun
<1>3. pendingFrames[session] = <<>> /\ clientFrames[session] = <<>>
  BY <1>2, Present DEF Front, SessionInv
<1>4. Flush(session, <<>>)
  BY <1>3 DEF UpstreamOpens
<1>5. pendingFrames'[session] = <<>> /\ clientFrames'[session] = <<>>
  <2>1. <<>> \o <<>> = <<>>
    OBVIOUS
  <2>2. QED
    BY <1>3, <1>4, <2>1, Present DEF Flush, TypeOK
<1>6. Front' = <<>>
  BY <1>1, <1>5 DEF Front
<1>7. QED
  BY <1>1, <1>2, <1>6, QuietPipe

(* An upstream closes.  Unless the tunnel shuts, nothing has come through. *)
LEMMA UpstreamClosesPipe ==
  ASSUME IInv, PipeInv, Attached(session), NEW k \in Attempts, UpstreamCloses(session, k)
  PROVE  PipeInv'
<1>1. /\ socket[session][k] \in Live
      /\ \A j \in Attempts : socket'[session][j] = IF j = k THEN "closed" ELSE socket[session][j]
      /\ \A j \in Attempts : upstreamFrames'[session][j] =
                               IF j = k THEN <<>> ELSE upstreamFrames[session][j]
      /\ \A j \in Attempts : <<session, j>> \in clients' <=> <<session, j>> \in clients /\ j # k
      /\ UNCHANGED <<broadcasts, clientFrames, session, received>>
  BY Present DEF UpstreamCloses, DropUpstream, TypeOK, Live, browser
<1>2. ~tunnelClosed[session]
  BY <1>1, Present DEF SessionInv, NoneLive
<1>3. \A j \in Attempts :
        \/ upstreamFrames'[session][j] = <<>>
        \/ /\ upstreamFrames'[session][j] = upstreamFrames[session][j]
           /\ <<session, j>> \in clients' => <<session, j>> \in clients
  BY <1>1
<1>4. CASE ShutTunnel(session)
  <2>1. /\ clientSocket'[session] = "closed" /\ ~retryTimer'[session]
        /\ Front' = clientFrames[session]
    BY <1>1, <1>4, Present DEF ShutTunnel, TypeOK, Front
  <2>2. CASE clientSocket[session] = "connecting"
    <3>1. clientFrames[session] = <<>> /\ ~Here
      BY <2>2, Present DEF SessionInv, PipeInv
    <3>2. QED
      BY <1>1, <1>3, <2>1, <3>1, QuietPipe
  <2>3. CASE clientSocket[session] # "connecting"
    <3>1. Front' = Front
      BY <2>1, <2>3 DEF Front
    <3>2. PipeKept
      BY <1>1, <2>1, <3>1 DEF PipeKept
    <3>3. QED
      BY <3>2, KeptPipe
  <2>4. QED
    BY <2>2, <2>3
<1>5. CASE ~GivesUp(session, k) /\ UNCHANGED <<pendingFrames, clientSocket>>
  <2>1. socket[session][k] # "open"
    BY <1>5, Present DEF GivesUp, SessionInv
  <2>2. Front = <<>> /\ ~Here
    BY <1>1, <2>1 DEF PipeInv, Begun, Live
  <2>3. Front' = <<>>
    BY <1>1, <1>5, <2>2 DEF Front
  <2>4. QED
    BY <1>1, <1>3, <2>2, <2>3, QuietPipe
<1>6. QED
  BY <1>2, <1>4, <1>5 DEF UpstreamCloses

(* A frame passes the gateway: handed over last, it was the upstream's     *)
(* first.                                                                  *)
LEMMA UpstreamMessagePipe ==
  ASSUME IInv, PipeInv, Attached(session), NEW k \in Attempts, UpstreamMessage(session, k)
  PROVE  PipeInv'
<1> DEFINE U == upstreamFrames[session][k]
           f == Head(U)
<1>1. /\ socket[session][k] = "open" /\ U # <<>> /\ U \in Seq(Frames)
      /\ \A j \in Attempts : upstreamFrames'[session][j] =
                               IF j = k THEN Tail(U) ELSE upstreamFrames[session][j]
      /\ UNCHANGED <<broadcasts, clients, clientSocket, socket, retryTimer, session, received>>
  BY Present DEF UpstreamMessage, TypeOK, service, browser
<1>2. clientSocket[session] \in {"connecting", "open"}
  BY <1>1, Present DEF SessionInv, NoneLive, Live, TypeOK
<1>3. PICK e \in 0..broadcasts : UpstreamEnds(k, e)
  BY DEF PipeInv
<1>4. PICK d : d = e - Len(U)
  OBVIOUS
<1>5. /\ Ends(Tail(U), e) /\ f = d + 1 /\ f \in Frames /\ f \in Int
      /\ Tail(U) \in Seq(Frames) /\ Len(Tail(U)) = Len(U) - 1 /\ Len(U) \in Nat
      /\ d \in Int /\ e \in Int
  <2>1. Ends(U, e) /\ e \in Int
    BY <1>1, <1>3, Present DEF UpstreamEnds
  <2>2. /\ Ends(Tail(U), e) /\ f = e - Len(U) + 1 /\ f \in Frames
        /\ Tail(U) \in Seq(Frames) /\ Len(Tail(U)) = Len(U) - 1 /\ Len(U) \in Nat
    BY <1>1, <2>1, EndsTail
  <2>3. d \in Int /\ f = d + 1 /\ f \in Int
    <3> HIDE DEF U, f
    <3>1. QED
      BY <1>4, <2>1, <2>2
  <2>4. QED
    BY <2>1, <2>2, <2>3
<1>6. Continues(d)
  BY <1>1, <1>3, <1>4 DEF UpstreamEnds
<1>7. Front' = Append(Front, f)
  <2>1. CASE clientSocket[session] = "connecting"
    <3>1. pendingFrames' = [pendingFrames EXCEPT ![session] = Append(@, f)]
      BY <1>1, <2>1 DEF UpstreamMessage
    <3>2. pendingFrames'[session] = Append(pendingFrames[session], f)
      BY <3>1, Present DEF TypeOK
    <3>3. QED
      BY <1>1, <2>1, <3>2 DEF Front
  <2>2. CASE clientSocket[session] = "open"
    <3>1. pendingFrames[session] = <<>>
      BY <2>2, Present DEF SessionInv
    <3>2. clientFrames' = [clientFrames EXCEPT ![session] = @ \o (<<f>> \o <<>>)]
      BY <1>1, <2>2, <3>1 DEF UpstreamMessage, Flush
    <3>3. clientFrames'[session] = clientFrames[session] \o (<<f>> \o <<>>)
      BY <3>2, Present DEF TypeOK
    <3>4. clientFrames[session] \o (<<f>> \o <<>>) = Append(clientFrames[session], f)
      BY <1>5, Present
    <3>5. QED
      BY <1>1, <2>2, <3>3, <3>4 DEF Front
  <2>3. QED
    BY <1>2, <2>1, <2>2
<1> HIDE DEF U, f
<1>8. /\ Ends(Front', f) /\ Len(Front') = Len(Front) + 1 /\ Len(Front) \in Nat
  <2>1. Ends(Front, d)
    BY <1>6 DEF Continues
  <2>2. QED
    BY <1>5, <1>7, <2>1, Present, EndsAppend
<1>9. (Here' <=> Here) /\ LastReceived' = LastReceived
  BY <1>1 DEF Here, LastReceived
<1>10. Continues(d + 1)'
  <2>1. Here => LastReceived.frame = d + 1 - Len(Front')
    BY <1>5, <1>6, <1>8 DEF Continues
  <2>2. QED
    BY <1>5, <1>8, <1>9, <2>1 DEF Continues
<1>11. UpstreamEnds(k, e)'
  <2>1. d + 1 = e - Len(Tail(U))
    BY <1>4, <1>5
  <2>2. upstreamFrames'[session'][k] = Tail(U)
    BY <1>1 DEF U
  <2>3. d + 1 = (e - Len(upstreamFrames[session][k]))'
    BY <2>1, <2>2
  <2>4. Continues(e - Len(upstreamFrames[session][k]))'
    BY <1>10, <2>3 DEF Continues
  <2>5. Ends(upstreamFrames'[session'][k], e) /\ (<<session, k>> \in clients' => e = broadcasts')
    BY <1>1, <1>3, <1>5, <2>2 DEF UpstreamEnds
  <2>6. QED
    BY <1>1, <2>4, <2>5 DEF UpstreamEnds
<1>12. ASSUME NEW j \in Attempts PROVE \E c \in 0..broadcasts' : UpstreamEnds(j, c)'
  <2>1. CASE j = k
    BY <1>1, <1>3, <1>11, <2>1
  <2>2. CASE j # k
    <3>1. PICK c \in 0..broadcasts : UpstreamEnds(j, c)
      BY DEF PipeInv
    <3>2. socket[session][j] # "open"
      BY <1>1, <2>2, Present DEF SessionInv, Live
    <3>3. UpstreamEnds(j, c)'
      BY <1>1, <2>2, <3>1, <3>2 DEF UpstreamEnds
    <3>4. QED
      BY <1>1, <3>1, <3>3
  <2>3. QED
    BY <2>1, <2>2
<1>13. \E c \in 0..broadcasts' : Continues(c)'
  <2>1. d + 1 \in 0..broadcasts'
    BY SMTT(30), <1>1, <1>3, <1>4, <1>5, Present, Bounds DEF Frames
  <2>2. QED
    BY <1>10, <2>1
<1>14. received' # <<>> /\ ~Here' =>
         NewerThanLast(Front)' /\ \A j \in Attempts : NewerThanLast(upstreamFrames[session][j])'
  <2> SUFFICES ASSUME received # <<>>, ~Here PROVE
         NewerThanLast(Front)' /\ \A j \in Attempts : NewerThanLast(upstreamFrames[session][j])'
    BY <1>1, <1>9
  <2>1. /\ Newer(LastReceived.frame, Front)
        /\ \A j \in Attempts : Newer(LastReceived.frame, upstreamFrames[session][j])
    BY DEF PipeInv, NewerThanLast
  <2>2. Newer(LastReceived.frame, Tail(U)) /\ LastReceived.frame < f
    BY <1>1, <2>1, NewerTail DEF U, f
  <2>3. Newer(LastReceived.frame, Front')
    BY <1>7, <2>1, <2>2, Present, NewerAppend
  <2>4. \A j \in Attempts : Newer(LastReceived.frame, upstreamFrames'[session'][j])
    BY <1>1, <2>1, <2>2
  <2>5. QED
    BY <1>9, <2>3, <2>4 DEF NewerThanLast
<1>15. Here' => clientSocket'[session'] \in {"open", "closed"}
  BY <1>1, <1>9 DEF PipeInv
<1>16. /\ ~retryTimer'[session']
       /\ \A j \in Attempts : socket'[session'][j] \notin {"connecting", "accepted"}
  BY <1>1, Present DEF SessionInv, NoneLive, Live
<1>17. QED
  BY <1>12, <1>13, <1>14, <1>15, <1>16 DEF PipeInv

(* A broadcast is one more frame for every client, and newer than all.     *)
LEMMA BroadcastPipe ==
  ASSUME IInv, PipeInv, Broadcast PROVE PipeInv'
<1>1. /\ broadcasts' = broadcasts + 1 /\ broadcasts \in Nat
      /\ \A j \in Attempts : upstreamFrames'[session][j] =
           IF <<session, j>> \in clients THEN Append(upstreamFrames[session][j], broadcasts + 1)
           ELSE upstreamFrames[session][j]
      /\ UNCHANGED <<clients, socket, retryTimer, clientFrames, pendingFrames, clientSocket,
                     session, received>>
  BY Present DEF Broadcast, tunnel, browser
<1>2. Front' = Front /\ (Here' <=> Here) /\ LastReceived' = LastReceived
  BY <1>1 DEF Front, Here, LastReceived
<1>3. ASSUME NEW e, Continues(e) PROVE Continues(e)'
  BY <1>2, <1>3 DEF Continues
<1>4. ASSUME NEW j \in Attempts PROVE \E e \in 0..broadcasts' : UpstreamEnds(j, e)'
  <2>1. PICK e \in 0..broadcasts : UpstreamEnds(j, e)
    BY DEF PipeInv
  <2>2. CASE <<session, j>> \in clients
    <3>1. PICK d : d = broadcasts - Len(upstreamFrames[session][j])
      OBVIOUS
    <3>2. socket[session][j] = "open" => Continues(d)'
      BY <1>3, <2>1, <2>2, <3>1 DEF UpstreamEnds
    <3>3. /\ Ends(upstreamFrames'[session'][j], broadcasts')
          /\ Len(upstreamFrames'[session'][j]) = Len(upstreamFrames[session][j]) + 1
          /\ Len(upstreamFrames[session][j]) \in Nat
      <4>1. Ends(upstreamFrames[session][j], broadcasts) /\ broadcasts \in Int
        BY <1>1, <2>1, <2>2 DEF UpstreamEnds
      <4>2. upstreamFrames'[session'][j] = Append(upstreamFrames[session][j], broadcasts')
        BY <1>1, <2>2
      <4>3. QED
        BY <1>1, <4>1, <4>2, Present, EndsAppend
    <3>4. d = broadcasts' - Len(upstreamFrames'[session'][j])
      BY <1>1, <3>1, <3>3
    <3>5. PICK b : b = broadcasts'
      OBVIOUS
    <3>6. socket'[session'][j] = "open" => Continues(b - Len(upstreamFrames[session][j]))'
      BY <1>1, <3>2, <3>4, <3>5 DEF Continues
    <3>7. UpstreamEnds(j, b)'
      BY <3>3, <3>5, <3>6 DEF UpstreamEnds
    <3>8. QED
      BY <1>1, <3>5, <3>7
  <2>3. CASE <<session, j>> \notin clients
    <3>1. UpstreamEnds(j, e)'
      BY <1>1, <1>2, <2>1, <2>3 DEF UpstreamEnds, Continues
    <3>2. QED
      BY <1>1, <2>1, <3>1
  <2>4. QED
    BY <2>2, <2>3
<1>5. \E e \in 0..broadcasts' : Continues(e)'
  BY <1>1, <1>3 DEF PipeInv
<1>6. received' # <<>> /\ ~Here' =>
        NewerThanLast(Front)' /\ \A j \in Attempts : NewerThanLast(upstreamFrames[session][j])'
  <2> SUFFICES ASSUME received # <<>>, ~Here PROVE
        NewerThanLast(Front)' /\ \A j \in Attempts : NewerThanLast(upstreamFrames[session][j])'
    BY <1>1, <1>2
  <2>1. /\ Newer(LastReceived.frame, Front)
        /\ \A j \in Attempts : Newer(LastReceived.frame, upstreamFrames[session][j])
    BY DEF PipeInv, NewerThanLast
  <2>2. LastReceived.frame < broadcasts + 1
    <3>1. received[Len(received)] \in [frame : Frames, session : Sessions]
      BY Present, LastElement DEF TypeOK
    <3>2. LastReceived.frame \in Nat
      BY <3>1, Bounds DEF LastReceived
    <3>3. LastReceived.frame <= broadcasts
      BY DEF IInv, ReceivedInv
    <3>4. QED
      BY <1>1, <3>2, <3>3
  <2>3. ASSUME NEW j \in Attempts PROVE Newer(LastReceived.frame, upstreamFrames'[session'][j])
    BY <1>1, <2>1, <2>2, Present, NewerAppend
  <2>4. QED
    BY <1>2, <2>1, <2>3 DEF NewerThanLast
<1>7. QED
  BY <1>1, <1>2, <1>4, <1>5, <1>6 DEF PipeInv, Begun

(* The service restarts: the upstreams stay as they are for now.           *)
LEMMA RestartPipe == ASSUME PipeInv, Restart PROVE PipeInv'
<1>1. PipeKept
  BY DEF Restart, PipeKept, Front, wire, tunnel, browser
<1>2. QED
  BY <1>1, KeptPipe

(* The browser's connection opens.                                         *)
LEMMA BrowserOpensPipe == ASSUME PipeInv, BrowserOpens PROVE PipeInv'
<1>1. PipeKept
  BY DEF BrowserOpens, PipeKept, Front, service, wire, tunnel
<1>2. QED
  BY <1>1, KeptPipe

(* What the browser takes is the first of what was handed over.            *)
LEMMA Taken ==
  ASSUME IInv, PipeInv, BrowserMessage
  PROVE  /\ clientSocket[session] \in {"open", "closed"} /\ Front = clientFrames[session]
         /\ Front # <<>> /\ Head(Front) \in Frames /\ Head(Front) \in Nat
         /\ Head(Front) <= broadcasts
         /\ Here => Head(Front) = LastReceived.frame + 1
         /\ received # <<>> /\ ~Here => LastReceived.frame < Head(Front)
<1>1. clientSocket[session] \in {"open", "closed"} /\ Front = clientFrames[session] /\ Front # <<>>
  BY Present DEF BrowserMessage, SessionInv, Front
<1>2. PICK e \in 0..broadcasts : Continues(e)
  BY DEF PipeInv
<1>3. Ends(Front, e) /\ e \in Int /\ e <= broadcasts
  BY <1>2, Present DEF Continues
<1>4. Head(Front) = e - Len(Front) + 1 /\ Head(Front) \in Frames /\ Len(Front) \in Nat
  BY <1>1, <1>3, Present, EndsTail
<1>5. Len(Front) > 0
  BY <1>1, Present
<1>6. Head(Front) \in Nat
  BY <1>4, Bounds
<1>7. Head(Front) <= broadcasts
  BY <1>3, <1>4, <1>5, Present
<1>8. Here => Head(Front) = LastReceived.frame + 1
  BY <1>2, <1>4 DEF Continues
<1>9. received # <<>> /\ ~Here => LastReceived.frame < Head(Front)
  <2>1. received # <<>> /\ ~Here => Newer(LastReceived.frame, Front)
    BY DEF PipeInv, NewerThanLast
  <2>2. QED
    BY <1>1, <2>1, Present, NewerTail
<1>10. QED
  BY <1>1, <1>4, <1>6, <1>7, <1>8, <1>9

(* What is left in the pipe continues it.                                  *)
LEMMA BrowserMessagePipe ==
  ASSUME IInv, PipeInv, BrowserMessage PROVE PipeInv'
<1> DEFINE message == [frame |-> Head(Front), session |-> session]
<1>1. /\ received' = Append(received, message) /\ clientFrames'[session] = Tail(Front)
      /\ UNCHANGED <<broadcasts, clients, socket, upstreamFrames, retryTimer, clientSocket,
                     pendingFrames, session>>
  BY Taken, Present DEF BrowserMessage, TypeOK, service, tunnel
<1>2. received' # <<>> /\ received'[Len(received')] = message
  <2>1. received \in Seq([frame : Frames, session : Sessions])
    BY Present DEF TypeOK
  <2> HIDE DEF message
  <2>2. QED
    BY <1>1, <2>1
<1>3. Here' /\ LastReceived'.frame = Head(Front) /\ Front' = Tail(Front)
  BY <1>1, <1>2, Taken DEF Here, LastReceived, Front
<1>4. ASSUME NEW e \in Int, Continues(e) PROVE Continues(e)'
  <2>1. Ends(Front, e)
    BY <1>4 DEF Continues
  <2>2. /\ Ends(Tail(Front), e) /\ Head(Front) = e - Len(Front) + 1
        /\ Len(Tail(Front)) = Len(Front) - 1 /\ Len(Front) \in Nat
    BY <2>1, Taken, Present, EndsTail
  <2>3. Head(Front) = e - Len(Tail(Front))
    BY <2>2
  <2>4. QED
    BY <1>3, <2>2, <2>3 DEF Continues
<1>5. ASSUME NEW j \in Attempts PROVE \E e \in 0..broadcasts' : UpstreamEnds(j, e)'
  <2>1. PICK e \in 0..broadcasts : UpstreamEnds(j, e)
    BY DEF PipeInv
  <2>2. PICK d : d = e - Len(upstreamFrames[session][j])
    OBVIOUS
  <2>3. d \in Int /\ e \in Int
    BY <2>2, Present
  <2>4. socket[session][j] = "open" => Continues(d)'
    BY <1>4, <2>1, <2>2, <2>3 DEF UpstreamEnds
  <2>5. d = (e - Len(upstreamFrames[session][j]))'
    BY <1>1, <2>2
  <2>6. socket[session][j] = "open" => Continues(e - Len(upstreamFrames[session][j]))'
    BY <2>4, <2>5 DEF Continues
  <2>7. UpstreamEnds(j, e)'
    BY <1>1, <2>1, <2>6 DEF UpstreamEnds
  <2>8. QED
    BY <1>1, <2>1, <2>7
<1>6. \E e \in 0..broadcasts' : Continues(e)'
  <2>1. PICK e \in 0..broadcasts : Continues(e)
    BY DEF PipeInv
  <2>2. e \in Int
    BY <2>1
  <2>3. QED
    BY <1>1, <1>4, <2>1, <2>2
<1>7. Begun
  BY Taken DEF Begun
<1>8. QED
  BY <1>1, <1>3, <1>5, <1>6, <1>7, Taken DEF PipeInv

(* The next session: no tunnel, and nothing in its pipe.                   *)
LEMMA ReconnectPipe == ASSUME IInv, Reconnect PROVE PipeInv'
<1>1. /\ session' = session + 1 /\ session' \in Sessions /\ session' > session
      /\ UNCHANGED <<broadcasts, clients, socket, upstreamFrames, clientFrames, pendingFrames,
                     clientSocket, received>>
  BY Present, Bounds DEF Reconnect, Sessions, service, wire, tunnel
<1>2. SessionInv(session') /\ clientSocket[session'] = "none"
  BY <1>1 DEF IInv, SessionInv
<1>3. NoneLive(session') /\ pendingFrames[session'] = <<>> /\ clientFrames[session'] = <<>>
  BY <1>2 DEF SessionInv, NoneLive, Live
<1>4. \A k \in Attempts : <<session', k>> \notin clients /\ upstreamFrames[session'][k] = <<>>
  BY <1>2, <1>3 DEF SessionInv, NoneLive, Live
<1>5. ~Here'
  <2>1. received # <<>> => LastReceived.session <= session
    BY DEF IInv, ReceivedInv
  <2>2. received # <<>> => LastReceived.session # session'
    BY <1>1, <2>1, Present
  <2>3. QED
    BY <1>1, <2>2 DEF Here, LastReceived
<1>6. Front' = <<>>
  BY <1>1, <1>3 DEF Front
<1>7. Fresh'
  BY <1>1, <1>4, <1>5, <1>6, Present DEF Fresh
<1>8. QED
  BY <1>7, FreshNext

(* A step of a tunnel neither broadcasts nor is the browser's.             *)
LEMMA TunnelStepsKeep ==
  ASSUME NEW s \in Sessions, \/ TunnelStep(s)
                             \/ \E k \in Attempts : UpstreamStep(s, k) \/ UpstreamCloses(s, k)
  PROVE  UNCHANGED <<broadcasts, hook, session, received>>
BY DEF TunnelStep, UpstreamStep, OpenTunnel, ClientOpens, ClientCloses, Retry, Accept,
       UpstreamOpens, UpstreamMessage, UpstreamCloses, service, tunnel, browser

(* Every step leaves the browser's pipe, if it has one, as it should be.   *)
LEMMA PipeStep ==
  ASSUME IInv, [Next]_vars, Attached(session)' PROVE PipeInv'
<1>1. ASSUME UNCHANGED <<hook, session>> PROVE Attached(session) /\ PipeInv
  BY <1>1 DEF Attached, IInv
<1>2. ASSUME NEW s \in Sessions, s # session,
             TunnelStep(s) \/ \E k \in Attempts : UpstreamStep(s, k) \/ UpstreamCloses(s, k)
      PROVE  PipeInv'
  BY <1>1, <1>2, Present, TunnelStepsKeep, TunnelLocal, OtherPipe
<1>3. CASE TunnelStep(session)
  <2>1. Attached(session) /\ PipeInv
    BY <1>1, <1>3, Present, TunnelStepsKeep
  <2>2. ~ClientCloses(session)
    BY <2>1 DEF ClientCloses
  <2>3. QED
    BY <1>3, <2>1, <2>2, ConnectPipe, ClientOpensPipe DEF TunnelStep
<1>4. ASSUME NEW k \in Attempts, UpstreamStep(session, k) \/ UpstreamCloses(session, k)
      PROVE  PipeInv'
  <2>1. Attached(session) /\ PipeInv
    BY <1>1, <1>4, Present, TunnelStepsKeep
  <2>2. QED
    BY <1>4, <2>1, AcceptPipe, UpstreamOpensPipe, UpstreamMessagePipe, UpstreamClosesPipe
    DEF UpstreamStep
<1>5. CASE Broadcast
  BY <1>1, <1>5, BroadcastPipe DEF Broadcast, browser
<1>6. CASE Restart
  BY <1>1, <1>6, RestartPipe DEF Restart, browser
<1>7. CASE BrowserOpens
  <2>1. Attached(session)
    BY <1>7 DEF BrowserOpens, Attached
  <2>2. QED
    BY <1>7, <2>1, BrowserOpensPipe DEF IInv
<1>8. CASE BrowserMessage
  BY <1>1, <1>8, BrowserMessagePipe DEF BrowserMessage
<1>9. CASE Reconnect
  BY <1>9, ReconnectPipe
<1>10. CASE BrowserCloses \/ Unmount
  BY <1>10 DEF BrowserCloses, Unmount, Attached
<1>11. CASE UNCHANGED vars
  <2>1. PipeKept
    BY <1>11 DEF vars, PipeKept, Front
  <2>2. QED
    BY <1>1, <1>11, <2>1, KeptPipe DEF vars
<1>12. QED
  BY <1>2, <1>3, <1>4, <1>5, <1>6, <1>7, <1>8, <1>9, <1>10, <1>11 DEF Next, BrowserStep

-----------------------------------------------------------------------------
(* What the browser has received.                                          *)

(* Only the browser's messages are received.                               *)
LEMMA ReceivedKeeps ==
  ASSUME [Next]_vars, ~BrowserMessage PROVE received' = received
<1>1. CASE \E s \in Sessions : \/ TunnelStep(s)
                               \/ \E k \in Attempts : UpstreamStep(s, k) \/ UpstreamCloses(s, k)
  BY <1>1, TunnelStepsKeep
<1>2. CASE BrowserOpens \/ Reconnect \/ BrowserCloses \/ Unmount \/ Broadcast \/ Restart
  BY <1>2 DEF BrowserOpens, Reconnect, BrowserCloses, Unmount, Broadcast, Restart, browser
<1>3. CASE UNCHANGED vars
  BY <1>3 DEF vars
<1>4. QED
  BY <1>1, <1>2, <1>3 DEF Next, BrowserStep

(* Broadcasts and sessions are only ever added.                            *)
LEMMA CountsGrow ==
  ASSUME IInv, [Next]_vars PROVE broadcasts' >= broadcasts /\ session' >= session
<1>1. CASE \E s \in Sessions : \/ TunnelStep(s)
                               \/ \E k \in Attempts : UpstreamStep(s, k) \/ UpstreamCloses(s, k)
  BY <1>1, TunnelStepsKeep, Present
<1>2. CASE BrowserStep \/ BrowserCloses \/ Unmount \/ Broadcast \/ Restart
  BY <1>2, Present DEF BrowserStep, BrowserMessage, BrowserOpens, Reconnect, BrowserCloses,
                       Unmount, Broadcast, Restart, browser, service
<1>3. CASE UNCHANGED vars
  BY <1>3, Present DEF vars
<1>4. QED
  BY <1>1, <1>2, <1>3 DEF Next

(* The message taken comes after all that were received.                   *)
LEMMA ReceivedStep ==
  ASSUME IInv, [Next]_vars PROVE ReceivedInv' /\ InOrder'
<1>1. CASE ~BrowserMessage
  <2>1. received' = received /\ broadcasts' >= broadcasts /\ session' >= session
    BY <1>1, ReceivedKeeps, CountsGrow
  <2>2. received # <<>> => received[Len(received)] \in [frame : Frames, session : Sessions]
    BY Present, LastElement DEF TypeOK
  <2>3. received # <<>> => LastReceived.frame \in Nat /\ LastReceived.session \in Nat
    BY <2>2, Bounds DEF LastReceived
  <2>4. broadcasts' \in Nat /\ session' \in Nat
    <3>1. TypeOK'
      BY TypeStep DEF IInv
    <3>2. QED
      BY <3>1, Bounds DEF TypeOK
  <2>5. received' # <<>> => LastReceived'.frame <= broadcasts' /\ LastReceived'.session <= session'
    BY <2>1, <2>3, <2>4, Present DEF IInv, ReceivedInv, LastReceived
  <2>6. InOrder'
    BY <2>1 DEF IInv, InOrder
  <2>7. QED
    BY <2>5, <2>6 DEF ReceivedInv
<1>2. CASE BrowserMessage
  <2> DEFINE message == [frame |-> Head(Front), session |-> session]
  <2>1. PipeInv
    BY <1>2 DEF BrowserMessage, Attached, IInv
  <2>2. /\ received' = Append(received, message) /\ broadcasts' = broadcasts /\ session' = session
    BY <1>2, <2>1, Taken DEF BrowserMessage, service
  <2>3. received \in Seq([frame : Frames, session : Sessions]) /\ Len(received) \in Nat
    BY Present DEF TypeOK
  <2>4. message.frame = Head(Front) /\ message.session = session
    OBVIOUS
  <2> HIDE DEF message
  <2>5. /\ received' # <<>> /\ received'[Len(received')] = message
        /\ Len(received') = Len(received) + 1
        /\ \A n \in 1..Len(received) : received'[n] = received[n]
    BY <2>2, <2>3
  <2>6. ReceivedInv'
    BY <1>2, <2>1, <2>2, <2>4, <2>5, Taken, Present DEF ReceivedInv, LastReceived
  <2>7. ASSUME NEW n \in 1..Len(received)
        PROVE  /\ received'[n].frame < received'[n + 1].frame
               /\ received'[n].session = received'[n + 1].session =>
                    received'[n + 1].frame = received'[n].frame + 1
    <3>1. CASE n < Len(received)
      <4>1. n \in 1..(Len(received) - 1) /\ n + 1 \in 1..Len(received)
        BY <2>3, <3>1
      <4>2. received'[n] = received[n] /\ received'[n + 1] = received[n + 1]
        BY <2>5, <4>1
      <4>3. QED
        BY <4>1, <4>2 DEF IInv, InOrder
    <3>2. CASE n = Len(received)
      <4>1. received'[n] = LastReceived /\ received'[n + 1] = message /\ received # <<>>
        BY <2>3, <2>5, <3>2 DEF LastReceived
      <4>2. LastReceived \in [frame : Frames, session : Sessions]
        BY <2>3, <4>1, LastElement DEF LastReceived
      <4>3. LastReceived.frame \in Nat
        BY <4>2, Bounds
      <4>4. Here => Head(Front) = LastReceived.frame + 1
        BY <1>2, <2>1, Taken
      <4>5. ~Here => LastReceived.frame < Head(Front)
        BY <1>2, <2>1, <4>1, Taken
      <4>6. LastReceived.session = session => Here
        BY <4>1 DEF Here
      <4>7. QED
        BY <2>4, <4>1, <4>3, <4>4, <4>5, <4>6
    <3>3. QED
      BY <2>3, <3>1, <3>2
  <2>8. InOrder'
    <3>1. 1..(Len(received') - 1) = 1..Len(received)
      BY <2>3, <2>5
    <3>2. QED
      BY <2>7, <3>1 DEF InOrder
  <2>9. QED
    BY <2>6, <2>8
<1>3. QED
  BY <1>1, <1>2

-----------------------------------------------------------------------------
(* The invariant and the theorems.                                         *)

(* It holds of a browser that connects for the first time ...              *)
LEMMA InitIInv == ASSUME Init PROVE IInv
<1>1. TypeOK
  <2>1. <<>> \in Seq(Frames) /\ <<>> \in Seq([frame : Frames, session : Sessions])
    OBVIOUS
  <2>2. 0 \in 0..MaxFrames /\ 0 \in 0..MaxFailures
    BY Bounds
  <2>3. QED
    BY <2>1, <2>2, Bounds DEF Init, TypeOK
<1>2. ASSUME NEW s \in Sessions PROVE SessionInv(s)
  BY Bounds DEF Init, SessionInv, NoneLive, Live, Attached
<1>3. Fresh
  BY Bounds DEF Init, Fresh, Front, Here
<1>4. ReceivedInv /\ InOrder
  BY DEF Init, ReceivedInv, InOrder
<1>5. QED
  BY <1>1, <1>2, <1>3, <1>4, FreshPipe DEF IInv

(* ... and every step keeps it.                                            *)
LEMMA NextIInv == ASSUME IInv, [Next]_vars PROVE IInv'
<1>1. TypeOK' /\ \A s \in Sessions : SessionInv(s)'
  BY TypeStep, SessionStep DEF IInv
<1>2. Attached(session)' => PipeInv'
  BY PipeStep
<1>3. ReceivedInv' /\ InOrder'
  BY ReceivedStep
<1>4. QED
  BY <1>1, <1>2, <1>3 DEF IInv

(* The invariant.                                                          *)
LEMMA Invariance == Spec => []IInv
BY InitIInv, NextIInv, PTL DEF Spec

(* Every variable of the tunnel, the service and the hook keeps its type,  *)
(* whatever the bounds: no attempt exceeds the maximum, no frame that was  *)
(* not broadcast is on its way.                                            *)
THEOREM TypeCorrect == Spec => []TypeOK
<1>1. IInv => TypeOK
  BY DEF IInv
<1>2. QED
  BY <1>1, Invariance, PTL

(* A tunnel never has two upstreams, however its retries, late opens and   *)
(* closes interleave.                                                      *)
THEOREM OneUpstream == Spec => []AtMostOneUpstream
<1>1. IInv => AtMostOneUpstream
  <2> SUFFICES ASSUME IInv, NEW s \in Sessions
               PROVE  Cardinality({k \in Attempts : socket[s][k] \in Live}) <= 1
    BY DEF AtMostOneUpstream
  <2> DEFINE upstreams == {k \in Attempts : socket[s][k] \in Live}
  <2>1. CASE upstreams = {}
    BY <2>1, FS_EmptySet
  <2>2. ASSUME NEW k \in upstreams PROVE Cardinality(upstreams) <= 1
    <3>1. upstreams = {k}
      BY <2>2 DEF IInv, SessionInv
    <3>2. QED
      BY <3>1, FS_Singleton
  <2>3. QED
    BY <2>1, <2>2
<1>2. QED
  BY <1>1, Invariance, PTL

(* The browser applies the broadcasts in their order, none of them twice   *)
(* even across its reconnections, and none is left out between two that    *)
(* one connection brought.                                                 *)
THEOREM AppliedInOrder == Spec => []InOrder
<1>1. IInv => InOrder
  BY DEF IInv
<1>2. QED
  BY <1>1, Invariance, PTL

=============================================================================
