-------------------------------- MODULE Tunnel --------------------------------
(***************************************************************************)
(* The way of a broadcast to a patron's browser: the notification service  *)
(* sends it to every registered socket, the gateway's /ws tunnel relays it *)
(* from its upstream socket to the patron's, and the web client's hook     *)
(* reconnects when its socket closes.  A connection delivers in order what *)
(* it delivers; it may be refused, or break and lose what is in flight.    *)
(***************************************************************************)
EXTENDS Integers, Sequences, FiniteSets

CONSTANTS WS_UPSTREAM_MAX_ATTEMPTS,
          MaxSessions,  \* bound on the connections one browser opens
          MaxFrames,    \* bound on broadcasts
          MaxFailures   \* bound on connections refused or broken, and restarts

ASSUME BoundAssumption ==
  /\ {WS_UPSTREAM_MAX_ATTEMPTS, MaxSessions} \subseteq Nat \ {0}
  /\ {MaxFrames, MaxFailures} \subseteq Nat

Sessions == 1..MaxSessions              \* a session is a connection and its tunnel
Attempts == 1..WS_UPSTREAM_MAX_ATTEMPTS \* an upstream socket is named by its attempt
Frames == 1..MaxFrames
Live == {"connecting", "accepted", "open"}

VARIABLES
  broadcasts,      \* frames broadcast so far; they are numbered in this order
  clients,         \* BroadcastService.clients: upstream sockets <<session, attempt>>
  socket,          \* upstream sockets, as the gateway sees them
  upstreamFrames,  \* frames on their way to an upstream socket
  upstream,        \* `upstream`: an attempt, 0 for null
  upstreamAttempt, \* `upstreamAttempt`
  retryTimer,      \* is upstreamRetryTimer pending?
  tunnelClosed,    \* `tunnelClosed`
  pendingFrames,   \* `pendingFrames`
  clientSocket,    \* the patron's socket, as the gateway sees it
  clientFrames,    \* frames on their way to the browser
  hook,            \* useCinemaSocket: its connection, or its timer
  session,         \* the connection the hook holds or last held
  received,        \* history: messages applied, and on which session
  failures

service == <<broadcasts, clients>>
wire == <<upstreamFrames, clientFrames>>
tunnel == <<upstream, upstreamAttempt, retryTimer, tunnelClosed, pendingFrames, clientSocket>>
browser == <<hook, session, received>>
vars == <<broadcasts, clients, socket, upstreamFrames, upstream, upstreamAttempt,
          retryTimer, tunnelClosed, pendingFrames, clientSocket, clientFrames,
          hook, session, received, failures>>

-----------------------------------------------------------------------------

Init ==
  /\ broadcasts = 0
  /\ clients = {}
  /\ socket = [s \in Sessions |-> [k \in Attempts |-> "none"]]
  /\ upstreamFrames = [s \in Sessions |-> [k \in Attempts |-> <<>>]]
  /\ upstream = [s \in Sessions |-> 0]
  /\ upstreamAttempt = [s \in Sessions |-> 0]
  /\ retryTimer = [s \in Sessions |-> FALSE]
  /\ tunnelClosed = [s \in Sessions |-> FALSE]
  /\ pendingFrames = [s \in Sessions |-> <<>>]
  /\ clientSocket = [s \in Sessions |-> "none"]
  /\ clientFrames = [s \in Sessions |-> <<>>]
  /\ hook \in {"connecting", "unmounted"}
  /\ session = 1
  /\ received = <<>>
  /\ failures = 0

Failure == failures < MaxFailures /\ failures' = failures + 1

(* The browser still has its end of session s.                             *)
Attached(s) == s = session /\ hook \in {"connecting", "connected"}

-----------------------------------------------------------------------------
(* Gateway.                                                                *)

(* connectUpstream                                                         *)
ConnectUpstream(s) ==
  LET attempt == upstreamAttempt[s] + 1
  IN  IF tunnelClosed[s]
      THEN UNCHANGED <<socket, upstreamAttempt>>
      ELSE /\ upstreamAttempt' = [upstreamAttempt EXCEPT ![s] = attempt]
           /\ socket' = [socket EXCEPT ![s][attempt] = "connecting"]

(* The route's handler, called with a socket that is open or about to be.  *)
OpenTunnel(s) ==
  /\ Attached(s) /\ clientSocket[s] = "none"
  /\ \E state \in {"connecting", "open"} :
       clientSocket' = [clientSocket EXCEPT ![s] = state]
  /\ ConnectUpstream(s)
  /\ UNCHANGED <<service, wire, upstream, retryTimer, tunnelClosed, pendingFrames,
                 browser, failures>>

(* closeTunnel without its last statement.                                 *)
LeaveClient(s) ==
  /\ tunnelClosed' = [tunnelClosed EXCEPT ![s] = TRUE]
  /\ pendingFrames' = [pendingFrames EXCEPT ![s] = <<>>]
  /\ retryTimer' = [retryTimer EXCEPT ![s] = FALSE]
  /\ upstream' = [upstream EXCEPT ![s] = 0]
  /\ UNCHANGED <<clientSocket, upstreamAttempt>>

(* closeTunnel, for the patron's side of it.                               *)
ShutTunnel(s) ==
  /\ tunnelClosed' = [tunnelClosed EXCEPT ![s] = TRUE]
  /\ pendingFrames' = [pendingFrames EXCEPT ![s] = <<>>]
  /\ retryTimer' = [retryTimer EXCEPT ![s] = FALSE]
  /\ upstream' = [upstream EXCEPT ![s] = 0]
  /\ clientSocket' = [clientSocket EXCEPT ![s] = "closed"]
  /\ UNCHANGED upstreamAttempt

(* An upstream socket is gone, for the notification service too.           *)
DropUpstream(s, k) ==
  /\ socket' = [socket EXCEPT ![s][k] = "closed"]
  /\ upstreamFrames' = [upstreamFrames EXCEPT ![s][k] = <<>>]
  /\ clients' = clients \ {<<s, k>>}

(* The patron's socket is closed: closeTunnel.  An upstream that is not    *)
(* open yet is not in `upstream`, and is left alone.                       *)
ClientCloses(s) ==
  /\ clientSocket[s] \in {"connecting", "open"} /\ ~Attached(s)
  /\ ShutTunnel(s)
  /\ IF upstream[s] # 0 THEN DropUpstream(s, upstream[s])
     ELSE UNCHANGED <<socket, upstreamFrames, clients>>
  /\ UNCHANGED <<broadcasts, clientFrames, browser, failures>>

(* A retry that is an interval.                                            *)
RetryAgain(s) ==
  /\ retryTimer[s]
  /\ upstreamAttempt[s] < WS_UPSTREAM_MAX_ATTEMPTS
  /\ ConnectUpstream(s)
  /\ UNCHANGED <<service, wire, upstream, retryTimer, tunnelClosed, pendingFrames,
                 clientSocket, browser, failures>>

(* setTimeout(connectUpstream)                                             *)
Retry(s) ==
  /\ retryTimer[s]
  /\ retryTimer' = [retryTimer EXCEPT ![s] = FALSE]
  /\ ConnectUpstream(s)
  /\ UNCHANGED <<service, wire, upstream, tunnelClosed, pendingFrames, clientSocket,
                 browser, failures>>

(* flushToClient of `frames`.                                              *)
Flush(s, frames) ==
  IF clientSocket'[s] = "open"
  THEN /\ clientFrames' = [clientFrames EXCEPT ![s] = @ \o frames]
       /\ pendingFrames' = [pendingFrames EXCEPT ![s] = <<>>]
  ELSE UNCHANGED <<clientFrames, pendingFrames>>

(* An "open" nobody listens to.                                            *)
OpensUnheard(s) ==
  /\ clientSocket[s] = "connecting"
  /\ clientSocket' = [clientSocket EXCEPT ![s] = "open"]
  /\ UNCHANGED <<service, wire, socket, upstream, upstreamAttempt, retryTimer, tunnelClosed,
                 pendingFrames, browser, failures>>

(* clientSocket.on("open", flushToClient)                                  *)
ClientOpens(s) ==
  /\ clientSocket[s] = "connecting"
  /\ clientSocket' = [clientSocket EXCEPT ![s] = "open"]
  /\ Flush(s, pendingFrames[s])
  /\ UNCHANGED <<service, upstreamFrames, socket, upstream, upstreamAttempt, retryTimer,
                 tunnelClosed, browser, failures>>

(* The upstream's "open", whether or not its tunnel still is.              *)
UpstreamOpens(s, k) ==
  /\ socket[s][k] = "accepted"
  /\ socket' = [socket EXCEPT ![s][k] = "open"]
  /\ upstream' = [upstream EXCEPT ![s] = k]
  /\ upstreamAttempt' = [upstreamAttempt EXCEPT ![s] = 0]
  /\ UNCHANGED clientSocket
  /\ Flush(s, pendingFrames[s])
  /\ UNCHANGED <<service, upstreamFrames, retryTimer, tunnelClosed, browser, failures>>

(* The upstream's "message": relayToClient, then flushToClient.            *)
UpstreamMessage(s, k) ==
  LET frame == Head(upstreamFrames[s][k])
  IN  /\ socket[s][k] = "open" /\ upstreamFrames[s][k] # <<>>
      /\ upstreamFrames' = [upstreamFrames EXCEPT ![s][k] = Tail(@)]
      /\ UNCHANGED clientSocket
      /\ \/ /\ clientSocket[s] = "connecting"
            /\ pendingFrames' = [pendingFrames EXCEPT ![s] = Append(@, frame)]
            /\ UNCHANGED clientFrames
         \/ /\ clientSocket[s] # "connecting"
            /\ Flush(s, <<frame>> \o pendingFrames[s])
      /\ UNCHANGED <<service, socket, upstream, upstreamAttempt, retryTimer, tunnelClosed,
                     browser, failures>>

GivesUp(s, k) ==
  \/ socket[s][k] = "open" /\ upstream[s] = k
  \/ k >= WS_UPSTREAM_MAX_ATTEMPTS

(* The upstream's "close": never opened, broken, or closed by the service. *)
UpstreamCloses(s, k) ==
  /\ \/ socket[s][k] \in Live /\ Failure
     \/ /\ socket[s][k] = "open" /\ <<s, k>> \notin clients
        /\ upstreamFrames[s][k] = <<>>
        /\ UNCHANGED failures
  /\ DropUpstream(s, k)
  /\ \/ tunnelClosed[s] /\ UNCHANGED tunnel
     \/ ~tunnelClosed[s] /\ GivesUp(s, k) /\ ShutTunnel(s)
     \/ /\ ~tunnelClosed[s] /\ ~GivesUp(s, k)
        /\ retryTimer' = [retryTimer EXCEPT ![s] = TRUE]
        /\ UNCHANGED <<upstream, upstreamAttempt, tunnelClosed, pendingFrames, clientSocket>>
  /\ UNCHANGED <<broadcasts, clientFrames, browser>>

-----------------------------------------------------------------------------
(* Notification service.                                                   *)

(* A socket is accepted and added to the clients.                          *)
Accept(s, k) ==
  /\ socket[s][k] = "connecting"
  /\ socket' = [socket EXCEPT ![s][k] = "accepted"]
  /\ clients' = clients \cup {<<s, k>>}
  /\ UNCHANGED <<broadcasts, wire, tunnel, browser, failures>>

(* A consumer's job: the payload is sent to every open client.             *)
Broadcast ==
  LET frame == broadcasts + 1
  IN  /\ broadcasts < MaxFrames
      /\ broadcasts' = frame
      /\ upstreamFrames' = [s \in Sessions |-> [k \in Attempts |->
                              IF <<s, k>> \in clients THEN Append(upstreamFrames[s][k], frame)
                              ELSE upstreamFrames[s][k]]]
      /\ UNCHANGED <<clients, socket, clientFrames, tunnel, browser, failures>>

(* The service ends; another one has no clients.                           *)
Restart ==
  /\ clients # {} /\ clients' = {}
  /\ Failure
  /\ UNCHANGED <<broadcasts, socket, wire, tunnel, browser>>

-----------------------------------------------------------------------------
(* The web client's hook.                                                  *)

BrowserOpens ==
  /\ hook = "connecting" /\ clientSocket[session] \in {"open", "closed"}
  /\ hook' = "connected"
  /\ UNCHANGED <<service, socket, wire, tunnel, session, received, failures>>

(* onmessage: applyMessage                                                 *)
BrowserMessage ==
  /\ hook = "connected" /\ clientFrames[session] # <<>>
  /\ received' = Append(received, [frame |-> Head(clientFrames[session]), session |-> session])
  /\ clientFrames' = [clientFrames EXCEPT ![session] = Tail(@)]
  /\ UNCHANGED <<service, socket, upstreamFrames, tunnel, hook, session, failures>>

(* onclose: the gateway has closed, or the connection failed.              *)
BrowserCloses ==
  /\ Attached(session)
  /\ \/ /\ clientSocket[session] = "closed" /\ clientFrames[session] = <<>>
        /\ UNCHANGED <<clientFrames, failures>>
     \/ /\ Failure
        /\ clientFrames' = [clientFrames EXCEPT ![session] = <<>>]
  /\ hook' = "waiting"
  /\ UNCHANGED <<service, socket, upstreamFrames, tunnel, session, received>>

(* setTimeout(connect, delay)                                              *)
Reconnect ==
  /\ hook = "waiting" /\ session < MaxSessions
  /\ hook' = "connecting"
  /\ session' = session + 1
  /\ UNCHANGED <<service, socket, wire, tunnel, received, failures>>

(* The effect's cleanup: the patron leaves.                                *)
Unmount ==
  /\ hook # "unmounted"
  /\ hook' = "unmounted"
  /\ clientFrames' = [clientFrames EXCEPT ![session] = <<>>]
  /\ UNCHANGED <<service, socket, upstreamFrames, tunnel, session, received, failures>>

-----------------------------------------------------------------------------

TunnelStep(s) ==
  \/ OpenTunnel(s)
  \/ ClientOpens(s)
  \/ ClientCloses(s)
  \/ Retry(s)

UpstreamStep(s, k) ==
  \/ Accept(s, k)
  \/ UpstreamOpens(s, k)
  \/ UpstreamMessage(s, k)

BrowserStep == BrowserOpens \/ BrowserMessage \/ Reconnect

Next ==
  \/ \E s \in Sessions : TunnelStep(s)
  \/ \E s \in Sessions, k \in Attempts : UpstreamStep(s, k) \/ UpstreamCloses(s, k)
  \/ BrowserStep \/ BrowserCloses
  \/ Broadcast \/ Restart \/ Unmount

(* Every event of a socket or a timer is handled, every connection that is *)
(* not refused is accepted, and a socket closed by one end is closed by    *)
(* the other.  Nothing makes anybody broadcast, leave or fail.             *)
Fairness ==
  /\ \A s \in Sessions : WF_vars(TunnelStep(s))
  /\ \A s \in Sessions, k \in Attempts :
       /\ WF_vars(UpstreamStep(s, k))
       /\ WF_vars(UpstreamCloses(s, k) /\ UNCHANGED failures)
  /\ WF_vars(BrowserStep)
  /\ WF_vars(BrowserCloses /\ UNCHANGED failures)

Spec == Init /\ [][Next]_vars
FairSpec == Spec /\ Fairness

-----------------------------------------------------------------------------
(* Properties.                                                             *)

(* Every variable keeps its type.                                          *)
TypeOK ==
  /\ broadcasts \in 0..MaxFrames
  /\ clients \subseteq Sessions \X Attempts
  /\ socket \in [Sessions -> [Attempts -> Live \cup {"none", "closed"}]]
  /\ upstreamFrames \in [Sessions -> [Attempts -> Seq(Frames)]]
  /\ upstream \in [Sessions -> Attempts \cup {0}]
  /\ upstreamAttempt \in [Sessions -> Attempts \cup {0}]
  /\ retryTimer \in [Sessions -> BOOLEAN]
  /\ tunnelClosed \in [Sessions -> BOOLEAN]
  /\ pendingFrames \in [Sessions -> Seq(Frames)]
  /\ clientSocket \in [Sessions -> {"none", "connecting", "open", "closed"}]
  /\ clientFrames \in [Sessions -> Seq(Frames)]
  /\ hook \in {"connecting", "connected", "waiting", "unmounted"}
  /\ session \in Sessions
  /\ received \in Seq([frame : Frames, session : Sessions])
  /\ failures \in 0..MaxFailures

(* The patron never gets a broadcast twice nor an older one after a newer, *)
(* across all reconnections; and within a connection nothing is left out.  *)
InOrder ==
  \A n \in 1..(Len(received) - 1) :
    LET one == received[n]
        next == received[n + 1]
    IN  /\ one.frame < next.frame
        /\ one.session = next.session => next.frame = one.frame + 1

(* A tunnel never has two upstreams: not by a retry that overtakes a late  *)
(* "open", and after the patron has left the one that was connecting is    *)
(* all that can be left behind.                                            *)
AtMostOneUpstream ==
  \A s \in Sessions : Cardinality({k \in Attempts : socket[s][k] \in Live}) <= 1

(* Once connections stop failing, a patron who stays gets a feed, keeps it *)
(* and is shown all that comes: no tunnel is left open without an upstream *)
(* that works or a retry, and no frame is left in its pipe.                *)
Fed ==
  /\ hook = "connected" /\ clientSocket[session] = "open"
  /\ upstream[session] # 0 /\ <<session, upstream[session]>> \in clients
Drained ==
  /\ clientFrames[session] = <<>> /\ pendingFrames[session] = <<>>
  /\ upstream[session] # 0 => upstreamFrames[session][upstream[session]] = <<>>
Reconnects == <>[](hook = "unmounted" \/ (Fed /\ Drained))

=============================================================================
