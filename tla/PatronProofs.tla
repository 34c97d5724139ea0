----------------------------- MODULE PatronProofs -----------------------------
(***************************************************************************)
(* Theorems about the patron's page, for any number of tabs, calls, orders *)
(* and checkouts: what the browser's session, the orders it tracks and the *)
(* cart promise.  Each part has an inductive invariant of its own.         *)
(***************************************************************************)
EXTENDS PatronSession, OrderTracking, PatronCart, Sums, SequenceTheorems,
        FiniteSetTheorems, TLAPS

(* The session.                                                             *)

(* The browser has at most one session; every token issued, and every       *)
(* signup or login under way, is of that session.                           *)
CallOfSession(c) ==
  /\ call[c].token \in 0..Len(issued)
  /\ call[c].step = "me" => call[c].asked \in 1..Len(issued)
  /\ call[c].step \in {"signup", "login"} => call[c].asked = storage.session /\ storage.session # 0
  /\ call[c].answer = "200" => call[c].token # 0

BrowserOfSession ==
  /\ storage.session = minted
  /\ \A n \in 1..Len(issued) : issued[n] = storage.session /\ storage.session # 0
  /\ storage.token \in 0..Len(issued)
  /\ \A t \in Tabs : tab[t].token \in 0..Len(issued)

(* The inductive invariant of the session.                                  *)
SessionInv == SessionTypeOK /\ BrowserOfSession /\ \A c \in Calls : CallOfSession(c)

(* A browser starts with nothing.                                           *)
LEMMA SessionStart == SessionInit => SessionInv
<1> SUFFICES ASSUME SessionInit PROVE SessionInv
  OBVIOUS
<1> USE SessionAssumption DEF SessionInit
<1>1. Quiet \in [step : {"none", "me", "signup", "login"}, asked : Nat, token : Nat,
                 answer : {"none", "200", "401", "404", "409", "lost"}]
  BY DEF Quiet
<1>2. issued \in Seq(Nat) /\ Len(issued) = 0
  OBVIOUS
<1>3. SessionTypeOK
  BY <1>1, <1>2 DEF SessionTypeOK
<1>4. BrowserOfSession /\ \A c \in Calls : CallOfSession(c)
  BY <1>2 DEF BrowserOfSession, CallOfSession, Quiet
<1>. QED BY <1>3, <1>4 DEF SessionInv

Answers == {"none", "200", "401", "404", "409", "lost"}
CallType == [step : {"none", "me", "signup", "login"}, asked : Nat, token : Nat,
             answer : Answers]

(* What the invariant says of the types.                                    *)
LEMMA SessionFacts ==
  ASSUME SessionInv
  PROVE  /\ call \in [Calls -> CallType] /\ issued \in Seq(Nat) /\ Len(issued) \in Nat
         /\ users \subseteq Nat /\ expired \subseteq Nat /\ minted \in Nat
         /\ storage \in [token : Nat, session : Nat]
         /\ tab \in [Tabs -> [token : Nat, ready : BOOLEAN]]
         /\ loads \in 0..MaxTabLoads /\ lost \in 0..MaxLost
BY DEF SessionInv, SessionTypeOK, CallType, Answers

(* A step that changes one request, forgets no token issued and keeps the   *)
(* session once there is one.                                               *)
LEMMA OneCallStep ==
  ASSUME SessionInv, NEW c \in Calls,
         SessionTypeOK', BrowserOfSession', CallOfSession(c)',
         \A d \in Calls \ {c} : call'[d] = call[d],
         Len(issued) <= Len(issued'),
         storage.session # 0 => storage'.session = storage.session
  PROVE  SessionInv'
<1>1. Len(issued) \in Nat /\ Len(issued') \in Nat
  BY SessionFacts DEF SessionTypeOK
<1>2. ASSUME NEW d \in Calls \ {c} PROVE CallOfSession(d)'
  <2>1. CallOfSession(d) /\ call'[d] = call[d]
    BY DEF SessionInv
  <2>. QED BY <1>1, <2>1 DEF CallOfSession
<1>. QED BY <1>2 DEF SessionInv

(* An answer of the service that signs no token, or a lost one.             *)
LEMMA PlainAnswer ==
  ASSUME SessionInv, NEW c \in Calls, NEW answer \in Answers, NEW token \in 0..Len(issued),
         answer = "200" => token # 0,
         Reply(c, answer, token), UNCHANGED <<server, client, loads>>, lost' \in 0..MaxLost
  PROVE  SessionInv'
<1>0. CallOfSession(c) /\ BrowserOfSession
  BY DEF SessionInv
<1>1. /\ users' = users /\ issued' = issued /\ expired' = expired /\ storage' = storage
      /\ minted' = minted /\ tab' = tab /\ loads' = loads
  BY DEF server, client
<1>2. token \in Nat /\ Len(issued) \in Nat /\ call \in [Calls -> CallType]
  BY SessionFacts
<1>3. call' \in [Calls -> CallType]
  BY <1>2 DEF Reply, CallType
<1>4. /\ call'[c].answer = answer /\ call'[c].token = token
      /\ call'[c].step = call[c].step /\ call'[c].asked = call[c].asked
      /\ \A d \in Calls \ {c} : call'[d] = call[d]
  BY <1>2 DEF Reply, CallType
<1>5. SessionTypeOK'
  BY <1>1, <1>3, SessionFacts DEF SessionTypeOK, CallType, Answers
<1>6. BrowserOfSession'
  BY <1>0, <1>1 DEF BrowserOfSession
<1>7. CallOfSession(c)'
  BY <1>0, <1>1, <1>4 DEF CallOfSession
<1>. QED BY <1>1, <1>2, <1>4, <1>5, <1>6, <1>7, OneCallStep

(* A token is signed for the session that asked.                            *)
LEMMA SignedAnswer ==
  ASSUME SessionInv, NEW c \in Calls, call[c].step \in {"signup", "login"}, SignToken(c),
         users' \subseteq Nat, UNCHANGED <<expired, client, bounds>>
  PROVE  SessionInv'
<1>0. CallOfSession(c) /\ BrowserOfSession
  BY DEF SessionInv
<1>1. /\ expired' = expired /\ storage' = storage /\ lost' = lost
      /\ minted' = minted /\ tab' = tab /\ loads' = loads
  BY DEF client, bounds
<1>2. /\ call \in [Calls -> CallType] /\ call[c] \in CallType
      /\ issued \in Seq(Nat) /\ Len(issued) \in Nat
  BY SessionFacts
<1>3. /\ issued' \in Seq(Nat) /\ Len(issued') = Len(issued) + 1
      /\ \A n \in 1..Len(issued) : issued'[n] = issued[n]
      /\ issued'[Len(issued) + 1] = call[c].asked
  BY <1>2 DEF SignToken, CallType
<1>4. call' \in [Calls -> CallType]
  <2>1. Len(issued') \in Nat /\ call' = [call EXCEPT ![c].answer = "200", ![c].token = Len(issued')]
    BY <1>2, <1>3 DEF SignToken, Reply
  <2>2. PICK n \in Nat : n = Len(issued')
    BY <2>1
  <2>3. call' = [call EXCEPT ![c].answer = "200", ![c].token = n]
    BY <2>1, <2>2
  <2>. QED BY <1>2, <2>3 DEF CallType, Answers
<1>5. /\ call'[c].answer = "200" /\ call'[c].token = Len(issued) + 1
      /\ call'[c].step = call[c].step /\ call'[c].asked = call[c].asked
      /\ \A d \in Calls \ {c} : call'[d] = call[d]
  BY <1>2, <1>3 DEF SignToken, Reply, CallType
<1>6. SessionTypeOK'
  BY <1>1, <1>3, <1>4, SessionFacts DEF SessionTypeOK, CallType, Answers
<1>7. call[c].asked = storage.session /\ storage.session # 0
  BY <1>0 DEF CallOfSession
<1>8. BrowserOfSession'
  <2>1. ASSUME NEW n \in 1..Len(issued') PROVE issued'[n] = storage.session
    <3>1. CASE n = Len(issued) + 1
      BY <1>3, <1>7, <3>1
    <3>2. CASE n # Len(issued) + 1
      <4>1. n \in 1..Len(issued)
        BY <1>2, <1>3, <3>2
      <4>. QED BY <1>0, <1>3, <4>1 DEF BrowserOfSession
    <3>. QED BY <3>1, <3>2
  <2>2. storage.token \in 0..Len(issued') /\ \A t \in Tabs : tab[t].token \in 0..Len(issued')
    BY <1>0, <1>2, <1>3 DEF BrowserOfSession
  <2>. QED BY <1>0, <1>1, <1>7, <2>1, <2>2 DEF BrowserOfSession
<1>9. CallOfSession(c)'
  BY <1>1, <1>2, <1>3, <1>5, <1>7 DEF CallOfSession
<1>. QED BY <1>1, <1>2, <1>3, <1>5, <1>6, <1>8, <1>9, OneCallStep

(* The service's answers.                                                   *)
LEMMA HandleStep ==
  ASSUME SessionInv, NEW c \in Calls, Handle(c) PROVE SessionInv'
<1>0. call[c] \in CallType /\ CallOfSession(c) /\ lost \in 0..MaxLost /\ Len(issued) \in Nat
      /\ users \subseteq Nat /\ 0 \in 0..Len(issued)
  BY SessionFacts DEF SessionInv
<1>b. UNCHANGED bounds => loads' = loads /\ lost' = lost
  BY DEF bounds
<1>1. CASE Me(c)
  <2>1. call[c].asked \in 1..Len(issued)
    BY <1>0, <1>1 DEF Me, Awaiting, CallOfSession
  <2>2. PICK answer \in {"401", "404", "200"} : Reply(c, answer, call[c].asked)
    BY <1>1 DEF Me
  <2>3. UNCHANGED <<server, client, bounds>>
    BY <1>1 DEF Me
  <2>4. PICK token \in 0..Len(issued) : token = call[c].asked /\ token # 0
    BY <1>0, <2>1
  <2>. QED BY <1>0, <1>b, <2>2, <2>3, <2>4, PlainAnswer DEF Answers
<1>2. CASE Signup(c)
  <2>1. CASE call[c].asked \in users
    <3>1. Reply(c, "409", 0) /\ UNCHANGED <<server, client, loads>> /\ lost' \in 0..MaxLost
      BY <1>0, <1>b, <1>2, <2>1 DEF Signup, CreatePatron, server
    <3>. QED BY <1>0, <3>1, PlainAnswer DEF Answers
  <2>2. CASE call[c].asked \notin users
    <3>1. /\ SignToken(c) /\ users' \subseteq Nat /\ UNCHANGED <<expired, client, bounds>>
          /\ call[c].step \in {"signup", "login"}
      BY <1>0, <1>2, <2>2 DEF Signup, CreatePatron, CallType, Awaiting
    <3>. QED BY <3>1, SignedAnswer
  <2>. QED BY <2>1, <2>2
<1>3. CASE Login(c)
  <2>1. CASE call[c].asked \notin users
    <3>1. Reply(c, "404", 0) /\ UNCHANGED <<server, client, loads>> /\ lost' \in 0..MaxLost
      BY <1>0, <1>b, <1>3, <2>1 DEF Login, server
    <3>. QED BY <1>0, <3>1, PlainAnswer DEF Answers
  <2>2. CASE call[c].asked \in users
    <3>1. /\ SignToken(c) /\ users' \subseteq Nat /\ UNCHANGED <<expired, client, bounds>>
          /\ call[c].step \in {"signup", "login"}
      BY <1>0, <1>3, <2>2 DEF Login, Awaiting
    <3>. QED BY <3>1, SignedAnswer
  <2>. QED BY <2>1, <2>2
<1>. QED BY <1>1, <1>2, <1>3 DEF Handle

(* The browser's session id is drawn once.                                  *)
LEMMA KeepFacts ==
  ASSUME SessionInv, KeepSession(0)
  PROVE  /\ storage' \in [token : Nat, session : Nat] /\ minted' \in Nat
         /\ storage'.token = 0 /\ storage'.session = SessionId /\ storage'.session = minted'
         /\ SessionId # 0 /\ SessionId \in Nat
         /\ storage.session # 0 => SessionId = storage.session
<1>1. storage.session = minted /\ minted \in Nat
  BY SessionFacts DEF SessionInv, BrowserOfSession
<1>. QED BY <1>1 DEF KeepSession, SessionId

(* A bootstrap with a token of the session keeps it.                        *)
LEMMA AdmitStep ==
  ASSUME SessionInv, NEW c \in Calls, Admit(c) PROVE SessionInv'
<1>0. CallOfSession(c) /\ BrowserOfSession /\ call[c] \in CallType /\ c[1] \in Tabs
  BY SessionFacts DEF SessionInv, Calls
<1>1. call[c].token \in 1..Len(issued)
  BY <1>0, SessionFacts DEF Admit, Ok, CallOfSession
<1>2. /\ users' = users /\ issued' = issued /\ expired' = expired /\ minted' = minted
      /\ loads' = loads /\ lost' = lost
  BY DEF Admit, server, bounds
<1>3. /\ storage' \in [token : Nat, session : Nat] /\ storage'.session = storage.session
      /\ storage'.token \in {storage.token, call[c].token}
  BY <1>0, SessionFacts DEF Admit, CallType
<1>4. /\ tab' \in [Tabs -> [token : Nat, ready : BOOLEAN]]
      /\ \A t \in Tabs : tab'[t].token \in {tab[t].token, call[c].token}
  BY <1>0, SessionFacts DEF Admit, CallType
<1>5. call' \in [Calls -> CallType] /\ call'[c] = Quiet /\ \A d \in Calls \ {c} : call'[d] = call[d]
  BY SessionFacts DEF Admit, Quiet, CallType, Answers
<1>6. SessionTypeOK'
  BY <1>2, <1>3, <1>4, <1>5, SessionFacts DEF SessionTypeOK, CallType, Answers
<1>7. BrowserOfSession'
  <2>1. Len(issued) \in Nat /\ call[c].token \in 0..Len(issued)
    BY <1>1, SessionFacts
  <2>2. storage'.token \in 0..Len(issued) /\ \A t \in Tabs : tab'[t].token \in 0..Len(issued)
    BY <1>0, <1>3, <1>4, <2>1 DEF BrowserOfSession
  <2>. QED BY <1>0, <1>2, <1>3, <2>2 DEF BrowserOfSession
<1>8. CallOfSession(c)'
  BY <1>2, <1>5, SessionFacts DEF CallOfSession, Quiet
<1>. QED BY <1>2, <1>3, <1>5, <1>6, <1>7, <1>8, SessionFacts, OneCallStep

(* A refused token is dropped, and the session signs up.                    *)
LEMMA DropTokenStep ==
  ASSUME SessionInv, NEW c \in Calls, DropToken(c) PROVE SessionInv'
<1>0. CallOfSession(c) /\ BrowserOfSession /\ call[c] \in CallType /\ c[1] \in Tabs
  BY SessionFacts DEF SessionInv, Calls
<1>1. storage.session # 0
  BY <1>0, SessionFacts DEF DropToken, CallOfSession, BrowserOfSession
<1>2. /\ users' = users /\ issued' = issued /\ expired' = expired
      /\ loads' = loads /\ lost' = lost
  BY DEF DropToken, server, bounds
<1>3. /\ storage' \in [token : Nat, session : Nat] /\ storage'.session = storage.session
      /\ storage'.token = 0 /\ minted' = storage'.session /\ minted' \in Nat
      /\ SessionId = storage.session /\ SessionId \in Nat
  BY <1>1, KeepFacts DEF DropToken
<1>4. /\ tab' \in [Tabs -> [token : Nat, ready : BOOLEAN]]
      /\ \A t \in Tabs : tab'[t].token \in {tab[t].token, 0}
  BY <1>0, SessionFacts DEF DropToken
<1>5. /\ call' \in [Calls -> CallType] /\ call'[c] = Request("signup", SessionId)
      /\ \A d \in Calls \ {c} : call'[d] = call[d]
  BY <1>3, SessionFacts DEF DropToken, Quiet, Request, CallType, Answers
<1>6. SessionTypeOK'
  BY <1>2, <1>3, <1>4, <1>5, SessionFacts DEF SessionTypeOK, CallType, Answers
<1>7. BrowserOfSession'
  BY <1>0, <1>1, <1>2, <1>3, <1>4, SessionFacts DEF BrowserOfSession
<1>8. CallOfSession(c)'
  BY <1>1, <1>2, <1>3, <1>5, SessionFacts DEF CallOfSession, Quiet, Request
<1>. QED BY <1>2, <1>3, <1>5, <1>6, <1>7, <1>8, SessionFacts, OneCallStep

(* A 409 leads to a login, any other error to a message.                    *)
LEMMA ErrorStep ==
  ASSUME SessionInv, NEW c \in Calls, LogIn(c) \/ GiveUp(c) PROVE SessionInv'
<1>0. CallOfSession(c) /\ BrowserOfSession /\ call[c] \in CallType /\ c[1] \in Tabs
  BY SessionFacts DEF SessionInv, Calls
<1>1. PICK new \in CallType :
        /\ call' = [call EXCEPT ![c] = new]
        /\ new.token = 0 /\ new.answer = "none" /\ new.step \in {"none", "login"}
        /\ new.step = "login" => new.asked = call[c].asked /\ call[c].step = "signup"
  <2>1. CASE LogIn(c)
    <3>1. Request("login", call[c].asked) \in CallType
      BY <1>0 DEF Request, Quiet, CallType, Answers
    <3>. QED BY <2>1, <3>1 DEF LogIn, Known, Request, Quiet
  <2>2. CASE GiveUp(c)
    <3>1. Quiet \in CallType
      BY DEF Quiet, CallType, Answers
    <3>. QED BY <2>2, <3>1 DEF GiveUp, Quiet
  <2>. QED BY <2>1, <2>2
<1>2. /\ users' = users /\ issued' = issued /\ expired' = expired
      /\ loads' = loads /\ lost' = lost /\ storage' = storage /\ minted' = minted
  BY DEF LogIn, GiveUp, server, client, bounds
<1>3. /\ tab' \in [Tabs -> [token : Nat, ready : BOOLEAN]]
      /\ \A t \in Tabs : tab'[t].token = tab[t].token
  <2>1. CASE LogIn(c)
    BY <2>1, SessionFacts DEF LogIn, client
  <2>2. CASE GiveUp(c)
    <3>1. tab' = [tab EXCEPT ![c[1]].ready = FALSE] /\ tab \in [Tabs -> [token : Nat, ready : BOOLEAN]]
      BY <2>2, SessionFacts DEF GiveUp
    <3>. QED BY <1>0, <3>1
  <2>. QED BY <2>1, <2>2
<1>4. call' \in [Calls -> CallType] /\ call'[c] = new /\ \A d \in Calls \ {c} : call'[d] = call[d]
  BY <1>1, SessionFacts
<1>5. SessionTypeOK'
  BY <1>2, <1>3, <1>4, SessionFacts DEF SessionTypeOK, CallType, Answers
<1>6. BrowserOfSession'
  BY <1>0, <1>2, <1>3 DEF BrowserOfSession
<1>7. CallOfSession(c)'
  BY <1>0, <1>1, <1>2, <1>4, SessionFacts DEF CallOfSession
<1>. QED BY <1>2, <1>4, <1>5, <1>6, <1>7, SessionFacts, OneCallStep

(* All the bootstraps of a tab start with the browser's token, or sign up   *)
(* as its one session.                                                      *)
LEMMA LoadTabStep ==
  ASSUME SessionInv, NEW t \in Tabs, LoadTab(t) PROVE SessionInv'
<1>0. BrowserOfSession /\ \A c \in Calls : CallOfSession(c)
  BY DEF SessionInv
<1>1. /\ users' = users /\ issued' = issued /\ expired' = expired /\ lost' = lost
      /\ loads' \in 0..MaxTabLoads
  BY SessionFacts, SessionAssumption DEF LoadTab, server
<1>2. /\ storage' \in [token : Nat, session : Nat] /\ minted' = storage'.session /\ minted' \in Nat
      /\ storage'.token = storage.token
      /\ storage.session # 0 => storage'.session = storage.session
      /\ storage.token = 0 => storage'.session = SessionId /\ SessionId # 0 /\ SessionId \in Nat
  BY <1>0, SessionFacts, KeepFacts DEF LoadTab, BrowserOfSession
<1>3. /\ tab' \in [Tabs -> [token : Nat, ready : BOOLEAN]]
      /\ \A u \in Tabs : tab'[u].token \in {tab[u].token, storage.token}
  BY SessionFacts DEF LoadTab
<1>4. /\ FirstRequest \in CallType /\ FirstRequest.token = 0 /\ FirstRequest.answer = "none"
      /\ FirstRequest.step = "me" => FirstRequest.asked = storage.token /\ storage.token # 0
      /\ FirstRequest.step \in {"signup", "login"} =>
           FirstRequest.asked = storage'.session /\ storage'.session # 0
  BY <1>2, SessionFacts DEF FirstRequest, Request, Quiet, CallType, Answers
<1>5. call' \in [Calls -> CallType] /\ \A c \in Calls : call'[c] \in {call[c], FirstRequest}
  BY <1>4, SessionFacts DEF LoadTab
<1>6. SessionTypeOK'
  BY <1>1, <1>2, <1>3, <1>5, SessionFacts DEF SessionTypeOK, CallType, Answers
<1>7. BrowserOfSession'
  BY <1>0, <1>1, <1>2, <1>3, SessionFacts DEF BrowserOfSession
<1>8. ASSUME NEW c \in Calls PROVE CallOfSession(c)'
  <2>1. CASE call'[c] = call[c]
    BY <1>0, <1>1, <1>2, <2>1 DEF CallOfSession
  <2>2. CASE call'[c] = FirstRequest
    <3>1. storage.token # 0 => storage.token \in 1..Len(issued)
      BY <1>0, SessionFacts DEF BrowserOfSession
    <3>. QED BY <1>0, <1>1, <1>4, <2>2, <3>1, SessionFacts DEF CallOfSession
  <2>. QED BY <1>5, <2>1, <2>2
<1>. QED BY <1>6, <1>7, <1>8 DEF SessionInv

(* Each step keeps the invariant.                                           *)
LEMMA SessionStep == SessionInv /\ [SessionNext]_sessionVars => SessionInv'
<1> SUFFICES ASSUME SessionInv, [SessionNext]_sessionVars PROVE SessionInv'
  OBVIOUS
<1>1. ASSUME NEW t \in Tabs, LoadTab(t) PROVE SessionInv'
  BY <1>1, LoadTabStep
<1>2. ASSUME NEW c \in Calls, Handle(c) \/ Resume(c) PROVE SessionInv'
  BY <1>2, HandleStep, AdmitStep, DropTokenStep, ErrorStep DEF Resume
<1>3. ASSUME NEW c \in Calls, LoseCall(c) PROVE SessionInv'
  <2>1. lost' \in 0..MaxLost /\ 0 \in 0..Len(issued)
    BY <1>3, SessionFacts, SessionAssumption DEF LoseCall
  <2>. QED BY <1>3, <2>1, PlainAnswer DEF LoseCall, Answers
<1>4. ASSUME NEW token \in DOMAIN issued, Expire(token) PROVE SessionInv'
  <2>1. /\ expired' \subseteq Nat /\ users' = users /\ issued' = issued /\ storage' = storage
        /\ minted' = minted /\ tab' = tab /\ call' = call /\ loads' = loads /\ lost' = lost
    BY <1>4, SessionFacts DEF Expire, client, bounds
  <2>. QED BY <2>1 DEF SessionInv, SessionTypeOK, BrowserOfSession, CallOfSession
<1>5. CASE UNCHANGED sessionVars
  BY <1>5 DEF sessionVars, SessionInv, SessionTypeOK, BrowserOfSession, CallOfSession
<1>. QED BY <1>1, <1>2, <1>3, <1>4, <1>5 DEF SessionNext

(* Every variable of the session keeps its type.                            *)
THEOREM SessionTypeCorrect == SessionSpec => []SessionTypeOK
<1>1. SessionInv => SessionTypeOK
  BY DEF SessionInv
<1>. QED BY <1>1, SessionStart, SessionStep, PTL DEF SessionSpec

(* Whatever token a tab acts with is one of the browser's one session.      *)
THEOREM OnePatronABrowser == SessionSpec => []OneIdentity
<1>1. SessionInv => OneIdentity
  BY SessionFacts DEF SessionInv, BrowserOfSession, OneIdentity
<1>. QED BY <1>1, SessionStart, SessionStep, PTL DEF SessionSpec

-----------------------------------------------------------------------------
(* The orders of a patron, and what the page is told of them.               *)

(* What the page was told of an order, then the messages on their way to it *)
(* in the order of the feed, the update still to be announced, and the row: *)
(* none is behind the one before.  A cancelled row is not part of it: no    *)
(* message says so, and no message follows.                                 *)
FeedInOrder ==
  \A k \in 1..Len(feed) :
    /\ Rank(told[feed[k][1]]) <= Rank(feed[k][2])
    /\ \A j \in 1..k : feed[j][1] = feed[k][1] => Rank(feed[j][2]) <= Rank(feed[k][2])
AnnouncedInTurn ==
  \A m \in announcing :
    /\ Rank(told[m[1]]) <= Rank(m[2])
    /\ \A k \in 1..Len(feed) : feed[k][1] = m[1] => Rank(feed[k][2]) <= Rank(m[2])
    /\ \A n \in announcing : n[1] = m[1] => n = m
RowAhead ==
  \A o \in Orders : row[o] # "cancelled" =>
    /\ Rank(told[o]) <= Rank(row[o])
    /\ \A k \in 1..Len(feed) : feed[k][1] = o => Rank(feed[k][2]) <= Rank(row[o])
    /\ \A m \in announcing : m[1] = o => Rank(m[2]) <= Rank(row[o])
LoadType ==
  load \in [1..MaxLoads -> [step : {"unused", "asked", "read", "settled"},
                            rows : {<<>>} \cup [Orders -> RowStates], for : SUBSET Orders]]
Sequel == FeedInOrder /\ AnnouncedInTurn /\ RowAhead

TrackInv == TrackingTypeOK /\ LoadType /\ Sequel

(* A rank is a natural number.                                              *)
LEMMA RankType == \A s : Rank(s) \in 0..4
  BY DEF Rank

(* The rank of each status.                                                 *)
LEMMA Ranks ==
  /\ Rank("none") = 0 /\ Rank("placed") = 1 /\ Rank("preparing") = 2 /\ Rank("ready") = 3
  /\ Rank("seat-delivered") = 4
<1>1. Rank("none") = 0
  BY DEF Rank
<1>2. Rank("placed") = 1 /\ Rank("preparing") = 2
  BY DEF Rank
<1>3. Rank("ready") = 3 /\ Rank("seat-delivered") = 4
  BY DEF Rank
<1>. QED BY <1>1, <1>2, <1>3

(* The kitchen moves an order on.                                           *)
LEMMA NextRank ==
  ASSUME NEW s \in DOMAIN NextStatus
  PROVE  /\ NextStatus[s] \in {"preparing", "ready", "seat-delivered"}
         /\ Rank(NextStatus[s]) = Rank(s) + 1 /\ s # "cancelled"
<1>1. s \in {"placed", "preparing", "ready"}
  BY DEF NextStatus
<1>2. CASE s = "placed"
  <2>1. NextStatus[s] = "preparing"
    BY <1>2 DEF NextStatus
  <2>. QED BY <1>2, <2>1, Ranks
<1>3. CASE s = "preparing"
  <2>1. NextStatus[s] = "ready"
    BY <1>3 DEF NextStatus
  <2>. QED BY <1>3, <2>1, Ranks
<1>4. CASE s = "ready"
  <2>1. NextStatus[s] = "seat-delivered"
    BY <1>4 DEF NextStatus
  <2>. QED BY <1>4, <2>1, Ranks
<1>. QED BY <1>1, <1>2, <1>3, <1>4

(* The page opens before anything was said of an order.                     *)
LEMMA TrackInitially == TrackingInit => TrackInv
<1> SUFFICES ASSUME TrackingInit PROVE TrackInv
  OBVIOUS
<1>0. MaxLoads \in Nat /\ MaxReloads \in Nat /\ MaxLosses \in Nat
  BY TrackingAssumption
<1>1. LoadType
  BY DEF TrackingInit, LoadType, Unused
<1>2. TrackingTypeOK
  <2>1. row \in [Orders -> RowStates] /\ told \in [Orders -> RowStates]
    BY DEF TrackingInit, RowStates, Trackable, Placed
  <2>2. listed \in [Orders -> Trackable \cup {"none"}]
    BY DEF TrackingInit
  <2>3. \A n \in 1..MaxLoads : /\ load[n].step \in {"unused", "asked", "read", "settled"}
                               /\ load[n].for \subseteq Orders
    BY <1>1 DEF LoadType
  <2>4. Cardinality(cancelling) <= 1
    BY FS_EmptySet DEF TrackingInit
  <2>5. 0 \in 0..MaxReloads /\ 0 \in 0..MaxLosses
    BY <1>0
  <2>. QED BY <2>1, <2>2, <2>3, <2>4, <2>5 DEF TrackingInit, TrackingTypeOK
<1>3. Sequel
  <2>1. \A o \in Orders : Rank(told[o]) = 0
    BY Ranks DEF TrackingInit
  <2>2. Len(feed) = 0 /\ announcing = {}
    BY DEF TrackingInit
  <2>3. \A o \in Orders : Rank(row[o]) \in 0..4
    BY RankType
  <2>. QED BY <2>1, <2>2, <2>3 DEF Sequel, FeedInOrder, AnnouncedInTurn, RowAhead
<1>. QED BY <1>1, <1>2, <1>3 DEF TrackInv

(* What a step leaves alone, and a row cancelled, keep the order.           *)
LEMMA SequelKept ==
  ASSUME TrackInv, UNCHANGED <<announcing, feed, told>>,
         \A o \in Orders : row'[o] = row[o] \/ row'[o] = "cancelled"
           \/ (row[o] = "none" /\ row'[o] = "placed")
  PROVE  Sequel'
<1>1. FeedInOrder' /\ AnnouncedInTurn'
  BY DEF TrackInv, Sequel, FeedInOrder, AnnouncedInTurn
<1>2. ASSUME NEW o \in Orders, row'[o] # "cancelled"
      PROVE  row[o] # "cancelled" /\ Rank(row[o]) <= Rank(row'[o])
  <2>1. CASE row'[o] = row[o]
    BY <1>2, <2>1, RankType
  <2>2. CASE row[o] = "none" /\ row'[o] = "placed"
    BY <2>2, Ranks
  <2>. QED BY <1>2, <2>1, <2>2
<1>3. \A s : Rank(s) \in 0..4
  BY RankType
<1>4. RowAhead'
  <2> SUFFICES ASSUME NEW o \in Orders, row'[o] # "cancelled"
               PROVE  /\ Rank(told[o]) <= Rank(row'[o])
                      /\ \A k \in 1..Len(feed) : feed[k][1] = o => Rank(feed[k][2]) <= Rank(row'[o])
                      /\ \A m \in announcing : m[1] = o => Rank(m[2]) <= Rank(row'[o])
    BY DEF RowAhead
  <2>1. /\ Rank(told[o]) <= Rank(row[o])
        /\ \A k \in 1..Len(feed) : feed[k][1] = o => Rank(feed[k][2]) <= Rank(row[o])
        /\ \A m \in announcing : m[1] = o => Rank(m[2]) <= Rank(row[o])
    BY <1>2 DEF TrackInv, Sequel, RowAhead
  <2>. QED BY <1>2, <1>3, <2>1
<1>. QED BY <1>1, <1>4 DEF Sequel

(* The administrator's update is ahead of all that was said of the order.   *)
LEMMA AdvanceKeeps ==
  ASSUME TrackInv, NEW o \in Orders, AdvanceRow(o)
  PROVE  Sequel'
<1>0. /\ row \in [Orders -> RowStates] /\ feed \in Seq(Orders \X RowStates)
      /\ announcing \subseteq (Orders \X RowStates)
  BY DEF TrackInv, TrackingTypeOK
<1> DEFINE s == NextStatus[row[o]]
<1>1. /\ row[o] # "cancelled" /\ Rank(s) = Rank(row[o]) + 1
  BY NextRank DEF AdvanceRow
<1> HIDE DEF s
<1>2. /\ row' = [row EXCEPT ![o] = s] /\ announcing' = announcing \cup {<<o, s>>}
      /\ UNCHANGED <<feed, told>> /\ \A m \in announcing : m[1] # o
  BY <1>0 DEF AdvanceRow, messages, s
<1>3. /\ Rank(told[o]) <= Rank(row[o])
      /\ \A k \in 1..Len(feed) : feed[k][1] = o => Rank(feed[k][2]) <= Rank(row[o])
  BY <1>1 DEF TrackInv, Sequel, RowAhead
<1>4. \A x : Rank(x) \in 0..4
  BY RankType
<1>5. FeedInOrder'
  BY <1>2 DEF TrackInv, Sequel, FeedInOrder
<1>6. /\ Rank(told[o]) <= Rank(s)
      /\ \A k \in 1..Len(feed) : feed[k][1] = o => Rank(feed[k][2]) <= Rank(s)
  BY <1>1, <1>3, <1>4
<1>7. AnnouncedInTurn'
  <2>1. ASSUME NEW m \in announcing
        PROVE  /\ Rank(told[m[1]]) <= Rank(m[2])
               /\ \A k \in 1..Len(feed) : feed[k][1] = m[1] => Rank(feed[k][2]) <= Rank(m[2])
               /\ \A n \in announcing' : n[1] = m[1] => n = m
    BY <1>2 DEF TrackInv, Sequel, AnnouncedInTurn
  <2>2. \A n \in announcing' : n[1] = o => n = <<o, s>>
    BY <1>2
  <2>. QED BY <1>2, <1>6, <2>1, <2>2 DEF AnnouncedInTurn
<1>8. RowAhead'
  <2> SUFFICES ASSUME NEW p \in Orders, row'[p] # "cancelled"
               PROVE  /\ Rank(told[p]) <= Rank(row'[p])
                      /\ \A k \in 1..Len(feed) : feed[k][1] = p => Rank(feed[k][2]) <= Rank(row'[p])
                      /\ \A m \in announcing' : m[1] = p => Rank(m[2]) <= Rank(row'[p])
    BY <1>2 DEF RowAhead
  <2>1. CASE p = o
    <3>1. row'[p] = s
      BY <1>0, <1>2, <2>1
    <3>. QED BY <1>2, <1>4, <1>6, <2>1, <3>1
  <2>2. CASE p # o
    BY <1>0, <1>2, <2>2 DEF TrackInv, Sequel, RowAhead
  <2>. QED BY <2>1, <2>2
<1>. QED BY <1>5, <1>7, <1>8 DEF Sequel

(* What is announced joins the feed behind what is there.                   *)
LEMMA AnnounceKeeps ==
  ASSUME TrackInv, NEW m \in announcing, AnnounceRow(m)
  PROVE  Sequel' /\ feed' \in Seq(Orders \X RowStates)
<1>0. /\ feed \in Seq(Orders \X RowStates) /\ m \in Orders \X RowStates
      /\ announcing \subseteq (Orders \X RowStates)
  BY DEF TrackInv, TrackingTypeOK
<1>1. /\ announcing' = announcing \ {m} /\ feed' = Append(feed, m) /\ UNCHANGED <<row, told>>
  BY DEF AnnounceRow
<1>2. PICK n \in Nat : n = Len(feed)
  BY <1>0
<1>3. /\ feed' \in Seq(Orders \X RowStates) /\ Len(feed') = n + 1 /\ feed'[n + 1] = m
      /\ \A k \in 1..n : feed'[k] = feed[k]
  BY <1>0, <1>1, <1>2
<1>4. /\ Rank(told[m[1]]) <= Rank(m[2])
      /\ \A k \in 1..n : feed[k][1] = m[1] => Rank(feed[k][2]) <= Rank(m[2])
      /\ \A a \in announcing : a[1] = m[1] => a = m
  BY <1>2 DEF TrackInv, Sequel, AnnouncedInTurn
<1>5. FeedInOrder'
  <2>1. ASSUME NEW k \in 1..(n + 1)
        PROVE  /\ Rank(told[feed'[k][1]]) <= Rank(feed'[k][2])
               /\ \A j \in 1..k : feed'[j][1] = feed'[k][1] => Rank(feed'[j][2]) <= Rank(feed'[k][2])
    <3>1. CASE k = n + 1
      <4>1. ASSUME NEW j \in 1..k, feed'[j][1] = feed'[k][1]
            PROVE  Rank(feed'[j][2]) <= Rank(feed'[k][2])
        <5>1. CASE j = n + 1
          BY <3>1, <5>1, RankType
        <5>2. CASE j \in 1..n
          BY <1>3, <1>4, <3>1, <4>1, <5>2
        <5>. QED BY <1>2, <3>1, <5>1, <5>2
      <4>. QED BY <1>3, <1>4, <3>1, <4>1
    <3>2. CASE k \in 1..n
      <4>1. /\ Rank(told[feed[k][1]]) <= Rank(feed[k][2])
            /\ \A j \in 1..k : feed[j][1] = feed[k][1] => Rank(feed[j][2]) <= Rank(feed[k][2])
        BY <1>2, <3>2 DEF TrackInv, Sequel, FeedInOrder
      <4>2. \A j \in 1..k : feed'[j] = feed[j]
        BY <1>2, <1>3, <3>2
      <4>. QED BY <1>3, <3>2, <4>1, <4>2
    <3>. QED BY <1>2, <3>1, <3>2
  <2>. QED BY <1>1, <1>3, <2>1 DEF FeedInOrder
<1>6. AnnouncedInTurn'
  <2>1. ASSUME NEW a \in announcing, a # m
        PROVE  /\ Rank(told[a[1]]) <= Rank(a[2])
               /\ \A k \in 1..(n + 1) : feed'[k][1] = a[1] => Rank(feed'[k][2]) <= Rank(a[2])
               /\ \A b \in announcing : b[1] = a[1] => b = a
    <3>1. /\ Rank(told[a[1]]) <= Rank(a[2])
          /\ \A k \in 1..n : feed[k][1] = a[1] => Rank(feed[k][2]) <= Rank(a[2])
          /\ \A b \in announcing : b[1] = a[1] => b = a
      BY <1>2 DEF TrackInv, Sequel, AnnouncedInTurn
    <3>2. m[1] # a[1]
      BY <1>4, <2>1
    <3>3. \A k \in 1..(n + 1) : k \in 1..n \/ k = n + 1
      BY <1>2
    <3>. QED BY <1>3, <3>1, <3>2, <3>3
  <2>. QED BY <1>1, <1>3, <2>1 DEF AnnouncedInTurn
<1>7. RowAhead'
  <2>1. ASSUME NEW o \in Orders, row[o] # "cancelled"
        PROVE  /\ Rank(told[o]) <= Rank(row[o])
               /\ \A k \in 1..(n + 1) : feed'[k][1] = o => Rank(feed'[k][2]) <= Rank(row[o])
               /\ \A a \in announcing : a[1] = o => Rank(a[2]) <= Rank(row[o])
    <3>1. /\ Rank(told[o]) <= Rank(row[o])
          /\ \A k \in 1..n : feed[k][1] = o => Rank(feed[k][2]) <= Rank(row[o])
          /\ \A a \in announcing : a[1] = o => Rank(a[2]) <= Rank(row[o])
      BY <1>2, <2>1 DEF TrackInv, Sequel, RowAhead
    <3>2. \A k \in 1..(n + 1) : k \in 1..n \/ k = n + 1
      BY <1>2
    <3>. QED BY <1>3, <3>1, <3>2
  <2>. QED BY <1>1, <1>3, <2>1 DEF RowAhead
<1>. QED BY <1>3, <1>5, <1>6, <1>7 DEF Sequel

(* The page is told what is first in the feed.                              *)
LEMMA HearKeeps ==
  ASSUME TrackInv, HearStatus
  PROVE  /\ Sequel' /\ feed' \in Seq(Orders \X RowStates) /\ told' \in [Orders -> RowStates]
         /\ \A o \in Orders : Rank(told[o]) <= Rank(told'[o])
<1>0. /\ feed \in Seq(Orders \X RowStates) /\ feed # <<>> /\ told \in [Orders -> RowStates]
  BY DEF TrackInv, TrackingTypeOK, HearStatus
<1>1. PICK m : m = Head(feed)
  OBVIOUS
<1>2. PICK n \in Nat : n = Len(feed)
  BY <1>0
<1>3. /\ told' = [told EXCEPT ![m[1]] = m[2]] /\ feed' = Tail(feed)
      /\ UNCHANGED <<row, announcing>>
  BY <1>1 DEF HearStatus, backend
<1>4. m \in Orders \X RowStates /\ m = feed[1] /\ 1 <= n
  BY <1>0, <1>1, <1>2
<1>5. /\ feed' \in Seq(Orders \X RowStates) /\ Len(feed') = n - 1
      /\ \A k \in 1..(n - 1) : feed'[k] = feed[k + 1]
  BY <1>0, <1>2, <1>3
<1>6. /\ m[1] \in Orders /\ m[2] \in RowStates /\ told'[m[1]] = m[2]
      /\ \A o \in Orders : o # m[1] => told'[o] = told[o]
  BY <1>0, <1>3, <1>4
<1>7. \A k \in 1..n : Rank(told[feed[k][1]]) <= Rank(feed[k][2])
  BY <1>2 DEF TrackInv, Sequel, FeedInOrder
<1>8. \A k \in 1..n : \A j \in 1..k : feed[j][1] = feed[k][1] => Rank(feed[j][2]) <= Rank(feed[k][2])
  BY <1>2 DEF TrackInv, Sequel, FeedInOrder
<1>9. \A k \in 1..n : feed[k][1] \in Orders
  BY <1>0, <1>2
<1>10. FeedInOrder'
  <2>1. ASSUME NEW k \in 1..(n - 1)
        PROVE  /\ Rank(told'[feed'[k][1]]) <= Rank(feed'[k][2])
               /\ \A j \in 1..k : feed'[j][1] = feed'[k][1] => Rank(feed'[j][2]) <= Rank(feed'[k][2])
    <3>1. k + 1 \in 1..n /\ feed'[k] = feed[k + 1] /\ 1 \in 1..(k + 1)
      BY <1>2, <1>5
    <3>2. ASSUME NEW j \in 1..k
          PROVE  j + 1 \in 1..(k + 1) /\ feed'[j] = feed[j + 1]
      BY <1>2, <1>5
    <3>3. Rank(told'[feed[k + 1][1]]) <= Rank(feed[k + 1][2])
      <4>1. CASE feed[k + 1][1] = m[1]
        <5>1. Rank(feed[1][2]) <= Rank(feed[k + 1][2])
          BY <1>4, <1>8, <3>1, <4>1
        <5>. QED BY <1>4, <1>6, <4>1, <5>1
      <4>2. CASE feed[k + 1][1] # m[1]
        BY <1>6, <1>7, <1>9, <3>1, <4>2
      <4>. QED BY <4>1, <4>2
    <3>4. ASSUME NEW j \in 1..k, feed'[j][1] = feed'[k][1]
          PROVE  Rank(feed'[j][2]) <= Rank(feed'[k][2])
      BY <1>8, <3>1, <3>2, <3>4
    <3>. QED BY <3>1, <3>3, <3>4
  <2>. QED BY <1>5, <2>1 DEF FeedInOrder
<1>11. AnnouncedInTurn'
  <2>1. ASSUME NEW a \in announcing
        PROVE  /\ Rank(told'[a[1]]) <= Rank(a[2])
               /\ \A k \in 1..(n - 1) : feed'[k][1] = a[1] => Rank(feed'[k][2]) <= Rank(a[2])
               /\ \A b \in announcing : b[1] = a[1] => b = a
    <3>1. /\ Rank(told[a[1]]) <= Rank(a[2])
          /\ \A k \in 1..n : feed[k][1] = a[1] => Rank(feed[k][2]) <= Rank(a[2])
          /\ \A b \in announcing : b[1] = a[1] => b = a
      BY <1>2 DEF TrackInv, Sequel, AnnouncedInTurn
    <3>2. a[1] \in Orders
      BY DEF TrackInv, TrackingTypeOK
    <3>3. Rank(told'[a[1]]) <= Rank(a[2])
      <4>1. CASE a[1] = m[1]
        <5>1. Rank(feed[1][2]) <= Rank(a[2])
          BY <1>2, <1>4, <3>1, <4>1
        <5>. QED BY <1>4, <1>6, <4>1, <5>1
      <4>2. CASE a[1] # m[1]
        BY <1>6, <3>1, <3>2, <4>2
      <4>. QED BY <4>1, <4>2
    <3>4. \A k \in 1..(n - 1) : k + 1 \in 1..n
      BY <1>2
    <3>. QED BY <1>5, <3>1, <3>3, <3>4
  <2>. QED BY <1>3, <1>5, <2>1 DEF AnnouncedInTurn
<1>12. RowAhead'
  <2>1. ASSUME NEW o \in Orders, row[o] # "cancelled"
        PROVE  /\ Rank(told'[o]) <= Rank(row[o])
               /\ \A k \in 1..(n - 1) : feed'[k][1] = o => Rank(feed'[k][2]) <= Rank(row[o])
               /\ \A a \in announcing : a[1] = o => Rank(a[2]) <= Rank(row[o])
    <3>1. /\ Rank(told[o]) <= Rank(row[o])
          /\ \A k \in 1..n : feed[k][1] = o => Rank(feed[k][2]) <= Rank(row[o])
          /\ \A a \in announcing : a[1] = o => Rank(a[2]) <= Rank(row[o])
      BY <1>2, <2>1 DEF TrackInv, Sequel, RowAhead
    <3>2. Rank(told'[o]) <= Rank(row[o])
      <4>1. CASE o = m[1]
        <5>1. Rank(feed[1][2]) <= Rank(row[o])
          BY <1>2, <1>4, <3>1, <4>1
        <5>. QED BY <1>4, <1>6, <4>1, <5>1
      <4>2. CASE o # m[1]
        BY <1>6, <3>1, <4>2
      <4>. QED BY <4>1, <4>2
    <3>3. \A k \in 1..(n - 1) : k + 1 \in 1..n
      BY <1>2
    <3>. QED BY <1>5, <3>1, <3>2, <3>3
  <2>. QED BY <1>3, <1>5, <2>1 DEF RowAhead
<1>13. told' \in [Orders -> RowStates]
  BY <1>0, <1>3, <1>6
<1>14. ASSUME NEW o \in Orders PROVE Rank(told[o]) <= Rank(told'[o])
  <2>1. CASE o = m[1]
    BY <1>2, <1>4, <1>6, <1>7, <2>1
  <2>2. CASE o # m[1]
    BY <1>6, <2>2, RankType
  <2>. QED BY <2>1, <2>2
<1>. QED BY <1>5, <1>10, <1>11, <1>12, <1>13, <1>14 DEF Sequel

(* A feed that breaks, or a page loaded again, has nothing on its way.      *)
LEMMA FeedGone ==
  ASSUME TrackInv, feed' = <<>>, UNCHANGED <<row, announcing>>,
         told' = told \/ told' = [o \in Orders |-> "none"]
  PROVE  Sequel'
<1>1. Len(feed') = 0
  OBVIOUS
<1>2. \A o \in Orders : Rank(told'[o]) <= Rank(told[o])
  BY Ranks, RankType
<1>3. \A m \in announcing : m[1] \in Orders
  BY DEF TrackInv, TrackingTypeOK
<1>4. \A s : Rank(s) \in 0..4
  BY RankType
<1>5. FeedInOrder'
  BY <1>1 DEF FeedInOrder
<1>6. AnnouncedInTurn'
  <2>1. ASSUME NEW m \in announcing
        PROVE  /\ Rank(told'[m[1]]) <= Rank(m[2])
               /\ \A n \in announcing : n[1] = m[1] => n = m
    <3>1. Rank(told[m[1]]) <= Rank(m[2]) /\ \A n \in announcing : n[1] = m[1] => n = m
      BY DEF TrackInv, Sequel, AnnouncedInTurn
    <3>. QED BY <1>2, <1>3, <1>4, <3>1
  <2>. QED BY <1>1, <2>1 DEF AnnouncedInTurn
<1>7. RowAhead'
  <2>1. ASSUME NEW o \in Orders, row[o] # "cancelled"
        PROVE  /\ Rank(told'[o]) <= Rank(row[o])
               /\ \A m \in announcing : m[1] = o => Rank(m[2]) <= Rank(row[o])
    <3>1. /\ Rank(told[o]) <= Rank(row[o])
          /\ \A m \in announcing : m[1] = o => Rank(m[2]) <= Rank(row[o])
      BY <2>1 DEF TrackInv, Sequel, RowAhead
    <3>. QED BY <1>2, <1>4, <3>1
  <2>. QED BY <1>1, <2>1 DEF RowAhead
<1>. QED BY <1>5, <1>6, <1>7 DEF Sequel

(* Every step keeps the order of what is said.                              *)
LEMMA SequelStep == TrackInv /\ [TrackingNext]_trackingVars => Sequel'
<1> SUFFICES ASSUME TrackInv, [TrackingNext]_trackingVars PROVE Sequel'
  OBVIOUS
<1>0. row \in [Orders -> RowStates]
  BY DEF TrackInv, TrackingTypeOK
<1>s. ASSUME UNCHANGED <<row, announcing, feed, told>> PROVE Sequel'
  BY <1>s, SequelKept
<1>1. ASSUME NEW n \in 1..MaxLoads, LoadStep(n) \/ LoseLoad(n) PROVE Sequel'
  <2>1. UNCHANGED <<row, announcing, feed, told>>
    BY <1>1 DEF LoadStep, ReadOrders, ShowOrders, LoseLoad, backend, messages
  <2>. QED BY <1>s, <2>1
<1>2. ASSUME NEW o \in Orders, HearPlaced(o) \/ HearCancelled(o) \/ HearRefusal(o) \/ Click(o) \/ LoseCancel(o)
      PROVE  Sequel'
  <2>1. UNCHANGED <<row, announcing, feed, told>>
    BY <1>2 DEF HearPlaced, HearCancelled, HearRefusal, Click, ClickCancel, ClickDismiss, LoseCancel,
                backend, messages
  <2>. QED BY <1>s, <2>1
<1>3. ASSUME NEW o \in Orders, CancelRow(o) \/ CancelElsewhere(o) \/ PlaceAnOrder(o) PROVE Sequel'
  <2>1. UNCHANGED <<announcing, feed, told>>
    BY <1>3 DEF CancelRow, CancelElsewhere, PlaceAnOrder, messages
  <2>2. \A p \in Orders : row'[p] = row[p] \/ row'[p] = "cancelled"
          \/ (row[p] = "none" /\ row'[p] = "placed")
    BY <1>0, <1>3 DEF CancelRow, CancelElsewhere, PlaceAnOrder, Placed
  <2>. QED BY <2>1, <2>2, SequelKept
<1>4. ASSUME NEW o \in Orders, AdvanceRow(o) PROVE Sequel'
  BY <1>4, AdvanceKeeps
<1>5. ASSUME NEW o \in Orders, Announce(o) PROVE Sequel'
  BY <1>5, AnnounceKeeps DEF Announce
<1>6. ASSUME HearStatus PROVE Sequel'
  BY <1>6, HearKeeps
<1>7. ASSUME ReturnToPage PROVE Sequel'
  <2>1. UNCHANGED <<row, announcing, feed, told>>
    BY <1>7 DEF ReturnToPage, Remount, backend
  <2>. QED BY <1>s, <2>1
<1>8. ASSUME ReloadPage \/ BreakFeed PROVE Sequel'
  <2>1. /\ feed' = <<>> /\ UNCHANGED <<row, announcing>>
        /\ told' = told \/ told' = [o \in Orders |-> "none"]
    BY <1>8 DEF ReloadPage, Remount, BreakFeed, backend
  <2>. QED BY <2>1, FeedGone
<1>9. ASSUME UNCHANGED trackingVars PROVE Sequel'
  <2>1. UNCHANGED <<row, announcing, feed, told>>
    BY <1>9 DEF trackingVars
  <2>. QED BY <1>s, <2>1
<1>. QED BY <1>1, <1>2, <1>3, <1>4, <1>5, <1>6, <1>7, <1>8, <1>9
         DEF TrackingNext, CallStep, Outside

(* The loads keep their type.                                               *)
LoadRecord == [step : {"unused", "asked", "read", "settled"},
               rows : {<<>>} \cup [Orders -> RowStates], for : SUBSET Orders]

(* Loads keep their type when the list of orders is asked for,              *)
LEMMA AskKeepsLoads ==
  ASSUME LoadType, NEW for \in SUBSET Orders, AskOrders(for)
  PROVE  LoadType'
<1>1. [Unused EXCEPT !.step = "asked", !.for = for] \in LoadRecord
  BY DEF Unused, LoadRecord
<1>2. PICK n \in 1..MaxLoads : load' = [load EXCEPT ![n] = [Unused EXCEPT !.step = "asked", !.for = for]]
  BY DEF AskOrders
<1>. QED BY <1>1, <1>2 DEF LoadType, LoadRecord

(* when it has come, which ends the one cancellation that waited for it,    *)
LEMMA SettleKeepsLoads ==
  ASSUME TrackInv, NEW n \in 1..MaxLoads, Settle(n)
  PROVE  /\ LoadType' /\ cancel' \in [Orders -> {"none", "asked", "done", "refused", "loading"}]
         /\ cancelling' \subseteq Orders /\ Cardinality(cancelling') <= 1
<1>1. [Unused EXCEPT !.step = "settled"] \in LoadRecord
  BY DEF Unused, LoadRecord
<1>2. LoadType'
  BY <1>1 DEF Settle, TrackInv, LoadType, LoadRecord
<1>3. cancel' \in [Orders -> {"none", "asked", "done", "refused", "loading"}]
  BY DEF Settle, TrackInv, TrackingTypeOK
<1>4. cancelling' = cancelling \/ cancelling' = {}
  BY DEF Settle
<1>5. Cardinality({}) = 0 /\ cancelling \subseteq Orders /\ Cardinality(cancelling) <= 1
  BY FS_EmptySet DEF TrackInv, TrackingTypeOK
<1>6. cancelling' \subseteq Orders /\ Cardinality(cancelling') <= 1
  <2>1. CASE cancelling' = cancelling
    BY <1>5, <2>1
  <2>2. CASE cancelling' = {}
    BY <1>5, <2>2
  <2>. QED BY <1>4, <2>1, <2>2
<1>. QED BY <1>2, <1>3, <1>6

(* when the page is opened anew,                                            *)
LEMMA RemountKeepsLoads == LoadType /\ Remount => LoadType'
<1> SUFFICES ASSUME LoadType, Remount PROVE LoadType'
  OBVIOUS
<1>1. /\ [Unused EXCEPT !.step = "asked"] \in LoadRecord
      /\ [Unused EXCEPT !.step = "settled"] \in LoadRecord /\ Unused \in LoadRecord
  BY DEF Unused, LoadRecord
<1>2. PICK n \in 1..MaxLoads :
        load' = [k \in 1..MaxLoads |->
                   IF k = n THEN [Unused EXCEPT !.step = "asked"]
                   ELSE IF k < n THEN [Unused EXCEPT !.step = "settled"] ELSE Unused]
  BY DEF Remount
<1>. QED BY <1>1, <1>2 DEF LoadType, LoadRecord

(* and so in every step.                                                    *)
LEMMA LoadsKept == TrackInv /\ [TrackingNext]_trackingVars => LoadType'
<1> SUFFICES ASSUME TrackInv, [TrackingNext]_trackingVars PROVE LoadType'
  OBVIOUS
<1>0. LoadType /\ row \in [Orders -> RowStates]
  BY DEF TrackInv, TrackingTypeOK
<1>1. ASSUME NEW n \in 1..MaxLoads, ReadOrders(n) PROVE LoadType'
  <2>1. load[n] \in LoadRecord
    BY <1>0 DEF LoadType, LoadRecord
  <2>2. [load[n] EXCEPT !.step = "read", !.rows = row] \in LoadRecord
    BY <1>0, <2>1 DEF LoadRecord
  <2>3. load' = [load EXCEPT ![n] = [load[n] EXCEPT !.step = "read", !.rows = row]]
    BY <1>0, <1>1 DEF ReadOrders, LoadType
  <2>. QED BY <1>0, <2>2, <2>3 DEF LoadType, LoadRecord
<1>2. ASSUME NEW n \in 1..MaxLoads, ShowOrders(n) \/ LoseLoad(n) PROVE LoadType'
  BY <1>2, SettleKeepsLoads DEF ShowOrders, LoseLoad
<1>3. ASSUME NEW o \in Orders, HearPlaced(o) \/ HearCancelled(o) PROVE LoadType'
  <2>1. PICK for \in SUBSET Orders : AskOrders(for)
    BY <1>3 DEF HearPlaced, HearCancelled
  <2>. QED BY <1>0, <2>1, AskKeepsLoads
<1>4. ASSUME ReturnToPage \/ ReloadPage PROVE LoadType'
  BY <1>0, <1>4, RemountKeepsLoads DEF ReturnToPage, ReloadPage
<1>5. ASSUME NEW o \in Orders,
             CancelRow(o) \/ HearRefusal(o) \/ Announce(o) \/ Click(o) \/ Outside(o) \/ LoseCancel(o)
      PROVE  load' = load
  BY <1>5 DEF CancelRow, HearRefusal, Announce, AnnounceRow, Click, ClickCancel, ClickDismiss, Outside,
              PlaceAnOrder, AdvanceRow, CancelElsewhere, LoseCancel
<1>6. ASSUME HearStatus \/ BreakFeed \/ UNCHANGED trackingVars PROVE load' = load
  BY <1>6 DEF HearStatus, BreakFeed, trackingVars
<1>7. ASSUME load' = load PROVE LoadType'
  BY <1>0, <1>7 DEF LoadType
<1>. QED BY <1>1, <1>2, <1>3, <1>4, <1>5, <1>6, <1>7 DEF TrackingNext, LoadStep, CallStep

(* The rows and what is said of them keep their type ...                    *)
SaidTypeOK ==
  /\ row \in [Orders -> RowStates] /\ announcing \subseteq (Orders \X RowStates)
  /\ feed \in Seq(Orders \X RowStates) /\ told \in [Orders -> RowStates] /\ missed \subseteq Orders

(* Every step keeps the types of what was said of the orders.               *)
LEMMA SaidKept == TrackInv /\ [TrackingNext]_trackingVars => SaidTypeOK'
<1> SUFFICES ASSUME TrackInv, [TrackingNext]_trackingVars PROVE SaidTypeOK'
  OBVIOUS
<1>0. SaidTypeOK
  BY DEF TrackInv, TrackingTypeOK, SaidTypeOK
<1>1. ASSUME NEW o \in Orders, AdvanceRow(o) PROVE SaidTypeOK'
  <2>1. NextStatus[row[o]] \in RowStates /\ row[o] \in DOMAIN NextStatus
    BY <1>1, NextRank DEF AdvanceRow, RowStates, Trackable
  <2>2. row' \in [Orders -> RowStates] /\ row'[o] \in RowStates
    BY <1>0, <1>1, <2>1 DEF AdvanceRow, SaidTypeOK
  <2>. QED BY <1>0, <1>1, <2>2 DEF AdvanceRow, messages, SaidTypeOK
<1>2. ASSUME NEW o \in Orders, CancelRow(o) \/ CancelElsewhere(o) \/ PlaceAnOrder(o) PROVE SaidTypeOK'
  <2>1. row' \in [Orders -> RowStates]
    BY <1>0, <1>2 DEF CancelRow, CancelElsewhere, PlaceAnOrder, SaidTypeOK, RowStates, Trackable, Placed
  <2>. QED BY <1>0, <1>2, <2>1 DEF CancelRow, CancelElsewhere, PlaceAnOrder, messages, SaidTypeOK
<1>3. ASSUME NEW o \in Orders, Announce(o) PROVE SaidTypeOK'
  <2>1. PICK m \in announcing : AnnounceRow(m)
    BY <1>3 DEF Announce
  <2>2. feed' \in Seq(Orders \X RowStates)
    BY <2>1, AnnounceKeeps
  <2>. QED BY <1>0, <2>1, <2>2 DEF AnnounceRow, SaidTypeOK
<1>4. ASSUME HearStatus PROVE SaidTypeOK'
  <2>1. feed' \in Seq(Orders \X RowStates) /\ told' \in [Orders -> RowStates]
    BY <1>4, HearKeeps
  <2>. QED BY <1>0, <1>4, <2>1 DEF HearStatus, backend, SaidTypeOK
<1>5. ASSUME BreakFeed PROVE SaidTypeOK'
  <2>1. \A k \in DOMAIN feed : feed[k][1] \in Orders
    BY <1>0 DEF SaidTypeOK
  <2>2. missed' \subseteq Orders
    BY <1>0, <1>5, <2>1 DEF BreakFeed, SaidTypeOK
  <2>. QED BY <1>0, <1>5, <2>2 DEF BreakFeed, backend, SaidTypeOK
<1>6. ASSUME ReloadPage PROVE SaidTypeOK'
  BY <1>0, <1>6 DEF ReloadPage, Remount, backend, SaidTypeOK, RowStates
<1>7. ASSUME ReturnToPage PROVE SaidTypeOK'
  BY <1>0, <1>7 DEF ReturnToPage, Remount, backend, SaidTypeOK
<1>8. ASSUME NEW n \in 1..MaxLoads, LoadStep(n) \/ LoseLoad(n) PROVE SaidTypeOK'
  BY <1>0, <1>8 DEF LoadStep, ReadOrders, ShowOrders, LoseLoad, backend, messages, SaidTypeOK
<1>9. ASSUME NEW o \in Orders, HearPlaced(o) \/ HearCancelled(o) \/ HearRefusal(o) \/ Click(o) \/ LoseCancel(o)
      PROVE  SaidTypeOK'
  BY <1>0, <1>9 DEF HearPlaced, HearCancelled, HearRefusal, Click, ClickCancel, ClickDismiss, LoseCancel,
                    backend, messages, SaidTypeOK
<1>10. ASSUME UNCHANGED trackingVars PROVE SaidTypeOK'
  BY <1>0, <1>10 DEF trackingVars, SaidTypeOK
<1>. QED BY <1>1, <1>2, <1>3, <1>4, <1>5, <1>6, <1>7, <1>8, <1>9, <1>10
         DEF TrackingNext, CallStep, Outside

(* ... and so does what the page shows and asks for.                        *)
PageTypeOK ==
  /\ listed \in [Orders -> Trackable \cup {"none"}]
  /\ placing \subseteq Orders /\ dismissed \subseteq Orders
  /\ cancel \in [Orders -> {"none", "asked", "done", "refused", "loading"}]
  /\ cancelling \subseteq Orders /\ Cardinality(cancelling) <= 1
  /\ reloads \in 0..MaxReloads /\ losses \in 0..MaxLosses

(* A list without untrackable orders tells a status of each, or nothing.    *)
LEMMA TrackableOnly ==
  ASSUME NEW list
  PROVE  OnlyTrackable(list) \in [Orders -> Trackable \cup {"none"}]
  BY DEF OnlyTrackable

(* Every step keeps the types of what the page shows.                       *)
LEMMA PageKept == TrackInv /\ [TrackingNext]_trackingVars => PageTypeOK'
<1> SUFFICES ASSUME TrackInv, [TrackingNext]_trackingVars PROVE PageTypeOK'
  OBVIOUS
<1>0. PageTypeOK
  BY DEF TrackInv, TrackingTypeOK, PageTypeOK
<1>n. MaxReloads \in Nat /\ MaxLosses \in Nat
  BY TrackingAssumption
<1>l. losses < MaxLosses /\ losses' = losses + 1 => losses' \in 0..MaxLosses
  BY <1>0, <1>n DEF PageTypeOK
<1>e. Cardinality({}) = 0
  BY FS_EmptySet
<1>1. ASSUME NEW n \in 1..MaxLoads, ReadOrders(n) PROVE PageTypeOK'
  BY <1>0, <1>1 DEF ReadOrders, clicks, limits, PageTypeOK
<1>2. ASSUME NEW n \in 1..MaxLoads, ShowOrders(n) PROVE PageTypeOK'
  <2>1. /\ cancel' \in [Orders -> {"none", "asked", "done", "refused", "loading"}]
        /\ cancelling' \subseteq Orders /\ Cardinality(cancelling') <= 1
    BY <1>2, SettleKeepsLoads DEF ShowOrders
  <2>2. listed' \in [Orders -> Trackable \cup {"none"}]
    BY <1>2, TrackableOnly DEF ShowOrders
  <2>. QED BY <1>0, <1>2, <2>1, <2>2 DEF ShowOrders, limits, PageTypeOK
<1>3. ASSUME NEW n \in 1..MaxLoads, LoseLoad(n) PROVE PageTypeOK'
  <2>1. /\ cancel' \in [Orders -> {"none", "asked", "done", "refused", "loading"}]
        /\ cancelling' \subseteq Orders /\ Cardinality(cancelling') <= 1
    BY <1>3, SettleKeepsLoads DEF LoseLoad
  <2>. QED BY <1>0, <1>3, <1>l, <2>1 DEF LoseLoad, PageTypeOK
<1>4. ASSUME NEW o \in Orders, CancelRow(o) \/ LoseCancel(o) \/ HearCancelled(o) PROVE PageTypeOK'
  <2>1. cancel' \in [Orders -> {"none", "asked", "done", "refused", "loading"}]
    BY <1>0, <1>4 DEF CancelRow, LoseCancel, HearCancelled, PageTypeOK
  <2>2. UNCHANGED <<listed, placing, dismissed, cancelling, reloads>>
    BY <1>4 DEF CancelRow, LoseCancel, HearCancelled, limits
  <2>3. losses' \in 0..MaxLosses
    BY <1>0, <1>4, <1>l DEF CancelRow, LoseCancel, HearCancelled, limits, PageTypeOK
  <2>. QED BY <1>0, <2>1, <2>2, <2>3 DEF PageTypeOK
<1>5. ASSUME NEW o \in Orders, HearPlaced(o) PROVE PageTypeOK'
  BY <1>0, <1>5 DEF HearPlaced, limits, PageTypeOK
<1>6. ASSUME NEW o \in Orders, HearRefusal(o) PROVE PageTypeOK'
  <2>1. cancel' \in [Orders -> {"none", "asked", "done", "refused", "loading"}]
    BY <1>0, <1>6 DEF HearRefusal, PageTypeOK
  <2>. QED BY <1>0, <1>6, <1>e, <2>1 DEF HearRefusal, limits, PageTypeOK
<1>7. ASSUME NEW o \in Orders, ClickCancel(o) PROVE PageTypeOK'
  <2>1. cancel' \in [Orders -> {"none", "asked", "done", "refused", "loading"}]
    BY <1>0, <1>7 DEF ClickCancel, PageTypeOK
  <2>2. Cardinality({o}) = 1
    BY FS_Singleton
  <2>. QED BY <1>0, <1>7, <2>1, <2>2 DEF ClickCancel, limits, PageTypeOK
<1>8. ASSUME NEW o \in Orders, ClickDismiss(o) PROVE PageTypeOK'
  BY <1>0, <1>8 DEF ClickDismiss, clicks, limits, PageTypeOK
<1>9. ASSUME NEW o \in Orders, PlaceAnOrder(o) PROVE PageTypeOK'
  BY <1>0, <1>9 DEF PlaceAnOrder, limits, PageTypeOK
<1>10. ASSUME NEW o \in Orders, AdvanceRow(o) \/ CancelElsewhere(o) \/ Announce(o) PROVE PageTypeOK'
  BY <1>0, <1>10 DEF AdvanceRow, CancelElsewhere, Announce, AnnounceRow, clicks, limits, PageTypeOK
<1>11. ASSUME HearStatus PROVE PageTypeOK'
  <2>1. listed' \in [Orders -> Trackable \cup {"none"}]
    BY <1>11, TrackableOnly DEF HearStatus, Merge
  <2>. QED BY <1>0, <1>11, <2>1 DEF HearStatus, clicks, limits, PageTypeOK
<1>12. ASSUME BreakFeed PROVE PageTypeOK'
  BY <1>0, <1>12, <1>l DEF BreakFeed, clicks, PageTypeOK
<1>13. ASSUME Remount PROVE PageTypeOK'
  <2>1. reloads' \in 0..MaxReloads
    BY <1>0, <1>13, <1>n DEF Remount, PageTypeOK
  <2>2. /\ listed' = [o \in Orders |-> "none"] /\ cancel' = [o \in Orders |-> "none"]
        /\ placing' = {} /\ cancelling' = {} /\ UNCHANGED <<dismissed, losses>>
    BY <1>13 DEF Remount
  <2>. QED BY <1>0, <1>e, <2>1, <2>2 DEF PageTypeOK
<1>14. ASSUME UNCHANGED trackingVars PROVE PageTypeOK'
  BY <1>0, <1>14 DEF trackingVars, PageTypeOK
<1>. QED BY <1>1, <1>2, <1>3, <1>4, <1>5, <1>6, <1>7, <1>8, <1>9, <1>10, <1>11, <1>12, <1>13, <1>14
         DEF TrackingNext, LoadStep, CallStep, Click, Outside, ReturnToPage, ReloadPage

(* The invariant is inductive.                                              *)
LEMMA TrackStep == TrackInv /\ [TrackingNext]_trackingVars => TrackInv'
<1> SUFFICES ASSUME TrackInv, [TrackingNext]_trackingVars PROVE TrackInv'
  OBVIOUS
<1>1. Sequel' /\ LoadType' /\ SaidTypeOK' /\ PageTypeOK'
  BY SequelStep, LoadsKept, SaidKept, PageKept
<1>2. \A n \in 1..MaxLoads : /\ load'[n].step \in {"unused", "asked", "read", "settled"}
                             /\ load'[n].for \subseteq Orders
  BY <1>1 DEF LoadType
<1>3. TrackingTypeOK'
  BY <1>1, <1>2 DEF SaidTypeOK, PageTypeOK, TrackingTypeOK
<1>. QED BY <1>1, <1>3 DEF TrackInv

(* The invariant of the tracking always holds.                              *)
LEMMA TrackAlways == TrackingSpec => []TrackInv
  BY TrackInitially, TrackStep, PTL DEF TrackingSpec

(* Every variable of the list of orders keeps its type.                     *)
THEOREM TrackingTypeCorrect == TrackingSpec => []TrackingTypeOK
<1>1. TrackInv => TrackingTypeOK
  BY DEF TrackInv
<1>. QED BY <1>1, TrackAlways, PTL

(* Only the feed tells the page anything, but for a page loaded again.      *)
LEMMA ToldByFeed ==
  ASSUME TrackInv, [TrackingNext]_trackingVars, reloads' = reloads
  PROVE  told' = told \/ HearStatus
<1>0. reloads \in Nat
  BY TrackingAssumption DEF TrackInv, TrackingTypeOK
<1>1. ASSUME NEW n \in 1..MaxLoads, LoadStep(n) \/ LoseLoad(n) PROVE told' = told
  BY <1>1 DEF LoadStep, ReadOrders, ShowOrders, LoseLoad, messages
<1>2. ASSUME NEW o \in Orders, CallStep(o) \/ Announce(o) \/ Click(o) \/ Outside(o) \/ LoseCancel(o)
      PROVE  told' = told
  BY <1>2 DEF CallStep, CancelRow, HearPlaced, HearCancelled, HearRefusal, Announce, AnnounceRow, Click,
              ClickCancel, ClickDismiss, Outside, PlaceAnOrder, AdvanceRow, CancelElsewhere,
              LoseCancel, messages
<1>3. ~Remount
  BY <1>0 DEF Remount
<1>4. ASSUME BreakFeed \/ UNCHANGED trackingVars PROVE told' = told
  BY <1>4 DEF BreakFeed, trackingVars
<1>. QED BY <1>1, <1>2, <1>3, <1>4 DEF TrackingNext, ReturnToPage, ReloadPage

(* The progress shown of an order never goes back, for any number of orders, *)
(* overlapping loads, lost answers and broken connections.                  *)
THEOREM ProgressNeverBack == TrackingSpec => NeverBack
<1>1. TrackInv /\ [TrackingNext]_trackingVars =>
        [\A o \in Orders :
           told[o] # "none" /\ o \in Shown /\ o \in Shown' /\ reloads' = reloads
             => Rank(Display(o)') >= Rank(Display(o))]_trackingVars
  <2> SUFFICES ASSUME TrackInv, [TrackingNext]_trackingVars, NEW o \in Orders,
                      told[o] # "none", reloads' = reloads
               PROVE  Rank(Display(o)') >= Rank(Display(o))
    OBVIOUS
  <2>1. Rank(told[o]) <= Rank(told'[o])
    BY ToldByFeed, HearKeeps, RankType
  <2>2. Display(o) = told[o]
    BY DEF Display
  <2>3. \A s : Rank(s) \in 0..4
    BY RankType
  <2>4. CASE told'[o] = "none"
    <3>1. Rank(told[o]) = 0
      BY <2>1, <2>3, <2>4, Ranks
    <3>. QED BY <2>2, <2>3, <3>1
  <2>5. CASE told'[o] # "none"
    <3>1. Display(o)' = told'[o]
      BY <2>5 DEF Display
    <3>. QED BY <2>1, <2>2, <3>1
  <2>. QED BY <2>4, <2>5
<1>. QED BY <1>1, TrackAlways, PTL DEF TrackingSpec, NeverBack

-----------------------------------------------------------------------------
(* The cart, and the checkouts that empty it.                               *)

(* How much of an item each checkout takes.                                 *)
Taken(i) == [k \in Checkouts |-> order[k].lines[i]]

(* Checkouts that stand, or may yet; and those of them whose lines are no   *)
(* longer in the cart of the page.                                          *)
Standing == {k \in Checkouts : order[k].step \in {"asked", "placed", "heard"}}
LeftCart == {k \in Standing : order[k].step = "heard" \/ ~order[k].here}

(* What stands was put in the cart, and so was what left the cart, together *)
(* with what is in it: the page can empty it, or order it, but not both.    *)
(* One checkout of the page is under way at a time, and as long as the cart *)
(* is not touched it is what that checkout took.                            *)
AllPutOnce ==
  \A i \in Items :
    /\ SumFunctionOnSet(Taken(i), Standing) <= put[i]
    /\ SumFunctionOnSet(Taken(i), LeftCart) + cart[i] <= put[i]
OneCheckingOut ==
  \A k, n \in Checkouts :
    UnderWay(k) /\ order[k].here /\ UnderWay(n) /\ order[n].here => k = n
CartAsOrdered ==
  \A k \in Checkouts : UnderWay(k) /\ order[k].here /\ ~touched => cart = order[k].lines

BasketInv == CartTypeOK /\ AllPutOnce /\ OneCheckingOut /\ CartAsOrdered

Quantities == [Items -> 0..MaxPuts]
OrderSteps == {"unused", "asked", "placed", "refused", "heard", "failed", "unheard"}
OrderType == [step : OrderSteps, lines : Quantities, here : BOOLEAN]

(* The types of the cart and its checkouts, and the bounds they need.       *)
LEMMA BasketTypes ==
  ASSUME CartTypeOK
  PROVE  /\ cart \in Quantities /\ put \in Quantities /\ touched \in BOOLEAN
         /\ order \in [Checkouts -> OrderType]
         /\ IsFiniteSet(Checkouts) /\ IsFiniteSet(Items) /\ MaxPuts \in Nat
         /\ MaxCheckouts \in Nat /\ MaxVisits \in Nat /\ MaxCartLosses \in Nat
         /\ MaxLevel \in Nat
<1>1. /\ MaxPuts \in Nat /\ MaxCheckouts \in Nat /\ IsFiniteSet(Items)
      /\ MaxVisits \in Nat /\ MaxCartLosses \in Nat /\ MaxLevel \in Nat
  BY CartAssumption
<1>2. IsFiniteSet(Checkouts)
  BY <1>1, FS_Interval DEF Checkouts
<1>. QED BY <1>1, <1>2 DEF CartTypeOK, Quantities, OrderType, OrderSteps

(* Sums of lines are natural numbers.                                       *)
LEMMA TakenSums ==
  ASSUME order \in [Checkouts -> OrderType], IsFiniteSet(Checkouts), MaxPuts \in Nat,
         NEW i \in Items, NEW S \in SUBSET Checkouts
  PROVE  /\ IsFiniteSet(S) /\ \A k \in Checkouts : Taken(i)[k] \in Nat
         /\ SumFunctionOnSet(Taken(i), S) \in Nat
<1>1. \A k \in Checkouts : Taken(i)[k] = order[k].lines[i] /\ order[k].lines[i] \in Nat
  BY DEF Taken, OrderType, Quantities
<1>2. IsFiniteSet(S)
  BY FS_Subset
<1>3. PICK f : f = Taken(i)
  OBVIOUS
<1>4. \A k \in S : f[k] \in Nat
  BY <1>1, <1>3
<1>5. SumFunctionOnSet(f, S) \in Nat
  BY <1>2, <1>4, SumNat
<1>. QED BY <1>1, <1>2, <1>3, <1>5

(* Initially nothing is ordered.                                            *)
LEMMA BasketInit == CartInit => BasketInv
<1> SUFFICES ASSUME CartInit PROVE BasketInv
  OBVIOUS
<1>1. MaxPuts \in Nat /\ MaxVisits \in Nat /\ MaxCartLosses \in Nat /\ MaxLevel \in Nat
  BY CartAssumption
<1>2. Empty \in [Items -> 0..MaxPuts] /\ Empty \in [Items -> 0..MaxLevel]
  BY <1>1 DEF Empty
<1>3. CartTypeOK
  <2>1. level \in [Items -> 0..MaxLevel]
    BY <1>1 DEF CartInit
  <2>2. NoOrder \in [step : {"unused", "asked", "placed", "refused", "heard", "failed", "unheard"},
                     lines : [Items -> 0..MaxPuts], here : BOOLEAN]
    BY <1>2 DEF NoOrder
  <2>3. grid \in [step : {"asked", "answered", "shown", "failed"}, available : [Items -> 0..MaxLevel]]
    BY <1>2 DEF CartInit, Loading
  <2>4. order \in [Checkouts -> [step : {"unused", "asked", "placed", "refused", "heard", "failed", "unheard"},
                                 lines : [Items -> 0..MaxPuts], here : BOOLEAN]]
    BY <2>2 DEF CartInit
  <2>5. 0 \in 0..MaxVisits /\ 0 \in 0..MaxCartLosses
    BY <1>1
  <2>. QED BY <1>2, <2>1, <2>3, <2>4, <2>5 DEF CartInit, CartTypeOK
<1>4. \A k \in Checkouts : order[k].step = "unused"
  BY DEF CartInit, NoOrder
<1>5. AllPutOnce
  <2>1. Standing = {} /\ LeftCart = {}
    BY <1>4 DEF Standing, LeftCart
  <2>2. ASSUME NEW i \in Items
        PROVE  /\ SumFunctionOnSet(Taken(i), Standing) <= put[i]
               /\ SumFunctionOnSet(Taken(i), LeftCart) + cart[i] <= put[i]
    <3>1. SumFunctionOnSet(Taken(i), {}) = 0
      BY SumEmpty
    <3>2. put[i] = 0 /\ cart[i] = 0
      BY DEF CartInit, Empty
    <3>. QED BY <2>1, <3>1, <3>2
  <2>. QED BY <2>2 DEF AllPutOnce
<1>6. OneCheckingOut /\ CartAsOrdered
  BY <1>4 DEF OneCheckingOut, CartAsOrdered, UnderWay
<1>. QED BY <1>3, <1>5, <1>6 DEF BasketInv

(* A step that takes nothing, leaves no more in the cart, and to nobody else's *)
(* cart what was ordered, keeps what was put once.                          *)
LEMMA NoMoreTaken ==
  ASSUME BasketInv, order' \in [Checkouts -> OrderType], put' = put, cart' \in Quantities,
         \A k \in Checkouts : order'[k].lines = order[k].lines,
         Standing' \subseteq Standing,
         \/ LeftCart' \subseteq LeftCart /\ \A i \in Items : cart'[i] <= cart[i]
         \/ LeftCart' \subseteq Standing /\ cart' = Empty
  PROVE  AllPutOnce'
<1> SUFFICES ASSUME NEW i \in Items
             PROVE  /\ SumFunctionOnSet(Taken(i)', Standing') <= put'[i]
                    /\ SumFunctionOnSet(Taken(i)', LeftCart') + cart'[i] <= put'[i]
  BY DEF AllPutOnce
<1>0. /\ order \in [Checkouts -> OrderType] /\ IsFiniteSet(Checkouts) /\ MaxPuts \in Nat
      /\ cart \in Quantities /\ put \in Quantities
  BY BasketTypes DEF BasketInv
<1>1. Taken(i)' = Taken(i)
  BY DEF Taken
<1>2. Standing \subseteq Checkouts /\ LeftCart \subseteq Standing
  BY DEF Standing, LeftCart
<1> DEFINE s(S) == SumFunctionOnSet(Taken(i), S)
<1>3. \A S \in SUBSET Checkouts : s(S) \in Nat
  BY <1>0, TakenSums
<1>4. ASSUME NEW S \in SUBSET Checkouts, NEW U \in SUBSET S PROVE s(U) <= s(S)
  <2>1. IsFiniteSet(S) /\ \A k \in S : Taken(i)[k] \in Nat
    BY <1>0, TakenSums
  <2>2. PICK f : f = Taken(i)
    OBVIOUS
  <2>3. SumFunctionOnSet(f, U) <= SumFunctionOnSet(f, S)
    BY <2>1, <2>2, SumSubset
  <2>. QED BY <2>2, <2>3
<1>5. s(Standing) <= put[i] /\ s(LeftCart) + cart[i] <= put[i]
  BY DEF BasketInv, AllPutOnce
<1>6. put[i] \in Nat /\ cart[i] \in Nat /\ cart'[i] \in Nat
  BY <1>0 DEF Quantities
<1> HIDE DEF s
<1>7. s(Standing') <= put[i]
  BY <1>2, <1>3, <1>4, <1>5, <1>6
<1>8. s(LeftCart') + cart'[i] <= put[i]
  <2>1. CASE LeftCart' \subseteq LeftCart /\ \A j \in Items : cart'[j] <= cart[j]
    <3>1. s(LeftCart') <= s(LeftCart) /\ s(LeftCart') \in Nat /\ s(LeftCart) \in Nat
      BY <1>2, <1>3, <1>4, <2>1
    <3>. QED BY <1>5, <1>6, <2>1, <3>1
  <2>2. CASE LeftCart' \subseteq Standing /\ cart' = Empty
    <3>1. s(LeftCart') <= s(Standing) /\ s(LeftCart') \in Nat /\ s(Standing) \in Nat
      BY <1>2, <1>3, <1>4, <2>2
    <3>2. cart'[i] = 0
      BY <2>2 DEF Empty
    <3>. QED BY <1>5, <1>6, <3>1, <3>2
  <2>. QED BY <2>1, <2>2
<1>. QED BY <1>1, <1>7, <1>8 DEF s


(* A step that touches neither the cart nor a checkout keeps all of it.     *)
LEMMA BasketUntouched ==
  ASSUME BasketInv, UNCHANGED <<cart, put, touched, order>>
  PROVE  AllPutOnce' /\ OneCheckingOut' /\ CartAsOrdered'
<1>1. Standing' = Standing /\ LeftCart' = LeftCart /\ \A i \in Items : Taken(i)' = Taken(i)
  BY DEF Standing, LeftCart, Taken
<1>2. AllPutOnce'
  BY <1>1 DEF BasketInv, AllPutOnce
<1>3. OneCheckingOut' /\ CartAsOrdered'
  BY DEF BasketInv, OneCheckingOut, CartAsOrdered, UnderWay
<1>. QED BY <1>2, <1>3

(* What one more unit in the cart changes.                                  *)
LEMMA PutOneStep ==
  ASSUME BasketInv, NEW i \in Items, PutOne(i)
  PROVE  /\ AllPutOnce' /\ OneCheckingOut' /\ CartAsOrdered'
         /\ cart' \in Quantities /\ put' \in Quantities /\ touched' \in BOOLEAN
<1>0. /\ order \in [Checkouts -> OrderType] /\ IsFiniteSet(Checkouts) /\ MaxPuts \in Nat
      /\ cart \in Quantities /\ put \in Quantities /\ IsFiniteSet(Items) /\ touched \in BOOLEAN
  BY BasketTypes DEF BasketInv
<1>1. /\ cart' = [cart EXCEPT ![i] = @ + 1] /\ put' = [put EXCEPT ![i] = @ + 1]
      /\ touched' = (touched \/ CheckingOut) /\ order' = order /\ InAll(put) < MaxPuts
  BY DEF PutOne, calls
<1>2. put[i] < MaxPuts
  <2>1. \A j \in Items : put[j] \in Nat
    BY <1>0 DEF Quantities
  <2>2. put[i] <= SumFunctionOnSet(put, Items)
    BY <1>0, <2>1, SumTerm
  <2>3. SumFunctionOnSet(put, Items) \in Nat
    BY <1>0, <2>1, SumNat
  <2>. QED BY <1>0, <1>1, <2>1, <2>2, <2>3 DEF InAll
<1>3. put' \in Quantities
  BY <1>0, <1>1, <1>2 DEF Quantities
<1>4. Standing' = Standing /\ LeftCart' = LeftCart /\ \A j \in Items : Taken(j)' = Taken(j)
  BY <1>1 DEF Standing, LeftCart, Taken
<1>5. Standing \subseteq Checkouts /\ LeftCart \subseteq Checkouts
  BY DEF Standing, LeftCart
<1>6. ASSUME NEW j \in Items
      PROVE  /\ SumFunctionOnSet(Taken(j), Standing) <= put'[j]
             /\ SumFunctionOnSet(Taken(j), LeftCart) + cart'[j] <= put'[j]
  <2>1. /\ SumFunctionOnSet(Taken(j), Standing) <= put[j]
        /\ SumFunctionOnSet(Taken(j), LeftCart) + cart[j] <= put[j]
    BY DEF BasketInv, AllPutOnce
  <2>2. SumFunctionOnSet(Taken(j), Standing) \in Nat /\ SumFunctionOnSet(Taken(j), LeftCart) \in Nat
    BY <1>0, <1>5, TakenSums
  <2>3. put[j] \in Nat /\ cart[j] \in Nat
    BY <1>0 DEF Quantities
  <2>4. \/ put'[j] = put[j] /\ cart'[j] = cart[j]
        \/ put'[j] = put[j] + 1 /\ cart'[j] = cart[j] + 1
    BY <1>0, <1>1 DEF Quantities
  <2>. QED BY <2>1, <2>2, <2>3, <2>4
<1>7. AllPutOnce'
  BY <1>4, <1>6 DEF AllPutOnce
<1>8. cart' \in Quantities
  <2>1. cart[i] <= put[i]
    <3>1. SumFunctionOnSet(Taken(i), LeftCart) \in Nat
      BY <1>0, <1>5, TakenSums
    <3>2. SumFunctionOnSet(Taken(i), LeftCart) + cart[i] <= put[i]
      BY DEF BasketInv, AllPutOnce
    <3>3. put[i] \in Nat /\ cart[i] \in Nat
      BY <1>0 DEF Quantities
    <3>. QED BY <3>1, <3>2, <3>3
  <2>2. cart[i] + 1 \in 0..MaxPuts
    BY <1>0, <1>2, <2>1 DEF Quantities
  <2>. QED BY <1>0, <1>1, <2>2 DEF Quantities
<1>9. OneCheckingOut' /\ CartAsOrdered'
  BY <1>1 DEF BasketInv, OneCheckingOut, CartAsOrdered, UnderWay, CheckingOut
<1>. QED BY <1>0, <1>1, <1>3, <1>7, <1>8, <1>9

(* A checkout orders what the cart holds, which nothing that stands holds.  *)
LEMMA CheckoutStep ==
  ASSUME BasketInv, NEW k \in Checkouts, Checkout(k)
  PROVE  /\ AllPutOnce' /\ OneCheckingOut' /\ CartAsOrdered'
         /\ order' \in [Checkouts -> OrderType]
<1>0. /\ order \in [Checkouts -> OrderType] /\ IsFiniteSet(Checkouts) /\ MaxPuts \in Nat
      /\ cart \in Quantities /\ put \in Quantities
  BY BasketTypes DEF BasketInv
<1> DEFINE o == [step |-> "asked", lines |-> cart, here |-> TRUE]
<1>1. /\ order' = [order EXCEPT ![k] = o] /\ ~CheckingOut /\ order[k].step = "unused"
      /\ cart' = cart /\ put' = put /\ touched' = FALSE
  BY DEF Checkout, NoOrder
<1>2. o \in OrderType
  BY <1>0 DEF OrderType, OrderSteps
<1>3. order' \in [Checkouts -> OrderType]
  BY <1>0, <1>1, <1>2
<1>4. order'[k] = o /\ \A n \in Checkouts \ {k} : order'[n] = order[n]
  BY <1>0, <1>1
<1>5. Standing' = Standing \cup {k} /\ k \notin Standing /\ LeftCart' = LeftCart /\ Standing = LeftCart
  BY <1>1, <1>4 DEF Standing, LeftCart, CheckingOut, UnderWay
<1>6. Standing \subseteq Checkouts
  BY DEF Standing
<1>7. ASSUME NEW i \in Items
      PROVE  /\ SumFunctionOnSet(Taken(i)', Standing') <= put'[i]
             /\ SumFunctionOnSet(Taken(i)', LeftCart') + cart'[i] <= put'[i]
  <2>1. PICK f : f = Taken(i)
    OBVIOUS
  <2>2. PICK g : g = Taken(i)'
    OBVIOUS
  <2>3. IsFiniteSet(Standing) /\ SumFunctionOnSet(f, Standing) \in Nat /\ \A n \in Standing : f[n] \in Nat
    BY <1>0, <1>6, <2>1, TakenSums
  <2>4. \A n \in Standing : g[n] = f[n]
    BY <1>4, <1>5, <1>6, <2>1, <2>2 DEF Taken
  <2>5. g[k] = cart[i] /\ cart[i] \in Nat /\ put[i] \in Nat
    BY <1>0, <1>4, <2>2 DEF Taken, Quantities
  <2>6. SumFunctionOnSet(g, Standing) = SumFunctionOnSet(f, Standing)
    BY <2>3, <2>4, SumCongruent
  <2>7. \A n \in Standing \cup {k} : g[n] \in Int
    BY <2>3, <2>4, <2>5
  <2>8. SumFunctionOnSet(g, Standing \cup {k}) = SumFunctionOnSet(g, Standing) + g[k]
    BY <1>5, <2>3, <2>7, SumAdd
  <2>9. SumFunctionOnSet(f, Standing) + cart[i] <= put[i]
    BY <1>5, <2>1 DEF BasketInv, AllPutOnce
  <2>10. SumFunctionOnSet(g, Standing') <= put'[i]
    BY <1>1, <1>5, <2>5, <2>6, <2>8, <2>9
  <2>11. SumFunctionOnSet(g, LeftCart') + cart'[i] <= put'[i]
    BY <1>1, <1>5, <2>6, <2>9
  <2>. QED BY <2>2, <2>10, <2>11
<1>8. AllPutOnce'
  BY <1>7 DEF AllPutOnce
<1>9. OneCheckingOut' /\ CartAsOrdered'
  BY <1>1, <1>4 DEF OneCheckingOut, CartAsOrdered, UnderWay, CheckingOut
<1>. QED BY <1>3, <1>8, <1>9

(* A checkout that goes on to fail, to be lost, or from "asked" to an answer.*)
LEMMA CheckoutMoves ==
  ASSUME BasketInv, NEW k \in Checkouts, UnderWay(k),
         NEW s \in OrderSteps, order' = [order EXCEPT ![k].step = s],
         s \in {"placed", "refused", "failed", "unheard"},
         s = "placed" => order[k].step = "asked", UNCHANGED <<cart, put, touched>>
  PROVE  /\ AllPutOnce' /\ OneCheckingOut' /\ CartAsOrdered'
         /\ order' \in [Checkouts -> OrderType]
<1>0. /\ order \in [Checkouts -> OrderType] /\ cart \in Quantities
  BY BasketTypes DEF BasketInv
<1>1. [order[k] EXCEPT !.step = s] \in OrderType
  BY <1>0 DEF OrderType
<1>2. order' \in [Checkouts -> OrderType]
  BY <1>0, <1>1
<1>3. /\ order'[k].step = s /\ order'[k].lines = order[k].lines /\ order'[k].here = order[k].here
      /\ \A n \in Checkouts \ {k} : order'[n] = order[n]
  BY <1>0 DEF OrderType
<1>4. Standing' \subseteq Standing /\ LeftCart' \subseteq LeftCart
  BY <1>3 DEF Standing, LeftCart
<1>5. \A i \in Items : cart'[i] <= cart[i]
  BY <1>0, CartAssumption DEF Quantities
<1>6. \A n \in Checkouts : order'[n].lines = order[n].lines
  BY <1>3
<1>7. AllPutOnce'
  BY <1>0, <1>2, <1>4, <1>5, <1>6, NoMoreTaken
<1>8. OneCheckingOut' /\ CartAsOrdered'
  BY <1>3 DEF BasketInv, OneCheckingOut, CartAsOrdered, UnderWay
<1>. QED BY <1>2, <1>7, <1>8

(* An answer leaves the cart to the checkout that asked from this page.     *)
LEMMA HearOrderPlacedStep ==
  ASSUME BasketInv, NEW k \in Checkouts, HearOrderPlaced(k)
  PROVE  /\ AllPutOnce' /\ OneCheckingOut' /\ CartAsOrdered'
         /\ cart' \in Quantities /\ order' \in [Checkouts -> OrderType]
<1>0. order \in [Checkouts -> OrderType] /\ cart \in Quantities /\ MaxPuts \in Nat
  BY BasketTypes DEF BasketInv
<1>1. /\ order' = [order EXCEPT ![k].step = "heard"] /\ put' = put /\ touched' = touched
      /\ cart' = IF order[k].here THEN Empty ELSE cart
      /\ order[k].step = "placed"
  BY DEF HearOrderPlaced
<1>2. [order[k] EXCEPT !.step = "heard"] \in OrderType
  BY <1>0 DEF OrderType, OrderSteps
<1>3. order' \in [Checkouts -> OrderType]
  BY <1>0, <1>1, <1>2
<1>4. /\ order'[k].step = "heard" /\ order'[k].lines = order[k].lines /\ order'[k].here = order[k].here
      /\ \A n \in Checkouts \ {k} : order'[n] = order[n]
  BY <1>0, <1>1 DEF OrderType
<1>5. cart' \in Quantities
  BY <1>0, <1>1 DEF Quantities, Empty
<1>6. Standing' = Standing /\ LeftCart' \subseteq LeftCart \cup {k} /\ k \in Standing
  BY <1>1, <1>4 DEF Standing, LeftCart
<1>7. \A n \in Checkouts : order'[n].lines = order[n].lines
  BY <1>4
<1>8. AllPutOnce'
  <2>1. CASE order[k].here
    <3>1. LeftCart' \subseteq Standing /\ cart' = Empty
      BY <1>1, <1>6, <2>1 DEF LeftCart
    <3>. QED BY <1>1, <1>3, <1>5, <1>6, <1>7, <3>1, NoMoreTaken
  <2>2. CASE ~order[k].here
    <3>1. k \in LeftCart /\ cart' = cart
      BY <1>1, <1>6, <2>2 DEF LeftCart
    <3>2. LeftCart' \subseteq LeftCart
      BY <1>6, <3>1
    <3>3. \A i \in Items : cart'[i] <= cart[i]
      BY <1>0, <3>1 DEF Quantities
    <3>. QED BY <1>1, <1>3, <1>5, <1>6, <1>7, <3>2, <3>3, NoMoreTaken
  <2>. QED BY <2>1, <2>2
<1>9. OneCheckingOut'
  BY <1>4 DEF BasketInv, OneCheckingOut, UnderWay
<1>10. CartAsOrdered'
  <2>1. ASSUME NEW n \in Checkouts, UnderWay(n)', order'[n].here, ~touched'
        PROVE  cart' = order'[n].lines
    <3>1. n # k /\ UnderWay(n) /\ order[n].here /\ order'[n] = order[n]
      BY <1>4, <2>1 DEF UnderWay
    <3>2. ~order[k].here
      BY <1>1, <3>1 DEF BasketInv, OneCheckingOut, UnderWay
    <3>. QED BY <1>1, <2>1, <3>1, <3>2 DEF BasketInv, CartAsOrdered
  <2>. QED BY <2>1 DEF CartAsOrdered
<1>. QED BY <1>3, <1>5, <1>8, <1>9, <1>10

(* Units taken out touch the cart.                                          *)
LEMMA TakeOutStep ==
  ASSUME BasketInv, NEW i \in Items, TakeOut(i)
  PROVE  /\ AllPutOnce' /\ OneCheckingOut' /\ CartAsOrdered'
         /\ cart' \in Quantities /\ touched' \in BOOLEAN
<1>0. /\ order \in [Checkouts -> OrderType] /\ cart \in Quantities /\ MaxPuts \in Nat
      /\ touched \in BOOLEAN
  BY BasketTypes DEF BasketInv
<1>1. /\ order' = order /\ put' = put /\ touched' = (touched \/ CheckingOut) /\ cart[i] > 0
  BY DEF TakeOut, calls
<1>2. PICK quantity \in {0, cart[i] - 1} : cart' = [cart EXCEPT ![i] = quantity]
  BY DEF TakeOut
<1>3. quantity \in 0..MaxPuts /\ quantity <= cart[i]
  BY <1>0, <1>1, <1>2 DEF Quantities
<1>4. cart' \in Quantities
  BY <1>0, <1>2, <1>3 DEF Quantities
<1>5. \A j \in Items : cart'[j] <= cart[j]
  BY <1>0, <1>2, <1>3 DEF Quantities
<1>6. Standing' = Standing /\ LeftCart' = LeftCart
  BY <1>1 DEF Standing, LeftCart
<1>7. AllPutOnce'
  BY <1>0, <1>1, <1>4, <1>5, <1>6, NoMoreTaken
<1>8. OneCheckingOut' /\ CartAsOrdered'
  BY <1>1 DEF BasketInv, OneCheckingOut, CartAsOrdered, UnderWay, CheckingOut
<1>. QED BY <1>0, <1>1, <1>4, <1>7, <1>8

(* The page that goes takes its cart with it: what is under way is no      *)
(* longer that page's.                                                      *)
LEMMA GoToAdminStep ==
  ASSUME BasketInv, GoToAdmin
  PROVE  /\ AllPutOnce' /\ OneCheckingOut' /\ CartAsOrdered'
         /\ cart' \in Quantities /\ order' \in [Checkouts -> OrderType]
<1>0. order \in [Checkouts -> OrderType] /\ cart \in Quantities /\ MaxPuts \in Nat
  BY BasketTypes DEF BasketInv
<1>1. /\ order' = [k \in Checkouts |-> [order[k] EXCEPT !.here = FALSE]]
      /\ put' = put /\ cart' = Empty
  BY DEF GoToAdmin
<1>2. ASSUME NEW k \in Checkouts
      PROVE  /\ [order[k] EXCEPT !.here = FALSE] \in OrderType
             /\ order'[k].step = order[k].step /\ order'[k].lines = order[k].lines
             /\ order'[k].here = FALSE
  BY <1>0, <1>1 DEF OrderType
<1>3. order' \in [Checkouts -> OrderType]
  BY <1>1, <1>2
<1>4. cart' \in Quantities
  BY <1>0, <1>1 DEF Quantities, Empty
<1>5. Standing' = Standing /\ LeftCart' \subseteq Standing
  BY <1>2 DEF Standing, LeftCart
<1>6. \A k \in Checkouts : order'[k].lines = order[k].lines
  BY <1>2
<1>7. AllPutOnce'
  BY <1>1, <1>3, <1>4, <1>5, <1>6, NoMoreTaken
<1>8. OneCheckingOut' /\ CartAsOrdered'
  BY <1>2 DEF OneCheckingOut, CartAsOrdered
<1>. QED BY <1>3, <1>4, <1>7, <1>8

(* The patron's side of the invariant is kept by every step ...             *)
BasketPart ==
  /\ AllPutOnce /\ OneCheckingOut /\ CartAsOrdered
  /\ cart \in Quantities /\ put \in Quantities /\ touched \in BOOLEAN
  /\ order \in [Checkouts -> OrderType]

(* Every step keeps what the invariant says of the cart and its checkouts.  *)
LEMMA BasketPartKept == BasketInv /\ [CartNext]_cartVars => BasketPart'
<1> SUFFICES ASSUME BasketInv, [CartNext]_cartVars PROVE BasketPart'
  OBVIOUS
<1>0. /\ order \in [Checkouts -> OrderType] /\ cart \in Quantities /\ put \in Quantities
      /\ touched \in BOOLEAN
  BY BasketTypes DEF BasketInv
<1>u. ASSUME UNCHANGED <<cart, put, touched, order>> PROVE BasketPart'
  BY <1>0, <1>u, BasketUntouched DEF BasketPart
<1>m. ASSUME NEW k \in Checkouts, UnderWay(k), NEW s \in {"placed", "refused", "failed", "unheard"},
             order' = [order EXCEPT ![k].step = s], s = "placed" => order[k].step = "asked",
             UNCHANGED <<cart, put, touched>>
      PROVE  BasketPart'
  <2>1. s \in OrderSteps
    BY DEF OrderSteps
  <2>. QED BY <1>0, <1>m, <2>1, CheckoutMoves DEF BasketPart
<1>1. ASSUME NEW k \in Checkouts, Checkout(k) \/ SettleOrder(k) \/ LoseOrder(k) PROVE BasketPart'
  <2>1. CASE Checkout(k)
    <3>1. put' = put /\ cart' = cart /\ touched' = FALSE
      BY <2>1 DEF Checkout
    <3>. QED BY <1>0, <2>1, <3>1, CheckoutStep DEF BasketPart
  <2>2. CASE TakeOrder(k)
    <3>1. UnderWay(k) /\ order[k].step = "asked" /\ UNCHANGED <<cart, put, touched>>
      BY <2>2 DEF TakeOrder, UnderWay, basket
    <3>2. PICK s \in {"placed", "refused"} : order' = [order EXCEPT ![k].step = s]
      BY <2>2 DEF TakeOrder
    <3>. QED BY <1>m, <3>1, <3>2
  <2>3. CASE HearOrderPlaced(k)
    <3>1. put' = put /\ touched' = touched
      BY <2>3 DEF HearOrderPlaced
    <3>. QED BY <1>0, <2>3, <3>1, HearOrderPlacedStep DEF BasketPart
  <2>4. CASE HearRefused(k)
    <3>1. UnderWay(k) /\ UNCHANGED <<cart, put, touched>> /\ order' = [order EXCEPT ![k].step = "failed"]
      BY <2>4 DEF HearRefused, UnderWay, basket
    <3>. QED BY <1>m, <3>1
  <2>5. CASE LoseOrder(k)
    <3>1. UnderWay(k) /\ UNCHANGED <<cart, put, touched>>
      BY <2>5 DEF LoseOrder, basket
    <3>2. PICK s \in {"unheard", "failed"} : order' = [order EXCEPT ![k].step = s]
      BY <1>0, <2>5 DEF LoseOrder
    <3>. QED BY <1>m, <3>1, <3>2
  <2>. QED BY <1>1, <2>1, <2>2, <2>3, <2>4, <2>5 DEF SettleOrder
<1>2. ASSUME NEW i \in Items, Shop(i) PROVE BasketPart'
  <2>1. CASE PutOne(i)
    <3>1. order' = order
      BY <2>1 DEF PutOne, calls
    <3>. QED BY <1>0, <2>1, <3>1, PutOneStep DEF BasketPart
  <2>2. CASE TakeOut(i)
    <3>1. order' = order /\ put' = put
      BY <2>2 DEF TakeOut, calls
    <3>. QED BY <1>0, <2>2, <3>1, TakeOutStep DEF BasketPart
  <2>. QED BY <1>2, <2>1, <2>2 DEF Shop
<1>3. ASSUME NEW i \in Items, Manage(i) \/ Save(i) \/ HearSellout(i) \/ LoseSellout(i) \/ LoseSave(i)
      PROVE  UNCHANGED <<cart, put, touched, order>>
  BY <1>3 DEF Manage, OthersBuy, ClickSave, Save, SetLevel, HearSaved, HearSellout, LoseSellout,
              LoseSave, basket, calls
<1>4. ASSUME ReadMenu \/ LoseMenu \/ Return PROVE UNCHANGED <<cart, put, touched, order>>
  BY <1>4 DEF ReadMenu, GetMenu, ShowMenu, LoseMenu, Return, basket, calls
<1>5. ASSUME GoToAdmin PROVE BasketPart'
  <2>1. put' = put /\ touched' = FALSE
    BY <1>5 DEF GoToAdmin
  <2>. QED BY <1>0, <1>5, <2>1, GoToAdminStep DEF BasketPart
<1>6. ASSUME UNCHANGED cartVars PROVE UNCHANGED <<cart, put, touched, order>>
  BY <1>6 DEF cartVars
<1>. QED BY <1>u, <1>1, <1>2, <1>3, <1>4, <1>5, <1>6 DEF CartNext

(* ... and what is around it keeps its type.                                *)
ShopTypeOK ==
  /\ level \in [Items -> 0..MaxLevel]
  /\ selling \subseteq Items /\ unseen \subseteq Items /\ marks \subseteq Items
  /\ silent \subseteq Items /\ saving \in [Items -> {"none", "asked", "done"}]
  /\ page \in {"patron", "admin"}
  /\ grid \in [step : {"asked", "answered", "shown", "failed"}, available : [Items -> 0..MaxLevel]]
  /\ visits \in 0..MaxVisits /\ lostCalls \in 0..MaxCartLosses

(* What is sold is in stock.                                                *)
LEMMA SellKeepsLevels ==
  ASSUME ShopTypeOK, NEW lines \in [Items -> Nat], InStock(lines), Sell(lines)
  PROVE  level' \in [Items -> 0..MaxLevel] /\ selling' \subseteq Items /\ unseen' = unseen
<1>1. MaxLevel \in Nat
  BY CartAssumption
<1>2. \A i \in Items : level[i] \in 0..MaxLevel /\ lines[i] \in Nat /\ lines[i] <= level[i]
  BY DEF ShopTypeOK, InStock
<1>3. \A i \in Items : level[i] - lines[i] \in 0..MaxLevel
  BY <1>1, <1>2
<1>. QED BY <1>3 DEF Sell, ShopTypeOK

(* Every step keeps the types of the rest of the page.                      *)
LEMMA ShopTypeKept == BasketInv /\ [CartNext]_cartVars => ShopTypeOK'
<1> SUFFICES ASSUME BasketInv, [CartNext]_cartVars PROVE ShopTypeOK'
  OBVIOUS
<1>0. ShopTypeOK
  BY DEF BasketInv, CartTypeOK, ShopTypeOK
<1>1. /\ MaxLevel \in Nat /\ MaxVisits \in Nat /\ MaxCartLosses \in Nat /\ MaxPuts \in Nat
      /\ order \in [Checkouts -> OrderType]
  BY BasketTypes DEF BasketInv
<1>l. LoseOne => lostCalls' \in 0..MaxCartLosses
  BY <1>0, <1>1 DEF LoseOne, ShopTypeOK
<1>e. Empty \in [Items -> 0..MaxLevel]
  BY <1>1 DEF Empty
<1>2. ASSUME NEW k \in Checkouts, TakeOrder(k) PROVE ShopTypeOK'
  <2>1. order[k].lines \in [Items -> Nat]
    BY <1>1 DEF OrderType, Quantities
  <2>2. UNCHANGED <<marks, silent, page, grid, saving, visits, lostCalls>>
    BY <1>2 DEF TakeOrder, soldOut, budget
  <2>3. CASE InStock(order[k].lines)
    <3>1. Sell(order[k].lines)
      BY <1>2, <2>3 DEF TakeOrder
    <3>2. level' \in [Items -> 0..MaxLevel] /\ selling' \subseteq Items /\ unseen' = unseen
      BY <1>0, <2>1, <2>3, <3>1, SellKeepsLevels
    <3>. QED BY <1>0, <2>2, <3>2 DEF ShopTypeOK
  <2>4. CASE ~InStock(order[k].lines)
    BY <1>0, <1>2, <2>2, <2>4 DEF TakeOrder, shop, ShopTypeOK
  <2>. QED BY <2>3, <2>4
<1>3. ASSUME NEW i \in Items, OthersBuy(i) PROVE ShopTypeOK'
  <2> DEFINE one == [Empty EXCEPT ![i] = 1]
  <2>1. one \in [Items -> Nat] /\ \A j \in Items : one[j] = IF j = i THEN 1 ELSE 0
    BY DEF Empty
  <2>2. InStock(one)
    <3>1. level[i] > 0 /\ \A j \in Items : level[j] \in 0..MaxLevel
      BY <1>0, <1>3 DEF OthersBuy, ShopTypeOK
    <3>. QED BY <1>1, <2>1, <3>1 DEF InStock
  <2>3. Sell(one) /\ UNCHANGED <<marks, silent, page, grid, saving, visits, lostCalls>>
    BY <1>3 DEF OthersBuy, soldOut, calls, budget
  <2> HIDE DEF one
  <2>4. level' \in [Items -> 0..MaxLevel] /\ selling' \subseteq Items /\ unseen' = unseen
    BY <1>0, <2>1, <2>2, <2>3, SellKeepsLevels
  <2>. QED BY <1>0, <2>3, <2>4 DEF ShopTypeOK
<1>4. ASSUME NEW k \in Checkouts, Checkout(k) \/ HearOrderPlaced(k) \/ HearRefused(k) \/ LoseOrder(k)
      PROVE  ShopTypeOK'
  <2>1. UNCHANGED <<level, selling, unseen, marks, silent, page, grid, saving, visits>>
    BY <1>4 DEF Checkout, HearOrderPlaced, HearRefused, LoseOrder, shop, soldOut, budget
  <2>2. lostCalls' \in 0..MaxCartLosses
    BY <1>0, <1>4, <1>l DEF Checkout, HearOrderPlaced, HearRefused, LoseOrder, budget, ShopTypeOK
  <2>. QED BY <1>0, <2>1, <2>2 DEF ShopTypeOK
<1>5. ASSUME NEW i \in Items, Shop(i) PROVE ShopTypeOK'
  BY <1>0, <1>5 DEF Shop, PutOne, TakeOut, shop, soldOut, calls, budget, ShopTypeOK
<1>6. ASSUME NEW i \in Items, ClickSave(i) PROVE ShopTypeOK'
  BY <1>0, <1>6 DEF ClickSave, shop, soldOut, budget, ShopTypeOK
<1>7. ASSUME NEW i \in Items, SetLevel(i) PROVE ShopTypeOK'
  <2>1. level' \in [Items -> 0..MaxLevel] /\ silent' \subseteq Items
    BY <1>0, <1>7 DEF SetLevel, ShopTypeOK
  <2>2. saving' \in [Items -> {"none", "asked", "done"}]
    BY <1>0, <1>7 DEF SetLevel, ShopTypeOK
  <2>3. UNCHANGED <<selling, unseen, marks, page, grid, visits, lostCalls>>
    BY <1>7 DEF SetLevel, budget
  <2>. QED BY <1>0, <2>1, <2>2, <2>3 DEF ShopTypeOK
<1>8. ASSUME NEW i \in Items, HearSaved(i) PROVE ShopTypeOK'
  <2>1. saving' \in [Items -> {"none", "asked", "done"}] /\ marks' \subseteq Items
    BY <1>0, <1>8 DEF HearSaved, ShopTypeOK
  <2>2. silent' \subseteq Items
    BY <1>0, <1>8 DEF HearSaved, ShopTypeOK
  <2>3. UNCHANGED <<level, selling, unseen, page, grid, visits, lostCalls>>
    BY <1>8 DEF HearSaved, shop, budget
  <2>. QED BY <1>0, <2>1, <2>2, <2>3 DEF ShopTypeOK
<1>9. ASSUME NEW i \in Items, HearSellout(i) PROVE ShopTypeOK'
  BY <1>0, <1>9 DEF HearSellout, calls, budget, ShopTypeOK
<1>10. ASSUME NEW i \in Items, LoseSellout(i) \/ LoseSave(i) PROVE ShopTypeOK'
  <2>1. lostCalls' \in 0..MaxCartLosses
    BY <1>10, <1>l DEF LoseSellout, LoseSave
  <2>2. /\ selling' \subseteq Items /\ unseen' \subseteq Items
        /\ saving' \in [Items -> {"none", "asked", "done"}]
    BY <1>0, <1>10 DEF LoseSellout, LoseSave, shop, calls, ShopTypeOK
  <2>3. UNCHANGED <<level, marks, silent, page, grid, visits>>
    BY <1>10 DEF LoseSellout, LoseSave, shop, soldOut
  <2>. QED BY <1>0, <2>1, <2>2, <2>3 DEF ShopTypeOK
<1>11. ASSUME ReadMenu PROVE ShopTypeOK'
  <2>1. UNCHANGED <<level, selling, unseen, marks, silent, page, saving, visits, lostCalls>>
    BY <1>11 DEF ReadMenu, GetMenu, ShowMenu, shop, soldOut, calls, budget
  <2>2. grid' \in [step : {"asked", "answered", "shown", "failed"}, available : [Items -> 0..MaxLevel]]
    BY <1>0, <1>11 DEF ReadMenu, GetMenu, ShowMenu, ShopTypeOK
  <2>. QED BY <1>0, <2>1, <2>2 DEF ShopTypeOK
<1>12. ASSUME LoseMenu PROVE ShopTypeOK'
  <2>1. UNCHANGED <<level, selling, unseen, marks, silent, page, saving, visits>>
    BY <1>12 DEF LoseMenu, shop, soldOut, calls
  <2>2. grid' \in [step : {"asked", "answered", "shown", "failed"}, available : [Items -> 0..MaxLevel]]
    BY <1>e, <1>12 DEF LoseMenu, Loading
  <2>. QED BY <1>0, <1>12, <1>l, <2>1, <2>2 DEF LoseMenu, ShopTypeOK
<1>13. ASSUME GoToAdmin PROVE ShopTypeOK'
  <2>1. visits' \in 0..MaxVisits
    BY <1>0, <1>1, <1>13 DEF GoToAdmin, ShopTypeOK
  <2>2. grid' \in [step : {"asked", "answered", "shown", "failed"}, available : [Items -> 0..MaxLevel]]
    BY <1>e, <1>13 DEF GoToAdmin, Loading
  <2>. QED BY <1>0, <1>13, <2>1, <2>2 DEF GoToAdmin, shop, soldOut, ShopTypeOK
<1>14. ASSUME Return PROVE ShopTypeOK'
  <2>2. grid' \in [step : {"asked", "answered", "shown", "failed"}, available : [Items -> 0..MaxLevel]]
    BY <1>e, <1>14 DEF Return, Loading
  <2>. QED BY <1>0, <1>14, <2>2 DEF Return, shop, soldOut, calls, budget, ShopTypeOK
<1>15. ASSUME UNCHANGED cartVars PROVE ShopTypeOK'
  BY <1>0, <1>15 DEF cartVars, ShopTypeOK
<1>. QED BY <1>2, <1>3, <1>4, <1>5, <1>6, <1>7, <1>8, <1>9, <1>10, <1>11, <1>12, <1>13, <1>14, <1>15
         DEF CartNext, SettleOrder, Manage, Save

(* The invariant is inductive.                                              *)
LEMMA BasketStep == BasketInv /\ [CartNext]_cartVars => BasketInv'
<1> SUFFICES ASSUME BasketInv, [CartNext]_cartVars PROVE BasketInv'
  OBVIOUS
<1>1. BasketPart' /\ ShopTypeOK'
  BY BasketPartKept, ShopTypeKept
<1>2. CartTypeOK'
  BY <1>1 DEF BasketPart, ShopTypeOK, CartTypeOK, Quantities, OrderType, OrderSteps
<1>. QED BY <1>1, <1>2 DEF BasketPart, BasketInv

(* The invariant of the cart always holds.                                  *)
LEMMA BasketAlways == CartSpec => []BasketInv
  BY BasketInit, BasketStep, PTL DEF CartSpec

(* Every variable of the patron page keeps its type.                        *)
THEOREM BasketTypeCorrect == CartSpec => []CartTypeOK
<1>1. BasketInv => CartTypeOK
  BY DEF BasketInv
<1>. QED BY <1>1, BasketAlways, PTL

(* What is acknowledged stands.                                             *)
LEMMA BasketImpliesOnce == BasketInv => OrderedOnce
<1> SUFFICES ASSUME BasketInv, NEW i \in Items
             PROVE  SumFunctionOnSet([k \in Checkouts |-> order[k].lines[i]], Acknowledged) <= put[i]
  BY DEF OrderedOnce
<1>0. /\ order \in [Checkouts -> OrderType] /\ IsFiniteSet(Checkouts) /\ MaxPuts \in Nat
      /\ put \in Quantities
  BY BasketTypes DEF BasketInv
<1>1. Standing \subseteq Checkouts /\ Acknowledged \subseteq Standing
  BY DEF Standing, Acknowledged
<1>2. IsFiniteSet(Standing) /\ \A k \in Standing : Taken(i)[k] \in Nat
  BY <1>0, <1>1, TakenSums
<1>3. SumFunctionOnSet(Taken(i), Standing) \in Nat /\ SumFunctionOnSet(Taken(i), Acknowledged) \in Nat
  BY <1>0, <1>1, TakenSums
<1>4. PICK f : f = Taken(i)
  OBVIOUS
<1>5. SumFunctionOnSet(f, Acknowledged) <= SumFunctionOnSet(f, Standing)
  BY <1>1, <1>2, <1>4, SumSubset
<1>6. SumFunctionOnSet(f, Standing) <= put[i] /\ put[i] \in Nat
  BY <1>0, <1>4 DEF BasketInv, AllPutOnce, Quantities
<1>7. SumFunctionOnSet(f, Acknowledged) <= put[i]
  BY <1>3, <1>4, <1>5, <1>6
<1>. QED BY <1>4, <1>7 DEF Taken

(* No unit put in the cart is ordered twice, for any number of items, clicks,*)
(* checkouts and visits.                                                    *)
THEOREM NothingOrderedTwice == CartSpec => []OrderedOnce
  BY BasketAlways, BasketImpliesOnce, PTL

(* An order is heard by HearOrderPlaced alone.                              *)
LEMMA OnlyHearOrderPlaced ==
  ASSUME BasketInv, [CartNext]_cartVars, NEW k \in Checkouts,
         order[k].step = "placed", order'[k].step = "heard"
  PROVE  HearOrderPlaced(k)
<1>0. order \in [Checkouts -> OrderType]
  BY BasketTypes DEF BasketInv
<1>1. ASSUME NEW n \in Checkouts, Checkout(n) \/ TakeOrder(n) \/ HearRefused(n) \/ LoseOrder(n)
      PROVE  order'[k].step # "heard"
  BY <1>0, <1>1 DEF Checkout, TakeOrder, HearRefused, LoseOrder, OrderType
<1>2. ASSUME NEW n \in Checkouts, HearOrderPlaced(n), n # k PROVE order'[k].step # "heard"
  BY <1>0, <1>2 DEF HearOrderPlaced, OrderType
<1>3. ASSUME NEW i \in Items,
             Shop(i) \/ Manage(i) \/ Save(i) \/ HearSellout(i) \/ LoseSellout(i) \/ LoseSave(i)
      PROVE  order' = order
  BY <1>3 DEF Shop, PutOne, TakeOut, Manage, OthersBuy, ClickSave, Save, SetLevel, HearSaved,
              HearSellout, LoseSellout, LoseSave, calls
<1>4. ASSUME ReadMenu \/ LoseMenu \/ Return PROVE order' = order
  BY <1>4 DEF ReadMenu, GetMenu, ShowMenu, LoseMenu, Return, calls
<1>5. ASSUME GoToAdmin PROVE order'[k].step = "placed"
  BY <1>0, <1>5 DEF GoToAdmin, OrderType
<1>6. ASSUME UNCHANGED cartVars PROVE order' = order
  BY <1>6 DEF cartVars
<1>. QED BY <1>1, <1>2, <1>3, <1>4, <1>5, <1>6 DEF CartNext, SettleOrder

(* What an answer empties is what was ordered, unless the patron changed the *)
(* cart meanwhile.                                                          *)
THEOREM AnswersClearTheirOrder == CartSpec => ClearsItsOrder
<1>1. BasketInv /\ [CartNext]_cartVars =>
        [\A k \in Checkouts :
           order[k].step = "placed" /\ order'[k].step = "heard" /\ cart' # cart
             => touched \/ cart = order[k].lines]_cartVars
  <2> SUFFICES ASSUME BasketInv, [CartNext]_cartVars, NEW k \in Checkouts,
                      order[k].step = "placed", order'[k].step = "heard", cart' # cart, ~touched
               PROVE  cart = order[k].lines
    OBVIOUS
  <2>1. HearOrderPlaced(k)
    BY OnlyHearOrderPlaced
  <2>2. order[k].here /\ UnderWay(k)
    BY <2>1 DEF HearOrderPlaced, UnderWay
  <2>. QED BY <2>2 DEF BasketInv, CartAsOrdered
<1>. QED BY <1>1, BasketAlways, PTL DEF CartSpec, ClearsItsOrder

=============================================================================
