---------------------------- MODULE PatronSession ----------------------------
(* How a browser becomes a patron: the web's AuthProvider, whose tabs share *)
(* localStorage, and the user service behind signup, login and me.  A user  *)
(* is named by its session id, which is unique; a token is its place among  *)
(* those issued; 0 stands for none.                                         *)
EXTENDS Integers, Sequences, FiniteSets

CONSTANTS
  Tabs,         \* tabs of one browser
  Mounts,       \* bootstraps a mount starts: 2 in development, see StrictMode
  MaxTabLoads,     \* how often the tabs may be loaded altogether
  MaxExpiries,  \* tokens that may expire
  MaxLost       \* requests or answers that may be lost

ASSUME SessionAssumption ==
  /\ Mounts \in Nat \ {0}
  /\ {MaxTabLoads, MaxExpiries, MaxLost} \subseteq Nat

VARIABLES
  users,    \* session ids with a row in the users table; nothing deletes rows
  issued,   \* the user of each token the service has signed
  expired,  \* tokens past their time
  storage,  \* the browser's localStorage: its token and its session id
  minted,   \* session ids drawn so far
  tab,      \* each tab's React state
  call,     \* each bootstrap: the request it awaits and the answer to it
  loads, lost

sessionVars == <<users, issued, expired, storage, minted, tab, call, loads, lost>>
server == <<users, issued, expired>>
client == <<storage, minted, tab>>
bounds == <<loads, lost>>

Calls == Tabs \X (1..Mounts)
Quiet == [step |-> "none", asked |-> 0, answer |-> "none", token |-> 0]
Request(step, asked) == [Quiet EXCEPT !.step = step, !.asked = asked]
Awaiting(c, step) == call[c].step = step /\ call[c].answer = "none"
Answered(c) == call[c].step # "none" /\ call[c].answer # "none"

SessionInit ==
  /\ users = {} /\ issued = <<>> /\ expired = {}
  /\ storage = [token |-> 0, session |-> 0]
  /\ minted = 0
  /\ tab = [t \in Tabs |-> [token |-> 0, ready |-> FALSE]]
  /\ call = [c \in Calls |-> Quiet]
  /\ loads = 0 /\ lost = 0

-----------------------------------------------------------------------------
(* The user service.                                                        *)

Reply(c, answer, token) ==
  call' = [call EXCEPT ![c].answer = answer, ![c].token = token]

SignToken(c) ==
  /\ issued' = Append(issued, call[c].asked)
  /\ Reply(c, "200", Len(issued'))

(* authenticate refuses a token that is past its time.                      *)
Verifies(token) == token \notin expired

Me(c) ==
  /\ Awaiting(c, "me")
  /\ Reply(c, IF ~Verifies(call[c].asked) THEN "401"
              ELSE IF issued[call[c].asked] \in users THEN "200" ELSE "404", call[c].asked)
  /\ UNCHANGED <<server, client, bounds>>

(* One INSERT under the unique constraint decides.                          *)
CreatePatron(c) ==
  IF call[c].asked \in users
  THEN Reply(c, "409", 0) /\ UNCHANGED <<users, issued>>
  ELSE users' = users \cup {call[c].asked} /\ SignToken(c)

Signup(c) ==
  /\ Awaiting(c, "signup")
  /\ CreatePatron(c)
  /\ UNCHANGED <<expired, client, bounds>>

(* Session ids are UUIDs, which login's trim leaves as they are.            *)
Login(c) ==
  /\ Awaiting(c, "login")
  /\ IF call[c].asked \in users THEN SignToken(c) ELSE Reply(c, "404", 0) /\ UNCHANGED issued
  /\ UNCHANGED <<users, expired, client, bounds>>

-----------------------------------------------------------------------------
(* The web.                                                                 *)

(* A session id drawn anew at every use.                                    *)
NewSessionId == minted + 1

(* getOrCreateSessionId: drawn once, then always found in localStorage.     *)
SessionId == IF storage.session # 0 THEN storage.session ELSE minted + 1

KeepSession(token) ==
  /\ storage' = [token |-> token, session |-> SessionId]
  /\ minted' = IF storage.session = 0 THEN SessionId ELSE minted

(* What bootstrapPatron does up to its first await: check the stored token, *)
(* or sign up as the browser's session.                                     *)
FirstRequest ==
  IF storage.token # 0 THEN Request("me", storage.token) ELSE Request("signup", SessionId)

(* A tab is loaded, or loaded again: its bootstraps start in one tick.      *)
LoadTab(t) ==
  /\ loads < MaxTabLoads
  /\ loads' = loads + 1
  /\ tab' = [tab EXCEPT ![t] = [token |-> storage.token, ready |-> FALSE]]
  /\ call' = [c \in Calls |-> IF c[1] = t THEN FirstRequest ELSE call[c]]
  /\ IF storage.token = 0 THEN KeepSession(0) ELSE UNCHANGED <<storage, minted>>
  /\ UNCHANGED <<server, lost>>

(* apiRequest returns what came with a 2xx and throws the status otherwise. *)
Ok(c) == call[c].answer = "200"

(* The bootstrap has a token: it is kept, and the page is ready.            *)
Admit(c) ==
  /\ Answered(c) /\ Ok(c)
  /\ tab' = [tab EXCEPT ![c[1]] = [token |-> call[c].token, ready |-> TRUE]]
  /\ storage' = IF call[c].step = "me" THEN storage
                ELSE [storage EXCEPT !.token = call[c].token]
  /\ call' = [call EXCEPT ![c] = Quiet]
  /\ UNCHANGED <<server, minted, bounds>>

(* The token is refused: what is stored by now is removed, and the          *)
(* bootstrap goes on to sign up.                                            *)
DropToken(c) ==
  /\ Answered(c) /\ call[c].step = "me" /\ call[c].answer = "401"
  /\ KeepSession(0)
  /\ tab' = [tab EXCEPT ![c[1]].token = 0]
  /\ call' = [call EXCEPT ![c] = Request("signup", SessionId)]
  /\ UNCHANGED <<server, bounds>>

(* The 409 shown to the patron like any other error.                        *)
NeverKnown(c) == FALSE

(* signupOrLogin: the session has signed up before.                         *)
Known(c) == call[c].step = "signup" /\ call[c].answer = "409"

LogIn(c) ==
  /\ Answered(c) /\ Known(c)
  /\ call' = [call EXCEPT ![c] = Request("login", call[c].asked)]
  /\ UNCHANGED <<server, client, bounds>>

(* Any other error ends the bootstrap with a message.                       *)
GiveUp(c) ==
  /\ Answered(c) /\ ~Ok(c) /\ ~Known(c)
  /\ ~(call[c].step = "me" /\ call[c].answer = "401")
  /\ tab' = [tab EXCEPT ![c[1]].ready = FALSE]
  /\ call' = [call EXCEPT ![c] = Quiet]
  /\ UNCHANGED <<server, storage, minted, bounds>>

-----------------------------------------------------------------------------
(* The environment: the gateway cannot reach the service, or the connection *)
(* breaks before or after the service has acted; a token expires.           *)

LoseCall(c) ==
  /\ call[c].step # "none" /\ call[c].answer # "lost" /\ lost < MaxLost
  /\ lost' = lost + 1
  /\ Reply(c, "lost", 0)
  /\ UNCHANGED <<server, client, loads>>

Expire(token) ==
  /\ Cardinality(expired) < MaxExpiries
  /\ expired' = expired \cup {token}
  /\ UNCHANGED <<users, issued, client, call, bounds>>

Handle(c) == Me(c) \/ Signup(c) \/ Login(c)
Resume(c) == Admit(c) \/ DropToken(c) \/ LogIn(c) \/ GiveUp(c)

SessionNext ==
  \/ \E t \in Tabs : LoadTab(t)
  \/ \E c \in Calls : Handle(c) \/ Resume(c) \/ LoseCall(c)
  \/ \E token \in DOMAIN issued : Expire(token)

(* Requests are answered and answers handled; nobody loads a page.          *)
SessionSpec == SessionInit /\ [][SessionNext]_sessionVars
FairSessionSpec ==
  SessionSpec /\ \A c \in Calls : WF_sessionVars(Handle(c) \/ Resume(c))

-----------------------------------------------------------------------------

(* Every variable keeps its type.                                           *)
SessionTypeOK ==
  /\ users \subseteq Nat /\ issued \in Seq(Nat) /\ expired \subseteq Nat
  /\ storage \in [token : Nat, session : Nat] /\ minted \in Nat
  /\ tab \in [Tabs -> [token : Nat, ready : BOOLEAN]]
  /\ call \in [Calls -> [step : {"none", "me", "signup", "login"}, asked : Nat, token : Nat,
                         answer : {"none", "200", "401", "404", "409", "lost"}]]
  /\ loads \in 0..MaxTabLoads /\ lost \in 0..MaxLost

(* "Carts and orders are user-scoped": however tabs, expiries, lost answers *)
(* and losing signups interleave, whatever token a tab acts with or the     *)
(* browser keeps is one of the browser's one session, so that a patron is   *)
(* never somebody else after a reload or in a second tab.                   *)
OneIdentity ==
  /\ \A t \in Tabs : tab[t].token # 0 => issued[tab[t].token] = storage.session
  /\ storage.token # 0 => issued[storage.token] = storage.session

(* However a bootstrap was cut short before (a signup whose answer was lost,*)
(* a token that expired, a tab that signed up first), the next one that     *)
(* gets its answers ends with a patron: nobody is locked out.               *)
Hopeful(t) ==
  /\ lost = MaxLost
  /\ \E c \in Calls : c[1] = t /\ call[c].step # "none"
  /\ \A c \in Calls : c[1] = t => call[c].answer # "lost"
LetIn == \A t \in Tabs : Hopeful(t) ~> tab[t].ready

=============================================================================
