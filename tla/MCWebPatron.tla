----------------------------- MODULE MCWebPatron -----------------------------
(* The patron's side of the web: the session, the list of orders, the cart, *)
(* and the live feed through the gateway's tunnel.                          *)
(* They share no variable, so a behaviour plays one part and leaves the     *)
(* others at their start.                                                   *)
EXTENDS PatronSession, OrderTracking, PatronCart, Tunnel, TLC

CONSTANTS o1, i1

VARIABLE part

PartInit ==
  /\ part \in {"session", "orders", "cart", "feed"}
  /\ SessionInit /\ TrackingInit /\ CartInit /\ Init
  /\ part # "orders" => row = [o \in Orders |-> "none"]
  /\ part # "cart" => level = [i \in Items |-> MaxLevel]
  /\ hook = IF part = "feed" THEN "connecting" ELSE "unmounted"

PartNext ==
  \/ SessionNext /\ part = "session" /\ UNCHANGED <<part, trackingVars, cartVars, vars>>
  \/ TrackingNext /\ part = "orders" /\ UNCHANGED <<part, sessionVars, cartVars, vars>>
  \/ CartNext /\ part = "cart" /\ UNCHANGED <<part, sessionVars, trackingVars, vars>>
  \/ Next /\ part = "feed" /\ UNCHANGED <<part, sessionVars, trackingVars, cartVars>>

(* The fairness of each part, where it is played.                           *)
PartSpec ==
  /\ PartInit /\ [][PartNext]_<<part, sessionVars, trackingVars, cartVars, vars>>
  /\ \A c \in Calls : WF_sessionVars(part = "session" /\ (Handle(c) \/ Resume(c)))
  /\ \A n \in 1..MaxLoads : WF_trackingVars(part = "orders" /\ LoadStep(n))
  /\ \A o \in Orders : /\ WF_trackingVars(part = "orders" /\ CallStep(o))
                       /\ WF_trackingVars(part = "orders" /\ Announce(o))
  /\ WF_trackingVars(part = "orders" /\ HearStatus)
  /\ WF_cartVars(part = "cart" /\ ReadMenu)
  /\ \A k \in Checkouts : WF_cartVars(part = "cart" /\ SettleOrder(k))
  /\ \A i \in Items : /\ WF_cartVars(part = "cart" /\ HearSellout(i))
                      /\ WF_cartVars(part = "cart" /\ Save(i))
  /\ \A s \in Sessions : WF_vars(part = "feed" /\ TunnelStep(s))
  /\ \A s \in Sessions, k \in Attempts :
       /\ WF_vars(part = "feed" /\ UpstreamStep(s, k))
       /\ WF_vars(part = "feed" /\ UpstreamCloses(s, k) /\ UNCHANGED failures)
  /\ WF_vars(part = "feed" /\ BrowserStep)
  /\ WF_vars(part = "feed" /\ BrowserCloses /\ UNCHANGED failures)

=============================================================================
