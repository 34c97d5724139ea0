----------------------------- MODULE MCBackOffice -----------------------------
(* What becomes of an order that was placed: its event is ingested for the  *)
(* analytics, the dashboard adds it up, and the cart service clears the     *)
(* patron's cart; and the admin page's simulation panel.  They share no     *)
(* variable, so a behaviour plays one of the four.                          *)
EXTENDS Analytics, Dashboard, CartService, SimulationPanel, TLC

CONSTANTS e1, e2, e3, f1, f2, none

VARIABLE part

Row(b, s, age, lines) ==
  [batch |-> b, screen |-> s, showtime |-> "20:15", ageGroup |-> age, lines |-> lines]
Of(i, q, p) == [item |-> i, quantity |-> q, price |-> p]

(* A batch of one row and a batch of two; a patron without an age group;    *)
(* revenue that grows past what the small integer holds.                    *)
TheLog ==
  << Row(1, "s1", "adult", <<Of("cola", 2, 5), Of("nachos", 1, 7)>>),
     Row(2, "s2", "none", <<Of("cola", 1, 5)>>),
     Row(2, "s1", "adult", <<Of("tea", 1, 4)>>) >>

PartInit ==
  /\ part \in {"analytics", "dashboard", "carts", "panel"}
  /\ Init /\ DashboardInit /\ CartServiceInit /\ PanelInit

PartNext ==
  \/ Next /\ part = "analytics" /\ UNCHANGED <<part, dashboardVars, cartServiceVars, panelVars>>
  \/ DashboardNext /\ part = "dashboard" /\ UNCHANGED <<part, vars, cartServiceVars, panelVars>>
  \/ CartServiceNext /\ part = "carts" /\ UNCHANGED <<part, vars, dashboardVars, panelVars>>
  \/ PanelNext /\ part = "panel" /\ UNCHANGED <<part, vars, dashboardVars, cartServiceVars>>

(* The fairness of each part, where it is played.                           *)
PartSpec ==
  /\ PartInit /\ [][PartNext]_<<part, vars, dashboardVars, cartServiceVars, panelVars>>
  /\ WF_vars(part = "analytics" /\ Take) /\ WF_vars(part = "analytics" /\ Enqueue)
  /\ WF_vars(part = "analytics" /\ Complete) /\ WF_vars(part = "analytics" /\ Tick)
  /\ \A f \in Flushes : WF_vars(part = "analytics" /\ (Insert(f) \/ InsertFails(f)))
  /\ \A q \in Requests : WF_cartServiceVars(part = "carts" /\ HandleCart(q))
  /\ \A o \in CleanUps : WF_cartServiceVars(part = "carts" /\ CleanUp(o))
  /\ \A n \in Jobs : WF_panelVars(part = "panel" /\ (ServeJob(n) \/ HearJob(n)))
  /\ \A r \in Runs : WF_panelVars(part = "panel" /\ Finish(r))
  /\ WF_panelVars(part = "panel" /\ TimerFires)

=============================================================================
