---------------------------- MODULE SimulationRuns ----------------------------
(* What the digital twin's runner promises of its runs, and what its HTTP   *)
(* controller reports of them: a run is started once, is cancelled only by  *)
(* an abort it notices itself, and ends once, with its report if it did not *)
(* fail.  TwinRun implements it; SimulationPanel is its client.             *)
CONSTANT Runs

VARIABLE sim   \* each run's status, whether it was aborted, whether it has a report

RunStatus == {"absent", "pending", "running", "completed", "cancelled", "failed"}
Absent == [status |-> "absent", aborted |-> FALSE, report |-> FALSE]

RunsInit == sim = [r \in Runs |-> Absent]

(* startRun returns when executeRun is at its first await: the run is       *)
(* running, or pending for ever when its scenario has no audience.          *)
StartOne(r, status) ==
  /\ sim[r].status = "absent"
  /\ sim' = [sim EXCEPT ![r].status = status]

(* cancelRun only signals.                                                  *)
Abort(r) ==
  /\ sim[r].status = "running"
  /\ sim' = [sim EXCEPT ![r].aborted = TRUE]

(* The report is built in the step that ends the run.                       *)
End(r) ==
  /\ sim[r].status = "running"
  /\ sim' = [sim EXCEPT ![r].status = IF sim[r].aborted THEN "cancelled" ELSE "completed",
                        ![r].report = TRUE]

Fail(r) ==
  /\ sim[r].status = "running"
  /\ sim' = [sim EXCEPT ![r].status = "failed"]

RunsNext ==
  \E r \in Runs : \/ \E status \in {"pending", "running"} : StartOne(r, status)
                  \/ Abort(r) \/ End(r) \/ Fail(r)

RunsSpec == RunsInit /\ [][RunsNext]_sim
=============================================================================
