---------------------------- MODULE SimulationPanel ----------------------------
(* The admin page's simulation panel over the twin's runs: it starts a run, *)
(* polls the run it shows while that is running, and may cancel it.  Its    *)
(* handlers go on with what they captured when their answers come; a timer  *)
(* polls again although the last poll has no answer yet.                    *)
EXTENDS Naturals, FiniteSets

CONSTANTS
  MaxRuns,    \* runs that may be started
  MaxJobs,    \* handlers under way at once
  MaxErrors   \* calls that fail, restarts of the twin

ASSUME PanelAssumption == MaxRuns \in Nat /\ MaxJobs \in Nat \ {0} /\ MaxErrors \in Nat

VARIABLES
  sim,      \* the twin's runs: see SimulationRuns
  run,      \* the run the panel shows, as the answer that came last described it
  running,  \* Run is disabled; Cancel is shown if a run is
  report,   \* the run whose report is shown
  job,      \* handlers under way
  latest,   \* the run this panel started last
  overlapped,  \* Run was clicked while an older handler was under way
  errors

panelVars == <<sim, run, running, report, job, latest, overlapped, errors>>
view == <<run, running, report>>
marks == <<latest, overlapped, errors>>

Runs == 1..MaxRuns
Twin == INSTANCE SimulationRuns

Nothing == [id |-> 0, status |-> "absent", report |-> FALSE]
Free == [kind |-> "free", id |-> 0, awaits |-> "none", answer |-> "none", run |-> Nothing]
Jobs == 1..MaxJobs
OverStatuses == {"completed", "cancelled", "failed"}

PanelInit ==
  /\ Twin!RunsInit
  /\ run = Nothing /\ running = FALSE /\ report = 0
  /\ job = [n \in Jobs |-> Free]
  /\ latest = 0 /\ overlapped = FALSE /\ errors = 0

-----------------------------------------------------------------------------
(* The twin's controller.                                                   *)

Asked(n, request) == job[n].awaits = request /\ job[n].answer = "none"
Describe(r) == [id |-> r, status |-> sim[r].status, report |-> sim[r].report]
Tell(n, r) == job' = [job EXCEPT ![n].answer = "ok", ![n].id = r, ![n].run = Describe(r)]

(* startRun answers with the id of a new run.                               *)
PostRun(n) ==
  /\ Asked(n, "post")
  /\ \E r \in Runs :
       /\ \A k \in 1..(r - 1) : sim[k].status # "absent"
       /\ \E status \in {"pending", "running"} : Twin!StartOne(r, status)
       /\ job' = [job EXCEPT ![n].answer = "ok", ![n].id = r]
  /\ UNCHANGED <<view, marks>>

(* getRun: 404 for a run that a restarted twin no longer knows.             *)
GetRun(n) ==
  /\ \E request \in {"first", "poll", "latest"} : Asked(n, request)
  /\ IF sim[job[n].id].status = "gone" THEN job' = [job EXCEPT ![n].answer = "failed"]
     ELSE Tell(n, job[n].id)
  /\ UNCHANGED <<sim, view, marks>>

(* cancelRun leaves a run that is not running as it is.                     *)
DeleteRun(n) ==
  /\ Asked(n, "delete")
  /\ job' = [job EXCEPT ![n].answer = IF sim[job[n].id].status = "gone" THEN "failed" ELSE "ok"]
  /\ IF sim[job[n].id].status = "running" THEN Twin!Abort(job[n].id) ELSE UNCHANGED sim
  /\ UNCHANGED <<view, marks>>

Finish(r) == (Twin!End(r) \/ Twin!Fail(r)) /\ UNCHANGED <<view, job, marks>>

-----------------------------------------------------------------------------
(* The panel.                                                               *)

Launch(kind, id, request) ==
  \E n \in Jobs :
    /\ job[n] = Free /\ \A k \in 1..(n - 1) : job[k] # Free
    /\ job' = [job EXCEPT ![n] = [Free EXCEPT !.kind = kind, !.id = id, !.awaits = request]]

Over(n) == job' = [job EXCEPT ![n] = Free]
Then(n, request) == job' = [job EXCEPT ![n].awaits = request, ![n].answer = "none"]
Got(n, request) == job[n].awaits = request /\ job[n].answer = "ok"

(* The panel not cleared.                                                   *)
RunOverOld ==
  /\ ~running
  /\ \E r \in Runs : sim[r].status = "absent"
  /\ Launch("start", 0, "post")
  /\ running' = TRUE
  /\ overlapped' = (overlapped \/ \E n \in Jobs : job[n] # Free)
  /\ UNCHANGED <<sim, run, report, latest, errors>>

(* handleRun clears the panel first.                                        *)
ClickRun ==
  /\ ~running
  /\ \E r \in Runs : sim[r].status = "absent"
  /\ Launch("start", 0, "post")
  /\ run' = Nothing /\ report' = 0 /\ running' = TRUE
  /\ overlapped' = (overlapped \/ \E n \in Jobs : job[n] # Free)
  /\ UNCHANGED <<sim, latest, errors>>

HearStarted(n) ==
  /\ Got(n, "post")
  /\ Then(n, "first")
  /\ latest' = job[n].id
  /\ UNCHANGED <<sim, view, overlapped, errors>>

(* Whatever the first answer says, running stays.                           *)
HearFirst(n) ==
  /\ Got(n, "first")
  /\ run' = job[n].run
  /\ Over(n)
  /\ UNCHANGED <<sim, running, report, marks>>

(* The interval, which each answer replaces, runs while the run shown is    *)
(* running.                                                                 *)
TimerFires ==
  /\ run.status = "running"
  /\ Launch("poll", run.id, "poll")
  /\ UNCHANGED <<sim, view, marks>>

(* The poll that finds the run over leaves its report out.                  *)
PollStatusOnly(n) ==
  /\ Got(n, "poll")
  /\ run' = job[n].run
  /\ running' = IF job[n].run.status \in OverStatuses THEN FALSE ELSE running
  /\ Over(n)
  /\ UNCHANGED <<sim, report, marks>>

(* A run that has ended without failing has its report with it.             *)
HearPoll(n) ==
  /\ Got(n, "poll")
  /\ LET latestRun == job[n].run IN
     /\ run' = latestRun
     /\ running' = IF latestRun.status \in OverStatuses THEN FALSE ELSE running
     /\ report' = IF latestRun.status \in OverStatuses /\ latestRun.report THEN latestRun.id ELSE report
  /\ Over(n)
  /\ UNCHANGED <<sim, marks>>

ClickCancel ==
  /\ running /\ run.id # 0
  /\ Launch("cancel", run.id, "delete")
  /\ UNCHANGED <<sim, view, marks>>

HearCancelled(n) ==
  /\ Got(n, "delete")
  /\ Then(n, "latest")
  /\ UNCHANGED <<sim, view, marks>>

(* Cancelling is over, whatever the run is doing.                           *)
HearLatest(n) ==
  /\ Got(n, "latest")
  /\ run' = job[n].run /\ running' = FALSE
  /\ Over(n)
  /\ UNCHANGED <<sim, report, marks>>

(* Any failure ends the handler; Cancel's leaves Run disabled.              *)
HearFailure(n) ==
  /\ job[n].answer = "failed"
  /\ running' = IF job[n].kind = "cancel" THEN running ELSE FALSE
  /\ Over(n)
  /\ UNCHANGED <<sim, run, report, marks>>

-----------------------------------------------------------------------------

Error == errors < MaxErrors /\ errors' = errors + 1

JobFails(n) ==
  /\ job[n].awaits # "none" /\ job[n].answer # "failed" /\ Error
  /\ job' = [job EXCEPT ![n].answer = "failed"]
  /\ UNCHANGED <<sim, view, latest, overlapped>>

(* Runs are kept in the process.                                            *)
TwinRestarts ==
  /\ Error
  /\ sim' = [r \in Runs |-> IF sim[r].status = "absent" THEN sim[r]
                            ELSE [Twin!Absent EXCEPT !.status = "gone"]]
  /\ UNCHANGED <<view, job, latest, overlapped>>

ServeJob(n) == PostRun(n) \/ GetRun(n) \/ DeleteRun(n)
HearJob(n) == HearStarted(n) \/ HearFirst(n) \/ HearPoll(n) \/ HearCancelled(n) \/ HearLatest(n)
           \/ HearFailure(n)

PanelNext ==
  \/ \E n \in Jobs : ServeJob(n) \/ HearJob(n) \/ JobFails(n)
  \/ \E r \in Runs : Finish(r)
  \/ ClickRun \/ ClickCancel \/ TimerFires \/ TwinRestarts

(* Answers come, the timer fires when it may, and a run ends: its schedule  *)
(* is finite.  Nobody clicks.                                               *)
PanelSpec == PanelInit /\ [][PanelNext]_panelVars
FairPanelSpec ==
  /\ PanelSpec
  /\ \A n \in Jobs : WF_panelVars(ServeJob(n) \/ HearJob(n))
  /\ \A r \in Runs : WF_panelVars(Finish(r))
  /\ WF_panelVars(TimerFires)

-----------------------------------------------------------------------------

(* Every variable keeps its type.                                           *)
PanelTypeOK ==
  /\ \A r \in Runs : sim[r].status \in Twin!RunStatus \cup {"gone"}
  /\ run.id \in 0..MaxRuns /\ run.status \in Twin!RunStatus
  /\ running \in BOOLEAN /\ report \in 0..MaxRuns
  /\ \A n \in Jobs : /\ job[n].kind \in {"free", "start", "poll", "cancel"}
                     /\ job[n].answer \in {"none", "ok", "failed"}
  /\ latest \in 0..MaxRuns /\ overlapped \in BOOLEAN /\ errors \in 0..MaxErrors

(* The panel shows the run it started last, however slow its polls, its     *)
(* cancellation and its start are, unless Run was clicked while a handler   *)
(* of an earlier run was still under way: that one's answer shows the       *)
(* earlier run again, and the new one may never be seen.                    *)
FollowsItsRun == ~overlapped => run.id \in {0, latest} /\ report \in {0, latest}

(* A run the panel polls ends on the panel, with its report if it did not   *)
(* fail, unless a call failed, the run was cancelled or another was started.*)
Undisturbed(r) == run.id = r /\ latest = r /\ ~sim[r].aborted /\ ~overlapped
ShownToTheEnd ==
  \A r \in Runs :
    (run.status = "running" /\ Undisturbed(r))
      ~> (report = r \/ run.status = "failed" \/ errors > 0 \/ ~Undisturbed(r)
            \/ \E n \in Jobs : job[n].kind = "cancel")

=============================================================================
