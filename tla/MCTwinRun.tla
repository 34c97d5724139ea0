------------------------------ MODULE MCTwinRun ------------------------------
(* Small experiments of the digital twin.                                  *)
EXTENDS TwinRun

CONSTANTS r1, r2, cola, nachos

Of(i, q) == [item |-> i, quantity |-> q]
Depths(a, c, z) == [analytics |-> a, cartCleanup |-> c, itemZeroStock |-> z]
Saw(a, c, z, delta) == [database |-> TRUE, depths |-> Depths(a, c, z), delta |-> delta]
Missed == [database |-> FALSE, depths |-> Depths(0, 0, 0), delta |-> 0]

NotStarted ==
  [mode |-> "none", audience |-> FALSE, baskets |-> <<>>, latency |-> <<>>, overrides |-> <<>>,
   workerConcurrency |-> 0, readings |-> <<>>]

NoAudience == [NotStarted EXCEPT !.mode = "stub"]

(* Three patrons who want more than three colas and one nachos.            *)
Stub ==
  [mode |-> "stub", audience |-> TRUE,
   baskets |-> <<<<Of(nachos, 1), Of(cola, 1), Of(cola, 2)>>, <<Of(nachos, 1)>>, <<Of(cola, 1)>>>>,
   latency |-> <<3, 1, 2>>, overrides |-> <<>>, workerConcurrency |-> 2,
   readings |-> <<Missed, Missed>>]

StubSmall == [Stub EXCEPT !.baskets = <<<<Of(nachos, 1), Of(cola, 1)>>>>, !.latency = <<1>>,
                          !.workerConcurrency = 500, !.readings = <<>>]
Unmanned == [StubSmall EXCEPT !.workerConcurrency = 0]

Live ==
  [mode |-> "live", audience |-> TRUE,
   baskets |-> <<<<Of(cola, 1)>>, <<Of(cola, 1), Of(nachos, 1)>>>>,
   latency |-> <<2, 1>>, overrides |-> cola :> 1, workerConcurrency |-> 2,
   readings |-> <<Saw(0, 2, 1, 1)>>]

Drifting ==
  [Live EXCEPT !.baskets = <<<<Of(nachos, 1)>>>>, !.latency = <<3>>,
               !.readings = <<Saw(0, 0, 0, 1), Saw(0, 0, 0, 0), Saw(0, 0, 0, 2), Missed,
                              Saw(0, 0, 0, 2)>>]

(* The stores differ at every poll, by more each time.                     *)
Widening ==
  [Drifting EXCEPT !.readings = <<Saw(0, 0, 0, 1), Saw(0, 0, 0, 2), Saw(0, 0, 0, 3)>>]

Pair(a, b) == (r1 :> a) @@ (r2 :> b)
AllExperiments ==
  {Pair(Stub, NotStarted), Pair(StubSmall, StubSmall), Pair(Live, NotStarted),
   Pair(Drifting, NotStarted), Pair(Widening, NotStarted), Pair(Unmanned, NoAudience)}

LiveExperiments == {Pair(Widening, NotStarted)}

SeedLevels == (cola :> 3) @@ (nachos :> 1)
Drained == (cola :> NoKey) @@ (nachos :> 0)

=============================================================================
