--------------------------- MODULE AppointmentsMC ---------------------------
(* Small instances of the appointment book for TLC. *)
EXTENDS AppointmentsRefinement, TLC

CONSTANTS c1, c2, d1, w1, w2, p1, p2, s1, s2, s3

\* Two calls of two callers, each in its own process.
TwoCallers == (c1 :> p1 @@ c2 :> p2)
OwnWorkers == (c1 :> w1 @@ c2 :> w2)
\* Two parallel tool invocations of one call: one process, one number.
OneCaller == (c1 :> p1 @@ c2 :> p1)
OneWorker == (c1 :> w1 @@ c2 :> w1)
\* A caller with a number and a web caller without one.
WebCaller == (c1 :> p1 @@ c2 :> NoPhone)
\* A single call.
OneCall == (c1 :> p1)
OneCallWorker == (c1 :> w1)

\* All slots of the run on one date, or each on a date of its own.
OneDay == [s \in Slots |-> "monday"]
EachDay == [s \in Slots |-> s]
=============================================================================
