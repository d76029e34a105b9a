---------------------------- MODULE BookingLedger ----------------------------
(***************************************************************************)
(* What the appointment book promises, without rows, keys, caches, checks  *)
(* or retries: every slot has at most one holder, a request takes effect   *)
(* in one indivisible step, and what it reports back is what it did.       *)
(***************************************************************************)
CONSTANTS Clients, Slots, Owners, Free

VARIABLES
  holder,  \* who holds each slot
  done,    \* the client's request has taken effect
  answer   \* what its last request reported

ledger == <<holder, done, answer>>

Init ==
  /\ holder = [s \in Slots |-> Free]
  /\ done = [c \in Clients |-> FALSE]
  /\ answer = [c \in Clients |-> "none"]

Request(c) ==
  /\ done' = [done EXCEPT ![c] = FALSE]
  /\ answer' = [answer EXCEPT ![c] = "none"]
  /\ UNCHANGED holder

\* The effect of c's request; it may be reported in the same step.
Effect(c) ==
  /\ done' = [done EXCEPT ![c] = TRUE]
  /\ answer' \in {answer, [answer EXCEPT ![c] = "yes"]}

\* A free slot is given away, once per request.
Grant(c, s, p) ==
  /\ ~done[c]
  /\ holder[s] = Free
  /\ holder' = [holder EXCEPT ![s] = p]
  /\ Effect(c)

\* A held slot is exchanged for a free one, once per request.
Exchange(c, s, t) ==
  /\ ~done[c]
  /\ holder[s] # Free
  /\ t = s \/ holder[t] = Free
  /\ holder' = [holder EXCEPT ![s] = Free, ![t] = holder[s]]
  /\ Effect(c)

\* Slots are given up; cancelling what is already cancelled gives up none.
Release(c, S) ==
  /\ holder' = [s \in Slots |-> IF s \in S THEN Free ELSE holder[s]]
  /\ Effect(c)

\* "yes" only after the effect, "no" and "nothing" only without one.
Report(c, a) ==
  /\ a \in {"yes", "partial"} <=> done[c]
  /\ answer' = [answer EXCEPT ![c] = a]
  /\ UNCHANGED <<holder, done>>

Next ==
  \E c \in Clients :
    \/ Request(c)
    \/ \E s \in Slots, p \in Owners : Grant(c, s, p)
    \/ \E s, t \in Slots : Exchange(c, s, t)
    \/ \E S \in SUBSET Slots : Release(c, S)
    \/ \E a \in {"yes", "no", "partial", "nothing"} : Report(c, a)

Spec == Init /\ [][Next]_ledger
=============================================================================
