------------------------- MODULE ConversationProofs -------------------------
(* The barge-in theorem of a conversation, for every number of queries,    *)
(* tasks and turns, every semaphore and every kind of trouble.             *)
EXTENDS Conversation, FiniteSetTheorems, TLAPS

\* What the induction needs of the variables' types.
FloorTypes ==
  /\ user \in {"listening", "speaking"}
  /\ agent \in {"quiet", "speaking"}

\* The initial state has the agent silent.
LEMMA FloorInit == ASSUME Init PROVE FloorTypes /\ FloorInv
  BY DEF Init, FloorTypes, FloorInv

\* No event, task or handler step leaves the invariant.
LEMMA FloorStep ==
  ASSUME FloorTypes, FloorInv, [Next]_vars
  PROVE  FloorTypes' /\ FloorInv'
<1> USE DEF FloorTypes, FloorInv
<1>1. ASSUME NEW few \in BOOLEAN, UserStarts(few) PROVE FloorTypes' /\ FloorInv'
  BY <1>1 DEF UserStarts, MoveTo, OnUserStartedSpeaking, To, Allowed, State
<1>2. CASE UserStops
  BY <1>2 DEF UserStops, MoveTo, OnUserTurnCommitted, To, Allowed, State
<1>3. CASE AgentStarts
  BY <1>3 DEF AgentStarts, MoveTo, OnAgentStartedSpeaking, To, Allowed, State
<1>4. CASE AgentStops
  BY <1>4 DEF AgentStops, MoveTo, OnAgentStoppedSpeaking, To, Allowed, State
<1>5. CASE Disconnect
  BY <1>5 DEF Disconnect, MoveTo, OnCallEnded, To, Allowed, State
<1>6. CASE Reconnect
  BY <1>6 DEF Reconnect
<1>7. CASE RunInterrupt
  BY <1>7 DEF RunInterrupt, OnAgentStoppedSpeaking, To, Allowed, State
<1>8. ASSUME NEW q \in Queries, Interim(q) PROVE FloorTypes' /\ FloorInv'
  BY <1>8 DEF Interim, speech
<1>9. ASSUME NEW q \in Queries, TurnCompleted(q) PROVE FloorTypes' /\ FloorInv'
  BY <1>9 DEF TurnCompleted, speech
<1>10. ASSUME NEW t \in Tasks, TaskStep(t) PROVE FloorTypes' /\ FloorInv'
  BY <1>10 DEF TaskStep, Acquire, Resolve, LookupFails, speech
<1>11. CASE Waited
  BY <1>11 DEF Waited, speech
<1>12. CASE Routed
  BY <1>12 DEF Routed, speech
<1>13. CASE FillerPlays
  <2>1. CASE agent = "quiet"
    BY <1>13, <2>1 DEF FillerPlays, MoveTo, OnAgentStartedSpeaking, To, Allowed, State
  <2>2. CASE agent = "speaking"
    BY <1>13, <2>2 DEF FillerPlays
  <2> QED BY <2>1, <2>2
<1>14. CASE UNCHANGED vars
  BY <1>14 DEF vars, speech
<1> QED
  BY <1>1, <1>2, <1>3, <1>4, <1>5, <1>6, <1>7, <1>8, <1>9, <1>10, <1>11, <1>12,
     <1>13, <1>14 DEF Next

\* Where the FSM can be while the agent is heard, in every reachable state.
THEOREM FloorIsKept == Spec => [](FloorTypes /\ FloorInv)
<1>1. Init => FloorTypes /\ FloorInv
  BY FloorInit
<1>2. FloorTypes /\ FloorInv /\ [Next]_vars => (FloorTypes /\ FloorInv)'
  BY FloorStep
<1> QED
  BY <1>1, <1>2, PTL DEF Spec

\* The caller's step from silence to speech is UserStarts and nothing else.
LEMMA OnlyUserStarts ==
  ASSUME [Next]_vars, user = "listening", user' = "speaking"
  PROVE  \E few \in BOOLEAN : UserStarts(few)
<1> SUFFICES ASSUME ~\E few \in BOOLEAN : UserStarts(few) PROVE FALSE
  OBVIOUS
<1>1. CASE UserStops \/ AgentStarts \/ AgentStops \/ Disconnect \/ Reconnect
           \/ RunInterrupt
  BY <1>1 DEF UserStops, AgentStarts, AgentStops, Disconnect, Reconnect, RunInterrupt
<1>2. CASE \E q \in Queries : Interim(q) \/ TurnCompleted(q)
  BY <1>2 DEF Interim, TurnCompleted, speech
<1>3. CASE \E t \in Tasks : TaskStep(t)
  BY <1>3 DEF TaskStep, Acquire, Resolve, LookupFails, speech
<1>4. CASE Waited \/ Routed \/ FillerPlays
  BY <1>4 DEF Waited, Routed, FillerPlays, speech
<1>5. CASE UNCHANGED vars
  BY <1>5 DEF vars, speech
<1> QED
  BY <1>1, <1>2, <1>3, <1>4, <1>5 DEF Next

\* Speaking over the agent is always a barge-in: the FSM is INTERRUPTED and
\* the cancellation of the speculative work is scheduled (BargeInSeen).
THEOREM BargeInsAreSeen == Spec => BargeInSeen
<1>1. ASSUME FloorTypes, FloorInv, [Next]_vars
      PROVE  [ /\ user = "listening" /\ user' = "speaking"
               /\ agent = "speaking" /\ fsm # "CALL_END"
               => fsm' = "INTERRUPTED" /\ interrupting' ]_vars
  <2> SUFFICES ASSUME user = "listening", user' = "speaking",
                      agent = "speaking", fsm # "CALL_END"
               PROVE  fsm' = "INTERRUPTED" /\ interrupting'
    OBVIOUS
  <2>1. PICK few \in BOOLEAN : UserStarts(few)
    BY <1>1, OnlyUserStarts
  <2>2. fsm \in {"THINKING", "SPEAKING"}
    BY <1>1 DEF FloorInv
  <2>3. OnUserStartedSpeaking(fsm) = "INTERRUPTED" /\ fsm # "INTERRUPTED"
    BY <2>2 DEF OnUserStartedSpeaking, To, Allowed, State
  <2> QED
    BY <2>1, <2>3 DEF UserStarts, MoveTo
<1> QED
  BY <1>1, FloorIsKept, PTL DEF Spec, BargeInSeen

-----------------------------------------------------------------------------
(* The prefetch theorem: one permit makes the orphans of earlier turns     *)
(* harmless.                                                               *)

Statuses == {"new"} \cup Pending \cup Finished

\* What the induction needs of the task table's type.
TaskTypes == task \in [Tasks -> [status: Statuses, query: Queries \cup {None}]]

Good == TaskTypes /\ PrefetchInv

\* Before the first turn no task has run.
LEMMA GoodInit == ASSUME Init PROVE Good
<1>1. \A t \in Tasks : task[t] = [status |-> "new", query |-> None]
  BY DEF Init
<1>2. TaskTypes
  BY <1>1 DEF Init, TaskTypes, Statuses
<1>3. PrefetchInv
  BY <1>1 DEF Init, PrefetchInv
<1> QED
  BY <1>2, <1>3 DEF Good

\* With one permit, a task starts only when none is running.
LEMMA OnePermit ==
  ASSUME MaxInflight = 1, NEW t \in Tasks, Acquire(t)
  PROVE  \A u \in Tasks : task[u].status # "running"
<1> DEFINE R == {u \in Tasks : task[u].status = "running"}
<1>1. IsFiniteSet(Tasks)
  BY FS_Interval, BoundAssumption DEF Tasks
<1>2. IsFiniteSet(R)
  BY <1>1, FS_Subset
<1>3. Cardinality(R) \in Nat /\ Cardinality(R) < 1
  BY <1>2, FS_CardinalityType DEF Acquire
<1>4. Cardinality(R) = 0
  BY <1>3
<1>5. R = {}
  BY <1>2, <1>4, FS_EmptySet
<1> QED
  BY <1>5

\* Cancelling some tasks disturbs no order: it only finishes pending ones.
LEMMA CancelledKeeps ==
  ASSUME Good, NEW T \in SUBSET Tasks
  PROVE  /\ Cancelled(T) \in [Tasks -> [status: Statuses, query: Queries \cup {None}]]
         /\ \A t \in Tasks :
              /\ Cancelled(T)[t].query = task[t].query
              /\ \/ Cancelled(T)[t].status = task[t].status
                 \/ /\ task[t].status \in Pending
                    /\ Cancelled(T)[t].status = "cancelled"
<1> USE DEF Good, TaskTypes, Statuses, Pending, Finished
<1>1. ASSUME NEW t \in Tasks
      PROVE  /\ Cancelled(T)[t] \in [status: Statuses, query: Queries \cup {None}]
             /\ Cancelled(T)[t].query = task[t].query
             /\ \/ Cancelled(T)[t].status = task[t].status
                \/ /\ task[t].status \in Pending
                   /\ Cancelled(T)[t].status = "cancelled"
  BY DEF Cancelled
<1>2. Cancelled(T) = [t \in Tasks |-> Cancelled(T)[t]]
  BY DEF Cancelled
<1> QED
  BY <1>1, <1>2

\* Steps that leave the prefetch and the turn alone.
LEMMA GoodStays ==
  ASSUME Good, UNCHANGED <<task, predicted, current, result>>,
         turn' = "waiting" => turn = "waiting" /\ final' = final
  PROVE  Good'
  BY DEF Good, TaskTypes, PrefetchInv

\* A new interim spawns the next task of the table.
LEMMA GoodInterim ==
  ASSUME Good, NEW q \in Queries, Interim(q) PROVE Good'
<1> USE DEF Good, TaskTypes
<1>1. PICK t \in Tasks :
        /\ task[t].status = "new" /\ \A u \in 1..(t - 1) : task[u].status # "new"
        /\ task' = [task EXCEPT ![t] = [status |-> "queued", query |-> q]]
        /\ current' = t
  BY DEF Interim
<1>2. \A u \in Tasks : u # t => task'[u] = task[u]
  BY <1>1
<1>3. task'[t] = [status |-> "queued", query |-> q]
  BY <1>1
<1>4. TaskTypes'
  BY <1>1 DEF Statuses, Pending
<1>5. \A u \in Tasks : u < t => task[u].status # "new"
  BY <1>1 DEF Tasks
<1>6. \A u \in Tasks : u > t => task[u].status = "new"
  BY <1>1 DEF PrefetchInv
<1>7. turn' = turn /\ final' = final /\ predicted' = q /\ result' = result /\ current = None
  BY DEF Interim, handler
<1>8. \A u, v \in Tasks : u < v =>
        /\ task'[u].status = "new" => task'[v].status = "new"
        /\ task'[v].status \in {"running", "done", "failed"} =>
             task'[u].status \in Finished
  BY <1>2, <1>3, <1>5, <1>6 DEF PrefetchInv, Tasks
<1>9. turn # "waiting"
  BY <1>7 DEF PrefetchInv
<1> QED
  BY <1>1, <1>2, <1>3, <1>4, <1>6, <1>7, <1>8, <1>9 DEF PrefetchInv, Tasks

\* A status change of one task that is neither new nor finished.
LEMMA GoodChange ==
  ASSUME Good, NEW t \in Tasks, NEW s \in Statuses \ {"new"},
         task[t].status \in Pending,
         task' = [task EXCEPT ![t].status = s],
         s \in {"running", "done", "failed"} =>
           \A u \in Tasks : u < t => task[u].status \in Finished,
         UNCHANGED <<predicted, current, turn, final>>,
         current # None /\ task'[current].status = "done" =>
           result' \in {None, predicted}
  PROVE  Good'
<1> USE DEF Good, TaskTypes
<1>1. \A u \in Tasks : u # t => task'[u] = task[u]
  OBVIOUS
<1>2. task'[t].status = s /\ task'[t].query = task[t].query
  OBVIOUS
<1>3. TaskTypes'
  OBVIOUS
<1>4. \A u, v \in Tasks : u < v =>
        /\ task'[u].status = "new" => task'[v].status = "new"
        /\ task'[v].status \in {"running", "done", "failed"} =>
             task'[u].status \in Finished
  BY <1>1, <1>2 DEF PrefetchInv, Tasks, Pending, Finished, Statuses
<1>5. current # None => /\ task'[current].status # "new"
                        /\ task'[current].query = predicted
                        /\ \A v \in Tasks : v > current => task'[v].status = "new"
  BY <1>1, <1>2 DEF PrefetchInv, Tasks, Pending
<1> QED
  BY <1>3, <1>4, <1>5 DEF PrefetchInv

\* The steps of one task: acquiring the permit, resolving, failing.
LEMMA GoodTask ==
  ASSUME Good, MaxInflight = 1, NEW t \in Tasks, TaskStep(t) PROVE Good'
<1>1. CASE Acquire(t)
  <2>1. \A u \in Tasks : task[u].status # "running"
    BY <1>1, OnePermit
  <2>2. ASSUME NEW u \in Tasks, u < t PROVE task[u].status \in Finished
    <3>1. task[u].status # "queued"
      BY <1>1, <2>2 DEF Acquire, Tasks
    <3>2. task[u].status # "new"
      BY <1>1, <2>2 DEF Acquire, Good, PrefetchInv
    <3> QED
      BY <2>1, <3>1, <3>2 DEF Good, TaskTypes, Statuses, Pending, Finished
  <2>3. current # None /\ task'[current].status = "done" => task[current].status = "done"
    BY <1>1 DEF Acquire, Good, TaskTypes, PrefetchInv
  <2> QED
    BY <1>1, <2>2, <2>3, GoodChange DEF Acquire, Good, PrefetchInv, Pending, Statuses, handler
<1>2. CASE Resolve(t) \/ LookupFails(t)
  <2>1. task[t].status = "running"
    BY <1>2 DEF Resolve, LookupFails
  <2>2. \A u \in Tasks : u < t => task[u].status \in Finished
    BY <2>1 DEF Good, PrefetchInv
  <2>3. current # None => t <= current /\ task[current].status # "done"
    <3> SUFFICES ASSUME current # None PROVE t <= current /\ task[current].status # "done"
      OBVIOUS
    <3>1. t <= current
      BY <2>1 DEF Good, PrefetchInv, Tasks
    <3>2. CASE t = current
      BY <2>1, <3>1, <3>2
    <3>3. CASE t < current
      BY <2>1, <3>3, <3>1 DEF Good, PrefetchInv, Finished
    <3> QED
      BY <3>1, <3>2, <3>3 DEF Good, PrefetchInv, Tasks
  <2>4. CASE Resolve(t)
    <3>1. current # None /\ task'[current].status = "done" => result' \in {None, predicted}
      BY <2>3, <2>4 DEF Resolve, Good, TaskTypes, PrefetchInv
    <3> QED
      BY <2>1, <2>2, <2>4, <3>1, GoodChange DEF Resolve, Pending, Finished, Statuses, handler
  <2>5. CASE LookupFails(t)
    <3>1. current # None => task'[current].status # "done"
      BY <2>3, <2>5 DEF LookupFails, Good, TaskTypes, PrefetchInv
    <3> QED
      BY <2>1, <2>2, <2>5, <3>1, GoodChange DEF LookupFails, Pending, Finished, Statuses, handler
  <2> QED
    BY <1>2, <2>4, <2>5
<1> QED
  BY <1>1, <1>2 DEF TaskStep

\* Cancelling keeps the invariant when the prediction stays or is dropped.
LEMMA GoodCancel ==
  ASSUME Good, NEW T \in SUBSET Tasks, task' = Cancelled(T),
         \/ UNCHANGED <<predicted, current, result, turn, final>>
         \/ current' = None /\ turn' # "waiting"
  PROVE  Good'
<1>1. TaskTypes'
  BY CancelledKeeps DEF TaskTypes
<1>2. \A u \in Tasks :
        /\ task'[u].query = task[u].query
        /\ \/ task'[u].status = task[u].status
           \/ task[u].status \in Pending /\ task'[u].status = "cancelled"
  BY CancelledKeeps
<1>3. \A u, v \in Tasks : u < v =>
        /\ task'[u].status = "new" => task'[v].status = "new"
        /\ task'[v].status \in {"running", "done", "failed"} =>
             task'[u].status \in Finished
  BY <1>2 DEF Good, PrefetchInv, Pending, Finished
<1>4. current # None /\ current' = current /\ result' = result /\ predicted' = predicted =>
        /\ current \in Tasks /\ predicted \in Queries
        /\ task'[current].status # "new" /\ task'[current].query = predicted
        /\ \A t \in Tasks : t > current => task'[t].status = "new"
        /\ task'[current].status = "done" => result' \in {None, predicted}
  BY <1>2 DEF Good, PrefetchInv, Pending
<1>5. PrefetchInv'
  <2>1. CASE UNCHANGED <<predicted, current, result, turn, final>>
    BY <1>3, <1>4, <2>1 DEF Good, PrefetchInv
  <2>2. CASE current' = None /\ turn' # "waiting"
    BY <1>3, <2>2 DEF PrefetchInv
  <2> QED
    BY <2>1, <2>2
<1> QED
  BY <1>1, <1>5 DEF Good

\* A completed turn takes the answer, drops the prediction or waits for it.
LEMMA GoodTurn ==
  ASSUME Good, tracked \in SUBSET Tasks, NEW f \in Queries, TurnCompleted(f) PROVE Good'
<1>1. CASE current # None /\ Mismatch(f) /\ Took(None) /\ task' = Cancelled({current})
  <2>1. {current} \in SUBSET Tasks
    BY <1>1 DEF Good, PrefetchInv
  <2> QED
    BY <1>1, <2>1, GoodCancel DEF Took
<1>2. CASE \E w : Took(w) /\ UNCHANGED task
  BY <1>2 DEF Good, TaskTypes, PrefetchInv, Took
<1>3. CASE /\ current # None /\ ~Mismatch(f) /\ task[current].status \in Pending
           /\ turn' = "waiting"
           /\ UNCHANGED <<task, predicted, current, result, warm>>
  BY <1>3 DEF Good, TaskTypes, PrefetchInv, TurnCompleted, Mismatch
<1> QED
  BY <1>1, <1>2, <1>3 DEF TurnCompleted

\* No step leaves the invariant.
LEMMA GoodStep ==
  ASSUME Good, MaxInflight = 1, tracked \in SUBSET Tasks, [Next]_vars
  PROVE  Good' /\ tracked' \in SUBSET Tasks
<1>1. CASE (\E few \in BOOLEAN : UserStarts(few)) \/ UserStops \/ AgentStarts
           \/ AgentStops \/ Disconnect \/ Reconnect
  BY <1>1, GoodStays DEF UserStarts, UserStops, AgentStarts, AgentStops, Disconnect,
                         Reconnect, prefetch, handler
<1>2. CASE RunInterrupt
  BY <1>2, GoodCancel DEF RunInterrupt, handler
<1>3. ASSUME NEW q \in Queries, Interim(q) PROVE Good' /\ tracked' \in SUBSET Tasks
  BY <1>3, GoodInterim DEF Interim
<1>4. ASSUME NEW q \in Queries, TurnCompleted(q) PROVE Good' /\ tracked' \in SUBSET Tasks
  BY <1>4, GoodTurn DEF TurnCompleted
<1>5. ASSUME NEW t \in Tasks, TaskStep(t) PROVE Good' /\ tracked' \in SUBSET Tasks
  BY <1>5, GoodTask DEF TaskStep, Acquire, Resolve, LookupFails
<1>6. CASE Waited
  <2>1. CASE \E w : Took(w)
    BY <1>6, <2>1 DEF Waited, Good, TaskTypes, PrefetchInv, Took
  <2>2. CASE turn' = "none" /\ UNCHANGED <<warm, predicted, current, result>>
    BY <1>6, <2>2, GoodStays DEF Waited
  <2> QED
    BY <1>6, <2>1, <2>2 DEF Waited
<1>7. CASE Routed \/ FillerPlays
  BY <1>7, GoodStays DEF Routed, FillerPlays, prefetch
<1>8. CASE UNCHANGED vars
  BY <1>8, GoodStays DEF vars, prefetch, handler
<1> QED
  BY <1>1, <1>2, <1>3, <1>4, <1>5, <1>6, <1>7, <1>8 DEF Next

\* With one permit the prefetch tasks run in spawn order and the current one
\* last, in every reachable state.
THEOREM PrefetchIsOrderly ==
  ASSUME MaxInflight = 1 PROVE Spec => [](Good /\ tracked \in SUBSET Tasks)
<1>1. Init => Good /\ tracked \in SUBSET Tasks
  BY GoodInit DEF Init
<1>2. Good /\ tracked \in SUBSET Tasks /\ [Next]_vars => (Good /\ tracked \in SUBSET Tasks)'
  BY GoodStep
<1> QED
  BY <1>1, <1>2, PTL DEF Spec

\* The step that starts routing serves nothing or the finished prediction.
LEMMA ServesThePrediction ==
  ASSUME Good, [Next]_vars, turn # "routing", turn' = "routing",
         current # None, task[current].status = "done"
  PROVE  warm' \in {p \in Queries : <<p, final'>> \in Within} \cup {None}
<1>1. CASE \E f \in Queries : TurnCompleted(f)
  <2>1. PICK f \in Queries : TurnCompleted(f)
    BY <1>1
  <2> QED
    BY <2>1 DEF TurnCompleted, Took, Mismatch, Good, PrefetchInv
<1>2. CASE Waited
  BY <1>2 DEF Waited, Took, Good, PrefetchInv
<1>3. CASE (\E few \in BOOLEAN : UserStarts(few)) \/ UserStops \/ AgentStarts
           \/ AgentStops \/ Disconnect \/ Reconnect \/ RunInterrupt
  BY <1>3 DEF UserStarts, UserStops, AgentStarts, AgentStops, Disconnect,
              Reconnect, RunInterrupt, handler
<1>4. CASE \E q \in Queries : Interim(q)
  BY <1>4 DEF Interim, handler
<1>5. CASE \E t \in Tasks : TaskStep(t)
  BY <1>5 DEF TaskStep, Acquire, Resolve, LookupFails, handler
<1>6. CASE Routed \/ FillerPlays
  BY <1>6 DEF Routed, FillerPlays
<1>7. CASE UNCHANGED vars
  BY <1>7 DEF vars, handler
<1> QED
  BY <1>1, <1>2, <1>3, <1>4, <1>5, <1>6, <1>7 DEF Next

\* With the one permit the semaphore ships with, a warm answer taken from a
\* finished prefetch is for what the caller said (FreshFromFinished),
\* whatever orphans earlier turns left running.
THEOREM WarmAnswersAreFresh ==
  ASSUME MaxInflight = 1 PROVE Spec => FreshFromFinished
<1>1. ASSUME Good, [Next]_vars
      PROVE  [ /\ turn # "routing" /\ turn' = "routing"
               /\ current # None /\ task[current].status = "done"
               => warm' \in {p \in Queries : <<p, final'>> \in Within} \cup {None} ]_vars
  BY <1>1, ServesThePrediction
<1> QED
  BY <1>1, PrefetchIsOrderly, PTL DEF Spec, FreshFromFinished
-----------------------------------------------------------------------------
(* The interrupt theorem: whatever still looks something up is in the      *)
(* registry, orphans of earlier turns included.                            *)

\* Every prefetch that is queued or running is registered.
AllTracked == Unfinished \subseteq tracked

\* A task leaves the registry only when it is over.
LEMMA TrackedStep ==
  ASSUME TaskTypes, AllTracked, [Next]_vars
  PROVE  AllTracked'
<1> USE DEF TaskTypes, AllTracked, Unfinished
<1>1. ASSUME UNCHANGED <<task, tracked>> PROVE AllTracked'
  BY <1>1
<1>2. CASE \E few \in BOOLEAN : UserStarts(few)
  BY <1>1, <1>2 DEF UserStarts, prefetch
<1>3. CASE UserStops \/ AgentStarts \/ AgentStops \/ Disconnect \/ Reconnect
  BY <1>1, <1>3 DEF UserStops, AgentStarts, AgentStops, Disconnect, Reconnect, prefetch
<1>4. CASE RunInterrupt
  BY <1>4 DEF RunInterrupt, Cancelled, Pending
<1>5. ASSUME NEW q \in Queries, Interim(q) PROVE AllTracked'
  BY <1>5 DEF Interim
<1>6. ASSUME NEW f \in Queries, TurnCompleted(f) PROVE AllTracked'
  <2>1. task' = task \/ task' = Cancelled({current})
    BY <1>6 DEF TurnCompleted
  <2>2. \A t \in Tasks : task'[t].status \in Pending => task[t].status \in Pending
    BY <2>1 DEF Cancelled, Pending
  <2>3. tracked' = tracked \ {t \in Tasks : task'[t].status \in Finished}
    BY <1>6 DEF TurnCompleted
  <2> QED
    BY <2>2, <2>3 DEF Pending, Finished
<1>7. ASSUME NEW t \in Tasks, TaskStep(t) PROVE AllTracked'
  BY <1>7 DEF TaskStep, Acquire, Resolve, LookupFails, Pending
<1>8. CASE Waited \/ Routed \/ FillerPlays
  BY <1>1, <1>8 DEF Waited, Routed, FillerPlays, prefetch
<1>9. CASE UNCHANGED vars
  BY <1>1, <1>9 DEF vars, prefetch
<1> QED
  BY <1>2, <1>3, <1>4, <1>5, <1>6, <1>7, <1>8, <1>9 DEF Next

\* The table keeps its type, whatever the number of permits.
LEMMA TableStep == TaskTypes /\ [Next]_vars => TaskTypes'
<1> SUFFICES ASSUME TaskTypes, [Next]_vars PROVE TaskTypes'
  OBVIOUS
<1> USE DEF TaskTypes, Statuses, Pending, Finished
<1>1. ASSUME UNCHANGED task PROVE TaskTypes'
  BY <1>1
<1>2. CASE \E few \in BOOLEAN : UserStarts(few)
  BY <1>1, <1>2 DEF UserStarts, prefetch
<1>3. CASE UserStops \/ AgentStarts \/ AgentStops \/ Disconnect \/ Reconnect
  BY <1>1, <1>3 DEF UserStops, AgentStarts, AgentStops, Disconnect, Reconnect, prefetch
<1>4. ASSUME NEW T, task' = Cancelled(T) PROVE TaskTypes'
  <2>1. \A t \in Tasks : task'[t] \in [status: Statuses, query: Queries \cup {None}]
    BY <1>4 DEF Cancelled
  <2>2. task' = [t \in Tasks |-> task'[t]]
    BY <1>4 DEF Cancelled
  <2> QED
    BY <2>1, <2>2
<1>5. CASE RunInterrupt
  BY <1>4, <1>5 DEF RunInterrupt
<1>6. ASSUME NEW q \in Queries, Interim(q) PROVE TaskTypes'
  BY <1>6 DEF Interim
<1>7. ASSUME NEW f \in Queries, TurnCompleted(f) PROVE TaskTypes'
  BY <1>1, <1>4, <1>7 DEF TurnCompleted
<1>8. ASSUME NEW t \in Tasks, TaskStep(t) PROVE TaskTypes'
  BY <1>8 DEF TaskStep, Acquire, Resolve, LookupFails
<1>9. CASE Waited \/ Routed \/ FillerPlays
  BY <1>1, <1>9 DEF Waited, Routed, FillerPlays, prefetch
<1>10. CASE UNCHANGED vars
  BY <1>1, <1>10 DEF vars, prefetch
<1> QED
  BY <1>2, <1>3, <1>5, <1>6, <1>7, <1>8, <1>9, <1>10 DEF Next

\* Only the registry's own run takes a scheduled interrupt off.
LEMMA OnlyRunInterrupt ==
  ASSUME [Next]_vars, interrupting, ~interrupting'
  PROVE  RunInterrupt
<1> SUFFICES ASSUME ~RunInterrupt PROVE FALSE
  OBVIOUS
<1>1. CASE \E few \in BOOLEAN : UserStarts(few)
  BY <1>1 DEF UserStarts, MoveTo
<1>2. CASE UserStops \/ AgentStarts \/ AgentStops \/ Disconnect \/ Reconnect
  BY <1>2 DEF UserStops, AgentStarts, AgentStops, Disconnect, Reconnect, MoveTo
<1>3. CASE \E q \in Queries : Interim(q) \/ TurnCompleted(q)
  BY <1>3 DEF Interim, TurnCompleted
<1>4. CASE \E t \in Tasks : TaskStep(t)
  BY <1>4 DEF TaskStep, Acquire, Resolve, LookupFails
<1>5. CASE Waited \/ Routed \/ FillerPlays
  BY <1>5 DEF Waited, Routed, FillerPlays, MoveTo
<1>6. CASE UNCHANGED vars
  BY <1>6 DEF vars
<1> QED
  BY <1>1, <1>2, <1>3, <1>4, <1>5, <1>6 DEF Next

\* When a scheduled interrupt has run, no prefetch is queued or running, for
\* any number of permits and of orphans (InterruptDrains).
THEOREM InterruptsDrain == Spec => InterruptDrains
<1>1. Init => TaskTypes /\ AllTracked
  <2> SUFFICES ASSUME Init PROVE TaskTypes /\ AllTracked
    OBVIOUS
  <2>1. \A t \in Tasks : task[t] = [status |-> "new", query |-> None]
    BY DEF Init
  <2> QED
    BY <2>1 DEF Init, TaskTypes, Statuses, AllTracked, Unfinished, Pending
<1>2. TaskTypes /\ AllTracked /\ [Next]_vars => TaskTypes' /\ AllTracked'
  BY TrackedStep, TableStep
<1>3. ASSUME TaskTypes, AllTracked, [Next]_vars, interrupting, ~interrupting'
      PROVE  Unfinished' = {}
  <2>1. task' = Cancelled(tracked)
    BY <1>3, OnlyRunInterrupt DEF RunInterrupt
  <2>2. ASSUME NEW t \in Tasks PROVE task'[t].status \notin Pending
    BY <1>3, <2>1 DEF Cancelled, TaskTypes, AllTracked, Unfinished, Pending
  <2> QED
    BY <2>2 DEF Unfinished
<1>4. TaskTypes /\ AllTracked /\ [Next]_vars =>
        [interrupting /\ ~interrupting' => Unfinished' = {}]_vars
  BY <1>3
<1> QED
  BY <1>1, <1>2, <1>4, PTL DEF Spec, InterruptDrains

-----------------------------------------------------------------------------
(* The types of a conversation. *)

\* The FSM's hooks know no state but the table's.
LEMMA HooksStay ==
  ASSUME NEW s \in State
  PROVE  /\ \A q \in State : To(s, q) \in State
         /\ OnUserStartedSpeaking(s) \in State /\ OnUserTurnCommitted(s) \in State
         /\ OnAgentStartedSpeaking(s) \in State /\ OnAgentStoppedSpeaking(s) \in State
         /\ OnCallEnded(s) \in State
<1>1. \A q \in State : To(s, q) \in State
  BY DEF To
<1>2. {"INTERRUPTED", "LISTENING", "THINKING", "SPEAKING", "CALL_END"} \subseteq State
  BY DEF State
<1>3. OnUserStartedSpeaking(s) \in State
  BY <1>1, <1>2 DEF OnUserStartedSpeaking
<1> QED
  BY <1>1, <1>2, <1>3 DEF OnUserTurnCommitted, OnAgentStartedSpeaking, OnAgentStoppedSpeaking, OnCallEnded

\* A call starts with its types.
LEMMA TypesStart == Init => TypeOK
<1> SUFFICES ASSUME Init PROVE TypeOK
  OBVIOUS
<1>1. TaskTypes
  BY GoodInit DEF Good
<1>2. 0 \in 0..NumTurns
  BY BoundAssumption
<1> QED
  BY <1>1, <1>2 DEF Init, TypeOK, TaskTypes, Statuses, State, Maybe

\* No event, task or handler step leaves them.
LEMMA TypesStep == TypeOK /\ [Next]_vars => TypeOK'
<1> SUFFICES ASSUME TypeOK, [Next]_vars PROVE TypeOK'
  OBVIOUS
<1> DEFINE Rest == /\ user' \in {"listening", "speaking"} /\ short' \in BOOLEAN
                   /\ agent' \in {"quiet", "speaking"} /\ line' \in {"up", "down"}
           Floor == fsm' \in State /\ interrupting' \in BOOLEAN /\ Rest
           Fetch == /\ tracked' \in SUBSET Tasks
                    /\ predicted' \in Maybe(Queries) /\ current' \in Maybe(Tasks)
                    /\ result' \in Maybe(Queries)
           Handler == /\ turn' \in {"none", "waiting", "routing"}
                     /\ final' \in Maybe(Queries) /\ warm' \in Maybe(Queries)
                     /\ filler' \in {"none", "pending"}
                     /\ seen' \in 0..NumTurns /\ lastFiller' \in 0..NumTurns
<1>0. TaskTypes'
  BY TableStep DEF TypeOK, TaskTypes, Statuses, Maybe
<1>1. ASSUME NEW next \in State, MoveTo(next) PROVE fsm' \in State /\ interrupting' \in BOOLEAN
  <2>1. fsm' \in State
    BY <1>1 DEF MoveTo
  <2>2. interrupting' \in BOOLEAN
    BY <1>1 DEF MoveTo, TypeOK
  <2> QED
    BY <2>1, <2>2
<1>2. UNCHANGED <<fsm, interrupting>> => fsm' \in State /\ interrupting' \in BOOLEAN
  BY DEF TypeOK
<1>3. UNCHANGED speech => Rest
  BY DEF TypeOK, speech
<1>4. UNCHANGED prefetch => Fetch
  BY DEF TypeOK, prefetch
<1>5. UNCHANGED handler => Handler
  BY DEF TypeOK, handler
<1>6. /\ OnUserStartedSpeaking(fsm) \in State /\ OnUserTurnCommitted(fsm) \in State
      /\ OnAgentStartedSpeaking(fsm) \in State /\ OnAgentStoppedSpeaking(fsm) \in State
      /\ OnCallEnded(fsm) \in State
  BY HooksStay DEF TypeOK
<1>7. Floor /\ Fetch /\ Handler
  <2>1. ASSUME NEW few \in BOOLEAN, UserStarts(few) PROVE Floor /\ Fetch /\ Handler
    BY <1>1, <1>4, <1>5, <1>6, <2>1 DEF UserStarts, TypeOK
  <2>2. CASE UserStops
    BY <1>1, <1>4, <1>5, <1>6, <2>2 DEF UserStops, TypeOK
  <2>3. CASE AgentStarts
    BY <1>1, <1>4, <1>5, <1>6, <2>3 DEF AgentStarts, TypeOK
  <2>4. CASE AgentStops
    BY <1>1, <1>4, <1>5, <1>6, <2>4 DEF AgentStops, TypeOK
  <2>5. CASE Disconnect
    BY <1>1, <1>4, <1>5, <1>6, <2>5 DEF Disconnect, TypeOK
  <2>6. CASE Reconnect
    BY <1>2, <1>4, <1>5, <2>6 DEF Reconnect, TypeOK
  <2>7. CASE RunInterrupt
    <3>1. Rest /\ Fetch
      BY <2>7 DEF RunInterrupt, TypeOK
    <3>2. fsm' \in State
      BY <1>6, <2>7 DEF RunInterrupt, TypeOK
    <3>3. interrupting' \in BOOLEAN /\ UNCHANGED handler
      BY <2>7 DEF RunInterrupt
    <3> QED
      BY <1>5, <3>1, <3>2, <3>3
  <2>8. ASSUME NEW q \in Queries, Interim(q) PROVE Floor /\ Fetch /\ Handler
    BY <1>2, <1>3, <1>5, <2>8 DEF Interim, TypeOK, Maybe
  <2>9. ASSUME NEW f \in Queries, TurnCompleted(f) PROVE Floor /\ Fetch /\ Handler
    <3>1. Fetch
      BY <2>9 DEF TurnCompleted, Took, TypeOK, Maybe
    <3>2. seen' \in 0..NumTurns /\ lastFiller' \in 0..NumTurns
      BY <2>9, BoundAssumption DEF TurnCompleted, TypeOK
    <3>3. /\ turn' \in {"none", "waiting", "routing"} /\ final' \in Maybe(Queries)
          /\ warm' \in Maybe(Queries) /\ filler' \in {"none", "pending"}
      BY <2>9 DEF TurnCompleted, Took, TypeOK, Maybe
    <3> QED
      BY <1>2, <1>3, <2>9, <3>1, <3>2, <3>3 DEF TurnCompleted
  <2>10. ASSUME NEW t \in Tasks, TaskStep(t) PROVE Floor /\ Fetch /\ Handler
    <3>1. result' \in {task[t].query, None} => result' \in Maybe(Queries)
      BY DEF TypeOK, Maybe
    <3>2. UNCHANGED <<fsm, interrupting, speech, predicted, current, handler>>
      BY <2>10 DEF TaskStep, Acquire, Resolve, LookupFails
    <3>3. tracked' \in SUBSET Tasks /\ result' \in Maybe(Queries)
      BY <2>10, <3>1 DEF TaskStep, Acquire, Resolve, LookupFails, TypeOK
    <3> QED
      BY <1>2, <1>3, <1>5, <3>2, <3>3 DEF TypeOK
  <2>11. CASE Waited
    <3>1. /\ predicted' \in Maybe(Queries) /\ current' \in Maybe(Tasks) /\ result' \in Maybe(Queries)
          /\ warm' \in Maybe(Queries) /\ turn' \in {"none", "waiting", "routing"}
      BY <2>11 DEF Waited, Took, TypeOK, Maybe
    <3>2. UNCHANGED <<fsm, interrupting, speech, task, tracked, final, filler, seen, lastFiller>>
      BY <2>11 DEF Waited
    <3> QED
      BY <1>2, <1>3, <3>1, <3>2 DEF TypeOK
  <2>12. CASE Routed
    <3>1. /\ filler' \in {"none", "pending"} /\ lastFiller' \in 0..NumTurns /\ turn' = "none"
      BY <2>12 DEF Routed, TypeOK
    <3>2. UNCHANGED <<fsm, interrupting, speech, prefetch, final, warm, seen>>
      BY <2>12 DEF Routed
    <3> QED
      BY <1>2, <1>3, <1>4, <3>1, <3>2 DEF TypeOK
  <2>13. CASE FillerPlays
    <3>1. fsm' \in State /\ interrupting' \in BOOLEAN
      BY <1>1, <1>2, <1>6, <2>13 DEF FillerPlays
    <3>2. Rest /\ filler' = "none" /\ UNCHANGED <<prefetch, turn, final, warm, seen, lastFiller>>
      BY <2>13 DEF FillerPlays, TypeOK
    <3> QED
      BY <1>4, <3>1, <3>2 DEF TypeOK
  <2>14. CASE UNCHANGED vars
    BY <1>2, <1>3, <1>4, <1>5, <2>14 DEF vars
  <2> QED
    BY <2>1, <2>2, <2>3, <2>4, <2>5, <2>6, <2>7, <2>8, <2>9, <2>10, <2>11, <2>12, <2>13, <2>14 DEF Next
<1> QED
  BY <1>0, <1>7 DEF TypeOK, TaskTypes, Statuses, Maybe

\* Every variable of a conversation keeps its type, for any queries, tasks,
\* turns and permits.
THEOREM ConversationTypes == Spec => []TypeOK
  BY TypesStart, TypesStep, PTL DEF Spec
=============================================================================
