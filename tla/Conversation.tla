---------------------------- MODULE Conversation ----------------------------
(***************************************************************************)
(* One call's conversation: the FSM bound to the session's events, the     *)
(* cancellation registry its INTERRUPTED transition fires, the predictive  *)
(* prefetch started on interim transcripts and taken by the turn handler,  *)
(* and the filler that covers a slow turn.  All of it runs on one event    *)
(* loop: an action is a callback or the code between two awaits.           *)
(*                                                                         *)
(* The AgentSession (who speaks when, when a turn completes) is external:  *)
(* UserStarts, UserStops, AgentStarts, AgentStops, Interim, TurnCompleted, *)
(* Disconnect and Reconnect are its events, with the handlers of src/.     *)
(***************************************************************************)
EXTENDS Naturals, FiniteSets, ConversationFSM

CONSTANTS
  Queries,     \* stable prefixes and final transcripts
  Within,      \* pairs <<p, f>>: the final f starts with or contains p
  None,        \* no query, no answer, no task
  NumTasks,    \* prefetch tasks a run may spawn (bound)
  NumTurns,    \* caller turns a run may see (bound)
  MaxInflight, \* permits of the prefetch semaphore
  Events       \* what may go wrong: "slow", "fail", "drop"

Tasks == 1..NumTasks

ASSUME QueryAssumption ==
  /\ None \notin Queries
  /\ \A q \in Queries : <<q, q>> \in Within

ASSUME BoundAssumption ==
  /\ NumTasks \in Nat
  /\ NumTurns \in Nat
  /\ MaxInflight \in Nat \ {0}
  /\ None \notin Tasks
  /\ Events \subseteq {"slow", "fail", "drop"}

VARIABLES
  fsm,        \* ConversationFSM._state
  user,       \* the session's user state
  short,      \* the caller's latest utterance has fewer than min_words words
  agent,      \* the session is playing agent speech
  line,       \* the caller's leg is connected
  interrupting, \* a registry.on_interrupt task is scheduled
  task,       \* the prefetch tasks, numbered in spawn order
  tracked,    \* CancellationRegistry._tasks
  predicted,  \* PredictivePrefetch._predicted_query
  current,    \* PredictivePrefetch._task
  result,     \* PredictivePrefetch._result
  turn,       \* where on_user_turn_completed stands
  final,      \* the transcript it handles
  warm,       \* the warm answer it took
  filler,     \* VoiceAgent._pending_filler
  seen,       \* VoiceAgent._caller_turns_seen
  lastFiller  \* VoiceAgent._last_filler_turn

speech == <<user, short, agent, line>>
prefetch == <<task, tracked, predicted, current, result>>
handler == <<turn, final, warm, filler, seen, lastFiller>>
vars == <<fsm, interrupting, speech, prefetch, handler>>

Pending == {"queued", "running"}
Finished == {"done", "failed", "cancelled"}

Unfinished == {t \in Tasks : task[t].status \in Pending}

-----------------------------------------------------------------------------
(* The session's events. *)

\* Entering INTERRUPTED schedules registry.on_interrupt; it runs later.
MoveTo(next) ==
  /\ fsm' = next
  /\ interrupting' = (interrupting \/ (next = "INTERRUPTED" /\ fsm # next))

UserStarts(few) ==
  /\ line = "up" /\ user = "listening"
  /\ user' = "speaking"
  /\ short' = few
  /\ MoveTo(OnUserStartedSpeaking(fsm))
  /\ UNCHANGED <<agent, line, prefetch, handler>>

UserStops ==
  /\ user = "speaking"
  /\ user' = "listening"
  /\ MoveTo(OnUserTurnCommitted(fsm))
  /\ UNCHANGED <<short, agent, line, prefetch, handler>>

AgentStarts ==
  /\ agent = "quiet"
  /\ agent' = "speaking"
  /\ MoveTo(OnAgentStartedSpeaking(fsm))
  /\ UNCHANGED <<user, short, line, prefetch, handler>>

AgentStops ==
  /\ agent = "speaking"
  /\ agent' = "quiet"
  /\ MoveTo(OnAgentStoppedSpeaking(fsm))
  /\ UNCHANGED <<user, short, line, prefetch, handler>>

Disconnect ==
  /\ "drop" \in Events
  /\ line = "up"
  /\ line' = "down"
  /\ user' = "listening"
  /\ MoveTo(OnCallEnded(fsm))
  /\ UNCHANGED <<short, agent, prefetch, handler>>

\* The caller is back within the grace window: the call is kept alive.
Reconnect ==
  /\ line = "down"
  /\ line' = "up"
  /\ UNCHANGED <<fsm, interrupting, user, short, agent, prefetch, handler>>

-----------------------------------------------------------------------------
(* The cancellation registry. *)

Cancelled(T) ==
  [t \in Tasks |-> IF t \in T /\ task[t].status \in Pending
                   THEN [task[t] EXCEPT !.status = "cancelled"] ELSE task[t]]

\* Mutant of RunInterrupt: the audio is flushed, the tasks are not cancelled.
FlushOnly ==
  /\ interrupting
  /\ interrupting' = FALSE
  /\ agent' = "quiet"
  /\ fsm' = IF agent = "speaking" THEN OnAgentStoppedSpeaking(fsm) ELSE fsm
  /\ UNCHANGED <<user, short, line, prefetch, handler>>

\* registry.on_interrupt: cancel_generation drains the registry, which
\* also holds the other scheduled ones; flush_tts silences the agent.
RunInterrupt ==
  /\ interrupting
  /\ interrupting' = FALSE
  /\ task' = Cancelled(tracked)
  /\ tracked' = {}
  /\ agent' = "quiet"
  /\ fsm' = IF agent = "speaking" THEN OnAgentStoppedSpeaking(fsm) ELSE fsm
  /\ UNCHANGED <<user, short, line, predicted, current, result, handler>>

-----------------------------------------------------------------------------
(* Predictive prefetch. *)

\* An interim transcript with a new stable prefix: spawn unless a task of
\* this turn exists.  Prefixes whose intent is not prefetchable do nothing.
Interim(q) ==
  /\ current = None
  /\ \E t \in Tasks :
       /\ task[t].status = "new" /\ \A u \in 1..(t - 1) : task[u].status # "new"
       /\ task' = [task EXCEPT ![t] = [status |-> "queued", query |-> q]]
       /\ tracked' = tracked \cup {t}
       /\ current' = t
  /\ predicted' = q
  /\ UNCHANGED <<fsm, interrupting, speech, result, handler>>

\* Mutant of Acquire: the semaphore is gone.
AcquireFreely(t) ==
  /\ task[t].status = "queued"
  /\ task' = [task EXCEPT ![t].status = "running"]
  /\ UNCHANGED <<fsm, interrupting, speech, tracked, predicted, current, result,
                 handler>>

\* asyncio.Semaphore admits its waiters in the order they came.
Acquire(t) ==
  /\ task[t].status = "queued"
  /\ \A u \in 1..(t - 1) : task[u].status # "queued"
  /\ Cardinality({u \in Tasks : task[u].status = "running"}) < MaxInflight
  /\ task' = [task EXCEPT ![t].status = "running"]
  /\ UNCHANGED <<fsm, interrupting, speech, tracked, predicted, current, result,
                 handler>>

\* The cache or the knowledge base answers, or has no answer.
Resolve(t) ==
  /\ task[t].status = "running"
  /\ result' \in {task[t].query, None}
  /\ task' = [task EXCEPT ![t].status = "done"]
  /\ tracked' = tracked \ {t}
  /\ UNCHANGED <<fsm, interrupting, speech, predicted, current, handler>>

\* A lookup that raises is swallowed and leaves _result as it was.
LookupFails(t) ==
  /\ "fail" \in Events
  /\ task[t].status = "running"
  /\ task' = [task EXCEPT ![t].status = "failed"]
  /\ tracked' = tracked \ {t}
  /\ UNCHANGED <<fsm, interrupting, speech, predicted, current, result, handler>>

-----------------------------------------------------------------------------
(* on_user_turn_completed.  Turns dropped as echo or noise return before   *)
(* anything of this state is touched.                                      *)

\* predictive.reset() right after take_if_matches returned w.
Took(w) ==
  /\ warm' = w
  /\ predicted' = None /\ current' = None /\ result' = None
  /\ turn' = "routing"

\* The prediction was wrong: the task is cancelled, the turn goes on.
Mismatch(f) == <<predicted, f>> \notin Within

TurnCompleted(f) ==
  /\ turn = "none" /\ user = "listening" /\ seen < NumTurns
  /\ seen' = seen + 1
  /\ final' = f
  /\ filler' = "none"
  /\ \/ current = None /\ Took(None) /\ UNCHANGED task
     \/ /\ current # None /\ Mismatch(f)
        /\ Took(None)
        /\ task' = Cancelled({current})
     \/ /\ current # None /\ ~Mismatch(f) /\ task[current].status \in Finished
        /\ Took(result)
        /\ UNCHANGED task
     \/ /\ current # None /\ ~Mismatch(f) /\ task[current].status \in Pending
        /\ turn' = "waiting"
        /\ UNCHANGED <<task, predicted, current, result, warm>>
  /\ tracked' = tracked \ {t \in Tasks : task'[t].status \in Finished}
  /\ UNCHANGED <<fsm, interrupting, speech, lastFiller>>

\* Mutant of Waited: shield without wait_for.
WaitedUntimed ==
  /\ turn = "waiting"
  /\ \/ task[current].status \in {"done", "failed"} /\ Took(result)
     \/ /\ task[current].status = "cancelled"
        /\ turn' = "none"
        /\ UNCHANGED <<warm, predicted, current, result>>
  /\ UNCHANGED <<fsm, interrupting, speech, task, tracked, final, filler, seen,
                 lastFiller>>

\* wait_for(shield(task), 0.20) returns, times out, or is itself cancelled
\* with the task: then the handler dies without a reset.
Waited ==
  /\ turn = "waiting"
  /\ \/ task[current].status \in {"done", "failed"} /\ Took(result)
     \/ "slow" \in Events /\ task[current].status \in Pending /\ Took(None)
     \/ /\ task[current].status = "cancelled"
        /\ turn' = "none"
        /\ UNCHANGED <<warm, predicted, current, result>>
  /\ UNCHANGED <<fsm, interrupting, speech, task, tracked, final, filler, seen,
                 lastFiller>>

\* The route is known: a slow turn without a warm answer may get a filler.
Routed ==
  /\ turn = "routing"
  /\ turn' = "none"
  /\ \/ UNCHANGED <<filler, lastFiller>>
     \/ /\ warm = None /\ seen - lastFiller >= 1
        /\ filler' = "pending"
        /\ lastFiller' = seen
  /\ UNCHANGED <<fsm, interrupting, speech, prefetch, final, warm, seen>>

\* The pending filler reaches session.say.
FillerPlays ==
  /\ filler = "pending"
  /\ filler' = "none"
  /\ agent' = "speaking"
  /\ IF agent = "quiet" THEN MoveTo(OnAgentStartedSpeaking(fsm))
                        ELSE UNCHANGED <<fsm, interrupting>>
  /\ UNCHANGED <<user, short, line, prefetch, turn, final, warm, seen, lastFiller>>

-----------------------------------------------------------------------------

Init ==
  /\ fsm = "GREETING"
  /\ user = "listening" /\ short = FALSE /\ agent = "quiet" /\ line = "up"
  /\ interrupting = FALSE
  /\ task \in [Tasks -> {[status |-> "new", query |-> None]}]
  /\ tracked = {}
  /\ predicted = None /\ current = None /\ result = None
  /\ turn = "none" /\ final = None /\ warm = None
  /\ filler = "none" /\ seen = 0 /\ lastFiller = 0

TaskStep(t) == Acquire(t) \/ Resolve(t) \/ LookupFails(t)

Next ==
  \/ \E few \in BOOLEAN : UserStarts(few)
  \/ UserStops \/ AgentStarts \/ AgentStops \/ Disconnect \/ Reconnect
  \/ RunInterrupt
  \/ \E q \in Queries : Interim(q) \/ TurnCompleted(q)
  \/ \E t \in Tasks : TaskStep(t)
  \/ Waited \/ Routed \/ FillerPlays

Spec == Init /\ [][Next]_vars

\* The event loop runs the turn handler whenever it can go on; the timer of
\* its wait always fires.  Nothing is assumed of callers or of lookups.
FairSpec == Spec /\ WF_vars(Waited) /\ WF_vars(Routed)

-----------------------------------------------------------------------------
(* Properties. *)

Maybe(S) == S \cup {None}

\* Every variable has the type the code gives it.
TypeOK ==
  /\ fsm \in State
  /\ user \in {"listening", "speaking"} /\ short \in BOOLEAN
  /\ agent \in {"quiet", "speaking"} /\ line \in {"up", "down"}
  /\ interrupting \in BOOLEAN
  /\ task \in [Tasks -> [status: {"new"} \cup Pending \cup Finished,
                        query: Maybe(Queries)]]
  /\ tracked \in SUBSET Tasks
  /\ predicted \in Maybe(Queries) /\ current \in Maybe(Tasks)
  /\ result \in Maybe(Queries)
  /\ turn \in {"none", "waiting", "routing"}
  /\ final \in Maybe(Queries) /\ warm \in Maybe(Queries)
  /\ filler \in {"none", "pending"}
  /\ seen \in 0..NumTurns /\ lastFiller \in 0..NumTurns

\* A caller who starts to speak over the agent is a barge-in whatever was
\* interrupted, rejected or resumed before: the FSM is INTERRUPTED and the
\* cancellation is on its way (until the FSM is told the call is over).
BargeInSeen ==
  [][ /\ user = "listening" /\ user' = "speaking"
      /\ agent = "speaking" /\ fsm # "CALL_END"
      => fsm' = "INTERRUPTED" /\ interrupting' ]_vars

\* The inductive strengthening of BargeInSeen: where the FSM can be while
\* the agent is heard, and that INTERRUPTED lasts only while the caller talks.
FloorInv ==
  /\ fsm \in {"GREETING", "LISTENING", "THINKING", "SPEAKING", "INTERRUPTED",
              "CALL_END"}
  /\ agent = "speaking" => fsm \in {"THINKING", "SPEAKING", "INTERRUPTED", "CALL_END"}
  /\ user = "listening" => fsm # "INTERRUPTED"

\* An interrupt leaves no prefetch running, the orphans of earlier turns
\* included: "cancel them in one idempotent call".
InterruptDrains ==
  [][interrupting /\ ~interrupting' => Unfinished' = {}]_vars

\* A warm answer taken from a prefetch that ran to its end answers what the
\* caller said, whatever orphans of earlier turns finished meanwhile.
FreshFromFinished ==
  [][ /\ turn # "routing" /\ turn' = "routing"
      /\ current # None /\ task[current].status = "done"
      => warm' \in {p \in Queries : <<p, final'>> \in Within} \cup {None} ]_vars

\* The inductive strengthening of FreshFromFinished under one permit: tasks
\* run in spawn order one after the other, the current one is the last, and
\* once it is done the result is its own.
PrefetchInv ==
  /\ \A u, t \in Tasks : u < t =>
       /\ task[u].status = "new" => task[t].status = "new"
       /\ task[t].status \in {"running", "done", "failed"} =>
            task[u].status \in Finished
  /\ current # None =>
       /\ current \in Tasks /\ predicted \in Queries
       /\ task[current].status # "new" /\ task[current].query = predicted
       /\ \A t \in Tasks : t > current => task[t].status = "new"
       /\ task[current].status = "done" => result \in {None, predicted}
  /\ turn = "waiting" => current # None /\ <<predicted, final>> \in Within

\* However long a lookup hangs, the turn handler goes on.
TurnSettles == turn = "waiting" ~> turn = "none"

\* No warm answer is ever another question's: "If the prediction was wrong,
\* the speculative task is discarded".
NoStaleAnswer == turn = "routing" /\ warm # None => <<warm, final>> \in Within

\* A listener's "haan" does not silence the agent: "Backchannels must NOT
\* cut the agent".
AckKeepsTheFloor ==
  [][interrupting /\ ~interrupting' /\ agent = "speaking" => ~short]_vars

\* An interrupt leaves no filler waiting to be spoken: the registry holds
\* "any filler/say coroutine we launched".
InterruptDropsFiller ==
  [][interrupting /\ ~interrupting' => filler' # "pending"]_vars

\* Fillers stay occasional: "NEVER 2 within 2 caller turns".
FillerCadence ==
  [][lastFiller' # lastFiller /\ lastFiller > 0 => lastFiller' - lastFiller >= 2]_vars

\* A call kept alive after a reconnect still hears barge-ins.
HeardAfterReconnect ==
  [][ /\ user = "listening" /\ user' = "speaking" /\ agent = "speaking"
      => interrupting' ]_vars
=============================================================================
