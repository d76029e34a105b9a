----------------------------- MODULE CallRecord -----------------------------
(***************************************************************************)
(* The record of a call (src/telemetry.py over src/db.py): every turn is a *)
(* fire-and-forget task that pushes the line to Redis, makes sure the Call *)
(* row exists and inserts the Transcript row; the shutdown callback waits  *)
(* for these tasks, replays what Supabase lacks and marks the call ended.  *)
(* The de-duplication of turn() and the row contents are left out.         *)
(***************************************************************************)
EXTENDS Naturals, Sequences, FiniteSets

CONSTANTS
  NumTurns,   \* turns of the call (bound)
  KeptLines,  \* lines the Redis list keeps
  MaxOutages, \* Supabase outages (bound)
  Starter,    \* the task of start()
  Ender,      \* the shutdown callback
  Free,       \* _call_lock is not held
  Faults      \* "redis": a pipeline may fail; "slow": a task may outlive flush

Turns == 1..NumTurns
Tasks == Turns \cup {Starter}
Actors == Tasks \cup {Ender}

ASSUME RecordAssumption ==
  /\ NumTurns \in Nat /\ MaxOutages \in Nat /\ KeptLines \in Nat \ {0}
  /\ Starter \notin Turns /\ Ender \notin Tasks /\ Free \notin Actors
  /\ Faults \subseteq {"redis", "slow"}

VARIABLES
  db,      \* Supabase answers
  outages, \* outages so far
  redis,   \* the list call:<id>:transcript
  active,  \* calls:active holds the call
  rows,    \* its Transcript rows, in insertion order
  call,    \* status of its Call row
  ready,   \* _call_ready
  lock,    \* _call_lock
  pc,      \* the await each task is at
  todo,    \* the lines end() works on
  hurt     \* history: a query of end() failed

vars == <<db, outages, redis, active, rows, call, ready, lock, pc, todo, hurt>>

Up == db = "up"
Running == pc[Ender] # "exited"
Goto(a, step) == pc' = [pc EXCEPT ![a] = step]

\* end() runs into the outage.
Hurts(a) == hurt' = (hurt \/ (a = Ender /\ ~Up))

-----------------------------------------------------------------------------

Outage ==
  /\ Up /\ outages < MaxOutages
  /\ db' = "down" /\ outages' = outages + 1
  /\ UNCHANGED <<redis, active, rows, call, ready, lock, pc, todo, hurt>>

Recover ==
  /\ ~Up
  /\ db' = "up"
  /\ UNCHANGED <<outages, redis, active, rows, call, ready, lock, pc, todo, hurt>>

\* Mutant of Touched: no COALESCE, the missing status is written.
TouchedNull == IF Up THEN "null" ELSE call

\* upsert_call without a status: a new row is live, an old one keeps its own.
Touched == IF Up /\ call = "none" THEN "live" ELSE call

\* upsert_call(status="live") overwrites the status.
Revived == IF Up THEN "live" ELSE call

\* The entrypoint awaits a first upsert before it starts the session.
FirstUpsert ==
  /\ pc[Starter] = "first"
  /\ call' = Revived
  /\ ready' = Up
  /\ Goto(Starter, "redis")
  /\ UNCHANGED <<db, outages, redis, active, rows, lock, todo, hurt>>

\* CallTelemetry.start
StartRedis ==
  /\ Running /\ pc[Starter] = "redis"
  /\ active' \in {TRUE} \cup (IF "redis" \in Faults THEN {active} ELSE {})
  /\ Goto(Starter, "upsert")
  /\ UNCHANGED <<db, outages, redis, rows, call, ready, lock, todo, hurt>>

StartUpsert ==
  /\ Running /\ pc[Starter] = "upsert"
  /\ call' = Revived
  /\ Goto(Starter, "done")
  /\ UNCHANGED <<db, outages, redis, active, rows, ready, lock, todo, hurt>>

\* The next turn is spoken; its persistence is spawned.
Speak(i) ==
  /\ pc[Ender] = "none" /\ pc[Starter] # "first"
  /\ pc[i] = "none" /\ \A j \in 1..(i - 1) : pc[j] # "none"
  /\ Goto(i, "redis")
  /\ UNCHANGED <<db, outages, redis, active, rows, call, ready, lock, todo, hurt>>

\* RPUSH and LTRIM: the list keeps its last lines.
Pushed(i) ==
  Append(IF Len(redis) < KeptLines THEN redis ELSE Tail(redis), i)

Push(i) ==
  /\ Running /\ pc[i] = "redis"
  /\ redis' \in {Pushed(i)} \cup (IF "redis" \in Faults THEN {redis} ELSE {})
  /\ Goto(i, "ensure")
  /\ UNCHANGED <<db, outages, active, rows, call, ready, lock, todo, hurt>>

\* update_context, gathered with the turn in one task: before, between or after
\* the turn's own steps.
UpdateContext(i) ==
  /\ Running /\ pc[i] \notin {"none", "done"}
  /\ call' = Touched
  /\ UNCHANGED <<db, outages, redis, active, rows, ready, lock, pc, todo, hurt>>

\* Where a task goes on once _ensure_call has returned.
AfterEnsure(a) == IF a = Ender THEN "replay" ELSE "insert"

\* _ensure_call: at once if ready, else under the lock.
EnsureCall(a) ==
  /\ Running /\ pc[a] = "ensure"
  /\ \/ ready /\ Goto(a, AfterEnsure(a)) /\ UNCHANGED lock
     \/ ~ready /\ lock = Free /\ lock' = a /\ Goto(a, "upsert")
  /\ UNCHANGED <<db, outages, redis, active, rows, call, ready, todo, hurt>>

\* Mutant of EnsureUpsert: ready whether or not the upsert succeeded.
EnsureRegardless(a) ==
  /\ Running /\ a # Starter /\ pc[a] = "upsert"
  /\ call' = Revived
  /\ ready' = TRUE
  /\ lock' = Free
  /\ Goto(a, AfterEnsure(a))
  /\ Hurts(a)
  /\ UNCHANGED <<db, outages, redis, active, rows, todo>>

EnsureUpsert(a) ==
  /\ Running /\ a # Starter /\ pc[a] = "upsert"
  /\ call' = Revived
  /\ ready' = Up
  /\ lock' = Free
  /\ Goto(a, AfterEnsure(a))
  /\ Hurts(a)
  /\ UNCHANGED <<db, outages, redis, active, rows, todo>>

\* insert_transcript: the foreign key needs the Call row.
Inserted(line) ==
  IF Up /\ call # "none" THEN Append(rows, line) ELSE rows

Insert(i) ==
  /\ Running /\ pc[i] = "insert"
  /\ rows' = Inserted(i)
  /\ Goto(i, "gather")
  /\ UNCHANGED <<db, outages, redis, active, call, ready, lock, todo, hurt>>

\* What is gathered with the turn is over too.
Persisted(i) ==
  /\ Running /\ pc[i] = "gather"
  /\ Goto(i, "done")
  /\ UNCHANGED <<db, outages, redis, active, rows, call, ready, lock, todo, hurt>>

-----------------------------------------------------------------------------
(* The shutdown callback: update_metrics, then CallTelemetry.end. *)

Shutdown ==
  /\ pc[Ender] = "none" /\ pc[Starter] # "first"
  /\ call' = Touched
  /\ Goto(Ender, "flush")
  /\ UNCHANGED <<db, outages, redis, active, rows, ready, lock, todo, hurt>>

\* Mutant of Flush: pending tasks are not waited for.
FlushNothing ==
  /\ pc[Ender] = "flush"
  /\ Goto(Ender, "lrange")
  /\ UNCHANGED <<db, outages, redis, active, rows, call, ready, lock, todo, hurt>>

\* Mutant of Flush: asyncio.wait without a timeout.
FlushForever ==
  /\ pc[Ender] = "flush"
  /\ \A t \in Tasks : pc[t] \in {"none", "done"}
  /\ Goto(Ender, "lrange")
  /\ UNCHANGED <<db, outages, redis, active, rows, call, ready, lock, todo, hurt>>

\* All pending tasks, or those that are done after ten seconds.
Flush ==
  /\ pc[Ender] = "flush"
  /\ "slow" \in Faults \/ \A t \in Tasks : pc[t] \in {"none", "done"}
  /\ Goto(Ender, "lrange")
  /\ UNCHANGED <<db, outages, redis, active, rows, call, ready, lock, todo, hurt>>

ReadBuffer ==
  /\ pc[Ender] = "lrange"
  /\ \/ /\ todo' = redis
        /\ Goto(Ender, IF redis = <<>> THEN "mark" ELSE "count")
        /\ UNCHANGED hurt
     \/ /\ "redis" \in Faults
        /\ hurt' = TRUE
        /\ Goto(Ender, "mark")
        /\ UNCHANGED todo
  /\ UNCHANGED <<db, outages, redis, active, rows, call, ready, lock>>

\* Mutant of Missing: one line short.
MissingButOne(n) == SubSeq(todo, n + 2, Len(todo))

\* items[db_count:]
Missing(n) == SubSeq(todo, n + 1, Len(todo))

\* transcript_count is 0 when the query fails.
CountRows ==
  /\ pc[Ender] = "count"
  /\ LET n == IF Up THEN Len(rows) ELSE 0 IN
       /\ todo' = Missing(n)
       /\ Goto(Ender, IF Len(todo) <= n THEN "mark" ELSE "ensure")
  /\ Hurts(Ender)
  /\ UNCHANGED <<db, outages, redis, active, rows, call, ready, lock>>

Replay ==
  /\ pc[Ender] = "replay"
  /\ IF todo = <<>>
     THEN Goto(Ender, "mark") /\ UNCHANGED <<rows, todo, hurt>>
     ELSE /\ rows' = Inserted(Head(todo))
          /\ todo' = Tail(todo)
          /\ Hurts(Ender)
          /\ UNCHANGED pc
  /\ UNCHANGED <<db, outages, redis, active, call, ready, lock>>

MarkEnded ==
  /\ pc[Ender] = "mark"
  /\ active' \in {FALSE} \cup (IF "redis" \in Faults THEN {active} ELSE {})
  /\ Goto(Ender, "close")
  /\ UNCHANGED <<db, outages, redis, rows, call, ready, lock, todo, hurt>>

\* db.end_call updates the row if there is one and Supabase answers.
EndCall ==
  /\ pc[Ender] = "close"
  /\ call' = IF Up /\ call # "none" THEN "ended" ELSE call
  /\ Hurts(Ender)
  /\ Goto(Ender, "over")
  /\ UNCHANGED <<db, outages, redis, active, rows, ready, lock, todo>>

\* The job process exits and takes every task with it.
Exit ==
  /\ pc[Ender] = "over"
  /\ Goto(Ender, "exited")
  /\ UNCHANGED <<db, outages, redis, active, rows, call, ready, lock, todo, hurt>>

-----------------------------------------------------------------------------

Init ==
  /\ db = "up" /\ outages = 0
  /\ redis = <<>> /\ active = FALSE /\ rows = <<>> /\ call = "none"
  /\ ready = FALSE /\ lock = Free
  /\ pc = [a \in Actors |-> IF a = Starter THEN "first" ELSE "none"]
  /\ todo = <<>> /\ hurt = FALSE

EndStep ==
  \/ EnsureCall(Ender) \/ EnsureUpsert(Ender) \/ Flush \/ ReadBuffer
  \/ CountRows \/ Replay \/ MarkEnded \/ EndCall

Next ==
  \/ Outage \/ Recover
  \/ FirstUpsert \/ StartRedis \/ StartUpsert
  \/ \E i \in Turns : \/ Speak(i) \/ Push(i) \/ Insert(i)
                      \/ EnsureCall(i) \/ EnsureUpsert(i)
                      \/ UpdateContext(i) \/ Persisted(i)
  \/ Shutdown \/ EndStep \/ Exit

Spec == Init /\ [][Next]_vars

\* The shutdown callback is awaited and each of its queries has a timeout;
\* so has the upsert of whoever holds the lock.
FairSpec ==
  /\ Spec
  /\ WF_vars(EndStep)
  /\ \A i \in Turns : WF_vars(EnsureUpsert(i))

-----------------------------------------------------------------------------
(* Properties. *)

\* Every variable has the type the code gives it.
TypeOK ==
  /\ db \in {"up", "down"} /\ outages \in 0..MaxOutages
  /\ redis \in Seq(Turns) /\ rows \in Seq(Turns) /\ todo \in Seq(Turns)
  /\ active \in BOOLEAN /\ ready \in BOOLEAN /\ hurt \in BOOLEAN
  /\ call \in {"none", "live", "ended"} /\ lock \in Actors \cup {Free}
  /\ pc \in [Actors ->
       {"none", "first", "redis", "ensure", "upsert", "insert", "gather", "done", "flush",
        "lrange", "count", "replay", "mark", "close", "over", "exited"}]

\* A task that skips the upsert finds the row there: no transcript runs into
\* the foreign key because an earlier, failed upsert was taken for a success.
ReadyMeansRow == ready => call # "none"

\* When no query of end() failed, Supabase ends with at least as many rows
\* as lines reached Redis, however many inserts failed during the call.
AllCounted ==
  pc[Ender] = "over" /\ ~hurt => Len(rows) >= Len(redis)

\* While Supabase answers and no task is slow, no line is stored twice: the
\* replay never repeats what the turns' own tasks have inserted, even when
\* the call is longer than the list it replays from.
NoLineTwice ==
  outages = 0 /\ Faults = {} =>
    \A m, n \in DOMAIN rows : rows[m] = rows[n] => m = n

\* The record is well-formed; closed, it is complete in number, and where
\* nothing failed no line is there twice.
RecordInv == TypeOK /\ AllCounted /\ NoLineTwice

\* An ended call changes its status again only by an upsert of a task flush
\* gave up on, before the process exits, and then to live: neither a context
\* nor a line that comes late changes it, nor does anything of end() itself.
OnlyStragglersRevive ==
  [][call = "ended" /\ call' # "ended" =>
       /\ pc[Ender] = "over" /\ call' = "live"
       /\ \E t \in Tasks : pc[t] = "upsert" /\ pc'[t] # "upsert"]_vars

\* Violated with "slow" in Faults.  A call marked ended is never live again.
EndedStays == [][call = "ended" => call' = "ended"]_vars

\* end() comes to its end even if a turn's task hangs.
EndReturns == pc[Ender] = "flush" ~> pc[Ender] \in {"over", "exited"}

\* Every line Redis holds is in Supabase when end() met no failure: "the
\* structural guarantee that 'transcript not stored' can't recur".
NothingLost ==
  pc[Ender] = "over" /\ ~hurt =>
    \A k \in DOMAIN redis : \E m \in DOMAIN rows : rows[m] = redis[k]

\* When only the inserts of the last lines failed, end() stores these: "back-
\* fill the missing tail at end". A call longer than the list loses them, as
\* more rows are counted than lines are left to compare them with.
TailRestored ==
  [][pc[Ender] = "count" /\ pc'[Ender] = "mark" /\ Up
       => Len(redis) = 0 \/ \E m \in DOMAIN rows : rows[m] = redis[Len(redis)]]_vars
=============================================================================
