-------------------------- MODULE BackOfficeProofs --------------------------
(***************************************************************************)
(* The theorems about what is kept for later: the record of a call, the    *)
(* runtime configuration, the knowledge base, the semantic cache and the   *)
(* caller profiles; and about the watchdog.  Each component is proved of   *)
(* its own specification; the last section puts the recall of the back     *)
(* office together.                                                        *)
(***************************************************************************)
EXTENDS BackOfficeMC, FiniteSetTheorems, TLAPS

(* ---- The record of a call ---- *)

Steps == {"none", "first", "redis", "ensure", "upsert", "insert", "gather", "done", "flush",
          "lrange", "count", "replay", "mark", "close", "over", "exited"}

(* Where the shutdown callback is once flush has returned. *)
Flushed == {"lrange", "count", "ensure", "upsert", "replay", "mark", "close", "over", "exited"}

(* No task is slow: flush returns when all are done, and the entrypoint's  *)
(* first upsert comes before everything else.                              *)
TasksOver ==
  /\ pc[Starter] = "first" => pc[Ender] = "none"
  /\ pc[Starter] # "none"
  /\ pc[Ender] \in {"none", "flush"} \cup Flushed
  /\ pc[Ender] \in Flushed => \A t \in Tasks : pc[t] \in {"none", "done"}
  /\ call = "ended" => pc[Ender] \in {"over", "exited"}

(* What end() still has to store, as long as none of its queries failed. *)
ReplayAddsUp ==
  /\ pc[Ender] = "count" => todo = redis
  /\ ~hurt =>
       /\ pc[Ender] \in {"ensure", "upsert", "replay"} => Len(rows) + Len(todo) >= Len(redis)
       /\ pc[Ender] = "replay" => call # "none"
       /\ pc[Ender] \in {"mark", "close", "over"} => Len(rows) >= Len(redis)

TurnsAt(steps) == {i \in Turns : pc[i] \in steps}

Pushes == {"ensure", "upsert", "insert", "gather", "done"}

(* Past its own steps, whatever is gathered with it. *)
Stored == {"gather", "done"}

(* Where nothing fails, the rows are the turns whose line is stored, each  *)
(* once, the list holds no more lines than were pushed, and so end() finds *)
(* nothing to replay.                                                      *)
RowsAreTurns ==
  outages = 0 /\ Faults = {} =>
    /\ Up
    /\ \A i \in Turns : pc[i] = "insert" => call # "none"
    /\ \A m \in DOMAIN rows : pc[rows[m]] \in Stored
    /\ \A m, n \in DOMAIN rows : rows[m] = rows[n] => m = n
    /\ Len(rows) = Cardinality(TurnsAt(Stored))
    /\ Len(redis) <= Cardinality(TurnsAt(Pushes))
    /\ pc[Ender] \notin {"ensure", "upsert", "replay"}

\* The empty queue is a queue of turns.
LEMMA EmptyLine == <<>> \in Seq(Turns) /\ Len(<<>>) = 0 /\ DOMAIN <<>> = {}
<1>1. <<>> \in Seq(Turns)
  OBVIOUS
<1>2. Len(<<>>) = 0
  OBVIOUS
<1>3. DOMAIN <<>> = {}
  OBVIOUS
<1> QED
  BY <1>1, <1>2, <1>3

(* A task moves, the others stay. *)
LEMMA Moved ==
  ASSUME pc \in [Actors -> Steps], NEW a \in Actors, NEW s \in Steps, Goto(a, s)
  PROVE  /\ pc' \in [Actors -> Steps] /\ pc'[a] = s
         /\ \A b \in Actors : b # a => pc'[b] = pc[b]
BY DEF Goto

(* The lists: a push takes the place of the oldest line when the list is   *)
(* full, an insert adds one row if the Call row is there, a replay works   *)
(* on the end of the list.                                                 *)
LEMMA Lists ==
  ASSUME redis \in Seq(Turns), rows \in Seq(Turns), todo \in Seq(Turns), KeptLines \in Nat \ {0}
  PROVE  /\ \A i \in Turns : Pushed(i) \in Seq(Turns) /\ Len(Pushed(i)) <= Len(redis) + 1
         /\ \A i \in Turns : Inserted(i) \in Seq(Turns) /\ Len(Inserted(i)) >= Len(rows)
         /\ todo # <<>> => /\ Head(todo) \in Turns /\ Tail(todo) \in Seq(Turns)
                           /\ Len(Tail(todo)) = Len(todo) - 1
         /\ \A n \in Nat : /\ Missing(n) \in Seq(Turns)
                           /\ Len(todo) > n => Len(Missing(n)) = Len(todo) - n
<1>1. ASSUME NEW i \in Turns PROVE Pushed(i) \in Seq(Turns) /\ Len(Pushed(i)) <= Len(redis) + 1
  <2>1. CASE Len(redis) < KeptLines
    BY <2>1 DEF Pushed
  <2>2. CASE ~(Len(redis) < KeptLines)
    <3>1. Tail(redis) \in Seq(Turns) /\ Len(Tail(redis)) = Len(redis) - 1
      BY <2>2
    <3> QED
      BY <2>2, <3>1 DEF Pushed
  <2> QED
    BY <2>1, <2>2
<1>2. ASSUME NEW i \in Turns PROVE Inserted(i) \in Seq(Turns) /\ Len(Inserted(i)) >= Len(rows)
  BY DEF Inserted
<1>3. todo # <<>> => /\ Head(todo) \in Turns /\ Tail(todo) \in Seq(Turns)
                     /\ Len(Tail(todo)) = Len(todo) - 1
  OBVIOUS
<1>4. ASSUME NEW n \in Nat
      PROVE  /\ Missing(n) \in Seq(Turns)
             /\ Len(todo) > n => Len(Missing(n)) = Len(todo) - n
  BY DEF Missing
<1> QED
  BY <1>1, <1>2, <1>3, <1>4

\* Every step keeps the types of the record.
LEMMA RecordTypes == TypeOK /\ [Next]_vars => TypeOK'
<1> SUFFICES ASSUME TypeOK, [Next]_vars PROVE TypeOK'
  OBVIOUS
<1>0. /\ db \in {"up", "down"} /\ outages \in 0..MaxOutages
      /\ redis \in Seq(Turns) /\ rows \in Seq(Turns) /\ todo \in Seq(Turns)
      /\ active \in BOOLEAN /\ ready \in BOOLEAN /\ hurt \in BOOLEAN
      /\ call \in {"none", "live", "ended"} /\ lock \in Actors \cup {Free}
      /\ pc \in [Actors -> Steps]
  BY DEF TypeOK, Steps
<1>k. KeptLines \in Nat \ {0} /\ MaxOutages \in Nat
  BY RecordAssumption DEF RecordAssumption
<1>1. ASSUME db' \in {"up", "down"}, outages' \in 0..MaxOutages,
             redis' \in Seq(Turns), rows' \in Seq(Turns), todo' \in Seq(Turns),
             active' \in BOOLEAN, ready' \in BOOLEAN, hurt' \in BOOLEAN,
             call' \in {"none", "live", "ended"}, lock' \in Actors \cup {Free},
             pc' \in [Actors -> Steps]
      PROVE  TypeOK'
  BY <1>1 DEF TypeOK, Steps
<1>2. \A a \in Actors, s \in Steps : Goto(a, s) => pc' \in [Actors -> Steps]
  BY <1>0, Moved
<1>3. Starter \in Actors /\ Ender \in Actors /\ Turns \subseteq Actors
  BY DEF Actors, Tasks
<1>4. Touched \in {"none", "live", "ended"} /\ Revived \in {"none", "live", "ended"}
  BY <1>0 DEF Touched, Revived
<1>5. Up \in BOOLEAN
  BY DEF Up
<1>6. CASE Outage \/ Recover
  <2>1. outages' \in 0..MaxOutages
    BY <1>0, <1>k, <1>6 DEF Outage, Recover
  <2>2. db' \in {"up", "down"} /\ UNCHANGED <<redis, active, rows, call, ready, lock, pc, todo, hurt>>
    BY <1>6 DEF Outage, Recover
  <2> QED
    BY <1>0, <1>1, <2>1, <2>2
<1>7. CASE FirstUpsert \/ StartRedis \/ StartUpsert
  <2>1. ready' \in BOOLEAN /\ active' \in BOOLEAN
    BY <1>0, <1>5, <1>7 DEF FirstUpsert, StartRedis, StartUpsert
  <2>2. call' \in {"none", "live", "ended"}
    BY <1>0, <1>4, <1>7 DEF FirstUpsert, StartRedis, StartUpsert
  <2>3. pc' \in [Actors -> Steps]
    <3>1. Goto(Starter, "redis") \/ Goto(Starter, "upsert") \/ Goto(Starter, "done")
      BY <1>7 DEF FirstUpsert, StartRedis, StartUpsert
    <3> QED
      BY <1>2, <1>3, <3>1 DEF Steps
  <2>4. UNCHANGED <<db, outages, redis, rows, lock, todo, hurt>>
    BY <1>7 DEF FirstUpsert, StartRedis, StartUpsert
  <2> QED
    BY <1>0, <1>1, <2>1, <2>2, <2>3, <2>4
<1>8. ASSUME NEW i \in Turns, Speak(i) \/ Push(i) \/ Insert(i) \/ Persisted(i) PROVE TypeOK'
  <2>1. Goto(i, "redis") \/ Goto(i, "ensure") \/ Goto(i, "gather") \/ Goto(i, "done")
    BY <1>8 DEF Speak, Push, Insert, Persisted
  <2>2. pc' \in [Actors -> Steps]
    BY <1>2, <1>3, <2>1 DEF Steps
  <2>3. redis' \in {redis, Pushed(i)} /\ rows' \in {rows, Inserted(i)}
    BY <1>8 DEF Speak, Push, Insert, Persisted
  <2>4. UNCHANGED <<db, outages, active, call, ready, lock, todo, hurt>>
    BY <1>8 DEF Speak, Push, Insert, Persisted
  <2> QED
    BY <1>0, <1>1, <1>k, <2>2, <2>3, <2>4, Lists
<1>9. ASSUME NEW a \in Actors, EnsureCall(a) \/ EnsureUpsert(a) PROVE TypeOK'
  <2>1. Goto(a, "insert") \/ Goto(a, "replay") \/ Goto(a, "upsert")
    BY <1>9 DEF EnsureCall, EnsureUpsert, AfterEnsure
  <2>2. pc' \in [Actors -> Steps]
    BY <1>2, <2>1 DEF Steps
  <2>3. ready' \in BOOLEAN
    BY <1>0, <1>5, <1>9 DEF EnsureCall, EnsureUpsert
  <2>4. hurt' \in BOOLEAN
    BY <1>0, <1>9 DEF EnsureCall, EnsureUpsert, Hurts
  <2>5. call' \in {"none", "live", "ended"} /\ lock' \in Actors \cup {Free}
    BY <1>0, <1>4, <1>9 DEF EnsureCall, EnsureUpsert
  <2>6. UNCHANGED <<db, outages, redis, active, rows, todo>>
    BY <1>9 DEF EnsureCall, EnsureUpsert
  <2> QED
    BY <1>0, <1>1, <2>2, <2>3, <2>4, <2>5, <2>6
<1>10. ASSUME (\E i \in Turns : UpdateContext(i)) \/ Shutdown PROVE TypeOK'
  <2>1. pc' \in [Actors -> Steps]
    <3>1. UNCHANGED pc \/ Goto(Ender, "flush")
      BY <1>10 DEF UpdateContext, Shutdown
    <3> QED
      BY <1>0, <1>2, <1>3, <3>1 DEF Steps
  <2>2. call' = Touched /\ UNCHANGED <<db, outages, redis, active, rows, ready, lock, todo, hurt>>
    BY <1>10 DEF UpdateContext, Shutdown
  <2> QED
    BY <1>0, <1>1, <1>4, <2>1, <2>2
<1>11. CASE Flush \/ ReadBuffer \/ CountRows \/ Replay \/ MarkEnded \/ EndCall \/ Exit
  <2>1. \/ UNCHANGED pc
        \/ \E s \in {"lrange", "mark", "count", "ensure", "close", "over", "exited"} : Goto(Ender, s)
    BY <1>11 DEF Flush, ReadBuffer, CountRows, Replay, MarkEnded, EndCall, Exit
  <2>2. pc' \in [Actors -> Steps]
    BY <1>0, <1>2, <1>3, <2>1 DEF Steps
  <2>3. hurt' \in BOOLEAN
    BY <1>0, <1>11 DEF Flush, ReadBuffer, CountRows, Replay, MarkEnded, EndCall, Exit, Hurts
  <2>4. active' \in BOOLEAN
    BY <1>0, <1>11 DEF Flush, ReadBuffer, CountRows, Replay, MarkEnded, EndCall, Exit
  <2>5. call' \in {"none", "live", "ended"} /\ UNCHANGED <<db, outages, redis, ready, lock>>
    BY <1>0, <1>11 DEF Flush, ReadBuffer, CountRows, Replay, MarkEnded, EndCall, Exit
  <2>6. rows' \in Seq(Turns) /\ todo' \in Seq(Turns)
    <3>1. CASE CountRows
      <4>1. Len(rows) \in Nat /\ 0 \in Nat
        BY <1>0
      <4>2. \E n \in Nat : todo' = Missing(n)
        BY <3>1, <4>1 DEF CountRows
      <4> QED
        BY <1>0, <1>k, <3>1, <4>2, Lists DEF CountRows
    <3>2. CASE Replay
      BY <1>0, <1>k, <3>2, Lists DEF Replay
    <3>3. CASE Flush \/ ReadBuffer \/ MarkEnded \/ EndCall \/ Exit
      BY <1>0, <3>3 DEF Flush, ReadBuffer, MarkEnded, EndCall, Exit
    <3> QED
      BY <1>11, <3>1, <3>2, <3>3
  <2> QED
    BY <1>0, <1>1, <2>2, <2>3, <2>4, <2>5, <2>6
<1>12. CASE UNCHANGED vars
  BY <1>0, <1>1, <1>12 DEF vars
<1> QED
  BY <1>3, <1>6, <1>7, <1>8, <1>9, <1>10, <1>11, <1>12 DEF Next, EndStep

\* What the induction needs of the variables' types.
RowTypes ==
  /\ db \in {"up", "down"}
  /\ call \in {"none", "live", "ended"}
  /\ ready \in BOOLEAN

\* The call starts without a row and not ready.
LEMMA RowInit == ASSUME Init PROVE RowTypes /\ ReadyMeansRow
  BY DEF Init, RowTypes, ReadyMeansRow

\* No upsert, insert, outage or shutdown step takes the row away, and only
\* an upsert that succeeded sets the flag.
LEMMA RowStep ==
  ASSUME RowTypes, ReadyMeansRow, [Next]_vars
  PROVE  RowTypes' /\ ReadyMeansRow'
<1> USE DEF RowTypes, ReadyMeansRow
<1>1. CASE Outage \/ Recover
  BY <1>1 DEF Outage, Recover
<1>2. CASE FirstUpsert
  BY <1>2 DEF FirstUpsert, Revived, Up
<1>3. ASSUME UNCHANGED <<db, call, ready>> PROVE RowTypes' /\ ReadyMeansRow'
  BY <1>3
<1>4. ASSUME UNCHANGED <<db, ready>>, call' \in {Touched, Revived}
      PROVE  RowTypes' /\ ReadyMeansRow'
  BY <1>4 DEF Touched, Revived, Up
<1>5. CASE StartRedis \/ StartUpsert
  BY <1>3, <1>4, <1>5 DEF StartRedis, StartUpsert
<1>6. ASSUME NEW a \in Actors, EnsureCall(a) \/ EnsureUpsert(a)
      PROVE  RowTypes' /\ ReadyMeansRow'
  <2>1. CASE EnsureCall(a)
    BY <1>3, <2>1 DEF EnsureCall
  <2>2. CASE EnsureUpsert(a)
    <3>1. db' = db /\ call' = Revived /\ ready' = Up
      BY <2>2 DEF EnsureUpsert
    <3> QED
      BY <3>1 DEF Revived, Up
  <2> QED
    BY <1>6, <2>1, <2>2
<1>7. ASSUME NEW i \in Turns, Speak(i) \/ Push(i) \/ Insert(i) \/ Persisted(i)
      PROVE  RowTypes' /\ ReadyMeansRow'
  BY <1>3, <1>7 DEF Speak, Push, Insert, Persisted
<1>8. ASSUME (\E i \in Turns : UpdateContext(i)) \/ Shutdown PROVE RowTypes' /\ ReadyMeansRow'
  BY <1>4, <1>8 DEF UpdateContext, Shutdown
<1>9. CASE Flush \/ ReadBuffer \/ CountRows \/ Replay \/ MarkEnded \/ Exit
  BY <1>3, <1>9 DEF Flush, ReadBuffer, CountRows, Replay, MarkEnded, Exit
<1>10. CASE EndCall
  <2>1. db' = db /\ ready' = ready /\ call' = IF Up /\ call # "none" THEN "ended" ELSE call
    BY <1>10 DEF EndCall
  <2> QED
    BY <2>1
<1>11. CASE UNCHANGED vars
  BY <1>3, <1>11 DEF vars
<1> QED
  BY <1>1, <1>2, <1>5, <1>6, <1>7, <1>8, <1>9, <1>10, <1>11
     DEF Next, EndStep, Actors, Tasks

\* Whatever outages interrupt the first upserts, a task that skips the
\* upsert because of _call_ready finds the Call row there (ReadyMeansRow).
THEOREM ReadyCallsHaveARow == Spec => []ReadyMeansRow
<1>1. Init => RowTypes /\ ReadyMeansRow
  BY RowInit
<1>2. RowTypes /\ ReadyMeansRow /\ [Next]_vars => (RowTypes /\ ReadyMeansRow)'
  BY RowStep
<1> QED
  BY <1>1, <1>2, PTL DEF Spec

(* What the three actors' steps do to their own places. *)
LEMMA TasksStep ==
  ASSUME "slow" \notin Faults, TypeOK, TasksOver, [Next]_vars
  PROVE  TasksOver'
<1>0. pc \in [Actors -> Steps]
  BY DEF TypeOK, Steps
<1>a. /\ Starter \in Actors /\ Ender \in Actors /\ Turns \subseteq Actors
      /\ Starter \in Tasks /\ Turns \subseteq Tasks /\ Ender \notin Tasks /\ Starter \notin Turns
      /\ Ender # Starter
  BY RecordAssumption DEF Actors, Tasks, RecordAssumption
<1> USE DEF TasksOver
<1>1. ASSUME NEW s \in {"flush"} \cup Flushed, pc[Ender] # s,
             Goto(Ender, s), pc[Ender] \in {"none", "flush"} \cup Flushed, pc[Starter] # "first",
             s \in Flushed => pc[Ender] \in Flushed \/ \A t \in Tasks : pc[t] \in {"none", "done"},
             call' = "ended" => s \in {"over", "exited"}
      PROVE  TasksOver'
  <2>1. s \in Steps
    BY DEF Steps, Flushed
  <2>2. pc'[Ender] = s /\ \A b \in Tasks : pc'[b] = pc[b]
    BY <1>0, <1>1, <1>a, <2>1, Moved DEF Actors
  <2> QED
    BY <1>1, <1>a, <2>2 DEF Flushed
<1>2. ASSUME NEW t \in Tasks, NEW s \in Steps \ {"first", "none"}, Goto(t, s),
             pc[Ender] \notin Flushed, t # Starter => pc[Starter] # "first" \/ pc[Ender] = "none",
             call' # "ended"
      PROVE  TasksOver'
  <2>1. pc'[t] = s /\ \A b \in Actors : b # t => pc'[b] = pc[b]
    BY <1>0, <1>2, <1>a, Moved DEF Actors
  <2> QED
    BY <1>2, <1>a, <2>1
<1>3. pc[Ender] \notin Flushed => call # "ended" /\ Touched # "ended" /\ Revived # "ended"
  BY DEF Touched, Revived, Flushed
<1>4. CASE Outage \/ Recover \/ UNCHANGED vars
  BY <1>4 DEF Outage, Recover, vars
<1>5. CASE FirstUpsert \/ StartRedis \/ StartUpsert
  <2>1. pc[Starter] \in {"first", "redis", "upsert"}
    BY <1>5 DEF FirstUpsert, StartRedis, StartUpsert
  <2>2. pc[Ender] \notin Flushed
    BY <1>a, <2>1
  <2>3. \E s \in {"redis", "upsert", "done"} : Goto(Starter, s)
    BY <1>5 DEF FirstUpsert, StartRedis, StartUpsert
  <2>4. call' # "ended"
    BY <1>3, <1>5, <2>2 DEF FirstUpsert, StartRedis, StartUpsert
  <2> QED
    BY <1>2, <1>a, <2>2, <2>3, <2>4 DEF Steps
<1>6. ASSUME NEW i \in Turns,
             Speak(i) \/ Push(i) \/ Insert(i) \/ Persisted(i) \/ EnsureCall(i) \/ EnsureUpsert(i)
      PROVE  TasksOver'
  <2>1. i # Ender
    BY <1>a
  <2>2. pc[Ender] \notin Flushed
    <3>1. pc[i] \in {"redis", "ensure", "upsert", "insert", "gather"} \/ pc[Ender] = "none"
      BY <1>6 DEF Speak, Push, Insert, Persisted, EnsureCall, EnsureUpsert
    <3> QED
      BY <1>a, <3>1 DEF Flushed
  <2>3. \E s \in {"redis", "ensure", "gather", "done", "insert", "upsert"} : Goto(i, s)
    BY <1>6, <2>1 DEF Speak, Push, Insert, Persisted, EnsureCall, EnsureUpsert, AfterEnsure
  <2>4. call' \in {call, Revived}
    BY <1>6 DEF Speak, Push, Insert, Persisted, EnsureCall, EnsureUpsert
  <2> QED
    BY <1>2, <1>3, <1>a, <2>2, <2>3, <2>4 DEF Steps
<1>7. ASSUME NEW i \in Turns, UpdateContext(i) PROVE TasksOver'
  <2>1. pc[Ender] \notin Flushed
    BY <1>7, <1>a DEF UpdateContext
  <2>2. UNCHANGED pc /\ call' = Touched
    BY <1>7 DEF UpdateContext
  <2> QED
    BY <1>3, <2>1, <2>2
<1>8. CASE Shutdown
  <2>1. pc[Ender] = "none" /\ pc[Starter] # "first" /\ call' = Touched /\ Goto(Ender, "flush")
    BY <1>8 DEF Shutdown
  <2> QED
    BY <1>1, <1>3, <2>1 DEF Flushed
<1>9. CASE Flush
  <2>1. /\ pc[Ender] = "flush" /\ Goto(Ender, "lrange") /\ UNCHANGED call
        /\ \A t \in Tasks : pc[t] \in {"none", "done"}
    BY <1>9 DEF Flush
  <2> QED
    BY <1>1, <1>3, <1>a, <2>1 DEF Flushed
<1>10. CASE EnsureCall(Ender) \/ EnsureUpsert(Ender)
  <2>1. /\ pc[Ender] \in {"ensure", "upsert"} /\ call' \in {call, Revived}
        /\ \E s \in {"upsert", "replay"} : s # pc[Ender] /\ Goto(Ender, s)
    BY <1>10 DEF EnsureCall, EnsureUpsert, AfterEnsure
  <2>2. call' # "ended"
    BY <2>1 DEF Revived
  <2>3. pc[Starter] # "first"
    BY <2>1
  <2> QED
    BY <1>1, <2>1, <2>2, <2>3 DEF Flushed
<1>11. CASE ReadBuffer \/ CountRows \/ MarkEnded
  <2>1. /\ pc[Ender] \in {"lrange", "count", "mark"} /\ UNCHANGED call
        /\ \E s \in {"mark", "count", "ensure", "close"} : s # pc[Ender] /\ Goto(Ender, s)
    BY <1>11 DEF ReadBuffer, CountRows, MarkEnded
  <2>2. pc[Starter] # "first"
    BY <2>1
  <2> QED
    BY <1>1, <2>1, <2>2 DEF Flushed
<1>12. CASE Replay
  <2>1. pc[Ender] = "replay" /\ UNCHANGED call /\ (UNCHANGED pc \/ Goto(Ender, "mark"))
    BY <1>12 DEF Replay
  <2>2. CASE UNCHANGED pc
    BY <2>1, <2>2
  <2>3. CASE Goto(Ender, "mark")
    BY <1>1, <2>1, <2>3 DEF Flushed
  <2> QED
    BY <2>1, <2>2, <2>3
<1>13. CASE EndCall \/ Exit
  <2>1. \/ pc[Ender] = "close" /\ Goto(Ender, "over")
        \/ pc[Ender] = "over" /\ Goto(Ender, "exited")
    BY <1>13 DEF EndCall, Exit
  <2> QED
    BY <1>1, <2>1 DEF Flushed
<1> QED
  BY <1>4, <1>5, <1>6, <1>7, <1>8, <1>9, <1>10, <1>11, <1>12, <1>13 DEF Next, EndStep

(* While tasks are not over, the shutdown callback has not read anything;  *)
(* after that they move no more.                                           *)
LEMMA OthersStep ==
  ASSUME "slow" \notin Faults, TypeOK, TasksOver, [Next]_vars
  PROVE  \/ pc'[Ender] = pc[Ender] /\ pc[Ender] \notin Flushed
         \/ Outage \/ Recover \/ UNCHANGED vars
         \/ Shutdown \/ EndStep \/ Exit
<1>0. pc \in [Actors -> Steps]
  BY DEF TypeOK, Steps
<1>a. /\ Starter \in Actors /\ Ender \in Actors /\ Turns \subseteq Actors
      /\ Starter \in Tasks /\ Turns \subseteq Tasks /\ Ender \notin Tasks
  BY RecordAssumption DEF Actors, Tasks, RecordAssumption
<1>1. ASSUME NEW t \in Tasks, NEW s \in Steps, Goto(t, s),
             pc[t] \in {"first", "redis", "ensure", "upsert", "insert", "gather"} \/ pc[Ender] = "none"
      PROVE  pc'[Ender] = pc[Ender] /\ pc[Ender] \notin Flushed
  <2>1. pc'[Ender] = pc[Ender]
    BY <1>0, <1>1, <1>a, Moved DEF Actors
  <2>2. pc[Ender] \notin Flushed
    BY <1>1 DEF TasksOver, Flushed
  <2> QED
    BY <2>1, <2>2
<1>2. CASE FirstUpsert \/ StartRedis \/ StartUpsert
  <2>1. /\ pc[Starter] \in {"first", "redis", "upsert"}
        /\ \E s \in {"redis", "upsert", "done"} : Goto(Starter, s)
    BY <1>2 DEF FirstUpsert, StartRedis, StartUpsert
  <2> QED
    BY <1>1, <1>a, <2>1 DEF Steps
<1>3. ASSUME NEW i \in Turns,
             Speak(i) \/ Push(i) \/ Insert(i) \/ Persisted(i) \/ EnsureCall(i) \/ EnsureUpsert(i)
      PROVE  pc'[Ender] = pc[Ender] /\ pc[Ender] \notin Flushed
  <2>1. pc[i] \in {"redis", "ensure", "upsert", "insert", "gather"} \/ pc[Ender] = "none"
    BY <1>3 DEF Speak, Push, Insert, Persisted, EnsureCall, EnsureUpsert
  <2>2. \E s \in {"redis", "ensure", "gather", "done", "insert", "upsert"} : Goto(i, s)
    BY <1>3, <1>a DEF Speak, Push, Insert, Persisted, EnsureCall, EnsureUpsert, AfterEnsure
  <2> QED
    BY <1>1, <1>a, <2>1, <2>2 DEF Steps
<1>4. ASSUME NEW i \in Turns, UpdateContext(i)
      PROVE  pc'[Ender] = pc[Ender] /\ pc[Ender] \notin Flushed
  BY <1>4, <1>a DEF UpdateContext, TasksOver
<1> QED
  BY <1>2, <1>3, <1>4 DEF Next

(* end() counts, replays and closes without losing count of the lines. *)
LEMMA ReplayStep ==
  ASSUME "slow" \notin Faults, TypeOK, ReadyMeansRow, TasksOver, ReplayAddsUp, [Next]_vars
  PROVE  ReplayAddsUp'
<1>0. /\ pc \in [Actors -> Steps] /\ Ender \in Actors
      /\ redis \in Seq(Turns) /\ rows \in Seq(Turns) /\ todo \in Seq(Turns) /\ hurt \in BOOLEAN
  BY DEF TypeOK, Steps, Actors
<1>k. KeptLines \in Nat \ {0}
  BY RecordAssumption DEF RecordAssumption
<1>h. \A a \in Actors, s \in Steps : Goto(a, s) => pc'[a] = s
  BY <1>0, Moved
<1>1. CASE pc'[Ender] = pc[Ender] /\ pc[Ender] \notin Flushed
  BY <1>1 DEF ReplayAddsUp, Flushed
<1>2. CASE Outage \/ Recover \/ UNCHANGED vars
  BY <1>2 DEF Outage, Recover, vars, ReplayAddsUp
<1>3. CASE Shutdown \/ Flush \/ Exit
  <2>1. \E s \in {"flush", "lrange", "exited"} : Goto(Ender, s)
    BY <1>3 DEF Shutdown, Flush, Exit
  <2>2. pc'[Ender] \in {"flush", "lrange", "exited"}
    BY <1>0, <1>h, <2>1 DEF Steps
  <2> QED
    BY <2>2 DEF ReplayAddsUp
<1>4. CASE EnsureCall(Ender)
  <2>1. /\ pc[Ender] = "ensure" /\ UNCHANGED <<rows, redis, todo, hurt, call>>
        /\ Goto(Ender, "upsert") \/ (ready /\ Goto(Ender, "replay"))
    BY <1>4 DEF EnsureCall, AfterEnsure
  <2>2. pc'[Ender] = "upsert" \/ (pc'[Ender] = "replay" /\ call # "none")
    BY <1>0, <1>h, <2>1 DEF Steps, ReadyMeansRow
  <2> QED
    BY <2>1, <2>2 DEF ReplayAddsUp
<1>5. CASE EnsureUpsert(Ender)
  <2>1. /\ pc[Ender] = "upsert" /\ UNCHANGED <<rows, redis, todo>>
        /\ Goto(Ender, "replay") /\ call' = Revived
    BY <1>5 DEF EnsureUpsert, AfterEnsure
  <2>2. ~hurt' => ~hurt /\ Up
    BY <1>5 DEF EnsureUpsert, Hurts
  <2>3. pc'[Ender] = "replay" /\ (~hurt' => call' # "none")
    BY <1>0, <1>h, <2>1, <2>2 DEF Steps, Revived
  <2> QED
    BY <2>1, <2>2, <2>3 DEF ReplayAddsUp
<1>6. CASE ReadBuffer
  <2>1. CASE hurt'
    <3>1. UNCHANGED redis /\ (Goto(Ender, "mark") \/ (todo' = redis /\ Goto(Ender, "count")))
      BY <1>6 DEF ReadBuffer
    <3>2. pc'[Ender] = "count" => todo' = redis'
      BY <1>0, <1>h, <3>1 DEF Steps
    <3> QED
      BY <2>1, <3>2 DEF ReplayAddsUp
  <2>2. CASE ~hurt'
    <3>1. /\ UNCHANGED <<redis, rows>> /\ todo' = redis
          /\ IF redis = <<>> THEN Goto(Ender, "mark") ELSE Goto(Ender, "count")
      BY <1>6, <2>2 DEF ReadBuffer
    <3>2. CASE redis = <<>>
      <4>1. pc'[Ender] = "mark" /\ Len(redis) = 0
        BY <1>0, <1>h, <3>1, <3>2, EmptyLine DEF Steps
      <4> QED
        BY <1>0, <3>1, <4>1 DEF ReplayAddsUp
    <3>3. CASE redis # <<>>
      <4>1. pc'[Ender] = "count"
        BY <1>0, <1>h, <3>1, <3>3 DEF Steps
      <4> QED
        BY <3>1, <4>1 DEF ReplayAddsUp
    <3> QED
      BY <3>2, <3>3
  <2> QED
    BY <2>1, <2>2
<1>7. CASE CountRows
  <2> DEFINE n == IF Up THEN Len(rows) ELSE 0
  <2>1. /\ pc[Ender] = "count" /\ UNCHANGED <<rows, redis, call>> /\ todo' = Missing(n)
        /\ Goto(Ender, IF Len(todo) <= n THEN "mark" ELSE "ensure")
    BY <1>7 DEF CountRows
  <2>2. todo = redis /\ n \in Nat /\ (~hurt' => n = Len(rows))
    <3>1. todo = redis
      BY <2>1 DEF ReplayAddsUp
    <3>2. n \in Nat
      BY <1>0
    <3>3. ~hurt' => Up
      BY <1>7 DEF CountRows, Hurts
    <3> QED
      BY <3>1, <3>2, <3>3
  <2> HIDE DEF n
  <2>3. CASE Len(todo) <= n
    <3>1. pc'[Ender] = "mark"
      BY <1>0, <1>h, <2>1, <2>3 DEF Steps
    <3> QED
      BY <1>0, <2>1, <2>2, <2>3, <3>1 DEF ReplayAddsUp
  <2>4. CASE ~(Len(todo) <= n)
    <3>1. pc'[Ender] = "ensure"
      BY <1>0, <1>h, <2>1, <2>4 DEF Steps
    <3>2. Len(todo') = Len(todo) - n
      <4>1. Len(todo) > n
        BY <1>0, <2>2, <2>4
      <4>2. Len(Missing(n)) = Len(todo) - n
        BY <1>0, <1>k, <2>2, <4>1, Lists
      <4> QED
        BY <2>1, <4>2
    <3> QED
      BY <1>0, <2>1, <2>2, <3>1, <3>2 DEF ReplayAddsUp
  <2> QED
    BY <2>3, <2>4
<1>8. CASE Replay
  <2>1. pc[Ender] = "replay" /\ UNCHANGED <<redis, call>>
    BY <1>8 DEF Replay
  <2>2. CASE todo = <<>>
    <3>1. Goto(Ender, "mark") /\ UNCHANGED <<rows, todo, hurt>> /\ Len(todo) = 0
      BY <1>8, <2>2, EmptyLine DEF Replay
    <3>2. pc'[Ender] = "mark"
      BY <1>0, <1>h, <3>1 DEF Steps
    <3>3. ~hurt => Len(rows) >= Len(redis)
      BY <1>0, <2>1, <3>1 DEF ReplayAddsUp
    <3> QED
      BY <2>1, <3>1, <3>2, <3>3 DEF ReplayAddsUp
  <2>3. CASE todo # <<>>
    <3>1. rows' = Inserted(Head(todo)) /\ todo' = Tail(todo) /\ UNCHANGED pc
      BY <1>8, <2>3 DEF Replay
    <3>2. ~hurt' => ~hurt /\ Up
      BY <1>8, <2>3 DEF Replay, Hurts
    <3>3. /\ Head(todo) \in Turns
          /\ Len(Tail(todo)) = Len(todo) - 1
      BY <1>0, <1>k, <2>3, Lists
    <3>4. CASE ~hurt'
      <4>1. rows' = Append(rows, Head(todo))
        BY <2>1, <3>1, <3>2, <3>4 DEF Inserted, ReplayAddsUp
      <4>2. Len(rows') = Len(rows) + 1
        BY <1>0, <3>3, <4>1
      <4> QED
        BY <1>0, <2>1, <3>1, <3>2, <3>3, <3>4, <4>2 DEF ReplayAddsUp
    <3>5. CASE hurt'
      BY <2>1, <3>1, <3>5 DEF ReplayAddsUp
    <3> QED
      BY <3>4, <3>5
  <2> QED
    BY <2>2, <2>3
<1>9. CASE MarkEnded
  <2>1. pc[Ender] = "mark" /\ Goto(Ender, "close") /\ UNCHANGED <<rows, redis, hurt>>
    BY <1>9 DEF MarkEnded
  <2>2. pc'[Ender] = "close"
    BY <1>0, <1>h, <2>1 DEF Steps
  <2> QED
    BY <2>1, <2>2 DEF ReplayAddsUp
<1>10. CASE EndCall
  <2>1. pc[Ender] = "close" /\ Goto(Ender, "over") /\ UNCHANGED <<rows, redis>>
    BY <1>10 DEF EndCall
  <2>2. pc'[Ender] = "over"
    BY <1>0, <1>h, <2>1 DEF Steps
  <2>3. ~hurt' => ~hurt
    BY <1>10 DEF EndCall, Hurts
  <2> QED
    BY <2>1, <2>2, <2>3 DEF ReplayAddsUp
<1> QED
  BY <1>1, <1>2, <1>3, <1>4, <1>5, <1>6, <1>7, <1>8, <1>9, <1>10, OthersStep DEF EndStep

(* The turns at some steps are counted up by one when a turn comes there,  *)
(* and as before when it does not leave them.                              *)
LEMMA Counted ==
  ASSUME pc \in [Actors -> Steps], NEW i \in Turns, NEW s \in Steps, Goto(i, s), NEW S
  PROVE  /\ Cardinality(TurnsAt(S)) \in Nat
         /\ pc[i] \notin S /\ s \in S => Cardinality(TurnsAt(S)') = Cardinality(TurnsAt(S)) + 1
         /\ (pc[i] \notin S /\ s \notin S) \/ (pc[i] \in S /\ s \in S) => TurnsAt(S)' = TurnsAt(S)
<1>0. Turns \subseteq Actors
  BY DEF Actors, Tasks
<1>1. IsFiniteSet(Turns)
  <2>1. 1 \in Int /\ NumTurns \in Int
    BY RecordAssumption DEF RecordAssumption
  <2> QED
    BY <2>1, FS_Interval DEF Turns
<1>2. IsFiniteSet(TurnsAt(S))
  BY <1>1, FS_Subset DEF TurnsAt
<1>3. pc'[i] = s /\ \A j \in Turns : j # i => pc'[j] = pc[j]
  BY <1>0, Moved
<1>4. Cardinality(TurnsAt(S)) \in Nat
  BY <1>2, FS_CardinalityType
<1>5. ASSUME pc[i] \notin S, s \in S PROVE Cardinality(TurnsAt(S)') = Cardinality(TurnsAt(S)) + 1
  <2>1. TurnsAt(S)' = TurnsAt(S) \cup {i} /\ i \notin TurnsAt(S)
    BY <1>3, <1>5 DEF TurnsAt
  <2> QED
    BY <1>2, <2>1, FS_AddElement
<1>6. ASSUME (pc[i] \notin S /\ s \notin S) \/ (pc[i] \in S /\ s \in S) PROVE TurnsAt(S)' = TurnsAt(S)
  BY <1>3, <1>6 DEF TurnsAt
<1> QED
  BY <1>4, <1>5, <1>6

\* Without an outage every step keeps the rows what the caller and the agent said.
LEMMA RowsStep ==
  ASSUME "slow" \notin Faults, TypeOK, ReadyMeansRow, TasksOver, ReplayAddsUp, RowsAreTurns,
         [Next]_vars
  PROVE  RowsAreTurns'
<1> SUFFICES ASSUME outages' = 0, Faults = {} PROVE RowsAreTurns'
  BY DEF RowsAreTurns
<1>0. /\ pc \in [Actors -> Steps] /\ Ender \in Actors
      /\ redis \in Seq(Turns) /\ rows \in Seq(Turns) /\ todo \in Seq(Turns)
  BY DEF TypeOK, Steps, Actors
<1>a. Starter \in Actors /\ Turns \subseteq Actors /\ Ender \notin Turns /\ Starter \notin Turns
  BY RecordAssumption DEF Actors, Tasks, RecordAssumption
<1>k. KeptLines \in Nat \ {0} /\ outages \in Nat
  BY RecordAssumption DEF RecordAssumption, TypeOK
<1>1. outages = 0
  <2>1. outages' = outages \/ outages' = outages + 1
    BY DEF Next, EndStep, vars, Outage, Recover, FirstUpsert, StartRedis, StartUpsert, Speak,
           Push, Insert, Persisted, EnsureCall, EnsureUpsert, UpdateContext, Shutdown, Flush, ReadBuffer,
           CountRows, Replay, MarkEnded, EndCall, Exit
  <2> QED
    BY <1>k, <2>1
<1>2. /\ Up
      /\ \A i \in Turns : pc[i] = "insert" => call # "none"
      /\ \A m \in DOMAIN rows : pc[rows[m]] \in Stored
      /\ \A m, n \in DOMAIN rows : rows[m] = rows[n] => m = n
      /\ Len(rows) = Cardinality(TurnsAt(Stored))
      /\ Len(redis) <= Cardinality(TurnsAt(Pushes))
      /\ pc[Ender] \notin {"ensure", "upsert", "replay"}
  BY <1>1 DEF RowsAreTurns
<1>3. ASSUME Up', \A i \in Turns : pc'[i] = "insert" => call' # "none",
             \A m \in DOMAIN rows' : pc'[rows'[m]] \in Stored,
             \A m, n \in DOMAIN rows' : rows'[m] = rows'[n] => m = n,
             Len(rows') = Cardinality(TurnsAt(Stored)'),
             Len(redis') <= Cardinality(TurnsAt(Pushes)'),
             pc'[Ender] \notin {"ensure", "upsert", "replay"}
      PROVE  RowsAreTurns'
  BY <1>3 DEF RowsAreTurns
<1>4. ASSUME UNCHANGED <<db, rows, redis>>, \A i \in Turns : pc'[i] = pc[i],
             call' \in {call, Touched, Revived, "ended"},
             pc'[Ender] \notin {"ensure", "upsert", "replay"}
      PROVE  RowsAreTurns'
  <2>1. \A S : TurnsAt(S)' = TurnsAt(S)
    BY <1>4 DEF TurnsAt
  <2>2. call # "none" => call' # "none"
    BY <1>4 DEF Touched, Revived
  <2>3. \A m \in DOMAIN rows : rows[m] \in Turns
    BY <1>0
  <2>4. TurnsAt(Stored)' = TurnsAt(Stored) /\ TurnsAt(Pushes)' = TurnsAt(Pushes)
    BY <2>1
  <2> QED
    BY <1>2, <1>3, <1>4, <2>2, <2>3, <2>4 DEF Up
<1>5. CASE Outage \/ Recover
  BY <1>1, <1>2, <1>5 DEF Outage, Recover, Up
<1>6. ASSUME NEW t \in {Starter, Ender}, NEW s \in Steps, Goto(t, s),
             UNCHANGED <<db, rows, redis>>, call' \in {call, Touched, Revived, "ended"},
             t = Starter \/ s \notin {"ensure", "upsert", "replay"}
      PROVE  RowsAreTurns'
  <2>1. t \in Actors /\ t \notin Turns
    BY <1>0, <1>a
  <2>2. \A i \in Turns : pc'[i] = pc[i]
    BY <1>0, <1>6, <1>a, <2>1, Moved
  <2>3. pc'[Ender] \notin {"ensure", "upsert", "replay"}
    <3>1. CASE t = Ender
      BY <1>0, <1>6, <3>1, Moved, RecordAssumption DEF RecordAssumption, Tasks
    <3>2. CASE t # Ender
      BY <1>0, <1>2, <1>6, <2>1, <3>2, Moved
    <3> QED
      BY <3>1, <3>2
  <2> QED
    BY <1>4, <1>6, <2>2, <2>3
<1>7. CASE FirstUpsert \/ StartRedis \/ StartUpsert
  <2>1. /\ UNCHANGED <<db, rows, redis>> /\ call' \in {call, Revived}
        /\ \E s \in {"redis", "upsert", "done"} : Goto(Starter, s)
    BY <1>7 DEF FirstUpsert, StartRedis, StartUpsert
  <2> QED
    BY <1>6, <2>1 DEF Steps
<1>8. CASE Shutdown \/ Flush \/ ReadBuffer \/ MarkEnded \/ EndCall \/ Exit
  <2>1. \E s \in {"flush", "lrange", "count", "mark", "close", "over", "exited"} : Goto(Ender, s)
    BY <1>8 DEF Shutdown, Flush, ReadBuffer, MarkEnded, EndCall, Exit
  <2>2. UNCHANGED <<db, rows, redis>> /\ call' \in {call, Touched, "ended"}
    BY <1>8 DEF Shutdown, Flush, ReadBuffer, MarkEnded, EndCall, Exit
  <2> QED
    BY <1>6, <2>1, <2>2 DEF Steps
<1>9. ASSUME NEW i \in Turns, UpdateContext(i) PROVE RowsAreTurns'
  BY <1>2, <1>4, <1>9 DEF UpdateContext
<1>10. CASE EnsureCall(Ender) \/ EnsureUpsert(Ender) \/ Replay
  BY <1>2, <1>10 DEF EnsureCall, EnsureUpsert, Replay
<1>11. CASE CountRows
  <2>1. pc[Ender] = "count" /\ UNCHANGED <<db, rows, redis, call>>
    BY <1>11 DEF CountRows
  <2>2. TurnsAt(Pushes) = TurnsAt(Stored)
    <3>1. \A i \in Turns : pc[i] \in {"none", "done"}
      BY <2>1 DEF TasksOver, Flushed, Tasks
    <3> QED
      BY <3>1 DEF TurnsAt, Pushes, Stored
  <2>3. Len(todo) <= Len(rows)
    BY <1>0, <1>2, <2>1, <2>2 DEF ReplayAddsUp
  <2>4. Goto(Ender, "mark")
    BY <1>2, <1>11, <2>3 DEF CountRows
  <2> QED
    BY <1>6, <2>1, <2>4 DEF Steps
<1>12. ASSUME NEW i \in Turns, NEW s \in Steps, Goto(i, s), UNCHANGED <<db, rows>>,
              pc[i] \notin Stored, s \notin Stored, call' \in {call, Revived}, s = "insert" => call' # "none",
              \/ redis' = redis /\ (pc[i] \in Pushes => s \in Pushes)
              \/ redis' = Pushed(i) /\ pc[i] \notin Pushes /\ s \in Pushes
       PROVE  RowsAreTurns'
  <2>1. pc'[i] = s /\ \A b \in Actors : b # i => pc'[b] = pc[b]
    BY <1>0, <1>12, <1>a, Moved
  <2>2. \A j \in Turns : pc'[j] = "insert" => call' # "none"
    BY <1>2, <1>12, <1>a, <2>1 DEF Revived
  <2>3. \A m \in DOMAIN rows : rows[m] # i /\ rows[m] \in Turns
    BY <1>0, <1>2, <1>12
  <2>4. \A m \in DOMAIN rows' : pc'[rows'[m]] \in Stored
    BY <1>2, <1>12, <1>a, <2>1, <2>3
  <2>5. TurnsAt(Stored)' = TurnsAt(Stored)
    BY <1>0, <1>12, Counted
  <2>6. Len(redis') <= Cardinality(TurnsAt(Pushes)')
    <3>1. /\ Cardinality(TurnsAt(Pushes)) \in Nat /\ Len(redis) <= Cardinality(TurnsAt(Pushes))
          /\ Len(redis) \in Nat /\ Len(Pushed(i)) \in Nat /\ Len(Pushed(i)) <= Len(redis) + 1
      <4>1. Pushed(i) \in Seq(Turns) /\ Len(Pushed(i)) <= Len(redis) + 1
        BY <1>0, <1>k, Lists
      <4>2. Cardinality(TurnsAt(Pushes)) \in Nat
        BY <1>0, <1>12, Counted
      <4> QED
        BY <1>0, <1>2, <4>1, <4>2
    <3>2. CASE pc[i] \notin Pushes /\ s \in Pushes
      <4>1. Cardinality(TurnsAt(Pushes)') = Cardinality(TurnsAt(Pushes)) + 1
        BY <1>0, <1>12, <3>2, Counted
      <4> QED
        BY <1>12, <3>1, <4>1
    <3>3. CASE ~(pc[i] \notin Pushes /\ s \in Pushes)
      <4>1. TurnsAt(Pushes)' = TurnsAt(Pushes)
        BY <1>0, <1>12, <3>3, Counted
      <4>2. redis' = redis
        BY <1>12, <3>3
      <4> QED
        BY <3>1, <4>1, <4>2
    <3> QED
      BY <3>2, <3>3
  <2>7. Up' /\ pc'[Ender] \notin {"ensure", "upsert", "replay"}
    BY <1>0, <1>2, <1>12, <1>a, <2>1 DEF Up
  <2> QED
    BY <1>2, <1>3, <1>12, <2>2, <2>4, <2>5, <2>6, <2>7
<1>13. ASSUME NEW i \in Turns, Speak(i) \/ Push(i) \/ EnsureCall(i) \/ EnsureUpsert(i)
       PROVE  RowsAreTurns'
  <2>1. i # Ender
    BY <1>a
  <2>2. CASE Speak(i)
    BY <1>12, <2>2 DEF Speak, Steps, Stored, Pushes
  <2>3. CASE Push(i)
    BY <1>12, <2>3 DEF Push, Steps, Stored, Pushes
  <2>4. CASE EnsureCall(i)
    <3>1. /\ pc[i] = "ensure" /\ UNCHANGED <<db, redis, rows, call>>
          /\ (ready /\ Goto(i, "insert")) \/ Goto(i, "upsert")
      BY <2>1, <2>4 DEF EnsureCall, AfterEnsure
    <3>2. ready => call # "none"
      BY DEF ReadyMeansRow
    <3> QED
      BY <1>12, <3>1, <3>2 DEF Steps, Stored, Pushes
  <2>5. CASE EnsureUpsert(i)
    <3>1. /\ pc[i] = "upsert" /\ UNCHANGED <<db, redis, rows>> /\ call' = Revived
          /\ Goto(i, "insert")
      BY <2>1, <2>5 DEF EnsureUpsert, AfterEnsure
    <3>2. call' # "none"
      BY <1>2, <3>1 DEF Revived
    <3> QED
      BY <1>12, <3>1, <3>2 DEF Steps, Stored, Pushes
  <2> QED
    BY <1>13, <2>2, <2>3, <2>4, <2>5
<1>14. ASSUME NEW i \in Turns, Insert(i) PROVE RowsAreTurns'
  <2>1. pc[i] = "insert" /\ Goto(i, "gather") /\ UNCHANGED <<db, redis, call>> /\ rows' = Append(rows, i)
    BY <1>2, <1>14 DEF Insert, Inserted
  <2>2. pc'[i] = "gather" /\ \A b \in Actors : b # i => pc'[b] = pc[b]
    BY <1>0, <1>a, <2>1, Moved DEF Steps
  <2>3. \A m \in DOMAIN rows : rows[m] # i /\ rows[m] \in Turns
    BY <1>0, <1>2, <2>1 DEF Stored
  <2>4. /\ Len(rows') = Len(rows) + 1 /\ DOMAIN rows' = 1..(Len(rows) + 1)
        /\ DOMAIN rows = 1..Len(rows) /\ Len(rows) \in Nat
        /\ rows'[Len(rows) + 1] = i /\ \A m \in DOMAIN rows : rows'[m] = rows[m]
    BY <1>0, <2>1
  <2>5. \A m \in DOMAIN rows' : m \in DOMAIN rows \/ m = Len(rows) + 1
    BY <2>4
  <2>6. \A m \in DOMAIN rows' : pc'[rows'[m]] \in Stored
    BY <1>2, <1>a, <2>2, <2>3, <2>4, <2>5 DEF Stored
  <2>7. \A m, n \in DOMAIN rows' : rows'[m] = rows'[n] => m = n
    BY <1>2, <2>3, <2>4, <2>5
  <2>8. Len(rows') = Cardinality(TurnsAt(Stored)')
    <3>1. Cardinality(TurnsAt(Stored)') = Cardinality(TurnsAt(Stored)) + 1
      <4>1. pc[i] \notin Stored /\ "gather" \in Stored /\ "gather" \in Steps
        BY <2>1 DEF Stored, Steps
      <4> QED
        BY <1>0, <2>1, <4>1, Counted
    <3> QED
      BY <1>2, <2>4, <3>1
  <2>9. TurnsAt(Pushes)' = TurnsAt(Pushes)
    <3>1. pc[i] \in Pushes /\ "gather" \in Pushes /\ "gather" \in Steps
      BY <2>1 DEF Steps, Pushes
    <3> QED
      BY <1>0, <2>1, <3>1, Counted
  <2>10. Up' /\ pc'[Ender] \notin {"ensure", "upsert", "replay"}
    BY <1>0, <1>2, <1>a, <2>1, <2>2 DEF Up
  <2>11. \A j \in Turns : pc'[j] = "insert" => call' # "none"
    BY <1>2, <1>a, <2>1, <2>2
  <2> QED
    BY <1>2, <1>3, <2>1, <2>6, <2>7, <2>8, <2>9, <2>10, <2>11
<1>15. ASSUME NEW i \in Turns, Persisted(i) PROVE RowsAreTurns'
  <2>1. pc[i] = "gather" /\ Goto(i, "done") /\ UNCHANGED <<db, redis, rows, call>>
    BY <1>15 DEF Persisted
  <2>2. pc'[i] = "done" /\ \A b \in Actors : b # i => pc'[b] = pc[b]
    BY <1>0, <1>a, <2>1, Moved DEF Steps
  <2>3. \A m \in DOMAIN rows' : pc'[rows'[m]] \in Stored
    <3>1. \A m \in DOMAIN rows : rows[m] \in Turns
      BY <1>0
    <3> QED
      BY <1>2, <1>a, <2>1, <2>2, <3>1 DEF Stored
  <2>4. TurnsAt(Stored)' = TurnsAt(Stored) /\ TurnsAt(Pushes)' = TurnsAt(Pushes)
    <3>1. /\ pc[i] \in Stored /\ "done" \in Stored /\ pc[i] \in Pushes /\ "done" \in Pushes
          /\ "done" \in Steps
      BY <2>1 DEF Stored, Pushes, Steps
    <3> QED
      BY <1>0, <2>1, <3>1, Counted
  <2>5. Up' /\ pc'[Ender] \notin {"ensure", "upsert", "replay"}
    BY <1>0, <1>2, <1>a, <2>1, <2>2 DEF Up
  <2>6. \A j \in Turns : pc'[j] = "insert" => call' # "none"
    BY <1>2, <1>a, <2>1, <2>2
  <2>7. \A m, n \in DOMAIN rows' : rows'[m] = rows'[n] => m = n
    BY <1>2, <2>1
  <2>8. Len(rows') = Cardinality(TurnsAt(Stored)') /\ Len(redis') <= Cardinality(TurnsAt(Pushes)')
    BY <1>2, <2>1, <2>4
  <2> QED
    BY <1>3, <2>3, <2>5, <2>6, <2>7, <2>8
<1>16. CASE UNCHANGED vars
  BY <1>2, <1>4, <1>16 DEF vars
<1> QED
  BY <1>5, <1>7, <1>8, <1>9, <1>10, <1>11, <1>13, <1>14, <1>15, <1>16 DEF Next, EndStep

RecordIInv == TypeOK /\ ReadyMeansRow /\ TasksOver /\ ReplayAddsUp /\ RowsAreTurns

\* The invariant of the record holds before any call.
LEMMA RecordInit == Init => RecordIInv
<1> SUFFICES ASSUME Init PROVE RecordIInv
  OBVIOUS
<1> USE DEF Init
<1>a. Starter \in Actors /\ Ender \in Actors /\ Ender # Starter /\ Turns \subseteq Actors
      /\ Starter \notin Turns
  BY RecordAssumption DEF Actors, Tasks, RecordAssumption
<1>1. TypeOK
  <2>1. active \in BOOLEAN /\ ready \in BOOLEAN /\ hurt \in BOOLEAN
    OBVIOUS
  <2>2. outages \in 0..MaxOutages
    BY RecordAssumption DEF RecordAssumption
  <2>3. redis \in Seq(Turns) /\ rows \in Seq(Turns) /\ todo \in Seq(Turns)
    BY EmptyLine
  <2>4. pc \in [Actors -> Steps]
    BY DEF Steps
  <2>5. db \in {"up", "down"} /\ call \in {"none", "live", "ended"} /\ lock \in Actors \cup {Free}
    OBVIOUS
  <2> QED
    BY <2>1, <2>2, <2>3, <2>4, <2>5 DEF TypeOK, Steps
<1>2. pc[Ender] = "none" /\ pc[Starter] = "first" /\ \A i \in Turns : pc[i] = "none"
  BY <1>a
<1>3. ReadyMeansRow /\ TasksOver /\ ReplayAddsUp
  BY <1>2 DEF ReadyMeansRow, TasksOver, ReplayAddsUp, Flushed
<1>4. RowsAreTurns
  <2>1. TurnsAt(Stored) = {} /\ TurnsAt(Pushes) = {}
    BY <1>2 DEF TurnsAt, Stored, Pushes
  <2>2. Cardinality(TurnsAt(Stored)) = 0 /\ Cardinality(TurnsAt(Pushes)) = 0
    BY <2>1, FS_EmptySet
  <2>3. Len(rows) = 0 /\ Len(redis) = 0 /\ DOMAIN rows = {}
    BY EmptyLine
  <2>4. Up
    BY DEF Up
  <2>5. \A i \in Turns : pc[i] # "insert"
    BY <1>2
  <2>6. /\ Len(rows) = Cardinality(TurnsAt(Stored))
        /\ Len(redis) <= Cardinality(TurnsAt(Pushes))
    BY <2>2, <2>3
  <2> HIDE DEF Init
  <2> QED
    BY <1>2, <2>3, <2>4, <2>5, <2>6 DEF RowsAreTurns
<1> QED
  BY <1>1, <1>3, <1>4 DEF RecordIInv

\* Every step of the record keeps it.
LEMMA RecordStep ==
  ASSUME "slow" \notin Faults PROVE RecordIInv /\ [Next]_vars => RecordIInv'
<1> SUFFICES ASSUME RecordIInv, [Next]_vars PROVE RecordIInv'
  OBVIOUS
<1>1. TypeOK'
  BY RecordTypes DEF RecordIInv
<1>2. ReadyMeansRow'
  BY RowStep DEF RecordIInv, RowTypes, TypeOK
<1>3. TasksOver' /\ ReplayAddsUp' /\ RowsAreTurns'
  BY TasksStep, ReplayStep, RowsStep DEF RecordIInv
<1> QED
  BY <1>1, <1>2, <1>3 DEF RecordIInv

(* The types hold of every call.  If no task outlives flush, a closed      *)
(* record has as many rows as the list has lines whatever failed before,   *)
(* and when nothing fails no line of a call is stored twice, however long. *)
THEOREM RecordAddsUp == "slow" \notin Faults => (Spec => []RecordInv)
<1> SUFFICES ASSUME "slow" \notin Faults PROVE Spec => []RecordInv
  OBVIOUS
<1>1. RecordIInv => RecordInv
  BY DEF RecordIInv, RecordInv, AllCounted, NoLineTwice, ReplayAddsUp, RowsAreTurns
<1> QED
  BY <1>1, RecordInit, RecordStep, PTL DEF Spec

(* Where the shutdown callback may be while the first upsert is under way, *)
(* and once the row says ended, whatever task flush has given up on.       *)
EndedLast ==
  /\ pc \in [Actors -> Steps]
  /\ pc[Starter] = "first" => pc[Ender] = "none"
  /\ call = "ended" => pc[Ender] \in {"over", "exited"}

\* Only end() writes ended, and nothing it does after that starts again.
LEMMA EndedLastStep == EndedLast /\ [Next]_vars => EndedLast'
<1> SUFFICES ASSUME EndedLast, [Next]_vars PROVE EndedLast'
  OBVIOUS
<1>a. /\ Starter \in Actors /\ Ender \in Actors /\ Turns \subseteq Actors /\ Ender \notin Turns
      /\ Starter \notin Turns /\ Ender # Starter
  BY RecordAssumption DEF Actors, Tasks, RecordAssumption
<1>0. pc \in [Actors -> Steps]
  BY DEF EndedLast
<1>1. ASSUME NEW a \in Actors \ {Ender}, NEW s \in Steps \ {"first"}, Goto(a, s), call' # "ended" \/ call' = call
      PROVE  EndedLast'
  <2>1. pc' \in [Actors -> Steps] /\ pc'[a] = s /\ \A b \in Actors : b # a => pc'[b] = pc[b]
    BY <1>0, <1>1, Moved
  <2> QED
    BY <1>1, <1>a, <2>1 DEF EndedLast
<1>2. ASSUME NEW s \in Steps, Goto(Ender, s), pc[Starter] # "first",
             call' = "ended" => s \in {"over", "exited"}
      PROVE  EndedLast'
  <2>1. pc' \in [Actors -> Steps] /\ pc'[Ender] = s /\ \A b \in Actors : b # Ender => pc'[b] = pc[b]
    BY <1>0, <1>2, <1>a, Moved
  <2> QED
    BY <1>2, <1>a, <2>1 DEF EndedLast
<1>3. ASSUME UNCHANGED pc, call' # "ended" \/ call' = call PROVE EndedLast'
  BY <1>3 DEF EndedLast
<1>4. (Touched = "ended" => call = "ended") /\ (Revived = "ended" => call = "ended")
  BY DEF Touched, Revived
<1>5. CASE FirstUpsert \/ StartRedis \/ StartUpsert
  <2>1. \E s \in {"redis", "upsert", "done"} : Goto(Starter, s)
    BY <1>5 DEF FirstUpsert, StartRedis, StartUpsert
  <2>2. call' # "ended" \/ call' = call
    BY <1>4, <1>5 DEF FirstUpsert, StartRedis, StartUpsert
  <2> QED
    BY <1>1, <1>a, <2>1, <2>2 DEF Steps
<1>6. ASSUME NEW i \in Turns,
             Speak(i) \/ Push(i) \/ Insert(i) \/ Persisted(i) \/ EnsureCall(i) \/ EnsureUpsert(i)
      PROVE  EndedLast'
  <2>1. \E s \in {"redis", "ensure", "gather", "done", "insert", "upsert"} : Goto(i, s)
    BY <1>6, <1>a DEF Speak, Push, Insert, Persisted, EnsureCall, EnsureUpsert, AfterEnsure
  <2>2. call' # "ended" \/ call' = call
    BY <1>4, <1>6 DEF Speak, Push, Insert, Persisted, EnsureCall, EnsureUpsert
  <2> QED
    BY <1>1, <1>a, <2>1, <2>2 DEF Steps
<1>7. ASSUME NEW i \in Turns, UpdateContext(i) PROVE EndedLast'
  <2>1. call' # "ended" \/ call' = call
    BY <1>4, <1>7 DEF UpdateContext
  <2> QED
    BY <1>3, <1>7, <2>1 DEF UpdateContext
<1>8. CASE Shutdown
  <2>1. pc[Ender] = "none" /\ pc[Starter] # "first" /\ call' = Touched /\ Goto(Ender, "flush")
    BY <1>8 DEF Shutdown
  <2>2. call' # "ended"
    BY <1>4, <2>1 DEF EndedLast
  <2> QED
    BY <1>2, <2>1, <2>2 DEF Steps
<1>9. CASE EnsureCall(Ender) \/ EnsureUpsert(Ender)
  <2>1. /\ pc[Ender] \in {"ensure", "upsert"} /\ call' \in {call, Revived}
        /\ (Goto(Ender, "upsert") \/ Goto(Ender, "replay"))
    BY <1>9 DEF EnsureCall, EnsureUpsert, AfterEnsure
  <2>2. call' # "ended" /\ pc[Starter] # "first"
    BY <1>4, <2>1 DEF EndedLast
  <2> QED
    BY <1>2, <2>1, <2>2 DEF Steps
<1>10. CASE Flush \/ ReadBuffer \/ CountRows \/ Replay \/ MarkEnded
  <2>1. /\ pc[Ender] \in {"flush", "lrange", "count", "replay", "mark"} /\ UNCHANGED call
        /\ (UNCHANGED pc \/ \E s \in {"lrange", "mark", "count", "ensure", "close"} : Goto(Ender, s))
    BY <1>10 DEF Flush, ReadBuffer, CountRows, Replay, MarkEnded
  <2>2. call' # "ended" /\ pc[Starter] # "first"
    BY <2>1 DEF EndedLast
  <2> QED
    BY <1>2, <1>3, <2>1, <2>2 DEF Steps
<1>11. CASE EndCall \/ Exit
  <2>1. \/ pc[Ender] = "close" /\ Goto(Ender, "over")
        \/ pc[Ender] = "over" /\ Goto(Ender, "exited")
    BY <1>11 DEF EndCall, Exit
  <2>2. pc[Starter] # "first"
    BY <2>1 DEF EndedLast
  <2> QED
    BY <1>2, <2>1, <2>2 DEF Steps
<1>12. CASE Outage \/ Recover \/ UNCHANGED vars
  BY <1>3, <1>12 DEF Outage, Recover, vars
<1> QED
  BY <1>5, <1>6, <1>7, <1>8, <1>9, <1>10, <1>11, <1>12 DEF Next, EndStep

(* Whether or not flush gave up on tasks: once the row says ended, only an *)
(* upsert that one of them has under way changes it, and before the exit.  *)
THEOREM EndedCallsStay == Spec => OnlyStragglersRevive
<1>1. Init => EndedLast
  <2> SUFFICES ASSUME Init PROVE EndedLast
    OBVIOUS
  <2>1. Ender \in Actors /\ Ender # Starter
    BY RecordAssumption DEF Actors, Tasks, RecordAssumption
  <2> QED
    BY <2>1 DEF Init, EndedLast, Steps
<1>2. EndedLast /\ [Next]_vars =>
        [call = "ended" /\ call' # "ended" =>
           /\ pc[Ender] = "over" /\ call' = "live"
           /\ \E t \in Tasks : pc[t] = "upsert" /\ pc'[t] # "upsert"]_vars
  <2> SUFFICES ASSUME EndedLast, Next, call = "ended", call' # "ended"
               PROVE  /\ pc[Ender] = "over" /\ call' = "live"
                      /\ \E t \in Tasks : pc[t] = "upsert" /\ pc'[t] # "upsert"
    OBVIOUS
  <2>0. pc[Ender] \in {"over", "exited"} /\ pc[Starter] # "first" /\ pc \in [Actors -> Steps]
    BY DEF EndedLast
  <2>a. /\ Starter \in Tasks /\ Turns \subseteq Tasks /\ Tasks \subseteq Actors
        /\ Starter \notin Turns /\ Ender \notin Tasks
    BY RecordAssumption DEF Actors, Tasks, RecordAssumption
  <2>1. \E t \in Tasks : /\ Running /\ pc[t] = "upsert" /\ call' = Revived
                         /\ (Goto(t, "done") \/ Goto(t, "insert"))
    <3>1. Touched = call
      BY DEF Touched
    <3>2. StartUpsert \/ \E i \in Turns : EnsureUpsert(i)
      BY <2>0, <3>1
         DEF Next, EndStep, Outage, Recover, FirstUpsert, StartRedis, Speak, Push, Insert, Persisted,
             EnsureCall, EnsureUpsert, UpdateContext, Shutdown, Flush, ReadBuffer, CountRows, Replay,
             MarkEnded, EndCall, Exit
    <3>3. CASE StartUpsert
      BY <2>a, <3>3 DEF StartUpsert
    <3>4. CASE \E i \in Turns : EnsureUpsert(i)
      BY <2>a, <3>4 DEF EnsureUpsert, AfterEnsure
    <3> QED
      BY <3>2, <3>3, <3>4
  <2>2. PICK t \in Tasks : /\ Running /\ pc[t] = "upsert" /\ call' = Revived
                          /\ (Goto(t, "done") \/ Goto(t, "insert"))
    BY <2>1
  <2>3. pc'[t] # "upsert"
    BY <2>0, <2>2, <2>a, Moved DEF Steps
  <2>4. pc[Ender] = "over" /\ call' = "live"
    BY <2>0, <2>2 DEF Running, Revived
  <2> QED
    BY <2>2, <2>3, <2>4
<1> QED
  BY <1>1, <1>2, EndedLastStep, PTL DEF Spec, OnlyStragglersRevive

-----------------------------------------------------------------------------
(* ---- The runtime configuration ---- *)

(* CachedIsSaved is not inductive: what a load carries towards the entry   *)
(* matters as much as the entry itself.                                    *)
NoOldLoad == ~exposed /\ NoSavePending => ~StaleLoad

LoadInv == ConfigTypeOK /\ CachedIsSaved /\ NoOldLoad

(* Nothing is cached and nothing is being loaded at first. *)
LEMMA LoadInit == ASSUME ConfigInit PROVE LoadInv
<1> USE DEF ConfigInit, Config, NoEntry
<1>1. ConfigTypeOK
  <2>1. MaxSaves \in Nat
    BY ConfigAssumption DEF ConfigAssumption
  <2>2. loader \in [Loaders -> [pc : {"idle", "select", "set"}, cfg : Config]]
    BY <2>1
  <2>3. exposed \in BOOLEAN /\ saver \in [Operators -> {"idle", "reload"}]
    OBVIOUS
  <2> QED
    BY <2>1, <2>2, <2>3 DEF ConfigTypeOK
<1>2. CachedIsSaved /\ NoOldLoad
  BY DEF CachedIsSaved, NoOldLoad, StaleLoad
<1> QED
  BY <1>1, <1>2 DEF LoadInv

(* Every step keeps the types. *)
LEMMA ConfigTypes ==
  ASSUME ConfigTypeOK, [ConfigNext]_configVars
  PROVE  ConfigTypeOK'
<1>0. MaxSaves \in Nat
  BY ConfigAssumption DEF ConfigAssumption
<1> USE <1>0 DEF ConfigTypeOK, Config, NoEntry, Fault, NoFault
<1>1. ASSUME NEW c \in Loaders, FromRedis(c) PROVE ConfigTypeOK'
  BY <1>1 DEF FromRedis, LoaderAt
<1>2. ASSUME NEW c \in Loaders, FromSupabase(c) PROVE ConfigTypeOK'
  <2>1. exposed' \in BOOLEAN
    BY <1>2 DEF FromSupabase
  <2>2. \E cfg \in Config : loader' = [loader EXCEPT ![c] = [pc |-> "set", cfg |-> cfg]]
    BY <1>2 DEF FromSupabase, LoaderAt
  <2>3. configFaults' \in Nat /\ UNCHANGED <<row, entry, saver>>
    BY <1>2 DEF FromSupabase
  <2> QED
    BY <2>1, <2>2, <2>3
<1>3. ASSUME NEW c \in Loaders, CacheToRedis(c) PROVE ConfigTypeOK'
  BY <1>3 DEF CacheToRedis, LoaderAt
<1>4. ASSUME NEW o \in Operators, Save(o) PROVE ConfigTypeOK'
  BY <1>4 DEF Save
<1>5. StaleLoad \in BOOLEAN
  BY DEF StaleLoad
<1>6. ASSUME NEW o \in Operators, Invalidate(o) PROVE ConfigTypeOK'
  <2>1. exposed' \in BOOLEAN
    BY <1>5, <1>6 DEF Invalidate
  <2> QED
    BY <1>6, <2>1 DEF Invalidate
<1>7. CASE ExpireEntry
  <2>1. exposed' \in BOOLEAN
    BY <1>5, <1>7 DEF ExpireEntry
  <2> QED
    BY <1>7, <2>1 DEF ExpireEntry
<1>8. CASE UNCHANGED configVars
  BY <1>8 DEF configVars
<1> QED
  BY <1>1, <1>2, <1>3, <1>4, <1>6, <1>7, <1>8 DEF ConfigNext, LoadStep

(* What is dropped from the cache cannot be old, and what is loaded while  *)
(* no save is under way is the row; a save or a failure that lets an older *)
(* configuration through is seen in saver or in exposed.                   *)
LEMMA LoadStepKeeps ==
  ASSUME LoadInv, [ConfigNext]_configVars
  PROVE  LoadInv'
<1> USE DEF LoadInv
<1>1. ConfigTypeOK /\ ConfigTypeOK'
  BY ConfigTypes
<1> DEFINE Cached == CachedIsSaved' /\ NoOldLoad'
<1> SUFFICES Cached
  BY <1>1
<1>2. ASSUME NEW c \in Loaders, FromRedis(c) PROVE Cached
  <2>1. UNCHANGED <<row, entry, saver, exposed>>
    BY <1>2 DEF FromRedis
  <2>2. \A d \in Loaders : loader'[d].pc = "set" => loader'[d] = loader[d]
    BY <1>1, <1>2 DEF FromRedis, LoaderAt, ConfigTypeOK
  <2> QED
    BY <2>1, <2>2 DEF CachedIsSaved, NoOldLoad, StaleLoad, NoSavePending, NoEntry
<1>3. ASSUME NEW c \in Loaders, FromSupabase(c) PROVE Cached
  <2>1. UNCHANGED <<row, entry, saver>> /\ (exposed' = exposed \/ exposed')
    BY <1>3 DEF FromSupabase
  <2>2. ~exposed' => \A d \in Loaders : loader'[d] = loader[d] \/ loader'[d].cfg = row
    BY <1>1, <1>3 DEF FromSupabase, LoaderAt, ConfigTypeOK
  <2> QED
    BY <2>1, <2>2 DEF CachedIsSaved, NoOldLoad, StaleLoad, NoSavePending, NoEntry
<1>4. ASSUME NEW c \in Loaders, CacheToRedis(c) PROVE Cached
  <2>1. UNCHANGED <<row, saver, exposed>> /\ loader[c].pc = "set"
    BY <1>4 DEF CacheToRedis, LoaderAt
  <2>2. \A d \in Loaders : loader'[d].pc = "set" => loader'[d] = loader[d]
    BY <1>1, <1>4 DEF CacheToRedis, LoaderAt, ConfigTypeOK
  <2>3. entry' \in {entry, loader[c].cfg}
    BY <1>4 DEF CacheToRedis
  <2> QED
    BY <2>1, <2>2, <2>3 DEF CachedIsSaved, NoOldLoad, StaleLoad, NoSavePending, NoEntry
<1>5. ASSUME NEW o \in Operators, Save(o) PROVE Cached
  <2>1. saver'[o] = "reload"
    BY <1>1, <1>5 DEF Save, ConfigTypeOK
  <2> QED
    BY <2>1 DEF CachedIsSaved, NoOldLoad, NoSavePending
<1>6. ASSUME UNCHANGED <<row, loader>>, (entry' = NoEntry /\ exposed' = StaleLoad) \/ exposed'
      PROVE  Cached
  BY <1>6 DEF CachedIsSaved, NoOldLoad, StaleLoad, NoEntry
<1>7. ASSUME NEW o \in Operators, Invalidate(o) PROVE Cached
  BY <1>6, <1>7 DEF Invalidate
<1>8. CASE ExpireEntry
  BY <1>6, <1>8 DEF ExpireEntry
<1>9. CASE UNCHANGED configVars
  BY <1>9 DEF configVars, CachedIsSaved, NoOldLoad, StaleLoad, NoSavePending, NoEntry
<1> QED
  BY <1>2, <1>3, <1>4, <1>5, <1>7, <1>8, <1>9 DEF ConfigNext, LoadStep

(* With no save under way the cached configuration is the saved one, but   *)
(* for a failed call or a load that was already carrying an older one when *)
(* the entry was dropped (load_runtime_config, invalidate_runtime_config). *)
THEOREM CacheFollowsSaves == ConfigSpec => []ConfigInv
<1>1. ConfigInit => LoadInv
  BY LoadInit
<1>2. LoadInv /\ [ConfigNext]_configVars => LoadInv'
  BY LoadStepKeeps
<1>3. LoadInv => ConfigInv
  BY DEF LoadInv, ConfigInv
<1> QED
  BY <1>1, <1>2, <1>3, PTL DEF ConfigSpec

-----------------------------------------------------------------------------
(* ---- The watchdog ---- *)

(* What the counters say of the rounds before: every strike and every soft *)
(* round found the worker down, and only a started worker is judged.       *)
CountersInv ==
  /\ strikes \in Nat /\ down \in Nat /\ softFor \in Nat
  /\ strikes < HardStrikes /\ strikes <= down /\ down <= HardStrikes
  /\ softFor # Idle =>
       softFor < SoftGrace /\ (softFor + 1 <= down \/ down = HardStrikes)
  /\ check # "sleep" => age = StartupGrace
  /\ check = "probe" => ~killed

(* The constants are positive. *)
LEMMA Graces ==
  /\ StartupGrace \in Nat /\ HardStrikes \in Nat /\ SoftGrace \in Nat
  /\ HardStrikes > 0 /\ SoftGrace > 0
  BY WatchdogAssumption DEF WatchdogAssumption

(* At first nothing has been counted. *)
LEMMA CountersInit == ASSUME WatchdogInit PROVE CountersInv
  BY Graces DEF WatchdogInit, CountersInv, Idle

(* A round counts in a counter or resets it. *)
LEMMA CountersStep ==
  ASSUME CountersInv, [WatchdogNext]_watchdogVars
  PROVE  CountersInv'
<1> USE Graces DEF CountersInv, Idle
<1>1. CASE Poll
  BY <1>1 DEF Poll, Spawn
<1>2. CASE Probe
  BY <1>2 DEF Probe, counters
<1>3. CASE Judge
  <2>1. check = "judge" /\ check' = "sleep"
    BY <1>3 DEF Judge
  <2>2. CASE Healthy
    BY <2>1, <2>2 DEF Healthy
  <2>3. CASE Restart
    BY <2>1, <2>3 DEF Restart, Spawn
  <2>4. CASE strikes + 1 < HardStrikes /\ strikes' = strikes + 1 /\ softFor' = Idle /\ DownAgain
    BY <2>1, <2>4 DEF DownAgain
  <2>5. CASE Waited < SoftGrace /\ strikes' = 0 /\ softFor' = Waited /\ DownAgain
    BY <2>1, <2>5 DEF DownAgain, Waited
  <2> QED
    BY <1>3, <2>2, <2>3, <2>4, <2>5 DEF Judge, JudgeHard, JudgeSoft, JudgeHealthy
<1>4. CASE WorkerStep
  BY <1>4 DEF WorkerStep
<1>5. CASE UNCHANGED watchdogVars
  BY <1>5 DEF watchdogVars
<1> QED
  BY <1>1, <1>2, <1>3, <1>4, <1>5 DEF WatchdogNext, Round

(* What a killing step found, if the soft grace is not shorter than the    *)
(* strikes: both counters are behind it.                                   *)
LEMMA KillFound ==
  ASSUME SoftGrace + 1 >= HardStrikes, CountersInv, WatchdogNext, killed'
  PROVE  down + 1 >= HardStrikes /\ marker = "failed" /\ age = StartupGrace
<1> USE Graces DEF CountersInv, Idle
<1>1. ~Poll /\ ~Probe /\ ~WorkerStep
  BY DEF Poll, Probe, WorkerStep, counters
<1>2. Judge
  BY <1>1 DEF WatchdogNext, Round
<1>3. age = StartupGrace
  BY <1>2 DEF Judge
<1>4. marker = "failed" /\ (strikes + 1 >= HardStrikes \/ Waited >= SoftGrace)
  BY <1>2 DEF Judge, JudgeHard, JudgeSoft, JudgeHealthy, Unregistered
<1> QED
  BY <1>3, <1>4 DEF Waited

(* The watchdog kills a worker only when the log has shown it unregistered *)
(* for HARD_STRIKES rounds on end, however hard and soft rounds mix: it    *)
(* takes a SOFT_UNREG_GRACE of at least HARD_STRIKES - 1 rounds.           *)
THEOREM HealthyIsNotKilled ==
  SoftGrace + 1 >= HardStrikes => (WatchdogSpec => KillsOnlyTheDown)
<1> SUFFICES ASSUME SoftGrace + 1 >= HardStrikes
             PROVE  WatchdogSpec => KillsOnlyTheDown
  OBVIOUS
<1>1. WatchdogInit => CountersInv
  BY CountersInit
<1>2. CountersInv /\ [WatchdogNext]_watchdogVars => CountersInv'
  BY CountersStep
<1>3. CountersInv /\ [WatchdogNext]_watchdogVars
        => [killed' => down >= HardStrikes - 1 /\ marker = "failed" /\ age = StartupGrace]_watchdogVars
  <2> SUFFICES ASSUME CountersInv, WatchdogNext, killed'
               PROVE  down >= HardStrikes - 1 /\ marker = "failed" /\ age = StartupGrace
    OBVIOUS
  <2>1. down \in Nat
    BY DEF CountersInv
  <2> QED
    BY <2>1, KillFound, Graces
<1> QED
  BY <1>1, <1>2, <1>3, PTL DEF WatchdogSpec, KillsOnlyTheDown

(* The logs on disk: the present child's first, each behind the log of the *)
(* child after it, and as many as there have been children.                *)
LogsIInv ==
  /\ WatchdogTypeOK
  /\ logs[0] = current
  /\ \A i \in 1..KeptLogs : logs[i] # 0 => logs[i - 1] = Following(logs[i])
  /\ \A i \in 0..KeptLogs : i < current => logs[i] # 0

(* The child after n has a number of its own. *)
LEMMA FollowingIs ==
  ASSUME NEW n \in 1..(KeptLogs + 2)
  PROVE  /\ Following(n) \in 1..(KeptLogs + 2)
         /\ Following(n) = 1 \/ Following(n) = n + 1
  BY WatchdogAssumption DEF Following

(* A spawn keeps the logs in order and makes room for the new one. *)
LEMMA SpawnKeepsLogs ==
  ASSUME LogsIInv, Spawn
  PROVE  /\ current' \in 1..(KeptLogs + 2) /\ logs' \in [0..KeptLogs -> 0..(KeptLogs + 2)]
         /\ logs'[0] = current'
         /\ \A i \in 1..KeptLogs : logs'[i] # 0 => logs'[i - 1] = Following(logs'[i])
         /\ \A i \in 0..KeptLogs : i < current' => logs'[i] # 0
<1>1. KeptLogs \in Nat /\ KeptLogs >= 1
  BY WatchdogAssumption
<1>2. current \in 1..(KeptLogs + 2) /\ logs \in [0..KeptLogs -> 0..(KeptLogs + 2)]
  BY DEF LogsIInv, WatchdogTypeOK
<1>3. current' = Following(current) /\ logs' = [Rotate(logs) EXCEPT ![0] = current']
  BY DEF Spawn
<1>4. /\ current' \in 1..(KeptLogs + 2) /\ current' \in 0..(KeptLogs + 2) /\ current' # 0
      /\ current' = 1 \/ current' = current + 1
  BY <1>1, <1>2, <1>3, FollowingIs
<1>5. \A i \in 1..KeptLogs : i # 0 /\ i \in 0..KeptLogs /\ i - 1 \in 0..KeptLogs
  BY <1>1
<1>6. logs'[0] = current' /\ \A i \in 1..KeptLogs : logs'[i] = logs[i - 1]
  BY <1>1, <1>3, <1>5 DEF Rotate
<1>7. logs' \in [0..KeptLogs -> 0..(KeptLogs + 2)]
  <2>1. Rotate(logs) \in [0..KeptLogs -> 0..(KeptLogs + 2)]
    BY <1>1, <1>2 DEF Rotate
  <2> QED
    BY <1>3, <1>4, <2>1
<1>8. ASSUME NEW i \in 1..KeptLogs, logs'[i] # 0 PROVE logs'[i - 1] = Following(logs'[i])
  <2>1. CASE i = 1
    BY <1>1, <1>3, <1>6, <2>1 DEF LogsIInv
  <2>2. CASE i # 1
    <3>1. i - 1 \in 1..KeptLogs
      BY <1>1, <2>2
    <3>2. logs'[i] = logs[i - 1] /\ logs'[i - 1] = logs[(i - 1) - 1]
      BY <1>6, <3>1
    <3> QED
      BY <1>8, <3>1, <3>2 DEF LogsIInv
  <2> QED
    BY <2>1, <2>2
<1>9. ASSUME NEW i \in 0..KeptLogs, i < current' PROVE logs'[i] # 0
  <2>1. CASE i = 0
    BY <1>4, <1>6, <2>1
  <2>2. CASE i # 0
    <3>1. i \in 1..KeptLogs /\ i - 1 \in 0..KeptLogs
      BY <1>1, <2>2
    <3>2. i - 1 < current
      BY <1>1, <1>2, <1>4, <1>9, <3>1
    <3> QED
      BY <1>6, <3>1, <3>2 DEF LogsIInv
  <2> QED
    BY <2>1, <2>2
<1> QED
  BY <1>4, <1>6, <1>7, <1>8, <1>9

(* At first there is one log. *)
LEMMA LogsInit == ASSUME WatchdogInit PROVE LogsIInv
<1>1. KeptLogs \in Nat /\ KeptLogs >= 1
  BY WatchdogAssumption
<1>3. WatchdogTypeOK
  <2>1. age \in 0..StartupGrace /\ strikes \in 0..(HardStrikes - 1)
    BY Graces DEF WatchdogInit
  <2>2. current \in 1..(KeptLogs + 2) /\ 1 \in 0..(KeptLogs + 2) /\ 0 \in 0..(KeptLogs + 2)
    BY <1>1 DEF WatchdogInit
  <2>3. logs \in [0..KeptLogs -> 0..(KeptLogs + 2)]
    BY <2>2 DEF WatchdogInit
  <2> QED
    BY <2>1, <2>2, <2>3 DEF WatchdogInit, WatchdogTypeOK
<1> QED
  BY <1>1, <1>3 DEF WatchdogInit, LogsIInv

(* Only a spawn touches the logs. *)
LEMMA LogsStep ==
  ASSUME LogsIInv, [WatchdogNext]_watchdogVars
  PROVE  LogsIInv'
<1> DEFINE Logs == /\ current' \in 1..(KeptLogs + 2) /\ logs' \in [0..KeptLogs -> 0..(KeptLogs + 2)]
                   /\ logs'[0] = current'
                   /\ \A i \in 1..KeptLogs : logs'[i] # 0 => logs'[i - 1] = Following(logs'[i])
                   /\ \A i \in 0..KeptLogs : i < current' => logs'[i] # 0
           Child == /\ alive' \in BOOLEAN /\ closed' \in BOOLEAN
                    /\ http' \in {"200", "503", "silent"} /\ marker' \in {"none", "registered", "failed"}
           Counts == /\ age' \in 0..StartupGrace /\ strikes' \in 0..(HardStrikes - 1)
                     /\ softFor' \in 0..(SoftGrace - 1) \cup {Idle}
<1>1. UNCHANGED <<current, logs>> => Logs
  BY DEF LogsIInv, WatchdogTypeOK
<1>2. UNCHANGED worker => Child
  BY DEF LogsIInv, WatchdogTypeOK, worker
<1>3. Spawn => Logs /\ Child /\ Counts
  <2> SUFFICES ASSUME Spawn PROVE Logs /\ Child /\ Counts
    OBVIOUS
  <2>1. Child
    BY DEF Spawn
  <2>2. Counts
    BY Graces DEF Spawn
  <2> QED
    BY <2>1, <2>2, SpawnKeepsLogs
<1>4. UNCHANGED <<age, strikes, softFor>> => Counts
  BY DEF LogsIInv, WatchdogTypeOK
<1>5. age \in 0..StartupGrace /\ strikes \in 0..(HardStrikes - 1)
      /\ softFor \in 0..(SoftGrace - 1) \cup {Idle}
  BY DEF LogsIInv, WatchdogTypeOK
<1> HIDE DEF Logs, Child
<1>6. hard \in BOOLEAN /\ killed \in BOOLEAN /\ check \in {"sleep", "probe", "judge"}
  BY DEF LogsIInv, WatchdogTypeOK
<1>7. Logs /\ Child /\ Counts
  <2>1. CASE Poll
    <3>1. CASE Spawn
      BY <1>3, <3>1
    <3>2. CASE age < StartupGrace /\ age' = age + 1 /\ strikes' = 0 /\ softFor' = Idle
               /\ UNCHANGED <<worker, current, logs>>
      BY <1>1, <1>2, <1>5, <3>2, Graces
    <3>3. CASE UNCHANGED <<worker, age, strikes, softFor, down, current, logs>>
      BY <1>1, <1>2, <1>4, <3>3
    <3> QED
      BY <2>1, <3>1, <3>2, <3>3 DEF Poll
  <2>2. CASE Probe
    BY <1>1, <1>2, <1>4, <2>2 DEF Probe, counters
  <2>3. CASE Judge
    <3>1. CASE Restart
      BY <1>3, <3>1 DEF Restart
    <3>2. CASE Healthy /\ UNCHANGED <<worker, age, current, logs>>
      BY <1>1, <1>2, <1>5, <3>2, Graces DEF Healthy
    <3>3. CASE strikes + 1 < HardStrikes /\ strikes' = strikes + 1 /\ softFor' = Idle
               /\ UNCHANGED <<worker, age, current, logs>>
      BY <1>1, <1>2, <1>5, <3>3, Graces
    <3>4. CASE Waited < SoftGrace /\ strikes' = 0 /\ softFor' = Waited
               /\ UNCHANGED <<worker, age, current, logs>>
      BY <1>1, <1>2, <1>5, <3>4, Graces DEF Waited, Idle
    <3> QED
      BY <2>3, <3>1, <3>2, <3>3, <3>4 DEF Judge, JudgeHard, JudgeSoft, JudgeHealthy
  <2>4. CASE WorkerStep
    <3>1. Child
      BY <2>4 DEF WorkerStep, Register, LoseConnection, HealthAnswer, InferenceDies, WorkerExits,
                  LogsIInv, WatchdogTypeOK, Child
    <3> QED
      BY <1>1, <1>4, <2>4, <3>1 DEF WorkerStep
  <2>5. CASE UNCHANGED watchdogVars
    BY <1>1, <1>2, <1>4, <2>5 DEF watchdogVars, worker
  <2> QED
    BY <2>1, <2>2, <2>3, <2>4, <2>5 DEF WatchdogNext, Round
<1>8. check' \in {"sleep", "probe", "judge"}
  BY <1>6 DEF WatchdogNext, Round, Poll, Probe, Judge, WorkerStep, watchdogVars
<1>9. hard' \in BOOLEAN
  <2>1. hard' = hard \/ hard' = (http = "503" \/ closed)
    BY DEF WatchdogNext, Round, Poll, Probe, Judge, WorkerStep, watchdogVars
  <2>2. (http = "503" \/ closed) \in BOOLEAN
    BY DEF LogsIInv, WatchdogTypeOK
  <2> QED
    BY <1>6, <2>1, <2>2
<1>10. killed' \in BOOLEAN
  BY <1>6 DEF WatchdogNext, Round, Poll, Probe, Judge, JudgeHard, JudgeSoft, JudgeHealthy, Restart,
              WorkerStep, counters, watchdogVars
<1> QED
  BY <1>7, <1>8, <1>9, <1>10 DEF LogsIInv, WatchdogTypeOK, Logs, Child

(* The counters keep their bounds and the logs their order, without a hole *)
(* or a log lost before KEPT others have come after it, for any number of  *)
(* logs that are kept and any graces (_rotate, spawn).                     *)
THEOREM LogsAreKept == WatchdogSpec => []WatchdogInv
<1>1. WatchdogInit => LogsIInv
  BY LogsInit
<1>2. LogsIInv /\ [WatchdogNext]_watchdogVars => LogsIInv'
  BY LogsStep
<1>3. LogsIInv => WatchdogInv
  <2> SUFFICES ASSUME LogsIInv PROVE LogsInOrder
    BY DEF LogsIInv, WatchdogInv
  <2>1. current > KeptLogs => \A i \in 0..KeptLogs : i < current
    BY WatchdogAssumption DEF LogsIInv, WatchdogTypeOK
  <2> QED
    BY <2>1 DEF LogsIInv, LogsInOrder
<1> QED
  BY <1>1, <1>2, <1>3, PTL DEF WatchdogSpec

-----------------------------------------------------------------------------
(* ---- The knowledge base ---- *)

Ingestion == {"new", "embed", "commit", "indexed", "fail", "over"}

(* An upload that is about to mark its document has written the vectors,   *)
(* and only a deletion that got through takes them away again; a late      *)
(* deletion has no upload beside it and purges before it drops the row.    *)
UploadIsSound ==
  \A d \in Docs : upload[d] = "indexed" /\ purge[d] \in {"new", "vectors"} => d \in chunks

LateIsAlone ==
  \A d \in late :
    /\ upload[d] = "over" /\ purge[d] # "new"
    /\ purge[d] = "row" => d \notin chunks

KbIInv == KbInv /\ UploadIsSound /\ LateIsAlone

\* The invariant holds of an empty knowledge base.
LEMMA KbInitInv == KbInit => KbIInv
BY KbAssumption
   DEF KbInit, KbIInv, KbInv, KbTypeOK, IndexedIsSearchable, VectorsKeepAHandle,
       UploadIsSound, LateIsAlone

(* What a step of document d may have done to the cells of d; those of the *)
(* other documents are as they were.                                       *)
LEMMA KbLocal ==
  ASSUME KbIInv, NEW d \in Docs,
         NEW u \in Ingestion, NEW p \in {"new", "vectors", "row", "over"},
         NEW r \in {"none", "ingesting", "indexed", "failed"},
         upload' = [upload EXCEPT ![d] = u], purge' = [purge EXCEPT ![d] = p],
         document' = [document EXCEPT ![d] = r],
         chunks' \in {chunks, chunks \cup {d}, chunks \ {d}},
         late' \in {late, late \cup {d}}, UNCHANGED <<base, answers, told>>, kbFaults' \in Nat,
         r = "indexed" /\ p \in {"new", "vectors"} => d \in chunks',
         u = "indexed" /\ p \in {"new", "vectors"} => d \in chunks',
         d \in late' => /\ u = "over" /\ p # "new"
                        /\ p = "row" => d \notin chunks'
                        /\ d \in chunks' => r # "none"
  PROVE  KbIInv'
<1>1. /\ upload' \in [Docs -> Ingestion] /\ purge' \in [Docs -> {"new", "vectors", "row", "over"}]
      /\ document' \in [Docs -> {"none", "ingesting", "indexed", "failed"}]
      /\ chunks' \subseteq Docs /\ late' \subseteq Docs
  BY DEF KbIInv, KbInv, KbTypeOK, Ingestion
<1>2. KbTypeOK'
  BY <1>1 DEF KbIInv, KbInv, KbTypeOK, Ingestion
<1>3. /\ upload'[d] = u /\ purge'[d] = p /\ document'[d] = r
      /\ \A e \in Docs : e # d =>
           /\ upload'[e] = upload[e] /\ purge'[e] = purge[e] /\ document'[e] = document[e]
           /\ (e \in chunks' <=> e \in chunks) /\ (e \in late' <=> e \in late)
  BY DEF KbIInv, KbInv, KbTypeOK
<1>4. IndexedIsSearchable' /\ UploadIsSound'
  BY <1>3 DEF KbIInv, KbInv, IndexedIsSearchable, UploadIsSound
<1>5. VectorsKeepAHandle' /\ LateIsAlone'
  BY <1>1, <1>3 DEF KbIInv, KbInv, VectorsKeepAHandle, LateIsAlone
<1> QED
  BY <1>2, <1>4, <1>5 DEF KbIInv, KbInv

\* Every step of an upload, an edit or a removal keeps it.
LEMMA KbStep == KbIInv /\ [KbNext]_kbVars => KbIInv'
<1> SUFFICES ASSUME KbIInv, [KbNext]_kbVars PROVE KbIInv'
  OBVIOUS
<1> USE DEF KbWorks, KbFails
<1>0. /\ upload \in [Docs -> Ingestion] /\ purge \in [Docs -> {"new", "vectors", "row", "over"}]
      /\ document \in [Docs -> {"none", "ingesting", "indexed", "failed"}]
      /\ kbFaults \in Nat /\ kbFaults + 1 \in Nat
  BY DEF KbIInv, KbInv, KbTypeOK, Ingestion
<1>1. \A d \in Docs :
        /\ document[d] = "indexed" /\ purge[d] \in {"new", "vectors"} => d \in chunks
        /\ upload[d] = "indexed" /\ purge[d] \in {"new", "vectors"} => d \in chunks
        /\ d \in late => /\ upload[d] = "over" /\ purge[d] # "new"
                         /\ purge[d] = "row" => d \notin chunks
                         /\ d \in chunks => document[d] # "none"
  BY DEF KbIInv, KbInv, IndexedIsSearchable, UploadIsSound, VectorsKeepAHandle, LateIsAlone
<1>2. ASSUME NEW d \in Docs,
             InsertDocument(d) \/ Embed(d) \/ Commit(d) \/ MarkIndexed(d) \/ MarkIngestFailed(d)
      PROVE  KbIInv'
  <2>1. purge' = [purge EXCEPT ![d] = purge[d]] /\ UNCHANGED <<base, late, answers, told>>
    BY <1>0, <1>2 DEF InsertDocument, Embed, Commit, MarkIndexed, MarkIngestFailed
  <2>2. upload[d] # "over" /\ kbFaults' \in Nat
    BY <1>0, <1>2
       DEF InsertDocument, Embed, Commit, MarkIndexed, MarkIngestFailed, UploadAt
  <2>3. PICK u \in Ingestion, r \in {"none", "ingesting", "indexed", "failed"} :
          /\ upload' = [upload EXCEPT ![d] = u] /\ document' = [document EXCEPT ![d] = r]
          /\ chunks' \in {chunks, chunks \cup {d}}
          /\ r = "indexed" => r = document[d] \/ upload[d] = "indexed"
          /\ u = "indexed" => d \in chunks'
    <3>1. document = [document EXCEPT ![d] = document[d]]
      BY <1>0
    <3>2. CASE InsertDocument(d)
      BY <1>0, <3>1, <3>2 DEF InsertDocument, UploadAt, SetRow, Ingestion
    <3>3. CASE Embed(d)
      BY <1>0, <3>1, <3>3 DEF Embed, UploadAt, Ingestion
    <3>4. CASE Commit(d)
      BY <1>0, <3>1, <3>4 DEF Commit, UploadAt, Ingestion
    <3>5. CASE MarkIndexed(d)
      BY <1>0, <3>1, <3>5 DEF MarkIndexed, UploadAt, UpdateRow, SetRow, Ingestion
    <3>6. CASE MarkIngestFailed(d)
      BY <1>0, <3>1, <3>6 DEF MarkIngestFailed, UploadAt, UpdateRow, SetRow, Ingestion
    <3> QED
      BY <1>2, <3>2, <3>3, <3>4, <3>5, <3>6
  <2>4. d \notin late'
    BY <1>1, <2>1, <2>2
  <2> QED
    BY <1>0, <1>1, <2>1, <2>2, <2>3, <2>4, KbLocal
<1>3. ASSUME NEW d \in Docs, FindDocument(d) \/ DeleteVectors(d) \/ DeleteRow(d)
      PROVE  KbIInv'
  <2>1. upload' = [upload EXCEPT ![d] = upload[d]] /\ UNCHANGED <<base, answers, told>>
        /\ kbFaults' \in Nat /\ document = [document EXCEPT ![d] = document[d]]
    BY <1>0, <1>3 DEF FindDocument, DeleteVectors, DeleteRow
  <2>2. CASE FindDocument(d)
    <3>1. /\ purge' = [purge EXCEPT ![d] = "vectors"] /\ purge[d] = "new" /\ document[d] # "none"
          /\ UNCHANGED <<document, chunks>> /\ late' \in {late, late \cup {d}}
          /\ d \in late' => upload[d] = "over"
      BY <1>1, <2>2 DEF FindDocument, PurgeAt
    <3> QED
      BY <1>0, <1>1, <2>1, <3>1, KbLocal
  <2>3. CASE DeleteVectors(d)
    <3>1. /\ purge[d] = "vectors" /\ UNCHANGED <<document, late>>
          /\ \/ purge' = [purge EXCEPT ![d] = "row"] /\ chunks' = chunks \ {d}
             \/ purge' = [purge EXCEPT ![d] = "over"] /\ chunks' = chunks
      BY <2>3 DEF DeleteVectors, PurgeAt
    <3> QED
      BY <1>0, <1>1, <2>1, <3>1, KbLocal
  <2>4. CASE DeleteRow(d)
    <3>1. /\ purge[d] = "row" /\ purge' = [purge EXCEPT ![d] = "over"]
          /\ UNCHANGED <<chunks, late>>
          /\ \/ document' = [document EXCEPT ![d] = "none"]
             \/ document' = [document EXCEPT ![d] = document[d]]
      BY <2>1, <2>4 DEF DeleteRow, PurgeAt, SetRow
    <3> QED
      BY <1>0, <1>1, <2>1, <3>1, KbLocal
  <2> QED
    BY <1>3, <2>2, <2>3, <2>4
<1>4. ASSUME UNCHANGED ingestion, answers' \subseteq AnswersGiven,
             told' \in AnswersGiven \cup {Untold}, UNCHANGED kbFaults
      PROVE  KbIInv'
  BY <1>4
     DEF ingestion, KbIInv, KbInv, KbTypeOK, IndexedIsSearchable, VectorsKeepAHandle,
         UploadIsSound, LateIsAlone
<1>5. ASSUME NEW b \in Businesses, NEW d \in Docs,
             KbSearch(b, d) \/ KbAnswer(b, d) \/ CachedAnswer(b, d)
      PROVE  KbIInv'
  <2>1. [to |-> b, doc |-> d] \in AnswersGiven /\ answers \subseteq AnswersGiven
    BY DEF AnswersGiven, KbIInv, KbInv, KbTypeOK
  <2> QED
    BY <1>4, <1>5, <2>1 DEF KbSearch, KbAnswer, CachedAnswer, Told
<1>6. CASE UNCHANGED kbVars
  <2>1. told \in AnswersGiven \cup {Untold} /\ answers \subseteq AnswersGiven
    BY DEF KbIInv, KbInv, KbTypeOK
  <2> QED
    BY <1>4, <1>6, <2>1 DEF kbVars, ingestion
<1> QED
  BY <1>2, <1>3, <1>5, <1>6 DEF KbNext

(* What the dashboard shows as indexed is found by a call, and vectors     *)
(* never outlive the row by which they can be deleted, however uploads and *)
(* deletions of one document fail and overlap.                             *)
THEOREM RowsAndVectors == KbSpec => []KbInv
<1>1. KbIInv => KbInv
  BY DEF KbIInv
<1> QED
  BY <1>1, KbInitInv, KbStep, PTL DEF KbSpec

-----------------------------------------------------------------------------
(* ---- The semantic cache ---- *)

Answers == [Questions -> Nat]

(* What a mirror, a lookup and a store under way are worth at time t, with *)
(* the hash idx: a mirror keeps nothing that had expired when it was       *)
(* pulled and lacks nothing stored before; a reply on its way to a mirror  *)
(* agrees with what is still valid and was stored before the pull; and no  *)
(* call is older than a tick.                                              *)
MirrorSound(m, idx, t) ==
  /\ m \in [held : BOOLEAN, at : Nat, copy : Answers] /\ m.at <= t
  /\ \A q \in Questions : m.copy[q] # 0 => m.copy[q] >= m.at
  /\ m.held => \A q \in Questions :
                 idx[q] >= t /\ idx[q] + 1 < m.at + CacheTtl => m.copy[q] # 0

LookupSound(l, idx, t) ==
  /\ l \in [pc : {"idle", "pull", "load", "prune"}, since : Nat, got : Answers,
            stale : SUBSET Questions]
  /\ l.pc # "idle" => l.since <= t /\ t <= l.since + 1
  /\ l.pc \in {"load", "prune"} =>
       \A q \in Questions : idx[q] >= t /\ idx[q] + 1 < l.since + CacheTtl => l.got[q] = idx[q]
  /\ l.pc = "prune" =>
       /\ \A q \in l.stale : l.got[q] < t
       /\ \A q \in Questions \ l.stale : l.got[q] # 0 => l.got[q] >= l.since

StoreSound(s, t) ==
  /\ s.pc \in {"idle", "hset", "patch"} /\ s.exp \in Nat
  /\ s.pc # "idle" => t + CacheTtl <= s.exp + 1 /\ s.exp <= t + CacheTtl

CacheIInv ==
  /\ now \in 1..MaxClock /\ index \in Answers
  /\ mirror = [w \in CacheWorkers |-> mirror[w]] /\ lookup = [w \in CacheWorkers |-> lookup[w]]
  /\ store = [w \in CacheWorkers |-> store[w]]
  /\ \A w \in CacheWorkers : /\ MirrorSound(mirror[w], index, now)
                             /\ LookupSound(lookup[w], index, now)
                             /\ StoreSound(store[w], now)
  /\ served.exp \in Nat /\ ExpiredNotServed

\* The lifetimes are numbers above zero.
LEMMA CacheTimes == CacheTtl \in Nat \ {0} /\ MemRefresh \in Nat \ {0} /\ MaxClock \in Nat \ {0}
  BY CacheAssumption DEF CacheAssumption

(* A store or a prune of another, and a tick, leave them sound. *)
LEMMA StaySound ==
  ASSUME NEW idx \in Answers, NEW idx2 \in Answers, NEW t \in Nat \ {0}, NEW t2 \in {t, t + 1},
         \A q \in Questions : idx2[q] \in {idx[q], 0} \/ idx2[q] + 1 >= t + CacheTtl
  PROVE  /\ \A m : MirrorSound(m, idx, t) => MirrorSound(m, idx2, t2)
         /\ \A l : LookupSound(l, idx, t) /\ (t2 # t => l.pc = "idle" \/ l.since = t)
                     => LookupSound(l, idx2, t2)
<1> USE CacheTimes
<1>0. t2 \in Nat \ {0} /\ t <= t2 /\ t2 <= t + 1
  OBVIOUS
<1>1. ASSUME NEW m, MirrorSound(m, idx, t) PROVE MirrorSound(m, idx2, t2)
  <2>1. m \in [held : BOOLEAN, at : Nat, copy : Answers] /\ m.at <= t2
    BY <1>0, <1>1 DEF MirrorSound
  <2>2. ASSUME m.held, NEW q \in Questions, idx2[q] >= t2, idx2[q] + 1 < m.at + CacheTtl
        PROVE  m.copy[q] # 0
    <3>1. idx2[q] \in Nat /\ idx[q] \in Nat /\ m.at \in Nat /\ m.at <= t
      BY <1>1, <2>1 DEF Answers, MirrorSound
    <3>2. idx2[q] = idx[q]
      BY <1>0, <2>2, <3>1
    <3> QED
      BY <1>0, <1>1, <2>2, <3>1, <3>2 DEF MirrorSound
  <2> QED
    BY <1>1, <2>1, <2>2 DEF MirrorSound
<1>2. ASSUME NEW l, LookupSound(l, idx, t), t2 # t => l.pc = "idle" \/ l.since = t
      PROVE  LookupSound(l, idx2, t2)
  <2>1. l \in [pc : {"idle", "pull", "load", "prune"}, since : Nat, got : Answers,
               stale : SUBSET Questions]
    BY <1>2 DEF LookupSound
  <2>2. l.pc # "idle" => l.since <= t2 /\ t2 <= l.since + 1
    BY <1>0, <1>2, <2>1 DEF LookupSound
  <2>3. ASSUME l.pc \in {"load", "prune"}, NEW q \in Questions,
               idx2[q] >= t2, idx2[q] + 1 < l.since + CacheTtl
        PROVE  l.got[q] = idx2[q]
    <3>1. idx2[q] \in Nat /\ idx[q] \in Nat /\ l.since \in Nat /\ l.since <= t
      BY <1>2, <2>1, <2>3 DEF Answers, LookupSound
    <3>2. idx2[q] = idx[q]
      BY <1>0, <2>3, <3>1
    <3> QED
      BY <1>0, <1>2, <2>3, <3>1, <3>2 DEF LookupSound
  <2>4. ASSUME l.pc = "prune" PROVE \A q \in l.stale : l.got[q] < t2
    <3>1. \A q \in l.stale : l.got[q] \in Nat
      BY <2>1 DEF Answers
    <3> QED
      BY <1>0, <1>2, <2>4, <3>1 DEF LookupSound
  <2> QED
    BY <1>2, <2>1, <2>2, <2>3, <2>4 DEF LookupSound
<1> QED
  BY <1>1, <1>2

\* The invariant of the cache holds of an empty one.
LEMMA CacheInitInv == CacheInit => CacheIInv
<1> SUFFICES ASSUME CacheInit PROVE CacheIInv
  OBVIOUS
<1> USE CacheTimes DEF CacheInit
<1>1. Empty \in Answers /\ \A q \in Questions : Empty[q] = 0
  BY DEF Empty, Answers
<1>2. ASSUME NEW w \in CacheWorkers
      PROVE  /\ MirrorSound(mirror[w], index, now) /\ LookupSound(lookup[w], index, now)
             /\ StoreSound(store[w], now)
  <2>1. MirrorSound(mirror[w], index, now)
    BY <1>1 DEF MirrorSound
  <2>2. LookupSound(lookup[w], index, now)
    BY <1>1 DEF LookupSound, NoLookup
  <2>3. StoreSound(store[w], now)
    BY DEF StoreSound
  <2> QED
    BY <2>1, <2>2, <2>3
<1>3. served.exp \in Nat /\ ExpiredNotServed /\ now \in 1..MaxClock
  BY DEF NoAnswer, ExpiredNotServed
<1> QED
  BY <1>1, <1>2, <1>3 DEF CacheIInv

\* Every step of a worker or of the clock keeps it.
LEMMA CacheStep ==
  ASSUME MemRefresh > 1 PROVE CacheIInv /\ [CacheNext]_cacheVars => CacheIInv'
<1> SUFFICES ASSUME CacheIInv, [CacheNext]_cacheVars PROVE CacheIInv'
  OBVIOUS
<1> USE CacheTimes
<1>0. /\ now \in 1..MaxClock /\ now \in Nat \ {0} /\ index \in Answers
      /\ mirror = [w \in CacheWorkers |-> mirror[w]] /\ lookup = [w \in CacheWorkers |-> lookup[w]]
      /\ store = [w \in CacheWorkers |-> store[w]]
      /\ \A w \in CacheWorkers : /\ MirrorSound(mirror[w], index, now)
                                 /\ LookupSound(lookup[w], index, now)
                                 /\ StoreSound(store[w], now)
  BY DEF CacheIInv
(* A step of w at the same time: only its own mirror, lookup and store can *)
(* become unsound.                                                         *)
<1>1. ASSUME NEW w \in CacheWorkers, UNCHANGED now, index' \in Answers,
             \A q \in Questions : index'[q] \in {index[q], 0} \/ index'[q] + 1 >= now + CacheTtl,
             NEW m, mirror' = [mirror EXCEPT ![w] = m],
             m = mirror[w] \/ MirrorSound(m, index', now),
             NEW l, lookup' = [lookup EXCEPT ![w] = l],
             l = lookup[w] \/ LookupSound(l, index', now),
             NEW s, store' = [store EXCEPT ![w] = s], StoreSound(s, now),
             served'.exp \in Nat, ExpiredNotServed'
      PROVE  CacheIInv'
  <2>1. /\ \A v \in CacheWorkers \ {w} : /\ mirror'[v] = mirror[v] /\ lookup'[v] = lookup[v]
                                         /\ store'[v] = store[v]
        /\ mirror'[w] = m /\ lookup'[w] = l /\ store'[w] = s
        /\ mirror' = [v \in CacheWorkers |-> mirror'[v]]
        /\ lookup' = [v \in CacheWorkers |-> lookup'[v]]
        /\ store' = [v \in CacheWorkers |-> store'[v]]
    BY <1>0, <1>1
  <2>2. \A v \in CacheWorkers : /\ MirrorSound(mirror[v], index', now)
                                /\ LookupSound(lookup[v], index', now)
    BY <1>0, <1>1, StaySound
  <2>3. \A v \in CacheWorkers : /\ MirrorSound(mirror'[v], index', now)
                                /\ LookupSound(lookup'[v], index', now)
                                /\ StoreSound(store'[v], now)
    BY <1>0, <1>1, <2>1, <2>2
  <2> QED
    BY <1>0, <1>1, <2>1, <2>3 DEF CacheIInv
(* The same where the hash stays. *)
<1>2. ASSUME NEW w \in CacheWorkers, UNCHANGED <<now, index>>,
             NEW m, mirror' = [mirror EXCEPT ![w] = m],
             m = mirror[w] \/ MirrorSound(m, index, now),
             NEW l, lookup' = [lookup EXCEPT ![w] = l],
             l = lookup[w] \/ LookupSound(l, index, now),
             NEW s, store' = [store EXCEPT ![w] = s], StoreSound(s, now),
             served'.exp \in Nat, ExpiredNotServed'
      PROVE  CacheIInv'
  <2>1. \A q \in Questions : index'[q] \in {index[q], 0}
    BY <1>2
  <2> QED
    BY <1>0, <1>1, <1>2, <2>1
<1>3. \A w \in CacheWorkers : /\ mirror = [mirror EXCEPT ![w] = mirror[w]]
                              /\ lookup = [lookup EXCEPT ![w] = lookup[w]]
                              /\ store = [store EXCEPT ![w] = store[w]]
  BY <1>0
<1>4. LookupSound(NoLookup, index, now) /\ LookupSound(NoLookup, index', now)
  BY DEF LookupSound, NoLookup, Empty, Answers
<1>5. served' = NoAnswer => served'.exp \in Nat /\ ExpiredNotServed'
  BY DEF NoAnswer, ExpiredNotServed
(* What is served from a copy in which nothing had expired MemRefresh ago. *)
<1>6. ASSUME NEW copy \in Answers, UNCHANGED now, Serve(copy, FALSE),
             \A q \in Questions : copy[q] # 0 => copy[q] + MemRefresh > now
      PROVE  served'.exp \in Nat /\ ExpiredNotServed'
  <2>1. CASE served' = NoAnswer
    BY <1>5, <2>1
  <2>2. ASSUME NEW q \in Questions, served' = [exp |-> copy[q], fell |-> FALSE]
        PROVE  served'.exp \in Nat /\ ExpiredNotServed'
    BY <1>6, <2>2 DEF Answers, ExpiredNotServed
  <2> QED
    BY <1>6, <2>1, <2>2 DEF Serve
<1>7. ASSUME NEW w \in CacheWorkers, FromMirror(w) PROVE CacheIInv'
  <2>1. /\ lookup' = [lookup EXCEPT ![w] = NoLookup] /\ Serve(mirror[w].copy, FALSE)
        /\ now - mirror[w].at < MemRefresh /\ UNCHANGED <<now, index, mirror, store>>
    BY <1>7 DEF FromMirror, LookupAt
  <2>2. /\ mirror[w].copy \in Answers /\ mirror[w].at \in Nat
        /\ \A q \in Questions : mirror[w].copy[q] # 0 => mirror[w].copy[q] >= mirror[w].at
    BY <1>0 DEF MirrorSound
  <2>3. \A q \in Questions : mirror[w].copy[q] # 0 => mirror[w].copy[q] + MemRefresh > now
    <3>1. \A q \in Questions : mirror[w].copy[q] \in Nat
      BY <2>2 DEF Answers
    <3> QED
      BY <1>0, <2>1, <2>2, <3>1
  <2>4. served'.exp \in Nat /\ ExpiredNotServed'
    BY <1>6, <2>1, <2>2, <2>3
  <2> QED
    BY <1>0, <1>2, <1>3, <1>4, <2>1, <2>4
<1>8. ASSUME NEW w \in CacheWorkers, StartRefresh(w) PROVE CacheIInv'
  <2> DEFINE l == [NoLookup EXCEPT !.pc = "pull", !.since = now]
  <2>1. lookup' = [lookup EXCEPT ![w] = l] /\ UNCHANGED <<now, index, mirror, store>>
        /\ served' = NoAnswer
    BY <1>8 DEF StartRefresh, LookupAt
  <2>2. LookupSound(l, index, now)
    <3>1. Empty \in Answers
      BY DEF Empty, Answers
    <3>2. NoLookup \in [pc : {"idle", "pull", "load", "prune"}, since : Nat, got : Answers,
                        stale : SUBSET Questions]
      BY <3>1 DEF NoLookup
    <3>3. /\ l \in [pc : {"idle", "pull", "load", "prune"}, since : Nat, got : Answers,
                     stale : SUBSET Questions]
          /\ l.pc = "pull" /\ l.since = now
      BY <1>0, <3>2
    <3> QED
      BY <1>0, <3>3 DEF LookupSound
  <2> HIDE DEF l
  <2> QED
    BY <1>0, <1>2, <1>3, <1>5, <2>1, <2>2
<1>9. ASSUME NEW w \in CacheWorkers, HGetAll(w) PROVE CacheIInv'
  <2> DEFINE l == [lookup[w] EXCEPT !.pc = "load", !.got = index]
  <2>1. /\ lookup' = [lookup EXCEPT ![w] = l] /\ UNCHANGED <<now, index, mirror, store>>
        /\ served' = NoAnswer /\ lookup[w].pc = "pull"
    BY <1>9 DEF HGetAll, LookupAt
  <2>2. LookupSound(l, index, now)
    <3>1. /\ lookup[w] \in [pc : {"idle", "pull", "load", "prune"}, since : Nat, got : Answers,
                            stale : SUBSET Questions]
          /\ lookup[w].since <= now /\ now <= lookup[w].since + 1
      BY <1>0, <2>1 DEF LookupSound
    <3>2. /\ l \in [pc : {"idle", "pull", "load", "prune"}, since : Nat, got : Answers,
                     stale : SUBSET Questions]
          /\ l.pc = "load" /\ l.since = lookup[w].since /\ l.got = index
      BY <1>0, <3>1
    <3> QED
      BY <3>1, <3>2 DEF LookupSound
  <2> HIDE DEF l
  <2> QED
    BY <1>0, <1>2, <1>3, <1>5, <2>1, <2>2
<1>10. ASSUME NEW w \in CacheWorkers, FallBack(w) PROVE CacheIInv'
  <2>1. /\ lookup' = [lookup EXCEPT ![w] = NoLookup] /\ Serve(mirror[w].copy, TRUE)
        /\ UNCHANGED <<now, index, mirror, store>>
    BY <1>10 DEF FallBack, LookupAt
  <2>2. mirror[w].copy \in Answers
    BY <1>0 DEF MirrorSound
  <2>3. served'.exp \in Nat /\ ExpiredNotServed'
    BY <1>5, <2>1, <2>2 DEF Serve, Answers, ExpiredNotServed
  <2> QED
    BY <1>0, <1>2, <1>3, <1>4, <2>1, <2>3
<1>11. ASSUME NEW w \in CacheWorkers, Load(w) PROVE CacheIInv'
  <2> DEFINE m == [held |-> TRUE, at |-> lookup[w].since, copy |-> lookup[w].got]
  <2>1. /\ lookup[w].pc = "load" /\ lookup' = [lookup EXCEPT ![w] = NoLookup]
        /\ Stale(lookup[w].got) = {} /\ mirror' = [mirror EXCEPT ![w] = m]
        /\ Serve(lookup[w].got, FALSE) /\ UNCHANGED <<now, index, store>>
    BY <1>11 DEF Load, LookupAt, Install
  <2>2. /\ lookup[w].got \in Answers /\ lookup[w].since \in Nat /\ lookup[w].since <= now
        /\ \A q \in Questions : index[q] >= now /\ index[q] + 1 < lookup[w].since + CacheTtl
             => lookup[w].got[q] = index[q]
    BY <1>0, <2>1 DEF LookupSound
  <2>3. \A q \in Questions : lookup[w].got[q] \in Nat /\ index[q] \in Nat
    BY <1>0, <2>2 DEF Answers
  <2>4. \A q \in Questions : lookup[w].got[q] # 0 => lookup[w].got[q] >= now
    BY <1>0, <2>1, <2>3 DEF Stale
  <2>5. MirrorSound(m, index, now)
    BY <1>0, <2>2, <2>3, <2>4 DEF MirrorSound
  <2>6. served'.exp \in Nat /\ ExpiredNotServed'
    <3>1. \A q \in Questions : lookup[w].got[q] # 0 => lookup[w].got[q] + MemRefresh > now
      BY <1>0, <2>3, <2>4
    <3> QED
      BY <1>6, <2>1, <2>2, <3>1
  <2> HIDE DEF m
  <2> QED
    BY <1>0, <1>2, <1>3, <1>4, <2>1, <2>5, <2>6
<1>12. ASSUME NEW w \in CacheWorkers, FindStale(w) PROVE CacheIInv'
  <2> DEFINE l == [lookup[w] EXCEPT !.pc = "prune", !.stale = Stale(lookup[w].got)]
  <2>1. /\ lookup' = [lookup EXCEPT ![w] = l] /\ UNCHANGED <<now, index, mirror, store>>
        /\ served' = NoAnswer /\ lookup[w].pc = "load"
    BY <1>12 DEF FindStale, LookupAt
  <2>2. /\ lookup[w].got \in Answers /\ lookup[w].since \in Nat /\ lookup[w].since <= now
        /\ \A q \in Questions : lookup[w].got[q] \in Nat
    BY <1>0, <2>1 DEF LookupSound, Answers
  <2>3. /\ Stale(lookup[w].got) \subseteq Questions
        /\ \A q \in Stale(lookup[w].got) : lookup[w].got[q] < now
        /\ \A q \in Questions \ Stale(lookup[w].got) :
             lookup[w].got[q] # 0 => lookup[w].got[q] >= lookup[w].since
    BY <1>0, <2>2 DEF Stale
  <2>4. LookupSound(l, index, now)
    BY ZenonT(60), <1>0, <2>1, <2>3 DEF LookupSound
  <2> HIDE DEF l
  <2> QED
    BY <1>0, <1>2, <1>3, <1>5, <2>1, <2>4
<1>13. ASSUME NEW w \in CacheWorkers, Prune(w) PROVE CacheIInv'
  <2> DEFINE copy == Without(lookup[w].got, lookup[w].stale)
             m == [held |-> TRUE, at |-> lookup[w].since, copy |-> copy]
  <2>1. /\ lookup[w].pc = "prune" /\ lookup' = [lookup EXCEPT ![w] = NoLookup]
        /\ mirror' = [mirror EXCEPT ![w] = m] /\ Serve(copy, FALSE) /\ UNCHANGED <<now, store>>
        /\ index' \in {index, Without(index, lookup[w].stale)}
    BY <1>13 DEF Prune, LookupAt, Install
  <2>2. /\ lookup[w].got \in Answers /\ lookup[w].since \in Nat /\ lookup[w].since <= now
        /\ now <= lookup[w].since + 1
        /\ \A q \in Questions : index[q] >= now /\ index[q] + 1 < lookup[w].since + CacheTtl
             => lookup[w].got[q] = index[q]
        /\ \A q \in lookup[w].stale : lookup[w].got[q] < now
        /\ \A q \in Questions \ lookup[w].stale :
             lookup[w].got[q] # 0 => lookup[w].got[q] >= lookup[w].since
        /\ lookup[w].stale \subseteq Questions
    BY <1>0, <2>1 DEF LookupSound
  <2>3. /\ \A q \in Questions : lookup[w].got[q] \in Nat /\ index[q] \in Nat
        /\ copy \in Answers
        /\ \A q \in Questions : copy[q] = IF q \in lookup[w].stale THEN 0 ELSE lookup[w].got[q]
    BY <1>0, <2>2 DEF Answers, Without
  <2>4. index' \in Answers /\ \A q \in Questions : index'[q] \in {index[q], 0}
    BY <1>0, <2>1 DEF Without, Answers
  <2> HIDE DEF copy
  <2>5. \A q \in Questions : copy[q] # 0 => copy[q] >= lookup[w].since
    BY <2>2, <2>3
  <2>6. ASSUME NEW q \in Questions, index'[q] >= now, index'[q] + 1 < lookup[w].since + CacheTtl
        PROVE  copy[q] # 0
    <3>1. index'[q] = index[q] /\ index[q] \in Nat
      BY <1>0, <2>3, <2>4, <2>6
    <3>2. lookup[w].got[q] = index[q]
      BY <2>2, <2>6, <3>1
    <3>3. q \notin lookup[w].stale
      BY <1>0, <2>2, <2>6, <3>1, <3>2
    <3> QED
      BY <1>0, <2>3, <2>6, <3>1, <3>2, <3>3
  <2>7. MirrorSound(m, index', now)
    BY <1>0, <2>2, <2>3, <2>5, <2>6 DEF MirrorSound
  <2>8. served'.exp \in Nat /\ ExpiredNotServed'
    <3>1. \A q \in Questions : copy[q] # 0 => copy[q] + MemRefresh > now
      <4>1. \A q \in Questions : copy[q] \in Nat
        BY <2>3 DEF Answers
      <4> QED
        BY <1>0, <2>2, <2>5, <4>1
    <3> QED
      BY <1>6, <2>1, <2>3, <3>1
  <2> HIDE DEF m
  <2> QED
    BY <1>0, <1>1, <1>3, <1>4, <2>1, <2>4, <2>7, <2>8
<1>14. ASSUME NEW w \in CacheWorkers, NEW q \in Questions, StartStore(w, q) PROVE CacheIInv'
  <2> DEFINE s == [pc |-> "hset", q |-> q, exp |-> now + CacheTtl]
  <2>1. /\ store' = [store EXCEPT ![w] = s] /\ served' = NoAnswer
        /\ UNCHANGED <<now, index, mirror, lookup>>
    BY <1>14 DEF StartStore
  <2>2. StoreSound(s, now)
    BY <1>0 DEF StoreSound
  <2> HIDE DEF s
  <2> QED
    BY <1>2, <1>3, <1>5, <2>1, <2>2
<1>15. ASSUME NEW w \in CacheWorkers, HSet(w) PROVE CacheIInv'
  <2>0. /\ store[w].pc = "hset" /\ UNCHANGED <<now, mirror, lookup>> /\ served' = NoAnswer
        /\ \/ /\ store' = [store EXCEPT ![w].pc = "patch"]
              /\ index' = [index EXCEPT ![store[w].q] = store[w].exp]
           \/ /\ store' = [store EXCEPT ![w] = [pc |-> "idle", q |-> "none", exp |-> 0]]
              /\ UNCHANGED index
    BY <1>15 DEF HSet, StoreAt
  <2>1. store[w].exp \in Nat /\ store[w].exp + 1 >= now + CacheTtl
    BY <1>0, <2>0 DEF StoreSound
  <2>2. index' \in Answers
    BY <1>0, <2>0, <2>1 DEF Answers
  <2>3. \A q \in Questions : index'[q] \in {index[q], 0} \/ index'[q] + 1 >= now + CacheTtl
    BY <1>0, <2>0, <2>1 DEF Answers
  <2>4. PICK s : store' = [store EXCEPT ![w] = s] /\ StoreSound(s, now)
    <3>1. StoreSound([pc |-> "idle", q |-> "none", exp |-> 0], now)
      BY DEF StoreSound
    <3>2. StoreSound([store[w] EXCEPT !.pc = "patch"], now)
      <4>1. /\ [store[w] EXCEPT !.pc = "patch"].exp = store[w].exp
            /\ [store[w] EXCEPT !.pc = "patch"].pc \in {"patch", "hset"}
        BY <2>0
      <4> QED
        BY <1>0, <2>0, <4>1 DEF StoreSound
    <3> QED
      BY <2>0, <3>1, <3>2
  <2> QED
    BY <1>1, <1>3, <1>5, <2>0, <2>2, <2>3, <2>4
<1>16. ASSUME NEW w \in CacheWorkers, Patch(w) PROVE CacheIInv'
  <2>1. /\ store[w].pc = "patch" /\ store' = [store EXCEPT ![w] = [store[w] EXCEPT !.pc = "idle"]]
        /\ UNCHANGED <<now, index, lookup>> /\ served' = NoAnswer
        /\ mirror' = IF mirror[w].held
                     THEN [mirror EXCEPT ![w] = [mirror[w] EXCEPT !.copy =
                            [mirror[w].copy EXCEPT ![store[w].q] = store[w].exp]]]
                     ELSE mirror
    BY <1>16 DEF Patch, StoreAt
  <2>2. /\ store[w].exp \in Nat /\ store[w].exp + 1 >= now + CacheTtl
    BY <1>0, <2>1 DEF StoreSound
  <2>3. StoreSound([store[w] EXCEPT !.pc = "idle"], now)
    <3>1. /\ [store[w] EXCEPT !.pc = "idle"].exp = store[w].exp
          /\ [store[w] EXCEPT !.pc = "idle"].pc \in {"idle", "patch"}
      BY <2>1
    <3> QED
      BY <1>0, <2>1, <3>1 DEF StoreSound
  <2> DEFINE m == [mirror[w] EXCEPT !.copy = [mirror[w].copy EXCEPT ![store[w].q] = store[w].exp]]
  <2>4. MirrorSound(m, index, now)
    <3>1. /\ mirror[w] \in [held : BOOLEAN, at : Nat, copy : Answers] /\ mirror[w].at <= now
          /\ \A q \in Questions : mirror[w].copy[q] # 0 => mirror[w].copy[q] >= mirror[w].at
          /\ mirror[w].held => \A q \in Questions :
               index[q] >= now /\ index[q] + 1 < mirror[w].at + CacheTtl => mirror[w].copy[q] # 0
      BY <1>0 DEF MirrorSound
    <3>2. /\ m.held = mirror[w].held /\ m.at = mirror[w].at
          /\ m.copy = [mirror[w].copy EXCEPT ![store[w].q] = store[w].exp]
          /\ m \in [held : BOOLEAN, at : Nat, copy : Answers]
      BY <2>2, <3>1 DEF Answers
    <3>3. \A q \in Questions : m.copy[q] = IF q = store[w].q THEN store[w].exp ELSE mirror[w].copy[q]
      BY <3>1, <3>2 DEF Answers
    <3>4. store[w].exp # 0 /\ store[w].exp >= mirror[w].at
      BY <1>0, <2>2, <3>1
    <3> HIDE DEF m
    <3> QED
      BY <3>1, <3>2, <3>3, <3>4 DEF MirrorSound
  <2>5. mirror' = [mirror EXCEPT ![w] = m] \/ mirror' = [mirror EXCEPT ![w] = mirror[w]]
    BY <1>3, <2>1
  <2> HIDE DEF m
  <2> QED
    BY <1>2, <1>3, <1>5, <2>1, <2>3, <2>4, <2>5
<1>17. CASE CacheTick
  <2>1. /\ now < MaxClock /\ now' = now + 1 /\ UNCHANGED <<index, mirror, lookup, store>>
        /\ served' = NoAnswer
        /\ \A w \in CacheWorkers : /\ lookup[w].pc # "idle" => lookup[w].since = now
                                   /\ store[w].pc # "idle" => store[w].exp = now + CacheTtl
    BY <1>17 DEF CacheTick
  <2>2. \A w \in CacheWorkers : MirrorSound(mirror[w], index, now + 1)
                                /\ LookupSound(lookup[w], index, now + 1)
    BY <1>0, <2>1, StaySound
  <2>3. \A w \in CacheWorkers : StoreSound(store[w], now + 1)
    BY <1>0, <2>1 DEF StoreSound
  <2> QED
    BY <1>0, <1>5, <2>1, <2>2, <2>3 DEF CacheIInv
<1>18. CASE UNCHANGED cacheVars
  BY <1>18 DEF cacheVars, CacheIInv, ExpiredNotServed
<1> QED
  BY <1>7, <1>8, <1>9, <1>10, <1>11, <1>12, <1>13, <1>14, <1>15, <1>16, <1>17, <1>18 DEF CacheNext

\* It gives what the run checks.
LEMMA CacheShows == CacheIInv => CacheInv
<1> SUFFICES ASSUME CacheIInv PROVE CacheInv
  OBVIOUS
<1>0. /\ now \in 1..MaxClock /\ index \in Answers /\ CacheTtl \in Nat /\ now \in Nat
      /\ \A w \in CacheWorkers : /\ MirrorSound(mirror[w], index, now)
                                 /\ LookupSound(lookup[w], index, now)
                                 /\ StoreSound(store[w], now)
  BY CacheTimes DEF CacheIInv
<1>1. CacheTypeOK
  BY <1>0 DEF CacheTypeOK, MirrorSound, LookupSound, StoreSound, Answers
<1>2. StoresPropagate
  <2> SUFFICES ASSUME NEW w \in CacheWorkers, NEW q \in Questions, mirror[w].held, index[q] >= now,
                      index[q] - CacheTtl + 1 < mirror[w].at
               PROVE  mirror[w].copy[q] # 0
    BY DEF StoresPropagate
  <2>1. index[q] \in Nat /\ mirror[w].at \in Nat
    BY <1>0 DEF MirrorSound, Answers
  <2>2. index[q] + 1 < mirror[w].at + CacheTtl
    BY <1>0, <2>1
  <2> QED
    BY <1>0, <2>2 DEF MirrorSound
<1> QED
  BY <1>1, <1>2 DEF CacheInv, CacheIInv

-----------------------------------------------------------------------------
(* ---- The caller profiles ---- *)

Texts == PhoneCalls \cup {"", "unknown"}

(* What can be remembered of a caller: names and topics of calls that have *)
(* ended.                                                                  *)
Kept == [name : ended \cup {""}, intent : Texts, topic : ended \cup {""}, at : Nat, count : Nat]

(* The approvals a profile suggested by call c may count: those before c's *)
(* own.                                                                    *)
Others(c) == Cardinality(approved \ {c})

CallKept(c) ==
  LET m == phoneCall[c]
  IN /\ m \in [pc : {"new", "live", "snapshot", "over"}, name : {"", c}, intent : Texts,
               topic : {"", c}, hint : BOOLEAN, before : Kept]
     /\ m.hint => approved # {}
     /\ c \in ended => m.pc \in {"snapshot", "over"}
     /\ m.pc = "snapshot" => c \in ended /\ m.before.count <= Others(c)
     /\ suggested[c] \in Kept
     /\ suggested[c] # Unknown => c \in ended /\ suggested[c].count <= Others(c) + 1

ReviewKept(t) ==
  LET r == review[t]
  IN /\ r.pc \in {"idle", "approve", "reject", "apply"}
     /\ r.pc # "idle" => /\ r.call \in ended /\ r.sug \in Kept
                         /\ r.sug.count <= Others(r.call) + 1

ProfileIInv ==
  /\ approved \subseteq ended /\ ended \subseteq PhoneCalls /\ applied \subseteq PhoneCalls
  /\ profile \in Kept /\ CountNotInflated
  /\ phoneCall = [c \in PhoneCalls |-> phoneCall[c]]
  /\ suggested = [c \in PhoneCalls |-> suggested[c]]
  /\ review = [t \in Tabs |-> review[t]]
  /\ \A c \in PhoneCalls : CallKept(c)
  /\ \A t \in Tabs : ReviewKept(t)

\* Whether a count is above zero is a truth value.
LEMMA Positive == ASSUME NEW k \in Nat PROVE (k > 0) \in BOOLEAN
OBVIOUS

\* What a writer holds of a call has its type.
LEMMA Remembered ==
  ASSUME NEW n \in ended \cup {""}, NEW i \in Texts, NEW t \in ended \cup {""},
         NEW a \in Nat, NEW k \in Nat
  PROVE  LET p == [name |-> n, intent |-> i, topic |-> t, at |-> a, count |-> k]
         IN p \in Kept /\ p.count = k
BY DEF Kept

(* Approvals only grow, by the approved call at most. *)
LEMMA Approvals ==
  ASSUME ProfileIInv, NEW c \in PhoneCalls
  PROVE  /\ Cardinality(approved) \in Nat /\ Others(c) \in Nat
         /\ Others(c) <= Cardinality(approved)
         /\ c \notin approved => Others(c) = Cardinality(approved)
         /\ Cardinality(approved \cup {c}) = Others(c) + 1
         /\ \A d \in PhoneCalls : Others(d) <= Cardinality((approved \cup {c}) \ {d})
<1>1. IsFiniteSet(approved)
  <2>1. IsFiniteSet(PhoneCalls) /\ approved \subseteq PhoneCalls
    BY ProfileAssumption DEF ProfileAssumption, ProfileIInv
  <2> QED
    BY <2>1, FS_Subset
<1>2. \A d : IsFiniteSet(approved \ {d}) /\ IsFiniteSet((approved \cup {c}) \ {d})
  <2>1. IsFiniteSet(approved \cup {c})
    BY <1>1, FS_AddElement
  <2> QED
    BY <1>1, <2>1, FS_Subset
<1>3. Cardinality(approved) \in Nat /\ \A d : Others(d) \in Nat
  BY <1>1, <1>2, FS_CardinalityType DEF Others
<1>4. Others(c) <= Cardinality(approved)
  <2>1. approved \ {c} \subseteq approved
    OBVIOUS
  <2> QED
    BY <1>1, <2>1, FS_Subset DEF Others
<1>5. c \notin approved => Others(c) = Cardinality(approved)
  <2>1. c \notin approved => approved \ {c} = approved
    OBVIOUS
  <2> QED
    BY <2>1 DEF Others
<1>6. Cardinality(approved \cup {c}) = Others(c) + 1
  <2>1. approved \cup {c} = (approved \ {c}) \cup {c} /\ c \notin approved \ {c}
    OBVIOUS
  <2> QED
    BY <1>2, <2>1, FS_AddElement DEF Others
<1>7. ASSUME NEW d \in PhoneCalls PROVE Others(d) <= Cardinality((approved \cup {c}) \ {d})
  <2>1. approved \ {d} \subseteq (approved \cup {c}) \ {d}
    OBVIOUS
  <2> QED
    BY <1>2, <2>1, FS_Subset DEF Others
<1> QED
  BY <1>3, <1>4, <1>5, <1>6, <1>7

\* The invariant of the profiles holds before any call.
LEMMA ProfileInitInv == ProfileInit => ProfileIInv
<1> SUFFICES ASSUME ProfileInit PROVE ProfileIInv
  OBVIOUS
<1> USE DEF ProfileInit
<1>1. Unknown \in Kept /\ Unknown.count = 0
  BY DEF Unknown, Kept, Texts
<1>2. Cardinality(approved) = 0
  BY FS_EmptySet
<1>3. CountNotInflated
  <2>1. profile.count = 0
    BY <1>1
  <2> HIDE DEF ProfileInit
  <2> QED
    BY <1>2, <2>1 DEF CountNotInflated
<1>4. ASSUME NEW c \in PhoneCalls PROVE CallKept(c)
  BY <1>1 DEF CallKept, Texts
<1>5. \A t \in Tabs : ReviewKept(t)
  BY DEF ReviewKept, NoReview
<1> QED
  BY <1>1, <1>3, <1>4, <1>5 DEF ProfileIInv

\* Every step of a call, a review or an erasure keeps it.
LEMMA ProfileStep == ProfileIInv /\ [ProfileNext]_profileVars => ProfileIInv'
<1> SUFFICES ASSUME ProfileIInv, [ProfileNext]_profileVars PROVE ProfileIInv'
  OBVIOUS
<1>0. /\ approved \subseteq ended /\ ended \subseteq PhoneCalls /\ applied \subseteq PhoneCalls
      /\ profile \in Kept /\ CountNotInflated
      /\ phoneCall = [c \in PhoneCalls |-> phoneCall[c]]
      /\ suggested = [c \in PhoneCalls |-> suggested[c]]
      /\ review = [t \in Tabs |-> review[t]]
      /\ \A c \in PhoneCalls : CallKept(c)
      /\ \A t \in Tabs : ReviewKept(t)
  BY DEF ProfileIInv
<1>u. Unknown \in Kept /\ Unknown.count = 0
  BY DEF Unknown, Kept, Texts
<1>p. profile.count \in Nat /\ (profile.count > 0 => approved # {})
  <2>1. profile.count \in Nat
    BY <1>0 DEF Kept
  <2>2. Cardinality({}) = 0
    BY FS_EmptySet
  <2> QED
    BY <1>0, <2>1, <2>2 DEF CountNotInflated
<1>l. \A p : Loaded(p) => /\ p \in Kept /\ p.count \in Nat /\ (p.count > 0 => approved # {})
                          /\ p.count <= Cardinality(approved)
  <2>1. Cardinality(approved) \in Nat
    <3>1. IsFiniteSet(PhoneCalls) /\ approved \subseteq PhoneCalls
      BY <1>0, ProfileAssumption DEF ProfileAssumption
    <3> QED
      BY <3>1, FS_Subset, FS_CardinalityType
  <2> QED
    BY <1>0, <1>u, <1>p, <2>1 DEF Loaded, CountNotInflated
(* A step of call c that neither ends it nor stores its suggestion. *)
<1>1. ASSUME NEW c \in PhoneCalls, NEW m, phoneCall' = [phoneCall EXCEPT ![c] = m],
             m \in [pc : {"new", "live", "over"}, name : {"", c}, intent : Texts,
                    topic : {"", c}, hint : BOOLEAN, before : Kept],
             m.hint => approved # {}, c \in ended => m.pc = "over",
             UNCHANGED <<profile, suggested, applied, review, ended, approved>>
      PROVE  ProfileIInv'
  <2>1. Kept' = Kept /\ \A d : Others(d)' = Others(d)
    BY <1>1 DEF Kept, Others
  <2>2. /\ phoneCall'[c] = m /\ \A d \in PhoneCalls \ {c} : phoneCall'[d] = phoneCall[d]
        /\ phoneCall' = [d \in PhoneCalls |-> phoneCall'[d]]
    BY <1>0, <1>1
  <2>3. \A d \in PhoneCalls \ {c} : CallKept(d)'
    BY <1>0, <1>1, <2>1, <2>2 DEF CallKept
  <2>4. CallKept(c)'
    BY <1>0, <1>1, <2>1, <2>2 DEF CallKept
  <2>5. \A t \in Tabs : ReviewKept(t)'
    BY <1>0, <1>1, <2>1 DEF ReviewKept
  <2> QED
    BY <1>0, <1>1, <2>1, <2>2, <2>3, <2>4, <2>5 DEF ProfileIInv, CountNotInflated
<1>2. ASSUME NEW c \in PhoneCalls, NEW p, BeginCall(c, p) PROVE ProfileIInv'
  <2>1. PICK name \in {"", c} :
          /\ phoneCall[c].pc = "new"
          /\ phoneCall' = [phoneCall EXCEPT ![c] =
               [phoneCall[c] EXCEPT !.pc = "live", !.name = name, !.hint = p.count > 0]]
    BY <1>2 DEF BeginCall, CallAt
  <2>2. Loaded(p) /\ UNCHANGED <<profile, suggested, applied, review, ended, approved>>
    BY <1>2 DEF BeginCall
  <2> DEFINE m == [phoneCall[c] EXCEPT !.pc = "live", !.name = name, !.hint = p.count > 0]
  <2>3. /\ m \in [pc : {"new", "live", "over"}, name : {"", c}, intent : Texts,
                  topic : {"", c}, hint : BOOLEAN, before : Kept]
        /\ m.hint = (p.count > 0)
    <3>1. /\ phoneCall[c] \in [pc : {"new", "live", "snapshot", "over"}, name : {"", c},
                                intent : Texts, topic : {"", c}, hint : BOOLEAN, before : Kept]
      BY <1>0 DEF CallKept
    <3>2. (p.count > 0) \in BOOLEAN
      <4>1. PICK k \in Nat : k = p.count
        BY <1>l, <2>2
      <4>2. (k > 0) \in BOOLEAN
        BY Positive
      <4> QED
        BY <4>1, <4>2
    <3> HIDE DEF Kept
    <3>3. \A h \in BOOLEAN :
            LET n == [phoneCall[c] EXCEPT !.pc = "live", !.name = name, !.hint = h]
            IN /\ n \in [pc : {"new", "live", "over"}, name : {"", c}, intent : Texts,
                         topic : {"", c}, hint : BOOLEAN, before : Kept]
               /\ n.hint = h
      BY <3>1
    <3> QED
      BY <3>2, <3>3
  <2>4. c \notin ended
    BY <1>0, <2>1 DEF CallKept
  <2>5. m.hint => approved # {}
    BY <1>l, <2>2, <2>3
  <2> HIDE DEF m
  <2> QED
    BY <1>1, <2>1, <2>2, <2>3, <2>4, <2>5 DEF m
<1>3. ASSUME NEW c \in PhoneCalls, UpdateFromTurn(c) PROVE ProfileIInv'
  <2>1. PICK name \in {"", c}, intent \in {c, "unknown"} :
          /\ phoneCall[c].pc = "live"
          /\ phoneCall' = [phoneCall EXCEPT ![c] = [phoneCall[c] EXCEPT
               !.name = IF @ = "" THEN name ELSE @, !.intent = intent, !.topic = c]]
    BY <1>3 DEF UpdateFromTurn, CallAt
  <2>2. UNCHANGED <<profile, suggested, applied, review, ended, approved>>
    BY <1>3 DEF UpdateFromTurn
  <2> DEFINE m == [phoneCall[c] EXCEPT
                     !.name = IF @ = "" THEN name ELSE @, !.intent = intent, !.topic = c]
  <2>3. /\ m \in [pc : {"new", "live", "over"}, name : {"", c}, intent : Texts,
                  topic : {"", c}, hint : BOOLEAN, before : Kept]
        /\ m.hint = phoneCall[c].hint
    <3>1. phoneCall[c] \in [pc : {"new", "live", "snapshot", "over"}, name : {"", c},
                             intent : Texts, topic : {"", c}, hint : BOOLEAN, before : Kept]
      BY <1>0 DEF CallKept
    <3>2. intent \in Texts /\ (IF phoneCall[c].name = "" THEN name ELSE phoneCall[c].name) \in {"", c}
      BY <3>1 DEF Texts
    <3> HIDE DEF Kept
    <3>3. \A k \in {"", c}, i \in Texts :
            LET n == [phoneCall[c] EXCEPT !.name = k, !.intent = i, !.topic = c]
            IN /\ n \in [pc : {"live"}, name : {"", c}, intent : Texts,
                         topic : {"", c}, hint : BOOLEAN, before : Kept]
               /\ n.hint = phoneCall[c].hint
      BY <2>1, <3>1
    <3> QED
      BY <3>2, <3>3
  <2>4. c \notin ended /\ (m.hint => approved # {})
    BY <1>0, <2>1, <2>3 DEF CallKept
  <2> HIDE DEF m
  <2> QED
    BY <1>1, <2>1, <2>2, <2>3, <2>4 DEF m
<1>4. ASSUME NEW c \in PhoneCalls, NEW p, ReadExisting(c, p) PROVE ProfileIInv'
  <2> DEFINE m == [phoneCall[c] EXCEPT !.pc = "snapshot", !.before = p]
  <2>1. /\ phoneCall[c].pc = "live" /\ phoneCall' = [phoneCall EXCEPT ![c] = m]
        /\ Loaded(p) /\ ended' = ended \cup {c}
        /\ UNCHANGED <<profile, suggested, applied, review, approved>>
    BY <1>4 DEF ReadExisting, CallAt
  <2>2. Kept \subseteq Kept' /\ \A d : Others(d)' = Others(d)
    BY <2>1 DEF Kept, Others
  <2>3. c \notin ended /\ c \notin approved
    BY <1>0, <2>1 DEF CallKept
  <2>4. /\ m \in [pc : {"snapshot"}, name : {"", c}, intent : Texts,
                  topic : {"", c}, hint : BOOLEAN, before : Kept]
        /\ m.hint = phoneCall[c].hint /\ m.before = p
    BY ZenonT(60), <1>0, <1>l, <2>1 DEF CallKept
  <2>5. p.count <= Others(c)
    BY <1>0, <1>l, <2>1, <2>3, Approvals
  <2> HIDE DEF m
  <2>6. /\ phoneCall'[c] = m /\ \A d \in PhoneCalls \ {c} : phoneCall'[d] = phoneCall[d]
        /\ phoneCall' = [d \in PhoneCalls |-> phoneCall'[d]]
    BY <1>0, <2>1
  <2>7. \A d \in PhoneCalls \ {c} : CallKept(d)'
    <3> SUFFICES ASSUME NEW d \in PhoneCalls \ {c} PROVE CallKept(d)'
      OBVIOUS
    <3>1. phoneCall[d] \in [pc : {"new", "live", "snapshot", "over"}, name : {"", d},
                             intent : Texts, topic : {"", d}, hint : BOOLEAN, before : Kept']
      BY <1>0, <2>2 DEF CallKept
    <3> QED
      BY <1>0, <2>1, <2>2, <2>6, <3>1 DEF CallKept
  <2>8. CallKept(c)'
    <3>1. m \in [pc : {"new", "live", "snapshot", "over"}, name : {"", c},
                 intent : Texts, topic : {"", c}, hint : BOOLEAN, before : Kept']
          /\ m.pc = "snapshot"
      BY <2>2, <2>4
    <3>2. m.hint => approved # {}
      BY <1>0, <2>4 DEF CallKept
    <3> QED
      BY <1>0, <2>1, <2>2, <2>3, <2>4, <2>5, <2>6, <3>1, <3>2 DEF CallKept
  <2>9. \A t \in Tabs : ReviewKept(t)'
    BY <1>0, <2>1, <2>2 DEF ReviewKept
  <2> QED
    BY <1>0, <2>1, <2>2, <2>6, <2>7, <2>8, <2>9 DEF ProfileIInv, CountNotInflated
<1>5. ASSUME NEW c \in PhoneCalls, SaveSuggestion(c) PROVE ProfileIInv'
  <2> DEFINE m == [phoneCall[c] EXCEPT !.pc = "over"]
  <2>1. /\ phoneCall[c].pc = "snapshot" /\ phoneCall' = [phoneCall EXCEPT ![c] = m]
        /\ suggested' = suggested \/ suggested' = [suggested EXCEPT ![c] = Merged(c)]
        /\ UNCHANGED <<profile, applied, review, ended, approved>>
    BY <1>5 DEF SaveSuggestion, CallAt
  <2>2. /\ m \in [pc : {"new", "live", "over"}, name : {"", c}, intent : Texts,
                  topic : {"", c}, hint : BOOLEAN, before : Kept]
        /\ m.hint = phoneCall[c].hint /\ m.pc = "over"
    BY <1>0 DEF CallKept
  <2>3. CASE suggested' = suggested
    <3>1. m.hint => approved # {}
      BY <1>0, <2>2 DEF CallKept
    <3> QED
      BY <1>1, <2>1, <2>2, <2>3, <3>1
  <2> HIDE DEF m
  <2>4. CASE suggested' = [suggested EXCEPT ![c] = Merged(c)]
    <3>1. c \in ended /\ phoneCall[c].before.count <= Others(c) /\ phoneCall[c].before \in Kept
          /\ phoneCall[c].name \in {"", c} /\ phoneCall[c].topic \in {"", c}
          /\ phoneCall[c].intent \in Texts
      BY <1>0, <2>1 DEF CallKept
    <3>2. Cardinality(ended) \in Nat
      <4>1. IsFiniteSet(PhoneCalls) /\ ended \subseteq PhoneCalls
        BY <1>0, ProfileAssumption DEF ProfileAssumption
      <4> QED
        BY <4>1, FS_Subset, FS_CardinalityType
    <3>3. /\ phoneCall[c].before.name \in ended \cup {""} /\ phoneCall[c].before.intent \in Texts
          /\ phoneCall[c].before.topic \in ended \cup {""} /\ phoneCall[c].before.count \in Nat
      BY <3>1 DEF Kept
    <3>4. Merged(c) \in Kept /\ Merged(c).count = phoneCall[c].before.count + 1
      <4> DEFINE name == IF phoneCall[c].name # "" THEN phoneCall[c].name ELSE phoneCall[c].before.name
                 intent == IF phoneCall[c].intent # "" THEN phoneCall[c].intent
                                                       ELSE phoneCall[c].before.intent
                 topic == IF phoneCall[c].topic # "" THEN phoneCall[c].topic
                                                     ELSE phoneCall[c].before.topic
      <4>1. Merged(c) = [name |-> name, intent |-> intent, topic |-> topic,
                         at |-> Cardinality(ended), count |-> phoneCall[c].before.count + 1]
        BY DEF Merged
      <4>2. name \in ended \cup {""} /\ intent \in Texts /\ topic \in ended \cup {""}
        BY <3>1, <3>3
      <4> HIDE DEF name, intent, topic
      <4>3. PICK k \in Nat : k = phoneCall[c].before.count
        BY <3>3
      <4>4. k + 1 \in Nat
        OBVIOUS
      <4>5. PICK n \in Nat : n = Cardinality(ended)
        BY <3>2
      <4>6. Merged(c) = [name |-> name, intent |-> intent, topic |-> topic, at |-> n, count |-> k + 1]
        BY <4>1, <4>3, <4>5
      <4>7. [name |-> name, intent |-> intent, topic |-> topic, at |-> n, count |-> k + 1] \in Kept
        BY <4>2, <4>4, <4>5, Remembered
      <4> QED
        BY <4>3, <4>6, <4>7
    <3>5. Merged(c).count <= Others(c) + 1
      <4>1. PICK n \in Nat : n = Others(c)
        BY Approvals
      <4>2. PICK k \in Nat : k = phoneCall[c].before.count
        BY <3>3
      <4>3. k <= n
        BY <3>1, <4>1, <4>2
      <4>4. k + 1 <= n + 1
        BY <4>3
      <4> QED
        BY <3>4, <4>1, <4>2, <4>4
    <3>6. Kept' = Kept /\ \A d : Others(d)' = Others(d)
      BY <2>1 DEF Kept, Others
    <3>7. /\ phoneCall'[c] = m /\ \A d \in PhoneCalls \ {c} : phoneCall'[d] = phoneCall[d]
          /\ phoneCall' = [d \in PhoneCalls |-> phoneCall'[d]]
          /\ suggested'[c] = Merged(c) /\ \A d \in PhoneCalls \ {c} : suggested'[d] = suggested[d]
          /\ suggested' = [d \in PhoneCalls |-> suggested'[d]]
      BY <1>0, <2>1, <2>4
    <3>8. \A d \in PhoneCalls \ {c} : CallKept(d)'
      BY <1>0, <2>1, <3>6, <3>7 DEF CallKept
    <3>9. CallKept(c)'
      <4>1. phoneCall[c].hint => approved # {}
        BY <1>0 DEF CallKept
      <4> QED
        BY <2>1, <2>2, <3>1, <3>4, <3>5, <3>6, <3>7, <4>1 DEF CallKept
    <3>10. \A t \in Tabs : ReviewKept(t)'
      BY <1>0, <2>1, <3>6 DEF ReviewKept
    <3> QED
      BY <1>0, <2>1, <3>6, <3>7, <3>8, <3>9, <3>10 DEF ProfileIInv, CountNotInflated
  <2> QED
    BY <2>1, <2>3, <2>4
(* A step of tab t that approves nothing. *)
<1>6. ASSUME NEW t \in Tabs, NEW r, review' = [review EXCEPT ![t] = r],
             r.pc \in {"idle", "approve", "reject", "apply"},
             r.pc # "idle" => /\ r.call \in ended /\ r.sug \in Kept
                              /\ r.sug.count <= Others(r.call) + 1,
             applied' \subseteq PhoneCalls,
             UNCHANGED suggested \/ \E c : suggested' = [suggested EXCEPT ![c] = Unknown],
             UNCHANGED <<profile, phoneCall, ended, approved>>
      PROVE  ProfileIInv'
  <2>1. Kept' = Kept /\ \A d : Others(d)' = Others(d)
    BY <1>6 DEF Kept, Others
  <2>2. /\ review'[t] = r /\ \A v \in Tabs \ {t} : review'[v] = review[v]
        /\ review' = [v \in Tabs |-> review'[v]]
    BY <1>0, <1>6
  <2>3. /\ suggested' = [d \in PhoneCalls |-> suggested'[d]]
        /\ \A d \in PhoneCalls : suggested'[d] \in {suggested[d], Unknown}
    BY <1>0, <1>6
  <2>4. \A d \in PhoneCalls : CallKept(d)'
    <3> SUFFICES ASSUME NEW d \in PhoneCalls PROVE CallKept(d)'
      OBVIOUS
    <3>1. suggested'[d] \in Kept /\ (suggested'[d] # Unknown => suggested'[d] = suggested[d])
      BY <1>0, <1>u, <2>3 DEF CallKept
    <3> QED
      BY <1>0, <1>6, <2>1, <3>1 DEF CallKept
  <2>5. \A v \in Tabs \ {t} : ReviewKept(v)'
    BY <1>0, <1>6, <2>1, <2>2 DEF ReviewKept
  <2>6. ReviewKept(t)'
    BY <1>6, <2>1, <2>2 DEF ReviewKept
  <2> QED
    BY <1>0, <1>6, <2>1, <2>2, <2>3, <2>4, <2>5, <2>6 DEF ProfileIInv, CountNotInflated
<1>7. ASSUME NEW c \in PhoneCalls, NEW t \in Tabs, ReadSuggestion(t, c) PROVE ProfileIInv'
  <2>1. PICK action \in {"approve", "reject"} :
          review' = [review EXCEPT ![t] = [pc |-> action, call |-> c, sug |-> suggested[c]]]
    BY <1>7 DEF ReadSuggestion, ReviewAt
  <2>2. suggested[c] # Unknown /\ UNCHANGED <<profile, suggested, applied, phoneCall, ended, approved>>
    BY <1>7 DEF ReadSuggestion
  <2>3. c \in ended /\ suggested[c] \in Kept /\ suggested[c].count <= Others(c) + 1
    BY <1>0, <2>2 DEF CallKept
  <2> QED
    BY <1>0, <1>6, <2>1, <2>2, <2>3
<1>8. ASSUME NEW t \in Tabs, Reject(t) PROVE ProfileIInv'
  <2>1. NoReview.pc = "idle"
    BY DEF NoReview
  <2> QED
    BY <1>0, <1>6, <1>8, <2>1 DEF Reject, ReviewAt
<1>9. ASSUME NEW t \in Tabs, MarkApplied(t) PROVE ProfileIInv'
  <2>1. NoReview.pc = "idle"
    BY DEF NoReview
  <2>2. review[t].pc = "apply" /\ applied' = applied \cup {review[t].call}
    BY <1>9 DEF MarkApplied, ReviewAt
  <2>3. applied' \subseteq PhoneCalls
    BY <1>0, <2>2 DEF ReviewKept
  <2> QED
    BY <1>0, <1>6, <1>9, <2>1, <2>3 DEF MarkApplied, ReviewAt
<1>10. ASSUME NEW t \in Tabs, Approve(t) PROVE ProfileIInv'
  <2> DEFINE c == review[t].call
             r == [review[t] EXCEPT !.pc = "apply"]
  <2>1. /\ review[t].pc = "approve" /\ review' = [review EXCEPT ![t] = r]
        /\ profile' = review[t].sug /\ approved' = approved \cup {c}
        /\ UNCHANGED <<suggested, applied, phoneCall, ended>>
    BY <1>10 DEF Approve, ReviewAt
  <2>2. c \in ended /\ c \in PhoneCalls /\ review[t].sug \in Kept
        /\ review[t].sug.count <= Others(c) + 1
    BY <1>0, <2>1 DEF ReviewKept
  <2>3. r.pc \in {"approve", "apply"} /\ r.call = c /\ r.sug = review[t].sug
    BY <2>1
  <2> HIDE DEF c, r
  <2>4. Kept' = Kept
    BY <2>1 DEF Kept
  <2>5. \A d \in PhoneCalls : Others(d) \in Nat /\ Others(d)' \in Nat /\ Others(d) <= Others(d)'
    <3>1. \A d \in PhoneCalls : /\ Others(d) \in Nat
                                /\ Others(d) <= Cardinality((approved \cup {c}) \ {d})
      BY <2>2, Approvals
    <3>2. IsFiniteSet(PhoneCalls) /\ approved \cup {c} \subseteq PhoneCalls
      BY <1>0, <2>2, ProfileAssumption DEF ProfileAssumption
    <3>3. \A d : Cardinality((approved \cup {c}) \ {d}) \in Nat
      <4>1. \A d : (approved \cup {c}) \ {d} \subseteq PhoneCalls
        BY <3>2
      <4> QED
        BY <3>2, <4>1, FS_Subset, FS_CardinalityType
    <3> QED
      BY <2>1, <3>1, <3>3 DEF Others
  <2>6. CountNotInflated'
    <3>1. Cardinality(approved \cup {c}) = Others(c) + 1
      BY <2>2, Approvals
    <3> QED
      BY <2>1, <2>2, <3>1 DEF CountNotInflated
  <2>7. \A d \in PhoneCalls : CallKept(d)'
    <3> SUFFICES ASSUME NEW d \in PhoneCalls PROVE CallKept(d)'
      OBVIOUS
    <3>1. phoneCall[d].pc = "snapshot" => phoneCall[d].before.count <= Others(d)'
      <4>1. phoneCall[d].before.count \in Nat
        BY <1>0 DEF CallKept, Kept
      <4>2. phoneCall[d].pc = "snapshot" => phoneCall[d].before.count <= Others(d)
        BY <1>0 DEF CallKept
      <4> QED
        BY <2>5, <4>1, <4>2
    <3>2. suggested[d] # Unknown => suggested[d].count <= Others(d)' + 1
      <4>1. suggested[d].count \in Nat
        BY <1>0 DEF CallKept, Kept
      <4>2. suggested[d] # Unknown => suggested[d].count <= Others(d) + 1
        BY <1>0 DEF CallKept
      <4> QED
        BY <2>5, <4>1, <4>2
    <3>3. approved' # {}
      BY <2>1
    <3> QED
      BY <1>0, <2>1, <2>4, <3>1, <3>2, <3>3 DEF CallKept
  <2>8. \A v \in Tabs : ReviewKept(v)'
    <3> SUFFICES ASSUME NEW v \in Tabs PROVE ReviewKept(v)'
      OBVIOUS
    <3>1. ASSUME review[v].pc # "idle"
          PROVE  /\ review[v].call \in ended /\ review[v].sug \in Kept
                 /\ \A e \in PhoneCalls : e = review[v].call => review[v].sug.count <= Others(e)' + 1
      <4>1. /\ review[v].call \in ended /\ review[v].sug \in Kept
            /\ review[v].sug.count <= Others(review[v].call) + 1
        BY <1>0, <3>1 DEF ReviewKept
      <4>2. review[v].sug.count \in Nat
        BY <4>1 DEF Kept
      <4>3. ASSUME NEW e \in PhoneCalls, e = review[v].call
            PROVE  review[v].sug.count <= Others(e)' + 1
        <5>1. Others(e) \in Nat /\ Others(e)' \in Nat /\ Others(e) <= Others(e)'
          BY <2>5
        <5>2. review[v].sug.count <= Others(e) + 1
          BY <4>1, <4>3
        <5> QED
          BY <4>2, <5>1, <5>2
      <4> QED
        BY <4>1, <4>3
    <3>2. /\ review'[v].call = review[v].call /\ review'[v].sug = review[v].sug
          /\ review'[v].pc \in {"idle", "approve", "reject", "apply"}
          /\ review'[v].pc # "idle" => review[v].pc # "idle"
      <4>1. CASE v = t
        BY <1>0, <2>1, <2>3, <4>1 DEF c
      <4>2. CASE v # t
        BY <1>0, <2>1, <4>2 DEF ReviewKept
      <4> QED
        BY <4>1, <4>2
    <3>3. ASSUME review'[v].pc # "idle"
          PROVE  /\ review'[v].call \in ended' /\ review'[v].sug \in Kept'
                 /\ review'[v].sug.count <= Others(review[v].call)' + 1
      <4>1. /\ review[v].call \in ended /\ review[v].sug \in Kept
            /\ \A e \in PhoneCalls : e = review[v].call => review[v].sug.count <= Others(e)' + 1
        BY <3>1, <3>2, <3>3
      <4>2. PICK e \in PhoneCalls : e = review[v].call
        BY <1>0, <4>1
      <4>3. review[v].sug.count <= Others(e)' + 1 /\ e = review'[v].call
        BY <3>2, <4>1, <4>2
      <4> QED
        BY <2>1, <2>4, <3>2, <4>1, <4>3
    <3> QED
      BY <3>2, <3>3 DEF ReviewKept
  <2>9. review' = [v \in Tabs |-> review'[v]]
    BY <1>0, <2>1
  <2> QED
    BY <1>0, <2>1, <2>2, <2>4, <2>6, <2>7, <2>8, <2>9 DEF ProfileIInv
<1>11. CASE UNCHANGED profileVars
  <2>1. Kept' = Kept /\ \A d : Others(d)' = Others(d)
    BY <1>11 DEF profileVars, Kept, Others
  <2>2. \A d \in PhoneCalls : CallKept(d)'
    BY <1>0, <1>11, <2>1 DEF profileVars, CallKept
  <2>3. \A v \in Tabs : ReviewKept(v)'
    BY <1>0, <1>11, <2>1 DEF profileVars, ReviewKept
  <2> QED
    BY <1>0, <1>11, <2>1, <2>2, <2>3 DEF profileVars, ProfileIInv, CountNotInflated
<1> QED
  BY <1>2, <1>3, <1>4, <1>5, <1>7, <1>8, <1>9, <1>10, <1>11 DEF ProfileNext

\* It gives what the run checks.
LEMMA ProfileShows == ProfileIInv => ProfileInv
<1> SUFFICES ASSUME ProfileIInv PROVE ProfileInv
  OBVIOUS
<1>1. ProfileTypeOK
  <2>1. ended \cup {""} \subseteq Texts
    BY DEF ProfileIInv, Texts
  <2>2. Kept \subseteq [name : Texts, intent : Texts, topic : Texts, at : Nat, count : Nat]
    BY <2>1 DEF Kept
  <2>3. suggested \in [PhoneCalls -> Kept]
    BY DEF ProfileIInv, CallKept
  <2> QED
    BY <2>2, <2>3 DEF ProfileIInv, ProfileTypeOK, CallKept, ReviewKept, Texts
<1>2. LearnedIsReviewed
  BY DEF ProfileIInv, LearnedIsReviewed, CallKept, Kept
<1> QED
  BY <1>1, <1>2 DEF ProfileInv, ProfileIInv

-----------------------------------------------------------------------------

(* The parts of the composition move by their own specifications. *)
LEMMA OfficeParts == [OfficeNext]_officeVars =>
                       [CacheNext]_cacheVars /\ [KbNext]_kbVars /\ [ProfileNext]_profileVars
BY DEF OfficeNext, RecordMoves, CampaignMoves, WatchdogMoves, ConfigMoves, CacheMoves,
       KnowledgeMoves, ProfilesMove, officeVars, cacheVars, kbVars, profileVars

(* Whatever fails and whoever shares it: cached answers are given at most  *)
(* a refresh after they expired and reach every mirror pulled after their  *)
(* store, rows and vectors stay together, and nothing is remembered of a   *)
(* caller but what an operator approved, each call counted once.  The      *)
(* refresh is longer than a tick, the time a Redis call takes at most.     *)
THEOREM RecallIsSound == MemRefresh > 1 => (OfficeSpec => []RecallInv)
<1> SUFFICES ASSUME MemRefresh > 1 PROVE OfficeSpec => []RecallInv
  OBVIOUS
<1> DEFINE IInv == CacheIInv /\ KbIInv /\ ProfileIInv
<1>1. OfficeInit => IInv
  BY CacheInitInv, KbInitInv, ProfileInitInv DEF OfficeInit
<1>2. IInv /\ [OfficeNext]_officeVars => IInv'
  BY OfficeParts, CacheStep, KbStep, ProfileStep
<1>3. IInv => RecallInv
  BY CacheShows, ProfileShows DEF RecallInv, KbIInv
<1> HIDE DEF IInv
<1> QED
  BY <1>1, <1>2, <1>3, PTL DEF OfficeSpec
=============================================================================
