--------------------------- MODULE CampaignProofs ---------------------------
(***************************************************************************)
(* The theorems about the campaign runner, for any contacts, jobs, bounds  *)
(* on concurrency and failures.                                            *)
(***************************************************************************)
EXTENDS Campaign, FiniteSetTheorems, TLAPS

(* Where a job that holds the campaign in _running_campaigns can be. *)
Inside == {"load", "status", "pending", "maxno", "insert", "ramp", "finalize", "setdone",
           "lastcount"}
Outside == {"new", "rearm", "rearmcount", "guard", "over"}

Rows == [status : {"pending", "dialing", "done", "failed"}, attempts : Nat]
Tallies == [status : {"draft", "pending", "running", "done"}, completed : Nat, failed : Nat]
Outcomes == [Phones -> {"none", "dialing", "done", "failed"}]
RunRows == [no : Nat, status : {"running", "done"}, total : Nat, completed : Nat, failed : Nat,
            took : SUBSET Contacts, outcome : Outcomes]
JobStates == [pc : Inside \cup Outside, todo : SUBSET Contacts, no : Nat, run : Nat]
DialStates == Holding \cup {"none", "queued", "over"}
RoomStates == {"none", "ringing", "up", "over", "orphan", "deleted"}

(* The full types, of which CampaignTypeOK names what the code relies on. *)
Types ==
  /\ phone \in [Contacts -> Phones]
  /\ contacts \in [Contacts -> Rows]
  /\ campaign \in Tallies
  /\ history \in Seq(RunRows)
  /\ running \in BOOLEAN /\ configured \in BOOLEAN
  /\ job \in [Jobs -> JobStates]
  /\ dial \in [Jobs -> [Contacts -> DialStates]]
  /\ room \in [Jobs -> [Contacts -> RoomStates]]
  /\ faults \in Nat /\ crashes \in Nat

(* The guard lets one job in, and only the job in its ramp has tasks. *)
OneInside ==
  /\ \A j \in Jobs : job[j].pc \in Inside => running
  /\ \A j, k \in Jobs : job[j].pc \in Inside /\ job[k].pc \in Inside => j = k
  /\ \A j \in Jobs, c \in Contacts : dial[j][c] \notin {"none", "over"} => job[j].pc = "ramp"
  /\ \A j \in Jobs, c \in Contacts :
       dial[j][c] # "none" => job[j].pc \in {"ramp", "finalize", "setdone", "lastcount", "over"}

(* The semaphore. *)
Permits == \A j \in Jobs : Cardinality(HoldingOf(j)) <= MaxConcurrent

(* While the process has not crashed, a phone rings for the task that      *)
(* dialled it; with no trunk none rings.                                   *)
Watched ==
  /\ crashes = 0 => \A j \in Jobs, c \in Contacts : room[j][c] = "ringing" => dial[j][c] = "ring"
  /\ ~configured => \A j \in Jobs, c \in Contacts : room[j][c] # "ringing"

(* Runs are numbered in the order of insertion, because the job that reads *)
(* the highest number inserts before another can, and each is one job's    *)
(* own, open until that job closes it.                                     *)
RunsOwned ==
  /\ \A i \in 1..Len(history) : history[i].no = i
  /\ \A j \in Jobs :
       /\ job[j].run \in 0..Len(history)
       /\ job[j].pc = "insert" => job[j].no = Len(history) + 1
       /\ job[j].pc \notin {"ramp", "finalize", "setdone", "lastcount", "over"} => job[j].run = 0
       /\ job[j].pc \in {"ramp", "finalize"} /\ job[j].run # 0 =>
            history[job[j].run].status = "running"
  /\ \A j, k \in Jobs : job[j].run = job[k].run /\ job[j].run # 0 => j = k

Taken(j) == job[j].todo \cup {c \in Contacts : dial[j][c] # "none"}

(* The task of the contact has its last word to its run still to say.      *)
Unsaid(j, c) == c \in job[j].todo \/ dial[j][c] \notin {"none", "recount", "over"}

(* The account of a job's run while no call has failed.  Contacts that     *)
(* share a phone share its row, so what the row says is settled once the   *)
(* last of them has told it, and it is written for no other phone.         *)
Account(j) ==
  /\ job[j].pc \in {"ramp", "finalize"} /\ job[j].run # 0 =>
       /\ history[job[j].run].took = Taken(j)
       /\ \A c \in job[j].todo : dial[j][c] = "none"
       /\ \A p \in Phones :
            history[job[j].run].outcome[p] # "none" => \E c \in Taken(j) : phone[c] = p
       /\ \A c \in Taken(j) :
            \/ history[job[j].run].outcome[phone[c]] \in {"done", "failed"}
            \/ \E d \in Contacts : phone[d] = phone[c] /\ Unsaid(j, d)
  /\ job[j].pc = "finalize" =>
       job[j].todo = {} /\ \A c \in Contacts : dial[j][c] \in {"none", "over"}

Accounts == \A j \in Jobs : Account(j)

(* The jobs whose task has marked the contact as dialled. *)
Marked(c) == {j \in Jobs : dial[j][c] \notin {"none", "queued", "mark"}}

CampaignIInv ==
  /\ Types /\ OneInside /\ Permits /\ Watched /\ RunsOwned /\ (faults = 0 => Accounts)
  /\ AttemptsAreDials /\ ClosedRunAddsUp /\ NoOrphanRooms

-----------------------------------------------------------------------------

\* The contacts, the phones and the jobs are finite, and the limit is a number.
LEMMA Constants ==
  IsFiniteSet(Contacts) /\ IsFiniteSet(Phones) /\ IsFiniteSet(Jobs) /\ MaxConcurrent \in Nat
BY CampaignAssumption DEF CampaignAssumption

\* Any set of contacts, and any of phones, can be counted.
LEMMA Counts == ASSUME NEW P, P \subseteq Contacts \/ P \subseteq Phones
                PROVE  IsFiniteSet(P) /\ Cardinality(P) \in Nat
BY Constants, FS_Subset, FS_CardinalityType

\* The invariant holds of a runner that has just started.
LEMMA CampaignInitInv == CampaignInit => CampaignIInv
<1> SUFFICES ASSUME CampaignInit PROVE CampaignIInv
  OBVIOUS
<1> USE DEF CampaignInit
<1>1. Types
  <2>1. history \in Seq(RunRows)
    OBVIOUS
  <2>2. /\ phone \in [Contacts -> Phones]
        /\ contacts \in [Contacts -> Rows] /\ campaign \in Tallies
        /\ job \in [Jobs -> JobStates]
    BY DEF Rows, Tallies, JobStates, Inside, Outside
  <2>3. /\ dial \in [Jobs -> [Contacts -> DialStates]]
        /\ room \in [Jobs -> [Contacts -> RoomStates]]
    BY DEF DialStates, RoomStates
  <2> QED
    BY <2>1, <2>2, <2>3 DEF Types
<1>2. OneInside /\ RunsOwned /\ Accounts
  BY DEF OneInside, RunsOwned, Accounts, Account, Inside
<1>3. Permits
  <2>1. \A j \in Jobs : HoldingOf(j) = {}
    BY DEF HoldingOf, Holding
  <2>2. Cardinality({}) <= MaxConcurrent
    BY Constants, FS_EmptySet
  <2> QED
    BY <2>1, <2>2 DEF Permits
<1>4. AttemptsAreDials
  <2> SUFFICES ASSUME NEW c \in Contacts PROVE contacts[c].attempts <= Cardinality(Marked(c))
    BY DEF AttemptsAreDials, Marked
  <2>1. Marked(c) = {}
    BY DEF Marked
  <2>2. Cardinality({}) = 0 /\ contacts[c].attempts = 0
    BY FS_EmptySet
  <2> QED
    BY <2>1, <2>2
<1>5. Watched /\ ClosedRunAddsUp /\ NoOrphanRooms
  BY DEF Watched, ClosedRunAddsUp, NoOrphanRooms
<1> QED
  BY <1>1, <1>2, <1>3, <1>4, <1>5 DEF CampaignIInv

(* m is job but for the row of j. *)
Becomes(m, j, pc, todo, no, run) ==
  /\ m \in [Jobs -> JobStates]
  /\ m[j].pc = pc /\ m[j].todo = todo /\ m[j].no = no /\ m[j].run = run
  /\ \A k \in Jobs : k # j => m[k] = job[k]

\* Moving one job to a place changes that job's place and no other's.
LEMMA BecomePc ==
  ASSUME Types, NEW j \in Jobs, NEW pc \in Inside \cup Outside, job' = [job EXCEPT ![j].pc = pc]
  PROVE  Becomes(job', j, pc, job[j].todo, job[j].no, job[j].run)
BY DEF Becomes, Types, JobStates

\* The same move when the job's remaining contacts change with it.
LEMMA BecomePcTodo ==
  ASSUME Types, NEW j \in Jobs, NEW pc \in Inside \cup Outside, NEW t \in SUBSET Contacts,
         job' = [job EXCEPT ![j].pc = pc, ![j].todo = t]
  PROVE  Becomes(job', j, pc, t, job[j].no, job[j].run)
<1>1. [job[j] EXCEPT !.pc = pc, !.todo = t] \in JobStates
  BY DEF Types, JobStates
<1>2. job' = [job EXCEPT ![j] = [job[j] EXCEPT !.pc = pc, !.todo = t]]
  BY DEF Types
<1> QED
  BY <1>1, <1>2 DEF Becomes, Types, JobStates

\* The move of a job that stays where it is and shortens its list.
LEMMA BecomeTodo ==
  ASSUME Types, NEW j \in Jobs, NEW t \in SUBSET Contacts, job' = [job EXCEPT ![j].todo = t]
  PROVE  Becomes(job', j, job[j].pc, t, job[j].no, job[j].run)
BY DEF Becomes, Types, JobStates

\* The same move when the job counts its attempts anew with it.
LEMMA BecomePcNo ==
  ASSUME Types, NEW j \in Jobs, NEW pc \in Inside \cup Outside, NEW n \in Nat,
         job' = [job EXCEPT ![j].pc = pc, ![j].no = n]
  PROVE  Becomes(job', j, pc, job[j].todo, n, job[j].run)
BY DEF Becomes, Types, JobStates

\* The same move when the job takes a row of the history with it.
LEMMA BecomePcRun ==
  ASSUME Types, NEW j \in Jobs, NEW pc \in Inside \cup Outside, NEW n \in Nat,
         job' = [job EXCEPT ![j].pc = pc, ![j].run = n]
  PROVE  Becomes(job', j, pc, job[j].todo, job[j].no, n)
BY DEF Becomes, Types, JobStates

(* A job's step moves its own place. *)
LEMMA Moved ==
  ASSUME Types, NEW j \in Jobs, NEW p, NEW q \in Inside \cup Outside, At(j, p, q)
  PROVE  /\ job[j].pc = p
         /\ Becomes(job', j, q, job[j].todo, job[j].no, job[j].run)
BY BecomePc DEF At

(* A task's step moves its own place. *)
LEMMA Dialled ==
  ASSUME Types, NEW j \in Jobs, NEW c \in Contacts, NEW p, NEW q \in DialStates,
         DialAt(j, c, p, q)
  PROVE  /\ dial' \in [Jobs -> [Contacts -> DialStates]]
         /\ dial[j][c] = p /\ dial'[j][c] = q
         /\ \A k \in Jobs, d \in Contacts : k # j \/ d # c => dial'[k][d] = dial[k][d]
BY DEF DialAt, Types
(* The counts of the table are counts. *)
LEMMA CountsOf == ASSUME NEW f, DOMAIN f \in {Contacts, Phones}, NEW s PROVE Count(f, s) \in Nat
<1>1. {c \in DOMAIN f : f[c] = s} \subseteq DOMAIN f
  OBVIOUS
<1> QED
  BY <1>1, Counts DEF Count

\* Counting a run's contacts again yields a tally.
LEMMA RecountedType == ASSUME Types PROVE Recounted \in Tallies
<1>1. Count(StatusOf, "done") \in Nat /\ Count(StatusOf, "failed") \in Nat
  BY CountsOf DEF StatusOf
<1>2. campaign \in Tallies
  BY DEF Types
<1> QED
  BY <1>1, <1>2 DEF Recounted, Tallies

\* Closing a row leaves a row.
LEMMA FinalizedType == ASSUME NEW h \in RunRows PROVE Finalized(h) \in RunRows
<1>1. Count(h.outcome, "done") \in Nat /\ Count(h.outcome, "failed") \in Nat
  BY CountsOf DEF RunRows, Outcomes
<1> QED
  BY <1>1 DEF Finalized, RunRows

(* The process dies: its jobs and tasks are over. *)
LEMMA Died ==
  ASSUME Types, Die
  PROVE  /\ job' \in [Jobs -> JobStates] /\ dial' \in [Jobs -> [Contacts -> DialStates]]
         /\ \A j \in Jobs :
              /\ job'[j].pc \in {"new", "over"} /\ job'[j].run = job[j].run
              /\ job'[j].todo = job[j].todo /\ job'[j].no = job[j].no
              /\ job[j].pc = "new" <=> job'[j].pc = "new"
              /\ \A c \in Contacts :
                   /\ dial'[j][c] \in {"none", "over"}
                   /\ dial[j][c] = "none" <=> dial'[j][c] = "none"
<1> USE DEF Die, Types
<1>1. \A j \in Jobs : /\ job'[j] = IF job[j].pc = "new" THEN job[j] ELSE [job[j] EXCEPT !.pc = "over"]
                      /\ job[j] \in JobStates
  OBVIOUS
<1>2. \A r \in JobStates :
        LET s == [r EXCEPT !.pc = "over"]
        IN  s \in JobStates /\ s.pc = "over" /\ s.run = r.run /\ s.todo = r.todo /\ s.no = r.no
  BY DEF JobStates, Outside
<1>3. \A j \in Jobs, c \in Contacts :
        dial'[j][c] = IF dial[j][c] = "none" THEN "none" ELSE "over"
  OBVIOUS
<1>4. job' \in [Jobs -> JobStates] /\ dial' \in [Jobs -> [Contacts -> DialStates]]
  BY <1>1, <1>2 DEF DialStates
<1> QED
  BY <1>1, <1>2, <1>3, <1>4

-----------------------------------------------------------------------------

Late == {"ramp", "finalize", "setdone", "lastcount", "over"}

(* What a job may do to the jobs, the guard and the faults: its own row    *)
(* moves on, into the guard only when nobody is inside, and out of the     *)
(* ramp only when its tasks are done.                                      *)
JobMove(j) ==
  /\ job' \in [Jobs -> JobStates] /\ running' \in BOOLEAN /\ faults' \in Nat
  /\ \A k \in Jobs : k # j => job'[k] = job[k]
  /\ job[j].pc \notin Inside /\ job'[j].pc \in Inside => ~running /\ running'
  /\ job[j].pc \in Inside /\ job'[j].pc \in Inside => running' = running
  /\ job[j].pc \notin Inside /\ job'[j].pc \notin Inside => running' = running
  /\ job[j].pc \in Late => job'[j].pc \in Late
  /\ job[j].pc = "ramp" /\ job'[j].pc # "ramp" =>
       /\ job'[j].pc = "finalize" /\ job[j].todo = {}
       /\ \A c \in Contacts : dial[j][c] \in {"none", "over"}
  /\ job[j].pc # "ramp" /\ job'[j].pc = "ramp" => job[j].pc \in {"maxno", "insert"}
  /\ job'[j].pc = "finalize" => job[j].pc = "ramp"
  /\ UNCHANGED <<phone, dial, room, configured, crashes>>

(* The highest number is the number of rows, as long as rows are numbered  *)
(* in order.                                                               *)
LEMMA NextNumber ==
  ASSUME Types, \A i \in 1..Len(history) : history[i].no = i
  PROVE  NextRunNo = Len(history) + 1
<1>1. Len(history) \in Nat /\ DOMAIN history = 1..Len(history)
  BY DEF Types
<1>2. {0} \cup {history[i].no : i \in DOMAIN history} = 0..Len(history)
  BY <1>1
<1>3. ASSUME NEW n \in Nat PROVE Max(0..n) = n
  <2>1. n \in 0..n /\ \A y \in 0..n : n >= y
    OBVIOUS
  <2>2. \A x \in 0..n : (\A y \in 0..n : x >= y) => x = n
    BY <2>1
  <2> QED
    BY <2>1, <2>2 DEF Max
<1> DEFINE nos == {0} \cup {history[i].no : i \in DOMAIN history}
<1>4. NextRunNo = 1 + Max(nos)
  BY DEF NextRunNo
<1> HIDE DEF nos
<1>5. nos = 0..Len(history)
  BY <1>2 DEF nos
<1> QED
  BY <1>1, <1>3, <1>4, <1>5

\* Which places a step of a job can take it from and to.
LEMMA JobMoves ==
  ASSUME Types, NEW j \in Jobs, NEW onlyFailed \in BOOLEAN,
         \A i \in 1..Len(history) : history[i].no = i,
         \/ PostRun(j) \/ PostRerun(j, onlyFailed) \/ RearmCampaign(j) \/ RearmCount(j)
         \/ Guard(j) \/ LoadCampaign(j) \/ SetRunning(j) \/ PendingContacts(j) \/ SelectMax(j)
         \/ InsertRun(j) \/ Gather(j) \/ FinalizeRun(j) \/ SetDone(j) \/ LastCount(j)
  PROVE  JobMove(j)
<1> USE DEF Works, Fails, Calls, Env, Inside, Outside, Late
<1>0. /\ faults \in Nat /\ faults + 1 \in Nat /\ running \in BOOLEAN
      /\ job[j] \in JobStates /\ Len(history) + 1 \in Nat
  BY DEF Types
<1> DEFINE Rest == UNCHANGED <<phone, dial, room, configured, crashes>> /\ faults' \in Nat
           To(q) == job'[j].pc = q /\ job' \in [Jobs -> JobStates]
                    /\ \A k \in Jobs : k # j => job'[k] = job[k]
<1>1. CASE PostRun(j)
  BY <1>0, <1>1, Moved DEF PostRun, JobMove, Becomes
<1>2. CASE PostRerun(j, onlyFailed)
  <2>1. Rearmed(onlyFailed) \in SUBSET Contacts /\ job[j].pc = "new" /\ Rest /\ UNCHANGED running
    BY <1>0, <1>2 DEF PostRerun, Rearmed
  <2>2. To("rearm") \/ To("over")
    BY ZenonT(60), <1>2, <2>1, BecomePcTodo, BecomePc DEF PostRerun, Becomes
  <2> QED
    BY <1>0, <2>1, <2>2 DEF JobMove
<1>3. CASE RearmCampaign(j)
  BY <1>0, <1>3, Moved DEF RearmCampaign, JobMove, Becomes
<1>4. CASE RearmCount(j)
  BY <1>0, <1>4, Moved DEF RearmCount, JobMove, Becomes
<1>5. CASE Guard(j)
  <2>1. Rest /\ job[j].pc = "guard"
    BY <1>0, <1>5 DEF Guard, At
  <2>2. \/ To("over") /\ UNCHANGED running
        \/ To("load") /\ ~running /\ running' = TRUE
    BY <1>5, Moved DEF Guard, Becomes
  <2> QED
    BY <1>0, <2>1, <2>2 DEF JobMove
<1>6. ASSUME job' = [job EXCEPT ![j].pc = "over"] PROVE To("over")
  BY <1>6, BecomePc DEF Becomes
<1>7. CASE LoadCampaign(j)
  <2>1. Rest /\ job[j].pc = "load"
    BY <1>0, <1>7 DEF LoadCampaign, At
  <2>2. (To("status") /\ UNCHANGED running) \/ (To("over") /\ running' = FALSE)
    BY <1>6, <1>7, Moved DEF LoadCampaign, Leave, Becomes
  <2> QED
    BY <1>0, <2>1, <2>2 DEF JobMove
<1>8. CASE SetRunning(j)
  <2>1. Rest /\ job[j].pc = "status"
    BY <1>0, <1>8 DEF SetRunning
  <2>2. (To("pending") /\ UNCHANGED running) \/ (To("over") /\ running' = FALSE)
    BY <1>6, <1>8, Moved DEF SetRunning, Leave, Becomes
  <2> QED
    BY <1>0, <2>1, <2>2 DEF JobMove
<1>9. CASE PendingContacts(j)
  <2> DEFINE T == {c \in Contacts : contacts[c].status \in {"pending", "failed"}}
  <2>1. T \in SUBSET Contacts /\ {} \in SUBSET Contacts /\ job[j].pc = "pending" /\ Rest
    BY <1>0, <1>9 DEF PendingContacts
  <2>2. CASE job' = [job EXCEPT ![j].pc = "maxno", ![j].todo = T] /\ UNCHANGED running
    <3>1. To("maxno")
      BY <2>1, <2>2, BecomePcTodo DEF Becomes
    <3> QED
      BY <1>0, <2>1, <2>2, <3>1 DEF JobMove
  <2>3. CASE job' = [job EXCEPT ![j].pc = "maxno", ![j].todo = {}] /\ UNCHANGED running
    <3>1. To("maxno")
      BY <2>1, <2>3, BecomePcTodo DEF Becomes
    <3> QED
      BY <1>0, <2>1, <2>3, <3>1 DEF JobMove
  <2>4. CASE Leave(j)
    <3>1. To("over") /\ running' = FALSE
      BY <1>6, <2>4 DEF Leave
    <3> QED
      BY <1>0, <2>1, <3>1 DEF JobMove
  <2> QED
    BY <1>9, <2>2, <2>3, <2>4 DEF PendingContacts
<1>10. CASE SelectMax(j)
  <2>1. NextRunNo \in Nat
    BY <1>0, NextNumber
  <2>2. Rest /\ UNCHANGED running /\ job[j].pc = "maxno"
    BY <1>0, <1>10 DEF SelectMax
  <2>3. CASE job' = [job EXCEPT ![j].pc = "insert", ![j].no = NextRunNo]
    <3>1. To("insert")
      BY <2>1, <2>3, BecomePcNo DEF Becomes
    <3> QED
      BY <1>0, <2>2, <3>1 DEF JobMove
  <2>4. CASE job' = [job EXCEPT ![j].pc = "ramp"]
    <3>1. To("ramp")
      BY <2>4, BecomePc DEF Becomes
    <3> QED
      BY <1>0, <2>2, <3>1 DEF JobMove
  <2> QED
    BY <1>10, <2>3, <2>4 DEF SelectMax
<1>11. CASE InsertRun(j)
  <2>1. Rest /\ UNCHANGED running /\ job[j].pc = "insert"
    BY <1>0, <1>11 DEF InsertRun
  <2>2. CASE job' = [job EXCEPT ![j].pc = "ramp", ![j].run = Len(history) + 1]
    <3>1. To("ramp")
      BY <1>0, <2>2, BecomePcRun DEF Becomes
    <3> QED
      BY <1>0, <2>1, <3>1 DEF JobMove
  <2>3. CASE job' = [job EXCEPT ![j].pc = "ramp"]
    <3>1. To("ramp")
      BY <2>3, BecomePc DEF Becomes
    <3> QED
      BY <1>0, <2>1, <3>1 DEF JobMove
  <2> QED
    BY <1>11, <2>2, <2>3 DEF InsertRun
<1>12. CASE Gather(j)
  BY <1>0, <1>12, Moved DEF Gather, JobMove, Becomes
<1>13. CASE FinalizeRun(j) \/ SetDone(j)
  BY <1>0, <1>13, Moved DEF FinalizeRun, SetDone, JobMove, Becomes
<1>14. CASE LastCount(j)
  <2>1. Rest /\ job[j].pc = "lastcount" /\ running' = FALSE /\ To("over")
    BY <1>0, <1>6, <1>14 DEF LastCount, Leave
  <2> QED
    BY <1>0, <2>1 DEF JobMove
<1> QED
  BY <1>1, <1>2, <1>3, <1>4, <1>5, <1>7, <1>8, <1>9, <1>10, <1>11, <1>12, <1>13, <1>14

(* What a task may do: its own place moves on, it starts in the ramp, and  *)
(* it comes into the semaphore only when there is a permit.                *)
DialMove(j, c) ==
  /\ job' \in [Jobs -> JobStates] /\ dial' \in [Jobs -> [Contacts -> DialStates]]
  /\ room' \in [Jobs -> [Contacts -> RoomStates]] /\ faults' \in Nat
  /\ \A k \in Jobs :
       /\ job'[k].pc = job[k].pc /\ job'[k].no = job[k].no /\ job'[k].run = job[k].run
       /\ job'[k].todo = IF k = j /\ dial[j][c] = "none" THEN job[j].todo \ {c} ELSE job[k].todo
       /\ \A d \in Contacts :
            k # j \/ d # c => dial'[k][d] = dial[k][d] /\ room'[k][d] = room[k][d]
  /\ dial[j][c] = "none" => job[j].pc = "ramp" /\ c \in job[j].todo
  /\ dial[j][c] # "over"
  /\ <<dial[j][c], dial'[j][c]>> \in
       {<<"none", "queued">>, <<"queued", "mark">>, <<"mark", "markrun">>, <<"markrun", "dispatch">>,
        <<"dispatch", "ring">>, <<"dispatch", "failed">>, <<"ring", "done">>, <<"ring", "cleanup">>,
        <<"cleanup", "failed">>, <<"done", "donerun">>, <<"failed", "failedrun">>,
        <<"donerun", "recount">>, <<"failedrun", "recount">>, <<"recount", "over">>}
  /\ dial[j][c] = "queued" => Cardinality(HoldingOf(j)) < MaxConcurrent
  /\ UNCHANGED <<phone, running, configured, crashes>>

\* Which places a step of a dial can take it from and to.
LEMMA DialMoves ==
  ASSUME Types, NEW j \in Jobs, NEW c \in Contacts,
         \/ Launch(j, c) \/ Acquire(j, c) \/ MarkDialing(j, c) \/ RecordDialing(j, c)
         \/ Dispatch(j, c) \/ Answered(j, c) \/ SipError(j, c) \/ Cleanup(j, c)
         \/ MarkDone(j, c) \/ RecordDone(j, c) \/ MarkFailed(j, c) \/ RecordFailed(j, c)
         \/ Recount(j, c)
  PROVE  DialMove(j, c)
<1> USE DEF Works, Fails, Calls, Env
<1>0. /\ faults \in Nat /\ faults + 1 \in Nat /\ job \in [Jobs -> JobStates]
      /\ dial \in [Jobs -> [Contacts -> DialStates]]
      /\ room \in [Jobs -> [Contacts -> RoomStates]]
  BY DEF Types
<1> DEFINE From(p, q) ==
             /\ dial' \in [Jobs -> [Contacts -> DialStates]]
             /\ dial[j][c] = p /\ dial'[j][c] = q
             /\ \A k \in Jobs, d \in Contacts : k # j \/ d # c => dial'[k][d] = dial[k][d]
           Rest == faults' \in Nat /\ UNCHANGED <<phone, running, configured, crashes>>
<1>1. ASSUME NEW p, NEW q \in DialStates, DialAt(j, c, p, q) PROVE From(p, q)
  BY <1>1, Dialled
<1>2. CASE Launch(j, c)
  <2>1. Rest /\ UNCHANGED room /\ job[j].pc = "ramp" /\ c \in job[j].todo
    BY <1>0, <1>2 DEF Launch
  <2>2. From("none", "queued")
    BY <1>1, <1>2 DEF Launch, DialStates
  <2>3. job[j].todo \ {c} \in SUBSET Contacts /\ job' = [job EXCEPT ![j].todo = job[j].todo \ {c}]
    BY <1>0, <1>2 DEF Launch, JobStates
  <2>4. Becomes(job', j, job[j].pc, job[j].todo \ {c}, job[j].no, job[j].run)
    BY <2>3, BecomeTodo
  <2> QED
    BY <1>0, <2>1, <2>2, <2>4 DEF DialMove, Becomes
<1>3. CASE Acquire(j, c)
  <2>1. From("queued", "mark")
    BY <1>1, <1>3 DEF Acquire, DialStates, Holding
  <2>2. Rest /\ UNCHANGED <<job, room>> /\ Cardinality(HoldingOf(j)) < MaxConcurrent
    BY <1>0, <1>3 DEF Acquire
  <2> QED
    BY <1>0, <2>1, <2>2 DEF DialMove
<1>4. CASE MarkDialing(j, c) \/ MarkDone(j, c) \/ MarkFailed(j, c)
  <2>1. From("mark", "markrun") \/ From("done", "donerun") \/ From("failed", "failedrun")
    BY <1>1, <1>4 DEF MarkDialing, MarkDone, MarkFailed, UpdateContact, DialStates, Holding
  <2>2. Rest /\ UNCHANGED <<job, room>>
    BY <1>0, <1>4 DEF MarkDialing, MarkDone, MarkFailed, UpdateContact
  <2> QED
    BY <1>0, <2>1, <2>2 DEF DialMove
<1>5. CASE RecordDialing(j, c) \/ RecordDone(j, c) \/ RecordFailed(j, c)
  <2>1. From("markrun", "dispatch") \/ From("donerun", "recount") \/ From("failedrun", "recount")
    BY <1>1, <1>5 DEF RecordDialing, RecordDone, RecordFailed, RecordRunContact, DialStates, Holding
  <2>2. Rest /\ UNCHANGED <<job, room>>
    BY <1>0, <1>5 DEF RecordDialing, RecordDone, RecordFailed, RecordRunContact
  <2> QED
    BY <1>0, <2>1, <2>2 DEF DialMove
<1>6. CASE Recount(j, c)
  <2>1. From("recount", "over")
    BY <1>1, <1>6 DEF Recount, DialStates, Holding
  <2>2. Rest /\ UNCHANGED <<job, room>>
    BY <1>0, <1>6 DEF Recount
  <2> QED
    BY <1>0, <2>1, <2>2 DEF DialMove
<1>7. CASE Dispatch(j, c) \/ Answered(j, c) \/ SipError(j, c) \/ Cleanup(j, c)
  <2>1. \/ From("dispatch", "ring") \/ From("dispatch", "failed") \/ From("cleanup", "failed")
        \/ From("ring", "done") \/ From("ring", "cleanup")
    BY <1>1, <1>7 DEF Dispatch, Answered, SipError, Cleanup, DialStates, Holding
  <2>2. Rest /\ UNCHANGED job
    BY <1>0, <1>7 DEF Dispatch, Answered, SipError, Cleanup
  <2>3. UNCHANGED room \/ \E v \in RoomStates : room' = [room EXCEPT ![j][c] = v]
    BY <1>7 DEF Dispatch, Answered, SipError, Cleanup, RoomStates
  <2>4. /\ room' \in [Jobs -> [Contacts -> RoomStates]]
        /\ \A k \in Jobs, d \in Contacts : k # j \/ d # c => room'[k][d] = room[k][d]
    <3>1. ASSUME NEW v \in RoomStates, room' = [room EXCEPT ![j][c] = v]
          PROVE  /\ room' \in [Jobs -> [Contacts -> RoomStates]]
                 /\ \A k \in Jobs, d \in Contacts : k # j \/ d # c => room'[k][d] = room[k][d]
      BY <1>0, <3>1
    <3> QED
      BY <1>0, <2>3, <3>1
  <2> QED
    BY <1>0, <2>1, <2>2, <2>4 DEF DialMove
<1> QED
  BY <1>2, <1>3, <1>4, <1>5, <1>6, <1>7

-----------------------------------------------------------------------------

(* What a job's step writes to the tables.                                 *)
NewRun(j) == [no |-> job[j].no, status |-> "running", total |-> Cardinality(job[j].todo),
              completed |-> 0, failed |-> 0, took |-> job[j].todo,
              outcome |-> [p \in Phones |-> "none"]]

JobWrite(j) ==
  /\ contacts' \in [Contacts -> Rows] /\ campaign' \in Tallies /\ faults' >= faults
  /\ \A c \in Contacts : contacts'[c].attempts <= contacts[c].attempts
  /\ job[j].pc \notin {"new", "pending"} => job'[j].todo = job[j].todo
  /\ job'[j].pc = "insert" => job'[j].no = Len(history) + 1 /\ job[j].pc = "maxno"
  /\ \/ job'[j].run = job[j].run /\ UNCHANGED history
     \/ /\ job[j].pc = "insert" /\ job'[j].pc = "ramp" /\ job'[j].run = Len(history) + 1
        /\ history' = Append(history, NewRun(j))
     \/ /\ job[j].pc = "finalize" /\ job'[j].pc = "setdone"
        /\ job[j].run # 0 /\ job'[j].run = job[j].run
        /\ history' = [history EXCEPT ![job[j].run] = Finalized(history[job[j].run])]

\* What a step of a job writes of the table of runs and contacts.
LEMMA JobWrites ==
  ASSUME Types, NEW j \in Jobs, NEW onlyFailed \in BOOLEAN,
         \A i \in 1..Len(history) : history[i].no = i,
         \/ PostRun(j) \/ PostRerun(j, onlyFailed) \/ RearmCampaign(j) \/ RearmCount(j)
         \/ Guard(j) \/ LoadCampaign(j) \/ SetRunning(j) \/ PendingContacts(j) \/ SelectMax(j)
         \/ InsertRun(j) \/ Gather(j) \/ FinalizeRun(j) \/ SetDone(j) \/ LastCount(j)
  PROVE  JobWrite(j)
<1> USE DEF Works, Fails, Calls, Env, Table, Inside, Outside
<1>0. /\ faults \in Nat /\ faults + 1 >= faults /\ faults >= faults
      /\ contacts \in [Contacts -> Rows] /\ campaign \in Tallies /\ job[j] \in JobStates
      /\ \A c \in Contacts : contacts[c].attempts \in Nat
  BY DEF Types, Rows
<1> DEFINE Rest == UNCHANGED <<contacts, history>> /\ faults' >= faults
           To(q) == job'[j].pc = q /\ job'[j].todo = job[j].todo /\ job'[j].run = job[j].run
<1>1. ASSUME NEW p, NEW q \in (Inside \cup Outside) \ {"insert"}, At(j, p, q) PROVE To(q)
  BY <1>1, Moved DEF Becomes
<1>2. ASSUME Leave(j) PROVE To("over")
  BY <1>2, BecomePc DEF Leave, Becomes
<1>3. ASSUME NEW q \in (Inside \cup Outside) \ {"insert"}, To(q), Rest, campaign' \in Tallies
      PROVE  JobWrite(j)
  BY <1>0, <1>3 DEF JobWrite
<1>4. CASE PostRun(j) \/ Guard(j) \/ LoadCampaign(j) \/ Gather(j)
  <2>1. Rest /\ campaign' \in Tallies
    BY <1>0, <1>4 DEF PostRun, Guard, LoadCampaign, Gather
  <2>2. PICK q \in (Inside \cup Outside) \ {"insert"} : To(q)
    BY <1>1, <1>2, <1>4 DEF PostRun, Guard, LoadCampaign, Gather
  <2> QED
    BY <1>3, <2>1, <2>2
<1>5. CASE PostRerun(j, onlyFailed)
  <2>1. Rearmed(onlyFailed) \in SUBSET Contacts /\ job[j].pc = "new" /\ faults' >= faults
        /\ UNCHANGED <<history, campaign>>
    BY <1>0, <1>5 DEF PostRerun, Rearmed
  <2>2. job'[j].run = job[j].run /\ job'[j].pc \in {"rearm", "over"}
    BY ZenonT(60), <1>5, <2>1, BecomePcTodo, BecomePc DEF PostRerun, Becomes
  <2>3. \/ UNCHANGED contacts
        \/ contacts' = [c \in Contacts |->
             IF c \in Rearmed(onlyFailed) THEN [status |-> "pending", attempts |-> 0]
                                          ELSE contacts[c]]
    BY <1>5 DEF PostRerun
  <2>4. /\ contacts' \in [Contacts -> Rows]
        /\ \A c \in Contacts : contacts'[c].attempts <= contacts[c].attempts
    BY <1>0, <2>3 DEF Rows
  <2> QED
    BY <1>0, <2>1, <2>2, <2>4 DEF JobWrite
<1>6. CASE RearmCampaign(j) \/ RearmCount(j) \/ SetDone(j) \/ SetRunning(j) \/ LastCount(j)
  <2>1. Rest
    BY <1>0, <1>6 DEF RearmCampaign, RearmCount, SetDone, SetRunning, LastCount
  <2>2. campaign' \in Tallies
    BY <1>0, <1>6, RecountedType
       DEF RearmCampaign, RearmCount, SetDone, SetRunning, LastCount, Tallies
  <2>3. PICK q \in (Inside \cup Outside) \ {"insert"} : To(q)
    BY <1>1, <1>2, <1>6 DEF RearmCampaign, RearmCount, SetDone, SetRunning, LastCount
  <2> QED
    BY <1>3, <2>1, <2>2, <2>3
<1>7. CASE PendingContacts(j)
  <2> DEFINE T == {c \in Contacts : contacts[c].status \in {"pending", "failed"}}
  <2>1. T \in SUBSET Contacts /\ {} \in SUBSET Contacts /\ job[j].pc = "pending" /\ Rest
        /\ UNCHANGED campaign
    BY <1>0, <1>7 DEF PendingContacts
  <2>2. \/ job' = [job EXCEPT ![j].pc = "maxno", ![j].todo = T]
        \/ job' = [job EXCEPT ![j].pc = "maxno", ![j].todo = {}]
        \/ Leave(j)
    BY <1>7 DEF PendingContacts
  <2> HIDE DEF T
  <2>3. job'[j].run = job[j].run /\ job'[j].pc \in {"maxno", "over"}
    BY <1>2, <2>1, <2>2, BecomePcTodo DEF Becomes
  <2> QED
    BY <1>0, <2>1, <2>3 DEF JobWrite
<1>8. CASE SelectMax(j)
  <2>1. NextRunNo \in Nat /\ NextRunNo = Len(history) + 1 /\ Rest /\ UNCHANGED campaign /\ job[j].pc = "maxno"
    BY <1>0, <1>8, NextNumber DEF SelectMax, Types
  <2>2. \/ job' = [job EXCEPT ![j].pc = "insert", ![j].no = NextRunNo]
        \/ job' = [job EXCEPT ![j].pc = "ramp"]
    BY <1>8 DEF SelectMax
  <2>3. /\ job'[j].run = job[j].run /\ job'[j].todo = job[j].todo
        /\ \/ job'[j].pc = "insert" /\ job'[j].no = NextRunNo
           \/ job'[j].pc = "ramp"
    <3>1. CASE job' = [job EXCEPT ![j].pc = "insert", ![j].no = NextRunNo]
      BY ZenonT(60), <2>1, <3>1, BecomePcNo DEF Becomes
    <3>2. CASE job' = [job EXCEPT ![j].pc = "ramp"]
      BY <3>2, BecomePc DEF Becomes
    <3> QED
      BY <2>2, <3>1, <3>2
  <2> QED
    BY <1>0, <2>1, <2>3 DEF JobWrite
<1>9. CASE InsertRun(j)
  <2>1. UNCHANGED <<contacts, campaign>> /\ faults' >= faults /\ job[j].pc = "insert"
        /\ Len(history) + 1 \in Nat
    BY <1>0, <1>9 DEF InsertRun, Types
  <2>2. \/ /\ job' = [job EXCEPT ![j].pc = "ramp", ![j].run = Len(history) + 1]
           /\ history' = Append(history, NewRun(j))
        \/ job' = [job EXCEPT ![j].pc = "ramp"] /\ UNCHANGED history
    BY <1>9 DEF InsertRun, NewRun
  <2>3. /\ job'[j].todo = job[j].todo /\ job'[j].pc = "ramp"
        /\ \/ job'[j].run = Len(history) + 1 /\ history' = Append(history, NewRun(j))
           \/ job'[j].run = job[j].run /\ UNCHANGED history
    <3>1. ASSUME job' = [job EXCEPT ![j].pc = "ramp", ![j].run = Len(history) + 1]
          PROVE  job'[j].todo = job[j].todo /\ job'[j].pc = "ramp" /\ job'[j].run = Len(history) + 1
      BY <2>1, <3>1, BecomePcRun DEF Becomes
    <3>2. ASSUME job' = [job EXCEPT ![j].pc = "ramp"]
          PROVE  job'[j].todo = job[j].todo /\ job'[j].pc = "ramp" /\ job'[j].run = job[j].run
      BY <3>2, BecomePc DEF Becomes
    <3> QED
      BY <2>2, <3>1, <3>2
  <2> QED
    BY <1>0, <2>1, <2>3 DEF JobWrite
<1>10. CASE FinalizeRun(j)
  <2>1. To("setdone") /\ job[j].pc = "finalize"
    BY <1>1, <1>10 DEF FinalizeRun, At
  <2>2. UNCHANGED <<contacts, campaign>> /\ faults' >= faults
    BY <1>0, <1>10 DEF FinalizeRun
  <2>3. \/ UNCHANGED history
        \/ job[j].run # 0 /\ history' = [history EXCEPT ![job[j].run] = Finalized(history[job[j].run])]
    BY <1>10 DEF FinalizeRun
  <2> QED
    BY <1>0, <2>1, <2>2, <2>3 DEF JobWrite
<1> QED
  BY <1>4, <1>5, <1>6, <1>7, <1>8, <1>9, <1>10

(* What a task writes: its contact's row and, if its job has a run, the    *)
(* contact's outcome there; a room is open behind a failed call only if a  *)
(* call to LiveKit failed.                                                 *)
DialWrite(j, c) ==
  /\ contacts' \in [Contacts -> Rows] /\ campaign' \in Tallies /\ faults' >= faults
  /\ \A d \in Contacts :
       \/ contacts'[d].attempts = contacts[d].attempts
       \/ d = c /\ dial[j][c] = "mark" /\ contacts'[d].attempts = contacts[d].attempts + 1
  /\ \/ UNCHANGED history
     \/ job[j].run = 0 /\ UNCHANGED history
     \/ /\ job[j].run # 0
        /\ \E s \in {"dialing", "done", "failed"} :
             /\ <<dial[j][c], s>> \in {<<"markrun", "dialing">>, <<"donerun", "done">>,
                                        <<"failedrun", "failed">>}
             /\ history' = [history EXCEPT ![job[j].run].outcome[phone[c]] = s]
  /\ dial[j][c] \in {"donerun", "failedrun"} /\ faults' = 0 /\ job[j].run # 0 =>
       history' = [history EXCEPT ![job[j].run].outcome[phone[c]] =
                     IF dial[j][c] = "donerun" THEN "done" ELSE "failed"]
  /\ dial[j][c] \in {"dispatch", "cleanup"} /\ dial'[j][c] = "failed" /\ faults' = 0 =>
       room'[j][c] = "deleted"
  /\ dial[j][c] = "failed" => UNCHANGED room
  /\ room'[j][c] = "ringing" =>
       (configured /\ dial'[j][c] = "ring") \/ (room[j][c] = "ringing" /\ dial[j][c] # "ring")

(* A call changes with no task at it: nothing but its room does.           *)
RoomMove(j, c) ==
  /\ UNCHANGED <<phone, contacts, campaign, history, running, job, dial, configured, faults, crashes>>
  /\ room[j][c] = "up" \/ room[j][c] = "ringing"
  /\ \E v \in {"up", "over"} : room' = [room EXCEPT ![j][c] = v]

(* The process dies, by a crash or at a dial without a trunk.              *)
Death == Die /\ UNCHANGED faults /\ (crashes' = crashes + 1 \/ (~configured /\ UNCHANGED crashes))

\* What a step of a dial writes of the table of runs and contacts.
LEMMA DialWrites ==
  ASSUME Types, NEW j \in Jobs, NEW c \in Contacts,
         \/ Launch(j, c) \/ Acquire(j, c) \/ MarkDialing(j, c) \/ RecordDialing(j, c)
         \/ Dispatch(j, c) \/ Answered(j, c) \/ SipError(j, c) \/ Cleanup(j, c)
         \/ MarkDone(j, c) \/ RecordDone(j, c) \/ MarkFailed(j, c) \/ RecordFailed(j, c)
         \/ Recount(j, c)
  PROVE  DialWrite(j, c)
<1> USE DEF Works, Fails, Calls, Env, Table
<1>0. /\ faults \in Nat /\ faults + 1 >= faults /\ faults >= faults /\ faults + 1 # 0
      /\ contacts \in [Contacts -> Rows] /\ campaign \in Tallies
      /\ \A d \in Contacts : contacts[d].attempts \in Nat
      /\ dial \in [Jobs -> [Contacts -> DialStates]]
      /\ room \in [Jobs -> [Contacts -> RoomStates]]
  BY DEF Types, Rows
<1> DEFINE Rest == contacts' \in [Contacts -> Rows] /\ campaign' \in Tallies /\ faults' >= faults
<1>1. CASE Launch(j, c) \/ Acquire(j, c)
  <2>1. UNCHANGED <<Table, room>> /\ dial[j][c] \in {"none", "queued"} /\ Rest
    BY <1>0, <1>1 DEF Launch, Acquire, DialAt
  <2> QED
    BY <1>0, <2>1 DEF DialWrite
<1>6. CASE Answered(j, c) \/ SipError(j, c)
  <2>1. UNCHANGED Table /\ dial[j][c] = "ring" /\ Rest
    BY <1>0, <1>6 DEF Answered, SipError, DialAt
  <2>2. room'[j][c] # "ringing"
    BY <1>0, <1>6 DEF Answered, SipError
  <2> QED
    BY <1>0, <2>1, <2>2 DEF DialWrite
<1>2. CASE MarkDialing(j, c) \/ MarkDone(j, c) \/ MarkFailed(j, c)
  <2>1. UNCHANGED <<history, campaign, room>> /\ faults' >= faults
    BY <1>0, <1>2 DEF MarkDialing, MarkDone, MarkFailed, UpdateContact
  <2>2. PICK s \in {"dialing", "done", "failed"}, b \in {0, 1} :
          /\ \/ contacts' = Updated(c, s, b) \/ UNCHANGED contacts
          /\ \/ dial[j][c] = "mark" /\ b = 1
             \/ dial[j][c] = "done" /\ b = 0
             \/ dial[j][c] = "failed" /\ b = 0
    BY <1>2 DEF MarkDialing, MarkDone, MarkFailed, UpdateContact, DialAt
  <2>3. /\ contacts' \in [Contacts -> Rows]
        /\ \A d \in Contacts :
             \/ contacts'[d].attempts = contacts[d].attempts
             \/ d = c /\ b = 1 /\ contacts'[d].attempts = contacts[d].attempts + 1
    BY <1>0, <2>2 DEF Updated, Rows
  <2> QED
    BY <1>0, <2>1, <2>2, <2>3 DEF DialWrite
<1>3. CASE RecordDialing(j, c) \/ RecordDone(j, c) \/ RecordFailed(j, c)
  <2>1. UNCHANGED <<contacts, campaign, room>> /\ faults' >= faults /\ Rest
    BY <1>0, <1>3 DEF RecordDialing, RecordDone, RecordFailed, RecordRunContact
  <2>2. PICK s \in {"dialing", "done", "failed"} :
          /\ \/ history' = Recorded(j, c, s) /\ UNCHANGED faults
             \/ UNCHANGED history /\ faults' = faults + 1
          /\ \/ dial[j][c] = "markrun" /\ s = "dialing"
             \/ dial[j][c] = "donerun" /\ s = "done"
             \/ dial[j][c] = "failedrun" /\ s = "failed"
    BY <1>3 DEF RecordDialing, RecordDone, RecordFailed, RecordRunContact, DialAt
  <2>3. \/ UNCHANGED history /\ (job[j].run = 0 \/ faults' # 0)
        \/ job[j].run # 0 /\ history' = [history EXCEPT ![job[j].run].outcome[phone[c]] = s]
    BY <1>0, <2>2 DEF Recorded
  <2> QED
    BY <1>0, <2>1, <2>2, <2>3 DEF DialWrite
<1>4. CASE Dispatch(j, c) \/ Cleanup(j, c)
  <2>1. UNCHANGED Table /\ Rest
    BY <1>0, <1>4 DEF Dispatch, Cleanup
  <2>2. dial[j][c] \in {"dispatch", "cleanup"}
    BY <1>4 DEF Dispatch, Cleanup, DialAt
  <2>3. dial'[j][c] = "failed" /\ faults' = 0 => room'[j][c] = "deleted"
    BY <1>0, <1>4 DEF Dispatch, Cleanup, DialAt
  <2>4. room'[j][c] = "ringing" =>
          (configured /\ dial'[j][c] = "ring") \/ (room[j][c] = "ringing" /\ dial[j][c] # "ring")
    BY <1>0, <1>4, <2>2 DEF Dispatch, Cleanup, DialAt
  <2> QED
    BY <1>0, <2>1, <2>2, <2>3, <2>4 DEF DialWrite
<1>5. CASE Recount(j, c)
  <2>1. Rest /\ UNCHANGED <<contacts, history, room>> /\ dial[j][c] = "recount"
    BY <1>0, <1>5, RecountedType DEF Recount, DialAt
  <2> QED
    BY <1>0, <2>1 DEF DialWrite
<1> QED
  BY <1>1, <1>2, <1>3, <1>4, <1>5, <1>6

(* A step of the campaign is a job's, a task's, a call's, or a death.      *)
LEMMA Steps ==
  ASSUME Types, RunsOwned, CampaignNext
  PROVE  \/ \E j \in Jobs : JobMove(j) /\ JobWrite(j)
         \/ \E j \in Jobs, c \in Contacts : DialMove(j, c) /\ DialWrite(j, c)
         \/ \E j \in Jobs, c \in Contacts : RoomMove(j, c)
         \/ Death
<1>1. \A i \in 1..Len(history) : history[i].no = i
  BY DEF RunsOwned
<1>2. TRUE \in BOOLEAN
  OBVIOUS
<1>3. ASSUME NEW j \in Jobs, NEW c \in Contacts, HangUp(j, c) \/ AnsweredUnwatched(j, c)
      PROVE  RoomMove(j, c)
  BY <1>3 DEF HangUp, AnsweredUnwatched, RoomMove, Table, Env
<1>4. ASSUME NEW j \in Jobs, NEW c \in Contacts, DialStep(j, c)
      PROVE  (DialMove(j, c) /\ DialWrite(j, c)) \/ Death
  BY <1>4, DialMoves, DialWrites DEF DialStep, DieUnconfigured, Die, Death
<1>5. ASSUME NEW j \in Jobs, NEW onlyFailed \in BOOLEAN,
             PostRun(j) \/ PostRerun(j, onlyFailed) \/ JobStep(j)
      PROVE  \/ JobMove(j) /\ JobWrite(j)
             \/ \E c \in Contacts : DialMove(j, c) /\ DialWrite(j, c)
             \/ Death
  <2>1. CASE \E c \in Contacts : DialStep(j, c)
    BY <1>4, <2>1
  <2> QED
    BY <1>1, <1>5, <2>1, JobMoves, JobWrites DEF JobStep
<1>6. CASE Crash
  BY <1>6 DEF Crash, Die, Death
<1> QED
  BY <1>2, <1>3, <1>5, <1>6 DEF CampaignNext

-----------------------------------------------------------------------------

\* Every step keeps the types.
LEMMA TypesStep == ASSUME Types, RunsOwned, CampaignNext PROVE Types'
<1> USE DEF Types
<1>0. /\ \A j \in Jobs : job[j] \in JobStates /\ job[j].run \in 0..Len(history)
      /\ Len(history) \in Nat /\ \A i \in 1..Len(history) : history[i] \in RunRows
  BY DEF RunsOwned
<1>1. ASSUME NEW j \in Jobs, JobMove(j), JobWrite(j) PROVE Types'
  <2>1. CASE UNCHANGED history
    BY <1>1, <2>1 DEF JobMove, JobWrite
  <2>2. CASE history' = Append(history, NewRun(j))
    <3>1. NewRun(j) \in RunRows
      BY <1>0, Counts DEF NewRun, RunRows, Outcomes, JobStates
    <3> QED
      BY <1>1, <2>2, <3>1 DEF JobMove, JobWrite
  <2>3. CASE job[j].run # 0 /\ history' = [history EXCEPT ![job[j].run] = Finalized(history[job[j].run])]
    <3>1. job[j].run \in 1..Len(history)
      BY <1>0, <2>3
    <3>2. Finalized(history[job[j].run]) \in RunRows
      BY <1>0, <3>1, FinalizedType
    <3> QED
      BY <1>1, <2>3, <3>1, <3>2 DEF JobMove, JobWrite
  <2> QED
    BY <1>1, <2>1, <2>2, <2>3 DEF JobWrite
<1>2. ASSUME NEW j \in Jobs, NEW c \in Contacts, DialMove(j, c), DialWrite(j, c) PROVE Types'
  <2>1. CASE UNCHANGED history
    BY <1>2, <2>1 DEF DialMove, DialWrite
  <2>2. ASSUME job[j].run # 0, NEW s \in {"dialing", "done", "failed"},
               history' = [history EXCEPT ![job[j].run].outcome[phone[c]] = s]
        PROVE  Types'
    <3> DEFINE h == history[job[j].run]
    <3>1. job[j].run \in 1..Len(history) /\ h \in RunRows
      BY <1>0, <2>2
    <3>2. [h EXCEPT !.outcome[phone[c]] = s] \in RunRows
      BY <3>1 DEF RunRows, Outcomes
    <3>3. history' = [history EXCEPT ![job[j].run] = [h EXCEPT !.outcome[phone[c]] = s]]
      BY <2>2
    <3> HIDE DEF h
    <3>4. history' \in Seq(RunRows)
      BY <3>1, <3>2, <3>3
    <3> QED
      BY <1>2, <3>4 DEF DialMove, DialWrite
  <2> QED
    BY <1>2, <2>1, <2>2 DEF DialWrite
<1>3. CASE Death
  <2>1. crashes' \in Nat /\ faults' \in Nat
    BY <1>3 DEF Death
  <2>2. Die
    BY <1>3 DEF Death
  <2> QED
    BY <2>1, <2>2, Died DEF Die, Table
<1>4. ASSUME NEW j \in Jobs, NEW c \in Contacts, RoomMove(j, c) PROVE Types'
  BY <1>4 DEF RoomMove, RoomStates
<1> QED
  BY <1>1, <1>2, <1>3, <1>4, Steps

\* Every step keeps at most one job past the guard.
LEMMA OneInsideStep ==
  ASSUME Types, RunsOwned, OneInside, CampaignNext
  PROVE  OneInside'
<1>1. \A j \in Jobs : job[j] \in JobStates
  BY DEF Types
<1>2. ASSUME NEW j \in Jobs, JobMove(j) PROVE OneInside'
  <2>1. job[j].pc \in Inside \cup Outside /\ job'[j].pc \in Inside \cup Outside
    BY <1>1, <1>2 DEF JobMove, JobStates
  <2>2. \A k \in Jobs : job'[k].pc \in Inside => running'
    BY <1>2, <2>1 DEF JobMove, OneInside
  <2>3. \A k, m \in Jobs : job'[k].pc \in Inside /\ job'[m].pc \in Inside => k = m
    BY <1>2, <2>1 DEF JobMove, OneInside
  <2>4. \A k \in Jobs, c \in Contacts : dial'[k][c] \notin {"none", "over"} => job'[k].pc = "ramp"
    BY <1>2, <2>1 DEF JobMove, OneInside
  <2>5. \A k \in Jobs, c \in Contacts : dial'[k][c] # "none" => job'[k].pc \in Late
    BY <1>2, <2>1 DEF JobMove, OneInside, Late
  <2> QED
    BY <2>2, <2>3, <2>4, <2>5 DEF OneInside, Late
<1>3. ASSUME NEW j \in Jobs, NEW c \in Contacts, DialMove(j, c) PROVE OneInside'
  <2>1. \A k \in Jobs : job'[k].pc = job[k].pc /\ running' = running
    BY <1>3 DEF DialMove
  <2>2. \A k \in Jobs, d \in Contacts :
          /\ dial'[k][d] \notin {"none", "over"} => job[k].pc = "ramp"
          /\ dial'[k][d] # "none" => job[k].pc \in Late
    <3>1. \A k \in Jobs, d \in Contacts : k # j \/ d # c => dial'[k][d] = dial[k][d]
      BY <1>3 DEF DialMove
    <3>2. dial[j][c] = "none" => job[j].pc = "ramp"
      BY <1>3 DEF DialMove
    <3>3. dial[j][c] \notin {"none", "over"} => job[j].pc = "ramp"
      BY DEF OneInside
    <3>4. dial[j][c] # "over"
      BY <1>3 DEF DialMove
    <3>5. job[j].pc = "ramp"
      BY <3>2, <3>3, <3>4
    <3> QED
      BY <3>1, <3>5 DEF OneInside, Late
  <2> QED
    BY <2>1, <2>2 DEF OneInside, Late
<1>4. CASE Death
  BY <1>1, <1>4, Died DEF Death, OneInside, Inside
<1>5. ASSUME NEW j \in Jobs, NEW c \in Contacts, RoomMove(j, c) PROVE OneInside'
  BY <1>5 DEF RoomMove, OneInside
<1> QED
  BY <1>2, <1>3, <1>4, <1>5, Steps

\* Every step keeps the permits and the dials that hold one in balance.
LEMMA PermitsStep ==
  ASSUME Types, RunsOwned, Permits, CampaignNext
  PROVE  Permits'
<1>0. /\ \A k \in Jobs : IsFiniteSet(HoldingOf(k)) /\ Cardinality(HoldingOf(k)) \in Nat
      /\ MaxConcurrent \in Nat
  BY Counts, Constants DEF HoldingOf
<1>1. ASSUME UNCHANGED dial PROVE Permits'
  BY <1>1 DEF Permits, HoldingOf
<1>2. ASSUME NEW j \in Jobs, NEW c \in Contacts, DialMove(j, c) PROVE Permits'
  <2> SUFFICES ASSUME NEW k \in Jobs PROVE Cardinality(HoldingOf(k)') <= MaxConcurrent
    BY DEF Permits
  <2>0. Cardinality(HoldingOf(k)) <= MaxConcurrent
    BY DEF Permits
  <2>1. \A m \in Jobs, d \in Contacts : m # j \/ d # c => dial'[m][d] = dial[m][d]
    BY <1>2 DEF DialMove
  <2>2. CASE k # j
    <3>1. HoldingOf(k)' = HoldingOf(k)
      BY <2>1, <2>2 DEF HoldingOf
    <3> QED
      BY <2>0, <3>1
  <2>3. CASE k = j /\ dial[j][c] = "queued"
    <3>1. HoldingOf(k)' = HoldingOf(k) \cup {c} /\ c \notin HoldingOf(k)
      BY <1>2, <2>1, <2>3 DEF HoldingOf, DialMove, Holding
    <3>2. Cardinality(HoldingOf(k)) < MaxConcurrent
      BY <1>2, <2>3 DEF DialMove
    <3>3. Cardinality(HoldingOf(k) \cup {c}) = Cardinality(HoldingOf(k)) + 1
      BY <1>0, <3>1, FS_AddElement
    <3> QED
      BY <1>0, <3>1, <3>2, <3>3
  <2>4. CASE k = j /\ dial[j][c] # "queued"
    <3>1. dial'[j][c] \in Holding => dial[j][c] \in Holding
      BY <1>2, <2>4 DEF DialMove, Holding
    <3>2. HoldingOf(k)' \subseteq HoldingOf(k)
      BY <2>1, <2>4, <3>1 DEF HoldingOf
    <3>3. Cardinality(HoldingOf(k)') <= Cardinality(HoldingOf(k)) /\ Cardinality(HoldingOf(k)') \in Nat
      BY <1>0, <3>2, FS_Subset, FS_CardinalityType
    <3> QED
      BY <1>0, <2>0, <3>3
  <2> QED
    BY <2>2, <2>3, <2>4
<1>3. CASE Death
  <2>1. \A k \in Jobs : HoldingOf(k)' = {}
    BY <1>3, Died DEF Death, HoldingOf, Holding
  <2>2. Cardinality({}) <= MaxConcurrent
    BY <1>0, FS_EmptySet
  <2> QED
    BY <2>1, <2>2 DEF Permits
<1> QED
  BY <1>1, <1>2, <1>3, Steps DEF JobMove, RoomMove

\* Every step keeps a ringing phone with the task that dialled it.
LEMMA WatchedStep ==
  ASSUME Types, RunsOwned, Watched, CampaignNext
  PROVE  Watched'
<1>0. crashes \in Nat
  BY DEF Types
<1>1. ASSUME NEW j \in Jobs, JobMove(j) PROVE Watched'
  BY <1>1 DEF JobMove, Watched
<1>2. ASSUME NEW j \in Jobs, NEW c \in Contacts, DialMove(j, c), DialWrite(j, c) PROVE Watched'
  <2>1. /\ UNCHANGED <<configured, crashes>>
        /\ \A k \in Jobs, d \in Contacts :
             k # j \/ d # c => dial'[k][d] = dial[k][d] /\ room'[k][d] = room[k][d]
    BY <1>2 DEF DialMove
  <2>2. room'[j][c] = "ringing" =>
          (configured /\ dial'[j][c] = "ring") \/ (room[j][c] = "ringing" /\ dial[j][c] # "ring")
    BY <1>2 DEF DialWrite
  <2> QED
    BY <2>1, <2>2 DEF Watched
<1>3. ASSUME NEW j \in Jobs, NEW c \in Contacts, RoomMove(j, c) PROVE Watched'
  <2>1. \A k \in Jobs, d \in Contacts : room'[k][d] = "ringing" => room[k][d] = "ringing"
    BY <1>3 DEF RoomMove, Types
  <2> QED
    BY <1>3, <2>1 DEF RoomMove, Watched
<1>4. CASE Death
  <2>1. crashes' = 0 => ~configured
    BY <1>0, <1>4 DEF Death
  <2> QED
    BY <1>4, <2>1 DEF Death, Die, Watched
<1> QED
  BY <1>1, <1>2, <1>3, <1>4, Steps

\* Every step keeps the attempts of a contact equal to its dials.
LEMMA AttemptsStep ==
  ASSUME Types, RunsOwned, AttemptsAreDials, CampaignNext
  PROVE  AttemptsAreDials'
<1> SUFFICES ASSUME NEW d \in Contacts PROVE contacts'[d].attempts <= Cardinality(Marked(d)')
  BY DEF AttemptsAreDials, Marked
<1>0. /\ contacts[d].attempts <= Cardinality(Marked(d))
      /\ contacts[d].attempts \in Nat /\ contacts'[d].attempts \in Nat
      /\ IsFiniteSet(Marked(d)) /\ IsFiniteSet(Marked(d)')
      /\ Cardinality(Marked(d)) \in Nat /\ Cardinality(Marked(d)') \in Nat
  <2>1. Types'
    BY TypesStep
  <2>2. contacts[d].attempts \in Nat /\ contacts'[d].attempts \in Nat
    BY <2>1 DEF Types, Rows
  <2>3. Marked(d) \subseteq Jobs /\ Marked(d)' \subseteq Jobs
    BY DEF Marked
  <2> QED
    BY <2>2, <2>3, Constants, FS_Subset, FS_CardinalityType DEF AttemptsAreDials, Marked
<1>1. ASSUME Marked(d) \subseteq Marked(d)', contacts'[d].attempts <= contacts[d].attempts
      PROVE  contacts'[d].attempts <= Cardinality(Marked(d)')
  <2>1. Cardinality(Marked(d)) <= Cardinality(Marked(d)')
    BY <1>0, <1>1, FS_Subset
  <2> QED
    BY <1>0, <1>1, <2>1
<1>2. ASSUME NEW j \in Jobs, JobMove(j), JobWrite(j)
      PROVE  contacts'[d].attempts <= Cardinality(Marked(d)')
  BY <1>1, <1>2 DEF JobMove, JobWrite, Marked
<1>3. ASSUME NEW j \in Jobs, NEW c \in Contacts, DialMove(j, c), DialWrite(j, c)
      PROVE  contacts'[d].attempts <= Cardinality(Marked(d)')
  <2>1. dial[j][c] \notin {"none", "queued", "mark"} => dial'[j][c] \notin {"none", "queued", "mark"}
    BY <1>3 DEF DialMove
  <2>2. Marked(d) \subseteq Marked(d)'
    BY <1>3, <2>1 DEF DialMove, Marked
  <2>3. CASE d = c /\ dial[j][c] = "mark" /\ contacts'[d].attempts = contacts[d].attempts + 1
    <3>1. j \notin Marked(d) /\ j \in Marked(d)'
      BY <1>3, <2>3 DEF DialMove, Marked
    <3>2. Cardinality(Marked(d) \cup {j}) = Cardinality(Marked(d)) + 1 /\ IsFiniteSet(Marked(d) \cup {j})
      BY <1>0, <3>1, FS_AddElement
    <3>3. Cardinality(Marked(d) \cup {j}) <= Cardinality(Marked(d)')
      BY <1>0, <2>2, <3>1, FS_Subset
    <3> QED
      BY <1>0, <2>3, <3>2, <3>3
  <2>4. CASE contacts'[d].attempts = contacts[d].attempts
    BY <1>0, <1>1, <2>2, <2>4
  <2> QED
    BY <1>3, <2>3, <2>4 DEF DialWrite
<1>4. CASE Death
  <2>1. Marked(d) \subseteq Marked(d)' /\ contacts' = contacts
    BY <1>4, Died DEF Death, Die, Table, Marked
  <2> QED
    BY <1>0, <1>1, <2>1
<1>5. ASSUME NEW j \in Jobs, NEW c \in Contacts, RoomMove(j, c)
      PROVE  contacts'[d].attempts <= Cardinality(Marked(d)')
  <2>1. Marked(d)' = Marked(d) /\ contacts' = contacts
    BY <1>5 DEF RoomMove, Marked
  <2> QED
    BY <1>0, <2>1
<1> QED
  BY <1>2, <1>3, <1>4, <1>5, Steps

\* Every step keeps each room with the dial that opened it.
LEMMA OrphansStep ==
  ASSUME Types, RunsOwned, NoOrphanRooms, CampaignNext
  PROVE  NoOrphanRooms'
<1> SUFFICES ASSUME faults' = 0, crashes' = 0, NEW k \in Jobs, NEW d \in Contacts,
                    dial'[k][d] \in {"failed", "failedrun"}
             PROVE  room'[k][d] # "orphan"
  BY DEF NoOrphanRooms
<1>0. faults \in Nat /\ crashes \in Nat
  BY DEF Types
<1>1. ASSUME faults = 0, crashes = 0
      PROVE  dial[k][d] \in {"failed", "failedrun"} => room[k][d] # "orphan"
  BY <1>1 DEF NoOrphanRooms
<1>2. ASSUME NEW j \in Jobs, JobMove(j), JobWrite(j) PROVE room'[k][d] # "orphan"
  BY <1>0, <1>1, <1>2 DEF JobMove, JobWrite
<1>3. ASSUME NEW j \in Jobs, NEW c \in Contacts, DialMove(j, c), DialWrite(j, c)
      PROVE  room'[k][d] # "orphan"
  <2>1. faults = 0 /\ crashes = 0
    <3>1. faults' >= faults
      BY <1>3 DEF DialWrite
    <3>2. crashes' = crashes
      BY <1>3 DEF DialMove
    <3> QED
      BY <1>0, <3>1, <3>2
  <2>2. CASE k # j \/ d # c
    BY <1>1, <1>3, <2>1, <2>2 DEF DialMove
  <2>3. CASE k = j /\ d = c
    <3>1. CASE dial[j][c] = "failed"
      <4>1. room' = room
        BY <1>3, <3>1 DEF DialWrite
      <4> QED
        BY <1>1, <2>1, <2>3, <3>1, <4>1
    <3>2. CASE dial[j][c] # "failed"
      <4>1. dial[j][c] \in {"dispatch", "cleanup"} /\ dial'[j][c] = "failed"
        BY <1>3, <2>3, <3>2 DEF DialMove
      <4>2. room'[j][c] = "deleted"
        BY <1>3, <4>1 DEF DialWrite
      <4> QED
        BY <2>3, <4>2
    <3> QED
      BY <3>1, <3>2
  <2> QED
    BY <2>2, <2>3
<1>4. ~ Death
  BY Died DEF Death
<1>5. ASSUME NEW j \in Jobs, NEW c \in Contacts, RoomMove(j, c) PROVE room'[k][d] # "orphan"
  <2>1. room'[k][d] = room[k][d] \/ room'[k][d] \in {"up", "over"}
    BY <1>5 DEF RoomMove, Types
  <2> QED
    BY <1>1, <1>5, <2>1 DEF RoomMove
<1> QED
  BY <1>2, <1>3, <1>4, <1>5, Steps

-----------------------------------------------------------------------------

(* What the three ways to write the table of runs leave of its rows.       *)
LEMMA Inserted ==
  ASSUME Types, NEW j \in Jobs, history' = Append(history, NewRun(j))
  PROVE  /\ Len(history') = Len(history) + 1 /\ history'[Len(history) + 1] = NewRun(j)
         /\ \A i \in 1..Len(history) : history'[i] = history[i]
<1>1. history \in Seq(RunRows)
  BY DEF Types
<1>2. NewRun(j) \in RunRows
  <2>1. job[j] \in JobStates
    BY DEF Types
  <2> QED
    BY <2>1, Counts DEF NewRun, RunRows, Outcomes, JobStates
<1> QED
  BY <1>1, <1>2

\* Closing a run writes its own row and no other.
LEMMA Closed ==
  ASSUME Types, NEW j \in Jobs, job[j].run \in 1..Len(history),
         history' = [history EXCEPT ![job[j].run] = Finalized(history[job[j].run])]
  PROVE  /\ Len(history') = Len(history) /\ history'[job[j].run] = Finalized(history[job[j].run])
         /\ \A i \in 1..Len(history) : i # job[j].run => history'[i] = history[i]
<1>1. history \in Seq(RunRows)
  BY DEF Types
<1> QED
  BY <1>1

\* What a dial writes of the history is the outcome of its own phone.
LEMMA Tells ==
  ASSUME NEW j \in Jobs, NEW c \in Contacts, DialWrite(j, c)
  PROVE  \/ UNCHANGED history
         \/ /\ job[j].run # 0 /\ dial[j][c] \in {"markrun", "donerun", "failedrun"}
            /\ \E s \in {"dialing", "done", "failed"} :
                 history' = [history EXCEPT ![job[j].run].outcome[phone[c]] = s]
<1>1. CASE UNCHANGED history
  BY <1>1
<1>2. ASSUME job[j].run # 0, NEW s \in {"dialing", "done", "failed"},
             <<dial[j][c], s>> \in {<<"markrun", "dialing">>, <<"donerun", "done">>, <<"failedrun", "failed">>},
             history' = [history EXCEPT ![job[j].run].outcome[phone[c]] = s]
      PROVE  dial[j][c] \in {"markrun", "donerun", "failedrun"}
  BY <1>2
<1> QED
  BY <1>1, <1>2 DEF DialWrite

\* Telling an outcome writes one phone of one run.
LEMMA Told ==
  ASSUME Types, NEW j \in Jobs, NEW c \in Contacts, job[j].run \in 1..Len(history), NEW s,
         history' = [history EXCEPT ![job[j].run].outcome[phone[c]] = s]
  PROVE  LET r == job[j].run
         IN  /\ Len(history') = Len(history)
             /\ history'[r].no = history[r].no /\ history'[r].status = history[r].status
             /\ history'[r].took = history[r].took
             /\ history'[r].completed = history[r].completed /\ history'[r].failed = history[r].failed
             /\ \A p \in Phones : p # phone[c] => history'[r].outcome[p] = history[r].outcome[p]
             /\ \A i \in 1..Len(history) : i # r => history'[i] = history[i]
<1> DEFINE h == history[job[j].run]
<1>1. history \in Seq(RunRows) /\ h \in RunRows
  BY DEF Types
<1>2. history' = [history EXCEPT ![job[j].run] = [h EXCEPT !.outcome[phone[c]] = s]]
  OBVIOUS
<1>3. LET g == [h EXCEPT !.outcome[phone[c]] = s]
      IN  /\ g.no = h.no /\ g.status = h.status /\ g.took = h.took
          /\ g.completed = h.completed /\ g.failed = h.failed
          /\ \A p \in Phones : p # phone[c] => g.outcome[p] = h.outcome[p]
  BY <1>1 DEF RunRows, Outcomes
<1> QED
  BY <1>1, <1>2, <1>3

(* ... and what it writes there.                                           *)
LEMMA ToldIt ==
  ASSUME Types, NEW j \in Jobs, NEW c \in Contacts, job[j].run \in 1..Len(history), NEW s,
         history' = [history EXCEPT ![job[j].run].outcome[phone[c]] = s]
  PROVE  history'[job[j].run].outcome[phone[c]] = s
<1> DEFINE h == history[job[j].run]
<1>1. history \in Seq(RunRows) /\ h \in RunRows
  BY DEF Types
<1>2. history'[job[j].run] = [h EXCEPT !.outcome[phone[c]] = s]
  BY <1>1
<1>3. [h EXCEPT !.outcome[phone[c]] = s].outcome[phone[c]] = s
  BY <1>1 DEF Types, RunRows, Outcomes
<1> QED
  BY <1>2, <1>3

\* Every step keeps each open run with the one job inside.
LEMMA RunsOwnedStep ==
  ASSUME Types, OneInside, RunsOwned, CampaignNext
  PROVE  RunsOwned'
<1>0. /\ \A j \in Jobs : job[j] \in JobStates
      /\ Len(history) \in Nat /\ \A i \in 1..Len(history) : history[i] \in RunRows
  BY DEF Types
<1>1. ASSUME NEW j \in Jobs, JobMove(j), JobWrite(j) PROVE RunsOwned'
  <2>0. job'[j].pc = "insert" => job'[j].no = Len(history) + 1 /\ UNCHANGED history
    BY <1>1 DEF JobWrite
  <2>1. CASE job'[j].run = job[j].run /\ UNCHANGED history
    <3>1. job'[j].pc \notin Late => job[j].run = 0
      BY <1>1 DEF RunsOwned, JobMove, Late
    <3>2. job'[j].pc \in {"ramp", "finalize"} /\ job[j].run # 0 => job[j].pc = "ramp"
      BY <1>1 DEF RunsOwned, JobMove, Late
    <3>3. /\ job'[j].pc \in {"ramp", "finalize"} /\ job[j].run # 0 =>
               history[job[j].run].status = "running"
      BY <3>2 DEF RunsOwned
    <3> QED
      BY <1>0, <1>1, <2>0, <2>1, <3>1, <3>3 DEF RunsOwned, JobMove, Late
  <2>2. CASE /\ job[j].pc = "insert" /\ job'[j].pc = "ramp" /\ job'[j].run = Len(history) + 1
             /\ history' = Append(history, NewRun(j))
    <3>1. /\ Len(history') = Len(history) + 1 /\ history'[Len(history) + 1] = NewRun(j)
          /\ \A i \in 1..Len(history) : history'[i] = history[i]
      BY <2>2, Inserted
    <3>2. NewRun(j).no = Len(history) + 1 /\ NewRun(j).status = "running"
      BY <2>2 DEF NewRun, RunsOwned
    <3>3. \A k \in Jobs : k # j => job'[k] = job[k] /\ job[k].pc \notin Inside
      BY <1>1, <2>2 DEF JobMove, OneInside, Inside
    <3>4. \A i \in 1..Len(history') : history'[i].no = i
      BY <1>0, <3>1, <3>2 DEF RunsOwned
    <3>5. \A k, m \in Jobs : job'[k].run = job'[m].run /\ job'[k].run # 0 => k = m
      BY <1>0, <2>2, <3>3 DEF RunsOwned
    <3> QED
      BY <1>0, <2>2, <3>1, <3>2, <3>3, <3>4, <3>5 DEF RunsOwned, Inside
  <2>3. CASE /\ job[j].pc = "finalize" /\ job'[j].pc = "setdone"
             /\ job[j].run # 0 /\ job'[j].run = job[j].run
             /\ history' = [history EXCEPT ![job[j].run] = Finalized(history[job[j].run])]
    <3>1. job[j].run \in 1..Len(history)
      BY <1>0, <2>3 DEF RunsOwned
    <3>2. /\ Len(history') = Len(history) /\ history'[job[j].run] = Finalized(history[job[j].run])
          /\ \A i \in 1..Len(history) : i # job[j].run => history'[i] = history[i]
      BY <2>3, <3>1, Closed
    <3>3. Finalized(history[job[j].run]).no = history[job[j].run].no
      BY <1>0, <3>1 DEF Finalized, RunRows
    <3>4. \A k \in Jobs : k # j => job'[k] = job[k] /\ (job[k].run # 0 => job[k].run # job[j].run)
      BY <1>1 DEF JobMove, RunsOwned
    <3>5. \A i \in 1..Len(history') : history'[i].no = i
      BY <1>0, <3>1, <3>2, <3>3 DEF RunsOwned
    <3> QED
      BY <1>0, <2>3, <3>1, <3>2, <3>4, <3>5 DEF RunsOwned
  <2> QED
    BY <1>1, <2>1, <2>2, <2>3 DEF JobWrite
<1>2. ASSUME NEW j \in Jobs, NEW c \in Contacts, DialMove(j, c), DialWrite(j, c)
      PROVE  RunsOwned'
  <2>1. \A k \in Jobs : job'[k].pc = job[k].pc /\ job'[k].no = job[k].no /\ job'[k].run = job[k].run
    BY <1>2 DEF DialMove
  <2>2. CASE UNCHANGED history
    BY <2>1, <2>2 DEF RunsOwned
  <2>3. ASSUME job[j].run # 0, NEW s, history' = [history EXCEPT ![job[j].run].outcome[phone[c]] = s]
        PROVE  RunsOwned'
    <3>1. job[j].run \in 1..Len(history)
      BY <1>0, <2>3 DEF RunsOwned
    <3>2. /\ Len(history') = Len(history)
          /\ \A i \in 1..Len(history) :
               history'[i].no = history[i].no /\ history'[i].status = history[i].status
      BY <2>3, <3>1, Told
    <3> QED
      BY <1>0, <2>1, <3>2 DEF RunsOwned
  <2> QED
    BY <1>2, <2>2, <2>3 DEF DialWrite
<1>3. CASE Death
  BY <1>3, Died DEF Death, Die, Table, RunsOwned
<1>4. ASSUME NEW j \in Jobs, NEW c \in Contacts, RoomMove(j, c) PROVE RunsOwned'
  BY <1>4 DEF RoomMove, RunsOwned
<1> QED
  BY <1>1, <1>2, <1>3, <1>4, Steps

(* A closed run belongs to no job that writes.                             *)
LEMMA ClosedStep ==
  ASSUME Types, OneInside, RunsOwned, CampaignNext,
         NEW i \in DOMAIN history, history[i].status = "done"
  PROVE  i \in DOMAIN history' /\ history'[i] = history[i]
<1>0. /\ Len(history) \in Nat /\ i \in 1..Len(history) /\ history \in Seq(RunRows)
      /\ Types'
  BY TypesStep DEF Types
<1>00. DOMAIN history' = 1..Len(history')
  BY <1>0 DEF Types
<1>1. ASSUME NEW j \in Jobs, JobMove(j), JobWrite(j)
      PROVE  Len(history') >= Len(history) /\ history'[i] = history[i]
  <2>1. CASE UNCHANGED history
    BY <1>0, <2>1
  <2>2. CASE history' = Append(history, NewRun(j))
    BY <1>0, <2>2, Inserted
  <2>3. CASE /\ job[j].pc = "finalize" /\ job[j].run # 0
             /\ history' = [history EXCEPT ![job[j].run] = Finalized(history[job[j].run])]
    <3>1. job[j].run \in 1..Len(history) /\ job[j].run # i
      BY <1>0, <2>3 DEF RunsOwned
    <3> QED
      BY <1>0, <2>3, <3>1, Closed
  <2> QED
    BY <1>1, <2>1, <2>2, <2>3 DEF JobWrite
<1>2. ASSUME NEW j \in Jobs, NEW c \in Contacts, DialMove(j, c), DialWrite(j, c)
      PROVE  Len(history') >= Len(history) /\ history'[i] = history[i]
  <2>1. CASE UNCHANGED history
    BY <1>0, <2>1
  <2>2. ASSUME job[j].run # 0, dial[j][c] \in {"markrun", "donerun", "failedrun"},
               NEW s, history' = [history EXCEPT ![job[j].run].outcome[phone[c]] = s]
        PROVE  Len(history') >= Len(history) /\ history'[i] = history[i]
    <3>1. job[j].pc = "ramp"
      BY <2>2 DEF OneInside
    <3>2. job[j].run \in 1..Len(history) /\ job[j].run # i
      BY <1>0, <2>2, <3>1 DEF RunsOwned
    <3> QED
      <4>1. Len(history') = Len(history) /\ \A k \in 1..Len(history) : k # job[j].run => history'[k] = history[k]
        BY <2>2, <3>2, Told
      <4> QED
        BY <1>0, <3>2, <4>1
  <2>3. \/ UNCHANGED history
        \/ /\ job[j].run # 0 /\ dial[j][c] \in {"markrun", "donerun", "failedrun"}
           /\ \E s \in {"dialing", "done", "failed"} :
                history' = [history EXCEPT ![job[j].run].outcome[phone[c]] = s]
    BY <1>2, Tells
  <2> QED
    BY <2>1, <2>2, <2>3
<1>3. CASE Death \/ \E j \in Jobs, c \in Contacts : RoomMove(j, c)
  BY <1>0, <1>3 DEF Death, Die, Table, RoomMove
<1> QED
  BY <1>0, <1>00, <1>1, <1>2, <1>3, Steps

-----------------------------------------------------------------------------

(* A job whose row, tasks and run do not move keeps its account.           *)
LEMMA AccountKept ==
  ASSUME NEW k \in Jobs, Account(k), job'[k] = job[k], UNCHANGED phone,
         \A d \in Contacts : dial'[k][d] = dial[k][d],
         job[k].run # 0 => history'[job[k].run] = history[job[k].run], job[k].todo \subseteq Contacts
  PROVE  Account(k)'
<1>1. Taken(k)' = Taken(k)
  BY DEF Taken
<1> QED
  BY <1>1 DEF Account, Unsaid

(* The others' runs are not written by the step of j.                      *)
LEMMA OthersRuns ==
  ASSUME Types, RunsOwned, NEW j \in Jobs, NEW k \in Jobs, k # j, job[k].run # 0,
         \/ UNCHANGED history
         \/ history' = Append(history, NewRun(j))
         \/ job[j].run # 0 /\ history' = [history EXCEPT ![job[j].run] = Finalized(history[job[j].run])]
         \/ job[j].run # 0 /\ \E c \in Contacts, s \in {"dialing", "done", "failed"} :
              history' = [history EXCEPT ![job[j].run].outcome[phone[c]] = s]
  PROVE  history'[job[k].run] = history[job[k].run]
<1>1. job[k].run \in 1..Len(history) /\ job[j].run # job[k].run
  BY DEF RunsOwned, Types
<1>2. job[j].run # 0 => job[j].run \in 1..Len(history)
  BY DEF RunsOwned, Types
<1>3. CASE history' = Append(history, NewRun(j))
  BY <1>1, <1>3, Inserted
<1>4. CASE job[j].run # 0 /\ history' = [history EXCEPT ![job[j].run] = Finalized(history[job[j].run])]
  BY <1>1, <1>2, <1>4, Closed
<1>5. ASSUME job[j].run # 0, NEW c \in Contacts, NEW s,
             history' = [history EXCEPT ![job[j].run].outcome[phone[c]] = s]
      PROVE  history'[job[k].run] = history[job[k].run]
  BY <1>1, <1>2, <1>5, Told
<1> QED
  BY <1>3, <1>4, <1>5

\* While no write has failed, every step keeps the rows of a run what its dials did.
LEMMA AccountsStep ==
  ASSUME Types, OneInside, RunsOwned, faults = 0 => Accounts, CampaignNext, faults' = 0
  PROVE  Accounts'
<1>0. /\ \A j \in Jobs : job[j] \in JobStates /\ job[j].run \in 0..Len(history)
      /\ faults \in Nat /\ Len(history) \in Nat
  BY DEF Types, RunsOwned
<1>1. ASSUME NEW j \in Jobs, JobMove(j), JobWrite(j) PROVE Accounts'
  <2>0. Account(j)
    BY <1>0, <1>1 DEF JobWrite, Accounts
  <2>1. ASSUME NEW k \in Jobs, k # j PROVE Account(k)'
    <3>1. job'[k] = job[k] /\ UNCHANGED <<phone, dial>>
      BY <1>1, <2>1 DEF JobMove
    <3>2. job[k].run # 0 => history'[job[k].run] = history[job[k].run]
      BY <1>1, <2>1, OthersRuns DEF JobWrite
    <3>3. Account(k) /\ job[k].todo \subseteq Contacts
      BY <1>0, <1>1 DEF JobWrite, Accounts, JobStates
    <3> QED
      BY <3>1, <3>2, <3>3, AccountKept
  <2>2. job'[j].pc = "finalize" =>
          job'[j].todo = {} /\ \A c \in Contacts : dial'[j][c] \in {"none", "over"}
    <3>1. job'[j].pc = "finalize" => job[j].pc = "ramp"
      BY <1>1 DEF JobMove
    <3> QED
      BY <1>1, <3>1 DEF JobMove, JobWrite
  <2>3. CASE job'[j].run = job[j].run /\ UNCHANGED history
    <3>1. job'[j].pc \in {"ramp", "finalize"} /\ job'[j].run # 0 => job[j].pc = "ramp"
      BY <1>1, <2>3 DEF RunsOwned, JobMove
    <3>2. job[j].pc = "ramp" => job'[j].todo = job[j].todo /\ Taken(j)' = Taken(j)
      BY <1>1 DEF JobMove, JobWrite, Taken
    <3>3. UNCHANGED <<phone, dial>>
      BY <1>1 DEF JobMove
    <3>4. Account(j)'
      BY <2>0, <2>2, <2>3, <3>1, <3>2, <3>3 DEF Account, Unsaid
    <3> QED
      BY <2>1, <3>4 DEF Accounts
  <2>4. CASE /\ job[j].pc = "insert" /\ job'[j].pc = "ramp" /\ job'[j].run = Len(history) + 1
             /\ history' = Append(history, NewRun(j))
    <3>1. history'[Len(history) + 1] = NewRun(j)
      BY <2>4, Inserted
    <3>2. UNCHANGED <<phone, dial>> /\ \A c \in Contacts : dial[j][c] = "none"
      BY <1>1, <2>4 DEF JobMove, OneInside
    <3>3. job'[j].todo = job[j].todo /\ Taken(j)' = job[j].todo
      BY <1>1, <2>4, <3>2 DEF JobWrite, Taken
    <3>4. /\ NewRun(j).took = job[j].todo
          /\ \A p \in Phones : NewRun(j).outcome[p] = "none"
      BY DEF NewRun
    <3>5. job[j].todo \subseteq Contacts
      BY <1>0 DEF JobStates
    <3>6. Account(j)'
      BY <2>4, <3>1, <3>2, <3>3, <3>4, <3>5 DEF Account, Unsaid
    <3> QED
      BY <2>1, <3>6 DEF Accounts
  <2>5. CASE job'[j].pc = "setdone"
    <3>1. Account(j)'
      BY <2>5 DEF Account
    <3> QED
      BY <2>1, <3>1 DEF Accounts
  <2> QED
    BY <1>1, <2>3, <2>4, <2>5 DEF JobWrite
<1>2. ASSUME NEW j \in Jobs, NEW c \in Contacts, DialMove(j, c), DialWrite(j, c) PROVE Accounts'
  <2>0. Account(j) /\ faults = 0
    BY <1>0, <1>2 DEF DialWrite, Accounts
  <2>1. ASSUME NEW k \in Jobs, k # j PROVE Account(k)'
    <3>1. job'[k].pc = job[k].pc /\ job'[k].no = job[k].no /\ job'[k].run = job[k].run
          /\ job'[k].todo = job[k].todo
      BY <1>2, <2>1 DEF DialMove
    <3>2. UNCHANGED phone /\ \A d \in Contacts : dial'[k][d] = dial[k][d]
      BY <1>2, <2>1 DEF DialMove
    <3>3. job[k].run # 0 => history'[job[k].run] = history[job[k].run]
      <4>1. \/ UNCHANGED history
            \/ job[j].run # 0 /\ \E d \in Contacts, s \in {"dialing", "done", "failed"} :
                 history' = [history EXCEPT ![job[j].run].outcome[phone[d]] = s]
        BY <1>2, Tells
      <4> QED
        BY <2>1, <4>1, OthersRuns
    <3>4. Account(k) /\ job'[k] = job[k] /\ job[k].todo \subseteq Contacts
      <4>1. job'[k] \in JobStates /\ job[k] \in JobStates
        BY <1>0, <1>2 DEF DialMove
      <4>2. job'[k] = job[k] /\ job[k].todo \subseteq Contacts
        BY <3>1, <4>1 DEF JobStates
      <4> QED
        BY <2>0, <4>2 DEF Accounts
    <3> QED
      BY <3>2, <3>3, <3>4, AccountKept
  <2>2. job[j].pc = "ramp"
    BY <1>2 DEF DialMove, OneInside
  <2>3. SUFFICES ASSUME job[j].run # 0 PROVE Account(j)'
    <3>1. job[j].run = 0 => Account(j)'
      BY <1>2, <2>2 DEF DialMove, Account
    <3> QED
      BY <2>1, <2>3, <3>1 DEF Accounts
  <2>4. job'[j].pc = "ramp" /\ job'[j].run = job[j].run
    BY <1>2, <2>2 DEF DialMove
  <2> DEFINE r == job[j].run
  <2>5. /\ history[r].took = Taken(j)
        /\ \A d \in job[j].todo : dial[j][d] = "none"
        /\ \A p \in Phones : history[r].outcome[p] # "none" => \E d \in Taken(j) : phone[d] = p
        /\ \A d \in Taken(j) :
             \/ history[r].outcome[phone[d]] \in {"done", "failed"}
             \/ \E e \in Contacts : phone[e] = phone[d] /\ Unsaid(j, e)
    BY <2>0, <2>2, <2>3 DEF Account
  <2>6. UNCHANGED phone /\ \A d \in Contacts : d # c => dial'[j][d] = dial[j][d]
    BY <1>2 DEF DialMove
  <2>7. /\ Taken(j)' = Taken(j) /\ \A d \in job'[j].todo : dial'[j][d] = "none"
        /\ c \in Taken(j) /\ \A d \in Contacts : d # c => Unsaid(j, d)' = Unsaid(j, d)
    <3>1. job[j].todo \subseteq Contacts
      BY <1>0 DEF JobStates
    <3>2. CASE dial[j][c] = "none"
      <4>1. job'[j].todo = job[j].todo \ {c} /\ dial'[j][c] = "queued" /\ c \in job[j].todo
        BY <1>2, <3>2 DEF DialMove
      <4> QED
        BY <2>5, <2>6, <3>1, <3>2, <4>1 DEF Taken, Unsaid
    <3>3. CASE dial[j][c] # "none"
      <4>1. job'[j].todo = job[j].todo /\ dial'[j][c] # "none"
        BY <1>2, <3>3 DEF DialMove
      <4>2. c \notin job[j].todo
        BY <2>5, <3>3
      <4> QED
        BY <2>5, <2>6, <3>1, <3>3, <4>1, <4>2 DEF Taken, Unsaid
    <3> QED
      BY <3>2, <3>3
  <2>8. r \in 1..Len(history) /\ \A d \in Contacts : phone[d] \in Phones
    BY <1>0, <2>3 DEF Types
  <2>9. /\ history'[r].took = history[r].took
        /\ \A p \in Phones : p # phone[c] => history'[r].outcome[p] = history[r].outcome[p]
        /\ \/ history'[r].outcome[phone[c]] = history[r].outcome[phone[c]]
           \/ dial[j][c] \in {"markrun", "donerun", "failedrun"}
    <3>1. CASE UNCHANGED history
      BY <3>1
    <3>2. ASSUME NEW s, history' = [history EXCEPT ![job[j].run].outcome[phone[c]] = s],
                 dial[j][c] \in {"markrun", "donerun", "failedrun"}
          PROVE  <2>9!1 /\ <2>9!2 /\ <2>9!3
      BY <2>8, <3>2, Told
    <3>3. \/ UNCHANGED history
          \/ /\ dial[j][c] \in {"markrun", "donerun", "failedrun"}
             /\ \E s \in {"dialing", "done", "failed"} :
                  history' = [history EXCEPT ![job[j].run].outcome[phone[c]] = s]
      BY <1>2, Tells
    <3> QED
      BY <3>1, <3>2, <3>3
  \* Its own last word settles its phone; until then it is unsaid, or was said before.
  <2>10. \/ Unsaid(j, c)'
         \/ history'[r].outcome[phone[c]] \in {"done", "failed"}
         \/ ~Unsaid(j, c) /\ history'[r].outcome[phone[c]] = history[r].outcome[phone[c]]
    <3>1. CASE dial[j][c] \in {"donerun", "failedrun"}
      <4>1. \/ history' = [history EXCEPT ![job[j].run].outcome[phone[c]] = "done"]
            \/ history' = [history EXCEPT ![job[j].run].outcome[phone[c]] = "failed"]
        BY <1>2, <2>3, <3>1 DEF DialWrite
      <4>2. ASSUME NEW s, history' = [history EXCEPT ![job[j].run].outcome[phone[c]] = s]
            PROVE  history'[r].outcome[phone[c]] = s
        BY <2>8, <4>2, ToldIt
      <4> QED
        BY <4>1, <4>2
    <3>2. CASE dial[j][c] = "recount"
      <4>1. c \notin job[j].todo
        BY <2>5, <3>2
      <4> QED
        BY <2>9, <3>2, <4>1 DEF Unsaid
    <3>3. CASE dial[j][c] \notin {"donerun", "failedrun", "recount"}
      <4>1. dial'[j][c] \notin {"none", "recount", "over"}
        BY <1>2, <3>3 DEF DialMove
      <4> QED
        BY <4>1 DEF Unsaid
    <3> QED
      BY <3>1, <3>2, <3>3
  <2> HIDE DEF r
  <2>11. \A p \in Phones : history'[r].outcome[p] # "none" => \E d \in Taken(j) : phone[d] = p
    BY <2>5, <2>7, <2>9
  <2>12. ASSUME NEW d \in Taken(j)
         PROVE  \/ history'[r].outcome[phone[d]] \in {"done", "failed"}
                \/ \E e \in Contacts : phone[e] = phone[d] /\ Unsaid(j, e)'
    <3>0. d \in Contacts
      BY <1>0 DEF Taken, JobStates
    <3>1. CASE phone[d] # phone[c]
      BY <2>5, <2>7, <2>8, <2>9, <3>0, <3>1
    <3>2. CASE phone[d] = phone[c]
      BY <2>5, <2>7, <2>10, <3>0, <3>2
    <3> QED
      BY <3>1, <3>2
  <2>13. /\ history'[r].took = Taken(j)'
         /\ \A p \in Phones : history'[r].outcome[p] # "none" => \E d \in Taken(j)' : phone'[d] = p
    BY <2>5, <2>6, <2>7, <2>9, <2>11
  <2>14. \A d \in Taken(j)' :
            \/ history'[r].outcome[phone'[d]] \in {"done", "failed"}
            \/ \E e \in Contacts : phone'[e] = phone'[d] /\ Unsaid(j, e)'
    BY <2>6, <2>7, <2>12
  <2> QED
    BY <2>4, <2>7, <2>13, <2>14 DEF Account, r
<1>3. CASE Death
  BY <1>3, Died DEF Death, Accounts, Account
<1>4. ASSUME NEW j \in Jobs, NEW c \in Contacts, RoomMove(j, c) PROVE Accounts'
  <2>1. UNCHANGED <<phone, history, job, dial>> /\ Accounts
    BY <1>4 DEF RoomMove
  <2>2. \A k \in Jobs : job[k].todo \subseteq Contacts
    BY <1>0 DEF JobStates
  <2> QED
    BY <2>1, <2>2, AccountKept DEF Accounts
<1> QED
  BY <1>1, <1>2, <1>3, <1>4, Steps

(* The counts of the run a job closes: its outcomes partition the phones   *)
(* it took on into done and failed.                                        *)
LEMMA CountsAddUp ==
  ASSUME Types, NEW j \in Jobs, Account(j), job[j].pc = "finalize", job[j].run \in 1..Len(history)
  PROVE  LET h == history[job[j].run]
         IN  Finalized(h).completed + Finalized(h).failed = Cardinality({phone[c] : c \in h.took})
<1> DEFINE h == history[job[j].run]
           D == {p \in Phones : h.outcome[p] = "done"}
           F == {p \in Phones : h.outcome[p] = "failed"}
<1>1. h \in RunRows /\ job[j].run # 0 /\ phone \in [Contacts -> Phones]
  BY DEF Types
<1>2. /\ Finalized(h).completed = Cardinality(D) /\ Finalized(h).failed = Cardinality(F)
  <2>1. DOMAIN h.outcome = Phones
    BY <1>1 DEF RunRows, Outcomes
  <2> HIDE DEF h
  <2>2. Finalized(h).completed = Count(h.outcome, "done") /\ Finalized(h).failed = Count(h.outcome, "failed")
    BY <1>1 DEF Finalized, RunRows
  <2> QED
    BY <2>1, <2>2 DEF Count
<1>3. /\ h.took = Taken(j) /\ \A c \in Contacts : ~Unsaid(j, c)
      /\ \A p \in Phones : h.outcome[p] # "none" => \E c \in Taken(j) : phone[c] = p
      /\ \A c \in Taken(j) :
           \/ h.outcome[phone[c]] \in {"done", "failed"}
           \/ \E d \in Contacts : phone[d] = phone[c] /\ Unsaid(j, d)
  BY <1>1 DEF Account, Unsaid
<1>4. h.took \subseteq Contacts
  BY <1>1 DEF RunRows
<1> HIDE DEF h
<1>5. D \cup F = {phone[c] : c \in h.took} /\ D \cap F = {}
  BY <1>1, <1>3, <1>4
<1>6. IsFiniteSet(D) /\ IsFiniteSet(F) /\ Cardinality(D) \in Nat /\ Cardinality(F) \in Nat
  <2>1. D \subseteq Phones /\ F \subseteq Phones
    OBVIOUS
  <2> QED
    BY <2>1, Counts
<1>7. Cardinality(D \cup F) = Cardinality(D) + Cardinality(F)
  <2>1. Cardinality(D \cup F) = Cardinality(D) + Cardinality(F) - Cardinality(D \cap F)
    BY <1>6, FS_Union
  <2>2. Cardinality(D \cap F) = 0
    BY <1>5, FS_EmptySet
  <2> QED
    BY <1>6, <2>1, <2>2
<1> QED
  BY <1>2, <1>5, <1>7 DEF h

(* The counts of a run are those of the phones it took on.                 *)
Balanced(i) ==
  history[i].completed + history[i].failed = Cardinality({phone[c] : c \in history[i].took})

\* Every step keeps the counts of a closed run adding up.
LEMMA AddsUpStep ==
  ASSUME Types, OneInside, RunsOwned, faults = 0 => Accounts, ClosedRunAddsUp, CampaignNext
  PROVE  ClosedRunAddsUp'
<1> SUFFICES ASSUME NEW i \in DOMAIN history', faults' = 0, history'[i].status = "done"
             PROVE  Balanced(i)'
  BY DEF ClosedRunAddsUp, Balanced
<1>0. /\ \A j \in Jobs : job[j].run \in 0..Len(history)
      /\ faults \in Nat /\ Len(history) \in Nat /\ DOMAIN history = 1..Len(history)
      /\ i \in 1..Len(history') /\ history \in Seq(RunRows)
  BY TypesStep DEF Types, RunsOwned
<1>1. faults = 0
  <2>1. ASSUME faults' >= faults PROVE faults = 0
    BY <1>0, <2>1
  <2>2. ASSUME NEW j \in Jobs, JobWrite(j) PROVE faults' >= faults
    BY <2>2 DEF JobWrite
  <2>3. ASSUME NEW j \in Jobs, NEW c \in Contacts, DialWrite(j, c) PROVE faults' >= faults
    BY <2>3 DEF DialWrite
  <2> QED
    BY <1>0, <2>1, <2>2, <2>3, Steps DEF Death, RoomMove
<1>11. UNCHANGED phone
  BY Steps DEF JobMove, DialMove, RoomMove, Death, Die
<1>2. CASE i \in DOMAIN history /\ history[i].status = "done"
  BY <1>1, <1>11, <1>2, ClosedStep DEF ClosedRunAddsUp, Balanced
<1>3. CASE ~ (i \in DOMAIN history /\ history[i].status = "done")
  <2>1. ASSUME NEW j \in Jobs, JobMove(j), JobWrite(j)
        PROVE  Balanced(i)'
    <3>1. CASE UNCHANGED history
      BY <1>0, <1>3, <3>1
    <3>2. CASE history' = Append(history, NewRun(j))
      <4>1. NewRun(j).status = "running"
        BY DEF NewRun
      <4> QED
        BY <1>0, <1>3, <3>2, <4>1, Inserted
    <3>3. CASE /\ job[j].pc = "finalize" /\ job[j].run # 0
               /\ history' = [history EXCEPT ![job[j].run] = Finalized(history[job[j].run])]
      <4>1. job[j].run \in 1..Len(history)
        BY <1>0, <3>3
      <4>2. i = job[j].run
        BY <1>0, <1>3, <3>3, <4>1, Closed
      <4>3. Finalized(history[i]).took = history[i].took
        BY <1>0, <4>1, <4>2 DEF Finalized, RunRows
      <4>4. Account(j)
        BY <1>1 DEF Accounts
      <4> QED
        BY <1>11, <3>3, <4>1, <4>2, <4>3, <4>4, CountsAddUp, Closed DEF Balanced
    <3> QED
      BY <2>1, <3>1, <3>2, <3>3 DEF JobWrite
  <2>2. ASSUME NEW j \in Jobs, NEW c \in Contacts, DialMove(j, c), DialWrite(j, c)
        PROVE  FALSE
    <3>1. CASE UNCHANGED history
      BY <1>0, <1>3, <3>1
    <3>2. ASSUME job[j].run # 0, NEW s, history' = [history EXCEPT ![job[j].run].outcome[phone[c]] = s]
          PROVE  FALSE
      BY <1>0, <1>3, <3>2, Told
    <3> QED
      BY <2>2, <3>1, <3>2 DEF DialWrite
  <2>3. CASE Death \/ \E j \in Jobs, c \in Contacts : RoomMove(j, c)
    BY <1>0, <1>3, <2>3 DEF Death, Die, Table, RoomMove
  <2> QED
    BY <2>1, <2>2, <2>3, Steps
<1> QED
  BY <1>2, <1>3

\* Every step keeps the invariant.
LEMMA CampaignStep == CampaignIInv /\ CampaignNext => CampaignIInv'
<1> SUFFICES ASSUME CampaignIInv, CampaignNext PROVE CampaignIInv'
  OBVIOUS
<1> USE DEF CampaignIInv
<1>1. Types' /\ OneInside' /\ Permits' /\ Watched' /\ RunsOwned'
  BY TypesStep, OneInsideStep, PermitsStep, WatchedStep, RunsOwnedStep
<1>2. faults' = 0 => Accounts'
  BY AccountsStep
<1>3. AttemptsAreDials' /\ ClosedRunAddsUp' /\ NoOrphanRooms'
  BY AttemptsStep, AddsUpStep, OrphansStep
<1> QED
  BY <1>1, <1>2, <1>3

(* A step that leaves the campaign alone leaves the invariant alone.       *)
LEMMA CampaignStutters == CampaignIInv /\ UNCHANGED campaignVars => CampaignIInv'
<1> SUFFICES ASSUME CampaignIInv, UNCHANGED campaignVars PROVE CampaignIInv'
  OBVIOUS
<1> USE DEF campaignVars, CampaignIInv
<1>1. Types' /\ OneInside' /\ RunsOwned'
  BY DEF Types, OneInside, RunsOwned
<1>2. Permits' /\ Watched'
  BY DEF Permits, HoldingOf, Watched
<1>3. faults' = 0 => Accounts'
  <2>1. \A j \in Jobs : Taken(j)' = Taken(j)
    BY DEF Taken
  <2> QED
    BY <2>1 DEF Accounts, Account, Unsaid
<1>4. AttemptsAreDials' /\ ClosedRunAddsUp' /\ NoOrphanRooms'
  BY DEF AttemptsAreDials, ClosedRunAddsUp, NoOrphanRooms
<1> QED
  BY <1>1, <1>2, <1>3, <1>4

(* What the inductive invariant says of the calls, the rows and the rooms. *)
LEMMA CampaignShows == CampaignIInv => CampaignInv
<1> SUFFICES ASSUME CampaignIInv PROVE CampaignInv
  OBVIOUS
<1> USE DEF CampaignIInv
<1>1. CampaignTypeOK
  BY DEF CampaignTypeOK, Types, Rows, Tallies, JobStates, RunsOwned
<1>2. DialsBounded
  <2>1. ASSUME NEW j \in Jobs, HoldingOf(j) # {} PROVE job[j].pc \in Inside
    <3>1. PICK c \in Contacts : dial[j][c] \in Holding
      BY <2>1 DEF HoldingOf
    <3> QED
      BY <3>1 DEF OneInside, Holding, Inside
  <2>2. \A j \in Jobs, c \in Contacts : dial[j][c] = "ring" => c \in HoldingOf(j)
    BY DEF HoldingOf, Holding
  <2> QED
    BY <2>1, <2>2 DEF DialsBounded, Permits, Watched, OneInside
<1>3. RunNumbersDistinct
  <2>1. DOMAIN history = 1..Len(history)
    BY DEF Types
  <2> QED
    BY <2>1 DEF RunNumbersDistinct, RunsOwned
<1> QED
  BY <1>1, <1>2, <1>3 DEF CampaignInv

\* The invariant holds in every reachable state.
LEMMA CampaignInductive == CampaignSpec => []CampaignIInv
<1>1. CampaignInit => CampaignIInv
  BY CampaignInitInv
<1>2. CampaignIInv /\ [CampaignNext]_campaignVars => CampaignIInv'
  BY CampaignStep, CampaignStutters
<1> QED
  BY <1>1, <1>2, PTL DEF CampaignSpec

(* However runs and reruns are clicked and whatever fails or dies, one job *)
(* at a time dials, within the semaphore, and a phone that rings is one of *)
(* its dials until the process crashes; attempts are dials; run numbers    *)
(* are distinct; a run that closes without a failed call behind it counts  *)
(* every phone it took on, shared or not, done or failed; and no room is   *)
(* left open behind a failed call.                                         *)
THEOREM CampaignSound == CampaignSpec => []CampaignInv
<1>1. CampaignIInv => CampaignInv
  BY CampaignShows
<1> QED
  BY <1>1, CampaignInductive, PTL

(* A closed run keeps its counts and outcomes for good: only the job that  *)
(* owns the run writes it, and it owns no closed one.                      *)
THEOREM ClosedRunsStay == CampaignSpec => ClosedRunStays
<1>1. CampaignIInv /\ [CampaignNext]_campaignVars =>
        [\A i \in DOMAIN history :
           history[i].status = "done" => i \in DOMAIN history' /\ history'[i] = history[i]]_campaignVars
  BY ClosedStep DEF CampaignIInv
<1> QED
  BY <1>1, CampaignInductive, PTL DEF CampaignSpec, ClosedRunStays
=============================================================================
