---------------------------- MODULE Appointments ----------------------------
(***************************************************************************)
(* The appointment book: the table voiceai."Appointment", the per-process  *)
(* availability cache of src/db.py, the booking tools a call's LLM invokes *)
(* (src/tools.py) and the operator's dashboard route, all running at once. *)
(*                                                                         *)
(* A client is one tool invocation slot of a call (Calls) or one dashboard *)
(* request slot (Desk); it serves one request at a time.  Every await of   *)
(* the code that touches the database ends an action, so another client    *)
(* may run between any two of them.  A SELECT whose rows only enter the    *)
(* process after its await is two actions (SelectTimes, TimesArrive).      *)
(***************************************************************************)
EXTENDS Naturals, FiniteSets

CONSTANTS
  Calls,         \* tool-invocation slots of running calls
  Desk,          \* request slots of the dashboard route
  Workers,       \* agent processes, each with its own _booked_cache
  WorkerOf,      \* the process a call runs in
  Phones,        \* normalised (last ten digits) phone numbers
  NoPhone,       \* the empty phone
  PhoneOf,       \* the caller_phone_var of a call
  Slots,         \* bookable (date, time) pairs
  DayOf,         \* the date of a slot
  RowIds,        \* primary keys the run may use up (bound)
  Miss,          \* no unexpired cache entry
  MaxAttempts,   \* INSERT attempts of appt_book
  IndexPresent,  \* appt_slot_booked_uq exists before the first process
  MayCreateIndex,\* this deployment's role has DDL privilege
  Faults,        \* database failures of the run: read, write, lostack
  Services       \* the request kinds of the run

Clients == Calls \cup Desk
Days == {DayOf[s] : s \in Slots}

Kinds == {"book", "reschedule", "cancel", "cancelall", "slots", "snapshot",
          "deskbook", "deskcancel"}

\* Steps of a request, named for the await it is about to complete.
Steps == {"idle",
          "fresh", "freshGot",       \* the fresh=True availability read
          "guard", "insert", "acked",\* appt_book
          "find", "move", "moved",   \* appt_reschedule
          "list", "lookup", "update", "updated",  \* the cancel tools
          "offer", "offerGot",       \* the cached availability read
          "clash", "create", "dfind", "dupdate"}  \* the dashboard route

ASSUME ClientAssumption ==
  /\ Calls \cap Desk = {}
  /\ WorkerOf \in [Calls -> Workers]
  /\ NoPhone \notin Phones
  /\ PhoneOf \in [Calls -> Phones \cup {NoPhone}]

ASSUME TableAssumption ==
  /\ Slots # {}
  /\ RowIds # {}
  /\ DayOf \in [Slots -> Days]
  /\ MaxAttempts \in Nat \ {0}
  /\ IndexPresent \in BOOLEAN
  /\ MayCreateIndex \in BOOLEAN
  /\ Faults \subseteq {"read", "write", "lostack"}
  /\ Services \subseteq Kinds

VARIABLES
  row,      \* the Appointment table; status "none" is an unused key
  idx,      \* the partial unique index on (date, time) exists
  pool,     \* _pool of each process
  cache,    \* _booked_cache of each process, by date
  pc,       \* the step each client is at
  req,      \* its request
  view,     \* booked times a SELECT returned, not yet seen by the process
  offered,  \* slots the last availability reply named as free
  answer,   \* what the last request reported back
  done      \* history: a write of the current request has committed

vars == <<row, idx, pool, cache, pc, req, view, offered, answer, done>>

Row == [status: {"none", "booked", "cancelled"},
        slot: Slots, phone: Phones \cup {NoPhone}]

Request == [kind: Kinds, slot: Slots, id: RowIds, todo: SUBSET RowIds,
            attempt: Nat, okAny: BOOLEAN, failAny: BOOLEAN]

NewRequest(k, s, i, ids) ==
  [kind |-> k, slot |-> s, id |-> i, todo |-> ids,
   attempt |-> 0, okAny |-> FALSE, failAny |-> FALSE]

AnySlot == CHOOSE s \in Slots : TRUE
AnyRow == CHOOSE r \in RowIds : TRUE

-----------------------------------------------------------------------------
(* The table. *)

Booked(r) == row[r].status = "booked"
Taken(s) == \E r \in RowIds : Booked(r) /\ row[r].slot = s
TakenOn(d) == {s \in Slots : DayOf[s] = d /\ Taken(s)}
OnDay(d) == {s \in Slots : DayOf[s] = d}

\* No two booked rows hold the same (date, time).
SlotsDistinct ==
  \A r, q \in RowIds :
    Booked(r) /\ Booked(q) /\ row[r].slot = row[q].slot => r = q

\* Mutant of Matches: the caller's number is not part of the WHERE.
MatchesAnyone(c, r) == row[r].status # "none"

\* WHERE id=$1, narrowed to the caller's own rows when there is a number.
Matches(c, r) ==
  /\ row[r].status # "none"
  /\ PhoneOf[c] # NoPhone => row[r].phone = PhoneOf[c]

Unused == {r \in RowIds : row[r].status = "none"}

\* Bound: a request that will INSERT starts only while every such request
\* in flight can still have a key of its own.
KeysLeft ==
  Cardinality(Unused) > Cardinality({c \in Clients :
      pc[c] # "idle" /\ req[c].kind \in {"book", "reschedule", "deskbook"}})

\* Mutant of Put: the caller's number is not stored.
PutAnonymous(s, p) == [status |-> "booked", slot |-> s, phone |-> NoPhone]

Put(s, p) == [status |-> "booked", slot |-> s, phone |-> p]

-----------------------------------------------------------------------------
(* Process start: _get_pool sets _pool and only then awaits the DDL, so    *)
(* another coroutine of the process may use the pool in between.           *)

Connect(w) ==
  /\ pool[w] = "down"
  /\ pool' = [pool EXCEPT ![w] = "ensuring"]
  /\ UNCHANGED <<row, idx, cache, pc, req, view, offered, answer, done>>

\* CREATE UNIQUE INDEX IF NOT EXISTS: refused by existing duplicates or a
\* missing privilege, and then never tried again by this process.
EnsureConstraints(w) ==
  /\ pool[w] = "ensuring"
  /\ pool' = [pool EXCEPT ![w] = "up"]
  /\ \/ /\ MayCreateIndex /\ SlotsDistinct
        /\ idx' = TRUE
     \/ UNCHANGED idx
  /\ UNCHANGED <<row, cache, pc, req, view, offered, answer, done>>

-----------------------------------------------------------------------------
(* Starting a request: the LLM chooses the tool and its arguments; an id   *)
(* may be one it saw earlier or one that does not exist.                   *)

Begin(c, k, first, r) ==
  /\ pc[c] = "idle"
  /\ k \in Services
  /\ c \in Calls => pool[WorkerOf[c]] # "down"
  /\ pc' = [pc EXCEPT ![c] = first]
  /\ req' = [req EXCEPT ![c] = r]
  /\ offered' = [offered EXCEPT ![c] = {}]
  /\ answer' = [answer EXCEPT ![c] = "none"]
  /\ done' = [done EXCEPT ![c] = FALSE]
  /\ UNCHANGED <<row, idx, pool, cache, view>>

StartBook(c, s) ==
  KeysLeft /\ Begin(c, "book", "fresh", NewRequest("book", s, AnyRow, {}))

StartReschedule(c, i, s) ==
  /\ KeysLeft
  /\ Begin(c, "reschedule", "fresh", NewRequest("reschedule", s, i, {}))

StartCancel(c, i) ==
  Begin(c, "cancel", "lookup", NewRequest("cancel", AnySlot, i, {i}))

\* cancel_all_appointments declines at once without a caller number.
StartCancelAll(c) ==
  /\ PhoneOf[c] # NoPhone
  /\ Begin(c, "cancelall", "list", NewRequest("cancelall", AnySlot, AnyRow, {}))

StartSlots(c, s) ==
  Begin(c, "slots", "offer", NewRequest("slots", s, AnyRow, {}))

\* The live snapshot of the agent's LLM context reads with fresh=True.
StartSnapshot(c, s) ==
  Begin(c, "snapshot", "fresh", NewRequest("snapshot", s, AnyRow, {}))

StartDeskBook(c, s) ==
  /\ KeysLeft
  /\ Begin(c, "deskbook", "clash", NewRequest("deskbook", s, AnyRow, {}))

StartDeskCancel(c, i) ==
  Begin(c, "deskcancel", "dfind", NewRequest("deskcancel", AnySlot, i, {}))

-----------------------------------------------------------------------------
(* How a request goes on. *)

Goto(c, step) == pc' = [pc EXCEPT ![c] = step]

Reply(c, a, step) ==
  /\ answer' = [answer EXCEPT ![c] = a]
  /\ Goto(c, step)

\* A refused booking or move reads the remaining availability for its reply.
Reject(c) == Reply(c, "no", "offer")

\* After the availability read: offer what is free, or go on to the write.
Proceed(c, taken) ==
  IF pc[c] \in {"offer", "offerGot"} \/ req[c].kind = "snapshot"
  THEN /\ offered' = [offered EXCEPT ![c] = OnDay(DayOf[req[c].slot]) \ taken]
       /\ Goto(c, "idle")
       /\ UNCHANGED answer
  ELSE /\ UNCHANGED offered
       /\ IF req[c].slot \in taken
          THEN Reject(c)
          ELSE /\ Goto(c, IF req[c].kind = "reschedule" THEN "find"
                          ELSE IF PhoneOf[c] = NoPhone THEN "insert"
                          ELSE "guard")
               /\ UNCHANGED answer

\* appt_booked_times served by an unexpired cache entry: no await.
ServeFromCache(c) ==
  /\ pc[c] = "offer"
  /\ LET known == cache[WorkerOf[c]][DayOf[req[c].slot]] IN
       known # Miss /\ Proceed(c, known)
  /\ UNCHANGED <<row, idx, pool, cache, req, view, done>>

\* The database answers the SELECT; the rows are still on their way.
SelectTimes(c) ==
  /\ \/ pc[c] = "fresh" /\ Goto(c, "freshGot")
     \/ /\ pc[c] = "offer"
        /\ cache[WorkerOf[c]][DayOf[req[c].slot]] = Miss
        /\ Goto(c, "offerGot")
  /\ view' = [view EXCEPT ![c] = TakenOn(DayOf[req[c].slot])]
  /\ UNCHANGED <<row, idx, pool, cache, req, offered, answer, done>>

\* The await resumes: cache the rows, whatever happened meanwhile.
TimesArrive(c) ==
  /\ pc[c] \in {"freshGot", "offerGot"}
  /\ cache' = [cache EXCEPT ![WorkerOf[c]][DayOf[req[c].slot]] = view[c]]
  /\ view' = [view EXCEPT ![c] = {}]
  /\ Proceed(c, view[c])
  /\ UNCHANGED <<row, idx, pool, req, done>>

\* The SELECT fails: the empty set, uncached, so that every slot looks free.
SelectTimesFails(c) ==
  /\ "read" \in Faults
  /\ \/ pc[c] \in {"fresh", "freshGot", "offerGot"}
     \/ pc[c] = "offer" /\ cache[WorkerOf[c]][DayOf[req[c].slot]] = Miss
  /\ view' = [view EXCEPT ![c] = {}]
  /\ Proceed(c, {})
  /\ UNCHANGED <<row, idx, pool, cache, req, done>>

\* The _BOOKED_TTL of an entry passes.
ExpireCache(w, d) ==
  /\ cache[w][d] # Miss
  /\ cache' = [cache EXCEPT ![w][d] = Miss]
  /\ UNCHANGED <<row, idx, pool, pc, req, view, offered, answer, done>>

-----------------------------------------------------------------------------
(* appt_book. *)

\* No pool, a time off the grid, or a time already past today.
RefuseEarly(c) ==
  /\ pc[c] = "fresh" /\ req[c].kind \in {"book", "reschedule"}
  /\ Reject(c)
  /\ UNCHANGED <<row, idx, pool, cache, req, view, offered, done>>

\* Mutant of DuplicateGuard: looks for the same time, not the same date.
GuardSameTime(c) ==
  /\ pc[c] = "guard"
  /\ IF \E r \in RowIds : /\ Booked(r)
                          /\ row[r].phone = PhoneOf[c]
                          /\ row[r].slot = req[c].slot
     THEN Reject(c)
     ELSE Goto(c, "insert") /\ UNCHANGED answer
  /\ UNCHANGED <<row, idx, pool, cache, req, view, offered, done>>

\* Same phone, same date, already booked; fails open.
DuplicateGuard(c) ==
  /\ pc[c] = "guard"
  /\ \/ /\ \E r \in RowIds : /\ Booked(r)
                             /\ row[r].phone = PhoneOf[c]
                             /\ DayOf[row[r].slot] = DayOf[req[c].slot]
        /\ Reject(c)
     \/ /\ \/ "read" \in Faults
           \/ \A r \in RowIds : Booked(r) /\ row[r].phone = PhoneOf[c]
                                => DayOf[row[r].slot] # DayOf[req[c].slot]
        /\ Goto(c, "insert")
        /\ UNCHANGED answer
  /\ UNCHANGED <<row, idx, pool, cache, req, view, offered, done>>

\* Mutant of Conflict: the index never rejects.
NeverConflicts(s) == FALSE

Conflict(s) == idx /\ Taken(s)

InsertRow(c, r, p) ==
  /\ ~Conflict(req[c].slot)
  /\ row[r].status = "none"
  /\ row' = [row EXCEPT ![r] = Put(req[c].slot, p)]
  /\ done' = [done EXCEPT ![c] = TRUE]

\* Mutant of NextAttempt: every failure starts the loop anew.
RetryForever(c) ==
  /\ req' = [req EXCEPT ![c].attempt = 1 - @]
  /\ UNCHANGED <<pc, answer>>

\* The attempt raised something other than a unique violation.
NextAttempt(c) ==
  /\ req' = [req EXCEPT ![c].attempt = @ + 1]
  /\ IF req[c].attempt + 1 < MaxAttempts
     THEN UNCHANGED <<pc, answer>>
     ELSE Reject(c)

Insert(c, r) ==
  /\ pc[c] = "insert"
  /\ InsertRow(c, r, PhoneOf[c])
  /\ \/ /\ Goto(c, "acked")
        /\ req' = [req EXCEPT ![c].id = r]
        /\ UNCHANGED answer
     \/ "lostack" \in Faults /\ NextAttempt(c)
  /\ UNCHANGED <<idx, pool, cache, view, offered>>

InsertFails(c) ==
  /\ pc[c] = "insert"
  /\ "write" \in Faults
  /\ NextAttempt(c)
  /\ UNCHANGED <<row, idx, pool, cache, view, offered, done>>

\* Mutant of ForgetDay: the entry survives the booking.
KeepDay(c) == UNCHANGED cache

ForgetDay(c) ==
  cache' = [cache EXCEPT ![WorkerOf[c]][DayOf[req[c].slot]] = Miss]

\* Mutant of InsertConflicts: a conflict is taken for the retry of an INSERT
\* that went through.
ConflictIsOurs(c) ==
  /\ pc[c] = "insert"
  /\ Conflict(req[c].slot)
  /\ pc' = [pc EXCEPT ![c] = "acked"]
  /\ UNCHANGED <<row, idx, pool, cache, req, view, offered, answer, done>>

InsertConflicts(c) ==
  /\ pc[c] = "insert"
  /\ Conflict(req[c].slot)
  /\ ForgetDay(c)
  /\ Reject(c)
  /\ UNCHANGED <<row, idx, pool, req, view, offered, done>>

BookReturns(c) ==
  /\ pc[c] = "acked"
  /\ ForgetDay(c)
  /\ Reply(c, "yes", "idle")
  /\ UNCHANGED <<row, idx, pool, req, view, offered, done>>

-----------------------------------------------------------------------------
(* appt_reschedule. *)

FindForMove(c) ==
  /\ pc[c] = "find"
  /\ \/ Matches(c, req[c].id) /\ Goto(c, "move") /\ UNCHANGED answer
     \/ ~Matches(c, req[c].id) /\ Reject(c)
     \/ "read" \in Faults /\ Reject(c)
  /\ UNCHANGED <<row, idx, pool, cache, req, view, offered, done>>

\* Mutant of MoveConflict: the index also spans the phone column.
ConflictPerPhone(c) ==
  /\ idx
  /\ \E q \in RowIds \ {req[c].id} :
       Booked(q) /\ row[q] = Put(req[c].slot, row[req[c].id].phone)

\* The unique index is checked after the old row is out of the way.
MoveConflict(c) ==
  /\ idx
  /\ \E q \in RowIds \ {req[c].id} : Booked(q) /\ row[q].slot = req[c].slot

\* Mutant of MoveRows: the old row is never cancelled.
CopyRows(c, r) ==
  row' = [row EXCEPT ![r] = Put(req[c].slot, row[req[c].id].phone)]

\* One transaction: UPDATE the old row by id alone, INSERT the new one.
MoveRows(c, r) ==
  row' = [row EXCEPT ![req[c].id].status = "cancelled",
                     ![r] = Put(req[c].slot, row[req[c].id].phone)]

Move(c, r) ==
  /\ pc[c] = "move"
  /\ ~MoveConflict(c)
  /\ row[r].status = "none"
  /\ MoveRows(c, r)
  /\ done' = [done EXCEPT ![c] = TRUE]
  /\ \/ Goto(c, "moved") /\ UNCHANGED answer
     \/ "lostack" \in Faults /\ Reject(c)
  /\ UNCHANGED <<idx, pool, cache, req, view, offered>>

\* Mutant of MoveFails: no transaction, the UPDATE stays when the INSERT fails.
MoveFailsHalfway(c) ==
  /\ pc[c] = "move"
  /\ MoveConflict(c) \/ "write" \in Faults
  /\ row' = [row EXCEPT ![req[c].id].status = "cancelled"]
  /\ done' = [done EXCEPT ![c] = TRUE]
  /\ Reject(c)
  /\ UNCHANGED <<idx, pool, cache, req, view, offered>>

MoveFails(c) ==
  /\ pc[c] = "move"
  /\ MoveConflict(c) \/ "write" \in Faults
  /\ Reject(c)
  /\ UNCHANGED <<row, idx, pool, cache, req, view, offered, done>>

\* Mutant of ForgetAll: the map loses its dates with its entries.
DropCache(c) == cache' = [cache EXCEPT ![WorkerOf[c]] = <<>>]

ForgetAll(c) ==
  cache' = [cache EXCEPT ![WorkerOf[c]] = [d \in Days |-> Miss]]

RescheduleReturns(c) ==
  /\ pc[c] = "moved"
  /\ ForgetAll(c)
  /\ Reply(c, "yes", "idle")
  /\ UNCHANGED <<row, idx, pool, req, view, offered, done>>

-----------------------------------------------------------------------------
(* appt_cancel, once for cancel_appointment and in a loop for              *)
(* cancel_all_appointments.                                                *)

\* Mutant of ListBookings: the status filter is the wrong way round.
ListCancelled(c) ==
  /\ pc[c] = "list"
  /\ LET found == {r \in RowIds : /\ row[r].status = "cancelled"
                                 /\ row[r].phone = PhoneOf[c]} IN
       /\ req' = [req EXCEPT ![c].todo = found]
       /\ IF found = {}
          THEN Reply(c, "nothing", "idle")
          ELSE Goto(c, "lookup") /\ UNCHANGED answer
  /\ UNCHANGED <<row, idx, pool, cache, view, offered, done>>

\* appt_find_by_phone; a failure is indistinguishable from no bookings.
ListBookings(c) ==
  /\ pc[c] = "list"
  /\ \E found \in { {r \in RowIds : Booked(r) /\ row[r].phone = PhoneOf[c]} }
                  \cup (IF "read" \in Faults THEN {{}} ELSE {}) :
       /\ req' = [req EXCEPT ![c].todo = found]
       /\ IF found = {}
          THEN Reply(c, "nothing", "idle")
          ELSE Goto(c, "lookup") /\ UNCHANGED answer
  /\ UNCHANGED <<row, idx, pool, cache, view, offered, done>>

\* Mutant of Verdict: any failure makes the whole loop a failure.
AllOrNothing(ok, fail) == IF fail THEN "no" ELSE "yes"

Verdict(ok, fail) ==
  IF ok /\ fail THEN "partial" ELSE IF ok THEN "yes" ELSE "no"

\* One row is settled; the loop goes on or the tool replies.
Settle(c, i, ok) ==
  LET rest == req[c].todo \ {i}
      okAny == req[c].okAny \/ ok
      failAny == req[c].failAny \/ ~ok
  IN  /\ req' = [req EXCEPT ![c].todo = rest, ![c].id = i,
                            ![c].okAny = okAny, ![c].failAny = failAny]
      /\ IF rest = {}
         THEN Reply(c, Verdict(okAny, failAny), "idle")
         ELSE Goto(c, "lookup") /\ UNCHANGED answer

LookUp(c, i) ==
  /\ pc[c] = "lookup" /\ i \in req[c].todo
  /\ \/ /\ Matches(c, i) \/ PhoneOf[c] = NoPhone
        /\ req' = [req EXCEPT ![c].id = i]
        /\ Goto(c, "update")
        /\ UNCHANGED answer
     \/ /\ (PhoneOf[c] # NoPhone /\ ~Matches(c, i)) \/ "read" \in Faults
        /\ Settle(c, i, FALSE)
  /\ UNCHANGED <<row, idx, pool, cache, view, offered, done>>

\* Mutant of CancelRow: the UPDATE matches no row.
CancelNoRow(i) == UNCHANGED row

CancelRow(i) ==
  row' = IF row[i].status = "none" THEN row
         ELSE [row EXCEPT ![i].status = "cancelled"]

Cancel(c) ==
  /\ pc[c] = "update"
  /\ CancelRow(req[c].id)
  /\ done' = [done EXCEPT ![c] = TRUE]
  /\ \/ Goto(c, "updated") /\ UNCHANGED <<req, answer>>
     \/ "lostack" \in Faults /\ Settle(c, req[c].id, FALSE)
  /\ UNCHANGED <<idx, pool, cache, view, offered>>

CancelFails(c) ==
  /\ pc[c] = "update"
  /\ "write" \in Faults
  /\ Settle(c, req[c].id, FALSE)
  /\ UNCHANGED <<row, idx, pool, cache, view, offered, done>>

CancelReturns(c) ==
  /\ pc[c] = "updated"
  /\ ForgetAll(c)
  /\ Settle(c, req[c].id, TRUE)
  /\ UNCHANGED <<row, idx, pool, view, offered, done>>

-----------------------------------------------------------------------------
(* The dashboard route: POST checks for a clash and creates, DELETE finds  *)
(* and updates; neither knows the agent processes' caches.                 *)

DeskClash(c) ==
  /\ pc[c] = "clash"
  /\ IF Taken(req[c].slot)
     THEN Reply(c, "no", "idle")
     ELSE Goto(c, "create") /\ UNCHANGED answer
  /\ UNCHANGED <<row, idx, pool, cache, req, view, offered, done>>

DeskCreate(c, r, p) ==
  /\ pc[c] = "create"
  /\ InsertRow(c, r, p)
  /\ req' = [req EXCEPT ![c].id = r]
  /\ \/ Reply(c, "yes", "idle")
     \/ "lostack" \in Faults /\ Reply(c, "no", "idle")
  /\ UNCHANGED <<idx, pool, cache, view, offered>>

DeskCreateFails(c) ==
  /\ pc[c] = "create"
  /\ Conflict(req[c].slot) \/ "write" \in Faults
  /\ Reply(c, "no", "idle")
  /\ UNCHANGED <<row, idx, pool, cache, req, view, offered, done>>

DeskFind(c) ==
  /\ pc[c] = "dfind"
  /\ IF Booked(req[c].id)
     THEN Goto(c, "dupdate") /\ UNCHANGED answer
     ELSE Reply(c, "no", "idle")
  /\ UNCHANGED <<row, idx, pool, cache, req, view, offered, done>>

DeskCancel(c) ==
  /\ pc[c] = "dupdate"
  /\ CancelRow(req[c].id)
  /\ done' = [done EXCEPT ![c] = TRUE]
  /\ \/ Reply(c, "yes", "idle")
     \/ "lostack" \in Faults /\ Reply(c, "no", "idle")
  /\ UNCHANGED <<idx, pool, cache, req, view, offered>>

-----------------------------------------------------------------------------

Init ==
  /\ row = [r \in RowIds |->
              [status |-> "none", slot |-> AnySlot, phone |-> NoPhone]]
  /\ idx = IndexPresent
  /\ pool = [w \in Workers |-> "down"]
  /\ cache = [w \in Workers |-> [d \in Days |-> Miss]]
  /\ pc = [c \in Clients |-> "idle"]
  /\ req = [c \in Clients |-> NewRequest("slots", AnySlot, AnyRow, {})]
  /\ view = [c \in Clients |-> {}]
  /\ offered = [c \in Clients |-> {}]
  /\ answer = [c \in Clients |-> "none"]
  /\ done = [c \in Clients |-> FALSE]

Start(c) ==
  \/ \E s \in Slots : StartBook(c, s) \/ StartSlots(c, s) \/ StartSnapshot(c, s)
  \/ \E i \in RowIds : StartCancel(c, i)
  \/ \E i \in RowIds, s \in Slots : StartReschedule(c, i, s)
  \/ StartCancelAll(c)

DeskStart(c) ==
  \/ \E s \in Slots : StartDeskBook(c, s)
  \/ \E i \in RowIds : StartDeskCancel(c, i)

ReadStep(c) ==
  \/ ServeFromCache(c) \/ SelectTimes(c) \/ TimesArrive(c)
  \/ SelectTimesFails(c) \/ RefuseEarly(c)

BookStep(c) ==
  \/ DuplicateGuard(c)
  \/ \E r \in RowIds : Insert(c, r)
  \/ InsertFails(c) \/ InsertConflicts(c) \/ BookReturns(c)

MoveStep(c) ==
  \/ FindForMove(c)
  \/ \E r \in RowIds : Move(c, r)
  \/ MoveFails(c) \/ RescheduleReturns(c)

CancelStep(c) ==
  \/ ListBookings(c)
  \/ \E i \in RowIds : LookUp(c, i)
  \/ Cancel(c) \/ CancelFails(c) \/ CancelReturns(c)

DeskStep(c) ==
  \/ DeskClash(c)
  \/ \E r \in RowIds, p \in Phones \cup {NoPhone} : DeskCreate(c, r, p)
  \/ DeskCreateFails(c) \/ DeskFind(c) \/ DeskCancel(c)

CallStep(c) == ReadStep(c) \/ BookStep(c) \/ MoveStep(c) \/ CancelStep(c)

Next ==
  \/ \E w \in Workers : Connect(w) \/ EnsureConstraints(w)
  \/ \E w \in Workers, d \in Days : ExpireCache(w, d)
  \/ \E c \in Calls : Start(c) \/ CallStep(c)
  \/ \E c \in Desk : DeskStart(c) \/ DeskStep(c)

Spec == Init /\ [][Next]_vars

\* Every query has a command_timeout and every retry a bound, so a request
\* in flight keeps taking steps; nobody is obliged to start one.
FairSpec ==
  /\ Spec
  /\ \A c \in Calls : WF_vars(CallStep(c))
  /\ \A c \in Desk : WF_vars(DeskStep(c))
-----------------------------------------------------------------------------
(* Properties. *)

\* Every variable has the type the code gives it.
TypeOK ==
  /\ row \in [RowIds -> Row]
  /\ idx \in BOOLEAN
  /\ pool \in [Workers -> {"down", "ensuring", "up"}]
  /\ cache \in [Workers -> [Days -> (SUBSET Slots) \cup {Miss}]]
  /\ pc \in [Clients -> Steps]
  /\ req \in [Clients -> Request]
  /\ view \in [Clients -> SUBSET Slots]
  /\ offered \in [Clients -> SUBSET Slots]
  /\ answer \in [Clients -> {"none", "yes", "no", "partial", "nothing"}]
  /\ done \in [Clients -> BOOLEAN]

\* However bookings, moves, retries and dashboard requests interleave, no
\* two booked rows share a (date, time): "closing the check-then-INSERT race".
NoDoubleBooking == SlotsDistinct

\* A client told "could not" has changed nothing in the table: the old
\* booking of a failed move still stands, a failed booking left no row.
HonestFailure == \A c \in Clients : answer[c] = "no" => ~done[c]

\* The inductive strengthening of HonestFailure: where a request stands
\* tells whether one of its writes has committed.
CommitInv ==
  \A c \in Clients :
    /\ pc[c] \in {"fresh", "freshGot", "guard", "insert", "find", "move", "list",
                 "clash", "create", "dfind", "dupdate"} => ~done[c]
    /\ pc[c] \in {"acked", "moved", "updated"} => done[c]
    /\ pc[c] \in {"list", "lookup", "update"} => (done[c] <=> req[c].okAny)
    /\ pc[c] \notin {"idle", "offer", "offerGot"} => answer[c] = "none"
    /\ answer[c] \in {"yes", "partial"} => done[c]
    /\ answer[c] \in {"no", "nothing"} => ~done[c]

\* A client told "yes" finds it in the table: a booking names a row inserted
\* for this number and slot, a move or a cancel left the named row cancelled.
\* An index that comes between a request's check and its INSERT is no excuse.
HonestSuccess ==
  \A c \in Calls : answer[c] = "yes" =>
    CASE req[c].kind = "book" ->
           /\ row[req[c].id].status # "none"
           /\ row[req[c].id].slot = req[c].slot
           /\ row[req[c].id].phone = PhoneOf[c]
      [] OTHER -> row[req[c].id].status = "cancelled"

\* A booking ends only by the step of a client that named its id and that
\* is the operator, the owner, or a caller without a number.
OnlyTheOwnerReleases ==
  [][\A r \in RowIds : Booked(r) /\ row'[r].status # "booked" =>
       \E c \in Clients : /\ pc'[c] # pc[c]
                          /\ pc[c] \in {"move", "update", "dupdate"}
                          /\ req[c].id = r
                          /\ c \in Calls => PhoneOf[c] \in {NoPhone, row[r].phone}
    ]_vars

\* A move takes a booking away only in the step that gives its owner
\* another one: the caller never loses a booking with no replacement.
MoveKeepsABooking ==
  [][\A r \in RowIds, c \in Calls :
       /\ Booked(r) /\ row'[r].status # "booked"
       /\ pc[c] = "move" /\ pc'[c] # "move"
       => \E q \in RowIds : ~Booked(q) /\ row'[q] = Put(req[c].slot, row[r].phone)
    ]_vars

\* One active booking per number and date: "do NOT stack a second one".
OneBookingPerDay ==
  \A r, q \in RowIds :
    /\ Booked(r) /\ Booked(q)
    /\ row[r].phone = row[q].phone /\ row[r].phone # NoPhone
    /\ DayOf[row[r].slot] = DayOf[row[q].slot]
    => r = q

BookedIn(table, p) ==
  {r \in RowIds : table[r].status = "booked" /\ table[r].phone = p}

\* A move moves: the number of bookings of every caller stays the same.
MoveConservesBookings ==
  [][\A c \in Calls : pc[c] = "move" /\ pc'[c] # "move" =>
       \A p \in Phones :
         Cardinality(BookedIn(row', p)) = Cardinality(BookedIn(row, p))
    ]_vars

\* A process whose caller was told "booked" does not go on offering that
\* slot from its cache while the booking stands.
OwnBookingNotReoffered ==
  \A c \in Calls :
    answer[c] = "yes" /\ req[c].kind = "book" /\ Booked(req[c].id) =>
      LET known == cache[WorkerOf[c]][DayOf[req[c].slot]]
      IN  known = Miss \/ req[c].slot \in known

\* Slots a check_appointment_slots reply names as free without an await
\* are free in the table at that moment: "TABLE-FRESH DATA".
TableFresh ==
  [][\A c \in Calls : pc[c] = "offer" /\ pc'[c] = "idle" =>
       \A s \in offered'[c] : ~Taken(s)]_vars

\* "Nothing on file" is only said to a caller with nothing booked.
HonestNothing ==
  [][\A c \in Calls : answer[c] # "nothing" /\ answer'[c] = "nothing" =>
       BookedIn(row, PhoneOf[c]) = {}]_vars

\* A booking is released by those who may, and never by a move that has
\* nothing to put in its place.
BookingsKept == OnlyTheOwnerReleases /\ MoveKeepsABooking

\* Every request is answered: retries and loops are bounded.
Answered == \A c \in Clients : pc[c] # "idle" ~> pc[c] = "idle"
=============================================================================
