-------------------------- MODULE AppointmentsProofs --------------------------
(***************************************************************************)
(* Proofs about the appointment book, for any number of calls, dashboard   *)
(* requests, processes, numbers, slots and rows.                           *)
(***************************************************************************)
EXTENDS AppointmentsRefinement, TLAPS

\* The tables and the requests start with their types.
LEMMA InitTypeOK == Init => TypeOK
<1> SUFFICES ASSUME Init PROVE TypeOK
  OBVIOUS
<1>1. AnySlot \in Slots /\ AnyRow \in RowIds
  BY TableAssumption DEF AnySlot, AnyRow
<1>2. NewRequest("slots", AnySlot, AnyRow, {}) \in Request
  BY <1>1, TableAssumption DEF NewRequest, Request, Kinds
<1> QED
  BY <1>1, <1>2, TableAssumption DEF Init, TypeOK, Row, Steps

\* A request that begins is a request.
LEMMA BeginType ==
  ASSUME TypeOK, NEW c \in Clients, NEW k \in Kinds, NEW first \in Steps,
         NEW s \in Slots, NEW i \in RowIds, NEW ids \in SUBSET RowIds,
         Begin(c, k, first, NewRequest(k, s, i, ids))
  PROVE  TypeOK'
<1>1. NewRequest(k, s, i, ids) \in Request
  BY TableAssumption DEF NewRequest, Request
<1> QED
  BY <1>1 DEF Begin, TypeOK

\* Starting any tool or dashboard request keeps the types.
LEMMA StartType ==
  ASSUME TypeOK, NEW c \in Clients, Start(c) \/ DeskStart(c)
  PROVE  TypeOK'
<1>1. AnySlot \in Slots /\ AnyRow \in RowIds
  BY TableAssumption DEF AnySlot, AnyRow
<1>2. ASSUME NEW s \in Slots, StartBook(c, s) PROVE TypeOK'
  BY <1>1, <1>2, BeginType DEF StartBook, Kinds, Steps
<1>3. ASSUME NEW s \in Slots, StartSlots(c, s) PROVE TypeOK'
  BY <1>1, <1>3, BeginType DEF StartSlots, Kinds, Steps
<1>4. ASSUME NEW s \in Slots, StartSnapshot(c, s) PROVE TypeOK'
  BY <1>1, <1>4, BeginType DEF StartSnapshot, Kinds, Steps
<1>5. ASSUME NEW i \in RowIds, StartCancel(c, i) PROVE TypeOK'
  BY <1>1, <1>5, BeginType DEF StartCancel, Kinds, Steps
<1>6. ASSUME NEW i \in RowIds, NEW s \in Slots, StartReschedule(c, i, s)
      PROVE TypeOK'
  BY <1>1, <1>6, BeginType DEF StartReschedule, Kinds, Steps
<1>7. ASSUME StartCancelAll(c) PROVE TypeOK'
  BY <1>1, <1>7, BeginType DEF StartCancelAll, Kinds, Steps
<1>8. ASSUME NEW s \in Slots, StartDeskBook(c, s) PROVE TypeOK'
  BY <1>1, <1>8, BeginType DEF StartDeskBook, Kinds, Steps
<1>9. ASSUME NEW i \in RowIds, StartDeskCancel(c, i) PROVE TypeOK'
  BY <1>1, <1>9, BeginType DEF StartDeskCancel, Kinds, Steps
<1> QED
  BY <1>2, <1>3, <1>4, <1>5, <1>6, <1>7, <1>8, <1>9 DEF Start, DeskStart

\* The steps that read free slots and times keep the types.
LEMMA ReadType ==
  ASSUME TypeOK, NEW c \in Calls, ReadStep(c)
  PROVE  TypeOK'
<1> USE DEF TypeOK, Clients
<1>0. /\ WorkerOf[c] \in Workers
      /\ DayOf[req[c].slot] \in Days
      /\ req[c] \in Request
  BY ClientAssumption, TableAssumption DEF Request
<1>1. ASSUME NEW taken \in SUBSET Slots, Proceed(c, taken)
      PROVE  /\ offered' \in [Clients -> SUBSET Slots]
             /\ pc' \in [Clients -> Steps]
             /\ answer' \in [Clients -> {"none", "yes", "no", "partial", "nothing"}]
  BY <1>1 DEF Proceed, Reject, Reply, Goto, OnDay, Steps
<1>2. CASE ServeFromCache(c)
  <2>1. cache[WorkerOf[c]][DayOf[req[c].slot]] \in SUBSET Slots
    BY <1>0, <1>2 DEF ServeFromCache
  <2> QED
    BY <1>1, <1>2, <2>1 DEF ServeFromCache
<1>3. CASE SelectTimes(c)
  BY <1>3 DEF SelectTimes, Goto, TakenOn, Steps
<1>4. CASE TimesArrive(c)
  <2>1. view[c] \in SUBSET Slots
    OBVIOUS
  <2>2. cache' \in [Workers -> [Days -> (SUBSET Slots) \cup {Miss}]]
    BY <1>0, <1>4, <2>1 DEF TimesArrive
  <2> QED
    BY <1>1, <1>4, <2>1, <2>2 DEF TimesArrive
<1>5. CASE SelectTimesFails(c)
  BY <1>1, <1>5 DEF SelectTimesFails
<1>6. CASE RefuseEarly(c)
  BY <1>6 DEF RefuseEarly, Reject, Reply, Goto, Steps
<1> QED
  BY <1>2, <1>3, <1>4, <1>5, <1>6 DEF ReadStep

\* What a reply or a jump writes is well typed.
LEMMA ReplyType ==
  ASSUME TypeOK, NEW c \in Clients, NEW step \in Steps,
         NEW a \in {"none", "yes", "no", "partial", "nothing"},
         Reply(c, a, step)
  PROVE  /\ pc' \in [Clients -> Steps]
         /\ answer' \in [Clients -> {"none", "yes", "no", "partial", "nothing"}]
BY DEF TypeOK, Reply, Goto

\* An INSERT or UPDATE leaves a table of rows.
LEMMA PutType ==
  ASSUME TypeOK, NEW r \in RowIds, NEW s \in Slots,
         NEW p \in Phones \cup {NoPhone}
  PROVE  [row EXCEPT ![r] = Put(s, p)] \in [RowIds -> Row]
BY DEF TypeOK, Put, Row

\* So does the UPDATE that cancels a row.
LEMMA CancelRowType ==
  ASSUME TypeOK, NEW i \in RowIds, CancelRow(i)
  PROVE  row' \in [RowIds -> Row]
BY SMTT(30) DEF TypeOK, CancelRow, Row

\* Every client has a request.
LEMMA RequestType ==
  ASSUME TypeOK, NEW c \in Clients
  PROVE  /\ req[c] \in Request
         /\ req[c].slot \in Slots
         /\ req[c].id \in RowIds
         /\ req[c].todo \in SUBSET RowIds
         /\ DayOf[req[c].slot] \in Days
         /\ req[c].attempt \in Nat
BY TableAssumption DEF TypeOK, Request

\* The calls and the dashboard's requests are clients.
LEMMA CallTypes ==
  ASSUME NEW c \in Calls
  PROVE  /\ c \in Clients
         /\ WorkerOf[c] \in Workers
         /\ PhoneOf[c] \in Phones \cup {NoPhone}
BY ClientAssumption DEF Clients

\* The steps of a booking keep the types.
LEMMA BookType ==
  ASSUME TypeOK, NEW c \in Calls, BookStep(c)
  PROVE  TypeOK'
<1>0. /\ c \in Clients
      /\ WorkerOf[c] \in Workers
      /\ PhoneOf[c] \in Phones \cup {NoPhone}
  BY CallTypes
<1>1. /\ req[c] \in Request
      /\ req[c].slot \in Slots
      /\ DayOf[req[c].slot] \in Days
      /\ req[c].attempt \in Nat
  BY <1>0, RequestType
<1>2. ASSUME Reject(c)
      PROVE  /\ pc' \in [Clients -> Steps]
             /\ answer' \in [Clients -> {"none", "yes", "no", "partial", "nothing"}]
  BY <1>0, <1>2, ReplyType DEF Reject, Steps
<1>3. ASSUME NextAttempt(c), pc[c] = "insert"
      PROVE  /\ pc' \in [Clients -> Steps]
             /\ answer' \in [Clients -> {"none", "yes", "no", "partial", "nothing"}]
             /\ req' \in [Clients -> Request]
  <2>1. [req[c] EXCEPT !.attempt = req[c].attempt + 1] \in Request
    BY <1>1 DEF Request
  <2> QED
    BY <1>0, <1>2, <1>3, <2>1 DEF NextAttempt, TypeOK
<1>4. CASE DuplicateGuard(c)
  BY <1>0, <1>2, <1>4 DEF DuplicateGuard, Goto, TypeOK, Steps
<1>5. ASSUME NEW r \in RowIds, Insert(c, r) PROVE TypeOK'
  <2>1. row' \in [RowIds -> Row] /\ done' \in [Clients -> BOOLEAN]
    BY <1>0, <1>1, <1>5, PutType DEF Insert, InsertRow, TypeOK
  <2>2. [req[c] EXCEPT !.id = r] \in Request
    BY <1>1 DEF Request
  <2> QED
    BY <1>0, <1>3, <1>5, <2>1, <2>2 DEF Insert, Goto, TypeOK, Steps
<1>6. CASE InsertFails(c)
  BY <1>3, <1>6 DEF InsertFails, TypeOK
<1>7. CASE InsertConflicts(c)
  BY <1>0, <1>1, <1>2, <1>7 DEF InsertConflicts, ForgetDay, TypeOK
<1>8. CASE BookReturns(c)
  <2>1. /\ pc' \in [Clients -> Steps]
        /\ answer' \in [Clients -> {"none", "yes", "no", "partial", "nothing"}]
    BY <1>0, <1>8, ReplyType DEF BookReturns, Steps
  <2> QED
    BY <1>0, <1>1, <1>8, <2>1 DEF BookReturns, ForgetDay, TypeOK
<1> QED
  BY <1>4, <1>5, <1>6, <1>7, <1>8 DEF BookStep

\* The steps of a move keep the types.
LEMMA MoveType ==
  ASSUME TypeOK, NEW c \in Calls, MoveStep(c)
  PROVE  TypeOK'
<1>0. c \in Clients /\ WorkerOf[c] \in Workers
  BY CallTypes
<1>1. req[c].slot \in Slots /\ req[c].id \in RowIds
  BY <1>0, RequestType
<1>2. ASSUME Reject(c)
      PROVE  /\ pc' \in [Clients -> Steps]
             /\ answer' \in [Clients -> {"none", "yes", "no", "partial", "nothing"}]
  BY <1>0, <1>2, ReplyType DEF Reject, Steps
<1>3. CASE FindForMove(c)
  BY <1>0, <1>2, <1>3 DEF FindForMove, Goto, TypeOK, Steps
<1>4. ASSUME NEW r \in RowIds, Move(c, r) PROVE TypeOK'
  <2>1. row' \in [RowIds -> Row]
    BY ZenonT(60), <1>1, <1>4 DEF Move, MoveRows, Put, TypeOK, Row
  <2> QED
    BY <1>0, <1>2, <1>4, <2>1 DEF Move, Goto, TypeOK, Steps
<1>5. CASE MoveFails(c)
  BY <1>2, <1>5 DEF MoveFails, TypeOK
<1>6. CASE RescheduleReturns(c)
  <2>1. /\ pc' \in [Clients -> Steps]
        /\ answer' \in [Clients -> {"none", "yes", "no", "partial", "nothing"}]
    BY <1>0, <1>6, ReplyType DEF RescheduleReturns, Steps
  <2> QED
    BY <1>0, <1>6, <2>1 DEF RescheduleReturns, ForgetAll, TypeOK
<1> QED
  BY <1>3, <1>4, <1>5, <1>6 DEF MoveStep

\* Answering for one row of a cancellation keeps the types.
LEMMA SettleType ==
  ASSUME TypeOK, NEW c \in Clients, NEW i \in RowIds, NEW ok \in BOOLEAN,
         Settle(c, i, ok)
  PROVE  /\ pc' \in [Clients -> Steps]
         /\ answer' \in [Clients -> {"none", "yes", "no", "partial", "nothing"}]
         /\ req' \in [Clients -> Request]
<1> DEFINE rest == req[c].todo \ {i}
           okAny == req[c].okAny \/ ok
           failAny == req[c].failAny \/ ~ok
<1>1. req[c] \in Request
  BY RequestType
<1>2. okAny \in BOOLEAN /\ failAny \in BOOLEAN /\ rest \in SUBSET RowIds
  BY <1>1 DEF Request
<1>3. [req[c] EXCEPT !.todo = rest, !.id = i, !.okAny = okAny,
                     !.failAny = failAny] \in Request
  BY <1>1, <1>2 DEF Request
<1>4. req' = [req EXCEPT ![c] = [req[c] EXCEPT !.todo = rest, !.id = i,
                                   !.okAny = okAny, !.failAny = failAny]]
  BY DEF Settle, TypeOK
<1>5. req' \in [Clients -> Request]
  BY <1>3, <1>4 DEF TypeOK
<1>6. Verdict(okAny, failAny) \in {"yes", "no", "partial"}
  BY DEF Verdict
<1>7. /\ pc' \in [Clients -> Steps]
      /\ answer' \in [Clients -> {"none", "yes", "no", "partial", "nothing"}]
  BY <1>6 DEF Settle, Reply, Goto, TypeOK, Steps
<1> QED
  BY <1>5, <1>7

\* The steps of a cancellation keep the types.
LEMMA CancelType ==
  ASSUME TypeOK, NEW c \in Calls, CancelStep(c)
  PROVE  TypeOK'
<1>0. c \in Clients /\ WorkerOf[c] \in Workers
  BY CallTypes
<1>1. req[c] \in Request /\ req[c].id \in RowIds /\ req[c].todo \in SUBSET RowIds
  BY <1>0, RequestType
<1>2. CASE ListBookings(c)
  <2>1. PICK found \in SUBSET RowIds :
          /\ req' = [req EXCEPT ![c].todo = found]
          /\ IF found = {}
             THEN Reply(c, "nothing", "idle")
             ELSE Goto(c, "lookup") /\ UNCHANGED answer
    BY <1>2 DEF ListBookings
  <2>2. [req[c] EXCEPT !.todo = found] \in Request
    BY <1>1 DEF Request
  <2> QED
    BY SMTT(30), <1>0, <1>2, <2>1, <2>2 DEF ListBookings, Reply, Goto, TypeOK, Steps
<1>3. ASSUME NEW i \in RowIds, LookUp(c, i) PROVE TypeOK'
  <2>1. [req[c] EXCEPT !.id = i] \in Request
    BY <1>1 DEF Request
  <2>2. CASE Settle(c, i, FALSE)
    BY <1>0, <1>3, <2>2, SettleType DEF LookUp, TypeOK
  <2>3. CASE ~Settle(c, i, FALSE)
    BY <1>0, <1>3, <2>1, <2>3 DEF LookUp, Goto, TypeOK, Steps
  <2> QED
    BY <2>2, <2>3
<1>4. CASE Cancel(c)
  <2>1. row' \in [RowIds -> Row] /\ done' \in [Clients -> BOOLEAN]
    BY <1>1, <1>4, CancelRowType DEF Cancel, TypeOK
  <2>2. CASE Settle(c, req[c].id, FALSE)
    BY <1>0, <1>1, <1>4, <2>1, <2>2, SettleType DEF Cancel, TypeOK
  <2>3. CASE ~Settle(c, req[c].id, FALSE)
    BY <1>0, <1>4, <2>1, <2>3 DEF Cancel, Goto, TypeOK, Steps
  <2> QED
    BY <2>2, <2>3
<1>5. CASE CancelFails(c)
  BY <1>0, <1>1, <1>5, SettleType DEF CancelFails, TypeOK
<1>6. CASE CancelReturns(c)
  <2>1. cache' \in [Workers -> [Days -> (SUBSET Slots) \cup {Miss}]]
    BY <1>0, <1>6 DEF CancelReturns, ForgetAll, TypeOK
  <2> QED
    BY <1>0, <1>1, <1>6, <2>1, SettleType DEF CancelReturns, TypeOK
<1> QED
  BY <1>2, <1>3, <1>4, <1>5, <1>6 DEF CancelStep

\* The dashboard's steps keep the types.
LEMMA DeskType ==
  ASSUME TypeOK, NEW c \in Desk, DeskStep(c)
  PROVE  TypeOK'
<1>0. c \in Clients
  BY DEF Clients
<1>1. req[c] \in Request /\ req[c].id \in RowIds /\ req[c].slot \in Slots
  BY <1>0, RequestType
<1>2. ASSUME NEW a \in {"yes", "no"}, Reply(c, a, "idle")
      PROVE  /\ pc' \in [Clients -> Steps]
             /\ answer' \in [Clients -> {"none", "yes", "no", "partial", "nothing"}]
  BY <1>0, <1>2, ReplyType DEF Steps
<1>3. CASE DeskClash(c)
  BY <1>0, <1>2, <1>3 DEF DeskClash, Goto, TypeOK, Steps
<1>4. ASSUME NEW r \in RowIds, NEW p \in Phones \cup {NoPhone},
             DeskCreate(c, r, p)
      PROVE  TypeOK'
  <2>1. row' \in [RowIds -> Row] /\ done' \in [Clients -> BOOLEAN]
    BY <1>0, <1>1, <1>4, PutType DEF DeskCreate, InsertRow, TypeOK
  <2>2. [req[c] EXCEPT !.id = r] \in Request
    BY <1>1 DEF Request
  <2> QED
    BY <1>0, <1>2, <1>4, <2>1, <2>2 DEF DeskCreate, TypeOK
<1>5. CASE DeskCreateFails(c)
  BY <1>2, <1>5 DEF DeskCreateFails, TypeOK
<1>6. CASE DeskFind(c)
  BY <1>0, <1>2, <1>6 DEF DeskFind, Goto, TypeOK, Steps
<1>7. CASE DeskCancel(c)
  <2>1. row' \in [RowIds -> Row] /\ done' \in [Clients -> BOOLEAN]
    BY <1>1, <1>7, CancelRowType DEF DeskCancel, TypeOK
  <2> QED
    BY <1>2, <1>7, <2>1 DEF DeskCancel, TypeOK
<1> QED
  BY <1>3, <1>4, <1>5, <1>6, <1>7 DEF DeskStep

\* No step leaves the types.
LEMMA NextTypeOK == TypeOK /\ [Next]_vars => TypeOK'
<1> SUFFICES ASSUME TypeOK, [Next]_vars PROVE TypeOK'
  OBVIOUS
<1>1. ASSUME NEW w \in Workers, Connect(w) \/ EnsureConstraints(w) PROVE TypeOK'
  BY <1>1 DEF Connect, EnsureConstraints, TypeOK
<1>2. ASSUME NEW w \in Workers, NEW d \in Days, ExpireCache(w, d) PROVE TypeOK'
  BY <1>2 DEF ExpireCache, TypeOK
<1>3. ASSUME NEW c \in Calls, Start(c) \/ CallStep(c) PROVE TypeOK'
  BY <1>3, StartType, ReadType, BookType, MoveType, CancelType, CallTypes
     DEF CallStep
<1>4. ASSUME NEW c \in Desk, DeskStart(c) \/ DeskStep(c) PROVE TypeOK'
  BY <1>4, StartType, DeskType DEF Clients
<1>5. CASE UNCHANGED vars
  BY <1>5 DEF vars, TypeOK
<1> QED
  BY <1>1, <1>2, <1>3, <1>4, <1>5 DEF Next

\* Every reachable state is well typed, for every instance.
THEOREM TypeCorrect == Spec => []TypeOK
<1> QED
  BY InitTypeOK, NextTypeOK, PTL DEF Spec

-----------------------------------------------------------------------------
(* The unique index: no two booked rows share a slot. *)

\* A slot nobody has booked can be booked without a second holder.
LEMMA PutDistinct ==
  ASSUME TypeOK, SlotsDistinct,
         NEW r \in RowIds, NEW s \in Slots, NEW p \in Phones \cup {NoPhone},
         ~Taken(s), row[r].status = "none",
         row' = [row EXCEPT ![r] = Put(s, p)]
  PROVE  SlotsDistinct'
BY DEF TypeOK, SlotsDistinct, Taken, Booked, Put

\* Cancelling a row gives no slot a second holder.
LEMMA CancelDistinct ==
  ASSUME TypeOK, SlotsDistinct, NEW i \in RowIds, CancelRow(i)
  PROVE  SlotsDistinct'
BY DEF TypeOK, SlotsDistinct, CancelRow, Booked, Row

\* Nor does a move, whose new slot the index finds free.
LEMMA MoveDistinct ==
  ASSUME TypeOK, SlotsDistinct, idx, NEW c \in Clients, NEW r \in RowIds,
         ~MoveConflict(c), row[r].status = "none", MoveRows(c, r)
  PROVE  SlotsDistinct'
<1> DEFINE i == req[c].id
<1>1. i \in RowIds /\ req[c].slot \in Slots
  BY RequestType
<1>2. \A q \in RowIds : q # r =>
        /\ row'[q].slot = row[q].slot
        /\ Booked(q)' => Booked(q) /\ q # i
  BY <1>1 DEF TypeOK, Row, MoveRows, Booked
<1>3. row'[r].slot = req[c].slot
  BY <1>1 DEF TypeOK, MoveRows, Put
<1>4. \A q \in RowIds : Booked(q) /\ q # i => row[q].slot # req[c].slot
  BY <1>1 DEF MoveConflict
<1>5. SUFFICES ASSUME NEW a \in RowIds, NEW b \in RowIds, Booked(a)', Booked(b)',
                      row'[a].slot = row'[b].slot
               PROVE  a = b
  BY DEF SlotsDistinct
<1> QED
  BY <1>2, <1>3, <1>4, <1>5 DEF SlotsDistinct

\* PostgreSQL's side of the bargain, from which the theorems on double
\* bookings and on the ledger start.
IndexSound == idx => SlotsDistinct

IndexInv == TypeOK /\ IndexSound

\* While the index is there every write is checked by it, and it is only
\* created over a table without two holders of a slot.
LEMMA NextIndexSound == IndexInv /\ [Next]_vars => IndexSound'
<1> SUFFICES ASSUME TypeOK, IndexSound, [Next]_vars, idx' PROVE SlotsDistinct'
  BY DEF IndexInv, IndexSound
<1> USE DEF IndexSound
<1>1. ASSUME UNCHANGED <<row, idx>> PROVE SlotsDistinct'
  BY <1>1 DEF SlotsDistinct, Booked
<1>2. ASSUME NEW w \in Workers, Connect(w) \/ EnsureConstraints(w)
      PROVE  SlotsDistinct'
  BY <1>1, <1>2 DEF Connect, EnsureConstraints, SlotsDistinct, Booked
<1>3. ASSUME NEW w \in Workers, NEW d \in Days, ExpireCache(w, d)
      PROVE  SlotsDistinct'
  BY <1>1, <1>3 DEF ExpireCache
<1>4. ASSUME NEW c \in Clients, Start(c) \/ DeskStart(c) PROVE SlotsDistinct'
  BY <1>1, <1>4
     DEF Start, DeskStart, StartBook, StartSlots, StartSnapshot, StartCancel,
         StartReschedule, StartCancelAll, StartDeskBook, StartDeskCancel, Begin
<1>5. ASSUME NEW c \in Calls, ReadStep(c) PROVE SlotsDistinct'
  BY <1>1, <1>5
     DEF ReadStep, ServeFromCache, SelectTimes, TimesArrive, SelectTimesFails,
         RefuseEarly
<1>6. ASSUME NEW c \in Calls, BookStep(c) PROVE SlotsDistinct'
  <2>1. ASSUME NEW r \in RowIds, Insert(c, r) PROVE SlotsDistinct'
    BY <2>1, PutDistinct, RequestType, CallTypes DEF Insert, InsertRow, Conflict
  <2> QED
    BY <1>1, <1>6, <2>1
       DEF BookStep, DuplicateGuard, InsertFails, InsertConflicts, BookReturns
<1>7. ASSUME NEW c \in Calls, MoveStep(c) PROVE SlotsDistinct'
  <2>1. ASSUME NEW r \in RowIds, Move(c, r) PROVE SlotsDistinct'
    BY <2>1, MoveDistinct, CallTypes DEF Move
  <2> QED
    BY <1>1, <1>7, <2>1 DEF MoveStep, FindForMove, MoveFails, RescheduleReturns
<1>8. ASSUME NEW c \in Calls, CancelStep(c) PROVE SlotsDistinct'
  <2>1. CASE Cancel(c)
    BY <2>1, CancelDistinct, RequestType, CallTypes DEF Cancel
  <2> QED
    BY <1>1, <1>8, <2>1
       DEF CancelStep, ListBookings, LookUp, CancelFails, CancelReturns
<1>9. ASSUME NEW c \in Desk, DeskStep(c) PROVE SlotsDistinct'
  <2>0. c \in Clients
    BY DEF Clients
  <2>1. ASSUME NEW r \in RowIds, NEW p \in Phones \cup {NoPhone},
               DeskCreate(c, r, p)
        PROVE  SlotsDistinct'
    BY <2>0, <2>1, PutDistinct, RequestType DEF DeskCreate, InsertRow, Conflict
  <2>2. CASE DeskCancel(c)
    BY <2>0, <2>2, CancelDistinct, RequestType DEF DeskCancel
  <2> QED
    BY <1>1, <1>9, <2>1, <2>2 DEF DeskStep, DeskClash, DeskCreateFails, DeskFind
<1>10. CASE UNCHANGED vars
  BY <1>1, <1>10 DEF vars
<1> QED
  BY <1>2, <1>3, <1>4, <1>5, <1>6, <1>7, <1>8, <1>9, <1>10
     DEF Next, CallStep, Clients

\* A table that starts with the index starts without two holders.
LEMMA InitIndexSound == Init => IndexSound
BY DEF Init, IndexSound, SlotsDistinct, Booked

\* Nothing drops the index.
LEMMA IndexStays == TypeOK /\ idx /\ [Next]_vars => idx'
<1> SUFFICES ASSUME idx, [Next]_vars PROVE idx'
  OBVIOUS
<1>1. ASSUME NEW w \in Workers, Connect(w) \/ EnsureConstraints(w) PROVE idx'
  BY <1>1 DEF Connect, EnsureConstraints
<1>2. ASSUME NEW w \in Workers, NEW d \in Days, ExpireCache(w, d) PROVE idx'
  BY <1>2 DEF ExpireCache
<1>3. ASSUME NEW c \in Clients, Start(c) \/ DeskStart(c) PROVE idx'
  BY <1>3
     DEF Start, DeskStart, StartBook, StartSlots, StartSnapshot, StartCancel,
         StartReschedule, StartCancelAll, StartDeskBook, StartDeskCancel, Begin
<1>4. ASSUME NEW c \in Calls, CallStep(c) PROVE idx'
  BY <1>4
     DEF CallStep, ReadStep, ServeFromCache, SelectTimes, TimesArrive,
         SelectTimesFails, RefuseEarly, BookStep, DuplicateGuard, Insert,
         InsertFails, InsertConflicts, BookReturns, MoveStep, FindForMove, Move,
         MoveFails, RescheduleReturns, CancelStep, ListBookings, LookUp, Cancel,
         CancelFails, CancelReturns
<1>5. ASSUME NEW c \in Desk, DeskStep(c) PROVE idx'
  BY <1>5 DEF DeskStep, DeskClash, DeskCreate, DeskCreateFails, DeskFind, DeskCancel
<1>6. CASE UNCHANGED vars
  BY <1>6 DEF vars
<1> QED
  BY <1>1, <1>2, <1>3, <1>4, <1>5, <1>6 DEF Next, Clients

\* With the index in place before the first process, no interleaving of
\* calls, retries, moves and dashboard requests double-books a slot.
THEOREM NoDoubleBookings ==
  ASSUME IndexPresent
  PROVE  Spec => []NoDoubleBooking
<1>1. Init => idx
  BY DEF Init
<1>2. IndexInv /\ idx /\ [Next]_vars => (IndexInv /\ idx)'
  BY IndexStays, NextIndexSound, NextTypeOK DEF IndexInv
<1>3. IndexInv /\ idx => NoDoubleBooking
  BY DEF IndexInv, IndexSound, NoDoubleBooking
<1> QED
  BY <1>1, <1>2, <1>3, InitIndexSound, InitTypeOK, PTL DEF Spec, IndexInv

-----------------------------------------------------------------------------
(* Replies: "no" means that nothing was written. *)

\* At the start nobody has committed anything.
LEMMA InitCommitInv == Init => CommitInv
BY DEF Init, CommitInv

\* A step that changes only c's own cells leaves the others as they were.
LEMMA CommitLocal ==
  ASSUME TypeOK, CommitInv, NEW c \in Clients,
         NEW step \in Steps, NEW a, NEW b \in BOOLEAN, NEW r,
         pc' = [pc EXCEPT ![c] = step],
         answer' = [answer EXCEPT ![c] = a],
         done' = [done EXCEPT ![c] = b],
         req' = [req EXCEPT ![c] = r],
         /\ step \in {"fresh", "freshGot", "guard", "insert", "find", "move",
                      "list", "clash", "create", "dfind", "dupdate"} => ~b
         /\ step \in {"acked", "moved", "updated"} => b
         /\ step \in {"list", "lookup", "update"} => (b <=> r.okAny)
         /\ step \notin {"idle", "offer", "offerGot"} => a = "none"
         /\ a \in {"yes", "partial"} => b
         /\ a \in {"no", "nothing"} => ~b
  PROVE  CommitInv'
BY DEF TypeOK, CommitInv

\* A request that begins has committed nothing.
LEMMA CommitStart ==
  ASSUME TypeOK, CommitInv, NEW c \in Clients, Start(c) \/ DeskStart(c)
  PROVE  CommitInv'
<1>1. ASSUME NEW k, NEW step \in Steps, NEW s, NEW i, NEW ids,
             step \in {"fresh", "offer", "lookup", "list", "clash", "dfind"},
             Begin(c, k, step, NewRequest(k, s, i, ids))
      PROVE  CommitInv'
  BY <1>1, CommitLocal DEF Begin, NewRequest
<1>2. ASSUME NEW s \in Slots, StartBook(c, s) PROVE CommitInv'
  BY <1>1, <1>2 DEF StartBook, Steps
<1>3. ASSUME NEW s \in Slots, StartSlots(c, s) PROVE CommitInv'
  BY <1>1, <1>3 DEF StartSlots, Steps
<1>4. ASSUME NEW s \in Slots, StartSnapshot(c, s) PROVE CommitInv'
  BY <1>1, <1>4 DEF StartSnapshot, Steps
<1>5. ASSUME NEW i \in RowIds, StartCancel(c, i) PROVE CommitInv'
  BY <1>1, <1>5 DEF StartCancel, Steps
<1>6. ASSUME NEW i \in RowIds, NEW s \in Slots, StartReschedule(c, i, s)
      PROVE  CommitInv'
  BY <1>1, <1>6 DEF StartReschedule, Steps
<1>7. ASSUME StartCancelAll(c) PROVE CommitInv'
  BY <1>1, <1>7 DEF StartCancelAll, Steps
<1>8. ASSUME NEW s \in Slots, StartDeskBook(c, s) PROVE CommitInv'
  BY <1>1, <1>8 DEF StartDeskBook, Steps
<1>9. ASSUME NEW i \in RowIds, StartDeskCancel(c, i) PROVE CommitInv'
  BY <1>1, <1>9 DEF StartDeskCancel, Steps
<1> QED
  BY <1>2, <1>3, <1>4, <1>5, <1>6, <1>7, <1>8, <1>9 DEF Start, DeskStart

\* Reading commits nothing.
LEMMA CommitRead ==
  ASSUME TypeOK, CommitInv, NEW c \in Clients, ReadStep(c)
  PROVE  CommitInv'
<1> USE DEF Goto, Reply, Reject
<1>1. UNCHANGED <<req, done>>
  BY DEF ReadStep, ServeFromCache, SelectTimes, TimesArrive, SelectTimesFails,
         RefuseEarly
<1>2. ASSUME NEW taken, Proceed(c, taken),
             pc[c] \in {"fresh", "freshGot", "offer", "offerGot"}
      PROVE  CommitInv'
  BY <1>1, <1>2 DEF Proceed, CommitInv, TypeOK
<1>3. CASE SelectTimes(c)
  BY <1>1, <1>3 DEF SelectTimes, CommitInv, TypeOK
<1>4. CASE RefuseEarly(c)
  BY <1>1, <1>4 DEF RefuseEarly, CommitInv, TypeOK
<1> QED
  BY <1>2, <1>3, <1>4 DEF ReadStep, ServeFromCache, TimesArrive, SelectTimesFails

\* What a booking has committed and where it stands go together.
LEMMA CommitBook ==
  ASSUME TypeOK, CommitInv, "lostack" \notin Faults,
         NEW c \in Clients, BookStep(c)
  PROVE  CommitInv'
<1> USE DEF Goto, Reply, Reject, CommitInv, TypeOK
<1>1. CASE DuplicateGuard(c)
  BY <1>1 DEF DuplicateGuard
<1>2. ASSUME NEW r \in RowIds, Insert(c, r) PROVE CommitInv'
  BY <1>2 DEF Insert, InsertRow
<1>3. CASE InsertFails(c)
  BY <1>3 DEF InsertFails, NextAttempt
<1>4. CASE InsertConflicts(c)
  BY <1>4 DEF InsertConflicts
<1>5. CASE BookReturns(c)
  BY <1>5 DEF BookReturns
<1> QED
  BY <1>1, <1>2, <1>3, <1>4, <1>5 DEF BookStep

\* The same of a move.
LEMMA CommitMove ==
  ASSUME TypeOK, CommitInv, "lostack" \notin Faults,
         NEW c \in Clients, MoveStep(c)
  PROVE  CommitInv'
<1> USE DEF Goto, Reply, Reject, CommitInv, TypeOK
<1>1. CASE FindForMove(c)
  BY <1>1 DEF FindForMove
<1>2. ASSUME NEW r \in RowIds, Move(c, r) PROVE CommitInv'
  BY <1>2 DEF Move
<1>3. CASE MoveFails(c)
  BY <1>3 DEF MoveFails
<1>4. CASE RescheduleReturns(c)
  BY <1>4 DEF RescheduleReturns
<1> QED
  BY <1>1, <1>2, <1>3, <1>4 DEF MoveStep

\* The same when a cancellation answers for one of its rows.
LEMMA CommitSettle ==
  ASSUME TypeOK, CommitInv, NEW c \in Clients, NEW i \in RowIds, NEW ok \in BOOLEAN,
         pc[c] \in {"lookup", "update", "updated"},
         (req[c].okAny \/ ok) <=> done[c],
         Settle(c, i, ok), UNCHANGED done
  PROVE  CommitInv'
<1> DEFINE rest == req[c].todo \ {i}
           okAny == req[c].okAny \/ ok
           failAny == req[c].failAny \/ ~ok
           r == [req[c] EXCEPT !.todo = rest, !.id = i, !.okAny = okAny,
                               !.failAny = failAny]
<1>1. req' = [req EXCEPT ![c] = r]
  BY DEF Settle, TypeOK
<1>2. req[c] \in Request
  BY RequestType
<1>3. r.okAny = okAny
  BY <1>2 DEF Request
<1>4. done' = [done EXCEPT ![c] = done[c]] /\ done[c] \in BOOLEAN
  BY DEF TypeOK
<1>5. failAny \/ okAny
  BY <1>2 DEF Request
<1>6. CASE rest = {}
  <2>1. /\ answer' = [answer EXCEPT ![c] = Verdict(okAny, failAny)]
        /\ pc' = [pc EXCEPT ![c] = "idle"]
    BY <1>6 DEF Settle, Reply, Goto
  <2>2. /\ Verdict(okAny, failAny) \in {"yes", "partial"} => done[c]
        /\ Verdict(okAny, failAny) \in {"no", "nothing"} => ~done[c]
    BY DEF Verdict
  <2>3. PICK a : a = Verdict(okAny, failAny)
    OBVIOUS
  <2> HIDE DEF r
  <2> QED
    BY <1>1, <1>4, <2>1, <2>2, <2>3, CommitLocal DEF Steps
<1>7. CASE rest # {}
  <2>1. /\ answer' = [answer EXCEPT ![c] = answer[c]]
        /\ answer[c] = "none"
        /\ pc' = [pc EXCEPT ![c] = "lookup"]
    BY <1>7 DEF Settle, Goto, CommitInv, TypeOK
  <2>2. done[c] <=> r.okAny
    BY <1>3
  <2> HIDE DEF r
  <2> QED
    BY ZenonT(60), <1>1, <1>4, <2>1, <2>2, CommitLocal DEF Steps
<1> QED
  BY <1>6, <1>7

\* The same of a cancellation, row by row.
LEMMA CommitCancel ==
  ASSUME TypeOK, CommitInv, "lostack" \notin Faults,
         NEW c \in Clients, CancelStep(c)
  PROVE  CommitInv'
<1>0. req[c] \in Request /\ req[c].id \in RowIds /\ req[c].okAny \in BOOLEAN
  BY RequestType DEF Request
<1>1. CASE ListBookings(c)
  <2>1. PICK found \in SUBSET RowIds :
          /\ req' = [req EXCEPT ![c].todo = found]
          /\ IF found = {}
             THEN Reply(c, "nothing", "idle")
             ELSE Goto(c, "lookup") /\ UNCHANGED answer
    BY <1>1 DEF ListBookings
  <2>2. pc[c] = "list" /\ ~done[c] /\ UNCHANGED done
    BY <1>1 DEF ListBookings, CommitInv
  <2>3. req[c].okAny = FALSE
    BY <1>0, <1>1, <2>2 DEF ListBookings, CommitInv
  <2> DEFINE r == [req[c] EXCEPT !.todo = found]
  <2>4. req' = [req EXCEPT ![c] = r] /\ r.okAny = FALSE
    BY <1>0, <2>1, <2>3 DEF TypeOK, Request
  <2> HIDE DEF r
  <2>5. done' = [done EXCEPT ![c] = FALSE]
    BY <2>2 DEF TypeOK
  <2>6. CASE found = {}
    <3>1. answer' = [answer EXCEPT ![c] = "nothing"] /\ pc' = [pc EXCEPT ![c] = "idle"]
      BY <2>1, <2>6 DEF Reply, Goto
    <3> QED
      BY <2>4, <2>5, <3>1 DEF CommitInv, TypeOK
  <2>7. CASE found # {}
    <3>1. answer' = [answer EXCEPT ![c] = "none"]
      BY <2>1, <2>2, <2>7 DEF CommitInv, TypeOK
    <3> QED
      BY <2>1, <2>4, <2>5, <2>7, <3>1, CommitLocal DEF Goto, Steps
  <2> QED
    BY <2>6, <2>7
<1>2. ASSUME NEW i \in RowIds, LookUp(c, i) PROVE CommitInv'
  <2>1. pc[c] = "lookup" /\ (done[c] <=> req[c].okAny) /\ UNCHANGED done
    BY <1>2 DEF LookUp, CommitInv
  <2>2. CASE Settle(c, i, FALSE)
    BY <2>1, <2>2, CommitSettle
  <2>3. CASE ~Settle(c, i, FALSE)
    <3> DEFINE r == [req[c] EXCEPT !.id = i]
    <3>1. /\ req' = [req EXCEPT ![c] = r]
          /\ pc' = [pc EXCEPT ![c] = "update"]
          /\ UNCHANGED answer
      BY <1>2, <2>3 DEF LookUp, Goto, TypeOK
    <3>2. r.okAny = req[c].okAny
      BY <1>0 DEF Request
    <3>3. /\ answer' = [answer EXCEPT ![c] = "none"]
          /\ done' = [done EXCEPT ![c] = done[c]]
          /\ done[c] \in BOOLEAN
      BY <2>1, <3>1 DEF CommitInv, TypeOK
    <3>4. done[c] <=> r.okAny
      BY <2>1, <3>2
    <3> HIDE DEF r
    <3> QED
      BY ZenonT(60), <3>1, <3>3, <3>4, CommitLocal DEF Steps
  <2> QED
    BY <2>2, <2>3
<1>3. CASE Cancel(c)
  BY ZenonT(60), <1>3 DEF Cancel, Goto, CommitInv, TypeOK
<1>4. CASE CancelFails(c)
  BY <1>0, <1>4, CommitSettle DEF CancelFails, CommitInv
<1>5. CASE CancelReturns(c)
  BY <1>0, <1>5, CommitSettle DEF CancelReturns, CommitInv
<1> QED
  BY <1>1, <1>2, <1>3, <1>4, <1>5 DEF CancelStep

\* The same of the dashboard's writes.
LEMMA CommitDesk ==
  ASSUME TypeOK, CommitInv, "lostack" \notin Faults,
         NEW c \in Clients, DeskStep(c)
  PROVE  CommitInv'
<1> USE DEF Goto, Reply, CommitInv, TypeOK
<1>1. CASE DeskClash(c)
  BY <1>1 DEF DeskClash
<1>2. ASSUME NEW r \in RowIds, NEW p \in Phones \cup {NoPhone}, DeskCreate(c, r, p)
      PROVE  CommitInv'
  BY <1>2 DEF DeskCreate, InsertRow
<1>3. CASE DeskCreateFails(c)
  BY <1>3 DEF DeskCreateFails
<1>4. CASE DeskFind(c)
  BY <1>4 DEF DeskFind
<1>5. CASE DeskCancel(c)
  BY <1>5 DEF DeskCancel
<1> QED
  BY <1>1, <1>2, <1>3, <1>4, <1>5 DEF DeskStep

\* Without a lost acknowledgement what a client is told is what happened.
LEMMA NextCommitInv ==
  ASSUME "lostack" \notin Faults
  PROVE  TypeOK /\ CommitInv /\ [Next]_vars => CommitInv'
<1> SUFFICES ASSUME TypeOK, CommitInv, [Next]_vars PROVE CommitInv'
  OBVIOUS
<1>1. ASSUME UNCHANGED <<pc, req, answer, done>> PROVE CommitInv'
  BY <1>1 DEF CommitInv
<1>2. ASSUME NEW w \in Workers, Connect(w) \/ EnsureConstraints(w) PROVE CommitInv'
  BY <1>1, <1>2 DEF Connect, EnsureConstraints
<1>3. ASSUME NEW w \in Workers, NEW d \in Days, ExpireCache(w, d) PROVE CommitInv'
  BY <1>1, <1>3 DEF ExpireCache
<1>4. ASSUME NEW c \in Calls, Start(c) \/ CallStep(c) PROVE CommitInv'
  BY <1>4, CommitStart, CommitRead, CommitBook, CommitMove, CommitCancel
     DEF CallStep, Clients
<1>5. ASSUME NEW c \in Desk, DeskStart(c) \/ DeskStep(c) PROVE CommitInv'
  BY <1>5, CommitStart, CommitDesk DEF Clients
<1>6. CASE UNCHANGED vars
  BY <1>1, <1>6 DEF vars
<1> QED
  BY <1>2, <1>3, <1>4, <1>5, <1>6 DEF Next

\* Unless the acknowledgement of a committed write can be lost, a client
\* told "could not" has written nothing, whatever failed and was retried.
THEOREM FailuresAreHonest ==
  ASSUME "lostack" \notin Faults
  PROVE  Spec => []HonestFailure
<1>1. TypeOK /\ CommitInv /\ [Next]_vars => (TypeOK /\ CommitInv)'
  BY NextTypeOK, NextCommitInv
<1>2. CommitInv => HonestFailure
  BY DEF CommitInv, HonestFailure
<1> QED
  BY <1>1, <1>2, InitTypeOK, InitCommitInv, PTL DEF Spec

-----------------------------------------------------------------------------
(* Refinement: the table, seen as one holder per slot, is the ledger. *)

DistinctIn(table) ==
  \A r, q \in RowIds :
    /\ table[r].status = "booked" /\ table[q].status = "booked"
    /\ table[r].slot = table[q].slot
    => r = q

\* The holder of a booked slot is the number of its row.
LEMMA HolderOfBooked ==
  ASSUME NEW table, DistinctIn(table), NEW r \in RowIds, NEW s \in Slots,
         HoldsIn(table, r, s)
  PROVE  HolderIn(table)[s] = table[r].phone
<1>1. PICK q \in RowIds : q = CHOOSE x \in RowIds : HoldsIn(table, x, s)
  OBVIOUS
<1>2. HoldsIn(table, q, s)
  BY <1>1
<1>3. q = r
  BY <1>2 DEF DistinctIn, HoldsIn
<1> QED
  BY <1>1, <1>3 DEF HolderIn

\* A slot without a booked row has no holder.
LEMMA HolderOfFree ==
  ASSUME NEW table, NEW s \in Slots, \A r \in RowIds : ~HoldsIn(table, r, s)
  PROVE  HolderIn(table)[s] = Free
BY DEF HolderIn

\* Table u is table t with a booked row written into a free slot.
IsPut(t, u, r, s, p) ==
  /\ DistinctIn(t) /\ DistinctIn(u)
  /\ t \in [RowIds -> Row]
  /\ r \in RowIds /\ s \in Slots /\ p \in Phones \cup {NoPhone}
  /\ \A x \in RowIds : ~HoldsIn(t, x, s)
  /\ t[r].status # "booked"
  /\ u = [t EXCEPT ![r] = Put(s, p)]

\* Booking a row makes its number the holder of its slot alone.
LEMMA HolderPut ==
  ASSUME NEW t, NEW u, NEW r, NEW s, NEW p, IsPut(t, u, r, s, p)
  PROVE  HolderIn(t)[s] = Free /\ HolderIn(u) = [HolderIn(t) EXCEPT ![s] = p]
<1> USE DEF IsPut
<1>1. HolderIn(t)[s] = Free
  BY HolderOfFree
<1>2. ASSUME NEW a \in Slots
      PROVE  HolderIn(u)[a] = [HolderIn(t) EXCEPT ![s] = p][a]
  <2>1. CASE a = s
    <3>1. HoldsIn(u, r, s) /\ u[r].phone = p
      BY DEF HoldsIn, Put
    <3>2. HolderIn(u)[s] = p
      BY <3>1, HolderOfBooked
    <3>3. [HolderIn(t) EXCEPT ![s] = p][s] = p
      BY DEF HolderIn
    <3> QED
      BY <2>1, <3>2, <3>3
  <2>2. CASE a # s
    <3>1. \A x \in RowIds : HoldsIn(u, x, a) <=> HoldsIn(t, x, a)
      BY <2>2 DEF HoldsIn, Put
    <3>2. \A x \in RowIds : HoldsIn(u, x, a) => u[x].phone = t[x].phone
      BY <2>2 DEF HoldsIn, Put
    <3>3. CASE \E x \in RowIds : HoldsIn(t, x, a)
      <4>1. PICK x \in RowIds : HoldsIn(t, x, a)
        BY <3>3
      <4>2. HolderIn(t)[a] = t[x].phone
        BY <4>1, HolderOfBooked
      <4>3. HolderIn(u)[a] = u[x].phone
        BY <3>1, <4>1, HolderOfBooked
      <4>4. [HolderIn(t) EXCEPT ![s] = p][a] = HolderIn(t)[a]
        BY <2>2 DEF HolderIn
      <4> QED
        BY <3>1, <3>2, <4>1, <4>2, <4>3, <4>4
    <3>4. CASE \A x \in RowIds : ~HoldsIn(t, x, a)
      BY <2>2, <3>1, <3>4, HolderOfFree DEF HolderIn
    <3> QED
      BY <3>3, <3>4
  <2> QED
    BY <2>1, <2>2
<1> QED
  BY <1>1, <1>2 DEF HolderIn

\* Cancelling a row empties its slot, or nothing if it was not booked.
IsCancel(t, u, i) ==
  /\ DistinctIn(t)
  /\ t \in [RowIds -> Row]
  /\ i \in RowIds
  /\ u = [t EXCEPT ![i].status = "cancelled"]

\* Cancelling a row frees its slot alone.
LEMMA HolderCancel ==
  ASSUME NEW t, NEW u, NEW i, IsCancel(t, u, i)
  PROVE  /\ DistinctIn(u)
         /\ HolderIn(u) = [s \in Slots |->
                             IF s \in {x \in Slots : HoldsIn(t, i, x)}
                             THEN Free ELSE HolderIn(t)[s]]
<1> USE DEF IsCancel
<1>1. /\ u[i].status = "cancelled"
      /\ \A x \in RowIds : u[x].slot = t[x].slot /\ u[x].phone = t[x].phone
      /\ \A x \in RowIds : x # i => u[x] = t[x]
  BY DEF Row
<1>2. DistinctIn(u)
  BY <1>1 DEF DistinctIn
<1>3. ASSUME NEW a \in Slots
      PROVE  HolderIn(u)[a] = IF HoldsIn(t, i, a) THEN Free ELSE HolderIn(t)[a]
  <2>1. CASE HoldsIn(t, i, a)
    <3>1. \A x \in RowIds : ~HoldsIn(u, x, a)
      BY <1>1, <2>1 DEF DistinctIn, HoldsIn
    <3> QED
      BY <2>1, <3>1, HolderOfFree
  <2>2. CASE ~HoldsIn(t, i, a)
    <3>1. \A x \in RowIds : HoldsIn(u, x, a) <=> HoldsIn(t, x, a)
      BY <1>1, <2>2 DEF HoldsIn
    <3>2. CASE \E x \in RowIds : HoldsIn(t, x, a)
      <4>1. PICK x \in RowIds : HoldsIn(t, x, a)
        BY <3>2
      <4>2. HolderIn(t)[a] = t[x].phone
        BY <4>1, HolderOfBooked
      <4>3. HolderIn(u)[a] = u[x].phone
        BY <1>2, <3>1, <4>1, HolderOfBooked
      <4> QED
        BY <1>1, <2>2, <4>2, <4>3
    <3>3. CASE \A x \in RowIds : ~HoldsIn(t, x, a)
      BY <2>2, <3>1, <3>3, HolderOfFree
    <3> QED
      BY <3>2, <3>3
  <2> QED
    BY <2>1, <2>2
<1> QED
  BY <1>2, <1>3 DEF HolderIn

\* The invariant of the index, said of a table.
LEMMA RowsDistinct == SlotsDistinct <=> DistinctIn(row)
BY DEF SlotsDistinct, DistinctIn, Booked

\* What the index admits has no holder in the ledger.
LEMMA SlotFree ==
  ASSUME NEW s
  PROVE  ~Taken(s) <=> \A r \in RowIds : ~HoldsIn(row, r, s)
BY DEF Taken, Booked, HoldsIn

\* An INSERT is a grant, with or without the reply in the same step.
LEMMA InsertGrants ==
  ASSUME TypeOK, SlotsDistinct, SlotsDistinct', idx, CommitInv,
         NEW c \in Clients, NEW r \in RowIds, NEW p \in Phones \cup {NoPhone},
         pc[c] \in {"insert", "create"}, InsertRow(c, r, p),
         answer' \in {answer, [answer EXCEPT ![c] = "yes"]}
  PROVE  Ledger!Next
<1>1. req[c].slot \in Slots
  BY RequestType
<1>2. DistinctIn(row) /\ DistinctIn(row')
  BY DEF SlotsDistinct, DistinctIn, Booked
<1>3. /\ HolderIn(row)[req[c].slot] = Free
      /\ HolderIn(row') = [HolderIn(row) EXCEPT ![req[c].slot] = p]
  <2>1. IsPut(row, row', r, req[c].slot, p)
    BY <1>1, <1>2, SlotFree DEF IsPut, InsertRow, Conflict, TypeOK
  <2> QED
    BY <2>1, HolderPut
<1>4. ~done[c]
  BY DEF CommitInv
<1> QED
  BY <1>1, <1>3, <1>4
     DEF InsertRow, Holder, Ledger!Next, Ledger!Grant, Ledger!Effect

\* An UPDATE to cancelled is a release.
LEMMA CancelReleases ==
  ASSUME TypeOK, SlotsDistinct, NEW c \in Clients, NEW i \in RowIds, CancelRow(i),
         done' = [done EXCEPT ![c] = TRUE],
         answer' \in {answer, [answer EXCEPT ![c] = "yes"]}
  PROVE  Ledger!Next
<1>1. CASE row[i].status = "none"
  <2>1. row' = row
    BY <1>1 DEF CancelRow
  <2>2. Holder' = [s \in Slots |-> IF s \in {} THEN Free ELSE Holder[s]]
    BY <2>1 DEF Holder, HolderIn
  <2>3. Ledger!Release(c, {})
    BY <2>2 DEF Ledger!Release, Ledger!Effect
  <2> QED
    BY <2>3, {} \in SUBSET Slots DEF Ledger!Next
<1>2. CASE row[i].status # "none"
  <2> DEFINE S == {x \in Slots : HoldsIn(row, i, x)}
  <2>1. row' = [row EXCEPT ![i].status = "cancelled"]
    BY <1>2 DEF CancelRow
  <2>2. IsCancel(row, row', i)
    BY <2>1, RowsDistinct DEF IsCancel, TypeOK
  <2>3. Holder' = [s \in Slots |-> IF s \in S THEN Free ELSE Holder[s]]
    BY <2>2, HolderCancel DEF Holder
  <2> QED
    BY <2>3 DEF Ledger!Next, Ledger!Release, Ledger!Effect
<1> QED
  BY <1>1, <1>2

\* A move is an exchange, or a grant when the named row was not booked.
LEMMA MoveExchanges ==
  ASSUME TypeOK, SlotsDistinct, SlotsDistinct', idx, CommitInv,
         NEW c \in Clients, NEW r \in RowIds, Move(c, r), UNCHANGED answer
  PROVE  Ledger!Next
<1> DEFINE i == req[c].id
           s == req[c].slot
           p == row[i].phone
           t == [row EXCEPT ![i].status = "cancelled"]
<1>1. i \in RowIds /\ s \in Slots /\ p \in Phones \cup {NoPhone}
  BY RequestType DEF TypeOK, Row
<1>2. DistinctIn(row) /\ DistinctIn(row')
  BY DEF SlotsDistinct, DistinctIn, Booked
<1>3. t \in [RowIds -> Row] /\ row' = [t EXCEPT ![r] = Put(s, p)]
  <2>1. t \in [RowIds -> Row]
    BY <1>1 DEF TypeOK, Row
  <2>2. row' = [t EXCEPT ![r] = Put(s, p)]
    BY Zenon DEF Move, MoveRows
  <2> QED
    BY <2>1, <2>2
<1>4. /\ DistinctIn(t)
      /\ HolderIn(t) = [a \in Slots |-> IF a \in {x \in Slots : HoldsIn(row, i, x)}
                                        THEN Free ELSE HolderIn(row)[a]]
  <2>1. IsCancel(row, t, i)
    BY <1>1, <1>2 DEF IsCancel, TypeOK
  <2> QED
    BY <2>1, HolderCancel
<1>5. \A x \in RowIds : ~HoldsIn(t, x, s)
  <2>1. \A x \in RowIds : x # i => t[x] = row[x]
    OBVIOUS
  <2>2. t[i].status = "cancelled"
    BY <1>1 DEF TypeOK, Row
  <2>3. \A x \in RowIds \ {i} : ~HoldsIn(row, x, s)
    BY DEF Move, MoveConflict, Booked, HoldsIn
  <2> QED
    BY <2>1, <2>2, <2>3 DEF HoldsIn
<1>6. t[r].status # "booked"
  BY <1>1 DEF Move, TypeOK, Row
<1>7. HolderIn(t)[s] = Free /\ HolderIn(row') = [HolderIn(t) EXCEPT ![s] = p]
  <2>1. IsPut(t, row', r, s, p)
    BY <1>1, <1>2, <1>3, <1>4, <1>5, <1>6 DEF IsPut
  <2> HIDE DEF t, s, p
  <2> QED
    BY <2>1, HolderPut
<1>8. /\ ~done[c]
      /\ done' = [done EXCEPT ![c] = TRUE]
      /\ answer' = answer
  BY DEF Move, CommitInv
<1>9. CASE Booked(i)
  <2> DEFINE a == row[i].slot
  <2>1. a \in Slots /\ HoldsIn(row, i, a)
    BY <1>1, <1>9 DEF TypeOK, Row, Booked, HoldsIn
  <2>2. HolderIn(row)[a] = p
    BY <1>1, <1>2, <2>1, HolderOfBooked
  <2>3. {x \in Slots : HoldsIn(row, i, x)} = {a}
    BY <2>1 DEF HoldsIn
  <2>4. HolderIn(t) = [HolderIn(row) EXCEPT ![a] = Free]
    BY <1>4, <2>1, <2>3 DEF HolderIn
  <2>5. s = a \/ HolderIn(row)[s] = Free
    BY <1>1, <1>7, <2>1, <2>4 DEF HolderIn
  <2>6. HolderIn(row') = [HolderIn(row) EXCEPT ![a] = Free, ![s] = HolderIn(row)[a]]
    BY <1>7, <2>2, <2>4
  <2>7. HolderIn(row)[a] # Free
    BY <1>1, <2>2, FreeAssumption
  <2>8. Ledger!Exchange(c, a, s)
    <3> HIDE DEF a, s, t, p
    <3> QED
      BY <1>8, <2>5, <2>6, <2>7 DEF Holder, Ledger!Exchange, Ledger!Effect
  <2> QED
    BY <1>1, <2>1, <2>8 DEF Ledger!Next
<1>10. CASE ~Booked(i)
  <2>1. HolderIn(t) = HolderIn(row)
    BY <1>4, <1>10 DEF HolderIn, HoldsIn, Booked
  <2>2. Ledger!Grant(c, s, p)
    <3> HIDE DEF s, t, p
    <3> QED
      BY <1>7, <1>8, <2>1 DEF Holder, Ledger!Grant, Ledger!Effect
  <2> QED
    BY <1>1, <2>2 DEF Ledger!Next
<1> QED
  BY <1>9, <1>10

\* A table that stays has the holders it had.
LEMMA RowUnchanged == row' = row => Holder' = Holder
BY DEF Holder

\* Steps that write nothing and change at most one client's answer.
LEMMA ReportsOnly ==
  ASSUME CommitInv', NEW c \in Clients, UNCHANGED <<row, done>>,
         NEW a \in {"yes", "no", "partial", "nothing"},
         answer' = answer \/ (answer' = [answer EXCEPT ![c] = a] /\ answer'[c] = a)
  PROVE  [Ledger!Next]_(Ledger!ledger)
<1>1. CASE answer' = answer
  BY <1>1, RowUnchanged DEF Ledger!ledger
<1>2. CASE answer' # answer
  <2>1. a \in {"yes", "partial"} <=> done[c]
    BY <1>2 DEF CommitInv
  <2> QED
    BY <1>2, <2>1, RowUnchanged DEF Ledger!Next, Ledger!Report
<1> QED
  BY <1>1, <1>2

\* Every step of the book is a step of the ledger or changes no holder.
LEMMA StepRefines ==
  ASSUME "lostack" \notin Faults,
         TypeOK, TypeOK', SlotsDistinct, SlotsDistinct', CommitInv, CommitInv',
         idx, [Next]_vars
  PROVE  [Ledger!Next]_(Ledger!ledger)
<1>1. ASSUME UNCHANGED <<row, answer, done>>
      PROVE  [Ledger!Next]_(Ledger!ledger)
  BY <1>1, RowUnchanged DEF Ledger!ledger
<1>2. ASSUME NEW w \in Workers, Connect(w) \/ EnsureConstraints(w)
      PROVE  [Ledger!Next]_(Ledger!ledger)
  BY <1>1, <1>2 DEF Connect, EnsureConstraints
<1>3. ASSUME NEW w \in Workers, NEW d \in Days, ExpireCache(w, d)
      PROVE  [Ledger!Next]_(Ledger!ledger)
  BY <1>1, <1>3 DEF ExpireCache
<1>4. ASSUME NEW c \in Clients, Start(c) \/ DeskStart(c)
      PROVE  [Ledger!Next]_(Ledger!ledger)
  <2>1. /\ done' = [done EXCEPT ![c] = FALSE]
        /\ answer' = [answer EXCEPT ![c] = "none"]
        /\ UNCHANGED row
    BY <1>4
       DEF Start, DeskStart, StartBook, StartSlots, StartSnapshot, StartCancel,
           StartReschedule, StartCancelAll, StartDeskBook, StartDeskCancel, Begin
  <2> QED
    BY <2>1, RowUnchanged DEF Ledger!Next, Ledger!Request
<1>5. ASSUME NEW c \in Clients, NEW a \in {"yes", "no", "partial", "nothing"},
             NEW step, Reply(c, a, step), UNCHANGED <<row, done>>
      PROVE  [Ledger!Next]_(Ledger!ledger)
  BY <1>5, ReportsOnly DEF Reply, TypeOK
<1>6. ASSUME NEW c \in Clients, NEW i \in RowIds, NEW ok \in BOOLEAN,
             Settle(c, i, ok), UNCHANGED <<row, done>>
      PROVE  [Ledger!Next]_(Ledger!ledger)
  BY <1>1, <1>5, <1>6 DEF Settle, Verdict
<1>7. ASSUME NEW c \in Calls, ReadStep(c)
      PROVE  [Ledger!Next]_(Ledger!ledger)
  <2>1. UNCHANGED <<row, done>>
    BY <1>7 DEF ReadStep, ServeFromCache, SelectTimes, TimesArrive,
                SelectTimesFails, RefuseEarly
  <2>2. UNCHANGED answer \/ Reject(c)
    BY <1>7 DEF ReadStep, ServeFromCache, SelectTimes, TimesArrive,
                SelectTimesFails, RefuseEarly, Proceed
  <2> QED
    BY <1>1, <1>5, <2>1, <2>2, CallTypes DEF Reject
<1>8. ASSUME NEW c \in Calls, BookStep(c)
      PROVE  [Ledger!Next]_(Ledger!ledger)
  <2>1. ASSUME NEW r \in RowIds, Insert(c, r) PROVE Ledger!Next
    <3>1. InsertRow(c, r, PhoneOf[c]) /\ UNCHANGED answer /\ pc[c] = "insert"
      BY <2>1 DEF Insert
    <3> QED
      BY <3>1, InsertGrants, CallTypes
  <2>2. CASE DuplicateGuard(c)
    BY <1>1, <1>5, <2>2, CallTypes DEF DuplicateGuard, Reject
  <2>3. CASE InsertFails(c)
    BY <1>1, <1>5, <2>3, CallTypes DEF InsertFails, NextAttempt, Reject
  <2>4. CASE InsertConflicts(c)
    BY <1>5, <2>4, CallTypes DEF InsertConflicts, Reject
  <2>5. CASE BookReturns(c)
    BY <1>5, <2>5, CallTypes DEF BookReturns
  <2> QED
    BY <1>8, <2>1, <2>2, <2>3, <2>4, <2>5 DEF BookStep
<1>9. ASSUME NEW c \in Calls, MoveStep(c)
      PROVE  [Ledger!Next]_(Ledger!ledger)
  <2>1. ASSUME NEW r \in RowIds, Move(c, r) PROVE Ledger!Next
    <3>1. UNCHANGED answer
      BY <2>1 DEF Move
    <3> QED
      BY <2>1, <3>1, MoveExchanges, CallTypes
  <2>2. CASE FindForMove(c)
    BY <1>1, <1>5, <2>2, CallTypes DEF FindForMove, Reject
  <2>3. CASE MoveFails(c)
    BY <1>5, <2>3, CallTypes DEF MoveFails, Reject
  <2>4. CASE RescheduleReturns(c)
    BY <1>5, <2>4, CallTypes DEF RescheduleReturns
  <2> QED
    BY <1>9, <2>1, <2>2, <2>3, <2>4 DEF MoveStep
<1>10. ASSUME NEW c \in Calls, CancelStep(c)
       PROVE  [Ledger!Next]_(Ledger!ledger)
  <2>0. c \in Clients /\ req[c].id \in RowIds
    BY CallTypes, RequestType
  <2>1. CASE Cancel(c)
    <3>1. /\ CancelRow(req[c].id)
          /\ done' = [done EXCEPT ![c] = TRUE]
          /\ UNCHANGED answer
      BY <2>1 DEF Cancel
    <3> QED
      BY <2>0, <3>1, CancelReleases
  <2>2. CASE ListBookings(c)
    BY <1>1, <1>5, <2>0, <2>2 DEF ListBookings
  <2>3. ASSUME NEW i \in RowIds, LookUp(c, i)
        PROVE  [Ledger!Next]_(Ledger!ledger)
    BY <1>1, <1>6, <2>0, <2>3 DEF LookUp
  <2>4. CASE CancelFails(c)
    BY <1>6, <2>0, <2>4 DEF CancelFails
  <2>5. CASE CancelReturns(c)
    BY <1>6, <2>0, <2>5 DEF CancelReturns
  <2> QED
    BY <1>10, <2>1, <2>2, <2>3, <2>4, <2>5 DEF CancelStep
<1>11. ASSUME NEW c \in Desk, DeskStep(c)
       PROVE  [Ledger!Next]_(Ledger!ledger)
  <2>0. c \in Clients /\ req[c].id \in RowIds
    BY RequestType DEF Clients
  <2>1. ASSUME NEW r \in RowIds, NEW p \in Phones \cup {NoPhone},
               DeskCreate(c, r, p)
        PROVE  Ledger!Next
    <3>1. InsertRow(c, r, p) /\ pc[c] = "create"
      BY <2>1 DEF DeskCreate
    <3>2. answer' = [answer EXCEPT ![c] = "yes"]
      BY <2>1 DEF DeskCreate, Reply
    <3> QED
      BY <2>0, <3>1, <3>2, InsertGrants
  <2>2. CASE DeskCancel(c)
    <3>1. /\ CancelRow(req[c].id)
          /\ done' = [done EXCEPT ![c] = TRUE]
          /\ answer' = [answer EXCEPT ![c] = "yes"]
      BY <2>2 DEF DeskCancel, Reply
    <3> QED
      BY <2>0, <3>1, CancelReleases
  <2>3. CASE DeskClash(c)
    BY <1>1, <1>5, <2>0, <2>3 DEF DeskClash
  <2>4. CASE DeskCreateFails(c)
    BY <1>5, <2>0, <2>4 DEF DeskCreateFails
  <2>5. CASE DeskFind(c)
    BY <1>1, <1>5, <2>0, <2>5 DEF DeskFind
  <2> QED
    BY <1>11, <2>1, <2>2, <2>3, <2>4, <2>5 DEF DeskStep
<1>12. CASE UNCHANGED vars
  BY <1>1, <1>12 DEF vars
<1> QED
  BY <1>2, <1>3, <1>4, <1>7, <1>8, <1>9, <1>10, <1>11, <1>12
     DEF Next, CallStep, Clients

\* The book starts as an empty ledger.
LEMMA InitRefines == Init => Ledger!Init
<1> SUFFICES ASSUME Init PROVE Ledger!Init
  OBVIOUS
<1>1. \A r \in RowIds, s \in Slots : ~HoldsIn(row, r, s)
  BY DEF Init, HoldsIn
<1>2. Holder = [s \in Slots |-> Free]
  BY <1>1 DEF Holder, HolderIn
<1> QED
  BY <1>2 DEF Init, Ledger!Init

\* The appointment book implements the ledger for every number of calls,
\* dashboard requests, processes, callers, slots and rows.
THEOREM ImplementsLedger ==
  ASSUME IndexPresent, "lostack" \notin Faults
  PROVE  Spec => LedgerSpec
<1> DEFINE I == TypeOK /\ IndexSound /\ idx /\ CommitInv
<1>1. Init => I
  BY InitTypeOK, InitIndexSound, InitCommitInv DEF Init
<1>2. I /\ [Next]_vars => I'
  BY NextTypeOK, NextIndexSound, IndexStays, NextCommitInv DEF IndexInv
<1>3. I /\ I' /\ [Next]_vars => [Ledger!Next]_(Ledger!ledger)
  BY StepRefines DEF IndexSound
<1> QED
  BY <1>1, <1>2, <1>3, InitRefines, PTL DEF Spec, LedgerSpec, Ledger!Spec

-----------------------------------------------------------------------------
(* Who may release a booking. *)

\* A request about to UPDATE a row aims at one of its caller's own.
AimsAtOwn ==
  \A c \in Calls : pc[c] \in {"move", "update"} =>
    \/ PhoneOf[c] = NoPhone
    \/ row[req[c].id].status # "none" /\ row[req[c].id].phone = PhoneOf[c]

\* The statements that write the table.
LEMMA RowWriters ==
  ASSUME [Next]_vars
  PROVE  \/ UNCHANGED row
         \/ \E c \in Calls, r \in RowIds : Insert(c, r) \/ Move(c, r)
         \/ \E c \in Calls : Cancel(c)
         \/ \E c \in Desk, r \in RowIds, p \in Phones \cup {NoPhone} : DeskCreate(c, r, p)
         \/ \E c \in Desk : DeskCancel(c)
<1>1. ASSUME NEW w \in Workers, Connect(w) \/ EnsureConstraints(w) PROVE UNCHANGED row
  BY <1>1 DEF Connect, EnsureConstraints
<1>2. ASSUME NEW w \in Workers, NEW d \in Days, ExpireCache(w, d) PROVE UNCHANGED row
  BY <1>2 DEF ExpireCache
<1>3. ASSUME NEW c \in Clients, Start(c) \/ DeskStart(c) PROVE UNCHANGED row
  BY <1>3
     DEF Start, DeskStart, StartBook, StartSlots, StartSnapshot, StartCancel,
         StartReschedule, StartCancelAll, StartDeskBook, StartDeskCancel, Begin
<1>4. ASSUME NEW c \in Calls, ReadStep(c) PROVE UNCHANGED row
  BY <1>4
     DEF ReadStep, ServeFromCache, SelectTimes, TimesArrive, SelectTimesFails, RefuseEarly
<1>5. ASSUME NEW c \in Calls, BookStep(c)
      PROVE  UNCHANGED row \/ \E r \in RowIds : Insert(c, r)
  BY <1>5 DEF BookStep, DuplicateGuard, InsertFails, InsertConflicts, BookReturns
<1>6. ASSUME NEW c \in Calls, MoveStep(c)
      PROVE  UNCHANGED row \/ \E r \in RowIds : Move(c, r)
  BY <1>6 DEF MoveStep, FindForMove, MoveFails, RescheduleReturns
<1>7. ASSUME NEW c \in Calls, CancelStep(c) PROVE UNCHANGED row \/ Cancel(c)
  BY <1>7 DEF CancelStep, ListBookings, LookUp, CancelFails, CancelReturns
<1>8. ASSUME NEW c \in Desk, DeskStep(c)
      PROVE  \/ UNCHANGED row \/ DeskCancel(c)
             \/ \E r \in RowIds, p \in Phones \cup {NoPhone} : DeskCreate(c, r, p)
  BY <1>8 DEF DeskStep, DeskClash, DeskCreateFails, DeskFind
<1>9. CASE UNCHANGED vars
  BY <1>9 DEF vars
<1> QED
  BY <1>1, <1>2, <1>3, <1>4, <1>5, <1>6, <1>7, <1>8, <1>9 DEF Next, CallStep, Clients

\* What each of them does to the rows it finds: a key in use keeps its
\* number, and only a move and a cancel of its id end a booking.
LEMMA RowFate ==
  ASSUME TypeOK, [Next]_vars, NEW r \in RowIds, row[r].status # "none"
  PROVE  /\ row'[r].status # "none" /\ row'[r].phone = row[r].phone
         /\ row'[r].status # row[r].status =>
              \/ \E c \in Calls, q \in RowIds : Move(c, q) /\ req[c].id = r
              \/ \E c \in Calls : Cancel(c) /\ req[c].id = r
              \/ \E c \in Desk : DeskCancel(c) /\ req[c].id = r
<1>1. CASE UNCHANGED row
  BY <1>1
<1>2. ASSUME NEW c \in Clients, NEW q \in RowIds, NEW p, InsertRow(c, q, p)
      PROVE  row'[r] = row[r]
  BY <1>2 DEF InsertRow, TypeOK
<1>3. ASSUME NEW c \in Calls, NEW q \in RowIds, Move(c, q)
      PROVE  /\ row'[r].status # "none" /\ row'[r].phone = row[r].phone
             /\ row'[r].status # row[r].status => req[c].id = r
  <2>1. q # r /\ req[c].id \in RowIds
    BY <1>3, RequestType, CallTypes DEF Move
  <2> QED
    BY <1>3, <2>1 DEF Move, MoveRows, TypeOK, Row
<1>4. ASSUME NEW i \in RowIds, CancelRow(i)
      PROVE  /\ row'[r].status # "none" /\ row'[r].phone = row[r].phone
             /\ row'[r].status # row[r].status => i = r
  BY <1>4 DEF CancelRow, TypeOK, Row
<1>5. ASSUME NEW c \in Calls, Cancel(c)
      PROVE  /\ row'[r].status # "none" /\ row'[r].phone = row[r].phone
             /\ row'[r].status # row[r].status => req[c].id = r
  BY <1>4, <1>5, RequestType, CallTypes DEF Cancel
<1>6. ASSUME NEW c \in Desk, DeskCancel(c)
      PROVE  /\ row'[r].status # "none" /\ row'[r].phone = row[r].phone
             /\ row'[r].status # row[r].status => req[c].id = r
  BY <1>4, <1>6, RequestType DEF DeskCancel, Clients
<1>7. ASSUME NEW c \in Calls, NEW q \in RowIds, Insert(c, q) PROVE row'[r] = row[r]
  BY <1>2, <1>7, CallTypes DEF Insert
<1>8. ASSUME NEW c \in Desk, NEW q \in RowIds, NEW p \in Phones \cup {NoPhone},
             DeskCreate(c, q, p)
      PROVE  row'[r] = row[r]
  BY <1>2, <1>8 DEF DeskCreate, Clients
<1> QED
  BY <1>1, <1>3, <1>5, <1>6, <1>7, <1>8, RowWriters

\* A request comes to aim at a row only by finding it.
LEMMA AimFound ==
  ASSUME TypeOK, [Next]_vars, NEW c \in Calls, pc'[c] \in {"move", "update"}
  PROVE  \/ pc[c] = pc'[c] /\ req'[c].id = req[c].id
         \/ PhoneOf[c] = NoPhone
         \/ UNCHANGED row /\ Matches(c, req'[c].id)
<1> DEFINE Goal == \/ pc[c] = pc'[c] /\ req'[c].id = req[c].id
                   \/ PhoneOf[c] = NoPhone
                   \/ UNCHANGED row /\ Matches(c, req'[c].id)
<1>0. /\ pc \in [Clients -> Steps] /\ req \in [Clients -> Request]
      /\ req[c] \in Request /\ c \in Clients
  BY RequestType, CallTypes DEF TypeOK
<1>1. ASSUME UNCHANGED <<pc, req>> PROVE Goal
  BY <1>1
<1>2. ASSUME NEW w \in Workers, Connect(w) \/ EnsureConstraints(w) PROVE Goal
  BY <1>1, <1>2 DEF Connect, EnsureConstraints
<1>3. ASSUME NEW w \in Workers, NEW d \in Days, ExpireCache(w, d) PROVE Goal
  BY <1>1, <1>3 DEF ExpireCache
<1>4. ASSUME NEW d \in Clients, Start(d) \/ DeskStart(d) PROVE Goal
  BY ZenonT(60), <1>0, <1>4
     DEF Start, DeskStart, StartBook, StartSlots, StartSnapshot, StartCancel,
         StartReschedule, StartCancelAll, StartDeskBook, StartDeskCancel, Begin
<1>5. ASSUME NEW d \in Calls, ReadStep(d) PROVE Goal
  BY <1>0, <1>5
     DEF ReadStep, ServeFromCache, SelectTimes, TimesArrive, SelectTimesFails,
         RefuseEarly, Proceed, Reject, Reply, Goto
<1>6. ASSUME NEW d \in Calls, BookStep(d) PROVE Goal
  BY <1>0, <1>6
     DEF BookStep, DuplicateGuard, Insert, InsertFails, InsertConflicts, BookReturns,
         NextAttempt, Reject, Reply, Goto, Request
<1>7. ASSUME NEW d \in Calls, MoveStep(d) PROVE Goal
  BY <1>0, <1>7
     DEF MoveStep, FindForMove, Move, MoveFails, RescheduleReturns, Reject, Reply, Goto
<1>8. ASSUME NEW d \in Calls, CancelStep(d) PROVE Goal
  <2>1. ASSUME NEW i \in RowIds, NEW ok \in BOOLEAN, Settle(d, i, ok) PROVE Goal
    BY <1>0, <2>1 DEF Settle, Reply, Goto
  <2>2. ASSUME NEW i \in RowIds, LookUp(d, i) PROVE Goal
    BY <1>0, <2>1, <2>2 DEF LookUp, Goto, Request
  <2>3. CASE ListBookings(d)
    BY <1>0, <2>3 DEF ListBookings, Reply, Goto
  <2>4. CASE Cancel(d)
    BY <1>0, <2>1, <2>4, RequestType, CallTypes DEF Cancel, Goto
  <2>5. CASE CancelFails(d) \/ CancelReturns(d)
    BY <2>1, <2>5, RequestType, CallTypes DEF CancelFails, CancelReturns
  <2> QED
    BY <1>8, <2>2, <2>3, <2>4, <2>5 DEF CancelStep
<1>9. ASSUME NEW d \in Desk, DeskStep(d) PROVE Goal
  <2>1. d # c /\ d \in Clients
    BY ClientAssumption DEF Clients
  <2> QED
    BY <1>0, <1>9, <2>1
       DEF DeskStep, DeskClash, DeskCreate, DeskCreateFails, DeskFind, DeskCancel, Reply, Goto
<1>10. CASE UNCHANGED vars
  BY <1>1, <1>10 DEF vars
<1> QED
  BY <1>2, <1>3, <1>4, <1>5, <1>6, <1>7, <1>8, <1>9, <1>10 DEF Next, CallStep, Clients

\* A tool of a call with a number only aims at rows of that number.
LEMMA NextAims == TypeOK /\ AimsAtOwn /\ [Next]_vars => AimsAtOwn'
<1> SUFFICES ASSUME TypeOK, AimsAtOwn, [Next]_vars,
                    NEW c \in Calls, pc'[c] \in {"move", "update"}, PhoneOf[c] # NoPhone
             PROVE  row'[req'[c].id].status # "none" /\ row'[req'[c].id].phone = PhoneOf[c]
  BY DEF AimsAtOwn
<1>1. req[c].id \in RowIds
  BY RequestType, CallTypes
<1>2. CASE pc[c] = pc'[c] /\ req'[c].id = req[c].id
  BY <1>1, <1>2, RowFate DEF AimsAtOwn
<1>3. CASE UNCHANGED row /\ Matches(c, req'[c].id)
  BY <1>3 DEF Matches
<1> QED
  BY <1>2, <1>3, AimFound

\* A booking is released by its owner, by a caller whose number is unknown
\* or by the operator, and a move puts another one in its place.
THEOREM BookingsAreKept == Spec => BookingsKept
<1>1. Init => AimsAtOwn
  BY CallTypes DEF Init, AimsAtOwn
<1>2. TypeOK /\ AimsAtOwn /\ [Next]_vars => TypeOK' /\ AimsAtOwn'
  BY NextAims, NextTypeOK
<1>3. ASSUME TypeOK, AimsAtOwn, [Next]_vars, NEW r \in RowIds,
             Booked(r), row'[r].status # "booked"
      PROVE  \E c \in Clients : /\ pc'[c] # pc[c]
                                /\ pc[c] \in {"move", "update", "dupdate"}
                                /\ req[c].id = r
                                /\ c \in Calls => PhoneOf[c] \in {NoPhone, row[r].phone}
  <2>1. pc \in [Clients -> Steps]
    BY <1>3 DEF TypeOK
  <2>2. \/ \E c \in Calls, q \in RowIds : Move(c, q) /\ req[c].id = r
        \/ \E c \in Calls : Cancel(c) /\ req[c].id = r
        \/ \E c \in Desk : DeskCancel(c) /\ req[c].id = r
    BY <1>3, RowFate DEF Booked
  <2>3. ASSUME NEW c \in Calls, NEW q \in RowIds, Move(c, q)
        PROVE  pc'[c] # pc[c] /\ pc[c] = "move"
    BY <2>1, <2>3, CallTypes DEF Move, Reject, Reply, Goto
  <2>4. ASSUME NEW c \in Calls, Cancel(c)
        PROVE  pc'[c] # pc[c] /\ pc[c] = "update"
    BY <2>1, <2>4, CallTypes DEF Cancel, Settle, Reply, Goto
  <2>5. ASSUME NEW c \in Desk, DeskCancel(c)
        PROVE  pc'[c] # pc[c] /\ pc[c] = "dupdate" /\ c \in Clients /\ c \notin Calls
    BY <2>1, <2>5, ClientAssumption DEF DeskCancel, Reply, Goto, Clients
  <2>6. ASSUME NEW c \in Calls, pc[c] \in {"move", "update"}, req[c].id = r
        PROVE  PhoneOf[c] \in {NoPhone, row[r].phone}
    BY <1>3, <2>6 DEF AimsAtOwn
  <2> QED
    BY <2>2, <2>3, <2>4, <2>5, <2>6, CallTypes
<1>4. ASSUME TypeOK, AimsAtOwn, [Next]_vars, NEW r \in RowIds, NEW c \in Calls,
             Booked(r), row'[r].status # "booked", pc[c] = "move", pc'[c] # "move"
      PROVE  \E q \in RowIds : ~Booked(q) /\ row'[q] = Put(req[c].slot, row[r].phone)
  <2>1. pc \in [Clients -> Steps] /\ c \in Clients
    BY <1>4, CallTypes DEF TypeOK
  <2>2. \A d \in Clients : d # c => ~(pc' = [pc EXCEPT ![d] = pc'[d]])
    BY <1>4, <2>1
  <2>3. \A d \in Calls : Cancel(d) => pc' = [pc EXCEPT ![d] = pc'[d]] /\ pc[d] = "update"
    BY <2>1, CallTypes DEF Cancel, Settle, Reply, Goto
  <2>4. \A d \in Desk : DeskCancel(d) => pc' = [pc EXCEPT ![d] = pc'[d]] /\ pc[d] = "dupdate"
    BY <2>1 DEF DeskCancel, Reply, Goto, Clients
  <2>5. \A d \in Calls, q \in RowIds : Move(d, q) => pc' = [pc EXCEPT ![d] = pc'[d]]
    BY <2>1, CallTypes DEF Move, Reject, Reply, Goto
  <2>6. PICK q \in RowIds : Move(c, q) /\ req[c].id = r
    <3>1. \/ \E d \in Calls, q \in RowIds : Move(d, q) /\ req[d].id = r
          \/ \E d \in Calls : Cancel(d) /\ req[d].id = r
          \/ \E d \in Desk : DeskCancel(d) /\ req[d].id = r
      BY <1>4, RowFate DEF Booked
    <3> QED
      BY <1>4, <2>2, <2>3, <2>4, <2>5, <3>1, CallTypes DEF Clients
  <2>7. row \in [RowIds -> Row] /\ row[q].status = "none"
    BY <1>4, <2>6 DEF TypeOK, Move
  <2>8. row'[q] = Put(req[c].slot, row[r].phone)
    BY <2>6, <2>7 DEF Move, MoveRows
  <2> QED
    BY <2>7, <2>8 DEF Booked
<1>5. TypeOK /\ AimsAtOwn /\ [Next]_vars =>
        [\A r \in RowIds : Booked(r) /\ row'[r].status # "booked" =>
           \E c \in Clients : /\ pc'[c] # pc[c]
                              /\ pc[c] \in {"move", "update", "dupdate"}
                              /\ req[c].id = r
                              /\ c \in Calls => PhoneOf[c] \in {NoPhone, row[r].phone}]_vars
  BY <1>3
<1>6. TypeOK /\ AimsAtOwn /\ [Next]_vars =>
        [\A r \in RowIds, c \in Calls :
           /\ Booked(r) /\ row'[r].status # "booked"
           /\ pc[c] = "move" /\ pc'[c] # "move"
           => \E q \in RowIds : ~Booked(q) /\ row'[q] = Put(req[c].slot, row[r].phone)]_vars
  BY <1>4
<1> QED
  BY <1>1, <1>2, <1>5, <1>6, InitTypeOK, PTL
     DEF Spec, BookingsKept, OnlyTheOwnerReleases, MoveKeepsABooking

-----------------------------------------------------------------------------
(* What a step leaves of a client and of a row. *)

\* The step is one of this client's own.
Moves(c) == \/ c \in Calls /\ (Start(c) \/ CallStep(c))
            \/ c \in Desk /\ (DeskStart(c) \/ DeskStep(c))

\* A step that is not a client's own leaves its place, request and answer.
LEMMA OthersStay ==
  ASSUME TypeOK, [Next]_vars, NEW c \in Clients, ~Moves(c)
  PROVE  pc'[c] = pc[c] /\ req'[c] = req[c] /\ answer'[c] = answer[c]
<1> DEFINE Goal == pc'[c] = pc[c] /\ req'[c] = req[c] /\ answer'[c] = answer[c]
<1>0. /\ pc \in [Clients -> Steps] /\ req \in [Clients -> Request]
      /\ answer \in [Clients -> {"none", "yes", "no", "partial", "nothing"}]
  BY DEF TypeOK
<1>1. ASSUME UNCHANGED <<pc, req, answer>> PROVE Goal
  BY <1>1
<1>2. ASSUME NEW w \in Workers, Connect(w) \/ EnsureConstraints(w) PROVE Goal
  BY <1>1, <1>2 DEF Connect, EnsureConstraints
<1>3. ASSUME NEW w \in Workers, NEW d \in Days, ExpireCache(w, d) PROVE Goal
  BY <1>1, <1>3 DEF ExpireCache
<1>4. ASSUME NEW d \in Clients, d # c, Start(d) \/ DeskStart(d) PROVE Goal
  BY <1>0, <1>4
     DEF Start, DeskStart, StartBook, StartSlots, StartSnapshot, StartCancel,
         StartReschedule, StartCancelAll, StartDeskBook, StartDeskCancel, Begin
<1>5. ASSUME NEW d \in Clients, d # c, ReadStep(d) PROVE Goal
  BY <1>0, <1>5
     DEF ReadStep, ServeFromCache, SelectTimes, TimesArrive, SelectTimesFails,
         RefuseEarly, Proceed, Reject, Reply, Goto
<1>6. ASSUME NEW d \in Clients, d # c, BookStep(d) PROVE Goal
  BY <1>0, <1>6
     DEF BookStep, DuplicateGuard, Insert, InsertFails, InsertConflicts, BookReturns,
         NextAttempt, Reject, Reply, Goto
<1>7. ASSUME NEW d \in Clients, d # c, MoveStep(d) PROVE Goal
  BY <1>0, <1>7
     DEF MoveStep, FindForMove, Move, MoveFails, RescheduleReturns, Reject, Reply, Goto
<1>8. ASSUME NEW d \in Clients, d # c, CancelStep(d) PROVE Goal
  <2>1. ASSUME NEW i, NEW ok, Settle(d, i, ok) PROVE Goal
    BY <1>0, <1>8, <2>1 DEF Settle, Reply, Goto
  <2>2. CASE ListBookings(d)
    BY <1>0, <1>8, <2>2 DEF ListBookings, Reply, Goto
  <2>3. CASE Cancel(d) \/ CancelFails(d) \/ CancelReturns(d) \/ \E i \in RowIds : LookUp(d, i)
    BY <1>0, <1>8, <2>1, <2>3 DEF Cancel, CancelFails, CancelReturns, LookUp, Goto
  <2> QED
    BY <1>8, <2>2, <2>3 DEF CancelStep
<1>9. ASSUME NEW d \in Clients, d # c, DeskStep(d) PROVE Goal
  BY <1>0, <1>9
     DEF DeskStep, DeskClash, DeskCreate, DeskCreateFails, DeskFind, DeskCancel, Reply, Goto
<1>10. CASE UNCHANGED vars
  BY <1>1, <1>10 DEF vars
<1> QED
  BY <1>2, <1>3, <1>4, <1>5, <1>6, <1>7, <1>8, <1>9, <1>10
     DEF Next, CallStep, Clients, Moves

\* A key in use keeps its slot and its number, and once cancelled stays so.
LEMMA RowKept ==
  ASSUME TypeOK, [Next]_vars, NEW r \in RowIds, row[r].status # "none"
  PROVE  /\ row'[r].status \in {row[r].status, "cancelled"}
         /\ row'[r].slot = row[r].slot /\ row'[r].phone = row[r].phone
<1> DEFINE Goal == /\ row'[r].status \in {row[r].status, "cancelled"}
                   /\ row'[r].slot = row[r].slot /\ row'[r].phone = row[r].phone
<1>1. CASE UNCHANGED row
  BY <1>1
<1>2. ASSUME NEW c \in Clients, NEW q \in RowIds, NEW p, InsertRow(c, q, p) PROVE Goal
  BY <1>2 DEF InsertRow, TypeOK
<1>3. ASSUME NEW c \in Calls, NEW q \in RowIds, Move(c, q) PROVE Goal
  <2>1. q # r /\ req[c].id \in RowIds
    BY <1>3, RequestType, CallTypes DEF Move
  <2> QED
    BY <1>3, <2>1 DEF Move, MoveRows, TypeOK, Row
<1>4. ASSUME NEW i \in RowIds, CancelRow(i) PROVE Goal
  BY <1>4 DEF CancelRow, TypeOK, Row
<1>5. ASSUME NEW c \in Clients, CancelRow(req[c].id) PROVE Goal
  BY <1>4, <1>5, RequestType
<1> QED
  BY <1>1, <1>2, <1>3, <1>5, CallTypes, RowWriters DEF Insert, Cancel, DeskCreate, DeskCancel, Clients

\* Every step belongs to one kind of request, but for the offer of what is
\* left, which a refused booking or move makes as well.
KindsAt(step) ==
  CASE step \in {"fresh", "freshGot"} -> {"book", "reschedule", "snapshot"}
    [] step \in {"guard", "insert", "acked"} -> {"book"}
    [] step \in {"find", "move", "moved"} -> {"reschedule"}
    [] step \in {"list", "lookup", "update", "updated"} -> {"cancel", "cancelall"}
    [] step \in {"clash", "create"} -> {"deskbook"}
    [] step \in {"dfind", "dupdate"} -> {"deskcancel"}
    [] OTHER -> Kinds

\* A request under way is of a kind this run serves, and stands where its
\* kind may stand.
KindInv ==
  \A c \in Clients : pc[c] # "idle" => req[c].kind \in Services \cap KindsAt(pc[c])

\* Settling a row keeps the kind and goes on with the loop or ends.
LEMMA SettleKeepsKind ==
  ASSUME TypeOK, NEW c \in Clients, NEW i \in RowIds, NEW ok \in BOOLEAN, Settle(c, i, ok)
  PROVE  pc'[c] \in {"idle", "lookup"} /\ req'[c].kind = req[c].kind
         /\ req'[c].slot = req[c].slot /\ req'[c].id = i
<1>1. req[c] \in Request
  BY RequestType
<1> QED
  BY <1>1 DEF Settle, Reply, Goto, TypeOK, Request

\* A client's own step leaves its request where its kind may stand.
LEMMA KindsStep ==
  ASSUME TypeOK, KindInv, [Next]_vars
  PROVE  KindInv'
<1> SUFFICES ASSUME NEW c \in Clients, pc'[c] # "idle"
             PROVE  req'[c].kind \in Services \cap KindsAt(pc'[c])
  BY DEF KindInv
<1> DEFINE Goal == req'[c].kind \in Services \cap KindsAt(pc'[c])
<1>0. /\ pc \in [Clients -> Steps] /\ req \in [Clients -> Request] /\ req[c] \in Request
  BY DEF TypeOK
<1>1. pc[c] # "idle" => req[c].kind \in Services \cap KindsAt(pc[c])
  BY DEF KindInv
<1>2. CASE ~Moves(c)
  BY <1>1, <1>2, OthersStay
<1>3. CASE Start(c) \/ DeskStart(c)
  <2>1. ASSUME NEW k, NEW first, NEW s, NEW i, NEW ids,
               Begin(c, k, first, NewRequest(k, s, i, ids)), k \in KindsAt(first)
        PROVE  Goal
    BY <1>0, <2>1 DEF Begin, NewRequest
  <2>2. ASSUME NEW s \in Slots, StartBook(c, s) \/ StartSnapshot(c, s) PROVE Goal
    BY <2>1, <2>2 DEF StartBook, StartSnapshot, KindsAt
  <2>3. ASSUME NEW s \in Slots, StartSlots(c, s) PROVE Goal
    BY <2>1, <2>3 DEF StartSlots, KindsAt, Kinds
  <2>4. ASSUME NEW i \in RowIds, NEW s \in Slots, StartReschedule(c, i, s) PROVE Goal
    BY <2>1, <2>4 DEF StartReschedule, KindsAt
  <2>5. ASSUME NEW i \in RowIds, StartCancel(c, i) PROVE Goal
    BY <2>1, <2>5 DEF StartCancel, KindsAt
  <2>6. CASE StartCancelAll(c)
    BY <2>1, <2>6 DEF StartCancelAll, KindsAt
  <2>7. ASSUME NEW s \in Slots, StartDeskBook(c, s) PROVE Goal
    BY <2>1, <2>7 DEF StartDeskBook, KindsAt
  <2>8. ASSUME NEW i \in RowIds, StartDeskCancel(c, i) PROVE Goal
    BY <2>1, <2>8 DEF StartDeskCancel, KindsAt
  <2> QED
    BY <1>3, <2>2, <2>3, <2>4, <2>5, <2>6, <2>7, <2>8 DEF Start, DeskStart
<1>4. ASSUME pc[c] # "idle", UNCHANGED req, pc'[c] \in {pc[c], "offer"} PROVE Goal
  BY <1>0, <1>1, <1>4 DEF KindsAt, Request
<1>5. CASE ReadStep(c)
  <2>1. UNCHANGED req /\ pc[c] \in {"fresh", "freshGot", "offer", "offerGot"}
    BY <1>5 DEF ReadStep, ServeFromCache, SelectTimes, TimesArrive, SelectTimesFails, RefuseEarly
  <2>2. ASSUME NEW taken, Proceed(c, taken) PROVE Goal
    BY <1>0, <1>1, <2>1, <2>2 DEF Proceed, Reject, Reply, Goto, KindsAt, Request
  <2>3. CASE SelectTimes(c)
    BY <1>0, <1>1, <2>1, <2>3 DEF SelectTimes, Goto, KindsAt, Request
  <2>4. CASE RefuseEarly(c)
    BY <1>0, <1>4, <2>1, <2>4 DEF RefuseEarly, Reject, Reply, Goto
  <2> QED
    BY <1>5, <2>2, <2>3, <2>4 DEF ReadStep, ServeFromCache, TimesArrive, SelectTimesFails
<1>6. CASE BookStep(c)
  <2>1. pc[c] \in {"guard", "insert", "acked"}
    BY <1>6 DEF BookStep, DuplicateGuard, Insert, InsertFails, InsertConflicts, BookReturns
  <2>2. req[c].kind = "book" /\ "book" \in Services
    BY <1>1, <2>1 DEF KindsAt
  <2>3. req'[c].kind = "book"
    BY <1>0, <1>6, <2>2
       DEF BookStep, DuplicateGuard, Insert, InsertFails, InsertConflicts, BookReturns,
           NextAttempt, Request
  <2>4. pc'[c] \in {"insert", "acked", "offer", "idle"}
    BY <1>0, <1>6
       DEF BookStep, DuplicateGuard, Insert, InsertFails, InsertConflicts, BookReturns,
           NextAttempt, Reject, Reply, Goto
  <2> QED
    BY <2>2, <2>3, <2>4 DEF KindsAt, Kinds
<1>7. CASE MoveStep(c)
  <2>1. pc[c] \in {"find", "move", "moved"} /\ UNCHANGED req
    BY <1>7 DEF MoveStep, FindForMove, Move, MoveFails, RescheduleReturns
  <2>2. pc'[c] \in {"move", "moved", "offer", "idle"}
    BY <1>0, <1>7
       DEF MoveStep, FindForMove, Move, MoveFails, RescheduleReturns, Reject, Reply, Goto
  <2> QED
    BY <1>1, <2>1, <2>2 DEF KindsAt, Kinds
<1>8. CASE CancelStep(c)
  <2>1. pc[c] \in {"list", "lookup", "update", "updated"}
    BY <1>8 DEF CancelStep, ListBookings, LookUp, Cancel, CancelFails, CancelReturns
  <2>2. req[c].kind \in Services \cap {"cancel", "cancelall"}
    BY <1>1, <2>1 DEF KindsAt
  <2>3. ASSUME pc'[c] \in {"lookup", "update", "updated"}, req'[c].kind = req[c].kind PROVE Goal
    BY <2>2, <2>3 DEF KindsAt
  <2>4. ASSUME NEW i \in RowIds, NEW ok \in BOOLEAN, Settle(c, i, ok) PROVE Goal
    BY <2>3, <2>4, SettleKeepsKind
  <2>5. CASE ListBookings(c)
    <3>1. pc'[c] \in {"idle", "lookup"}
      BY <1>0, <2>5 DEF ListBookings, Reply, Goto
    <3>2. req'[c].kind = req[c].kind
      BY <1>0, <2>5 DEF ListBookings, Request
    <3> QED
      BY <2>3, <3>1, <3>2
  <2>6. ASSUME NEW i \in RowIds, LookUp(c, i) PROVE Goal
    BY <1>0, <2>3, <2>4, <2>6 DEF LookUp, Goto, Request
  <2>7. CASE Cancel(c)
    BY <1>0, <2>3, <2>4, <2>7, RequestType DEF Cancel, Goto
  <2>8. CASE CancelFails(c) \/ CancelReturns(c)
    BY <2>4, <2>8, RequestType DEF CancelFails, CancelReturns
  <2> QED
    BY <1>8, <2>5, <2>6, <2>7, <2>8 DEF CancelStep
<1>9. CASE DeskStep(c)
  <2>1. /\ pc[c] \in {"clash", "create", "dfind", "dupdate"}
        /\ pc'[c] \in {"idle", "create", "dupdate"}
        /\ pc'[c] = "create" => pc[c] = "clash"
        /\ pc'[c] = "dupdate" => pc[c] = "dfind"
    BY <1>0, <1>9
       DEF DeskStep, DeskClash, DeskCreate, DeskCreateFails, DeskFind, DeskCancel, Reply, Goto
  <2>2. req'[c].kind = req[c].kind
    BY <1>0, <1>9
       DEF DeskStep, DeskClash, DeskCreate, DeskCreateFails, DeskFind, DeskCancel, Request
  <2> QED
    BY <1>1, <2>1, <2>2 DEF KindsAt
<1> QED
  BY <1>2, <1>3, <1>5, <1>6, <1>7, <1>8, <1>9 DEF Moves, CallStep

-----------------------------------------------------------------------------
(* Replies: "yes" means that it was done, "nothing" that there is nothing. *)

\* What a finished request has left in the table.
Landed(r, p) ==
  IF r.kind = "book"
  THEN /\ row[r.id].status # "none"
       /\ row[r.id].slot = r.slot /\ row[r.id].phone = p
  ELSE row[r.id].status = "cancelled"

\* The inductive strengthening of HonestSuccess: a write that was
\* acknowledged can be seen in the table from then on.
SuccessInv ==
  \A c \in Calls :
    /\ answer[c] = "yes" => pc[c] = "idle"
    /\ answer[c] = "yes" \/ pc[c] \in {"acked", "moved", "updated"} =>
         Landed(req[c], PhoneOf[c])

\* What has landed stays, whatever the other clients do to the row.
LEMMA LandedStays ==
  ASSUME TypeOK, [Next]_vars, NEW c \in Calls, Landed(req[c], PhoneOf[c])
  PROVE  \A r \in Request : r.kind = req[c].kind /\ r.id = req[c].id /\ r.slot = req[c].slot =>
           Landed(r, PhoneOf[c])'
<1>1. req[c].id \in RowIds
  BY RequestType, CallTypes
<1>2. /\ row'[req[c].id].status \in {row[req[c].id].status, "cancelled"}
      /\ row'[req[c].id].slot = row[req[c].id].slot
      /\ row'[req[c].id].phone = row[req[c].id].phone
  BY <1>1, RowKept DEF Landed
<1> QED
  BY <1>2 DEF Landed

\* A client's own step says "yes" only over a write that has landed.
LEMMA SuccessOwn ==
  ASSUME TypeOK, TypeOK', KindInv, AimsAtOwn, SuccessInv, [Next]_vars,
         NEW c \in Calls, PhoneOf[c] # NoPhone, Start(c) \/ CallStep(c)
  PROVE  /\ answer'[c] = "yes" => pc'[c] = "idle"
         /\ answer'[c] = "yes" \/ pc'[c] \in {"acked", "moved", "updated"} =>
              Landed(req[c], PhoneOf[c])'
<1> DEFINE Goal == /\ answer'[c] = "yes" => pc'[c] = "idle"
                   /\ answer'[c] = "yes" \/ pc'[c] \in {"acked", "moved", "updated"} =>
                        Landed(req[c], PhoneOf[c])'
<1>0. /\ pc \in [Clients -> Steps] /\ req \in [Clients -> Request] /\ req[c] \in Request
      /\ answer \in [Clients -> {"none", "yes", "no", "partial", "nothing"}]
      /\ row \in [RowIds -> Row] /\ c \in Clients /\ req[c].id \in RowIds
      /\ req'[c] \in Request
  BY RequestType, CallTypes DEF TypeOK
<1>1. ASSUME answer'[c] # "yes", pc'[c] \notin {"acked", "moved", "updated"} PROVE Goal
  BY <1>1
<1>2. pc[c] # "idle" => answer[c] # "yes"
  BY DEF SuccessInv
<1>3. CASE Start(c)
  BY <1>0, <1>1, <1>3
     DEF Start, StartBook, StartSlots, StartSnapshot, StartCancel, StartReschedule,
         StartCancelAll, Begin
<1>4. CASE ReadStep(c)
  <2>1. pc[c] \in {"fresh", "freshGot", "offer", "offerGot"}
    BY <1>4 DEF ReadStep, ServeFromCache, SelectTimes, TimesArrive, SelectTimesFails, RefuseEarly
  <2>2. answer'[c] \in {answer[c], "no"} /\ pc'[c] \notin {"acked", "moved", "updated"}
    BY <1>0, <1>4
       DEF ReadStep, ServeFromCache, SelectTimes, TimesArrive, SelectTimesFails,
           RefuseEarly, Proceed, Reject, Reply, Goto
  <2> QED
    BY <1>1, <1>2, <2>1, <2>2
<1>5. CASE BookStep(c)
  <2>1. pc[c] \in {"guard", "insert", "acked"} /\ req[c].kind = "book"
    BY <1>0, <1>5
       DEF BookStep, DuplicateGuard, Insert, InsertFails, InsertConflicts, BookReturns,
           KindInv, KindsAt
  <2>2. ASSUME NEW r \in RowIds, Insert(c, r), pc'[c] = "acked" PROVE Goal
    <3>1. row' = [row EXCEPT ![r] = Put(req[c].slot, PhoneOf[c])]
      BY <2>2 DEF Insert, InsertRow
    <3>2. answer' = answer /\ req' = [req EXCEPT ![c].id = r]
      BY <1>0, <2>2, <2>1 DEF Insert, NextAttempt, Reject, Reply, Goto
    <3>3. req'[c].id = r /\ req'[c].kind = "book" /\ req'[c].slot = req[c].slot
      BY <1>0, <2>1, <3>2 DEF Request
    <3>4. row'[r] = Put(req[c].slot, PhoneOf[c])
      BY <1>0, <3>1
    <3> QED
      BY <1>2, <2>1, <3>2, <3>3, <3>4 DEF Landed, Put
  <2>3. ASSUME NEW r \in RowIds, Insert(c, r), pc'[c] # "acked" PROVE Goal
    <3>1. answer'[c] \in {answer[c], "no"} /\ pc'[c] \in {"insert", "offer"}
      BY <1>0, <2>3 DEF Insert, NextAttempt, Reject, Reply, Goto
    <3> QED
      BY <1>1, <1>2, <2>1, <3>1
  <2>4. CASE DuplicateGuard(c) \/ InsertFails(c) \/ InsertConflicts(c)
    <3>1. answer'[c] \in {answer[c], "no"} /\ pc'[c] \in {"insert", "offer"}
      BY <1>0, <2>4
         DEF DuplicateGuard, InsertFails, InsertConflicts, NextAttempt, Reject, Reply, Goto
    <3> QED
      BY <1>1, <1>2, <2>1, <3>1
  <2>5. CASE BookReturns(c)
    <3>1. Landed(req[c], PhoneOf[c]) /\ UNCHANGED req
      BY <2>5 DEF BookReturns, SuccessInv
    <3>2. pc'[c] = "idle"
      BY <1>0, <2>5 DEF BookReturns, Reply, Goto
    <3> QED
      BY <1>0, <3>1, <3>2, LandedStays
  <2> QED
    BY <1>5, <2>2, <2>3, <2>4, <2>5 DEF BookStep
<1>6. CASE MoveStep(c)
  <2>1. pc[c] \in {"find", "move", "moved"} /\ req[c].kind = "reschedule" /\ UNCHANGED req
    BY <1>0, <1>6
       DEF MoveStep, FindForMove, Move, MoveFails, RescheduleReturns, KindInv, KindsAt
  <2>2. ASSUME NEW r \in RowIds, Move(c, r) PROVE Goal
    <3>1. row[req[c].id].status # "none" /\ row[r].status = "none"
      BY <2>2 DEF Move, AimsAtOwn
    <3>2. row'[req[c].id].status = "cancelled"
      BY <1>0, <2>2, <3>1 DEF Move, MoveRows, Row
    <3>3. answer'[c] \in {answer[c], "no"}
      BY <1>0, <2>2 DEF Move, Reject, Reply
    <3> QED
      BY <1>2, <2>1, <3>2, <3>3 DEF Landed
  <2>3. CASE FindForMove(c) \/ MoveFails(c)
    <3>1. answer'[c] \in {answer[c], "no"} /\ pc'[c] \in {"move", "offer"}
      BY <1>0, <2>3 DEF FindForMove, MoveFails, Reject, Reply, Goto
    <3> QED
      BY <1>1, <1>2, <2>1, <3>1
  <2>4. CASE RescheduleReturns(c)
    <3>1. Landed(req[c], PhoneOf[c])
      BY <2>4 DEF RescheduleReturns, SuccessInv
    <3>2. pc'[c] = "idle"
      BY <1>0, <2>4 DEF RescheduleReturns, Reply, Goto
    <3> QED
      BY <1>0, <2>1, <3>1, <3>2, LandedStays
  <2> QED
    BY <1>6, <2>2, <2>3, <2>4 DEF MoveStep
<1>7. CASE CancelStep(c)
  <2>1. /\ pc[c] \in {"list", "lookup", "update", "updated"}
        /\ req[c].kind \in {"cancel", "cancelall"}
    BY <1>0, <1>7
       DEF CancelStep, ListBookings, LookUp, Cancel, CancelFails, CancelReturns, KindInv, KindsAt
  <2>2. ASSUME NEW i \in RowIds, Settle(c, i, FALSE) PROVE Goal
    <3>1. req[c].okAny \in BOOLEAN /\ req[c].failAny \in BOOLEAN
      BY <1>0 DEF Request
    <3>2. answer'[c] \in {answer[c], "no", "partial"} /\ pc'[c] \in {"idle", "lookup"}
      BY <1>0, <2>2, <3>1 DEF Settle, Verdict, Reply, Goto
    <3> QED
      BY <1>1, <1>2, <2>1, <3>2
  <2>3. CASE ListBookings(c)
    <3>1. answer'[c] \in {answer[c], "nothing"} /\ pc'[c] \in {"idle", "lookup"}
      BY <1>0, <2>3 DEF ListBookings, Reply, Goto
    <3> QED
      BY <1>1, <1>2, <2>1, <3>1
  <2>4. ASSUME NEW i \in RowIds, LookUp(c, i) PROVE Goal
    <3>1. CASE Settle(c, i, FALSE)
      BY <2>2, <3>1
    <3>2. CASE ~Settle(c, i, FALSE)
      BY <1>0, <1>1, <1>2, <2>1, <2>4, <3>2 DEF LookUp, Goto
    <3> QED
      BY <3>1, <3>2
  <2>5. CASE Cancel(c)
    <3>1. CASE Settle(c, req[c].id, FALSE)
      BY <1>0, <2>2, <3>1
    <3>2. CASE ~Settle(c, req[c].id, FALSE)
      <4>1. pc[c] = "update" /\ CancelRow(req[c].id) /\ UNCHANGED <<req, answer>>
        BY <2>5, <3>2 DEF Cancel
      <4>2. row[req[c].id].status # "none"
        BY <4>1 DEF AimsAtOwn
      <4>3. row'[req[c].id].status = "cancelled"
        BY <1>0, <4>1, <4>2 DEF CancelRow, Row
      <4> QED
        BY <1>2, <2>1, <4>1, <4>3 DEF Landed
    <3> QED
      BY <3>1, <3>2
  <2>6. CASE CancelFails(c)
    BY <1>0, <2>2, <2>6 DEF CancelFails
  <2>7. CASE CancelReturns(c)
    <3>1. Landed(req[c], PhoneOf[c]) /\ Settle(c, req[c].id, TRUE)
      BY <2>7 DEF CancelReturns, SuccessInv
    <3>2. /\ req'[c].kind = req[c].kind /\ req'[c].slot = req[c].slot
          /\ req'[c].id = req[c].id /\ pc'[c] \in {"idle", "lookup"}
      BY <1>0, <3>1, SettleKeepsKind
    <3>3. Landed(req[c], PhoneOf[c])'
      BY <1>0, <3>1, <3>2, LandedStays
    <3>4. answer'[c] = "yes" => pc'[c] = "idle"
      BY <1>0, <1>2, <2>1, <3>1 DEF Settle, Reply, Goto
    <3> QED
      BY <3>3, <3>4
  <2> QED
    BY <1>7, <2>3, <2>4, <2>5, <2>6, <2>7 DEF CancelStep
<1> QED
  BY <1>3, <1>4, <1>5, <1>6, <1>7 DEF CallStep

\* A "yes" is only said of a write that landed, and what landed stays.
LEMMA SuccessStep ==
  ASSUME \A c \in Calls : PhoneOf[c] # NoPhone,
         TypeOK, TypeOK', KindInv, AimsAtOwn, SuccessInv, [Next]_vars
  PROVE  SuccessInv'
<1> SUFFICES ASSUME NEW c \in Calls
             PROVE  /\ answer'[c] = "yes" => pc'[c] = "idle"
                    /\ answer'[c] = "yes" \/ pc'[c] \in {"acked", "moved", "updated"} =>
                         Landed(req[c], PhoneOf[c])'
  BY DEF SuccessInv
<1>1. CASE Start(c) \/ CallStep(c)
  BY <1>1, SuccessOwn
<1>2. CASE ~(Start(c) \/ CallStep(c))
  <2>1. ~Moves(c)
    BY <1>2, ClientAssumption DEF Moves
  <2>2. pc'[c] = pc[c] /\ req'[c] = req[c] /\ answer'[c] = answer[c] /\ req[c] \in Request
    BY <2>1, OthersStay, CallTypes, RequestType
  <2> QED
    BY <2>2, LandedStays DEF SuccessInv
<1> QED
  BY <1>1, <1>2

\* The invariant that carries the replies.
RepliesInv == TypeOK /\ KindInv /\ AimsAtOwn

\* The invariants of the replies hold together from the start.
LEMMA RepliesStep ==
  /\ Init => RepliesInv
  /\ RepliesInv /\ [Next]_vars => RepliesInv'
<1>1. Init => KindInv /\ AimsAtOwn
  BY CallTypes DEF Init, KindInv, AimsAtOwn
<1> QED
  BY <1>1, InitTypeOK, NextTypeOK, KindsStep, NextAims DEF RepliesInv

\* A caller with a number who is told "yes" finds it in the table: the row
\* booked for this number and slot, or the named row cancelled.
THEOREM SuccessesAreHonest ==
  ASSUME \A c \in Calls : PhoneOf[c] # NoPhone
  PROVE  Spec => []HonestSuccess
<1>1. Init => SuccessInv
  BY CallTypes DEF Init, SuccessInv
<1>2. RepliesInv /\ SuccessInv /\ [Next]_vars => SuccessInv'
  BY SuccessStep, NextTypeOK DEF RepliesInv
<1>3. SuccessInv => HonestSuccess
  BY DEF SuccessInv, HonestSuccess, Landed
<1> QED
  BY <1>1, <1>2, <1>3, RepliesStep, PTL DEF Spec

\* As long as its SELECT does not fail, "nothing on file" is only said to a
\* caller with nothing booked.
THEOREM NothingIsHonest ==
  ASSUME "read" \notin Faults
  PROVE  Spec => HonestNothing
<1>1. ASSUME TypeOK, [Next]_vars, NEW c \in Calls,
             answer[c] # "nothing", answer'[c] = "nothing"
      PROVE  BookedIn(row, PhoneOf[c]) = {}
  <2>0. /\ req[c] \in Request /\ c \in Clients
        /\ answer \in [Clients -> {"none", "yes", "no", "partial", "nothing"}]
    BY <1>1, RequestType, CallTypes DEF TypeOK
  <2>1. Start(c) \/ CallStep(c)
    BY <1>1, <2>0, OthersStay, ClientAssumption DEF Moves
  <2>2. ~Start(c)
    BY <1>1, <2>0
       DEF Start, StartBook, StartSlots, StartSnapshot, StartCancel, StartReschedule,
           StartCancelAll, Begin
  <2>3. ~ReadStep(c)
    BY <1>1, <2>0
       DEF ReadStep, ServeFromCache, SelectTimes, TimesArrive, SelectTimesFails,
           RefuseEarly, Proceed, Reject, Reply
  <2>4. ~BookStep(c)
    BY <1>1, <2>0
       DEF BookStep, DuplicateGuard, Insert, InsertFails, InsertConflicts, BookReturns,
           NextAttempt, Reject, Reply
  <2>5. ~MoveStep(c)
    BY <1>1, <2>0
       DEF MoveStep, FindForMove, Move, MoveFails, RescheduleReturns, Reject, Reply
  <2>6. ASSUME NEW i, NEW ok, Settle(c, i, ok) PROVE FALSE
    BY <1>1, <2>0, <2>6 DEF Settle, Verdict, Reply
  <2>7. ListBookings(c)
    BY <1>1, <2>1, <2>2, <2>3, <2>4, <2>5, <2>6
       DEF CallStep, CancelStep, LookUp, Cancel, CancelFails, CancelReturns
  <2> QED
    BY <1>1, <2>7 DEF ListBookings, BookedIn, Booked
<1>2. TypeOK /\ [Next]_vars =>
        [\A c \in Calls : answer[c] # "nothing" /\ answer'[c] = "nothing" =>
           BookedIn(row, PhoneOf[c]) = {}]_vars
  BY <1>1
<1> QED
  BY <1>2, TypeCorrect, PTL DEF Spec, HonestNothing

-----------------------------------------------------------------------------
(* A caller's own booking and the process's cache. *)

\* Who writes the cache: a client its own process's, and time any entry.
LEMMA CacheWriters ==
  ASSUME TypeOK, [Next]_vars, NEW c \in Calls, ~CallStep(c),
         \A d \in Calls : WorkerOf[d] = WorkerOf[c] => d = c, NEW d \in Days
  PROVE  cache'[WorkerOf[c]][d] \in {cache[WorkerOf[c]][d], Miss}
<1> DEFINE Goal == cache'[WorkerOf[c]][d] \in {cache[WorkerOf[c]][d], Miss}
<1>0. /\ cache \in [Workers -> [Days -> (SUBSET Slots) \cup {Miss}]]
      /\ WorkerOf[c] \in Workers
  BY CallTypes DEF TypeOK
<1>1. ASSUME UNCHANGED cache PROVE Goal
  BY <1>1
<1>2. ASSUME NEW w \in Workers, Connect(w) \/ EnsureConstraints(w) PROVE Goal
  BY <1>1, <1>2 DEF Connect, EnsureConstraints
<1>3. ASSUME NEW w \in Workers, NEW e \in Days, ExpireCache(w, e) PROVE Goal
  BY <1>0, <1>3 DEF ExpireCache
<1>4. ASSUME NEW e \in Clients, Start(e) \/ DeskStart(e) PROVE Goal
  BY <1>1, <1>4
     DEF Start, DeskStart, StartBook, StartSlots, StartSnapshot, StartCancel,
         StartReschedule, StartCancelAll, StartDeskBook, StartDeskCancel, Begin
<1>5. ASSUME NEW e \in Calls, CallStep(e) PROVE Goal
  <2>1. WorkerOf[e] # WorkerOf[c] /\ WorkerOf[e] \in Workers
    BY <1>5, CallTypes
  <2>2. cache'[WorkerOf[c]] = cache[WorkerOf[c]]
    BY <1>0, <1>5, <2>1
       DEF CallStep, ReadStep, ServeFromCache, SelectTimes, TimesArrive,
           SelectTimesFails, RefuseEarly, BookStep, DuplicateGuard, Insert,
           InsertFails, InsertConflicts, BookReturns, MoveStep, FindForMove, Move,
           MoveFails, RescheduleReturns, CancelStep, ListBookings, LookUp, Cancel,
           CancelFails, CancelReturns, ForgetDay, ForgetAll
  <2> QED
    BY <2>2
<1>6. ASSUME NEW e \in Desk, DeskStep(e) PROVE Goal
  BY <1>1, <1>6 DEF DeskStep, DeskClash, DeskCreate, DeskCreateFails, DeskFind, DeskCancel
<1>7. CASE UNCHANGED vars
  BY <1>1, <1>7 DEF vars
<1> QED
  BY <1>2, <1>3, <1>4, <1>5, <1>6, <1>7 DEF Next, Clients

\* A "yes" is said in the step that ends a request.
LEMMA YesStep ==
  ASSUME TypeOK, KindInv, [Next]_vars, NEW c \in Calls, CallStep(c), answer'[c] = "yes",
         answer[c] = "yes" => pc[c] = "idle"
  PROVE  /\ pc'[c] = "idle"
         /\ req'[c].kind = "book" => BookReturns(c)
<1> DEFINE Goal == /\ pc'[c] = "idle"
                   /\ req'[c].kind = "book" => BookReturns(c)
<1>0. /\ pc \in [Clients -> Steps] /\ req \in [Clients -> Request] /\ req[c] \in Request
      /\ answer \in [Clients -> {"none", "yes", "no", "partial", "nothing"}]
      /\ c \in Clients /\ req[c].id \in RowIds
  BY RequestType, CallTypes DEF TypeOK
<1>1. pc[c] # "idle"
  BY DEF CallStep, ReadStep, ServeFromCache, SelectTimes, TimesArrive,
         SelectTimesFails, RefuseEarly, BookStep, DuplicateGuard, Insert,
         InsertFails, InsertConflicts, BookReturns, MoveStep, FindForMove, Move,
         MoveFails, RescheduleReturns, CancelStep, ListBookings, LookUp, Cancel,
         CancelFails, CancelReturns
<1>2. answer'[c] # answer[c]
  BY <1>1
<1>3. ~ReadStep(c)
  BY <1>0, <1>2
     DEF ReadStep, ServeFromCache, SelectTimes, TimesArrive, SelectTimesFails,
         RefuseEarly, Proceed, Reject, Reply
<1>4. CASE BookStep(c)
  <2>1. BookReturns(c)
    BY <1>0, <1>2, <1>4
       DEF BookStep, DuplicateGuard, Insert, InsertFails, InsertConflicts,
           NextAttempt, Reject, Reply
  <2> QED
    BY <1>0, <2>1 DEF BookReturns, Reply, Goto
<1>5. CASE MoveStep(c)
  <2>1. RescheduleReturns(c)
    BY <1>0, <1>2, <1>5 DEF MoveStep, FindForMove, Move, MoveFails, Reject, Reply
  <2>2. req[c].kind = "reschedule"
    BY <1>0, <1>1, <2>1 DEF RescheduleReturns, KindInv, KindsAt
  <2> QED
    BY <1>0, <2>1, <2>2 DEF RescheduleReturns, Reply, Goto
<1>6. CASE CancelStep(c)
  <2>1. ASSUME NEW i \in RowIds, NEW ok \in BOOLEAN, Settle(c, i, ok) PROVE Goal
    <3>1. pc'[c] = "idle"
      BY <1>0, <1>2, <2>1 DEF Settle, Reply, Goto
    <3>2. req[c].kind \in {"cancel", "cancelall"}
      BY <1>0, <1>1, <1>6
         DEF CancelStep, ListBookings, LookUp, Cancel, CancelFails, CancelReturns, KindInv, KindsAt
    <3> QED
      BY <1>0, <2>1, <3>1, <3>2, SettleKeepsKind
  <2>2. ~ListBookings(c)
    BY <1>0, <1>2 DEF ListBookings, Reply
  <2> QED
    BY <1>0, <1>2, <1>6, <2>1, <2>2 DEF CancelStep, LookUp, Cancel, CancelFails, CancelReturns
<1> QED
  BY <1>3, <1>4, <1>5, <1>6 DEF CallStep


\* A booking is acknowledged by the step that inserted its row.
LEMMA AckedStep ==
  ASSUME TypeOK, [Next]_vars, NEW c \in Calls, Start(c) \/ CallStep(c), pc'[c] = "acked"
  PROVE  row'[req'[c].id].status # "none"
<1>0. /\ pc \in [Clients -> Steps] /\ req \in [Clients -> Request] /\ req[c] \in Request
      /\ c \in Clients /\ row \in [RowIds -> Row]
  BY RequestType, CallTypes DEF TypeOK
<1>1. ~Start(c)
  BY <1>0
     DEF Start, StartBook, StartSlots, StartSnapshot, StartCancel, StartReschedule,
         StartCancelAll, Begin
<1>2. ~ReadStep(c)
  BY <1>0
     DEF ReadStep, ServeFromCache, SelectTimes, TimesArrive, SelectTimesFails,
         RefuseEarly, Proceed, Reject, Reply, Goto
<1>3. ~MoveStep(c)
  BY <1>0
     DEF MoveStep, FindForMove, Move, MoveFails, RescheduleReturns, Reject, Reply, Goto
<1>4. ~CancelStep(c)
  <2>1. ASSUME NEW i, NEW ok, Settle(c, i, ok) PROVE FALSE
    BY <1>0, <2>1 DEF Settle, Reply, Goto
  <2> QED
    BY <1>0, <2>1
       DEF CancelStep, ListBookings, LookUp, Cancel, CancelFails, CancelReturns, Reply, Goto
<1>5. PICK r \in RowIds : Insert(c, r)
  BY <1>0, <1>1, <1>2, <1>3, <1>4
     DEF CallStep, BookStep, DuplicateGuard, InsertFails, InsertConflicts, BookReturns,
         NextAttempt, Reject, Reply, Goto
<1>6. row'[r].status = "booked"
  BY <1>0, <1>5 DEF Insert, InsertRow, Put
<1>7. req'[c].id = r
  BY <1>0, <1>5 DEF Insert, NextAttempt, Reject, Reply, Goto, Request
<1> QED
  BY <1>6, <1>7

\* The inductive strengthening of OwnBookingNotReoffered.
OwnInv ==
  \A c \in Calls :
    /\ pc[c] = "acked" => row[req[c].id].status # "none"
    /\ answer[c] = "yes" => pc[c] = "idle"
    /\ answer[c] = "yes" /\ req[c].kind = "book" =>
         row[req[c].id].status # "none"
    /\ answer[c] = "yes" /\ req[c].kind = "book" /\ Booked(req[c].id) =>
         LET known == cache[WorkerOf[c]][DayOf[req[c].slot]]
         IN  known = Miss \/ req[c].slot \in known

\* Every step keeps it, one call at a time being served by a process.
LEMMA OwnStep ==
  ASSUME \A c, d \in Calls : WorkerOf[c] = WorkerOf[d] => c = d,
         TypeOK, KindInv, OwnInv, [Next]_vars
  PROVE  OwnInv'
<1> SUFFICES ASSUME NEW c \in Calls
             PROVE  /\ pc'[c] = "acked" => row'[req'[c].id].status # "none"
                    /\ answer'[c] = "yes" => pc'[c] = "idle"
                    /\ answer'[c] = "yes" /\ req'[c].kind = "book" =>
                         row'[req'[c].id].status # "none"
                    /\ answer'[c] = "yes" /\ req'[c].kind = "book" /\ Booked(req[c].id)' =>
                         LET known == cache'[WorkerOf[c]][DayOf[req'[c].slot]]
                         IN  known = Miss \/ req'[c].slot \in known
  BY DEF OwnInv
<1>0. /\ c \in Clients /\ WorkerOf[c] \in Workers
      /\ req[c].id \in RowIds /\ DayOf[req[c].slot] \in Days
      /\ cache \in [Workers -> [Days -> (SUBSET Slots) \cup {Miss}]]
  BY RequestType, CallTypes DEF TypeOK
<1>1. row[req[c].id].status # "none" =>
        /\ row'[req[c].id].status # "none"
        /\ row'[req[c].id].status = "booked" => row[req[c].id].status = "booked"
  BY <1>0, RowKept
<1>2. CASE Start(c)
  <2>1. answer' = [answer EXCEPT ![c] = "none"]
    BY <1>2 DEF Start, StartBook, StartSlots, StartSnapshot, StartCancel, StartReschedule,
                StartCancelAll, Begin
  <2>2. answer'[c] = "none"
    BY <1>0, <2>1 DEF TypeOK
  <2> QED
    BY <1>2, <2>2, AckedStep
<1>3. CASE CallStep(c)
  <2>1. ASSUME answer'[c] = "yes"
        PROVE  pc'[c] = "idle" /\ (req'[c].kind = "book" => BookReturns(c))
    BY <1>3, <2>1, YesStep DEF OwnInv
  <2>2. ASSUME BookReturns(c)
        PROVE  /\ cache'[WorkerOf[c]][DayOf[req'[c].slot]] = Miss
               /\ row'[req'[c].id].status # "none"
    BY <1>0, <1>1, <2>2 DEF BookReturns, ForgetDay, OwnInv
  <2> QED
    BY <1>3, <2>1, <2>2, AckedStep
<1>4. CASE ~(Start(c) \/ CallStep(c))
  <2>1. pc'[c] = pc[c] /\ req'[c] = req[c] /\ answer'[c] = answer[c]
    BY <1>0, <1>4, OthersStay, ClientAssumption DEF Moves
  <2>2. cache'[WorkerOf[c]][DayOf[req[c].slot]]
          \in {cache[WorkerOf[c]][DayOf[req[c].slot]], Miss}
    BY <1>0, <1>4, CacheWriters
  <2> QED
    BY <1>1, <2>1, <2>2 DEF OwnInv, Booked
<1> QED
  BY <1>2, <1>3, <1>4

\* A process that serves one call, whose tools run one after the other, does
\* not offer the slot it has just booked for its caller, whatever the other
\* processes and the dashboard do and whatever fails.
THEOREM OwnBookingsAreNotReoffered ==
  ASSUME \A c, d \in Calls : WorkerOf[c] = WorkerOf[d] => c = d
  PROVE  Spec => []OwnBookingNotReoffered
<1>1. Init => OwnInv
  BY CallTypes DEF Init, OwnInv
<1>2. RepliesInv /\ OwnInv /\ [Next]_vars => OwnInv'
  BY OwnStep DEF RepliesInv
<1>3. OwnInv => OwnBookingNotReoffered
  BY DEF OwnInv, OwnBookingNotReoffered
<1> QED
  BY <1>1, <1>2, <1>3, RepliesStep, PTL DEF Spec

-----------------------------------------------------------------------------
(* One booking a day: the guard before the INSERT. *)

\* The kinds of request the guard is enough for: nothing but bookings puts
\* a row on a day.
Guarded == {"book", "cancel", "cancelall", "slots", "snapshot", "deskcancel"}

\* The inductive strengthening of OneBookingPerDay: past the guard, nobody
\* but the request itself books this number a row on this day.
DayInv ==
  /\ OneBookingPerDay
  /\ \A c \in Calls : pc[c] = "insert" /\ PhoneOf[c] # NoPhone =>
       \A r \in RowIds : Booked(r) /\ row[r].phone = PhoneOf[c] =>
         DayOf[row[r].slot] # DayOf[req[c].slot]

\* A row becomes booked only by an INSERT of appt_book.
LEMMA NewRows ==
  ASSUME Services \subseteq Guarded, TypeOK, KindInv, [Next]_vars
  PROVE  \/ \E c \in Calls, r \in RowIds : Insert(c, r)
         \/ \A r \in RowIds : Booked(r)' => Booked(r) /\ row'[r] = row[r]
<1>1. CASE UNCHANGED row
  BY <1>1 DEF Booked
<1>2. ASSUME NEW c \in Calls, NEW r \in RowIds, Move(c, r) PROVE FALSE
  BY <1>2, CallTypes DEF Move, KindInv, KindsAt, Guarded
<1>3. ASSUME NEW c \in Desk, NEW r \in RowIds, NEW p, DeskCreate(c, r, p) PROVE FALSE
  BY <1>3 DEF DeskCreate, KindInv, KindsAt, Guarded, Clients
<1>4. ASSUME NEW i \in RowIds, CancelRow(i)
      PROVE  \A r \in RowIds : Booked(r)' => Booked(r) /\ row'[r] = row[r]
  BY <1>4 DEF CancelRow, Booked, TypeOK, Row
<1>5. ASSUME NEW c \in Clients, CancelRow(req[c].id)
      PROVE  \A r \in RowIds : Booked(r)' => Booked(r) /\ row'[r] = row[r]
  BY <1>4, <1>5, RequestType
<1> QED
  BY <1>1, <1>2, <1>3, <1>5, CallTypes, RowWriters DEF Cancel, DeskCancel, Clients

\* A request comes to its INSERT from the guard, or without a number.
LEMMA PastTheGuard ==
  ASSUME "read" \notin Faults, TypeOK, [Next]_vars, NEW c \in Calls, pc'[c] = "insert",
         PhoneOf[c] # NoPhone
  PROVE  \/ pc[c] = "insert" /\ req'[c].slot = req[c].slot
         \/ /\ UNCHANGED <<row, req>>
            /\ \A r \in RowIds : Booked(r) /\ row[r].phone = PhoneOf[c]
                                 => DayOf[row[r].slot] # DayOf[req[c].slot]
<1>0. /\ pc \in [Clients -> Steps] /\ req \in [Clients -> Request] /\ req[c] \in Request
      /\ c \in Clients
  BY RequestType, CallTypes DEF TypeOK
<1>1. CASE ~Moves(c)
  BY <1>0, <1>1, OthersStay
<1>2. ~Start(c)
  BY <1>0
     DEF Start, StartBook, StartSlots, StartSnapshot, StartCancel, StartReschedule,
         StartCancelAll, Begin
<1>3. ~ReadStep(c)
  BY <1>0
     DEF ReadStep, ServeFromCache, SelectTimes, TimesArrive, SelectTimesFails,
         RefuseEarly, Proceed, Reject, Reply, Goto
<1>4. ~MoveStep(c)
  BY <1>0
     DEF MoveStep, FindForMove, Move, MoveFails, RescheduleReturns, Reject, Reply, Goto
<1>5. ~CancelStep(c)
  <2>1. ASSUME NEW i, NEW ok, Settle(c, i, ok) PROVE FALSE
    BY <1>0, <2>1 DEF Settle, Reply, Goto
  <2> QED
    BY <1>0, <2>1
       DEF CancelStep, ListBookings, LookUp, Cancel, CancelFails, CancelReturns, Reply, Goto
<1>6. CASE BookStep(c)
  <2>1. CASE DuplicateGuard(c)
    BY <1>0, <2>1 DEF DuplicateGuard, Reject, Reply, Goto
  <2>2. CASE ~DuplicateGuard(c)
    BY <1>0, <1>6, <2>2
       DEF BookStep, Insert, InsertFails, InsertConflicts, BookReturns, NextAttempt,
           Reject, Reply, Goto, Request
  <2> QED
    BY <2>1, <2>2
<1> QED
  BY <1>1, <1>2, <1>3, <1>4, <1>5, <1>6, ClientAssumption DEF Moves, CallStep

\* Every step keeps it, a number being on one call at a time.
LEMMA DayStep ==
  ASSUME Services \subseteq Guarded, "read" \notin Faults, "lostack" \notin Faults,
         \A c, d \in Calls : PhoneOf[c] = PhoneOf[d] /\ PhoneOf[c] # NoPhone => c = d,
         TypeOK, KindInv, DayInv, [Next]_vars
  PROVE  DayInv'
<1>1. CASE \A r \in RowIds : Booked(r)' => Booked(r) /\ row'[r] = row[r]
  <2>1. OneBookingPerDay'
    BY <1>1 DEF DayInv, OneBookingPerDay
  <2>2. ASSUME NEW c \in Calls, pc'[c] = "insert", PhoneOf[c] # NoPhone,
               NEW r \in RowIds, Booked(r)', row'[r].phone = PhoneOf[c]
        PROVE  DayOf[row'[r].slot] # DayOf[req'[c].slot]
    BY <1>1, <2>2, PastTheGuard DEF DayInv
  <2> QED
    BY <2>1, <2>2 DEF DayInv
<1>2. ASSUME NEW c \in Calls, NEW q \in RowIds, Insert(c, q) PROVE DayInv'
  <2>0. /\ c \in Clients /\ pc \in [Clients -> Steps] /\ row \in [RowIds -> Row]
        /\ req \in [Clients -> Request]
    BY CallTypes DEF TypeOK
  <2>1. /\ pc[c] = "insert" /\ pc' = [pc EXCEPT ![c] = "acked"]
        /\ row' = [row EXCEPT ![q] = Put(req[c].slot, PhoneOf[c])]
        /\ req' = [req EXCEPT ![c].id = q]
    BY <1>2 DEF Insert, InsertRow, Goto
  <2>2. row'[q].slot = req[c].slot /\ row'[q].phone = PhoneOf[c]
    BY <2>0, <2>1 DEF Put
  <2>3. \A r \in RowIds : r # q => row'[r] = row[r] /\ (Booked(r)' => Booked(r))
    BY <2>0, <2>1 DEF Booked
  <2>4. PhoneOf[c] # NoPhone =>
          \A r \in RowIds : Booked(r) /\ row[r].phone = PhoneOf[c] =>
            DayOf[row[r].slot] # DayOf[req[c].slot]
    BY <2>1 DEF DayInv
  <2>5. OneBookingPerDay'
    BY <2>2, <2>3, <2>4 DEF DayInv, OneBookingPerDay
  <2>6. ASSUME NEW d \in Calls, pc'[d] = "insert", PhoneOf[d] # NoPhone,
               NEW r \in RowIds, Booked(r)', row'[r].phone = PhoneOf[d]
        PROVE  DayOf[row'[r].slot] # DayOf[req'[d].slot]
    <3>1. d # c /\ d \in Clients
      BY <2>0, <2>1, <2>6, CallTypes
    <3>2. pc[d] = "insert" /\ req'[d] = req[d]
      BY <2>0, <2>1, <2>6, <3>1
    <3>3. r # q
      BY <2>2, <2>6, <3>1
    <3> QED
      BY <2>3, <2>6, <3>2, <3>3 DEF DayInv
  <2> QED
    BY <2>5, <2>6 DEF DayInv
<1> QED
  BY <1>1, <1>2, NewRows

\* When a number is on one call at a time and its reads succeed, the guard
\* before the INSERT is enough, with or without the unique index: whatever
\* is booked and cancelled, nobody holds two bookings on a day.
THEOREM OneBookingADay ==
  ASSUME Services \subseteq Guarded, "read" \notin Faults, "lostack" \notin Faults,
         \A c, d \in Calls : PhoneOf[c] = PhoneOf[d] /\ PhoneOf[c] # NoPhone => c = d
  PROVE  Spec => []OneBookingPerDay
<1>1. Init => DayInv
  BY CallTypes DEF Init, DayInv, OneBookingPerDay, Booked
<1>2. RepliesInv /\ DayInv /\ [Next]_vars => DayInv'
  BY DayStep DEF RepliesInv
<1>3. DayInv => OneBookingPerDay
  BY DEF DayInv
<1> QED
  BY <1>1, <1>2, <1>3, RepliesStep, PTL DEF Spec
=============================================================================
