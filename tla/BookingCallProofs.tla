-------------------------- MODULE BookingCallProofs --------------------------
(***************************************************************************)
(* Theorems about what an appointment call stands on: the block of live    *)
(* bookings (LiveSnapshot), the prompt of a reply (PromptAssembly) and the *)
(* grid of slots (SlotGrid), for every budget, every number of bookings    *)
(* and drafts, and every grid the settings and the dashboard hold.  The    *)
(* book itself has AppointmentsProofs.                                     *)
(***************************************************************************)
EXTENDS BookingCallMC, SequenceTheorems, TLAPS

(* ---- The block of live bookings ---- *)

Texts == [Parts -> 0..Unread]
DraftRecords == [pc : {"idle", "read"}, part : Texts, old : BOOLEAN]

(* With no tool under way and nothing unreliable, a draft has read the     *)
(* present table or nothing.                                               *)
SnapshotIInv ==
  /\ SnapshotTypeOK /\ SnapshotCurrent
  /\ tool = "idle" /\ ~unreliable =>
       \A d \in Drafts, p \in Parts : draft[d].part[p] \in {table, Unread}

\* The bounds, and the records of a draft.
LEMMA DraftsAre ==
  /\ MaxBookings \in Nat /\ MaxReadFaults \in Nat /\ Unread \in 0..Unread /\ 0 \in 0..Unread
  /\ \A n \in 0..MaxBookings : n \in 0..Unread /\ n # Unread
  /\ NoText \in Texts /\ Resting \in DraftRecords
<1>1. MaxBookings \in Nat /\ MaxReadFaults \in Nat
  BY SnapshotAssumption
<1>2. Unread \in 0..Unread /\ 0 \in 0..Unread /\ \A n \in 0..MaxBookings : n \in 0..Unread /\ n # Unread
  BY <1>1 DEF Unread
<1>3. NoText \in Texts
  BY <1>2 DEF NoText, Texts
<1> QED
  BY <1>1, <1>2, <1>3 DEF Resting, DraftRecords

\* A call starts with no text and no draft.
LEMMA SnapshotStarts == SnapshotInit => SnapshotIInv
<1> SUFFICES ASSUME SnapshotInit PROVE SnapshotIInv
  OBVIOUS
<1>1. table \in 0..MaxBookings /\ readFaults \in Nat /\ snap \in Texts
  BY DraftsAre DEF SnapshotInit
<1>2. draft \in [Drafts -> DraftRecords]
  BY DraftsAre DEF SnapshotInit
<1>3. SnapshotTypeOK
  BY <1>1, <1>2 DEF SnapshotInit, SnapshotTypeOK, Texts, DraftRecords
<1>4. SnapshotCurrent
  BY DEF SnapshotInit, SnapshotCurrent
<1>5. \A d \in Drafts, p \in Parts : draft[d].part[p] = Unread
  BY DEF SnapshotInit, Resting, NoText
<1> QED
  BY <1>3, <1>4, <1>5 DEF SnapshotIInv

\* What a step must leave, a piece at a time.
LEMMA SnapshotPieces ==
  ASSUME table' \in 0..MaxBookings, tool' \in {"idle", "booked"}, snap' \in Texts,
         young' \in BOOLEAN, draft' \in [Drafts -> DraftRecords], unreliable' \in BOOLEAN,
         readFaults' \in Nat, SnapshotCurrent',
         tool' = "idle" /\ ~unreliable' =>
           \A d \in Drafts, p \in Parts : draft'[d].part[p] \in {table', Unread}
  PROVE  SnapshotIInv'
  BY DEF SnapshotIInv, SnapshotTypeOK, Texts, DraftRecords

\* Reads, stores, time, bookings and drops keep the block current.
LEMMA SnapshotStep == SnapshotIInv /\ [SnapshotNext]_snapVars => SnapshotIInv'
<1> SUFFICES ASSUME SnapshotIInv, [SnapshotNext]_snapVars PROVE SnapshotIInv'
  OBVIOUS
<1>1. /\ table \in 0..MaxBookings /\ tool \in {"idle", "booked"} /\ snap \in Texts
      /\ young \in BOOLEAN /\ draft \in [Drafts -> DraftRecords] /\ unreliable \in BOOLEAN
      /\ readFaults \in Nat /\ SnapshotCurrent
  BY DEF SnapshotIInv, SnapshotTypeOK, Texts, DraftRecords
<1>2. tool = "idle" /\ ~unreliable =>
        \A d \in Drafts, p \in Parts : draft[d].part[p] \in {table, Unread}
  BY DEF SnapshotIInv
<1>3. ASSUME NEW d \in Drafts, StartReads(d) PROVE SnapshotIInv'
  <2> DEFINE r == [Resting EXCEPT !.pc = "read"]
  <2>1. r \in DraftRecords /\ r.part = NoText
    BY DraftsAre DEF Resting, DraftRecords
  <2>2. draft' = [draft EXCEPT ![d] = r] /\ UNCHANGED <<table, tool, snap, young, unreliable, readFaults>>
    BY <1>3 DEF StartReads
  <2> HIDE DEF r
  <2>3. draft' \in [Drafts -> DraftRecords]
    BY <1>1, <2>1, <2>2
  <2>4. \A e \in Drafts, p \in Parts : draft'[e].part[p] \in {draft[e].part[p], Unread}
    BY <1>1, <2>1, <2>2 DEF NoText
  <2>5. SnapshotCurrent'
    BY <1>1, <2>2 DEF SnapshotCurrent
  <2> QED
    BY <1>1, <1>2, <2>2, <2>3, <2>4, <2>5, SnapshotPieces
<1>4. ASSUME NEW d \in Drafts, NEW p \in Parts, ReadPart(d, p) PROVE SnapshotIInv'
  <2>1. ASSUME NEW v \in 0..Unread, draft' = [draft EXCEPT ![d].part[p] = v]
        PROVE  /\ draft' \in [Drafts -> DraftRecords]
               /\ \A e \in Drafts, q \in Parts : draft'[e].part[q] \in {draft[e].part[q], v}
    <3>1. draft[d] \in DraftRecords /\ draft[d].part \in Texts
      BY <1>1 DEF DraftRecords
    <3>2. draft' = [draft EXCEPT ![d] = [draft[d] EXCEPT !.part = [draft[d].part EXCEPT ![p] = v]]]
      BY <1>1, <2>1
    <3>3. PICK t \in Texts : t = [draft[d].part EXCEPT ![p] = v]
      BY <3>1 DEF Texts
    <3>4. \A q \in Parts : t[q] \in {draft[d].part[q], v}
      BY <3>1, <3>3 DEF Texts
    <3> DEFINE r == [draft[d] EXCEPT !.part = t]
    <3>5. r \in DraftRecords /\ r.part = t
      BY <3>1 DEF DraftRecords
    <3>6. draft' = [draft EXCEPT ![d] = r]
      BY <3>2, <3>3
    <3> HIDE DEF r
    <3> QED
      BY <1>1, <3>4, <3>5, <3>6
  <2>2. CASE draft' = [draft EXCEPT ![d].part[p] = table] /\ UNCHANGED <<unreliable, readFaults>>
    <3>1. table \in 0..Unread
      BY <1>1, DraftsAre
    <3>2. draft' \in [Drafts -> DraftRecords]
          /\ \A e \in Drafts, q \in Parts : draft'[e].part[q] \in {draft[e].part[q], table}
      BY <2>1, <2>2, <3>1
    <3>3. UNCHANGED <<table, tool, snap, young, unreliable, readFaults>>
      BY <1>4, <2>2 DEF ReadPart
    <3>4. SnapshotCurrent'
      BY <1>1, <3>3 DEF SnapshotCurrent
    <3> QED
      BY <1>1, <1>2, <3>2, <3>3, <3>4, SnapshotPieces
  <2>3. CASE /\ readFaults' = readFaults + 1 /\ draft' = [draft EXCEPT ![d].part[p] = 0]
             /\ unreliable' = TRUE
    <3>1. draft' \in [Drafts -> DraftRecords]
      BY <2>1, <2>3, DraftsAre
    <3>2. UNCHANGED <<table, tool, snap, young>> /\ readFaults' \in Nat
      BY <1>1, <1>4, <2>3 DEF ReadPart
    <3>3. SnapshotCurrent'
      BY <2>3 DEF SnapshotCurrent
    <3> QED
      BY <1>1, <2>3, <3>1, <3>2, <3>3, SnapshotPieces
  <2> QED
    BY <1>4, <2>2, <2>3 DEF ReadPart
<1>5. ASSUME NEW d \in Drafts, StoreText(d) PROVE SnapshotIInv'
  <2>1. /\ snap' = draft[d].part /\ young' = ~draft[d].old /\ draft' = [draft EXCEPT ![d] = Resting]
        /\ UNCHANGED <<table, tool, unreliable, readFaults>>
        /\ \A p \in Parts : draft[d].part[p] # Unread
    BY <1>5 DEF StoreText
  <2>2. draft[d] \in DraftRecords
    BY <1>1
  <2>3. snap' \in Texts
    BY <2>1, <2>2 DEF DraftRecords
  <2>4. young' \in BOOLEAN
    BY <2>1
  <2>5. draft' \in [Drafts -> DraftRecords]
    BY <1>1, <2>1, DraftsAre
  <2>6. \A e \in Drafts, p \in Parts : draft'[e].part[p] \in {draft[e].part[p], Unread}
    BY <1>1, <2>1 DEF Resting, NoText
  <2>7. SnapshotCurrent'
    BY <1>2, <2>1 DEF SnapshotCurrent
  <2> QED
    BY <1>1, <1>2, <2>1, <2>3, <2>4, <2>5, <2>6, <2>7, SnapshotPieces
<1>6. CASE AgeSnapshot
  <2>1. /\ young' = FALSE /\ UNCHANGED <<table, tool, snap, unreliable, readFaults>>
        /\ draft' = [d \in Drafts |-> [draft[d] EXCEPT !.old = draft[d].pc = "read"]]
    BY <1>6 DEF AgeSnapshot
  <2>2. ASSUME NEW d \in Drafts
        PROVE  [draft[d] EXCEPT !.old = draft[d].pc = "read"] \in DraftRecords
               /\ [draft[d] EXCEPT !.old = draft[d].pc = "read"].part = draft[d].part
    <3>1. draft[d] \in DraftRecords
      BY <1>1
    <3>2. PICK b \in BOOLEAN : b = (draft[d].pc = "read")
      OBVIOUS
    <3>3. [draft[d] EXCEPT !.old = b] \in DraftRecords /\ [draft[d] EXCEPT !.old = b].part = draft[d].part
      BY <3>1 DEF DraftRecords
    <3> QED
      BY <3>2, <3>3
  <2>3. draft' \in [Drafts -> DraftRecords] /\ \A d \in Drafts : draft'[d].part = draft[d].part
    BY <2>1, <2>2
  <2>4. SnapshotCurrent'
    BY <2>1 DEF SnapshotCurrent
  <2> QED
    BY <1>1, <1>2, <2>1, <2>3, <2>4, SnapshotPieces
<1>7. CASE Book
  <2>1. table' \in 0..MaxBookings
    BY <1>1, <1>7, DraftsAre DEF Book
  <2>2. SnapshotCurrent'
    BY <1>7 DEF Book, SnapshotCurrent
  <2> QED
    BY <1>1, <1>7, <2>1, <2>2, SnapshotPieces DEF Book
<1>8. CASE InvalidateSnapshot
  <2>1. /\ tool' = "idle" /\ snap' = NoText /\ young' = FALSE /\ UNCHANGED <<table, draft, readFaults>>
        /\ unreliable' = Behind
    BY <1>8 DEF InvalidateSnapshot
  <2>2. unreliable' \in BOOLEAN
    BY <2>1 DEF Behind
  <2>3. ~unreliable' => \A d \in Drafts, p \in Parts : draft[d].part[p] \in {table, Unread}
    BY <2>1 DEF Behind
  <2>4. SnapshotCurrent'
    BY <2>1 DEF SnapshotCurrent
  <2> QED
    BY <1>1, <2>1, <2>2, <2>3, <2>4, DraftsAre, SnapshotPieces
<1>9. CASE UNCHANGED snapVars
  <2>1. SnapshotCurrent'
    BY <1>1, <1>9 DEF snapVars, SnapshotCurrent
  <2> QED
    BY <1>1, <1>2, <1>9, <2>1, SnapshotPieces DEF snapVars
<1> QED
  BY <1>3, <1>4, <1>5, <1>6, <1>7, <1>8, <1>9 DEF SnapshotNext

\* So a block the agent takes for fresh shows the book as it stands.
LEMMA SnapshotHolds == SnapshotIInv => SnapshotInv
  BY DEF SnapshotIInv, SnapshotInv

(* ---- The prompt of a reply ---- *)

Items == {"persona", "user", "assistant", "call"} \cup Results
Rails == {"marker", "snapshot", "gender", "emotion", "memory", "reminder", "length"}
Shown == Items \cup Rails

(* The persona leads the chat and nothing takes it away. *)
PromptIInv == PromptTypeOK /\ chat # <<>> /\ Head(chat) = "persona"

\* The chat and what goes into the prompt, as sequences.
LEMMA ChatIs ==
  ASSUME PromptIInv
  PROVE  /\ chat \in Seq(Items) /\ Talk \in Seq(Items) /\ Talk \in Seq(Shown)
         /\ Len(chat) \in Nat /\ Len(chat) = Len(Talk) + 1 /\ Len(Talk) \in Nat
<1>1. chat \in Seq(Items) /\ chat # <<>>
  BY DEF PromptIInv, PromptTypeOK, Items
<1>2. Talk \in Seq(Items) /\ Len(Talk) = Len(chat) - 1
  BY <1>1, HeadTailProperties DEF Talk
<1>3. Talk \in Seq(Shown)
  BY <1>2, SeqMonotonic DEF Shown
<1>4. Len(chat) \in Nat /\ Len(Talk) \in Nat
  BY <1>1, <1>2, LenProperties
<1> QED
  BY <1>1, <1>2, <1>3, <1>4

\* What is put around the conversation.
LEMMA RailsAre ==
  ASSUME PromptIInv
  PROVE  /\ Front \in Seq(Shown) /\ Len(Front) = 2 /\ Front[1] = "persona"
         /\ Reminders \in Seq(Shown) /\ Len(Reminders) \in Nat
<1>1. {"persona", "marker", "snapshot", "gender", "emotion", "memory", "reminder", "length"} \subseteq Shown
  BY DEF Shown, Items, Rails
<1>2. Front = <<"persona", "marker">>
  BY DEF PromptIInv, Front
<1>3. Front \in Seq(Shown) /\ Len(Front) = 2 /\ Front[1] = "persona"
  BY <1>1, <1>2
<1> DEFINE a == <<"snapshot", "gender">>
           b == IF feels THEN <<"emotion">> ELSE <<>>
           c == IF feels \/ "cancel" \in said THEN <<"memory">> ELSE <<>>
           d == <<"reminder", "length">>
<1>4. a \in Seq(Shown) /\ d \in Seq(Shown)
  BY <1>1
<1>5. b \in Seq(Shown)
  BY <1>1
<1>6. c \in Seq(Shown)
  BY <1>1
<1>7. Reminders = a \o b \o c \o d
  BY DEF Reminders
<1> HIDE DEF a, b, c, d
<1>8. Reminders \in Seq(Shown)
  BY <1>4, <1>5, <1>6, <1>7, ConcatProperties
<1> QED
  BY <1>3, <1>8, LenProperties

\* How many items are dropped.
LEMMA DropCountIs ==
  ASSUME PromptIInv
  PROVE  /\ DropCount \in 0..Len(Talk)
         /\ Excess = Len(Talk) + 2 + Len(Reminders) - Budget
         /\ DropCount <= Excess \/ DropCount = 0
         /\ DropCount <= Len(Talk) - KeepRecent \/ DropCount = 0
         /\ DropCount >= Excess \/ DropCount >= Len(Talk) - KeepRecent
<1> DEFINE f == Front
           t == Talk
           r == Reminders
<1>1. f \in Seq(Shown) /\ t \in Seq(Shown) /\ r \in Seq(Shown) /\ Len(f) = 2
  BY ChatIs, RailsAre
<1> HIDE DEF f, t, r
<1>2. f \o t \in Seq(Shown) /\ Len(f \o t) = Len(f) + Len(t)
  BY <1>1, ConcatProperties
<1>8. Len(f \o t \o r) = Len(f \o t) + Len(r)
  BY <1>1, <1>2, ConcatProperties
<1>9. Len(Front \o Talk \o Reminders) = 2 + Len(Talk) + Len(Reminders)
  BY <1>1, <1>2, <1>8 DEF f, t, r
<1>3. Excess = Len(Talk) + 2 + Len(Reminders) - Budget
  <2>1. \A l, k, b \in Nat : 2 + l + k - b = l + 2 + k - b
    OBVIOUS
  <2> QED
    BY <1>9, <2>1, ChatIs, RailsAre, PromptAssumption DEF Excess
<1>4. Excess \in Int /\ Len(Talk) \in Nat /\ KeepRecent \in Nat
  BY <1>3, ChatIs, RailsAre, PromptAssumption
<1>5. \A l, k \in Nat, e \in Int :
        \E n \in 0..l : /\ n <= e \/ n = 0
                        /\ n <= l - k \/ n = 0
                        /\ n >= e \/ n >= l - k
  <2> SUFFICES ASSUME NEW l \in Nat, NEW k \in Nat, NEW e \in Int
               PROVE  \E n \in 0..l : /\ n <= e \/ n = 0
                                      /\ n <= l - k \/ n = 0
                                      /\ n >= e \/ n >= l - k
    OBVIOUS
  <2>1. CASE e <= 0 \/ l <= k
    <3>1. 0 \in 0..l /\ (0 >= e \/ 0 >= l - k)
      BY <2>1
    <3> QED
      BY <3>1
  <2>2. CASE e > 0 /\ l > k /\ e <= l - k
    <3>1. e \in 0..l
      BY <2>2
    <3> QED
      BY <2>2, <3>1
  <2>3. CASE e > l - k /\ l > k
    <3>1. l - k \in 0..l /\ l - k <= e
      BY <2>3
    <3> QED
      BY <3>1
  <2> QED
    BY <2>1, <2>2, <2>3
<1>6. \E n \in 0..Len(Talk) : /\ n <= Excess \/ n = 0
                              /\ n <= Len(Talk) - KeepRecent \/ n = 0
                              /\ n >= Excess \/ n >= Len(Talk) - KeepRecent
  BY <1>4, <1>5
<1> QED
  BY <1>3, <1>6 DEF DropCount

\* A trimmed chat is put together of three pieces, which are found again.
LEMMA Pieces ==
  ASSUME NEW S, NEW f \in Seq(S), NEW m \in Seq(S), NEW r \in Seq(S)
  PROVE  LET s == f \o m \o r
         IN /\ s \in Seq(S) /\ Len(s) = Len(f) + Len(m) + Len(r)
            /\ SubSeq(s, 1, Len(f)) = f
            /\ SubSeq(s, Len(f) + 1, Len(f) + Len(m)) = m
            /\ SubSeq(s, Len(f) + 1 + Len(m), Len(s)) = r
            /\ \A i \in 1..Len(f) : s[i] = f[i]
<1> DEFINE s == f \o m \o r
<1>1. Len(f) \in Nat /\ Len(m) \in Nat /\ Len(r) \in Nat
  BY LenProperties
<1>2. /\ f \o m \in Seq(S) /\ Len(f \o m) = Len(f) + Len(m)
      /\ \A i \in 1..Len(f) + Len(m) : (f \o m)[i] = IF i <= Len(f) THEN f[i] ELSE m[i - Len(f)]
  BY ConcatProperties
<1>3. /\ s \in Seq(S) /\ Len(s) = Len(f) + Len(m) + Len(r)
      /\ \A i \in 1..Len(f) + Len(m) + Len(r) :
           s[i] = IF i <= Len(f) + Len(m) THEN (f \o m)[i] ELSE r[i - (Len(f) + Len(m))]
  BY <1>2, ConcatProperties
<1> HIDE DEF s
<1>4. \A i \in 1..Len(f) : s[i] = f[i]
  BY <1>1, <1>2, <1>3
<1>5. \A i \in 1..Len(m) : s[Len(f) + i] = m[i]
  BY <1>1, <1>2, <1>3
<1>6. \A i \in 1..Len(r) : s[Len(f) + Len(m) + i] = r[i]
  <2> TAKE i \in 1..Len(r)
  <2> DEFINE a == Len(f) + Len(m)
  <2>1. a \in Nat /\ a + i \in 1..a + Len(r) /\ ~(a + i <= a) /\ (a + i) - a = i
    BY <1>1
  <2>2. s[a + i] = r[(a + i) - a]
    BY <1>3, <2>1
  <2> QED
    BY <2>1, <2>2
<1>7. ASSUME NEW a \in Nat, NEW b \in Nat, NEW w \in Seq(S), b = a + Len(w), b <= Len(s),
             \A i \in 1..Len(w) : s[a + i] = w[i]
      PROVE  SubSeq(s, a + 1, b) = w
  <2>1. Len(w) \in Nat /\ Len(s) \in Nat
    BY <1>3, LenProperties
  <2>2. \A i \in (a + 1)..b : s[i] \in S
    <3> TAKE i \in (a + 1)..b
    <3>1. i \in 1..Len(s)
      BY <1>7, <2>1
    <3> QED
      BY <1>3, <3>1, ElementOfSeq
  <2>3. /\ SubSeq(s, a + 1, b) \in Seq(S)
        /\ Len(SubSeq(s, a + 1, b)) = IF a + 1 <= b THEN b - (a + 1) + 1 ELSE 0
        /\ \A i \in 1..(b - (a + 1) + 1) : SubSeq(s, a + 1, b)[i] = s[(a + 1) + i - 1]
    <3>1. a + 1 \in Int /\ b \in Int
      OBVIOUS
    <3> QED
      BY <2>2, <3>1, SubSeqProperties
  <2>4. Len(SubSeq(s, a + 1, b)) = Len(w)
    BY <1>7, <2>1, <2>3
  <2>5. \A i \in 1..Len(w) : SubSeq(s, a + 1, b)[i] = w[i]
    <3> TAKE i \in 1..Len(w)
    <3>1. i \in 1..(b - (a + 1) + 1) /\ (a + 1) + i - 1 = a + i
      BY <1>7, <2>1
    <3> QED
      BY <1>7, <2>3, <3>1
  <2> QED
    BY <2>3, <2>4, <2>5, SeqEqual
<1>8. SubSeq(s, 1, Len(f)) = f
  <2>1. Len(f) = 0 + Len(f) /\ Len(f) <= Len(s) /\ \A i \in 1..Len(f) : s[0 + i] = f[i]
    BY <1>1, <1>3, <1>4
  <2>2. SubSeq(s, 0 + 1, Len(f)) = f
    BY <1>1, <1>7, <2>1
  <2> QED
    BY <2>2
<1>9. SubSeq(s, Len(f) + 1, Len(f) + Len(m)) = m
  <2>1. Len(f) + Len(m) \in Nat /\ Len(f) + Len(m) <= Len(s)
    BY <1>1, <1>3
  <2> QED
    BY <1>1, <1>5, <1>7, <2>1
<1>10. SubSeq(s, Len(f) + 1 + Len(m), Len(s)) = r
  <2> DEFINE a == Len(f) + Len(m)
  <2>1. a \in Nat /\ Len(s) \in Nat /\ Len(s) = a + Len(r) /\ Len(s) <= Len(s)
    BY <1>1, <1>3
  <2>2. SubSeq(s, a + 1, Len(s)) = r
    BY <1>6, <1>7, <2>1
  <2>3. a + 1 = Len(f) + 1 + Len(m)
    BY <1>1
  <2> QED
    BY <2>2, <2>3
<1> QED
  BY <1>3, <1>4, <1>8, <1>9, <1>10 DEF s

\* Nothing is healed while the persona leads.
LEMMA NothingToHeal ==
  ASSUME NEW s \in Seq(Shown), s # <<>>, s[1] = "persona"
  PROVE  Healed(s) = s
<1> DEFINE Cut == Results \cup {"call"}
           P(i) == s[i] \notin Cut /\ \A j \in 1..(i - 1) : s[j] \in Cut
<1>1. Len(s) \in Nat /\ Len(s) # 0 /\ DOMAIN s = 1..Len(s)
  BY LenProperties, EmptySeq
<1>2. "persona" \notin Cut
  BY DEF Results
<1> HIDE DEF Cut
<1>3. 1 \in DOMAIN s /\ P(1)
  BY <1>1, <1>2
<1>4. ASSUME NEW i \in DOMAIN s, P(i) PROVE i = 1
  <2>1. i \in 1..Len(s)
    BY <1>1
  <2>2. i > 1 => 1 \in 1..(i - 1)
    BY <2>1
  <2> QED
    BY <1>1, <1>2, <1>4, <2>1, <2>2
<1>5. (CHOOSE i \in DOMAIN s : P(i)) = 1
  BY <1>3, <1>4
<1>6. Healed(s) = SubSeq(s, 1, Len(s))
  BY <1>5 DEF Healed, Cut
<1> QED
  BY <1>6, SubSeqFull

\* What the model is shown of the conversation.
LEMMA PromptIs ==
  ASSUME PromptIInv
  PROVE  LET kept == Len(Talk) - DropCount
             m == SubSeq(Talk, DropCount + 1, Len(Talk))
         IN /\ Prompt = Front \o m \o Reminders
            /\ m \in Seq(Shown) /\ Len(m) = kept
<1> DEFINE m == SubSeq(Talk, DropCount + 1, Len(Talk))
           s == Front \o m \o Reminders
<1>1. Len(Talk) \in Nat /\ DropCount \in 0..Len(Talk) /\ Talk \in Seq(Shown)
  BY ChatIs, DropCountIs
<1>2. \A i \in (DropCount + 1)..Len(Talk) : Talk[i] \in Shown
  <2> TAKE i \in (DropCount + 1)..Len(Talk)
  <2>1. i \in 1..Len(Talk)
    BY <1>1
  <2> QED
    BY <1>1, <2>1, ElementOfSeq
<1>3. m \in Seq(Shown) /\ Len(m) = IF DropCount + 1 <= Len(Talk) THEN Len(Talk) - (DropCount + 1) + 1 ELSE 0
  <2>1. DropCount + 1 \in Int /\ Len(Talk) \in Int
    BY <1>1
  <2> QED
    BY <1>2, <2>1, SubSeqProperties
<1>4. Len(m) = Len(Talk) - DropCount
  BY <1>1, <1>3
<1> HIDE DEF m
<1>5. s \in Seq(Shown) /\ Len(s) = Len(Front) + Len(m) + Len(Reminders) /\ \A i \in 1..Len(Front) : s[i] = Front[i]
  <2>1. Front \in Seq(Shown) /\ m \in Seq(Shown) /\ Reminders \in Seq(Shown)
    BY <1>3, RailsAre
  <2> QED
    BY <2>1, Pieces
<1>6. s # <<>> /\ s[1] = "persona"
  <2>1. 1 \in 1..Len(Front)
    BY RailsAre
  <2>2. Len(s) # 0
    <3>1. \A a, b \in Nat : 2 + a + b # 0
      OBVIOUS
    <3>2. Len(m) \in Nat /\ Len(Front) = 2 /\ Len(Reminders) \in Nat
      BY <1>3, RailsAre, LenProperties
    <3> QED
      BY <1>5, <3>1, <3>2
  <2> QED
    BY <1>5, <2>1, <2>2, RailsAre, EmptySeq
<1>7. Healed(s) = s
  BY <1>5, <1>6, NothingToHeal
<1>8. Prompt = s
  BY <1>7 DEF Prompt, m
<1> QED
  BY <1>3, <1>4, <1>8 DEF m

\* The trimmed prompt is what enforce_prompt_budget promises.
LEMMA PromptHolds == PromptIInv => PromptInv
<1> SUFFICES ASSUME PromptIInv PROVE PromptInv
  OBVIOUS
<1> DEFINE n == DropCount
           l == Len(Talk)
           r == Len(Reminders)
           m == SubSeq(Talk, n + 1, l)
<1>1. /\ n \in 0..l /\ l \in Nat /\ r \in Nat /\ KeepRecent \in Nat /\ Budget \in Nat
      /\ Excess = l + 2 + r - Budget
      /\ n <= Excess \/ n = 0
      /\ n <= l - KeepRecent \/ n = 0
      /\ n >= Excess \/ n >= l - KeepRecent
  BY ChatIs, RailsAre, DropCountIs, PromptAssumption
<1>2. Prompt = Front \o m \o Reminders /\ m \in Seq(Shown) /\ Len(m) = l - n
  BY PromptIs
<1>3. m = SubSeq(Talk, n + 1, l)
  OBVIOUS
<1> HIDE DEF n, l, r, m
<1>4. /\ Len(Prompt) = 2 + (l - n) + r
      /\ SubSeq(Prompt, 1, Len(Front)) = Front
      /\ SubSeq(Prompt, Len(Front) + 1, Len(Front) + Len(m)) = m
      /\ SubSeq(Prompt, Len(Front) + 1 + Len(m), Len(Prompt)) = Reminders
  <2> DEFINE f == Front
             w == Reminders
  <2>1. f \in Seq(Shown) /\ w \in Seq(Shown) /\ Len(f) = 2 /\ m \in Seq(Shown) /\ Len(w) = r
        /\ Prompt = f \o m \o w /\ Len(m) = l - n
    BY <1>2, RailsAre DEF r
  <2> HIDE DEF f, w
  <2> DEFINE s == f \o m \o w
  <2>2. /\ Len(s) = Len(f) + Len(m) + Len(w) /\ SubSeq(s, 1, Len(f)) = f
        /\ SubSeq(s, Len(f) + 1, Len(f) + Len(m)) = m
        /\ SubSeq(s, Len(f) + 1 + Len(m), Len(s)) = w
    <3>1. f \in Seq(Shown) /\ m \in Seq(Shown) /\ w \in Seq(Shown)
      BY <2>1
    <3> QED
      BY <3>1, Pieces
  <2>3. /\ Len(Prompt) = 2 + (l - n) + r /\ SubSeq(Prompt, 1, Len(f)) = f
        /\ SubSeq(Prompt, Len(f) + 1, Len(f) + Len(m)) = m
        /\ SubSeq(Prompt, Len(f) + 1 + Len(m), Len(Prompt)) = w
    BY <2>1, <2>2
  <2> QED
    BY <2>3 DEF f, w
<1>5. Len(Front) = 2
  BY RailsAre
<1>6. Len(Prompt) - Len(Front) - Len(Reminders) = l - n
  BY <1>1, <1>4, <1>5 DEF r
<1>7. l - (l - n) + 1 = n + 1
  BY <1>1
<1>8. ExchangeKept
  <2>1. l - n \in 0..l
    BY <1>1
  <2>2. l - n < KeepRecent => l - n = l
    BY <1>1
  <2>3. SubSeq(Talk, l - (l - n) + 1, l) = m
    BY <1>3, <1>7
  <2> QED
    BY <1>2, <1>4, <1>6, <2>1, <2>2, <2>3 DEF ExchangeKept, l
<1>9. BudgetHonoured
  <2>1. Len(Front \o Reminders) = 2 + r
    <3> DEFINE f == Front
               w == Reminders
    <3>1. f \in Seq(Shown) /\ w \in Seq(Shown) /\ Len(f) = 2 /\ Len(w) = r
      BY RailsAre DEF r
    <3> HIDE DEF f, w
    <3>2. Len(f \o w) = Len(f) + Len(w)
      BY <3>1, ConcatProperties
    <3>3. Len(f \o w) = 2 + r
      BY <3>1, <3>2
    <3> QED
      BY <3>3 DEF f, w
  <2>2. Len(chat) + 1 + Len(Reminders) = l + 2 + r
    BY <1>1, ChatIs DEF l, r
  <2> DEFINE p == Len(Prompt)
  <2>3. p = 2 + (l - n) + r
    BY <1>4
  <2> HIDE DEF p
  <2>4. p <= Budget \/ p <= KeepRecent + (2 + r)
    BY <1>1, <2>3
  <2>5. p < Budget => p = l + 2 + r
    BY <1>1, <2>3
  <2> QED
    BY <2>1, <2>2, <2>4, <2>5 DEF BudgetHonoured, p
<1> QED
  BY <1>8, <1>9 DEF PromptInv, PromptIInv

(* ---- the turn ---- *)

\* A chat starts with the persona.
LEMMA PromptStarts == PromptInit => PromptIInv
<1> SUFFICES ASSUME PromptInit PROVE PromptIInv
  OBVIOUS
<1>1. rows \in 0..MaxRows /\ toolSteps \in 0..MaxToolSteps
  BY PromptAssumption DEF PromptInit
<1>2. chat \in Seq(Items) /\ chat # <<>> /\ Head(chat) = "persona"
  <2>1. chat = <<"persona">> /\ "persona" \in Items
    BY DEF PromptInit, Items
  <2> QED
    BY <2>1
<1> QED
  BY <1>1, <1>2 DEF PromptInit, PromptIInv, PromptTypeOK, Items

\* Adding to a chat keeps who leads it.
LEMMA ChatGrows ==
  ASSUME NEW s \in Seq(Items), s # <<>>, Head(s) = "persona", NEW t \in Seq(Items)
  PROVE  s \o t \in Seq(Items) /\ s \o t # <<>> /\ Head(s \o t) = "persona"
<1>1. s \o t \in Seq(Items) /\ Len(s \o t) = Len(s) + Len(t)
      /\ \A i \in 1..Len(s) + Len(t) : (s \o t)[i] = IF i <= Len(s) THEN s[i] ELSE t[i - Len(s)]
  BY ConcatProperties
<1>2. Len(s) \in Nat \ {0} /\ Len(t) \in Nat
  BY EmptySeq, LenProperties
<1>3. Len(s \o t) # 0 /\ 1 \in 1..Len(s) + Len(t) /\ 1 <= Len(s)
  BY <1>1, <1>2
<1>4. s \o t # <<>>
  BY <1>3, EmptySeq
<1>5. (s \o t)[1] = s[1]
  BY <1>1, <1>3
<1>6. Head(s) = s[1] /\ Head(s \o t) = (s \o t)[1]
  BY <1>1, <1>4
<1> QED
  BY <1>1, <1>4, <1>5, <1>6

\* A result is a text, and the rows stay within their bound.
LEMMA OutcomeIs ==
  ASSUME PromptTypeOK, NEW b \in BookTools, NEW o \in Outcome(b)
  PROVE  o[1] \in Results /\ o[2] \in 0..MaxRows
<1>1. rows \in 0..MaxRows /\ MaxRows \in Nat
  BY PromptAssumption DEF PromptTypeOK
<1>2. CASE b = "book_appointment"
  <2>1. Outcome(b) = {<<"refused", rows>>} \cup {<<"booked", r>> : r \in {rows + 1} \cap 1..MaxRows}
    BY <1>2 DEF Outcome
  <2>2. CASE o = <<"refused", rows>>
    BY <1>1, <2>2 DEF Results
  <2>3. ASSUME NEW r \in 1..MaxRows, o = <<"booked", r>> PROVE o[1] \in Results /\ o[2] \in 0..MaxRows
    <3>1. r \in 0..MaxRows
      BY <1>1
    <3> QED
      BY <2>3, <3>1 DEF Results
  <2> QED
    BY <2>1, <2>2, <2>3
<1>3. CASE b = "check_appointment_slots"
  <2>1. Outcome(b) = {<<"free slots", rows>>, <<"day full", rows>>}
    BY <1>3 DEF Outcome
  <2>2. o = <<"free slots", rows>> \/ o = <<"day full", rows>>
    BY <2>1
  <2>3. CASE o = <<"free slots", rows>>
    BY <1>1, <2>3 DEF Results
  <2>4. CASE o = <<"day full", rows>>
    BY <1>1, <2>4 DEF Results
  <2> QED
    BY <2>2, <2>3, <2>4
<1>4. CASE b = "my_appointment"
  <2>1. Outcome(b) = {<<IF rows = 0 THEN "nothing on file" ELSE "your bookings", rows>>}
    BY <1>4 DEF Outcome
  <2>2. o = <<"nothing on file", rows>> \/ o = <<"your bookings", rows>>
    BY <2>1
  <2>3. CASE o = <<"nothing on file", rows>>
    BY <1>1, <2>3 DEF Results
  <2>4. CASE o = <<"your bookings", rows>>
    BY <1>1, <2>4 DEF Results
  <2> QED
    BY <2>2, <2>3, <2>4
<1>5. CASE b = "reschedule_appointment"
  <2>1. Outcome(b) = {<<"not moved", rows>>} \cup {<<"moved", r>> : r \in {rows} \ {0}}
    BY <1>5 DEF Outcome
  <2>2. o = <<"not moved", rows>> \/ o = <<"moved", rows>>
    BY <2>1
  <2>3. CASE o = <<"not moved", rows>>
    BY <1>1, <2>3 DEF Results
  <2>4. CASE o = <<"moved", rows>>
    BY <1>1, <2>4 DEF Results
  <2> QED
    BY <2>2, <2>3, <2>4
<1>6. CASE b = "cancel_appointment"
  <2>1. Outcome(b) = {<<"not cancelled", rows>>} \cup {<<"cancelled", r - 1>> : r \in {rows} \ {0}}
    BY <1>6 DEF Outcome
  <2>2. CASE o = <<"not cancelled", rows>>
    BY <1>1, <2>2 DEF Results
  <2>3. CASE o = <<"cancelled", rows - 1>> /\ rows # 0
    <3>1. rows - 1 \in 0..MaxRows
      BY <1>1, <2>3
    <3> QED
      BY <2>3, <3>1 DEF Results
  <2> QED
    BY <2>1, <2>2, <2>3
<1> QED
  BY <1>2, <1>3, <1>4, <1>5, <1>6 DEF BookTools

\* What is forced is a booking tool or nothing.
LEMMA ForcedIs == Forced \in BookTools \cup {"auto"}
  BY DEF Forced, BookTools

\* What a step must leave.
LEMMA PromptPieces ==
  ASSUME chat' \in Seq(Items), chat' # <<>>, Head(chat') = "persona",
         said' \subseteq Cues, replying' \in BOOLEAN, toolSteps' \in 0..MaxToolSteps, feels' \in BOOLEAN,
         chosen' \in BookTools \cup {"auto"}, rows' \in 0..MaxRows, landed' \in BOOLEAN
  PROVE  PromptIInv'
  BY DEF PromptIInv, PromptTypeOK, Items

\* Turns, tool calls and answers add to the chat and keep its types.
LEMMA PromptStep == PromptIInv /\ [PromptNext]_promptVars => PromptIInv'
<1> SUFFICES ASSUME PromptIInv, [PromptNext]_promptVars PROVE PromptIInv'
  OBVIOUS
<1>1. /\ chat \in Seq(Items) /\ chat # <<>> /\ Head(chat) = "persona"
      /\ said \subseteq Cues /\ replying \in BOOLEAN /\ toolSteps \in 0..MaxToolSteps /\ feels \in BOOLEAN
      /\ chosen \in BookTools \cup {"auto"} /\ rows \in 0..MaxRows /\ landed \in BOOLEAN /\ PromptTypeOK
  BY DEF PromptIInv, PromptTypeOK, Items
<1>2. MaxToolSteps \in Nat
  BY PromptAssumption
<1>3. ASSUME NEW words \in SUBSET Cues, CallerSays(words) PROVE PromptIInv'
  <2>1. /\ chat' = Append(chat, "user") /\ said' = words /\ replying' = TRUE /\ toolSteps' = 0
        /\ feels' = (feels \/ "argh" \in words) /\ UNCHANGED <<chosen, rows, landed>>
    BY <1>3 DEF CallerSays
  <2>2. <<"user">> \in Seq(Items)
    BY DEF Items
  <2>3. chat' = chat \o <<"user">>
    BY <1>1, <2>1, AppendIsConcat
  <2>4. chat' \in Seq(Items) /\ chat' # <<>> /\ Head(chat') = "persona"
    BY <1>1, <2>2, <2>3, ChatGrows
  <2>5. feels' \in BOOLEAN
    BY <2>1
  <2>6. toolSteps' \in 0..MaxToolSteps
    BY <1>2, <2>1
  <2> QED
    BY <1>1, <2>1, <2>4, <2>5, <2>6, PromptPieces
<1>4. ASSUME NEW b \in BookTools, CallTool(b) PROVE PromptIInv'
  <2>1. PICK o \in Outcome(b) : /\ chat' = chat \o <<"call", o[1]>> /\ rows' = o[2]
                                /\ landed' = (landed \/ o[1] = "booked")
    BY <1>4 DEF CallTool
  <2>2. toolSteps < MaxToolSteps /\ chosen' = Forced /\ toolSteps' = toolSteps + 1
        /\ UNCHANGED <<said, replying, feels>>
    BY <1>4 DEF CallTool
  <2>3. o[1] \in Results /\ rows' \in 0..MaxRows
    BY <1>1, <2>1, OutcomeIs
  <2>4. <<"call", o[1]>> \in Seq(Items)
    BY <2>3 DEF Items
  <2>5. chat' \in Seq(Items) /\ chat' # <<>> /\ Head(chat') = "persona"
    BY <1>1, <2>1, <2>4, ChatGrows
  <2>6. toolSteps' \in 0..MaxToolSteps
    BY <1>1, <1>2, <2>2
  <2>7. landed' \in BOOLEAN
    BY <2>1
  <2> QED
    BY <1>1, <2>2, <2>3, <2>5, <2>6, <2>7, ForcedIs, PromptPieces
<1>5. CASE AnswerInWords
  <2>1. /\ chosen' = Forced /\ chat' = Append(chat, "assistant") /\ replying' = FALSE
        /\ UNCHANGED <<said, toolSteps, feels, rows, landed>>
    BY <1>5 DEF AnswerInWords
  <2>2. <<"assistant">> \in Seq(Items)
    BY DEF Items
  <2>3. chat' = chat \o <<"assistant">>
    BY <1>1, <2>1, AppendIsConcat
  <2>4. chat' \in Seq(Items) /\ chat' # <<>> /\ Head(chat') = "persona"
    BY <1>1, <2>2, <2>3, ChatGrows
  <2> QED
    BY <1>1, <2>1, <2>4, ForcedIs, PromptPieces
<1>6. CASE GiveUp
  BY <1>1, <1>6, PromptPieces DEF GiveUp
<1>7. CASE UNCHANGED promptVars
  BY <1>1, <1>7, PromptPieces DEF promptVars
<1> QED
  BY <1>3, <1>4, <1>5, <1>6, <1>7 DEF PromptNext

(* ---- The grid of slots ---- *)

(* The grid in use opens before it closes, and a slot fits into the day. *)
GridIInv ==
  /\ GridTypeOK
  /\ grid.open < grid.close /\ grid.step <= 60 * (grid.close - grid.open)

\* The grid of the settings is one the agent would take.
LEMMA EnvironmentIsSound ==
  /\ Environment.open \in 0..23 /\ Environment.close \in 1..24 /\ Environment.step \in Nat \ {0}
  /\ Environment.open < Environment.close
  /\ Environment.step <= 60 * (Environment.close - Environment.open)
<1>1. Environment \in Grids /\ Environment.open < Environment.close
      /\ Environment.step <= 60 * (Environment.close - Environment.open)
  BY SlotGridAssumption
<1> QED
  BY <1>1 DEF Grids

\* The day starts on the grid of the settings.
LEMMA GridStarts == GridInit => GridIInv
<1> SUFFICES ASSUME GridInit PROVE GridIInv
  OBVIOUS
<1>1. grid = Environment /\ saved \in Saved \cup {Environment} /\ weekday \in Weekdays /\ now \in Minutes
  BY DEF GridInit, Weekdays
<1>2. grid.step \in 1..1440
  <2> DEFINE o == Environment.open
             c == Environment.close
             s == Environment.step
  <2>1. o \in 0..23 /\ c \in 1..24 /\ s \in Nat \ {0} /\ o < c /\ s <= 60 * (c - o)
    BY EnvironmentIsSound
  <2> HIDE DEF o, c, s
  <2>2. s \in 1..1440
    BY <2>1
  <2> QED
    BY <1>1, <2>2 DEF s
<1> QED
  BY <1>1, <1>2, EnvironmentIsSound DEF GridIInv, GridTypeOK

\* A saved grid is applied when it is sound, and otherwise nothing changes.
LEMMA GridStep == GridIInv /\ [GridNext]_gridVars => GridIInv'
<1> SUFFICES ASSUME GridIInv, [GridNext]_gridVars PROVE GridIInv'
  OBVIOUS
<1>1. ASSUME NEW cfg \in Saved, RefreshApptGrid(cfg) PROVE GridIInv'
  <2>1. UNCHANGED <<weekday, now>> /\ saved' \in Saved \cup {Environment}
    BY <1>1 DEF RefreshApptGrid
  <2>2. CASE grid' = grid
    BY <2>1, <2>2 DEF GridIInv, GridTypeOK
  <2>3. CASE Sane(OrEnvironment(cfg)) /\ grid' = OrEnvironment(cfg)
    <3>1. cfg.step \in Nat
      BY SlotGridAssumption
    <3>2. grid'.step \in Nat \ {0}
      BY <2>3, <3>1, EnvironmentIsSound DEF OrEnvironment
    <3>3. Sane(grid')
      BY <2>3
    <3>4. /\ grid'.open \in 0..23 /\ grid'.close \in 1..24 /\ grid'.open < grid'.close
          /\ grid'.step * 60 <= (grid'.close - grid'.open) * 3600
      BY <3>3 DEF Sane
    <3>5. grid'.step <= 60 * (grid'.close - grid'.open) /\ grid'.step \in 1..1440
      <4> DEFINE o == grid'.open
                 c == grid'.close
                 s == grid'.step
      <4>1. o \in 0..23 /\ c \in 1..24 /\ s \in Nat \ {0} /\ o < c /\ s * 60 <= (c - o) * 3600
        BY <3>2, <3>4
      <4> HIDE DEF o, c, s
      <4>2. s <= 60 * (c - o) /\ s \in 1..1440
        BY <4>1
      <4> QED
        BY <4>2 DEF o, c, s
    <3> QED
      BY <2>1, <3>4, <3>5 DEF GridIInv, GridTypeOK
  <2> QED
    BY <1>1, <2>2, <2>3 DEF RefreshApptGrid
<1>2. CASE ClockMoves
  <2>1. UNCHANGED <<grid, saved>> /\ now' \in Minutes /\ weekday' \in Weekdays
    BY <1>2 DEF ClockMoves, GridIInv, GridTypeOK, Weekdays
  <2> QED
    BY <2>1 DEF GridIInv, GridTypeOK
<1>3. CASE UNCHANGED gridVars
  BY <1>3 DEF gridVars, GridIInv, GridTypeOK
<1> QED
  BY <1>1, <1>2, <1>3 DEF GridNext

\* What a grid is, in numbers.
LEMMA GridNumbers ==
  ASSUME GridIInv
  PROVE  /\ grid.open \in Nat /\ grid.close \in Nat /\ grid.step \in Nat \ {0}
         /\ grid.open < grid.close
<1> DEFINE o == grid.open
           c == grid.close
           s == grid.step
<1>1. o \in 0..23 /\ c \in 1..24 /\ s \in 1..1440 /\ o < c
  BY DEF GridIInv, GridTypeOK
<1> HIDE DEF o, c, s
<1>2. o \in Nat /\ c \in Nat /\ s \in Nat \ {0} /\ o < c
  BY <1>1
<1> QED
  BY <1>2 DEF o, c, s

\* The first slot is always there.
LEMMA SlotsExist == GridIInv => GridNeverEmpty
<1> SUFFICES ASSUME GridIInv PROVE GridNeverEmpty
  OBVIOUS
<1>1. \A o, c \in Nat, s \in Nat \ {0} : o < c => 0 \in 0..((c - o) * 60 - 1) \div s /\ o * 60 + 0 * s = o * 60
  <2> SUFFICES ASSUME NEW o \in Nat, NEW c \in Nat, NEW s \in Nat \ {0}, o < c
               PROVE  0 \in 0..((c - o) * 60 - 1) \div s /\ o * 60 + 0 * s = o * 60
    OBVIOUS
  <2> DEFINE n == (c - o) * 60 - 1
  <2>1. n \in Nat
    OBVIOUS
  <2> HIDE DEF n
  <2>2. n \div s \in Nat
    BY <2>1
  <2>3. 0 * s = 0
    OBVIOUS
  <2> QED
    BY <2>2, <2>3 DEF n
<1>2. 0 \in 0..((grid.close - grid.open) * 60 - 1) \div grid.step
  BY <1>1, GridNumbers
<1> QED
  BY <1>2 DEF GridNeverEmpty, AllSlots

\* A multiple of a step is found by its factor.
LEMMA Factors ==
  ASSUME NEW s \in Nat \ {0}, NEW a \in Int, NEW b \in Int
  PROVE  /\ a * s < b * s <=> a < b
         /\ a * s <= b * s <=> a <= b
  OBVIOUS

\* Rounding takes the nearest multiple.
LEMMA RoundIsNearest ==
  ASSUME NEW s \in Nat \ {0}, NEW total \in Nat
  PROVE  /\ Round(total, s) \in Nat
         /\ \A j \in Int : \/ /\ total - Round(total, s) * s <= total - j * s
                              /\ Round(total, s) * s - total <= total - j * s
                           \/ /\ total - Round(total, s) * s <= j * s - total
                              /\ Round(total, s) * s - total <= j * s - total
<1> DEFINE q == total \div s
           r == total % s
<1>1. q \in Nat /\ r \in 0..(s - 1) /\ total = q * s + r
  OBVIOUS
<1>2. Round(total, s) \in {q, q + 1} /\ (Round(total, s) = q => 2 * r <= s)
      /\ (Round(total, s) = q + 1 => 2 * r >= s)
  BY <1>1 DEF Round
<1> HIDE DEF q, r
<1>3. Round(total, s) \in Nat
  BY <1>1, <1>2
<1>4. (q + 1) * s = q * s + s
  BY <1>1
<1>5. ASSUME NEW j \in Int
      PROVE  \/ /\ total - Round(total, s) * s <= total - j * s
                /\ Round(total, s) * s - total <= total - j * s
             \/ /\ total - Round(total, s) * s <= j * s - total
                /\ Round(total, s) * s - total <= j * s - total
  <2>1. j <= q \/ q + 1 <= j
    BY <1>1
  <2>2. (j <= q => j * s <= q * s) /\ (q + 1 <= j => q * s + s <= j * s)
    BY <1>1, <1>4, Factors
  <2> DEFINE js == j * s
             qs == q * s
  <2>3. js \in Int /\ qs \in Int
    BY <1>1
  <2>4. (j <= q => js <= qs) /\ (q + 1 <= j => qs + s <= js) /\ total = qs + r
    BY <1>1, <2>2
  <2>5. CASE Round(total, s) = q
    <3>1. 2 * r <= s /\ Round(total, s) * s = qs
      BY <1>2, <2>5
    <3> HIDE DEF js, qs
    <3>2. \/ total - qs <= total - js /\ qs - total <= total - js
          \/ total - qs <= js - total /\ qs - total <= js - total
      BY <1>1, <2>1, <2>3, <2>4, <3>1
    <3> QED
      BY <3>1, <3>2 DEF js
  <2>6. CASE Round(total, s) = q + 1
    <3>1. 2 * r >= s /\ Round(total, s) * s = qs + s
      BY <1>2, <1>4, <2>6
    <3> HIDE DEF js, qs
    <3>2. \/ total - (qs + s) <= total - js /\ (qs + s) - total <= total - js
          \/ total - (qs + s) <= js - total /\ (qs + s) - total <= js - total
      BY <1>1, <2>1, <2>3, <2>4, <3>1
    <3> QED
      BY <3>1, <3>2 DEF js
  <2> QED
    BY <1>2, <2>5, <2>6
<1> QED
  BY <1>3, <1>5

\* A multiple rounds to itself.
LEMMA RoundIsExact ==
  ASSUME NEW s \in Nat \ {0}, NEW k \in Nat
  PROVE  Round(k * s, s) = k
<1>1. k * s \in Nat
  OBVIOUS
<1>2. Round(k * s, s) \in Nat
  BY <1>1, RoundIsNearest
<1>3. k * s - Round(k * s, s) * s <= 0 /\ Round(k * s, s) * s - k * s <= 0
  <2> DEFINE t == k * s
  <2>1. \/ t - Round(t, s) * s <= t - k * s /\ Round(t, s) * s - t <= t - k * s
        \/ t - Round(t, s) * s <= k * s - t /\ Round(t, s) * s - t <= k * s - t
    <3>1. k \in Int /\ t \in Nat
      BY <1>1
    <3> HIDE DEF t
    <3> QED
      BY <3>1, RoundIsNearest
  <2> QED
    BY <1>1, <1>2, <2>1
<1>4. k <= Round(k * s, s) /\ Round(k * s, s) <= k
  <2> DEFINE n == Round(k * s, s)
  <2>1. n \in Nat /\ k * s - n * s <= 0 /\ n * s - k * s <= 0
    BY <1>2, <1>3
  <2> HIDE DEF n
  <2>2. k * s <= n * s /\ n * s <= k * s
    BY <2>1
  <2>3. k <= n /\ n <= k
    BY <2>1, <2>2, Factors
  <2> QED
    BY <2>3 DEF n
<1> QED
  BY <1>2, <1>4

\* Slots that divide the hour are the multiples from the opening to the close.
LEMMA EvenSlots ==
  ASSUME GridIInv, Even
  PROVE  \E u \in Nat :
           /\ grid.open * 60 = (grid.open * u) * grid.step
           /\ grid.close * 60 = (grid.close * u) * grid.step
           /\ AllSlots = {k * grid.step : k \in (grid.open * u)..(grid.close * u - 1)}
<1> DEFINE Multiples(x, y, z, u) ==
             /\ x * 60 = (x * u) * z /\ y * 60 = (y * u) * z
             /\ {x * 60 + k * z : k \in 0..((y - x) * 60 - 1) \div z} = {k * z : k \in (x * u)..(y * u - 1)}
<1>1. ASSUME NEW o \in Nat, NEW c \in Nat, NEW s \in Nat \ {0}, o < c, 60 % s = 0
      PROVE  \E u \in Nat : Multiples(o, c, s, u)
  <2> DEFINE u == 60 \div s
  <2>1. u \in Nat /\ 60 = u * s
    BY <1>1
  <2> HIDE DEF u
  <2>2. o * 60 = (o * u) * s /\ c * 60 = (c * u) * s
    BY <2>1
  <2> DEFINE a == o * u
             b == c * u
             n == ((c - o) * 60 - 1) \div s
  <2>3. a \in Nat /\ b \in Nat
    BY <2>1
  <2>4. (c - o) * 60 = (b - a) * s
    BY <2>1
  <2>5. (c - o) * 60 - 1 \in Nat
    BY <1>1
  <2>6. n \in Nat /\ n * s <= (c - o) * 60 - 1 /\ (c - o) * 60 - 1 < (n + 1) * s
    BY <2>5
  <2> HIDE DEF a, b, n
  <2>7. n * s < (b - a) * s /\ (b - a) * s < (n + 1) * s + 1
    BY <2>3, <2>4, <2>6
  <2>8. n = b - a - 1
    <3>1. n < b - a
      BY <2>3, <2>6, <2>7, Factors
    <3>2. (b - a) * s <= (n + 1) * s
      BY <2>3, <2>6, <2>7
    <3>3. b - a <= n + 1
      BY <2>3, <2>6, <3>2, Factors
    <3> QED
      BY <2>3, <2>6, <3>1, <3>3
  <2>9. \A k \in Int : o * 60 + k * s = (a + k) * s
    BY <2>2, <2>3 DEF a
  <2>10. {o * 60 + k * s : k \in 0..n} = {k * s : k \in a..(b - 1)}
    <3>1. ASSUME NEW k \in 0..n PROVE o * 60 + k * s \in {j * s : j \in a..(b - 1)}
      <4>1. a + k \in a..(b - 1)
        BY <2>3, <2>6, <2>8
      <4> QED
        BY <2>9, <4>1
    <3>2. ASSUME NEW k \in a..(b - 1) PROVE k * s \in {o * 60 + j * s : j \in 0..n}
      <4> DEFINE j == k - a
      <4>1. j \in 0..n /\ j \in Int /\ a + j = k
        BY <2>3, <2>6, <2>8
      <4> HIDE DEF j
      <4>2. o * 60 + j * s = k * s
        BY <2>9, <4>1
      <4> QED
        BY <4>1, <4>2
    <3> QED
      BY <3>1, <3>2
  <2> QED
    BY <2>1, <2>2, <2>10 DEF a, b, n
<1>2. 60 % grid.step = 0
  BY DEF Even
<1> DEFINE o == grid.open
           c == grid.close
           s == grid.step
<1>3. o \in Nat /\ c \in Nat /\ s \in Nat \ {0} /\ o < c /\ 60 % s = 0
  BY <1>2, GridNumbers
<1>4. AllSlots = {o * 60 + k * s : k \in 0..((c - o) * 60 - 1) \div s}
  BY DEF AllSlots
<1> HIDE DEF o, c, s
<1> HIDE DEF Multiples
<1>6. PICK u \in Nat : Multiples(o, c, s, u)
  BY <1>1, <1>3
<1>7. /\ o * 60 = (o * u) * s /\ c * 60 = (c * u) * s
      /\ {o * 60 + k * s : k \in 0..((c - o) * 60 - 1) \div s} = {k * s : k \in (o * u)..(c * u - 1)}
  BY <1>6 DEF Multiples
<1> QED
  BY <1>4, <1>7 DEF o, c, s

\* On such a grid a snapped time is a slot, a slot is snapped to itself, and
\* no slot is nearer.
LEMMA SnapLands ==
  ASSUME GridIInv, Even
  PROVE  /\ \A total \in Nat : Snap(total) \in AllSlots \cup {None}
         /\ \A t \in AllSlots : Snap(t) = t
         /\ \A total \in Nat, slot \in AllSlots :
              Snap(total) # None =>
                \/ /\ total - Snap(total) <= total - slot /\ Snap(total) - total <= total - slot
                \/ /\ total - Snap(total) <= slot - total /\ Snap(total) - total <= slot - total
<1> DEFINE s == grid.step
<1>1. PICK u \in Nat :
           /\ grid.open * 60 = (grid.open * u) * s /\ grid.close * 60 = (grid.close * u) * s
           /\ AllSlots = {k * s : k \in (grid.open * u)..(grid.close * u - 1)}
  BY EvenSlots
<1> DEFINE a == grid.open * u
           b == grid.close * u
<1>2. a \in Nat /\ b \in Nat /\ s \in Nat \ {0} /\ grid.open * 60 = a * s /\ LastSlot = (b - 1) * s
      /\ AllSlots = {k * s : k \in a..(b - 1)}
  BY <1>1, GridNumbers DEF LastSlot
<1>3. \A total : Snap(total) = IF Round(total, s) * s < a * s \/ Round(total, s) * s > (b - 1) * s
                               THEN None ELSE Round(total, s) * s
  BY <1>2 DEF Snap
<1> HIDE DEF a, b, s
<1>4. ASSUME NEW n \in Nat PROVE (~(n * s < a * s) /\ ~(n * s > (b - 1) * s)) <=> n \in a..(b - 1)
  <2>1. n * s < a * s <=> n < a
    BY <1>2, Factors
  <2>2. (b - 1) * s < n * s <=> b - 1 < n
    BY <1>2, Factors
  <2> QED
    BY <1>2, <2>1, <2>2
<1>5. ASSUME NEW total \in Nat PROVE Snap(total) \in AllSlots \cup {None}
  <2>1. Round(total, s) \in Nat
    BY <1>2, RoundIsNearest
  <2> QED
    BY <1>2, <1>3, <1>4, <2>1
<1>6. ASSUME NEW t \in AllSlots PROVE Snap(t) = t
  <2>1. PICK k \in a..(b - 1) : t = k * s
    BY <1>2
  <2>2. k \in Nat /\ Round(t, s) = k
    BY <1>2, <2>1, RoundIsExact
  <2> QED
    BY <1>3, <1>4, <2>1, <2>2
<1>7. ASSUME NEW total \in Nat, NEW slot \in AllSlots, Snap(total) # None
      PROVE  \/ /\ total - Snap(total) <= total - slot /\ Snap(total) - total <= total - slot
             \/ /\ total - Snap(total) <= slot - total /\ Snap(total) - total <= slot - total
  <2>1. PICK k \in a..(b - 1) : slot = k * s
    BY <1>2
  <2>2. Snap(total) = Round(total, s) * s
    BY <1>3, <1>7
  <2>3. k \in Int
    BY <1>2, <2>1
  <2> QED
    BY <1>2, <2>1, <2>2, <2>3, RoundIsNearest
<1> QED
  BY <1>5, <1>6, <1>7

\* A spoken time is a minute of a day.
LEMMA AskedAre ==
  ASSUME NEW a \in Asked
  PROVE  a.hh \in Nat /\ a.mm \in Nat
  BY DEF Asked

\* A spoken time, its hint applied, is a minute that is snapped.
LEMMA NormTimeIs ==
  ASSUME NEW hh \in Nat, NEW mm \in Nat, NEW hint
  PROVE  /\ \E total \in Nat : NormTime(hh, mm, hint) = Snap(total)
         /\ hint = "plain" => NormTime(hh, mm, hint) = Snap(hh * 60 + mm)
<1> DEFINE pm == IF "pm" \in Hints[hint] /\ hh < 12 THEN hh + 12 ELSE hh
           am == IF "am" \in Hints[hint] /\ pm = 12 THEN 0 ELSE pm
<1>1. pm \in Nat
  OBVIOUS
<1>2. am \in Nat
  BY <1>1
<1>3. am * 60 + mm \in Nat
  BY <1>2
<1>4. NormTime(hh, mm, hint) = Snap(am * 60 + mm)
  BY DEF NormTime
<1>5. hint = "plain" => am = hh
  BY DEF Hints
<1> HIDE DEF pm, am
<1> QED
  BY <1>3, <1>4, <1>5

\* What is asked for is understood as the nearest slot.
LEMMA AskedLands == GridIInv => UnderstoodIsBookable /\ NearestIsTaken
<1> SUFFICES ASSUME GridIInv, Even
             PROVE  /\ \A a \in Asked : NormTime(a.hh, a.mm, a.hint) \in AllSlots \cup {None}
                    /\ \A t \in AllSlots : Snap(t) = t
                    /\ \A a \in {x \in Asked : x.hint = "plain"} :
                         LET t == NormTime(a.hh, a.mm, "plain")
                             away(s) == IF s >= a.hh * 60 + a.mm THEN s - a.hh * 60 - a.mm
                                        ELSE a.hh * 60 + a.mm - s
                         IN t # None => \A s \in AllSlots : away(t) <= away(s)
  BY DEF UnderstoodIsBookable, NearestIsTaken
<1>1. ASSUME NEW a \in Asked PROVE NormTime(a.hh, a.mm, a.hint) \in AllSlots \cup {None}
  BY AskedAre, NormTimeIs, SnapLands
<1>2. \A t \in AllSlots : Snap(t) = t
  BY SnapLands
<1>3. AllSlots \subseteq Int
  BY GridNumbers DEF AllSlots
<1>4. ASSUME NEW a \in Asked, NEW s \in AllSlots, NormTime(a.hh, a.mm, "plain") # None
      PROVE  LET t == NormTime(a.hh, a.mm, "plain")
                 away(x) == IF x >= a.hh * 60 + a.mm THEN x - a.hh * 60 - a.mm
                            ELSE a.hh * 60 + a.mm - x
             IN away(t) <= away(s)
  <2> DEFINE t == NormTime(a.hh, a.mm, "plain")
             total == a.hh * 60 + a.mm
  <2>1. a.hh \in Nat /\ a.mm \in Nat
    BY AskedAre
  <2>2. total \in Nat /\ t = Snap(total)
    BY <2>1, NormTimeIs
  <2>3. t \in Int /\ s \in Int
    BY <1>3, <1>4, <2>2, SnapLands
  <2>4. \/ total - t <= total - s /\ t - total <= total - s
        \/ total - t <= s - total /\ t - total <= s - total
    BY <1>4, <2>2, SnapLands
  <2> HIDE DEF t
  <2>5. \A h, m, x \in Int : x - h * 60 - m = x - (h * 60 + m)
    OBVIOUS
  <2> QED
    BY <2>1, <2>2, <2>3, <2>4, <2>5 DEF t
<1> QED
  BY <1>1, <1>2, <1>4

\* Names of days and the two days that are no names.
LEMMA DatesAreAhead == GridIInv => DatesLand
<1> SUFFICES ASSUME GridIInv PROVE DatesLand
  OBVIOUS
<1>1. weekday \in 0..6
  BY DEF GridIInv, GridTypeOK, Weekdays
<1>2. ASSUME NEW wd \in 0..6
      PROVE  ResolveDate({}, {wd}) \in 1..7 /\ (weekday + ResolveDate({}, {wd})) % 7 = wd
  <2>1. (CHOOSE x \in {wd} : \A other \in {wd} : x <= other) = wd
    OBVIOUS
  <2>2. ResolveDate({}, {wd}) = Ahead(wd)
    BY <2>1 DEF ResolveDate
  <2>3. Ahead(wd) \in 1..7 /\ (weekday + Ahead(wd)) % 7 = wd
    BY <1>1 DEF Ahead
  <2> QED
    BY <2>2, <2>3
<1>3. ResolveDate({"day after", "tomorrow"}, {}) = 2
  BY DEF ResolveDate
<1> QED
  BY <1>2, <1>3 DEF DatesLand, Weekdays

\* Before the cutoff's clock face wraps, every slot on offer is ahead.
LEMMA OffersAreAhead == GridIInv => PastNotOffered
<1> SUFFICES ASSUME GridIInv, now < 1435 PROVE \A t \in AllSlots : t >= Cutoff => t > now
  BY DEF PastNotOffered, FreeOn
<1>1. now \in 0..1439
  BY SlotGridAssumption DEF GridIInv, GridTypeOK
<1>2. Cutoff = now + 5
  BY <1>1 DEF Cutoff
<1>3. AllSlots \subseteq Int
  BY GridNumbers DEF AllSlots
<1>4. \A t \in Int : t >= Cutoff => t > now
  BY <1>1, <1>2
<1> QED
  BY <1>3, <1>4

\* All of it together.
LEMMA GridHolds == GridIInv => GridInv
  BY SlotsExist, AskedLands, DatesAreAhead, OffersAreAhead DEF GridInv, GridIInv

(* ---- the call ---- *)

\* Whatever moves, each of the three takes a step of its own or none.
LEMMA MovesAreSteps ==
  BookingNext => /\ [SnapshotNext]_snapVars /\ [PromptNext]_promptVars /\ [GridNext]_gridVars
<1> SUFFICES ASSUME BookingNext
             PROVE  [SnapshotNext]_snapVars /\ [PromptNext]_promptVars /\ [GridNext]_gridVars
  OBVIOUS
<1>1. CASE BookMoves
  BY <1>1 DEF BookMoves
<1>2. CASE SnapshotMoves
  BY <1>2 DEF SnapshotMoves
<1>3. CASE PromptMoves
  BY <1>3 DEF PromptMoves
<1>4. CASE GridMoves
  BY <1>4 DEF GridMoves
<1>5. CASE ChatFull
  BY <1>5 DEF ChatFull, bookingVars
<1> QED
  BY <1>1, <1>2, <1>3, <1>4, <1>5 DEF BookingNext

(* The book, the block of live bookings, the prompt and the grid each go   *)
(* the way of their own specification: an appointment call is all four.    *)
THEOREM BookingCallImplementsParts ==
  BookingSpec => /\ Init /\ [][Next]_vars /\ SnapshotSpec /\ GridSpec
                 /\ PromptInit /\ [][PromptNext]_promptVars
<1>1. BookingInit => Init /\ SnapshotInit /\ PromptInit /\ GridInit
  BY DEF BookingInit
<1>2. [BookingNext]_bookingVars => [Next]_vars
  BY DEF BookingNext, BookMoves, SnapshotMoves, PromptMoves, GridMoves, ChatFull, bookingVars
<1>3. [BookingNext]_bookingVars =>
        [SnapshotNext]_snapVars /\ [PromptNext]_promptVars /\ [GridNext]_gridVars
  BY MovesAreSteps DEF bookingVars
<1> QED
  BY <1>1, <1>2, <1>3, PTL DEF BookingSpec, SnapshotSpec, GridSpec

(* What a reply is made from is sound (_appt_snapshot, llm_node,           *)
(* enforce_prompt_budget, norm_time, resolve_date, appt_available_slots):  *)
(* the block of live bookings shows the book as it is, the prompt keeps    *)
(* the persona, the reminders and the end of the conversation within its   *)
(* budget, and what the caller says lands on the grid.                     *)
THEOREM PromptsAreSound == BookingSpec => []PromptSound
<1>1. BookingInit => SnapshotIInv /\ PromptIInv /\ GridIInv
  BY SnapshotStarts, PromptStarts, GridStarts DEF BookingInit
<1>2. SnapshotIInv /\ PromptIInv /\ GridIInv /\ [BookingNext]_bookingVars
        => (SnapshotIInv /\ PromptIInv /\ GridIInv)'
  <2>1. [BookingNext]_bookingVars =>
          [SnapshotNext]_snapVars /\ [PromptNext]_promptVars /\ [GridNext]_gridVars
    BY MovesAreSteps DEF bookingVars
  <2> QED
    BY <2>1, SnapshotStep, PromptStep, GridStep
<1>3. SnapshotIInv /\ PromptIInv /\ GridIInv => PromptSound
  BY SnapshotHolds, PromptHolds, GridHolds DEF PromptSound
<1> QED
  BY <1>1, <1>2, <1>3, PTL DEF BookingSpec
=============================================================================
