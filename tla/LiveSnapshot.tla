---------------------------- MODULE LiveSnapshot ----------------------------
(***************************************************************************)
(* The block of the caller's bookings and the free slots that a call puts  *)
(* before its model on every turn (_appt_live_snapshot of src/agent.py),   *)
(* cached for a few seconds, while the booking tools of the same call      *)
(* change the table and then drop the block.  A drafted reply reads the    *)
(* parts in parallel, each at an instant of its own; two drafts overlap    *)
(* when generation is preemptive.  The table is the number of bookings     *)
(* made; a part that cannot be read is shown as an empty table, 0.         *)
(***************************************************************************)
EXTENDS Naturals

CONSTANTS
  Drafts,          \* llm_node calls under way at a time
  MaxBookings,     \* bound: changes of the table by this call
  MaxReadFaults    \* bound: failed reads

ASSUME SnapshotAssumption == {MaxBookings, MaxReadFaults} \subseteq Nat

VARIABLES
  table,
  tool,          \* a booking tool: "idle", or "booked" before it drops the block
  snap,          \* _appt_snap_text: what each part shows, or NoText
  young,         \* now - _appt_snap_ts < _APPT_SNAP_TTL
  draft,         \* [pc, part, old]; old: begun a TTL ago
  unreliable,    \* history variable: see Behind
  readFaults

snapVars == <<table, tool, snap, young, draft, unreliable, readFaults>>

Parts == {"bookings", "taken", "free"}
Unread == MaxBookings + 1
NoText == [p \in Parts |-> Unread]
Resting == [pc |-> "idle", part |-> NoText, old |-> FALSE]

SnapshotInit ==
  /\ table = 0 /\ tool = "idle" /\ snap = NoText /\ young = FALSE
  /\ draft = [d \in Drafts |-> Resting]
  /\ unreliable = FALSE /\ readFaults = 0

(* A draft that will show another table than the present one. *)
Behind == \E d \in Drafts, p \in Parts : draft[d].part[p] \notin {table, Unread}

(* The text, if it is younger than the TTL: nothing to do.  Otherwise five *)
(* reads are started and gathered.                                         *)
StartReads(d) ==
  /\ draft[d].pc = "idle" /\ ~(young /\ snap # NoText)
  /\ draft' = [draft EXCEPT ![d] = [Resting EXCEPT !.pc = "read"]]
  /\ UNCHANGED <<table, tool, snap, young, unreliable, readFaults>>

\* Mutant of ReadPart: the exception is kept as the part (Unread + 1).
ReadPartRaises(d, p) ==
  /\ draft[d].pc = "read" /\ draft[d].part[p] = Unread
  /\ \/ /\ draft' = [draft EXCEPT ![d].part[p] = table]
        /\ UNCHANGED <<unreliable, readFaults>>
     \/ /\ readFaults < MaxReadFaults /\ readFaults' = readFaults + 1
        /\ draft' = [draft EXCEPT ![d].part[p] = Unread + 1]
        /\ unreliable' = TRUE
  /\ UNCHANGED <<table, tool, snap, young>>

ReadPart(d, p) ==
  /\ draft[d].pc = "read" /\ draft[d].part[p] = Unread
  /\ \/ /\ draft' = [draft EXCEPT ![d].part[p] = table]
        /\ UNCHANGED <<unreliable, readFaults>>
     \/ /\ readFaults < MaxReadFaults /\ readFaults' = readFaults + 1
        /\ draft' = [draft EXCEPT ![d].part[p] = 0]
        /\ unreliable' = TRUE
  /\ UNCHANGED <<table, tool, snap, young>>

(* The text is stored with the time at which the reads began. *)
StoreText(d) ==
  /\ \A p \in Parts : draft[d].part[p] # Unread
  /\ snap' = draft[d].part /\ young' = ~draft[d].old
  /\ draft' = [draft EXCEPT ![d] = Resting]
  /\ UNCHANGED <<table, tool, unreliable, readFaults>>

AgeSnapshot ==
  /\ young' = FALSE
  /\ draft' = [d \in Drafts |-> [draft[d] EXCEPT !.old = draft[d].pc = "read"]]
  /\ UNCHANGED <<table, tool, snap, unreliable, readFaults>>

(* A booking tool: the write, then, when it has returned, the invalidation. *)
Book ==
  /\ tool = "idle" /\ table < MaxBookings
  /\ table' = table + 1 /\ tool' = "booked"
  /\ UNCHANGED <<snap, young, draft, unreliable, readFaults>>

\* Mutant of InvalidateSnapshot: the tool leaves the text to its TTL.
KeepSnapshot ==
  /\ tool = "booked" /\ tool' = "idle" /\ unreliable' = Behind
  /\ UNCHANGED <<table, snap, young, draft, readFaults>>

InvalidateSnapshot ==
  /\ tool = "booked" /\ tool' = "idle"
  /\ snap' = NoText /\ young' = FALSE
  /\ unreliable' = Behind
  /\ UNCHANGED <<table, draft, readFaults>>

SnapshotNext ==
  \/ \E d \in Drafts : StartReads(d) \/ StoreText(d) \/ \E p \in Parts : ReadPart(d, p)
  \/ AgeSnapshot \/ Book \/ InvalidateSnapshot

SnapshotSpec == SnapshotInit /\ [][SnapshotNext]_snapVars

-----------------------------------------------------------------------------

(* The types of the variables. *)
SnapshotTypeOK ==
  /\ table \in 0..MaxBookings /\ tool \in {"idle", "booked"}
  /\ snap \in [Parts -> 0..Unread] /\ young \in BOOLEAN
  /\ draft \in [Drafts -> [pc : {"idle", "read"}, part : [Parts -> 0..Unread], old : BOOLEAN]]
  /\ unreliable \in BOOLEAN /\ readFaults \in Nat

(* Whatever the drafts read and in whichever order, every part of a block  *)
(* that is served shows the table as the tools have left it, unless a read *)
(* failed or a draft had read an older table when the block was dropped.   *)
SnapshotCurrent ==
  young /\ snap # NoText /\ tool = "idle" /\ ~unreliable => \A p \in Parts : snap[p] = table

(* What the model reads of the book: the block is well-formed and current. *)
SnapshotInv == SnapshotTypeOK /\ SnapshotCurrent

(* Docstring of _invalidate_appt_snapshot: called "so the agent cannot     *)
(* keep referring to stale 'free' counts".                                 *)
BookingShown ==
  young /\ snap # NoText /\ tool = "idle" /\ readFaults = 0 => \A p \in Parts : snap[p] = table
=============================================================================
