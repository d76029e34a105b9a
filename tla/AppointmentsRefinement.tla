------------------------ MODULE AppointmentsRefinement ------------------------
(***************************************************************************)
(* The appointment book implements the ledger, as long as the unique index *)
(* exists and no acknowledgement of a committed write is lost.             *)
(***************************************************************************)
EXTENDS Appointments

CONSTANT Free  \* a slot nobody holds

ASSUME FreeAssumption == Free \notin Phones \cup {NoPhone}

\* The holder of a slot is the number on its booked row.
HoldsIn(table, r, s) == table[r].status = "booked" /\ table[r].slot = s

HolderIn(table) ==
  [s \in Slots |->
     IF \E r \in RowIds : HoldsIn(table, r, s)
     THEN table[CHOOSE r \in RowIds : HoldsIn(table, r, s)].phone
     ELSE Free]

Holder == HolderIn(row)

Ledger == INSTANCE BookingLedger
  WITH Owners <- Phones \cup {NoPhone}, holder <- Holder

\* Every step of the book is a step of the ledger or none: however calls
\* and dashboard interleave, each request is one indivisible exchange with
\* at most one holder per slot, and its reply tells what it did.
LedgerSpec == Ledger!Spec
=============================================================================
