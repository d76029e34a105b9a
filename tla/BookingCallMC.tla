---------------------------- MODULE BookingCallMC ----------------------------
(***************************************************************************)
(* What an appointment call stands on, in one instance for TLC: the book   *)
(* under every fault, the block of live bookings in the prompt, the prompt *)
(* and the tool it forces, and the grid of slots that spoken dates and     *)
(* times are put on.  The book answers the tools; the other three only     *)
(* read it, in models of their own.  A behaviour moves one component,      *)
(* chosen at the start, and the others stay where they begin.              *)
(***************************************************************************)
EXTENDS AppointmentsMC, LiveSnapshot, PromptAssembly, SlotGrid

VARIABLE part   \* the component that moves

bookingVars == <<part, vars, snapVars, promptVars, gridVars>>

BookingInit ==
  /\ part \in {"book", "snapshot", "prompt", "grid"}
  /\ Init /\ SnapshotInit /\ PromptInit /\ GridInit
  /\ part # "prompt" => rows = 0
  /\ part # "grid" => now = 0 /\ weekday = 0

BookMoves == part = "book" /\ Next /\ UNCHANGED <<part, snapVars, promptVars, gridVars>>

SnapshotMoves ==
  part = "snapshot" /\ SnapshotNext /\ UNCHANGED <<part, vars, promptVars, gridVars>>

PromptMoves ==
  part = "prompt" /\ PromptNext /\ UNCHANGED <<part, vars, snapVars, gridVars>>

GridMoves == part = "grid" /\ GridNext /\ UNCHANGED <<part, vars, snapVars, promptVars>>

(* The bound of the chat; nothing else may stop. *)
ChatFull == part = "prompt" /\ ~replying /\ Len(chat) >= MaxChat /\ UNCHANGED bookingVars

BookingNext == BookMoves \/ SnapshotMoves \/ PromptMoves \/ GridMoves \/ ChatFull

BookingSpec ==
  /\ BookingInit /\ [][BookingNext]_bookingVars
  /\ \A c \in Calls : WF_vars(part = "book" /\ CallStep(c))
  /\ \A c \in Desk : WF_vars(part = "book" /\ DeskStep(c))

-----------------------------------------------------------------------------

Grid(open, close, step, days) == [open |-> open, close |-> close, step |-> step, days |-> days]

\* Nine to six, half an hour, Monday to Saturday: the defaults of settings.
OfficeHours == Grid(9, 18, 30, 0..5)

\* What the dashboard lets through: longer and shorter days and slots, an
\* opening at midnight, which reads as not set, one with the slots and the days
\* left unset, and two the agent refuses.
SavedGrids ==
  {OfficeHours, Grid(10, 20, 15, 0..6), Grid(8, 9, 60, {6}), Grid(0, 6, 20, 0..6),
   Grid(10, 20, 0, {}), Grid(18, 9, 30, {1}), Grid(9, 10, 90, {1})}

\* The above, with steps that do not divide the hour and a day that is none.
OddGrids == SavedGrids \cup {Grid(9, 18, 45, 0..5), Grid(9, 18, 50, 0..5), Grid(9, 18, 30, {7})}

\* Midnight, opening time, just before a slot, and the last minutes of a day.
ClockFaces == {0, 540, 565, 1434, 1436}

(* What a reply is made from: the block of live bookings, the trimmed      *)
(* prompt, and the grid that spoken dates and times are understood on.     *)
PromptSound == SnapshotInv /\ PromptInv /\ GridInv
=============================================================================
