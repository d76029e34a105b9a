----------------------------- MODULE CallEdgesMC -----------------------------
(***************************************************************************)
(* How a call begins and how it ends, in one instance for TLC: the agent's *)
(* start up to its first words, the detection of the caller's gender that  *)
(* runs from the first audio on, and the drops and the hangup.  A          *)
(* behaviour moves one of them, chosen at the start, and the others stay   *)
(* where they begin.                                                       *)
(***************************************************************************)
EXTENDS CallEnding, CallStart, CallerGender

VARIABLE part   \* the component that moves

edgeVars == <<part, vars, startVars, genderVars>>

EdgeInit ==
  /\ part \in {"ending", "start", "gender"}
  /\ Init /\ StartInit /\ GenderInit
  /\ part # "start" => meta = [c \in Starts |-> CHOOSE m \in Metas : TRUE]

EndingMoves == part = "ending" /\ Next /\ UNCHANGED <<part, startVars, genderVars>>
StartMoves == part = "start" /\ StartNext /\ UNCHANGED <<part, vars, genderVars>>
GenderMoves == part = "gender" /\ GenderNext /\ UNCHANGED <<part, vars, startVars>>

EdgeNext == EndingMoves \/ StartMoves \/ GenderMoves

EdgeSpec ==
  /\ EdgeInit /\ [][EdgeNext]_edgeVars
  /\ WF_vars(part = "ending" /\ Tick) /\ WF_vars(part = "ending" /\ GraceExpires)
  /\ WF_vars(part = "ending" /\ (DeleteRoom \/ DeleteFails))
  /\ \A c \in Starts : /\ WF_startVars(part = "start" /\ Entrypoint(c))
                       /\ WF_startVars(part = "start" /\ Prebake(c))
  /\ WF_genderVars(part = "gender" /\ \E b \in Voices : Frame(b))

-----------------------------------------------------------------------------

\* What calls are told: a campaign whose greeting is only the name, without
\* and with a name to put there, and an inbound call.
Told(direction, script, name, language, greeting) ==
  [direction |-> direction, script |-> script, name |-> name, language |-> language,
   greeting |-> greeting]

StartMetas ==
  {Told("outbound", "A", "", "te", "name only"),
   Told("outbound", "A", "Nagasai", "te", "tagged"),
   Told("inbound", "", "", "", "none")}

(* The edges of a call: its start, the caller's gender, its end. *)
EdgesInv == TypeOK /\ StartInv /\ GenderTypeOK
=============================================================================
