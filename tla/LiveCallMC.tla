----------------------------- MODULE LiveCallMC -----------------------------
(***************************************************************************)
(* A call under way, in one instance for TLC: the floor (the FSM, barge-in *)
(* and the prefetch), the routing of the caller's turns, the hearing of    *)
(* the two sides, the stabiliser of partial transcripts, the voice and its *)
(* phrase cache, and one reply of the language model.  Each model has its  *)
(* own view of the caller and the session.  A behaviour moves one          *)
(* component, chosen at the start, and the others stay where they begin.   *)
(***************************************************************************)
EXTENDS ConversationMC, TurnRouting, Hearing, Stabiliser, Voice, LlmTurn

VARIABLE part   \* the component that moves

liveVars == <<part, vars, routingVars, hearingVars, stabVars, voiceVars, turnVars>>

LiveInit ==
  /\ part \in {"floor", "routing", "hearing", "stabiliser", "voice", "reply"}
  /\ Init /\ RoutingInit /\ HearingInit /\ StabInit /\ VoiceInit /\ TurnInit
  /\ part # "routing" => memoryLang = <<"en">>
  /\ part # "voice" => model = "bulbul:v3-beta" /\ spokenLang = HomeLanguage
  /\ part # "reply" => reply = "single" /\ backends = {}

FloorMoves ==
  part = "floor" /\ Next /\ UNCHANGED <<part, routingVars, hearingVars, stabVars, voiceVars, turnVars>>

RoutingMoves ==
  part = "routing" /\ RoutingNext /\ UNCHANGED <<part, vars, hearingVars, stabVars, voiceVars, turnVars>>

HearingMoves ==
  part = "hearing" /\ HearingNext /\ UNCHANGED <<part, vars, routingVars, stabVars, voiceVars, turnVars>>

StabiliserMoves ==
  part = "stabiliser" /\ StabNext /\ UNCHANGED <<part, vars, routingVars, hearingVars, voiceVars, turnVars>>

VoiceMoves ==
  part = "voice" /\ VoiceNext /\ UNCHANGED <<part, vars, routingVars, hearingVars, stabVars, turnVars>>

ReplyMoves ==
  part = "reply" /\ TurnNext /\ UNCHANGED <<part, vars, routingVars, hearingVars, stabVars, voiceVars>>

(* A call that is closing routes no turn, and a reply ends: nothing else   *)
(* may stop.                                                               *)
Rests ==
  /\ part \in {"routing", "reply"}
  /\ part = "routing" => closing
  /\ part = "reply" => reply = "over"
  /\ UNCHANGED liveVars

LiveNext ==
  FloorMoves \/ RoutingMoves \/ HearingMoves \/ StabiliserMoves \/ VoiceMoves \/ ReplyMoves \/ Rests

(* The turn handler's waits are timed, a race goes on to its end and a     *)
(* cancelled pull is collected by the event loop.                          *)
LiveSpec ==
  /\ LiveInit /\ [][LiveNext]_liveVars
  /\ WF_vars(part = "floor" /\ Waited) /\ WF_vars(part = "floor" /\ Routed)
  /\ WF_turnVars(part = "reply" /\ RaceStep)
  /\ \A s \in Streams : WF_turnVars(part = "reply" /\ CancelLands(s))

-----------------------------------------------------------------------------

\* Utterances as the words the lists know: alone, and in the combinations in
\* which one list's word hides another's.
Utterances ==
  {{"noise"}, {"ok"}, {"haa-te"}, {"haan-hi"}, {"thanks"}, {"again"}, {"ok", "haan", "bye"},
   {"ok", "thanks", "what", "bye"}, {"order", "bye"}, {"order"}, {"ela"}, {"samay-hi", "thanks"},
   {"haa-te", "what", "procedure"}, {"haan", "what", "procedure"}, {"what", "procedure", "bye"},
   {"sthalam-te", "doctor-te", "eppudu-te", "thanks"}}

\* The sizes of the canned pools, by language.
Pools ==
  [thanks |-> [te |-> 4, hi |-> 2, en |-> 2], bye |-> [te |-> 2, hi |-> 2, en |-> 2],
   repeat |-> [te |-> 2, hi |-> 2, en |-> 2]]

\* What dashboards may name: a speaker of each model, one of the other model,
\* and one that no model has.
Board(m, te, en) == [model |-> m, speakers |-> [te |-> te, hi |-> te, en |-> en]]
Boards ==
  {Board("bulbul:v2", "anushka", "arya"), Board("bulbul:v2", "ritu", "anushka"),
   Board("bulbul:v3-beta", "kavya", "gone")}

(* What becomes of the caller's turns, on the floor and in the router. *)
TurnsRouted == TypeOK /\ RoutingInv

(* The sound of the call: what the agent hears, through the echo guard and *)
(* the stabiliser, and the voice it speaks with.                           *)
SoundInv == HearingInv /\ StabInv /\ VoiceInv
=============================================================================
