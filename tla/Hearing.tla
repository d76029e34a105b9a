------------------------------ MODULE Hearing ------------------------------
(***************************************************************************)
(* What of the caller's voice becomes a turn: EchoGuard and AdaptiveBuffer *)
(* of src/audio.py, the handlers of src/agent.py and resilience.py that    *)
(* feed them, and the listening acks of src/backchannel.py.  Time passes   *)
(* in ticks and only ages are kept.  The session (LiveKit, external) tells *)
(* when the agent speaks and stops, and adds a reply to the conversation   *)
(* when its audio ends.                                                    *)
(***************************************************************************)
EXTENDS Naturals, Sequences

CONSTANTS
  Lines,        \* what the agent can say
  RecentLimit,  \* _RECENT_TTS_LIMIT
  EchoWindow,   \* _POST_STOP_ECHO_WINDOW, in ticks
  HalfTtl,      \* _HALF_DUPLEX_TTL, in ticks
  AckAfter,     \* backchannel_min_seconds, in ticks
  AckCooldown,  \* backchannel_cooldown_seconds, in ticks
  MaxSaid       \* a bound: lines the session holds at once, not yet played

(* Ages are told apart up to the longest limit. *)
ASSUME HearingAssumption ==
  /\ {RecentLimit, HalfTtl, MaxSaid} \subseteq Nat \ {0}
  /\ {EchoWindow, AckAfter, AckCooldown} \subseteq 0..HalfTtl
  /\ {"none", "reply"} \cap Lines = {}

VARIABLES
  speaking,   \* EchoGuard._agent_speaking
  recent,     \* EchoGuard._recent_tts; its last element is _last_tts
  stopAge,    \* ticks since _stopped_at
  echoHits,   \* EchoGuard._echo_hits, 2 standing for more
  halfDuplex, \* EchoGuard.half_duplex
  echoAge,    \* ticks since _last_echo_ts
  said,       \* lines handed over to the session and not played, in order
  playing,    \* the line on air, "none" or "reply" for an LLM reply
  uttAge,     \* ticks since the utterance's first interim transcript
  acked,      \* Backchanneler._fired_this_utt
  ackAge,     \* ticks since _last_ack_at
  acks,       \* history variable: acks in this utterance
  troubleAge, \* history variable: ticks since an echo or a bad link
  linkAge     \* history variable: ticks since a bad link

echoVars == <<speaking, recent, stopAge, echoHits, halfDuplex, echoAge>>
ackVars == <<uttAge, acked, ackAge, acks>>
hearingVars == <<echoVars, said, playing, ackVars, troubleAge, linkAge>>

Long == HalfTtl + 1   \* an age past every limit
Older(age) == IF age < Long THEN age + 1 ELSE Long

(* A transcript: the caller's words, an ack of his, a short answer that is *)
(* part of an agent's line, or the echo of a line.                         *)
Transcripts ==
  [kind : {"content", "ack"}, line : {"none"}]
  \cup [kind : {"answer", "echo"}, line : Lines \cup {"reply"}]

HearingInit ==
  /\ speaking = FALSE /\ recent = <<>> /\ stopAge = Long
  /\ echoHits = 0 /\ halfDuplex = FALSE /\ echoAge = Long
  /\ said = <<>> /\ playing = "none"
  /\ uttAge = Long /\ acked = FALSE /\ ackAge = Long /\ acks = 0
  /\ troubleAge = Long /\ linkAge = Long

(* ---- the agent's side ---- *)

\* Mutant of Remember: no line is forgotten.
RememberAll(line) == Append(recent, line)

Remember(line) ==
  LET all == Append(recent, line)
  IN IF Len(all) > RecentLimit THEN Tail(all) ELSE all

OnAgentStarted(line) == speaking' = TRUE /\ recent' = Remember(line)

(* _say tells the guard before it hands the line to the session, which     *)
(* queues it, whatever it plays.                                           *)
HandOver(line) ==
  Len(said) < MaxSaid /\ OnAgentStarted(line) /\ said' = Append(said, line)

Say(line) ==
  /\ HandOver(line)
  /\ UNCHANGED <<stopAge, echoHits, halfDuplex, echoAge, playing, ackVars, troubleAge, linkAge>>

(* An interruption drops lines before their audio: no state changes and    *)
(* the guard is told nothing.                                              *)
DropLine ==
  /\ said # <<>>
  /\ said' \in {<<>>, Tail(said)}
  /\ UNCHANGED <<echoVars, playing, ackVars, troubleAge, linkAge>>

(* The session speaks its oldest line, or a reply of the model, whose text *)
(* the guard is not given.                                                 *)
AgentSpeaks ==
  /\ playing = "none"
  /\ \/ playing' = "reply" /\ UNCHANGED said
     \/ said # <<>> /\ playing' = Head(said) /\ said' = Tail(said)
  /\ speaking' = TRUE
  /\ UNCHANGED <<recent, stopAge, echoHits, halfDuplex, echoAge, ackVars, troubleAge, linkAge>>

(* The item is added, then the session listens again. *)
AgentListens ==
  /\ playing # "none"
  /\ playing' = "none"
  /\ speaking' = FALSE /\ recent' = Remember(playing) /\ stopAge' = 0
  /\ UNCHANGED <<echoHits, halfDuplex, echoAge, said, ackVars, troubleAge, linkAge>>

(* A reply that ends in a tool call leaves the session thinking: neither   *)
(* speaking nor stopped for the guard.                                     *)
AgentThinks ==
  /\ playing = "reply"
  /\ playing' = "none" /\ recent' = Remember("reply") /\ speaking' = TRUE
  /\ UNCHANGED <<stopAge, echoHits, halfDuplex, echoAge, said, ackVars, troubleAge, linkAge>>

(* ---- the caller's side ---- *)

\* Mutant of Recovers: half-duplex latches.
NeverRecovers == FALSE

Recovers == halfDuplex /\ echoAge > HalfTtl

Matches(t) == \E i \in DOMAIN recent : recent[i] = t.line

\* Mutant of InPostStop: no window after the agent's last word.
NoPostStop == FALSE

InPostStop == ~speaking /\ stopAge <= EchoWindow

Echoes(t) == Matches(t) /\ (InPostStop \/ speaking)

(* is_echo's verdict: an echo is dropped; while the agent speaks, so are   *)
(* acks and, in half-duplex, all else.                                     *)
Dropped(t) ==
  Echoes(t) \/ (speaking /\ (t.kind = "ack" \/ (halfDuplex /\ ~Recovers)))

(* What it leaves: an echo counts as a hit, and two of them while the      *)
(* agent speaks turn half-duplex on.                                       *)
IsEcho(t) ==
  LET hits == IF Recovers THEN 0 ELSE echoHits
      more == IF hits = 2 THEN 2 ELSE hits + 1
      half == halfDuplex /\ ~Recovers
  IN IF Echoes(t)
     THEN /\ echoHits' = more /\ echoAge' = 0 /\ troubleAge' = 0
          /\ halfDuplex' = (half \/ (speaking /\ more = 2))
     ELSE /\ echoHits' = hits /\ halfDuplex' = half
          /\ UNCHANGED <<echoAge, troubleAge>>

(* A final transcript: the utterance is over, the turn's hook asks the     *)
(* guard.                                                                  *)
CallerTurn(t) ==
  /\ IsEcho(t)
  /\ uttAge' = Long /\ acked' = FALSE /\ acks' = 0
  /\ UNCHANGED <<speaking, recent, stopAge, said, playing, ackAge, linkAge>>

\* Mutant of ForceHalfDuplex: the flag without the stamp.
ForceUnstamped == halfDuplex' = TRUE /\ UNCHANGED echoAge

(* A poor or lost link forces half-duplex, and stamps it. *)
ForceHalfDuplex == halfDuplex' = TRUE /\ echoAge' = 0

LinkDegrades ==
  /\ ForceHalfDuplex
  /\ troubleAge' = 0 /\ linkAge' = 0
  /\ UNCHANGED <<speaking, recent, stopAge, echoHits, said, playing, ackVars>>

\* Mutant of ShouldAck: the utterance's own flag is not looked at.
ShouldAckAgain == uttAge >= AckAfter /\ uttAge < Long /\ ackAge >= AckCooldown

(* should_ack: once per utterance, into it far enough, after the cooldown. *)
ShouldAck == ~acked /\ uttAge >= AckAfter /\ uttAge < Long /\ ackAge >= AckCooldown

(* An interim transcript of a long utterance, while nothing is on air; the *)
(* ack goes to the guard, then to the session.                             *)
InterimTranscript(line) ==
  /\ playing = "none"
  /\ IF ShouldAck
     THEN /\ acked' = TRUE /\ ackAge' = 0 /\ acks' = acks + 1
          /\ HandOver(line) /\ UNCHANGED uttAge
     ELSE /\ uttAge' = (IF uttAge = Long THEN 0 ELSE uttAge)
          /\ UNCHANGED <<acked, ackAge, acks, said, speaking, recent>>
  /\ UNCHANGED <<stopAge, echoHits, halfDuplex, echoAge, playing, troubleAge, linkAge>>

(* An utterance lasts less than Long. *)
HearingTick ==
  /\ uttAge < Long => uttAge + 1 < Long
  /\ stopAge' = Older(stopAge) /\ echoAge' = Older(echoAge) /\ ackAge' = Older(ackAge)
  /\ uttAge' = Older(uttAge)
  /\ troubleAge' = Older(troubleAge) /\ linkAge' = Older(linkAge)
  /\ UNCHANGED <<speaking, recent, echoHits, halfDuplex, said, playing, acked, acks>>

HearingNext ==
  \/ \E line \in Lines : Say(line) \/ InterimTranscript(line)
  \/ DropLine \/ AgentSpeaks \/ AgentListens \/ AgentThinks \/ LinkDegrades \/ HearingTick
  \/ \E t \in Transcripts : CallerTurn(t)

HearingSpec == HearingInit /\ [][HearingNext]_hearingVars

-----------------------------------------------------------------------------

(* The types of the variables. *)
HearingTypeOK ==
  /\ speaking \in BOOLEAN /\ halfDuplex \in BOOLEAN /\ acked \in BOOLEAN
  /\ recent \in Seq(Lines \cup {"reply"}) /\ Len(recent) <= RecentLimit
  /\ {stopAge, echoAge, uttAge, ackAge, troubleAge, linkAge} \subseteq 0..Long
  /\ echoHits \in 0..2 /\ acks \in Nat
  /\ said \in Seq(Lines) /\ Len(said) <= MaxSaid
  /\ playing \in Lines \cup {"none", "reply"}

Words == {t \in Transcripts : t.kind = "content"}

(* "it used to latch forever": words of the caller that match nothing the  *)
(* agent said would be dropped only within HalfTtl of an echo or a bad     *)
(* link.                                                                   *)
CallerHeardAgain == troubleAge > HalfTtl => \A t \in Words : ~Dropped(t)

(* "the protection was a no-op": for HalfTtl after a bad link what comes   *)
(* in while the agent is on air is dropped, whatever came in between.      *)
LinkProtects == playing # "none" /\ linkAge <= HalfTtl => \A t \in Words : Dropped(t)

(* A line of _say that is still remembered never comes back as a turn of   *)
(* the caller while it is on air or up to EchoWindow after the agent's     *)
(* last word: "4 acks back-to-back".                                       *)
EchoOfLineDropped ==
  \A t \in Transcripts :
    t.kind = "echo" /\ Matches(t) /\ (playing = t.line \/ stopAge <= EchoWindow) => Dropped(t)

(* The caller hears at most one ack while he speaks, however long and with *)
(* whatever pauses (Backchanneler).                                        *)
OneAckPerUtterance == acks <= 1

(* The caller's words come through and the agent's own do not. *)
HearingInv ==
  /\ HearingTypeOK /\ CallerHeardAgain /\ LinkProtects /\ EchoOfLineDropped
  /\ OneAckPerUtterance

(* Violated.  "feed the echo guard EVERY agent utterance": the text of a   *)
(* reply reaches it when the audio is over.                                *)
EchoOfReplyDropped ==
  \A t \in Transcripts : t.kind = "echo" /\ playing = t.line => Dropped(t)

(* Violated.  An agent that is silent, and has been for EchoWindow, takes  *)
(* every ack: a line dropped before its audio leaves the guard speaking.   *)
SilentAgentHears ==
  playing = "none" /\ said = <<>> /\ stopAge > EchoWindow =>
    \A t \in Transcripts : t.kind = "ack" => ~Dropped(t)

(* Violated.  "never a bare number or a legit short answer". *)
ShortAnswersHeard == \A t \in Transcripts : t.kind = "answer" => ~Dropped(t)
=============================================================================
