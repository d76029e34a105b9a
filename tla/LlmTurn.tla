------------------------------ MODULE LlmTurn ------------------------------
(***************************************************************************)
(* One reply of the language model: the race of identical streams          *)
(* (src/llm_race.py), the single stream it falls back to, and the          *)
(* cross-provider fallback behind that (src/agent.py).  Of a stream the    *)
(* model keeps whether it is waiting for its first chunk, has it, or is    *)
(* over; a barge-in may cancel the reply at every await.                   *)
(***************************************************************************)
EXTENDS Naturals, FiniteSets

CONSTANT Racers   \* the llm_race_count identical streams

ASSUME RacersAssumption ==
  /\ Cardinality(Racers) > 1
  /\ Racers \cap {"none", "primary", "gemini", "grok"} = {}

VARIABLES
  stream,      \* "new", "pulling", "ready", "empty", "failed", "cancelling", "closed"
  reply,       \* where the reply is
  waiting,     \* tasks: the racers whose first pull is not yet looked at
  losers,     \* those of this wake-up that are not yet closed
  winner,
  spoken,      \* the streams whose chunks were yielded
  backends,    \* the fallbacks that could be built
  cancelled

turnVars == <<stream, reply, waiting, losers, winner, spoken, backends, cancelled>>

Fallbacks == {"gemini", "grok"}
Streams == Racers \cup {"primary"} \cup Fallbacks
Open == {"pulling", "ready"}

(* llm_race_count > 1 starts a race, otherwise the single stream runs. *)
TurnInit ==
  /\ \/ reply = "wait" /\ waiting = Racers
     \/ reply = "single" /\ waiting = {}
  /\ stream = [s \in Streams |->
       IF s \in waiting \/ (reply = "single" /\ s = "primary") THEN "pulling" ELSE "new"]
  /\ losers = {} /\ winner = "none" /\ spoken = {}
  /\ backends \in SUBSET Fallbacks
  /\ cancelled = FALSE

(* ---- the streams ---- *)

(* _first_item: a chunk, an empty end or an error. *)
FirstItem(s) ==
  /\ stream[s] = "pulling"
  /\ \E got \in {"ready", "empty", "failed"} : stream' = [stream EXCEPT ![s] = got]
  /\ UNCHANGED <<reply, waiting, losers, winner, spoken, backends, cancelled>>

(* A cancelled pull ends its generator on the next turn of the loop. *)
CancelLands(s) ==
  /\ stream[s] = "cancelling" /\ stream' = [stream EXCEPT ![s] = "closed"]
  /\ UNCHANGED <<reply, waiting, losers, winner, spoken, backends, cancelled>>

\* Mutant of Closed: aclose alone, which a pulling generator refuses.
ClosedIfPaused(s) == [stream EXCEPT ![s] = IF @ = "ready" THEN "closed" ELSE @]

(* t.cancel() and _safe_aclose: aclose raises on a generator that is still *)
(* pulling, where the cancellation does the work, and closes a paused one. *)
Closed(s) ==
  [stream EXCEPT ![s] = CASE @ = "pulling" -> "cancelling"
                          [] @ = "ready" -> "closed"
                          [] OTHER -> @]

(* ---- race_async_gens ---- *)

Done == {s \in waiting : stream[s] # "pulling"}

(* asyncio.wait returns; a set is iterated in any order, so any finished   *)
(* stream with a chunk may win.                                            *)
Wake ==
  /\ reply = "wait" /\ Done # {}
  /\ LET ready == {s \in Done : stream[s] = "ready"} IN
       winner' \in IF ready = {} THEN {"none"} ELSE ready
  /\ waiting' = waiting \ Done /\ losers' = Done \ {winner'}
  /\ reply' = "close"
  /\ UNCHANGED <<stream, spoken, backends, cancelled>>

CloseLoser(s) ==
  /\ reply = "close" /\ s \in losers
  /\ stream' = Closed(s) /\ losers' = losers \ {s}
  /\ UNCHANGED <<reply, waiting, winner, spoken, backends, cancelled>>

(* Nobody produced anything: llm_node runs the single stream. *)
NextWait ==
  /\ reply = "close" /\ losers = {}
  /\ reply' = CASE winner # "none" -> "drop"
                [] winner = "none" /\ waiting # {} -> "wait"
                [] OTHER -> "single"
  /\ stream' = IF reply' = "single" THEN [stream EXCEPT !["primary"] = "pulling"] ELSE stream
  /\ UNCHANGED <<waiting, losers, winner, spoken, backends, cancelled>>

DropLoser(s) ==
  /\ reply = "drop" /\ s \in waiting
  /\ stream' = Closed(s) /\ waiting' = waiting \ {s}
  /\ UNCHANGED <<reply, losers, winner, spoken, backends, cancelled>>

YieldFirst ==
  /\ reply = "drop" /\ waiting = {}
  /\ reply' = "stream" /\ spoken' = spoken \cup {winner}
  /\ UNCHANGED <<stream, waiting, losers, winner, backends, cancelled>>

\* Mutant of WinnerEnds: an error in mid-stream runs the single stream.
WinnerFallsBack ==
  /\ reply = "stream"
  /\ \/ reply' = "over" /\ stream' = [stream EXCEPT ![winner] = "empty"]
     \/ reply' = "single" /\ stream' = [stream EXCEPT ![winner] = "failed", !["primary"] = "pulling"]
  /\ UNCHANGED <<waiting, losers, winner, spoken, backends, cancelled>>

(* The winner is read to its end, or to an error that ends the reply. *)
WinnerEnds ==
  /\ reply = "stream" /\ reply' = "over"
  /\ \E end \in {"empty", "failed"} : stream' = [stream EXCEPT ![winner] = end]
  /\ UNCHANGED <<waiting, losers, winner, spoken, backends, cancelled>>

(* The finally clause. *)
Finally(s) ==
  /\ reply = "finally" /\ s \in waiting \cup losers \cup ({winner} \ {"none"})
  /\ stream' = Closed(s)
  /\ waiting' = waiting \ {s} /\ losers' = losers \ {s}
  /\ winner' = IF s = winner THEN "none" ELSE winner
  /\ UNCHANGED <<reply, spoken, backends, cancelled>>

RaceReturns ==
  /\ reply = "finally" /\ waiting \cup losers = {} /\ winner = "none"
  /\ reply' = "over"
  /\ UNCHANGED <<stream, waiting, losers, winner, spoken, backends, cancelled>>

(* ---- _llm_stream_with_fallback ---- *)

(* The stream that runs alone, and the one tried when it fails without a   *)
(* chunk: the adapter over both backends, or the one that could be built.  *)
Alone(s) == reply = (IF s = "primary" THEN "single" ELSE s)

\* Mutant of NextBackend: the second backend is not behind the first.
OneBackend(s) ==
  CASE s = "primary" /\ "gemini" \in backends -> "gemini"
    [] s = "primary" /\ "gemini" \notin backends /\ "grok" \in backends -> "grok"
    [] OTHER -> "over"

\* Mutant of NextBackend: with nothing behind it the primary is asked again.
PrimaryAgain(s) ==
  IF s = "primary" /\ "gemini" \in backends THEN "gemini"
  ELSE IF s # "grok" /\ "grok" \in backends THEN "grok" ELSE "primary"

NextBackend(s) ==
  IF s = "primary" /\ "gemini" \in backends THEN "gemini"
  ELSE IF s # "grok" /\ "grok" \in backends THEN "grok" ELSE "over"

AloneSpeaks(s) ==
  /\ Alone(s) /\ stream[s] = "ready" /\ spoken' = spoken \cup {s}
  /\ UNCHANGED <<stream, reply, waiting, losers, winner, backends, cancelled>>

AloneEnds(s) ==
  /\ Alone(s) /\ stream[s] = "ready" /\ s \in spoken
  /\ \E end \in {"empty", "failed"} : stream' = [stream EXCEPT ![s] = end]
  /\ reply' = "over"
  /\ UNCHANGED <<waiting, losers, winner, spoken, backends, cancelled>>

AloneEmpty(s) ==
  /\ Alone(s) /\ stream[s] = "empty" /\ reply' = "over"
  /\ UNCHANGED <<stream, waiting, losers, winner, spoken, backends, cancelled>>

AloneFails(s) ==
  /\ Alone(s) /\ stream[s] = "failed"
  /\ reply' = NextBackend(s)
  /\ stream' = IF NextBackend(s) = "over" THEN stream ELSE [stream EXCEPT ![NextBackend(s)] = "pulling"]
  /\ UNCHANGED <<waiting, losers, winner, spoken, backends, cancelled>>

\* Mutant of Cancel: a stream that runs alone is not closed.
CancelUnclosed ==
  /\ cancelled' = TRUE
  /\ \/ reply \in {"wait", "close", "drop", "stream"} /\ reply' = "finally"
     \/ (\E s \in {"primary"} \cup Fallbacks : Alone(s)) /\ reply' = "over"
  /\ UNCHANGED <<stream, waiting, losers, winner, spoken, backends>>

(* The session cancels the reply, or drops its generator. *)
Cancel ==
  /\ cancelled' = TRUE
  /\ \/ /\ reply \in {"wait", "close", "drop", "stream"}
        /\ reply' = "finally" /\ UNCHANGED stream
     \/ \E s \in {"primary"} \cup Fallbacks :
          Alone(s) /\ reply' = "over" /\ stream' = Closed(s)
  /\ UNCHANGED <<waiting, losers, winner, spoken, backends>>

RaceStep ==
  \/ Wake \/ NextWait \/ YieldFirst \/ WinnerEnds \/ RaceReturns
  \/ \E s \in Racers : CloseLoser(s) \/ DropLoser(s) \/ Finally(s)

AloneStep ==
  \E s \in {"primary"} \cup Fallbacks :
    AloneSpeaks(s) \/ AloneEnds(s) \/ AloneEmpty(s) \/ AloneFails(s)

TurnNext ==
  \/ \E s \in Streams : FirstItem(s) \/ CancelLands(s)
  \/ RaceStep \/ AloneStep \/ Cancel

TurnSpec == TurnInit /\ [][TurnNext]_turnVars

-----------------------------------------------------------------------------

(* The types of the variables. *)
TurnTypeOK ==
  /\ stream \in [Streams -> Open \cup {"new", "empty", "failed", "cancelling", "closed"}]
  /\ reply \in {"wait", "close", "drop", "stream", "finally", "single", "over"} \cup Fallbacks
  /\ waiting \subseteq Racers /\ losers \subseteq Racers
  /\ winner \in Racers \cup {"none"} /\ spoken \subseteq Streams
  /\ backends \subseteq Fallbacks /\ cancelled \in BOOLEAN

(* However the race goes, and wherever it is cancelled, no stream is left  *)
(* open, and billed, behind a reply that is over.                          *)
NothingLeftOpen == reply = "over" => \A s \in Streams : stream[s] \notin Open

(* The caller hears one stream: "a winner that errors mid-stream never     *)
(* double-runs", and a fallback never repeats what was begun.              *)
OneReply == Cardinality(spoken) <= 1

(* A reply that was not cancelled is silent only if every stream that was  *)
(* asked had nothing to say, and after a failure every provider was asked. *)
SilentOnlyIfAllFail ==
  reply = "over" /\ ~cancelled /\ spoken = {} =>
    /\ \A s \in Streams : stream[s] \in {"new", "empty", "failed"}
    /\ \/ \E s \in {"primary"} \cup Fallbacks : stream[s] = "empty"
       \/ \A s \in {"primary"} \cup backends : stream[s] = "failed"

(* What is true of a reply and its streams at every step. *)
ReplyInv == TurnTypeOK /\ NothingLeftOpen /\ OneReply /\ SilentOnlyIfAllFail

(* A cancelled reply ends, and with it every stream it opened. *)
CancelledCloses == cancelled ~> (reply = "over" /\ \A s \in Streams : stream[s] \notin Open \cup {"cancelling"})
=============================================================================
