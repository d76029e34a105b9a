--------------------------- MODULE LlmTurnProofs ---------------------------
(***************************************************************************)
(* The theorem about a raced reply, for any number of racing streams and   *)
(* any set of fallbacks that could be built.                               *)
(***************************************************************************)
EXTENDS LlmTurn, FiniteSetTheorems, TLAPS

Phases == Open \cup {"new", "empty", "failed", "cancelling", "closed"}
Singles == {"primary"} \cup Fallbacks
Racing == {"wait", "close", "drop", "stream", "finally"}
Asking == {"single"} \cup Fallbacks

(* What race_async_gens holds at each of its awaits. *)
RaceShape ==
  /\ reply = "wait" => losers = {} /\ winner = "none"
  /\ reply = "drop" => losers = {} /\ winner # "none"
  /\ reply = "stream" => waiting = {} /\ losers = {} /\ winner # "none"
  /\ reply \notin Racing => waiting = {} /\ losers = {}
  /\ reply \in Asking => winner = "none"
  /\ waiting \cap losers = {}

(* An open stream is one the race still holds, or the one that runs alone. *)
OpenIsHeld ==
  /\ \A s \in Racers : stream[s] \in Open =>
       reply \in Racing /\ s \in waiting \cup losers \cup {winner}
  /\ \A s \in Singles : stream[s] \in Open => Alone(s)

(* Whose chunks the caller has heard. *)
OneSpeaks ==
  /\ reply \in {"wait", "close", "drop"} => spoken = {}
  /\ reply = "stream" => spoken = {winner}
  /\ reply \in Asking =>
       spoken = {} \/ \E s \in Singles : Alone(s) /\ spoken = {s} /\ stream[s] = "ready"
  /\ \E s \in Streams : spoken \subseteq {s}

Fruitless == {"new", "empty", "failed"}
Asked == {"pulling", "ready", "empty", "failed"}

(* Until it is cancelled, a reply asks one stream after the other, each    *)
(* when those before it have failed.                                       *)
AskedInTurn == ~cancelled =>
  /\ reply # "finally"
  /\ winner = "none" =>
       \A s \in Racers : stream[s] \in Fruitless \/ (s \in waiting /\ stream[s] \in Open)
  /\ reply \in Racing => \A s \in Singles : stream[s] = "new"
  /\ reply = "single" =>
       stream["primary"] \in Asked /\ \A s \in Fallbacks : stream[s] = "new"
  /\ reply \in Fallbacks => stream["primary"] = "failed" /\ reply \in backends
  /\ reply = "gemini" => stream["gemini"] \in Asked /\ stream["grok"] = "new"
  /\ reply = "grok" =>
       /\ stream["grok"] \in Asked
       /\ stream["gemini"] = IF "gemini" \in backends THEN "failed" ELSE "new"

ReplyIInv ==
  TurnTypeOK /\ RaceShape /\ OpenIsHeld /\ OneSpeaks /\ AskedInTurn /\ SilentOnlyIfAllFail

(* The racers are none of the other streams. *)
LEMMA RacersApart ==
  /\ "none" \notin Racers /\ "primary" \notin Racers
  /\ "gemini" \notin Racers /\ "grok" \notin Racers
  BY RacersAssumption DEF RacersAssumption

(* Closing changes the one stream, and that only if it is open. *)
LEMMA ClosedStream ==
  ASSUME TurnTypeOK, NEW s \in Streams, stream' = Closed(s)
  PROVE  /\ stream' \in [Streams -> Phases]
         /\ stream'[s] \notin Open
         /\ stream[s] \notin Open => stream'[s] = stream[s]
         /\ \A t \in Streams : t # s => stream'[t] = stream[t]
  BY DEF Closed, TurnTypeOK, Open, Phases

(* The first streams of a reply. *)
LEMMA ReplyInit == ASSUME TurnInit PROVE ReplyIInv
<1> USE RacersApart DEF TurnInit, Streams, Fallbacks, Open
<1>1. TurnTypeOK
  BY DEF TurnTypeOK
<1>2. RaceShape
  BY DEF RaceShape, Racing, Asking
<1>3. OpenIsHeld
  BY DEF OpenIsHeld, Singles, Racing, Alone
<1>4. OneSpeaks
  BY DEF OneSpeaks, Asking
<1>5. AskedInTurn /\ SilentOnlyIfAllFail
  BY DEF AskedInTurn, SilentOnlyIfAllFail, Fruitless, Asked, Singles, Racing
<1> QED
  BY <1>1, <1>2, <1>3, <1>4, <1>5 DEF ReplyIInv

(* Every step keeps the types. *)
LEMMA ReplyTypes ==
  ASSUME TurnTypeOK, RaceShape, [TurnNext]_turnVars
  PROVE  TurnTypeOK'
<1> DEFINE Others ==
      /\ waiting' \subseteq Racers /\ losers' \subseteq Racers
      /\ winner' \in Racers \cup {"none"} /\ spoken' \subseteq Streams
      /\ backends' \subseteq Fallbacks /\ cancelled' \in BOOLEAN
      /\ reply' \in Racing \cup Asking \cup {"over"}
<1>0. TurnTypeOK' <=> stream' \in [Streams -> Phases] /\ Others
  BY DEF TurnTypeOK, Phases, Racing, Asking
<1>1. stream \in [Streams -> Phases] /\ Fallbacks \subseteq Streams /\ Racers \subseteq Streams
      /\ "primary" \in Streams
  BY DEF TurnTypeOK, Phases, Streams
<1>2. ASSUME NEW s \in Streams, NEW v \in Phases, stream' = [stream EXCEPT ![s] = v]
      PROVE  stream' \in [Streams -> Phases]
  BY <1>1, <1>2
<1>3. ASSUME NEW s \in Streams, FirstItem(s) \/ CancelLands(s) PROVE TurnTypeOK'
  <2>1. \E v \in Phases : stream' = [stream EXCEPT ![s] = v]
    BY <1>3 DEF FirstItem, CancelLands, Phases, Open
  <2>2. Others
    BY <1>3 DEF FirstItem, CancelLands, TurnTypeOK, Racing, Asking, Fallbacks
  <2> QED
    BY <1>0, <1>2, <2>1, <2>2
<1>4. CASE Wake \/ RaceReturns
  BY <1>4 DEF Wake, Done, RaceReturns, TurnTypeOK, Racing, Asking
<1>5. CASE YieldFirst
  BY <1>5 DEF YieldFirst, TurnTypeOK, RaceShape, Streams
<1>6. CASE NextWait
  <2>1. stream' = stream \/ stream' = [stream EXCEPT !["primary"] = "pulling"]
    BY <1>6 DEF NextWait
  <2>2. stream' \in [Streams -> Phases]
    BY <1>1, <1>2, <2>1 DEF Phases, Open
  <2> QED
    BY <1>0, <1>6, <2>2 DEF NextWait, TurnTypeOK, Racing, Asking
<1>7. CASE WinnerEnds
  <2>1. winner \in Streams
    BY <1>1, <1>7 DEF WinnerEnds, RaceShape, TurnTypeOK
  <2>2. \E v \in Phases : stream' = [stream EXCEPT ![winner] = v]
    BY <1>7 DEF WinnerEnds, Phases
  <2>3. stream' \in [Streams -> Phases]
    BY <1>2, <2>1, <2>2
  <2> QED
    BY <1>0, <1>7, <2>3 DEF WinnerEnds, TurnTypeOK, Racing, Asking
<1>8. ASSUME NEW s \in Racers, CloseLoser(s) \/ DropLoser(s) \/ Finally(s) PROVE TurnTypeOK'
  <2>1. stream' \in [Streams -> Phases]
    BY <1>1, <1>8, ClosedStream DEF CloseLoser, DropLoser, Finally
  <2> QED
    BY <1>0, <1>8, <2>1 DEF CloseLoser, DropLoser, Finally, TurnTypeOK, Racing, Asking
<1>9. ASSUME NEW s \in Singles, AloneSpeaks(s) \/ AloneEmpty(s) PROVE TurnTypeOK'
  BY <1>1, <1>9 DEF Singles, AloneSpeaks, AloneEmpty, TurnTypeOK
<1>10. ASSUME NEW s \in Singles, AloneEnds(s) PROVE TurnTypeOK'
  <2>1. \E v \in Phases : stream' = [stream EXCEPT ![s] = v]
    BY <1>10 DEF AloneEnds, Phases
  <2>2. stream' \in [Streams -> Phases]
    BY <1>1, <1>2, <2>1 DEF Singles
  <2> QED
    BY <1>0, <1>10, <2>2 DEF AloneEnds, TurnTypeOK, Racing, Asking
<1>11. ASSUME NEW s \in Singles, AloneFails(s) PROVE TurnTypeOK'
  <2>1. NextBackend(s) \in Fallbacks \cup {"over"}
    BY DEF NextBackend, Fallbacks
  <2>2. stream' = stream \/ \E t \in Fallbacks : stream' = [stream EXCEPT ![t] = "pulling"]
    BY <1>11, <2>1 DEF AloneFails
  <2>3. stream' \in [Streams -> Phases]
    BY <1>1, <1>2, <2>2 DEF Phases, Open
  <2> QED
    BY <1>0, <1>11, <2>1, <2>3 DEF AloneFails, TurnTypeOK, Racing, Asking
<1>12. CASE Cancel
  <2>1. stream' = stream \/ \E s \in Streams : stream' = Closed(s)
    BY <1>1, <1>12 DEF Cancel
  <2>2. stream' \in [Streams -> Phases]
    BY <1>1, <2>1, ClosedStream
  <2> QED
    BY <1>0, <1>12, <2>2 DEF Cancel, TurnTypeOK, Racing, Asking
<1>13. CASE UNCHANGED turnVars
  BY <1>13 DEF turnVars, TurnTypeOK
<1> QED
  BY <1>3, <1>4, <1>5, <1>6, <1>7, <1>8, <1>9, <1>10, <1>11, <1>12, <1>13
     DEF TurnNext, RaceStep, AloneStep, Singles

(* The race drops what it closes and holds what it opened. *)
LEMMA RaceShapeStep ==
  ASSUME TurnTypeOK, RaceShape, [TurnNext]_turnVars
  PROVE  RaceShape'
<1> USE DEF RaceShape, Racing, Asking, Fallbacks
<1>1. ASSUME NEW s \in Streams, FirstItem(s) \/ CancelLands(s) PROVE RaceShape'
  BY <1>1 DEF FirstItem, CancelLands
<1>2. CASE Wake
  <2>1. reply' = "close" /\ waiting' \cap losers' = {}
    BY <1>2 DEF Wake, Done
  <2> QED
    BY <2>1
<1>3. CASE NextWait
  <2>1. losers' = {} /\ waiting' = waiting /\ winner' = winner
    BY <1>3 DEF NextWait
  <2>2. CASE winner # "none"
    BY <1>3, <2>1, <2>2 DEF NextWait
  <2>3. CASE winner = "none" /\ waiting # {}
    BY <1>3, <2>1, <2>3 DEF NextWait
  <2>4. CASE winner = "none" /\ waiting = {}
    BY <1>3, <2>1, <2>4 DEF NextWait
  <2> QED
    BY <2>2, <2>3, <2>4
<1>4. CASE YieldFirst \/ WinnerEnds
  BY <1>4 DEF YieldFirst, WinnerEnds
<1>9. CASE RaceReturns
  <2>1. waiting' = {} /\ losers' = {} /\ reply' = "over"
    BY <1>9 DEF RaceReturns
  <2> QED
    BY <2>1 DEF Fallbacks
<1>5. ASSUME NEW s \in Racers, CloseLoser(s) \/ DropLoser(s) \/ Finally(s) PROVE RaceShape'
  BY <1>5 DEF CloseLoser, DropLoser, Finally
<1>6. ASSUME NEW s \in Singles, AloneSpeaks(s) \/ AloneEnds(s) \/ AloneEmpty(s) \/ AloneFails(s)
      PROVE  RaceShape'
  BY <1>6 DEF AloneSpeaks, AloneEnds, AloneEmpty, AloneFails, NextBackend, Alone, Singles, Fallbacks
<1>7. CASE Cancel
  BY <1>7 DEF Cancel, Alone, Fallbacks
<1>8. CASE UNCHANGED turnVars
  BY <1>8 DEF turnVars
<1> QED
  BY <1>1, <1>2, <1>3, <1>4, <1>5, <1>6, <1>7, <1>8, <1>9 DEF TurnNext, RaceStep, AloneStep, Singles

(* A stream that is opened is asked for, and one that is left is closed. *)
LEMMA OpenStep ==
  ASSUME TurnTypeOK, RaceShape, OpenIsHeld, [TurnNext]_turnVars
  PROVE  OpenIsHeld'
<1> USE RacersApart DEF OpenIsHeld, Racing
<1>0. stream \in [Streams -> Phases] /\ Racers \subseteq Streams /\ Singles \subseteq Streams
  BY DEF TurnTypeOK, Phases, Streams, Singles
<1>1. ASSUME NEW s \in Streams, FirstItem(s) \/ CancelLands(s) PROVE OpenIsHeld'
  <2>1. \A t \in Streams : stream'[t] \in Open => stream[t] \in Open
    BY <1>0, <1>1 DEF FirstItem, CancelLands, Open
  <2>2. UNCHANGED <<reply, waiting, losers, winner>>
    BY <1>1 DEF FirstItem, CancelLands
  <2> QED
    BY <1>0, <2>1, <2>2 DEF Alone
<1>2. CASE Wake
  <2>1. reply' = "close" /\ UNCHANGED stream
    BY <1>2 DEF Wake
  <2>2. waiting \subseteq waiting' \cup losers' \cup {winner'}
    BY <1>2 DEF Wake, Done
  <2>3. losers = {} /\ winner = "none" /\ reply = "wait"
    BY <1>2 DEF Wake, RaceShape
  <2>4. \A t \in Singles : stream[t] \notin Open
    BY <2>3 DEF Alone, Singles, Fallbacks
  <2> QED
    BY <2>1, <2>2, <2>3, <2>4
<1>3. CASE NextWait
  <2>1. \A t \in Streams : stream'[t] \in Open =>
          stream[t] \in Open \/ (t = "primary" /\ reply' = "single")
    BY <1>0, <1>3 DEF NextWait
  <2>2. \A t \in Singles : stream[t] \notin Open
    BY <1>3 DEF NextWait, Alone, Singles, Fallbacks
  <2>3. \A t \in Racers : stream[t] \in Open => reply' \in Racing /\ t \in waiting \cup {winner}
    BY <1>3 DEF NextWait, TurnTypeOK
  <2> QED
    BY <1>0, <1>3, <2>1, <2>2, <2>3 DEF NextWait, Alone
<1>4. CASE YieldFirst \/ RaceReturns
  BY <1>4 DEF YieldFirst, RaceReturns, Alone, Singles, Fallbacks
<1>5. CASE WinnerEnds
  <2>1. \A t \in Streams : stream'[t] \in Open => stream[t] \in Open /\ t # winner
    BY <1>0, <1>5 DEF WinnerEnds, RaceShape, TurnTypeOK, Open
  <2>2. \A t \in Racers : stream'[t] \notin Open
    BY <1>0, <1>5, <2>1 DEF WinnerEnds, RaceShape
  <2> QED
    BY <1>0, <1>5, <2>1, <2>2 DEF WinnerEnds, Alone, Singles, Fallbacks
<1>6. ASSUME NEW s \in Racers, CloseLoser(s) \/ DropLoser(s) \/ Finally(s) PROVE OpenIsHeld'
  <2>1. \A t \in Streams : stream'[t] \in Open => stream[t] \in Open /\ t # s
    BY <1>0, <1>6, ClosedStream DEF CloseLoser, DropLoser, Finally
  <2>2. reply' = reply /\ reply \in Racing
    BY <1>6 DEF CloseLoser, DropLoser, Finally
  <2>3. waiting \cup losers \cup {winner} \subseteq waiting' \cup losers' \cup {winner', s}
    BY <1>6 DEF CloseLoser, DropLoser, Finally
  <2> QED
    BY <1>0, <2>1, <2>2, <2>3 DEF Alone
<1>7. ASSUME NEW s \in Singles, AloneSpeaks(s) \/ AloneEmpty(s) PROVE OpenIsHeld'
  BY <1>7 DEF AloneSpeaks, AloneEmpty, Alone, Singles, Fallbacks, Open
<1>8. ASSUME NEW s \in Singles, AloneEnds(s) PROVE OpenIsHeld'
  <2>1. \A t \in Streams : stream'[t] \in Open => stream[t] \in Open /\ t # s
    BY <1>0, <1>8 DEF AloneEnds, Open
  <2> QED
    BY <1>0, <1>8, <2>1 DEF AloneEnds, Alone, Singles, Fallbacks
<1>9. ASSUME NEW s \in Singles, AloneFails(s) PROVE OpenIsHeld'
  <2>1. \A t \in Streams : stream'[t] \in Open =>
          (stream[t] \in Open /\ t # s) \/ (t = NextBackend(s) /\ reply' = t /\ t \in Fallbacks)
    BY <1>0, <1>9 DEF AloneFails, NextBackend, Open, Fallbacks
  <2> QED
    BY <1>0, <1>9, <2>1 DEF AloneFails, Alone, Singles, Fallbacks
<1>10. CASE Cancel
  <2>1. CASE reply \in Racing /\ reply' = "finally" /\ UNCHANGED stream
    BY <1>10, <2>1 DEF Cancel, Alone, Singles, Fallbacks
  <2>2. ASSUME NEW s \in Singles, Alone(s), reply' = "over", stream' = Closed(s) PROVE OpenIsHeld'
    <3>1. \A t \in Streams : stream'[t] \in Open => stream[t] \in Open /\ t # s
      BY <1>0, <2>2, ClosedStream
    <3> QED
      BY <1>0, <2>2, <3>1 DEF Alone, Singles, Fallbacks
  <2> QED
    BY <1>10, <2>1, <2>2 DEF Cancel, Singles
<1>11. CASE UNCHANGED turnVars
  BY <1>11 DEF turnVars, Alone
<1> QED
  BY <1>1, <1>2, <1>3, <1>4, <1>5, <1>6, <1>7, <1>8, <1>9, <1>10, <1>11
     DEF TurnNext, RaceStep, AloneStep, Singles

(* Chunks come from the winner, or from the one stream that runs alone. *)
LEMMA SpeakStep ==
  ASSUME TurnTypeOK, RaceShape, OneSpeaks, [TurnNext]_turnVars
  PROVE  OneSpeaks'
<1> USE RacersApart DEF OneSpeaks, Asking
<1>0. stream \in [Streams -> Phases] /\ Racers \subseteq Streams /\ Singles \subseteq Streams
  BY DEF TurnTypeOK, Phases, Streams, Singles
<1>1. ASSUME NEW s \in Streams, FirstItem(s) \/ CancelLands(s) PROVE OneSpeaks'
  <2>1. \A t \in Streams : stream[t] = "ready" => stream'[t] = "ready"
    BY <1>0, <1>1 DEF FirstItem, CancelLands
  <2>2. UNCHANGED <<reply, winner, spoken>>
    BY <1>1 DEF FirstItem, CancelLands
  <2> QED
    BY <1>0, <2>1, <2>2 DEF Alone
<1>2. CASE Wake
  <2>1. reply = "wait" /\ reply' = "close" /\ UNCHANGED spoken
    BY <1>2 DEF Wake
  <2> QED
    BY <2>1
<1>3. CASE NextWait
  <2>1. reply = "close" /\ spoken' = spoken /\ reply' \in {"drop", "wait", "single"}
    BY <1>3 DEF NextWait
  <2> QED
    BY <2>1 DEF Fallbacks
<1>4. CASE YieldFirst
  <2>1. spoken' = {winner} /\ winner' = winner /\ reply' = "stream" /\ winner \in Streams
    BY <1>0, <1>4 DEF YieldFirst, RaceShape, TurnTypeOK
  <2> QED
    BY <2>1 DEF Fallbacks
<1>5. CASE WinnerEnds \/ RaceReturns
  <2>1. reply' = "over" /\ UNCHANGED spoken
    BY <1>5 DEF WinnerEnds, RaceReturns
  <2> QED
    BY <2>1 DEF Fallbacks
<1>6. ASSUME NEW s \in Racers, CloseLoser(s) \/ DropLoser(s) \/ Finally(s) PROVE OneSpeaks'
  <2>1. UNCHANGED <<reply, spoken>> /\ reply \in {"close", "drop", "finally"}
    BY <1>6 DEF CloseLoser, DropLoser, Finally
  <2> QED
    BY <2>1 DEF Fallbacks
<1>7. ASSUME NEW s \in Singles, AloneSpeaks(s) PROVE OneSpeaks'
  <2>1. UNCHANGED <<stream, reply, winner>> /\ Alone(s) /\ stream[s] = "ready"
    BY <1>7 DEF AloneSpeaks
  <2>2. \A t \in Singles : Alone(t) => t = s
    BY <2>1 DEF Alone, Singles, Fallbacks
  <2>3. reply \in Asking /\ spoken' = {s}
    BY <1>7, <2>1, <2>2 DEF AloneSpeaks, Alone, Singles, Fallbacks
  <2> QED
    BY <1>0, <2>1, <2>3 DEF Alone, Fallbacks
<1>8. ASSUME NEW s \in Singles, AloneEnds(s) \/ AloneEmpty(s) PROVE OneSpeaks'
  <2>1. reply' = "over" /\ UNCHANGED spoken
    BY <1>8 DEF AloneEnds, AloneEmpty
  <2> QED
    BY <2>1 DEF Fallbacks
<1>9. ASSUME NEW s \in Singles, AloneFails(s) PROVE OneSpeaks'
  <2>1. \A t \in Singles : Alone(t) => t = s
    BY <1>9 DEF AloneFails, Alone, Singles, Fallbacks
  <2>2. reply \in Asking /\ stream[s] # "ready" /\ UNCHANGED spoken
    BY <1>9 DEF AloneFails, Alone, Singles, Fallbacks
  <2>3. spoken = {}
    BY <2>1, <2>2
  <2>4. reply' \in Fallbacks \cup {"over"}
    BY <1>9 DEF AloneFails, NextBackend, Fallbacks
  <2> QED
    BY <2>2, <2>3, <2>4 DEF Fallbacks
<1>10. CASE Cancel
  <2>1. reply' \in {"finally", "over"} /\ UNCHANGED spoken
    BY <1>10 DEF Cancel
  <2> QED
    BY <2>1 DEF Fallbacks
<1>11. CASE UNCHANGED turnVars
  BY <1>11 DEF turnVars, Alone
<1> QED
  BY <1>1, <1>2, <1>3, <1>4, <1>5, <1>6, <1>7, <1>8, <1>9, <1>10, <1>11
     DEF TurnNext, RaceStep, AloneStep, Singles

(* A reply that is over holds nothing open. *)
LEMMA OverIsClosed ==
  ASSUME OpenIsHeld, reply = "over"
  PROVE  \A s \in Streams : stream[s] \notin Open
BY DEF OpenIsHeld, Racing, Alone, Singles, Fallbacks, Streams

(* What the fallback order has asked when the stream s runs alone. *)
LEMMA AskedSoFar ==
  ASSUME TurnTypeOK, RaceShape, AskedInTurn, ~cancelled, NEW s \in Singles, Alone(s)
  PROVE  /\ \A t \in Racers : stream[t] \in Fruitless
         /\ \A t \in Singles : t # s => stream[t] \in {"new", "failed"}
         /\ stream[s] \in Asked /\ reply \in Asking
         /\ \A t \in {"primary"} \cup backends :
              t # s => stream[t] = "failed" \/ (t \in Fallbacks /\ stream[t] = "new" /\ (s = "gemini" => t = "grok") /\ s # "grok")
<1> USE DEF Singles, Fallbacks, Alone, AskedInTurn, Asking
<1>1. winner = "none" /\ waiting = {} /\ reply \in Asking
  BY DEF RaceShape, Racing
<1>2. \A t \in Racers : stream[t] \in Fruitless
  BY <1>1
<1>3. backends \subseteq Fallbacks
  BY DEF TurnTypeOK
<1>4. CASE s = "primary"
  BY <1>1, <1>2, <1>3, <1>4
<1>5. CASE s = "gemini"
  BY <1>1, <1>2, <1>3, <1>5
<1>6. CASE s = "grok"
  BY <1>1, <1>2, <1>3, <1>6
<1> QED
  BY <1>4, <1>5, <1>6

(* Until it is cancelled a reply goes through its streams in their order,  *)
(* and is silent only when they have all failed it.                        *)
LEMMA AskStep ==
  ASSUME ReplyIInv, TurnTypeOK', [TurnNext]_turnVars
  PROVE  AskedInTurn' /\ SilentOnlyIfAllFail'
<1> SUFFICES ASSUME ~cancelled'
             PROVE  AskedInTurn' /\ SilentOnlyIfAllFail'
  BY DEF AskedInTurn, SilentOnlyIfAllFail
<1>a. TurnTypeOK /\ RaceShape /\ OpenIsHeld /\ OneSpeaks /\ AskedInTurn /\ SilentOnlyIfAllFail
  BY DEF ReplyIInv
<1>b. /\ stream \in [Streams -> Phases] /\ waiting \subseteq Racers /\ backends \subseteq Fallbacks
      /\ Streams = Racers \cup Singles /\ Racers \cap Singles = {} /\ "none" \notin Racers
  BY <1>a, RacersApart DEF TurnTypeOK, Phases, Streams, Singles, Fallbacks
<1>1. ASSUME NEW s \in Streams, FirstItem(s), ~cancelled PROVE AskedInTurn' /\ SilentOnlyIfAllFail'
  <2>1. /\ \A t \in Streams : t # s => stream'[t] = stream[t]
        /\ stream[s] = "pulling" /\ stream'[s] \in {"ready", "empty", "failed"}
        /\ UNCHANGED <<reply, waiting, winner, backends, cancelled>>
    BY <1>1, <1>b DEF FirstItem
  <2>2. reply # "over"
    BY <1>a, <2>1, OverIsClosed DEF Open
  <2>3. AskedInTurn'
    BY <1>1, <1>a, <1>b, <2>1 DEF AskedInTurn, Fruitless, Asked, Open, Singles, Fallbacks
  <2> QED
    BY <2>1, <2>2, <2>3 DEF SilentOnlyIfAllFail
<1>2. ASSUME NEW s \in Streams, CancelLands(s), ~cancelled PROVE AskedInTurn' /\ SilentOnlyIfAllFail'
  <2>1. /\ \A t \in Streams : t # s => stream'[t] = stream[t]
        /\ stream[s] = "cancelling"
        /\ UNCHANGED <<reply, waiting, winner, backends, spoken, cancelled>>
    BY <1>2, <1>b DEF CancelLands
  <2>2. (winner # "none" /\ s \in Racers) \/ reply = "over"
    BY <1>2, <1>a, <1>b, <2>1
       DEF AskedInTurn, RaceShape, TurnTypeOK, Asking, Racing, Fruitless, Asked, Open, Singles, Fallbacks
  <2>3. ~(reply = "over" /\ spoken = {})
    BY <1>2, <1>a, <2>1 DEF SilentOnlyIfAllFail
  <2> QED
    BY <1>a, <1>b, <2>1, <2>2, <2>3
       DEF AskedInTurn, SilentOnlyIfAllFail, RaceShape, Asking, Racing, Singles, Fallbacks, Fruitless, Open
<1>3. CASE Wake
  <2>1. /\ winner = "none" /\ reply' = "close" /\ reply = "wait"
        /\ UNCHANGED <<stream, backends, cancelled>> /\ waiting' = waiting \ Done
    BY <1>3, <1>a DEF Wake, RaceShape
  <2>2. winner' = "none" => \A s \in Done : stream[s] # "ready"
    BY <1>3, <1>b DEF Wake, Done
  <2>3. winner' = "none" =>
          \A s \in Racers : stream[s] \in Fruitless \/ (s \in waiting' /\ stream[s] \in Open)
    BY <1>a, <1>b, <2>1, <2>2 DEF AskedInTurn, Done, Open
  <2> QED
    BY <1>a, <2>1, <2>3 DEF AskedInTurn, SilentOnlyIfAllFail, Racing, Fallbacks
<1>4. CASE NextWait
  <2>1. UNCHANGED <<waiting, winner, backends, cancelled>> /\ reply = "close"
    BY <1>4 DEF NextWait
  <2>2. CASE reply' \in {"drop", "wait"}
    <3>1. UNCHANGED stream
      BY <1>4, <2>2 DEF NextWait
    <3> QED
      BY <1>a, <2>1, <2>2, <3>1 DEF AskedInTurn, SilentOnlyIfAllFail, Racing, Fallbacks
  <2>3. CASE reply' = "single"
    <3>1. stream'["primary"] = "pulling" /\ \A t \in Streams : t # "primary" => stream'[t] = stream[t]
      BY <1>4, <1>b, <2>3 DEF NextWait, Singles
    <3> QED
      BY <1>a, <1>b, <2>1, <2>3, <3>1
         DEF AskedInTurn, SilentOnlyIfAllFail, Racing, Fallbacks, Singles, Asked, Open
  <2> QED
    BY <1>4, <2>2, <2>3 DEF NextWait
<1>5. CASE YieldFirst
  BY <1>5, <1>a DEF YieldFirst, AskedInTurn, SilentOnlyIfAllFail, RaceShape, Racing, Fallbacks
<1>6. CASE WinnerEnds
  <2>1. winner' # "none" /\ spoken' # {} /\ reply' = "over"
    BY <1>6, <1>a DEF WinnerEnds, RaceShape, OneSpeaks
  <2> QED
    BY <2>1 DEF AskedInTurn, SilentOnlyIfAllFail, Racing, Fallbacks
<1>7. CASE RaceReturns
  BY <1>7, <1>a DEF RaceReturns, AskedInTurn
<1>8. ASSUME NEW s \in Racers, CloseLoser(s) \/ DropLoser(s) \/ Finally(s)
      PROVE  AskedInTurn' /\ SilentOnlyIfAllFail'
  <2>1. UNCHANGED <<reply, backends, cancelled>> /\ stream' = Closed(s) /\ waiting' \in {waiting, waiting \ {s}}
    BY <1>8 DEF CloseLoser, DropLoser, Finally
  <2>2. reply \in {"close", "drop"} /\ winner' = winner /\ (winner = "none" => s \notin waiting)
    BY <1>8, <1>a, <2>1 DEF CloseLoser, DropLoser, Finally, AskedInTurn, RaceShape
  <2>3. /\ \A t \in Streams : t # s => stream'[t] = stream[t]
        /\ stream[s] \notin Open => stream'[s] = stream[s]
    BY <1>a, <1>b, <2>1, ClosedStream
  <2>4. winner = "none" => stream[s] \in Fruitless /\ stream[s] \notin Open
    BY <1>a, <2>1, <2>2 DEF AskedInTurn, Fruitless, Open
  <2> QED
    BY <1>a, <1>b, <2>1, <2>2, <2>3, <2>4 DEF AskedInTurn, SilentOnlyIfAllFail, Racing, Fallbacks
<1>9. ASSUME NEW s \in Singles, AloneSpeaks(s) PROVE AskedInTurn' /\ SilentOnlyIfAllFail'
  <2>1. UNCHANGED <<stream, reply, waiting, winner, backends, cancelled>> /\ reply # "over"
    BY <1>9 DEF AloneSpeaks, Alone, Singles, Fallbacks
  <2> QED
    BY <1>a, <2>1 DEF AskedInTurn, SilentOnlyIfAllFail
<1>10. ASSUME NEW s \in Singles, AloneEnds(s) PROVE AskedInTurn' /\ SilentOnlyIfAllFail'
  <2>1. /\ reply' = "over" /\ spoken' # {} /\ UNCHANGED <<winner, waiting, cancelled>>
        /\ \A t \in Streams : t # s => stream'[t] = stream[t]
    BY <1>10, <1>b DEF AloneEnds
  <2> QED
    BY <1>a, <1>b, <2>1 DEF AskedInTurn, SilentOnlyIfAllFail, Racing, Fallbacks
<1>11. ASSUME NEW s \in Singles, AloneEmpty(s) \/ AloneFails(s) PROVE AskedInTurn' /\ SilentOnlyIfAllFail'
  <2>1. /\ ~cancelled /\ Alone(s) /\ UNCHANGED <<waiting, winner, spoken, backends>>
        /\ stream[s] \in {"empty", "failed"}
    BY <1>11 DEF AloneEmpty, AloneFails
  <2>2. /\ \A t \in Racers : stream[t] \in Fruitless
        /\ \A t \in Singles : t # s => stream[t] \in {"new", "failed"}
        /\ \A t \in {"primary"} \cup backends :
             t # s => stream[t] = "failed" \/ (t \in Fallbacks /\ stream[t] = "new" /\ (s = "gemini" => t = "grok") /\ s # "grok")
    BY <1>a, <2>1, AskedSoFar
  <2>3. CASE AloneEmpty(s)
    <3>1. reply' = "over" /\ UNCHANGED stream /\ stream[s] = "empty"
      BY <2>3 DEF AloneEmpty
    <3>2. \A t \in Streams : stream[t] \in {"new", "empty", "failed"}
      BY <1>b, <2>1, <2>2 DEF Fruitless
    <3> QED
      BY <1>b, <2>1, <2>2, <3>1, <3>2 DEF AskedInTurn, SilentOnlyIfAllFail, Racing, Singles, Fallbacks
  <2>4. CASE AloneFails(s) /\ NextBackend(s) = "over"
    <3>1. reply' = "over" /\ UNCHANGED stream /\ stream[s] = "failed"
      BY <2>4 DEF AloneFails
    <3>2. \A t \in Streams : stream[t] \in {"new", "empty", "failed"}
      BY <1>b, <2>1, <2>2 DEF Fruitless
    <3>3. \A t \in {"primary"} \cup backends : stream[t] = "failed"
      BY <1>b, <2>2, <2>4, <3>1 DEF NextBackend, Singles, Fallbacks
    <3> QED
      BY <2>1, <2>2, <3>1, <3>2, <3>3 DEF AskedInTurn, SilentOnlyIfAllFail, Racing, Fallbacks
  <2>5. CASE AloneFails(s) /\ NextBackend(s) # "over"
    <3>1. NextBackend(s) \in backends /\ NextBackend(s) # s
      BY <2>5 DEF NextBackend
    <3>2. /\ reply' = NextBackend(s) /\ stream'[reply'] = "pulling" /\ stream[s] = "failed"
          /\ \A t \in Streams : t # reply' => stream'[t] = stream[t]
      BY <1>b, <2>5, <3>1 DEF AloneFails, Singles
    <3>3. winner = "none" /\ (s = "primary" => \A t \in Fallbacks : stream[t] = "new")
          /\ (s = "gemini" => stream["grok"] = "new" /\ stream["primary"] = "failed" /\ "gemini" \in backends)
      BY <1>a, <2>1 DEF AskedInTurn, RaceShape, Asking, Alone, Singles, Fallbacks
    <3>4. s \in {"primary", "gemini"} /\ (reply' = "gemini" => s = "primary")
          /\ (reply' = "grok" /\ s = "primary" => "gemini" \notin backends)
      BY <2>5, <3>2 DEF NextBackend, Singles, Fallbacks
    <3>5. /\ reply' \in Fallbacks /\ reply' \in backends /\ ~cancelled' /\ backends' = backends
          /\ \A t \in Racers : stream'[t] = stream[t]
      BY <1>b, <2>1, <3>1, <3>2 DEF Singles, Fallbacks
    <3>6. CASE reply' = "gemini"
      <4>1. /\ stream'["primary"] = "failed" /\ stream'["gemini"] = "pulling"
            /\ stream'["grok"] = "new"
        BY <1>b, <3>2, <3>3, <3>4, <3>6 DEF Singles, Fallbacks
      <4> QED
        BY <2>2, <3>5, <3>6, <4>1 DEF AskedInTurn, SilentOnlyIfAllFail, Racing, Fallbacks, Asked
    <3>7. CASE reply' = "grok"
      <4>1. stream'["primary"] = "failed" /\ stream'["grok"] = "pulling"
        BY <1>b, <3>2, <3>3, <3>4, <3>7 DEF Singles, Fallbacks
      <4>2. stream'["gemini"] = IF "gemini" \in backends THEN "failed" ELSE "new"
        BY <1>b, <2>1, <3>2, <3>3, <3>4, <3>7 DEF Singles, Fallbacks
      <4> QED
        BY <2>2, <3>5, <3>7, <4>1, <4>2 DEF AskedInTurn, SilentOnlyIfAllFail, Racing, Fallbacks, Asked
    <3> QED
      BY <3>5, <3>6, <3>7 DEF Fallbacks
  <2> QED
    BY <1>11, <2>3, <2>4, <2>5
<1>12. CASE UNCHANGED turnVars
  BY <1>12, <1>a DEF turnVars, AskedInTurn, SilentOnlyIfAllFail
<1>13. CASE Cancel
  BY <1>13 DEF Cancel
<1>14. ASSUME NEW s \in Streams, FirstItem(s) \/ CancelLands(s) PROVE AskedInTurn' /\ SilentOnlyIfAllFail'
  <2>1. ~cancelled
    BY <1>14 DEF FirstItem, CancelLands
  <2> QED
    BY <1>1, <1>2, <1>14, <2>1
<1> QED
  BY <1>3, <1>4, <1>5, <1>6, <1>7, <1>8, <1>9, <1>10, <1>11, <1>12, <1>13, <1>14
     DEF TurnNext, RaceStep, AloneStep, Singles

(* The inductive invariant. *)
LEMMA ReplyStep ==
  ASSUME ReplyIInv, [TurnNext]_turnVars
  PROVE  ReplyIInv'
<1>1. TurnTypeOK /\ RaceShape /\ OpenIsHeld /\ OneSpeaks
  BY DEF ReplyIInv
<1>2. TurnTypeOK' /\ RaceShape' /\ OpenIsHeld' /\ OneSpeaks'
  BY <1>1, ReplyTypes, RaceShapeStep, OpenStep, SpeakStep
<1>3. AskedInTurn' /\ SilentOnlyIfAllFail'
  BY <1>2, AskStep
<1> QED
  BY <1>2, <1>3 DEF ReplyIInv

(* However many streams race, whatever fails and wherever the reply is     *)
(* cancelled, one stream is heard at most, none stays open behind a reply  *)
(* that is over, and silence means that every provider was asked           *)
(* (race_async_gens, _llm_stream_with_fallback).                           *)
THEOREM RepliesAreSound == TurnSpec => []ReplyInv
<1>1. TurnInit => ReplyIInv
  BY ReplyInit
<1>2. ReplyIInv /\ [TurnNext]_turnVars => ReplyIInv'
  BY ReplyStep
<1>3. ASSUME ReplyIInv PROVE ReplyInv
  <2>1. TurnTypeOK /\ OpenIsHeld /\ OneSpeaks /\ SilentOnlyIfAllFail
    BY <1>3 DEF ReplyIInv
  <2>2. NothingLeftOpen
    BY <2>1, OverIsClosed DEF NothingLeftOpen
  <2>3. OneReply
    <3>1. PICK s \in Streams : spoken \subseteq {s}
      BY <2>1 DEF OneSpeaks
    <3>2. IsFiniteSet({s}) /\ Cardinality({s}) = 1
      BY FS_Singleton
    <3>3. Cardinality(spoken) <= Cardinality({s})
      BY <3>1, <3>2, FS_Subset
    <3> QED
      BY <3>2, <3>3 DEF OneReply
  <2> QED
    BY <2>1, <2>2, <2>3 DEF ReplyInv
<1> QED
  BY <1>1, <1>2, <1>3, PTL DEF TurnSpec
=============================================================================
