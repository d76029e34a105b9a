---------------------------- MODULE Stabiliser -----------------------------
(***************************************************************************)
(* The transcript stabiliser of src/pipeline/stabilizer.py and the         *)
(* handler of src/agent.py that feeds it: interim transcripts go in, the   *)
(* words that have lasted come out as the stable prefix the speculative    *)
(* prefetch is keyed by; a final transcript resets it.  The recogniser     *)
(* (Sarvam, external) may send any transcript.                             *)
(***************************************************************************)
EXTENDS Naturals, Sequences

CONSTANTS
  Tokens,       \* the words of a transcript
  MaxWords,     \* the longest transcript
  MinPartials,  \* stabilizer_min_stable_partials
  Debounce      \* stabilizer_debounce_seconds, in ticks

ASSUME StabiliserAssumption ==
  /\ MinPartials \in Nat \ {0} /\ Debounce \in Nat \ {0}
  /\ MaxWords \in Nat \ {0}

VARIABLES
  stable,      \* _stable
  tracks,      \* _tracks; ages stand for first_seen
  confidence,  \* last_final_avg_confidence: "high" or "low"
  lasting,     \* history: per place, the word of the last transcripts to reach
               \* it, how many had it, how many of the latest, and for how long
  partial,     \* history: the last interim transcript
  scores       \* history: the scores of the last final transcript

stabVars == <<stable, tracks, confidence, lasting, partial, scores>>

Places == 1..MaxWords
Transcript == UNION {[1..n -> Tokens] : n \in 0..MaxWords}
Grow(age) == IF age < Debounce THEN age + 1 ELSE age
Count(n) == IF n < MinPartials THEN n + 1 ELSE n

StabInit ==
  /\ stable = <<>> /\ tracks = <<>> /\ confidence = "high"
  /\ lasting = [i \in Places |-> [word |-> "none", seen |-> 0, latest |-> 0, age |-> 0]]
  /\ partial = <<>> /\ scores = "none"

(* ---- push ---- *)

\* The places where the transcript rewrites the stable prefix.
Rewritten(words) ==
  {i \in 1..Len(stable) : i <= Len(words) /\ words[i] # stable[i]}

\* Mutant of Kept: the tracks of the old tail survive the rollback.
KeptTracks(words) ==
  LET bad == Rewritten(words)
  IN IF bad = {} THEN [stable |-> stable, tracks |-> tracks]
     ELSE [stable |-> SubSeq(stable, 1, (CHOOSE i \in bad : \A j \in bad : i <= j) - 1),
           tracks |-> tracks]

\* The stable prefix and the tracks a rewrite leaves.
Kept(words) ==
  LET bad == Rewritten(words)
  IN IF bad = {} THEN [stable |-> stable, tracks |-> tracks]
     ELSE [stable |-> SubSeq(stable, 1, (CHOOSE i \in bad : \A j \in bad : i <= j) - 1),
           tracks |-> <<>>]

Followed(old, idx, w) == idx <= Len(old) /\ old[idx].token = w

Track(old, idx, w) ==
  IF Followed(old, idx, w)
  THEN [old[idx] EXCEPT !.count = Count(@)]
  ELSE [token |-> w, count |-> 1, age |-> 0]

Lasted(track) == track.count >= MinPartials /\ track.age >= Debounce

(* The loop over the pending words: it goes on while a word is stable and  *)
(* stops at the first that is not, whose track is the last it touches (a   *)
(* fresh track has yet to last, so the loop stops at a divergence too).    *)
Push(words, unsure) ==
  LET kept    == Kept(words)
      base    == Len(kept.stable)
      pending == SubSeq(words, base + 1, Len(words))
      Ready(idx) == /\ Lasted(Track(kept.tracks, idx, pending[idx]))
                    /\ base + idx \notin unsure
      n == CHOOSE k \in 0..Len(pending) :
             /\ \A idx \in 1..k : Ready(idx)
             /\ k < Len(pending) => ~Ready(k + 1)
      rest == SubSeq(kept.tracks, n + 1, Len(kept.tracks))
  IN /\ stable' = kept.stable \o SubSeq(pending, 1, n)
     /\ tracks' =
          IF n = Len(pending) THEN rest
          ELSE LET next == Track(kept.tracks, n + 1, pending[n + 1])
               IN IF Followed(kept.tracks, n + 1, pending[n + 1])
                  THEN <<next>> \o Tail(rest) ELSE <<next>>

(* ---- the transcription handler ---- *)

Note(words) ==
  [i \in Places |->
     LET l == lasting[i]
     IN IF i > Len(words) THEN [l EXCEPT !.latest = 0]
        ELSE IF words[i] = l.word THEN [l EXCEPT !.seen = Count(@), !.latest = Count(@)]
        ELSE [word |-> words[i], seen |-> 1, latest |-> 1, age |-> 0]]

Partial(words, unsure) ==
  /\ Push(words, unsure)
  /\ lasting' = Note(words) /\ partial' = words
  /\ UNCHANGED <<confidence, scores>>

\* Mutant of Final: the mean of nulls is taken.
FinalOfNulls(given) ==
  /\ confidence' = IF given = "none" THEN "high" ELSE given
  /\ scores' = given
  /\ stable' = <<>> /\ tracks' = <<>> /\ partial' = <<>>
  /\ lasting' = [i \in Places |-> [word |-> "none", seen |-> 0, latest |-> 0, age |-> 0]]

(* A final transcript with scores, with none, or with a list of nulls. *)
Final(given) ==
  /\ confidence' =
       CASE given \in {"high", "low"} -> given
         [] given = "none" -> "high"
         [] given = "nulls" -> confidence
  /\ scores' = given
  /\ stable' = <<>> /\ tracks' = <<>> /\ partial' = <<>>
  /\ lasting' = [i \in Places |-> [word |-> "none", seen |-> 0, latest |-> 0, age |-> 0]]

Wait ==
  /\ tracks' = [i \in DOMAIN tracks |-> [tracks[i] EXCEPT !.age = Grow(@)]]
  /\ lasting' = [i \in Places |-> [lasting[i] EXCEPT !.age = Grow(@)]]
  /\ UNCHANGED <<stable, confidence, partial, scores>>

StabNext ==
  \/ \E words \in Transcript, unsure \in SUBSET Places : Partial(words, unsure)
  \/ \E given \in {"high", "low", "none", "nulls"} : Final(given)
  \/ Wait

StabSpec == StabInit /\ [][StabNext]_stabVars

-----------------------------------------------------------------------------

(* The types of the variables. *)
StabTypeOK ==
  /\ stable \in Transcript /\ partial \in Transcript
  /\ tracks \in Seq([token : Tokens, count : 1..MinPartials, age : 0..Debounce])
  /\ Len(stable) + Len(tracks) <= MaxWords
  /\ confidence \in {"high", "low"} /\ scores \in {"none", "nulls", "high", "low"}
  /\ lasting \in [Places -> [word : Tokens \cup {"none"}, seen : 0..MinPartials,
                             latest : 0..MinPartials, age : 0..Debounce]]

(* What the prefetch is keyed by has lasted: every stable word was the     *)
(* word of its own place in MinPartials transcripts that reached it, over  *)
(* at least the debounce, whatever rewrites came in between.               *)
StableHasLasted ==
  \A i \in DOMAIN stable :
    /\ lasting[i].word = stable[i]
    /\ lasting[i].seen >= MinPartials /\ lasting[i].age >= Debounce

(* The stable prefix in every order of partials, finals and pauses. *)
StabInv == StabTypeOK /\ StableHasLasted

(* Violated.  "trust the newer hypothesis": a transcript that drops words  *)
(* the prefix already has leaves them in the prefetch's query.             *)
StableIsHeard == \A i \in DOMAIN stable : i <= Len(partial) /\ partial[i] = stable[i]

(* Violated.  "persisted unchanged across N consecutive partials": a       *)
(* transcript too short to reach the word does not start the count anew.   *)
StableWasConsecutive ==
  [][\A i \in DOMAIN stable' : i \notin DOMAIN stable => lasting'[i].latest >= MinPartials]_stabVars

(* Violated.  "treat as fully confident so the gate doesn't false-trigger": *)
(* scores that are all null leave those of an earlier turn.                 *)
ConfidenceIsThisTurns == confidence = "low" => scores = "low"
=============================================================================
