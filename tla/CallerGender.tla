--------------------------- MODULE CallerGender ----------------------------
(***************************************************************************)
(* The gender detector of src/gender.py and the hook of src/agent.py that  *)
(* runs it once per call: a rolling window of voiced frames, a decision by *)
(* its median every few frames, a lock after which only one frame in many  *)
(* is looked at, and the re-arming when those disagree.  A frame is one of *)
(* three pitch bands; the pitch estimate itself is not modelled, and a     *)
(* frame it rejects changes nothing before the lock.                       *)
(***************************************************************************)
EXTENDS Integers, Sequences, FiniteSets

CONSTANTS
  Window,          \* _WINDOW
  MinVoiced,       \* _MIN_VOICED_FOR_DECISION
  DecideInterval,  \* _DECIDE_INTERVAL
  LockFrames,      \* _LOCK_FRAMES
  Skip,            \* _MAINTENANCE_SKIP
  Relock           \* _RELOCK_DISAGREE

ASSUME GenderAssumption ==
  /\ {Window, LockFrames} \subseteq Nat
  /\ {MinVoiced, DecideInterval, Skip, Relock} \subseteq Nat \ {0}

VARIABLES
  attached,  \* _gender_spawned is not empty
  f0s,       \* the window, oldest first
  undecided, \* voiced_since_decide
  lastGender,\* last_gender
  locked, lockStreak, skipCounter, disagree,
  callerGender, \* cfg.caller_gender
  lastBand,  \* history: the band of the last frame
  agreed     \* history: voiced frames since the decision last changed

genderVars == <<attached, f0s, undecided, lastGender, locked, lockStreak, skipCounter,
                disagree, callerGender, lastBand, agreed>>

Bands == <<"male", "mid", "female">>   \* by pitch
Voices == {Bands[i] : i \in DOMAIN Bands} \cup {"unvoiced"}
GenderOf == [b \in {"male", "mid", "female"} |-> IF b = "mid" THEN "unknown" ELSE b]

GenderInit ==
  /\ attached = FALSE
  /\ f0s = <<>> /\ undecided = 0 /\ lastGender = "unknown"
  /\ locked = FALSE /\ lockStreak = 0 /\ skipCounter = 0 /\ disagree = 0
  /\ callerGender = "unknown" /\ lastBand = "unvoiced" /\ agreed = 0

(* _spawn_gender_for: the first audio track of the call, subscribed before *)
(* the hook or after it.                                                   *)
TrackSubscribed ==
  /\ ~attached
  /\ attached' = TRUE
  /\ UNCHANGED <<f0s, undecided, lastGender, locked, lockStreak, skipCounter, disagree,
                 callerGender, lastBand, agreed>>

(* The bands the median can be in: for an even window the mean of the two  *)
(* middle values lies anywhere between their bands.                        *)
Medians(window) ==
  LET below(k) == Cardinality({i \in DOMAIN window : \E j \in 1..k : window[i] = Bands[j]})
      At(n) == CHOOSE k \in DOMAIN Bands : n <= below(k) /\ (k = 1 \/ n > below(k - 1))
      low == At((Len(window) + 1) \div 2)
      high == At(Len(window) \div 2 + 1)
  IN {Bands[k] : k \in low..high}

Classified(window) ==
  IF Len(window) < MinVoiced THEN {"unknown"} ELSE {GenderOf[b] : b \in Medians(window)}

\* Mutant of Admit: the window grows.
AdmitAll(b) == Append(f0s, b)

Admit(b) ==
  LET all == Append(f0s, b)
  IN IF Len(all) > Window THEN Tail(all) ELSE all

(* A decision, every DecideInterval voiced frames: a change is told to the *)
(* call, and decided frames count towards the lock.                        *)
Decide(g) ==
  LET streak == IF g = "unknown" THEN 0 ELSE lockStreak + DecideInterval
  IN /\ lastGender' = g
     /\ callerGender' = (IF g = lastGender THEN callerGender ELSE g)
     /\ lockStreak' = streak /\ locked' = (streak >= LockFrames)
     /\ agreed' = (IF g # lastGender THEN DecideInterval
                   ELSE IF agreed >= LockFrames THEN agreed ELSE agreed + DecideInterval)

ActiveFrame(b) ==
  /\ attached /\ ~locked /\ b # "unvoiced"
  /\ f0s' = Admit(b) /\ lastBand' = b
  /\ IF undecided + 1 >= DecideInterval
     THEN undecided' = 0 /\ \E g \in Classified(Admit(b)) : Decide(g)
     ELSE undecided' = undecided + 1 /\ UNCHANGED <<lastGender, callerGender, lockStreak, locked, agreed>>
  /\ UNCHANGED <<attached, skipCounter, disagree>>

(* In maintenance every frame is counted and one in Skip is looked at. *)
SkippedFrame(b) ==
  /\ attached /\ locked /\ skipCounter + 1 < Skip
  /\ skipCounter' = skipCounter + 1
  /\ lastBand' = b
  /\ UNCHANGED <<attached, f0s, undecided, lastGender, locked, lockStreak, disagree, callerGender, agreed>>

\* Mutant of Disagrees: only the other gender's own band counts.
DisagreesClearly(b) == b \notin {lastGender, "unvoiced", "mid"}

Disagrees(b) == b \notin {lastGender, "unvoiced"}

Rearm ==
  /\ locked' = FALSE /\ lockStreak' = 0 /\ disagree' = 0 /\ f0s' = <<>>

SpotCheck(b) ==
  /\ attached /\ locked /\ skipCounter + 1 >= Skip
  /\ skipCounter' = 0 /\ lastBand' = b
  /\ IF b = "unvoiced" THEN UNCHANGED <<locked, lockStreak, disagree, f0s>>
     ELSE IF Disagrees(b) /\ disagree + 1 >= Relock THEN Rearm
     ELSE /\ disagree' = (IF Disagrees(b) THEN disagree + 1 ELSE 0)
          /\ UNCHANGED <<locked, lockStreak, f0s>>
  /\ UNCHANGED <<attached, undecided, lastGender, callerGender, agreed>>

Frame(b) == ActiveFrame(b) \/ SkippedFrame(b) \/ SpotCheck(b)

GenderNext ==
  \/ TrackSubscribed
  \/ \E b \in Voices : Frame(b)

(* The stream yields a frame every few milliseconds until the call ends. *)
GenderFairness == WF_genderVars(\E b \in Voices : Frame(b))
GenderSpec == GenderInit /\ [][GenderNext]_genderVars /\ GenderFairness

-----------------------------------------------------------------------------

(* The types of the variables. *)
GenderTypeOK ==
  /\ {attached, locked} \subseteq BOOLEAN
  /\ f0s \in Seq(Voices \ {"unvoiced"}) /\ Len(f0s) <= Window
  /\ undecided \in 0..(DecideInterval - 1)
  /\ {lastGender, callerGender} \subseteq {"unknown", "male", "female"}
  /\ lockStreak \in 0..(LockFrames + DecideInterval)
  /\ skipCounter \in 0..(Skip - 1) /\ disagree \in 0..(Relock - 1)
  /\ lastBand \in Voices

(* The lock is no latch: when the phone is handed over and one voice stays *)
(* on the line, the agent's honorifics come to follow it, and go when it   *)
(* is in the band between the genders (drift: "re-arms").                  *)
VoiceFollowed ==
  \A b \in {"male", "mid", "female"} :
    <>[](lastBand = b) => <>[](callerGender = GenderOf[b])

(* Violated.  "voiced frames of agreement to enter maintenance": the       *)
(* streak goes on when the decision changes from one gender to the other.  *)
LockMeansAgreement == locked => agreed >= LockFrames
=============================================================================
