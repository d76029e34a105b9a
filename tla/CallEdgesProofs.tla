--------------------------- MODULE CallEdgesProofs ---------------------------
(***************************************************************************)
(* The theorems about how a call begins and ends: the hangup and the grace *)
(* check, for every grace and goodbye time and any number of drops; the    *)
(* start, for any calls that share their openers; the gender detector, for *)
(* any window and thresholds.                                              *)
(***************************************************************************)
EXTENDS CallEdgesMC, FiniteSetTheorems, TLAPS

(* ---- the hangup ---- *)

\* Nothing has been asked for in the initial state.
LEMMA HangupInit == ASSUME Init PROVE HangupInv
  BY DEF Init, HangupInv

\* Only the call that finds the flag unset ever sleeps and deletes.
LEMMA HangupStep == ASSUME HangupInv, [Next]_vars PROVE HangupInv'
<1> USE DEF HangupInv
<1>1. CASE Leave \/ Return \/ Tick
  BY <1>1 DEF Leave, Return, Tick
<1>2. CASE EndCall
  BY <1>2 DEF EndCall, Hangup
<1>3. CASE GraceExpires
  BY <1>3 DEF GraceExpires, Hangup
<1>4. CASE DeleteRoom
  BY <1>4 DEF DeleteRoom
<1>5. CASE DeleteFails
  BY <1>5 DEF DeleteFails
<1>6. CASE UNCHANGED vars
  BY <1>6 DEF vars
<1> QED
  BY <1>1, <1>2, <1>3, <1>4, <1>5, <1>6 DEF Next

\* However many of the tool, the goodbye guard, the bye route and the grace
\* check want the call over, the room is deleted at most once (DeletedOnce).
THEOREM RoomDeletedOnce == Spec => []DeletedOnce
<1>1. Init => HangupInv
  BY HangupInit
<1>2. HangupInv /\ [Next]_vars => HangupInv'
  BY HangupStep
<1>3. HangupInv => DeletedOnce
  BY DEF HangupInv, DeletedOnce
<1> QED
  BY <1>1, <1>2, <1>3, PTL DEF Spec

\* The grace, the goodbye and the bound on drops are numbers.
LEMMA Times == Grace \in Nat /\ Goodbye \in Nat /\ MaxDrops \in Nat
BY TimerAssumption DEF TimerAssumption

(* Until somebody wants the call over, the countdown of the first drop and *)
(* the time since it make up the grace; a caller who came back and left    *)
(* again has dropped twice, and the room's deletion comes after a request. *)
GraceIInv ==
  /\ TypeOK /\ HangupInv
  /\ fired => why # "none"
  /\ ~fired => why = "none"
  /\ drops = 0 => check = "none"
  /\ drops = 1 /\ caller = "gone" /\ check = "counting" /\ ~fired => away + left = Grace

\* The invariant of the grace holds when the call begins.
LEMMA GraceInit == Init => GraceIInv
<1> SUFFICES ASSUME Init PROVE GraceIInv
  OBVIOUS
<1>1. told \in BOOLEAN /\ fired \in BOOLEAN
  BY DEF Init
<1>2. /\ away \in 0..Grace /\ drops \in 0..MaxDrops /\ left \in 0..Grace
      /\ wait \in 0..Goodbye /\ attempts \in Nat
  BY Times DEF Init
<1>3. TypeOK
  BY <1>1, <1>2 DEF Init, TypeOK
<1> QED
  BY <1>3, HangupInit DEF Init, GraceIInv

\* Every step of the ending keeps it.
LEMMA GraceStep == GraceIInv /\ [Next]_vars => GraceIInv'
<1> SUFFICES ASSUME GraceIInv, [Next]_vars PROVE GraceIInv'
  OBVIOUS
<1> DEFINE Flags == told' \in BOOLEAN /\ fired' \in BOOLEAN
           Places == /\ caller' \in {"present", "gone"} /\ check' \in {"none", "counting", "hanging"}
                     /\ why' \in {"none", "agent", "grace"}
                     /\ hang' \in {"idle", "sleeping", "over"} /\ room' \in {"open", "deleted"}
           Numbers == /\ away' \in 0..Grace /\ drops' \in 0..MaxDrops /\ left' \in 0..Grace
                      /\ wait' \in 0..Goodbye /\ attempts' \in Nat
           Reasons == /\ fired' => why' # "none"
                      /\ ~fired' => why' = "none"
           First == /\ drops' = 0 => check' = "none"
                    /\ drops' = 1 /\ caller' = "gone" /\ check' = "counting" /\ ~fired' =>
                         away' + left' = Grace
<1> SUFFICES Flags /\ Places /\ Numbers /\ Reasons /\ First
  BY HangupStep DEF GraceIInv, TypeOK
<1> USE Times DEF GraceIInv, TypeOK
<1>1. CASE Leave
  <2>1. Numbers /\ First
    BY <1>1 DEF Leave, OnDisconnect
  <2>2. Flags /\ Places /\ Reasons
    BY <1>1 DEF Leave, OnDisconnect
  <2> QED
    BY <2>1, <2>2
<1>2. CASE Return
  <2>1. Numbers /\ First
    BY <1>2 DEF Return
  <2>2. Flags /\ Places /\ Reasons
    BY <1>2 DEF Return
  <2> QED
    BY <2>1, <2>2
<1>3. ASSUME NEW r \in {"agent", "grace"}, Hangup(r)
      PROVE  /\ why' \in {"none", "agent", "grace"} /\ hang' \in {"idle", "sleeping", "over"}
             /\ fired' = TRUE /\ Reasons
  BY <1>3 DEF Hangup
<1>4. ASSUME NEW r \in {"agent", "grace"}, Hangup(r) PROVE wait' \in 0..Goodbye
  BY <1>4 DEF Hangup
<1>5. CASE EndCall
  <2>1. UNCHANGED <<caller, away, drops, told, check, left, attempts, room>> /\ Hangup("agent")
    BY <1>5 DEF EndCall
  <2>2. Flags /\ Places /\ Reasons
    BY <1>3, <2>1
  <2>3. Numbers
    BY <1>4, <2>1
  <2>4. First
    BY <1>3, <2>1
  <2> QED
    BY <2>2, <2>3, <2>4
<1>6. CASE GraceExpires
  <2>1. UNCHANGED <<caller, away, drops, told, left, attempts, room>>
        /\ check = "counting" /\ check' \in {"none", "hanging"}
    BY <1>6 DEF GraceExpires
  <2>2. Hangup("grace") \/ UNCHANGED <<fired, why, hang, wait>>
    BY <1>6 DEF GraceExpires
  <2>3. Flags /\ Places /\ Reasons
    <3>1. CASE Hangup("grace")
      BY <1>3, <2>1, <3>1
    <3>2. CASE UNCHANGED <<fired, why, hang, wait>>
      BY <2>1, <3>2
    <3> QED
      BY <2>2, <3>1, <3>2
  <2>4. Numbers
    BY <1>4, <2>1, <2>2
  <2>5. First
    BY <2>1
  <2> QED
    BY <2>3, <2>4, <2>5
<1>7. CASE DeleteRoom \/ DeleteFails
  <2>1. UNCHANGED <<away, drops, left, fired, why, wait>> /\ fired
        /\ attempts' = attempts + 1 /\ hang' = "over" /\ check' = CheckReturns
    BY <1>7 DEF DeleteRoom, DeleteFails, HangupInv
  <2>2. /\ (told' = TRUE /\ caller' = "gone" /\ room' = "deleted") \/ UNCHANGED <<told, caller, room>>
        /\ check' \in {"none", "counting", "hanging"}
    BY <1>7, <2>1 DEF DeleteRoom, DeleteFails, CheckReturns
  <2>3. Numbers
    BY <2>1
  <2>4. First
    BY <2>1 DEF CheckReturns
  <2>5. Flags /\ Places /\ Reasons
    BY <2>1, <2>2
  <2> QED
    BY <2>3, <2>4, <2>5
<1>8. CASE Tick
  <2>1. Numbers /\ First
    BY <1>8 DEF Tick, Less
  <2>2. Flags /\ Places /\ Reasons
    BY <1>8 DEF Tick
  <2> QED
    BY <2>1, <2>2
<1>9. CASE UNCHANGED vars
  <2>1. Numbers /\ First
    BY <1>9 DEF vars
  <2>2. Flags /\ Places /\ Reasons
    BY <1>9 DEF vars
  <2> QED
    BY <2>1, <2>2
<1> QED
  BY <1>1, <1>2, <1>5, <1>6, <1>7, <1>8, <1>9 DEF Next

(* A caller who has dropped once is given the whole window, whatever the   *)
(* agent asks for in the meantime (FirstDropHasFullGrace).                 *)
THEOREM FirstDropsWait == Spec => FirstDropHasFullGrace
<1>1. GraceIInv /\ [Next]_vars =>
        [why = "none" /\ why' = "grace" /\ drops = 1 => away = Grace]_vars
  <2> SUFFICES ASSUME GraceIInv, Next, why = "none", why' = "grace", drops = 1
               PROVE  away = Grace
    OBVIOUS
  <2>1. GraceExpires /\ caller = "gone"
    BY DEF Next, Leave, Return, EndCall, GraceExpires, DeleteRoom, DeleteFails, Tick, Hangup
  <2> QED
    BY <2>1, Times DEF GraceExpires, GraceIInv, TypeOK
<1> QED
  BY <1>1, GraceInit, GraceStep, PTL DEF Spec, FirstDropHasFullGrace

-----------------------------------------------------------------------------

(* ---- the start ---- *)

Openers == [text : Texts, by : Starts]
Spoken == Texts \cup {"", "greeting", "template"}
TaskPlaces == {"none", "picking", "asking", "reading", "writing", "done"}

(* The lists that are in their bound and keep no opener twice. *)
OrderlyLists ==
  {list \in Seq(Openers) :
     /\ Len(list) <= MaxOpeners
     /\ \A i, j \in DOMAIN list : list[i].text = list[j].text => i = j}

(* What a task carries to the shared list is as orderly as the list, even  *)
(* when another task has written there since, and lacks the text to add.   *)
SoundTasks ==
  {t \in [at : TaskPlaces, read : Seq(Openers), text : Spoken \cup {"none"}] :
     /\ t.at \in {"reading", "writing"} => t.text \in Texts
     /\ t.at = "done" => t.text \in Spoken
     /\ t.at = "writing" => /\ t.read \in OrderlyLists
                            /\ \A i \in DOMAIN t.read : t.read[i].text # t.text}

StartIInv ==
  /\ StartTypeOK /\ JoinedIsOpened
  /\ meta \in [Starts -> Metas] /\ profile \in [Starts -> {"hint", "no hint"}]
  /\ opener \in [Starts -> SoundTasks]
  /\ openers \in [Keys -> OrderlyLists]

(* What the detector's counters add to their types: before the lock the    *)
(* streak is short of it.                                                  *)
GenderIInv == GenderTypeOK /\ (~locked => lockStreak <= LockFrames)

\* The cache of openers has a size.
LEMMA OpenersMax == MaxOpeners \in Nat
BY StartAssumption DEF StartAssumption

\* An empty list and an absent task are sound.
LEMMA Nothing == <<>> \in OrderlyLists /\ NoTask \in SoundTasks
<1>1. <<>> \in Seq(Openers)
  OBVIOUS
<1>2. Len(<<>>) = 0
  OBVIOUS
<1>3. DOMAIN <<>> = {}
  OBVIOUS
<1>4. <<>> \in OrderlyLists
  BY <1>1, <1>2, <1>3, OpenersMax DEF OrderlyLists
<1> QED
  BY <1>1, <1>4 DEF NoTask, SoundTasks, TaskPlaces

\* The invariant of the start holds before any call.
LEMMA StartInitInv == StartInit => StartIInv
<1> SUFFICES ASSUME StartInit PROVE StartIInv
  OBVIOUS
<1> USE DEF StartInit
<1>1. /\ openers \in [Keys -> OrderlyLists] /\ opener \in [Starts -> SoundTasks]
      /\ meta \in [Starts -> Metas] /\ profile \in [Starts -> {"hint", "no hint"}]
  BY Nothing
<1>2. StartTypeOK /\ JoinedIsOpened
  BY DEF StartTypeOK, JoinedIsOpened, NoTask, Valid
<1> QED
  BY <1>1, <1>2 DEF StartIInv

(* A task of the prebaking goes on to a place, with or without a text. *)
LEMMA TaskGoes ==
  ASSUME NEW t \in SoundTasks
  PROVE  /\ [t EXCEPT !.at = "asking"] \in SoundTasks
         /\ [t EXCEPT !.at = "picking"] \in SoundTasks
         /\ \A x \in Spoken : [t EXCEPT !.at = "done", !.text = x] \in SoundTasks
         /\ \A x \in Texts : [t EXCEPT !.at = "reading", !.text = x] \in SoundTasks
         /\ t.text \in Spoken => [t EXCEPT !.at = "done"] \in SoundTasks
         /\ \A r \in OrderlyLists :
              t.text \in Texts /\ (\A i \in DOMAIN r : r[i].text # t.text) =>
                [t EXCEPT !.at = "writing", !.read = r] \in SoundTasks
<1>1. OrderlyLists \subseteq Seq(Openers) /\ Texts \subseteq Spoken
  BY DEF OrderlyLists, Spoken
<1> QED
  BY <1>1 DEF SoundTasks, TaskPlaces

\* The cache is asked with a key.
LEMMA KeyOf == ASSUME StartIInv, NEW c \in Starts PROVE OpenerKey(c) \in Keys
BY DEF StartIInv, OpenerKey, Keys

(* A text that is not in an orderly list makes a list that is orderly once *)
(* its oldest opener is dropped.                                           *)
LEMMA BoundedIsOrderly ==
  ASSUME NEW r \in OrderlyLists, NEW o \in Openers, \A i \in DOMAIN r : r[i].text # o.text
  PROVE  Bounded(Append(r, o)) \in OrderlyLists
<1> DEFINE all == Append(r, o)
<1>0. /\ MaxOpeners \in Nat /\ r \in Seq(Openers) /\ Len(r) \in Nat /\ Len(r) <= MaxOpeners
      /\ DOMAIN r = 1..Len(r)
      /\ \A i, j \in 1..Len(r) : r[i].text = r[j].text => i = j
  BY OpenersMax DEF OrderlyLists
<1>1. /\ all \in Seq(Openers) /\ Len(all) = Len(r) + 1 /\ DOMAIN all = 1..(Len(r) + 1)
      /\ all[Len(r) + 1] = o /\ \A i \in 1..Len(r) : all[i] = r[i]
  BY <1>0
<1>2. \A i, j \in 1..(Len(r) + 1) : all[i].text = all[j].text => i = j
  BY <1>0, <1>1
<1> HIDE DEF all
<1>3. CASE Len(all) <= MaxOpeners
  <2>1. Bounded(all) = all
    BY <1>0, <1>1, <1>3 DEF Bounded
  <2> QED
    BY <1>1, <1>2, <1>3, <2>1 DEF OrderlyLists, all
<1>4. CASE Len(all) > MaxOpeners
  <2>1. Bounded(all) = Tail(all)
    BY <1>4 DEF Bounded
  <2>2. /\ Tail(all) \in Seq(Openers) /\ Len(Tail(all)) = Len(r)
        /\ DOMAIN Tail(all) = 1..Len(r) /\ \A i \in 1..Len(r) : Tail(all)[i] = all[i + 1]
    BY <1>0, <1>1
  <2>3. ASSUME NEW i \in 1..Len(r), NEW j \in 1..Len(r), Tail(all)[i].text = Tail(all)[j].text
        PROVE  i = j
    <3>1. i + 1 \in 1..(Len(r) + 1) /\ j + 1 \in 1..(Len(r) + 1)
      BY <1>0
    <3> QED
      BY <1>2, <2>2, <2>3, <3>1
  <2>4. Tail(all) \in OrderlyLists
    BY <1>0, <2>2, <2>3 DEF OrderlyLists
  <2> QED
    BY <2>1, <2>4 DEF all
<1> QED
  BY <1>0, <1>1, <1>3, <1>4

\* Every step of a starting call keeps it.
LEMMA StartStep == StartIInv /\ [StartNext]_startVars => StartIInv'
<1> SUFFICES ASSUME StartIInv, [StartNext]_startVars PROVE StartIInv'
  OBVIOUS
<1> DEFINE Steps == {"connected", "loading", "built", "waiting", "opening", "talking", "crashed"}
           Firsts == Texts \cup {"none", "reply", "greeting", "template"}
<1>0. /\ step \in [Starts -> Steps] /\ seeded \in [Starts -> Valid]
      /\ party \in [Starts -> {"absent", "in", "left"}] /\ heard \in [Starts -> Firsts]
      /\ meta \in [Starts -> Metas] /\ profile \in [Starts -> {"hint", "no hint"}]
      /\ opener \in [Starts -> SoundTasks] /\ openers \in [Keys -> OrderlyLists]
      /\ JoinedIsOpened
  BY DEF StartIInv, StartTypeOK
<1>1. ASSUME /\ step' \in [Starts -> Steps] /\ seeded' \in [Starts -> Valid]
             /\ party' \in [Starts -> {"absent", "in", "left"}] /\ heard' \in [Starts -> Firsts]
             /\ meta' \in [Starts -> Metas] /\ profile' \in [Starts -> {"hint", "no hint"}]
             /\ opener' \in [Starts -> SoundTasks] /\ openers' \in [Keys -> OrderlyLists]
             /\ JoinedIsOpened'
      PROVE  StartIInv'
  <2>1. \A c \in Starts : opener'[c].at \in TaskPlaces
    BY <1>1 DEF SoundTasks
  <2> QED
    BY <1>1, <2>1 DEF StartIInv, StartTypeOK, TaskPlaces
<1>2. ASSUME NEW c \in Starts, Configure(c) \/ StartSession(c) \/ JoinTimeout(c) PROVE StartIInv'
  <2>1. UNCHANGED <<meta, profile, seeded, opener, party, heard, openers>>
    BY <1>2 DEF Configure, StartSession, JoinTimeout
  <2>2. PICK s \in Steps : /\ step' = [step EXCEPT ![c] = s]
                           /\ s = "waiting" => party[c] = "absent"
    BY <1>2 DEF Configure, StartSession, JoinTimeout
  <2> QED
    BY <1>0, <1>1, <2>1, <2>2 DEF JoinedIsOpened
<1>3. ASSUME NEW c \in Starts, BuildPrompt(c) PROVE StartIInv'
  <2>1. UNCHANGED <<meta, party, heard, openers>> /\ step' = [step EXCEPT ![c] = "built"]
    BY <1>3 DEF BuildPrompt
  <2>2. profile' \in [Starts -> {"hint", "no hint"}]
    BY <1>0, <1>3 DEF BuildPrompt
  <2>3. seeded' \in [Starts -> Valid]
    BY <1>0, <1>3 DEF BuildPrompt
  <2>4. LocalOpener(c) \in Spoken
    BY DEF LocalOpener, Spoken
  <2>5. opener[c] \in SoundTasks
    BY <1>0
  <2>6. \/ opener' = [opener EXCEPT ![c] = [opener[c] EXCEPT !.at = "done", !.text = LocalOpener(c)]]
        \/ opener' = [opener EXCEPT ![c] = [opener[c] EXCEPT !.at = "picking"]]
    BY <1>3 DEF BuildPrompt
  <2>7. opener' \in [Starts -> SoundTasks]
    BY ZenonT(60), <1>0, <2>4, <2>5, <2>6, TaskGoes
  <2>8. step' \in [Starts -> Steps] /\ JoinedIsOpened'
    BY <1>0, <2>1 DEF JoinedIsOpened
  <2> QED
    BY <1>0, <1>1, <2>1, <2>2, <2>3, <2>7, <2>8
<1>4. ASSUME NEW c \in Starts, CalleeJoins(c) \/ CalleeLeaves(c) PROVE StartIInv'
  <2>1. UNCHANGED <<meta, profile, seeded, opener, heard, openers>>
    BY <1>4 DEF CalleeJoins, CalleeLeaves
  <2>2. /\ step' \in [Starts -> Steps] /\ party' \in [Starts -> {"absent", "in", "left"}]
        /\ JoinedIsOpened'
    BY <1>0, <1>4 DEF CalleeJoins, CalleeLeaves, JoinedIsOpened
  <2> QED
    BY <1>0, <1>1, <2>1, <2>2
<1>5. ASSUME NEW c \in Starts, SpeakOpener(c) PROVE StartIInv'
  <2>1. UNCHANGED <<meta, profile, seeded, opener, party, openers>>
        /\ step' = [step EXCEPT ![c] = "talking"]
    BY <1>5 DEF SpeakOpener
  <2>2. opener[c].text \in Spoken
    BY <1>0, <1>5 DEF SpeakOpener, SoundTasks
  <2>3. heard' \in [Starts -> Firsts]
    BY <1>0, <1>5, <2>2 DEF SpeakOpener, Spoken
  <2>4. step' \in [Starts -> Steps] /\ JoinedIsOpened'
    BY <1>0, <2>1 DEF JoinedIsOpened
  <2> QED
    BY <1>0, <1>1, <2>1, <2>3, <2>4
<1>6. ASSUME NEW c \in Starts, Prebake(c) PROVE StartIInv'
  <2>1. UNCHANGED <<meta, step, profile, seeded, party, heard>>
    BY <1>6 DEF Prebake, PickCached, AskModel, ReadOpeners, WriteOpeners, Rest
  <2>2. SUFFICES opener' \in [Starts -> SoundTasks] /\ openers' \in [Keys -> OrderlyLists]
    BY <1>0, <1>1, <2>1 DEF JoinedIsOpened
  <2> DEFINE t == opener[c]
             kept == openers[OpenerKey(c)]
  <2>3. /\ t \in SoundTasks /\ kept \in OrderlyLists /\ OpenerKey(c) \in Keys
        /\ \A i \in DOMAIN kept : kept[i].text \in Texts
    <3>1. t \in SoundTasks /\ OpenerKey(c) \in Keys /\ kept \in OrderlyLists
      BY <1>0, KeyOf
    <3> HIDE DEF kept
    <3>2. kept \in Seq(Openers)
      BY <3>1 DEF OrderlyLists
    <3>3. \A i \in DOMAIN kept : kept[i] \in Openers
      BY <3>2
    <3>4. \A i \in DOMAIN kept : kept[i].text \in Texts
      BY <3>3 DEF Openers
    <3> QED
      BY <3>1, <3>4
  <2>4. Texts \subseteq Spoken /\ "" \in Spoken
    BY DEF Spoken
  <2>5. ASSUME NEW u \in SoundTasks, opener' = [opener EXCEPT ![c] = u]
        PROVE  opener' \in [Starts -> SoundTasks]
    BY <1>0, <2>5
  <2>6. ASSUME NEW place, Goes(c, place) PROVE opener' = [opener EXCEPT ![c] = [t EXCEPT !.at = place]]
    BY <2>6 DEF Goes
  <2>7. CASE PickCached(c)
    <3>1. \/ Goes(c, "asking")
          \/ \E o \in Listed(kept) :
               opener' = [opener EXCEPT ![c] = [t EXCEPT !.at = "done", !.text = o.text]]
      BY <2>7 DEF PickCached
    <3>2. \A o \in Listed(kept) : o.text \in Spoken
      BY <2>3, <2>4 DEF Listed
    <3>3. UNCHANGED openers
      BY <2>7 DEF PickCached
    <3> HIDE DEF kept
    <3>4. opener' \in [Starts -> SoundTasks]
      <4>1. CASE Goes(c, "asking")
        BY <2>3, <2>5, <2>6, <4>1, TaskGoes
      <4>2. CASE ~Goes(c, "asking")
        BY <2>3, <2>5, <3>1, <3>2, <4>2, TaskGoes
      <4> QED
        BY <4>1, <4>2
    <3> QED
      BY <1>0, <3>3, <3>4
  <2>8. CASE AskModel(c)
    <3>1. \/ \E x \in Texts : opener' = [opener EXCEPT ![c] = [t EXCEPT !.at = "reading", !.text = x]]
          \/ opener' = [opener EXCEPT ![c] = [t EXCEPT !.at = "done", !.text = ""]]
      BY <2>8 DEF AskModel
    <3>2. UNCHANGED openers
      BY <2>8 DEF AskModel
    <3> QED
      BY <1>0, <2>3, <2>4, <2>5, <3>1, <3>2, TaskGoes
  <2>9. CASE ReadOpeners(c)
    <3>1. t.text \in Texts /\ t.text \in Spoken
      BY <2>3, <2>4, <2>9 DEF ReadOpeners, SoundTasks
    <3>2. \/ Goes(c, "done")
          \/ /\ t.text \notin {o.text : o \in Listed(kept)}
             /\ opener' = [opener EXCEPT ![c] = [t EXCEPT !.at = "writing", !.read = kept]]
      BY <2>9 DEF ReadOpeners
    <3>3. UNCHANGED openers
      BY <2>9 DEF ReadOpeners
    <3>4. opener' \in [Starts -> SoundTasks]
      <4>1. CASE Goes(c, "done")
        BY <2>3, <2>5, <2>6, <3>1, <4>1, TaskGoes
      <4>2. CASE ~Goes(c, "done")
        <5>1. \A i \in DOMAIN kept : kept[i].text # t.text
          BY <3>2, <4>2 DEF Listed
        <5>2. [t EXCEPT !.at = "writing", !.read = kept] \in SoundTasks
          BY <2>3, <3>1, <5>1, TaskGoes
        <5> QED
          BY <2>5, <3>2, <4>2, <5>2
      <4> QED
        BY <4>1, <4>2
    <3> QED
      BY <1>0, <3>3, <3>4
  <2>10. CASE WriteOpeners(c)
    <3>1. /\ t.text \in Spoken /\ t.text \in Texts /\ t.read \in OrderlyLists
          /\ \A i \in DOMAIN t.read : t.read[i].text # t.text
      BY <2>3, <2>4, <2>10 DEF WriteOpeners, SoundTasks
    <3>2. opener' \in [Starts -> SoundTasks]
      BY <2>3, <2>5, <2>6, <2>10, <3>1, TaskGoes DEF WriteOpeners
    <3> DEFINE o == [text |-> t.text, by |-> c]
    <3>3. o \in Openers /\ o.text = t.text
      BY <3>1 DEF Openers
    <3>4. UNCHANGED openers \/ openers' = [openers EXCEPT ![OpenerKey(c)] = Bounded(Append(t.read, o))]
      BY <2>10 DEF WriteOpeners
    <3>5. Bounded(Append(t.read, o)) \in OrderlyLists
      BY <3>1, <3>3, BoundedIsOrderly
    <3> HIDE DEF o
    <3>6. openers' \in [Keys -> OrderlyLists]
      BY <1>0, <2>3, <3>4, <3>5
    <3> QED
      BY <3>2, <3>6
  <2> QED
    BY <1>6, <2>7, <2>8, <2>9, <2>10 DEF Prebake
<1>7. CASE UNCHANGED startVars
  BY <1>0, <1>1, <1>7 DEF startVars, JoinedIsOpened
<1> QED
  BY <1>2, <1>3, <1>4, <1>5, <1>6, <1>7 DEF StartNext, Entrypoint

\* It gives what the run checks.
LEMMA StartShows == StartIInv => StartInv
<1> SUFFICES ASSUME StartIInv PROVE OpenersBounded
  BY DEF StartIInv, StartInv
<1>1. \A k \in Keys : openers[k] \in OrderlyLists
  BY DEF StartIInv
<1> QED
  BY <1>1 DEF OpenersBounded, OrderlyLists

-----------------------------------------------------------------------------

(* ---- the gender detector ---- *)

Pitches == {"male", "mid", "female"}

\* The frame counts are numbers, those the code divides or waits by above zero.
LEMMA Thresholds ==
  /\ Window \in Nat /\ LockFrames \in Nat
  /\ MinVoiced \in Nat \ {0} /\ DecideInterval \in Nat \ {0}
  /\ Skip \in Nat \ {0} /\ Relock \in Nat \ {0}
BY GenderAssumption DEF GenderAssumption

\* The three bands of pitch, and a frame without voice is in none.
LEMMA PitchBands ==
  /\ DOMAIN Bands = 1..3 /\ Bands[1] = "male" /\ Bands[2] = "mid" /\ Bands[3] = "female"
  /\ Voices = Pitches \cup {"unvoiced"} /\ "unvoiced" \notin Pitches
<1>1. DOMAIN Bands = 1..3 /\ Bands[1] = "male" /\ Bands[2] = "mid" /\ Bands[3] = "female"
  BY DEF Bands
<1>2. {Bands[i] : i \in DOMAIN Bands} = Pitches
  BY <1>1 DEF Pitches
<1> QED
  BY <1>1, <1>2 DEF Voices, Pitches

(* The median of a window with a frame in it is in a band: all its frames  *)
(* are in one of the three, so a lowest band that reaches the middle is    *)
(* there to be chosen.                                                     *)
LEMMA MedianIsPitch ==
  ASSUME NEW w \in Seq(Pitches), Len(w) > 0
  PROVE  Medians(w) \subseteq Pitches
<1> DEFINE below(k) == Cardinality({i \in DOMAIN w : \E j \in 1..k : w[i] = Bands[j]})
           Mid(n) == CHOOSE k \in DOMAIN Bands : n <= below(k) /\ (k = 1 \/ n > below(k - 1))
           low == Mid((Len(w) + 1) \div 2)
           high == Mid(Len(w) \div 2 + 1)
<1>0. Len(w) \in Nat /\ DOMAIN w = 1..Len(w)
  OBVIOUS
<1>1. below(3) = Len(w)
  <2>1. \A i \in DOMAIN w : \E j \in 1..3 : w[i] = Bands[j]
    BY PitchBands DEF Pitches
  <2>2. {i \in DOMAIN w : \E j \in 1..3 : w[i] = Bands[j]} = 1..Len(w)
    BY <1>0, <2>1
  <2>3. Cardinality(1..Len(w)) = Len(w)
    BY <1>0, FS_Interval
  <2> QED
    BY <2>2, <2>3
<1>2. \A k \in 1..3 : below(k) \in Nat
  <2> SUFFICES ASSUME NEW k \in 1..3 PROVE below(k) \in Nat
    OBVIOUS
  <2>1. IsFiniteSet(1..Len(w))
    BY <1>0, FS_Interval
  <2>2. {i \in DOMAIN w : \E j \in 1..k : w[i] = Bands[j]} \subseteq 1..Len(w)
    BY <1>0
  <2> QED
    BY <2>1, <2>2, FS_Subset, FS_CardinalityType
<1> HIDE DEF below
<1>3. ASSUME NEW n \in Nat, n <= Len(w) PROVE Mid(n) \in 1..3
  <2>1. \E k \in 1..3 : n <= below(k) /\ (k = 1 \/ n > below(k - 1))
    <3>1. CASE n <= below(1)
      BY <3>1
    <3>2. CASE n > below(1) /\ n <= below(2)
      BY <3>2
    <3>3. CASE n > below(2)
      BY <1>1, <1>3, <3>3
    <3> QED
      BY <1>2, <3>1, <3>2, <3>3
  <2> QED
    BY <2>1, PitchBands
<1>4. low \in 1..3 /\ high \in 1..3
  <2>1. (Len(w) + 1) \div 2 \in Nat /\ (Len(w) + 1) \div 2 <= Len(w)
    BY <1>0
  <2>2. Len(w) \div 2 + 1 \in Nat /\ Len(w) \div 2 + 1 <= Len(w)
    BY <1>0
  <2> HIDE DEF Mid
  <2> QED
    BY <1>3, <2>1, <2>2
<1>5. Medians(w) = {Bands[k] : k \in low..high}
  BY DEF Medians, below
<1> HIDE DEF low, high
<1>6. \A k \in low..high : k \in 1..3
  BY <1>4
<1>7. \A k \in 1..3 : Bands[k] \in Pitches
  BY PitchBands DEF Pitches
<1> QED
  BY <1>5, <1>6, <1>7

\* A pitch is classified as one of the genders or as none.
LEMMA ClassifiedType ==
  ASSUME NEW w \in Seq(Pitches)
  PROVE  Classified(w) \subseteq {"unknown", "male", "female"}
<1>1. CASE Len(w) < MinVoiced
  BY <1>1 DEF Classified
<1>2. CASE ~(Len(w) < MinVoiced)
  <2>1. Medians(w) \subseteq Pitches
    BY <1>2, Thresholds, MedianIsPitch
  <2>2. \A b \in Pitches : GenderOf[b] \in {"unknown", "male", "female"}
    BY DEF GenderOf, Pitches
  <2> QED
    BY <1>2, <2>1, <2>2 DEF Classified
<1> QED
  BY <1>1, <1>2

\* A voiced frame joins a window that stays within its length.
LEMMA Admitted ==
  ASSUME GenderTypeOK, NEW b \in Pitches
  PROVE  Admit(b) \in Seq(Pitches) /\ Len(Admit(b)) <= Window
<1>1. f0s \in Seq(Pitches) /\ Len(f0s) <= Window
  BY PitchBands DEF GenderTypeOK
<1> DEFINE all == Append(f0s, b)
<1>2. all \in Seq(Pitches) /\ Len(all) = Len(f0s) + 1 /\ Len(f0s) \in Nat
  BY <1>1
<1> HIDE DEF all
<1>3. Len(all) > 0 => Tail(all) \in Seq(Pitches) /\ Len(Tail(all)) = Len(all) - 1
  BY <1>2
<1>4. Admit(b) = IF Len(all) > Window THEN Tail(all) ELSE all
  BY DEF Admit, all
<1> QED
  BY <1>1, <1>2, <1>3, <1>4, Thresholds

\* The invariant of the detector holds before the first frame.
LEMMA GenderInitInv == GenderInit => GenderIInv
<1> SUFFICES ASSUME GenderInit PROVE GenderIInv
  OBVIOUS
<1>1. f0s \in Seq(Voices \ {"unvoiced"}) /\ Len(f0s) = 0
  BY DEF GenderInit
<1>2. lastBand \in Voices
  BY PitchBands DEF GenderInit
<1>3. {attached, locked} \subseteq BOOLEAN
  BY DEF GenderInit
<1>4. /\ undecided \in 0..(DecideInterval - 1) /\ lockStreak \in 0..(LockFrames + DecideInterval)
      /\ skipCounter \in 0..(Skip - 1) /\ disagree \in 0..(Relock - 1)
      /\ Len(f0s) <= Window /\ lockStreak <= LockFrames
  BY <1>1, Thresholds DEF GenderInit
<1>5. {lastGender, callerGender} \subseteq {"unknown", "male", "female"}
  BY DEF GenderInit
<1> QED
  BY <1>1, <1>2, <1>3, <1>4, <1>5 DEF GenderIInv, GenderTypeOK

\* Every frame and every reading keeps it.
LEMMA GenderStep == GenderIInv /\ [GenderNext]_genderVars => GenderIInv'
<1> SUFFICES ASSUME GenderIInv, [GenderNext]_genderVars PROVE GenderIInv'
  OBVIOUS
<1> USE Thresholds
<1> DEFINE Genders == {"unknown", "male", "female"}
<1>0. /\ attached \in BOOLEAN /\ locked \in BOOLEAN
      /\ f0s \in Seq(Pitches) /\ Len(f0s) <= Window
      /\ undecided \in 0..(DecideInterval - 1) /\ lastGender \in Genders /\ callerGender \in Genders
      /\ lockStreak \in 0..(LockFrames + DecideInterval) /\ (~locked => lockStreak <= LockFrames)
      /\ skipCounter \in 0..(Skip - 1) /\ disagree \in 0..(Relock - 1) /\ lastBand \in Voices
  BY PitchBands DEF GenderIInv, GenderTypeOK
<1>1. ASSUME attached' \in BOOLEAN, locked' \in BOOLEAN,
             f0s' \in Seq(Pitches), Len(f0s') <= Window,
             undecided' \in 0..(DecideInterval - 1), lastGender' \in Genders, callerGender' \in Genders,
             lockStreak' \in 0..(LockFrames + DecideInterval), ~locked' => lockStreak' <= LockFrames,
             skipCounter' \in 0..(Skip - 1), disagree' \in 0..(Relock - 1), lastBand' \in Voices
      PROVE  GenderIInv'
  BY <1>1, PitchBands DEF GenderIInv, GenderTypeOK
<1>2. CASE TrackSubscribed
  BY <1>0, <1>1, <1>2 DEF TrackSubscribed
<1>3. ASSUME NEW b \in Voices, ActiveFrame(b) PROVE GenderIInv'
  <2>1. /\ b \in Pitches /\ ~locked /\ f0s' = Admit(b) /\ lastBand' = b
        /\ UNCHANGED <<attached, skipCounter, disagree>>
    BY <1>3, PitchBands DEF ActiveFrame
  <2>2. f0s' \in Seq(Pitches) /\ Len(f0s') <= Window
    BY <2>1, Admitted DEF GenderIInv
  <2>3. CASE undecided + 1 >= DecideInterval
    <3>1. PICK g \in Classified(Admit(b)) : Decide(g)
      BY <1>3, <2>3 DEF ActiveFrame
    <3>2. g \in Genders
      BY <2>1, <2>2, ClassifiedType
    <3>3. undecided' = 0
      BY <1>3, <2>3 DEF ActiveFrame
    <3>4. lastGender' \in Genders /\ callerGender' \in Genders
      BY <1>0, <3>1, <3>2 DEF Decide
    <3>5. PICK n \in 0..(LockFrames + DecideInterval) : lockStreak' = n /\ locked' = (n >= LockFrames)
      <4> DEFINE n == IF g = "unknown" THEN 0 ELSE lockStreak + DecideInterval
      <4>1. lockStreak' = n /\ locked' = (n >= LockFrames)
        BY <3>1 DEF Decide
      <4>2. n \in 0..(LockFrames + DecideInterval)
        BY <1>0, <2>1
      <4> QED
        BY <4>1, <4>2
    <3>6. locked' \in BOOLEAN
      BY <3>5
    <3>7. ~locked' => lockStreak' <= LockFrames
      <4>1. PICK k \in 0..(LockFrames + DecideInterval) : lockStreak' = k /\ locked' = (k >= LockFrames)
        BY <3>5
      <4>2. CASE k >= LockFrames
        <5>1. locked'
          BY <4>1, <4>2
        <5> QED
          BY <5>1
      <4>3. CASE ~(k >= LockFrames)
        BY <4>1, <4>3
      <4> QED
        BY <4>2, <4>3
    <3> QED
      BY <1>0, <1>1, <2>1, <2>2, <3>3, <3>4, <3>5, <3>6, <3>7
  <2>4. CASE ~(undecided + 1 >= DecideInterval)
    <3>1. undecided' = undecided + 1 /\ UNCHANGED <<lastGender, callerGender, lockStreak, locked>>
      BY <1>3, <2>4 DEF ActiveFrame
    <3>2. undecided' \in 0..(DecideInterval - 1)
      BY <1>0, <2>4, <3>1
    <3> QED
      BY <1>0, <1>1, <2>1, <2>2, <3>1, <3>2
  <2> QED
    BY <2>3, <2>4
<1>4. ASSUME NEW b \in Voices, SkippedFrame(b) PROVE GenderIInv'
  <2>1. skipCounter' \in 0..(Skip - 1)
    BY <1>0, <1>4 DEF SkippedFrame
  <2> QED
    BY <1>0, <1>1, <1>4, <2>1 DEF SkippedFrame
<1>5. ASSUME NEW b \in Voices, SpotCheck(b) PROVE GenderIInv'
  <2>1. /\ skipCounter' = 0 /\ lastBand' = b /\ locked
        /\ UNCHANGED <<attached, undecided, lastGender, callerGender>>
    BY <1>5 DEF SpotCheck
  <2>2. skipCounter' \in 0..(Skip - 1)
    BY <2>1
  <2>3. \/ UNCHANGED <<locked, lockStreak, disagree, f0s>>
        \/ Rearm
        \/ disagree' = 0 /\ UNCHANGED <<locked, lockStreak, f0s>>
        \/ disagree + 1 < Relock /\ disagree' = disagree + 1 /\ UNCHANGED <<locked, lockStreak, f0s>>
    <3>1. CASE b = "unvoiced"
      BY <1>5, <3>1 DEF SpotCheck
    <3>2. CASE b # "unvoiced" /\ Disagrees(b) /\ disagree + 1 >= Relock
      BY <1>5, <3>2 DEF SpotCheck
    <3>3. CASE b # "unvoiced" /\ Disagrees(b) /\ ~(disagree + 1 >= Relock)
      <4>1. disagree + 1 < Relock
        BY <1>0, <3>3
      <4>2. disagree' = disagree + 1 /\ UNCHANGED <<locked, lockStreak, f0s>>
        BY <1>5, <3>3 DEF SpotCheck
      <4> QED
        BY <4>1, <4>2
    <3>4. CASE b # "unvoiced" /\ ~Disagrees(b)
      BY <1>5, <3>4 DEF SpotCheck
    <3> QED
      BY <3>1, <3>2, <3>3, <3>4
  <2>4. CASE Rearm
    <3>1. <<>> \in Seq(Pitches) /\ Len(<<>>) = 0
      OBVIOUS
    <3>2. locked' = FALSE /\ lockStreak' = 0 /\ disagree' = 0 /\ f0s' = <<>>
      BY <2>4 DEF Rearm
    <3>3. locked' \in BOOLEAN
      BY <3>2
    <3> QED
      BY <1>0, <1>1, <2>1, <2>2, <3>1, <3>2, <3>3
  <2>5. CASE ~Rearm
    <3>1. disagree' \in 0..(Relock - 1) /\ UNCHANGED <<locked, lockStreak, f0s>>
      BY <1>0, <2>3, <2>5
    <3> QED
      BY <1>0, <1>1, <2>1, <2>2, <3>1
  <2> QED
    BY <2>4, <2>5
<1>6. CASE UNCHANGED genderVars
  BY <1>0, <1>1, <1>6 DEF genderVars
<1> QED
  BY <1>2, <1>3, <1>4, <1>5, <1>6 DEF GenderNext, Frame

-----------------------------------------------------------------------------

(* The parts of the composition move by their own specifications. *)
LEMMA EdgeParts == [EdgeNext]_edgeVars =>
                     [Next]_vars /\ [StartNext]_startVars /\ [GenderNext]_genderVars
BY DEF EdgeNext, EndingMoves, StartMoves, GenderMoves, edgeVars, vars, startVars, genderVars

(* However a call begins and ends: counters and timers stay in their       *)
(* bounds, calls that write the shared openers at once keep the list in    *)
(* its bound and without repetition, a callee in the room is not kept      *)
(* waiting, and the detector's window and lock counters keep theirs.       *)
THEOREM EdgesAreSound == EdgeSpec => []EdgesInv
<1> DEFINE IInv == GraceIInv /\ StartIInv /\ GenderIInv
<1>1. EdgeInit => IInv
  BY GraceInit, StartInitInv, GenderInitInv DEF EdgeInit
<1>2. IInv /\ [EdgeNext]_edgeVars => IInv'
  BY EdgeParts, GraceStep, StartStep, GenderStep
<1>3. IInv => EdgesInv
  BY StartShows DEF EdgesInv, GraceIInv, GenderIInv
<1> HIDE DEF IInv
<1> QED
  BY <1>1, <1>2, <1>3, PTL DEF EdgeSpec
=============================================================================
