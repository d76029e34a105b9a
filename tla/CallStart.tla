----------------------------- MODULE CallStart -----------------------------
(***************************************************************************)
(* How a call starts: entrypoint of src/agent.py from the job's metadata   *)
(* to the first words.  The profile is loaded and the opener made while    *)
(* the session is set up; an outbound call waits for its callee; and the   *)
(* calls of one campaign share a list of openers in Redis.  LiveKit, Redis *)
(* and the model that writes an opener are external.                       *)
(***************************************************************************)
EXTENDS Naturals, Sequences, FiniteSets

CONSTANTS
  Starts,          \* the calls
  Metas,           \* what a call is told: direction, script, name, language, greeting
  Texts,           \* the openers a model may write
  MaxOpeners,      \* _OPENER_CACHE_MAX
  MaxStartFaults   \* bound on the failures of the externals

ASSUME StartAssumption == {MaxOpeners, MaxStartFaults} \subseteq Nat

VARIABLES
  meta,      \* per call: CallMeta and its campaign's configuration
  step,      \* per call: where entrypoint is
  profile,   \* per call: the task that loads the caller's profile
  seeded,    \* per call: memory.language
  opener,    \* per call: _opener_task, its place, what it read, its result
  party,     \* per call: the other party, "absent", "in" or "left"
  heard,     \* per call: the first words, "none" before them
  openers,   \* Redis: per key the openers kept, each with the call it was made for
  startFaults

startVars == <<meta, step, profile, seeded, opener, party, heard, openers, startFaults>>

Valid == {"te", "hi", "en"}
NoTask == [at |-> "none", read |-> <<>>, text |-> "none"]

(* The instructions and the language: the script, the name and the hint    *)
(* are parts of the text the key is a digest of.                           *)
OpenerKey(c) ==
  [script |-> meta[c].script, name |-> meta[c].name, language |-> meta[c].language,
   hint |-> profile[c]]
Keys == [script : {m.script : m \in Metas}, name : {m.name : m \in Metas},
         language : {m.language : m \in Metas}, hint : {"hint", "no hint"}]

StartInit ==
  /\ meta \in [Starts -> Metas]
  /\ step = [c \in Starts |-> "connected"]
  /\ profile = [c \in Starts |-> "no hint"]
  /\ seeded = [c \in Starts |-> "en"]
  /\ opener = [c \in Starts |-> NoTask]
  /\ party = [c \in Starts |-> IF meta[c].direction = "inbound" THEN "in" ELSE "absent"]
  /\ heard = [c \in Starts |-> "none"]
  /\ openers = [k \in Keys |-> <<>>]
  /\ startFaults = 0

Fails == startFaults < MaxStartFaults /\ startFaults' = startFaults + 1
Works == UNCHANGED startFaults

(* ---- entrypoint ---- *)

(* The configuration with the campaign's overrides; the profile's load     *)
(* begins.                                                                 *)
Configure(c) ==
  /\ step[c] = "connected"
  /\ step' = [step EXCEPT ![c] = "loading"]
  /\ UNCHANGED <<meta, profile, seeded, opener, party, heard, openers, startFaults>>

(* _extract_custom_greeting and the template: a greeting marked with a     *)
(* language is looked for in capitals in a lower-case line; one that is    *)
(* only the caller's name is empty without it.                             *)
LocalOpener(c) ==
  CASE meta[c].greeting = "plain" -> "greeting"
    [] meta[c].greeting = "name only" -> IF meta[c].name = "" THEN "" ELSE "greeting"
    [] OTHER -> "template"

(* The profile or nothing; the prompt, the session's parts, the memory;    *)
(* then the opener at once, or the task that makes one.                    *)
BuildPrompt(c) ==
  /\ step[c] = "loading"
  /\ step' = [step EXCEPT ![c] = "built"]
  /\ \/ \E p \in {"hint", "no hint"} : profile' = [profile EXCEPT ![c] = p] /\ Works
     \/ profile' = [profile EXCEPT ![c] = "no hint"] /\ Fails
  /\ seeded' = [seeded EXCEPT ![c] =
       IF meta[c].name # "" /\ meta[c].language \in Valid THEN meta[c].language ELSE @]
  /\ opener' = [opener EXCEPT ![c] =
       IF LocalOpener(c) # "" THEN [@ EXCEPT !.at = "done", !.text = LocalOpener(c)]
       ELSE [@ EXCEPT !.at = "picking"]]
  /\ UNCHANGED <<meta, party, heard, openers>>

(* session.start may raise, and nothing catches it; an outbound call whose *)
(* callee is not there waits.                                              *)
StartSession(c) ==
  /\ step[c] = "built"
  /\ \/ /\ step' = [step EXCEPT ![c] =
             IF meta[c].direction = "outbound" /\ party[c] = "absent" THEN "waiting" ELSE "opening"]
        /\ Works
     \/ step' = [step EXCEPT ![c] = "crashed"] /\ Fails
  /\ UNCHANGED <<meta, profile, seeded, opener, party, heard, openers>>

\* Mutant of CalleeJoins: the listener is not there when the callee joins.
JoinUnheard(c) ==
  /\ party[c] = "absent"
  /\ party' = [party EXCEPT ![c] = "in"]
  /\ UNCHANGED <<meta, step, profile, seeded, opener, heard, openers, startFaults>>

CalleeJoins(c) ==
  /\ party[c] = "absent"
  /\ party' = [party EXCEPT ![c] = "in"]
  /\ step' = [step EXCEPT ![c] = IF @ = "waiting" THEN "opening" ELSE @]
  /\ UNCHANGED <<meta, profile, seeded, opener, heard, openers, startFaults>>

CalleeLeaves(c) ==
  /\ party[c] = "in"
  /\ party' = [party EXCEPT ![c] = "left"]
  /\ UNCHANGED <<meta, step, profile, seeded, opener, heard, openers, startFaults>>

(* Thirty seconds without a callee: "Proceeding anyway." *)
JoinTimeout(c) ==
  /\ step[c] = "waiting"
  /\ step' = [step EXCEPT ![c] = "opening"]
  /\ UNCHANGED <<meta, profile, seeded, opener, party, heard, openers, startFaults>>

(* The opener when its task is done; without one the model is asked. *)
SpeakOpener(c) ==
  /\ step[c] = "opening" /\ opener[c].at = "done"
  /\ step' = [step EXCEPT ![c] = "talking"]
  /\ heard' = [heard EXCEPT ![c] = IF opener[c].text = "" THEN "reply" ELSE opener[c].text]
  /\ UNCHANGED <<meta, profile, seeded, opener, party, openers, startFaults>>

(* ---- _prebake_opener, a task beside entrypoint ---- *)

Listed(s) == {s[i] : i \in DOMAIN s}
Goes(c, place) == opener' = [opener EXCEPT ![c].at = place]
Rest == UNCHANGED <<meta, step, profile, seeded, party, heard>>

PickCached(c) ==
  /\ opener[c].at = "picking"
  /\ LET kept == openers[OpenerKey(c)]
     IN \/ /\ kept # <<>> /\ Works
           /\ \E o \in Listed(kept) :
                opener' = [opener EXCEPT ![c].at = "done", ![c].text = o.text]
        \/ kept = <<>> /\ Works /\ Goes(c, "asking")
        \/ Fails /\ Goes(c, "asking")
  /\ UNCHANGED openers /\ Rest

\* Mutant of AskModel: the task ends with the exception.
AskUnguarded(c) ==
  /\ opener[c].at = "asking"
  /\ \/ /\ Works
        /\ \E t \in Texts : opener' = [opener EXCEPT ![c].at = "reading", ![c].text = t]
     \/ Fails /\ opener' = [opener EXCEPT ![c].at = "raised"]
  /\ UNCHANGED openers /\ Rest

AskModel(c) ==
  /\ opener[c].at = "asking"
  /\ \/ /\ Works
        /\ \E t \in Texts : opener' = [opener EXCEPT ![c].at = "reading", ![c].text = t]
     \/ Fails /\ opener' = [opener EXCEPT ![c].at = "done", ![c].text = ""]
  /\ UNCHANGED openers /\ Rest

(* _cached_opener_append: read, then write what was read and the new text. *)
ReadOpeners(c) ==
  /\ opener[c].at = "reading"
  /\ LET kept == openers[OpenerKey(c)]
     IN IF opener[c].text \in {o.text : o \in Listed(kept)} THEN Goes(c, "done") /\ Works
        ELSE \/ opener' = [opener EXCEPT ![c].at = "writing", ![c].read = kept] /\ Works
             \/ Goes(c, "done") /\ Fails
  /\ UNCHANGED openers /\ Rest

\* Mutant of Bounded: the list is left to grow.
Unbounded(list) == list

Bounded(list) == IF Len(list) > MaxOpeners THEN Tail(list) ELSE list

WriteOpeners(c) ==
  /\ opener[c].at = "writing" /\ Goes(c, "done")
  /\ \/ /\ openers' = [openers EXCEPT ![OpenerKey(c)] =
             Bounded(Append(opener[c].read, [text |-> opener[c].text, by |-> c]))]
        /\ Works
     \/ UNCHANGED openers /\ Fails
  /\ Rest

Entrypoint(c) ==
  \/ Configure(c) \/ BuildPrompt(c) \/ StartSession(c) \/ JoinTimeout(c) \/ SpeakOpener(c)
Prebake(c) == PickCached(c) \/ AskModel(c) \/ ReadOpeners(c) \/ WriteOpeners(c)

StartNext ==
  \E c \in Starts : Entrypoint(c) \/ Prebake(c) \/ CalleeJoins(c) \/ CalleeLeaves(c)

(* A coroutine that can go on does, and the wait has its timeout; nobody   *)
(* has to answer the phone.                                                *)
StartFairness == \A c \in Starts : WF_startVars(Entrypoint(c)) /\ WF_startVars(Prebake(c))
StartSpec == StartInit /\ [][StartNext]_startVars /\ StartFairness

-----------------------------------------------------------------------------

(* The types of the variables. *)
StartTypeOK ==
  /\ step \in [Starts -> {"connected", "loading", "built", "waiting", "opening", "talking",
                          "crashed"}]
  /\ \A c \in Starts :
       opener[c].at \in {"none", "picking", "asking", "reading", "writing", "done"}
  /\ seeded \in [Starts -> Valid] /\ party \in [Starts -> {"absent", "in", "left"}]
  /\ heard \in [Starts -> Texts \cup {"none", "reply", "greeting", "template"}]

(* Once an agent is at work the first words come, whatever fails: Redis,   *)
(* the profile, the model, the list of openers, a callee who never joins.  *)
CallOpens ==
  \A c \in Starts : step[c] = "loading" ~> (heard[c] # "none" \/ step[c] = "crashed")

(* Calls that write the shared list at once keep it within its bound, and  *)
(* keep no opener twice.                                                   *)
OpenersBounded ==
  \A k \in Keys :
    /\ Len(openers[k]) <= MaxOpeners
    /\ \A i, j \in DOMAIN openers[k] : openers[k][i].text = openers[k][j].text => i = j

(* A callee in the room is not kept waiting, whichever of the session and  *)
(* the callee comes first.                                                 *)
JoinedIsOpened == \A c \in Starts : ~(step[c] = "waiting" /\ party[c] = "in")

(* The start of calls that share their openers. *)
StartInv == StartTypeOK /\ OpenersBounded /\ JoinedIsOpened

(* Violated.  "otherwise the agent speaks to an empty room while the phone *)
(* is still ringing": so it does after thirty seconds.                     *)
NobodyMissesIt ==
  [][\A c \in Starts : heard'[c] # heard[c] => party[c] = "in"]_startVars

(* Violated.  A custom greeting "will be extracted and spoken instantly":  *)
(* its example, one marked "(TE)", never is.                               *)
GreetingIsSpoken ==
  \A c \in Starts : heard[c] # "none" /\ meta[c].greeting = "tagged" => heard[c] = "greeting"

(* Violated.  "Persist new variant for the next caller": of two written at *)
(* once one is lost.                                                       *)
OpenersKept ==
  [][\A k \in Keys : Len(openers[k]) < MaxOpeners =>
       {o.text : o \in Listed(openers[k])} \subseteq {o.text : o \in Listed(openers'[k])}]_startVars

(* Violated.  The campaign's language is carried "from turn one": without  *)
(* a name it is not.                                                       *)
LanguageSeeded ==
  \A c \in Starts : step[c] = "talking" /\ meta[c].language \in Valid => seeded[c] = meta[c].language
=============================================================================
