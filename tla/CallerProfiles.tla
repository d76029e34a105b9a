--------------------------- MODULE CallerProfiles ---------------------------
(***************************************************************************)
(* What one phone number is remembered by (src/memory.py): the memory of   *)
(* each of its calls, the profile suggested when a call ends, and the      *)
(* profile an operator approves (dashboard/app/api/self-learning).  Of a   *)
(* name, an intent or a topic the model keeps which call it comes from;    *)
(* "" and "unknown" are the code's empty values.  Nothing expires: the     *)
(* shortest life is seven days.                                            *)
(***************************************************************************)
EXTENDS Naturals, FiniteSets

CONSTANTS
  PhoneCalls,        \* the calls of the number
  Tabs,              \* dashboards that review suggestions
  MaxProfileFaults   \* bound: failed Redis calls

ASSUME ProfileAssumption ==
  /\ IsFiniteSet(PhoneCalls) /\ MaxProfileFaults \in Nat
  /\ PhoneCalls \cap {"", "unknown", "none"} = {}

VARIABLES
  profile,      \* callerprofile:<phone>, the active one
  suggested,    \* callerprofile:suggested:<call>
  applied,      \* callerprofile:applied:<call>
  phoneCall,    \* a call: [pc, name, intent, topic, hint, before]
  review,       \* a POST of a tab: [pc, call, sug]
  ended,        \* history variable: calls whose memory was snapshot
  approved,     \* history variable: calls whose suggestion was made active
  profileFaults

profileVars == <<profile, suggested, applied, phoneCall, review, ended, approved, profileFaults>>

(* CallerProfile(phone) with nothing known; no key in Redis reads as this. *)
Unknown == [name |-> "", intent |-> "", topic |-> "", at |-> 0, count |-> 0]
NoReview == [pc |-> "idle", call |-> "none", sug |-> Unknown]

ProfileInit ==
  /\ profile = Unknown
  /\ suggested = [c \in PhoneCalls |-> Unknown] /\ applied = {}
  /\ phoneCall = [c \in PhoneCalls |-> [pc |-> "new", name |-> "", intent |-> "unknown",
                                        topic |-> "", hint |-> FALSE, before |-> Unknown]]
  /\ review = [t \in Tabs |-> NoReview]
  /\ ended = {} /\ approved = {} /\ profileFaults = 0

GetFails == profileFaults < MaxProfileFaults /\ profileFaults' = profileFaults + 1
GetWorks == UNCHANGED profileFaults

CallAt(c, pc, next) == phoneCall[c].pc = pc /\ phoneCall' = [phoneCall EXCEPT ![c] = next]

(* load: the key, or nothing known when Redis fails, since only the unused *)
(* save_from_memory fills the local copy.                                  *)
Loaded(p) ==
  \/ GetWorks /\ p = profile
  \/ GetFails /\ p = Unknown

(* The start of a call: the dialler may know the name, and a returning     *)
(* caller is hinted at in the instructions.                                *)
BeginCall(c, p) ==
  /\ Loaded(p)
  /\ \E name \in {"", c} :
       CallAt(c, "new", [phoneCall[c] EXCEPT !.pc = "live", !.name = name, !.hint = p.count > 0])
  /\ UNCHANGED <<profile, suggested, applied, review, ended, approved>>

(* update_from_turn: a name is kept once it is known, the intent is the    *)
(* last one, recognised or not, and the topic the last thing said.         *)
UpdateFromTurn(c) ==
  /\ \E name \in {"", c}, intent \in {c, "unknown"} :
       CallAt(c, "live", [phoneCall[c] EXCEPT
         !.name = IF @ = "" THEN name ELSE @, !.intent = intent, !.topic = c])
  /\ UNCHANGED <<profile, suggested, applied, review, ended, approved, profileFaults>>

(* The shutdown callback: the profile is read ... *)
ReadExisting(c, p) ==
  /\ Loaded(p)
  /\ CallAt(c, "live", [phoneCall[c] EXCEPT !.pc = "snapshot", !.before = p])
  /\ ended' = ended \cup {c}
  /\ UNCHANGED <<profile, suggested, applied, review, approved>>

\* Mutant of Merged: a call with no name has a null one.
MergedNull(c) ==
  LET m == phoneCall[c]  old == m.before
  IN [name |-> IF m.name # "" THEN m.name ELSE "none", intent |-> m.intent,
      topic |-> m.topic, at |-> Cardinality(ended), count |-> old.count + 1]

(* ... and the suggestion built on it is stored; `or` falls through on an  *)
(* empty string, which "unknown" is not.                                   *)
Merged(c) ==
  LET m == phoneCall[c]  old == m.before
      Or(new, kept) == IF new # "" THEN new ELSE kept
  IN [name |-> Or(m.name, old.name), intent |-> Or(m.intent, old.intent),
      topic |-> Or(m.topic, old.topic), at |-> Cardinality(ended), count |-> old.count + 1]

\* Mutant of SaveSuggestion: what was learned is active at once.
SaveActive(c) ==
  /\ CallAt(c, "snapshot", [phoneCall[c] EXCEPT !.pc = "over"])
  /\ profile' = Merged(c)
  /\ UNCHANGED <<suggested, applied, review, ended, approved, profileFaults>>

SaveSuggestion(c) ==
  /\ CallAt(c, "snapshot", [phoneCall[c] EXCEPT !.pc = "over"])
  /\ \/ GetWorks /\ suggested' = [suggested EXCEPT ![c] = Merged(c)]
     \/ GetFails /\ UNCHANGED suggested
  /\ UNCHANGED <<profile, applied, review, ended, approved>>

(* ---- POST of the dashboard: approve or reject ---- *)

ReviewAt(t, pc, next) == review[t].pc = pc /\ review' = [review EXCEPT ![t] = next]

ReadSuggestion(t, c) ==
  /\ suggested[c] # Unknown
  /\ \E action \in {"approve", "reject"} :
       ReviewAt(t, "idle", [pc |-> action, call |-> c, sug |-> suggested[c]])
  /\ UNCHANGED <<profile, suggested, applied, phoneCall, ended, approved, profileFaults>>

Reject(t) ==
  /\ ReviewAt(t, "reject", NoReview)
  /\ suggested' = [suggested EXCEPT ![review[t].call] = Unknown]
  /\ UNCHANGED <<profile, applied, phoneCall, ended, approved, profileFaults>>

\* Mutant of Approve: every approval counts a call.
ApproveCounting(t) ==
  /\ ReviewAt(t, "approve", [review[t] EXCEPT !.pc = "apply"])
  /\ profile' = [review[t].sug EXCEPT !.count = profile.count + 1]
  /\ approved' = approved \cup {review[t].call}
  /\ UNCHANGED <<suggested, applied, phoneCall, ended, profileFaults>>

Approve(t) ==
  /\ ReviewAt(t, "approve", [review[t] EXCEPT !.pc = "apply"])
  /\ profile' = review[t].sug
  /\ approved' = approved \cup {review[t].call}
  /\ UNCHANGED <<suggested, applied, phoneCall, ended, profileFaults>>

MarkApplied(t) ==
  /\ ReviewAt(t, "apply", NoReview)
  /\ applied' = applied \cup {review[t].call}
  /\ UNCHANGED <<profile, suggested, phoneCall, ended, approved, profileFaults>>

ProfileNext ==
  \/ \E c \in PhoneCalls :
       \/ \E p \in {profile, Unknown} : BeginCall(c, p) \/ ReadExisting(c, p)
       \/ UpdateFromTurn(c) \/ SaveSuggestion(c)
       \/ \E t \in Tabs : ReadSuggestion(t, c)
  \/ \E t \in Tabs : Reject(t) \/ Approve(t) \/ MarkApplied(t)

ProfileSpec == ProfileInit /\ [][ProfileNext]_profileVars

-----------------------------------------------------------------------------

(* The types of the variables. *)
ProfileTypeOK ==
  LET Texts == PhoneCalls \cup {"", "unknown"}
      Profile == [name : Texts, intent : Texts, topic : Texts, at : Nat, count : Nat]
  IN /\ profile \in Profile /\ suggested \in [PhoneCalls -> Profile]
     /\ \A c \in PhoneCalls : phoneCall[c].pc \in {"new", "live", "snapshot", "over"}
     /\ \A t \in Tabs : review[t].pc \in {"idle", "approve", "reject", "apply"}
     /\ applied \subseteq PhoneCalls /\ ended \subseteq PhoneCalls /\ approved \subseteq PhoneCalls

(* The profile never counts more calls than ended and were approved: an    *)
(* approval made twice, from two tabs or after a lost reply, counts once.  *)
CountNotInflated == profile.count <= Cardinality(approved)

(* A caller is greeted as a returning one, and anything is remembered of   *)
(* them, only on an operator's approval of a call that had ended.          *)
LearnedIsReviewed ==
  /\ approved \subseteq ended
  /\ \A c \in PhoneCalls : phoneCall[c].hint => approved # {}
  /\ {profile.name, profile.topic} \subseteq ended \cup {""}

(* What is remembered of a caller was learned in calls and approved. *)
ProfileInv == ProfileTypeOK /\ CountNotInflated /\ LearnedIsReviewed

(* Docstring of CallerProfile: it keeps the "last call timestamp": an      *)
(* approval never puts an older call over a newer one.                     *)
NewestRemembered == [][profile'.at >= profile.at]_profileVars

(* Docstring of CallerProfile: it keeps the "total call count". *)
EveryApprovedCounted ==
  (\A t \in Tabs : review[t].pc = "idle") /\ profileFaults = 0 =>
    profile.count = Cardinality(approved)
=============================================================================
