----------------------------- MODULE TurnRouting -----------------------------
(***************************************************************************)
(* What the agent says to a turn of the caller before any model is asked:  *)
(* the noise filter, the prefetched answer and the router of               *)
(* on_user_turn_completed, the keyword classifier (src/router/), the       *)
(* rotated lines of src/router/canned.py and src/filler.py over the pools  *)
(* of src/content.py, and the language the reply mirrors                   *)
(* (_detect_conversational_variety).  A turn is the set of its words,      *)
(* drawn from a vocabulary that has a word for every combination of word   *)
(* lists that matters, and one that a partial transcript cut short.        *)
(***************************************************************************)
EXTENDS Naturals, FiniteSets

CONSTANTS
  CallLanguage,  \* the configured default language, "te", "hi", "en" or another
  Turns,         \* the sets of words a caller may say
  PoolSize       \* lines of the pool of an intent in a language

ASSUME PoolAssumption == PoolSize \in [{"thanks", "bye", "repeat"} -> [{"te", "hi", "en"} -> Nat \ {0}]]

VARIABLES
  turnLang,   \* VoiceAgent._last_turn_lang, or "none"
  memoryLang, \* CallMemory.language
  lastLine,   \* canned._last_idx with the line served last; 0 before the first
  draft,      \* language of the reply drafted ahead of the turn's hook
  turnOf,     \* history variable: the last turn's words, its route and its line
  closing     \* end_call has been asked for

routingVars == <<turnLang, memoryLang, lastLine, draft, turnOf, closing>>

(* ---- the word lists ---- *)

TeluguScript == {"sare-te", "haa-te", "sthalam-te", "doctor-te", "eppudu-te"}
HindiScript == {"haan-hi", "samay-hi"}
Roman == {"ok", "haan", "thanks", "bye", "again", "order", "ela", "what", "procedure", "noise",
          "chec"}
Vocabulary == TeluguScript \cup HindiScript \cup Roman

ASSUME TurnAssumption == Turns \subseteq SUBSET Vocabulary

(* Of _detect_conversational_variety. *)
ShortAcks == {"ok", "bye", "haan", "sare-te"}
ScriptAcks == {"sare-te", "haa-te", "haan-hi"}
TeluguCues == {"ela"}
HindiCues == {"haan"}
NoContent == {"ok", "bye"}

(* Of the classifier: "order" is among its Telugu cues. *)
Keywords ==
  [affirm |-> {"ok", "haan"}, thanks |-> {"thanks"}, bye |-> {"bye"},
   repeat |-> {"again"}, order_status |-> {"order"}]
ClassifierCues ==
  [te |-> {"order", "ela"}, hi |-> {"haan"}, en |-> {"thanks", "what"}]

(* ---- the classifier ---- *)

Hits(list, words) == Cardinality(list \cap words)

(* The first of the best in the order of the dictionary. *)
Order == <<"affirm", "thanks", "bye", "repeat", "order_status">>

MostHits(words) ==
  IF \A i \in DOMAIN Order : Hits(Keywords[Order[i]], words) = 0 THEN "unknown"
  ELSE LET best == CHOOSE i \in DOMAIN Order :
                     /\ \A j \in DOMAIN Order :
                          Hits(Keywords[Order[i]], words) >= Hits(Keywords[Order[j]], words)
                     /\ \A j \in 1..(i - 1) :
                          Hits(Keywords[Order[i]], words) > Hits(Keywords[Order[j]], words)
       IN Order[best]

\* Mutant of Intent: a goodbye is one intent among the others.
IntentByHits(words) == MostHits(words)

(* A goodbye takes precedence. *)
Intent(words) == IF "bye" \in words THEN "bye" ELSE MostHits(words)

(* Only words in Roman script are counted. *)
Trivial(words) ==
  /\ Intent(words) \in {"affirm", "thanks", "bye", "repeat"}
  /\ Cardinality(words \cap Roman) <= 3

\* Mutant of Prefetchable: the prefix may be short and plain.
PrefetchableAnyway(prefix) ==
  Cardinality(prefix) >= 2 /\ Intent(prefix) \in {"order_status", "unknown", "thanks", "bye"}

(* maybe_prefetch: what is worth looking up before the turn ends. *)
Prefetchable(prefix) ==
  /\ Cardinality(prefix) >= 2 /\ ~Trivial(prefix)
  /\ Intent(prefix) \in {"order_status", "unknown", "thanks", "bye"}

(* take_if_matches: the turn contains such a prefix, whose last word may   *)
(* have been cut short when it was heard.                                  *)
Foreseen(words) ==
  \E heard \in SUBSET words :
    Prefetchable(heard) \/ (heard # words /\ Prefetchable(heard \cup {"chec"}))

(* detect_language; two languages with the most cues are "mixed". *)
ClassifiedLanguage(words) ==
  IF words \cap TeluguScript # {} THEN "te"
  ELSE IF words \cap HindiScript # {} THEN "hi"
  ELSE LET score(l) == Hits(ClassifierCues[l], words)
           leaders == {l \in {"te", "hi", "en"} : \A k \in {"te", "hi", "en"} : score(l) >= score(k)}
       IN IF \A l \in leaders : score(l) = 0 THEN "en"
          ELSE IF Cardinality(leaders) > 1 THEN "mixed" ELSE CHOOSE l \in leaders : TRUE

(* ---- the language of the reply ---- *)

EnglishWords(words) == (words \cap Roman) \ (TeluguCues \cup HindiCues \cup NoContent)

Mix(base, words) == IF EnglishWords(words) # {} THEN <<base, "mix">> ELSE <<base>>

\* Mutant of Variety: an ack in Telugu script decides by itself.
VarietyByScript(words, l) ==
  IF words \subseteq ShortAcks THEN l
  ELSE IF words \cap TeluguScript # {} THEN Mix("te", words)
  ELSE IF words \cap HindiScript # {} THEN Mix("hi", words) ELSE <<"en">>

(* The variety of one turn after one in the language l. *)
Variety(words, l) ==
  LET english == Cardinality(EnglishWords(words))
      te == Hits(TeluguCues, words)
      hi == Hits(HindiCues, words)
  IN IF words \subseteq ShortAcks THEN l
     ELSE IF words \cap TeluguScript # {}
     THEN IF english >= 2 /\ words \cap TeluguScript \subseteq ScriptAcks THEN <<"en">> ELSE Mix("te", words)
     ELSE IF words \cap HindiScript # {}
     THEN IF english >= 2 /\ words \cap HindiScript \subseteq ScriptAcks THEN <<"en">> ELSE Mix("hi", words)
     ELSE IF english >= 2 /\ te + hi = 0 THEN <<"en">>
     ELSE IF te >= hi /\ (te > 0 \/ l = <<"te">>) THEN Mix("te", words)
     ELSE IF hi > te \/ l = <<"hi">> THEN Mix("hi", words)
     ELSE l

\* Mutant of MarkerLanguage: the lock of the turn before.
StaleMarker(words, l) == IF l = <<"en">> THEN l ELSE <<l[1], "mix">>

(* The language llm_node locks the reply to: even a plain Telugu or Hindi  *)
(* turn is answered in the mix with English.                               *)
MarkerLanguage(words, l) ==
  LET v == Variety(words, l) IN IF v = <<"en">> THEN v ELSE <<v[1], "mix">>

Configured == CallLanguage \in {"te", "hi", "en"}
Default == IF Configured THEN <<CallLanguage>> ELSE <<"en">>

(* _lang_key, whatever the variety. *)
PoolOf(l) == IF l[1] \in {"te", "hi"} THEN l[1] ELSE "en"

(* ---- the turn ---- *)

(* CallMemory starts in English; a dialler that knows the callee's name    *)
(* seeds the language as well.                                             *)
RoutingInit ==
  /\ turnLang = <<"none">> /\ memoryLang \in {<<"en">>, Default}
  /\ lastLine = [i \in {"thanks", "bye", "repeat"} |-> [l \in {"te", "hi", "en"} |-> 0]]
  /\ turnOf = [words |-> {}, route |-> "none", key |-> <<"none", "none">>, line |-> 0]
  /\ draft = <<"none">>
  /\ closing = FALSE

(* Hold music and the like: a random line of the "repeat" pool, and the    *)
(* turn goes no further.                                                   *)
Noise(words) ==
  /\ words = {"noise"} /\ ~closing
  /\ \E n \in 1..PoolSize["repeat"][PoolOf(memoryLang)] :
       turnOf' = [words |-> words, route |-> "noise", key |-> <<"repeat", PoolOf(memoryLang)>>, line |-> n]
  /\ UNCHANGED <<turnLang, memoryLang, lastLine, draft, closing>>

\* Mutant of NextLine: the end of the pool is not looked at.
LineAfter(last, size) == last + 1

\* Mutant of NextLine: any line but the first.
AnotherLine(last, size) == IF size > 1 THEN 2 ELSE 1

(* The line behind the one served last. *)
NextLine(last, size) == (last % size) + 1

Last == IF turnLang = <<"none">> THEN Default ELSE turnLang

(* The reply's language and the memory's follow the caller; a draft of the *)
(* reply was locked before the hook, from the language of the turn before. *)
Mirror(words) ==
  /\ draft' = MarkerLanguage(words, Last)
  /\ turnLang' = Variety(words, Last) /\ memoryLang' = Variety(words, Last)

Answerable(words) == words \notin {{}, {"noise"}} /\ ~closing

(* canned_response: a short thanks, goodbye or plea to repeat. *)
HasLine(words) == Trivial(words) /\ Intent(words) \in {"thanks", "bye", "repeat"}

(* The router picks the next line of the intent's pool.  It is spoken, and *)
(* a goodbye closes the call, unless the prefetch has the answer: that is  *)
(* spoken instead and the hook goes no further.                            *)
Canned(words) ==
  LET intent == Intent(words)
      pool == IF Configured THEN CallLanguage ELSE PoolOf(<<ClassifiedLanguage(words)>>)
      line == NextLine(lastLine[intent][pool], PoolSize[intent][pool])
  IN /\ Answerable(words) /\ HasLine(words)
     /\ lastLine' = [lastLine EXCEPT ![intent][pool] = line]
     /\ \/ /\ turnOf' = [words |-> words, route |-> "canned", key |-> <<intent, pool>>, line |-> line]
           /\ closing' = (intent = "bye")
        \/ /\ Foreseen(words)
           /\ turnOf' = [words |-> words, route |-> "warm", key |-> <<"none", "none">>, line |-> 0]
           /\ UNCHANGED closing
     /\ Mirror(words)

(* Any other turn may have been foreseen, a question about an order may    *)
(* have a cached answer; the rest is for the model.                        *)
Asked(words) ==
  /\ Answerable(words) /\ ~HasLine(words)
  /\ \E route \in {"llm"} \cup (IF Foreseen(words) THEN {"warm"} ELSE {})
                      \cup (IF Intent(words) = "order_status" THEN {"cache"} ELSE {}) :
       turnOf' = [words |-> words, route |-> route, key |-> <<"none", "none">>, line |-> 0]
  /\ Mirror(words)
  /\ UNCHANGED <<lastLine, closing>>

RoutingNext == \E words \in Turns : Noise(words) \/ Canned(words) \/ Asked(words)

RoutingSpec == RoutingInit /\ [][RoutingNext]_routingVars

-----------------------------------------------------------------------------

Varieties == {<<"en">>, <<"te">>, <<"hi">>, <<"te", "mix">>, <<"hi", "mix">>}

(* The types of the variables. *)
RoutingTypeOK ==
  /\ turnLang \in Varieties \cup {<<"none">>} /\ memoryLang \in Varieties
  /\ \A i \in DOMAIN lastLine : \A l \in {"te", "hi", "en"} : lastLine[i][l] \in 0..PoolSize[i][l]
  /\ turnOf.words \in Turns \cup {{}} /\ turnOf.route \in {"none", "noise", "warm", "canned", "cache", "llm"}
  /\ draft \in Varieties \cup {<<"none">>} /\ closing \in BOOLEAN

ShortGoodbye(words) == "bye" \in words /\ Cardinality(words \cap Roman) <= 3

(* "the agent missed the explicit bye signal": a short turn with a goodbye *)
(* in it, whatever else it says, closes the call unless the prefetch       *)
(* answered it, and nothing else does; one made of acks, thanks, goodbyes  *)
(* and pleas to repeat is never prefetched and always closes it.           *)
GoodbyeCloses ==
  /\ closing <=> ShortGoodbye(turnOf.words) /\ turnOf.route # "warm"
  /\ ShortGoodbye(turnOf.words) /\ turnOf.words \subseteq {"ok", "haan", "thanks", "bye", "again"}
     => closing

(* "Detecting off the live message honours the switch on the SAME reply":  *)
(* a reply drafted before the hook of its turn is locked to the language   *)
(* in which it would be asked for after it.                                *)
DraftsAgree ==
  turnLang # <<"none">> => draft = MarkerLanguage(turnOf.words, turnLang)

(* The line the router speaks for an intent is never the one it picked for *)
(* it before, whichever languages and intents came in between.             *)
LinesRotate ==
  [][turnOf'.route = "canned" =>
       LET i == turnOf'.key[1] l == turnOf'.key[2]
       IN PoolSize[i][l] > 1 => lastLine'[i][l] # lastLine[i][l]]_routingVars

(* "Mirror the language of the CONTENT, not the ack": an English question  *)
(* behind an ack in Telugu or Hindi script is answered in English, after   *)
(* any turns.                                                              *)
ContentDecides ==
  /\ Cardinality(EnglishWords(turnOf.words)) >= 2
  /\ turnOf.words \ (Roman \cup ScriptAcks) = {}
  /\ turnOf.words \cap (TeluguCues \cup HindiCues) = {}
  => turnLang = <<"en">>

(* A turn is routed by what it says, whatever came before it. *)
RoutingInv == RoutingTypeOK /\ GoodbyeCloses /\ DraftsAgree /\ ContentDecides

(* Violated.  The same of an ack in Roman script. *)
RomanContentDecides ==
  Cardinality(EnglishWords(turnOf.words)) >= 2 /\ turnOf.words \ ShortAcks \subseteq Roman \ TeluguCues
  => turnLang = <<"en">>

(* Violated.  "Now we invoke end_call directly so the line drops": after a *)
(* warmed "see you", "see you, bye" is answered by what the prefetch found *)
(* and the call goes on.                                                   *)
ShortGoodbyesClose == ShortGoodbye(turnOf.words) => closing

(* Violated.  A turn of acks only does not switch the language             *)
(* ("do NOT switch languages"): of those in script the bypass knows few.   *)
AcksKeepTheLanguage ==
  [][turnOf'.words \subseteq ShortAcks \cup ScriptAcks /\ turnLang # <<"none">> =>
       turnLang' = turnLang]_routingVars

(* Violated.  "A real "repeat please" turn is short by nature": a turn of  *)
(* more than three words goes to the model.                                *)
LongTurnsAreAnswered == turnOf.route = "canned" => Cardinality(turnOf.words) <= 3

(* Violated.  "the agent never repeats the same line back-to-back": the    *)
(* noise filter picks at random.                                           *)
NeverTheSameLine ==
  [][turnOf'.route \in {"canned", "noise"} /\ turnOf' # turnOf =>
       (turnOf'.key # turnOf.key \/ turnOf'.line # turnOf.line)]_routingVars
=============================================================================
