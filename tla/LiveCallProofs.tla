--------------------------- MODULE LiveCallProofs ---------------------------
(***************************************************************************)
(* Theorems about a call under way: the call implements each of its parts, *)
(* and with it the turns of the caller are routed (TurnRouting), the two   *)
(* sides hear each other (Hearing), the stable prefix has lasted           *)
(* (Stabiliser) and the voice and its cache are right (Voice), for every   *)
(* set of words, turns, lines, phrases and dashboards, and every limit.    *)
(***************************************************************************)
EXTENDS LiveCallMC, ConversationProofs, SequenceTheorems, WellFoundedInduction

(* ---- the router ---- *)

\* Four words more leave a finite list finite.
LEMMA FourMore ==
  ASSUME NEW S, IsFiniteSet(S), NEW a, NEW b, NEW c, NEW d
  PROVE  IsFiniteSet(S \cup {a, b, c, d})
<1>1. IsFiniteSet(S \cup {a})
  BY FS_AddElement
<1>2. IsFiniteSet((S \cup {a}) \cup {b})
  BY <1>1, FS_AddElement
<1>3. IsFiniteSet(((S \cup {a}) \cup {b}) \cup {c})
  BY <1>2, FS_AddElement
<1>4. IsFiniteSet((((S \cup {a}) \cup {b}) \cup {c}) \cup {d})
  BY <1>3, FS_AddElement
<1>5. (((S \cup {a}) \cup {b}) \cup {c}) \cup {d} = S \cup {a, b, c, d}
  OBVIOUS
<1> QED
  BY <1>4, <1>5

\* The words are counted.
LEMMA HitsAreCounted ==
  ASSUME NEW words \in SUBSET Vocabulary, NEW list
  PROVE  Hits(list, words) \in Nat /\ (Hits(list, words) = 0 <=> list \cap words = {})
<1>1. IsFiniteSet(Vocabulary)
  <2> DEFINE A == {} \cup {"sare-te", "haa-te", "sthalam-te", "doctor-te"}
             B == A \cup {"eppudu-te", "haan-hi", "samay-hi", "ok"}
             C == B \cup {"haan", "thanks", "bye", "again"}
             D == C \cup {"order", "ela", "what", "procedure"}
             E == D \cup {"noise", "chec", "chec", "chec"}
  <2>1. IsFiniteSet(A)
    BY FourMore, FS_EmptySet
  <2>2. IsFiniteSet(B)
    <3> HIDE DEF A
    <3> QED BY <2>1, FourMore
  <2>3. IsFiniteSet(C)
    <3> HIDE DEF B
    <3> QED BY <2>2, FourMore
  <2>4. IsFiniteSet(D)
    <3> HIDE DEF C
    <3> QED BY <2>3, FourMore
  <2>5. IsFiniteSet(E)
    <3> HIDE DEF D
    <3> QED BY <2>4, FourMore
  <2>6. Vocabulary = E
    BY DEF Vocabulary, TeluguScript, HindiScript, Roman
  <2> QED
    BY <2>5, <2>6
<1>2. IsFiniteSet(list \cap words)
  BY <1>1, FS_Subset
<1> QED
  BY <1>2, FS_CardinalityType, FS_EmptySet DEF Hits

\* The best intent is there to be chosen.
LEMMA BestIsThere ==
  ASSUME NEW h \in [1..5 -> Nat]
  PROVE  \E i \in 1..5 : (\A j \in 1..5 : h[i] >= h[j]) /\ \A j \in 1..(i - 1) : h[i] > h[j]
<1> DEFINE a == h[1] b == h[2] c == h[3] d == h[4] e == h[5]
           First(i) == (\A j \in 1..5 : h[i] >= h[j]) /\ \A j \in 1..(i - 1) : h[i] > h[j]
<1>1. a \in Nat /\ b \in Nat /\ c \in Nat /\ d \in Nat /\ e \in Nat
  OBVIOUS
<1>2. First(1) <=> a >= b /\ a >= c /\ a >= d /\ a >= e
  BY <1>1
<1>3. First(2) <=> b > a /\ b >= c /\ b >= d /\ b >= e
  BY <1>1
<1>4. First(3) <=> c > a /\ c > b /\ c >= d /\ c >= e
  BY <1>1
<1>5. First(4) <=> d > a /\ d > b /\ d > c /\ d >= e
  BY <1>1
<1>6. First(5) <=> e > a /\ e > b /\ e > c /\ e > d
  BY <1>1
<1> HIDE DEF a, b, c, d, e, First
<1>7. First(1) \/ First(2) \/ First(3) \/ First(4) \/ First(5)
  BY <1>1, <1>2, <1>3, <1>4, <1>5, <1>6
<1> QED
  BY <1>7 DEF First

\* The keywords of the intents that have no answer to look up.
Plain == {"ok", "haan", "thanks", "bye", "again"}

\* A turn's intent is a goodbye exactly when a goodbye is among its words,
\* an order only if an order is, and unknown only if no keyword is.
LEMMA GoodbyeIsIntent ==
  ASSUME NEW words \in SUBSET Vocabulary
  PROVE  /\ Intent(words) \in {"affirm", "thanks", "bye", "repeat", "order_status", "unknown"}
         /\ Intent(words) = "bye" <=> "bye" \in words
         /\ Intent(words) = "order_status" => "order" \in words
         /\ Intent(words) = "unknown" => words \cap Plain = {}
<1> DEFINE h == [i \in 1..5 |-> Hits(Keywords[Order[i]], words)]
           Best(i) == /\ \A j \in DOMAIN Order :
                           Hits(Keywords[Order[i]], words) >= Hits(Keywords[Order[j]], words)
                      /\ \A j \in 1..(i - 1) :
                           Hits(Keywords[Order[i]], words) > Hits(Keywords[Order[j]], words)
           best == CHOOSE i \in DOMAIN Order : Best(i)
<1>1. DOMAIN Order = 1..5
  BY DEF Order
<1>2. h \in [1..5 -> Nat]
  BY HitsAreCounted
<1>3. \E i \in DOMAIN Order : Best(i)
  <2>1. PICK i \in 1..5 : (\A j \in 1..5 : h[i] >= h[j]) /\ \A j \in 1..(i - 1) : h[i] > h[j]
    BY <1>2, BestIsThere
  <2> QED
    BY <1>1, <2>1
<1>4. best \in 1..5 /\ Best(best)
  BY <1>1, <1>3
<1> HIDE DEF best
<1>5. CASE MostHits(words) = "unknown" /\ \A i \in DOMAIN Order : Hits(Keywords[Order[i]], words) = 0
  <2>1. \A i \in 1..5 : Keywords[Order[i]] \cap words = {}
    BY <1>1, <1>5, HitsAreCounted
  <2>2. {"ok", "haan"} \cap words = {}
    BY <2>1, 1 \in 1..5 DEF Order, Keywords
  <2>3. {"thanks"} \cap words = {}
    BY <2>1, 2 \in 1..5 DEF Order, Keywords
  <2>4. {"bye"} \cap words = {}
    BY <2>1, 3 \in 1..5 DEF Order, Keywords
  <2>5. {"again"} \cap words = {}
    BY <2>1, 4 \in 1..5 DEF Order, Keywords
  <2>6. words \cap Plain = {} /\ "bye" \notin words
    BY <2>2, <2>3, <2>4, <2>5 DEF Plain
  <2> QED
    BY <1>5, <2>6 DEF Intent
<1>6. CASE MostHits(words) = Order[best] /\ ~\A i \in DOMAIN Order : Hits(Keywords[Order[i]], words) = 0
  <2>1. Hits(Keywords[Order[best]], words) # 0
    <3>1. PICK i \in 1..5 : h[i] # 0
      BY <1>1, <1>6
    <3>2. h[best] >= h[i] /\ h[best] \in Nat /\ h[i] \in Nat
      BY <1>1, <1>2, <1>4
    <3>3. h[best] # 0
      BY <3>1, <3>2
    <3> QED
      BY <3>3, <1>4
  <2>2. Keywords[Order[best]] \cap words # {}
    BY <2>1, HitsAreCounted
  <2>3. Order[best] \in {"affirm", "thanks", "bye", "repeat", "order_status"}
    BY <1>4 DEF Order
  <2>4. Order[best] = "bye" => "bye" \in words
    BY <2>2 DEF Keywords
  <2>5. Order[best] = "order_status" => "order" \in words
    BY <2>2 DEF Keywords
  <2> QED
    BY <1>6, <2>3, <2>4, <2>5 DEF Intent
<1> QED
  BY <1>5, <1>6 DEF MostHits, best

\* A short goodbye of plain words has no prefix that is worth looking up:
\* each is short and has an intent that the router answers itself.
LEMMA PlainGoodbyeUnforeseen ==
  ASSUME NEW words \in SUBSET Vocabulary, ShortGoodbye(words), words \subseteq Plain
  PROVE  ~Foreseen(words)
<1>1. words \subseteq Roman /\ words \cap Roman = words
  BY DEF Plain, Roman
<1>2. Cardinality(words) <= 3
  BY <1>1 DEF ShortGoodbye
<1>3. IsFiniteSet(words)
  <2> DEFINE A == {} \cup {"ok", "haan", "thanks", "bye"}
             B == A \cup {"again", "again", "again", "again"}
  <2>1. IsFiniteSet(A)
    BY FourMore, FS_EmptySet
  <2>2. IsFiniteSet(B)
    <3> HIDE DEF A
    <3> QED BY <2>1, FourMore
  <2>3. words \subseteq B
    BY DEF Plain
  <2> QED
    BY <2>2, <2>3, FS_Subset
<1>4. ASSUME NEW prefix \in SUBSET (words \cup {"chec"}), Cardinality(prefix) <= 3
      PROVE  ~Prefetchable(prefix)
  <2>1. prefix \subseteq Roman /\ prefix \cap Roman = prefix /\ prefix \in SUBSET Vocabulary
    BY <1>1 DEF Roman, Vocabulary
  <2>2. "order" \notin prefix
    BY DEF Plain
  <2>3. CASE prefix \cap Plain = {}
    <3>1. prefix = {} \/ prefix = {"chec"}
      BY <2>3
    <3>2. Cardinality(prefix) = 0 \/ Cardinality(prefix) = 1
      BY <3>1, FS_EmptySet, FS_Singleton
    <3>3. ~(Cardinality(prefix) >= 2)
      BY <3>2
    <3> QED
      BY <3>3 DEF Prefetchable
  <2>4. CASE prefix \cap Plain # {}
    <3>1. Intent(prefix) \in {"affirm", "thanks", "bye", "repeat"}
      BY <2>1, <2>2, <2>4, GoodbyeIsIntent
    <3>2. Trivial(prefix)
      BY <1>4, <2>1, <3>1 DEF Trivial
    <3> QED
      BY <3>2 DEF Prefetchable
  <2> QED
    BY <2>3, <2>4
<1>5. ASSUME NEW heard \in SUBSET words PROVE ~Prefetchable(heard)
  <2>1. Cardinality(heard) \in Nat /\ Cardinality(words) \in Nat /\ Cardinality(heard) <= Cardinality(words)
    BY <1>3, FS_Subset, FS_CardinalityType
  <2>2. Cardinality(heard) <= 3
    BY <1>2, <2>1
  <2> QED
    BY <1>4, <2>2
<1>6. ASSUME NEW heard \in SUBSET words, heard # words PROVE ~Prefetchable(heard \cup {"chec"})
  <2>1. /\ Cardinality(heard) \in Nat /\ Cardinality(words) \in Nat
        /\ Cardinality(heard) < Cardinality(words) /\ IsFiniteSet(heard)
    BY <1>3, <1>6, FS_Subset, FS_CardinalityType
  <2>2. Cardinality(heard \cup {"chec"}) \in {Cardinality(heard), Cardinality(heard) + 1}
    BY <2>1, FS_AddElement
  <2>3. Cardinality(heard \cup {"chec"}) <= 3
    BY <1>2, <2>1, <2>2
  <2> QED
    BY <1>4, <2>3
<1> QED
  BY <1>5, <1>6 DEF Foreseen

Locks == {<<"en">>, <<"te", "mix">>, <<"hi", "mix">>}

\* The language a reply is locked to after a turn in the variety v.
Lock(v) == IF v = <<"en">> THEN v ELSE <<v[1], "mix">>

\* The varieties are told apart, and locking one gives a lock.
LEMMA VarietiesDiffer ==
  /\ <<"te">> # <<"en">> /\ <<"te">> # <<"hi">> /\ <<"en">> # <<"hi">>
  /\ <<"te", "mix">> \notin {<<"te">>, <<"hi">>, <<"en">>, <<"hi", "mix">>}
  /\ <<"hi", "mix">> \notin {<<"te">>, <<"hi">>, <<"en">>, <<"te", "mix">>}
  /\ <<"none">> \notin Varieties
  /\ \A v \in Varieties : Lock(v) \in Locks /\ Lock(v) \in Varieties
BY DEF Varieties, Lock, Locks

\* What a mix with English is.
LEMMA MixIs ==
  ASSUME NEW words
  PROVE  Mix("te", words) \in {<<"te">>, <<"te", "mix">>} /\ Mix("hi", words) \in {<<"hi">>, <<"hi", "mix">>}
BY DEF Mix

\* After a turn, the same words would not change its variety again.
LEMMA VarietySettles ==
  ASSUME NEW words \in SUBSET Vocabulary, NEW l \in Varieties
  PROVE  /\ Variety(words, l) \in Varieties
         /\ Variety(words, Variety(words, l)) = Variety(words, l)
<1> DEFINE english == Cardinality(EnglishWords(words))
           te == Hits(TeluguCues, words)
           hi == Hits(HindiCues, words)
<1>1. te \in Nat /\ hi \in Nat
  BY HitsAreCounted
<1>2. CASE words \subseteq ShortAcks
  BY <1>2 DEF Variety
<1>3. CASE ~(words \subseteq ShortAcks) /\ words \cap TeluguScript # {}
  BY <1>3, MixIs DEF Variety, Varieties
<1>4. CASE ~(words \subseteq ShortAcks) /\ words \cap TeluguScript = {} /\ words \cap HindiScript # {}
  BY <1>4, MixIs DEF Variety, Varieties
<1>5. CASE ~(words \subseteq ShortAcks) /\ words \cap TeluguScript = {} /\ words \cap HindiScript = {}
  <2> DEFINE V(k) == IF english >= 2 /\ te + hi = 0 THEN <<"en">>
                     ELSE IF te >= hi /\ (te > 0 \/ k = <<"te">>) THEN Mix("te", words)
                     ELSE IF hi > te \/ k = <<"hi">> THEN Mix("hi", words)
                     ELSE k
  <2>1. \A k : Variety(words, k) = V(k)
    BY <1>5 DEF Variety
  <2> HIDE DEF english, te, hi
  <2>2. CASE english >= 2 /\ te + hi = 0
    BY <2>1, <2>2 DEF Varieties
  <2>3. CASE ~(english >= 2 /\ te + hi = 0) /\ te > 0 /\ te >= hi
    BY <2>1, <2>3, MixIs DEF Varieties
  <2>4. CASE ~(english >= 2 /\ te + hi = 0) /\ hi > te
    <3>1. ~(te >= hi)
      BY <1>1, <2>4
    <3>2. \A k : V(k) = Mix("hi", words)
      BY <2>4, <3>1
    <3> QED
      BY <2>1, <3>2, MixIs DEF Varieties
  <2>5. CASE ~(english >= 2 /\ te + hi = 0) /\ te = 0 /\ hi = 0
    <3>1. \A k : V(k) = IF k = <<"te">> THEN Mix("te", words)
                        ELSE IF k = <<"hi">> THEN Mix("hi", words) ELSE k
      BY <2>5
    <3> HIDE DEF V
    <3>2. CASE l = <<"te">>
      BY <2>1, <3>1, <3>2, MixIs, VarietiesDiffer DEF Varieties
    <3>3. CASE l = <<"hi">>
      BY <2>1, <3>1, <3>3, MixIs, VarietiesDiffer DEF Varieties
    <3>4. CASE l # <<"te">> /\ l # <<"hi">>
      BY <2>1, <3>1, <3>4
    <3> QED
      BY <3>2, <3>3, <3>4
  <2> QED
    BY <1>1, <2>2, <2>3, <2>4, <2>5
<1> QED
  BY <1>2, <1>3, <1>4, <1>5

\* Noise taken for a turn would change no lock.
LEMMA NoiseKeepsTheLock ==
  ASSUME NEW l \in Varieties
  PROVE  Lock(Variety({"noise"}, l)) = Lock(l)
<1> DEFINE W == {"noise"}
<1>1. W \in SUBSET Vocabulary /\ ~(W \subseteq ShortAcks) /\ W \cap TeluguScript = {} /\ W \cap HindiScript = {}
  BY DEF Vocabulary, Roman, ShortAcks, TeluguScript, HindiScript
<1>2. EnglishWords(W) = {"noise"}
  BY DEF EnglishWords, Roman, TeluguCues, HindiCues, NoContent
<1>3. Cardinality(EnglishWords(W)) = 1
  BY <1>2, FS_Singleton
<1>4. TeluguCues \cap W = {} /\ HindiCues \cap W = {}
  BY DEF TeluguCues, HindiCues
<1>5. Hits(TeluguCues, W) = 0 /\ Hits(HindiCues, W) = 0
  BY <1>1, <1>4, HitsAreCounted
<1> HIDE DEF W
<1>6. Variety(W, l) = IF l = <<"te">> THEN Mix("te", W) ELSE IF l = <<"hi">> THEN Mix("hi", W) ELSE l
  BY <1>1, <1>3, <1>5 DEF Variety
<1>7. Lock(Variety(W, l)) = Lock(l)
  <2>1. CASE l = <<"te">>
    BY <1>6, <2>1, MixIs, VarietiesDiffer DEF Lock
  <2>2. CASE l = <<"hi">>
    BY <1>6, <2>2, MixIs, VarietiesDiffer DEF Lock
  <2> QED
    BY <1>6, <2>1, <2>2
<1> QED
  BY <1>7 DEF W

\* English content behind acks in any script is English.
LEMMA ContentIsEnglish ==
  ASSUME NEW words \in SUBSET Vocabulary, NEW l,
         Cardinality(EnglishWords(words)) >= 2,
         words \ (Roman \cup ScriptAcks) = {},
         words \cap (TeluguCues \cup HindiCues) = {}
  PROVE  Variety(words, l) = <<"en">>
<1>1. ~(words \subseteq ShortAcks)
  <2>1. ASSUME words \subseteq ShortAcks PROVE EnglishWords(words) = {}
    BY <2>1 DEF ShortAcks, EnglishWords, Roman, TeluguCues, HindiCues, NoContent
  <2>2. Cardinality({}) = 0
    BY FS_EmptySet
  <2> QED
    BY <2>1, <2>2
<1>2. words \cap TeluguScript \subseteq ScriptAcks /\ words \cap HindiScript \subseteq ScriptAcks
  BY DEF TeluguScript, HindiScript, Roman, ScriptAcks
<1>3. Hits(TeluguCues, words) = 0 /\ Hits(HindiCues, words) = 0
  BY HitsAreCounted
<1> QED
  BY <1>1, <1>2, <1>3 DEF Variety

-----------------------------------------------------------------------------

Intents == {"thanks", "bye", "repeat"}
Three == {"te", "hi", "en"}

(* RoutingInv with the table of lines as a function, and the draft told    *)
(* from the variety of the turn.                                           *)
RoutingIInv ==
  /\ RoutingTypeOK /\ GoodbyeCloses /\ ContentDecides
  /\ lastLine \in [Intents -> [Three -> Nat]]
  /\ turnLang # <<"none">> =>
       draft = Lock(turnLang) /\ Lock(Variety(turnOf.words, turnLang)) = Lock(turnLang)

\* The language a turn is understood after.
LEMMA LastIsVariety == RoutingTypeOK => Last \in Varieties /\ Default \in Varieties
BY DEF RoutingTypeOK, Last, Default, Configured, Varieties

\* The pool of a language.
LEMMA PoolsAre == \A l : PoolOf(l) \in Three
BY DEF PoolOf, Three

\* A line of the pool of an intent in a language follows every line of it.
LEMMA LineFollows ==
  ASSUME NEW i \in Intents, NEW l \in Three, NEW n \in 0..PoolSize[i][l]
  PROVE  /\ NextLine(n, PoolSize[i][l]) \in 1..PoolSize[i][l]
         /\ PoolSize[i][l] > 1 => NextLine(n, PoolSize[i][l]) # n
<1>1. PoolSize[i][l] \in Nat \ {0}
  BY PoolAssumption DEF Intents, Three
<1> QED
  BY <1>1 DEF NextLine

\* A reply drafted in the language before the hook is locked to the one after it.
LEMMA MirrorAgrees ==
  ASSUME RoutingTypeOK, NEW words \in SUBSET Vocabulary, Mirror(words)
  PROVE  /\ turnLang' \in Varieties /\ memoryLang' \in Varieties /\ draft' \in Varieties
         /\ draft' = Lock(turnLang') /\ Lock(Variety(words, turnLang')) = Lock(turnLang')
         /\ turnLang' = Variety(words, Last)
<1>1. Last \in Varieties
  BY LastIsVariety
<1>2. turnLang' = Variety(words, Last) /\ memoryLang' = Variety(words, Last)
      /\ draft' = Lock(Variety(words, Last))
  BY DEF Mirror, MarkerLanguage, Lock
<1> QED
  BY <1>1, <1>2, VarietySettles, VarietiesDiffer

\* A call starts with no turn.
LEMMA RoutingStarts == RoutingInit => RoutingIInv
<1> SUFFICES ASSUME RoutingInit PROVE RoutingIInv
  OBVIOUS
<1>1. lastLine = [i \in Intents |-> [l \in Three |-> 0]]
  BY DEF RoutingInit, Intents, Three
<1>2. \A i \in Intents, l \in Three : PoolSize[i][l] \in Nat
  BY PoolAssumption DEF Intents, Three
<1>3. RoutingTypeOK
  <2>1. /\ \A i \in DOMAIN lastLine : i \in Intents
        /\ \A i \in Intents, l \in Three : lastLine[i][l] = 0 /\ 0 \in 0..PoolSize[i][l]
    BY <1>1, <1>2
  <2>2. Default \in Varieties /\ <<"en">> \in Varieties
    BY DEF Default, Configured, Varieties
  <2> QED
    BY <2>1, <2>2 DEF RoutingInit, RoutingTypeOK, Three
<1>4. turnOf.words = {} /\ EnglishWords({}) = {} /\ Cardinality({}) = 0
  BY FS_EmptySet DEF RoutingInit, EnglishWords
<1> QED
  BY <1>1, <1>3, <1>4 DEF RoutingInit, RoutingIInv, GoodbyeCloses, ShortGoodbye, ContentDecides

\* Hold music changes nothing but the last turn.
LEMMA NoiseRouted ==
  ASSUME RoutingIInv, NEW words \in Turns, Noise(words)
  PROVE  RoutingIInv'
<1>1. turnOf'.words = {"noise"} /\ turnOf'.route = "noise"
  BY DEF Noise
<1>2. UNCHANGED <<turnLang, memoryLang, lastLine, draft, closing>> /\ ~closing
  BY DEF Noise
<1>3. RoutingTypeOK'
  BY <1>1, <1>2 DEF RoutingIInv, RoutingTypeOK, Noise
<1>4. EnglishWords({"noise"}) \subseteq {"noise"} /\ EnglishWords({"noise"}) = {"noise"}
  BY DEF EnglishWords, Roman, TeluguCues, HindiCues, NoContent
<1>5. Cardinality({"noise"}) = 1
  BY FS_Singleton
<1>6. ContentDecides'
  BY <1>1, <1>4, <1>5 DEF ContentDecides
<1>7. GoodbyeCloses'
  BY <1>1, <1>2 DEF GoodbyeCloses, ShortGoodbye
<1>8. turnLang \in Varieties \cup {<<"none">>}
  BY DEF RoutingIInv, RoutingTypeOK
<1>9. turnLang # <<"none">> =>
        draft' = Lock(turnLang') /\ Lock(Variety(turnOf'.words, turnLang')) = Lock(turnLang')
  BY <1>1, <1>2, <1>8, NoiseKeepsTheLock DEF RoutingIInv
<1> QED
  BY <1>2, <1>3, <1>6, <1>7, <1>9 DEF RoutingIInv

\* A turn that is answered, by a line or by the model, whatever it says.
LEMMA TurnRouted ==
  ASSUME RoutingIInv, NEW words \in Turns, Canned(words) \/ Asked(words)
  PROVE  /\ RoutingIInv'
         /\ turnOf'.route = "canned" =>
              LET i == turnOf'.key[1] l == turnOf'.key[2]
              IN PoolSize[i][l] > 1 => lastLine'[i][l] # lastLine[i][l]
<1>0. words \in SUBSET Vocabulary /\ Mirror(words) /\ ~closing /\ turnOf'.words = words
  BY TurnAssumption DEF Canned, Asked, Answerable
<1>1. /\ turnLang' \in Varieties /\ memoryLang' \in Varieties /\ draft' \in Varieties
      /\ draft' = Lock(turnLang') /\ Lock(Variety(words, turnLang')) = Lock(turnLang')
      /\ turnLang' = Variety(words, Last)
  BY <1>0, MirrorAgrees DEF RoutingIInv
<1>2. ContentDecides'
  BY <1>0, <1>1, ContentIsEnglish DEF ContentDecides
<1>3. CASE Asked(words)
  <2>1. closing' = FALSE /\ lastLine' = lastLine /\ turnOf'.route \in {"llm", "warm", "cache"}
    BY <1>3, <1>0 DEF Asked
  <2>2. ~ShortGoodbye(words)
    BY <1>0, <1>3, GoodbyeIsIntent DEF Asked, HasLine, Trivial, ShortGoodbye
  <2>4. GoodbyeCloses'
    BY <1>0, <2>1, <2>2 DEF GoodbyeCloses
  <2>3. RoutingTypeOK'
    BY <1>0, <1>1, <2>1 DEF RoutingIInv, RoutingTypeOK
  <2> QED
    BY <1>0, <1>1, <1>2, <2>1, <2>3, <2>4 DEF RoutingIInv
<1>4. CASE Canned(words)
  <2> DEFINE i == Intent(words)
             l == IF Configured THEN CallLanguage ELSE PoolOf(<<ClassifiedLanguage(words)>>)
             n == NextLine(lastLine[i][l], PoolSize[i][l])
  <2>1. /\ i \in Intents /\ lastLine' = [lastLine EXCEPT ![i][l] = n]
        /\ \/ /\ turnOf' = [words |-> words, route |-> "canned", key |-> <<i, l>>, line |-> n]
              /\ closing' = (i = "bye")
           \/ turnOf'.route = "warm" /\ Foreseen(words) /\ closing' = closing
        /\ Trivial(words)
    BY <1>4 DEF Canned, HasLine, Intents
  <2>2. l \in Three
    BY PoolsAre DEF Configured, Three
  <2>3. i = "bye" <=> "bye" \in words
    BY <1>0, GoodbyeIsIntent
  <2>4. GoodbyeCloses'
    <3>1. ShortGoodbye(words) <=> i = "bye"
      BY <2>1, <2>3 DEF ShortGoodbye, Trivial
    <3>2. Foreseen(words) => ~(ShortGoodbye(words) /\ words \subseteq Plain)
      BY <1>0, PlainGoodbyeUnforeseen
    <3>3. CASE turnOf'.route = "canned" /\ closing' = (i = "bye")
      BY <1>0, <3>1, <3>3 DEF GoodbyeCloses
    <3>4. CASE turnOf'.route = "warm" /\ Foreseen(words) /\ closing' = closing
      BY <1>0, <3>2, <3>4 DEF GoodbyeCloses, Plain
    <3> QED
      BY <2>1, <3>3, <3>4
  <2> HIDE DEF i, l
  <2>5. lastLine[i][l] \in 0..PoolSize[i][l]
    BY <2>1, <2>2 DEF RoutingIInv, RoutingTypeOK, Three
  <2>6. n \in 1..PoolSize[i][l] /\ (PoolSize[i][l] > 1 => n # lastLine[i][l])
    BY <2>1, <2>2, <2>5, LineFollows
  <2>7. PoolSize[i][l] \in Nat
    BY <2>1, <2>2, PoolAssumption DEF Intents, Three
  <2> HIDE DEF n
  <2>8. /\ lastLine' \in [Intents -> [Three -> Nat]] /\ lastLine'[i][l] = n
        /\ \A j \in Intents, k \in Three : j # i \/ k # l => lastLine'[j][k] = lastLine[j][k]
    BY <2>1, <2>2, <2>6, <2>7 DEF RoutingIInv
  <2>9. \A j \in Intents, k \in Three : lastLine'[j][k] \in 0..PoolSize[j][k]
    <3> TAKE j \in Intents, k \in Three
    <3>1. CASE j = i /\ k = l
      BY <3>1, <2>6, <2>7, <2>8
    <3>2. CASE j # i \/ k # l
      BY <3>2, <2>8 DEF RoutingIInv, RoutingTypeOK, Three
    <3> QED
      BY <3>1, <3>2
  <2>10. DOMAIN lastLine' = Intents /\ closing' \in BOOLEAN
    <3>1. DOMAIN lastLine' = Intents
      BY <2>8
    <3>2. closing' \in BOOLEAN
      BY <2>1 DEF RoutingIInv, RoutingTypeOK
    <3> QED
      BY <3>1, <3>2
  <2>11. \/ turnOf'.route = "canned" /\ turnOf'.key[1] = i /\ turnOf'.key[2] = l
         \/ turnOf'.route = "warm"
    BY <2>1
  <2>12. RoutingTypeOK'
    BY <1>0, <1>1, <2>9, <2>10, <2>11 DEF RoutingTypeOK, Three
  <2>13. RoutingIInv'
    BY <1>0, <1>1, <1>2, <2>4, <2>8, <2>12 DEF RoutingIInv
  <2> QED
    BY <2>6, <2>8, <2>11, <2>13
<1> QED
  BY <1>3, <1>4

\* No turn leaves the router's invariant or gets the line of its intent and
\* language that was served last.
LEMMA RoutingStep ==
  ASSUME RoutingIInv, [RoutingNext]_routingVars
  PROVE  /\ RoutingIInv'
         /\ turnOf'.route = "canned" /\ routingVars' # routingVars =>
              LET i == turnOf'.key[1] l == turnOf'.key[2]
              IN PoolSize[i][l] > 1 => lastLine'[i][l] # lastLine[i][l]
<1>1. CASE UNCHANGED routingVars
  <2>1. RoutingTypeOK' /\ GoodbyeCloses' /\ ContentDecides'
    BY <1>1 DEF RoutingIInv, routingVars, RoutingTypeOK, GoodbyeCloses, ContentDecides
  <2> QED
    BY <1>1, <2>1 DEF RoutingIInv, routingVars
<1>2. ASSUME NEW words \in Turns, Noise(words) PROVE RoutingIInv' /\ turnOf'.route # "canned"
  <2>1. RoutingIInv'
    BY <1>2, NoiseRouted
  <2>2. turnOf'.route = "noise"
    BY <1>2 DEF Noise
  <2> QED
    BY <2>1, <2>2
<1> QED
  BY <1>1, <1>2, TurnRouted DEF RoutingNext

\* What the invariant says of drafts is DraftsAgree.
LEMMA RoutingHolds == RoutingIInv => RoutingInv
<1> SUFFICES ASSUME RoutingIInv PROVE DraftsAgree
  BY DEF RoutingIInv, RoutingInv
<1>1. \A words, l : MarkerLanguage(words, l) = Lock(Variety(words, l))
  BY DEF MarkerLanguage, Lock
<1> QED
  BY <1>1 DEF RoutingIInv, DraftsAgree

-----------------------------------------------------------------------------
(* The sound of the call. *)

Ages == 0..Long

(* HearingTypeOK, an age at a time. *)
HearingTypes ==
  /\ speaking \in BOOLEAN /\ halfDuplex \in BOOLEAN /\ acked \in BOOLEAN
  /\ recent \in Seq(Lines \cup {"reply"}) /\ Len(recent) <= RecentLimit
  /\ stopAge \in Ages /\ echoAge \in Ages /\ uttAge \in Ages /\ ackAge \in Ages
  /\ troubleAge \in Ages /\ linkAge \in Ages
  /\ echoHits \in 0..2 /\ acks \in Nat
  /\ said \in Seq(Lines) /\ Len(said) <= MaxSaid
  /\ playing \in Lines \cup {"none", "reply"}

(* HearingInv with what it rests on: the guard hears of what is on air, an *)
(* echo is as old as the last trouble, a bad link keeps half-duplex until  *)
(* it has aged, and an ack is told from the utterance's flag.              *)
HearingIInv ==
  /\ HearingTypes
  /\ playing # "none" => speaking
  /\ echoAge = troubleAge /\ echoAge <= linkAge
  /\ linkAge <= HalfTtl => halfDuplex
  /\ acked => acks = 1
  /\ ~acked => acks = 0

\* The two say the same of the types.
LEMMA TypesByAge == HearingTypeOK <=> HearingTypes
BY DEF HearingTypeOK, HearingTypes, Ages

\* Ages only grow, up to the age past every limit.
LEMMA AgesGrow ==
  ASSUME NEW a \in Ages, NEW b \in Ages
  PROVE  /\ Older(a) \in Ages /\ Long \in Ages /\ 0 \in Ages
         /\ a <= b => Older(a) <= Older(b)
         /\ Older(a) <= HalfTtl => a <= HalfTtl
BY HearingAssumption DEF Ages, Older, Long

\* The lines remembered stay lines, and no more than the limit.
LEMMA Remembers ==
  ASSUME HearingTypes, NEW l \in Lines \cup {"reply"}
  PROVE  Remember(l) \in Seq(Lines \cup {"reply"}) /\ Len(Remember(l)) <= RecentLimit
<1> DEFINE all == Append(recent, l)
<1>1. all \in Seq(Lines \cup {"reply"}) /\ Len(all) = Len(recent) + 1 /\ Len(recent) \in Nat
  BY DEF HearingTypes
<1>2. Len(recent) <= RecentLimit /\ RecentLimit \in Nat
  BY HearingAssumption DEF HearingTypes
<1>3. Remember(l) = IF Len(all) > RecentLimit THEN Tail(all) ELSE all
  BY DEF Remember
<1> HIDE DEF all
<1>4. Tail(all) \in Seq(Lines \cup {"reply"}) /\ Len(Tail(all)) = Len(all) - 1
  <2>1. all # <<>>
    BY <1>1
  <2> QED
    BY <1>1, <2>1
<1> QED
  BY <1>1, <1>2, <1>3, <1>4

\* A line handed over is the last of those that wait.
LEMMA HandedOver ==
  ASSUME HearingTypes, NEW l \in Lines, HandOver(l)
  PROVE  /\ said' \in Seq(Lines) /\ Len(said') <= MaxSaid
         /\ speaking' = TRUE /\ recent' = Remember(l)
<1>1. said \in Seq(Lines) /\ Len(said) < MaxSaid /\ MaxSaid \in Nat /\ said' = Append(said, l)
  BY HearingAssumption DEF HearingTypes, HandOver
<1>2. said' \in Seq(Lines) /\ Len(said') = Len(said) + 1 /\ Len(said) \in Nat
  BY <1>1
<1>3. speaking' = TRUE /\ recent' = Remember(l)
  BY DEF HandOver, OnAgentStarted
<1> QED
  BY <1>1, <1>2, <1>3

\* The oldest line goes.
LEMMA LineGoes ==
  ASSUME HearingTypes, said # <<>>
  PROVE  /\ Head(said) \in Lines
         /\ Tail(said) \in Seq(Lines) /\ Len(Tail(said)) <= MaxSaid
<1>1. said \in Seq(Lines) /\ Len(said) <= MaxSaid /\ MaxSaid \in Nat
  BY HearingAssumption DEF HearingTypes
<1>2. Head(said) \in Lines /\ Tail(said) \in Seq(Lines) /\ Len(Tail(said)) = Len(said) - 1 /\ Len(said) \in Nat
  BY <1>1
<1> QED
  BY <1>1, <1>2

\* A call starts in silence.
LEMMA HearingStarts == HearingInit => HearingIInv
<1> SUFFICES ASSUME HearingInit PROVE HearingIInv
  OBVIOUS
<1>1. HearingTypes
  <2>1. Long \in Ages /\ RecentLimit \in Nat
    BY HearingAssumption DEF Ages, Long
  <2>2. recent = <<>> /\ <<>> \in Seq(Lines \cup {"reply"}) /\ Len(<<>>) = 0
    BY DEF HearingInit
  <2>3. recent \in Seq(Lines \cup {"reply"}) /\ Len(recent) <= RecentLimit
    BY <2>1, <2>2
  <2>4. /\ stopAge \in Ages /\ echoAge \in Ages /\ uttAge \in Ages /\ ackAge \in Ages
        /\ troubleAge \in Ages /\ linkAge \in Ages /\ echoHits \in 0..2 /\ acks \in Nat
    BY <2>1 DEF HearingInit
  <2>5. speaking \in BOOLEAN /\ halfDuplex \in BOOLEAN /\ acked \in BOOLEAN
    BY DEF HearingInit
  <2>6. said \in Seq(Lines) /\ Len(said) <= MaxSaid
    <3>1. said = <<>> /\ <<>> \in Seq(Lines) /\ Len(<<>>) = 0 /\ MaxSaid \in Nat
      BY HearingAssumption DEF HearingInit
    <3> QED
      BY <3>1
  <2> QED
    BY <2>3, <2>4, <2>5, <2>6 DEF HearingInit, HearingTypes
<1> QED
  BY <1>1, HearingAssumption DEF HearingInit, HearingIInv, Long

\* What the agent's side does keeps the invariant.
LEMMA AgentHeard ==
  ASSUME HearingIInv,
         \/ \E l \in Lines : Say(l)
         \/ DropLine \/ AgentSpeaks \/ AgentListens \/ AgentThinks
  PROVE  HearingIInv'
<1>1. HearingTypes
  BY DEF HearingIInv
<1>2. 0 \in Ages /\ {"none", "reply"} \cap Lines = {}
  BY HearingAssumption DEF Ages, Long
<1>3. UNCHANGED <<echoAge, troubleAge, linkAge, halfDuplex, acks, acked, uttAge, ackAge, echoHits>>
  BY DEF Say, HandOver, DropLine, AgentSpeaks, AgentListens, AgentThinks, OnAgentStarted, ackVars, echoVars
<1>4. HearingTypes' /\ (playing' # "none" => speaking')
  <2>1. ASSUME NEW l \in Lines, Say(l) PROVE HearingTypes' /\ (playing' # "none" => speaking')
    <3>1. /\ said' \in Seq(Lines) /\ Len(said') <= MaxSaid /\ speaking' = TRUE
          /\ recent' = Remember(l) /\ UNCHANGED <<stopAge, playing>>
      BY <1>1, <2>1, HandedOver DEF Say
    <3>2. recent' \in Seq(Lines \cup {"reply"}) /\ Len(recent') <= RecentLimit
      BY <1>1, <3>1, Remembers
    <3> QED
      BY <1>1, <1>3, <3>1, <3>2 DEF HearingTypes
  <2>2. CASE DropLine
    <3>1. said' \in Seq(Lines) /\ Len(said') <= MaxSaid
      <4>1. said # <<>> /\ (said' = <<>> \/ said' = Tail(said))
        BY <2>2 DEF DropLine
      <4>2. <<>> \in Seq(Lines) /\ Len(<<>>) = 0 /\ MaxSaid \in Nat
        BY HearingAssumption
      <4>3. CASE said' = <<>>
        BY <4>2, <4>3
      <4>4. CASE said' = Tail(said)
        BY <1>1, <4>1, <4>4, LineGoes
      <4> QED
        BY <4>1, <4>3, <4>4
    <3>2. UNCHANGED <<speaking, recent, stopAge, playing>>
      BY <2>2 DEF DropLine, echoVars
    <3> QED
      BY <1>1, <1>3, <3>1, <3>2 DEF HearingTypes, HearingIInv
  <2>3. CASE AgentSpeaks
    <3>1. /\ said' \in Seq(Lines) /\ Len(said') <= MaxSaid
          /\ playing' \in Lines \cup {"reply"}
      BY <1>1, <2>3, LineGoes DEF AgentSpeaks, HearingTypes
    <3>2. speaking' = TRUE /\ UNCHANGED <<recent, stopAge>>
      BY <2>3 DEF AgentSpeaks
    <3> QED
      BY <1>1, <1>3, <3>1, <3>2 DEF HearingTypes
  <2>4. CASE AgentListens
    <3>1. playing \in Lines \cup {"reply"}
      BY <1>1, <2>4 DEF AgentListens, HearingTypes
    <3> QED
      BY <1>1, <1>2, <1>3, <2>4, <3>1, Remembers DEF AgentListens, HearingTypes
  <2>5. CASE AgentThinks
    BY <1>1, <1>3, <2>5, Remembers DEF AgentThinks, HearingTypes
  <2> QED
    BY <2>1, <2>2, <2>3, <2>4, <2>5
<1> QED
  BY <1>3, <1>4 DEF HearingIInv

\* A transcript that ends an utterance.
LEMMA TurnHeard ==
  ASSUME HearingIInv, NEW t \in Transcripts, CallerTurn(t)
  PROVE  HearingIInv'
<1>1. HearingTypes
  BY DEF HearingIInv
<1>2. /\ UNCHANGED <<speaking, recent, stopAge, said, playing, ackAge, linkAge>>
      /\ uttAge' = Long /\ acked' = FALSE /\ acks' = 0
  BY DEF CallerTurn
<1>3. Long \in Ages /\ 0 \in Ages /\ 0 <= linkAge
  BY <1>1, HearingAssumption DEF Ages, Long, HearingTypes
<1>4. halfDuplex' \in BOOLEAN /\ echoHits' \in 0..2 /\ echoAge' \in Ages /\ troubleAge' \in Ages
      /\ echoAge' = troubleAge' /\ echoAge' <= linkAge
  <2>1. CASE Echoes(t)
    <3>1. echoAge' = 0 /\ troubleAge' = 0
      BY <2>1 DEF CallerTurn, IsEcho
    <3>2. echoHits' \in 0..2
      BY <1>1, <2>1 DEF CallerTurn, IsEcho, HearingTypes
    <3>3. halfDuplex' \in BOOLEAN
      BY <2>1 DEF CallerTurn, IsEcho
    <3> QED
      BY <1>3, <3>1, <3>2, <3>3
  <2>2. CASE ~Echoes(t)
    <3>1. UNCHANGED <<echoAge, troubleAge>>
      BY <2>2 DEF CallerTurn, IsEcho
    <3>2. echoHits' \in 0..2
      BY <1>1, <2>2 DEF CallerTurn, IsEcho, HearingTypes
    <3>3. halfDuplex' \in BOOLEAN
      BY <2>2 DEF CallerTurn, IsEcho
    <3> QED
      BY <1>1, <3>1, <3>2, <3>3 DEF HearingIInv, HearingTypes
  <2> QED
    BY <2>1, <2>2
<1>5. linkAge' <= HalfTtl => halfDuplex'
  <2> SUFFICES ASSUME linkAge <= HalfTtl PROVE halfDuplex'
    BY <1>2
  <2>1. halfDuplex /\ ~(echoAge > HalfTtl)
    BY <1>1, HearingAssumption DEF HearingIInv, HearingTypes, Ages, Long
  <2>2. ~Recovers
    BY <2>1 DEF Recovers
  <2> QED
    BY <2>1, <2>2 DEF CallerTurn, IsEcho
<1>6. HearingTypes'
  BY <1>1, <1>2, <1>3, <1>4 DEF HearingTypes
<1> QED
  BY <1>2, <1>4, <1>5, <1>6 DEF HearingIInv

\* No step leaves the invariant.
LEMMA HearingStep == HearingIInv /\ [HearingNext]_hearingVars => HearingIInv'
<1> SUFFICES ASSUME HearingIInv, [HearingNext]_hearingVars PROVE HearingIInv'
  OBVIOUS
<1>1. HearingTypes
  BY DEF HearingIInv
<1>2. Long \in Ages /\ 0 \in Ages /\ 0 <= linkAge
  BY <1>1, HearingAssumption DEF Ages, Long, HearingTypes
<1>3. ASSUME NEW l \in Lines, InterimTranscript(l) PROVE HearingIInv'
  <2>1. UNCHANGED <<stopAge, echoHits, halfDuplex, echoAge, playing, troubleAge, linkAge>>
        /\ playing = "none"
    BY <1>3 DEF InterimTranscript
  <2>2. CASE ShouldAck
    <3>0. acked' = TRUE /\ ackAge' = 0 /\ acks' = acks + 1 /\ HandOver(l) /\ uttAge' = uttAge
      BY <1>3, <2>2 DEF InterimTranscript
    <3>1. /\ acked' = TRUE /\ ackAge' = 0 /\ acks' = acks + 1 /\ uttAge' = uttAge
          /\ said' \in Seq(Lines) /\ Len(said') <= MaxSaid /\ speaking' = TRUE /\ recent' = Remember(l)
      BY <1>1, <3>0, HandedOver
    <3>2. ~acked
      BY <2>2 DEF ShouldAck
    <3>3. acks' = 1
      BY <3>1, <3>2 DEF HearingIInv
    <3>4. HearingTypes'
      BY <1>1, <1>2, <2>1, <3>1, <3>3, Remembers DEF HearingTypes
    <3> QED
      BY <2>1, <3>1, <3>3, <3>4 DEF HearingIInv
  <2>3. CASE ~ShouldAck
    <3>1. /\ uttAge' = (IF uttAge = Long THEN 0 ELSE uttAge)
          /\ UNCHANGED <<acked, ackAge, acks, said, speaking, recent>>
      BY <1>3, <2>3 DEF InterimTranscript
    <3>2. HearingTypes'
      BY <1>1, <1>2, <2>1, <3>1 DEF HearingTypes
    <3> QED
      BY <2>1, <3>1, <3>2 DEF HearingIInv
  <2> QED
    BY <2>2, <2>3
<1>4. CASE LinkDegrades
  <2>1. /\ halfDuplex' = TRUE /\ echoAge' = 0 /\ troubleAge' = 0 /\ linkAge' = 0
        /\ UNCHANGED <<speaking, recent, stopAge, echoHits, said, playing, uttAge, acked, ackAge, acks>>
    BY <1>4 DEF LinkDegrades, ForceHalfDuplex, ackVars
  <2>2. HearingTypes'
    BY <1>1, <1>2, <2>1 DEF HearingTypes
  <2> QED
    BY <2>1, <2>2 DEF HearingIInv
<1>5. CASE HearingTick
  <2>1. /\ stopAge' = Older(stopAge) /\ echoAge' = Older(echoAge) /\ ackAge' = Older(ackAge)
        /\ uttAge' = Older(uttAge) /\ troubleAge' = Older(troubleAge) /\ linkAge' = Older(linkAge)
        /\ UNCHANGED <<speaking, recent, echoHits, halfDuplex, said, playing, acked, acks>>
    BY <1>5 DEF HearingTick
  <2>2. HearingTypes'
    BY <1>1, <2>1, AgesGrow DEF HearingTypes
  <2>3. echoAge' = troubleAge' /\ echoAge' <= linkAge' /\ (linkAge' <= HalfTtl => halfDuplex')
    BY <1>1, <2>1, AgesGrow DEF HearingTypes, HearingIInv
  <2> QED
    BY <2>1, <2>2, <2>3 DEF HearingIInv
<1>6. CASE UNCHANGED hearingVars
  <2>1. HearingTypes'
    BY <1>1, <1>6 DEF hearingVars, echoVars, ackVars, HearingTypes
  <2> QED
    BY <1>6, <2>1 DEF hearingVars, echoVars, ackVars, HearingIInv
<1> QED
  BY <1>3, <1>4, <1>5, <1>6, AgentHeard, TurnHeard DEF HearingNext

\* The caller's words come through and the agent's own do not.
LEMMA HearingHolds == HearingIInv => HearingInv
<1> SUFFICES ASSUME HearingIInv PROVE HearingInv
  OBVIOUS
<1>1. HearingTypes
  BY DEF HearingIInv
<1>2. \A t \in Words : t.line = "none" /\ t.kind = "content" /\ ~Matches(t)
  <2> TAKE t \in Words
  <2>1. t.kind = "content" /\ t.line = "none"
    BY DEF Words, Transcripts
  <2>2. \A i \in DOMAIN recent : recent[i] \in Lines \cup {"reply"}
    BY <1>1 DEF HearingTypes
  <2> QED
    BY <2>1, <2>2, HearingAssumption DEF Matches
<1>3. CallerHeardAgain
  BY <1>1, <1>2, HearingAssumption
     DEF CallerHeardAgain, Dropped, Echoes, Recovers, HearingIInv
<1>4. LinkProtects
  <2> SUFFICES ASSUME playing # "none", linkAge <= HalfTtl, NEW t \in Words PROVE Dropped(t)
    BY DEF LinkProtects
  <2>1. speaking /\ halfDuplex /\ ~(echoAge > HalfTtl)
    BY <1>1, HearingAssumption DEF HearingIInv, HearingTypes, Ages, Long
  <2> QED
    BY <2>1 DEF Dropped, Recovers
<1>5. EchoOfLineDropped
  <2> SUFFICES ASSUME NEW t \in Transcripts, t.kind = "echo", Matches(t),
                      playing = t.line \/ stopAge <= EchoWindow
               PROVE  Dropped(t)
    BY DEF EchoOfLineDropped
  <2>1. t.line # "none"
    BY HearingAssumption DEF Transcripts
  <2> QED
    BY <2>1 DEF Dropped, Echoes, InPostStop, HearingIInv
<1>6. OneAckPerUtterance
  BY DEF OneAckPerUtterance, HearingIInv
<1> QED
  BY <1>1, <1>3, <1>4, <1>5, <1>6, TypesByAge DEF HearingInv

(* ---- the stabiliser ---- *)

Tracks == [token : Tokens, count : 1..MinPartials, age : 0..Debounce]
Lastings == [word : Tokens \cup {"none"}, seen : 0..MinPartials, latest : 0..MinPartials, age : 0..Debounce]

(* The types, with transcripts as sequences. *)
StabTypes ==
  /\ stable \in Seq(Tokens) /\ partial \in Seq(Tokens) /\ Len(partial) <= MaxWords
  /\ tracks \in Seq(Tracks) /\ Len(stable) + Len(tracks) <= MaxWords
  /\ confidence \in {"high", "low"} /\ scores \in {"none", "nulls", "high", "low"}
  /\ lasting \in [Places -> Lastings]

(* The word that is tracked is the one behind the stable prefix, and its   *)
(* place has been its own for as long as the track says.                   *)
TrackHasLasted ==
  /\ Len(tracks) <= 1
  /\ Len(tracks) = 1 =>
       LET p == Len(stable) + 1
       IN /\ lasting[p].word = tracks[1].token
          /\ lasting[p].seen >= tracks[1].count /\ lasting[p].age >= tracks[1].age

StabIInv == StabTypes /\ StableHasLasted /\ TrackHasLasted

\* Sequences of no more than one element.
LEMMA ShortSequences ==
  ASSUME NEW S, NEW s \in Seq(S)
  PROVE  /\ Len(s) \in Nat /\ (Len(s) <= 1 => Len(s) \in 0..1) /\ (Len(s) = 0 => s = <<>>)
         /\ Len(s) = 1 => Tail(s) = <<>> /\ SubSeq(s, 2, 1) = <<>>
         /\ Len(s) >= 1 => SubSeq(s, 1, 1) = <<s[1]>>
<1>1. Len(s) \in Nat
  BY LenProperties
<1>2. \A n \in Nat : n <= 1 => n \in 0..1
  OBVIOUS
<1>3. Len(s) = 0 => s = <<>>
  BY EmptySeq
<1>4. ASSUME Len(s) = 1 PROVE Tail(s) = <<>> /\ SubSeq(s, 2, 1) = <<>>
  <2>1. Tail(s) \in Seq(S) /\ Len(Tail(s)) = 0
    BY <1>4
  <2>2. Tail(s) = <<>>
    BY <2>1, EmptySeq
  <2>3. SubSeq(s, 2, 1) = <<>>
    BY <1>4
  <2> QED
    BY <2>2, <2>3
<1>5. SubSeq(s, 1, 1) = [i \in 1..1 |-> s[i]] /\ <<s[1]>> = [i \in 1..1 |-> s[i]]
  OBVIOUS
<1> QED
  BY <1>1, <1>2, <1>3, <1>4, <1>5

\* A set of numbers that is not empty has a least one.
LEMMA Least == ASSUME NEW T, T \subseteq Nat, T # {} PROVE \E x \in T : \A y \in T : x <= y
<1> DEFINE R == StrictSubsetOrdering(Nat)
           F == FiniteSubsetsOf(Nat)
           U == {0..n : n \in T}
<1>1. IsWellFoundedOn(R, F)
  BY FS_StrictSubsetOrderingWellFounded
<1>2. U \subseteq F /\ U # {}
  <2>1. \A n \in T : 0..n \subseteq Nat /\ IsFiniteSet(0..n)
    BY FS_Interval
  <2> QED BY <2>1 DEF FiniteSubsetsOf
<1>3. PICK u \in U : \A y \in U : ~ (<<y, u>> \in R)
  <2> HIDE DEF R, F, U
  <2> QED BY <1>1, <1>2, WFMin
<1>4. PICK x \in T : u = 0..x
  OBVIOUS
<1>5. ASSUME NEW y \in T, y < x PROVE FALSE
  <2>1. 0..y \in U /\ 0..y \subseteq 0..x /\ x \in 0..x /\ x \notin 0..y
    BY <1>5
  <2>2. <<0..y, 0..x>> \in R
    <3>1. 0..y \subseteq Nat /\ 0..x \subseteq Nat /\ 0..y # 0..x
      BY <2>1
    <3>2. \A A, B \in SUBSET Nat : A \subseteq B /\ A # B => <<A, B>> \in R
      BY DEF StrictSubsetOrdering
    <3> HIDE DEF R
    <3> QED BY <2>1, <3>1, <3>2
  <2> QED BY <2>1, <2>2, <1>3, <1>4
<1> QED BY <1>5

\* A transcript is a sequence of words that is not too long.
LEMMA TranscriptsAre ==
  \A s : s \in Transcript <=> s \in Seq(Tokens) /\ Len(s) <= MaxWords
<1>1. ASSUME NEW s \in Transcript PROVE s \in Seq(Tokens) /\ Len(s) <= MaxWords
  <2>1. PICK n \in 0..MaxWords : s \in [1..n -> Tokens]
    BY DEF Transcript
  <2> QED
    BY <2>1, StabiliserAssumption
<1>2. ASSUME NEW s \in Seq(Tokens), Len(s) <= MaxWords PROVE s \in Transcript
  <2>1. s \in [1..Len(s) -> Tokens] /\ Len(s) \in 0..MaxWords
    BY <1>2, StabiliserAssumption
  <2> QED
    BY <2>1 DEF Transcript
<1> QED
  BY <1>1, <1>2

\* The counters stay below their limits.
LEMMA CountersGrow ==
  /\ \A n \in 0..MinPartials : Count(n) \in 1..MinPartials /\ Count(n) >= n
  /\ \A m, n \in 0..MinPartials : m <= n => Count(m) <= Count(n)
  /\ \A a \in 0..Debounce : Grow(a) \in 0..Debounce /\ Grow(a) >= a
  /\ \A a, b \in 0..Debounce : a <= b => Grow(a) <= Grow(b)
BY StabiliserAssumption DEF Count, Grow

\* The rewrite of a stable word leaves the prefix before it and no track.
LEMMA KeptIs ==
  ASSUME StabTypes, NEW words \in Seq(Tokens)
  PROVE  LET k == Kept(words)
         IN /\ k.stable \in Seq(Tokens) /\ Len(k.stable) <= Len(stable)
            /\ \A i \in 1..Len(k.stable) :
                 k.stable[i] = stable[i] /\ (i <= Len(words) => words[i] = stable[i])
            /\ \/ k.stable = stable /\ k.tracks = tracks
               \/ k.tracks = <<>> /\ Len(k.stable) < Len(stable)
<1> DEFINE bad == Rewritten(words)
           first == CHOOSE i \in bad : \A j \in bad : i <= j
<1>0. stable \in Seq(Tokens) /\ Len(stable) \in Nat /\ Len(words) \in Nat
  BY DEF StabTypes
<1>1. CASE bad = {}
  <2>1. Kept(words).stable = stable /\ Kept(words).tracks = tracks
    BY <1>1 DEF Kept
  <2>2. \A i \in 1..Len(stable) : i <= Len(words) => words[i] = stable[i]
    BY <1>1 DEF Rewritten
  <2> QED
    BY <1>0, <2>1, <2>2
<1>2. CASE bad # {}
  <2>1. bad \in SUBSET (1..Len(stable))
    BY DEF Rewritten
  <2>2. \E i \in bad : \A j \in bad : i <= j
    <3>1. bad \subseteq Nat
      BY <1>0, <2>1
    <3> HIDE DEF bad
    <3> QED
      BY <1>2, <3>1, Least
  <2>3. first \in bad /\ \A j \in bad : first <= j
    BY <2>2
  <2> HIDE DEF first
  <2>4. first \in 1..Len(stable)
    BY <2>1, <2>3
  <2>5. Kept(words).stable = SubSeq(stable, 1, first - 1) /\ Kept(words).tracks = <<>>
    BY <1>2 DEF Kept, first
  <2>6. SubSeq(stable, 1, first - 1) \in Seq(Tokens) /\ Len(SubSeq(stable, 1, first - 1)) = first - 1
        /\ \A i \in 1..(first - 1) : SubSeq(stable, 1, first - 1)[i] = stable[i]
    BY <1>0, <2>4
  <2>7. \A i \in 1..(first - 1) : i <= Len(words) => words[i] = stable[i]
    BY <1>0, <2>3, <2>4 DEF Rewritten
  <2> QED
    BY <1>0, <2>4, <2>5, <2>6, <2>7
<1> QED
  BY <1>1, <1>2

\* What a transcript has behind a prefix of base words.
LEMMA PendingIs ==
  ASSUME NEW words \in Seq(Tokens), NEW base \in Nat
  PROVE  LET pending == SubSeq(words, base + 1, Len(words))
         IN /\ Len(words) <= base => Len(pending) = 0
            /\ Len(words) > base => Len(pending) = Len(words) - base
            /\ \A i \in 1..(Len(words) - base) : pending[i] = words[base + i]
OBVIOUS

\* One push makes at most one word stable, and tracks at most one.
LEMMA PushIs ==
  ASSUME StabIInv, NEW words \in Seq(Tokens), NEW unsure, Push(words, unsure)
  PROVE  LET k == Kept(words)
             base == Len(k.stable)
             next == Track(k.tracks, 1, words[base + 1])
         IN \/ Len(words) <= base /\ stable' = k.stable /\ tracks' = k.tracks
            \/ Len(words) > base /\ stable' = k.stable /\ tracks' = <<next>>
            \/ /\ Len(words) > base /\ stable' = Append(k.stable, words[base + 1])
               /\ Followed(k.tracks, 1, words[base + 1]) /\ Lasted(next)
               /\ \/ tracks' = <<>>
                  \/ /\ Len(words) > base + 1
                     /\ tracks' = <<[token |-> words[base + 2], count |-> 1, age |-> 0]>>
<1> DEFINE k == Kept(words)
           ks == k.stable
           kt == k.tracks
           base == Len(ks)
           pending == SubSeq(words, base + 1, Len(words))
           Ready(idx) == Lasted(Track(kt, idx, pending[idx])) /\ base + idx \notin unsure
           Chosen(m) == /\ \A idx \in 1..m : Ready(idx)
                        /\ m < Len(pending) => ~Ready(m + 1)
           n == CHOOSE m \in 0..Len(pending) : Chosen(m)
           rest == SubSeq(kt, n + 1, Len(kt))
           follower == Track(kt, n + 1, pending[n + 1])
<1>1. /\ stable' = ks \o SubSeq(pending, 1, n)
      /\ tracks' = IF n = Len(pending) THEN rest
                   ELSE IF Followed(kt, n + 1, pending[n + 1]) THEN <<follower>> \o Tail(rest) ELSE <<follower>>
  BY DEF Push
<1>2. ks \in Seq(Tokens) /\ base \in Nat /\ kt \in Seq(Tracks) /\ Len(kt) \in 0..1
  <2>1. ks \in Seq(Tokens) /\ (kt = tracks \/ kt = <<>>)
    BY KeptIs DEF StabIInv
  <2>2. <<>> \in Seq(Tracks) /\ Len(<<>>) = 0
    OBVIOUS
  <2>3. tracks \in Seq(Tracks) /\ Len(tracks) <= 1
    BY DEF StabIInv, StabTypes, TrackHasLasted
  <2> HIDE DEF k
  <2>4. Len(tracks) \in 0..1
    BY <2>3, ShortSequences
  <2>5. kt \in Seq(Tracks) /\ Len(kt) \in 0..1
    <3>1. CASE kt = tracks
      BY <2>3, <2>4, <3>1
    <3>2. CASE kt = <<>>
      BY <2>2, <3>2
    <3> QED
      BY <2>1, <3>1, <3>2
  <2>6. Len(ks) \in Nat
    BY <2>1
  <2> QED
    BY <2>1, <2>5, <2>6
<1>3. /\ Len(words) <= base => Len(pending) = 0
      /\ Len(words) > base => Len(pending) = Len(words) - base
      /\ \A i \in 1..(Len(words) - base) : pending[i] = words[base + i]
  BY <1>2, PendingIs
<1>4. Len(words) \in Nat /\ Len(pending) \in Nat
  BY <1>2, <1>3
<1> HIDE DEF k, pending
<1>5. \A idx \in Nat : \A w : ~Followed(kt, idx, w) => ~Lasted(Track(kt, idx, w)) /\ Track(kt, idx, w) = [token |-> w, count |-> 1, age |-> 0]
  BY StabiliserAssumption DEF Track, Lasted
<1>6. \A idx \in Nat : \A w : Followed(kt, idx, w) => idx <= 1
  BY <1>2 DEF Followed
<1>7. ~Ready(2)
  <2>1. ~(2 <= 1) /\ 2 \in Nat
    OBVIOUS
  <2>2. ~Followed(kt, 2, pending[2])
    BY <1>6, <2>1
  <2> QED
    BY <1>5, <2>1, <2>2
<1>8. \E m \in 0..Len(pending) : Chosen(m)
  <2>1. Len(pending) = 0 => Chosen(0)
    BY <1>4
  <2>2. ~Ready(1) => Chosen(0)
    OBVIOUS
  <2>3. Ready(1) => Chosen(1)
    BY <1>7
  <2>4. 0 \in 0..Len(pending) /\ (Len(pending) # 0 => 1 \in 0..Len(pending))
    BY <1>4
  <2> HIDE DEF Chosen, Ready
  <2> QED
    BY <2>1, <2>2, <2>3, <2>4
<1>9. n \in 0..Len(pending) /\ Chosen(n)
  BY <1>8
<1> HIDE DEF n
<1>10. n \in 0..1
  <2>1. n >= 2 => 2 \in 1..n
    BY <1>4, <1>9
  <2> QED
    BY <1>4, <1>7, <1>9, <2>1
<1>11. CASE n = 0
  <2>1. SubSeq(pending, 1, 0) = <<>> /\ ks \o <<>> = ks
    BY <1>2
  <2>2. rest = kt
    BY <1>2, <1>11
  <2>3. CASE Len(pending) = 0
    BY <1>1, <1>2, <1>3, <1>4, <1>11, <2>1, <2>2, <2>3 DEF k
  <2>4. CASE Len(pending) # 0
    <3>1. Len(words) > base /\ pending[1] = words[base + 1]
      BY <1>2, <1>3, <1>4, <2>4
    <3>2. Followed(kt, 1, pending[1]) => Len(kt) = 1
      BY <1>2 DEF Followed
    <3>3. Len(kt) = 1 => <<follower>> \o Tail(kt) = <<follower>>
      <4> SUFFICES ASSUME Len(kt) = 1 PROVE <<follower>> \o Tail(kt) = <<follower>>
        OBVIOUS
      <4>1. Tail(kt) = <<>>
        BY <1>2, ShortSequences
      <4>2. \A x : <<x>> \o <<>> = <<x>>
        OBVIOUS
      <4> QED
        BY <4>1, <4>2
    <3>4. tracks' = <<Track(kt, 1, words[base + 1])>>
      <4>1. n # Len(pending) /\ n + 1 = 1
        BY <1>4, <1>11, <2>4
      <4>2. follower = Track(kt, 1, words[base + 1])
        BY <3>1, <4>1
      <4> QED
        BY <1>1, <2>2, <3>2, <3>3, <4>1, <4>2
    <3> QED
      BY <1>1, <1>11, <2>1, <3>1, <3>4 DEF k
  <2> QED
    BY <2>3, <2>4
<1>12. CASE n = 1
  <2>1. Len(pending) >= 1 /\ Len(words) > base /\ pending[1] = words[base + 1]
    BY <1>2, <1>3, <1>4, <1>9, <1>12
  <2>0. pending \in Seq(Tokens)
    BY <1>2 DEF pending
  <2>2. SubSeq(pending, 1, 1) = <<pending[1]>>
    BY <2>0, <2>1, ShortSequences
  <2>3. ks \o <<pending[1]>> = Append(ks, pending[1])
    BY <1>2
  <2>4. Ready(1)
    BY <1>9, <1>12
  <2>5. Followed(kt, 1, pending[1])
    BY <1>5, <2>4
  <2>6. Len(kt) = 1
    BY <1>2, <2>5 DEF Followed
  <2>7. rest = <<>>
    BY <1>2, <1>12, <2>6
  <2>8. CASE Len(pending) = 1
    BY <1>1, <1>12, <2>1, <2>2, <2>3, <2>4, <2>5, <2>7, <2>8 DEF k
  <2>9. CASE Len(pending) # 1
    <3>1. Len(words) > base + 1 /\ pending[2] = words[base + 2]
      <4>1. Len(pending) = Len(words) - base /\ base \in Nat /\ Len(words) \in Nat
        BY <1>2, <1>3, <1>4, <2>1
      <4>2. Len(words) - base >= 2
        BY <2>1, <2>9, <4>1
      <4>3. 2 \in 1..(Len(words) - base) /\ Len(words) > base + 1
        BY <4>1, <4>2
      <4> QED
        BY <1>3, <4>3
    <3>2. ~Followed(kt, 2, pending[2])
      BY <2>6 DEF Followed
    <3>3. tracks' = <<[token |-> words[base + 2], count |-> 1, age |-> 0]>>
      BY <1>1, <1>5, <1>12, <2>9, <3>1, <3>2
    <3> QED
      BY <1>1, <1>12, <2>1, <2>2, <2>3, <2>4, <2>5, <3>1, <3>3 DEF k
  <2> QED
    BY <2>8, <2>9
<1> QED
  BY <1>10, <1>11, <1>12

\* What a place of the history becomes when a transcript comes.
LEMMA NoteIs ==
  ASSUME StabTypes, NEW words \in Seq(Tokens)
  PROVE  /\ Note(words) \in [Places -> Lastings]
         /\ \A i \in Places :
              /\ i > Len(words) \/ words[i] = lasting[i].word =>
                   /\ Note(words)[i].word = lasting[i].word
                   /\ Note(words)[i].seen >= lasting[i].seen /\ Note(words)[i].age = lasting[i].age
              /\ i <= Len(words) /\ words[i] = lasting[i].word =>
                   Note(words)[i].seen = Count(lasting[i].seen)
              /\ i <= Len(words) => Note(words)[i].word = words[i] /\ Note(words)[i].seen >= 1
<1>1. ASSUME NEW i \in Places
      PROVE  /\ Note(words)[i] \in Lastings
             /\ i > Len(words) \/ words[i] = lasting[i].word =>
                  /\ Note(words)[i].word = lasting[i].word
                  /\ Note(words)[i].seen >= lasting[i].seen /\ Note(words)[i].age = lasting[i].age
             /\ i <= Len(words) /\ words[i] = lasting[i].word =>
                  Note(words)[i].seen = Count(lasting[i].seen)
             /\ i <= Len(words) => Note(words)[i].word = words[i] /\ Note(words)[i].seen >= 1
  <2> DEFINE l == lasting[i]
  <2>0. l \in Lastings /\ i \in Nat /\ Len(words) \in Nat /\ i >= 1
    BY StabiliserAssumption DEF StabTypes, Places
  <2>1. Note(words)[i] =
          IF i > Len(words) THEN [l EXCEPT !.latest = 0]
          ELSE IF words[i] = l.word THEN [l EXCEPT !.seen = Count(@), !.latest = Count(@)]
          ELSE [word |-> words[i], seen |-> 1, latest |-> 1, age |-> 0]
    BY DEF Note
  <2> HIDE DEF l
  <2>2. l.seen \in 0..MinPartials /\ l.latest \in 0..MinPartials /\ l.age \in 0..Debounce
        /\ l.word \in Tokens \cup {"none"}
    BY <2>0 DEF Lastings
  <2>3. Count(l.seen) \in 1..MinPartials /\ Count(l.latest) \in 1..MinPartials /\ Count(l.seen) >= l.seen
    BY <2>2, CountersGrow
  <2>4. CASE i > Len(words)
    <3>1. Note(words)[i] = [l EXCEPT !.latest = 0] /\ [l EXCEPT !.latest = 0] \in Lastings
      BY <2>0, <2>1, <2>4, StabiliserAssumption DEF Lastings
    <3> QED
      BY <2>0, <2>2, <2>4, <3>1 DEF l, Lastings
  <2>5. CASE i <= Len(words) /\ words[i] = l.word
    <3> DEFINE m == [l EXCEPT !.seen = Count(@), !.latest = Count(@)]
    <3>1. Note(words)[i] = m
      BY <2>0, <2>1, <2>5
    <3>2. m \in Lastings /\ m.word = l.word /\ m.seen = Count(l.seen) /\ m.age = l.age
      <4>1. PICK a \in 0..MinPartials : a = Count(l.seen)
        BY <2>3, StabiliserAssumption
      <4>2. PICK b \in 0..MinPartials : b = Count(l.latest)
        BY <2>3, StabiliserAssumption
      <4>3. m = [l EXCEPT !.seen = a, !.latest = b]
        BY <4>1, <4>2
      <4> HIDE DEF m
      <4>4. l \in Lastings
        BY <2>0
      <4> QED
        BY <4>1, <4>3, <4>4 DEF Lastings
    <3> HIDE DEF m
    <3> QED
      BY <2>0, <2>3, <2>5, <3>1, <3>2 DEF l
  <2>6. CASE i <= Len(words) /\ words[i] # l.word
    <3> DEFINE m == [word |-> words[i], seen |-> 1, latest |-> 1, age |-> 0]
    <3>1. Note(words)[i] = m
      BY <2>0, <2>1, <2>6
    <3>2. words[i] \in Tokens
      BY <2>0, <2>6
    <3>3. m \in Lastings /\ m.word = words[i] /\ m.seen = 1
      BY <3>2, StabiliserAssumption DEF Lastings
    <3> HIDE DEF m
    <3> QED
      BY <2>0, <2>6, <3>1, <3>3 DEF l
  <2> QED
    BY <2>0, <2>4, <2>5, <2>6
<1> QED
  BY <1>1 DEF Note

\* The history of the places a transcript leaves stable.
LEMMA StableStays ==
  ASSUME StabIInv, NEW words \in Seq(Tokens), Len(words) <= MaxWords, lasting' = Note(words)
  PROVE  \A i \in 1..Len(Kept(words).stable) :
           /\ i \in Places /\ i \in 1..Len(stable)
           /\ lasting'[i].word = Kept(words).stable[i]
           /\ lasting'[i].seen >= MinPartials /\ lasting'[i].age >= Debounce
<1> DEFINE ks == Kept(words).stable
<1>1. /\ ks \in Seq(Tokens) /\ Len(ks) <= Len(stable)
      /\ \A i \in 1..Len(ks) : ks[i] = stable[i] /\ (i <= Len(words) => words[i] = stable[i])
  BY KeptIs DEF StabIInv
<1> HIDE DEF ks
<1>2. Len(stable) \in Nat /\ Len(stable) <= MaxWords /\ DOMAIN stable = 1..Len(stable) /\ Len(words) \in Nat
  <2>1. stable \in Seq(Tokens) /\ tracks \in Seq(Tracks) /\ Len(stable) + Len(tracks) <= MaxWords
    BY DEF StabIInv, StabTypes
  <2>2. Len(stable) \in Nat /\ Len(tracks) \in Nat
    BY <2>1, LenProperties
  <2> QED
    BY <2>1, <2>2, StabiliserAssumption
<1>3. ASSUME NEW i \in 1..Len(ks)
      PROVE  /\ i \in Places /\ i \in 1..Len(stable)
             /\ lasting'[i].word = ks[i]
             /\ lasting'[i].seen >= MinPartials /\ lasting'[i].age >= Debounce
  <2>1. i \in 1..Len(stable) /\ i \in Places
    BY <1>1, <1>2, StabiliserAssumption DEF Places
  <2>2. lasting[i].word = stable[i] /\ lasting[i].seen >= MinPartials /\ lasting[i].age >= Debounce
    BY <1>2, <2>1 DEF StabIInv, StableHasLasted
  <2>3. i > Len(words) \/ words[i] = lasting[i].word
    BY <1>1, <1>2, <2>1, <2>2
  <2>4. /\ lasting'[i].word = lasting[i].word
        /\ lasting'[i].seen >= lasting[i].seen /\ lasting'[i].age = lasting[i].age
        /\ lasting'[i] \in Lastings /\ lasting[i] \in Lastings
    BY <2>1, <2>3, NoteIs DEF StabIInv, StabTypes
  <2>5. lasting'[i].seen \in Nat /\ lasting[i].seen \in Nat /\ MinPartials \in Nat
    BY <2>4, StabiliserAssumption DEF Lastings
  <2> QED
    BY <1>1, <2>1, <2>2, <2>4, <2>5
<1> QED
  BY <1>3 DEF ks

\* A word that lasts becomes stable and the next is tracked anew.
LEMMA PushKeeps ==
  ASSUME StabIInv, NEW words \in Transcript, NEW unsure, Partial(words, unsure)
  PROVE  StabIInv'
<1> DEFINE k == Kept(words)
           ks == k.stable
           base == Len(ks)
           p == base + 1
           next == Track(k.tracks, 1, words[p])
<1>1. /\ Push(words, unsure) /\ lasting' = Note(words) /\ partial' = words
      /\ UNCHANGED <<confidence, scores>>
  BY DEF Partial
<1>2. words \in Seq(Tokens) /\ Len(words) <= MaxWords /\ Len(words) \in Nat
  BY TranscriptsAre, LenProperties
<1>3. /\ ks \in Seq(Tokens) /\ Len(ks) <= Len(stable)
      /\ \/ ks = stable /\ k.tracks = tracks
         \/ k.tracks = <<>> /\ Len(ks) < Len(stable)
  BY <1>2, KeptIs DEF StabIInv
<1>4. \A i \in 1..Len(ks) :
        /\ i \in Places /\ lasting'[i].word = ks[i]
        /\ lasting'[i].seen >= MinPartials /\ lasting'[i].age >= Debounce
  BY <1>1, <1>2, StableStays
<1>5. \/ Len(words) <= base /\ stable' = ks /\ tracks' = k.tracks
      \/ Len(words) > base /\ stable' = ks /\ tracks' = <<next>>
      \/ /\ Len(words) > base /\ stable' = Append(ks, words[p])
         /\ Followed(k.tracks, 1, words[p]) /\ Lasted(next)
         /\ \/ tracks' = <<>>
            \/ /\ Len(words) > base + 1
               /\ tracks' = <<[token |-> words[base + 2], count |-> 1, age |-> 0]>>
  BY <1>1, <1>2, PushIs
<1>6. /\ stable \in Seq(Tokens) /\ tracks \in Seq(Tracks) /\ Len(stable) + Len(tracks) <= MaxWords
      /\ Len(tracks) <= 1 /\ Len(stable) \in Nat /\ Len(tracks) \in Nat /\ lasting \in [Places -> Lastings]
      /\ MaxWords \in Nat /\ MinPartials \in Nat /\ Debounce \in Nat
  BY LenProperties, StabiliserAssumption DEF StabIInv, StabTypes, TrackHasLasted
<1>7. base \in Nat /\ Len(<<>>) = 0
  BY <1>3, LenProperties
<1>8. lasting' \in [Places -> Lastings]
  BY <1>1, <1>2, NoteIs DEF StabIInv
<1> HIDE DEF ks, k
(* What is tracked behind the prefix, when the transcript reaches it.      *)
<1>9. ASSUME Len(words) > base
      PROVE  /\ p \in Places /\ words[p] \in Tokens /\ next \in Tracks /\ next.token = words[p]
             /\ lasting'[p].word = words[p]
             /\ lasting'[p].seen >= next.count /\ lasting'[p].age >= next.age
  <2>1. p \in Places /\ p \in 1..Len(words) /\ p \in Nat
    BY <1>2, <1>6, <1>7, <1>9 DEF Places
  <2>2. words[p] \in Tokens
    BY <1>2, <2>1
  <2>3. lasting'[p].word = words[p] /\ lasting'[p].seen >= 1 /\ lasting'[p] \in Lastings
    BY <1>1, <1>2, <1>8, <2>1, NoteIs DEF StabIInv
  <2>4. CASE Followed(k.tracks, 1, words[p])
    <3>1. k.tracks = tracks /\ ks = stable /\ Len(tracks) = 1 /\ tracks[1].token = words[p]
      <4>1. k.tracks # <<>>
        BY <1>7, <2>4 DEF Followed
      <4>2. k.tracks = tracks /\ ks = stable
        BY <1>3, <4>1
      <4>3. 1 <= Len(k.tracks) /\ k.tracks[1].token = words[p]
        BY <2>4 DEF Followed
      <4>4. Len(tracks) = 1
        <5>1. 1 <= Len(tracks)
          BY <4>2, <4>3
        <5>2. Len(tracks) <= 1 /\ Len(tracks) \in Nat
          BY <1>6
        <5>3. \A n \in Nat : 1 <= n /\ n <= 1 => n = 1
          OBVIOUS
        <5> QED
          BY <5>1, <5>2, <5>3
      <4> QED
        BY <4>2, <4>3, <4>4
    <3>2. /\ lasting[p].word = tracks[1].token
          /\ lasting[p].seen >= tracks[1].count /\ lasting[p].age >= tracks[1].age
      BY <3>1 DEF StabIInv, TrackHasLasted
    <3>3. lasting'[p].seen = Count(lasting[p].seen) /\ lasting'[p].age = lasting[p].age
      BY <1>1, <1>2, <2>1, <3>1, <3>2, NoteIs DEF StabIInv
    <3>4. tracks[1] \in Tracks /\ lasting[p] \in Lastings
      <4>1. 1 \in 1..Len(tracks)
        BY <3>1
      <4>2. tracks[1] \in Tracks
        BY <1>6, <4>1, ElementOfSeq
      <4> QED
        BY <1>6, <2>1, <4>2
    <3>5. tracks[1].count \in 1..MinPartials /\ tracks[1].age \in 0..Debounce /\ tracks[1].token \in Tokens
          /\ lasting[p].seen \in 0..MinPartials
      BY <3>4 DEF Tracks, Lastings
    <3>6. next = [tracks[1] EXCEPT !.count = Count(tracks[1].count)]
      BY <2>4, <3>1 DEF Track
    <3>7. tracks[1].count \in 0..MinPartials /\ Count(tracks[1].count) \in 1..MinPartials
          /\ Count(tracks[1].count) <= Count(lasting[p].seen)
      <4>1. tracks[1].count \in 0..MinPartials
        BY <1>6, <3>5
      <4>2. tracks[1].count <= lasting[p].seen
        BY <3>2, <3>5, <4>1
      <4> QED
        BY <3>5, <4>1, <4>2, CountersGrow
    <3>8. \A r \in Tracks, c \in 1..MinPartials : \A q :
            q = [r EXCEPT !.count = c]
            => q \in Tracks /\ q.token = r.token /\ q.count = c /\ q.age = r.age
      BY DEF Tracks
    <3>9. next \in Tracks /\ next.token = words[p] /\ next.count = Count(tracks[1].count)
          /\ next.age = tracks[1].age
      <4> HIDE DEF next
      <4>1. next \in Tracks /\ next.token = tracks[1].token /\ next.count = Count(tracks[1].count)
            /\ next.age = tracks[1].age
        BY <3>4, <3>6, <3>7, <3>8
      <4> QED
        BY <3>1, <4>1
    <3>10. Count(lasting[p].seen) \in Nat /\ next.count \in Nat
      BY <3>5, <3>7, <3>9, CountersGrow
    <3> HIDE DEF next, p
    <3> QED
      BY <2>1, <2>2, <2>3, <3>2, <3>3, <3>7, <3>9
  <2>5. CASE ~Followed(k.tracks, 1, words[p])
    <3>1. next = [token |-> words[p], count |-> 1, age |-> 0]
      BY <2>5 DEF Track
    <3>2. next \in Tracks /\ next.count = 1 /\ next.age = 0 /\ next.token = words[p]
      BY <1>6, <2>2, <3>1, StabiliserAssumption DEF Tracks
    <3>3. lasting'[p].age >= 0
      BY <2>3 DEF Lastings
    <3> HIDE DEF next, p
    <3> QED
      BY <2>1, <2>2, <2>3, <3>2, <3>3
  <2> QED
    BY <2>4, <2>5
<1> HIDE DEF next
<1>10. CASE Len(words) <= base /\ stable' = ks /\ tracks' = k.tracks
  <2>1. StableHasLasted'
    BY <1>3, <1>4, <1>7, <1>10 DEF StableHasLasted
  <2>2. CASE k.tracks = <<>>
    <3>1. tracks' \in Seq(Tracks) /\ Len(tracks') = 0
      BY <1>7, <1>10, <2>2, EmptySeq
    <3>2. TrackHasLasted'
      BY <3>1 DEF TrackHasLasted
    <3>3. Len(stable') + Len(tracks') <= MaxWords
      BY <1>3, <1>6, <1>7, <1>10, <3>1
    <3>4. StabTypes'
      BY <1>1, <1>2, <1>3, <1>8, <1>10, <3>1, <3>3 DEF StabTypes, StabIInv
    <3> QED
      BY <2>1, <3>2, <3>4 DEF StabIInv
  <2>3. CASE k.tracks # <<>>
    <3>1. ks = stable /\ tracks' = tracks /\ stable' = stable
      BY <1>3, <1>10, <2>3
    <3>2. ASSUME Len(tracks) = 1
          PROVE  /\ lasting'[Len(stable) + 1].word = tracks[1].token
                 /\ lasting'[Len(stable) + 1].seen >= tracks[1].count
                 /\ lasting'[Len(stable) + 1].age >= tracks[1].age
      <4> DEFINE q == Len(stable) + 1
      <4>1. q \in Places /\ q > Len(words)
        BY <1>2, <1>6, <1>10, <3>1, <3>2 DEF Places
      <4>2. /\ lasting'[q].word = lasting[q].word
            /\ lasting'[q].seen >= lasting[q].seen /\ lasting'[q].age = lasting[q].age
            /\ lasting'[q] \in Lastings /\ lasting[q] \in Lastings
        BY <1>1, <1>2, <1>6, <1>8, <4>1, NoteIs DEF StabIInv
      <4>3. lasting'[q].seen \in Nat /\ lasting[q].seen \in Nat /\ tracks[1].count \in Nat
        <5>1. tracks[1] \in Tracks
          <6>1. 1 \in 1..Len(tracks)
            BY <3>2
          <6> QED
            BY <1>6, <6>1, ElementOfSeq
        <5> QED
          BY <4>2, <5>1 DEF Lastings, Tracks
      <4>4. /\ lasting[q].word = tracks[1].token
            /\ lasting[q].seen >= tracks[1].count /\ lasting[q].age >= tracks[1].age
        BY <3>2 DEF StabIInv, TrackHasLasted
      <4> QED
        BY <4>2, <4>3, <4>4
    <3>3. TrackHasLasted'
      BY <1>6, <3>1, <3>2 DEF TrackHasLasted
    <3>4. StabTypes'
      BY <1>1, <1>2, <1>6, <1>8, <3>1 DEF StabTypes, StabIInv
    <3> QED
      BY <2>1, <3>3, <3>4 DEF StabIInv
  <2> QED
    BY <2>2, <2>3
<1>11. CASE Len(words) > base /\ stable' = ks /\ tracks' = <<next>>
  <2>1. StableHasLasted'
    BY <1>3, <1>4, <1>7, <1>11 DEF StableHasLasted
  <2>2. tracks' \in Seq(Tracks) /\ Len(tracks') = 1 /\ tracks'[1] = next
    BY <1>9, <1>11
  <2>3. TrackHasLasted'
    BY <1>9, <1>11, <2>2 DEF TrackHasLasted
  <2>4. Len(stable') + Len(tracks') <= MaxWords
    BY <1>2, <1>6, <1>7, <1>11, <2>2
  <2>5. StabTypes'
    BY <1>1, <1>2, <1>3, <1>8, <1>11, <2>2, <2>4 DEF StabTypes, StabIInv
  <2> QED
    BY <2>1, <2>3, <2>5 DEF StabIInv
<1>12. CASE /\ Len(words) > base /\ stable' = Append(ks, words[p])
            /\ Followed(k.tracks, 1, words[p]) /\ Lasted(next)
            /\ \/ tracks' = <<>>
               \/ /\ Len(words) > base + 1
                  /\ tracks' = <<[token |-> words[base + 2], count |-> 1, age |-> 0]>>
  <2>1. /\ stable' \in Seq(Tokens) /\ Len(stable') = p
        /\ \A i \in 1..base : stable'[i] = ks[i]
        /\ stable'[p] = words[p] /\ DOMAIN stable' = 1..p
    BY <1>3, <1>7, <1>9, <1>12
  <2>2. lasting'[p].seen >= MinPartials /\ lasting'[p].age >= Debounce /\ lasting'[p].word = words[p]
    <3>1. next.count >= MinPartials /\ next.age >= Debounce
      BY <1>12 DEF Lasted
    <3>2. next.count \in Nat /\ next.age \in Nat /\ lasting'[p].seen \in Nat /\ lasting'[p].age \in Nat
      BY <1>8, <1>9, <1>12 DEF Tracks, Lastings
    <3> HIDE DEF p
    <3>3. lasting'[p].seen >= next.count /\ lasting'[p].age >= next.age /\ lasting'[p].word = words[p]
      BY <1>9, <1>12
    <3>4. \A x, y, z \in Nat : x >= y /\ y >= z => x >= z
      OBVIOUS
    <3>5. lasting'[p].seen >= MinPartials /\ lasting'[p].age >= Debounce
      BY <1>6, <3>1, <3>2, <3>3, <3>4, ZenonT(60)
    <3> QED
      BY <3>3, <3>5
  <2>3. StableHasLasted'
    <3>1. ASSUME NEW i \in 1..p
          PROVE  lasting'[i].word = stable'[i] /\ lasting'[i].seen >= MinPartials /\ lasting'[i].age >= Debounce
      <4>1. i = p \/ i \in 1..base
        BY <1>7
      <4> QED
        BY <1>4, <2>1, <2>2, <4>1
    <3> QED
      BY <2>1, <3>1 DEF StableHasLasted
  <2>4. CASE tracks' = <<>>
    <3>1. tracks' \in Seq(Tracks) /\ Len(tracks') = 0
      BY <1>7, <2>4, EmptySeq
    <3>2. TrackHasLasted'
      BY <3>1 DEF TrackHasLasted
    <3>3. Len(stable') + Len(tracks') <= MaxWords
      BY <1>2, <1>6, <1>7, <1>12, <2>1, <3>1
    <3>4. StabTypes'
      BY <1>1, <1>2, <1>8, <2>1, <3>1, <3>3 DEF StabTypes, StabIInv
    <3> QED
      BY <2>3, <3>2, <3>4 DEF StabIInv
  <2>5. CASE /\ Len(words) > base + 1
             /\ tracks' = <<[token |-> words[base + 2], count |-> 1, age |-> 0]>>
    <3> DEFINE q == base + 2
               fresh == [token |-> words[q], count |-> 1, age |-> 0]
    <3>1. q \in Places /\ q \in 1..Len(words) /\ q = p + 1 /\ words[q] \in Tokens
      BY <1>2, <1>6, <1>7, <2>5 DEF Places
    <3>2. fresh \in Tracks /\ fresh.token = words[q] /\ fresh.count = 1 /\ fresh.age = 0
      BY <1>6, <3>1, StabiliserAssumption DEF Tracks
    <3>3. lasting'[q].word = words[q] /\ lasting'[q].seen >= 1 /\ lasting'[q].age >= 0
      <4>1. q <= Len(words) /\ lasting'[q] \in Lastings
        BY <1>8, <2>5, <3>1
      <4> QED
        BY <1>1, <1>2, <3>1, <4>1, NoteIs DEF StabIInv, Lastings
    <3>4. tracks' \in Seq(Tracks) /\ Len(tracks') = 1 /\ tracks'[1] = fresh
      BY <2>5, <3>2
    <3> HIDE DEF fresh
    <3>5. TrackHasLasted'
      BY <2>1, <3>1, <3>2, <3>3, <3>4 DEF TrackHasLasted
    <3>6. Len(stable') + Len(tracks') <= MaxWords
      BY <1>2, <1>6, <1>7, <2>1, <2>5, <3>1, <3>4
    <3>7. StabTypes'
      BY <1>1, <1>2, <1>8, <2>1, <3>4, <3>6 DEF StabTypes, StabIInv
    <3> QED
      BY <2>3, <3>5, <3>7 DEF StabIInv
  <2> QED
    BY <1>12, <2>4, <2>5
<1> QED
  BY <1>5, <1>10, <1>11, <1>12

\* No history lasts; nothing is stable or tracked.
LEMMA StabEmpty ==
  ASSUME stable = <<>>, tracks = <<>>, partial = <<>>,
         confidence \in {"high", "low"}, scores \in {"none", "nulls", "high", "low"},
         lasting = [i \in Places |-> [word |-> "none", seen |-> 0, latest |-> 0, age |-> 0]]
  PROVE  StabIInv
<1>1. /\ stable \in Seq(Tokens) /\ tracks \in Seq(Tracks) /\ partial \in Seq(Tokens)
      /\ Len(stable) = 0 /\ Len(tracks) = 0 /\ Len(partial) = 0
  BY EmptySeq
<1>2. [word |-> "none", seen |-> 0, latest |-> 0, age |-> 0] \in Lastings
  BY StabiliserAssumption DEF Lastings
<1>3. lasting \in [Places -> Lastings]
  BY <1>2
<1>4. 0 <= MaxWords
  BY StabiliserAssumption
<1>5. StabTypes
  BY <1>1, <1>3, <1>4 DEF StabTypes
<1>6. StableHasLasted
  BY <1>1 DEF StableHasLasted
<1>7. TrackHasLasted
  BY <1>1 DEF TrackHasLasted
<1> QED
  BY <1>5, <1>6, <1>7 DEF StabIInv

\* A call starts with no transcript.
LEMMA StabStarts == StabInit => StabIInv
BY StabEmpty DEF StabInit

\* A final transcript starts anew.
LEMMA FinalKeeps ==
  ASSUME StabIInv, NEW given \in {"high", "low", "none", "nulls"}, Final(given)
  PROVE  StabIInv'
<1>1. confidence' \in {"high", "low"} /\ scores' \in {"none", "nulls", "high", "low"}
  BY DEF Final, StabIInv, StabTypes
<1>2. /\ stable' \in Seq(Tokens) /\ tracks' \in Seq(Tracks) /\ partial' \in Seq(Tokens)
      /\ Len(stable') = 0 /\ Len(tracks') = 0 /\ Len(partial') = 0
  BY EmptySeq DEF Final
<1>3. [word |-> "none", seen |-> 0, latest |-> 0, age |-> 0] \in Lastings
  BY StabiliserAssumption DEF Lastings
<1>4. lasting' \in [Places -> Lastings]
  BY <1>3 DEF Final
<1>5. 0 <= MaxWords
  BY StabiliserAssumption
<1>6. StabTypes'
  BY <1>1, <1>2, <1>4, <1>5 DEF StabTypes
<1>7. StableHasLasted'
  BY <1>2 DEF StableHasLasted
<1>8. TrackHasLasted'
  BY <1>2 DEF TrackHasLasted
<1> QED
  BY <1>6, <1>7, <1>8 DEF StabIInv

\* Time makes the history no younger than the track.
LEMMA WaitKeeps == ASSUME StabIInv, Wait PROVE StabIInv'
<1>1. /\ stable \in Seq(Tokens) /\ tracks \in Seq(Tracks) /\ Len(stable) + Len(tracks) <= MaxWords
      /\ Len(tracks) <= 1 /\ lasting \in [Places -> Lastings]
  BY DEF StabIInv, StabTypes, TrackHasLasted
<1>2. Len(stable) \in Nat /\ Len(tracks) \in Nat /\ MaxWords \in Nat
  BY <1>1, LenProperties, StabiliserAssumption
<1>3. /\ tracks' = [i \in DOMAIN tracks |-> [tracks[i] EXCEPT !.age = Grow(@)]]
      /\ lasting' = [i \in Places |-> [lasting[i] EXCEPT !.age = Grow(@)]]
      /\ stable' = stable /\ partial' = partial /\ UNCHANGED <<confidence, scores>>
  BY DEF Wait
<1>4. ASSUME NEW i \in 1..Len(tracks)
      PROVE  /\ tracks[i] \in Tracks /\ tracks'[i] \in Tracks /\ tracks'[i].token = tracks[i].token
             /\ tracks'[i].count = tracks[i].count /\ tracks'[i].age = Grow(tracks[i].age)
  <2>1. tracks[i] \in Tracks
    BY <1>1, ElementOfSeq
  <2>2. tracks'[i] = [tracks[i] EXCEPT !.age = Grow(tracks[i].age)]
    BY <1>1, <1>3
  <2>3. tracks[i].age \in 0..Debounce
    BY <2>1 DEF Tracks
  <2>4. PICK a \in 0..Debounce : a = Grow(tracks[i].age)
    BY <2>3, CountersGrow
  <2> QED
    BY <2>1, <2>2, <2>4 DEF Tracks
<1>5. ASSUME NEW i \in Places
      PROVE  /\ lasting[i] \in Lastings /\ lasting'[i] \in Lastings /\ lasting'[i].word = lasting[i].word
             /\ lasting'[i].seen = lasting[i].seen /\ lasting'[i].age = Grow(lasting[i].age)
  <2>1. lasting[i] \in Lastings
    BY <1>1
  <2>2. lasting'[i] = [lasting[i] EXCEPT !.age = Grow(lasting[i].age)]
    BY <1>3
  <2>3. lasting[i].age \in 0..Debounce
    BY <2>1 DEF Lastings
  <2>4. PICK a \in 0..Debounce : a = Grow(lasting[i].age)
    BY <2>3, CountersGrow
  <2> QED
    BY <2>1, <2>2, <2>4 DEF Lastings
<1>6. Len(tracks') = Len(tracks) /\ tracks' \in Seq(Tracks)
  <2>1. DOMAIN tracks = 1..Len(tracks)
    BY <1>1
  <2>2. tracks' \in [1..Len(tracks) -> Tracks]
    <3>1. \A i \in 1..Len(tracks) : tracks'[i] \in Tracks
      BY <1>4
    <3>2. tracks' = [i \in 1..Len(tracks) |-> tracks'[i]]
      BY <1>3, <2>1
    <3> QED
      BY <3>1, <3>2
  <2>3. \A n \in Nat : \A f \in [1..n -> Tracks] : f \in Seq(Tracks) /\ Len(f) = n
    OBVIOUS
  <2> QED
    BY <1>2, <2>2, <2>3
<1>7. lasting' \in [Places -> Lastings]
  BY <1>3, <1>5
<1>8. StabTypes'
  BY <1>1, <1>3, <1>6, <1>7 DEF StabIInv, StabTypes
<1>9. StableHasLasted'
  <2> SUFFICES ASSUME NEW i \in DOMAIN stable
               PROVE  /\ lasting'[i].word = stable[i]
                      /\ lasting'[i].seen >= MinPartials /\ lasting'[i].age >= Debounce
    BY <1>3 DEF StableHasLasted
  <2>1. i \in Places
    BY <1>1, <1>2 DEF Places
  <2>2. lasting[i].word = stable[i] /\ lasting[i].seen >= MinPartials /\ lasting[i].age >= Debounce
    BY DEF StabIInv, StableHasLasted
  <2>3. lasting[i].age \in 0..Debounce /\ Grow(lasting[i].age) \in 0..Debounce
        /\ Grow(lasting[i].age) >= lasting[i].age
    <3>1. lasting[i].age \in 0..Debounce
      BY <1>5, <2>1 DEF Lastings
    <3> QED
      BY <3>1, CountersGrow
  <2>4. \A x, y \in 0..Debounce : x >= Debounce /\ y >= x => y >= Debounce
    BY StabiliserAssumption
  <2> QED
    BY <1>5, <2>1, <2>2, <2>3, <2>4
<1>10. TrackHasLasted'
  <2>1. ASSUME Len(tracks) = 1
        PROVE  /\ lasting'[Len(stable) + 1].word = tracks'[1].token
               /\ lasting'[Len(stable) + 1].seen >= tracks'[1].count
               /\ lasting'[Len(stable) + 1].age >= tracks'[1].age
    <3> DEFINE p == Len(stable) + 1
    <3>1. p \in Places /\ 1 \in 1..Len(tracks)
      BY <1>1, <1>2, <2>1 DEF Places
    <3>2. /\ lasting[p].word = tracks[1].token
          /\ lasting[p].seen >= tracks[1].count /\ lasting[p].age >= tracks[1].age
      BY <2>1 DEF StabIInv, TrackHasLasted
    <3> HIDE DEF p
    <3>3. lasting[p].age \in 0..Debounce /\ tracks[1].age \in 0..Debounce
      BY <1>4, <1>5, <3>1 DEF Tracks, Lastings
    <3>4. Grow(lasting[p].age) >= Grow(tracks[1].age)
      <4>1. tracks[1].age <= lasting[p].age
        BY <3>2, <3>3
      <4>2. Grow(tracks[1].age) <= Grow(lasting[p].age)
        BY <3>3, <4>1, CountersGrow
      <4>3. Grow(tracks[1].age) \in 0..Debounce /\ Grow(lasting[p].age) \in 0..Debounce
        BY <3>3, CountersGrow
      <4> QED
        BY <4>2, <4>3
    <3>5. lasting'[p].seen >= tracks'[1].count /\ lasting'[p].word = tracks'[1].token
      BY <1>4, <1>5, <3>1, <3>2
    <3>6. lasting'[p].age >= tracks'[1].age
      BY <1>4, <1>5, <3>1, <3>4
    <3> QED
      BY <3>5, <3>6 DEF p
  <2> QED
    BY <1>1, <1>3, <1>6, <2>1 DEF TrackHasLasted
<1> QED
  BY <1>8, <1>9, <1>10 DEF StabIInv

\* No transcript and no pause leaves it.
LEMMA StabStep == StabIInv /\ [StabNext]_stabVars => StabIInv'
<1> SUFFICES ASSUME StabIInv, [StabNext]_stabVars PROVE StabIInv'
  OBVIOUS
<1>1. CASE \E words \in Transcript, unsure \in SUBSET Places : Partial(words, unsure)
  BY <1>1, PushKeeps
<1>2. CASE \E given \in {"high", "low", "none", "nulls"} : Final(given)
  BY <1>2, FinalKeeps
<1>3. CASE Wait
  BY <1>3, WaitKeeps
<1>4. CASE UNCHANGED stabVars
  BY <1>4 DEF stabVars, StabIInv, StabTypes, StableHasLasted, TrackHasLasted
<1> QED
  BY <1>1, <1>2, <1>3, <1>4 DEF StabNext

\* It is StabInv and more.
LEMMA StabHolds == StabIInv => StabInv
<1> SUFFICES ASSUME StabIInv PROVE StabInv
  OBVIOUS
<1>1. Len(stable) \in Nat /\ Len(tracks) \in Nat /\ Len(stable) <= MaxWords
  <2>1. Len(stable) \in Nat /\ Len(tracks) \in Nat /\ MaxWords \in Nat
    BY LenProperties, StabiliserAssumption DEF StabIInv, StabTypes
  <2>2. Len(stable) + Len(tracks) <= MaxWords
    BY DEF StabIInv, StabTypes
  <2> QED
    BY <2>1, <2>2
<1>2. stable \in Transcript /\ partial \in Transcript
  BY <1>1, TranscriptsAre DEF StabIInv, StabTypes
<1>3. StabTypeOK
  BY <1>2 DEF StabIInv, StabTypes, StabTypeOK, Tracks, Lastings
<1> QED
  BY <1>3 DEF StabIInv, StabInv

(* ---- the voice ---- *)

Entries == [key : PhraseKeys, audio : Speakers]

KeysDiffer(entries) == \A i, j \in DOMAIN entries : entries[i].key = entries[j].key => i = j

(* VoiceInv with what a step of it needs of the call's configuration.      *)
VoiceIInv ==
  /\ VoiceTypeOK /\ SpeakerValid /\ KeepsLastUsed
  /\ model \in Models /\ speakers \in [Languages -> Speakers]

Rendering == [at : {"rendering"}, key : PhraseKeys, voice : Speakers]

\* Whatever name is asked for, the speaker is one the model has.
LEMMA SafeIs ==
  ASSUME model \in Models
  PROVE  \A name : /\ SafeSpeaker(name) \in Speakers
                   /\ SafeSpeaker(name) \in (IF model = "bulbul:v2" THEN V2Speakers ELSE V3Speakers)
BY DEF SafeSpeaker, Models, Speakers, V2Speakers, V3Speakers

\* Every variety has a speaker.
LEMMA KeyIs ==
  ASSUME VoiceIInv, NEW variety \in Mixes, NEW phrase \in Phrases
  PROVE  KeyOf(variety, phrase) \in PhraseKeys
<1>1. NormalizeLang(variety) \in Languages
  BY DEF NormalizeLang, Mixes, Languages
<1>2. SpeakerFor(variety) \in Speakers
  BY <1>1 DEF SpeakerFor, VoiceIInv
<1>3. model \in Models
  BY DEF VoiceIInv
<1> QED
  BY <1>2, <1>3 DEF KeyOf, PhraseKeys

\* The keys of a list of entries, in its order.
LEMMA KeysAre ==
  ASSUME NEW entries \in Seq(Entries)
  PROVE  /\ Keys(entries) \in Seq(PhraseKeys) /\ Len(Keys(entries)) = Len(entries)
         /\ \A i \in 1..Len(entries) : entries[i] \in Entries /\ Keys(entries)[i] = entries[i].key
<1>1. DOMAIN entries = 1..Len(entries) /\ Len(entries) \in Nat
      /\ \A i \in 1..Len(entries) : entries[i] \in Entries
  BY ElementOfSeq, LenProperties
<1>2. Keys(entries) = [i \in 1..Len(entries) |-> entries[i].key]
  BY <1>1 DEF Keys
<1>3. \A i \in 1..Len(entries) : entries[i].key \in PhraseKeys
  BY <1>1 DEF Entries
<1>4. Keys(entries) \in [1..Len(entries) -> PhraseKeys]
  BY <1>2, <1>3
<1>5. \A n \in Nat : \A f \in [1..n -> PhraseKeys] : f \in Seq(PhraseKeys) /\ Len(f) = n
  OBVIOUS
<1> QED
  BY <1>1, <1>2, <1>4, <1>5

\* Where an element is in a list, 0 when it is not.
LEMMA PlaceIs ==
  ASSUME NEW S, NEW list \in Seq(S), NEW e
  PROVE  \/ Place(list, e) \in 1..Len(list) /\ list[Place(list, e)] = e
         \/ Place(list, e) = 0 /\ \A i \in 1..Len(list) : list[i] # e
<1>1. DOMAIN list = 1..Len(list)
  BY LenProperties
<1>2. CASE \E i \in DOMAIN list : list[i] = e
  BY <1>1, <1>2 DEF Place
<1>3. CASE ~\E i \in DOMAIN list : list[i] = e
  BY <1>1, <1>3 DEF Place
<1> QED
  BY <1>2, <1>3

\* What a list becomes when one of its elements, or a new one, goes to the end.
LEMMA ToEndIs ==
  ASSUME NEW S, NEW list \in Seq(S), NEW e \in S, NEW k \in Nat
  PROVE  /\ ToEnd(list, k, e) \in Seq(S)
         /\ k \in 1..Len(list) =>
              /\ Len(ToEnd(list, k, e)) = Len(list)
              /\ \A i \in 1..Len(list) : ToEnd(list, k, e)[i] =
                   IF i < k THEN list[i] ELSE IF i < Len(list) THEN list[i + 1] ELSE e
         /\ k \notin 1..Len(list) =>
              /\ Len(ToEnd(list, k, e)) = Len(list) + 1
              /\ \A i \in 1..Len(list) : ToEnd(list, k, e)[i] = list[i]
              /\ ToEnd(list, k, e)[Len(list) + 1] = e
<1>1. DOMAIN list = 1..Len(list) /\ Len(list) \in Nat
  BY LenProperties
<1>2. CASE k \in 1..Len(list)
  <2> DEFINE f == [i \in 1..Len(list) |->
                     IF i < k THEN list[i] ELSE IF i < Len(list) THEN list[i + 1] ELSE e]
  <2>1. ToEnd(list, k, e) = f
    BY <1>1, <1>2 DEF ToEnd
  <2>2. \A i \in 1..Len(list) : list[i] \in S /\ (i < Len(list) => list[i + 1] \in S)
    BY <1>1
  <2>3. f \in [1..Len(list) -> S]
    BY <2>2
  <2>4. \A n \in Nat : \A g \in [1..n -> S] : g \in Seq(S) /\ Len(g) = n
    OBVIOUS
  <2>5. f \in Seq(S) /\ Len(f) = Len(list)
    BY <1>1, <2>3, <2>4
  <2> QED
    BY <1>2, <2>1, <2>5
<1>3. CASE k \notin 1..Len(list)
  <2>1. ToEnd(list, k, e) = Append(list, e)
    BY <1>1, <1>3 DEF ToEnd
  <2> DEFINE f == Append(list, e)
  <2>2. f \in Seq(S) /\ Len(f) = Len(list) + 1 /\ (\A i \in 1..Len(list) : f[i] = list[i])
        /\ f[Len(list) + 1] = e
    BY AppendProperties
  <2> HIDE DEF f
  <2> QED
    BY <1>3, <2>1, <2>2 DEF f
<1> QED
  BY <1>2, <1>3

\* The oldest goes when there is one too many.
LEMMA NewestIs ==
  ASSUME NEW S, NEW list \in Seq(S), Len(list) <= MaxEntries + 1
  PROVE  /\ Newest(list) \in Seq(S) /\ Len(Newest(list)) <= MaxEntries
         /\ Len(list) <= MaxEntries => Newest(list) = list
         /\ Len(list) > MaxEntries =>
              /\ Len(Newest(list)) = Len(list) - 1
              /\ \A i \in 1..(Len(list) - 1) : Newest(list)[i] = list[i + 1]
<1>1. Len(list) \in Nat /\ MaxEntries \in Nat /\ MaxEntries >= 1
  BY LenProperties, VoiceAssumption
<1>2. CASE Len(list) > MaxEntries
  <2>1. Newest(list) = Tail(list)
    BY <1>2 DEF Newest
  <2>2. Len(list) >= 1
    BY <1>1, <1>2
  <2>3. Tail(list) \in Seq(S) /\ Len(Tail(list)) = Len(list) - 1
        /\ \A i \in 1..(Len(list) - 1) : Tail(list)[i] = list[i + 1]
    BY <1>1, <2>2
  <2>4. /\ Newest(list) \in Seq(S) /\ Len(Newest(list)) = Len(list) - 1
        /\ \A i \in 1..(Len(list) - 1) : Newest(list)[i] = list[i + 1]
    BY <2>1, <2>3
  <2>5. Len(list) - 1 <= MaxEntries /\ ~(Len(list) <= MaxEntries)
    BY <1>1, <1>2
  <2> QED
    BY <1>2, <2>4, <2>5
<1>3. CASE ~(Len(list) > MaxEntries)
  <2>1. Newest(list) = list
    BY <1>3 DEF Newest
  <2>2. Len(list) <= MaxEntries
    BY <1>1, <1>3
  <2> QED
    BY <1>3, <2>1, <2>2
<1> QED
  BY <1>2, <1>3

\* Two lists of one length that agree everywhere are one.
LEMMA SameList ==
  ASSUME NEW S, NEW s \in Seq(S), NEW r \in Seq(S), Len(s) = Len(r), \A i \in 1..Len(s) : s[i] = r[i]
  PROVE  s = r
BY SeqEqual, LenProperties

\* Keys and the move to the end commute, and so do keys and the eviction.
LEMMA KeysFollow ==
  ASSUME NEW entries \in Seq(Entries), NEW entry \in Entries, NEW k \in Nat
  PROVE  Keys(ToEnd(entries, k, entry)) = ToEnd(Keys(entries), k, entry.key)
<1> DEFINE a == ToEnd(entries, k, entry)
           b == ToEnd(Keys(entries), k, entry.key)
<1>1. entry.key \in PhraseKeys /\ Len(entries) \in Nat
  BY LenProperties DEF Entries
<1>2. Keys(entries) \in Seq(PhraseKeys) /\ Len(Keys(entries)) = Len(entries)
      /\ \A i \in 1..Len(entries) : Keys(entries)[i] = entries[i].key
  BY KeysAre
<1>3. a \in Seq(Entries)
  BY ToEndIs
<1>4. Keys(a) \in Seq(PhraseKeys) /\ Len(Keys(a)) = Len(a)
      /\ \A i \in 1..Len(a) : Keys(a)[i] = a[i].key
  BY <1>3, KeysAre
<1>5. b \in Seq(PhraseKeys)
  BY <1>1, <1>2, ToEndIs
<1>6. CASE k \in 1..Len(entries)
  <2>1. Len(a) = Len(entries) /\ \A i \in 1..Len(entries) :
          a[i] = IF i < k THEN entries[i] ELSE IF i < Len(entries) THEN entries[i + 1] ELSE entry
    BY <1>6, ToEndIs
  <2>2. Len(b) = Len(entries) /\ \A i \in 1..Len(entries) :
          b[i] = IF i < k THEN Keys(entries)[i]
                 ELSE IF i < Len(entries) THEN Keys(entries)[i + 1] ELSE entry.key
    <3> DEFINE c == Keys(entries)
               d == entry.key
               K == PhraseKeys
    <3>1. c \in Seq(K) /\ d \in K /\ k \in 1..Len(c)
      BY <1>1, <1>2, <1>6
    <3> HIDE DEF c, d, K
    <3>2. Len(ToEnd(c, k, d)) = Len(c) /\ \A i \in 1..Len(c) :
            ToEnd(c, k, d)[i] = IF i < k THEN c[i] ELSE IF i < Len(c) THEN c[i + 1] ELSE d
      BY <3>1, ToEndIs
    <3> QED
      BY <1>2, <3>2 DEF c, d
  <2> HIDE DEF a, b
  <2>3. \A i \in 1..Len(entries) : Keys(a)[i] = b[i]
    BY <1>1, <1>2, <1>4, <2>1, <2>2
  <2> QED
    BY <1>4, <1>5, <2>1, <2>2, <2>3, SameList DEF a, b
<1>7. CASE k \notin 1..Len(entries)
  <2>1. Len(a) = Len(entries) + 1 /\ (\A i \in 1..Len(entries) : a[i] = entries[i])
        /\ a[Len(entries) + 1] = entry
    BY <1>7, ToEndIs
  <2>2. Len(b) = Len(entries) + 1 /\ (\A i \in 1..Len(entries) : b[i] = Keys(entries)[i])
        /\ b[Len(entries) + 1] = entry.key
    <3> DEFINE c == Keys(entries)
               d == entry.key
               K == PhraseKeys
    <3>1. c \in Seq(K) /\ d \in K /\ k \notin 1..Len(c)
      BY <1>1, <1>2, <1>7
    <3> HIDE DEF c, d, K
    <3>2. Len(ToEnd(c, k, d)) = Len(c) + 1 /\ (\A i \in 1..Len(c) : ToEnd(c, k, d)[i] = c[i])
          /\ ToEnd(c, k, d)[Len(c) + 1] = d
      BY <3>1, ToEndIs
    <3> QED
      BY <1>2, <3>2 DEF c, d
  <2> HIDE DEF a, b
  <2>3. \A i \in 1..(Len(entries) + 1) : i \in 1..Len(entries) \/ i = Len(entries) + 1
    BY <1>1
  <2>4. \A i \in 1..Len(a) : Keys(a)[i] = b[i]
    BY <1>1, <1>2, <1>4, <2>1, <2>2, <2>3
  <2> QED
    BY <1>4, <1>5, <2>1, <2>2, <2>4, SameList DEF a, b
<1> QED
  BY <1>6, <1>7

\* The keys of what stays.
LEMMA KeysStayNewest ==
  ASSUME NEW entries \in Seq(Entries), Len(entries) <= MaxEntries + 1
  PROVE  Keys(Newest(entries)) = Newest(Keys(entries))
<1>1. Keys(entries) \in Seq(PhraseKeys) /\ Len(Keys(entries)) = Len(entries)
      /\ Len(entries) \in Nat /\ MaxEntries \in Nat
      /\ \A i \in 1..Len(entries) : Keys(entries)[i] = entries[i].key
  BY KeysAre, LenProperties, VoiceAssumption
<1>2. CASE Len(entries) <= MaxEntries
  BY <1>1, <1>2, NewestIs
<1>3. CASE Len(entries) > MaxEntries
  <2> DEFINE a == Newest(entries)
             b == Newest(Keys(entries))
  <2>0. Len(entries) - 1 \in Nat /\ \A i \in 1..(Len(entries) - 1) : i + 1 \in 1..Len(entries)
    BY <1>1, <1>3
  <2>1. a \in Seq(Entries) /\ Len(a) = Len(entries) - 1
        /\ \A i \in 1..(Len(entries) - 1) : a[i] = entries[i + 1]
    BY <1>3, NewestIs
  <2>2. b \in Seq(PhraseKeys) /\ Len(b) = Len(entries) - 1
        /\ \A i \in 1..(Len(entries) - 1) : b[i] = Keys(entries)[i + 1]
    BY <1>1, <1>3, NewestIs
  <2>3. Keys(a) \in Seq(PhraseKeys) /\ Len(Keys(a)) = Len(a)
        /\ \A i \in 1..Len(a) : Keys(a)[i] = a[i].key
    BY <2>1, KeysAre
  <2> HIDE DEF a, b
  <2>4. \A i \in 1..Len(a) : Keys(a)[i] = b[i]
    BY <1>1, <2>0, <2>1, <2>2, <2>3
  <2>5. Keys(a) = b
    <3> DEFINE c == Keys(a)
               K == PhraseKeys
    <3>1. c \in Seq(K) /\ b \in Seq(K) /\ Len(c) = Len(b) /\ \A i \in 1..Len(c) : c[i] = b[i]
      BY <2>1, <2>2, <2>3, <2>4
    <3> HIDE DEF c, K
    <3>2. c = b
      BY <3>1, SameList
    <3> QED
      BY <3>2 DEF c
  <2> QED
    BY <2>5 DEF a, b
<1> QED
  BY <1>1, <1>2, <1>3

\* An entry that is used is the last, and no key is there twice.
LEMMA TouchedIs ==
  ASSUME VoiceIInv, NEW entry \in Entries
  PROVE  /\ Touched(store, entry) \in Seq(Entries) /\ Len(Touched(store, entry)) <= MaxEntries + 1
         /\ Cached(entry.key) => Len(Touched(store, entry)) <= MaxEntries
         /\ KeysDiffer(Touched(store, entry))
         /\ Keys(Touched(store, entry)) = ToEnd(uses, Place(uses, entry.key), entry.key)
<1> DEFINE k == Place(Keys(store), entry.key)
           a == Touched(store, entry)
<1>1. /\ store \in Seq(Entries) /\ Len(store) <= MaxEntries /\ uses = Keys(store)
      /\ KeysDiffer(store)
  BY DEF VoiceIInv, VoiceTypeOK, KeepsLastUsed, Entries, KeysDiffer
<1>2. Len(store) \in Nat /\ MaxEntries \in Nat /\ DOMAIN store = 1..Len(store)
  BY <1>1, LenProperties, VoiceAssumption
<1>3. Keys(store) \in Seq(PhraseKeys) /\ Len(Keys(store)) = Len(store)
      /\ \A i \in 1..Len(store) : Keys(store)[i] = store[i].key
  BY <1>1, KeysAre
<1>4. \/ k \in 1..Len(store) /\ store[k].key = entry.key
      \/ k = 0 /\ \A i \in 1..Len(store) : store[i].key # entry.key
  BY <1>3, PlaceIs
<1>5. k \in Nat
  BY <1>2, <1>4
<1>6. a = ToEnd(store, k, entry)
  BY DEF Touched
<1>7. Keys(a) = ToEnd(uses, Place(uses, entry.key), entry.key)
  BY <1>1, <1>5, <1>6, KeysFollow
<1>8. a \in Seq(Entries)
  BY <1>1, <1>5, <1>6, ToEndIs
<1> HIDE DEF k
<1>9. DOMAIN a = 1..Len(a)
  BY <1>8, LenProperties
<1>10. CASE k \in 1..Len(store)
  <2>1. Len(a) = Len(store) /\ \A i \in 1..Len(store) :
          a[i] = IF i < k THEN store[i] ELSE IF i < Len(store) THEN store[i + 1] ELSE entry
    BY <1>1, <1>5, <1>6, <1>10, ToEndIs
  <2> HIDE DEF a
  <2>2. \A i \in 1..Len(store) : \E m \in 1..Len(store) :
          /\ a[i].key = store[m].key
          /\ (i < k /\ m = i) \/ (i >= k /\ i < Len(store) /\ m = i + 1) \/ (i = Len(store) /\ m = k)
    <3> SUFFICES ASSUME NEW i \in 1..Len(store)
                 PROVE  \E m \in 1..Len(store) :
                          /\ a[i].key = store[m].key
                          /\ (i < k /\ m = i) \/ (i >= k /\ i < Len(store) /\ m = i + 1) \/ (i = Len(store) /\ m = k)
      OBVIOUS
    <3>1. CASE i < k
      BY <1>2, <1>10, <2>1, <3>1
    <3>2. CASE ~(i < k) /\ i < Len(store)
      <4>1. i + 1 \in 1..Len(store) /\ i >= k
        BY <1>2, <1>10, <3>2
      <4>2. a[i] = store[i + 1]
        BY <2>1, <3>2
      <4> QED
        BY <3>2, <4>1, <4>2
    <3>3. CASE ~(i < k) /\ ~(i < Len(store))
      <4>1. i = Len(store)
        <5>1. \A n \in Nat : \A x \in 1..n : ~(x < n) => x = n
          OBVIOUS
        <5> QED
          BY <1>2, <3>3, <5>1
      <4>2. a[i] = entry
        BY <2>1, <3>3
      <4>3. store[k].key = entry.key
        BY <1>2, <1>4, <1>10
      <4> QED
        BY <1>10, <4>1, <4>2, <4>3
    <3> QED
      BY <3>1, <3>2, <3>3
  <2>3. KeysDiffer(a)
    <3> SUFFICES ASSUME NEW i \in 1..Len(store), NEW j \in 1..Len(store), a[i].key = a[j].key
                 PROVE  i = j
      BY <1>9, <2>1 DEF KeysDiffer
    <3>1. PICK m \in 1..Len(store) :
            /\ a[i].key = store[m].key
            /\ (i < k /\ m = i) \/ (i >= k /\ i < Len(store) /\ m = i + 1) \/ (i = Len(store) /\ m = k)
      BY <2>2
    <3>2. PICK l \in 1..Len(store) :
            /\ a[j].key = store[l].key
            /\ (j < k /\ l = j) \/ (j >= k /\ j < Len(store) /\ l = j + 1) \/ (j = Len(store) /\ l = k)
      BY <2>2
    <3>3. m = l
      BY <1>1, <1>2, <3>1, <3>2 DEF KeysDiffer
    <3>4. \/ i < k /\ m = i
          \/ i >= k /\ i < Len(store) /\ m = i + 1
          \/ i = Len(store) /\ m = k
      BY <3>1
    <3>5. \/ j < k /\ m = j
          \/ j >= k /\ j < Len(store) /\ m = j + 1
          \/ j = Len(store) /\ m = k
      BY <3>2, <3>3
    <3>6. i \in Nat /\ j \in Nat /\ m \in Nat
      BY <1>2
    <3>7. ASSUME NEW n \in Nat, NEW z \in Nat, NEW x \in Nat, NEW y \in Nat, NEW u \in Nat,
                 \/ x < z /\ u = x
                 \/ x >= z /\ x < n /\ u = x + 1
                 \/ x = n /\ u = z,
                 \/ y < z /\ u = y
                 \/ y >= z /\ y < n /\ u = y + 1
                 \/ y = n /\ u = z
          PROVE  x = y
      BY <3>7
    <3> QED
      BY <1>2, <1>5, <3>4, <3>5, <3>6, <3>7
  <2> QED
    BY <1>1, <1>2, <1>7, <1>8, <2>1, <2>3 DEF a
<1>11. CASE k = 0 /\ \A i \in 1..Len(store) : store[i].key # entry.key
  <2>1. k \notin 1..Len(store)
    BY <1>2, <1>11
  <2>2. Len(a) = Len(store) + 1 /\ (\A i \in 1..Len(store) : a[i] = store[i])
        /\ a[Len(store) + 1] = entry
    <3>1. /\ Len(ToEnd(store, k, entry)) = Len(store) + 1
          /\ \A i \in 1..Len(store) : ToEnd(store, k, entry)[i] = store[i]
          /\ ToEnd(store, k, entry)[Len(store) + 1] = entry
      BY <1>1, <1>5, <2>1, ToEndIs
    <3> QED
      BY <1>6, <3>1
  <2> HIDE DEF a
  <2>3. ~Cached(entry.key)
    BY <1>2, <1>11 DEF Cached
  <2>4. KeysDiffer(a)
    <3> SUFFICES ASSUME NEW i \in 1..(Len(store) + 1), NEW j \in 1..(Len(store) + 1), a[i].key = a[j].key
                 PROVE  i = j
      BY <1>9, <2>2 DEF KeysDiffer
    <3>1. (i \in 1..Len(store) \/ i = Len(store) + 1) /\ (j \in 1..Len(store) \/ j = Len(store) + 1)
      BY <1>2
    <3>2. i \in 1..Len(store) /\ j \in 1..Len(store) => i = j
      BY <1>1, <1>2, <2>2 DEF KeysDiffer
    <3> QED
      BY <1>11, <2>2, <3>1, <3>2
  <2> QED
    BY <1>1, <1>2, <1>7, <1>8, <2>2, <2>3, <2>4 DEF a
<1> QED
  BY <1>4, <1>10, <1>11

\* An entry that is put in the cache is its newest, and its key the last used.
LEMMA PutIs ==
  ASSUME VoiceIInv, NEW entry \in Entries, Put(entry), uses' = Used(entry.key)
  PROVE  /\ store' \in Seq(Entries) /\ Len(store') <= MaxEntries /\ KeysDiffer(store')
         /\ uses' = Keys(store')
<1> DEFINE a == Touched(store, entry)
<1>1. a \in Seq(Entries) /\ Len(a) <= MaxEntries + 1 /\ KeysDiffer(a)
      /\ Keys(a) = ToEnd(uses, Place(uses, entry.key), entry.key)
  BY TouchedIs
<1>2. store' = Newest(a) /\ uses' = Newest(Keys(a))
  BY <1>1 DEF Put, Used
<1> HIDE DEF a
<1>3. uses' = Keys(store')
  BY <1>1, <1>2, KeysStayNewest
<1>4. Newest(a) \in Seq(Entries) /\ Len(Newest(a)) <= MaxEntries
  BY <1>1, NewestIs
<1>5. Len(a) \in Nat /\ MaxEntries \in Nat /\ DOMAIN a = 1..Len(a)
      /\ DOMAIN Newest(a) = 1..Len(Newest(a))
  BY <1>1, <1>4, LenProperties, VoiceAssumption
<1>6. KeysDiffer(Newest(a))
  <2>1. CASE Len(a) <= MaxEntries
    BY <1>1, <2>1, NewestIs
  <2>2. CASE Len(a) > MaxEntries
    <3> DEFINE b == Newest(a)
    <3>1. Len(b) = Len(a) - 1 /\ \A i \in 1..(Len(a) - 1) : b[i] = a[i + 1]
      BY <1>1, <2>2, NewestIs
    <3>2. DOMAIN b = 1..(Len(a) - 1)
      BY <1>5, <3>1
    <3> HIDE DEF b
    <3> SUFFICES ASSUME NEW i \in 1..(Len(a) - 1), NEW j \in 1..(Len(a) - 1), b[i].key = b[j].key
                 PROVE  i = j
      BY <3>2 DEF KeysDiffer, b
    <3>3. i + 1 \in 1..Len(a) /\ j + 1 \in 1..Len(a)
      BY <1>5
    <3>4. a[i + 1].key = a[j + 1].key
      BY <3>1
    <3>5. i + 1 = j + 1
      BY <1>1, <1>5, <3>3, <3>4 DEF KeysDiffer
    <3> QED
      BY <1>5, <3>5
  <2> QED
    BY <1>5, <2>1, <2>2
<1> QED
  BY <1>2, <1>3, <1>4, <1>6

\* A phrase that is played from the cache is the last used, and none goes.
LEMMA BumpIs ==
  ASSUME VoiceIInv, NEW key \in PhraseKeys, Cached(key), Bump(key), uses' = Used(key)
  PROVE  /\ store' \in Seq(Entries) /\ Len(store') <= MaxEntries /\ KeysDiffer(store')
         /\ uses' = Keys(store')
<1> DEFINE entry == Entry(key)
           a == Touched(store, entry)
<1>1. entry \in Entries /\ entry.key = key
  <2>1. store \in Seq(Entries)
    BY DEF VoiceIInv, VoiceTypeOK, Entries
  <2>2. PICK i \in DOMAIN store : entry = store[i] /\ store[i].key = key
    BY DEF Cached, Entry
  <2> QED
    BY <2>1, <2>2
<1>2. store' = a
  BY DEF Bump
<1> HIDE DEF entry
<1>3. a \in Seq(Entries) /\ Len(a) <= MaxEntries /\ KeysDiffer(a)
      /\ Keys(a) = ToEnd(uses, Place(uses, key), key)
  BY <1>1, TouchedIs
<1>4. uses' = Newest(Keys(a))
  BY <1>3 DEF Used
<1> HIDE DEF a
<1>5. Len(Keys(a)) = Len(a)
  BY <1>3, KeysAre
<1>6. Newest(Keys(a)) = Keys(a)
  <2>1. Len(a) \in Nat /\ MaxEntries \in Nat
    BY <1>3, LenProperties, VoiceAssumption
  <2>2. ~(Len(Keys(a)) > MaxEntries)
    BY <1>3, <1>5, <2>1
  <2> QED
    BY <2>2 DEF Newest
<1> QED
  BY <1>2, <1>3, <1>4, <1>6

\* A call starts with the voice of its home language and an empty cache.
LEMMA VoiceStarts == VoiceInit => VoiceIInv
<1> SUFFICES ASSUME VoiceInit PROVE VoiceIInv
  OBVIOUS
<1>1. model \in Models /\ speakers \in [Languages -> Speakers]
  BY VoiceAssumption DEF VoiceInit
<1>2. voice \in Speakers /\ SpeakerValid
  BY <1>1, SafeIs DEF VoiceInit, SpeakerValid
<1>3. spokenLang \in Mixes
  BY DEF VoiceInit, Mixes, Languages, HomeLanguage
<1>4. store \in Seq(Entries) /\ Len(store) = 0 /\ DOMAIN store = {}
  BY EmptySeq DEF VoiceInit
<1>5. 0 <= MaxEntries
  BY VoiceAssumption
<1>6. saying = [t \in Sayings |-> Idle]
  BY DEF VoiceInit
<1>7. VoiceTypeOK
  BY <1>2, <1>3, <1>4, <1>5, <1>6 DEF VoiceTypeOK, Entries
<1>8. KeepsLastUsed
  <2>1. Keys(store) \in Seq(PhraseKeys) /\ Len(Keys(store)) = 0
    BY <1>4, KeysAre
  <2>2. Keys(store) = <<>>
    BY <2>1, EmptySeq
  <2> QED
    BY <2>2 DEF KeepsLastUsed, VoiceInit
<1> QED
  BY <1>1, <1>2, <1>7, <1>8 DEF VoiceIInv

\* The voice changes, the cache and the phrases under way do not.
LEMMA RetunedKeeps ==
  ASSUME VoiceIInv, NEW language \in Languages, Retune(language), spokenLang' \in Mixes,
         UNCHANGED <<model, speakers, store, saying, uses>>
  PROVE  VoiceIInv'
<1>1. voice' \in Speakers /\ SpeakerValid'
  BY SafeIs DEF VoiceIInv, Retune, SpeakerValid
<1>2. VoiceTypeOK'
  BY <1>1 DEF VoiceIInv, VoiceTypeOK
<1>3. KeepsLastUsed'
  BY DEF VoiceIInv, KeepsLastUsed
<1> QED
  BY <1>1, <1>2, <1>3 DEF VoiceIInv

\* A phrase begins to be rendered, or one comes to its end.
LEMMA SayingKeeps ==
  ASSUME VoiceIInv, NEW t \in Sayings, UNCHANGED <<model, speakers, voice, spokenLang>>,
         NEW s, saying' = [saying EXCEPT ![t] = s],
         s = Idle \/ s \in Rendering,
         store' \in Seq(Entries), Len(store') <= MaxEntries, KeysDiffer(store'), uses' = Keys(store')
  PROVE  VoiceIInv'
<1>1. saying \in [Sayings -> {Idle} \cup Rendering]
  BY DEF VoiceIInv, VoiceTypeOK, Rendering
<1>2. saying' \in [Sayings -> {Idle} \cup Rendering]
  BY <1>1
<1>3. VoiceTypeOK'
  BY <1>2 DEF VoiceIInv, VoiceTypeOK, Rendering, KeysDiffer, Entries
<1>4. SpeakerValid' /\ KeepsLastUsed'
  BY DEF VoiceIInv, SpeakerValid, KeepsLastUsed
<1> QED
  BY <1>3, <1>4 DEF VoiceIInv

\* No transcript, error, phrase or rendering leaves it.
LEMMA VoiceStep == VoiceIInv /\ [VoiceNext]_voiceVars => VoiceIInv'
<1> SUFFICES ASSUME VoiceIInv, [VoiceNext]_voiceVars PROVE VoiceIInv'
  OBVIOUS
<1>0. /\ store \in Seq(Entries) /\ Len(store) <= MaxEntries /\ KeysDiffer(store) /\ uses = Keys(store)
      /\ voice \in Speakers /\ spokenLang \in Mixes /\ speakers \in [Languages -> Speakers]
  BY DEF VoiceIInv, VoiceTypeOK, KeepsLastUsed, KeysDiffer, Entries
<1>1. ASSUME NEW language \in Languages, NEW variety \in Mixes, FinalTranscript(language, variety)
      PROVE  VoiceIInv'
  BY <1>1, RetunedKeeps DEF FinalTranscript
<1>2. CASE TtsError
  <2>1. HomeLanguage \in Languages /\ spokenLang' \in Mixes
    BY <1>0, <1>2 DEF TtsError, Languages, HomeLanguage
  <2> QED
    BY <1>2, <2>1, RetunedKeeps DEF TtsError
<1>3. ASSUME NEW t \in Sayings, NEW phrase \in Phrases, SayCached(t, phrase) \/ Ack(t, phrase)
      PROVE  VoiceIInv'
  <2>1. PICK key \in PhraseKeys : Start(t, key)
    <3>1. CASE SayCached(t, phrase)
      BY <1>0, <3>1, KeyIs DEF SayCached
    <3>2. CASE Ack(t, phrase)
      <4> DEFINE lang == IF spokenLang \in Languages THEN spokenLang ELSE "en"
      <4>1. lang \in Mixes
        BY DEF Mixes, Languages
      <4> HIDE DEF lang
      <4>2. Start(t, KeyOf(lang, phrase))
        BY <3>2 DEF Ack, lang
      <4> QED
        BY <4>1, <4>2, KeyIs
    <3> QED
      BY <1>3, <3>1, <3>2
  <2>2. CASE Cached(key)
    <3>1. Bump(key) /\ uses' = Used(key) /\ saying' = saying /\ UNCHANGED <<model, speakers, voice, spokenLang>>
      BY <2>1, <2>2 DEF Start
    <3>2. store' \in Seq(Entries) /\ Len(store') <= MaxEntries /\ KeysDiffer(store') /\ uses' = Keys(store')
      BY <2>1, <2>2, <3>1, BumpIs
    <3>3. VoiceTypeOK'
      BY <3>1, <3>2 DEF VoiceIInv, VoiceTypeOK, KeysDiffer, Entries
    <3>4. SpeakerValid' /\ KeepsLastUsed'
      BY <3>1, <3>2 DEF VoiceIInv, SpeakerValid, KeepsLastUsed
    <3> QED
      BY <3>1, <3>3, <3>4 DEF VoiceIInv
  <2>3. CASE ~Cached(key)
    <3> DEFINE s == [at |-> "rendering", key |-> key, voice |-> voice]
    <3>1. saying' = [saying EXCEPT ![t] = s] /\ UNCHANGED <<store, uses, model, speakers, voice, spokenLang>>
      BY <2>1, <2>3 DEF Start
    <3>2. store' \in Seq(Entries) /\ Len(store') <= MaxEntries /\ KeysDiffer(store') /\ uses' = Keys(store')
      BY <1>0, <3>1
    <3>3. s \in Rendering
      BY <1>0, <2>1 DEF Rendering
    <3> HIDE DEF s
    <3> QED
      BY <3>1, <3>2, <3>3, SayingKeeps
  <2> QED
    BY <2>2, <2>3
<1>4. ASSUME NEW t \in Sayings, Rendered(t) PROVE VoiceIInv'
  <2> DEFINE entry == [key |-> saying[t].key, audio |-> saying[t].voice]
  <2>1. saying[t] \in Rendering
    BY <1>4 DEF Rendered, VoiceIInv, VoiceTypeOK, Idle, Rendering
  <2>2. entry \in Entries /\ entry.key = saying[t].key
    BY <2>1 DEF Entries, Rendering
  <2>3. Put(entry) /\ uses' = Used(saying[t].key) /\ saying' = [saying EXCEPT ![t] = Idle]
        /\ UNCHANGED <<model, speakers, voice, spokenLang>>
    BY <1>4 DEF Rendered, Ends
  <2> HIDE DEF entry
  <2>4. store' \in Seq(Entries) /\ Len(store') <= MaxEntries /\ KeysDiffer(store') /\ uses' = Keys(store')
    BY <2>2, <2>3, PutIs
  <2> QED
    BY <2>3, <2>4, SayingKeeps
<1>5. ASSUME NEW t \in Sayings, RenderFails(t) PROVE VoiceIInv'
  <2>1. store' \in Seq(Entries) /\ Len(store') <= MaxEntries /\ KeysDiffer(store') /\ uses' = Keys(store')
    BY <1>0, <1>5 DEF RenderFails
  <2> QED
    BY <1>5, <2>1, SayingKeeps DEF RenderFails, Ends
<1>6. CASE UNCHANGED voiceVars
  BY <1>6 DEF voiceVars, VoiceIInv, VoiceTypeOK, SpeakerValid, KeepsLastUsed
<1> QED
  BY <1>1, <1>2, <1>3, <1>4, <1>5, <1>6 DEF VoiceNext

\* It is VoiceInv and more.
LEMMA VoiceHolds == VoiceIInv => VoiceInv
BY DEF VoiceIInv, VoiceInv

-----------------------------------------------------------------------------
(* The call. *)

(* A step of the call is a step of each component, or leaves it alone.     *)
LEMMA LiveStep ==
  ASSUME [LiveNext]_liveVars
  PROVE  /\ [Next]_vars /\ [RoutingNext]_routingVars /\ [HearingNext]_hearingVars
         /\ [StabNext]_stabVars /\ [VoiceNext]_voiceVars /\ [TurnNext]_turnVars
<1> DEFINE Parts == <<vars, routingVars, hearingVars, stabVars, voiceVars, turnVars>>
<1>1. CASE FloorMoves
  BY <1>1 DEF FloorMoves
<1>2. CASE RoutingMoves
  BY <1>2 DEF RoutingMoves
<1>3. CASE HearingMoves
  BY <1>3 DEF HearingMoves
<1>4. CASE StabiliserMoves
  BY <1>4 DEF StabiliserMoves
<1>5. CASE VoiceMoves
  BY <1>5 DEF VoiceMoves
<1>6. CASE ReplyMoves
  BY <1>6 DEF ReplyMoves
<1>7. CASE Rests \/ UNCHANGED liveVars
  BY <1>7 DEF Rests, liveVars
<1> QED
  BY <1>1, <1>2, <1>3, <1>4, <1>5, <1>6, <1>7 DEF LiveNext

(* The call implements every component: each of them, whatever the others  *)
(* do, goes on as it would alone.                                          *)
THEOREM CallImplementsParts ==
  LiveSpec => Spec /\ RoutingSpec /\ HearingSpec /\ StabSpec /\ VoiceSpec /\ TurnSpec
<1>1. LiveInit => Init /\ RoutingInit /\ HearingInit /\ StabInit /\ VoiceInit /\ TurnInit
  BY DEF LiveInit
<1> QED
  BY <1>1, LiveStep, PTL DEF LiveSpec, Spec, RoutingSpec, HearingSpec, StabSpec, VoiceSpec, TurnSpec

(* What becomes of the caller's turns: in any conversation, with any turns *)
(* and pools of lines, a goodbye closes the call, a reply drafted before   *)
(* the hook of its turn is in the language of the turn, and the content    *)
(* decides the language (TurnsRouted).                                     *)
THEOREM CallsAreRouted == LiveSpec => []TurnsRouted
<1>1. RoutingSpec => []RoutingInv
  <2>1. RoutingIInv /\ [RoutingNext]_routingVars => RoutingIInv'
    BY RoutingStep
  <2> QED
    BY <2>1, RoutingStarts, RoutingHolds, PTL DEF RoutingSpec
<1>2. TypeOK /\ RoutingInv => TurnsRouted
  BY DEF TurnsRouted
<1> QED
  BY <1>1, <1>2, CallImplementsParts, ConversationTypes, PTL

(* The router never serves the last line of an intent and language again   *)
(* when the pool has another (LinesRotate), whatever came in between.      *)
THEOREM LinesAlwaysRotate == LiveSpec => LinesRotate
<1>1. RoutingIInv /\ [RoutingNext]_routingVars => RoutingIInv'
  BY RoutingStep
<1>2. RoutingIInv /\ [RoutingNext]_routingVars =>
        [turnOf'.route = "canned" =>
           LET i == turnOf'.key[1] l == turnOf'.key[2]
           IN PoolSize[i][l] > 1 => lastLine'[i][l] # lastLine[i][l]]_routingVars
  BY RoutingStep
<1> QED
  BY <1>1, <1>2, RoutingStarts, CallImplementsParts, PTL DEF LinesRotate, RoutingSpec

(* The sound of the call: the agent does not answer its own echo, a caller *)
(* is heard again, the stable prefix has lasted, the voice is one of the   *)
(* built model's and the cache keeps what was used last (SoundInv), for    *)
(* any words, phrases, dashboards, windows and limits.                     *)
THEOREM CallsSoundRight == LiveSpec => []SoundInv
<1>1. HearingSpec => []HearingInv
  BY HearingStarts, HearingStep, HearingHolds, PTL DEF HearingSpec
<1>2. StabSpec => []StabInv
  BY StabStarts, StabStep, StabHolds, PTL DEF StabSpec
<1>3. VoiceSpec => []VoiceInv
  BY VoiceStarts, VoiceStep, VoiceHolds, PTL DEF VoiceSpec
<1>4. HearingInv /\ StabInv /\ VoiceInv => SoundInv
  BY DEF SoundInv
<1> QED
  BY <1>1, <1>2, <1>3, <1>4, CallImplementsParts, PTL
=============================================================================
