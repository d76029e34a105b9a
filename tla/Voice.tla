------------------------------- MODULE Voice -------------------------------
(***************************************************************************)
(* What the agent says besides its model's answers, and in whose voice:    *)
(* _say of src/agent.py and the listening acks, the audio cache of         *)
(* src/tts_cache.py behind them, and the one live TTS (src/pipeline/tts.py) *)
(* that every final transcript, and every TTS error, retunes.  The         *)
(* provider (Sarvam, external) renders, fails or returns nothing.          *)
(***************************************************************************)
EXTENDS Naturals, Sequences

CONSTANTS
  Sayings,     \* tasks that may be saying something at once
  Phrases,     \* the short fixed phrases
  Dashboards,  \* the models and the speakers a call's configuration names
  MaxEntries   \* _MAX_ENTRIES

VARIABLES
  model,     \* the model the TTS was built with
  speakers,  \* cfg.tts_speaker_te, _hi, _en
  voice,     \* the TTS's speaker
  spokenLang, \* memory.language
  store,     \* _cache: entries, least recently used first
  saying,    \* where the phrase of each is
  uses       \* history: the keys used last, MaxEntries of them, each once

voiceVars == <<model, speakers, voice, spokenLang, store, saying, uses>>

Languages == {"te", "hi", "en"}
HomeLanguage == "te"

(* What memory.language may be: a language, or a mix of one with English.  *)
Mixes == Languages \cup {"te-mix"}
NormalizeLang(variety) == IF variety = "te-mix" THEN "te" ELSE variety
SpeakerFor(variety) == speakers[NormalizeLang(variety)]

Models == {"bulbul:v2", "bulbul:v3-beta"}   \* what _safe_model leaves

(* Speakers by the model they belong to; "gone" is a stale dashboard name. *)
V2Speakers == {"anushka", "arya"}
V3Speakers == {"ritu", "kavya"}
Speakers == V2Speakers \cup V3Speakers \cup {"gone"}

\* Mutant of SafeSpeaker: the dashboard's name is taken as it is.
RawSpeaker(name) == name

SafeSpeaker(name) ==
  IF model = "bulbul:v3-beta"
  THEN IF name \in V3Speakers THEN name ELSE "ritu"
  ELSE IF name \in V2Speakers THEN name ELSE "anushka"

ASSUME VoiceAssumption ==
  /\ MaxEntries \in Nat \ {0}
  /\ Dashboards \subseteq [model : Models, speakers : [Languages -> Speakers]]

(* The key of a phrase: the call's model, the language it is said in, the  *)
(* speaker configured for it, and its words.                               *)
KeyOf(language, phrase) == <<model, SpeakerFor(language), language, phrase>>
PhraseKeys == Models \X Speakers \X Mixes \X Phrases
NoKey == <<"none", "none", "none", "none">>

Idle == [at |-> "idle", key |-> NoKey, voice |-> "none"]

(* build_tts, with the overrides of the campaign in the configuration; the *)
(* memory starts in English, or in the language of the campaign.           *)
VoiceInit ==
  /\ \E d \in Dashboards : model = d.model /\ speakers = d.speakers
  /\ spokenLang \in {"en", HomeLanguage}
  /\ voice = SafeSpeaker(speakers[HomeLanguage])
  /\ store = <<>> /\ saying = [t \in Sayings |-> Idle]
  /\ uses = <<>>

Retune(language) == voice' = SafeSpeaker(speakers[language])

(* A final transcript: the voice follows the classifier's language (the    *)
(* call's own when it finds a mix), the memory the turn's variety, which   *)
(* another detector gives.                                                 *)
FinalTranscript(language, variety) ==
  /\ Retune(language) /\ spokenLang' = variety
  /\ UNCHANGED <<model, speakers, store, saying, uses>>

(* resilience: a TTS error goes back to the call's own voice. *)
TtsError ==
  /\ Retune(HomeLanguage)
  /\ UNCHANGED <<model, speakers, spokenLang, store, saying, uses>>

(* ---- say_cached ---- *)

Cached(key) == \E i \in DOMAIN store : store[i].key = key
Entry(key) == store[CHOOSE i \in DOMAIN store : store[i].key = key]

(* list with its k-th element, if there is one, at the end as e. *)
ToEnd(list, k, e) ==
  IF k \in DOMAIN list
  THEN [i \in DOMAIN list |-> IF i < k THEN list[i] ELSE IF i < Len(list) THEN list[i + 1] ELSE e]
  ELSE Append(list, e)

Newest(list) == IF Len(list) > MaxEntries THEN Tail(list) ELSE list
Place(list, e) == IF \E i \in DOMAIN list : list[i] = e THEN CHOOSE i \in DOMAIN list : list[i] = e ELSE 0
Keys(entries) == [i \in DOMAIN entries |-> entries[i].key]

Touched(entries, entry) == ToEnd(entries, Place(Keys(entries), entry.key), entry)
Used(key) == Newest(ToEnd(uses, Place(uses, key), key))

\* Mutant of Bump: first in, first out.
NoBump(key) == UNCHANGED store

\* move_to_end on a hit.
Bump(key) == store' = Touched(store, Entry(key))

\* Mutant of Put: nothing is evicted.
PutForever(entry) == store' = Touched(store, entry)

\* _store: at the end, and the oldest ones out.
Put(entry) == store' = Newest(Touched(store, entry))

(* A phrase in the cache is played; another is rendered by the TTS as it   *)
(* is tuned now.                                                           *)
Start(t, key) ==
  /\ saying[t].at = "idle"
  /\ IF Cached(key)
     THEN Bump(key) /\ uses' = Used(key) /\ UNCHANGED saying
     ELSE /\ saying' = [saying EXCEPT ![t] = [at |-> "rendering", key |-> key, voice |-> voice]]
          /\ UNCHANGED <<store, uses>>
  /\ UNCHANGED <<model, speakers, voice, spokenLang>>

(* _say, in the memory's variety. *)
SayCached(t, phrase) == Start(t, KeyOf(spokenLang, phrase))

(* A listening ack, in English when the variety is a mix. *)
Ack(t, phrase) == Start(t, KeyOf(IF spokenLang \in Languages THEN spokenLang ELSE "en", phrase))

Ends(t) ==
  /\ saying' = [saying EXCEPT ![t] = Idle]
  /\ UNCHANGED <<model, speakers, voice, spokenLang>>

Rendered(t) ==
  /\ saying[t].at = "rendering"
  /\ Put([key |-> saying[t].key, audio |-> saying[t].voice]) /\ uses' = Used(saying[t].key)
  /\ Ends(t)

(* Nothing came, or the provider raised: _say streams the phrase instead   *)
(* (an ack is given up); what came is not kept.                            *)
RenderFails(t) == saying[t].at = "rendering" /\ Ends(t) /\ UNCHANGED <<store, uses>>

VoiceNext ==
  \/ \E language \in Languages, variety \in Mixes : FinalTranscript(language, variety)
  \/ TtsError
  \/ \E t \in Sayings, phrase \in Phrases : SayCached(t, phrase) \/ Ack(t, phrase)
  \/ \E t \in Sayings : Rendered(t) \/ RenderFails(t)

VoiceSpec == VoiceInit /\ [][VoiceNext]_voiceVars

-----------------------------------------------------------------------------

(* The types of the variables. *)
VoiceTypeOK ==
  /\ voice \in Speakers /\ spokenLang \in Mixes
  /\ store \in Seq([key : PhraseKeys, audio : Speakers])
  /\ Len(store) <= MaxEntries /\ \A i, j \in DOMAIN store : store[i].key = store[j].key => i = j
  /\ saying \in [Sayings ->
        {Idle} \cup [at : {"rendering"}, key : PhraseKeys, voice : Speakers]]

(* "Sarvam rejects (HTTP 400) a speaker that doesn't belong to the model": *)
(* through every retune the voice is one the built model has, whatever the *)
(* dashboard or the campaign named.                                        *)
SpeakerValid == voice \in (IF model = "bulbul:v2" THEN V2Speakers ELSE V3Speakers)

(* LRU: the phrases used last are the ones kept, in the order of their     *)
(* last use, with several tasks rendering at once.                         *)
KeepsLastUsed == uses = Keys(store)

(* The voice and the phrases kept for it, through every retune. *)
VoiceInv == VoiceTypeOK /\ SpeakerValid /\ KeepsLastUsed

(* Violated.  "a voice/speaker switch never replays stale audio in the     *)
(* wrong voice": the key has the memory's language, the audio the voice of *)
(* the last retune.                                                        *)
VoiceMatches == \A i \in DOMAIN store : store[i].audio = SafeSpeaker(store[i].key[2])

(* Violated.  "a Tenglish call doesn't flip voice to English on every      *)
(* 'okay'": a turn that leaves the call's language leaves its voice.       *)
AckKeepsVoice ==
  [][spokenLang = spokenLang' /\ voice = SafeSpeaker(SpeakerFor(spokenLang)) => voice' = voice]_voiceVars
=============================================================================
