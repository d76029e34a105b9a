---------------------------- MODULE BackOfficeMC ----------------------------
(***************************************************************************)
(* The components that keep records for calls, or work while there is no   *)
(* call, in one instance for TLC: the call record, the campaign runner,    *)
(* the watchdog, the runtime configuration, the semantic cache, the        *)
(* knowledge base and the caller profiles.  They share no variable of the  *)
(* code, so a behaviour moves one of them, chosen at the start, and the    *)
(* others stay where they begin: the sum of the state spaces, not their    *)
(* product.                                                                *)
(***************************************************************************)
EXTENDS CallRecord, Campaign, Watchdog, RuntimeConfig, SemanticCache, KnowledgeBase,
        CallerProfiles

CONSTANT Moving   \* the components of the run

VARIABLE part     \* the one that moves

officeVars == <<part, vars, campaignVars, watchdogVars, configVars, cacheVars, kbVars, profileVars>>

(* Up to the names of the phones, the first contact has the first.         *)
Uploads ==
  {list \in [Contacts -> Phones] :
     list[CHOOSE c \in Contacts : TRUE] = CHOOSE p \in Phones : TRUE}

OfficeInit ==
  /\ part \in Moving
  /\ Init /\ CampaignInit /\ WatchdogInit /\ ConfigInit /\ CacheInit /\ KbInit /\ ProfileInit
  /\ part # "campaign" => configured
  /\ phone \in Uploads /\ (part # "campaign" => \A c, d \in Contacts : phone[c] = phone[d])
  /\ part # "knowledge" => base = [d \in Docs |-> CHOOSE b \in Businesses : TRUE]

RecordMoves ==
  /\ part = "record" /\ Next
  /\ UNCHANGED <<part, campaignVars, watchdogVars, configVars, cacheVars, kbVars, profileVars>>

CampaignMoves ==
  /\ part = "campaign" /\ CampaignNext
  /\ UNCHANGED <<part, vars, watchdogVars, configVars, cacheVars, kbVars, profileVars>>

WatchdogMoves ==
  /\ part = "watchdog" /\ WatchdogNext
  /\ UNCHANGED <<part, vars, campaignVars, configVars, cacheVars, kbVars, profileVars>>

ConfigMoves ==
  /\ part = "config" /\ ConfigNext
  /\ UNCHANGED <<part, vars, campaignVars, watchdogVars, cacheVars, kbVars, profileVars>>

CacheMoves ==
  /\ part = "cache" /\ CacheNext
  /\ UNCHANGED <<part, vars, campaignVars, watchdogVars, configVars, kbVars, profileVars>>

KnowledgeMoves ==
  /\ part = "knowledge" /\ KbNext
  /\ UNCHANGED <<part, vars, campaignVars, watchdogVars, configVars, cacheVars, profileVars>>

ProfilesMove ==
  /\ part = "profiles" /\ ProfileNext
  /\ UNCHANGED <<part, vars, campaignVars, watchdogVars, configVars, cacheVars, kbVars>>

OfficeNext ==
  \/ RecordMoves \/ CampaignMoves \/ WatchdogMoves \/ ConfigMoves \/ CacheMoves
  \/ KnowledgeMoves \/ ProfilesMove

(* The fairness of the component that moves: its own steps go on, whatever *)
(* their callers and its environment do.                                   *)
OfficeFairness ==
  /\ WF_vars(part = "record" /\ EndStep)
  /\ \A i \in Turns : WF_vars(part = "record" /\ EnsureUpsert(i))
  /\ \A j \in Jobs : WF_campaignVars(part = "campaign" /\ JobStep(j))
  /\ WF_watchdogVars(part = "watchdog" /\ Round)
  /\ \A c \in Loaders : WF_configVars(part = "config" /\ (FromSupabase(c) \/ CacheToRedis(c)))
  /\ \A o \in Operators : WF_configVars(part = "config" /\ Invalidate(o))
  /\ WF_configVars(part = "config" /\ ExpireEntry)

OfficeSpec == OfficeInit /\ [][OfficeNext]_officeVars

OfficeFairSpec == OfficeSpec /\ OfficeFairness

(* What is kept for later calls: cached answers, documents, profiles. *)
RecallInv == CacheInv /\ KbInv /\ ProfileInv
=============================================================================
