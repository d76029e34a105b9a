--------------------------- MODULE RuntimeConfig ---------------------------
(***************************************************************************)
(* The agent's configuration (src/runtime_config.py): a row of AgentConfig *)
(* behind a Redis entry with a short TTL.  Calls load it while operators   *)
(* save it on the dashboard, which then asks the control API to drop the   *)
(* entry.  A configuration is the number of the save it comes from; 0 is   *)
(* the environment's defaults, which stand in for a row that is absent or  *)
(* cannot be read.                                                         *)
(***************************************************************************)
EXTENDS Naturals

CONSTANTS
  Loaders,           \* calls that are starting
  Operators,         \* the tabs a configuration is saved from
  MaxSaves,          \* bound: the saves
  MaxConfigFaults    \* bound: failed calls of Redis, the database, the control API

ASSUME ConfigAssumption == {MaxSaves, MaxConfigFaults} \subseteq Nat

VARIABLES
  row,            \* AgentConfig "default"
  entry,          \* the Redis entry: a configuration, or NoEntry
  loader,         \* load_runtime_config of a call: [pc, cfg]
  saver,          \* PUT of an operator: "idle", or "reload" once the row is written
  exposed,        \* history variable: see StaleLoad
  configFaults

configVars == <<row, entry, loader, saver, exposed, configFaults>>

NoEntry == MaxSaves + 1
Config == 0..MaxSaves

ConfigInit ==
  /\ row = 0 /\ entry = NoEntry
  /\ loader = [c \in Loaders |-> [pc |-> "idle", cfg |-> 0]]
  /\ saver = [o \in Operators |-> "idle"]
  /\ exposed = FALSE /\ configFaults = 0

Fault == configFaults < MaxConfigFaults /\ configFaults' = configFaults + 1
NoFault == UNCHANGED configFaults

(* A load that is about to store another configuration than the row's. *)
StaleLoad == \E c \in Loaders : loader[c].pc = "set" /\ loader[c].cfg # row

LoaderAt(c, pc, next, cfg) ==
  loader[c].pc = pc /\ loader' = [loader EXCEPT ![c] = [pc |-> next, cfg |-> cfg]]

(* load_runtime_config: Redis first ... *)
FromRedis(c) ==
  /\ \/ /\ NoFault /\ entry # NoEntry
        /\ LoaderAt(c, "idle", "idle", entry)
     \/ /\ (entry = NoEntry /\ NoFault) \/ Fault
        /\ LoaderAt(c, "idle", "select", loader[c].cfg)
  /\ UNCHANGED <<row, entry, saver, exposed>>

\* Mutant of FromSupabase: no row is no configuration.
FromSupabaseNull(c) ==
  /\ \/ NoFault /\ LoaderAt(c, "select", "set", row) /\ UNCHANGED exposed
     \/ Fault /\ LoaderAt(c, "select", "set", NoEntry) /\ exposed' = TRUE
  /\ UNCHANGED <<row, entry, saver>>

(* ... then the row, or the defaults when it cannot be read ... *)
FromSupabase(c) ==
  /\ \/ NoFault /\ LoaderAt(c, "select", "set", row) /\ UNCHANGED exposed
     \/ Fault /\ LoaderAt(c, "select", "set", 0) /\ exposed' = TRUE
  /\ UNCHANGED <<row, entry, saver>>

(* ... and whatever was loaded is cached, the defaults included. *)
CacheToRedis(c) ==
  /\ LoaderAt(c, "set", "idle", loader[c].cfg)
  /\ \/ NoFault /\ entry' = loader[c].cfg
     \/ Fault /\ UNCHANGED entry
  /\ UNCHANGED <<row, saver, exposed>>

\* Mutant of ExpireEntry: the entry is set without a TTL.
NeverExpires == FALSE

(* _REDIS_TTL. *)
ExpireEntry ==
  /\ entry # NoEntry /\ entry' = NoEntry
  /\ exposed' = StaleLoad
  /\ UNCHANGED <<row, loader, saver, configFaults>>

(* PUT of the dashboard: the row first ... *)
Save(o) ==
  /\ row < MaxSaves /\ saver[o] = "idle"
  /\ row' = row + 1 /\ saver' = [saver EXCEPT ![o] = "reload"]
  /\ UNCHANGED <<entry, loader, exposed, configFaults>>

\* Mutant of Invalidate: the dashboard does not tell the control API.
InvalidateNothing(o) ==
  /\ saver[o] = "reload" /\ saver' = [saver EXCEPT ![o] = "idle"]
  /\ UNCHANGED <<row, entry, loader, exposed, configFaults>>

(* ... then invalidate_runtime_config, whose failure is only logged. *)
Invalidate(o) ==
  /\ saver[o] = "reload" /\ saver' = [saver EXCEPT ![o] = "idle"]
  /\ \/ NoFault /\ entry' = NoEntry /\ exposed' = StaleLoad
     \/ Fault /\ exposed' = TRUE /\ UNCHANGED entry
  /\ UNCHANGED <<row, loader>>

LoadStep(c) == FromRedis(c) \/ FromSupabase(c) \/ CacheToRedis(c)

ConfigNext ==
  \/ \E c \in Loaders : LoadStep(c)
  \/ \E o \in Operators : Save(o) \/ Invalidate(o)
  \/ ExpireEntry

ConfigSpec == ConfigInit /\ [][ConfigNext]_configVars

-----------------------------------------------------------------------------

(* The types of the variables. *)
ConfigTypeOK ==
  /\ row \in Config /\ entry \in Config \cup {NoEntry}
  /\ loader \in [Loaders -> [pc : {"idle", "select", "set"}, cfg : Config]]
  /\ saver \in [Operators -> {"idle", "reload"}]
  /\ exposed \in BOOLEAN /\ configFaults \in Nat

NoSavePending == \A o \in Operators : saver[o] = "idle"

(* With no save under way, the cached configuration is that of the row     *)
(* unless a call failed or a load was already carrying an older one when   *)
(* the entry was last dropped: nothing else makes a saved setting wait.    *)
CachedIsSaved == ~exposed /\ NoSavePending => entry \in {NoEntry, row}

(* The cached configuration, through loads, saves and expiries. *)
ConfigInv == ConfigTypeOK /\ CachedIsSaved

(* Once the saves and the failures are over the cache stops holding an old *)
(* configuration, however loads and expiries interleave.                   *)
ConfigSettles == <>[](entry \in {NoEntry, row})

(* Docstring of invalidate_runtime_config: "so the NEXT call (inbound or   *)
(* outbound) loads the freshly-saved config from Supabase immediately".    *)
SavedIsNext == NoSavePending /\ configFaults = 0 => entry \in {NoEntry, row}
=============================================================================
