--------------------------- MODULE SemanticCache ---------------------------
(***************************************************************************)
(* The semantic cache of one business (src/cache.py): a Redis hash of      *)
(* answers with their expiry, and in every worker process a mirror of it   *)
(* that is pulled again after MemRefresh.  An answer is known by its       *)
(* expiry; which of the mirrored answers is near enough to the question is *)
(* left open.  In a tick of the clock every Redis call begun before it is  *)
(* answered or times out (socket_timeout).  A process has one lookup and   *)
(* one store under way at a time.                                          *)
(***************************************************************************)
EXTENDS Naturals

CONSTANTS
  CacheWorkers,    \* the processes
  Questions,       \* entry ids
  MemRefresh,      \* _MEM_REFRESH_SEC, in ticks
  CacheTtl,        \* semantic_cache_ttl_seconds, in ticks
  MaxClock,        \* bound: ticks
  MaxStores,       \* bound: answers stored
  MaxCacheFaults   \* bound: failed Redis calls

ASSUME CacheAssumption ==
  /\ {MemRefresh, CacheTtl, MaxClock} \subseteq Nat \ {0}
  /\ {MaxStores, MaxCacheFaults} \subseteq Nat

VARIABLES
  now,
  index,        \* the Redis hash: expiry per question, 0: no field
  mirror,       \* _mem: [held, at, copy]
  lookup,       \* a lookup: [pc, since, got, stale]
  store,        \* the last store: [pc, q, exp]
  served,       \* history variable: the answer just given: [exp, fell back]
  stores, cacheFaults

cacheVars == <<now, index, mirror, lookup, store, served, stores, cacheFaults>>

Empty == [q \in Questions |-> 0]
NoLookup == [pc |-> "idle", since |-> 0, got |-> Empty, stale |-> {}]
NoAnswer == [exp |-> 0, fell |-> FALSE]

CacheInit ==
  /\ now = 1 /\ index = Empty
  /\ mirror = [w \in CacheWorkers |-> [held |-> FALSE, at |-> 0, copy |-> Empty]]
  /\ lookup = [w \in CacheWorkers |-> NoLookup]
  /\ store = [w \in CacheWorkers |-> [pc |-> "idle", q |-> "none", exp |-> 0]]
  /\ served = NoAnswer /\ stores = 0 /\ cacheFaults = 0

RedisFails == cacheFaults < MaxCacheFaults /\ cacheFaults' = cacheFaults + 1
RedisWorks == UNCHANGED cacheFaults

LookupAt(w, pc, next) == lookup[w].pc = pc /\ lookup' = [lookup EXCEPT ![w] = next]
(* The scan: an answer that is near enough, or none. *)
Serve(copy, fell) ==
  served' \in {NoAnswer} \cup {[exp |-> copy[q], fell |-> fell] : q \in Questions}

(* _get_mem: a young mirror is used as it is, whatever has expired since. *)
FromMirror(w) ==
  /\ LookupAt(w, "idle", NoLookup)
  /\ mirror[w].held /\ now - mirror[w].at < MemRefresh
  /\ Serve(mirror[w].copy, FALSE)
  /\ UNCHANGED <<now, index, mirror, store, stores, cacheFaults>>

(* An old or missing one is pulled; now_m was read before the await. *)
StartRefresh(w) ==
  /\ LookupAt(w, "idle", [NoLookup EXCEPT !.pc = "pull", !.since = now])
  /\ mirror[w].held => now - mirror[w].at >= MemRefresh
  /\ served' = NoAnswer
  /\ UNCHANGED <<now, index, mirror, store, stores, cacheFaults>>

HGetAll(w) ==
  /\ LookupAt(w, "pull", [lookup[w] EXCEPT !.pc = "load", !.got = index])
  /\ served' = NoAnswer
  /\ UNCHANGED <<now, index, mirror, store, stores, cacheFaults>>

(* Redis is unreachable: the stale copy, however old. *)
FallBack(w) ==
  /\ LookupAt(w, "pull", NoLookup) /\ RedisFails
  /\ Serve(mirror[w].copy, TRUE)
  /\ UNCHANGED <<now, index, mirror, store, stores>>

\* Mutant of Stale: the expiry of the entries is not looked at.
StaleNone(got) == {}

Stale(got) == {q \in Questions : got[q] # 0 /\ got[q] < now}

Without(copy, ids) == [q \in Questions |-> IF q \in ids THEN 0 ELSE copy[q]]

\* Mutant of Install: an old mirror is stamped, not replaced.
InstallStamp(w, copy) ==
  /\ mirror' = [mirror EXCEPT ![w].held = TRUE, ![w].at = lookup[w].since]
  /\ Serve(mirror[w].copy, FALSE)

\* Mutant of Install: the stamp is the time of the next pull.
InstallDue(w, copy) ==
  /\ mirror' = [mirror EXCEPT ![w] =
       [held |-> TRUE, at |-> lookup[w].since + MemRefresh, copy |-> copy]]
  /\ Serve(copy, FALSE)

Install(w, copy) ==
  /\ mirror' = [mirror EXCEPT ![w] = [held |-> TRUE, at |-> lookup[w].since, copy |-> copy]]
  /\ Serve(copy, FALSE)

(* _refresh_mem when nothing in the reply has expired ... *)
Load(w) ==
  /\ LookupAt(w, "load", NoLookup) /\ Stale(lookup[w].got) = {}
  /\ Install(w, lookup[w].got)
  /\ UNCHANGED <<now, index, store, stores, cacheFaults>>

(* ... and when something has: HDEL by entry id, another await. *)
FindStale(w) ==
  /\ Stale(lookup[w].got) # {}
  /\ LookupAt(w, "load", [lookup[w] EXCEPT !.pc = "prune", !.stale = Stale(lookup[w].got)])
  /\ served' = NoAnswer
  /\ UNCHANGED <<now, index, mirror, store, stores, cacheFaults>>

Prune(w) ==
  /\ LookupAt(w, "prune", NoLookup)
  /\ \/ RedisWorks /\ index' = Without(index, lookup[w].stale)
     \/ RedisFails /\ UNCHANGED index
  /\ Install(w, Without(lookup[w].got, lookup[w].stale))
  /\ UNCHANGED <<now, store, stores>>

StoreAt(w, pc, next) == store[w].pc = pc /\ store' = [store EXCEPT ![w].pc = next]

(* store: the expiry is fixed before the HSET ... *)
StartStore(w, q) ==
  /\ store[w].pc = "idle" /\ stores < MaxStores /\ stores' = stores + 1
  /\ store' = [store EXCEPT ![w] = [pc |-> "hset", q |-> q, exp |-> now + CacheTtl]]
  /\ served' = NoAnswer
  /\ UNCHANGED <<now, index, mirror, lookup, cacheFaults>>

HSet(w) ==
  /\ \/ RedisWorks /\ StoreAt(w, "hset", "patch")
        /\ index' = [index EXCEPT ![store[w].q] = store[w].exp]
     \/ RedisFails /\ store[w].pc = "hset" /\ UNCHANGED index
        /\ store' = [store EXCEPT ![w] = [pc |-> "idle", q |-> "none", exp |-> 0]]
  /\ served' = NoAnswer
  /\ UNCHANGED <<now, mirror, lookup, stores>>

(* ... and the writer's own mirror is patched after it. *)
Patch(w) ==
  /\ StoreAt(w, "patch", "idle")
  /\ mirror' = IF mirror[w].held THEN [mirror EXCEPT ![w].copy[store[w].q] = store[w].exp]
                                 ELSE mirror
  /\ served' = NoAnswer
  /\ UNCHANGED <<now, index, lookup, stores, cacheFaults>>

(* No lookup or store is older than a tick. *)
CacheTick ==
  /\ now < MaxClock /\ now' = now + 1
  /\ \A w \in CacheWorkers :
       /\ lookup[w].pc # "idle" => lookup[w].since = now
       /\ store[w].pc # "idle" => store[w].exp = now + CacheTtl
  /\ served' = NoAnswer
  /\ UNCHANGED <<index, mirror, lookup, store, stores, cacheFaults>>

CacheNext ==
  \/ \E w \in CacheWorkers :
       \/ FromMirror(w) \/ StartRefresh(w) \/ HGetAll(w) \/ FallBack(w) \/ Load(w)
       \/ FindStale(w) \/ Prune(w)
       \/ (\E q \in Questions : StartStore(w, q)) \/ HSet(w) \/ Patch(w)
  \/ CacheTick

CacheSpec == CacheInit /\ [][CacheNext]_cacheVars

-----------------------------------------------------------------------------

(* The types of the variables. *)
CacheTypeOK ==
  /\ now \in 1..MaxClock /\ index \in [Questions -> Nat]
  /\ \A w \in CacheWorkers :
       /\ mirror[w].copy \in [Questions -> Nat] /\ mirror[w].at <= now
       /\ lookup[w].pc \in {"idle", "pull", "load", "prune"}
       /\ store[w].pc \in {"idle", "hset", "patch"}

(* An answer is given at most MemRefresh after it expired, unless Redis    *)
(* could not be reached: the mirror is never asked whether an answer is    *)
(* still valid, so this rests on when it was pulled and what it kept.      *)
ExpiredNotServed ==
  served.exp # 0 /\ ~served.fell => served.exp + MemRefresh > now

(* What any process stored is in every mirror pulled since: "writes made   *)
(* by other workers eventually propagate".                                 *)
StoresPropagate ==
  \A w \in CacheWorkers, q \in Questions :
    mirror[w].held /\ index[q] >= now /\ index[q] - CacheTtl + 1 < mirror[w].at
      => mirror[w].copy[q] # 0

(* The mirrors against the hash they copy. *)
CacheInv == CacheTypeOK /\ ExpiredNotServed /\ StoresPropagate

(* Comment of _refresh_mem: "Drop expired entries server-side".  No other  *)
(* entry is dropped.                                                       *)
OnlyExpiredDropped ==
  [][\A q \in Questions : index'[q] = 0 => index[q] = 0 \/ index[q] < now]_cacheVars

(* Docstring of store: "so the writer's next lookup hits the just-stored   *)
(* entry immediately".                                                     *)
WriterHits ==
  \A w \in CacheWorkers :
    /\ store[w].pc = "idle" /\ store[w].q # "none" /\ store[w].exp >= now
    /\ lookup[w].pc = "idle" /\ mirror[w].held
    => mirror[w].copy[store[w].q] # 0
=============================================================================
