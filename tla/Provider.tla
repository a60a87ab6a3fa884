------------------------------ MODULE Provider ------------------------------
(***************************************************************************)
(* The LLM agents of the Python runtime (agents.py): a fallback agent in   *)
(* front of a chain of provider agents, which may be registered as well    *)
(* and called directly, their response caches (cache.py), the retries of a *)
(* request, and the counters of usage and cache hits that budgets and      *)
(* summaries read.  Threads call the same agent at the same time: tasks of *)
(* one worker, or runs of one coordinator.                                 *)
(*                                                                         *)
(* A request is a key; parameters of an agent do not change.  The caches   *)
(* have no ttl, as no agent gives them one.  The tokens of a reply are one *)
(* counter, one token a reply.  The time between attempts is left out.     *)
(***************************************************************************)
EXTENDS Integers, Sequences, FiniteSets, Functions

CONSTANTS
    Threads, Keys,
    N,             (* the backends are 1..N, in the order of the chain      *)
    Registered,    (* those that are registered themselves                  *)
    Caching,       (* those that are built with a cache                     *)
    Retries,
    CacheSize,     (* maxsize                                               *)
    MaxCalls,      (* calls of agents in a behaviour                        *)
    MaxSwitches    (* runs of a behaviour that have the option cache        *)

Backends == 1 .. N
front == 0
Agents == {front} \cup Backends

ASSUME ProviderAssumption ==
    /\ IsFiniteSet(Threads)
    /\ N \in Nat \ {0} /\ Registered \subseteq Backends /\ Caching \subseteq Backends
    /\ Retries \in Int /\ CacheSize \in Nat \ {0}
    /\ MaxCalls \in Nat /\ MaxSwitches \in Nat

VARIABLES
    cache,         (* agent.cache: the switch                               *)
    hasCache,      (* _cache is not None                                    *)
    cached,        (* its keys, least recently used first                   *)
    usage, hits,   (* total_usage and cache_hits of each agent              *)
    frame,         (* of each thread: where it is in a call, and its locals *)
    calls, switches,                    (* counters                         *)
    spent,         (* usage and hits of what the front agent's calls got    *)
    overlapped,    (* a call began while another was going on               *)
    recent,        (* the keys each backend's cache was used with, the last *)
                   (* use last                                              *)
    offHit         (* a hit of an agent whose cache is switched off         *)

caches == <<cache, hasCache, cached>>
counters == <<usage, hits>>
limits == <<calls, switches>>
ghosts == <<spent, overlapped, recent, offHit>>
vars == <<caches, counters, frame, limits, ghosts>>

idle == [phase |-> "idle"]
Frames ==
    [phase : {"enter", "look", "hit", "post", "put", "putOdd", "count", "absorb",
              "absorbHits"},
     called : Agents, backend : Backends, key : Keys, caching : BOOLEAN, attempt : Nat,
     usage : Nat, hits : Int,         (* the backend's, before it was called *)
     hitsRead : Int]                  (* the fallback agent's                *)

Init ==
    /\ cache = [b \in Backends |-> b \in Caching] /\ hasCache = cache
    /\ cached = [b \in Backends |-> <<>>]
    /\ usage = [a \in Agents |-> 0] /\ hits = [a \in Agents |-> 0]
    /\ frame = [t \in Threads |-> idle]
    /\ calls = 0 /\ switches = 0
    /\ spent = [usage |-> 0, hits |-> 0] /\ overlapped = FALSE
    /\ recent = [b \in Backends |-> <<>>] /\ offHit = FALSE

at(t, p) == frame[t].phase = p
goto(t, p) == frame' = [frame EXCEPT ![t].phase = p]
leave(t) == frame' = [frame EXCEPT ![t] = idle]
forFront(t) == frame[t].called = front

-----------------------------------------------------------------------------
Begin(t) ==
    /\ at(t, "idle") /\ calls < MaxCalls /\ calls' = calls + 1
    /\ \E a \in {front} \cup Registered, k \in Keys :
          frame' = [frame EXCEPT ![t] =
              [phase |-> "enter", called |-> a, backend |-> IF a = front THEN 1 ELSE a,
               key |-> k, caching |-> FALSE, attempt |-> 0, usage |-> 0, hits |-> 0,
               hitsRead |-> 0]]
    /\ overlapped' = (overlapped \/ \E u \in Threads \ {t} : ~at(u, "idle"))
    /\ UNCHANGED <<caches, counters, switches, spent, recent, offHit>>

entered(t, before) ==
    LET b == frame[t].backend IN
    frame' = [frame EXCEPT ![t] =
        [@ EXCEPT !.phase = IF hasCache[b] THEN "look" ELSE "post",
                  !.caching = hasCache[b], !.attempt = 0,
                  !.usage = IF forFront(t) THEN before ELSE 0,
                  !.hits = IF forFront(t) THEN hits[b] ELSE 0]]

(* mutant: what the backend used in all is taken for what this call uses *)
Enter_noBaseline(t) ==
    at(t, "enter") /\ entered(t, 0) /\ UNCHANGED <<caches, counters, limits, ghosts>>

(* The fallback agent notes the counters of a backend and calls it.         *)
Enter(t) ==
    /\ at(t, "enter") /\ entered(t, usage[frame[t].backend])
    /\ UNCHANGED <<caches, counters, limits, ghosts>>

(* Of a sequence that has k once at most *)
without(s, k) ==
    LET i == CHOOSE i \in DOMAIN s : s[i] = k IN
    IF k \in Range(s) THEN [j \in 1 .. Len(s) - 1 |-> s[IF j < i THEN j ELSE j + 1]] ELSE s
toEnd(s, k) == Append(without(s, k), k)
use(b, k) == recent' = [recent EXCEPT ![b] = toEnd(@, k)]

(* mutant: a hit leaves the entry where it was put *)
get_fifo(s, k) == s

(* What ResponseCache.get leaves of a cache that has the key                *)
get(s, k) == toEnd(s, k)

(* The cache is asked first, if there is one.                               *)
Look(t) ==
    LET b == frame[t].backend
        k == frame[t].key
    IN  /\ at(t, "look")
        /\ IF k \in Range(cached[b])
              THEN /\ goto(t, "hit") /\ use(b, k) /\ offHit' = (offHit \/ ~cache[b])
                   /\ cached' = [cached EXCEPT ![b] = get(@, k)]
              ELSE goto(t, "post") /\ UNCHANGED <<cached, recent, offHit>>
        /\ UNCHANGED <<cache, hasCache, counters, limits, spent, overlapped>>

got(t, what) ==
    spent' = IF forFront(t) THEN [spent EXCEPT ![what] = @ + 1] ELSE spent
succeeds(t) == IF forFront(t) THEN goto(t, "absorb") ELSE leave(t)

CountHit(t) ==
    /\ at(t, "hit") /\ succeeds(t)
    /\ hits' = [hits EXCEPT ![frame[t].backend] = @ + 1] /\ got(t, "hits")
    /\ UNCHANGED <<caches, usage, limits, overlapped, recent, offHit>>

(* A backend that raises hands over to the next one of the chain.           *)
raises(t) ==
    IF forFront(t) /\ frame[t].backend < N
    THEN frame' = [frame EXCEPT ![t] = [@ EXCEPT !.phase = "enter",
                                                 !.backend = frame[t].backend + 1]]
    ELSE leave(t)

(* The next attempt, if there is one left                                   *)
retry(t) ==
    frame[t].attempt < Retries /\ frame' = [frame EXCEPT ![t].attempt = @ + 1]

(* An attempt of chat_completion: a JSON body, of the expected form or not, *)
(* a failure that is worth a retry (429, 5xx, no connection, no JSON), or   *)
(* one that is not.                                                         *)
Post(t) ==
    /\ at(t, "post")
    /\ goto(t, "put") \/ goto(t, "putOdd") \/ retry(t) \/ raises(t)
    /\ UNCHANGED <<caches, counters, limits, ghosts>>

(* ResponseCache.put: popitem(last=False) of a cache that is full           *)
put(s, k) == LET all == toEnd(s, k) IN IF Len(all) > CacheSize THEN Tail(all) ELSE all

(* The answer is cached, also a body of another form; if that is no object, *)
(* its usage is looked for only then, and raises.                           *)
Put(t) ==
    LET b == frame[t].backend
        k == frame[t].key
    IN  /\ at(t, "put") \/ at(t, "putOdd")
        /\ IF frame[t].caching
              THEN cached' = [cached EXCEPT ![b] = put(@, k)] /\ use(b, k)
              ELSE UNCHANGED <<cached, recent>>
        /\ IF at(t, "putOdd") THEN raises(t) ELSE goto(t, "count")
        /\ UNCHANGED <<cache, hasCache, counters, limits, spent, overlapped, offHit>>

CountUsage(t) ==
    /\ at(t, "count") /\ succeeds(t)
    /\ usage' = [usage EXCEPT ![frame[t].backend] = @ + 1] /\ got(t, "usage")
    /\ UNCHANGED <<caches, hits, limits, overlapped, recent, offHit>>

-----------------------------------------------------------------------------
(* _absorb_usage: what the backend's counters moved since is added to the   *)
(* fallback agent's.  The hits are added without the lock.                  *)
Absorb(t) ==
    /\ at(t, "absorb")
    /\ usage' = [usage EXCEPT ![front] = @ + usage[frame[t].backend] - frame[t].usage]
    /\ frame' = [frame EXCEPT ![t] = [@ EXCEPT !.phase = "absorbHits",
                                               !.hitsRead = hits[front]]]
    /\ UNCHANGED <<caches, hits, limits, ghosts>>

AbsorbHits(t) ==
    /\ at(t, "absorbHits") /\ leave(t)
    /\ hits' = [hits EXCEPT ![front] =
           frame[t].hitsRead + hits[frame[t].backend] - frame[t].hits]
    /\ UNCHANGED <<caches, usage, limits, ghosts>>

(* A run with the option cache, on registered agents that have a provider   *)
(* (_apply_cache): the fallback agent has none.                             *)
ApplyCache ==
    /\ switches < MaxSwitches /\ switches' = switches + 1
    /\ \E enabled \in BOOLEAN :
          /\ cache' = [b \in Backends |-> IF b \in Registered THEN enabled ELSE cache[b]]
          /\ hasCache' = [b \in Backends |-> hasCache[b] \/ (b \in Registered /\ enabled)]
    /\ UNCHANGED <<cached, counters, frame, calls, ghosts>>

Over == calls = MaxCalls /\ (\A t \in Threads : at(t, "idle")) /\ UNCHANGED vars

Handle(t) ==
    \/ Enter(t) \/ Look(t) \/ CountHit(t) \/ Post(t) \/ Put(t) \/ CountUsage(t)
    \/ Absorb(t) \/ AbsorbHits(t)

Next == (\E t \in Threads : Begin(t) \/ Handle(t)) \/ ApplyCache \/ Over

Spec == Init /\ [][Next]_vars
-----------------------------------------------------------------------------
(* Every variable has its type. *)
TypeOK ==
    /\ cache \in [Backends -> BOOLEAN] /\ hasCache \in [Backends -> BOOLEAN]
    /\ usage \in [Agents -> Nat] /\ hits \in [Agents -> Int]
    /\ frame \in [Threads -> Frames \cup {idle}]

(* The fallback agent's counters, which budgets read, are never short of    *)
(* the tokens its calls used, however the calls overlap, and are exact for  *)
(* calls made one after another, whichever backend answered them            *)
(* (agents.py:388-390, :406-430).                                           *)
AbsorbedRight ==
    (\A t \in Threads : at(t, "idle")) =>
        /\ usage[front] >= spent.usage
        /\ ~overlapped => usage[front] = spent.usage /\ hits[front] = spent.hits

(* Each cache holds the maxsize keys it was used with last, in the order of *)
(* their last use, whichever threads used them between whose look and put;  *)
(* an agent that has no cache keeps none (cache.py:26-28, :45-68,           *)
(* agents.py:94-96, :184-186).                                              *)
CacheRight ==
    /\ TypeOK
    /\ \A b \in Backends :
          /\ cached[b] = SubSeq(recent[b], Len(recent[b]) - Len(cached[b]) + 1,
                                Len(recent[b]))
          /\ Len(cached[b]) = (IF Len(recent[b]) < CacheSize THEN Len(recent[b]) ELSE CacheSize)
          /\ ~hasCache[b] => cached[b] = <<>>

-----------------------------------------------------------------------------
(* The option cache disables the cache of the registered LLM agents from    *)
(* this run on (coordinator.py:122-123).                                    *)
DisabledIsOff == ~offHit
=============================================================================
