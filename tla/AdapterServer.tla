---------------------------- MODULE AdapterServer ----------------------------
(***************************************************************************)
(* The Python server: requests handled by threads of their own (adapters/  *)
(* http.py, or adapters/mcp.py with a single thread) through one           *)
(* DeepseekAdapter (coordinator.py), with the session manager, the gate    *)
(* for concurrent runs, the run registry of each coordinator               *)
(* (observability.py) and the history file.  The process may die, and is   *)
(* started again when the file can still be opened; only the file survives.*)
(*                                                                         *)
(* Coordinators are numbers, 0 the server's own; runs too, in the order    *)
(* they end.  Requests that are denied or malformed change nothing and are *)
(* left out, as are those that only read.                                  *)
(***************************************************************************)
EXTENDS Integers, Sequences, Functions, FiniteSets

CONSTANTS
    Threads, Ids,
    Ttl, MaxSessions,
    MaxRuns,        (* max_concurrent_runs                                  *)
    Limit,          (* of the run registry                                  *)
    EmptyFactory,   (* whether new coordinators have no agents              *)
    MaxTime,        (* the clock stops here                                 *)
    MaxRequests,    (* requests of a behaviour                              *)
    MaxFaults       (* deaths and failed appends of a behaviour             *)

ASSUME ServerAssumption ==
    /\ Ttl \in Nat /\ MaxSessions \in Nat /\ MaxRuns \in Nat \ {0}
    /\ Limit \in Nat \ {0} /\ EmptyFactory \in BOOLEAN
    /\ MaxTime \in Nat /\ MaxRequests \in Nat /\ MaxFaults \in Nat

Coordinators == 0 .. MaxRequests
Runs == 1 .. MaxRequests
Default == "default"    (* the events without a session id                  *)
Ops == {"run", "register", "look"}

VARIABLES
    clock,
    sessions, lastActive, made,
    empty,          (* coordinators without agents                          *)
    runs, index,    (* _runs and _index of each coordinator's registry      *)
    permits,        (* value of the gate's semaphore                        *)
    phase, coord, run,      (* of each thread's request                     *)
    count, lines, torn, undecodable,
    up,             (* whether the process runs                             *)
    requests, faults, ends,        (* counters; ends numbers the runs      *)
    ok,             (* runs whose 200 was sent, with their coordinator      *)
    garbledRuns     (* runs appended to a torn line                         *)

SM == INSTANCE SessionManager
History == INSTANCE RunHistory

manager == <<sessions, lastActive, made>>
registry == <<runs, index>>
threads == <<phase, coord, run>>
file == <<count, lines, torn, undecodable>>
ghosts == <<ok, garbledRuns>>
vars == <<clock, manager, empty, registry, permits, threads, file, up, requests,
          faults, ends, ghosts>>

Fresh ==
    /\ SM!SessionsInit
    /\ empty = IF EmptyFactory THEN Coordinators ELSE {}
    /\ runs = [c \in Coordinators |-> <<>>] /\ index = [c \in Coordinators |-> {}]
    /\ permits = MaxRuns
    /\ phase = [t \in Threads |-> "idle"]
    /\ coord = [t \in Threads |-> 0] /\ run = [t \in Threads |-> 0]

Init ==
    /\ Fresh /\ History!HistoryInit /\ up = TRUE
    /\ clock = 0 /\ requests = 0 /\ faults = 0 /\ ends = 0
    /\ ok = {} /\ garbledRuns = {}

goto(t, p) == phase' = [phase EXCEPT ![t] = p]
phaseAfterRouting(o) ==
    CASE o = "run" -> "gate" [] o = "register" -> "register" [] o = "look" -> "idle"

-----------------------------------------------------------------------------
(* An event is routed to its session's coordinator, made on demand, before  *)
(* anything else is looked at: also the event that only looks (agents and   *)
(* status over MCP), or whose prompt is missing.                            *)
Route(t) ==
    /\ phase[t] = "idle" /\ requests < MaxRequests
    /\ \E o \in Ops, s \in Ids \cup {Default} :
          /\ goto(t, phaseAfterRouting(o))
          /\ IF s = Default
                THEN coord' = [coord EXCEPT ![t] = 0] /\ UNCHANGED manager
                ELSE /\ coord' = [coord EXCEPT ![t] = SM!coordinatorOf(s)]
                     /\ SM!getOrCreate(s, clock)
    /\ requests' = requests + 1
    /\ UNCHANGED <<clock, empty, registry, permits, run, file, faults, ends, ghosts>>

(* A register event whose configs are all valid adds its agents.            *)
Register(t) ==
    /\ phase[t] = "register" /\ goto(t, "idle")
    /\ empty' = empty \ {coord[t]} \/ UNCHANGED empty
    /\ UNCHANGED <<clock, manager, registry, permits, coord, run, file, requests,
                   faults, ends, ghosts>>

(* The gate, or "too many concurrent runs" when it stays closed.            *)
Gate(t) ==
    /\ phase[t] = "gate"
    /\ IF permits > 0 THEN permits' = permits - 1 /\ goto(t, "running")
       ELSE goto(t, "idle") /\ UNCHANGED permits
    /\ UNCHANGED <<clock, manager, empty, registry, coord, run, file, requests,
                   faults, ends, ghosts>>

(* RunRegistry.record: the deque drops its oldest when it is full, and the  *)
(* index follows.                                                           *)
recordRun(c, r) ==
    LET longer == Append(runs[c], r)
        kept == IF Len(longer) > Limit THEN Tail(longer) ELSE longer
        wider == index[c] \cup {r}
    IN  /\ runs' = [runs EXCEPT ![c] = kept]
        /\ index' = [index EXCEPT ![c] =
                        IF Cardinality(wider) > Limit THEN wider \cap Range(kept)
                        ELSE wider]

(* mutant: a run that fails keeps its permit *)
RunEnds_keepsPermit(t) ==
    /\ phase[t] = "running" /\ coord[t] \notin empty
    /\ recordRun(coord[t], ends + 1) /\ ends' = ends + 1
    /\ \/ goto(t, "history") /\ run' = [run EXCEPT ![t] = ends + 1]
          /\ permits' = permits + 1
       \/ goto(t, "idle") /\ UNCHANGED <<run, permits>>
    /\ UNCHANGED <<clock, manager, empty, coord, file, requests, faults,
                   ghosts>>

(* coordinator.run ends, with a result or an exception, and is recorded     *)
(* either way; without agents it raises before there is a trace.  The gate  *)
(* is released in any case.                                                 *)
RunEnds(t) ==
    /\ phase[t] = "running"
    /\ permits' = permits + 1
    /\ IF coord[t] \in empty
          THEN goto(t, "idle") /\ UNCHANGED <<registry, ends, run>>
          ELSE /\ recordRun(coord[t], ends + 1) /\ ends' = ends + 1
               /\ \/ goto(t, "history") /\ run' = [run EXCEPT ![t] = ends + 1]
                  \/ goto(t, "idle") /\ UNCHANGED run
    /\ UNCHANGED <<clock, manager, empty, coord, file, requests, faults, ghosts>>

(* _record_history: when the append fails, so does the request.             *)
Record(t) ==
    /\ phase[t] = "history" /\ goto(t, "idle")
    /\ \/ /\ History!append(run[t])
          /\ ok' = ok \cup {<<run[t], coord[t]>>}
          /\ garbledRuns' = garbledRuns \cup (IF torn THEN {run[t]} ELSE {})
          /\ UNCHANGED faults
       \/ /\ faults < MaxFaults /\ faults' = faults + 1
          /\ History!appendFails /\ UNCHANGED ghosts
    /\ UNCHANGED <<clock, manager, empty, registry, permits, coord, run, requests,
                   ends>>

-----------------------------------------------------------------------------
(* DELETE /sessions/{id} *)
Delete(t) ==
    /\ phase[t] = "idle" /\ requests < MaxRequests
    /\ \E s \in SM!live : SM!delete(s)
    /\ requests' = requests + 1
    /\ UNCHANGED <<clock, empty, registry, permits, threads, file, faults, ends,
                   ghosts>>

(* POST /sessions/cleanup, and GET /sessions *)
Cleanup(t) ==
    /\ phase[t] = "idle" /\ requests < MaxRequests
    /\ SM!cleanup(clock)
    /\ requests' = requests + 1
    /\ UNCHANGED <<clock, empty, registry, permits, threads, file, faults, ends,
                   ghosts>>

(* The process dies, perhaps in an append ...                               *)
Crash ==
    /\ up /\ up' = FALSE
    /\ faults < MaxFaults /\ faults' = faults + 1
    /\ \/ UNCHANGED <<lines, torn, undecodable>>
       \/ (\E t \in Threads : phase[t] = "history") /\ History!dieAppending
    /\ count' = 0
    /\ sessions' = [s \in Ids |-> SM!none] /\ lastActive' = [s \in Ids |-> 0]
    /\ made' = 0
    /\ empty' = IF EmptyFactory THEN Coordinators ELSE {}
    /\ runs' = [c \in Coordinators |-> <<>>] /\ index' = [c \in Coordinators |-> {}]
    /\ permits' = MaxRuns
    /\ phase' = [t \in Threads |-> "idle"]
    /\ coord' = [t \in Threads |-> 0] /\ run' = [t \in Threads |-> 0]
    /\ UNCHANGED <<clock, requests, ends, ghosts>>

(* ... and starts again, unless its history cannot be opened: RunHistory    *)
(* then raises at every start (adapters/http.py:589), and nothing more is   *)
(* served.                                                                  *)
Start ==
    /\ ~up /\ up' = TRUE
    /\ History!reopen
    /\ UNCHANGED <<clock, manager, empty, registry, permits, threads, requests,
                   faults, ends, ghosts>>

Tick ==
    /\ clock < MaxTime /\ clock' = clock + 1
    /\ UNCHANGED <<manager, empty, registry, permits, threads, file, up, requests,
                   faults, ends, ghosts>>

Over ==
    /\ \/ up /\ requests = MaxRequests /\ \A t \in Threads : phase[t] = "idle"
       \/ ~up /\ undecodable
    /\ UNCHANGED vars

Handle(t) ==
    /\ up /\ UNCHANGED up
    /\ \/ Route(t) \/ Register(t) \/ Gate(t) \/ RunEnds(t) \/ Record(t)
       \/ Delete(t) \/ Cleanup(t)

Next == (\E t \in Threads : Handle(t)) \/ Crash \/ Start \/ Tick \/ Over

Spec == Init /\ [][Next]_vars
-----------------------------------------------------------------------------
(* Every variable has its type, the sessions stay within their bound, and   *)
(* no two of them ever share a coordinator, hence an agent registry or a    *)
(* memory (sessions.py:3-8, coordinator.py:216-220).                        *)
SessionsIsolated ==
    /\ clock \in 0 .. MaxTime /\ SM!SessionsTypeOK /\ SM!Isolated
    /\ empty \subseteq Coordinators /\ up \in BOOLEAN
    /\ phase \in [Threads -> {"idle", "register", "gate", "running", "history"}]
    /\ coord \in [Threads -> Coordinators] /\ run \in [Threads -> {0} \cup Runs]
    /\ requests \in 0 .. MaxRequests /\ faults \in 0 .. MaxFaults
    /\ ok \subseteq Runs \X Coordinators /\ garbledRuns \subseteq Runs

(* Room for a new session is made by the expired ones and, if that is not   *)
(* enough, by just as many of the least recently active (sessions.py:44,    *)
(* :100-118).                                                               *)
EvictionNeeded ==
    [][made' > made =>
          \A s \in SM!live : sessions'[s] = SM!none =>
              \/ clock >= lastActive[s] + Ttl
              \/ /\ Cardinality(SM!live') = MaxSessions
                 /\ \A k \in SM!live \cap SM!live' : SM!older(s, k)]_vars

(* The gate's permits are the runs allowed minus the runs going on, however *)
(* they end: none leaks, none is given back twice (coordinator.py:309-314). *)
GateBalanced ==
    permits + Cardinality({t \in Threads : phase[t] = "running"}) = MaxRuns

(* A registry finds by id exactly the runs it lists, the latest ones, in    *)
(* the order they ended (observability.py:181-205).  A run that was         *)
(* answered is found there until Limit later runs have ended or the process *)
(* was restarted: in the registry of its own coordinator, that is, which    *)
(* for a run of a session is not the one that GET /runs/{id} looks in       *)
(* (coordinator.py:172, adapters/http.py:280-283).                          *)
RegistryConsistent ==
    /\ \A c \in Coordinators :
          /\ index[c] = Range(runs[c]) /\ Len(runs[c]) <= Limit
          /\ \A i, j \in DOMAIN runs[c] : i < j => runs[c][i] < runs[c][j]
    /\ faults = 0 => \A a \in ok : a[1] \in index[a[2]] \/ ends - a[1] >= Limit

(* So every run is accounted for, in the gate while it goes on and in a     *)
(* registry when it is over, whether it succeeds, fails or finds no agents. *)
RunsAccounted == GateBalanced /\ RegistryConsistent

(* A run that was answered is in the history exactly once, whatever fails   *)
(* or dies afterwards; it is lost only by being appended to a torn line.    *)
(* The numbers go on after a restart, never behind the lines already there, *)
(* and have no gaps as long as nothing failed.  That the process comes up   *)
(* again at all holds only as far as no line was torn in the middle of a    *)
(* character, which takes a death or an error within an append: the file    *)
(* then has a line that recent skips (history.py:4-6, :18-19, :34-52).      *)
HistoryKeeps ==
    LET where(r) == {i \in History!readable : lines[i].run = r} IN
    /\ \A r \in Runs : Cardinality(where(r)) <= 1
    /\ \A a \in ok : a[1] \in garbledRuns \/ where(a[1]) # {}
    /\ \A i \in History!readable : lines[i].index >= i
    /\ faults = 0 => \A i \in DOMAIN lines : lines[i].index = i
    /\ undecodable => faults > 0 /\ History!readable # DOMAIN lines

=============================================================================
