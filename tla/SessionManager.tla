--------------------------- MODULE SessionManager ---------------------------
(***************************************************************************)
(* The session manager of the Python server (sessions.py): session ids     *)
(* mapped to coordinators, evicted by idle time and, beyond a bound, least *)
(* recently active first.  Every operation holds the manager's lock and    *)
(* reads the clock under it.                                               *)
(***************************************************************************)
EXTENDS Naturals, FiniteSets

CONSTANTS
    Ids,
    Ttl,           (* idle time after which a session is evicted            *)
    MaxSessions    (* bound on the sessions; 0 lets them grow, and has      *)
                   (* cleanup evict all of them                             *)

VARIABLES
    sessions,      (* the coordinator of each session; 0 if there is none   *)
    lastActive,
    made           (* coordinators made so far, numbered in this order      *)

none == 0
live == {s \in Ids : sessions[s] # none}

SessionsInit ==
    /\ sessions = [s \in Ids |-> none] /\ lastActive = [s \in Ids |-> 0]
    /\ made = 0

expired(now) == {s \in live : now >= lastActive[s] + Ttl}

(* Less recently active; at the same time, made earlier (the sort is stable *)
(* and the dict in order of creation).                                      *)
older(s, t) ==
    \/ lastActive[s] < lastActive[t]
    \/ lastActive[s] = lastActive[t] /\ sessions[s] < sessions[t]

(* mutant: the most recently active go first *)
beyond_newest(S, keep) ==
    {s \in S : Cardinality({t \in S : older(s, t)}) + keep < Cardinality(S)}

(* Those of S to evict, least recently active first, so that keep remain.   *)
beyond(S, keep) == {s \in S : Cardinality({t \in S : older(s, t)}) >= keep}

(* mutant: the room for the new session is not made *)
evictedForNew_full(now) ==
    LET gone == expired(now) IN gone \cup beyond(live \ gone, MaxSessions)

(* _evict_locked *)
evicted(now, keep) ==
    LET gone == expired(now) IN gone \cup beyond(live \ gone, keep)
evictedForNew(now) ==
    IF MaxSessions = 0 THEN expired(now) ELSE evicted(now, MaxSessions - 1)

(* The coordinator get_or_create(s) returns ... *)
coordinatorOf(s) == IF s \in live THEN sessions[s] ELSE made + 1

(* ... and what it does.  A session that expired unnoticed lives on.        *)
getOrCreate(s, now) ==
    /\ lastActive' = [lastActive EXCEPT ![s] = now]
    /\ IF s \in live THEN UNCHANGED <<sessions, made>>
       ELSE /\ made' = made + 1
            /\ sessions' = [t \in Ids |-> IF t = s THEN made + 1
                                          ELSE IF t \in evictedForNew(now) THEN none
                                          ELSE sessions[t]]

drop(S) ==
    /\ sessions' = [t \in Ids |-> IF t \in S THEN none ELSE sessions[t]]
    /\ UNCHANGED <<lastActive, made>>

delete(s) == drop({s})
cleanup(now) == drop(evicted(now, MaxSessions))

-----------------------------------------------------------------------------
SessionsTypeOK ==
    /\ sessions \in [Ids -> Nat] /\ lastActive \in [Ids -> Nat] /\ made \in Nat

(* The sessions stay within their bound, and no two of them ever share a    *)
(* coordinator, hence a registry or a memory (sessions.py:3-8).             *)
Isolated ==
    /\ MaxSessions > 0 => Cardinality(live) <= MaxSessions
    /\ \A s, t \in live : sessions[s] = sessions[t] => s = t
    /\ \A s \in Ids : sessions[s] <= made
=============================================================================
