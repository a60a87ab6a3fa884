------------------------------ MODULE DshAgent ------------------------------
(***************************************************************************)
(* One agent of the DSH harness, as far as the plugin drives it through    *)
(* packages/dsh-multi-agent/src/dsh.ts.  The harness is not part of this   *)
(* repository: what is stated here is what dsh.ts and runner.ts rely on.   *)
(* Follow-up messages queue and each opens a turn of its own; a turn       *)
(* appends its events to one append-only log; cancel aborts the live turn, *)
(* which ends some time later, and drops the queue; the agent is idle when *)
(* it has no live turn and no queue.                                       *)
(***************************************************************************)
EXTENDS Naturals, Sequences

CONSTANT Calls    (* the runner calls that send a message to this agent *)

None == 0
ASSUME CallsAssumption == Calls \subseteq Nat \ {None}

VARIABLES
    log,       (* session.events: [of |-> call, kind |-> event]             *)
    queue,     (* follow-ups without a turn yet                             *)
    active,    (* whose turn is live, or None                               *)
    aborting   (* the live turn was cancelled and has not ended yet         *)

agentVars == <<log, queue, active, aborting>>

Ends == {"completed", "error", "aborted"}
Event == [of : Calls, kind : {"message", "prefix"} \cup Ends]

idle == active = None /\ queue = <<>>

AgentInit == log = <<>> /\ queue = <<>> /\ active = None /\ aborting = FALSE

AgentTypeOK ==
    /\ log \in Seq(Event) /\ queue \in Seq(Calls)
    /\ active \in Calls \cup {None} /\ aborting \in BOOLEAN

emit(kind) == Append(log, [of |-> active, kind |-> kind])

StartTurn ==
    /\ active = None /\ queue # <<>>
    /\ active' = Head(queue) /\ queue' = Tail(queue)
    /\ UNCHANGED <<log, aborting>>

(* The turn's assistant/message; one stands for all of them.                *)
Message ==
    /\ active # None /\ ~aborting
    /\ \A i \in DOMAIN log : log[i].of # active
    /\ log' = emit("message")
    /\ UNCHANGED <<queue, active, aborting>>

EndTurn ==
    /\ active # None /\ ~aborting
    /\ \E reason \in {"completed", "error"} : log' = emit(reason)
    /\ active' = None
    /\ UNCHANGED <<queue, aborting>>

(* A cancelled turn finalizes its streamed prefix and closes as aborted.    *)
EndAborted ==
    /\ active # None /\ aborting
    /\ log' = log \o <<[of |-> active, kind |-> "prefix"],
                       [of |-> active, kind |-> "aborted"]>>
    /\ active' = None /\ aborting' = FALSE
    /\ UNCHANGED queue

followup(c) ==
    /\ queue' = Append(queue, c)
    /\ UNCHANGED <<log, active, aborting>>

cancel ==
    /\ queue' = <<>>
    /\ aborting' = (active # None)
    /\ UNCHANGED <<log, active>>
=============================================================================
