--------------------------- MODULE SessionLifecycle ---------------------------
(***************************************************************************)
(* What the Wolf controller promises its clients: the life of a session,   *)
(* as the transition table of WolfController declares it                   *)
(* (docker/wolf/app/wolf.py, TRANSITIONS), with the deadline that goes     *)
(* with each phase, the adoption of a stack that runs already, and what a  *)
(* restart makes of an operation it interrupts.  Threads, locks, probes    *)
(* and the machine are WolfSession's business, which implements this.      *)
(***************************************************************************)

CONSTANTS
    Sessions,   \* start requests; the deadline a start sets carries its name
    NoSession   \* no deadline

VARIABLES phase, deadline
vars == <<phase, deadline>>

Init == phase = "idle" /\ deadline = NoSession

BeginStart ==
    /\ phase \in {"idle", "failed"}
    /\ phase' = "starting"
    /\ UNCHANGED deadline

FinishStart(s) ==
    /\ phase = "starting"
    /\ phase' = "running" /\ deadline' = s

\* Wolf already runs: no start is needed, only a deadline.
Adopt(s) ==
    /\ phase \in {"idle", "failed"}
    /\ phase' = "running" /\ deadline' = s

FailStart ==
    /\ phase = "starting"
    /\ phase' = "failed"
    /\ UNCHANGED deadline

BeginStop ==
    /\ phase \in {"idle", "running", "failed"}
    /\ phase' = "stopping"
    /\ UNCHANGED deadline

EndStop ==
    /\ phase = "stopping"
    /\ phase' \in {"idle", "failed"} /\ deadline' = NoSession

Lose ==
    /\ phase = "running"
    /\ phase' = "failed" /\ deadline' = NoSession

\* The process dies during an operation; its successor calls the session failed.
Interrupt ==
    /\ phase \in {"starting", "stopping"}
    /\ phase' = "failed"
    /\ UNCHANGED deadline

Next ==
    \/ BeginStart
    \/ \E s \in Sessions : FinishStart(s) \/ Adopt(s)
    \/ FailStart \/ BeginStop \/ EndStop \/ Lose \/ Interrupt

Spec == Init /\ [][Next]_vars

TypeOK ==
    /\ phase \in {"idle", "starting", "running", "stopping", "failed"}
    /\ deadline \in Sessions \cup {NoSession}

\* A running session has a deadline, so there is something for the timer to
\* enforce and for a restart to reload; a session that was stopped has none left.
DeadlineFollowsPhase ==
    /\ phase = "running" => deadline # NoSession
    /\ phase = "idle" => deadline = NoSession
=============================================================================
