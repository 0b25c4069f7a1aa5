----------------------------- MODULE WolfSession -----------------------------
(***************************************************************************)
(* The Wolf power controller (docker/wolf/app/wolf.py): one process whose  *)
(* HTTP request threads and timer threads start, stop and reconcile a      *)
(* single session on one Proxmox host.                                     *)
(*                                                                         *)
(* Two locks order the threads.  start_session and stop_session hold a     *)
(* file lock (flock) from their first statement to their last; status()    *)
(* takes no file lock.  The in-process state_lock only protects short      *)
(* sections that touch memory and save the session file, so each such      *)
(* section is one action here.  Probing the machine, calling Proxmox and   *)
(* arming the timer happen outside state_lock, each in an action of its    *)
(* own, and everything else may run in between.                            *)
(***************************************************************************)
EXTENDS Naturals, FiniteSets

CONSTANTS
    Sessions,       \* start requests; the deadline a start sets carries its name
    Clients,        \* clients that may send stop and status requests, repeatedly
    NoSession,      \* Python's None, for a deadline or a timer
    NoThread,       \* nobody holds the file lock
    MaxRestarts,    \* bound on container restarts
    MaxMeddles,     \* bound on power changes made by others
    ProbesMayFail,  \* a probe may report less than is running
    VaultMayFail,   \* Vault may refuse the Proxmox API token
    IoMayFail       \* saving or loading the session file may fail

ASSUME WolfConstants ==
    /\ NoSession \notin Sessions
    /\ NoThread \notin ({"start", "timeout"} \X Sessions) \cup ({"stop", "status"} \X Clients)
    /\ MaxRestarts \in Nat
    /\ MaxMeddles \in Nat
    /\ ProbesMayFail \in BOOLEAN
    /\ VaultMayFail \in BOOLEAN
    /\ IoMayFail \in BOOLEAN

VARIABLES
    phase,      \* state.phase
    started,    \* state.started_at is not None
    deadline,   \* state.deadline: the session whose deadline it is, or NoSession
    disk,       \* the session file: the phase, started and deadline last saved
    armed,      \* timeout_timer: the session it was scheduled for, or NoSession
    due,        \* sessions whose deadline has passed
    token,      \* the Proxmox API token is cached
    level,      \* how far the machine is up
    pc,         \* the next step of each thread
    obs,        \* what each thread saw when it last observed the machine
    lock,       \* the thread that holds the file lock
    op,         \* locals of the operation under the file lock
    faults,     \* history: which faults have hit the controller since it started
    restarts,
    meddles

memory  == <<phase, started, deadline>>
machine == <<level, meddles>>
vars == <<memory, disk, armed, due, token, machine, pc, obs, lock, op, faults, restarts>>

Phases    == {"idle", "starting", "running", "stopping", "failed"}
Transient == {"starting", "stopping"}

Starters == {"start"} \X Sessions
Timers   == {"timeout"} \X Sessions
Stoppers == {"stop"} \X Clients
Viewers  == {"status"} \X Clients
Threads  == Starters \cup Timers \cup Stoppers \cup Viewers

(***************************************************************************)
(* The machine is a tower: each layer runs on the one below.               *)
(***************************************************************************)
Off     == 0    \* powered off
Locked  == 1    \* Dropbear waits for the disk password
HostUp  == 2    \* the Proxmox API answers
VmUp    == 3    \* the VM runs and its guest answers
StackUp == 4    \* the Wolf compose stack runs
Levels  == Off .. StackUp

\* An observation is the highest layer of the tower that was seen, or one of two
\* mixed results when a probe failed halfway.
WolfUnknown == 5    \* host, VM and guest answer, compose ps does not
GuestSilent == 6    \* compose ps lists Wolf, the guest's ssh port does not answer
Observations == Levels \cup {WolfUnknown, GuestSilent}

\* What observe() may return while the machine is at level l.
Views(l) ==
    IF l < HostUp THEN {Off}
    ELSE IF ~ProbesMayFail THEN {l}
    ELSE {Off} \cup HostUp .. l
               \cup {o \in {WolfUnknown} : l >= VmUp}
               \cup {o \in {GuestSilent} : l = StackUp}

\* What a yes-or-no probe may say; an error counts as no.
Reports(up) == IF up /\ ~ProbesMayFail THEN {TRUE} ELSE {up, FALSE}

\* reconcile_locked's session_missing, and observation.wolf == "running".
Missing(o)  == o \notin {StackUp, WolfUnknown}
WolfSeen(o) == o \in {StackUp, GuestSilent}

(***************************************************************************)
(* Locals of start_session and stop_session, and two history fields: the   *)
(* level when the operation took the lock, and whether anything outside it *)
(* spoiled its outcome (somebody else's power change, a failed clean-up).  *)
(***************************************************************************)
NoOp == [host |-> FALSE, vm |-> FALSE, compose |-> FALSE,
         errors |-> FALSE, base |-> Off, quiet |-> TRUE]
Ops == [host : BOOLEAN, vm : BOOLEAN, compose : BOOLEAN,
        errors : BOOLEAN, base : Levels, quiet : BOOLEAN]

FaultKinds == {"save", "token"}

StartSteps == {"s_observe", "s_reconcile", "s_decide", "s_host", "s_wake", "s_unlock",
               "s_checkvm", "s_vm", "s_guest", "s_compose", "s_finish", "s_schedule",
               "c_compose", "c_vm", "c_host", "s_fail"}
StopSteps  == {"p_cancel", "p_observe", "p_reconcile", "p_begin",
               "p_compose", "p_vm", "p_host", "p_finish"}
ViewSteps  == {"observe", "reconcile"}
Steps == {"idle", "lock", "done"} \cup StartSteps \cup StopSteps \cup ViewSteps

TypeOK ==
    /\ phase \in Phases
    /\ started \in BOOLEAN
    /\ deadline \in Sessions \cup {NoSession}
    /\ disk \in [phase : Phases, started : BOOLEAN, deadline : Sessions \cup {NoSession}]
    /\ armed \in Sessions \cup {NoSession}
    /\ due \subseteq Sessions
    /\ token \in BOOLEAN
    /\ level \in Levels
    /\ pc \in [Threads -> Steps]
    /\ obs \in [Threads -> Observations]
    /\ lock \in Threads \cup {NoThread}
    /\ op \in Ops
    /\ faults \subseteq FaultKinds
    /\ restarts \in 0 .. MaxRestarts
    /\ meddles \in 0 .. MaxMeddles

Init ==
    /\ phase = "idle" /\ started = FALSE /\ deadline = NoSession
    /\ disk = [phase |-> "idle", started |-> FALSE, deadline |-> NoSession]
    /\ armed = NoSession /\ due = {} /\ token = FALSE
    /\ level \in Levels
    /\ pc = [t \in Threads |-> "idle"]
    /\ obs = [t \in Threads |-> Off]
    /\ lock = NoThread /\ op = NoOp
    /\ faults = {} /\ restarts = 0 /\ meddles = 0

-----------------------------------------------------------------------------
(* Helpers *)

Goto(t, step) == pc' = [pc EXCEPT ![t] = step]

\* The local observation goes out of scope.
Forget(t) == obs' = [obs EXCEPT ![t] = Off]

\* Where a thread is after its request returned: a start request never comes back.
Home(t) == IF t \in Starters THEN "done" ELSE "idle"

\* Mutant: the lock file stays open when a request returns.
FinishLocked(t) == Goto(t, Home(t)) /\ UNCHANGED <<lock, op>>

\* Return, or raise: leaving the with statement closes the lock file.
Finish(t) ==
    /\ Goto(t, Home(t))
    /\ IF lock = t THEN lock' = NoThread /\ op' = NoOp
                   ELSE UNCHANGED <<lock, op>>

Proceed(t, step) ==
    IF step = Home(t) THEN Finish(t) ELSE Goto(t, step) /\ UNCHANGED <<lock, op>>

\* Mutant: the state is saved before the fields are assigned.
SaveEarly(ok) ==
    IF ok THEN /\ disk' = [phase |-> phase, started |-> started, deadline |-> deadline]
               /\ UNCHANGED faults
          ELSE /\ faults' = faults \cup {"save"}
               /\ UNCHANGED disk

\* save_state_locked: the whole state goes to a temporary file that replaces the
\* session file, so the file holds the new state or the old one.
Saves == IF IoMayFail THEN BOOLEAN ELSE {TRUE}
Save(ok) ==
    IF ok THEN /\ disk' = [phase |-> phase', started |-> started', deadline |-> deadline']
               /\ UNCHANGED faults
          ELSE /\ faults' = faults \cup {"save"}
               /\ UNCHANGED disk

\* A step under state_lock that ends with a save: goes on at step, or raises.
SaveThen(t, step) ==
    \E ok \in Saves :
        /\ Save(ok)
        /\ IF ok THEN Proceed(t, step) ELSE Finish(t)

\* A call to Proxmox, to the guest or to Dropbear.  It succeeds and moves the
\* machine to level to; or fails, and then it may have had its effect anyway.
Calls(from, to) == {[ok |-> TRUE, level |-> to], [ok |-> FALSE, level |-> from],
                    [ok |-> FALSE, level |-> to]}
Refused == {[ok |-> FALSE, level |-> level]}

Lower(l) == IF level < l THEN level ELSE l

-----------------------------------------------------------------------------
(* status(): observe without any lock, then reconcile under state_lock *)

Arrive(t) ==
    /\ pc[t] = "idle" /\ t \notin Timers
    /\ Goto(t, IF t \in Viewers THEN "observe" ELSE "lock")
    /\ UNCHANGED <<memory, disk, armed, due, token, machine, obs, lock, op, faults, restarts>>

\* observe(): the host probe needs no token; everything beyond it does, and
\* read_proxmox_api_token raises when Vault does not deliver.
Observe(t, from, to) ==
    /\ pc[t] = from
    /\ \/ \E o \in Views(level) :
            /\ obs' = [obs EXCEPT ![t] = o]
            /\ token' = (token \/ o >= HostUp)
            /\ Goto(t, to)
            /\ UNCHANGED <<lock, op, faults>>
       \/ /\ VaultMayFail /\ ~token /\ level >= HostUp
          /\ faults' = faults \cup {"token"}
          /\ Finish(t)
          /\ UNCHANGED <<obs, token>>
    /\ UNCHANGED <<memory, disk, armed, due, machine, restarts>>

\* reconcile_locked: a session whose machine is seen to be gone is lost, with its
\* deadline and timer.
Loses(t) == phase = "running" /\ Missing(obs[t])
Reconcile(t, from, to) ==
    /\ pc[t] = from
    /\ IF Loses(t)
       THEN /\ phase' = "failed" /\ deadline' = NoSession /\ armed' = NoSession
            /\ UNCHANGED started
            /\ SaveThen(t, to)
       ELSE /\ Proceed(t, to)
            /\ UNCHANGED <<memory, armed, disk, faults>>
    /\ IF pc'[t] \in {"s_decide", "p_begin"} THEN UNCHANGED obs ELSE Forget(t)
    /\ UNCHANGED <<due, token, machine, restarts>>

ViewObserve(t)   == Observe(t, "observe", "reconcile")
ViewReconcile(t) == Reconcile(t, "reconcile", Home(t))

-----------------------------------------------------------------------------
(* The file lock *)

\* Mutant: the file lock is not exclusive.
AcquireShared(t) ==
    /\ pc[t] = "lock"
    /\ lock' = t
    /\ op' = [NoOp EXCEPT !.base = level]
    /\ Goto(t, IF t \in Starters THEN "s_observe" ELSE "p_cancel")
    /\ UNCHANGED <<memory, disk, armed, due, token, machine, obs, faults, restarts>>

\* acquire_lock blocks until the flock is granted; the kernel picks who gets it.
Acquire(t) ==
    /\ pc[t] = "lock" /\ lock = NoThread
    /\ lock' = t
    /\ op' = [NoOp EXCEPT !.base = level]
    /\ Goto(t, IF t \in Starters THEN "s_observe" ELSE "p_cancel")
    /\ UNCHANGED <<memory, disk, armed, due, token, machine, obs, faults, restarts>>

-----------------------------------------------------------------------------
(* start_session *)

StartObserve(t) == Observe(t, "s_observe", "s_reconcile")

\* already_active is computed under the same state_lock: with an operation or a
\* session there already, the request is answered with status().
StartReconcile(t) ==
    Reconcile(t, "s_reconcile",
              IF phase \in {"starting", "running", "stopping"} /\ ~Loses(t)
              THEN "observe" ELSE "s_decide")

\* Wolf runs although this app did not start it: claim it, with a deadline.
Adopt(t) ==
    /\ pc[t] = "s_decide" /\ WolfSeen(obs[t])
    /\ phase' = "running" /\ started' = TRUE /\ deadline' = t[2]
    /\ SaveThen(t, "s_schedule")
    /\ Forget(t)
    /\ UNCHANGED <<armed, due, token, machine, restarts>>

BeginStart(t) ==
    /\ pc[t] = "s_decide" /\ ~WolfSeen(obs[t])
    /\ phase' = "starting" /\ UNCHANGED <<started, deadline>>
    /\ SaveThen(t, "s_host")
    /\ Forget(t)
    /\ UNCHANGED <<armed, due, token, machine, restarts>>

\* The probe of the Proxmox API decides between waking the machine and not.
CheckHost(t) ==
    /\ pc[t] = "s_host"
    /\ \E up \in Reports(level >= HostUp) : Goto(t, IF up THEN "s_checkvm" ELSE "s_wake")
    /\ UNCHANGED <<memory, disk, armed, due, token, machine, obs, lock, op, faults, restarts>>

\* One step of the try block.  to is where it continues; a failure starts the
\* clean-up.  set is the flag the code raises only once the step has returned.
TryStep(t, from, calls, to, set) ==
    /\ pc[t] = from
    /\ \E call \in calls :
         /\ level' = call.level
         /\ IF call.ok THEN Goto(t, to) /\ op' = set
                       ELSE Goto(t, "c_compose") /\ UNCHANGED op
    /\ UNCHANGED <<memory, disk, armed, due, token, meddles, obs, lock, faults, restarts>>

\* wake_and_unlock up to the Dropbear prompt: Vault secret, magic packet, wait.
Wake(t) ==
    TryStep(t, "s_wake",
            CASE level = Off    -> Calls(Off, Locked)
              [] level = Locked -> Calls(Locked, Locked)
              [] OTHER          -> Refused,
            "s_unlock", op)

\* wake_and_unlock from the unlock to the Proxmox API; then started_host = True.
\* The ssh to a Dropbear that is gone ends the expect script with success.
Unlock(t) ==
    TryStep(t, "s_unlock",
            CASE level = Off    -> Refused
              [] level = Locked -> Calls(Locked, HostUp)
              [] OTHER          -> Calls(level, level),
            "s_checkvm", [op EXCEPT !.host = TRUE])

\* vm_running takes any error of the API for "not running"; only the token's
\* absence is an exception.
CheckVm(t) ==
    /\ pc[t] = "s_checkvm"
    /\ \/ /\ \E running \in Reports(level >= VmUp) :
                Goto(t, IF running THEN "s_guest" ELSE "s_vm")
          /\ token' = TRUE
       \/ /\ VaultMayFail /\ ~token
          /\ Goto(t, "c_compose")
          /\ UNCHANGED token
    /\ UNCHANGED <<memory, disk, armed, due, machine, obs, lock, op, faults, restarts>>

\* start-vm, a success when the VM runs already; then started_vm = True.
StartVm(t) ==
    TryStep(t, "s_vm",
            CASE level < HostUp -> Refused
              [] level = HostUp -> Calls(HostUp, VmUp)
              [] OTHER          -> Calls(level, level),
            "s_guest", [op EXCEPT !.vm = TRUE])

\* wait-guest-ssh; compose_attempted is raised before compose up is called.
WaitGuest(t) ==
    TryStep(t, "s_guest",
            IF level >= VmUp THEN Calls(level, level) ELSE Refused,
            "s_compose", [op EXCEPT !.compose = TRUE])

ComposeUp(t) ==
    TryStep(t, "s_compose",
            IF level >= VmUp THEN Calls(level, StackUp) ELSE Refused,
            "s_finish", op)

\* Mutant: a started session is not timed.
FinishStartUntimed(t) ==
    /\ pc[t] = "s_finish"
    /\ phase' = "running" /\ started' = TRUE /\ deadline' = t[2]
    /\ SaveThen(t, "observe")
    /\ UNCHANGED <<armed, due, token, machine, obs, restarts>>

FinishStart(t) ==
    /\ pc[t] = "s_finish"
    /\ phase' = "running" /\ started' = TRUE /\ deadline' = t[2]
    /\ SaveThen(t, "s_schedule")
    /\ UNCHANGED <<armed, due, token, machine, obs, restarts>>

\* schedule_timeout, after state_lock was released; then answer with status().
Schedule(t) ==
    /\ pc[t] = "s_schedule"
    /\ armed' = t[2]
    /\ Goto(t, "observe")
    /\ UNCHANGED <<memory, disk, due, token, machine, obs, lock, op, faults, restarts>>

(***************************************************************************)
(* cleanup_failed_start: undo the layers whose flag is up, top down; a     *)
(* failure of one is logged and the next is tried.                         *)
(***************************************************************************)
CleanStep(t, from, flag, reach, target, to) ==
    /\ pc[t] = from
    /\ IF flag
       THEN \E call \in (IF level >= reach THEN Calls(level, Lower(target)) ELSE Refused) :
              /\ level' = call.level
              /\ token' = (token \/ call.ok)
              /\ op' = [op EXCEPT !.quiet = @ /\ (call.ok \/ level < reach)]
       ELSE UNCHANGED <<level, token, op>>
    /\ Goto(t, to)
    /\ UNCHANGED <<memory, disk, armed, due, meddles, obs, lock, faults, restarts>>

\* Mutant: the host is shut down only if the VM was started too.
CleanHostOfVm(t) == CleanStep(t, "c_host", op.vm, HostUp, Off, "s_fail")

CleanCompose(t) == CleanStep(t, "c_compose", op.compose, VmUp, VmUp, "c_vm")
CleanVm(t)      == CleanStep(t, "c_vm", op.vm, HostUp, HostUp, "c_host")
CleanHost(t)    == CleanStep(t, "c_host", op.host, HostUp, Off, "s_fail")

\* state.fail(), then the exception reaches the handler.
FailStart(t) ==
    /\ pc[t] = "s_fail"
    /\ phase' = "failed" /\ UNCHANGED <<started, deadline>>
    /\ \E ok \in Saves : Save(ok)
    /\ Finish(t)
    /\ UNCHANGED <<armed, due, token, machine, obs, restarts>>

-----------------------------------------------------------------------------
(* stop_session, called by a client ("manual") or by the timer ("timeout") *)

CancelTimeout(t) ==
    /\ pc[t] = "p_cancel"
    /\ armed' = NoSession
    /\ Goto(t, "p_observe")
    /\ UNCHANGED <<memory, disk, due, token, machine, obs, lock, op, faults, restarts>>

StopObserve(t)   == Observe(t, "p_observe", "p_reconcile")
StopReconcile(t) == Reconcile(t, "p_reconcile", "p_begin")

\* phase is read without state_lock here.
StopSkipped(t) ==
    /\ pc[t] = "p_begin" /\ phase \in Transient
    /\ Goto(t, "observe")
    /\ Forget(t)
    /\ UNCHANGED <<memory, disk, armed, due, token, machine, lock, op, faults, restarts>>

\* Mutant: a host that is not seen counts as stopped.
BeginStopTrusting(t) ==
    /\ pc[t] = "p_begin" /\ phase \notin Transient
    /\ phase' = "stopping" /\ UNCHANGED <<started, deadline>>
    /\ SaveThen(t, IF obs[t] < HostUp THEN "p_finish" ELSE "p_compose")
    /\ Forget(t)
    /\ UNCHANGED <<armed, due, token, machine, restarts>>

BeginStop(t) ==
    /\ pc[t] = "p_begin" /\ phase \notin Transient
    /\ phase' = "stopping" /\ UNCHANGED <<started, deadline>>
    /\ \E ok \in Saves :
         /\ Save(ok)
         /\ IF ok THEN /\ op' = [op EXCEPT !.errors = started /\ obs[t] < HostUp]
                       /\ Goto(t, IF obs[t] < HostUp THEN "p_finish" ELSE "p_compose")
                       /\ UNCHANGED lock
                  ELSE Finish(t)
    /\ Forget(t)
    /\ UNCHANGED <<armed, due, token, machine, restarts>>

\* The three shutdown calls; each is made whatever became of the one before.
StopStep(t, from, reach, target, to) ==
    /\ pc[t] = from
    /\ \E call \in (IF level >= reach THEN Calls(level, Lower(target)) ELSE Refused) :
         /\ level' = call.level
         /\ op' = [op EXCEPT !.errors = @ \/ ~call.ok]
    /\ Goto(t, to)
    /\ UNCHANGED <<memory, disk, armed, due, token, meddles, obs, lock, faults, restarts>>

StopCompose(t) == StopStep(t, "p_compose", VmUp, VmUp, "p_vm")
StopVm(t)      == StopStep(t, "p_vm", HostUp, HostUp, "p_host")
StopHost(t)    == StopStep(t, "p_host", HostUp, Off, "p_finish")

\* Mutant: the deadline of a stopped session stays.
FinishStopDated(t) ==
    /\ pc[t] = "p_finish"
    /\ UNCHANGED deadline
    /\ IF op.errors THEN phase' = "failed" /\ UNCHANGED started
                    ELSE phase' = "idle" /\ started' = FALSE
    /\ SaveThen(t, IF op.errors THEN Home(t) ELSE "observe")
    /\ UNCHANGED <<armed, due, token, machine, obs, restarts>>

FinishStop(t) ==
    /\ pc[t] = "p_finish"
    /\ deadline' = NoSession
    /\ IF op.errors THEN phase' = "failed" /\ UNCHANGED started
                    ELSE phase' = "idle" /\ started' = FALSE
    /\ SaveThen(t, IF op.errors THEN Home(t) ELSE "observe")
    /\ UNCHANGED <<armed, due, token, machine, obs, restarts>>

-----------------------------------------------------------------------------
(* The timer, the container and the world *)

\* threading.Timer: a scheduled timer that is not cancelled calls timeout_session.
\* Once it has fired, cancel() no longer stops it.
Fire(s) ==
    /\ armed = s /\ s \in due /\ pc[<<"timeout", s>>] = "idle"
    /\ Goto(<<"timeout", s>>, "lock")
    /\ UNCHANGED <<memory, disk, armed, due, token, machine, obs, lock, op, faults, restarts>>

DeadlinePasses(s) ==
    /\ s \in {deadline, armed} \ due
    /\ due' = due \cup {s}
    /\ UNCHANGED <<memory, disk, armed, token, machine, pc, obs, lock, op, faults, restarts>>

\* load_state: an interrupted operation becomes a failed session.
Load(file) == [file EXCEPT !.phase = IF @ \in Transient THEN "failed" ELSE @]
LoadFailed == [phase |-> "failed", started |-> FALSE, deadline |-> NoSession]

\* The container dies between any two steps and comes back: threads, timers, the
\* flock and memory are gone; __init__ loads the file and restores the timeout.
Restart ==
    /\ restarts < MaxRestarts /\ restarts' = restarts + 1
    /\ \E state \in {Load(disk)} \cup (IF IoMayFail THEN {LoadFailed} ELSE {}) :
         /\ phase' = state.phase /\ started' = state.started /\ deadline' = state.deadline
         /\ armed' = IF state.phase = "running" THEN state.deadline ELSE NoSession
         /\ faults' = IF state = Load(disk) THEN {} ELSE {"save"}
    /\ token' = FALSE /\ lock' = NoThread /\ op' = NoOp
    /\ obs' = [t \in Threads |-> Off]
    /\ pc' = [t \in Threads |-> IF pc[t] = "idle" THEN "idle" ELSE Home(t)]
    /\ UNCHANGED <<disk, due, machine>>

\* Another program or a person changes the power state.
Meddle ==
    /\ meddles < MaxMeddles /\ meddles' = meddles + 1
    /\ level' \in Levels \ {level}
    /\ op' = IF lock = NoThread THEN op ELSE [op EXCEPT !.quiet = FALSE]
    /\ UNCHANGED <<memory, disk, armed, due, token, pc, obs, lock, faults, restarts>>

-----------------------------------------------------------------------------
ViewThread(t) == ViewObserve(t) \/ ViewReconcile(t)

StartThread(t) ==
    /\ t \in Starters
    /\ \/ StartObserve(t) \/ StartReconcile(t) \/ Adopt(t) \/ BeginStart(t)
       \/ CheckHost(t) \/ Wake(t) \/ Unlock(t) \/ CheckVm(t) \/ StartVm(t) \/ WaitGuest(t)
       \/ ComposeUp(t) \/ FinishStart(t) \/ Schedule(t)
       \/ CleanCompose(t) \/ CleanVm(t) \/ CleanHost(t) \/ FailStart(t)

StopThread(t) ==
    /\ t \in Stoppers \cup Timers
    /\ \/ CancelTimeout(t) \/ StopObserve(t) \/ StopReconcile(t) \/ StopSkipped(t)
       \/ BeginStop(t) \/ StopCompose(t) \/ StopVm(t) \/ StopHost(t) \/ FinishStop(t)

\* Everything a thread does once its request is in, but for waiting for the lock.
Step(t) == ViewThread(t) \/ StartThread(t) \/ StopThread(t)

Next ==
    \/ \E t \in Threads : Arrive(t) \/ Acquire(t) \/ Step(t)
    \/ \E s \in Sessions : Fire(s) \/ DeadlinePasses(s)
    \/ Restart
    \/ Meddle

Spec == Init /\ [][Next]_vars

\* Fairness: a thread keeps running, a pending timer fires, time passes, and a
\* thread that waits for the flock gets it although others keep taking it (the
\* kernel wakes the waiters of a flock in turn).  Users and meddlers owe nothing.
FairSpec ==
    /\ Spec
    /\ \A t \in Threads : WF_vars(Step(t)) /\ SF_vars(Acquire(t))
    /\ \A s \in Sessions : WF_vars(Fire(s)) /\ WF_vars(DeadlinePasses(s))

-----------------------------------------------------------------------------
(* Properties *)

\* Steps of a start between begin_start and the end of the start, and of a stop
\* between begin_stop and the end of the stop.
Starting == {"s_host", "s_wake", "s_unlock", "s_checkvm", "s_vm", "s_guest", "s_compose", "s_finish",
             "c_compose", "c_vm", "c_host", "s_fail"}
Stopping == {"p_compose", "p_vm", "p_host", "p_finish"}

\* Starts and stops are serialised: a transient phase always belongs to the one
\* operation that holds the file lock, even after a restart killed an operation
\* midway; otherwise every later start and stop would answer "in progress" for
\* ever.  (Only a failed save of the session file can break this.)
TransientPhaseIsOwned ==
    "save" \notin faults =>
        /\ phase = "starting" => lock \in Starters /\ pc[lock] \in Starting
        /\ phase = "stopping" => lock # NoThread /\ pc[lock] \in Stopping

\* A running session always has its end in sight: its timer is pending or has
\* fired and waits for the lock, or the operation under the lock is about to
\* schedule it or has cancelled it to stop the session.
SessionIsTimed ==
    \/ armed = deadline
    \/ lock \in Starters /\ pc[lock] = "s_schedule"
    \/ lock # NoThread /\ pc[lock] \in {"p_observe", "p_reconcile", "p_begin"}
RunningSessionIsTimed == phase = "running" /\ faults = {} => SessionIsTimed

\* A container restart keeps a running session: the deadline last set is the
\* one that is loaded, and its timer is scheduled again.
RestartKeepsSession ==
    [][restarts' # restarts /\ "save" \notin faults \cup faults' /\ phase = "running"
        => phase' = "running" /\ deadline' = deadline /\ armed' = deadline]_vars

\* A stop ends with success, as opposed to a restart that undoes it.
FinishedStop == phase = "stopping" /\ phase' = "idle" /\ restarts' = restarts

\* A stop of an owned session that reports success has powered the machine off,
\* unless somebody else switched it during the stop; a probe that wrongly found
\* the host unreachable cannot turn into a success.
StopPowersOff ==
    [][FinishedStop /\ started /\ op.quiet => level = Off]_vars

\* After a failed start whose clean-up calls all succeeded, no layer that the
\* start recorded as its own is still up.
RecordedLayersAreCleaned ==
    \A t \in Starters :
        pc[t] = "s_fail" /\ op.quiet =>
            /\ op.compose => level <= VmUp
            /\ op.vm => level <= HostUp
            /\ op.host => level = Off

\* After a failed start whose clean-up calls all succeeded, the machine is no
\* further up than the start found it ("startup failure cleans up any layers it
\* started").
FailedStartCleansUp ==
    \A t \in Starters : pc[t] = "s_fail" /\ op.quiet => level <= op.base

\* The controller implements the life cycle it declares: no interleaving, failed
\* call or restart moves the phase or the deadline in a way the table rules out.
\* (A failed save is another matter: a restart then loads an older state.)
Lifecycle == INSTANCE SessionLifecycle
    WITH Sessions <- Sessions, NoSession <- NoSession, phase <- phase, deadline <- deadline
ImplementsLifecycle == Lifecycle!Spec

\* Every session ends: stopped by its timer at the latest, or found lost.
SessionEnds ==
    \A s \in Sessions : phase = "running" /\ deadline = s ~> ~(phase = "running" /\ deadline = s)

\* Every request is answered: nobody waits for the file lock for ever.
RequestsReturn == \A t \in Threads : pc[t] # "idle" ~> pc[t] \in {"idle", "done"}
=============================================================================
