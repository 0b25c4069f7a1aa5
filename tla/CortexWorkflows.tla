--------------------------- MODULE CortexWorkflows ----------------------------
(***************************************************************************)
(* The two weekly workflows that share the host proxmox-cortex: the vLLM   *)
(* window (vllm_weekly_window.py) and the Chronicle backup                 *)
(* (chronicle_backup_orchestrator.py), over their common library           *)
(* (proxmox_orchestration.py).  Each run wakes the host if it finds it     *)
(* off, brings up the layers it needs, works, and in its finally block     *)
(* takes down what it brought up.  The workflows have separate lock files, *)
(* so a window and a backup may interleave at every command.               *)
(*                                                                         *)
(* One action per command a run sends.  A command may be lost, may take    *)
(* effect and report a failure, a wait may time out early, a probe may     *)
(* miss, a run may be killed, and a person may use the machine: `faults`   *)
(* counts all of these, MaxFaults bounds them.                             *)
(***************************************************************************)
EXTENDS Naturals, FiniteSets

CONSTANTS
    Windows,     \* processes of vllm-weekly-window
    Backups,     \* processes of chronicle-backup-orchestrator
    MaxFaults,   \* bound on everything unplanned
    MaxWindows   \* bound on how often a window starts

ASSUME RunsAssumption == Windows \cap Backups = {}
ASSUME BoundsAssumption == MaxFaults \in Nat /\ MaxWindows \in Nat

Runs == Windows \cup Backups

VARIABLES
    host,      \* "off", "boot", "locked" (dropbear asks for the key), "on", "halting"
    guests,    \* the guests that run: the VM, its compose stack, the PBS container
    storage,   \* PVE storage "chronicle" is enabled
    task,      \* a vzdump task runs
    pc,        \* what each run does next
    woke,      \* woke_host
    started,   \* started_vm
    tried,     \* compose_up_attempted, storage_enable_attempted
    ran,       \* history: what has run without a break since the run began
    home,      \* history: what ran at first
    faults,    \* how many unplanned things happened
    windows    \* how many windows started

machine == <<host, guests, storage, task>>
flags == <<woke, started, tried>>
vars == <<host, guests, storage, task, pc, woke, started, tried, ran, home, faults, windows>>

Guests == {"vm", "stack", "ct"}

Running == guests \cup (IF host = "on" THEN {"host"} ELSE {})

\* What may come up by itself with the host or with the VM: onboot and restart policies.
Autostarts == {g \in SUBSET Guests : "stack" \in g => "vm" \in g}

Init ==
    /\ \/ host = "off" /\ guests = {}
       \/ host = "on" /\ guests \in Autostarts
    /\ storage = FALSE
    /\ task = FALSE
    /\ pc = [r \in Runs |-> "idle"]
    /\ woke = [r \in Runs |-> FALSE]
    /\ started = [r \in Runs |-> FALSE]
    /\ tried = [r \in Runs |-> FALSE]
    /\ ran = [r \in Runs |-> {}]
    /\ home = Running
    /\ faults = 0
    /\ windows = 0

-------------------------------------------------------------------------------
(* How the machine answers. *)

Goto(r, l) == pc' = [pc EXCEPT ![r] = l]

Same == UNCHANGED <<host, guests, storage, task>>

Fault == faults < MaxFaults /\ faults' = faults + 1

\* The host goes to h and the guests to g; what stopped leaves every history.
Becomes(h, g) ==
    /\ host' = h
    /\ guests' = g
    /\ ran' = [r \in Runs |-> ran[r] \cap (g \cup (IF h = "on" THEN {"host"} ELSE {}))]
    /\ UNCHANGED <<storage, task>>

SwitchStorage(b) == storage' = b /\ UNCHANGED <<host, guests, task, ran>>

Still == Same /\ UNCHANGED ran

\* The except branch: everything that raises ends in the finally block.
Raises(r) == Goto(r, "clean")

\* A checked command: it takes effect and r goes on, or it raises, with or without effect.
Checked(r, Effect, l) ==
    \/ Effect /\ Goto(r, l) /\ UNCHANGED faults
    \/ Effect /\ Raises(r) /\ Fault
    \/ Still /\ Raises(r) /\ Fault

\* A command the code sends with check=False: r goes on whatever it does.
Unchecked(r, Effect, l) ==
    /\ Goto(r, l)
    /\ \/ Effect /\ UNCHANGED faults
       \/ Still /\ Fault

\* What raises because the machine is not in the state the command needs.
Refused(r) == Still /\ Raises(r) /\ UNCHANGED faults

\* wait_for_port: returns once the port is open, times out when it will not open.
WaitFor(r, open, coming, l) ==
    \/ open /\ Still /\ Goto(r, l) /\ UNCHANGED faults
    \/ ~open /\ ~coming /\ Refused(r)
    \/ Still /\ Raises(r) /\ Fault

-------------------------------------------------------------------------------
(* Taking the lock, and the part the workflows share. *)

Kin(r) == IF r \in Windows THEN Windows ELSE Backups

FirstGuest(r) == IF r \in Windows THEN "vmStatus" ELSE "ctStatus"

\* Mutant of LockFree: no lock.
LockAlwaysFree(r) == TRUE

\* acquire_lock: a second run of the same workflow exits 75 and changes nothing.
LockFree(r) == \A q \in Kin(r) : pc[q] = "idle"

Begin(r) ==
    /\ pc[r] = "idle"
    /\ LockFree(r)
    /\ Goto(r, IF r \in Windows THEN "look" ELSE "vault")
    /\ IF r \in Windows THEN windows < MaxWindows /\ windows' = windows + 1
                        ELSE UNCHANGED windows
    /\ ran' = [ran EXCEPT ![r] = Running]
    /\ Same
    /\ UNCHANGED <<flags, home, faults>>

\* read_vault_secret: the window asks for the password after it looked, the backup before.
ReadVault(r) ==
    /\ pc[r] = "vault"
    /\ \/ Goto(r, IF r \in Windows THEN "wake" ELSE "look") /\ UNCHANGED faults
       \/ Raises(r) /\ Fault
    /\ Still
    /\ UNCHANGED <<flags, home, windows>>

\* port_open on the host's SSH: a host that halts may still answer, and nc may miss one that is on.
Look(r) ==
    /\ pc[r] = "look"
    /\ \/ host \in {"on", "halting"} /\ Goto(r, FirstGuest(r)) /\ UNCHANGED faults
       \/ host # "on" /\ Goto(r, IF r \in Windows THEN "vault" ELSE "wake") /\ UNCHANGED faults
       \/ host = "on" /\ Goto(r, IF r \in Windows THEN "vault" ELSE "wake") /\ Fault
    /\ Still
    /\ UNCHANGED <<flags, home, windows>>

\* wakeonlan: only a host that is off hears it.
Wake(r) ==
    /\ pc[r] = "wake"
    /\ Checked(r, Becomes(IF host = "off" THEN "boot" ELSE host, guests), "dropbear")
    /\ UNCHANGED <<flags, home, windows>>

WaitDropbear(r) ==
    /\ pc[r] = "dropbear"
    /\ WaitFor(r, host = "locked", host = "boot", "unlock")
    /\ UNCHANGED <<flags, home, windows>>

\* unlock_zfs: when dropbear is gone ssh is refused, and Expect takes the end of its output for success.
Unlock(r) ==
    /\ pc[r] = "unlock"
    /\ \/ /\ host = "locked"
          /\ \E g \in Autostarts : Checked(r, Becomes("on", g), "waitHost")
       \/ host # "locked" /\ Still /\ Goto(r, "waitHost") /\ UNCHANGED faults
       \/ host # "locked" /\ Refused(r)
    /\ UNCHANGED <<flags, home, windows>>

\* Mutant of WaitHost: woke_host is not noted.
WaitHostForgets(r) ==
    /\ pc[r] = "waitHost"
    /\ WaitFor(r, host = "on", FALSE, FirstGuest(r))
    /\ UNCHANGED <<flags, home, windows>>

\* The last wait of wake_and_unlock; the caller notes that it woke the host.
WaitHost(r) ==
    /\ pc[r] = "waitHost"
    /\ WaitFor(r, host = "on", FALSE, FirstGuest(r))
    /\ woke' = [woke EXCEPT ![r] = pc'[r] = FirstGuest(r)]
    /\ UNCHANGED <<started, tried, home, windows>>

-------------------------------------------------------------------------------
(* The vLLM window. *)

\* ensure_vm_running asks with check=False: no answer is taken for "not running".
VmStatus(r) ==
    /\ pc[r] = "vmStatus"
    /\ \/ "vm" \in guests /\ Goto(r, "waitGuest") /\ UNCHANGED faults
       \/ "vm" \notin guests /\ Goto(r, "vmStart") /\ UNCHANGED faults
       \/ "vm" \in guests /\ Goto(r, "vmStart") /\ Fault
    /\ Still
    /\ UNCHANGED <<flags, home, windows>>

\* qm start fails on a VM that runs; started_vm is set only after it succeeded.
VmStart(r) ==
    /\ pc[r] = "vmStart"
    /\ \/ /\ host = "on" /\ "vm" \notin guests
          /\ \E g \in {{"vm"}, {"vm", "stack"}} : Checked(r, Becomes(host, guests \cup g), "waitGuest")
       \/ (host # "on" \/ "vm" \in guests) /\ Refused(r)
    /\ started' = [started EXCEPT ![r] = pc'[r] = "waitGuest"]
    /\ UNCHANGED <<woke, tried, home, windows>>

WaitGuest(r) ==
    /\ pc[r] = "waitGuest"
    /\ WaitFor(r, "vm" \in guests, FALSE, "ps")
    /\ UNCHANGED <<flags, home, windows>>

\* Mutant of AskStack: compose_up_attempted does not ask what ran already.
AskStackBlindly(r) ==
    /\ pc[r] = "ps"
    /\ \/ "vm" \in guests /\ Still /\ Goto(r, "up") /\ UNCHANGED faults
       \/ "vm" \notin guests /\ Refused(r)
       \/ Still /\ Raises(r) /\ Fault
    /\ tried' = [tried EXCEPT ![r] = TRUE]
    /\ UNCHANGED <<woke, started, home, windows>>

\* already_running, and the note that `compose up` is ours to undo.
AskStack(r) ==
    /\ pc[r] = "ps"
    /\ \/ "vm" \in guests /\ Still /\ Goto(r, "up") /\ UNCHANGED faults
       \/ "vm" \notin guests /\ Refused(r)
       \/ Still /\ Raises(r) /\ Fault
    /\ tried' = [tried EXCEPT ![r] = pc'[r] = "up" /\ "stack" \notin guests]
    /\ UNCHANGED <<woke, started, home, windows>>

\* compose_up, then out at once when everything ran already, else into the window.
ComposeUp(r) ==
    /\ pc[r] = "up"
    /\ \/ /\ "vm" \in guests
          /\ Checked(r, Becomes(host, guests \cup {"stack"}),
                     IF tried[r] \/ woke[r] \/ started[r] THEN "sleep" ELSE "clean")
       \/ "vm" \notin guests /\ Refused(r)
    /\ UNCHANGED <<flags, home, windows>>

Sleep(r) ==
    /\ pc[r] = "sleep"
    /\ Goto(r, "clean")
    /\ Still
    /\ UNCHANGED <<flags, home, faults, windows>>

\* The first part of a window's cleanup.
ComposeDown(r) ==
    /\ pc[r] = "clean" /\ r \in Windows
    /\ IF tried[r] THEN Unchecked(r, Becomes(host, guests \ {"stack"}), "vmDown")
                   ELSE Still /\ Goto(r, "vmDown") /\ UNCHANGED faults
    /\ UNCHANGED <<flags, home, windows>>

VmDown(r) ==
    /\ pc[r] = "vmDown"
    /\ IF started[r] THEN Unchecked(r, Becomes(host, guests \ {"vm", "stack"}), "hostDown")
                     ELSE Still /\ Goto(r, "hostDown") /\ UNCHANGED faults
    /\ UNCHANGED <<flags, home, windows>>

-------------------------------------------------------------------------------
(* The Chronicle backup. *)

CtStatus(r) ==
    /\ pc[r] = "ctStatus"
    /\ \/ "ct" \in guests /\ Goto(r, "waitPbs") /\ UNCHANGED faults
       \/ "ct" \notin guests /\ Goto(r, "ctStart") /\ UNCHANGED faults
       \/ "ct" \in guests /\ Goto(r, "ctStart") /\ Fault
    /\ Still
    /\ UNCHANGED <<flags, home, windows>>

CtStart(r) ==
    /\ pc[r] = "ctStart"
    /\ \/ /\ host = "on" /\ "ct" \notin guests
          /\ Checked(r, Becomes(host, guests \cup {"ct"}), "waitPbs")
       \/ (host # "on" \/ "ct" \in guests) /\ Refused(r)
    /\ UNCHANGED <<flags, home, windows>>

WaitPbs(r) ==
    /\ pc[r] = "waitPbs"
    /\ WaitFor(r, "ct" \in guests, FALSE, "enable")
    /\ UNCHANGED <<flags, home, windows>>

\* storage_enable_attempted is set before the command is sent.
EnableStorage(r) ==
    /\ pc[r] = "enable"
    /\ tried' = [tried EXCEPT ![r] = TRUE]
    /\ Checked(r, SwitchStorage(TRUE), "create")
    /\ UNCHANGED <<woke, started, home, windows>>

\* run_backup_job: vzdump's own lock keeps two tasks apart.  The second disjunct is an answer
\* without a UPID, which skips the polling.
CreateTask(r) ==
    /\ pc[r] = "create"
    /\ ~task
    /\ \/ task' = TRUE /\ Goto(r, "poll") /\ UNCHANGED faults
       \/ task' = TRUE /\ Goto(r, "clean") /\ Fault
       \/ UNCHANGED task /\ Raises(r) /\ Fault
    /\ UNCHANGED <<host, guests, storage, ran, flags, home, windows>>

\* wait_for_task: until the task stopped, well or not; a failed status call raises.
Poll(r) ==
    /\ pc[r] = "poll"
    /\ \/ ~task /\ Goto(r, "clean") /\ UNCHANGED faults
       \/ task /\ Raises(r) /\ Fault
    /\ Still
    /\ UNCHANGED <<flags, home, windows>>

\* Mutant of DisableStorage: it hangs on woke_host as the shutdown does.
DisableIfWoken(r) ==
    /\ pc[r] = "clean" /\ r \in Backups
    /\ IF woke[r] THEN Unchecked(r, SwitchStorage(FALSE), "hostDown")
                  ELSE Still /\ Goto(r, "hostDown") /\ UNCHANGED faults
    /\ UNCHANGED <<flags, home, windows>>

\* The first part of a backup's cleanup.
DisableStorage(r) ==
    /\ pc[r] = "clean" /\ r \in Backups
    /\ IF tried[r] THEN Unchecked(r, SwitchStorage(FALSE), "hostDown")
                   ELSE Still /\ Goto(r, "hostDown") /\ UNCHANGED faults
    /\ UNCHANGED <<flags, home, windows>>

-------------------------------------------------------------------------------
(* The end of either workflow. *)

HostDown(r) ==
    /\ pc[r] = "hostDown"
    /\ IF woke[r] /\ host = "on" THEN Unchecked(r, Becomes("halting", {}), "exit")
                                 ELSE Still /\ Goto(r, "exit") /\ UNCHANGED faults
    /\ UNCHANGED <<flags, home, windows>>

\* The process is gone, and with it its flags and its lock.
Ends(r) ==
    /\ Goto(r, "idle")
    /\ woke' = [woke EXCEPT ![r] = FALSE]
    /\ started' = [started EXCEPT ![r] = FALSE]
    /\ tried' = [tried EXCEPT ![r] = FALSE]
    /\ ran' = [ran EXCEPT ![r] = {}]
    /\ Same
    /\ UNCHANGED <<home, windows>>

Exit(r) == pc[r] = "exit" /\ Ends(r) /\ UNCHANGED faults

\* systemctl stop, a crash or a reboot of the machine that runs the workflows: no finally block.
Kill(r) == pc[r] # "idle" /\ Ends(r) /\ Fault

-------------------------------------------------------------------------------
(* The host and the people who use it. *)

Boot ==
    /\ host = "boot"
    /\ Becomes("locked", {})
    /\ UNCHANGED <<pc, flags, home, faults, windows>>

PowerOff ==
    /\ host = "halting"
    /\ Becomes("off", {})
    /\ UNCHANGED <<pc, flags, home, faults, windows>>

TaskEnds ==
    /\ task
    /\ task' = FALSE
    /\ UNCHANGED <<host, guests, storage, pc, flags, ran, home, faults, windows>>

\* A person, or the Wolf session controller, wakes, unlocks or halts the host or starts or stops a guest.
Person ==
    /\ Fault
    /\ \/ host = "off" /\ Becomes("boot", {})
       \/ host = "locked" /\ \E g \in Autostarts : Becomes("on", g)
       \/ host = "on" /\ Becomes("halting", {})
       \/ host = "on" /\ \E g \in Autostarts : Becomes("on", g)
       \/ SwitchStorage(~storage)
    /\ UNCHANGED <<pc, flags, home, windows>>

-------------------------------------------------------------------------------
WindowStep(r) ==
    \/ VmStatus(r) \/ VmStart(r) \/ WaitGuest(r) \/ AskStack(r) \/ ComposeUp(r) \/ Sleep(r)
    \/ ComposeDown(r) \/ VmDown(r)

BackupStep(r) ==
    \/ CtStatus(r) \/ CtStart(r) \/ WaitPbs(r) \/ EnableStorage(r) \/ CreateTask(r) \/ Poll(r)
    \/ DisableStorage(r)

Step(r) ==
    \/ ReadVault(r) \/ Look(r) \/ Wake(r) \/ WaitDropbear(r) \/ Unlock(r) \/ WaitHost(r)
    \/ WindowStep(r) \/ BackupStep(r) \/ HostDown(r) \/ Exit(r)

Tick == \E b \in Backups : Begin(b)

Next ==
    \/ \E r \in Runs : Begin(r) \/ Step(r) \/ Kill(r)
    \/ Boot \/ PowerOff \/ TaskEnds \/ Person

Spec == Init /\ [][Next]_vars

\* Processes and the host go on; the backup's timer fires every week.
Fairness ==
    /\ \A r \in Runs : WF_vars(Step(r))
    /\ WF_vars(Tick)
    /\ WF_vars(Boot) /\ WF_vars(PowerOff) /\ WF_vars(TaskEnds)

FairSpec == Spec /\ Fairness

-------------------------------------------------------------------------------
Places == {"idle", "vault", "look", "wake", "dropbear", "unlock", "waitHost", "vmStatus", "vmStart",
           "waitGuest", "ps", "up", "sleep", "clean", "vmDown", "ctStatus", "ctStart", "waitPbs",
           "enable", "create", "poll", "hostDown", "exit"}

\* Every variable keeps its type, and guests run only on a host that is on.
TypeOK ==
    /\ host \in {"off", "boot", "locked", "on", "halting"}
    /\ guests \in Autostarts
    /\ guests # {} => host = "on"
    /\ storage \in BOOLEAN /\ task \in BOOLEAN
    /\ pc \in [Runs -> Places]
    /\ woke \in [Runs -> BOOLEAN] /\ started \in [Runs -> BOOLEAN] /\ tried \in [Runs -> BOOLEAN]
    /\ ran \in [Runs -> SUBSET (Guests \cup {"host"})]
    /\ home \in SUBSET (Guests \cup {"host"})
    /\ faults \in 0..MaxFaults
    /\ windows \in 0..MaxWindows

\* A run never stops a layer that has been running since before the run began, whatever
\* it missed, whoever else worked on the machine and wherever it failed: the flags of
\* cleanup (vllm_weekly_window.py:109-128, chronicle_backup_orchestrator.py:214-228) mean what they say.
FoundIsLeft == [][\A r \in Runs : Step(r) => ran[r] \subseteq Running']_vars

\* When nothing unplanned happened and every run has ended, the host, the VM and the
\* stack are as the first run found them, however windows and backups interleaved:
\* woke_host and started_vm of the runs together undo exactly what the runs did.
LeftAsFound ==
    (faults = 0 /\ \A r \in Runs : pc[r] = "idle") => Running \ {"ct"} = home \ {"ct"}

\* While nothing unplanned happened, the storage of a vzdump task stays enabled until the
\* task ends: one backup's cleanup never pulls the storage from under another's task.
TaskKeepsStorage == (faults = 0 /\ task) => storage

\* Whatever was lost or killed, the backup storage is disabled again, by a later backup if
\* not by this one: cleanup disables it on every path behind enable_storage.
StorageSettles == []<>(~storage)

===============================================================================
