------------------------------- MODULE DesktopVms -------------------------------
(***************************************************************************)
(* Runs of proxmox/desktop.py on one Proxmox host, as several people start *)
(* them side by side.  A run clones a template under a VM number, starts   *)
(* the clone with the cloud-init snippet it has written for that number,   *)
(* and removes the clone again if anything fails before the guest is set   *)
(* up.  No lock keeps runs apart: all they share are the numbers, the VMs  *)
(* behind them, and one snippet file per number.                           *)
(*                                                                         *)
(* A hostname, a certname and an ownership marker are the name they are    *)
(* made from.  The guest takes its hostname from its VM, for Proxmox puts  *)
(* that into the user-data; the snippet is vendor data, and the guest      *)
(* enrolls with the certname and the one-use token that it carries, both   *)
(* named by the run that wrote them.                                       *)
(***************************************************************************)
EXTENDS Naturals, FiniteSets

CONSTANTS
    Runs,        \* runs of the program
    Ids,         \* VM numbers
    Names,       \* short hostnames
    NoVm, NoRun,
    NoName,      \* a name that no run has
    MaxFaults    \* how often a command fails by itself or a run is interrupted or killed

ASSUME NothingAssumption == NoRun \notin Runs /\ NoName \notin Names
ASSUME BoundsAssumption == MaxFaults \in Nat

VARIABLES
    pc,        \* what a run does next
    arg,       \* its id, its name, --rebuild and --keep-failed
    cloned,    \* its flag of that name
    cut,       \* it was interrupted while its clone command ran
    vm,        \* the VM behind a number
    snippet,   \* the run that wrote generated-desktop-ID.yml last
    spent,     \* the runs whose token was used
    met,       \* history: another run was at work on its number at the same time
    faults

vars == <<pc, arg, cloned, cut, vm, snippet, spent, met, faults>>

Arguments == [id : Ids, name : Names, rebuild : BOOLEAN, keep : BOOLEAN]

\* owned says that the description is the marker of the name, by which run cloned it, custom
\* that its configuration names the snippet, boot what came of the first boot: a guest without
\* vendor data, an enrolled one, or one whose enrollment was refused; token with whose.
Vms == [name : Names, owned : BOOLEAN, by : Runs \cup {NoRun}, up : BOOLEAN, custom : BOOLEAN,
        boot : {"none", "bare", "enrolled", "refused"}, token : Runs \cup {NoRun}]

ASSUME VmAssumption == NoVm \notin Vms

\* Mutant of Cloned: the clone keeps the name Proxmox gives it.
ClonedUnnamed(r) == [name |-> NoName, owned |-> TRUE, by |-> r, up |-> FALSE,
                     custom |-> FALSE, boot |-> "none", token |-> NoRun]

Cloned(r) == [name |-> arg[r].name, owned |-> TRUE, by |-> r, up |-> FALSE,
              custom |-> FALSE, boot |-> "none", token |-> NoRun]

\* The inventory before the first run: some numbers are free, the names differ.
Found == {[name |-> x, owned |-> o, by |-> NoRun, up |-> TRUE, custom |-> FALSE,
           boot |-> "enrolled", token |-> NoRun] : x \in Names, o \in BOOLEAN}

Init ==
    /\ pc = [r \in Runs |-> "start"]
    /\ arg \in [Runs -> Arguments]
    /\ cloned = [r \in Runs |-> FALSE] /\ cut = [r \in Runs |-> FALSE]
    /\ vm \in [Ids -> Found \cup {NoVm}]
    /\ \A i, j \in Ids : i # j /\ NoVm \notin {vm[i], vm[j]} => vm[i].name # vm[j].name
    /\ snippet = [i \in Ids |-> NoRun]
    /\ spent = {} /\ met = [r \in Runs |-> FALSE]
    /\ faults = 0

Mine(r) == vm[arg[r].id]

Goes(r, from, to) == pc[r] = from /\ pc' = [pc EXCEPT ![r] = to]

SetVm(r, v) == vm' = [vm EXCEPT ![arg[r].id] = v]

\* require_owned_vm: the exact name and marker.
Owned(r) == Mine(r) # NoVm /\ Mine(r).name = arg[r].name /\ Mine(r).owned

-------------------------------------------------------------------------------
(* provision, up to the guest that is set up. *)

\* The places of a run at work: from its inventory to its report or its failure.
Trying == {"write", "write_over", "check", "stop", "destroy", "clone", "set", "boot", "verify", "release"}
Cleaning == {"own", "halt", "purge", "retain"}

Active(r) == pc[r] \in Trying \cup Cleaning \cup {"unlink", "give_up", "reboot"}

Beside(q, r) == q # r /\ arg[q].id = arg[r].id /\ Active(q)

\* The inventory has nobody else under the name, and nothing behind the number unless it may
\* be rebuilt; otherwise the run ends before it did anything.
Inventory(r) ==
    /\ \A i \in Ids \ {arg[r].id} : vm[i] # NoVm => vm[i].name # arg[r].name
    /\ Mine(r) = NoVm \/ (arg[r].rebuild /\ Owned(r))
    /\ Goes(r, "start", IF Mine(r) = NoVm THEN "write" ELSE "write_over")
    /\ met' = [q \in Runs |->
                met[q] \/ Beside(q, r) \/ (q = r /\ \E o \in Runs : Beside(o, r))]
    /\ UNCHANGED <<arg, cloned, cut, vm, snippet, spent, faults>>

\* Mutant of WriteSnippet: a snippet that is there is taken for the run's own.
WriteSnippetOnce(r) ==
    /\ Goes(r, "write", "clone") \/ Goes(r, "write_over", "check")
    /\ snippet' = [snippet EXCEPT ![arg[r].id] = IF @ = NoRun THEN r ELSE @]
    /\ UNCHANGED <<arg, cloned, cut, vm, spent, met, faults>>

WriteSnippet(r) ==
    /\ Goes(r, "write", "clone") \/ Goes(r, "write_over", "check")
    /\ snippet' = [snippet EXCEPT ![arg[r].id] = r]
    /\ UNCHANGED <<arg, cloned, cut, vm, spent, met, faults>>

CheckOwned(r) ==
    /\ Goes(r, "check", "stop") /\ Owned(r)
    /\ UNCHANGED <<arg, cloned, cut, vm, snippet, spent, met, faults>>

QmStop(r, from, to) ==
    /\ Goes(r, from, to) /\ Mine(r) # NoVm
    /\ SetVm(r, [Mine(r) EXCEPT !.up = FALSE])
    /\ UNCHANGED <<arg, cloned, cut, snippet, spent, met, faults>>

Stopped(r) == Mine(r) # NoVm /\ ~Mine(r).up

QmDestroy(r, from, to) ==
    /\ Goes(r, from, to) /\ Stopped(r)
    /\ SetVm(r, NoVm)
    /\ UNCHANGED <<arg, cloned, cut, snippet, spent, met, faults>>

\* Mutant of Clone: the flag is left to the end of the set-up.
CloneForgets(r) ==
    /\ Goes(r, "clone", "set") /\ Mine(r) = NoVm
    /\ SetVm(r, Cloned(r))
    /\ UNCHANGED <<arg, cloned, cut, snippet, spent, met, faults>>

Clone(r) ==
    /\ Goes(r, "clone", "set") /\ Mine(r) = NoVm
    /\ SetVm(r, Cloned(r))
    /\ cloned' = [cloned EXCEPT ![r] = TRUE]
    /\ UNCHANGED <<arg, cut, snippet, spent, met, faults>>

Configure(r) ==
    /\ Goes(r, "set", "boot") /\ Mine(r) # NoVm
    /\ SetVm(r, [Mine(r) EXCEPT !.custom = TRUE])
    /\ UNCHANGED <<arg, cloned, cut, snippet, spent, met, faults>>

Bootable(r) == Stopped(r) /\ (Mine(r).custom => snippet[arg[r].id] # NoRun)

\* The first boot sets the guest up with the snippet that is in the file by then; its token is
\* good for one enrollment (autosign.py, num_uses).
FirstBoot(v, q) ==
    IF ~v.custom THEN [v EXCEPT !.up = TRUE, !.boot = "bare"]
    ELSE [v EXCEPT !.up = TRUE, !.boot = IF q \in spent THEN "refused" ELSE "enrolled", !.token = q]

Start(r) ==
    /\ Goes(r, "boot", "verify") /\ Bootable(r)
    /\ \/ /\ Mine(r).boot = "none"
          /\ SetVm(r, FirstBoot(Mine(r), snippet[arg[r].id]))
          /\ spent' = IF Mine(r).custom THEN spent \cup {snippet[arg[r].id]} ELSE spent
       \/ /\ Mine(r).boot # "none"
          /\ SetVm(r, [Mine(r) EXCEPT !.up = TRUE]) /\ spent' = spent
    /\ UNCHANGED <<arg, cloned, cut, snippet, met, faults>>

\* wait_for_cloudinit and verify_guest_hostname ask whatever guest is behind the number: one
\* whose vendor data failed has an error to show, and the hostname is the VM's own name.
Verified(r) ==
    /\ Mine(r) # NoVm /\ Mine(r).up /\ Mine(r).boot # "refused"
    /\ Mine(r).name = arg[r].name

Verify(r) ==
    /\ Goes(r, "verify", "release") /\ Verified(r)
    /\ UNCHANGED <<arg, cloned, cut, vm, snippet, spent, met, faults>>

Release(r, from, to) ==
    /\ Goes(r, from, to) /\ Mine(r) # NoVm
    /\ SetVm(r, [Mine(r) EXCEPT !.custom = FALSE])
    /\ UNCHANGED <<arg, cloned, cut, snippet, spent, met, faults>>

\* Mutant of Unlink: only the run whose guest is set up removes its snippet.
UnlinkDone(r) ==
    /\ Goes(r, "unlink", "reboot") \/ Goes(r, "give_up", "failed")
    /\ snippet' = [snippet EXCEPT ![arg[r].id] = IF pc[r] = "unlink" THEN NoRun ELSE @]
    /\ UNCHANGED <<arg, cloned, cut, vm, spent, met, faults>>

\* The finally, after which a failed run raises again.
Unlink(r) ==
    /\ Goes(r, "unlink", "reboot") \/ Goes(r, "give_up", "failed")
    /\ snippet' = [snippet EXCEPT ![arg[r].id] = NoRun]
    /\ UNCHANGED <<arg, cloned, cut, vm, spent, met, faults>>

Reboot(r) ==
    /\ Goes(r, "reboot", "done") /\ Verified(r)
    /\ UNCHANGED <<arg, cloned, cut, vm, snippet, spent, met, faults>>

-------------------------------------------------------------------------------
(* What a failure does: the except clause removes the clone, or retains it when told to. *)

Raises(r) ==
    pc' = [pc EXCEPT ![r] =
        IF pc[r] = "reboot" THEN "unready"
        ELSE IF pc[r] \in Trying /\ cloned[r] THEN "own" ELSE "give_up"]

CleanupOwned(r) ==
    /\ Goes(r, "own", IF arg[r].keep THEN "retain" ELSE "halt") /\ Owned(r)
    /\ UNCHANGED <<arg, cloned, cut, vm, snippet, spent, met, faults>>

\* A command that what others did meanwhile makes fail.
Refused(r) ==
    /\ \/ pc[r] \in {"check", "own"} /\ ~Owned(r)
       \/ pc[r] \in {"stop", "halt", "set", "release", "retain"} /\ Mine(r) = NoVm
       \/ pc[r] \in {"destroy", "purge"} /\ ~Stopped(r)
       \/ pc[r] = "clone" /\ Mine(r) # NoVm
       \/ pc[r] = "boot" /\ ~Bootable(r)
       \/ pc[r] \in {"verify", "reboot"} /\ ~Verified(r)
    /\ Raises(r)
    /\ UNCHANGED <<arg, cloned, cut, vm, snippet, spent, met, faults>>

Fault == faults < MaxFaults /\ faults' = faults + 1

\* A command fails by itself, or a signal interrupts the run; an interrupted clone command
\* may have made its VM, and the flag is not set.
Fails(r) ==
    /\ pc[r] \in Trying \cup Cleaning \cup {"reboot"} /\ Fault /\ Raises(r)
    /\ \/ UNCHANGED <<cut, vm>>
       \/ /\ pc[r] = "clone" /\ Mine(r) = NoVm
          /\ SetVm(r, Cloned(r)) /\ cut' = [cut EXCEPT ![r] = TRUE]
    /\ UNCHANGED <<arg, cloned, snippet, spent, met>>

\* Nothing of the program's own runs any more; a clone command that was on its way has taken
\* the number.
Killed(r) ==
    /\ Active(r) /\ Fault
    /\ pc' = [pc EXCEPT ![r] = "killed"]
    /\ vm' = vm \/ (pc[r] = "clone" /\ Mine(r) = NoVm /\ SetVm(r, Cloned(r)))
    /\ UNCHANGED <<arg, cloned, cut, snippet, spent, met>>

-------------------------------------------------------------------------------
Provision(r) ==
    \/ Inventory(r) \/ WriteSnippet(r) \/ CheckOwned(r)
    \/ QmStop(r, "stop", "destroy") \/ QmDestroy(r, "destroy", "clone")
    \/ Clone(r) \/ Configure(r) \/ Start(r) \/ Verify(r) \/ Release(r, "release", "unlink")
    \/ Unlink(r) \/ Reboot(r)

Cleanup(r) ==
    \/ CleanupOwned(r)
    \/ QmStop(r, "halt", "purge") \/ QmDestroy(r, "purge", "give_up")
    \/ Release(r, "retain", "give_up")

Next == \E r \in Runs : Provision(r) \/ Cleanup(r) \/ Refused(r) \/ Fails(r) \/ Killed(r)

Spec == Init /\ [][Next]_vars

-------------------------------------------------------------------------------
\* Types; a VM behind a number always has one of the names (provision, --name).
TypeOK ==
    /\ pc \in [Runs -> Trying \cup Cleaning \cup
                {"start", "unlink", "give_up", "reboot", "done", "failed", "unready", "killed"}]
    /\ arg \in [Runs -> Arguments]
    /\ cloned \in [Runs -> BOOLEAN] /\ cut \in [Runs -> BOOLEAN]
    /\ vm \in [Ids -> Vms \cup {NoVm}]
    /\ snippet \in [Ids -> Runs \cup {NoRun}]
    /\ spent \subseteq Runs /\ met \in [Runs -> BOOLEAN]
    /\ faults \in 0..MaxFaults

\* A run that had its number for itself while it was at work reports a VM that it cloned and
\* that enrolled with its own token, whatever killed or failed runs of the number left behind:
\* a snippet, a clone, or a VM that still names the snippet.
DesktopIsItsOwn ==
    [][\A r \in Runs : pc[r] # "done" /\ pc'[r] = "done" /\ ~met[r] =>
            /\ Mine(r) # NoVm /\ Mine(r).by = r
            /\ Mine(r).boot = "enrolled" /\ Mine(r).token = r]_vars

\* A run that had its number for itself leaves no half-made clone behind because of one
\* failure, unless it was told to, or was interrupted in the very command that clones
\* ("Clone, configure, enroll, and reboot a desktop VM; clean up failed clones.",
\* desktop.py:234).
CloneIsCleanedUp ==
    \A r \in Runs :
        pc[r] = "failed" /\ Mine(r) # NoVm /\ Mine(r).by = r /\ faults <= 1 /\ ~met[r]
        => arg[r].keep \/ cut[r]

\* Every token on disk belongs to a run that is still at work or was killed, however the runs
\* overwrite and remove one another's file ("removed when provisioning exits", README.md:106).
SnippetsGo ==
    \A i \in Ids : snippet[i] # NoRun =>
        pc[snippet[i]] \in Trying \cup Cleaning \cup {"unlink", "give_up", "killed"}

\* What provision says of itself, "Clone, configure, enroll, and reboot a desktop VM"
\* (desktop.py:234): a clone whose run reports it is enrolled, under that run's own certname.
\* The checks of the hostname (desktop.py:221-230) do not show it, and the code does not have
\* it when two runs meet at one number: TLC refutes it, and no run lists it.
ReportedIsEnrolled ==
    \A r \in Runs : pc[r] = "done" /\ Mine(r) # NoVm /\ Mine(r).by = r =>
        Mine(r).boot = "enrolled" /\ arg[Mine(r).token].name = arg[r].name
===============================================================================
