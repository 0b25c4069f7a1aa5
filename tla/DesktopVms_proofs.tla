--------------------------- MODULE DesktopVms_proofs ----------------------------
(***************************************************************************)
(* Proofs about DesktopVms, for any number of runs over any numbers and    *)
(* names: the types, that a run which had its number for itself reports a  *)
(* clone of its own that its own token enrolled, that one failure leaves   *)
(* no such run's clone behind, and that no token outlives its run.         *)
(***************************************************************************)
EXTENDS DesktopVms, TLAPS

Step(r) == Provision(r) \/ Cleanup(r) \/ Refused(r) \/ Fails(r) \/ Killed(r)

HasClone(r) == Mine(r) # NoVm /\ Mine(r).by = r

-------------------------------------------------------------------------------
(* The invariants. *)

\* A clone is behind the number of the run that made it and bears that run's name and marker.
ClonesOK ==
    \A i \in Ids, r \in Runs : vm[i] # NoVm /\ vm[i].by = r =>
        arg[r].id = i /\ vm[i].name = arg[r].name /\ vm[i].owned

SnippetAges == Trying \cup Cleaning \cup {"unlink", "give_up", "killed"}

\* A snippet is under its run's number, and that run has not come past its unlink.
SnippetsOK ==
    \A i \in Ids : snippet[i] # NoRun => arg[snippet[i]].id = i /\ pc[snippet[i]] \in SnippetAges

Written == {"check", "stop", "destroy", "clone", "set", "boot"}

\* Runs at work on one number have met.
MetOK ==
    \A q \in Runs, r \in Runs :
        q # r /\ arg[q].id = arg[r].id /\ Active(q) /\ Active(r) => met[q]

Enrolled(r) == Mine(r).up /\ Mine(r).boot = "enrolled" /\ Mine(r).token = r

\* What a run knows that had its number for itself so far.  Before the clone there is none of
\* its own; from there on there is, as configured and enrolled so far with its own snippet.
ProvisionsAlone(r) ==
    /\ pc[r] \in {"start", "write", "write_over", "check", "stop", "destroy", "clone"} =>
          ~cloned[r] /\ ~HasClone(r)
    /\ pc[r] \in {"start", "write", "write_over"} \cup Written => r \notin spent
    /\ pc[r] \in Written => snippet[arg[r].id] = r
    /\ pc[r] \in {"set", "boot", "verify", "release"} => cloned[r]
    /\ pc[r] \in {"set", "boot", "verify", "release", "unlink", "reboot"} => HasClone(r)
    /\ pc[r] \in {"set", "boot"} => ~Mine(r).up /\ Mine(r).boot = "none"
    /\ pc[r] = "boot" => Mine(r).custom
    /\ pc[r] \in {"verify", "release", "unlink", "reboot"} => Enrolled(r)

\* Then only a fault makes it clean up, and one fault does not spoil the cleaning.
CleansAlone(r) ==
    /\ pc[r] \in Cleaning => faults >= 1 /\ HasClone(r)
    /\ pc[r] = "purge" => ~Mine(r).up
    /\ pc[r] = "retain" => arg[r].keep
    /\ pc[r] \in {"give_up", "failed"} => faults > 1 \/ ~HasClone(r) \/ arg[r].keep \/ cut[r]

AloneOK == \A r \in Runs : ~met[r] => ProvisionsAlone(r) /\ CleansAlone(r)

Inv == TypeOK /\ ClonesOK /\ SnippetsOK /\ MetOK /\ AloneOK

-------------------------------------------------------------------------------
(* What a step of a run changes: its own place, flags, VM and snippet. *)

LEMMA InitInv == Init => Inv
<1> SUFFICES ASSUME Init PROVE Inv
  OBVIOUS
<1>1. \A i \in Ids : vm[i] \in Found \cup {NoVm}
  BY DEF Init
<1>2. Found \subseteq Vms
  <2> SUFFICES ASSUME NEW v \in Found PROVE v \in Vms
    OBVIOUS
  <2>1. PICK x \in Names, o \in BOOLEAN :
          v = [name |-> x, owned |-> o, by |-> NoRun, up |-> TRUE, custom |-> FALSE,
               boot |-> "enrolled", token |-> NoRun]
    BY DEF Found
  <2> QED BY <2>1 DEF Vms
<1>3. TypeOK
  BY <1>2, BoundsAssumption DEF Init, TypeOK
<1>4. \A i \in Ids : vm[i] # NoVm => vm[i].by = NoRun
  BY <1>1 DEF Found
<1>5. \A i \in Ids, r \in Runs : ~(vm[i] # NoVm /\ vm[i].by = r)
  BY <1>4, NothingAssumption
<1>6. ClonesOK
  BY <1>5 DEF ClonesOK
<1>7. SnippetsOK
  BY DEF Init, SnippetsOK
<1>8. \A r \in Runs : pc[r] = "start" /\ ~cloned[r] /\ ~HasClone(r) /\ r \notin spent
  BY <1>3, <1>5 DEF Init, TypeOK, HasClone, Mine, Arguments
<1>9. MetOK
  BY <1>8 DEF MetOK, Active, Trying, Cleaning
<1>10. AloneOK
  BY <1>8 DEF AloneOK, ProvisionsAlone, CleansAlone, Written, Cleaning
<1> QED BY <1>3, <1>6, <1>7, <1>9, <1>10 DEF Inv

LEMMA ArgType ==
    ASSUME TypeOK, NEW r \in Runs
    PROVE  arg[r].id \in Ids /\ arg[r].name \in Names /\ arg[r].keep \in BOOLEAN
BY DEF TypeOK, Arguments

LEMMA FaultsGrow ==
    ASSUME TypeOK, (faults' = faults) \/ Fault
    PROVE  faults' \in 0..MaxFaults /\ faults' >= faults
BY BoundsAssumption DEF TypeOK, Fault

\* The VM a step leaves behind the run's number, if it changes it.
LEMMA VmTypes ==
    ASSUME TypeOK, NEW r \in Runs, Mine(r) # NoVm, NEW b \in BOOLEAN
    PROVE  /\ Mine(r) \in Vms
           /\ [Mine(r) EXCEPT !.up = b] \in Vms /\ [Mine(r) EXCEPT !.custom = b] \in Vms
           /\ \A q \in Runs \cup {NoRun} :
                (Mine(r).custom => q \in Runs) => FirstBoot(Mine(r), q) \in Vms
<1>1. Mine(r) \in Vms
  BY ArgType DEF TypeOK, Mine
<1>2. ASSUME NEW v \in Vms, NEW q \in Runs \cup {NoRun} PROVE FirstBoot(v, q) \in Vms
  BY DEF FirstBoot, Vms
<1>3. ASSUME NEW v \in Vms PROVE [v EXCEPT !.up = b] \in Vms /\ [v EXCEPT !.custom = b] \in Vms
  BY DEF Vms
<1> QED BY <1>1, <1>2, <1>3

LEMMA ClonedType == ASSUME TypeOK, NEW r \in Runs PROVE Cloned(r) \in Vms
BY ArgType DEF Vms, Cloned

\* A start boots the VM again or for the first time, with the snippet its number has by then.
LEMMA StartShape ==
    ASSUME TypeOK, NEW r \in Runs, Start(r)
    PROVE  /\ Mine(r) # NoVm /\ pc[r] = "boot" /\ pc' = [pc EXCEPT ![r] = "verify"]
           /\ \E v \in Vms :
                /\ vm' = [vm EXCEPT ![arg[r].id] = v]
                /\ v.name = Mine(r).name /\ v.owned = Mine(r).owned /\ v.by = Mine(r).by
           /\ \/ spent' = spent
              \/ /\ snippet[arg[r].id] \in Runs
                 /\ spent' = spent \cup {snippet[arg[r].id]}
<1>1. Mine(r) # NoVm /\ Mine(r) \in Vms /\ (Mine(r).custom => snippet[arg[r].id] \in Runs)
  BY VmTypes, ArgType DEF Start, Bootable, Stopped, TypeOK
<1>2. PICK q \in Runs \cup {NoRun} : q = snippet[arg[r].id]
  BY ArgType DEF TypeOK
<1>3. ASSUME NEW v \in Vms
      PROVE  /\ [v EXCEPT !.up = TRUE] \in Vms /\ FirstBoot(v, q) \in Vms
             /\ [v EXCEPT !.up = TRUE].name = v.name /\ [v EXCEPT !.up = TRUE].owned = v.owned
             /\ [v EXCEPT !.up = TRUE].by = v.by
             /\ FirstBoot(v, q).name = v.name /\ FirstBoot(v, q).owned = v.owned
             /\ FirstBoot(v, q).by = v.by
  BY DEF FirstBoot, Vms
<1>4. \/ vm' = [vm EXCEPT ![arg[r].id] = FirstBoot(Mine(r), q)]
      \/ vm' = [vm EXCEPT ![arg[r].id] = [Mine(r) EXCEPT !.up = TRUE]]
  BY <1>2 DEF Start, SetVm
<1>5. \E v \in Vms :
        /\ vm' = [vm EXCEPT ![arg[r].id] = v]
        /\ v.name = Mine(r).name /\ v.owned = Mine(r).owned /\ v.by = Mine(r).by
  BY <1>1, <1>3, <1>4
<1>6. spent' = spent \/ (snippet[arg[r].id] \in Runs /\ spent' = spent \cup {snippet[arg[r].id]})
  BY <1>1 DEF Start
<1> QED BY <1>1, <1>5, <1>6 DEF Start, Goes

\* Every step is a change of place, of the VM behind the run's number, or of its snippet.
LEMMA StepShape ==
    ASSUME TypeOK, NEW r \in Runs, Step(r)
    PROVE  /\ arg' = arg
           /\ faults' = faults \/ Fault
           /\ \E l \in Trying \cup Cleaning \cup
                 {"unlink", "give_up", "reboot", "done", "failed", "unready", "killed"} :
                 pc' = [pc EXCEPT ![r] = l]
           /\ cloned' = cloned \/ cloned' = [cloned EXCEPT ![r] = TRUE]
           /\ cut' = cut \/ cut' = [cut EXCEPT ![r] = TRUE]
           /\ vm' = vm \/ \E v \in Vms \cup {NoVm} : vm' = [vm EXCEPT ![arg[r].id] = v]
           /\ snippet' = snippet \/ \E q \in {r, NoRun} : snippet' = [snippet EXCEPT ![arg[r].id] = q]
           /\ \/ spent' = spent
              \/ /\ snippet[arg[r].id] \in Runs
                 /\ spent' = spent \cup {snippet[arg[r].id]}
           /\ met' = met \/ Inventory(r)
<1> USE DEF Goes, SetVm, Trying, Cleaning
<1>1. CASE Inventory(r) \/ CheckOwned(r) \/ Verify(r) \/ Reboot(r) \/ CleanupOwned(r)
  BY <1>1 DEF Inventory, CheckOwned, Verify, Reboot, CleanupOwned
<1>2. CASE WriteSnippet(r) \/ Unlink(r)
  BY <1>2 DEF WriteSnippet, Unlink
<1>3. CASE QmStop(r, "stop", "destroy") \/ QmStop(r, "halt", "purge")
  BY <1>3, VmTypes DEF QmStop
<1>4. CASE QmDestroy(r, "destroy", "clone") \/ QmDestroy(r, "purge", "give_up")
  BY <1>4 DEF QmDestroy
<1>5. CASE Clone(r)
  BY <1>5, ClonedType DEF Clone
<1>6. CASE Configure(r) \/ Release(r, "release", "unlink") \/ Release(r, "retain", "give_up")
  BY <1>6, VmTypes DEF Configure, Release
<1>7. CASE Start(r)
  <2>1. UNCHANGED <<arg, cloned, cut, snippet, met, faults>>
    BY <1>7 DEF Start
  <2> QED BY <1>7, <2>1, StartShape
<1>8. CASE Refused(r)
  BY <1>8 DEF Refused, Raises
<1>9. CASE Fails(r)
  BY <1>9, ClonedType DEF Fails, Raises
<1>10. CASE Killed(r)
  BY <1>10, ClonedType DEF Killed
<1> QED BY <1>1, <1>2, <1>3, <1>4, <1>5, <1>6, <1>7, <1>8, <1>9, <1>10 DEF Step, Provision, Cleanup

\* Only an inventory tells runs of one another, and none is forgotten.
LEMMA MetGrows ==
    ASSUME TypeOK, NEW r \in Runs, Step(r)
    PROVE  met' \in [Runs -> BOOLEAN] /\ \A q \in Runs : met[q] => met'[q]
<1>1. CASE met' = met
  BY <1>1 DEF TypeOK
<1>2. CASE Inventory(r)
  BY <1>2 DEF Inventory, TypeOK, Beside, Active
<1> QED BY <1>1, <1>2, StepShape

LEMMA TypeKeeps == ASSUME TypeOK, NEW r \in Runs, Step(r) PROVE TypeOK'
<1>1. faults' \in 0..MaxFaults
  BY StepShape, FaultsGrow
<1>2. arg[r].id \in Ids
  BY ArgType
<1>3. PICK l \in Trying \cup Cleaning \cup
               {"unlink", "give_up", "reboot", "done", "failed", "unready", "killed"} :
        pc' = [pc EXCEPT ![r] = l]
  BY StepShape
<1>4. cloned' \in [Runs -> BOOLEAN] /\ cut' \in [Runs -> BOOLEAN] /\ arg' \in [Runs -> Arguments]
  BY StepShape DEF TypeOK
<1>5. vm' \in [Ids -> Vms \cup {NoVm}]
  BY <1>2, StepShape DEF TypeOK
<1>6. snippet' \in [Ids -> Runs \cup {NoRun}]
  <2>1. snippet' = snippet \/ \E q \in {r, NoRun} : snippet' = [snippet EXCEPT ![arg[r].id] = q]
    BY StepShape
  <2> QED BY <1>2, <2>1 DEF TypeOK
<1>7. spent' \subseteq Runs
  BY StepShape DEF TypeOK
<1> QED BY <1>1, <1>3, <1>4, <1>5, <1>6, <1>7, MetGrows DEF TypeOK

\* The rest of the state stays as it is.
LEMMA StepFrame ==
    ASSUME TypeOK, NEW r \in Runs, Step(r)
    PROVE  /\ arg' = arg
           /\ faults' >= faults /\ faults' \in Nat /\ faults \in Nat
           /\ \A q \in Runs \ {r} : pc'[q] = pc[q] /\ cloned'[q] = cloned[q] /\ cut'[q] = cut[q]
           /\ \A i \in Ids \ {arg[r].id} : vm'[i] = vm[i] /\ snippet'[i] = snippet[i]
<1>1. faults' \in 0..MaxFaults /\ faults' >= faults /\ faults \in 0..MaxFaults
  BY StepShape, FaultsGrow DEF TypeOK
<1> QED BY <1>1, StepShape, BoundsAssumption DEF TypeOK

-------------------------------------------------------------------------------
(* Clones and snippets. *)

\* A VM goes, is cloned, or keeps its name, its marker and who cloned it.
LEMMA VmChanges ==
    ASSUME TypeOK, NEW r \in Runs, Step(r)
    PROVE  \/ vm' = vm
           \/ vm' = [vm EXCEPT ![arg[r].id] = NoVm]
           \/ pc[r] = "clone" /\ vm' = [vm EXCEPT ![arg[r].id] = Cloned(r)]
           \/ /\ Mine(r) # NoVm
              /\ \E v \in Vms :
                    /\ vm' = [vm EXCEPT ![arg[r].id] = v]
                    /\ v.name = Mine(r).name /\ v.owned = Mine(r).owned /\ v.by = Mine(r).by
<1> USE DEF Goes, SetVm
<1>1. CASE Inventory(r) \/ CheckOwned(r) \/ Verify(r) \/ Reboot(r) \/ CleanupOwned(r)
           \/ WriteSnippet(r) \/ Unlink(r) \/ Refused(r)
  BY <1>1 DEF Inventory, CheckOwned, Verify, Reboot, CleanupOwned, WriteSnippet, Unlink, Refused
<1>2. CASE QmStop(r, "stop", "destroy") \/ QmStop(r, "halt", "purge")
  <2>1. Mine(r) # NoVm /\ vm' = [vm EXCEPT ![arg[r].id] = [Mine(r) EXCEPT !.up = FALSE]]
    BY <1>2 DEF QmStop
  <2>3. Mine(r) \in Vms /\ [Mine(r) EXCEPT !.up = FALSE] \in Vms
    BY <2>1, VmTypes
  <2>4. LET v == [Mine(r) EXCEPT !.up = FALSE]
        IN  v.name = Mine(r).name /\ v.owned = Mine(r).owned /\ v.by = Mine(r).by
    BY <2>3 DEF Vms
  <2> QED BY <2>1, <2>3, <2>4
<1>3. CASE QmDestroy(r, "destroy", "clone") \/ QmDestroy(r, "purge", "give_up")
  BY <1>3 DEF QmDestroy
<1>4. CASE Clone(r)
  BY <1>4 DEF Clone, TypeOK
<1>5. CASE Configure(r) \/ Release(r, "release", "unlink") \/ Release(r, "retain", "give_up")
  <2>1. Mine(r) # NoVm /\ \E b \in BOOLEAN : vm' = [vm EXCEPT ![arg[r].id] = [Mine(r) EXCEPT !.custom = b]]
    BY <1>5 DEF Configure, Release
  <2>3. PICK b \in BOOLEAN : vm' = [vm EXCEPT ![arg[r].id] = [Mine(r) EXCEPT !.custom = b]]
    BY <2>1
  <2>4. Mine(r) \in Vms /\ [Mine(r) EXCEPT !.custom = b] \in Vms
    BY <2>1, VmTypes
  <2>5. LET v == [Mine(r) EXCEPT !.custom = b]
        IN  v.name = Mine(r).name /\ v.owned = Mine(r).owned /\ v.by = Mine(r).by
    BY <2>4 DEF Vms
  <2> QED BY <2>1, <2>3, <2>4, <2>5
<1>6. CASE Start(r)
  BY <1>6, StartShape
<1>7. CASE Fails(r) \/ Killed(r)
  BY <1>7 DEF Fails, Killed
<1> QED BY <1>1, <1>2, <1>3, <1>4, <1>5, <1>6, <1>7 DEF Step, Provision, Cleanup

LEMMA ClonesKeep == ASSUME Inv, NEW r \in Runs, Step(r) PROVE ClonesOK'
<1> USE DEF Inv
<1>1. arg' = arg /\ arg[r].id \in Ids
  BY StepFrame, ArgType
<1> SUFFICES ASSUME NEW i \in Ids, NEW q \in Runs, vm'[i] # NoVm, vm'[i].by = q
             PROVE  arg[q].id = i /\ vm'[i].name = arg[q].name /\ vm'[i].owned
  BY <1>1 DEF ClonesOK
<1>2. CASE vm'[i] = vm[i]
  BY <1>2 DEF ClonesOK
<1>3. CASE vm'[i] # vm[i]
  <2>1. i = arg[r].id
    BY <1>3, StepFrame
  <2>2. CASE vm'[i] = Cloned(r)
    BY <2>1, <2>2 DEF Cloned
  <2>3. CASE Mine(r) # NoVm /\ vm'[i].name = Mine(r).name /\ vm'[i].owned = Mine(r).owned
             /\ vm'[i].by = Mine(r).by
    BY <2>1, <2>3 DEF ClonesOK, Mine
  <2> QED BY <1>1, <1>3, <2>1, <2>2, <2>3, VmChanges DEF TypeOK
<1> QED BY <1>2, <1>3

\* A snippet is written, removed, or left by a run that is not past its unlink afterwards.
LEMMA SnippetChanges ==
    ASSUME TypeOK, NEW r \in Runs, Step(r)
    PROVE  \/ snippet' = [snippet EXCEPT ![arg[r].id] = r] /\ pc'[r] \in {"clone", "check"}
           \/ snippet' = [snippet EXCEPT ![arg[r].id] = NoRun] /\ pc[r] \in {"unlink", "give_up"}
           \/ snippet' = snippet /\ (pc[r] \in SnippetAges => pc'[r] \in SnippetAges)
<1> USE DEF SnippetAges, Trying, Cleaning
<1>1. CASE Inventory(r) \/ CheckOwned(r) \/ QmStop(r, "stop", "destroy") \/ QmDestroy(r, "destroy", "clone")
            \/ Clone(r) \/ Configure(r)
  BY <1>1 DEF Inventory, CheckOwned, QmStop, QmDestroy, Clone, Configure, Goes, TypeOK
<1>2. CASE Start(r) \/ Verify(r) \/ Release(r, "release", "unlink") \/ Reboot(r)
  BY <1>2 DEF Start, Verify, Release, Reboot, Goes, TypeOK
<1>3. CASE WriteSnippet(r) \/ Unlink(r)
  BY <1>3 DEF WriteSnippet, Unlink, Goes, TypeOK
<1>4. CASE Cleanup(r)
  BY <1>4 DEF Cleanup, CleanupOwned, QmStop, QmDestroy, Release, Goes, TypeOK
<1>5. CASE Refused(r) \/ Fails(r) \/ Killed(r)
  BY <1>5 DEF Refused, Fails, Killed, Raises, TypeOK
<1> QED BY <1>1, <1>2, <1>3, <1>4, <1>5 DEF Step, Provision

LEMMA SnippetsKeep == ASSUME Inv, NEW r \in Runs, Step(r) PROVE SnippetsOK'
<1> USE DEF Inv
<1>1. arg' = arg /\ arg[r].id \in Ids
  BY StepFrame, ArgType
<1> SUFFICES ASSUME NEW i \in Ids, snippet'[i] # NoRun
             PROVE  arg[snippet'[i]].id = i /\ pc'[snippet'[i]] \in SnippetAges
  BY <1>1 DEF SnippetsOK
<1>2. CASE snippet'[i] # snippet[i]
  <2>1. i = arg[r].id /\ snippet'[i] = r /\ pc'[r] \in {"clone", "check"}
    BY <1>1, <1>2, SnippetChanges DEF TypeOK
  <2> QED BY <2>1 DEF SnippetAges, Trying
<1>3. CASE snippet'[i] = snippet[i]
  <2>1. snippet[i] \in Runs /\ arg[snippet[i]].id = i /\ pc[snippet[i]] \in SnippetAges
    BY <1>3 DEF SnippetsOK, TypeOK
  <2>2. CASE snippet[i] = r
    BY <1>1, <1>3, <2>1, <2>2, SnippetChanges, NothingAssumption DEF TypeOK, SnippetAges, Trying
  <2>3. CASE snippet[i] # r
    BY <1>3, <2>1, <2>3, StepFrame
  <2> QED BY <2>2, <2>3
<1> QED BY <1>2, <1>3

\* A run that is not at work takes its inventory, if it does anything.
LEMMA Begins == ASSUME NEW r \in Runs, Step(r), ~Active(r) PROVE Inventory(r)
<1> USE DEF Active, Trying, Cleaning
<1>1. ~(WriteSnippet(r) \/ CheckOwned(r) \/ QmStop(r, "stop", "destroy")
        \/ QmDestroy(r, "destroy", "clone") \/ Clone(r) \/ Configure(r))
  BY DEF WriteSnippet, CheckOwned, QmStop, QmDestroy, Clone, Configure, Goes
<1>2. ~(Start(r) \/ Verify(r) \/ Release(r, "release", "unlink") \/ Unlink(r) \/ Reboot(r))
  BY DEF Start, Verify, Release, Unlink, Reboot, Goes
<1>3. ~(Cleanup(r) \/ Refused(r) \/ Fails(r) \/ Killed(r))
  BY DEF Cleanup, CleanupOwned, QmStop, QmDestroy, Release, Goes, Refused, Fails, Killed
<1> QED BY <1>1, <1>2, <1>3 DEF Step, Provision

\* Whoever takes its inventory while another is at work has met it.
LEMMA InventoryMeets ==
    ASSUME TypeOK, NEW r \in Runs, Inventory(r), NEW q \in Runs \ {r},
           arg[q].id = arg[r].id, Active(q)
    PROVE  met'[q] /\ met'[r]
BY DEF Inventory, TypeOK, Beside

LEMMA MetKeeps == ASSUME Inv, NEW r \in Runs, Step(r) PROVE MetOK'
<1> SUFFICES ASSUME NEW q \in Runs, NEW p \in Runs, q # p, arg'[q].id = arg'[p].id,
                    Active(q)', Active(p)'
             PROVE  met'[q]
  BY DEF MetOK
<1>1. TypeOK /\ arg' = arg
  BY StepFrame DEF Inv
<1>2. CASE Active(q) /\ Active(p)
  BY <1>1, <1>2, MetGrows DEF Inv, MetOK
<1>3. \A o \in Runs \ {r} : Active(o)' => Active(o)
  BY <1>1, StepFrame DEF Active
<1>4. CASE ~Active(q)
  BY <1>1, <1>3, <1>4, Begins, InventoryMeets
<1>5. CASE ~Active(p)
  BY <1>1, <1>3, <1>5, Begins, InventoryMeets
<1> QED BY <1>2, <1>4, <1>5

-------------------------------------------------------------------------------
(* A run that has its number for itself. *)

\* Nobody else's step reaches its VM, its snippet, its token or its flags.
LEMMA AloneOthers ==
    ASSUME Inv, NEW r \in Runs, Step(r), NEW q \in Runs \ {r}, ~met'[q]
    PROVE  ProvisionsAlone(q)' /\ CleansAlone(q)'
<1>1. TypeOK /\ ProvisionsAlone(q) /\ CleansAlone(q)
  BY MetGrows DEF Inv, AloneOK
<1>2. /\ arg' = arg /\ arg[q].id \in Ids /\ arg[r].id \in Ids
      /\ pc'[q] = pc[q] /\ cloned'[q] = cloned[q] /\ cut'[q] = cut[q]
      /\ faults' >= faults /\ faults' \in Nat /\ faults \in Nat
  BY <1>1, StepFrame, ArgType
<1>3. CASE arg[q].id # arg[r].id
  <2>1. Mine(q)' = Mine(q) /\ snippet'[arg[q].id] = snippet[arg[q].id]
    BY <1>1, <1>2, <1>3, StepFrame DEF Mine
  <2>2. q \notin spent => q \notin spent'
    <3>1. \A p \in Runs : snippet[arg[r].id] = p => p # q
      BY <1>2, <1>3, NothingAssumption DEF Inv, SnippetsOK
    <3> QED BY <1>1, <3>1, StepShape
  <2>3. ProvisionsAlone(q)'
    BY ONLY <1>1, <1>2, <2>1, <2>2 DEF ProvisionsAlone, HasClone, Enrolled
  <2>4. CleansAlone(q)'
    BY ONLY <1>1, <1>2, <2>1 DEF CleansAlone, HasClone
  <2> QED BY <2>3, <2>4
<1>4. CASE arg[q].id = arg[r].id
  <2>1. ~Active(q)
    <3> SUFFICES ASSUME Active(q) PROVE FALSE
      OBVIOUS
    <3>1. ~Active(r)
      BY <1>4, MetGrows, <1>1 DEF Inv, MetOK
    <3> QED BY <1>1, <1>4, <3>1, Begins, InventoryMeets
  <2>2. HasClone(q)' => HasClone(q)
    <3>1. Mine(q) = Mine(r) /\ Mine(q)' = vm'[arg[r].id]
      BY <1>2, <1>4 DEF Mine
    <3>2. Cloned(r).by # q
      BY DEF Cloned
    <3> QED BY <1>1, <1>2, <3>1, <3>2, VmChanges DEF HasClone, TypeOK, Mine
  <2>3. pc[q] = "start" /\ q \notin spent => q \notin spent'
    <3>1. \A p \in Runs : snippet[arg[r].id] = p /\ pc[q] = "start" => p # q
      BY <1>2, NothingAssumption DEF Inv, SnippetsOK, SnippetAges, Trying, Cleaning
    <3> QED BY <1>1, <3>1, StepShape
  <2>4. pc[q] \notin Written \cup Cleaning \cup
            {"write", "write_over", "verify", "release", "unlink", "give_up", "reboot"}
    BY <2>1 DEF Active, Trying, Cleaning, Written
  <2>5. ProvisionsAlone(q)'
    BY ONLY <1>1, <1>2, <2>2, <2>3, <2>4 DEF ProvisionsAlone, Written, Cleaning
  <2>6. CleansAlone(q)'
    BY ONLY <1>1, <1>2, <2>2, <2>4 DEF CleansAlone, Written, Cleaning
  <2> QED BY <2>5, <2>6
<1> QED BY <1>3, <1>4

\* What it finds at its number is its own: no command of its provisioning is refused there.
LEMMA NeverRefused ==
    ASSUME Inv, NEW r \in Runs, ~met[r], Refused(r)
    PROVE  pc[r] \notin {"set", "boot", "verify", "release"} \cup Cleaning
<1>1. ProvisionsAlone(r) /\ CleansAlone(r)
  BY DEF Inv, AloneOK
<1>2. HasClone(r) => Owned(r) /\ Mine(r).name = arg[r].name
  BY ArgType DEF Inv, ClonesOK, HasClone, Owned, Mine
<1>3. r # NoRun
  BY NothingAssumption
<1> QED BY <1>1, <1>2, <1>3 DEF ProvisionsAlone, CleansAlone, HasClone, Enrolled, Refused, Stopped, Bootable,
              Verified, Written, Cleaning

LEMMA AloneOwn ==
    ASSUME Inv, NEW r \in Runs, Step(r), ~met[r]
    PROVE  ProvisionsAlone(r)' /\ CleansAlone(r)'
<1> USE DEF Inv
<1>1. ProvisionsAlone(r) /\ CleansAlone(r)
  BY DEF AloneOK
<1>2. /\ arg' = arg /\ arg[r].id \in Ids
      /\ faults' >= faults /\ faults' \in Nat /\ faults \in Nat
  BY StepFrame, ArgType
<1>3. /\ \A l : pc' = [pc EXCEPT ![r] = l] => pc'[r] = l
      /\ \A v : vm' = [vm EXCEPT ![arg[r].id] = v] => Mine(r)' = v
      /\ \A q : snippet' = [snippet EXCEPT ![arg[r].id] = q] => snippet'[arg[r].id] = q
      /\ vm' = vm => Mine(r)' = Mine(r)
  <2>1. \A l : pc' = [pc EXCEPT ![r] = l] => pc'[r] = l
    BY DEF TypeOK
  <2>2. \A v : vm' = [vm EXCEPT ![arg[r].id] = v] => Mine(r)' = v
    BY <1>2 DEF TypeOK, Mine
  <2>3. \A q : snippet' = [snippet EXCEPT ![arg[r].id] = q] => snippet'[arg[r].id] = q
    BY <1>2 DEF TypeOK
  <2>4. vm' = vm => Mine(r)' = Mine(r)
    BY <1>2 DEF Mine
  <2> QED BY <2>1, <2>2, <2>3, <2>4
<1>4. \A from, to : Goes(r, from, to) => pc[r] = from /\ pc'[r] = to
  BY <1>3 DEF Goes
<1> USE <1>1, <1>2, <1>3, <1>4 DEF ProvisionsAlone, CleansAlone, HasClone, Enrolled, Written, Cleaning, SetVm
<1>5. CASE Inventory(r) \/ WriteSnippet(r) \/ CheckOwned(r)
  BY <1>5 DEF Inventory, WriteSnippet, CheckOwned
<1>6. CASE QmStop(r, "stop", "destroy") \/ QmStop(r, "halt", "purge")
  <2>1. Mine(r) # NoVm /\ Mine(r)' = [Mine(r) EXCEPT !.up = FALSE] /\ Mine(r) \in Vms /\ Mine(r)' \in Vms
    <3>1. Mine(r) # NoVm /\ Mine(r)' = [Mine(r) EXCEPT !.up = FALSE]
      BY <1>2, <1>6 DEF QmStop, SetVm
    <3>2. Mine(r) \in Vms /\ [Mine(r) EXCEPT !.up = FALSE] \in Vms
      BY <3>1, VmTypes DEF Inv
    <3> QED BY ONLY <3>1, <3>2
  <2>2. Mine(r)'.by = Mine(r).by /\ ~Mine(r)'.up /\ Mine(r)' # NoVm
    BY <2>1, VmAssumption DEF Vms
  <2>3. UNCHANGED <<arg, cloned, cut, snippet, spent, faults>>
    BY <1>6 DEF QmStop
  <2> QED BY <1>6, <2>1, <2>2, <2>3 DEF QmStop
<1>7. CASE QmDestroy(r, "destroy", "clone") \/ QmDestroy(r, "purge", "give_up")
  BY <1>7 DEF QmDestroy
<1>8. CASE Clone(r)
  <2>1. Mine(r)' = Cloned(r) /\ Cloned(r) \in Vms /\ cloned'[r]
    BY <1>8, ClonedType DEF Clone, TypeOK
  <2>2. Mine(r)' # NoVm /\ Mine(r)'.by = r /\ ~Mine(r)'.up /\ Mine(r)'.boot = "none"
    <3>1. Cloned(r) # NoVm
      BY <2>1, VmAssumption
    <3> QED BY <2>1, <3>1 DEF Cloned
  <2> QED BY <1>8, <2>1, <2>2 DEF Clone
<1>9. CASE Configure(r)
  <2>1. Mine(r) # NoVm /\ Mine(r)' = [Mine(r) EXCEPT !.custom = TRUE] /\ Mine(r) \in Vms /\ Mine(r)' \in Vms
    BY <1>9, VmTypes DEF Configure
  <2>2. /\ Mine(r)'.by = Mine(r).by /\ Mine(r)'.up = Mine(r).up /\ Mine(r)'.boot = Mine(r).boot
        /\ Mine(r)'.custom /\ Mine(r)' # NoVm
    BY <2>1, VmAssumption DEF Vms
  <2> QED BY <1>9, <2>1, <2>2 DEF Configure
<1>10. CASE Start(r)
  <2>1. Mine(r) \in Vms /\ Mine(r).custom /\ Mine(r).boot = "none" /\ snippet[arg[r].id] = r /\ r \notin spent
    BY <1>10, VmTypes DEF Start
  <2>2. Mine(r)' = [Mine(r) EXCEPT !.up = TRUE, !.boot = "enrolled", !.token = r]
    BY <1>10, <2>1 DEF Start, FirstBoot
  <2>3. Mine(r)'.by = Mine(r).by /\ Enrolled(r)' /\ Mine(r)' # NoVm
    <3>1. PICK v \in Vms : v = Mine(r)
      BY <2>1
    <3>3. PICK w : w = Mine(r)'
      OBVIOUS
    <3>4. w = [v EXCEPT !.up = TRUE, !.boot = "enrolled", !.token = r]
      BY ONLY <2>2, <3>1, <3>3
    <3>5. w # NoVm /\ w.by = v.by /\ w.up /\ w.boot = "enrolled" /\ w.token = r
      BY ONLY <3>4, VmAssumption DEF Vms
    <3> QED BY ONLY <3>1, <3>3, <3>5 DEF Enrolled
  <2> QED BY <1>10, <2>3 DEF Start
<1>11. CASE Verify(r) \/ Reboot(r) \/ CleanupOwned(r)
  BY <1>11 DEF Verify, Reboot, CleanupOwned
<1>12. CASE Release(r, "release", "unlink") \/ Release(r, "retain", "give_up")
  <2>1. /\ Mine(r) # NoVm /\ Mine(r)' = [Mine(r) EXCEPT !.custom = FALSE]
        /\ Mine(r) \in Vms /\ Mine(r)' \in Vms
    BY <1>12, VmTypes DEF Release
  <2>2. /\ Mine(r)'.by = Mine(r).by /\ Mine(r)'.up = Mine(r).up /\ Mine(r)'.boot = Mine(r).boot
        /\ Mine(r)'.token = Mine(r).token /\ Mine(r)' # NoVm
    BY <2>1, VmAssumption DEF Vms
  <2> QED BY <1>12, <2>1, <2>2 DEF Release
<1>13. CASE Unlink(r)
  BY <1>13 DEF Unlink
<1>14. CASE Refused(r)
  <2>1. pc[r] \in {"check", "stop", "destroy", "clone", "reboot"}
    BY <1>14, NeverRefused DEF Refused
  <2>2. pc'[r] \in {"give_up", "unready"}
    BY <1>14, <2>1 DEF Refused, Raises
  <2> QED BY <1>14, <2>1, <2>2 DEF Refused, Raises
<1>15. CASE Fails(r)
  <2>1. faults' >= 1 /\ (faults >= 1 => faults' > 1) /\ arg' = arg /\ cloned' = cloned
    BY <1>15 DEF Fails, Fault
  <2>2. CASE UNCHANGED <<cut, vm>>
    BY <1>15, <2>1, <2>2 DEF Fails, Raises, Trying
  <2>3. CASE pc[r] = "clone" /\ cut'[r]
    BY <1>15, <2>1, <2>3 DEF Fails, Raises, Trying
  <2>4. cut' = [cut EXCEPT ![r] = TRUE] => cut'[r]
    BY DEF TypeOK
  <2> QED BY <1>15, <2>2, <2>3, <2>4 DEF Fails
<1>16. CASE Killed(r)
  BY <1>16 DEF Killed
<1> QED
  BY <1>5, <1>6, <1>7, <1>8, <1>9, <1>10, <1>11, <1>12, <1>13, <1>14, <1>15, <1>16
  DEF Step, Provision, Cleanup

LEMMA NextKeeps == Inv /\ [Next]_vars => Inv'
<1> SUFFICES ASSUME Inv, [Next]_vars PROVE Inv'
  OBVIOUS
<1>1. CASE UNCHANGED vars
  BY <1>1 DEF vars, Inv, TypeOK, ClonesOK, SnippetsOK, MetOK, AloneOK, Active, HasClone, Enrolled, Mine,
              ProvisionsAlone, CleansAlone
<1>2. ASSUME NEW r \in Runs, Step(r) PROVE Inv'
  <2>1. TypeOK /\ AloneOK'
    <3> SUFFICES ASSUME NEW q \in Runs, ~met'[q] PROVE ProvisionsAlone(q)' /\ CleansAlone(q)'
      BY DEF AloneOK, Inv
    <3>1. ~met[q]
      BY <1>2, MetGrows DEF Inv
    <3> QED BY <1>2, <3>1, AloneOwn, AloneOthers
  <2> QED BY <1>2, <2>1, TypeKeeps, ClonesKeep, MetKeeps, SnippetsKeep DEF Inv
<1> QED BY <1>1, <1>2 DEF Next, Step

THEOREM InvHolds == Spec => []Inv
BY InitInv, NextKeeps, PTL DEF Spec

\* Every variable keeps its type, and a VM behind a number always has a name that a run has.
THEOREM TypeCorrect == Spec => []TypeOK
<1>1. Inv => TypeOK
  BY DEF Inv
<1> QED BY <1>1, InvHolds, PTL

\* A report is the end of the reboot.
LEMMA Reports ==
    ASSUME TypeOK, NEW r \in Runs, Step(r), pc'[r] = "done"
    PROVE  Reboot(r)
<1>1. (Inventory(r) \/ WriteSnippet(r)) => pc'[r] # "done"
  BY DEF Inventory, WriteSnippet, Goes, TypeOK
<1>2. (CheckOwned(r) \/ QmStop(r, "stop", "destroy") \/ QmDestroy(r, "destroy", "clone")
        \/ Clone(r) \/ Configure(r) \/ Start(r) \/ Verify(r) \/ Release(r, "release", "unlink"))
      => pc'[r] # "done"
  BY DEF CheckOwned, QmStop, QmDestroy, Clone, Configure, Start, Verify, Release, Goes, TypeOK
<1>3. Unlink(r) => pc'[r] # "done"
  BY DEF Unlink, Goes, TypeOK
<1>4. Cleanup(r) => pc'[r] # "done"
  BY DEF Cleanup, CleanupOwned, QmStop, QmDestroy, Release, Goes, TypeOK
<1>5. (Refused(r) \/ Fails(r) \/ Killed(r)) => pc'[r] # "done"
  BY DEF Refused, Fails, Killed, Raises, TypeOK
<1> QED BY <1>1, <1>2, <1>3, <1>4, <1>5 DEF Step, Provision

Reported ==
    \A r \in Runs : pc[r] # "done" /\ pc'[r] = "done" /\ ~met[r] =>
        /\ Mine(r) # NoVm /\ Mine(r).by = r
        /\ Mine(r).boot = "enrolled" /\ Mine(r).token = r

\* Whatever killed and failed runs of the number left behind, a run that had it for itself
\* reports a VM of its own that enrolled with its own token (provision, verify_guest_hostname).
THEOREM ReportedIsItsOwn == Spec => DesktopIsItsOwn
<1>1. Inv /\ [Next]_vars => [Reported]_vars
  <2> SUFFICES ASSUME Inv, Next, NEW r \in Runs, pc[r] # "done", pc'[r] = "done", ~met[r]
               PROVE  HasClone(r) /\ Enrolled(r)
    BY DEF Reported, HasClone, Enrolled
  <2>1. PICK q \in Runs : Step(q)
    BY DEF Next, Step
  <2>2. q = r
    BY <2>1, StepFrame DEF Inv
  <2>3. pc[r] = "reboot"
    BY <2>1, <2>2, Reports DEF Inv, Reboot, Goes
  <2> QED BY <2>3 DEF Inv, AloneOK, ProvisionsAlone
<1> QED BY <1>1, InvHolds, PTL DEF Spec, DesktopIsItsOwn, Reported

\* One failure, wherever it hits a run that has its number for itself, leaves no clone behind
\* (the except clause of provision).
THEOREM FailedClonesGo == Spec => []CloneIsCleanedUp
<1>1. Inv => CloneIsCleanedUp
  BY DEF Inv, CloneIsCleanedUp, AloneOK, CleansAlone, HasClone, TypeOK
<1> QED BY <1>1, InvHolds, PTL

\* A token on disk belongs to a run that is at work or was killed (the finally of provision).
THEOREM TokensGo == Spec => []SnippetsGo
<1>1. Inv => SnippetsGo
  BY DEF Inv, SnippetsGo, SnippetsOK, SnippetAges
<1> QED BY <1>1, InvHolds, PTL
===============================================================================
