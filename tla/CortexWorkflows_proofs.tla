----------------------- MODULE CortexWorkflows_proofs -------------------------
(***************************************************************************)
(* Proofs about CortexWorkflows, for any number of windows and backups and *)
(* any number of faults: the types, and that no run ever stops a layer     *)
(* that was running before the run began and has not stopped since; and of *)
(* a quiet week, that the machine is left as it was found and that no task *)
(* loses its storage.                                                      *)
(***************************************************************************)
EXTENDS CortexWorkflows, TLAPS

Hosts == {"off", "boot", "locked", "on", "halting"}
Layers == Guests \cup {"host"}

(***************************************************************************)
(* The inductive invariant.  MachineOK is about the host and the history   *)
(* `ran`, FlagsOK about the runs' flags, CountsOK about the rest.          *)
(***************************************************************************)

\* Guests run only on a host that is on, and the stack only in a VM that runs.
MachineType ==
    /\ host \in Hosts
    /\ guests \in Autostarts
    /\ guests # {} => host = "on"
    /\ storage \in BOOLEAN /\ task \in BOOLEAN
    /\ ran \in [Runs -> SUBSET Layers]

\* A history holds only what runs, and is closed downwards: the host before its
\* guests, the VM before its stack.
HistoryOK ==
    \A q \in Runs : /\ ran[q] \subseteq Running
                    /\ ran[q] # {} => "host" \in ran[q]
                    /\ "stack" \in ran[q] => "vm" \in ran[q]

MachineOK == MachineType /\ HistoryOK

FlagsType ==
    /\ pc \in [Runs -> Places]
    /\ woke \in [Runs -> BOOLEAN] /\ started \in [Runs -> BOOLEAN] /\ tried \in [Runs -> BOOLEAN]

BackupPlaces == {"ctStatus", "ctStart", "waitPbs", "enable", "create", "poll"}

\* A flag that makes cleanup stop a layer is set only when the layer has been down since
\* the run began; a run past dropbear has seen the host down.
FlagOK(q) ==
    /\ pc[q] \in BackupPlaces => q \notin Windows
    /\ pc[q] = "idle" => ~woke[q] /\ ~started[q] /\ ~tried[q]
    /\ pc[q] \in {"unlock", "waitHost"} \/ woke[q] => "host" \notin ran[q]
    /\ started[q] => "vm" \notin ran[q]
    /\ q \in Windows /\ tried[q] => "stack" \notin ran[q]

FlagsOK == FlagsType /\ \A q \in Runs : FlagOK(q)

CountsOK ==
    /\ home \in SUBSET Layers
    /\ faults \in 0..MaxFaults
    /\ windows \in 0..MaxWindows

Inv == MachineOK /\ FlagsOK /\ CountsOK

Shrinks == \A q \in Runs : ran'[q] \subseteq ran[q]

-------------------------------------------------------------------------------
(* What a command does to the machine. *)

\* A new state of the host and its guests keeps MachineOK when the guests fit it, and
\* no history grows.
LEMMA BecomesKeeps ==
    ASSUME NEW h \in Hosts, NEW g \in Autostarts, g # {} => h = "on",
           MachineOK, Becomes(h, g)
    PROVE  MachineOK' /\ Shrinks
<1> DEFINE now == g \cup (IF h = "on" THEN {"host"} ELSE {})
<1>1. g \in SUBSET Guests /\ ("stack" \in g => "vm" \in g)
  BY DEF Autostarts
<1>2. now \in SUBSET Layers
  BY <1>1 DEF Layers
<1>3. /\ host' = h /\ guests' = g /\ storage' = storage /\ task' = task
      /\ ran' = [r \in Runs |-> ran[r] \cap now]
  BY DEF Becomes
<1>4. Running' = now
  BY <1>3 DEF Running
<1>5. \A q \in Runs : ran'[q] = ran[q] \cap now
  BY <1>3
<1>6. ran \in [Runs -> SUBSET Layers]
  BY DEF MachineOK, MachineType
<1>7. MachineType'
  <2>1. ran' \in [Runs -> SUBSET Layers]
    BY <1>3, <1>6
  <2> QED BY <1>3, <2>1 DEF MachineOK, MachineType
<1>8. HistoryOK'
  <2> SUFFICES ASSUME NEW q \in Runs
               PROVE  /\ ran'[q] \subseteq Running'
                      /\ ran'[q] # {} => "host" \in ran'[q]
                      /\ "stack" \in ran'[q] => "vm" \in ran'[q]
    BY DEF HistoryOK
  <2>1. /\ ran[q] # {} => "host" \in ran[q]
        /\ "stack" \in ran[q] => "vm" \in ran[q]
    BY DEF MachineOK, HistoryOK
  <2>2. now # {} => "host" \in now
    OBVIOUS
  <2>3. "stack" \in now => "vm" \in now
    BY <1>1 DEF Guests
  <2> HIDE DEF now
  <2> QED BY <1>4, <1>5, <2>1, <2>2, <2>3
<1>9. Shrinks
  <2> HIDE DEF now
  <2> QED BY <1>5 DEF Shrinks
<1> QED BY <1>7, <1>8, <1>9 DEF MachineOK

\* Nothing happens to the machine, or only to the storage and the task.
LEMMA QuietKeeps ==
    ASSUME MachineOK, UNCHANGED <<host, guests, ran>>,
           storage' \in BOOLEAN, task' \in BOOLEAN
    PROVE  MachineOK' /\ Shrinks
BY DEF MachineOK, MachineType, HistoryOK, Running, Shrinks

LEMMA StillKeeps ==
    ASSUME MachineOK, Still
    PROVE  MachineOK' /\ Shrinks
<1>1. UNCHANGED <<host, guests, ran>> /\ storage' = storage /\ task' = task
  BY DEF Still, Same
<1>2. storage' \in BOOLEAN /\ task' \in BOOLEAN
  BY <1>1 DEF MachineOK, MachineType
<1> QED BY <1>1, <1>2, QuietKeeps

LEMMA SwitchKeeps ==
    ASSUME MachineOK, NEW b \in BOOLEAN, SwitchStorage(b)
    PROVE  MachineOK' /\ Shrinks
<1>1. UNCHANGED <<host, guests, ran>> /\ storage' = b /\ task' = task
  BY DEF SwitchStorage
<1>2. storage' \in BOOLEAN /\ task' \in BOOLEAN
  BY <1>1 DEF MachineOK, MachineType
<1> QED BY <1>1, <1>2, QuietKeeps

\* The guests fit every state a run's command leaves the host in.
LEMMA Fits ==
    ASSUME MachineOK
    PROVE  /\ host \in Hosts /\ guests \in Autostarts /\ (guests # {} => host = "on")
           /\ {} \in Autostarts
           /\ guests \ {"stack"} \in Autostarts
           /\ guests \ {"vm", "stack"} \in Autostarts
           /\ guests \cup {"ct"} \in Autostarts
           /\ guests \cup {"vm"} \in Autostarts
           /\ guests \cup {"vm", "stack"} \in Autostarts
           /\ "vm" \in guests => guests \cup {"stack"} \in Autostarts
<1>1. host \in Hosts /\ guests \in Autostarts /\ (guests # {} => host = "on")
  BY DEF MachineOK, MachineType
<1> QED BY <1>1 DEF Autostarts, Guests
-------------------------------------------------------------------------------
(* The steps of a run: the machine, the counts, the histories' owners. *)

\* Every step of a run keeps MachineOK, and no history grows.
LEMMA StepMachine ==
    ASSUME Inv, NEW r \in Runs, Step(r)
    PROVE  MachineOK' /\ Shrinks
<1> USE DEF Inv
<1>f. /\ host \in Hosts /\ guests \in Autostarts /\ (guests # {} => host = "on")
      /\ {} \in Autostarts
      /\ guests \ {"stack"} \in Autostarts
      /\ guests \ {"vm", "stack"} \in Autostarts
      /\ guests \cup {"ct"} \in Autostarts
      /\ guests \cup {"vm"} \in Autostarts
      /\ guests \cup {"vm", "stack"} \in Autostarts
      /\ "vm" \in guests => guests \cup {"stack"} \in Autostarts
  BY Fits
<1>s. Still => MachineOK' /\ Shrinks
  BY StillKeeps
<1>b. ASSUME NEW h \in Hosts, NEW g \in Autostarts, g # {} => h = "on", Becomes(h, g)
      PROVE  MachineOK' /\ Shrinks
  BY <1>b, BecomesKeeps
<1>q. ASSUME ReadVault(r) \/ Look(r) \/ WaitDropbear(r) \/ WaitHost(r) \/ VmStatus(r)
             \/ WaitGuest(r) \/ AskStack(r) \/ Sleep(r) \/ CtStatus(r) \/ WaitPbs(r) \/ Poll(r)
      PROVE  MachineOK' /\ Shrinks
  <2>1. Still
    BY <1>q DEF ReadVault, Look, WaitDropbear, WaitHost, VmStatus, WaitGuest, AskStack, Sleep,
                CtStatus, WaitPbs, Poll, WaitFor, Refused
  <2> QED BY <2>1, <1>s
<1>1. CASE Wake(r)
  <2>1. Becomes(IF host = "off" THEN "boot" ELSE host, guests) \/ Still
    BY <1>1 DEF Wake, Checked
  <2>2. CASE host = "off"
    <3>1. Becomes("boot", guests) \/ Still
      BY <2>1, <2>2
    <3> QED BY <2>2, <3>1, <1>b, <1>s, <1>f DEF Hosts
  <2>3. CASE host # "off"
    <3>1. Becomes(host, guests) \/ Still
      BY <2>1, <2>3
    <3> QED BY <3>1, <1>b, <1>s, <1>f
  <2> QED BY <2>2, <2>3
<1>2. CASE Unlock(r)
  <2>1. (\E g \in Autostarts : Becomes("on", g)) \/ Still
    BY <1>2 DEF Unlock, Checked, Refused
  <2> QED BY <2>1, <1>b, <1>s DEF Hosts
<1>3. CASE VmStart(r)
  <2>1. \/ Still
        \/ (host = "on" /\ \E g \in {{"vm"}, {"vm", "stack"}} : Becomes(host, guests \cup g))
    BY <1>3 DEF VmStart, Checked, Refused
  <2>2. ASSUME host = "on", NEW g \in {{"vm"}, {"vm", "stack"}}, Becomes(host, guests \cup g)
        PROVE  MachineOK' /\ Shrinks
    <3>1. guests \cup g \in Autostarts
      BY <1>f
    <3> QED BY <2>2, <3>1, <1>b DEF Hosts
  <2> QED BY <2>1, <2>2, <1>s
<1>4. CASE ComposeUp(r)
  <2>1. Still \/ ("vm" \in guests /\ Becomes(host, guests \cup {"stack"}))
    BY <1>4 DEF ComposeUp, Checked, Refused
  <2> QED BY <2>1, <1>b, <1>s, <1>f
<1>5. CASE ComposeDown(r)
  <2>1. Still \/ Becomes(host, guests \ {"stack"})
    BY <1>5 DEF ComposeDown, Unchecked
  <2> QED BY <2>1, <1>b, <1>s, <1>f
<1>6. CASE VmDown(r)
  <2>1. Still \/ Becomes(host, guests \ {"vm", "stack"})
    BY <1>6 DEF VmDown, Unchecked
  <2> QED BY <2>1, <1>b, <1>s, <1>f
<1>7. CASE CtStart(r)
  <2>1. Still \/ (host = "on" /\ Becomes(host, guests \cup {"ct"}))
    BY <1>7 DEF CtStart, Checked, Refused
  <2> QED BY <2>1, <1>b, <1>s, <1>f
<1>8. CASE EnableStorage(r)
  <2>1. Still \/ SwitchStorage(TRUE)
    BY <1>8 DEF EnableStorage, Checked
  <2> QED BY <2>1, <1>s, SwitchKeeps
<1>9. CASE CreateTask(r)
  <2>1. UNCHANGED <<host, guests, ran>> /\ storage' = storage /\ task' \in {TRUE, task}
    BY <1>9 DEF CreateTask
  <2>2. storage' \in BOOLEAN /\ task' \in BOOLEAN
    BY <2>1 DEF MachineOK, MachineType
  <2> QED BY <2>1, <2>2, QuietKeeps
<1>10. CASE DisableStorage(r)
  <2>1. Still \/ SwitchStorage(FALSE)
    BY <1>10 DEF DisableStorage, Unchecked
  <2> QED BY <2>1, <1>s, SwitchKeeps
<1>11. CASE HostDown(r)
  <2>1. Still \/ Becomes("halting", {})
    BY <1>11 DEF HostDown, Unchecked
  <2> QED BY <2>1, <1>b, <1>s, <1>f DEF Hosts
<1>12. CASE Exit(r)
  <2>1. /\ UNCHANGED <<host, guests, storage, task>>
        /\ ran' = [ran EXCEPT ![r] = {}]
    BY <1>12 DEF Exit, Ends, Same
  <2>2. ran \in [Runs -> SUBSET Layers]
    BY DEF MachineOK, MachineType
  <2>3. \A q \in Runs : ran'[q] = IF q = r THEN {} ELSE ran[q]
    BY <2>1, <2>2
  <2>4. ran' \in [Runs -> SUBSET Layers]
    BY <2>1, <2>2
  <2> QED BY <2>1, <2>3, <2>4 DEF MachineOK, MachineType, HistoryOK, Running, Shrinks
<1> QED BY <1>q, <1>1, <1>2, <1>3, <1>4, <1>5, <1>6, <1>7, <1>8, <1>9, <1>10, <1>11, <1>12
        DEF Step, WindowStep, BackupStep

-------------------------------------------------------------------------------
(* The steps of a run: its flags and the counts. *)

\* A step of r that keeps r's own flags honest keeps everyone's, as no history grows.
LEMMA FlagsKeep ==
    ASSUME FlagsOK, Shrinks, NEW r \in Runs, NEW l \in Places,
           NEW w \in BOOLEAN, NEW s \in BOOLEAN, NEW t \in BOOLEAN,
           pc' = [pc EXCEPT ![r] = l], woke' = [woke EXCEPT ![r] = w],
           started' = [started EXCEPT ![r] = s], tried' = [tried EXCEPT ![r] = t],
           l \in BackupPlaces => r \notin Windows,
           l = "idle" => ~w /\ ~s /\ ~t,
           l \in {"unlock", "waitHost"} \/ w => "host" \notin ran[r],
           s => "vm" \notin ran[r],
           r \in Windows /\ t => "stack" \notin ran[r]
    PROVE  FlagsOK'
<1>1. FlagsType
  BY DEF FlagsOK
<1>2. /\ pc'[r] = l /\ woke'[r] = w /\ started'[r] = s /\ tried'[r] = t
      /\ \A q \in Runs \ {r} : /\ pc'[q] = pc[q] /\ woke'[q] = woke[q]
                               /\ started'[q] = started[q] /\ tried'[q] = tried[q]
  BY <1>1 DEF FlagsType
<1>3. FlagsType'
  BY <1>1 DEF FlagsType
<1>4. ASSUME NEW q \in Runs PROVE FlagOK(q)'
  <2>1. FlagOK(q) /\ ran'[q] \subseteq ran[q]
    BY DEF FlagsOK, Shrinks
  <2>2. CASE q = r
    BY <1>2, <2>1, <2>2 DEF FlagOK
  <2>3. CASE q # r
    BY <1>2, <2>1, <2>3 DEF FlagOK
  <2> QED BY <2>2, <2>3
<1> QED BY <1>3, <1>4 DEF FlagsOK

Plain == Places \ {"idle", "unlock", "waitHost"}

\* The common case: the run goes on to a plain place, its flags as they were.
LEMMA FlagsSame ==
    ASSUME FlagsOK, Shrinks, NEW r \in Runs, NEW l \in Plain,
           pc' = [pc EXCEPT ![r] = l], UNCHANGED flags,
           l \in BackupPlaces => r \notin Windows
    PROVE  FlagsOK'
<1>1. FlagsType /\ FlagOK(r)
  BY DEF FlagsOK
<1>2. woke[r] \in BOOLEAN /\ started[r] \in BOOLEAN /\ tried[r] \in BOOLEAN
  BY <1>1 DEF FlagsType
<1>3. /\ woke' = [woke EXCEPT ![r] = woke[r]]
      /\ started' = [started EXCEPT ![r] = started[r]]
      /\ tried' = [tried EXCEPT ![r] = tried[r]]
  BY <1>1 DEF FlagsType, flags
<1>4. l \in Places /\ l # "idle" /\ l \notin {"unlock", "waitHost"}
  BY DEF Plain
<1> QED BY <1>1, <1>2, <1>3, <1>4, FlagsKeep DEF FlagOK

\* A layer that is down now is in no history.
LEMMA DownIsOut ==
    ASSUME MachineOK, NEW q \in Runs
    PROVE  /\ host # "on" => ran[q] = {}
           /\ "vm" \notin guests => "vm" \notin ran[q] /\ "stack" \notin ran[q]
           /\ "stack" \notin guests => "stack" \notin ran[q]
<1>1. guests \in SUBSET Guests /\ (guests # {} => host = "on") /\ ("stack" \in guests => "vm" \in guests)
  BY DEF MachineOK, MachineType, Autostarts
<1>2. ran[q] \subseteq Running
  BY DEF MachineOK, HistoryOK
<1> QED BY <1>1, <1>2 DEF Running, Guests

\* Every step of a run keeps the flags honest.
LEMMA StepFlags ==
    ASSUME Inv, NEW r \in Runs, Step(r), Shrinks
    PROVE  FlagsOK'
<1> USE DEF Inv
<1>t. FlagsType /\ FlagOK(r)
  BY DEF FlagsOK
<1>u. /\ pc[r] \in Places /\ woke[r] \in BOOLEAN /\ started[r] \in BOOLEAN /\ tried[r] \in BOOLEAN
      /\ woke = [woke EXCEPT ![r] = woke[r]]
      /\ started = [started EXCEPT ![r] = started[r]]
      /\ tried = [tried EXCEPT ![r] = tried[r]]
      /\ \A l : pc' = [pc EXCEPT ![r] = l] => pc'[r] = l
  BY <1>t DEF FlagsType
<1>g. /\ FirstGuest(r) \in Plain
      /\ FirstGuest(r) \in BackupPlaces => r \notin Windows
  BY DEF FirstGuest, Plain, Places, BackupPlaces
<1>p. ASSUME NEW l \in Plain, pc' = [pc EXCEPT ![r] = l], UNCHANGED flags,
             l \in BackupPlaces => r \notin Windows
      PROVE  FlagsOK'
  BY <1>p, FlagsSame
<1>o. {"vault", "wake", "look", "dropbear", "vmStart", "waitGuest", "ps", "up", "sleep", "clean", "vmDown", "hostDown", "exit"}
        \subseteq Plain \ BackupPlaces
  BY DEF Plain, Places, BackupPlaces
<1>1. CASE ReadVault(r)
  BY <1>1, <1>p, <1>o DEF ReadVault, Goto, Raises
<1>2. CASE Look(r)
  BY <1>2, <1>p, <1>o, <1>g DEF Look, Goto
<1>3. CASE Wake(r)
  BY <1>3, <1>p, <1>o DEF Wake, Checked, Goto, Raises
<1>4. CASE WaitDropbear(r)
  <2>1. CASE Raises(r)
    BY <1>4, <2>1, <1>p, <1>o DEF WaitDropbear, Goto, Raises
  <2>2. CASE host = "locked" /\ Goto(r, "unlock")
    <3>1. "host" \notin ran[r]
      BY <2>2, DownIsOut
    <3>2. woke' = [woke EXCEPT ![r] = woke[r]] /\ started' = [started EXCEPT ![r] = started[r]]
          /\ tried' = [tried EXCEPT ![r] = tried[r]]
      BY <1>4, <1>u DEF WaitDropbear, flags
    <3>3. pc' = [pc EXCEPT ![r] = "unlock"] /\ "unlock" \in Places /\ "unlock" \notin BackupPlaces
      BY <2>2 DEF Goto, Places, BackupPlaces
    <3> QED BY <3>1, <3>2, <3>3, <1>t, <1>u, FlagsKeep DEF FlagOK
  <2> QED BY <1>4, <2>1, <2>2 DEF WaitDropbear, WaitFor, Refused
<1>5. CASE Unlock(r)
  <2>1. CASE Raises(r)
    BY <1>5, <2>1, <1>p, <1>o DEF Unlock, Goto, Raises
  <2>2. CASE Goto(r, "waitHost")
    <3>1. "host" \notin ran[r]
      BY <1>5, <1>t DEF Unlock, FlagOK
    <3>2. woke' = [woke EXCEPT ![r] = woke[r]] /\ started' = [started EXCEPT ![r] = started[r]]
          /\ tried' = [tried EXCEPT ![r] = tried[r]]
      BY <1>5, <1>u DEF Unlock, flags
    <3>3. pc' = [pc EXCEPT ![r] = "waitHost"] /\ "waitHost" \in Places /\ "waitHost" \notin BackupPlaces
      BY <2>2 DEF Goto, Places, BackupPlaces
    <3> QED BY <3>1, <3>2, <3>3, <1>t, <1>u, FlagsKeep DEF FlagOK
  <2> QED BY <1>5, <2>1, <2>2 DEF Unlock, Checked, Refused
<1>6. CASE WaitHost(r)
  <2>1. "host" \notin ran[r]
    BY <1>6, <1>t DEF WaitHost, FlagOK
  <2>2. PICK l \in {FirstGuest(r), "clean"} : pc' = [pc EXCEPT ![r] = l]
    BY <1>6 DEF WaitHost, WaitFor, Refused, Raises, Goto
  <2>3. l \in Places /\ l # "idle" /\ l \notin {"unlock", "waitHost"} /\ (l \in BackupPlaces => r \notin Windows)
    BY <1>g, <1>o DEF Plain
  <2>4. /\ woke' = [woke EXCEPT ![r] = (l = FirstGuest(r))]
        /\ started' = [started EXCEPT ![r] = started[r]] /\ tried' = [tried EXCEPT ![r] = tried[r]]
    BY <1>6, <2>2, <1>u DEF WaitHost
  <2>5. (l = FirstGuest(r)) \in BOOLEAN
    OBVIOUS
  <2> QED BY <2>1, <2>2, <2>3, <2>4, <2>5, <1>t, <1>u, FlagsKeep DEF FlagOK
<1>7. CASE VmStatus(r)
  BY <1>7, <1>p, <1>o DEF VmStatus, Goto
<1>8. CASE VmStart(r)
  <2>2. PICK l \in {"waitGuest", "clean"} :
            pc' = [pc EXCEPT ![r] = l] /\ (l = "waitGuest" => "vm" \notin guests)
    BY <1>8 DEF VmStart, Checked, Refused, Raises, Goto
  <2>3. l \in Places /\ l # "idle" /\ l \notin {"unlock", "waitHost"} /\ l \notin BackupPlaces
    BY <1>o DEF Plain
  <2>4. /\ started' = [started EXCEPT ![r] = (l = "waitGuest")]
        /\ woke' = [woke EXCEPT ![r] = woke[r]] /\ tried' = [tried EXCEPT ![r] = tried[r]]
    BY <1>8, <2>2, <1>u DEF VmStart
  <2>5. l = "waitGuest" => "vm" \notin ran[r]
    BY <2>2, DownIsOut
  <2>6. (l = "waitGuest") \in BOOLEAN
    OBVIOUS
  <2> QED BY <2>2, <2>3, <2>4, <2>5, <2>6, <1>t, <1>u, FlagsKeep DEF FlagOK
<1>9. CASE WaitGuest(r)
  BY <1>9, <1>p, <1>o DEF WaitGuest, WaitFor, Refused, Raises, Goto
<1>10. CASE AskStack(r)
  <2>2. PICK l \in {"up", "clean"} : pc' = [pc EXCEPT ![r] = l]
    BY <1>10 DEF AskStack, Refused, Raises, Goto
  <2>3. l \in Places /\ l # "idle" /\ l \notin {"unlock", "waitHost"} /\ l \notin BackupPlaces
    BY <1>o DEF Plain
  <2>4. /\ tried' = [tried EXCEPT ![r] = (l = "up" /\ "stack" \notin guests)]
        /\ woke' = [woke EXCEPT ![r] = woke[r]] /\ started' = [started EXCEPT ![r] = started[r]]
    BY <1>10, <2>2, <1>u DEF AskStack
  <2>5. (l = "up" /\ "stack" \notin guests) => "stack" \notin ran[r]
    BY DownIsOut
  <2>6. (l = "up" /\ "stack" \notin guests) \in BOOLEAN
    OBVIOUS
  <2> QED BY <2>2, <2>3, <2>4, <2>5, <2>6, <1>t, <1>u, FlagsKeep DEF FlagOK
<1>11. CASE ComposeUp(r)
  BY <1>11, <1>p, <1>o DEF ComposeUp, Checked, Refused, Raises, Goto
<1>12. CASE Sleep(r)
  BY <1>12, <1>p, <1>o DEF Sleep, Goto
<1>13. CASE ComposeDown(r)
  BY <1>13, <1>p, <1>o DEF ComposeDown, Unchecked, Goto
<1>14. CASE VmDown(r)
  BY <1>14, <1>p, <1>o DEF VmDown, Unchecked, Goto
<1>b. pc[r] \in BackupPlaces => r \notin Windows
  BY <1>t DEF FlagOK
<1>c. BackupPlaces \subseteq Plain
  BY DEF Plain, Places, BackupPlaces
<1>15. CASE CtStatus(r)
  <2>1. \E l \in {"waitPbs", "ctStart"} : pc' = [pc EXCEPT ![r] = l]
    BY <1>15 DEF CtStatus, Goto
  <2> QED BY <1>15, <2>1, <1>p, <1>b, <1>c DEF CtStatus, BackupPlaces
<1>16. CASE CtStart(r)
  <2>1. \E l \in {"waitPbs", "clean"} : pc' = [pc EXCEPT ![r] = l]
    BY <1>16 DEF CtStart, Checked, Refused, Raises, Goto
  <2> QED BY <1>16, <2>1, <1>p, <1>b, <1>c, <1>o DEF CtStart, BackupPlaces
<1>17. CASE WaitPbs(r)
  <2>1. \E l \in {"enable", "clean"} : pc' = [pc EXCEPT ![r] = l]
    BY <1>17 DEF WaitPbs, WaitFor, Refused, Raises, Goto
  <2> QED BY <1>17, <2>1, <1>p, <1>b, <1>c, <1>o DEF WaitPbs, BackupPlaces
<1>18. CASE EnableStorage(r)
  <2>1. PICK l \in {"create", "clean"} : pc' = [pc EXCEPT ![r] = l]
    BY <1>18 DEF EnableStorage, Checked, Raises, Goto
  <2>2. l \in Places /\ l # "idle" /\ l \notin {"unlock", "waitHost"} /\ r \notin Windows
    BY <1>18, <1>b, <1>c, <1>o DEF EnableStorage, BackupPlaces, Plain
  <2>3. /\ tried' = [tried EXCEPT ![r] = TRUE]
        /\ woke' = [woke EXCEPT ![r] = woke[r]] /\ started' = [started EXCEPT ![r] = started[r]]
    BY <1>18, <1>u DEF EnableStorage
  <2> QED BY <2>1, <2>2, <2>3, <1>t, <1>u, FlagsKeep DEF FlagOK
<1>19. CASE CreateTask(r)
  <2>1. \E l \in {"poll", "clean"} : pc' = [pc EXCEPT ![r] = l]
    BY <1>19 DEF CreateTask, Raises, Goto
  <2> QED BY <1>19, <2>1, <1>p, <1>b, <1>c, <1>o DEF CreateTask, BackupPlaces
<1>20. CASE Poll(r)
  BY <1>20, <1>p, <1>o DEF Poll, Raises, Goto
<1>21. CASE DisableStorage(r)
  BY <1>21, <1>p, <1>o DEF DisableStorage, Unchecked, Goto
<1>22. CASE HostDown(r)
  BY <1>22, <1>p, <1>o DEF HostDown, Unchecked, Goto
<1>23. CASE Exit(r)
  <2>1. /\ pc' = [pc EXCEPT ![r] = "idle"] /\ "idle" \in Places /\ "idle" \notin BackupPlaces
        /\ woke' = [woke EXCEPT ![r] = FALSE]
        /\ started' = [started EXCEPT ![r] = FALSE]
        /\ tried' = [tried EXCEPT ![r] = FALSE]
    BY <1>23 DEF Exit, Ends, Goto, Places, BackupPlaces
  <2> QED BY <2>1, FlagsKeep
<1> QED BY <1>1, <1>2, <1>3, <1>4, <1>5, <1>6, <1>7, <1>8, <1>9, <1>10, <1>11, <1>12, <1>13, <1>14,
           <1>15, <1>16, <1>17, <1>18, <1>19, <1>20, <1>21, <1>22, <1>23
        DEF Step, WindowStep, BackupStep

\* A step of a run is at most one fault, and starts no window.
LEMMA StepFaults ==
    ASSUME NEW r \in Runs, Step(r)
    PROVE  UNCHANGED <<home, windows>> /\ (UNCHANGED faults \/ Fault)
<1>1. CASE ReadVault(r) \/ Look(r) \/ Wake(r) \/ WaitDropbear(r) \/ Unlock(r) \/ WaitHost(r)
  BY <1>1 DEF ReadVault, Look, Wake, WaitDropbear, Unlock, WaitHost, WaitFor, Checked, Refused
<1>2. CASE WindowStep(r)
  BY <1>2 DEF WindowStep, VmStatus, VmStart, WaitGuest, AskStack, ComposeUp, Sleep, ComposeDown,
              VmDown, WaitFor, Checked, Unchecked, Refused
<1>3. CASE BackupStep(r)
  BY <1>3 DEF BackupStep, CtStatus, CtStart, WaitPbs, EnableStorage, CreateTask, Poll,
              DisableStorage, WaitFor, Checked, Unchecked, Refused
<1>4. CASE HostDown(r) \/ Exit(r)
  BY <1>4 DEF HostDown, Exit, Ends, Unchecked
<1> QED BY <1>1, <1>2, <1>3, <1>4 DEF Step

\* Every step of a run leaves the counts in their bounds.
LEMMA StepCounts ==
    ASSUME Inv, NEW r \in Runs, Step(r)
    PROVE  CountsOK'
BY StepFaults, BoundsAssumption DEF Inv, CountsOK, Fault

-------------------------------------------------------------------------------
(* The rest of Next, and the theorems. *)

LEMMA InitInv == Init => Inv
<1> SUFFICES ASSUME Init PROVE Inv
  OBVIOUS
<1>1. host \in {"off", "on"} /\ guests \in Autostarts /\ (guests # {} => host = "on")
  BY DEF Init, Autostarts, Guests
<1>2. \A q \in Runs : ran[q] = {}
  BY DEF Init
<1>3. MachineOK
  BY <1>1, <1>2 DEF Init, MachineOK, MachineType, HistoryOK, Hosts, Running
<1>4. FlagsOK
  BY DEF Init, FlagsOK, FlagsType, FlagOK, Places, BackupPlaces
<1>5. home \in SUBSET Layers
  BY <1>1 DEF Init, Running, Layers, Autostarts
<1> QED BY <1>3, <1>4, <1>5, BoundsAssumption DEF Init, Inv, CountsOK

\* Nobody's flags change when only the machine does.
LEMMA FlagsRest ==
    ASSUME FlagsOK, Shrinks, UNCHANGED <<pc, flags>>
    PROVE  FlagsOK'
BY DEF FlagsOK, FlagsType, FlagOK, Shrinks, flags

LEMMA BeginKeeps ==
    ASSUME Inv, NEW r \in Runs, Begin(r)
    PROVE  Inv'
<1>1. PICK l \in {"look", "vault"} : pc' = [pc EXCEPT ![r] = l]
  BY DEF Begin, Goto
<1>2. MachineType /\ HistoryOK /\ FlagsType /\ (\A q \in Runs : FlagOK(q)) /\ CountsOK
  BY DEF Inv, MachineOK, FlagsOK
<1>3. /\ pc[r] = "idle" /\ ran' = [ran EXCEPT ![r] = Running]
      /\ UNCHANGED <<host, guests, storage, task, woke, started, tried, home, faults>>
      /\ UNCHANGED windows \/ (windows < MaxWindows /\ windows' = windows + 1)
  BY DEF Begin, Same, flags
<1>4. Running \in SUBSET Layers /\ Running' = Running
  BY <1>2, <1>3 DEF Running, MachineType, Autostarts, Layers
<1>5. ran'[r] = Running /\ \A q \in Runs \ {r} : ran'[q] = ran[q]
  BY <1>2, <1>3 DEF MachineType
<1>6. pc'[r] = l /\ \A q \in Runs \ {r} : pc'[q] = pc[q]
  BY <1>1, <1>2 DEF FlagsType
<1>7. MachineType'
  BY <1>2, <1>3, <1>4 DEF MachineType
<1>8. HistoryOK'
  <2>1. (Running # {} => "host" \in Running) /\ ("stack" \in Running => "vm" \in Running)
    BY <1>2 DEF MachineType, Running, Autostarts, Guests
  <2> QED BY <1>2, <1>4, <1>5, <2>1 DEF HistoryOK
<1>9. FlagsType'
  BY <1>1, <1>2, <1>3 DEF FlagsType, Places
<1>10. ASSUME NEW q \in Runs PROVE FlagOK(q)'
  <2>1. CASE q = r
    BY <1>2, <1>3, <1>6, <2>1 DEF FlagOK, BackupPlaces
  <2>2. CASE q # r
    BY <1>2, <1>3, <1>5, <1>6, <2>2 DEF FlagOK
  <2> QED BY <2>1, <2>2
<1>11. CountsOK'
  BY <1>2, <1>3, BoundsAssumption DEF CountsOK
<1> QED BY <1>7, <1>8, <1>9, <1>10, <1>11 DEF Inv, MachineOK, FlagsOK

LEMMA KillKeeps ==
    ASSUME Inv, NEW r \in Runs, Kill(r)
    PROVE  Inv'
<1>1. /\ UNCHANGED <<host, guests, storage, task, home, windows>> /\ Fault
      /\ ran' = [ran EXCEPT ![r] = {}]
      /\ pc' = [pc EXCEPT ![r] = "idle"]
      /\ woke' = [woke EXCEPT ![r] = FALSE]
      /\ started' = [started EXCEPT ![r] = FALSE]
      /\ tried' = [tried EXCEPT ![r] = FALSE]
  BY DEF Kill, Ends, Same, Goto
<1>2. ran \in [Runs -> SUBSET Layers]
  BY DEF Inv, MachineOK, MachineType
<1>3. \A q \in Runs : ran'[q] = IF q = r THEN {} ELSE ran[q]
  BY <1>1, <1>2
<1>4. MachineOK' /\ Shrinks
  <2>1. ran' \in [Runs -> SUBSET Layers]
    BY <1>1, <1>2
  <2> QED BY <1>1, <1>3, <2>1 DEF Inv, MachineOK, MachineType, HistoryOK, Running, Shrinks
<1>5. FlagsOK'
  <2>1. "idle" \in Places /\ "idle" \notin BackupPlaces
    BY DEF Places, BackupPlaces
  <2> QED BY <1>1, <1>4, <2>1, FlagsKeep DEF Inv
<1>6. CountsOK'
  BY <1>1, BoundsAssumption DEF Inv, CountsOK, Fault
<1> QED BY <1>4, <1>5, <1>6 DEF Inv

LEMMA WorldKeeps ==
    ASSUME Inv, Boot \/ PowerOff \/ TaskEnds \/ Person
    PROVE  Inv'
<1> USE DEF Inv
<1>1. UNCHANGED <<pc, flags, home, windows>> /\ (UNCHANGED faults \/ Fault)
  BY DEF Boot, PowerOff, TaskEnds, Person
<1>2. MachineOK' /\ Shrinks
  <2>f. {} \in Autostarts
    BY Fits
  <2>1. CASE Boot \/ PowerOff
    BY <2>1, <2>f, BecomesKeeps DEF Boot, PowerOff, Hosts
  <2>2. CASE TaskEnds
    <3>1. UNCHANGED <<host, guests, ran>> /\ storage' = storage /\ task' = FALSE
      BY <2>2 DEF TaskEnds
    <3>2. storage' \in BOOLEAN
      BY <3>1 DEF MachineOK, MachineType
    <3> QED BY <3>1, <3>2, QuietKeeps
  <2>3. CASE Person
    <3>1. CASE SwitchStorage(~storage)
      <4>1. (~storage) \in BOOLEAN
        OBVIOUS
      <4> QED BY <3>1, <4>1, SwitchKeeps
    <3>2. CASE Becomes("boot", {}) \/ Becomes("halting", {})
      BY <3>2, <2>f, BecomesKeeps DEF Hosts
    <3>3. CASE \E g \in Autostarts : Becomes("on", g)
      BY <3>3, BecomesKeeps DEF Hosts
    <3> QED BY <2>3, <3>1, <3>2, <3>3 DEF Person
  <2> QED BY <2>1, <2>2, <2>3
<1>3. FlagsOK'
  BY <1>1, <1>2, FlagsRest
<1>4. CountsOK'
  BY <1>1, BoundsAssumption DEF CountsOK, Fault
<1> QED BY <1>2, <1>3, <1>4

LEMMA NextKeeps == Inv /\ [Next]_vars => Inv'
<1> SUFFICES ASSUME Inv, [Next]_vars PROVE Inv'
  OBVIOUS
<1>1. ASSUME NEW r \in Runs, Step(r) PROVE Inv'
  <2>1. MachineOK' /\ Shrinks
    BY <1>1, StepMachine
  <2> QED BY <1>1, <2>1, StepFlags, StepCounts DEF Inv
<1>2. CASE UNCHANGED vars
  BY <1>2 DEF vars, Inv, MachineOK, MachineType, HistoryOK, Running, FlagsOK, FlagsType, FlagOK, CountsOK
<1> QED BY <1>1, <1>2, BeginKeeps, KillKeeps, WorldKeeps DEF Next

THEOREM InvHolds == Spec => []Inv
BY InitInv, NextKeeps, PTL DEF Spec

\* Every variable keeps its type, and guests run only on a host that is on.
THEOREM TypeCorrect == Spec => []TypeOK
<1>1. Inv => TypeOK
  BY DEF Inv, MachineOK, MachineType, FlagsOK, FlagsType, CountsOK, TypeOK, Hosts, Layers
<1> QED BY <1>1, InvHolds, PTL

\* No step of a run stops what has been running since before the run began: the
\* machine half of cleanup, where each flag speaks for its layer.
LEMMA StepLeaves ==
    ASSUME Inv, NEW r \in Runs, Step(r)
    PROVE  ran[r] \subseteq Running'
<1> USE DEF Inv
<1>t. FlagOK(r) /\ ran[r] \subseteq Running /\ (ran[r] # {} => "host" \in ran[r])
      /\ ("stack" \in ran[r] => "vm" \in ran[r])
  BY DEF FlagsOK, MachineOK, HistoryOK
<1>s. UNCHANGED <<host, guests>> => ran[r] \subseteq Running'
  BY <1>t DEF Running
<1>b. ASSUME NEW h, NEW g, Becomes(h, g), ran[r] \subseteq g \cup (IF h = "on" THEN {"host"} ELSE {})
      PROVE  ran[r] \subseteq Running'
  BY <1>b DEF Becomes, Running
<1>1. CASE Wake(r) \/ Unlock(r) \/ HostDown(r)
  <2>1. CASE Wake(r)
    <3>1. (UNCHANGED <<host, guests>>) \/ (host = "off" /\ guests' = guests)
      BY <2>1 DEF Wake, Checked, Becomes, Still, Same
    <3>2. host = "off" => ran[r] = {}
      BY DownIsOut
    <3> QED BY <3>1, <3>2, <1>s
  <2>2. CASE Unlock(r)
    <3>1. (UNCHANGED <<host, guests>>) \/ host = "locked"
      BY <2>2 DEF Unlock, Checked, Refused, Still, Same
    <3>2. host = "locked" => ran[r] = {}
      BY DownIsOut
    <3> QED BY <3>1, <3>2, <1>s
  <2>3. CASE HostDown(r)
    <3>1. (UNCHANGED <<host, guests>>) \/ woke[r]
      BY <2>3 DEF HostDown, Unchecked, Still, Same
    <3> QED BY <3>1, <1>s, <1>t DEF FlagOK
  <2> QED BY <1>1, <2>1, <2>2, <2>3
<1>2. CASE VmStart(r) \/ ComposeUp(r) \/ CtStart(r)
  <2>1. host' = host /\ guests \subseteq guests'
    BY <1>2 DEF VmStart, ComposeUp, CtStart, Checked, Refused, Becomes, Still, Same
  <2> QED BY <2>1, <1>t DEF Running
<1>3. CASE ComposeDown(r)
  <2>1. (UNCHANGED <<host, guests>>)
        \/ (r \in Windows /\ tried[r] /\ host' = host /\ guests' = guests \ {"stack"})
    BY <1>3 DEF ComposeDown, Unchecked, Becomes, Still, Same
  <2> QED BY <2>1, <1>s, <1>t DEF FlagOK, Running
<1>4. CASE VmDown(r)
  <2>1. (UNCHANGED <<host, guests>>)
        \/ (started[r] /\ host' = host /\ guests' = guests \ {"vm", "stack"})
    BY <1>4 DEF VmDown, Unchecked, Becomes, Still, Same
  <2> QED BY <2>1, <1>s, <1>t DEF FlagOK, Running
<1>5. CASE \/ ReadVault(r) \/ Look(r) \/ WaitDropbear(r) \/ WaitHost(r) \/ VmStatus(r) \/ WaitGuest(r)
           \/ AskStack(r) \/ Sleep(r) \/ CtStatus(r) \/ WaitPbs(r) \/ EnableStorage(r)
           \/ CreateTask(r) \/ Poll(r) \/ DisableStorage(r) \/ Exit(r)
  <2>1. UNCHANGED <<host, guests>>
    BY <1>5 DEF ReadVault, Look, WaitDropbear, WaitHost, VmStatus, WaitGuest, AskStack, Sleep, CtStatus,
                WaitPbs, EnableStorage, CreateTask, Poll, DisableStorage, Exit, Ends, WaitFor, Refused,
                Checked, Unchecked, SwitchStorage, Still, Same
  <2> QED BY <2>1, <1>s
<1> QED BY <1>1, <1>2, <1>3, <1>4, <1>5 DEF Step, WindowStep, BackupStep

\* Whatever is lost, killed or done by others, a run never stops a layer that has been
\* running since before the run began.
THEOREM NothingFoundIsStopped == Spec => FoundIsLeft
<1>1. Inv => \A r \in Runs : Step(r) => ran[r] \subseteq Running'
  BY StepLeaves
<1>2. Inv /\ [Next]_vars => [\A r \in Runs : Step(r) => ran[r] \subseteq Running']_vars
  BY <1>1
<1> QED BY <1>2, InvHolds, PTL DEF Spec, FoundIsLeft
-------------------------------------------------------------------------------
(***************************************************************************)
(* A quiet week: nothing unplanned happens.  The second invariant says who *)
(* still owes it to the machine to take down a layer that was not there at *)
(* first, and that nobody means to take down a layer that was.             *)
(***************************************************************************)

WindowPlaces == {"vmStatus", "vmStart", "waitGuest", "ps", "up", "sleep", "vmDown"}

\* Only a window is at a window's places, and the lock leaves one run of a kind at a time.
AloneOK ==
    /\ \A q \in Runs : pc[q] \in WindowPlaces => q \in Windows
    /\ \A p, q \in Windows : pc[p] # "idle" /\ pc[q] # "idle" => p = q
    /\ \A p, q \in Backups : pc[p] # "idle" /\ pc[q] # "idle" => p = q

HomeOK ==
    /\ home # {} => "host" \in home
    /\ "stack" \in home => "vm" \in home

\* q will halt the host, stop the VM, take the stack down, or sees to the backup's task.
HaltsHost(q) == pc[q] = "waitHost" \/ (woke[q] /\ pc[q] \notin {"idle", "exit"})
StopsVm(q) ==
    q \in Windows /\ started[q] /\ pc[q] \in {"waitGuest", "ps", "up", "sleep", "clean", "vmDown"}
StopsStack(q) == q \in Windows /\ tried[q] /\ pc[q] \in {"up", "sleep", "clean"}
SeesToTask(q) == q \in Backups /\ pc[q] = "poll"

\* q takes the host for off.
WakesHost(q) ==
    pc[q] \in {"wake", "dropbear", "unlock", "waitHost"} \/ (q \in Windows /\ pc[q] = "vault")

HostKept ==
    IF "host" \in home THEN host = "on" /\ \A q \in Runs : ~woke[q] /\ ~WakesHost(q)
                       ELSE host = "on" => \E q \in Runs : HaltsHost(q)

VmKept ==
    "host" \in home =>
        IF "vm" \in home THEN "vm" \in guests /\ \A q \in Runs : ~started[q] /\ pc[q] # "vmStart"
                         ELSE "vm" \in guests => \E q \in Runs : StopsVm(q)

StackKept ==
    "vm" \in home =>
        IF "stack" \in home THEN "stack" \in guests /\ \A q \in Windows : ~tried[q]
                            ELSE /\ "stack" \in guests => \E q \in Runs : StopsStack(q)
                                 /\ \A q \in Runs : pc[q] = "up" => tried[q]

StorageKept ==
    /\ task => \E q \in Runs : SeesToTask(q)
    /\ \A q \in Runs : pc[q] \in {"create", "poll"} => storage

QuietOK == faults = 0 => HostKept /\ VmKept /\ StackKept /\ StorageKept

-------------------------------------------------------------------------------
(* What every step of a run has in common. *)

\* A step of a run that has begun takes it from a place to a place of its kind.
LEMMA StepMoves ==
    ASSUME Inv, AloneOK, NEW r \in Runs, Step(r)
    PROVE  /\ pc[r] # "idle"
           /\ \E l \in Places : /\ pc' = [pc EXCEPT ![r] = l]
                                /\ l \in WindowPlaces => r \in Windows
<1> USE DEF Goto, Raises
<1>w. pc[r] \in WindowPlaces => r \in Windows
  BY DEF AloneOK
<1>1. CASE ReadVault(r) \/ Wake(r) \/ WaitDropbear(r) \/ Unlock(r)
  <2>1. \E l \in {"wake", "look", "clean", "dropbear", "unlock", "waitHost"} : pc' = [pc EXCEPT ![r] = l]
    BY <1>1 DEF ReadVault, Wake, WaitDropbear, Unlock, Checked, WaitFor, Refused
  <2> QED BY <1>1, <2>1 DEF ReadVault, Wake, WaitDropbear, Unlock, Places, WindowPlaces
<1>2. CASE Look(r) \/ WaitHost(r)
  <2>1. PICK l \in {"vault", "wake", "clean", FirstGuest(r)} : pc' = [pc EXCEPT ![r] = l]
    BY <1>2 DEF Look, WaitHost, WaitFor, Refused
  <2>2. l \in Places /\ (l \in WindowPlaces => r \in Windows)
    BY DEF FirstGuest, Places, WindowPlaces
  <2> QED BY <1>2, <2>1, <2>2 DEF Look, WaitHost, Places, WindowPlaces
<1>3. CASE WindowStep(r)
  <2>1. /\ pc[r] # "idle" /\ r \in Windows
        /\ \E l \in {"waitGuest", "vmStart", "ps", "up", "sleep", "clean", "vmDown", "hostDown"} :
               pc' = [pc EXCEPT ![r] = l]
    BY <1>3, <1>w DEF WindowStep, VmStatus, VmStart, WaitGuest, AskStack, ComposeUp, Sleep, ComposeDown,
                      VmDown, WaitFor, Checked, Unchecked, Refused, WindowPlaces
  <2> QED BY <2>1 DEF Places
<1>4. CASE BackupStep(r)
  <2>1. /\ pc[r] # "idle"
        /\ \E l \in {"waitPbs", "ctStart", "enable", "create", "poll", "clean", "hostDown"} :
               pc' = [pc EXCEPT ![r] = l]
    BY <1>4 DEF BackupStep, CtStatus, CtStart, WaitPbs, EnableStorage, CreateTask, Poll,
                DisableStorage, WaitFor, Checked, Unchecked, Refused
  <2> QED BY <2>1 DEF Places, WindowPlaces
<1>5. CASE HostDown(r) \/ Exit(r)
  <2>1. pc[r] # "idle" /\ \E l \in {"exit", "idle"} : pc' = [pc EXCEPT ![r] = l]
    BY <1>5 DEF HostDown, Exit, Ends, Unchecked
  <2> QED BY <2>1 DEF Places, WindowPlaces
<1> QED BY <1>1, <1>2, <1>3, <1>4, <1>5 DEF Step

\* A step of r leaves what the others know and where they are, and what ran at first.
LEMMA StepOthers ==
    ASSUME Inv, AloneOK, NEW r \in Runs, Step(r)
    PROVE  /\ home' = home
           /\ \A q \in Runs \ {r} : /\ pc'[q] = pc[q] /\ woke'[q] = woke[q]
                                    /\ started'[q] = started[q] /\ tried'[q] = tried[q]
<1>t. FlagsType
  BY DEF Inv, FlagsOK
<1>p. \A q \in Runs \ {r} : pc'[q] = pc[q]
  BY <1>t, StepMoves DEF FlagsType
<1>f. /\ home' = home
      /\ woke' = woke \/ \E b : woke' = [woke EXCEPT ![r] = b]
      /\ started' = started \/ \E b : started' = [started EXCEPT ![r] = b]
      /\ tried' = tried \/ \E b : tried' = [tried EXCEPT ![r] = b]
  <2>1. CASE ReadVault(r) \/ Look(r) \/ Wake(r) \/ WaitDropbear(r) \/ Unlock(r)
    BY <2>1 DEF ReadVault, Look, Wake, WaitDropbear, Unlock, flags
  <2>2. CASE WaitHost(r)
    BY <2>2 DEF WaitHost
  <2>3. CASE VmStatus(r) \/ WaitGuest(r) \/ ComposeUp(r) \/ Sleep(r) \/ ComposeDown(r) \/ VmDown(r)
    BY <2>3 DEF VmStatus, WaitGuest, ComposeUp, Sleep, ComposeDown, VmDown, flags
  <2>4. CASE VmStart(r)
    BY <2>4 DEF VmStart
  <2>5. CASE AskStack(r)
    BY <2>5 DEF AskStack
  <2>6. CASE EnableStorage(r)
    BY <2>6 DEF EnableStorage
  <2>7. CASE CtStatus(r) \/ CtStart(r) \/ WaitPbs(r) \/ CreateTask(r) \/ Poll(r) \/ DisableStorage(r)
             \/ HostDown(r)
    BY <2>7 DEF CtStatus, CtStart, WaitPbs, CreateTask, Poll, DisableStorage, HostDown, flags
  <2>8. CASE Exit(r)
    BY <2>8 DEF Exit, Ends
  <2> QED BY <2>1, <2>2, <2>3, <2>4, <2>5, <2>6, <2>7, <2>8 DEF Step, WindowStep, BackupStep
<1>w. \A q \in Runs \ {r} : woke'[q] = woke[q]
  BY <1>f, <1>t DEF FlagsType
<1>s. \A q \in Runs \ {r} : started'[q] = started[q]
  BY <1>f, <1>t DEF FlagsType
<1>y. \A q \in Runs \ {r} : tried'[q] = tried[q]
  BY <1>f, <1>t DEF FlagsType
<1> QED BY <1>f, <1>p, <1>w, <1>s, <1>y

\* The lock and the places: a run that moves on was the only one of its kind.
LEMMA AloneKeeps ==
    ASSUME Inv, AloneOK, [Next]_vars
    PROVE  AloneOK'
<1>t. FlagsType
  BY DEF Inv, FlagsOK
<1>m. ASSUME NEW r \in Runs, pc[r] # "idle" \/ LockFree(r), NEW l,
             pc' = [pc EXCEPT ![r] = l], l \in WindowPlaces => r \in Windows
      PROVE  AloneOK'
  <2>1. pc'[r] = l /\ \A q \in Runs \ {r} : pc'[q] = pc[q]
    BY <1>m, <1>t DEF FlagsType
  <2>2. \A q \in Runs : pc'[q] \in WindowPlaces => q \in Windows
    BY <1>m, <2>1 DEF AloneOK
  <2>3. ASSUME NEW p \in Runs, NEW q \in Runs, {p, q} \subseteq Windows \/ {p, q} \subseteq Backups,
               pc'[p] # "idle", pc'[q] # "idle"
        PROVE  p = q
    <3>1. \A x \in Runs \ {r} : ({x, r} \subseteq Windows \/ {x, r} \subseteq Backups) => pc[x] = "idle"
      <4>1. CASE pc[r] # "idle"
        BY <4>1 DEF AloneOK
      <4>2. CASE LockFree(r)
        BY <4>2, RunsAssumption DEF LockFree, Kin
      <4> QED BY <1>m, <4>1, <4>2
    <3>2. CASE p = r \/ q = r
      BY <2>1, <2>3, <3>1, <3>2
    <3>3. CASE p # r /\ q # r
      BY <2>1, <2>3, <3>3 DEF AloneOK
    <3> QED BY <3>2, <3>3
  <2> QED BY <2>2, <2>3 DEF AloneOK, Runs
<1>1. ASSUME NEW r \in Runs, Step(r) PROVE AloneOK'
  BY <1>1, <1>m, StepMoves
<1>2. ASSUME NEW r \in Runs, Begin(r) PROVE AloneOK'
  <2>1. PICK l \in {"look", "vault"} : pc' = [pc EXCEPT ![r] = l]
    BY <1>2 DEF Begin, Goto
  <2> QED BY <1>2, <2>1, <1>m DEF Begin, WindowPlaces
<1>3. ASSUME NEW r \in Runs, Kill(r) PROVE AloneOK'
  BY <1>3, <1>m DEF Kill, Ends, Goto, WindowPlaces
<1>4. CASE UNCHANGED pc
  BY <1>4 DEF AloneOK
<1> QED BY <1>1, <1>2, <1>3, <1>4 DEF Next, Boot, PowerOff, TaskEnds, Person, vars

-------------------------------------------------------------------------------
(* The quiet week: the host. *)

\* A step that counts no fault is not a fault.
LEMMA Unfaulty == ASSUME Inv, faults' = 0 PROVE ~Fault
BY BoundsAssumption DEF Inv, CountsOK, Fault

LEMMA StepHost ==
    ASSUME Inv, AloneOK, HostKept, NEW r \in Runs, Step(r), faults' = 0
    PROVE  HostKept'
<1> USE DEF Goto, Raises, Still, Same
<1>n. ~Fault
  BY Unfaulty
<1>t. FlagsType
  BY DEF Inv, FlagsOK
<1>o. /\ home' = home
      /\ \A q \in Runs \ {r} : pc'[q] = pc[q] /\ woke'[q] = woke[q]
  BY StepOthers
<1>m. pc[r] # "idle" /\ \E l \in Places : pc' = [pc EXCEPT ![r] = l]
  BY StepMoves
<1>p. \A l : pc' = [pc EXCEPT ![r] = l] => pc'[r] = l
  BY <1>t DEF FlagsType
<1>g. /\ r \in Windows => FirstGuest(r) = "vmStatus"
      /\ r \notin Windows => FirstGuest(r) = "ctStatus"
  BY DEF FirstGuest
\* The steps past waking that are neither HostDown nor Exit.
<1>r. ASSUME WindowStep(r) \/ BackupStep(r)
      PROVE  /\ host' = host /\ woke' = woke
             /\ pc'[r] \notin {"idle", "exit", "vault", "wake", "dropbear", "unlock", "waitHost"}
             /\ pc[r] # "waitHost"
  <2>1. CASE WindowStep(r)
    BY <1>r, <2>1, <1>p, <1>t DEF FlagsType, flags, WindowStep, VmStatus, VmStart, WaitGuest, AskStack, ComposeUp,
        Sleep, ComposeDown, VmDown, WaitFor, Checked, Unchecked, Refused, Becomes
  <2>2. CASE BackupStep(r)
    BY <1>r, <2>2, <1>p, <1>t DEF FlagsType, flags, BackupStep, CtStatus, CtStart, WaitPbs, EnableStorage, CreateTask,
        Poll, DisableStorage, WaitFor, Checked, Unchecked, Refused, Becomes, SwitchStorage
  <2> QED BY <1>r, <2>1, <2>2
<1>1. CASE "host" \in home
  <2>1. host = "on" /\ (\A q \in Runs : ~woke[q] /\ ~WakesHost(q))
    BY <1>1 DEF HostKept
  <2>2. host' = "on" /\ woke'[r] = FALSE /\ ~WakesHost(r)'
    <3>1. CASE ReadVault(r) \/ Look(r)
      BY <3>1, <2>1, <1>n, <1>p, <1>g DEF ReadVault, Look, WakesHost, flags
    <3>2. CASE Wake(r) \/ WaitDropbear(r) \/ Unlock(r) \/ WaitHost(r)
      BY <3>2, <2>1 DEF Wake, WaitDropbear, Unlock, WaitHost, WakesHost
    <3>3. CASE WindowStep(r) \/ BackupStep(r)
      BY <3>3, <2>1, <1>r DEF WakesHost
    <3>4. CASE HostDown(r)
      BY <3>4, <2>1, <1>p DEF HostDown, WakesHost, flags
    <3>5. CASE Exit(r)
      BY <3>5, <2>1, <1>p, <1>t DEF Exit, Ends, WakesHost, FlagsType
    <3> QED BY <3>1, <3>2, <3>3, <3>4, <3>5 DEF Step
  <2>3. ASSUME NEW q \in Runs PROVE ~woke'[q] /\ ~WakesHost(q)'
    BY <2>1, <2>2, <1>o DEF WakesHost
  <2> QED BY <1>1, <1>o, <2>2, <2>3 DEF HostKept
<1>2. CASE "host" \notin home
  <2> SUFFICES ASSUME host' = "on" PROVE \E q \in Runs : HaltsHost(q)'
    BY <1>2, <1>o DEF HostKept
  <2>1. CASE host # "on"
    <3>1. Unlock(r) /\ host = "locked"
      <4>1. CASE WindowStep(r) \/ BackupStep(r)
        BY <4>1, <2>1, <1>r
      <4>2. CASE ReadVault(r) \/ Look(r) \/ Wake(r) \/ WaitDropbear(r) \/ WaitHost(r) \/ HostDown(r) \/ Exit(r)
        BY <4>2, <2>1 DEF ReadVault, Look, Wake, WaitDropbear, WaitHost, HostDown, Exit, Ends,
               WaitFor, Checked, Unchecked, Refused, Becomes
      <4> QED BY <4>1, <4>2, <2>1 DEF Step, Unlock, Refused
    <3>2. pc'[r] = "waitHost"
      BY <3>1, <1>n, <1>p DEF Unlock, Checked
    <3> QED BY <3>2 DEF HaltsHost
  <2>2. CASE host = "on"
    <3>1. PICK q \in Runs : HaltsHost(q)
      BY <1>2, <2>2 DEF HostKept
    <3>2. CASE q # r
      BY <3>1, <3>2, <1>o DEF HaltsHost
    <3>3. CASE q = r
      <4>1. CASE ReadVault(r) \/ Look(r) \/ Wake(r) \/ WaitDropbear(r) \/ Unlock(r)
        <5>1. pc'[r] \notin {"idle", "exit"} /\ woke' = woke /\ pc[r] # "waitHost"
          BY <4>1, <1>p, <1>g DEF ReadVault, Look, Wake, WaitDropbear, Unlock, Checked, WaitFor, Refused, flags
        <5> QED BY <5>1, <3>1, <3>3 DEF HaltsHost
      <4>2. CASE WaitHost(r)
        <5>1. pc'[r] = FirstGuest(r)
          BY <4>2, <2>2, <1>n, <1>p DEF WaitHost, WaitFor
        <5>2. woke'[r] = TRUE
          BY <4>2, <5>1, <1>t DEF WaitHost, FlagsType
        <5> QED BY <5>1, <5>2, <1>g DEF HaltsHost
      <4>3. CASE WindowStep(r) \/ BackupStep(r)
        BY <4>3, <1>r, <3>1, <3>3 DEF HaltsHost
      <4>4. CASE HostDown(r)
        BY <4>4, <2>2, <3>1, <3>3, <1>n DEF HostDown, Unchecked, HaltsHost, Becomes
      <4>5. CASE Exit(r)
        BY <4>5, <3>1, <3>3 DEF Exit, HaltsHost
      <4> QED BY <4>1, <4>2, <4>3, <4>4, <4>5 DEF Step
    <3> QED BY <3>2, <3>3
  <2> QED BY <2>1, <2>2
<1> QED BY <1>1, <1>2

-------------------------------------------------------------------------------
(* The quiet week: the VM and its stack. *)

\* On a host that was on at first, a run asks neither for waking nor for halting it.
LEMMA StepAwake ==
    ASSUME Inv, HostKept, "host" \in home, NEW r \in Runs, Step(r)
    PROVE  /\ host = "on" /\ ~woke[r]
           /\ ~(Wake(r) \/ WaitDropbear(r) \/ Unlock(r) \/ WaitHost(r))
           /\ r \in Windows => ~ReadVault(r)
           /\ HostDown(r) => Still /\ Goto(r, "exit") /\ UNCHANGED flags
<1>1. host = "on" /\ ~woke[r] /\ ~WakesHost(r)
  BY DEF HostKept
<1> QED BY <1>1 DEF WakesHost, Wake, WaitDropbear, Unlock, WaitHost, ReadVault, HostDown

LEMMA StepVm ==
    ASSUME Inv, AloneOK, HostKept, VmKept, NEW r \in Runs, Step(r), faults' = 0
    PROVE  VmKept'
<1> USE DEF Goto, Raises, Still, Same
<1>n. ~Fault
  BY Unfaulty
<1>t. FlagsType
  BY DEF Inv, FlagsOK
<1>o. /\ home' = home
      /\ \A q \in Runs \ {r} : pc'[q] = pc[q] /\ started'[q] = started[q]
  BY StepOthers
<1>p. \A l : pc' = [pc EXCEPT ![r] = l] => pc'[r] = l
  BY <1>t DEF FlagsType
<1> SUFFICES ASSUME "host" \in home
             PROVE  IF "vm" \in home
                    THEN "vm" \in guests' /\ \A q \in Runs : ~started'[q] /\ pc'[q] # "vmStart"
                    ELSE "vm" \in guests' => \E q \in Runs : StopsVm(q)'
  BY <1>o DEF VmKept
<1>a. /\ host = "on" /\ ~woke[r]
      /\ ~(Wake(r) \/ WaitDropbear(r) \/ Unlock(r) \/ WaitHost(r))
      /\ r \in Windows => ~ReadVault(r)
      /\ HostDown(r) => Still /\ Goto(r, "exit") /\ UNCHANGED flags
  BY StepAwake
\* Before the guests and after them: neither the guests nor the flag.
<1>q. ASSUME ReadVault(r) \/ Look(r) \/ BackupStep(r) \/ HostDown(r)
      PROVE  /\ "vm" \in guests' <=> "vm" \in guests
             /\ started' = started /\ pc'[r] # "vmStart"
             /\ pc[r] \notin WindowPlaces /\ (pc[r] = "clean" => r \in Backups)
  <2>1. CASE ReadVault(r) \/ Look(r)
    BY <2>1, <1>p, <1>t DEF ReadVault, Look, flags, WindowPlaces, FirstGuest
  <2>2. CASE BackupStep(r)
    BY <2>2, <1>p, <1>t DEF flags, BackupStep, CtStatus, CtStart, WaitPbs, EnableStorage, CreateTask, WindowPlaces,
        Poll, DisableStorage, WaitFor, Checked, Unchecked, Refused, Becomes, SwitchStorage
  <2>3. CASE HostDown(r)
    BY <2>3, <1>a, <1>p DEF flags, HostDown, WindowPlaces
  <2> QED BY <1>q, <2>1, <2>2, <2>3
<1>1. CASE "vm" \in home
  <2>1. "vm" \in guests /\ \A q \in Runs : ~started[q] /\ pc[q] # "vmStart"
    BY <1>1 DEF VmKept
  <2>2. "vm" \in guests' /\ ~started'[r] /\ pc'[r] # "vmStart"
    <3>1. CASE ReadVault(r) \/ Look(r) \/ BackupStep(r) \/ HostDown(r)
      BY <3>1, <2>1, <1>q
    <3>2. CASE VmStatus(r) \/ WaitGuest(r) \/ AskStack(r) \/ Sleep(r) \/ VmDown(r)
      BY <3>2, <2>1, <1>n, <1>p DEF VmStatus, WaitGuest, AskStack, Sleep, VmDown, WaitFor, Refused, flags
    <3>3. CASE ComposeUp(r) \/ ComposeDown(r)
      BY <3>3, <2>1, <1>p DEF ComposeUp, ComposeDown, Checked, Unchecked, Refused, Becomes, flags
    <3>4. CASE VmStart(r)
      BY <3>4, <2>1 DEF VmStart
    <3>5. CASE Exit(r)
      BY <3>5, <2>1, <1>p, <1>t DEF Exit, Ends, FlagsType
    <3> QED BY <3>1, <3>2, <3>3, <3>4, <3>5, <1>a DEF Step, WindowStep
  <2> QED BY <1>1, <2>1, <2>2, <1>o
<1>2. CASE "vm" \notin home
  <2> SUFFICES ASSUME "vm" \in guests' PROVE \E q \in Runs : StopsVm(q)'
    BY <1>2
  <2>1. CASE VmStart(r) /\ "vm" \notin guests
    <3>1. pc'[r] = "waitGuest"
      BY <2>1, <1>a, <1>n, <1>p DEF VmStart, Checked
    <3>2. started'[r] = TRUE
      BY <2>1, <3>1, <1>t DEF VmStart, FlagsType
    <3>3. r \in Windows
      BY <2>1 DEF VmStart, AloneOK, WindowPlaces
    <3> QED BY <3>1, <3>2, <3>3 DEF StopsVm
  <2>2. CASE "vm" \in guests
    <3>1. PICK q \in Runs : StopsVm(q)
      BY <1>2, <2>2 DEF VmKept
    <3>2. CASE q # r
      BY <3>1, <3>2, <1>o DEF StopsVm
    <3>3. CASE q = r
      <4>1. r \in Windows /\ started[r] /\ pc[r] \in {"waitGuest", "ps", "up", "sleep", "clean", "vmDown"}
        BY <3>1, <3>3 DEF StopsVm
      <4>2. CASE ReadVault(r) \/ Look(r) \/ BackupStep(r) \/ HostDown(r)
        BY <4>1, <4>2, <1>q, RunsAssumption DEF WindowPlaces
      <4>3. CASE WaitGuest(r) \/ AskStack(r) \/ ComposeUp(r) \/ Sleep(r) \/ ComposeDown(r)
        <5>1. started' = started /\ pc'[r] \in {"ps", "up", "sleep", "clean", "vmDown"}
          BY <4>3, <1>p DEF WaitGuest, AskStack, ComposeUp, Sleep, ComposeDown, WaitFor, Checked, Unchecked,
                 Refused, flags
        <5> QED BY <4>1, <5>1 DEF StopsVm
      <4>4. CASE VmDown(r)
        BY <4>1, <4>4, <1>n DEF VmDown, Unchecked, Becomes
      <4>5. CASE VmStatus(r) \/ VmStart(r) \/ Exit(r)
        BY <4>1, <4>5 DEF VmStatus, VmStart, Exit
      <4> QED BY <4>2, <4>3, <4>4, <4>5, <1>a DEF Step, WindowStep
    <3> QED BY <3>2, <3>3
  <2>3. CASE "vm" \notin guests /\ ~VmStart(r)
    <3>1. CASE ReadVault(r) \/ Look(r) \/ BackupStep(r) \/ HostDown(r)
      BY <3>1, <2>3, <1>q
    <3>2. CASE WindowStep(r) \/ Exit(r)
      BY <3>2, <2>3 DEF WindowStep, VmStatus, WaitGuest, AskStack, ComposeUp, Sleep, ComposeDown, VmDown,
             WaitFor, Checked, Unchecked, Refused, Becomes, Exit, Ends
    <3> QED BY <3>1, <3>2, <1>a DEF Step
  <2> QED BY <2>1, <2>2, <2>3
<1> QED BY <1>1, <1>2

LEMMA StepStack ==
    ASSUME Inv, AloneOK, HomeOK, HostKept, VmKept, StackKept, NEW r \in Runs, Step(r), faults' = 0
    PROVE  StackKept'
<1> USE DEF Goto, Raises, Still, Same
<1>n. ~Fault
  BY Unfaulty
<1>t. FlagsType /\ FlagOK(r)
  BY DEF Inv, FlagsOK
<1>o. /\ home' = home
      /\ \A q \in Runs \ {r} : pc'[q] = pc[q] /\ tried'[q] = tried[q]
  BY StepOthers
<1>p. \A l : pc' = [pc EXCEPT ![r] = l] => pc'[r] = l
  BY <1>t DEF FlagsType
<1> SUFFICES ASSUME "vm" \in home
             PROVE  IF "stack" \in home
                    THEN "stack" \in guests' /\ \A q \in Windows : ~tried'[q]
                    ELSE /\ "stack" \in guests' => \E q \in Runs : StopsStack(q)'
                         /\ \A q \in Runs : pc'[q] = "up" => tried'[q]
  BY <1>o DEF StackKept
<1>h. "host" \in home
  BY DEF HomeOK
<1>a. /\ host = "on" /\ ~woke[r]
      /\ ~(Wake(r) \/ WaitDropbear(r) \/ Unlock(r) \/ WaitHost(r))
      /\ r \in Windows => ~ReadVault(r)
      /\ HostDown(r) => Still /\ Goto(r, "exit") /\ UNCHANGED flags
  BY <1>h, StepAwake
<1>v. "vm" \in guests /\ ~started[r] /\ pc[r] # "vmStart"
  BY <1>h DEF VmKept
\* What neither touches the stack nor leads to or from the places of StopsStack.
<1>q. ASSUME ReadVault(r) \/ Look(r) \/ BackupStep(r) \/ HostDown(r) \/ VmStatus(r) \/ VmStart(r)
             \/ WaitGuest(r) \/ VmDown(r)
      PROVE  /\ "stack" \in guests' <=> "stack" \in guests
             /\ r \in Windows => tried' = tried
             /\ pc'[r] # "up" /\ ~StopsStack(r)
  <2>1. CASE ReadVault(r) \/ Look(r)
    BY <2>1, <1>p, <1>t DEF ReadVault, Look, flags, StopsStack, FirstGuest
  <2>2. CASE BackupStep(r)
    <3>1. /\ "stack" \in guests' <=> "stack" \in guests
          /\ pc'[r] # "up" /\ (pc[r] = "clean" => r \in Backups) /\ pc[r] \notin {"up", "sleep"}
      BY <2>2, <1>p, <1>t DEF BackupStep, CtStatus, CtStart, WaitPbs, EnableStorage, CreateTask,
          Poll, DisableStorage, WaitFor, Checked, Unchecked, Refused, Becomes, SwitchStorage
    <3>2. r \in Windows => tried' = tried
      BY <2>2, <1>t DEF FlagOK, BackupPlaces, flags, BackupStep, CtStatus, CtStart, WaitPbs, EnableStorage,
          CreateTask, Poll, DisableStorage
    <3> QED BY <3>1, <3>2, RunsAssumption DEF StopsStack
  <2>3. CASE HostDown(r)
    BY <2>3, <1>a, <1>p DEF flags, HostDown, StopsStack
  <2>4. CASE VmStatus(r) \/ VmStart(r) \/ WaitGuest(r) \/ VmDown(r)
    BY <2>4, <1>v, <1>n, <1>p DEF VmStatus, VmStart, WaitGuest, VmDown, WaitFor, Refused, flags, StopsStack
  <2> QED BY <1>q, <2>1, <2>2, <2>3, <2>4
<1>1. CASE "stack" \in home
  <2>1. "stack" \in guests /\ \A q \in Windows : ~tried[q]
    BY <1>1 DEF StackKept
  <2>2. "stack" \in guests' /\ (r \in Windows => ~tried'[r])
    <3>1. CASE ReadVault(r) \/ Look(r) \/ BackupStep(r) \/ HostDown(r) \/ VmStatus(r) \/ VmStart(r)
               \/ WaitGuest(r) \/ VmDown(r)
      BY <3>1, <2>1, <1>q
    <3>2. CASE AskStack(r)
      <4>1. tried'[r] = FALSE
        BY <3>2, <2>1, <1>t DEF AskStack, FlagsType
      <4> QED BY <3>2, <4>1, <2>1 DEF AskStack, Refused
    <3>3. CASE ComposeUp(r) \/ Sleep(r)
      BY <3>3, <2>1 DEF ComposeUp, Sleep, Checked, Refused, Becomes, flags
    <3>4. CASE ComposeDown(r)
      BY <3>4, <2>1 DEF ComposeDown, flags
    <3>5. CASE Exit(r)
      BY <3>5, <2>1, <1>t DEF Exit, Ends, FlagsType
    <3> QED BY <3>1, <3>2, <3>3, <3>4, <3>5, <1>a DEF Step, WindowStep
  <2> QED BY <1>1, <2>1, <2>2, <1>o DEF Runs
<1>2. CASE "stack" \notin home
  <2>k. /\ "stack" \in guests => \E q \in Runs : StopsStack(q)
        /\ \A q \in Runs : pc[q] = "up" => tried[q]
    BY <1>2 DEF StackKept
  <2>1. pc'[r] = "up" => tried'[r]
    <3>1. CASE ReadVault(r) \/ Look(r) \/ BackupStep(r) \/ HostDown(r) \/ VmStatus(r) \/ VmStart(r)
               \/ WaitGuest(r) \/ VmDown(r)
      BY <3>1, <1>q
    <3>2. CASE AskStack(r)
      <4>1. "stack" \notin guests
        <5> SUFFICES ASSUME "stack" \in guests PROVE FALSE
          OBVIOUS
        <5>1. PICK q \in Runs : StopsStack(q)
          BY <2>k
        <5>2. r \in Windows /\ pc[r] = "ps"
          BY <3>2 DEF AskStack, AloneOK, WindowPlaces
        <5> QED BY <5>1, <5>2 DEF StopsStack, AloneOK
      <4> QED BY <3>2, <4>1, <1>t DEF AskStack, FlagsType
    <3>3. CASE ComposeUp(r) \/ Sleep(r) \/ ComposeDown(r) \/ Exit(r)
      BY <3>3, <1>p DEF ComposeUp, Sleep, ComposeDown, Exit, Ends, Checked, Unchecked, Refused
    <3> QED BY <3>1, <3>2, <3>3, <1>a DEF Step, WindowStep
  <2>2. ASSUME "stack" \in guests' PROVE \E q \in Runs : StopsStack(q)'
    <3>1. CASE "stack" \notin guests
      <4>1. ComposeUp(r)
        <5>1. CASE ReadVault(r) \/ Look(r) \/ BackupStep(r) \/ HostDown(r) \/ VmStatus(r) \/ VmStart(r)
                   \/ WaitGuest(r) \/ VmDown(r)
          BY <5>1, <2>2, <3>1, <1>q
        <5>2. CASE AskStack(r) \/ Sleep(r) \/ ComposeDown(r) \/ Exit(r)
          BY <5>2, <2>2, <3>1 DEF AskStack, Sleep, ComposeDown, Exit, Ends, Unchecked, Refused, Becomes
        <5> QED BY <5>1, <5>2, <1>a DEF Step, WindowStep
      <4>2. pc[r] = "up" /\ tried[r] /\ r \in Windows
        BY <4>1, <2>k DEF ComposeUp, AloneOK, WindowPlaces
      <4>3. pc'[r] = "sleep" /\ tried' = tried
        BY <4>1, <4>2, <1>v, <1>n, <1>p DEF ComposeUp, Checked, flags
      <4> QED BY <4>2, <4>3 DEF StopsStack
    <3>2. CASE "stack" \in guests
      <4>1. PICK q \in Runs : StopsStack(q)
        BY <2>k, <3>2
      <4>2. CASE q # r
        BY <4>1, <4>2, <1>o DEF StopsStack
      <4>3. CASE q = r
        <5>1. r \in Windows /\ tried[r] /\ pc[r] \in {"up", "sleep", "clean"}
          BY <4>1, <4>3 DEF StopsStack
        <5>2. CASE ReadVault(r) \/ Look(r) \/ BackupStep(r) \/ HostDown(r) \/ VmStatus(r) \/ VmStart(r)
                   \/ WaitGuest(r) \/ VmDown(r)
          BY <5>2, <4>1, <4>3, <1>q
        <5>3. CASE ComposeUp(r) \/ Sleep(r)
          <6>1. pc'[r] \in {"sleep", "clean"} /\ tried' = tried
            BY <5>3, <1>p DEF ComposeUp, Sleep, Checked, Refused, flags
          <6> QED BY <5>1, <6>1 DEF StopsStack
        <5>4. CASE ComposeDown(r)
          BY <5>4, <5>1, <2>2, <1>n DEF ComposeDown, Unchecked, Becomes
        <5>5. CASE AskStack(r) \/ Exit(r)
          BY <5>1, <5>5 DEF AskStack, Exit
        <5> QED BY <5>2, <5>3, <5>4, <5>5, <1>a DEF Step, WindowStep
      <4> QED BY <4>2, <4>3
    <3> QED BY <3>1, <3>2
  <2> QED BY <1>2, <2>1, <2>2, <2>k, <1>o
<1> QED BY <1>1, <1>2

-------------------------------------------------------------------------------
(* The quiet week: the storage and its task. *)

LEMMA StepStorage ==
    ASSUME Inv, AloneOK, StorageKept, NEW r \in Runs, Step(r), faults' = 0
    PROVE  StorageKept'
<1> USE DEF Goto, Raises, Still, Same
<1>n. ~Fault
  BY Unfaulty
<1>t. FlagsType /\ FlagOK(r)
  BY DEF Inv, FlagsOK
<1>o. \A q \in Runs \ {r} : pc'[q] = pc[q]
  BY StepOthers
<1>p. \A l : pc' = [pc EXCEPT ![r] = l] => pc'[r] = l
  BY <1>t DEF FlagsType
<1>k. /\ task => \E q \in Runs : SeesToTask(q)
      /\ \A q \in Runs : pc[q] \in {"create", "poll"} => storage
  BY DEF StorageKept
<1>b. pc[r] \in BackupPlaces => r \in Backups
  BY <1>t DEF FlagOK, Runs
\* A step that leaves task and storage, from a place other than poll to a place other than create and poll.
<1>q. ASSUME task' = task, storage' = storage, pc[r] # "poll" \/ ~task, pc'[r] \notin {"create", "poll"}
      PROVE  StorageKept'
  <2>1. ASSUME NEW q \in Runs, pc'[q] \in {"create", "poll"} PROVE storage'
    BY <1>q, <2>1, <1>o, <1>k
  <2>2. ASSUME task' PROVE \E q \in Runs : SeesToTask(q)'
    <3>1. PICK q \in Runs : SeesToTask(q)
      BY <1>q, <2>2, <1>k
    <3>2. q # r
      BY <1>q, <2>2, <3>1 DEF SeesToTask
    <3> QED BY <3>1, <3>2, <1>o DEF SeesToTask
  <2> QED BY <2>1, <2>2 DEF StorageKept
<1>1. CASE \/ ReadVault(r) \/ Look(r) \/ Wake(r) \/ WaitDropbear(r) \/ Unlock(r) \/ WaitHost(r)
           \/ HostDown(r) \/ Exit(r)
  BY <1>1, <1>p, <1>q DEF ReadVault, Look, Wake, WaitDropbear, Unlock, WaitHost, HostDown, Exit, Ends, FirstGuest,
         WaitFor, Checked, Unchecked, Refused, Becomes
<1>2. CASE WindowStep(r) \/ CtStatus(r) \/ CtStart(r) \/ WaitPbs(r) \/ Poll(r)
  <2>1. CASE WindowStep(r)
    BY <2>1, <1>p, <1>q DEF WindowStep, VmStatus, VmStart, WaitGuest, AskStack, ComposeUp, Sleep, ComposeDown,
           VmDown, WaitFor, Checked, Unchecked, Refused, Becomes
  <2>2. CASE CtStatus(r) \/ CtStart(r) \/ WaitPbs(r)
    BY <2>2, <1>p, <1>q DEF CtStatus, CtStart, WaitPbs, WaitFor, Checked, Refused, Becomes
  <2>3. CASE Poll(r)
    BY <2>3, <1>n, <1>p, <1>q DEF Poll
  <2> QED BY <1>2, <2>1, <2>2, <2>3
<1>3. CASE EnableStorage(r)
  <2>1. storage' = TRUE /\ task' = task /\ pc[r] = "enable"
    BY <1>3, <1>n DEF EnableStorage, Checked, SwitchStorage
  <2>2. ASSUME task' PROVE \E q \in Runs : SeesToTask(q)'
    BY <2>1, <2>2, <1>k, <1>o DEF SeesToTask
  <2> QED BY <2>1, <2>2 DEF StorageKept
<1>4. CASE CreateTask(r)
  <2>1. /\ storage' = storage /\ task' = TRUE /\ pc'[r] = "poll" /\ pc[r] = "create"
    BY <1>4, <1>n, <1>p DEF CreateTask
  <2>2. storage /\ r \in Backups
    BY <2>1, <1>b, <1>k DEF BackupPlaces
  <2> QED BY <2>1, <2>2 DEF StorageKept, SeesToTask
<1>5. CASE DisableStorage(r)
  <2>1. pc[r] = "clean" /\ r \in Backups /\ pc'[r] = "hostDown" /\ task' = task
    BY <1>5, <1>p DEF DisableStorage, Unchecked, SwitchStorage
  <2>2. ASSUME NEW q \in Runs PROVE pc[q] \notin {"create", "poll"}
    <3>1. pc[q] \in BackupPlaces => q \in Backups
      BY DEF Inv, FlagsOK, FlagOK, Runs
    <3> QED BY <2>1, <3>1 DEF AloneOK, BackupPlaces
  <2>3. ~task
    BY <2>2, <1>k DEF SeesToTask
  <2>4. \A q \in Runs : pc'[q] \notin {"create", "poll"}
    BY <2>1, <2>2, <1>o
  <2> QED BY <2>1, <2>3, <2>4 DEF StorageKept
<1> QED BY <1>1, <1>2, <1>3, <1>4, <1>5 DEF Step, BackupStep

-------------------------------------------------------------------------------
(* The quiet week: all of it. *)

QuietInv == Inv /\ AloneOK /\ HomeOK /\ QuietOK

LEMMA InitQuiet == Init => QuietInv
<1> SUFFICES ASSUME Init PROVE AloneOK /\ HomeOK /\ QuietOK
  BY InitInv DEF QuietInv
<1>1. /\ home = guests \cup (IF host = "on" THEN {"host"} ELSE {})
      /\ host \in {"off", "on"} /\ guests \in SUBSET Guests /\ (guests # {} => host = "on")
      /\ "stack" \in guests => "vm" \in guests
  BY DEF Init, Running, Autostarts, Guests
<1>2. \A q \in Runs : pc[q] = "idle" /\ ~woke[q] /\ ~started[q] /\ ~tried[q]
  BY DEF Init
<1>3. /\ "host" \in home <=> host = "on"
      /\ "vm" \in home <=> "vm" \in guests
      /\ "stack" \in home <=> "stack" \in guests
  BY <1>1 DEF Guests
<1>4. AloneOK
  BY <1>2 DEF AloneOK, WindowPlaces, Runs
<1>5. HomeOK
  BY <1>1, <1>3 DEF HomeOK
<1>6. HostKept /\ VmKept
  BY <1>2, <1>3 DEF HostKept, VmKept, WakesHost
<1>7. StackKept
  BY <1>2, <1>3 DEF StackKept, Runs
<1>8. StorageKept
  BY <1>2 DEF Init, StorageKept
<1> QED BY <1>4, <1>5, <1>6, <1>7, <1>8 DEF QuietOK

\* A run that begins owes nothing yet.
LEMMA BeginQuiet ==
    ASSUME QuietInv, NEW r \in Runs, Begin(r)
    PROVE  QuietOK'
<1> SUFFICES ASSUME faults' = 0 PROVE HostKept' /\ VmKept' /\ StackKept' /\ StorageKept'
  BY DEF QuietOK
<1>1. /\ UNCHANGED <<host, guests, storage, task, woke, started, tried, home, faults>>
      /\ pc[r] = "idle"
      /\ pc' = [pc EXCEPT ![r] = IF r \in Windows THEN "look" ELSE "vault"]
  BY DEF Begin, Goto, Same, flags
<1>2. /\ pc'[r] = (IF r \in Windows THEN "look" ELSE "vault")
      /\ \A q \in Runs \ {r} : pc'[q] = pc[q]
  BY <1>1 DEF QuietInv, Inv, FlagsOK, FlagsType
<1>3. HostKept /\ VmKept /\ StackKept /\ StorageKept
  BY <1>1 DEF QuietInv, QuietOK
<1>4. ~HaltsHost(r) /\ ~StopsVm(r) /\ ~StopsStack(r) /\ ~SeesToTask(r)
  BY <1>1 DEF HaltsHost, StopsVm, StopsStack, SeesToTask
<1>5. \A q \in Runs : /\ HaltsHost(q) => HaltsHost(q)'
                      /\ WakesHost(q)' => WakesHost(q)
  BY <1>1, <1>2, <1>4 DEF HaltsHost, WakesHost
<1>6. \A q \in Runs : /\ StopsVm(q) => StopsVm(q)'
                      /\ StopsStack(q) => StopsStack(q)'
                      /\ SeesToTask(q) => SeesToTask(q)'
  BY <1>1, <1>2, <1>4 DEF StopsVm, StopsStack, SeesToTask
<1>7. \A q \in Runs : pc'[q] \in {"vmStart", "up", "create", "poll"} => pc[q] = pc'[q]
  BY <1>2
<1>8. HostKept'
  BY <1>1, <1>3, <1>5 DEF HostKept
<1>9. VmKept'
  BY <1>1, <1>3, <1>6, <1>7 DEF VmKept
<1>10. StackKept'
  BY <1>1, <1>3, <1>6, <1>7 DEF StackKept
<1>11. StorageKept'
  BY <1>1, <1>3, <1>6, <1>7 DEF StorageKept
<1> QED BY <1>8, <1>9, <1>10, <1>11

\* The host's own steps: it boots and it powers off only when it is not on.
LEMMA WorldQuiet ==
    ASSUME QuietInv, Boot \/ PowerOff \/ TaskEnds
    PROVE  QuietOK'
<1> SUFFICES ASSUME faults' = 0 PROVE HostKept' /\ VmKept' /\ StackKept' /\ StorageKept'
  BY DEF QuietOK
<1>1. UNCHANGED <<pc, woke, started, tried, home, faults, storage>>
  BY DEF Boot, PowerOff, TaskEnds, Becomes, flags
<1>2. HostKept /\ VmKept /\ StackKept /\ StorageKept
  BY <1>1 DEF QuietInv, QuietOK
<1>3. \A q \in Runs : /\ HaltsHost(q)' <=> HaltsHost(q)
                      /\ WakesHost(q)' <=> WakesHost(q)
                      /\ StopsVm(q)' <=> StopsVm(q)
                      /\ StopsStack(q)' <=> StopsStack(q)
                      /\ SeesToTask(q)' <=> SeesToTask(q)
  BY <1>1 DEF HaltsHost, WakesHost, StopsVm, StopsStack, SeesToTask
<1>4. CASE TaskEnds
  <2>1. UNCHANGED <<host, guests>> /\ ~task'
    BY <1>4 DEF TaskEnds
  <2> QED BY <1>1, <1>2, <1>3, <2>1 DEF HostKept, VmKept, StackKept, StorageKept
<1>5. CASE Boot \/ PowerOff
  <2>1. host # "on" /\ host' # "on" /\ guests' = {} /\ task' = task
    BY <1>5 DEF Boot, PowerOff, Becomes
  <2>2. "host" \notin home /\ "vm" \notin home
    BY <1>2, <2>1 DEF HostKept, QuietInv, HomeOK
  <2> QED BY <1>1, <1>2, <1>3, <2>1, <2>2 DEF HostKept, VmKept, StackKept, StorageKept
<1> QED BY <1>4, <1>5

LEMMA NextQuiet == QuietInv /\ [Next]_vars => QuietInv'
<1> SUFFICES ASSUME QuietInv, [Next]_vars PROVE QuietInv'
  OBVIOUS
<1>1. Inv' /\ AloneOK'
  BY NextKeeps, AloneKeeps DEF QuietInv
<1>h. home' = home
  <2>1. ASSUME NEW r \in Runs, Begin(r) \/ Step(r) \/ Kill(r) PROVE home' = home
    BY <2>1, StepOthers DEF QuietInv, Begin, Kill, Ends
  <2> QED BY <2>1 DEF Next, Boot, PowerOff, TaskEnds, Person, vars
<1>2. HomeOK'
  BY <1>h DEF QuietInv, HomeOK
<1>3. QuietOK'
  <2>1. ASSUME NEW r \in Runs, Step(r) PROVE QuietOK'
    <3> SUFFICES ASSUME faults' = 0 PROVE HostKept' /\ VmKept' /\ StackKept' /\ StorageKept'
      BY DEF QuietOK
    <3>1. faults = 0
      BY <2>1, StepFaults, Unfaulty DEF QuietInv
    <3>2. Inv /\ AloneOK /\ HomeOK /\ HostKept /\ VmKept /\ StackKept /\ StorageKept
      BY <3>1 DEF QuietInv, QuietOK
    <3> QED BY <2>1, <3>2, StepHost, StepVm, StepStack, StepStorage
  <2>2. ASSUME NEW r \in Runs, Kill(r) PROVE QuietOK'
    <3>1. Fault
      BY <2>2 DEF Kill
    <3> QED BY <3>1, Unfaulty DEF QuietInv, QuietOK
  <2>3. CASE Person
    <3>1. Fault
      BY <2>3 DEF Person
    <3> QED BY <3>1, Unfaulty DEF QuietInv, QuietOK
  <2>4. CASE UNCHANGED vars
    BY <2>4 DEF vars, QuietInv, QuietOK, HostKept, VmKept, StackKept, StorageKept, HaltsHost, WakesHost,
           StopsVm, StopsStack, SeesToTask
  <2> QED BY <2>1, <2>2, <2>3, <2>4, BeginQuiet, WorldQuiet DEF Next
<1> QED BY <1>1, <1>2, <1>3 DEF QuietInv

THEOREM QuietInvHolds == Spec => []QuietInv
BY InitQuiet, NextQuiet, PTL DEF Spec

\* However many windows and backups interleave, when nothing unplanned happened and every
\* run has ended, the host, the VM and the stack are as the first run found them.
THEOREM MachineIsLeftAsFound == Spec => []LeftAsFound
<1>1. QuietInv => LeftAsFound
  <2> SUFFICES ASSUME QuietInv, faults = 0, \A q \in Runs : pc[q] = "idle"
               PROVE  Running \ {"ct"} = home \ {"ct"}
    BY DEF LeftAsFound
  <2>1. HostKept /\ VmKept /\ StackKept /\ HomeOK
    BY DEF QuietInv, QuietOK
  <2>2. /\ guests \in SUBSET Guests /\ (guests # {} => host = "on")
        /\ "stack" \in guests => "vm" \in guests
        /\ home \in SUBSET Layers
    BY DEF QuietInv, Inv, MachineOK, MachineType, CountsOK, Autostarts
  <2>3. \A q \in Runs : ~HaltsHost(q) /\ ~StopsVm(q) /\ ~StopsStack(q)
    BY DEF HaltsHost, StopsVm, StopsStack
  <2>4. "host" \in home <=> host = "on"
    BY <2>1, <2>3 DEF HostKept
  <2>5. "vm" \in home <=> "vm" \in guests
    BY <2>1, <2>2, <2>3, <2>4 DEF VmKept, HomeOK
  <2>6. "stack" \in home <=> "stack" \in guests
    BY <2>1, <2>2, <2>3, <2>5 DEF StackKept, HomeOK
  <2>7. "host" \in Running <=> host = "on"
    BY <2>2 DEF Running, Guests
  <2>8. "vm" \in Running <=> "vm" \in guests
    BY DEF Running
  <2>9. "stack" \in Running <=> "stack" \in guests
    BY DEF Running
  <2>10. Running \in SUBSET Layers
    BY <2>2 DEF Running, Layers
  <2> QED BY <2>2, <2>4, <2>5, <2>6, <2>7, <2>8, <2>9, <2>10 DEF Layers, Guests
<1> QED BY <1>1, QuietInvHolds, PTL

\* However many backups there are, none disables the storage under a running task, as
\* long as nothing unplanned happened.
THEOREM TasksKeepStorage == Spec => []TaskKeepsStorage
<1>1. QuietInv => TaskKeepsStorage
  BY DEF QuietInv, QuietOK, StorageKept, SeesToTask, TaskKeepsStorage
<1> QED BY <1>1, QuietInvHolds, PTL
===============================================================================
