------------------------- MODULE WolfSession_proofs -------------------------
(***************************************************************************)
(* Theorems about WolfSession, for any number of start requests, clients,  *)
(* restarts and interferences, whatever fails.                             *)
(***************************************************************************)
EXTENDS WolfSession, TLAPS

(* What the building blocks of the actions preserve. *)

LEMMA GotoType ==
    ASSUME TypeOK, NEW t \in Threads, NEW step \in Steps, Goto(t, step)
    PROVE  pc' \in [Threads -> Steps]
BY DEF TypeOK, Goto

LEMMA HomeStep == \A t \in Threads : Home(t) \in {"done", "idle"} /\ Home(t) \in Steps
BY DEF Home, Steps

LEMMA NoOpType == NoOp \in Ops
BY DEF NoOp, Ops, Levels, Off, StackUp

LEMMA FinishType ==
    ASSUME TypeOK, NEW t \in Threads, Finish(t)
    PROVE  /\ pc' \in [Threads -> Steps]
           /\ lock' \in Threads \cup {NoThread}
           /\ op' \in Ops
<1>1. pc' \in [Threads -> Steps]
  BY HomeStep, GotoType DEF Finish
<1>2. lock' \in Threads \cup {NoThread} /\ op' \in Ops
  BY NoOpType DEF TypeOK, Finish
<1>3. QED
  BY <1>1, <1>2

LEMMA ProceedType ==
    ASSUME TypeOK, NEW t \in Threads, NEW step \in Steps, Proceed(t, step)
    PROVE  /\ pc' \in [Threads -> Steps]
           /\ lock' \in Threads \cup {NoThread}
           /\ op' \in Ops
BY GotoType, FinishType DEF TypeOK, Proceed

LEMMA SaveType ==
    ASSUME TypeOK, NEW ok \in BOOLEAN, Save(ok), phase' \in Phases, started' \in BOOLEAN,
           deadline' \in Sessions \cup {NoSession}
    PROVE  /\ disk' \in [phase : Phases, started : BOOLEAN, deadline : Sessions \cup {NoSession}]
           /\ faults' \subseteq FaultKinds
<1>1. CASE ok
  BY <1>1 DEF TypeOK, Save
<1>2. CASE ~ok
  BY <1>2 DEF TypeOK, Save, FaultKinds
<1>3. QED
  BY <1>1, <1>2

LEMMA SaveThenType ==
    ASSUME TypeOK, NEW t \in Threads, NEW step \in Steps, SaveThen(t, step),
           phase' \in Phases, started' \in BOOLEAN, deadline' \in Sessions \cup {NoSession}
    PROVE  /\ disk' \in [phase : Phases, started : BOOLEAN, deadline : Sessions \cup {NoSession}]
           /\ faults' \subseteq FaultKinds
           /\ pc' \in [Threads -> Steps]
           /\ lock' \in Threads \cup {NoThread}
           /\ op' \in Ops
<1>1. PICK ok \in BOOLEAN : Save(ok) /\ (IF ok THEN Proceed(t, step) ELSE Finish(t))
  BY DEF SaveThen, Saves
<1>2. QED
  BY <1>1, SaveType, ProceedType, FinishType

LEMMA ForgetType ==
    ASSUME TypeOK, NEW t \in Threads, Forget(t)
    PROVE  obs' \in [Threads -> Observations]
BY DEF TypeOK, Forget, Observations, Levels, Off, StackUp

LEMMA ViewsType == \A l \in Levels : Views(l) \subseteq Observations
BY DEF Views, Observations, Levels, Off, HostUp, VmUp, StackUp, WolfUnknown, GuestSilent

\* The machine only ever moves between its levels.
LEMMA CallsType ==
    ASSUME TypeOK
    PROVE  /\ \A from, to \in Levels : \A call \in Calls(from, to) :
                 call.ok \in BOOLEAN /\ call.level \in Levels
           /\ \A call \in Refused : call.ok \in BOOLEAN /\ call.level \in Levels
BY DEF TypeOK, Calls, Refused

LEMMA LowerType ==
    ASSUME TypeOK
    PROVE  \A l \in Levels : Lower(l) \in Levels
BY DEF TypeOK, Lower

LEMMA LevelsAre == {Off, Locked, HostUp, VmUp, StackUp} \subseteq Levels
BY DEF Off, Locked, HostUp, VmUp, StackUp, Levels

LEMMA ObserveType ==
    ASSUME TypeOK, NEW t \in Threads, NEW from \in Steps, NEW to \in Steps, Observe(t, from, to)
    PROVE  TypeOK'
<1>1. CASE \E o \in Views(level) :
            /\ obs' = [obs EXCEPT ![t] = o]
            /\ token' = (token \/ o >= HostUp)
            /\ Goto(t, to)
            /\ UNCHANGED <<lock, op, faults>>
  <2>1. PICK o \in Observations :
            /\ obs' = [obs EXCEPT ![t] = o]
            /\ token' = (token \/ o >= HostUp)
            /\ Goto(t, to)
            /\ UNCHANGED <<lock, op, faults>>
    BY <1>1, ViewsType DEF TypeOK
  <2>2. obs' \in [Threads -> Observations]
    BY <2>1 DEF TypeOK
  <2>3. token' \in BOOLEAN
    BY <2>1
  <2>4. QED
    BY <2>1, <2>2, <2>3, GotoType DEF TypeOK, Observe, memory, machine
<1>2. CASE faults' = faults \cup {"token"} /\ Finish(t) /\ UNCHANGED <<obs, token>>
  <2>1. faults' \subseteq FaultKinds
    BY <1>2 DEF TypeOK, FaultKinds
  <2>2. QED
    BY <1>2, <2>1, FinishType DEF TypeOK, Observe, memory, machine
<1>3. QED
  BY <1>1, <1>2 DEF Observe

LEMMA ReconcileType ==
    ASSUME TypeOK, NEW t \in Threads, NEW from \in Steps, NEW to \in Steps, Reconcile(t, from, to)
    PROVE  TypeOK'
<1>1. obs' \in [Threads -> Observations]
  BY ForgetType DEF Reconcile, TypeOK
<1>2. CASE Loses(t)
  <2>1. /\ phase' = "failed" /\ deadline' = NoSession /\ armed' = NoSession
        /\ UNCHANGED started
        /\ SaveThen(t, to)
    BY <1>2 DEF Reconcile
  <2>2. phase' \in Phases /\ started' \in BOOLEAN /\ deadline' \in Sessions \cup {NoSession}
    BY <2>1 DEF TypeOK, Phases
  <2>3. QED
    BY <1>1, <2>1, <2>2, SaveThenType DEF Reconcile, TypeOK, machine
<1>3. CASE ~Loses(t)
  BY <1>1, <1>3, ProceedType DEF Reconcile, TypeOK, memory, machine
<1>4. QED
  BY <1>2, <1>3

LEMMA TryStepType ==
    ASSUME TypeOK, NEW t \in Threads, NEW from \in Steps, NEW to \in Steps, NEW set \in Ops,
           NEW calls, \A call \in calls : call.ok \in BOOLEAN /\ call.level \in Levels,
           TryStep(t, from, calls, to, set)
    PROVE  TypeOK'
<1>1. PICK call \in calls :
         /\ level' = call.level
         /\ IF call.ok THEN Goto(t, to) /\ op' = set
                       ELSE Goto(t, "c_compose") /\ UNCHANGED op
  BY DEF TryStep
<1>2. pc' \in [Threads -> Steps] /\ op' \in Ops
  <2>1. "c_compose" \in Steps
    BY DEF Steps, StartSteps
  <2>2. QED
    BY <1>1, <2>1, GotoType DEF TypeOK
<1>3. level' \in Levels
  BY <1>1
<1>4. QED
  BY <1>2, <1>3 DEF TryStep, TypeOK, memory

LEMMA CleanStepType ==
    ASSUME TypeOK, NEW t \in Threads, NEW from \in Steps, NEW to \in Steps,
           NEW flag \in BOOLEAN, NEW reach \in Levels, NEW target \in Levels,
           CleanStep(t, from, flag, reach, target, to)
    PROVE  TypeOK'
<1>1. pc' \in [Threads -> Steps]
  BY GotoType DEF CleanStep
<1>2. CASE flag
  <2>1. PICK call \in (IF level >= reach THEN Calls(level, Lower(target)) ELSE Refused) :
          /\ level' = call.level
          /\ token' = (token \/ call.ok)
          /\ op' = [op EXCEPT !.quiet = @ /\ (call.ok \/ level < reach)]
    BY <1>2 DEF CleanStep
  <2>2. level' \in Levels
    BY <2>1, CallsType, LowerType DEF TypeOK
  <2>3. op' \in Ops
    BY <2>1 DEF TypeOK, Ops
  <2>4. token' \in BOOLEAN
    BY <2>1
  <2>5. QED
    BY <1>1, <2>2, <2>3, <2>4 DEF CleanStep, TypeOK, memory
<1>3. CASE ~flag
  BY <1>1, <1>3 DEF CleanStep, TypeOK, memory
<1>4. QED
  BY <1>2, <1>3

LEMMA StopStepType ==
    ASSUME TypeOK, NEW t \in Threads, NEW from \in Steps, NEW to \in Steps,
           NEW reach \in Levels, NEW target \in Levels,
           StopStep(t, from, reach, target, to)
    PROVE  TypeOK'
<1>1. PICK call \in (IF level >= reach THEN Calls(level, Lower(target)) ELSE Refused) :
        /\ level' = call.level
        /\ op' = [op EXCEPT !.errors = @ \/ ~call.ok]
  BY DEF StopStep
<1>2. level' \in Levels
  BY <1>1, CallsType, LowerType DEF TypeOK
<1>3. op' \in Ops
  BY <1>1 DEF TypeOK, Ops
<1>4. pc' \in [Threads -> Steps]
  BY GotoType DEF StopStep
<1>5. QED
  BY <1>2, <1>3, <1>4 DEF StopStep, TypeOK, memory

LEMMA ViewType ==
    ASSUME TypeOK, NEW t \in Threads, ViewThread(t)
    PROVE  TypeOK'
<1>1. {"observe", "reconcile", "idle", "done"} \subseteq Steps
  BY DEF Steps, ViewSteps
<1>2. CASE ViewObserve(t)
  BY <1>1, <1>2, ObserveType DEF ViewObserve
<1>3. CASE ViewReconcile(t)
  BY <1>1, <1>3, HomeStep, ReconcileType DEF ViewReconcile
<1>4. QED
  BY <1>2, <1>3 DEF ViewThread

LEMMA StartType ==
    ASSUME TypeOK, NEW t \in Threads, StartThread(t)
    PROVE  TypeOK'
<1> DEFINE Effort == Wake(t) \/ Unlock(t) \/ StartVm(t) \/ WaitGuest(t) \/ ComposeUp(t)
           Clean == CleanCompose(t) \/ CleanVm(t) \/ CleanHost(t)
<1>1. t[2] \in Sessions
  BY DEF StartThread, Starters
<1>2. StartSteps \subseteq Steps /\ "observe" \in Steps
  BY DEF Steps, ViewSteps
<1>3. CASE StartObserve(t)
  BY <1>2, <1>3, ObserveType DEF StartObserve, StartSteps
<1>4. CASE StartReconcile(t)
  BY <1>2, <1>4, ReconcileType DEF StartReconcile, StartSteps
<1>5. CASE Adopt(t)
  BY <1>1, <1>2, <1>5, SaveThenType, ForgetType DEF Adopt, StartSteps, TypeOK, Phases, machine
<1>6. CASE BeginStart(t)
  BY <1>2, <1>6, SaveThenType, ForgetType DEF BeginStart, StartSteps, TypeOK, Phases, machine
<1>7. CASE CheckHost(t)
  <2>1. pc' \in [Threads -> Steps]
    BY <1>2, <1>7, GotoType DEF CheckHost, StartSteps
  <2>2. QED
    BY <1>7, <2>1 DEF CheckHost, TypeOK, memory, machine
<1>8. CASE CheckVm(t)
  <2>1. pc' \in [Threads -> Steps]
    BY <1>2, <1>8, GotoType DEF CheckVm, StartSteps
  <2>2. QED
    BY <1>8, <2>1 DEF CheckVm, TypeOK, memory, machine
<1>9. CASE Effort
  <2>1. /\ op \in Ops
        /\ [op EXCEPT !.host = TRUE] \in Ops
        /\ [op EXCEPT !.vm = TRUE] \in Ops
        /\ [op EXCEPT !.compose = TRUE] \in Ops
    BY DEF TypeOK, Ops
  <2>2. {"s_wake", "s_unlock", "s_checkvm", "s_vm", "s_guest", "s_compose", "s_finish"} \subseteq Steps
    BY <1>2 DEF StartSteps
  <2>3. level \in Levels
    BY DEF TypeOK
  <2>4. CASE Wake(t)
    BY <2>1, <2>2, <2>3, <2>4, LevelsAre, CallsType, TryStepType DEF Wake
  <2>5. CASE Unlock(t)
    BY <2>1, <2>2, <2>3, <2>5, LevelsAre, CallsType, TryStepType DEF Unlock
  <2>6. CASE StartVm(t)
    BY <2>1, <2>2, <2>3, <2>6, LevelsAre, CallsType, TryStepType DEF StartVm
  <2>7. CASE WaitGuest(t)
    BY <2>1, <2>2, <2>3, <2>7, LevelsAre, CallsType, TryStepType DEF WaitGuest
  <2>8. CASE ComposeUp(t)
    BY <2>1, <2>2, <2>3, <2>8, LevelsAre, CallsType, TryStepType DEF ComposeUp
  <2>9. QED
    BY <1>9, <2>4, <2>5, <2>6, <2>7, <2>8
<1>10. CASE FinishStart(t)
  BY <1>1, <1>2, <1>10, SaveThenType DEF FinishStart, StartSteps, TypeOK, Phases, machine
<1>11. CASE Schedule(t)
  BY <1>1, <1>2, <1>11, GotoType DEF Schedule, TypeOK, memory, machine
<1>12. CASE Clean
  <2>1. op.compose \in BOOLEAN /\ op.vm \in BOOLEAN /\ op.host \in BOOLEAN
    BY DEF TypeOK, Ops
  <2>2. {"c_compose", "c_vm", "c_host", "s_fail"} \subseteq Steps
    BY <1>2 DEF StartSteps
  <2>3. QED
    BY <1>12, <2>1, <2>2, LevelsAre, CleanStepType DEF CleanCompose, CleanVm, CleanHost
<1>13. CASE FailStart(t)
  <2>1. phase' \in Phases /\ started' \in BOOLEAN /\ deadline' \in Sessions \cup {NoSession}
    BY <1>13 DEF FailStart, TypeOK, Phases
  <2>2. PICK ok \in BOOLEAN : Save(ok)
    BY <1>13 DEF FailStart, Saves
  <2>3. QED
    BY <1>13, <2>1, <2>2, SaveType, FinishType DEF FailStart, TypeOK, machine
<1>14. QED
  BY <1>3, <1>4, <1>5, <1>6, <1>7, <1>8, <1>9, <1>10, <1>11, <1>12, <1>13 DEF StartThread

LEMMA StopType ==
    ASSUME TypeOK, NEW t \in Threads, StopThread(t)
    PROVE  TypeOK'
<1> DEFINE Shut == StopCompose(t) \/ StopVm(t) \/ StopHost(t)
<1>1. StopSteps \subseteq Steps /\ "observe" \in Steps
  BY DEF Steps, ViewSteps
<1>2. CASE CancelTimeout(t)
  BY <1>1, <1>2, GotoType DEF CancelTimeout, StopSteps, TypeOK, memory, machine
<1>3. CASE StopObserve(t)
  BY <1>1, <1>3, ObserveType DEF StopObserve, StopSteps
<1>4. CASE StopReconcile(t)
  BY <1>1, <1>4, ReconcileType DEF StopReconcile, StopSteps
<1>5. CASE StopSkipped(t)
  BY <1>1, <1>5, GotoType, ForgetType DEF StopSkipped, TypeOK, memory, machine
<1>6. CASE BeginStop(t)
  <2>1. /\ phase' \in Phases /\ started' \in BOOLEAN /\ deadline' \in Sessions \cup {NoSession}
        /\ obs' \in [Threads -> Observations]
    BY <1>6, ForgetType DEF BeginStop, TypeOK, Phases
  <2>2. PICK ok \in BOOLEAN :
          /\ Save(ok)
          /\ IF ok THEN /\ op' = [op EXCEPT !.errors = started /\ obs[t] < HostUp]
                        /\ Goto(t, IF obs[t] < HostUp THEN "p_finish" ELSE "p_compose")
                        /\ UNCHANGED lock
                   ELSE Finish(t)
    BY <1>6 DEF BeginStop, Saves
  <2>3. pc' \in [Threads -> Steps] /\ lock' \in Threads \cup {NoThread} /\ op' \in Ops
    <3>1. CASE ok
      <4>1. op' \in Ops
        BY <2>2, <3>1 DEF TypeOK, Ops
      <4>2. pc' \in [Threads -> Steps]
        BY <1>1, <2>2, <3>1, GotoType DEF StopSteps
      <4>3. QED
        BY <2>2, <3>1, <4>1, <4>2 DEF TypeOK
    <3>2. CASE ~ok
      BY <2>2, <3>2, FinishType
    <3>3. QED
      BY <3>1, <3>2
  <2>4. QED
    BY <1>6, <2>1, <2>2, <2>3, SaveType DEF BeginStop, TypeOK, machine
<1>7. CASE Shut
  <2>1. {"p_compose", "p_vm", "p_host", "p_finish"} \subseteq Steps
    BY <1>1 DEF StopSteps
  <2>2. QED
    BY <1>7, <2>1, LevelsAre, StopStepType DEF StopCompose, StopVm, StopHost
<1>8. CASE FinishStop(t)
  <2>1. phase' \in Phases /\ started' \in BOOLEAN /\ deadline' \in Sessions \cup {NoSession}
    BY <1>8 DEF FinishStop, TypeOK, Phases
  <2>2. (IF op.errors THEN Home(t) ELSE "observe") \in Steps
    BY <1>1, HomeStep
  <2>3. QED
    BY <1>8, <2>1, <2>2, SaveThenType DEF FinishStop, TypeOK, machine
<1>9. QED
  BY <1>2, <1>3, <1>4, <1>5, <1>6, <1>7, <1>8 DEF StopThread

LEMMA RestartType ==
    ASSUME TypeOK, Restart
    PROVE  TypeOK'
<1>1. PICK state \in {Load(disk)} \cup {LoadFailed} :
         /\ phase' = state.phase /\ started' = state.started /\ deadline' = state.deadline
         /\ armed' = IF state.phase = "running" THEN state.deadline ELSE NoSession
         /\ faults' = IF state = Load(disk) THEN {} ELSE {"save"}
  BY DEF Restart
<1>2. state \in [phase : Phases, started : BOOLEAN, deadline : Sessions \cup {NoSession}]
  <2>1. Load(disk) \in [phase : Phases, started : BOOLEAN, deadline : Sessions \cup {NoSession}]
    BY DEF TypeOK, Load, Phases
  <2>2. LoadFailed \in [phase : Phases, started : BOOLEAN, deadline : Sessions \cup {NoSession}]
    BY DEF LoadFailed, Phases
  <2>3. QED
    BY <1>1, <2>1, <2>2
<1>3. pc' \in [Threads -> Steps]
  BY HomeStep DEF Restart, Steps
<1>4. obs' \in [Threads -> Observations]
  BY LevelsAre DEF Restart, Observations
<1>5. restarts' \in 0 .. MaxRestarts
  BY WolfConstants DEF Restart, TypeOK
<1>6. faults' \subseteq FaultKinds
  BY <1>1 DEF FaultKinds
<1>7. QED
  BY <1>1, <1>2, <1>3, <1>4, <1>5, <1>6, NoOpType DEF Restart, TypeOK, machine

LEMMA TypeStep == TypeOK /\ [Next]_vars => TypeOK'
<1> SUFFICES ASSUME TypeOK, [Next]_vars PROVE TypeOK'
  OBVIOUS
<1>1. {"idle", "lock", "done", "observe", "s_observe", "p_cancel"} \subseteq Steps
  BY DEF Steps, ViewSteps, StartSteps, StopSteps
<1>2. ASSUME NEW t \in Threads, Arrive(t) PROVE TypeOK'
  BY <1>1, <1>2, GotoType DEF Arrive, TypeOK, memory, machine
<1>3. ASSUME NEW t \in Threads, Acquire(t) PROVE TypeOK'
  <2>1. [NoOp EXCEPT !.base = level] \in Ops
    BY NoOpType DEF TypeOK, Ops
  <2>2. QED
    BY <1>1, <1>3, <2>1, GotoType DEF Acquire, TypeOK, memory, machine
<1>4. ASSUME NEW t \in Threads, Step(t) PROVE TypeOK'
  BY <1>4, ViewType, StartType, StopType DEF Step
<1>5. ASSUME NEW s \in Sessions, Fire(s) PROVE TypeOK'
  <2>1. <<"timeout", s>> \in Threads
    BY DEF Threads, Timers
  <2>2. QED
    BY <1>1, <1>5, <2>1, GotoType DEF Fire, TypeOK, memory, machine
<1>6. ASSUME NEW s \in Sessions, DeadlinePasses(s) PROVE TypeOK'
  BY <1>6 DEF DeadlinePasses, TypeOK, memory, machine
<1>7. CASE Restart
  BY <1>7, RestartType
<1>8. CASE Meddle
  <2>1. meddles' \in 0 .. MaxMeddles
    BY <1>8, WolfConstants DEF Meddle, TypeOK
  <2>2. op' \in Ops
    BY <1>8 DEF Meddle, TypeOK, Ops
  <2>3. QED
    BY <1>8, <2>1, <2>2 DEF Meddle, TypeOK, memory
<1>9. CASE UNCHANGED vars
  BY <1>9 DEF TypeOK, vars, memory, machine
<1>10. QED
  BY <1>2, <1>3, <1>4, <1>5, <1>6, <1>7, <1>8, <1>9 DEF Next

LEMMA TypeInit == Init => TypeOK
<1> SUFFICES ASSUME Init PROVE TypeOK
  OBVIOUS
<1>1. pc \in [Threads -> Steps] /\ obs \in [Threads -> Observations]
  BY LevelsAre DEF Init, Steps, Observations
<1>2. restarts \in 0 .. MaxRestarts /\ meddles \in 0 .. MaxMeddles
  BY WolfConstants DEF Init
<1>3. QED
  BY <1>1, <1>2, NoOpType DEF Init, TypeOK, Phases, FaultKinds

\* Every variable keeps its type: in particular no thread observes, and no call
\* leaves, the machine at a level that does not exist, and the session file always
\* holds a phase that load_state accepts.
THEOREM TypeCorrect == Spec => []TypeOK
BY TypeInit, TypeStep, PTL DEF Spec

-----------------------------------------------------------------------------
(***************************************************************************)
(* The inductive invariant.  TransientPhaseIsOwned and RunningSessionIsTimed *)
(* are not inductive alone: that an operation which wrote a transient phase *)
(* is still the one to leave it takes the file lock (LockOwned) and the     *)
(* phase each step relies on (PhaseOwned); what a restart loads takes the   *)
(* agreement of memory and file (DiskFollows).                              *)
(***************************************************************************)
LockOwned ==
    \A t \in Threads :
        /\ pc[t] \in StartSteps => lock = t /\ t \in Starters
        /\ pc[t] \in StopSteps => lock = t

PhaseOwned ==
    \A t \in Threads :
        /\ pc[t] \in Starting => phase = "starting"
        /\ pc[t] \in Stopping => phase = "stopping"
        /\ pc[t] = "s_decide" => phase \in {"idle", "failed"}
        /\ pc[t] = "s_schedule" /\ phase = "running" => deadline = t[2]

DiskFollows ==
    "save" \notin faults =>
        /\ disk.started = started /\ disk.deadline = deadline
        /\ disk.phase = phase \/ (disk.phase \in Transient /\ phase = "failed")

SavesWork == ~IoMayFail => "save" \notin faults

Core ==
    /\ LockOwned
    /\ PhaseOwned
    /\ TransientPhaseIsOwned
    /\ DiskFollows
    /\ RunningSessionIsTimed
    /\ SavesWork

\* Moving one program counter, and what a return does to the lock.
LEMMA GotoEffect ==
    ASSUME TypeOK, NEW t \in Threads, NEW step, Goto(t, step)
    PROVE  pc'[t] = step /\ \A u \in Threads \ {t} : pc'[u] = pc[u]
BY DEF TypeOK, Goto

LEMMA FinishEffect ==
    ASSUME TypeOK, NEW t \in Threads, Finish(t)
    PROVE  /\ pc'[t] \in {"done", "idle"}
           /\ \A u \in Threads \ {t} : pc'[u] = pc[u]
           /\ lock = t => lock' = NoThread
           /\ lock # t => lock' = lock
BY HomeStep, GotoEffect DEF Finish

LEMMA Disjoint ==
    /\ Starting \cap Stopping = {}
    /\ Starting \subseteq StartSteps /\ Stopping \subseteq StopSteps
    /\ StartSteps \cap StopSteps = {}
    /\ {"done", "idle", "lock", "observe", "reconcile"} \cap (StartSteps \cup StopSteps) = {}
    /\ "s_schedule" \in StartSteps \ Starting
    /\ "s_decide" \in StartSteps \ Starting
    /\ {"p_observe", "p_reconcile", "p_begin"} \subseteq StopSteps \ Stopping
BY DEF Starting, Stopping, StartSteps, StopSteps

LEMMA NoThreadIsNone == NoThread \notin Threads
BY WolfConstants DEF Threads, Starters, Timers, Stoppers, Viewers

\* A thread goes on within its operation, or leaves it, and nothing else moves.
LEMMA QuietStep ==
    ASSUME TypeOK, Core, NEW t \in Threads, NEW step, Goto(t, step),
           UNCHANGED <<phase, started, deadline, disk, armed, lock, faults>>,
           \/ pc[t] \in Starting /\ step \in Starting
           \/ pc[t] \in Stopping /\ step \in Stopping
           \/ pc[t] = "s_observe" /\ step = "s_reconcile"
           \/ pc[t] = "p_observe" /\ step = "p_reconcile"
           \/ pc[t] = "p_begin" /\ step = "observe" /\ phase \in Transient
           \/ pc[t] \in {"idle", "observe"} /\ step \in {"lock", "observe", "reconcile"}
    PROVE  Core'
<1>1. pc'[t] = step /\ \A u \in Threads \ {t} : pc'[u] = pc[u]
  BY GotoEffect
<1>2. step \in StartSteps => pc[t] \in StartSteps
  BY Disjoint DEF StartSteps
<1>3. step \in StopSteps => pc[t] \in StopSteps
  BY Disjoint DEF StopSteps
<1>4. /\ step \in Starting => pc[t] \in Starting
      /\ step \in Stopping => pc[t] \in Stopping
      /\ step \notin {"s_decide", "s_schedule"}
  BY DEF Starting, Stopping
<1>5. /\ pc[t] \in Starting => step \in Starting
      /\ pc[t] \in Stopping => step \in Stopping
      /\ pc[t] # "s_schedule"
      /\ pc[t] \in {"p_observe", "p_reconcile"} => step \in {"p_reconcile", "p_begin"}
      /\ pc[t] = "p_begin" => phase \in Transient
  BY DEF Starting, Stopping
<1>6. LockOwned'
  BY <1>1, <1>2, <1>3 DEF Core, LockOwned
<1>7. PhaseOwned'
  BY <1>1, <1>4 DEF Core, PhaseOwned
<1>8. TransientPhaseIsOwned'
  <2>1. lock \in Threads => pc'[lock] = pc[lock] \/ (lock = t /\ pc'[lock] = step)
    BY <1>1
  <2>2. QED
    BY <1>5, <2>1, NoThreadIsNone DEF Core, TransientPhaseIsOwned, TypeOK, Threads
<1>9. RunningSessionIsTimed'
  <2>1. lock \in Threads => pc'[lock] = pc[lock] \/ (lock = t /\ pc'[lock] = step)
    BY <1>1
  <2>2. QED
    BY <1>5, <2>1, NoThreadIsNone DEF Core, RunningSessionIsTimed, SessionIsTimed, TypeOK, Threads, Transient
<1>10. QED
  BY <1>6, <1>7, <1>8, <1>9 DEF Core, DiskFollows, SavesWork

\* A step that saves keeps memory and file in agreement, or records the fault.
LEMMA SaveEffect ==
    ASSUME TypeOK, Core, NEW ok \in Saves, Save(ok)
    PROVE  /\ DiskFollows' /\ SavesWork'
           /\ faults \subseteq faults'
           /\ ok => faults' = faults
           /\ ~ok => "save" \in faults'
<1>1. CASE ok
  BY <1>1 DEF Save, DiskFollows, SavesWork, Core
<1>2. CASE ~ok
  BY <1>2 DEF Save, DiskFollows, SavesWork, Core, Saves
<1>3. QED
  BY <1>1, <1>2

LEMMA ProceedEffect ==
    ASSUME TypeOK, NEW t \in Threads, NEW step, Proceed(t, step)
    PROVE  /\ \A u \in Threads \ {t} : pc'[u] = pc[u]
           /\ \/ pc'[t] = step /\ lock' = lock
              \/ pc'[t] \in {"done", "idle"} /\ (IF lock = t THEN lock' = NoThread ELSE lock' = lock)
BY GotoEffect, FinishEffect DEF Proceed

LEMMA SaveThenEffect ==
    ASSUME TypeOK, Core, NEW t \in Threads, NEW step, SaveThen(t, step)
    PROVE  /\ DiskFollows' /\ SavesWork'
           /\ faults \subseteq faults'
           /\ \A u \in Threads \ {t} : pc'[u] = pc[u]
           /\ \/ pc'[t] = step /\ lock' = lock
              \/ /\ pc'[t] \in {"done", "idle"}
                 /\ IF lock = t THEN lock' = NoThread ELSE lock' = lock
                 /\ step \in {"done", "idle"} \/ "save" \in faults'
<1>1. PICK ok \in Saves : Save(ok) /\ (IF ok THEN Proceed(t, step) ELSE Finish(t))
  BY DEF SaveThen
<1>2. CASE ok
  <2>1. pc'[t] \in {"done", "idle"} /\ pc'[t] # step => FALSE
    BY <1>1, <1>2, GotoEffect, HomeStep, FinishEffect DEF Proceed, Finish
  <2>2. QED
    BY <1>1, <1>2, <2>1, SaveEffect, ProceedEffect
<1>3. CASE ~ok
  BY <1>1, <1>3, SaveEffect, FinishEffect
<1>4. QED
  BY <1>2, <1>3

\* What every step of a thread does to the program counters and the lock: it moves
\* its own counter, and takes nobody else's lock.
Moves(t) ==
    /\ \A u \in Threads \ {t} : pc'[u] = pc[u]
    /\ \/ lock' = lock
       \/ lock = t /\ lock' = NoThread /\ pc'[t] \in {"done", "idle"}

LEMMA MovesLock ==
    ASSUME TypeOK, Core, NEW t \in Threads, Moves(t),
           pc'[t] \in StartSteps => pc[t] \in StartSteps,
           pc'[t] \in StopSteps => pc[t] \in StopSteps
    PROVE  LockOwned'
BY Disjoint DEF Core, LockOwned, Moves

\* The lock holder is the thread that moved, or has not moved.
LEMMA Holder ==
    ASSUME TypeOK, NEW t \in Threads, Moves(t), lock # NoThread
    PROVE  \/ lock # t /\ lock' = lock /\ pc'[lock] = pc[lock]
           \/ lock = t
BY DEF TypeOK, Moves

LEMMA ReconcileCore ==
    ASSUME TypeOK, Core, NEW t \in Threads, NEW from, NEW to, Reconcile(t, from, to),
           \/ from = "reconcile" /\ to \in {"idle", "done"}
           \/ from = "p_reconcile" /\ to = "p_begin"
           \/ from = "s_reconcile" /\ to = "s_decide"
              /\ (Loses(t) \/ phase \notin {"starting", "running", "stopping"})
           \/ from = "s_reconcile" /\ to = "observe" /\ ~Loses(t)
    PROVE  Core'
<1>1. /\ pc[t] = from
      /\ from \notin Starting \cup Stopping /\ from \notin {"s_decide", "s_schedule"}
      /\ to \notin Starting \cup Stopping /\ to # "s_schedule"
      /\ to \in StartSteps => from \in StartSteps
      /\ to \in StopSteps => from \in StopSteps
      /\ {"done", "idle"} \cap (Starting \cup Stopping \cup StartSteps \cup StopSteps) = {}
  BY DEF Reconcile, Starting, Stopping, StartSteps, StopSteps
<1>2. CASE Loses(t)
  <2>1. /\ phase = "running" /\ phase' = "failed" /\ SaveThen(t, to) /\ UNCHANGED started
    BY <1>2 DEF Reconcile, Loses
  <2>2. /\ DiskFollows' /\ SavesWork' /\ Moves(t)
        /\ pc'[t] \in {"done", "idle", to}
    BY <2>1, SaveThenEffect DEF Moves
  <2>3. LockOwned'
    BY <1>1, <2>2, MovesLock
  <2>4. PhaseOwned'
    BY <1>1, <2>1, <2>2 DEF Core, PhaseOwned, Moves
  <2>5. QED
    BY <2>1, <2>2, <2>3, <2>4 DEF Core, TransientPhaseIsOwned, RunningSessionIsTimed
<1>3. CASE ~Loses(t)
  <2>1. Proceed(t, to) /\ UNCHANGED <<phase, started, deadline, armed, disk, faults>>
    BY <1>3 DEF Reconcile, memory
  <2>2. Moves(t) /\ pc'[t] \in {"done", "idle", to}
    BY <2>1, ProceedEffect DEF Moves
  <2>3. LockOwned'
    BY <1>1, <2>2, MovesLock
  <2>4. PhaseOwned'
    BY <1>1, <1>3, <2>1, <2>2 DEF Core, PhaseOwned, Moves, TypeOK, Phases
  <2>5. TransientPhaseIsOwned'
    BY <1>1, <2>1, <2>2, Holder, NoThreadIsNone DEF Core, TransientPhaseIsOwned, TypeOK, Threads
  <2>6. RunningSessionIsTimed'
    <3>1. pc[t] = "p_reconcile" => pc'[t] = "p_begin" /\ lock' = lock
      <4>1. "p_begin" \notin {"idle", "done"}
        OBVIOUS
      <4>2. QED
        BY <1>1, <2>1, <4>1, HomeStep, GotoEffect DEF Proceed
    <3>2. QED
      BY <1>1, <2>1, <2>2, <3>1, Holder, NoThreadIsNone DEF Core, RunningSessionIsTimed, SessionIsTimed, TypeOK, Threads
  <2>7. QED
    BY <2>1, <2>3, <2>4, <2>5, <2>6 DEF Core, DiskFollows, SavesWork
<1>4. QED
  BY <1>2, <1>3

LEMMA ObserveCore ==
    ASSUME TypeOK, Core, NEW t \in Threads, NEW from, NEW to, Observe(t, from, to),
           \/ from = "observe" /\ to = "reconcile"
           \/ from = "s_observe" /\ to = "s_reconcile"
           \/ from = "p_observe" /\ to = "p_reconcile"
    PROVE  Core'
<1>1. CASE Goto(t, to) /\ UNCHANGED <<lock, op, faults>>
  BY <1>1, QuietStep DEF Observe, memory
<1>2. CASE faults' = faults \cup {"token"} /\ Finish(t) /\ UNCHANGED <<obs, token>>
  <2>1. pc[t] = from /\ from \notin Starting \cup Stopping
    BY DEF Observe, Starting, Stopping
  <2>2. UNCHANGED <<phase, started, deadline, disk>>
    BY DEF Observe, memory
  <2>3. Moves(t) /\ pc'[t] \in {"done", "idle"}
    BY <1>2, FinishEffect DEF Moves
  <2>4. {"done", "idle"} \cap (Starting \cup Stopping \cup StartSteps \cup StopSteps) = {}
    BY DEF Starting, Stopping, StartSteps, StopSteps
  <2>5. LockOwned'
    BY <2>3, <2>4, MovesLock
  <2>6. PhaseOwned'
    BY <2>2, <2>3, <2>4 DEF Core, PhaseOwned, Moves
  <2>7. TransientPhaseIsOwned'
    BY <1>2, <2>1, <2>2, <2>3, Holder, NoThreadIsNone DEF Core, TransientPhaseIsOwned, TypeOK, Threads
  <2>8. QED
    BY <1>2, <2>2, <2>5, <2>6, <2>7 DEF Core, DiskFollows, SavesWork, RunningSessionIsTimed
<1>3. QED
  BY <1>1, <1>2 DEF Observe

LEMMA ViewCore ==
    ASSUME TypeOK, Core, NEW t \in Threads, ViewThread(t)
    PROVE  Core'
BY ObserveCore, ReconcileCore, HomeStep DEF ViewThread, ViewObserve, ViewReconcile

\* The two ways into a running session.
LEMMA BecomesRunning ==
    ASSUME TypeOK, Core, NEW t \in Starters, phase' = "running", deadline' = t[2],
           SaveThen(t, "s_schedule"), pc[t] \in {"s_decide", "s_finish"}
    PROVE  Core'
<1>1. t \in Threads
  BY DEF Threads
<1>2. /\ DiskFollows' /\ SavesWork' /\ Moves(t)
      /\ \/ pc'[t] = "s_schedule" /\ lock' = lock
         \/ pc'[t] \in {"done", "idle"} /\ "save" \in faults'
  BY <1>1, SaveThenEffect DEF Moves
<1>3. /\ pc[t] \in StartSteps /\ lock = t
      /\ {"done", "idle", "s_schedule"} \cap (Starting \cup Stopping \cup StopSteps) = {}
  BY <1>1 DEF Starting, Stopping, StartSteps, StopSteps, Core, LockOwned
<1>4. LockOwned'
  BY <1>1, <1>2, <1>3, MovesLock
<1>5. PhaseOwned'
  <2>1. \A u \in Threads \ {t} : pc[u] \notin StartSteps \cup StopSteps
    BY <1>3 DEF Core, LockOwned
  <2>2. QED
    BY <1>2, <1>3, <2>1, Disjoint DEF PhaseOwned, Moves
<1>6. QED
  BY <1>2, <1>3, <1>4, <1>5 DEF Core, TransientPhaseIsOwned, RunningSessionIsTimed, SessionIsTimed

\* A failed start clears its mark from the phase.
LEMMA FailStartCore ==
    ASSUME TypeOK, Core, NEW t \in Threads, t \in Starters, FailStart(t)
    PROVE  Core'
<1>1. PICK ok \in Saves : Save(ok)
  BY DEF FailStart
<1>2. DiskFollows' /\ SavesWork' /\ Moves(t) /\ pc'[t] \in {"done", "idle"}
  BY <1>1, SaveEffect, FinishEffect DEF FailStart, Moves
<1>3. /\ pc[t] \in StartSteps /\ lock = t
      /\ {"done", "idle"} \cap (StartSteps \cup StopSteps) = {}
  BY DEF StartSteps, StopSteps, Core, LockOwned, FailStart
<1>4. LockOwned'
  BY <1>2, <1>3, MovesLock
<1>5. PhaseOwned'
  <2>1. \A u \in Threads : pc'[u] \notin StartSteps \cup StopSteps
    BY <1>2, <1>3 DEF Core, LockOwned, Moves
  <2>2. QED
    BY <2>1, Disjoint DEF PhaseOwned
<1>6. QED
  BY <1>2, <1>4, <1>5 DEF Core, TransientPhaseIsOwned, RunningSessionIsTimed, FailStart

LEMMA StartCore ==
    ASSUME TypeOK, Core, NEW t \in Threads, StartThread(t)
    PROVE  Core'
<1> DEFINE Effort == Wake(t) \/ Unlock(t) \/ StartVm(t) \/ WaitGuest(t) \/ ComposeUp(t)
           Clean == CleanCompose(t) \/ CleanVm(t) \/ CleanHost(t)
           Check == CheckHost(t) \/ CheckVm(t)
<1>1. t \in Starters
  BY DEF StartThread
<1>2. CASE StartObserve(t)
  BY <1>2, ObserveCore DEF StartObserve
<1>3. CASE StartReconcile(t)
  BY <1>3, ReconcileCore DEF StartReconcile
<1>4. CASE Adopt(t)
  BY <1>1, <1>4, BecomesRunning DEF Adopt
<1>5. CASE BeginStart(t)
  <2>1. phase' = "starting" /\ pc[t] = "s_decide" /\ SaveThen(t, "s_host")
    BY <1>5 DEF BeginStart
  <2>2. /\ DiskFollows' /\ SavesWork' /\ Moves(t)
        /\ \/ pc'[t] = "s_host" /\ lock' = lock
           \/ pc'[t] \in {"done", "idle"} /\ "save" \in faults'
    BY <2>1, SaveThenEffect DEF Moves
  <2>3. /\ lock = t
        /\ \A u \in Threads \ {t} : pc[u] \notin StartSteps \cup StopSteps
    BY <2>1 DEF Core, LockOwned, StartSteps
  <2>4. /\ "s_host" \in Starting /\ pc[t] \in StartSteps
        /\ {"done", "idle", "s_host"} \cap (Stopping \cup StopSteps \cup {"s_schedule", "s_decide"}) = {}
    BY <2>1 DEF Starting, StartSteps, Stopping, StopSteps
  <2>5. LockOwned'
    BY <2>2, <2>4, MovesLock
  <2>6. PhaseOwned'
    BY <2>1, <2>2, <2>3, <2>4, Disjoint DEF PhaseOwned, Moves
  <2>7. QED
    BY <1>1, <2>1, <2>2, <2>3, <2>4, <2>5, <2>6 DEF Core, TransientPhaseIsOwned, RunningSessionIsTimed
<1>6. CASE Check
  <2>1. PICK step \in {"s_wake", "s_checkvm", "s_vm", "s_guest", "c_compose"} : Goto(t, step)
    BY <1>6 DEF CheckHost, CheckVm
  <2>2. pc[t] \in Starting /\ step \in Starting
    BY <1>6, <2>1 DEF CheckHost, CheckVm, Starting
  <2>3. QED
    BY <1>6, <2>1, <2>2, QuietStep DEF CheckHost, CheckVm, memory
<1>7. CASE Effort
  <2>1. PICK step \in Starting : Goto(t, step)
    BY <1>7 DEF Wake, Unlock, StartVm, WaitGuest, ComposeUp, TryStep, Starting
  <2>2. pc[t] \in Starting
    BY <1>7 DEF Wake, Unlock, StartVm, WaitGuest, ComposeUp, TryStep, Starting
  <2>3. UNCHANGED <<phase, started, deadline, disk, armed, lock, faults>>
    BY <1>7 DEF Wake, Unlock, StartVm, WaitGuest, ComposeUp, TryStep, memory
  <2>4. QED
    BY <2>1, <2>2, <2>3, QuietStep
<1>8. CASE FinishStart(t)
  BY <1>1, <1>8, BecomesRunning DEF FinishStart
<1>9. CASE Schedule(t)
  <2>1. Moves(t) /\ lock' = lock /\ pc'[t] = "observe"
    BY <1>9, GotoEffect DEF Schedule, Moves
  <2>2. LockOwned'
    BY <2>1, MovesLock, Disjoint
  <2>3. PhaseOwned'
    BY <1>9, <2>1, Disjoint DEF Core, PhaseOwned, Moves, Schedule, memory
  <2>4. TransientPhaseIsOwned'
    <3>1. pc[t] \notin Starting \cup Stopping
      BY <1>9, Disjoint DEF Schedule
    <3>2. QED
      BY <1>9, <2>1, <3>1, Holder, NoThreadIsNone DEF Core, TransientPhaseIsOwned, Schedule, memory, TypeOK, Threads
  <2>5. RunningSessionIsTimed'
    BY <1>9 DEF Core, PhaseOwned, RunningSessionIsTimed, SessionIsTimed, Schedule, memory
  <2>6. QED
    BY <1>9, <2>2, <2>3, <2>4, <2>5 DEF Core, DiskFollows, SavesWork, Schedule, memory
<1>10. CASE Clean
  <2>1. PICK step \in Starting : Goto(t, step)
    BY <1>10 DEF CleanCompose, CleanVm, CleanHost, CleanStep, Starting
  <2>2. pc[t] \in Starting
    BY <1>10 DEF CleanCompose, CleanVm, CleanHost, CleanStep, Starting
  <2>3. UNCHANGED <<phase, started, deadline, disk, armed, lock, faults>>
    BY <1>10 DEF CleanCompose, CleanVm, CleanHost, CleanStep, memory
  <2>4. QED
    BY <2>1, <2>2, <2>3, QuietStep
<1>11. CASE FailStart(t)
  BY <1>1, <1>11, FailStartCore
<1>12. QED
  BY <1>2, <1>3, <1>4, <1>5, <1>6, <1>7, <1>8, <1>9, <1>10, <1>11 DEF StartThread

LEMMA StopCore ==
    ASSUME TypeOK, Core, NEW t \in Threads, StopThread(t)
    PROVE  Core'
<1> DEFINE Shut == StopCompose(t) \/ StopVm(t) \/ StopHost(t)
<1>1. CASE CancelTimeout(t)
  <2>1. Moves(t) /\ lock' = lock /\ pc'[t] = "p_observe" /\ pc[t] = "p_cancel"
    BY <1>1, GotoEffect DEF CancelTimeout, Moves
  <2>2. lock = t /\ pc[t] \notin Starting \cup Stopping /\ pc[t] \in StopSteps
    BY <2>1 DEF Core, LockOwned, StopSteps, Starting, Stopping
  <2>3. LockOwned'
    BY <2>1, <2>2, MovesLock, Disjoint
  <2>4. PhaseOwned'
    BY <1>1, <2>1, Disjoint DEF Core, PhaseOwned, Moves, CancelTimeout, memory
  <2>5. TransientPhaseIsOwned'
    BY <1>1, <2>1, <2>2 DEF Core, TransientPhaseIsOwned, CancelTimeout, memory
  <2>6. RunningSessionIsTimed'
    BY <2>1, <2>2, NoThreadIsNone DEF RunningSessionIsTimed, SessionIsTimed
  <2>7. QED
    BY <1>1, <2>3, <2>4, <2>5, <2>6 DEF Core, DiskFollows, SavesWork, CancelTimeout, memory
<1>2. CASE StopObserve(t)
  BY <1>2, ObserveCore DEF StopObserve
<1>3. CASE StopReconcile(t)
  BY <1>3, ReconcileCore DEF StopReconcile
<1>4. CASE StopSkipped(t)
  BY <1>4, QuietStep DEF StopSkipped, memory
<1>5. CASE BeginStop(t)
  <2>1. phase' = "stopping" /\ pc[t] = "p_begin"
    BY <1>5 DEF BeginStop
  <2>2. PICK ok \in Saves :
          /\ Save(ok)
          /\ IF ok THEN /\ op' = [op EXCEPT !.errors = started /\ obs[t] < HostUp]
                        /\ Goto(t, IF obs[t] < HostUp THEN "p_finish" ELSE "p_compose")
                        /\ UNCHANGED lock
                   ELSE Finish(t)
    BY <1>5 DEF BeginStop
  <2>3. /\ DiskFollows' /\ SavesWork' /\ Moves(t)
        /\ \/ pc'[t] \in {"p_finish", "p_compose"} /\ lock' = lock
           \/ pc'[t] \in {"done", "idle"} /\ "save" \in faults'
    BY <2>2, SaveEffect, GotoEffect, FinishEffect DEF Moves
  <2>4. lock = t /\ \A u \in Threads \ {t} : pc[u] \notin StartSteps \cup StopSteps
    BY <2>1 DEF Core, LockOwned, StopSteps
  <2>5. /\ {"p_finish", "p_compose"} \subseteq Stopping /\ pc[t] \in StopSteps
        /\ {"done", "idle", "p_finish", "p_compose"} \cap StartSteps = {}
        /\ {"done", "idle"} \cap (Starting \cup Stopping) = {}
    BY <2>1 DEF Starting, StartSteps, Stopping, StopSteps
  <2>6. LockOwned'
    BY <2>3, <2>5, MovesLock
  <2>7. PhaseOwned'
    BY <2>1, <2>3, <2>4, <2>5, Disjoint DEF PhaseOwned, Moves
  <2>8. QED
    BY <2>1, <2>3, <2>4, <2>5, <2>6, <2>7, NoThreadIsNone
    DEF Core, TransientPhaseIsOwned, RunningSessionIsTimed
<1>6. CASE Shut
  <2>1. PICK step \in Stopping : Goto(t, step)
    BY <1>6 DEF StopCompose, StopVm, StopHost, StopStep, Stopping
  <2>2. pc[t] \in Stopping
    BY <1>6 DEF StopCompose, StopVm, StopHost, StopStep, Stopping
  <2>3. UNCHANGED <<phase, started, deadline, disk, armed, lock, faults>>
    BY <1>6 DEF StopCompose, StopVm, StopHost, StopStep, memory
  <2>4. QED
    BY <2>1, <2>2, <2>3, QuietStep
<1>7. CASE FinishStop(t)
  <2>1. pc[t] = "p_finish" /\ phase' \in {"idle", "failed"}
    BY <1>7 DEF FinishStop
  <2>2. /\ DiskFollows' /\ SavesWork' /\ Moves(t)
        /\ pc'[t] \in {"done", "idle", "observe"}
    BY <1>7, SaveThenEffect, HomeStep DEF FinishStop, Moves
  <2>3. \A u \in Threads \ {t} : pc[u] \notin StartSteps \cup StopSteps
    BY <2>1 DEF Core, LockOwned, StopSteps
  <2>4. {"done", "idle", "observe"} \cap (StartSteps \cup StopSteps) = {}
    BY Disjoint
  <2>5. LockOwned'
    BY <2>2, <2>4, MovesLock
  <2>6. PhaseOwned'
    BY <2>2, <2>3, <2>4, Disjoint DEF PhaseOwned, Moves
  <2>7. QED
    BY <2>1, <2>2, <2>5, <2>6 DEF Core, TransientPhaseIsOwned, RunningSessionIsTimed
<1>8. QED
  BY <1>1, <1>2, <1>3, <1>4, <1>5, <1>6, <1>7 DEF StopThread

\* A restart finds in the file what memory held, but for an interrupted operation.
LEMMA RestartLoads ==
    ASSUME TypeOK, Core, Restart, "save" \notin faults, "save" \notin faults'
    PROVE  /\ started' = started /\ deadline' = deadline
           /\ phase' = IF phase \in Transient THEN "failed" ELSE phase
           /\ armed' = IF phase' = "running" THEN deadline' ELSE NoSession
<1>1. /\ phase' = Load(disk).phase /\ started' = Load(disk).started
      /\ deadline' = Load(disk).deadline
      /\ armed' = IF Load(disk).phase = "running" THEN Load(disk).deadline ELSE NoSession
  BY DEF Restart
<1>2. /\ Load(disk).phase = IF disk.phase \in Transient THEN "failed" ELSE disk.phase
      /\ Load(disk).started = disk.started /\ Load(disk).deadline = disk.deadline
  BY DEF Load, TypeOK
<1>3. QED
  BY <1>1, <1>2 DEF Core, DiskFollows, Transient

LEMMA RestartCore ==
    ASSUME TypeOK, Core, Restart
    PROVE  Core'
<1>1. PICK state \in {Load(disk)} \cup (IF IoMayFail THEN {LoadFailed} ELSE {}) :
         /\ phase' = state.phase /\ started' = state.started /\ deadline' = state.deadline
         /\ armed' = IF state.phase = "running" THEN state.deadline ELSE NoSession
         /\ faults' = IF state = Load(disk) THEN {} ELSE {"save"}
  BY DEF Restart
<1>2. /\ Load(disk).phase = IF disk.phase \in Transient THEN "failed" ELSE disk.phase
      /\ Load(disk).started = disk.started /\ Load(disk).deadline = disk.deadline
  BY DEF Load, TypeOK
<1>3. phase' \notin Transient
  BY <1>1, <1>2 DEF LoadFailed, Transient
<1>4. \A u \in Threads : pc'[u] \in {"done", "idle"}
  BY HomeStep DEF Restart
<1>5. LockOwned' /\ PhaseOwned'
  BY <1>4, Disjoint DEF LockOwned, PhaseOwned
<1>6. TransientPhaseIsOwned'
  BY <1>3 DEF TransientPhaseIsOwned, Transient
<1>7. DiskFollows'
  BY <1>1, <1>2 DEF DiskFollows, Restart
<1>8. RunningSessionIsTimed'
  BY <1>1, <1>2 DEF RunningSessionIsTimed, SessionIsTimed, LoadFailed
<1>9. SavesWork'
  BY <1>1 DEF SavesWork
<1>10. QED
  BY <1>5, <1>6, <1>7, <1>8, <1>9 DEF Core

LEMMA CoreStep == TypeOK /\ Core /\ [Next]_vars => Core'
<1> SUFFICES ASSUME TypeOK, Core, [Next]_vars PROVE Core'
  OBVIOUS
<1> USE DEF memory
<1>1. ASSUME NEW t \in Threads, Arrive(t) PROVE Core'
  BY <1>1, QuietStep DEF Arrive
<1>2. ASSUME NEW t \in Threads, Acquire(t) PROVE Core'
  <2>1. PICK step \in {"s_observe", "p_cancel"} :
          Goto(t, step) /\ (step = "s_observe" => t \in Starters)
    BY <1>2 DEF Acquire
  <2>2. pc'[t] = step /\ \A u \in Threads \ {t} : pc'[u] = pc[u]
    BY <2>1, GotoEffect
  <2>3. /\ lock' = t /\ lock = NoThread
        /\ UNCHANGED <<phase, started, deadline, disk, armed, faults>>
    BY <1>2 DEF Acquire
  <2>4. \A u \in Threads : pc[u] \notin StartSteps \cup StopSteps
    BY <2>3, NoThreadIsNone DEF Core, LockOwned
  <2>5. LockOwned'
    BY <2>1, <2>2, <2>3, <2>4, Disjoint DEF LockOwned, StartSteps, StopSteps
  <2>6. PhaseOwned'
    BY <2>2, <2>3, <2>4, Disjoint DEF PhaseOwned, Starting, Stopping
  <2>7. TransientPhaseIsOwned'
    BY <2>3, NoThreadIsNone DEF Core, TransientPhaseIsOwned, Threads
  <2>8. RunningSessionIsTimed'
    BY <2>3, NoThreadIsNone DEF Core, RunningSessionIsTimed, SessionIsTimed, Threads
  <2>9. QED
    BY <2>3, <2>5, <2>6, <2>7, <2>8 DEF Core, DiskFollows, SavesWork
<1>3. ASSUME NEW t \in Threads, Step(t) PROVE Core'
  BY <1>3, ViewCore, StartCore, StopCore DEF Step
<1>4. ASSUME NEW s \in Sessions, Fire(s) PROVE Core'
  BY <1>4, QuietStep DEF Fire, Threads, Timers
<1>5. ASSUME NEW s \in Sessions, DeadlinePasses(s) PROVE Core'
  BY <1>5 DEF DeadlinePasses, Core, LockOwned, PhaseOwned, TransientPhaseIsOwned, DiskFollows,
              RunningSessionIsTimed, SessionIsTimed, SavesWork
<1>6. CASE Restart
  BY <1>6, RestartCore
<1>7. CASE Meddle
  BY <1>7 DEF Meddle, Core, LockOwned, PhaseOwned, TransientPhaseIsOwned, DiskFollows,
              RunningSessionIsTimed, SessionIsTimed, SavesWork
<1>8. CASE UNCHANGED vars
  BY <1>8 DEF vars, Core, LockOwned, PhaseOwned, TransientPhaseIsOwned, DiskFollows,
              RunningSessionIsTimed, SessionIsTimed, SavesWork
<1>9. QED
  BY <1>1, <1>2, <1>3, <1>4, <1>5, <1>6, <1>7, <1>8 DEF Next

LEMMA CoreInit == Init => Core
<1> SUFFICES ASSUME Init PROVE Core
  OBVIOUS
<1>1. LockOwned /\ PhaseOwned
  BY Disjoint DEF Init, LockOwned, PhaseOwned
<1>2. disk.started = started /\ disk.deadline = deadline /\ disk.phase = phase
  BY Zenon DEF Init
<1>3. QED
  BY <1>1, <1>2 DEF Init, Core, TransientPhaseIsOwned, DiskFollows, RunningSessionIsTimed, SavesWork

THEOREM CoreCorrect == Spec => [](TypeOK /\ Core)
BY TypeInit, TypeStep, CoreInit, CoreStep, PTL DEF Spec

\* A starting or stopping phase is always the work of the thread that holds the
\* file lock, so no request can find the controller wedged in one.
THEOREM TransientPhaseOwned == Spec => []TransientPhaseIsOwned
BY CoreCorrect, PTL DEF Core

\* As long as Vault and the session file answer, a running session has its timer,
\* or a thread under the file lock that is about to schedule it or to stop it.
THEOREM RunningSessionTimed == Spec => []RunningSessionIsTimed
BY CoreCorrect, PTL DEF Core

\* A restart loses neither the running session nor its deadline nor its timer.
THEOREM RestartKeeps == Spec => RestartKeepsSession
<1>1. TypeOK /\ Core /\ [Next]_vars =>
        [restarts' # restarts /\ "save" \notin faults \cup faults' /\ phase = "running"
           => phase' = "running" /\ deadline' = deadline /\ armed' = deadline]_vars
  <2> SUFFICES ASSUME TypeOK, Core, Next, restarts' # restarts,
                      "save" \notin faults \cup faults', phase = "running"
               PROVE  phase' = "running" /\ deadline' = deadline /\ armed' = deadline
    OBVIOUS
  <2>1. ASSUME NEW t \in Threads PROVE ~(Arrive(t) \/ Acquire(t) \/ ViewThread(t))
    BY DEF Arrive, Acquire, ViewThread, ViewObserve, ViewReconcile, Observe, Reconcile
  <2>2. ASSUME NEW t \in Threads PROVE ~StartThread(t)
    BY DEF StartThread, StartObserve, StartReconcile, Observe, Reconcile, Adopt, BeginStart,
           CheckHost, CheckVm, Wake, Unlock, StartVm, WaitGuest, ComposeUp, TryStep, FinishStart,
           Schedule, CleanCompose, CleanVm, CleanHost, CleanStep, FailStart
  <2>3. ASSUME NEW t \in Threads PROVE ~StopThread(t)
    BY DEF StopThread, StopObserve, StopReconcile, Observe, Reconcile, CancelTimeout, StopSkipped,
           BeginStop, StopCompose, StopVm, StopHost, StopStep, FinishStop
  <2>4. Restart
    BY <2>1, <2>2, <2>3 DEF Next, Step, Fire, DeadlinePasses, Meddle
  <2>5. QED
    BY <2>4, RestartLoads DEF Transient
<1>2. QED
  BY <1>1, CoreCorrect, PTL DEF Spec, RestartKeepsSession

-----------------------------------------------------------------------------
(* The refinement *)

LEMMA StartRefines ==
    ASSUME TypeOK, Core, NEW t \in Threads, StartThread(t)
    PROVE  [Lifecycle!Next]_(Lifecycle!vars)
<1> USE DEF Lifecycle!Next, Lifecycle!vars, memory
<1>1. t[2] \in Sessions
  BY DEF StartThread, Starters
<1>2. CASE StartReconcile(t)
  BY <1>2 DEF StartReconcile, Reconcile, Loses, Lifecycle!Lose
<1>3. CASE Adopt(t)
  BY <1>1, <1>3 DEF Adopt, Core, PhaseOwned, Lifecycle!Adopt
<1>4. CASE BeginStart(t)
  BY <1>4 DEF BeginStart, Core, PhaseOwned, Lifecycle!BeginStart
<1>5. CASE FinishStart(t)
  BY <1>1, <1>5 DEF FinishStart, Core, PhaseOwned, Starting, Lifecycle!FinishStart
<1>6. CASE FailStart(t)
  BY <1>6 DEF FailStart, Core, PhaseOwned, Starting, Lifecycle!FailStart
<1>7. CASE StartObserve(t) \/ CheckHost(t) \/ Wake(t) \/ Unlock(t) \/ CheckVm(t) \/ StartVm(t)
           \/ WaitGuest(t) \/ ComposeUp(t) \/ Schedule(t) \/ CleanCompose(t) \/ CleanVm(t)
           \/ CleanHost(t)
  BY <1>7 DEF StartObserve, Observe, CheckHost, Wake, Unlock, CheckVm, StartVm, WaitGuest, ComposeUp,
              TryStep, Schedule, CleanCompose, CleanVm, CleanHost, CleanStep
<1>8. QED
  BY <1>2, <1>3, <1>4, <1>5, <1>6, <1>7 DEF StartThread

LEMMA StopRefines ==
    ASSUME TypeOK, Core, NEW t \in Threads, StopThread(t)
    PROVE  [Lifecycle!Next]_(Lifecycle!vars)
<1> USE DEF Lifecycle!Next, Lifecycle!vars, memory
<1>1. CASE StopReconcile(t)
  BY <1>1 DEF StopReconcile, Reconcile, Loses, Lifecycle!Lose
<1>2. CASE BeginStop(t)
  BY <1>2 DEF BeginStop, TypeOK, Phases, Transient, Lifecycle!BeginStop
<1>3. CASE FinishStop(t)
  BY <1>3 DEF FinishStop, Core, PhaseOwned, Stopping, Lifecycle!EndStop
<1>4. CASE CancelTimeout(t) \/ StopObserve(t) \/ StopSkipped(t) \/ StopCompose(t) \/ StopVm(t)
           \/ StopHost(t)
  BY <1>4 DEF CancelTimeout, StopObserve, Observe, StopSkipped, StopCompose, StopVm, StopHost, StopStep
<1>5. QED
  BY <1>1, <1>2, <1>3, <1>4 DEF StopThread

\* The only steps outside the table are those of a restart that loads an outdated
\* file, so it takes working saves.
LEMMA NextRefines ==
    ASSUME ~IoMayFail
    PROVE  TypeOK /\ Core /\ [Next]_vars => [Lifecycle!Next]_(Lifecycle!vars)
<1> SUFFICES ASSUME TypeOK, Core, [Next]_vars PROVE [Lifecycle!Next]_(Lifecycle!vars)
  OBVIOUS
<1> USE DEF Lifecycle!vars, memory
<1>1. ASSUME NEW t \in Threads, Step(t) PROVE [Lifecycle!Next]_(Lifecycle!vars)
  <2>1. CASE ViewThread(t)
    BY <2>1 DEF ViewThread, ViewObserve, ViewReconcile, Observe, Reconcile, Loses, Lifecycle!Next,
                Lifecycle!Lose
  <2>2. QED
    BY <1>1, <2>1, StartRefines, StopRefines DEF Step
<1>2. ASSUME NEW t \in Threads, Arrive(t) \/ Acquire(t) PROVE [Lifecycle!Next]_(Lifecycle!vars)
  BY <1>2 DEF Arrive, Acquire
<1>3. ASSUME NEW s \in Sessions, Fire(s) \/ DeadlinePasses(s) PROVE [Lifecycle!Next]_(Lifecycle!vars)
  BY <1>3 DEF Fire, DeadlinePasses
<1>4. CASE Restart
  <2>1. "save" \notin faults /\ "save" \notin faults'
    BY <1>4 DEF Core, SavesWork, Restart
  <2>2. QED
    BY <1>4, <2>1, RestartLoads DEF Transient, Lifecycle!Next, Lifecycle!Interrupt
<1>5. CASE Meddle \/ UNCHANGED vars
  BY <1>5 DEF Meddle, vars
<1>6. QED
  BY <1>1, <1>2, <1>3, <1>4, <1>5 DEF Next

\* The controller with its threads, locks and failures implements the life cycle
\* of a session, as long as its saves succeed.
THEOREM Refinement ==
    ASSUME ~IoMayFail
    PROVE  Spec => ImplementsLifecycle
<1>1. Init => Lifecycle!Init
  BY DEF Init, Lifecycle!Init
<1>2. TypeOK /\ Core /\ [Next]_vars => [Lifecycle!Next]_(Lifecycle!vars)
  BY NextRefines
<1>3. QED
  BY <1>1, <1>2, CoreCorrect, PTL DEF Spec, ImplementsLifecycle, Lifecycle!Spec

-------------------------------------------------------------------------------
(* What the life cycle promises, and hence the controller. *)

LEMMA LifecycleType == Lifecycle!Spec => []Lifecycle!TypeOK
<1>1. Lifecycle!Init => Lifecycle!TypeOK
  BY DEF Lifecycle!Init, Lifecycle!TypeOK
<1>2. Lifecycle!TypeOK /\ [Lifecycle!Next]_(Lifecycle!vars) => Lifecycle!TypeOK'
  BY DEF Lifecycle!TypeOK, Lifecycle!Next, Lifecycle!vars, Lifecycle!BeginStart, Lifecycle!FinishStart,
         Lifecycle!Adopt, Lifecycle!FailStart, Lifecycle!BeginStop, Lifecycle!EndStop, Lifecycle!Lose,
         Lifecycle!Interrupt
<1>3. QED
  BY <1>1, <1>2, PTL DEF Lifecycle!Spec

\* In the life cycle alone, a running session always has a deadline to enforce, and a stopped
\* one has none.
THEOREM DeadlineInvariant == Lifecycle!Spec => []Lifecycle!DeadlineFollowsPhase
<1>1. Lifecycle!Init => Lifecycle!DeadlineFollowsPhase
  BY DEF Lifecycle!Init, Lifecycle!DeadlineFollowsPhase
<1>2. Lifecycle!TypeOK /\ Lifecycle!DeadlineFollowsPhase /\ [Lifecycle!Next]_(Lifecycle!vars)
        => Lifecycle!DeadlineFollowsPhase'
  BY WolfConstants
  DEF Lifecycle!TypeOK, Lifecycle!DeadlineFollowsPhase, Lifecycle!Next, Lifecycle!vars,
      Lifecycle!BeginStart, Lifecycle!FinishStart, Lifecycle!Adopt, Lifecycle!FailStart,
      Lifecycle!BeginStop, Lifecycle!EndStop, Lifecycle!Lose, Lifecycle!Interrupt
<1>3. QED
  BY <1>1, <1>2, LifecycleType, PTL DEF Lifecycle!Spec

\* The controller's own session, whose saves succeed, has a deadline while it runs and none
\* once it was stopped.
THEOREM ControllerKeepsDeadline ==
    ASSUME ~IoMayFail
    PROVE  Spec => []Lifecycle!DeadlineFollowsPhase
BY Refinement, DeadlineInvariant, PTL DEF ImplementsLifecycle

-------------------------------------------------------------------------------
(***************************************************************************)
(* The machine under an operation.  What a clean-up or a stop achieves is  *)
(* clear only step by step: every shutdown relies on the one before it,    *)
(* on nobody but the operation moving the machine (the file lock), and on  *)
(* a host that the start brought up being far enough up to be shut down    *)
(* through its API, which a host waiting for its password is not.          *)
(***************************************************************************)
Tower(step) ==
    op.quiet =>
        /\ step \in StartSteps /\ op.host =>
             IF step = "s_fail" THEN level = Off ELSE level >= HostUp
        /\ step \in {"c_vm", "c_host", "s_fail"} /\ op.compose => level <= VmUp
        /\ step \in {"c_host", "s_fail"} /\ op.vm => level <= HostUp
        /\ step = "p_finish" /\ started /\ ~op.errors => level = Off
TowerOK == \A t \in Threads : Tower(pc[t])

\* The steps about which Tower says anything.
Watched == StartSteps \cup {"p_finish"}

LEMMA Unwatched == \A step : step \notin Watched => Tower(step)
BY DEF Tower, Watched, StartSteps

\* A step of the lock holder has only its own place to answer for.
LEMMA HolderTower ==
    ASSUME Core, NEW t \in Threads, pc[t] \in StartSteps \cup StopSteps,
           \A u \in Threads \ {t} : pc'[u] = pc[u], Tower(pc[t])'
    PROVE  TowerOK'
<1>1. ASSUME NEW u \in Threads, u # t PROVE Tower(pc[u])'
  <2>1. pc'[u] = pc[u] /\ pc[u] \notin StartSteps \cup StopSteps
    BY <1>1 DEF Core, LockOwned
  <2>2. pc'[u] \notin Watched
    BY <2>1 DEF Watched, StopSteps
  <2>3. QED
    BY <2>2, Disjoint DEF Tower, Watched, StartSteps
<1>2. QED
  BY <1>1 DEF TowerOK

\* A step that leaves the machine alone and ends elsewhere disturbs nobody.
LEMMA OtherTower ==
    ASSUME Core, TowerOK, NEW t \in Threads, \A u \in Threads \ {t} : pc'[u] = pc[u],
           pc'[t] \notin Watched, level' = level, started' = started, op' = op \/ lock = t
    PROVE  TowerOK'
<1>1. Tower(pc[t])'
  BY DEF Tower, Watched, StartSteps
<1>2. ASSUME NEW u \in Threads, u # t PROVE Tower(pc[u])'
  <2>1. pc'[u] = pc[u]
    BY <1>2
  <2>2. CASE op' = op
    BY <2>1, <2>2 DEF TowerOK, Tower
  <2>3. CASE lock = t
    <3>1. pc'[u] \notin Watched
      BY <1>2, <2>1, <2>3 DEF Core, LockOwned, Watched, StopSteps
    <3>2. QED
      BY <3>1 DEF Tower, Watched, StartSteps
  <2>4. QED
    BY <2>2, <2>3
<1>3. QED
  BY <1>1, <1>2 DEF TowerOK

\* What a return and a save do to the operation.
LEMMA FinishOp ==
    ASSUME NEW t \in Threads, Finish(t)
    PROVE  op' = op \/ (lock = t /\ op' = NoOp)
BY DEF Finish

LEMMA ProceedOp ==
    ASSUME TypeOK, NEW t \in Threads, NEW step, Proceed(t, step)
    PROVE  \/ pc'[t] = step /\ op' = op
           \/ pc'[t] \in {"done", "idle"} /\ (op' = op \/ lock = t)
BY FinishOp, FinishEffect, GotoEffect DEF Proceed

LEMMA SaveThenOp ==
    ASSUME TypeOK, NEW t \in Threads, NEW step, SaveThen(t, step)
    PROVE  /\ \A u \in Threads \ {t} : pc'[u] = pc[u]
           /\ \/ pc'[t] = step /\ op' = op
              \/ pc'[t] \in {"done", "idle"} /\ (op' = op \/ lock = t)
BY ProceedOp, ProceedEffect, FinishOp, FinishEffect DEF SaveThen

LEMMA ObserveMoves ==
    ASSUME TypeOK, NEW t \in Threads, NEW from, NEW to, Observe(t, from, to)
    PROVE  /\ pc[t] = from /\ level' = level /\ started' = started
           /\ \A u \in Threads \ {t} : pc'[u] = pc[u]
           /\ \/ pc'[t] = to /\ op' = op
              \/ pc'[t] \in {"done", "idle"} /\ (op' = op \/ lock = t)
<1>1. pc[t] = from /\ level' = level /\ started' = started
  BY DEF Observe, machine, memory
<1>2. CASE Goto(t, to) /\ op' = op
  BY <1>1, <1>2, GotoEffect
<1>3. CASE Finish(t)
  BY <1>1, <1>3, FinishEffect, FinishOp
<1>4. QED
  BY <1>2, <1>3 DEF Observe

LEMMA ReconcileMoves ==
    ASSUME TypeOK, NEW t \in Threads, NEW from, NEW to, Reconcile(t, from, to)
    PROVE  /\ pc[t] = from /\ level' = level /\ started' = started
           /\ \A u \in Threads \ {t} : pc'[u] = pc[u]
           /\ \/ pc'[t] = to /\ op' = op
              \/ pc'[t] \in {"done", "idle"} /\ (op' = op \/ lock = t)
<1>1. pc[t] = from /\ level' = level /\ started' = started
  BY DEF Reconcile, machine, memory
<1>2. SaveThen(t, to) \/ Proceed(t, to)
  BY DEF Reconcile
<1>3. QED
  BY <1>1, <1>2, SaveThenOp, ProceedOp, ProceedEffect

\* Within the start proper the machine must not lose the host the start brought up.
LEMMA EarlyTower ==
    ASSUME TypeOK, Core, TowerOK, NEW t \in Threads, pc[t] \in StartSteps, pc[t] # "s_fail",
           \A u \in Threads \ {t} : pc'[u] = pc[u],
           pc'[t] \notin {"c_vm", "c_host", "s_fail", "p_finish"},
           op'.quiet => op.quiet,
           op'.quiet /\ op'.host => level' >= HostUp \/ (op.host /\ (level >= HostUp => level' >= HostUp))
    PROVE  TowerOK'
<1>1. Tower(pc[t])
  BY DEF TowerOK
<1>2. Tower(pc[t])'
  BY <1>1 DEF Tower
<1>3. QED
  BY <1>2, HolderTower

LEMMA TryStepMoves ==
    ASSUME TypeOK, NEW t \in Threads, NEW from, NEW to, NEW set, NEW calls, TryStep(t, from, calls, to, set)
    PROVE  /\ pc[t] = from
           /\ \A u \in Threads \ {t} : pc'[u] = pc[u]
           /\ \E call \in calls :
                /\ level' = call.level
                /\ IF call.ok THEN pc'[t] = to /\ op' = set ELSE pc'[t] = "c_compose" /\ op' = op
<1>1. PICK call \in calls :
        /\ level' = call.level
        /\ IF call.ok THEN Goto(t, to) /\ op' = set ELSE Goto(t, "c_compose") /\ UNCHANGED op
  BY DEF TryStep
<1>2. pc[t] = from
  BY DEF TryStep
<1>3. CASE call.ok
  BY <1>1, <1>2, <1>3, GotoEffect
<1>4. CASE ~call.ok
  BY <1>1, <1>2, <1>4, GotoEffect
<1>5. QED
  BY <1>3, <1>4

LEMMA EffortTower ==
    ASSUME TypeOK, Core, TowerOK, NEW t \in Threads,
           Wake(t) \/ Unlock(t) \/ StartVm(t) \/ WaitGuest(t) \/ ComposeUp(t)
    PROVE  TowerOK'
<1>1. level \in Levels /\ op \in Ops
  BY DEF TypeOK
<1>2. {"s_wake", "s_unlock", "s_checkvm", "s_vm", "s_guest", "s_compose", "s_finish", "c_compose"}
        \subseteq StartSteps \ {"c_vm", "c_host", "s_fail", "p_finish"}
  BY DEF StartSteps
<1>3. CASE Wake(t)
  <2>1. /\ pc[t] = "s_wake" /\ \A u \in Threads \ {t} : pc'[u] = pc[u]
        /\ op' = op /\ pc'[t] \in {"s_unlock", "c_compose"}
        /\ level >= HostUp => level' = level
    BY <1>1, <1>3, TryStepMoves DEF Wake, Calls, Refused, Levels, Off, Locked, HostUp, StackUp
  <2>2. QED
    BY <1>1, <1>2, <2>1, EarlyTower
<1>4. CASE Unlock(t)
  <2>1. /\ pc[t] = "s_unlock" /\ \A u \in Threads \ {t} : pc'[u] = pc[u]
        /\ pc'[t] \in {"s_checkvm", "c_compose"}
        /\ level >= HostUp => level' = level
        /\ op' = op \/ (op' = [op EXCEPT !.host = TRUE] /\ level' >= HostUp)
    BY <1>1, <1>4, TryStepMoves DEF Unlock, Calls, Refused, Levels, Off, Locked, HostUp, StackUp
  <2>2. op'.quiet = op.quiet /\ (op'.host => op.host \/ level' >= HostUp)
    BY <1>1, <2>1 DEF Ops
  <2>3. QED
    BY <1>1, <1>2, <2>1, <2>2, EarlyTower
<1>5. CASE StartVm(t)
  <2>1. /\ pc[t] = "s_vm" /\ \A u \in Threads \ {t} : pc'[u] = pc[u]
        /\ pc'[t] \in {"s_guest", "c_compose"}
        /\ level >= HostUp => level' >= HostUp
        /\ op' = op \/ op' = [op EXCEPT !.vm = TRUE]
    BY <1>1, <1>5, TryStepMoves DEF StartVm, Calls, Refused, Levels, Off, HostUp, VmUp, StackUp
  <2>2. op'.quiet = op.quiet /\ op'.host = op.host
    BY <1>1, <2>1 DEF Ops
  <2>3. QED
    BY <1>1, <1>2, <2>1, <2>2, EarlyTower
<1>6. CASE WaitGuest(t)
  <2>1. /\ pc[t] = "s_guest" /\ \A u \in Threads \ {t} : pc'[u] = pc[u]
        /\ pc'[t] \in {"s_compose", "c_compose"}
        /\ level' = level
        /\ op' = op \/ op' = [op EXCEPT !.compose = TRUE]
    BY <1>1, <1>6, TryStepMoves DEF WaitGuest, Calls, Refused, Levels, Off, VmUp, StackUp
  <2>2. op'.quiet = op.quiet /\ op'.host = op.host
    BY <1>1, <2>1 DEF Ops
  <2>3. QED
    BY <1>1, <1>2, <2>1, <2>2, EarlyTower
<1>7. CASE ComposeUp(t)
  <2>1. /\ pc[t] = "s_compose" /\ \A u \in Threads \ {t} : pc'[u] = pc[u]
        /\ pc'[t] \in {"s_finish", "c_compose"}
        /\ level >= HostUp => level' >= HostUp
        /\ op' = op
    BY <1>1, <1>7, TryStepMoves DEF ComposeUp, Calls, Refused, Levels, Off, HostUp, VmUp, StackUp
  <2>2. QED
    BY <1>1, <1>2, <2>1, EarlyTower
<1>8. QED
  BY <1>3, <1>4, <1>5, <1>6, <1>7

\* A clean-up step that is due lowers the machine to its target or spoils the
\* outcome; where the machine is too low for the call, there is nothing to lower.
LEMMA CleanStepMoves ==
    ASSUME TypeOK, NEW t \in Threads, NEW from, NEW flag, NEW reach \in Levels, NEW target \in Levels,
           NEW to, CleanStep(t, from, flag, reach, target, to)
    PROVE  /\ pc[t] = from /\ pc'[t] = to
           /\ \A u \in Threads \ {t} : pc'[u] = pc[u]
           /\ op'.host = op.host /\ op'.vm = op.vm /\ op'.compose = op.compose
           /\ op'.quiet => op.quiet
           /\ ~flag => level' = level
           /\ flag /\ op'.quiet => \/ level < reach /\ level' = level
                                   \/ level >= reach /\ level' = Lower(target)
<1>1. pc[t] = from /\ pc'[t] = to /\ \A u \in Threads \ {t} : pc'[u] = pc[u]
  BY GotoEffect DEF CleanStep
<1>2. CASE flag
  <2>1. PICK call \in (IF level >= reach THEN Calls(level, Lower(target)) ELSE Refused) :
          /\ level' = call.level
          /\ op' = [op EXCEPT !.quiet = @ /\ (call.ok \/ level < reach)]
    BY <1>2 DEF CleanStep
  <2>2. /\ op'.host = op.host /\ op'.vm = op.vm /\ op'.compose = op.compose
        /\ op'.quiet => op.quiet /\ (call.ok \/ level < reach)
    BY <2>1 DEF TypeOK, Ops
  <2>3. level \in Nat /\ reach \in Nat
    BY DEF TypeOK, Levels, Off, StackUp
  <2>4. /\ level >= reach /\ call.ok => call.level = Lower(target)
        /\ level < reach => call.level = level
    BY <2>1, <2>3 DEF Calls, Refused
  <2>5. QED
    BY <1>1, <1>2, <2>1, <2>2, <2>3, <2>4
<1>3. CASE ~flag
  BY <1>1, <1>3 DEF CleanStep
<1>4. QED
  BY <1>2, <1>3

LEMMA CleanTower ==
    ASSUME TypeOK, Core, TowerOK, NEW t \in Threads, CleanCompose(t) \/ CleanVm(t) \/ CleanHost(t)
    PROVE  TowerOK'
<1>1. level \in Levels /\ Tower(pc[t])
  BY DEF TypeOK, TowerOK
<1>2. {"c_compose", "c_vm", "c_host", "s_fail"} \subseteq StartSteps
  BY DEF StartSteps
<1>3. CASE CleanCompose(t)
  <2>1. /\ pc[t] = "c_compose" /\ pc'[t] = "c_vm"
        /\ \A u \in Threads \ {t} : pc'[u] = pc[u]
        /\ op'.host = op.host /\ op'.vm = op.vm /\ op'.compose = op.compose
        /\ op'.quiet => op.quiet
        /\ ~op.compose => level' = level
        /\ op.compose /\ op'.quiet => \/ level < VmUp /\ level' = level
                                      \/ level >= VmUp /\ level' = Lower(VmUp)
    BY <1>3, LevelsAre, CleanStepMoves DEF CleanCompose
  <2>2. Tower(pc[t])'
    BY <1>1, <1>2, <2>1 DEF Tower, Levels, Off, Locked, HostUp, VmUp, StackUp, Lower
  <2>3. QED
    BY <1>2, <2>1, <2>2, HolderTower
<1>4. CASE CleanVm(t)
  <2>1. /\ pc[t] = "c_vm" /\ pc'[t] = "c_host"
        /\ \A u \in Threads \ {t} : pc'[u] = pc[u]
        /\ op'.host = op.host /\ op'.vm = op.vm /\ op'.compose = op.compose
        /\ op'.quiet => op.quiet
        /\ ~op.vm => level' = level
        /\ op.vm /\ op'.quiet => \/ level < HostUp /\ level' = level
                                 \/ level >= HostUp /\ level' = Lower(HostUp)
    BY <1>4, LevelsAre, CleanStepMoves DEF CleanVm
  <2>2. Tower(pc[t])'
    BY <1>1, <1>2, <2>1 DEF Tower, Levels, Off, Locked, HostUp, VmUp, StackUp, Lower
  <2>3. QED
    BY <1>2, <2>1, <2>2, HolderTower
<1>5. CASE CleanHost(t)
  <2>1. /\ pc[t] = "c_host" /\ pc'[t] = "s_fail"
        /\ \A u \in Threads \ {t} : pc'[u] = pc[u]
        /\ op'.host = op.host /\ op'.vm = op.vm /\ op'.compose = op.compose
        /\ op'.quiet => op.quiet
        /\ ~op.host => level' = level
        /\ op.host /\ op'.quiet => \/ level < HostUp /\ level' = level
                                   \/ level >= HostUp /\ level' = Lower(Off)
    BY <1>5, LevelsAre, CleanStepMoves DEF CleanHost
  <2>2. Tower(pc[t])'
    BY <1>1, <1>2, <2>1 DEF Tower, Levels, Off, Locked, HostUp, VmUp, StackUp, Lower
  <2>3. QED
    BY <1>2, <2>1, <2>2, HolderTower
<1>6. QED
  BY <1>3, <1>4, <1>5

LEMMA StartTower ==
    ASSUME TypeOK, Core, TowerOK, NEW t \in Threads, StartThread(t)
    PROVE  TowerOK'
<1>1. op \in Ops /\ level \in Levels
  BY DEF TypeOK
<1>2. /\ {"s_observe", "s_reconcile", "s_decide", "s_host", "s_checkvm", "s_finish", "s_schedule"}
           \subseteq StartSteps \ {"s_fail"}
      /\ {"done", "idle", "observe"} \cap Watched = {}
  BY DEF StartSteps, Watched
<1>3. ASSUME \/ StartObserve(t) \/ StartReconcile(t) \/ Adopt(t) \/ BeginStart(t) \/ FinishStart(t)
      PROVE  TowerOK'
  <2>1. /\ pc[t] \in StartSteps \ {"s_fail"}
        /\ \A u \in Threads \ {t} : pc'[u] = pc[u]
        /\ level' = level
        /\ \/ pc'[t] \in {"s_reconcile", "s_decide", "observe", "s_host", "s_schedule"} /\ op' = op
           \/ pc'[t] \in {"done", "idle"} /\ (op' = op \/ lock = t)
    <3>1. CASE StartObserve(t)
      BY <1>2, <3>1, ObserveMoves DEF StartObserve
    <3>2. CASE StartReconcile(t)
      BY <1>2, <3>2, ReconcileMoves DEF StartReconcile
    <3>3. CASE Adopt(t)
      BY <1>2, <3>3, SaveThenOp DEF Adopt, machine
    <3>4. CASE BeginStart(t)
      BY <1>2, <3>4, SaveThenOp DEF BeginStart, machine
    <3>5. CASE FinishStart(t)
      BY <1>2, <3>5, SaveThenOp DEF FinishStart, machine
    <3>6. QED
      BY <1>3, <3>1, <3>2, <3>3, <3>4, <3>5
  <2>2. CASE op' = op /\ pc'[t] \in {"s_reconcile", "s_decide", "observe", "s_host", "s_schedule"}
    BY <1>1, <2>1, <2>2, EarlyTower
  <2>3. CASE pc'[t] \in {"done", "idle"}
    <3>1. Tower(pc[t])'
      BY <1>2, <2>3 DEF Tower, Watched, StartSteps
    <3>2. QED
      BY <2>1, <3>1, HolderTower
  <2>4. QED
    BY <2>1, <2>2, <2>3
<1>4. ASSUME CheckHost(t) \/ CheckVm(t) \/ Schedule(t) PROVE TowerOK'
  <2>1. /\ pc[t] \in {"s_host", "s_checkvm", "s_schedule"}
        /\ \A u \in Threads \ {t} : pc'[u] = pc[u]
        /\ pc'[t] \in {"s_checkvm", "s_wake", "s_guest", "s_vm", "c_compose", "observe"}
        /\ level' = level /\ op' = op
    <3>1. CASE CheckHost(t)
      BY <3>1, GotoEffect DEF CheckHost, machine
    <3>2. CASE CheckVm(t)
      BY <3>2, GotoEffect DEF CheckVm, machine
    <3>3. CASE Schedule(t)
      BY <3>3, GotoEffect DEF Schedule, machine
    <3>4. QED
      BY <1>4, <3>1, <3>2, <3>3
  <2>2. QED
    BY <1>1, <1>2, <2>1, EarlyTower
<1>5. CASE FailStart(t)
  <2>1. pc[t] \in StartSteps
    BY <1>5 DEF FailStart, StartSteps
  <2>2. pc'[t] \in {"done", "idle"} /\ \A u \in Threads \ {t} : pc'[u] = pc[u]
    BY <1>5, FinishEffect DEF FailStart
  <2>3. Tower(pc[t])'
    BY <2>2 DEF Tower, StartSteps
  <2>4. QED
    BY <2>1, <2>2, <2>3, HolderTower
<1>6. QED
  BY <1>3, <1>4, <1>5, EffortTower, CleanTower DEF StartThread

LEMMA StopStepMoves ==
    ASSUME TypeOK, NEW t \in Threads, NEW from, NEW reach, NEW target, NEW to,
           StopStep(t, from, reach, target, to)
    PROVE  /\ pc[t] = from /\ pc'[t] = to
           /\ \A u \in Threads \ {t} : pc'[u] = pc[u]
           /\ ~op'.errors => level >= reach /\ level' = Lower(target)
<1>1. pc[t] = from /\ pc'[t] = to /\ \A u \in Threads \ {t} : pc'[u] = pc[u]
  BY GotoEffect DEF StopStep
<1>2. PICK call \in (IF level >= reach THEN Calls(level, Lower(target)) ELSE Refused) :
        /\ level' = call.level
        /\ op' = [op EXCEPT !.errors = @ \/ ~call.ok]
  BY DEF StopStep
<1>3. ~op'.errors => call.ok
  BY <1>2 DEF TypeOK, Ops
<1>4. call.ok => level >= reach /\ call.level = Lower(target)
  BY <1>2 DEF Calls, Refused
<1>5. QED
  BY <1>1, <1>2, <1>3, <1>4

LEMMA StopTower ==
    ASSUME TypeOK, Core, TowerOK, NEW t \in Threads, StopThread(t)
    PROVE  TowerOK'
<1>1. op \in Ops /\ level \in Levels
  BY DEF TypeOK
<1>2. /\ {"p_cancel", "p_observe", "p_reconcile", "p_begin", "p_compose", "p_vm", "p_host"}
           \subseteq StopSteps \ Watched
      /\ {"done", "idle", "observe"} \cap Watched = {}
      /\ "p_finish" \in StopSteps \ StartSteps
  BY DEF StopSteps, StartSteps, Watched
<1>3. ASSUME CancelTimeout(t) \/ StopObserve(t) \/ StopReconcile(t) \/ StopSkipped(t)
      PROVE  TowerOK'
  <2>1. /\ \A u \in Threads \ {t} : pc'[u] = pc[u]
        /\ level' = level /\ started' = started
        /\ pc'[t] \in {"p_observe", "p_reconcile", "p_begin", "observe", "done", "idle"}
        /\ op' = op \/ lock = t
    <3>1. CASE CancelTimeout(t)
      BY <3>1, GotoEffect DEF CancelTimeout, machine, memory
    <3>2. CASE StopObserve(t)
      BY <3>2, ObserveMoves DEF StopObserve
    <3>3. CASE StopReconcile(t)
      BY <3>3, ReconcileMoves DEF StopReconcile
    <3>4. CASE StopSkipped(t)
      BY <3>4, GotoEffect DEF StopSkipped, machine, memory
    <3>5. QED
      BY <1>3, <3>1, <3>2, <3>3, <3>4
  <2>2. QED
    BY <1>2, <2>1, OtherTower
<1>4. CASE BeginStop(t)
  <2>1. PICK ok \in BOOLEAN :
          IF ok THEN /\ op' = [op EXCEPT !.errors = started /\ obs[t] < HostUp]
                     /\ Goto(t, IF obs[t] < HostUp THEN "p_finish" ELSE "p_compose")
                ELSE Finish(t)
    BY <1>4 DEF BeginStop, Saves
  <2>2. pc[t] = "p_begin" /\ started' = started
    BY <1>4 DEF BeginStop
  <2>3. \A u \in Threads \ {t} : pc'[u] = pc[u]
    BY <2>1, GotoEffect, FinishEffect
  <2>4. Tower(pc[t])'
    <3>1. CASE ok /\ obs[t] < HostUp
      <4>1. pc'[t] = "p_finish" /\ op'.errors = started
        BY <1>1, <2>1, <3>1, GotoEffect DEF Ops, TypeOK
      <4>2. QED
        BY <1>2, <2>2, <4>1 DEF Tower
    <3>2. CASE ~(ok /\ obs[t] < HostUp)
      <4>1. pc'[t] \in {"p_compose", "done", "idle"}
        BY <2>1, <3>2, GotoEffect, FinishEffect
      <4>2. QED
        BY <1>2, <4>1 DEF Tower, Watched, StartSteps
    <3>3. QED
      BY <3>1, <3>2
  <2>5. QED
    BY <1>2, <2>2, <2>3, <2>4, HolderTower
<1>5. CASE StopCompose(t) \/ StopVm(t)
  <2>1. pc[t] \in StopSteps /\ pc'[t] \in {"p_vm", "p_host"}
        /\ \A u \in Threads \ {t} : pc'[u] = pc[u]
    BY <1>2, <1>5, StopStepMoves DEF StopCompose, StopVm
  <2>2. Tower(pc[t])'
    BY <1>2, <2>1 DEF Tower, Watched, StartSteps
  <2>3. QED
    BY <2>1, <2>2, HolderTower
<1>6. CASE StopHost(t)
  <2>1. /\ pc[t] = "p_host" /\ pc'[t] = "p_finish"
        /\ \A u \in Threads \ {t} : pc'[u] = pc[u]
        /\ ~op'.errors => level >= HostUp /\ level' = Lower(Off)
    BY <1>6, StopStepMoves DEF StopHost
  <2>2. ~op'.errors => level' = Off
    BY <1>1, <2>1 DEF Lower, Off, HostUp, Levels, StackUp
  <2>3. Tower(pc[t])'
    BY <1>2, <2>1, <2>2 DEF Tower
  <2>4. QED
    BY <1>2, <2>1, <2>3, HolderTower
<1>7. CASE FinishStop(t)
  <2>1. pc[t] = "p_finish"
    BY <1>7 DEF FinishStop
  <2>2. pc'[t] \in {"done", "idle", "observe"} /\ \A u \in Threads \ {t} : pc'[u] = pc[u]
    BY <1>7, HomeStep, SaveThenOp DEF FinishStop
  <2>3. Tower(pc[t])'
    BY <1>2, <2>2 DEF Tower, Watched, StartSteps
  <2>4. QED
    BY <1>2, <2>1, <2>2, <2>3, HolderTower
<1>8. QED
  BY <1>3, <1>4, <1>5, <1>6, <1>7 DEF StopThread

LEMMA TowerStep == TypeOK /\ Core /\ TowerOK /\ [Next]_vars => TowerOK'
<1> SUFFICES ASSUME TypeOK, Core, TowerOK, [Next]_vars PROVE TowerOK'
  OBVIOUS
<1>1. {"idle", "done", "lock", "observe", "reconcile", "p_cancel"} \cap Watched = {}
  BY DEF Watched, StartSteps
<1>2. ASSUME NEW t \in Threads, Arrive(t) PROVE TowerOK'
  <2>1. pc'[t] \in {"lock", "observe"} /\ \A u \in Threads \ {t} : pc'[u] = pc[u]
    BY <1>2, GotoEffect DEF Arrive
  <2>2. level' = level /\ started' = started /\ op' = op
    BY <1>2 DEF Arrive, machine, memory
  <2>3. QED
    BY <1>1, <2>1, <2>2, OtherTower
<1>3. ASSUME NEW t \in Threads, Acquire(t) PROVE TowerOK'
  <2>1. /\ pc'[t] \in {"s_observe", "p_cancel"} /\ \A u \in Threads \ {t} : pc'[u] = pc[u]
        /\ lock = NoThread /\ op' = [NoOp EXCEPT !.base = level]
    BY <1>3, GotoEffect DEF Acquire
  <2>2. ASSUME NEW u \in Threads PROVE pc'[u] \notin Watched \ {"s_observe"}
    BY <1>1, <2>1, NoThreadIsNone, Disjoint DEF Core, LockOwned, Watched, StopSteps
  <2>3. ~op'.host
    BY <2>1 DEF NoOp
  <2>4. QED
    BY <2>2, <2>3 DEF TowerOK, Tower, Watched, StartSteps
<1>4. ASSUME NEW t \in Threads, ViewThread(t) PROVE TowerOK'
  <2>1. /\ level' = level /\ started' = started
        /\ \A u \in Threads \ {t} : pc'[u] = pc[u]
        /\ pc'[t] \in {"reconcile", "done", "idle"}
        /\ op' = op \/ lock = t
    BY <1>4, HomeStep, ObserveMoves, ReconcileMoves DEF ViewThread, ViewObserve, ViewReconcile
  <2>2. QED
    BY <1>1, <2>1, OtherTower
<1>5. ASSUME NEW t \in Threads, Step(t) PROVE TowerOK'
  BY <1>4, <1>5, StartTower, StopTower DEF Step
<1>6. ASSUME NEW s \in Sessions, Fire(s) PROVE TowerOK'
  <2>1. <<"timeout", s>> \in Threads
    BY DEF Threads, Timers
  <2>2. /\ pc'[<<"timeout", s>>] = "lock"
        /\ \A u \in Threads \ {<<"timeout", s>>} : pc'[u] = pc[u]
    BY <1>6, <2>1, GotoEffect DEF Fire
  <2>3. level' = level /\ started' = started /\ op' = op
    BY <1>6 DEF Fire, machine, memory
  <2>4. QED
    BY <1>1, <2>1, <2>2, <2>3, OtherTower
<1>7. ASSUME NEW s \in Sessions, DeadlinePasses(s) PROVE TowerOK'
  BY <1>7 DEF DeadlinePasses, machine, memory, TowerOK, Tower
<1>8. CASE Restart
  <2>1. \A u \in Threads : pc'[u] \in {"done", "idle"}
    BY <1>8, HomeStep DEF Restart
  <2>2. QED
    BY <1>1, <2>1 DEF TowerOK, Tower, Watched, StartSteps
<1>9. CASE Meddle
  <2>1. ASSUME NEW u \in Threads PROVE Tower(pc[u])'
    <3>1. CASE lock = NoThread
      <4>1. pc'[u] \notin Watched
        BY <1>9, <3>1, NoThreadIsNone DEF Meddle, Core, LockOwned, Watched, StopSteps
      <4>2. QED
        BY <4>1 DEF Tower, Watched, StartSteps
    <3>2. CASE lock # NoThread
      <4>1. ~op'.quiet
        BY <1>9, <3>2 DEF Meddle, TypeOK, Ops
      <4>2. QED
        BY <4>1 DEF Tower
    <3>3. QED
      BY <3>1, <3>2
  <2>2. QED
    BY <2>1 DEF TowerOK
<1>10. CASE UNCHANGED vars
  BY <1>10 DEF vars, machine, memory, TowerOK, Tower
<1>11. QED
  BY <1>2, <1>3, <1>5, <1>6, <1>7, <1>8, <1>9, <1>10 DEF Next

LEMMA TowerHolds == Spec => []TowerOK
<1>1. Init => TowerOK
  BY Disjoint DEF Init, TowerOK, Tower, StartSteps
<1>2. QED
  BY <1>1, TowerStep, CoreCorrect, PTL DEF Spec

\* Whatever a start recorded as started by itself is down again when it gives up, however far it
\* came, unless a shutdown call failed or somebody else switched the machine meanwhile.
THEOREM FailedStartsCleanUp == Spec => []RecordedLayersAreCleaned
<1>1. TypeOK /\ TowerOK => RecordedLayersAreCleaned
  BY DEF TypeOK, Ops, TowerOK, Tower, RecordedLayersAreCleaned, Threads, StartSteps
<1>2. QED
  BY <1>1, TypeCorrect, TowerHolds, PTL

\* A stop of the controller's own session reports success only with the machine off, whatever
\* its probes and calls said.
THEOREM SuccessfulStopPowersOff == Spec => StopPowersOff
<1>1. TypeOK /\ Core /\ TowerOK /\ [Next]_vars
        => [FinishedStop /\ started /\ op.quiet => level = Off]_vars
  <2> SUFFICES ASSUME TypeOK, Core, TowerOK, Next, FinishedStop, started, op.quiet
               PROVE  level = Off
    OBVIOUS
  <2>1. phase' # phase /\ restarts' = restarts /\ phase' = "idle" /\ phase = "stopping"
    BY DEF FinishedStop
  <2>2. ~Restart
    BY <2>1 DEF Restart, TypeOK
  <2>3. ASSUME NEW u \in Threads PROVE ~(Arrive(u) \/ Acquire(u) \/ ViewThread(u) \/ StartThread(u))
    <3>1. ~(Arrive(u) \/ Acquire(u) \/ ViewThread(u))
      BY <2>1 DEF Arrive, Acquire, ViewThread, ViewObserve, ViewReconcile, Observe, Reconcile, memory
    <3>2. ~StartThread(u)
      BY <2>1 DEF StartThread, StartObserve, StartReconcile, Observe, Reconcile, Adopt, BeginStart,
             CheckHost, CheckVm, Wake, Unlock, StartVm, WaitGuest, ComposeUp, TryStep, FinishStart,
             Schedule, CleanCompose, CleanVm, CleanHost, CleanStep, FailStart, memory
    <3> QED BY <3>1, <3>2
  <2>4. PICK t \in Threads : StopThread(t)
    BY <2>1, <2>2, <2>3 DEF Next, Step, Fire, DeadlinePasses, Meddle, memory
  <2>5. FinishStop(t)
    BY <2>1, <2>4 DEF StopThread, StopObserve, StopReconcile, Observe, Reconcile, CancelTimeout,
           StopSkipped, BeginStop, StopCompose, StopVm, StopHost, StopStep, memory
  <2>6. pc[t] = "p_finish" /\ ~op.errors
    BY <2>1, <2>5 DEF FinishStop
  <2>7. QED
    BY <2>6 DEF TowerOK, Tower
<1>2. QED
  BY <1>1, CoreCorrect, TowerHolds, PTL DEF Spec, StopPowersOff
=============================================================================
