--------------------------- MODULE RouterDhcp_proofs ---------------------------
(***************************************************************************)
(* Proofs about RouterDhcp for any number of scopes, overlapping ticks and *)
(* faults.                                                                 *)
(***************************************************************************)
EXTENDS RouterDhcp, TLAPS

\* Every step of a run, and what else may happen.
RunStep == \E p \in Runs : StepOf(p)
Environment ==
    \/ \E p \in Rebinders : StartRebind(p)
    \/ \E p \in Runs : Kill(p)
    \/ StartPlayed \/ PlayBootstrap \/ StopBootstrap \/ PlayService \/ PlayApply
    \/ ServerStart \/ ServerCrash \/ Reboot
    \/ \E n \in Scopes : Load(n) \/ LinkChange(n) \/ \E on \in BOOLEAN : Console(n, on)

LEMMA SplitNext == Next <=> RunStep \/ Environment
BY DEF Next, RunStep, Environment

(***************************************************************************)
(* Types                                                                   *)
(***************************************************************************)
LEMMA NameType ==
    ASSUME TypeOK, NEW p \in Runs
    PROVE  Name(p) \in Scopes
BY RouterConstants DEF TypeOK, Name

LEMMA SwitchedType ==
    ASSUME TypeOK, NEW n \in Scopes, NEW on \in BOOLEAN
    PROVE  Switched(n, on) \in [Scopes -> [saved : BOOLEAN, enabled : BOOLEAN, bound : BOOLEAN]]
<1>1. scope \in [Scopes -> [saved : BOOLEAN, enabled : BOOLEAN, bound : BOOLEAN]]
  BY DEF TypeOK
<1>2. PICK b \in BOOLEAN : b = (on /\ Bindable(n))
  BY DEF Bindable
<1>3. [scope EXCEPT ![n].enabled = on, ![n].bound = b]
        \in [Scopes -> [saved : BOOLEAN, enabled : BOOLEAN, bound : BOOLEAN]]
  BY ONLY <1>1, n \in Scopes, on \in BOOLEAN
<1> QED
  BY <1>1, <1>2, <1>3 DEF Switched

LEMMA CreatedType ==
    ASSUME TypeOK, NEW n \in Scopes
    PROVE  Created(n) \in [Scopes -> [saved : BOOLEAN, enabled : BOOLEAN, bound : BOOLEAN]]
BY DEF TypeOK, Created, Bindable

\* What a step of one run does to the runs, the lock and the play.
RunType == run \in [Runs -> [at : Steps, i : 1 .. Len(Declared), seen : SUBSET Scopes, session : BOOLEAN]]
ControlType ==
    RunType /\ lock \in Runs \cup {NoOne} /\ play \in Plays /\ touched \in SUBSET Scopes

LEMMA GotoType ==
    ASSUME TypeOK, NEW p \in Runs, NEW at \in Steps, Goto(p, at)
    PROVE  ControlType'
BY DEF TypeOK, Goto, ControlType, RunType

LEMMA LeaveType ==
    ASSUME TypeOK, NEW p \in Runs, Leave(p)
    PROVE  RunType' /\ lock' \in Runs \cup {NoOne} /\ touched' \in SUBSET Scopes
<1>1. 1 \in 1 .. Len(Declared)
  BY RouterConstants
<1> QED
  BY <1>1 DEF TypeOK, Leave, RunType, Idle, Steps

LEMMA RaiseType ==
    ASSUME TypeOK, NEW p \in Runs, Raise(p)
    PROVE  ControlType'
BY LeaveType DEF TypeOK, Raise, ControlType, Failed, Plays

LEMMA ReturnType ==
    ASSUME TypeOK, NEW p \in Runs, Return(p)
    PROVE  ControlType'
BY LeaveType DEF TypeOK, Return, ControlType, Plays

LEMMA AdvanceType ==
    ASSUME TypeOK, NEW p \in Runs, NEW at \in Steps, Advance(p, at)
    PROVE  ControlType'
<1>1. CASE run[p].i < Len(Declared)
  <2>1. run[p].i + 1 \in 1 .. Len(Declared)
    BY <1>1, RouterConstants DEF TypeOK
  <2> QED
    BY <1>1, <2>1 DEF TypeOK, Advance, ControlType, RunType
<1>2. CASE ~(run[p].i < Len(Declared))
  BY <1>2, ReturnType DEF Advance
<1> QED
  BY <1>1, <1>2

LEMMA FaultType ==
    ASSUME TypeOK, Fault
    PROVE  faults' \in 0 .. MaxFaults
BY RouterConstants DEF TypeOK, Fault

StoreType ==
    /\ scope \in [Scopes -> [saved : BOOLEAN, enabled : BOOLEAN, bound : BOOLEAN]]
    /\ loaded \in SUBSET Scopes
    /\ config \in BOOLEAN
    /\ asked \in [Scopes -> {"nothing", "on", "off"}]
    /\ faults \in 0 .. MaxFaults

LEMMA StepType ==
    ASSUME TypeOK, RunStep
    PROVE  TypeOK'
<1>1. PICK p \in Runs : StepOf(p)
  BY DEF RunStep
<1> DEFINE n == Name(p)
<1>2. n \in Scopes
  BY NameType
<1>3. /\ "idle" \in Steps /\ "login" \in Steps /\ "list" \in Steps /\ "clear" \in Steps
      /\ "touch" \in Steps /\ "disable" \in Steps /\ "enable" \in Steps /\ "unlink" \in Steps
      /\ "resume" \in Steps /\ "settings" \in Steps /\ "set" \in Steps /\ "off" \in Steps
      /\ "on" \in Steps /\ "look" \in Steps /\ "fresh" \in Steps /\ "wait" \in Steps
  BY DEF Steps, Marked
<1>4. SUFFICES /\ ControlType' /\ StoreType'
               /\ UNCHANGED <<server, service, link>>
               /\ pending' \in SUBSET Scopes
  BY DEF TypeOK, ControlType, RunType, StoreType
<1>5. CASE CheckService(p)
  BY <1>5, <1>3, GotoType, ReturnType DEF CheckService, TypeOK, StoreType, container
<1>6. CASE Login(p)
  <2>1. ControlType'
    <3>1. CASE server # "down"
      <4>1. FirstCall(p) \in Steps
        BY <1>3 DEF FirstCall
      <4>2. RunType'
        <5>1. run' = [run EXCEPT ![p].at = FirstCall(p), ![p].session = TRUE]
          BY <3>1, <1>6 DEF Login
        <5>2. RunType
          BY DEF TypeOK, RunType
        <5> QED
          BY ONLY <4>1, <5>1, <5>2, p \in Runs DEF RunType
      <4>3. UNCHANGED <<lock, play, touched>>
        BY <3>1, <1>6 DEF Login
      <4> QED
        BY <4>2, <4>3 DEF TypeOK, ControlType
    <3>2. CASE server = "down"
      BY <3>2, <1>6, RaiseType DEF Login
    <3> QED
      BY <3>1, <3>2
  <2> QED
    BY <2>1, <1>6 DEF Login, TypeOK, StoreType, container
<1>7. CASE LookAtLinks(p)
  <2>1. RunType'
    <3>1. run' = [run EXCEPT ![p].at = "resume", ![p].seen = link]
      BY <1>7 DEF LookAtLinks
    <3>2. RunType /\ link \in SUBSET Scopes
      BY DEF TypeOK, RunType
    <3> QED
      BY ONLY <1>3, <3>1, <3>2, p \in Runs DEF RunType
  <2>2. UNCHANGED <<container, service, config, scope, link, pending, lock, play, asked, touched, faults>>
    BY <1>7 DEF LookAtLinks
  <2> QED
    BY <2>1, <2>2 DEF TypeOK, StoreType, ControlType, container
<1>8. CASE Resume(p)
  BY <1>8, <1>2, <1>3, GotoType, RaiseType, FaultType, SwitchedType
     DEF Resume, Call, TypeOK, StoreType
<1>9. CASE Clear(p)
  BY <1>9, <1>3, GotoType DEF Clear, TypeOK, StoreType, container
<1>10. CASE List(p)
  BY <1>10, <1>2, <1>3, GotoType, AdvanceType, RaiseType, FaultType
     DEF List, Call, TypeOK, StoreType
<1>11. CASE Touch(p)
  BY <1>11, <1>2, <1>3, GotoType DEF Touch, TypeOK, StoreType, container
<1>12. CASE Disable(p)
  BY <1>12, <1>2, <1>3, GotoType, RaiseType, FaultType, SwitchedType
     DEF Disable, Call, TypeOK, StoreType
<1>13. CASE Enable(p)
  BY <1>13, <1>2, <1>3, GotoType, RaiseType, FaultType, SwitchedType
     DEF Enable, Call, TypeOK, StoreType
<1>14. CASE Unlink(p)
  BY <1>14, <1>3, AdvanceType DEF Unlink, TypeOK, StoreType, container
<1>15. CASE CheckFresh(p)
  BY <1>15, <1>3, GotoType, RaiseType, FaultType DEF CheckFresh, Call, TypeOK, StoreType
<1>16. CASE Settings(p)
  BY <1>16, <1>3, GotoType, ReturnType, RaiseType, FaultType DEF Settings, Call, TypeOK, StoreType
<1>17. CASE SetScope(p)
  BY <1>17, <1>2, <1>3, GotoType, RaiseType, FaultType, CreatedType
     DEF SetScope, Call, TypeOK, StoreType
<1>18. CASE SwitchOff(p)
  BY <1>18, <1>2, <1>3, AdvanceType, RaiseType, FaultType, SwitchedType
     DEF SwitchOff, Call, TypeOK, StoreType
<1>19. CASE WaitLoaded(p)
  BY <1>19, <1>3, GotoType, RaiseType, FaultType DEF WaitLoaded, Call, TypeOK, StoreType
<1>20. CASE SwitchOn(p)
  <2>1. ControlType'
    BY <1>20, <1>3, AdvanceType, RaiseType DEF SwitchOn, Call
  <2>2. StoreType'
    <3>1. scope' \in {scope, Switched(n, TRUE)}
      BY <1>20 DEF SwitchOn, Call
    <3>2. asked' \in {asked, [asked EXCEPT ![n] = "on"]} /\ UNCHANGED <<loaded, config>>
      BY <1>20 DEF SwitchOn, Call
    <3>3. faults' \in 0 .. MaxFaults
      BY <1>20, FaultType DEF SwitchOn, Call, TypeOK
    <3>4. asked' \in [Scopes -> {"nothing", "on", "off"}]
      BY <1>2, <3>2 DEF TypeOK
    <3>5. scope' \in [Scopes -> [saved : BOOLEAN, enabled : BOOLEAN, bound : BOOLEAN]]
      <4>1. Switched(n, TRUE) \in [Scopes -> [saved : BOOLEAN, enabled : BOOLEAN, bound : BOOLEAN]]
        BY <1>2, SwitchedType
      <4> QED
        BY <3>1, <4>1 DEF TypeOK
    <3> QED
      BY <3>2, <3>3, <3>4, <3>5 DEF TypeOK, StoreType
  <2> QED
    BY <1>20, <2>1, <2>2 DEF SwitchOn, TypeOK
<1> QED
  BY <1>1, <1>5, <1>6, <1>7, <1>8, <1>9, <1>10, <1>11, <1>12, <1>13, <1>14, <1>15, <1>16,
     <1>17, <1>18, <1>19, <1>20 DEF StepOf, Rebind, Played

LEMMA EnvironmentType ==
    ASSUME TypeOK, Environment
    PROVE  TypeOK'
<1>1. ASSUME NEW p \in Rebinders, StartRebind(p) PROVE TypeOK'
  BY <1>1 DEF StartRebind, TypeOK, container, Runs, Steps
<1>2. ASSUME NEW p \in Runs, Kill(p) PROVE TypeOK'
  BY <1>2, RaiseType, FaultType DEF Kill, TypeOK, container, ControlType, RunType
<1>3. CASE StartPlayed
  BY <1>3 DEF StartPlayed, TypeOK, container, Runs, Steps, Failed, Plays
<1>4. CASE PlayBootstrap \/ StopBootstrap \/ PlayService \/ PlayApply
  BY <1>4 DEF PlayBootstrap, StopBootstrap, PlayService, PlayApply, PlayUnchanged, TypeOK,
              container, Plays
<1>5. CASE ServerStart
  BY <1>5 DEF ServerStart, TypeOK
<1>6. CASE ServerCrash
  BY <1>6, FaultType DEF ServerCrash, Down, TypeOK
<1>7. CASE Reboot
  <2>1. 1 \in 1 .. Len(Declared)
    BY RouterConstants
  <2>2. link' \in SUBSET Scopes
    BY <1>7 DEF Reboot, TypeOK
  <2> QED
    BY <1>7, <2>1, <2>2, FaultType DEF Reboot, Down, TypeOK, Idle, Steps, Plays
<1>8. ASSUME NEW n \in Scopes, Load(n) PROVE TypeOK'
  BY <1>8 DEF Load, TypeOK, Bindable
<1>9. ASSUME NEW n \in Scopes, LinkChange(n) PROVE TypeOK'
  BY <1>9 DEF LinkChange, TypeOK, container
<1>10. ASSUME NEW n \in Scopes, NEW on \in BOOLEAN, Console(n, on) PROVE TypeOK'
  <2>1. faults' \in 0 .. MaxFaults
    BY <1>10, FaultType DEF Console, TypeOK
  <2> QED
    BY <1>10, <2>1, SwitchedType DEF Console, TypeOK, container
<1> QED
  BY <1>1, <1>2, <1>3, <1>4, <1>5, <1>6, <1>7, <1>8, <1>9, <1>10 DEF Environment

LEMMA InitType == Init => TypeOK
<1> SUFFICES ASSUME Init PROVE TypeOK
  OBVIOUS
<1>1. 1 \in 1 .. Len(Declared) /\ 0 \in 0 .. MaxFaults
  BY RouterConstants
<1>2. RunType
  BY <1>1 DEF Init, RunType, Idle, Steps
<1>3. scope \in [Scopes -> [saved : BOOLEAN, enabled : BOOLEAN, bound : BOOLEAN]]
  BY DEF Init, NoScope
<1> QED
  BY <1>1, <1>2, <1>3 DEF Init, TypeOK, RunType, Plays

LEMMA NextType == TypeOK /\ [Next]_vars => TypeOK'
<1>1. ASSUME TypeOK, UNCHANGED vars PROVE TypeOK'
  BY <1>1 DEF TypeOK, vars, container
<1> QED
  BY <1>1, StepType, EnvironmentType, SplitNext

\* Every variable of the router's DHCP recovery keeps its type, and a run never goes past the
\* last declared scope.
THEOREM TypeCorrect == Spec => []TypeOK
<1> QED
  BY InitType, NextType, PTL DEF Spec

(***************************************************************************)
(* The inductive invariant behind ScopeNeverForgotten.  The lock leaves one *)
(* run at work, a run works on what it was called for, bootstrap is over   *)
(* before anything asks for a scope, and the marker outlives the two calls.*)
(***************************************************************************)
LockHeld == \A p \in Runs : run[p].at # "idle" => lock = p

Bootstrapping == {"fresh", "set", "off"}
Rebinding == {"check", "look", "resume", "clear", "list", "touch"} \cup Marked

RunsDoTheirOwn ==
    /\ \A p \in Rebinders : run[p].at \in Rebinding \cup {"idle", "login"}
    /\ run[Playbook].at \notin Rebinding
    /\ run[Playbook].at \in Bootstrapping => play = "bootstrap"
    /\ run[Playbook].at \in {"wait", "on"} => play = "enable-dhcp"
    /\ run[Playbook].at # "idle" => play \in Commands

BeforeService ==
    /\ play \in {"bootstrap", "bootstrapped", "aborted", "service"} => ~service
    /\ play = "enable-dhcp" => service
    /\ server = "production" => service
    /\ \A p \in Rebinders : run[p].at # "idle" => service
    /\ \A n \in Scopes : asked[n] = "on" => service

MarkerKept == \A p \in Runs : run[p].at \in Marked => Name(p) \in pending
SwitchedBack == \A p \in Runs : run[p].at \in {"clear", "unlink"} /\ asked[Name(p)] = "on"
                                   => scope[Name(p)].enabled

RecoveryInv == LockHeld /\ RunsDoTheirOwn /\ BeforeService /\ MarkerKept /\ SwitchedBack
                 /\ ScopeNeverForgotten

\* The outcomes of a step of p: p is the only one at work, or nobody is.
Alone(p, at) == /\ run'[p].at = at
                /\ \A q \in Runs \ {p} : run'[q].at = "idle"
                /\ lock' = p
                /\ play' = play
AllIdle == \A q \in Runs : run'[q].at = "idle"

LEMMA OthersIdle ==
    ASSUME LockHeld, NEW p \in Runs, run[p].at # "idle"
    PROVE  lock = p /\ \A q \in Runs \ {p} : run[q].at = "idle"
BY DEF LockHeld

LEMMA AfterGoto ==
    ASSUME TypeOK, LockHeld, NEW p \in Runs, run[p].at # "idle", NEW at, Goto(p, at)
    PROVE  Alone(p, at) /\ Name(p)' = Name(p)
BY OthersIdle DEF TypeOK, Goto, Alone, Name

LEMMA AfterLeave ==
    ASSUME TypeOK, LockHeld, NEW p \in Runs, run[p].at # "idle", Leave(p)
    PROVE  AllIdle
BY OthersIdle DEF TypeOK, Leave, AllIdle, Idle

LEMMA AfterRaise ==
    ASSUME TypeOK, LockHeld, NEW p \in Runs, run[p].at # "idle", Raise(p)
    PROVE  AllIdle
BY AfterLeave DEF Raise

LEMMA AfterReturn ==
    ASSUME TypeOK, LockHeld, NEW p \in Runs, run[p].at # "idle", Return(p)
    PROVE  AllIdle
BY AfterLeave DEF Return

LEMMA AfterAdvance ==
    ASSUME TypeOK, LockHeld, NEW p \in Runs, run[p].at # "idle", NEW at, Advance(p, at)
    PROVE  Alone(p, at) \/ AllIdle
<1>1. CASE run[p].i < Len(Declared)
  BY <1>1, OthersIdle DEF TypeOK, Advance, Alone
<1>2. CASE ~(run[p].i < Len(Declared))
  BY <1>2, AfterReturn DEF Advance
<1> QED
  BY <1>1, <1>2

LEMMA IdleRuns ==
    ASSUME AllIdle
    PROVE  RunsDoTheirOwn' /\ LockHeld' /\ MarkerKept' /\ SwitchedBack'
BY DEF AllIdle, RunsDoTheirOwn, LockHeld, MarkerKept, SwitchedBack, Marked, Rebinding,
       Bootstrapping, Runs

LEMMA AloneRuns ==
    ASSUME NEW p \in Runs, NEW at, Alone(p, at), RunsDoTheirOwn, run[p].at # "idle",
           p \in Rebinders => at \in Rebinding \cup {"login"},
           p = Playbook => at \notin Rebinding /\ (at \in Bootstrapping => play = "bootstrap")
                             /\ (at \in {"wait", "on"} => play = "enable-dhcp")
    PROVE  RunsDoTheirOwn' /\ LockHeld'
BY RouterConstants DEF Alone, RunsDoTheirOwn, LockHeld, Runs, Rebinding, Bootstrapping, Marked

\* What a play step may do to the order of bootstrap and service.
LEMMA OutcomeKeepsOrder ==
    ASSUME BeforeService, RunsDoTheirOwn, NEW p \in Runs, run[p].at # "idle",
           UNCHANGED <<server, service>>, play' = play \/ Raise(p) \/ Return(p),
           \A q \in Rebinders : run'[q].at # "idle" => q = p,
           \A n \in Scopes : asked'[n] = "on" => asked[n] = "on" \/ service
    PROVE  BeforeService'
<1>1. /\ play' \in {"bootstrap", "bootstrapped", "aborted", "service"} => ~service
      /\ play' = "enable-dhcp" => service
  BY DEF BeforeService, RunsDoTheirOwn, Raise, Return, Failed, Commands
<1>2. \A q \in Rebinders : run'[q].at # "idle" => service
  BY DEF BeforeService
<1> QED
  BY <1>1, <1>2 DEF BeforeService

RunInv == TypeOK /\ RecoveryInv

\* What is left to show of a step of p that may leave it at `at`: that this is a step of its own
\* operation, that a marker covers it, and that no scope is forgotten.
Outcome(p, at) ==
    \/ Alone(p, at)
    \/ AllIdle /\ (play' = play \/ Raise(p) \/ Return(p))

LEMMA StepOutcome ==
    ASSUME RunInv, NEW p \in Runs, run[p].at # "idle", NEW at, Outcome(p, at),
           UNCHANGED <<server, service>>,
           p \in Rebinders => at \in Rebinding \cup {"login"},
           p = Playbook => at \notin Rebinding /\ (at \in Bootstrapping => play = "bootstrap")
                             /\ (at \in {"wait", "on"} => play = "enable-dhcp"),
           \A n \in Scopes : asked'[n] = "on" => asked[n] = "on" \/ service,
           Alone(p, at) /\ at \in Marked => Name(p)' \in pending',
           Alone(p, at) /\ at \in {"clear", "unlink"} /\ asked'[Name(p)'] = "on"
                => scope'[Name(p)'].enabled,
           ScopeNeverForgotten'
    PROVE  RecoveryInv'
<1> USE DEF RunInv, RecoveryInv
<1>1. BeforeService'
  <2>1. \A q \in Rebinders : run'[q].at # "idle" => q = p
    BY DEF Outcome, Alone, AllIdle, Runs
  <2>2. play' = play \/ Raise(p) \/ Return(p)
    BY DEF Outcome, Alone
  <2> QED
    BY <2>1, <2>2, OutcomeKeepsOrder
<1>2. CASE AllIdle
  BY <1>1, <1>2, IdleRuns
<1>3. CASE Alone(p, at)
  <2>1. RunsDoTheirOwn' /\ LockHeld'
    BY <1>3, AloneRuns
  <2>2. \A q \in Runs : run'[q].at \in Marked \cup {"clear", "unlink"} => q = p /\ run'[q].at = at
    BY <1>3 DEF Alone, Marked
  <2>3. MarkerKept'
    BY <1>3, <2>2 DEF MarkerKept
  <2>4. SwitchedBack'
    BY <1>3, <2>2 DEF SwitchedBack
  <2> QED
    BY <1>1, <2>1, <2>3, <2>4
<1> QED
  BY <1>2, <1>3 DEF Outcome

LEMMA SwitchedEnabled ==
    ASSUME TypeOK, NEW n \in Scopes, NEW on \in BOOLEAN
    PROVE  /\ Switched(n, on)[n].enabled = on
           /\ \A m \in Scopes \ {n} : Switched(n, on)[m] = scope[m]
BY DEF TypeOK, Switched

LEMMA SwitchingOnKeeps ==
    ASSUME TypeOK, ScopeNeverForgotten, NEW n \in Scopes, UNCHANGED pending,
           scope' \in {scope, Switched(n, TRUE)},
           \A m \in Scopes : asked'[m] = "on" => asked[m] = "on" \/ (m = n /\ scope'[n].enabled)
    PROVE  ScopeNeverForgotten'
<1>1. \A m \in Scopes : scope[m].enabled => scope'[m].enabled
  BY DEF TypeOK, Switched
<1> QED
  BY <1>1 DEF ScopeNeverForgotten

LEMMA SwitchingOffKeeps ==
    ASSUME TypeOK, ScopeNeverForgotten, NEW n \in Scopes, UNCHANGED <<pending, asked>>,
           scope' \in {scope, Switched(n, FALSE)}, n \in pending
    PROVE  ScopeNeverForgotten'
<1>1. \A m \in Scopes \ {n} : scope'[m] = scope[m]
  BY DEF TypeOK, Switched
<1> QED
  BY <1>1 DEF ScopeNeverForgotten

\* A step of a run that leaves scopes, markers and requests alone.
Quiet == UNCHANGED <<scope, pending, asked>>

LEMMA QuietKeeps ==
    ASSUME RunInv, Quiet
    PROVE  /\ ScopeNeverForgotten'
           /\ \A n \in Scopes : asked'[n] = "on" => asked[n] = "on" \/ service
BY DEF RunInv, RecoveryInv, Quiet, ScopeNeverForgotten

LEMMA StepRecovery ==
    ASSUME RunInv, RunStep
    PROVE  RecoveryInv'
<1>1. PICK p \in Runs : StepOf(p)
  BY DEF RunStep
<1> DEFINE n == Name(p)
<1> USE DEF RunInv, RecoveryInv
<1>2. n \in Scopes
  BY NameType
<1>3. run[p].at # "idle"
  BY <1>1 DEF StepOf, Rebind, Played, CheckService, Login, LookAtLinks, Resume, Clear, List, Touch,
              Disable, Enable, Unlink, CheckFresh, Settings, SetScope, SwitchOff, WaitLoaded, SwitchOn
<1>4. run[p].at \in Rebinding => p \in Rebinders /\ p # Playbook
  BY RouterConstants DEF RunsDoTheirOwn, Runs, Rebinding
<1>5. run[p].at \in Bootstrapping \cup {"settings", "wait", "on"} => p = Playbook /\ p \notin Rebinders
  BY RouterConstants DEF RunsDoTheirOwn, Runs, Rebinding, Bootstrapping, Marked
<1>6. CASE CheckService(p)
  <2>1. Outcome(p, "login")
    BY <1>3, <1>6, AfterGoto, AfterReturn DEF CheckService, Outcome, Goto
  <2> QED
    BY <1>3, <1>4, <1>6, <2>1, StepOutcome, QuietKeeps DEF CheckService, Quiet, container, Rebinding, Marked
<1>7. CASE Login(p)
  <2>1. Outcome(p, FirstCall(p))
    BY <1>3, <1>7, OthersIdle, AfterRaise DEF Login, Outcome, Alone, TypeOK
  <2>2. /\ p \in Rebinders => FirstCall(p) = "look"
        /\ p = Playbook => FirstCall(p) \in {"fresh", "wait", "settings"}
        /\ FirstCall(p) = "fresh" => play = "bootstrap"
        /\ FirstCall(p) = "wait" => play = "enable-dhcp"
        /\ FirstCall(p) \notin Marked \cup {"clear", "unlink"}
    BY RouterConstants DEF FirstCall, Marked
  <2> QED
    BY <1>3, <1>7, <2>1, <2>2, StepOutcome, QuietKeeps DEF Login, Quiet, container, Rebinding, Bootstrapping, Marked
<1>8. CASE LookAtLinks(p)
  <2>1. Outcome(p, "resume")
    BY <1>3, <1>8, OthersIdle DEF LookAtLinks, Outcome, Alone, TypeOK
  <2> QED
    BY <1>3, <1>4, <1>8, <2>1, StepOutcome, QuietKeeps DEF LookAtLinks, Quiet, container, Rebinding, Marked
<1>9. CASE Resume(p)
  <2>1. CASE n \in pending
    <3>1. /\ \/ scope' = Switched(n, TRUE) /\ Goto(p, "clear")
             \/ scope' \in {scope, Switched(n, TRUE)} /\ Raise(p)
          /\ UNCHANGED <<server, service, pending, asked>>
      BY <1>9, <2>1 DEF Resume, Call
    <3>2. Outcome(p, "clear")
      BY <1>3, <3>1, AfterGoto, AfterRaise DEF Outcome
    <3>3. ScopeNeverForgotten'
      <4>1. scope' \in {scope, Switched(n, TRUE)} /\ pending' = pending /\ asked' = asked
        BY <3>1
      <4>2. ScopeNeverForgotten
        OBVIOUS
      <4> QED
        BY <1>2, <4>1, <4>2, SwitchingOnKeeps
    <3>4. Alone(p, "clear") => scope'[Name(p)'].enabled
      BY <1>2, <1>3, <3>1, SwitchedEnabled, AfterGoto, AfterRaise DEF Alone, AllIdle
    <3> QED
      BY <1>3, <1>4, <1>9, <3>1, <3>2, <3>3, <3>4, StepOutcome DEF Resume, Rebinding, Marked
  <2>2. CASE n \notin pending
    <3>1. Goto(p, "list") /\ Quiet /\ UNCHANGED <<server, service>>
      BY <1>9, <2>2 DEF Resume, Quiet
    <3>2. Outcome(p, "list")
      BY <1>3, <3>1, AfterGoto DEF Outcome
    <3> QED
      BY <1>3, <1>4, <1>9, <3>1, <3>2, StepOutcome, QuietKeeps DEF Resume, Rebinding, Marked
  <2> QED
    BY <2>1, <2>2
<1>10. CASE Clear(p)
  <2>1. Outcome(p, "list")
    BY <1>3, <1>10, AfterGoto DEF Clear, Outcome
  <2>2. ScopeNeverForgotten'
    BY <1>2, <1>10 DEF Clear, ScopeNeverForgotten, SwitchedBack
  <2> QED
    BY <1>3, <1>4, <1>10, <2>1, <2>2, StepOutcome DEF Clear, container, Rebinding, Marked
<1>11. CASE List(p)
  <2>1. Outcome(p, "touch") \/ Outcome(p, "resume")
    BY <1>3, <1>11, AfterGoto, AfterAdvance, AfterRaise DEF List, Call, Outcome, Advance
  <2>2. Quiet /\ UNCHANGED <<server, service>>
    BY <1>11 DEF List, Call, Quiet
  <2>3. ASSUME NEW at \in {"touch", "resume"}, Outcome(p, at) PROVE RecoveryInv'
    BY <1>3, <1>4, <1>11, <2>2, <2>3, StepOutcome, QuietKeeps DEF List, Rebinding, Marked
  <2> QED
    BY <2>1, <2>3
<1>12. CASE Touch(p)
  <2>1. Outcome(p, "disable") /\ Name(p)' = n
    BY <1>3, <1>12, AfterGoto DEF Touch, Outcome
  <2>2. ScopeNeverForgotten' /\ n \in pending'
    BY <1>12 DEF Touch, ScopeNeverForgotten
  <2> QED
    BY <1>3, <1>4, <1>12, <2>1, <2>2, StepOutcome DEF Touch, container, Rebinding, Marked
<1>13. CASE Disable(p)
  <2>1. /\ scope' \in {scope, Switched(n, FALSE)}
        /\ Goto(p, "enable") \/ Raise(p)
        /\ UNCHANGED <<server, service, pending, asked>>
    BY <1>13 DEF Disable, Call
  <2>2. Outcome(p, "enable") /\ (Alone(p, "enable") => Name(p)' = n)
    BY <1>3, <2>1, AfterGoto, AfterRaise DEF Outcome, Alone, AllIdle
  <2>3. n \in pending
    BY <1>13 DEF Disable, MarkerKept, Marked
  <2>4. ScopeNeverForgotten'
    BY <1>2, <2>1, <2>3, SwitchingOffKeeps
  <2> QED
    BY <1>3, <1>4, <1>13, <2>1, <2>2, <2>3, <2>4, StepOutcome DEF Disable, Rebinding, Marked
<1>14. CASE Enable(p)
  <2>1. /\ \/ scope' = Switched(n, TRUE) /\ Goto(p, "unlink")
           \/ scope' \in {scope, Switched(n, TRUE)} /\ Raise(p)
        /\ UNCHANGED <<server, service, pending, asked>>
    BY <1>14 DEF Enable, Call
  <2>2. Outcome(p, "unlink") /\ (Alone(p, "unlink") => Name(p)' = n)
    BY <1>3, <2>1, AfterGoto, AfterRaise DEF Outcome, Alone, AllIdle
  <2>3. n \in pending
    BY <1>14 DEF Enable, MarkerKept, Marked
  <2>4. ScopeNeverForgotten'
    <3>1. scope' \in {scope, Switched(n, TRUE)} /\ pending' = pending /\ asked' = asked
      BY <2>1
    <3> QED
      BY <1>2, <3>1, SwitchingOnKeeps
  <2>5. Alone(p, "unlink") => scope'[Name(p)'].enabled
    BY <1>2, <1>3, <2>1, SwitchedEnabled, AfterGoto, AfterRaise DEF Alone, AllIdle
  <2> QED
    BY <1>3, <1>4, <1>14, <2>1, <2>2, <2>3, <2>4, <2>5, StepOutcome DEF Enable, Rebinding, Marked
<1>15. CASE Unlink(p)
  <2>1. Outcome(p, "resume")
    BY <1>3, <1>15, AfterAdvance DEF Unlink, Outcome, Advance
  <2>2. ScopeNeverForgotten'
    BY <1>2, <1>15 DEF Unlink, ScopeNeverForgotten, SwitchedBack
  <2> QED
    BY <1>3, <1>4, <1>15, <2>1, <2>2, StepOutcome DEF Unlink, container, Rebinding, Marked
<1>16. CASE CheckFresh(p)
  <2>1. Outcome(p, "settings") /\ Quiet /\ UNCHANGED <<server, service>>
    BY <1>3, <1>16, AfterGoto, AfterRaise DEF CheckFresh, Call, Outcome, Quiet
  <2> QED
    BY <1>3, <1>5, <1>16, <2>1, StepOutcome, QuietKeeps DEF CheckFresh, Rebinding, Bootstrapping, Marked
<1>17. CASE Settings(p)
  <2>1. Outcome(p, "set") /\ Quiet /\ UNCHANGED <<server, service>>
    BY <1>3, <1>17, AfterGoto, AfterRaise, AfterReturn DEF Settings, Call, Outcome, Quiet
  <2>2. Alone(p, "set") => play = "bootstrap"
    BY <1>3, <1>17, AfterGoto, AfterRaise, AfterReturn DEF Settings, Call, Alone, AllIdle
  <2>3. CASE Alone(p, "set")
    BY <1>3, <1>5, <1>17, <2>1, <2>2, <2>3, StepOutcome, QuietKeeps DEF Settings, Rebinding, Bootstrapping, Marked
  <2>4. CASE AllIdle
    BY <1>3, <1>5, <1>17, <2>1, <2>4, IdleRuns, OutcomeKeepsOrder, QuietKeeps
       DEF Outcome, Alone, AllIdle, Runs
  <2> QED
    BY <2>1, <2>3, <2>4 DEF Outcome
<1>18. CASE SetScope(p)
  <2>1. /\ scope' \in {scope, Created(n)}
        /\ Goto(p, "off") \/ Raise(p)
        /\ UNCHANGED <<server, service, pending, asked>>
    BY <1>18 DEF SetScope, Call
  <2>2. Outcome(p, "off")
    BY <1>3, <2>1, AfterGoto, AfterRaise DEF Outcome
  <2>3. ScopeNeverForgotten'
    BY <1>2, <2>1 DEF ScopeNeverForgotten, Created, TypeOK
  <2> QED
    BY <1>3, <1>5, <1>18, <2>1, <2>2, <2>3, StepOutcome
       DEF SetScope, RunsDoTheirOwn, Rebinding, Bootstrapping, Marked
<1>19. CASE SwitchOff(p)
  <2>1. /\ scope' \in {scope, Switched(n, FALSE)}
        /\ Advance(p, "set") \/ Raise(p)
        /\ UNCHANGED <<server, service, pending, asked>>
    BY <1>19 DEF SwitchOff, Call
  <2>2. Outcome(p, "set")
    BY <1>3, <2>1, AfterAdvance, AfterRaise DEF Outcome, Advance
  <2>3. \A m \in Scopes : asked[m] # "on"
    BY <1>5, <1>19 DEF SwitchOff, RunsDoTheirOwn, BeforeService, Bootstrapping
  <2>4. ScopeNeverForgotten'
    BY <2>1, <2>3 DEF ScopeNeverForgotten
  <2> QED
    BY <1>3, <1>5, <1>19, <2>1, <2>2, <2>4, StepOutcome
       DEF SwitchOff, RunsDoTheirOwn, Rebinding, Bootstrapping, Marked
<1>20. CASE WaitLoaded(p)
  <2>1. Outcome(p, "on") /\ Quiet /\ UNCHANGED <<server, service>>
    BY <1>3, <1>20, AfterGoto, AfterRaise DEF WaitLoaded, Call, Outcome, Quiet
  <2> QED
    BY <1>3, <1>5, <1>20, <2>1, StepOutcome, QuietKeeps
       DEF WaitLoaded, RunsDoTheirOwn, Rebinding, Bootstrapping, Marked
<1>21. CASE SwitchOn(p)
  <2>1. /\ \/ scope' = scope /\ asked' = asked
           \/ scope' = Switched(n, TRUE) /\ asked' = [asked EXCEPT ![n] = "on"]
        /\ Advance(p, "on") \/ Raise(p)
        /\ UNCHANGED <<server, service, pending>>
    BY <1>21 DEF SwitchOn, Call
  <2>2. Outcome(p, "on")
    BY <1>3, <2>1, AfterAdvance, AfterRaise DEF Outcome, Advance
  <2>3. service
    BY <1>21, <1>5 DEF SwitchOn, RunsDoTheirOwn, BeforeService
  <2>4. ScopeNeverForgotten'
    <3>1. scope' \in {scope, Switched(n, TRUE)}
      BY <2>1
    <3>2. scope' = Switched(n, TRUE) => scope'[n].enabled
      BY <1>2, SwitchedEnabled
    <3>3. \A m \in Scopes : asked'[m] = "on" => asked[m] = "on" \/ (m = n /\ scope'[n].enabled)
      BY <1>2, <2>1, <3>2 DEF TypeOK
    <3> QED
      BY <1>2, <2>1, <3>1, <3>3, SwitchingOnKeeps
  <2> QED
    BY <1>3, <1>5, <1>21, <2>1, <2>2, <2>3, <2>4, StepOutcome
       DEF SwitchOn, RunsDoTheirOwn, Rebinding, Bootstrapping, Marked
<1> QED
  BY <1>1, <1>6, <1>7, <1>8, <1>9, <1>10, <1>11, <1>12, <1>13, <1>14, <1>15, <1>16, <1>17, <1>18,
     <1>19, <1>20, <1>21 DEF StepOf, Rebind, Played

LEMMA EnvironmentRecovery ==
    ASSUME RunInv, Environment
    PROVE  RecoveryInv'
<1> USE DEF RunInv, RecoveryInv
<1>1. ASSUME NEW p \in Rebinders, StartRebind(p) PROVE RecoveryInv'
  <2>1. /\ \A q \in Runs : run[q].at = "idle"
        /\ \A q \in Runs \ {p} : run'[q].at = "idle"
        /\ run'[p].at = "check" /\ lock' = p
    BY <1>1, RouterConstants DEF StartRebind, LockHeld, TypeOK, Runs
  <2>2. LockHeld' /\ RunsDoTheirOwn'
    BY <1>1, <2>1, RouterConstants DEF LockHeld, RunsDoTheirOwn, Runs, Rebinding, Bootstrapping, Marked
  <2>3. BeforeService'
    BY <1>1, <2>1 DEF StartRebind, BeforeService, container
  <2>4. MarkerKept' /\ SwitchedBack' /\ ScopeNeverForgotten'
    BY <1>1, <2>1 DEF StartRebind, MarkerKept, SwitchedBack, ScopeNeverForgotten, Marked
  <2> QED
    BY <2>2, <2>3, <2>4
<1>2. ASSUME NEW p \in Runs, Kill(p) PROVE RecoveryInv'
  <2>1. run[p].at # "idle" /\ AllIdle /\ Raise(p) /\ Quiet /\ UNCHANGED <<server, service>>
    BY <1>2, AfterRaise DEF Kill, Quiet, container
  <2>2. BeforeService'
    BY <2>1, OutcomeKeepsOrder, QuietKeeps DEF AllIdle, Runs
  <2> QED
    BY <2>1, <2>2, IdleRuns, QuietKeeps
<1>3. CASE StartPlayed
  <2>1. CASE lock = NoOne
    <3>1. /\ \A q \in Runs \ {Playbook} : run'[q].at = "idle"
          /\ run'[Playbook].at = "login" /\ lock' = Playbook /\ play' = play
      BY <1>3, <2>1, RouterConstants DEF StartPlayed, LockHeld, TypeOK, Runs
    <3>2. LockHeld' /\ RunsDoTheirOwn'
      BY <1>3, <3>1, RouterConstants DEF StartPlayed, LockHeld, RunsDoTheirOwn, Runs, Rebinding, Bootstrapping, Marked
    <3>3. BeforeService' /\ MarkerKept' /\ SwitchedBack' /\ ScopeNeverForgotten'
      BY <1>3, <3>1, RouterConstants DEF StartPlayed, BeforeService, MarkerKept, SwitchedBack,
         ScopeNeverForgotten, Marked, Runs, container
    <3> QED
      BY <3>2, <3>3
  <2>2. CASE lock # NoOne
    <3>1. UNCHANGED <<run, lock, scope, pending, asked, server, service>> /\ play' = Failed
          /\ run[Playbook].at = "idle" /\ play \in Commands
      BY <1>3, <2>2 DEF StartPlayed, container
    <3>2. RunsDoTheirOwn' /\ BeforeService'
      BY <3>1 DEF RunsDoTheirOwn, BeforeService, Failed, Bootstrapping, Rebinding, Commands
    <3> QED
      BY <3>1, <3>2 DEF LockHeld, MarkerKept, SwitchedBack, ScopeNeverForgotten, Name
  <2> QED
    BY <2>1, <2>2
<1>4. CASE PlayBootstrap \/ StopBootstrap \/ PlayService \/ PlayApply
  <2>1. UNCHANGED <<run, lock, scope, pending, asked>>
    BY <1>4 DEF PlayBootstrap, StopBootstrap, PlayService, PlayApply, PlayUnchanged
  <2>2. run[Playbook].at = "idle"
    BY <1>4 DEF PlayBootstrap, StopBootstrap, PlayService, PlayApply, RunsDoTheirOwn, Commands
  <2>3. RunsDoTheirOwn'
    BY <2>1, <2>2 DEF RunsDoTheirOwn, Bootstrapping, Rebinding, Marked
  <2>4. BeforeService'
    BY <1>4, <2>1 DEF PlayBootstrap, StopBootstrap, PlayService, PlayApply, BeforeService, container
  <2> QED
    BY <2>1, <2>3, <2>4 DEF LockHeld, MarkerKept, SwitchedBack, ScopeNeverForgotten, Name
<1>5. CASE ServerStart
  BY <1>5 DEF ServerStart, LockHeld, RunsDoTheirOwn, BeforeService, MarkerKept, SwitchedBack,
              ScopeNeverForgotten, Name
<1>6. CASE ServerCrash
  <2>1. /\ \A q \in Runs : run'[q].at = run[q].at /\ run'[q].i = run[q].i
        /\ \A n \in Scopes : scope'[n].enabled = scope[n].enabled
        /\ server' = "down" /\ UNCHANGED <<service, pending, asked, lock, play>>
    BY <1>6 DEF ServerCrash, Down, TypeOK
  <2>2. LockHeld' /\ RunsDoTheirOwn'
    BY <2>1 DEF LockHeld, RunsDoTheirOwn, Runs
  <2>3. BeforeService'
    BY <2>1 DEF BeforeService, Runs
  <2>4. \A q \in Runs : Name(q)' = Name(q) /\ Name(q) \in Scopes
    BY <2>1, NameType DEF Name
  <2> QED
    BY <2>1, <2>2, <2>3, <2>4 DEF MarkerKept, SwitchedBack, ScopeNeverForgotten
<1>7. CASE Reboot
  <2>1. /\ AllIdle
        /\ \A n \in Scopes : scope'[n].enabled = scope[n].enabled
        /\ server' = "down" /\ play' = "none" /\ UNCHANGED <<service, pending, asked>>
    BY <1>7 DEF Reboot, Down, TypeOK, AllIdle, Idle
  <2>2. BeforeService' /\ ScopeNeverForgotten'
    BY <2>1 DEF BeforeService, ScopeNeverForgotten, AllIdle, Runs
  <2> QED
    BY <2>1, <2>2, IdleRuns
<1>8. ASSUME NEW n \in Scopes, Load(n) PROVE RecoveryInv'
  <2>1. /\ \A m \in Scopes : scope'[m].enabled = scope[m].enabled
        /\ UNCHANGED <<server, service, pending, asked, lock, play, run>>
    BY <1>8 DEF Load, TypeOK
  <2>2. \A q \in Runs : Name(q)' = Name(q) /\ Name(q) \in Scopes
    BY <2>1, NameType DEF Name
  <2> QED
    BY <2>1, <2>2 DEF LockHeld, RunsDoTheirOwn, BeforeService, MarkerKept, SwitchedBack, ScopeNeverForgotten
<1>9. ASSUME NEW n \in Scopes, LinkChange(n) PROVE RecoveryInv'
  BY <1>9 DEF LinkChange, LockHeld, RunsDoTheirOwn, BeforeService, MarkerKept, SwitchedBack,
              ScopeNeverForgotten, Name, container
<1>10. ASSUME NEW n \in Scopes, NEW on \in BOOLEAN, Console(n, on) PROVE RecoveryInv'
  <2>1. /\ \A m \in Scopes \ {n} : scope'[m] = scope[m] /\ asked'[m] = asked[m]
        /\ asked'[n] = "on" => scope'[n].enabled
        /\ server = "production"
        /\ UNCHANGED <<server, service, pending, lock, play, run>>
    BY <1>10 DEF Console, Switched, TypeOK, container
  <2>2. \A q \in Runs : Name(q)' = Name(q) /\ Name(q) \in Scopes
    BY <2>1, NameType DEF Name
  <2>3. BeforeService'
    BY <2>1 DEF BeforeService
  <2>4. SwitchedBack'
    BY <2>1, <2>2 DEF SwitchedBack
  <2> QED
    BY <2>1, <2>2, <2>3, <2>4 DEF LockHeld, RunsDoTheirOwn, MarkerKept, ScopeNeverForgotten
<1> QED
  BY <1>1, <1>2, <1>3, <1>4, <1>5, <1>6, <1>7, <1>8, <1>9, <1>10 DEF Environment

LEMMA InitRecovery == Init => RecoveryInv
BY DEF Init, Idle, NoScope, RecoveryInv, LockHeld, RunsDoTheirOwn, BeforeService, MarkerKept,
       SwitchedBack, ScopeNeverForgotten, Runs, Rebinding, Bootstrapping, Marked

LEMMA NextRecovery == RunInv /\ [Next]_vars => RunInv'
<1>1. ASSUME RunInv, UNCHANGED vars PROVE RecoveryInv'
  BY <1>1 DEF RunInv, RecoveryInv, vars, container, LockHeld, RunsDoTheirOwn, BeforeService,
              MarkerKept, SwitchedBack, ScopeNeverForgotten, Name
<1> QED
  BY <1>1, NextType, StepRecovery, EnvironmentRecovery, SplitNext DEF RunInv

\* A scope that was asked to be on is on or marked for recovery, across every crash, lost answer
\* and overlapping tick.
THEOREM NeverForgotten == Spec => []ScopeNeverForgotten
<1>1. Init => RunInv
  BY InitType, InitRecovery DEF RunInv
<1>2. RunInv => ScopeNeverForgotten
  BY DEF RunInv, RecoveryInv
<1> QED
  BY <1>1, <1>2, NextRecovery, PTL DEF Spec

(***************************************************************************)
(* The invariant behind BoundScopeUntouched: what a run listed as unbound  *)
(* stays unbound as long as its session lives and nobody else switches it. *)
(***************************************************************************)
BoundIsLoaded ==
    \A n \in Scopes : scope[n].bound => scope[n].enabled /\ server = "production" /\ n \in loaded
ListedUnbound ==
    \A p \in Runs : run[p].at \in {"touch", "disable"} /\ run[p].session
                        => Name(p) \in loaded /\ (~scope[Name(p)].bound \/ Name(p) \in touched)

ServingInv == RunInv /\ BoundIsLoaded /\ ListedUnbound

\* Steps that leave scopes and the server alone, and bring no run to touch or disable.
LEMMA StillServing ==
    ASSUME ServingInv, UNCHANGED <<scope, server, loaded, touched>>,
           \A q \in Runs : run'[q].at \in {"touch", "disable"} => run'[q] = run[q]
    PROVE  BoundIsLoaded' /\ ListedUnbound'
BY DEF ServingInv, BoundIsLoaded, ListedUnbound, Name

\* Steps that leave no run between list and disable.
LEMMA NobodySwitching ==
    ASSUME \A q \in Runs : run'[q].at \notin {"touch", "disable"}
    PROVE  ListedUnbound'
BY DEF ListedUnbound

LEMMA AloneNotSwitching ==
    ASSUME NEW p \in Runs, NEW at, Outcome(p, at), at \notin {"touch", "disable"}
    PROVE  ListedUnbound'
BY NobodySwitching DEF Outcome, Alone, AllIdle

LEMMA SwitchedOnServes ==
    ASSUME TypeOK, BoundIsLoaded, NEW n \in Scopes, n \in loaded, UNCHANGED <<server, loaded>>,
           scope' \in {scope, Switched(n, TRUE)}
    PROVE  BoundIsLoaded' /\ \A m \in Scopes : scope[m].bound => scope'[m].bound
<1>1. \A m \in Scopes \ {n} : scope'[m] = scope[m]
  BY DEF TypeOK, Switched
<1>2. CASE scope[n].enabled
  <2>1. scope' = scope
    BY <1>2 DEF Switched
  <2> QED
    BY <2>1 DEF BoundIsLoaded
<1>3. CASE ~scope[n].enabled
  <2>1. ~scope[n].bound
    BY <1>3 DEF BoundIsLoaded
  <2>2. scope'[n] = scope[n] \/ (scope'[n].enabled /\ (scope'[n].bound => server = "production"))
    BY <1>3 DEF TypeOK, Switched, Bindable
  <2> QED
    BY <1>1, <2>1, <2>2 DEF BoundIsLoaded
<1> QED
  BY <1>2, <1>3

LEMMA SwitchedOffServes ==
    ASSUME TypeOK, BoundIsLoaded, NEW n \in Scopes, UNCHANGED <<server, loaded>>,
           scope' \in {scope, Switched(n, FALSE)}, ~scope[n].bound \/ n \in touched
    PROVE  BoundIsLoaded' /\ \A m \in Scopes : scope[m].bound => scope'[m].bound \/ m \in touched
<1>1. scope'[n] = scope[n] \/ ~scope'[n].bound
  BY DEF TypeOK, Switched
<1>2. \A m \in Scopes \ {n} : scope'[m] = scope[m]
  BY DEF TypeOK, Switched
<1> QED
  BY <1>1, <1>2 DEF BoundIsLoaded

Untouched == \A n \in Scopes :
    scope[n].bound /\ run' # run /\ server' = server /\ server = "production"
        => scope'[n].bound \/ n \in touched

\* A step of a run that makes no call which changes a scope.
LEMMA QuietServes ==
    ASSUME ServingInv, UNCHANGED <<scope, server, loaded>>, ListedUnbound'
    PROVE  BoundIsLoaded' /\ ListedUnbound' /\ Untouched
BY DEF ServingInv, BoundIsLoaded, Untouched

LEMMA StepServes ==
    ASSUME ServingInv, RunStep
    PROVE  BoundIsLoaded' /\ ListedUnbound' /\ Untouched
<1>1. PICK p \in Runs : StepOf(p)
  BY DEF RunStep
<1> DEFINE n == Name(p)
<1> USE DEF ServingInv, RunInv, RecoveryInv
<1>2. n \in Scopes
  BY NameType
<1>3. run[p].at # "idle"
  BY <1>1 DEF StepOf, Rebind, Played, CheckService, Login, LookAtLinks, Resume, Clear, List, Touch,
              Disable, Enable, Unlink, CheckFresh, Settings, SetScope, SwitchOff, WaitLoaded, SwitchOn
<1>4. CASE CheckService(p)
  <2>1. Outcome(p, "login") /\ UNCHANGED <<scope, server, loaded>>
    BY <1>3, <1>4, AfterGoto, AfterReturn DEF CheckService, Outcome, Goto, container
  <2> QED
    BY <2>1, AloneNotSwitching, QuietServes
<1>5. CASE Login(p)
  <2>1. Outcome(p, FirstCall(p)) /\ UNCHANGED <<scope, server, loaded>>
    BY <1>3, <1>5, OthersIdle, AfterRaise DEF Login, Outcome, Alone, TypeOK, container
  <2>2. FirstCall(p) \notin {"touch", "disable"}
    BY DEF FirstCall
  <2> QED
    BY <2>1, <2>2, AloneNotSwitching, QuietServes
<1>6. CASE LookAtLinks(p)
  <2>1. Outcome(p, "resume") /\ UNCHANGED <<scope, server, loaded>>
    BY <1>3, <1>6, OthersIdle DEF LookAtLinks, Outcome, Alone, TypeOK, container
  <2> QED
    BY <2>1, AloneNotSwitching, QuietServes
<1>7. CASE Resume(p)
  <2>1. CASE n \in pending
    <3>1. /\ scope' = scope \/ (scope' = Switched(n, TRUE) /\ n \in loaded)
          /\ Goto(p, "clear") \/ Raise(p)
          /\ UNCHANGED <<server, loaded>>
      BY <1>7, <2>1 DEF Resume, Call, Accepts
    <3>2. Outcome(p, "clear")
      BY <1>3, <3>1, AfterGoto, AfterRaise DEF Outcome
    <3>3. ListedUnbound'
      BY <3>2, AloneNotSwitching
    <3> QED
      BY <1>2, <3>1, <3>3, SwitchedOnServes, QuietServes DEF Untouched
  <2>2. CASE n \notin pending
    <3>1. Goto(p, "list") /\ UNCHANGED <<scope, server, loaded>>
      BY <1>7, <2>2 DEF Resume
    <3>2. Outcome(p, "list")
      BY <1>3, <3>1, AfterGoto DEF Outcome
    <3> QED
      BY <3>1, <3>2, AloneNotSwitching, QuietServes
  <2> QED
    BY <2>1, <2>2
<1>8. CASE Clear(p)
  <2>1. Outcome(p, "list") /\ UNCHANGED <<scope, server, loaded>>
    BY <1>3, <1>8, AfterGoto DEF Clear, Outcome, container
  <2> QED
    BY <2>1, AloneNotSwitching, QuietServes
<1>9. CASE List(p)
  <2>1. UNCHANGED <<scope, server, loaded>>
    BY <1>9 DEF List, Call
  <2>2. CASE Unbound(n) /\ Goto(p, "touch")
    <3>1. Alone(p, "touch") /\ Name(p)' = n /\ touched' = touched
      BY <1>3, <2>2, AfterGoto DEF Goto
    <3>2. ListedUnbound'
      BY <2>1, <2>2, <3>1 DEF ListedUnbound, Alone, Unbound
    <3> QED
      BY <2>1, <3>2, QuietServes
  <2>3. CASE Advance(p, "resume") \/ Raise(p)
    <3>1. Outcome(p, "resume")
      BY <1>3, <2>3, AfterAdvance, AfterRaise DEF Outcome, Advance
    <3> QED
      BY <2>1, <3>1, AloneNotSwitching, QuietServes
  <2> QED
    BY <1>9, <2>2, <2>3 DEF List, Call
<1>10. CASE Touch(p)
  <2>1. Alone(p, "disable") /\ Name(p)' = n /\ run'[p].session = run[p].session
    BY <1>3, <1>10, AfterGoto DEF Touch, Goto, TypeOK
  <2>2. UNCHANGED <<scope, server, loaded, touched>>
    BY <1>10 DEF Touch, Goto, container
  <2>3. ListedUnbound'
    BY <1>10, <2>1, <2>2 DEF Touch, ListedUnbound, Alone
  <2> QED
    BY <2>2, <2>3, QuietServes
<1>11. CASE Disable(p)
  <2>1. /\ scope' = scope \/ (scope' = Switched(n, FALSE) /\ run[p].session)
        /\ Goto(p, "enable") \/ Raise(p)
        /\ UNCHANGED <<server, loaded>>
    BY <1>11 DEF Disable, Call, Accepts
  <2>2. Outcome(p, "enable")
    BY <1>3, <2>1, AfterGoto, AfterRaise DEF Outcome
  <2>3. ListedUnbound'
    BY <2>2, AloneNotSwitching
  <2>4. run[p].session => ~scope[n].bound \/ n \in touched
    BY <1>11 DEF Disable, ListedUnbound
  <2> QED
    BY <1>2, <2>1, <2>3, <2>4, SwitchedOffServes, QuietServes DEF Untouched
<1>12. CASE Enable(p)
  <2>1. /\ scope' = scope \/ (scope' = Switched(n, TRUE) /\ n \in loaded)
        /\ Goto(p, "unlink") \/ Raise(p)
        /\ UNCHANGED <<server, loaded>>
    BY <1>12 DEF Enable, Call, Accepts
  <2>2. Outcome(p, "unlink")
    BY <1>3, <2>1, AfterGoto, AfterRaise DEF Outcome
  <2>3. ListedUnbound'
    BY <2>2, AloneNotSwitching
  <2> QED
    BY <1>2, <2>1, <2>3, SwitchedOnServes, QuietServes DEF Untouched
<1>13. CASE Unlink(p)
  <2>1. Outcome(p, "resume") /\ UNCHANGED <<scope, server, loaded>>
    BY <1>3, <1>13, AfterAdvance DEF Unlink, Outcome, Advance, container
  <2> QED
    BY <2>1, AloneNotSwitching, QuietServes
<1>14. CASE CheckFresh(p)
  <2>1. Outcome(p, "settings") /\ UNCHANGED <<scope, server, loaded>>
    BY <1>3, <1>14, AfterGoto, AfterRaise DEF CheckFresh, Call, Outcome
  <2> QED
    BY <2>1, AloneNotSwitching, QuietServes
<1>15. CASE Settings(p)
  <2>1. Outcome(p, "set") /\ UNCHANGED <<scope, server, loaded>>
    BY <1>3, <1>15, AfterGoto, AfterRaise, AfterReturn DEF Settings, Call, Outcome
  <2> QED
    BY <2>1, AloneNotSwitching, QuietServes
<1>16. (run[p].at \in Bootstrapping) => server # "production" /\ \A m \in Scopes : ~scope[m].bound
  BY RouterConstants DEF RunsDoTheirOwn, BeforeService, BoundIsLoaded, Bootstrapping, Rebinding, Marked, Runs
<1>17. CASE SetScope(p)
  <2>1. /\ server # "production" /\ \A m \in Scopes : ~scope[m].bound
        /\ scope' \in {scope, Created(n)}
        /\ Goto(p, "off") \/ Raise(p)
        /\ server' = server
    BY <1>16, <1>17 DEF SetScope, Call, Bootstrapping
  <2>2. Outcome(p, "off")
    BY <1>3, <2>1, AfterGoto, AfterRaise DEF Outcome
  <2>3. ListedUnbound'
    BY <2>2, AloneNotSwitching
  <2>4. \A m \in Scopes : ~scope'[m].bound
    BY <1>2, <2>1 DEF Created, Bindable, TypeOK
  <2> QED
    BY <2>1, <2>3, <2>4 DEF BoundIsLoaded, Untouched
<1>18. CASE SwitchOff(p)
  <2>1. /\ scope' \in {scope, Switched(n, FALSE)} /\ ~scope[n].bound
        /\ Advance(p, "set") \/ Raise(p)
        /\ UNCHANGED <<server, loaded>>
    BY <1>2, <1>16, <1>18 DEF SwitchOff, Call, Bootstrapping
  <2>2. Outcome(p, "set")
    BY <1>3, <2>1, AfterAdvance, AfterRaise DEF Outcome, Advance
  <2>3. ListedUnbound'
    BY <2>2, AloneNotSwitching
  <2> QED
    BY <1>2, <2>1, <2>3, SwitchedOffServes DEF Untouched
<1>19. CASE WaitLoaded(p)
  <2>1. Outcome(p, "on") /\ UNCHANGED <<scope, server, loaded>>
    BY <1>3, <1>19, AfterGoto, AfterRaise DEF WaitLoaded, Call, Outcome
  <2> QED
    BY <2>1, AloneNotSwitching, QuietServes
<1>20. CASE SwitchOn(p)
  <2>1. /\ scope' = scope \/ (scope' = Switched(n, TRUE) /\ n \in loaded)
        /\ Advance(p, "on") \/ Raise(p)
        /\ UNCHANGED <<server, loaded>>
    BY <1>20 DEF SwitchOn, Call, Accepts
  <2>2. Outcome(p, "on")
    BY <1>3, <2>1, AfterAdvance, AfterRaise DEF Outcome, Advance
  <2>3. ListedUnbound'
    BY <2>2, AloneNotSwitching
  <2> QED
    BY <1>2, <2>1, <2>3, SwitchedOnServes, QuietServes DEF Untouched
<1> QED
  BY <1>1, <1>4, <1>5, <1>6, <1>7, <1>8, <1>9, <1>10, <1>11, <1>12, <1>13, <1>14, <1>15, <1>17, <1>18,
     <1>19, <1>20 DEF StepOf, Rebind, Played

LEMMA EnvironmentServes ==
    ASSUME ServingInv, Environment
    PROVE  BoundIsLoaded' /\ ListedUnbound' /\ Untouched
<1> USE DEF ServingInv, RunInv, RecoveryInv
<1>1. ASSUME NEW p \in Rebinders, StartRebind(p) PROVE BoundIsLoaded' /\ ListedUnbound' /\ Untouched
  <2>1. \A q \in Runs : run'[q].at \in {"touch", "disable"} => run'[q] = run[q]
    BY <1>1 DEF StartRebind, TypeOK, Runs
  <2> QED
    BY <1>1, <2>1, StillServing, QuietServes DEF StartRebind, container
<1>2. ASSUME NEW p \in Runs, Kill(p) PROVE BoundIsLoaded' /\ ListedUnbound' /\ Untouched
  <2>1. AllIdle /\ UNCHANGED <<scope, server, loaded>>
    BY <1>2, AfterRaise DEF Kill, container
  <2> QED
    BY <2>1, NobodySwitching, QuietServes DEF AllIdle
<1>3. CASE StartPlayed
  <2>1. \A q \in Runs : run'[q].at \in {"touch", "disable"} => run'[q] = run[q]
    BY <1>3 DEF StartPlayed, TypeOK, Runs
  <2> QED
    BY <1>3, <2>1, StillServing, QuietServes DEF StartPlayed, container
<1>4. CASE PlayBootstrap \/ ServerStart
  <2>1. server # "production" /\ UNCHANGED <<scope, loaded, run, touched>>
    BY <1>4 DEF PlayBootstrap, ServerStart, PlayUnchanged
  <2>2. BoundIsLoaded' /\ Untouched
    BY <2>1 DEF BoundIsLoaded, Untouched
  <2>3. \A q \in Runs : Name(q)' = Name(q)
    BY <2>1 DEF Name
  <2> QED
    BY <2>1, <2>2, <2>3 DEF ListedUnbound
<1>5. CASE StopBootstrap
  <2>1. ~service /\ server # "production" /\ UNCHANGED <<scope, run>>
    BY <1>5 DEF StopBootstrap, PlayUnchanged, BeforeService
  <2>2. \A q \in Runs : run[q].at \notin {"touch", "disable"}
    BY <2>1 DEF BeforeService, RunsDoTheirOwn, Runs, Rebinding, Marked
  <2> QED
    BY <2>1, <2>2 DEF BoundIsLoaded, ListedUnbound, Untouched
<1>6. CASE PlayService \/ PlayApply
  BY <1>6, StillServing, QuietServes DEF PlayService, PlayApply, PlayUnchanged, container
<1>7. CASE ServerCrash
  BY <1>7 DEF ServerCrash, Down, BoundIsLoaded, ListedUnbound, Untouched, TypeOK
<1>8. CASE Reboot
  <2>1. AllIdle /\ server' = "down" /\ \A n \in Scopes : ~scope'[n].bound
    BY <1>8 DEF Reboot, Down, AllIdle, Idle, TypeOK
  <2> QED
    BY <2>1, NobodySwitching DEF AllIdle, BoundIsLoaded, Untouched
<1>9. ASSUME NEW n \in Scopes, Load(n) PROVE BoundIsLoaded' /\ ListedUnbound' /\ Untouched
  <2>1. /\ \A m \in Scopes \ {n} : scope'[m] = scope[m]
        /\ ~scope[n].bound /\ n \notin loaded /\ loaded' = loaded \cup {n}
        /\ scope'[n].bound => scope'[n].enabled /\ server = "production"
        /\ UNCHANGED <<server, run, touched>>
    BY <1>9 DEF Load, Bindable, BoundIsLoaded, TypeOK
  <2>2. \A q \in Runs : Name(q)' = Name(q) /\ Name(q) \in Scopes
    BY <2>1, NameType DEF Name
  <2>3. BoundIsLoaded' /\ Untouched
    BY <2>1 DEF BoundIsLoaded, Untouched
  <2>4. ListedUnbound'
    BY <2>1, <2>2 DEF ListedUnbound
  <2> QED
    BY <2>3, <2>4
<1>10. ASSUME NEW n \in Scopes, LinkChange(n) PROVE BoundIsLoaded' /\ ListedUnbound' /\ Untouched
  BY <1>10, StillServing, QuietServes DEF LinkChange, container
<1>11. ASSUME NEW n \in Scopes, NEW on \in BOOLEAN, Console(n, on)
       PROVE  BoundIsLoaded' /\ ListedUnbound' /\ Untouched
  <2>1. /\ \A m \in Scopes \ {n} : scope'[m] = scope[m]
        /\ scope'[n].bound => scope'[n].enabled \/ scope'[n] = scope[n]
        /\ n \in loaded /\ server = "production"
        /\ UNCHANGED <<server, loaded, run>>
    BY <1>11 DEF Console, container, Switched, Bindable, TypeOK
  <2>2. BoundIsLoaded'
    BY <2>1 DEF BoundIsLoaded
  <2>3. \A q \in Runs : Name(q)' = Name(q) /\ Name(q) \in Scopes
    BY <2>1, NameType DEF Name
  <2>4. \A q \in Runs : run[q].at # "idle" => touched' = touched \cup {n}
    BY <1>11, RouterConstants DEF Console, LockHeld, Runs
  <2>5. ListedUnbound'
    BY <2>1, <2>3, <2>4 DEF ListedUnbound
  <2> QED
    BY <2>1, <2>2, <2>5 DEF Untouched
<1> QED
  BY <1>1, <1>2, <1>3, <1>4, <1>5, <1>6, <1>7, <1>8, <1>9, <1>10, <1>11 DEF Environment

\* A scope that serves its interface keeps serving while the server runs: no tick, play, crash
\* or lost answer makes the utility switch it off, unless a person switched it under the run.
THEOREM NeverTakenDown == Spec => BoundScopeUntouched
<1>1. Init => ServingInv
  <2>1. ASSUME Init PROVE BoundIsLoaded /\ ListedUnbound
    BY <2>1 DEF Init, BoundIsLoaded, ListedUnbound, NoScope, Idle
  <2> QED
    BY <2>1, InitType, InitRecovery DEF ServingInv, RunInv
<1>2. ASSUME ServingInv, [Next]_vars PROVE ServingInv' /\ (UNCHANGED vars \/ Untouched)
  <2>1. CASE UNCHANGED vars
    BY <1>2, <2>1, NextRecovery DEF ServingInv, BoundIsLoaded, ListedUnbound, Name, vars, container
  <2>2. CASE Next
    BY <1>2, <2>2, SplitNext, StepServes, EnvironmentServes, NextRecovery DEF ServingInv
  <2> QED
    BY <1>2, <2>1, <2>2
<1>3. ASSUME ServingInv, [Next]_vars
      PROVE  [\A n \in Scopes :
                  scope[n].bound /\ run' # run /\ server' = server /\ server = "production"
                      => scope'[n].bound \/ n \in touched]_vars
  BY <1>2, <1>3 DEF Untouched
<1> QED
  BY <1>1, <1>2, <1>3, PTL DEF Spec, BoundScopeUntouched
================================================================================
