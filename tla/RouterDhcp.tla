------------------------------ MODULE RouterDhcp ------------------------------
(***************************************************************************)
(* DHCP scopes on the router (provisioning/src/router_technitium): a       *)
(* scheduled task rebinds scopes whose interface came up late, Ansible     *)
(* bootstraps, enables and configures through the same utility, a person   *)
(* may switch scopes in the web console, and the server, a run of the      *)
(* utility or the whole router may die between any two calls.              *)
(*                                                                         *)
(* A run of the utility holds a file lock (LOCK_NB: who finds it taken     *)
(* gives up) and talks to the server in one API session, which a server    *)
(* restart ends.  Each API call and each change of a marker file is one    *)
(* action, labelled by the call the run is about to make.                  *)
(***************************************************************************)
EXTENDS Naturals, Sequences

CONSTANTS
    Scopes,         \* names of the declared DHCP scopes
    Declared,       \* config["scopes"]: the same names, in their order
    Rebinders,      \* runs of the scheduled task, which may overlap
    Playbook,       \* the run that Ansible starts
    NoOne,          \* nobody holds the lock
    MaxFaults       \* bound on lost or refused calls, kills, crashes, reboots and a person's switches

ASSUME RouterConstants ==
    /\ Declared \in Seq(Scopes) /\ Declared # <<>>
    /\ Scopes = {Declared[i] : i \in DOMAIN Declared}
    /\ Playbook \notin Rebinders
    /\ NoOne \notin Rebinders \cup {Playbook}
    /\ MaxFaults \in Nat

VARIABLES
    server,     \* the container: "down", "isolated" (bootstrap) or "production"
    service,    \* the production service and the scheduled task are configured
    config,     \* dns.config exists
    scope,      \* the server's scopes; all but `bound` survives a restart
    loaded,     \* saved scopes the server has loaded since it started
    link,       \* scopes whose interface is up with the scope's router address
    pending,    \* scopes with a rebind-<name>.pending file
    lock,       \* who holds /run/lock/technitium.lock
    run,        \* the runs of the utility
    play,       \* what Ansible is doing
    asked,      \* history: what enable-dhcp or a person last asked of each scope
    touched,    \* history: scopes a person switched during the run that holds the lock
    faults

container == <<server, loaded>>
vars == <<container, service, config, scope, link, pending, lock, run, play, asked, touched, faults>>

Runs == Rebinders \cup {Playbook}
Plays == {"none", "bootstrap", "bootstrapped", "aborted", "service", "enable-dhcp", "configure"}
Commands == {"bootstrap", "enable-dhcp", "configure"}

Marked == {"disable", "enable", "unlink"}   \* between touch and unlink
Steps == {"idle", "check", "login", "look", "resume", "clear", "list", "touch", "fresh",
          "settings", "set", "off", "wait", "on"} \cup Marked
Idle == [at |-> "idle", i |-> 1, seen |-> {}, session |-> FALSE]
NoScope == [saved |-> FALSE, enabled |-> FALSE, bound |-> FALSE]

TypeOK ==
    /\ server \in {"down", "isolated", "production"}
    /\ service \in BOOLEAN
    /\ config \in BOOLEAN
    /\ scope \in [Scopes -> [saved : BOOLEAN, enabled : BOOLEAN, bound : BOOLEAN]]
    /\ loaded \in SUBSET Scopes
    /\ link \in SUBSET Scopes
    /\ pending \in SUBSET Scopes
    /\ lock \in Runs \cup {NoOne}
    /\ run \in [Runs -> [at : Steps, i : 1 .. Len(Declared),
                         seen : SUBSET Scopes, session : BOOLEAN]]
    /\ play \in Plays
    /\ asked \in [Scopes -> {"nothing", "on", "off"}]
    /\ touched \subseteq Scopes
    /\ faults \in 0 .. MaxFaults

Init ==
    /\ server = "down"
    /\ service = FALSE
    /\ config = FALSE
    /\ scope = [n \in Scopes |-> NoScope]
    /\ loaded = {}
    /\ link \in SUBSET Scopes
    /\ pending = {}
    /\ lock = NoOne
    /\ run = [p \in Runs |-> Idle]
    /\ play = "none"
    /\ asked = [n \in Scopes |-> "nothing"]
    /\ touched = {}
    /\ faults = 0

(***************************************************************************)
(* The Technitium server, as the utility uses it.  dhcp/scopes/set creates *)
(* a scope switched on; switching on binds the interface if it is up;      *)
(* switching on what is on changes nothing, and a bound scope stays bound  *)
(* while its link flaps.                                                   *)
(***************************************************************************)
\* Interfaces of the isolated bootstrap container do not include the router's.
Bindable(n) == server = "production" /\ n \in link

Switched(n, on) ==
    IF on = scope[n].enabled THEN scope
    ELSE [scope EXCEPT ![n].enabled = on, ![n].bound = on /\ Bindable(n)]

Created(n) ==
    [scope EXCEPT ![n] = [saved |-> TRUE, enabled |-> TRUE, bound |-> Bindable(n)]]

Unbound(n) == n \in loaded /\ scope[n].enabled /\ ~scope[n].bound

(***************************************************************************)
(* A run of the utility.                                                   *)
(***************************************************************************)
Name(p) == Declared[run[p].i]

Fault == faults < MaxFaults /\ faults' = faults + 1

Goto(p, at) == /\ run' = [run EXCEPT ![p].at = at]
               /\ UNCHANGED <<lock, play, touched>>

\* The lock goes with the process; Ansible learns the outcome of its own run.
Leave(p) == /\ run' = [run EXCEPT ![p] = Idle]
            /\ lock' = NoOne
            /\ touched' = {}

Failed == IF play = "bootstrap" THEN "aborted" ELSE "none"

Raise(p) == /\ Leave(p)
            /\ play' = IF p = Playbook THEN Failed ELSE play

Return(p) == /\ Leave(p)
             /\ play' = IF p = Playbook /\ play = "bootstrap" THEN "bootstrapped"
                        ELSE IF p = Playbook THEN "none" ELSE play

\* Mutant: runs one past the last scope.
AdvancePast(p, at) ==
    IF run[p].i <= Len(Declared)
      THEN /\ run' = [run EXCEPT ![p].at = at, ![p].i = @ + 1]
           /\ UNCHANGED <<lock, play, touched>>
      ELSE Return(p)

\* On to `at` for the next declared scope, if there is one.
Advance(p, at) ==
    IF run[p].i < Len(Declared)
      THEN /\ run' = [run EXCEPT ![p].at = at, ![p].i = @ + 1]
           /\ UNCHANGED <<lock, play, touched>>
      ELSE Return(p)

\* An API call of p about the scopes in `about`.  A refused call raises, and so does one
\* that took effect but whose answer was lost.
Accepts(p, about) == run[p].session /\ server # "down" /\ about \subseteq loaded

Call(p, about, effect, next) ==
    \/ /\ Accepts(p, about)
       /\ effect
       /\ \/ next /\ UNCHANGED faults
          \/ Fault /\ Raise(p)
    \/ /\ IF Accepts(p, about) THEN Fault ELSE UNCHANGED faults
       /\ Raise(p)
       /\ UNCHANGED <<scope, loaded, config, asked>>

\* Mutant: rebind does not look at the lock.
StartRebindUnlocked(p) ==
    /\ service
    /\ run[p].at = "idle"
    /\ lock' = p
    /\ run' = [run EXCEPT ![p].at = "check"]
    /\ UNCHANGED <<container, service, config, scope, link, pending, play, asked, touched, faults>>

\* main(): the lock is tried once.  Finding it taken, rebind returns and the others raise.
StartRebind(p) ==
    /\ service
    /\ run[p].at = "idle"
    /\ lock = NoOne
    /\ lock' = p
    /\ run' = [run EXCEPT ![p].at = "check"]
    /\ UNCHANGED <<container, service, config, scope, link, pending, play, asked, touched, faults>>

StartPlayed ==
    /\ play \in Commands
    /\ run[Playbook].at = "idle"
    /\ IF lock = NoOne
         THEN /\ lock' = Playbook
              /\ run' = [run EXCEPT ![Playbook].at = "login"]
              /\ UNCHANGED play
         ELSE /\ play' = Failed
              /\ UNCHANGED <<lock, run>>
    /\ UNCHANGED <<container, service, config, scope, link, pending, asked, touched, faults>>

\* systemctl is-active vyos-container-technitium.service
CheckService(p) ==
    /\ run[p].at = "check"
    /\ IF server = "production" THEN Goto(p, "login") ELSE Return(p)
    /\ UNCHANGED <<container, service, config, scope, link, pending, asked, faults>>

\* The operation a run was called for.
FirstCall(p) ==
    IF p \in Rebinders THEN "look"
    ELSE IF play = "bootstrap" THEN "fresh"
    ELSE IF play = "enable-dhcp" THEN "wait" ELSE "settings"

\* Api.__enter__: wait for the server, at most thirty tries, and log in.
Login(p) ==
    /\ run[p].at = "login"
    /\ \/ /\ server # "down"
          /\ run' = [run EXCEPT ![p].at = FirstCall(p), ![p].session = TRUE]
          /\ UNCHANGED <<lock, play, touched>>
       \/ server = "down" /\ Raise(p)
    /\ UNCHANGED <<container, service, config, scope, link, pending, asked, faults>>

\* Mutant: the links are not looked at again before the loop.
LookAtNoLinks(p) ==
    /\ run[p].at = "look"
    /\ Goto(p, "resume")
    /\ UNCHANGED <<container, service, config, scope, link, pending, asked, faults>>

\* rebind: the addresses are read once, before the loop over the scopes.
LookAtLinks(p) ==
    /\ run[p].at = "look"
    /\ run' = [run EXCEPT ![p].at = "resume", ![p].seen = link]
    /\ UNCHANGED <<container, service, config, scope, link, pending, lock, play, asked, touched, faults>>

\* A marker left by an earlier run: switch the scope on again, then drop the marker.
Resume(p) ==
    /\ run[p].at = "resume"
    /\ IF Name(p) \in pending
         THEN Call(p, {Name(p)}, /\ scope' = Switched(Name(p), TRUE)
                                 /\ UNCHANGED <<loaded, config, asked>>, Goto(p, "clear"))
         ELSE /\ Goto(p, "list")
              /\ UNCHANGED <<scope, loaded, config, asked, faults>>
    /\ UNCHANGED <<server, service, link, pending>>

Clear(p) ==
    /\ run[p].at = "clear"
    /\ pending' = pending \ {Name(p)}
    /\ Goto(p, "list")
    /\ UNCHANGED <<container, service, config, scope, link, asked, faults>>

List(p) ==
    /\ run[p].at = "list"
    /\ Call(p, {}, UNCHANGED <<scope, loaded, config, asked>>,
            IF Unbound(Name(p)) /\ Name(p) \in run[p].seen
              THEN Goto(p, "touch") ELSE Advance(p, "resume"))
    /\ UNCHANGED <<server, service, link, pending>>

\* Mutant: the scope is switched off without a marker.
TouchNothing(p) ==
    /\ run[p].at = "touch"
    /\ Goto(p, "disable")
    /\ UNCHANGED <<container, service, config, scope, link, pending, asked, faults>>

Touch(p) ==
    /\ run[p].at = "touch"
    /\ pending' = pending \cup {Name(p)}
    /\ Goto(p, "disable")
    /\ UNCHANGED <<container, service, config, scope, link, asked, faults>>

Disable(p) ==
    /\ run[p].at = "disable"
    /\ Call(p, {Name(p)}, /\ scope' = Switched(Name(p), FALSE)
                          /\ UNCHANGED <<loaded, config, asked>>, Goto(p, "enable"))
    /\ UNCHANGED <<server, service, link, pending>>

Enable(p) ==
    /\ run[p].at = "enable"
    /\ Call(p, {Name(p)}, /\ scope' = Switched(Name(p), TRUE)
                          /\ UNCHANGED <<loaded, config, asked>>, Goto(p, "unlink"))
    /\ UNCHANGED <<server, service, link, pending>>

Unlink(p) ==
    /\ run[p].at = "unlink"
    /\ pending' = pending \ {Name(p)}
    /\ Advance(p, "resume")
    /\ UNCHANGED <<container, service, config, scope, link, asked, faults>>

Rebind(p) == \/ LookAtLinks(p) \/ Resume(p) \/ Clear(p) \/ List(p)
             \/ Touch(p) \/ Disable(p) \/ Enable(p) \/ Unlink(p)

\* bootstrap: no declared scope may exist; then configure; then each scope is set, which
\* switches it on, and switched off.
CheckFresh(p) ==
    /\ run[p].at = "fresh"
    /\ Call(p, {}, UNCHANGED <<scope, loaded, config, asked>>,
            IF loaded = {} THEN Goto(p, "settings") ELSE Raise(p))
    /\ UNCHANGED <<server, service, link, pending>>

\* configure: the DNS calls, which save dns.config and leave DHCP alone.
Settings(p) ==
    /\ run[p].at = "settings"
    /\ Call(p, {}, config' = TRUE /\ UNCHANGED <<scope, loaded, asked>>,
            IF play = "bootstrap" THEN Goto(p, "set") ELSE Return(p))
    /\ UNCHANGED <<server, service, link, pending>>

SetScope(p) ==
    /\ run[p].at = "set"
    /\ Call(p, {}, /\ scope' = Created(Name(p))
                   /\ loaded' = loaded \cup {Name(p)}
                   /\ UNCHANGED <<config, asked>>, Goto(p, "off"))
    /\ UNCHANGED <<server, service, link, pending>>

SwitchOff(p) ==
    /\ run[p].at = "off"
    /\ Call(p, {Name(p)}, /\ scope' = Switched(Name(p), FALSE)
                          /\ UNCHANGED <<loaded, config, asked>>, Advance(p, "set"))
    /\ UNCHANGED <<server, service, link, pending>>

\* enable-dhcp: wait for the saved scopes, at most thirty tries; then switch each one on.
WaitLoaded(p) ==
    /\ run[p].at = "wait"
    /\ Call(p, {}, UNCHANGED <<scope, loaded, config, asked>>,
            \/ Scopes \subseteq loaded /\ Goto(p, "on")
            \/ ~(Scopes \subseteq loaded) /\ Raise(p))
    /\ UNCHANGED <<server, service, link, pending>>

SwitchOn(p) ==
    /\ run[p].at = "on"
    /\ Call(p, {Name(p)}, /\ scope' = Switched(Name(p), TRUE)
                          /\ asked' = [asked EXCEPT ![Name(p)] = "on"]
                          /\ UNCHANGED <<loaded, config>>, Advance(p, "on"))
    /\ UNCHANGED <<server, service, link, pending>>

Played(p) == \/ CheckFresh(p) \/ Settings(p) \/ SetScope(p) \/ SwitchOff(p)
             \/ WaitLoaded(p) \/ SwitchOn(p)

StepOf(p) == CheckService(p) \/ Login(p) \/ Rebind(p) \/ Played(p)

(***************************************************************************)
(* The playbooks around the utility (provisioning/tasks).                  *)
(***************************************************************************)
PlayUnchanged == UNCHANGED <<scope, link, pending, lock, run, asked, touched, faults>>

\* technitium_bootstrap: only without dns.config and without the production container.
PlayBootstrap ==
    /\ play = "none" /\ ~config /\ ~service
    /\ server = "down"
    /\ server' = "isolated"
    /\ play' = "bootstrap"
    /\ UNCHANGED <<loaded, service, config>> /\ PlayUnchanged

\* always: stop and remove the bootstrap container; after a success start the service.
StopBootstrap ==
    /\ play \in {"bootstrapped", "aborted"}
    /\ server' = "down"
    /\ loaded' = {}
    /\ play' = IF play = "bootstrapped" THEN "service" ELSE "none"
    /\ UNCHANGED <<service, config>> /\ PlayUnchanged

PlayService ==
    /\ play = "service"
    /\ service' = TRUE
    /\ play' = "enable-dhcp"
    /\ UNCHANGED <<container, config>> /\ PlayUnchanged

\* 12_technitium: requires dns.config and the administrator's password.
PlayApply ==
    /\ play = "none" /\ config
    /\ service' = TRUE
    /\ play' = "configure"
    /\ UNCHANGED <<container, config>> /\ PlayUnchanged

(***************************************************************************)
(* The rest of the world.                                                  *)
(***************************************************************************)
ServerStart ==
    /\ service /\ server = "down"
    /\ server' = "production"
    /\ UNCHANGED <<service, config, scope, loaded, link, pending, lock, run, play, asked, touched, faults>>

\* The HTTP service answers before the saved scopes are loaded, one by one.
Load(n) ==
    /\ server # "down" /\ scope[n].saved /\ n \notin loaded
    /\ loaded' = loaded \cup {n}
    /\ scope' = [scope EXCEPT ![n].bound = scope[n].enabled /\ Bindable(n)]
    /\ UNCHANGED <<server, service, config, link, pending, lock, run, play, asked, touched, faults>>

\* Nothing is bound and no API session lives on when the server is down.
Down == /\ server' = "down"
        /\ loaded' = {}
        /\ scope' = [n \in Scopes |-> [scope[n] EXCEPT !.bound = FALSE]]

ServerCrash ==
    /\ server = "production"
    /\ Fault
    /\ Down
    /\ run' = [p \in Runs |-> [run[p] EXCEPT !.session = FALSE]]
    /\ UNCHANGED <<service, config, link, pending, lock, play, asked, touched>>

Kill(p) ==
    /\ run[p].at # "idle"
    /\ Fault
    /\ Raise(p)
    /\ UNCHANGED <<container, service, config, scope, link, pending, asked>>

Reboot ==
    /\ Fault
    /\ Down
    /\ run' = [p \in Runs |-> Idle]
    /\ lock' = NoOne
    /\ play' = "none"
    /\ link' \in SUBSET link
    /\ touched' = {}
    /\ UNCHANGED <<service, config, pending, asked>>

LinkChange(n) ==
    /\ link' = IF n \in link THEN link \ {n} ELSE link \cup {n}
    /\ UNCHANGED <<container, service, config, scope, pending, lock, run, play, asked, touched, faults>>

\* A person in the web console of the production server, as often as the bound allows.
Console(n, on) ==
    /\ server = "production" /\ n \in loaded
    /\ scope' = Switched(n, on)
    /\ asked' = [asked EXCEPT ![n] = IF on THEN "on" ELSE "off"]
    /\ touched' = IF lock = NoOne THEN {} ELSE touched \cup {n}
    /\ Fault
    /\ UNCHANGED <<container, service, config, link, pending, lock, run, play>>

Next ==
    \/ \E p \in Rebinders : StartRebind(p)
    \/ \E p \in Runs : StepOf(p) \/ Kill(p)
    \/ StartPlayed \/ PlayBootstrap \/ StopBootstrap \/ PlayService \/ PlayApply
    \/ ServerStart \/ ServerCrash \/ Reboot
    \/ \E n \in Scopes : Load(n) \/ LinkChange(n) \/ \E on \in BOOLEAN : Console(n, on)

Spec == Init /\ [][Next]_vars

(***************************************************************************)
(* The server and the runs keep going and the scheduler ticks every        *)
(* minute; a tick may find the lock taken, but not for ever.  Nobody has   *)
(* to start a play or to touch the console.                                *)
(***************************************************************************)
Fairness ==
    /\ \A p \in Runs : WF_vars(StepOf(p))
    /\ SF_vars(\E p \in Rebinders : StartRebind(p))
    /\ WF_vars(ServerStart)
    /\ \A n \in Scopes : WF_vars(Load(n))

FairSpec == Spec /\ Fairness

(***************************************************************************)
(* Properties                                                              *)
(***************************************************************************)
\* A scope that should be on is on, or its marker says that a rebind owes it: rebind
\* touches the marker before the disable call and drops it after the enable call, across
\* every crash, reboot, lost answer and overlapping tick.
ScopeNeverForgotten == \A n \in Scopes : asked[n] = "on" => scope[n].enabled \/ n \in pending

\* While the server keeps running, no step of a run takes down a scope that serves its
\* interface: what rebind listed as unbound is still unbound when it switches it off, several
\* calls later, unless a person switched it in between.
BoundScopeUntouched ==
    [][\A n \in Scopes :
        scope[n].bound /\ run' # run /\ server' = server /\ server = "production"
            => scope'[n].bound \/ n \in touched]_vars

\* Markers and late links are dealt with: a wanted scope whose interface stays up ends up on
\* and bound, once faults cease.
ScopesRecover ==
    \A n \in Scopes : <>[](asked[n] = "on" /\ n \in link)
                         => <>[](scope[n].enabled /\ scope[n].bound)
===============================================================================
