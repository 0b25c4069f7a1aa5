# Formal models of the home-lab control repository

This directory holds TLA+ models of the stateful programs of this repository, the
TLC runs that check them on small instances, and proofs that TLAPS checks for every
instance. Paths below are relative to the repository root.

1. The system
2. Order and composition
3. The models
4. The runs
5. The proofs
6. What is not modelled
7. Reading and running

## 1. The system

The repository configures and operates a home lab: an OpenVox (Puppet) server and a
Vault on the VM *atlas*, a Proxmox host *proxmox-cortex* that sleeps unless somebody
needs it, a VyOS router with Technitium DNS/DHCP, FreeIPA, and the machines enrolled in
it. Most files are declarative (manifests, Hiera, templates, compose files). The
programs below keep state across steps, and several of them act on the same machine or
the same authority at the same time.

| Component | Source | State | Operations | Talks to | Module |
|---|---|---|---|---|---|
| Wolf power controller | `docker/wolf/app/wolf.py` | `SessionState` in memory and in `session.json`; timer; cached API token; flock; state_lock | start, stop, status, timeout, restart | proxmox-cortex over Wake-on-LAN, Dropbear, Proxmox API, guest agent; Vault | `WolfSession`, `SessionLifecycle` |
| vLLM weekly window | `modules/proxmox_workflows/files/vllm_weekly_window.py` | flags of one run, lock file | run, clean up | VM 230 on proxmox-cortex | `CortexWorkflows` |
| Chronicle backup | `modules/proxmox_workflows/files/chronicle_backup_orchestrator.py` | flags of one run, lock file | run, clean up | PBS container on proxmox-cortex, chronicle's storage and jobs | `CortexWorkflows` |
| Workflow library | `modules/proxmox_workflows/files/proxmox_orchestration.py` | none of its own | wake and unlock, ssh, waits, lock file | proxmox-cortex, Vault | `CortexWorkflows` |
| Router DHCP | `provisioning/src/router_technitium/__init__.py`, `api.py`, `provisioning/tasks/*technitium*.yml` | scopes, pending markers, lock file | configure, bootstrap, enable, rebind | Technitium API | `RouterDhcp` |
| Publication | `docker/openvox/infra-post-receive`, `infra-host-post-receive`, `infra-flush.rb` | bare repository, environments, `deploy.status`, `deploy.commit`, compiler cache | push, deploy, flush | r10k, OpenVox | `Publication` |
| Atlas authorities | `proxmox/atlas-infra.py`, `docker/openvox/infra-pki.rb` | checkpoint and secret files, Vault, Puppet CA | resumable initialization, import | Vault, OpenVox | `AtlasAuthorities` |
| Atlas FreeIPA authority | `proxmox/atlas-freeipa.py` | checkpoint files, Vault, the FreeIPA volume | resumable preparation, installation from it | Vault, FreeIPA | `AtlasFreeipa` over `AtlasAuthorities` |
| Atlas maintenance | `proxmox/atlas-apply-certificates.py`, `docker/vault/scripts/backup.sh`, `unseal.sh`, `proxmox/atlas-enroll.py`, `scripts/autosign.py` | installed certificates, pinned key, maintenance lock, seal state, archive, token, the CA's requests | check, apply, archive, unseal, deploy, enroll | Docker, Vault, FreeIPA, Puppet CA | `AtlasMaintenance` |
| Desktop provisioning | `proxmox/desktop.py` | VM descriptions, one snippet per number | clone, configure, boot, verify, clean up, rebuild | Proxmox `qm`, Vault | `DesktopVms` |
| Enrollment of other machines | `proxmox/enroll-proxmox.sh`, `scripts/external_node_classifier.py` | certificates | redeem, classify | Vault, Puppet CA | no |
| Other VM provisioning | `proxmox/docker-server.sh`, `lib.sh`, `atlas-promote.sh`, `atlas-bootstrap.sh` | VM descriptions, markers | create, promote | Proxmox `qm` | no |
| Keytabs | `modules/freeipa_users/files/provision-user.sh` | keytab file, key version in the KDC | create, fetch, repair | FreeIPA | no |
| Rehearsal | `scripts/openvox-rehearsal.py`, `openvox_rehearsal_recovery.py` | two disposable compose projects: staged tree, volumes, containers | run, up, stop, destroy, archive, restore | Docker | `Rehearsal` |
| Checks and helpers | `docker/openvox/*.rb`, `modules/profile/files/*`, `modules/freeipa_firefox/files/*`, `docker/freeipa/*.sh`, `docker/vault/scripts/wake_on_lan.py`, `proxmox/configure-*.sh`, `create-pbs-lxc.sh` | files, accounts | idempotent set-up, comparisons | the local machine | no |
| Declarative configuration | `manifests/`, `modules/*/manifests`, `data/`, `provisioning/templates`, `terraform/` | none | applied by Puppet, Ansible, Terraform | | no |

Interactions that matter: the Wolf controller, the vLLM window and the Chronicle backup
power the same host up and down, each behind a lock of its own; the vLLM window and
Wolf share VM 230; initialization, enrollment, certificate renewal and the Vault backup
share one maintenance lock; publication feeds the compiler that enrollment serves.

What is hard about it: threads and timers of the Wolf controller interleave on one
session while the machine is changed by others; every program may die between two
remote calls, and its successor sees only files and the remote side; answers are lost
after they took effect; probes err towards "not running"; a clean-up undoes a layer
somebody else has come to need. `PROJECT.json` lists each such hazard at its line, with
the properties that cover it or the reason why none does.

What makes each component correct:

- **Wolf**: starts and stops are serialised and never leave a transient phase behind; a
  running session has a deadline that something will enforce, also across a container
  restart; a stop that reports success has powered the machine off; a failed start takes
  down what it brought up; every session ends and every request returns.
- **Workflows on proxmox-cortex**: a run stops only what it started, the host ends as
  it was found, a running backup task keeps its storage, and the storage does not stay
  enabled.
- **Router DHCP**: a scope that should be on is on or is remembered as owed; rebinding
  never takes down a scope that serves; scopes recover; production starts only from
  initialized data.
- **Publication**: a receipt is never written over stale code, it means what the
  operator's check takes it to mean as far as the code has that, and the newest commit is
  the one deployed.
- **Atlas authorities**: one root, one services issuer, an initialization that ends
  complete, and that can be resumed wherever it stopped.
- **FreeIPA authority**: one intermediate under the one root, a server that is installed
  from the passwords and the pair that stay on disk, a preparation that can be resumed.
- **Maintenance**: only the holder of the maintenance lock is at work; an archive shows a
  stopped Vault; a backup that failed leaves everything running; Vault is unsealed again,
  a renewed pair ends up on every listener, and the enrollment of Atlas ends.
- **Rehearsal**: an authority in a volume is never replaced, whatever is cut short and
  repeated; an operator who removes what no run gets past arrives at a run that passes.
- **Desktop provisioning**: a run that had its number for itself reports a desktop that it
  cloned and that enrolled as itself; a failed one leaves neither its clone nor its token
  behind.
- **Keytabs** (not modelled): keys are created once; every machine ends with a keytab that
  authenticates.

## 2. Order and composition

The order follows how much can go wrong and how little a test reaches it: `WolfSession`
over the abstract `SessionLifecycle`, `RouterDhcp`, `CortexWorkflows`, `Publication`,
`AtlasAuthorities`, `AtlasFreeipa`, `AtlasMaintenance`, `Rehearsal`, `DesktopVms`. All nine
are there.

`WolfSession` implements `SessionLifecycle` (INSTANCE, run and theorem). `AtlasFreeipa`
EXTENDS `AtlasAuthorities` and composes both programs under their lock; that its behaviours
are behaviours of `AtlasAuthorities` is a theorem (`ImplementsAuthorities`), so what is
proved of the authorities holds beside FreeIPA. `AtlasMaintenance` composes the five
programs that meet under or beside the maintenance lock of a running Atlas. `CortexWorkflows`
composes both workflows with the host they share.

Two compositions would still be worth having: a whole Wolf session that meets a window on
VM 230 (each of the two modules has the other one as an anonymous person at the machine),
and the first initialization beside the maintenance (the lock keeps them apart, and the
first ends before the second begins). Every invariant and every action property that a
passing run checks is a theorem as well; the liveness properties stay with TLC. Worth having
beyond that: safety lemmas that the liveness arguments rest on, such as that outside `Wedged`
and `Stuck` some run always has a step to take that changes something.

## 3. The models

Every module describes one component; its `MC` module gives the constants values for
TLC. A definition whose comment begins with "Mutant" is a plausible bug in the
definition below it; no specification uses it, it is only there to show that the
property it breaks depends on that definition. `PROJECT.json` maps every definition to
its lines.

### WolfSession and SessionLifecycle

`wolf.py` is one process. A start, a stop, a status request and a fired timer are
threads; start and stop hold a file lock from their first statement to their last, and
`state_lock` protects short sections that touch memory and save the file. One action is
one such section, one probe, or one call to Proxmox, the guest or Dropbear; everything
else may run in between.

- `phase`, `started`, `deadline` are the fields of `SessionState`; `disk` is the session
  file, `armed` is `timeout_timer`, `token` the cached API token, `lock` the flock.
  A deadline carries the name of the start that set it.
- `level` is the machine, a tower of host, VM and compose stack; `Views` is what
  `observe()` may report of it, including the mixed results of a probe that failed
  halfway. Probes err only downwards, since every probe in the code maps an error to
  "not running".
- A call (`Calls`) succeeds, fails, or fails after it took effect.
- `op` holds the locals `started_host`, `started_vm`, `started_compose` and the errors of a
  stop. Two of its fields are history: `base`, how far up the machine was when the
  operation took the lock, and `quiet`, whether nobody else's power change and no failed
  clean-up call spoiled its outcome.
- `due` are the sessions whose time is up; `faults` remembers which kinds of fault have
  hit the process since it started, so that a property can say on what it depends.
- `Restart` kills every thread and loads the file (`load_state`); `Meddle` is anybody
  else at the power switch.

`SessionLifecycle` is the abstract specification: the table `TRANSITIONS` of the code
with its deadline, and nothing about threads. `ImplementsLifecycle` says the controller
implements it: `Lifecycle == INSTANCE SessionLifecycle WITH ...` maps the fields of the same
names, and every other variable is hidden.

### RouterDhcp

A run of `router_technitium` takes a lock without waiting, logs in, and makes API calls
and marker changes, each of them one action. A run that finds the lock taken leaves no
trace: rebind then has nothing to do and a play fails. `Call` has the outcomes of a
call: refused, done, or done with the answer lost; the run raises in the last case, and
in the first. A server that restarts has forgotten every API session.

- `scope` is what the server stores of each scope; `bound` is whether it serves its
  interface. `loaded` are the scopes the server has read since it started, so `Load`
  tries to bind them one by one and a late interface is missed. `pending` are the marker
  files.
- Ansible (`play`) is the sequence of `12_technitium.yml` and `technitium_bootstrap.yml`.
- `asked` is history: what `enable-dhcp` or a person last asked of a scope. So is `touched`:
  which scopes a person at the web console switched while the run that holds the lock was
  at work, so that a property can say what a run does to a scope nobody else touched.
- Technitium is external: `Load`, `Unbound`, `Switched` say of it what the code relies
  on, that a saved scope is enabled or not, that enabling binds it when its interface is
  there, and that it lists what it failed to bind.

### CortexWorkflows

One action per command that a window or a backup sends to proxmox-cortex, in the order
of `main()`, with its `finally` block (`clean` and what follows it). The workflows have
different lock files, so their commands interleave freely; two runs of the same workflow
do not (`LockFree`).

- `host` and `guests` are the machine. A host that boots or a VM that starts brings up
  whatever guests its configuration says, which the repository does not fix: the model
  takes any (`Autostarts`). A host that halts may still answer on its SSH port.
- `woke`, `started`, `tried` are the flags that decide what clean-up does.
- `Checked` is a command whose failure raises, `Unchecked` one with `check=False`,
  `WaitFor` a wait that can time out early, `Refused` what fails because of the machine.
- `faults` counts everything unplanned: lost commands, answers lost after the effect,
  missed probes, early time-outs, kills, and `Person`, anybody else at the machine, Wolf
  included. `MaxFaults` bounds it, and properties about a quiet week say `faults = 0`.
- `ran` is history: what has run without a break since a run began. `home` is what ran
  at first.

### Publication

Git moves the refs, then runs the hook with the lines of that push; `Push` therefore
changes `ref` and starts a hook that may wait long for the lock. A hook reads a line,
refuses it and ends when the branch has moved on, else lets r10k rewrite the directory in place (`Mixed`
while it does), generates types, and after the last line flushes the two environments
and writes the receipt. `Load` is a compilation, which may come at any moment and keeps
what it loaded until it is flushed.

- A push may give a branch any commit: a new one, an older one, the one the other branch
  has. `seen` and `again` are history: the commits a branch has had, and those of them that a
  push named after that.
- `Fails` is any command that returns nonzero under `set -e`; the EXIT trap then writes
  the status (`Leave`). `Kill` runs no trap.

### AtlasAuthorities

`initialize` of `atlas-infra.py` in its own order, one action per save and per request
that makes or reads something. The maintenance lock keeps runs apart, so there is one
`pc`. Every secret or certificate is a number, given in the order they are made: only
which is which matters, and the chain it goes back to.

- `file` are the files under `docker/vault/secrets` and the system's trust file; each is
  atomic and on disk once `save` returned. `owned` are those of Vault's three files that
  were given to Vault's user: `save` leaves root's, `Chown` is a step of its own after it,
  and a run takes it only for a file it has just written. `held` is an answer of Vault that
  is not saved yet.
- `vault` and `puppet` are the contents of the two volumes in `vols`; `listener` is the
  TLS identity Vault serves with, read once when it starts (`Pair` is what it finds).
- `Stop` ends a run after any step and may take the listener with it, as a reboot does.
  `Lose` takes one file, one volume or one part of Vault's storage, between two runs.
- `ImportPuppet` writes `ca_crt.pem` first and may stop there: a later run takes a
  non-empty file for an imported CA. Which file puppetserver writes first is external.
- Left out: sealing and unsealing, the text of policies, and the checks of `infra-pki.rb`
  on key material.

### AtlasFreeipa

`initialize` of `atlas-freeipa.py`, after a finished `atlas-infra.py` and under the same
lock. `inputs` are the files under `docker/freeipa/secrets`, `engine` Vault's `pki_freeipa`
mount, `data` the volume the server installs itself into. `StartServer` is anybody who
starts the container: it installs itself once, from the password, the options and the pair
that are on disk then, whether or not a run is at work. `LoseBelow` composes a loss of the
authorities with this module's state; `Lost` counts both kinds.

### AtlasMaintenance

`lock` is the maintenance lock, and each program has its own program counter: `bpc` the
backup with its EXIT trap, `apc` Puppet's catalog and the apply of each service's pair,
`epc` the enrollment. Pairs are numbered by renewal; `pem` has chain and key apart, for the
provider writes two files. `served` is what each listener shows, `store` FreeIPA's two
stores, `pin` the pair the unsealer trusts, `sealed` Vault.

- Enrollment holds the lock while its child Puppet may wait for that lock. Nothing but the
  1800 s timeout of `run()` breaks this circle (`EnrollTimeout`); it kills the shell only,
  and Puppet goes on as an `orphan`. `EnrollConverges` shows that a repeated enrollment ends
  nevertheless.
- `StalePin` is the window behind `atlas_pin`: Vault is restarted between the provider's
  write and the apply, `--check` then compares the listener with the file, finds them equal,
  and nobody publishes the pin any more. Vault stays sealed until somebody does it by hand.
- `pending` is a request the CA keeps after autosign denied it with the token spent; no
  later enrollment gets past it until somebody cleans it (`CleanRequest`, owed by nobody).
- External: Puppet's provider of the pairs, the CA, Docker's restart of what ran (the
  policy is in a submodule).

### Rehearsal

One operator gives one command at a time; a command is a program counter over the two
projects, `source` and `restore`, and each step that changes something is one action. Four
of the eleven volumes stand for the state: the two Vaults', OpenVox's and the agent's, each
a record of what the programs can tell about its contents. An authority is the number of
its making, so that a replacement shows.

- What is written as several files is several steps: a Vault's transport identity, the
  intermediate's key and its request, the listener's pair, and the import into the CA. A later
  run looks for the first file only, as the code does.
- `Tagged` says whether the tools' image has the tag the programs use beside the one the
  documentation builds; without it every run ends at its first check (`StartupCheck`).
- `Fails`, `Killed` and `Reboot` cut a command short anywhere; `LeavesHalf` are the two
  steps (staging a tree, removing one) that can stop in the middle. A reboot may clear
  `/tmp`, where the trees are.
- `Retry` is the operator's policy: away with a restore project that makes recovery refuse,
  away with source volumes no run gets past (`Wedged`), and run again. `Command` is any
  other command at any time.
- `Wedged` is a catalogue of the half-made states of `initialize` and of enrollment that no
  later run repairs: part of a transport identity, an initialized Vault with no saved key, a
  key without its request, half an import, a mount with no authority, a revoked or unanswered
  agent certificate, and the others its comment names.
- `Stuck` is the one end that needs hands: the restored tree is half there, or gone with
  `/tmp` beside restored volumes, so `destroy` cannot address the project and `recover`
  refuses it.

### DesktopVms

Several runs of `desktop.py` on one host, without any lock between them; one action per
command of `provision` and its clean-up. A VM behind a number carries its name, whether its
description is the marker of that name, which run cloned it, what came of its first boot
(`boot`) and whose token it enrolled with (`token`). `Inventory` is one look at the cluster at
the start; everything after it acts on a number that others may have changed meanwhile, and
`Refused` is what a command then does. An interrupted `qm clone` may have made its VM before
the flag is set (`cut`), and so may a killed run's.

- A snippet file is the run that wrote it last, and so the certname and the token in it. It is
  vendor data (`desktop.py:362-367`): a guest takes its hostname from its VM's own name, which
  is what `verify_guest_hostname` compares, and its certname from whatever snippet is in the
  file when it boots for the first time (`FirstBoot`). `spent` are the runs whose token was used.
- `met` is history: another run was at work on the same number at the same time. The
  properties about one run's clone say `~met`; what a run meets that killed and failed runs
  left under its number (a snippet, a clone, a VM that names the snippet) they include.
- The guest enrolls in one step of its first boot. That the CA refuses a second certificate for
  a certname it knows, and the operator's `puppetserver ca clean` before a rebuild, are left out.

## 4. The runs

| Run | Instance | Shows |
|---|---|---|
| `wolf_machine` | 2 sessions, 1 client, 1 restart, 1 meddle, lying probes | `RecordedLayersAreCleaned`, `StopPowersOff`, `ImplementsLifecycle` |
| `wolf_faults` | 2 sessions, 1 client, 1 restart, Vault and file I/O fail | `TransientPhaseIsOwned`, `RunningSessionIsTimed`, `RestartKeepsSession` |
| `wolf_liveness` | 1 session, 1 client, 1 restart, lying probes, fair | `SessionEnds`, `RequestsReturn` |
| `router_recovers` | 2 scopes, a tick beside the plays, 3 faults or switches in the web console, fair | `TypeOK`, `ScopeNeverForgotten`, `BoundScopeUntouched`, `ScopesRecover` |
| `cortex_together` | 1 window process that runs twice, 2 backup processes, 1 fault, fair | `FoundIsLeft`, `LeftAsFound`, `TaskKeepsStorage`, `StorageSettles` |
| `publication_hooks` | 2 commits, 3 pushes of any kind, 1 fault | `NewestIsDeployed`, `ReceiptIsCurrent`, `FreshReceiptMeansServed` |
| `atlas_initialize` | both initializations, 4 stops, 1 loss each, fair | `TypeOK`, `OneRoot`, `EstablishedIsServed`, `FinishedIsComplete`, `Resumes`; `IpaTrust`, `InstalledFromInputs`, `PreparedIsComplete`, `IpaResumes` |
| `atlas_maintenance` | 2 renewals, 1 fault, 1 deployment, fair | `TypeOK`, `ArchiveOfStoppedVault`, `BackupEndsClean`, `UnsealedAgain`, `RenewedIsServed`, `EnrollConverges` |
| `rehearsal` | both tags, 2 faults, 2 commands of any kind beside retrying, fair | `AuthorityStays`, `RehearsalEnds` |
| `desktop_vms` | 2 runs, 2 numbers, 2 names, any inventory and options, 2 faults | `TypeOK`, `DesktopIsItsOwn`, `CloneIsCleanedUp`, `SnippetsGo` |
| `wolf_start_cleanup` | 1 session, no faults of the controller | a disagreement, below |
| `atlas_pin` | 1 renewal, nothing fails | a disagreement, below |

The type invariants of the Wolf controller, the workflows, publication, the rehearsal and
FreeIPA are theorems (section 5), and no run repeats them.

**Bounds, and why they are enough.**
Wolf: two sessions are the least that let a late timer, a late status request or a
second start meet another session; one client sends any number of stop and status
requests; one restart reaches every step; the third party need act only once to be in
the way of any operation.
Router: two scopes are the least for which a raise at the first keeps the second
waiting. One tick at a time beside a play is enough: a run without the lock leaves no
trace, so further ticks only repeat what one does, and the theorems hold for any number
of them. A lost answer followed by a crash and a
reboot, or by a switch of a person and a kill, are three.
Cortex: a window and two backups have every pair that can meet, and the window that runs
twice finds what an earlier one left; one fault anywhere, since for more than one
`FoundIsLeft` is proved.
Publication: three pushes let a hook overtake a waiting one whose input is overtaken again,
also by a return to the commit it was for, or let one fail between two that succeed; one
fault is enough for that. The commits are the first one, which a branch can be reset to, and
one that is new to either branch or to both, in one push or in two. The theorems hold for any
number of pushes, faults and commits.
Atlas: four stops make five runs, enough for a run that stops in each of three phases
and for the reboot in between. One loss is a bound that matters: with two, a root can
vanish both from Vault and from `ca.pem` while others still rely on it, and a second
root comes to be. The properties say so (`losses <= 1`), and the code can do no better,
since nothing else records that a root existed.

FreeIPA's own loss is bounded in the same way, and its properties count both (`Lost`).
Maintenance: a second renewal meets what the first one left unfinished; one fault at any
step is what one night can bring, since `BackupEndsClean` and `UnsealedAgain` name what two
leave behind (`LeftStopped`).
Rehearsal: two faults are the least that wedge the volumes and then spoil the destroy that
would remove them; two free commands interfere between any two retries.
Desktop: two runs meet at one number, at one name, or at neither; two failures let one run
fail in its clean-up as well, or be killed and leave what the other one then meets.

`CHECK_DEADLOCK FALSE` stands where the system does stop: after the last push, when
initialization is done, when the rehearsal passed and no command is left, and when every
run of `desktop.py` has ended.

**Fairness.**
Wolf: threads keep running (WF of `Step`), a timer fires and time passes (WF of `Fire`,
`DeadlinePasses`), and a thread waiting for the flock gets it although others keep
taking it (SF of `Acquire`; the kernel wakes waiters in turn). Users, restarts and other
people owe nothing.
Router: runs keep going, the container is started again by systemd and loads its scopes
(WF), and the scheduler's tick, which comes every minute, is not shut out by the lock
for ever (SF). Nobody has to run a play.
Cortex: each run and the host go on, a vzdump task ends, and the backup's weekly timer
fires (WF of `Tick`: some backup process begins). Windows, kills and people owe nothing.
Atlas: a run that is not stopped goes on, and the operator runs the program again (WF of
`Step` and `Begin`), as the program's own message asks; likewise for FreeIPA's preparation,
while nobody has to start the server.
Maintenance: programs, containers and the unsealer go on (WF), Puppet's timer fires (WF of
`PuppetBegin`), a process waiting in `flock` gets the lock although others keep taking it
(SF of `ApplyLock`; the kernel wakes waiters in turn), and an enrollment that failed is run
again and is not shut out for ever (SF of `EnrollBegin`). Nobody has to clean the CA's
requests, deploy, renew or reboot.
Rehearsal: a command goes on until it ends or is cut short, and the operator retries (WF of
`Step` and `Retry`), as `docs/openvox-rehearsal.md` tells them to.
Desktop: safety properties only.
Publication has safety properties only.

**What two of the properties carefully do not say.** `NewestIsDeployed` excepts a line
that stands behind an overtaken one in the same push: the hook ends there
(`infra-post-receive:15-18`), so that line is deployed by a later push or not at all.
`Resumes` excepts four windows (`Wedged`): Vault was initialized and its keys not saved;
the services key was made and its request not saved; Vault stopped while one of its two
TLS files was new and the other old, or while a file of its own was saved and not yet given to
its user (`atlas-infra.py:186-193`, `456-457`), which a later run no longer makes up for. From these no later run can go on; the
program stops there rather than replace what it cannot account for.

**What three more leave out by name.** `IpaResumes` excepts two such windows of FreeIPA's
preparation (`IpaWedged`). `UnsealedAgain` and `EnrollConverges` except a stale pin, and
containers a killed backup left stopped; `EnrollConverges` also a request the CA keeps.
`RehearsalEnds` excepts `Stuck`, and its run has the image under both tags. Each exception is a state the code does not leave by
itself; each is a named definition, and no run relies on more than these.

**Disagreements between code and documents** (runs that end in a violation):

- `wolf_start_cleanup`: a start that fails between the magic packet and the end of
  `wake_and_unlock` leaves the host on, waiting for its key, although
  `docs/07-vm-power-control-service.md:263` says clean-up takes down any layer the start
  started.
- `atlas_pin`: Puppet's provider writes the renewed pair without the lock, so a restart of
  Vault before the apply switches the listener before the pin is published, against
  `docs/openvox-infra.md:232`.

**Others met while modelling**, which the models contain and no run singles out:

- Wolf: a stop cancels the timer, then observes; when the token cannot be read (a restart
  forgot it, Vault is away) that raises, and the session runs on without a timer, against
  `docs/07-vm-power-control-service.md:115-117`. `RunningSessionIsTimed` therefore says
  `faults = {}`.
- Wolf: a save that fails after `begin_start` or `begin_stop` leaves the phase transient in
  memory until the container restarts; hence `"save" \notin faults` in the properties. A timer
  that has fired and waits for the lock outlives its session and stops the next one.
- Router: bootstrap saves `dns.config` before it creates a scope, and the ordinary play takes
  that file for initialized data (`provisioning/tasks/12_technitium.yml:2,6-7`), so after a
  failed bootstrap production runs without its scopes. A scope somebody switches off between
  rebind's list and enable calls comes back on.
- Workflows: a layer that came up although its call failed is left running
  (`LeftAsFound` says `faults = 0`); a status call that fails while a task runs lets the
  clean-up disable its storage (`TaskKeepsStorage`).
- Publication: the receipt names no branch. When dev and production are given the same commit
  one after the other, dev's hook writes the receipt, production's is killed, and the check of
  `docs/openvox-infra.md:200-202` and `proxmox/README.md:342-349` passes for production all the
  same. `ReceiptMeansServed` takes the check at its word, and TLC refutes it when it stands in
  the place of the properties of `Publication.cfg` (13 states); `FreshReceiptMeansServed`, which
  is checked and proved, is what the check does show.
- Atlas: a non-empty `ca_crt.pem` counts as an imported CA, so an import that stopped after
  its first file is never finished (`atlas-infra.py:409`).
- Rehearsal: a run that finds the intermediate mounted reports it held whether or not it is
  (`openvox-rehearsal.py:459` is an unconditional check). The programs run the tools as
  `openvox-rehearsal-tools:24001` (`openvox-rehearsal.py:825,853`,
  `openvox_rehearsal_recovery.py:20`), while the compose file and `docs/openvox-rehearsal.md:12`
  build them as `:36001`: after the documented build alone (`Tagged = FALSE`) no run gets past
  its first check. The run has the image under both tags.
- Desktop: two runs that got the same number write the same snippet (`desktop.py:293`), and the
  clone of the first boots with what the second wrote. Its hostname is right, so the first run
  reports a desktop that is to be enrolled (`desktop.py:234`) and is enrolled as the other one.
  `ReportedIsEnrolled` says that this does not happen, and TLC refutes it in the place of the
  properties of `DesktopVms.cfg` (12 states without a fault).
- Desktop: `require_owned_vm` is to "refuse destructive operations unless the local VM has our
  exact identity" (`desktop.py:183`), and stop and destroy follow it as commands of their
  own. Two runs that rebuild the same VM under one number, and a third that clones another
  name into the number while the first has freed it, end with the second one destroying the
  third's VM. It takes three runs; the instance has two.

## 5. The proofs

TLAPS checks every theorem for all values of the constants that satisfy the named
assumptions (`WolfConstants`, `RouterConstants`, `BoundsAssumption` and so on: names are
distinct, bounds are natural numbers). No theorem depends on how large a bound is.

| Theorem | Says |
|---|---|
| `WolfSession_proofs!TypeCorrect` | `TypeOK` |
| `WolfSession_proofs!TransientPhaseOwned` | `TransientPhaseIsOwned` |
| `WolfSession_proofs!RunningSessionTimed` | `RunningSessionIsTimed` |
| `WolfSession_proofs!RestartKeeps` | `RestartKeepsSession` |
| `WolfSession_proofs!Refinement` | `ImplementsLifecycle`, when saves succeed |
| `WolfSession_proofs!FailedStartsCleanUp` | `RecordedLayersAreCleaned` |
| `WolfSession_proofs!SuccessfulStopPowersOff` | `StopPowersOff` |
| `WolfSession_proofs!DeadlineInvariant` | the life cycle ties the deadline to the phase |
| `WolfSession_proofs!ControllerKeepsDeadline` | so does the controller, when saves succeed |
| `RouterDhcp_proofs!TypeCorrect`, `NeverForgotten` | `TypeOK`, `ScopeNeverForgotten` |
| `RouterDhcp_proofs!NeverTakenDown` | `BoundScopeUntouched`, for any number of ticks, with the web console |
| `CortexWorkflows_proofs!TypeCorrect`, `NothingFoundIsStopped` | `TypeOK`, `FoundIsLeft` |
| `CortexWorkflows_proofs!MachineIsLeftAsFound`, `TasksKeepStorage` | `LeftAsFound`, `TaskKeepsStorage` |
| `Publication_proofs!TypeCorrect`, `ReceiptsAreCurrent` | `TypeOK`, `ReceiptIsCurrent` |
| `Publication_proofs!NewestGetsDeployed` | `NewestIsDeployed` |
| `Publication_proofs!FreshReceiptsMeanServed` | `FreshReceiptMeansServed`, for pushes of any kind |
| `AtlasAuthorities_proofs!TypeCorrect`, `RootIsOne`, `EstablishedStays` | `TypeOK`, `OneRoot`, `EstablishedIsServed` |
| `AtlasAuthorities_proofs!FinishedHolds` | `FinishedIsComplete` |
| `AtlasAuthorities_proofs!ImplementsAuthorities` | preparing FreeIPA beside them, the authorities still do what `AtlasAuthorities` says |
| `AtlasAuthorities_proofs!IpaTypeCorrect`, `InstalledStays` | `IpaTypeOK`, `InstalledFromInputs` |
| `AtlasAuthorities_proofs!TrustIsOne`, `PreparedHolds` | `IpaTrust`, `PreparedIsComplete` |
| `AtlasMaintenance_proofs!TypeCorrect`, `ArchiveStays`, `BackupsEndClean` | `TypeOK`, `ArchiveOfStoppedVault`, `BackupEndsClean` |
| `Rehearsal_proofs!TypeCorrect`, `AuthoritiesStay` | `TypeOK`, `AuthorityStays` |
| `DesktopVms_proofs!TypeCorrect`, `ReportedIsItsOwn` | `TypeOK`, `DesktopIsItsOwn` |
| `DesktopVms_proofs!FailedClonesGo`, `TokensGo` | `CloneIsCleanedUp`, `SnippetsGo` |

**The arguments.**

- *Wolf* (`Core`). That a transient phase belongs to the operation under the lock is not
  inductive: the operation that wrote it must still be the one that leaves it, which
  takes who holds the lock at which step (`LockOwned`) and which phase each step relies
  on (`PhaseOwned`). What a restart loads takes the agreement of memory and file
  (`DiskFollows`), which a failed save breaks: hence the history `faults`. The refinement
  follows step by step from `Core`; steps on the machine, the locks and the timer are
  stutters. What a clean-up or a stop did to the machine is `TowerOK`, one clause for each
  step: the file lock leaves one operation at the machine, each shutdown relies on the one
  before it, and a host that a start brought up never falls back to its password prompt,
  where a shutdown through the API would not reach it. Anybody else's switch ends `quiet`.
- *Router* (`RecoveryInv`). The lock leaves one run at work (`LockHeld`), a run does what it
  was called for (`RunsDoTheirOwn`), bootstrap is over before anything asks for a scope
  (`BeforeService`), the marker outlives the calls between its making and its removal
  (`MarkerKept`), and it is removed only once the scope is on again (`SwitchedBack`).
  `ServingInv` adds that what a run listed as unbound stays unbound as long as its API
  session lives, unless a person touched it: a restart, which may bind it, ends the
  session, so the disable call is refused.
- *Cortex* (`Inv = MachineOK /\ FlagsOK /\ CountsOK`). A flag that lets clean-up stop a layer
  is set only when that layer has been down since the run began. For the host this takes
  that a run past Dropbear has seen the host locked; for the stack, that histories are
  closed downwards, so stopping a VM or a host takes with it only what was not running
  all along. For the quiet week (`QuietInv`) every layer is looked at twice. One that was
  there at first is there, and no run means to take it down; one that was not is there only
  while some run still owes taking it down (`HaltsHost`, `StopsVm`, `StopsStack`), and the
  run that owes it is at work, so when all have ended nothing is left. A task has its backup
  polling for it (`SeesToTask`), and the lock leaves no second backup to disable its storage.
- *Publication* (`Inv = TypeOK /\ FlushedOK /\ ComparedOK`). What a hook has flushed stays
  flushed until the receipt, because only the hook in the lock writes directories and a
  compilation loads what is there. Hence both flushes come after the last deployment,
  and both environments are flushed, whatever the push was about. That the newest commit is
  deployed follows from a debt (`Owed`): until it is on disk, the line that names it is
  with a hook that is at work or in the queue, or stands behind another line, and while it is
  the newest no hook can refuse it as overtaken. A receipt shows what
  `FreshReceiptMeansServed` says because a commit that one push named is in the hands of one
  hook only (`CommitsOK`): no other deploys that commit, or another one of its branch over it,
  and one that fails on one branch does not write the receipt for the other.
- *Atlas* (`Inv = TypeOK /\ RootOK`). What relies on a root does so twice over: Vault holds
  it and `ca.pem` pins it. One loss takes one of the two, and a root is made only when
  both are missing. `IssuerOK` carries the established issuer through the steps that sign.
  `RunOK` says what a run has achieved at each of its steps, whatever the runs before it lost
  or left half done, since each step looks for itself; at the last one it is the property.
- *FreeIPA* (`InOrder`). The options are saved last, so once they are there the pair is whole,
  and a pair or a password is made only where both halves are missing: a later run changes
  nothing an installation may have read. The trust (`TrustOK`) has two vouchers again,
  Vault's issuer and the saved identity: a certificate exists only after both, one loss takes
  one of them, and the program then signs nothing that does not fit the other one. The
  authorities do not move below it, being finished (`DoneOK`), but for what a loss takes.
- *Maintenance* (`StoppedForArchive`, `CleanSoFar`). The property about the archive is not
  inductive at the step that starts Vault again, so the invariant covers it too; whoever
  else starts Vault has the lock (`LockIsHeld`). A backup nobody killed remembers in
  `VAULT_STOPPED` what its trap must start, until both containers run.
- *Rehearsal* (`Kept = MountsFirst /\ Making /\ Restoring`). A mount comes before its authority
  and is looked at first, so the step that makes one finds none; recovery begins only where
  the restore project has no volume, fills each volume once, and its archives agree with
  the source, which is down while they are taken and which no other step changes before
  they are restored.
- *Desktop* (`Inv = TypeOK /\ ClonesOK /\ SnippetsOK /\ MetOK /\ AloneOK`). A clone bears
  number, name and marker of the run that made it. A token is under its run's number, so the
  run that unlinks the file removes its own or a later one's. Two runs at work on one number
  have met (`MetOK`), so as long as a run has not, every step at its number is its own, or the
  inventory of one that meets it by that. Such a run knows at each step whether its clone is
  there, which snippet it will boot with, and that its token is unused (`AloneOK`); cleaning
  begins only after a fault, and a second one would be needed to spoil it. With two runs at one
  number this fails, as section 4 tells, which is why the properties say `~met`.

**Only model-checked.** Liveness (`SessionEnds`, `RequestsReturn`, `ScopesRecover`,
`StorageSettles`, `Resumes`, `IpaResumes`, `UnsealedAgain`, `RenewedIsServed`,
`EnrollConverges`, `RehearsalEnds`) is beyond this prover. So is ENABLED, hence that a run
outside the named exceptions can go on. The properties of the two runs that end in a
violation are false, so there is nothing to prove. Where a property names a bound (`losses <= 1`,
`faults <= 1`, `faults = 0`) the theorem has it too: it belongs to the claim, and the
instance's own bounds (`MaxStops`, `MaxFaults` and so on) do not.

## 6. What is not modelled

Components: those marked "no" in the table of section 1, each with its reason in
`PROJECT.json`. In short: what is left reads and compares, sets something up once by hand,
or depends on the inside of a service the repository does not contain (FreeIPA's keys for
the keytabs).

Inside the modelled components:

- Wolf's HTTP front end (authorization, CSRF, pages) keeps no state. Interleavings finer
  than a `state_lock` section are not there; `schedule_timeout` and `cancel_timeout`, which
  touch the timer without that lock, are one action each. An accepted shutdown takes
  effect at once.
- The router's `configure` writes settings and DNS records in one step: no property
  tells them apart, and no other actor reads them.
- Wolf appears to the workflows as a person, and the workflows to Wolf as a meddler.
- The workflows' dry run, and what Expect matches beyond success and end of output.
- r10k's own cache, and the first deployment (`deploy_initial`), whose result is `Init`.
- FreeIPA's and Atlas's programs: the text of policies, roles and options. The retention of
  old archives, and `install_trust`'s refusal of other trust.
- Rehearsal: seven volumes that only carry data along; `status` and `transports`; a second
  terminal with a second command; archives torn in extraction; certificates that expire
  during a rehearsal (they last a day). The checks of the daemon's name, of disk space and
  of image digests are failures of a step.
- Desktop: templates, node names and storage, which are checked before anything happens;
  the cloud-init text; cores, memory and firmware.
- Files are on disk once a program has closed or renamed them.

## 7. Reading and running

Read `X.tla`, then `MCX.tla` with its `.cfg`, then `X_proofs.tla`. From this directory:

    tlc -workers 2 -config AtlasInitialize.cfg MCAtlasAuthorities
    tlapm AtlasAuthorities_proofs.tla

Every run ends within three minutes on two cores; the longest are `wolf_machine` (1.7 million
distinct states), `publication_hooks` (8.6 million), and, with liveness, `atlas_initialize`
(0.7 million), `cortex_together` (0.6 million) and `router_recovers` (0.5 million).
