----------------------------- MODULE Publication ------------------------------
(***************************************************************************)
(* Code publication on Atlas: a push to the bare repository runs the       *)
(* post-receive hook (infra-host-post-receive, infra-post-receive) in the  *)
(* OpenVox container.  Under a lock the hook deploys each pushed branch    *)
(* with r10k, generates types, then drops the compiler's cached            *)
(* environments (infra-flush.rb) and writes a receipt: /git/deploy.status  *)
(* and /git/deploy.commit.                                                 *)
(*                                                                         *)
(* Git moves the refs before the hook runs and accepts them whatever the   *)
(* hook does, so several hooks may wait, each with its own input.  The     *)
(* compiler loads an environment whenever it compiles and keeps it until   *)
(* it is flushed (environment_timeout = unlimited).                        *)
(***************************************************************************)
EXTENDS Naturals, Sequences

CONSTANTS
    Commits,     \* commits that may be pushed
    First,       \* the commit of both branches at first
    Zero,        \* the all-zero revision: a branch that is not there
    Mixed,       \* what r10k leaves while it runs or when it fails
    NoCode,      \* no environment loaded
    MaxPushes,   \* bound on pushes
    MaxFaults    \* bound on failing commands, kills and container restarts

ASSUME CommitsAssumption == First \in Commits /\ {Zero, Mixed, NoCode} \cap Commits = {}
ASSUME DistinctAssumption == Zero # Mixed /\ Zero # NoCode /\ Mixed # NoCode
ASSUME BoundsAssumption == MaxPushes \in Nat /\ MaxFaults \in Nat

Envs == {"production", "dev"}

Hooks == 1..MaxPushes

VARIABLES
    ref,        \* the branches of /git/control.git
    seen,       \* history: every commit a branch has had
    again,      \* history: those of them that a push named after a branch had had them
    disk,       \* what each environment's directory holds
    types,      \* the commit each environment's types were generated from
    cache,      \* the code the compiler has loaded
    status,     \* /git/deploy.status: "none", "ok" or "failed"
    receipt,    \* /git/deploy.commit, Zero when there is none
    pushes,     \* how many pushes there were; push n runs hook n
    pc,         \* where each hook is
    todo,       \* the lines of its input it has not finished
    deployed,   \* deployed_revision, Zero when empty
    faults      \* how many faults there were

code == <<disk, types, cache>>
files == <<status, receipt>>
vars == <<ref, seen, again, disk, types, cache, status, receipt, pushes, pc, todo, deployed, faults>>

Init ==
    /\ ref = [e \in Envs |-> First]
    /\ seen = {First}
    /\ again = {}
    /\ disk = [e \in Envs |-> First]
    /\ types = [e \in Envs |-> First]
    /\ cache = [e \in Envs |-> NoCode]
    /\ status = "none"
    /\ receipt = Zero
    /\ pushes = 0
    /\ pc = [n \in Hooks |-> "none"]
    /\ todo = [n \in Hooks |-> << >>]
    /\ deployed = [n \in Hooks |-> Zero]
    /\ faults = 0

-------------------------------------------------------------------------------
Fault == faults < MaxFaults /\ faults' = faults + 1

Goto(n, l) == pc' = [pc EXCEPT ![n] = l]

\* set -e: the script ends with an error, and only the trap is left to run.
Fails(n) == Goto(n, "failed")

\* A process that is between flock and its end.
Inside(n) == pc[n] \notin {"none", "lock", "gone"}

Quiet == \A n \in Hooks : pc[n] \in {"none", "gone"}

Line(n) == Head(todo[n])
Env(n) == Line(n).env

-------------------------------------------------------------------------------
(* Pushes. *)

\* The managed branches a push may name, in any order; none means other refs only.
Orders ==
    UNION {{envs \in [1..k -> Envs] : \A i, j \in 1..k : envs[i] = envs[j] => i = j} : k \in 0..2}

\* receive-pack moves the refs, then starts the hook with one line per ref.  A branch may be
\* given a new commit, the other branch's, an older one (a reset), or be deleted.
Push(n) ==
    /\ n = pushes + 1
    /\ pushes' = n
    /\ \E envs \in Orders :
         LET named == {envs[i] : i \in DOMAIN envs} IN
         \E new \in [named -> Commits \cup {Zero}] :
            /\ \A e \in named : new[e] # ref[e]
            /\ ref' = [e \in Envs |-> IF e \in named THEN new[e] ELSE ref[e]]
            /\ seen' = seen \cup ({new[e] : e \in named} \ {Zero})
            /\ again' = again \cup (seen \cap {new[e] : e \in named})
            /\ todo' = [todo EXCEPT ![n] = [i \in DOMAIN envs |-> [env |-> envs[i], new |-> new[envs[i]]]]]
    /\ Goto(n, "lock")
    /\ UNCHANGED <<code, files, deployed, faults>>

-------------------------------------------------------------------------------
(* The hook. *)

\* flock -x: one hook at a time.
LockFree == \A n \in Hooks : ~Inside(n)

TakeLock(n) ==
    /\ pc[n] = "lock"
    /\ LockFree
    /\ Goto(n, "read")
    /\ UNCHANGED <<ref, seen, again, code, files, pushes, todo, deployed, faults>>

\* Mutant of ReadLine: a deleted branch ends the loop.
ReadLineStops(n) ==
    /\ pc[n] = "read"
    /\ \/ /\ IF todo[n] = << >> THEN TRUE ELSE Line(n).new = Zero
          /\ todo' = [todo EXCEPT ![n] = IF @ = << >> THEN @ ELSE Tail(@)]
          /\ Goto(n, IF deployed[n] # Zero THEN "flush production" ELSE "ok")
          /\ UNCHANGED disk
       \/ /\ todo[n] # << >> /\ Line(n).new # Zero /\ ref[Env(n)] # Line(n).new
          /\ Fails(n)
          /\ UNCHANGED <<todo, disk>>
       \/ /\ todo[n] # << >> /\ Line(n).new # Zero /\ ref[Env(n)] = Line(n).new
          /\ disk' = [disk EXCEPT ![Env(n)] = Mixed]
          /\ Goto(n, "r10k")
          /\ UNCHANGED todo
    /\ UNCHANGED <<ref, seen, again, types, cache, files, pushes, deployed, faults>>

\* The loop: a deleted branch is passed over, a line the branch has moved past ends the hook,
\* and after the last line there is something to flush only if something was deployed.  For
\* any other line r10k begins to rewrite the environment in place.
ReadLine(n) ==
    /\ pc[n] = "read"
    /\ \/ /\ todo[n] = << >>
          /\ Goto(n, IF deployed[n] # Zero THEN "flush production" ELSE "ok")
          /\ UNCHANGED <<todo, disk>>
       \/ /\ todo[n] # << >> /\ Line(n).new = Zero
          /\ todo' = [todo EXCEPT ![n] = Tail(@)]
          /\ UNCHANGED <<pc, disk>>
       \/ /\ todo[n] # << >> /\ Line(n).new \notin {Zero, ref[Env(n)]}
          /\ Fails(n)
          /\ UNCHANGED <<todo, disk>>
       \/ /\ todo[n] # << >> /\ Line(n).new # Zero /\ ref[Env(n)] = Line(n).new
          /\ disk' = [disk EXCEPT ![Env(n)] = Mixed]
          /\ Goto(n, "r10k")
          /\ UNCHANGED todo
    /\ UNCHANGED <<ref, seen, again, types, cache, files, pushes, deployed, faults>>

\* The deployed commit must be the requested one.
Compare(n, c) == IF c = Line(n).new THEN Goto(n, "types") ELSE Fails(n)

\* r10k deploys the commit the branch has when it fetches, which may be a later one than the
\* line's; a branch deleted meanwhile, or any other failure, leaves the directory half done.
R10k(n) ==
    /\ pc[n] = "r10k"
    /\ \/ \E c \in {Line(n).new, ref[Env(n)]} \ {Zero} :
             disk' = [disk EXCEPT ![Env(n)] = c] /\ Compare(n, c) /\ UNCHANGED faults
       \/ ref[Env(n)] = Zero /\ UNCHANGED <<disk, faults>> /\ Fails(n)
       \/ UNCHANGED disk /\ Fault /\ Fails(n)
    /\ UNCHANGED <<ref, seen, again, types, cache, files, pushes, todo, deployed>>

\* Mutant of GenerateTypes: its failure does not end the hook.
GenerateTypesAnyway(n) ==
    /\ pc[n] = "types"
    /\ \/ types' = [types EXCEPT ![Env(n)] = disk[Env(n)]] /\ UNCHANGED faults
       \/ Fault /\ UNCHANGED types
    /\ deployed' = [deployed EXCEPT ![n] = Line(n).new]
    /\ todo' = [todo EXCEPT ![n] = Tail(@)]
    /\ Goto(n, "read")
    /\ UNCHANGED <<ref, seen, again, disk, cache, files, pushes>>

\* puppet generate types, from what is on disk now.
GenerateTypes(n) ==
    /\ pc[n] = "types"
    /\ \/ /\ types' = [types EXCEPT ![Env(n)] = disk[Env(n)]]
          /\ deployed' = [deployed EXCEPT ![n] = Line(n).new]
          /\ todo' = [todo EXCEPT ![n] = Tail(@)]
          /\ Goto(n, "read") /\ UNCHANGED faults
       \/ Fault /\ Fails(n) /\ UNCHANGED <<types, deployed, todo>>
    /\ UNCHANGED <<ref, seen, again, disk, cache, files, pushes>>

\* One DELETE of infra-flush.rb: it empties the cache, or fails before or after that.
Flush(n, e, l) ==
    /\ \/ cache' = [cache EXCEPT ![e] = NoCode] /\ Goto(n, l) /\ UNCHANGED faults
       \/ cache' = [cache EXCEPT ![e] = NoCode] /\ Fails(n) /\ Fault
       \/ UNCHANGED cache /\ Fails(n) /\ Fault
    /\ UNCHANGED <<ref, seen, again, disk, types, files, pushes, todo, deployed>>

FlushDev(n) == pc[n] = "flush dev" /\ Flush(n, "dev", "receipt")

\* Mutant of FlushProduction: only the environment deployed last is flushed.
FlushDeployed(n) ==
    /\ pc[n] = "flush production"
    /\ IF disk["dev"] = deployed[n]
       THEN Goto(n, "flush dev") /\ UNCHANGED <<ref, seen, again, code, files, pushes, todo, deployed, faults>>
       ELSE Flush(n, "production", "receipt")

\* infra-flush.rb empties both environments whatever was pushed.
FlushProduction(n) == pc[n] = "flush production" /\ Flush(n, "production", "flush dev")

WriteReceipt(n) ==
    /\ pc[n] = "receipt"
    /\ receipt' = deployed[n]
    /\ Goto(n, "ok")
    /\ UNCHANGED <<ref, seen, again, code, status, pushes, todo, deployed, faults>>

\* The EXIT trap writes the exit code, then the lock goes with the process.
Leave(n) ==
    /\ pc[n] \in {"ok", "failed"}
    /\ status' = pc[n]
    /\ Goto(n, "gone")
    /\ UNCHANGED <<ref, seen, again, code, receipt, pushes, todo, deployed, faults>>

\* The kernel kills the hook: no trap.
Kill(n) ==
    /\ Inside(n) \/ pc[n] = "lock"
    /\ Goto(n, "gone")
    /\ Fault
    /\ UNCHANGED <<ref, seen, again, code, files, pushes, todo, deployed>>

-------------------------------------------------------------------------------
(* The compiler. *)

\* A compilation loads an environment that is not cached, at any moment.
Load(e) ==
    /\ cache[e] = NoCode
    /\ cache' = [cache EXCEPT ![e] = disk[e]]
    /\ UNCHANGED <<ref, seen, again, disk, types, files, pushes, pc, todo, deployed, faults>>

\* The container restarts: the hooks in it are gone, and the compiler starts empty.
Restart ==
    /\ Fault
    /\ cache' = [e \in Envs |-> NoCode]
    /\ pc' = [n \in Hooks |-> IF pc[n] = "none" THEN "none" ELSE "gone"]
    /\ UNCHANGED <<ref, seen, again, disk, types, files, pushes, todo, deployed>>

-------------------------------------------------------------------------------
Hook(n) ==
    \/ TakeLock(n) \/ ReadLine(n) \/ R10k(n) \/ GenerateTypes(n)
    \/ FlushProduction(n) \/ FlushDev(n) \/ WriteReceipt(n) \/ Leave(n)

Next ==
    \/ \E n \in Hooks : Push(n) \/ Hook(n) \/ Kill(n)
    \/ \E e \in Envs : Load(e)
    \/ Restart

Spec == Init /\ [][Next]_vars

-------------------------------------------------------------------------------
Lines == [env : Envs, new : Commits \cup {Zero}]

Places == {"none", "lock", "read", "r10k", "types", "flush production",
           "flush dev", "receipt", "ok", "failed", "gone"}

\* Every variable keeps its type, at most one hook is inside the lock, and a hook that works
\* on a line has one.
TypeOK ==
    /\ ref \in [Envs -> Commits \cup {Zero}]
    /\ seen \subseteq Commits
    /\ again \subseteq Commits
    /\ disk \in [Envs -> Commits \cup {Mixed}]
    /\ types \in [Envs -> Commits]
    /\ cache \in [Envs -> Commits \cup {Mixed, NoCode}]
    /\ status \in {"none", "ok", "failed"}
    /\ receipt \in Commits \cup {Zero}
    /\ pushes \in 0..MaxPushes
    /\ pc \in [Hooks -> Places]
    /\ todo \in [Hooks -> Seq(Lines)]
    /\ deployed \in [Hooks -> Commits \cup {Zero}]
    /\ faults \in 0..MaxFaults
    /\ \A n, m \in Hooks : Inside(n) /\ Inside(m) => n = m
    /\ \A n \in Hooks : pc[n] \in {"r10k", "types"} =>
          todo[n] # << >> /\ Line(n).new # Zero

\* When a hook writes its receipt, the compiler holds no code, of either environment, other
\* than what is on disk: whatever it loaded while r10k ran, and whatever an earlier hook that
\* failed left behind ("Never report a successful deployment with stale code.",
\* infra-post-receive:36).
ReceiptIsCurrent ==
    [][\A n \in Hooks : WriteReceipt(n) => \A e \in Envs : cache[e] \in {NoCode, disk[e]}]_vars

\* What production is when its commit is served: that commit on disk, in its types and, as far
\* as it is loaded, in the compiler.
Serves(c) == disk["production"] = c /\ types["production"] = c /\ cache["production"] \in {NoCode, c}

\* The operator's check: when no hook is left, the status is 0 and the receipt names
\* production's commit.
CheckPasses == Quiet /\ status = "ok" /\ receipt = ref["production"] /\ receipt # Zero

\* The check of proxmox/README.md:342-349 taken at its word, after any push: production serves
\* the commit.  The code does not have this, for the receipt does not say for which branch it
\* was written: TLC refutes it, and no run lists it.
ReceiptMeansServed == CheckPasses => Serves(receipt)

\* What the check does show: of a commit that one push named, for either branch or for both,
\* and no later push named again, production serves it, whatever failed or was killed in that
\* push and in the others, and however their hooks queued.
FreshReceiptMeansServed == CheckPasses /\ receipt \notin again => Serves(receipt)

\* When nothing failed and every hook ended, each branch's newest commit is deployed, however
\* pushes overlapped: a line a newer push overtook is that push's to deploy.  The exception is
\* a line behind an overtaken one in the same push, which the hook never reads.
NewestIsDeployed ==
    Quiet /\ faults = 0 =>
        \A e \in Envs :
            \/ ref[e] \in {Zero, disk[e]}
            \/ \E n \in Hooks, i \in {2} : i \in DOMAIN todo[n] /\ todo[n][i] = [env |-> e, new |-> ref[e]]
===============================================================================
