------------------------------- MODULE Rehearsal -------------------------------
(***************************************************************************)
(* The disposable rehearsal of OpenVox (scripts/openvox-rehearsal.py) and  *)
(* its recovery into a second project                                      *)
(* (scripts/openvox_rehearsal_recovery.py), as one operator commands them: *)
(* run builds a hierarchy of authorities in the volumes of the source      *)
(* project, exercises it, archives the volumes and restores them under the *)
(* restore project; up, stop and destroy manage either project.  Any       *)
(* command may be cut short, and every later one works on what is left.    *)
(*                                                                         *)
(* An authority is the number of its making; a volume is a record of what  *)
(* the programs can tell about its contents.  Of the eleven volumes four   *)
(* stand for the state that matters: the two Vaults', OpenVox's and the    *)
(* agent's, each named as the service that uses it.                        *)
(***************************************************************************)
EXTENDS Naturals, Sequences, FiniteSets

CONSTANTS
    MaxFaults,     \* how often a command fails or is killed, or the machine reboots
    MaxCommands,   \* how many commands the operator gives beside retrying
    Tagged         \* the image built as :36001 also has the tag :24001

ASSUME BoundsAssumption == MaxFaults \in Nat /\ MaxCommands \in Nat /\ Tagged \in BOOLEAN

VARIABLES
    pc,        \* what the running command does next, "idle" when there is none
    on,        \* its PROJECT
    key,       \* it holds the answer of sys/init
    n,         \* the volume recovery restores next
    archive,   \* the archives of this recovery
    config,    \* per project the staged tree, "half" without its compose.yaml
    data,      \* per project and volume what is in it
    occupied,  \* the restore project has volumes or containers
    up,        \* per project the running services
    shown,     \* per project the leaf the running online Vault shows
    made,      \* how many authorities were ever made
    report,    \* what results.json says of the last run
    faults, commands

volVars == <<data, made>>
upVars == <<up, shown>>
procVars == <<on, key, n, archive>>
fileVars == <<config, occupied, report>>
countVars == <<faults, commands>>
vars == <<pc, procVars, fileVars, volVars, upVars, countVars>>

Projects == {"source", "restore"}
Vaults == {"root", "vault"}
Volumes == <<"root", "vault", "openvox", "agent">>
Services == {"root", "vault", "openvox", "agent"}

\* What a volume may hold, one record for all of them:
\*   state   a Vault's: part of its transport identity, all of it, initialized storage, saved
\*           recovery.json
\*   leaf    the online Vault's: self-signed, issued, or part of the pair and its trust
\*   mounted, ca, issuer   the PKI mount, the authority, and the authority that signed it
\*   request of OpenVox's intermediate key, its request, and the listener's private and public
\*           key, the last one written
\*   server  beside OpenVox's CA certificate: its key, the server's leaf, that leaf's chain
\*   cert    the agent's, or a request that the CA will not sign any more
\*   kv      the version of the marker in Hiera
Boxes == [state : {"none", "part", "tls", "init", "kept"}, leaf : {"none", "self", "part", "issued"},
          mounted : BOOLEAN, ca : Nat, issuer : Nat, request : {"none", "key", "made", "private", "whole"},
          server : {"none", "key", "leaf", "chain"},
          cert : {"none", "asked", "good", "revoked"}, kv : 0..2]

Empty == [state |-> "none", leaf |-> "none", mounted |-> FALSE, ca |-> 0, issuer |-> 0,
          request |-> "none", server |-> "none", cert |-> "none", kv |-> 0]

EmptyProject == [v \in Services |-> Empty]

Init ==
    /\ pc = "idle" /\ on = "source" /\ key = FALSE /\ n = 1 /\ archive = EmptyProject
    /\ config = [p \in Projects |-> "none"]
    /\ data = [p \in Projects |-> EmptyProject]
    /\ occupied = FALSE
    /\ up = [p \in Projects |-> {}] /\ shown = [p \in Projects |-> "none"]
    /\ made = 0 /\ report = "none"
    /\ faults = 0 /\ commands = 0

Box(v) == data[on][v]

Put(v, b) == data' = [data EXCEPT ![on][v] = b]

\* A step of the running command that keeps what only other steps change.
Does(step, next) ==
    pc = step /\ pc' = next /\ UNCHANGED <<countVars, config, occupied, report>>

-------------------------------------------------------------------------------
(* start_vault, which makes an identity and initializes storage only when fresh. *)

\* The steps of the commands that start a Vault, the Vault, and the step after it.
Starts == {
    <<"root", "root", "root_mount">>, <<"vault", "vault", "vault_mount">>,
    <<"restart", "vault", "offline">>, <<"vault_again", "vault", "verify">>,
    <<"restored_root", "root", "compare_root">>,
    <<"restored_vault", "vault", "restored_up">>, <<"up_vault", "vault", "up_rest">>}

Fresh == pc \in {"root", "vault"}

\* The container is up, or can come up, and answers under the trust beside its pair.
Answers(v) ==
    IF v \in up[on] THEN v = "root" \/ Box(v).leaf = "part" \/ shown[on] = Box(v).leaf
    ELSE Box(v).leaf # "part"

ContainerUp(v) ==
    /\ up' = [up EXCEPT ![on] = @ \cup {v}]
    /\ shown' = IF v = "vault" /\ v \notin up[on] THEN [shown EXCEPT ![on] = Box(v).leaf] ELSE shown

\* transport.rb writes tls.key first, the certificate and its trust after it.
MakeIdentity(v, rest) ==
    /\ \/ /\ Does(v, rest) /\ Box(v).state = "none"
          /\ Put(v, [Box(v) EXCEPT !.state = "part"])
       \/ /\ Does(rest, v)
          /\ Put(v, [Box(v) EXCEPT !.state = "tls", !.leaf = "self"])
    /\ UNCHANGED <<procVars, upVars, made>>

InitVault(s) ==
    /\ Does(s[1], s[1]) /\ Fresh /\ Box(s[2]).state = "tls"
    /\ ContainerUp(s[2])
    /\ Put(s[2], [Box(s[2]) EXCEPT !.state = "init"])
    /\ key' = TRUE
    /\ UNCHANGED <<on, n, archive, made>>

SaveRecovery(s) ==
    /\ Does(s[1], s[1]) /\ key
    /\ Put(s[2], [Box(s[2]) EXCEPT !.state = "kept"])
    /\ key' = FALSE
    /\ UNCHANGED <<on, n, archive, upVars, made>>

Unseal(s) ==
    /\ Does(s[1], s[3]) /\ Box(s[2]).state = "kept" /\ Answers(s[2])
    /\ ContainerUp(s[2])
    /\ UNCHANGED <<procVars, volVars>>

\* Only tls.key is looked for: without the files beside it no Vault answers, ever.
StartRefused(s) ==
    /\ pc = s[1] /\ ~key
    /\ \/ Box(s[2]).state \in {"part", "init"}
       \/ Box(s[2]).state = "kept" /\ ~Answers(s[2])
       \/ Box(s[2]).state \in {"none", "tls"} /\ ~Fresh

-------------------------------------------------------------------------------
(* run: initialize. *)

Stage ==
    /\ pc = "stage" /\ pc' = "startup"
    /\ config' = [config EXCEPT !["source"] = "whole"]
    /\ UNCHANGED <<procVars, volVars, upVars, occupied, report, countVars>>

\* The packaged entrypoint must refuse to start without an identity, in the image :24001.
StartupCheck ==
    /\ Does("startup", "root") /\ Tagged
    /\ UNCHANGED <<procVars, volVars, upVars>>

\* Mutant of RootMount: the answer of mount() is not looked at.
RootMountIgnored ==
    /\ Does("root_mount", "generate")
    /\ Put("root", [Box("root") EXCEPT !.mounted = TRUE])
    /\ UNCHANGED <<procVars, upVars, made>>

\* mount() answers whether it made the mount, and only then is there anything to generate.
RootMount ==
    /\ Does("root_mount", IF Box("root").mounted THEN "read" ELSE "generate")
    /\ Put("root", [Box("root") EXCEPT !.mounted = TRUE])
    /\ UNCHANGED <<procVars, upVars, made>>

Generate ==
    /\ Does("generate", "read")
    /\ Put("root", [Box("root") EXCEPT !.ca = made + 1]) /\ made' = made + 1
    /\ UNCHANGED <<procVars, upVars>>

ReadRoot ==
    /\ Does("read", "prepare")
    /\ Box("root").ca # 0
    /\ UNCHANGED <<procVars, volVars, upVars>>

\* pki.rb writes the intermediate's key and its request when there is no such key, and both
\* keys of the listener when there is no private one.
Prepare ==
    LET Writes(step, next, file) ==
            Does(step, next) /\ Put("openvox", [Box("openvox") EXCEPT !.request = file])
    IN
    /\ \/ Box("openvox").request = "none" /\ Writes("prepare", "request", "key")
       \/ Writes("request", "listener", "made")
       \/ Box("openvox").request = "made" /\ Writes("prepare", "public", "private")
       \/ Writes("listener", "public", "private")
       \/ Writes("public", "look", "whole")
       \/ Box("openvox").request \in {"private", "whole"} /\ Does("prepare", "look") /\ UNCHANGED data
    /\ UNCHANGED <<procVars, upVars, made>>

\* Imported means that ca_key.pem is there.
LookForCa ==
    /\ Does("look", IF Box("openvox").server = "none" THEN "import" ELSE "vault")
    /\ UNCHANGED <<procVars, volVars, upVars>>

\* puppetserver ca import writes the CA's certificate, its key and the server's identity, and
\* neither over an authority that is there nor with one key of a listener's two.
Import ==
    /\ Does("import", "import_key") /\ Box("openvox").ca = 0 /\ Box("openvox").request = "whole"
    /\ Put("openvox", [Box("openvox") EXCEPT !.ca = made + 1, !.issuer = Box("root").ca])
    /\ made' = made + 1
    /\ UNCHANGED <<procVars, upVars>>

ImportRest ==
    /\ \/ Does("import_key", "import_leaf") /\ Put("openvox", [Box("openvox") EXCEPT !.server = "key"])
       \/ Does("import_leaf", "chain") /\ Put("openvox", [Box("openvox") EXCEPT !.server = "leaf"])
    /\ UNCHANGED <<procVars, upVars, made>>

Chain ==
    /\ Does("chain", "vault")
    /\ Put("openvox", [Box("openvox") EXCEPT !.server = "chain"])
    /\ UNCHANGED <<procVars, upVars, made>>

VaultMount ==
    /\ Does("vault_mount", IF Box("vault").mounted THEN "offline" ELSE "intermediate")
    /\ Put("vault", [Box("vault") EXCEPT !.mounted = TRUE])
    /\ UNCHANGED <<procVars, upVars, made>>

Intermediate ==
    /\ Does("intermediate", "transport")
    /\ Put("vault", [Box("vault") EXCEPT !.ca = made + 1, !.issuer = Box("root").ca])
    /\ made' = made + 1
    /\ UNCHANGED <<procVars, upVars>>

\* The chain, the key and the trust are three writes.
Transport ==
    /\ \/ Does("transport", "pair") /\ Put("vault", [Box("vault") EXCEPT !.leaf = "part"])
       \/ Does("pair", "reload") /\ Put("vault", [Box("vault") EXCEPT !.leaf = "issued"])
    /\ UNCHANGED <<procVars, upVars, made>>

Reload ==
    /\ Does("reload", "restart")
    /\ shown' = [shown EXCEPT !["source"] = Box("vault").leaf]
    /\ UNCHANGED <<procVars, volVars, up>>

StopRoot ==
    /\ Does("offline", "access")
    /\ up' = [up EXCEPT !["source"] = @ \ {"root"}]
    /\ UNCHANGED <<procVars, volVars, shown>>

ConfigureAccess ==
    /\ Does("access", "deploy")
    /\ Put("vault", [Box("vault") EXCEPT !.kv = 1])
    /\ UNCHANGED <<procVars, upVars, made>>

-------------------------------------------------------------------------------
(* run: the workflows, the life cycle of the agent, and the restart of Vault. *)

\* Catalogs and the autosigner ask the online Vault under the root's trust, and the agent is
\* known to its CA.
Served == "vault" \in up[on] /\ shown[on] = "issued" /\ Box("vault").issuer = Box("root").ca

Converges == Served /\ Box("agent").cert = "good" /\ Box("agent").issuer = Box("openvox").ca

\* The packaged OpenVox does not start without the server's certificate.
Startable == Box("openvox").server \in {"leaf", "chain"}

DeployAndStart ==
    /\ Does("deploy", "enroll") /\ Startable
    /\ up' = [up EXCEPT !["source"] = @ \cup {"openvox", "agent"}]
    /\ UNCHANGED <<procVars, volVars, shown>>

\* An agent with a certificate only applies its catalog.
Enroll(step, next) ==
    /\ Does(step, next) /\ Served
    /\ \/ Converges /\ UNCHANGED data
       \/ /\ Box("agent").cert = "none" /\ Box("vault").kv = 1
          /\ Put("agent", [Box("agent") EXCEPT !.cert = "good", !.issuer = Box("openvox").ca])
    /\ UNCHANGED <<procVars, upVars, made>>

UpdateHiera ==
    /\ \/ Does("update", "reset") /\ Put("vault", [Box("vault") EXCEPT !.kv = 2])
       \/ Does("reset", "renew") /\ Put("vault", [Box("vault") EXCEPT !.kv = 1])
    /\ Converges
    /\ UNCHANGED <<procVars, upVars, made>>

Renew ==
    /\ Does("renew", "revoke") /\ Converges
    /\ UNCHANGED <<procVars, volVars, upVars>>

Revoke ==
    /\ Does("revoke", "replace")
    /\ Put("agent", [Box("agent") EXCEPT !.cert = "revoked"])
    /\ UNCHANGED <<procVars, upVars, made>>

Replace ==
    /\ Does("replace", "enroll_again")
    /\ Put("agent", [Box("agent") EXCEPT !.cert = "none"])
    /\ UNCHANGED <<procVars, upVars, made>>

StopVault ==
    /\ Does("stop_vault", "vault_again")
    /\ up' = [up EXCEPT !["source"] = @ \ {"vault"}]
    /\ UNCHANGED <<procVars, volVars, shown>>

\* verify-state.rb wants the chain behind the listener certificate, back to the root.
Verified == Box("openvox").server = "chain" /\ Box("openvox").issuer = Box("root").ca

Verify ==
    /\ Does("verify", "recover") /\ Converges /\ Verified
    /\ UNCHANGED <<procVars, volVars, upVars>>

-------------------------------------------------------------------------------
(* run: recover. *)

RecoverRefused == occupied \/ config["restore"] # "none"

StopSource ==
    /\ Does("recover", "archive") /\ ~RecoverRefused
    /\ up' = [up EXCEPT !["source"] = {}]
    /\ UNCHANGED <<procVars, volVars, shown>>

Archive ==
    /\ Does("archive", "extract")
    /\ archive' = data["source"]
    /\ UNCHANGED <<on, key, n, volVars, upVars>>

Extract ==
    /\ pc = "extract" /\ pc' = "create" /\ n' = 1
    /\ config' = [config EXCEPT !["restore"] = "whole"]
    /\ UNCHANGED <<on, key, archive, volVars, upVars, occupied, report, countVars>>

CreateVolume ==
    /\ pc = "create" /\ pc' = "fill" /\ occupied' = TRUE
    /\ UNCHANGED <<procVars, volVars, upVars, config, report, countVars>>

FillVolume ==
    /\ Does("fill", IF n = Len(Volumes) THEN "restored_root" ELSE "create")
    /\ data' = [data EXCEPT !["restore"][Volumes[n]] = archive[Volumes[n]]]
    /\ n' = IF n = Len(Volumes) THEN n ELSE n + 1
    /\ on' = IF n = Len(Volumes) THEN "restore" ELSE on
    /\ UNCHANGED <<key, archive, upVars, made>>

CompareRoot ==
    /\ Does("compare_root", "stop_restored_root")
    /\ Box("root").ca = data["source"]["root"].ca
    /\ UNCHANGED <<procVars, volVars, upVars>>

\* The finally that stops the restored root, after its check or because the check failed.
StopRestoredRoot ==
    /\ \/ Does("stop_restored_root", "restored_vault")
       \/ /\ pc = "give_up" /\ pc' = "idle" /\ report' = "failed"
          /\ UNCHANGED <<countVars, config, occupied>>
    /\ up' = [up EXCEPT !["restore"] = @ \ {"root"}]
    /\ UNCHANGED <<procVars, volVars, shown>>

RestoredUp ==
    /\ Does("restored_up", "pass") /\ Startable
    /\ up' = [up EXCEPT !["restore"] = @ \cup {"openvox", "agent"}]
    /\ UNCHANGED <<procVars, volVars, shown>>

Pass ==
    /\ pc = "pass" /\ pc' = "idle" /\ report' = "passed"
    /\ Converges /\ Verified /\ Box("openvox").ca = data["source"]["openvox"].ca
    /\ UNCHANGED <<procVars, volVars, upVars, config, occupied, countVars>>

-------------------------------------------------------------------------------
(* The other commands: without a staged compose.yaml they fail before they do anything. *)

Begin(step, p) ==
    /\ pc = "idle" /\ pc' = step /\ on' = p /\ key' = FALSE
    /\ UNCHANGED <<n, archive, volVars, upVars, config, faults>>

BeginRun ==
    Begin("stage", "source") /\ report' = "none" /\ UNCHANGED occupied

\* The first command of start_vault makes the network and the volume it asks for.
BeginUp(p) ==
    /\ config[p] = "whole" /\ Begin("up_vault", p)
    /\ occupied' = (occupied \/ p = "restore")
    /\ UNCHANGED report

BeginStop(p) ==
    config[p] = "whole" /\ Begin("stop", p) /\ UNCHANGED <<occupied, report>>

BeginDestroy(p) ==
    config[p] = "whole" /\ Begin("down", p) /\ UNCHANGED <<occupied, report>>

UpRest ==
    /\ Does("up_rest", "idle") /\ Startable
    /\ up' = [up EXCEPT ![on] = @ \cup {"openvox", "agent"}]
    /\ UNCHANGED <<procVars, volVars, shown>>

Stop ==
    /\ Does("stop", "idle")
    /\ up' = [up EXCEPT ![on] = {}]
    /\ UNCHANGED <<procVars, volVars, shown>>

\* Mutant of Down: without --volumes the containers go and the volumes stay.
DownKeepsVolumes ==
    /\ pc = "down" /\ pc' = IF on = "restore" THEN "remove_tree" ELSE "idle"
    /\ up' = [up EXCEPT ![on] = {}]
    /\ UNCHANGED <<procVars, volVars, config, occupied, shown, report, countVars>>

Down ==
    /\ pc = "down" /\ pc' = IF on = "restore" THEN "remove_tree" ELSE "idle"
    /\ up' = [up EXCEPT ![on] = {}]
    /\ data' = [data EXCEPT ![on] = EmptyProject]
    /\ occupied' = (occupied /\ on # "restore")
    /\ UNCHANGED <<procVars, config, shown, made, report, countVars>>

RemoveTree ==
    /\ pc = "remove_tree" /\ pc' = "idle"
    /\ config' = [config EXCEPT !["restore"] = "none"]
    /\ UNCHANGED <<procVars, volVars, upVars, occupied, report, countVars>>

-------------------------------------------------------------------------------
(* What goes wrong. *)

\* The steps of run; a command of the operator's leaves its results.json alone.
Managing == {"up_vault", "up_rest", "stop", "down", "remove_tree"}

RootChecks == {"restored_root", "compare_root"}

GivesUp ==
    /\ pc' = IF pc \in RootChecks THEN "give_up" ELSE "idle"
    /\ report' = IF pc \in Managing \cup RootChecks THEN report ELSE "failed"
    /\ key' = FALSE

\* The autosigner that cannot ask Vault leaves the agent's request unsigned for good.
Unsigned ==
    IF Box("agent").cert # "none" THEN data
    ELSE [data EXCEPT ![on]["agent"] = [Box("agent") EXCEPT !.cert = "asked"]]

\* A check or a guard of the program that its own state makes fail.
Refused ==
    \/ \E s \in Starts : StartRefused(s)
    \/ pc = "startup" /\ ~Tagged
    \/ pc = "prepare" /\ Box("openvox").request = "key"
    \/ pc = "import" /\ (Box("openvox").ca # 0 \/ Box("openvox").request = "private")
    \/ pc \in {"deploy", "restored_up", "up_rest"} /\ ~Startable
    \/ pc = "read" /\ Box("root").ca = 0
    \/ pc \in {"enroll", "enroll_again"} /\ ~Converges
        /\ ~(Served /\ Box("agent").cert = "none" /\ Box("vault").kv = 1)
    \/ pc \in {"update", "reset", "renew"} /\ ~Converges
    \/ pc = "verify" /\ ~(Converges /\ Verified)
    \/ pc = "recover" /\ RecoverRefused
    \/ pc = "compare_root" /\ Box("root").ca # data["source"]["root"].ca
    \/ pc = "pass" /\ ~(Converges /\ Verified /\ Box("openvox").ca = data["source"]["openvox"].ca)

Refuse ==
    /\ Refused /\ GivesUp
    /\ data' = IF pc \in {"enroll", "enroll_again"} THEN Unsigned ELSE data
    /\ UNCHANGED <<on, n, archive, config, occupied, upVars, made, countVars>>

Fault == faults < MaxFaults /\ faults' = faults + 1 /\ UNCHANGED commands

\* What the step that was cut short leaves behind.
LeavesHalf ==
    /\ config' \in
        CASE pc = "stage" /\ config["source"] # "whole" ->
                {[config EXCEPT !["source"] = c] : c \in {"half", "whole"}}
          [] pc = "extract" -> {[config EXCEPT !["restore"] = c] : c \in {"none", "half", "whole"}}
          [] pc = "remove_tree" -> {[config EXCEPT !["restore"] = c] : c \in {"half", "whole"}}
          [] OTHER -> {config}
    /\ data' \in
        CASE pc \in {"enroll", "enroll_again"} -> {data, Unsigned}
          [] pc = "down" -> {[data EXCEPT ![on] = [v \in Services |-> IF v \in gone THEN Empty ELSE @[v]]]
                                : gone \in SUBSET Services}
          [] OTHER -> {data}
    /\ up' = IF pc = "down" THEN [up EXCEPT ![on] = {}] ELSE up

\* A command in a container or an API call fails, and Python's own clean-up still runs.
Fails ==
    /\ pc # "idle" /\ Fault /\ LeavesHalf /\ GivesUp
    /\ UNCHANGED <<on, n, archive, occupied, shown, made>>

Killed ==
    /\ pc # "idle" /\ Fault /\ LeavesHalf
    /\ pc' = "idle" /\ key' = FALSE
    /\ UNCHANGED <<on, n, archive, occupied, report, shown, made>>

\* No container restarts by itself, and /tmp with the staged trees may be cleared.
Reboot ==
    /\ pc = "idle" /\ Fault
    /\ up' = [p \in Projects |-> {}]
    /\ config' \in {config, [p \in Projects |-> "none"]}
    /\ UNCHANGED <<pc, procVars, volVars, occupied, shown, report>>

-------------------------------------------------------------------------------
IdentityStep == MakeIdentity("root", "root_pair") \/ MakeIdentity("vault", "vault_pair")

InitializeStep ==
    \/ IdentityStep \/ Stage \/ StartupCheck \/ RootMount \/ Generate \/ ReadRoot \/ Prepare \/ LookForCa
    \/ Import \/ ImportRest \/ Chain
    \/ VaultMount \/ Intermediate \/ Transport \/ Reload \/ StopRoot \/ ConfigureAccess

WorkStep ==
    \/ DeployAndStart \/ Enroll("enroll", "update") \/ UpdateHiera
    \/ Renew \/ Revoke \/ Replace \/ Enroll("enroll_again", "stop_vault")
    \/ StopVault \/ Verify

RecoverStep ==
    \/ StopSource \/ Archive \/ Extract \/ CreateVolume \/ FillVolume
    \/ CompareRoot \/ StopRestoredRoot \/ RestoredUp \/ Pass

ManageStep == UpRest \/ Stop \/ Down \/ RemoveTree

StartStep(s) == InitVault(s) \/ SaveRecovery(s) \/ Unseal(s)

Step ==
    \/ \E s \in Starts : StartStep(s)
    \/ InitializeStep \/ WorkStep \/ RecoverStep \/ ManageStep \/ Refuse

\* What no later run over the same volumes gets past: a Vault with part of its identity, or
\* whose recovery key was never saved; a key without its request, or a listener's without the
\* public one; an import that was begun and not finished, or whose listener has no chain; a
\* mount whose authority was never made; a Vault whose pair was never finished or loaded;
\* authorities of two hierarchies, after half a destroy; an agent whose certificate is revoked
\* or whose request is not signed.
Wedged ==
    LET d == data["source"] IN
    \/ \E v \in Vaults : d[v].state \in {"part", "init"}
    \/ d["openvox"].request \in {"key", "private"}
    \/ d["root"].mounted /\ d["root"].ca = 0
    \/ d["vault"].mounted /\ d["vault"].leaf # "issued"
    \/ "vault" \in up["source"] /\ shown["source"] # d["vault"].leaf
    \/ \E v \in {"vault", "openvox"} : d[v].ca # 0 /\ d[v].issuer # d["root"].ca
    \/ d["openvox"].ca # 0 /\ d["openvox"].server # "chain"
    \/ d["agent"].cert \in {"asked", "revoked"}
    \/ d["agent"].cert = "good" /\ d["agent"].issuer # d["openvox"].ca

\* What the operator does until a run has passed: away with a restore project of an earlier
\* run, away with volumes no run gets past, and run again.
Retry ==
    /\ report # "passed"
    /\ \/ RecoverRefused /\ BeginDestroy("restore")
       \/ ~RecoverRefused /\ Wedged /\ BeginDestroy("source")
       \/ ~RecoverRefused /\ (~Wedged \/ config["source"] # "whole") /\ BeginRun
    /\ UNCHANGED commands

\* Any other command, at any time.
Command ==
    /\ commands < MaxCommands /\ commands' = commands + 1
    /\ \/ BeginRun
       \/ \E p \in Projects : BeginUp(p) \/ BeginStop(p) \/ BeginDestroy(p)

Next == Step \/ Retry \/ Command \/ Fails \/ Killed \/ Reboot

Spec == Init /\ [][Next]_vars

\* Commands go on, and the operator goes on retrying.
FairSpec == Spec /\ WF_vars(Step) /\ WF_vars(Retry)

-------------------------------------------------------------------------------
Steps == {
    "idle", "stage", "startup", "root", "root_pair", "root_mount", "generate", "read", "prepare",
    "request", "listener", "public", "look", "import", "import_key", "import_leaf", "chain", "vault", "vault_pair",
    "vault_mount", "intermediate", "transport", "pair", "reload", "restart", "offline",
    "access", "deploy", "enroll", "update", "reset", "renew", "revoke", "replace",
    "enroll_again", "stop_vault", "vault_again", "verify", "recover", "archive", "extract",
    "create", "fill", "restored_root", "compare_root", "stop_restored_root", "give_up",
    "restored_vault", "restored_up", "pass"} \cup Managing

\* The values of the variables, and the project each kind of step works on.
TypeOK ==
    /\ pc \in Steps /\ on \in Projects /\ key \in BOOLEAN /\ n \in 1..Len(Volumes)
    /\ archive \in [Services -> Boxes]
    /\ config \in [Projects -> {"none", "half", "whole"}]
    /\ data \in [Projects -> [Services -> Boxes]]
    /\ occupied \in BOOLEAN
    /\ up \in [Projects -> SUBSET Services]
    /\ shown \in [Projects -> {"none", "self", "part", "issued"}]
    /\ made \in Nat /\ report \in {"none", "passed", "failed"}
    /\ faults \in 0..MaxFaults /\ commands \in 0..MaxCommands

Authorities == {"root", "vault", "openvox"}

\* However runs, restores and commands are cut short and repeated, an authority in a volume is
\* never replaced: one is made only where the source project has none, the restore project
\* gets the source's, and only the destroy of its own project removes one ("missing
\* identities or storage fail instead of generating a replacement authority",
\* docs/openvox-rehearsal.md:27-28).
AuthorityStays ==
    [][\A p \in Projects, v \in Authorities :
        data'[p][v].ca # data[p][v].ca =>
            \/ pc = "down" /\ on = p /\ data'[p][v].ca = 0
            \/ p = "source" /\ data[p][v].ca = 0
            \/ p = "restore" /\ data[p][v].ca = 0 /\ data'[p][v].ca = data["source"][v].ca]_vars

\* The restored tree cannot be removed, for its compose.yaml is missing, and no run replaces it
\* or the volumes beside it (openvox-rehearsal.py:1057-1066, openvox_rehearsal_recovery.py:190).
Stuck ==
    \/ config["restore"] = "half"
    \/ config["restore"] = "none" /\ occupied

\* With the image under both tags, an operator who destroys what no run gets past, and runs
\* again, gets to a run that passes, wherever commands were cut short, unless the restored tree
\* is lost beside what it describes.
RehearsalEnds == []<>(pc = "idle" /\ (report = "passed" \/ Stuck))
===============================================================================
