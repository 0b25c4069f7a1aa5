--------------------------- MODULE AtlasMaintenance ---------------------------
(***************************************************************************)
(* What works on a running Atlas under its maintenance lock: the weekly    *)
(* Vault backup (docker/vault/scripts/backup.sh), the application of       *)
(* renewed certificates from Puppet's catalog                              *)
(* (proxmox/atlas-apply-certificates.py), the deployment of the containers *)
(* and the enrollment of Atlas itself (proxmox/atlas-enroll.py), which     *)
(* runs Puppet while it holds the lock; beside them the unsealer           *)
(* (docker/vault/scripts/unseal.sh), which takes no lock and trusts only   *)
(* the TLS key that is pinned in a file.                                   *)
(*                                                                         *)
(* A pair of certificate and key is a number, counted up at each renewal.  *)
(***************************************************************************)
EXTENDS Naturals, FiniteSets

CONSTANTS
    MaxRenewals,   \* how many pairs are renewed
    MaxFaults,     \* how many commands fail, runs are killed, and reboots happen
    MaxDeploys     \* how many deployments recreate Vault

ASSUME BoundsAssumption ==
    MaxRenewals \in Nat /\ MaxFaults \in Nat /\ MaxDeploys \in Nat

VARIABLES
    lock,      \* who holds the maintenance lock
    pem,       \* per service the chain and the key on disk
    due,       \* OpenVox's leaf is within its renewal window
    store,     \* what FreeIPA imported for its two listeners
    served,    \* the leaf each listener shows, None when it does not answer
    pin,       \* the pair whose public key the unsealer trusts
    sealed,    \* a running Vault is sealed
    started,   \* Docker keeps the container running
    bpc,       \* what the backup does next
    stopped,   \* its VAULT_STOPPED
    archive,   \* the archive of the last backup
    apc,       \* what Puppet's run does next
    svc,       \* the service its catalog is at
    failed,    \* a resource of it failed
    orphan,    \* the enrollment that started it gave up on it
    epc,       \* what enrollment does next
    token,     \* its single-use token
    pending,   \* the CA keeps a request of Atlas that it did not sign
    enrolled,  \* Atlas has its Puppet certificate
    done,      \* an enrollment reported success
    renewals, faults, deploys, kills

puppetVars == <<apc, svc, failed, orphan>>
backupVars == <<bpc, stopped, archive>>
enrollVars == <<epc, token, pending, enrolled, done>>
tlsVars == <<pem, due, store, served, pin, sealed, started>>
countVars == <<renewals, faults, deploys, kills>>

vars == <<lock, tlsVars, backupVars, puppetVars, enrollVars, countVars>>

None == 0

Services == {"openvox", "vault", "ipa"}

\* Mutant of Ports: only FreeIPA's web listener is compared.
FirstPort(s) ==
    CASE s = "vault" -> {"vault"}
      [] s = "openvox" -> {"openvox"}
      [] s = "ipa" -> {"https"}

Ports(s) ==
    CASE s = "vault" -> {"vault"}
      [] s = "openvox" -> {"openvox"}
      [] s = "ipa" -> {"https", "ldaps"}

Listeners == {"vault", "openvox", "https", "ldaps"}

Init ==
    /\ lock = "none"
    /\ pem = [s \in Services |-> [chain |-> 1, key |-> 1]] /\ due = FALSE
    /\ store = [p \in {"https", "ldaps"} |-> 1]
    /\ served = [p \in Listeners |-> 1] /\ pin = 1 /\ sealed = FALSE
    /\ started = [c \in {"vault", "unsealer"} |-> TRUE]
    /\ bpc = "idle" /\ stopped = FALSE /\ archive = "none"
    /\ apc = "idle" /\ svc = "openvox" /\ failed = FALSE /\ orphan = FALSE
    /\ epc = "idle" /\ token = "none" /\ pending = FALSE /\ enrolled = FALSE /\ done = FALSE
    /\ renewals = 0 /\ faults = 0 /\ deploys = 0 /\ kills = 0

Serving == served["vault"] # None /\ ~sealed

Whole(s) == pem[s].chain = pem[s].key

\* What the listener shows, or will show once it is up.
VaultPair == IF served["vault"] # None THEN served["vault"] ELSE pem["vault"].chain

\* The containers alone will get Vault unsealed.
Recovering ==
    /\ started["vault"] /\ started["unsealer"] /\ pin = VaultPair
    /\ served["vault"] # None \/ Whole("vault")

Fault == faults < MaxFaults /\ faults' = faults + 1 /\ UNCHANGED <<renewals, deploys, kills>>

Take(who) == lock = "none" /\ lock' = who

Release == lock' = "none"

-------------------------------------------------------------------------------
(* The containers. *)

\* Vault needs a certificate and its own key to start, and comes up sealed.
VaultBoots ==
    /\ started["vault"] /\ served["vault"] = None /\ Whole("vault")
    /\ served' = [served EXCEPT !["vault"] = pem["vault"].chain]
    /\ sealed' = TRUE
    /\ UNCHANGED <<lock, pem, due, store, pin, started, backupVars, puppetVars, enrollVars, countVars>>

\* One round of the loop that changes something: a Vault with another key is "unreachable".
Unseal ==
    /\ started["unsealer"] /\ served["vault"] # None /\ sealed /\ pin = served["vault"]
    /\ sealed' = FALSE
    /\ UNCHANGED <<lock, pem, due, store, served, pin, started, backupVars, puppetVars, enrollVars, countVars>>

Down == served' = [served EXCEPT !["vault"] = None] /\ sealed' = TRUE

\* All containers are started anew: what they show then is what they loaded.
Anew ==
    /\ served' = [p \in Listeners |->
                    CASE p = "vault" -> None [] p = "openvox" -> pem["openvox"].chain [] OTHER -> store[p]]
    /\ sealed' = TRUE

-------------------------------------------------------------------------------
(* The backup. *)

\* Mutant of BackupBegin: the lock is not taken.
BackupBeginUnlocked ==
    /\ bpc = "idle"
    /\ bpc' = "stop" /\ stopped' = FALSE /\ archive' = "none"
    /\ UNCHANGED <<lock, tlsVars, puppetVars, enrollVars, countVars>>

\* The lock is waited for five minutes; a run that gives up has done nothing.
BackupBegin ==
    /\ bpc = "idle" /\ Take("backup")
    /\ bpc' = "stop" /\ stopped' = FALSE /\ archive' = "none"
    /\ UNCHANGED <<tlsVars, puppetVars, enrollVars, countVars>>

\* Mutant of BackupStop: VAULT_STOPPED is set once the containers are stopped.
BackupStopFirst ==
    \/ /\ bpc = "stop" /\ bpc' = "stop vault"
       /\ started' = [started EXCEPT !["unsealer"] = FALSE]
       /\ UNCHANGED <<lock, pem, due, store, served, pin, sealed, stopped, archive, puppetVars, enrollVars, countVars>>
    \/ /\ bpc = "stop vault" /\ bpc' = "tar" /\ stopped' = TRUE
       /\ started' = [started EXCEPT !["vault"] = FALSE] /\ Down
       /\ UNCHANGED <<lock, pem, due, store, pin, archive, puppetVars, enrollVars, countVars>>
    \/ /\ bpc \in {"stop", "stop vault"} /\ bpc' = "trap" /\ Fault
       /\ UNCHANGED <<lock, tlsVars, stopped, archive, puppetVars, enrollVars>>

\* VAULT_STOPPED is set before the unsealer and then Vault are stopped.
BackupStop ==
    \/ /\ bpc = "stop" /\ bpc' = "stop vault" /\ stopped' = TRUE
       /\ started' = [started EXCEPT !["unsealer"] = FALSE]
       /\ UNCHANGED <<lock, pem, due, store, served, pin, sealed, archive, puppetVars, enrollVars, countVars>>
    \/ /\ bpc = "stop vault" /\ bpc' = "tar"
       /\ started' = [started EXCEPT !["vault"] = FALSE] /\ Down
       /\ UNCHANGED <<lock, pem, due, store, pin, stopped, archive, puppetVars, enrollVars, countVars>>
    \/ /\ bpc \in {"stop", "stop vault"} /\ bpc' = "trap" /\ stopped' = TRUE /\ Fault
       /\ UNCHANGED <<lock, tlsVars, archive, puppetVars, enrollVars>>

BackupTar ==
    \/ /\ bpc = "tar" /\ bpc' = "tar end" /\ archive' = "partial"
       /\ UNCHANGED <<lock, tlsVars, stopped, puppetVars, enrollVars, countVars>>
    \/ /\ bpc = "tar end" /\ bpc' = "start" /\ archive' = "whole"
       /\ UNCHANGED <<lock, tlsVars, stopped, puppetVars, enrollVars, countVars>>
    \/ /\ bpc \in {"tar", "tar end"} /\ bpc' = "trap" /\ Fault
       /\ UNCHANGED <<lock, tlsVars, stopped, archive, puppetVars, enrollVars>>

\* Mutant of StartBoth: the unsealer is forgotten.
StartVault == started' = [started EXCEPT !["vault"] = TRUE]

StartBoth == started' = [c \in DOMAIN started |-> TRUE]

BackupStart ==
    \/ /\ bpc = "start" /\ bpc' = "health" /\ StartBoth /\ stopped' = FALSE
       /\ UNCHANGED <<lock, pem, due, store, served, pin, sealed, archive, puppetVars, enrollVars, countVars>>
    \/ /\ bpc = "start" /\ bpc' = "trap" /\ Fault
       /\ UNCHANGED <<lock, tlsVars, stopped, archive, puppetVars, enrollVars>>

\* Ninety looks, two seconds apart: more than the unsealer needs when it can.
BackupHealth ==
    /\ bpc = "health" /\ (Serving \/ ~Recovering)
    /\ bpc' = IF Serving THEN "idle" ELSE "trap"
    /\ IF Serving THEN Release ELSE UNCHANGED lock
    /\ UNCHANGED <<tlsVars, stopped, archive, puppetVars, enrollVars, countVars>>

\* The EXIT trap: start what was stopped, and remove an archive that is not complete.
BackupTrap ==
    /\ bpc = "trap" /\ bpc' = "idle" /\ Release
    /\ \/ /\ (stopped /\ StartBoth) \/ (~stopped /\ UNCHANGED started)
          /\ UNCHANGED countVars
       \/ stopped /\ UNCHANGED started /\ Fault
    /\ archive' = IF archive = "partial" THEN "none" ELSE archive
    /\ UNCHANGED <<pem, due, store, served, pin, sealed, stopped, puppetVars, enrollVars>>

-------------------------------------------------------------------------------
(* Puppet's run on Atlas: its certificates, then one resource per service. *)

\* The agent runs by itself once it is enrolled, and enrollment stops that service first.
PuppetBegin ==
    /\ apc = "idle" /\ enrolled /\ epc \notin {"catalog", "wait"}
    /\ apc' = "certs" /\ svc' = "openvox" /\ failed' = FALSE /\ orphan' = FALSE
    /\ UNCHANGED <<lock, tlsVars, backupVars, enrollVars, countVars>>

Renewing == renewals < MaxRenewals /\ renewals' = renewals + 1 /\ UNCHANGED <<faults, deploys, kills>>

\* The provider (an external module) takes a new pair from Vault and writes its two files in
\* some order, without the lock.
RenewHalf ==
    /\ apc = "certs" /\ Serving /\ Renewing
    /\ \E s \in {"vault", "ipa"}, half \in {"chain", "key"} :
        pem' = [pem EXCEPT ![s][half] = @ + 1]
    /\ apc' = "other half"
    /\ UNCHANGED <<lock, due, store, served, pin, sealed, started, backupVars, svc, failed, orphan, enrollVars>>

RenewOther ==
    /\ apc = "other half"
    /\ \E s \in {"vault", "ipa"} :
        /\ ~Whole(s)
        /\ LET n == IF pem[s].chain > pem[s].key THEN pem[s].chain ELSE pem[s].key
           IN  pem' = [pem EXCEPT ![s] = [chain |-> n, key |-> n]]
    /\ apc' = "guard"
    /\ UNCHANGED <<lock, due, store, served, pin, sealed, started, backupVars, svc, failed, orphan, enrollVars, countVars>>

NothingToRenew ==
    /\ apc = "certs" /\ apc' = "guard"
    /\ UNCHANGED <<lock, tlsVars, backupVars, svc, failed, orphan, enrollVars, countVars>>

\* Time brings OpenVox's own leaf into its last thirty days.
BecomesDue ==
    /\ ~due /\ Renewing /\ due' = TRUE
    /\ UNCHANGED <<lock, pem, store, served, pin, sealed, started, backupVars, puppetVars, enrollVars>>

\* check(): every listener shows the leaf on disk.
Fresh(s) == \A p \in Ports(s) : served[p] = pem[s].chain

\* What follows the resource of this service.
NextService ==
    /\ svc' = CASE svc = "openvox" -> "vault" [] svc = "vault" -> "ipa" [] svc = "ipa" -> "openvox"
    /\ apc' = IF svc = "ipa" THEN "idle" ELSE "guard"

\* "unless" runs check without the lock, for OpenVox with renewal_due.
Guard ==
    /\ apc = "guard"
    /\ IF Fresh(svc) /\ ~(svc = "openvox" /\ due) THEN NextService ELSE apc' = "lock" /\ UNCHANGED svc
    /\ UNCHANGED <<lock, tlsVars, backupVars, failed, orphan, enrollVars, countVars>>

\* Mutant of ApplyLock: an apply goes on without the lock.
ApplyUnlocked ==
    /\ apc = "lock" /\ apc' = "apply"
    /\ UNCHANGED <<lock, tlsVars, backupVars, svc, failed, orphan, enrollVars, countVars>>

ApplyLock ==
    /\ apc = "lock" /\ Take("apply")
    /\ apc' = "apply"
    /\ UNCHANGED <<tlsVars, backupVars, svc, failed, orphan, enrollVars, countVars>>

\* A command of apply fails: the program reports it, and the catalog goes on.
ApplyFails == failed' = TRUE /\ NextService /\ Release /\ UNCHANGED orphan

\* The pin is replaced first, then Vault is told to reload.
ApplyVault ==
    \/ /\ apc = "apply" /\ svc = "vault" /\ apc' = "reload"
       /\ pin' = pem["vault"].key
       /\ UNCHANGED <<lock, pem, due, store, served, sealed, started, backupVars, svc, failed, orphan, enrollVars, countVars>>
    \/ /\ apc = "reload" /\ served["vault"] # None /\ apc' = "poll"
       /\ served' = IF Whole("vault") THEN [served EXCEPT !["vault"] = pem["vault"].chain] ELSE served
       /\ UNCHANGED <<lock, pem, due, store, pin, sealed, started, backupVars, svc, failed, orphan, enrollVars, countVars>>
    \/ /\ apc = "reload" /\ served["vault"] = None /\ ApplyFails
       /\ UNCHANGED <<tlsVars, backupVars, enrollVars, countVars>>

\* The import goes into one store after the other and may fail in between; then both
\* services are restarted.
ApplyIpa ==
    \/ /\ apc = "apply" /\ svc = "ipa" /\ Whole("ipa") /\ apc' = "import"
       /\ store' = [store EXCEPT !["https"] = pem["ipa"].chain]
       /\ UNCHANGED <<lock, pem, due, served, pin, sealed, started, backupVars, svc, failed, orphan, enrollVars, countVars>>
    \/ /\ apc = "import" /\ apc' = "restart"
       /\ store' = [store EXCEPT !["ldaps"] = pem["ipa"].chain]
       /\ UNCHANGED <<lock, pem, due, served, pin, sealed, started, backupVars, svc, failed, orphan, enrollVars, countVars>>
    \/ /\ apc = "restart" /\ apc' = "poll"
       /\ served' = [p \in Listeners |-> IF p \in DOMAIN store THEN store[p] ELSE served[p]]
       /\ UNCHANGED <<lock, pem, due, store, pin, sealed, started, backupVars, svc, failed, orphan, enrollVars, countVars>>

\* renew_cert renews only a leaf that is due; the server is restarted only when it shows
\* another one.
ApplyOpenvox ==
    /\ apc = "apply" /\ svc = "openvox"
    /\ IF due
       THEN pem' = [pem EXCEPT !["openvox"] = [chain |-> @.chain + 1, key |-> @.key + 1]] /\ due' = FALSE
       ELSE UNCHANGED <<pem, due>>
    /\ apc' = "restart openvox"
    /\ UNCHANGED <<lock, store, served, pin, sealed, started, backupVars, svc, failed, orphan, enrollVars, countVars>>

RestartOpenvox ==
    /\ apc = "restart openvox" /\ apc' = "poll"
    /\ served' = [served EXCEPT !["openvox"] = pem["openvox"].chain]
    /\ UNCHANGED <<lock, pem, due, store, pin, sealed, started, backupVars, svc, failed, orphan, enrollVars, countVars>>

\* A command of an apply fails.
ApplyFault ==
    /\ apc \in {"apply", "reload", "import", "restart", "restart openvox"} /\ Fault
    /\ ApplyFails
    /\ UNCHANGED <<tlsVars, backupVars, enrollVars>>

\* The live leaf is compared until it is the one on disk, or the deadline has passed.
Poll ==
    /\ apc = "poll" /\ Release /\ NextService
    /\ failed' = (failed \/ ~Fresh(svc)) /\ UNCHANGED orphan
    /\ UNCHANGED <<tlsVars, backupVars, enrollVars, countVars>>

-------------------------------------------------------------------------------
(* Deployment, and what else happens to the host. *)

\* docker compose up under the lock starts what is stopped and recreates what changed.
Deploy ==
    /\ deploys < MaxDeploys /\ Take("deploy")
    /\ StartBoth /\ (Anew \/ UNCHANGED <<served, sealed>>)
    /\ deploys' = deploys + 1
    /\ UNCHANGED <<pem, due, store, pin, backupVars, puppetVars, enrollVars, renewals, faults, kills>>

\* --wait, with its timeout.
DeployEnd ==
    /\ lock = "deploy" /\ (Serving \/ ~Recovering)
    /\ Release
    /\ UNCHANGED <<tlsVars, backupVars, puppetVars, enrollVars, countVars>>

\* The host reboots: Docker starts what it kept running.  Not in the middle of the
\* provider's two writes.
Reboot ==
    /\ faults < MaxFaults /\ apc # "other half"
    /\ faults' = faults + 1 /\ kills' = kills + (IF bpc = "idle" THEN 0 ELSE 1)
    /\ Release /\ bpc' = "idle" /\ apc' = "idle" /\ epc' = "idle"
    /\ Anew
    /\ UNCHANGED <<pem, due, store, pin, started, stopped, archive, svc, failed, orphan, token,
                   pending, enrolled, done, renewals, deploys>>

\* The backup alone is killed, or stopped for good by a second signal.
KillBackup ==
    /\ bpc # "idle" /\ faults < MaxFaults
    /\ faults' = faults + 1 /\ kills' = kills + 1
    /\ bpc' = "idle" /\ Release
    /\ UNCHANGED <<tlsVars, stopped, archive, puppetVars, enrollVars, renewals, deploys>>

-------------------------------------------------------------------------------
(* Enrollment of Atlas. *)

EnrollBegin ==
    /\ epc = "idle" /\ ~done /\ Take("enroll")
    /\ epc' = "runtime"
    /\ UNCHANGED <<tlsVars, backupVars, puppetVars, token, pending, enrolled, done, countVars>>

Raise == epc' = "idle" /\ Release

\* The roles and policies of the agents, each a request to Vault; a present certificate
\* takes the way without a token.
EnrollRuntime ==
    /\ epc = "runtime"
    /\ \/ Serving /\ epc' = (IF enrolled THEN "catalog" ELSE "token") /\ UNCHANGED lock
       \/ ~Serving /\ Raise
    /\ UNCHANGED <<tlsVars, backupVars, puppetVars, token, pending, enrolled, done, countVars>>

EnrollToken ==
    /\ epc = "token"
    /\ \/ Serving /\ token' = "fresh" /\ epc' = "submit" /\ UNCHANGED lock
       \/ ~Serving /\ Raise /\ UNCHANGED token
    /\ UNCHANGED <<tlsVars, backupVars, puppetVars, pending, enrolled, done, countVars>>

\* Puppet sends a request with the token; the CA refuses it while it keeps another one, and
\* asks autosign, whose one lookup spends the token.
Submit ==
    \/ /\ epc = "submit" /\ pending /\ Raise
       /\ UNCHANGED <<tlsVars, backupVars, puppetVars, token, pending, enrolled, done, countVars>>
    \/ /\ epc = "submit" /\ ~pending /\ Serving /\ token = "fresh"
       /\ token' = "used" /\ epc' = "sign"
       /\ UNCHANGED <<lock, tlsVars, backupVars, puppetVars, pending, enrolled, done, countVars>>

\* The answer arrives and the CA signs, or one of them fails with the token spent, and the CA
\* keeps what autosign denied.
Sign ==
    \/ /\ epc = "sign" /\ epc' = "catalog" /\ enrolled' = TRUE
       /\ UNCHANGED <<lock, tlsVars, backupVars, puppetVars, token, pending, done, countVars>>
    \/ /\ epc = "sign" /\ Fault /\ pending' = TRUE /\ Raise
       /\ UNCHANGED <<tlsVars, backupVars, puppetVars, token, enrolled, done>>

\* The operator cleans the request, as the documentation says.
CleanRequest ==
    /\ pending /\ epc = "idle" /\ pending' = FALSE
    /\ UNCHANGED <<lock, tlsVars, backupVars, puppetVars, epc, token, enrolled, done, countVars>>

\* The agent's service is stopped, and Puppet runs as a child of enrollment; it gives up
\* (--waitforlock) when a run that lost its parent is still there.
Catalog ==
    /\ epc = "catalog" /\ apc # "other half"
    /\ IF orphan /\ apc # "idle"
       THEN Raise /\ UNCHANGED puppetVars
       ELSE epc' = "wait" /\ apc' = "certs" /\ svc' = "openvox" /\ failed' = FALSE
            /\ orphan' = FALSE /\ UNCHANGED lock
    /\ UNCHANGED <<tlsVars, backupVars, token, pending, enrolled, done, countVars>>

\* The child ended, and its exit status tells whether a resource failed.
EnrollEnd ==
    /\ epc = "wait" /\ apc = "idle"
    /\ Raise /\ done' = ~failed
    /\ UNCHANGED <<tlsVars, backupVars, puppetVars, token, pending, enrolled, countVars>>

\* Mutant of EnrollTimeout: the shell is waited for without an end.
EnrollWaits == FALSE

\* The catalog applies a certificate and waits for the lock enrollment holds.  run()'s
\* timeout is half an hour like the resource's, began earlier, and kills only the shell:
\* Puppet goes on without it.
EnrollTimeout ==
    /\ epc = "wait" /\ apc = "lock"
    /\ Raise /\ orphan' = TRUE
    /\ UNCHANGED <<tlsVars, backupVars, apc, svc, failed, token, pending, enrolled, done, countVars>>

-------------------------------------------------------------------------------
BackupStep == BackupStop \/ BackupTar \/ BackupStart \/ BackupHealth \/ BackupTrap

EnrollStep ==
    \/ EnrollRuntime \/ EnrollToken \/ Submit \/ Sign \/ Catalog \/ EnrollEnd

PuppetStep == RenewOther \/ NothingToRenew \/ Guard \/ ApplyVault \/ ApplyIpa \/ ApplyOpenvox \/ RestartOpenvox \/ Poll

Next ==
    \/ VaultBoots \/ Unseal
    \/ BackupBegin \/ BackupStep \/ KillBackup
    \/ PuppetBegin \/ RenewHalf \/ PuppetStep \/ ApplyLock \/ BecomesDue \/ ApplyFault
    \/ Deploy \/ DeployEnd \/ Reboot
    \/ EnrollBegin \/ EnrollStep \/ EnrollTimeout \/ CleanRequest

Spec == Init /\ [][Next]_vars

\* Programs and containers go on; Puppet runs every half hour and somebody repeats an
\* enrollment that failed.  Who waits for the lock gets it when it is released (flock wakes
\* the waiting process, and everybody else comes later), so that is strong fairness.
FairSpec ==
    /\ Spec
    /\ WF_vars(VaultBoots) /\ WF_vars(Unseal)
    /\ WF_vars(BackupStep) /\ WF_vars(DeployEnd)
    /\ WF_vars(PuppetBegin) /\ WF_vars(PuppetStep) /\ SF_vars(ApplyLock)
    /\ SF_vars(EnrollBegin) /\ WF_vars(EnrollStep) /\ WF_vars(EnrollTimeout)

-------------------------------------------------------------------------------
Pairs == [chain : Nat, key : Nat]

LockedApply == {"apply", "reload", "import", "restart", "restart openvox", "poll"}

TlsTypes ==
    /\ pem \in [Services -> Pairs] /\ due \in BOOLEAN
    /\ store \in [{"https", "ldaps"} -> Nat] /\ served \in [Listeners -> Nat]
    /\ pin \in Nat /\ sealed \in BOOLEAN
    /\ started \in [{"vault", "unsealer"} -> BOOLEAN]

BackupTypes ==
    /\ bpc \in {"idle", "stop", "stop vault", "tar", "tar end", "start", "health", "trap"}
    /\ stopped \in BOOLEAN /\ archive \in {"none", "partial", "whole"}

PuppetTypes ==
    /\ apc \in {"idle", "certs", "other half", "guard", "lock"} \cup LockedApply
    /\ svc \in Services /\ failed \in BOOLEAN /\ orphan \in BOOLEAN

EnrollTypes ==
    /\ epc \in {"idle", "runtime", "token", "submit", "sign", "catalog", "wait"}
    /\ token \in {"none", "fresh", "used"} /\ pending \in BOOLEAN
    /\ enrolled \in BOOLEAN /\ done \in BOOLEAN

CountTypes == renewals \in Nat /\ faults \in Nat /\ deploys \in Nat /\ kills \in Nat

\* Whoever is inside the lock is its holder.
LockIsHeld ==
    /\ lock \in {"none", "backup", "apply", "deploy", "enroll"}
    /\ lock = "backup" <=> bpc # "idle"
    /\ lock = "apply" <=> apc \in LockedApply
    /\ lock = "enroll" <=> epc # "idle"

\* Every variable keeps its type, and of the backup, an apply, a deployment and an
\* enrollment only the holder of the maintenance lock is at work.
TypeOK == TlsTypes /\ BackupTypes /\ PuppetTypes /\ EnrollTypes /\ CountTypes /\ LockIsHeld

\* Nothing starts Vault while its storage is read: an archive shows one moment of a stopped
\* Vault ("Stop Vault so its file storage stays consistent throughout the archive",
\* backup.sh:56), whatever deployments, renewals and enrollments want meanwhile.
ArchiveOfStoppedVault ==
    bpc \in {"tar", "tar end"} => ~started["vault"] /\ served["vault"] = None

\* A backup that nobody killed leaves no half archive, and leaves Vault and the unsealer
\* started although any one of its commands failed.
BackupEndsClean ==
    bpc = "idle" /\ kills = 0 =>
        /\ archive # "partial"
        /\ faults <= 1 => started["vault"] /\ started["unsealer"]

\* The listener shows the new pair before Puppet asked whether to publish its key: nobody
\* publishes it any more.
StalePin == served["vault"] # None /\ pin # served["vault"] /\ served["vault"] = pem["vault"].chain

\* A killed backup, or one of which the start failed twice, leaves containers stopped.
LeftStopped ==
    /\ ~(started["vault"] /\ started["unsealer"])
    /\ kills > 0 \/ faults > 1

\* Vault is unsealed again and again, through backups, deployments, renewals and reboots,
\* except behind a stale pin and after a killed backup.
UnsealedAgain == []<>(Serving \/ StalePin \/ LeftStopped)

\* On an enrolled Atlas every listener shows the pair on disk again and again, whatever
\* part of an apply failed ("A failed import or reload retries on the next Puppet run using
\* those same PEMs", docs/openvox-infra.md:121).
RenewedIsServed ==
    []<>(enrolled =>
            /\ served["https"] = pem["ipa"].chain /\ served["ldaps"] = pem["ipa"].chain
            /\ served["openvox"] = pem["openvox"].chain
            /\ served["vault"] = pem["vault"].chain \/ LeftStopped)

\* Enrollment of Atlas, repeated, ends although the catalog it runs may wait for the lock it
\* holds, unless the CA keeps a request nobody cleans or Vault does not come back.
EnrollConverges == []<>(done \/ pending \/ StalePin \/ LeftStopped)

\* "Any TLS key change publishes its public pin before switching the listener."
\* (docs/openvox-infra.md:232)
PinComesFirst ==
    [][served'["vault"] \notin {None, served["vault"]} => pin = served'["vault"]]_vars
===============================================================================
