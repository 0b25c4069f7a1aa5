--------------------------- MODULE AtlasAuthorities ---------------------------
(***************************************************************************)
(* Fresh initialization of the authorities on Atlas                        *)
(* (proxmox/atlas-infra.py initialize): Vault, its root certificate, the   *)
(* OpenVox CA, the services intermediate and Vault's own TLS identity.     *)
(* The program may be stopped after any step and is run again until it     *)
(* removes its checkpoint; what it did before is in the files it saved, in *)
(* Vault and in the Docker volumes, and any of these may be lost.          *)
(*                                                                         *)
(* One run at a time: runs hold the maintenance lock.  Every secret and    *)
(* certificate is a number, given in the order they are made; 0 is none.   *)
(***************************************************************************)
EXTENDS Naturals

CONSTANTS
    MaxStops,    \* bound on runs that fail or are killed, and on reboots
    MaxLosses    \* bound on losses of saved state

ASSUME BoundsAssumption == MaxStops \in Nat /\ MaxLosses \in Nat

Volumes == {"vault", "openvox"}

\* What Vault is configured to read when it starts.
Served == {"key", "chain", "ca"}

\* A TLS identity and the root its chain ends in; a self-made one has its own trust.
None == 0
NoTls == [n |-> None, root |-> None]
NoCert == [n |-> None, key |-> None, root |-> None]
NoIssuer == [id |-> None, cert |-> NoCert]
NoIdentity == [id |-> None, key |-> None]

VARIABLES
    file,      \* the files under docker/vault/secrets, and SYSTEM_CA
    owned,     \* which of Vault's own files Vault's user can read
    vols,      \* the Docker volumes that exist
    vault,     \* Vault's storage
    listener,  \* the TLS identity Vault serves with, NoTls when it does not run
    puppet,    \* OpenVox's volumes
    pc,        \* what the run does next, "idle" when there is none
    held,      \* an answer of Vault that is not saved yet
    last,      \* how many secrets and certificates were made
    done,      \* the checkpoint was removed: "Authorities initialized"
    stops,     \* how many runs were stopped
    losses     \* how often state was lost

vars == <<file, owned, vols, vault, listener, puppet, pc, held, last, done, stops, losses>>

NoFiles ==
    [checkpoint |-> FALSE, allocated |-> FALSE, boot |-> None, key |-> NoTls, chain |-> NoTls,
     ca |-> [root |-> None, boot |-> None], recovery |-> None, request |-> None,
     signed |-> NoCert, established |-> NoIdentity, system |-> None]

NoVault ==
    [init |-> None, root |-> None, rootKeys |-> FALSE, mounted |-> FALSE, keys |-> {},
     issuer |-> NoIssuer, login |-> None]

NoPuppet == [trust |-> None, chain |-> None, ca |-> "none", root |-> None]

Init ==
    /\ file = NoFiles /\ owned = {} /\ vols = {} /\ vault = NoVault
    /\ listener = NoTls /\ puppet = NoPuppet
    /\ pc = "idle" /\ held = None /\ last = 0
    /\ done = FALSE /\ stops = 0 /\ losses = 0

-------------------------------------------------------------------------------
At(l) == pc = l

Goto(l) == pc' = l

\* The run raises and ends.
Raise == Goto("idle") /\ UNCHANGED <<file, owned, vols, vault, listener, puppet, held, last, done, stops, losses>>

\* save(): atomic, and on disk when it returns.
Save(f, v) == file' = [file EXCEPT ![f] = v]

\* A file of Vault's is root's alone after save(), until it is given to Vault's user.
SaveServed(f, v) == Save(f, v) /\ owned' = owned \ {f}

Own(l, f, next) == At(l) /\ owned' = owned \cup {f} /\ Goto(next)

Store(f, v) == vault' = [vault EXCEPT ![f] = v]

New == last + 1

Made == last' = New

Boot == [n |-> file.boot, root |-> None]

\* ca.pem: the root, if any, before the trust of the temporary listener.
BootTrust == [root |-> None, boot |-> file.boot]

\* Vault starts only with a key and a certificate that belong together and that it can read.
Pair == IF file.key = file.chain /\ {"key", "chain"} \subseteq owned THEN file.key ELSE NoTls

\* Whether it starts when it cannot read ca.pem is its configuration's matter, and left open.
Started == IF "ca" \in owned THEN {Pair} ELSE {Pair, NoTls}

\* api(): Vault serves and ca.pem authenticates it.
Answers ==
    /\ listener # NoTls
    /\ IF listener.root = None THEN file.ca.boot = listener.n ELSE file.ca.root = listener.root

\* The same with the saved root token, which must be this Vault's.
Authorized == Answers /\ file.recovery = vault.init

Identity == [id |-> vault.issuer.id, key |-> vault.issuer.cert.key]

-------------------------------------------------------------------------------
(* Volumes and the temporary listener. *)

\* Initialization is for what is fresh or was interrupted: not for an installed authority,
\* not over volumes it did not make, not when one that it made is gone.
Begin ==
    /\ At("idle")
    /\ file.recovery # None => file.checkpoint
    /\ file.allocated => vols = Volumes
    /\ vols # {} => file.checkpoint
    /\ Save("checkpoint", TRUE)
    /\ Goto("volumes")
    /\ UNCHANGED <<owned, vols, vault, listener, puppet, held, last, done, stops, losses>>

\* Mutant of MakeVolumes: the list is taken for complete after its first volume.
MakeFirstVolume ==
    /\ At("volumes")
    /\ \/ /\ \E v \in Volumes \ vols : vols' = vols \cup {v}
          /\ UNCHANGED <<file, pc>>
       \/ /\ vols # {}
          /\ Save("allocated", TRUE)
          /\ Goto("transport")
          /\ UNCHANGED vols
    /\ UNCHANGED <<owned, vault, listener, puppet, held, last, done, stops, losses>>

\* volumes-created is saved when all of them are there.
MakeVolumes ==
    /\ At("volumes")
    /\ \/ /\ \E v \in Volumes \ vols : vols' = vols \cup {v}
          /\ UNCHANGED <<file, pc>>
       \/ /\ vols = Volumes
          /\ Save("allocated", TRUE)
          /\ Goto("transport")
          /\ UNCHANGED vols
    /\ UNCHANGED <<owned, vault, listener, puppet, held, last, done, stops, losses>>

\* The temporary identity is made beside its place and renamed into it.
MakeTransport ==
    /\ At("transport")
    /\ IF file.boot = None THEN Save("boot", New) /\ Made ELSE UNCHANGED <<file, last>>
    /\ Goto("key")
    /\ UNCHANGED <<owned, vols, vault, listener, puppet, held, done, stops, losses>>

\* install_transport: only what is missing is written, and only what was written changes hands.
InstallTransport ==
    /\ \/ At("key") /\ file.key = NoTls /\ SaveServed("key", Boot) /\ Goto("own key")
       \/ At("key") /\ file.key # NoTls /\ Goto("chain") /\ UNCHANGED <<file, owned>>
       \/ At("chain") /\ file.chain = NoTls /\ SaveServed("chain", Boot) /\ Goto("own chain")
       \/ At("chain") /\ file.chain # NoTls /\ Goto("ca") /\ UNCHANGED <<file, owned>>
       \/ At("ca") /\ file.ca = NoFiles.ca /\ SaveServed("ca", BootTrust) /\ Goto("own ca")
       \/ At("ca") /\ file.ca # NoFiles.ca /\ Goto("up") /\ UNCHANGED <<file, owned>>
    /\ UNCHANGED <<vols, vault, listener, puppet, held, last, done, stops, losses>>

\* os.chown to Vault's user, after each save().
Chown ==
    /\ \/ Own("own key", "key", "chain") \/ Own("own chain", "chain", "ca") \/ Own("own ca", "ca", "up")
       \/ Own("own root", "ca", "trust")
       \/ Own("own leaf", "key", "save chain") \/ Own("own leaf chain", "chain", "system")
       \/ Own("own final", "ca", "deploy")
    /\ UNCHANGED <<file, vols, vault, listener, puppet, held, last, done, stops, losses>>

\* compose up: a Vault that cannot start answers no health request.
StartVault ==
    /\ At("up")
    /\ \/ listener = NoTls /\ NoTls \in Started /\ Raise
       \/ /\ IF listener = NoTls THEN listener' \in Started \ {NoTls} ELSE UNCHANGED listener
          /\ Goto("init")
          /\ UNCHANGED <<file, owned, vols, vault, puppet, held, last, done, stops, losses>>

-------------------------------------------------------------------------------
(* Vault and its root. *)

InitVault ==
    /\ At("init")
    /\ \/ Answers /\ vault.init = None /\ file.recovery = None
          /\ Store("init", New) /\ Made /\ Goto("recovery")
          /\ UNCHANGED <<file, owned, vols, listener, puppet, held, done, stops, losses>>
       \/ Answers /\ vault.init # None /\ file.recovery # None
          /\ Goto("root")
          /\ UNCHANGED <<file, owned, vols, vault, listener, puppet, held, last, done, stops, losses>>
       \/ (Answers => (vault.init = None) # (file.recovery = None)) /\ Raise

SaveRecovery ==
    /\ At("recovery")
    /\ Save("recovery", vault.init)
    /\ Goto("root")
    /\ UNCHANGED <<owned, vols, vault, listener, puppet, held, last, done, stops, losses>>

\* Mutant of MayMakeRoot: ca.pem need only hold the temporary trust.
MayMakeRootBesides == file.ca.boot = file.boot /\ ~vault.rootKeys

\* A root is made only while ca.pem trusts nothing but the temporary listener and Vault holds
\* no key of an earlier one.
MayMakeRoot == file.ca = BootTrust /\ ~vault.rootKeys

MakeRoot ==
    /\ At("root")
    /\ \/ Authorized /\ vault.root # None /\ Goto("pin")
          /\ UNCHANGED <<file, owned, vols, vault, listener, puppet, held, last, done, stops, losses>>
       \/ Authorized /\ vault.root = None /\ MayMakeRoot /\ Goto("pin")
          /\ vault' = [vault EXCEPT !.root = New, !.rootKeys = TRUE] /\ Made
          /\ UNCHANGED <<file, owned, vols, listener, puppet, held, done, stops, losses>>
       \/ (Authorized => vault.root = None /\ ~MayMakeRoot) /\ Raise

\* The first certificate of ca.pem is the temporary one or this root.
PinnedRoot == (IF file.ca.root # None THEN file.ca.root ELSE file.ca.boot) \in {file.boot, vault.root}

PinRoot ==
    /\ At("pin")
    /\ \/ PinnedRoot /\ Goto("own root")
          /\ SaveServed("ca", [root |-> vault.root, boot |-> file.boot])
          /\ UNCHANGED <<vols, vault, listener, puppet, held, last, done, stops, losses>>
       \/ ~PinnedRoot /\ Raise

-------------------------------------------------------------------------------
(* The OpenVox CA. *)

PublishRoot ==
    /\ At("trust")
    /\ \/ Authorized /\ puppet' = [puppet EXCEPT !.trust = vault.root] /\ Goto("sign puppet")
          /\ UNCHANGED <<file, owned, vols, vault, listener, held, last, done, stops, losses>>
       \/ ~Authorized /\ Raise

\* Imported means that ca_crt.pem is there.
SignPuppet ==
    /\ At("sign puppet")
    /\ IF puppet.ca # "none"
       THEN Goto("services") /\ UNCHANGED puppet
       ELSE Goto("import") /\ puppet' = [puppet EXCEPT !.chain = vault.root]
    /\ UNCHANGED <<file, owned, vols, vault, listener, held, last, done, stops, losses>>

\* puppetserver ca import writes the certificate first and keys and server identity later.
ImportPuppet ==
    /\ At("import")
    /\ \/ /\ puppet.ca = "none"
          /\ puppet' = [puppet EXCEPT !.ca = "partial", !.root = puppet.chain]
          /\ UNCHANGED pc
       \/ /\ puppet.ca = "partial"
          /\ puppet' = [puppet EXCEPT !.ca = "complete"]
          /\ Goto("services")
    /\ UNCHANGED <<file, owned, vols, vault, listener, held, last, done, stops, losses>>

-------------------------------------------------------------------------------
(* The services intermediate. *)

Services == file.request # None \/ file.signed # NoCert \/ file.established # NoIdentity

MountServices ==
    /\ At("services")
    /\ \/ Authorized /\ (Services => vault.mounted) /\ Goto("request")
          /\ Store("mounted", TRUE)
          /\ UNCHANGED <<file, owned, vols, listener, puppet, held, last, done, stops, losses>>
       \/ (Authorized => Services /\ ~vault.mounted) /\ Raise

\* A key is made only when there is no trace of an earlier one.
MayRequest ==
    /\ vault.keys = {} /\ vault.issuer = NoIssuer
    /\ file.signed = NoCert /\ file.established = NoIdentity

\* Mutant of IssuerMissing: the check is left out.
IssuerNeverMissing == FALSE

\* An issuer once established is never made again.
IssuerMissing == file.established # NoIdentity /\ vault.issuer = NoIssuer

MakeRequest ==
    /\ At("request")
    /\ \/ ~IssuerMissing /\ file.request = None /\ MayRequest
          /\ Store("keys", {New}) /\ held' = New /\ Made /\ Goto("save request")
          /\ UNCHANGED <<file, owned, vols, listener, puppet, done, stops, losses>>
       \/ ~IssuerMissing /\ file.request # None /\ Goto("sign")
          /\ UNCHANGED <<file, owned, vols, vault, listener, puppet, held, last, done, stops, losses>>
       \/ (IssuerMissing \/ (file.request = None /\ ~MayRequest)) /\ Raise

SaveRequest ==
    /\ At("save request")
    /\ Save("request", held)
    /\ Goto("sign")
    /\ UNCHANGED <<owned, vols, vault, listener, puppet, held, last, done, stops, losses>>

Signable == vault.issuer = NoIssuer /\ file.established = NoIdentity

SignServices ==
    /\ At("sign")
    /\ \/ file.request \in vault.keys /\ file.signed = NoCert /\ Signable
          /\ held' = New /\ Made /\ Goto("save signed")
          /\ UNCHANGED <<file, owned, vols, vault, listener, puppet, done, stops, losses>>
       \/ file.request \in vault.keys /\ file.signed # NoCert /\ Goto("set signed")
          /\ UNCHANGED <<file, owned, vols, vault, listener, puppet, held, last, done, stops, losses>>
       \/ (file.request \in vault.keys => file.signed = NoCert /\ ~Signable) /\ Raise

SaveSigned ==
    /\ At("save signed")
    /\ Save("signed", [n |-> held, key |-> file.request, root |-> vault.root])
    /\ Goto("set signed")
    /\ UNCHANGED <<owned, vols, vault, listener, puppet, held, last, done, stops, losses>>

SetSigned ==
    /\ At("set signed")
    /\ IF vault.issuer = NoIssuer
       THEN Store("issuer", [id |-> New, cert |-> file.signed]) /\ Made
       ELSE UNCHANGED <<vault, last>>
    /\ Goto("establish")
    /\ UNCHANGED <<file, owned, vols, listener, puppet, held, done, stops, losses>>

\* Vault must hold the saved certificate, its key, and the identity once established.
Unchanged ==
    /\ vault.issuer.cert = file.signed /\ file.signed.key = file.request
    /\ file.established \in {NoIdentity, Identity}

Establish ==
    /\ At("establish")
    /\ \/ Unchanged /\ Save("established", Identity) /\ Goto("access")
          /\ UNCHANGED <<owned, vols, vault, listener, puppet, held, last, done, stops, losses>>
       \/ ~Unchanged /\ Raise

\* configure_access: logins are granted to certificates under OpenVox's chain.
Access ==
    /\ At("access")
    /\ \/ Authorized /\ Store("login", puppet.chain) /\ Goto("leaf")
          /\ UNCHANGED <<file, owned, vols, listener, puppet, held, last, done, stops, losses>>
       \/ ~Authorized /\ Raise

-------------------------------------------------------------------------------
(* Vault's own certificate, and the end. *)

\* Vault's leaf is issued while the temporary certificate is still in place.
IssueLeaf ==
    /\ At("leaf")
    /\ IF file.chain = Boot
       THEN held' = New /\ Made /\ Goto("save key")
       ELSE Goto("system") /\ UNCHANGED <<held, last>>
    /\ UNCHANGED <<file, owned, vols, vault, listener, puppet, done, stops, losses>>

Leaf == [n |-> held, root |-> vault.issuer.cert.root]

SaveLeaf ==
    /\ \/ At("save key") /\ SaveServed("key", Leaf) /\ Goto("own leaf")
       \/ At("save chain") /\ SaveServed("chain", Leaf) /\ Goto("own leaf chain")
    /\ UNCHANGED <<vols, vault, listener, puppet, held, last, done, stops, losses>>

\* Mutant of TrustSystem: the temporary trust is dropped too early.
TrustSystemOnly ==
    /\ At("system")
    /\ \/ /\ file.system \in {None, vault.root} /\ Goto("restart")
          /\ file' = [file EXCEPT !.system = vault.root, !.ca = [root |-> vault.root, boot |-> None]]
          /\ UNCHANGED <<owned, vols, vault, listener, puppet, held, last, done, stops, losses>>
       \/ file.system \notin {None, vault.root} /\ Raise

\* The host trusts one root and no other.
TrustSystem ==
    /\ At("system")
    /\ \/ file.system \in {None, vault.root} /\ Save("system", vault.root) /\ Goto("restart")
          /\ UNCHANGED <<owned, vols, vault, listener, puppet, held, last, done, stops, losses>>
       \/ file.system \notin {None, vault.root} /\ Raise

\* Mutant of RestartVault: compose up, which leaves a running Vault alone.
UpVault ==
    /\ At("restart")
    /\ listener' \in IF listener = NoTls THEN Started ELSE {listener}
    /\ Goto("final")
    /\ UNCHANGED <<file, owned, vols, vault, puppet, held, last, done, stops, losses>>

\* compose restart: Vault reads the key and the certificate again.
RestartVault ==
    /\ At("restart")
    /\ listener' \in Started
    /\ Goto("final")
    /\ UNCHANGED <<file, owned, vols, vault, puppet, held, last, done, stops, losses>>

\* health(), then the temporary trust is dropped.
SaveCa ==
    /\ At("final")
    /\ \/ Answers /\ SaveServed("ca", [root |-> vault.root, boot |-> None]) /\ Goto("own final")
          /\ UNCHANGED <<vols, vault, listener, puppet, held, last, done, stops, losses>>
       \/ ~Answers /\ Raise

\* deploy_initial, then the checkpoint goes.
Finish ==
    /\ At("deploy")
    /\ Save("checkpoint", FALSE)
    /\ done' = TRUE
    /\ Goto("idle")
    /\ UNCHANGED <<owned, vols, vault, listener, puppet, held, last, stops, losses>>

-------------------------------------------------------------------------------
(* What happens to the program and its state. *)

\* A command fails, its answer is lost, or the run is killed; with a reboot Vault stops too.
Stop ==
    /\ ~At("idle") /\ stops < MaxStops
    /\ stops' = stops + 1
    /\ Goto("idle")
    /\ listener' \in {listener, NoTls}
    /\ UNCHANGED <<file, owned, vols, vault, puppet, held, last, done, losses>>

\* Between runs a file, a volume or a part of Vault's storage is lost.
Lose ==
    /\ At("idle") /\ losses < MaxLosses
    /\ losses' = losses + 1
    /\ \/ /\ \E f \in DOMAIN file : SaveServed(f, NoFiles[f])
          /\ UNCHANGED <<vols, vault, listener, puppet>>
       \/ /\ "vault" \in vols
          /\ vols' = vols \ {"vault"} /\ vault' = NoVault /\ listener' = NoTls
          /\ UNCHANGED <<file, owned, puppet>>
       \/ /\ "openvox" \in vols
          /\ vols' = vols \ {"openvox"} /\ puppet' = NoPuppet
          /\ UNCHANGED <<file, owned, vault, listener>>
       \/ /\ \/ \E keys \in {FALSE, vault.rootKeys} :
                   vault' = [vault EXCEPT !.root = None, !.rootKeys = keys]
             \/ vault' = [vault EXCEPT !.mounted = FALSE, !.keys = {}, !.issuer = NoIssuer]
             \/ vault' = [vault EXCEPT !.issuer = NoIssuer]
             \/ vault' = [vault EXCEPT !.keys = {}]
          /\ UNCHANGED <<file, owned, vols, listener, puppet>>
    /\ UNCHANGED <<pc, held, last, done, stops>>

-------------------------------------------------------------------------------
Step ==
    \/ MakeVolumes \/ MakeTransport \/ InstallTransport \/ Chown \/ StartVault
    \/ InitVault \/ SaveRecovery \/ MakeRoot \/ PinRoot
    \/ PublishRoot \/ SignPuppet \/ ImportPuppet
    \/ MountServices \/ MakeRequest \/ SaveRequest \/ SignServices \/ SaveSigned
    \/ SetSigned \/ Establish \/ Access
    \/ IssueLeaf \/ SaveLeaf \/ TrustSystem \/ RestartVault \/ SaveCa \/ Finish

Next == Begin \/ Step \/ Stop \/ Lose

Spec == Init /\ [][Next]_vars

\* A run that is not stopped goes on, and somebody runs the program again.
FairSpec == Spec /\ WF_vars(Begin) /\ WF_vars(Step)

-------------------------------------------------------------------------------
Certs == [n : Nat, key : Nat, root : Nat]

Files ==
    [checkpoint : BOOLEAN, allocated : BOOLEAN, boot : Nat,
     key : [n : Nat, root : Nat], chain : [n : Nat, root : Nat],
     ca : [root : Nat, boot : Nat], recovery : Nat, request : Nat,
     signed : Certs, established : [id : Nat, key : Nat], system : Nat]

Vaults ==
    [init : Nat, root : Nat, rootKeys : BOOLEAN, mounted : BOOLEAN, keys : SUBSET Nat,
     issuer : [id : Nat, cert : Certs], login : Nat]

\* The steps before and after the root is pinned in ca.pem.
Early == {"transport", "key", "own key", "chain", "own chain", "ca", "own ca", "up", "init", "recovery", "root", "pin"}
Late == {"own root", "trust", "sign puppet", "import", "services", "request", "save request", "sign",
         "save signed", "set signed", "establish", "access", "leaf", "save key",
         "own leaf", "save chain", "own leaf chain", "system", "restart", "final", "own final",
         "deploy"}

\* Every variable keeps its type, and a run that makes secrets has all volumes and the
\* checkpoint that lets a later run go on.
TypeOK ==
    /\ file \in Files
    /\ owned \subseteq Served
    /\ vols \subseteq Volumes
    /\ vault \in Vaults
    /\ listener \in [n : Nat, root : Nat]
    /\ puppet \in [trust : Nat, chain : Nat, ca : {"none", "partial", "complete"}, root : Nat]
    /\ pc \in {"idle", "volumes"} \cup Early \cup Late
    /\ held \in Nat /\ last \in Nat /\ done \in BOOLEAN
    /\ stops \in 0..MaxStops /\ losses \in 0..MaxLosses
    /\ pc # "idle" => file.checkpoint
    /\ pc \in Early \cup Late => vols = Volumes /\ file.allocated

\* Every root that a file, a certificate, a login or a CA goes back to.
Roots ==
    {file.ca.root, file.system, file.key.root, file.chain.root, file.signed.root,
     vault.root, vault.issuer.cert.root, vault.login,
     puppet.trust, puppet.chain, puppet.root} \ {None}

\* However often runs are stopped, and if any one piece of state is lost, no second root comes
\* to exist beside one that something already relies on ("Established root issuer missing;
\* restore existing state", atlas-infra.py:373).
OneRoot == losses <= 1 => \A r, s \in Roots : r = s

\* However often runs are stopped and whatever is lost, a services issuer that Vault holds
\* beside a saved identity is the one whose identity was saved (atlas-infra.py:221-224, 279-283).
EstablishedIsServed ==
    file.established # NoIdentity /\ vault.issuer # NoIssuer => file.established = Identity

\* The run that removes the checkpoint leaves nothing half done by the runs before it: the
\* recovery keys are this Vault's, everything goes back to its root, Vault serves the saved
\* leaf and can read its files, the temporary trust is gone, and OpenVox has its certificate.
\* (Whether that import was complete is not looked at: its first file is enough, atlas-infra.py:409.)
FinishedIsComplete ==
    [][Finish /\ losses <= 1 =>
        /\ vols = Volumes
        /\ file.recovery = vault.init /\ vault.init # None
        /\ vault.root # None /\ Roots = {vault.root}
        /\ listener = file.key /\ file.key = file.chain /\ file.key.root = vault.root
        /\ file.ca = [root |-> vault.root, boot |-> None]
        /\ file.system = vault.root /\ owned = Served
        /\ vault.issuer # NoIssuer /\ file.established = Identity
        /\ puppet.ca # "none"]_vars

\* Vault does not run, and cannot start with what is on disk: its key and its certificate do
\* not belong together, or one of its files was never given to it.
Unservable ==
    /\ listener = NoTls
    /\ \/ file.key # NoTls /\ file.chain # NoTls /\ file.key # file.chain
       \/ \E f \in Served \ owned : file[f] # NoFiles[f]

\* The windows a stopped run cannot be resumed from: Vault was initialized and its keys not
\* saved (atlas-infra.py:356-359), the services key was made and its request not saved
\* (228-241), or Vault stopped while only one of its two TLS files was the new one (446-457)
\* or between a save and the change of owner after it, which no later run makes up for
\* (186-193, 456-457).
Wedged ==
    \/ vault.init # None /\ file.recovery = None
    \/ vault.keys # {} /\ file.request = None
    \/ Unservable

\* As long as nothing is lost and somebody runs the program again, initialization ends,
\* wherever it was stopped, or stays in one of those windows ("on this explicit, resumable
\* setup path", atlas-infra.py:288).
Resumes == [](losses = 0) => <>[](done \/ Wedged)
===============================================================================
