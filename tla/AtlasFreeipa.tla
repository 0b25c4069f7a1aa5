----------------------------- MODULE AtlasFreeipa -----------------------------
(***************************************************************************)
(* Fresh preparation of FreeIPA on an initialized Atlas                    *)
(* (proxmox/atlas-freeipa.py initialize), beside the authorities it relies *)
(* on: an intermediate under their root, the certificate HTTP and LDAP     *)
(* share, the passwords, and the options the server installs itself from   *)
(* when somebody starts it.                                                *)
(*                                                                         *)
(* The program takes the same maintenance lock as atlas-infra.py and, like *)
(* it, may be stopped after any step, and is run again.  Secrets and       *)
(* certificates are numbered apart from the authorities'.                  *)
(***************************************************************************)
EXTENDS AtlasAuthorities

VARIABLES
    inputs,    \* the files under docker/freeipa/secrets
    engine,    \* Vault's pki_freeipa mount
    data,      \* the volume infra_ipa_data
    ipc,       \* what the run does next, "idle" when there is none
    answer,    \* an answer of Vault that is not saved yet
    count,     \* how many secrets and certificates were made
    istops,    \* how many of these runs were stopped
    ilosses    \* how often their state was lost

ipaVars == <<inputs, engine, data, ipc, answer, count, istops, ilosses>>

NoLeaf == [n |-> None, issuer |-> None, root |-> None]

NoInputs ==
    [request |-> None, signed |-> NoCert, established |-> NoIdentity, chain |-> NoLeaf,
     key |-> NoLeaf, ca |-> None, installer |-> None, options |-> None]

NoEngine == [mounted |-> FALSE, keys |-> {}, issuer |-> NoIssuer]

NoData == [made |-> FALSE, installed |-> FALSE, password |-> None, leaf |-> NoLeaf]

IpaInit ==
    /\ Init
    /\ inputs = NoInputs /\ engine = NoEngine /\ data = NoData
    /\ ipc = "idle" /\ answer = None /\ count = 0
    /\ istops = 0 /\ ilosses = 0

IpaAt(l) == ipc = l

IpaGoto(l) == ipc' = l

IpaRaise == IpaGoto("idle") /\ UNCHANGED <<inputs, engine, data, answer, count, istops, ilosses>>

SaveInput(f, v) == inputs' = [inputs EXCEPT ![f] = v]

Another == count + 1

IpaIdentity == [id |-> engine.issuer.id, key |-> engine.issuer.cert.key]

-------------------------------------------------------------------------------
(* The volume, the root and the intermediate. *)

\* The documented order is atlas-infra.py first, to its end.
IpaBegin ==
    /\ done /\ At("idle") /\ IpaAt("idle")
    /\ IpaGoto("volume")
    /\ UNCHANGED <<inputs, engine, data, answer, count, istops, ilosses>>

\* Native state is never overwritten: the volume is made, and must be empty.
MakeData ==
    /\ IpaAt("volume")
    /\ data' = [data EXCEPT !.made = TRUE]
    /\ IF data.installed THEN IpaGoto("idle") ELSE IpaGoto("root")
    /\ UNCHANGED <<inputs, engine, answer, count, istops, ilosses>>

\* Vault's root is the single certificate of ca.pem.
CheckRoot ==
    /\ IpaAt("root")
    /\ \/ /\ Authorized /\ vault.root # None /\ file.ca = [root |-> vault.root, boot |-> None]
          /\ IpaGoto("mount")
          /\ UNCHANGED <<inputs, engine, data, answer, count, istops, ilosses>>
       \/ /\ ~(Authorized /\ vault.root # None /\ file.ca = [root |-> vault.root, boot |-> None])
          /\ IpaRaise

Traces == inputs.request # None \/ inputs.signed # NoCert \/ inputs.established # NoIdentity

MountIpa ==
    /\ IpaAt("mount")
    /\ \/ (Traces => engine.mounted)
          /\ engine' = [engine EXCEPT !.mounted = TRUE]
          /\ IpaGoto("request")
          /\ UNCHANGED <<inputs, data, answer, count, istops, ilosses>>
       \/ Traces /\ ~engine.mounted /\ IpaRaise

\* Mutant of IpaIssuerMissing: the check is left out.
IpaIssuerNeverMissing == FALSE

IpaIssuerMissing == inputs.established # NoIdentity /\ engine.issuer = NoIssuer

\* A key is made only when there is no trace of an earlier one.
MayRequestIpa ==
    /\ engine.keys = {} /\ engine.issuer = NoIssuer
    /\ inputs.signed = NoCert /\ inputs.established = NoIdentity

RequestIpa ==
    /\ IpaAt("request")
    /\ \/ ~IpaIssuerMissing /\ inputs.request = None /\ MayRequestIpa
          /\ engine' = [engine EXCEPT !.keys = {Another}]
          /\ answer' = Another /\ count' = Another /\ IpaGoto("save request")
          /\ UNCHANGED <<inputs, data, istops, ilosses>>
       \/ ~IpaIssuerMissing /\ inputs.request # None /\ IpaGoto("sign")
          /\ UNCHANGED <<inputs, engine, data, answer, count, istops, ilosses>>
       \/ (IpaIssuerMissing \/ (inputs.request = None /\ ~MayRequestIpa)) /\ IpaRaise

SaveIpaRequest ==
    /\ IpaAt("save request")
    /\ SaveInput("request", answer)
    /\ IpaGoto("sign")
    /\ UNCHANGED <<engine, data, answer, count, istops, ilosses>>

SignableIpa == engine.issuer = NoIssuer /\ inputs.established = NoIdentity

SignIpa ==
    /\ IpaAt("sign")
    /\ \/ inputs.request \in engine.keys /\ inputs.signed = NoCert /\ SignableIpa
          /\ answer' = Another /\ count' = Another /\ IpaGoto("save signed")
          /\ UNCHANGED <<inputs, engine, data, istops, ilosses>>
       \/ inputs.request \in engine.keys /\ inputs.signed # NoCert /\ IpaGoto("set signed")
          /\ UNCHANGED <<inputs, engine, data, answer, count, istops, ilosses>>
       \/ (inputs.request \in engine.keys => inputs.signed = NoCert /\ ~SignableIpa) /\ IpaRaise

SaveIpaSigned ==
    /\ IpaAt("save signed")
    /\ SaveInput("signed", [n |-> answer, key |-> inputs.request, root |-> vault.root])
    /\ IpaGoto("set signed")
    /\ UNCHANGED <<engine, data, answer, count, istops, ilosses>>

SetIpaSigned ==
    /\ IpaAt("set signed")
    /\ IF engine.issuer = NoIssuer
       THEN engine' = [engine EXCEPT !.issuer = [id |-> Another, cert |-> inputs.signed]]
            /\ count' = Another
       ELSE UNCHANGED <<engine, count>>
    /\ IpaGoto("establish")
    /\ UNCHANGED <<inputs, data, answer, istops, ilosses>>

\* Mutant of IpaUnchanged: an identity that was saved is refused.
IpaFirstTime ==
    /\ engine.issuer.cert = inputs.signed /\ inputs.signed.key = inputs.request
    /\ inputs.established = NoIdentity

IpaUnchanged ==
    /\ engine.issuer.cert = inputs.signed /\ inputs.signed.key = inputs.request
    /\ inputs.established \in {NoIdentity, IpaIdentity}

EstablishIpa ==
    /\ IpaAt("establish")
    /\ \/ IpaUnchanged /\ SaveInput("established", IpaIdentity) /\ IpaGoto("pair")
          /\ UNCHANGED <<engine, data, answer, count, istops, ilosses>>
       \/ ~IpaUnchanged /\ IpaRaise

-------------------------------------------------------------------------------
(* The certificate, the passwords and the options. *)

\* Mutant of IssuePair: only the chain is looked at.
IssueChain ==
    /\ IpaAt("pair")
    /\ IF inputs.chain = NoLeaf
       THEN answer' = Another /\ count' = Another /\ IpaGoto("save chain")
       ELSE IpaGoto("ca") /\ UNCHANGED <<answer, count>>
    /\ UNCHANGED <<inputs, engine, data, istops, ilosses>>

\* A pair of which one half is missing is refused.
IssuePair ==
    /\ IpaAt("pair")
    /\ \/ inputs.chain = NoLeaf /\ inputs.key = NoLeaf
          /\ answer' = Another /\ count' = Another /\ IpaGoto("save chain")
          /\ UNCHANGED <<inputs, engine, data, istops, ilosses>>
       \/ inputs.chain # NoLeaf /\ inputs.key # NoLeaf /\ IpaGoto("ca")
          /\ UNCHANGED <<inputs, engine, data, answer, count, istops, ilosses>>
       \/ (inputs.chain = NoLeaf) # (inputs.key = NoLeaf) /\ IpaRaise

IpaLeaf == [n |-> answer, issuer |-> engine.issuer.id, root |-> engine.issuer.cert.root]

SavePair ==
    /\ \/ IpaAt("save chain") /\ SaveInput("chain", IpaLeaf) /\ IpaGoto("save key")
       \/ IpaAt("save key") /\ SaveInput("key", IpaLeaf) /\ IpaGoto("ca")
    /\ UNCHANGED <<engine, data, answer, count, istops, ilosses>>

SaveIpaCa ==
    /\ IpaAt("ca")
    /\ SaveInput("ca", vault.root)
    /\ IpaGoto("passwords")
    /\ UNCHANGED <<engine, data, answer, count, istops, ilosses>>

\* Mutant of SavePasswords: every run makes passwords.
SaveNewPasswords ==
    /\ IpaAt("passwords")
    /\ SaveInput("installer", Another) /\ count' = Another
    /\ IpaGoto("options")
    /\ UNCHANGED <<engine, data, answer, istops, ilosses>>

\* Passwords are made or taken from the given file once.
SavePasswords ==
    /\ IpaAt("passwords")
    /\ IF inputs.installer = None
       THEN SaveInput("installer", Another) /\ count' = Another
       ELSE UNCHANGED <<inputs, count>>
    /\ IpaGoto("options")
    /\ UNCHANGED <<engine, data, answer, istops, ilosses>>

\* The options go with the passwords; then the files get their owner, and the run reports.
SaveOptions ==
    /\ IpaAt("options")
    /\ SaveInput("options", inputs.installer)
    /\ IpaGoto("idle")
    /\ UNCHANGED <<engine, data, answer, count, istops, ilosses>>

-------------------------------------------------------------------------------
(* What happens around the program. *)

\* Somebody starts the server with Compose, which insists on the options file; on an empty
\* volume it installs itself.
StartServer ==
    /\ inputs.options # None /\ ~data.installed
    /\ inputs.chain.n = inputs.key.n /\ inputs.chain # NoLeaf /\ inputs.ca # None
    /\ data' = [made |-> TRUE, installed |-> TRUE, password |-> inputs.options, leaf |-> inputs.chain]
    /\ UNCHANGED <<inputs, engine, ipc, answer, count, istops, ilosses>>

\* The run fails or is killed; after a reboot Docker starts Vault again.
IpaStop ==
    /\ ~IpaAt("idle") /\ stops + istops < MaxStops
    /\ istops' = istops + 1
    /\ IpaGoto("idle")
    /\ UNCHANGED <<inputs, engine, data, answer, count, ilosses>>

IpaLose ==
    /\ At("idle") /\ IpaAt("idle") /\ losses + ilosses < MaxLosses
    /\ ilosses' = ilosses + 1
    /\ \/ /\ \E f \in DOMAIN inputs : inputs' = [inputs EXCEPT ![f] = NoInputs[f]]
          /\ UNCHANGED <<engine, data>>
       \/ data' = NoData /\ UNCHANGED <<inputs, engine>>
       \/ /\ \/ engine' = NoEngine
             \/ engine' = [engine EXCEPT !.issuer = NoIssuer]
             \/ engine' = [engine EXCEPT !.keys = {}]
          /\ UNCHANGED <<inputs, data>>
    /\ UNCHANGED <<ipc, answer, count, istops>>

\* A Vault that lost its storage has lost this mount too.
LoseBelow ==
    /\ IpaAt("idle") /\ losses + ilosses < MaxLosses
    /\ Lose
    /\ engine' = IF vault' = NoVault THEN NoEngine ELSE engine
    /\ UNCHANGED <<inputs, data, ipc, answer, count, istops, ilosses>>

-------------------------------------------------------------------------------
IpaStep ==
    \/ MakeData \/ CheckRoot \/ MountIpa \/ RequestIpa \/ SaveIpaRequest \/ SignIpa
    \/ SaveIpaSigned \/ SetIpaSigned \/ EstablishIpa \/ IssuePair \/ SavePair
    \/ SaveIpaCa \/ SavePasswords \/ SaveOptions

Authorities == Begin \/ Step \/ Stop

\* The maintenance lock lets one of the two programs run.
IpaNext ==
    \/ Authorities /\ IpaAt("idle") /\ UNCHANGED ipaVars
    \/ (IpaBegin \/ IpaStep \/ IpaStop \/ StartServer \/ IpaLose) /\ UNCHANGED vars
    \/ LoseBelow

allVars == <<vars, ipaVars>>

IpaSpec == IpaInit /\ [][IpaNext]_allVars

\* Both programs go on when nobody stops them, and are run again; nobody has to start the server.
FairIpaSpec ==
    /\ IpaSpec
    /\ WF_allVars(Begin /\ IpaAt("idle") /\ UNCHANGED ipaVars)
    /\ WF_allVars(Step /\ IpaAt("idle") /\ UNCHANGED ipaVars)
    /\ WF_allVars(IpaBegin /\ UNCHANGED vars)
    /\ WF_allVars(IpaStep /\ UNCHANGED vars)

-------------------------------------------------------------------------------
IpaLeaves == [n : Nat, issuer : Nat, root : Nat]

Inputs ==
    [request : Nat, signed : Certs, established : [id : Nat, key : Nat], chain : IpaLeaves,
     key : IpaLeaves, ca : Nat, installer : Nat, options : Nat]

\* The steps after the intermediate is established.
Prepared == {"pair", "save chain", "save key", "ca", "passwords", "options"}

\* Every variable keeps its type; a run follows a finished initialization, and issues only
\* from the issuer whose identity it saved.
IpaTypeOK ==
    /\ inputs \in Inputs
    /\ engine \in [mounted : BOOLEAN, keys : SUBSET Nat, issuer : [id : Nat, cert : Certs]]
    /\ data \in [made : BOOLEAN, installed : BOOLEAN, password : Nat, leaf : IpaLeaves]
    /\ ipc \in {"idle", "volume", "root", "mount", "request", "save request", "sign",
                "save signed", "set signed", "establish"} \cup Prepared
    /\ answer \in Nat /\ count \in Nat /\ istops \in Nat /\ ilosses \in Nat
    /\ ipc # "idle" => done /\ pc = "idle"
    /\ ipc \in Prepared => inputs.established = IpaIdentity

Lost == losses + ilosses

IpaRoots ==
    {inputs.signed.root, inputs.chain.root, inputs.key.root, inputs.ca,
     engine.issuer.cert.root, data.leaf.root} \ {None}

\* After any one loss, FreeIPA's issuer is the one that was saved as established, what is
\* left of the certificate was issued by it, and everything goes back to the one root of the
\* authorities ("Resume issuance only with the original Vault-held intermediate key",
\* atlas-freeipa.py:47).
IpaTrust ==
    Lost <= 1 /\ engine.issuer # NoIssuer =>
        /\ inputs.established \in {NoIdentity, IpaIdentity}
        /\ \A leaf \in {inputs.chain, inputs.key, data.leaf} \ {NoLeaf} : leaf.issuer = engine.issuer.id
        /\ \A r, s \in IpaRoots \cup Roots : r = s

\* A run that reports has left a certificate with its own key, under the issuer in Vault, the
\* root beside it, and options that carry the saved passwords, whatever the runs before it
\* left half done and whichever one thing was lost.
PreparedIsComplete ==
    [][SaveOptions /\ Lost <= 1 =>
        /\ inputs.chain # NoLeaf /\ inputs.chain = inputs.key
        /\ inputs.chain.issuer = engine.issuer.id /\ inputs.established = IpaIdentity
        /\ inputs.ca = vault.root
        /\ inputs.installer # None /\ inputs'.options = inputs.installer]_allVars

\* As long as nothing is lost, the passwords and the certificate on disk stay those the server
\* was installed with, even when it was started under a later run: certificate renewal logs in
\* with them (atlas-apply-certificates.py:150).
InstalledFromInputs ==
    Lost = 0 /\ data.installed =>
        /\ data.password = inputs.installer /\ data.password = inputs.options
        /\ data.leaf = inputs.chain /\ data.leaf = inputs.key

\* The windows a stopped run cannot be resumed from: the key made and its request not saved
\* (atlas-freeipa.py:72), one half of the pair saved (191-194).
IpaWedged ==
    \/ engine.keys # {} /\ inputs.request = None
    \/ (inputs.chain = NoLeaf) # (inputs.key = NoLeaf)

\* As long as nothing is lost and somebody runs it again, preparation after a finished
\* initialization ends, wherever it was stopped, or stays in one of those two windows.
IpaResumes == [](Lost = 0) => <>[](done => inputs.options # None \/ IpaWedged)
===============================================================================
