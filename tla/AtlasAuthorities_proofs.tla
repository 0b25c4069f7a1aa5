------------------------ MODULE AtlasAuthorities_proofs -----------------------
(***************************************************************************)
(* Proofs about AtlasAuthorities, for any number of stops and losses: the  *)
(* types, that after any one loss there is one root, that the services     *)
(* issuer is the established one, and that a finished initialization is    *)
(* complete; then about AtlasFreeipa: that it leaves the authorities as    *)
(* they are, its types, what a server is installed from, that its trust is *)
(* the one root's, and that a finished preparation is complete.            *)
(***************************************************************************)
EXTENDS AtlasFreeipa, TLAPS

\* Every place that names a root names r or none.
AllGoBackTo(r) ==
    /\ file.ca.root \in {None, r} /\ file.system \in {None, r}
    /\ file.key.root \in {None, r} /\ file.chain.root \in {None, r}
    /\ file.signed.root \in {None, r}
    /\ vault.root \in {None, r} /\ vault.issuer.cert.root \in {None, r}
    /\ vault.login \in {None, r}
    /\ puppet.trust \in {None, r} /\ puppet.chain \in {None, r} /\ puppet.root \in {None, r}

\* Nothing but Vault and ca.pem goes back to a root.
Unused ==
    /\ file.system = None
    /\ file.key.root = None /\ file.chain.root = None /\ file.signed.root = None
    /\ vault.issuer.cert.root = None /\ vault.login = None
    /\ puppet.trust = None /\ puppet.chain = None /\ puppet.root = None

\* What relies on a root does so twice over: Vault holds it and ca.pem pins it.  One loss takes
\* one of the two, and a root is made only when both are missing.
RootOK ==
    /\ pc = "pin" => vault.root # None
    /\ pc \in Late => vault.root # None /\ file.ca.root = vault.root
    /\ losses = 0 => Unused \/ (vault.root # None /\ file.ca.root # None)
    /\ losses <= 1 => Unused \/ vault.root # None \/ file.ca.root # None
    /\ losses <= 1 => \E r \in Nat \ {None} : AllGoBackTo(r)

Inv == TypeOK /\ RootOK

-------------------------------------------------------------------------------
(* Types. *)

\* The constants of the model have their types.
LEMMA NonesTyped ==
    /\ None \in Nat /\ NoTls \in [n : Nat, root : Nat] /\ NoCert \in Certs
    /\ NoIssuer \in [id : Nat, cert : Certs] /\ NoIdentity \in [id : Nat, key : Nat]
    /\ NoFiles \in Files /\ NoVault \in Vaults
    /\ NoPuppet \in [trust : Nat, chain : Nat, ca : {"none", "partial", "complete"}, root : Nat]
BY DEF NoFiles, NoVault, NoPuppet, NoTls, NoCert, NoIssuer, NoIdentity, None, Files, Vaults, Certs

LEMMA InitTyped == Init => TypeOK
<1> SUFFICES ASSUME Init PROVE TypeOK
  OBVIOUS
<1>1. /\ file \in Files /\ vault \in Vaults /\ listener \in [n : Nat, root : Nat] /\ held \in Nat
      /\ puppet \in [trust : Nat, chain : Nat, ca : {"none", "partial", "complete"}, root : Nat]
  BY NonesTyped DEF Init
<1>2. stops \in 0..MaxStops /\ losses \in 0..MaxLosses
  BY BoundsAssumption DEF Init
<1> QED BY <1>1, <1>2 DEF Init, TypeOK, Volumes, Served, Early, Late

\* What a run makes of the state it finds has the types of the state.
LEMMA MadeTyped ==
    ASSUME TypeOK
    PROVE  /\ Boot \in [n : Nat, root : Nat] /\ BootTrust \in [root : Nat, boot : Nat]
           /\ Pair \in [n : Nat, root : Nat] /\ Started \subseteq [n : Nat, root : Nat] /\ New \in Nat
           /\ Identity \in [id : Nat, key : Nat] /\ Leaf \in [n : Nat, root : Nat]
<1>1. Boot \in [n : Nat, root : Nat] /\ BootTrust \in [root : Nat, boot : Nat]
  BY DEF Boot, BootTrust, TypeOK, Files, None
<1>2. Pair \in [n : Nat, root : Nat] /\ Started \subseteq [n : Nat, root : Nat]
  <2>1. Pair \in [n : Nat, root : Nat]
    BY NonesTyped DEF Pair, TypeOK, Files
  <2> QED BY <2>1, NonesTyped DEF Started
<1>3. Identity \in [id : Nat, key : Nat] /\ Leaf \in [n : Nat, root : Nat] /\ New \in Nat
  BY DEF Identity, Leaf, New, TypeOK, Vaults, Certs
<1> QED BY <1>1, <1>2, <1>3

LEMMA RaiseTyped == ASSUME TypeOK, Raise PROVE TypeOK'
BY DEF TypeOK, Raise, Goto, Early, Late

LEMMA BeginTyped == ASSUME TypeOK, Begin PROVE TypeOK'
BY DEF TypeOK, Begin, At, Goto, Save, Files, Early, Late

LEMMA VolumesTyped == ASSUME TypeOK, MakeVolumes PROVE TypeOK'
<1>1. pc = "volumes" /\ UNCHANGED <<owned, vault, listener, puppet, held, last, done, stops, losses>>
  BY DEF MakeVolumes, At
<1>2. CASE vols' # vols
  <2>1. vols' \subseteq Volumes /\ file' = file /\ pc' = pc
    BY <1>2 DEF MakeVolumes, TypeOK
  <2> QED BY <1>1, <2>1 DEF TypeOK, Early, Late
<1>3. CASE vols' = vols
  <2>1. vols = Volumes /\ file' = [file EXCEPT !.allocated = TRUE] /\ pc' = "transport"
    BY <1>3 DEF MakeVolumes, Save, Goto
  <2>2. file' \in Files /\ file'.checkpoint = file.checkpoint /\ file'.allocated
    BY <2>1 DEF TypeOK, Files
  <2> QED BY <1>1, <1>3, <2>1, <2>2 DEF TypeOK, Early, Late
<1> QED BY <1>2, <1>3

\* A step of a run that has its volumes, for the parts it may change.
LEMMA StepTyped ==
    ASSUME TypeOK, pc \in Early \cup Late, pc' \in Early \cup Late,
           UNCHANGED <<vols, done, stops, losses>>,
           owned' \subseteq Served, file' \in Files, file'.checkpoint = file.checkpoint, file'.allocated = file.allocated,
           vault' \in Vaults, listener' \in [n : Nat, root : Nat], held' \in Nat, last' \in Nat,
           puppet' \in [trust : Nat, chain : Nat, ca : {"none", "partial", "complete"}, root : Nat]
    PROVE  TypeOK'
BY DEF TypeOK, Early, Late

\* A file gets its owner on the way from its save to what comes next.
LEMMA ChownStays ==
    ASSUME Chown
    PROVE  /\ UNCHANGED <<file, vols, vault, listener, puppet, held, last, done, stops, losses>>
           /\ \/ /\ pc \in {"own key", "own chain", "own ca"}
                 /\ pc' \in {"chain", "ca", "up"}
              \/ pc = "own root" /\ pc' = "trust"
              \/ pc = "own leaf" /\ pc' = "save chain"
              \/ pc = "own leaf chain" /\ pc' = "system"
              \/ pc = "own final" /\ pc' = "deploy" /\ owned' = owned \cup {"ca"}
BY DEF Chown, Own, At, Goto

LEMMA TransportTyped ==
    ASSUME TypeOK, MakeTransport \/ InstallTransport \/ Chown \/ StartVault \/ RestartVault
    PROVE  TypeOK'
<1>1. CASE MakeTransport
  BY <1>1 DEF TypeOK, MakeTransport, At, Goto, Save, Made, New, Files, Early, Late
<1>2. CASE InstallTransport
  <2>1. file' \in Files /\ file'.checkpoint = file.checkpoint /\ file'.allocated = file.allocated
    <3>1. /\ file \in Files /\ Boot \in [n : Nat, root : Nat] /\ BootTrust \in [root : Nat, boot : Nat]
      BY MadeTyped DEF TypeOK
    <3>2. file' \in {file, [file EXCEPT !.key = Boot], [file EXCEPT !.chain = Boot], [file EXCEPT !.ca = BootTrust]}
      BY <1>2 DEF InstallTransport, SaveServed, Save
    <3> QED BY ONLY <3>1, <3>2 DEF Files
  <2>3. owned' \subseteq Served
    BY <1>2 DEF InstallTransport, SaveServed, TypeOK
  <2>2. /\ UNCHANGED <<vols, vault, listener, puppet, held, last, done, stops, losses>>
        /\ pc \in Early /\ pc' \in Early
    BY <1>2 DEF InstallTransport, At, Goto, Early
  <2> QED BY <2>1, <2>2, <2>3 DEF TypeOK, Early
<1>5. CASE Chown
  <2>1. UNCHANGED <<file, vols, vault, listener, puppet, held, last, done, stops, losses>>
    BY <1>5 DEF Chown
  <2>2. pc \in Early \cup Late /\ pc' \in Early \cup Late
    BY <1>5, ChownStays DEF Early, Late
  <2>3. owned' \subseteq Served
    BY <1>5 DEF Chown, Own, Served, TypeOK
  <2> QED BY <2>1, <2>2, <2>3, StepTyped DEF TypeOK
<1>3. CASE StartVault /\ ~Raise
  <2>1. listener' \in [n : Nat, root : Nat]
    BY <1>3, MadeTyped DEF StartVault, TypeOK
  <2> QED BY <1>3, <2>1 DEF TypeOK, StartVault, At, Goto, Early, Late
<1>4. CASE RestartVault
  BY <1>4, MadeTyped DEF TypeOK, RestartVault, At, Goto, Early, Late
<1> QED BY <1>1, <1>2, <1>3, <1>4, <1>5, RaiseTyped

LEMMA RootTyped ==
    ASSUME TypeOK, InitVault \/ SaveRecovery \/ MakeRoot \/ PinRoot, ~Raise
    PROVE  TypeOK'
<1>1. CASE InitVault
  <2>1. pc \in Early \cup Late /\ pc' \in Early \cup Late
    BY <1>1 DEF InitVault, At, Goto, Early, Late
  <2>2. UNCHANGED <<file, owned, vols, listener, puppet, done, stops, losses>>
    BY <1>1 DEF InitVault
  <2>3. held' \in Nat /\ last' \in Nat
    BY <1>1, MadeTyped DEF InitVault, Made, TypeOK
  <2>4. vault' \in Vaults
    BY <1>1, MadeTyped DEF InitVault, Store, TypeOK, Vaults
  <2> QED BY <2>1, <2>2, <2>3, <2>4, StepTyped DEF TypeOK
<1>2. CASE SaveRecovery
  BY <1>2 DEF TypeOK, SaveRecovery, At, Goto, Save, Files, Vaults, Early, Late
<1>3. CASE MakeRoot
  <2>1. pc \in Early \cup Late /\ pc' \in Early \cup Late
    BY <1>3 DEF MakeRoot, At, Goto, Early, Late
  <2>2. UNCHANGED <<file, owned, vols, listener, puppet, done, stops, losses>>
    BY <1>3 DEF MakeRoot
  <2>3. held' \in Nat /\ last' \in Nat
    BY <1>3, MadeTyped DEF MakeRoot, Made, TypeOK
  <2>4. vault' \in Vaults
    <3>1. vault \in Vaults /\ New \in Nat
      BY MadeTyped DEF TypeOK
    <3>2. vault' \in {vault, [vault EXCEPT !.root = New, !.rootKeys = TRUE]}
      BY <1>3 DEF MakeRoot
    <3> QED BY ONLY <3>1, <3>2 DEF Vaults
  <2> QED BY <2>1, <2>2, <2>3, <2>4, StepTyped DEF TypeOK
<1>4. CASE PinRoot
  <2>1. pc \in Early \cup Late /\ pc' \in Early \cup Late
    BY <1>4 DEF PinRoot, At, Goto, Early, Late
  <2>2. UNCHANGED <<vols, vault, listener, puppet, done, stops, losses>>
    BY <1>4 DEF PinRoot
  <2>3. held' \in Nat /\ last' \in Nat
    BY <1>4, MadeTyped DEF PinRoot, Made, TypeOK
  <2>4. file' \in Files /\ file'.checkpoint = file.checkpoint /\ file'.allocated = file.allocated
    <3>1. file \in Files /\ file.boot \in Nat /\ vault.root \in Nat
      BY DEF TypeOK, Files, Vaults
    <3>2. file' = [file EXCEPT !.ca = [root |-> vault.root, boot |-> file.boot]]
      BY <1>4 DEF PinRoot, SaveServed, Save
    <3> QED BY ONLY <3>1, <3>2 DEF Files
  <2>5. owned' \subseteq Served
    BY <1>4 DEF PinRoot, SaveServed, TypeOK
  <2> QED BY <2>1, <2>2, <2>3, <2>4, <2>5, StepTyped DEF TypeOK
<1> QED BY <1>1, <1>2, <1>3, <1>4

LEMMA PuppetTyped ==
    ASSUME TypeOK, PublishRoot \/ SignPuppet \/ ImportPuppet, ~Raise
    PROVE  TypeOK'
<1>1. CASE PublishRoot
  BY <1>1 DEF TypeOK, PublishRoot, At, Goto, Vaults, Early, Late
<1>2. CASE SignPuppet
  BY <1>2 DEF TypeOK, SignPuppet, At, Goto, Vaults, Early, Late
<1>3. CASE ImportPuppet
  BY <1>3 DEF TypeOK, ImportPuppet, At, Goto, Early, Late
<1> QED BY <1>1, <1>2, <1>3

LEMMA ServicesTyped ==
    ASSUME TypeOK, ~Raise,
           \/ MountServices \/ MakeRequest \/ SaveRequest \/ SignServices \/ SaveSigned
           \/ SetSigned \/ Establish \/ Access
    PROVE  TypeOK'
<1>1. CASE MountServices
  <2>1. pc \in Early \cup Late /\ pc' \in Early \cup Late
    BY <1>1 DEF MountServices, At, Goto, Early, Late
  <2>2. UNCHANGED <<file, owned, vols, listener, puppet, held, last, done, stops, losses>>
    BY <1>1 DEF MountServices
  <2>3. vault' \in Vaults
    <3>1. vault \in Vaults /\ TRUE \in BOOLEAN
      BY DEF TypeOK
    <3>2. vault' = [vault EXCEPT !.mounted = TRUE]
      BY <1>1 DEF MountServices, Store
    <3> QED BY ONLY <3>1, <3>2 DEF Vaults
  <2> QED BY <2>1, <2>2, <2>3, StepTyped DEF TypeOK
<1>2. CASE MakeRequest
  <2>1. pc \in Early \cup Late /\ pc' \in Early \cup Late
    BY <1>2 DEF MakeRequest, At, Goto, Early, Late
  <2>2. UNCHANGED <<file, owned, vols, listener, puppet, done, stops, losses>>
    BY <1>2 DEF MakeRequest
  <2>3. held' \in Nat /\ last' \in Nat
    BY <1>2, MadeTyped DEF MakeRequest, Made, TypeOK
  <2>4. vault' \in Vaults
    <3>1. vault \in Vaults /\ {New} \in SUBSET Nat
      BY MadeTyped DEF TypeOK
    <3>2. vault' \in {vault, [vault EXCEPT !.keys = {New}]}
      BY <1>2 DEF MakeRequest, Store
    <3> QED BY <3>1, <3>2 DEF Vaults
  <2> QED BY <2>1, <2>2, <2>3, <2>4, StepTyped DEF TypeOK
<1>3. CASE SaveRequest
  <2>1. pc \in Early \cup Late /\ pc' \in Early \cup Late
    BY <1>3 DEF SaveRequest, At, Goto, Early, Late
  <2>2. UNCHANGED <<owned, vols, vault, listener, puppet, done, stops, losses>>
    BY <1>3 DEF SaveRequest
  <2>3. held' \in Nat /\ last' \in Nat
    BY <1>3 DEF SaveRequest, TypeOK
  <2>4. file' \in Files /\ file'.checkpoint = file.checkpoint /\ file'.allocated = file.allocated
    <3>1. file \in Files /\ held \in Nat
      BY DEF TypeOK
    <3>2. file' \in {[file EXCEPT !.request = held]}
      BY <1>3 DEF SaveRequest, Save
    <3> QED BY <3>1, <3>2 DEF Files
  <2> QED BY <2>1, <2>2, <2>3, <2>4, StepTyped DEF TypeOK
<1>4. CASE SignServices
  <2>1. pc \in Early \cup Late /\ pc' \in Early \cup Late
    BY <1>4 DEF SignServices, At, Goto, Early, Late
  <2>2. UNCHANGED <<file, owned, vols, vault, listener, puppet, done, stops, losses>>
    BY <1>4 DEF SignServices
  <2>3. held' \in Nat /\ last' \in Nat
    BY <1>4, MadeTyped DEF SignServices, Made, TypeOK
  <2> QED BY <2>1, <2>2, <2>3, StepTyped DEF TypeOK
<1>5. CASE SaveSigned
  BY <1>5 DEF TypeOK, SaveSigned, At, Goto, Save, Files, Vaults, Certs, Early, Late
<1>6. CASE SetSigned
  <2>1. pc \in Early \cup Late /\ pc' \in Early \cup Late
    BY <1>6 DEF SetSigned, At, Goto, Early, Late
  <2>2. UNCHANGED <<file, owned, vols, listener, puppet, done, stops, losses>>
    BY <1>6 DEF SetSigned
  <2>3. held' \in Nat /\ last' \in Nat
    BY <1>6, MadeTyped DEF SetSigned, Made, TypeOK
  <2>4. vault' \in Vaults
    <3>1. vault \in Vaults /\ [id |-> New, cert |-> file.signed] \in [id : Nat, cert : Certs]
      BY MadeTyped DEF TypeOK, Files
    <3>2. vault' \in {vault, [vault EXCEPT !.issuer = [id |-> New, cert |-> file.signed]]}
      BY <1>6 DEF SetSigned, Store
    <3> QED BY <3>1, <3>2 DEF Vaults
  <2> QED BY <2>1, <2>2, <2>3, <2>4, StepTyped DEF TypeOK
<1>7. CASE Establish
  <2>1. pc \in Early \cup Late /\ pc' \in Early \cup Late
    BY <1>7 DEF Establish, At, Goto, Early, Late
  <2>2. UNCHANGED <<owned, vols, vault, listener, puppet, done, stops, losses>>
    BY <1>7 DEF Establish
  <2>3. held' \in Nat /\ last' \in Nat
    BY <1>7 DEF Establish, TypeOK
  <2>4. file' \in Files /\ file'.checkpoint = file.checkpoint /\ file'.allocated = file.allocated
    <3>1. file \in Files /\ Identity \in [id : Nat, key : Nat]
      BY MadeTyped DEF TypeOK
    <3>2. file' \in {[file EXCEPT !.established = Identity]}
      BY <1>7 DEF Establish, Save
    <3> QED BY <3>1, <3>2 DEF Files
  <2> QED BY <2>1, <2>2, <2>3, <2>4, StepTyped DEF TypeOK
<1>8. CASE Access
  <2>1. pc \in Early \cup Late /\ pc' \in Early \cup Late
    BY <1>8 DEF Access, At, Goto, Early, Late
  <2>2. UNCHANGED <<file, owned, vols, listener, puppet, held, last, done, stops, losses>>
    BY <1>8 DEF Access
  <2>3. vault' \in Vaults
    <3>1. vault \in Vaults /\ puppet.chain \in Nat
      BY DEF TypeOK
    <3>2. vault' = [vault EXCEPT !.login = puppet.chain]
      BY <1>8 DEF Access, Store
    <3> QED BY ONLY <3>1, <3>2 DEF Vaults
  <2> QED BY <2>1, <2>2, <2>3, StepTyped DEF TypeOK
<1> QED BY <1>1, <1>2, <1>3, <1>4, <1>5, <1>6, <1>7, <1>8

LEMMA EndTyped ==
    ASSUME TypeOK, IssueLeaf \/ SaveLeaf \/ TrustSystem \/ SaveCa \/ Finish, ~Raise
    PROVE  TypeOK'
<1>1. CASE IssueLeaf
  <2>1. pc \in Early \cup Late /\ pc' \in Early \cup Late
    BY <1>1 DEF IssueLeaf, At, Goto, Early, Late
  <2>2. UNCHANGED <<file, owned, vols, vault, listener, puppet, done, stops, losses>>
    BY <1>1 DEF IssueLeaf
  <2>3. held' \in Nat /\ last' \in Nat
    BY <1>1, MadeTyped DEF IssueLeaf, Made, TypeOK
  <2> QED BY <2>1, <2>2, <2>3, StepTyped DEF TypeOK
<1>2. CASE SaveLeaf
  <2>1. pc \in Early \cup Late /\ pc' \in Early \cup Late
    BY <1>2 DEF SaveLeaf, At, Goto, Early, Late
  <2>2. UNCHANGED <<vols, vault, listener, puppet, done, stops, losses>>
    BY <1>2 DEF SaveLeaf
  <2>3. held' \in Nat /\ last' \in Nat
    BY <1>2, MadeTyped DEF SaveLeaf, TypeOK
  <2>4. file' \in Files /\ file'.checkpoint = file.checkpoint /\ file'.allocated = file.allocated
    <3>1. file \in Files /\ Leaf \in [n : Nat, root : Nat]
      BY MadeTyped DEF TypeOK
    <3>2. file' \in {[file EXCEPT !.key = Leaf], [file EXCEPT !.chain = Leaf]}
      BY <1>2 DEF SaveLeaf, SaveServed, Save
    <3> QED BY <3>1, <3>2 DEF Files
  <2>5. owned' \subseteq Served
    BY <1>2 DEF SaveLeaf, SaveServed, TypeOK
  <2> QED BY <2>1, <2>2, <2>3, <2>4, <2>5, StepTyped DEF TypeOK
<1>3. CASE TrustSystem
  <2>1. pc \in Early \cup Late /\ pc' \in Early \cup Late
    BY <1>3 DEF TrustSystem, At, Goto, Early, Late
  <2>2. UNCHANGED <<owned, vols, vault, listener, puppet, done, stops, losses>>
    BY <1>3 DEF TrustSystem
  <2>3. held' \in Nat /\ last' \in Nat
    BY <1>3, MadeTyped DEF TrustSystem, Made, TypeOK
  <2>4. file' \in Files /\ file'.checkpoint = file.checkpoint /\ file'.allocated = file.allocated
    BY <1>3, NonesTyped DEF TrustSystem, Save, TypeOK, Files, Vaults
  <2> QED BY <2>1, <2>2, <2>3, <2>4, StepTyped DEF TypeOK
<1>4. CASE SaveCa
  <2>1. pc \in Early \cup Late /\ pc' \in Early \cup Late
    BY <1>4 DEF SaveCa, At, Goto, Early, Late
  <2>2. UNCHANGED <<vols, vault, listener, puppet, done, stops, losses>>
    BY <1>4 DEF SaveCa
  <2>3. held' \in Nat /\ last' \in Nat
    BY <1>4, MadeTyped DEF SaveCa, Made, TypeOK
  <2>4. file' \in Files /\ file'.checkpoint = file.checkpoint /\ file'.allocated = file.allocated
    <3>1. file \in Files /\ None \in Nat /\ vault.root \in Nat
      BY NonesTyped DEF TypeOK, Vaults
    <3>2. file' = [file EXCEPT !.ca = [root |-> vault.root, boot |-> None]]
      BY <1>4 DEF SaveCa, SaveServed, Save
    <3> QED BY ONLY <3>1, <3>2 DEF Files
  <2>5. owned' \subseteq Served
    BY <1>4 DEF SaveCa, SaveServed, TypeOK
  <2> QED BY <2>1, <2>2, <2>3, <2>4, <2>5, StepTyped DEF TypeOK
<1>5. CASE Finish
  BY <1>5 DEF TypeOK, Finish, At, Goto, Save, Files, Early, Late
<1> QED BY <1>1, <1>2, <1>3, <1>4, <1>5

LEMMA StopTyped == ASSUME TypeOK, Stop PROVE TypeOK'
<1>1. stops' \in 0..MaxStops
  BY BoundsAssumption DEF Stop, TypeOK
<1>2. listener' \in [n : Nat, root : Nat]
  BY NonesTyped DEF Stop, TypeOK
<1> QED BY <1>1, <1>2 DEF Stop, TypeOK, Goto, Early, Late

\* A lost file leaves the others.
LEMMA LoseFile ==
    ASSUME TypeOK, NEW f \in DOMAIN file, file' = [file EXCEPT ![f] = NoFiles[f]]
    PROVE  file' \in Files
BY NonesTyped DEF TypeOK, Files

LEMMA LoseTyped == ASSUME TypeOK, Lose PROVE TypeOK'
<1>1. losses' \in 0..MaxLosses
  BY BoundsAssumption DEF Lose, TypeOK
<1>2. file' \in Files /\ owned' \subseteq Served
  BY LoseFile DEF Lose, SaveServed, Save, TypeOK
<1>3. vault' \in Vaults
  <2>1. vault \in Vaults
    BY DEF TypeOK
  <2>2. CASE vault' \in {vault, NoVault}
    BY <2>1, <2>2, NonesTyped
  <2>3. ASSUME NEW keys \in {FALSE, vault.rootKeys},
               vault' = [vault EXCEPT !.root = None, !.rootKeys = keys]
        PROVE  vault' \in Vaults
    BY <2>1, <2>3, NonesTyped DEF Vaults
  <2>4. CASE vault' = [vault EXCEPT !.mounted = FALSE, !.keys = {}, !.issuer = NoIssuer]
    BY <2>1, <2>4, NonesTyped DEF Vaults
  <2>5. CASE vault' = [vault EXCEPT !.issuer = NoIssuer]
    BY <2>1, <2>5, NonesTyped DEF Vaults
  <2>6. CASE vault' = [vault EXCEPT !.keys = {}]
    BY <2>1, <2>6, NonesTyped DEF Vaults
  <2> QED BY <2>2, <2>3, <2>4, <2>5, <2>6 DEF Lose
<1>4. vols' \subseteq Volumes /\ listener' \in [n : Nat, root : Nat]
  BY NonesTyped DEF Lose, TypeOK
<1>5. puppet' \in [trust : Nat, chain : Nat, ca : {"none", "partial", "complete"}, root : Nat]
  BY NonesTyped DEF Lose, TypeOK
<1>6. pc = "idle" /\ UNCHANGED <<pc, held, last, done, stops>>
  BY DEF Lose, At
<1> QED BY <1>1, <1>2, <1>3, <1>4, <1>5, <1>6 DEF TypeOK, Early, Late

LEMMA NextTyped == ASSUME TypeOK, [Next]_vars PROVE TypeOK'
<1>1. CASE UNCHANGED vars
  BY <1>1 DEF vars, TypeOK
<1>2. CASE Step
  BY <1>2, RaiseTyped, VolumesTyped, TransportTyped, RootTyped, PuppetTyped, ServicesTyped, EndTyped
  DEF Step
<1> QED BY <1>1, <1>2, BeginTyped, StopTyped, LoseTyped DEF Next

\* Every variable keeps its type; a run that makes secrets has its volumes and its checkpoint.
THEOREM TypeCorrect == Spec => []TypeOK
<1>1. TypeOK /\ [Next]_vars => TypeOK'
  BY NextTyped
<1> QED BY InitTyped, <1>1, PTL DEF Spec

-------------------------------------------------------------------------------
(* One root. *)

\* A step that leaves every place as it is.
LEMMA RootsKept ==
    ASSUME RootOK, losses' = losses,
           file'.ca.root = file.ca.root, file'.system = file.system,
           file'.key.root = file.key.root, file'.chain.root = file.chain.root,
           file'.signed.root = file.signed.root,
           vault'.root = vault.root, vault'.issuer.cert.root = vault.issuer.cert.root,
           vault'.login = vault.login,
           puppet'.trust = puppet.trust, puppet'.chain = puppet.chain, puppet'.root = puppet.root,
           pc' = "pin" => vault.root # None,
           pc' \in Late => pc \in Late
    PROVE  RootOK'
<1>1. Unused' <=> Unused
  BY DEF Unused
<1>2. \A r : AllGoBackTo(r)' <=> AllGoBackTo(r)
  BY DEF AllGoBackTo
<1> QED BY <1>1, <1>2 DEF RootOK

\* A step that copies a root from one place to another, once Vault's is pinned in ca.pem.
LEMMA RootsCopied ==
    ASSUME RootOK, losses' = losses, pc \in Late,
           vault'.root = vault.root, file'.ca.root = file.ca.root,
           \A r : AllGoBackTo(r) => AllGoBackTo(r)',
           pc' # "pin"
    PROVE  RootOK'
BY DEF RootOK

LEMMA InitRoots == Init => RootOK
<1> SUFFICES ASSUME Init PROVE RootOK
  OBVIOUS
<1>1. Unused /\ AllGoBackTo(1) /\ pc = "idle"
  BY DEF Init, Unused, AllGoBackTo, NoFiles, NoVault, NoPuppet, NoTls, NoCert, NoIssuer
<1> QED BY <1>1 DEF RootOK, None, Late

LEMMA MakeRootKeeps == ASSUME TypeOK, RootOK, MakeRoot PROVE RootOK'
<1>1. CASE Raise
  BY <1>1, RootsKept DEF Raise, Goto, Late
<1>2. CASE vault.root # None /\ ~Raise
  BY <1>2, RootsKept DEF MakeRoot, Goto, Late
<1>3. CASE vault.root = None /\ ~Raise
  <2>1. /\ file.ca = BootTrust /\ vault' = [vault EXCEPT !.root = New, !.rootKeys = TRUE]
        /\ pc' = "pin" /\ UNCHANGED <<file, puppet, losses>>
    BY <1>3 DEF MakeRoot, MayMakeRoot, Goto
  <2>2. file.ca.root = None
    BY <2>1 DEF BootTrust
  <2>3. losses <= 1 => Unused
    BY <1>3, <2>2 DEF RootOK
  <2>4. New \in Nat /\ New # None
    BY DEF New, TypeOK, None
  <2>5. /\ vault'.root = New
        /\ vault'.issuer = vault.issuer /\ vault'.login = vault.login
    BY <2>1 DEF TypeOK, Vaults
  <2>6. Unused' <=> Unused
    BY <2>1, <2>5 DEF Unused
  <2>7. losses' = 0 => losses' <= 1
    OBVIOUS
  <2>8. pc' = "pin" /\ pc' \notin Late
    BY <2>1 DEF Late
  <2>9. losses' <= 1 => \E r \in Nat \ {None} : AllGoBackTo(r)'
    <3>1. ASSUME NEW r, r = New, Unused PROVE AllGoBackTo(r)'
      BY <2>1, <2>2, <2>5, <3>1 DEF Unused, AllGoBackTo
    <3> QED BY <2>1, <2>3, <2>4, <3>1
  <2>10. losses' <= 1 => Unused'
    BY <2>1, <2>3, <2>6
  <2>11. vault'.root # None
    BY <2>4, <2>5
  <2> QED BY <2>7, <2>8, <2>9, <2>10, <2>11 DEF RootOK
<1> QED BY <1>1, <1>2, <1>3

LEMMA PinRootKeeps == ASSUME TypeOK, RootOK, PinRoot PROVE RootOK'
<1>1. CASE Raise
  BY <1>1, RootsKept DEF Raise, Goto, Late
<1>2. CASE ~Raise
  <2>1. /\ file' = [file EXCEPT !.ca = [root |-> vault.root, boot |-> file.boot]]
        /\ pc = "pin" /\ pc' = "own root" /\ UNCHANGED <<vault, puppet, losses>>
    BY <1>2 DEF PinRoot, Goto, SaveServed, Save, At
  <2>2. file'.ca.root = vault.root
        /\ file'.system = file.system /\ file'.key = file.key /\ file'.chain = file.chain
        /\ file'.signed = file.signed
    BY <2>1 DEF TypeOK, Files
  <2>3. \A r : AllGoBackTo(r) => AllGoBackTo(r)'
    BY <2>1, <2>2 DEF AllGoBackTo
  <2>4. vault.root # None
    BY <2>1 DEF RootOK
  <2> QED BY <2>1, <2>2, <2>3, <2>4 DEF RootOK, Late
<1> QED BY <1>1, <1>2

\* The steps before the root is pinned, the ones that make no certificate, and Begin and Stop.
LEMMA OthersKeep ==
    ASSUME TypeOK, RootOK,
           \/ Begin \/ MakeVolumes \/ MakeTransport \/ InstallTransport \/ StartVault \/ InitVault
           \/ SaveRecovery \/ MountServices \/ MakeRequest \/ SaveRequest \/ SignServices
           \/ Establish \/ IssueLeaf \/ RestartVault \/ SaveCa \/ Finish \/ Stop \/ Chown
    PROVE  RootOK'
<1> USE DEF TypeOK
<1>1. CASE Raise
  BY <1>1, RootsKept DEF Raise, Goto, Late
<1>2. CASE Begin \/ MakeVolumes \/ MakeTransport \/ SaveRecovery
  <2>1. UNCHANGED <<vault, puppet, losses>> /\ pc' \notin Late \cup {"pin"}
    BY <1>2 DEF Begin, MakeVolumes, MakeTransport, SaveRecovery, Goto, At, Late
  <2>2. /\ file'.ca = file.ca /\ file'.system = file.system /\ file'.key = file.key
        /\ file'.chain = file.chain /\ file'.signed = file.signed
    BY <1>2 DEF Begin, MakeVolumes, MakeTransport, SaveRecovery, Save, Files
  <2> QED BY <2>1, <2>2, RootsKept
<1>3. CASE InstallTransport
  <2>1. UNCHANGED <<vault, puppet, losses>> /\ pc' \notin Late \cup {"pin"}
    BY <1>3 DEF InstallTransport, Goto, At, Late
  <2>2. file' \in {file, [file EXCEPT !.key = Boot], [file EXCEPT !.chain = Boot], [file EXCEPT !.ca = BootTrust]}
        /\ (file'.key # file.key => file.key = NoTls)
        /\ (file'.chain # file.chain => file.chain = NoTls)
        /\ (file'.ca # file.ca => file.ca = NoFiles.ca)
    BY <1>3 DEF InstallTransport, SaveServed, Save, Files, At
  <2>3. /\ file'.ca.root = file.ca.root /\ file'.system = file.system /\ file'.key.root = file.key.root
        /\ file'.chain.root = file.chain.root /\ file'.signed = file.signed
    BY <2>2 DEF Files, Boot, BootTrust, NoTls, NoFiles
  <2> QED BY <2>1, <2>3, RootsKept
<1>4. CASE (StartVault \/ Stop \/ IssueLeaf \/ RestartVault \/ SignServices) /\ ~Raise
  <2>1. UNCHANGED <<file, vault, puppet, losses>> /\ pc' # "pin" /\ (pc' \in Late => pc \in Late)
    BY <1>4 DEF StartVault, Stop, IssueLeaf, RestartVault, SignServices, Goto, At, Late
  <2> QED BY <2>1, RootsKept
<1>5. CASE (InitVault \/ MountServices \/ MakeRequest) /\ ~Raise
  <2>1. UNCHANGED <<file, puppet, losses>> /\ pc' # "pin" /\ (pc' \in Late => pc \in Late)
    BY <1>5 DEF InitVault, MountServices, MakeRequest, Goto, At, Late
  <2>2. vault'.root = vault.root /\ vault'.issuer = vault.issuer /\ vault'.login = vault.login
    BY <1>5 DEF InitVault, MountServices, MakeRequest, Store, Vaults
  <2> QED BY <2>1, <2>2, RootsKept
<1>6. CASE (SaveRequest \/ Establish \/ Finish) /\ ~Raise
  <2>1. UNCHANGED <<vault, puppet, losses>> /\ pc' # "pin" /\ (pc' \in Late => pc \in Late)
    BY <1>6 DEF SaveRequest, Establish, Finish, Goto, At, Late
  <2>2. /\ file'.ca = file.ca /\ file'.system = file.system /\ file'.key = file.key
        /\ file'.chain = file.chain /\ file'.signed = file.signed
    BY <1>6 DEF SaveRequest, Establish, Finish, Save, Files
  <2> QED BY <2>1, <2>2, RootsKept
<1>7. CASE SaveCa /\ ~Raise
  <2>1. UNCHANGED <<vault, puppet, losses>> /\ pc = "final" /\ pc' = "own final"
    BY <1>7 DEF SaveCa, Goto, At
  <2>2. file'.ca.root = vault.root /\ file.ca.root = vault.root
    <3>1. file' = [file EXCEPT !.ca = [root |-> vault.root, boot |-> None]] /\ file \in Files
      BY <1>7 DEF SaveCa, SaveServed, Save
    <3>2. file'.ca.root = vault.root
      BY ONLY <3>1 DEF Files
    <3>3. file.ca.root = vault.root
      BY <2>1 DEF RootOK, Late
    <3> QED BY <3>2, <3>3
  <2>3. /\ file'.system = file.system /\ file'.key = file.key
        /\ file'.chain = file.chain /\ file'.signed = file.signed
    BY <1>7 DEF SaveCa, SaveServed, Save, Files
  <2> QED BY <2>1, <2>2, <2>3, RootsKept DEF Late
<1>8. CASE Chown
  <2>1. UNCHANGED <<file, vault, puppet, losses>> /\ pc' # "pin" /\ (pc' \in Late => pc \in Late)
    BY <1>8, ChownStays DEF Late
  <2> QED BY <2>1, RootsKept
<1> QED BY <1>1, <1>2, <1>3, <1>4, <1>5, <1>6, <1>7, <1>8

\* The steps that put a root in a new place.
LEMMA CopiesKeep ==
    ASSUME TypeOK, RootOK,
           \/ PublishRoot \/ SignPuppet \/ ImportPuppet \/ SaveSigned \/ SetSigned \/ Access
           \/ SaveLeaf \/ TrustSystem
    PROVE  RootOK'
<1>1. CASE Raise
  BY <1>1, RootsKept DEF Raise, Goto, Late
<1>2. CASE (PublishRoot \/ SignPuppet \/ ImportPuppet) /\ ~Raise
  <2>1. UNCHANGED <<file, vault, losses>> /\ pc \in Late /\ pc' # "pin"
    BY <1>2 DEF PublishRoot, SignPuppet, ImportPuppet, Goto, At, Late
  <2>2. /\ puppet'.trust \in {puppet.trust, vault.root}
        /\ puppet'.chain \in {puppet.chain, vault.root}
        /\ puppet'.root \in {puppet.root, puppet.chain}
    BY <1>2 DEF PublishRoot, SignPuppet, ImportPuppet, TypeOK
  <2>3. \A r : AllGoBackTo(r) => AllGoBackTo(r)'
    BY <2>1, <2>2 DEF AllGoBackTo
  <2> QED BY <2>1, <2>3, RootsCopied
<1>3. CASE (SetSigned \/ Access) /\ ~Raise
  <2>1. UNCHANGED <<file, puppet, losses>> /\ pc \in Late /\ pc' # "pin"
    BY <1>3 DEF SetSigned, Access, Goto, At, Late
  <2>2. /\ vault'.root = vault.root
        /\ vault'.issuer.cert.root \in {vault.issuer.cert.root, file.signed.root}
        /\ vault'.login \in {vault.login, puppet.chain}
    <3>1. CASE SetSigned
      <4>1. vault' \in {vault, [vault EXCEPT !.issuer = [id |-> New, cert |-> file.signed]]}
        BY <3>1 DEF SetSigned, Store
      <4> QED BY <4>1 DEF TypeOK, Vaults
    <3>2. CASE Access /\ ~Raise
      BY <3>2 DEF Access, Store, TypeOK, Vaults
    <3> QED BY <1>3, <3>1, <3>2
  <2>3. \A r : AllGoBackTo(r) => AllGoBackTo(r)'
    BY <2>1, <2>2 DEF AllGoBackTo
  <2> QED BY <2>1, <2>2, <2>3, RootsCopied
<1>4. CASE (SaveSigned \/ SaveLeaf \/ TrustSystem) /\ ~Raise
  <2>1. UNCHANGED <<vault, puppet, losses>> /\ pc \in Late /\ pc' # "pin"
    BY <1>4 DEF SaveSigned, SaveLeaf, TrustSystem, Goto, At, Late
  <2>2. /\ file'.ca = file.ca
        /\ file'.system \in {file.system, vault.root}
        /\ file'.key.root \in {file.key.root, vault.issuer.cert.root}
        /\ file'.chain.root \in {file.chain.root, vault.issuer.cert.root}
        /\ file'.signed.root \in {file.signed.root, vault.root}
    <3>1. CASE SaveSigned
      BY <3>1 DEF SaveSigned, Save, TypeOK, Files
    <3>2. CASE SaveLeaf
      <4>1. Leaf.root = vault.issuer.cert.root
        BY DEF Leaf
      <4>2. file' \in {[file EXCEPT !.key = Leaf], [file EXCEPT !.chain = Leaf]}
        BY <3>2 DEF SaveLeaf, SaveServed, Save
      <4> QED BY <4>1, <4>2 DEF TypeOK, Files
    <3>3. CASE TrustSystem /\ ~Raise
      BY <3>3 DEF TrustSystem, Save, TypeOK, Files
    <3> QED BY <1>4, <3>1, <3>2, <3>3
  <2>3. \A r : AllGoBackTo(r) => AllGoBackTo(r)'
    BY <2>1, <2>2 DEF AllGoBackTo
  <2> QED BY <2>1, <2>2, <2>3, RootsCopied
<1> QED BY <1>1, <1>2, <1>3, <1>4

\* A loss empties places.
LEMMA LoseEmpties ==
    ASSUME TypeOK, Lose
    PROVE  /\ Unused => Unused'
           /\ \A r : AllGoBackTo(r) => AllGoBackTo(r)'
<1>2. /\ file'.ca.root \in {None, file.ca.root} /\ file'.system \in {None, file.system}
      /\ file'.key.root \in {None, file.key.root} /\ file'.chain.root \in {None, file.chain.root}
      /\ file'.signed.root \in {None, file.signed.root}
  <2>1. CASE UNCHANGED file
    BY <2>1
  <2>2. ASSUME NEW f \in DOMAIN file, file' = [file EXCEPT ![f] = NoFiles[f]]
        PROVE  <1>2!:
    BY <2>2 DEF TypeOK, Files, NoFiles, NoTls, NoCert
  <2> QED BY <2>1, <2>2 DEF Lose, SaveServed, Save
<1>3. /\ vault'.root \in {None, vault.root}
      /\ vault'.issuer.cert.root \in {None, vault.issuer.cert.root}
      /\ vault'.login \in {None, vault.login}
  <2>1. CASE vault' \in {vault, NoVault}
    BY <2>1 DEF NoVault, NoIssuer, NoCert
  <2>2. ASSUME NEW keys, vault' = [vault EXCEPT !.root = None, !.rootKeys = keys]
        PROVE  <1>3!:
    BY <2>2 DEF TypeOK, Vaults
  <2>3. CASE vault' = [vault EXCEPT !.mounted = FALSE, !.keys = {}, !.issuer = NoIssuer]
    BY <2>3 DEF TypeOK, Vaults, NoIssuer, NoCert
  <2>4. CASE vault' = [vault EXCEPT !.issuer = NoIssuer]
    BY <2>4 DEF TypeOK, Vaults, NoIssuer, NoCert
  <2>5. CASE vault' = [vault EXCEPT !.keys = {}]
    BY <2>5 DEF TypeOK, Vaults
  <2> QED BY <2>1, <2>2, <2>3, <2>4, <2>5 DEF Lose
<1>4. /\ puppet'.trust \in {None, puppet.trust} /\ puppet'.chain \in {None, puppet.chain}
      /\ puppet'.root \in {None, puppet.root}
  BY DEF Lose, NoPuppet
<1> QED BY <1>2, <1>3, <1>4 DEF Unused, AllGoBackTo

\* If a loss takes one of the two places that pin a root, the other is left.
LEMMA LoseKeeps == ASSUME TypeOK, RootOK, Lose PROVE RootOK'
<1>1. pc = "idle" /\ pc' = "idle" /\ losses \in Nat /\ losses' = losses + 1
  BY DEF Lose, At, TypeOK
<1>5. Unused => Unused'
  BY LoseEmpties
<1>6. \A r : AllGoBackTo(r) => AllGoBackTo(r)'
  BY LoseEmpties
<1>7. vault'.root = vault.root \/ file'.ca = file.ca
  BY DEF Lose
<1>8. losses' <= 1 => losses = 0 /\ losses <= 1
  BY <1>1
<1>9. losses' # 0
  BY <1>1
<1>10. losses' <= 1 => Unused' \/ vault'.root # None \/ file'.ca.root # None
  BY <1>5, <1>7, <1>8 DEF RootOK
<1>11. losses' <= 1 => \E r \in Nat \ {None} : AllGoBackTo(r)'
  BY <1>6, <1>8 DEF RootOK
<1> QED BY <1>1, <1>9, <1>10, <1>11 DEF RootOK, Late

LEMMA NextKeepsRoots == ASSUME TypeOK, RootOK, [Next]_vars PROVE RootOK'
<1>1. CASE UNCHANGED vars
  BY <1>1, RootsKept DEF vars, RootOK
<1>2. CASE Step
  BY <1>2, MakeRootKeeps, PinRootKeeps, OthersKeep, CopiesKeep DEF Step
<1> QED BY <1>1, <1>2, OthersKeep, LoseKeeps DEF Next

LEMMA InvHolds == Spec => []Inv
<1>1. Init => Inv
  BY InitTyped, InitRoots DEF Inv
<1>2. Inv /\ [Next]_vars => Inv'
  BY NextTyped, NextKeepsRoots DEF Inv
<1> QED BY <1>1, <1>2, PTL DEF Spec

\* After any one loss, and any number of stopped runs, every file, certificate and login goes
\* back to the same root.
THEOREM RootIsOne == Spec => []OneRoot
<1>1. Inv => OneRoot
  <2> SUFFICES ASSUME Inv, losses <= 1 PROVE \A r, s \in Roots : r = s
    BY DEF OneRoot
  <2>1. PICK r \in Nat \ {None} : AllGoBackTo(r)
    BY DEF Inv, RootOK
  <2>2. Roots \subseteq {r}
    BY <2>1 DEF Roots, AllGoBackTo
  <2> QED BY <2>2
<1> QED BY InvHolds, <1>1, PTL

-------------------------------------------------------------------------------
(* The services issuer.  Between the look at Vault's issuers and the end of the signing, what *)
(* was established is there, so an issuer is only ever imported where none was established.   *)

Signing == {"save request", "sign", "save signed", "set signed"}

IssuerOK == EstablishedIsServed /\ (pc \in Signing => ~IssuerMissing)

LEMMA IssuerKept ==
    ASSUME IssuerOK, file'.established = file.established, vault'.issuer = vault.issuer,
           pc' \in Signing => ~IssuerMissing
    PROVE  IssuerOK'
BY DEF IssuerOK, EstablishedIsServed, IssuerMissing, Identity

LEMMA SaveOther ==
    ASSUME TypeOK, NEW f \in DOMAIN file \ {"established"}, NEW v, Save(f, v)
    PROVE  file'.established = file.established
BY DEF TypeOK, Files, Save

LEMMA FileFields ==
    ASSUME TypeOK
    PROVE  DOMAIN file = {"checkpoint", "allocated", "boot", "key", "chain", "ca", "recovery",
                          "request", "signed", "established", "system"}
BY DEF TypeOK, Files

LEMMA LoseKeepsIssuer == ASSUME TypeOK, IssuerOK, Lose PROVE IssuerOK'
<1>1. file'.established \in {file.established, NoIdentity}
  <2>1. CASE UNCHANGED file
    BY <2>1
  <2>2. ASSUME NEW f \in DOMAIN file, file' = [file EXCEPT ![f] = NoFiles[f]]
        PROVE  file'.established \in {file.established, NoIdentity}
    BY <2>2 DEF TypeOK, Files, NoFiles
  <2> QED BY <2>1, <2>2 DEF Lose, SaveServed, Save
<1>2. vault'.issuer \in {vault.issuer, NoIssuer}
  <2>1. CASE vault' \in {vault, NoVault}
    BY <2>1 DEF NoVault
  <2>2. ASSUME NEW keys, vault' = [vault EXCEPT !.root = None, !.rootKeys = keys]
        PROVE  vault'.issuer = vault.issuer
    BY <2>2 DEF TypeOK, Vaults
  <2>3. CASE vault' = [vault EXCEPT !.mounted = FALSE, !.keys = {}, !.issuer = NoIssuer]
    BY <2>3 DEF TypeOK, Vaults
  <2>4. CASE vault' = [vault EXCEPT !.issuer = NoIssuer]
    BY <2>4 DEF TypeOK, Vaults
  <2>5. CASE vault' = [vault EXCEPT !.keys = {}]
    BY <2>5 DEF TypeOK, Vaults
  <2> QED BY <2>1, <2>2, <2>3, <2>4, <2>5 DEF Lose
<1>3. pc' \notin Signing
  BY DEF Lose, At, Signing
<1> QED BY <1>1, <1>2, <1>3 DEF IssuerOK, EstablishedIsServed, Identity

LEMMA StepKeepsIssuer == ASSUME TypeOK, IssuerOK, Step PROVE IssuerOK'
<1>1. CASE MakeVolumes \/ MakeTransport \/ InstallTransport \/ StartVault
  <2>1. file'.established = file.established /\ vault' = vault /\ pc' \notin Signing
    <3>1. CASE MakeVolumes
      BY <3>1, SaveOther, FileFields DEF MakeVolumes, Goto, At, Signing
    <3>2. CASE MakeTransport
      BY <3>2, SaveOther, FileFields DEF MakeTransport, Goto, Signing
    <3>3. CASE InstallTransport
      BY <3>3, SaveOther, FileFields DEF InstallTransport, SaveServed, Goto, Signing
    <3>4. CASE StartVault
      BY <3>4 DEF StartVault, Raise, Goto, Signing
    <3> QED BY <1>1, <3>1, <3>2, <3>3, <3>4
  <2> QED BY <2>1, IssuerKept
<1>2. CASE InitVault \/ SaveRecovery
  <2>1. file'.established = file.established /\ vault'.issuer = vault.issuer /\ pc' \notin Signing
    <3>1. CASE InitVault
      BY <3>1 DEF InitVault, Raise, Goto, Store, TypeOK, Vaults, Signing
    <3>2. CASE SaveRecovery
      BY <3>2, SaveOther, FileFields DEF SaveRecovery, Goto, Signing
    <3> QED BY <1>2, <3>1, <3>2
  <2> QED BY <2>1, IssuerKept
<1>3. CASE MakeRoot \/ PinRoot
  <2>1. file'.established = file.established /\ vault'.issuer = vault.issuer /\ pc' \notin Signing
    <3>1. CASE MakeRoot
      BY <3>1 DEF MakeRoot, Raise, Goto, TypeOK, Vaults, Signing
    <3>2. CASE PinRoot
      BY <3>2, SaveOther, FileFields DEF PinRoot, SaveServed, Raise, Goto, Signing
    <3> QED BY <1>3, <3>1, <3>2
  <2> QED BY <2>1, IssuerKept
<1>4. CASE PublishRoot \/ SignPuppet \/ ImportPuppet
  <2>1. UNCHANGED <<file, vault>> /\ pc' \notin Signing
    BY <1>4 DEF PublishRoot, SignPuppet, ImportPuppet, Raise, Goto, At, Signing
  <2> QED BY <2>1, IssuerKept
<1>5. CASE MountServices
  <2>1. file' = file /\ vault'.issuer = vault.issuer /\ pc' \notin Signing
    BY <1>5 DEF MountServices, Raise, Goto, Store, TypeOK, Vaults, Signing
  <2> QED BY <2>1, IssuerKept
<1>6. CASE MakeRequest
  <2>1. file' = file /\ vault'.issuer = vault.issuer /\ (pc' \in Signing => ~IssuerMissing)
    BY <1>6 DEF MakeRequest, Raise, Goto, Store, TypeOK, Vaults, Signing
  <2> QED BY <2>1, IssuerKept
<1>7. CASE SaveRequest \/ SignServices \/ SaveSigned
  <2>1. file'.established = file.established /\ vault' = vault /\ pc \in Signing
    <3>1. CASE SaveRequest
      BY <3>1, SaveOther, FileFields DEF SaveRequest, At, Signing
    <3>2. CASE SignServices
      BY <3>2 DEF SignServices, Raise, At, Signing
    <3>3. CASE SaveSigned
      BY <3>3, SaveOther, FileFields DEF SaveSigned, At, Signing
    <3> QED BY <1>7, <3>1, <3>2, <3>3
  <2> QED BY <2>1, IssuerKept DEF IssuerOK
<1>8. CASE SetSigned
  <2>1. pc' \notin Signing /\ file' = file /\ ~IssuerMissing
    BY <1>8 DEF SetSigned, Goto, At, Signing, IssuerOK
  <2>2. CASE vault.issuer = NoIssuer
    <3>1. file'.established = NoIdentity
      BY <2>1, <2>2 DEF IssuerMissing
    <3> QED BY <2>1, <3>1 DEF IssuerOK, EstablishedIsServed
  <2>3. CASE vault.issuer # NoIssuer
    BY <1>8, <2>1, <2>3, IssuerKept DEF SetSigned
  <2> QED BY <2>2, <2>3
<1>9. CASE Establish
  <2>1. pc' \notin Signing /\ vault' = vault
    BY <1>9 DEF Establish, Goto, Raise, Signing
  <2>2. CASE Unchanged
    <3>1. file'.established = Identity
      BY <1>9, <2>2 DEF Establish, Save, TypeOK, Files
    <3> QED BY <2>1, <3>1 DEF IssuerOK, EstablishedIsServed, Identity
  <2>3. CASE ~Unchanged
    BY <1>9, <2>1, <2>3, IssuerKept DEF Establish, Raise
  <2> QED BY <2>2, <2>3
<1>10. CASE Access
  <2>1. file' = file /\ vault'.issuer = vault.issuer /\ pc' \notin Signing
    BY <1>10 DEF Access, Raise, Goto, Store, TypeOK, Vaults, Signing
  <2> QED BY <2>1, IssuerKept
<1>11. CASE IssueLeaf \/ SaveLeaf \/ TrustSystem \/ RestartVault
  <2>1. file'.established = file.established /\ vault' = vault /\ pc' \notin Signing
    <3>1. CASE IssueLeaf \/ RestartVault
      BY <3>1 DEF IssueLeaf, RestartVault, Goto, Signing
    <3>2. CASE SaveLeaf
      BY <3>2, SaveOther, FileFields DEF SaveLeaf, SaveServed, Goto, Signing
    <3>3. CASE TrustSystem
      BY <3>3, SaveOther, FileFields DEF TrustSystem, Raise, Goto, Signing
    <3> QED BY <1>11, <3>1, <3>2, <3>3
  <2> QED BY <2>1, IssuerKept
<1>12. CASE SaveCa \/ Finish
  <2>1. file'.established = file.established /\ vault' = vault /\ pc' \notin Signing
    <3>1. CASE SaveCa
      BY <3>1, SaveOther, FileFields DEF SaveCa, SaveServed, Raise, Goto, Signing
    <3>2. CASE Finish
      BY <3>2, SaveOther, FileFields DEF Finish, Goto, Signing
    <3> QED BY <1>12, <3>1, <3>2
  <2> QED BY <2>1, IssuerKept
<1>13. CASE Chown
  <2>1. UNCHANGED <<file, vault>> /\ pc' \notin Signing
    BY <1>13, ChownStays DEF Signing
  <2> QED BY <2>1, IssuerKept
<1> QED BY <1>1, <1>2, <1>3, <1>4, <1>5, <1>6, <1>7, <1>8, <1>9, <1>10, <1>11, <1>12, <1>13 DEF Step

\* However often runs are stopped and state is lost, Vault holds no services issuer beside the
\* saved identity of another one.
THEOREM EstablishedStays == Spec => []EstablishedIsServed
<1>1. Init => IssuerOK
  BY DEF Init, NoFiles, IssuerOK, EstablishedIsServed, Signing
<1>2. ASSUME TypeOK, IssuerOK, [Next]_vars PROVE IssuerOK'
  <2>1. CASE UNCHANGED vars
    BY <1>2, <2>1, IssuerKept DEF vars, IssuerOK
  <2>2. CASE Begin \/ Stop
    <3>1. file'.established = file.established /\ vault' = vault /\ pc' \notin Signing
      <4>1. CASE Begin
        BY <1>2, <4>1, SaveOther, FileFields DEF Begin, Goto, Signing
      <4>2. CASE Stop
        BY <4>2 DEF Stop, Goto, Signing
      <4> QED BY <2>2, <4>1, <4>2
    <3> QED BY <1>2, <3>1, IssuerKept
  <2> QED BY <1>2, <2>1, <2>2, StepKeepsIssuer, LoseKeepsIssuer DEF Next
<1>3. IssuerOK => EstablishedIsServed
  BY DEF IssuerOK
<1> QED BY <1>1, <1>2, <1>3, TypeCorrect, PTL DEF Spec

-------------------------------------------------------------------------------
(***************************************************************************)
(* What a run has achieved when it comes to a step, whatever was lost      *)
(* before it began: a loss happens between runs, and a run looks at what   *)
(* it finds.                                                               *)
(***************************************************************************)

\* The steps that hold the saved recovery keys, those after the import, and those after the issuer.
Rooted == {"pin"} \cup Late
Serving == Late \ {"own root", "trust", "sign puppet", "import"}
Granting ==
    {"access", "leaf", "save key", "own leaf", "save chain", "own leaf chain", "system", "restart",
     "final", "own final", "deploy"}

\* The keys are Vault's own, and OpenVox has its certificate.
KeysOK ==
    /\ pc \in {"recovery", "root"} \cup Rooted => vault.init # None
    /\ pc \in Rooted => file.recovery = vault.init
    /\ pc \in Serving => puppet.ca # "none"

\* A saved certificate goes back to a root; past Establish it is the one Vault issues with.
SignedOK ==
    /\ file.signed # NoCert => file.signed.root # None
    /\ pc \in {"set signed", "establish"} \cup Granting => file.signed # NoCert
    /\ pc \in Granting => vault.issuer.cert = file.signed /\ file.established = Identity

\* Vault serves what was saved last, and that is no longer the temporary identity: its health
\* was asked for under the root alone.
ServedOK ==
    /\ pc \in Late \ {"own final", "deploy"} => file.ca.boot = file.boot
    /\ pc \in {"own leaf chain", "system", "restart", "final"} => file.chain # Boot
    /\ pc \in {"restart", "final", "own final", "deploy"} => file.system = vault.root
    /\ pc \in {"final", "own final", "deploy"} => listener \in {Pair, NoTls}
    /\ pc \in {"own final", "deploy"} =>
        /\ listener # NoTls /\ listener.root = vault.root
        /\ file.ca = [root |-> vault.root, boot |-> None]
    /\ pc = "deploy" => "ca" \in owned

\* After the end no other run begins, with one volume lost or none: the checkpoint is gone.
DoneOK ==
    done /\ losses <= 1 =>
        /\ pc = "idle" /\ ~file.checkpoint
        /\ vols # {} /\ (losses = 0 => vols = Volumes)

RunOK == KeysOK /\ SignedOK /\ ServedOK /\ DoneOK

LEMMA SaveFields ==
    ASSUME TypeOK, NEW f \in DOMAIN file, NEW v, Save(f, v)
    PROVE  file'[f] = v /\ \A g \in DOMAIN file \ {f} : file'[g] = file[g]
BY DEF TypeOK, Files, Save

\* The steps in the order of a run; each lemma below goes through them by these groups.
Opening == MakeVolumes \/ MakeTransport \/ InstallTransport \/ StartVault
Middle == MountServices \/ MakeRequest \/ SaveRequest
Closing == Access \/ IssueLeaf \/ SaveLeaf \/ TrustSystem \/ RestartVault \/ SaveCa \/ Finish

\* The opening steps come before Vault is asked for anything.
LEMMA OpeningStays ==
    ASSUME TypeOK, Opening
    PROVE  /\ pc' \notin Late \cup {"pin", "recovery", "root"}
           /\ file'.signed = file.signed
<1>1. CASE MakeVolumes
  BY <1>1, SaveFields, FileFields DEF MakeVolumes, At, Goto, Late
<1>2. CASE MakeTransport
  BY <1>2, SaveFields, FileFields DEF MakeTransport, Goto, Late
<1>3. CASE InstallTransport
  BY <1>3, SaveFields, FileFields DEF InstallTransport, SaveServed, Goto, Late
<1>4. CASE StartVault
  BY <1>4 DEF StartVault, Raise, Goto, Late
<1> QED BY <1>1, <1>2, <1>3, <1>4 DEF Opening

\* The middle steps keep what the three invariants are about.
LEMMA MiddleStays ==
    ASSUME TypeOK, Middle
    PROVE  /\ pc \in {"services", "request", "save request"}
           /\ pc' \in {"idle", "request", "save request", "sign"}
           /\ vault'.init = vault.init
           /\ file'.recovery = file.recovery /\ file'.signed = file.signed
           /\ file'.ca = file.ca /\ file'.boot = file.boot
           /\ puppet' = puppet
<1>1. CASE MountServices
  BY <1>1 DEF MountServices, At, Raise, Goto, Store, TypeOK, Vaults
<1>2. CASE MakeRequest
  BY <1>2 DEF MakeRequest, At, Raise, Goto, Store, TypeOK, Vaults
<1>3. CASE SaveRequest
  BY <1>3, SaveFields, FileFields DEF SaveRequest, At, Goto
<1> QED BY <1>1, <1>2, <1>3 DEF Middle

\* The closing steps change Vault's login, its files' last values, and not what they rest on.
LEMMA ClosingStays ==
    ASSUME TypeOK, Closing
    PROVE  /\ pc \in Granting /\ pc' \in (Granting \ {"access"}) \cup {"idle"}
           /\ vault'.init = vault.init /\ vault'.root = vault.root /\ vault'.issuer = vault.issuer
           /\ file'.recovery = file.recovery /\ file'.signed = file.signed
           /\ file'.established = file.established /\ file'.boot = file.boot
           /\ puppet' = puppet
<1> USE DEF Granting, At, Goto
<1>1. CASE Access
  BY <1>1 DEF Access, Raise, Store, TypeOK, Vaults
<1>2. CASE IssueLeaf \/ RestartVault
  BY <1>2 DEF IssueLeaf, RestartVault
<1>3. CASE SaveLeaf
  BY <1>3, SaveFields, FileFields DEF SaveLeaf, SaveServed
<1>4. CASE TrustSystem
  BY <1>4, SaveFields, FileFields DEF TrustSystem, Raise
<1>5. CASE SaveCa
  BY <1>5, SaveFields, FileFields DEF SaveCa, SaveServed, Raise
<1>6. CASE Finish
  BY <1>6, SaveFields, FileFields DEF Finish
<1> QED BY <1>1, <1>2, <1>3, <1>4, <1>5, <1>6 DEF Closing

LEMMA StepKeepsKeys == ASSUME TypeOK, KeysOK, Step PROVE KeysOK'
<1> USE DEF Rooted, Serving, Late
<1>1. CASE Opening
  BY <1>1, OpeningStays DEF KeysOK
<1>2. CASE InitVault
  <2>1. New # None
    <3>1. last \in Nat
      BY DEF TypeOK
    <3> QED BY <3>1 DEF New, None
  <2>2. /\ pc' \in {"idle", "recovery", "root"}
        /\ pc' # "idle" => vault'.init # None
    BY <1>2, <2>1 DEF InitVault, Raise, Goto, Store, TypeOK, Vaults
  <2> QED BY <2>2 DEF KeysOK
<1>3. CASE SaveRecovery
  BY <1>3 DEF SaveRecovery, At, Goto, KeysOK
<1>4. CASE MakeRoot
  <2>1. /\ file' = file /\ vault'.init = vault.init /\ pc = "root" /\ pc' \in {"idle", "pin"}
        /\ pc' = "pin" => Authorized
    BY <1>4 DEF MakeRoot, At, Goto, Raise, TypeOK, Vaults
  <2> QED BY <2>1 DEF KeysOK, Authorized
<1>5. CASE PinRoot
  <2>1. pc = "pin" /\ pc' \in {"idle", "own root"} /\ vault' = vault /\ file'.recovery = file.recovery
    BY <1>5, SaveFields, FileFields DEF PinRoot, SaveServed, At, Goto, Raise
  <2> QED BY <2>1 DEF KeysOK
<1>6. CASE PublishRoot \/ SignPuppet \/ ImportPuppet
  <2>1. /\ pc \in {"trust", "sign puppet", "import"}
        /\ pc' \in {"idle", "sign puppet", "import", "services"}
        /\ UNCHANGED <<file, vault>>
    BY <1>6 DEF PublishRoot, SignPuppet, ImportPuppet, At, Goto, Raise
  <2>2. pc' = "services" => puppet'.ca # "none"
    BY <1>6 DEF PublishRoot, SignPuppet, ImportPuppet, At, Goto, Raise, TypeOK
  <2> QED BY <2>1, <2>2 DEF KeysOK
<1>7. CASE Middle
  BY <1>7, MiddleStays DEF KeysOK
<1>8. CASE SignServices \/ SaveSigned \/ SetSigned \/ Establish
  <2>1. /\ pc \in {"sign", "save signed", "set signed", "establish"}
        /\ pc' \in {"idle", "save signed", "set signed", "establish", "access"}
        /\ puppet' = puppet
    BY <1>8 DEF SignServices, SaveSigned, SetSigned, Establish, At, Goto, Raise
  <2>2. vault'.init = vault.init
    BY <1>8 DEF SignServices, SaveSigned, SetSigned, Establish, Store, Raise, TypeOK, Vaults
  <2>3. file'.recovery = file.recovery
    BY <1>8, SaveFields, FileFields DEF SignServices, SaveSigned, SetSigned, Establish, Raise
  <2> QED BY <2>1, <2>2, <2>3 DEF KeysOK
<1>9. CASE Closing
  BY <1>9, ClosingStays DEF KeysOK, Granting
<1>10. CASE Chown
  BY <1>10, ChownStays DEF KeysOK
<1> QED BY <1>1, <1>2, <1>3, <1>4, <1>5, <1>6, <1>7, <1>8, <1>9, <1>10 DEF Step, Opening, Middle, Closing

LEMMA StepKeepsSigned == ASSUME TypeOK, RootOK, SignedOK, Step PROVE SignedOK'
<1> USE DEF Granting
<1>1. CASE Opening
  BY <1>1, OpeningStays DEF SignedOK, Late
<1>2. CASE InitVault \/ SaveRecovery \/ MakeRoot \/ PinRoot
  <2>1. file'.signed = file.signed
    BY <1>2, SaveFields, FileFields DEF InitVault, SaveRecovery, MakeRoot, PinRoot, SaveServed, Raise
  <2>2. pc' \in {"idle", "recovery", "root", "pin", "own root"}
    BY <1>2 DEF InitVault, SaveRecovery, MakeRoot, PinRoot, Raise, Goto
  <2> QED BY <2>1, <2>2 DEF SignedOK
<1>3. CASE PublishRoot \/ SignPuppet \/ ImportPuppet
  <2>1. file' = file /\ pc' \in {"idle", "sign puppet", "import", "services"}
    BY <1>3 DEF PublishRoot, SignPuppet, ImportPuppet, At, Goto, Raise
  <2> QED BY <2>1 DEF SignedOK
<1>4. CASE Middle
  BY <1>4, MiddleStays DEF SignedOK
<1>5. CASE SignServices
  <2>1. file' = file /\ pc' \in {"idle", "save signed", "set signed"}
        /\ (pc' = "set signed" => file.signed # NoCert)
    BY <1>5 DEF SignServices, Raise, Goto
  <2> QED BY <2>1 DEF SignedOK
<1>6. CASE SaveSigned
  <2>1. file'.signed = [n |-> held, key |-> file.request, root |-> vault.root] /\ pc' = "set signed"
    BY <1>6, SaveFields, FileFields DEF SaveSigned, Goto
  <2>2. vault.root # None
    BY <1>6 DEF SaveSigned, At, RootOK, Late
  <2>3. PICK c : c = [n |-> held, key |-> file.request, root |-> vault.root]
    OBVIOUS
  <2>4. c.root # None /\ NoCert.root = None
    BY <2>2, <2>3 DEF NoCert
  <2>5. file'.signed = c
    BY <2>1, <2>3
  <2> QED BY <2>1, <2>4, <2>5 DEF SignedOK
<1>7. CASE SetSigned
  <2>1. file' = file /\ pc = "set signed" /\ pc' = "establish"
    BY <1>7 DEF SetSigned, At, Goto
  <2> QED BY <2>1 DEF SignedOK
<1>8. CASE Establish
  <2>1. CASE ~Unchanged
    BY <1>8, <2>1 DEF Establish, Raise, Goto, SignedOK
  <2>2. CASE Unchanged
    <3>1. /\ pc = "establish" /\ pc' = "access" /\ vault' = vault
          /\ file'.established = Identity /\ file'.signed = file.signed
      BY <1>8, <2>2, SaveFields, FileFields DEF Establish, At, Goto
    <3>2. vault.issuer.cert = file.signed
      BY <2>2 DEF Unchanged
    <3> QED BY <3>1, <3>2 DEF SignedOK, Identity
  <2> QED BY <2>1, <2>2
<1>9. CASE Closing
  BY <1>9, ClosingStays DEF SignedOK, Identity
<1>10. CASE Chown
  BY <1>10, ChownStays DEF SignedOK, Identity
<1> QED BY <1>1, <1>2, <1>3, <1>4, <1>5, <1>6, <1>7, <1>8, <1>9, <1>10 DEF Step, Opening, Middle, Closing

\* The saved leaf is not the temporary certificate: its chain ends in a root.
LEMMA LeafIsNew ==
    ASSUME SignedOK, pc \in Granting
    PROVE  Leaf # Boot
<1>1. vault.issuer.cert.root # None
  BY DEF SignedOK
<1> QED BY <1>1 DEF Leaf, Boot

LEMMA StepKeepsServed ==
    ASSUME TypeOK, RootOK, SignedOK, ServedOK, Step
    PROVE  ServedOK'
<1> USE DEF Late
<1>1. CASE Opening
  BY <1>1, OpeningStays DEF ServedOK
<1>2. CASE InitVault \/ SaveRecovery \/ MakeRoot
  <2>1. pc' \in {"idle", "recovery", "root", "pin"}
    BY <1>2 DEF InitVault, SaveRecovery, MakeRoot, Raise, Goto
  <2> QED BY <2>1 DEF ServedOK
<1>3. CASE PinRoot
  <2>1. CASE ~PinnedRoot
    BY <1>3, <2>1 DEF PinRoot, Raise, Goto, ServedOK
  <2>2. CASE PinnedRoot
    <3>1. /\ pc' = "own root" /\ file'.ca = [root |-> vault.root, boot |-> file.boot]
          /\ file'.boot = file.boot
      BY <1>3, <2>2, SaveFields, FileFields DEF PinRoot, SaveServed, Raise, Goto
    <3>2. [root |-> vault.root, boot |-> file.boot].boot = file.boot
      OBVIOUS
    <3>3. file'.ca.boot = file'.boot
      BY <3>1, <3>2
    <3> QED BY <3>1, <3>3 DEF ServedOK
  <2> QED BY <2>1, <2>2
<1>4. CASE PublishRoot \/ SignPuppet \/ ImportPuppet
  <2>1. /\ file' = file /\ pc' \in {"idle", "sign puppet", "import", "services"}
        /\ pc \in {"trust", "sign puppet", "import"}
    BY <1>4 DEF PublishRoot, SignPuppet, ImportPuppet, At, Goto, Raise
  <2> QED BY <2>1 DEF ServedOK
<1>5. CASE Middle
  BY <1>5, MiddleStays DEF ServedOK
<1>6. CASE SignServices \/ SaveSigned \/ SetSigned \/ Establish
  <2>1. /\ pc \in {"sign", "save signed", "set signed", "establish"}
        /\ pc' \in {"idle", "save signed", "set signed", "establish", "access"}
    BY <1>6 DEF SignServices, SaveSigned, SetSigned, Establish, At, Goto, Raise
  <2>2. file'.ca = file.ca /\ file'.boot = file.boot
    BY <1>6, SaveFields, FileFields DEF SignServices, SaveSigned, SetSigned, Establish, Raise
  <2> QED BY <2>1, <2>2 DEF ServedOK
<1>7. CASE Closing
  <2>c. /\ pc \in Granting /\ vault'.root = vault.root /\ file'.boot = file.boot
        /\ Boot' = Boot
    BY <1>7, ClosingStays DEF Boot
  <2>1. CASE Access
    <3>1. file' = file /\ pc = "access" /\ pc' \in {"leaf", "idle"}
      BY <2>1 DEF Access, Raise, At, Goto
    <3> QED BY <3>1 DEF ServedOK
  <2>2. CASE IssueLeaf
    <3>1. /\ file' = file /\ pc = "leaf" /\ pc' \in {"save key", "system"}
          /\ pc' = "system" => file.chain # Boot
      BY <2>2 DEF IssueLeaf, At, Goto
    <3> QED BY <3>1, <2>c DEF ServedOK
  <2>3. CASE SaveLeaf
    <3>1. /\ pc \in {"save key", "save chain"} /\ pc' \in {"own leaf", "own leaf chain"}
          /\ file'.ca = file.ca
          /\ pc' = "own leaf chain" => file'.chain = Leaf
      BY <2>3, SaveFields, FileFields DEF SaveLeaf, SaveServed, At, Goto
    <3> QED BY <3>1, <2>c, LeafIsNew DEF ServedOK
  <2>4. CASE TrustSystem
    <3>1. CASE pc' = "idle"
      BY <3>1 DEF ServedOK
    <3>2. CASE pc' # "idle"
      <4>1. pc = "system" /\ pc' = "restart" /\ Save("system", vault.root)
        BY <2>4, <3>2 DEF TrustSystem, Raise, At, Goto
      <4>2. file'.system = vault.root /\ file'.ca = file.ca /\ file'.chain = file.chain
        BY <4>1, SaveFields, FileFields
      <4> QED BY <4>1, <4>2, <2>c DEF ServedOK
    <3> QED BY <3>1, <3>2
  <2>5. CASE RestartVault
    <3>1. /\ UNCHANGED <<file, owned, vault>> /\ pc = "restart" /\ pc' = "final"
          /\ listener' \in {Pair, NoTls}
      BY <2>5 DEF RestartVault, Started, At, Goto
    <3>2. Pair' = Pair
      BY <3>1 DEF Pair
    <3> QED BY <3>1, <3>2, <2>c DEF ServedOK
  <2>6. CASE SaveCa
    <3>1. CASE ~Answers
      BY <2>6, <3>1 DEF SaveCa, Raise, Goto, ServedOK
    <3>2. CASE Answers
      <4>1. /\ pc = "final" /\ pc' = "own final" /\ listener' = listener
            /\ file'.ca = [root |-> vault.root, boot |-> None]
            /\ file'.system = file.system /\ file'.key = file.key /\ file'.chain = file.chain
            /\ owned' = owned \ {"ca"}
        BY <2>6, <3>2, SaveFields, FileFields DEF SaveCa, SaveServed, Raise, At, Goto
      <4>2. Pair' = Pair /\ listener # NoTls /\ listener = Pair
        BY <3>2, <4>1 DEF Pair, Answers, ServedOK
      <4>3. listener = file.chain /\ file.chain # Boot
        BY <4>1, <4>2 DEF Pair, ServedOK
      <4>4. listener \in [n : Nat, root : Nat]
        BY DEF TypeOK
      <4>5. listener.root # None
        <5> SUFFICES ASSUME listener.root = None PROVE FALSE
          OBVIOUS
        <5>1. listener.n = file.boot
          BY <3>2, <4>1 DEF Answers, ServedOK
        <5> QED BY <4>3, <4>4, <5>1 DEF Boot
      <4>6. listener.root = vault.root
        BY <3>2, <4>1, <4>5 DEF Answers, RootOK
      <4> QED BY <2>c, <4>1, <4>2, <4>6 DEF ServedOK
    <3> QED BY <3>1, <3>2
  <2>7. CASE Finish
    BY <2>7 DEF Finish, Goto, ServedOK
  <2> QED BY <1>7, <2>1, <2>2, <2>3, <2>4, <2>5, <2>6, <2>7 DEF Closing
<1>8. CASE Chown
  <2>1. UNCHANGED <<file, vault, listener>> /\ Boot' = Boot
    BY <1>8, ChownStays DEF Boot
  <2>2. CASE pc = "own final"
    <3>1. pc' = "deploy" /\ owned' = owned \cup {"ca"}
      BY <1>8, <2>2, ChownStays
    <3>2. Pair' = Pair
      BY <2>1, <3>1 DEF Pair
    <3> QED BY <2>1, <2>2, <3>1, <3>2 DEF ServedOK
  <2>3. CASE pc # "own final"
    <3>1. /\ pc' \in {"chain", "ca", "up", "trust", "save chain", "system"}
          /\ pc' \in Late => pc \in Late \ {"deploy"}
          /\ pc' = "system" => pc = "own leaf chain"
      BY <1>8, <2>3, ChownStays
    <3> QED BY <2>1, <2>3, <3>1 DEF ServedOK
  <2> QED BY <2>2, <2>3
<1> QED BY <1>1, <1>2, <1>3, <1>4, <1>5, <1>6, <1>7, <1>8 DEF Step, Opening, Middle, Closing

\* Only a loss is counted as one.
LEMMA AuthoritiesLoseNothing == Authorities => UNCHANGED losses
<1> SUFFICES ASSUME Authorities PROVE losses' = losses
  OBVIOUS
<1>1. CASE Begin \/ Stop \/ MakeVolumes \/ MakeTransport \/ InstallTransport \/ Chown
  BY <1>1 DEF Begin, Stop, MakeVolumes, MakeTransport, InstallTransport, Chown
<1>2. CASE StartVault \/ InitVault \/ SaveRecovery \/ MakeRoot \/ PinRoot
  BY <1>2 DEF StartVault, InitVault, SaveRecovery, MakeRoot, PinRoot, Raise
<1>3. CASE PublishRoot \/ SignPuppet \/ ImportPuppet \/ MountServices \/ MakeRequest
  BY <1>3 DEF PublishRoot, SignPuppet, ImportPuppet, MountServices, MakeRequest, Raise
<1>4. CASE SaveRequest \/ SignServices \/ SaveSigned \/ SetSigned \/ Establish
  BY <1>4 DEF SaveRequest, SignServices, SaveSigned, SetSigned, Establish, Raise
<1>5. CASE Access \/ IssueLeaf \/ SaveLeaf \/ TrustSystem \/ RestartVault \/ SaveCa \/ Finish
  BY <1>5 DEF Access, IssueLeaf, SaveLeaf, TrustSystem, RestartVault, SaveCa, Finish, Raise
<1> QED BY <1>1, <1>2, <1>3, <1>4, <1>5 DEF Authorities, Step

\* A step belongs to a run, and only the last one ends the initialization.
LEMMA StepEnds ==
    ASSUME TypeOK, Step
    PROVE  /\ pc # "idle" /\ losses' = losses
           /\ Finish \/ done' = done
<1>1. losses' = losses
  BY AuthoritiesLoseNothing DEF Authorities
<1>5. CASE Chown
  BY <1>1, <1>5, ChownStays
<1>2. CASE Opening \/ InitVault \/ SaveRecovery \/ MakeRoot \/ PinRoot
  BY <1>1, <1>2 DEF Opening, MakeVolumes, MakeTransport, InstallTransport, StartVault, InitVault, SaveRecovery,
         MakeRoot, PinRoot, At, Raise
<1>3. CASE PublishRoot \/ SignPuppet \/ ImportPuppet \/ Middle
  BY <1>1, <1>3 DEF PublishRoot, SignPuppet, ImportPuppet, Middle, MountServices, MakeRequest, SaveRequest, At, Raise
<1>4. CASE SignServices \/ SaveSigned \/ SetSigned \/ Establish \/ Closing
  BY <1>1, <1>4 DEF SignServices, SaveSigned, SetSigned, Establish, Closing, Access, IssueLeaf, SaveLeaf,
         TrustSystem, RestartVault, SaveCa, Finish, At, Raise
<1> QED BY <1>2, <1>3, <1>4, <1>5 DEF Step, Opening, Middle, Closing

LEMMA NextKeepsRun ==
    ASSUME TypeOK, RootOK, RunOK, [Next]_vars
    PROVE  RunOK'
<1> USE DEF RunOK
<1>b. losses \in Nat
  BY BoundsAssumption DEF TypeOK
<1>1. CASE UNCHANGED vars
  BY <1>1 DEF vars, KeysOK, SignedOK, ServedOK, DoneOK, Identity, Boot, Pair
<1>2. CASE Step
  <2>1. KeysOK' /\ SignedOK' /\ ServedOK'
    BY <1>2, StepKeepsKeys, StepKeepsSigned, StepKeepsServed
  <2>2. DoneOK'
    <3>1. CASE Finish
      <4>1. vols = Volumes /\ vols' = vols /\ pc' = "idle" /\ ~file'.checkpoint
        BY <3>1, SaveFields, FileFields DEF Finish, At, Goto, TypeOK, Late
      <4> QED BY <4>1 DEF DoneOK, Volumes
    <3>2. CASE ~Finish
      BY <1>2, <3>2, StepEnds DEF DoneOK
    <3> QED BY <3>1, <3>2
  <2> QED BY <2>1, <2>2
<1>3. CASE Begin
  <2>1. pc' = "volumes" /\ file'.signed = file.signed /\ done' = done /\ losses' = losses
    BY <1>3, SaveFields, FileFields DEF Begin, Goto
  <2>2. ~(done /\ losses <= 1)
    BY <1>3 DEF Begin, DoneOK
  <2> QED BY <2>1, <2>2 DEF KeysOK, SignedOK, ServedOK, DoneOK, Rooted, Serving, Granting, Late
<1>4. CASE Stop
  <2>1. pc' = "idle" /\ UNCHANGED <<file, vols, done, losses>>
    BY <1>4 DEF Stop, Goto
  <2> QED BY <2>1 DEF KeysOK, SignedOK, ServedOK, DoneOK, Rooted, Serving, Granting, Late
<1>5. CASE Lose
  <2>1. pc' = "idle" /\ done' = done /\ losses' = losses + 1
    BY <1>5 DEF Lose, At
  <2>2. file'.signed \in {file.signed, NoCert} /\ (~file.checkpoint => ~file'.checkpoint)
    <3>1. CASE UNCHANGED file
      BY <3>1
    <3>2. ASSUME NEW f \in DOMAIN file, file' = [file EXCEPT ![f] = NoFiles[f]]
          PROVE  <2>2!:
      BY <3>2 DEF TypeOK, Files, NoFiles
    <3> QED BY <1>5, <3>1, <3>2 DEF Lose, SaveServed, Save
  <2>3. vols' \in {vols, vols \ {"vault"}, vols \ {"openvox"}}
    BY <1>5 DEF Lose
  <2>4. losses' <= 1 => losses = 0 /\ losses <= 1
    BY <1>b, <2>1
  <2>5. DoneOK'
    BY <1>b, <2>1, <2>2, <2>3, <2>4 DEF DoneOK, Volumes
  <2> QED BY <2>1, <2>2, <2>5 DEF KeysOK, SignedOK, ServedOK, Rooted, Serving, Granting, Late
<1> QED BY <1>1, <1>2, <1>3, <1>4, <1>5 DEF Next

LEMMA RunHolds == Spec => []RunOK
<1>1. Init => RunOK
  BY DEF Init, RunOK, KeysOK, SignedOK, ServedOK, DoneOK, NoFiles, NoCert, Rooted, Serving, Granting, Late
<1>2. Inv /\ RunOK /\ [Next]_vars => RunOK'
  BY NextKeepsRun DEF Inv
<1> QED BY <1>1, <1>2, InvHolds, PTL DEF Spec

\* The run that removes the checkpoint leaves nothing half done by the runs before it, however
\* often these were stopped and whichever one thing was lost.
THEOREM FinishedHolds == Spec => FinishedIsComplete
<1> DEFINE Complete ==
        /\ vols = Volumes
        /\ file.recovery = vault.init /\ vault.init # None
        /\ vault.root # None /\ Roots = {vault.root}
        /\ listener = file.key /\ file.key = file.chain /\ file.key.root = vault.root
        /\ file.ca = [root |-> vault.root, boot |-> None]
        /\ file.system = vault.root /\ owned = Served
        /\ vault.issuer # NoIssuer /\ file.established = Identity
        /\ puppet.ca # "none"
<1>1. ASSUME Inv, RunOK, Finish, losses <= 1 PROVE Complete
  <2>1. pc = "deploy" /\ TypeOK /\ RootOK /\ KeysOK /\ SignedOK /\ ServedOK
    BY <1>1 DEF Finish, At, Inv, RunOK
  <2>2. vols = Volumes
    BY <2>1 DEF TypeOK, Late
  <2>3. file.recovery = vault.init /\ vault.init # None /\ puppet.ca # "none"
    BY <2>1 DEF KeysOK, Rooted, Serving, Late
  <2>4. vault.root # None
    BY <2>1 DEF RootOK, Late
  <2>5. Roots = {vault.root}
    <3>1. PICK r \in Nat \ {None} : AllGoBackTo(r)
      BY <1>1, <2>1 DEF RootOK
    <3> QED BY <2>4, <3>1 DEF Roots, AllGoBackTo
  <2>6. /\ listener = Pair /\ listener # NoTls /\ listener.root = vault.root /\ "ca" \in owned
        /\ file.ca = [root |-> vault.root, boot |-> None] /\ file.system = vault.root
    BY <2>1 DEF ServedOK
  <2>7. listener = file.key /\ file.key = file.chain /\ file.key.root = vault.root
    BY <2>6 DEF Pair
  <2>10. owned = Served
    BY <2>1, <2>6 DEF Pair, Served, TypeOK
  <2>8. vault.issuer.cert # NoCert /\ file.established = Identity
    BY <2>1 DEF SignedOK, Granting
  <2>9. vault.issuer # NoIssuer
    BY <2>8 DEF NoIssuer
  <2> QED BY <2>2, <2>3, <2>4, <2>5, <2>6, <2>7, <2>8, <2>9, <2>10
<1>2. Inv /\ RunOK /\ [Next]_vars => [Finish /\ losses <= 1 => Complete]_vars
  BY <1>1
<1> QED BY <1>2, InvHolds, RunHolds, PTL DEF Spec, FinishedIsComplete

-------------------------------------------------------------------------------
(* FreeIPA. *)

\* Preparing FreeIPA reads the authorities and changes nothing of them: seen without FreeIPA,
\* the two programs together are the first one alone, so its theorems hold of both.
THEOREM ImplementsAuthorities == IpaSpec => Spec
<1>1. IpaInit => Init
  BY DEF IpaInit
<1>2. [IpaNext]_allVars => [Next]_vars
  BY DEF IpaNext, Authorities, LoseBelow, Next, allVars
<1> QED BY <1>1, <1>2, PTL DEF IpaSpec, Spec

EngineTypes == [mounted : BOOLEAN, keys : SUBSET Nat, issuer : [id : Nat, cert : Certs]]
DataTypes == [made : BOOLEAN, installed : BOOLEAN, password : Nat, leaf : IpaLeaves]
IpaSteps == {"idle", "volume", "root", "mount", "request", "save request", "sign",
             "save signed", "set signed", "establish"} \cup Prepared

StateTyped ==
    /\ inputs \in Inputs /\ engine \in EngineTypes /\ data \in DataTypes
    /\ ipc \in IpaSteps
    /\ answer \in Nat /\ count \in Nat /\ istops \in Nat /\ ilosses \in Nat

Ordered ==
    /\ ipc # "idle" => done /\ pc = "idle"
    /\ ipc \in Prepared => inputs.established = IpaIdentity

LEMMA IpaTypeSplit == IpaTypeOK <=> StateTyped /\ Ordered
BY DEF IpaTypeOK, StateTyped, Ordered, EngineTypes, DataTypes, IpaSteps

LEMMA IpaNonesTyped ==
    /\ NoLeaf \in IpaLeaves /\ NoInputs \in Inputs /\ NoEngine \in EngineTypes
    /\ NoData \in DataTypes /\ NoCert \in Certs /\ NoIdentity \in [id : Nat, key : Nat]
    /\ NoIssuer \in [id : Nat, cert : Certs]
BY DEF NoLeaf, NoInputs, NoEngine, NoData, IpaLeaves, Inputs, EngineTypes, DataTypes,
       NoCert, NoIdentity, NoIssuer, None, Certs

\* What the steps save.
LEMMA IpaMadeTyped ==
    ASSUME TypeOK, StateTyped
    PROVE  /\ IpaIdentity \in [id : Nat, key : Nat] /\ IpaLeaf \in IpaLeaves
           /\ [n |-> answer, key |-> inputs.request, root |-> vault.root] \in Certs
           /\ vault.root \in Nat /\ Another \in Nat /\ inputs.installer \in Nat
           /\ inputs.signed \in Certs
BY DEF TypeOK, Vaults, StateTyped, Inputs, EngineTypes, IpaIdentity, IpaLeaf, Another, Certs, IpaLeaves

LEMMA SaveNumber ==
    ASSUME StateTyped, NEW f \in {"request", "ca", "installer", "options"}, NEW v \in Nat,
           SaveInput(f, v)
    PROVE  inputs' \in Inputs /\ inputs'.established = inputs.established
BY DEF StateTyped, Inputs, SaveInput

LEMMA SaveHalf ==
    ASSUME StateTyped, NEW f \in {"chain", "key"}, NEW v \in IpaLeaves, SaveInput(f, v)
    PROVE  inputs' \in Inputs /\ inputs'.established = inputs.established
BY DEF StateTyped, Inputs, SaveInput

LEMMA SaveOneCert ==
    ASSUME StateTyped, NEW v \in Certs, SaveInput("signed", v)
    PROVE  inputs' \in Inputs
BY DEF StateTyped, Inputs, SaveInput

LEMMA SaveIdentity ==
    ASSUME StateTyped, NEW v \in [id : Nat, key : Nat], SaveInput("established", v)
    PROVE  inputs' \in Inputs /\ inputs'.established = v
BY DEF StateTyped, Inputs, SaveInput

LEMMA IpaStepTyped == ASSUME TypeOK, StateTyped, IpaStep PROVE StateTyped'
<1> USE DEF StateTyped
<1>1. CASE MakeData
  BY <1>1 DEF MakeData, IpaGoto, DataTypes, IpaSteps
<1>2. CASE CheckRoot
  BY <1>2 DEF CheckRoot, IpaRaise, IpaGoto, IpaSteps
<1>3. CASE MountIpa
  BY <1>3 DEF MountIpa, IpaRaise, IpaGoto, IpaSteps, EngineTypes
<1>4. CASE RequestIpa
  <2>1. count' \in Nat /\ answer' \in Nat
    BY <1>4, IpaMadeTyped DEF RequestIpa, IpaRaise
  <2>2. engine' = engine \/ engine' = [engine EXCEPT !.keys = {Another}]
    BY <1>4 DEF RequestIpa, IpaRaise
  <2>3. engine' \in EngineTypes
    BY <2>2, IpaMadeTyped DEF EngineTypes
  <2> QED BY <1>4, <2>1, <2>3 DEF RequestIpa, IpaRaise, IpaGoto, IpaSteps
<1>5. CASE SaveIpaRequest
  BY <1>5, SaveNumber DEF SaveIpaRequest, IpaGoto, IpaSteps
<1>6. CASE SignIpa
  BY <1>6, IpaMadeTyped DEF SignIpa, IpaRaise, IpaGoto, IpaSteps
<1>7. CASE SaveIpaSigned
  BY <1>7, IpaMadeTyped, SaveOneCert DEF SaveIpaSigned, IpaGoto, IpaSteps
<1>8. CASE SetIpaSigned
  <2>1. count' \in Nat
    BY <1>8, IpaMadeTyped DEF SetIpaSigned
  <2>2. engine' = engine \/ engine' = [engine EXCEPT !.issuer = [id |-> Another, cert |-> inputs.signed]]
    BY <1>8 DEF SetIpaSigned
  <2>3. [id |-> Another, cert |-> inputs.signed] \in [id : Nat, cert : Certs]
    BY IpaMadeTyped
  <2>4. engine' \in EngineTypes
    BY <2>2, <2>3 DEF EngineTypes
  <2> QED BY <1>8, <2>1, <2>4 DEF SetIpaSigned, IpaGoto, IpaSteps
<1>9. CASE EstablishIpa
  BY <1>9, IpaMadeTyped, SaveIdentity DEF EstablishIpa, IpaRaise, IpaGoto, IpaSteps, Prepared
<1>10. CASE IssuePair
  BY <1>10, IpaMadeTyped DEF IssuePair, IpaRaise, IpaGoto, IpaSteps, Prepared
<1>11. CASE SavePair
  BY <1>11, IpaMadeTyped, SaveHalf DEF SavePair, IpaGoto, IpaSteps, Prepared
<1>12. CASE SaveIpaCa
  BY <1>12, IpaMadeTyped, SaveNumber DEF SaveIpaCa, IpaGoto, IpaSteps, Prepared
<1>13. CASE SavePasswords
  BY <1>13, IpaMadeTyped, SaveNumber DEF SavePasswords, IpaGoto, IpaSteps, Prepared
<1>14. CASE SaveOptions
  BY <1>14, IpaMadeTyped, SaveNumber DEF SaveOptions, IpaGoto, IpaSteps, Prepared
<1> QED BY <1>1, <1>2, <1>3, <1>4, <1>5, <1>6, <1>7, <1>8, <1>9, <1>10, <1>11, <1>12, <1>13, <1>14
        DEF IpaStep

LEMMA IpaAroundTyped ==
    ASSUME StateTyped, IpaBegin \/ IpaStop \/ StartServer \/ IpaLose \/ LoseBelow
    PROVE  StateTyped'
<1> USE DEF StateTyped
<1>1. CASE IpaBegin
  BY <1>1 DEF IpaBegin, IpaGoto, IpaSteps
<1>2. CASE IpaStop
  <2>1. istops' = istops + 1 /\ ipc' = "idle"
        /\ UNCHANGED <<inputs, engine, data, answer, count, ilosses>>
    BY <1>2 DEF IpaStop, IpaGoto
  <2>2. istops' \in Nat
    BY <2>1
  <2>3. ipc' \in IpaSteps
    BY <2>1 DEF IpaSteps
  <2> QED BY <2>1, <2>2, <2>3
<1>3. CASE StartServer
  BY <1>3 DEF StartServer, Inputs, DataTypes
<1>4. CASE IpaLose
  <2>1. inputs' \in Inputs
    <3>1. ASSUME NEW f \in DOMAIN inputs, inputs' = [inputs EXCEPT ![f] = NoInputs[f]]
          PROVE  inputs' \in Inputs
      BY <3>1, IpaNonesTyped DEF Inputs
    <3> QED BY <1>4, <3>1 DEF IpaLose
  <2>2. engine' \in EngineTypes
    BY <1>4, IpaNonesTyped DEF IpaLose, EngineTypes
  <2>3. data' \in DataTypes /\ ilosses' \in Nat
    BY <1>4, IpaNonesTyped DEF IpaLose
  <2> QED BY <1>4, <2>1, <2>2, <2>3 DEF IpaLose
<1>5. CASE LoseBelow
  BY <1>5, IpaNonesTyped DEF LoseBelow
<1> QED BY <1>1, <1>2, <1>3, <1>4, <1>5

LEMMA IpaStepOrdered == ASSUME TypeOK, StateTyped, Ordered, IpaStep, UNCHANGED vars PROVE Ordered'
<1> USE DEF Ordered, Prepared
<1>1. done' /\ pc' = "idle"
  BY DEF IpaStep, vars, MakeData, CheckRoot, MountIpa, RequestIpa, SaveIpaRequest, SignIpa,
         SaveIpaSigned, SetIpaSigned, EstablishIpa, IssuePair, SavePair, SaveIpaCa, SavePasswords,
         SaveOptions, IpaAt
<1>2. CASE MakeData \/ CheckRoot \/ MountIpa \/ RequestIpa \/ SaveIpaRequest
  BY <1>1, <1>2 DEF MakeData, CheckRoot, MountIpa, RequestIpa, SaveIpaRequest, IpaRaise, IpaGoto
<1>3. CASE SignIpa \/ SaveIpaSigned \/ SetIpaSigned
  BY <1>1, <1>3 DEF SignIpa, SaveIpaSigned, SetIpaSigned, IpaRaise, IpaGoto
<1>4. CASE EstablishIpa
  <2>1. CASE IpaUnchanged
    <3>1. inputs'.established = IpaIdentity /\ engine' = engine
      BY <1>4, <2>1, IpaMadeTyped, SaveIdentity DEF EstablishIpa
    <3> QED BY <1>1, <3>1 DEF IpaIdentity
  <2>2. CASE ~IpaUnchanged
    BY <1>4, <2>2 DEF EstablishIpa, IpaRaise, IpaGoto
  <2> QED BY <2>1, <2>2
<1>5. CASE IssuePair
  BY <1>1, <1>5 DEF IssuePair, IpaAt, IpaRaise, IpaGoto, IpaIdentity
<1>6. CASE SavePair \/ SaveIpaCa
  <2>1. inputs'.established = inputs.established /\ engine' = engine /\ ipc \in Prepared
    BY <1>6, IpaMadeTyped, SaveHalf, SaveNumber DEF SavePair, SaveIpaCa, IpaAt
  <2> QED BY <1>1, <2>1 DEF IpaIdentity
<1>7. CASE SavePasswords \/ SaveOptions
  <2>1. inputs'.established = inputs.established /\ engine' = engine /\ ipc \in Prepared
    BY <1>7, IpaMadeTyped, SaveNumber DEF SavePasswords, SaveOptions, IpaAt
  <2> QED BY <1>1, <2>1 DEF IpaIdentity
<1> QED BY <1>2, <1>3, <1>4, <1>5, <1>6, <1>7 DEF IpaStep

LEMMA IpaNextTyped ==
    ASSUME TypeOK, IpaTypeOK, [IpaNext]_allVars
    PROVE  IpaTypeOK'
<1>1. StateTyped /\ Ordered
  BY IpaTypeSplit
<1>2. SUFFICES StateTyped' /\ Ordered'
  BY DEF IpaTypeOK, StateTyped, Ordered, EngineTypes, DataTypes, IpaSteps
<1>3. CASE UNCHANGED allVars
  BY <1>1, <1>3 DEF allVars, vars, ipaVars, StateTyped, Ordered, IpaIdentity
<1>4. CASE Authorities /\ IpaAt("idle") /\ UNCHANGED ipaVars
  BY <1>1, <1>4 DEF ipaVars, StateTyped, Ordered, IpaAt, Prepared
<1>5. CASE IpaStep /\ UNCHANGED vars
  BY <1>1, <1>5, IpaStepTyped, IpaStepOrdered
<1>6. CASE (IpaBegin \/ IpaStop \/ IpaLose) /\ UNCHANGED vars
  <2>1. Ordered'
    BY <1>6 DEF IpaBegin, IpaStop, IpaLose, IpaAt, At, IpaGoto, Ordered, Prepared, vars
  <2> QED BY <1>1, <1>6, <2>1, IpaAroundTyped
<1>7. CASE StartServer /\ UNCHANGED vars
  <2>1. Ordered'
    BY <1>1, <1>7 DEF StartServer, Ordered, vars, IpaIdentity
  <2> QED BY <1>1, <1>7, <2>1, IpaAroundTyped
<1>8. CASE LoseBelow
  <2>1. Ordered'
    BY <1>8 DEF LoseBelow, IpaAt, Ordered, Prepared
  <2> QED BY <1>1, <1>8, <2>1, IpaAroundTyped
<1> QED BY <1>3, <1>4, <1>5, <1>6, <1>7, <1>8 DEF IpaNext

\* FreeIPA's variables keep their types for any number of stops and losses; a run follows a
\* finished initialization and issues only from the issuer whose identity it saved.
THEOREM IpaTypeCorrect == IpaSpec => []IpaTypeOK
<1>1. IpaInit => IpaTypeOK
  <2> SUFFICES ASSUME IpaInit PROVE StateTyped /\ Ordered
    BY IpaTypeSplit
  <2>1. answer \in Nat /\ ipc \in IpaSteps
    BY DEF IpaInit, None, IpaSteps
  <2> QED BY <2>1, IpaNonesTyped DEF IpaInit, StateTyped, Ordered, Prepared
<1>2. IpaSpec => []TypeOK
  BY ImplementsAuthorities, TypeCorrect, PTL
<1> QED BY <1>1, <1>2, IpaNextTyped, PTL DEF IpaSpec

-------------------------------------------------------------------------------
(* What a server is installed from.  The options are saved last, so once they are there the    *)
(* pair is whole; a pair is only issued when both halves are missing, and passwords when there *)
(* are none: a later run changes nothing of what an installation may already have read.        *)

SavedInOrder ==
    /\ inputs.chain # NoLeaf /\ inputs.key # NoLeaf => inputs.chain = inputs.key
    /\ inputs.options # None =>
            /\ inputs.options = inputs.installer
            /\ inputs.chain # NoLeaf /\ inputs.chain = inputs.key
    /\ data.installed =>
            /\ inputs.options # None
            /\ data.password = inputs.options /\ data.leaf = inputs.chain

IssuedInOrder ==
    /\ ipc \in {"save chain", "save key"} => answer # None /\ inputs.key = NoLeaf
    /\ ipc = "save chain" => inputs.chain = NoLeaf
    /\ ipc = "save key" => inputs.chain = IpaLeaf
    /\ ipc \in {"ca", "passwords", "options"} =>
            inputs.chain # NoLeaf /\ inputs.chain = inputs.key
    /\ ipc = "options" => inputs.installer # None

Issuing == {"save chain", "save key", "ca", "passwords", "options"}

InOrder == Lost = 0 => SavedInOrder /\ IssuedInOrder

\* Steps that save nothing and do not issue.
LEMMA OrderKept ==
    ASSUME InOrder, UNCHANGED <<inputs, data>>, Lost' = Lost, ipc' \notin Issuing
    PROVE  InOrder'
BY DEF InOrder, SavedInOrder, IssuedInOrder, Issuing

LEMMA LossEnds ==
    ASSUME TypeOK, StateTyped, LoseBelow \/ (IpaLose /\ UNCHANGED vars)
    PROVE  InOrder'
<1>1. losses \in Nat /\ ilosses \in Nat
  BY BoundsAssumption DEF TypeOK, StateTyped
<1>2. CASE LoseBelow
  <2>1. losses' = losses + 1 /\ ilosses' = ilosses
    BY <1>2 DEF LoseBelow, Lose
  <2> QED BY <1>1, <2>1 DEF InOrder, Lost
<1>3. CASE IpaLose /\ UNCHANGED vars
  <2>1. losses' = losses /\ ilosses' = ilosses + 1
    BY <1>3 DEF IpaLose, vars
  <2> QED BY <1>1, <2>1 DEF InOrder, Lost
<1> QED BY <1>2, <1>3

LEMMA IpaStepKeepsOrder ==
    ASSUME TypeOK, StateTyped, InOrder, IpaStep, UNCHANGED vars
    PROVE  InOrder'
<1>1. Lost' = Lost
  BY DEF IpaStep, Lost, vars, MakeData, CheckRoot, MountIpa, RequestIpa, SaveIpaRequest, SignIpa,
         SaveIpaSigned, SetIpaSigned, EstablishIpa, IssuePair, SavePair, SaveIpaCa, SavePasswords,
         SaveOptions, IpaRaise
<1>2. Another # None
  BY DEF StateTyped, Another, None
<1>3. CASE CheckRoot \/ MountIpa \/ RequestIpa \/ SignIpa \/ SetIpaSigned
  <2>1. UNCHANGED <<inputs, data>> /\ ipc' \notin Issuing
    BY <1>3 DEF CheckRoot, MountIpa, RequestIpa, SignIpa, SetIpaSigned, IpaRaise, IpaGoto, Issuing
  <2> QED BY <1>1, <2>1, OrderKept
<1>4. CASE MakeData
  <2>1. inputs' = inputs /\ ipc' \notin Issuing
        /\ data'.installed = data.installed /\ data'.password = data.password /\ data'.leaf = data.leaf
    BY <1>4 DEF MakeData, IpaGoto, Issuing, StateTyped, DataTypes
  <2> QED BY <1>1, <2>1 DEF InOrder, SavedInOrder, IssuedInOrder, Issuing
<1>5. CASE SaveIpaRequest \/ SaveIpaSigned \/ EstablishIpa
  <2>1. data' = data /\ ipc' \notin Issuing
    BY <1>5 DEF SaveIpaRequest, SaveIpaSigned, EstablishIpa, IpaRaise, IpaGoto, Issuing
  <2>2. /\ inputs'.options = inputs.options /\ inputs'.installer = inputs.installer
        /\ inputs'.chain = inputs.chain /\ inputs'.key = inputs.key
    <3>1. \A f \in {"request", "signed", "established"} : \A v : SaveInput(f, v) =>
            /\ inputs'.options = inputs.options /\ inputs'.installer = inputs.installer
            /\ inputs'.chain = inputs.chain /\ inputs'.key = inputs.key
      BY DEF SaveInput, StateTyped, Inputs
    <3> QED BY <1>5, <3>1 DEF SaveIpaRequest, SaveIpaSigned, EstablishIpa, IpaRaise
  <2> QED BY <1>1, <2>1, <2>2 DEF InOrder, SavedInOrder, IssuedInOrder, Issuing
<1>6. CASE IssuePair
  <2>1. UNCHANGED <<inputs, data, engine>>
    BY <1>6 DEF IssuePair, IpaRaise
  <2>2. \/ ipc' = "save chain" /\ answer' # None /\ inputs.chain = NoLeaf /\ inputs.key = NoLeaf
        \/ ipc' = "ca" /\ inputs.chain # NoLeaf /\ inputs.key # NoLeaf
        \/ ipc' \notin Issuing
    BY <1>2, <1>6 DEF IssuePair, IpaRaise, IpaGoto, Issuing
  <2>3. CASE ipc' = "ca"
    BY <1>1, <2>1, <2>2, <2>3 DEF InOrder, SavedInOrder, IssuedInOrder, Issuing
  <2> QED BY <1>1, <2>1, <2>2, <2>3 DEF InOrder, SavedInOrder, IssuedInOrder, Issuing
<1>7. CASE SavePair
  <2> SUFFICES ASSUME Lost = 0 PROVE SavedInOrder' /\ IssuedInOrder'
    BY <1>1 DEF InOrder
  <2>1. SavedInOrder /\ IssuedInOrder
    BY DEF InOrder
  <2>2. IpaLeaf' = IpaLeaf /\ data' = data /\ answer' = answer
    BY <1>7 DEF SavePair, IpaLeaf
  <2>3. inputs.options = None /\ ~data.installed
    BY <1>7, <2>1 DEF SavePair, IpaAt, SavedInOrder, IssuedInOrder
  <2>4. CASE IpaAt("save chain") /\ SaveInput("chain", IpaLeaf) /\ IpaGoto("save key")
    <3>1. inputs'.options = inputs.options /\ inputs'.key = inputs.key /\ inputs'.chain = IpaLeaf
      BY <2>4 DEF SaveInput, StateTyped, Inputs
    <3> QED BY <2>1, <2>2, <2>3, <2>4, <3>1
            DEF SavedInOrder, IssuedInOrder, IpaAt, IpaGoto
  <2>5. CASE IpaAt("save key") /\ SaveInput("key", IpaLeaf) /\ IpaGoto("ca")
    <3>1. inputs'.options = inputs.options /\ inputs'.key = IpaLeaf /\ inputs'.chain = inputs.chain
      BY <2>5 DEF SaveInput, StateTyped, Inputs
    <3>2. inputs.chain = IpaLeaf /\ answer # None
      BY <2>1, <2>5 DEF IssuedInOrder, IpaAt
    <3>3. IpaLeaf # NoLeaf
      BY <3>2 DEF IpaLeaf, NoLeaf
    <3> QED BY <2>2, <2>3, <2>5, <3>1, <3>2, <3>3 DEF SavedInOrder, IssuedInOrder, IpaGoto
  <2> QED BY <1>7, <2>4, <2>5 DEF SavePair
<1>8. CASE SaveIpaCa \/ SavePasswords \/ SaveOptions
  <2> SUFFICES ASSUME Lost = 0 PROVE SavedInOrder' /\ IssuedInOrder'
    BY <1>1 DEF InOrder
  <2>1. SavedInOrder /\ IssuedInOrder
    BY DEF InOrder
  <2>2. data' = data /\ inputs.chain # NoLeaf /\ inputs.chain = inputs.key
    BY <1>8, <2>1 DEF SaveIpaCa, SavePasswords, SaveOptions, IpaAt, IssuedInOrder
  <2>3. \A f \in {"ca", "installer", "options"} : \A v :
            SaveInput(f, v) => inputs'.chain = inputs.chain /\ inputs'.key = inputs.key
    BY DEF SaveInput, StateTyped, Inputs
  <2>4. inputs'.chain = inputs.chain /\ inputs'.key = inputs.key
    BY <1>8, <2>3 DEF SaveIpaCa, SavePasswords, SaveOptions
  <2>5. CASE SaveIpaCa
    <3>1. inputs'.options = inputs.options /\ inputs'.installer = inputs.installer /\ ipc' = "passwords"
      BY <2>5 DEF SaveIpaCa, SaveInput, IpaGoto, StateTyped, Inputs
    <3> QED BY <2>1, <2>2, <2>4, <3>1 DEF SavedInOrder, IssuedInOrder
  <2>6. CASE SavePasswords
    <3>1. inputs'.options = inputs.options /\ ipc' = "options"
      BY <2>6 DEF SavePasswords, SaveInput, IpaGoto, StateTyped, Inputs
    <3>2. CASE inputs.installer = None
      <4>1. inputs'.installer = Another
        BY <2>6, <3>2 DEF SavePasswords, SaveInput, StateTyped, Inputs
      <4>2. inputs.options = None
        BY <2>1, <3>2 DEF SavedInOrder
      <4> QED BY <1>2, <2>1, <2>2, <2>4, <3>1, <4>1, <4>2 DEF SavedInOrder, IssuedInOrder
    <3>3. CASE inputs.installer # None
      <4>1. inputs' = inputs
        BY <2>6, <3>3 DEF SavePasswords
      <4> QED BY <2>1, <2>2, <3>1, <3>3, <4>1 DEF SavedInOrder, IssuedInOrder
    <3> QED BY <3>2, <3>3
  <2>7. CASE SaveOptions
    <3>1. inputs'.options = inputs.installer /\ inputs'.installer = inputs.installer /\ ipc' = "idle"
      BY <2>7 DEF SaveOptions, SaveInput, IpaGoto, StateTyped, Inputs
    <3>2. inputs.installer # None
      BY <2>1, <2>7 DEF SaveOptions, IpaAt, IssuedInOrder
    <3> QED BY <2>1, <2>2, <2>4, <3>1, <3>2 DEF SavedInOrder, IssuedInOrder
  <2> QED BY <1>8, <2>5, <2>6, <2>7
<1> QED BY <1>3, <1>4, <1>5, <1>6, <1>7, <1>8 DEF IpaStep

LEMMA IpaNextKeepsOrder ==
    ASSUME TypeOK, StateTyped, InOrder, [IpaNext]_allVars
    PROVE  InOrder'
<1>1. CASE UNCHANGED allVars
  BY <1>1 DEF allVars, vars, ipaVars, InOrder, SavedInOrder, IssuedInOrder, Lost, IpaLeaf
<1>2. CASE Authorities /\ IpaAt("idle") /\ UNCHANGED ipaVars
  <2>1. Lost' = Lost /\ ipc' \notin Issuing
    BY <1>2, AuthoritiesLoseNothing DEF ipaVars, Lost, IpaAt, Issuing
  <2> QED BY <1>2, <2>1, OrderKept DEF ipaVars
<1>3. CASE IpaStep /\ UNCHANGED vars
  BY <1>3, IpaStepKeepsOrder
<1>4. CASE (IpaBegin \/ IpaStop) /\ UNCHANGED vars
  <2>1. Lost' = Lost /\ ipc' \notin Issuing /\ UNCHANGED <<inputs, data>>
    BY <1>4 DEF vars, IpaBegin, IpaStop, IpaGoto, Lost, Issuing
  <2> QED BY <2>1, OrderKept
<1>5. CASE StartServer /\ UNCHANGED vars
  <2>1. /\ UNCHANGED <<inputs, ipc, answer, engine>> /\ Lost' = Lost /\ inputs.options # None
        /\ data'.password = inputs.options /\ data'.leaf = inputs.chain
    BY <1>5 DEF StartServer, vars, Lost
  <2> QED BY <2>1 DEF InOrder, SavedInOrder, IssuedInOrder, IpaLeaf
<1>6. CASE LoseBelow \/ (IpaLose /\ UNCHANGED vars)
  BY <1>6, LossEnds
<1> QED BY <1>1, <1>2, <1>3, <1>4, <1>5, <1>6 DEF IpaNext

\* While nothing is lost, however often runs are stopped and whenever the server is started, the
\* passwords and the certificate on disk stay those it was installed with.
THEOREM InstalledStays == IpaSpec => []InstalledFromInputs
<1>1. IpaInit => InOrder
  BY DEF IpaInit, NoInputs, NoData, InOrder, SavedInOrder, IssuedInOrder
<1>2. IpaTypeOK => StateTyped
  BY IpaTypeSplit
<1>3. InOrder => InstalledFromInputs
  BY DEF InOrder, SavedInOrder, InstalledFromInputs
<1>4. IpaSpec => []TypeOK
  BY ImplementsAuthorities, TypeCorrect, PTL
<1> QED BY <1>1, <1>2, <1>3, <1>4, IpaTypeCorrect, IpaNextKeepsOrder, PTL DEF IpaSpec

-------------------------------------------------------------------------------
(***************************************************************************)
(* What FreeIPA trusts.  Whatever was issued under its issuer is vouched   *)
(* for twice, by the issuer in Vault and by its saved identity, and one    *)
(* loss takes one of the two; an issuer is made only where both are        *)
(* missing.  The roots stay one because finished authorities change no     *)
(* more, and unfinished ones have no FreeIPA beside them.                  *)
(***************************************************************************)

Leaves == {inputs.chain, inputs.key, data.leaf} \ {NoLeaf}

\* FreeIPA takes nothing from authorities that are not finished.
FreshOK == ~done => inputs = NoInputs /\ engine.issuer = NoIssuer /\ data.leaf = NoLeaf

IpaIssuerOK ==
    /\ engine.issuer # NoIssuer =>
            engine.issuer.id # None /\ inputs.established \in {NoIdentity, IpaIdentity}
    /\ ipc \in {"establish"} \cup Prepared => engine.issuer # NoIssuer
    /\ ipc \in Signing => ~IpaIssuerMissing

IpaLeafOK ==
    Leaves # {} =>
        /\ Lost = 0 => inputs.established # NoIdentity /\ engine.issuer # NoIssuer
        /\ Lost <= 1 => inputs.established # NoIdentity \/ engine.issuer # NoIssuer
        /\ Lost <= 1 /\ engine.issuer # NoIssuer =>
                \A leaf \in Leaves : leaf.issuer = engine.issuer.id

IpaGoesBackTo(r) ==
    /\ inputs.signed.root \in {None, r} /\ inputs.chain.root \in {None, r}
    /\ inputs.key.root \in {None, r} /\ inputs.ca \in {None, r}
    /\ engine.issuer.cert.root \in {None, r} /\ data.leaf.root \in {None, r}

IpaRootOK == Lost <= 1 => \E r \in Nat \ {None} : AllGoBackTo(r) /\ IpaGoesBackTo(r)

\* The two halves belong together, whatever was lost: a pair is issued only for none.
PairOK ==
    /\ inputs.chain # NoLeaf /\ inputs.key # NoLeaf => inputs.chain = inputs.key
    /\ IssuedInOrder
    /\ ipc \in {"passwords", "options"} => inputs.ca = vault.root

TrustOK == FreshOK /\ IpaIssuerOK /\ IpaLeafOK /\ IpaRootOK /\ PairOK

LEMMA InputFields ==
    ASSUME StateTyped
    PROVE  DOMAIN inputs = {"request", "signed", "established", "chain", "key", "ca", "installer", "options"}
BY DEF StateTyped, Inputs

LEMMA InputSaved ==
    ASSUME StateTyped, NEW f \in DOMAIN inputs, NEW v, SaveInput(f, v)
    PROVE  inputs'[f] = v /\ \A g \in DOMAIN inputs \ {f} : inputs'[g] = inputs[g]
BY DEF StateTyped, Inputs, SaveInput

LEMMA LostTyped == ASSUME TypeOK, StateTyped PROVE Lost \in Nat
BY BoundsAssumption DEF TypeOK, StateTyped, Lost

\* The steps that neither make nor save anything that is trusted.
Plainly == MakeData \/ CheckRoot \/ MountIpa \/ RequestIpa \/ SaveIpaRequest \/ SignIpa \/ IssuePair
           \/ SavePasswords \/ SaveOptions

LEMMA PlainlyStays ==
    ASSUME StateTyped, Plainly
    PROVE  /\ engine'.issuer = engine.issuer /\ data'.leaf = data.leaf
           /\ inputs'.established = inputs.established /\ inputs'.signed = inputs.signed
           /\ inputs'.chain = inputs.chain /\ inputs'.key = inputs.key /\ inputs'.ca = inputs.ca
<1>1. engine'.issuer = engine.issuer
  BY DEF Plainly, MakeData, CheckRoot, MountIpa, RequestIpa, SaveIpaRequest, SignIpa, IssuePair,
         SavePasswords, SaveOptions, IpaRaise, StateTyped, EngineTypes
<1>2. data'.leaf = data.leaf
  BY DEF Plainly, MakeData, CheckRoot, MountIpa, RequestIpa, SaveIpaRequest, SignIpa, IssuePair,
         SavePasswords, SaveOptions, IpaRaise, StateTyped, DataTypes
<1>3. inputs' = inputs \/ \E f \in {"request", "installer", "options"}, v \in {answer, Another, inputs.installer} :
                              SaveInput(f, v)
  BY DEF Plainly, MakeData, CheckRoot, MountIpa, RequestIpa, SaveIpaRequest, SignIpa, IssuePair,
         SavePasswords, SaveOptions, IpaRaise
<1>4. CASE inputs' = inputs
  BY <1>1, <1>2, <1>4
<1>5. ASSUME NEW f \in {"request", "installer", "options"}, NEW v, SaveInput(f, v)
      PROVE  /\ inputs'.established = inputs.established /\ inputs'.signed = inputs.signed
             /\ inputs'.chain = inputs.chain /\ inputs'.key = inputs.key /\ inputs'.ca = inputs.ca
  BY <1>5, InputSaved, InputFields
<1> QED BY <1>1, <1>2, <1>3, <1>4, <1>5

\* The places a run goes through.
LEMMA PlainlyMoves ==
    ASSUME Plainly
    PROVE  /\ ipc' \in {"establish"} \cup Prepared => ipc \in Prepared
           /\ ipc' \in Signing => ipc \in Signing \/ (ipc = "request" /\ ~IpaIssuerMissing)
<1>1. CASE MakeData \/ CheckRoot \/ MountIpa
  BY <1>1 DEF MakeData, CheckRoot, MountIpa, IpaRaise, IpaGoto, Prepared, Signing
<1>2. CASE RequestIpa \/ SaveIpaRequest \/ SignIpa
  BY <1>2 DEF RequestIpa, SaveIpaRequest, SignIpa, IpaRaise, IpaGoto, IpaAt, Prepared, Signing
<1>3. CASE IssuePair \/ SavePasswords \/ SaveOptions
  BY <1>3 DEF IssuePair, SavePasswords, SaveOptions, IpaRaise, IpaGoto, IpaAt, Prepared, Signing
<1> QED BY <1>1, <1>2, <1>3 DEF Plainly

\* A step that leaves the issuer and the saved identity.
LEMMA IpaIssuerKept ==
    ASSUME IpaIssuerOK, engine'.issuer = engine.issuer, inputs'.established = inputs.established,
           ipc' \in {"establish"} \cup Prepared => ipc \in {"establish"} \cup Prepared,
           ipc' \in Signing => ~IpaIssuerMissing
    PROVE  IpaIssuerOK'
BY DEF IpaIssuerOK, IpaIssuerMissing, IpaIdentity

LEMMA IpaStepKeepsIssuer ==
    ASSUME StateTyped, IpaIssuerOK, IpaStep
    PROVE  IpaIssuerOK'
<1> USE DEF IpaAt, IpaGoto
<1>1. CASE Plainly
  BY <1>1, PlainlyStays, PlainlyMoves, IpaIssuerKept DEF IpaIssuerOK
<1>2. CASE SaveIpaSigned
  <2>1. engine' = engine /\ inputs'.established = inputs.established
    BY <1>2, InputSaved, InputFields DEF SaveIpaSigned
  <2>2. ipc \in Signing /\ ipc' = "set signed"
    BY <1>2 DEF SaveIpaSigned, Signing
  <2> QED BY <2>1, <2>2, IpaIssuerKept DEF IpaIssuerOK, Prepared
<1>3. CASE SetIpaSigned
  <2>1. ipc = "set signed" /\ ipc' = "establish" /\ inputs' = inputs /\ ~IpaIssuerMissing
    BY <1>3 DEF SetIpaSigned, IpaIssuerOK, Signing
  <2>2. CASE engine.issuer = NoIssuer
    <3>1. engine'.issuer = [id |-> Another, cert |-> inputs.signed]
      BY <1>3, <2>2 DEF SetIpaSigned, StateTyped, EngineTypes
    <3>2. Another # None
      BY DEF StateTyped, Another, None
    <3>3. PICK i : i = [id |-> Another, cert |-> inputs.signed]
      OBVIOUS
    <3>4. i.id # None /\ NoIssuer.id = None
      BY <3>2, <3>3 DEF NoIssuer
    <3>5. engine'.issuer.id # None /\ engine'.issuer # NoIssuer
      BY <3>1, <3>3, <3>4
    <3>6. inputs'.established = NoIdentity
      BY <2>1, <2>2 DEF IpaIssuerMissing
    <3> QED BY <2>1, <3>5, <3>6 DEF IpaIssuerOK, Signing
  <2>3. CASE engine.issuer # NoIssuer
    BY <1>3, <2>1, <2>3 DEF SetIpaSigned, IpaIssuerOK, Signing, IpaIdentity
  <2> QED BY <2>2, <2>3
<1>4. CASE EstablishIpa
  <2>1. CASE IpaUnchanged
    <3>1. /\ engine' = engine /\ ipc = "establish" /\ ipc' = "pair"
          /\ inputs'.established = IpaIdentity
      BY <1>4, <2>1, InputSaved, InputFields DEF EstablishIpa
    <3> QED BY <3>1 DEF IpaIssuerOK, IpaIdentity, Signing, Prepared
  <2>2. CASE ~IpaUnchanged
    <3>1. engine' = engine /\ inputs' = inputs /\ ipc' = "idle"
      BY <1>4, <2>2 DEF EstablishIpa, IpaRaise
    <3> QED BY <3>1, IpaIssuerKept DEF Signing, Prepared
  <2> QED BY <2>1, <2>2
<1>5. CASE SavePair \/ SaveIpaCa
  <2>1. engine' = engine /\ inputs'.established = inputs.established
    BY <1>5, InputSaved, InputFields DEF SavePair, SaveIpaCa
  <2>2. ipc \in Prepared /\ ipc' \in Prepared /\ ipc' \notin Signing
    BY <1>5 DEF SavePair, SaveIpaCa, Signing, Prepared
  <2> QED BY <2>1, <2>2, IpaIssuerKept
<1> QED BY <1>1, <1>2, <1>3, <1>4, <1>5 DEF IpaStep, Plainly

\* A step that leaves the issuer and adds no leaf.
LEMMA IpaLeafKept ==
    ASSUME IpaLeafOK, engine'.issuer = engine.issuer, inputs'.established = inputs.established,
           Leaves' \subseteq Leaves, Lost' = Lost
    PROVE  IpaLeafOK'
BY DEF IpaLeafOK

LEMMA IpaStepLosesNothing == ASSUME IpaStep, UNCHANGED vars PROVE Lost' = Lost
BY DEF IpaStep, Lost, vars, MakeData, CheckRoot, MountIpa, RequestIpa, SaveIpaRequest, SignIpa,
       SaveIpaSigned, SetIpaSigned, EstablishIpa, IssuePair, SavePair, SaveIpaCa, SavePasswords,
       SaveOptions, IpaRaise

LEMMA IpaStepKeepsLeaves ==
    ASSUME TypeOK, StateTyped, Ordered, IpaIssuerOK, IpaLeafOK, IpaStep, UNCHANGED vars
    PROVE  IpaLeafOK'
<1> USE DEF IpaAt, IpaGoto
<1>l. Lost' = Lost /\ Lost \in Nat
  BY IpaStepLosesNothing, LostTyped
<1>1. CASE Plainly
  BY <1>1, <1>l, PlainlyStays, IpaLeafKept DEF Leaves
<1>2. CASE SaveIpaSigned \/ SaveIpaCa
  <2>1. /\ engine' = engine /\ inputs'.established = inputs.established /\ data' = data
        /\ inputs'.chain = inputs.chain /\ inputs'.key = inputs.key
    BY <1>2, InputSaved, InputFields DEF SaveIpaSigned, SaveIpaCa
  <2> QED BY <1>l, <2>1, IpaLeafKept DEF Leaves
<1>3. CASE SetIpaSigned
  <2>1. inputs' = inputs /\ data' = data /\ Leaves' = Leaves
    BY <1>3 DEF SetIpaSigned, Leaves
  <2>2. CASE engine.issuer # NoIssuer
    BY <1>3, <1>l, <2>1, <2>2, IpaLeafKept DEF SetIpaSigned
  <2>3. CASE engine.issuer = NoIssuer
    <3>1. inputs.established = NoIdentity
      BY <1>3, <2>3 DEF SetIpaSigned, IpaIssuerOK, IpaIssuerMissing, Signing
    <3>2. Lost <= 1 => Leaves = {}
      BY <2>3, <3>1 DEF IpaLeafOK
    <3> QED BY <1>l, <2>1, <3>2 DEF IpaLeafOK
  <2> QED BY <2>2, <2>3
<1>4. CASE EstablishIpa
  <2>1. CASE ~IpaUnchanged
    BY <1>4, <1>l, <2>1, IpaLeafKept DEF EstablishIpa, IpaRaise, Leaves
  <2>2. CASE IpaUnchanged
    <3>1. /\ inputs'.established = IpaIdentity /\ engine' = engine /\ data' = data
          /\ inputs'.chain = inputs.chain /\ inputs'.key = inputs.key
      BY <1>4, <2>2, InputSaved, InputFields DEF EstablishIpa
    <3>2. engine.issuer # NoIssuer /\ engine.issuer.id # None
      BY <1>4 DEF EstablishIpa, IpaIssuerOK
    <3>3. IpaIdentity # NoIdentity
      BY <3>2 DEF IpaIdentity, NoIdentity
    <3> QED BY <1>l, <3>1, <3>2, <3>3 DEF IpaLeafOK, Leaves
  <2> QED BY <2>1, <2>2
<1>5. CASE SavePair
  <2>1. ipc \in Prepared
    BY <1>5 DEF SavePair, Prepared
  <2>2. engine.issuer # NoIssuer /\ engine.issuer.id # None /\ inputs.established = IpaIdentity
    BY <2>1 DEF IpaIssuerOK, Ordered
  <2>3. inputs.established # NoIdentity
    BY <2>2 DEF IpaIdentity, NoIdentity
  <2>4. engine' = engine /\ data' = data /\ inputs'.established = inputs.established
    BY <1>5, InputSaved, InputFields DEF SavePair
  <2>5. inputs'.chain \in {inputs.chain, IpaLeaf} /\ inputs'.key \in {inputs.key, IpaLeaf}
    BY <1>5, InputSaved, InputFields DEF SavePair
  <2>6. Leaves' \subseteq Leaves \cup {IpaLeaf}
    BY <2>4, <2>5 DEF Leaves
  <2>7. IpaLeaf.issuer = engine.issuer.id
    BY DEF IpaLeaf
  <2>8. Lost <= 1 => \A leaf \in Leaves' : leaf.issuer = engine.issuer.id
    BY <2>2, <2>6, <2>7 DEF IpaLeafOK
  <2> QED BY <1>l, <2>2, <2>3, <2>4, <2>8 DEF IpaLeafOK
<1> QED BY <1>1, <1>2, <1>3, <1>4, <1>5 DEF IpaStep, Plainly

\* What FreeIPA's steps copy goes back to the same root as what they copy from.
LEMMA IpaStepKeepsRoot ==
    ASSUME StateTyped, IpaStep, UNCHANGED vars, NEW r, AllGoBackTo(r), IpaGoesBackTo(r)
    PROVE  AllGoBackTo(r)' /\ IpaGoesBackTo(r)'
<1>1. AllGoBackTo(r)'
  BY DEF AllGoBackTo, vars
<1>2. vault.root \in {None, r}
  BY DEF AllGoBackTo
<1>3. CASE Plainly
  BY <1>1, <1>3, PlainlyStays DEF IpaGoesBackTo
<1>4. CASE SaveIpaSigned
  <2>1. /\ engine' = engine /\ data' = data
        /\ inputs'.signed = [n |-> answer, key |-> inputs.request, root |-> vault.root]
        /\ inputs'.chain = inputs.chain /\ inputs'.key = inputs.key /\ inputs'.ca = inputs.ca
    BY <1>4, InputSaved, InputFields DEF SaveIpaSigned
  <2>2. [n |-> answer, key |-> inputs.request, root |-> vault.root].root = vault.root
    OBVIOUS
  <2>3. inputs'.signed.root = vault.root
    BY <2>1, <2>2
  <2> QED BY <1>1, <1>2, <2>1, <2>3 DEF IpaGoesBackTo
<1>5. CASE SetIpaSigned
  <2>1. /\ inputs' = inputs /\ data' = data
        /\ engine'.issuer \in {engine.issuer, [id |-> Another, cert |-> inputs.signed]}
    BY <1>5 DEF SetIpaSigned, StateTyped, EngineTypes
  <2>2. [id |-> Another, cert |-> inputs.signed].cert = inputs.signed
    OBVIOUS
  <2>3. engine'.issuer.cert \in {engine.issuer.cert, inputs.signed}
    BY <2>1, <2>2
  <2> QED BY <1>1, <2>1, <2>3 DEF IpaGoesBackTo
<1>6. CASE EstablishIpa
  <2>1. /\ engine' = engine /\ data' = data /\ inputs'.signed = inputs.signed
        /\ inputs'.chain = inputs.chain /\ inputs'.key = inputs.key /\ inputs'.ca = inputs.ca
    BY <1>6, InputSaved, InputFields DEF EstablishIpa, IpaRaise
  <2> QED BY <1>1, <2>1 DEF IpaGoesBackTo
<1>7. CASE SavePair
  <2>1. /\ engine' = engine /\ data' = data /\ inputs'.signed = inputs.signed /\ inputs'.ca = inputs.ca
        /\ inputs'.chain \in {inputs.chain, IpaLeaf} /\ inputs'.key \in {inputs.key, IpaLeaf}
    BY <1>7, InputSaved, InputFields DEF SavePair
  <2>2. IpaLeaf.root = engine.issuer.cert.root
    BY DEF IpaLeaf
  <2> QED BY <1>1, <2>1, <2>2 DEF IpaGoesBackTo
<1>8. CASE SaveIpaCa
  <2>1. /\ engine' = engine /\ data' = data /\ inputs'.signed = inputs.signed /\ inputs'.ca = vault.root
        /\ inputs'.chain = inputs.chain /\ inputs'.key = inputs.key
    BY <1>8, InputSaved, InputFields DEF SaveIpaCa
  <2> QED BY <1>1, <1>2, <2>1 DEF IpaGoesBackTo
<1> QED BY <1>3, <1>4, <1>5, <1>6, <1>7, <1>8 DEF IpaStep, Plainly

LEMMA IpaStepKeepsPair ==
    ASSUME StateTyped, PairOK, IpaStep, UNCHANGED vars
    PROVE  PairOK'
<1> USE DEF IpaAt, IpaGoto
<1>v. vault' = vault
  BY DEF vars
<1>n. Another # None
  BY DEF StateTyped, Another, None
\* Steps that leave the pair, outside issuing.
<1>k. ASSUME inputs'.chain = inputs.chain, inputs'.key = inputs.key, ipc' \notin Issuing
      PROVE  PairOK'
  BY <1>k DEF PairOK, IssuedInOrder, Issuing
<1>1. CASE MakeData \/ CheckRoot \/ MountIpa \/ RequestIpa \/ SaveIpaRequest \/ SignIpa \/ SaveOptions
  <2>1. inputs'.chain = inputs.chain /\ inputs'.key = inputs.key
    BY <1>1, PlainlyStays DEF Plainly
  <2>2. ipc' \notin Issuing
    BY <1>1 DEF MakeData, CheckRoot, MountIpa, RequestIpa, SaveIpaRequest, SignIpa, SaveOptions, IpaRaise, Issuing
  <2> QED BY <2>1, <2>2, <1>k
<1>2. CASE SaveIpaSigned \/ SetIpaSigned \/ EstablishIpa
  <2>1. inputs'.chain = inputs.chain /\ inputs'.key = inputs.key
    BY <1>2, InputSaved, InputFields DEF SaveIpaSigned, SetIpaSigned, EstablishIpa, IpaRaise
  <2>2. ipc' \notin Issuing
    BY <1>2 DEF SaveIpaSigned, SetIpaSigned, EstablishIpa, IpaRaise, Issuing
  <2> QED BY <2>1, <2>2, <1>k
<1>3. CASE IssuePair
  <2>1. inputs' = inputs
    BY <1>3 DEF IssuePair, IpaRaise
  <2>2. \/ ipc' = "save chain" /\ answer' # None /\ inputs.chain = NoLeaf /\ inputs.key = NoLeaf
        \/ ipc' = "ca" /\ inputs.chain # NoLeaf /\ inputs.key # NoLeaf
        \/ ipc' = "idle"
    BY <1>3, <1>n DEF IssuePair, IpaRaise
  <2> QED BY <2>1, <2>2 DEF PairOK, IssuedInOrder
<1>4. CASE SavePair
  <2>1. IpaLeaf' = IpaLeaf /\ answer' = answer
    BY <1>4 DEF SavePair, IpaLeaf
  <2>2. CASE IpaAt("save chain") /\ SaveInput("chain", IpaLeaf) /\ IpaGoto("save key")
    <3>1. inputs'.chain = IpaLeaf /\ inputs'.key = inputs.key
      BY <2>2, InputSaved, InputFields
    <3> QED BY <2>1, <2>2, <3>1 DEF PairOK, IssuedInOrder
  <2>3. CASE IpaAt("save key") /\ SaveInput("key", IpaLeaf) /\ IpaGoto("ca")
    <3>1. inputs'.chain = inputs.chain /\ inputs'.key = IpaLeaf
      BY <2>3, InputSaved, InputFields
    <3>2. inputs.chain = IpaLeaf /\ answer # None
      BY <2>3 DEF PairOK, IssuedInOrder
    <3>3. IpaLeaf # NoLeaf
      BY <3>2 DEF IpaLeaf, NoLeaf
    <3> QED BY <2>3, <3>1, <3>2, <3>3 DEF PairOK, IssuedInOrder
  <2> QED BY <1>4, <2>2, <2>3 DEF SavePair
<1>5. CASE SaveIpaCa
  <2>1. /\ inputs'.chain = inputs.chain /\ inputs'.key = inputs.key /\ inputs'.ca = vault.root
        /\ ipc = "ca" /\ ipc' = "passwords"
    BY <1>5, InputSaved, InputFields DEF SaveIpaCa
  <2> QED BY <1>v, <2>1 DEF PairOK, IssuedInOrder
<1>6. CASE SavePasswords
  <2>1. inputs'.chain = inputs.chain /\ inputs'.key = inputs.key /\ inputs'.ca = inputs.ca
    BY <1>6, PlainlyStays DEF Plainly
  <2>2. inputs'.installer # None
    BY <1>6, <1>n, InputSaved, InputFields DEF SavePasswords
  <2>3. ipc = "passwords" /\ ipc' = "options"
    BY <1>6 DEF SavePasswords
  <2> QED BY <1>v, <2>1, <2>2, <2>3 DEF PairOK, IssuedInOrder
<1> QED BY <1>1, <1>2, <1>3, <1>4, <1>5, <1>6 DEF IpaStep

\* A loss of FreeIPA's state empties one place and takes at most one of the two vouchers.
LEMMA IpaLoseKeeps ==
    ASSUME TypeOK, StateTyped, TrustOK, IpaLose, UNCHANGED vars
    PROVE  TrustOK'
<1> USE DEF TrustOK
<1>l. Lost \in Nat /\ Lost' = Lost + 1
  <2>1. losses' = losses /\ ilosses' = ilosses + 1
    BY DEF IpaLose, vars
  <2> QED BY <2>1, BoundsAssumption, LostTyped DEF Lost, TypeOK, StateTyped
<1>p. ipc' = "idle" /\ done' = done /\ vault' = vault
  BY DEF IpaLose, IpaAt, vars
<1>1. \A g \in DOMAIN inputs : inputs'[g] \in {inputs[g], NoInputs[g]}
  <2>1. CASE inputs' = inputs
    BY <2>1
  <2>2. ASSUME NEW f \in DOMAIN inputs, inputs' = [inputs EXCEPT ![f] = NoInputs[f]]
        PROVE  <1>1!:
    BY <2>2 DEF StateTyped, Inputs
  <2> QED BY <2>1, <2>2 DEF IpaLose
<1>2. /\ inputs'.established \in {inputs.established, NoIdentity}
      /\ inputs'.chain \in {inputs.chain, NoLeaf} /\ inputs'.key \in {inputs.key, NoLeaf}
      /\ inputs'.signed \in {inputs.signed, NoCert} /\ inputs'.ca \in {inputs.ca, None}
  BY <1>1, InputFields DEF NoInputs
<1>3. engine'.issuer \in {engine.issuer, NoIssuer} /\ data'.leaf \in {data.leaf, NoLeaf}
  BY DEF IpaLose, StateTyped, EngineTypes, NoEngine, NoData
<1>4. inputs' = inputs \/ engine' = engine
  BY DEF IpaLose
<1>5. FreshOK'
  <2> SUFFICES ASSUME ~done PROVE inputs' = NoInputs /\ engine'.issuer = NoIssuer /\ data'.leaf = NoLeaf
    BY <1>p DEF FreshOK
  <2>1. inputs = NoInputs
    BY DEF FreshOK
  <2>2. inputs' = NoInputs
    <3>1. CASE inputs' = inputs
      BY <2>1, <3>1
    <3>2. ASSUME NEW f \in DOMAIN inputs, inputs' = [inputs EXCEPT ![f] = NoInputs[f]]
          PROVE  inputs' = inputs
      BY <2>1, <3>2 DEF StateTyped, Inputs
    <3> QED BY <2>1, <3>1, <3>2 DEF IpaLose
  <2> QED BY <1>3, <2>2 DEF FreshOK
<1>6. IpaIssuerOK'
  BY <1>2, <1>3, <1>p DEF IpaIssuerOK, IpaIdentity, Signing, Prepared
<1>7. IpaLeafOK'
  <2>1. Leaves' \subseteq Leaves
    BY <1>2, <1>3 DEF Leaves
  <2>2. Lost' # 0 /\ (Lost' <= 1 => Lost = 0 /\ Lost <= 1)
    BY <1>l
  <2> QED BY <1>2, <1>3, <1>4, <2>1, <2>2 DEF IpaLeafOK
<1>8. IpaRootOK'
  <2>1. \A r : AllGoBackTo(r) => AllGoBackTo(r)'
    BY DEF AllGoBackTo, vars
  <2>2. NoCert.root = None /\ NoLeaf.root = None /\ NoIssuer.cert.root = None
    BY DEF NoCert, NoLeaf, NoIssuer
  <2>3. \A r : IpaGoesBackTo(r) => IpaGoesBackTo(r)'
    BY <1>2, <1>3, <2>2 DEF IpaGoesBackTo
  <2>4. Lost' <= 1 => Lost <= 1
    BY <1>l
  <2> QED BY <2>1, <2>3, <2>4 DEF IpaRootOK
<1>9. PairOK'
  BY <1>2, <1>p DEF PairOK, IssuedInOrder
<1> QED BY <1>5, <1>6, <1>7, <1>8, <1>9

\* A loss below: what Vault held of FreeIPA goes with the rest of Vault, or stays.
LEMMA LoseBelowKeeps ==
    ASSUME TypeOK, StateTyped, TrustOK, LoseBelow
    PROVE  TrustOK'
<1> USE DEF TrustOK
<1>l. Lost \in Nat /\ Lost' = Lost + 1
  <2>1. losses' = losses + 1 /\ ilosses' = ilosses
    BY DEF LoseBelow, Lose
  <2> QED BY <2>1, BoundsAssumption, LostTyped DEF Lost, TypeOK, StateTyped
<1>p. ipc = "idle" /\ ipc' = "idle" /\ done' = done
  BY DEF LoseBelow, Lose, IpaAt
<1>1. inputs' = inputs /\ data' = data /\ engine' \in {engine, NoEngine}
  BY DEF LoseBelow
<1>2. engine'.issuer \in {engine.issuer, NoIssuer}
  BY <1>1 DEF NoEngine
<1>3. FreshOK'
  BY <1>1, <1>2, <1>p DEF FreshOK
<1>4. IpaIssuerOK'
  BY <1>1, <1>2, <1>p DEF IpaIssuerOK, IpaIdentity, Signing, Prepared
<1>5. IpaLeafOK'
  <2>1. Leaves' = Leaves
    BY <1>1 DEF Leaves
  <2>2. Lost' # 0 /\ (Lost' <= 1 => Lost = 0 /\ Lost <= 1)
    BY <1>l
  <2> QED BY <1>1, <1>2, <2>1, <2>2 DEF IpaLeafOK
<1>6. IpaRootOK'
  <2>1. \A r : AllGoBackTo(r) => AllGoBackTo(r)'
    BY LoseEmpties DEF LoseBelow
  <2>2. NoIssuer.cert.root = None
    BY DEF NoCert, NoIssuer
  <2>3. \A r : IpaGoesBackTo(r) => IpaGoesBackTo(r)'
    BY <1>1, <1>2, <2>2 DEF IpaGoesBackTo
  <2>4. Lost' <= 1 => Lost <= 1
    BY <1>l
  <2> QED BY <2>1, <2>3, <2>4 DEF IpaRootOK
<1>7. PairOK'
  BY <1>1, <1>p DEF PairOK, IssuedInOrder
<1> QED BY <1>3, <1>4, <1>5, <1>6, <1>7

\* Finished authorities do not move; before they are finished there is nothing of FreeIPA.
LEMMA AuthoritiesKeepTrust ==
    ASSUME TypeOK, RootOK, RunOK, RootOK', StateTyped, TrustOK, Authorities, IpaAt("idle"), UNCHANGED ipaVars
    PROVE  TrustOK'
<1> USE DEF TrustOK
<1>1. /\ UNCHANGED <<inputs, engine, data, ipc, answer>> /\ ipc = "idle"
      /\ losses' = losses /\ Lost' = Lost
  BY AuthoritiesLoseNothing DEF ipaVars, IpaAt, Lost
<1>2. done => done'
  BY StepEnds DEF Authorities, Begin, Stop, Finish
<1>3. losses \in Nat /\ ilosses \in Nat
  BY BoundsAssumption DEF TypeOK, StateTyped
<1>4. FreshOK'
  BY <1>1, <1>2 DEF FreshOK
<1>5. IpaIssuerOK'
  BY <1>1 DEF IpaIssuerOK, IpaIdentity, Signing, Prepared
<1>6. IpaLeafOK'
  BY <1>1 DEF IpaLeafOK, Leaves
<1>7. IpaRootOK'
  <2> SUFFICES ASSUME Lost <= 1 PROVE \E r \in Nat \ {None} : AllGoBackTo(r)' /\ IpaGoesBackTo(r)'
    BY <1>1 DEF IpaRootOK
  <2>1. losses <= 1
    BY <1>3 DEF Lost
  <2>2. ~done
    <3> SUFFICES ASSUME done PROVE FALSE
      OBVIOUS
    <3>1. pc = "idle" /\ ~file.checkpoint /\ vols # {}
      BY <2>1 DEF RunOK, DoneOK
    <3> QED BY <3>1, StepEnds DEF Authorities, Begin, Stop, At
  <2>3. PICK r \in Nat \ {None} : AllGoBackTo(r)'
    BY <1>1, <2>1 DEF RootOK
  <2>4. inputs = NoInputs /\ engine.issuer = NoIssuer /\ data.leaf = NoLeaf
    BY <2>2 DEF FreshOK
  <2>5. IpaGoesBackTo(r)'
    BY <1>1, <2>4 DEF IpaGoesBackTo, NoInputs, NoIssuer, NoLeaf, NoCert
  <2> QED BY <2>3, <2>5
<1>8. PairOK'
  BY <1>1 DEF PairOK, IssuedInOrder
<1> QED BY <1>4, <1>5, <1>6, <1>7, <1>8

LEMMA NextKeepsTrust ==
    ASSUME TypeOK, RootOK, RunOK, RootOK', IpaTypeOK, TrustOK, [IpaNext]_allVars
    PROVE  TrustOK'
<1>t. StateTyped /\ Ordered
  BY IpaTypeSplit
<1>1. CASE UNCHANGED allVars
  <2>1. /\ UNCHANGED <<inputs, engine, data, ipc, answer, done, vault, file, puppet>> /\ Lost' = Lost
    BY <1>1 DEF allVars, vars, ipaVars, Lost
  <2>2. FreshOK' /\ PairOK' /\ IpaLeafOK'
    BY <2>1 DEF TrustOK, FreshOK, PairOK, IpaLeafOK, IssuedInOrder, IpaLeaf, Leaves
  <2>3. IpaIssuerOK'
    BY <2>1 DEF TrustOK, IpaIssuerOK, IpaIssuerMissing, IpaIdentity
  <2>4. IpaRootOK'
    BY <2>1 DEF TrustOK, IpaRootOK, IpaGoesBackTo, AllGoBackTo
  <2> QED BY <2>2, <2>3, <2>4 DEF TrustOK
<1>2. CASE Authorities /\ IpaAt("idle") /\ UNCHANGED ipaVars
  BY <1>t, <1>2, AuthoritiesKeepTrust
<1>3. CASE IpaStep /\ UNCHANGED vars
  <2>1. FreshOK'
    <3>1. ipc # "idle"
      BY <1>3 DEF IpaStep, MakeData, CheckRoot, MountIpa, RequestIpa, SaveIpaRequest, SignIpa, SaveIpaSigned,
             SetIpaSigned, EstablishIpa, IssuePair, SavePair, SaveIpaCa, SavePasswords, SaveOptions, IpaAt
    <3> QED BY <1>t, <1>3, <3>1 DEF Ordered, FreshOK, vars
  <2>2. IpaRootOK'
    <3>1. Lost' = Lost
      BY <1>3, IpaStepLosesNothing
    <3> QED BY <1>t, <1>3, <3>1, IpaStepKeepsRoot DEF TrustOK, IpaRootOK
  <2> QED BY <1>t, <1>3, <2>1, <2>2, IpaStepKeepsIssuer, IpaStepKeepsLeaves, IpaStepKeepsPair DEF TrustOK
<1>4. CASE (IpaBegin \/ IpaStop \/ StartServer) /\ UNCHANGED vars
  <2>1. /\ inputs' = inputs /\ engine' = engine /\ Lost' = Lost /\ answer' = answer
        /\ done' = done /\ vault' = vault
    BY <1>4 DEF IpaBegin, IpaStop, StartServer, Lost, vars
  <2>2. ipc' \in {"volume", "idle", ipc}
    BY <1>4 DEF IpaBegin, IpaStop, StartServer, IpaGoto
  <2>3. data'.leaf = data.leaf \/ (data'.leaf = inputs.chain /\ inputs.options # None)
    BY <1>4 DEF IpaBegin, IpaStop, StartServer
  <2>4. FreshOK'
    BY <2>1, <2>3 DEF TrustOK, FreshOK, NoInputs
  <2>5. IpaIssuerOK'
    BY <2>1, <2>2 DEF TrustOK, IpaIssuerOK, IpaIssuerMissing, IpaIdentity, Signing, Prepared
  <2>6. IpaLeafOK'
    <3>1. Leaves' \subseteq Leaves
      BY <2>1, <2>3 DEF Leaves
    <3> QED BY <2>1, <3>1, IpaLeafKept DEF TrustOK
  <2>7. IpaRootOK'
    <3>1. \A r : AllGoBackTo(r) => AllGoBackTo(r)'
      BY <1>4 DEF AllGoBackTo, vars
    <3>2. \A r : IpaGoesBackTo(r) => IpaGoesBackTo(r)'
      BY <2>1, <2>3 DEF IpaGoesBackTo
    <3> QED BY <2>1, <3>1, <3>2 DEF TrustOK, IpaRootOK
  <2>8. PairOK'
    BY <2>1, <2>2 DEF TrustOK, PairOK, IssuedInOrder, IpaLeaf
  <2> QED BY <2>4, <2>5, <2>6, <2>7, <2>8 DEF TrustOK
<1>5. CASE IpaLose /\ UNCHANGED vars
  BY <1>t, <1>5, IpaLoseKeeps
<1>6. CASE LoseBelow
  BY <1>t, <1>6, LoseBelowKeeps
<1> QED BY <1>1, <1>2, <1>3, <1>4, <1>5, <1>6 DEF IpaNext

LEMMA TrustHolds == IpaSpec => []TrustOK
<1>1. IpaInit => TrustOK
  <2> SUFFICES ASSUME IpaInit PROVE TrustOK
    OBVIOUS
  <2>1. /\ inputs = NoInputs /\ engine.issuer = NoIssuer /\ data.leaf = NoLeaf /\ ipc = "idle"
    BY DEF IpaInit, NoEngine, NoData
  <2>2. inputs.chain = NoLeaf /\ inputs.key = NoLeaf /\ inputs.ca = None /\ inputs.signed = NoCert
    BY <2>1 DEF NoInputs
  <2>3. FreshOK /\ PairOK /\ IpaIssuerOK
    BY <2>1, <2>2 DEF FreshOK, PairOK, IssuedInOrder, IpaIssuerOK, Signing, Prepared
  <2>4. IpaLeafOK
    BY <2>1, <2>2 DEF IpaLeafOK, Leaves
  <2>5. IpaRootOK
    <3>1. IpaGoesBackTo(1)
      BY <2>1, <2>2 DEF IpaGoesBackTo, NoLeaf, NoCert, NoIssuer
    <3>2. AllGoBackTo(1)
      BY DEF IpaInit, Init, AllGoBackTo, NoFiles, NoVault, NoPuppet, NoTls, NoCert, NoIssuer
    <3> QED BY <3>1, <3>2 DEF IpaRootOK, None
  <2> QED BY <2>3, <2>4, <2>5 DEF TrustOK
<1>2. IpaSpec => [](TypeOK /\ RootOK /\ RunOK)
  BY ImplementsAuthorities, InvHolds, RunHolds, PTL DEF Inv
<1> QED BY <1>1, <1>2, IpaTypeCorrect, NextKeepsTrust, PTL DEF IpaSpec

\* After any one loss, FreeIPA's issuer is the established one, what is left of the certificate was
\* issued by it, and it all goes back to the one root of the authorities.
THEOREM TrustIsOne == IpaSpec => []IpaTrust
<1>1. TrustOK => IpaTrust
  <2> SUFFICES ASSUME TrustOK, Lost <= 1, engine.issuer # NoIssuer
               PROVE  /\ inputs.established \in {NoIdentity, IpaIdentity}
                      /\ \A leaf \in {inputs.chain, inputs.key, data.leaf} \ {NoLeaf} :
                             leaf.issuer = engine.issuer.id
                      /\ \A r, s \in IpaRoots \cup Roots : r = s
    BY DEF IpaTrust
  <2>1. inputs.established \in {NoIdentity, IpaIdentity}
    BY DEF TrustOK, IpaIssuerOK
  <2>2. \A leaf \in Leaves : leaf.issuer = engine.issuer.id
    BY DEF TrustOK, IpaLeafOK
  <2>3. PICK r \in Nat \ {None} : AllGoBackTo(r) /\ IpaGoesBackTo(r)
    BY DEF TrustOK, IpaRootOK
  <2>4. Roots \subseteq {r} /\ IpaRoots \subseteq {r}
    BY <2>3 DEF Roots, IpaRoots, AllGoBackTo, IpaGoesBackTo
  <2> QED BY <2>1, <2>2, <2>4 DEF Leaves
<1> QED BY <1>1, TrustHolds, PTL

\* A run that reports has left a whole certificate under the issuer in Vault, the root beside it, and
\* options with the saved passwords, whatever was half done before and whichever one thing was lost.
THEOREM PreparedHolds == IpaSpec => PreparedIsComplete
<1> DEFINE Complete ==
        /\ inputs.chain # NoLeaf /\ inputs.chain = inputs.key
        /\ inputs.chain.issuer = engine.issuer.id /\ inputs.established = IpaIdentity
        /\ inputs.ca = vault.root
        /\ inputs.installer # None /\ inputs'.options = inputs.installer
<1>1. ASSUME IpaTypeOK, TrustOK, SaveOptions, Lost <= 1 PROVE Complete
  <2>1. StateTyped /\ Ordered /\ ipc = "options"
    BY <1>1, IpaTypeSplit DEF SaveOptions, IpaAt
  <2>2. /\ inputs.chain # NoLeaf /\ inputs.chain = inputs.key
        /\ inputs.ca = vault.root /\ inputs.installer # None
    BY <1>1, <2>1 DEF TrustOK, PairOK, IssuedInOrder
  <2>3. inputs.established = IpaIdentity
    BY <2>1 DEF Ordered, Prepared
  <2>4. engine.issuer # NoIssuer /\ inputs.chain \in Leaves
    BY <1>1, <2>1, <2>2 DEF TrustOK, IpaIssuerOK, Prepared, Leaves
  <2>5. inputs.chain.issuer = engine.issuer.id
    BY <1>1, <2>4 DEF TrustOK, IpaLeafOK
  <2>6. inputs'.options = inputs.installer
    BY <1>1, <2>1, InputSaved, InputFields DEF SaveOptions
  <2> QED BY <2>2, <2>3, <2>5, <2>6
<1>2. IpaTypeOK /\ TrustOK /\ [IpaNext]_allVars => [SaveOptions /\ Lost <= 1 => Complete]_allVars
  BY <1>1
<1> QED BY <1>2, IpaTypeCorrect, TrustHolds, PTL DEF IpaSpec, PreparedIsComplete
===============================================================================
