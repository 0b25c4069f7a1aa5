--------------------------- MODULE Rehearsal_proofs ---------------------------
(***************************************************************************)
(* Type correctness of Rehearsal, and that no command replaces an          *)
(* authority, for any number of faults and commands.                       *)
(***************************************************************************)
EXTENDS Rehearsal, TLAPS

DataTyped == data \in [Projects -> [Services -> Boxes]]

LEMMA EmptyIsBox == Empty \in Boxes /\ EmptyProject \in [Services -> Boxes]
BY DEF Empty, EmptyProject, Boxes

\* A volume is written as a whole; the others stay.
LEMMA PutWrites ==
    ASSUME DataTyped, on \in Projects, NEW v \in Services, NEW b \in Boxes, Put(v, b)
    PROVE  /\ DataTyped'
           /\ \A p \in Projects, w \in Services :
                data'[p][w] = IF p = on /\ w = v THEN b ELSE data[p][w]
BY DEF DataTyped, Put

LEMMA BoxTyped ==
    ASSUME DataTyped, on \in Projects
    PROVE  \A v \in Services : Box(v) \in Boxes
BY DEF DataTyped, Box

\* What the steps that write no authority put into a volume.
Edits(b, j) == {
    [b EXCEPT !.state = "tls", !.leaf = "self"],
    [b EXCEPT !.state = "part"], [b EXCEPT !.state = "init"], [b EXCEPT !.state = "kept"],
    [b EXCEPT !.mounted = TRUE],
    [b EXCEPT !.request = "key"], [b EXCEPT !.request = "made"],
    [b EXCEPT !.request = "private"], [b EXCEPT !.request = "whole"],
    [b EXCEPT !.server = "key"], [b EXCEPT !.server = "leaf"], [b EXCEPT !.server = "chain"],
    [b EXCEPT !.leaf = "part"], [b EXCEPT !.leaf = "issued"],
    [b EXCEPT !.kv = 1], [b EXCEPT !.kv = 2],
    [b EXCEPT !.cert = "good", !.issuer = j],
    [b EXCEPT !.cert = "asked"], [b EXCEPT !.cert = "revoked"], [b EXCEPT !.cert = "none"]}

LEMMA EditsKeep ==
    ASSUME NEW b \in Boxes, NEW j \in Nat, NEW e \in Edits(b, j)
    PROVE  e \in Boxes /\ e.ca = b.ca /\ (b.mounted => e.mounted)
<1>1. CASE e \in {[b EXCEPT !.state = "part"], [b EXCEPT !.state = "init"],
                  [b EXCEPT !.state = "kept"],
                  [b EXCEPT !.leaf = "part"], [b EXCEPT !.leaf = "issued"]}
  BY <1>1 DEF Boxes
<1>2. CASE e = [b EXCEPT !.mounted = TRUE]
  BY <1>2 DEF Boxes
<1>3. CASE e = [b EXCEPT !.cert = "good", !.issuer = j]
  BY <1>3 DEF Boxes
<1>4. CASE e \in {[b EXCEPT !.cert = "asked"], [b EXCEPT !.cert = "revoked"],
                  [b EXCEPT !.cert = "none"]}
  BY <1>4 DEF Boxes
<1>5. CASE e \in {[b EXCEPT !.kv = 1], [b EXCEPT !.kv = 2]}
  BY <1>5 DEF Boxes
<1>6. CASE e = [b EXCEPT !.state = "tls", !.leaf = "self"]
  BY <1>6 DEF Boxes
<1>7. CASE e \in {[b EXCEPT !.request = "key"], [b EXCEPT !.request = "made"],
                  [b EXCEPT !.request = "private"], [b EXCEPT !.request = "whole"]}
  BY <1>7 DEF Boxes
<1>8. CASE e \in {[b EXCEPT !.server = "key"], [b EXCEPT !.server = "leaf"],
                  [b EXCEPT !.server = "chain"]}
  BY <1>8 DEF Boxes
<1> QED  BY <1>1, <1>2, <1>3, <1>4, <1>5, <1>6, <1>7, <1>8 DEF Edits

-------------------------------------------------------------------------------
(* The steps that write no authority. *)

SameAuthorities ==
    \A p \in Projects, v \in Services :
        /\ data'[p][v].ca = data[p][v].ca
        /\ data[p][v].mounted => data'[p][v].mounted

LEMMA PutSame ==
    ASSUME DataTyped, on \in Projects, NEW v \in Services, NEW b \in Boxes, Put(v, b),
           b.ca = Box(v).ca, Box(v).mounted => b.mounted
    PROVE  DataTyped' /\ SameAuthorities
<1>1. DataTyped' /\ \A p \in Projects, w \in Services :
          data'[p][w] = IF p = on /\ w = v THEN b ELSE data[p][w]
  BY PutWrites
<1>2. ASSUME NEW p \in Projects, NEW w \in Services
      PROVE  data'[p][w].ca = data[p][w].ca /\ (data[p][w].mounted => data'[p][w].mounted)
  <2>1. CASE p = on /\ w = v
    BY <1>1, <2>1 DEF Box
  <2>2. CASE ~(p = on /\ w = v)
    BY <1>1, <2>2
  <2> QED  BY <2>1, <2>2
<1> QED  BY <1>1, <1>2 DEF SameAuthorities

LEMMA EditSame ==
    ASSUME DataTyped, on \in Projects, NEW v \in Services, NEW j \in Nat,
           NEW e \in Edits(Box(v), j), Put(v, e)
    PROVE  DataTyped' /\ SameAuthorities
<1>1. Box(v) \in Boxes
  BY BoxTyped
<1>2. e \in Boxes /\ e.ca = Box(v).ca /\ (Box(v).mounted => e.mounted)
  BY <1>1, EditsKeep
<1> QED  BY <1>2, PutSame

LEMMA StaysSame ==
    ASSUME DataTyped, UNCHANGED data
    PROVE  DataTyped' /\ SameAuthorities
BY DEF DataTyped, SameAuthorities

LEMMA NameTyped == \A v \in {"root", "vault", "openvox", "agent"} : v \in Services
BY DEF Services

LEMMA StartSame ==
    ASSUME DataTyped, on \in Projects, NEW s \in Starts, StartStep(s)
    PROVE  DataTyped' /\ SameAuthorities
<1>0. s[2] \in Services
  BY DEF Starts, Services
<1>3. CASE InitVault(s)
  <2> DEFINE e == [Box(s[2]) EXCEPT !.state = "init"]
  <2>1. Put(s[2], e)
    BY <1>3 DEF InitVault
  <2>2. e \in Edits(Box(s[2]), 0)
    BY DEF Edits
  <2> HIDE DEF e
  <2> QED  BY <2>1, <2>2, <1>0, EditSame
<1>4. CASE SaveRecovery(s)
  <2> DEFINE e == [Box(s[2]) EXCEPT !.state = "kept"]
  <2>1. Put(s[2], e)
    BY <1>4 DEF SaveRecovery
  <2>2. e \in Edits(Box(s[2]), 0)
    BY DEF Edits
  <2> HIDE DEF e
  <2> QED  BY <2>1, <2>2, <1>0, EditSame
<1>5. CASE Unseal(s)
  BY <1>5, StaysSame DEF Unseal, volVars
<1> QED  BY <1>3, <1>4, <1>5 DEF StartStep

LEMMA IdentitySame ==
    ASSUME DataTyped, on \in Projects, IdentityStep
    PROVE  DataTyped' /\ SameAuthorities
<1>1. PICK v \in {"root", "vault"} :
        Put(v, [Box(v) EXCEPT !.state = "part"])
        \/ Put(v, [Box(v) EXCEPT !.state = "tls", !.leaf = "self"])
  BY DEF IdentityStep, MakeIdentity
<1>2. PICK e \in {[Box(v) EXCEPT !.state = "part"],
                  [Box(v) EXCEPT !.state = "tls", !.leaf = "self"]} : Put(v, e)
  BY <1>1
<1>3. e \in Edits(Box(v), 0)
  BY DEF Edits
<1>4. v \in Services
  BY NameTyped
<1> QED  BY <1>2, <1>3, <1>4, EditSame

LEMMA AuthoritySame ==
    ASSUME DataTyped, on \in Projects, Prepare \/ ImportRest \/ Chain
    PROVE  DataTyped' /\ SameAuthorities
<1> DEFINE b == Box("openvox")
<1> DEFINE written == {
        [b EXCEPT !.request = "key"], [b EXCEPT !.request = "made"],
        [b EXCEPT !.request = "private"], [b EXCEPT !.request = "whole"],
        [b EXCEPT !.server = "key"], [b EXCEPT !.server = "leaf"], [b EXCEPT !.server = "chain"]}
<1>1. UNCHANGED data \/ \E e \in written : Put("openvox", e)
  BY DEF Prepare, ImportRest, Chain
<1>2. CASE UNCHANGED data
  BY <1>2, StaysSame
<1>3. ASSUME NEW e \in written, Put("openvox", e)
      PROVE  DataTyped' /\ SameAuthorities
  <2>1. e \in Edits(b, 0)
    BY <1>3 DEF Edits
  <2> QED  BY <2>1, <1>3, NameTyped, EditSame
<1> QED  BY <1>1, <1>2, <1>3

QuietSteps ==
    \/ Stage \/ StartupCheck \/ IdentityStep \/ RootMount \/ ReadRoot \/ Prepare \/ LookForCa
    \/ ImportRest \/ Chain \/ VaultMount \/ Transport \/ Reload
    \/ StopRoot \/ ConfigureAccess \/ WorkStep
    \/ StopSource \/ Archive \/ Extract \/ CreateVolume \/ CompareRoot \/ StopRestoredRoot
    \/ RestoredUp \/ Pass \/ UpRest \/ Stop \/ RemoveTree \/ Refuse

LEMMA QuietSame ==
    ASSUME DataTyped, on \in Projects, QuietSteps
    PROVE  DataTyped' /\ SameAuthorities
<1>1. /\ Box("root") \in Boxes /\ Box("vault") \in Boxes
      /\ Box("openvox") \in Boxes /\ Box("agent") \in Boxes
  BY BoxTyped DEF Services
<1>2. Box("openvox").ca \in Nat
  BY <1>1 DEF Boxes
<1>a. CASE RootMount
  <2> DEFINE e == [Box("root") EXCEPT !.mounted = TRUE]
  <2>1. Put("root", e)
    BY <1>a DEF RootMount
  <2>2. e \in Edits(Box("root"), 0)
    BY DEF Edits
  <2> HIDE DEF e
  <2> QED  BY <2>1, <2>2, NameTyped, EditSame
<1>b. CASE IdentityStep \/ Prepare \/ ImportRest \/ Chain
  BY <1>b, IdentitySame, AuthoritySame
<1>c. CASE VaultMount
  <2> DEFINE e == [Box("vault") EXCEPT !.mounted = TRUE]
  <2>1. Put("vault", e)
    BY <1>c DEF VaultMount
  <2>2. e \in Edits(Box("vault"), 0)
    BY DEF Edits
  <2> HIDE DEF e
  <2> QED  BY <2>1, <2>2, NameTyped, EditSame
<1>d. CASE Transport
  <2>1. PICK e \in {[Box("vault") EXCEPT !.leaf = "part"], [Box("vault") EXCEPT !.leaf = "issued"]} : Put("vault", e)
    BY <1>d DEF Transport
  <2>2. e \in Edits(Box("vault"), 0)
    BY DEF Edits
  <2> QED  BY <2>1, <2>2, NameTyped, EditSame
<1>e. CASE ConfigureAccess
  <2> DEFINE e == [Box("vault") EXCEPT !.kv = 1]
  <2>1. Put("vault", e)
    BY <1>e DEF ConfigureAccess
  <2>2. e \in Edits(Box("vault"), 0)
    BY DEF Edits
  <2> HIDE DEF e
  <2> QED  BY <2>1, <2>2, NameTyped, EditSame
<1>f. ASSUME NEW step, NEW next, Enroll(step, next)
      PROVE  DataTyped' /\ SameAuthorities
  <2>1. \/ UNCHANGED data
        \/ Put("agent", [Box("agent") EXCEPT !.cert = "good", !.issuer = Box("openvox").ca])
    BY <1>f DEF Enroll
  <2>2. CASE UNCHANGED data
    BY <2>2, StaysSame
  <2>3. CASE Put("agent", [Box("agent") EXCEPT !.cert = "good", !.issuer = Box("openvox").ca])
    <3> DEFINE e == [Box("agent") EXCEPT !.cert = "good", !.issuer = Box("openvox").ca]
    <3>1. e \in Edits(Box("agent"), Box("openvox").ca)
      BY DEF Edits
    <3>2. Put("agent", e)
      BY <2>3
    <3> HIDE DEF e
    <3> QED  BY <3>1, <3>2, <1>2, NameTyped, EditSame
  <2> QED  BY <2>1, <2>2, <2>3
<1>g. CASE UpdateHiera
  <2>1. PICK e \in {[Box("vault") EXCEPT !.kv = 2], [Box("vault") EXCEPT !.kv = 1]} : Put("vault", e)
    BY <1>g DEF UpdateHiera
  <2>2. e \in Edits(Box("vault"), 0)
    BY DEF Edits
  <2> QED  BY <2>1, <2>2, NameTyped, EditSame
<1>h. CASE Revoke
  <2> DEFINE e == [Box("agent") EXCEPT !.cert = "revoked"]
  <2>1. Put("agent", e)
    BY <1>h DEF Revoke
  <2>2. e \in Edits(Box("agent"), 0)
    BY DEF Edits
  <2> HIDE DEF e
  <2> QED  BY <2>1, <2>2, NameTyped, EditSame
<1>i. CASE Replace
  <2> DEFINE e == [Box("agent") EXCEPT !.cert = "none"]
  <2>1. Put("agent", e)
    BY <1>i DEF Replace
  <2>2. e \in Edits(Box("agent"), 0)
    BY DEF Edits
  <2> HIDE DEF e
  <2> QED  BY <2>1, <2>2, NameTyped, EditSame
<1>j. CASE Refuse
  <2>1. data' = data \/ Put("agent", [Box("agent") EXCEPT !.cert = "asked"])
    BY <1>j DEF Refuse, Unsigned, Put
  <2>2. CASE data' = data
    BY <2>2, StaysSame
  <2>3. CASE Put("agent", [Box("agent") EXCEPT !.cert = "asked"])
    <3> DEFINE e == [Box("agent") EXCEPT !.cert = "asked"]
    <3>1. e \in Edits(Box("agent"), 0) /\ Put("agent", e)
      BY <2>3 DEF Edits
    <3> HIDE DEF e
    <3> QED  BY <3>1, NameTyped, EditSame
  <2> QED  BY <2>1, <2>2, <2>3
<1>k. CASE \/ Stage \/ StartupCheck \/ LookForCa \/ ReadRoot \/ Reload \/ StopRoot \/ StopSource \/ Archive \/ Extract
           \/ CreateVolume \/ CompareRoot \/ StopRestoredRoot \/ RestoredUp \/ Pass \/ UpRest
           \/ Stop \/ RemoveTree \/ DeployAndStart \/ Renew \/ StopVault \/ Verify
  <2>1. UNCHANGED data
    BY <1>k DEF volVars, Stage, StartupCheck, LookForCa, ReadRoot, Reload, StopRoot, StopSource, Archive, Extract,
        CreateVolume, CompareRoot, StopRestoredRoot, RestoredUp, Pass, UpRest, Stop, RemoveTree,
        DeployAndStart, Renew, StopVault, Verify
  <2> QED  BY <2>1, StaysSame
<1> QED
  BY <1>a, <1>b, <1>c, <1>d, <1>e, <1>f, <1>g, <1>h, <1>i, <1>j, <1>k DEF QuietSteps, WorkStep

\* Giving another command, and a reboot, touch no volume.
LEMMA OutsideSame ==
    ASSUME DataTyped, Retry \/ Command \/ Reboot
    PROVE  DataTyped' /\ SameAuthorities
<1>1. UNCHANGED data
  BY DEF Retry, Command, Reboot, volVars, Begin, BeginRun, BeginUp, BeginStop, BeginDestroy
<1> QED  BY <1>1, StaysSame

-------------------------------------------------------------------------------
(* The steps that write authorities. *)

\* The box the step at hand may change, and to what.
OnlyBox(p, v) ==
    \A q \in Projects, w \in Services : q # p \/ w # v => data'[q][w] = data[q][w]

MakesAuthority(v) ==
    /\ OnlyBox(on, v) /\ data'[on][v].mounted = data[on][v].mounted
    /\ data'[on][v].ca = made + 1

LEMMA NewAuthority ==
    ASSUME DataTyped, on \in Projects, made \in Nat, NEW v \in {"root", "vault", "openvox"},
           NEW j \in Nat,
           \/ Put(v, [Box(v) EXCEPT !.ca = made + 1])
           \/ Put(v, [Box(v) EXCEPT !.ca = made + 1, !.issuer = j])
    PROVE  DataTyped' /\ MakesAuthority(v)
<1>1. v \in Services /\ Box(v) \in Boxes
  BY BoxTyped, NameTyped
<1>2. PICK e \in {[Box(v) EXCEPT !.ca = made + 1],
                  [Box(v) EXCEPT !.ca = made + 1, !.issuer = j]} : Put(v, e)
  OBVIOUS
<1> DEFINE b == Box(v)
<1> HIDE DEF b
<1>3. e \in Boxes /\ e.ca = made + 1 /\ e.mounted = Box(v).mounted
  <2>1. b \in Boxes /\ made + 1 \in Nat
    BY <1>1 DEF b
  <2>2. e \in {[b EXCEPT !.ca = made + 1], [b EXCEPT !.ca = made + 1, !.issuer = j]}
    BY DEF b
  <2> DEFINE k == made + 1
  <2>3. k \in Nat /\ e \in {[b EXCEPT !.ca = k], [b EXCEPT !.ca = k, !.issuer = j]}
    BY <2>1, <2>2
  <2> HIDE DEF k
  <2>4. e \in Boxes /\ e.ca = k /\ e.mounted = b.mounted
    <3>1. CASE e = [b EXCEPT !.ca = k]
      BY <3>1, <2>1, <2>3 DEF Boxes
    <3>2. CASE e = [b EXCEPT !.ca = k, !.issuer = j]
      BY <3>2, <2>1, <2>3 DEF Boxes
    <3> QED  BY <2>3, <3>1, <3>2
  <2> QED  BY <2>4 DEF b, k
<1>4. DataTyped' /\ \A p \in Projects, w \in Services :
          data'[p][w] = IF p = on /\ w = v THEN e ELSE data[p][w]
  BY <1>1, <1>2, <1>3, PutWrites
<1>5. OnlyBox(on, v)
  BY <1>4 DEF OnlyBox
<1>6. data'[on][v] = e
  BY <1>1, <1>4
<1> QED  BY <1>3, <1>4, <1>5, <1>6 DEF MakesAuthority, Box

LEMMA GenerateMakes ==
    ASSUME DataTyped, on \in Projects, made \in Nat
    PROVE  /\ Generate => DataTyped' /\ MakesAuthority("root")
           /\ Import => DataTyped' /\ MakesAuthority("openvox")
           /\ Intermediate => DataTyped' /\ MakesAuthority("vault")
<1>1. Box("root").ca \in Nat
  BY BoxTyped, NameTyped DEF Boxes
<1>2. ASSUME Generate PROVE DataTyped' /\ MakesAuthority("root")
  <2>1. Put("root", [Box("root") EXCEPT !.ca = made + 1])
    BY <1>2 DEF Generate
  <2> QED  BY <2>1, <1>1, NewAuthority
<1>3. ASSUME Import PROVE DataTyped' /\ MakesAuthority("openvox")
  <2>1. Put("openvox", [Box("openvox") EXCEPT !.ca = made + 1, !.issuer = Box("root").ca])
    BY <1>3 DEF Import
  <2> QED  BY <2>1, <1>1, NewAuthority
<1>4. ASSUME Intermediate PROVE DataTyped' /\ MakesAuthority("vault")
  <2>1. Put("vault", [Box("vault") EXCEPT !.ca = made + 1, !.issuer = Box("root").ca])
    BY <1>4 DEF Intermediate
  <2> QED  BY <2>1, <1>1, NewAuthority
<1> QED  BY <1>2, <1>3, <1>4

\* One volume of the restore project gets its archive.
LEMMA FillWrites ==
    ASSUME DataTyped, archive \in [Services -> Boxes], n \in 1..4, FillVolume
    PROVE  /\ Volumes[n] \in Services
           /\ DataTyped' /\ OnlyBox("restore", Volumes[n])
           /\ data'["restore"][Volumes[n]] = archive[Volumes[n]]
<1>1. Volumes[n] \in Services
  BY DEF Volumes, Services
<1>2. data' = [data EXCEPT !["restore"][Volumes[n]] = archive[Volumes[n]]]
  BY DEF FillVolume
<1> DEFINE v == Volumes[n]
<1>3. archive[v] \in Boxes
  BY <1>1
<1>4. data' = [data EXCEPT !["restore"][v] = archive[v]]
  BY <1>2
<1> HIDE DEF v
<1>5. DataTyped' /\ OnlyBox("restore", v) /\ data'["restore"][v] = archive[v]
  BY <1>1, <1>3, <1>4 DEF DataTyped, OnlyBox, Projects, v
<1> QED  BY <1>1, <1>5 DEF v

\* destroy, also one cut short, empties volumes of its own project and changes no other.
Empties(p) ==
    \A q \in Projects, w \in Services :
        data'[q][w] = data[q][w] \/ (q = p /\ data'[q][w] = Empty)

LEMMA DownEmpties ==
    ASSUME DataTyped, on \in Projects, Down
    PROVE  DataTyped' /\ Empties(on) /\ \A w \in Services : data'[on][w] = Empty
<1>1. data' = [data EXCEPT ![on] = EmptyProject]
  BY DEF Down
<1>2. \A w \in Services : EmptyProject[w] = Empty
  BY DEF EmptyProject
<1>3. DataTyped'
  BY <1>1, EmptyIsBox DEF DataTyped
<1>4. \A q \in Projects, w \in Services :
        data'[q][w] = IF q = on THEN Empty ELSE data[q][w]
  BY <1>1, <1>2 DEF DataTyped
<1>5. Empties(on)
  <2> SUFFICES ASSUME NEW q \in Projects, NEW w \in Services
               PROVE  data'[q][w] = data[q][w] \/ (q = on /\ data'[q][w] = Empty)
    BY DEF Empties
  <2> QED  BY <1>4
<1> QED  BY <1>3, <1>4, <1>5

LEMMA HalfSame ==
    ASSUME DataTyped, on \in Projects, LeavesHalf
    PROVE  DataTyped' /\ (SameAuthorities \/ (pc = "down" /\ Empties(on)))
<1>1. CASE pc = "down"
  <2>1. PICK gone \in SUBSET Services :
          data' = [data EXCEPT ![on] = [v \in Services |-> IF v \in gone THEN Empty ELSE @[v]]]
    BY <1>1 DEF LeavesHalf
  <2>2. data[on] \in [Services -> Boxes]
    BY DEF DataTyped
  <2>3. [v \in Services |-> IF v \in gone THEN Empty ELSE data[on][v]] \in [Services -> Boxes]
    BY <2>2, EmptyIsBox
  <2> DEFINE left == [v \in Services |-> IF v \in gone THEN Empty ELSE data[on][v]]
  <2>4. data' = [data EXCEPT ![on] = left]
    BY <2>1
  <2>5. \A w \in Services : left[w] = data[on][w] \/ left[w] = Empty
    OBVIOUS
  <2> HIDE DEF left
  <2>6. DataTyped'
    BY <2>3, <2>4 DEF DataTyped, left
  <2>7. \A q \in Projects, w \in Services :
          data'[q][w] = IF q = on THEN left[w] ELSE data[q][w]
    BY <2>4 DEF DataTyped
  <2>8. Empties(on)
    <3> SUFFICES ASSUME NEW q \in Projects, NEW w \in Services
                 PROVE  data'[q][w] = data[q][w] \/ (q = on /\ data'[q][w] = Empty)
      BY DEF Empties
    <3> QED  BY <2>5, <2>7
  <2> QED  BY <1>1, <2>6, <2>8
<1>2. CASE pc # "down"
  <2>1. data' = data \/ data' = Unsigned
    BY <1>2 DEF LeavesHalf
  <2>2. data' = data \/ Put("agent", [Box("agent") EXCEPT !.cert = "asked"])
    BY <2>1 DEF Unsigned, Put
  <2>3. CASE data' = data
    BY <2>3, StaysSame
  <2>4. CASE Put("agent", [Box("agent") EXCEPT !.cert = "asked"])
    <3> DEFINE e == [Box("agent") EXCEPT !.cert = "asked"]
    <3>1. e \in Edits(Box("agent"), 0) /\ Put("agent", e)
      BY <2>4 DEF Edits
    <3> HIDE DEF e
    <3>2. DataTyped' /\ SameAuthorities
      BY <3>1, NameTyped, EditSame
    <3> QED  BY <3>2
  <2> QED  BY <2>2, <2>3, <2>4
<1> QED  BY <1>1, <1>2

-------------------------------------------------------------------------------
(* Type correctness. *)

LEMMA DataStep ==
    ASSUME TypeOK, Next
    PROVE  DataTyped'
<1>0. DataTyped /\ on \in Projects /\ made \in Nat /\ archive \in [Services -> Boxes] /\ n \in 1..4
  BY DEF TypeOK, DataTyped, Volumes
<1>1. CASE \E s \in Starts : StartStep(s)
  BY <1>0, <1>1, StartSame
<1>2. CASE QuietSteps
  BY <1>0, <1>2, QuietSame
<1>3. CASE Generate \/ Import \/ Intermediate
  BY <1>0, <1>3, GenerateMakes
<1>4. CASE FillVolume
  BY <1>0, <1>4, FillWrites
<1>5. CASE Down
  BY <1>0, <1>5, DownEmpties
<1>6. CASE Retry \/ Command \/ Reboot
  BY <1>0, <1>6, OutsideSame
<1>7. CASE Fails \/ Killed
  BY <1>0, <1>7, HalfSame DEF Fails, Killed
<1> QED
  BY <1>1, <1>2, <1>3, <1>4, <1>5, <1>6, <1>7
  DEF Next, Step, QuietSteps, InitializeStep, RecoverStep, ManageStep

\* The running command, its report, and the counters.
ControlTyped ==
    /\ pc \in Steps /\ on \in Projects /\ key \in BOOLEAN /\ n \in 1..4
    /\ occupied \in BOOLEAN /\ made \in Nat
    /\ report \in {"none", "passed", "failed"}
    /\ faults \in 0..MaxFaults /\ commands \in 0..MaxCommands

FilesTyped ==
    /\ config \in [Projects -> {"none", "half", "whole"}]
    /\ up \in [Projects -> SUBSET Services]
    /\ shown \in [Projects -> {"none", "self", "part", "issued"}]
    /\ archive \in [Services -> Boxes]

LEMMA TypeSplit == TypeOK <=> DataTyped /\ ControlTyped /\ FilesTyped
BY DEF TypeOK, DataTyped, ControlTyped, FilesTyped, Volumes

LEMMA StartControl ==
    ASSUME ControlTyped, NEW s \in Starts, StartStep(s)
    PROVE  ControlTyped'
<1>1. s[1] \in Steps /\ s[3] \in Steps
  BY DEF Starts, Steps, Managing
<1> QED
  BY <1>1 DEF ControlTyped, StartStep, InitVault, SaveRecovery, Unseal, Does,
      procVars, volVars, countVars

LEMMA InitializeControl ==
    ASSUME ControlTyped, InitializeStep
    PROVE  ControlTyped'
<1>1. CASE \/ IdentityStep \/ StartupCheck \/ ReadRoot \/ Prepare \/ LookForCa \/ ImportRest \/ Chain
  BY <1>1 DEF ControlTyped, IdentityStep, MakeIdentity, StartupCheck, ReadRoot, Prepare, LookForCa,
      ImportRest, Chain, Does, Steps, procVars, volVars, countVars
<1>2. CASE \/ Stage \/ RootMount \/ VaultMount \/ Transport \/ Reload \/ StopRoot
           \/ ConfigureAccess
  BY <1>2 DEF ControlTyped, Stage, RootMount, VaultMount, Transport, Reload, StopRoot,
      ConfigureAccess, Does, Steps, procVars, volVars, countVars
<1>3. CASE Generate \/ Import \/ Intermediate
  BY <1>3 DEF ControlTyped, Generate, Import, Intermediate, Does, Steps, procVars, countVars
<1> QED  BY <1>1, <1>2, <1>3 DEF InitializeStep

LEMMA WorkControl ==
    ASSUME ControlTyped, WorkStep
    PROVE  ControlTyped'
BY DEF ControlTyped, WorkStep, DeployAndStart, Enroll, UpdateHiera, Renew, Revoke, Replace,
    StopVault, Verify, Does, Steps, procVars, volVars, countVars

LEMMA RecoverControl ==
    ASSUME ControlTyped, RecoverStep
    PROVE  ControlTyped'
<1>1. Len(Volumes) = 4
  BY DEF Volumes
<1>2. n' \in 1..4
  BY <1>1 DEF ControlTyped, RecoverStep, StopSource, Archive, Extract, CreateVolume, FillVolume,
      CompareRoot, StopRestoredRoot, RestoredUp, Pass, Does, procVars, volVars, countVars
<1>3. on' \in Projects
  BY DEF ControlTyped, Projects, RecoverStep, StopSource, Archive, Extract, CreateVolume, FillVolume,
      CompareRoot, StopRestoredRoot, RestoredUp, Pass, Does, procVars, volVars, countVars
<1>4. pc' \in Steps
  BY DEF Steps, RecoverStep, StopSource, Archive, Extract, CreateVolume, FillVolume,
      CompareRoot, StopRestoredRoot, RestoredUp, Pass, Does, procVars, volVars, countVars
<1>5. UNCHANGED <<key, made, faults, commands>>
  BY DEF RecoverStep, StopSource, Archive, Extract, CreateVolume, FillVolume,
      CompareRoot, StopRestoredRoot, RestoredUp, Pass, Does, procVars, volVars, countVars
<1>6. occupied' \in BOOLEAN
  BY DEF ControlTyped, RecoverStep, StopSource, Archive, Extract, CreateVolume, FillVolume,
      CompareRoot, StopRestoredRoot, RestoredUp, Pass, Does, procVars, volVars, countVars
<1>7. report' \in {"none", "passed", "failed"}
  BY DEF ControlTyped, RecoverStep, StopSource, Archive, Extract, CreateVolume, FillVolume,
      CompareRoot, StopRestoredRoot, RestoredUp, Pass, Does, procVars, volVars, countVars
<1> QED  BY <1>2, <1>3, <1>4, <1>5, <1>6, <1>7 DEF ControlTyped

LEMMA OtherControl ==
    ASSUME ControlTyped, ManageStep \/ Refuse \/ Retry \/ Command \/ Fails \/ Killed \/ Reboot
    PROVE  ControlTyped'
<1>1. CASE ManageStep
  BY <1>1 DEF ControlTyped, ManageStep, UpRest, Stop, Down, RemoveTree, Does, Steps, Managing,
      procVars, volVars, countVars
<1>2. CASE Refuse
  BY <1>2 DEF ControlTyped, Refuse, GivesUp, Steps, countVars
<1>3. CASE Retry
  BY <1>3 DEF ControlTyped, Retry, Begin, BeginRun, BeginDestroy, Steps, Managing, Projects, volVars
<1>4. CASE Command
  <2>1. commands' \in 0..MaxCommands /\ made' \in Nat /\ n' \in 1..4 /\ faults' \in 0..MaxFaults
    BY <1>4, BoundsAssumption DEF ControlTyped, BoundsAssumption, Command, Begin, BeginRun, BeginUp,
        BeginStop, BeginDestroy, volVars
  <2>2. /\ on' \in Projects /\ pc' \in Steps /\ key' \in BOOLEAN
        /\ report' \in {"none", "passed", "failed"}
    BY <1>4 DEF ControlTyped, Command, Begin, BeginRun, BeginUp, BeginStop, BeginDestroy,
        Projects, Steps, Managing
  <2>3. occupied' \in BOOLEAN
    BY <1>4 DEF ControlTyped, Command, Begin, BeginRun, BeginUp, BeginStop, BeginDestroy
  <2> QED  BY <2>1, <2>2, <2>3 DEF ControlTyped
<1>5. CASE Fails
  <2>1. faults' \in 0..MaxFaults
    BY <1>5, BoundsAssumption DEF ControlTyped, BoundsAssumption, Fails, Fault
  <2>2. pc' \in Steps /\ key' \in BOOLEAN /\ report' \in {"none", "passed", "failed"}
    BY <1>5 DEF ControlTyped, Fails, GivesUp, Steps
  <2>3. UNCHANGED <<on, n, occupied, made, commands>>
    BY <1>5 DEF Fails, Fault
  <2> QED  BY <2>1, <2>2, <2>3 DEF ControlTyped
<1>6. CASE Killed
  <2>1. faults' \in 0..MaxFaults
    BY <1>6, BoundsAssumption DEF ControlTyped, BoundsAssumption, Killed, Fault
  <2>2. pc' \in Steps /\ key' \in BOOLEAN
    BY <1>6 DEF Killed, Steps
  <2>3. UNCHANGED <<on, n, occupied, report, made, commands>>
    BY <1>6 DEF Killed, Fault
  <2> QED  BY <2>1, <2>2, <2>3 DEF ControlTyped
<1>7. CASE Reboot
  BY <1>7, BoundsAssumption DEF ControlTyped, BoundsAssumption, Reboot, Fault, Steps,
      procVars, volVars
<1> QED  BY <1>1, <1>2, <1>3, <1>4, <1>5, <1>6, <1>7

LEMMA StartFiles ==
    ASSUME FilesTyped, DataTyped, on \in Projects, NEW s \in Starts, StartStep(s)
    PROVE  FilesTyped'
<1>0. s[2] \in Services
  BY DEF Starts, Services
<1>1. Box(s[2]).leaf \in {"none", "self", "part", "issued"}
  BY <1>0, BoxTyped DEF Boxes
<1>2. CASE ContainerUp(s[2]) /\ UNCHANGED <<config, archive>>
  BY <1>0, <1>1, <1>2 DEF ContainerUp, FilesTyped
<1>3. CASE UNCHANGED <<upVars, config, archive>>
  BY <1>3 DEF FilesTyped, upVars
<1> QED
  BY <1>2, <1>3 DEF StartStep, InitVault, SaveRecovery, Unseal, Does, procVars

LEMMA InitializeFiles ==
    ASSUME FilesTyped, DataTyped, on \in Projects, InitializeStep
    PROVE  FilesTyped'
<1>1. CASE Stage
  BY <1>1 DEF FilesTyped, Stage, procVars, upVars
<1>2. CASE Reload
  <2>1. Box("vault").leaf \in {"none", "self", "part", "issued"}
    BY BoxTyped, NameTyped DEF Boxes
  <2> QED  BY <1>2, <2>1 DEF FilesTyped, Reload, Does, procVars
<1>3. CASE StopRoot
  BY <1>3 DEF FilesTyped, StopRoot, Does, procVars
<1>4. CASE \/ RootMount \/ Generate \/ ReadRoot \/ Import \/ Chain
           \/ VaultMount \/ Intermediate \/ Transport \/ ConfigureAccess
  BY <1>4 DEF FilesTyped, RootMount, Generate, ReadRoot, Import, Chain, VaultMount, Intermediate,
      Transport, ConfigureAccess, Does, procVars, upVars
<1>5. CASE \/ IdentityStep \/ StartupCheck \/ Prepare \/ LookForCa \/ ImportRest
  BY <1>5 DEF FilesTyped, IdentityStep, MakeIdentity, StartupCheck, Prepare, LookForCa, ImportRest, Does,
      procVars, upVars
<1> QED  BY <1>1, <1>2, <1>3, <1>4, <1>5 DEF InitializeStep

LEMMA WorkFiles ==
    ASSUME FilesTyped, WorkStep
    PROVE  FilesTyped'
<1>1. CASE DeployAndStart
  BY <1>1 DEF FilesTyped, DeployAndStart, Does, procVars, Services
<1>2. CASE StopVault
  BY <1>2 DEF FilesTyped, StopVault, Does, procVars
<1>3. ASSUME NEW step, NEW next, Enroll(step, next) PROVE FilesTyped'
  BY <1>3 DEF FilesTyped, Enroll, Does, procVars, upVars
<1>4. CASE UpdateHiera \/ Renew \/ Revoke \/ Replace \/ Verify
  BY <1>4 DEF FilesTyped, UpdateHiera, Renew, Revoke, Replace, Verify, Does, procVars, upVars
<1> QED  BY <1>1, <1>2, <1>3, <1>4 DEF WorkStep

LEMMA RecoverFiles ==
    ASSUME FilesTyped, DataTyped, RecoverStep
    PROVE  FilesTyped'
<1>1. CASE StopSource \/ StopRestoredRoot
  BY <1>1 DEF FilesTyped, StopSource, StopRestoredRoot, Does, procVars
<1>2. CASE RestoredUp
  BY <1>2 DEF FilesTyped, RestoredUp, Does, procVars, Services
<1>3. CASE Archive
  <2>1. data["source"] \in [Services -> Boxes]
    BY DEF DataTyped, Projects
  <2> QED  BY <1>3, <2>1 DEF FilesTyped, Archive, Does, upVars
<1>4. CASE Extract
  BY <1>4 DEF FilesTyped, Extract, upVars
<1>5. CASE CreateVolume \/ FillVolume \/ CompareRoot \/ Pass
  BY <1>5 DEF FilesTyped, CreateVolume, FillVolume, CompareRoot, Pass, Does, procVars, upVars
<1> QED  BY <1>1, <1>2, <1>3, <1>4, <1>5 DEF RecoverStep

LEMMA OtherFiles ==
    ASSUME FilesTyped, ManageStep \/ Refuse \/ Retry \/ Command \/ Fails \/ Killed \/ Reboot
    PROVE  FilesTyped'
<1>1. CASE UpRest \/ Stop \/ Down \/ RemoveTree
  BY <1>1 DEF FilesTyped, UpRest, Stop, Down, RemoveTree, Does, procVars, upVars, Services
<1>2. CASE Refuse
  BY <1>2 DEF FilesTyped, Refuse, upVars
<1>3. CASE Retry \/ Command
  BY <1>3 DEF FilesTyped, Retry, Command, Begin, BeginRun, BeginUp, BeginStop, BeginDestroy, upVars
<1>4. CASE Fails \/ Killed
  <2>1. config' \in [Projects -> {"none", "half", "whole"}]
    BY <1>4 DEF Fails, Killed, LeavesHalf, FilesTyped
  <2>2. up' \in [Projects -> SUBSET Services]
    BY <1>4 DEF Fails, Killed, LeavesHalf, FilesTyped
  <2> QED  BY <1>4, <2>1, <2>2 DEF Fails, Killed, FilesTyped
<1>5. CASE Reboot
  BY <1>5 DEF FilesTyped, Reboot, procVars
<1> QED  BY <1>1, <1>2, <1>3, <1>4, <1>5 DEF ManageStep

LEMMA TypeStep ==
    ASSUME TypeOK, [Next]_vars
    PROVE  TypeOK'
<1>0. DataTyped /\ ControlTyped /\ FilesTyped /\ on \in Projects
  BY TypeSplit DEF ControlTyped
<1>1. CASE Next
  <2>1. DataTyped'
    BY <1>1, DataStep
  <2>2. ControlTyped'
    BY <1>0, <1>1, StartControl, InitializeControl, WorkControl, RecoverControl, OtherControl
    DEF Next, Step
  <2>3. FilesTyped'
    BY <1>0, <1>1, StartFiles, InitializeFiles, WorkFiles, RecoverFiles, OtherFiles
    DEF Next, Step
  <2> QED  BY <2>1, <2>2, <2>3, TypeSplit, PTL
<1>2. CASE UNCHANGED vars
  BY <1>2 DEF TypeOK, vars, procVars, fileVars, volVars, upVars, countVars
<1> QED  BY <1>1, <1>2

\* For any number of faults and commands every variable keeps its type.
THEOREM TypeCorrect == Spec => []TypeOK
<1>1. Init => TypeOK
  <2> SUFFICES ASSUME Init PROVE TypeOK
    OBVIOUS
  <2>1. DataTyped
    BY EmptyIsBox DEF Init, DataTyped
  <2>2. ControlTyped
    <3>1. faults \in 0..MaxFaults /\ commands \in 0..MaxCommands /\ made \in Nat /\ n \in 1..4
      BY BoundsAssumption DEF Init, BoundsAssumption
    <3>2. /\ pc \in Steps /\ on \in Projects /\ key \in BOOLEAN /\ occupied \in BOOLEAN
          /\ report \in {"none", "passed", "failed"}
      BY DEF Init, Steps, Projects
    <3> QED  BY <3>1, <3>2 DEF ControlTyped
  <2>3. FilesTyped
    BY EmptyIsBox DEF Init, FilesTyped
  <2> QED  BY <2>1, <2>2, <2>3, TypeSplit
<1>2. TypeOK /\ [Next]_vars => TypeOK'
  BY TypeStep
<1> QED  BY <1>1, <1>2, PTL DEF Spec

-------------------------------------------------------------------------------
(***************************************************************************)
(* An authority is never replaced.  The invariant says why each step that  *)
(* writes one finds none: a mount comes before its authority and is looked *)
(* at first, and recovery begins only where the restore project has no     *)
(* volume and fills each one once, from a source nothing else changes.     *)
(***************************************************************************)

RunSteps == Steps \ (Managing \cup {"idle", "restored_root", "compare_root",
    "stop_restored_root", "give_up", "restored_vault", "restored_up", "pass"})

MountsFirst ==
    \A v \in Vaults :
        /\ \A p \in Projects : data[p][v].mounted \/ data[p][v].ca = 0
        /\ archive[v].mounted \/ archive[v].ca = 0

Making ==
    /\ pc = "generate" => data["source"]["root"].mounted /\ data["source"]["root"].ca = 0
    /\ pc = "intermediate" => data["source"]["vault"].mounted /\ data["source"]["vault"].ca = 0

Restoring ==
    /\ pc \in {"archive", "extract"} => ~occupied
    /\ pc = "fill" => occupied
    /\ ~occupied => \A v \in Services : data["restore"][v].ca = 0
    /\ pc \in {"extract", "create", "fill"} =>
        \A v \in Services : archive[v].ca = data["source"][v].ca
    /\ pc \in {"create", "fill"} => \A i \in n..4 : data["restore"][Volumes[i]].ca = 0

Kept ==
    /\ pc \in RunSteps => on = "source"
    /\ MountsFirst /\ Making /\ Restoring

WritingSteps == {"generate", "intermediate", "archive", "extract", "create", "fill"}

\* What a step that writes no authority and leads to none that does has to keep.
LEMMA PlainKept ==
    ASSUME Kept, SameAuthorities, archive' = archive, occupied => occupied',
           pc' \notin WritingSteps, pc' \in RunSteps => on' = "source"
    PROVE  Kept'
<1>1. MountsFirst'
  BY DEF Kept, MountsFirst, SameAuthorities, Vaults, Services
<1>2. Making'
  BY DEF Making, WritingSteps
<1>3. Restoring'
  BY DEF Kept, Restoring, SameAuthorities, WritingSteps, Projects
<1> QED  BY <1>1, <1>2, <1>3 DEF Kept

LEMMA StartKept ==
    ASSUME TypeOK, Kept, NEW s \in Starts, StartStep(s)
    PROVE  Kept' /\ SameAuthorities
<1>1. DataTyped' /\ SameAuthorities
  BY StartSame DEF TypeOK, DataTyped
<1>2. archive' = archive /\ occupied' = occupied /\ on' = on /\ pc' \in {s[1], s[3]} /\ pc = s[1]
  BY DEF StartStep, InitVault, SaveRecovery, Unseal, Does, procVars
<1>3. pc' \notin WritingSteps /\ (pc' \in RunSteps => pc \in RunSteps)
  BY <1>2 DEF Starts, WritingSteps, RunSteps, Steps, Managing
<1> QED  BY <1>1, <1>2, <1>3, PlainKept DEF Kept

InitializeQuiet ==
    \/ StartupCheck \/ IdentityStep \/ ReadRoot \/ Prepare \/ LookForCa \/ ImportRest

\* The steps of run that lead to no step that finds what an earlier one looked at.
LEMMA PlainRun ==
    ASSUME TypeOK, Kept,
           \/ Stage \/ InitializeQuiet
           \/ Chain \/ Transport \/ Reload \/ StopRoot \/ ConfigureAccess \/ WorkStep
           \/ CompareRoot \/ StopRestoredRoot \/ RestoredUp \/ Pass
           \/ UpRest \/ Stop \/ RemoveTree \/ Refuse
    PROVE  Kept' /\ SameAuthorities
<1>1. SameAuthorities
  BY QuietSame DEF QuietSteps, InitializeQuiet, TypeOK, DataTyped
<1>2. archive' = archive /\ occupied' = occupied /\ on' = on
  BY DEF Stage, InitializeQuiet, StartupCheck, IdentityStep, MakeIdentity, ReadRoot, Prepare,
      LookForCa, ImportRest, Chain, Transport, Reload, StopRoot, ConfigureAccess, WorkStep,
      DeployAndStart, Enroll, UpdateHiera, Renew, Revoke, Replace, StopVault, Verify,
      CompareRoot, StopRestoredRoot, RestoredUp, Pass, UpRest, Stop, RemoveTree, Refuse,
      Does, procVars
<1>3. pc' \notin WritingSteps
  BY DEF WritingSteps, Stage, InitializeQuiet, StartupCheck, IdentityStep, MakeIdentity,
      ReadRoot, Prepare, LookForCa, ImportRest, Chain, Transport, Reload, StopRoot, ConfigureAccess, WorkStep,
      DeployAndStart, Enroll, UpdateHiera, Renew, Revoke, Replace, StopVault, Verify,
      CompareRoot, StopRestoredRoot, RestoredUp, Pass, UpRest, Stop, RemoveTree, Refuse,
      GivesUp, Does
<1>4. pc' \in RunSteps => pc \in RunSteps
  BY DEF RunSteps, Steps, Managing, Stage, InitializeQuiet, StartupCheck, IdentityStep,
      MakeIdentity, ReadRoot, Prepare, LookForCa, ImportRest, Chain, Transport, Reload, StopRoot,
      ConfigureAccess, WorkStep, DeployAndStart, Enroll, UpdateHiera, Renew, Revoke, Replace,
      StopVault, Verify, CompareRoot, StopRestoredRoot, RestoredUp, Pass, UpRest, Stop,
      RemoveTree, Refuse, GivesUp, Does
<1> QED  BY <1>1, <1>2, <1>3, <1>4, PlainKept DEF Kept

LEMMA OutsideKept ==
    ASSUME TypeOK, Kept, Retry \/ Command \/ Reboot
    PROVE  Kept' /\ SameAuthorities
<1>1. SameAuthorities
  BY OutsideSame DEF TypeOK, DataTyped
<1>2. archive' = archive /\ (occupied => occupied') /\ pc' \notin WritingSteps
  <2>1. CASE Reboot
    BY <2>1 DEF Reboot, procVars, WritingSteps
  <2>2. CASE Retry
    BY <2>2 DEF Retry, Begin, BeginRun, BeginDestroy, WritingSteps
  <2>3. CASE Command
    <3>1. archive' = archive /\ pc' \notin WritingSteps
      BY <2>3 DEF Command, Begin, BeginRun, BeginUp, BeginStop, BeginDestroy, WritingSteps
    <3>2. occupied => occupied'
      BY <2>3, Zenon DEF Command, BeginRun, BeginUp, BeginStop, BeginDestroy
    <3> QED  BY <3>1, <3>2
  <2> QED  BY <2>1, <2>2, <2>3
<1>3. pc' \in RunSteps => on' = "source"
  <2>1. CASE Reboot
    BY <2>1 DEF Reboot, RunSteps
  <2>2. CASE Retry
    BY <2>2 DEF Retry, Begin, BeginRun, BeginDestroy, RunSteps, Managing
  <2>3. CASE Command
    BY <2>3 DEF Command, Begin, BeginRun, BeginUp, BeginStop, BeginDestroy, RunSteps, Managing
  <2> QED  BY <2>1, <2>2, <2>3
<1> QED  BY <1>1, <1>2, <1>3, PlainKept

LEMMA MountedBox ==
    ASSUME NEW b \in Boxes
    PROVE  [b EXCEPT !.mounted = TRUE].mounted = TRUE /\ [b EXCEPT !.mounted = TRUE] \in Boxes
BY DEF Boxes

LEMMA MountKept ==
    ASSUME TypeOK, Kept, RootMount \/ VaultMount
    PROVE  Kept' /\ SameAuthorities
<1>0. Box("root") \in Boxes /\ Box("vault") \in Boxes
  BY BoxTyped, NameTyped DEF TypeOK, DataTyped
<1>1. DataTyped /\ DataTyped' /\ SameAuthorities
  BY QuietSame DEF QuietSteps, TypeOK, DataTyped
<1>2. /\ archive' = archive /\ occupied' = occupied /\ on' = on
      /\ pc \in {"root_mount", "vault_mount"} /\ on = "source"
  BY DEF RootMount, VaultMount, Does, procVars, Kept, RunSteps, Steps, Managing
<1>3. Restoring'
  BY <1>1, <1>2 DEF Kept, Restoring, SameAuthorities, Projects,
      RootMount, VaultMount, Does, procVars
<1>4. MountsFirst'
  BY <1>1, <1>2 DEF Kept, MountsFirst, SameAuthorities, Vaults, Services
<1>5. Making'
  <2>1. CASE RootMount
    <3> DEFINE e == [Box("root") EXCEPT !.mounted = TRUE]
    <3>1. e.mounted = TRUE /\ e \in Boxes
      BY <1>0, MountedBox
    <3>2. Put("root", e)
      BY <2>1 DEF RootMount
    <3> HIDE DEF e
    <3>3. data'["source"]["root"] = e
      BY <1>1, <1>2, <3>1, <3>2, PutWrites, NameTyped DEF Projects
    <3>4. pc' \in {"read", "generate"} /\ (pc' = "generate" => ~data["source"]["root"].mounted)
      BY <2>1, <1>2 DEF RootMount, Does, Box
    <3>5. pc' = "generate" => data["source"]["root"].ca = 0
      BY <3>4 DEF Kept, MountsFirst, Vaults, Projects
    <3>6. data'["source"]["root"].ca = data["source"]["root"].ca
      BY <1>1, NameTyped DEF SameAuthorities, Projects
    <3>7. data'["source"]["root"].mounted
      BY <3>1, <3>3
    <3> QED  BY <3>4, <3>5, <3>6, <3>7 DEF Making
  <2>2. CASE VaultMount
    <3> DEFINE e == [Box("vault") EXCEPT !.mounted = TRUE]
    <3>1. e.mounted = TRUE /\ e \in Boxes
      BY <1>0, MountedBox
    <3>2. Put("vault", e)
      BY <2>2 DEF VaultMount
    <3> HIDE DEF e
    <3>3. data'["source"]["vault"] = e
      BY <1>1, <1>2, <3>1, <3>2, PutWrites, NameTyped DEF Projects
    <3>4. pc' \in {"offline", "intermediate"} /\ (pc' = "intermediate" => ~data["source"]["vault"].mounted)
      BY <2>2, <1>2 DEF VaultMount, Does, Box
    <3>5. pc' = "intermediate" => data["source"]["vault"].ca = 0
      BY <3>4 DEF Kept, MountsFirst, Vaults, Projects
    <3>6. data'["source"]["vault"].ca = data["source"]["vault"].ca
      BY <1>1, NameTyped DEF SameAuthorities, Projects
    <3>7. data'["source"]["vault"].mounted
      BY <3>1, <3>3
    <3> QED  BY <3>4, <3>5, <3>6, <3>7 DEF Making
  <2> QED  BY <2>1, <2>2
<1>6. pc' \in RunSteps => on' = "source"
  BY <1>2
<1> QED  BY <1>1, <1>3, <1>4, <1>5, <1>6 DEF Kept

\* Each step that makes an authority follows the look that found none, or looks itself.
LEMMA MakeKept ==
    ASSUME TypeOK, Kept, Generate \/ Import \/ Intermediate
    PROVE  /\ Kept'
           /\ \E v \in Authorities :
                data["source"][v].ca = 0 /\ on = "source" /\ OnlyBox("source", v)
<1>1. on = "source" /\ DataTyped /\ made \in Nat
  BY DEF Kept, TypeOK, DataTyped, Generate, Import, Intermediate, Does, RunSteps, Steps, Managing
<1>2. PICK v \in Authorities :
        /\ MakesAuthority(v) /\ data["source"][v].ca = 0
        /\ v \in Vaults => data["source"][v].mounted
  <2>1. CASE Generate
    <3>1. MakesAuthority("root")
      BY <1>1, <2>1, GenerateMakes DEF TypeOK
    <3> QED  BY <2>1, <3>1 DEF Kept, Making, Generate, Does, Authorities
  <2>2. CASE Import
    <3>1. MakesAuthority("openvox")
      BY <1>1, <2>2, GenerateMakes DEF TypeOK
    <3>2. data["source"]["openvox"].ca = 0
      BY <1>1, <2>2 DEF Import, Box
    <3> QED  BY <3>1, <3>2 DEF Authorities, Vaults
  <2>3. CASE Intermediate
    <3>1. MakesAuthority("vault")
      BY <1>1, <2>3, GenerateMakes DEF TypeOK
    <3> QED  BY <2>3, <3>1 DEF Kept, Making, Intermediate, Does, Authorities
  <2> QED  BY <2>1, <2>2, <2>3
<1>3. OnlyBox("source", v) /\ data'["source"][v].mounted = data["source"][v].mounted
  BY <1>1, <1>2 DEF MakesAuthority
<1>4. archive' = archive /\ occupied' = occupied /\ on' = on /\ pc' \in {"read", "import_key", "transport"}
      /\ pc \in {"generate", "import", "intermediate"}
  BY DEF Generate, Import, Intermediate, Does, procVars
<1>5. \A q \in Projects, w \in Services : q # "source" \/ w # v => data'[q][w] = data[q][w]
  BY <1>3 DEF OnlyBox
<1>6. MountsFirst'
  <2> SUFFICES ASSUME NEW w \in Vaults
               PROVE  /\ \A p \in Projects : data'[p][w].mounted \/ data'[p][w].ca = 0
                      /\ archive[w].mounted \/ archive[w].ca = 0
    BY <1>4 DEF MountsFirst
  <2>1. w \in Services
    BY DEF Vaults, Services
  <2>2. ASSUME NEW p \in Projects PROVE data'[p][w].mounted \/ data'[p][w].ca = 0
    <3>1. CASE p = "source" /\ w = v
      BY <3>1, <1>2, <1>3
    <3>2. CASE ~(p = "source" /\ w = v)
      <4>1. data'[p][w] = data[p][w]
        BY <3>2, <1>5, <2>1
      <4> QED  BY <4>1 DEF Kept, MountsFirst
    <3> QED  BY <3>1, <3>2
  <2> QED  BY <2>2 DEF Kept, MountsFirst
<1>7. \A w \in Services : data'["restore"][w] = data["restore"][w]
  BY <1>5 DEF Projects
<1>8. Restoring'
  BY <1>4, <1>7 DEF Kept, Restoring
<1>9. Making'
  BY <1>4 DEF Making
<1>10. pc' \in RunSteps => on' = "source"
  BY <1>1, <1>4
<1> QED  BY <1>1, <1>2, <1>3, <1>6, <1>8, <1>9, <1>10 DEF Kept

\* Recovery begins only where the restore project has nothing, from a source that is stopped.
LEMMA ArchiveKept ==
    ASSUME TypeOK, Kept, StopSource \/ Archive \/ Extract
    PROVE  Kept' /\ SameAuthorities
<1>1. SameAuthorities
  BY QuietSame DEF QuietSteps, TypeOK, DataTyped
<1>2. /\ data' = data /\ occupied' = occupied /\ on' = on /\ on = "source"
      /\ pc' \in {"archive", "extract", "create"}
  BY DEF StopSource, Archive, Extract, Does, procVars, volVars, Kept, RunSteps, Steps, Managing
<1>3. MountsFirst'
  <2>1. CASE Archive
    <3>1. archive' = data["source"]
      BY <2>1 DEF Archive
    <3> QED  BY <1>2, <3>1 DEF Kept, MountsFirst, Projects
  <2>2. CASE StopSource \/ Extract
    <3>1. archive' = archive
      BY <2>2 DEF StopSource, Extract, procVars
    <3> QED  BY <1>2, <3>1 DEF Kept, MountsFirst
  <2> QED  BY <2>1, <2>2
<1>4. Making'
  BY <1>2 DEF Making
<1>5. Restoring'
  <2>1. CASE StopSource
    <3>1. pc' = "archive"
      BY <2>1 DEF StopSource, Does
    <3>2. ~occupied
      BY <2>1 DEF StopSource, RecoverRefused
    <3> QED  BY <1>2, <3>1, <3>2 DEF Kept, Restoring
  <2>2. CASE Archive
    <3>1. pc' = "extract" /\ ~occupied
      BY <2>2 DEF Archive, Does, Kept, Restoring
    <3>2. archive' = data["source"]
      BY <2>2 DEF Archive
    <3> QED  BY <1>2, <3>1, <3>2 DEF Kept, Restoring
  <2>3. CASE Extract
    <3>1. pc' = "create" /\ pc = "extract" /\ ~occupied /\ archive' = archive /\ n' = 1
      BY <2>3 DEF Extract, Kept, Restoring
    <3>2. \A i \in 1..4 : Volumes[i] \in Services
      BY DEF Volumes, Services
    <3>3. \A v \in Services : data["restore"][v].ca = 0 /\ archive[v].ca = data["source"][v].ca
      BY <3>1 DEF Kept, Restoring
    <3>4. \A i \in n'..4 : data'["restore"][Volumes[i]].ca = 0
      BY <1>2, <3>1, <3>2, <3>3
    <3> QED  BY <1>2, <3>1, <3>3, <3>4 DEF Restoring
  <2> QED  BY <2>1, <2>2, <2>3
<1>6. pc' \in RunSteps => on' = "source"
  BY <1>2
<1> QED  BY <1>1, <1>3, <1>4, <1>5, <1>6 DEF Kept

LEMMA CreateKept ==
    ASSUME TypeOK, Kept, CreateVolume
    PROVE  Kept' /\ SameAuthorities
<1>1. SameAuthorities
  BY QuietSame DEF QuietSteps, TypeOK, DataTyped
<1>2. /\ data' = data /\ archive' = archive /\ n' = n /\ on' = on /\ up' = up
      /\ occupied' = TRUE /\ pc = "create" /\ pc' = "fill"
  BY DEF CreateVolume, procVars, volVars, upVars
<1>3. on = "source"
  BY <1>2 DEF Kept, RunSteps, Steps, Managing
<1>4. MountsFirst'
  BY <1>2 DEF Kept, MountsFirst
<1>5. Making'
  BY <1>2 DEF Making
<1>6. Restoring'
  BY <1>2 DEF Kept, Restoring
<1> QED  BY <1>1, <1>2, <1>3, <1>4, <1>5, <1>6 DEF Kept

\* A volume is filled once, while it holds no authority, with its source's.
LEMMA FillKept ==
    ASSUME TypeOK, Kept, FillVolume
    PROVE  /\ Kept'
           /\ \E v \in Services :
                /\ OnlyBox("restore", v) /\ data["restore"][v].ca = 0
                /\ data'["restore"][v].ca = data["source"][v].ca
<1>1. DataTyped /\ on \in Projects /\ archive \in [Services -> Boxes] /\ n \in 1..4
  BY DEF TypeOK, DataTyped, Volumes
<1>2. /\ Volumes[n] \in Services /\ OnlyBox("restore", Volumes[n])
      /\ data'["restore"][Volumes[n]] = archive[Volumes[n]]
  BY <1>1, FillWrites
<1>3. /\ pc = "fill" /\ pc' \in {"restored_root", "create"} /\ occupied' = occupied /\ occupied
      /\ archive' = archive
  BY DEF FillVolume, Does, Kept, Restoring
<1>4. pc' = "create" => n < 4 /\ n' = n + 1 /\ on' = on
  BY <1>1 DEF FillVolume, Does, Volumes
<1>5. on = "source"
  BY <1>3 DEF Kept, RunSteps, Steps, Managing
<1>6. data["restore"][Volumes[n]].ca = 0 /\ archive[Volumes[n]].ca = data["source"][Volumes[n]].ca
  <2>1. n \in n..4
    BY <1>1
  <2> QED  BY <1>2, <1>3, <2>1 DEF Kept, Restoring
<1>7. \A w \in Services : data'["source"][w] = data["source"][w]
  BY <1>2 DEF OnlyBox, Projects
<1>8. MountsFirst'
  <2> SUFFICES ASSUME NEW w \in Vaults
               PROVE  /\ \A p \in Projects : data'[p][w].mounted \/ data'[p][w].ca = 0
                      /\ archive[w].mounted \/ archive[w].ca = 0
    BY <1>3 DEF MountsFirst
  <2>1. w \in Services
    BY DEF Vaults, Services
  <2>2. ASSUME NEW p \in Projects PROVE data'[p][w].mounted \/ data'[p][w].ca = 0
    <3>1. CASE p = "restore" /\ w = Volumes[n]
      BY <3>1, <1>2 DEF Kept, MountsFirst
    <3>2. CASE ~(p = "restore" /\ w = Volumes[n])
      <4>1. data'[p][w] = data[p][w]
        BY <3>2, <1>2, <2>1 DEF OnlyBox
      <4> QED  BY <4>1 DEF Kept, MountsFirst
    <3> QED  BY <3>1, <3>2
  <2> QED  BY <2>2 DEF Kept, MountsFirst
<1>9. Making'
  BY <1>3 DEF Making
<1>10. Restoring'
  <2>1. pc' = "create" => \A i \in n'..4 : data'["restore"][Volumes[i]].ca = 0
    <3> SUFFICES ASSUME pc' = "create", NEW i \in n'..4
                 PROVE  data'["restore"][Volumes[i]].ca = 0
      OBVIOUS
    <3>1. i \in n..4 /\ i # n /\ i \in 1..4
      BY <1>1, <1>4
    <3>2. Volumes[i] # Volumes[n] /\ Volumes[i] \in Services
      BY <3>1, <1>1 DEF Volumes, Services
    <3>3. data'["restore"][Volumes[i]] = data["restore"][Volumes[i]]
      BY <3>2, <1>2 DEF OnlyBox, Projects
    <3>4. data["restore"][Volumes[i]].ca = 0
      BY <3>1, <1>3 DEF Kept, Restoring
    <3> QED  BY <3>3, <3>4
  <2>2. \A v \in Services : archive'[v].ca = data'["source"][v].ca
    BY <1>3, <1>7 DEF Kept, Restoring
  <2> QED  BY <1>3, <2>1, <2>2 DEF Restoring
<1>11. pc' \in RunSteps => on' = "source"
  BY <1>3, <1>4, <1>5 DEF RunSteps
<1> QED  BY <1>2, <1>6, <1>8, <1>9, <1>10, <1>11 DEF Kept

\* A destroy, also one cut short, leaves the mounts that are left with their authorities.
LEMMA EmptiedKept ==
    ASSUME TypeOK, Kept, pc = "down", Empties(on), archive' = archive, on' = on,
           pc' \notin WritingSteps, pc' \notin RunSteps,
           occupied' = occupied \/ \A w \in Services : data'["restore"][w] = Empty
    PROVE  Kept'
<1>1. Empty.ca = 0
  BY DEF Empty
<1>2. \A q \in Projects, w \in Services : data'[q][w] = data[q][w] \/ data'[q][w].ca = 0
  BY <1>1 DEF Empties
<1>3. MountsFirst'
  BY <1>2 DEF Kept, MountsFirst, Vaults, Services
<1>4. Making'
  BY DEF Making, WritingSteps
<1>5. Restoring'
  <2>1. ~occupied' => \A v \in Services : data'["restore"][v].ca = 0
    BY <1>1, <1>2 DEF Kept, Restoring, Projects
  <2> QED  BY <2>1 DEF Restoring, WritingSteps
<1> QED  BY <1>3, <1>4, <1>5 DEF Kept

LEMMA DownKept ==
    ASSUME TypeOK, Kept, Down
    PROVE  Kept' /\ Empties(on) /\ pc = "down"
<1>1. Empties(on) /\ \A w \in Services : data'[on][w] = Empty
  BY DownEmpties DEF TypeOK, DataTyped
<1>2. /\ pc = "down" /\ archive' = archive /\ on' = on
      /\ pc' \notin WritingSteps /\ pc' \notin RunSteps
  BY DEF Down, procVars, WritingSteps, RunSteps, Managing
<1>3. occupied' = occupied \/ \A w \in Services : data'["restore"][w] = Empty
  <2>1. CASE on = "restore"
    BY <1>1, <2>1
  <2>2. CASE on # "restore"
    BY <2>2 DEF Down, TypeOK
  <2> QED  BY <2>1, <2>2
<1> QED  BY <1>1, <1>2, <1>3, EmptiedKept

LEMMA FaultKept ==
    ASSUME TypeOK, Kept, Fails \/ Killed
    PROVE  Kept' /\ (SameAuthorities \/ (pc = "down" /\ Empties(on)))
<1>1. SameAuthorities \/ (pc = "down" /\ Empties(on))
  BY HalfSame DEF Fails, Killed, TypeOK, DataTyped
<1>2. archive' = archive /\ occupied' = occupied /\ on' = on
  BY DEF Fails, Killed
<1>3. pc' \in {"idle", "give_up"}
  BY DEF Fails, Killed, GivesUp
<1>4. pc' \notin WritingSteps /\ pc' \notin RunSteps
  BY <1>3 DEF WritingSteps, RunSteps
<1> QED  BY <1>1, <1>2, <1>4, PlainKept, EmptiedKept

\* What AuthorityStays says of one step.
StaysPut ==
    \A p \in Projects, v \in Authorities :
        data'[p][v].ca # data[p][v].ca =>
            \/ pc = "down" /\ on = p /\ data'[p][v].ca = 0
            \/ p = "source" /\ data[p][v].ca = 0
            \/ p = "restore" /\ data[p][v].ca = 0 /\ data'[p][v].ca = data["source"][v].ca

LEMMA StaysPutCases ==
    /\ SameAuthorities => StaysPut
    /\ pc = "down" /\ Empties(on) => StaysPut
    /\ \A v \in Authorities :
        data["source"][v].ca = 0 /\ OnlyBox("source", v) => StaysPut
    /\ \A v \in Services :
        /\ OnlyBox("restore", v) /\ data["restore"][v].ca = 0
        /\ data'["restore"][v].ca = data["source"][v].ca
        => StaysPut
<1>0. \A v \in Authorities : v \in Services
  BY DEF Authorities, Services
<1>1. SameAuthorities => StaysPut
  BY <1>0 DEF SameAuthorities, StaysPut
<1>2. pc = "down" /\ Empties(on) => StaysPut
  BY <1>0 DEF Empties, Empty, StaysPut
<1>3. ASSUME NEW v \in Authorities, data["source"][v].ca = 0, OnlyBox("source", v)
      PROVE  StaysPut
  BY <1>0, <1>3 DEF OnlyBox, StaysPut
<1>4. ASSUME NEW v \in Services, OnlyBox("restore", v), data["restore"][v].ca = 0,
             data'["restore"][v].ca = data["source"][v].ca
      PROVE  StaysPut
  BY <1>0, <1>4 DEF OnlyBox, StaysPut
<1> QED  BY <1>1, <1>2, <1>3, <1>4

LEMMA KeptStep ==
    ASSUME TypeOK, Kept, Next
    PROVE  Kept' /\ StaysPut
<1>1. CASE \E s \in Starts : StartStep(s)
  BY <1>1, StartKept, StaysPutCases
<1>2. CASE \/ Stage \/ InitializeQuiet
           \/ Chain \/ Transport \/ Reload \/ StopRoot \/ ConfigureAccess \/ WorkStep
           \/ CompareRoot \/ StopRestoredRoot \/ RestoredUp \/ Pass
           \/ UpRest \/ Stop \/ RemoveTree \/ Refuse
  BY <1>2, PlainRun, StaysPutCases
<1>3. CASE RootMount \/ VaultMount
  BY <1>3, MountKept, StaysPutCases
<1>4. CASE Generate \/ Import \/ Intermediate
  BY <1>4, MakeKept, StaysPutCases
<1>5. CASE StopSource \/ Archive \/ Extract
  BY <1>5, ArchiveKept, StaysPutCases
<1>6. CASE CreateVolume
  BY <1>6, CreateKept, StaysPutCases
<1>7. CASE FillVolume
  BY <1>7, FillKept, StaysPutCases
<1>8. CASE Down
  BY <1>8, DownKept, StaysPutCases
<1>9. CASE Fails \/ Killed
  BY <1>9, FaultKept, StaysPutCases
<1>10. CASE Retry \/ Command \/ Reboot
  BY <1>10, OutsideKept, StaysPutCases
<1>11. CASE InitializeStep
  BY <1>2, <1>3, <1>4, <1>11 DEF InitializeStep, InitializeQuiet
<1>12. CASE RecoverStep \/ ManageStep
  BY <1>2, <1>5, <1>6, <1>7, <1>8, <1>12 DEF RecoverStep, ManageStep
<1> QED
  BY <1>1, <1>2, <1>9, <1>10, <1>11, <1>12 DEF Next, Step

\* For any number of faults and commands, in any order, an authority in a volume is replaced
\* by none other: docs/openvox-rehearsal.md:27-28 for every history of the two projects.
THEOREM AuthoritiesStay == Spec => AuthorityStays
<1>1. Init => Kept
  <2> SUFFICES ASSUME Init PROVE Kept
    OBVIOUS
  <2>1. \A v \in Services : EmptyProject[v].ca = 0
    BY DEF EmptyProject, Empty
  <2>2. /\ pc = "idle" /\ ~occupied /\ archive = EmptyProject
        /\ \A p \in Projects : data[p] = EmptyProject
    BY DEF Init
  <2>3. MountsFirst
    BY <2>1, <2>2 DEF MountsFirst, Vaults, Services
  <2>4. Making /\ Restoring
    BY <2>1, <2>2 DEF Making, Restoring, Projects
  <2> QED  BY <2>2, <2>3, <2>4 DEF Kept, RunSteps
<1>2. TypeOK /\ Kept /\ [Next]_vars => Kept'
  <2>1. ASSUME Kept, UNCHANGED vars PROVE Kept'
    BY <2>1 DEF vars, procVars, fileVars, volVars, upVars, countVars, Kept, MountsFirst, Making,
        Restoring
  <2> QED  BY <2>1, KeptStep
<1>3. TypeOK /\ Kept /\ [Next]_vars => [StaysPut]_vars
  BY KeptStep
<1> QED
  BY <1>1, <1>2, <1>3, TypeCorrect, PTL DEF Spec, AuthorityStays, StaysPut
===============================================================================
