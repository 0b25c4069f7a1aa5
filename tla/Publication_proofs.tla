-------------------------- MODULE Publication_proofs --------------------------
(***************************************************************************)
(* Proofs about Publication, for any commits, pushes and faults: the types *)
(* with mutual exclusion, that a receipt is never written while the        *)
(* compiler holds code other than what is on disk, that the newest commit  *)
(* of every branch gets deployed, and that the receipt of a commit that    *)
(* one push named means what the operator takes it to mean.                *)
(***************************************************************************)
EXTENDS Publication, SequenceTheorems, TLAPS

\* What a hook has flushed so far stays flushed until it writes its receipt: nobody else
\* writes the directories, and a compilation loads what is there.
FlushedOK ==
    \A n \in Hooks :
        /\ pc[n] \in {"flush dev", "receipt"} => cache["production"] \in {NoCode, disk["production"]}
        /\ pc[n] = "receipt" => cache["dev"] \in {NoCode, disk["dev"]}

\* A hook that generates types does so from the commit its line names.
ComparedOK == \A n \in Hooks : pc[n] = "types" => disk[Env(n)] = Line(n).new

Inv == TypeOK /\ FlushedOK /\ ComparedOK

LEMMA FaultsKeep ==
    ASSUME TypeOK, (faults' = faults) \/ Fault
    PROVE  faults' \in 0..MaxFaults
<1>1. faults \in 0..MaxFaults /\ MaxFaults \in Nat
  BY BoundsAssumption DEF TypeOK
<1>2. CASE Fault
  BY <1>1, <1>2 DEF Fault
<1> QED BY <1>1, <1>2

LEMMA EnvsFacts == "production" \in Envs /\ "dev" \in Envs
BY DEF Envs

\* The input of a hook is a sequence of lines.
LEMMA OrdersAreLines ==
    ASSUME NEW envs \in Orders, NEW named, named = {envs[i] : i \in DOMAIN envs},
           NEW new \in [named -> Commits \cup {Zero}]
    PROVE  /\ named \subseteq Envs
           /\ [i \in DOMAIN envs |-> [env |-> envs[i], new |-> new[envs[i]]]] \in Seq(Lines)
<1>1. envs \in Seq(Envs)
  <2>1. PICK k \in 0..2 : envs \in [1..k -> Envs]
    BY DEF Orders
  <2> QED BY <2>1
<1>2. DOMAIN envs = 1..Len(envs) /\ Len(envs) \in Nat /\ \A i \in DOMAIN envs : envs[i] \in Envs
  BY <1>1
<1>3. \A i \in DOMAIN envs : [env |-> envs[i], new |-> new[envs[i]]] \in Lines
  BY <1>2 DEF Lines
<1> QED BY <1>2, <1>3

-------------------------------------------------------------------------------
(* The step of a hook: its place changes, and nobody else's. *)

LEMMA PushKeeps == ASSUME Inv, NEW n \in Hooks, Push(n) PROVE Inv'
<1> USE DEF Inv
<1>1. PICK envs \in Orders :
        LET named == {envs[i] : i \in DOMAIN envs} IN
        \E new \in [named -> Commits \cup {Zero}] :
            /\ ref' = [e \in Envs |-> IF e \in named THEN new[e] ELSE ref[e]]
            /\ seen' = seen \cup ({new[e] : e \in named} \ {Zero})
            /\ again' = again \cup (seen \cap {new[e] : e \in named})
            /\ todo' = [todo EXCEPT ![n] = [i \in DOMAIN envs |-> [env |-> envs[i], new |-> new[envs[i]]]]]
  BY DEF Push
<1> DEFINE named == {envs[i] : i \in DOMAIN envs}
<1>2. PICK new \in [named -> Commits \cup {Zero}] :
            /\ ref' = [e \in Envs |-> IF e \in named THEN new[e] ELSE ref[e]]
            /\ seen' = seen \cup ({new[e] : e \in named} \ {Zero})
            /\ again' = again \cup (seen \cap {new[e] : e \in named})
            /\ todo' = [todo EXCEPT ![n] = [i \in DOMAIN envs |-> [env |-> envs[i], new |-> new[envs[i]]]]]
  BY <1>1
<1> DEFINE lines == [i \in DOMAIN envs |-> [env |-> envs[i], new |-> new[envs[i]]]]
<1>3. named \subseteq Envs /\ lines \in Seq(Lines)
  BY OrdersAreLines
<1> HIDE DEF named, lines
<1>4. /\ n = pushes + 1 /\ pushes' = n /\ pc' = [pc EXCEPT ![n] = "lock"]
      /\ todo' = [todo EXCEPT ![n] = lines]
      /\ UNCHANGED <<disk, types, cache, status, receipt, deployed, faults>>
  BY <1>2 DEF Push, Goto, code, files, lines
<1>5. ref' \in [Envs -> Commits \cup {Zero}]
  BY <1>2, <1>3 DEF TypeOK
<1>6. seen' \subseteq Commits /\ again' \subseteq Commits
  BY <1>2 DEF TypeOK
<1>7. pushes' \in 0..MaxPushes
  BY <1>4 DEF Hooks
<1>8. pc' \in [Hooks -> Places] /\ todo' \in [Hooks -> Seq(Lines)]
  BY <1>3, <1>4 DEF TypeOK, Places
<1>9. \A m \in Hooks : m # n => pc'[m] = pc[m] /\ todo'[m] = todo[m]
  BY <1>4 DEF TypeOK
<1>10. pc'[n] = "lock"
  BY <1>4 DEF TypeOK
<1>11. TypeOK'
  BY <1>4, <1>5, <1>6, <1>7, <1>8, <1>9, <1>10 DEF TypeOK, Inside, Line
<1>12. FlushedOK' /\ ComparedOK'
  <2>1. FlushedOK'
    BY <1>4, <1>9, <1>10 DEF FlushedOK
  <2>2. ASSUME NEW m \in Hooks, pc'[m] = "types" PROVE disk'[Env(m)'] = Line(m)'.new
    <3>1. m # n /\ pc[m] = "types" /\ todo'[m] = todo[m]
      BY <1>9, <1>10, <2>2
    <3> QED BY <1>4, <3>1 DEF ComparedOK, Env, Line
  <2> QED BY <2>1, <2>2 DEF ComparedOK
<1> QED BY <1>11, <1>12

\* Every action of a hook but the flushes leaves the compiler alone, and the ones that write a
\* directory are inside the lock, where no other hook is flushing.
LEMMA OthersOutside ==
    ASSUME TypeOK, NEW n \in Hooks, Inside(n)
    PROVE  \A m \in Hooks \ {n} : pc[m] \in {"none", "lock", "gone"}
BY DEF TypeOK, Inside

LEMMA HookKeeps == ASSUME Inv, NEW n \in Hooks, Hook(n) PROVE Inv'
<1> USE DEF Inv
<1>l. todo[n] # << >> => /\ Line(n) \in Lines /\ Tail(todo[n]) \in Seq(Lines)
                        /\ Line(n).env \in Envs /\ Line(n).new \in Commits \cup {Zero}
  <2>1. todo[n] \in Seq(Lines)
    BY DEF TypeOK
  <2>2. ASSUME todo[n] # << >> PROVE Head(todo[n]) \in Lines /\ Tail(todo[n]) \in Seq(Lines)
    BY <2>1, <2>2, HeadTailProperties
  <2> QED BY <2>2 DEF Line, Lines
<1>p. ASSUME NEW l \in Places, pc' = [pc EXCEPT ![n] = l]
      PROVE  /\ pc' \in [Hooks -> Places] /\ pc'[n] = l
             /\ \A m \in Hooks \ {n} : pc'[m] = pc[m]
  BY <1>p DEF TypeOK
<1>1. CASE TakeLock(n)
  <2>1. /\ pc' = [pc EXCEPT ![n] = "read"] /\ "read" \in Places
        /\ UNCHANGED <<ref, seen, again, disk, types, cache, status, receipt, pushes, todo, deployed, faults>>
        /\ \A m \in Hooks : pc[m] \in {"none", "lock", "gone"}
    BY <1>1 DEF TakeLock, Goto, code, files, Places, LockFree, Inside
  <2>2. /\ pc' \in [Hooks -> Places] /\ pc'[n] = "read"
        /\ \A m \in Hooks \ {n} : pc'[m] = pc[m]
    BY <1>p, <2>1
  <2>3. TypeOK'
    BY <2>1, <2>2 DEF TypeOK, Inside, Line
  <2> QED BY <2>1, <2>2, <2>3 DEF FlushedOK, ComparedOK, Env, Line
<1>i. ASSUME ~TakeLock(n) PROVE Inside(n)
  BY <1>i DEF Hook, ReadLine, R10k, GenerateTypes, FlushProduction, FlushDev, WriteReceipt, Leave, Inside
<1>o. ~TakeLock(n) => \A m \in Hooks \ {n} : pc[m] \in {"none", "lock", "gone"}
  BY <1>i, OthersOutside
<1>2. CASE ReadLine(n) /\ ~TakeLock(n)
  <2>1. UNCHANGED <<ref, seen, again, types, cache, status, receipt, pushes, deployed, faults>>
    BY <1>2 DEF ReadLine, files
  <2>2. PICK l \in {"flush production", "ok", "read", "failed", "r10k"} :
          /\ pc' = [pc EXCEPT ![n] = l]
          /\ l = "r10k" => todo' = todo /\ todo[n] # << >> /\ Line(n).new # Zero
    <3>1. CASE todo[n] = << >>
      BY <1>2, <3>1 DEF ReadLine, Goto
    <3>2. CASE pc' = pc
      <4>1. pc' = [pc EXCEPT ![n] = "read"]
        BY <1>2, <3>2 DEF ReadLine, TypeOK
      <4> QED BY <4>1
    <3>3. CASE Fails(n)
      BY <3>3 DEF Fails, Goto
    <3>4. CASE todo[n] # << >> /\ Line(n).new # Zero /\ Goto(n, "r10k") /\ UNCHANGED todo
      BY <3>4 DEF Goto
    <3> QED BY <1>2, <3>1, <3>2, <3>3, <3>4 DEF ReadLine
  <2>3. todo' \in [Hooks -> Seq(Lines)] /\ \A m \in Hooks \ {n} : todo'[m] = todo[m]
    <3>1. UNCHANGED todo \/ (todo[n] # << >> /\ todo' = [todo EXCEPT ![n] = Tail(todo[n])])
      BY <1>2 DEF ReadLine
    <3> QED BY <3>1, <1>l DEF TypeOK
  <2>4. disk' \in [Envs -> Commits \cup {Mixed}]
    <3>1. UNCHANGED disk \/ (todo[n] # << >> /\ disk' = [disk EXCEPT ![Line(n).env] = Mixed])
      BY <1>2 DEF ReadLine, Env
    <3> QED BY <3>1, <1>l DEF TypeOK
  <2>5. /\ pc' \in [Hooks -> Places] /\ pc'[n] = l /\ \A m \in Hooks \ {n} : pc'[m] = pc[m]
    <3>1. l \in Places
      BY DEF Places
    <3> QED BY <1>p, <2>2, <3>1
  <2>6. \A m \in Hooks : pc'[m] \in {"r10k", "types"} => todo'[m] # << >> /\ Line(m)'.new # Zero
    <3>1. CASE l = "r10k"
      BY <2>2, <2>5, <1>o, <1>2, <3>1 DEF Line
    <3>2. CASE l # "r10k"
      BY <2>2, <2>5, <1>o, <1>2, <3>2
    <3> QED BY <3>1, <3>2
  <2>7. TypeOK'
    BY <2>1, <2>3, <2>4, <2>5, <2>6, <1>o, <1>2 DEF TypeOK, Inside, Line
  <2>8. FlushedOK'
    BY <2>2, <2>5, <1>o, <1>2 DEF FlushedOK
  <2>9. ComparedOK'
    BY <2>2, <2>5, <1>o, <1>2 DEF ComparedOK
  <2> QED BY <2>7, <2>8, <2>9
<1>3. CASE R10k(n) /\ ~TakeLock(n)
  <2>1. /\ UNCHANGED <<ref, seen, again, types, cache, status, receipt, pushes, todo, deployed>>
        /\ pc[n] = "r10k" /\ todo[n] # << >> /\ Line(n).new # Zero
    BY <1>3 DEF R10k, files, TypeOK
  <2>2. PICK l \in {"types", "failed"} : pc' = [pc EXCEPT ![n] = l]
    BY <1>3 DEF R10k, Compare, Fails, Goto
  <2>3. disk' \in [Envs -> Commits \cup {Mixed}]
    <3>1. UNCHANGED disk \/ \E c \in {Line(n).new, ref[Line(n).env]} \ {Zero} : disk' = [disk EXCEPT ![Line(n).env] = c]
      BY <1>3 DEF R10k, Env
    <3>2. Line(n).new \in Commits \cup {Zero} /\ ref[Line(n).env] \in Commits \cup {Zero} /\ Line(n).env \in Envs
      BY <2>1, <1>l DEF TypeOK
    <3> QED BY <3>1, <3>2 DEF TypeOK
  <2>4. faults' \in 0..MaxFaults
    BY <1>3, BoundsAssumption DEF R10k, Fault, TypeOK
  <2>5. /\ pc' \in [Hooks -> Places] /\ pc'[n] = l /\ \A m \in Hooks \ {n} : pc'[m] = pc[m]
    <3>1. l \in Places
      BY DEF Places
    <3> QED BY <1>p, <2>2, <3>1
  <2>6. TypeOK'
    BY <2>1, <2>3, <2>4, <2>5, <1>o, <1>3 DEF TypeOK, Inside, Line
  <2>7. FlushedOK'
    BY <2>5, <1>o, <1>3 DEF FlushedOK
  <2>8. ComparedOK'
    <3>1. l = "types" => disk' = [disk EXCEPT ![Line(n).env] = Line(n).new]
      BY <1>3, <2>2, <2>5 DEF R10k, Compare, Fails, Goto, Env
    <3>2. Line(n).env \in Envs
      BY <2>1, <1>l
    <3>3. ASSUME NEW m \in Hooks, pc'[m] = "types" PROVE m = n /\ l = "types"
      BY <2>5, <1>o, <1>3, <3>3
    <3>4. l = "types" => disk'[Line(n).env] = Line(n).new
      BY <3>1, <3>2 DEF TypeOK
    <3>5. Line(n)' = Line(n) /\ Env(n)' = Line(n).env
      BY <2>1 DEF Line, Env
    <3> QED BY <3>3, <3>4, <3>5 DEF ComparedOK
  <2> QED BY <2>6, <2>7, <2>8
<1>4. CASE GenerateTypes(n) /\ ~TakeLock(n)
  <2>1. /\ UNCHANGED <<ref, seen, again, disk, cache, status, receipt, pushes>>
        /\ pc[n] = "types" /\ todo[n] # << >> /\ Line(n).new # Zero
    BY <1>4 DEF GenerateTypes, files, TypeOK
  <2>2. PICK l \in {"read", "failed"} : pc' = [pc EXCEPT ![n] = l]
    BY <1>4 DEF GenerateTypes, Fails, Goto
  <2>3. types' \in [Envs -> Commits] /\ deployed' \in [Hooks -> Commits \cup {Zero}] /\ todo' \in [Hooks -> Seq(Lines)]
        /\ \A m \in Hooks \ {n} : todo'[m] = todo[m]
    <3>1. disk[Line(n).env] \in Commits
      BY <2>1, <1>l, CommitsAssumption DEF ComparedOK, Env
    <3>2. CASE /\ types' = [types EXCEPT ![Env(n)] = disk[Env(n)]]
               /\ deployed' = [deployed EXCEPT ![n] = Line(n).new]
               /\ todo' = [todo EXCEPT ![n] = Tail(@)]
      <4>1. types' \in [Envs -> Commits]
        BY <2>1, <3>1, <3>2 DEF TypeOK, Env
      <4>2. deployed' \in [Hooks -> Commits \cup {Zero}]
        BY <2>1, <3>2, <1>l DEF TypeOK
      <4>3. todo' \in [Hooks -> Seq(Lines)] /\ \A m \in Hooks \ {n} : todo'[m] = todo[m]
        BY <2>1, <3>2, <1>l DEF TypeOK
      <4> QED BY <4>1, <4>2, <4>3
    <3>3. CASE UNCHANGED <<types, deployed, todo>>
      BY <3>3 DEF TypeOK
    <3> QED BY <1>4, <3>2, <3>3 DEF GenerateTypes
  <2>4. faults' \in 0..MaxFaults
    BY <1>4, BoundsAssumption DEF GenerateTypes, Fault, TypeOK
  <2>5. /\ pc' \in [Hooks -> Places] /\ pc'[n] = l /\ \A m \in Hooks \ {n} : pc'[m] = pc[m]
    <3>1. l \in Places
      BY DEF Places
    <3> QED BY <1>p, <2>2, <3>1
  <2>6. TypeOK'
    BY <2>1, <2>3, <2>4, <2>5, <1>o, <1>4 DEF TypeOK, Inside, Line
  <2>7. FlushedOK'
    BY <2>5, <1>o, <1>4 DEF FlushedOK
  <2>8. ComparedOK'
    BY <2>1, <2>5, <1>o, <1>4 DEF ComparedOK
  <2> QED BY <2>6, <2>7, <2>8
\* The steps that leave the directories and the input alone.
<1>c. ASSUME UNCHANGED <<ref, seen, again, disk, types, pushes, todo, deployed>>, ~TakeLock(n),
             NEW l \in {"flush dev", "receipt", "ok", "failed", "gone"},
             pc' = [pc EXCEPT ![n] = l], cache' \in [Envs -> Commits \cup {Mixed, NoCode}],
             status' \in {"none", "ok", "failed"}, receipt' \in Commits \cup {Zero},
             faults' \in 0..MaxFaults,
             l \in {"flush dev", "receipt"} => cache'["production"] \in {NoCode, disk["production"]},
             l = "receipt" => cache'["dev"] \in {NoCode, disk["dev"]}
      PROVE  Inv'
  <2>1. /\ pc' \in [Hooks -> Places] /\ pc'[n] = l /\ \A m \in Hooks \ {n} : pc'[m] = pc[m]
    <3>1. l \in Places
      BY DEF Places
    <3> QED BY <1>p, <1>c, <3>1
  <2>2. TypeOK'
    BY <1>c, <2>1, <1>o DEF TypeOK, Inside, Line
  <2>3. FlushedOK'
    BY <1>c, <2>1, <1>o DEF FlushedOK
  <2>4. ComparedOK'
    BY <1>c, <2>1, <1>o DEF ComparedOK
  <2> QED BY <2>2, <2>3, <2>4
<1>5. CASE FlushProduction(n) /\ ~TakeLock(n)
  <2>1. PICK l \in {"flush dev", "failed"} : /\ pc' = [pc EXCEPT ![n] = l]
                                           /\ (l = "flush dev" => cache' = [cache EXCEPT !["production"] = NoCode])
    BY <1>5 DEF FlushProduction, Flush, Fails, Goto
  <2>2. cache' = [cache EXCEPT !["production"] = NoCode] \/ cache' = cache
    BY <1>5 DEF FlushProduction, Flush
  <2>3. cache' \in [Envs -> Commits \cup {Mixed, NoCode}] /\ (l = "flush dev" => cache'["production"] = NoCode)
    BY <2>1, <2>2, EnvsFacts DEF TypeOK
  <2>4. UNCHANGED <<ref, seen, again, disk, types, status, receipt, pushes, todo, deployed>> /\ faults' \in 0..MaxFaults
    <3>1. UNCHANGED <<ref, seen, again, disk, types, status, receipt, pushes, todo, deployed>>
      BY <1>5 DEF FlushProduction, Flush, files
    <3>2. UNCHANGED faults \/ Fault
      BY <1>5 DEF FlushProduction, Flush
    <3> QED BY <3>1, <3>2, FaultsKeep
  <2>5. /\ status' \in {"none", "ok", "failed"} /\ receipt' \in Commits \cup {Zero}
        /\ l \in {"flush dev", "receipt"} => cache'["production"] \in {NoCode, disk["production"]}
        /\ l = "receipt" => cache'["dev"] \in {NoCode, disk["dev"]}
    BY <2>1, <2>3, <2>4 DEF TypeOK
  <2>6. l \in {"flush dev", "receipt", "ok", "failed", "gone"} /\ pc' = [pc EXCEPT ![n] = l] /\ ~TakeLock(n)
    BY <1>5, <2>1
  <2> HIDE DEF Inv
  <2> QED BY <2>3, <2>4, <2>5, <2>6, <1>c
<1>6. CASE FlushDev(n) /\ ~TakeLock(n)
  <2>1. PICK l \in {"receipt", "failed"} : /\ pc' = [pc EXCEPT ![n] = l]
                                         /\ (l = "receipt" => cache' = [cache EXCEPT !["dev"] = NoCode])
    BY <1>6 DEF FlushDev, Flush, Fails, Goto
  <2>2. cache' = [cache EXCEPT !["dev"] = NoCode] \/ cache' = cache
    BY <1>6 DEF FlushDev, Flush
  <2>3. /\ cache' \in [Envs -> Commits \cup {Mixed, NoCode}]
        /\ (l = "receipt" => cache'["dev"] = NoCode)
        /\ cache'["production"] = cache["production"]
    BY <2>1, <2>2, EnvsFacts DEF TypeOK, Envs
  <2>4. UNCHANGED <<ref, seen, again, disk, types, status, receipt, pushes, todo, deployed>> /\ faults' \in 0..MaxFaults
    <3>1. UNCHANGED <<ref, seen, again, disk, types, status, receipt, pushes, todo, deployed>>
      BY <1>6 DEF FlushDev, Flush, files
    <3>2. UNCHANGED faults \/ Fault
      BY <1>6 DEF FlushDev, Flush
    <3> QED BY <3>1, <3>2, FaultsKeep
  <2>5. cache["production"] \in {NoCode, disk["production"]}
    BY <1>6 DEF FlushDev, FlushedOK
  <2> QED BY <1>6, <2>1, <2>3, <2>4, <2>5, <1>c DEF TypeOK
<1>7. CASE (WriteReceipt(n) \/ Leave(n)) /\ ~TakeLock(n)
  <2>1. PICK l \in {"ok", "gone"} : pc' = [pc EXCEPT ![n] = l]
    BY <1>7 DEF WriteReceipt, Leave, Goto
  <2>2. /\ UNCHANGED <<ref, seen, again, disk, types, cache, pushes, todo, deployed, faults>>
        /\ status' \in {"none", "ok", "failed"} /\ receipt' \in Commits \cup {Zero}
    BY <1>7 DEF WriteReceipt, Leave, TypeOK, code
  <2> QED BY <1>7, <2>1, <2>2, <1>c DEF TypeOK
<1> QED BY <1>1, <1>2, <1>3, <1>4, <1>5, <1>6, <1>7 DEF Hook

-------------------------------------------------------------------------------
(* The rest of Next, and the theorems. *)

LEMMA InitInv == Init => Inv
<1> SUFFICES ASSUME Init PROVE Inv
  OBVIOUS
<1>1. \A n \in Hooks : pc[n] = "none" /\ todo[n] = << >>
  BY DEF Init
<1>2. << >> \in Seq(Lines)
  OBVIOUS
<1>3. TypeOK
  BY <1>1, <1>2, CommitsAssumption, BoundsAssumption DEF Init, TypeOK, Places, Inside
<1> QED BY <1>1, <1>3 DEF Inv, FlushedOK, ComparedOK

LEMMA KillKeeps == ASSUME Inv, NEW n \in Hooks, Kill(n) PROVE Inv'
<1>1. /\ pc' = [pc EXCEPT ![n] = "gone"]
      /\ UNCHANGED <<ref, seen, again, disk, types, cache, status, receipt, pushes, todo, deployed>>
  BY DEF Kill, Goto, code, files
<1>2. faults' \in 0..MaxFaults
  BY BoundsAssumption DEF Kill, Fault, Inv, TypeOK
<1>3. pc' \in [Hooks -> Places] /\ \A m \in Hooks : pc'[m] = IF m = n THEN "gone" ELSE pc[m]
  BY <1>1 DEF Inv, TypeOK, Places
<1>4. TypeOK'
  BY <1>1, <1>2, <1>3 DEF Inv, TypeOK, Inside, Line
<1> QED BY <1>1, <1>3, <1>4 DEF Inv, FlushedOK, ComparedOK, Env, Line

LEMMA LoadKeeps == ASSUME Inv, NEW e \in Envs, Load(e) PROVE Inv'
<1>1. /\ cache' = [cache EXCEPT ![e] = disk[e]]
      /\ UNCHANGED <<ref, seen, again, disk, types, status, receipt, pushes, pc, todo, deployed, faults>>
  BY DEF Load, files
<1>2. /\ cache' \in [Envs -> Commits \cup {Mixed, NoCode}]
      /\ \A f \in Envs : cache'[f] = IF f = e THEN disk[f] ELSE cache[f]
  BY <1>1 DEF Inv, TypeOK
<1>3. TypeOK'
  BY <1>1, <1>2 DEF Inv, TypeOK, Inside, Line
<1> QED BY <1>1, <1>2, <1>3, EnvsFacts DEF Inv, FlushedOK, ComparedOK, Env, Line

LEMMA RestartKeeps == ASSUME Inv, Restart PROVE Inv'
<1>1. /\ pc' = [n \in Hooks |-> IF pc[n] = "none" THEN "none" ELSE "gone"]
      /\ cache' = [e \in Envs |-> NoCode]
      /\ UNCHANGED <<ref, seen, again, disk, types, status, receipt, pushes, todo, deployed>>
  BY DEF Restart, files
<1>2. faults' \in 0..MaxFaults
  BY BoundsAssumption DEF Restart, Fault, Inv, TypeOK
<1>3. pc' \in [Hooks -> Places] /\ \A m \in Hooks : pc'[m] \in {"none", "gone"}
  BY <1>1 DEF Places
<1>4. TypeOK'
  BY <1>1, <1>2, <1>3 DEF Inv, TypeOK, Inside, Line
<1> QED BY <1>3, <1>4 DEF Inv, FlushedOK, ComparedOK

LEMMA NextKeeps == Inv /\ [Next]_vars => Inv'
<1> SUFFICES ASSUME Inv, [Next]_vars PROVE Inv'
  OBVIOUS
<1>1. CASE UNCHANGED vars
  BY <1>1 DEF vars, Inv, TypeOK, FlushedOK, ComparedOK, Inside, Line, Env
<1> QED BY <1>1, PushKeeps, HookKeeps, KillKeeps, LoadKeeps, RestartKeeps DEF Next

THEOREM InvHolds == Spec => []Inv
BY InitInv, NextKeeps, PTL DEF Spec

\* Every variable keeps its type, and at most one hook is inside the lock.
THEOREM TypeCorrect == Spec => []TypeOK
<1>1. Inv => TypeOK
  BY DEF Inv
<1> QED BY <1>1, InvHolds, PTL

\* Whatever failed before and whatever compiles meanwhile, a receipt is written only when the
\* compiler holds nothing but what is on disk.
THEOREM ReceiptsAreCurrent == Spec => ReceiptIsCurrent
<1>1. Inv => \A n \in Hooks : WriteReceipt(n) => \A e \in Envs : cache[e] \in {NoCode, disk[e]}
  BY DEF Inv, FlushedOK, WriteReceipt, Envs
<1>2. Inv /\ [Next]_vars =>
        [\A n \in Hooks : WriteReceipt(n) => \A e \in Envs : cache[e] \in {NoCode, disk[e]}]_vars
  BY <1>1
<1> QED BY <1>2, InvHolds, PTL DEF Spec, ReceiptIsCurrent

-------------------------------------------------------------------------------
(* What becomes of a pushed commit. *)

Busy == {"lock", "read", "r10k", "types"}

\* r10k takes the directory apart before it knows what it will find there; a push that has not
\* come yet has no input; a push names each branch once.
InputsOK ==
    /\ \A n \in Hooks : pc[n] = "r10k" => disk[Env(n)] = Mixed
    /\ \A n \in Hooks : n > pushes => todo[n] = << >> /\ deployed[n] = Zero
    /\ \A n \in Hooks : Len(todo[n]) <= 2

\* The line of some push names the branch's newest commit, and it is not given up yet: its hook
\* is at work or in the queue, or another line stands before it.
Owed(e) ==
    \E n \in Hooks : \E i \in DOMAIN todo[n] :
        /\ todo[n][i] = [env |-> e, new |-> ref[e]]
        /\ i = 1 => pc[n] \in Busy

NewestOK == faults = 0 => \A e \in Envs : ref[e] \in {Zero, disk[e]} \/ Owed(e)

\* A commit that one push named, and no branch had before it.
Once(c) == c \in seen \ again

\* What a hook has deployed last, or is still to deploy.
Named(n, c) == \E i \in DOMAIN todo[n] : todo[n][i].new = c
Holds(n, c) == deployed[n] = c \/ Named(n, c)

\* Every branch that is at the commit has it on disk and typed, or the hook has the line left.
Handled(n, c) ==
    \A e \in Envs : ref[e] = c => \/ disk[e] = c /\ types[e] = c
                                  \/ \E i \in DOMAIN todo[n] : todo[n][i] = [env |-> e, new |-> c]

SeenOK ==
    /\ First \in seen
    /\ \A e \in Envs : ref[e] \in seen \cup {Zero}
    /\ \A n \in Hooks : \A i \in DOMAIN todo[n] : todo[n][i].new \in seen \cup {Zero}
    /\ \A n \in Hooks : deployed[n] \in seen \cup {Zero}
    /\ receipt \in seen \cup {Zero}

\* A hook flushes when it has read all of its input.
ReadAll == \A n \in Hooks : pc[n] \in {"flush production", "flush dev", "receipt"} => todo[n] = << >>

\* A commit that one push named is the business of that push's hook alone, which handles it on
\* every branch it was pushed to.
OneHook ==
    \A n \in Hooks : \A c : Once(c) /\ Holds(n, c) =>
        Handled(n, c) /\ \A m \in Hooks : m # n => ~Holds(m, c)

\* Once it is in the receipt, no hook has a line left that names it, and every branch that is at
\* it serves it.
InReceipt ==
    Once(receipt) =>
        /\ \A n \in Hooks : ~Named(n, receipt)
        /\ \A e \in Envs : ref[e] = receipt =>
              disk[e] = receipt /\ types[e] = receipt /\ cache[e] \in {NoCode, receipt}

CommitsOK == SeenOK /\ ReadAll /\ OneHook /\ InReceipt

-------------------------------------------------------------------------------
(* The steps that move input: a push brings lines, a hook finishes its first one. *)

LEMMA FirstAndRest ==
    ASSUME NEW s \in Seq(Lines), s # << >>
    PROVE  /\ DOMAIN s = 1..Len(s) /\ Len(s) \in Nat /\ 1 \in DOMAIN s /\ Head(s) = s[1]
           /\ Tail(s) \in Seq(Lines) /\ Len(Tail(s)) = Len(s) - 1 /\ DOMAIN Tail(s) = 1..(Len(s) - 1)
           /\ \A i \in DOMAIN Tail(s) : i \in Nat \ {0} /\ i + 1 \in DOMAIN s /\ Tail(s)[i] = s[i + 1]
<1>1. DOMAIN s = 1..Len(s) /\ Len(s) \in Nat /\ Len(s) # 0 /\ Head(s) = s[1]
  OBVIOUS
<1>2. Tail(s) \in Seq(Lines) /\ Len(Tail(s)) = Len(s) - 1
  BY HeadTailProperties
<1>3. DOMAIN Tail(s) = 1..(Len(s) - 1)
  BY <1>2
<1>4. \A i \in 1..(Len(s) - 1) : Tail(s)[i] = s[i + 1]
  BY <1>1, HeadTailProperties
<1> QED BY <1>1, <1>2, <1>3, <1>4

LEMMA LineType ==
    ASSUME TypeOK, NEW n \in Hooks
    PROVE  /\ todo[n] \in Seq(Lines) /\ DOMAIN todo[n] = 1..Len(todo[n]) /\ Len(todo[n]) \in Nat
           /\ \A i \in DOMAIN todo[n] : /\ todo[n][i] \in Lines /\ todo[n][i].env \in Envs
                                        /\ todo[n][i].new \in Commits \cup {Zero}
<1>1. todo[n] \in Seq(Lines)
  BY DEF TypeOK
<1>2. DOMAIN todo[n] = 1..Len(todo[n]) /\ Len(todo[n]) \in Nat /\ \A i \in DOMAIN todo[n] : todo[n][i] \in Lines
  BY <1>1
<1> QED BY <1>1, <1>2 DEF Lines

LEMMA PushShape ==
    ASSUME Inv, NEW n \in Hooks, Push(n)
    PROVE  \E lines \in Seq(Lines) :
             /\ Len(lines) <= 2
             /\ todo' = [todo EXCEPT ![n] = lines]
             /\ \A e \in Envs : \/ ref'[e] = ref[e]
                                \/ \E i \in DOMAIN lines : lines[i] = [env |-> e, new |-> ref'[e]]
             /\ \A i \in DOMAIN lines : ref'[lines[i].env] = lines[i].new
             /\ seen' = seen \cup ({lines[i].new : i \in DOMAIN lines} \ {Zero})
             /\ \A i, j \in DOMAIN lines : lines[i].env = lines[j].env => i = j
             /\ again' = again \cup (seen \cap {lines[i].new : i \in DOMAIN lines})
<1>1. PICK envs \in Orders :
        LET names == {envs[i] : i \in DOMAIN envs} IN
        \E new \in [names -> Commits \cup {Zero}] :
            /\ \A e \in names : new[e] # ref[e]
            /\ ref' = [e \in Envs |-> IF e \in names THEN new[e] ELSE ref[e]]
            /\ seen' = seen \cup ({new[e] : e \in names} \ {Zero})
            /\ again' = again \cup (seen \cap {new[e] : e \in names})
            /\ todo' = [todo EXCEPT ![n] = [i \in DOMAIN envs |-> [env |-> envs[i], new |-> new[envs[i]]]]]
  BY DEF Push
<1> DEFINE named == {envs[i] : i \in DOMAIN envs}
<1>2. PICK new \in [named -> Commits \cup {Zero}] :
            /\ ref' = [e \in Envs |-> IF e \in named THEN new[e] ELSE ref[e]]
            /\ seen' = seen \cup ({new[e] : e \in named} \ {Zero})
            /\ again' = again \cup (seen \cap {new[e] : e \in named})
            /\ todo' = [todo EXCEPT ![n] = [i \in DOMAIN envs |-> [env |-> envs[i], new |-> new[envs[i]]]]]
  BY <1>1
<1> DEFINE lines == [i \in DOMAIN envs |-> [env |-> envs[i], new |-> new[envs[i]]]]
<1>3. named \subseteq Envs /\ lines \in Seq(Lines)
  BY OrdersAreLines
<1>4. PICK k \in 0..2 : envs \in [1..k -> Envs] /\ \A i, j \in 1..k : envs[i] = envs[j] => i = j
  BY DEF Orders
<1>5. DOMAIN lines = 1..k /\ DOMAIN envs = 1..k /\ Len(lines) <= 2
  <2>1. DOMAIN lines = 1..k /\ DOMAIN envs = 1..k
    BY <1>4
  <2>2. Len(lines) \in Nat /\ DOMAIN lines = 1..Len(lines)
    BY <1>3
  <2>3. Len(lines) = k
    BY <2>1, <2>2, <1>4
  <2> QED BY <2>1, <2>3
<1>6. \A i \in 1..k : lines[i].env = envs[i] /\ lines[i].new = new[envs[i]] /\ envs[i] \in named
                      /\ lines[i] = [env |-> envs[i], new |-> new[envs[i]]]
  BY <1>5
<1>7. \A e \in named : \E i \in 1..k : envs[i] = e
  BY <1>5
<1>8. {lines[i].new : i \in DOMAIN lines} = {new[e] : e \in named}
  BY <1>5, <1>6, <1>7
<1>a. /\ todo' = [todo EXCEPT ![n] = lines] /\ seen' = seen \cup ({new[e] : e \in named} \ {Zero})
      /\ again' = again \cup (seen \cap {new[e] : e \in named})
      /\ \A e \in Envs : ref'[e] = IF e \in named THEN new[e] ELSE ref[e]
  BY <1>2
<1> HIDE DEF named, lines
<1>9. \A i \in DOMAIN lines : ref'[lines[i].env] = lines[i].new
  BY <1>a, <1>3, <1>5, <1>6
<1>10. \A e \in Envs : ref'[e] = ref[e] \/ \E i \in DOMAIN lines : lines[i] = [env |-> e, new |-> ref'[e]]
  BY <1>a, <1>5, <1>6, <1>7
<1>11. \A i, j \in DOMAIN lines : lines[i].env = lines[j].env => i = j
  BY <1>4, <1>5, <1>6
<1> QED BY <1>3, <1>5, <1>8, <1>9, <1>10, <1>11, <1>a

\* A hook that finishes its first line keeps the others, one place further to the front.
LEMMA FinishLine ==
    ASSUME TypeOK, NEW n \in Hooks, todo[n] # << >>, todo' = [todo EXCEPT ![n] = Tail(todo[n])]
    PROVE  /\ \A m \in Hooks \ {n} : todo'[m] = todo[m]
           /\ \A i \in DOMAIN todo'[n] : i \in Nat \ {0} /\ i + 1 \in DOMAIN todo[n] /\ todo'[n][i] = todo[n][i + 1]
           /\ \A i \in DOMAIN todo[n] \ {1} : i - 1 \in DOMAIN todo'[n] /\ todo'[n][i - 1] = todo[n][i]
           /\ Len(todo'[n]) = Len(todo[n]) - 1
<1>1. todo[n] \in Seq(Lines) /\ todo'[n] = Tail(todo[n]) /\ \A m \in Hooks \ {n} : todo'[m] = todo[m]
  BY DEF TypeOK
<1>2. /\ DOMAIN todo[n] = 1..Len(todo[n]) /\ Len(todo[n]) \in Nat
      /\ Len(Tail(todo[n])) = Len(todo[n]) - 1 /\ DOMAIN Tail(todo[n]) = 1..(Len(todo[n]) - 1)
      /\ \A i \in DOMAIN Tail(todo[n]) : i + 1 \in DOMAIN todo[n] /\ Tail(todo[n])[i] = todo[n][i + 1]
  BY <1>1, FirstAndRest
<1> DEFINE rest == Tail(todo[n])
           k == Len(todo[n])
<1> HIDE DEF rest, k
<1>3. todo'[n] = rest /\ k \in Nat /\ DOMAIN todo[n] = 1..k /\ DOMAIN rest = 1..(k - 1) /\ Len(rest) = k - 1
      /\ \A i \in 1..(k - 1) : rest[i] = todo[n][i + 1]
  BY <1>1, <1>2 DEF rest, k
<1>4. \A i \in 1..k \ {1} : i - 1 \in 1..(k - 1) /\ (i - 1) + 1 = i
  BY <1>3
<1>5. \A i \in 1..(k - 1) : i \in Nat \ {0} /\ i + 1 \in 1..k
  BY <1>3
<1>6. \A i \in 1..k \ {1} : rest[i - 1] = todo[n][i]
  BY <1>3, <1>4
<1>7. Len(todo'[n]) = Len(todo[n]) - 1
  BY <1>3 DEF k
<1> QED BY <1>1, <1>3, <1>4, <1>5, <1>6, <1>7

-------------------------------------------------------------------------------
(* The newest commit stays owed until it is deployed. *)

LEMMA FaultsOnce ==
    ASSUME TypeOK, TypeOK', UNCHANGED faults \/ Fault
    PROVE  faults' = 0 => faults = 0 /\ UNCHANGED faults
BY BoundsAssumption DEF TypeOK, Fault

\* A step that moves no input: no hook with a line to work on gives up, unless something failed.
LEMMA InputStands ==
    ASSUME InputsOK, NewestOK, UNCHANGED <<ref, disk, todo, pushes, deployed>>,
           \A n \in Hooks : pc'[n] = "r10k" => pc[n] = "r10k",
           faults' = 0 => faults = 0 /\ \A n \in Hooks : pc[n] \in Busy => pc'[n] \in Busy \/ todo[n] = << >>
    PROVE  InputsOK' /\ NewestOK'
<1>1. InputsOK'
  BY DEF InputsOK, Env, Line
<1>2. NewestOK'
  <2> SUFFICES ASSUME faults' = 0, NEW e \in Envs, ref[e] \notin {Zero, disk[e]} PROVE Owed(e)'
    BY DEF NewestOK
  <2>p. PICK n \in Hooks : \E i \in DOMAIN todo[n] :
          todo[n][i] = [env |-> e, new |-> ref[e]] /\ (i = 1 => pc[n] \in Busy)
    BY DEF NewestOK, Owed
  <2>1. PICK i \in DOMAIN todo[n] :
          todo[n][i] = [env |-> e, new |-> ref[e]] /\ (i = 1 => pc[n] \in Busy)
    BY <2>p
  <2>2. todo[n] # << >>
    BY <2>1
  <2> QED BY <2>1, <2>2 DEF Owed
<1> QED BY <1>1, <1>2

LEMMA PushOwes == ASSUME Inv, InputsOK, NewestOK, NEW n \in Hooks, Push(n) PROVE InputsOK' /\ NewestOK'
<1>1. PICK lines \in Seq(Lines) :
             /\ Len(lines) <= 2
             /\ todo' = [todo EXCEPT ![n] = lines]
             /\ \A e \in Envs : \/ ref'[e] = ref[e]
                                \/ \E i \in DOMAIN lines : lines[i] = [env |-> e, new |-> ref'[e]]
  BY PushShape
<1>2. /\ n = pushes + 1 /\ pushes' = n /\ pushes \in Nat /\ Hooks \subseteq Nat
      /\ UNCHANGED <<disk, deployed, faults>>
      /\ pc'[n] = "lock" /\ \A m \in Hooks \ {n} : pc'[m] = pc[m]
  BY BoundsAssumption DEF Push, code, Goto, Inv, TypeOK, Hooks
<1>3. /\ todo'[n] = lines /\ \A m \in Hooks \ {n} : todo'[m] = todo[m]
      /\ todo[n] = << >> /\ deployed[n] = Zero
  BY <1>1, <1>2 DEF Inv, TypeOK, InputsOK
<1>4. InputsOK'
  BY <1>1, <1>2, <1>3 DEF InputsOK, Env, Line
<1>5. NewestOK'
  <2> SUFFICES ASSUME faults = 0, NEW e \in Envs, ref'[e] \notin {Zero, disk[e]} PROVE Owed(e)'
    BY <1>2 DEF NewestOK
  <2>1. CASE \E i \in DOMAIN lines : lines[i] = [env |-> e, new |-> ref'[e]]
    BY <2>1, <1>2, <1>3 DEF Owed, Busy
  <2>2. CASE ref'[e] = ref[e]
    <3>p. PICK m \in Hooks : \E i \in DOMAIN todo[m] :
            todo[m][i] = [env |-> e, new |-> ref[e]] /\ (i = 1 => pc[m] \in Busy)
      BY <2>2 DEF NewestOK, Owed
    <3>1. PICK i \in DOMAIN todo[m] :
            todo[m][i] = [env |-> e, new |-> ref[e]] /\ (i = 1 => pc[m] \in Busy)
      BY <3>p
    <3>2. m # n
      BY <1>3, <3>1
    <3> QED BY <1>2, <1>3, <2>2, <3>1, <3>2 DEF Owed
  <2> QED BY <1>1, <2>1, <2>2
<1> QED BY <1>4, <1>5

\* Finishing a line leaves what the hook still has to read, and it goes on reading.
LEMMA FinishOwes ==
    ASSUME Inv, InputsOK, NewestOK, NEW n \in Hooks, todo[n] # << >>,
           todo' = [todo EXCEPT ![n] = Tail(todo[n])], pc'[n] = "read",
           \A m \in Hooks \ {n} : pc'[m] = pc[m] /\ deployed'[m] = deployed[m],
           UNCHANGED <<ref, disk, pushes, faults>>,
           ref[Env(n)] = Line(n).new => ref[Env(n)] \in {Zero, disk[Env(n)]},
           n <= pushes
    PROVE  InputsOK' /\ NewestOK'
<1>1. /\ \A m \in Hooks \ {n} : todo'[m] = todo[m]
      /\ \A i \in DOMAIN todo[n] \ {1} : i - 1 \in DOMAIN todo'[n] /\ todo'[n][i - 1] = todo[n][i]
      /\ Len(todo'[n]) = Len(todo[n]) - 1
  BY FinishLine DEF Inv
<1>2. Len(todo[n]) \in Nat /\ todo[n] \in Seq(Lines) /\ Line(n) = todo[n][1]
  BY LineType DEF Inv, Line
<1>3. Hooks \subseteq Nat /\ pushes \in Nat
  BY BoundsAssumption DEF Inv, TypeOK, Hooks
<1>4. InputsOK'
  BY <1>1, <1>2, <1>3 DEF InputsOK, Env, Line
<1>5. NewestOK'
  <2> SUFFICES ASSUME faults = 0, NEW e \in Envs, ref[e] \notin {Zero, disk[e]} PROVE Owed(e)'
    BY DEF NewestOK
  <2>p. PICK m \in Hooks : \E i \in DOMAIN todo[m] :
          todo[m][i] = [env |-> e, new |-> ref[e]] /\ (i = 1 => pc[m] \in Busy)
    BY DEF NewestOK, Owed
  <2>1. PICK i \in DOMAIN todo[m] :
          todo[m][i] = [env |-> e, new |-> ref[e]] /\ (i = 1 => pc[m] \in Busy)
    BY <2>p
  <2>2. CASE m # n
    BY <1>1, <2>1, <2>2 DEF Owed
  <2>3. CASE m = n
    <3>1. i # 1
      <4>1. ASSUME i = 1 PROVE Env(n) = e /\ Line(n).new = ref[e]
        BY <1>2, <2>1, <2>3, <4>1 DEF Env
      <4> QED BY <4>1
    <3>2. i - 1 \in DOMAIN todo'[n] /\ todo'[n][i - 1] = todo[n][i]
      BY <1>1, <2>1, <2>3, <3>1
    <3> QED BY <2>1, <2>3, <3>2 DEF Owed, Busy
  <2> QED BY <2>2, <2>3
<1> QED BY <1>4, <1>5

\* A hook at work has been pushed.
LEMMA WorkerPushed ==
    ASSUME TypeOK, InputsOK, NEW n \in Hooks, todo[n] # << >>
    PROVE  n <= pushes
BY BoundsAssumption DEF InputsOK, TypeOK, Hooks

LEMMA ReadOwes == ASSUME Inv, Inv', InputsOK, NewestOK, NEW n \in Hooks, ReadLine(n) PROVE InputsOK' /\ NewestOK'
<1>1. /\ UNCHANGED <<ref, types, cache, files, pushes, deployed, faults>> /\ pc[n] = "read"
      /\ \A m \in Hooks \ {n} : pc[m] \in {"none", "lock", "gone"}
  <2>1. Inside(n) /\ UNCHANGED <<ref, types, cache, files, pushes, deployed, faults>> /\ pc[n] = "read"
    BY DEF ReadLine, Inside
  <2> QED BY <2>1, OthersOutside DEF Inv
<1>t. /\ todo[n] \in Seq(Lines)
      /\ todo[n] # << >> => /\ Line(n) = todo[n][1] /\ 1 \in DOMAIN todo[n]
                            /\ Line(n) = [env |-> Env(n), new |-> Line(n).new] /\ Env(n) \in Envs
  <2>1. todo[n] \in Seq(Lines)
    BY LineType DEF Inv
  <2>2. ASSUME todo[n] # << >> PROVE 1 \in DOMAIN todo[n] /\ Line(n) = todo[n][1] /\ todo[n][1] \in Lines
    BY <2>1, <2>2 DEF Line
  <2> QED BY <2>1, <2>2 DEF Env, Lines
<1>2. CASE todo[n] = << >>
  <2>1. UNCHANGED <<todo, disk>> /\ \E l \in {"flush production", "ok"} : pc' = [pc EXCEPT ![n] = l]
    BY <1>2 DEF ReadLine, Goto
  <2> QED BY <1>1, <1>2, <2>1, InputStands DEF Inv, TypeOK
<1>3. CASE todo[n] # << >> /\ Line(n).new = Zero
  <2>1. todo' = [todo EXCEPT ![n] = Tail(todo[n])] /\ UNCHANGED <<pc, disk>>
    BY <1>3 DEF ReadLine
  <2>2. n <= pushes
    BY <1>3, WorkerPushed DEF Inv
  <2> QED BY <1>1, <1>3, <2>1, <2>2, FinishOwes
<1>4. CASE todo[n] # << >> /\ Line(n).new \notin {Zero, ref[Env(n)]}
  <2>1. UNCHANGED <<todo, disk>> /\ pc' = [pc EXCEPT ![n] = "failed"]
    BY <1>4 DEF ReadLine, Goto, Fails
  <2>2. pc'[n] = "failed" /\ \A m \in Hooks \ {n} : pc'[m] = pc[m]
    BY <2>1 DEF Inv, TypeOK
  <2>3. InputsOK'
    BY <1>1, <2>1, <2>2 DEF InputsOK, Env, Line
  <2>4. NewestOK'
    <3> SUFFICES ASSUME faults = 0, NEW e \in Envs, ref[e] \notin {Zero, disk[e]} PROVE Owed(e)'
      BY <1>1, <2>1 DEF NewestOK
    <3>p. PICK m \in Hooks : \E i \in DOMAIN todo[m] :
            todo[m][i] = [env |-> e, new |-> ref[e]] /\ (i = 1 => pc[m] \in Busy)
      BY DEF NewestOK, Owed
    <3>1. PICK i \in DOMAIN todo[m] :
            todo[m][i] = [env |-> e, new |-> ref[e]] /\ (i = 1 => pc[m] \in Busy)
      BY <3>p
    <3>2. m = n => i # 1
      BY <1>4, <1>t, <3>1
    <3> QED BY <1>1, <2>1, <2>2, <3>1, <3>2 DEF Owed
  <2> QED BY <2>3, <2>4
<1>5. CASE todo[n] # << >> /\ Line(n).new # Zero /\ ref[Env(n)] = Line(n).new
  <2>1. disk' = [disk EXCEPT ![Env(n)] = Mixed] /\ UNCHANGED todo /\ pc' = [pc EXCEPT ![n] = "r10k"]
    BY <1>5 DEF ReadLine, Goto
  <2>2. /\ pc'[n] = "r10k" /\ \A m \in Hooks \ {n} : pc'[m] = pc[m]
        /\ disk'[Env(n)] = Mixed /\ \A e \in Envs \ {Env(n)} : disk'[e] = disk[e]
    BY <1>t, <1>5, <2>1 DEF Inv, TypeOK
  <2>3. InputsOK'
    BY <1>1, <2>1, <2>2 DEF InputsOK, Env, Line
  <2>4. NewestOK'
    <3> SUFFICES ASSUME faults = 0, NEW e \in Envs, ref[e] \notin {Zero, disk'[e]} PROVE Owed(e)'
      BY <1>1 DEF NewestOK
    <3>1. CASE e = Env(n)
      BY <1>1, <1>t, <1>5, <2>1, <2>2, <3>1 DEF Owed, Busy
    <3>2. CASE e # Env(n)
      <4>p. PICK m \in Hooks : \E i \in DOMAIN todo[m] :
              todo[m][i] = [env |-> e, new |-> ref[e]] /\ (i = 1 => pc[m] \in Busy)
        BY <2>2, <3>2 DEF NewestOK, Owed
      <4>1. PICK i \in DOMAIN todo[m] :
              todo[m][i] = [env |-> e, new |-> ref[e]] /\ (i = 1 => pc[m] \in Busy)
        BY <4>p
      <4> QED BY <1>1, <2>1, <2>2, <4>1 DEF Owed, Busy
    <3> QED BY <3>1, <3>2
  <2> QED BY <2>3, <2>4
<1> QED BY <1>2, <1>3, <1>4, <1>5

LEMMA R10kOwes == ASSUME Inv, Inv', InputsOK, NewestOK, NEW n \in Hooks, R10k(n) PROVE InputsOK' /\ NewestOK'
<1>1. /\ UNCHANGED <<ref, pushes, todo, deployed>> /\ pc[n] = "r10k"
      /\ \A m \in Hooks \ {n} : pc[m] \in {"none", "lock", "gone"}
      /\ UNCHANGED faults \/ Fault
  <2>1. Inside(n) /\ UNCHANGED <<ref, pushes, todo, deployed>> /\ pc[n] = "r10k" /\ (UNCHANGED faults \/ Fault)
    BY DEF R10k, Inside
  <2> QED BY <2>1, OthersOutside DEF Inv
<1>2. todo[n] \in Seq(Lines) /\ todo[n] # << >> /\ Line(n) = todo[n][1] /\ Line(n).env \in Envs
      /\ Line(n).new \in Commits \cup {Zero} /\ Env(n) = Line(n).env
  <2>1. todo[n] \in Seq(Lines) /\ todo[n] # << >>
    BY <1>1, LineType DEF Inv, TypeOK
  <2>2. Line(n) = todo[n][1] /\ Line(n) \in Lines
    BY <2>1 DEF Line
  <2> QED BY <2>1, <2>2 DEF Lines, Env
<1>3. PICK l \in {"types", "failed"} : pc' = [pc EXCEPT ![n] = l]
  BY DEF R10k, Compare, Fails, Goto
<1>4. pc'[n] = l /\ \A m \in Hooks \ {n} : pc'[m] = pc[m]
  BY <1>3 DEF Inv, TypeOK
<1>5. InputsOK'
  BY <1>1, <1>4 DEF InputsOK, Env, Line
<1>6. NewestOK'
  <2> SUFFICES ASSUME faults' = 0, NEW e \in Envs, ref[e] \notin {Zero, disk'[e]} PROVE Owed(e)'
    BY <1>1 DEF NewestOK
  <2>1. UNCHANGED faults /\ faults = 0
    BY <1>1, FaultsOnce DEF Inv
  <2>2. ref[e] \notin {Zero, disk[e]} \/ e = Env(n)
    BY <1>2 DEF R10k, Inv, TypeOK
  <2>3. disk[Env(n)] = Mixed /\ ref[Env(n)] \in Commits \cup {Zero}
    BY <1>1, <1>2 DEF InputsOK, Inv, TypeOK
  <2>4. Owed(e)
    BY <2>1, <2>2, <2>3, CommitsAssumption, DistinctAssumption DEF NewestOK
  <2>5. PICK m \in Hooks : \E i \in DOMAIN todo[m] :
          todo[m][i] = [env |-> e, new |-> ref[e]] /\ (i = 1 => pc[m] \in Busy)
    BY <2>4 DEF Owed
  <2>6. PICK i \in DOMAIN todo[m] : todo[m][i] = [env |-> e, new |-> ref[e]] /\ (i = 1 => pc[m] \in Busy)
    BY <2>5
  <2>7. CASE m # n \/ i # 1 \/ l = "types"
    BY <1>1, <1>4, <2>6, <2>7 DEF Owed, Busy
  <2>8. CASE m = n /\ i = 1 /\ l = "failed"
    <3>1. Env(n) = e /\ Line(n).new = ref[e]
      BY <1>2, <2>6, <2>8
    <3>2. pc'[n] = "failed"
      BY <1>4, <2>8
    <3>3. ~\E c \in {Line(n).new, ref[Env(n)]} \ {Zero} : disk' = [disk EXCEPT ![Env(n)] = c] /\ Compare(n, c)
      BY <3>1, <3>2 DEF Compare, Goto, Inv, TypeOK
    <3>4. ~Fault
      BY <2>1, BoundsAssumption DEF Fault, Inv, TypeOK
    <3> QED BY <3>1, <3>3, <3>4 DEF R10k
  <2> QED BY <2>7, <2>8
<1> QED BY <1>5, <1>6

LEMMA TypesOwe == ASSUME Inv, Inv', InputsOK, NewestOK, NEW n \in Hooks, GenerateTypes(n) PROVE InputsOK' /\ NewestOK'
<1>1. /\ UNCHANGED <<ref, disk, pushes>> /\ pc[n] = "types" /\ todo[n] # << >>
      /\ disk[Env(n)] = Line(n).new
  BY DEF GenerateTypes, Inv, TypeOK, ComparedOK
<1>2. CASE /\ todo' = [todo EXCEPT ![n] = Tail(todo[n])] /\ Goto(n, "read") /\ UNCHANGED faults
           /\ deployed' = [deployed EXCEPT ![n] = Line(n).new]
  <2>1. /\ pc'[n] = "read" /\ \A m \in Hooks \ {n} : pc'[m] = pc[m] /\ deployed'[m] = deployed[m]
    BY <1>2 DEF Goto, Inv, TypeOK
  <2>2. n <= pushes
    BY <1>1, WorkerPushed DEF Inv
  <2> QED BY <1>1, <1>2, <2>1, <2>2, FinishOwes
<1>3. CASE Fault /\ Fails(n) /\ UNCHANGED <<types, deployed, todo>>
  <2>1. faults' # 0
    BY <1>3, BoundsAssumption DEF Fault, Inv, TypeOK
  <2>2. \A m \in Hooks : pc'[m] = "r10k" => pc[m] = "r10k"
    BY <1>3 DEF Fails, Goto, Inv, TypeOK
  <2> QED BY <1>1, <1>3, <2>1, <2>2, InputStands
<1> QED BY <1>2, <1>3 DEF GenerateTypes

\* The steps that move no input.
LEMMA IdleOwes ==
    ASSUME Inv, Inv', InputsOK, NewestOK, NEW n \in Hooks,
           TakeLock(n) \/ FlushProduction(n) \/ FlushDev(n) \/ WriteReceipt(n) \/ Leave(n) \/ Kill(n)
           \/ Restart \/ \E e \in Envs : Load(e)
    PROVE  InputsOK' /\ NewestOK'
<1>1. UNCHANGED <<ref, disk, todo, pushes, deployed>> /\ (UNCHANGED faults \/ Fault)
  BY DEF TakeLock, FlushProduction, FlushDev, Flush, WriteReceipt, Leave, Kill, Restart, Load, code, files
<1>2. faults' = 0 => faults = 0 /\ UNCHANGED faults
  BY <1>1, FaultsOnce DEF Inv
<1>3. ~(Fault /\ faults' = 0)
  BY BoundsAssumption DEF Fault, Inv, TypeOK
<1>4. \A m \in Hooks : pc'[m] = "r10k" => pc[m] = "r10k"
  BY DEF TakeLock, FlushProduction, FlushDev, Flush, WriteReceipt, Leave, Kill, Restart, Load, Goto, Fails, Inv, TypeOK
<1>5. faults' = 0 => \A m \in Hooks : pc[m] \in Busy => pc'[m] \in Busy
  BY <1>3 DEF TakeLock, FlushProduction, FlushDev, Flush, WriteReceipt, Leave, Kill, Restart, Load, Goto, Fails, Inv,
              TypeOK, Busy
<1> QED BY <1>1, <1>2, <1>4, <1>5, InputStands

LEMMA InitOwes == Init => InputsOK /\ NewestOK
<1> SUFFICES ASSUME Init PROVE InputsOK /\ NewestOK
  OBVIOUS
<1>1. \A n \in Hooks : pc[n] = "none" /\ todo[n] = << >> /\ deployed[n] = Zero /\ Len(todo[n]) = 0
  BY DEF Init
<1> QED BY <1>1 DEF Init, InputsOK, NewestOK

LEMMA NextOwes == Inv /\ Inv' /\ InputsOK /\ NewestOK /\ [Next]_vars => InputsOK' /\ NewestOK'
<1> SUFFICES ASSUME Inv, Inv', InputsOK, NewestOK, [Next]_vars PROVE InputsOK' /\ NewestOK'
  OBVIOUS
<1>1. CASE UNCHANGED vars
  BY <1>1, InputStands DEF vars
<1>2. ASSUME NEW n \in Hooks, Push(n) \/ Hook(n) \/ Kill(n) PROVE InputsOK' /\ NewestOK'
  BY <1>2, PushOwes, ReadOwes, R10kOwes, TypesOwe, IdleOwes DEF Hook
<1>3. CASE (\E e \in Envs : Load(e)) \/ Restart
  <2>1. CASE Hooks # {}
    BY <1>3, <2>1, IdleOwes
  <2>2. CASE Hooks = {}
    <3>1. UNCHANGED <<ref, disk, todo, pushes, deployed>> /\ (UNCHANGED faults \/ Fault)
      BY <1>3 DEF Load, Restart, code, files
    <3> QED BY <2>2, <3>1, FaultsOnce, InputStands DEF Inv
  <2> QED BY <2>1, <2>2
<1> QED BY <1>1, <1>2, <1>3 DEF Next

LEMMA OwesHolds == Spec => [](Inv /\ InputsOK /\ NewestOK)
<1>1. Spec => [](InputsOK /\ NewestOK)
  BY InitOwes, NextOwes, InvHolds, PTL DEF Spec
<1> QED BY <1>1, InvHolds, PTL

\* However pushes overlap, when nothing failed and every hook ended, each branch's newest commit
\* is on disk, unless its line stood behind one that a newer push overtook (infra-post-receive:14-18).
THEOREM NewestGetsDeployed == Spec => []NewestIsDeployed
<1>1. Inv /\ InputsOK /\ NewestOK => NewestIsDeployed
  <2> SUFFICES ASSUME Inv, InputsOK, NewestOK, Quiet, faults = 0, NEW e \in Envs, ref[e] \notin {Zero, disk[e]}
               PROVE  \E n \in Hooks, i \in {2} :
                         i \in DOMAIN todo[n] /\ todo[n][i] = [env |-> e, new |-> ref[e]]
    BY DEF NewestIsDeployed
  <2>1. PICK n \in Hooks : \E i \in DOMAIN todo[n] :
          todo[n][i] = [env |-> e, new |-> ref[e]] /\ (i = 1 => pc[n] \in Busy)
    BY DEF NewestOK, Owed
  <2>2. PICK i \in DOMAIN todo[n] : todo[n][i] = [env |-> e, new |-> ref[e]] /\ (i = 1 => pc[n] \in Busy)
    BY <2>1
  <2>3. i # 1
    BY <2>2 DEF Quiet, Busy
  <2>4. i \in 1..Len(todo[n]) /\ Len(todo[n]) \in Nat /\ Len(todo[n]) <= 2
    BY LineType DEF Inv, InputsOK
  <2>5. i = 2
    BY <2>3, <2>4
  <2> QED BY <2>2, <2>5
<1> QED BY <1>1, OwesHolds, PTL


-------------------------------------------------------------------------------
(* A commit that one push named is deployed by that push's hook alone, and stays. *)

LEMMA PushCommits == ASSUME Inv, CommitsOK, InputsOK, NEW n \in Hooks, Push(n) PROVE CommitsOK'
<1> USE DEF CommitsOK
<1>1. PICK lines \in Seq(Lines) :
             /\ Len(lines) <= 2
             /\ todo' = [todo EXCEPT ![n] = lines]
             /\ \A e \in Envs : \/ ref'[e] = ref[e]
                                \/ \E i \in DOMAIN lines : lines[i] = [env |-> e, new |-> ref'[e]]
             /\ \A i \in DOMAIN lines : ref'[lines[i].env] = lines[i].new
             /\ seen' = seen \cup ({lines[i].new : i \in DOMAIN lines} \ {Zero})
             /\ \A i, j \in DOMAIN lines : lines[i].env = lines[j].env => i = j
             /\ again' = again \cup (seen \cap {lines[i].new : i \in DOMAIN lines})
  BY PushShape
<1>2. /\ UNCHANGED <<disk, types, cache, receipt, deployed>> /\ n = pushes + 1 /\ pushes \in Nat
      /\ pc' = [pc EXCEPT ![n] = "lock"]
  BY DEF Push, Goto, code, files, Inv, TypeOK
<1>3. /\ todo'[n] = lines /\ \A m \in Hooks \ {n} : todo'[m] = todo[m]
      /\ deployed[n] = Zero /\ Zero \notin seen /\ Zero \notin seen'
      /\ pc'[n] = "lock" /\ \A m \in Hooks \ {n} : pc'[m] = pc[m]
  BY <1>1, <1>2, CommitsAssumption DEF Inv, TypeOK, InputsOK, Hooks
<1>4. \A c : Once(c)' => /\ c \in seen' /\ c # Zero
                         /\ c \in seen => Once(c) /\ \A i \in DOMAIN lines : lines[i].new # c
  BY <1>1, <1>3 DEF Once
<1>5. SeenOK'
  <2>1. seen \subseteq seen' /\ \A i \in DOMAIN lines : lines[i].new \in seen' \cup {Zero}
    BY <1>1
  <2>2. ASSUME NEW e \in Envs PROVE ref'[e] \in seen' \cup {Zero}
    <3>1. CASE ref'[e] = ref[e]
      BY <2>1, <3>1 DEF SeenOK
    <3>2. CASE \E i \in DOMAIN lines : lines[i] = [env |-> e, new |-> ref'[e]]
      BY <2>1, <3>2
    <3> QED BY <1>1, <3>1, <3>2
  <2>3. \A m \in Hooks : \A i \in DOMAIN todo'[m] : todo'[m][i].new \in seen' \cup {Zero}
    BY <1>3, <2>1 DEF SeenOK
  <2> QED BY <1>2, <2>1, <2>2, <2>3 DEF SeenOK
<1>6. ReadAll'
  BY <1>3 DEF ReadAll
<1>7. \A m \in Hooks \ {n} : \A c : (Holds(m, c)' <=> Holds(m, c)) /\ (Named(m, c)' <=> Named(m, c))
  BY <1>2, <1>3 DEF Holds, Named
<1>8. \A c : Named(n, c)' <=> \E i \in DOMAIN lines : lines[i].new = c
  BY <1>3 DEF Named
<1>9. \A c : Once(c)' /\ Holds(n, c)' => c \notin seen /\ Named(n, c)'
  BY <1>2, <1>3, <1>4, <1>8 DEF Holds
<1>10. \A m \in Hooks \ {n} : \A c : Once(c)' /\ Holds(m, c)' => c \in seen
  <2>1. \A m \in Hooks \ {n} : \A c : Holds(m, c) => c \in seen \cup {Zero}
    BY DEF SeenOK, Holds, Named
  <2> QED BY <1>4, <1>7, <2>1
<1>11. ASSUME NEW m \in Hooks, NEW c, Once(c)', Holds(m, c)'
       PROVE  Handled(m, c)' /\ \A q \in Hooks : q # m => ~Holds(q, c)'
  <2>1. CASE m = n
    <3>1. ASSUME NEW e \in Envs, ref'[e] = c
          PROVE  \E i \in DOMAIN todo'[n] : todo'[n][i] = [env |-> e, new |-> c]
      <4>1. ref[e] # c
        BY <1>4, <1>9, <1>11, <2>1 DEF SeenOK
      <4> QED BY <1>1, <1>3, <3>1, <4>1
    <3>2. Handled(n, c)'
      BY <3>1 DEF Handled
    <3> QED BY <1>9, <1>10, <1>11, <2>1, <3>2
  <2>2. CASE m # n
    <3>1. Once(c) /\ Holds(m, c) /\ c \in seen /\ \A i \in DOMAIN lines : lines[i].new # c
      BY <1>4, <1>7, <1>10, <1>11, <2>2
    <3>2. Handled(m, c) /\ \A q \in Hooks : q # m => ~Holds(q, c)
      BY <3>1 DEF OneHook
    <3>3. \A e \in Envs : ref'[e] = c => ref[e] = c
      BY <1>1, <3>1
    <3>4. Handled(m, c)'
      BY <1>2, <1>3, <2>2, <3>2, <3>3 DEF Handled
    <3>5. ~Holds(n, c)'
      BY <1>9, <1>11, <3>1
    <3> QED BY <1>7, <3>2, <3>4, <3>5
  <2> QED BY <2>1, <2>2
<1>12. OneHook'
  BY <1>11 DEF OneHook
<1>13. InReceipt'
  <2> SUFFICES ASSUME Once(receipt)'
               PROVE  /\ \A m \in Hooks : ~Named(m, receipt)'
                      /\ \A e \in Envs : ref'[e] = receipt' =>
                            disk'[e] = receipt' /\ types'[e] = receipt' /\ cache'[e] \in {NoCode, receipt'}
    BY DEF InReceipt
  <2>c. PICK c : c = receipt
    OBVIOUS
  <2>1. Once(c)' /\ receipt' = c /\ c \in seen
    BY <1>2, <1>4, <2>c DEF SeenOK, Once
  <2>2. Once(c) /\ \A i \in DOMAIN lines : lines[i].new # c
    BY <1>4, <2>1
  <2>3. /\ \A m \in Hooks : ~Named(m, c)
        /\ \A e \in Envs : ref[e] = c => disk[e] = c /\ types[e] = c /\ cache[e] \in {NoCode, c}
    BY <2>2, <2>c DEF InReceipt
  <2>4. \A e \in Envs : ref'[e] = c => ref[e] = c
    BY <1>1, <2>2
  <2>5. \A m \in Hooks : ~Named(m, c)'
    BY <1>7, <1>8, <2>2, <2>3
  <2>6. \A m \in Hooks : ~Named(m, receipt)'
    BY <2>1, <2>5 DEF Named
  <2> QED BY <1>2, <2>1, <2>3, <2>4, <2>6
<1> QED BY <1>5, <1>6, <1>12, <1>13

\* The first line of a hook, when it has one.
LEMMA FirstLine ==
    ASSUME Inv, NEW n \in Hooks, todo[n] # << >>
    PROVE  /\ 1 \in DOMAIN todo[n] /\ todo[n][1] = Line(n) /\ Named(n, Line(n).new)
           /\ Env(n) \in Envs /\ Line(n) = [env |-> Env(n), new |-> Line(n).new]
<1>1. todo[n] \in Seq(Lines)
  BY LineType DEF Inv
<1>2. 1 \in DOMAIN todo[n] /\ todo[n][1] = Line(n) /\ Line(n) \in Lines
  BY <1>1 DEF Line
<1> QED BY <1>2 DEF Named, Env, Lines

\* A hook that finishes its first line names no commit it did not name, and keeps every line of
\* another environment or commit.
LEMMA RestStands ==
    ASSUME Inv, NEW n \in Hooks, todo[n] # << >>, todo' = [todo EXCEPT ![n] = Tail(todo[n])]
    PROVE  /\ \A m \in Hooks : \A c : Named(m, c)' => Named(m, c)
           /\ \A m \in Hooks \ {n} : todo'[m] = todo[m]
           /\ \A e, c : (\E i \in DOMAIN todo[n] : todo[n][i] = [env |-> e, new |-> c]) =>
                 \/ e = Env(n) /\ c = Line(n).new
                 \/ \E i \in DOMAIN todo'[n] : todo'[n][i] = [env |-> e, new |-> c]
<1>1. /\ \A m \in Hooks \ {n} : todo'[m] = todo[m]
      /\ \A i \in DOMAIN todo'[n] : i + 1 \in DOMAIN todo[n] /\ todo'[n][i] = todo[n][i + 1]
      /\ \A i \in DOMAIN todo[n] \ {1} : i - 1 \in DOMAIN todo'[n] /\ todo'[n][i - 1] = todo[n][i]
  BY FinishLine DEF Inv
<1>2. \A m \in Hooks : \A c : Named(m, c)' => Named(m, c)
  BY <1>1 DEF Named
<1>3. ASSUME NEW e, NEW c, NEW i \in DOMAIN todo[n], todo[n][i] = [env |-> e, new |-> c]
      PROVE  \/ e = Env(n) /\ c = Line(n).new
             \/ \E j \in DOMAIN todo'[n] : todo'[n][j] = [env |-> e, new |-> c]
  <2>1. CASE i = 1
    BY <1>3, <2>1, FirstLine DEF Env
  <2>2. CASE i # 1
    BY <1>1, <1>3, <2>2
  <2> QED BY <2>1, <2>2
<1> QED BY <1>1, <1>2, <1>3

\* A step after which the hooks hold no commit they did not hold, and handle those they held.
LEMMA HooksStand ==
    ASSUME OneHook, UNCHANGED <<seen, again>>,
           \A m \in Hooks : \A c : Holds(m, c)' => Holds(m, c),
           \A m \in Hooks : \A c : Once(c) /\ Holds(m, c) /\ Handled(m, c) => Handled(m, c)'
    PROVE  OneHook'
<1> SUFFICES ASSUME NEW m \in Hooks, NEW c, Once(c)', Holds(m, c)'
             PROVE  Handled(m, c)' /\ \A q \in Hooks : q # m => ~Holds(q, c)'
  BY DEF OneHook
<1>1. Once(c) /\ Holds(m, c)
  BY DEF Once
<1>2. Handled(m, c) /\ \A q \in Hooks : q # m => ~Holds(q, c)
  BY <1>1 DEF OneHook
<1> QED BY <1>1, <1>2

\* A step that rewrites the directory of one environment, whose newest commit is handled by a
\* line that is still there and is not in the receipt.
LEMMA RewriteStands ==
    ASSUME CommitsOK, NEW f \in Envs,
           UNCHANGED <<ref, seen, again, types, cache, receipt, todo, deployed>>,
           \A e \in Envs \ {f} : disk'[e] = disk[e],
           \A m \in Hooks : \A c : Once(c) /\ Holds(m, c) /\ Handled(m, c) /\ ref[f] = c =>
               \E i \in DOMAIN todo[m] : todo[m][i] = [env |-> f, new |-> c],
           Once(receipt) => ref[f] # receipt
    PROVE  SeenOK' /\ OneHook' /\ InReceipt'
<1> USE DEF CommitsOK
<1>1. SeenOK'
  BY DEF SeenOK
<1>2. \A m \in Hooks : \A c : Holds(m, c)' <=> Holds(m, c)
  BY DEF Holds, Named
<1>3. ASSUME NEW m \in Hooks, NEW c, Once(c), Holds(m, c), Handled(m, c) PROVE Handled(m, c)'
  <2> SUFFICES ASSUME NEW e \in Envs, ref[e] = c
               PROVE  \/ disk'[e] = c /\ types[e] = c
                      \/ \E i \in DOMAIN todo[m] : todo[m][i] = [env |-> e, new |-> c]
    BY DEF Handled
  <2>1. CASE e = f
    BY <1>3, <2>1
  <2>2. CASE e # f
    BY <1>3, <2>2 DEF Handled
  <2> QED BY <2>1, <2>2
<1>4. OneHook'
  BY <1>2, <1>3, HooksStand
<1>5. \A m \in Hooks : \A c : Named(m, c)' <=> Named(m, c)
  BY DEF Named
<1>6. InReceipt'
  BY DEF InReceipt, Once, Named
<1> QED BY <1>1, <1>4, <1>6

LEMMA ReadCommits == ASSUME Inv, CommitsOK, NEW n \in Hooks, ReadLine(n) PROVE CommitsOK'
<1> USE DEF CommitsOK
<1>1. UNCHANGED <<ref, seen, again, types, cache, receipt, deployed>> /\ pc[n] = "read"
  BY DEF ReadLine, files
<1>2. CASE todo[n] = << >> /\ pc' = [pc EXCEPT ![n] = IF deployed[n] # Zero THEN "flush production" ELSE "ok"]
           /\ UNCHANGED <<todo, disk>>
  <2>1. SeenOK' /\ OneHook' /\ InReceipt'
    <3>1. UNCHANGED <<ref, seen, again, disk, types, cache, receipt, todo, deployed>>
      BY <1>1, <1>2
    <3> QED BY ONLY <3>1, CommitsOK DEF CommitsOK, SeenOK, OneHook, InReceipt, Once, Holds, Named, Handled
  <2>2. \A m \in Hooks \ {n} : pc'[m] = pc[m]
    BY <1>2 DEF Inv, TypeOK
  <2>3. ReadAll'
    BY <1>2, <2>2 DEF ReadAll
  <2> QED BY <2>1, <2>3
<1>3. CASE todo[n] # << >> /\ Line(n).new = Zero /\ todo' = [todo EXCEPT ![n] = Tail(@)]
           /\ UNCHANGED <<pc, disk>>
  <2>1. /\ \A m \in Hooks : \A c : Named(m, c)' => Named(m, c)
        /\ \A m \in Hooks \ {n} : todo'[m] = todo[m]
        /\ \A e, c : (\E i \in DOMAIN todo[n] : todo[n][i] = [env |-> e, new |-> c]) =>
              \/ e = Env(n) /\ c = Line(n).new
              \/ \E i \in DOMAIN todo'[n] : todo'[n][i] = [env |-> e, new |-> c]
    BY <1>3, RestStands
  <2>2. \A m \in Hooks : \A c : Holds(m, c)' => Holds(m, c)
    BY <1>1, <2>1 DEF Holds
  <2>3. ASSUME NEW m \in Hooks, NEW c, Once(c), Handled(m, c) PROVE Handled(m, c)'
    <3>1. c # Zero
      BY <2>3, CommitsAssumption DEF Once, Inv, TypeOK
    <3>2. \A e \in Envs : (\E i \in DOMAIN todo[m] : todo[m][i] = [env |-> e, new |-> c]) =>
                              \E i \in DOMAIN todo'[m] : todo'[m][i] = [env |-> e, new |-> c]
      BY <1>3, <2>1, <3>1
    <3> QED BY <1>1, <1>3, <2>3, <3>2 DEF Handled
  <2>4. OneHook'
    BY <1>1, <2>2, <2>3, HooksStand
  <2>5. SeenOK'
    <3>1. ASSUME NEW m \in Hooks, NEW i \in DOMAIN todo'[m] PROVE todo'[m][i].new \in seen \cup {Zero}
      <4>c. PICK c : c = todo'[m][i].new
        OBVIOUS
      <4>2. Named(m, c)'
        BY <4>c DEF Named
      <4>3. Named(m, c)
        BY <2>1, <4>2
      <4> QED BY <4>3, <4>c DEF Named, SeenOK
    <3> QED BY <1>1, <3>1 DEF SeenOK
  <2>6. InReceipt'
    BY <1>1, <1>3, <2>1 DEF InReceipt, Once, Named
  <2>7. ReadAll'
    BY <1>1, <1>3, <2>1 DEF ReadAll
  <2> QED BY <2>4, <2>5, <2>6, <2>7
<1>4. CASE Fails(n) /\ UNCHANGED <<todo, disk>>
  <2>1. SeenOK' /\ OneHook' /\ InReceipt'
    BY <1>1, <1>4 DEF SeenOK, OneHook, InReceipt, Once, Holds, Named, Handled
  <2>2. ReadAll'
    BY <1>1, <1>4 DEF ReadAll, Fails, Goto, Inv, TypeOK
  <2> QED BY <2>1, <2>2
<1>5. CASE /\ todo[n] # << >> /\ Line(n).new # Zero /\ ref[Env(n)] = Line(n).new
           /\ disk' = [disk EXCEPT ![Env(n)] = Mixed] /\ Goto(n, "r10k") /\ UNCHANGED todo
  <2>1. /\ 1 \in DOMAIN todo[n] /\ todo[n][1] = Line(n) /\ Named(n, Line(n).new)
        /\ Env(n) \in Envs /\ Line(n) = [env |-> Env(n), new |-> Line(n).new]
    BY <1>5, FirstLine
  <2>2. \A e \in Envs \ {Env(n)} : disk'[e] = disk[e]
    BY <1>5, <2>1 DEF Inv, TypeOK
  <2>3. \A m \in Hooks : \A c : Once(c) /\ Holds(m, c) /\ ref[Env(n)] = c => m = n
    BY <1>5, <2>1 DEF OneHook, Holds
  <2>4. \A m \in Hooks : \A c : Once(c) /\ Holds(m, c) /\ Handled(m, c) /\ ref[Env(n)] = c =>
               \E i \in DOMAIN todo[m] : todo[m][i] = [env |-> Env(n), new |-> c]
    BY <1>5, <2>1, <2>3
  <2>5. Once(receipt) => ref[Env(n)] # receipt
    BY <1>5, <2>1 DEF InReceipt
  <2>6. SeenOK' /\ OneHook' /\ InReceipt'
    BY <1>1, <1>5, <2>1, <2>2, <2>4, <2>5, RewriteStands
  <2>7. ReadAll'
    BY <1>1, <1>5 DEF ReadAll, Goto, Inv, TypeOK
  <2> QED BY <2>6, <2>7
<1> QED BY <1>2, <1>3, <1>4, <1>5 DEF ReadLine, Goto

LEMMA R10kCommits == ASSUME Inv, InputsOK, CommitsOK, NEW n \in Hooks, R10k(n) PROVE CommitsOK'
<1> USE DEF CommitsOK
<1>1. UNCHANGED <<ref, seen, again, types, cache, receipt, todo, deployed>> /\ pc[n] = "r10k" /\ todo[n] # << >>
  BY DEF R10k, files, Inv, TypeOK
<1>2. Env(n) \in Envs
  BY <1>1, FirstLine
<1>3. \A e \in Envs \ {Env(n)} : disk'[e] = disk[e]
  BY <1>2 DEF R10k, Inv, TypeOK
<1>4. disk[Env(n)] = Mixed /\ ref[Env(n)] # Mixed
  BY <1>1, <1>2, CommitsAssumption, DistinctAssumption DEF InputsOK, Inv, TypeOK
<1>5. \A m \in Hooks : \A c : Once(c) /\ Holds(m, c) /\ Handled(m, c) /\ ref[Env(n)] = c =>
               \E i \in DOMAIN todo[m] : todo[m][i] = [env |-> Env(n), new |-> c]
  BY <1>2, <1>4 DEF Handled
<1>6. Once(receipt) => ref[Env(n)] # receipt
  BY <1>2, <1>4 DEF InReceipt
<1>7. SeenOK' /\ OneHook' /\ InReceipt'
  BY <1>1, <1>2, <1>3, <1>5, <1>6, RewriteStands
<1>8. ReadAll'
  <2>1. \E l \in {"types", "failed"} : pc' = [pc EXCEPT ![n] = l]
    BY DEF R10k, Compare, Goto, Fails
  <2> QED BY <1>1, <2>1 DEF ReadAll, Inv, TypeOK
<1> QED BY <1>7, <1>8

LEMMA TypesCommits == ASSUME Inv, CommitsOK, NEW n \in Hooks, GenerateTypes(n) PROVE CommitsOK'
<1> USE DEF CommitsOK
<1>1. /\ UNCHANGED <<ref, seen, again, disk, cache, receipt>> /\ pc[n] = "types" /\ todo[n] # << >>
      /\ disk[Env(n)] = Line(n).new /\ Line(n).new # Zero
  BY DEF GenerateTypes, files, Inv, TypeOK, ComparedOK
<1>2. CASE /\ types' = [types EXCEPT ![Env(n)] = disk[Env(n)]]
           /\ deployed' = [deployed EXCEPT ![n] = Line(n).new]
           /\ todo' = [todo EXCEPT ![n] = Tail(todo[n])]
           /\ Goto(n, "read")
  <2>1. /\ \A m \in Hooks : \A c : Named(m, c)' => Named(m, c)
        /\ \A m \in Hooks \ {n} : todo'[m] = todo[m]
        /\ \A e, c : (\E i \in DOMAIN todo[n] : todo[n][i] = [env |-> e, new |-> c]) =>
              \/ e = Env(n) /\ c = Line(n).new
              \/ \E i \in DOMAIN todo'[n] : todo'[n][i] = [env |-> e, new |-> c]
    BY <1>1, <1>2, RestStands
  <2>2. Named(n, Line(n).new) /\ Env(n) \in Envs
    BY <1>1, FirstLine
  <2>3. deployed'[n] = Line(n).new /\ \A m \in Hooks \ {n} : deployed'[m] = deployed[m]
    BY <1>2 DEF Inv, TypeOK
  <2>4. \A e \in Envs : types'[e] = IF e = Env(n) THEN disk[e] ELSE types[e]
    BY <1>2, <2>2 DEF Inv, TypeOK
  <2>5. \A m \in Hooks : \A c : Holds(m, c)' => Holds(m, c)
    BY <2>1, <2>2, <2>3 DEF Holds
  <2>6. ASSUME NEW m \in Hooks, NEW c, Handled(m, c) PROVE Handled(m, c)'
    <3> SUFFICES ASSUME NEW e \in Envs, ref[e] = c
                 PROVE  \/ disk[e] = c /\ types'[e] = c
                        \/ \E i \in DOMAIN todo'[m] : todo'[m][i] = [env |-> e, new |-> c]
      BY <1>1 DEF Handled
    <3>1. CASE disk[e] = c /\ types[e] = c
      BY <2>4, <3>1
    <3>2. CASE \E i \in DOMAIN todo[m] : todo[m][i] = [env |-> e, new |-> c]
      BY <1>1, <2>1, <2>4, <3>2
    <3> QED BY <2>6, <3>1, <3>2 DEF Handled
  <2>7. OneHook'
    BY <1>1, <2>5, <2>6, HooksStand
  <2>8. SeenOK'
    <3>1. ASSUME NEW m \in Hooks, NEW i \in DOMAIN todo'[m] PROVE todo'[m][i].new \in seen \cup {Zero}
      <4>c. PICK c : c = todo'[m][i].new
        OBVIOUS
      <4>1. Named(m, c)'
        BY <4>c DEF Named
      <4> QED BY <2>1, <4>1, <4>c DEF Named, SeenOK
    <3>2. \A m \in Hooks : deployed'[m] \in seen \cup {Zero}
      BY <2>2, <2>3 DEF SeenOK, Named
    <3> QED BY <1>1, <3>1, <3>2 DEF SeenOK
  <2>9. InReceipt'
    <3>1. \A e \in Envs : types[e] = disk[e] => types'[e] = disk[e]
      BY <2>4
    <3> QED BY <1>1, <2>1, <3>1 DEF InReceipt, Once, Named
  <2>10. ReadAll'
    BY <1>1, <1>2, <2>1 DEF ReadAll, Goto, Inv, TypeOK
  <2> QED BY <2>7, <2>8, <2>9, <2>10
<1>3. CASE Fails(n) /\ UNCHANGED <<types, deployed, todo>>
  <2>1. SeenOK' /\ OneHook' /\ InReceipt'
    BY <1>1, <1>3 DEF SeenOK, OneHook, InReceipt, Once, Holds, Named, Handled
  <2>2. ReadAll'
    BY <1>1, <1>3 DEF ReadAll, Fails, Goto, Inv, TypeOK
  <2> QED BY <2>1, <2>2
<1> QED BY <1>2, <1>3 DEF GenerateTypes

\* The steps that move no input and write no directory.
LEMMA IdleCommits ==
    ASSUME CommitsOK, UNCHANGED <<ref, seen, again, disk, types, todo, deployed, receipt>>,
           \A e \in Envs : cache'[e] \in {cache[e], NoCode, disk[e]},
           ReadAll'
    PROVE  CommitsOK'
<1> USE DEF CommitsOK
<1>1. SeenOK' /\ OneHook'
  BY DEF SeenOK, OneHook, Once, Holds, Named, Handled
<1>2. InReceipt'
  BY DEF InReceipt, Once, Named
<1> QED BY <1>1, <1>2

LEMMA ReceiptCommits == ASSUME Inv, CommitsOK, NEW n \in Hooks, WriteReceipt(n) PROVE CommitsOK'
<1> USE DEF CommitsOK
<1>1. /\ UNCHANGED <<ref, seen, again, disk, types, cache, todo, deployed>> /\ receipt' = deployed[n]
      /\ pc[n] = "receipt" /\ pc' = [pc EXCEPT ![n] = "ok"]
      /\ \A e \in Envs : cache[e] \in {NoCode, disk[e]}
  BY DEF WriteReceipt, Goto, code, Inv, FlushedOK, Envs
<1>2. SeenOK' /\ OneHook'
  BY <1>1 DEF SeenOK, OneHook, Once, Holds, Named, Handled
<1>3. ReadAll'
  <2>1. pc'[n] = "ok" /\ \A m \in Hooks \ {n} : pc'[m] = pc[m]
    BY <1>1 DEF Inv, TypeOK
  <2> QED BY <1>1, <2>1 DEF ReadAll
<1>4. InReceipt'
  <2>c. PICK c : c = deployed[n]
    OBVIOUS
  <2> SUFFICES ASSUME Once(c)
               PROVE  /\ \A m \in Hooks : ~Named(m, c)
                      /\ \A e \in Envs : ref[e] = c => disk[e] = c /\ types[e] = c /\ cache[e] \in {NoCode, c}
    BY <1>1, <2>c DEF InReceipt, Once, Named
  <2>r. ReadAll
    OBVIOUS
  <2>t. todo[n] = << >>
    BY ONLY <1>1, <2>r, n \in Hooks DEF ReadAll
  <2>1. todo[n] = << >> /\ DOMAIN todo[n] = {}
    BY <2>t
  <2>2. Handled(n, c) /\ \A m \in Hooks : m # n => ~Holds(m, c)
    BY <2>c DEF OneHook, Holds
  <2> QED BY <1>1, <2>1, <2>2 DEF Handled, Holds, Named
<1> QED BY <1>2, <1>3, <1>4

LEMMA InitCommits == Init => CommitsOK
<1> SUFFICES ASSUME Init PROVE CommitsOK
  OBVIOUS
<1>1. \A n \in Hooks : todo[n] = << >> /\ deployed[n] = Zero /\ DOMAIN todo[n] = {} /\ pc[n] = "none"
  BY DEF Init
<1>2. ~Once(Zero) /\ receipt = Zero
  BY CommitsAssumption DEF Init, Once
<1> QED BY <1>1, <1>2 DEF Init, CommitsOK, SeenOK, ReadAll, OneHook, InReceipt, Holds, Named

LEMMA NextCommits == Inv /\ InputsOK /\ CommitsOK /\ [Next]_vars => CommitsOK'
<1> SUFFICES ASSUME Inv, InputsOK, CommitsOK, [Next]_vars PROVE CommitsOK'
  OBVIOUS
<1>r. ReadAll
  BY DEF CommitsOK
<1>1. CASE UNCHANGED vars
  <2>1. ReadAll'
    BY <1>1, <1>r DEF vars, ReadAll
  <2> QED BY <1>1, <2>1, IdleCommits DEF vars
<1>2. ASSUME NEW n \in Hooks,
             TakeLock(n) \/ FlushProduction(n) \/ FlushDev(n) \/ Leave(n) \/ Kill(n)
      PROVE  CommitsOK'
  <2>1. UNCHANGED <<ref, seen, again, disk, types, todo, deployed, receipt>>
    BY <1>2 DEF TakeLock, FlushProduction, FlushDev, Flush, Leave, Kill, code, files
  <2>2. \A e \in Envs : cache'[e] \in {cache[e], NoCode, disk[e]}
    BY <1>2 DEF TakeLock, FlushProduction, FlushDev, Flush, Leave, Kill, code, Inv, TypeOK
  <2>3. \E l \in Places : /\ pc' = [pc EXCEPT ![n] = l]
                          /\ l \in {"flush production", "flush dev", "receipt"} =>
                                pc[n] \in {"flush production", "flush dev", "receipt"}
    BY <1>2 DEF TakeLock, FlushProduction, FlushDev, Flush, Leave, Kill, Goto, Fails, Places
  <2>4. ReadAll'
    BY <1>r, <2>1, <2>3 DEF ReadAll, Inv, TypeOK
  <2> QED BY <2>1, <2>2, <2>4, IdleCommits
<1>3. CASE (\E e \in Envs : Load(e)) \/ Restart
  <2>1. UNCHANGED <<ref, seen, again, disk, types, todo, deployed, receipt>>
    BY <1>3 DEF Load, Restart, files
  <2>2. \A e \in Envs : cache'[e] \in {cache[e], NoCode, disk[e]}
    BY <1>3 DEF Load, Restart, Inv, TypeOK
  <2>3. ReadAll'
    BY <1>3, <1>r, <2>1 DEF Load, Restart, ReadAll
  <2> QED BY <2>1, <2>2, <2>3, IdleCommits
<1> QED
  BY <1>1, <1>2, <1>3, PushCommits, ReadCommits, R10kCommits, TypesCommits, ReceiptCommits DEF Next, Hook

\* Of a commit that one push named and no later push named again, the operator's check
\* (proxmox/README.md:342-349) means what it is taken for, for any order of pushes and hooks and
\* whatever failed: production is that commit on disk, in its types and in the compiler.
THEOREM FreshReceiptsMeanServed == Spec => []FreshReceiptMeansServed
<1>1. CommitsOK => FreshReceiptMeansServed
  BY EnvsFacts DEF CommitsOK, SeenOK, InReceipt, Once, FreshReceiptMeansServed, CheckPasses, Serves
<1>2. Spec => []CommitsOK
  BY InitCommits, NextCommits, OwesHolds, PTL DEF Spec
<1> QED BY <1>1, <1>2, PTL
===============================================================================
