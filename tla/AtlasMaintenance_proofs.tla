----------------------- MODULE AtlasMaintenance_proofs ------------------------
(* What holds on Atlas for any number of renewals, faults and deployments. *)
EXTENDS AtlasMaintenance, TLAPS

LEMMA InitTypes == Init => TypeOK
<1> SUFFICES ASSUME Init PROVE TypeOK
  OBVIOUS
<1>1. pem \in [Services -> Pairs] /\ store \in [{"https", "ldaps"} -> Nat]
  BY DEF Init, Pairs
<1>2. served \in [Listeners -> Nat] /\ started \in [{"vault", "unsealer"} -> BOOLEAN]
  BY DEF Init
<1>3. TlsTypes
  BY <1>1, <1>2 DEF Init, TlsTypes
<1> QED
  BY <1>3 DEF Init, TypeOK, BackupTypes, PuppetTypes, EnrollTypes, CountTypes, LockIsHeld,
              LockedApply, Services

\* What is not touched keeps its type.
LEMMA TlsStays == ASSUME TlsTypes, UNCHANGED tlsVars PROVE TlsTypes'
BY DEF TlsTypes, tlsVars

LEMMA BackupStays == ASSUME BackupTypes, UNCHANGED backupVars PROVE BackupTypes'
BY DEF BackupTypes, backupVars

LEMMA PuppetStays == ASSUME PuppetTypes, UNCHANGED puppetVars PROVE PuppetTypes'
BY DEF PuppetTypes, puppetVars

LEMMA EnrollStays == ASSUME EnrollTypes, UNCHANGED enrollVars PROVE EnrollTypes'
BY DEF EnrollTypes, enrollVars

LEMMA CountsStay == ASSUME CountTypes, UNCHANGED countVars \/ Fault \/ Renewing PROVE CountTypes'
BY DEF CountTypes, countVars, Fault, Renewing

\* One field of a pair changes to a number.
LEMMA PairKeepsType ==
  ASSUME TlsTypes, NEW s \in Services, NEW f \in {"chain", "key"}
  PROVE  pem[s][f] \in Nat
BY DEF TlsTypes, Pairs

LEMMA AnewKeepsTypes ==
  ASSUME TlsTypes, Anew
  PROVE  served' \in [Listeners -> Nat] /\ sealed' \in BOOLEAN
<1>1. pem["openvox"].chain \in Nat /\ \A p \in {"https", "ldaps"} : store[p] \in Nat
  BY DEF TlsTypes, Pairs, Services
<1> QED
  BY <1>1 DEF Anew, Listeners, None

LEMMA DownKeepsTypes ==
  ASSUME TlsTypes, Down
  PROVE  served' \in [Listeners -> Nat] /\ sealed' \in BOOLEAN
BY DEF TlsTypes, Down, None

LEMMA NextServiceKeepsTypes ==
  ASSUME PuppetTypes, NextService
  PROVE  svc' \in Services /\ apc' \in {"idle", "guard"}
BY DEF PuppetTypes, NextService, Services

-------------------------------------------------------------------------------
LEMMA TlsKeepsTypes == ASSUME TypeOK, Next PROVE TlsTypes'
<1> USE DEF TypeOK
<1>1. CASE VaultBoots
  <2>1. served' \in [Listeners -> Nat]
    BY <1>1 DEF VaultBoots, TlsTypes, Pairs, Services
  <2> QED
    BY <1>1, <2>1 DEF VaultBoots, TlsTypes
<1>2. CASE Unseal
  BY <1>2 DEF Unseal, TlsTypes
<1>3. CASE BackupBegin \/ BackupTar \/ BackupHealth \/ KillBackup
  BY <1>3, TlsStays DEF BackupBegin, BackupTar, BackupHealth, KillBackup
<1>4. CASE BackupStop
  <2>1. CASE Down
    BY <1>4, <2>1, DownKeepsTypes DEF BackupStop, TlsTypes, tlsVars
  <2>2. CASE ~Down
    BY <1>4, <2>2 DEF BackupStop, TlsTypes, tlsVars
  <2> QED
    BY <2>1, <2>2
<1>5. CASE BackupStart \/ BackupTrap
  BY <1>5 DEF BackupStart, BackupTrap, StartBoth, TlsTypes, tlsVars
<1>6. CASE PuppetBegin \/ NothingToRenew \/ Guard \/ ApplyLock \/ ApplyFault \/ Poll
  BY <1>6, TlsStays DEF PuppetBegin, NothingToRenew, Guard, ApplyLock, ApplyFault, Poll
<1>7. CASE RenewHalf
  <2>1. PICK s \in {"vault", "ipa"}, half \in {"chain", "key"} :
          pem' = [pem EXCEPT ![s][half] = @ + 1]
    BY <1>7 DEF RenewHalf
  <2>2. pem' \in [Services -> Pairs]
    BY <2>1 DEF TlsTypes, Pairs, Services
  <2> QED
    BY <1>7, <2>2 DEF RenewHalf, TlsTypes
<1>8. CASE RenewOther
  <2>1. PICK s \in {"vault", "ipa"} :
          LET n == IF pem[s].chain > pem[s].key THEN pem[s].chain ELSE pem[s].key
          IN  pem' = [pem EXCEPT ![s] = [chain |-> n, key |-> n]]
    BY <1>8 DEF RenewOther
  <2>2. pem' \in [Services -> Pairs]
    BY <2>1 DEF TlsTypes, Pairs, Services
  <2> QED
    BY <1>8, <2>2 DEF RenewOther, TlsTypes
<1>9. CASE ApplyVault
  <2>1. pem["vault"].key \in Nat /\ pem["vault"].chain \in Nat
    BY PairKeepsType DEF Services
  <2>2. served' \in [Listeners -> Nat] /\ pin' \in Nat
    BY <1>9, <2>1 DEF ApplyVault, TlsTypes, tlsVars
  <2> QED
    BY <1>9, <2>2 DEF ApplyVault, TlsTypes, tlsVars
<1>10. CASE ApplyIpa
  <2>1. pem["ipa"].chain \in Nat
    BY PairKeepsType DEF Services
  <2>2. store' \in [{"https", "ldaps"} -> Nat] /\ served' \in [Listeners -> Nat]
    BY <1>10, <2>1 DEF ApplyIpa, TlsTypes
  <2> QED
    BY <1>10, <2>2 DEF ApplyIpa, TlsTypes
<1>11. CASE ApplyOpenvox
  <2>1. pem["openvox"].chain \in Nat /\ pem["openvox"].key \in Nat
    BY PairKeepsType DEF Services
  <2>2. pem' \in [Services -> Pairs] /\ due' \in BOOLEAN
    <3>1. CASE due
      <4> DEFINE next == [chain |-> pem["openvox"].chain + 1, key |-> pem["openvox"].key + 1]
      <4>1. pem' = [pem EXCEPT !["openvox"] = next] /\ due' = FALSE
        BY <1>11, <3>1 DEF ApplyOpenvox
      <4>2. next \in Pairs
        BY <2>1 DEF Pairs
      <4>3. pem \in [Services -> Pairs]
        BY DEF TlsTypes
      <4> HIDE DEF next
      <4> QED
        BY <4>1, <4>2, <4>3
    <3>2. CASE ~due
      BY <1>11, <3>2 DEF ApplyOpenvox, TlsTypes
    <3> QED
      BY <3>1, <3>2
  <2> QED
    BY <1>11, <2>2 DEF ApplyOpenvox, TlsTypes
<1>12. CASE RestartOpenvox
  <2>1. pem["openvox"].chain \in Nat
    BY PairKeepsType DEF Services
  <2> QED
    BY <1>12, <2>1 DEF RestartOpenvox, TlsTypes
<1>13. CASE BecomesDue
  BY <1>13 DEF BecomesDue, TlsTypes
<1>14. CASE Deploy
  <2>1. served' \in [Listeners -> Nat] /\ sealed' \in BOOLEAN
    BY <1>14, AnewKeepsTypes DEF Deploy, TlsTypes
  <2> QED
    BY <1>14, <2>1 DEF Deploy, StartBoth, TlsTypes
<1>15. CASE Reboot
  BY <1>15, AnewKeepsTypes DEF Reboot, TlsTypes
<1>16. CASE DeployEnd \/ EnrollBegin \/ EnrollStep \/ EnrollTimeout \/ CleanRequest
  BY <1>16, TlsStays DEF DeployEnd, EnrollBegin, EnrollStep, EnrollTimeout, CleanRequest,
       EnrollRuntime, EnrollToken, Submit, Sign, Catalog, EnrollEnd
<1> QED
  BY <1>1, <1>2, <1>3, <1>4, <1>5, <1>6, <1>7, <1>8, <1>9, <1>10, <1>11, <1>12, <1>13, <1>14,
     <1>15, <1>16 DEF Next, BackupStep, PuppetStep

LEMMA CountsKeepTypes == ASSUME TypeOK, Next PROVE CountTypes'
<1> USE DEF TypeOK
<1>1. CASE VaultBoots \/ Unseal \/ BackupBegin \/ BackupHealth
  BY <1>1, CountsStay DEF VaultBoots, Unseal, BackupBegin, BackupHealth
<1>2. CASE BackupStop \/ BackupTar \/ BackupStart \/ BackupTrap
  BY <1>2, CountsStay DEF BackupStop, BackupTar, BackupStart, BackupTrap
<1>3. CASE KillBackup
  BY <1>3 DEF KillBackup, CountTypes
<1>6. CASE Reboot
  <2>1. faults' = faults + 1 /\ (kills' = kills + 0 \/ kills' = kills + 1)
    BY <1>6 DEF Reboot
  <2>2. UNCHANGED <<renewals, deploys>>
    BY <1>6 DEF Reboot
  <2> QED
    BY <2>1, <2>2 DEF CountTypes
<1>7. CASE Deploy
  BY <1>7 DEF Deploy, CountTypes
<1>4. CASE PuppetBegin \/ RenewHalf \/ PuppetStep \/ ApplyLock \/ BecomesDue \/ ApplyFault
  BY <1>4, CountsStay DEF PuppetBegin, RenewHalf, PuppetStep, ApplyLock, BecomesDue, ApplyFault,
       RenewOther, NothingToRenew, Guard, ApplyVault, ApplyIpa, ApplyOpenvox, RestartOpenvox, Poll
<1>5. CASE DeployEnd \/ EnrollBegin \/ EnrollStep \/ EnrollTimeout \/ CleanRequest
  BY <1>5, CountsStay DEF DeployEnd, EnrollBegin, EnrollStep, EnrollTimeout, CleanRequest,
       EnrollRuntime, EnrollToken, Submit, Sign, Catalog, EnrollEnd
<1> QED
  BY <1>1, <1>2, <1>3, <1>4, <1>5, <1>6, <1>7 DEF Next, BackupStep

\* What the steps do to who is at work.
LEMMA ContainersLeaveWorkers ==
  ASSUME VaultBoots \/ Unseal \/ BecomesDue
  PROVE  UNCHANGED <<lock, backupVars, puppetVars, enrollVars>>
BY DEF VaultBoots, Unseal, BecomesDue

LEMMA WorkersKeepTypes == ASSUME TypeOK, Next PROVE BackupTypes' /\ PuppetTypes' /\ EnrollTypes' /\ LockIsHeld'
<1> USE DEF TypeOK
<1>1. CASE VaultBoots \/ Unseal \/ BecomesDue
  BY <1>1, ContainersLeaveWorkers, BackupStays, PuppetStays, EnrollStays
     DEF LockIsHeld, backupVars, puppetVars, enrollVars
<1>2. CASE BackupBegin \/ BackupStep \/ KillBackup
  <2>1. UNCHANGED <<puppetVars, enrollVars>>
    BY <1>2 DEF BackupBegin, BackupStep, KillBackup, BackupStop, BackupTar, BackupStart,
         BackupHealth, BackupTrap
  <2>2. BackupTypes'
    BY <1>2 DEF BackupTypes, BackupBegin, BackupStep, KillBackup, BackupStop, BackupTar,
         BackupStart, BackupHealth, BackupTrap
  <2>3. LockIsHeld'
    BY <1>2, <2>1 DEF LockIsHeld, LockedApply, puppetVars, enrollVars, BackupBegin, BackupStep,
         KillBackup, BackupStop, BackupTar, BackupStart, BackupHealth, BackupTrap, Take, Release
  <2> QED
    BY <2>1, <2>2, <2>3, PuppetStays, EnrollStays
<1>3. CASE PuppetBegin \/ RenewHalf \/ PuppetStep \/ ApplyLock \/ ApplyFault
  <2>1. UNCHANGED <<backupVars, enrollVars>>
    BY <1>3 DEF PuppetBegin, RenewHalf, PuppetStep, ApplyLock, ApplyFault, RenewOther,
         NothingToRenew, Guard, ApplyVault, ApplyIpa, ApplyOpenvox, RestartOpenvox, Poll
  <2>2. PuppetTypes' /\ LockIsHeld'
    <3>1. CASE PuppetBegin \/ RenewHalf \/ RenewOther \/ NothingToRenew \/ ApplyLock
      BY <1>3, <2>1, <3>1 DEF PuppetBegin, RenewHalf, RenewOther, NothingToRenew, ApplyLock, Take,
           PuppetTypes, LockIsHeld, LockedApply, Services, backupVars, enrollVars
    <3>2. CASE ApplyFault \/ Poll \/ Guard
      BY <2>1, <3>2, NextServiceKeepsTypes DEF ApplyFault, ApplyFails, Poll, Guard, Release,
           PuppetTypes, LockIsHeld, LockedApply, backupVars, enrollVars
    <3>3. CASE ApplyVault
      BY <2>1, <3>3, NextServiceKeepsTypes DEF ApplyVault, ApplyFails, Release, PuppetTypes,
           LockIsHeld, LockedApply, backupVars, enrollVars
    <3>4. CASE ApplyIpa \/ ApplyOpenvox \/ RestartOpenvox
      BY <2>1, <3>4 DEF ApplyIpa, ApplyOpenvox, RestartOpenvox, PuppetTypes, LockIsHeld,
           LockedApply, backupVars, enrollVars
    <3> QED
      BY <1>3, <3>1, <3>2, <3>3, <3>4 DEF PuppetStep
  <2> QED
    BY <2>1, <2>2, BackupStays, EnrollStays
<1>4. CASE Deploy \/ DeployEnd
  <2>1. UNCHANGED <<backupVars, puppetVars, enrollVars>>
    BY <1>4 DEF Deploy, DeployEnd
  <2>2. LockIsHeld'
    BY <1>4, <2>1 DEF Deploy, DeployEnd, Take, Release, LockIsHeld, LockedApply, backupVars,
         puppetVars, enrollVars
  <2> QED
    BY <2>1, <2>2, BackupStays, PuppetStays, EnrollStays
<1>5. CASE Reboot
  BY <1>5 DEF Reboot, Release, BackupTypes, PuppetTypes, EnrollTypes, LockIsHeld, LockedApply
<1>6. CASE EnrollBegin \/ EnrollStep \/ EnrollTimeout \/ CleanRequest
  <2>1. UNCHANGED backupVars
    BY <1>6 DEF EnrollBegin, EnrollStep, EnrollTimeout, CleanRequest, EnrollRuntime, EnrollToken,
         Submit, Sign, Catalog, EnrollEnd
  <2>2. CASE Catalog
    <3>1. UNCHANGED <<token, pending, enrolled, done>>
      BY <2>2 DEF Catalog
    <3>2. CASE orphan /\ apc # "idle"
      <4>1. epc = "catalog" /\ epc' = "idle" /\ lock' = "none" /\ UNCHANGED puppetVars
        BY <2>2, <3>2 DEF Catalog, Raise, Release
      <4> QED
        BY <2>1, <3>1, <4>1, PuppetStays, BackupStays
           DEF EnrollTypes, LockIsHeld, LockedApply, backupVars, puppetVars
    <3>3. CASE ~(orphan /\ apc # "idle")
      <4>1. /\ epc = "catalog" /\ epc' = "wait" /\ UNCHANGED lock
            /\ apc' = "certs" /\ svc' = "openvox" /\ failed' = FALSE /\ orphan' = FALSE
        BY <2>2, <3>3 DEF Catalog
      <4>2. PuppetTypes' /\ EnrollTypes'
        BY <3>1, <4>1 DEF PuppetTypes, EnrollTypes, Services
      <4>3. LockIsHeld'
        BY <2>1, <4>1 DEF LockIsHeld, LockedApply, backupVars
      <4> QED
        BY <2>1, <4>2, <4>3, BackupStays
    <3> QED
      BY <3>2, <3>3
  <2>3. CASE EnrollTimeout
    BY <2>1, <2>3 DEF EnrollTimeout, Raise, Release, PuppetTypes, EnrollTypes, LockIsHeld,
         LockedApply, backupVars, BackupTypes
  <2>4. CASE EnrollBegin \/ EnrollRuntime \/ EnrollToken \/ Submit \/ Sign \/ EnrollEnd \/ CleanRequest
    <3>1. UNCHANGED puppetVars
      BY <2>4 DEF EnrollBegin, EnrollRuntime, EnrollToken, Submit, Sign, EnrollEnd, CleanRequest
    <3>2. EnrollTypes'
      BY <2>4 DEF EnrollTypes, EnrollBegin, EnrollRuntime, EnrollToken, Submit, Sign, EnrollEnd,
           CleanRequest, Raise, PuppetTypes
    <3>3. LockIsHeld'
      BY <2>1, <2>4, <3>1 DEF LockIsHeld, LockedApply, backupVars, puppetVars, EnrollBegin,
           EnrollRuntime, EnrollToken, Submit, Sign, EnrollEnd, CleanRequest, Raise, Release, Take
    <3> QED
      BY <2>1, <3>1, <3>2, <3>3, BackupStays, PuppetStays
  <2> QED
    BY <1>6, <2>2, <2>3, <2>4 DEF EnrollStep
<1> QED
  BY <1>1, <1>2, <1>3, <1>4, <1>5, <1>6 DEF Next

\* For any number of renewals, faults and deployments every variable keeps its type, and
\* only the holder of the maintenance lock is at work.
THEOREM TypeCorrect == Spec => []TypeOK
<1>1. TypeOK /\ [Next]_vars => TypeOK'
  <2> SUFFICES ASSUME TypeOK, [Next]_vars PROVE TypeOK'
    OBVIOUS
  <2>1. CASE Next
    BY <2>1, TlsKeepsTypes, CountsKeepTypes, WorkersKeepTypes DEF TypeOK
  <2>2. CASE UNCHANGED vars
    <3>1. UNCHANGED <<lock, tlsVars, backupVars, puppetVars, enrollVars, countVars>>
      BY <2>2 DEF vars
    <3>2. LockIsHeld'
      BY <3>1 DEF TypeOK, LockIsHeld, backupVars, puppetVars, enrollVars
    <3> QED
      BY <3>1, <3>2, TlsStays, BackupStays, PuppetStays, EnrollStays, CountsStay DEF TypeOK
  <2> QED
    BY <2>1, <2>2
<1> QED
  BY InitTypes, <1>1, PTL DEF Spec

-------------------------------------------------------------------------------
(* The backup. *)

StoppedForArchive ==
    bpc \in {"tar", "tar end", "start"} => ~started["vault"] /\ served["vault"] = None

LEMMA StoppedStays == ASSUME TypeOK, StoppedForArchive, Next PROVE StoppedForArchive'
<1>0. served \in [Listeners -> Nat] /\ started \in [{"vault", "unsealer"} -> BOOLEAN]
  BY DEF TypeOK, TlsTypes
<1>1. CASE VaultBoots
  BY <1>1 DEF VaultBoots, StoppedForArchive, backupVars
<1>2. CASE Unseal \/ PuppetBegin \/ RenewHalf \/ BecomesDue \/ ApplyLock \/ ApplyFault
  BY <1>2 DEF Unseal, PuppetBegin, RenewHalf, BecomesDue, ApplyLock, ApplyFault,
       StoppedForArchive, tlsVars, backupVars
<1>3. CASE BackupBegin \/ BackupStop \/ BackupTar
  BY <1>0, <1>3 DEF BackupBegin, BackupStop, BackupTar, Down, StoppedForArchive, tlsVars, Listeners
<1>4. CASE BackupStart \/ BackupHealth \/ BackupTrap \/ KillBackup
  BY <1>4 DEF BackupStart, BackupHealth, BackupTrap, KillBackup, StoppedForArchive
<1>5. CASE RenewOther \/ NothingToRenew \/ Guard \/ ApplyOpenvox \/ Poll
  BY <1>5 DEF RenewOther, NothingToRenew, Guard, ApplyOpenvox, Poll, StoppedForArchive,
       tlsVars, backupVars
<1>6. CASE ApplyVault
  BY <1>6 DEF ApplyVault, StoppedForArchive, tlsVars, backupVars
<1>7. CASE ApplyIpa \/ RestartOpenvox
  <2>1. served'["vault"] = served["vault"]
    BY <1>0, <1>7 DEF ApplyIpa, RestartOpenvox, TypeOK, TlsTypes, Listeners
  <2> QED
    BY <1>7, <2>1 DEF ApplyIpa, RestartOpenvox, StoppedForArchive, backupVars
<1>8. CASE Deploy
  BY <1>8 DEF Deploy, Take, StoppedForArchive, TypeOK, LockIsHeld, backupVars
<1>9. CASE Reboot
  BY <1>9 DEF Reboot, StoppedForArchive
<1>10. CASE DeployEnd \/ EnrollBegin \/ EnrollStep \/ EnrollTimeout \/ CleanRequest
  BY <1>10 DEF DeployEnd, EnrollBegin, EnrollStep, EnrollTimeout, CleanRequest, EnrollRuntime,
       EnrollToken, Submit, Sign, Catalog, EnrollEnd, StoppedForArchive, tlsVars, backupVars
<1> QED
  BY <1>1, <1>2, <1>3, <1>4, <1>5, <1>6, <1>7, <1>8, <1>9, <1>10 DEF Next, BackupStep, PuppetStep

\* For any number of deployments, renewals and faults, no archive is read beside a running
\* Vault.
THEOREM ArchiveStays == Spec => []ArchiveOfStoppedVault
<1>1. Init => StoppedForArchive
  BY DEF Init, StoppedForArchive
<1>2. TypeOK /\ StoppedForArchive /\ [Next]_vars => StoppedForArchive'
  BY StoppedStays DEF vars, tlsVars, backupVars, StoppedForArchive
<1>3. StoppedForArchive => ArchiveOfStoppedVault
  BY DEF StoppedForArchive, ArchiveOfStoppedVault
<1> QED
  BY TypeCorrect, <1>1, <1>2, <1>3, PTL DEF Spec

\* Both containers are kept running.
Both == started["vault"] /\ started["unsealer"]

\* What a backup nobody killed has left, wherever it is: the trap still knows what it must
\* start, unless a command failed twice.
CleanSoFar ==
    kills = 0 =>
        /\ archive = "partial" => bpc \in {"tar end", "trap"}
        /\ bpc \in {"idle", "stop"} /\ faults <= 1 => Both
        /\ bpc \in {"stop vault", "tar", "tar end", "start"} => stopped
        /\ bpc = "health" => Both /\ ~stopped
        /\ bpc = "trap" /\ stopped => faults >= 1
        /\ bpc = "trap" /\ ~stopped => Both

LEMMA FaultCounts == ASSUME faults \in Nat, Fault PROVE faults' = faults + 1 /\ faults' >= 1 /\ kills' = kills
<1>1. faults' = faults + 1 /\ kills' = kills
  BY DEF Fault
<1> QED
  BY <1>1

LEMMA CleanStays == ASSUME TypeOK, CleanSoFar, Next PROVE CleanSoFar'
<1>0. faults \in Nat /\ kills \in Nat
  BY DEF TypeOK, CountTypes
<1>s. StartBoth => Both'
  BY DEF StartBoth, Both, TypeOK, TlsTypes
<1>1. CASE UNCHANGED <<backupVars, started, faults, kills>>
  BY <1>1 DEF CleanSoFar, Both, backupVars
<1>2. CASE BackupBegin
  <2>1. UNCHANGED <<started, faults, kills>>
    BY <1>2 DEF BackupBegin, tlsVars, countVars
  <2>2. Both' = Both
    BY <2>1 DEF Both
  <2> QED
    BY <1>2, <2>1, <2>2 DEF BackupBegin, CleanSoFar
<1>3. CASE BackupStop
  <2>1. CASE bpc = "stop" /\ bpc' = "stop vault" /\ stopped' = TRUE /\ UNCHANGED <<archive, countVars>>
    BY <2>1 DEF CleanSoFar, countVars
  <2>2. CASE bpc = "stop vault" /\ bpc' = "tar" /\ UNCHANGED <<stopped, archive, countVars>>
    BY <2>2 DEF CleanSoFar, countVars
  <2>3. CASE Fault /\ stopped' = TRUE /\ archive' = archive /\ bpc' = "trap" /\ bpc \in {"stop", "stop vault"}
    <3>1. faults' >= 1 /\ kills' = kills
      BY <1>0, <2>3, FaultCounts
    <3> QED
      BY <2>3, <3>1 DEF CleanSoFar
  <2> QED
    BY <1>3, <2>1, <2>2, <2>3 DEF BackupStop
<1>4. CASE BackupTar
  <2>1. CASE UNCHANGED <<faults, kills, stopped>> /\ <<bpc, bpc', archive'>> \in {<<"tar", "tar end", "partial">>, <<"tar end", "start", "whole">>}
    BY <2>1 DEF CleanSoFar
  <2>2. CASE Fault /\ UNCHANGED <<stopped, archive>> /\ bpc' = "trap" /\ bpc \in {"tar", "tar end"}
    <3>1. faults' >= 1 /\ kills' = kills
      BY <1>0, <2>2, FaultCounts
    <3> QED
      BY <2>2, <3>1 DEF CleanSoFar
  <2> QED
    BY <1>4, <2>1, <2>2 DEF BackupTar, countVars
<1>5. CASE BackupStart
  <2>1. CASE UNCHANGED <<faults, kills, archive>> /\ bpc = "start" /\ bpc' = "health" /\ StartBoth /\ ~stopped'
    BY <1>s, <2>1 DEF CleanSoFar
  <2>2. CASE Fault /\ UNCHANGED <<stopped, archive>> /\ bpc' = "trap" /\ bpc = "start"
    <3>1. faults' >= 1 /\ kills' = kills
      BY <1>0, <2>2, FaultCounts
    <3> QED
      BY <2>2, <3>1 DEF CleanSoFar
  <2> QED
    BY <1>5, <2>1, <2>2 DEF BackupStart, countVars
<1>6. CASE BackupHealth
  <2>1. UNCHANGED <<started, stopped, archive, faults, kills>> /\ bpc = "health" /\ bpc' \in {"idle", "trap"}
    BY <1>6 DEF BackupHealth, tlsVars, countVars
  <2>2. Both' = Both
    BY <2>1 DEF Both
  <2> QED
    BY <2>1, <2>2 DEF CleanSoFar
<1>7. CASE BackupTrap
  <2>0. bpc = "trap" /\ bpc' = "idle" /\ archive' # "partial"
    BY <1>7 DEF BackupTrap
  <2>1. CASE stopped /\ StartBoth /\ UNCHANGED countVars
    BY <1>s, <2>0, <2>1 DEF CleanSoFar, countVars
  <2>2. CASE ~stopped /\ UNCHANGED <<started, countVars>>
    <3>1. Both' = Both /\ UNCHANGED <<faults, kills>>
      BY <2>2 DEF Both, countVars
    <3> QED
      BY <2>0, <2>2, <3>1 DEF CleanSoFar
  <2>3. CASE stopped /\ UNCHANGED started /\ Fault
    <3>1. (kills = 0 => ~(faults' <= 1)) /\ kills' = kills
      <4>1. kills = 0 => faults >= 1
        BY <2>0, <2>3 DEF CleanSoFar
      <4> QED
        BY <1>0, <2>3, <4>1, FaultCounts
    <3> QED
      BY <2>0, <2>3, <3>1 DEF CleanSoFar
  <2> QED
    BY <1>7, <2>1, <2>2, <2>3 DEF BackupTrap
<1>8. CASE KillBackup
  <2>1. kills' # 0
    BY <1>0, <1>8 DEF KillBackup
  <2> QED
    BY <2>1 DEF CleanSoFar
<1>9. CASE Reboot
  <2>1. CASE bpc = "idle"
    <3>1. Both' = Both /\ UNCHANGED <<bpc, stopped, archive>> /\ faults' = faults + 1 /\ kills' = kills
      <4>1. UNCHANGED <<started, bpc, stopped, archive>> /\ faults' = faults + 1 /\ kills' = kills + 0
        BY <1>9, <2>1 DEF Reboot
      <4> QED
        BY <1>0, <4>1 DEF Both
    <3> QED
      BY <1>0, <2>1, <3>1 DEF CleanSoFar
  <2>2. CASE bpc # "idle"
    <3>1. kills' # 0
      <4>1. kills' = kills + 1
        BY <1>9, <2>2 DEF Reboot
      <4> QED
        BY <1>0, <4>1
    <3> QED
      BY <3>1 DEF CleanSoFar
  <2> QED
    BY <2>1, <2>2
<1>10. CASE Deploy
  <2>1. UNCHANGED <<bpc, stopped, archive, faults, kills>> /\ StartBoth
    BY <1>10 DEF Deploy, backupVars
  <2> QED
    BY <1>s, <2>1 DEF CleanSoFar
<1>11. CASE ApplyFault \/ Sign
  <2>1. UNCHANGED <<bpc, stopped, archive, started, kills>> /\ (faults' = faults \/ faults' = faults + 1)
    BY <1>11 DEF ApplyFault, Sign, Fault, tlsVars, backupVars, countVars
  <2>2. Both' = Both
    BY <2>1 DEF Both
  <2>3. (faults' <= 1 => faults <= 1) /\ (faults >= 1 => faults' >= 1)
    BY <1>0, <2>1
  <2> QED
    BY <2>1, <2>2, <2>3 DEF CleanSoFar
<1>12. CASE VaultBoots \/ Unseal \/ PuppetBegin \/ RenewHalf \/ BecomesDue \/ ApplyLock
  BY <1>1, <1>12 DEF VaultBoots, Unseal, PuppetBegin, RenewHalf, BecomesDue, ApplyLock, Renewing,
       tlsVars, countVars
<1>13. CASE PuppetStep
  BY <1>1, <1>13 DEF PuppetStep, RenewOther, NothingToRenew, Guard, ApplyVault, ApplyIpa,
       ApplyOpenvox, RestartOpenvox, Poll, tlsVars, countVars
<1>14. CASE DeployEnd \/ EnrollBegin \/ EnrollTimeout \/ CleanRequest \/ EnrollRuntime
            \/ EnrollToken \/ Submit \/ Catalog \/ EnrollEnd
  BY <1>1, <1>14 DEF DeployEnd, EnrollBegin, EnrollTimeout, CleanRequest, EnrollRuntime,
       EnrollToken, Submit, Catalog, EnrollEnd, tlsVars, countVars
<1> QED
  BY <1>2, <1>3, <1>4, <1>5, <1>6, <1>7, <1>8, <1>9, <1>10, <1>11, <1>12, <1>13, <1>14
     DEF Next, BackupStep, EnrollStep

\* For any number of faults of the others, a backup that nobody killed leaves no half archive,
\* and one failing command does not make it leave Vault or the unsealer stopped.
THEOREM BackupsEndClean == Spec => []BackupEndsClean
<1>1. Init => CleanSoFar
  BY DEF Init, CleanSoFar, Both
<1>2. TypeOK /\ CleanSoFar /\ [Next]_vars => CleanSoFar'
  <2> SUFFICES ASSUME TypeOK, CleanSoFar, [Next]_vars PROVE CleanSoFar'
    OBVIOUS
  <2>1. CASE UNCHANGED vars
    <3>1. UNCHANGED <<started, bpc, stopped, archive, faults, kills>>
      BY <2>1 DEF vars, tlsVars, backupVars, countVars
    <3> QED
      BY <3>1 DEF CleanSoFar, Both
  <2> QED
    BY <2>1, CleanStays
<1>3. CleanSoFar => BackupEndsClean
  BY DEF CleanSoFar, BackupEndsClean, Both
<1> QED
  BY TypeCorrect, <1>1, <1>2, <1>3, PTL DEF Spec
===============================================================================
