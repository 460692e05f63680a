---------------------------- MODULE UpdateProofs ----------------------------
(***************************************************************************)
(* Theorems about SelfUpdate, for every set of versions and architectures, *)
(* any number of uploads and of faults: the binary at destPath is only     *)
(* ever replaced as a whole, by one that was offered for this machine.     *)
(***************************************************************************)
EXTENDS SelfUpdate, TLAPS

USE SelfUpdateAssumption

-----------------------------------------------------------------------------
(* The inductive invariant. *)

\* Where checkOnce is past the choice of the assets, past the first download, past Verify.
Chosen == {"archive", "sums", "verify", "create", "write", "close", "chmod", "rename", "exec"}
Downloaded == Chosen \ {"archive"}
Verified == Downloaded \ {"sums", "verify"}

\* A chosen release has an archive for this machine, and keeps having one: assets are only
\* replaced by later builds.
ChoiceValid ==
    pc \in Chosen => rel # Dev /\ GoArch \in Archs /\ assets[rel][GoArch] # 0

\* What was downloaded was offered, or is damaged; what passed verifySHA256 is not damaged.
ArchiveOffered ==
    /\ pc \in Downloaded => archive \in Offered \cup {Garbage}
    /\ pc \in Verified => archive \in Offered

\* os.Rename moves a complete, executable file.
TempComplete == pc = "rename" => tmp = "exec"

\* The file at destPath and the image are whole binaries that were offered.
BinariesOffered == dest \in Offered /\ running \in Offered

UInv == TypeOK /\ ChoiceValid /\ ArchiveOffered /\ TempComplete /\ BinariesOffered

\* Garbage is no binary.
LEMMA GarbageNotOffered == Garbage \notin Offered
  BY DEF Garbage, Offered, Binaries

LEMMA InitUInv == Init => UInv
<1> SUFFICES ASSUME Init PROVE UInv
  OBVIOUS
<1>1. running \in Binaries
  BY DEF Init, Binaries, Dev
<1>2. assets \in [Nums \ {Dev} -> [AssetNames -> 0 .. MaxBuild]]
  BY DEF Init
<1>3. pc \in {"check", "off"}
  BY DEF Init, Start
<1>4. TypeOK
  BY <1>1, <1>2, <1>3 DEF Init, TypeOK, Steps, Dev, Garbage
<1>5. running \in Offered
  BY <1>1 DEF Init, Offered, Dev, AssetNames
<1> QED
  BY <1>3, <1>4, <1>5 DEF Init, UInv, ChoiceValid, ArchiveOffered, TempComplete, BinariesOffered,
     Chosen, Downloaded, Verified

\* Nothing is taken back: a step that leaves the assets alone, or uploads one, keeps what is offered.
LEMMA OfferedGrows ==
  ASSUME TypeOK, UNCHANGED assets \/ \E n \in Nums \ {Dev} : \E a \in AssetNames : Upload(n, a)
  PROVE  Offered \subseteq Offered' /\ \A n \in Nums \ {Dev} : GoArch \in Archs /\ assets[n][GoArch] # 0 => assets'[n][GoArch] # 0
<1>1. CASE UNCHANGED assets
  BY <1>1 DEF Offered
<1>2. ASSUME NEW n \in Nums \ {Dev}, NEW a \in AssetNames, Upload(n, a)
      PROVE  \A m \in Nums \ {Dev} : \A b \in AssetNames :
                /\ assets[m][b] \in Nat /\ assets'[m][b] \in Nat
                /\ assets[m][b] <= assets'[m][b]
  BY <1>2 DEF Upload, TypeOK
<1>3. ASSUME \A m \in Nums \ {Dev} : \A b \in AssetNames :
                /\ assets[m][b] \in Nat /\ assets'[m][b] \in Nat
                /\ assets[m][b] <= assets'[m][b]
      PROVE  Offered \subseteq Offered' /\ \A n \in Nums \ {Dev} : GoArch \in Archs /\ assets[n][GoArch] # 0 => assets'[n][GoArch] # 0
  <2>1. \A n \in Nums \ {Dev} : GoArch \in Archs => 
                /\ assets[n][GoArch] \in Nat /\ assets'[n][GoArch] \in Nat
                /\ assets[n][GoArch] <= assets'[n][GoArch]
    BY <1>3 DEF AssetNames
  <2>2. \A b \in Binaries : b.num \in Nums /\ b.build \in Nat
    BY DEF Binaries
  <2>3. ASSUME NEW b \in Offered PROVE b \in Offered'
    <3>1. b \in Binaries /\ b.arch = GoArch /\ b.num \in Nums /\ b.build \in Nat
      BY <2>2 DEF Offered
    <3>2. CASE b.num = Dev \/ GoArch \notin Archs
      BY <3>1, <3>2 DEF Offered
    <3>3. CASE b.num \in Nums \ {Dev} /\ GoArch \in Archs
      <4>1. b.build <= assets[b.num][GoArch]
        BY <3>3 DEF Offered
      <4>2. b.build <= assets'[b.num][GoArch]
        <5>1. \A i, j, k \in Nat : i <= j /\ j <= k => i <= k
          OBVIOUS
        <5>2. PICK n \in Nums \ {Dev} : n = b.num
          BY <3>3
        <5>3. /\ assets[n][GoArch] \in Nat /\ assets'[n][GoArch] \in Nat
              /\ assets[n][GoArch] <= assets'[n][GoArch]
          BY <2>1, <3>3
        <5> QED
          BY <3>1, <4>1, <5>1, <5>2, <5>3
      <4> QED
        BY <3>1, <3>3, <4>2 DEF Offered
    <3> QED
      BY <3>1, <3>2, <3>3
  <2>4. ASSUME NEW n \in Nums \ {Dev}, GoArch \in Archs, assets[n][GoArch] # 0
        PROVE  assets'[n][GoArch] # 0
    BY <2>1, <2>4
  <2> QED
    BY <2>3, <2>4
<1> QED
  BY <1>1, <1>2, <1>3

\* Each step preserves the types: one step per action.
LEMMA NextTypeOK == UInv /\ [Next]_vars => TypeOK'
<1> SUFFICES ASSUME UInv, [Next]_vars PROVE TypeOK'
  OBVIOUS
<1>0. TypeOK
  BY DEF UInv
<1> USE <1>0 DEF TypeOK
<1>1. ASSUME NEW n \in Nums \ {Dev}, MarkLatest(n)
      PROVE  TypeOK'
  BY <1>1 DEF MarkLatest, checkVars
<1>2. ASSUME NEW n \in Nums \ {Dev}, NEW a \in AssetNames, Upload(n, a)
      PROVE  TypeOK'
  BY <1>2 DEF Upload, checkVars
<1>3. ASSUME Return
      PROVE  /\ pc' \in Steps /\ rel' \in Nums \cup {Dev}
             /\ archive' \in Binaries \cup {Garbage} /\ sums' \in 0 .. MaxBuild
  BY <1>3 DEF Return, Steps
<1>4. ASSUME Fault PROVE faults' \in 0 .. MaxFaults
  BY <1>4 DEF Fault
<1>5. CASE Tick
  BY <1>5 DEF Tick, Steps
<1>6. CASE FetchLatestRelease
  BY <1>3, <1>6 DEF FetchLatestRelease, Steps
<1>7. CASE DownloadArchive
  <2>1. archive' \in Binaries \cup {Garbage}
    <3>1. ASSUME archive' = [num |-> rel, build |-> assets[rel][GoArch], arch |-> GoArch]
          PROVE  archive' \in Binaries
      <4>1. rel \in Nums \ {Dev} /\ GoArch \in AssetNames /\ assets[rel][GoArch] # 0
        BY <1>7 DEF UInv, ChoiceValid, Chosen, DownloadArchive, At, AssetNames
      <4>2. assets[rel][GoArch] \in 1 .. MaxBuild
        BY <4>1
      <4> QED
        BY <3>1, <4>1, <4>2 DEF Binaries
    <3> QED
      BY <1>7, <3>1 DEF DownloadArchive
  <2> QED
    BY <1>4, <1>7, <2>1 DEF DownloadArchive, Steps
<1>8. CASE DownloadChecksums
  <2>1. sums' \in 0 .. MaxBuild
    <3>1. rel \in Nums \ {Dev} /\ Checksums \in AssetNames
      BY <1>8 DEF UInv, ChoiceValid, Chosen, DownloadChecksums, At, AssetNames
    <3> QED
      BY <1>8, <3>1 DEF DownloadChecksums
  <2> QED
    BY <1>4, <1>8, <2>1 DEF DownloadChecksums, Steps
<1>9. CASE RequestErr
  BY <1>3, <1>4, <1>9 DEF RequestErr
<1>10. CASE Verify
  BY <1>3, <1>10 DEF Verify, Steps
<1>11. CASE VerifyErr
  BY <1>3, <1>4, <1>11 DEF VerifyErr
<1>12. CASE CreateTemp \/ WriteTemp \/ CloseTemp \/ Chmod
  BY <1>12 DEF CreateTemp, WriteTemp, CloseTemp, Chmod, Advance, Steps
<1>13. CASE Rename
  BY <1>13 DEF Rename, Steps
<1>14. CASE ReplaceErr
  BY <1>3, <1>4, <1>14 DEF ReplaceErr
<1>15. ASSUME Boot, UNCHANGED <<assets, latest, tmp, dest, faults>>
       PROVE  TypeOK'
  BY <1>15 DEF Boot, Start, Steps
<1>16. CASE ExecSelf \/ Launch
  BY <1>15, <1>16 DEF ExecSelf, Launch
<1>17. CASE ExecSelfErr
  BY <1>3, <1>4, <1>17 DEF ExecSelfErr
<1>18. CASE Stop
  BY <1>18 DEF Stop, checkVars
<1>19. CASE Exit \/ Crash
  BY <1>4, <1>19 DEF Exit, Crash, Gone, Steps
<1>20. CASE UNCHANGED vars
  BY <1>20 DEF vars, checkVars
<1> QED
  BY <1>1, <1>2, <1>5, <1>6, <1>7, <1>8, <1>9, <1>10, <1>11, <1>12, <1>13, <1>14, <1>16, <1>17,
     <1>18, <1>19, <1>20 DEF Next, Publisher, CheckStep

\* Each step preserves the rest of the invariant.  What is offered only grows, so that what was
\* chosen, downloaded and installed stays offered; the steps of checkOnce establish each part
\* where they move past its point.
LEMMA NextUInv == UInv /\ [Next]_vars => UInv'
<1> SUFFICES ASSUME UInv, [Next]_vars PROVE UInv'
  OBVIOUS
<1>0. TypeOK /\ TypeOK'
  BY NextTypeOK DEF UInv
<1>a. UNCHANGED assets \/ \E n \in Nums \ {Dev} : \E a \in AssetNames : Upload(n, a)
  BY DEF Next, Publisher, MarkLatest, CheckStep, Tick, FetchLatestRelease, DownloadArchive,
     DownloadChecksums, RequestErr, Verify, VerifyErr, CreateTemp, WriteTemp, CloseTemp, Chmod,
     Advance, Rename, ReplaceErr, ExecSelf, ExecSelfErr, Stop, Exit, Crash, Gone, Launch, vars
<1>b. /\ Offered \subseteq Offered'
      /\ \A n \in Nums \ {Dev} : GoArch \in Archs /\ assets[n][GoArch] # 0 => assets'[n][GoArch] # 0
  BY <1>0, <1>a, OfferedGrows
<1> DEFINE Rest == ChoiceValid /\ ArchiveOffered /\ TempComplete /\ BinariesOffered
<1> SUFFICES Rest'
  BY <1>0 DEF UInv
<1>c. Rest
  BY DEF UInv
\* Steps that leave the position and what belongs to it alone.
<1>1. ASSUME UNCHANGED <<pc, rel, archive, tmp, dest, running>> PROVE Rest'
  BY <1>0, <1>1, <1>b, <1>c DEF ChoiceValid, ArchiveOffered, TempComplete, BinariesOffered, TypeOK
\* Steps that end the check, and leave the file and the image alone.
<1>2. ASSUME pc' \in {"off", "idle", "check"}, dest' = dest, running' = running PROVE Rest'
  BY <1>2, <1>b, <1>c DEF ChoiceValid, ArchiveOffered, TempComplete, BinariesOffered,
     Chosen, Downloaded, Verified
<1>3. CASE Publisher \/ Stop
  BY <1>1, <1>3 DEF Publisher, MarkLatest, Upload, Stop, checkVars
<1>4. CASE Tick \/ RequestErr \/ VerifyErr \/ ReplaceErr \/ ExecSelfErr \/ Exit \/ Crash
  BY <1>2, <1>4 DEF Tick, RequestErr, VerifyErr, ReplaceErr, ExecSelfErr, Exit, Crash, Gone, Return
<1>5. CASE FetchLatestRelease
  <2>1. CASE pc' = "idle"
    BY <1>2, <1>5, <2>1 DEF FetchLatestRelease
  <2>2. CASE pc' # "idle"
    <3>1. pc' = "archive" /\ rel' = latest /\ GoArch \in Archs /\ assets'[latest][GoArch] # 0
      BY <1>5, <2>2 DEF FetchLatestRelease, Return
    <3>2. dest' = dest /\ running' = running /\ latest # Dev
      BY <1>0, <1>5 DEF FetchLatestRelease, TypeOK
    <3> QED
      BY <1>b, <1>c, <3>1, <3>2 DEF ChoiceValid, ArchiveOffered, TempComplete, BinariesOffered,
         Chosen, Downloaded, Verified
  <2> QED
    BY <2>1, <2>2
<1>6. CASE DownloadArchive
  <2>1. rel \in Nums \ {Dev} /\ GoArch \in Archs /\ assets[rel][GoArch] # 0
    BY <1>0, <1>6, <1>c DEF DownloadArchive, At, ChoiceValid, Chosen, TypeOK
  <2>2. archive' \in Offered' \cup {Garbage}
    <3>1. CASE archive' = [num |-> rel, build |-> assets[rel][GoArch], arch |-> GoArch]
      <4>1. archive'.num = rel /\ archive'.build = assets[rel][GoArch] /\ archive'.arch = GoArch
        BY <3>1
      <4>2. assets[rel][GoArch] \in 1 .. MaxBuild
        BY <1>0, <2>1 DEF TypeOK, AssetNames
      <4>3. archive' \in Binaries
        BY <3>1, <2>1, <4>2 DEF Binaries
      <4>4. archive'.build <= IF archive'.num = Dev \/ GoArch \notin Archs
                              THEN 1 ELSE assets[archive'.num][GoArch]
        BY <2>1, <4>1, <4>2
      <4>5. archive' \in Offered
        BY <4>1, <4>3, <4>4 DEF Offered
      <4> QED
        BY <4>5, <1>b
    <3> QED
      BY <1>6, <3>1 DEF DownloadArchive
  <2>3. /\ pc' = "sums" /\ rel' = rel /\ assets' = assets
        /\ dest' = dest /\ running' = running
    BY <1>6 DEF DownloadArchive
  <2> QED
    BY <1>b, <1>c, <2>1, <2>2, <2>3 DEF ChoiceValid, ArchiveOffered, TempComplete, BinariesOffered,
       Chosen, Downloaded, Verified
<1>7. CASE DownloadChecksums
  BY <1>0, <1>7, <1>b, <1>c DEF DownloadChecksums, At, ChoiceValid, ArchiveOffered, TempComplete,
     BinariesOffered, Chosen, Downloaded, Verified, TypeOK
<1>8. CASE Verify
  <2>1. CASE verifySHA256(archive, sums)
    <3>1. archive \in Offered
      BY <1>8, <1>c, <2>1 DEF Verify, At, ArchiveOffered, Chosen, Downloaded, verifySHA256
    <3>2. /\ pc = "verify" /\ pc' = "create" /\ rel' = rel /\ archive' = archive
          /\ assets' = assets /\ dest' = dest /\ running' = running
      BY <1>8, <2>1 DEF Verify, At
    <3> QED
      BY <1>b, <1>c, <3>1, <3>2 DEF ChoiceValid, ArchiveOffered, TempComplete, BinariesOffered,
         Chosen, Downloaded, Verified
  <2>2. CASE ~verifySHA256(archive, sums)
    BY <1>2, <1>8, <2>2 DEF Verify, Return
  <2> QED
    BY <2>1, <2>2
<1>9. CASE CreateTemp \/ WriteTemp \/ CloseTemp \/ Chmod
  <2>1. /\ pc \in Verified /\ pc' \in Verified
        /\ pc' = "rename" => tmp' = "exec"
        /\ UNCHANGED <<assets, rel, archive, dest, running>>
    BY <1>9 DEF CreateTemp, WriteTemp, CloseTemp, Chmod, Advance, At, Chosen, Downloaded, Verified
  <2>2. pc \in Chosen
    BY <2>1 DEF Verified, Downloaded
  <2> QED
    BY <1>b, <1>c, <2>1, <2>2 DEF ChoiceValid, ArchiveOffered, TempComplete, BinariesOffered
<1>10. CASE Rename
  <2>1. /\ pc = "rename" /\ pc' = "exec" /\ dest' = archive
        /\ UNCHANGED <<assets, rel, archive, running>>
    BY <1>10, <1>c DEF Rename, At, TempComplete
  <2> QED
    BY <1>b, <1>c, <2>1 DEF ChoiceValid, ArchiveOffered, TempComplete, BinariesOffered,
       Chosen, Downloaded, Verified
<1>11. CASE ExecSelf \/ Launch
  <2>1. pc' \in {"check", "off"} /\ running' = dest /\ dest' = dest
    BY <1>11 DEF ExecSelf, Launch, Boot, Start
  <2> QED
    BY <1>b, <1>c, <2>1 DEF ChoiceValid, ArchiveOffered, TempComplete, BinariesOffered,
       Chosen, Downloaded, Verified
<1>12. CASE UNCHANGED vars
  BY <1>1, <1>12 DEF vars, checkVars
<1> QED
  BY <1>3, <1>4, <1>5, <1>6, <1>7, <1>8, <1>9, <1>10, <1>11, <1>12 DEF Next, CheckStep

\* What the self-update does to the binary, for every publisher, fault, stop and crash: the whole
\* inductive invariant.
THEOREM UpdateInvariance == Spec => []UInv
<1>1. UInv /\ [Next]_vars => UInv'
  BY NextUInv
<1> QED
  BY InitUInv, <1>1, PTL DEF Spec

\* The state keeps its types, for every set of versions and any bounds.
THEOREM UpdateTypeCorrect == Spec => []TypeOK
<1>1. UInv => TypeOK
  BY DEF UInv
<1> QED
  BY UpdateInvariance, <1>1, PTL

\* replaceBinary is atomic: destPath and the image hold whole offered binaries, whatever fails,
\* crashes, stops or is published in between.
THEOREM UpdateIsAtomic == Spec => ImplementsAtomicUpdate
<1>1. Init => Abstract!Init
  <2> SUFFICES ASSUME Init PROVE dest = running /\ dest \in Offered
    BY DEF Abstract!Init
  <2> QED
    BY InitUInv DEF Init, UInv, BinariesOffered
<1>2. UInv /\ [Next]_vars => [Abstract!Next]_Abstract!auVars
  <2> SUFFICES ASSUME UInv, Next
               PROVE  Abstract!Next \/ UNCHANGED <<Offered, dest, running>>
    BY DEF vars, checkVars, Abstract!auVars, Offered
  <2>0. TypeOK
    BY DEF UInv
  <2>1. ASSUME UNCHANGED <<assets, dest, running>> PROVE UNCHANGED <<Offered, dest, running>>
    BY <2>1 DEF Offered
  <2>2. ASSUME NEW n \in Nums \ {Dev}, NEW a \in AssetNames, Upload(n, a) PROVE Abstract!Offer
    <3>1. Offered \subseteq Offered'
      BY <2>0, <2>2, OfferedGrows
    <3> QED
      BY <2>2, <3>1 DEF Upload, Abstract!Offer
  <2>3. CASE Rename
    <3>1. dest' = archive /\ archive \in Offered /\ UNCHANGED <<assets, running>>
      BY <2>3 DEF UInv, Rename, At, TempComplete, ArchiveOffered, Chosen, Downloaded, Verified
    <3>2. UNCHANGED Offered
      BY <3>1 DEF Offered
    <3> QED
      BY <3>1, <3>2 DEF Abstract!Next, Abstract!Replace
  <2>4. CASE ExecSelf \/ Launch
    <3>1. running' = dest /\ UNCHANGED <<assets, dest>>
      BY <2>4 DEF ExecSelf, Launch, Boot
    <3>2. UNCHANGED Offered
      BY <3>1 DEF Offered
    <3> QED
      BY <3>1, <3>2 DEF Abstract!Next, Abstract!Boot
  <2>5. CASE Publisher
    BY <2>1, <2>2, <2>5 DEF Publisher, MarkLatest, Abstract!Next
  <2>6. CASE Tick \/ FetchLatestRelease \/ DownloadArchive \/ DownloadChecksums \/ RequestErr
             \/ Verify \/ VerifyErr \/ CreateTemp \/ WriteTemp \/ CloseTemp \/ Chmod
             \/ ReplaceErr \/ ExecSelfErr
    BY <2>1, <2>6 DEF Tick, FetchLatestRelease, DownloadArchive, DownloadChecksums, RequestErr,
       Verify, VerifyErr, CreateTemp, WriteTemp, CloseTemp, Chmod, Advance, ReplaceErr, ExecSelfErr
  <2>7. CASE Stop \/ Exit \/ Crash
    BY <2>1, <2>7 DEF Stop, Exit, Crash, Gone
  <2> QED
    BY <2>3, <2>4, <2>5, <2>6, <2>7 DEF Next, CheckStep
<1> QED
  BY <1>1, <1>2, UpdateInvariance, PTL DEF Spec, ImplementsAtomicUpdate, Abstract!Spec
=============================================================================
