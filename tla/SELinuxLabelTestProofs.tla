----------------------- MODULE SELinuxLabelTestProofs -----------------------
(***************************************************************************)
(* Proofs about the SELinux labelling test, for any size of data file.    *)
(***************************************************************************)
EXTENDS SELinuxLabelTest, TLAPS

(* NoStrayFiles is not inductive: whether the cleanup label's unlink loop *)
(* removes every file depends on which files exist.  They are always a    *)
(* prefix files[0 .. m-1] of the current test's list, because             *)
(* testSELinuxCreateDisks touches the files in order, and the unlink loop *)
(* removes a whole such prefix; so after it the disk is empty.            *)
DiskInv ==
    /\ TypeOK
    /\ \E m \in 0 .. nfiles : disk = Listed(m)
    /\ pc \in {"load", "loadLine"} => disk = {}
    /\ pc = "deleted" => disk = {}
    /\ phase # "run" => disk = {}

USE MaxLinesAssumption

(* mymain runs three data sets. *)
LEMMA ThreeTests == NTests = 3
BY DEF NTests, TestNames

-----------------------------------------------------------------------------
LEMMA TypeNext == TypeOK /\ [Next]_vars => TypeOK'
<1> SUFFICES ASSUME TypeOK, [Next]_vars PROVE TypeOK'
  OBVIOUS
<1>1. CASE MainSetup
  BY <1>1 DEF MainSetup, TypeOK
<1>2. CASE LoadFileList
  BY <1>2 DEF LoadFileList, Running, TypeOK
<1>3. CASE LoadLine
  BY <1>3 DEF LoadLine, Running, TypeOK
<1>4. CASE CreateDisks
  <2>1. Listed(nfiles) \subseteq Files
    BY DEF Listed, Files, TypeOK
  <2>2. QED
    BY <1>4, <2>1 DEF CreateDisks, Running, TypeOK, Listed
<1>5. CASE LoadDef
  BY <1>5 DEF LoadDef, Running, TypeOK
<1>6. CASE SetAllLabel
  BY <1>6 DEF SetAllLabel, Running, TypeOK
<1>7. CASE CheckLabels
  BY <1>7 DEF CheckLabels, Running, TypeOK
<1>8. CASE DeleteDisks
  BY <1>8 DEF DeleteDisks, Running, TypeOK
<1>9. CASE RetryCleanup
  BY <1>9 DEF RetryCleanup, Running, TypeOK
<1>10. CASE ReturnFromTest
  <2>1. /\ mainRet' \in {-1, 0} /\ ret' \in {-1, 0} /\ deleted' \in BOOLEAN
        /\ lines' \in 0 .. MaxLines /\ nfiles' \in 0 .. lines' /\ disk' \subseteq Files
    <3>1. mainRet' \in {-1, 0}
      BY <1>10 DEF ReturnFromTest, TypeOK
    <3>2. disk' \subseteq Files
      BY <1>10 DEF ReturnFromTest, TypeOK
    <3>3. ret' \in {-1, 0}
      BY <1>10 DEF ReturnFromTest
    <3>4. lines' \in 0 .. MaxLines /\ nfiles' \in 0 .. lines'
      BY <1>10 DEF ReturnFromTest
    <3>5. deleted' \in BOOLEAN
      BY <1>10 DEF ReturnFromTest
    <3>6. QED
      BY <3>1, <3>2, <3>3, <3>4, <3>5
  <2>2. CASE cur < NTests
    <3>1. cur' = cur + 1 /\ pc' = "load" /\ phase' = phase
      BY <1>10, <2>2 DEF ReturnFromTest
    <3>2. cur + 1 \in 1 .. NTests
      BY <2>2, ThreeTests DEF TypeOK
    <3>3. QED
      BY <2>1, <3>1, <3>2 DEF TypeOK
  <2>3. CASE ~(cur < NTests)
    <3>1. cur' = cur /\ pc' = pc /\ phase' = "exit"
      BY <1>10, <2>3 DEF ReturnFromTest
    <3>2. QED
      BY <2>1, <3>1 DEF TypeOK
  <2>4. QED
    BY <2>2, <2>3
<1>11. CASE UNCHANGED vars
  BY <1>11 DEF vars, TypeOK
<1>12. QED
  BY <1>1, <1>2, <1>3, <1>4, <1>5, <1>6, <1>7, <1>8, <1>9, <1>10, <1>11
  DEF Next

(* The unlink loop over a disk that holds the prefix files[0 .. m-1]      *)
(* removes exactly that prefix.                                           *)
LEMMA UnlinkPrefix ==
    ASSUME NEW n \in Nat, NEW m \in 0 .. n, NEW c
    PROVE  {k \in 1 .. n : \A j \in 1 .. k : <<c, j>> \in {<<c, i>> : i \in 1 .. m}}
             = 1 .. m
<1>1. ASSUME NEW k \in 1 .. n, \A j \in 1 .. k : <<c, j>> \in {<<c, i>> : i \in 1 .. m}
      PROVE  k \in 1 .. m
  <2>1. <<c, k>> \in {<<c, i>> : i \in 1 .. m}
    BY <1>1
  <2>2. QED
    BY <2>1
<1>2. QED
  BY <1>1

(* Touching files[0 .. k-1] on a disk that holds files[0 .. m-1] leaves  *)
(* a prefix of the list on disk.                                          *)
LEMMA TouchPrefix ==
    ASSUME NEW c, NEW m \in Nat, NEW k \in Nat
    PROVE  \E l \in {m, k} :
              {<<c, i>> : i \in 1 .. m} \cup {<<c, i>> : i \in 1 .. k}
                = {<<c, i>> : i \in 1 .. l}
<1>1. CASE m <= k
  <2>1. {<<c, i>> : i \in 1 .. m} \cup {<<c, i>> : i \in 1 .. k} = {<<c, i>> : i \in 1 .. k}
    BY <1>1
  <2>2. QED
    BY <2>1
<1>2. CASE k < m
  <2>1. {<<c, i>> : i \in 1 .. m} \cup {<<c, i>> : i \in 1 .. k} = {<<c, i>> : i \in 1 .. m}
    BY <1>2
  <2>2. QED
    BY <2>1
<1>3. QED
  BY <1>1, <1>2

LEMMA InitDiskInv == Init => DiskInv
<1> SUFFICES ASSUME Init PROVE DiskInv
  OBVIOUS
<1>1. TypeOK
  <2>1. cur \in 1 .. NTests
    BY ThreeTests DEF Init
  <2>2. ret \in {-1, 0} /\ mainRet \in {-1, 0} /\ lines \in 0 .. MaxLines
        /\ nfiles \in 0 .. lines
    BY DEF Init
  <2>3. disk \subseteq Files
    BY DEF Init
  <2>4. QED
    BY <2>1, <2>2, <2>3 DEF Init, TypeOK
<1>2. disk = Listed(0)
  BY DEF Init, Listed
<1>3. QED
  BY <1>1, <1>2 DEF Init, DiskInv

LEMMA NextDiskInv == DiskInv /\ [Next]_vars => DiskInv'
<1> SUFFICES ASSUME DiskInv, [Next]_vars PROVE DiskInv'
  OBVIOUS
<1>0. TypeOK'
  BY TypeNext DEF DiskInv
<1> PICK m \in 0 .. nfiles : disk = Listed(m)
  BY DEF DiskInv
<1>1. CASE MainSetup
  BY <1>1, <1>0 DEF MainSetup, DiskInv, Listed
<1>2. CASE LoadFileList
  <2>1. disk = {}
    BY <1>2 DEF LoadFileList, Running, DiskInv
  <2>2. disk' = Listed(0)'
    BY <1>2, <2>1 DEF LoadFileList, Listed
  <2>3. QED
    BY <1>2, <2>2, <1>0 DEF LoadFileList, Running, DiskInv
<1>3. CASE LoadLine
  <2>1. m \in 0 .. nfiles'
    BY <1>3 DEF LoadLine, TypeOK, DiskInv
  <2>2. QED
    BY <1>3, <2>1, <1>0 DEF LoadLine, Running, DiskInv, Listed
<1>4. CASE CreateDisks
  <2>1. CASE UNCHANGED disk
    BY <1>4, <2>1, <1>0 DEF CreateDisks, Running, DiskInv, Listed
  <2>2. CASE \E k \in 0 .. nfiles : disk' = disk \cup Listed(k)
                                    /\ pc' = IF k = nfiles THEN "loadDef" ELSE "cleanup"
    <3>1. PICK k \in 0 .. nfiles : disk' = disk \cup Listed(k)
                                    /\ pc' = IF k = nfiles THEN "loadDef" ELSE "cleanup"
      BY <2>2
    <3>2. nfiles \in Nat
      BY DEF DiskInv, TypeOK
    <3>3. PICK l \in {m, k} : disk' = Listed(l)
      BY <3>1, <3>2, TouchPrefix DEF Listed
    <3>4. QED
      BY <1>4, <3>1, <3>3, <1>0 DEF CreateDisks, Running, DiskInv, Listed
  <2>3. QED
    BY <1>4, <2>1, <2>2 DEF CreateDisks
<1>5. CASE LoadDef
  BY <1>5, <1>0 DEF LoadDef, Running, DiskInv, Listed
<1>6. CASE SetAllLabel
  BY <1>6, <1>0 DEF SetAllLabel, Running, DiskInv, Listed
<1>7. CASE CheckLabels
  BY <1>7, <1>0 DEF CheckLabels, Running, DiskInv, Listed
<1>8. CASE DeleteDisks
  <2>1. nfiles \in Nat
    BY DEF DiskInv, TypeOK
  <2>2. {k \in 1 .. nfiles : \A j \in 1 .. k : <<cur, j>> \in disk} = 1 .. m
    BY <2>1, UnlinkPrefix DEF Listed
  <2>3. disk' = {}
    BY <1>8, <2>2 DEF DeleteDisks, Listed
  <2>4. disk' = Listed(0)' /\ 0 \in 0 .. nfiles'
    BY <1>8, <2>1, <2>3 DEF DeleteDisks, Listed
  <2>5. QED
    BY <1>8, <2>3, <2>4, <1>0 DEF DeleteDisks, Running, DiskInv
<1>9. CASE RetryCleanup
  BY <1>9, <1>0 DEF RetryCleanup, Running, DiskInv, Listed
<1>10. CASE ReturnFromTest
  <2>1. disk = {} /\ disk' = {}
    BY <1>10 DEF ReturnFromTest, Running, DiskInv
  <2>2. disk' = Listed(0)'
    BY <2>1 DEF Listed
  <2>3. QED
    BY <1>10, <2>1, <2>2, <1>0 DEF ReturnFromTest, Running, DiskInv, TypeOK
<1>11. CASE UNCHANGED vars
  BY <1>11, <1>0 DEF vars, DiskInv, Listed
<1>12. QED
  BY <1>1, <1>2, <1>3, <1>4, <1>5, <1>6, <1>7, <1>8, <1>9, <1>10, <1>11
  DEF Next

(* No test leaves a file on disk once it has returned, for data files of  *)
(* any length: whatever call fails, testSELinuxCreateDisks only ever      *)
(* leaves a prefix of the list on disk and the cleanup label's unlink     *)
(* loop removes that whole prefix.                                        *)
THEOREM NoStrayFilesHolds == Spec => []NoStrayFiles
<1>1. DiskInv => NoStrayFiles
  <2> SUFFICES ASSUME DiskInv, NEW f \in disk PROVE f[1] = cur /\ phase = "run"
    BY DEF NoStrayFiles
  <2>1. PICK m \in 0 .. nfiles : disk = Listed(m)
    BY DEF DiskInv
  <2>2. f[1] = cur
    BY <2>1 DEF Listed
  <2>3. QED
    BY <2>2 DEF DiskInv
<1>2. Spec => []DiskInv
  BY InitDiskInv, NextDiskInv, PTL DEF Spec
<1>3. QED
  BY <1>1, <1>2, PTL
=============================================================================
