-------------------------- MODULE SELinuxLabelTest --------------------------
(***************************************************************************)
(* The SELinux labelling test (src/tests/securityselinuxlabeltest.c).      *)
(*                                                                         *)
(* mymain sets up the security manager and runs testSELinuxLabeling for    *)
(* the three data sets in order.  Each run loads the list of files from    *)
(* its data file, creates them, loads the domain, labels it, checks the    *)
(* labels and, at its cleanup label, unlinks the files again.  The disk    *)
(* persists from one test to the next.                                     *)
(*                                                                         *)
(* The file names and contexts are abstracted to <<test, k>>, the k-th     *)
(* entry of the test's data file; how many entries a data file has is a    *)
(* nondeterministic choice up to MaxLines.  Every library call that can    *)
(* fail (allocation, fopen, fgets, virFileTouch, parsing, labelling,       *)
(* getfilecon) fails nondeterministically.  unlink fails exactly when the  *)
(* file is not on disk.                                                    *)
(***************************************************************************)
EXTENDS Integers, Sequences

CONSTANT MaxLines      \* bound on the entries of one data file

ASSUME MaxLinesAssumption == MaxLines \in Nat

(* The data sets of mymain's DO_TEST_LABELING calls, in order. *)
TestNames == <<"disks", "kernel", "chardev">>

NTests == Len(TestNames)

Files == (1 .. NTests) \X (1 .. MaxLines)

VARIABLES
    phase,     \* mymain: "setup", "run" or "exit"
    cur,       \* the index of the running DO_TEST_LABELING
    pc,        \* the point of testSELinuxLabeling
    lines,     \* the entries of the current data file
    nfiles,    \* nfiles: the entries loaded so far
    deleted,   \* the result of the last testSELinuxDeleteDisks was 0
    ret,       \* testSELinuxLabeling's ret
    mainRet,   \* mymain's ret
    disk       \* the files on disk

vars == <<phase, cur, pc, lines, nfiles, deleted, ret, mainRet, disk>>

(* The files of the current test that files[0 .. n-1] names. *)
Listed(n) == {<<cur, k>> : k \in 1 .. n}

TypeOK ==
    /\ phase \in {"setup", "run", "exit"}
    /\ cur \in 1 .. NTests
    /\ pc \in {"load", "loadLine", "create", "loadDef", "label", "check",
               "cleanup", "deleted"}
    /\ lines \in 0 .. MaxLines
    /\ nfiles \in 0 .. lines
    /\ deleted \in BOOLEAN
    /\ ret \in {-1, 0}
    /\ mainRet \in {-1, 0}
    /\ disk \subseteq Files

Init ==
    /\ phase = "setup"
    /\ cur = 1
    /\ pc = "load"
    /\ lines = 0
    /\ nfiles = 0
    /\ deleted = FALSE
    /\ ret = -1
    /\ mainRet = 0
    /\ disk = {}

Running(p) == phase = "run" /\ pc = p

(* mymain: the security manager, the capabilities and the XML options are  *)
(* created, or the program exits (EXIT_AM_SKIP or EXIT_FAILURE).          *)
MainSetup ==
    /\ phase = "setup"
    /\ phase' \in {"run", "exit"}
    /\ UNCHANGED <<cur, pc, lines, nfiles, deleted, ret, mainRet, disk>>

(* testSELinuxLoadFileList up to the loop: *files = NULL, *nfiles = 0;    *)
(* the path is formatted and the data file opened, or that fails.         *)
LoadFileList ==
    /\ Running("load")
    /\ nfiles' = 0
    /\ \/ /\ pc' = "cleanup"
          /\ UNCHANGED lines
       \/ /\ pc' = "loadLine"
          /\ lines' \in 0 .. MaxLines
    /\ UNCHANGED <<phase, cur, deleted, ret, mainRet, disk>>

(* One iteration of the while (!feof(fp)) loop.  fgets at the end of the  *)
(* file breaks out with ret = 0; a line is parsed and appended to files;  *)
(* VIR_ALLOC_N, fgets, virAsprintf, VIR_STRDUP or VIR_EXPAND_N may fail,  *)
(* and the function returns -1 with the entries loaded so far.            *)
LoadLine ==
    /\ Running("loadLine")
    /\ \/ /\ nfiles = lines
          /\ pc' = "create"
          /\ UNCHANGED nfiles
       \/ /\ nfiles < lines
          /\ nfiles' = nfiles + 1
          /\ UNCHANGED pc
       \/ /\ pc' = "cleanup"
          /\ UNCHANGED nfiles
    /\ UNCHANGED <<phase, cur, lines, deleted, ret, mainRet, disk>>

(* A mutant: the touch loop stops one file short (i + 1 < nfiles). *)
CreateDisksShort ==
    /\ Running("create")
    /\ \/ /\ pc' = "cleanup"
          /\ UNCHANGED disk
       \/ \E k \in 0 .. nfiles :
            /\ disk' = disk \cup Listed(k - 1)
            /\ pc' = IF k = nfiles THEN "loadDef" ELSE "cleanup"
    /\ UNCHANGED <<phase, cur, lines, nfiles, deleted, ret, mainRet>>

(* testSELinuxCreateDisks: virFileMakePath fails, or the files are touched *)
(* in order until virFileTouch fails on files[k] or all exist.            *)
CreateDisks ==
    /\ Running("create")
    /\ \/ /\ pc' = "cleanup"
          /\ UNCHANGED disk
       \/ \E k \in 0 .. nfiles :
            /\ disk' = disk \cup Listed(k)
            /\ pc' = IF k = nfiles THEN "loadDef" ELSE "cleanup"
    /\ UNCHANGED <<phase, cur, lines, nfiles, deleted, ret, mainRet>>

(* testSELinuxLoadDef returns the parsed domain, or NULL. *)
LoadDef ==
    /\ Running("loadDef")
    /\ pc' \in {"label", "cleanup"}
    /\ UNCHANGED <<phase, cur, lines, nfiles, deleted, ret, mainRet, disk>>

(* virSecurityManagerSetAllLabel labels the domain, or fails. *)
SetAllLabel ==
    /\ Running("label")
    /\ pc' \in {"check", "cleanup"}
    /\ UNCHANGED <<phase, cur, lines, nfiles, deleted, ret, mainRet, disk>>

(* testSELinuxCheckLabels: every label matches and ret = 0, or a          *)
(* getfilecon fails or a context differs.                                 *)
CheckLabels ==
    /\ Running("check")
    /\ pc' = "cleanup"
    /\ ret' \in {-1, 0}
    /\ UNCHANGED <<phase, cur, lines, nfiles, deleted, mainRet, disk>>

(* A mutant: the unlink loop stops one file short (i + 1 < nfiles). *)
DeleteDisksShort ==
    /\ Running("cleanup")
    /\ LET gone == {k \in 1 .. nfiles - 1 :
                       \A j \in 1 .. k : <<cur, j>> \in disk}
       IN  /\ disk' = disk \ {<<cur, k>> : k \in gone}
           /\ deleted' = (gone = 1 .. nfiles - 1)
    /\ pc' = "deleted"
    /\ UNCHANGED <<phase, cur, lines, nfiles, ret, mainRet>>

(* testSELinuxDeleteDisks: files[0], files[1], ... are unlinked in order; *)
(* the first that is not on disk makes it return -1.                      *)
DeleteDisks ==
    /\ Running("cleanup")
    /\ LET gone == {k \in 1 .. nfiles : \A j \in 1 .. k : <<cur, j>> \in disk}
       IN  /\ disk' = disk \ {<<cur, k>> : k \in gone}
           /\ deleted' = (gone = 1 .. nfiles)
    /\ pc' = "deleted"
    /\ UNCHANGED <<phase, cur, lines, nfiles, ret, mainRet>>

(* if (testSELinuxDeleteDisks(files, nfiles) < 0) goto cleanup; *)
RetryCleanup ==
    /\ Running("deleted")
    /\ ~deleted
    /\ pc' = "cleanup"
    /\ UNCHANGED <<phase, cur, lines, nfiles, deleted, ret, mainRet, disk>>

(* The rest of the cleanup label frees the domain and the list and        *)
(* returns; DO_TEST_LABELING records a failure in mymain's ret and the    *)
(* next test starts, or mymain returns after the last one.                *)
ReturnFromTest ==
    /\ Running("deleted")
    /\ deleted
    /\ mainRet' = IF ret < 0 THEN -1 ELSE mainRet
    /\ IF cur < NTests
         THEN /\ cur' = cur + 1
              /\ pc' = "load"
              /\ UNCHANGED phase
         ELSE /\ phase' = "exit"
              /\ UNCHANGED <<cur, pc>>
    /\ nfiles' = 0
    /\ lines' = 0
    /\ deleted' = FALSE
    /\ ret' = -1
    /\ UNCHANGED disk

Next ==
    \/ MainSetup
    \/ LoadFileList
    \/ LoadLine
    \/ CreateDisks
    \/ LoadDef
    \/ SetAllLabel
    \/ CheckLabels
    \/ DeleteDisks
    \/ RetryCleanup
    \/ ReturnFromTest

(* The test program is one thread that runs its steps in order. *)
Spec == Init /\ [][Next]_vars /\ WF_vars(Next)

-----------------------------------------------------------------------------
(* A test that has returned has left none of its files on disk: the       *)
(* cleanup label unlinks every file testSELinuxCreateDisks created.       *)
NoStrayFiles ==
    \A f \in disk : f[1] = cur /\ phase = "run"

(* A test whose files were all created returns: once testSELinuxCreateDisks *)
(* has succeeded, the cleanup label's unlink loop succeeds on its first    *)
(* pass, so the goto back to cleanup is never taken.                      *)
CreatedTestReturns ==
    \A c \in 1 .. NTests :
        (phase = "run" /\ cur = c /\ pc = "loadDef") ~> (cur > c \/ phase = "exit")

(* The test program terminates: mymain returns after the three tests.     *)
Terminates == <>(phase = "exit")
=============================================================================
