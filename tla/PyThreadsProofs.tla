--------------------------- MODULE PyThreadsProofs ---------------------------
(***************************************************************************)
(* Proofs about the GIL macros of src/python/libvirt_wrap.h, for any       *)
(* number of Python and callback threads.                                  *)
(***************************************************************************)
EXTENDS PyThreads, TLAPS

(* GILNotLeaked is inductive once it is known that nobody holds a GIL     *)
(* before threads are initialised: the macros then leave `gil` alone.      *)
LInv ==
    /\ TypeOK
    /\ ~initialized => gil = NoThread
    /\ GILNotLeaked

(* With threads initialised from the start, every Python thread inside a  *)
(* call has a saved thread state and every callback an automatic one, so   *)
(* (each kind of thread keeping to its own macros)                         *)
(* neither fatal error is reachable and the GIL follows the Python code.   *)
XInv ==
    /\ TypeOK
    /\ initialized
    /\ Running
    /\ \A t \in Threads : InPython(t) <=> gil = t
    /\ \A t \in PyThreads : pc[t] \in {"py", "c"} /\ save[t] = "tstate"
    /\ \A t \in CbThreads : pc[t] \in {"idle", "callback"}
    /\ \A t \in CbThreads : pc[t] = "callback" => ensured[t]

USE ThreadsAssumption DEF Threads, NoThread, InPython, Running

-----------------------------------------------------------------------------
LEMMA InitLInv == Init => LInv
BY DEF Init, LInv, TypeOK, GILNotLeaked

LEMMA TypeNext == TypeOK /\ [Next]_vars => TypeOK'
<1> SUFFICES ASSUME TypeOK, [Next]_vars PROVE TypeOK'
  OBVIOUS
<1>1. CASE \E t \in Threads : BeginAllowThreads(t)
  BY <1>1 DEF TypeOK, BeginAllowThreads
<1>2. CASE \E t \in Threads : EndAllowThreads(t)
  <2>1. PICK t \in Threads : EndAllowThreads(t)
    BY <1>2
  <2>2. QED
    BY <2>1 DEF TypeOK, EndAllowThreads
<1>3. CASE \E t \in Threads : EnsureThreadState(t)
  <2>1. PICK t \in Threads : EnsureThreadState(t)
    BY <1>3
  <2>2. QED
    BY <2>1 DEF TypeOK, EnsureThreadState
<1>4. CASE \E t \in Threads : ReleaseThreadState(t)
  <2>1. PICK t \in Threads : ReleaseThreadState(t)
    BY <1>4
  <2>2. QED
    BY <2>1 DEF TypeOK, ReleaseThreadState
<1>5. CASE \E t \in Threads : InitThreads(t)
  BY <1>5 DEF TypeOK, InitThreads
<1>6. CASE UNCHANGED vars
  BY <1>6 DEF TypeOK, vars
<1>7. QED
  BY <1>1, <1>2, <1>3, <1>4, <1>5, <1>6 DEF Next

(* For any number of Python and callback threads, every reachable state   *)
(* of the GIL macros is well typed: the GIL is held by a thread or by      *)
(* nobody, and every thread's saved state is one the macros can produce.  *)
THEOREM TypeCorrect == Spec => []TypeOK
<1>1. Init => TypeOK
  BY InitLInv DEF LInv
<1>2. QED
  BY <1>1, TypeNext, PTL DEF Spec

LEMMA NextLInv == LInv /\ [Next]_vars => LInv'
<1> SUFFICES ASSUME LInv, [Next]_vars PROVE LInv'
  OBVIOUS
<1>0. TypeOK'
  BY TypeNext DEF LInv
<1>1. CASE \E t \in Threads : BeginAllowThreads(t)
  BY <1>1 DEF LInv, TypeOK, GILNotLeaked, BeginAllowThreads
<1>2. CASE \E t \in Threads : EndAllowThreads(t)
  <2>1. PICK t \in Threads : EndAllowThreads(t)
    BY <1>2
  <2>2. CASE ~initialized
    BY <2>1, <2>2, <1>0 DEF LInv, TypeOK, GILNotLeaked, EndAllowThreads
  <2>3. CASE initialized
    BY <2>1, <2>3, <1>0 DEF LInv, TypeOK, GILNotLeaked, EndAllowThreads
  <2>4. QED
    BY <2>2, <2>3
<1>3. CASE \E t \in Threads : EnsureThreadState(t)
  <2>1. PICK t \in Threads : EnsureThreadState(t)
    BY <1>3
  <2>2. CASE ~initialized
    BY <2>1, <2>2, <1>0 DEF LInv, TypeOK, GILNotLeaked, EnsureThreadState
  <2>3. CASE initialized
    BY <2>1, <2>3, <1>0 DEF LInv, TypeOK, GILNotLeaked, EnsureThreadState
  <2>4. QED
    BY <2>2, <2>3
<1>4. CASE \E t \in Threads : ReleaseThreadState(t)
  BY <1>4, <1>0 DEF LInv, TypeOK, GILNotLeaked, ReleaseThreadState
<1>5. CASE \E t \in Threads : InitThreads(t)
  BY <1>5, <1>0 DEF LInv, TypeOK, GILNotLeaked, InitThreads
<1>6. CASE UNCHANGED vars
  BY <1>6 DEF LInv, TypeOK, GILNotLeaked, vars
<1>7. QED
  BY <1>1, <1>2, <1>3, <1>4, <1>5, <1>6 DEF Next

(* The GIL is held only by a thread that runs Python code, whenever       *)
(* threads get initialised: no pair of macros leaves it held by a thread  *)
(* that is back in C code.                                                *)
THEOREM GILNeverLeaked == Spec => []GILNotLeaked
<1>1. Spec => []LInv
  BY InitLInv, NextLInv, PTL DEF Spec
<1>2. QED
  BY <1>1, PTL DEF LInv

-----------------------------------------------------------------------------
LEMMA InitXInv == InitAtStart /\ Init => XInv
<1> SUFFICES ASSUME InitAtStart, Init PROVE XInv
  OBVIOUS
<1>1. TypeOK
  BY DEF Init, TypeOK
<1>2. \A t \in Threads : ~InPython(t) /\ gil # t
  BY DEF Init
<1>3. QED
  BY <1>1, <1>2 DEF Init, XInv

LEMMA NextXInv == XInv /\ [Next]_vars => XInv'
<1> SUFFICES ASSUME XInv, [Next]_vars PROVE XInv'
  OBVIOUS
<1>0. TypeOK'
  BY TypeNext DEF XInv
<1>1. CASE \E t \in Threads : BeginAllowThreads(t)
  <2>1. PICK t \in Threads : BeginAllowThreads(t)
    BY <1>1
  <2>2. gil = t
    BY <2>1 DEF XInv, BeginAllowThreads
  <2>3. QED
    BY <2>1, <2>2, <1>0 DEF XInv, TypeOK, BeginAllowThreads
<1>2. CASE \E t \in Threads : EndAllowThreads(t)
  <2>1. PICK t \in Threads : EndAllowThreads(t)
    BY <1>2
  <2>2. t \in PyThreads /\ gil = NoThread /\ gil' = t /\ pc' = [pc EXCEPT ![t] = "py"]
        /\ UNCHANGED <<initialized, save, ensured, fatal>>
    BY <2>1 DEF XInv, TypeOK, EndAllowThreads
  <2>3. \A s \in Threads : ~InPython(s)
    BY <2>2 DEF XInv
  <2>4. QED
    BY <2>2, <2>3, <1>0 DEF XInv, TypeOK
<1>3. CASE \E t \in Threads : EnsureThreadState(t)
  <2>1. PICK t \in Threads : EnsureThreadState(t)
    BY <1>3
  <2>2. t \in CbThreads /\ gil = NoThread /\ gil' = t /\ pc' = [pc EXCEPT ![t] = "callback"]
        /\ ensured' = [ensured EXCEPT ![t] = TRUE]
        /\ UNCHANGED <<initialized, save, fatal>>
    BY <2>1 DEF XInv, TypeOK, EnsureThreadState
  <2>3. \A s \in Threads : ~InPython(s)
    BY <2>2 DEF XInv
  <2>4. QED
    BY <2>2, <2>3, <1>0 DEF XInv, TypeOK
<1>4. CASE \E t \in Threads : ReleaseThreadState(t)
  <2>1. PICK t \in Threads : ReleaseThreadState(t)
    BY <1>4
  <2>2. t \in CbThreads /\ gil = t /\ gil' = NoThread /\ pc' = [pc EXCEPT ![t] = "idle"]
        /\ ensured' = [ensured EXCEPT ![t] = FALSE]
        /\ UNCHANGED <<initialized, save, fatal>>
    BY <2>1 DEF XInv, TypeOK, ReleaseThreadState
  <2>3. QED
    BY <2>2, <1>0 DEF XInv, TypeOK
<1>5. CASE \E t \in Threads : InitThreads(t)
  BY <1>5 DEF XInv, InitThreads
<1>6. CASE UNCHANGED vars
  BY <1>6 DEF XInv, TypeOK, vars
<1>7. QED
  BY <1>1, <1>2, <1>3, <1>4, <1>5, <1>6 DEF Next

(* When threads are initialised before the first libvirt call, the        *)
(* BEGIN/END and ENSURE/RELEASE pairs keep exactly the thread that runs   *)
(* Python code holding the GIL, for any number of threads.                *)
THEOREM GILExclusive == InitAtStart => (Spec => []GILHeldByRunner)
<1> SUFFICES ASSUME InitAtStart PROVE Spec => []GILHeldByRunner
  OBVIOUS
<1>1. Spec => []XInv
  BY InitXInv, NextXInv, PTL DEF Spec
<1>2. QED
  BY <1>1, PTL DEF XInv, GILHeldByRunner

(* When threads are initialised before the first libvirt call, neither    *)
(* PyEval_RestoreThread(NULL) nor a PyGILState_Release without             *)
(* PyGILState_Ensure can happen: both need the initialisation to fall     *)
(* between the two macros of a pair.                                      *)
THEOREM NoFatalWhenInitFirst ==
    InitAtStart => (Spec => [](NoRestoreNull /\ NoReleaseUnensured))
<1> SUFFICES ASSUME InitAtStart PROVE Spec => [](NoRestoreNull /\ NoReleaseUnensured)
  OBVIOUS
<1>1. Spec => []XInv
  BY InitXInv, NextXInv, PTL DEF Spec
<1>2. XInv => NoRestoreNull /\ NoReleaseUnensured
  BY DEF XInv, NoRestoreNull, NoReleaseUnensured
<1>3. QED
  BY <1>1, <1>2, PTL
=============================================================================
