----------------------------- MODULE PyThreads -----------------------------
(***************************************************************************)
(* The GIL macros of the Python bindings (src/python/libvirt_wrap.h).      *)
(*                                                                         *)
(* A Python thread runs Python code holding the GIL, drops it around a     *)
(* blocking libvirt call with LIBVIRT_BEGIN_ALLOW_THREADS and takes it     *)
(* back with LIBVIRT_END_ALLOW_THREADS.  A callback thread is a C thread   *)
(* of libvirt that calls into Python: LIBVIRT_ENSURE_THREAD_STATE makes    *)
(* it hold the GIL, LIBVIRT_RELEASE_THREAD_STATE gives it back.  Each      *)
(* macro of a pair tests PyEval_ThreadsInitialized() on its own.  Before   *)
(* threads are initialised there is no GIL and both macros of a pair do    *)
(* nothing; Python code that starts a thread initialises them.             *)
(*                                                                         *)
(* The CPython calls are modelled by what they do to the GIL:              *)
(*   PyEval_SaveThread       releases the GIL, returns the thread state;   *)
(*   PyEval_RestoreThread(s) Py_FatalError if s is NULL, else waits for    *)
(*                           the GIL and takes it;                         *)
(*   PyGILState_Ensure       waits for the GIL, takes it and gives the     *)
(*                           thread an automatic thread state;             *)
(*   PyGILState_Release      Py_FatalError if the thread has no automatic  *)
(*                           thread state, else releases the GIL;          *)
(*   PyEval_InitThreads      creates the GIL, held by the caller.          *)
(* Py_FatalError aborts the process, so every thread stops there.          *)
(***************************************************************************)
EXTENDS Naturals, FiniteSets

CONSTANTS
    PyThreads,     \* threads that call libvirt from Python
    CbThreads,     \* libvirt threads that call Python callbacks
    InitAtStart    \* threads are initialised before any libvirt call

Threads == PyThreads \cup CbThreads

NoThread == "none"

ASSUME ThreadsAssumption ==
    /\ PyThreads \cap CbThreads = {}
    /\ NoThread \notin Threads
    /\ InitAtStart \in BOOLEAN
    \* Python code that starts a second thread initialises threads first.
    /\ ~InitAtStart => Cardinality(PyThreads) <= 1

VARIABLES
    initialized,   \* PyEval_ThreadsInitialized()
    gil,           \* the thread that holds the GIL, or NoThread
    pc,            \* the point each thread is at
    save,          \* PyThreadState *_save of a Python thread: "tstate" or "null"
    ensured,       \* a callback thread has an automatic thread state
    fatal          \* the Py_FatalError that aborted the process, or "none"

vars == <<initialized, gil, pc, save, ensured, fatal>>

(* "py": running Python code; "c": inside a libvirt call; "idle": a      *)
(* callback thread in libvirt's C code; "callback": running a callback.  *)
InPython(t) == pc[t] \in {"py", "callback"}

TypeOK ==
    /\ initialized \in BOOLEAN
    /\ gil \in Threads \cup {NoThread}
    /\ pc \in [Threads -> {"py", "c", "idle", "callback"}]
    /\ save \in [PyThreads -> {"tstate", "null"}]
    /\ ensured \in [CbThreads -> BOOLEAN]
    /\ fatal \in {"none", "restoreNull", "releaseUnensured"}

(* Every Python thread starts inside a libvirt call, with the state that   *)
(* LIBVIRT_BEGIN_ALLOW_THREADS saved; every callback thread in C code.     *)
Init ==
    /\ initialized = InitAtStart
    /\ gil = NoThread
    /\ pc = [t \in Threads |-> IF t \in PyThreads THEN "c" ELSE "idle"]
    /\ save = [t \in PyThreads |-> IF InitAtStart THEN "tstate" ELSE "null"]
    /\ ensured = [t \in CbThreads |-> FALSE]
    /\ fatal = "none"

Running == fatal = "none"

(* LIBVIRT_BEGIN_ALLOW_THREADS: _save = NULL, then PyEval_SaveThread()    *)
(* if threads are initialised.                                           *)
BeginAllowThreads(t) ==
    /\ Running
    /\ pc[t] = "py"
    /\ pc' = [pc EXCEPT ![t] = "c"]
    /\ IF initialized
         THEN /\ save' = [save EXCEPT ![t] = "tstate"]
              /\ gil' = NoThread
         ELSE /\ save' = [save EXCEPT ![t] = "null"]
              /\ UNCHANGED gil
    /\ UNCHANGED <<initialized, ensured, fatal>>

(* LIBVIRT_END_ALLOW_THREADS: PyEval_RestoreThread(_save) if threads are  *)
(* initialised now.                                                      *)
EndAllowThreads(t) ==
    /\ Running
    /\ pc[t] = "c"
    /\ \/ /\ ~initialized
          /\ pc' = [pc EXCEPT ![t] = "py"]
          /\ UNCHANGED <<gil, fatal>>
       \/ /\ initialized
          /\ save[t] = "null"
          /\ fatal' = "restoreNull"
          /\ UNCHANGED <<pc, gil>>
       \/ /\ initialized
          /\ save[t] = "tstate"
          /\ gil = NoThread
          /\ gil' = t
          /\ pc' = [pc EXCEPT ![t] = "py"]
          /\ UNCHANGED fatal
    /\ UNCHANGED <<initialized, save, ensured>>

(* LIBVIRT_ENSURE_THREAD_STATE: PyGILState_Ensure() if threads are        *)
(* initialised, else the placeholder PyGILState_UNLOCKED.                 *)
EnsureThreadState(t) ==
    /\ Running
    /\ pc[t] = "idle"
    /\ pc' = [pc EXCEPT ![t] = "callback"]
    /\ IF initialized
         THEN /\ gil = NoThread
              /\ gil' = t
              /\ ensured' = [ensured EXCEPT ![t] = TRUE]
         ELSE UNCHANGED <<gil, ensured>>
    /\ UNCHANGED <<initialized, save, fatal>>

(* A mutant: PyGILState_Release that does not give the GIL back.         *)
ReleaseKeepsGIL(t) ==
    /\ Running
    /\ pc[t] = "callback"
    /\ \/ /\ ~initialized
          /\ pc' = [pc EXCEPT ![t] = "idle"]
          /\ UNCHANGED <<gil, ensured, fatal>>
       \/ /\ initialized
          /\ ~ensured[t]
          /\ fatal' = "releaseUnensured"
          /\ UNCHANGED <<pc, gil, ensured>>
       \/ /\ initialized
          /\ ensured[t]
          /\ ensured' = [ensured EXCEPT ![t] = FALSE]
          /\ pc' = [pc EXCEPT ![t] = "idle"]
          /\ UNCHANGED <<gil, fatal>>
    /\ UNCHANGED <<initialized, save>>

(* LIBVIRT_RELEASE_THREAD_STATE: PyGILState_Release(_save) if threads are *)
(* initialised now.                                                      *)
ReleaseThreadState(t) ==
    /\ Running
    /\ pc[t] = "callback"
    /\ \/ /\ ~initialized
          /\ pc' = [pc EXCEPT ![t] = "idle"]
          /\ UNCHANGED <<gil, ensured, fatal>>
       \/ /\ initialized
          /\ ~ensured[t]
          /\ fatal' = "releaseUnensured"
          /\ UNCHANGED <<pc, gil, ensured>>
       \/ /\ initialized
          /\ ensured[t]
          /\ gil' = NoThread
          /\ ensured' = [ensured EXCEPT ![t] = FALSE]
          /\ pc' = [pc EXCEPT ![t] = "idle"]
          /\ UNCHANGED fatal
    /\ UNCHANGED <<initialized, save>>

(* Python code of the application (a Python thread, or a callback) starts *)
(* a thread: PyEval_InitThreads creates the GIL, held by the caller.      *)
InitThreads(t) ==
    /\ Running
    /\ ~initialized
    /\ InPython(t)
    /\ initialized' = TRUE
    /\ gil' = t
    /\ UNCHANGED <<pc, save, ensured, fatal>>

Next ==
    \E t \in Threads :
        \/ BeginAllowThreads(t)
        \/ EndAllowThreads(t)
        \/ EnsureThreadState(t)
        \/ ReleaseThreadState(t)
        \/ InitThreads(t)

Spec == Init /\ [][Next]_vars

-----------------------------------------------------------------------------
(* Once threads are initialised, a thread runs Python code only while it  *)
(* holds the GIL, and the GIL is held only by a thread that runs Python   *)
(* code: the BEGIN/END and ENSURE/RELEASE pairs hand the GIL over without *)
(* two threads in the interpreter and without leaking it.                 *)
GILHeldByRunner ==
    initialized /\ Running => \A t \in Threads : InPython(t) <=> gil = t

(* The GIL is never left held by a thread that is back in C code: when a  *)
(* pair of macros ends without a fatal error, it has given the GIL back.  *)
GILNotLeaked ==
    gil # NoThread => InPython(gil)

(* LIBVIRT_END_ALLOW_THREADS never calls PyEval_RestoreThread(NULL).      *)
NoRestoreNull == fatal # "restoreNull"

(* LIBVIRT_RELEASE_THREAD_STATE never calls PyGILState_Release for a      *)
(* thread that PyGILState_Ensure did not give a thread state.             *)
NoReleaseUnensured == fatal # "releaseUnensured"
=============================================================================
