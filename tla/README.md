# Formal models of the libvirt sources in this tree

This directory holds TLA+ modules, TLC configurations and TLAPS proofs for
the C sources under `src/`. It gives what each part of the code does as a
state machine, the properties that make it correct, the runs that check
them on small instances, and the theorems that prove the main ones for
every value of the constants.

## The system and its parts

| Part | Source | What it does |
|---|---|---|
| ESX VI API methods | `src/src/esx/esx_vi_methods.c` | Client stubs of the VMware VI SOAP API. Each builds a request envelope, executes it on the session's connection and decodes the result through an XPath. The task methods start a host task instead. |
| Remote dispatch prototypes | `src/qemud/remote_dispatch_prototypes.h` | The signatures of the daemon's procedure handlers. Each takes the server, the client, the request header and the decoded argument and return structs; a procedure without arguments takes `void *args`. |
| Python thread-state macros | `src/python/libvirt_wrap.h` | The macros that drop the GIL around a blocking libvirt call and take it back afterwards, or make sure a callback thread holds it. |
| SELinux labelling test | `src/tests/securityselinuxlabeltest.c` | It creates files, labels a domain's disks, checks the labels and deletes the files. |
| xm config and VMX tests | `src/tests/xmconfigtest.c`, `src/tests/xml2vmxtest.c` | Round-trip tests of the Xen and VMX converters. |

They interact as follows:
- The ESX driver calls the VI methods in sequence on one session.
  - RetrieveServiceContent fills `ctx->service`.
  - Every other method except the task methods is refused ("Invalid call") until that has happened.
  - Login and Logout open and close the session, and SessionIsActive checks it.
  - CreateFilter, WaitForUpdates and DestroyPropertyFilter make up the property-change subscription through which tasks are polled.
- Above the single calls, the ESX driver runs a session: connect, login, then for each VM operation start a task, create a property filter on it, long-poll WaitForUpdates until the task is terminal, destroy the filter; finally logout.
- The Python bindings wrap every libvirt call in the thread macros.

## Modules

### EsxViCall: one call of a VI method

The methods in `esx_vi_methods.c` are copies of one template. The model has one set of actions for the template. Each method enters as a record `Shape[m]` of the facts in which the copies differ:

| Field | What it says |
|---|---|
| `service` | It checks `ctx->service`. |
| `out` | The kind of its out parameter check. |
| `kind` | The static request of RetrieveServiceContent, a buffer text moved into the remote request, or a local string handed to `esxVI_StartVirtualMachineTask`. |
| `xpath` | It stores a static XPath expression. |
| `required` | It has a serialised argument that may be NULL. |
| `decode` | How the response is deserialised. |
| `nullsRequest`, `nullsXPath` | Which fields cleanup NULLs before `esxVI_RemoteRequest_Free`. |

Each `*Shape` definition is mapped in PROJECT.json to the lines of its method.

State, and how it corresponds to the code:

| Variable | Code |
|---|---|
| `pc` | The point of the method: `Build` (appends and serialisers), `Check` (`virBufferError`), `Execute`, `Deserialize`, `Failure` (the `failure:` label) and `Cleanup` (the `cleanup:` label). |
| `buf`, `bufErr` | The virBuffer's text and its error flag. |
| `reqAlloc`, `request`, `xpath` | `remoteRequest`, `remoteRequest->request` (NULL, the heap text or the string constant) and `remoteRequest->xpathExpression`. |
| `resp` | `remoteResponse`. |
| `local` | The `char *request` of MigrateVM_Task and ReconfigVM_Task. |
| `live`, `freed` | The heap blocks allocated in this call, and how often `free()` reached each block, string constants included. |
| `executed` | How often the host executed this call's request. |
| `out`, `result` | The out parameter and the return value. |

There is one action per step of the template:

| Action | Step |
|---|---|
| `InvalidCall`, `InvalidArgument` | The two guards. |
| `Begin` | Both guards pass. |
| `BuildStatic` | RetrieveServiceContent's allocation and static fields. |
| `Build` | Appends, `esxVI_RemoteRequest_Alloc` and the serialisers, each of which may fail. |
| `Check` | The buffer check and the `virBufferContentAndReset` move. |
| `Execute` | It fails before or after the host saw the request, with or without a response to free, or it succeeds. |
| `StartTask` | `esxVI_StartVirtualMachineTask`. |
| `Deserialize` | The response is deserialised, or that fails. |
| `Failure` | The `failure:` label. |
| `Cleanup`, `CleanupTask` | The `cleanup:` labels. |

The data are abstracted to ownership of five blocks: the text, the two structs, and the two string constants. Strings, XML and the argument values are left out because no property distinguishes them.

### EsxViCallAbstract: what a call promises

This module says what a call promises its caller. It is either rejected at once with -1, or it runs and returns one result. The host executes its request at most once (`Serve`), and a result of 0 is only returned after the host executed it. EsxViCall instantiates it under a refinement mapping:
- the call is busy iff `pc # "Idle"`;
- `served` is `executed`;
- the result is visible when idle.

### EsxViSession: the session across calls

`EsxViSession.tla` puts a client and the host side by side. Every method of `esx_vi_methods.c` is one client step whose outcome is one of the three that EsxViCallAbstract allows and EsxViCall is proved to refine: `lost` (the host never saw the call), `noReply` (the host executed it, the reply did not deserialise) and `ok`. What the host does for a method happens when it is served, whatever the client learns.

| Variable | Code or host state |
|---|---|
| `hostSession`, `hostFilters`, `nextFilter` | The session and the property filters the host holds. |
| `hostTask`, `hostVersion` | The state of the current run's task and the property collector's version. |
| `cpc` | Where the client is: connect, login, start, filter, wait, polling, destroy, logout, done. |
| `service`, `filter`, `version` | `ctx->service`, the `propertyFilter` reference, the version string echoed to WaitForUpdates. |
| `outcome`, `runs` | What the tracker reported for the current run; the runs started. |

The actions are `RetrieveServiceContent`, `Login`, `StartTask`, `CreateFilter`, `WaitForUpdates` (the poll is sent), `UpdatesReturned` (it returns, or fails), `DestroyPropertyFilter`, `Logout` and the host's `HostTaskStep` (queued, running, success or error, each advancing the version). The tracker that drives them (`esxVI_WaitForTaskCompletion`) is in `esx_vi.c`, outside this tree: `ApplyUpdate` and `AfterRun` follow the design's task-polling protocol and are marked spec_modelled.

### PyThreads: the GIL macros of the Python bindings

`PyThreads.tla` models the four macros of `libvirt_wrap.h` for a set of Python threads (which wrap libvirt calls in BEGIN/END_ALLOW_THREADS) and a set of callback threads (ENSURE/RELEASE_THREAD_STATE). `initialized` is `PyEval_ThreadsInitialized()`, `gil` the thread holding the GIL, `save` a thread's `_save` (NULL or a thread state), `ensured` whether its `PyGILState_Ensure` ran, `fatal` a `Py_FatalError`. Each macro re-tests `PyEval_ThreadsInitialized()`, so each is an action with one disjunct per outcome of that test. `InitThreads` is a thread's Python code calling `PyEval_InitThreads`. The constant `InitAtStart` says whether threads are initialised before the first call; when they are not, at most one Python thread exists (a second one would itself initialise threads).

### SELinuxLabelTest: the labelling test program

`SELinuxLabelTest.tla` models `mymain` and `testSELinuxLabeling` for the three data sets in order, with the disk as the set of files `<<test, k>>` that exist. Each step of the test (`LoadFileList`, `LoadLine`, `CreateDisks`, `LoadDef`, `SetAllLabel`, `CheckLabels`, `DeleteDisks`) may fail as its library calls may; `unlink` fails exactly when the file is missing. `RetryCleanup` is the `goto cleanup` taken when `testSELinuxDeleteDisks` fails, `ReturnFromTest` the rest of the cleanup label and the move to the next test.

### The proof modules

`EsxViCallProofs`, `EsxViSessionProofs`, `PyThreadsProofs` and `SELinuxLabelTestProofs` extend their component's module with the theorems.

See "What is proved" below.

## Runs

| Run | Module / cfg | Checks | Shows |
|---|---|---|---|
| `esxvi_call` | `EsxViCall` / `EsxViCall.cfg` | `FreeSafety`, `NoLeak`, `AbstractCall` | On every exit path of all sixteen methods, no heap block is freed twice, no string constant is freed, nothing is leaked, and the call implements the abstract call. |
| `esxvi_session` | `EsxViSession` / `EsxViSession.cfg` | `FilterRefValid`, `PollLoopEnds` | Over two runs in one session, with every call failing before or after the host saw it, the tracker's property-filter reference always names a filter the host holds, and every poll loop ends. 1178 states. |
| `esxvi_session_filter_leak` | `EsxViSession` / `EsxViSessionFilterLeak.cfg` | `NoFilterLeak` (violation) | A CreateFilter whose reply fails after the host created the filter leaves a filter no one can destroy. |
| `pythreads_midcall` | `PyThreads` / `PyThreadsMidCall.cfg` | `GILNotLeaked` | With one Python thread and three callback threads, and threads initialised in the middle of any macro pair, the GIL is never held by a thread back in C. 142 states. |
| `pythreads_restore_null` | `PyThreads` / `PyThreadsNoRestoreNull.cfg` | `NoRestoreNull` (violation) | Initialisation between BEGIN and END makes END restore a NULL thread state. |
| `pythreads_release_unensured` | `PyThreads` / `PyThreadsNoReleaseUnensured.cfg` | `NoReleaseUnensured` (violation) | Initialisation between ENSURE and RELEASE makes RELEASE release an unensured state. |
| `selinux_label_test` | `SELinuxLabelTest` / `SELinuxLabelTest.cfg` | `NoStrayFiles`, `CreatedTestReturns` | With data files of up to two entries and every call failing, no test leaves files behind, and a test whose files were all created returns. 214 states. |
| `selinux_label_test_terminates` | `SELinuxLabelTest` / `SELinuxLabelTestTerminates.cfg` | `Terminates` (violation) | A failure before the last file is created makes the cleanup loop spin for ever. |

Bounds of the other runs:
- `EsxViSession`: `MaxRuns = 2`, so a second run starts in a session that may hold a filter of the first; the version counter is bounded by three steps per run.
- `PyThreads`: one Python thread (the only number possible before initialisation) and three callback threads, enough for one to be inside a pair while another initialises threads and a third waits for the GIL.
- `SELinuxLabelTest`: data files of zero to two entries, so a failure can fall before, between and after the creations.

The runs that stop (the test program exits; the session logs out; `Py_FatalError` aborts; the threads have no more calls to make) set `CHECK_DEADLOCK FALSE`.

The bounds of `esxvi_call` are small and exhaustive:
- The model has no constants, because the sixteen methods and their shapes are the data.
- Every failure point is a nondeterministic choice in a single step, so TLC explores every combination of shape and exit path: 565 distinct states.
- The `executed` counter is bounded by the template itself, because each call executes at most once unless a step resends.
- The run covers every action.

Each property has a mutant, a plausible bug in a mapped definition that TLC must catch:

| Property | Mutant |
|---|---|
| `FreeSafety` | RetrieveServiceContent's cleanup no longer NULLs the static request. |
| `NoLeak` | The failure label does not free the buffer's text. |
| `AbstractCall` | Execute resends the envelope after a failure. |
| `FilterRefValid` | DestroyPropertyFilter keeps its reference when the call never reached the host, and Logout then drops the filter under it. |
| `PollLoopEnds` | The poll loop only leaves on success. |
| `GILNotLeaked` | RELEASE_THREAD_STATE keeps the GIL. |
| `NoStrayFiles` | The unlink loop stops one file short. |
| `CreatedTestReturns` | The touch loop stops one file short. |

Fairness:
- A single call (`EsxViCall`) and the GIL macros (`PyThreads`) assume none and claim no liveness.
- `SELinuxLabelTest` assumes `WF_vars(Next)`: the test is one thread that runs its next step.
- `EsxViSession` assumes `WF_vars(Client)` and `WF_vars(HostTaskStep)`: the client is one sequential thread, and the host runs a task it has started to its end. Without the second, a host that never finishes a task would keep any poll loop alive.

## What is proved (TLAPS)

`EsxViCallProofs.tla` proves the following for every method shape:
- `TypeCorrect`: `Spec => []TypeOK`. The type invariant is proved rather than checked in the run; it is part of `IInv`.
- `OwnershipSafe`: `Spec => [](FreeSafety /\ NoLeak)`.

Neither property is inductive as it stands. A step of `Cleanup` keeps `FreeSafety` only if the request field points to the heap text exactly when that text is unfreed, and `NoLeak` depends on who holds the text. The inductive invariant `IInv` therefore adds four things:

- **Single ownership of the request text (`ContentInv`).** The text has at most one owner among the buffer, `remoteRequest->request` and the local string.
  - An owned text is live and unfreed.
  - A live text that is not owned has been freed exactly once.
- **Struct ownership (`StructInv`).** This is the same statement for the remote request and the response: the pointer is set exactly while the block is live and unfreed.
- **Which fields may be set where (`FieldsInv`).**
  - A static request is only ever stored by a shape that NULLs it.
  - A heap request only by a shape that does not.
  - The buffer owns text only in `Check` or `Failure`.
- **Facts per program point (`PcInv`).**
  - The idle and build states are clean.
  - In `Check`, the buffer owns text exactly when it is not in error.
  - Nothing has a response before `Execute`.

The argument:
- Lemma `ShapesOK` establishes the facts about the sixteen shapes that the steps use.
- `InitIInv` proves that the initial state satisfies `IInv`.
- One lemma per action proves that the action preserves `IInv`. Each action is split into the disjuncts of its code path, and where needed into one step per conjunct.
- `NextIInv` combines these lemmas.
- The two theorems follow by PTL.
- Before it was proved, `IInv` was checked with TLC as an invariant of the run.

`Refinement` proves `Spec => AbstractCall`, so the call implements the abstract call for every shape. The proof rests on a second invariant, `RInv`, which counts how often the host has executed the request at each point of the call:
- never in `Build`, `Check` or `Execute`;
- once in `Deserialize`;
- once whenever `Cleanup` is reached with result 0.

With `RInv` and `IInv`, each step is shown to map to an abstract step:
- the guards map to `Reject`;
- `Begin` maps to `Begin`;
- an `Execute` or `StartTask` that reached the host maps to `Serve`;
- `Cleanup` and `CleanupTask` map to `Return`, where `RInv` supplies the condition that 0 is returned only for an executed request;
- every other step is a stutter of the abstract state.

Liveness stays with TLC. TLAPS does not reason about ENABLED and fairness here, and no liveness is claimed for this component.

`NoLeakHolds` states `Spec => []NoLeak` on its own; it follows from `OwnershipSafe`.

The other proof modules:
- `EsxViSessionProofs`, for every `MaxRuns`:
  - `FilterRefCorrect`, `Spec => []FilterRefValid`. The invariant `FInv` adds that the client holds no filter reference outside the poll loop (wait, polling, destroy). Without it, `Logout`, which drops every filter of the session, could leave a stale reference.
  - `TypeCorrect`, `Spec => []TypeOK`. The bounds in `TypeOK` are not inductive. `VInv` adds a budget: `hostVersion` plus the version bumps the current task still has to make (`Remaining`: two when queued, one when running) is at most three per run started. It also adds that `nextFilter` is at most one past the runs started, and at most the runs while the client is about to create a filter. Since `runs <= MaxRuns`, the version and the filter ids stay in range.
- `PyThreadsProofs`:
  - `GILNeverLeaked`, `Spec => []GILNotLeaked`, for any sets of threads. The invariant `LInv` adds the type invariant and that nobody holds the GIL before threads are initialised; with it each macro keeps the GIL with a thread in Python code.
  - `GILExclusive` and `NoFatalWhenInitFirst`: when threads are initialised from the start, exactly the thread running Python code holds the GIL and neither fatal error can happen. `XInv` records that every Python thread is in Python or in C with a saved state, every callback thread idle or inside with an ensured state, and that the GIL holder is the one thread in Python. This is why the two violation runs need initialisation to happen in the middle of a pair. `GILHeldByRunner` is proved here and not run: with threads initialised from the start, the reachable states are the GIL with one thread or with none, too few for a run to show more than the theorem does.
  - `TypeCorrect`, `Spec => []TypeOK`, from lemma `TypeNext`.
- `SELinuxLabelTestProofs`: `NoStrayFilesHolds`, `Spec => []NoStrayFiles`, for any `MaxLines`. `NoStrayFiles` is not inductive: whether the unlink loop of the cleanup label empties the disk depends on which files exist. `DiskInv` adds the following:
  - the disk always holds a prefix `files[0 .. m-1]` of the current test's list;
  - the disk is empty while the list is loaded, after a successful delete, and outside the run phase.
  - Lemma `TouchPrefix` shows the touch loop keeps a prefix.
  - Lemma `UnlinkPrefix` shows the unlink loop, which stops at the first missing file, removes a whole prefix.

What stays with TLC:
- Liveness: `PollLoopEnds` and `CreatedTestReturns`. They rest on fairness and ENABLED, which the proof system here does not reason about.
- The violation runs, whose properties are false by design of the finding.

## Findings

- `libvirt_wrap.h:117`: LIBVIRT_BEGIN_ALLOW_THREADS leaves `_save` NULL before threads are initialised; END re-tests and passes NULL to `PyEval_RestoreThread` if a callback initialised threads meanwhile (run `pythreads_restore_null`).
- `libvirt_wrap.h:128`: RELEASE_THREAD_STATE re-tests and calls `PyGILState_Release` without an Ensure when initialisation happened inside the callback (run `pythreads_release_unensured`).
- `securityselinuxlabeltest.c:294`: `goto cleanup` after a failed delete loops for ever when a listed file was never created (run `selinux_label_test_terminates`).
- `esx_vi_methods.c:628`: a CreateFilter served by the host whose reply fails leaves a filter that nothing destroys, against the design's "destroy exactly once" (run `esxvi_session_filter_leak`).

## What is not modelled, and why

- **esx_vi.c.** `esxVI_RemoteRequest_Execute`, the deserialisers, `esxVI_StartVirtualMachineTask`, the simple-task wrappers and `esxVI_WaitForTaskCompletion` are in `esx_vi.c`, which is not in this tree. Their results enter the models as nondeterministic outcomes; the tracker's loop follows the design and is marked spec_modelled. In particular, the model destroys the filter after a failed poll as the design describes; whether the tracker's code does so cannot be checked against this tree, and `FilterRefValid` rests on that reading. The model does not include the host expiring an idle session.
- **The remote dispatch table.** `remote_dispatch_prototypes.h` holds only the generated declarations of the handlers. The dispatcher, its auth gate and the handlers' bodies are not in the tree, so there is no code whose behaviour a model could check: a model of them would only restate the design it was written from. The component is not modelled.
- **Converters and formats.** The xm config and VMX tests compare strings produced by converters that are also not in the tree. Their only state is a fixed-size output buffer at `xmconfigtest.c:77`. `virConfWriteMem`, which fills it, is not in the tree either.
