------------------------- MODULE EsxViSessionProofs -------------------------
(***************************************************************************)
(* Proofs about the ESX VI session protocol, for any number of runs.      *)
(***************************************************************************)
EXTENDS EsxViSession, TLAPS

USE DEF Terminal, TaskStates

(* The host-side steps a task still has to take before it is terminal. *)
Remaining(t) == CASE t = "queued" -> 2 [] t = "running" -> 1 [] OTHER -> 0

(* The counters stay within their bounds because each run adds at most    *)
(* three versions (start, running, terminal) and at most one filter, and  *)
(* a run can only create its filter after it has been counted.           *)
VInv ==
    /\ TypeOK
    /\ hostVersion + Remaining(hostTask) <= 3 * runs
    /\ nextFilter <= runs + 1
    /\ cpc = "filter" => nextFilter <= runs
    /\ hostFilters \subseteq 1 .. nextFilter - 1
    /\ filter < nextFilter
    /\ version # Initial => version <= hostVersion

-----------------------------------------------------------------------------
(* An update set carries the host task's state as it is when the poll     *)
(* returns, or no state at all.                                           *)
LEMMA UpdateState ==
    ASSUME NEW v
    PROVE  Update(v).state \in {hostTask, "none"}
BY DEF Update

-----------------------------------------------------------------------------
(* FilterRefValid is not inductive by itself: Logout empties the host's   *)
(* filters, which is safe only because the tracker holds no reference     *)
(* outside the poll loop.                                                 *)
FInv ==
    /\ FilterRefValid
    /\ cpc \notin {"wait", "polling", "destroy"} => filter = NoFilter

LEMMA InitFInv == Init => FInv
BY DEF Init, FInv, FilterRefValid

LEMMA NextFInv == FInv /\ [Next]_vars => FInv'
<1> SUFFICES ASSUME FInv, [Next]_vars PROVE FInv'
  OBVIOUS
<1>1. CASE RetrieveServiceContent
  BY <1>1 DEF RetrieveServiceContent, FInv, FilterRefValid, HostVars
<1>2. CASE Login
  BY <1>2 DEF Login, FInv, FilterRefValid
<1>3. CASE StartTask
  BY <1>3 DEF StartTask, FInv, FilterRefValid, AfterRun
<1>4. CASE CreateFilter
  <2>1. PICK o \in Outcomes :
           /\ hostFilters' = IF Served(o) THEN hostFilters \cup {nextFilter}
                                          ELSE hostFilters
           /\ filter' = IF o = "ok" THEN nextFilter ELSE NoFilter
           /\ cpc' = IF o = "ok" THEN "wait" ELSE AfterRun
    BY <1>4 DEF CreateFilter
  <2>2. CASE o = "ok"
    BY <2>1, <2>2 DEF Served, FInv, FilterRefValid
  <2>3. CASE o # "ok"
    BY <2>1, <2>3 DEF FInv, FilterRefValid
  <2>4. QED
    BY <2>2, <2>3
<1>5. CASE WaitForUpdates
  BY <1>5 DEF WaitForUpdates, FInv, FilterRefValid, HostVars
<1>6. CASE UpdatesReturned
  BY <1>6 DEF UpdatesReturned, ApplyUpdate, FInv, FilterRefValid, HostVars
<1>7. CASE DestroyPropertyFilter
  BY <1>7 DEF DestroyPropertyFilter, FInv, FilterRefValid
<1>8. CASE Logout
  BY <1>8 DEF Logout, FInv, FilterRefValid
<1>9. CASE HostTaskStep
  BY <1>9 DEF HostTaskStep, FInv, FilterRefValid
<1>10. CASE UNCHANGED vars
  BY <1>10 DEF vars, FInv, FilterRefValid
<1>11. QED
  BY <1>1, <1>2, <1>3, <1>4, <1>5, <1>6, <1>7, <1>8, <1>9, <1>10
  DEF Next, Client

(* The tracker never holds a reference to a property filter the host no  *)
(* longer has, for any number of runs and whichever calls fail: every     *)
(* reference comes from a CreateFilter the host served and is dropped by  *)
(* the destroy, before the logout that ends the host's filters.           *)
THEOREM FilterRefCorrect == Spec => []FilterRefValid
<1>1. Spec => []FInv
  BY InitFInv, NextFInv, PTL DEF Spec
<1>2. QED
  BY <1>1, PTL DEF FInv

-----------------------------------------------------------------------------
USE MaxRunsAssumption DEF MaxVersion, NoFilter, Initial

(* The work a task state has left, in version bumps. *)
LEMMA RemainingValues ==
    /\ Remaining("queued") = 2 /\ Remaining("running") = 1
    /\ \A t \in Terminal \cup {"none"} : Remaining(t) = 0
BY DEF Remaining

LEMMA RemainingNat == \A t \in TaskStates \cup {"none"} : Remaining(t) \in 0 .. 2
BY RemainingValues

LEMMA InitVInv == Init => VInv
<1> SUFFICES ASSUME Init PROVE VInv
  OBVIOUS
<1>1. Remaining(hostTask) = 0
  BY RemainingValues DEF Init
<1>2. hostVersion \in 0 .. MaxVersion /\ version \in {Initial} \cup 0 .. MaxVersion
      /\ nextFilter \in 1 .. MaxRuns + 1 /\ filter \in 0 .. MaxRuns
      /\ runs \in 0 .. MaxRuns
  BY DEF Init
<1>3. TypeOK
  BY <1>2 DEF Init, TypeOK
<1>4. QED
  BY <1>1, <1>3 DEF Init, VInv

(* A step that leaves the host and the counters alone keeps VInv. *)
LEMMA ClientOnly ==
    ASSUME VInv, UNCHANGED <<HostVars, runs, filter, version>>,
           cpc' \in {"connect", "login", "start", "filter", "wait", "polling",
                     "destroy", "logout", "done"},
           service' \in BOOLEAN, outcome' \in Terminal \cup {"none", "failed"},
           cpc' = "filter" => cpc = "filter"
    PROVE  VInv'
BY DEF VInv, TypeOK, HostVars

LEMMA NextVInv == VInv /\ [Next]_vars => VInv'
<1> SUFFICES ASSUME VInv, [Next]_vars PROVE VInv'
  OBVIOUS
<1>0. /\ hostVersion \in 0 .. 3 * MaxRuns /\ runs \in 0 .. MaxRuns
      /\ nextFilter \in 1 .. MaxRuns + 1 /\ filter \in 0 .. MaxRuns
  BY DEF VInv, TypeOK
<1>1. CASE RetrieveServiceContent
  BY <1>1, ClientOnly DEF RetrieveServiceContent, VInv, TypeOK
<1>2. CASE Login
  <2>1. hostSession' \in BOOLEAN
    BY <1>2 DEF Login
  <2>2. QED
    BY <1>2, <2>1 DEF Login, VInv, TypeOK, Remaining
<1>3. CASE StartTask
  <2>1. PICK o \in Outcomes :
           /\ hostTask' = IF Served(o) THEN "queued" ELSE hostTask
           /\ hostVersion' = IF Served(o) THEN hostVersion + 1 ELSE hostVersion
           /\ cpc' = IF o = "ok" THEN "filter" ELSE AfterRun
    BY <1>3 DEF StartTask
  <2>2. runs' = runs + 1 /\ runs < MaxRuns /\ cpc = "start"
    BY <1>3 DEF StartTask
  <2>3. hostVersion' + Remaining(hostTask') <= 3 * runs'
    <3>1. Remaining(hostTask) \in 0 .. 2 /\ Remaining("queued") = 2
      BY RemainingNat, RemainingValues DEF VInv, TypeOK
    <3>2. CASE Served(o)
      BY <2>1, <2>2, <3>1, <3>2, <1>0 DEF VInv
    <3>3. CASE ~Served(o)
      BY <2>1, <2>2, <3>1, <3>3, <1>0 DEF VInv
    <3>4. QED
      BY <3>2, <3>3
  <2>4. hostVersion' \in 0 .. 3 * MaxRuns
    <3>1. Remaining(hostTask') \in 0 .. 2
      BY <2>1, RemainingNat DEF VInv, TypeOK
    <3>2. QED
      BY <2>1, <2>2, <2>3, <3>1, <1>0
  <2>5. nextFilter <= runs'
    BY <2>2 DEF VInv
  <2>6. QED
    BY <1>3, <2>1, <2>2, <2>3, <2>4, <2>5, <1>0 DEF StartTask, VInv, TypeOK, AfterRun
<1>4. CASE CreateFilter
  <2>1. PICK o \in Outcomes :
           /\ hostFilters' = IF Served(o) THEN hostFilters \cup {nextFilter}
                                          ELSE hostFilters
           /\ nextFilter' = IF Served(o) THEN nextFilter + 1 ELSE nextFilter
           /\ filter' = IF o = "ok" THEN nextFilter ELSE NoFilter
           /\ cpc' = IF o = "ok" THEN "wait" ELSE AfterRun
           /\ outcome' = IF o = "ok" THEN outcome ELSE "failed"
    BY <1>4 DEF CreateFilter
  <2>2. cpc = "filter" /\ nextFilter <= runs
    BY <1>4 DEF CreateFilter, VInv
  <2>3. nextFilter' <= runs + 1 /\ nextFilter' \in 1 .. MaxRuns + 1
    BY <2>1, <2>2, <1>0
  <2>4. hostFilters' \subseteq 1 .. nextFilter' - 1 /\ filter' < nextFilter'
        /\ filter' \in 0 .. MaxRuns
    BY <2>1, <2>2, <1>0 DEF VInv, Served, Outcomes
  <2>5. hostFilters' \subseteq 1 .. MaxRuns
    <3>1. hostFilters \cup {nextFilter} \subseteq 1 .. MaxRuns
      BY <2>2, <1>0 DEF VInv
    <3>2. QED
      BY <2>1, <3>1, Zenon
  <2>6. cpc' # "filter"
    BY <2>1 DEF AfterRun
  <2>7. QED
    BY <1>4, <2>1, <2>3, <2>4, <2>5, <2>6 DEF CreateFilter, VInv, TypeOK, AfterRun
<1>5. CASE WaitForUpdates
  BY <1>5, ClientOnly DEF WaitForUpdates, VInv, TypeOK
<1>6. CASE UpdatesReturned
  <2>1. UNCHANGED <<HostVars, service, filter, runs>> /\ cpc = "polling"
    BY <1>6 DEF UpdatesReturned
  <2>2. CASE ApplyUpdate(Update(version))
    <3>1. Update(version).version \in 0 .. hostVersion
      BY <1>0 DEF Update, VInv, TypeOK
    <3>2. Update(version).state \in {hostTask, "none"}
      BY UpdateState
    <3>3. version' \in 0 .. hostVersion /\ cpc' \in {"destroy", "wait"}
          /\ outcome' \in Terminal \cup {"none", "failed"}
      BY <2>2, <3>1, <3>2 DEF ApplyUpdate, VInv, TypeOK
    <3>4. QED
      BY <2>1, <3>3, <1>0 DEF VInv, TypeOK, HostVars
  <2>3. CASE outcome' = "failed" /\ cpc' = "destroy" /\ UNCHANGED version
    BY <2>1, <2>3 DEF VInv, TypeOK, HostVars
  <2>4. QED
    BY <1>6, <2>2, <2>3 DEF UpdatesReturned
<1>7. CASE DestroyPropertyFilter
  <2>1. hostFilters' \subseteq hostFilters /\ filter' = NoFilter
        /\ cpc' \in {"start", "logout"}
    BY <1>7 DEF DestroyPropertyFilter, AfterRun
  <2>2. QED
    BY <1>7, <2>1, <1>0 DEF DestroyPropertyFilter, VInv, TypeOK
<1>8. CASE Logout
  <2>1. hostFilters' \subseteq hostFilters /\ hostSession' \in BOOLEAN
    BY <1>8 DEF Logout
  <2>2. QED
    BY <1>8, <2>1 DEF Logout, VInv, TypeOK
<1>9. CASE HostTaskStep
  <2>1. CASE hostTask = "queued" /\ hostTask' = "running"
    BY <1>9, <2>1, <1>0, RemainingValues DEF HostTaskStep, VInv, TypeOK
  <2>2. CASE hostTask = "running" /\ hostTask' \in Terminal
    BY <1>9, <2>2, <1>0, RemainingValues DEF HostTaskStep, VInv, TypeOK
  <2>3. QED
    BY <1>9, <2>1, <2>2 DEF HostTaskStep
<1>10. CASE UNCHANGED vars
  BY <1>10 DEF vars, VInv, TypeOK
<1>11. QED
  BY <1>1, <1>2, <1>3, <1>4, <1>5, <1>6, <1>7, <1>8, <1>9, <1>10
  DEF Next, Client

(* Every reachable state of the session is well typed, for any number of *)
(* runs: the property collector's version stays within three per run and *)
(* the host creates at most one filter per run, whichever calls fail.    *)
THEOREM TypeCorrect == Spec => []TypeOK
<1>1. Spec => []VInv
  BY InitVInv, NextVInv, PTL DEF Spec
<1>2. QED
  BY <1>1, PTL DEF VInv
=============================================================================
