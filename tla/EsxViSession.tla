---------------------------- MODULE EsxViSession ----------------------------
(***************************************************************************)
(* The ESX VI session across calls: a client that connects, logs in and    *)
(* runs asynchronous VM operations by starting a task, creating a property *)
(* filter on it, long-polling WaitForUpdates with the version cookie until *)
(* the task is terminal, and destroying the filter; and the host that      *)
(* serves those calls and runs the tasks.                                  *)
(*                                                                         *)
(* Each method of src/src/esx/esx_vi_methods.c is one step whose outcomes  *)
(* are those EsxViCallAbstract allows and EsxViCall is proved to refine:   *)
(*   "lost"   the call fails before the host executed it (guard, alloc,    *)
(*            serialisation, transport), result -1;                        *)
(*   "noReply" the host executed it, then Execute or the deserialiser      *)
(*            failed, result -1 and no out value;                          *)
(*   "ok"     the host executed it and the out value is set, result 0.     *)
(* What the host does for a method is its effect when served.  The task   *)
(* tracker that drives the methods (esxVI_WaitForTaskCompletion and the    *)
(* connect code) lives in esx_vi.c, outside this tree, and follows the     *)
(* task-polling protocol of the design.                                    *)
(***************************************************************************)
EXTENDS Integers

CONSTANT MaxRuns       \* bound on the VM operations run in one session

ASSUME MaxRunsAssumption == MaxRuns \in Nat \ {0}

Outcomes == {"lost", "noReply", "ok"}

Served(o) == o \in {"noReply", "ok"}

TaskStates == {"queued", "running", "success", "error"}

Terminal == {"success", "error"}

NoFilter == 0

Initial == -1          \* the empty version string of the first poll

VARIABLES
    hostSession,   \* the host has an active session for the client
    hostTask,      \* the state of the task of the current run, or "none"
    hostVersion,   \* the property collector's version
    hostFilters,   \* the property filters the host holds
    nextFilter,    \* the identity of the next filter the host creates
    cpc,           \* the point of the client
    service,       \* ctx->service is set
    filter,        \* the client's propertyFilter reference, or NoFilter
    version,       \* the version string the client echoes
    outcome,       \* what the client reported for the current run
    runs           \* VM operations started in this session

vars == <<hostSession, hostTask, hostVersion, hostFilters, nextFilter,
          cpc, service, filter, version, outcome, runs>>

MaxVersion == 3 * MaxRuns

TypeOK ==
    /\ hostSession \in BOOLEAN
    /\ hostTask \in TaskStates \cup {"none"}
    /\ hostVersion \in 0 .. MaxVersion
    /\ hostFilters \subseteq 1 .. MaxRuns
    /\ nextFilter \in 1 .. MaxRuns + 1
    /\ cpc \in {"connect", "login", "start", "filter", "wait", "polling",
                "destroy", "logout", "done"}
    /\ service \in BOOLEAN
    /\ filter \in 0 .. MaxRuns
    /\ version \in {Initial} \cup 0 .. MaxVersion
    /\ outcome \in Terminal \cup {"none", "failed"}
    /\ runs \in 0 .. MaxRuns

Init ==
    /\ hostSession = FALSE
    /\ hostTask = "none"
    /\ hostVersion = 0
    /\ hostFilters = {}
    /\ nextFilter = 1
    /\ cpc = "connect"
    /\ service = FALSE
    /\ filter = NoFilter
    /\ version = Initial
    /\ outcome = "none"
    /\ runs = 0

HostVars == <<hostSession, hostTask, hostVersion, hostFilters, nextFilter>>

(* After a run the client starts the next one, or logs out. *)
AfterRun == IF runs < MaxRuns THEN "start" ELSE "logout"

(* esxVI_RetrieveServiceContent fills ctx->service, or the connect fails. *)
RetrieveServiceContent ==
    /\ cpc = "connect"
    /\ \E o \in Outcomes :
         /\ service' = (o = "ok")
         /\ cpc' = IF o = "ok" THEN "login" ELSE "done"
    /\ UNCHANGED <<HostVars, filter, version, outcome, runs>>

(* esxVI_Login opens the session on the host when served. *)
Login ==
    /\ cpc = "login"
    /\ \E o \in Outcomes :
         /\ hostSession' = (hostSession \/ Served(o))
         /\ cpc' = IF o = "ok" THEN "start" ELSE "done"
    /\ UNCHANGED <<hostTask, hostVersion, hostFilters, nextFilter,
                   service, filter, version, outcome, runs>>

(* esxVI_MigrateVM_Task and the other *_Task methods start a host task    *)
(* when served; the client gets the task reference only with "ok".        *)
StartTask ==
    /\ cpc = "start"
    /\ runs < MaxRuns
    /\ runs' = runs + 1
    /\ outcome' = "none"
    /\ version' = Initial
    /\ \E o \in Outcomes :
         /\ hostTask' = IF Served(o) THEN "queued" ELSE hostTask
         /\ hostVersion' = IF Served(o) THEN hostVersion + 1 ELSE hostVersion
         /\ cpc' = IF o = "ok" THEN "filter" ELSE AfterRun
    /\ UNCHANGED <<hostSession, hostFilters, nextFilter, service, filter>>

(* esxVI_CreateFilter: the host creates a filter on the task when served; *)
(* propertyFilter is set only when the reply deserialised.                *)
CreateFilter ==
    /\ cpc = "filter"
    /\ \E o \in Outcomes :
         /\ hostFilters' = IF Served(o) THEN hostFilters \cup {nextFilter}
                                        ELSE hostFilters
         /\ nextFilter' = IF Served(o) THEN nextFilter + 1 ELSE nextFilter
         /\ filter' = IF o = "ok" THEN nextFilter ELSE NoFilter
         /\ cpc' = IF o = "ok" THEN "wait" ELSE AfterRun
         /\ outcome' = IF o = "ok" THEN outcome ELSE "failed"
    /\ UNCHANGED <<hostSession, hostTask, hostVersion, service, version, runs>>

(* The update set WaitForUpdates returns for the version v: a snapshot    *)
(* for the initial version, the changes after v, or after the server's    *)
(* timeout an empty set that carries v again.                             *)
Update(v) ==
    IF v = Initial \/ hostVersion > v
      THEN [version |-> hostVersion, state |-> hostTask]
      ELSE [version |-> v, state |-> "none"]

(* A mutant: the poll loop only leaves on success. *)
ApplyUpdateSuccessOnly(u) ==
    /\ version' = u.version
    /\ IF u.state = "success"
         THEN /\ outcome' = u.state
              /\ cpc' = "destroy"
         ELSE /\ cpc' = "wait"
              /\ UNCHANGED outcome

(* The tracker keeps the returned version for the next poll and leaves    *)
(* the loop when the task's state is terminal.                            *)
ApplyUpdate(u) ==
    /\ version' = u.version
    /\ IF u.state \in Terminal
         THEN /\ outcome' = u.state
              /\ cpc' = "destroy"
         ELSE /\ cpc' = "wait"
              /\ UNCHANGED outcome

(* esxVI_WaitForUpdates(version) sends the long poll, or fails before     *)
(* the host saw it, which ends the poll loop.                             *)
WaitForUpdates ==
    /\ cpc = "wait"
    /\ \/ /\ cpc' = "polling"
          /\ UNCHANGED outcome
       \/ /\ cpc' = "destroy"
          /\ outcome' = "failed"
    /\ UNCHANGED <<HostVars, service, filter, version, runs>>

(* The long poll returns: the update set is applied, or Execute or the    *)
(* update set's deserialiser fails and ends the poll loop.                *)
UpdatesReturned ==
    /\ cpc = "polling"
    /\ \/ ApplyUpdate(Update(version))
       \/ /\ outcome' = "failed"
          /\ cpc' = "destroy"
          /\ UNCHANGED version
    /\ UNCHANGED <<HostVars, service, filter, runs>>

(* A mutant: the tracker keeps its reference when the destroy failed.    *)
DestroyKeepsFailedFilter ==
    /\ cpc = "destroy"
    /\ \E o \in Outcomes :
         /\ hostFilters' = IF Served(o) THEN hostFilters \ {filter} ELSE hostFilters
         /\ filter' = IF o = "lost" THEN filter ELSE NoFilter
    /\ cpc' = AfterRun
    /\ UNCHANGED <<hostSession, hostTask, hostVersion, nextFilter,
                   service, version, outcome, runs>>

(* esxVI_DestroyPropertyFilter: the host drops the filter when served.    *)
(* The tracker forgets its reference whatever the result.                 *)
DestroyPropertyFilter ==
    /\ cpc = "destroy"
    /\ \E o \in Outcomes :
         hostFilters' = IF Served(o) THEN hostFilters \ {filter} ELSE hostFilters
    /\ filter' = NoFilter
    /\ cpc' = AfterRun
    /\ UNCHANGED <<hostSession, hostTask, hostVersion, nextFilter,
                   service, version, outcome, runs>>

(* esxVI_Logout ends the session, and with it its filters, when served.   *)
Logout ==
    /\ cpc = "logout"
    /\ \E o \in Outcomes :
         /\ hostSession' = (hostSession /\ ~Served(o))
         /\ hostFilters' = IF Served(o) THEN {} ELSE hostFilters
    /\ cpc' = "done"
    /\ UNCHANGED <<hostTask, hostVersion, nextFilter, service, filter,
                   version, outcome, runs>>

(* The host runs the task: queued -> running -> success or error; every   *)
(* change of its state advances the property collector's version.         *)
HostTaskStep ==
    /\ \/ hostTask = "queued" /\ hostTask' = "running"
       \/ hostTask = "running" /\ hostTask' \in Terminal
    /\ hostVersion' = hostVersion + 1
    /\ UNCHANGED <<hostSession, hostFilters, nextFilter, cpc, service,
                   filter, version, outcome, runs>>

Client ==
    \/ RetrieveServiceContent
    \/ Login
    \/ StartTask
    \/ CreateFilter
    \/ WaitForUpdates
    \/ UpdatesReturned
    \/ DestroyPropertyFilter
    \/ Logout

Next == Client \/ HostTaskStep

(* The client's steps follow each other in one thread; the host works on  *)
(* a started task until it ends.                                          *)
Spec == Init /\ [][Next]_vars /\ WF_vars(Client) /\ WF_vars(HostTaskStep)

-----------------------------------------------------------------------------
(* Every WaitForUpdates loop ends: the task reaches a terminal state and  *)
(* the tracker sees it, or a call fails.                                  *)
PollLoopEnds == [](cpc = "wait" => <>(cpc \notin {"wait", "polling"}))

(* The tracker's propertyFilter reference always names a filter the host *)
(* still holds: it is set only from a CreateFilter reply and dropped by   *)
(* every destroy, so WaitForUpdates never polls a filter that is gone.    *)
FilterRefValid ==
    filter # NoFilter => filter \in hostFilters

(* After every run, the session holds no property filter of that run:     *)
(* the tracker destroys the filter it created on every path.              *)
NoFilterLeak ==
    cpc \in {"start", "logout"} => hostFilters = {}
=============================================================================
