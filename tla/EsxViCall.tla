------------------------------ MODULE EsxViCall ------------------------------
(***************************************************************************)
(* One call of a VI API method of the ESX driver (src/esx/esx_vi_methods.c)*)
(* All of these methods follow one template:                              *)
(*   - "Invalid call" when ctx->service is NULL, "Invalid argument" when  *)
(*     the out parameter is already set;                                  *)
(*   - the SOAP request is written into a virBuffer, an                   *)
(*     esxVI_RemoteRequest is allocated and the arguments serialised;     *)
(*   - if the buffer is not in error its content is moved into            *)
(*     remoteRequest->request, and a static XPath expression is stored    *)
(*     in remoteRequest->xpathExpression;                                 *)
(*   - the request is executed and the response deserialised;             *)
(*   - "failure:" frees what is left in the buffer and sets -1,           *)
(*     "cleanup:" NULLs the static fields and frees request and response. *)
(* Three request kinds exist: a static request string                     *)
(* (RetrieveServiceContent), a request built into the buffer and moved    *)
(* into the remote request, and a request built into a local string that  *)
(* is handed to esxVI_StartVirtualMachineTask (MigrateVM_Task,            *)
(* ReconfigVM_Task).  The methods differ only in the facts recorded by    *)
(* their Shape below; the steps are common.                               *)
(*                                                                         *)
(* The data are abstracted to who owns which block: "content" is the heap *)
(* block of the request text, "remoteRequest" and "remoteResponse" the    *)
(* heap structs, "staticRequest" and "staticXPath" the string constants   *)
(* that must never be passed to free().                                   *)
(***************************************************************************)
EXTENDS Integers, FiniteSets

(***************************************************************************)
(* The shape of each method, read off its body:                           *)
(*   service      - it returns "Invalid call" when ctx->service is NULL;  *)
(*   out          - its out parameter: "service" (&ctx->service, checked  *)
(*                  to be NULL), "fresh" (checked to be NULL), "value"     *)
(*                  (only checked to be non-NULL), "none";                *)
(*   kind         - "static", "remote" or "task" as above;                *)
(*   xpath        - it stores a static XPath expression in the request;   *)
(*   required     - a required argument comes from the caller and may be  *)
(*                  NULL, which makes its serialiser fail;                *)
(*   decode       - what the response is deserialised into: "object",     *)
(*                  "list" (may be empty) or "none";                      *)
(*   nullsRequest - cleanup NULLs remoteRequest->request before freeing;  *)
(*   nullsXPath   - cleanup NULLs remoteRequest->xpathExpression.         *)
(***************************************************************************)
ShapeOf(service, out, kind, xpath, required, decode, nullsRequest) ==
    [service |-> service, out |-> out, kind |-> kind, xpath |-> xpath,
     required |-> required, decode |-> decode,
     nullsRequest |-> nullsRequest, nullsXPath |-> xpath]

\* A RetrieveServiceContent whose cleanup does not NULL the static request.
RetrieveServiceContentShapeFreesStatic ==
    ShapeOf(FALSE, "service", "static", TRUE, FALSE, "object", FALSE)

RetrieveServiceContentShape ==
    ShapeOf(FALSE, "service", "static", TRUE, FALSE, "object", TRUE)
LoginShape == ShapeOf(TRUE, "fresh", "remote", TRUE, TRUE, "object", FALSE)
LogoutShape == ShapeOf(TRUE, "none", "remote", FALSE, FALSE, "none", FALSE)
SessionIsActiveShape ==
    ShapeOf(TRUE, "value", "remote", TRUE, TRUE, "object", FALSE)
RetrievePropertiesShape ==
    ShapeOf(TRUE, "fresh", "remote", TRUE, TRUE, "list", FALSE)
MigrateVMTaskShape == ShapeOf(FALSE, "fresh", "task", FALSE, TRUE, "object", FALSE)
ReconfigVMTaskShape == ShapeOf(FALSE, "fresh", "task", FALSE, TRUE, "object", FALSE)
CreateFilterShape == ShapeOf(TRUE, "fresh", "remote", TRUE, TRUE, "object", FALSE)
DestroyPropertyFilterShape ==
    ShapeOf(TRUE, "none", "remote", FALSE, TRUE, "none", FALSE)
WaitForUpdatesShape == ShapeOf(TRUE, "fresh", "remote", TRUE, TRUE, "object", FALSE)
ValidateMigrationShape ==
    ShapeOf(TRUE, "fresh", "remote", TRUE, TRUE, "list", FALSE)
FindByIpShape == ShapeOf(TRUE, "fresh", "remote", TRUE, TRUE, "object", FALSE)
FindByUuidShape == ShapeOf(TRUE, "fresh", "remote", TRUE, TRUE, "object", FALSE)
QueryAvailablePerfMetricShape ==
    ShapeOf(TRUE, "fresh", "remote", TRUE, TRUE, "list", FALSE)
QueryPerfCounterShape == ShapeOf(TRUE, "fresh", "remote", TRUE, TRUE, "list", FALSE)
QueryPerfShape == ShapeOf(TRUE, "fresh", "remote", TRUE, TRUE, "list", FALSE)

Shape == [RetrieveServiceContent   |-> RetrieveServiceContentShape,
          Login                    |-> LoginShape,
          Logout                   |-> LogoutShape,
          SessionIsActive          |-> SessionIsActiveShape,
          RetrieveProperties       |-> RetrievePropertiesShape,
          MigrateVM_Task           |-> MigrateVMTaskShape,
          ReconfigVM_Task          |-> ReconfigVMTaskShape,
          CreateFilter             |-> CreateFilterShape,
          DestroyPropertyFilter    |-> DestroyPropertyFilterShape,
          WaitForUpdates           |-> WaitForUpdatesShape,
          ValidateMigration        |-> ValidateMigrationShape,
          FindByIp                 |-> FindByIpShape,
          FindByUuid               |-> FindByUuidShape,
          QueryAvailablePerfMetric |-> QueryAvailablePerfMetricShape,
          QueryPerfCounter         |-> QueryPerfCounterShape,
          QueryPerf                |-> QueryPerfShape]

Methods == DOMAIN Shape

Heap == {"content", "remoteRequest", "remoteResponse"}
Static == {"staticRequest", "staticXPath"}
Block == Heap \cup Static
Pcs == {"Idle", "Build", "Check", "Execute", "Deserialize", "Failure", "Cleanup"}

VARIABLES
    pc,        \* where the current call is; "Idle" between calls
    method,    \* the method of the current or last call
    service,   \* ctx->service != NULL
    buf,       \* the virBuffer holds the request text: "content" or "none"
    bufErr,    \* virBufferError(&buffer): an append ran out of memory
    reqAlloc,  \* remoteRequest != NULL
    request,   \* remoteRequest->request: "null", "heap" (the content) or "static"
    xpath,     \* remoteRequest->xpathExpression: "null" or "static"
    resp,      \* remoteResponse != NULL
    local,     \* the local char *request of the task methods: "null" or "heap"
    live,      \* heap blocks allocated during this call
    freed,     \* how often free() was called on each block during this call
    executed,  \* how often the host executed the request of this call
    out,       \* the call stored a value in its out parameter
    result     \* the value the call returns

vars == <<pc, method, service, buf, bufErr, reqAlloc, request, xpath, resp,
          local, live, freed, executed, out, result>>
callVars == <<buf, bufErr, reqAlloc, request, xpath, resp, local>>

K == Shape[method]

\* The blocks a pointer field refers to.
Pointee(p) == CASE p = "heap"   -> {"content"}
                [] p = "static" -> {"staticRequest"}
                [] OTHER        -> {}
XPathPointee(x) == IF x = "static" THEN {"staticXPath"} ELSE {}

\* free() is called once on each block of F.
Free(F) == freed' = [b \in Block |-> IF b \in F THEN freed[b] + 1 ELSE freed[b]]

NoneFreed == [b \in Block |-> 0]

Init == /\ pc = "Idle"
        /\ method = "none"
        /\ service = FALSE
        /\ buf = "none"
        /\ bufErr = FALSE
        /\ reqAlloc = FALSE
        /\ request = "null"
        /\ xpath = "null"
        /\ resp = FALSE
        /\ local = "null"
        /\ live = {}
        /\ freed = NoneFreed
        /\ executed = 0
        /\ out = FALSE
        /\ result = 0

-----------------------------------------------------------------------------
(* The guards at the top of every method: both return -1 at once.         *)
Reject(m) == /\ pc = "Idle"
             /\ method' = m
             /\ result' = -1
             /\ executed' = 0
             /\ out' = FALSE
             /\ live' = {}
             /\ freed' = NoneFreed
             /\ UNCHANGED <<pc, service, callVars>>

\* if (ctx->service == NULL) { "Invalid call"; return -1; }
InvalidCall(m) == /\ Shape[m].service
                  /\ ~service
                  /\ Reject(m)

\* if (out == NULL || *out != NULL) { "Invalid argument"; return -1; }
\* A "fresh" out parameter is non-NULL when the caller did not reset it;
\* a "value" one (SessionIsActive's active) is NULL when the caller passes
\* no result pointer.
InvalidArgument(m) == /\ Shape[m].service => service
                      /\ \/ Shape[m].out = "service" /\ service
                         \/ Shape[m].out \in {"fresh", "value"}
                      /\ Reject(m)

\* Both guards pass; the call starts building its request.
Begin(m) == /\ pc = "Idle"
            /\ Shape[m].service => service
            /\ Shape[m].out = "service" => ~service
            /\ pc' = "Build"
            /\ method' = m
            /\ result' = 0
            /\ executed' = 0
            /\ out' = FALSE
            /\ live' = {}
            /\ freed' = NoneFreed
            /\ UNCHANGED <<service, callVars>>

(* RetrieveServiceContent: esxVI_RemoteRequest_Alloc, then the static      *)
(* request and XPath are stored in the request.                           *)
BuildStatic == /\ pc = "Build"
               /\ K.kind = "static"
               /\ \/ /\ reqAlloc' = TRUE
                     /\ request' = "static"
                     /\ xpath' = "static"
                     /\ live' = {"remoteRequest"}
                     /\ pc' = "Execute"
                  \/ /\ pc' = "Failure"
                     /\ UNCHANGED <<reqAlloc, request, xpath, live>>
               /\ UNCHANGED <<method, service, buf, bufErr, resp, local, freed,
                              executed, out, result>>

(* The header is appended to the buffer; the remote request is allocated  *)
(* (remote kind) and the arguments serialised.  An append that runs out   *)
(* of memory puts the buffer in error and drops its content; a failed     *)
(* allocation or a missing required argument jumps to failure.            *)
Build == /\ pc = "Build"
         /\ K.kind \in {"remote", "task"}
         /\ \E allocOk, missing, oom \in BOOLEAN :
              LET alloc == K.kind = "remote" /\ allocOk
              IN /\ buf' = IF oom THEN "none" ELSE "content"
                 /\ bufErr' = oom
                 /\ reqAlloc' = alloc
                 /\ live' = (IF oom THEN {} ELSE {"content"})
                              \cup (IF alloc THEN {"remoteRequest"} ELSE {})
                 /\ pc' = IF (K.kind = "remote" /\ ~allocOk)
                             \/ (K.required /\ missing)
                          THEN "Failure" ELSE "Check"
         /\ UNCHANGED <<method, service, request, xpath, resp, local, freed,
                        executed, out, result>>

(* The footer is appended; if (virBufferError(&buffer)) goto failure;     *)
(* otherwise the content is moved out of the buffer into the request      *)
(* (remote kind) or into the local request string (task kind).            *)
Check == /\ pc = "Check"
         /\ \/ /\ bufErr
               /\ pc' = "Failure"
               /\ UNCHANGED <<buf, request, xpath, local>>
            \/ /\ ~bufErr
               /\ pc' = "Execute"
               /\ buf' = "none"
               /\ \/ /\ K.kind = "remote"
                     /\ request' = "heap"
                     /\ xpath' = IF K.xpath THEN "static" ELSE "null"
                     /\ UNCHANGED local
                  \/ /\ K.kind = "task"
                     /\ local' = "heap"
                     /\ UNCHANGED <<request, xpath>>
         /\ UNCHANGED <<method, service, bufErr, reqAlloc, resp, live, freed,
                        executed, out, result>>

\* An Execute that sends the request again when the reply was lost.
ExecuteRetries ==
    /\ pc = "Execute"
    /\ K.kind \in {"remote", "static"}
    /\ \/ /\ executed' = executed + 1
          /\ UNCHANGED <<resp, live, pc>>
       \/ /\ executed' = executed + 1
          /\ resp' = TRUE
          /\ live' = live \cup {"remoteResponse"}
          /\ pc' = IF K.decode = "none" THEN "Cleanup" ELSE "Deserialize"
    /\ UNCHANGED <<method, service, buf, bufErr, reqAlloc, request, xpath,
                   local, freed, out, result>>

(* esxVI_RemoteRequest_Execute: it fails before the host saw the request, *)
(* or after the host executed it (lost reply, SOAP fault), in both cases  *)
(* possibly leaving a response to free; or it returns a response.         *)
Execute == /\ pc = "Execute"
           /\ K.kind \in {"remote", "static"}
           /\ \/ \E reached, kept \in BOOLEAN :
                   /\ executed' = IF reached THEN executed + 1 ELSE executed
                   /\ resp' = kept
                   /\ live' = IF kept THEN live \cup {"remoteResponse"} ELSE live
                   /\ pc' = "Failure"
              \/ /\ executed' = executed + 1
                 /\ resp' = TRUE
                 /\ live' = live \cup {"remoteResponse"}
                 /\ pc' = IF K.decode = "none" THEN "Cleanup" ELSE "Deserialize"
           /\ UNCHANGED <<method, service, buf, bufErr, reqAlloc, request, xpath,
                          local, freed, out, result>>

(* esxVI_StartVirtualMachineTask with the local request string: it fails  *)
(* before or after the host started the task, or returns the task.        *)
StartTask == /\ pc = "Execute"
             /\ K.kind = "task"
             /\ \/ \E reached \in BOOLEAN :
                     /\ executed' = IF reached THEN executed + 1 ELSE executed
                     /\ pc' = "Failure"
                     /\ UNCHANGED out
                \/ /\ executed' = executed + 1
                   /\ out' = TRUE
                   /\ pc' = "Cleanup"
             /\ UNCHANGED <<method, service, callVars, live, freed, result>>

(* esxVI_RemoteResponse_DeserializeXPathObject[List|AsManagedObjectReference]:*)
(* fails (no or mistyped value) or stores the value; a list may be empty. *)
(* RetrieveServiceContent stores into ctx->service.                       *)
Deserialize == /\ pc = "Deserialize"
               /\ \/ /\ pc' = "Failure"
                     /\ UNCHANGED <<out, service>>
                  \/ /\ pc' = "Cleanup"
                     /\ out' \in IF K.decode = "list" THEN BOOLEAN ELSE {TRUE}
                     /\ service' = (service \/ K.out = "service")
               /\ UNCHANGED <<method, callVars, live, freed, executed, result>>

\* A failure label that does not free the text left in the buffer.
FailureKeepsBuffer == /\ pc = "Failure"
                      /\ buf' = "none"
                      /\ result' = -1
                      /\ pc' = "Cleanup"
                      /\ UNCHANGED <<method, service, bufErr, reqAlloc, request,
                                     xpath, resp, local, live, freed, executed, out>>

\* failure: free(virBufferContentAndReset(&buffer)); result = -1; goto cleanup;
Failure == /\ pc = "Failure"
           /\ Free(IF buf = "content" THEN {"content"} ELSE {})
           /\ buf' = "none"
           /\ result' = -1
           /\ pc' = "Cleanup"
           /\ UNCHANGED <<method, service, bufErr, reqAlloc, request, xpath, resp,
                          local, live, executed, out>>

(* cleanup: the static fields are NULLed, then esxVI_RemoteRequest_Free   *)
(* frees the request text, the XPath and the struct, and                  *)
(* esxVI_RemoteResponse_Free the response.                                *)
Cleanup == /\ pc = "Cleanup"
           /\ K.kind \in {"remote", "static"}
           /\ LET req == IF reqAlloc /\ K.nullsRequest THEN "null" ELSE request
                  xp  == IF reqAlloc /\ K.nullsXPath THEN "null" ELSE xpath
              IN Free((IF reqAlloc
                       THEN {"remoteRequest"} \cup Pointee(req) \cup XPathPointee(xp)
                       ELSE {})
                      \cup (IF resp THEN {"remoteResponse"} ELSE {}))
           /\ reqAlloc' = FALSE
           /\ request' = "null"
           /\ xpath' = "null"
           /\ resp' = FALSE
           /\ pc' = "Idle"
           /\ UNCHANGED <<method, service, buf, bufErr, local, live, executed,
                          out, result>>

\* cleanup: VIR_FREE(request); return result;   (task kind)
CleanupTask == /\ pc = "Cleanup"
               /\ K.kind = "task"
               /\ Free(IF local = "heap" THEN {"content"} ELSE {})
               /\ local' = "null"
               /\ pc' = "Idle"
               /\ UNCHANGED <<method, service, buf, bufErr, reqAlloc, request,
                              xpath, resp, live, executed, out, result>>

Next == \/ \E m \in Methods : InvalidCall(m) \/ InvalidArgument(m) \/ Begin(m)
        \/ BuildStatic \/ Build \/ Check \/ Execute \/ StartTask
        \/ Deserialize \/ Failure \/ Cleanup \/ CleanupTask

Spec == Init /\ [][Next]_vars

-----------------------------------------------------------------------------
TypeOK == /\ pc \in Pcs
          /\ method \in Methods \cup {"none"}
          /\ service \in BOOLEAN
          /\ buf \in {"none", "content"}
          /\ bufErr \in BOOLEAN
          /\ reqAlloc \in BOOLEAN
          /\ request \in {"null", "heap", "static"}
          /\ xpath \in {"null", "static"}
          /\ resp \in BOOLEAN
          /\ local \in {"null", "heap"}
          /\ live \subseteq Heap
          /\ freed \in [Block -> Nat]
          /\ executed \in Nat
          /\ out \in BOOLEAN
          /\ result \in {0, -1}

(* Every exit path of every method (each guard, each failed allocation,   *)
(* serialisation, append, execution or deserialisation) calls free() at   *)
(* most once on each heap block the call allocated, and never on the      *)
(* static request string or the static XPath expression: the NULLing of   *)
(* the static fields in cleanup and the reset of the buffer by            *)
(* virBufferContentAndReset are what keep failure and cleanup from        *)
(* freeing a block twice or freeing a string constant.                    *)
FreeSafety == /\ \A b \in Heap : freed[b] <= 1
              /\ \A s \in Static : freed[s] = 0

(* When a method has returned, on success or on any failure, every heap   *)
(* block it allocated (request text, remote request, response) has been   *)
(* freed: the failure label frees text still in the buffer, cleanup what *)
(* was moved into the request.                                            *)
NoLeak == pc = "Idle" => \A b \in live : freed[b] = 1

(* The call implements the abstract call: rejected at once or run to      *)
(* exactly one result, the request reaching the host at most once, and 0  *)
(* returned only for a request the host executed.                         *)
Abs == INSTANCE EsxViCallAbstract
         WITH status <- IF pc = "Idle" THEN "idle" ELSE "busy",
              call   <- method,
              served <- executed,
              result <- IF pc = "Idle" THEN result ELSE 0
AbstractCall == Abs!ASpec
=============================================================================
