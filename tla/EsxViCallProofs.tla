--------------------------- MODULE EsxViCallProofs ---------------------------
(***************************************************************************)
(* Proofs about one call of a VI API method (EsxViCall): the type         *)
(* invariant, and that on every exit path no heap block is freed twice,   *)
(* no string constant is freed, and nothing the call allocated is left    *)
(* allocated when it returns.                                             *)
(***************************************************************************)
EXTENDS EsxViCall, TLAPS

(***************************************************************************)
(* The facts about the method shapes that the proofs use: only the static *)
(* request is NULLed before it is freed, and a method NULLs its XPath     *)
(* exactly when it stores one.                                            *)
(***************************************************************************)
ShapeOK(s) ==
    /\ s.service \in BOOLEAN
    /\ s.out \in {"service", "fresh", "value", "none"}
    /\ s.kind \in {"static", "remote", "task"}
    /\ s.xpath \in BOOLEAN
    /\ s.required \in BOOLEAN
    /\ s.decode \in {"object", "list", "none"}
    /\ s.nullsRequest = (s.kind = "static")
    /\ s.nullsXPath = s.xpath
    /\ s.kind = "static" => s.xpath

OwnBuf == buf = "content"
OwnReq == request = "heap"
OwnLoc == local = "heap"

\* The request text has at most one owner, and it is freed once it has none.
ContentInv ==
    /\ ~(OwnBuf /\ OwnReq) /\ ~(OwnBuf /\ OwnLoc) /\ ~(OwnReq /\ OwnLoc)
    /\ (OwnBuf \/ OwnReq \/ OwnLoc) => "content" \in live /\ freed["content"] = 0
    /\ "content" \in live => freed["content"] = 1 \/ OwnBuf \/ OwnReq \/ OwnLoc
    /\ "content" \notin live => freed["content"] = 0
    /\ freed["content"] <= 1

\* A struct is allocated and unfreed exactly while its pointer is set.
StructInv(b, isSet) ==
    /\ isSet => b \in live /\ freed[b] = 0
    /\ b \in live => isSet \/ freed[b] = 1
    /\ b \notin live => freed[b] = 0
    /\ freed[b] <= 1

\* Which fields may be set at which point of the call.
FieldsInv ==
    /\ (request # "null" \/ xpath # "null") => reqAlloc
    /\ request = "static" => K.nullsRequest
    /\ OwnReq => ~K.nullsRequest
    /\ xpath = "static" => K.nullsXPath
    /\ OwnLoc => K.kind = "task"
    /\ (reqAlloc \/ resp) => K.kind \in {"remote", "static"}
    /\ OwnBuf => pc \in {"Check", "Failure"}

PcInv ==
    /\ pc # "Idle" => method \in Methods
    /\ pc \in {"Idle", "Build"} =>
         /\ ~reqAlloc /\ ~resp /\ ~OwnBuf /\ ~OwnLoc
         /\ request = "null" /\ xpath = "null"
    /\ pc = "Build" => live = {} /\ freed = NoneFreed
    /\ pc = "Check" =>
         /\ request = "null" /\ xpath = "null" /\ ~resp /\ ~OwnLoc
         /\ K.kind \in {"remote", "task"}
         /\ reqAlloc <=> K.kind = "remote"
         /\ OwnBuf <=> ~bufErr
    /\ pc = "Execute" => ~resp
    /\ pc \in {"Build", "Check", "Execute"} => "remoteResponse" \notin live

IInv == /\ TypeOK
        /\ ContentInv
        /\ StructInv("remoteRequest", reqAlloc)
        /\ StructInv("remoteResponse", resp)
        /\ freed["staticRequest"] = 0 /\ freed["staticXPath"] = 0
        /\ FieldsInv
        /\ PcInv

-----------------------------------------------------------------------------
\* A shape built by ShapeOf satisfies ShapeOK when its arguments do.
LEMMA ShapeOfOK ==
    ASSUME NEW sv \in BOOLEAN, NEW o \in {"service", "fresh", "value", "none"},
           NEW k \in {"static", "remote", "task"}, NEW x \in BOOLEAN,
           NEW rq \in BOOLEAN, NEW d \in {"object", "list", "none"},
           NEW nr \in BOOLEAN, nr = (k = "static"), k = "static" => x
    PROVE  ShapeOK(ShapeOf(sv, o, k, x, rq, d, nr))
BY DEF ShapeOK, ShapeOf

\* Every method's shape satisfies ShapeOK.
LEMMA ShapesOK == \A m \in Methods : ShapeOK(Shape[m])
<1> SUFFICES ASSUME NEW m \in Methods PROVE ShapeOK(Shape[m])
  OBVIOUS
<1>0. m \in {"RetrieveServiceContent", "Login", "Logout", "SessionIsActive", "RetrieveProperties", "MigrateVM_Task", "ReconfigVM_Task", "CreateFilter", "DestroyPropertyFilter", "WaitForUpdates", "ValidateMigration", "FindByIp", "FindByUuid", "QueryAvailablePerfMetric", "QueryPerfCounter", "QueryPerf"}
  BY DEF Methods, Shape
<1>1. CASE m = "RetrieveServiceContent"
  <2>1. Shape[m] = RetrieveServiceContentShape
    BY <1>1 DEF Shape
  <2>2. ShapeOK(RetrieveServiceContentShape)
    BY DEF ShapeOK, ShapeOf, RetrieveServiceContentShape
  <2>3. QED
    BY <2>1, <2>2
<1>2. CASE m = "Login"
  <2>1. Shape[m] = LoginShape
    BY <1>2 DEF Shape
  <2>2. ShapeOK(LoginShape)
    BY DEF ShapeOK, ShapeOf, LoginShape
  <2>3. QED
    BY <2>1, <2>2
<1>3. CASE m = "Logout"
  <2>1. Shape[m] = LogoutShape
    BY <1>3 DEF Shape
  <2>2. ShapeOK(LogoutShape)
    BY DEF ShapeOK, ShapeOf, LogoutShape
  <2>3. QED
    BY <2>1, <2>2
<1>4. CASE m = "SessionIsActive"
  <2>1. Shape[m] = SessionIsActiveShape
    BY <1>4 DEF Shape
  <2>2. ShapeOK(SessionIsActiveShape)
    BY DEF ShapeOK, ShapeOf, SessionIsActiveShape
  <2>3. QED
    BY <2>1, <2>2
<1>5. CASE m = "RetrieveProperties"
  <2>1. Shape[m] = RetrievePropertiesShape
    BY <1>5 DEF Shape
  <2>2. ShapeOK(RetrievePropertiesShape)
    BY DEF ShapeOK, ShapeOf, RetrievePropertiesShape
  <2>3. QED
    BY <2>1, <2>2
<1>6. CASE m = "MigrateVM_Task"
  <2>1. Shape[m] = MigrateVMTaskShape
    BY <1>6 DEF Shape
  <2>2. ShapeOK(MigrateVMTaskShape)
    BY DEF ShapeOK, ShapeOf, MigrateVMTaskShape
  <2>3. QED
    BY <2>1, <2>2
<1>7. CASE m = "ReconfigVM_Task"
  <2>1. Shape[m] = ReconfigVMTaskShape
    BY <1>7 DEF Shape
  <2>2. ShapeOK(ReconfigVMTaskShape)
    BY DEF ShapeOK, ShapeOf, ReconfigVMTaskShape
  <2>3. QED
    BY <2>1, <2>2
<1>8. CASE m = "CreateFilter"
  <2>1. Shape[m] = CreateFilterShape
    BY <1>8 DEF Shape
  <2>2. ShapeOK(CreateFilterShape)
    BY DEF ShapeOK, ShapeOf, CreateFilterShape
  <2>3. QED
    BY <2>1, <2>2
<1>9. CASE m = "DestroyPropertyFilter"
  <2>1. Shape[m] = DestroyPropertyFilterShape
    BY <1>9 DEF Shape
  <2>2. ShapeOK(DestroyPropertyFilterShape)
    BY DEF ShapeOK, ShapeOf, DestroyPropertyFilterShape
  <2>3. QED
    BY <2>1, <2>2
<1>10. CASE m = "WaitForUpdates"
  <2>1. Shape[m] = WaitForUpdatesShape
    BY <1>10 DEF Shape
  <2>2. ShapeOK(WaitForUpdatesShape)
    BY DEF ShapeOK, ShapeOf, WaitForUpdatesShape
  <2>3. QED
    BY <2>1, <2>2
<1>11. CASE m = "ValidateMigration"
  <2>1. Shape[m] = ValidateMigrationShape
    BY <1>11 DEF Shape
  <2>2. ShapeOK(ValidateMigrationShape)
    BY DEF ShapeOK, ShapeOf, ValidateMigrationShape
  <2>3. QED
    BY <2>1, <2>2
<1>12. CASE m = "FindByIp"
  <2>1. Shape[m] = FindByIpShape
    BY <1>12 DEF Shape
  <2>2. ShapeOK(FindByIpShape)
    BY DEF ShapeOK, ShapeOf, FindByIpShape
  <2>3. QED
    BY <2>1, <2>2
<1>13. CASE m = "FindByUuid"
  <2>1. Shape[m] = FindByUuidShape
    BY <1>13 DEF Shape
  <2>2. ShapeOK(FindByUuidShape)
    BY DEF ShapeOK, ShapeOf, FindByUuidShape
  <2>3. QED
    BY <2>1, <2>2
<1>14. CASE m = "QueryAvailablePerfMetric"
  <2>1. Shape[m] = QueryAvailablePerfMetricShape
    BY <1>14 DEF Shape
  <2>2. ShapeOK(QueryAvailablePerfMetricShape)
    BY DEF ShapeOK, ShapeOf, QueryAvailablePerfMetricShape
  <2>3. QED
    BY <2>1, <2>2
<1>15. CASE m = "QueryPerfCounter"
  <2>1. Shape[m] = QueryPerfCounterShape
    BY <1>15 DEF Shape
  <2>2. ShapeOK(QueryPerfCounterShape)
    BY DEF ShapeOK, ShapeOf, QueryPerfCounterShape
  <2>3. QED
    BY <2>1, <2>2
<1>16. CASE m = "QueryPerf"
  <2>1. Shape[m] = QueryPerfShape
    BY <1>16 DEF Shape
  <2>2. ShapeOK(QueryPerfShape)
    BY DEF ShapeOK, ShapeOf, QueryPerfShape
  <2>3. QED
    BY <2>1, <2>2
<1>17. QED
  BY <1>0, <1>1, <1>2, <1>3, <1>4, <1>5, <1>6, <1>7, <1>8, <1>9, <1>10, <1>11, <1>12, <1>13, <1>14, <1>15, <1>16

\* The shape of the method of a running call satisfies ShapeOK.
LEMMA CurrentShapeOK == IInv /\ pc # "Idle" => ShapeOK(K)
BY ShapesOK DEF IInv, PcInv, K

USE DEF IInv, ContentInv, StructInv, FieldsInv, PcInv, TypeOK, OwnBuf, OwnReq,
        OwnLoc, Block, Heap, Static, Pcs

\* The initial state satisfies the inductive invariant.
LEMMA InitIInv == Init => IInv
<1> SUFFICES ASSUME Init PROVE IInv
  OBVIOUS
<1>1. TypeOK
  BY DEF Init, NoneFreed
<1>2. ContentInv /\ StructInv("remoteRequest", reqAlloc) /\ StructInv("remoteResponse", resp)
  BY DEF Init, NoneFreed
<1>3. FieldsInv /\ PcInv
  BY DEF Init, NoneFreed
<1>4. freed["staticRequest"] = 0 /\ freed["staticXPath"] = 0
  BY DEF Init, NoneFreed
<1>5. QED
  BY <1>1, <1>2, <1>3, <1>4

\* The guards that reject a call leave the (clean) idle state clean.
LEMMA RejectIInv == ASSUME IInv, NEW m \in Methods, Reject(m) PROVE IInv'
<1>1. pc = "Idle" /\ ~reqAlloc /\ ~resp /\ ~OwnBuf /\ ~OwnLoc
      /\ request = "null" /\ xpath = "null"
  BY DEF Reject
<1>2. TypeOK'
  BY DEF Reject, NoneFreed, callVars
<1>3. ContentInv' /\ StructInv("remoteRequest", reqAlloc)'
      /\ StructInv("remoteResponse", resp)'
      /\ (freed["staticRequest"] = 0 /\ freed["staticXPath"] = 0)'
  BY <1>1 DEF Reject, NoneFreed, callVars
<1>4. FieldsInv' /\ PcInv'
  BY <1>1 DEF Reject, callVars
<1>5. QED
  BY <1>2, <1>3, <1>4

\* A call that passes its guards starts from the clean idle state.
LEMMA BeginIInv == ASSUME IInv, NEW m \in Methods, Begin(m) PROVE IInv'
<1>1. pc = "Idle" /\ ~reqAlloc /\ ~resp /\ ~OwnBuf /\ ~OwnLoc
      /\ request = "null" /\ xpath = "null"
  BY DEF Begin
<1>2. TypeOK'
  BY DEF Begin, NoneFreed, callVars
<1>3. ContentInv' /\ StructInv("remoteRequest", reqAlloc)'
      /\ StructInv("remoteResponse", resp)'
      /\ (freed["staticRequest"] = 0 /\ freed["staticXPath"] = 0)'
  BY <1>1 DEF Begin, NoneFreed, callVars
<1>4. FieldsInv' /\ PcInv'
  BY <1>1 DEF Begin, callVars
<1>5. QED
  BY <1>2, <1>3, <1>4

\* Storing the static request and XPath, or failing to allocate.
LEMMA BuildStaticIInv == ASSUME IInv, BuildStatic PROVE IInv'
<1>1. ShapeOK(K) /\ K' = K
  BY CurrentShapeOK DEF BuildStatic, K
<1>2. CASE /\ reqAlloc' = TRUE /\ request' = "static" /\ xpath' = "static"
           /\ live' = {"remoteRequest"} /\ pc' = "Execute"
  BY <1>1, <1>2 DEF BuildStatic, ShapeOK
<1>3. CASE pc' = "Failure" /\ UNCHANGED <<reqAlloc, request, xpath, live>>
  BY <1>1, <1>3 DEF BuildStatic, ShapeOK
<1>4. QED
  BY <1>2, <1>3 DEF BuildStatic

\* Building the request text (and the remote request) in the buffer.
LEMMA BuildIInv == ASSUME IInv, Build PROVE IInv'
<1>1. ShapeOK(K) /\ K' = K
  BY CurrentShapeOK DEF Build, K
<1>2. QED
  BY <1>1 DEF Build, ShapeOK, NoneFreed

\* The footer check, and the move of the text out of the buffer.
LEMMA CheckIInv == ASSUME IInv, Check PROVE IInv'
<1>1. ShapeOK(K) /\ K' = K
  BY CurrentShapeOK DEF Check, K
<1> USE DEF Check
<1>2. CASE bufErr /\ pc' = "Failure" /\ UNCHANGED <<buf, request, xpath, local>>
  BY <1>1, <1>2 DEF ShapeOK
<1>3. CASE /\ ~bufErr /\ pc' = "Execute" /\ buf' = "none"
           /\ K.kind = "remote" /\ request' = "heap"
           /\ xpath' = IF K.xpath THEN "static" ELSE "null"
           /\ UNCHANGED local
  <2>1. TypeOK'
    BY <1>1, <1>3 DEF ShapeOK
  <2>2. ContentInv'
    BY <1>1, <1>3 DEF ShapeOK
  <2>3. StructInv("remoteRequest", reqAlloc)'
    BY <1>1, <1>3 DEF ShapeOK
  <2>4. StructInv("remoteResponse", resp)'
    BY <1>1, <1>3 DEF ShapeOK
  <2>5. (freed["staticRequest"] = 0 /\ freed["staticXPath"] = 0)'
    BY <1>1, <1>3 DEF ShapeOK
  <2>6. FieldsInv'
    BY <1>1, <1>3 DEF ShapeOK
  <2>7. PcInv'
    BY <1>1, <1>3 DEF ShapeOK
  <2>8. QED
    BY <2>1, <2>2, <2>3, <2>4, <2>5, <2>6, <2>7
<1>4. CASE /\ ~bufErr /\ pc' = "Execute" /\ buf' = "none"
           /\ K.kind = "task" /\ local' = "heap"
           /\ UNCHANGED <<request, xpath>>
  <2>1. TypeOK'
    BY <1>1, <1>4 DEF ShapeOK
  <2>2. ContentInv'
    BY <1>1, <1>4 DEF ShapeOK
  <2>3. StructInv("remoteRequest", reqAlloc)'
    BY <1>1, <1>4 DEF ShapeOK
  <2>4. StructInv("remoteResponse", resp)'
    BY <1>1, <1>4 DEF ShapeOK
  <2>5. (freed["staticRequest"] = 0 /\ freed["staticXPath"] = 0)'
    BY <1>1, <1>4 DEF ShapeOK
  <2>6. FieldsInv'
    BY <1>1, <1>4 DEF ShapeOK
  <2>7. PcInv'
    BY <1>1, <1>4 DEF ShapeOK
  <2>8. QED
    BY <2>1, <2>2, <2>3, <2>4, <2>5, <2>6, <2>7
<1>5. QED
  BY <1>2, <1>3, <1>4

\* Executing the request: a failure before or after the host saw it,
\* possibly with a response to free, or a response.
LEMMA ExecuteIInv == ASSUME IInv, Execute PROVE IInv'
<1>1. ShapeOK(K) /\ K' = K
  BY CurrentShapeOK DEF Execute, K
<1> USE DEF Execute
<1>2. CASE \E reached, kept \in BOOLEAN :
             /\ executed' = IF reached THEN executed + 1 ELSE executed
             /\ resp' = kept
             /\ live' = IF kept THEN live \cup {"remoteResponse"} ELSE live
             /\ pc' = "Failure"
  <2>1. PICK reached, kept \in BOOLEAN :
             /\ executed' = IF reached THEN executed + 1 ELSE executed
             /\ resp' = kept
             /\ live' = IF kept THEN live \cup {"remoteResponse"} ELSE live
             /\ pc' = "Failure"
    BY <1>2
  <2>2. CASE kept
    <3>1. TypeOK'
      BY <1>1, <2>1, <2>2 DEF ShapeOK
    <3>2. ContentInv'
      BY <1>1, <2>1, <2>2 DEF ShapeOK
    <3>3. StructInv("remoteRequest", reqAlloc)'
      BY <1>1, <2>1, <2>2 DEF ShapeOK
    <3>4. StructInv("remoteResponse", resp)'
      BY <1>1, <2>1, <2>2 DEF ShapeOK
    <3>5. (freed["staticRequest"] = 0 /\ freed["staticXPath"] = 0)'
      BY <1>1, <2>1, <2>2 DEF ShapeOK
    <3>6. FieldsInv'
      BY <1>1, <2>1, <2>2 DEF ShapeOK
    <3>7. PcInv'
      BY <1>1, <2>1, <2>2 DEF ShapeOK
    <3>8. QED
      BY <3>1, <3>2, <3>3, <3>4, <3>5, <3>6, <3>7
  <2>3. CASE ~kept
    BY <1>1, <2>1, <2>3 DEF ShapeOK
  <2>4. QED
    BY <2>2, <2>3
<1>3. CASE /\ executed' = executed + 1
           /\ resp' = TRUE
           /\ live' = live \cup {"remoteResponse"}
           /\ pc' = IF K.decode = "none" THEN "Cleanup" ELSE "Deserialize"
  <2>1. TypeOK'
    BY <1>1, <1>3 DEF ShapeOK
  <2>2. ContentInv'
    BY <1>1, <1>3 DEF ShapeOK
  <2>3. StructInv("remoteRequest", reqAlloc)'
    BY <1>1, <1>3 DEF ShapeOK
  <2>4. StructInv("remoteResponse", resp)'
    BY <1>1, <1>3 DEF ShapeOK
  <2>5. (freed["staticRequest"] = 0 /\ freed["staticXPath"] = 0)'
    BY <1>1, <1>3 DEF ShapeOK
  <2>6. FieldsInv'
    BY <1>1, <1>3 DEF ShapeOK
  <2>7. PcInv'
    BY <1>1, <1>3 DEF ShapeOK
  <2>8. QED
    BY <2>1, <2>2, <2>3, <2>4, <2>5, <2>6, <2>7
<1>4. QED
  BY <1>2, <1>3

\* Starting the task with the local request string.
LEMMA StartTaskIInv == ASSUME IInv, StartTask PROVE IInv'
<1>1. ShapeOK(K) /\ K' = K
  BY CurrentShapeOK DEF StartTask, K
<1> USE DEF StartTask, callVars
<1>2. CASE \E reached \in BOOLEAN :
             /\ executed' = IF reached THEN executed + 1 ELSE executed
             /\ pc' = "Failure"
             /\ UNCHANGED out
  <2>1. PICK reached \in BOOLEAN :
             /\ executed' = IF reached THEN executed + 1 ELSE executed
             /\ pc' = "Failure"
             /\ UNCHANGED out
    BY <1>2
  <2>2. QED
    BY <1>1, <2>1 DEF ShapeOK
<1>3. CASE executed' = executed + 1 /\ out' = TRUE /\ pc' = "Cleanup"
  BY <1>1, <1>3 DEF ShapeOK
<1>4. QED
  BY <1>2, <1>3

\* Deserialising the response, or failing to.
LEMMA DeserializeIInv == ASSUME IInv, Deserialize PROVE IInv'
<1>1. ShapeOK(K) /\ K' = K
  BY CurrentShapeOK DEF Deserialize, K
<1> USE DEF Deserialize, callVars
<1>2. CASE pc' = "Failure" /\ UNCHANGED <<out, service>>
  BY <1>1, <1>2 DEF ShapeOK
<1>3. CASE /\ pc' = "Cleanup"
           /\ out' \in IF K.decode = "list" THEN BOOLEAN ELSE {TRUE}
           /\ service' = (service \/ K.out = "service")
  <2>1. TypeOK'
    BY <1>1, <1>3 DEF ShapeOK
  <2>2. ContentInv'
    BY <1>1, <1>3 DEF ShapeOK
  <2>3. StructInv("remoteRequest", reqAlloc)'
    BY <1>1, <1>3 DEF ShapeOK
  <2>4. StructInv("remoteResponse", resp)'
    BY <1>1, <1>3 DEF ShapeOK
  <2>5. (freed["staticRequest"] = 0 /\ freed["staticXPath"] = 0)'
    BY <1>1, <1>3 DEF ShapeOK
  <2>6. FieldsInv'
    BY <1>1, <1>3 DEF ShapeOK
  <2>7. PcInv'
    BY <1>1, <1>3 DEF ShapeOK
  <2>8. QED
    BY <2>1, <2>2, <2>3, <2>4, <2>5, <2>6, <2>7
<1>4. QED
  BY <1>2, <1>3

\* The failure label frees the text still in the buffer.
LEMMA FailureIInv == ASSUME IInv, Failure PROVE IInv'
<1>1. K' = K
  BY DEF Failure, K
<1>2. QED
  BY <1>1 DEF Failure, Free

\* The cleanup label NULLs the static fields and frees request and response.
LEMMA CleanupIInv == ASSUME IInv, Cleanup PROVE IInv'
<1>1. ShapeOK(K) /\ K' = K
  BY CurrentShapeOK DEF Cleanup, K
<1>2. CASE reqAlloc
  <2>1. TypeOK'
    <3>1. freed' \in [Block -> Nat]
      BY DEF Cleanup, Free
    <3>2. QED
      BY <3>1, <1>1, <1>2 DEF Cleanup
  <2>2. ContentInv'
    BY <1>1, <1>2 DEF Cleanup, ShapeOK, Free, Pointee, XPathPointee
  <2>3. StructInv("remoteRequest", reqAlloc)'
    BY <1>1, <1>2 DEF Cleanup, ShapeOK, Free, Pointee, XPathPointee
  <2>4. StructInv("remoteResponse", resp)'
    BY <1>1, <1>2 DEF Cleanup, ShapeOK, Free, Pointee, XPathPointee
  <2>5. (freed["staticRequest"] = 0 /\ freed["staticXPath"] = 0)'
    BY <1>1, <1>2 DEF Cleanup, ShapeOK, Free, Pointee, XPathPointee
  <2>6. FieldsInv'
    BY <1>1, <1>2 DEF Cleanup, ShapeOK, Free, Pointee, XPathPointee
  <2>7. PcInv'
    BY <1>1, <1>2 DEF Cleanup, ShapeOK, Free, Pointee, XPathPointee
  <2>8. QED
    BY <2>1, <2>2, <2>3, <2>4, <2>5, <2>6, <2>7
<1>3. CASE ~reqAlloc
  <2>1. TypeOK'
    <3>1. freed' \in [Block -> Nat]
      BY DEF Cleanup, Free
    <3>2. QED
      BY <3>1, <1>1, <1>3 DEF Cleanup
  <2>2. ContentInv'
    BY <1>1, <1>3 DEF Cleanup, ShapeOK, Free, Pointee, XPathPointee
  <2>3. StructInv("remoteRequest", reqAlloc)'
    BY <1>1, <1>3 DEF Cleanup, ShapeOK, Free, Pointee, XPathPointee
  <2>4. StructInv("remoteResponse", resp)'
    BY <1>1, <1>3 DEF Cleanup, ShapeOK, Free, Pointee, XPathPointee
  <2>5. (freed["staticRequest"] = 0 /\ freed["staticXPath"] = 0)'
    BY <1>1, <1>3 DEF Cleanup, ShapeOK, Free, Pointee, XPathPointee
  <2>6. FieldsInv'
    BY <1>1, <1>3 DEF Cleanup, ShapeOK, Free, Pointee, XPathPointee
  <2>7. PcInv'
    BY <1>1, <1>3 DEF Cleanup, ShapeOK, Free, Pointee, XPathPointee
  <2>8. QED
    BY <2>1, <2>2, <2>3, <2>4, <2>5, <2>6, <2>7
<1>4. QED
  BY <1>2, <1>3

\* The cleanup of the task methods frees the local request string.
LEMMA CleanupTaskIInv == ASSUME IInv, CleanupTask PROVE IInv'
<1>1. ShapeOK(K) /\ K' = K
  BY CurrentShapeOK DEF CleanupTask, K
<1>2. QED
  BY <1>1 DEF CleanupTask, ShapeOK, Free

\* Every step of the specification preserves the inductive invariant.
LEMMA NextIInv == IInv /\ [Next]_vars => IInv'
<1> SUFFICES ASSUME IInv, [Next]_vars PROVE IInv'
  OBVIOUS
<1>1. ASSUME NEW m \in Methods, InvalidCall(m) \/ InvalidArgument(m) PROVE IInv'
  BY <1>1, RejectIInv DEF InvalidCall, InvalidArgument
<1>2. CASE UNCHANGED vars
  <2>1. K' = K
    BY <1>2 DEF vars, K
  <2>2. QED
    BY <1>2, <2>1 DEF vars
<1>3. QED
  BY <1>1, <1>2, BeginIInv, BuildStaticIInv, BuildIInv, CheckIInv, ExecuteIInv,
     StartTaskIInv, DeserializeIInv, FailureIInv, CleanupIInv, CleanupTaskIInv
  DEF Next

HIDE DEF IInv, ContentInv, StructInv, FieldsInv, PcInv, TypeOK, OwnBuf, OwnReq,
         OwnLoc, Block, Heap, Static, Pcs

(* Type correctness: every reachable state of a call satisfies TypeOK.    *)
THEOREM TypeCorrect == Spec => []TypeOK
<1>1. IInv => TypeOK
  BY DEF IInv
<1>2. QED
  BY <1>1, InitIInv, NextIInv, PTL DEF Spec

(* On every exit path of every method, free() is called at most once on   *)
(* each heap block and never on a string constant, and when the method    *)
(* returns every block it allocated has been freed.                       *)
THEOREM OwnershipSafe == Spec => [](FreeSafety /\ NoLeak)
<1>1. IInv => FreeSafety
  BY DEF IInv, StructInv, ContentInv, FreeSafety, Heap, Static
<1>2. IInv => NoLeak
  BY DEF IInv, StructInv, ContentInv, PcInv, NoLeak, TypeOK, Heap, OwnBuf, OwnReq, OwnLoc
<1>3. QED
  BY <1>1, <1>2, InitIInv, NextIInv, PTL DEF Spec

(* In particular, a method that has returned leaves no heap block it      *)
(* allocated unfreed, on any of its exit paths.                           *)
THEOREM NoLeakHolds == Spec => []NoLeak
BY OwnershipSafe, PTL
-----------------------------------------------------------------------------
(***************************************************************************)
(* Refinement of the abstract call.  The invariant RInv records how often *)
(* the host has executed the request at each point of the call: never     *)
(* before Execute, once after a successful Execute or StartTask, and once *)
(* whenever cleanup is reached with result 0.                             *)
(***************************************************************************)
RInv == /\ executed \in {0, 1}
        /\ pc \in {"Build", "Check", "Execute"} => executed = 0 /\ result = 0
        /\ pc = "Deserialize" => executed = 1 /\ result = 0
        /\ pc = "Failure" => result = 0
        /\ pc = "Cleanup" /\ result = 0 => executed = 1

\* The initial state satisfies RInv.
LEMMA InitRInv == Init => RInv
BY DEF Init, RInv

\* Every step preserves RInv.
LEMMA NextRInv == RInv /\ [Next]_vars => RInv'
<1> SUFFICES ASSUME RInv, [Next]_vars PROVE RInv'
  OBVIOUS
<1>1. ASSUME NEW m \in Methods, InvalidCall(m) \/ InvalidArgument(m) \/ Begin(m)
      PROVE RInv'
  BY <1>1 DEF InvalidCall, InvalidArgument, Reject, Begin, RInv
<1>2. CASE BuildStatic \/ Build \/ Check
  BY <1>2 DEF BuildStatic, Build, Check, RInv
<1>3. CASE Execute
  BY <1>3 DEF Execute, RInv
<1>4. CASE StartTask
  BY <1>4 DEF StartTask, RInv
<1>5. CASE Deserialize
  BY <1>5 DEF Deserialize, RInv
<1>6. CASE Failure
  BY <1>6 DEF Failure, RInv
<1>7. CASE Cleanup \/ CleanupTask
  BY <1>7 DEF Cleanup, CleanupTask, RInv
<1>8. CASE UNCHANGED vars
  BY <1>8 DEF vars, RInv
<1>9. QED
  BY <1>1, <1>2, <1>3, <1>4, <1>5, <1>6, <1>7, <1>8 DEF Next

\* The initial state of a call is the initial state of the abstract call.
LEMMA InitRefines == Init => Abs!AInit
BY DEF Init, Abs!AInit

\* Every step of a call is a step of the abstract call or leaves the
\* abstract state unchanged.
LEMMA StepRefines ==
    ASSUME IInv, RInv, [Next]_vars PROVE [Abs!ANext]_Abs!avars
<1> USE DEF Abs!avars
<1>1. ASSUME NEW m \in Methods, InvalidCall(m) \/ InvalidArgument(m)
      PROVE Abs!Reject(m)
  BY <1>1 DEF InvalidCall, InvalidArgument, Reject, Abs!Reject
<1>2. ASSUME NEW m \in Methods, Begin(m) PROVE Abs!Begin(m)
  BY <1>2 DEF Begin, Abs!Begin
<1>3. CASE BuildStatic \/ Build \/ Check \/ Deserialize \/ Failure
  BY <1>3 DEF BuildStatic, Build, Check, Deserialize, Failure
<1>4. CASE Execute \/ StartTask
  <2>1. CASE executed' = executed
    BY <1>4, <2>1 DEF Execute, StartTask
  <2>2. CASE executed' # executed
    <3>1. pc = "Execute" /\ pc' # "Idle" /\ executed = 0 /\ executed' = 1
      BY <1>4, <2>2 DEF Execute, StartTask, RInv
    <3>2. Abs!Serve
      BY <1>4, <3>1 DEF Execute, StartTask, Abs!Serve
    <3>3. QED
      BY <3>2 DEF Abs!ANext
  <2>3. QED
    BY <2>1, <2>2
<1>5. CASE Cleanup \/ CleanupTask
  <2>1. result \in {0, -1} /\ (result = 0 => executed = 1) /\ pc = "Cleanup"
    BY <1>5 DEF Cleanup, CleanupTask, RInv, IInv, TypeOK
  <2>2. Abs!Return
    BY <1>5, <2>1 DEF Cleanup, CleanupTask, Abs!Return
  <2>3. QED
    BY <2>2 DEF Abs!ANext
<1>6. CASE UNCHANGED vars
  BY <1>6 DEF vars
<1>7. QED
  BY <1>1, <1>2, <1>3, <1>4, <1>5, <1>6 DEF Next, Abs!ANext

(* Every call of a VI method implements the abstract call: it is either   *)
(* rejected at once or runs to exactly one result, its request reaches    *)
(* the host at most once, and 0 is returned only for a request the host   *)
(* executed (the property AbstractCall that TLC checks).                  *)
THEOREM Refinement == Spec => AbstractCall
<1>1. Spec => [](IInv /\ RInv)
  <2>1. Init => IInv /\ RInv
    BY InitIInv, InitRInv
  <2>2. IInv /\ RInv /\ [Next]_vars => (IInv /\ RInv)'
    BY NextIInv, NextRInv
  <2>3. QED
    BY <2>1, <2>2, PTL DEF Spec
<1>2. QED
  BY <1>1, InitRefines, StepRefines, PTL DEF Spec, AbstractCall, Abs!ASpec
=============================================================================
