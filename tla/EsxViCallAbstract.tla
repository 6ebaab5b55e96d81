------------------------- MODULE EsxViCallAbstract -------------------------
(***************************************************************************)
(* What one call of a VI API method promises its caller, independent of   *)
(* how the SOAP request is built and released: a call either is rejected  *)
(* at once, or runs, reaches the host at most once (a request envelope is *)
(* never sent twice), and returns exactly one result; a result of 0 is    *)
(* only returned for a request the host has executed.                     *)
(***************************************************************************)
EXTENDS Integers

CONSTANT Methods

VARIABLES status,  \* "idle" between calls, "busy" while a call runs
          call,    \* the method of the current or last call
          served,  \* how often the host executed the request of this call
          result   \* the value the last call returned (0 while busy)

avars == <<status, call, served, result>>

AInit == /\ status = "idle"
         /\ call = "none"
         /\ served = 0
         /\ result = 0

\* The call fails its argument checks and returns -1 without any work.
Reject(m) == /\ status = "idle"
             /\ call' = m
             /\ result' = -1
             /\ served' = 0
             /\ UNCHANGED status

\* The call passes its checks and starts building its request.
Begin(m) == /\ status = "idle"
            /\ status' = "busy"
            /\ call' = m
            /\ served' = 0
            /\ result' = 0

\* The host executes the request, at most once per call.
Serve == /\ status = "busy"
         /\ served = 0
         /\ served' = 1
         /\ UNCHANGED <<status, call, result>>

\* The call returns; success only for a request the host executed.
Return == /\ status = "busy"
          /\ status' = "idle"
          /\ \E r \in {0, -1} : /\ result' = r
                                /\ r = 0 => served = 1
          /\ UNCHANGED <<call, served>>

ANext == \/ \E m \in Methods : Reject(m) \/ Begin(m)
         \/ Serve
         \/ Return

ASpec == AInit /\ [][ANext]_avars
=============================================================================
