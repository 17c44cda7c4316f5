------------------------------ MODULE UnsafeDIO ------------------------------
(***************************************************************************)
(* hal::UnsafeManipulateDIO, one call of it.  It looks up the handle's    *)
(* port, computes the channel mask, tests the status, then, with the DIO   *)
(* mutex held, reads the output-enable and output registers and hands a    *)
(* DIOSetProxy to func.                                                    *)
(*                                                                         *)
(* status is the caller's int32_t*: the pointer is StatusPtr and the int   *)
(* it points to is status.  HAL callers start with *status == 0 ("ok").   *)
(***************************************************************************)

\* The caller passes the address of its local status: never null.
StatusPtr == "&status"
NullPtr == "nullptr"

VARIABLES
    pc,        \* where the call is
    status,    \* *status
    funcRan    \* whether func(dioData) was called

vars == <<pc, status, funcRan>>

Init ==
    /\ pc = "call"
    /\ status = "ok"
    /\ funcRan = FALSE

\* digitalChannelHandles->Get(handle, DIO): a bad handle sets *status and
\* returns.
GetPort ==
    /\ pc = "call"
    /\ \/ status' = "HAL_HANDLE_ERROR" /\ pc' = "done"
       \/ pc' = "mask" /\ UNCHANGED status
    /\ UNCHANGED funcRan

\* detail::ComputeDigitalMask(handle, status) may store an error.
ComputeMask ==
    /\ pc = "mask"
    /\ \E code \in {"ok", "HAL_HANDLE_ERROR"} : status' = code
    /\ pc' = "test"
    /\ UNCHANGED funcRan

\* if (status != 0) return;  -- compares the pointer with null.
TestStatus ==
    /\ pc = "test"
    /\ pc' = IF StatusPtr # NullPtr THEN "done" ELSE "locked"
    /\ UNCHANGED <<status, funcRan>>

\* lock_guard on the DIO mutex; read the registers (each read may store a
\* status); build the proxy and call func; the guard unlocks on return.
Manipulate ==
    /\ pc = "locked"
    /\ \E code \in {status, "readError"} : status' = code
    /\ funcRan' = TRUE
    /\ pc' = "done"

Next == GetPort \/ ComputeMask \/ TestStatus \/ Manipulate

Spec == Init /\ [][Next]_vars

-----------------------------------------------------------------------------
(* Statements the code does not meet                                       *)

\* The function's comment ("can be used to perform fast and
\* deterministically set digital outputs"): a call on a valid handle whose
\* mask was computed without error runs func.
ValidCallRunsFunc == (pc = "done" /\ status = "ok") => funcRan
=============================================================================
