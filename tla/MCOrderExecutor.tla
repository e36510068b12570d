--------------------------- MODULE MCOrderExecutor ---------------------------
(***************************************************************************)
(* Instances of OrderExecutor, and of its inductive invariant, for TLC.    *)
(***************************************************************************)
EXTENDS OrderExecutorProofs

CONSTANTS
    Scheduler,      \* the ApprovalManager the scheduler's jobs share
    Position        \* the position held at the start

\* The orders are the scheduler's; another manager is that of an API request.
MCManagerOf == [o \in Orders |-> Scheduler]

\* The exits all close the one position held.
MCTargetOf == [o \in Exits |-> Position]
=============================================================================
