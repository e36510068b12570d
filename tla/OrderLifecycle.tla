---------------------------- MODULE OrderLifecycle ----------------------------
(***************************************************************************)
(* What the order pipeline promises of one order, whatever the approval    *)
(* path, the broker, errors and crashes do: the order is screened, then    *)
(* cleared, and only then sent; it is cancelled only while nothing was     *)
(* sent, and it counts as filled only once the venue filled it.            *)
(***************************************************************************)
CONSTANT Orders
VARIABLES phase, venue

vars == <<phase, venue>>

Open == {"pending", "screened", "cleared"}

Init ==
    /\ phase = [o \in Orders |-> "absent"]
    /\ venue = [o \in Orders |-> "none"]

Move(o, from, to) ==
    /\ phase[o] \in from
    /\ phase' = [phase EXCEPT ![o] = to]
    /\ UNCHANGED venue

Submit(o) == Move(o, {"absent"}, "pending")
Screen(o) == Move(o, {"pending"}, "screened")
Clear(o)  == Move(o, {"screened"}, "cleared")
Fail(o)   == Move(o, Open, "failed")
Cancel(o) == venue[o] = "none" /\ Move(o, Open, "cancelled")
Settle(o) == venue[o] = "filled" /\ Move(o, {"cleared"}, "filled")

Send(o) ==
    /\ phase[o] = "cleared"
    /\ venue[o] = "none"
    /\ \E v \in {"live", "filled"} : venue' = [venue EXCEPT ![o] = v]
    /\ UNCHANGED phase

VenueFills(o) ==
    /\ venue[o] = "live"
    /\ venue' = [venue EXCEPT ![o] = "filled"]
    /\ UNCHANGED phase

Next == \E o \in Orders :
    \/ Submit(o) \/ Screen(o) \/ Clear(o) \/ Send(o) \/ VenueFills(o)
    \/ Settle(o) \/ Cancel(o) \/ Fail(o)

Spec == Init /\ [][Next]_vars
=============================================================================
