-------------------------- MODULE PositionLifecycle --------------------------
(***************************************************************************)
(* What the scheduler promises of one row of positions, whatever its jobs, *)
(* their failures, crashes and restarts do: the row is opened once, its    *)
(* shares are sold once and while it is open, and it is closed once and    *)
(* only after that sale.  A row that is open may come into doubt (two jobs *)
(* sell it, its symbol is held twice, a sale is not recorded); nothing is  *)
(* promised of it afterwards.  A closed row stays beyond doubt.            *)
(***************************************************************************)
EXTENDS Naturals

CONSTANT PositionIds
VARIABLES phase, sales

vars == <<phase, sales>>

Init ==
    /\ phase \in [PositionIds -> {"unused", "open"}]
    /\ sales = [p \in PositionIds |-> 0]

Move(p, from, to) == phase[p] = from /\ phase' = [phase EXCEPT ![p] = to]

Open(p)  == Move(p, "unused", "open") /\ UNCHANGED sales
Sell(p)  == /\ phase[p] = "open" /\ sales[p] = 0
            /\ sales' = [sales EXCEPT ![p] = 1]
            /\ UNCHANGED phase
Close(p) == sales[p] = 1 /\ Move(p, "open", "closed") /\ UNCHANGED sales

\* The sales of a row in doubt are not counted any more.
Doubt(S) ==
    /\ \A p \in S : phase[p] = "open"
    /\ phase' = [p \in PositionIds |-> IF p \in S THEN "doubted" ELSE phase[p]]
    /\ sales' = [p \in PositionIds |-> IF p \in S THEN 0 ELSE sales[p]]

Next ==
    \/ \E p \in PositionIds : Open(p) \/ Sell(p) \/ Close(p)
    \/ \E S \in SUBSET PositionIds : Doubt(S)

Spec == Init /\ [][Next]_vars
=============================================================================
