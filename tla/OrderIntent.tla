----------------------------- MODULE OrderIntent -----------------------------
(***************************************************************************)
(* What order placement promises, with no process, network or database:    *)
(* an order is admitted only while HALT is not engaged, one at a time; its *)
(* intent is recorded before it can be placed; what is recorded or placed  *)
(* stays so; and nothing is placed that was not recorded.                  *)
(***************************************************************************)
CONSTANT Orders

VARIABLES halted, admitted, intent, placed
vars == <<halted, admitted, intent, placed>>

Init == halted = FALSE /\ admitted = {} /\ intent = {} /\ placed = {}

\* Engage or lift HALT.
Toggle == halted' = ~halted /\ UNCHANGED <<admitted, intent, placed>>

\* An order never recorded before passes the gate.
Admit(o) ==
    /\ ~halted /\ admitted = {} /\ o \notin intent
    /\ admitted' = {o}
    /\ UNCHANGED <<halted, intent, placed>>

Record(o) ==
    /\ o \in admitted \ intent
    /\ intent' = intent \cup {o}
    /\ UNCHANGED <<halted, admitted, placed>>

\* The exchange accepts the order, perhaps long after it was given up.
Place(o) ==
    /\ o \in intent \ placed
    /\ placed' = placed \cup {o}
    /\ UNCHANGED <<halted, admitted, intent>>

\* The attempt is over; a failed send may trip HALT in the same step.
Release ==
    /\ admitted # {}
    /\ admitted' = {}
    /\ halted' \in {halted, TRUE}
    /\ UNCHANGED <<intent, placed>>

Next == \/ Toggle \/ Release
        \/ \E o \in Orders : Admit(o) \/ Record(o) \/ Place(o)

Spec == Init /\ [][Next]_vars
=============================================================================
