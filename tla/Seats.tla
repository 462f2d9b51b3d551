------------------------------- MODULE Seats -------------------------------
(***************************************************************************)
(* What the server promises about an event's seats, with none of the files *)
(* it is made of: reservations are taken one at a time, never more than    *)
(* the event holds and never once it is closed.                            *)
(***************************************************************************)
EXTENDS Integers

CONSTANTS
    Event,      \* event identifiers
    Capacity    \* seats of each event, a number

VARIABLES
    sold,       \* sold[e]: seats reserved
    closed      \* closed[e]: no more reservations

seatVars == <<sold, closed>>

Init == /\ sold = [e \in Event |-> 0]
        /\ closed = [e \in Event |-> FALSE]

Sell(e, n) ==
    /\ ~closed[e]
    /\ sold[e] + n <= Capacity[e]
    /\ sold' = [sold EXCEPT ![e] = @ + n]
    /\ UNCHANGED closed

CloseEvent(e) ==
    /\ ~closed[e]
    /\ closed' = [closed EXCEPT ![e] = TRUE]
    /\ UNCHANGED sold

Next == \E e \in Event : CloseEvent(e) \/ \E n \in 1..Capacity[e] : Sell(e, n)

Spec == Init /\ [][Next]_seatVars
=============================================================================
