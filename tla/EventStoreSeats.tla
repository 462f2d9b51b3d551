-------------------------- MODULE EventStoreSeats --------------------------
(***************************************************************************)
(* The event files implement the seat inventory of Seats when requests are *)
(* served one at a time: the seats sold are those of the reservations      *)
(* filed, and an event is closed when its END file exists.                 *)
(***************************************************************************)
EXTENDS EventStore

Inventory == INSTANCE Seats WITH sold <- stored, closed <- end

\* Every step of the file operations sells seats that are free of an event
\* that is open, closes an event, or leaves the inventory alone.
ImplementsSeats == Inventory!Spec
=============================================================================
