---------------------------- MODULE EventStoreMC ----------------------------
(***************************************************************************)
(* Small instances of EventStore.  Capacities are 2 or 3 seats so that one *)
(* or two reservations fill an event; the dates lie within MaxClock so that*)
(* an event passes while it is being reserved.                             *)
(***************************************************************************)
EXTENDS EventStoreSeats, TLC

CONSTANTS c1, c2, c3, server, ann, bob, zoe

Interchangeable == Permutations(Child)
OneChild == {c1}
TwoChildren == {c1, c2}
ThreeChildren == {c1, c2, c3}
Users == {ann, bob, zoe}
ZeroLed == {zoe}

TwoSeats == [e \in Event |-> 2]
SoonPast == [e \in Event |-> 0]
NeverPast == [e \in Event |-> 9]
NextPast == [e \in Event |-> 1]

Ask(o, u, e, n) == [op |-> o, uid |-> u, eid |-> e, people |-> n]

\* Two customers, the owner, and the listings, on event 1.
Overlap == { Ask("reserve", ann, 1, 1), Ask("reserve", bob, 1, 2), Ask("close", ann, 1, 1),
             Ask("list", ann, NoEvent, 1), Ask("myevents", ann, NoEvent, 1),
             Ask("myreservations", ann, NoEvent, 1) }
\* Event 2 is built while others use it.
Building == { Ask("create", ann, NoEvent, 1), Ask("reserve", bob, 2, 1), Ask("show", bob, 2, 1),
              Ask("close", ann, 2, 1), Ask("list", bob, NoEvent, 1) }
\* Requests that wait for each other's locks or for their clients, and the
\* parent in between.
Waiting == { Ask("create", ann, NoEvent, 1), Ask("show", bob, 2, 1), Ask("reserve", bob, 2, 1),
             Ask("list", bob, NoEvent, 1), Ask("myevents", ann, NoEvent, 1),
             Ask("myreservations", bob, NoEvent, 1) }
Bookings == { Ask("reserve", ann, 1, 1), Ask("reserve", bob, 1, 2) }
\* All that can go wrong while event 2 is built and event 1 sells out.
Mishaps == Building \cup Bookings
OneByOne == { Ask("reserve", ann, 1, 1), Ask("reserve", bob, 1, 2), Ask("close", ann, 1, 1),
              Ask("create", bob, NoEvent, 1), Ask("reserve", ann, 2, 2), Ask("list", ann, NoEvent, 1) }
=============================================================================
