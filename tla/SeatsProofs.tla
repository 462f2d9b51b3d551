----------------------------- MODULE SeatsProofs -----------------------------
(***************************************************************************)
(* Proofs about requests that are served one at a time: what is true of    *)
(* seats and reservations then is the promise the documentation makes, and *)
(* the run Overbooked shows that it is lost when reservations overlap.     *)
(*                                                                         *)
(* The parent may still answer UDP requests while a child is at work.      *)
(***************************************************************************)
EXTENDS EventLifeProofs, EventStoreSeats, FiniteSetTheorems

USE DEF eid, op, uid, people, Label, Step, StatusStep, ReserveStep, CloseStep, CreateStep, ShowStep,
        MineStep, Hung

\* At most one connection is open; no write comes up short, nothing is killed.
OneAtATime == MaxActive <= 1 /\ ~WritesMayFail /\ ~MayCrash

-----------------------------------------------------------------------------
(***************************************************************************)
(* The invariants.                                                         *)
(***************************************************************************)
OneActive == \A c, d \in Active : c = d

\* What a reservation relies on from one step to the next.
Open == {"past", "ended", "count"} \cup ReserveStep
Accepting(p) == pc[p] = "judged" /\ job[p].verdict = "accepting"

Booking(p) ==
    op(p) = "reserve" =>
        /\ pc[p] \in Open \/ Accepting(p) => start[eid(p)] = "full"
        /\ pc[p] = "reread" \/ Accepting(p) => res[eid(p)] >= 0 /\ res[eid(p)] < Capacity[eid(p)]
        /\ pc[p] \in {"userFile", "userWrite", "eventFile"} => res[eid(p)] = job[p].got
        /\ pc[p] = "resOpen" => res[eid(p)] = job[p].got
        /\ pc[p] = "resWrite" => res[eid(p)] = Emptied
        /\ pc[p] \in {"resOpen", "resWrite"} => stored[eid(p)] = job[p].got + people(p)

\* RES, when it can be read, is the seats filed, but for the moment between the
\* filing and the truncation of RES.
Counted(e) == res[e] \in {NoFile, Emptied, stored[e]} \/ \E p \in Proc : pc[p] = "resOpen" /\ eid(p) = e

\* Seats are filed only for events whose create has ended.
Bookable(e) == e <= Existing \/ \E c \in Proc : Given(c) /\ eid(c) = e /\ pc[c] \notin CreateStep

CountInv == /\ OneActive
            /\ orphan = {}
            /\ \A p \in Proc : Booking(p)
            /\ \A e \in Event : Counted(e) /\ (stored[e] # 0 => Bookable(e))

\* A reservation is on file with its event from FileForEvent on.
HasFiled(c) == op(c) = "reserve" /\ (reply[c] = "ACC" \/ pc[c] \in {"resOpen", "resWrite"})
FiledInv == \A c \in Child : HasFiled(c) => \E f \in eventRes : f.eid = eid(c) /\ f.uid = uid(c)

\* And with its user, under a name a later one of the same second may take over.
Overwriting(p, c) == /\ op(p) = "reserve" /\ p # c
                     /\ pc[p] \in {"userWrite", "eventFile", "resOpen", "resWrite"}
                     /\ SameName(Filing(c), Filing(p))
OnList(c) == \E f \in userRes :
                /\ f.uid = uid(c) /\ f.at = job[c].at
                /\ f.eid = eid(c) \/ \E d \in Child \ {c} : reply[d] = "ACC" /\ f = Filing(d)

ListedInv ==
    /\ \A p \in Child : op(p) = "reserve" =>
          /\ pc[p] = "userWrite" => Blank(p) \in userRes
          /\ pc[p] \in {"eventFile", "resOpen", "resWrite"} => Filing(p) \in userRes
    /\ \A c \in Child : reply[c] = "ACC" => OnList(c) \/ \E p \in Child : Overwriting(p, c)

\* Nobody closes an event behind the back of a reservation.
OpenInv ==
    \A p \in Proc : op(p) = "reserve" =>
        (pc[p] \in {"count"} \cup ReserveStep \/ Accepting(p) => ~end[eid(p)])

\* The parent, when nobody asks for his events, reads no event.
QuietParent == /\ pc[Parent] \in {"idle", "auth", "reserved", "reading"}
               /\ pc[Parent] = "auth" => op(Parent) = "myreservations"

-----------------------------------------------------------------------------
(***************************************************************************)
(* What the steps change.                                                  *)
(***************************************************************************)
\* A step that serves nobody, without crashes.
Rests == UNCHANGED <<eventFiles, seatFiles, pc, job, reply, over>>

LEMMA NextInTurn ==
    ASSUME TypeInv, LifeInv, ~MayCrash, [Next]_vars
    PROVE  Rests \/ (\E p \in Proc : Arrives(p) /\ pc[p] = "idle") \/ (\E p \in Proc : Serve(p))
<1>1. CASE Tick \/ UNCHANGED vars
  BY <1>1 DEF Tick, vars, Rests, atArrival
<1>2. CASE Datagram
  BY <1>2, ReceiveArrives DEF Datagram, Query, Proc, LifeInv
<1>3. ASSUME NEW c \in Child, Accept(c)
      PROVE  \E p \in Proc : Arrives(p) /\ pc[p] = "idle"
  BY <1>3, ReceiveArrives DEF Accept, Proc, LifeInv
<1> QED
  BY <1>1, <1>2, <1>3 DEF Next, Crash

\* Only the steps of reserve and create write anything but END.
LEMMA ReadersLeave ==
    ASSUME NEW p \in Proc, Serve(p), pc[p] \notin CreateStep \cup ReserveStep
    PROVE  UNCHANGED <<counter, dir, created, start, owner, desc, seatFiles>>
<1> USE DEF Goto, GotoWith, Answer, eventFiles, seatFiles
<1>1. CASE Auth(p) \/ EventDir(p)
  BY <1>1 DEF Auth, EventDir
<1>2. CASE Status(p)
  BY <1>2 DEF Status, StatusStart, StatusPast, StatusEnded, StatusCount, Judged, Judge, Listing, Scan
<1>3. CASE Close(p)
  BY <1>3 DEF Close, CloseOwner, CloseStart, CloseCount, ClosePast, CloseEnded, CloseWrite
<1>4. CASE Show(p)
  BY <1>4 DEF Show, ShowStart, ShowCount, ShowSize, ShowOpen, ShowStream, Send
<1>5. CASE Mine(p)
  BY <1>5 DEF Mine, Reserved, ReadReservation
<1>6. ~Reserve(p) /\ ~Create(p)
  BY DEF Reserve, Reread, UserFileOpen, FileForUser, FileForEvent, ResOpen, ResWrite,
         Create, Allocate, CountUp, Mkdir, Register, StartOpen, StartWrite, InitOpen,
         InitWrite, DescOpen, DescLock, Upload, Newline, DropCreated, DropStart, DropRes
<1> QED
  BY <1>1, <1>2, <1>3, <1>4, <1>5, <1>6 DEF Serve

\* A create or reserve that is served is the only one in progress.
Others(p) == \A q \in Proc \ {p} : op(q) \in {"create", "reserve"} => pc[q] \in {"idle", "done"}

LEMMA ServedAlone ==
    ASSUME TypeInv, LifeInv, OneActive, NEW p \in Proc, Serve(p), pc[p] \in CreateStep \cup ReserveStep
    PROVE  Others(p)
<1>1. p \in Child /\ pc[p] \notin {"idle", "done"}
  BY ServeBusy DEF LifeInv, Role
<1> QED
  BY <1>1 DEF OneActive, Active, Others, LifeInv, Role

LEMMA NextKeepsOne ==
    ASSUME TypeInv, LifeInv, OneActive, MaxActive <= 1, [Next]_vars
    PROVE  OneActive'
<1>1. ASSUME Active' \subseteq Active
      PROVE  OneActive'
  BY <1>1 DEF OneActive
<1>2. CASE Tick \/ UNCHANGED vars
  BY <1>1, <1>2 DEF Tick, vars, Active
<1>3. CASE Crash
  <2>1. \A c \in Child : pc'[c] \in {pc[c], "idle", "done"}
    BY <1>3 DEF Crash, Proc
  <2> QED
    BY <1>1, <2>1 DEF Active
<1>4. CASE Datagram
  <2>1. \A c \in Child : pc'[c] = pc[c]
    BY <1>4, ProcAssumption DEF Datagram, Receive, Proc, TypeInv, ProcOK
  <2> QED
    BY <1>1, <2>1 DEF Active
<1>5. ASSUME NEW c \in Child, Accept(c)
      PROVE  OneActive'
  <2>1. Cardinality(Active) < MaxActive
    BY <1>5 DEF Accept
  <2>2. ASSUME NEW d \in Active
        PROVE  FALSE
    <3>1. Active = {d}
      BY <2>2 DEF OneActive
    <3>2. Cardinality({d}) = 1
      BY FS_Singleton
    <3> QED
      BY <2>1, <3>1, <3>2, BoundAssumption
  <2>3. \A d \in Child \ {c} : pc'[d] = pc[d]
    BY <1>5 DEF Accept, Receive, Proc, TypeInv, ProcOK
  <2> QED
    BY <2>2, <2>3 DEF OneActive, Active
<1>6. ASSUME NEW p \in Proc, Serve(p)
      PROVE  OneActive'
  <2>1. pc[p] \notin {"idle", "done"} /\ \A q \in Proc \ {p} : pc'[q] = pc[q]
    BY <1>6, ServeBusy, ServeAlone DEF Alone
  <2> QED
    BY <1>1, <2>1 DEF Active, Proc
<1> QED
  BY <1>2, <1>3, <1>4, <1>5, <1>6 DEF Next

-----------------------------------------------------------------------------
(***************************************************************************)
(* RES counts the seats filed.                                             *)
(***************************************************************************)
LEMMA BookableStays ==
    ASSUME TypeInv, LifeInv, NEW p \in Proc, Serve(p), NEW e \in Event, Bookable(e)
    PROVE  Bookable(e)'
<1>1. ASSUME NEW c \in Proc, Given(c), eid(c) = e, pc[c] \notin CreateStep
      PROVE  Given(c)' /\ eid(c)' = e /\ pc'[c] \notin CreateStep
  <2>1. CASE c = p
    <3>1. pc[p] = "auth"
      BY <1>1, <2>1 DEF LifeInv, Role, Given, Creating, Serve, Auth, EventDir,
         Status, StatusStart, StatusPast, StatusEnded, StatusCount, Judged,
         Listing, Scan, Reserve, Reread, UserFileOpen, FileForUser, FileForEvent, ResOpen, ResWrite,
         Close, CloseOwner, CloseStart, CloseCount, ClosePast, CloseEnded, CloseWrite,
         Create, Allocate, CountUp, Mkdir, Register, StartOpen, StartWrite, InitOpen,
         InitWrite, DescOpen, DescLock, Upload, Newline, DropCreated, DropStart, DropRes,
         Show, ShowStart, ShowCount, ShowSize, ShowOpen, ShowStream, Send, Mine, Reserved, ReadReservation
    <3> QED
      BY <1>1, <2>1, <3>1 DEF LifeInv, Role, Given, NoEvent, Event
  <2>2. CASE c # p
    BY <1>1, <2>2, ServeAlone DEF Alone, Given
  <2> QED
    BY <2>1, <2>2
<1> QED
  BY <1>1 DEF Bookable

\* The checks a reservation passes before it is accepted.
LEMMA ChecksBook ==
    ASSUME TypeInv, LifeInv, NEW p \in Proc, op(p) = "reserve", Booking(p), Serve(p),
           pc[p] \notin CreateStep \cup ReserveStep
    PROVE  Booking(p)'
<1>1. /\ pc \in [Proc -> Label] /\ job[p] \in Job
      /\ res \in [Event -> Nat \cup {NoFile, Emptied}]
  BY DEF TypeInv, ProcOK, StoreOK
<1>2. UNCHANGED <<start, res, stored>>
  BY ReadersLeave DEF seatFiles
<1>3. pc[p] \in Reserving /\ Alone(p)
  BY ServeAlone DEF LifeInv, Role
<1>4. eid(p)' = eid(p)
  BY <1>3 DEF Alone, Scan, Allocate, Reserving
<1>5. CASE Auth(p) \/ EventDir(p)
  <2>1. pc'[p] \in {"idle", "done", "eventDir", "start"}
    BY <1>1, <1>5 DEF Auth, EventDir, Goto, Answer
  <2> QED
    BY <2>1 DEF Booking, Open, Accepting
<1>6. ASSUME NEW v, v # "accepting", Judge(p, v)
      PROVE  Booking(p)'
  <2>1. pc'[p] = "judged" /\ job'[p].verdict = v
    BY <1>1, <1>6 DEF Judge, GotoWith, TypeInv, ProcOK, Job
  <2> QED
    BY <1>6, <2>1 DEF Booking, Open, Accepting
<1>7. CASE StatusStart(p)
  <2>1. CASE start[eid(p)] = "full"
    <3>1. pc'[p] = "past"
      BY <1>1, <1>7, <2>1 DEF StatusStart, Goto
    <3> QED
      BY <1>2, <1>4, <2>1, <3>1 DEF Booking, Open, Accepting
  <2>2. CASE start[eid(p)] # "full"
    BY <1>6, <1>7, <2>2 DEF StatusStart
  <2> QED
    BY <2>1, <2>2
<1>8. CASE StatusPast(p) \/ StatusEnded(p)
  <2>1. CASE \E l \in {"ended", "count"} : Goto(p, l)
    <3>1. pc'[p] \in {"ended", "count"} /\ start[eid(p)] = "full"
      BY <1>1, <1>8, <2>1 DEF Goto, Booking, Open, StatusPast, StatusEnded
    <3> QED
      BY <1>2, <1>4, <3>1 DEF Booking, Open, Accepting
  <2> QED
    BY <1>6, <1>8, <2>1 DEF StatusPast, StatusEnded
<1>9. CASE StatusCount(p)
  <2>1. CASE StatusOf(eid(p)) # "accepting"
    BY <1>6, <1>9, <2>1 DEF StatusCount
  <2>2. CASE StatusOf(eid(p)) = "accepting"
    <3>1. eid(p) \in Event /\ start[eid(p)] = "full"
      BY <1>9 DEF StatusCount, TypeInv, Located, Anywhere, Booking, Open
    <3>2. res[eid(p)] \in Nat /\ ~(res[eid(p)] >= Capacity[eid(p)])
      BY <1>1, <2>2, <3>1 DEF StatusOf
    <3>3. pc'[p] = "judged"
      BY <1>1, <1>9 DEF StatusCount, Judge, GotoWith
    <3>4. res[eid(p)] >= 0 /\ res[eid(p)] < Capacity[eid(p)]
      BY <3>1, <3>2, EventAssumption
    <3> QED
      BY <1>2, <1>4, <3>1, <3>3, <3>4 DEF Booking, Open, Accepting
  <2> QED
    BY <2>1, <2>2
<1>10. CASE Judged(p)
  <2>1. CASE job[p].verdict = "accepting"
    <3>1. GotoWith(p, "reread", [job[p] EXCEPT !.at = clock])
      BY <1>10, <2>1 DEF Judged
    <3>2. pc'[p] = "reread"
      BY <1>1, <3>1 DEF GotoWith
    <3> QED
      BY <1>2, <1>4, <1>10, <2>1, <3>2 DEF Booking, Open, Accepting, Judged
  <2>2. CASE job[p].verdict # "accepting"
    <3>1. pc'[p] \in {"idle", "done"}
      BY <1>1, <1>10, <2>2 DEF Judged, Answer
    <3> QED
      BY <3>1 DEF Booking, Open, Accepting
  <2> QED
    BY <2>1, <2>2
<1> QED
  BY <1>3, <1>5, <1>7, <1>8, <1>9, <1>10 DEF Reserving, Serve, Status, Listing, Scan,
         Reserve, Reread, UserFileOpen, FileForUser, FileForEvent, ResOpen, ResWrite,
         Close, CloseOwner, CloseStart, CloseCount, ClosePast, CloseEnded, CloseWrite,
         Create, Allocate, CountUp, Mkdir, Register, StartOpen, StartWrite, InitOpen,
         InitWrite, DescOpen, DescLock, Upload, Newline, DropCreated, DropStart, DropRes,
         Show, ShowStart, ShowCount, ShowSize, ShowOpen, ShowStream, Send, Mine, Reserved, ReadReservation

LEMMA ReserveKeepsCount ==
    ASSUME TypeInv, LifeInv, CountInv, ~WritesMayFail, NEW p \in Proc, Serve(p), pc[p] \in ReserveStep
    PROVE  /\ Booking(p)' /\ orphan' = {}
           /\ \A e \in Event : Counted(e)' /\ (stored'[e] # 0 => Bookable(e))
<1> DEFINE e == eid(p)
<1>1. /\ pc \in [Proc -> Label] /\ job[p] \in Job /\ e \in Event
      /\ res \in [Event -> Nat \cup {NoFile, Emptied}]
      /\ stored \in [Event -> Nat] /\ people(p) \in Nat /\ job[p].got \in Nat
  BY DEF TypeInv, ProcOK, StoreOK, Located, Anywhere, Job, Request
<1>2. op(p) = "reserve" /\ Others(p) /\ Alone(p) /\ Booking(p) /\ orphan = {}
  BY ServedAlone, ServeAlone DEF CountInv, LifeInv, Role
<1>3. Reserve(p)
  BY DEF Serve, Auth, EventDir, Status, StatusStart, StatusPast, StatusEnded, StatusCount, Judged,
         Listing, Scan, Close, CloseOwner, CloseStart, CloseCount, ClosePast, CloseEnded, CloseWrite,
         Create, Allocate, CountUp, Mkdir, Register, StartOpen, StartWrite, InitOpen,
         InitWrite, DescOpen, DescLock, Upload, Newline, DropCreated, DropStart, DropRes,
         Show, ShowStart, ShowCount, ShowSize, ShowOpen, ShowStream, Send, Mine, Reserved, ReadReservation
<1>4. \A q \in Proc \ {p} : pc[q] # "resOpen"
  BY <1>2 DEF Others, LifeInv, Role
<1>5. start[e] = "full" /\ Bookable(e)
  <2>1. start[e] = "full"
    BY <1>2 DEF Booking, Open
  <2>2. \A c \in Proc : Given(c) => pc[c] \notin CreateStep
    BY <1>2 DEF Others, Given
  <2>3. ASSUME e > Existing
        PROVE  \E c \in Proc : Given(c) /\ eid(c) = e
    BY <1>1, <2>1, <2>3 DEF LifeInv, Preserved
  <2>4. e <= Existing \/ e > Existing
    BY <1>1, EventAssumption DEF Event
  <2> QED
    BY <2>1, <2>2, <2>3, <2>4 DEF Bookable
<1>6. ASSUME res' = res, stored' = stored, pc[p] # "resOpen"
      PROVE  \A f \in Event : Counted(f)' /\ (stored'[f] # 0 => Bookable(f))
  BY <1>4, <1>6 DEF CountInv, Counted
<1>7. CASE Reread(p)
  <2>1. UNCHANGED <<start, res, stored, orphan>> /\ pc[p] = "reread"
    BY <1>7 DEF Reread, eventFiles, seatFiles
  <2>2. CASE \E r : Answer(p, r)
    <3>1. pc'[p] \in {"idle", "done"}
      BY <1>1, <2>2 DEF Answer
    <3> QED
      BY <1>2, <1>6, <2>1, <3>1 DEF Booking, Open, Accepting
  <2>3. CASE res[e] # NoFile /\ res[e] # Emptied /\ GotoWith(p, "userFile", [job[p] EXCEPT !.got = res[e]])
    <3>1. pc'[p] = "userFile" /\ eid(p)' = e /\ job'[p].got = res[e]
      BY <1>1, <2>3 DEF GotoWith, TypeInv, ProcOK, Job
    <3> QED
      BY <1>2, <1>5, <1>6, <2>1, <3>1 DEF Booking, Open, Accepting
  <2> QED
    BY <1>7, <2>2, <2>3 DEF Reread
<1>8. CASE UserFileOpen(p) \/ FileForUser(p)
  <2>1. /\ UNCHANGED <<start, res, stored, orphan, job>> /\ pc[p] \in {"userFile", "userWrite"}
        /\ pc'[p] \in {"userWrite", "eventFile"}
    BY <1>1, <1>8 DEF UserFileOpen, FileForUser, Goto, eventFiles
  <2> QED
    BY <1>2, <1>6, <2>1 DEF Booking, Open, Accepting
<1>9. CASE FileForEvent(p)
  <2>1. /\ UNCHANGED <<start, res, orphan, job>> /\ pc[p] = "eventFile" /\ pc'[p] = "resOpen"
        /\ stored' = [stored EXCEPT ![e] = @ + people(p)]
    BY <1>1, <1>9 DEF FileForEvent, Goto, eventFiles
  <2>2. res[e] = job[p].got /\ res[e] = stored[e]
    BY <1>1, <1>2, <1>4, <2>1 DEF Booking, CountInv, Counted, NoFile, Emptied
  <2>3. Booking(p)'
    BY <1>1, <1>2, <1>5, <2>1, <2>2 DEF Booking, Open, Accepting
  <2>4. \A f \in Event \ {e} : stored'[f] = stored[f]
    BY <1>1, <2>1
  <2>5. \A f \in Event : Counted(f)' /\ (stored'[f] # 0 => Bookable(f))
    <3> SUFFICES ASSUME NEW f \in Event
                 PROVE  Counted(f)' /\ (stored'[f] # 0 => Bookable(f))
      OBVIOUS
    <3>1. CASE f = e
      BY <1>5, <2>1, <3>1 DEF Counted
    <3>2. CASE f # e
      BY <1>4, <2>1, <2>4, <3>2 DEF Counted, CountInv
    <3> QED
      BY <3>1, <3>2
  <2> QED
    BY <1>2, <2>1, <2>3, <2>5
<1>10. CASE ResOpen(p)
  <2>1. /\ UNCHANGED <<start, stored, orphan, job>> /\ pc[p] = "resOpen" /\ pc'[p] = "resWrite"
        /\ res' = [res EXCEPT ![e] = Emptied]
    BY <1>1, <1>10 DEF ResOpen, Goto, eventFiles
  <2>2. Booking(p)'
    BY <1>1, <1>2, <1>5, <2>1 DEF Booking, Open, Accepting
  <2>3. \A f \in Event : Counted(f)' /\ (stored'[f] # 0 => Bookable(f))
    BY <1>1, <1>4, <2>1 DEF Counted, CountInv
  <2> QED
    BY <1>2, <2>1, <2>2, <2>3
<1>11. CASE ResWrite(p)
  <2>1. /\ stored' = stored /\ orphan' = {} /\ pc[p] = "resWrite" /\ pc'[p] \in {"idle", "done"}
        /\ res' = [res EXCEPT ![e] = job[p].got + people(p)]
    BY <1>1, <1>2, <1>11 DEF ResWrite, Answer, eventFiles
  <2>2. Booking(p)'
    BY <2>1 DEF Booking, Open, Accepting
  <2>3. stored[e] = job[p].got + people(p)
    BY <1>2, <2>1 DEF Booking
  <2>4. \A f \in Event : Counted(f)' /\ (stored'[f] # 0 => Bookable(f))
    BY <1>1, <1>4, <2>1, <2>3 DEF Counted, CountInv
  <2> QED
    BY <2>1, <2>2, <2>4
<1> QED
  BY <1>3, <1>7, <1>8, <1>9, <1>10, <1>11 DEF Reserve

LEMMA CreateKeepsCount ==
    ASSUME TypeInv, LifeInv, CountInv, NEW p \in Proc, Serve(p), pc[p] \in CreateStep
    PROVE  /\ orphan' = {} /\ stored' = stored
           /\ \A e \in Event : Counted(e)'
<1> USE DEF eventFiles, seatFiles
<1>1. res \in [Event -> Nat \cup {NoFile, Emptied}] /\ op(p) = "create" /\ Others(p) /\ orphan = {}
  BY ServedAlone DEF TypeInv, StoreOK, CountInv, LifeInv, Role
<1>2. Create(p)
  BY DEF Serve, Auth, EventDir, Status, StatusStart, StatusPast, StatusEnded, StatusCount, Judged,
         Listing, Scan, Reserve, Reread, UserFileOpen, FileForUser, FileForEvent, ResOpen, ResWrite,
         Close, CloseOwner, CloseStart, CloseCount, ClosePast, CloseEnded, CloseWrite,
         Show, ShowStart, ShowCount, ShowSize, ShowOpen, ShowStream, Send, Mine, Reserved, ReadReservation
<1>3. \A q \in Proc : pc[q] \notin {"resOpen", "resWrite"}
  BY <1>1 DEF Others, LifeInv, Role
<1>4. \A e \in Event : res[e] \in {NoFile, Emptied, stored[e]}
  BY <1>3 DEF CountInv, Counted
<1>5. CASE InitOpen(p)
  BY <1>1, <1>4, <1>5 DEF InitOpen, Counted
<1>6. CASE InitWrite(p)
  <2>1. eid(p) \in Event
    BY <1>6 DEF InitWrite, TypeInv, Located, Anywhere
  <2>2. ~Bookable(eid(p))
    BY <1>1, <2>1, EventAssumption DEF Bookable, LifeInv, GivenOnce, Given, Event
  <2>3. stored[eid(p)] = 0
    BY <2>1, <2>2 DEF CountInv
  <2>4. UNCHANGED <<stored, orphan>> /\ (res' = res \/ res' = [res EXCEPT ![eid(p)] = 0])
    BY <1>6 DEF InitWrite
  <2> QED
    BY <1>1, <1>4, <2>1, <2>3, <2>4 DEF Counted
<1>7. CASE DropRes(p)
  BY <1>1, <1>3, <1>4, <1>7 DEF DropRes, Counted
<1>8. CASE ~InitOpen(p) /\ ~InitWrite(p) /\ ~DropRes(p)
  <2>1. UNCHANGED <<res, stored, orphan>>
    BY <1>2, <1>8 DEF Create, Allocate, CountUp, Mkdir, Register, StartOpen, StartWrite, DescOpen, DescLock, Upload,
           Newline, DropCreated, DropStart
  <2> QED
    BY <1>1, <1>4, <2>1 DEF Counted
<1> QED
  BY <1>5, <1>6, <1>7, <1>8

LEMMA NextKeepsCount ==
    ASSUME TypeInv, LifeInv, CountInv, OneAtATime, [Next]_vars
    PROVE  CountInv'
<1>1. OneActive'
  BY NextKeepsOne DEF OneAtATime, CountInv
<1>2. CASE Rests
  BY <1>1, <1>2 DEF Rests, eventFiles, seatFiles, CountInv, Booking, Counted, Bookable, Given, Accepting
<1>3. ASSUME NEW p \in Proc, Arrives(p), pc[p] = "idle"
      PROVE  CountInv'
  <2>1. UNCHANGED <<start, res, stored, orphan>>
    BY <1>3 DEF Arrives, eventFiles, seatFiles
  <2>2. Booking(p)'
    BY <1>3 DEF Arrives, Booking, Open, Accepting
  <2>3. \A q \in Proc \ {p} : Booking(q)'
    BY <1>3, <2>1 DEF Arrives, CountInv, Booking, Accepting
  <2>4. \A e \in Event : (Counted(e) => Counted(e)') /\ (Bookable(e) => Bookable(e)')
    BY <1>3, <2>1 DEF Arrives, Counted, Bookable, Given
  <2> QED
    BY <1>1, <2>1, <2>2, <2>3, <2>4 DEF CountInv
<1>4. ASSUME NEW p \in Proc, Serve(p), pc[p] \notin CreateStep \cup ReserveStep
      PROVE  CountInv'
  <2>1. UNCHANGED <<start, res, stored, orphan>> /\ Alone(p)
    BY <1>4, ReadersLeave, ServeAlone DEF seatFiles
  <2>2. Booking(p)'
    <3>1. op(p)' = op(p)
      BY <2>1 DEF Alone
    <3>2. CASE op(p) = "reserve"
      BY <1>4, <3>2, ChecksBook DEF CountInv
    <3> QED
      BY <3>1, <3>2 DEF Booking
  <2>3. \A q \in Proc \ {p} : Booking(q)'
    BY <2>1 DEF Alone, CountInv, Booking, Accepting
  <2>4. \A e \in Event : Counted(e) => Counted(e)'
    BY <1>4, <2>1 DEF Alone, Counted
  <2> QED
    BY <1>1, <1>4, <2>1, <2>2, <2>3, <2>4, BookableStays DEF CountInv
<1>5. ASSUME NEW p \in Proc, Serve(p), pc[p] \in CreateStep \cup ReserveStep
      PROVE  CountInv'
  <2>1. Others(p) /\ Alone(p)
    BY <1>5, ServedAlone, ServeAlone DEF CountInv
  <2>2. \A q \in Proc \ {p} : Booking(q)'
    BY <2>1 DEF Others, Alone, Booking, Open, Accepting
  <2>3. CASE pc[p] \in ReserveStep
    BY <1>1, <1>5, <2>2, <2>3, ReserveKeepsCount, BookableStays DEF CountInv, OneAtATime
  <2>4. CASE pc[p] \in CreateStep
    <3>1. Booking(p)'
      BY <2>1, <2>4 DEF LifeInv, Role, Alone, Booking
    <3> QED
      BY <1>1, <1>5, <2>2, <2>4, <3>1, CreateKeepsCount, BookableStays DEF CountInv
  <2> QED
    BY <1>5, <2>3, <2>4
<1> QED
  BY <1>2, <1>3, <1>4, <1>5, NextInTurn DEF OneAtATime

LEMMA InitCount == Init => CountInv
<1> SUFFICES ASSUME Init PROVE CountInv
  OBVIOUS
<1>1. \A p \in Proc : op(p) = "list" /\ pc[p] = "idle"
  BY DEF Init, NewJob
<1>2. \A e \in Event : stored[e] = 0 /\ res[e] \in {NoFile, 0}
  BY DEF Init
<1> QED
  BY <1>1, <1>2 DEF Init, CountInv, OneActive, Active, Booking, Counted, Proc

LEMMA CountInvariant ==
    ASSUME OneAtATime
    PROVE  Spec => [](TypeInv /\ LifeInv /\ CountInv)
BY InitTyped, NextTyped, InitLife, NextKeepsLife, InitCount, NextKeepsCount, PTL DEF Spec

\* The README's "number of reserved seats": when one connection is served at a
\* time, RES is, whenever nothing is in progress, the number of seats of the
\* reservations filed.
THEOREM CountAtRest ==
    ASSUME OneAtATime
    PROVE  Spec => []RestCount
<1>1. ~WritesMayFail /\ ~MayCrash
  BY DEF OneAtATime
<1>2. TypeInv /\ LifeInv /\ CountInv /\ RestReadable => RestCount
  <2> SUFFICES ASSUME CountInv, RestReadable, AtRest, NEW e \in Event, Confirmed(e)
               PROVE  res[e] = stored[e]
    BY DEF RestCount
  <2>1. res[e] >= 0
    BY DEF RestReadable
  <2> QED
    BY <2>1 DEF CountInv, Counted, AtRest, Idle, NoFile, Emptied
<1> QED
  BY <1>1, <1>2, CountInvariant, ReadableAtRest, PTL

LEMMA NextKeepsWithin ==
    ASSUME TypeInv, LifeInv, SeatInv, CountInv, NoOverbooking, OneAtATime, [Next]_vars
    PROVE  NoOverbooking'
<1>1. CASE UNCHANGED stored
  BY <1>1 DEF NoOverbooking
<1>2. ASSUME NEW p \in Proc, FileForEvent(p), ~UNCHANGED stored
      PROVE  NoOverbooking'
  <2>1. Serve(p) /\ pc[p] = "eventFile" /\ eid(p) \in Event
    BY <1>2 DEF FileForEvent, Serve, Reserve, TypeInv, Located, Anywhere
  <2>2. op(p) = "reserve" /\ Others(p)
    BY <2>1, ServedAlone DEF CountInv, LifeInv, Role
  <2>3. \A q \in Proc : pc[q] # "resOpen"
    BY <2>1, <2>2 DEF Others, LifeInv, Role
  <2>4. res[eid(p)] = job[p].got
    BY <2>1, <2>2 DEF CountInv, Booking
  <2>5. job[p].got \in Nat
    BY DEF TypeInv, ProcOK, Job
  <2>6. stored[eid(p)] = job[p].got
    BY <2>1, <2>3, <2>4, <2>5 DEF CountInv, Counted, NoFile, Emptied
  <2>7. job[p].got + people(p) <= Capacity[eid(p)]
    BY <2>1 DEF SeatInv, SureFits, Sure
  <2>8. stored' = [stored EXCEPT ![eid(p)] = @ + people(p)]
    BY <1>2 DEF FileForEvent
  <2> QED
    BY <2>1, <2>6, <2>7, <2>8 DEF NoOverbooking, TypeInv, StoreOK
<1>3. ASSUME NEW p \in Proc, Serve(p), ~FileForEvent(p)
      PROVE  UNCHANGED stored
  <2>1. CASE pc[p] \notin CreateStep \cup ReserveStep
    BY <1>3, <2>1, ReadersLeave DEF seatFiles
  <2>2. CASE pc[p] \in CreateStep
    BY <1>3, <2>2, CreateKeepsCount
  <2>3. CASE pc[p] \in ReserveStep /\ ~FileForEvent(p)
    BY <1>3, <2>3 DEF seatFiles, Serve, Auth, EventDir,
         Status, StatusStart, StatusPast, StatusEnded, StatusCount, Judged,
         Listing, Scan, Reserve, Reread, UserFileOpen, FileForUser, ResOpen, ResWrite,
         Close, CloseOwner, CloseStart, CloseCount, ClosePast, CloseEnded, CloseWrite,
         Create, Allocate, CountUp, Mkdir, Register, StartOpen, StartWrite, InitOpen,
         InitWrite, DescOpen, DescLock, Upload, Newline, DropCreated, DropStart, DropRes,
         Show, ShowStart, ShowCount, ShowSize, ShowOpen, ShowStream, Send, Mine, Reserved, ReadReservation
  <2> QED
    BY <1>3, <2>1, <2>2, <2>3
<1>4. CASE Rests \/ \E p \in Proc : Arrives(p)
  BY <1>1, <1>4 DEF Rests, Arrives, seatFiles
<1> QED
  BY <1>1, <1>2, <1>3, <1>4, NextInTurn DEF OneAtATime

\* When one connection is served at a time no event is given away beyond its
\* capacity (Database::reserve checks and files in separate steps).
THEOREM NeverOverbookedInTurn ==
    ASSUME OneAtATime
    PROVE  Spec => []NoOverbooking
<1>1. Init => NoOverbooking
  BY EventAssumption DEF Init, NoOverbooking
<1> QED
  BY <1>1, InitTyped, NextTyped, InitLife, NextKeepsLife, InitSeats, NextKeepsSeats, InitCount,
     NextKeepsCount, NextKeepsWithin, PTL DEF Spec

-----------------------------------------------------------------------------
(***************************************************************************)
(* What is accepted is on file.                                            *)
(***************************************************************************)
\* ACC is the answer of the last step only: the seats left that Reread finds
\* are those the status check found.
LEMMA AcceptedLast ==
    ASSUME TypeInv, LifeInv, CountInv, NEW p \in Proc, Serve(p), reply'[p] = "ACC"
    PROVE  ResWrite(p)
<1>1. reply \in [Proc -> Reply] /\ reply[p] # "ACC"
  BY ServeBusy DEF TypeInv, ProcOK, LifeInv, Role
<1>2. pc[p] \in ReserveStep
  BY <1>1, ServeBusy
<1>3. op(p) = "reserve" /\ eid(p) \in Event
  BY <1>2 DEF LifeInv, Role, TypeInv, Located, Anywhere
<1>4. CASE Reread(p)
  <2>1. Capacity[eid(p)] - res[eid(p)] > 0
    <3>1. res[eid(p)] >= 0 /\ res[eid(p)] < Capacity[eid(p)]
      BY <1>3, <1>4 DEF Reread, CountInv, Booking
    <3> QED
      BY <1>3, <3>1, EventAssumption DEF TypeInv, StoreOK, NoFile, Emptied
  <2> QED
    BY <1>1, <1>4, <2>1 DEF Reread, Answer, GotoWith
<1>5. CASE UserFileOpen(p) \/ FileForUser(p) \/ FileForEvent(p) \/ ResOpen(p)
  BY <1>1, <1>5 DEF UserFileOpen, FileForUser, FileForEvent, ResOpen, Goto
<1> QED
  BY <1>2, <1>4, <1>5 DEF Serve, Auth, EventDir,
         Status, StatusStart, StatusPast, StatusEnded, StatusCount, Judged,
         Listing, Scan, Reserve, Close, CloseOwner, CloseStart, CloseCount, ClosePast, CloseEnded,
         CloseWrite, Create, Allocate, CountUp, Mkdir, Register, StartOpen, StartWrite, InitOpen,
         InitWrite, DescOpen, DescLock, Upload, Newline, DropCreated, DropStart, DropRes,
         Show, ShowStart, ShowCount, ShowSize, ShowOpen, ShowStream, Send, Mine, Reserved, ReadReservation

\* How a reservation gets to the steps that file it.
LEMMA FilingSteps ==
    ASSUME TypeInv, NEW p \in Proc, Serve(p)
    PROVE  /\ pc'[p] = "userWrite" => UserFileOpen(p)
           /\ pc'[p] = "eventFile" => FileForUser(p)
           /\ pc'[p] = "resOpen" => FileForEvent(p)
           /\ pc'[p] = "resWrite" => ResOpen(p)
<1> USE DEF Goto, GotoWith, Answer
<1>1. pc \in [Proc -> Label]
  BY DEF TypeInv, ProcOK
<1>2. CASE Auth(p) \/ EventDir(p)
  BY <1>1, <1>2 DEF Auth, EventDir
<1>3. CASE Status(p)
  <2>1. CASE Judged(p)
    BY <1>1, <2>1 DEF Judged
  <2>2. CASE Scan(p) \/ Listing(p)
    BY <1>1, <2>2 DEF Scan, Listing
  <2> QED
    BY <1>1, <1>3, <2>1, <2>2 DEF Status, StatusStart, StatusPast, StatusEnded, StatusCount, Judge
<1>4. CASE Reserve(p)
  <2>1. CASE Reread(p)
    BY <1>1, <2>1 DEF Reread
  <2>2. CASE ResWrite(p)
    BY <1>1, <2>2 DEF ResWrite
  <2>3. CASE UserFileOpen(p)
    BY <1>1, <2>3 DEF UserFileOpen
  <2>4. CASE FileForUser(p)
    BY <1>1, <2>4 DEF FileForUser
  <2>5. CASE FileForEvent(p)
    BY <1>1, <2>5 DEF FileForEvent
  <2>6. CASE ResOpen(p)
    BY <1>1, <2>6 DEF ResOpen
  <2> QED
    BY <1>4, <2>1, <2>2, <2>3, <2>4, <2>5, <2>6 DEF Reserve
<1>5. CASE Close(p)
  <2>1. CASE CloseOwner(p)
    BY <1>1, <2>1 DEF CloseOwner
  <2>2. CASE CloseCount(p)
    BY <1>1, <2>2 DEF CloseCount
  <2>3. CASE ClosePast(p)
    BY <1>1, <2>3 DEF ClosePast
  <2> QED
    BY <1>1, <1>5, <2>1, <2>2, <2>3 DEF Close, CloseStart, CloseEnded, CloseWrite
<1>6. CASE Create(p)
  BY <1>1, <1>6 DEF Create, Allocate, CountUp, Mkdir, Register, StartOpen, StartWrite, InitOpen,
         InitWrite, DescOpen, DescLock, Upload, Newline, DropCreated, DropStart, DropRes
<1>7. CASE Show(p)
  BY <1>1, <1>7 DEF Show, ShowStart, ShowCount, ShowSize, ShowOpen, ShowStream, Send
<1>8. CASE Mine(p)
  BY <1>1, <1>8 DEF Mine, Reserved, ReadReservation
<1> QED
  BY <1>2, <1>3, <1>4, <1>5, <1>6, <1>7, <1>8 DEF Serve

\* With writes that succeed these are the steps that file reservations.
LEMMA FilesKept ==
    ASSUME ~WritesMayFail, NEW p \in Proc, Serve(p)
    PROVE  /\ FileForEvent(p) \/ eventRes' = eventRes
           /\ UserFileOpen(p) \/ FileForUser(p) \/ userRes' = userRes
<1>1. CASE pc[p] \notin CreateStep \cup ReserveStep
  BY <1>1, ReadersLeave DEF seatFiles
<1>2. CASE pc[p] \in ReserveStep
  BY <1>2 DEF seatFiles, Serve, Auth, EventDir,
         Status, StatusStart, StatusPast, StatusEnded, StatusCount, Judged,
         Listing, Scan, Reserve, Reread, UserFileOpen, FileForUser, FileForEvent, ResOpen, ResWrite,
         Close, CloseOwner, CloseStart, CloseCount, ClosePast, CloseEnded, CloseWrite,
         Create, Allocate, CountUp, Mkdir, Register, StartOpen, StartWrite, InitOpen,
         InitWrite, DescOpen, DescLock, Upload, Newline, DropCreated, DropStart, DropRes,
         Show, ShowStart, ShowCount, ShowSize, ShowOpen, ShowStream, Send, Mine, Reserved, ReadReservation
<1>3. CASE pc[p] \in CreateStep
  BY <1>3 DEF seatFiles, Serve, Auth, EventDir,
         Status, StatusStart, StatusPast, StatusEnded, StatusCount, Judged,
         Listing, Scan, Reserve, Reread, UserFileOpen, FileForUser, FileForEvent, ResOpen, ResWrite,
         Close, CloseOwner, CloseStart, CloseCount, ClosePast, CloseEnded, CloseWrite,
         Create, Allocate, CountUp, Mkdir, Register, StartOpen, StartWrite, InitOpen,
         InitWrite, DescOpen, DescLock, Upload, Newline, DropCreated, DropStart, DropRes,
         Show, ShowStart, ShowCount, ShowSize, ShowOpen, ShowStream, Send, Mine, Reserved, ReadReservation
<1> QED
  BY <1>1, <1>2, <1>3

LEMMA NextKeepsFiled ==
    ASSUME TypeInv, LifeInv, OverInv, CountInv, FiledInv, OneAtATime, [Next]_vars
    PROVE  FiledInv'
<1>1. CASE Rests
  BY <1>1 DEF Rests, seatFiles, FiledInv, HasFiled
<1>2. ASSUME NEW p \in Proc, Arrives(p)
      PROVE  FiledInv'
  BY <1>2 DEF Arrives, seatFiles, FiledInv, HasFiled, Proc
<1>3. ASSUME NEW p \in Proc, Serve(p), NEW c \in Child, HasFiled(c)'
      PROVE  \E f \in eventRes' : f.eid = eid(c)' /\ f.uid = uid(c)'
  <2>1. Alone(p) /\ ~WritesMayFail
    BY <1>3, ServeAlone DEF OneAtATime
  <2>2. CASE HasFiled(c) /\ eid(c)' = eid(c) /\ uid(c)' = uid(c)
    <3>1. PICK f \in eventRes : f.eid = eid(c) /\ f.uid = uid(c)
      BY <2>2 DEF FiledInv
    <3>2. CASE eventRes' = eventRes
      BY <2>2, <3>1, <3>2
    <3>3. CASE FileForEvent(p)
      <4>1. eventRes' = WithoutEventFile(p) \cup {Filing(p)}
        BY <2>1, <3>3 DEF FileForEvent
      <4>2. CASE f \in WithoutEventFile(p)
        BY <2>2, <3>1, <4>1, <4>2
      <4>3. CASE f \notin WithoutEventFile(p)
        <5>1. SameName(f, Filing(p)) /\ f.eid = eid(p)
          BY <3>1, <4>3 DEF WithoutEventFile
        <5>2. f.uid = uid(p) /\ Filing(p).uid = uid(p) /\ Filing(p).eid = eid(p)
          BY <5>1 DEF SameName, Filing
        <5> QED
          BY <2>2, <3>1, <4>1, <5>1, <5>2
      <4> QED
        BY <4>2, <4>3
    <3> QED
      BY <1>3, <2>1, <3>2, <3>3, FilesKept
  <2>3. CASE c # p
    <3>1. HasFiled(c) /\ eid(c)' = eid(c) /\ uid(c)' = uid(c)
      BY <1>3, <2>1, <2>3 DEF Alone, HasFiled, Proc
    <3> QED
      BY <2>2, <3>1
  <2>4. CASE c = p /\ pc'[p] = "resOpen"
    <3>1. FileForEvent(p)
      BY <1>3, <2>4, FilingSteps
    <3>2. eventRes' = WithoutEventFile(p) \cup {Filing(p)} /\ job' = job
      BY <2>1, <3>1 DEF FileForEvent, Goto
    <3>3. Filing(p).uid = uid(p) /\ Filing(p).eid = eid(p)
      BY DEF Filing
    <3> QED
      BY <2>4, <3>2, <3>3
  <2>5. CASE c = p /\ pc'[p] # "resOpen"
    <3>1. ResOpen(p) \/ ResWrite(p)
      BY <1>3, <2>5, FilingSteps, AcceptedLast DEF HasFiled
    <3>2. pc[p] \in {"resOpen", "resWrite"} /\ job' = job
      BY <2>1, <3>1 DEF ResOpen, ResWrite, Goto, Answer
    <3>3. HasFiled(c) /\ eid(c)' = eid(c) /\ uid(c)' = uid(c)
      BY <2>5, <3>2 DEF HasFiled, LifeInv, Role
    <3> QED
      BY <2>2, <3>3
  <2> QED
    BY <2>3, <2>4, <2>5
<1> QED
  BY <1>1, <1>2, <1>3, NextInTurn DEF OneAtATime, FiledInv

LEMMA InitFiled == Init => FiledInv
BY DEF Init, NewJob, FiledInv, HasFiled, Proc

\* One connection at a time, a user who was told ACC has a reservation on file
\* with the event.
THEOREM AcceptedFiled ==
    ASSUME OneAtATime
    PROVE  Spec => []AcceptedIsFiled
<1>1. OverInv /\ FiledInv => AcceptedIsFiled
  BY DEF OverInv, OnlyReserve, FiledInv, HasFiled, AcceptedIsFiled, Proc
<1> QED
  BY <1>1, InitTyped, NextTyped, InitLife, NextKeepsLife, InitOver, NextKeepsOver, InitCount,
     NextKeepsCount, InitFiled, NextKeepsFiled, PTL DEF Spec

\* The names of a reservation's files, and what is in them, stay.
LEMMA FilingFixed ==
    ASSUME TypeInv, NEW p \in Proc, Serve(p)
    PROVE  /\ \A q \in Proc \ {p} : Filing(q)' = Filing(q) /\ Blank(q)' = Blank(q)
           /\ job' = job => Filing(p)' = Filing(p) /\ Blank(p)' = Blank(p)
BY ServeAlone DEF Alone, Filing, Blank

LEMMA NextKeepsListed ==
    ASSUME TypeInv, LifeInv, OverInv, CountInv, ListedInv, OneAtATime, [Next]_vars
    PROVE  ListedInv'
<1>1. CASE Rests
  <2>1. userRes' = userRes /\ pc' = pc /\ job' = job /\ reply' = reply
    BY <1>1 DEF Rests, seatFiles
  <2>2. \A q \in Child : Filing(q)' = Filing(q) /\ Blank(q)' = Blank(q)
    BY <2>1 DEF Filing, Blank
  <2>3. \A c \in Child : OnList(c) => OnList(c)'
    BY <2>1, <2>2 DEF OnList
  <2>4. \A c, q \in Child : Overwriting(q, c) => Overwriting(q, c)'
    BY <2>1, <2>2 DEF Overwriting, SameName
  <2> QED
    BY <2>1, <2>2, <2>3, <2>4 DEF ListedInv
<1>2. ASSUME NEW p \in Proc, Arrives(p), pc[p] = "idle"
      PROVE  ListedInv'
  <2>1. reply[p] # "ACC" /\ reply'[p] # "ACC" /\ op(p) # "reserve"
        /\ pc'[p] \notin {"userWrite", "eventFile", "resOpen", "resWrite"}
        /\ userRes' = userRes
    BY <1>2 DEF Arrives, OverInv, OnlyReserve, seatFiles
  <2>2. \A q \in Proc \ {p} : /\ pc'[q] = pc[q] /\ job'[q] = job[q] /\ reply'[q] = reply[q]
                              /\ Filing(q)' = Filing(q) /\ Blank(q)' = Blank(q)
    BY <1>2 DEF Arrives, Filing, Blank
  <2>3. ASSUME NEW q \in Child, op(q)' = "reserve"
        PROVE  /\ pc'[q] = "userWrite" => Blank(q)' \in userRes'
               /\ pc'[q] \in {"eventFile", "resOpen", "resWrite"} => Filing(q)' \in userRes'
    BY <2>1, <2>2, <2>3 DEF ListedInv, Proc
  <2>4. ASSUME NEW c \in Child, reply'[c] = "ACC"
        PROVE  OnList(c)' \/ \E q \in Child : Overwriting(q, c)'
    <3>1. c # p /\ reply[c] = "ACC"
      BY <2>1, <2>2, <2>4 DEF Proc
    <3>2. OnList(c) => OnList(c)'
      BY <2>1, <2>2, <3>1 DEF OnList, Proc
    <3>3. \A q \in Child : Overwriting(q, c) => Overwriting(q, c)'
      BY <2>1, <2>2, <3>1 DEF Overwriting, SameName, Proc
    <3> QED
      BY <3>1, <3>2, <3>3 DEF ListedInv
  <2> QED
    BY <2>3, <2>4 DEF ListedInv
<1>3. ASSUME NEW p \in Proc, Serve(p)
      PROVE  ListedInv'
  <2>1. Alone(p) /\ ~WritesMayFail /\ reply[p] # "ACC" /\ pc \in [Proc -> Label]
    BY <1>3, ServeAlone, ServeBusy DEF OneAtATime, LifeInv, Role, TypeInv, ProcOK
  <2>2. \A q \in Proc \ {p} : /\ pc'[q] = pc[q] /\ job'[q] = job[q] /\ reply'[q] = reply[q]
                              /\ Filing(q)' = Filing(q) /\ Blank(q)' = Blank(q)
    BY <1>3, <2>1, FilingFixed DEF Alone
  <2>3. Filing(p).uid = uid(p) /\ Filing(p).at = job[p].at /\ Filing(p).eid = eid(p)
        /\ SameName(Blank(p), Filing(p))
    BY DEF Filing, Blank, SameName
  <2>4. ASSUME NEW c \in Child, OnList(c), c # p
        PROVE  OnList(c)' \/ (SameName(Filing(c), Filing(p)) /\ userRes' # userRes)
    <3>1. PICK f \in userRes : /\ f.uid = uid(c) /\ f.at = job[c].at
                               /\ f.eid = eid(c) \/ \E d \in Child \ {c} : reply[d] = "ACC" /\ f = Filing(d)
      BY <2>4 DEF OnList
    <3>2. f \in userRes' => OnList(c)'
      BY <2>1, <2>2, <2>4, <3>1 DEF OnList, Proc
    <3>3. f \in userRes' \/ (SameName(f, Filing(p)) /\ userRes' # userRes)
      BY <1>3, <2>1, FilesKept DEF UserFileOpen, FileForUser, WithoutUserFile
    <3>4. SameName(f, Filing(p)) => SameName(Filing(c), Filing(p))
      BY <3>1 DEF SameName, Filing
    <3> QED
      BY <3>2, <3>3, <3>4
  <2>5. CASE UserFileOpen(p) \/ FileForUser(p) \/ FileForEvent(p) \/ ResOpen(p) \/ ResWrite(p)
    <3>1. pc[p] \in ReserveStep /\ job' = job
      BY <2>1, <2>5 DEF UserFileOpen, FileForUser, FileForEvent, ResOpen, ResWrite, Goto, Answer
    <3>2. op(p) = "reserve" /\ p \in Child /\ Others(p) /\ op(p)' = "reserve"
          /\ Filing(p)' = Filing(p) /\ Blank(p)' = Blank(p)
      BY <1>3, <3>1, ServedAlone, FilingFixed DEF LifeInv, Role, CountInv
    <3>3. \A q \in Proc \ {p} : op(q) = "reserve" => pc[q] \in {"idle", "done"}
      BY <3>2 DEF Others
    <3>4. \A c \in Child, q \in Child : Overwriting(q, c) => q = p
      BY <3>3 DEF Overwriting, Proc
    <3>5. ASSUME NEW q \in Child, op(q)' = "reserve", q # p
          PROVE  pc'[q] \in {"idle", "done"}
      BY <2>1, <3>3, <3>5 DEF Alone, Proc
    <3>6. CASE UserFileOpen(p) \/ FileForUser(p)
      <4>1. /\ pc[p] = "userFile" => userRes' = WithoutUserFile(p) \cup {Blank(p)} /\ pc'[p] = "userWrite"
            /\ pc[p] = "userWrite" => userRes' = WithoutUserFile(p) \cup {Filing(p)} /\ pc'[p] = "eventFile"
            /\ pc[p] \in {"userFile", "userWrite"} /\ reply' = reply
        <5>1. CASE UserFileOpen(p)
          BY <2>1, <5>1 DEF UserFileOpen, Goto
        <5>2. CASE FileForUser(p)
          <6>1. Blank(p) \in userRes /\ Blank(p) \notin WithoutUserFile(p)
            BY <2>3, <3>2, <5>2 DEF ListedInv, FileForUser, WithoutUserFile
          <6> QED
            BY <2>1, <5>2, <6>1 DEF FileForUser, Goto
        <5> QED
          BY <3>6, <5>1, <5>2
      <4>2. ASSUME NEW c \in Child, reply'[c] = "ACC"
            PROVE  OnList(c)' \/ \E q \in Child : Overwriting(q, c)'
        <5>1. reply[c] = "ACC" /\ c # p
          BY <2>1, <4>1, <4>2
        <5>2. SameName(Filing(c), Filing(p)) => Overwriting(p, c)'
          BY <2>2, <3>2, <4>1, <5>1 DEF Overwriting, SameName, Proc
        <5>3. CASE OnList(c)
          BY <2>4, <3>2, <5>1, <5>2, <5>3
        <5>4. CASE \E q \in Child : Overwriting(q, c)
          <6>1. SameName(Filing(c), Filing(p))
            BY <3>4, <5>4 DEF Overwriting
          <6> QED
            BY <3>2, <5>2, <6>1
        <5> QED
          BY <5>1, <5>3, <5>4 DEF ListedInv
      <4>3. ASSUME NEW q \in Child, op(q)' = "reserve"
            PROVE  /\ pc'[q] = "userWrite" => Blank(q)' \in userRes'
                   /\ pc'[q] \in {"eventFile", "resOpen", "resWrite"} => Filing(q)' \in userRes'
        <5>1. CASE q = p
          BY <3>2, <4>1, <5>1
        <5>2. CASE q # p
          BY <3>5, <4>3, <5>2
        <5> QED
          BY <5>1, <5>2
      <4> QED
        BY <4>2, <4>3 DEF ListedInv
    <3>7. CASE FileForEvent(p) \/ ResOpen(p) \/ ResWrite(p)
      <4>1. /\ userRes' = userRes /\ pc[p] \in {"eventFile", "resOpen", "resWrite"}
            /\ Filing(p) \in userRes
            /\ \/ pc'[p] \in {"resOpen", "resWrite"} /\ reply' = reply
               \/ pc'[p] = "done" /\ reply'[p] = "ACC"
        <5>1. pc[p] \in {"eventFile", "resOpen", "resWrite"} /\ userRes' = userRes
          BY <2>1, <3>7 DEF FileForEvent, ResOpen, ResWrite
        <5>2. Filing(p) \in userRes
          BY <3>2, <5>1 DEF ListedInv
        <5>3. CASE FileForEvent(p) \/ ResOpen(p)
          BY <2>1, <5>1, <5>2, <5>3 DEF FileForEvent, ResOpen, Goto
        <5>4. CASE ResWrite(p)
          BY <2>1, <3>2, <5>1, <5>2, <5>4, ProcAssumption DEF ResWrite, Answer, TypeInv, ProcOK
        <5> QED
          BY <3>7, <5>3, <5>4
      <4>2. ASSUME NEW c \in Child, reply'[c] = "ACC"
            PROVE  OnList(c)' \/ \E q \in Child : Overwriting(q, c)'
        <5>1. CASE c = p
          BY <2>3, <3>1, <4>1, <5>1 DEF OnList
        <5>2. CASE c # p
          <6>1. reply[c] = "ACC"
            BY <2>2, <4>2, <5>2 DEF Proc
          <6>2. CASE OnList(c)
            BY <2>4, <4>1, <5>2, <6>2
          <6>3. CASE SameName(Filing(c), Filing(p))
            <7>1. CASE pc'[p] \in {"resOpen", "resWrite"}
              <8>1. Overwriting(p, c)'
                BY <2>2, <3>2, <5>2, <6>3, <7>1 DEF Overwriting, SameName, Proc
              <8> QED
                BY <3>2, <8>1
            <7>2. CASE reply'[p] = "ACC"
              <8>1. Filing(p).uid = uid(c) /\ Filing(p).at = job[c].at
                BY <6>3 DEF SameName, Filing
              <8>2. OnList(c)'
                BY <2>2, <3>2, <4>1, <5>2, <7>2, <8>1 DEF OnList, Proc
              <8> QED
                BY <8>2
            <7> QED
              BY <4>1, <7>1, <7>2
          <6> QED
            BY <3>4, <6>1, <6>2, <6>3 DEF ListedInv, Overwriting
        <5> QED
          BY <5>1, <5>2
      <4>3. ASSUME NEW q \in Child, op(q)' = "reserve"
            PROVE  /\ pc'[q] = "userWrite" => Blank(q)' \in userRes'
                   /\ pc'[q] \in {"eventFile", "resOpen", "resWrite"} => Filing(q)' \in userRes'
        <5>1. CASE q = p
          BY <3>2, <4>1, <5>1
        <5>2. CASE q # p
          BY <3>5, <4>3, <5>2
        <5> QED
          BY <5>1, <5>2
      <4> QED
        BY <4>2, <4>3 DEF ListedInv
    <3> QED
      BY <2>5, <3>6, <3>7
  <2>6. CASE ~UserFileOpen(p) /\ ~FileForUser(p) /\ ~FileForEvent(p) /\ ~ResOpen(p) /\ ~ResWrite(p)
    <3>1. userRes' = userRes /\ reply'[p] # "ACC"
          /\ pc'[p] \notin {"userWrite", "eventFile", "resOpen", "resWrite"}
      BY <1>3, <2>1, <2>6, FilesKept, AcceptedLast, FilingSteps
    <3>2. op(p) = "reserve" => pc[p] \notin {"userWrite", "eventFile", "resOpen", "resWrite"}
      BY <1>3, <2>6 DEF Serve, Auth, EventDir,
         Status, StatusStart, StatusPast, StatusEnded, StatusCount, Judged,
         Listing, Scan, Reserve, Reread,
         Close, CloseOwner, CloseStart, CloseCount, ClosePast, CloseEnded, CloseWrite,
         Create, Allocate, CountUp, Mkdir, Register, StartOpen, StartWrite, InitOpen,
         InitWrite, DescOpen, DescLock, Upload, Newline, DropCreated, DropStart, DropRes,
         Show, ShowStart, ShowCount, ShowSize, ShowOpen, ShowStream, Send, Mine, Reserved, ReadReservation
    <3>3. ASSUME NEW q \in Child, op(q)' = "reserve"
          PROVE  /\ pc'[q] = "userWrite" => Blank(q)' \in userRes'
                 /\ pc'[q] \in {"eventFile", "resOpen", "resWrite"} => Filing(q)' \in userRes'
      BY <2>2, <3>1, <3>3 DEF ListedInv, Proc
    <3>4. ASSUME NEW c \in Child, reply'[c] = "ACC"
          PROVE  OnList(c)' \/ \E q \in Child : Overwriting(q, c)'
      <4>1. c # p /\ reply[c] = "ACC"
        BY <2>2, <3>1, <3>4 DEF Proc
      <4>2. OnList(c) => OnList(c)'
        BY <2>4, <3>1, <4>1
      <4>3. \A q \in Child : Overwriting(q, c) => Overwriting(q, c)'
        BY <2>2, <3>2, <4>1 DEF Overwriting, SameName, Proc
      <4> QED
        BY <4>1, <4>2, <4>3 DEF ListedInv
    <3> QED
      BY <3>3, <3>4 DEF ListedInv
  <2> QED
    BY <2>5, <2>6
<1> QED
  BY <1>1, <1>2, <1>3, NextInTurn DEF OneAtATime

LEMMA InitListed == Init => ListedInv
BY DEF Init, NewJob, ListedInv, Proc

\* One connection at a time, a user who was told ACC finds the event among his
\* reservations, unless another of his was accepted within the same second.
THEOREM AcceptedListed ==
    ASSUME OneAtATime
    PROVE  Spec => []AcceptedIsListed
<1>1. ListedInv => AcceptedIsListed
  <2> SUFFICES ASSUME ListedInv, AtRest, NEW c \in Child, reply[c] = "ACC"
               PROVE  OnList(c)
    BY DEF AcceptedIsListed, OnList
  <2> QED
    BY DEF ListedInv, Overwriting, AtRest, Idle, Proc
<1> QED
  BY <1>1, InitTyped, NextTyped, InitLife, NextKeepsLife, InitOver, NextKeepsOver, InitCount,
     NextKeepsCount, InitListed, NextKeepsListed, PTL DEF Spec

-----------------------------------------------------------------------------
(***************************************************************************)
(* The event files implement the seat inventory.  Asking for one's events  *)
(* closes those that have passed, and the parent may do that at any moment,*)
(* so here nobody does.                                                    *)
(***************************************************************************)
NoMyEvents == \A r \in Requests : r.op # "myevents"

LEMMA NextKeepsQuiet ==
    ASSUME TypeInv, LifeInv, QuietParent, NoMyEvents, [Next]_vars
    PROVE  QuietParent'
<1>1. pc \in [Proc -> Label] /\ job \in [Proc -> Job] /\ Parent \in Proc
  BY DEF TypeInv, ProcOK, Proc
<1>2. CASE Tick \/ UNCHANGED vars
  BY <1>2 DEF Tick, vars, QuietParent
<1>3. CASE Crash
  <2>1. pc'[Parent] \in {pc[Parent], "idle"} /\ job' = job
    BY <1>1, <1>3 DEF Crash, Idle
  <2> QED
    BY <2>1 DEF QuietParent
<1>4. ASSUME NEW r \in Requests, r.op \in Query, Receive(Parent, r)
      PROVE  QuietParent'
  <2>1. r.op = "myreservations"
    BY <1>4 DEF NoMyEvents, Query
  <2>2. pc'[Parent] = "auth" /\ job'[Parent] = [NewJob(r) EXCEPT !.at = clock]
    BY <1>1, <1>4, <2>1 DEF Receive, FirstStep
  <2>3. job'[Parent].req.op = "myreservations"
    BY <2>1, <2>2 DEF NewJob
  <2> QED
    BY <2>2, <2>3 DEF QuietParent
<1>5. ASSUME NEW c \in Child, Accept(c)
      PROVE  QuietParent'
  BY <1>1, <1>5, ProcAssumption DEF Accept, Receive, QuietParent
<1>6. ASSUME Serve(Parent)
      PROVE  QuietParent'
  <2>1. Auth(Parent) \/ Reserved(Parent) \/ ReadReservation(Parent)
    BY <1>6 DEF QuietParent, Serve, EventDir,
         Status, StatusStart, StatusPast, StatusEnded, StatusCount, Judged,
         Listing, Scan, Reserve, Reread, UserFileOpen, FileForUser, FileForEvent, ResOpen, ResWrite,
         Close, CloseOwner, CloseStart, CloseCount, ClosePast, CloseEnded, CloseWrite,
         Create, Allocate, CountUp, Mkdir, Register, StartOpen, StartWrite, InitOpen,
         InitWrite, DescOpen, DescLock, Upload, Newline, DropCreated, DropStart, DropRes,
         Show, ShowStart, ShowCount, ShowSize, ShowOpen, ShowStream, Send, Mine
  <2>2. pc'[Parent] \in {"idle", "reserved", "reading"}
    BY <1>1, <2>1 DEF QuietParent, Auth, Reserved, ReadReservation, Goto, GotoWith, Answer
  <2> QED
    BY <2>2 DEF QuietParent
<1>7. ASSUME NEW p \in Proc, Serve(p), p # Parent
      PROVE  QuietParent'
  BY <1>1, <1>7, ServeAlone DEF Alone, QuietParent
<1> QED
  BY <1>2, <1>3, <1>4, <1>5, <1>6, <1>7 DEF Next, Datagram

\* What closes an event.
LEMMA EndKept ==
    ASSUME NEW p \in Proc, Serve(p), ~StatusPast(p), ~CloseWrite(p)
    PROVE  end' = end
BY DEF eventFiles, Serve, Auth, EventDir,
       Status, StatusStart, StatusEnded, StatusCount, Judged,
       Listing, Scan, Reserve, Reread, UserFileOpen, FileForUser, FileForEvent, ResOpen, ResWrite,
       Close, CloseOwner, CloseStart, CloseCount, ClosePast, CloseEnded,
       Create, Allocate, CountUp, Mkdir, Register, StartOpen, StartWrite, InitOpen,
       InitWrite, DescOpen, DescLock, Upload, Newline, DropCreated, DropStart, DropRes,
       Show, ShowStart, ShowCount, ShowSize, ShowOpen, ShowStream, Send, Mine, Reserved, ReadReservation

\* What a reservation past its look for an END file relies on.
PastEnd(p) == op(p) = "reserve" /\ (pc[p] \in {"count"} \cup ReserveStep \/ Accepting(p))

LEMMA ChecksOpen ==
    ASSUME TypeInv, LifeInv, NEW p \in Proc, Serve(p), PastEnd(p)', PastEnd(p) => ~end[eid(p)]
    PROVE  ~end'[eid(p)'] /\ eid(p)' = eid(p)
<1>1. pc \in [Proc -> Label] /\ job[p] \in Job
  BY DEF TypeInv, ProcOK
<1>2. Alone(p) /\ op(p) = "reserve" /\ pc[p] \in Reserving
  BY ServeAlone DEF Alone, PastEnd, LifeInv, Role
<1>3. eid(p)' = eid(p)
  BY <1>2 DEF Alone, Scan, Allocate, Reserving
<1>4. ASSUME NEW v, v # "accepting", Judge(p, v)
      PROVE  ~PastEnd(p)'
  <2>1. pc'[p] = "judged" /\ job'[p].verdict = v
    BY <1>1, <1>4 DEF Judge, GotoWith, TypeInv, ProcOK, Job
  <2> QED
    BY <1>4, <2>1 DEF PastEnd, Accepting
<1>5. CASE Auth(p) \/ EventDir(p)
  <2>1. pc'[p] \in {"idle", "done", "eventDir", "start"}
    BY <1>1, <1>2, <1>5 DEF Auth, EventDir, Goto, Answer
  <2> QED
    BY <2>1 DEF PastEnd, Accepting
<1>6. CASE StatusStart(p) \/ StatusPast(p)
  <2>1. CASE \E l \in {"past", "ended"} : Goto(p, l)
    <3>1. pc'[p] \in {"past", "ended"}
      BY <1>1, <2>1 DEF Goto
    <3> QED
      BY <3>1 DEF PastEnd, Accepting
  <2> QED
    BY <1>4, <1>6, <2>1 DEF StatusStart, StatusPast
<1>7. CASE StatusEnded(p)
  <2>1. CASE end[eid(p)]
    BY <1>4, <1>7, <2>1 DEF StatusEnded
  <2>2. CASE ~end[eid(p)]
    BY <1>3, <1>7, <2>2 DEF StatusEnded, eventFiles
  <2> QED
    BY <2>1, <2>2
<1>8. CASE StatusCount(p) \/ Reserve(p)
  <2>1. PastEnd(p) /\ ~StatusPast(p) /\ ~CloseWrite(p)
    BY <1>2, <1>8 DEF PastEnd, StatusPast, CloseWrite, StatusCount, Reserve, Reread, UserFileOpen,
           FileForUser, FileForEvent, ResOpen, ResWrite
  <2> QED
    BY <1>3, <2>1, EndKept
<1>9. CASE Judged(p)
  <2>1. CASE job[p].verdict = "accepting"
    <3>1. PastEnd(p) /\ end' = end
      BY <1>2, <1>9, <2>1 DEF PastEnd, Accepting, Judged, eventFiles
    <3> QED
      BY <1>3, <3>1
  <2>2. CASE job[p].verdict # "accepting"
    <3>1. pc'[p] \in {"idle", "done"}
      BY <1>1, <1>2, <1>9, <2>2 DEF Judged, Answer
    <3> QED
      BY <3>1 DEF PastEnd, Accepting
  <2> QED
    BY <2>1, <2>2
<1> QED
  BY <1>2, <1>5, <1>6, <1>7, <1>8, <1>9 DEF Reserving, Serve, Status, Listing, Scan,
         Close, CloseOwner, CloseStart, CloseCount, ClosePast, CloseEnded, CloseWrite,
         Create, Allocate, CountUp, Mkdir, Register, StartOpen, StartWrite, InitOpen,
         InitWrite, DescOpen, DescLock, Upload, Newline, DropCreated, DropStart, DropRes,
         Show, ShowStart, ShowCount, ShowSize, ShowOpen, ShowStream, Send, Mine, Reserved, ReadReservation

LEMMA NextKeepsOpen ==
    ASSUME TypeInv, LifeInv, CountInv, QuietParent, OpenInv, OneAtATime, [Next]_vars
    PROVE  OpenInv'
<1>1. CASE Rests
  BY <1>1 DEF Rests, eventFiles, OpenInv, Accepting
<1>2. ASSUME NEW p \in Proc, Arrives(p)
      PROVE  OpenInv'
  BY <1>2 DEF Arrives, eventFiles, OpenInv, Accepting
<1>3. ASSUME NEW p \in Proc, Serve(p), NEW q \in Proc, PastEnd(q)'
      PROVE  ~end'[eid(q)']
  <2>1. CASE q = p
    BY <1>3, <2>1, ChecksOpen DEF OpenInv, PastEnd
  <2>2. CASE q # p
    <3>1. PastEnd(q) /\ eid(q)' = eid(q)
      BY <1>3, <2>2, ServeAlone DEF Alone, PastEnd, Accepting
    <3>2. q \in Active
      BY <3>1 DEF PastEnd, Accepting, Active, LifeInv, Role
    <3>3. ~StatusPast(p) /\ ~CloseWrite(p)
      <4>1. ASSUME pc[p] \in {"past", "closeWrite"}
            PROVE  FALSE
        <5>1. p \in Active
          BY <4>1 DEF QuietParent, Active, Proc
        <5> QED
          BY <2>2, <3>2, <5>1 DEF CountInv, OneActive
      <4> QED
        BY <4>1 DEF StatusPast, CloseWrite
    <3> QED
      BY <1>3, <3>1, <3>3, EndKept DEF OpenInv, PastEnd
  <2> QED
    BY <2>1, <2>2
<1> QED
  BY <1>1, <1>2, <1>3, NextInTurn DEF OneAtATime, OpenInv, PastEnd

LEMMA InitOpenInv == Init => QuietParent /\ OpenInv
BY DEF Init, QuietParent, OpenInv, Accepting, NewJob, Proc

\* A step sells seats that are free of an event that is open, closes one, or
\* leaves the inventory alone.
LEMMA NextImplements ==
    ASSUME TypeInv, LifeInv, SeatInv, CountInv, OpenInv, OneAtATime, [Next]_vars
    PROVE  [Inventory!Next]_(Inventory!seatVars)
<1> USE DEF Inventory!seatVars
<1>1. CASE Rests \/ \E p \in Proc : Arrives(p)
  BY <1>1 DEF Rests, Arrives, eventFiles, seatFiles
<1>2. ASSUME NEW p \in Proc, FileForEvent(p), stored' # stored
      PROVE  Inventory!Next
  <2>1. Serve(p) /\ pc[p] = "eventFile" /\ eid(p) \in Event
    BY <1>2 DEF FileForEvent, Serve, Reserve, TypeInv, Located, Anywhere
  <2>2. op(p) = "reserve" /\ Others(p)
    BY <2>1, ServedAlone DEF CountInv, LifeInv, Role
  <2>3. \A q \in Proc : pc[q] # "resOpen"
    BY <2>1, <2>2 DEF Others, LifeInv, Role
  <2>4. res[eid(p)] = job[p].got /\ ~end[eid(p)]
    BY <2>1, <2>2 DEF CountInv, Booking, OpenInv
  <2>5. job[p].got \in Nat /\ people(p) \in Nat \ {0}
    BY DEF TypeInv, ProcOK, Job, Request
  <2>6. stored[eid(p)] = job[p].got
    BY <2>1, <2>3, <2>4, <2>5 DEF CountInv, Counted, NoFile, Emptied
  <2>7. job[p].got + people(p) <= Capacity[eid(p)]
    BY <2>1 DEF SeatInv, SureFits, Sure
  <2>8. stored' = [stored EXCEPT ![eid(p)] = @ + people(p)] /\ end' = end
    BY <1>2 DEF FileForEvent, eventFiles
  <2>9. people(p) \in 1..Capacity[eid(p)]
    BY <2>1, <2>5, <2>7, EventAssumption
  <2>10. Inventory!Sell(eid(p), people(p))
    BY <2>4, <2>6, <2>7, <2>8 DEF Inventory!Sell
  <2> QED
    BY <2>1, <2>9, <2>10 DEF Inventory!Next
<1>3. ASSUME NEW p \in Proc, Serve(p), ~FileForEvent(p)
      PROVE  UNCHANGED stored
  <2>1. CASE pc[p] \notin CreateStep \cup ReserveStep
    BY <1>3, <2>1, ReadersLeave DEF seatFiles
  <2>2. CASE pc[p] \in CreateStep
    BY <1>3, <2>2, CreateKeepsCount
  <2>3. CASE pc[p] \in ReserveStep
    BY <1>3, <2>3 DEF seatFiles, Serve, Auth, EventDir,
         Status, StatusStart, StatusPast, StatusEnded, StatusCount, Judged,
         Listing, Scan, Reserve, Reread, UserFileOpen, FileForUser, ResOpen, ResWrite,
         Close, CloseOwner, CloseStart, CloseCount, ClosePast, CloseEnded, CloseWrite,
         Create, Allocate, CountUp, Mkdir, Register, StartOpen, StartWrite, InitOpen,
         InitWrite, DescOpen, DescLock, Upload, Newline, DropCreated, DropStart, DropRes,
         Show, ShowStart, ShowCount, ShowSize, ShowOpen, ShowStream, Send, Mine, Reserved, ReadReservation
  <2> QED
    BY <2>1, <2>2, <2>3
<1>4. ASSUME NEW p \in Proc, StatusPast(p) \/ CloseWrite(p)
      PROVE  [Inventory!Next]_(Inventory!seatVars)
  <2>1. eid(p) \in Event /\ end \in [Event -> BOOLEAN]
    BY <1>4 DEF StatusPast, CloseWrite, TypeInv, StoreOK, Located, Anywhere
  <2>2. stored' = stored /\ (end' = end \/ end' = [end EXCEPT ![eid(p)] = TRUE])
    BY <1>4 DEF StatusPast, CloseWrite, seatFiles
  <2>3. CASE end[eid(p)]
    BY <2>1, <2>2, <2>3
  <2>4. CASE ~end[eid(p)] /\ end' # end
    <3>1. Inventory!CloseEvent(eid(p))
      BY <2>2, <2>4 DEF Inventory!CloseEvent
    <3> QED
      BY <2>1, <3>1 DEF Inventory!Next
  <2> QED
    BY <2>2, <2>3, <2>4
<1>5. ASSUME NEW p \in Proc, Serve(p)
      PROVE  [Inventory!Next]_(Inventory!seatVars)
  <2>1. CASE FileForEvent(p)
    <3>1. end' = end
      BY <2>1 DEF FileForEvent, eventFiles
    <3> QED
      BY <1>2, <2>1, <3>1
  <2>2. CASE ~FileForEvent(p) /\ ~StatusPast(p) /\ ~CloseWrite(p)
    BY <1>3, <1>5, <2>2, EndKept
  <2> QED
    BY <1>4, <2>1, <2>2
<1> QED
  BY <1>1, <1>5, NextInTurn DEF OneAtATime

\* One connection at a time, the event files implement the inventory of Seats:
\* seats are sold of open events only, never beyond the capacity, and a closed
\* event stays closed.
THEOREM FilesImplementSeats ==
    ASSUME OneAtATime, NoMyEvents
    PROVE  Spec => ImplementsSeats
<1>1. Init => Inventory!Init
  BY DEF Init, Inventory!Init
<1> QED
  BY <1>1, InitTyped, NextTyped, InitLife, NextKeepsLife, InitSeats, NextKeepsSeats, InitCount,
     NextKeepsCount, InitOpenInv, NextKeepsQuiet, NextKeepsOpen, NextImplements, PTL
     DEF Spec, ImplementsSeats, Inventory!Spec
=============================================================================
