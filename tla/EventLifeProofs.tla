--------------------------- MODULE EventLifeProofs ---------------------------
(***************************************************************************)
(* Proofs about the life of an event, from the create that is given its    *)
(* EID to the moment it is over, for any number of processes and requests. *)
(***************************************************************************)
EXTENDS EventStoreProofs

USE DEF eid, op, uid, people, Label, Step, StatusStep, ReserveStep, CloseStep, CreateStep, ShowStep,
        MineStep, Hung

-----------------------------------------------------------------------------
(***************************************************************************)
(* The invariant.                                                          *)
(***************************************************************************)
\* The steps of a create and of a reserve.
Creating == {"auth", "done", "hungStart", "hungRes"} \cup CreateStep
Reserving == {"auth", "eventDir", "done", "hungUser", "hungEvent", "hungRes"}
               \cup StatusStep \cup ReserveStep

\* Which requests are at which steps, and when they have an answer.
Role(p) ==
    /\ op(p) = "create" => p \in Child /\ pc[p] \in Creating
    /\ op(p) = "reserve" => p \in Child /\ pc[p] \in Reserving
    /\ pc[p] \in CreateStep \cup {"hungStart"} => op(p) = "create"
    /\ pc[p] \in ReserveStep => op(p) = "reserve"
    /\ op(p) = "create" /\ pc[p] \in {"auth", "allocate"} => eid(p) = NoEvent
    /\ pc[p] \notin {"idle", "done"} => reply[p] = "none"

\* A create that has been given its EID.
Given(p) == op(p) = "create" /\ eid(p) \in Event

\* EIDs are given once, in ascending order.
GivenOnce ==
    /\ \A p, q \in Proc : Given(p) /\ Given(q) /\ eid(p) = eid(q) => p = q
    /\ \A p \in Proc : Given(p) => eid(p) > Existing
    /\ counter # Emptied => counter >= Existing /\ \A p \in Proc : Given(p) => eid(p) <= counter
    /\ \A p \in Proc : pc[p] = "countUp" =>
          /\ counter = Emptied
          /\ \A q \in Proc \ {p} : pc[q] # "countUp" /\ (Given(q) => eid(q) < eid(p))

\* What a create has made by each of its steps, until it takes it back.
HasRes == {"initWrite", "descOpen", "descLock", "upload", "newline"}
HasStart == HasRes \cup {"initOpen"}
IsListed == HasStart \cup {"startOpen", "startWrite"}
HasDir == IsListed \cup {"register"}

Built(p) ==
    op(p) = "create" =>
        /\ pc[p] \in HasDir \/ reply[p] = "OK" => dir[eid(p)]
        /\ pc[p] \in IsListed \/ reply[p] = "OK" => eid(p) \in created[uid(p)]
        /\ pc[p] \in HasStart \/ reply[p] = "OK" => start[eid(p)] = "full" /\ owner[eid(p)] = uid(p)
        /\ pc[p] \in HasRes \/ reply[p] = "OK" => res[eid(p)] # NoFile
        /\ pc[p] = "newline" \/ reply[p] = "OK" => desc[eid(p)] = "full"
        /\ reply[p] = "OK" => eid(p) \in Event

\* And what it has not, before it begins or once it has failed.
NotStarted(p) ==
    op(p) = "create" /\ eid(p) \in Event =>
        (pc[p] \in {"countUp", "mkdir", "register", "startOpen", "dropRes"} \/ reply[p] = "ERROR"
            => start[eid(p)] = "none")

\* Nobody touches the events there were at first, or uses an EID not given.
Preserved ==
    \A e \in Event :
        /\ e <= Existing => /\ dir[e] /\ start[e] = "full" /\ desc[e] = "full" /\ res[e] # NoFile
                            /\ e \in created[owner[e]]
        /\ e > Existing /\ (\A p \in Proc : Given(p) => eid(p) # e) => start[e] = "none" /\ ~dir[e]

LifeInv == /\ \A p \in Proc : Role(p) /\ Built(p) /\ NotStarted(p)
           /\ GivenOnce
           /\ Preserved

\* A reservation that came too late does not get past the check that finds it
\* so: what made the event over then still does.
TurnedAway(p) ==
    op(p) = "reserve" /\ over[p] =>
        /\ Over(eid(p))
        /\ pc[p] = "past" => end[eid(p)] \/ Past(eid(p))
        /\ pc[p] = "ended" => end[eid(p)]
        /\ pc[p] = "judged" => job[p].verdict # "accepting"
        /\ pc[p] \notin {"count", "hungRes"} \cup ReserveStep
OnlyReserve(p) == reply[p] = "ACC" => op(p) = "reserve" /\ ~over[p]

OverInv == \A p \in Proc : TurnedAway(p) /\ OnlyReserve(p)

\* Once an event's RES is initialised somebody is about to write it whenever it
\* is empty.
Writing(e) == \E q \in Proc : pc[q] = "resWrite" /\ eid(q) = e /\ q \notin orphan
Readable(e) == res[e] >= 0 \/ (res[e] = Emptied /\ Writing(e))
Ready(p) == op(p) = "create" /\ (pc[p] \in {"descOpen", "descLock", "upload", "newline"} \/ reply[p] = "OK")

Awaited(e) == e <= Existing \/ \E p \in Proc : Ready(p) /\ eid(p) = e

\* A reservation writes to an unlinked RES only if the create has failed.
Lost(q) == /\ pc[q] = "resWrite"
           /\ \E c \in Proc : op(c) = "create" /\ eid(c) = eid(q) /\ reply[c] = "ERROR"

ReadableInv ==
    /\ \A e \in Event : Awaited(e) => Readable(e)
    /\ \A q \in orphan : Lost(q)
    /\ \A p \in Proc : pc[p] # "hungRes"

-----------------------------------------------------------------------------
(***************************************************************************)
(* What a step can change.                                                 *)
(***************************************************************************)
\* The EID a process works on changes only when a listing goes on to its next
\* event, and when a create is given one.
Proceeds(p) == \E l, j : /\ GotoWith(p, l, j)
                         /\ j.req = job[p].req
                         /\ j.eid = eid(p) \/ Scan(p) \/ Allocate(p)
Moves(p) == (\E l : Goto(p, l)) \/ Proceeds(p) \/ (\E r : Answer(p, r))

LEMMA ServeMoves ==
    ASSUME TypeInv, NEW p \in Proc, Serve(p)
    PROVE  Moves(p)
<1> USE DEF Moves
<1>1. job[p] \in Job
  BY DEF TypeInv, ProcOK
<1>2. ASSUME NEW l, NEW x, GotoWith(p, l, [job[p] EXCEPT !.verdict = x]) PROVE Proceeds(p)
  BY <1>1, <1>2 DEF Proceeds, Job
<1>3. ASSUME NEW l, NEW x, GotoWith(p, l, [job[p] EXCEPT !.got = x]) PROVE Proceeds(p)
  BY <1>1, <1>3 DEF Proceeds, Job
<1>4. CASE Auth(p) \/ EventDir(p)
  BY <1>4 DEF Auth, EventDir
<1>5. CASE Status(p)
  <2>1. CASE StatusStart(p) \/ StatusPast(p) \/ StatusEnded(p) \/ StatusCount(p)
    BY <1>2, <2>1 DEF StatusStart, StatusPast, StatusEnded, StatusCount, Judge
  <2>2. CASE Judged(p)
    <3>1. CASE op(p) = "reserve" /\ job[p].verdict = "accepting"
      <4>1. GotoWith(p, "reread", [job[p] EXCEPT !.at = clock])
        BY <2>2, <3>1 DEF Judged
      <4> QED
        BY <1>1, <4>1 DEF Proceeds, Job
    <3>2. CASE op(p) # "reserve"
      <4>1. GotoWith(p, "scan", [job[p] EXCEPT !.todo = @ \ {eid(p)}])
        BY <2>2, <3>2 DEF Judged
      <4> QED
        BY <1>1, <4>1 DEF Proceeds, Job
    <3>3. CASE op(p) = "reserve" /\ job[p].verdict # "accepting"
      BY <2>2, <3>3 DEF Judged
    <3> QED
      BY <3>1, <3>2, <3>3
  <2>3. CASE Listing(p)
    BY <1>1, <2>3 DEF Listing, Proceeds, Job
  <2>4. CASE Scan(p)
    BY <1>1, <2>4 DEF Scan, Proceeds, Job
  <2> QED
    BY <1>5, <2>1, <2>2, <2>3, <2>4 DEF Status
<1>6. CASE Reserve(p)
  BY <1>3, <1>6 DEF Reserve, Reread, UserFileOpen, FileForUser, FileForEvent, ResOpen, ResWrite
<1>7. CASE Close(p)
  <2>1. CASE CloseOwner(p)
    BY <2>1 DEF CloseOwner
  <2>2. CASE CloseCount(p)
    BY <2>2 DEF CloseCount
  <2>3. CASE ClosePast(p)
    BY <2>3 DEF ClosePast
  <2>4. CASE CloseStart(p) \/ CloseEnded(p) \/ CloseWrite(p)
    BY <2>4 DEF CloseStart, CloseEnded, CloseWrite
  <2> QED
    BY <1>7, <2>1, <2>2, <2>3, <2>4 DEF Close
<1>8. CASE Create(p)
  <2>1. CASE Allocate(p)
    BY <1>1, <2>1 DEF Allocate, Proceeds, Job
  <2>2. CASE ~Allocate(p)
    BY <1>8, <2>2 DEF Create, CountUp, Mkdir, Register, StartOpen, StartWrite, InitOpen,
                      InitWrite, DescOpen, DescLock, Upload, Newline, DropCreated, DropStart, DropRes
  <2> QED
    BY <2>1, <2>2
<1>9. CASE Show(p)
  <2>1. CASE ShowSize(p)
    BY <1>1, <2>1 DEF ShowSize, Proceeds, Job
  <2>2. CASE ~ShowSize(p)
    BY <1>3, <1>9, <2>2 DEF Show, ShowStart, ShowCount, ShowOpen, ShowStream, Send
  <2> QED
    BY <2>1, <2>2
<1>10. CASE Mine(p)
  <2>1. CASE Reserved(p)
    BY <1>1, <2>1 DEF Reserved, Proceeds, Job
  <2>2. ASSUME NEW t \in job[p].names, ReadReservation(p),
               GotoWith(p, "reading",
                   [job[p] EXCEPT !.names = @ \ {t},
                                  !.found = @ \cup {f \in userRes : f.uid = uid(p) /\ f.at = t}])
        PROVE  Moves(p)
    <3> DEFINE j == [job[p] EXCEPT !.names = @ \ {t},
                                   !.found = @ \cup {f \in userRes : f.uid = uid(p) /\ f.at = t}]
    <3>1. GotoWith(p, "reading", j) /\ j.req = job[p].req /\ j.eid = eid(p)
      BY <1>1, <2>2 DEF Job
    <3> HIDE DEF j
    <3> QED
      BY <3>1 DEF Proceeds
  <2>3. CASE ReadReservation(p)
    <3> HIDE DEF Moves
    <3>1. CASE Answer(p, "OK")
      BY <3>1 DEF Moves
    <3> QED
      BY <2>2, <2>3, <3>1 DEF ReadReservation
  <2> QED
    BY <1>10, <2>1, <2>3 DEF Mine
<1> QED
  BY <1>4, <1>5, <1>6, <1>7, <1>8, <1>9, <1>10 DEF Serve

LEMMA MovesAlone ==
    ASSUME ProcOK, NEW p \in Proc, Moves(p)
    PROVE  /\ \A q \in Proc \ {p} : pc'[q] = pc[q] /\ job'[q] = job[q] /\ reply'[q] = reply[q]
           /\ job'[p].req = job[p].req
           /\ eid(p)' = eid(p) \/ Scan(p) \/ Allocate(p)
           /\ over' = over
<1>1. CASE \E l : Goto(p, l)
  BY <1>1 DEF ProcOK, Goto, atArrival
<1>2. CASE Proceeds(p)
  BY <1>2 DEF ProcOK, Proceeds, GotoWith, atArrival
<1>3. CASE \E r : Answer(p, r)
  BY <1>3 DEF ProcOK, Answer, atArrival
<1> QED
  BY <1>1, <1>2, <1>3 DEF Moves

\* A step changes no process but its own, and keeps the request.
Alone(p) ==
    /\ \A q \in Proc \ {p} : pc'[q] = pc[q] /\ job'[q] = job[q] /\ reply'[q] = reply[q]
    /\ job'[p].req = job[p].req
    /\ eid(p)' = eid(p) \/ Scan(p) \/ Allocate(p)
    /\ over' = over /\ clock' = clock

LEMMA ServeAlone ==
    ASSUME TypeInv, NEW p \in Proc, Serve(p)
    PROVE  Alone(p)
<1>1. clock' = clock
  BY DEF Serve, Auth, EventDir, Status, StatusStart, StatusPast, StatusEnded, StatusCount, Judged,
         Listing, Scan, Reserve, Reread, UserFileOpen, FileForUser, FileForEvent, ResOpen, ResWrite,
         Close, CloseOwner, CloseStart, CloseCount, ClosePast, CloseEnded, CloseWrite,
         Create, Allocate, CountUp, Mkdir, Register, StartOpen, StartWrite, InitOpen,
         InitWrite, DescOpen, DescLock, Upload, Newline, DropCreated, DropStart, DropRes,
         Show, ShowStart, ShowCount, ShowSize, ShowOpen, ShowStream, Send, Mine, Reserved, ReadReservation
<1> QED
  BY <1>1, ServeMoves, MovesAlone DEF TypeInv, Alone

\* A process builds or removes the files of an event only if it creates it.
Leaves(e) ==
    /\ dir'[e] = dir[e] /\ start'[e] = start[e] /\ owner'[e] = owner[e] /\ desc'[e] = desc[e]
    /\ \A u \in User : e \in created'[u] <=> e \in created[u]
    /\ res[e] # NoFile => res'[e] # NoFile
    /\ end[e] => end'[e]

LEMMA ServeLeaves ==
    ASSUME TypeInv, NEW p \in Proc, Serve(p), NEW e \in Event, pc[p] \notin CreateStep \/ e # eid(p)
    PROVE  Leaves(e)
<1> USE DEF Goto, GotoWith, Answer, Leaves, eventFiles, seatFiles
<1>1. StoreOK
  BY DEF TypeInv
<1>2. CASE Auth(p) \/ EventDir(p)
  BY <1>2 DEF Auth, EventDir
<1>3. CASE Status(p)
  BY <1>1, <1>3 DEF Status, StatusStart, StatusPast, StatusEnded, StatusCount, Judged, Judge,
                    Listing, Scan, StoreOK
<1>4. CASE Reserve(p)
  <2>1. job[p].got + people(p) # NoFile
    BY DEF TypeInv, ProcOK, Job, Request, NoFile
  <2> QED
    BY <1>1, <1>4, <2>1 DEF Reserve, Reread, UserFileOpen, FileForUser, FileForEvent, ResOpen, ResWrite,
                      StoreOK, NoFile, Emptied
<1>5. CASE Close(p)
  BY <1>1, <1>5 DEF Close, CloseOwner, CloseStart, CloseCount, ClosePast, CloseEnded, CloseWrite, StoreOK
<1>6. CASE Create(p)
  <2>1. e # eid(p)
    BY <1>6 DEF Create, Allocate, CountUp, Mkdir, Register, StartOpen, StartWrite, InitOpen,
                InitWrite, DescOpen, DescLock, Upload, Newline, DropCreated, DropStart, DropRes
  <2> QED
    BY <1>1, <1>6, <2>1 DEF Create, Allocate, CountUp, Mkdir, Register, StartOpen, StartWrite, InitOpen,
                    InitWrite, DescOpen, DescLock, Upload, Newline, DropCreated, DropStart, DropRes, StoreOK
<1>7. CASE Show(p)
  BY <1>7 DEF Show, ShowStart, ShowCount, ShowSize, ShowOpen, ShowStream, Send
<1>8. CASE Mine(p)
  BY <1>8 DEF Mine, Reserved, ReadReservation
<1> QED
  BY <1>2, <1>3, <1>4, <1>5, <1>6, <1>7, <1>8 DEF Serve

-----------------------------------------------------------------------------
(***************************************************************************)
(* Roles.                                                                  *)
(***************************************************************************)
\* The step p goes to suits its request.
Suits(p) ==
    /\ op(p) = "create" => pc'[p] \in Creating \ {"auth"} /\ (pc'[p] = "allocate" => pc[p] = "auth")
    /\ op(p) = "reserve" => pc'[p] \in Reserving
    /\ pc'[p] \in CreateStep \cup {"hungStart"} => op(p) = "create"
    /\ pc'[p] \in ReserveStep => op(p) = "reserve"

LEMMA ServeSuits ==
    ASSUME TypeInv, NEW p \in Proc, Role(p), Serve(p)
    PROVE  (\E r : Answer(p, r)) \/ (Suits(p) /\ reply' = reply)
<1> USE DEF Suits, Creating, Reserving, Role, Goto, GotoWith
<1>1. pc \in [Proc -> Label]
  BY DEF TypeInv, ProcOK
<1>2. CASE Auth(p) \/ EventDir(p)
  BY <1>1, <1>2 DEF Auth, EventDir
<1>3. CASE Status(p)
  <2>1. CASE Judged(p)
    BY <1>1, <2>1 DEF Judged
  <2>2. CASE Scan(p) \/ Listing(p)
    BY <1>1, <2>2 DEF Scan, Listing
  <2> QED
    BY <1>1, <1>3, <2>1, <2>2 DEF Status, StatusStart, StatusPast, StatusEnded, StatusCount, Judge
<1>4. CASE Reserve(p)
  <2>1. CASE Reread(p)
    BY <1>1, <2>1 DEF Reread
  <2> QED
    BY <1>1, <1>4, <2>1 DEF Reserve, UserFileOpen, FileForUser, FileForEvent, ResOpen, ResWrite
<1>5. CASE Close(p)
  <2>1. CASE CloseOwner(p)
    BY <1>1, <2>1 DEF CloseOwner
  <2>2. CASE CloseCount(p)
    BY <1>1, <2>2 DEF CloseCount
  <2>3. CASE ClosePast(p)
    BY <1>1, <2>3 DEF ClosePast
  <2>4. CASE CloseStart(p) \/ CloseEnded(p) \/ CloseWrite(p)
    BY <1>1, <2>4 DEF CloseStart, CloseEnded, CloseWrite
  <2> QED
    BY <1>5, <2>1, <2>2, <2>3, <2>4 DEF Close
<1>6. CASE Create(p)
  BY <1>1, <1>6 DEF Create, Allocate, CountUp, Mkdir, Register, StartOpen, StartWrite, InitOpen,
                    InitWrite, DescOpen, DescLock, Upload, Newline, DropCreated, DropStart, DropRes
<1>7. CASE Show(p)
  BY <1>1, <1>7 DEF Show, ShowStart, ShowCount, ShowSize, ShowOpen, ShowStream, Send
<1>8. CASE Mine(p)
  BY <1>1, <1>8 DEF Mine, Reserved, ReadReservation
<1> QED
  BY <1>2, <1>3, <1>4, <1>5, <1>6, <1>7, <1>8 DEF Serve

LEMMA ServeKeepsRole ==
    ASSUME TypeInv, NEW p \in Proc, Role(p), Serve(p)
    PROVE  Role(p)'
<1>1. job'[p].req = job[p].req /\ (eid(p)' = eid(p) \/ Scan(p) \/ Allocate(p))
  BY ServeAlone DEF Alone
<1>2. ASSUME NEW r, Answer(p, r)
      PROVE  Role(p)'
  <2>1. pc'[p] = IF p = Parent THEN "idle" ELSE "done"
    BY <1>2 DEF TypeInv, ProcOK, Answer
  <2> QED
    BY <1>1, <2>1, ProcAssumption DEF Role, Creating, Reserving
<1>3. CASE Suits(p) /\ reply' = reply
  <2>1. pc[p] \notin {"idle", "done"}
    BY DEF Serve, Auth, EventDir, Status, StatusStart, StatusPast, StatusEnded, StatusCount, Judged,
           Listing, Scan, Reserve, Reread, UserFileOpen, FileForUser, FileForEvent, ResOpen, ResWrite,
           Close, CloseOwner, CloseStart, CloseCount, ClosePast, CloseEnded, CloseWrite,
           Create, Allocate, CountUp, Mkdir, Register, StartOpen, StartWrite, InitOpen,
           InitWrite, DescOpen, DescLock, Upload, Newline, DropCreated, DropStart, DropRes,
           Show, ShowStart, ShowCount, ShowSize, ShowOpen, ShowStream, Send, Mine, Reserved, ReadReservation
  <2>2. pc[p] = "auth" => ~Scan(p) /\ ~Allocate(p)
    BY DEF Scan, Allocate
  <2> QED
    BY <1>1, <1>3, <2>1, <2>2 DEF Suits, Role
<1> QED
  BY <1>2, <1>3, ServeSuits

-----------------------------------------------------------------------------
(***************************************************************************)
(* The steps that serve no request.                                        *)
(***************************************************************************)
\* A request arrives at p, which was idle.
Arrives(p) ==
    /\ UNCHANGED <<clock, eventFiles, seatFiles>>
    /\ \A q \in Proc \ {p} : pc'[q] = pc[q] /\ job'[q] = job[q] /\ reply'[q] = reply[q] /\ over'[q] = over[q]
    /\ op(p) \notin {"create", "reserve"}
    /\ pc'[p] \in {"auth", "showStart", "listing"} /\ reply'[p] = "none"
    /\ op(p)' = "create" => eid(p)' = NoEvent
    /\ op(p)' = "reserve" => over'[p] = Over(eid(p)')
    /\ Role(p)'

\* Time passes, or processes stop where they are.
Pauses ==
    /\ clock' \in Nat /\ clock' >= clock
    /\ UNCHANGED <<eventFiles, res, userRes, eventRes, stored, job, reply, over>>
    /\ \A p \in Proc : pc'[p] = pc[p] \/ pc'[p] = IF p = Parent THEN "idle" ELSE "done"

LEMMA ReceiveArrives ==
    ASSUME TypeInv, NEW p \in Proc, Role(p), pc[p] = "idle", NEW r \in Requests, Receive(p, r),
           r.op \in {"create", "reserve"} => p \in Child
    PROVE  Arrives(p)
<1>1. job'[p] = [NewJob(r) EXCEPT !.at = clock]
  BY DEF TypeInv, ProcOK, Receive
<1>2. op(p)' = r.op /\ eid(p)' = r.eid
  BY <1>1 DEF NewJob
<1>3. pc'[p] = FirstStep(r.op) /\ reply'[p] = "none" /\ over'[p] = Over(r.eid)
  BY DEF TypeInv, ProcOK, Receive
<1>4. r.op = "create" => r.eid = NoEvent
  BY EidAssumption
<1>5. \A q \in Proc \ {p} : pc'[q] = pc[q] /\ job'[q] = job[q] /\ reply'[q] = reply[q] /\ over'[q] = over[q]
  BY DEF TypeInv, ProcOK, Receive
<1>6. op(p) \notin {"create", "reserve"}
  BY DEF Role, Creating, Reserving
<1>7. pc'[p] \in {"auth", "showStart", "listing"}
      /\ (r.op \in {"create", "reserve"} => pc'[p] = "auth")
  BY <1>3 DEF FirstStep
<1>8. Role(p)'
  BY <1>2, <1>3, <1>4, <1>7 DEF Role, Creating, Reserving
<1> QED
  BY <1>2, <1>3, <1>4, <1>5, <1>6, <1>7, <1>8 DEF Arrives, Receive

LEMMA NextIs ==
    ASSUME TypeInv, \A p \in Proc : Role(p), [Next]_vars
    PROVE  Pauses \/ (\E p \in Proc : Arrives(p)) \/ (\E p \in Proc : Serve(p))
<1>1. clock \in Nat /\ pc \in [Proc -> Label]
  BY DEF TypeInv, StoreOK, ProcOK
<1>2. CASE Tick \/ UNCHANGED vars
  BY <1>1, <1>2 DEF Tick, vars, Pauses, eventFiles, seatFiles, atArrival
<1>3. CASE Crash
  BY <1>1, <1>3 DEF Crash, Pauses, eventFiles, atArrival
<1>4. CASE Datagram
  BY <1>4, ReceiveArrives DEF Datagram, Query, Proc
<1>5. ASSUME NEW c \in Child, Accept(c)
      PROVE  \E p \in Proc : Arrives(p)
  BY <1>5, ReceiveArrives DEF Accept, Proc
<1> QED
  BY <1>2, <1>3, <1>4, <1>5 DEF Next

LEMMA NextKeepsRole ==
    ASSUME TypeInv, \A p \in Proc : Role(p), [Next]_vars
    PROVE  \A p \in Proc : Role(p)'
<1>1. CASE Pauses
  BY <1>1, ProcAssumption DEF Pauses, Role, Creating, Reserving
<1>2. ASSUME NEW p \in Proc, Arrives(p)
      PROVE  \A q \in Proc : Role(q)'
  BY <1>2 DEF Arrives, Role
<1>3. ASSUME NEW p \in Proc, Serve(p)
      PROVE  \A q \in Proc : Role(q)'
  <2>1. \A q \in Proc \ {p} : pc'[q] = pc[q] /\ job'[q] = job[q] /\ reply'[q] = reply[q]
    BY <1>3, ServeAlone DEF Alone
  <2> QED
    BY <1>3, <2>1, ServeKeepsRole DEF Role
<1> QED
  BY <1>1, <1>2, <1>3, NextIs

-----------------------------------------------------------------------------
(***************************************************************************)
(* EIDs are given once.                                                    *)
(***************************************************************************)
SameGiven == \A p \in Proc : /\ Given(p)' <=> Given(p)
                             /\ Given(p) => eid(p)' = eid(p)

LEMMA ServeKeepsGiven ==
    ASSUME TypeInv, NEW p \in Proc, Role(p), Serve(p), ~Allocate(p)
    PROVE  SameGiven
<1>1. Alone(p)
  BY ServeAlone
<1>2. CASE Scan(p)
  <2>1. op(p) # "create"
    BY <1>2 DEF Scan, Role, Creating
  <2> QED
    BY <1>1, <2>1 DEF Alone, SameGiven, Given
<1>3. CASE ~Scan(p)
  BY <1>1, <1>3 DEF Alone, SameGiven, Given
<1> QED
  BY <1>2, <1>3

LEMMA SameGivenKeeps ==
    ASSUME GivenOnce, SameGiven, counter' = counter, \A p \in Proc : pc'[p] = "countUp" => pc[p] = "countUp",
           \A p \in Proc : pc[p] = "countUp" => Given(p)
    PROVE  GivenOnce'
BY DEF GivenOnce, SameGiven

LEMMA AllocateKeepsGiven ==
    ASSUME TypeInv, NEW p \in Proc, Role(p), GivenOnce, Serve(p), Allocate(p),
           \A q \in Proc : pc[q] = "countUp" => Given(q)
    PROVE  GivenOnce'
<1>1. Alone(p) /\ pc \in [Proc -> Label] /\ counter \in 0..MaxEvents \cup {Emptied}
  BY ServeAlone DEF TypeInv, ProcOK, StoreOK
<1>2. op(p) = "create" /\ eid(p) = NoEvent
  BY DEF Role, Allocate, CreateStep
<1>3. CASE \E r : Answer(p, r) /\ counter' = counter
  <2>1. SameGiven /\ pc'[p] # "countUp"
    BY <1>1, <1>3 DEF Alone, SameGiven, Given, Answer
  <2> QED
    BY <1>1, <1>3, <2>1, SameGivenKeeps DEF Alone
<1>4. CASE counter \notin {Emptied, MaxEvents} /\ counter' = Emptied
           /\ GotoWith(p, "countUp", [job[p] EXCEPT !.eid = counter + 1])
  <2>1. eid(p)' = counter + 1 /\ pc'[p] = "countUp" /\ op(p)' = "create"
    BY <1>1, <1>2, <1>4 DEF TypeInv, ProcOK, GotoWith, Job, Alone
  <2>2. counter \in Nat /\ counter + 1 \in Event /\ MaxEvents \in Nat /\ Existing \in 0..MaxEvents
    BY <1>1, <1>4, EventAssumption DEF Event, Emptied
  <2>3. \A q \in Proc \ {p} : /\ Given(q)' <=> Given(q)
                              /\ Given(q) => eid(q)' = eid(q) /\ eid(q) <= counter /\ eid(q) \in Nat
    BY <1>1, <1>4, <2>2 DEF Alone, Given, GivenOnce, Event
  <2>4. \A q \in Proc : pc'[q] = "countUp" => q = p
    BY <1>1 DEF Alone, Allocate, CounterLocked
  <2>5. Given(p)' /\ ~Given(p)
    BY <1>2, <2>1, <2>2 DEF Given, NoEvent, Event
  <2>6. (\A q, r \in Proc : Given(q) /\ Given(r) /\ eid(q) = eid(r) => q = r)'
    BY <2>1, <2>2, <2>3, <2>5 DEF GivenOnce
  <2>7. (\A q \in Proc : Given(q) => eid(q) > Existing)'
    BY <1>4, <2>1, <2>2, <2>3 DEF GivenOnce
  <2>8. (\A q \in Proc : pc[q] = "countUp" =>
          /\ counter = Emptied
          /\ \A r \in Proc \ {q} : pc[r] # "countUp" /\ (Given(r) => eid(r) < eid(q)))'
    BY <1>4, <2>1, <2>2, <2>3, <2>4
  <2> QED
    BY <1>4, <2>6, <2>7, <2>8 DEF GivenOnce
<1> QED
  BY <1>3, <1>4 DEF Allocate

LEMMA CountUpKeepsGiven ==
    ASSUME TypeInv, NEW p \in Proc, Role(p), GivenOnce, Serve(p), CountUp(p),
           \A q \in Proc : pc[q] = "countUp" => Given(q)
    PROVE  GivenOnce'
<1>1. Alone(p) /\ pc \in [Proc -> Label]
  BY ServeAlone DEF TypeInv, ProcOK
<1>2. SameGiven /\ pc[p] = "countUp" /\ Given(p)
  BY ServeKeepsGiven DEF CountUp, Allocate
<1>3. CASE counter' = eid(p) /\ Goto(p, "mkdir")
  <2>1. \A q \in Proc : pc'[q] # "countUp"
    BY <1>1, <1>2, <1>3 DEF Alone, Goto, GivenOnce
  <2>2. eid(p) >= Existing /\ \A q \in Proc : Given(q) => eid(q) <= eid(p)
    BY <1>2, EventAssumption DEF GivenOnce, Given, Event
  <2> QED
    BY <1>2, <1>3, <2>1, <2>2 DEF GivenOnce, SameGiven
<1>4. CASE Answer(p, "ERROR") /\ counter' = counter
  <2>1. pc'[p] # "countUp"
    BY <1>1, <1>4 DEF Answer
  <2> QED
    BY <1>1, <1>2, <1>4, <2>1, SameGivenKeeps DEF Alone
<1> QED
  BY <1>3, <1>4 DEF CountUp

LEMMA NextKeepsGiven ==
    ASSUME TypeInv, \A p \in Proc : Role(p), GivenOnce, [Next]_vars
    PROVE  GivenOnce'
<1>1. \A p \in Proc : pc[p] = "countUp" => Given(p)
  BY DEF TypeInv, Located, Anywhere, Role, CreateStep, Given
<1>2. CASE Pauses
  <2>1. SameGiven /\ counter' = counter
    BY <1>2 DEF Pauses, SameGiven, Given, eventFiles
  <2> QED
    BY <1>1, <1>2, <2>1, SameGivenKeeps DEF Pauses
<1>3. ASSUME NEW p \in Proc, Arrives(p)
      PROVE  GivenOnce'
  <2>1. SameGiven /\ counter' = counter
    BY <1>3 DEF Arrives, SameGiven, Given, eventFiles, NoEvent, Event
  <2> QED
    BY <1>1, <1>3, <2>1, SameGivenKeeps DEF Arrives
<1>4. ASSUME NEW p \in Proc, Serve(p)
      PROVE  GivenOnce'
  <2>1. CASE Allocate(p)
    BY <1>1, <1>4, <2>1, AllocateKeepsGiven
  <2>2. CASE CountUp(p)
    BY <1>1, <1>4, <2>2, CountUpKeepsGiven
  <2>3. CASE Mkdir(p)
    <3>1. SameGiven /\ counter' = counter /\ pc'[p] # "countUp"
      BY <1>4, <2>3, ServeKeepsGiven DEF Mkdir, Allocate, Goto, TypeInv, ProcOK
    <3> QED
      BY <1>1, <1>4, <3>1, ServeAlone, SameGivenKeeps DEF Alone
  <2>4. CASE ~Allocate(p) /\ ~CountUp(p) /\ ~Mkdir(p)
    <3>1. SameGiven /\ TakesNone(p)
      BY <1>4, <2>4, ServeKeepsGiven, OthersTakeNone
    <3> QED
      BY <1>1, <3>1, SameGivenKeeps DEF TakesNone
  <2> QED
    BY <2>1, <2>2, <2>3, <2>4
<1> QED
  BY <1>2, <1>3, <1>4, NextIs

-----------------------------------------------------------------------------
(***************************************************************************)
(* What a create builds, and what the others leave alone.                  *)
(***************************************************************************)
LEMMA LeavesKeeps ==
    ASSUME TypeInv, NEW p \in Proc, Built(p), NotStarted(p),
           pc'[p] = pc[p] \/ pc'[p] \in {"idle", "done"}, job'[p] = job[p], reply'[p] = reply[p],
           op(p) = "create" /\ eid(p) \in Event => Leaves(eid(p))
    PROVE  Built(p)' /\ NotStarted(p)'
<1>1. uid(p) \in User
  BY DEF TypeInv, ProcOK, Job, Request
<1>2. pc[p] \in HasDir => eid(p) \in Event
  BY DEF TypeInv, Located, Anywhere, HasDir, IsListed, HasStart, HasRes
<1>3. Built(p)'
  BY <1>1, <1>2 DEF Built, Leaves, HasDir, IsListed, HasStart, HasRes
<1>4. NotStarted(p)'
  BY DEF NotStarted, Leaves
<1> QED
  BY <1>3, <1>4

\* A create's own event is not there before; what it has then is what it has
\* been through.
LEMMA CreateBuilds ==
    ASSUME TypeInv, NEW p \in Proc, op(p) = "create", Role(p), Built(p), NotStarted(p),
           GivenOnce, Preserved, Serve(p)
    PROVE  Built(p)' /\ NotStarted(p)'
<1> USE DEF HasDir, IsListed, HasStart, HasRes
<1>1. /\ pc \in [Proc -> Label] /\ reply \in [Proc -> Reply]
      /\ dir \in [Event -> BOOLEAN] /\ created \in [User -> SUBSET Event]
      /\ start \in [Event -> {"none", "empty", "full"}] /\ owner \in [Event -> User]
      /\ desc \in [Event -> Content]
      /\ res \in [Event -> Nat \cup {NoFile, Emptied}]
      /\ uid(p) \in User
  BY DEF TypeInv, ProcOK, StoreOK, Job, Request
<1>2. job'[p].req = job[p].req /\ (Allocate(p) \/ eid(p)' = eid(p))
  BY ServeAlone DEF Alone, Scan, Role, Creating
<1>3. reply[p] = "none" /\ pc[p] \in Creating
  BY DEF Role, Serve, Auth, EventDir, Status, StatusStart, StatusPast, StatusEnded, StatusCount, Judged,
         Listing, Scan, Reserve, Reread, UserFileOpen, FileForUser, FileForEvent, ResOpen, ResWrite,
         Close, CloseOwner, CloseStart, CloseCount, ClosePast, CloseEnded, CloseWrite,
         Create, Allocate, CountUp, Mkdir, Register, StartOpen, StartWrite, InitOpen,
         InitWrite, DescOpen, DescLock, Upload, Newline, DropCreated, DropStart, DropRes,
         Show, ShowStart, ShowCount, ShowSize, ShowOpen, ShowStream, Send, Mine, Reserved, ReadReservation
<1>4. Auth(p) \/ Create(p)
  BY <1>3 DEF Creating, Serve, EventDir, Status, StatusStart, StatusPast, StatusEnded, StatusCount, Judged,
         Listing, Scan, Reserve, Reread, UserFileOpen, FileForUser, FileForEvent, ResOpen, ResWrite,
         Close, CloseOwner, CloseStart, CloseCount, ClosePast, CloseEnded, CloseWrite,
         Show, ShowStart, ShowCount, ShowSize, ShowOpen, ShowStream, Send, Mine, Reserved, ReadReservation
<1>5. CASE Auth(p)
  BY <1>1, <1>2, <1>3, <1>5 DEF Role, Auth, Built, NotStarted, Goto, Answer, NoEvent, Event
<1>6. CASE Allocate(p)
  <2>1. eid(p) = NoEvent
    BY <1>6 DEF Role, Allocate
  <2>2. CASE \E r \in {"ERROR", "NOK", "refused"} : Answer(p, r)
    BY <1>1, <2>1, <2>2 DEF Built, NotStarted, Answer, NoEvent, Event
  <2>3. CASE /\ counter \notin {Emptied, MaxEvents} /\ counter' = Emptied
             /\ GotoWith(p, "countUp", [job[p] EXCEPT !.eid = counter + 1])
    <3>1. eid(p)' = counter + 1 /\ pc'[p] = "countUp" /\ reply'[p] = "none"
      BY <1>1, <1>3, <2>3 DEF TypeInv, ProcOK, GotoWith, Job
    <3>2. counter \in Nat /\ counter + 1 \in Event /\ counter + 1 > Existing
      BY <2>3, EventAssumption DEF TypeInv, StoreOK, GivenOnce, Event, Emptied
    <3>3. \A q \in Proc : Given(q) => eid(q) # counter + 1
      BY <2>3, <3>2 DEF GivenOnce, Given, Event
    <3>4. start[counter + 1] = "none" /\ start' = start
      BY <1>6, <3>2, <3>3 DEF Preserved, Allocate
    <3> QED
      BY <3>1, <3>4 DEF Built, NotStarted
  <2> QED
    BY <1>6, <2>2, <2>3 DEF Allocate
<1>7. CASE ~Auth(p) /\ ~Allocate(p)
  <2>1. eid(p) \in Event /\ eid(p)' = eid(p)
    BY <1>2, <1>4, <1>7 DEF TypeInv, Located, Anywhere, Create, CountUp, Mkdir, Register, StartOpen,
           StartWrite, InitOpen, InitWrite, DescOpen, DescLock, Upload, Newline, DropCreated, DropStart, DropRes
  <2> USE DEF Built, NotStarted, Goto, Answer
  <2>2. CASE CountUp(p) \/ Mkdir(p) \/ Register(p)
    BY <1>1, <1>2, <1>3, <2>1, <2>2, ProcAssumption DEF CountUp, Mkdir, Register, seatFiles
  <2>3. CASE StartOpen(p) \/ StartWrite(p)
    BY <1>1, <1>2, <1>3, <2>1, <2>3 DEF StartOpen, StartWrite, seatFiles
  <2>4. CASE InitOpen(p) \/ InitWrite(p)
    BY <1>1, <1>2, <1>3, <2>1, <2>4 DEF InitOpen, InitWrite, eventFiles, Emptied, NoFile
  <2>5. CASE DescOpen(p) \/ DescLock(p) \/ Upload(p) \/ Newline(p)
    BY <1>1, <1>2, <1>3, <2>1, <2>5
       DEF DescOpen, DescLock, Upload, Newline, Content, seatFiles, eventFiles
  <2>6. CASE DropCreated(p) \/ DropStart(p) \/ DropRes(p)
    BY <1>1, <1>2, <1>3, <2>1, <2>6 DEF DropCreated, DropStart, DropRes, seatFiles, eventFiles
  <2> QED
    BY <1>4, <1>7, <2>2, <2>3, <2>4, <2>5, <2>6 DEF Create
<1> QED
  BY <1>5, <1>6, <1>7

\* No step of p touches the files of an event p was not given.
LEMMA ServeOwnEvent ==
    ASSUME TypeInv, NEW p \in Proc, Role(p), Serve(p), NEW e \in Event, Given(p) => eid(p) # e
    PROVE  Leaves(e)
<1>1. pc[p] \in CreateStep => Given(p) \/ eid(p) = NoEvent
  BY DEF Role, Given, TypeInv, Located, Anywhere, CreateStep
<1>2. pc[p] \notin CreateStep \/ e # eid(p)
  BY <1>1 DEF NoEvent, Event
<1> QED
  BY <1>2, ServeLeaves

LEMMA NextKeepsBuilt ==
    ASSUME TypeInv, LifeInv, [Next]_vars
    PROVE  \A q \in Proc : Built(q)' /\ NotStarted(q)'
<1>1. CASE Pauses
  <2>1. \A e \in Event : Leaves(e)
    BY <1>1 DEF Pauses, Leaves, eventFiles
  <2> QED
    BY <1>1, <2>1, LeavesKeeps DEF Pauses, LifeInv
<1>2. ASSUME NEW p \in Proc, Arrives(p), NEW q \in Proc
      PROVE  Built(q)' /\ NotStarted(q)'
  <2>1. \A e \in Event : Leaves(e)
    BY <1>2 DEF Arrives, Leaves, eventFiles, seatFiles
  <2>2. CASE q = p
    BY <1>2, <2>2 DEF Arrives, Built, NotStarted, HasDir, IsListed, HasStart, HasRes, NoEvent, Event
  <2>3. CASE q # p
    BY <1>2, <2>1, <2>3, LeavesKeeps DEF Arrives, LifeInv
  <2> QED
    BY <2>2, <2>3
<1>3. ASSUME NEW p \in Proc, Serve(p), NEW q \in Proc
      PROVE  Built(q)' /\ NotStarted(q)'
  <2>1. CASE q = p /\ op(p) = "create"
    BY <1>3, <2>1, CreateBuilds DEF LifeInv
  <2>2. CASE q = p /\ op(p) # "create"
    BY <1>3, <2>2, ServeAlone DEF Alone, Built, NotStarted
  <2>3. CASE q # p
    <3>1. op(q) = "create" /\ eid(q) \in Event => Leaves(eid(q))
      BY <1>3, <2>3, ServeOwnEvent DEF LifeInv, GivenOnce, Given
    <3> QED
      BY <1>3, <2>3, <3>1, ServeAlone, LeavesKeeps DEF Alone, LifeInv
  <2> QED
    BY <2>1, <2>2, <2>3
<1> QED
  BY <1>1, <1>2, <1>3, NextIs DEF LifeInv

LEMMA NextPreserves ==
    ASSUME TypeInv, TypeInv', LifeInv, [Next]_vars
    PROVE  Preserved'
<1>1. ASSUME \A e \in Event : (\A p \in Proc : Given(p)' => eid(p)' # e) =>
                                 (\A p \in Proc : Given(p) => eid(p) # e) /\ Leaves(e),
             \A e \in Event : e <= Existing => Leaves(e)
      PROVE  Preserved'
  <2>1. \A e \in Event : owner[e] \in User
    BY DEF TypeInv, StoreOK
  <2> QED
    BY <1>1, <2>1 DEF LifeInv, Preserved, Leaves
<1>2. CASE Pauses
  <2>1. (\A e \in Event : Leaves(e)) /\ (\A p \in Proc : Given(p)' <=> Given(p))
        /\ (\A p \in Proc : eid(p)' = eid(p))
    BY <1>2 DEF Pauses, Leaves, eventFiles, Given
  <2> QED
    BY <1>1, <2>1
<1>3. ASSUME NEW p \in Proc, Arrives(p)
      PROVE  Preserved'
  <2>1. (\A e \in Event : Leaves(e)) /\ SameGiven
    BY <1>3 DEF Arrives, Leaves, eventFiles, seatFiles, SameGiven, Given, NoEvent, Event
  <2> QED
    BY <1>1, <2>1 DEF SameGiven
<1>4. ASSUME NEW p \in Proc, Serve(p)
      PROVE  Preserved'
  <2>1. \A q \in Proc : Given(q) => Given(q)' /\ eid(q)' = eid(q)
    <3>1. CASE Allocate(p)
      <4>1. ~Given(p)
        BY <3>1 DEF LifeInv, Role, Allocate, Given, NoEvent, Event
      <4> QED
        BY <1>4, <4>1, ServeAlone DEF Alone, Given
    <3>2. CASE ~Allocate(p)
      BY <1>4, <3>2, ServeKeepsGiven DEF SameGiven, LifeInv
    <3> QED
      BY <3>1, <3>2
  <2>2. \A e \in Event : (Given(p) => eid(p) # e) => Leaves(e)
    BY <1>4, ServeOwnEvent DEF LifeInv
  <2>3. Given(p) => eid(p) > Existing
    BY DEF LifeInv, GivenOnce
  <2>4. \A e \in Event : e <= Existing => Leaves(e)
    BY <2>2, <2>3, EventAssumption DEF Event, Given
  <2> QED
    BY <1>1, <2>1, <2>2, <2>4
<1> QED
  BY <1>2, <1>3, <1>4, NextIs DEF LifeInv

LEMMA InitLife == Init => LifeInv
<1> SUFFICES ASSUME Init PROVE LifeInv
  OBVIOUS
<1>1. \A p \in Proc : op(p) = "list" /\ pc[p] = "idle" /\ reply[p] = "none"
  BY DEF Init, NewJob
<1>2. GivenOnce
  BY <1>1, EventAssumption DEF Init, GivenOnce, Given
<1>3. \A e \in Event : e <= Existing => e \in 1..Existing
  BY EventAssumption DEF Event
<1>4. Preserved
  <2>1. ASSUME NEW e \in Event, e <= Existing
        PROVE  dir[e] /\ start[e] = "full" /\ desc[e] = "full" /\ res[e] = 0 /\ e \in created[owner[e]]
    BY <1>3, <2>1, UserAssumption DEF Init
  <2>2. ASSUME NEW e \in Event, e > Existing
        PROVE  start[e] = "none" /\ ~dir[e]
    <3>1. ~(e <= Existing)
      BY <2>2, EventAssumption DEF Event
    <3> QED
      BY <3>1 DEF Init
  <2> QED
    BY <2>1, <2>2 DEF Preserved, NoFile
<1> QED
  BY <1>1, <1>2, <1>4 DEF LifeInv, Role, Built, NotStarted, Creating, Reserving,
       HasDir, IsListed, HasStart, HasRes

LEMMA NextKeepsLife ==
    ASSUME TypeInv, TypeInv', LifeInv, [Next]_vars
    PROVE  LifeInv'
<1>1. \A p \in Proc : Role(p)
  BY DEF LifeInv
<1>2. GivenOnce
  BY DEF LifeInv
<1> QED
  BY <1>1, <1>2, NextKeepsRole, NextKeepsGiven, NextKeepsBuilt, NextPreserves DEF LifeInv

LEMMA LifeInvariant == Spec => [](TypeInv /\ LifeInv)
BY InitTyped, NextTyped, InitLife, NextKeepsLife, PTL DEF Spec

\* Whatever other requests do, and wherever writes fail or processes are
\* killed: once create has answered OK its event is complete, stays so, and no
\* other create has its EID.
THEOREM ConfirmedWhole == Spec => []ConfirmedIsWhole
<1>1. TypeInv /\ LifeInv => ConfirmedIsWhole
  <2> SUFFICES ASSUME TypeInv, LifeInv PROVE ConfirmedIsWhole
    OBVIOUS
  <2>1. ASSUME NEW e \in Event, Confirmed(e)
        PROVE  /\ dir[e] /\ start[e] = "full" /\ desc[e] = "full" /\ res[e] # NoFile
               /\ e \in created[owner[e]]
    BY <2>1 DEF Confirmed, LifeInv, Preserved, Built, Proc
  <2>2. ASSUME NEW c \in Child, NEW d \in Child, op(c) = "create" /\ reply[c] = "OK",
               op(d) = "create" /\ reply[d] = "OK", eid(c) = eid(d)
        PROVE  c = d
    BY <2>2 DEF LifeInv, GivenOnce, Given, Built, Proc
  <2> QED
    BY <2>1, <2>2 DEF ConfirmedIsWhole
<1> QED
  BY <1>1, LifeInvariant, PTL

-----------------------------------------------------------------------------
(***************************************************************************)
(* No reservation of an event that is over.                                *)
(***************************************************************************)
\* What made an event over still does after the step.
StaysOver == \A e \in Event : /\ end[e] => end'[e]
                              /\ Past(e) => clock' > StartTime[e]
                              /\ CreateFailed(e) => CreateFailed(e)'

LEMMA ServeKeepsEnd ==
    ASSUME TypeInv, NEW p \in Proc, Serve(p), NEW e \in Event, end[e]
    PROVE  end'[e]
<1> USE DEF Goto, GotoWith, Answer, eventFiles, seatFiles
<1>1. end \in [Event -> BOOLEAN]
  BY DEF TypeInv, StoreOK
<1>2. CASE Status(p)
  BY <1>1, <1>2 DEF Status, StatusStart, StatusPast, StatusEnded, StatusCount, Judged, Judge, Listing, Scan
<1>3. CASE Close(p)
  BY <1>1, <1>3 DEF Close, CloseOwner, CloseStart, CloseCount, ClosePast, CloseEnded, CloseWrite
<1>4. CASE Auth(p) \/ EventDir(p) \/ Reserve(p) \/ Create(p) \/ Show(p) \/ Mine(p)
  BY <1>4 DEF Auth, EventDir, Reserve, Reread, UserFileOpen, FileForUser, FileForEvent, ResOpen, ResWrite,
         Create, Allocate, CountUp, Mkdir, Register, StartOpen, StartWrite, InitOpen,
         InitWrite, DescOpen, DescLock, Upload, Newline, DropCreated, DropStart, DropRes,
         Show, ShowStart, ShowCount, ShowSize, ShowOpen, ShowStream, Send, Mine, Reserved, ReadReservation
<1> QED
  BY <1>2, <1>3, <1>4 DEF Serve

\* A request that is served is in progress, and only Database::reserve says ACC.
LEMMA ServeBusy ==
    ASSUME TypeInv, NEW p \in Proc, Serve(p)
    PROVE  /\ pc[p] \notin {"idle", "done"}
           /\ reply'[p] = "ACC" /\ reply[p] # "ACC" => pc[p] \in ReserveStep
<1> USE DEF Goto, GotoWith, Answer
<1>1. reply \in [Proc -> Reply]
  BY DEF TypeInv, ProcOK
<1>2. CASE Auth(p) \/ EventDir(p)
  BY <1>1, <1>2 DEF Auth, EventDir
<1>3. CASE Status(p)
  <2>1. CASE Judged(p)
    BY <1>1, <2>1 DEF Judged, Refusal
  <2>2. CASE Scan(p) \/ Listing(p)
    BY <1>1, <2>2 DEF Scan, Listing
  <2> QED
    BY <1>1, <1>3, <2>1, <2>2 DEF Status, StatusStart, StatusPast, StatusEnded, StatusCount, Judge
<1>4. CASE Reserve(p)
  BY <1>4 DEF Reserve, Reread, UserFileOpen, FileForUser, FileForEvent, ResOpen, ResWrite
<1>5. CASE Close(p)
  <2>1. CASE CloseOwner(p)
    BY <1>1, <2>1 DEF CloseOwner
  <2>2. CASE CloseCount(p)
    BY <1>1, <2>2 DEF CloseCount
  <2>3. CASE ClosePast(p)
    BY <1>1, <2>3 DEF ClosePast
  <2> QED
    BY <1>1, <1>5, <2>1, <2>2, <2>3 DEF Close, CloseStart, CloseEnded, CloseWrite
<1>6. CASE Create(p)
  BY <1>1, <1>6 DEF Create, Allocate, CountUp, Mkdir, Register, StartOpen, StartWrite, InitOpen,
         InitWrite, DescOpen, DescLock, Upload, Newline, DropCreated, DropStart, DropRes
<1>7. CASE Show(p)
  BY <1>1, <1>7 DEF Show, ShowStart, ShowCount, ShowSize, ShowOpen, ShowStream, Send
<1>8. CASE Mine(p)
  BY <1>1, <1>8 DEF Mine, Reserved, ReadReservation
<1> QED
  BY <1>2, <1>3, <1>4, <1>5, <1>6, <1>7, <1>8 DEF Serve

LEMMA NextStaysOver ==
    ASSUME TypeInv, LifeInv, [Next]_vars
    PROVE  StaysOver
<1>1. clock \in Nat /\ StartTime \in [Event -> Nat]
  BY EventAssumption DEF TypeInv, StoreOK
<1>2. CASE Pauses
  BY <1>1, <1>2 DEF Pauses, StaysOver, Past, CreateFailed, eventFiles
<1>3. ASSUME NEW p \in Proc, Arrives(p)
      PROVE  StaysOver
  BY <1>3 DEF Arrives, StaysOver, Past, CreateFailed, eventFiles, Proc
<1>4. ASSUME NEW p \in Proc, Serve(p)
      PROVE  StaysOver
  <2>1. Alone(p)
    BY <1>4, ServeAlone
  <2>2. op(p) = "create" => reply[p] # "ERROR"
    BY <1>4, ServeBusy DEF LifeInv, Role
  <2>3. \A e \in Event : CreateFailed(e) => CreateFailed(e)'
    BY <2>1, <2>2 DEF CreateFailed, Alone, Proc
  <2> QED
    BY <1>4, <2>1, <2>3, ServeKeepsEnd DEF StaysOver, Alone, Past
<1> QED
  BY <1>2, <1>3, <1>4, NextIs DEF LifeInv

\* get_event_status finds the event over, or its START file missing.
LEMMA ServeTurnsAway ==
    ASSUME TypeInv, LifeInv, StaysOver, NEW p \in Proc, op(p) = "reserve", over[p], TurnedAway(p), Serve(p)
    PROVE  TurnedAway(p)'
<1>1. pc \in [Proc -> Label] /\ end \in [Event -> BOOLEAN] /\ job[p] \in Job
  BY DEF TypeInv, ProcOK, StoreOK
<1>2. Role(p) /\ pc[p] \in Reserving /\ pc[p] \notin {"idle", "done"}
  BY ServeBusy DEF LifeInv, Role
<1>3. Alone(p) /\ eid(p)' = eid(p)
  BY <1>2, ServeAlone DEF Alone, Scan, Allocate, Reserving
<1>4. eid(p) \in Event /\ Over(eid(p)) /\ pc[p] \notin {"count", "hungRes"} \cup ReserveStep
  BY DEF TurnedAway, Over
<1>5. Over(eid(p))'
  BY <1>3, <1>4 DEF Over, StaysOver, Past
<1>6. ASSUME pc'[p] \notin {"past", "ended", "judged", "count", "hungRes"} \cup ReserveStep
      PROVE  TurnedAway(p)'
  BY <1>5, <1>6 DEF TurnedAway
<1>7. CASE Auth(p) \/ EventDir(p)
  BY <1>1, <1>6, <1>7 DEF Auth, EventDir, Goto, Answer
<1>8. CASE StatusStart(p)
  <2>1. CreateFailed(eid(p)) => start[eid(p)] = "none"
    BY <1>4 DEF CreateFailed, LifeInv, NotStarted, Proc
  <2>2. CASE start[eid(p)] = "full"
    <3>1. end[eid(p)] \/ Past(eid(p))
      BY <1>4, <2>1, <2>2 DEF Over
    <3>2. pc'[p] = "past"
      BY <1>1, <1>8, <2>2 DEF StatusStart, Goto
    <3> QED
      BY <1>3, <1>4, <1>5, <3>1, <3>2 DEF TurnedAway, StaysOver, Past
  <2>3. CASE start[eid(p)] # "full"
    <3>1. pc'[p] = "judged" /\ job'[p] = [job[p] EXCEPT !.verdict = "corrupted"]
      BY <1>1, <1>8, <2>3 DEF StatusStart, Judge, GotoWith, TypeInv, ProcOK
    <3>2. job'[p].verdict = "corrupted"
      BY <1>1, <3>1 DEF Job
    <3> QED
      BY <1>5, <3>1, <3>2 DEF TurnedAway
  <2> QED
    BY <2>2, <2>3
<1>9. CASE StatusPast(p)
  <2>1. CASE Past(eid(p))
    <3>1. pc'[p] = "judged" /\ job'[p] = [job[p] EXCEPT !.verdict = "past"]
      BY <1>1, <1>9, <2>1 DEF StatusPast, Judge, GotoWith, TypeInv, ProcOK
    <3>2. job'[p].verdict = "past"
      BY <1>1, <3>1 DEF Job
    <3> QED
      BY <1>5, <3>1, <3>2 DEF TurnedAway
  <2>2. CASE ~Past(eid(p))
    <3>1. end[eid(p)] /\ pc'[p] = "ended" /\ end' = end
      BY <1>1, <1>9, <2>2 DEF StatusPast, Goto, TurnedAway
    <3> QED
      BY <1>3, <1>5, <3>1 DEF TurnedAway
  <2> QED
    BY <2>1, <2>2
<1>10. CASE StatusEnded(p)
  <2>1. end[eid(p)]
    BY <1>10 DEF StatusEnded, TurnedAway
  <2>2. pc'[p] = "judged" /\ job'[p] = [job[p] EXCEPT !.verdict = "closed"]
    BY <1>1, <1>10, <2>1 DEF StatusEnded, Judge, GotoWith, TypeInv, ProcOK
  <2>3. job'[p].verdict = "closed"
    BY <1>1, <2>2 DEF Job
  <2> QED
    BY <1>5, <2>2, <2>3 DEF TurnedAway
<1>11. CASE Judged(p)
  <2>1. \E r : Answer(p, r)
    BY <1>11 DEF Judged, TurnedAway
  <2> QED
    BY <1>1, <1>6, <2>1 DEF Answer
<1> QED
  BY <1>2, <1>4, <1>7, <1>8, <1>9, <1>10, <1>11 DEF Reserving, Serve, Status, StatusCount, Listing, Scan,
       Reserve, Reread, UserFileOpen, FileForUser, FileForEvent, ResOpen, ResWrite,
       Close, CloseOwner, CloseStart, CloseCount, ClosePast, CloseEnded, CloseWrite,
       Create, Allocate, CountUp, Mkdir, Register, StartOpen, StartWrite, InitOpen,
       InitWrite, DescOpen, DescLock, Upload, Newline, DropCreated, DropStart, DropRes,
       Show, ShowStart, ShowCount, ShowSize, ShowOpen, ShowStream, Send, Mine, Reserved, ReadReservation

LEMMA NextKeepsOver ==
    ASSUME TypeInv, LifeInv, OverInv, [Next]_vars
    PROVE  OverInv'
<1>1. StaysOver
  BY NextStaysOver
<1>2. ASSUME NEW q \in Proc, pc'[q] = pc[q] \/ pc'[q] \in {"idle", "done"}, job'[q] = job[q],
             reply'[q] = reply[q], over'[q] = over[q]
      PROVE  TurnedAway(q)' /\ OnlyReserve(q)'
  <2>1. Over(eid(q)) => Over(eid(q))'
    BY <1>1, <1>2 DEF Over, StaysOver, Past
  <2>2. end[eid(q)] \/ Past(eid(q)) => (eid(q) \in Event => (end[eid(q)] \/ Past(eid(q)))')
    BY <1>1, <1>2 DEF StaysOver, Past
  <2>3. end[eid(q)] => (eid(q) \in Event => end[eid(q)]')
    BY <1>1, <1>2 DEF StaysOver
  <2>4. TurnedAway(q)'
    BY <1>2, <2>1, <2>2, <2>3 DEF OverInv, TurnedAway, Over
  <2> QED
    BY <1>2, <2>4 DEF OverInv, OnlyReserve
<1>3. CASE Pauses
  BY <1>2, <1>3 DEF Pauses, OverInv
<1>4. ASSUME NEW p \in Proc, Arrives(p)
      PROVE  OverInv'
  <2>1. OnlyReserve(p)'
    BY <1>4 DEF Arrives, OnlyReserve
  <2>2. TurnedAway(p)'
    <3>1. ASSUME op(p)' = "reserve", over'[p]
          PROVE  Over(eid(p))'
      BY <1>1, <1>4, <3>1 DEF Arrives, Over, StaysOver, Past
    <3> QED
      BY <1>4, <3>1 DEF Arrives, TurnedAway
  <2> QED
    BY <1>2, <1>4, <2>1, <2>2 DEF Arrives, OverInv
<1>5. ASSUME NEW p \in Proc, Serve(p)
      PROVE  OverInv'
  <2>1. Alone(p)
    BY <1>5, ServeAlone
  <2>2. TurnedAway(p)'
    BY <1>1, <1>5, <2>1, ServeTurnsAway DEF OverInv, Alone, TurnedAway
  <2>3. OnlyReserve(p)'
    <3>1. reply[p] # "ACC"
      BY <1>5, ServeBusy DEF LifeInv, Role
    <3>2. reply'[p] = "ACC" => pc[p] \in ReserveStep
      BY <1>5, <3>1, ServeBusy
    <3>3. pc[p] \in ReserveStep => op(p) = "reserve" /\ ~over[p]
      BY DEF LifeInv, Role, OverInv, TurnedAway
    <3> QED
      BY <2>1, <3>2, <3>3 DEF OnlyReserve, Alone
  <2> QED
    BY <1>2, <2>1, <2>2, <2>3 DEF Alone, OverInv
<1> QED
  BY <1>3, <1>4, <1>5, NextIs DEF LifeInv

LEMMA InitOver == Init => OverInv
BY DEF Init, NewJob, OverInv, TurnedAway, OnlyReserve

LEMMA OverInvariant == Spec => [](TypeInv /\ LifeInv /\ OverInv)
BY InitTyped, NextTyped, InitLife, NextKeepsLife, InitOver, NextKeepsOver, PTL DEF Spec

\* However its status checks interleave with others' steps, a reservation that
\* came after the event was closed, had passed or was withdrawn is not accepted.
THEOREM NoLateAccept == Spec => []NoAcceptWhenOver
<1>1. OverInv => NoAcceptWhenOver
  BY DEF OverInv, OnlyReserve, NoAcceptWhenOver, Proc
<1> QED
  BY <1>1, OverInvariant, PTL

-----------------------------------------------------------------------------
(***************************************************************************)
(* RES can be read when nothing is in progress, if no write fails and no   *)
(* process is killed.                                                      *)
(***************************************************************************)
\* A reservation whose RES was unlinked works on an event nobody waits for.
LEMMA LostUnawaited ==
    ASSUME LifeInv, ReadableInv, NEW q \in orphan, NEW e \in Event, eid(q) = e
    PROVE  ~Awaited(e)
<1>1. PICK c \in Proc : op(c) = "create" /\ eid(c) = e /\ reply[c] = "ERROR"
  BY DEF ReadableInv, Lost
<1>2. ~(e <= Existing)
  BY <1>1, EventAssumption DEF LifeInv, GivenOnce, Given, Event
<1>3. ASSUME NEW p \in Proc, Ready(p), eid(p) = e
      PROVE  FALSE
  <2>1. p = c
    BY <1>1, <1>3 DEF LifeInv, GivenOnce, Given, Ready
  <2> QED
    BY <1>1, <1>3, <2>1 DEF LifeInv, Role, Ready
<1> QED
  BY <1>2, <1>3 DEF Awaited

LEMMA LostStays ==
    ASSUME TypeInv, LifeInv, ReadableInv, NEW p \in Proc, Serve(p), NEW q \in orphan, pc'[q] = "resWrite"
    PROVE  Lost(q)'
<1>1. PICK c \in Proc : op(c) = "create" /\ eid(c) = eid(q) /\ reply[c] = "ERROR"
  BY DEF ReadableInv, Lost
<1>2. Alone(p) /\ c # p
  BY <1>1, ServeAlone, ServeBusy DEF LifeInv, Role
<1>3. eid(q)' = eid(q)
  BY <1>2 DEF Alone, Scan, Allocate, ReadableInv, Lost, TypeInv, StoreOK
<1> QED
  BY <1>1, <1>2, <1>3 DEF Lost, Alone

\* The steps that do not write, make or remove RES.
LEMMA OthersLeaveRes ==
    ASSUME TypeInv, NEW p \in Proc, Role(p), ~WritesMayFail, Serve(p),
           ~ResOpen(p), ~ResWrite(p), ~InitOpen(p), ~InitWrite(p), ~DropRes(p)
    PROVE  /\ res' = res /\ orphan' = orphan
           /\ pc[p] # "resWrite" /\ pc'[p] \notin {"resWrite", "hungRes"}
           /\ Ready(p)' => Ready(p)
<1> USE DEF Goto, GotoWith, Answer, eventFiles, seatFiles
<1>1. pc \in [Proc -> Label] /\ reply \in [Proc -> Reply]
  BY DEF TypeInv, ProcOK
<1>2. op(p)' = op(p)
  BY ServeAlone DEF Alone
<1>3. CASE Create(p)
  BY <1>1, <1>2, <1>3 DEF Create, Allocate, CountUp, Mkdir, Register, StartOpen, StartWrite,
         DescOpen, DescLock, Upload, Newline, DropCreated, DropStart, Ready
<1>4. CASE Auth(p)
  <2>1. reply[p] = "none"
    BY <1>4 DEF Auth, Role
  <2> QED
    BY <1>1, <1>2, <1>4, <2>1 DEF Auth, Ready
<1>5. CASE ~Create(p) /\ ~Auth(p)
  <2>1. CASE EventDir(p)
    BY <1>1, <1>2, <2>1 DEF EventDir, Ready, Role, Creating
  <2>2. CASE Judged(p)
    BY <1>1, <1>2, <2>2 DEF Judged, Ready, Role, Creating
  <2>3. CASE Scan(p) \/ Listing(p)
    BY <1>1, <1>2, <2>3 DEF Scan, Listing, Ready, Role, Creating
  <2>4. CASE Status(p) /\ ~Judged(p) /\ ~Scan(p) /\ ~Listing(p)
    BY <1>1, <1>2, <2>4 DEF Status, StatusStart, StatusPast, StatusEnded, StatusCount, Judge,
           Ready, Role, Creating
  <2>5. CASE Reread(p)
    BY <1>1, <1>2, <2>5 DEF Reread, Ready, Role, Creating
  <2>6. CASE Reserve(p) /\ ~Reread(p)
    BY <1>1, <1>2, <2>6 DEF Reserve, UserFileOpen, FileForUser, FileForEvent, Ready, Role, Creating
  <2>7. CASE CloseOwner(p) \/ CloseStart(p) \/ CloseEnded(p) \/ CloseWrite(p)
    BY <1>1, <1>2, <2>7 DEF CloseOwner, CloseStart, CloseEnded, CloseWrite, Ready, Role, Creating
  <2>8. CASE CloseCount(p)
    BY <1>1, <1>2, <2>8 DEF CloseCount, Ready, Role, Creating
  <2>9. CASE ClosePast(p)
    BY <1>1, <1>2, <2>9 DEF ClosePast, Ready, Role, Creating
  <2>10. CASE Show(p)
    BY <1>1, <1>2, <2>10 DEF Show, ShowStart, ShowCount, ShowSize, ShowOpen, ShowStream, Send,
                                 Ready, Role, Creating
  <2>11. CASE Mine(p)
    BY <1>1, <1>2, <2>11 DEF Mine, Reserved, ReadReservation, Ready, Role, Creating
  <2> QED
    BY <1>5, <2>1, <2>2, <2>3, <2>4, <2>5, <2>6, <2>7, <2>8, <2>9, <2>10, <2>11 DEF Serve, Close
<1> QED
  BY <1>3, <1>4, <1>5

LEMMA ServeKeepsReadable ==
    ASSUME TypeInv, LifeInv, ReadableInv, ~WritesMayFail, NEW p \in Proc, Serve(p)
    PROVE  ReadableInv'
<1>1. /\ pc \in [Proc -> Label] /\ reply \in [Proc -> Reply] /\ job[p].got + people(p) \in Nat
      /\ res \in [Event -> Nat \cup {NoFile, Emptied}] /\ orphan \subseteq Proc
  BY DEF TypeInv, ProcOK, StoreOK, Job, Request
<1>2. Alone(p) /\ Role(p)
  BY ServeAlone DEF LifeInv
<1>3. ASSUME eid(p)' = eid(p) \/ op(p) # "create", Ready(p)' => Ready(p), NEW e \in Event, Awaited(e)'
      PROVE  Awaited(e)
  BY <1>2, <1>3 DEF Awaited, Alone, Ready
<1>4. ASSUME NEW e \in Event, pc[p] # "resWrite" \/ eid(p) # e, orphan' \subseteq orphan,
             res'[e] = res[e], Readable(e)
      PROVE  Readable(e)'
  BY <1>1, <1>2, <1>4 DEF Readable, Writing, Alone
<1>5. CASE ResOpen(p)
  <2>1. /\ res' = [res EXCEPT ![eid(p)] = Emptied] /\ pc'[p] = "resWrite" /\ orphan' = orphan
        /\ pc[p] = "resOpen" /\ reply' = reply /\ eid(p)' = eid(p)
    BY <1>1, <1>5 DEF ResOpen, Goto, GotoWith
  <2>2. p \notin orphan
    BY <2>1 DEF ReadableInv, Lost
  <2>3. \A e \in Event : Awaited(e)' => Awaited(e)
    BY <1>2, <1>3, <2>1 DEF Ready, Alone
  <2>4. \A e \in Event : Readable(e) => Readable(e)'
    <3> SUFFICES ASSUME NEW e \in Event, Readable(e) PROVE Readable(e)'
      OBVIOUS
    <3>1. CASE e = eid(p)
      BY <1>1, <2>1, <2>2, <3>1 DEF Readable, Writing
    <3>2. CASE e # eid(p)
      BY <1>1, <1>4, <2>1, <3>2
    <3> QED
      BY <3>1, <3>2
  <2>5. \A q \in orphan' : Lost(q)'
    BY <1>2, <2>1, <2>2, LostStays DEF Alone, ReadableInv, Lost, StoreOK, TypeInv
  <2> QED
    BY <1>2, <2>1, <2>3, <2>4, <2>5 DEF ReadableInv, Alone
<1>6. CASE ResWrite(p)
  <2>1. /\ res' = IF p \in orphan THEN res ELSE [res EXCEPT ![eid(p)] = job[p].got + people(p)]
        /\ orphan' = orphan \ {p} /\ Answer(p, "ACC") /\ pc[p] = "resWrite"
    BY <1>6 DEF ResWrite
  <2>2. pc'[p] \in {"idle", "done"} /\ reply'[p] = "ACC"
    BY <1>1, <2>1 DEF Answer
  <2>3. eid(p)' = eid(p)
    BY <1>2, <2>1 DEF Alone, Scan, Allocate
  <2>4. \A e \in Event : Awaited(e)' => Awaited(e)
    BY <1>3, <2>2, <2>3 DEF Ready
  <2>5. \A e \in Event : Awaited(e) /\ Readable(e) => Readable(e)'
    <3> SUFFICES ASSUME NEW e \in Event, Awaited(e), Readable(e) PROVE Readable(e)'
      OBVIOUS
    <3>1. CASE e = eid(p)
      <4>1. p \notin orphan
        BY <3>1, LostUnawaited
      <4> QED
        BY <1>1, <2>1, <3>1, <4>1 DEF Readable
    <3>2. CASE e # eid(p)
      BY <1>1, <1>4, <2>1, <3>2
    <3> QED
      BY <3>1, <3>2
  <2>6. \A q \in orphan' : Lost(q)'
    BY <1>1, <1>2, <2>1, LostStays DEF Alone, ReadableInv, Lost
  <2> QED
    BY <1>2, <2>2, <2>4, <2>5, <2>6 DEF ReadableInv, Alone
<1>7. CASE InitOpen(p)
  <2>1. /\ res' = [res EXCEPT ![eid(p)] = Emptied] /\ pc'[p] = "initWrite" /\ orphan' = orphan
        /\ pc[p] = "initOpen" /\ reply' = reply /\ eid(p)' = eid(p)
    BY <1>1, <1>7 DEF InitOpen, Goto, GotoWith
  <2>2. op(p) = "create" /\ eid(p) \in Event /\ reply[p] = "none"
    BY <1>2, <2>1 DEF Role, CreateStep, TypeInv, Located, Anywhere
  <2>3. ~Ready(p)' /\ ~Ready(p)
    BY <2>1, <2>2 DEF Ready
  <2>4. ~Awaited(eid(p))
    BY <2>2, <2>3, EventAssumption DEF Awaited, LifeInv, GivenOnce, Given, Ready, Event
  <2>5. \A e \in Event : Awaited(e)' => Awaited(e)
    BY <1>3, <2>1, <2>3
  <2>6. \A e \in Event : Awaited(e) /\ Readable(e) => Readable(e)'
    BY <1>1, <1>4, <2>1, <2>4
  <2>7. \A q \in orphan' : Lost(q)'
    BY <1>1, <1>2, <2>1, LostStays DEF Alone, ReadableInv, Lost
  <2> QED
    BY <1>2, <2>1, <2>5, <2>6, <2>7 DEF ReadableInv, Alone
<1>8. CASE InitWrite(p)
  <2>1. /\ res' = [res EXCEPT ![eid(p)] = 0] /\ pc'[p] = "descOpen" /\ orphan' = orphan
        /\ pc[p] = "initWrite" /\ reply' = reply /\ eid(p)' = eid(p)
    BY <1>1, <1>8 DEF InitWrite, Goto, GotoWith
  <2>2. eid(p) \in Event
    BY <2>1 DEF TypeInv, Located, Anywhere
  <2>3. Readable(eid(p))'
    BY <1>1, <2>1, <2>2 DEF Readable
  <2>4. \A e \in Event : Awaited(e)' => Awaited(e) \/ e = eid(p)
    BY <1>2, <2>1 DEF Alone, Awaited, Ready
  <2>5. \A e \in Event : e # eid(p) /\ Readable(e) => Readable(e)'
    BY <1>1, <1>4, <2>1
  <2>6. \A e \in Event : Awaited(e)' => Readable(e)'
    <3> SUFFICES ASSUME NEW e \in Event, Awaited(e)' PROVE Readable(e)'
      OBVIOUS
    <3>1. CASE e = eid(p)
      BY <1>1, <2>1, <2>2, <3>1 DEF Readable
    <3>2. CASE e # eid(p)
      BY <2>4, <2>5, <3>2 DEF ReadableInv
    <3> QED
      BY <3>1, <3>2
  <2>7. \A q \in orphan' : Lost(q)'
    BY <1>1, <1>2, <2>1, LostStays DEF Alone, ReadableInv, Lost
  <2> QED
    BY <1>2, <2>1, <2>6, <2>7 DEF ReadableInv, Alone
<1>9. CASE DropRes(p)
  <2>1. /\ res' = [res EXCEPT ![eid(p)] = NoFile] /\ Answer(p, "ERROR") /\ pc[p] = "dropRes"
        /\ orphan' = orphan \cup {q \in Proc : pc[q] = "resWrite" /\ eid(q) = eid(p)}
    BY <1>9 DEF DropRes
  <2>2. pc'[p] \in {"idle", "done"} /\ reply'[p] = "ERROR"
    BY <1>1, <2>1 DEF Answer
  <2>3. op(p) = "create" /\ eid(p) \in Event /\ reply[p] = "none" /\ eid(p)' = eid(p)
    BY <1>2, <2>1 DEF Role, CreateStep, TypeInv, Located, Anywhere, Alone, Scan, Allocate
  <2>4. ~Ready(p)' /\ ~Ready(p)
    BY <2>1, <2>2, <2>3 DEF Ready
  <2>5. ~Awaited(eid(p))
    BY <2>3, <2>4, EventAssumption DEF Awaited, LifeInv, GivenOnce, Given, Ready, Event
  <2>6. \A e \in Event : Awaited(e)' => Awaited(e)
    BY <1>3, <2>3, <2>4
  <2>7. \A e \in Event : e # eid(p) /\ Readable(e) => Readable(e)'
    BY <1>1, <1>2, <2>1 DEF Readable, Writing, Alone
  <2>8. ASSUME NEW q \in orphan'
        PROVE  Lost(q)'
    <3>1. q \in Proc /\ pc[q] = "resWrite" /\ q # p
      BY <1>1, <2>1 DEF ReadableInv, Lost
    <3>2. pc'[q] = "resWrite" /\ eid(q)' = eid(q)
      BY <1>2, <3>1 DEF Alone
    <3>3. CASE q \in orphan
      BY <3>2, <3>3, LostStays
    <3>4. CASE eid(q) = eid(p)
      <4>1. op(p)' = "create"
        BY <1>2, <2>3 DEF Alone
      <4> QED
        BY <2>2, <2>3, <3>2, <3>4, <4>1 DEF Lost
    <3> QED
      BY <2>1, <3>3, <3>4
  <2> QED
    BY <1>2, <2>2, <2>5, <2>6, <2>7, <2>8 DEF ReadableInv, Alone
<1>10. CASE ~ResOpen(p) /\ ~ResWrite(p) /\ ~InitOpen(p) /\ ~InitWrite(p) /\ ~DropRes(p)
  <2>1. /\ res' = res /\ orphan' = orphan
        /\ pc[p] # "resWrite" /\ pc'[p] \notin {"resWrite", "hungRes"}
        /\ Ready(p)' => Ready(p)
    BY <1>2, <1>10, OthersLeaveRes
  <2>2. \A e \in Event : Awaited(e)' => Awaited(e)
    <3>1. Ready(p)' => eid(p)' = eid(p)
      BY <1>2, <2>1 DEF Alone, Role, Scan, Allocate, Ready, Creating
    <3> QED
      BY <1>2, <2>1, <3>1 DEF Awaited, Alone, Ready
  <2>3. \A e \in Event : Readable(e) => Readable(e)'
    BY <1>4, <2>1
  <2>4. \A q \in orphan' : Lost(q)'
    BY <1>1, <1>2, <2>1, LostStays DEF Alone, ReadableInv, Lost
  <2> QED
    BY <1>2, <2>1, <2>2, <2>3, <2>4 DEF ReadableInv, Alone
<1> QED
  BY <1>5, <1>6, <1>7, <1>8, <1>9, <1>10

LEMMA NextKeepsReadable ==
    ASSUME TypeInv, LifeInv, ReadableInv, ~WritesMayFail, ~MayCrash, [Next]_vars
    PROVE  ReadableInv'
<1>1. CASE Tick \/ UNCHANGED vars
  BY <1>1 DEF Tick, vars, eventFiles, seatFiles, ReadableInv, Awaited, Ready, Readable, Writing, Lost
<1>2. ASSUME NEW p \in Proc, Arrives(p), pc[p] = "idle"
      PROVE  ReadableInv'
  <2>1. res' = res /\ orphan' = orphan /\ p \notin orphan
    BY <1>2 DEF Arrives, seatFiles, ReadableInv, Lost
  <2>2. ~Ready(p)' /\ \A e \in Event : Awaited(e)' => Awaited(e)
    BY <1>2 DEF Arrives, Awaited, Ready
  <2>3. \A e \in Event : Readable(e) => Readable(e)'
    BY <1>2, <2>1 DEF Arrives, Readable, Writing
  <2>4. \A q \in orphan' : Lost(q)'
    <3>1. orphan \subseteq Proc
      BY DEF TypeInv, StoreOK
    <3> QED
      BY <1>2, <2>1, <3>1 DEF Arrives, Lost, ReadableInv
  <2> QED
    BY <1>2, <2>2, <2>3, <2>4 DEF Arrives, ReadableInv
<1>3. CASE Datagram
  BY <1>2, <1>3, ReceiveArrives DEF Datagram, Query, Proc, LifeInv
<1>4. ASSUME NEW c \in Child, Accept(c)
      PROVE  ReadableInv'
  BY <1>2, <1>4, ReceiveArrives DEF Accept, Proc, LifeInv
<1>5. ASSUME NEW p \in Proc, Serve(p)
      PROVE  ReadableInv'
  BY <1>5, ServeKeepsReadable
<1> QED
  BY <1>1, <1>3, <1>4, <1>5 DEF Next, Crash

LEMMA InitReadable == Init => ReadableInv
<1> SUFFICES ASSUME Init PROVE ReadableInv
  OBVIOUS
<1>1. \A p \in Proc : op(p) = "list" /\ pc[p] = "idle" /\ reply[p] = "none"
  BY DEF Init, NewJob
<1>2. \A e \in Event : e <= Existing => res[e] = 0
  BY DEF Init
<1> QED
  BY <1>1, <1>2 DEF Init, ReadableInv, Awaited, Readable, Ready

\* The window in which RES is empty never outlives the request that opened it:
\* with writes that succeed and no crash, every confirmed event can be read
\* whenever no request is in progress.
THEOREM ReadableAtRest ==
    ASSUME ~WritesMayFail, ~MayCrash
    PROVE  Spec => []RestReadable
<1>1. TypeInv /\ LifeInv /\ ReadableInv => RestReadable
  <2> SUFFICES ASSUME TypeInv, LifeInv, ReadableInv, AtRest, NEW e \in Event, Confirmed(e)
               PROVE  res[e] >= 0
    BY DEF RestReadable
  <2>1. Readable(e)
    BY DEF Confirmed, ReadableInv, Awaited, Ready, Proc
  <2> QED
    BY <2>1 DEF Readable, Writing, AtRest, Idle
<1> QED
  BY <1>1, InitTyped, NextTyped, InitLife, NextKeepsLife, InitReadable, NextKeepsReadable, PTL DEF Spec
=============================================================================
