-------------------------- MODULE EventStoreProofs --------------------------
(***************************************************************************)
(* Proofs about EventStore for any number of children, events, users and   *)
(* requests, any capacities and dates, with or without write errors and    *)
(* crashes.                                                                *)
(***************************************************************************)
EXTENDS EventStore, TLAPS

\* The steps at which a request need not know its event yet, or any more.
Anywhere == {"idle", "done", "auth", "eventDir", "listing", "scan", "sending", "allocate",
             "showStart", "reserved", "reading"}

\* Elsewhere a process works on an event there can be.
Located == \A p \in Proc : pc[p] \in Anywhere \/ eid(p) \in Event

TypeInv == StoreOK /\ ProcOK /\ Located
-----------------------------------------------------------------------------
(***************************************************************************)
(* What the ways of ending a step do to the process's own variables.       *)
(***************************************************************************)
USE DEF eid, op, uid, people

LEMMA GotoKeeps ==
    ASSUME ProcOK, Located, NEW p \in Proc, NEW l \in Label, Goto(p, l),
           l \in Anywhere \/ eid(p) \in Event
    PROVE  ProcOK' /\ Located'
BY DEF ProcOK, Located, Goto, atArrival

LEMMA GotoWithKeeps ==
    ASSUME ProcOK, Located, NEW p \in Proc, NEW l \in Label, NEW j \in Job, GotoWith(p, l, j),
           l \in Anywhere \/ j.eid \in Event
    PROVE  ProcOK' /\ Located'
BY DEF ProcOK, Located, GotoWith, atArrival

LEMMA AnswerKeeps ==
    ASSUME ProcOK, Located, NEW p \in Proc, NEW r \in Reply, Answer(p, r)
    PROVE  ProcOK' /\ Located'
BY DEF ProcOK, Located, Answer, atArrival, Label, Anywhere

LEMMA NewJobTyped ==
    ASSUME NEW r \in Request
    PROVE  NewJob(r) \in Job
BY DEF NewJob, Job, Request, Verdict, Content

LEMMA JobUpdates ==
    ASSUME NEW j \in Job
    PROVE  /\ \A x \in Verdict : [j EXCEPT !.verdict = x] \in Job /\ [j EXCEPT !.verdict = x].eid = j.eid
           /\ \A x \in Nat : [j EXCEPT !.got = x] \in Job /\ [j EXCEPT !.got = x].eid = j.eid
           /\ \A x \in Nat : [j EXCEPT !.at = x] \in Job /\ [j EXCEPT !.at = x].eid = j.eid
           /\ \A x \in SUBSET Event : [j EXCEPT !.todo = x] \in Job /\ [j EXCEPT !.todo = x].eid = j.eid
           /\ \A x \in Content : [j EXCEPT !.size = x] \in Job /\ [j EXCEPT !.size = x].eid = j.eid
           /\ \A x \in SUBSET Nat : [j EXCEPT !.names = x] \in Job
           /\ \A x \in SUBSET Nat, y \in SUBSET Filed : [j EXCEPT !.names = x, !.found = y] \in Job
           /\ \A x \in Event : [j EXCEPT !.eid = x] \in Job /\ [j EXCEPT !.eid = x].eid = x
BY DEF Job
-----------------------------------------------------------------------------
(***************************************************************************)
(* The type invariant.                                                     *)
(***************************************************************************)
USE DEF Label, Step, StatusStep, ReserveStep, CloseStep, CreateStep, ShowStep, MineStep, Hung

LEMMA StatusTyped ==
    ASSUME TypeInv, NEW p \in Proc, Status(p)
    PROVE  TypeInv'
<1> USE DEF TypeInv
<1>1. job[p] \in Job
  BY DEF ProcOK
<1>2. CASE StatusStart(p)
  <2>1. eid(p) \in Event
    BY <1>2 DEF StatusStart, Located, Anywhere
  <2>2. ProcOK' /\ Located'
    BY <1>1, <1>2, <2>1, GotoKeeps, GotoWithKeeps, JobUpdates DEF StatusStart, Judge, Verdict
  <2> QED
    BY <1>2, <2>2 DEF StatusStart, StoreOK, eventFiles, seatFiles
<1>3. CASE StatusPast(p)
  <2>1. eid(p) \in Event
    BY <1>3 DEF StatusPast, Located, Anywhere
  <2>2. ProcOK' /\ Located'
    BY <1>1, <1>3, <2>1, GotoKeeps, GotoWithKeeps, JobUpdates DEF StatusPast, Judge, Verdict
  <2> QED
    BY <1>3, <2>1, <2>2 DEF StatusPast, StoreOK, seatFiles
<1>4. CASE StatusEnded(p)
  <2>1. eid(p) \in Event
    BY <1>4 DEF StatusEnded, Located, Anywhere
  <2>2. ProcOK' /\ Located'
    BY <1>1, <1>4, <2>1, GotoKeeps, GotoWithKeeps, JobUpdates DEF StatusEnded, Judge, Verdict
  <2> QED
    BY <1>4, <2>2 DEF StatusEnded, StoreOK, eventFiles, seatFiles
<1>5. CASE StatusCount(p)
  <2>1. eid(p) \in Event
    BY <1>5 DEF StatusCount, Located, Anywhere
  <2>2. StatusOf(eid(p)) \in Verdict
    BY DEF StatusOf, Verdict
  <2>3. ProcOK' /\ Located'
    BY <1>1, <1>5, <2>1, <2>2, GotoWithKeeps, JobUpdates DEF StatusCount, Judge
  <2> QED
    BY <1>5, <2>3 DEF StatusCount, StoreOK, eventFiles, seatFiles
<1>6. CASE Judged(p)
  <2>1. eid(p) \in Event
    BY <1>6 DEF Judged, Located, Anywhere
  <2>2. job[p].todo \ {eid(p)} \in SUBSET Event /\ clock \in Nat
    BY <1>1 DEF Job, StoreOK
  <2>3. CASE op(p) # "reserve"
    <3>1. GotoWith(p, "scan", [job[p] EXCEPT !.todo = job[p].todo \ {eid(p)}])
      BY <1>6, <2>3 DEF Judged
    <3> QED
      BY <1>1, <1>6, <2>2, <3>1, GotoWithKeeps, JobUpdates
         DEF Judged, Anywhere, StoreOK, eventFiles, seatFiles
  <2>4. CASE op(p) = "reserve" /\ job[p].verdict = "accepting"
    <3>1. GotoWith(p, "reread", [job[p] EXCEPT !.at = clock])
      BY <1>6, <2>4 DEF Judged
    <3> QED
      BY <1>1, <1>6, <2>1, <2>2, <3>1, GotoWithKeeps, JobUpdates
         DEF Judged, StoreOK, eventFiles, seatFiles
  <2>5. CASE op(p) = "reserve" /\ job[p].verdict # "accepting"
    <3>1. Answer(p, Refusal(job[p].verdict))
      BY <1>6, <2>5 DEF Judged
    <3>2. Refusal(job[p].verdict) \in Reply
      BY <1>1, <1>6, <2>5 DEF Refusal, Reply, Job, Verdict
    <3> QED
      BY <1>6, <3>1, <3>2, AnswerKeeps DEF Judged, StoreOK, eventFiles, seatFiles
  <2> QED
    BY <2>3, <2>4, <2>5
<1>7. CASE Listing(p)
  <2> DEFINE found == IF op(p) = "list" THEN {e \in Event : dir[e]} ELSE created[uid(p)]
  <2>1. found \in SUBSET Event
    BY <1>1 DEF StoreOK, Job, Request
  <2>2. ProcOK' /\ Located'
    BY <1>1, <1>7, <2>1, GotoWithKeeps, JobUpdates DEF Listing, Anywhere
  <2> QED
    BY <1>7, <2>2 DEF Listing, StoreOK, eventFiles, seatFiles
<1>8. CASE Scan(p)
  <2>1. job[p].todo \in SUBSET Event
    BY <1>1 DEF Job
  <2>2. ProcOK' /\ Located'
    BY <1>1, <1>8, <2>1, GotoKeeps, GotoWithKeeps, AnswerKeeps, JobUpdates DEF Scan, Anywhere, Reply
  <2> QED
    BY <1>8, <2>2 DEF Scan, StoreOK, eventFiles, seatFiles
<1> QED
  BY <1>2, <1>3, <1>4, <1>5, <1>6, <1>7, <1>8 DEF Status

LEMMA ReserveTyped ==
    ASSUME TypeInv, NEW p \in Proc, Reserve(p)
    PROVE  TypeInv'
<1> USE DEF TypeInv
<1>1. job[p] \in Job /\ people(p) \in Nat \ {0} /\ uid(p) \in User /\ job[p].got \in Nat
  BY DEF ProcOK, Job, Request
<1>2. eid(p) \in Event
  BY DEF Located, Anywhere, Reserve, Reread, UserFileOpen, FileForUser, FileForEvent, ResOpen,
         ResWrite
<1>3. Filing(p) \in Filed
  BY <1>1, <1>2 DEF Filing, Filed, Job
<1>4. CASE Reread(p)
  <2>1. res[eid(p)] \in Nat \/ res[eid(p)] \in {NoFile, Emptied}
    BY <1>2 DEF StoreOK, NoFile, Emptied
  <2>2. ProcOK' /\ Located'
    BY <1>1, <1>2, <1>4, <2>1, AnswerKeeps, GotoWithKeeps, JobUpdates DEF Reread, Reply
  <2> QED
    BY <1>4, <2>2 DEF Reread, StoreOK, eventFiles, seatFiles
<1>4a. CASE UserFileOpen(p)
  <2>1. Blank(p) \in Filed
    BY <1>3 DEF Blank, Filed
  <2>2. ProcOK' /\ Located'
    BY <1>2, <1>4a, GotoKeeps DEF UserFileOpen
  <2> QED
    BY <1>4a, <2>1, <2>2 DEF UserFileOpen, WithoutUserFile, StoreOK, eventFiles
<1>5. CASE FileForUser(p)
  <2>1. ProcOK' /\ Located'
    BY <1>2, <1>5, GotoKeeps DEF FileForUser
  <2> QED
    BY <1>3, <1>5, <2>1 DEF FileForUser, WithoutUserFile, StoreOK, eventFiles
<1>6. CASE FileForEvent(p)
  <2>1. ProcOK' /\ Located'
    BY <1>2, <1>6, GotoKeeps DEF FileForEvent
  <2>2. stored' \in [Event -> Nat]
    BY <1>1, <1>6 DEF FileForEvent, StoreOK
  <2> QED
    BY <1>3, <1>6, <2>1, <2>2
       DEF FileForEvent, WithoutUserFile, WithoutEventFile, StoreOK, eventFiles
<1>7. CASE ResOpen(p)
  <2>1. ProcOK' /\ Located'
    BY <1>2, <1>7, GotoKeeps DEF ResOpen
  <2> QED
    BY <1>7, <2>1 DEF ResOpen, StoreOK, eventFiles, Emptied
<1>8. CASE ResWrite(p)
  <2>1. ProcOK' /\ Located'
    BY <1>2, <1>8, GotoKeeps, AnswerKeeps DEF ResWrite, Reply
  <2>2. res' \in [Event -> Nat \cup {NoFile, Emptied}]
    BY <1>1, <1>8 DEF ResWrite, StoreOK
  <2> QED
    BY <1>8, <2>1, <2>2 DEF ResWrite, StoreOK, eventFiles
<1> QED
  BY <1>4, <1>4a, <1>5, <1>6, <1>7, <1>8 DEF Reserve

LEMMA CloseTyped ==
    ASSUME TypeInv, NEW p \in Proc, Close(p)
    PROVE  TypeInv'
<1> USE DEF TypeInv
<1>1. eid(p) \in Event
  BY DEF Located, Anywhere, Close, CloseOwner, CloseStart, CloseCount, ClosePast, CloseEnded,
         CloseWrite
<1>2. ProcOK' /\ Located'
  <2>1. CASE CloseOwner(p)
    BY <1>1, <2>1, GotoKeeps, AnswerKeeps DEF CloseOwner, Reply
  <2>2. CASE CloseStart(p)
    BY <1>1, <2>2, GotoKeeps, AnswerKeeps DEF CloseStart, Reply
  <2>3. CASE CloseCount(p)
    BY <1>1, <2>3, GotoKeeps, AnswerKeeps DEF CloseCount, Reply
  <2>4. CASE ClosePast(p)
    BY <1>1, <2>4, GotoKeeps, AnswerKeeps DEF ClosePast, Reply
  <2>5. CASE CloseEnded(p)
    BY <1>1, <2>5, GotoKeeps, AnswerKeeps DEF CloseEnded, Reply
  <2>6. CASE CloseWrite(p)
    BY <1>1, <2>6, GotoKeeps, AnswerKeeps DEF CloseWrite, Reply
  <2> QED
    BY <2>1, <2>2, <2>3, <2>4, <2>5, <2>6 DEF Close
<1>3. StoreOK'
  BY DEF Close, CloseOwner, CloseStart, CloseCount, ClosePast, CloseEnded, CloseWrite,
         StoreOK, eventFiles, seatFiles
<1> QED
  BY <1>2, <1>3

LEMMA ShowTyped ==
    ASSUME TypeInv, NEW p \in Proc, Show(p)
    PROVE  TypeInv'
<1> USE DEF TypeInv
<1>1. job[p] \in Job
  BY DEF ProcOK
<1>2. pc[p] \in {"showStart", "sending"} \/ eid(p) \in Event
  BY DEF Located, Anywhere, Show, ShowStart, ShowCount, ShowSize, ShowOpen, ShowStream, Send
<1>3. eid(p) \in Event => /\ res[eid(p)] \in Nat \/ res[eid(p)] \in {NoFile, Emptied}
                          /\ desc[eid(p)] \in Content
  BY DEF StoreOK, Content, NoFile, Emptied
<1>4. ProcOK' /\ Located'
  <2>1. CASE ShowStart(p)
    BY <2>1, GotoKeeps, AnswerKeeps DEF ShowStart, Reply
  <2>2. CASE ShowCount(p)
    BY <1>1, <1>2, <1>3, <2>2, GotoWithKeeps, AnswerKeeps, JobUpdates DEF ShowCount, Reply
  <2>3. CASE ShowSize(p)
    BY <1>1, <1>2, <1>3, <2>3, GotoWithKeeps, AnswerKeeps, JobUpdates DEF ShowSize, Reply
  <2>4. CASE ShowOpen(p)
    BY <1>2, <2>4, GotoKeeps, AnswerKeeps DEF ShowOpen, Reply
  <2>5. CASE ShowStream(p)
    BY <1>2, <2>5, GotoKeeps, AnswerKeeps DEF ShowStream, Anywhere, Reply
  <2>6. CASE Send(p)
    BY <2>6, AnswerKeeps DEF Send, Reply
  <2> QED
    BY <2>1, <2>2, <2>3, <2>4, <2>5, <2>6 DEF Show
<1>5. StoreOK'
  BY DEF Show, ShowStart, ShowCount, ShowSize, ShowOpen, ShowStream, Send, StoreOK, eventFiles,
         seatFiles
<1> QED
  BY <1>4, <1>5

LEMMA CreateTyped ==
    ASSUME TypeInv, NEW p \in Proc, Create(p)
    PROVE  TypeInv'
<1> USE DEF TypeInv
<1>1. job[p] \in Job /\ uid(p) \in User
  BY DEF ProcOK, Job, Request
<1>2. pc[p] = "allocate" \/ eid(p) \in Event
  BY DEF Located, Anywhere, Create, Allocate, CountUp, Mkdir, Register, StartOpen, StartWrite,
         InitOpen, InitWrite, DescOpen, DescLock, Upload, Newline, DropCreated, DropStart, DropRes
<1>3. CASE Allocate(p)
  <2>1. CASE counter \in {Emptied, MaxEvents} \/ Outdated(p)
    BY <1>3, <2>1, AnswerKeeps DEF Allocate, Reply, StoreOK, seatFiles
  <2>2. CASE counter \notin {Emptied, MaxEvents} /\ ~Outdated(p)
    <3>1. counter + 1 \in Event
      BY <2>2, EventAssumption DEF StoreOK, Event
    <3>2. GotoWith(p, "countUp", [job[p] EXCEPT !.eid = counter + 1]) /\ counter' = Emptied
      BY <1>3, <2>2 DEF Allocate
    <3>3. ProcOK' /\ Located'
      BY <1>1, <3>1, <3>2, GotoWithKeeps, JobUpdates
    <3> QED
      BY <1>3, <3>2, <3>3 DEF Allocate, StoreOK, seatFiles
  <2> QED
    BY <2>1, <2>2
<1>3a. CASE CountUp(p)
  <2>1. eid(p) \in Event /\ eid(p) \in 0..MaxEvents
    BY <1>2, <1>3a, EventAssumption DEF CountUp, Event
  <2>2. ProcOK' /\ Located'
    BY <1>3a, <2>1, GotoKeeps, AnswerKeeps DEF CountUp, Reply
  <2> QED
    BY <1>3a, <2>1, <2>2 DEF CountUp, StoreOK, seatFiles
<1>4. CASE Mkdir(p)
  <2>1. ProcOK' /\ Located'
    BY <1>2, <1>4, GotoKeeps DEF Mkdir
  <2> QED
    BY <1>1, <1>2, <1>4, <2>1 DEF Mkdir, StoreOK, eventFiles, seatFiles, Emptied, NoFile
<1>5. CASE Register(p)
  <2>1. ProcOK' /\ Located'
    BY <1>2, <1>5, GotoKeeps DEF Register
  <2> QED
    BY <1>1, <1>2, <1>5, <2>1 DEF Register, StoreOK, eventFiles, seatFiles, Emptied, NoFile
<1>6. CASE StartOpen(p)
  <2>1. ProcOK' /\ Located'
    BY <1>2, <1>6, GotoKeeps DEF StartOpen
  <2> QED
    BY <1>1, <1>2, <1>6, <2>1 DEF StartOpen, StoreOK, eventFiles, seatFiles, Emptied, NoFile
<1>7. CASE StartWrite(p)
  <2>1. ProcOK' /\ Located'
    BY <1>2, <1>7, GotoKeeps DEF StartWrite
  <2> QED
    BY <1>1, <1>2, <1>7, <2>1 DEF StartWrite, StoreOK, eventFiles, seatFiles, Emptied, NoFile
<1>8. CASE InitOpen(p)
  <2>1. ProcOK' /\ Located'
    BY <1>2, <1>8, GotoKeeps DEF InitOpen
  <2> QED
    BY <1>1, <1>2, <1>8, <2>1 DEF InitOpen, StoreOK, eventFiles, seatFiles, Emptied, NoFile
<1>9. CASE InitWrite(p)
  <2>1. ProcOK' /\ Located'
    BY <1>2, <1>9, GotoKeeps DEF InitWrite
  <2> QED
    BY <1>1, <1>2, <1>9, <2>1 DEF InitWrite, StoreOK, eventFiles, seatFiles, Emptied, NoFile
<1>10. CASE DescOpen(p)
  <2>1. ProcOK' /\ Located'
    BY <1>2, <1>10, GotoKeeps DEF DescOpen
  <2> QED
    BY <1>1, <1>2, <1>10, <2>1 DEF DescOpen, StoreOK, Content, eventFiles, seatFiles, Emptied, NoFile
<1>10a. CASE DescLock(p)
  <2>1. ProcOK' /\ Located'
    BY <1>2, <1>10a, GotoKeeps DEF DescLock
  <2> QED
    BY <1>1, <1>2, <1>10a, <2>1 DEF DescLock, StoreOK, Content, eventFiles, seatFiles, Emptied, NoFile
<1>11. CASE Upload(p)
  <2>1. ProcOK' /\ Located'
    BY <1>2, <1>11, GotoKeeps DEF Upload
  <2> QED
    BY <1>1, <1>2, <1>11, <2>1 DEF Upload, StoreOK, Content, eventFiles, seatFiles, Emptied, NoFile
<1>12. CASE Newline(p)
  <2>1. ProcOK' /\ Located'
    BY <1>2, <1>12, GotoKeeps, AnswerKeeps DEF Newline, Reply
  <2> QED
    BY <1>1, <1>2, <1>12, <2>1 DEF Newline, StoreOK, eventFiles, seatFiles, Emptied, NoFile
<1>13. CASE DropCreated(p)
  <2>1. ProcOK' /\ Located'
    BY <1>2, <1>13, GotoKeeps DEF DropCreated
  <2> QED
    BY <1>1, <1>2, <1>13, <2>1 DEF DropCreated, StoreOK, eventFiles, seatFiles, Emptied, NoFile
<1>14. CASE DropStart(p)
  <2>1. ProcOK' /\ Located'
    BY <1>2, <1>14, GotoKeeps DEF DropStart
  <2> QED
    BY <1>1, <1>2, <1>14, <2>1 DEF DropStart, StoreOK, eventFiles, seatFiles, Emptied, NoFile
<1>15. CASE DropRes(p)
  <2>1. ProcOK' /\ Located'
    BY <1>2, <1>15, AnswerKeeps DEF DropRes, Reply
  <2> QED
    BY <1>1, <1>2, <1>15, <2>1 DEF DropRes, StoreOK, eventFiles, seatFiles, Emptied, NoFile
<1> QED
  BY <1>3, <1>3a, <1>4, <1>5, <1>6, <1>7, <1>8, <1>9, <1>10, <1>10a, <1>11, <1>12, <1>13, <1>14,
     <1>15 DEF Create

LEMMA MineTyped ==
    ASSUME TypeInv, NEW p \in Proc, Mine(p)
    PROVE  TypeInv'
<1> USE DEF TypeInv
<1>1. job[p] \in Job /\ userRes \subseteq Filed
  BY DEF ProcOK, StoreOK
<1>2. CASE Reserved(p)
  <2>1. Newest(Names(uid(p))) \in SUBSET Nat
    BY <1>1 DEF Newest, Names, Filed
  <2>2. ProcOK' /\ Located'
    BY <1>1, <1>2, <2>1, AnswerKeeps, GotoWithKeeps, JobUpdates DEF Reserved, Reply, Anywhere
  <2> QED
    BY <1>2, <2>2 DEF Reserved, StoreOK, eventFiles, seatFiles
<1>3. CASE ReadReservation(p)
  <2>1. CASE Answer(p, "OK")
    BY <1>3, <2>1, AnswerKeeps DEF ReadReservation, Reply, StoreOK, eventFiles, seatFiles
  <2>2. ASSUME NEW t \in job[p].names,
               GotoWith(p, "reading",
                   [job[p] EXCEPT !.names = @ \ {t},
                                  !.found = @ \cup {f \in userRes : f.uid = uid(p) /\ f.at = t}])
        PROVE  TypeInv'
    <3>1. /\ job[p].names \ {t} \in SUBSET Nat
          /\ job[p].found \cup {f \in userRes : f.uid = uid(p) /\ f.at = t} \in SUBSET Filed
      BY <1>1 DEF Job
    <3>2. ProcOK' /\ Located'
      BY <1>1, <2>2, <3>1, GotoWithKeeps, JobUpdates DEF Anywhere
    <3> QED
      BY <1>3, <3>2 DEF ReadReservation, StoreOK, eventFiles, seatFiles
  <2> QED
    BY <1>3, <2>1, <2>2 DEF ReadReservation
<1> QED
  BY <1>2, <1>3 DEF Mine

LEMMA NextTyped ==
    ASSUME TypeInv, [Next]_vars
    PROVE  TypeInv'
<1>1. ASSUME NEW p \in Proc, NEW r \in Requests, Receive(p, r)
      PROVE  TypeInv'
  <2>1. [NewJob(r) EXCEPT !.at = clock] \in Job /\ FirstStep(r.op) \in Anywhere
    BY RequestAssumption, NewJobTyped, JobUpdates DEF FirstStep, Anywhere, TypeInv, StoreOK
  <2>2. Over(r.eid) \in BOOLEAN
    BY DEF Over
  <2>3. FirstStep(r.op) \in Label
    BY DEF FirstStep
  <2>4. ConfirmedOf(r.uid) \in SUBSET Filed
    BY DEF ConfirmedOf, TypeInv, StoreOK
  <2>5. "none" \in Reply
    BY DEF Reply
  <2>6. ProcOK' /\ Located'
    BY <1>1, <2>1, <2>2, <2>3, <2>4, <2>5 DEF TypeInv, ProcOK, Located, Receive
  <2> QED
    BY <1>1, <2>6 DEF TypeInv, StoreOK, Receive, eventFiles, seatFiles
<1>2. ASSUME NEW p \in Proc, Auth(p)
      PROVE  TypeInv'
  <2>1. ProcOK' /\ Located'
    BY <1>2, GotoKeeps, AnswerKeeps DEF TypeInv, Auth, Reply, Anywhere
  <2> QED
    BY <1>2, <2>1 DEF TypeInv, Auth, StoreOK, eventFiles, seatFiles
<1>3. ASSUME NEW p \in Proc, EventDir(p)
      PROVE  TypeInv'
  <2>1. ProcOK' /\ Located'
    BY <1>3, GotoKeeps, AnswerKeeps DEF TypeInv, EventDir, Reply, Anywhere
  <2> QED
    BY <1>3, <2>1 DEF TypeInv, EventDir, StoreOK, eventFiles, seatFiles
<1>4. CASE Tick
  BY <1>4, BoundAssumption
     DEF Tick, TypeInv, StoreOK, ProcOK, Located, atArrival, eventFiles, seatFiles
<1>5. CASE Crash
  <2>1. ProcOK' /\ Located'
    BY <1>5 DEF Crash, Idle, TypeInv, ProcOK, Located, Anywhere, atArrival
  <2> QED
    BY <1>5, <2>1 DEF Crash, TypeInv, StoreOK, eventFiles
<1>6. CASE UNCHANGED vars
  BY <1>6 DEF vars, TypeInv, StoreOK, ProcOK, Located, atArrival, eventFiles, seatFiles
<1>7. CASE Datagram
  BY <1>1, <1>7 DEF Datagram, Proc
<1>8. ASSUME NEW c \in Child, Accept(c)
      PROVE  TypeInv'
  BY <1>1, <1>8 DEF Accept, Proc
<1>9. ASSUME NEW p \in Proc, Serve(p)
      PROVE  TypeInv'
  BY <1>2, <1>3, <1>9, StatusTyped, ReserveTyped, CloseTyped, CreateTyped, ShowTyped, MineTyped
     DEF Serve
<1> QED
  BY <1>4, <1>5, <1>6, <1>7, <1>8, <1>9 DEF Next

LEMMA InitTyped == Init => TypeInv
<1> SUFFICES ASSUME Init PROVE TypeInv
  OBVIOUS
<1>1. ProcOK /\ Located
  <2>1. [op |-> "list", uid |-> FirstOwner, eid |-> NoEvent, people |-> 1] \in Request
    BY UserAssumption DEF Request, Op, Query
  <2> QED
    BY <2>1, NewJobTyped DEF Init, ProcOK, Located, Anywhere, Reply
<1>2. StoreOK
  BY UserAssumption, EventAssumption DEF Init, StoreOK, Content, Event, Emptied, NoFile
<1> QED
  BY <1>1, <1>2 DEF TypeInv

\* Whatever the clients ask and however the processes interleave, files and
\* local variables keep their types and no EID above MAX_EVENTS is given out.
THEOREM TypeCorrect == Spec => []TypeOK
<1>1. TypeInv => TypeOK
  BY DEF TypeInv, TypeOK
<1> QED
  BY <1>1, InitTyped, NextTyped, PTL DEF Spec
-----------------------------------------------------------------------------
(***************************************************************************)
(* The count in RES.  A reservation past its second look at RES has made   *)
(* sure of its seats: the count it read plus its own seats fits in the     *)
(* event, and once the reservation is filed that sum is backed by filed    *)
(* reservations.  The count may be out of date by then, but capacities do  *)
(* not change and filed seats only grow, so both facts survive the steps   *)
(* of others.                                                              *)
(***************************************************************************)
Sure == {"userFile", "userWrite", "eventFile", "resOpen", "resWrite"}

SureFits(p) == pc[p] \in Sure => job[p].got + people(p) <= Capacity[eid(p)]

SureBacked(p) ==
    /\ pc[p] \in {"userFile", "userWrite", "eventFile"} => job[p].got <= stored[eid(p)]
    /\ pc[p] \in {"resOpen", "resWrite"} => job[p].got + people(p) <= stored[eid(p)]

SeatInv == /\ ResWithinCapacity
           /\ ResBacked
           /\ \A p \in Proc : SureFits(p) /\ SureBacked(p)

\* A step that leaves RES alone or writes no more than 0 to it, files
\* nothing and does not make its process sure of seats.
Harmless(p) == /\ \A e \in Event : res'[e] = res[e] \/ res'[e] <= 0
               /\ stored' = stored
               /\ \A q \in Proc \ {p} : pc'[q] = pc[q] /\ job'[q] = job[q]
               /\ pc'[p] \notin Sure

LEMMA HarmlessKeeps ==
    ASSUME TypeInv, TypeInv', SeatInv, NEW p \in Proc, Harmless(p)
    PROVE  SeatInv'
<1>1. \A e \in Event : Capacity[e] \in Nat /\ stored[e] \in Nat
  BY EventAssumption DEF TypeInv, StoreOK
<1>2. \A e \in Event : res[e] \in Int /\ res'[e] \in Int
  BY DEF TypeInv, StoreOK, NoFile, Emptied
<1>3. ResWithinCapacity' /\ ResBacked'
  BY <1>1, <1>2 DEF Harmless, SeatInv, ResWithinCapacity, ResBacked
<1>4. ASSUME NEW q \in Proc
      PROVE  SureFits(q)' /\ SureBacked(q)'
  BY DEF Harmless, SeatInv, SureFits, SureBacked, Sure
<1> QED
  BY <1>3, <1>4 DEF SeatInv

\* Moving only one process, to a step that is not sure of seats.
LEMMA MovesAreHarmless ==
    ASSUME TypeInv, NEW p \in Proc, NEW l \in Label \ Sure,
           Goto(p, l) \/ (\E j \in Job : GotoWith(p, l, j)) \/ (\E r \in Reply : Answer(p, r))
    PROVE  /\ \A q \in Proc \ {p} : pc'[q] = pc[q] /\ job'[q] = job[q]
           /\ pc'[p] \notin Sure
BY DEF TypeInv, ProcOK, Goto, GotoWith, Answer, Sure

LEMMA ReserveKeepsSeats ==
    ASSUME TypeInv, SeatInv, NEW p \in Proc, Reserve(p)
    PROVE  SeatInv'
<1> DEFINE e0 == eid(p)
           need == people(p)
<1>1. job[p] \in Job /\ need \in Nat \ {0} /\ job[p].got \in Nat
  BY DEF TypeInv, ProcOK, Job, Request
<1>2. e0 \in Event
  BY DEF TypeInv, Located, Anywhere, Reserve, Reread, UserFileOpen, FileForUser, FileForEvent, ResOpen,
         ResWrite
<1>3. \A e \in Event : /\ Capacity[e] \in Nat /\ stored[e] \in Nat
                       /\ res[e] \in Nat \/ res[e] \in {NoFile, Emptied}
  BY EventAssumption DEF TypeInv, StoreOK
<1>4. CASE Reread(p)
  <2>1. CASE \E r \in Reply : Answer(p, r)
    <3>1. Harmless(p)
      BY <1>4, <2>1, MovesAreHarmless DEF Reread, Harmless, seatFiles, TypeInv, ProcOK, Answer, Sure
    <3> QED
      BY <1>4, <3>1, HarmlessKeeps, ReserveTyped
  <2>2. CASE GotoWith(p, "userFile", [job[p] EXCEPT !.got = res[e0]]) /\ res[e0] \in Nat
             /\ ~(res[e0] + need > Capacity[e0])
    <3>1. res' = res /\ stored' = stored
      BY <1>4 DEF Reread, seatFiles
    <3>2. /\ pc'[p] = "userFile" /\ job'[p] = [job[p] EXCEPT !.got = res[e0]]
          /\ \A q \in Proc \ {p} : pc'[q] = pc[q] /\ job'[q] = job[q]
      BY <2>2 DEF GotoWith, TypeInv, ProcOK
    <3>3. job'[p].got = res[e0] /\ job'[p].eid = e0 /\ job'[p].req = job[p].req
      BY <1>1, <3>2 DEF Job
    <3>4. res[e0] <= stored[e0] /\ res[e0] + need <= Capacity[e0]
      BY <1>1, <1>2, <1>3, <2>2 DEF SeatInv, ResBacked
    <3>5. SureFits(p)' /\ SureBacked(p)'
      BY <3>1, <3>2, <3>3, <3>4 DEF SureFits, SureBacked
    <3>6. ASSUME NEW q \in Proc \ {p}
          PROVE  SureFits(q)' /\ SureBacked(q)'
      BY <3>1, <3>2 DEF SeatInv, SureFits, SureBacked
    <3> QED
      BY <3>1, <3>5, <3>6 DEF SeatInv, ResWithinCapacity, ResBacked
  <2> QED
    BY <1>2, <1>3, <1>4, <2>1, <2>2 DEF Reread, Reply
<1>4a. CASE UserFileOpen(p)
  <2>1. res' = res /\ stored' = stored
    BY <1>4a DEF UserFileOpen
  <2>2. /\ pc'[p] = "userWrite" /\ job' = job
        /\ \A q \in Proc \ {p} : pc'[q] = pc[q]
    BY <1>4a DEF UserFileOpen, Goto, TypeInv, ProcOK
  <2>3. \A q \in Proc : SureFits(q)' /\ SureBacked(q)'
    BY <1>4a, <2>1, <2>2 DEF UserFileOpen, SeatInv, SureFits, SureBacked, Sure
  <2> QED
    BY <2>1, <2>3 DEF SeatInv, ResWithinCapacity, ResBacked
<1>5. CASE FileForUser(p)
  <2>1. res' = res /\ stored' = stored
    BY <1>5 DEF FileForUser
  <2>2. /\ pc'[p] \in {"eventFile", "hungUser"} /\ job' = job
        /\ \A q \in Proc \ {p} : pc'[q] = pc[q]
    BY <1>5 DEF FileForUser, Goto, TypeInv, ProcOK
  <2>3. \A q \in Proc : SureFits(q)' /\ SureBacked(q)'
    BY <1>5, <2>1, <2>2 DEF FileForUser, SeatInv, SureFits, SureBacked, Sure
  <2> QED
    BY <2>1, <2>3 DEF SeatInv, ResWithinCapacity, ResBacked
<1>6. CASE FileForEvent(p)
  <2>1. CASE Goto(p, "hungEvent") /\ UNCHANGED stored
    <3>1. Harmless(p)
      BY <1>6, <2>1, MovesAreHarmless DEF FileForEvent, Harmless, Sure
    <3> QED
      BY <1>6, <3>1, HarmlessKeeps, ReserveTyped
  <2>2. CASE Goto(p, "resOpen") /\ stored' = [stored EXCEPT ![e0] = @ + need]
    <3>1. res' = res
      BY <1>6 DEF FileForEvent
    <3>2. \A e \in Event : stored'[e] >= stored[e] /\ stored'[e] \in Nat
      BY <1>1, <1>2, <1>3, <2>2 DEF TypeInv, StoreOK
    <3>3. stored'[e0] = stored[e0] + need
      BY <1>2, <2>2 DEF TypeInv, StoreOK
    <3>4. /\ pc'[p] = "resOpen" /\ job' = job
          /\ \A q \in Proc \ {p} : pc'[q] = pc[q]
      BY <2>2 DEF Goto, TypeInv, ProcOK
    <3>5. ResWithinCapacity' /\ ResBacked'
      BY <1>3, <3>1, <3>2 DEF SeatInv, ResWithinCapacity, ResBacked, NoFile, Emptied
    <3>6. SureFits(p)' /\ SureBacked(p)'
      BY <1>1, <1>2, <1>3, <1>6, <3>3, <3>4 DEF FileForEvent, SeatInv, SureFits, SureBacked, Sure
    <3>7. ASSUME NEW q \in Proc \ {p}
          PROVE  SureFits(q)' /\ SureBacked(q)'
      <4>1. job[q] \in Job
        BY DEF TypeInv, ProcOK
      <4>2. pc[q] \in Sure => eid(q) \in Event
        BY DEF TypeInv, Located, Anywhere, Sure
      <4>3. job[q].got \in Nat /\ people(q) \in Nat
        BY <4>1 DEF Job, Request
      <4> QED
        BY <1>3, <3>2, <3>4, <4>2, <4>3 DEF SeatInv, SureFits, SureBacked, Sure
    <3> QED
      BY <3>5, <3>6, <3>7 DEF SeatInv
  <2> QED
    BY <1>6, <2>1, <2>2 DEF FileForEvent
<1>7. CASE ResOpen(p)
  <2>1. stored' = stored /\ \A e \in Event : res'[e] = res[e] \/ res'[e] = -1
    BY <1>7 DEF ResOpen, Emptied, TypeInv, StoreOK
  <2>2. /\ pc'[p] = "resWrite" /\ job' = job
        /\ \A q \in Proc \ {p} : pc'[q] = pc[q]
    BY <1>7 DEF ResOpen, Goto, TypeInv, ProcOK
  <2>3. \A q \in Proc : SureFits(q)' /\ SureBacked(q)'
    BY <1>7, <2>1, <2>2 DEF ResOpen, SeatInv, SureFits, SureBacked, Sure
  <2> QED
    BY <1>3, <2>1, <2>3 DEF SeatInv, ResWithinCapacity, ResBacked
<1>8. CASE ResWrite(p)
  <2>1. stored' = stored
    BY <1>8 DEF ResWrite
  <2>2. /\ pc'[p] \notin Sure /\ job' = job
        /\ \A q \in Proc \ {p} : pc'[q] = pc[q]
    BY <1>8 DEF ResWrite, Goto, Answer, Sure, TypeInv, ProcOK
  <2>3. \A q \in Proc : SureFits(q)' /\ SureBacked(q)'
    BY <2>1, <2>2 DEF SeatInv, SureFits, SureBacked, Sure
  <2>4. job[p].got + need <= Capacity[e0] /\ job[p].got + need <= stored[e0]
    BY <1>8 DEF ResWrite, SeatInv, SureFits, SureBacked, Sure
  <2>5. \A e \in Event : \/ res'[e] = res[e]
                         \/ e = e0 /\ res'[e] = job[p].got + need
    BY <1>8 DEF ResWrite, TypeInv, StoreOK
  <2> QED
    BY <2>1, <2>3, <2>4, <2>5 DEF SeatInv, ResWithinCapacity, ResBacked
<1> QED
  BY <1>4, <1>4a, <1>5, <1>6, <1>7, <1>8 DEF Reserve

\* The steps of every other request move their own process only and write
\* nothing but 0 to RES.
LEMMA OthersKeepSeats ==
    ASSUME TypeInv, TypeInv', SeatInv, NEW p \in Proc,
           Auth(p) \/ EventDir(p) \/ Status(p) \/ Close(p) \/ Create(p) \/ Show(p)
               \/ Mine(p)
    PROVE  SeatInv'
<1> USE DEF Goto, GotoWith, Answer, Sure
<1>1. pc \in [Proc -> Label] /\ job \in [Proc -> Job] /\ res \in [Event -> Nat \cup {NoFile, Emptied}]
  BY DEF TypeInv, ProcOK, StoreOK
<1>2. CASE Auth(p)
  BY <1>1, <1>2, HarmlessKeeps DEF Auth, Harmless, eventFiles, seatFiles
<1>3. CASE EventDir(p)
  BY <1>1, <1>3, HarmlessKeeps DEF EventDir, Harmless, eventFiles, seatFiles
<1>4. CASE Status(p)
  <2>1. CASE StatusStart(p)
    BY <1>1, <2>1, HarmlessKeeps DEF StatusStart, Harmless, eventFiles, seatFiles, Judge
  <2>2. CASE StatusPast(p)
    BY <1>1, <2>2, HarmlessKeeps DEF StatusPast, Harmless, eventFiles, seatFiles, Judge
  <2>3. CASE StatusEnded(p)
    BY <1>1, <2>3, HarmlessKeeps DEF StatusEnded, Harmless, eventFiles, seatFiles, Judge
  <2>4. CASE StatusCount(p)
    BY <1>1, <2>4, HarmlessKeeps DEF StatusCount, Harmless, eventFiles, seatFiles, Judge
  <2>5. CASE Judged(p)
    BY <1>1, <2>5, HarmlessKeeps DEF Judged, Harmless, eventFiles, seatFiles
  <2>6. CASE Listing(p)
    BY <1>1, <2>6, HarmlessKeeps DEF Listing, Harmless, eventFiles, seatFiles
  <2>7. CASE Scan(p)
    BY <1>1, <2>7, HarmlessKeeps DEF Scan, Harmless, eventFiles, seatFiles
  <2> QED
    BY <1>4, <2>1, <2>2, <2>3, <2>4, <2>5, <2>6, <2>7 DEF Status
<1>5. CASE Close(p)
  <2>1. CASE CloseOwner(p)
    BY <1>1, <2>1, HarmlessKeeps DEF CloseOwner, Harmless, eventFiles, seatFiles
  <2>2. CASE CloseStart(p)
    BY <1>1, <2>2, HarmlessKeeps DEF CloseStart, Harmless, eventFiles, seatFiles
  <2>3. CASE CloseCount(p)
    BY <1>1, <2>3, HarmlessKeeps DEF CloseCount, Harmless, eventFiles, seatFiles
  <2>4. CASE ClosePast(p)
    BY <1>1, <2>4, HarmlessKeeps DEF ClosePast, Harmless, eventFiles, seatFiles
  <2>5. CASE CloseEnded(p)
    BY <1>1, <2>5, HarmlessKeeps DEF CloseEnded, Harmless, eventFiles, seatFiles
  <2>6. CASE CloseWrite(p)
    BY <1>1, <2>6, HarmlessKeeps DEF CloseWrite, Harmless, eventFiles, seatFiles
  <2> QED
    BY <1>5, <2>1, <2>2, <2>3, <2>4, <2>5, <2>6 DEF Close
<1>6. CASE Create(p)
  <2>1. CASE Allocate(p)
    BY <1>1, <2>1, HarmlessKeeps DEF Allocate, Harmless, eventFiles, seatFiles
  <2>1a. CASE CountUp(p)
    BY <1>1, <2>1a, HarmlessKeeps DEF CountUp, Harmless, eventFiles, seatFiles
  <2>2. CASE Mkdir(p)
    BY <1>1, <2>2, HarmlessKeeps DEF Mkdir, Harmless, eventFiles, seatFiles
  <2>3. CASE Register(p)
    BY <1>1, <2>3, HarmlessKeeps DEF Register, Harmless, eventFiles, seatFiles
  <2>4. CASE StartOpen(p)
    BY <1>1, <2>4, HarmlessKeeps DEF StartOpen, Harmless, eventFiles, seatFiles
  <2>5. CASE StartWrite(p)
    BY <1>1, <2>5, HarmlessKeeps DEF StartWrite, Harmless, eventFiles, seatFiles
  <2>6. CASE InitOpen(p)
    BY <1>1, <2>6, HarmlessKeeps DEF InitOpen, Harmless, eventFiles, seatFiles, Emptied, NoFile
  <2>7. CASE InitWrite(p)
    BY <1>1, <2>7, HarmlessKeeps DEF InitWrite, Harmless, eventFiles, seatFiles, Emptied, NoFile
  <2>8. CASE DescOpen(p)
    BY <1>1, <2>8, HarmlessKeeps DEF DescOpen, Harmless, eventFiles, seatFiles
  <2>8a. CASE DescLock(p)
    BY <1>1, <2>8a, HarmlessKeeps DEF DescLock, Harmless, eventFiles, seatFiles
  <2>9. CASE Upload(p)
    BY <1>1, <2>9, HarmlessKeeps DEF Upload, Harmless, eventFiles, seatFiles
  <2>10. CASE Newline(p)
    BY <1>1, <2>10, HarmlessKeeps DEF Newline, Harmless, eventFiles, seatFiles
  <2>11. CASE DropCreated(p)
    BY <1>1, <2>11, HarmlessKeeps DEF DropCreated, Harmless, eventFiles, seatFiles
  <2>12. CASE DropStart(p)
    BY <1>1, <2>12, HarmlessKeeps DEF DropStart, Harmless, eventFiles, seatFiles
  <2>13. CASE DropRes(p)
    BY <1>1, <2>13, HarmlessKeeps DEF DropRes, Harmless, eventFiles, seatFiles, Emptied, NoFile
  <2> QED
    BY <1>6, <2>1, <2>1a, <2>2, <2>3, <2>4, <2>5, <2>6, <2>7, <2>8, <2>8a, <2>9, <2>10,
       <2>11, <2>12, <2>13
       DEF Create
<1>7. CASE Show(p)
  <2>1. CASE ShowStart(p)
    BY <1>1, <2>1, HarmlessKeeps DEF ShowStart, Harmless, eventFiles, seatFiles
  <2>2. CASE ShowCount(p)
    BY <1>1, <2>2, HarmlessKeeps DEF ShowCount, Harmless, eventFiles, seatFiles
  <2>3. CASE ShowSize(p)
    BY <1>1, <2>3, HarmlessKeeps DEF ShowSize, Harmless, eventFiles, seatFiles
  <2>4. CASE ShowOpen(p)
    BY <1>1, <2>4, HarmlessKeeps DEF ShowOpen, Harmless, eventFiles, seatFiles
  <2>5. CASE ShowStream(p)
    BY <1>1, <2>5, HarmlessKeeps DEF ShowStream, Harmless, eventFiles, seatFiles
  <2>6. CASE Send(p)
    BY <1>1, <2>6, HarmlessKeeps DEF Send, Harmless, eventFiles, seatFiles
  <2> QED
    BY <1>7, <2>1, <2>2, <2>3, <2>4, <2>5, <2>6 DEF Show
<1>8. CASE Mine(p)
  <2>1. CASE Reserved(p)
    BY <1>1, <2>1, HarmlessKeeps DEF Reserved, Harmless, eventFiles, seatFiles
  <2>2. CASE ReadReservation(p)
    BY <1>1, <2>2, HarmlessKeeps DEF ReadReservation, Harmless, eventFiles, seatFiles
  <2> QED
    BY <1>8, <2>1, <2>2 DEF Mine
<1> QED
  BY <1>2, <1>3, <1>4, <1>5, <1>6, <1>7, <1>8

LEMMA NextKeepsSeats ==
    ASSUME TypeInv, TypeInv', SeatInv, [Next]_vars
    PROVE  SeatInv'
<1> USE DEF SeatInv, ResWithinCapacity, ResBacked, SureFits, SureBacked, Sure
<1>1. pc \in [Proc -> Label]
  BY DEF TypeInv, ProcOK
<1>2. ASSUME NEW p \in Proc, NEW r \in Requests, Receive(p, r)
      PROVE  SeatInv'
  <2>1. FirstStep(r.op) \notin Sure
    BY DEF FirstStep
  <2>2. \A q \in Proc \ {p} : pc'[q] = pc[q] /\ job'[q] = job[q]
    BY <1>2 DEF Receive, TypeInv, ProcOK
  <2>3. Harmless(p)
    BY <1>1, <1>2, <2>1, <2>2 DEF Harmless, Receive, seatFiles
  <2> QED
    BY <2>3, HarmlessKeeps
<1>3. CASE Tick
  BY <1>3 DEF Tick, seatFiles
<1>4. CASE Crash
  <2>1. \A q \in Proc : pc'[q] = pc[q] \/ pc'[q] \in {"idle", "done"}
    BY <1>4 DEF Crash
  <2> QED
    BY <1>4, <2>1 DEF Crash
<1>5. CASE UNCHANGED vars
  BY <1>5 DEF vars, seatFiles
<1>6. CASE Datagram
  BY <1>2, <1>6 DEF Datagram, Proc
<1>7. ASSUME NEW c \in Child, Accept(c)
      PROVE  SeatInv'
  BY <1>2, <1>7 DEF Accept, Proc
<1>8. ASSUME NEW p \in Proc, Serve(p)
      PROVE  SeatInv'
  <2>1. CASE Reserve(p)
    BY <2>1, ReserveKeepsSeats
  <2>2. CASE Auth(p) \/ EventDir(p) \/ Status(p) \/ Close(p) \/ Create(p) \/ Show(p)
              \/ Mine(p)
    BY <2>2, OthersKeepSeats
  <2> QED
    BY <1>8, <2>1, <2>2 DEF Serve
<1> QED
  BY <1>3, <1>4, <1>5, <1>6, <1>7, <1>8 DEF Next

LEMMA InitSeats == Init => SeatInv
<1> SUFFICES ASSUME Init PROVE SeatInv
  OBVIOUS
<1>1. ResWithinCapacity /\ ResBacked
  BY EventAssumption DEF Init, ResWithinCapacity, ResBacked, NoFile
<1>2. \A p \in Proc : SureFits(p) /\ SureBacked(p)
  BY DEF Init, SureFits, SureBacked, Sure
<1> QED
  BY <1>1, <1>2 DEF SeatInv

LEMMA SeatsInvariant == Spec => [](TypeInv /\ SeatInv)
BY InitTyped, NextTyped, InitSeats, NextKeepsSeats, PTL DEF Spec

\* However many reservations race on one event, with crashes and failed
\* writes anywhere, RES_<eid>.txt never shows more seats than the event has.
THEOREM ResNeverAboveCapacity == Spec => []ResWithinCapacity
BY SeatsInvariant, PTL DEF SeatInv

\* Nor does it ever count a seat for which no reservation was filed.
THEOREM ResNeverUnbacked == Spec => []ResBacked
BY SeatsInvariant, PTL DEF SeatInv
-----------------------------------------------------------------------------
(***************************************************************************)
(* Fresh EIDs.  While the counter holds a number, no directory and no      *)
(* create on its way to making one is above it.  Between the truncation    *)
(* and the write it holds none, but then a single process has the lock and *)
(* its EID is above them all; and after a crash in between nobody gets an  *)
(* EID any more.                                                           *)
(***************************************************************************)
UpTo(n) == /\ \A e \in Event : dir[e] => e <= n
           /\ \A q \in Proc : pc[q] = "mkdir" => eid(q) <= n

Counting(p) == /\ counter = Emptied
               /\ UpTo(eid(p) - 1)
               /\ \A q \in Proc : pc[q] = "countUp" => q = p

EidInv == /\ counter # Emptied => UpTo(counter)
          /\ \A p \in Proc : pc[p] = "countUp" => Counting(p)
          /\ FreshEid

\* A step that makes no directory and takes no EID.
TakesNone(p) == /\ dir' = dir /\ counter' = counter
                /\ \A q \in Proc \ {p} : pc'[q] = pc[q] /\ job'[q] = job[q]
                /\ pc'[p] \notin {"countUp", "mkdir"}

LEMMA TakesNoneKeeps ==
    ASSUME EidInv, NEW p \in Proc, TakesNone(p)
    PROVE  EidInv'
BY DEF EidInv, UpTo, Counting, FreshEid, TakesNone

LEMMA AllocateKeepsEids ==
    ASSUME TypeInv, EidInv, NEW p \in Proc, Allocate(p)
    PROVE  EidInv'
<1>1. pc \in [Proc -> Label] /\ job \in [Proc -> Job] /\ dir' = dir
  BY DEF TypeInv, ProcOK, Allocate
<1>2. CASE counter \in {Emptied, MaxEvents} \/ Outdated(p)
  <2>1. TakesNone(p)
    BY <1>1, <1>2 DEF Allocate, Answer, TakesNone
  <2> QED
    BY <2>1, TakesNoneKeeps
<1>3. CASE counter \notin {Emptied, MaxEvents} /\ ~Outdated(p)
  <2>1. counter \in Int /\ Event \subseteq Int /\ counter' = Emptied
    BY <1>3, EventAssumption DEF Allocate, TypeInv, StoreOK, Event
  <2>2. /\ pc'[p] = "countUp" /\ job'[p].eid = counter + 1
        /\ \A q \in Proc \ {p} : pc'[q] = pc[q] /\ job'[q] = job[q] /\ pc[q] # "countUp"
    BY <1>1, <1>3 DEF Allocate, GotoWith, CounterLocked, Job
  <2>3. job'[p].eid - 1 = counter /\ UpTo(counter)
    BY <1>3, <2>1, <2>2 DEF EidInv
  <2>4. \A e \in Event : dir'[e] => e <= job'[p].eid - 1
    BY <1>1, <2>3 DEF UpTo
  <2>5. \A q \in Proc : pc'[q] = "mkdir" => job'[q].eid <= job'[p].eid - 1
    BY <2>2, <2>3 DEF UpTo
  <2>6. Counting(p)'
    BY <2>1, <2>2, <2>4, <2>5 DEF Counting, UpTo
  <2>7. FreshEid'
    BY <1>1, <2>2 DEF EidInv, FreshEid
  <2> QED
    BY <2>1, <2>2, <2>6, <2>7 DEF EidInv
<1> QED
  BY <1>2, <1>3

LEMMA CountUpKeepsEids ==
    ASSUME TypeInv, EidInv, NEW p \in Proc, CountUp(p)
    PROVE  EidInv'
<1>1. pc \in [Proc -> Label] /\ job \in [Proc -> Job] /\ dir' = dir /\ pc[p] = "countUp"
  BY DEF TypeInv, ProcOK, CountUp
<1>2. CASE Answer(p, "ERROR") /\ UNCHANGED counter
  <2>1. TakesNone(p)
    BY <1>1, <1>2 DEF Answer, TakesNone
  <2> QED
    BY <2>1, TakesNoneKeeps
<1>3. CASE counter' = eid(p) /\ Goto(p, "mkdir")
  <2>1. eid(p) \in Int /\ Event \subseteq Int /\ eid(p) # Emptied
    BY <1>1, EventAssumption DEF TypeInv, Located, Anywhere, Event, Emptied
  <2>2. Counting(p)
    BY <1>1 DEF EidInv
  <2>3. /\ pc'[p] = "mkdir" /\ job' = job
        /\ \A q \in Proc \ {p} : pc'[q] = pc[q] /\ pc[q] # "countUp"
    BY <1>1, <1>3, <2>2 DEF Goto, Counting
  <2>4. \A q \in Proc : pc[q] = "mkdir" => eid(q) \in Int
    BY <2>1 DEF TypeInv, Located, Anywhere
  <2>5. \A e \in Event : dir[e] => e <= eid(p) - 1
    BY <2>2 DEF Counting, UpTo
  <2>6. \A q \in Proc : pc[q] = "mkdir" => eid(q) <= eid(p) - 1
    BY <2>2 DEF Counting, UpTo
  <2>7. UpTo(eid(p))'
    BY <1>1, <2>1, <2>3, <2>4, <2>5, <2>6 DEF UpTo
  <2>8. eid(p) \in Event
    BY <1>1 DEF TypeInv, Located, Anywhere
  <2>9. FreshEid'
    <3>1. ~dir[eid(p)]
      BY <2>1, <2>5, <2>8
    <3>2. \A q \in Proc : pc[q] = "mkdir" => eid(q) # eid(p)
      BY <2>1, <2>4, <2>6
    <3> QED
      BY <1>1, <2>3, <3>1, <3>2 DEF EidInv, FreshEid
  <2> QED
    BY <1>3, <2>3, <2>7, <2>9 DEF EidInv
<1> QED
  BY <1>2, <1>3 DEF CountUp

LEMMA MkdirKeepsEids ==
    ASSUME TypeInv, EidInv, NEW p \in Proc, Mkdir(p)
    PROVE  EidInv'
<1>1. /\ pc[p] = "mkdir" /\ pc'[p] = "register" /\ job' = job /\ counter' = counter
      /\ \A q \in Proc \ {p} : pc'[q] = pc[q]
  BY DEF TypeInv, ProcOK, Mkdir, Goto
<1>2. \A e \in Event : dir'[e] => dir[e] \/ e = eid(p)
  BY DEF TypeInv, StoreOK, Mkdir
<1>3. \A q \in Proc : pc[q] = "mkdir" => eid(q) \in Event
  BY DEF TypeInv, Located, Anywhere
<1>4. FreshEid'
  BY <1>1, <1>2, <1>3 DEF EidInv, FreshEid
<1>5. counter # Emptied => UpTo(counter)'
  BY <1>1, <1>2 DEF EidInv, UpTo
<1>6. ASSUME NEW q \in Proc, pc'[q] = "countUp"
      PROVE  Counting(q)'
  <2>1. q # p /\ Counting(q)
    BY <1>1, <1>6 DEF EidInv
  <2>2. UpTo(eid(q) - 1)'
    BY <1>1, <1>2, <2>1 DEF Counting, UpTo
  <2> QED
    BY <1>1, <2>1, <2>2 DEF Counting
<1> QED
  BY <1>1, <1>4, <1>5, <1>6 DEF EidInv

LEMMA OthersTakeNone ==
    ASSUME TypeInv, NEW p \in Proc, Serve(p), ~Allocate(p), ~CountUp(p), ~Mkdir(p)
    PROVE  TakesNone(p)
<1> USE DEF Goto, GotoWith, Answer, TakesNone, eventFiles, seatFiles
<1>1. pc \in [Proc -> Label] /\ job \in [Proc -> Job]
  BY DEF TypeInv, ProcOK
<1>2. CASE Auth(p) \/ EventDir(p)
  BY <1>1, <1>2 DEF Auth, EventDir
<1>3. CASE Status(p)
  BY <1>1, <1>3 DEF Status, StatusStart, StatusPast, StatusEnded, StatusCount, Judged, Judge,
                    Listing, Scan
<1>4. CASE Reserve(p)
  BY <1>1, <1>4 DEF Reserve, Reread, UserFileOpen, FileForUser, FileForEvent, ResOpen, ResWrite
<1>5. CASE Close(p)
  BY <1>1, <1>5 DEF Close, CloseOwner, CloseStart, CloseCount, ClosePast, CloseEnded, CloseWrite
<1>6. CASE Create(p)
  BY <1>1, <1>6 DEF Create, Register, StartOpen, StartWrite, InitOpen, InitWrite,
                    DescOpen, DescLock, Upload, Newline, DropCreated, DropStart, DropRes
<1>7. CASE Show(p)
  BY <1>1, <1>7 DEF Show, ShowStart, ShowCount, ShowSize, ShowOpen, ShowStream, Send
<1>8. CASE Mine(p)
  BY <1>1, <1>8 DEF Mine, Reserved, ReadReservation
<1> QED
  BY <1>2, <1>3, <1>4, <1>5, <1>6, <1>7, <1>8 DEF Serve

LEMMA NextKeepsEids ==
    ASSUME TypeInv, EidInv, [Next]_vars
    PROVE  EidInv'
<1>1. ASSUME NEW p \in Proc, NEW r \in Requests, Receive(p, r)
      PROVE  EidInv'
  <2>1. TakesNone(p)
    BY <1>1 DEF TakesNone, Receive, FirstStep, eventFiles, TypeInv, ProcOK
  <2> QED
    BY <2>1, TakesNoneKeeps
<1>2. CASE Tick
  BY <1>2 DEF Tick, EidInv, UpTo, Counting, FreshEid, eventFiles
<1>3. CASE Crash
  <2>1. \A q \in Proc : pc'[q] = pc[q] \/ pc'[q] \in {"idle", "done"}
    BY <1>3 DEF Crash
  <2> QED
    BY <1>3, <2>1 DEF Crash, EidInv, UpTo, Counting, FreshEid, eventFiles
<1>4. CASE UNCHANGED vars
  BY <1>4 DEF vars, EidInv, UpTo, Counting, FreshEid, eventFiles
<1>5. CASE Datagram
  BY <1>1, <1>5 DEF Datagram, Proc
<1>6. ASSUME NEW c \in Child, Accept(c)
      PROVE  EidInv'
  BY <1>1, <1>6 DEF Accept, Proc
<1>7. ASSUME NEW p \in Proc, Serve(p)
      PROVE  EidInv'
  BY <1>7, AllocateKeepsEids, CountUpKeepsEids, MkdirKeepsEids, OthersTakeNone, TakesNoneKeeps
<1> QED
  BY <1>2, <1>3, <1>4, <1>5, <1>6, <1>7 DEF Next

LEMMA InitEids == Init => EidInv
<1> SUFFICES ASSUME Init PROVE EidInv
  OBVIOUS
<1>1. counter = Existing /\ Existing # Emptied /\ \A p \in Proc : pc[p] = "idle"
  BY EventAssumption DEF Init, Emptied
<1>2. UpTo(counter)
  BY <1>1 DEF Init, UpTo
<1> QED
  BY <1>1, <1>2 DEF EidInv, FreshEid

\* No two creates are given the same EID, and none the EID of an event that
\* exists, whatever crashes and failed writes did to the counter file.
THEOREM EidsAreFresh == Spec => []FreshEid
<1>1. EidInv => FreshEid
  BY DEF EidInv
<1> QED
  BY <1>1, InitTyped, NextTyped, InitEids, NextKeepsEids, PTL DEF Spec
=============================================================================
