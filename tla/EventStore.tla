----------------------------- MODULE EventStore -----------------------------
(***************************************************************************)
(* The event half of the server's database (src/src/server/Database.cpp)   *)
(* and the requests that read and write it: reserve, close, create, show,  *)
(* list, myevents and myreservations.                                      *)
(*                                                                         *)
(* The server accepts one connection at a time and forks a child that      *)
(* serves one TCP request and exits; UDP requests are served by the parent *)
(* itself, which accepts nothing meanwhile.  The processes share nothing   *)
(* but the files under ES_DB/EVENTS and ES_DB/USERS, so a step here is one *)
(* operation on one file:                                                  *)
(*   - a read (open, flock SH, read, close) is one step that waits while   *)
(*     another process keeps the exclusive lock;                           *)
(*   - a write is two steps, because open_and_lock opens with O_TRUNC      *)
(*     before it calls flock: the file is empty between the two.           *)
(*                                                                         *)
(* Who may issue a request (passwords, login state) is decided by other    *)
(* files; here the check may go either way.                                *)
(***************************************************************************)
EXTENDS Integers, FiniteSets

CONSTANTS
    Child,          \* forked children; each serves one connection
    Parent,         \* the server process: select loop and UDP requests
    User,           \* UIDs
    LeadingZero,    \* the UIDs that start with 0
    MaxEvents,      \* MAX_EVENTS (999 in the code)
    Existing,       \* events already created when the run starts
    FirstOwner,     \* the user who created those
    Capacity,       \* event_attend of each event
    StartTime,      \* the date of each event
    Requests,       \* the requests clients send
    MaxListed,      \* MAX_RESERVATIONS_SEND (50 in the code)
    MaxClock,       \* bound on the seconds that pass
    MaxActive,      \* bound on the connections served at the same time
    WritesMayFail,  \* a write may come up short (full disk)
    MayCrash        \* SIGINT may end all processes, followed by a restart

Event == 1..MaxEvents
Proc == Child \cup {Parent}
Query == {"myevents", "myreservations"}     \* what the parent serves
Op == {"reserve", "close", "create", "show", "list"} \cup Query
NoEvent == 0     \* the EID of a request that carries none
NoFile == -2     \* RES_<eid>.txt does not exist
Emptied == -1    \* RES_<eid>.txt, or EID_COUNTER.txt, exists but holds nothing

Request == [op : Op, uid : User, eid : Event \cup {NoEvent}, people : Nat \ {0}]

ASSUME ProcAssumption == Parent \notin Child
ASSUME UserAssumption == FirstOwner \in User /\ LeadingZero \subseteq User
ASSUME EventAssumption == /\ MaxEvents \in Nat
                          /\ Existing \in 0..MaxEvents
                          /\ Capacity \in [Event -> Nat \ {0}]
                          /\ StartTime \in [Event -> Nat]
ASSUME RequestAssumption == Requests \subseteq Request
\* The messages of create, list and the two queries have no place for an EID.
ASSUME EidAssumption == \A r \in Requests : r.op \in {"create", "list"} \cup Query => r.eid = NoEvent
ASSUME BoundAssumption == /\ MaxClock \in Nat /\ MaxActive \in Nat /\ MaxListed \in Nat
                          /\ WritesMayFail \in BOOLEAN /\ MayCrash \in BOOLEAN

VARIABLES
    clock,      \* time(nullptr)
    counter,    \* EID_COUNTER.txt: the last EID given out
    dir,        \* dir[e]: EVENTS/<e>/ exists
    created,    \* created[u]: the EIDs filed under USERS/<u>/CREATED/
    start,      \* start[e]: START_<e>.txt is absent, empty or written
    owner,      \* owner[e]: the UID written in START_<e>.txt
    desc,       \* desc[e]: how much of the description file is on disk
    end,        \* end[e]: END_<e>.txt exists
    res,        \* res[e]: what RES_<e>.txt holds
    userRes,    \* the files under USERS/<uid>/RESERVED/
    eventRes,   \* the files under EVENTS/<eid>/RESERVATIONS/
    orphan,     \* processes whose open RES file has been unlinked
    pc,         \* the next step of each process
    job,        \* local variables of the request each process serves
    reply,      \* the answer each process sent last
    stored,     \* history: seats of all reservations filed for each event
    over,       \* history: the event was over when the request arrived
    owed        \* history: the user's reservations confirmed by then

eventFiles == <<counter, dir, created, start, owner, desc, end>>
seatFiles == <<res, userRes, eventRes, orphan, stored>>
atArrival == <<over, owed>>
vars == <<clock, eventFiles, seatFiles, pc, job, reply, atArrival>>

\* The steps of a request, by the function they belong to.
StatusStep == {"start", "past", "ended", "count", "judged"}
ReserveStep == {"reread", "userFile", "userWrite", "eventFile", "resOpen", "resWrite"}
CloseStep == {"closeOwner", "closeStart", "closeCount", "closePast", "closeEnded", "closeWrite"}
CreateStep == {"allocate", "countUp", "mkdir", "register", "startOpen", "startWrite",
               "initOpen", "initWrite", "descOpen", "descLock", "upload", "newline", "dropCreated",
               "dropStart", "dropRes"}
ShowStep == {"showStart", "showCount", "showSize", "showOpen", "showStream"}
MineStep == {"reserved", "reading"}
Hung == {"hungUser", "hungEvent", "hungRes", "hungStart"}
Step == {"auth", "eventDir", "listing", "scan", "sending"} \cup StatusStep \cup ReserveStep
          \cup CloseStep \cup CreateStep \cup ShowStep \cup MineStep
Label == {"idle", "done"} \cup Step \cup Hung
Verdict == {"none", "accepting", "past", "closed", "soldout", "corrupted"}
Content == {"none", "empty", "part", "full"}
Reply == {"none", "refused", "ERROR", "NOK", "NOE", "EOW", "SLD", "PST", "CLO", "CLS",
          "REJ", "ACC", "OK", "CUT"}
Filed == [uid : User, at : Nat, eid : Event \cup {NoEvent}, seats : Nat]

Job == [req : Request, eid : Event \cup {NoEvent}, got : Nat, at : Nat,
        todo : SUBSET Event, verdict : Verdict, size : Content,
        names : SUBSET Nat, found : SUBSET Filed]

StoreOK ==
    /\ clock \in Nat
    /\ counter \in 0..MaxEvents \cup {Emptied}
    /\ dir \in [Event -> BOOLEAN]
    /\ created \in [User -> SUBSET Event]
    /\ start \in [Event -> {"none", "empty", "full"}]
    /\ owner \in [Event -> User]
    /\ desc \in [Event -> Content]
    /\ end \in [Event -> BOOLEAN]
    /\ res \in [Event -> Nat \cup {NoFile, Emptied}]
    /\ userRes \subseteq Filed
    /\ eventRes \subseteq Filed
    /\ orphan \subseteq Proc
    /\ stored \in [Event -> Nat]

ProcOK ==
    /\ pc \in [Proc -> Label]
    /\ job \in [Proc -> Job]
    /\ reply \in [Proc -> Reply]
    /\ over \in [Proc -> BOOLEAN]
    /\ owed \in [Proc -> SUBSET Filed]

\* Every variable ranges over the values the code can give it; the EID
\* counter, in particular, never passes MAX_EVENTS (create_event).
TypeOK == StoreOK /\ ProcOK

-----------------------------------------------------------------------------
NewJob(r) == [req |-> r, eid |-> r.eid, got |-> 0, at |-> 0, todo |-> {},
              verdict |-> "none", size |-> "none", names |-> {}, found |-> {}]

Init ==
    /\ clock = 0
    /\ counter = Existing
    /\ dir = [e \in Event |-> e <= Existing]
    /\ created = [u \in User |-> IF u = FirstOwner THEN 1..Existing ELSE {}]
    /\ start = [e \in Event |-> IF e <= Existing THEN "full" ELSE "none"]
    /\ owner = [e \in Event |-> FirstOwner]
    /\ desc = [e \in Event |-> IF e <= Existing THEN "full" ELSE "none"]
    /\ end = [e \in Event |-> FALSE]
    /\ res = [e \in Event |-> IF e <= Existing THEN 0 ELSE NoFile]
    /\ userRes = {}
    /\ eventRes = {}
    /\ orphan = {}
    /\ pc = [p \in Proc |-> "idle"]
    /\ job = [p \in Proc |->
                NewJob([op |-> "list", uid |-> FirstOwner, eid |-> NoEvent, people |-> 1])]
    /\ reply = [p \in Proc |-> "none"]
    /\ stored = [e \in Event |-> 0]
    /\ over = [p \in Proc |-> FALSE]
    /\ owed = [p \in Proc |-> {}]

(***************************************************************************)
(* What a step does to its own process.                                    *)
(***************************************************************************)
eid(p) == job[p].eid
op(p) == job[p].req.op
uid(p) == job[p].req.uid
people(p) == job[p].req.people

Goto(p, label) == pc' = [pc EXCEPT ![p] = label] /\ UNCHANGED <<job, reply, atArrival>>

GotoWith(p, label, j) ==
    pc' = [pc EXCEPT ![p] = label] /\ job' = [job EXCEPT ![p] = j] /\ UNCHANGED <<reply, atArrival>>

\* The answer is sent; a child exits, the parent goes back to select().
Answer(p, r) ==
    /\ pc' = [pc EXCEPT ![p] = IF p = Parent THEN "idle" ELSE "done"]
    /\ reply' = [reply EXCEPT ![p] = r]
    /\ UNCHANGED <<job, atArrival>>

(***************************************************************************)
(* Files.                                                                  *)
(***************************************************************************)
Past(e) == clock > StartTime[e]

\* A process that meets a write error calls delete_file on the path it
\* still holds locked through another descriptor: it waits for itself.
ResLocked(e) == \E q \in Proc : pc[q] = "hungRes" /\ q \notin orphan /\ eid(q) = e
StartLocked(e) == \E q \in Proc : pc[q] = "hungStart" /\ eid(q) = e
DescLocked(e) == \E q \in Proc : pc[q] = "upload" /\ eid(q) = e

\* A show keeps its shared lock until its client has taken the description.
DescShown(e) == \E q \in Proc : pc[q] = "sending" /\ op(q) = "show" /\ eid(q) = e

UserFileLocked(u, t) == \E q \in Proc : pc[q] = "hungUser" /\ uid(q) = u /\ job[q].at = t

\* The event's reservation file stays locked until RES is written.
EventFileLocked(e, u, t) ==
    \E q \in Proc : /\ pc[q] \in {"resOpen", "resWrite", "hungRes", "hungEvent"}
                    /\ op(q) = "reserve" /\ eid(q) = e /\ uid(q) = u /\ job[q].at = t

\* R-<uid>-<date>-<time>.txt: in the user's directory the name carries no EID.
SameName(f, g) == f.uid = g.uid /\ f.at = g.at
Filing(p) == [uid |-> uid(p), at |-> job[p].at, eid |-> eid(p), seats |-> people(p)]
Blank(p) == [Filing(p) EXCEPT !.eid = NoEvent, !.seats = 0]     \* the name, and nothing in it
WithoutUserFile(p) == {f \in userRes : ~SameName(f, Filing(p))}
WithoutEventFile(p) == {f \in eventRes : ~(SameName(f, Filing(p)) /\ f.eid = eid(p))}

(***************************************************************************)
(* A request arrives.                                                      *)
(***************************************************************************)
FirstStep(o) == CASE o = "show" -> "showStart"
                  [] o = "list" -> "listing"
                  [] OTHER -> "auth"

\* A create whose event was withdrawn after a failed upload.
CreateFailed(e) == \E c \in Child : op(c) = "create" /\ eid(c) = e /\ reply[c] = "ERROR"

Over(e) == e \in Event /\ (end[e] \/ Past(e) \/ CreateFailed(e))

\* The reservations of u that a client has been told of.
ConfirmedOf(u) ==
    {Filing(c) : c \in {d \in Child : op(d) = "reserve" /\ uid(d) = u /\ reply[d] = "ACC"}} \cap eventRes

Receive(p, r) ==
    /\ pc' = [pc EXCEPT ![p] = FirstStep(r.op)]
    /\ job' = [job EXCEPT ![p] = [NewJob(r) EXCEPT !.at = clock]]
    /\ reply' = [reply EXCEPT ![p] = "none"]
    /\ over' = [over EXCEPT ![p] = Over(r.eid)]
    /\ owed' = [owed EXCEPT ![p] = IF r.op = "myreservations" THEN ConfirmedOf(r.uid) ELSE {}]
    /\ UNCHANGED <<clock, eventFiles, seatFiles>>

Active == {c \in Child : pc[c] \notin {"idle", "done"}}

\* The parent accepts a connection and forks, which it only does between
\* two UDP requests.
Accept(c) ==
    /\ pc[Parent] = "idle"
    /\ pc[c] = "idle"
    /\ Cardinality(Active) < MaxActive
    /\ \E r \in Requests : r.op \notin Query /\ Receive(c, r)

Datagram ==
    /\ pc[Parent] = "idle"
    /\ \E r \in Requests : r.op \in Query /\ Receive(Parent, r)

\* logged_in, registered and password checks, and the parse of the request.
Auth(p) ==
    /\ pc[p] = "auth"
    /\ \/ Answer(p, "refused")
       \/ Goto(p, CASE op(p) = "create" -> "allocate"
                    [] op(p) = "myevents" -> "listing"
                    [] op(p) = "myreservations" -> "reserved"
                    [] OTHER -> "eventDir")
    /\ UNCHANGED <<clock, eventFiles, seatFiles>>

EventDir(p) ==
    /\ pc[p] = "eventDir"
    /\ IF eid(p) \in Event /\ dir[eid(p)]
       THEN Goto(p, IF op(p) = "close" THEN "closeOwner" ELSE "start")
       ELSE Answer(p, IF op(p) = "close" THEN "NOE" ELSE "NOK")
    /\ UNCHANGED <<clock, eventFiles, seatFiles>>

(***************************************************************************)
(* Slips: what some of the steps below would be in a version of the code   *)
(* with a plausible mistake.  No specification here uses them; each serves *)
(* to show that a property can tell the mistake from the code.             *)
(***************************************************************************)
\* get_event_status without the check for an END file.
StatusEndedSlip(p) ==
    /\ pc[p] = "ended"
    /\ Goto(p, "count")
    /\ UNCHANGED <<clock, eventFiles, seatFiles>>

\* The seats left are not checked again.
RereadSlip(p) ==
    /\ pc[p] = "reread"
    /\ ~ResLocked(eid(p))
    /\ IF res[eid(p)] \in {NoFile, Emptied} THEN Answer(p, "ERROR")
       ELSE GotoWith(p, "userFile", [job[p] EXCEPT !.got = res[eid(p)]])
    /\ UNCHANGED <<clock, eventFiles, seatFiles>>

\* The reservation is filed with the user only.
FileForUserSlip(p) ==
    /\ pc[p] = "userWrite"
    /\ userRes' = WithoutUserFile(p) \cup {Filing(p)}
    /\ Goto(p, "resOpen")
    /\ UNCHANGED <<clock, eventFiles, res, eventRes, orphan, stored>>

\* The reservation is filed with the event only.
FileForUserMissingSlip(p) ==
    /\ pc[p] = "userWrite"
    /\ Goto(p, "eventFile")
    /\ UNCHANGED <<clock, eventFiles, seatFiles>>

\* RES gets this reservation's seats instead of the new total.
ResWriteSlip(p) ==
    /\ pc[p] = "resWrite"
    /\ res' = [res EXCEPT ![eid(p)] = people(p)]
    /\ Answer(p, "ACC")
    /\ UNCHANGED <<clock, eventFiles, userRes, eventRes, orphan, stored>>

\* A late look for the END file, after RES has been emptied.
ResWriteLateSlip(p) ==
    /\ pc[p] = "resWrite"
    /\ IF end[eid(p)] THEN Answer(p, "CLS") /\ UNCHANGED res
       ELSE res' = [res EXCEPT ![eid(p)] = job[p].got + people(p)] /\ Answer(p, "ACC")
    /\ UNCHANGED <<clock, eventFiles, userRes, eventRes, orphan, stored>>

\* The EID limit is tested with > instead of ==.
AllocateSlip(p) ==
    /\ pc[p] = "allocate"
    /\ ~\E q \in Proc : pc[q] = "countUp"
    /\ IF counter > MaxEvents \/ counter = Emptied
       THEN Answer(p, "NOK") /\ UNCHANGED counter
       ELSE counter' = Emptied /\ GotoWith(p, "countUp", [job[p] EXCEPT !.eid = counter + 1])
    /\ UNCHANGED <<clock, dir, created, start, owner, desc, end, seatFiles>>

\* An empty counter file is read as 0.
AllocateAfreshSlip(p) ==
    LET last == IF counter = Emptied THEN 0 ELSE counter IN
    /\ pc[p] = "allocate"
    /\ ~\E q \in Proc : pc[q] = "countUp"
    /\ IF last = MaxEvents
       THEN Answer(p, "NOK") /\ UNCHANGED counter
       ELSE counter' = Emptied /\ GotoWith(p, "countUp", [job[p] EXCEPT !.eid = last + 1])
    /\ UNCHANGED <<clock, dir, created, start, owner, desc, end, seatFiles>>

\* A short write of START goes unnoticed.
StartWriteSlip(p) ==
    /\ pc[p] = "startWrite"
    /\ start' = [start EXCEPT ![eid(p)] = IF WritesMayFail THEN "empty" ELSE "full"]
    /\ owner' = [owner EXCEPT ![eid(p)] = uid(p)]
    /\ Goto(p, "initOpen")
    /\ UNCHANGED <<clock, counter, dir, created, desc, end, seatFiles>>

\* The failed upload is removed with delete_file while its lock is held.
UploadLockSlip(p) ==
    /\ pc[p] = "upload"
    /\ \/ desc' = [desc EXCEPT ![eid(p)] = "full"] /\ Goto(p, "newline")
       \/ Goto(p, "hungEvent") /\ UNCHANGED desc
    /\ UNCHANGED <<clock, counter, dir, created, start, owner, end, seatFiles>>

\* The oldest reservations come first.
NewestSlip(times) == {t \in times : Cardinality({s \in times : s < t}) < MaxListed}

\* A failed create leaves its START file behind.
DropStartSlip(p) ==
    /\ pc[p] = "dropStart"
    /\ Goto(p, "dropRes")
    /\ UNCHANGED <<clock, eventFiles, seatFiles>>

(***************************************************************************)
(* extract_start_file_data and get_event_status, for reserve, list and     *)
(* myevents.  Asking for the status of an event that has passed closes it. *)
(***************************************************************************)
Judge(p, v) == GotoWith(p, "judged", [job[p] EXCEPT !.verdict = v])

StatusStart(p) ==
    /\ pc[p] = "start"
    /\ ~StartLocked(eid(p))
    /\ IF start[eid(p)] = "full" THEN Goto(p, "past") ELSE Judge(p, "corrupted")
    /\ UNCHANGED <<clock, eventFiles, seatFiles>>

StatusPast(p) ==
    /\ pc[p] = "past"
    /\ IF Past(eid(p))
       THEN Judge(p, "past") /\ end' = [end EXCEPT ![eid(p)] = TRUE]
       ELSE Goto(p, "ended") /\ UNCHANGED end
    /\ UNCHANGED <<clock, counter, dir, created, start, owner, desc, seatFiles>>

StatusEnded(p) ==
    /\ pc[p] = "ended"
    /\ IF end[eid(p)] THEN Judge(p, "closed") ELSE Goto(p, "count")
    /\ UNCHANGED <<clock, eventFiles, seatFiles>>

StatusOf(e) == CASE res[e] \in {NoFile, Emptied} -> "corrupted"
                 [] res[e] >= Capacity[e] -> "soldout"
                 [] OTHER -> "accepting"

StatusCount(p) ==
    /\ pc[p] = "count"
    /\ ~ResLocked(eid(p))
    /\ Judge(p, StatusOf(eid(p)))
    /\ UNCHANGED <<clock, eventFiles, seatFiles>>

\* What operations.cpp does with the status: reserve answers or goes on, a
\* listing moves to its next event.
Refusal(v) == CASE v = "closed" -> "CLS"
                [] v = "soldout" -> "SLD"
                [] v = "past" -> "PST"
                [] OTHER -> "ERROR"

Judged(p) ==
    /\ pc[p] = "judged"
    /\ CASE op(p) # "reserve" ->
              GotoWith(p, "scan", [job[p] EXCEPT !.todo = @ \ {eid(p)}])
         [] op(p) = "reserve" /\ job[p].verdict = "accepting" ->
              GotoWith(p, "reread", [job[p] EXCEPT !.at = clock])
         [] OTHER -> Answer(p, Refusal(job[p].verdict))
    /\ UNCHANGED <<clock, eventFiles, seatFiles>>

\* The directory is read once: EVENTS/ for list, USERS/<uid>/CREATED/ for
\* myevents.
Listing(p) ==
    /\ pc[p] = "listing"
    /\ GotoWith(p, "scan",
                [job[p] EXCEPT !.todo = IF op(p) = "list" THEN {e \in Event : dir[e]}
                                                          ELSE created[uid(p)]])
    /\ UNCHANGED <<clock, eventFiles, seatFiles>>

\* list sorts the EIDs before it reads the events; myevents sorts afterwards.
\* The answer to myevents is one datagram, that to list as long as it gets.
Scan(p) ==
    /\ pc[p] = "scan"
    /\ \/ /\ job[p].todo = {}
          /\ CASE eid(p) = NoEvent -> Answer(p, "NOK")
               [] eid(p) # NoEvent /\ op(p) = "list" -> Goto(p, "sending")
               [] OTHER -> Answer(p, "OK")
       \/ \E e \in job[p].todo :
             /\ op(p) = "list" => \A f \in job[p].todo : e <= f
             /\ GotoWith(p, "start", [job[p] EXCEPT !.eid = e])
    /\ UNCHANGED <<clock, eventFiles, seatFiles>>

(***************************************************************************)
(* Database::reserve: read RES a second time, file the reservation twice,  *)
(* write RES.  No lock spans the read and the write.                       *)
(***************************************************************************)
\* With no seat left, remaining_seats is 0 and operations.cpp takes that for
\* success.
Reread(p) ==
    LET seats == res[eid(p)] IN
    /\ pc[p] = "reread"
    /\ ~ResLocked(eid(p))
    /\ CASE seats \in {NoFile, Emptied} -> Answer(p, "ERROR")
         [] seats >= 0 /\ seats + people(p) > Capacity[eid(p)] ->
              Answer(p, IF Capacity[eid(p)] - seats > 0 THEN "REJ" ELSE "ACC")
         [] OTHER -> GotoWith(p, "userFile", [job[p] EXCEPT !.got = seats])
    /\ UNCHANGED <<clock, eventFiles, seatFiles>>

\* open(O_CREAT | O_TRUNC), before flock.
UserFileOpen(p) ==
    /\ pc[p] = "userFile"
    /\ userRes' = WithoutUserFile(p) \cup {Blank(p)}
    /\ Goto(p, "userWrite")
    /\ UNCHANGED <<clock, eventFiles, res, eventRes, orphan, stored>>

\* If the file has been deleted meanwhile, what is written to it is lost.
FileForUser(p) ==
    /\ pc[p] = "userWrite"
    /\ ~UserFileLocked(uid(p), job[p].at)
    /\ \/ /\ userRes' = IF WithoutUserFile(p) = userRes THEN userRes
                        ELSE WithoutUserFile(p) \cup {Filing(p)}
          /\ Goto(p, "eventFile")
       \/ WritesMayFail /\ Goto(p, "hungUser") /\ UNCHANGED userRes
    /\ UNCHANGED <<clock, eventFiles, res, eventRes, orphan, stored>>

FileForEvent(p) ==
    /\ pc[p] = "eventFile"
    /\ ~EventFileLocked(eid(p), uid(p), job[p].at)
    /\ \/ /\ eventRes' = WithoutEventFile(p) \cup {Filing(p)}
          /\ stored' = [stored EXCEPT ![eid(p)] = @ + people(p)]
          /\ Goto(p, "resOpen")
          /\ UNCHANGED userRes
       \/ /\ WritesMayFail
          /\ eventRes' = WithoutEventFile(p)
          /\ userRes' = WithoutUserFile(p)
          /\ Goto(p, "hungEvent")
          /\ UNCHANGED stored
    /\ UNCHANGED <<clock, eventFiles, res, orphan>>

\* open(O_CREAT | O_TRUNC), before flock.
ResOpen(p) ==
    /\ pc[p] = "resOpen"
    /\ res' = [res EXCEPT ![eid(p)] = Emptied]
    /\ Goto(p, "resWrite")
    /\ UNCHANGED <<clock, eventFiles, userRes, eventRes, orphan, stored>>

\* What goes to an unlinked file is lost.
ResWrite(p) ==
    /\ pc[p] = "resWrite"
    /\ p \in orphan \/ ~ResLocked(eid(p))
    /\ \/ /\ res' = IF p \in orphan THEN res
                    ELSE [res EXCEPT ![eid(p)] = job[p].got + people(p)]
          /\ orphan' = orphan \ {p}
          /\ Answer(p, "ACC")
       \/ WritesMayFail /\ Goto(p, "hungRes") /\ UNCHANGED <<res, orphan>>
    /\ UNCHANGED <<clock, eventFiles, userRes, eventRes, stored>>

(***************************************************************************)
(* close: the START file is read three times, RES once.                    *)
(***************************************************************************)
\* get_event_creator turns the UID into a number and back, which drops a
\* leading zero.
IsOwner(u, e) == owner[e] = u /\ u \notin LeadingZero

CloseOwner(p) ==
    /\ pc[p] = "closeOwner"
    /\ ~StartLocked(eid(p))
    /\ CASE start[eid(p)] # "full" -> Answer(p, "ERROR")
         [] start[eid(p)] = "full" /\ ~IsOwner(uid(p), eid(p)) -> Answer(p, "EOW")
         [] OTHER -> Goto(p, "closeStart")
    /\ UNCHANGED <<clock, eventFiles, seatFiles>>

CloseStart(p) ==
    /\ pc[p] = "closeStart"
    /\ ~StartLocked(eid(p))
    /\ IF start[eid(p)] = "full" THEN Goto(p, "closeCount") ELSE Answer(p, "ERROR")
    /\ UNCHANGED <<clock, eventFiles, seatFiles>>

CloseCount(p) ==
    /\ pc[p] = "closeCount"
    /\ ~ResLocked(eid(p))
    /\ CASE StatusOf(eid(p)) = "corrupted" -> Answer(p, "ERROR")
         [] StatusOf(eid(p)) = "soldout" -> Answer(p, "SLD")
         [] OTHER -> Goto(p, "closePast")
    /\ UNCHANGED <<clock, eventFiles, seatFiles>>

ClosePast(p) ==
    /\ pc[p] = "closePast"
    /\ ~StartLocked(eid(p))
    /\ CASE start[eid(p)] # "full" -> Answer(p, "ERROR")
         [] start[eid(p)] = "full" /\ Past(eid(p)) -> Answer(p, "PST")
         [] OTHER -> Goto(p, "closeEnded")
    /\ UNCHANGED <<clock, eventFiles, seatFiles>>

CloseEnded(p) ==
    /\ pc[p] = "closeEnded"
    /\ IF end[eid(p)] THEN Answer(p, "CLO") ELSE Goto(p, "closeWrite")
    /\ UNCHANGED <<clock, eventFiles, seatFiles>>

\* close_event: a short write answers an error but leaves the END file.
CloseWrite(p) ==
    /\ pc[p] = "closeWrite"
    /\ end' = [end EXCEPT ![eid(p)] = TRUE]
    /\ \/ Answer(p, "OK")
       \/ WritesMayFail /\ Answer(p, "ERROR")
    /\ UNCHANGED <<clock, counter, dir, created, start, owner, desc, seatFiles>>

(***************************************************************************)
(* create: the EID is taken under the counter's lock; everything after is  *)
(* visible to other requests as it is built.  The client's upload decides  *)
(* when, and whether, the event is complete.                               *)
(***************************************************************************)
\* The request's date is that of the event it is about to get; a date that
\* was past when the request was parsed has it refused.
Outdated(p) == StartTime[counter + 1] < job[p].at

CounterLocked == \E q \in Proc : pc[q] = "countUp"

\* The counter is read and truncated, then written, under one lock.  What
\* cannot be read is no reason to start from 0.
Allocate(p) ==
    /\ pc[p] = "allocate"
    /\ ~CounterLocked
    /\ \/ /\ counter = Emptied
          /\ Answer(p, "ERROR")
          /\ UNCHANGED counter
       \/ /\ counter = MaxEvents
          /\ Answer(p, "NOK")
          /\ UNCHANGED counter
       \/ /\ counter \notin {Emptied, MaxEvents} /\ Outdated(p)
          /\ Answer(p, "refused")
          /\ UNCHANGED counter
       \/ /\ counter \notin {Emptied, MaxEvents} /\ ~Outdated(p)
          /\ counter' = Emptied
          /\ GotoWith(p, "countUp", [job[p] EXCEPT !.eid = counter + 1])
    /\ UNCHANGED <<clock, dir, created, start, owner, desc, end, seatFiles>>

CountUp(p) ==
    /\ pc[p] = "countUp"
    /\ \/ counter' = eid(p) /\ Goto(p, "mkdir")
       \/ WritesMayFail /\ Answer(p, "ERROR") /\ UNCHANGED counter
    /\ UNCHANGED <<clock, dir, created, start, owner, desc, end, seatFiles>>

Mkdir(p) ==
    /\ pc[p] = "mkdir"
    /\ dir' = [dir EXCEPT ![eid(p)] = TRUE]
    /\ Goto(p, "register")
    /\ UNCHANGED <<clock, counter, created, start, owner, desc, end, seatFiles>>

\* CREATED/<eid>.txt
Register(p) ==
    /\ pc[p] = "register"
    /\ created' = [created EXCEPT ![uid(p)] = @ \cup {eid(p)}]
    /\ Goto(p, "startOpen")
    /\ UNCHANGED <<clock, counter, dir, start, owner, desc, end, seatFiles>>

StartOpen(p) ==
    /\ pc[p] = "startOpen"
    /\ start' = [start EXCEPT ![eid(p)] = "empty"]
    /\ Goto(p, "startWrite")
    /\ UNCHANGED <<clock, counter, dir, created, owner, desc, end, seatFiles>>

StartWrite(p) ==
    /\ pc[p] = "startWrite"
    /\ \/ /\ start' = [start EXCEPT ![eid(p)] = "full"]
          /\ owner' = [owner EXCEPT ![eid(p)] = uid(p)]
          /\ Goto(p, "initOpen")
       \/ WritesMayFail /\ Goto(p, "hungStart") /\ UNCHANGED <<start, owner>>
    /\ UNCHANGED <<clock, counter, dir, created, desc, end, seatFiles>>

InitOpen(p) ==
    /\ pc[p] = "initOpen"
    /\ res' = [res EXCEPT ![eid(p)] = Emptied]
    /\ Goto(p, "initWrite")
    /\ UNCHANGED <<clock, eventFiles, userRes, eventRes, orphan, stored>>

InitWrite(p) ==
    /\ pc[p] = "initWrite"
    /\ \/ res' = [res EXCEPT ![eid(p)] = 0] /\ Goto(p, "descOpen")
       \/ WritesMayFail /\ Goto(p, "hungRes") /\ UNCHANGED res
    /\ UNCHANGED <<clock, eventFiles, userRes, eventRes, orphan, stored>>

DescOpen(p) ==
    /\ pc[p] = "descOpen"
    /\ desc' = [desc EXCEPT ![eid(p)] = "empty"]
    /\ Goto(p, "descLock")
    /\ UNCHANGED <<clock, counter, dir, created, start, owner, end, seatFiles>>

\* flock, which waits for whoever shows the file already; then the bytes
\* arrive one piece after the other.
DescLock(p) ==
    /\ pc[p] = "descLock"
    /\ ~DescShown(eid(p))
    /\ desc' = [desc EXCEPT ![eid(p)] = "part"]
    /\ Goto(p, "upload")
    /\ UNCHANGED <<clock, counter, dir, created, start, owner, end, seatFiles>>

\* stream_file_TCP ends with all the bytes, or with a lost connection, a
\* client silent for TCP_TIMEOUT seconds or a full disk.
Upload(p) ==
    /\ pc[p] = "upload"
    /\ \/ desc' = [desc EXCEPT ![eid(p)] = "full"] /\ Goto(p, "newline")
       \/ desc' = [desc EXCEPT ![eid(p)] = "none"] /\ Goto(p, "dropCreated")
    /\ UNCHANGED <<clock, counter, dir, created, start, owner, end, seatFiles>>

\* The request must end in a newline.
Newline(p) ==
    /\ pc[p] = "newline"
    /\ Answer(p, "OK") \/ Goto(p, "dropCreated")
    /\ UNCHANGED <<clock, eventFiles, seatFiles>>

DropCreated(p) ==
    /\ pc[p] = "dropCreated"
    /\ created' = [created EXCEPT ![uid(p)] = @ \ {eid(p)}]
    /\ Goto(p, "dropStart")
    /\ UNCHANGED <<clock, counter, dir, start, owner, desc, end, seatFiles>>

DropStart(p) ==
    /\ pc[p] = "dropStart"
    /\ start' = [start EXCEPT ![eid(p)] = "none"]
    /\ Goto(p, "dropRes")
    /\ UNCHANGED <<clock, counter, dir, created, owner, desc, end, seatFiles>>

\* A reservation that has RES open keeps the unlinked file.
DropRes(p) ==
    /\ pc[p] = "dropRes"
    /\ ~ResLocked(eid(p))
    /\ res' = [res EXCEPT ![eid(p)] = NoFile]
    /\ orphan' = orphan \cup {q \in Proc : pc[q] = "resWrite" /\ eid(q) = eid(p)}
    /\ Answer(p, "ERROR")
    /\ UNCHANGED <<clock, eventFiles, userRes, eventRes, stored>>

(***************************************************************************)
(* show: metadata, then the size of the description, then, under a shared  *)
(* lock, as many bytes as the size said.                                   *)
(***************************************************************************)
ShowStart(p) ==
    /\ pc[p] = "showStart"
    /\ ~(eid(p) \in Event /\ StartLocked(eid(p)))
    /\ IF eid(p) \in Event /\ start[eid(p)] = "full"
       THEN Goto(p, "showCount") ELSE Answer(p, "NOK")
    /\ UNCHANGED <<clock, eventFiles, seatFiles>>

ShowCount(p) ==
    /\ pc[p] = "showCount"
    /\ ~ResLocked(eid(p))
    /\ IF res[eid(p)] \in {NoFile, Emptied}
       THEN Answer(p, "NOK")
       ELSE GotoWith(p, "showSize", [job[p] EXCEPT !.got = res[eid(p)]])
    /\ UNCHANGED <<clock, eventFiles, seatFiles>>

\* stat takes no lock, and the header goes out with what it says.
ShowSize(p) ==
    /\ pc[p] = "showSize"
    /\ IF desc[eid(p)] = "none"
       THEN Answer(p, "NOK")
       ELSE GotoWith(p, "showOpen", [job[p] EXCEPT !.size = desc[eid(p)]])
    /\ UNCHANGED <<clock, eventFiles, seatFiles>>

ShowOpen(p) ==
    /\ pc[p] = "showOpen"
    /\ IF desc[eid(p)] = "none" THEN Answer(p, "CUT") ELSE Goto(p, "showStream")
    /\ UNCHANGED <<clock, eventFiles, seatFiles>>

\* The shared lock is taken.  What was empty when its size was taken has no
\* bytes to send: the rest of the answer is a newline.
ShowStream(p) ==
    /\ pc[p] = "showStream"
    /\ ~DescLocked(eid(p))
    /\ IF job[p].size = "empty" THEN Answer(p, "OK") ELSE Goto(p, "sending")
    /\ UNCHANGED <<clock, eventFiles, seatFiles>>

\* The long answer to show or list is written as fast as its client reads it:
\* to the end, or until the connection breaks.  No timeout bounds this.
Send(p) ==
    /\ pc[p] = "sending"
    /\ Answer(p, "OK") \/ Answer(p, "CUT")
    /\ UNCHANGED <<clock, eventFiles, seatFiles>>

(***************************************************************************)
(* myreservations: the names of the user's files, which sort by date, then *)
(* the newest of them one by one.                                          *)
(***************************************************************************)
Names(u) == {f.at : f \in {g \in userRes : g.uid = u}}
Newest(times) == {t \in times : Cardinality({s \in times : s > t}) < MaxListed}

Reserved(p) ==
    /\ pc[p] = "reserved"
    /\ IF Names(uid(p)) = {} THEN Answer(p, "NOK")
       ELSE GotoWith(p, "reading", [job[p] EXCEPT !.names = Newest(Names(uid(p)))])
    /\ UNCHANGED <<clock, eventFiles, seatFiles>>

\* A file that is empty or gone counts as one that says nothing.
ReadReservation(p) ==
    /\ pc[p] = "reading"
    /\ \/ /\ job[p].names = {}
          /\ Answer(p, "OK")
       \/ \E t \in job[p].names :
             /\ \A s \in job[p].names : s <= t
             /\ ~UserFileLocked(uid(p), t)
             /\ GotoWith(p, "reading",
                   [job[p] EXCEPT !.names = @ \ {t},
                                  !.found = @ \cup {f \in userRes : f.uid = uid(p) /\ f.at = t}])
    /\ UNCHANGED <<clock, eventFiles, seatFiles>>

(***************************************************************************)
(* The world: time passes; SIGINT reaches every process of the group, the  *)
(* server is started again and finds the files as they were.               *)
(***************************************************************************)
Tick ==
    /\ clock < MaxClock
    /\ clock' = clock + 1
    /\ UNCHANGED <<eventFiles, seatFiles, pc, job, reply, atArrival>>

Idle(p) == pc[p] \in {"idle", "done"}

Crash ==
    /\ MayCrash
    /\ \E p \in Proc : ~Idle(p)
    /\ pc' = [p \in Proc |-> IF Idle(p) THEN pc[p]
                             ELSE IF p = Parent THEN "idle" ELSE "done"]
    /\ orphan' = {}
    /\ UNCHANGED <<clock, eventFiles, res, userRes, eventRes, stored, job, reply, atArrival>>

Status(p) ==
    \/ StatusStart(p) \/ StatusPast(p) \/ StatusEnded(p) \/ StatusCount(p) \/ Judged(p)
    \/ Listing(p) \/ Scan(p)

Reserve(p) ==
    \/ Reread(p) \/ UserFileOpen(p) \/ FileForUser(p) \/ FileForEvent(p)
    \/ ResOpen(p) \/ ResWrite(p)

Close(p) ==
    \/ CloseOwner(p) \/ CloseStart(p) \/ CloseCount(p) \/ ClosePast(p) \/ CloseEnded(p)
    \/ CloseWrite(p)

Create(p) ==
    \/ Allocate(p) \/ CountUp(p) \/ Mkdir(p) \/ Register(p) \/ StartOpen(p) \/ StartWrite(p)
    \/ InitOpen(p) \/ InitWrite(p) \/ DescOpen(p) \/ DescLock(p) \/ Upload(p)
    \/ Newline(p) \/ DropCreated(p) \/ DropStart(p) \/ DropRes(p)

Show(p) ==
    \/ ShowStart(p) \/ ShowCount(p) \/ ShowSize(p) \/ ShowOpen(p) \/ ShowStream(p)
    \/ Send(p)

Mine(p) == Reserved(p) \/ ReadReservation(p)

Serve(p) ==
    \/ Auth(p) \/ EventDir(p) \/ Status(p) \/ Reserve(p) \/ Close(p) \/ Create(p) \/ Show(p)
    \/ Mine(p)

Next ==
    \/ Tick
    \/ Crash
    \/ Datagram
    \/ \E c \in Child : Accept(c)
    \/ \E p \in Proc : Serve(p)

\* The kernel schedules every runnable process.  A read from a client ends
\* after TCP_TIMEOUT at the latest, and a short answer fits the socket's
\* buffer; but nothing bounds a write, so a process that sends a long answer
\* depends on its client.  Clients owe nothing: they may stop reading, and
\* Accept and Datagram, at which the words of a request have been read, may
\* never happen.
Due(p) == Serve(p) /\ pc[p] # "sending"

Fairness == \A p \in Proc : WF_vars(Due(p))

Spec == Init /\ [][Next]_vars /\ Fairness
-----------------------------------------------------------------------------
(***************************************************************************)
(* Properties that hold however the requests interleave.                   *)
(***************************************************************************)
\* RES_<eid>.txt never counts more seats than the event has, although two
\* reservations may each have checked a number that is old by the time they
\* write (Database::reserve).
ResWithinCapacity == \A e \in Event : res[e] <= Capacity[e]

\* RES never counts a seat for which no reservation was filed: every number
\* written is an earlier count plus a reservation filed since.
ResBacked == \A e \in Event : res[e] <= stored[e]

\* A reservation that arrives after the event was closed, has passed or was
\* withdrawn is never accepted, whatever requests are still in progress.
NoAcceptWhenOver == \A c \in Child : reply[c] = "ACC" => ~over[c]

\* Database files of an event whose creation was confirmed.
Confirmed(e) == e <= Existing \/ \E c \in Child : op(c) = "create" /\ eid(c) = e /\ reply[c] = "OK"

\* Once create has answered OK, the event has everything a request needs,
\* under an EID nobody else was given, and no later request takes it away.
ConfirmedIsWhole ==
    /\ \A e \in Event : Confirmed(e) =>
          /\ dir[e] /\ start[e] = "full" /\ desc[e] = "full" /\ res[e] # NoFile
          /\ e \in created[owner[e]]
    /\ \A c, d \in Child :
          /\ op(c) = "create" /\ reply[c] = "OK"
          /\ op(d) = "create" /\ reply[d] = "OK"
          /\ eid(c) = eid(d)
          => c = d

\* The EID a create has taken is nobody else's and no event has it, although
\* a crash or a failed write may have emptied the counter (increment_eid).
FreshEid ==
    \A p, q \in Proc : pc[p] = "mkdir" =>
        /\ ~dir[eid(p)]
        /\ pc[q] = "mkdir" /\ eid(p) = eid(q) => p = q

\* The reservation c makes, or has made, has the file name of f.
TookName(c, f) ==
    /\ op(c) = "reserve" /\ SameName(Filing(c), f)
    /\ reply[c] = "ACC" \/ pc[c] \in {"userWrite", "eventFile", "resOpen", "resWrite"}

\* myreservations tells its user of every reservation that had been confirmed
\* when he asked, unless MaxListed newer ones fill the answer or another one
\* of the same second has taken the name of its file.
ConfirmedIsShown ==
    \A p \in Proc : op(p) = "myreservations" /\ reply[p] \in {"OK", "NOK"} => \A f \in owed[p] :
        \/ f \in job[p].found
        \/ Cardinality({g \in job[p].found : g.at > f.at}) >= MaxListed
        \/ \E c, d \in Child : c # d /\ TookName(c, f) /\ TookName(d, f)

AtRest == \A p \in Proc : Idle(p)

\* When no request is in progress, every confirmed event can be read: the
\* window in which RES is empty never outlives the request that opened it.
RestReadable == AtRest => \A e \in Event : Confirmed(e) => res[e] >= 0

\* Every request comes to its answer, whatever the others wait for: no
\* handler waits for a lock for ever, although a client that stops reading a
\* long answer keeps its child, and the lock of the description it is shown,
\* for as long as it likes (stream_show_response).  Only the delivery of that
\* answer is left to the client.
EveryRequestAnswered == \A p \in Proc : ~Idle(p) ~> Idle(p) \/ pc[p] = "sending"

(***************************************************************************)
(* Properties the documentation suggests; the runs show which hold when    *)
(* requests come one at a time and which do not when they overlap.         *)
(***************************************************************************)
\* RES is the number of reserved seats: with nothing in progress it equals
\* the seats of the reservations filed (README: "Number of reserved seats").
RestCount == AtRest => \A e \in Event : Confirmed(e) => res[e] = stored[e]

\* The reservations filed for an event fit in it.
NoOverbooking == \A e \in Event : stored[e] <= Capacity[e]

\* A user who was told ACC has a reservation on file with the event.
AcceptedIsFiled ==
    \A c \in Child : reply[c] = "ACC" =>
        \E f \in eventRes : f.eid = eid(c) /\ f.uid = uid(c)

\* A user who was told ACC finds the event among his own reservations
\* (get_user_reservations reads USERS/<uid>/RESERVED/), unless another
\* reservation of his was accepted within the same second: the two share a
\* file name there.
AcceptedIsListed ==
    AtRest => \A c \in Child : reply[c] = "ACC" =>
        \E f \in userRes :
            /\ f.uid = uid(c) /\ f.at = job[c].at
            /\ \/ f.eid = eid(c)
               \/ \E d \in Child \ {c} : reply[d] = "ACC" /\ f = Filing(d)
=============================================================================
