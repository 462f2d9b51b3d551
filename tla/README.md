# Verification of the RC event-reservation system

TLA+ models of the server and the client of this repository, the TLC
configurations that check them on small instances, and theorems about them
that TLAPS checks. Paths below are relative to `src/src/` of the repository;
`README.md` is the repository's own.

## 1. The system

A client (`client/`) offers a user commands over UDP (login, logout,
unregister, myevents, myreservations) and TCP (create, close, list, show,
reserve, changePass). The server (`server/`) keeps everything in files.

| Component | State | Operations | Hard behaviour | What makes it correct |
|---|---|---|---|---|
| Event database (`server/Database.cpp`) | `ES_DB/EVENTS/<eid>/`: START, RES, END, DESCRIPTION, RESERVATIONS; `USERS/<uid>/CREATED`, `RESERVED` | create, close, reserve, show, list, myevents, myreservations | children run beside each other and the parent; files are locked one operation at a time; `O_TRUNC` empties a file before its lock is taken; a failed upload is taken back while the event is visible | RES never counts seats that were not reserved or that the event does not have; nothing is accepted once an event is over; a confirmed event is complete |
| Account database (same file) | `USERS/<uid>/`: password and login files | login (registers), logout, unregister, changePass, admission of every other request | changePass runs in children, the rest in the parent; same truncation window; unregister is two unlinks | a login file is backed by a password; dead passwords are refused; the password on file is the last one confirmed |
| EID counter (`Database.cpp:147-184`) | `ES_DB/EID_COUNTER.txt` | read, increment under one lock | crash between truncation and write; unterminated buffer | EIDs are unique and at most 999 |
| Server loop (`server/main.cpp`, `server.cpp`) | sockets, children | select, accept, fork; UDP served in the parent | a slow datagram holds up all accepts; SIGINT ends every process at any step; a peer that is silent, or stops reading | every request comes to its answer |
| Operations and handlers (`operations.cpp`, `command_handler.cpp`) | none | one function per request, status to answer | status read before the database is changed | the answer says what was done |
| Client session (`client/Client.cpp`, `api.cpp`, `commands.cpp`) | `logged_in`, `uid`, `pass` | one per command; three attempts per datagram | lost, late and repeated datagrams; any datagram is taken for the answer | the client believes it is logged in only if the server let it in |
| Dates (`common/DateTime.cpp`) | none | validate, parse, compare, `isPast` | leap years, impossible dates, boundaries | agrees with the calendar |
| Validators and parsers (`util.cpp`, both `parser.cpp`) | none | accept or reject a field | boundaries | accept exactly the documented fields |

Parent and children interact through files only; client and server through
datagrams and connections. Nothing is shared in memory after the fork.

## 2. Modules

| Module | What it is |
|---|---|
| `EventStore` | the event database and the requests on it, one file operation per step |
| `Seats` | abstract: seats are sold while an event is open and has room |
| `EventStoreSeats` | EventStore as an implementation of Seats |
| `EventStoreMC` | instances of EventStore for TLC |
| `EventStoreProofs` | theorems about EventStore: types, RES, EIDs |
| `EventLifeProofs` | theorems about EventStore: the life of an event |
| `SeatsProofs` | theorems about EventStore when connections come one at a time, with the refinement of Seats |
| `ReservationProofs` | a theorem about EventStore: what myreservations tells a user |
| `Accounts` | the account database and the requests on it, one file operation per step |
| `DirectoryService` | abstract: processes that serve and answer the requests of `Directory`, each in one step |
| `AccountsDirectory` | Accounts as an implementation of DirectoryService |
| `AccountsMC` | instances of Accounts for TLC |
| `AccountsProofs` | theorems about Accounts, with the refinement of DirectoryService |
| `Protocol` | what client and server agree on: operation codes, fields and their limits |
| `Calendar` | dates as `DateTime.cpp` keeps them, and the calendar to compare them with |
| `CalendarProofs` | theorems about Calendar |
| `RequestParser` | how the server reads requests and words its results |
| `CommandParser` | how the client reads lines and responses, which requests it sends, which statuses it knows |
| `Directory` | the account database with each request in one step, as clients see it |
| `Session` | clients, network and server together |
| `SessionMC` | an instance of Session for TLC |
| `SessionProofs` | theorems about Session: types, logins, events |
| `RequestProofs` | theorems about Session: what clients send, what the server accepts and answers, and that both stay in step |

`Session` composes `Directory`, `CommandParser` and `RequestParser` (and through
them `Protocol` and `Calendar`); `EventStoreSeats` composes `EventStore` with
`Seats`, and `AccountsDirectory` composes `Accounts` with `DirectoryService`,
which extends `Directory`.

### EventStore

A process is a forked child, which serves one connection and exits, or the
parent, which serves datagrams and accepts nothing meanwhile (`Accept` and
`Datagram` need `pc[Parent] = "idle"`). `pc` is the next file operation of each
process and `job` its local variables.

* A file is a value, not text: `res[e]` is `NoFile`, `Emptied` or a number;
  `start[e]` is absent, empty or full; a reservation file is a record.
* A read (`open_and_lock` shared, read, close) is one step. It waits while a
  process holds the exclusive lock across steps, which is where the operators
  `ResLocked`, `StartLocked`, `DescLocked`, `EventFileLocked` and
  `UserFileLocked` come from.
* A write is two steps: `open` with `O_TRUNC`, then, under the lock, the write
  (`ResOpen`/`ResWrite`, `StartOpen`/`StartWrite`, `InitOpen`/`InitWrite`,
  `UserFileOpen`/`FileForUser`, `DescOpen`/`DescLock`/`Upload`). Files of a few bytes are
  written whole or not at all. The event's copy of a reservation, and END, are
  read by name only, so opening and writing them is one step.
* An unlinked file that is still open is an `orphan`: what is written to it
  is lost.
* The answers to show and list may be longer than the socket's buffer. A process
  that has one to send is at `sending`, a show with the shared lock of its
  description (`DescShown`), until `Send`: the client has read it all, or the
  connection is gone. Nothing in the code bounds that time. Every other answer,
  and the head of show's, is a few words, which `write` leaves in the buffer.
* A write error leads to the `hung...` labels: the code calls `delete_file`,
  which waits for the lock its caller holds.
* Asking for the status of an event that has passed closes it
  (`StatusPast`), as in `get_event_status`; list does so for every event.
* `Reread` has the code's treatment of `remaining_seats`: a refusal with no
  seat left is answered `ACC`.
* Whether a request is admitted depends on the files of Accounts: `Auth` may
  go either way.
* `Capacity` and `StartTime` are constants: they stand for what the create
  that will get the EID carries. `Outdated` is the parser's refusal of a date
  that has passed.
* The counter file is read and truncated (`Allocate`), then written
  (`CountUp`), under one lock. A crash or a short write between the two leaves
  it empty, and a create that finds it empty fails.
* `myreservations` reads the names of the user's files once (`Reserved`), then
  the newest `MaxListed` (50 in the code) one by one (`ReadReservation`); what
  is empty by then or gone counts as an entry that says nothing. File names
  sort by date, so a name is the time in it.
* `stored` (seats of all reservations ever filed), `over` (the event was over
  when the request came) and `owed` (the user's reservations confirmed when the
  request came) are history variables; no guard reads them.

### Accounts

A request is a route: the list of checks and file operations the code makes,
in its order (`Route`); `steps[p]` is what is left of it. `pass[u]` is
`NoFile`, `Blank` or a password; a password is written in two steps
(`OpenPass`, `WritePass`), and unregister is two (`DropPass`, `DropLogin`).
Login branches at `FindUser`: without a password file it registers. History:
`told[u]` are the passwords confirmed to `u` and not replaced by a request
that came after the confirmation; `hopeless[p]` says that p's password was
neither confirmed nor about to be when the request came, nor set since.

`AccountsDirectory` says when a request takes effect: a registration when its
directories are made, a login with its login file, changePass when it empties the
password file, logout and unregister with their first unlink, everything else at
the check that decides its answer. From then until its last step the mapping
shows what has been decided instead of what is on file (`passwordOf`, `isIn`,
`answerOf`). `TurnSpec` is the specification of `Accounts` with `InTurn`: no two
requests of a user overlap, while those of different users interleave as they
like. That is an assumption about clients. This client waits for an answer before
its next command, so only an answer that does not come in time, or a second client
with the same account, breaks it.

In both modules `Crash` is SIGINT, which reaches the whole process group; the
files stay and the server is started again.

### Session and the modules it is made of

A client (`client/Client.cpp`, `api.cpp`, `commands.cpp`, `main.cpp`) is at its
prompt, waiting for a datagram (`udp`), waiting on a connection (`tcp`) or gone.
`session[c]` is the code's `CLArgs`: `logged_in`, `uid` and `pass`.

| Action | Code |
|---|---|
| `Type` | `process_commands`, a `handle_` function, the parser of its arguments and the sending half of an `er_` function |
| `Refuse`, `handle_exit` | a line that is refused or asks for nothing; exit |
| `ServeDatagram`, `ServeCall` | the server's parser, the operation and the handler's answer, in one step |
| `Stray` | a request of a program that is not this client |
| `Receive`, `ReadAnswer` | the answer, judged by the response parser and the statuses the `er_` function knows (`Heard`), and what is kept of it (`Learn`) |
| `Retry`, `Desist` | `client_udp_request` after a timeout: another attempt, or none left |
| `GiveUp` | a TCP answer that does not come; what was sent will still be served |
| `Tick` | the clock, which both parsers compare dates with |

* A message is the sequence of its words. A number stands for the word that
  spells it, a date for the three numbers in its word; a list is one word.
  Fields are members of sets: `User`, `Password`, `EventName` and `FileName` are
  the words the validators of `util.cpp` let through.
* The network holds bags of datagrams and a set of connections. A datagram that
  is never taken is lost; any member may be next, so they are delayed and
  reordered. The network itself does not copy one: repeated requests are the
  client's retries. The socket of a client is not connected and nothing marks a
  reply with its request, so `Receive` takes any datagram.
* `Numeral` is what is left of a UID after `atoi` and `to_string`.
* The server's side is `Directory`: each request of `operations.cpp` on accounts
  in one step, with the results that unreadable files add (`ReadsMayFail`). What
  becomes of events and seats is EventStore's matter; `Result` lets such a
  request end in any way the operation can. `created` keeps what each event was
  created with, and which request asked for it.
* History: `granted` (who was let in where, with which password), `late`
  (clients a login of which ended without its own answer, because they waited in
  vain or because they took the answer to another request for it), `trouble`
  (clients that waited in vain for anything), `without` (clients whose user was
  told the account is gone).

`CommandParser` and `RequestParser` have one operator per function of the two
`parser.cpp` and keep their names. `Calendar` has the constructor of `DateTime`
with its failure value 00-00-0000, which `invalidDateTime` does not recognise,
and the same calendar counted in minutes for the property that compares the two.

Definitions whose names end in `Slip` are steps with a plausible mistake in
them. No specification uses them; each makes one property fail and so shows
what the property is sensitive to.

## 3. What TLC checks

Deadlock is not checked: children end, clients need not send anything, and a
user may leave with exit.

| Run | Instance | Shows |
|---|---|---|
| `Races` | 2 children and the parent; one event of 2 seats that passes; reservations of 1 and 2 seats, close, list, myevents, and myreservations with room for one | `ResWithinCapacity`, `ResBacked`, `NoAcceptWhenOver`, `RestReadable`, `ConfirmedIsShown` |
| `Faults` | 3 children; event 2 is created, or its create fails, while others reserve, show, close and list it and event 1 sells out; the counter reaches its limit; writes fail and processes are killed at any step | `TypeOK`, `ResWithinCapacity`, `ResBacked`, `ConfirmedIsWhole`, `NoAcceptWhenOver`, `FreshEid` |
| `OneByOne` | 3 connections, never two at once | `RestCount`, `AcceptedIsFiled`, `AcceptedIsListed`, and `ImplementsSeats`: the files implement `Seats` |
| `Answered` | 2 children and the parent; create, reserve, myevents and myreservations beside show and list, whose clients may stop reading; no faults, fair scheduling | `EveryRequestAnswered` |
| `Accounts` | 2 children (changePass, close) and the parent (login, logout, unregister, query) for one user, with write errors and crashes | `LoginBacked`, `StalePasswordIsRefused`, `PasswordIsLatest` |
| `InTurn` | the same for two users, one of whom does all of it, without faults, no two requests of a user at once | `ImplementsDirectory`: the files implement `DirectoryService` |
| `Session` | 1 client, 3 commands of a script with right and wrong ones, a UID that starts with zeros, a leap day that passes during the run, foreign creates, failing reads; fair | `SessionTypeOK`, `LoggedInAsGranted`, `InStep`, `AnswersAreUnderstood`, `RequestsAreWellFormed`, `CreatedIsUpcoming`, `OneEventPerCreate`, `EveryCommandReturns` |
| `Overbooked` | violation of `NoOverbooking` | overlapping reservations together exceed the capacity |
| `EmptyAccept` | violation of `AcceptedIsFiled` | the client is told ACC and nothing is filed |
| `FullDisk` | violation of `EveryRequestAnswered` | a short write makes a process wait for its own lock |
| `Unregistered` | violation of `UnregisteredIsGone` | a changePass re-creates the account after unregister |
| `StuckSession` | violation of `UnregisterLogsOut` | after a repeated unregister the client counts a user as logged in who has no account, and exit is refused |

**Bounds.** `MaxEvents` (999 in the code) is 1 or 2: requests on different
events share no file but the counter and the user's RESERVED directory, which
two events exercise. `Capacity` is 2, so that one reservation of the runs fits
twice and another once. `MaxClock` is at most 2, with dates at 0 or 1 (the event passes
during the run) or 9 (it never does); two seconds before it passes are what two
reservations of one user with different file names need. `MaxListed` is 1, so
that a second reservation is already one too many. The number of children bounds the
connections of a run: a lost update, a stale status or a withdrawn create
needs two actors, and a bystander makes three. `MaxActive` is 1 only in
`OneByOne`. `Accounts` and `Unregistered` have one user, because the files of two
have nothing in common; `InTurn` has two, for its requests overlap only when they
are of different users. Children are interchangeable (`SYMMETRY`) where no liveness
is checked.

In `Session` a datagram has 2 attempts instead of 3: the second already makes a
repeated request, a late answer and an attempt that is the last. Three commands
are a login, a command that changes what the client keeps, and one that shows
the difference; the answer to the first may arrive during the third. (That this
is not enough for logins that take a foreign answer came out in the proof, which
holds for any number of commands: section 4.) One
client is enough for what a client keeps: two share nothing but the accounts,
and the properties either exempt an account that two clients use or do not
depend on it. The files have 0 bytes, the most that is allowed, and one more;
`SendBuffer` lies between. The dates are the first instant of 29 February 2028,
which is the clock's first reading, an ordinary one, and 29 February 2100, which
does not exist.

**Fairness.** `WF_vars(Due(p))`: the kernel schedules a runnable process, and
a handler's step is eventually taken when it stays enabled, but for `Send`. A
connection has `SO_RCVTIMEO` (`server/main.cpp:58`), so a read from a client
ends, and a create's upload, a bounded number of reads, ends with it; it has no
timeout for writing, so a process that sends a long answer depends on its client
and is owed nothing. (The repository's README says of the timeout that it is
there "to avoid blocking", line 157; it does so for reads.) Lock waits are not
assumed to end: `EveryRequestAnswered` shows that every request comes to its
answer, although a client that stops reading may keep its child, and the shared
lock of a description, for ever. The case that needs the check is a show that
opens the description between a create's `open` and its `flock`, and would make
the create wait, and everyone who waits for the create. It has taken the size 0
by then and sends no more than a newline (`ShowStream`), while a show with more
to send gets its lock only when the upload is over. `FullDisk` shows that with a
full disk there is a wait that does not end. Clients owe nothing: `Send` has
no fairness, nor have `Accept` and `Datagram`. At these the words of a request
have been read; a client that sends them one byte every few seconds may take for
ever, but its child has touched no file by then.

In `Session`, `WF_vars(ServeCall)`: a connection is accepted and its child
scheduled; the child comes to its answer, as EventStore's
`EveryRequestAnswered` shows, and the client it is for reads it while it waits;
`WF_vars(Await(c))`: `SO_RCVTIMEO` bounds every read of a client, so a client
that waits gets an answer, tries again or gives up. Users owe nothing, the
network owes nothing (no datagram need arrive), nor does the parent.

## 4. What is proved

Eight modules of theorems, for any number of clients, children, users, events,
seats, requests and commands, and any clock. A theorem assumes what the modules
it is about assume of their constants (`ASSUME`, evaluated by TLC in every run),
and a hypothesis of its own where the table says so.

| Theorem | States | Under |
|---|---|---|
| `TypeCorrect` | `TypeOK`: EIDs never pass `MaxEvents` | any faults |
| `ResNeverAboveCapacity` | `ResWithinCapacity` | any faults |
| `ResNeverUnbacked` | `ResBacked` | any faults |
| `EidsAreFresh` | `FreshEid` | any faults |
| `ConfirmedWhole` | `ConfirmedIsWhole` | any faults |
| `NoLateAccept` | `NoAcceptWhenOver` | any faults |
| `ReadableAtRest` | `RestReadable` | no write error, no crash |
| `CountAtRest` | `RestCount` | `OneAtATime` |
| `NeverOverbookedInTurn` | `NoOverbooking` | `OneAtATime` |
| `AcceptedFiled` | `AcceptedIsFiled` | `OneAtATime` |
| `AcceptedListed` | `AcceptedIsListed` | `OneAtATime` |
| `ConfirmedShown` | `ConfirmedIsShown` | no write error, no crash |
| `FilesImplementSeats` | `ImplementsSeats` | `OneAtATime`, `NoMyEvents` |
| `AccountsTyped` | `TypeOK` of Accounts | any faults |
| `LoginIsBacked` | `LoginBacked` | any faults |
| `StaleIsRefused` | `StalePasswordIsRefused` | any faults |
| `FiledIsLatest` | `PasswordIsLatest` | any faults |
| `AccountsImplementDirectory` | `ImplementsDirectory` | no write error, no crash, `InTurn` |
| `MonthsAreRight`, `ComparedInOrder`, `PastIsPast` | `DateTime.cpp` agrees with the calendar | dates of any year |
| `SessionTyped` | `SessionTypeOK` | |
| `LoggedInGranted` | `LoggedInAsGranted` | |
| `CreatedOnce` | `OneEventPerCreate` | |
| `DatesAhead` | `CreatedIsUpcoming` | |
| `SentWell` | `RequestsAreWellFormed` | |
| `AnswersUnderstood` | `AnswersAreUnderstood` | no create of another program names an owner whose UID starts with zeros |
| `ClientsInStep` | `InStep` | other programs send no login, logout, unregister or changePass |

`OneAtATime` is `MaxActive <= 1` without write errors and crashes: one connection
is open at a time, while the parent may answer datagrams. The hypotheses are
needed: `Overbooked` refutes `NoOverbooking`, and `EmptyAccept`
`AcceptedIsFiled`, as soon as a second child runs; a crash between truncation
and write leaves RES empty for good. `NoMyEvents` says that no one asks for
myevents: that request, served by the parent, closes events that have passed and
may do so between two steps of a reservation, which `Seats` has no step for. The
requests of `OneByOne`, which checks `ImplementsSeats` too, have no myevents.

The assumptions of `EventStore`: the server is not a child, capacities are
positive, requests are well-formed, and the messages that have no place for an
EID carry none (`EidAssumption`). Those of `Session`: `NoOne` is nobody's
name, the bounds are numbers and `MaxEvents` at most the 999 of the code, the
clock shows dates of the calendar after the year 0 (`SessionClock`), and where a
create has the year, the attendance and the size and a reserve the number of
seats there are integers, of any size and sign (`SessionNumbers`; what does not
spell a number is refused by either parser).

The hypotheses of the three theorems that follow from a longer argument are
needed as well. A crash after a reservation has emptied its user's file, or a
write to it that fails, leaves `myreservations` an entry it cannot read, although
an earlier reservation with the same name was confirmed. A foreign create may
carry the name of a user whose UID starts with zeros; `show` then prints an owner
of fewer than six digits, which the client's parser refuses (section 5). And a
login or an unregister that another program sends in a user's name changes what
the server has of the user behind the client's back.

**RES** (`EventStoreProofs`). Neither bound on RES is inductive, because a
process writes a sum it computed from an earlier read. `SeatInv` adds what such
a process is sure of: from the read to the write, `got + people` is at most the
capacity (`Sure`), and from the moment the reservation is filed it is at most
`stored`; before that, `got` alone is. `stored` only grows, and `got` is not
touched between read and write, so no step of another process breaks it. The
steps that leave files alone and only move a process are handled by one lemma,
the five steps of a reservation one by one, the rest together.

**EIDs.** `FreshEid` says nothing of the time before a create makes its
directory. `EidInv` adds that the counter, while it holds a number, is not below
any directory or any EID on its way to one; and that a process between truncation
and write is alone there, finds the file empty, and has an EID above them all
(`Counting`). A crash in between leaves the file empty for good, which keeps the
invariant because `Allocate` then gives out nothing. Every other step takes no
EID (`TakesNone`), which one lemma shows to be enough.

**The life of an event** (`EventLifeProofs`). A confirmed event is whole because
only its own create removes files, and does so only before it answers. `LifeInv`
says what a create has made by each of its steps (`Built`) and has not before it
begins or after it fails (`NotStarted`), that EIDs are given once and in
ascending order (`GivenOnce`), and that events without a create of this run are
left alone (`Preserved`). `OverInv` follows a reservation that came too late: what
made its event over is found by a check still ahead of it (`TurnedAway`), because
END is never removed, time does not go back and START of a withdrawn event does
not return. `ReadableInv` says that an event's RES is empty only while a process
is at its `resWrite`, and that who writes to an unlinked RES does so for a create
that has failed.

**One connection at a time** (`SeatsProofs`). `CountInv`: one process is active,
nothing is orphaned, and RES differs from `stored` only while that process is
between filing the reservation and writing RES, by the seats it is booking.
`FiledInv` and `ListedInv` follow the two files of a reservation; a later
reservation of the same second may overwrite the user's copy, which
`AcceptedIsListed` allows. For the refinement, `OpenInv` says that nobody closes
an event behind a reservation's back, and each step of the files is a step of
`Seats` or changes nothing that `Seats` sees.

**What myreservations tells** (`ReservationProofs`). The answer is put together
name by name while others reserve. `ToldInv` has three parts. `FilesInv`: a file
kept with an event was put there by a reservation that took its name, and what
such a reservation wrote for its user stays, unless two reservations take one
name (`Contested`), the exception of the property. `Owing`: what was confirmed
when the request came is in place. `Telling`: while the names are read, each file
owed has been found, is still to come, or is older than `MaxListed` that have been
found or are still to come (`Underway`); that the newest are read, and no more
than `MaxListed`, then gives the property. That a set of times has a newest and
an oldest member is an induction, which the provers cannot do; `SmallestNumber`
gets it from the well-foundedness of `<` instead, a fact of the library.

**Accounts** (`AccountsProofs`). `Explained`: what is on file was confirmed or is
that of a registration whose login file comes next. `Younger`: who confirms
without writing in the same step (the second step of a registration, a password
written to a file that unregister has unlinked, the second unlink) finds on file
nothing that was already on file when it came, since it takes the place of
whatever was confirmed before. `BlankInv`: an empty password file is being
written, or will stay empty after a crash or a short write. `ShutInv`: a request
whose password was hopeless when it came does not pass the check, because nobody
on the way to writing (`Writing`) has that password.

`AccountsImplementDirectory` closes the gap between `Accounts` and `Session`, whose
server takes a request of `operations.cpp` in one step. `TurnInv` says that what a
request has seen is still so when it acts on it (`Safe`): the password that
matched is on file until the request itself changes it, a login file that was
there is there, an account that was missing is missing. Only a request of the same
user could change that, and there is none (`Alone`). It also says that an empty
password file is about to be written, so that no check ever finds one. Each step
is then one of four: a check that goes on (`CheckShows`) and a step that puts on
file what has been decided (`FilingShows`) change nothing that shows; a check that
decides the answer (`ReadShows`) and the first change (`ChangeShows`) serve the
request, with one of the results that `Directory` gives it (`Results`). Without
`InTurn` the run finds a counterexample: a close that comes during a registration
finds the directory and an empty password file, and is answered as if the file
could not be read.

**Calendar** (`CalendarProofs`). The test for leap years is the difference of two
counts of leap days; months follow each other and make up the year; so the number
of a day grows with year, month and day, and the comparison field by field is that
of instants. Z3 decides the divisions by 4, 100 and 400.

**Session** (`SessionProofs`, `RequestProofs`). `OnceInv`: a connection is served
once, and its client still waits for the same request if it waits at all. For
`LoggedInAsGranted` the invariant is `Alone`: while every login of a client has
ended with its own answer, the network holds one packet at most of one login,
either the request it waits for or the answer to it, and an answer that lets in
was granted. A login that ends otherwise leaves its packets behind, which may be
taken for another's answer: from then on the client is in `late` and `Alone`
promises nothing. For `OneEventPerCreate`, `EventInv` says that a call still
waiting to be served has made no event. For the last two theorems `MadeInv` says
of every request under way that the server's parser has nothing against it but
the UID and the clock (`Made`); the calendar's theorems then connect `isPast`, at
both ends, to the dates.

For `AnswersAreUnderstood`, an answer is the word of a result followed by
details, and the lemma for it goes through the results of each request
(`Decided`), the word each has in the handler's table, and the shape of what
follows: nothing, an EID of three digits, a number of seats, a list, the fields of
an event. `AnswerInv` keeps what these need: every event created has the name, the
dates, the sizes and the owner that `parse_create_request` let through (`Filed`),
and every call under way has the fields its own parser asked for (`Named`). For
`InStep`, `StepInv` says of every client, as long as nobody has waited in vain,
that one packet at most of it is under way (`Together`): before the server has
dealt with the request the two sides agree (`Agrees`), and once it has, they agree
in what the client will hold after the answer (`Learning`). The server's step is
the one that matters (`Dealt`): the request is about a user as whom this client
has been let in, so that for everyone else the accounts stay as they were.

The proof of `AnswersAreUnderstood` found that the model compared the owner of an
event and the sender of a close as words, where `get_event_creator` compares
numbers (`Database.cpp:289`), and that nothing kept `MaxEvents` within the three
digits of an EID; both are now as in the source.

The attempt to prove `LoggedInAsGranted` found that it had been false as it
stood. Its history variable then counted only logins that waited in vain, and
the counterexample needs a fourth command, one more than the run had: a logout
is sent twice; the answer to the second is taken for that of the next login; the
login after that, with a wrong password, takes the OK the former should have had.
`late` now counts the client from the moment a login takes a foreign answer, and
the theorem holds for any number of commands. Likewise `isAfter` is now an
`IF`/`ELSE IF` as in the source, for a `CASE` with overlapping guards lets the
prover choose any of them, and the two events of `OneEventPerCreate` are those of
clients, since the calls of other programs all have the same mark.

Only model-checked, and left to TLC: liveness (`EveryRequestAnswered`,
`EveryCommandReturns`), which is beyond TLAPS. Every safety property of the
passing runs is a theorem.

## 5. What the runs show of the code

* The seat count is read under one lock and written under another
  (`Database.cpp:817`, `853`). Overlapping reservations overbook (`Overbooked`)
  or lose an update; RES errs downwards only (`ResBacked`), and is exact when
  requests come one at a time (`RestCount` in `OneByOne`).
* `operations.cpp:246` takes `remaining_seats == 0` for success (`EmptyAccept`).
* A client that stops reading the answer to show or list keeps its child for
  ever, and a show's the shared lock of the description
  (`command_handler.cpp:354`, no `SO_SNDTIMEO`). It holds up nobody else
  (`Answered`).
* A short write hangs the handler and whoever needs the file (`FullDisk`).
* An account can come back after unregister (`Unregistered`).
* A lost answer to unregister leaves the client logged in to an account that
  does not exist (`StuckSession`, `api.cpp:161`); the same happens after a lost
  answer to logout, which is answered NOK the second time. Logging in is refused
  then (it needs `logged_in` false), logout fails, and exit is refused.
* Any datagram is taken for the answer. If a login waited in vain, or took the
  late answer to another request, its own answer may later be taken for that of a
  login with another password: the client then keeps a password that was not
  accepted. `LoggedInAsGranted` and `InStep` hold for clients to which this has
  not happened, hence `late` and `trouble`. `InStep` asks that nobody at all has
  waited in vain: a client that believes, after a foreign answer, that it is
  logged in as another user can log that user out at the server.
* `RCE NOK` (no free EID) passes `parse_create_response`, but `er_create` has no
  case for it and reports an invalid status; the exception is written out in
  `AnswersAreUnderstood`.
* An impossible date is read as 00-00-0000 and not refused as such; it counts as
  past, which is why `CreatedIsUpcoming` holds all the same.
* A UID typed with leading zeros is sent without them and refused by the server's
  parser (`RequestsAreWellFormed` exempts it).
* A crash or a full disk while the counter is written means that no event can be
  created any more: `Allocate` finds the file empty (`EidsAreFresh` shows that at
  least no EID is given twice).
* Seen in the models, with no run of their own: a show during the upload sends
  a part of the description; a listing during a create calls the event
  corrupted; two reservations of a user within a second share a file name in
  RESERVED; a crash in a write leaves RES or a password file empty for good; a
  creator whose UID starts with 0 is not recognised, because the UID is turned
  into a number and back.
* Seen while reading, below what the models tell apart: `is_valid_event_name` and
  `is_valid_file_name` do not look at the last character (`util.cpp:37`, `45`);
  the `&&` at `client/parser.cpp:332` and `504` should be `||`; `parse_command`
  takes the wrong place for the arguments when a line starts with spaces
  (`client/parser.cpp:85`); `receive_udp_message` writes one byte past its buffer
  when a datagram fills it.

## 6. Not modelled

Text formats, the characters of a field, printing, socket set-up, `-v` output,
environment errors other than short writes and failing reads (no permission, no
inodes, failed fork). A file's bytes: the description is absent, partial or
complete. The contents of END (its time is never read), and of a reservation
file that two processes of one user write in the same second, where the tail of
the longer text may remain. Partial TCP reads and their timeout appear only as
outcomes (`Upload`, `Newline`, `GiveUp`); a message is never cut, so the 4096
bytes of a UDP buffer are not a limit here. The byte after the three digits that
`read_eid` passes to `atoi`. Directory scans are snapshots. What `er_show` saves
under `Events_Info`. The setters, `nextSecond` and `nextMinute` of `DateTime`,
which nothing calls.

## 7. Plan

1. Two clients with one account, and a network that copies datagrams.
2. `DirectoryService` with overlapping requests of one user: which of them still
   are as good as one step each, and what the others may answer.
