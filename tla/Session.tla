------------------------------ MODULE Session -------------------------------
(***************************************************************************)
(* Users at their clients (src/src/client/main.cpp, commands.cpp, api.cpp, *)
(* Client.cpp), the network, and the server as they see it: every request  *)
(* in one step (Directory).                                                *)
(*                                                                         *)
(* A client runs one command at a time.  For a datagram it makes up to     *)
(* UDP_RETRIES attempts, each ended by a timeout, and takes the first      *)
(* datagram that comes for the answer.  For a call it opens a connection,  *)
(* sends the request once, and gives up after TCP_TIMEOUT.                 *)
(*                                                                         *)
(* Datagrams are lost (never taken), delayed and reordered: both ways the  *)
(* network holds a bag and any member may be next.                         *)
(***************************************************************************)
EXTENDS Directory, CommandParser, RequestParser, Bags

CONSTANTS
    Client,
    NoOne,          \* the uid and password of a client before its first login
    Lines,          \* the lines users type
    Strays,         \* calls of programs other than these clients
    Instants,       \* the readings of the clock, in order
    UDP_RETRIES,
    SendBuffer,     \* bytes a connection takes before the server reads any
    MaxEvents,      \* 999 in the program
    MaxCommands     \* requests of a client, in this model

ASSUME SessionNames == NoOne \notin User \cup Password \cup Client
ASSUME SessionBounds == /\ UDP_RETRIES \in Nat \ {0} /\ MaxEvents \in 0..999 /\ MaxCommands \in Nat
                        /\ Len(Instants) \in Nat \ {0} /\ SendBuffer \in Nat

\* The clock shows dates of the calendar, and in the words of a create or a
\* reserve that spell numbers there are numbers, of any size and sign.
ASSUME SessionClock == \A i \in 1..Len(Instants) : IsDate(Instants[i]) /\ Instants[i].year > 0
ASSUME SessionNumbers ==
    /\ \A line \in Lines : line[1] = "create" /\ Len(Tail(line)) = 5 =>
          Tail(line)[3][3] \in Int /\ Tail(line)[5] \in Int
    /\ \A line \in Lines : line[1] = "reserve" /\ Len(Tail(line)) = 2 => Tail(line)[2] \in Int
    /\ \A w \in Strays : w[1] = "CRE" /\ Len(w) = 9 =>
          w[5][3] \in Int /\ w[7] \in Int /\ w[9] \in Int

VARIABLES
    clock,      \* index of the current reading in Instants
    created,    \* the events, by EID
    at,         \* where each client is
    session,    \* what each client keeps of its login (CLArgs)
    doing,      \* the request each client has sent and waits for
    attempt,    \* how many times it has sent it
    n,          \* how many requests it has made
    datagrams,  \* requests the network holds
    replies,    \* and the answers to them
    calls,      \* connections with a request nobody has served
    answers,    \* answers on connections
    granted,    \* history: logins and new passwords the server confirmed
    late,       \* history: clients a login of which ended without its answer
    trouble,    \* history: clients that waited in vain for any answer
    without     \* history: clients that were told their user has no account

network == <<datagrams, replies, calls, answers>>
client == <<at, session, doing, attempt, n>>
history == <<granted, late, trouble, without>>
vars == <<clock, directory, created, client, network, history>>

Now == Instants[clock]
Start == [logged_in |-> FALSE, uid |-> NoOne, pass |-> NoOne]

\* A client waits for one thing at most, knows whom it serves, and has made
\* no more attempts than it may.
SessionTypeOK ==
    /\ DirectoryTypeOK
    /\ clock \in 1..Len(Instants)
    /\ Len(created) <= MaxEvents
    /\ at \in [Client -> {"prompt", "udp", "tcp", "gone"}]
    /\ \A c \in Client : session[c] = Start
          \/ session[c] \in [logged_in : BOOLEAN, uid : {Numeral[u] : u \in User}, pass : Password]
    /\ attempt \in [Client -> 0..UDP_RETRIES]
    /\ n \in [Client -> 0..MaxCommands]
    /\ \A a \in answers : at[a.of] = "tcp" /\ n[a.of] = a.n
    /\ \A c \in Client : at[c] \in {"udp", "tcp"} => doing[c][1] \in OpCodes

Init ==
    /\ clock = 1
    /\ DirectoryInit
    /\ created = <<>>
    /\ at = [c \in Client |-> "prompt"]
    /\ session = [c \in Client |-> Start]
    /\ doing = [c \in Client |-> <<>>]
    /\ attempt = [c \in Client |-> 0]
    /\ n = [c \in Client |-> 0]
    /\ datagrams = EmptyBag /\ replies = EmptyBag /\ calls = {} /\ answers = {}
    /\ granted = {} /\ late = {} /\ trouble = {} /\ without = {}

-----------------------------------------------------------------------------
(***************************************************************************)
(* The prompt: the request, if any, that each command sends.               *)
(***************************************************************************)
is_logged_in(s) == s.logged_in

handle_login(s, args) ==
    IF ~s.logged_in /\ parse_login(args) THEN {loginRequest(args)} ELSE {}
handle_changePass(s, args) ==
    IF is_logged_in(s) /\ parse_changePass(args) THEN {changePassRequest(s.uid, args)} ELSE {}
handle_unregister(s, args) ==
    IF is_logged_in(s) /\ parse_unregister(args) THEN {unregisterRequest(s.uid, s.pass)} ELSE {}
handle_logout(s, args) ==
    IF is_logged_in(s) /\ parse_logout(args) THEN {logoutRequest(s.uid, s.pass)} ELSE {}
handle_create(s, args) ==
    IF is_logged_in(s) /\ parse_create(args, Now) THEN {createRequest(s.uid, s.pass, args)} ELSE {}
handle_close(s, args) ==
    IF is_logged_in(s) /\ parse_close(args) THEN {closeRequest(s.uid, s.pass, args)} ELSE {}
handle_myevents(s, args) ==
    IF is_logged_in(s) /\ parse_myevents(args) THEN {myeventsRequest(s.uid, s.pass)} ELSE {}
handle_list(args) == IF parse_list(args) THEN {listRequest} ELSE {}
handle_show(args) == IF parse_show(args) THEN {showRequest(args)} ELSE {}
handle_reserve(s, args) ==
    IF is_logged_in(s) /\ parse_reserve(args) THEN {reserveRequest(s.uid, s.pass, args)} ELSE {}
handle_myreservations(s, args) ==
    IF is_logged_in(s) /\ parse_myreservations(args)
    THEN {myreservationsRequest(s.uid, s.pass)} ELSE {}

\* A datagram to or from client c.
Packet(c, w) == SetToBag({[of |-> c, text |-> w]})

\* The request a line leads to.  help and what is no command lead to none;
\* exit is an action of its own.  At the end of its input a client finds the
\* last line in its buffer again, which is the same as typing it again.
Sends(c, line) ==
    LET command == get_command(line[1])
        args == Tail(line)
        s == session[c]
    IN  CASE command = "login" -> handle_login(s, args)
          [] command = "changePass" -> handle_changePass(s, args)
          [] command = "unregister" -> handle_unregister(s, args)
          [] command = "logout" -> handle_logout(s, args)
          [] command = "create" -> handle_create(s, args)
          [] command = "close" -> handle_close(s, args)
          [] command = "myevents" -> handle_myevents(s, args)
          [] command = "list" -> handle_list(args)
          [] command = "show" -> handle_show(args)
          [] command = "reserve" -> handle_reserve(s, args)
          [] command = "myreservations" -> handle_myreservations(s, args)
          [] OTHER -> {}

Type(c) ==
    /\ at[c] = "prompt" /\ n[c] < MaxCommands
    /\ \E line \in Lines : \E w \in Sends(c, line) :
         /\ doing' = [doing EXCEPT ![c] = w]
         /\ n' = [n EXCEPT ![c] = @ + 1]
         /\ attempt' = [attempt EXCEPT ![c] = 1]
         /\ \/ /\ w[1] \in Datagrams
               /\ at' = [at EXCEPT ![c] = "udp"]
               /\ datagrams' = datagrams (+) Packet(c, w)
               /\ UNCHANGED calls
            \/ /\ w[1] \notin Datagrams
               /\ at' = [at EXCEPT ![c] = "tcp"]
               /\ calls' = calls \cup {[of |-> c, n |-> n[c] + 1, text |-> w]}
               /\ UNCHANGED datagrams
    /\ UNCHANGED <<clock, directory, created, session, replies, answers, history>>

\* A line that is refused, or asks for nothing, changes nothing.
Refuse(c) ==
    /\ at[c] = "prompt"
    /\ {line \in Lines : /\ Sends(c, line) = {}
                          /\ get_command(line[1]) = "exit" => session[c].logged_in} # {}
    /\ UNCHANGED vars

handle_exit(c) ==
    /\ at[c] = "prompt" /\ ~session[c].logged_in
    /\ \E line \in Lines : get_command(line[1]) = "exit" /\ parse_exit(Tail(line))
    /\ at' = [at EXCEPT ![c] = "gone"]
    /\ UNCHANGED <<clock, directory, created, session, doing, attempt, n, network, history>>

-----------------------------------------------------------------------------
(***************************************************************************)
(* The server.                                                             *)
(***************************************************************************)
Number == 1..Len(created)
Own(u) == {e \in Number : created[e].owner = u}
State == {EVENT_IN_PAST, EVENT_ACCEPTING, EVENT_SOLD_OUT, EVENT_CLOSED, EVENT_CORRUPTED}
Fault == IF ReadsMayFail THEN {"IO_ERROR"} ELSE {}

\* What list says of event e in state s.
Entry(e, s) ==
    IF s = EVENT_CORRUPTED THEN <<e, "-1", s, DateWord(Zero), TimeWord(Zero)>>
    ELSE <<e, created[e].name, s, created[e].date, created[e].time>>

\* The results request w may have.  What becomes of an event and its seats is
\* EventStore's matter: here a request that needs them ends in any way it can.
Result(w) ==
    CASE ~parse_request(w, Now) -> {"UNREADABLE"}
      [] OTHER ->
    CASE w[1] = "LIN" -> LoginResult(w[2], w[3])
      [] w[1] \in {"LOU", "UNR"} -> LeaveResult(w[2], w[3])
      [] w[1] = "CPS" -> ChangePassResult(w[2], w[3])
      [] w[1] = "LME" -> Admission(w[2], w[3], IF Own(w[2]) = {} THEN {"NO_EVENTS_CREATED"}
                                               ELSE {"SUCCESS"})
      [] w[1] = "LMR" -> Admission(w[2], w[3], {"NO_RESERVATIONS_MADE", "SUCCESS"})
      [] w[1] = "CRE" -> Admission(w[2], w[3], Fault \cup IF Len(created) = MaxEvents
                                               THEN {"FAILED_CREATE"} ELSE {"SUCCESS"})
      [] w[1] = "CLS" -> CloseAdmission(w[2], w[3], Fault \cup
                            CASE w[4] \notin Number -> {"EVENT_DOES_NOT_EXIST"}
                              [] w[4] \in Number /\ Numeral[created[w[4]].owner] # w[2]
                                 -> {"NOT_CREATED_BY_USER"}
                              [] OTHER -> {"SUCCESS", "SOLD_OUT", "ALREADY_PASSED", "ALREADY_CLOSED"})
      [] w[1] = "LST" -> IF created = <<>> THEN {"NO_EVENT_CREATED"} ELSE {"SUCCESS"}
      [] w[1] = "SED" -> IF w[2] \in Number
                         THEN {"SUCCESS"} \cup IF ReadsMayFail THEN {"ERROR"} ELSE {}
                         ELSE {"ERROR"}
      [] w[1] = "RID" -> Admission(w[2], w[3], IF w[4] \notin Number THEN {"EVENT_NOT_ACTIVE"}
                            ELSE Fault \cup {"SUCCESS", "SOLD_OUT", "EVENT_PASSED", "ALREADY_CLOSED"}
                                   \cup IF w[5] > 1 THEN {"TOO_MANY_SEATS"} ELSE {})

\* The words behind the status.  A list of events is indexed by their EIDs, in
\* whose order the server sends it.
Details(w, r) ==
    CASE r = "SUCCESS" /\ w[1] = "CRE" -> {<<Len(created) + 1>>}
      [] r = "SUCCESS" /\ w[1] = "LME" ->
            {<<[e \in Own(w[2]) |-> <<e, s>>]>> : s \in State}
      [] r = "SUCCESS" /\ w[1] = "LMR" -> {<< <<x>> >> : x \in
            {Unread, <<MaxEvents, DateWord(Now), TimeWord(Now), MAX_SEATS>>}}
      [] r = "SUCCESS" /\ w[1] = "LST" -> {<<[e \in Number |-> Entry(e, s)]>> : s \in State}
      [] r = "SUCCESS" /\ w[1] = "SED" -> LET e == created[w[2]] IN
            {<<Numeral[e.owner], e.name, e.date, e.time, e.attend, seats, e.file, e.size>> :
                seats \in {0, e.attend}}
      [] r = "TOO_MANY_SEATS" -> {<<seats>> : seats \in {1, w[5] - 1}}
      [] OTHER -> {<<>>}

\* What request w, the k-th of its client, does with result r.
Perform(w, k, r) ==
    /\ CASE r = "UNREADABLE" -> UNCHANGED directory
         [] OTHER ->
       CASE w[1] = "LIN" -> login(w[2], w[3], r)
         [] w[1] = "LOU" -> logout(w[2], r)
         [] w[1] = "UNR" -> unregister(w[2], r)
         [] w[1] = "CPS" -> changePass(w[2], w[4], r)
         [] OTHER -> UNCHANGED directory
    /\ created' = IF w[1] = "CRE" /\ r = "SUCCESS"
                  THEN Append(created, [owner |-> w[2], name |-> w[4], date |-> w[5],
                                        time |-> w[6], attend |-> w[7], file |-> w[8],
                                        size |-> w[9], by |-> k, when |-> Now])
                  ELSE created

\* The parent serves a datagram.
ServeDatagram ==
    \E m \in BagToSet(datagrams) : LET w == m.text IN
        \E r \in Result(w) :
            /\ Perform(w, <<m.of, 0>>, r)
            /\ \E words \in Details(w, r) :
                 replies' = replies (+) Packet(m.of, IF get_udp_command(w[1]) = "ERR" THEN <<"ERR">>
                                                     ELSE Answer(w[1], r, words))
            /\ datagrams' = datagrams (-) SetToBag({m})
            /\ granted' = IF w[1] = "LIN" /\ r \in {"SUCCESS", "REGISTERED"}
                          THEN granted \cup {<<m.of, w[2], w[3]>>} ELSE granted
            /\ UNCHANGED <<clock, client, calls, answers, late, trouble, without>>

Waiting(m) == at[m.of] = "tcp" /\ n[m.of] = m.n

\* A child serves a connection, whether or not the client still listens.
ServeCall ==
    \E m \in calls : \E r \in Result(m.text) :
        /\ Perform(m.text, <<m.of, m.n>>, r)
        /\ \E words \in Details(m.text, r) :
             answers' = IF Waiting(m)
                        THEN answers \cup
                           {[m EXCEPT !.text = IF get_tcp_command(m.text[1]) = "ERR" THEN <<"ERR">>
                                               ELSE Answer(m.text[1], r, words)]}
                        ELSE answers
        /\ calls' = calls \ {m}
        /\ granted' = IF m.text[1] = "CPS" /\ r = "SUCCESS"
                      THEN granted \cup {<<m.of, m.text[2], m.text[4]>>} ELSE granted
        /\ UNCHANGED <<clock, client, datagrams, replies, late, trouble, without>>

\* Another program calls.
Stray ==
    /\ \E w \in Strays : \E r \in Result(w) : Perform(w, <<NoOne, 0>>, r)
    /\ UNCHANGED <<clock, client, network, history>>

-----------------------------------------------------------------------------
(***************************************************************************)
(* Waiting for the answer.                                                 *)
(***************************************************************************)
(***************************************************************************)
(* Slips: the client does not keep the password it has set; it keeps it    *)
(* whatever the server answers.                                            *)
(***************************************************************************)
LearnSlip(s, request, status) ==
    CASE request[1] = "LIN" /\ status \in {"OK", "REG"} ->
            [logged_in |-> TRUE, uid |-> request[2], pass |-> request[3]]
      [] request[1] \in {"LOU", "UNR"} /\ status = "OK" -> [s EXCEPT !.logged_in = FALSE]
      [] OTHER -> s

LearnAlwaysSlip(s, request, status) ==
    CASE request[1] = "LIN" /\ status \in {"OK", "REG"} ->
            [logged_in |-> TRUE, uid |-> request[2], pass |-> request[3]]
      [] request[1] \in {"LOU", "UNR"} /\ status = "OK" -> [s EXCEPT !.logged_in = FALSE]
      [] request[1] = "CPS" -> [s EXCEPT !.pass = request[4]]
      [] OTHER -> s

\* What the client keeps of the answer to its request.
Learn(s, request, status) ==
    CASE request[1] = "LIN" /\ status \in {"OK", "REG"} ->
            [logged_in |-> TRUE, uid |-> request[2], pass |-> request[3]]
      [] request[1] \in {"LOU", "UNR"} /\ status = "OK" -> [s EXCEPT !.logged_in = FALSE]
      [] request[1] = "CPS" /\ status = "OK" -> [s EXCEPT !.pass = request[4]]
      [] OTHER -> s

Return(c, status) ==
    /\ at' = [at EXCEPT ![c] = "prompt"]
    /\ session' = [session EXCEPT ![c] = Learn(@, doing[c], status)]
    /\ doing' = [doing EXCEPT ![c] = <<>>]
    /\ attempt' = [attempt EXCEPT ![c] = 0]
    /\ without' = CASE doing[c][1] = "UNR" /\ status \in {"OK", "UNR"} -> without \cup {c}
                    [] doing[c][1] = "LIN" /\ status \in {"OK", "REG"} -> without \ {c}
                    [] OTHER -> without
    /\ UNCHANGED <<clock, directory, created, n, datagrams, calls, granted>>

\* Any datagram is taken for the answer.
Receive(c) ==
    /\ at[c] = "udp"
    /\ \E r \in BagToSet(replies) :
         /\ r.of = c
         /\ Return(c, Heard(doing[c][1], r.text))
         /\ replies' = replies (-) SetToBag({r})
         /\ late' = IF doing[c][1] = "LIN" /\ r.text[1] # Response["LIN"]
                    THEN late \cup {c} ELSE late
    /\ UNCHANGED <<answers, trouble>>

Vain(c) ==
    /\ trouble' = trouble \cup {c}
    /\ late' = IF doing[c][1] = "LIN" THEN late \cup {c} ELSE late

(***************************************************************************)
(* Slips: one attempt too many; the last attempt has no timeout, so that   *)
(* the client waits on; a call is made again after its timeout, as a       *)
(* datagram is sent again.                                                 *)
(***************************************************************************)
RetrySlip(c) ==
    /\ at[c] = "udp" /\ attempt[c] <= UDP_RETRIES
    /\ attempt' = [attempt EXCEPT ![c] = @ + 1]
    /\ datagrams' = datagrams (+) Packet(c, doing[c])
    /\ Vain(c)
    /\ UNCHANGED <<clock, directory, created, at, session, doing, n, replies, calls, answers, granted,
                   without>>

DesistSlip(c) == at[c] = "udp" /\ attempt[c] = UDP_RETRIES /\ UNCHANGED vars

GiveUpSlip(c) ==
    /\ at[c] = "tcp"
    /\ calls' = calls \cup {[of |-> c, n |-> n[c], text |-> doing[c]]}
    /\ Vain(c)
    /\ UNCHANGED <<clock, directory, created, client, datagrams, replies, answers, granted, without>>

\* No answer within UDP_TIMEOUT: the request is sent again, or given up.
Retry(c) ==
    /\ at[c] = "udp" /\ attempt[c] < UDP_RETRIES
    /\ attempt' = [attempt EXCEPT ![c] = @ + 1]
    /\ datagrams' = datagrams (+) Packet(c, doing[c])
    /\ Vain(c)
    /\ UNCHANGED <<clock, directory, created, at, session, doing, n, replies, calls, answers, granted,
                   without>>

Desist(c) ==
    /\ at[c] = "udp" /\ attempt[c] = UDP_RETRIES
    /\ Return(c, "no response")
    /\ Vain(c)
    /\ UNCHANGED <<replies, answers>>

ReadAnswer(c) ==
    /\ at[c] = "tcp"
    /\ \E a \in answers :
         /\ a.of = c
         /\ Return(c, Heard(doing[c][1], a.text))
         /\ answers' = answers \ {a}
    /\ UNCHANGED <<replies, late, trouble>>

\* A file larger than the buffers is still being written until a child reads
\* it, and writing has no timeout.
Uploading(c) ==
    doing[c][1] = "CRE" /\ doing[c][9] > SendBuffer /\ \E m \in calls : Waiting(m) /\ m.of = c

\* No answer within TCP_TIMEOUT.  What has been sent will be served.
GiveUp(c) ==
    /\ at[c] = "tcp" /\ ~Uploading(c)
    /\ Return(c, "no response")
    /\ answers' = {a \in answers : a.of # c}
    /\ Vain(c)
    /\ UNCHANGED replies

-----------------------------------------------------------------------------
Tick ==
    /\ clock < Len(Instants)
    /\ clock' = clock + 1
    /\ UNCHANGED <<directory, created, client, network, history>>

\* What a client that waits does in the end: a timeout bounds each read.
Await(c) == Receive(c) \/ Retry(c) \/ Desist(c) \/ ReadAnswer(c) \/ GiveUp(c)

Next ==
    \/ Tick \/ ServeDatagram \/ ServeCall \/ Stray
    \/ \E c \in Client : Type(c) \/ Refuse(c) \/ handle_exit(c) \/ Await(c)

Spec == Init /\ [][Next]_vars

\* Children are scheduled and finish; clients' reads end.  Users owe nothing,
\* nor does the network, nor the parent.
FairSpec == Spec /\ WF_vars(ServeCall) /\ \A c \in Client : WF_vars(Await(c))
-----------------------------------------------------------------------------
\* A client is logged in only with a name and password for which the server
\* let it in, or to which it has changed the password, unless one of its
\* logins waited in vain or took the answer to another request for its own:
\* then its late answer may be taken for that of a login with another password.
LoggedInAsGranted ==
    \A c \in Client : session[c].logged_in /\ c \notin late =>
        <<c, session[c].uid, session[c].pass>> \in granted

\* Only c has been let in as u.
OnlyAs(c, u) == \A g \in granted : g[2] = u => g[1] = c

\* If no client has waited in vain for an answer, then at the prompt a client
\* and the server agree who is logged in there, and with which password, as
\* long as nobody else is let in with the same name.
InStep ==
    trouble = {} => \A c \in Client, u \in User :
        at[c] \in {"prompt", "gone"} /\ OnlyAs(c, u) /\ (\E g \in granted : g[2] = u) =>
            /\ (u \in loggedIn) = (session[c].logged_in /\ session[c].uid = u)
            /\ u \in loggedIn => session[c].pass = pass[u]

\* The words of the server are words the client knows for the request they
\* answer, and the fields pass its checks.  Only of a create without a free
\* EID does it not know what to say (api.cpp:369-376).
AnswersAreUnderstood ==
    /\ \A r \in BagToSet(replies) : \A code \in Datagrams :
            r.text[1] \in {Response[code], "ERR", "NOK"}
                => Heard(code, r.text) \notin {"bad message", "invalid status"}
    /\ \A a \in answers : Heard(doing[a.of][1], a.text) \in {"bad message", "invalid status"}
                              => a.text = <<"RCE", "NOK">>

\* What the client lets its user send passes the server's parser, but for a
\* UID with leading zeros, which it cuts off, and a date that has passed on
\* the way.
RequestsAreWellFormed ==
    \A m \in BagToSet(datagrams) \cup calls :
        \/ parse_request(m.text, Now)
        \/ m.text[1] \notin {"LST", "SED"} /\ m.text[2] \notin User
        \/ m.text[1] = "CRE" /\ ~Upcoming(m.text[5], m.text[6], Now)

\* An event has a date of the calendar that had not passed when the server
\* accepted it, although no check tells an impossible date: it is read as
\* 00-00-0000, which passes for a date in the past.
CreatedIsUpcoming ==
    \A e \in Number : LET v == created[e] IN Real(v.date, v.time) /\ Upcoming(v.date, v.time, v.when)

\* One create of a client, one event: whoever gave up waiting has not asked
\* twice.
OneEventPerCreate ==
    \A e, f \in Number :
        created[e].by = created[f].by /\ created[e].by[1] \in Client => e = f

\* Every command comes back to the prompt, whatever is lost.
EveryCommandReturns == \A c \in Client : at[c] \in {"udp", "tcp"} ~> at[c] = "prompt"

\* Once the client has told its user that the account is gone, it does not
\* count the user as logged in ("Performs logout automatically", commands.cpp).
UnregisterLogsOut == \A c \in without : ~session[c].logged_in
=============================================================================
