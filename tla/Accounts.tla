------------------------------ MODULE Accounts ------------------------------
(***************************************************************************)
(* The account half of the server's database: USERS/<uid>/ with its        *)
(* password and login files (src/src/server/Database.cpp), and the         *)
(* requests that read and write them (src/src/server/operations.cpp).      *)
(*                                                                         *)
(* The parent serves login, logout and unregister, one datagram after the  *)
(* other; changePass runs in a forked child, beside the parent and other   *)
(* children.  A request is a route of steps, each one operation on one     *)
(* file.  Every check, read and unlink is one step; a password is written  *)
(* in two, because open(O_CREAT | O_TRUNC) empties or creates the file     *)
(* before its lock is taken.                                               *)
(***************************************************************************)
EXTENDS Integers, Sequences, FiniteSets

CONSTANTS
    Child,          \* forked children; each serves one connection
    Parent,         \* the server process
    User,           \* UIDs
    Password,       \* passwords
    Initial,        \* the password of the users that have registered before
    NoFile,         \* no password file
    Blank,          \* a password file with nothing in it
    Requests,       \* the requests clients send
    WritesMayFail,  \* a write may come up short (full disk)
    MayCrash        \* SIGINT may end all processes, followed by a restart

Proc == Child \cup {Parent}
Datagrams == {"login", "logout", "unregister", "query"}
Connections == {"changePass", "order", "close"}

Request == [op : Datagrams \cup Connections, uid : User, pw : Password, new : Password]

ASSUME AccountProcs == Parent \notin Child
ASSUME AccountRequests == Requests # {} /\ Requests \subseteq Request
ASSUME AccountFiles == /\ NoFile \notin Password /\ Blank \notin Password /\ NoFile # Blank
                       /\ Initial \in [User -> Password \cup {NoFile}]
ASSUME AccountFaults == WritesMayFail \in BOOLEAN /\ MayCrash \in BOOLEAN

VARIABLES
    known,      \* users with a directory under USERS/
    pass,       \* pass[u]: what <uid>_pass.txt holds
    loggedIn,   \* users with a <uid>_login.txt
    orphan,     \* processes whose open password file has been unlinked
    steps,      \* steps[p]: what is left of the request of p
    job,        \* the request each process serves
    reply,      \* its answer; "none" before it
    told,       \* history: told[u]: passwords last confirmed to u
    since,      \* history: since[p]: passwords confirmed since p's request came
    hopeless,   \* history: p's request carries a password not in force
    spoilt      \* history: users whose request a crash or a full disk cut short

files == <<known, pass, loggedIn, orphan>>
history == <<told, since, hopeless, spoilt>>
vars == <<files, steps, job, reply, history>>

(***************************************************************************)
(* The checks and file operations of each request, in the code's order.    *)
(* query stands for myevents and myreservations, order for create and      *)
(* reserve: what they do once admitted is in other files.                  *)
(***************************************************************************)
Route == [login      |-> <<"registered">>,
          enter      |-> <<"password", "createLogin">>,
          register   |-> <<"makeDirs", "openPass", "writePass", "firstLogin">>,
          logout     |-> <<"registered", "session", "password", "dropLogin">>,
          unregister |-> <<"registered", "session", "password", "dropPass", "dropLogin">>,
          changePass |-> <<"directory", "session", "password", "openPass", "writePass">>,
          close      |-> <<"directory", "password", "session">>,
          query      |-> <<"session", "password">>,
          order      |-> <<"session", "password">>]

Step == {"registered", "session", "password", "directory", "makeDirs", "openPass",
         "writePass", "createLogin", "firstLogin", "dropPass", "dropLogin"}
Reply == {"none", "OK", "REG", "UNR", "NID", "NLG", "WRP", "ERROR"}

Suffixes(s) == {SubSeq(s, i, Len(s)) : i \in 1..Len(s) + 1}

\* Every file holds what the code can write to it, and what is left of a
\* request is the end of its route.
TypeOK ==
    /\ known \subseteq User
    /\ pass \in [User -> Password \cup {NoFile, Blank}]
    /\ loggedIn \subseteq User
    /\ orphan \subseteq Proc
    /\ steps \in [Proc -> UNION {Suffixes(Route[o]) : o \in DOMAIN Route}]
    /\ job \in [Proc -> Request]
    /\ reply \in [Proc -> Reply]
    /\ told \in [User -> SUBSET Password]
    /\ since \in [Proc -> SUBSET Password]
    /\ hopeless \in [Proc -> BOOLEAN]
    /\ spoilt \subseteq User

Registered(u) == Initial[u] # NoFile

Init ==
    /\ known = {u \in User : Registered(u)}
    /\ pass = Initial
    /\ loggedIn = {}
    /\ orphan = {}
    /\ steps = [p \in Proc |-> <<>>]
    /\ job = [p \in Proc |-> CHOOSE r \in Requests : TRUE]
    /\ reply = [p \in Proc |-> "none"]
    /\ told = [u \in User |-> {Initial[u]} \ {NoFile}]
    /\ since = [p \in Proc |-> {}]
    /\ hopeless = [p \in Proc |-> FALSE]
    /\ spoilt = {}

-----------------------------------------------------------------------------
op(p) == job[p].op
uid(p) == job[p].uid
Busy(p) == steps[p] # <<>>
At(p, s) == Busy(p) /\ Head(steps[p]) = s

\* The password a request is about to write, or has written but not confirmed.
Writes(p) == {"openPass", "writePass", "firstLogin"} \cap {steps[p][i] : i \in DOMAIN steps[p]} # {}
Written(p) == IF op(p) = "changePass" THEN job[p].new ELSE job[p].pw
InFlight(u) == {Written(p) : p \in {q \in Proc : Writes(q) /\ uid(q) = u}}

(***************************************************************************)
(* What a step does to its own request.                                    *)
(***************************************************************************)
Answer(p, r) ==
    /\ steps' = [steps EXCEPT ![p] = <<>>]
    /\ reply' = [reply EXCEPT ![p] = r]
    /\ UNCHANGED job

Refuse(p, r) == Answer(p, r) /\ UNCHANGED history

\* Confirming a password, or with none an unregister, takes the place of all
\* that was confirmed before the request came.
Confirm(p, passwords) ==
    /\ told' = [told EXCEPT ![uid(p)] = (@ \cap since[p]) \cup passwords]
    /\ since' = [q \in Proc |-> IF Busy(q) /\ uid(q) = uid(p)
                             THEN since[q] \cup passwords ELSE since[q]]
    /\ UNCHANGED <<hopeless, spoilt>>

\* The step is done.  After the last one the answer goes out.
Advance(p) ==
    IF Len(steps[p]) > 1
    THEN steps' = [steps EXCEPT ![p] = Tail(@)] /\ UNCHANGED <<job, reply, history>>
    ELSE /\ Answer(p, IF At(p, "firstLogin") THEN "REG" ELSE "OK")
         /\ CASE At(p, "firstLogin") \/ op(p) = "changePass" -> Confirm(p, {Written(p)})
              [] op(p) = "unregister" -> Confirm(p, {})
              [] OTHER -> UNCHANGED history

\* Requests with this password may be accepted from now on.
Hope(u, pw) == [q \in Proc |-> hopeless[q] /\ ~(uid(q) = u /\ job[q].pw = pw)]

(***************************************************************************)
(* A request arrives.  The parent takes datagrams and connections in turn. *)
(***************************************************************************)
Receive(p, r) ==
    /\ steps' = [steps EXCEPT ![p] = Route[r.op]]
    /\ job' = [job EXCEPT ![p] = r]
    /\ reply' = [reply EXCEPT ![p] = "none"]
    /\ since' = [since EXCEPT ![p] = {}]
    /\ hopeless' = [IF r.op = "changePass" THEN Hope(r.uid, r.new) ELSE hopeless
                       EXCEPT ![p] = r.pw \notin told[r.uid] \cup InFlight(r.uid)]
    /\ UNCHANGED <<files, told, spoilt>>

Datagram == ~Busy(Parent) /\ \E r \in Requests : r.op \in Datagrams /\ Receive(Parent, r)

Accept(c) ==
    /\ ~Busy(Parent)
    /\ ~Busy(c) /\ reply[c] = "none"
    /\ \E r \in Requests : r.op \in Connections /\ Receive(c, r)

(***************************************************************************)
(* Slips: steps as a plausible mistake would make them.  No specification  *)
(* uses them; each shows that a property can tell the mistake.             *)
(***************************************************************************)
\* An empty file is taken for a match, as a comparison of prefixes would.
CheckPasswordSlip(p) ==
    /\ At(p, "password")
    /\ CASE pass[uid(p)] = NoFile -> Refuse(p, "ERROR")
         [] pass[uid(p)] \in {Blank, job[p].pw} -> Advance(p)
         [] OTHER -> Refuse(p, "WRP")
    /\ UNCHANGED files

\* changePass writes the old password back.
WritePassSlip(p) ==
    /\ At(p, "writePass")
    /\ pass' = [pass EXCEPT ![uid(p)] = job[p].pw]
    /\ Advance(p)
    /\ UNCHANGED <<known, loggedIn, orphan>>

\* unregister leaves the login file.
DropLoginSlip(p) ==
    /\ At(p, "dropLogin")
    /\ loggedIn' = IF op(p) = "logout" THEN loggedIn \ {uid(p)} ELSE loggedIn
    /\ Advance(p)
    /\ UNCHANGED <<known, pass, orphan>>

(***************************************************************************)
(* Checks.                                                                 *)
(***************************************************************************)
\* user_registered looks for the password file.  A login without one
\* registers the user.
FindUser(p) ==
    /\ At(p, "registered")
    /\ IF op(p) = "login"
       THEN /\ steps' = [steps EXCEPT ![p] =
                           IF pass[uid(p)] # NoFile THEN Route.enter ELSE Route.register]
            /\ hopeless' = IF pass[uid(p)] # NoFile THEN hopeless ELSE Hope(uid(p), job[p].pw)
            /\ UNCHANGED <<job, reply, told, since, spoilt>>
       ELSE IF pass[uid(p)] # NoFile THEN Advance(p) ELSE Refuse(p, "UNR")
    /\ UNCHANGED files

\* user_exists looks for the directory, which unregister leaves behind.
FindDirectory(p) ==
    /\ At(p, "directory")
    /\ IF uid(p) \in known THEN Advance(p)
       ELSE Refuse(p, IF op(p) = "close" THEN "WRP" ELSE "NID")
    /\ UNCHANGED files

FindSession(p) ==
    /\ At(p, "session")
    /\ IF uid(p) \in loggedIn THEN Advance(p) ELSE Refuse(p, "NLG")
    /\ UNCHANGED files

\* check_password: no file, or nothing to read, is an error.
CheckPassword(p) ==
    /\ At(p, "password")
    /\ CASE pass[uid(p)] \in {NoFile, Blank} -> Refuse(p, "ERROR")
         [] pass[uid(p)] = job[p].pw -> Advance(p)
         [] OTHER -> Refuse(p, "WRP")
    /\ UNCHANGED files

(***************************************************************************)
(* Changes.                                                                *)
(***************************************************************************)
MakeDirs(p) ==
    /\ At(p, "makeDirs")
    /\ known' = known \cup {uid(p)}
    /\ Advance(p)
    /\ UNCHANGED <<pass, loggedIn, orphan>>

OpenPass(p) ==
    /\ At(p, "openPass")
    /\ pass' = [pass EXCEPT ![uid(p)] = Blank]
    /\ Advance(p)
    /\ UNCHANGED <<known, loggedIn, orphan>>

\* What goes to an unlinked file is lost.  A disk with no room for nine
\* bytes takes none of them.
WritePass(p) ==
    /\ At(p, "writePass")
    /\ \/ /\ pass' = IF p \in orphan THEN pass ELSE [pass EXCEPT ![uid(p)] = Written(p)]
          /\ Advance(p)
       \/ /\ WritesMayFail
          /\ Answer(p, "ERROR")
          /\ spoilt' = spoilt \cup {uid(p)}
          /\ UNCHANGED <<pass, told, since, hopeless>>
    /\ orphan' = orphan \ {p}
    /\ UNCHANGED <<known, loggedIn>>

CreateLogin(p) ==
    /\ At(p, "createLogin") \/ At(p, "firstLogin")
    /\ loggedIn' = loggedIn \cup {uid(p)}
    /\ Advance(p)
    /\ UNCHANGED <<known, pass, orphan>>

DropPass(p) ==
    /\ At(p, "dropPass")
    /\ pass' = [pass EXCEPT ![uid(p)] = NoFile]
    /\ orphan' = orphan \cup {q \in Proc : At(q, "writePass") /\ uid(q) = uid(p)}
    /\ Advance(p)
    /\ UNCHANGED <<known, loggedIn>>

DropLogin(p) ==
    /\ At(p, "dropLogin")
    /\ loggedIn' = loggedIn \ {uid(p)}
    /\ Advance(p)
    /\ UNCHANGED <<known, pass, orphan>>

\* SIGINT ends every process of the group; the server is started again and
\* finds the files as they were.
Crash ==
    /\ MayCrash
    /\ \E p \in Proc : Busy(p)
    /\ steps' = [p \in Proc |-> <<>>]
    /\ orphan' = {}
    /\ told' = [u \in User |-> told[u] \cup InFlight(u)]
    /\ spoilt' = spoilt \cup {uid(p) : p \in {q \in Proc : Busy(q)}}
    /\ UNCHANGED <<known, pass, loggedIn, job, reply, since, hopeless>>

Serve(p) ==
    \/ FindUser(p) \/ FindDirectory(p) \/ FindSession(p) \/ CheckPassword(p)
    \/ MakeDirs(p) \/ OpenPass(p) \/ WritePass(p) \/ CreateLogin(p)
    \/ DropPass(p) \/ DropLogin(p)

Next ==
    \/ Crash
    \/ Datagram
    \/ \E c \in Child : Accept(c)
    \/ \E p \in Proc : Serve(p)

Spec == Init /\ [][Next]_vars
-----------------------------------------------------------------------------
Unregistering(u) == At(Parent, "dropLogin") /\ op(Parent) = "unregister" /\ uid(Parent) = u

\* A user with a login file has a password file, except between the two
\* unlinks of unregister_user: whoever is logged in can be checked.
LoginBacked ==
    \A u \in loggedIn : pass[u] = NoFile => Unregistering(u) \/ u \in spoilt

\* A password that was not in force when a request arrived, and that nobody
\* was setting or set afterwards, never gets the request accepted: a changed
\* password is dead for every later request, in whatever state the file is.
StalePasswordIsRefused == \A p \in Proc : hopeless[p] => reply[p] # "OK"

AtRest == \A p \in Proc : ~Busy(p)

\* With nothing in progress, the password on file is one that its user was
\* told and that no later confirmed change or unregister replaced; it is
\* never blank unless a crash or a full disk cut a write short.
PasswordIsLatest ==
    AtRest => \A u \in User :
        \/ pass[u] = NoFile
        \/ pass[u] \in told[u]
        \/ pass[u] = Blank /\ u \in spoilt

\* Once unregister has answered OK, and until the server takes another
\* datagram, the account is gone (README: "Delete your user account").
UnregisteredIsGone ==
    AtRest /\ op(Parent) = "unregister" /\ reply[Parent] = "OK"
        => pass[uid(Parent)] = NoFile
=============================================================================
