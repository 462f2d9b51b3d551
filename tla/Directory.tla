----------------------------- MODULE Directory ------------------------------
(***************************************************************************)
(* The accounts of the server as a client may think of them: each request  *)
(* of src/src/server/operations.cpp in one step, over the files that       *)
(* Accounts reads and writes one by one.  One step is all there is to see  *)
(* of a request that no other of the same user overlaps                    *)
(* (AccountsDirectory).  Reads may fail here, writes do not: what a failed *)
(* write leaves is in Accounts.                                            *)
(***************************************************************************)
EXTENDS Protocol

CONSTANTS
    NoFile,     \* no password file
    Initial,    \* the password of the users that have registered before
    ReadsMayFail \* opening or reading a password file may fail

ASSUME DirectoryFiles == NoFile \notin Password /\ Initial \in [User -> Password \cup {NoFile}]
ASSUME DirectoryFaults == ReadsMayFail \in BOOLEAN

VARIABLES
    known,      \* users with a directory
    pass,       \* their passwords
    loggedIn    \* users with a login file

directory == <<known, pass, loggedIn>>

DirectoryTypeOK ==
    /\ known \subseteq User
    /\ pass \in [User -> Password \cup {NoFile}]
    /\ loggedIn \subseteq User

DirectoryInit ==
    /\ known = {u \in User : Initial[u] # NoFile}
    /\ pass = Initial
    /\ loggedIn = {}

user_exists(u) == u \in known
user_registered(u) == pass[u] # NoFile
user_logged_in(u) == u \in loggedIn

\* check_password: the results it leads to, and those that follow a match.
Checked(u, p, wrong, match) ==
    (IF ReadsMayFail \/ pass[u] = NoFile THEN {"IO_ERROR"} ELSE {})
        \cup (IF pass[u] = NoFile THEN {} ELSE IF pass[u] = p THEN match ELSE {wrong})

(***************************************************************************)
(* Requests that change accounts: the results they may have, and what      *)
(* request and result r do to the files.                                   *)
(***************************************************************************)
LoginResult(u, p) ==
    IF user_registered(u) THEN Checked(u, p, "WRONG_PASS", {"SUCCESS"}) ELSE {"REGISTERED"}

login(u, p, r) ==
    /\ known' = IF r = "REGISTERED" THEN known \cup {u} ELSE known
    /\ pass' = IF r = "REGISTERED" THEN [pass EXCEPT ![u] = p] ELSE pass
    /\ loggedIn' = IF r \in {"SUCCESS", "REGISTERED"} THEN loggedIn \cup {u} ELSE loggedIn

\* logout and unregister.
LeaveResult(u, p) ==
    CASE ~user_registered(u) -> {"NOT_REGISTERED"}
      [] user_registered(u) /\ ~user_logged_in(u) -> {"NOT_LOGGED_IN"}
      [] OTHER -> Checked(u, p, "WRONG_PASS", {"SUCCESS"})

logout(u, r) ==
    /\ loggedIn' = IF r = "SUCCESS" THEN loggedIn \ {u} ELSE loggedIn
    /\ UNCHANGED <<known, pass>>

\* The directory stays.
unregister(u, r) ==
    /\ loggedIn' = IF r = "SUCCESS" THEN loggedIn \ {u} ELSE loggedIn
    /\ pass' = IF r = "SUCCESS" THEN [pass EXCEPT ![u] = NoFile] ELSE pass
    /\ UNCHANGED known

ChangePassResult(u, old) ==
    CASE ~user_exists(u) -> {"NOT_REGISTERED"}
      [] user_exists(u) /\ ~user_logged_in(u) -> {"NOT_LOGGED_IN"}
      [] OTHER -> Checked(u, old, "WRONG_PASS", {"SUCCESS"})

changePass(u, new, r) ==
    /\ pass' = IF r = "SUCCESS" THEN [pass EXCEPT ![u] = new] ELSE pass
    /\ UNCHANGED <<known, loggedIn>>

(***************************************************************************)
(* Admission of the requests that leave accounts alone: the results it     *)
(* leads to, given those of the work behind it.                            *)
(***************************************************************************)
\* create, reserve, myevents and myreservations.
Admission(u, p, work) ==
    IF user_logged_in(u) THEN Checked(u, p, "WRONG_PASS", work) ELSE {"NOT_LOGGED_IN"}

\* close tells a wrong password before it looks for the login.
CloseAdmission(u, p, work) ==
    IF ~user_exists(u) THEN {"WRONG_USER_PASS"}
    ELSE Checked(u, p, "WRONG_USER_PASS",
                 IF user_logged_in(u) THEN work ELSE {"NOT_LOGGED_IN"})
=============================================================================
