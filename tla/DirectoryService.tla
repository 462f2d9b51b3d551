-------------------------- MODULE DirectoryService --------------------------
(***************************************************************************)
(* What the server promises about accounts, with none of the files they    *)
(* are made of: processes serve requests, each in one step of Directory,   *)
(* and answer with the result of that step.                                *)
(***************************************************************************)
EXTENDS Directory

CONSTANTS
    Proc,       \* those who serve
    Job         \* the requests

VARIABLES
    asked,      \* processes with a request to serve
    job,        \* the last request of each
    reply       \* its answer; "none" before it

serviceVars == <<directory, asked, job, reply>>

Init == /\ DirectoryInit
        /\ asked = {}
        /\ job \in [Proc -> Job]
        /\ reply = [p \in Proc |-> "none"]

Ask(p, j) ==
    /\ p \notin asked
    /\ asked' = asked \cup {p}
    /\ job' = [job EXCEPT ![p] = j]
    /\ reply' = [reply EXCEPT ![p] = "none"]
    /\ UNCHANGED directory

\* The results a request may have, and what it does with one of them.
Outcome(j) ==
    CASE j.op = "login" -> LoginResult(j.uid, j.pw)
      [] j.op \in {"logout", "unregister"} -> LeaveResult(j.uid, j.pw)
      [] j.op = "changePass" -> ChangePassResult(j.uid, j.pw)
      [] j.op = "close" -> CloseAdmission(j.uid, j.pw, {"SUCCESS"})
      [] OTHER -> Admission(j.uid, j.pw, {"SUCCESS"})

Effect(j, r) ==
    CASE j.op = "login" -> login(j.uid, j.pw, r)
      [] j.op = "logout" -> logout(j.uid, r)
      [] j.op = "unregister" -> unregister(j.uid, r)
      [] j.op = "changePass" -> changePass(j.uid, j.new, r)
      [] OTHER -> UNCHANGED directory

Word(o, r) ==
    CASE r = "SUCCESS" -> "OK"
      [] r = "REGISTERED" -> "REG"
      [] r = "NOT_REGISTERED" -> IF o = "changePass" THEN "NID" ELSE "UNR"
      [] r = "NOT_LOGGED_IN" -> "NLG"
      [] r \in {"WRONG_PASS", "WRONG_USER_PASS"} -> "WRP"
      [] r = "IO_ERROR" -> "ERROR"

Serve(p) ==
    /\ p \in asked
    /\ \E r \in Outcome(job[p]) :
         /\ Effect(job[p], r)
         /\ reply' = [reply EXCEPT ![p] = Word(job[p].op, r)]
    /\ asked' = asked \ {p}
    /\ UNCHANGED job

Next == \E p \in Proc : Serve(p) \/ \E j \in Job : Ask(p, j)

Spec == Init /\ [][Next]_serviceVars
=============================================================================
