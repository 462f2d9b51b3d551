------------------------- MODULE AccountsDirectory --------------------------
(***************************************************************************)
(* The account files implement the requests of Directory, each of which is *)
(* one step there, as long as no two requests of a user overlap: for       *)
(* everybody else a request takes effect with its first change of a file.  *)
(***************************************************************************)
EXTENDS Accounts

\* At most one request of a user is in progress.  Those of others may be.
InTurn == \A p, q \in Proc : Busy(p) /\ Busy(q) /\ uid(p) = uid(q) => p = q

TurnSpec == Init /\ [][Next /\ InTurn']_vars

(***************************************************************************)
(* What has been decided and is not on file yet: a registration from its   *)
(* directories to its login file; a change of password while the file is   *)
(* empty; an unregister between its two unlinks.                           *)
(***************************************************************************)
Enrols(p) == op(p) = "login" /\ (At(p, "openPass") \/ At(p, "writePass") \/ At(p, "firstLogin"))
Rewrites(p) == op(p) = "changePass" /\ At(p, "writePass")
Leaves(p) == op(p) = "unregister" /\ At(p, "dropLogin")
Decided(p) == Enrols(p) \/ Rewrites(p) \/ Leaves(p)

\* The processes that are about to put a password of u on file.
Setting(u) == {p \in Proc : uid(p) = u /\ (Enrols(p) \/ Rewrites(p))}

passwordOf(u) == IF Setting(u) = {} THEN pass[u] ELSE Written(CHOOSE p \in Setting(u) : TRUE)

isIn(u) == /\ u \in loggedIn \/ \E p \in Setting(u) : Enrols(p)
           /\ \A p \in Proc : Leaves(p) => uid(p) # u

answerOf(p) == IF Enrols(p) THEN "REG" ELSE IF Decided(p) THEN "OK" ELSE reply[p]

\* The service that shows in the files.
passwords == [u \in User |-> passwordOf(u)]
inside == {u \in User : isIn(u)}
asking == {p \in Proc : Busy(p) /\ ~Decided(p)}
answers == [p \in Proc |-> answerOf(p)]

Service == INSTANCE DirectoryService
           WITH EventName <- {}, FileName <- {}, ReadsMayFail <- FALSE, Job <- Request,
                pass <- passwords, loggedIn <- inside, asked <- asking, reply <- answers

\* Every step on the files takes in a request, does and answers one as the
\* service does, or changes nothing that can be seen (operations.cpp).
ImplementsDirectory == Service!Spec
=============================================================================
