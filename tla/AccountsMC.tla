----------------------------- MODULE AccountsMC -----------------------------
(***************************************************************************)
(* A small instance of Accounts: one user, since the files of two have     *)
(* nothing in common, and two passwords besides a third that only a change *)
(* sets.  A second user comes in where requests are kept apart by user.    *)
(***************************************************************************)
EXTENDS AccountsDirectory, TLC

CONSTANTS c1, c2, server, ann, bob, old, new, other

TwoChildren == {c1, c2}
Interchangeable == Permutations(Child)
Passwords == {old, new, other}
Newcomer == [u \in User |-> NoFile]
Customer == [u \in User |-> old]

AskFor(u, o, p, n) == [op |-> o, uid |-> u, pw |-> p, new |-> n]
Ask(o, p, n) == AskFor(ann, o, p, n)

\* Ann comes, changes her password twice at a time, and goes.
Everything == {Ask(o, old, old) : o \in Datagrams \cup {"close"}}
                \cup {Ask("login", new, new), Ask("changePass", old, new),
                      Ask("changePass", new, other)}
Leaving == {Ask("login", old, old), Ask("unregister", old, old), Ask("changePass", old, new)}

\* Ann does everything but in turn, while Bob comes and changes his password.
Two == {Ask(o, old, old) : o \in Datagrams \cup {"close"}}
         \cup {Ask("login", new, new), Ask("changePass", old, new)}
         \cup {AskFor(bob, "login", old, old), AskFor(bob, "changePass", old, new)}
=============================================================================
