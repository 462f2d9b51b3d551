--------------------------- MODULE AccountsProofs ---------------------------
(***************************************************************************)
(* Proofs about Accounts for any number of children, users and passwords,  *)
(* any requests, with or without write errors and crashes.                 *)
(***************************************************************************)
EXTENDS AccountsDirectory, TLAPS, SequenceTheorems

USE DEF op, uid

-----------------------------------------------------------------------------
(***************************************************************************)
(* Where a request can be.                                                 *)
(***************************************************************************)
\* The routes of an operation: login takes one of two after its first step.
RoutesOf(o) == IF o = "login" THEN {"login", "enter", "register"} ELSE {o}

\* What is left of a request is the end of a route of its operation.
OnRoute(p) == \E r \in RoutesOf(op(p)) : steps[p] \in Suffixes(Route[r])

StoreOK ==
    /\ known \subseteq User
    /\ pass \in [User -> Password \cup {NoFile, Blank}]
    /\ loggedIn \subseteq User
    /\ orphan \subseteq Proc
    /\ steps \in [Proc -> Seq(Step)]
    /\ job \in [Proc -> Request]
    /\ reply \in [Proc -> Reply]
    /\ told \in [User -> SUBSET Password]
    /\ since \in [Proc -> SUBSET Password]
    /\ hopeless \in [Proc -> BOOLEAN]
    /\ spoilt \subseteq User

\* The parent serves datagrams, the children connections; and an answer ends a
\* request.
Role(p) == /\ OnRoute(p)
           /\ Busy(p) => (p = Parent <=> op(p) \in Datagrams) /\ reply[p] = "none"

TypeInv == StoreOK /\ \A p \in Proc : Role(p)

-----------------------------------------------------------------------------
(***************************************************************************)
(* Routes.                                                                 *)
(***************************************************************************)
LEMMA RoutesTyped == ASSUME NEW o \in Datagrams \cup Connections, NEW r \in RoutesOf(o) PROVE Route[r] \in Seq(Step)
<1>1. /\ Route.login \in Seq(Step) /\ Route.enter \in Seq(Step) /\ Route.register \in Seq(Step)
  BY DEF Route, Step
<1>2. /\ Route.logout \in Seq(Step) /\ Route.unregister \in Seq(Step) /\ Route.changePass \in Seq(Step)
  BY DEF Route, Step
<1>3. /\ Route.close \in Seq(Step) /\ Route.query \in Seq(Step) /\ Route.order \in Seq(Step)
  BY DEF Route, Step
<1> QED
  BY <1>1, <1>2, <1>3 DEF RoutesOf, Datagrams, Connections

\* What is left from place i of a sequence.
LEMMA SuffixFrom ==
    ASSUME NEW S, NEW s \in Seq(S), NEW i \in 1..Len(s), NEW t, t = SubSeq(s, i, Len(s))
    PROVE  /\ t # <<>>
           /\ Head(t) = s[i]
           /\ Len(t) = Len(s) - i + 1
           /\ Tail(t) = SubSeq(s, i + 1, Len(s))
<1>1. t \in Seq(S) /\ Len(t) = Len(s) - i + 1
  OBVIOUS
<1>2. Head(t) = s[i] /\ Tail(t) = SubSeq(s, i + 1, Len(s))
  BY Len(s) \in i..Len(s), HeadTailOfSubSeq
<1>3. t # <<>>
  <2>1. Len(t) # 0
    BY <1>1
  <2> QED
    BY <2>1
<1> QED
  BY <1>1, <1>2, <1>3

\* A busy request stands at one place of one route.
Stands(p, r, i) ==
    /\ r \in RoutesOf(op(p))
    /\ i \in 1..Len(Route[r])
    /\ steps[p] = SubSeq(Route[r], i, Len(Route[r]))

LEMMA Standing ==
    ASSUME NEW p \in Proc, job[p] \in Request, OnRoute(p), Busy(p)
    PROVE  \E r, i : Stands(p, r, i)
<1>1. PICK r \in RoutesOf(op(p)) : steps[p] \in Suffixes(Route[r])
  BY DEF OnRoute
<1>2. PICK i : i \in 1..Len(Route[r]) + 1 /\ steps[p] = SubSeq(Route[r], i, Len(Route[r]))
  BY <1>1 DEF Suffixes
<1>3. Route[r] \in Seq(Step)
  BY RoutesTyped DEF Request
<1>4. i # Len(Route[r]) + 1
  BY <1>2, <1>3, SubSeqEmpty DEF Busy
<1>5. i \in 1..Len(Route[r])
  BY <1>2, <1>3, <1>4
<1>6. Stands(p, r, i)
  BY <1>2, <1>5 DEF Stands
<1> QED
  BY <1>6

LEMMA StandsAt ==
    ASSUME NEW p \in Proc, job[p] \in Request, NEW r, NEW i, Stands(p, r, i)
    PROVE  /\ Route[r] \in Seq(Step) /\ i \in 1..Len(Route[r])
           /\ Busy(p)
           /\ Head(steps[p]) = Route[r][i]
           /\ Len(steps[p]) = Len(Route[r]) - i + 1
           /\ DOMAIN steps[p] = 1..Len(steps[p])
           /\ \A j \in 1..Len(steps[p]) : steps[p][j] = Route[r][j + i - 1]
<1>1. Route[r] \in Seq(Step) /\ i \in 1..Len(Route[r])
  BY RoutesTyped DEF Request, Stands
<1>2. steps[p] = SubSeq(Route[r], i, Len(Route[r]))
  BY DEF Stands
<1> DEFINE s == Route[r]
           t == steps[p]
<1>3. s \in Seq(Step) /\ i \in 1..Len(s) /\ t = SubSeq(s, i, Len(s))
  BY <1>1, <1>2
<1> HIDE DEF s, t
<1>4. t # <<>> /\ Head(t) = s[i] /\ Len(t) = Len(s) - i + 1
  BY <1>3, SuffixFrom
<1>5. Tail(t) = SubSeq(s, i + 1, Len(s))
  BY <1>3, SuffixFrom
<1>6. DOMAIN t = 1..Len(t)
  BY <1>3
<1>7. \A j \in 1..Len(t) : t[j] = s[j + i - 1]
  BY <1>3
<1> QED
  BY <1>1, <1>4, <1>5, <1>6, <1>7 DEF Busy, s, t

\* What each step of a route is followed by.
Follows(o, s, t) ==
    /\ s = "makeDirs" => t = "openPass"
    /\ s = "openPass" => t = "writePass"
    /\ s = "writePass" => t = "firstLogin"
    /\ s = "dropPass" => t = "dropLogin"
    /\ s = "password" => t = CASE o = "login" -> "createLogin"
                               [] o = "logout" -> "dropLogin"
                               [] o = "unregister" -> "dropPass"
                               [] o = "changePass" -> "openPass"
                               [] OTHER -> "session"
    /\ s \in {"registered", "directory"} => t = IF o = "close" THEN "password" ELSE "session"
    /\ s = "session" => t = "password"
    /\ s \notin {"createLogin", "firstLogin", "dropLogin"}

Ends(o, s) == \/ s \in {"createLogin", "firstLogin", "dropLogin"}
              \/ s = "writePass" /\ o = "changePass"
              \/ s = "session" /\ o = "close"
              \/ s = "password" /\ o \in {"query", "order"}
              \/ s = "registered" /\ o = "login"

Opening == {"openPass", "writePass", "firstLogin"}
Registering == {"makeDirs"} \cup Opening

LEMMA RouteSteps ==
    ASSUME NEW o \in Datagrams \cup Connections, NEW r \in RoutesOf(o), NEW i, i \in 1..Len(Route[r])
    PROVE  /\ i = Len(Route[r]) <=> Ends(o, Route[r][i])
           /\ i # Len(Route[r]) => Follows(o, Route[r][i], Route[r][i + 1])
           /\ (\E x \in Opening : \E j \in i..Len(Route[r]) : Route[r][j] = x) <=>
                 \/ o = "changePass"
                 \/ o = "login" /\ Route[r][i] \in Registering
           /\ Route[r][i] \in {"createLogin", "makeDirs", "firstLogin"} => o = "login"
           /\ Route[r][i] \in {"openPass", "writePass"} => o \in {"login", "changePass"}
           /\ Route[r][i] = "dropPass" => o = "unregister"
           /\ Route[r][i] = "dropLogin" => o \in {"logout", "unregister"}
           /\ Route[r][i] = "registered" => o \in {"login", "logout", "unregister"}
           /\ Route[r][i] = "directory" => o \in {"changePass", "close"}
           /\ Route[r][i] = "session" => o # "login"
<1> USE DEF RoutesOf, Route, Ends, Follows, Opening, Registering
<1>1. CASE o = "login" /\ r = "login"
  BY <1>1
<1>2. CASE o = "login" /\ r = "enter"
  BY <1>2
<1>3. CASE o = "login" /\ r = "register"
  BY <1>3
<1>4. CASE o = "logout" /\ r = "logout"
  BY <1>4
<1>5. CASE o = "unregister" /\ r = "unregister"
  BY <1>5
<1>6. CASE o = "changePass" /\ r = "changePass"
  BY <1>6
<1>7. CASE o = "close" /\ r = "close"
  BY <1>7
<1>8. CASE o = "query" /\ r = "query"
  BY <1>8
<1>9. CASE o = "order" /\ r = "order"
  BY <1>9
<1> QED
  BY <1>1, <1>2, <1>3, <1>4, <1>5, <1>6, <1>7, <1>8, <1>9 DEF Datagrams, Connections

-----------------------------------------------------------------------------
(***************************************************************************)
(* Places: the next step of a request stands for all that is left of it.   *)
(***************************************************************************)
Place(p) == IF Busy(p) THEN Head(steps[p]) ELSE "idle"

\* The password of such a request is to come, or on file and not confirmed.
Writing(p) == \/ op(p) = "changePass" /\ Place(p) # "idle"
              \/ op(p) = "login" /\ Place(p) \in Registering

LEMMA Places ==
    ASSUME NEW p \in Proc, job[p] \in Request, OnRoute(p)
    PROVE  /\ Place(p) \in Step \cup {"idle"}
           /\ Busy(p) <=> Place(p) # "idle"
           /\ \A s \in Step : At(p, s) <=> Place(p) = s
           /\ Writes(p) <=> Writing(p)
           /\ Place(p) \in {"createLogin", "makeDirs", "firstLogin"} => op(p) = "login"
           /\ Place(p) \in {"openPass", "writePass"} => op(p) \in {"login", "changePass"}
           /\ Place(p) = "dropPass" => op(p) = "unregister"
           /\ Place(p) = "dropLogin" => op(p) \in {"logout", "unregister"}
           /\ Place(p) = "registered" => op(p) \in {"login", "logout", "unregister"}
           /\ Place(p) = "directory" => op(p) \in {"changePass", "close"}
           /\ Place(p) = "session" => op(p) # "login"
<1>1. CASE ~Busy(p)
  <2>1. steps[p] = <<>>
    BY <1>1 DEF Busy
  <2>2. {steps[p][i] : i \in DOMAIN steps[p]} = {}
    BY <2>1
  <2> QED
    BY <1>1, <2>2 DEF Place, At, Writes, Writing, Registering, Opening, Step
<1>2. CASE Busy(p)
  <2>1. PICK r, i : Stands(p, r, i)
    BY <1>2, Standing
  <2> DEFINE s == Route[r]
  <2>2. s \in Seq(Step) /\ i \in 1..Len(s)
    BY <2>1, StandsAt
  <2>3. Head(steps[p]) = s[i]
    BY <2>1, StandsAt
  <2>4. Len(steps[p]) = Len(s) - i + 1
    BY <2>1, StandsAt
  <2>5. DOMAIN steps[p] = 1..Len(steps[p])
    BY <2>1, StandsAt
  <2>6. \A j \in 1..Len(steps[p]) : steps[p][j] = s[j + i - 1]
    BY <2>1, StandsAt
  <2>7. Place(p) = s[i] /\ s[i] \in Step
    BY <1>2, <2>2, <2>3 DEF Place
  <2>8. op(p) \in Datagrams \cup Connections
    BY DEF Request
  <2>9. Writes(p) <=> \E x \in Opening : \E j \in i..Len(s) : s[j] = x
    <3> HIDE DEF s
    <3>1. ASSUME NEW j \in i..Len(s), s[j] \in Opening PROVE Writes(p)
      <4>1. j - i + 1 \in DOMAIN steps[p] /\ steps[p][j - i + 1] = s[j]
        BY <2>2, <2>5, <2>6, <2>4
      <4> QED
        BY <3>1, <4>1 DEF Writes, Opening
    <3>2. ASSUME NEW j \in DOMAIN steps[p], steps[p][j] \in Opening
          PROVE \E x \in Opening : \E k \in i..Len(s) : s[k] = x
      <4>1. j + i - 1 \in i..Len(s) /\ s[j + i - 1] \in Opening
        BY <2>2, <2>5, <2>6, <2>4, <3>2
      <4> QED
        BY <4>1
    <3> QED
      BY <3>1, <3>2 DEF Writes, Opening
  <2>10. r \in RoutesOf(op(p))
    BY <2>1 DEF Stands
  <2>11. (\E x \in Opening : \E j \in i..Len(s) : s[j] = x) <=>
             \/ op(p) = "changePass"
             \/ op(p) = "login" /\ s[i] \in Registering
    BY <2>2, <2>8, <2>10, RouteSteps
  <2>12. /\ s[i] \in {"createLogin", "makeDirs", "firstLogin"} => op(p) = "login"
         /\ s[i] \in {"openPass", "writePass"} => op(p) \in {"login", "changePass"}
         /\ s[i] = "dropPass" => op(p) = "unregister"
         /\ s[i] = "dropLogin" => op(p) \in {"logout", "unregister"}
         /\ s[i] = "registered" => op(p) \in {"login", "logout", "unregister"}
         /\ s[i] = "directory" => op(p) \in {"changePass", "close"}
         /\ s[i] = "session" => op(p) # "login"
    BY <2>2, <2>8, <2>10, RouteSteps
  <2>13. "idle" \notin Step
    BY DEF Step
  <2> HIDE DEF s
  <2> QED
    BY <1>2, <2>7, <2>9, <2>11, <2>12, <2>13 DEF At, Place, Writing
<1> QED
  BY <1>1, <1>2

\* A request goes on with the next step of its route.
LEMMA GoesOn ==
    ASSUME NEW p \in Proc, job[p] \in Request, OnRoute(p), Busy(p)
    PROVE  /\ Len(steps[p]) > 1 <=> ~Ends(op(p), Place(p))
           /\ Len(steps[p]) > 1 =>
                 /\ Tail(steps[p]) # <<>>
                 /\ Follows(op(p), Place(p), Head(Tail(steps[p])))
                 /\ \E r \in RoutesOf(op(p)) : Tail(steps[p]) \in Suffixes(Route[r])
<1>1. PICK r, i : Stands(p, r, i)
  BY Standing
<1> DEFINE s == Route[r]
           t == Tail(steps[p])
<1>2. s \in Seq(Step) /\ i \in 1..Len(s)
  BY <1>1, StandsAt
<1>3. Head(steps[p]) = s[i]
  BY <1>1, StandsAt
<1>4. Len(steps[p]) = Len(s) - i + 1
  BY <1>1, StandsAt
<1>5. t = SubSeq(s, i + 1, Len(s))
  <2>1. steps[p] = SubSeq(s, i, Len(s)) /\ Len(s) \in i..Len(s)
    BY <1>1, <1>2 DEF Stands
  <2> HIDE DEF s
  <2> QED
    BY <1>2, <2>1, HeadTailOfSubSeq
<1>6. op(p) \in Datagrams \cup Connections
  BY DEF Request
<1>7. Place(p) = s[i]
  BY <1>3 DEF Place
<1>8. /\ i = Len(s) <=> Ends(op(p), s[i])
      /\ i # Len(s) => Follows(op(p), s[i], s[i + 1])
  BY <1>1, <1>2, <1>6, RouteSteps DEF Stands
<1>9. t \in Suffixes(s)
  BY <1>2, <1>5, i + 1 \in 1..Len(s) + 1 DEF Suffixes
<1>10. r \in RoutesOf(op(p))
  BY <1>1 DEF Stands
<1>11. CASE i # Len(s)
  <2>1. i + 1 \in 1..Len(s) /\ Len(steps[p]) > 1
    BY <1>2, <1>4, <1>11
  <2> HIDE DEF s, t
  <2>2. t # <<>> /\ Head(t) = s[i + 1]
    BY <1>2, <1>5, <2>1, SuffixFrom
  <2> QED
    BY <1>7, <1>8, <1>9, <1>11, <1>10, <2>1, <2>2 DEF s, t
<1>12. CASE i = Len(s)
  <2>1. ~(Len(steps[p]) > 1)
    BY <1>2, <1>4, <1>12
  <2> QED
    BY <1>7, <1>8, <1>12, <2>1
<1> QED
  BY <1>11, <1>12

-----------------------------------------------------------------------------
(***************************************************************************)
(* Steps keep the types, the routes and the roles.                         *)
(***************************************************************************)
LEMMA Typed ==
    ASSUME TypeInv, NEW p \in Proc
    PROVE  /\ job[p] \in Request /\ op(p) \in Datagrams \cup Connections
           /\ uid(p) \in User /\ job[p].pw \in Password /\ job[p].new \in Password
           /\ Written(p) \in Password
           /\ Role(p) /\ OnRoute(p)
<1>13. job[p] \in Request /\ Role(p)
  BY DEF TypeInv, StoreOK
<1> QED
  BY <1>13 DEF Request, Role, Written

\* A step of p leaves the other requests where they are.
Others(p) == \A q \in Proc \ {p} : steps'[q] = steps[q] /\ job'[q] = job[q] /\ reply'[q] = reply[q]

LEMMA OthersStay ==
    ASSUME TypeInv, NEW p, Others(p), NEW q \in Proc \ {p}
    PROVE  /\ Place(q)' = Place(q) /\ op(q)' = op(q) /\ uid(q)' = uid(q)
           /\ job'[q] = job[q] /\ reply'[q] = reply[q]
           /\ Role(q)'
<1>1. steps'[q] = steps[q] /\ job'[q] = job[q] /\ reply'[q] = reply[q]
  BY DEF Others
<1>2. Role(q)
  BY Typed
<1> QED
  BY <1>1, <1>2 DEF Place, Busy, Role, OnRoute

\* The empty rest ends every route.
LEMMA RestEmpty ==
    ASSUME NEW o \in Datagrams \cup Connections
    PROVE  \E r \in RoutesOf(o) : <<>> \in Suffixes(Route[r])
<1>1. PICK r \in RoutesOf(o) : TRUE
  BY DEF RoutesOf
<1> DEFINE s == Route[r]
<1>2. s \in Seq(Step)
  BY RoutesTyped
<1> HIDE DEF s
<1>3. Len(s) \in Nat
  BY <1>2
<1>4. SubSeq(s, Len(s) + 1, Len(s)) = <<>>
  BY <1>3, SubSeqEmpty
<1>5. Len(s) + 1 \in 1..Len(s) + 1
  BY <1>3
<1>6. <<>> \in Suffixes(s)
  BY <1>4, <1>5 DEF Suffixes
<1> QED
  BY <1>6 DEF s

LEMMA Answers ==
    ASSUME TypeInv, NEW p \in Proc, NEW r \in Reply, Answer(p, r)
    PROVE  /\ steps' \in [Proc -> Seq(Step)] /\ reply' \in [Proc -> Reply] /\ job' = job
           /\ Others(p) /\ Role(p)'
           /\ Place(p)' = "idle" /\ reply'[p] = r
<1>1. steps \in [Proc -> Seq(Step)] /\ reply \in [Proc -> Reply] /\ job[p] \in Request
  BY DEF TypeInv, StoreOK
<1>2. steps'[p] = <<>> /\ reply'[p] = r /\ job' = job
  BY <1>1 DEF Answer
<1>3. OnRoute(p)'
  BY <1>1, <1>2, RestEmpty DEF OnRoute, Request
<1> QED
  BY <1>1, <1>2, <1>3 DEF Answer, Others, Place, Busy, Role

\* p goes on to another step.
Goes(p) == /\ job' = job /\ Others(p) /\ UNCHANGED <<reply, history>>
           /\ Follows(op(p), Place(p), Place(p)')

\* p is through.
Done(p) == /\ job' = job /\ Others(p)
           /\ Place(p)' = "idle"
           /\ reply'[p] = IF Place(p) = "firstLogin" THEN "REG" ELSE "OK"
           /\ CASE Place(p) = "firstLogin" \/ op(p) = "changePass" -> Confirm(p, {Written(p)})
                [] op(p) = "unregister" -> Confirm(p, {})
                [] OTHER -> UNCHANGED history

LEMMA Advances ==
    ASSUME TypeInv, NEW p \in Proc, Busy(p), Advance(p)
    PROVE  /\ steps' \in [Proc -> Seq(Step)] /\ reply' \in [Proc -> Reply] /\ job' = job
           /\ Others(p) /\ Role(p)'
           /\ IF Ends(op(p), Place(p)) THEN Done(p) ELSE Goes(p)
<1>1. steps \in [Proc -> Seq(Step)] /\ reply \in [Proc -> Reply] /\ job[p] \in Request /\ Role(p)
  BY Typed DEF TypeInv, StoreOK
<1>2. /\ At(p, "firstLogin") <=> Place(p) = "firstLogin"
      /\ Len(steps[p]) > 1 <=> ~Ends(op(p), Place(p))
  BY <1>1, Places, GoesOn DEF Role, Step
<1>3. CASE Len(steps[p]) > 1
  <2>1. /\ Tail(steps[p]) # <<>>
        /\ Follows(op(p), Place(p), Head(Tail(steps[p])))
        /\ \E r \in RoutesOf(op(p)) : Tail(steps[p]) \in Suffixes(Route[r])
    BY <1>1, <1>3, GoesOn DEF Role
  <2>2. /\ steps' = [steps EXCEPT ![p] = Tail(steps[p])]
        /\ UNCHANGED <<job, reply, history>>
    BY <1>3 DEF Advance
  <2>3. Tail(steps[p]) \in Seq(Step)
    BY <1>1, <1>3
  <2>4. steps'[p] = Tail(steps[p])
    BY <1>1, <2>2
  <2>5. Place(p)' = Head(Tail(steps[p]))
    BY <2>1, <2>4 DEF Place, Busy
  <2>6. Role(p)'
    BY <1>1, <2>1, <2>2, <2>4 DEF Role, OnRoute, Busy
  <2>7. Goes(p)
    BY <1>1, <2>1, <2>2, <2>5 DEF Goes, Others
  <2> QED
    BY <1>1, <1>2, <1>3, <2>2, <2>3, <2>6, <2>7 DEF Others
<1>4. CASE ~(Len(steps[p]) > 1)
  <2> DEFINE r == IF At(p, "firstLogin") THEN "REG" ELSE "OK"
  <2>1. Answer(p, r) /\ r \in Reply
    BY <1>4 DEF Advance, Reply
  <2>2. /\ steps' \in [Proc -> Seq(Step)] /\ reply' \in [Proc -> Reply] /\ job' = job
        /\ Others(p) /\ Role(p)'
        /\ Place(p)' = "idle" /\ reply'[p] = r
    BY <2>1, Answers
  <2>3. /\ CASE At(p, "firstLogin") \/ op(p) = "changePass" -> Confirm(p, {Written(p)})
             [] op(p) = "unregister" -> Confirm(p, {})
             [] OTHER -> UNCHANGED history
    BY <1>4 DEF Advance
  <2>4. Done(p)
    BY <1>2, <2>2, <2>3 DEF Done
  <2> QED
    BY <1>2, <1>4, <2>2, <2>4
<1> QED
  BY <1>3, <1>4

-----------------------------------------------------------------------------
(***************************************************************************)
(* What a step does, in places: checks, then changes.                      *)
(***************************************************************************)
Same == UNCHANGED <<pass, loggedIn, orphan, told, since, spoilt>>

\* A check turns the request away, and says why.
Why(p) ==
    /\ Place(p) = "registered" => op(p) # "login" /\ pass[uid(p)] = NoFile /\ reply'[p] = "UNR"
    /\ Place(p) = "directory" => uid(p) \notin known /\ reply'[p] = IF op(p) = "close" THEN "WRP" ELSE "NID"
    /\ Place(p) = "session" => uid(p) \notin loggedIn /\ reply'[p] = "NLG"
    /\ Place(p) = "password" => /\ pass[uid(p)] # job[p].pw
                                /\ reply'[p] = IF pass[uid(p)] \in {NoFile, Blank} THEN "ERROR" ELSE "WRP"

Refused(p) == /\ Place(p) \in {"registered", "directory", "session", "password"}
              /\ Place(p)' = "idle" /\ reply'[p] # "OK"
              /\ Why(p)
              /\ Same /\ UNCHANGED hopeless

\* A file is there; the password is still to be checked.
Found(p) ==
    /\ Place(p) = "registered" => pass[uid(p)] # NoFile
    /\ Place(p) = "directory" => uid(p) \in known
    /\ Place(p) = "session" => uid(p) \in loggedIn
    /\ Place(p)' = IF Place(p) = "session" \/ op(p) \in {"login", "close"} THEN "password" ELSE "session"

Searched(p) == /\ Place(p) \in {"registered", "directory", "session"}
               /\ op(p) = "close" => Place(p) # "session"
               /\ Place(p)' \in {"session", "password"}
               /\ op(p) = "close" => Place(p)' # "session"
               /\ Found(p)
               /\ Same /\ UNCHANGED <<hopeless, reply>>

\* A login finds no password and is to set one.
Registers(p) == /\ Place(p) = "registered" /\ op(p) = "login" /\ pass[uid(p)] = NoFile
                /\ Place(p)' = "makeDirs"
                /\ hopeless' = Hope(uid(p), job[p].pw)
                /\ Same /\ UNCHANGED reply

\* The password is the one on file.
LetIn(p) == /\ Place(p) = "password" /\ pass[uid(p)] = job[p].pw
            /\ \/ op(p) = "login" /\ Place(p)' = "createLogin"
               \/ op(p) = "logout" /\ Place(p)' = "dropLogin"
               \/ op(p) = "unregister" /\ Place(p)' = "dropPass"
               \/ op(p) = "changePass" /\ Place(p)' = "openPass"
               \/ op(p) = "close" /\ Place(p)' = "session"
            /\ Same /\ UNCHANGED <<hopeless, reply>>

\* The last check passed.
Admits(p) == /\ reply'[p] = "OK"
             /\ Place(p) = "password" => op(p) \in {"query", "order"}
             /\ Place(p) = "session" => uid(p) \in loggedIn

Passed(p) == /\ \/ Place(p) = "password" /\ pass[uid(p)] = job[p].pw
                \/ Place(p) = "session" /\ op(p) = "close"
             /\ Place(p)' = "idle"
             /\ Admits(p)
             /\ Same /\ UNCHANGED hopeless

Builds(p) == /\ Place(p) = "makeDirs" /\ Place(p)' = "openPass"
             /\ Same /\ UNCHANGED <<hopeless, reply>>

Opens(p) == /\ Place(p) = "openPass" /\ Place(p)' = "writePass"
            /\ pass' = [pass EXCEPT ![uid(p)] = Blank]
            /\ UNCHANGED <<loggedIn, orphan, reply, history>>

Stores(p) == pass' = IF p \in orphan THEN pass ELSE [pass EXCEPT ![uid(p)] = Written(p)]

\* A login writes its password and goes on; changePass is done.
Fills(p) == /\ Place(p) = "writePass" /\ op(p) = "login" /\ Place(p)' = "firstLogin"
              /\ Stores(p) /\ orphan' = orphan \ {p}
              /\ UNCHANGED <<loggedIn, reply, history>>

Changes(p) == /\ Place(p) = "writePass" /\ op(p) = "changePass" /\ Place(p)' = "idle"
              /\ Stores(p) /\ orphan' = orphan \ {p}
              /\ Confirm(p, {Written(p)})
              /\ reply'[p] = "OK"
              /\ UNCHANGED loggedIn

Fails(p) == /\ WritesMayFail
            /\ Place(p) = "writePass" /\ Place(p)' = "idle" /\ reply'[p] = "ERROR"
            /\ orphan' = orphan \ {p} /\ spoilt' = spoilt \cup {uid(p)}
            /\ UNCHANGED <<pass, loggedIn, told, since, hopeless>>

LogsIn(p) == /\ Place(p) \in {"createLogin", "firstLogin"} /\ Place(p)' = "idle"
             /\ loggedIn' = loggedIn \cup {uid(p)}
             /\ reply'[p] = IF Place(p) = "firstLogin" THEN "REG" ELSE "OK"
             /\ IF Place(p) = "firstLogin" THEN Confirm(p, {Written(p)}) ELSE UNCHANGED history
             /\ UNCHANGED <<pass, orphan>>

Drops(p) == /\ Place(p) = "dropPass" /\ Place(p)' = "dropLogin"
            /\ pass' = [pass EXCEPT ![uid(p)] = NoFile]
            /\ orphan' = orphan \cup {q \in Proc : Place(q) = "writePass" /\ uid(q) = uid(p)}
            /\ UNCHANGED <<loggedIn, reply, history>>

LogsOut(p) == /\ Place(p) = "dropLogin" /\ Place(p)' = "idle"
              /\ loggedIn' = loggedIn \ {uid(p)}
              /\ reply'[p] = "OK"
              /\ IF op(p) = "unregister" THEN Confirm(p, {}) ELSE UNCHANGED history
              /\ UNCHANGED <<pass, orphan>>

Deed(p) == \/ Refused(p) \/ Searched(p) \/ Registers(p) \/ LetIn(p) \/ Passed(p)
           \/ Builds(p) \/ Opens(p) \/ Fills(p) \/ Changes(p) \/ Fails(p)
           \/ LogsIn(p) \/ Drops(p) \/ LogsOut(p)

\* What every step of p keeps.
Shape(p) == /\ steps' \in [Proc -> Seq(Step)] /\ reply' \in [Proc -> Reply] /\ job' = job
            /\ Others(p) /\ Role(p)'

LEMMA Located ==
    ASSUME TypeInv, NEW p \in Proc
    PROVE  /\ Place(p) \in Step \cup {"idle"}
           /\ Busy(p) <=> Place(p) # "idle"
           /\ \A s \in Step : At(p, s) <=> Place(p) = s
           /\ Writes(p) <=> Writing(p)
           /\ Place(p) \in {"createLogin", "makeDirs", "firstLogin"} => op(p) = "login"
           /\ Place(p) \in {"openPass", "writePass"} => op(p) \in {"login", "changePass"}
           /\ Place(p) = "dropPass" => op(p) = "unregister"
           /\ Place(p) = "dropLogin" => op(p) \in {"logout", "unregister"}
           /\ Place(p) = "registered" => op(p) \in {"login", "logout", "unregister"}
           /\ Place(p) = "directory" => op(p) \in {"changePass", "close"}
           /\ Place(p) = "session" => op(p) # "login"
  BY Typed, Places

LEMMA RefuseDone ==
    ASSUME TypeInv, NEW p \in Proc, NEW r \in Reply \ {"OK"}, Refuse(p, r), UNCHANGED files,
           Place(p) \in {"registered", "directory", "session", "password"}, reply'[p] = r => Why(p)
    PROVE  Shape(p) /\ Refused(p)
  BY Answers DEF Refuse, Shape, Refused, Same, history, files

LEMMA FindUserDone ==
    ASSUME TypeInv, NEW p \in Proc, FindUser(p)
    PROVE  Shape(p) /\ (Refused(p) \/ Searched(p) \/ Registers(p))
<1>1. Place(p) = "registered" /\ Busy(p) /\ UNCHANGED files
  BY Located DEF FindUser, Step
<1>2. CASE op(p) # "login" /\ pass[uid(p)] = NoFile
  <2>1. Refuse(p, "UNR") /\ (reply'[p] = "UNR" => Why(p))
    BY <1>1, <1>2 DEF FindUser, Why
  <2> QED
    BY <1>1, <2>1, RefuseDone DEF Reply
<1>3. CASE op(p) # "login" /\ pass[uid(p)] # NoFile
  <2>1. Advance(p)
    BY <1>3 DEF FindUser
  <2>2. ~Ends(op(p), Place(p))
    BY <1>1, <1>3 DEF Ends
  <2>3. Shape(p) /\ Goes(p)
    BY <1>1, <2>1, <2>2, Advances DEF Shape
  <2> QED
    BY <1>1, <1>3, <2>3 DEF Goes, Follows, Searched, Found, Same, history, files
<1>4. CASE op(p) = "login"
  <2> DEFINE r == IF pass[uid(p)] # NoFile THEN "enter" ELSE "register"
             s == Route[r]
  <2>1. /\ steps' = [steps EXCEPT ![p] = s]
        /\ hopeless' = IF pass[uid(p)] # NoFile THEN hopeless ELSE Hope(uid(p), job[p].pw)
        /\ UNCHANGED <<job, reply, told, since, spoilt>>
    BY <1>4 DEF FindUser, Route
  <2>2. /\ steps \in [Proc -> Seq(Step)] /\ reply \in [Proc -> Reply] /\ Role(p)
    BY Typed DEF TypeInv, StoreOK
  <2>3. /\ s \in Seq(Step) /\ s # <<>>
        /\ Head(s) = IF pass[uid(p)] # NoFile THEN "password" ELSE "makeDirs"
    <3>1. Route["enter"] \in Seq(Step) /\ Route["enter"] # <<>> /\ Head(Route["enter"]) = "password"
      BY DEF Route, Step
    <3>2. Route["register"] \in Seq(Step) /\ Route["register"] # <<>> /\ Head(Route["register"]) = "makeDirs"
      BY DEF Route, Step
    <3> QED
      BY <3>1, <3>2
  <2>4. r \in RoutesOf(op(p)) /\ s \in Suffixes(Route[r])
    <3>1. s = SubSeq(s, 1, Len(s)) /\ 1 \in 1..Len(s) + 1
      BY DEF Route
    <3> QED
      BY <1>4, <3>1 DEF RoutesOf, Suffixes
  <2> HIDE DEF s
  <2>5. steps'[p] = s /\ Place(p)' = Head(s) /\ job' = job
    BY <2>1, <2>2, <2>3 DEF Place, Busy
  <2>6. Role(p)'
    BY <1>1, <2>1, <2>2, <2>4, <2>5 DEF Role, OnRoute, Busy
  <2>7. Shape(p)
    BY <2>1, <2>2, <2>3, <2>6 DEF Shape, Others
  <2> QED
    BY <1>1, <1>4, <2>1, <2>3, <2>5, <2>7 DEF Searched, Found, Registers, Same, files
<1> QED
  BY <1>2, <1>3, <1>4

LEMMA FindDirectoryDone ==
    ASSUME TypeInv, NEW p \in Proc, FindDirectory(p)
    PROVE  Shape(p) /\ (Refused(p) \/ Searched(p))
<1>1. Place(p) = "directory" /\ Busy(p) /\ UNCHANGED files /\ op(p) # "login"
  BY Located DEF FindDirectory, Step
<1>2. CASE uid(p) \notin known
  <2> DEFINE r == IF op(p) = "close" THEN "WRP" ELSE "NID"
  <2>1. Refuse(p, r) /\ (reply'[p] = r => Why(p))
    BY <1>1, <1>2 DEF FindDirectory, Why
  <2> QED
    BY <1>1, <2>1, RefuseDone DEF Reply
<1>3. CASE uid(p) \in known
  <2>1. Advance(p) /\ ~Ends(op(p), Place(p))
    BY <1>1, <1>3 DEF FindDirectory, Ends
  <2>2. Shape(p) /\ Goes(p)
    BY <1>1, <2>1, Advances DEF Shape
  <2> QED
    BY <1>1, <1>3, <2>2 DEF Goes, Follows, Searched, Found, Same, history, files
<1> QED
  BY <1>2, <1>3

LEMMA FindSessionDone ==
    ASSUME TypeInv, NEW p \in Proc, FindSession(p)
    PROVE  Shape(p) /\ (Refused(p) \/ Searched(p) \/ Passed(p))
<1>1. Place(p) = "session" /\ Busy(p) /\ UNCHANGED files
  BY Located DEF FindSession, Step
<1>2. CASE uid(p) \notin loggedIn
  <2>1. Refuse(p, "NLG") /\ (reply'[p] = "NLG" => Why(p))
    BY <1>1, <1>2 DEF FindSession, Why
  <2> QED
    BY <1>1, <2>1, RefuseDone DEF Reply
<1>3. CASE uid(p) \in loggedIn /\ op(p) # "close"
  <2>1. Advance(p) /\ ~Ends(op(p), Place(p))
    BY <1>1, <1>3 DEF FindSession, Ends
  <2>2. Shape(p) /\ Goes(p)
    BY <1>1, <2>1, Advances DEF Shape
  <2> QED
    BY <1>1, <1>3, <2>2 DEF Goes, Follows, Searched, Found, Same, history, files
<1>4. CASE uid(p) \in loggedIn /\ op(p) = "close"
  <2>1. Advance(p) /\ Ends(op(p), Place(p))
    BY <1>1, <1>4 DEF FindSession, Ends
  <2>2. Shape(p) /\ Done(p)
    BY <1>1, <2>1, Advances DEF Shape
  <2> QED
    BY <1>1, <1>4, <2>2 DEF Done, Passed, Admits, Same, history, files
<1> QED
  BY <1>2, <1>3, <1>4

LEMMA CheckPasswordDone ==
    ASSUME TypeInv, NEW p \in Proc, CheckPassword(p)
    PROVE  Shape(p) /\ (Refused(p) \/ LetIn(p) \/ Passed(p))
<1>1. Place(p) = "password" /\ Busy(p) /\ UNCHANGED files
  BY Located DEF CheckPassword, Step
<1>2. CASE pass[uid(p)] \in {NoFile, Blank}
  <2>1. pass[uid(p)] # job[p].pw
    BY <1>2, Typed, AccountFiles
  <2>2. Refuse(p, "ERROR") /\ (reply'[p] = "ERROR" => Why(p))
    BY <1>1, <1>2, <2>1 DEF CheckPassword, Why
  <2> QED
    BY <1>1, <2>2, RefuseDone DEF Reply
<1>3. CASE pass[uid(p)] \notin {NoFile, Blank} /\ pass[uid(p)] # job[p].pw
  <2>1. Refuse(p, "WRP") /\ (reply'[p] = "WRP" => Why(p))
    BY <1>1, <1>3 DEF CheckPassword, Why
  <2> QED
    BY <1>1, <2>1, RefuseDone DEF Reply
<1>4. CASE pass[uid(p)] \notin {NoFile, Blank} /\ pass[uid(p)] = job[p].pw
  <2>1. Advance(p)
    BY <1>4 DEF CheckPassword
  <2>2. op(p) \in Datagrams \cup Connections
    BY Typed
  <2>3. CASE op(p) \in {"query", "order"}
    <3>1. Shape(p) /\ Done(p)
      BY <1>1, <2>1, <2>3, Advances DEF Ends, Shape
    <3> QED
      BY <1>1, <1>4, <2>3, <3>1 DEF Done, Passed, Admits, Same, history, files
  <2>4. CASE op(p) \notin {"query", "order"}
    <3>1. Shape(p) /\ Goes(p)
      BY <1>1, <2>1, <2>4, Advances DEF Ends, Shape
    <3>2. \/ op(p) = "login" /\ Place(p)' = "createLogin"
          \/ op(p) = "logout" /\ Place(p)' = "dropLogin"
          \/ op(p) = "unregister" /\ Place(p)' = "dropPass"
          \/ op(p) = "changePass" /\ Place(p)' = "openPass"
          \/ op(p) = "close" /\ Place(p)' = "session"
      BY <1>1, <2>2, <2>4, <3>1 DEF Goes, Follows, Datagrams, Connections
    <3> QED
      BY <1>1, <1>4, <3>1, <3>2 DEF Goes, LetIn, Same, history, files
  <2> QED
    BY <2>3, <2>4
<1> QED
  BY <1>2, <1>3, <1>4

LEMMA MakeDirsDone ==
    ASSUME TypeInv, NEW p \in Proc, MakeDirs(p)
    PROVE  Shape(p) /\ Builds(p)
<1>1. Place(p) = "makeDirs" /\ Busy(p) /\ Advance(p)
  BY Located DEF MakeDirs, Step
<1>2. Shape(p) /\ Goes(p)
  BY <1>1, Advances DEF Ends, Shape
<1> QED
  BY <1>1, <1>2 DEF Goes, Follows, Builds, Same, history, MakeDirs

LEMMA OpenPassDone ==
    ASSUME TypeInv, NEW p \in Proc, OpenPass(p)
    PROVE  Shape(p) /\ Opens(p)
<1>1. Place(p) = "openPass" /\ Busy(p) /\ Advance(p)
  BY Located DEF OpenPass, Step
<1>2. Shape(p) /\ Goes(p)
  BY <1>1, Advances DEF Ends, Shape
<1> QED
  BY <1>1, <1>2 DEF Goes, Follows, Opens, OpenPass

LEMMA WritePassDone ==
    ASSUME TypeInv, NEW p \in Proc, WritePass(p)
    PROVE  Shape(p) /\ (Fills(p) \/ Changes(p) \/ Fails(p))
<1>1. Place(p) = "writePass" /\ Busy(p) /\ op(p) \in {"login", "changePass"}
  BY Located DEF WritePass, Step
<1>2. CASE Stores(p) /\ Advance(p) /\ op(p) = "login"
  <2>1. Shape(p) /\ Goes(p)
    BY <1>1, <1>2, Advances DEF Ends, Shape
  <2> QED
    BY <1>1, <1>2, <2>1 DEF Goes, Follows, Fills, WritePass
<1>3. CASE Stores(p) /\ Advance(p) /\ op(p) = "changePass"
  <2>1. Shape(p) /\ Done(p)
    BY <1>1, <1>3, Advances DEF Ends, Shape
  <2>2. Confirm(p, {Written(p)})
    BY <1>3, <2>1 DEF Done
  <2> QED
    BY <1>1, <1>3, <2>1, <2>2 DEF Done, Changes, WritePass
<1>4. CASE /\ WritesMayFail /\ Answer(p, "ERROR")
           /\ spoilt' = spoilt \cup {uid(p)} /\ UNCHANGED <<pass, told, since, hopeless>>
  <2>1. Shape(p) /\ Place(p)' = "idle" /\ reply'[p] = "ERROR"
    BY <1>4, Answers DEF Shape, Reply
  <2> QED
    BY <1>1, <1>4, <2>1 DEF Fails, WritePass
<1> QED
  BY <1>1, <1>2, <1>3, <1>4 DEF WritePass, Stores

LEMMA CreateLoginDone ==
    ASSUME TypeInv, NEW p \in Proc, CreateLogin(p)
    PROVE  Shape(p) /\ LogsIn(p)
<1>1. Place(p) \in {"createLogin", "firstLogin"} /\ Busy(p) /\ Advance(p) /\ op(p) = "login"
  BY Located DEF CreateLogin, Step
<1>2. Shape(p) /\ Done(p)
  BY <1>1, Advances DEF Ends, Shape
<1>3. IF Place(p) = "firstLogin" THEN Confirm(p, {Written(p)}) ELSE UNCHANGED history
  BY <1>1, <1>2 DEF Done
<1> QED
  BY <1>1, <1>2, <1>3 DEF Done, LogsIn, CreateLogin

LEMMA DropPassDone ==
    ASSUME TypeInv, NEW p \in Proc, DropPass(p)
    PROVE  Shape(p) /\ Drops(p)
<1>1. Place(p) = "dropPass" /\ Busy(p) /\ Advance(p)
  BY Located DEF DropPass, Step
<1>2. Shape(p) /\ Goes(p)
  BY <1>1, Advances DEF Ends, Shape
<1>3. {q \in Proc : At(q, "writePass") /\ uid(q) = uid(p)} = {q \in Proc : Place(q) = "writePass" /\ uid(q) = uid(p)}
  BY Located DEF Step
<1> QED
  BY <1>1, <1>2, <1>3 DEF Goes, Follows, Drops, DropPass

LEMMA DropLoginDone ==
    ASSUME TypeInv, NEW p \in Proc, DropLogin(p)
    PROVE  Shape(p) /\ LogsOut(p)
<1>1. Place(p) = "dropLogin" /\ Busy(p) /\ Advance(p) /\ op(p) \in {"logout", "unregister"}
  BY Located DEF DropLogin, Step
<1>2. Shape(p) /\ Done(p)
  BY <1>1, Advances DEF Ends, Shape
<1>3. IF op(p) = "unregister" THEN Confirm(p, {}) ELSE UNCHANGED history
  BY <1>1, <1>2 DEF Done
<1> QED
  BY <1>1, <1>2, <1>3 DEF Done, LogsOut, DropLogin

LEMMA Deeds == ASSUME TypeInv, NEW p \in Proc, Serve(p) PROVE Shape(p) /\ Deed(p)
  BY FindUserDone, FindDirectoryDone, FindSessionDone, CheckPasswordDone, MakeDirsDone, OpenPassDone,
     WritePassDone, CreateLoginDone, DropPassDone, DropLoginDone DEF Serve, Deed

-----------------------------------------------------------------------------
(***************************************************************************)
(* Requests that arrive, and crashes.                                      *)
(***************************************************************************)
\* A request arrives at an idle process.
Arrives(p, r) == /\ Place(p) = "idle" /\ r \in Requests /\ Receive(p, r)
                 /\ p = Parent <=> r.op \in Datagrams

LEMMA Arrivals ==
    ASSUME TypeInv, Datagram \/ \E c \in Child : Accept(c)
    PROVE  \E p \in Proc, r \in Requests : Arrives(p, r)
<1>1. CASE Datagram
  <2>1. PICK r \in Requests : r.op \in Datagrams /\ Receive(Parent, r)
    BY <1>1 DEF Datagram
  <2>2. Parent \in Proc /\ Place(Parent) = "idle"
    BY <1>1, Located DEF Datagram, Proc
  <2> QED
    BY <2>1, <2>2 DEF Arrives
<1>2. ASSUME NEW c \in Child, Accept(c) PROVE \E p \in Proc, r \in Requests : Arrives(p, r)
  <2>1. PICK r \in Requests : r.op \in Connections /\ Receive(c, r)
    BY <1>2 DEF Accept
  <2>2. c \in Proc /\ Place(c) = "idle" /\ c # Parent
    BY <1>2, Located, AccountProcs DEF Accept, Proc
  <2>3. r.op \notin Datagrams
    BY <2>1 DEF Datagrams, Connections
  <2> QED
    BY <2>1, <2>2, <2>3 DEF Arrives
<1> QED
  BY <1>1, <1>2

\* It has its checks before it.
Fresh(p, r) == /\ job'[p] = r /\ r \in Request /\ reply'[p] = "none"
               /\ Others(p) /\ Role(p)'
               /\ Place(p)' \in {"registered", "directory", "session"}
               /\ Place(p)' = "session" => r.op \in {"query", "order"}
               /\ Place(p)' = "registered" => r.op \notin {"changePass", "close"}
               /\ since'[p] = {} /\ \A q \in Proc \ {p} : since'[q] = since[q]
               /\ \A q \in Proc \ {p} : hopeless'[q] => /\ hopeless[q]
                                                        /\ r.op = "changePass" /\ uid(q) = r.uid => job[q].pw # r.new
               /\ hopeless'[p] => r.pw \notin told[r.uid] \cup InFlight(r.uid)
               /\ UNCHANGED <<pass, loggedIn, orphan, told, spoilt>>

LEMMA Arrived ==
    ASSUME TypeInv, NEW p \in Proc, NEW r \in Requests, Arrives(p, r)
    PROVE  StoreOK' /\ Fresh(p, r)
<1>1. r \in Request /\ r.op \in Datagrams \cup Connections /\ r.uid \in User /\ r.pw \in Password
  BY AccountRequests DEF Request
<1> USE DEF TypeInv, StoreOK
<1>2. /\ steps' = [steps EXCEPT ![p] = Route[r.op]]
      /\ job' = [job EXCEPT ![p] = r]
      /\ reply' = [reply EXCEPT ![p] = "none"]
      /\ since' = [since EXCEPT ![p] = {}]
      /\ hopeless' = [IF r.op = "changePass" THEN Hope(r.uid, r.new) ELSE hopeless
                        EXCEPT ![p] = r.pw \notin told[r.uid] \cup InFlight(r.uid)]
      /\ UNCHANGED <<files, told, spoilt>>
  BY DEF Arrives, Receive
<1> DEFINE s == Route[r.op]
<1>3. s \in Seq(Step) /\ r.op \in RoutesOf(r.op)
  BY <1>1, RoutesTyped DEF RoutesOf
<1>4. /\ s # <<>>
      /\ Head(s) = CASE r.op \in {"login", "logout", "unregister"} -> "registered"
                     [] r.op \in {"changePass", "close"} -> "directory"
                     [] OTHER -> "session"
  <2>1. CASE r.op \in {"login", "logout", "unregister"}
    BY <2>1 DEF Route
  <2>2. CASE r.op \in {"changePass", "close"}
    <3>1. CASE r.op = "changePass"
      BY <3>1 DEF Route
    <3>2. CASE r.op = "close"
      BY <3>2 DEF Route
    <3> QED
      BY <2>2, <3>1, <3>2
  <2>3. CASE r.op \in {"query", "order"}
    BY <2>3 DEF Route
  <2> QED
    BY <1>1, <2>1, <2>2, <2>3 DEF Datagrams, Connections
<1>5. s \in Suffixes(s)
  <2> HIDE DEF s
  <2>1. s = SubSeq(s, 1, Len(s)) /\ 1 \in 1..Len(s) + 1
    BY <1>3
  <2> QED
    BY <2>1 DEF Suffixes
<1> HIDE DEF s
<1>6. steps'[p] = s /\ job'[p] = r /\ reply'[p] = "none"
  BY <1>2 DEF s
<1>7. Place(p)' = Head(s)
  BY <1>4, <1>6 DEF Place, Busy
<1>8. Role(p)'
  <2>1. OnRoute(p)'
    BY <1>3, <1>5, <1>6 DEF OnRoute, s
  <2> QED
    BY <1>6, <2>1 DEF Role, Arrives
<1>9. /\ hopeless' \in [Proc -> BOOLEAN]
      /\ hopeless'[p] => r.pw \notin told[r.uid] \cup InFlight(r.uid)
      /\ \A q \in Proc \ {p} : hopeless'[q] => /\ hopeless[q]
                                               /\ r.op = "changePass" /\ uid(q) = r.uid => job[q].pw # r.new
  <2> DEFINE h == IF r.op = "changePass" THEN Hope(r.uid, r.new) ELSE hopeless
             b == r.pw \notin told[r.uid] \cup InFlight(r.uid)
  <2>1. h \in [Proc -> BOOLEAN] /\ b \in BOOLEAN
    BY DEF Hope
  <2>2. \A q \in Proc : h[q] => /\ hopeless[q]
                                /\ r.op = "changePass" /\ uid(q) = r.uid => job[q].pw # r.new
    BY DEF Hope
  <2>3. hopeless' = [h EXCEPT ![p] = b]
    BY <1>2
  <2> HIDE DEF h, b
  <2>4. hopeless' \in [Proc -> BOOLEAN] /\ hopeless'[p] = b /\ \A q \in Proc \ {p} : hopeless'[q] = h[q]
    BY <2>1, <2>3
  <2> QED
    BY <2>2, <2>4 DEF b
<1>10. StoreOK'
  BY <1>1, <1>2, <1>3, <1>9 DEF files, s, Reply
<1>11. Others(p)
  BY <1>2 DEF Others
<1> QED
  BY <1>1, <1>2, <1>4, <1>6, <1>7, <1>8, <1>9, <1>10, <1>11 DEF Fresh, files, Datagrams, Connections

\* After a crash nothing is in progress.
LEMMA Crashed ==
    ASSUME TypeInv, Crash
    PROVE  /\ TypeInv'
           /\ \A p \in Proc : Place(p)' = "idle"
<1> USE DEF TypeInv, StoreOK
<1>1. steps' = [p \in Proc |-> <<>>] /\ job' = job
  BY DEF Crash
<1>2. \A u \in User : InFlight(u) \subseteq Password
  BY Typed DEF InFlight
<1>3. StoreOK'
  BY <1>1, <1>2, Typed DEF Crash
<1>4. ASSUME NEW p \in Proc PROVE Place(p)' = "idle" /\ Role(p)'
  <2>1. steps'[p] = <<>> /\ job'[p] = job[p]
    BY <1>1
  <2>2. OnRoute(p)'
    BY <2>1, Typed, RestEmpty DEF OnRoute
  <2> QED
    BY <2>1, <2>2 DEF Place, Busy, Role
<1> QED
  BY <1>3, <1>4

-----------------------------------------------------------------------------
(***************************************************************************)
(* The type invariant.                                                     *)
(***************************************************************************)
LEMMA ConfirmTyped ==
    ASSUME TypeInv, NEW p \in Proc, NEW W \in SUBSET Password, Confirm(p, W)
    PROVE  /\ told' \in [User -> SUBSET Password] /\ since' \in [Proc -> SUBSET Password]
           /\ told'[uid(p)] = (told[uid(p)] \cap since[p]) \cup W
           /\ \A u \in User \ {uid(p)} : told'[u] = told[u]
           /\ \A q \in Proc : since'[q] = IF Place(q) # "idle" /\ uid(q) = uid(p) THEN since[q] \cup W ELSE since[q]
           /\ UNCHANGED <<hopeless, spoilt>>
<1>1. \A q \in Proc : Busy(q) <=> Place(q) # "idle"
  BY Located
<1>2. told \in [User -> SUBSET Password] /\ since \in [Proc -> SUBSET Password] /\ uid(p) \in User
  BY Typed DEF TypeInv, StoreOK
<1> QED
  BY <1>1, <1>2 DEF Confirm

LEMMA ServeTyped == ASSUME TypeInv, NEW p \in Proc, Serve(p) PROVE TypeInv'
<1>1. Shape(p) /\ Deed(p)
  BY Deeds
<1>2. \A q \in Proc : Role(q)'
  BY <1>1, OthersStay DEF Shape
<1>3. /\ StoreOK /\ uid(p) \in User /\ Written(p) \in Password /\ job[p].pw \in Password
  BY Typed DEF TypeInv
<1>4. /\ steps' \in [Proc -> Seq(Step)] /\ job' \in [Proc -> Request] /\ reply' \in [Proc -> Reply]
  BY <1>1, <1>3 DEF Shape, StoreOK
<1>5. known' \subseteq User
  BY <1>3 DEF Serve, StoreOK, files, FindUser, FindDirectory, FindSession, CheckPassword, MakeDirs, OpenPass,
        WritePass, CreateLogin, DropPass, DropLogin
<1>6. /\ pass' \in [User -> Password \cup {NoFile, Blank}]
      /\ loggedIn' \subseteq User /\ orphan' \subseteq Proc /\ spoilt' \subseteq User
  BY <1>1, <1>3 DEF StoreOK, Deed, Refused, Searched, Registers, LetIn, Passed, Builds, Opens, Fills, Changes,
        Fails, LogsIn, Drops, LogsOut, Stores, Same, history, Confirm
<1>7. told' \in [User -> SUBSET Password] /\ since' \in [Proc -> SUBSET Password]
  BY <1>1, <1>3, ConfirmTyped DEF StoreOK, Deed, Refused, Searched, Registers, LetIn, Passed, Builds, Opens,
        Fills, Changes, Fails, LogsIn, Drops, LogsOut, Same, history
<1>8. hopeless' \in [Proc -> BOOLEAN]
  BY <1>1, <1>3 DEF StoreOK, Deed, Refused, Searched, Registers, LetIn, Passed, Builds, Opens,
        Fills, Changes, Fails, LogsIn, Drops, LogsOut, Same, history, Confirm, Hope
<1>9. StoreOK'
  BY <1>4, <1>5, <1>6, <1>7, <1>8 DEF StoreOK
<1> QED
  BY <1>2, <1>9 DEF TypeInv

LEMMA NextTyped == ASSUME TypeInv, [Next]_vars PROVE TypeInv'
<1>1. CASE UNCHANGED vars
  BY <1>1 DEF TypeInv, StoreOK, Role, OnRoute, Busy, vars, files, history
<1>2. CASE Crash
  BY <1>2, Crashed
<1>3. CASE Datagram \/ \E c \in Child : Accept(c)
  <2>1. PICK p \in Proc, r \in Requests : Arrives(p, r)
    BY <1>3, Arrivals
  <2>2. StoreOK' /\ Fresh(p, r)
    BY <2>1, Arrived
  <2>3. \A q \in Proc : Role(q)'
    BY <2>2, OthersStay DEF Fresh
  <2> QED
    BY <2>2, <2>3 DEF TypeInv
<1>4. CASE \E p \in Proc : Serve(p)
  BY <1>4, ServeTyped
<1> QED
  BY <1>1, <1>2, <1>3, <1>4 DEF Next

LEMMA InitTyped == ASSUME Init PROVE TypeInv /\ \A p \in Proc : Place(p) = "idle"
<1>1. steps = [p \in Proc |-> <<>>] /\ job \in [Proc -> Request]
  BY AccountRequests DEF Init
<1>2. StoreOK
  BY <1>1, AccountFiles DEF Init, StoreOK, Reply, Registered
<1>3. ASSUME NEW p \in Proc PROVE Role(p) /\ Place(p) = "idle"
  <2>1. steps[p] = <<>> /\ op(p) \in Datagrams \cup Connections
    BY <1>1 DEF Request
  <2> QED
    BY <2>1, RestEmpty DEF Role, OnRoute, Busy, Place
<1> QED
  BY <1>2, <1>3 DEF TypeInv

\* Every file holds what the code can write to it, and a request is always at
\* the end of one of the routes of its operation.
THEOREM AccountsTyped == Spec => []TypeOK
<1>1. TypeInv => TypeOK
  <2>1. ASSUME TypeInv, NEW p \in Proc PROVE steps[p] \in UNION {Suffixes(Route[o]) : o \in DOMAIN Route}
    <3>1. PICK r \in RoutesOf(op(p)) : steps[p] \in Suffixes(Route[r])
      BY <2>1, Typed DEF OnRoute
    <3>2. r \in DOMAIN Route
      BY <2>1, Typed DEF RoutesOf, Route, Datagrams, Connections
    <3> QED
      BY <3>1, <3>2
  <2> QED
    BY <2>1 DEF TypeInv, StoreOK, TypeOK
<1> QED
  BY <1>1, InitTyped, NextTyped, PTL DEF Spec

-----------------------------------------------------------------------------
(***************************************************************************)
(* The invariant.                                                          *)
(***************************************************************************)
\* Only a child can lose the password file it has opened.
OrphanInv == \A p \in orphan : Place(p) = "writePass" /\ p # Parent

\* The parent, about to create a login file, has seen or made the password file.
EnterInv == Place(Parent) \in {"createLogin", "writePass", "firstLogin"} => pass[uid(Parent)] # NoFile

\* LoginBacked, in places.
BackedInv == \A u \in loggedIn : pass[u] = NoFile =>
                \/ Place(Parent) = "dropLogin" /\ op(Parent) = "unregister" /\ uid(Parent) = u
                \/ u \in spoilt

\* The password a login has written and not yet confirmed.
Entering(u) == IF Place(Parent) = "firstLogin" /\ uid(Parent) = u THEN {job[Parent].pw} ELSE {}

\* Whatever is on file was confirmed, or is about to be.
Explained == \A u \in User : pass[u] \in {NoFile, Blank} \cup told[u] \cup Entering(u)

\* Whoever confirms without writing in the same step takes the place of older
\* passwords only: what is on file by then is younger than its request.
Late(p) == \/ p \in orphan
           \/ Place(p) = "firstLogin"
           \/ Place(p) = "dropLogin" /\ op(p) = "unregister"
Younger(p) ==
    Late(p) => pass[uid(p)] \in {NoFile, Blank} \cup (told[uid(p)] \cap since[p]) \cup Entering(uid(p))

\* An empty password file is being written, or will stay so.
BlankInv ==
    \A u \in User : pass[u] = Blank =>
        u \in spoilt \/ \E p \in Proc \ orphan : Place(p) = "writePass" /\ uid(p) = u

\* Past the password check.
Admitted(p) == \/ Place(p) \in {"createLogin", "makeDirs", "openPass", "writePass", "firstLogin",
                                "dropPass", "dropLogin"}
               \/ Place(p) = "session" /\ op(p) = "close"

\* A hopeless request is not let in: its password is not on file, and nobody
\* is on the way to putting it there.
Shut(p) ==
    hopeless[p] =>
        /\ reply[p] # "OK" /\ ~Admitted(p)
        /\ Place(p) # "idle" =>
              /\ pass[uid(p)] # job[p].pw
              /\ \A q \in Proc \ {p} : Writing(q) /\ uid(q) = uid(p) => Written(q) # job[p].pw

FileInv == OrphanInv /\ EnterInv /\ BackedInv
HistoryInv == Explained /\ BlankInv /\ \A p \in Proc : Younger(p)
ShutInv == \A p \in Proc : Shut(p)
AccountInv == FileInv /\ HistoryInv /\ ShutInv

\* Logins, logouts and unregisters are the parent's, changes of password not.
LEMMA Whose ==
    ASSUME TypeInv, NEW p \in Proc, Place(p) # "idle"
    PROVE  /\ op(p) \in {"login", "logout", "unregister"} => p = Parent
           /\ op(p) = "changePass" => p # Parent
  BY Typed, Located DEF Role, Datagrams

LEMMA DeedFrame ==
    ASSUME TypeInv, NEW p \in Proc, Shape(p)
    PROVE  /\ job' = job
           /\ \A q \in Proc \ {p} : Place(q)' = Place(q) /\ reply'[q] = reply[q]
  BY OthersStay DEF Shape

LEMMA ServeKeepsOrphans ==
    ASSUME TypeInv, AccountInv, NEW p \in Proc, Shape(p), Deed(p)
    PROVE  OrphanInv'
<1>1. orphan \subseteq Proc /\ OrphanInv
  BY DEF TypeInv, StoreOK, AccountInv, FileInv
<1>2. \A q \in Proc \ {p} : Place(q)' = Place(q)
  BY DeedFrame
<1>3. CASE Place(p) # "writePass" /\ orphan' = orphan
  BY <1>1, <1>2, <1>3 DEF OrphanInv
<1>4. CASE orphan' = orphan \ {p}
  BY <1>1, <1>2, <1>4 DEF OrphanInv
<1>5. CASE Drops(p)
  <2>1. p = Parent /\ Place(p) = "dropPass"
    BY <1>5, Located, Whose DEF Drops
  <2> QED
    BY <1>1, <1>2, <1>5, <2>1 DEF OrphanInv, Drops
<1> QED
  BY <1>3, <1>4, <1>5 DEF Deed, Refused, Searched, Registers, LetIn, Passed, Builds, Opens, Fills, Changes,
     Fails, LogsIn, LogsOut, Same

LEMMA ServeKeepsEnter ==
    ASSUME TypeInv, AccountInv, NEW p \in Proc, Shape(p), Deed(p)
    PROVE  EnterInv'
<1>1. /\ OrphanInv /\ EnterInv
      /\ pass \in [User -> Password \cup {NoFile, Blank}]
      /\ uid(p) \in User /\ uid(Parent) \in User /\ job[p].pw \in Password /\ Written(p) \in Password
      /\ Parent \in Proc
  BY Typed DEF TypeInv, StoreOK, AccountInv, FileInv, Proc
<1>2. job' = job /\ \A q \in Proc \ {p} : Place(q)' = Place(q)
  BY DeedFrame
<1>3. CASE Opens(p)
  BY <1>1, <1>2, <1>3, AccountFiles DEF Opens, EnterInv
<1>4. CASE Fills(p) \/ Changes(p)
  <2>1. p = Parent => p \notin orphan
    BY <1>1 DEF OrphanInv
  <2>2. pass' = pass \/ pass' = [pass EXCEPT ![uid(p)] = Written(p)]
    BY <1>4 DEF Fills, Changes, Stores
  <2>3. p = Parent => pass' = [pass EXCEPT ![uid(p)] = Written(p)]
    BY <1>4, <2>1 DEF Fills, Changes, Stores
  <2>4. CASE p = Parent
    BY <1>1, <1>2, <2>3, <2>4, AccountFiles DEF EnterInv
  <2>5. CASE p # Parent
    BY <1>1, <1>2, <2>2, <2>5, AccountFiles DEF EnterInv
  <2> QED
    BY <2>4, <2>5
<1>5. CASE Drops(p)
  <2>1. p = Parent
    BY <1>5, Located, Whose DEF Drops
  <2> QED
    BY <1>5, <2>1 DEF Drops, EnterInv
<1>6. CASE pass' = pass /\ p = Parent /\ Place(p)' = "createLogin" /\ pass[uid(p)] = job[p].pw
  BY <1>1, <1>2, <1>6, AccountFiles DEF EnterInv
<1>7. CASE pass' = pass /\ (p = Parent => Place(p)' \notin {"createLogin", "writePass", "firstLogin"})
  BY <1>1, <1>2, <1>7 DEF EnterInv
<1>8. CASE LetIn(p)
  <2>1. CASE op(p) = "login"
    BY <1>6, <1>8, <2>1, Whose DEF LetIn, Same
  <2>2. CASE op(p) # "login"
    BY <1>7, <1>8, <2>2 DEF LetIn, Same
  <2> QED
    BY <2>1, <2>2
<1> QED
  BY <1>3, <1>4, <1>5, <1>7, <1>8 DEF Deed, Refused, Searched, Registers, Passed, Builds, Fails, LogsIn,
     LogsOut, Same

LEMMA ServeKeepsBacked ==
    ASSUME TypeInv, AccountInv, NEW p \in Proc, Shape(p), Deed(p)
    PROVE  BackedInv'
<1>1. /\ EnterInv /\ BackedInv
      /\ pass \in [User -> Password \cup {NoFile, Blank}] /\ loggedIn \subseteq User
      /\ uid(p) \in User /\ Written(p) \in Password /\ Parent \in Proc
  BY Typed DEF TypeInv, StoreOK, AccountInv, FileInv, Proc
<1>2. job' = job /\ \A q \in Proc \ {p} : Place(q)' = Place(q)
  BY DeedFrame
<1> USE DEF BackedInv
<1>3. CASE UNCHANGED <<loggedIn, spoilt>> /\ Place(p) # "dropLogin" /\ pass' = pass
  BY <1>1, <1>2, <1>3
<1>4. CASE Opens(p)
  BY <1>1, <1>2, <1>4, AccountFiles DEF Opens, history
<1>5. CASE Fills(p) \/ Changes(p)
  <2>1. pass' = pass \/ pass' = [pass EXCEPT ![uid(p)] = Written(p)]
    BY <1>5 DEF Fills, Changes, Stores
  <2>2. UNCHANGED <<loggedIn, spoilt>> /\ Place(p) = "writePass"
    BY <1>5 DEF Fills, Changes, Confirm, history
  <2>3. ASSUME NEW u \in loggedIn', pass'[u] = NoFile PROVE pass[u] = NoFile /\ u \in loggedIn
    BY <1>1, <2>1, <2>2, <2>3, AccountFiles
  <2> QED
    BY <1>1, <1>2, <2>2, <2>3
<1>6. CASE Fails(p)
  BY <1>1, <1>2, <1>6 DEF Fails
<1>7. CASE LogsIn(p)
  <2>1. p = Parent /\ pass[uid(p)] # NoFile
    BY <1>1, <1>7, Located, Whose DEF LogsIn, EnterInv
  <2>2. UNCHANGED <<pass, spoilt>> /\ loggedIn' = loggedIn \cup {uid(p)} /\ Place(p) # "dropLogin"
    BY <1>7 DEF LogsIn, Confirm, history
  <2> QED
    BY <1>1, <1>2, <2>1, <2>2
<1>8. CASE Drops(p)
  <2>1. p = Parent /\ op(p) = "unregister"
    BY <1>8, Located, Whose DEF Drops
  <2> QED
    BY <1>1, <1>2, <1>8, <2>1 DEF Drops, history
<1>9. CASE LogsOut(p)
  <2>1. p = Parent
    BY <1>9, Located, Whose DEF LogsOut
  <2>2. UNCHANGED <<pass, spoilt>> /\ loggedIn' = loggedIn \ {uid(p)}
    BY <1>9 DEF LogsOut, Confirm, history
  <2> QED
    BY <1>1, <1>2, <2>1, <2>2
<1> QED
  BY <1>3, <1>4, <1>5, <1>6, <1>7, <1>8, <1>9 DEF Deed, Refused, Searched, Registers, LetIn, Passed, Builds, Same

\* The steps that neither write nor confirm.
Calm(p) == /\ UNCHANGED <<pass, orphan, told, since, spoilt>>
           /\ Place(p) \notin {"writePass", "firstLogin", "dropLogin"}
           /\ Place(p)' \notin {"writePass", "firstLogin"}
           /\ Place(p)' = "dropLogin" => op(p) # "unregister"

LEMMA CalmDeeds ==
    ASSUME NEW p, Refused(p) \/ Searched(p) \/ Registers(p) \/ LetIn(p) \/ Passed(p) \/ Builds(p)
    PROVE  Calm(p)
  BY DEF Refused, Searched, Registers, LetIn, Passed, Builds, Same, Calm

\* What the lemmas below know of a state.
LEMMA Known ==
    ASSUME TypeInv, AccountInv
    PROVE  /\ OrphanInv /\ EnterInv /\ Explained /\ BlankInv
           /\ pass \in [User -> Password \cup {NoFile, Blank}]
           /\ told \in [User -> SUBSET Password] /\ since \in [Proc -> SUBSET Password]
           /\ orphan \subseteq Proc /\ spoilt \subseteq User
           /\ Parent \in Proc
           /\ \A p \in Proc : /\ Younger(p) /\ Shut(p)
                              /\ uid(p) \in User /\ Written(p) \in Password /\ job[p].pw \in Password
  BY Typed DEF TypeInv, StoreOK, AccountInv, FileInv, HistoryInv, ShutInv, Proc

LEMMA ServeKeepsExplained ==
    ASSUME TypeInv, AccountInv, NEW p \in Proc, Shape(p), Deed(p)
    PROVE  Explained'
<1> USE Known
<1>1. job' = job /\ \A q \in Proc \ {p} : Place(q)' = Place(q)
  BY DeedFrame
<1>2. CASE Calm(p) \/ Fails(p)
  <2>1. UNCHANGED <<pass, told>>
    BY <1>2 DEF Calm, Fails
  <2>2. Place(p) # "firstLogin" /\ Place(p)' # "firstLogin"
    BY <1>2 DEF Calm, Fails
  <2>3. \A u \in User : Entering(u)' = Entering(u)
    BY <1>1, <2>2 DEF Entering
  <2> QED
    BY <2>1, <2>3 DEF Explained
<1>3. CASE Opens(p)
  <2>1. \A u \in User : Entering(u)' = Entering(u)
    BY <1>1, <1>3 DEF Entering, Opens
  <2> QED
    BY <1>3, <2>1 DEF Explained, Opens, history
<1>4. CASE Fills(p)
  <2>1. p = Parent /\ p \notin orphan /\ Written(p) = job[p].pw
    BY <1>4, Whose DEF Fills, OrphanInv, Written
  <2>2. pass' = [pass EXCEPT ![uid(p)] = job[p].pw] /\ told' = told
    BY <1>4, <2>1 DEF Fills, Stores, history
  <2>3. Entering(uid(p))' = {job[p].pw}
    BY <1>1, <1>4, <2>1 DEF Entering, Fills
  <2>4. \A u \in User \ {uid(p)} : Entering(u) = {}
    BY <2>1 DEF Entering
  <2>5. ASSUME NEW u \in User PROVE (pass[u] \in {NoFile, Blank} \cup told[u] \cup Entering(u))'
    <3>1. CASE u = uid(p)
      <4>1. pass'[u] = job[p].pw /\ Entering(u)' = {job[p].pw}
        BY <1>1, <2>2, <2>3, <3>1
      <4> QED
        BY <4>1
    <3>2. CASE u # uid(p)
      <4>1. pass'[u] = pass[u] /\ pass[u] \in {NoFile, Blank} \cup told[u]
        BY <2>2, <2>4, <3>2 DEF Explained
      <4> QED
        BY <2>2, <4>1
    <3> QED
      BY <3>1, <3>2
  <2> QED
    BY <2>5 DEF Explained
<1>5. CASE Changes(p)
  <2>1. p # Parent
    BY <1>5, Whose DEF Changes
  <2>2. \A u \in User : Entering(u)' = Entering(u)
    BY <1>1, <2>1 DEF Entering
  <2>3. /\ told'[uid(p)] = (told[uid(p)] \cap since[p]) \cup {Written(p)}
        /\ \A u \in User \ {uid(p)} : told'[u] = told[u]
    BY <1>5, ConfirmTyped DEF Changes
  <2>4. CASE p \in orphan
    <3>1. pass' = pass /\ Younger(p) /\ Late(p)
      BY <1>5, <2>4 DEF Changes, Stores, Late
    <3> QED
      BY <2>2, <2>3, <3>1 DEF Explained, Younger
  <2>5. CASE p \notin orphan
    <3>1. pass' = [pass EXCEPT ![uid(p)] = Written(p)]
      BY <1>5, <2>5 DEF Changes, Stores
    <3> QED
      BY <2>2, <2>3, <3>1 DEF Explained
  <2> QED
    BY <2>4, <2>5
<1>6. CASE LogsIn(p)
  <2>1. p = Parent /\ op(p) = "login" /\ Written(p) = job[p].pw /\ pass' = pass
    BY <1>6, Located, Whose DEF LogsIn, Written
  <2>2. CASE Place(p) = "firstLogin"
    <3>1. /\ told'[uid(p)] = (told[uid(p)] \cap since[p]) \cup {job[p].pw}
          /\ \A u \in User \ {uid(p)} : told'[u] = told[u]
      BY <1>6, <2>1, <2>2, ConfirmTyped DEF LogsIn
    <3>2. Younger(p) /\ Late(p)
      BY <2>2 DEF Late
    <3>3. Entering(uid(p)) = {job[p].pw} /\ \A u \in User \ {uid(p)} : Entering(u) = {}
      BY <2>1, <2>2 DEF Entering
    <3> QED
      BY <2>1, <3>1, <3>2, <3>3 DEF Explained, Younger
  <2>3. CASE Place(p) = "createLogin"
    <3>1. told' = told
      BY <1>6, <2>3 DEF LogsIn, history
    <3>2. \A u \in User : Entering(u)' = Entering(u)
      BY <1>6, <2>1, <2>3 DEF Entering, LogsIn
    <3> QED
      BY <2>1, <3>1, <3>2 DEF Explained
  <2> QED
    BY <1>6, <2>2, <2>3 DEF LogsIn
<1>7. CASE Drops(p)
  <2>1. \A u \in User : Entering(u)' = Entering(u)
    BY <1>1, <1>7 DEF Entering, Drops
  <2> QED
    BY <1>7, <2>1 DEF Explained, Drops, history
<1>8. CASE LogsOut(p)
  <2>1. \A u \in User : Entering(u)' = Entering(u)
    BY <1>1, <1>8 DEF Entering, LogsOut
  <2>2. pass' = pass
    BY <1>8 DEF LogsOut
  <2>3. CASE op(p) = "unregister"
    <3>1. /\ told'[uid(p)] = told[uid(p)] \cap since[p]
          /\ \A u \in User \ {uid(p)} : told'[u] = told[u]
      BY <1>8, <2>3, ConfirmTyped DEF LogsOut
    <3>2. Younger(p) /\ Late(p)
      BY <1>8, <2>3 DEF Late, LogsOut
    <3> QED
      BY <2>1, <2>2, <3>1, <3>2 DEF Explained, Younger
  <2>4. CASE op(p) # "unregister"
    BY <1>8, <2>1, <2>2, <2>4 DEF LogsOut, history, Explained
  <2> QED
    BY <2>3, <2>4
<1> QED
  BY <1>2, <1>3, <1>4, <1>5, <1>6, <1>7, <1>8, CalmDeeds DEF Deed

LEMMA ServeKeepsBlank ==
    ASSUME TypeInv, AccountInv, NEW p \in Proc, Shape(p), Deed(p)
    PROVE  BlankInv'
<1> USE Known
<1>1. job' = job /\ \A q \in Proc \ {p} : Place(q)' = Place(q)
  BY DeedFrame
<1>2. CASE Calm(p)
  BY <1>1, <1>2 DEF Calm, BlankInv
<1>3. CASE Opens(p)
  <2>1. p \notin orphan
    BY <1>3 DEF Opens, OrphanInv
  <2>2. UNCHANGED <<orphan, spoilt>> /\ pass' = [pass EXCEPT ![uid(p)] = Blank] /\ Place(p)' = "writePass"
        /\ Place(p) # "writePass"
    BY <1>3 DEF Opens, history
  <2> QED
    BY <1>1, <2>1, <2>2 DEF BlankInv
<1>4. CASE Fills(p) \/ Changes(p)
  <2>1. spoilt' = spoilt /\ orphan' = orphan \ {p}
    BY <1>4 DEF Fills, Changes, Confirm, history
  <2>2. ASSUME NEW u \in User, pass'[u] = Blank PROVE pass[u] = Blank /\ (p \in orphan \/ u # uid(p))
    BY <1>4, <2>2, AccountFiles DEF Fills, Changes, Stores
  <2> QED
    BY <1>1, <2>1, <2>2 DEF BlankInv
<1>5. CASE Fails(p)
  BY <1>1, <1>5 DEF Fails, BlankInv
<1>6. CASE LogsIn(p) \/ LogsOut(p)
  <2>1. UNCHANGED <<pass, orphan, spoilt>> /\ Place(p) # "writePass"
    BY <1>6 DEF LogsIn, LogsOut, Confirm, history
  <2> QED
    BY <1>1, <2>1 DEF BlankInv
<1>7. CASE Drops(p)
  <2>1. /\ pass' = [pass EXCEPT ![uid(p)] = NoFile] /\ spoilt' = spoilt /\ Place(p) # "writePass"
        /\ orphan' = orphan \cup {q \in Proc : Place(q) = "writePass" /\ uid(q) = uid(p)}
    BY <1>7 DEF Drops, history
  <2> QED
    BY <1>1, <2>1, AccountFiles DEF BlankInv
<1> QED
  BY <1>2, <1>3, <1>4, <1>5, <1>6, <1>7, CalmDeeds DEF Deed

\* Younger says of q: what is on file is blank, or q may take its place.
Covered(q) == pass[uid(q)] \in {NoFile, Blank} \cup (told[uid(q)] \cap since[q]) \cup Entering(uid(q))

LEMMA ServeKeepsYounger ==
    ASSUME TypeInv, AccountInv, NEW p \in Proc, Shape(p), Deed(p)
    PROVE  \A q \in Proc : Younger(q)'
<1> USE Known
<1>1. job' = job /\ \A q \in Proc \ {p} : Place(q)' = Place(q)
  BY DeedFrame
<1>2. \A q \in Proc : Younger(q) <=> (Late(q) => Covered(q))
  BY DEF Younger, Covered
<1>3. \A q \in Proc : Younger(q)' <=> (Late(q) => Covered(q))'
  BY DEF Younger, Covered
<1>4. \A q \in Proc : Late(q) => Place(q) # "idle"
  BY DEF Late, OrphanInv
<1>5. CASE Calm(p) \/ Fails(p)
  <2>1. pass' = pass /\ told' = told /\ since' = since
    BY <1>5 DEF Calm, Fails
  <2>2. \A u \in User : Entering(u)' = Entering(u)
    BY <1>1, <1>5 DEF Entering, Calm, Fails
  <2>3. \A q \in Proc : Covered(q)' <=> Covered(q)
    BY <1>1, <2>1, <2>2 DEF Covered
  <2>4. \A q \in Proc : Late(q)' => Late(q)
    BY <1>1, <1>5 DEF Late, Calm, Fails, OrphanInv
  <2> QED
    BY <1>2, <1>3, <2>3, <2>4
<1>6. CASE Opens(p) \/ Drops(p)
  <2>1. PICK x \in {NoFile, Blank} : pass' = [pass EXCEPT ![uid(p)] = x]
    BY <1>6 DEF Opens, Drops
  <2>2. told' = told /\ since' = since
    BY <1>6 DEF Opens, Drops, history
  <2>3. \A u \in User : Entering(u)' = Entering(u)
    BY <1>1, <1>6 DEF Entering, Opens, Drops
  <2>4. \A q \in Proc : uid(q) = uid(p) => Covered(q)'
    BY <1>1, <2>1 DEF Covered
  <2>5. \A q \in Proc : uid(q) # uid(p) => (Covered(q)' <=> Covered(q))
    BY <1>1, <2>1, <2>2, <2>3 DEF Covered
  <2>6. \A q \in Proc : uid(q) # uid(p) /\ Late(q)' => Late(q)
    BY <1>1, <1>6 DEF Late, Opens, Drops
  <2> QED
    BY <1>2, <1>3, <2>4, <2>5, <2>6
<1>7. CASE Fills(p)
  <2>1. p = Parent /\ p \notin orphan /\ Written(p) = job[p].pw
    BY <1>7, Whose DEF Fills, OrphanInv, Written
  <2>2. pass' = [pass EXCEPT ![uid(p)] = job[p].pw] /\ told' = told /\ since' = since
    BY <1>7, <2>1 DEF Fills, Stores, history
  <2>3. Entering(uid(p))' = {job[p].pw} /\ \A u \in User \ {uid(p)} : Entering(u)' = {} /\ Entering(u) = {}
    BY <1>1, <1>7, <2>1 DEF Entering, Fills
  <2>4. \A q \in Proc : uid(q) = uid(p) => Covered(q)'
    BY <1>1, <2>2, <2>3 DEF Covered
  <2>5. \A q \in Proc : uid(q) # uid(p) => (Covered(q)' <=> Covered(q))
    BY <1>1, <2>2, <2>3 DEF Covered
  <2>6. \A q \in Proc : uid(q) # uid(p) /\ Late(q)' => Late(q)
    BY <1>1, <1>7 DEF Late, Fills
  <2> QED
    BY <1>2, <1>3, <2>4, <2>5, <2>6
<1>8. CASE Changes(p) \/ (LogsIn(p) /\ Place(p) = "firstLogin") \/ (LogsOut(p) /\ op(p) = "unregister")
  <2> DEFINE W == IF op(p) = "unregister" THEN {} ELSE {Written(p)}
  <2>1. W \in SUBSET Password /\ Confirm(p, W)
    <3>1. Place(p) = "firstLogin" => op(p) = "login"
      BY Located
    <3> QED
      BY <1>8, <3>1 DEF Changes, LogsIn, LogsOut
  <2>2. /\ told'[uid(p)] = (told[uid(p)] \cap since[p]) \cup W
        /\ \A u \in User \ {uid(p)} : told'[u] = told[u]
        /\ \A q \in Proc : since'[q] = IF Place(q) # "idle" /\ uid(q) = uid(p) THEN since[q] \cup W ELSE since[q]
    <3> HIDE DEF W
    <3> QED
      BY <2>1, ConfirmTyped
  <2>3. /\ Place(p) # "idle" /\ Place(p)' = "idle"
        /\ orphan' = orphan \ {p}
    <3>1. Place(p) # "writePass" => p \notin orphan
      BY DEF OrphanInv
    <3> QED
      BY <1>8, <3>1 DEF Changes, LogsIn, LogsOut
  <2>4. \A q \in Proc : Late(q)' => Late(q) /\ q # p
    BY <1>1, <2>3 DEF Late
  <2>5. ASSUME NEW q \in Proc, Late(q), q # p, uid(q) # uid(p) PROVE Covered(q)'
    <3>1. Covered(q) /\ since'[q] = since[q] /\ told'[uid(q)] = told[uid(q)]
      BY <1>2, <2>2, <2>5
    <3>2. pass'[uid(q)] = pass[uid(q)]
      BY <1>8, <2>5 DEF Changes, LogsIn, LogsOut, Stores
    <3>3. Entering(uid(q))' = Entering(uid(q))
      BY <1>1, <2>3, <2>5 DEF Entering
    <3> QED
      BY <1>1, <3>1, <3>2, <3>3 DEF Covered
  <2>6. ASSUME NEW q \in Proc, Late(q), q # p, uid(q) = uid(p) PROVE Covered(q)'
    <3>1. Covered(q) /\ since'[q] = since[q] \cup W
      BY <1>2, <1>4, <2>2, <2>6
    <3>2. CASE pass'[uid(q)] \in W
      BY <1>1, <2>2, <2>6, <3>1, <3>2 DEF Covered
    <3>3. CASE pass' = pass /\ Late(p) /\ pass[uid(q)] \notin W
      <4>1. Covered(p)
        BY <1>2, <3>3
      <4>2. Entering(uid(q))' = Entering(uid(q)) \/ Entering(uid(q)) \subseteq W
        <5>1. CASE p = Parent
          <6>1. CASE Place(p) = "firstLogin"
            <7>1. op(p) = "login"
              BY <6>1, Located
            <7>2. W = {job[p].pw}
              BY <2>1, <7>1 DEF Written
            <7> QED
              BY <5>1, <7>2 DEF Entering
          <6>2. CASE Place(p) # "firstLogin"
            BY <1>1, <2>3, <5>1, <6>2 DEF Entering
          <6> QED
            BY <6>1, <6>2
        <5>2. CASE p # Parent
          BY <1>1, <5>2 DEF Entering
        <5> QED
          BY <5>1, <5>2
      <4>3. pass'[uid(q)] = pass[uid(q)] /\ pass'[uid(q)] \notin W
        BY <3>3
      <4> QED
        BY <1>1, <2>2, <2>6, <3>1, <4>1, <4>2, <4>3 DEF Covered
    <3>4. pass'[uid(q)] \in W \/ (pass' = pass /\ Late(p))
      <4>1. CASE Changes(p) /\ p \notin orphan
        <5>1. pass' = [pass EXCEPT ![uid(p)] = Written(p)] /\ W = {Written(p)}
          BY <2>1, <4>1 DEF Changes, Stores
        <5> QED
          BY <2>6, <5>1
      <4>2. CASE Changes(p) /\ p \in orphan
        BY <4>2 DEF Changes, Stores, Late
      <4>3. CASE ~Changes(p)
        BY <1>8, <4>3 DEF LogsIn, LogsOut, Late
      <4> QED
        BY <4>1, <4>2, <4>3
    <3> QED
      BY <3>2, <3>3, <3>4
  <2> QED
    BY <1>3, <2>4, <2>5, <2>6
<1>9. CASE (LogsIn(p) /\ Place(p) = "createLogin") \/ (LogsOut(p) /\ op(p) # "unregister")
  <2>1. UNCHANGED <<pass, orphan, told, since>> /\ Place(p) # "firstLogin" /\ Place(p)' = "idle"
    BY <1>9 DEF LogsIn, LogsOut, history
  <2>2. \A u \in User : Entering(u)' = Entering(u)
    BY <1>1, <2>1 DEF Entering
  <2>3. \A q \in Proc : Covered(q)' <=> Covered(q)
    BY <1>1, <2>1, <2>2 DEF Covered
  <2>4. \A q \in Proc : Late(q)' => Late(q)
    BY <1>1, <2>1 DEF Late
  <2> QED
    BY <1>2, <1>3, <2>3, <2>4
<1> QED
  BY <1>5, <1>6, <1>7, <1>8, <1>9, CalmDeeds DEF Deed, LogsIn

LEMMA ServeKeepsShut ==
    ASSUME TypeInv, AccountInv, NEW p \in Proc, Shape(p), Deed(p)
    PROVE  ShutInv'
<1> USE Known
<1>1. /\ job' = job
      /\ \A q \in Proc \ {p} : Place(q)' = Place(q) /\ reply'[q] = reply[q]
  BY DeedFrame
<1>2. \A q \in Proc : hopeless'[q] => hopeless[q]
  BY DEF Deed, Refused, Searched, Registers, LetIn, Passed, Builds, Opens, Fills, Changes, Fails, LogsIn,
         Drops, LogsOut, Confirm, Hope, history
<1>3. ASSUME hopeless'[p] PROVE Shut(p)'
  <2>1. hopeless[p] /\ Shut(p)
    BY <1>2, <1>3
  <2>2. Place(p) # "idle" /\ ~Admitted(p)
    BY <2>1 DEF Shut, Deed, Refused, Searched, Registers, LetIn, Passed, Builds, Opens, Fills, Changes, Fails,
       LogsIn, Drops, LogsOut
  <2>3. /\ pass[uid(p)] # job[p].pw
        /\ \A q \in Proc \ {p} : Writing(q) /\ uid(q) = uid(p) => Written(q) # job[p].pw
    BY <2>1, <2>2 DEF Shut
  <2>4. ~Registers(p)
    BY <1>3 DEF Registers, Hope
  <2>5. Refused(p) \/ Searched(p)
    BY <2>2, <2>3, <2>4 DEF Admitted, Deed, LetIn, Passed, Builds, Opens, Fills, Changes, Fails, LogsIn, Drops,
       LogsOut
  <2>6. CASE Refused(p)
    BY <2>6 DEF Shut, Refused, Admitted
  <2>7. CASE Searched(p)
    <3>1. reply'[p] # "OK" /\ pass' = pass
      BY <2>1, <2>7 DEF Shut, Searched, Same
    <3>2. ~Admitted(p)'
      BY <1>1, <2>7 DEF Searched, Admitted
    <3>3. \A q \in Proc \ {p} : (Writing(q)' <=> Writing(q)) /\ Written(q)' = Written(q)
      BY <1>1 DEF Writing, Written
    <3> QED
      BY <1>1, <2>3, <3>1, <3>2, <3>3 DEF Shut
  <2> QED
    BY <2>5, <2>6, <2>7
<1>4. ASSUME NEW q \in Proc \ {p}, hopeless'[q] PROVE Shut(q)'
  <2>1. hopeless[q] /\ Shut(q)
    BY <1>2, <1>4
  <2>2. reply'[q] # "OK" /\ ~Admitted(q)'
    BY <1>1, <2>1 DEF Shut, Admitted
  <2>3. CASE Place(q) # "idle"
    <3>1. /\ pass[uid(q)] # job[q].pw
          /\ \A r \in Proc \ {q} : Writing(r) /\ uid(r) = uid(q) => Written(r) # job[q].pw
      BY <2>1, <2>3 DEF Shut
    <3>2. pass'[uid(q)] \in {pass[uid(q)], NoFile, Blank} \/ (pass'[uid(q)] = Written(p) /\ Writing(p) /\ uid(p) = uid(q))
      <4>1. CASE Fills(p) \/ Changes(p)
        <5>1. Writing(p)
          BY <4>1 DEF Fills, Changes, Writing, Registering, Opening
        <5> QED
          BY <4>1, <5>1 DEF Fills, Changes, Stores
      <4>2. CASE Opens(p) \/ Drops(p)
        BY <4>2 DEF Opens, Drops
      <4>3. CASE pass' = pass
        BY <4>3
      <4> QED
        BY <4>1, <4>2, <4>3 DEF Deed, Refused, Searched, Registers, LetIn, Passed, Builds, Fails, LogsIn,
           LogsOut, Same
    <3>3. pass'[uid(q)] # job[q].pw
      BY <3>1, <3>2, AccountFiles
    <3>4. ASSUME Writing(p)', uid(p) = uid(q) PROVE Written(p) # job[q].pw
      <4>1. CASE Writing(p)
        BY <3>1, <3>4, <4>1
      <4>2. CASE ~Writing(p)
        <5>1. op(p) = "login" /\ Place(p) \notin Registering /\ Place(p)' \in Registering
          BY <1>1, <3>4, <4>2 DEF Writing, Deed, Refused, Searched, Registers, LetIn, Passed, Builds, Opens,
             Fills, Changes, Fails, LogsIn, Drops, LogsOut
        <5>2. Registers(p)
          BY <5>1 DEF Registering, Opening, Deed, Refused, Searched, LetIn, Passed, Builds, Opens, Fills,
             Changes, Fails, LogsIn, Drops, LogsOut
        <5>3. job[q].pw # job[p].pw
          BY <1>4, <3>4, <5>2 DEF Registers, Hope
        <5> QED
          BY <5>1, <5>3 DEF Written
      <4> QED
        BY <4>1, <4>2
    <3>5. \A r \in Proc \ {p} : (Writing(r)' <=> Writing(r)) /\ Written(r)' = Written(r)
      BY <1>1 DEF Writing, Written
    <3>6. Written(p)' = Written(p)
      BY <1>1 DEF Written
    <3> QED
      BY <1>1, <2>2, <3>1, <3>3, <3>4, <3>5, <3>6 DEF Shut
  <2>4. CASE Place(q) = "idle"
    BY <1>1, <2>2, <2>4 DEF Shut
  <2> QED
    BY <2>3, <2>4
<1>5. ASSUME NEW q \in Proc PROVE Shut(q)'
  <2>1. CASE hopeless'[q]
    BY <1>3, <1>4, <2>1
  <2>2. CASE ~hopeless'[q]
    BY <2>2 DEF Shut
  <2> QED
    BY <2>1, <2>2
<1> QED
  BY <1>5 DEF ShutInv

LEMMA ArrivalKeeps ==
    ASSUME TypeInv, AccountInv, NEW p \in Proc, NEW r \in Requests, Arrives(p, r)
    PROVE  AccountInv'
<1> USE Known
<1>1. /\ Place(p) = "idle" /\ Fresh(p, r)
      /\ UNCHANGED <<pass, loggedIn, orphan, told, spoilt>>
  BY Arrived DEF Arrives, Fresh
<1>2. /\ \A q \in Proc \ {p} : /\ Place(q)' = Place(q) /\ job'[q] = job[q] /\ reply'[q] = reply[q]
                               /\ uid(q)' = uid(q) /\ op(q)' = op(q) /\ since'[q] = since[q]
      /\ job'[p] = r /\ uid(p)' = r.uid /\ op(p)' = r.op /\ since'[p] = {} /\ reply'[p] = "none"
      /\ Place(p)' \in {"registered", "directory", "session"}
      /\ Place(p)' = "session" => r.op # "close"
  BY <1>1, OthersStay DEF Fresh
<1>3. \A u \in User : Entering(u)' = Entering(u)
  BY <1>1, <1>2 DEF Entering
<1>4. FileInv'
  BY <1>1, <1>2 DEF AccountInv, FileInv, OrphanInv, EnterInv, BackedInv
<1>5. Explained' /\ BlankInv'
  BY <1>1, <1>2, <1>3 DEF Explained, BlankInv
<1>6. ASSUME NEW q \in Proc PROVE Younger(q)'
  <2>1. CASE q = p
    BY <1>1, <1>2, <2>1 DEF Younger, Late, OrphanInv
  <2>2. CASE q # p
    <3>1. Late(q)' <=> Late(q)
      BY <1>1, <1>2, <2>2 DEF Late
    <3> QED
      BY <1>1, <1>2, <1>3, <2>2, <3>1 DEF Younger
  <2> QED
    BY <2>1, <2>2
<1>7. \A q \in Proc \ {p} : (Writing(q)' <=> Writing(q)) /\ Written(q)' = Written(q)
  BY <1>2 DEF Writing, Written
<1>8. r.uid \in User /\ r.pw \in Password
  BY AccountRequests DEF Request
<1>9. ASSUME hopeless'[p] PROVE Shut(p)'
  <2>1. r.pw \notin told[r.uid] \cup InFlight(r.uid)
    BY <1>1, <1>9 DEF Fresh
  <2>2. \A q \in Proc : Writing(q) /\ uid(q) = r.uid => Written(q) \in InFlight(r.uid)
    BY Located DEF InFlight
  <2>3. Entering(r.uid) \subseteq InFlight(r.uid)
    <3>1. CASE Place(Parent) = "firstLogin" /\ uid(Parent) = r.uid
      <4>1. op(Parent) = "login" /\ Writing(Parent)
        BY <3>1, Located DEF Writing, Registering, Opening
      <4> QED
        BY <2>2, <3>1, <4>1 DEF Entering, Written
    <3> QED
      BY <3>1 DEF Entering
  <2>4. pass[r.uid] # r.pw
    BY <1>8, <2>1, <2>3, AccountFiles DEF Explained
  <2>5. \A q \in Proc \ {p} : Writing(q)' /\ uid(q)' = r.uid => Written(q)' # r.pw
    BY <1>2, <1>7, <2>1, <2>2
  <2>6. reply'[p] # "OK" /\ ~Admitted(p)'
    BY <1>2 DEF Admitted
  <2> QED
    BY <1>1, <1>2, <2>4, <2>5, <2>6 DEF Shut
<1>10. ASSUME NEW q \in Proc \ {p}, hopeless'[q] PROVE Shut(q)'
  <2>1. /\ hopeless[q] /\ Shut(q)
        /\ r.op = "changePass" /\ uid(q) = r.uid => job[q].pw # r.new
    BY <1>1, <1>10 DEF Fresh
  <2>2. reply'[q] # "OK" /\ ~Admitted(q)'
    BY <1>2, <2>1 DEF Shut, Admitted
  <2>3. CASE Place(q) # "idle"
    <3>1. /\ pass[uid(q)] # job[q].pw
          /\ \A s \in Proc \ {q} : Writing(s) /\ uid(s) = uid(q) => Written(s) # job[q].pw
      BY <2>1, <2>3 DEF Shut
    <3>2. Writing(p)' => r.op = "changePass" /\ Written(p)' = r.new
      BY <1>2 DEF Writing, Written, Registering, Opening
    <3>3. Writing(p)' /\ uid(p)' = uid(q) => Written(p)' # job[q].pw
      BY <1>2, <2>1, <3>2
    <3> QED
      BY <1>1, <1>2, <1>7, <2>2, <3>1, <3>3 DEF Shut
  <2>4. CASE Place(q) = "idle"
    BY <1>2, <2>2, <2>4 DEF Shut
  <2> QED
    BY <2>3, <2>4
<1>11. ShutInv'
  <2>1. ASSUME NEW q \in Proc PROVE Shut(q)'
    <3>1. CASE hopeless'[q]
      BY <1>9, <1>10, <3>1
    <3>2. CASE ~hopeless'[q]
      BY <3>2 DEF Shut
    <3> QED
      BY <3>1, <3>2
  <2> QED
    BY <2>1 DEF ShutInv
<1> QED
  BY <1>4, <1>5, <1>6, <1>11 DEF AccountInv, HistoryInv

LEMMA CrashKeeps == ASSUME TypeInv, AccountInv, Crash PROVE AccountInv'
<1> USE Known
<1>1. /\ orphan' = {} /\ UNCHANGED <<pass, loggedIn, job, reply, hopeless>>
      /\ told' = [u \in User |-> told[u] \cup InFlight(u)]
      /\ spoilt' = spoilt \cup {uid(p) : p \in {q \in Proc : Busy(q)}}
  BY DEF Crash
<1>2. \A p \in Proc : Place(p)' = "idle"
  BY Crashed
<1>3. \A p \in Proc : Place(p) # "idle" => uid(p) \in spoilt'
  BY <1>1, Located
<1>4. FileInv'
  <2>1. OrphanInv' /\ EnterInv'
    BY <1>1, <1>2 DEF OrphanInv, EnterInv
  <2>2. BackedInv'
    BY <1>1, <1>3 DEF AccountInv, FileInv, BackedInv
  <2> QED
    BY <2>1, <2>2 DEF FileInv
<1>5. Explained'
  <2>1. ASSUME NEW u \in User PROVE Entering(u) \subseteq InFlight(u)
    <3>1. CASE Place(Parent) = "firstLogin" /\ uid(Parent) = u
      <4>1. op(Parent) = "login" /\ Writes(Parent)
        BY <3>1, Located DEF Writing, Registering, Opening
      <4> QED
        BY <3>1, <4>1 DEF Entering, Written, InFlight
    <3> QED
      BY <3>1 DEF Entering
  <2>2. \A u \in User : told'[u] = told[u] \cup InFlight(u)
    BY <1>1
  <2> QED
    BY <1>1, <2>1, <2>2 DEF Explained
<1>6. BlankInv'
  BY <1>1, <1>3 DEF BlankInv
<1>7. \A p \in Proc : Younger(p)'
  BY <1>1, <1>2 DEF Younger, Late
<1>8. ShutInv'
  <2>1. ASSUME NEW p \in Proc, hopeless[p] PROVE reply[p] # "OK"
    BY <2>1 DEF Shut
  <2>2. ASSUME NEW p \in Proc PROVE Shut(p)'
    BY <1>1, <1>2, <2>1 DEF Shut, Admitted
  <2> QED
    BY <2>2 DEF ShutInv
<1> QED
  BY <1>4, <1>5, <1>6, <1>7, <1>8 DEF AccountInv, HistoryInv

LEMMA InitAccounts == ASSUME Init PROVE AccountInv
<1>1. \A p \in Proc : Place(p) = "idle"
  BY InitTyped
<1>2. Parent \in Proc
  BY DEF Proc
<1>3. /\ pass = Initial /\ loggedIn = {} /\ orphan = {} /\ told = [u \in User |-> {Initial[u]} \ {NoFile}]
      /\ hopeless = [p \in Proc |-> FALSE]
  BY DEF Init
<1>4. FileInv
  BY <1>1, <1>2, <1>3 DEF FileInv, OrphanInv, EnterInv, BackedInv
<1>5. Explained /\ BlankInv
  BY <1>3, AccountFiles DEF Explained, BlankInv
<1>6. \A p \in Proc : Younger(p) /\ Shut(p)
  BY <1>1, <1>3 DEF Younger, Late, Shut
<1> QED
  BY <1>4, <1>5, <1>6 DEF AccountInv, HistoryInv, ShutInv

LEMMA NextAccounts == ASSUME TypeInv, AccountInv, [Next]_vars PROVE AccountInv'
<1>1. CASE UNCHANGED vars
  BY <1>1 DEF vars, files, history, AccountInv, FileInv, HistoryInv, ShutInv, OrphanInv, EnterInv, BackedInv,
     Explained, Entering, BlankInv, Younger, Late, Shut, Admitted, Writing, Written, Place, Busy
<1>2. CASE Crash
  BY <1>2, CrashKeeps
<1>3. CASE Datagram \/ \E c \in Child : Accept(c)
  <2>1. PICK p \in Proc, r \in Requests : Arrives(p, r)
    BY <1>3, Arrivals
  <2> QED
    BY <2>1, ArrivalKeeps
<1>4. ASSUME NEW p \in Proc, Serve(p) PROVE AccountInv'
  <2>1. Shape(p) /\ Deed(p)
    BY <1>4, Deeds
  <2> QED
    BY <2>1, ServeKeepsOrphans, ServeKeepsEnter, ServeKeepsBacked, ServeKeepsExplained, ServeKeepsBlank,
       ServeKeepsYounger, ServeKeepsShut DEF AccountInv, FileInv, HistoryInv
<1> QED
  BY <1>1, <1>2, <1>3, <1>4 DEF Next

-----------------------------------------------------------------------------
\* Whoever is logged in has a password file to be checked against, except
\* between the two unlinks of unregister_user and after a crash there.
THEOREM LoginIsBacked == Spec => []LoginBacked
<1>1. TypeInv /\ AccountInv => LoginBacked
  <2>1. ASSUME TypeInv PROVE Parent \in Proc /\ (At(Parent, "dropLogin") <=> Place(Parent) = "dropLogin")
    BY <2>1, Located DEF Proc, Step
  <2> QED
    BY <2>1 DEF AccountInv, FileInv, BackedInv, LoginBacked, Unregistering
<1> QED
  BY <1>1, InitTyped, NextTyped, InitAccounts, NextAccounts, PTL DEF Spec

\* A request whose password was not in force when it arrived, and was set by
\* nobody afterwards, is never answered OK: no interleaving of changePass,
\* login and unregister, no full disk and no crash lets an old password in.
THEOREM StaleIsRefused == Spec => []StalePasswordIsRefused
<1>1. AccountInv => StalePasswordIsRefused
  BY DEF AccountInv, ShutInv, Shut, StalePasswordIsRefused
<1> QED
  BY <1>1, InitTyped, NextTyped, InitAccounts, NextAccounts, PTL DEF Spec

\* With nothing in progress the password on file is one that was confirmed and
\* that nothing confirmed later replaces, also when unregister has unlinked the
\* file between the open and the write of a changePass.
THEOREM FiledIsLatest == Spec => []PasswordIsLatest
<1>1. TypeInv /\ AccountInv => PasswordIsLatest
  <2> SUFFICES ASSUME TypeInv, AccountInv, AtRest, NEW u \in User
               PROVE  pass[u] = NoFile \/ pass[u] \in told[u] \/ (pass[u] = Blank /\ u \in spoilt)
    BY DEF PasswordIsLatest
  <2>1. \A p \in Proc : Place(p) = "idle"
    BY Located DEF AtRest
  <2>2. Entering(u) = {}
    BY <2>1 DEF Entering, Proc
  <2>3. pass[u] = Blank => u \in spoilt
    BY <2>1 DEF AccountInv, HistoryInv, BlankInv
  <2> QED
    BY <2>2, <2>3 DEF AccountInv, HistoryInv, Explained
<1> QED
  BY <1>1, InitTyped, NextTyped, InitAccounts, NextAccounts, PTL DEF Spec

-----------------------------------------------------------------------------
(***************************************************************************)
(* Requests in turn.                                                       *)
(***************************************************************************)
\* The checks are through and nothing is changed yet.
Verified(p) == \/ Place(p) \in {"createLogin", "dropPass"}
               \/ Place(p) = "openPass" /\ op(p) = "changePass"
               \/ Place(p) = "dropLogin" /\ op(p) = "logout"
               \/ Place(p) = "session" /\ op(p) = "close"

\* What the files have shown a request is still so, and what it changed is as
\* it left it.
Safe(p) ==
    /\ Verified(p) => /\ pass[uid(p)] = job[p].pw
                      /\ op(p) \notin {"login", "close"} => uid(p) \in loggedIn
    /\ Place(p) = "session" /\ op(p) \in {"logout", "unregister"} => pass[uid(p)] # NoFile
    /\ Place(p) = "password" => /\ op(p) \in {"login", "logout", "unregister"} => pass[uid(p)] # NoFile
                                /\ op(p) \notin {"login", "close"} => uid(p) \in loggedIn
    /\ Place(p) \notin {"idle", "directory"} /\ op(p) \in {"changePass", "close"} => uid(p) \in known
    /\ Place(p) = "makeDirs" \/ (Place(p) = "dropLogin" /\ op(p) = "unregister") => pass[uid(p)] = NoFile
    /\ Place(p) = "firstLogin" => pass[uid(p)] = job[p].pw

\* An empty file is about to be written.
NoBlank == \A u \in User : pass[u] = Blank => \E p \in Proc : Place(p) = "writePass" /\ uid(p) = u

TurnInv == InTurn /\ orphan = {} /\ NoBlank /\ \A p \in Proc : Safe(p)

\* No other request of its user is in progress.
Alone(p) == \A q \in Proc \ {p} : Place(q) # "idle" => uid(q) # uid(p)

LEMMA OneByOne ==
    ASSUME TypeInv, InTurn, NEW p \in Proc, Place(p) # "idle"
    PROVE  Alone(p)
  BY Located DEF InTurn, Alone

LEMMA KnownGrows ==
    ASSUME TypeInv, NEW p \in Proc, Serve(p)
    PROVE  known' = IF Place(p) = "makeDirs" THEN known \cup {uid(p)} ELSE known
<1>1. \A s \in Step : At(p, s) <=> Place(p) = s
  BY Located
<1> QED
  BY <1>1 DEF Step, Serve, files, FindUser, FindDirectory, FindSession, CheckPassword, MakeDirs, OpenPass,
     WritePass, CreateLogin, DropPass, DropLogin

\* A step of p changes no file of another user.
OwnFiles(p) ==
    /\ known \subseteq known'
    /\ \A u \in User \ {uid(p)} : pass'[u] = pass[u] /\ (u \in loggedIn' <=> u \in loggedIn)

LEMMA Touches ==
    ASSUME TypeInv, NEW p \in Proc, Serve(p), Deed(p)
    PROVE  OwnFiles(p)
<1>1. known \subseteq known'
  BY KnownGrows
<1>2. pass \in [User -> Password \cup {NoFile, Blank}] /\ uid(p) \in User
  BY Typed DEF TypeInv, StoreOK
<1> QED
  BY <1>1, <1>2 DEF OwnFiles, Deed, Refused, Searched, Registers, LetIn, Passed, Builds, Opens, Fills, Changes,
     Fails, LogsIn, Drops, LogsOut, Stores, Same

\* The file of a request that is about to be checked is not empty.
LEMMA NotBlank ==
    ASSUME TypeInv, TurnInv, NEW p \in Proc, Place(p) \notin {"idle", "writePass"}
    PROVE  pass[uid(p)] # Blank
<1>1. Alone(p) /\ uid(p) \in User
  BY OneByOne, Typed DEF TurnInv
<1> QED
  BY <1>1 DEF TurnInv, NoBlank, Alone

LEMMA OthersSafe ==
    ASSUME TypeInv, TurnInv, NEW p \in Proc, Others(p), NEW q \in Proc \ {p},
           Place(q) = "idle" \/ (/\ known \subseteq known' /\ pass'[uid(q)] = pass[uid(q)]
                                 /\ uid(q) \in loggedIn' <=> uid(q) \in loggedIn)
    PROVE  Safe(q)'
<1>1. Place(q)' = Place(q) /\ op(q)' = op(q) /\ uid(q)' = uid(q) /\ job'[q] = job[q] /\ Safe(q)
  BY OthersStay DEF TurnInv
<1>2. CASE Place(q) = "idle"
  BY <1>1, <1>2 DEF Safe, Verified
<1>3. CASE Place(q) # "idle"
  BY <1>1, <1>3 DEF Safe, Verified
<1> QED
  BY <1>2, <1>3

LEMMA ChecksSafe ==
    ASSUME TypeInv, TurnInv, NEW p \in Proc, Shape(p), known' = known,
           Refused(p) \/ Searched(p) \/ Registers(p) \/ LetIn(p) \/ Passed(p)
    PROVE  Safe(p)'
<1>1. job' = job /\ Safe(p) /\ op(p)' = op(p) /\ uid(p)' = uid(p) /\ UNCHANGED <<pass, loggedIn>>
  BY DEF Shape, TurnInv, Refused, Searched, Registers, LetIn, Passed, Same
<1>2. /\ Place(p) = "registered" => op(p) \in {"login", "logout", "unregister"}
      /\ Place(p) = "directory" => op(p) \in {"changePass", "close"}
      /\ Place(p) = "session" => op(p) # "login"
      /\ op(p) \in Datagrams \cup Connections
  BY Located, Typed
<1>3. CASE Refused(p) \/ Passed(p)
  BY <1>3 DEF Refused, Passed, Safe, Verified
<1>4. CASE Searched(p)
  <2>1. CASE Place(p) = "registered"
    BY <1>1, <1>2, <1>4, <2>1 DEF Searched, Found, Safe, Verified
  <2>2. CASE Place(p) = "directory"
    BY <1>1, <1>2, <1>4, <2>2 DEF Searched, Found, Safe, Verified
  <2>3. CASE Place(p) = "session"
    BY <1>1, <1>2, <1>4, <2>3 DEF Searched, Found, Safe, Verified
  <2> QED
    BY <1>4, <2>1, <2>2, <2>3 DEF Searched
<1>5. CASE Registers(p)
  BY <1>1, <1>5 DEF Registers, Safe, Verified
<1>6. CASE LetIn(p)
  BY <1>1, <1>6 DEF LetIn, Safe, Verified
<1> QED
  BY <1>3, <1>4, <1>5, <1>6

LEMMA ChangesSafe ==
    ASSUME TypeInv, TurnInv, NEW p \in Proc, Shape(p), known \subseteq known',
           Builds(p) \/ Opens(p) \/ Fills(p) \/ Changes(p) \/ Fails(p) \/ LogsIn(p) \/ Drops(p) \/ LogsOut(p)
    PROVE  Safe(p)'
<1>1. job' = job /\ Safe(p) /\ op(p)' = op(p) /\ uid(p)' = uid(p) /\ orphan = {}
  BY DEF Shape, TurnInv
<1>2. /\ Place(p) = "makeDirs" => op(p) = "login"
      /\ Place(p) = "openPass" => op(p) \in {"login", "changePass"}
      /\ Place(p) = "dropPass" => op(p) = "unregister"
      /\ uid(p) \in User /\ pass \in [User -> Password \cup {NoFile, Blank}]
  BY Located, Typed DEF TypeInv, StoreOK
<1>3. CASE Changes(p) \/ Fails(p) \/ LogsIn(p) \/ LogsOut(p)
  BY <1>3 DEF Changes, Fails, LogsIn, LogsOut, Safe, Verified
<1>4. CASE Builds(p)
  BY <1>1, <1>2, <1>4 DEF Builds, Safe, Verified
<1>5. CASE Opens(p)
  BY <1>1, <1>2, <1>5 DEF Opens, Safe, Verified
<1>6. CASE Fills(p)
  BY <1>1, <1>2, <1>6 DEF Fills, Stores, Written, Safe, Verified
<1>7. CASE Drops(p)
  BY <1>1, <1>2, <1>7 DEF Drops, Safe, Verified
<1> QED
  BY <1>3, <1>4, <1>5, <1>6, <1>7

LEMMA ServeKeepsNoBlank ==
    ASSUME TypeInv, TurnInv, NEW p \in Proc, Shape(p), Deed(p), ~WritesMayFail
    PROVE  NoBlank'
<1>1. /\ job' = job /\ orphan = {}
      /\ \A q \in Proc \ {p} : Place(q)' = Place(q)
      /\ \A q \in Proc : uid(q)' = uid(q)
  BY OthersStay DEF Shape, TurnInv
<1>2. uid(p) \in User /\ Written(p) \in Password /\ pass \in [User -> Password \cup {NoFile, Blank}]
  BY Typed DEF TypeInv, StoreOK
<1> SUFFICES ASSUME NEW u \in User, pass'[u] = Blank PROVE \E q \in Proc : Place(q)' = "writePass" /\ uid(q)' = u
  BY DEF NoBlank
<1>3. CASE Opens(p)
  <2>1. CASE u = uid(p)
    BY <1>1, <1>3, <2>1 DEF Opens
  <2>2. CASE u # uid(p)
    <3>1. PICK q \in Proc : Place(q) = "writePass" /\ uid(q) = u
      BY <1>2, <1>3, <2>2 DEF Opens, TurnInv, NoBlank
    <3> QED
      BY <1>1, <2>2, <3>1
  <2> QED
    BY <2>1, <2>2
<1>4. CASE Fills(p) \/ Changes(p)
  <2>1. u # uid(p) /\ pass[u] = Blank
    BY <1>1, <1>2, <1>4, AccountFiles DEF Fills, Changes, Stores
  <2>2. PICK q \in Proc : Place(q) = "writePass" /\ uid(q) = u
    BY <2>1 DEF TurnInv, NoBlank
  <2> QED
    BY <1>1, <2>1, <2>2
<1>5. CASE ~Opens(p) /\ ~Fills(p) /\ ~Changes(p)
  <2>1. Place(p) # "writePass" /\ pass[u] = Blank
    BY <1>2, <1>5, AccountFiles DEF Deed, Refused, Searched, Registers, LetIn, Passed, Builds, Fails, LogsIn,
       Drops, LogsOut, Same
  <2>2. PICK q \in Proc : Place(q) = "writePass" /\ uid(q) = u
    BY <2>1 DEF TurnInv, NoBlank
  <2> QED
    BY <1>1, <2>1, <2>2
<1> QED
  BY <1>3, <1>4, <1>5

LEMMA ServeKeepsTurn ==
    ASSUME TypeInv, TurnInv, NEW p \in Proc, Serve(p), InTurn', ~WritesMayFail
    PROVE  TurnInv'
<1>1. Shape(p) /\ Deed(p) /\ OwnFiles(p)
  BY Deeds, Touches
<1>2. Place(p) # "idle" /\ Others(p)
  BY <1>1 DEF Shape, Deed, Refused, Searched, Registers, LetIn, Passed, Builds, Opens, Fills, Changes, Fails,
     LogsIn, Drops, LogsOut
<1>3. Alone(p)
  BY <1>2, OneByOne DEF TurnInv
<1>4. orphan' = {}
  <2>1. Place(p) = "dropPass" => {q \in Proc : Place(q) = "writePass" /\ uid(q) = uid(p)} = {}
    BY <1>3 DEF Alone
  <2> QED
    BY <1>1, <2>1 DEF TurnInv, Deed, Refused, Searched, Registers, LetIn, Passed, Builds, Opens, Fills, Changes,
       Fails, LogsIn, Drops, LogsOut, Same
<1>5. NoBlank'
  BY <1>1, ServeKeepsNoBlank
<1>6. Safe(p)'
  <2>1. Place(p) # "makeDirs" => known' = known
    BY KnownGrows
  <2>2. CASE Refused(p) \/ Searched(p) \/ Registers(p) \/ LetIn(p) \/ Passed(p)
    <3>1. Place(p) # "makeDirs"
      BY <2>2 DEF Refused, Searched, Registers, LetIn, Passed
    <3> QED
      BY <1>1, <2>1, <2>2, <3>1, ChecksSafe
  <2>3. CASE Builds(p) \/ Opens(p) \/ Fills(p) \/ Changes(p) \/ Fails(p) \/ LogsIn(p) \/ Drops(p) \/ LogsOut(p)
    BY <1>1, <2>3, ChangesSafe DEF OwnFiles
  <2> QED
    BY <1>1, <2>2, <2>3 DEF Deed
<1>7. ASSUME NEW q \in Proc \ {p} PROVE Safe(q)'
  <2>1. CASE Place(q) = "idle"
    BY <1>2, <2>1, OthersSafe
  <2>2. CASE Place(q) # "idle"
    <3>1. uid(q) \in User \ {uid(p)}
      BY <1>3, <2>2, Typed DEF Alone
    <3>2. /\ known \subseteq known' /\ pass'[uid(q)] = pass[uid(q)]
          /\ uid(q) \in loggedIn' <=> uid(q) \in loggedIn
      BY <1>1, <3>1 DEF OwnFiles
    <3> QED
      BY <1>2, <3>2, OthersSafe
  <2> QED
    BY <2>1, <2>2
<1> QED
  BY <1>4, <1>5, <1>6, <1>7 DEF TurnInv

LEMMA ArrivalKeepsTurn ==
    ASSUME TypeInv, TurnInv, NEW p \in Proc, NEW r \in Requests, Arrives(p, r), InTurn'
    PROVE  TurnInv'
<1>1. Place(p) = "idle" /\ Fresh(p, r)
  BY Arrived DEF Arrives
<1>2. UNCHANGED <<known, pass, loggedIn, orphan>>
  BY DEF Arrives, Receive, files
<1>3. \A q \in Proc \ {p} : Place(q)' = Place(q) /\ uid(q)' = uid(q)
  BY <1>1, OthersStay DEF Fresh
<1>4. NoBlank'
  <2> SUFFICES ASSUME NEW u \in User, pass[u] = Blank PROVE \E q \in Proc : Place(q)' = "writePass" /\ uid(q)' = u
    BY <1>2 DEF NoBlank
  <2>1. PICK q \in Proc : Place(q) = "writePass" /\ uid(q) = u
    BY DEF TurnInv, NoBlank
  <2> QED
    BY <1>1, <1>3, <2>1
<1>5. Safe(p)'
  BY <1>1 DEF Fresh, Safe, Verified
<1>6. \A q \in Proc \ {p} : Safe(q)'
  BY <1>1, <1>2, OthersSafe DEF Fresh
<1> QED
  BY <1>2, <1>4, <1>5, <1>6 DEF TurnInv

LEMMA InitTurn == ASSUME Init PROVE TurnInv
<1>1. TypeInv /\ \A p \in Proc : Place(p) = "idle"
  BY InitTyped
<1>2. pass = Initial /\ orphan = {}
  BY DEF Init
<1>3. InTurn
  BY <1>1, Located DEF InTurn
<1>4. NoBlank
  BY <1>2, AccountFiles DEF NoBlank
<1>5. \A p \in Proc : Safe(p)
  BY <1>1 DEF Safe, Verified
<1> QED
  BY <1>2, <1>3, <1>4, <1>5 DEF TurnInv

-----------------------------------------------------------------------------
(***************************************************************************)
(* The service that shows in the files.                                    *)
(***************************************************************************)
Puts(p) == Enrols(p) \/ Rewrites(p)
Asks(p) == Busy(p) /\ ~Decided(p)

\* What has been decided, in places.
Placed(p) ==
    TypeInv => /\ Enrols(p) <=> op(p) = "login" /\ Place(p) \in Opening
               /\ Rewrites(p) <=> op(p) = "changePass" /\ Place(p) = "writePass"
               /\ Leaves(p) <=> op(p) = "unregister" /\ Place(p) = "dropLogin"
               /\ Busy(p) <=> Place(p) # "idle"

LEMMA AllPlaced == \A p \in Proc : Placed(p)
  BY Located DEF Placed, Enrols, Rewrites, Leaves, Opening, Step

\* The password and the login of the user of p when no other request is there.
passwordFor(p) == IF Puts(p) THEN Written(p) ELSE pass[uid(p)]
isInFor(p) == (uid(p) \in loggedIn \/ Enrols(p)) /\ ~Leaves(p)

Own(p) == TypeInv /\ Alone(p) => /\ passwordOf(uid(p)) = passwordFor(p)
                                 /\ isIn(uid(p)) <=> isInFor(p)

LEMMA AllOwn == \A p \in Proc : Own(p)
<1> SUFFICES ASSUME NEW p \in Proc, TypeInv, Alone(p)
             PROVE  passwordOf(uid(p)) = passwordFor(p) /\ (isIn(uid(p)) <=> isInFor(p))
  BY DEF Own
<1>1. \A q \in Proc \ {p} : uid(q) = uid(p) => ~Puts(q) /\ ~Leaves(q)
  BY AllPlaced DEF Placed, Alone, Puts, Opening
<1>2. Setting(uid(p)) = IF Puts(p) THEN {p} ELSE {}
  BY <1>1 DEF Setting, Puts
<1>3. passwordOf(uid(p)) = passwordFor(p)
  <2>1. (CHOOSE q \in {p} : TRUE) = p
    OBVIOUS
  <2> QED
    BY <1>2, <2>1 DEF passwordOf, passwordFor
<1>4. (\E q \in Setting(uid(p)) : Enrols(q)) <=> Enrols(p)
  BY <1>2 DEF Puts
<1>5. (\A q \in Proc : Leaves(q) => uid(q) # uid(p)) <=> ~Leaves(p)
  BY <1>1
<1> QED
  BY <1>3, <1>4, <1>5 DEF isIn, isInFor

LEMMA NextPlaced == (\A p \in Proc : Placed(p))'
  BY AllPlaced, PTL

LEMMA NextOwn == (\A p \in Proc : Own(p))'
  BY AllOwn, PTL

\* Nothing shows of a step of p for a user for whom p has decided nothing.
LEMMA Elsewhere ==
    ASSUME TypeInv, TypeInv', NEW p \in Proc, Others(p), NEW u \in User,
           uid(p) = u => ~Puts(p) /\ ~Leaves(p),
           (uid(p) = u => ~Puts(p) /\ ~Leaves(p))',
           pass'[u] = pass[u], u \in loggedIn' <=> u \in loggedIn
    PROVE  passwordOf(u)' = passwordOf(u) /\ (isIn(u)' <=> isIn(u))
<1>1. \A q \in Proc : Placed(q) /\ Placed(q)'
  BY AllPlaced, NextPlaced
<1>2. ASSUME NEW q \in Proc \ {p}
      PROVE  /\ Enrols(q)' <=> Enrols(q)
             /\ Rewrites(q)' <=> Rewrites(q)
             /\ Leaves(q)' <=> Leaves(q)
             /\ uid(q)' = uid(q) /\ job'[q] = job[q]
  <2>1. Place(q)' = Place(q) /\ op(q)' = op(q) /\ uid(q)' = uid(q) /\ job'[q] = job[q]
    BY OthersStay DEF Others
  <2> QED
    BY <1>1, <2>1 DEF Placed
<1>3. p \notin Setting(u) /\ p \notin Setting(u)'
  BY DEF Setting, Puts
<1>4. Setting(u)' = Setting(u)
  BY <1>2, <1>3 DEF Setting
<1>5. passwordOf(u)' = passwordOf(u)
  <2> DEFINE q == CHOOSE q \in Setting(u) : TRUE
  <2>1. CASE Setting(u) = {}
    BY <1>4, <2>1 DEF passwordOf
  <2>2. CASE Setting(u) # {}
    <3>1. q \in Proc \ {p}
      BY <1>3, <2>2 DEF Setting
    <3>2. passwordOf(u) = Written(q) /\ passwordOf(u)' = IF job'[q].op = "changePass" THEN job'[q].new ELSE job'[q].pw
      BY <1>4, <2>2 DEF passwordOf, Written
    <3> QED
      BY <1>2, <3>1, <3>2 DEF Written
  <2> QED
    BY <2>1, <2>2
<1>6. isIn(u)' <=> isIn(u)
  <2>1. (\E q \in Setting(u) : Enrols(q))' <=> \E q \in Setting(u) : Enrols(q)
    BY <1>2, <1>3, <1>4 DEF Setting, Puts
  <2>2. (\A q \in Proc : Leaves(q) => uid(q) # u)' <=> \A q \in Proc : Leaves(q) => uid(q) # u
    BY <1>2
  <2> QED
    BY <2>1, <2>2 DEF isIn
<1> QED
  BY <1>5, <1>6

\* All that shows of a step of p: the account of its user, and its answer.
Sees(p) ==
    /\ passwords' = [passwords EXCEPT ![uid(p)] = passwordFor(p)']
    /\ inside' = IF isInFor(p)' THEN inside \cup {uid(p)} ELSE inside \ {uid(p)}
    /\ asking' = IF Asks(p)' THEN asking \cup {p} ELSE asking \ {p}
    /\ answers' = [answers EXCEPT ![p] = answerOf(p)']

Shown(p) == /\ passwords[uid(p)] = passwordFor(p)
            /\ uid(p) \in inside <=> isInFor(p)
            /\ p \in asking <=> Asks(p)
            /\ answers[p] = answerOf(p)

LEMMA ServeShows ==
    ASSUME TypeInv, TypeInv', TurnInv, NEW p \in Proc, Serve(p), Shape(p), Deed(p)
    PROVE  Shown(p) /\ Sees(p)
<1>1. job' = job /\ Others(p) /\ OwnFiles(p) /\ uid(p)' = uid(p) /\ uid(p) \in User
  BY Touches, Typed DEF Shape
<1>2. Alone(p)
  BY OneByOne DEF TurnInv, Deed, Refused, Searched, Registers, LetIn, Passed, Builds, Opens, Fills, Changes,
     Fails, LogsIn, Drops, LogsOut
<1>3. Alone(p)'
  BY <1>1, <1>2, OthersStay DEF Alone
<1>4. /\ passwordOf(uid(p)) = passwordFor(p) /\ (isIn(uid(p)) <=> isInFor(p))
      /\ passwordOf(uid(p))' = passwordFor(p)' /\ (isIn(uid(p))' <=> isInFor(p)')
  BY <1>2, <1>3, AllOwn, NextOwn DEF Own
<1>5. ASSUME NEW u \in User \ {uid(p)} PROVE passwordOf(u)' = passwordOf(u) /\ (isIn(u)' <=> isIn(u))
  <2>1. pass'[u] = pass[u] /\ (u \in loggedIn' <=> u \in loggedIn)
    BY <1>1 DEF OwnFiles
  <2> QED
    BY <1>1, <2>1, Elsewhere
<1>6. ASSUME NEW q \in Proc \ {p} PROVE (q \in asking' <=> q \in asking) /\ answerOf(q)' = answerOf(q)
  <2>1. Place(q)' = Place(q) /\ op(q)' = op(q) /\ reply'[q] = reply[q]
    BY <1>1, OthersStay
  <2>2. Placed(q) /\ Placed(q)'
    BY AllPlaced, NextPlaced
  <2> QED
    BY <2>1, <2>2 DEF Placed, asking, answerOf, Decided
<1>7. passwords' = [passwords EXCEPT ![uid(p)] = passwordFor(p)'] /\ passwords[uid(p)] = passwordFor(p)
  BY <1>1, <1>4, <1>5 DEF passwords
<1>8. inside' = IF isInFor(p)' THEN inside \cup {uid(p)} ELSE inside \ {uid(p)}
  BY <1>1, <1>4, <1>5 DEF inside
<1>9. asking' = IF Asks(p)' THEN asking \cup {p} ELSE asking \ {p}
  <2>1. asking \subseteq Proc /\ asking' \subseteq Proc /\ (p \in asking' <=> Asks(p)')
    BY DEF asking, Asks
  <2> QED
    BY <1>6, <2>1
<1>10. answers' = [answers EXCEPT ![p] = answerOf(p)']
  BY <1>6 DEF answers
<1>11. Shown(p)
  BY <1>1, <1>4, <1>7 DEF Shown, inside, asking, answers, Asks
<1> QED
  BY <1>7, <1>8, <1>9, <1>10, <1>11 DEF Sees

LEMMA Unseen ==
    ASSUME NEW p \in Proc, uid(p) \in User, Shown(p), Sees(p), job' = job, known' = known,
           passwordFor(p)' = passwordFor(p), isInFor(p)' <=> isInFor(p),
           Asks(p)' <=> Asks(p), answerOf(p)' = answerOf(p)
    PROVE  UNCHANGED Service!serviceVars
<1>1. passwords' = passwords
  BY DEF Sees, Shown, passwords
<1>2. answers' = answers
  BY DEF Sees, Shown, answers
<1>3. inside' = inside /\ asking' = asking
  BY DEF Sees, Shown
<1> QED
  BY <1>1, <1>2, <1>3 DEF Service!serviceVars, Service!directory

LEMMA SeenDone ==
    ASSUME NEW p \in Proc, Sees(p), Shown(p), job' = job, Asks(p), ~Asks(p)', NEW r,
           r \in Service!Outcome(job[p]), Service!Effect(job[p], r),
           answerOf(p)' = Service!Word(op(p), r)
    PROVE  Service!Serve(p)
  BY DEF Service!Serve, Sees, Shown

\* A request that leaves the account alone.
LEMMA SeenRead ==
    ASSUME TypeInv, NEW p \in Proc, Sees(p), Shown(p), job' = job, Asks(p), ~Asks(p)', known' = known,
           passwordFor(p)' = passwordFor(p), isInFor(p)' <=> isInFor(p), NEW r,
           r \in Service!Outcome(job[p]),
           r \notin {"SUCCESS", "REGISTERED"} \/ (r = "SUCCESS" /\ op(p) \in {"query", "order", "close"}),
           answerOf(p)' = Service!Word(op(p), r)
    PROVE  Service!Serve(p)
<1>1. passwords' = passwords
  BY DEF Sees, Shown, passwords
<1>2. inside' = inside
  BY DEF Sees, Shown
<1>3. Service!Effect(job[p], r)
  BY <1>1, <1>2 DEF Service!Effect, Service!login, Service!logout, Service!unregister, Service!changePass,
     Service!directory
<1> QED
  BY <1>3, SeenDone

\* The step is one that shows nothing, or one that serves the request.
Implements(p) == UNCHANGED Service!serviceVars \/ Service!Serve(p)

\* What each process has decided, before and after a step of p.
LEMMA Views ==
    ASSUME TypeInv, TypeInv', NEW p \in Proc, Shape(p)
    PROVE  /\ Enrols(p) <=> op(p) = "login" /\ Place(p) \in Opening
           /\ Rewrites(p) <=> op(p) = "changePass" /\ Place(p) = "writePass"
           /\ Leaves(p) <=> op(p) = "unregister" /\ Place(p) = "dropLogin"
           /\ Asks(p) <=> Place(p) # "idle" /\ ~Enrols(p) /\ ~Rewrites(p) /\ ~Leaves(p)
           /\ Enrols(p)' <=> op(p) = "login" /\ Place(p)' \in Opening
           /\ Rewrites(p)' <=> op(p) = "changePass" /\ Place(p)' = "writePass"
           /\ Leaves(p)' <=> op(p) = "unregister" /\ Place(p)' = "dropLogin"
           /\ Asks(p)' <=> Place(p)' # "idle" /\ ~Enrols(p)' /\ ~Rewrites(p)' /\ ~Leaves(p)'
           /\ job' = job /\ op(p)' = op(p) /\ uid(p)' = uid(p) /\ Written(p)' = Written(p)
           /\ uid(p) \in User /\ job[p].pw \in Password /\ Written(p) \in Password
           /\ pass \in [User -> Password \cup {NoFile, Blank}]
           /\ op(p) \in Datagrams \cup Connections
<1>1. Placed(p) /\ Placed(p)'
  BY AllPlaced, NextPlaced
<1>2. job' = job /\ op(p)' = op(p) /\ uid(p)' = uid(p)
  BY DEF Shape
<1> QED
  BY <1>1, <1>2, Typed DEF Placed, Asks, Decided, TypeInv, StoreOK, Written

\* Checks that go on show nothing.
LEMMA CheckShows ==
    ASSUME TypeInv, TypeInv', TurnInv, NEW p \in Proc, Serve(p), Shape(p), Deed(p),
           Searched(p) \/ Registers(p) \/ LetIn(p)
    PROVE  Implements(p)
<1>1. Shown(p) /\ Sees(p)
  BY ServeShows
<1>2. known' = known /\ pass' = pass /\ loggedIn' = loggedIn /\ reply' = reply
  BY KnownGrows DEF Searched, Registers, LetIn, Same
<1>3. /\ ~Enrols(p) /\ ~Rewrites(p) /\ ~Leaves(p) /\ Asks(p)
      /\ ~Enrols(p)' /\ ~Rewrites(p)' /\ ~Leaves(p)' /\ Asks(p)'
  BY Views DEF Searched, Registers, LetIn, Opening
<1>4. /\ passwordFor(p)' = passwordFor(p) /\ (isInFor(p)' <=> isInFor(p))
      /\ answerOf(p)' = answerOf(p)
  BY <1>2, <1>3, Views DEF passwordFor, isInFor, answerOf, Decided, Puts
<1> QED
  BY <1>1, <1>2, <1>3, <1>4, Unseen, Views DEF Implements

\* So do the steps that put on file what has been decided.
LEMMA FilingShows ==
    ASSUME TypeInv, TypeInv', TurnInv, NEW p \in Proc, Serve(p), Shape(p), Deed(p),
           \/ Opens(p) /\ op(p) = "login"
           \/ Fills(p) \/ Changes(p)
           \/ LogsIn(p) /\ Place(p) = "firstLogin"
           \/ LogsOut(p) /\ op(p) = "unregister"
    PROVE  Implements(p)
<1>1. Shown(p) /\ Sees(p)
  BY ServeShows
<1>2. known' = known
  BY KnownGrows DEF Opens, Fills, Changes, LogsIn, LogsOut
<1>3. orphan = {} /\ Safe(p)
  BY DEF TurnInv
<1>4. /\ passwordFor(p)' = passwordFor(p) /\ (isInFor(p)' <=> isInFor(p))
      /\ ~Asks(p) /\ ~Asks(p)'
      /\ answerOf(p)' = answerOf(p)
  <2>1. CASE (Opens(p) /\ op(p) = "login") \/ Fills(p)
    <3>1. Enrols(p) /\ Enrols(p)' /\ ~Leaves(p) /\ ~Leaves(p)'
      BY <2>1, Views DEF Opens, Fills, Opening
    <3> QED
      BY <3>1, Views DEF passwordFor, isInFor, answerOf, Decided, Puts
  <2>2. CASE Changes(p)
    <3>1. Rewrites(p) /\ ~Enrols(p) /\ ~Leaves(p) /\ ~Rewrites(p)' /\ ~Enrols(p)' /\ ~Leaves(p)' /\ Place(p)' = "idle"
      BY <2>2, Views DEF Changes, Opening
    <3>2. pass'[uid(p)] = Written(p) /\ loggedIn' = loggedIn /\ reply'[p] = "OK"
      BY <1>3, <2>2, Views DEF Changes, Stores
    <3> QED
      BY <3>1, <3>2, Views DEF passwordFor, isInFor, answerOf, Decided, Puts
  <2>3. CASE LogsIn(p) /\ Place(p) = "firstLogin"
    <3>1. /\ Enrols(p) /\ ~Leaves(p) /\ ~Rewrites(p)' /\ ~Enrols(p)' /\ ~Leaves(p)'
          /\ Place(p)' = "idle" /\ op(p) = "login"
      BY <2>3, Views, Located DEF LogsIn, Opening
    <3>2. pass'[uid(p)] = Written(p) /\ uid(p) \in loggedIn' /\ reply'[p] = "REG"
      BY <1>3, <2>3, <3>1 DEF LogsIn, Safe, Written
    <3> QED
      BY <3>1, <3>2, Views DEF passwordFor, isInFor, answerOf, Decided, Puts
  <2>4. CASE LogsOut(p) /\ op(p) = "unregister"
    <3>1. /\ Leaves(p) /\ ~Enrols(p) /\ ~Rewrites(p) /\ ~Rewrites(p)' /\ ~Enrols(p)' /\ ~Leaves(p)'
          /\ Place(p)' = "idle"
      BY <2>4, Views DEF LogsOut, Opening
    <3>2. pass' = pass /\ uid(p) \notin loggedIn' /\ reply'[p] = "OK"
      BY <2>4 DEF LogsOut
    <3> QED
      BY <3>1, <3>2, Views DEF passwordFor, isInFor, answerOf, Decided, Puts
  <2> QED
    BY <2>1, <2>2, <2>3, <2>4
<1> QED
  BY <1>1, <1>2, <1>4, Unseen, Views DEF Implements

LEMMA Results ==
    ASSUME NEW p \in Proc, op(p) \in Datagrams \cup Connections, Shown(p),
           passwordFor(p) = pass[uid(p)], isInFor(p) <=> uid(p) \in loggedIn
    PROVE  LET u == uid(p)
               match(m, wrong) == IF pass[u] = NoFile THEN {"IO_ERROR"} ELSE IF pass[u] = job[p].pw THEN m ELSE {wrong}
           IN /\ op(p) = "login" => Service!Outcome(job[p]) =
                    IF pass[u] = NoFile THEN {"REGISTERED"} ELSE match({"SUCCESS"}, "WRONG_PASS")
              /\ op(p) \in {"logout", "unregister"} => Service!Outcome(job[p]) =
                    IF pass[u] = NoFile THEN {"NOT_REGISTERED"}
                    ELSE IF u \notin loggedIn THEN {"NOT_LOGGED_IN"} ELSE match({"SUCCESS"}, "WRONG_PASS")
              /\ op(p) = "changePass" => Service!Outcome(job[p]) =
                    IF u \notin known THEN {"NOT_REGISTERED"}
                    ELSE IF u \notin loggedIn THEN {"NOT_LOGGED_IN"} ELSE match({"SUCCESS"}, "WRONG_PASS")
              /\ op(p) = "close" => Service!Outcome(job[p]) =
                    IF u \notin known THEN {"WRONG_USER_PASS"}
                    ELSE match(IF u \in loggedIn THEN {"SUCCESS"} ELSE {"NOT_LOGGED_IN"}, "WRONG_USER_PASS")
              /\ op(p) \in {"query", "order"} => Service!Outcome(job[p]) =
                    IF u \in loggedIn THEN match({"SUCCESS"}, "WRONG_PASS") ELSE {"NOT_LOGGED_IN"}
<1> USE DEF Service!Outcome, Service!Checked, Service!user_registered, Service!user_logged_in, Service!user_exists,
           Shown
<1>1. CASE op(p) = "login"
  BY <1>1 DEF Service!LoginResult
<1>2. CASE op(p) \in {"logout", "unregister"}
  BY <1>2 DEF Service!LeaveResult
<1>3. CASE op(p) = "changePass"
  BY <1>3 DEF Service!ChangePassResult
<1>4. CASE op(p) = "close"
  BY <1>4 DEF Service!CloseAdmission
<1>5. CASE op(p) \in {"query", "order"}
  BY <1>5 DEF Service!Admission
<1> QED
  BY <1>1, <1>2, <1>3, <1>4, <1>5 DEF Datagrams, Connections

\* A refusal, or an admission that changes no account, is served where it is
\* decided.
LEMMA ReadShows ==
    ASSUME TypeInv, TypeInv', TurnInv, NEW p \in Proc, Serve(p), Shape(p), Deed(p),
           Refused(p) \/ Passed(p)
    PROVE  Implements(p)
<1>1. Shown(p) /\ Sees(p)
  BY ServeShows
<1>2. known' = known /\ pass' = pass /\ loggedIn' = loggedIn
  BY KnownGrows DEF Refused, Passed, Same
<1>3. /\ ~Enrols(p) /\ ~Rewrites(p) /\ ~Leaves(p) /\ Asks(p)
      /\ ~Enrols(p)' /\ ~Rewrites(p)' /\ ~Leaves(p)' /\ ~Asks(p)'
  BY Views DEF Refused, Passed, Opening
<1>4. /\ passwordFor(p) = pass[uid(p)] /\ (isInFor(p) <=> uid(p) \in loggedIn)
      /\ passwordFor(p)' = passwordFor(p) /\ (isInFor(p)' <=> isInFor(p))
      /\ answerOf(p)' = reply'[p]
  BY <1>2, <1>3, Views DEF passwordFor, isInFor, answerOf, Decided, Puts
<1>5. Safe(p) /\ pass[uid(p)] # Blank /\ NoFile # job[p].pw
  BY NotBlank, Views, AccountFiles DEF TurnInv, Refused, Passed
<1> DEFINE Ready(r) == /\ r \in Service!Outcome(job[p])
                       /\ \/ r \notin {"SUCCESS", "REGISTERED"}
                          \/ r = "SUCCESS" /\ op(p) \in {"query", "order", "close"}
                       /\ reply'[p] = Service!Word(op(p), r)
<1>6. ASSUME NEW r, Ready(r) PROVE Implements(p)
  BY <1>1, <1>2, <1>3, <1>4, <1>6, SeenRead, Views DEF Implements
<1> HIDE DEF Ready
<1>7. CASE Refused(p) /\ Place(p) = "registered"
  <2>1. op(p) \in {"logout", "unregister"} /\ pass[uid(p)] = NoFile /\ reply'[p] = "UNR"
    BY <1>7, Located DEF Refused, Why
  <2>2. Ready("NOT_REGISTERED")
    BY <1>1, <1>4, <2>1, Results DEF Ready, Service!Word, Datagrams
  <2> QED
    BY <1>6, <2>2
<1>8. CASE Refused(p) /\ Place(p) = "directory"
  <2>1. /\ op(p) \in {"changePass", "close"} /\ uid(p) \notin known
        /\ reply'[p] = IF op(p) = "close" THEN "WRP" ELSE "NID"
    BY <1>8, Located DEF Refused, Why
  <2>2. CASE op(p) = "changePass"
    <3>1. Ready("NOT_REGISTERED")
      BY <1>1, <1>4, <2>1, <2>2, Results DEF Ready, Service!Word, Connections
    <3> QED
      BY <1>6, <3>1
  <2>3. CASE op(p) = "close"
    <3>1. Ready("WRONG_USER_PASS")
      BY <1>1, <1>4, <2>1, <2>3, Results DEF Ready, Service!Word, Connections
    <3> QED
      BY <1>6, <3>1
  <2> QED
    BY <2>1, <2>2, <2>3
<1>9. CASE Refused(p) /\ Place(p) = "session"
  <2>1. uid(p) \notin loggedIn /\ reply'[p] = "NLG" /\ op(p) # "login" /\ op(p) \in Datagrams \cup Connections
    BY <1>9, Located, Views DEF Refused, Why
  <2>2. /\ op(p) \in {"logout", "unregister"} => pass[uid(p)] # NoFile
        /\ op(p) \in {"changePass", "close"} => uid(p) \in known
        /\ op(p) = "close" => pass[uid(p)] = job[p].pw
    BY <1>5, <1>9 DEF Safe, Verified
  <2>3. Service!Outcome(job[p]) = {"NOT_LOGGED_IN"}
    BY <1>1, <1>4, <1>5, <2>1, <2>2, Results DEF Datagrams, Connections
  <2>4. Ready("NOT_LOGGED_IN")
    BY <2>1, <2>3 DEF Ready, Service!Word
  <2> QED
    BY <1>6, <2>4
<1>10. ASSUME Place(p) = "password"
       PROVE  /\ op(p) \in {"login", "logout", "unregister"} => pass[uid(p)] # NoFile
              /\ op(p) \notin {"login", "close"} => uid(p) \in loggedIn
              /\ op(p) \in {"changePass", "close"} => uid(p) \in known
              /\ op(p) \in Datagrams \cup Connections
  BY <1>5, <1>10, Views DEF Safe
<1>11. CASE Refused(p) /\ Place(p) = "password" /\ pass[uid(p)] = NoFile
  <2>1. reply'[p] = "ERROR"
    BY <1>11 DEF Refused, Why
  <2>2. Service!Outcome(job[p]) = {"IO_ERROR"}
    BY <1>1, <1>4, <1>10, <1>11, Results DEF Datagrams, Connections
  <2>3. Ready("IO_ERROR")
    BY <2>1, <2>2 DEF Ready, Service!Word
  <2> QED
    BY <1>6, <2>3
<1>12. CASE Refused(p) /\ Place(p) = "password" /\ pass[uid(p)] # NoFile
  <2>1. reply'[p] = "WRP" /\ pass[uid(p)] # job[p].pw
    BY <1>5, <1>12 DEF Refused, Why
  <2>2. Service!Outcome(job[p]) = {IF op(p) = "close" THEN "WRONG_USER_PASS" ELSE "WRONG_PASS"}
    BY <1>1, <1>4, <1>10, <1>12, <2>1, Results DEF Datagrams, Connections
  <2>3. Ready(IF op(p) = "close" THEN "WRONG_USER_PASS" ELSE "WRONG_PASS")
    BY <2>1, <2>2 DEF Ready, Service!Word
  <2> QED
    BY <1>6, <2>3
<1>13. CASE Passed(p)
  <2>1. /\ reply'[p] = "OK"
        /\ \/ Place(p) = "password" /\ pass[uid(p)] = job[p].pw /\ op(p) \in {"query", "order"}
           \/ Place(p) = "session" /\ op(p) = "close" /\ uid(p) \in loggedIn
    BY <1>13 DEF Passed, Admits
  <2>2. /\ pass[uid(p)] = job[p].pw /\ uid(p) \in loggedIn
        /\ op(p) = "close" => uid(p) \in known
    BY <1>5, <1>10, <2>1 DEF Safe, Verified
  <2>3. op(p) \in {"query", "order", "close"} /\ Service!Outcome(job[p]) = {"SUCCESS"}
    BY <1>1, <1>4, <1>5, <2>1, <2>2, Results DEF Datagrams, Connections
  <2>4. Ready("SUCCESS")
    BY <2>1, <2>3 DEF Ready, Service!Word
  <2> QED
    BY <1>6, <2>4
<1> QED
  BY <1>7, <1>8, <1>9, <1>11, <1>12, <1>13 DEF Refused

\* A change of the account is served with its first step.
LEMMA ChangeShows ==
    ASSUME TypeInv, TypeInv', TurnInv, NEW p \in Proc, Serve(p), Shape(p), Deed(p),
           \/ Builds(p) \/ Drops(p)
           \/ Opens(p) /\ op(p) = "changePass"
           \/ LogsIn(p) /\ Place(p) = "createLogin"
           \/ LogsOut(p) /\ op(p) = "logout"
    PROVE  Implements(p)
<1>1. Shown(p) /\ Sees(p)
  BY ServeShows
<1>2. Place(p) = "makeDirs" <=> Builds(p)
  BY DEF Builds, Drops, Opens, LogsIn, LogsOut
<1>3. known' = IF Builds(p) THEN known \cup {uid(p)} ELSE known
  BY <1>2, KnownGrows
<1>4. Safe(p) /\ NoFile # job[p].pw
  BY Views, AccountFiles DEF TurnInv
<1>5. ~Enrols(p) /\ ~Rewrites(p) /\ ~Leaves(p) /\ Asks(p) /\ ~Asks(p)'
  BY Views, Located DEF Builds, Drops, Opens, LogsIn, LogsOut, Opening
<1>6. passwordFor(p) = pass[uid(p)] /\ (isInFor(p) <=> uid(p) \in loggedIn)
  BY <1>5 DEF passwordFor, isInFor, Puts
<1>7. /\ passwords' = [passwords EXCEPT ![uid(p)] = passwordFor(p)']
      /\ passwords[uid(p)] = pass[uid(p)]
      /\ inside' = IF isInFor(p)' THEN inside \cup {uid(p)} ELSE inside \ {uid(p)}
      /\ uid(p) \in inside <=> uid(p) \in loggedIn
  BY <1>1, <1>6 DEF Sees, Shown
<1> DEFINE Ready(r) == /\ r \in Service!Outcome(job[p])
                       /\ Service!Effect(job[p], r)
                       /\ answerOf(p)' = Service!Word(op(p), r)
<1>8. ASSUME NEW r, Ready(r) PROVE Implements(p)
  BY <1>1, <1>5, <1>8, SeenDone, Views DEF Implements
<1>9. passwordFor(p)' = pass[uid(p)] => passwords' = passwords
  BY <1>7 DEF passwords
<1> HIDE DEF Ready
<1>10. CASE Builds(p)
  <2>1. op(p) = "login" /\ pass[uid(p)] = NoFile /\ Enrols(p)' /\ ~Leaves(p)'
    BY <1>4, <1>10, Located, Views DEF Builds, Safe, Opening
  <2>2. passwordFor(p)' = job[p].pw /\ isInFor(p)' /\ answerOf(p)' = "REG"
    BY <2>1, Views DEF passwordFor, isInFor, answerOf, Puts, Written
  <2>3. "REGISTERED" \in Service!Outcome(job[p])
    BY <1>1, <1>6, <2>1, Results DEF Datagrams
  <2>4. Service!Effect(job[p], "REGISTERED")
    BY <1>3, <1>7, <1>10, <2>1, <2>2 DEF Service!Effect, Service!login
  <2>5. Ready("REGISTERED")
    BY <2>1, <2>2, <2>3, <2>4 DEF Ready, Service!Word
  <2> QED
    BY <1>8, <2>5
<1>11. CASE Opens(p) /\ op(p) = "changePass"
  <2>1. /\ Rewrites(p)' /\ ~Enrols(p)' /\ ~Leaves(p)' /\ loggedIn' = loggedIn
        /\ pass[uid(p)] = job[p].pw /\ uid(p) \in loggedIn /\ uid(p) \in known
    BY <1>4, <1>11, Views DEF Opens, Safe, Verified
  <2>2. passwordFor(p)' = job[p].new /\ isInFor(p)' /\ answerOf(p)' = "OK"
    BY <1>11, <2>1, Views DEF passwordFor, isInFor, answerOf, Decided, Puts, Written
  <2>3. "SUCCESS" \in Service!Outcome(job[p])
    BY <1>1, <1>4, <1>6, <1>11, <2>1, Results DEF Connections
  <2>4. Service!Effect(job[p], "SUCCESS")
    BY <1>2, <1>3, <1>7, <1>11, <2>1, <2>2 DEF Service!Effect, Service!changePass, Opens
  <2>5. Ready("SUCCESS")
    BY <2>2, <2>3, <2>4 DEF Ready, Service!Word
  <2> QED
    BY <1>8, <2>5
<1>12. CASE LogsIn(p) /\ Place(p) = "createLogin"
  <2>1. /\ op(p) = "login" /\ ~Enrols(p)' /\ ~Rewrites(p)' /\ ~Leaves(p)' /\ Place(p)' = "idle"
        /\ uid(p) \in loggedIn' /\ pass' = pass /\ reply'[p] = "OK" /\ pass[uid(p)] = job[p].pw
    BY <1>4, <1>12, Located, Views DEF LogsIn, Safe, Verified, Opening
  <2>2. passwordFor(p)' = pass[uid(p)] /\ isInFor(p)' /\ answerOf(p)' = "OK"
    BY <2>1, Views DEF passwordFor, isInFor, answerOf, Decided, Puts
  <2>3. "SUCCESS" \in Service!Outcome(job[p])
    BY <1>1, <1>4, <1>6, <2>1, Results DEF Datagrams
  <2>4. Service!Effect(job[p], "SUCCESS")
    BY <1>2, <1>3, <1>7, <1>9, <1>12, <2>1, <2>2 DEF Service!Effect, Service!login
  <2>5. Ready("SUCCESS")
    BY <2>2, <2>3, <2>4 DEF Ready, Service!Word
  <2> QED
    BY <1>8, <2>5
<1>13. CASE LogsOut(p) /\ op(p) = "logout"
  <2>1. /\ ~Enrols(p)' /\ ~Rewrites(p)' /\ ~Leaves(p)' /\ Place(p)' = "idle"
        /\ uid(p) \notin loggedIn' /\ pass' = pass /\ reply'[p] = "OK"
        /\ pass[uid(p)] = job[p].pw /\ uid(p) \in loggedIn
    BY <1>4, <1>13, Views DEF LogsOut, Safe, Verified
  <2>2. passwordFor(p)' = pass[uid(p)] /\ ~isInFor(p)' /\ answerOf(p)' = "OK"
    BY <2>1, Views DEF passwordFor, isInFor, answerOf, Decided, Puts
  <2>3. "SUCCESS" \in Service!Outcome(job[p])
    BY <1>1, <1>4, <1>6, <1>13, <2>1, Results DEF Datagrams
  <2>4. Service!Effect(job[p], "SUCCESS")
    BY <1>2, <1>3, <1>7, <1>9, <1>13, <2>1, <2>2 DEF Service!Effect, Service!logout, LogsOut
  <2>5. Ready("SUCCESS")
    BY <2>2, <2>3, <2>4 DEF Ready, Service!Word
  <2> QED
    BY <1>8, <2>5
<1>14. CASE Drops(p)
  <2>1. /\ op(p) = "unregister" /\ ~Enrols(p)' /\ ~Rewrites(p)' /\ Leaves(p)'
        /\ pass'[uid(p)] = NoFile /\ pass[uid(p)] = job[p].pw /\ uid(p) \in loggedIn
    BY <1>4, <1>14, Located, Views DEF Drops, Safe, Verified, Opening
  <2>2. passwordFor(p)' = NoFile /\ ~isInFor(p)' /\ answerOf(p)' = "OK"
    BY <2>1, Views DEF passwordFor, isInFor, answerOf, Decided, Puts
  <2>3. "SUCCESS" \in Service!Outcome(job[p])
    BY <1>1, <1>4, <1>6, <2>1, Results DEF Datagrams
  <2>4. Service!Effect(job[p], "SUCCESS")
    BY <1>2, <1>3, <1>7, <1>14, <2>1, <2>2 DEF Service!Effect, Service!unregister, Drops
  <2>5. Ready("SUCCESS")
    BY <2>2, <2>3, <2>4 DEF Ready, Service!Word
  <2> QED
    BY <1>8, <2>5
<1> QED
  BY <1>10, <1>11, <1>12, <1>13, <1>14

LEMMA ServeImplements ==
    ASSUME TypeInv, TypeInv', TurnInv, NEW p \in Proc, Serve(p), ~WritesMayFail
    PROVE  Implements(p)
<1>1. Shape(p) /\ Deed(p)
  BY Deeds
<1>2. /\ LogsIn(p) => Place(p) \in {"createLogin", "firstLogin"}
      /\ LogsOut(p) => op(p) \in {"logout", "unregister"}
      /\ Opens(p) => op(p) \in {"login", "changePass"}
      /\ ~Fails(p)
  BY Located DEF LogsIn, LogsOut, Opens, Fails
<1> QED
  BY <1>1, <1>2, CheckShows, FilingShows, ReadShows, ChangeShows DEF Deed

\* A request that arrives is asked of the service.
LEMMA ArrivalAsks ==
    ASSUME TypeInv, TypeInv', NEW p \in Proc, NEW r \in Requests, Arrives(p, r)
    PROVE  r \in Request /\ Service!Ask(p, r)
<1>1. /\ Place(p) = "idle" /\ Fresh(p, r)
      /\ job' = [job EXCEPT ![p] = r]
      /\ UNCHANGED <<known, pass, loggedIn>>
  BY Arrived DEF Arrives, Receive, files
<1>2. /\ ~Puts(p) /\ ~Leaves(p) /\ ~Asks(p) /\ ~Puts(p)' /\ ~Leaves(p)' /\ Asks(p)'
      /\ answerOf(p)' = "none"
  <2>1. Placed(p) /\ Placed(p)'
    BY AllPlaced, NextPlaced
  <2> QED
    BY <1>1, <2>1 DEF Placed, Fresh, Puts, Asks, Decided, answerOf, Opening
<1>3. \A u \in User : passwordOf(u)' = passwordOf(u) /\ (isIn(u)' <=> isIn(u))
  BY <1>1, <1>2, Elsewhere DEF Fresh
<1>4. ASSUME NEW q \in Proc \ {p} PROVE (q \in asking' <=> q \in asking) /\ answerOf(q)' = answerOf(q)
  <2>1. Place(q)' = Place(q) /\ op(q)' = op(q) /\ reply'[q] = reply[q]
    BY <1>1, OthersStay DEF Fresh
  <2>2. Placed(q) /\ Placed(q)'
    BY AllPlaced, NextPlaced
  <2> QED
    BY <2>1, <2>2 DEF Placed, asking, answerOf, Decided
<1>5. passwords' = passwords /\ inside' = inside
  BY <1>3 DEF passwords, inside
<1>6. p \notin asking /\ asking' = asking \cup {p}
  <2>1. asking \subseteq Proc /\ asking' \subseteq Proc /\ p \in asking' /\ p \notin asking
    BY <1>2 DEF asking, Asks
  <2> QED
    BY <1>4, <2>1
<1>7. answers' = [answers EXCEPT ![p] = "none"]
  BY <1>2, <1>4 DEF answers
<1> QED
  BY <1>1, <1>5, <1>6, <1>7 DEF Service!Ask, Service!directory, Fresh

LEMMA StillSame == ASSUME UNCHANGED vars PROVE UNCHANGED Service!serviceVars
  BY DEF vars, files, history, Service!serviceVars, Service!directory, passwords, inside, asking, answers,
     passwordOf, isIn, answerOf, Setting, Decided, Enrols, Rewrites, Leaves, At, Busy, Written

LEMMA NextTurn ==
    ASSUME TypeInv, TypeInv', TurnInv, [Next /\ InTurn']_vars, ~WritesMayFail, ~MayCrash
    PROVE  TurnInv' /\ [Service!Next]_Service!serviceVars
<1>1. CASE UNCHANGED vars
  <2>1. TurnInv'
    BY <1>1 DEF vars, files, history, TurnInv, InTurn, NoBlank, Safe, Verified, Place, Busy
  <2> QED
    BY <1>1, <2>1, StillSame
<1>2. CASE (Datagram \/ \E c \in Child : Accept(c)) /\ InTurn'
  <2>1. PICK p \in Proc, r \in Requests : Arrives(p, r)
    BY <1>2, Arrivals
  <2> QED
    BY <1>2, <2>1, ArrivalKeepsTurn, ArrivalAsks DEF Service!Next
<1>3. ASSUME NEW p \in Proc, Serve(p), InTurn' PROVE TurnInv' /\ [Service!Next]_Service!serviceVars
  BY <1>3, ServeKeepsTurn, ServeImplements DEF Service!Next, Implements
<1> QED
  BY <1>1, <1>2, <1>3 DEF Next, Crash

LEMMA InitService == ASSUME Init PROVE Service!Init
<1>1. TypeInv /\ \A p \in Proc : Place(p) = "idle"
  BY InitTyped
<1>2. \A p \in Proc : ~Enrols(p) /\ ~Rewrites(p) /\ ~Leaves(p) /\ ~Busy(p)
  BY <1>1, AllPlaced DEF Placed, Opening
<1>3. \A u \in User : Setting(u) = {}
  BY <1>2 DEF Setting
<1>4. passwords = Initial
  BY <1>3, AccountFiles DEF Init, passwords, passwordOf
<1>5. inside = {} /\ asking = {}
  BY <1>2, <1>3 DEF Init, inside, isIn, asking
<1>6. answers = [p \in Proc |-> "none"]
  BY <1>2 DEF Init, answers, answerOf, Decided
<1>7. job \in [Proc -> Request]
  BY <1>1 DEF TypeInv, StoreOK
<1> QED
  BY <1>4, <1>5, <1>6, <1>7 DEF Init, Registered, Service!Init, Service!DirectoryInit

\* When writes do not fail, nothing crashes and no two requests of a user
\* overlap, the files behave as if the server took each request of
\* operations.cpp in a single step, however the requests of different users
\* interleave: no check, however many file operations before the change it
\* admits, goes stale, and nobody can tell a half-done registration, change of
\* password or unregister from a finished one.
THEOREM AccountsImplementDirectory == ~WritesMayFail /\ ~MayCrash /\ TurnSpec => ImplementsDirectory
<1> SUFFICES ASSUME ~WritesMayFail, ~MayCrash PROVE TurnSpec => ImplementsDirectory
  OBVIOUS
<1>1. TypeInv /\ [Next /\ InTurn']_vars => TypeInv'
  BY NextTyped
<1>2. TypeInv /\ TypeInv' /\ TurnInv /\ [Next /\ InTurn']_vars => TurnInv' /\ [Service!Next]_Service!serviceVars
  BY NextTurn
<1>3. Init => TypeInv /\ TurnInv /\ Service!Init
  BY InitTyped, InitTurn, InitService
<1> QED
  BY <1>1, <1>2, <1>3, PTL DEF TurnSpec, ImplementsDirectory, Service!Spec
=============================================================================
