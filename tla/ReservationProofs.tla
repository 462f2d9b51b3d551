-------------------------- MODULE ReservationProofs --------------------------
(***************************************************************************)
(* Proofs about what myreservations tells a user, for any number of        *)
(* processes, users, events and requests and any limit on the answer, as   *)
(* long as writes succeed and no process is killed.                        *)
(***************************************************************************)
EXTENDS SeatsProofs, WellFoundedInduction

USE DEF eid, op, uid, people, Label, Step, StatusStep, ReserveStep, CloseStep, CreateStep, ShowStep,
        MineStep, Hung

-----------------------------------------------------------------------------
(***************************************************************************)
(* The newest of a set of times.                                           *)
(***************************************************************************)
LEMMA SmallestNumber ==
    ASSUME NEW K, K \subseteq Nat, K # {}
    PROVE  \E k \in K : \A l \in K : k <= l
<1>1. PICK k \in K : \A l \in K : <<l, k>> \notin OpToRel(<, Nat)
  BY NatLessThanWellFounded, WFMin
<1>2. \A l \in K : ~(l < k)
  BY <1>1 DEF OpToRel
<1> QED
  BY <1>2

\* A time that is not among the newest has MaxListed newer ones there.
LEMMA NewestAreEnough ==
    ASSUME NEW T, T \subseteq Nat, IsFiniteSet(T), NEW t \in T, t \notin Newest(T)
    PROVE  Cardinality({s \in Newest(T) : s > t}) >= MaxListed
<1> DEFINE after(x) == {s \in T : s > x}
           k(x) == Cardinality(after(x))
           Old == {x \in T : x \notin Newest(T)}
           K == {k(x) : x \in Old}
<1>1. \A x \in T : IsFiniteSet(after(x)) /\ k(x) \in Nat
  BY FS_Subset, FS_CardinalityType
<1>2. \A x \in Old : k(x) >= MaxListed
  BY <1>1, BoundAssumption DEF Newest
<1>3. PICK x \in Old : \A y \in Old : k(x) <= k(y)
  <2>1. K \subseteq Nat /\ K # {}
    BY <1>1
  <2> HIDE DEF K
  <2>2. PICK m \in K : \A l \in K : m <= l
    BY <2>1, SmallestNumber
  <2> QED
    BY <2>2 DEF K
<1> x \in T /\ x \in Nat /\ t \in Nat
  BY <1>3
<1>4. ASSUME NEW y \in Old, y > x
      PROVE  FALSE
  <2>0. y \in T /\ y \in Nat
    OBVIOUS
  <2>1. after(y) \subseteq after(x) /\ y \in after(x) /\ y \notin after(y)
    <3>1. ASSUME NEW s \in after(y)
          PROVE  s \in after(x)
      <4>1. s \in T /\ s \in Nat /\ s > y
        OBVIOUS
      <4>2. s > x
        BY <1>4, <2>0, <4>1
      <4> QED
        BY <4>1, <4>2
    <3>2. y \in after(x)
      BY <1>4, <2>0
    <3>3. ~(y > y)
      BY <2>0
    <3>4. y \notin after(y)
      BY <3>3
    <3> HIDE DEF after
    <3> QED
      BY <3>1, <3>2, <3>4
  <2>2. IsFiniteSet(after(x)) /\ k(x) <= k(y)
    BY <1>1, <1>3
  <2> HIDE DEF after
  <2>3. k(y) < k(x)
    BY <2>1, <2>2, FS_Subset, FS_CardinalityType
  <2> QED
    BY <1>1, <2>0, <2>2, <2>3
<1>5. after(x) \subseteq {s \in Newest(T) : s > t}
  <2>1. t \in Old /\ ~(t > x)
    BY <1>4
  <2>2. ASSUME NEW s \in after(x)
        PROVE  s \in Newest(T) /\ s > t
    <3>1. s \in T /\ s > x /\ s \in Nat
      OBVIOUS
    <3>2. s \in Newest(T)
      BY <1>4, <3>1
    <3> QED
      BY <2>1, <3>1, <3>2
  <2> QED
    BY <2>2
<1>6. {s \in Newest(T) : s > t} \subseteq after(t)
  BY DEF Newest
<1>7. k(x) <= Cardinality({s \in Newest(T) : s > t}) /\ Cardinality({s \in Newest(T) : s > t}) \in Nat
  BY <1>1, <1>5, <1>6, FS_Subset, FS_CardinalityType
<1> QED
  BY <1>1, <1>2, <1>7, BoundAssumption

\* There are at least as many reservations as dates among them.
LEMMA FewerDates ==
    ASSUME NEW S, IsFiniteSet(S)
    PROVE  /\ IsFiniteSet({g.at : g \in S})
           /\ Cardinality({g.at : g \in S}) <= Cardinality(S)
<1> DEFINE at == [g \in S |-> g.at]
           T == {g.at : g \in S}
<1>1. at \in Surjection(S, T)
  BY DEF Surjection
<1> QED
  BY <1>1, FS_Surjection

-----------------------------------------------------------------------------
(***************************************************************************)
(* The invariant.                                                          *)
(***************************************************************************)
Named == {"userWrite", "eventFile", "resOpen", "resWrite"}

\* A reservation takes the name of its file when it opens it, and keeps it.
HasName(c) == op(c) = "reserve" /\ (reply[c] = "ACC" \/ pc[c] \in Named)
Contested(f) == \E c, d \in Child : c # d /\ TookName(c, f) /\ TookName(d, f)
InPlace(f) == f \in userRes \/ Contested(f)

\* What is on file with an event was put there by a reservation that took the
\* name, and what has been written for a user stays, unless the name is taken
\* twice.
Kept(c) ==
    /\ op(c) = "reserve" /\ pc[c] \in Named \ {"userWrite"} => InPlace(Filing(c))
    /\ reply[c] = "ACC" /\ Filing(c) \in eventRes => InPlace(Filing(c))
    /\ pc[c] = "userWrite" => \E g \in userRes : SameName(g, Filing(c))
FilesInv == /\ IsFiniteSet(userRes)
            /\ \A f \in eventRes : \E c \in Child : TookName(c, f)
            /\ \A c \in Child : Kept(c)

\* What the user is to be told of is in place.
Owing(p) == \A f \in owed[p] : /\ f.uid = uid(p) /\ InPlace(f)
                              /\ \E c \in Child : TookName(c, f) /\ reply[c] = "ACC"

\* While the files are read, each of them has been found, is still to come, or
\* is older than MaxListed that have been found or are still to come.
Times(p) == job[p].names \cup {g.at : g \in job[p].found}
Newer(p, f) == {t \in Times(p) : t > f.at}
Underway(p, f) == \/ Contested(f)
                  \/ f.at \in job[p].names
                  \/ f \in job[p].found
                  \/ Cardinality(Newer(p, f)) >= MaxListed
Told(p, f) == \/ f \in job[p].found
              \/ Cardinality({g \in job[p].found : g.at > f.at}) >= MaxListed
              \/ Contested(f)

Telling(p) ==
    op(p) = "myreservations" =>
        /\ pc[p] \in {"auth", "reserved", "reading", "idle", "done"}
        /\ IsFiniteSet(job[p].found)
        /\ pc[p] = "reading" => /\ job[p].names \subseteq Names(uid(p))
                               /\ IsFiniteSet(job[p].names)
                               /\ \A f \in owed[p] : Underway(p, f)
        /\ reply[p] \in {"OK", "NOK"} => \A f \in owed[p] : Told(p, f)

ToldInv == FilesInv /\ \A p \in Proc : Owing(p) /\ Telling(p)

-----------------------------------------------------------------------------
(***************************************************************************)
(* Names are taken for good.                                               *)
(***************************************************************************)
LEMMA NamingSteps ==
    ASSUME TypeInv, LifeInv, ~WritesMayFail, NEW p \in Proc, Serve(p)
    PROVE  /\ reply[p] = "none"
           /\ HasName(p) => HasName(p)' /\ Filing(p)' = Filing(p)
           /\ HasName(p) => FileForUser(p) \/ FileForEvent(p) \/ ResOpen(p) \/ ResWrite(p)
           /\ HasName(p)' => \/ HasName(p)
                             \/ UserFileOpen(p)
                             \/ Reread(p) /\ reply'[p] = "ACC" /\ job' = job
<1>1. /\ pc \in [Proc -> Label] /\ reply \in [Proc -> Reply] /\ reply[p] = "none"
      /\ pc[p] \in ReserveStep => op(p) = "reserve" /\ p \in Child
      /\ Alone(p)
  BY ServeBusy, ServeAlone DEF TypeInv, ProcOK, LifeInv, Role
<1>2. CASE FileForUser(p) \/ FileForEvent(p) \/ ResOpen(p)
  <2>1. pc[p] \in Named /\ pc'[p] \in Named /\ job' = job /\ op(p) = "reserve"
    BY <1>1, <1>2 DEF FileForUser, FileForEvent, ResOpen, Goto, Named
  <2>2. HasName(p) /\ HasName(p)' /\ Filing(p)' = Filing(p)
    BY <1>1, <2>1, FilingFixed DEF HasName
  <2> QED
    BY <1>1, <1>2, <2>2
<1>3. CASE ResWrite(p)
  <2>1. pc[p] \in Named /\ reply'[p] = "ACC" /\ job' = job /\ op(p) = "reserve"
    BY <1>1, <1>3 DEF ResWrite, Answer, Named
  <2>2. HasName(p) /\ HasName(p)' /\ Filing(p)' = Filing(p)
    BY <1>1, <2>1, FilingFixed DEF HasName
  <2> QED
    BY <1>1, <1>3, <2>2
<1>4. CASE UserFileOpen(p)
  BY <1>1, <1>4 DEF UserFileOpen, HasName, Named
<1>5. CASE Reread(p)
  <2>1. pc[p] = "reread" /\ pc'[p] \notin Named
    BY <1>1, <1>5, FilingSteps DEF Reread, Named, UserFileOpen, FileForUser, FileForEvent, ResOpen
  <2>2. reply'[p] = "ACC" => job' = job
    BY <1>1, <1>5 DEF Reread, Answer, GotoWith
  <2> QED
    BY <1>1, <1>5, <2>1, <2>2 DEF HasName, Named
<1>6. CASE ~Reserve(p)
  <2>1. pc[p] \notin ReserveStep
    BY <1>6 DEF Serve, Auth, EventDir,
         Status, StatusStart, StatusPast, StatusEnded, StatusCount, Judged,
         Listing, Scan, Close, CloseOwner, CloseStart, CloseCount, ClosePast, CloseEnded, CloseWrite,
         Create, Allocate, CountUp, Mkdir, Register, StartOpen, StartWrite, InitOpen,
         InitWrite, DescOpen, DescLock, Upload, Newline, DropCreated, DropStart, DropRes,
         Show, ShowStart, ShowCount, ShowSize, ShowOpen, ShowStream, Send, Mine, Reserved, ReadReservation
  <2>2. reply'[p] # "ACC" /\ pc'[p] \notin Named
    BY <1>1, <1>6, <2>1, ServeBusy, FilingSteps DEF Reserve, Named
  <2> QED
    BY <1>1, <2>1, <2>2 DEF HasName, Named
<1> QED
  BY <1>2, <1>3, <1>4, <1>5, <1>6 DEF Reserve

\* Who has a name keeps it, and what is in place for somebody else stays.
NamesStay(p) ==
    /\ \A f : \A c \in Child : TookName(c, f) => TookName(c, f)'
    /\ \A f : Contested(f) => Contested(f)'
    /\ \A f : InPlace(f) /\ (\E c \in Child \ {p} : TookName(c, f)) => InPlace(f)'

LEMMA ServeKeepsNames ==
    ASSUME TypeInv, LifeInv, ~WritesMayFail, NEW p \in Proc, Serve(p)
    PROVE  NamesStay(p)
<1>1. /\ Alone(p) /\ pc \in [Proc -> Label]
      /\ pc[p] \in ReserveStep => p \in Child /\ op(p) = "reserve"
  BY ServeAlone DEF TypeInv, ProcOK, LifeInv, Role
<1>2. \A c \in Child : HasName(c) => HasName(c)' /\ Filing(c)' = Filing(c)
  <2> SUFFICES ASSUME NEW c \in Child, HasName(c) PROVE HasName(c)' /\ Filing(c)' = Filing(c)
    OBVIOUS
  <2>1. CASE c = p
    BY <2>1, NamingSteps
  <2>2. CASE c # p
    BY <1>1, <2>2, FilingFixed DEF Alone, HasName, Proc
  <2> QED
    BY <2>1, <2>2
<1>3. \A f : \A c \in Child : TookName(c, f) => TookName(c, f)'
  BY <1>2 DEF TookName, HasName, SameName, Named
<1>4. \A f : Contested(f) => Contested(f)'
  BY <1>3 DEF Contested
<1>5. ASSUME NEW f \in userRes, f \notin userRes', NEW c \in Child \ {p}, TookName(c, f)
      PROVE  Contested(f)'
  <2>1. /\ UserFileOpen(p) \/ FileForUser(p)
        /\ SameName(f, Filing(p))
    BY <1>5, FilesKept DEF UserFileOpen, FileForUser, WithoutUserFile
  <2>2. pc[p] \in ReserveStep /\ pc'[p] \in Named /\ job' = job
    BY <1>1, <2>1 DEF UserFileOpen, FileForUser, Goto, Named
  <2>3. TookName(p, f)'
    BY <1>1, <2>1, <2>2, FilingFixed DEF TookName, SameName, Named
  <2> QED
    BY <1>1, <1>3, <1>5, <2>2, <2>3 DEF Contested
<1> QED
  BY <1>3, <1>4, <1>5 DEF NamesStay, InPlace

LEMMA SameFile ==
    ASSUME NEW c, NEW f, f = Filing(c)', InPlace(f)'
    PROVE  InPlace(Filing(c))'
BY DEF InPlace, Contested, TookName, SameName

LEMMA ServeKeepsFiles ==
    ASSUME TypeInv, LifeInv, OverInv, FilesInv, ~WritesMayFail, NEW p \in Proc, Serve(p)
    PROVE  FilesInv'
<1>1. /\ Alone(p) /\ pc \in [Proc -> Label] /\ reply[p] = "none"
      /\ pc[p] \in ReserveStep => p \in Child /\ op(p) = "reserve"
  BY ServeAlone, NamingSteps DEF TypeInv, ProcOK, LifeInv, Role
<1>2. NamesStay(p)
  BY ServeKeepsNames
<1>3. IsFiniteSet(userRes')
  <2>1. IsFiniteSet(WithoutUserFile(p))
    BY FS_Subset DEF FilesInv, WithoutUserFile
  <2>2. \A f : IsFiniteSet(WithoutUserFile(p) \cup {f})
    BY <2>1, FS_AddElement
  <2> QED
    BY <2>2, FilesKept DEF FilesInv, UserFileOpen, FileForUser
<1>4. \A f \in eventRes' : \E c \in Child : TookName(c, f)'
  <2>1. CASE FileForEvent(p)
    <3>1. eventRes' \subseteq eventRes \cup {Filing(p)} /\ job' = job /\ pc'[p] \in Named
          /\ p \in Child /\ op(p) = "reserve"
      BY <1>1, <2>1 DEF FileForEvent, WithoutEventFile, Goto, Named
    <3>2. ASSUME NEW f, f = Filing(p)
          PROVE  TookName(p, f)'
      BY <1>1, <3>1, <3>2, FilingFixed DEF TookName, SameName, Named
    <3> QED
      BY <1>2, <3>1, <3>2 DEF FilesInv, NamesStay
  <2> QED
    BY <1>2, <2>1, FilesKept DEF FilesInv, NamesStay
<1>5. ASSUME NEW c \in Child, c # p
      PROVE  Kept(c)'
  <2>1. /\ pc'[c] = pc[c] /\ job'[c] = job[c] /\ reply'[c] = reply[c] /\ Filing(c)' = Filing(c)
    BY <1>1, <1>5, FilingFixed DEF Alone, Proc
  <2>2. HasName(c) => \A f : f = Filing(c) => TookName(c, f)
    BY DEF HasName, TookName, SameName, Named
  <2>3. HasName(c) /\ InPlace(Filing(c)) => InPlace(Filing(c))'
    <3> SUFFICES ASSUME HasName(c), InPlace(Filing(c)), NEW f, f = Filing(c) PROVE InPlace(Filing(c))'
      OBVIOUS
    <3>1. InPlace(f) /\ TookName(c, f)
      BY <2>2
    <3>2. InPlace(f)'
      BY <1>2, <1>5, <3>1 DEF NamesStay
    <3> QED
      BY <2>1, <3>2, SameFile
  <2>4. ASSUME reply[c] = "ACC", Filing(c) \in eventRes'
        PROVE  InPlace(Filing(c))
    <3>1. op(c) = "reserve" /\ c \in Proc
      BY <2>4 DEF OverInv, OnlyReserve, Proc
    <3>2. CASE Filing(c) \in eventRes
      BY <2>4, <3>2 DEF FilesInv, Kept
    <3>3. CASE Filing(c) \notin eventRes
      <4>1. FileForEvent(p)
        BY <2>4, <3>3, FilesKept
      <4>2. Filing(c) = Filing(p) /\ pc[p] = "eventFile"
        BY <2>4, <3>3, <4>1 DEF FileForEvent, WithoutEventFile
      <4>3. InPlace(Filing(p))
        BY <1>1, <4>2 DEF FilesInv, Kept, Named
      <4> QED
        BY <4>2, <4>3
    <3> QED
      BY <3>2, <3>3
  <2>5. ASSUME pc[c] = "userWrite"
        PROVE  \E g \in userRes' : SameName(g, Filing(c))'
    <3>1. PICK g \in userRes : SameName(g, Filing(c))
      BY <2>5 DEF FilesInv, Kept
    <3>2. CASE g \in userRes'
      BY <2>1, <3>1, <3>2 DEF SameName
    <3>3. CASE g \notin userRes'
      <4>1. /\ SameName(g, Filing(p))
            /\ Blank(p) \in userRes' \/ Filing(p) \in userRes'
        BY <3>3, FilesKept DEF UserFileOpen, FileForUser, WithoutUserFile
      <4>2. SameName(g, Blank(p))
        BY <4>1 DEF SameName, Blank, Filing
      <4> QED
        BY <2>1, <3>1, <4>1, <4>2 DEF SameName
    <3> QED
      BY <3>2, <3>3
  <2>6. reply[c] = "ACC" => op(c) = "reserve"
    BY DEF OverInv, OnlyReserve, Proc
  <2> QED
    BY <2>1, <2>3, <2>4, <2>5, <2>6 DEF Kept, HasName, FilesInv, Named
<1>6. ASSUME p \in Child
      PROVE  Kept(p)'
  <2>1. ASSUME job' = job, NEW f, f = Filing(p), InPlace(f)', pc'[p] # "userWrite"
        PROVE  Kept(p)'
    BY <2>1, FilingFixed, SameFile DEF Kept
  <2>2. CASE UserFileOpen(p)
    <3>1. pc'[p] = "userWrite" /\ job' = job /\ reply' = reply /\ Blank(p) \in userRes'
      BY <1>1, <2>2 DEF UserFileOpen, Goto
    <3>2. SameName(Blank(p), Filing(p))
      BY DEF SameName, Blank, Filing
    <3>3. \E g \in userRes' : SameName(g, Filing(p))'
      BY <3>1, <3>2, FilingFixed DEF SameName
    <3> QED
      BY <1>1, <3>1, <3>3 DEF Kept, Named
  <2>3. CASE FileForUser(p)
    <3>1. pc'[p] # "userWrite" /\ job' = job /\ pc[p] = "userWrite"
      BY <1>1, <2>3 DEF FileForUser, Goto
    <3>2. PICK g \in userRes : SameName(g, Filing(p))
      BY <1>6, <3>1 DEF FilesInv, Kept
    <3>3. Filing(p) \in userRes'
      BY <2>3, <3>2 DEF FileForUser, WithoutUserFile
    <3> QED
      BY <2>1, <3>1, <3>3 DEF InPlace
  <2>4. ASSUME NEW f, f = Filing(p), InPlace(f), userRes' = userRes
        PROVE  InPlace(f)'
    BY <1>2, <2>4 DEF InPlace, NamesStay
  <2>5. CASE FileForEvent(p) \/ ResOpen(p) \/ ResWrite(p)
    <3>1. /\ pc'[p] # "userWrite" /\ job' = job /\ pc[p] \in Named \ {"userWrite"}
          /\ userRes' = userRes /\ op(p) = "reserve"
      BY <1>1, <2>5 DEF FileForEvent, ResOpen, ResWrite, Goto, Answer, Named
    <3>2. InPlace(Filing(p))
      BY <1>6, <3>1 DEF FilesInv, Kept
    <3> QED
      BY <2>1, <2>4, <3>1, <3>2
  <2>6. CASE Reread(p) /\ reply'[p] = "ACC" /\ job' = job
    <3>1. /\ pc[p] = "reread" /\ pc'[p] \notin Named /\ eventRes' = eventRes
          /\ userRes' = userRes /\ op(p) = "reserve"
      BY <1>1, <2>6, FilingSteps
         DEF Reread, seatFiles, Named, UserFileOpen, FileForUser, FileForEvent, ResOpen
    <3>2. ASSUME Filing(p) \in eventRes, NEW f, f = Filing(p)
          PROVE  InPlace(f)'
      <4>1. PICK c \in Child : TookName(c, f)
        BY <3>2 DEF FilesInv
      <4>2. c # p
        BY <1>1, <3>1, <4>1 DEF TookName
      <4>3. TookName(p, f)'
        BY <1>1, <2>6, <3>1, <3>2, FilingFixed DEF TookName, SameName
      <4>4. TookName(c, f)'
        BY <1>2, <4>1 DEF NamesStay
      <4> QED
        BY <1>6, <4>2, <4>3, <4>4 DEF InPlace, Contested
    <3>3. Filing(p) \in eventRes => Kept(p)'
      BY <2>1, <2>6, <3>1, <3>2 DEF Named
    <3> QED
      BY <2>6, <3>1, <3>3, FilingFixed DEF Kept, Named
  <2>7. CASE ~HasName(p)'
    <3>1. reply'[p] = "ACC" => op(p)' = "reserve"
      <4>1. reply'[p] = "ACC" => pc[p] \in ReserveStep
        BY <1>1, ServeBusy
      <4> QED
        BY <1>1, <4>1 DEF Alone
    <3>2. pc'[p] = "userWrite" => op(p)' = "reserve"
      <4>1. pc'[p] = "userWrite" => UserFileOpen(p)
        BY FilingSteps
      <4> QED
        BY <1>1, <4>1 DEF Alone, UserFileOpen
    <3> QED
      BY <2>7, <3>1, <3>2 DEF Kept, HasName, Named
  <2> QED
    BY <2>2, <2>3, <2>5, <2>6, <2>7, NamingSteps
<1> QED
  BY <1>3, <1>4, <1>5, <1>6 DEF FilesInv

-----------------------------------------------------------------------------
(***************************************************************************)
(* What the user is told.                                                  *)
(***************************************************************************)
LEMMA ServeKeepsOwing ==
    ASSUME TypeInv, LifeInv, ~WritesMayFail, \A q \in Proc : Owing(q), NEW p \in Proc, Serve(p)
    PROVE  owed' = owed /\ \A q \in Proc : Owing(q)'
<1>1. owed' = owed
  BY ServeMoves DEF Moves, Proceeds, Goto, GotoWith, Answer, atArrival
<1>2. NamesStay(p) /\ Alone(p) /\ reply[p] = "none"
  BY ServeKeepsNames, ServeAlone, NamingSteps
<1>3. ASSUME NEW q \in Proc, NEW f \in owed[q]
      PROVE  /\ f.uid = uid(q)' /\ InPlace(f)'
             /\ \E c \in Child : TookName(c, f)' /\ reply'[c] = "ACC"
  <2>1. /\ f.uid = uid(q) /\ InPlace(f)
        /\ \E c \in Child : TookName(c, f) /\ reply[c] = "ACC"
    BY <1>3 DEF Owing
  <2>2. PICK c \in Child : TookName(c, f) /\ reply[c] = "ACC"
    BY <2>1
  <2>3. c # p /\ reply'[c] = "ACC" /\ uid(q)' = uid(q)
    BY <1>2, <2>2 DEF Alone, Proc
  <2> QED
    BY <1>2, <2>1, <2>2, <2>3 DEF NamesStay
<1> QED
  BY <1>1, <1>3 DEF Owing

\* A name in a user's directory stays there.
LEMMA NamesKept ==
    ASSUME ~WritesMayFail, NEW p \in Proc, Serve(p), NEW u
    PROVE  Names(u) \subseteq Names(u)'
<1> SUFFICES ASSUME NEW f \in userRes, f.uid = u PROVE \E g \in userRes' : g.uid = u /\ g.at = f.at
  BY DEF Names
<1>1. CASE f \in userRes'
  BY <1>1
<1>2. CASE f \notin userRes'
  <2>1. /\ SameName(f, Filing(p))
        /\ Blank(p) \in userRes' \/ Filing(p) \in userRes'
    BY <1>2, FilesKept DEF UserFileOpen, FileForUser, WithoutUserFile
  <2>2. SameName(f, Blank(p))
    BY <2>1 DEF SameName, Blank, Filing
  <2> QED
    BY <2>1, <2>2 DEF SameName
<1> QED
  BY <1>1, <1>2

\* The steps of myreservations.
LEMMA TellingSteps ==
    ASSUME NEW p \in Proc, Serve(p), op(p) = "myreservations", Telling(p)
    PROVE  Auth(p) \/ Reserved(p) \/ ReadReservation(p)
BY DEF Telling, Serve, EventDir,
       Status, StatusStart, StatusPast, StatusEnded, StatusCount, Judged,
       Listing, Scan, Reserve, Reread, UserFileOpen, FileForUser, FileForEvent, ResOpen, ResWrite,
       Close, CloseOwner, CloseStart, CloseCount, ClosePast, CloseEnded, CloseWrite,
       Create, Allocate, CountUp, Mkdir, Register, StartOpen, StartWrite, InitOpen,
       InitWrite, DescOpen, DescLock, Upload, Newline, DropCreated, DropStart, DropRes,
       Show, ShowStart, ShowCount, ShowSize, ShowOpen, ShowStream, Send, Mine

\* The names are read once; those that are left out are old.
LEMMA ReservedTells ==
    ASSUME TypeInv, FilesInv, NEW p \in Proc, op(p) = "myreservations", Owing(p), Telling(p),
           Reserved(p), NamesStay(p), owed' = owed, reply[p] = "none"
    PROVE  Telling(p)'
<1> DEFINE N == Names(uid(p))
<1>1. /\ pc \in [Proc -> Label] /\ job[p] \in Job /\ reply \in [Proc -> Reply]
      /\ job \in [Proc -> Job] /\ userRes \subseteq Filed /\ owed[p] \subseteq Filed
  BY DEF TypeInv, ProcOK, StoreOK
<1>2. N \subseteq Nat /\ IsFiniteSet(N)
  <2>1. IsFiniteSet({g \in userRes : g.uid = uid(p)})
    BY FS_Subset DEF FilesInv
  <2>2. IsFiniteSet(N)
    BY <2>1, FewerDates DEF Names
  <2> QED
    BY <1>1, <2>2 DEF Names, Filed
<1>3. \A f \in owed[p] : Contested(f) \/ f.at \in N
  BY DEF Owing, InPlace, Names
<1>4. userRes' = userRes /\ pc[p] = "reserved"
  BY DEF Reserved, seatFiles
<1>5. CASE N = {} /\ Answer(p, "NOK")
  <2>1. job' = job /\ pc'[p] \in {"idle", "done"}
    BY <1>1, <1>5 DEF Answer
  <2>2. \A f \in owed[p] : Told(p, f)'
    BY <1>3, <1>5 DEF NamesStay, Told
  <2> QED
    BY <1>4, <2>1, <2>2 DEF Telling
<1>6. CASE GotoWith(p, "reading", [job[p] EXCEPT !.names = Newest(N)])
  <2>1. /\ pc'[p] = "reading" /\ reply' = reply /\ job'[p] = [job[p] EXCEPT !.names = Newest(N)]
    BY <1>1, <1>6 DEF GotoWith
  <2>2. /\ job'[p].names = Newest(N) /\ job'[p].found = job[p].found /\ job'[p].req = job[p].req
    BY <1>1, <2>1 DEF Job
  <2>3. /\ Newest(N) \subseteq N /\ IsFiniteSet(Newest(N))
    BY <1>2, FS_Subset DEF Newest
  <2>4. Names(uid(p))' = N
    BY <1>4, <2>2 DEF Names
  <2>5. ASSUME NEW f \in owed[p]
        PROVE  Underway(p, f)'
    <3>1. CASE Contested(f)
      BY <3>1 DEF NamesStay, Underway
    <3>2. CASE f.at \in Newest(N)
      BY <2>2, <3>2 DEF Underway
    <3>3. CASE f.at \in N /\ f.at \notin Newest(N)
      <4>1. Cardinality({s \in Newest(N) : s > f.at}) >= MaxListed
        BY <1>2, <3>3, NewestAreEnough
      <4>2. IsFiniteSet(Times(p)')
        <5>1. IsFiniteSet({g.at : g \in job[p].found})
          BY <1>4, FewerDates DEF Telling
        <5> QED
          BY <2>2, <2>3, <5>1, FS_Union DEF Times
      <4>3. {s \in Newest(N) : s > f.at} \subseteq Newer(p, f)' /\ IsFiniteSet(Newer(p, f)')
        BY <2>2, <4>2, FS_Subset DEF Newer, Times
      <4>4. Cardinality(Newer(p, f)') >= MaxListed
        <5> DEFINE S == {s \in Newest(N) : s > f.at}
                   T == Newer(p, f)'
        <5>1. S \subseteq T /\ IsFiniteSet(T) /\ Cardinality(S) >= MaxListed
          BY <4>1, <4>3
        <5> HIDE DEF S, T
        <5>2. Cardinality(T) >= MaxListed
          BY <5>1, FS_Subset, FS_CardinalityType, BoundAssumption
        <5> QED
          BY <5>2 DEF T
      <4> QED
        BY <4>4 DEF Underway
    <3> QED
      BY <1>3, <3>1, <3>2, <3>3
  <2> QED
    BY <1>4, <2>1, <2>2, <2>3, <2>4, <2>5 DEF Telling
<1> QED
  BY <1>5, <1>6 DEF Reserved

\* Reading one more reservation leaves nobody out.
LEMMA ReadingTells ==
    ASSUME TypeInv, FilesInv, NEW p \in Proc, op(p) = "myreservations", Owing(p), Telling(p),
           NEW t \in job[p].names, pc[p] = "reading",
           GotoWith(p, "reading",
               [job[p] EXCEPT !.names = @ \ {t},
                              !.found = @ \cup {f \in userRes : f.uid = uid(p) /\ f.at = t}]),
           userRes' = userRes, NamesStay(p), owed' = owed, reply[p] = "none"
    PROVE  Telling(p)'
<1> DEFINE new == {f \in userRes : f.uid = uid(p) /\ f.at = t}
           names == job[p].names
           found == job[p].found
<1>1. /\ job[p] \in Job /\ job \in [Proc -> Job] /\ pc \in [Proc -> Label]
      /\ reply \in [Proc -> Reply] /\ owed[p] \subseteq Filed
  BY DEF TypeInv, ProcOK
<1>2. /\ pc'[p] = "reading" /\ reply' = reply
      /\ job'[p] = [job[p] EXCEPT !.names = @ \ {t}, !.found = @ \cup new]
  BY <1>1 DEF GotoWith
<1>3. /\ job'[p].names = names \ {t} /\ job'[p].found = found \cup new /\ job'[p].req = job[p].req
  BY <1>1, <1>2 DEF Job
<1>4. /\ IsFiniteSet(names) /\ IsFiniteSet(found) /\ names \subseteq Names(uid(p))
      /\ \A f \in owed[p] : Underway(p, f)
  BY DEF Telling
<1>5. IsFiniteSet(new) /\ new # {}
  <2>1. IsFiniteSet(new)
    BY FS_Subset DEF FilesInv
  <2>2. t \in Names(uid(p))
    BY <1>4
  <2> QED
    BY <2>1, <2>2 DEF Names
<1>6. IsFiniteSet(names \ {t}) /\ IsFiniteSet(found \cup new)
  BY <1>4, <1>5, FS_Subset, FS_Union
<1>7. Times(p)' = Times(p)
  <2>1. {g.at : g \in new} = {t}
    BY <1>5
  <2>2. {g.at : g \in found \cup new} = {g.at : g \in found} \cup {t}
    BY <2>1
  <2> HIDE DEF new
  <2> QED
    BY <1>3, <2>2 DEF Times
<1>8. ASSUME NEW f \in owed[p]
      PROVE  Underway(p, f)'
  <2>1. f.uid = uid(p) /\ (f \in userRes \/ Contested(f))
    BY DEF Owing, InPlace
  <2>2. CASE Contested(f)
    BY <2>2 DEF NamesStay, Underway
  <2>3. CASE f.at \in names
    BY <1>3, <2>1, <2>2, <2>3 DEF Underway
  <2>4. CASE f \in found
    BY <1>3, <2>4 DEF Underway
  <2>5. CASE Cardinality(Newer(p, f)) >= MaxListed
    <3>1. Newer(p, f)' = Newer(p, f)
      BY <1>7 DEF Newer
    <3> QED
      BY <2>5, <3>1 DEF Underway
  <2> QED
    BY <1>4, <2>2, <2>3, <2>4, <2>5 DEF Underway
<1>9. Names(uid(p))' = Names(uid(p))
  BY <1>3 DEF Names
<1> HIDE DEF new
<1> QED
  BY <1>2, <1>3, <1>4, <1>6, <1>8, <1>9 DEF Telling

\* When everything has been read, everything that fits is in the answer.
LEMMA AnswerTells ==
    ASSUME TypeInv, NEW p \in Proc, op(p) = "myreservations", Telling(p), pc[p] = "reading",
           job[p].names = {}, Answer(p, "OK"), NamesStay(p), owed' = owed
    PROVE  Telling(p)'
<1> DEFINE found == job[p].found
<1>1. /\ pc'[p] \in {"idle", "done"} /\ job' = job
      /\ IsFiniteSet(found) /\ \A f \in owed[p] : Underway(p, f)
  BY DEF Answer, TypeInv, ProcOK, Telling
<1>2. ASSUME NEW f \in owed[p], Cardinality(Newer(p, f)) >= MaxListed
      PROVE  Cardinality({g \in found : g.at > f.at}) >= MaxListed
  <2> DEFINE S == {g \in found : g.at > f.at}
             T == {g.at : g \in S}
  <2>1. Newer(p, f) = T
    BY DEF Newer, Times
  <2>2. IsFiniteSet(S)
    BY <1>1, FS_Subset
  <2> HIDE DEF S
  <2>3. IsFiniteSet(T) /\ Cardinality(T) <= Cardinality(S)
    BY <2>2, FewerDates
  <2> HIDE DEF T
  <2>4. Cardinality(S) >= MaxListed
    BY <1>2, <2>1, <2>2, <2>3, FS_CardinalityType, BoundAssumption
  <2> QED
    BY <2>4 DEF S
<1>3. ASSUME NEW f \in owed[p]
      PROVE  Told(p, f)'
  <2>1. Underway(p, f)
    BY <1>1, <1>3
  <2>2. Told(p, f)
    BY <1>2, <2>1 DEF Underway, Told
  <2> QED
    BY <1>1, <2>2 DEF Told, NamesStay
<1> QED
  BY <1>1, <1>3 DEF Telling

LEMMA ServeTells ==
    ASSUME TypeInv, LifeInv, FilesInv, ~WritesMayFail, NEW p \in Proc, Serve(p),
           \A q \in Proc : Owing(q) /\ Telling(q)
    PROVE  \A q \in Proc : Telling(q)'
<1>1. /\ NamesStay(p) /\ Alone(p) /\ reply[p] = "none" /\ owed' = owed
      /\ pc \in [Proc -> Label] /\ reply \in [Proc -> Reply]
  BY ServeKeepsNames, ServeAlone, NamingSteps, ServeKeepsOwing DEF TypeInv, ProcOK
<1>2. ASSUME NEW q \in Proc, q # p
      PROVE  Telling(q)'
  <2>1. pc'[q] = pc[q] /\ job'[q] = job[q] /\ reply'[q] = reply[q] /\ Telling(q)
    BY <1>1, <1>2 DEF Alone
  <2>2. Names(uid(q)) \subseteq Names(uid(q))'
    <3>1. PICK u : u = uid(q)
      OBVIOUS
    <3>2. Names(u) \subseteq Names(u)'
      BY NamesKept
    <3> QED
      BY <2>1, <3>1, <3>2 DEF Names
  <2>3. \A f \in owed[q] : Underway(q, f) => Underway(q, f)'
    BY <1>1, <2>1 DEF Underway, Newer, Times, NamesStay
  <2>4. \A f \in owed[q] : Told(q, f) => Told(q, f)'
    BY <1>1, <2>1 DEF Told, NamesStay
  <2> QED
    BY <1>1, <2>1, <2>2, <2>3, <2>4 DEF Telling
<1>3. ASSUME op(p) = "myreservations"
      PROVE  Telling(p)'
  <2>1. CASE Auth(p)
    <3>1. /\ pc'[p] \in {"idle", "done", "reserved"} /\ job' = job
          /\ reply'[p] \notin {"OK", "NOK"}
      BY <1>1, <1>3, <2>1 DEF Auth, Goto, Answer
    <3> QED
      BY <3>1 DEF Telling
  <2>2. CASE Reserved(p)
    BY <1>1, <1>3, <2>2, ReservedTells
  <2>3. CASE ReadReservation(p)
    <3>1. userRes' = userRes /\ pc[p] = "reading"
      BY <2>3 DEF ReadReservation, seatFiles
    <3> QED
      BY <1>1, <1>3, <2>3, <3>1, ReadingTells, AnswerTells DEF ReadReservation
  <2> QED
    BY <1>3, <2>1, <2>2, <2>3, TellingSteps
<1>4. op(p) # "myreservations" => Telling(p)'
  BY <1>1 DEF Alone, Telling
<1> QED
  BY <1>2, <1>3, <1>4

\* The user is owed what he had been told of when he asks: it is in place.
LEMMA ReceiveTells ==
    ASSUME TypeInv, LifeInv, OverInv, ToldInv, NEW p \in Proc, pc[p] = "idle",
           NEW r \in Requests, Receive(p, r), r.op \in {"create", "reserve"} => p \in Child
    PROVE  ToldInv'
<1>0. Arrives(p)
  BY ReceiveArrives DEF LifeInv
<1>1. /\ userRes' = userRes /\ eventRes' = eventRes
      /\ \A q \in Proc \ {p} : pc'[q] = pc[q] /\ job'[q] = job[q] /\ reply'[q] = reply[q]
      /\ \A q \in Proc \ {p} : owed'[q] = owed[q]
      /\ op(p) # "reserve" /\ pc'[p] \notin ReserveStep /\ reply'[p] = "none"
  BY <1>0 DEF Arrives, seatFiles, TypeInv, ProcOK, Receive
<1>2. /\ pc'[p] = FirstStep(r.op) /\ job'[p] = [NewJob(r) EXCEPT !.at = clock]
      /\ owed'[p] = IF r.op = "myreservations" THEN ConfirmedOf(r.uid) ELSE {}
  BY DEF TypeInv, ProcOK, Receive
<1>3. op(p)' = r.op /\ uid(p)' = r.uid /\ job'[p].found = {}
  BY <1>2 DEF NewJob
<1>4. \A c \in Proc \ {p} : Filing(c)' = Filing(c)
  BY <1>1 DEF Filing
<1>5. \A f : \A c \in Child : TookName(c, f) => c # p /\ TookName(c, f)'
  BY <1>1, <1>4 DEF TookName, SameName, Proc
<1>6. \A f : Contested(f) => Contested(f)'
  BY <1>5 DEF Contested
<1>7. \A f : InPlace(f) => InPlace(f)'
  BY <1>1, <1>6 DEF InPlace
<1>8. FilesInv'
  <2>1. ASSUME NEW c \in Child
        PROVE  Kept(c)'
    <3>1. CASE c = p
      BY <1>1, <3>1 DEF Kept, Named
    <3>2. CASE c # p
      <4>1. InPlace(Filing(c)) => InPlace(Filing(c))'
        <5> SUFFICES ASSUME InPlace(Filing(c)), NEW f, f = Filing(c) PROVE InPlace(Filing(c))'
          OBVIOUS
        <5> QED
          BY <1>4, <1>7, <3>2, SameFile DEF Proc
      <4>2. Filing(c)' = Filing(c) /\ Kept(c)
        BY <1>4, <3>2 DEF Proc, ToldInv, FilesInv
      <4> QED
        BY <1>1, <3>2, <4>1, <4>2 DEF Kept, SameName, Proc
    <3> QED
      BY <3>1, <3>2
  <2> QED
    BY <1>1, <1>5, <2>1 DEF ToldInv, FilesInv
<1>9. ASSUME NEW q \in Proc
      PROVE  Owing(q)'
  <2>1. ASSUME NEW f, f.uid = uid(q)', InPlace(f), NEW c \in Child, TookName(c, f), reply[c] = "ACC"
        PROVE  /\ f.uid = uid(q)' /\ InPlace(f)'
               /\ \E d \in Child : TookName(d, f)' /\ reply'[d] = "ACC"
    BY <1>1, <1>5, <1>7, <2>1 DEF Proc
  <2>2. CASE q # p
    <3>1. owed'[q] = owed[q] /\ uid(q)' = uid(q) /\ Owing(q)
      BY <1>1, <2>2 DEF ToldInv
    <3> QED
      BY <2>1, <3>1 DEF Owing
  <2>3. CASE q = p
    <3>1. ASSUME NEW f \in owed'[p]
          PROVE  /\ f.uid = uid(p)' /\ InPlace(f)
                 /\ \E c \in Child : TookName(c, f) /\ reply[c] = "ACC"
      <4>1. f \in ConfirmedOf(r.uid)
        BY <1>2, <3>1
      <4>2. PICK c \in Child : /\ f = Filing(c) /\ f \in eventRes
                               /\ op(c) = "reserve" /\ uid(c) = r.uid /\ reply[c] = "ACC"
        BY <4>1 DEF ConfirmedOf
      <4>3. InPlace(f)
        BY <4>2 DEF ToldInv, FilesInv, Kept
      <4>4. f.uid = r.uid /\ TookName(c, f)
        BY <4>2 DEF Filing, TookName, SameName
      <4> QED
        BY <1>3, <4>2, <4>3, <4>4
    <3> QED
      BY <2>1, <2>3, <3>1 DEF Owing
  <2> QED
    BY <2>2, <2>3
<1>10. ASSUME NEW q \in Proc
       PROVE  Telling(q)'
  <2>1. CASE q = p
    <3>1. r.op = "myreservations" => pc'[p] = "auth"
      BY <1>2 DEF FirstStep
    <3> QED
      BY <1>1, <1>3, <2>1, <3>1, FS_EmptySet DEF Telling
  <2>2. CASE q # p
    <3>1. /\ pc'[q] = pc[q] /\ job'[q] = job[q] /\ reply'[q] = reply[q] /\ owed'[q] = owed[q]
          /\ Telling(q)
      BY <1>1, <2>2 DEF ToldInv
    <3>2. Names(uid(q))' = Names(uid(q))
      BY <1>1, <3>1 DEF Names
    <3>3. \A f \in owed[q] : Underway(q, f) => Underway(q, f)'
      BY <1>6, <3>1 DEF Underway, Newer, Times
    <3>4. \A f \in owed[q] : Told(q, f) => Told(q, f)'
      BY <1>6, <3>1 DEF Told
    <3> QED
      BY <3>1, <3>2, <3>3, <3>4 DEF Telling
  <2> QED
    BY <2>1, <2>2
<1> QED
  BY <1>8, <1>9, <1>10 DEF ToldInv

LEMMA NextTells ==
    ASSUME TypeInv, LifeInv, OverInv, ToldInv, ~WritesMayFail, ~MayCrash, [Next]_vars
    PROVE  ToldInv'
<1>1. CASE Tick \/ UNCHANGED vars
  <2>1. UNCHANGED <<userRes, eventRes, pc, job, reply, owed>>
    BY <1>1 DEF Tick, vars, seatFiles, atArrival
  <2>2. \A c : Filing(c)' = Filing(c)
    BY <2>1 DEF Filing
  <2>3. \A c, f : TookName(c, f)' = TookName(c, f)
    BY <2>1, <2>2 DEF TookName, SameName
  <2>4. \A f : Contested(f)' = Contested(f)
    BY <2>3 DEF Contested
  <2>5. \A f : InPlace(f)' = InPlace(f)
    BY <2>1, <2>4 DEF InPlace
  <2>6. ASSUME NEW c \in Child, Kept(c)
        PROVE  Kept(c)'
    <3>1. InPlace(Filing(c)) => InPlace(Filing(c))'
      <4> SUFFICES ASSUME InPlace(Filing(c)), NEW f, f = Filing(c) PROVE InPlace(Filing(c))'
        OBVIOUS
      <4> QED
        BY <2>2, <2>5, SameFile
    <3> QED
      BY <2>1, <2>2, <2>6, <3>1 DEF Kept, SameName
  <2>7. \A p \in Proc : Owing(p) => Owing(p)'
    BY <2>1, <2>3, <2>5 DEF Owing
  <2>8. \A f : \A p \in Proc : (Underway(p, f) => Underway(p, f)') /\ (Told(p, f) => Told(p, f)')
    BY <2>1, <2>4 DEF Underway, Newer, Times, Told
  <2>9. \A p \in Proc : Telling(p) => Telling(p)'
    BY <2>1, <2>8 DEF Telling, Names
  <2> QED
    BY <2>1, <2>3, <2>6, <2>7, <2>9 DEF ToldInv, FilesInv
<1>2. CASE Datagram
  BY <1>2, ReceiveTells DEF Datagram, Query, Proc
<1>3. ASSUME NEW c \in Child, Accept(c)
      PROVE  ToldInv'
  BY <1>3, ReceiveTells DEF Accept, Proc
<1>4. ASSUME NEW p \in Proc, Serve(p)
      PROVE  ToldInv'
  BY <1>4, ServeKeepsFiles, ServeKeepsOwing, ServeTells DEF ToldInv
<1> QED
  BY <1>1, <1>2, <1>3, <1>4 DEF Next, Crash

LEMMA InitTold == Init => ToldInv
<1> SUFFICES ASSUME Init PROVE ToldInv
  OBVIOUS
<1>1. \A p \in Proc : op(p) = "list" /\ pc[p] = "idle" /\ reply[p] = "none" /\ owed[p] = {}
  BY DEF Init, NewJob
<1>2. userRes = {} /\ eventRes = {}
  BY DEF Init
<1> QED
  BY <1>1, <1>2, FS_EmptySet DEF ToldInv, FilesInv, Kept, Named, Owing, Telling, Proc

\* With writes that succeed and no crash, myreservations tells its user of every
\* reservation that had been confirmed when he asked, but for those that
\* MaxListed newer ones leave no room for and those whose file name another
\* reservation of the same second has taken, however requests interleave.
THEOREM ConfirmedShown ==
    ASSUME ~WritesMayFail, ~MayCrash
    PROVE  Spec => []ConfirmedIsShown
<1>1. ToldInv => ConfirmedIsShown
  BY DEF ToldInv, Telling, Told, Contested, ConfirmedIsShown
<1> QED
  BY <1>1, InitTyped, NextTyped, InitLife, NextKeepsLife, InitOver, NextKeepsOver, InitTold,
     NextTells, PTL DEF Spec
=============================================================================
