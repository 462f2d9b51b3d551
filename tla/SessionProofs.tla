--------------------------- MODULE SessionProofs ---------------------------
(***************************************************************************)
(* Theorems about Session, for any number of clients, commands, attempts,  *)
(* lines and events, any clock, and foreign programs that send anything:   *)
(* types; that a client counts itself logged in only as the server let it  *)
(* in; and that a create which is given up makes at most one event.        *)
(***************************************************************************)
EXTENDS Session, CalendarProofs, SequenceTheorems, TLAPS

-----------------------------------------------------------------------------
(***************************************************************************)
(* Bags: one more packet, and one less.                                    *)
(***************************************************************************)

\* What the network holds once it is given packet x.
LEMMA OneMore ==
    ASSUME NEW B, IsABag(B), NEW x
    PROVE  LET C == B (+) SetToBag({x}) IN
           /\ IsABag(C)
           /\ BagToSet(C) = BagToSet(B) \cup {x}
           /\ x \notin BagToSet(B) => C[x] = 1
           /\ \A y \in BagToSet(B) : y # x => C[y] = B[y]
  BY DEF IsABag, BagToSet, SetToBag, (+)

\* What it holds once x is taken out: the last copy of x takes x with it.
LEMMA OneLess ==
    ASSUME NEW B, IsABag(B), NEW x \in BagToSet(B)
    PROVE  LET C == B (-) SetToBag({x}) IN
           /\ IsABag(C)
           /\ BagToSet(C) \subseteq BagToSet(B)
           /\ B[x] = 1 => x \notin BagToSet(C)
           /\ \A y \in BagToSet(C) : y # x => C[y] = B[y]
  <1> DEFINE T == SetToBag({x})
             D == [e \in DOMAIN B |-> IF e \in DOMAIN T THEN B[e] - T[e] ELSE B[e]]
             C == B (-) SetToBag({x})
  <1>1. C = [e \in {d \in DOMAIN D : D[d] > 0} |-> D[e]]
    BY DEF (-)
  <1>2. DOMAIN T = {x} /\ T[x] = 1
    BY DEF SetToBag
  <1>3. \A e \in DOMAIN B : B[e] \in Nat /\ B[e] > 0
    BY DEF IsABag
  <1>4. \A e \in DOMAIN B : D[e] = IF e = x THEN B[e] - 1 ELSE B[e]
    BY <1>2
  <1> HIDE DEF D, C
  <1>5. DOMAIN D = DOMAIN B
    BY DEF D
  <1>6. \A e \in DOMAIN C : e \in DOMAIN B /\ C[e] = D[e] /\ D[e] > 0
    BY <1>1, <1>5
  <1>7. \A e \in DOMAIN C : C[e] \in {k \in Nat : k > 0}
    BY <1>3, <1>4, <1>6
  <1>8. IsABag(C)
    BY <1>1, <1>7 DEF IsABag
  <1> QED
    BY <1>3, <1>4, <1>6, <1>8 DEF BagToSet, C

-----------------------------------------------------------------------------
(***************************************************************************)
(* Types.                                                                  *)
(***************************************************************************)

\* The requests a client sends that change what it keeps.
Sent(c, w) ==
    /\ w[1] \in OpCodes
    /\ w[1] = "LIN" => /\ ~session[c].logged_in
                       /\ \E u \in User : w[2] = Numeral[u]
                       /\ w[3] \in Password
    /\ w[1] \in {"LOU", "UNR", "CPS"} => session[c].logged_in /\ w[2] = session[c].uid
    /\ w[1] = "CPS" => w[4] \in Password

Waits(c) == at[c] \in {"udp", "tcp"}

\* A call is one of a kind, and served once at most.
OnceInv ==
    /\ \A m, k \in calls : m.of = k.of /\ m.n = k.n => m = k
    /\ \A m \in calls : Waiting(m) => m.text = doing[m.of] /\ \A a \in answers : a.of # m.of
    /\ \A a, b \in answers : a.of = b.of => a = b

TypeInv ==
    /\ SessionTypeOK
    /\ \E S : created \in Seq(S)
    /\ IsABag(datagrams) /\ IsABag(replies)
    /\ DOMAIN session = Client /\ DOMAIN doing = Client
    /\ \A m \in calls : /\ m = [of |-> m.of, n |-> m.n, text |-> m.text]
                         /\ m.of \in Client /\ m.n \in 1..n[m.of]
    /\ \A a \in answers : a.of \in Client
    /\ \A c \in Client : Waits(c) => Sent(c, doing[c])
    /\ \A c \in Client : Waits(c) => ((at[c] = "udp") <=> (doing[c][1] \in Datagrams))
    /\ OnceInv

\* A line leads to a request the client may send.
LEMMA Typing ==
    ASSUME NEW c \in Client, NEW line, NEW w \in Sends(c, line)
    PROVE  Sent(c, w)
  <1> DEFINE command == get_command(line[1])
             args == Tail(line)
             s == session[c]
  <1>1. OpCodes = {"LIN", "CPS", "UNR", "LOU", "CRE", "CLS", "LME", "LST", "SED", "RID", "LMR"}
    BY DEF OpCodes, Response
  <1>2. CASE command = "login"
    <2>1. w \in handle_login(s, args)
      BY <1>2 DEF Sends
    <2>2. /\ ~s.logged_in /\ parse_login(args) /\ w = loginRequest(args)
      BY <2>1 DEF handle_login
    <2>3. args[1] \in User /\ args[2] \in Password
      BY <2>2 DEF parse_login, is_valid_userid, is_valid_password
    <2> HIDE DEF args
    <2>4. w[1] = "LIN" /\ w[2] = Numeral[args[1]] /\ w[3] = args[2]
      BY <2>2 DEF loginRequest
    <2> QED
      BY <1>1, <2>2, <2>3, <2>4 DEF Sent
  <1>3. CASE command = "changePass"
    <2>1. w \in handle_changePass(s, args)
      BY <1>3 DEF Sends
    <2>2. s.logged_in /\ parse_changePass(args) /\ w = changePassRequest(s.uid, args)
      BY <2>1 DEF handle_changePass, is_logged_in
    <2>3. args[2] \in Password
      BY <2>2 DEF parse_changePass, is_valid_password
    <2> HIDE DEF args
    <2>4. w[1] = "CPS" /\ w[2] = s.uid /\ w[4] = args[2]
      BY <2>2 DEF changePassRequest
    <2> QED
      BY <1>1, <2>2, <2>3, <2>4 DEF Sent
  <1>4. CASE command \notin {"login", "changePass"}
    <2>1. /\ w[1] \in {"UNR", "LOU", "CRE", "CLS", "LME", "LST", "SED", "RID", "LMR"}
          /\ w[1] \in {"UNR", "LOU"} => s.logged_in /\ w[2] = s.uid
      <3> HIDE DEF command, args, s
      <3>1. \/ command = "unregister" /\ w = unregisterRequest(s.uid, s.pass) /\ s.logged_in
            \/ command = "logout" /\ w = logoutRequest(s.uid, s.pass) /\ s.logged_in
            \/ command = "create" /\ w = createRequest(s.uid, s.pass, args)
            \/ command = "close" /\ w = closeRequest(s.uid, s.pass, args)
            \/ command = "myevents" /\ w = myeventsRequest(s.uid, s.pass)
            \/ command = "list" /\ w = listRequest
            \/ command = "show" /\ w = showRequest(args)
            \/ command = "reserve" /\ w = reserveRequest(s.uid, s.pass, args)
            \/ command = "myreservations" /\ w = myreservationsRequest(s.uid, s.pass)
        BY <1>4 DEF Sends, command, args, s, handle_unregister, handle_logout, handle_create,
           handle_close, handle_myevents, handle_list, handle_show, handle_reserve,
           handle_myreservations, is_logged_in
      <3> QED
        BY <3>1 DEF unregisterRequest, logoutRequest, createRequest, closeRequest,
           myeventsRequest, listRequest, showRequest, reserveRequest, myreservationsRequest
    <2> QED
      BY <1>1, <2>1 DEF Sent
  <1> QED
    BY <1>2, <1>3, <1>4

\* The files stay what they are whatever result a request has.
LEMMA Performs ==
    ASSUME DirectoryTypeOK, Len(created) <= MaxEvents, NEW S, created \in Seq(S),
           NEW w, NEW k, NEW r \in Result(w), Perform(w, k, r)
    PROVE  /\ DirectoryTypeOK'
           /\ \/ created' = created
              \/ w[1] = "CRE" /\ \E v : v.by = k /\ created' = Append(created, v)
           /\ \E X : created' \in Seq(X)
           /\ Len(created') <= MaxEvents
  <1> USE SessionBounds
  <1> DEFINE v == [owner |-> w[2], name |-> w[4], date |-> w[5], time |-> w[6], attend |-> w[7],
                   file |-> w[8], size |-> w[9], by |-> k, when |-> Now]
  <1>1. CASE r = "UNREADABLE"
    BY <1>1 DEF Perform, DirectoryTypeOK, directory
  <1>2. CASE r # "UNREADABLE"
    <2>1. parse_request(w, Now)
      BY <1>2 DEF Result
    <2>2. DirectoryTypeOK'
      <3>1. CASE w[1] = "LIN"
        <4>1. w[2] \in User /\ w[3] \in Password
          BY <2>1, <3>1 DEF parse_request, parse_login_request, Opens, is_valid_userid,
             is_valid_password
        <4>2. login(w[2], w[3], r)
          BY <1>2, <3>1 DEF Perform
        <4> QED
          BY <4>1, <4>2 DEF login, DirectoryTypeOK
      <3>2. CASE w[1] = "LOU"
        BY <1>2, <3>2 DEF Perform, logout, DirectoryTypeOK
      <3>3. CASE w[1] = "UNR"
        BY <1>2, <3>3 DEF Perform, unregister, DirectoryTypeOK
      <3>4. CASE w[1] = "CPS"
        <4>1. w[4] \in Password
          BY <2>1, <3>4 DEF parse_request, parse_changePass_request, is_valid_password
        <4>2. changePass(w[2], w[4], r)
          BY <1>2, <3>4 DEF Perform
        <4> QED
          BY <4>1, <4>2 DEF changePass, DirectoryTypeOK
      <3>5. CASE w[1] \notin {"LIN", "LOU", "UNR", "CPS"}
        BY <1>2, <3>5 DEF Perform, directory, DirectoryTypeOK
      <3> QED
        BY <3>1, <3>2, <3>3, <3>4, <3>5
    <2>3. CASE w[1] = "CRE" /\ r = "SUCCESS"
      <3>1. r \in Admission(w[2], w[3], Fault \cup IF Len(created) = MaxEvents
                                                    THEN {"FAILED_CREATE"} ELSE {"SUCCESS"})
        BY <2>1, <2>3 DEF Result
      <3>2. Len(created) # MaxEvents
        BY <2>3, <3>1 DEF Admission, Checked, Fault
      <3>3. created' = Append(created, v)
        BY <2>3 DEF Perform
      <3>4. v.by = k
        OBVIOUS
      <3> HIDE DEF v
      <3>5. created \in Seq(S \cup {v})
        BY SeqDef
      <3>6. created' \in Seq(S \cup {v}) /\ Len(created') = Len(created) + 1
        BY <3>3, <3>5, AppendProperties
      <3> QED
        BY <2>2, <2>3, <3>2, <3>3, <3>4, <3>6, LenProperties
    <2>4. CASE ~(w[1] = "CRE" /\ r = "SUCCESS")
      BY <2>2, <2>4 DEF Perform
    <2> QED
      BY <2>3, <2>4
  <1> QED
    BY <1>1, <1>2

LEMMA InitTyped == Init => TypeInv
  <1> SUFFICES ASSUME Init PROVE TypeInv
    OBVIOUS
  <1> USE SessionBounds, DirectoryFiles DEF Init
  <1>1. DirectoryTypeOK
    BY DEF DirectoryTypeOK, DirectoryInit
  <1>2. created \in Seq({}) /\ Len(created) = 0
    BY EmptySeq
  <1>3. clock \in 1..Len(Instants)
    <2>1. Len(Instants) \in Nat \ {0} /\ clock = 1
      OBVIOUS
    <2> QED
      BY ONLY <2>1
  <1>4. SessionTypeOK
    BY <1>1, <1>2, <1>3 DEF SessionTypeOK, Start
  <1>5. IsABag(datagrams) /\ IsABag(replies)
    BY DEF IsABag, EmptyBag, SetToBag
  <1> QED
    BY <1>2, <1>4, <1>5 DEF TypeInv, Waits, Start, OnceInv

\* A client that comes back to its prompt keeps what it had or what its
\* request says.
LEMMA Returned ==
    ASSUME TypeInv, NEW c \in Client, Waits(c), NEW status, Return(c, status)
    PROVE  /\ at' \in [Client -> {"prompt", "udp", "tcp", "gone"}] /\ at'[c] = "prompt"
           /\ attempt' \in [Client -> 0..UDP_RETRIES]
           /\ DOMAIN session' = Client /\ DOMAIN doing' = Client
           /\ \A d \in Client : \/ session'[d] = Start
                 \/ session'[d] \in [logged_in : BOOLEAN, uid : {Numeral[u] : u \in User},
                                     pass : Password]
           /\ session'[c] = Learn(session[c], doing[c], status)
           /\ \A d \in Client \ {c} :
                 at'[d] = at[d] /\ session'[d] = session[d] /\ doing'[d] = doing[d]
  <1> DEFINE Kept == [logged_in : BOOLEAN, uid : {Numeral[u] : u \in User}, pass : Password]
  <1> USE SessionBounds
  <1>1. /\ session' = [session EXCEPT ![c] = Learn(session[c], doing[c], status)]
        /\ at' = [at EXCEPT ![c] = "prompt"] /\ doing' = [doing EXCEPT ![c] = <<>>]
        /\ attempt' = [attempt EXCEPT ![c] = 0]
    BY DEF Return
  <1>2. /\ DOMAIN session = Client /\ DOMAIN doing = Client
        /\ at \in [Client -> {"prompt", "udp", "tcp", "gone"}]
        /\ attempt \in [Client -> 0..UDP_RETRIES]
        /\ \A d \in Client : session[d] = Start \/ session[d] \in Kept
    BY DEF TypeInv, SessionTypeOK
  <1>3. Sent(c, doing[c])
    BY DEF TypeInv
  <1> DEFINE new == Learn(session[c], doing[c], status)
  <1>4. new = Start \/ new \in Kept
    <2>1. CASE doing[c][1] = "LIN" /\ status \in {"OK", "REG"}
      <3>1. new = [logged_in |-> TRUE, uid |-> doing[c][2], pass |-> doing[c][3]]
        BY <2>1 DEF Learn
      <3> QED
        BY <1>3, <2>1, <3>1 DEF Sent
    <2>2. CASE doing[c][1] \in {"LOU", "UNR"} /\ status = "OK"
      <3>1. new = [session[c] EXCEPT !.logged_in = FALSE]
        BY <2>2 DEF Learn
      <3>2. CASE session[c] = Start
        BY <1>3, <2>2, <3>2 DEF Sent, Start
      <3>3. CASE session[c] \in Kept
        BY <3>1, <3>3
      <3> QED
        BY <1>2, <3>2, <3>3
    <2>3. CASE doing[c][1] = "CPS" /\ status = "OK"
      <3>1. new = [session[c] EXCEPT !.pass = doing[c][4]]
        BY <2>3 DEF Learn
      <3>2. session[c].logged_in /\ doing[c][4] \in Password
        BY <1>3, <2>3 DEF Sent
      <3>3. session[c] # Start
        BY <3>2 DEF Start
      <3> QED
        BY <1>2, <3>1, <3>2, <3>3
    <2>4. CASE /\ ~(doing[c][1] = "LIN" /\ status \in {"OK", "REG"})
               /\ ~(doing[c][1] \in {"LOU", "UNR"} /\ status = "OK")
               /\ ~(doing[c][1] = "CPS" /\ status = "OK")
      BY <1>2, <2>4 DEF Learn
    <2> QED
      BY <2>1, <2>2, <2>3, <2>4
  <1> HIDE DEF new
  <1>5. session' = [session EXCEPT ![c] = new]
    BY <1>1 DEF new
  <1>6. \A d \in Client : session'[d] = Start \/ session'[d] \in Kept
    BY <1>2, <1>4, <1>5
  <1>7. session'[c] = Learn(session[c], doing[c], status)
    BY <1>2, <1>5 DEF new
  <1> HIDE DEF Kept
  <1>8. at' \in [Client -> {"prompt", "udp", "tcp", "gone"}] /\ at'[c] = "prompt"
    BY <1>1, <1>2
  <1>9. attempt' \in [Client -> 0..UDP_RETRIES]
    BY <1>1, <1>2
  <1> QED
    BY <1>1, <1>2, <1>5, <1>6, <1>7, <1>8, <1>9 DEF Kept

\* A step of the server keeps the types.
LEMMA Served ==
    ASSUME TypeInv, NEW w, NEW k, NEW r \in Result(w), Perform(w, k, r),
           clock' = clock, UNCHANGED client,
           IsABag(datagrams') /\ IsABag(replies'), calls' \subseteq calls, OnceInv',
           \A a \in answers' : a.of \in Client /\ at[a.of] = "tcp" /\ n[a.of] = a.n
    PROVE  /\ TypeInv'
           /\ \/ created' = created
              \/ w[1] = "CRE" /\ \E v : v.by = k /\ created' = Append(created, v)
  <1>1. DirectoryTypeOK /\ Len(created) <= MaxEvents
    BY DEF TypeInv, SessionTypeOK
  <1>2. PICK S : created \in Seq(S)
    BY DEF TypeInv
  <1>3. /\ DirectoryTypeOK'
        /\ \/ created' = created
           \/ w[1] = "CRE" /\ \E v : v.by = k /\ created' = Append(created, v)
        /\ \E X : created' \in Seq(X)
        /\ Len(created') <= MaxEvents
    BY <1>1, <1>2, Performs
  <1>4. at' = at /\ session' = session /\ doing' = doing /\ attempt' = attempt /\ n' = n
    BY DEF client
  <1>5. SessionTypeOK'
    BY <1>3, <1>4 DEF TypeInv, SessionTypeOK
  <1> QED
    BY <1>3, <1>4, <1>5 DEF TypeInv, Sent, Waits

LEMMA DatagramTyped == TypeInv /\ ServeDatagram => TypeInv'
  <1> SUFFICES ASSUME TypeInv, ServeDatagram PROVE TypeInv'
    OBVIOUS
  <1>1. PICK m \in BagToSet(datagrams) : \E r \in Result(m.text) :
           /\ Perform(m.text, <<m.of, 0>>, r)
           /\ \E words \in Details(m.text, r) :
                 replies' = replies (+) Packet(m.of, IF get_udp_command(m.text[1]) = "ERR" THEN <<"ERR">>
                                                     ELSE Answer(m.text[1], r, words))
           /\ datagrams' = datagrams (-) SetToBag({m})
           /\ UNCHANGED <<clock, client, calls, answers>>
    BY DEF ServeDatagram
  <1>2. PICK r \in Result(m.text) : Perform(m.text, <<m.of, 0>>, r)
    BY <1>1
  <1>3. IsABag(datagrams')
    BY <1>1, OneLess DEF TypeInv
  <1>4. IsABag(replies')
    <2>1. PICK x : replies' = replies (+) SetToBag({x})
      BY <1>1 DEF Packet
    <2> QED
      BY <2>1, OneMore DEF TypeInv
  <1>5. \A a \in answers' : a.of \in Client /\ at[a.of] = "tcp" /\ n[a.of] = a.n
    BY <1>1 DEF TypeInv, SessionTypeOK
  <1>6. clock' = clock /\ UNCHANGED client /\ calls' \subseteq calls
    BY <1>1
  <1>7. OnceInv'
    BY <1>1 DEF TypeInv, OnceInv, Waiting, client
  <1> QED
    BY <1>2, <1>3, <1>4, <1>5, <1>6, <1>7, Served

LEMMA CallTyped == TypeInv /\ ServeCall => TypeInv'
  <1> SUFFICES ASSUME TypeInv, ServeCall PROVE TypeInv'
    OBVIOUS
  <1>1. PICK m \in calls : \E r \in Result(m.text) :
           /\ Perform(m.text, <<m.of, m.n>>, r)
           /\ \E words : answers' = IF Waiting(m)
                 THEN answers \cup
                        {[m EXCEPT !.text = IF get_tcp_command(m.text[1]) = "ERR" THEN <<"ERR">>
                                            ELSE Answer(m.text[1], r, words)]}
                 ELSE answers
           /\ calls' = calls \ {m}
           /\ UNCHANGED <<clock, client, datagrams, replies>>
    BY DEF ServeCall
  <1>2. PICK r \in Result(m.text) : Perform(m.text, <<m.of, m.n>>, r)
    BY <1>1
  <1>3. IsABag(datagrams') /\ IsABag(replies')
    BY <1>1 DEF TypeInv
  <1>4. \A a \in answers' : a.of \in Client /\ at[a.of] = "tcp" /\ n[a.of] = a.n
    <2>1. \A a \in answers : a.of \in Client /\ at[a.of] = "tcp" /\ n[a.of] = a.n
      BY DEF TypeInv, SessionTypeOK
    <2>2. \A x : [m EXCEPT !.text = x].of = m.of /\ [m EXCEPT !.text = x].n = m.n
      <3>1. m = [of |-> m.of, n |-> m.n, text |-> m.text]
        BY DEF TypeInv
      <3> QED
        BY <3>1
    <2>3. m.of \in Client
      BY DEF TypeInv
    <2>4. \A x : Waiting(m) => LET a == [m EXCEPT !.text = x]
                               IN  a.of \in Client /\ at[a.of] = "tcp" /\ n[a.of] = a.n
      BY <2>2, <2>3 DEF Waiting
    <2> QED
      BY <1>1, <2>1, <2>4
  <1>5. clock' = clock /\ UNCHANGED client /\ calls' \subseteq calls
    BY <1>1
  <1>6. OnceInv'
    <2>1. OnceInv
      BY DEF TypeInv
    <2>2. UNCHANGED <<at, n, doing>>
      BY <1>1 DEF client
    <2>3. \A k \in calls' : k # m /\ (k.of # m.of \/ k.n # m.n)
      BY <1>1, <2>1 DEF OnceInv
    <2>4. CASE ~Waiting(m)
      BY <1>1, <2>1, <2>2, <2>4 DEF OnceInv, Waiting
    <2>5. CASE Waiting(m)
      <3>1. PICK x : answers' = answers \cup {[m EXCEPT !.text = x]}
        BY <1>1, <2>5
      <3>2. [m EXCEPT !.text = x].of = m.of
        <4>1. m = [of |-> m.of, n |-> m.n, text |-> m.text]
          BY DEF TypeInv
        <4> QED
          BY <4>1
      <3>3. \A a \in answers : a.of # m.of
        BY <2>1, <2>5 DEF OnceInv
      <3>4. \A k \in calls' : Waiting(k)' => k \in calls /\ Waiting(k) /\ k.of # m.of
        BY <1>1, <2>2, <2>3, <2>5 DEF Waiting
      <3>5. \A k \in calls' : Waiting(k)' =>
               k.text = doing'[k.of] /\ \A a \in answers' : a.of # k.of
        BY <2>1, <2>2, <3>1, <3>2, <3>4 DEF OnceInv
      <3>6. \A a, b \in answers' : a.of = b.of => a = b
        BY <2>1, <3>1, <3>2, <3>3 DEF OnceInv
      <3>7. \A k, l \in calls' : k.of = l.of /\ k.n = l.n => k = l
        BY <1>1, <2>1 DEF OnceInv
      <3> QED
        BY <3>5, <3>6, <3>7 DEF OnceInv
    <2> QED
      BY <2>4, <2>5
  <1> QED
    BY <1>2, <1>3, <1>4, <1>5, <1>6, Served

LEMMA StrayTyped == TypeInv /\ Stray => TypeInv'
  <1> SUFFICES ASSUME TypeInv, Stray PROVE TypeInv'
    OBVIOUS
  <1>1. PICK w \in Strays : \E r \in Result(w) : Perform(w, <<NoOne, 0>>, r)
    BY DEF Stray
  <1>2. PICK r \in Result(w) : Perform(w, <<NoOne, 0>>, r)
    BY <1>1
  <1>3. clock' = clock /\ UNCHANGED client /\ UNCHANGED network
    BY DEF Stray
  <1>4. IsABag(datagrams') /\ IsABag(replies')
    BY <1>3 DEF TypeInv, network
  <1>5. \A a \in answers' : a.of \in Client /\ at[a.of] = "tcp" /\ n[a.of] = a.n
    BY <1>3 DEF TypeInv, SessionTypeOK, network
  <1>6. calls' \subseteq calls
    BY <1>3 DEF network
  <1>7. OnceInv'
    BY <1>3 DEF TypeInv, OnceInv, Waiting, network, client
  <1> QED
    BY <1>2, <1>3, <1>4, <1>5, <1>6, <1>7, Served

\* What Type does with request w.
Posts(c, w) ==
    /\ doing' = [doing EXCEPT ![c] = w]
    /\ n' = [n EXCEPT ![c] = @ + 1]
    /\ attempt' = [attempt EXCEPT ![c] = 1]
    /\ \/ /\ w[1] \in Datagrams
          /\ at' = [at EXCEPT ![c] = "udp"]
          /\ datagrams' = datagrams (+) Packet(c, w)
          /\ UNCHANGED calls
       \/ /\ w[1] \notin Datagrams
          /\ at' = [at EXCEPT ![c] = "tcp"]
          /\ calls' = calls \cup {[of |-> c, n |-> n[c] + 1, text |-> w]}
          /\ UNCHANGED datagrams

LEMMA Posting ==
    ASSUME NEW c \in Client, Type(c)
    PROVE  \E w : Sent(c, w) /\ Posts(c, w)
  <1>1. PICK line \in Lines : \E w \in Sends(c, line) : Posts(c, w)
    BY DEF Type, Posts
  <1>2. PICK w \in Sends(c, line) : Posts(c, w)
    BY <1>1
  <1> QED
    BY <1>2, Typing

LEMMA TypeTyped ==
    ASSUME TypeInv, NEW c \in Client, Type(c)
    PROVE  TypeInv'
  <1> USE SessionBounds
  <1>1. at[c] = "prompt" /\ n[c] < MaxCommands
    BY DEF Type
  <1>2. PICK w : Sent(c, w) /\ Posts(c, w)
    BY Posting
  <1> USE DEF Posts
  <1>3. UNCHANGED <<clock, directory, created, session, replies, answers>>
    BY DEF Type
  <1>4. Sent(c, w)
    BY <1>2
  <1>5. n \in [Client -> 0..MaxCommands] /\ n' \in [Client -> 0..MaxCommands]
    BY <1>1, <1>2 DEF TypeInv, SessionTypeOK
  <1>6. /\ at \in [Client -> {"prompt", "udp", "tcp", "gone"}]
        /\ at' \in [Client -> {"prompt", "udp", "tcp", "gone"}]
        /\ at'[c] \in {"udp", "tcp"} /\ (at'[c] = "udp" <=> w[1] \in Datagrams)
        /\ \A d \in Client \ {c} : at'[d] = at[d]
    <2>1. at \in [Client -> {"prompt", "udp", "tcp", "gone"}]
      BY DEF TypeInv, SessionTypeOK
    <2>2. CASE w[1] \in Datagrams
      <3>1. at' = [at EXCEPT ![c] = "udp"]
        BY <1>2, <2>2
      <3> QED
        BY <2>1, <2>2, <3>1
    <2>3. CASE w[1] \notin Datagrams
      <3>1. at' = [at EXCEPT ![c] = "tcp"]
        BY <1>2, <2>3
      <3> QED
        BY <2>1, <2>3, <3>1
    <2> QED
      BY <2>2, <2>3
  <1>7. /\ DOMAIN doing' = Client /\ doing'[c] = w
        /\ \A d \in Client \ {c} : doing'[d] = doing[d]
    BY <1>2 DEF TypeInv
  <1>8. attempt' \in [Client -> 0..UDP_RETRIES]
    BY <1>2 DEF TypeInv, SessionTypeOK
  <1>9. \A d \in Client : at'[d] \in {"udp", "tcp"} => Sent(d, doing'[d])
    BY <1>4, <1>6, <1>7 DEF TypeInv, Waits
  <1>10. \A a \in answers : at'[a.of] = "tcp" /\ n'[a.of] = a.n
    <2>1. \A a \in answers : a.of \in Client \ {c} /\ at[a.of] = "tcp" /\ n[a.of] = a.n
      BY <1>1 DEF TypeInv, SessionTypeOK
    <2>2. at' = [at EXCEPT ![c] = at'[c]] /\ n' = [n EXCEPT ![c] = n[c] + 1]
      BY <1>2, <1>6
    <2> QED
      BY <1>5, <1>6, <2>1, <2>2
  <1>11. \A m \in calls' : /\ m = [of |-> m.of, n |-> m.n, text |-> m.text]
                           /\ m.of \in Client /\ m.n \in 1..n'[m.of]
    <2>1. \A m \in calls : /\ m = [of |-> m.of, n |-> m.n, text |-> m.text]
                           /\ m.of \in Client /\ m.n \in 1..n[m.of]
      BY DEF TypeInv
    <2>2. n'[c] = n[c] + 1 /\ n[c] \in Nat /\ \A d \in Client : n'[d] \in Nat /\ n[d] <= n'[d]
      BY <1>2, <1>5
    <2>3. \A m \in calls : /\ m = [of |-> m.of, n |-> m.n, text |-> m.text]
                           /\ m.of \in Client /\ m.n \in 1..n'[m.of]
      BY <1>5, <2>1, <2>2
    <2> DEFINE new == [of |-> c, n |-> n[c] + 1, text |-> w]
    <2>4. /\ new = [of |-> new.of, n |-> new.n, text |-> new.text]
          /\ new.of = c /\ new.n = n[c] + 1
      OBVIOUS
    <2>5. calls' = calls \/ calls' = calls \cup {new}
      BY <1>2
    <2> HIDE DEF new
    <2> QED
      BY <2>2, <2>3, <2>4, <2>5
  <1>12. IsABag(datagrams') /\ IsABag(replies')
    <2>1. IsABag(datagrams) /\ IsABag(replies)
      BY DEF TypeInv
    <2>2. \A x : IsABag(datagrams (+) SetToBag({x}))
      BY <2>1, OneMore
    <2>3. datagrams' = datagrams \/ datagrams' = datagrams (+) SetToBag({[of |-> c, text |-> w]})
      BY <1>2 DEF Packet
    <2>4. UNCHANGED replies
      BY <1>3
    <2> QED
      BY ONLY <2>1, <2>2, <2>3, <2>4
  <1>13. SessionTypeOK'
    <2>1. DirectoryTypeOK'
      BY <1>3 DEF TypeInv, SessionTypeOK, DirectoryTypeOK, directory
    <2>2. \A d \in Client : at'[d] \in {"udp", "tcp"} => doing'[d][1] \in OpCodes
      BY <1>9 DEF Sent
    <2> QED
      BY <1>3, <1>5, <1>6, <1>8, <1>10, <2>1, <2>2 DEF TypeInv, SessionTypeOK
  <1>14. \A d \in Client : at'[d] \in {"udp", "tcp"}
            => ((at'[d] = "udp") <=> (doing'[d][1] \in Datagrams))
    BY <1>6, <1>7 DEF TypeInv, Waits
  <1>15. \A d \in Client : \A v : Sent(d, v) => Sent(d, v)'
    BY <1>3 DEF Sent
  <1>16. (\A d \in Client : Waits(d) => Sent(d, doing[d]))'
    BY <1>3, <1>9 DEF Waits, Sent
  <1>17. OnceInv'
    <2>1. \A a \in answers' : a \in answers /\ a.of \in Client \ {c}
      BY <1>1, <1>3 DEF TypeInv, SessionTypeOK
    <2>2. /\ OnceInv
          /\ \A m \in calls : m.of \in Client /\ m.n \in 1..n[m.of]
      BY DEF TypeInv
    <2>3. n'[c] = n[c] + 1 /\ n[c] \in Nat /\ \A d \in Client \ {c} : n'[d] = n[d]
      BY <1>2, <1>5
    <2>4. \A m \in calls : ~(m.of = c /\ m.n = n[c] + 1)
      BY <2>2, <2>3
    <2>5. \A m \in calls : Waiting(m)' => m.of \in Client \ {c} /\ Waiting(m)
      BY <1>6, <2>2, <2>3, <2>4 DEF Waiting
    <2> DEFINE new == [of |-> c, n |-> n[c] + 1, text |-> w]
    <2>6. new.of = c /\ new.n = n[c] + 1 /\ new.text = w
      OBVIOUS
    <2>7. calls' = calls \/ calls' = calls \cup {new}
      BY <1>2
    <2> HIDE DEF new
    <2>8. \A m, k \in calls' : m.of = k.of /\ m.n = k.n => m = k
      BY <2>2, <2>4, <2>6, <2>7 DEF OnceInv
    <2>9. \A m \in calls' : Waiting(m)' => m.text = doing'[m.of]
      <3>1. \A m \in calls : Waiting(m)' => m.text = doing'[m.of]
        BY <1>7, <2>2, <2>5 DEF OnceInv
      <3>2. new.text = doing'[new.of]
        BY <1>7, <2>6
      <3> QED
        BY <2>7, <3>1, <3>2
    <2>10. \A m \in calls' : Waiting(m)' => \A a \in answers' : a.of # m.of
      BY <2>1, <2>2, <2>5, <2>6, <2>7 DEF OnceInv
    <2>11. \A a, b \in answers' : a.of = b.of => a = b
      BY <2>1, <2>2 DEF OnceInv
    <2> QED
      BY <2>8, <2>9, <2>10, <2>11 DEF OnceInv
  <1> QED
    BY <1>3, <1>7, <1>11, <1>12, <1>13, <1>14, <1>16, <1>17, <1>10 DEF TypeInv, Waits

\* Whatever brings a client back to its prompt keeps the types.
LEMMA BackTyped ==
    ASSUME TypeInv, NEW c \in Client, Waits(c), NEW status, Return(c, status),
           IsABag(replies'), answers' \subseteq {a \in answers : a.of # c}
    PROVE  TypeInv'
  <1>1. /\ at' \in [Client -> {"prompt", "udp", "tcp", "gone"}] /\ at'[c] = "prompt"
        /\ attempt' \in [Client -> 0..UDP_RETRIES]
        /\ DOMAIN session' = Client /\ DOMAIN doing' = Client
        /\ \A d \in Client : \/ session'[d] = Start
              \/ session'[d] \in [logged_in : BOOLEAN, uid : {Numeral[u] : u \in User},
                                  pass : Password]
        /\ \A d \in Client \ {c} :
              at'[d] = at[d] /\ session'[d] = session[d] /\ doing'[d] = doing[d]
    BY Returned
  <1>2. UNCHANGED <<clock, directory, created, n, datagrams, calls>>
    BY DEF Return
  <1>3. DirectoryTypeOK'
    BY <1>2 DEF TypeInv, SessionTypeOK, DirectoryTypeOK, directory
  <1>4. \A d \in Client : at'[d] \in {"udp", "tcp"} =>
           /\ d # c /\ at'[d] = at[d] /\ session'[d] = session[d] /\ doing'[d] = doing[d]
    BY <1>1
  <1>5. \A d \in Client : at'[d] \in {"udp", "tcp"} =>
           /\ Sent(d, doing[d])
           /\ (at[d] = "udp") <=> (doing[d][1] \in Datagrams)
    BY <1>4 DEF TypeInv, Waits
  <1>6. \A d \in Client : at'[d] \in {"udp", "tcp"} => doing'[d][1] \in OpCodes
    BY <1>4, <1>5 DEF Sent
  <1>7. \A a \in answers' : a.of \in Client /\ at'[a.of] = "tcp" /\ n'[a.of] = a.n
    BY <1>1, <1>2 DEF TypeInv, SessionTypeOK
  <1>8. SessionTypeOK'
    BY <1>1, <1>2, <1>3, <1>6, <1>7 DEF TypeInv, SessionTypeOK
  <1>9. (\A d \in Client : Waits(d) => Sent(d, doing[d]))'
    BY <1>4, <1>5 DEF Waits, Sent
  <1>10. (\A d \in Client : Waits(d) => ((at[d] = "udp") <=> (doing[d][1] \in Datagrams)))'
    BY <1>4, <1>5 DEF Waits
  <1>11. IsABag(datagrams') /\ \E S : created' \in Seq(S)
    BY <1>2 DEF TypeInv
  <1>12. \A m \in calls' : /\ m = [of |-> m.of, n |-> m.n, text |-> m.text]
                           /\ m.of \in Client /\ m.n \in 1..n'[m.of]
    BY <1>2 DEF TypeInv
  <1>13. OnceInv'
    <2>1. OnceInv
      BY DEF TypeInv
    <2>2. \A m \in calls' : Waiting(m)' => m \in calls /\ m.of # c /\ m.of \in Client /\ Waiting(m)
      BY <1>1, <1>2, <1>12 DEF Waiting
    <2>3. \A m \in calls' : Waiting(m)' =>
             m.text = doing'[m.of] /\ \A a \in answers' : a.of # m.of
      BY <1>1, <2>1, <2>2 DEF OnceInv
    <2> QED
      BY <1>2, <2>1, <2>3 DEF OnceInv
  <1> QED
    BY <1>1, <1>7, <1>8, <1>9, <1>10, <1>11, <1>12, <1>13 DEF TypeInv

\* A client that listens for datagrams has no answers on connections.
LEMMA Unconnected ==
    ASSUME TypeInv, NEW c \in Client, at[c] = "udp"
    PROVE  answers \subseteq {a \in answers : a.of # c}
  BY DEF TypeInv, SessionTypeOK

LEMMA AwaitTyped ==
    ASSUME TypeInv, NEW c \in Client, Await(c)
    PROVE  TypeInv'
  <1>1. CASE Receive(c)
    <2>1. at[c] = "udp" /\ answers' = answers
      BY <1>1 DEF Receive
    <2>2. PICK r \in BagToSet(replies) : /\ Return(c, Heard(doing[c][1], r.text))
                                         /\ replies' = replies (-) SetToBag({r})
      BY <1>1 DEF Receive
    <2>3. IsABag(replies')
      BY <2>2, OneLess DEF TypeInv
    <2>4. Waits(c)
      BY <2>1 DEF Waits
    <2> QED
      BY <2>1, <2>2, <2>3, <2>4, BackTyped, Unconnected
  <1>2. CASE Retry(c)
    <2> USE SessionBounds
    <2>1. /\ attempt[c] < UDP_RETRIES /\ attempt' = [attempt EXCEPT ![c] = @ + 1]
          /\ datagrams' = datagrams (+) SetToBag({[of |-> c, text |-> doing[c]]})
          /\ UNCHANGED <<clock, directory, created, at, session, doing, n, replies, calls, answers>>
      BY <1>2 DEF Retry, Packet
    <2>2. IsABag(datagrams')
      BY <2>1, OneMore DEF TypeInv
    <2>3. attempt' \in [Client -> 0..UDP_RETRIES]
      BY <2>1 DEF TypeInv, SessionTypeOK
    <2>4. DirectoryTypeOK'
      BY <2>1 DEF TypeInv, SessionTypeOK, DirectoryTypeOK, directory
    <2>5. SessionTypeOK'
      BY <2>1, <2>3, <2>4 DEF TypeInv, SessionTypeOK
    <2>6. OnceInv'
      BY <2>1 DEF TypeInv, OnceInv, Waiting
    <2> QED
      BY <2>1, <2>2, <2>5, <2>6 DEF TypeInv, Waits, Sent
  <1>3. CASE Desist(c)
    <2>1. at[c] = "udp" /\ answers' = answers /\ replies' = replies /\ Return(c, "no response")
      BY <1>3 DEF Desist
    <2>2. Waits(c) /\ IsABag(replies')
      BY <2>1 DEF Waits, TypeInv
    <2> QED
      BY <2>1, <2>2, BackTyped, Unconnected
  <1>4. CASE ReadAnswer(c)
    <2>1. at[c] = "tcp" /\ replies' = replies
      BY <1>4 DEF ReadAnswer
    <2>2. PICK a \in answers : /\ a.of = c /\ Return(c, Heard(doing[c][1], a.text))
                               /\ answers' = answers \ {a}
      BY <1>4 DEF ReadAnswer
    <2>3. Waits(c) /\ IsABag(replies')
      BY <2>1 DEF Waits, TypeInv
    <2>4. answers' \subseteq {b \in answers : b.of # c}
      BY <2>2 DEF TypeInv, OnceInv
    <2> QED
      BY <2>1, <2>2, <2>3, <2>4, BackTyped
  <1>5. CASE GiveUp(c)
    <2>1. /\ at[c] = "tcp" /\ replies' = replies /\ Return(c, "no response")
          /\ answers' = {a \in answers : a.of # c}
      BY <1>5 DEF GiveUp
    <2>2. Waits(c) /\ IsABag(replies')
      BY <2>1 DEF Waits, TypeInv
    <2> QED
      BY <2>1, <2>2, BackTyped
  <1> QED
    BY <1>1, <1>2, <1>3, <1>4, <1>5 DEF Await

LEMMA NextTyped == TypeInv /\ [Next]_vars => TypeInv'
  <1> SUFFICES ASSUME TypeInv, [Next]_vars PROVE TypeInv'
    OBVIOUS
  <1>1. CASE Tick
    <2>1. clock' \in 1..Len(Instants)
      BY <1>1, SessionBounds DEF Tick, TypeInv, SessionTypeOK
    <2>2. UNCHANGED <<directory, created, client, network>>
      BY <1>1 DEF Tick
    <2> QED
      BY <2>1, <2>2 DEF TypeInv, SessionTypeOK, DirectoryTypeOK, directory, client, network, Waits,
         Sent, OnceInv, Waiting
  <1>2. ASSUME NEW c \in Client, handle_exit(c) PROVE TypeInv'
    <2>1. UNCHANGED <<clock, directory, created, session, doing, attempt, n, network>>
      BY <1>2 DEF handle_exit
    <2>2. at' = [at EXCEPT ![c] = "gone"] /\ at[c] = "prompt"
      BY <1>2 DEF handle_exit
    <2>3. /\ at' \in [Client -> {"prompt", "udp", "tcp", "gone"}]
          /\ \A d \in Client : at'[d] \in {"udp", "tcp"} => at'[d] = at[d]
          /\ \A d \in Client : at[d] \in {"udp", "tcp"} => at'[d] = at[d]
      BY <2>2 DEF TypeInv, SessionTypeOK
    <2>4. DirectoryTypeOK'
      BY <2>1 DEF TypeInv, SessionTypeOK, DirectoryTypeOK, directory
    <2>5. \A a \in answers' : at'[a.of] = "tcp" /\ n'[a.of] = a.n
      BY <2>1, <2>3 DEF TypeInv, SessionTypeOK, network
    <2>6. SessionTypeOK'
      BY <2>1, <2>3, <2>4, <2>5 DEF TypeInv, SessionTypeOK
    <2>7. OnceInv'
      <3>1. \A m \in calls : m.of \in Client /\ (Waiting(m)' => Waiting(m))
        BY <2>1, <2>3 DEF TypeInv, Waiting
      <3> QED
        BY <2>1, <3>1 DEF TypeInv, OnceInv, network
    <2> QED
      BY <2>1, <2>3, <2>6, <2>7 DEF TypeInv, Waits, Sent, network
  <1>3. ASSUME NEW c \in Client, Refuse(c) PROVE TypeInv'
    BY <1>3 DEF Refuse, vars, TypeInv, SessionTypeOK, DirectoryTypeOK, directory, client, network,
       Waits, Sent, OnceInv, Waiting
  <1>4. CASE UNCHANGED vars
    BY <1>4 DEF vars, TypeInv, SessionTypeOK, DirectoryTypeOK, directory, client, network, Waits, Sent,
       OnceInv, Waiting
  <1> QED
    BY <1>1, <1>2, <1>3, <1>4, DatagramTyped, CallTyped, StrayTyped, TypeTyped, AwaitTyped DEF Next

\* Every client is in one place and keeps a name and a password that go
\* together, no datagram is sent more than UDP_RETRIES times, and no answer is
\* left on a connection nobody reads, for any number of clients.
THEOREM SessionTyped == Spec => []SessionTypeOK
  <1>1. TypeInv => SessionTypeOK
    BY DEF TypeInv
  <1> QED
    BY <1>1, InitTyped, NextTyped, PTL DEF Spec

-----------------------------------------------------------------------------
(***************************************************************************)
(* Answers and what the client makes of them.                              *)
(***************************************************************************)

\* The first words of an answer are those of its handler.
LEMMA FirstWords ==
    ASSUME NEW a, NEW b, NEW d, d = <<>> \/ \E x : d = <<x>>
    PROVE  (<<a, b>> \o d)[1] = a /\ (<<a, b>> \o d)[2] = b
  OBVIOUS

\* The server words only what it decided; a datagram other than a login is
\* never answered as a login is.
LEMMA Worded ==
    ASSUME NEW w, w[1] \in Datagrams \cup {"CPS"}, NEW r \in Result(w), NEW words \in Details(w, r),
           NEW t, t = Answer(w[1], r, words)
    PROVE  /\ t[1] \in {Response[w[1]], "NOK"}
           /\ w[1] = "LIN" /\ t[1] = "RLI" /\ t[2] \in {"OK", "REG"} => r \in {"SUCCESS", "REGISTERED"}
           /\ w[1] = "CPS" /\ t[1] = "RCP" /\ t[2] = "OK" => r = "SUCCESS"
  <1>1. CASE r = "UNREADABLE"
    BY <1>1 DEF Answer
  <1>2. CASE r = "IO_ERROR"
    BY <1>2 DEF Answer
  <1>3. CASE r \notin {"UNREADABLE", "IO_ERROR"}
    <2>1. t = <<Response[w[1]], Handler[w[1]][r]>> \o words
      BY <1>3 DEF Answer
    <2>2. words = <<>> \/ \E x : words = <<x>>
      BY DEF Details, Datagrams
    <2>3. t[1] = Response[w[1]] /\ t[2] = Handler[w[1]][r]
      BY <2>1, <2>2, FirstWords
    <2>4. parse_request(w, Now)
      BY <1>3 DEF Result
    <2>5. CASE w[1] = "LIN"
      <3>1. r \in LoginResult(w[2], w[3])
        BY <2>4, <2>5 DEF Result
      <3>2. r \in {"SUCCESS", "REGISTERED", "WRONG_PASS"}
        BY <1>3, <3>1 DEF LoginResult, Checked
      <3>3. r = "WRONG_PASS" => t[2] = "NOK"
        BY <2>3, <2>5 DEF Handler, loginStatus
      <3> QED
        BY <2>3, <2>5, <3>2, <3>3
    <2>6. CASE w[1] = "CPS"
      <3>1. r \in ChangePassResult(w[2], w[3])
        BY <2>4, <2>6 DEF Result
      <3>2. r \in {"SUCCESS", "NOT_REGISTERED", "NOT_LOGGED_IN", "WRONG_PASS"}
        BY <1>3, <3>1 DEF ChangePassResult, Checked
      <3>3. r # "SUCCESS" => t[2] # "OK"
        BY <2>3, <2>6, <3>2 DEF Handler, changePassStatus
      <3> QED
        BY <2>3, <2>6, <3>3
    <2>7. CASE w[1] \notin {"LIN", "CPS"}
      BY <2>3, <2>7
    <2> QED
      BY <2>5, <2>6, <2>7
  <1> QED
    BY <1>1, <1>2, <1>3

\* A client takes for an answer to a login only what is worded as one.
LEMMA HeardLogin ==
    ASSUME NEW t, Heard("LIN", t) \in {"OK", "REG"}
    PROVE  t[1] = "RLI" /\ t[2] \in {"OK", "REG"}
  <1>1. er_login(t) \in {"OK", "REG"}
    BY DEF Heard
  <1>2. parse_login_response(t) /\ er_login(t) = t[2]
    BY <1>1 DEF er_login, Report
  <1> QED
    BY <1>1, <1>2 DEF parse_login_response, Heads, str_to_op

LEMMA HeardChange ==
    ASSUME NEW t, Heard("CPS", t) = "OK"
    PROVE  t[1] = "RCP" /\ t[2] = "OK"
  <1>1. er_changePass(t) = "OK"
    BY DEF Heard
  <1>2. parse_changePass_response(t) /\ er_changePass(t) = t[2]
    BY <1>1 DEF er_changePass, Report
  <1> QED
    BY <1>1, <1>2 DEF parse_changePass_response, Heads, str_to_op

\* Only a login lets a client in, only a changePass gives it another password,
\* and its user name comes with a login.
LEMMA Learned ==
    ASSUME NEW s, NEW w, NEW status, DOMAIN s = {"logged_in", "uid", "pass"},
           Learn(s, w, status).logged_in
    PROVE  \/ w[1] = "LIN" /\ status \in {"OK", "REG"}
              /\ Learn(s, w, status).uid = w[2] /\ Learn(s, w, status).pass = w[3]
           \/ w[1] = "CPS" /\ status = "OK"
              /\ Learn(s, w, status).uid = s.uid /\ Learn(s, w, status).pass = w[4]
           \/ Learn(s, w, status) = s
  <1>1. CASE w[1] = "LIN" /\ status \in {"OK", "REG"}
    BY <1>1 DEF Learn
  <1>2. CASE w[1] \in {"LOU", "UNR"} /\ status = "OK"
    <2>1. Learn(s, w, status) = [s EXCEPT !.logged_in = FALSE]
      BY <1>2 DEF Learn
    <2>2. Learn(s, w, status).logged_in = FALSE
      BY <2>1
    <2> QED
      BY <2>2
  <1>3. CASE w[1] = "CPS" /\ status = "OK"
    BY <1>3 DEF Learn
  <1>4. CASE /\ ~(w[1] = "LIN" /\ status \in {"OK", "REG"})
             /\ ~(w[1] \in {"LOU", "UNR"} /\ status = "OK")
             /\ ~(w[1] = "CPS" /\ status = "OK")
    BY <1>4 DEF Learn
  <1> QED
    BY <1>1, <1>2, <1>3, <1>4

-----------------------------------------------------------------------------
(***************************************************************************)
(* What the client is told of its logins and passwords.                    *)
(***************************************************************************)

\* The logins of client c on their way to the server, and the answers to
\* logins on their way back.
Asked(c) == {m \in BagToSet(datagrams) : m.of = c /\ m.text[1] = "LIN"}
Told(c) == {r \in BagToSet(replies) : r.of = c /\ r.text[1] = "RLI"}

\* As long as every login of c ended with its own answer, the network holds
\* one copy at most of one of them: the one c waits for, or the answer to it.
Alone(c) ==
    /\ \A m \in Asked(c) : /\ at[c] = "udp" /\ m.text = doing[c] /\ datagrams[m] = 1
                           /\ Told(c) = {}
    /\ \A r \in Told(c) : /\ at[c] = "udp" /\ doing[c][1] = "LIN" /\ replies[r] = 1
                          /\ r.text[2] \in {"OK", "REG"} =>
                                <<c, doing[c][2], doing[c][3]>> \in granted
    /\ \A r, q \in Told(c) : r = q

\* Packets are as a client makes them.
PacketInv ==
    /\ \A m \in BagToSet(datagrams) : /\ m = [of |-> m.of, text |-> m.text]
                                      /\ m.of \in Client /\ m.text[1] \in Datagrams
    /\ \A r \in BagToSet(replies) : r.of \in Client

\* An answer that confirms a new password was preceded by the server's
\* decision.
ChangeInv ==
    \A a \in answers : doing[a.of][1] = "CPS" /\ Heard("CPS", a.text) = "OK" =>
        <<a.of, doing[a.of][2], doing[a.of][4]>> \in granted

GrantInv ==
    /\ LoggedInAsGranted
    /\ ChangeInv
    /\ \A c \in Client \ late : Alone(c)

\* An event stands for one call, which is not waiting to be served again.
EventInv ==
    /\ OneEventPerCreate
    /\ \A e \in Number : created[e].by[1] \in Client =>
          /\ created[e].by[2] \in 0..n[created[e].by[1]]
          /\ \A m \in calls : created[e].by # <<m.of, m.n>>

\* What neither adds nor replaces packets of c, nor moves it, leaves it alone.
LEMMA LeftAlone ==
    ASSUME NEW c \in Client, Alone(c),
           Asked(c)' \subseteq Asked(c), \A m \in Asked(c)' : datagrams'[m] = datagrams[m],
           Told(c)' \subseteq Told(c), \A r \in Told(c)' : replies'[r] = replies[r],
           at'[c] = at[c], doing'[c] = doing[c], granted \subseteq granted'
    PROVE  Alone(c)'
  BY DEF Alone

\* A client that is not waiting for a login has no packet of one, and keeps
\* having none when it moves.
LEMMA NoneAround ==
    ASSUME NEW c \in Client, Alone(c), at[c] # "udp" \/ doing[c][1] # "LIN"
    PROVE  Asked(c) = {} /\ Told(c) = {}
  BY DEF Alone, Asked

LEMMA InitGranted == Init => PacketInv /\ GrantInv /\ EventInv
  <1> SUFFICES ASSUME Init PROVE PacketInv /\ GrantInv /\ EventInv
    OBVIOUS
  <1>1. BagToSet(datagrams) = {} /\ BagToSet(replies) = {} /\ calls = {} /\ answers = {}
    BY DEF Init, EmptyBag, BagToSet, SetToBag
  <1>2. PacketInv
    BY <1>1 DEF PacketInv
  <1>3. LoggedInAsGranted
    BY DEF Init, LoggedInAsGranted, Start
  <1>4. \A c \in Client \ late : Alone(c)
    BY <1>1 DEF Alone, Asked, Told
  <1>5. Number = {}
    BY DEF Init, Number
  <1> QED
    BY <1>1, <1>2, <1>3, <1>4, <1>5 DEF GrantInv, ChangeInv, EventInv, OneEventPerCreate

\* Packets keep their make: one more request of a client, or answer to one.
LEMMA NextPackets == TypeInv /\ PacketInv /\ [Next]_vars => PacketInv'
  <1> SUFFICES ASSUME TypeInv, PacketInv, [Next]_vars PROVE PacketInv'
    OBVIOUS
  <1> USE DEF PacketInv
  <1>1. CASE ServeDatagram
    <2>1. PICK m \in BagToSet(datagrams) :
             /\ \E x : replies' = replies (+) SetToBag({[of |-> m.of, text |-> x]})
             /\ datagrams' = datagrams (-) SetToBag({m})
      BY <1>1 DEF ServeDatagram, Packet
    <2>2. BagToSet(datagrams') \subseteq BagToSet(datagrams)
      BY <2>1, OneLess DEF TypeInv
    <2>3. PICK x : replies' = replies (+) SetToBag({[of |-> m.of, text |-> x]})
      BY <2>1
    <2>4. BagToSet(replies') = BagToSet(replies) \cup {[of |-> m.of, text |-> x]}
      BY <2>3, OneMore DEF TypeInv
    <2>5. [of |-> m.of, text |-> x].of = m.of /\ m.of \in Client
      OBVIOUS
    <2> QED
      BY <2>2, <2>4, <2>5
  <1>2. ASSUME NEW c \in Client, Type(c) PROVE PacketInv'
    <2>1. PICK w : Sent(c, w) /\ Posts(c, w)
      BY <1>2, Posting
    <2>2. UNCHANGED replies
      BY <1>2 DEF Type
    <2>3. CASE w[1] \in Datagrams
      <3>1. datagrams' = datagrams (+) SetToBag({[of |-> c, text |-> w]})
        BY <2>1, <2>3 DEF Posts, Packet
      <3>2. BagToSet(datagrams') = BagToSet(datagrams) \cup {[of |-> c, text |-> w]}
        BY <3>1, OneMore DEF TypeInv
      <3> QED
        BY <2>2, <2>3, <3>2
    <2>4. CASE w[1] \notin Datagrams
      BY <2>1, <2>2, <2>4 DEF Posts
    <2> QED
      BY <2>3, <2>4
  <1>3. ASSUME NEW c \in Client, Retry(c) PROVE PacketInv'
    <2>1. datagrams' = datagrams (+) SetToBag({[of |-> c, text |-> doing[c]]}) /\ UNCHANGED replies
      BY <1>3 DEF Retry, Packet
    <2>2. BagToSet(datagrams') = BagToSet(datagrams) \cup {[of |-> c, text |-> doing[c]]}
      BY <2>1, OneMore DEF TypeInv
    <2>3. doing[c][1] \in Datagrams
      BY <1>3 DEF Retry, TypeInv, Waits
    <2> QED
      BY <2>1, <2>2, <2>3
  <1>4. ASSUME NEW c \in Client, Receive(c) PROVE PacketInv'
    <2>1. PICK r \in BagToSet(replies) : replies' = replies (-) SetToBag({r})
      BY <1>4 DEF Receive
    <2>2. BagToSet(replies') \subseteq BagToSet(replies)
      BY <2>1, OneLess DEF TypeInv
    <2>3. UNCHANGED datagrams
      BY <1>4 DEF Receive, Return
    <2> QED
      BY <2>2, <2>3
  <1>5. CASE Tick \/ ServeCall \/ Stray
    BY <1>5 DEF Tick, ServeCall, Stray, network
  <1>6. ASSUME NEW c \in Client, Refuse(c) \/ handle_exit(c) \/ Desist(c) \/ ReadAnswer(c) \/ GiveUp(c)
        PROVE PacketInv'
    BY <1>6 DEF Refuse, handle_exit, Desist, ReadAnswer, GiveUp, Return, vars, network
  <1>7. CASE UNCHANGED vars
    BY <1>7 DEF vars, network
  <1> QED
    BY <1>1, <1>2, <1>3, <1>4, <1>5, <1>6, <1>7 DEF Next, Await

\* The parent serves a datagram: a login that is let in is granted before its
\* answer exists.
LEMMA DatagramGranted == TypeInv /\ PacketInv /\ GrantInv /\ ServeDatagram => GrantInv'
  <1> SUFFICES ASSUME TypeInv, PacketInv, GrantInv, ServeDatagram PROVE GrantInv'
    OBVIOUS
  <1>1. PICK m \in BagToSet(datagrams) : \E r \in Result(m.text) :
           /\ \E words \in Details(m.text, r) :
                 replies' = replies (+) Packet(m.of, IF get_udp_command(m.text[1]) = "ERR" THEN <<"ERR">>
                                                     ELSE Answer(m.text[1], r, words))
           /\ datagrams' = datagrams (-) SetToBag({m})
           /\ granted' = IF m.text[1] = "LIN" /\ r \in {"SUCCESS", "REGISTERED"}
                         THEN granted \cup {<<m.of, m.text[2], m.text[3]>>} ELSE granted
    BY DEF ServeDatagram
  <1>2. PICK r \in Result(m.text) :
           /\ \E words \in Details(m.text, r) :
                 replies' = replies (+) Packet(m.of, IF get_udp_command(m.text[1]) = "ERR" THEN <<"ERR">>
                                                     ELSE Answer(m.text[1], r, words))
           /\ granted' = IF m.text[1] = "LIN" /\ r \in {"SUCCESS", "REGISTERED"}
                         THEN granted \cup {<<m.of, m.text[2], m.text[3]>>} ELSE granted
    BY <1>1
  <1>3. PICK words \in Details(m.text, r) :
           replies' = replies (+) Packet(m.of, IF get_udp_command(m.text[1]) = "ERR" THEN <<"ERR">>
                                               ELSE Answer(m.text[1], r, words))
    BY <1>2
  <1> DEFINE t == Answer(m.text[1], r, words)
             x == [of |-> m.of, text |-> t]
  <1>4. m.of \in Client /\ m.text[1] \in Datagrams /\ m = [of |-> m.of, text |-> m.text]
    BY DEF PacketInv
  <1>5. replies' = replies (+) SetToBag({x})
    <2>1. get_udp_command(m.text[1]) # "ERR"
      BY <1>4 DEF get_udp_command, str_to_op, Datagrams, OpCodes, Response
    <2> QED
      BY <1>3, <2>1 DEF Packet
  <1> HIDE DEF x
  <1>6. /\ BagToSet(replies') = BagToSet(replies) \cup {x}
        /\ x \notin BagToSet(replies) => replies'[x] = 1
        /\ \A y \in BagToSet(replies) : y # x => replies'[y] = replies[y]
    <2>1. IsABag(replies)
      BY DEF TypeInv
    <2> QED
      BY <1>5, <2>1, OneMore
  <1>7. /\ BagToSet(datagrams') \subseteq BagToSet(datagrams)
        /\ datagrams[m] = 1 => m \notin BagToSet(datagrams')
        /\ \A y \in BagToSet(datagrams') : y # m => datagrams'[y] = datagrams[y]
    <2>1. IsABag(datagrams) /\ datagrams' = datagrams (-) SetToBag({m})
      BY <1>1 DEF TypeInv
    <2> QED
      BY <2>1, OneLess
  <1>8. /\ t[1] \in {Response[m.text[1]], "NOK"}
        /\ m.text[1] = "LIN" /\ t[1] = "RLI" /\ t[2] \in {"OK", "REG"} => r \in {"SUCCESS", "REGISTERED"}
    <2>1. m.text[1] \in Datagrams \cup {"CPS"}
      BY <1>4
    <2> HIDE DEF t
    <2>2. t = Answer(m.text[1], r, words)
      BY DEF t
    <2> QED
      BY <2>1, <2>2, Worded
  <1>9. x.of = m.of /\ x.text = t
    BY DEF x
  <1>10. granted \subseteq granted' /\ UNCHANGED <<client, answers, late>>
    BY <1>2 DEF ServeDatagram
  <1>11. UNCHANGED <<at, session, doing>>
    BY <1>10 DEF client
  <1> HIDE DEF t
  <1>12. ASSUME NEW c \in Client \ late' PROVE Alone(c)'
    <2>1. Alone(c)
      BY <1>10 DEF GrantInv
    <2>2. CASE c # m.of
      <3>1. /\ Asked(c)' \subseteq Asked(c) /\ \A y \in Asked(c)' : datagrams'[y] = datagrams[y]
            /\ Told(c)' \subseteq Told(c) /\ \A y \in Told(c)' : replies'[y] = replies[y]
        BY <1>6, <1>7, <1>9, <2>2 DEF Asked, Told
      <3> QED
        BY <1>10, <1>11, <2>1, <3>1, LeftAlone
    <2>3. CASE c = m.of /\ m.text[1] # "LIN"
      <3>1. t[1] # "RLI"
        BY <1>4, <1>8, <2>3 DEF Datagrams, Response
      <3>2. /\ Asked(c)' \subseteq Asked(c) /\ \A y \in Asked(c)' : datagrams'[y] = datagrams[y]
            /\ Told(c)' \subseteq Told(c) /\ \A y \in Told(c)' : replies'[y] = replies[y]
        BY <1>6, <1>7, <1>9, <2>3, <3>1 DEF Asked, Told
      <3> QED
        BY <1>10, <1>11, <2>1, <3>2, LeftAlone
    <2>4. CASE c = m.of /\ m.text[1] = "LIN"
      <3>1. m \in Asked(c)
        BY <2>4 DEF Asked
      <3>2. at[c] = "udp" /\ m.text = doing[c] /\ datagrams[m] = 1 /\ Told(c) = {}
        BY <2>1, <3>1 DEF Alone
      <3>3. \A y \in Asked(c) : y = m
        <4>1. \A y \in Asked(c) : y.of = c /\ y.text = doing[c] /\ y = [of |-> y.of, text |-> y.text]
          BY <2>1 DEF Alone, Asked, PacketInv
        <4> QED
          BY <1>4, <2>4, <3>2, <4>1
      <3>4. Asked(c)' = {}
        BY <1>7, <3>2, <3>3 DEF Asked
      <3>5. \A y \in Told(c)' : y = x /\ x.text[1] = "RLI"
        BY <1>6, <3>2 DEF Told
      <3>6. ASSUME NEW y \in Told(c)'
            PROVE  /\ replies'[y] = 1 /\ doing[c][1] = "LIN"
                   /\ y.text[2] \in {"OK", "REG"} => <<c, doing[c][2], doing[c][3]>> \in granted'
        <4>1. y = x /\ t[1] = "RLI"
          BY <1>9, <3>5, <3>6
        <4>2. x \notin BagToSet(replies)
          BY <1>9, <2>4, <3>2, <4>1 DEF Told
        <4>3. t[2] \in {"OK", "REG"} => r \in {"SUCCESS", "REGISTERED"}
          BY <1>8, <2>4, <4>1
        <4> QED
          BY <1>2, <1>6, <1>9, <2>4, <3>2, <4>1, <4>2, <4>3
      <3> QED
        BY <1>11, <3>2, <3>4, <3>5, <3>6 DEF Alone
    <2> QED
      BY <2>2, <2>3, <2>4
  <1>13. LoggedInAsGranted'
    BY <1>10, <1>11 DEF GrantInv, LoggedInAsGranted
  <1>14. ChangeInv'
    BY <1>10, <1>11 DEF GrantInv, ChangeInv
  <1> QED
    BY <1>12, <1>13, <1>14 DEF GrantInv

\* A child serves a call: a new password is granted before the client reads
\* that it is.
LEMMA CallGranted == TypeInv /\ GrantInv /\ ServeCall => GrantInv'
  <1> SUFFICES ASSUME TypeInv, GrantInv, ServeCall PROVE GrantInv'
    OBVIOUS
  <1>1. PICK m \in calls : \E r \in Result(m.text) :
           /\ \E words \in Details(m.text, r) :
                answers' = IF Waiting(m)
                           THEN answers \cup
                              {[m EXCEPT !.text = IF get_tcp_command(m.text[1]) = "ERR" THEN <<"ERR">>
                                                  ELSE Answer(m.text[1], r, words)]}
                           ELSE answers
           /\ granted' = IF m.text[1] = "CPS" /\ r = "SUCCESS"
                         THEN granted \cup {<<m.of, m.text[2], m.text[4]>>} ELSE granted
    BY DEF ServeCall
  <1>2. PICK r \in Result(m.text) :
           /\ \E words \in Details(m.text, r) :
                answers' = IF Waiting(m)
                           THEN answers \cup
                              {[m EXCEPT !.text = IF get_tcp_command(m.text[1]) = "ERR" THEN <<"ERR">>
                                                  ELSE Answer(m.text[1], r, words)]}
                           ELSE answers
           /\ granted' = IF m.text[1] = "CPS" /\ r = "SUCCESS"
                         THEN granted \cup {<<m.of, m.text[2], m.text[4]>>} ELSE granted
    BY <1>1
  <1>3. PICK words \in Details(m.text, r) :
           answers' = IF Waiting(m)
                      THEN answers \cup
                         {[m EXCEPT !.text = IF get_tcp_command(m.text[1]) = "ERR" THEN <<"ERR">>
                                             ELSE Answer(m.text[1], r, words)]}
                      ELSE answers
    BY <1>2
  <1>4. granted \subseteq granted' /\ UNCHANGED <<client, datagrams, replies, late>>
    BY <1>2 DEF ServeCall
  <1>5. UNCHANGED <<at, session, doing>>
    BY <1>4 DEF client
  <1>6. \A a \in answers : doing[a.of][1] = "CPS" /\ Heard("CPS", a.text) = "OK" =>
           <<a.of, doing[a.of][2], doing[a.of][4]>> \in granted
    BY DEF GrantInv, ChangeInv
  <1>7. ChangeInv'
    <2>1. CASE ~Waiting(m)
      BY <1>3, <1>4, <1>5, <1>6, <2>1 DEF ChangeInv
    <2>2. CASE Waiting(m)
      <3> DEFINE t == IF get_tcp_command(m.text[1]) = "ERR" THEN <<"ERR">>
                      ELSE Answer(m.text[1], r, words)
                 b == [m EXCEPT !.text = t]
      <3>1. answers' = answers \cup {b}
        BY <1>3, <2>2
      <3>2. b.of = m.of /\ b.text = t
        <4>1. m = [of |-> m.of, n |-> m.n, text |-> m.text]
          BY DEF TypeInv
        <4> HIDE DEF t
        <4> QED
          BY <4>1
      <3>3. m.text = doing[m.of]
        BY <2>2 DEF TypeInv, OnceInv
      <3>4. ASSUME m.text[1] = "CPS", Heard("CPS", t) = "OK"
            PROVE  <<m.of, m.text[2], m.text[4]>> \in granted'
        <4>1. get_tcp_command(m.text[1]) = "CPS"
          BY <3>4 DEF get_tcp_command, str_to_op, OpCodes, Response, Datagrams
        <4>2. t = Answer(m.text[1], r, words)
          BY <4>1
        <4> HIDE DEF t
        <4>3. t[1] = "RCP" /\ t[2] = "OK"
          BY <3>4, HeardChange
        <4>4. m.text[1] \in Datagrams \cup {"CPS"}
          BY <3>4
        <4>5. r = "SUCCESS"
          BY <3>4, <4>2, <4>3, <4>4, Worded
        <4> QED
          BY <1>2, <3>4, <4>5
      <3> HIDE DEF b, t
      <3> QED
        BY <1>4, <1>5, <1>6, <3>1, <3>2, <3>3, <3>4 DEF ChangeInv
    <2> QED
      BY <2>1, <2>2
  <1>8. LoggedInAsGranted'
    BY <1>4, <1>5 DEF GrantInv, LoggedInAsGranted
  <1>9. ASSUME NEW c \in Client \ late' PROVE Alone(c)'
    <2>1. Alone(c)
      BY <1>4 DEF GrantInv
    <2> QED
      BY <1>4, <1>5, <2>1 DEF Alone, Asked, Told
  <1> QED
    BY <1>7, <1>8, <1>9 DEF GrantInv

\* A new request: no packet of an earlier login is around when one is sent.
LEMMA TypeGranted ==
    ASSUME TypeInv, GrantInv, NEW c \in Client, Type(c)
    PROVE  GrantInv'
  <1>1. at[c] = "prompt" /\ UNCHANGED <<session, replies, answers, granted, late>>
    BY DEF Type, history
  <1>2. PICK w : Sent(c, w) /\ Posts(c, w)
    BY Posting
  <1>3. doing' = [doing EXCEPT ![c] = w] /\ DOMAIN doing = Client
    BY <1>2 DEF Posts, TypeInv
  <1>4. \A d \in Client \ {c} : at'[d] = at[d] /\ doing'[d] = doing[d]
    BY <1>2, <1>3 DEF Posts, TypeInv, SessionTypeOK
  <1> DEFINE x == [of |-> c, text |-> w]
  <1>5. x.of = c /\ x.text = w
    OBVIOUS
  <1>6. \/ w[1] \in Datagrams /\ at'[c] = "udp" /\ datagrams' = datagrams (+) SetToBag({x})
        \/ w[1] \notin Datagrams /\ datagrams' = datagrams
    BY <1>2 DEF Posts, Packet, TypeInv, SessionTypeOK
  <1> HIDE DEF x
  <1>7. /\ BagToSet(datagrams') \subseteq BagToSet(datagrams) \cup {x}
        /\ x \notin BagToSet(datagrams) /\ w[1] \in Datagrams => datagrams'[x] = 1
        /\ \A y \in BagToSet(datagrams) : y # x => datagrams'[y] = datagrams[y]
    <2>1. IsABag(datagrams)
      BY DEF TypeInv
    <2>2. /\ BagToSet(datagrams (+) SetToBag({x})) = BagToSet(datagrams) \cup {x}
          /\ x \notin BagToSet(datagrams) => (datagrams (+) SetToBag({x}))[x] = 1
          /\ \A y \in BagToSet(datagrams) : y # x => (datagrams (+) SetToBag({x}))[y] = datagrams[y]
      BY <2>1, OneMore
    <2> QED
      BY <1>6, <2>2
  <1>8. ASSUME NEW d \in Client \ late' PROVE Alone(d)'
    <2>1. Alone(d)
      BY <1>1 DEF GrantInv
    <2>2. CASE d # c
      <3>1. /\ Asked(d)' \subseteq Asked(d) /\ \A y \in Asked(d)' : datagrams'[y] = datagrams[y]
            /\ Told(d)' \subseteq Told(d) /\ \A y \in Told(d)' : replies'[y] = replies[y]
        BY <1>1, <1>5, <1>7, <2>2 DEF Asked, Told
      <3> QED
        BY <1>1, <1>4, <2>1, <2>2, <3>1, LeftAlone
    <2>3. CASE d = c
      <3>1. Asked(c) = {} /\ Told(c) = {}
        BY <1>1, <2>1, <2>3, NoneAround
      <3>2. Told(c)' = {}
        BY <1>1, <3>1 DEF Told
      <3>3. ASSUME NEW y \in Asked(c)'
            PROVE  at'[c] = "udp" /\ y.text = doing'[c] /\ datagrams'[y] = 1
        <4>1. y = x /\ w[1] = "LIN" /\ x \notin BagToSet(datagrams)
          BY <1>5, <1>7, <3>1, <3>3 DEF Asked
        <4>2. w[1] \in Datagrams
          BY <4>1 DEF Datagrams
        <4> QED
          BY <1>3, <1>5, <1>6, <1>7, <4>1, <4>2
      <3> QED
        BY <2>3, <3>2, <3>3 DEF Alone
    <2> QED
      BY <2>2, <2>3
  <1>9. ChangeInv'
    <2>1. \A a \in answers : a.of \in Client \ {c}
      BY <1>1 DEF TypeInv, SessionTypeOK
    <2> QED
      BY <1>1, <1>4, <2>1 DEF GrantInv, ChangeInv
  <1>10. LoggedInAsGranted'
    BY <1>1 DEF GrantInv, LoggedInAsGranted
  <1> QED
    BY <1>8, <1>9, <1>10 DEF GrantInv

\* A client comes back to its prompt: if it then counts itself logged in, it
\* did before, or its login or changePass is granted.
LEMMA BackGranted ==
    ASSUME TypeInv, GrantInv, NEW c \in Client, Waits(c), NEW status, Return(c, status),
           late \subseteq late',
           answers' \subseteq answers, \A a \in answers' : a.of # c,
           BagToSet(replies') \subseteq BagToSet(replies),
           \A r \in BagToSet(replies') : r.of # c => replies'[r] = replies[r],
           c \notin late' =>
              /\ Asked(c) = {} /\ Told(c)' = {}
              /\ doing[c][1] = "LIN" /\ status \in {"OK", "REG"} =>
                    <<c, doing[c][2], doing[c][3]>> \in granted
              /\ doing[c][1] = "CPS" /\ status = "OK" =>
                    <<c, doing[c][2], doing[c][4]>> \in granted
    PROVE  GrantInv'
  <1>1. UNCHANGED <<granted, datagrams>>
    BY DEF Return
  <1>2. /\ session'[c] = Learn(session[c], doing[c], status) /\ at'[c] = "prompt"
        /\ \A d \in Client \ {c} :
              at'[d] = at[d] /\ session'[d] = session[d] /\ doing'[d] = doing[d]
    BY Returned
  <1>3. ASSUME NEW d \in Client \ late' PROVE Alone(d)'
    <2>1. Alone(d)
      BY DEF GrantInv
    <2>2. CASE d # c
      <3>1. /\ Asked(d)' \subseteq Asked(d) /\ \A y \in Asked(d)' : datagrams'[y] = datagrams[y]
            /\ Told(d)' \subseteq Told(d) /\ \A y \in Told(d)' : replies'[y] = replies[y]
        BY <1>1, <2>2 DEF Asked, Told
      <3> QED
        BY <1>1, <1>2, <2>1, <2>2, <3>1, LeftAlone
    <2>3. CASE d = c
      <3>1. Asked(c)' = {} /\ Told(c)' = {}
        BY <1>1, <2>3 DEF Asked
      <3> QED
        BY <2>3, <3>1 DEF Alone
    <2> QED
      BY <2>2, <2>3
  <1>4. ChangeInv'
    <2>1. \A a \in answers' : a \in answers /\ a.of \in Client \ {c}
      BY DEF TypeInv
    <2> QED
      BY <1>1, <1>2, <2>1 DEF GrantInv, ChangeInv
  <1>5. ASSUME NEW d \in Client, session'[d].logged_in, d \notin late'
        PROVE  <<d, session'[d].uid, session'[d].pass>> \in granted
    <2>1. \A e \in Client : session[e].logged_in /\ e \notin late =>
             <<e, session[e].uid, session[e].pass>> \in granted
      BY DEF GrantInv, LoggedInAsGranted
    <2>2. CASE d # c
      BY <1>2, <1>5, <2>1, <2>2
    <2>3. CASE d = c
      <3>1. DOMAIN session[c] = {"logged_in", "uid", "pass"}
        BY DEF TypeInv, SessionTypeOK, Start
      <3>2. Sent(c, doing[c])
        BY DEF TypeInv
      <3>3. Learn(session[c], doing[c], status).logged_in
        BY <1>2, <1>5, <2>3
      <3> DEFINE s == session[c]
                 w == doing[c]
                 new == Learn(s, w, status)
      <3> HIDE DEF s, w
      <3>4. DOMAIN s = {"logged_in", "uid", "pass"} /\ Learn(s, w, status).logged_in
        BY <3>1, <3>3 DEF s, w
      <3>5. \/ w[1] = "LIN" /\ status \in {"OK", "REG"} /\ new.uid = w[2] /\ new.pass = w[3]
            \/ w[1] = "CPS" /\ status = "OK" /\ new.uid = s.uid /\ new.pass = w[4]
            \/ new = s
        BY <3>4, Learned
      <3>6. \/ doing[c][1] = "LIN" /\ status \in {"OK", "REG"}
               /\ new.uid = doing[c][2] /\ new.pass = doing[c][3]
            \/ doing[c][1] = "CPS" /\ status = "OK"
               /\ new.uid = session[c].uid /\ new.pass = doing[c][4]
            \/ new = session[c]
        BY <3>5 DEF s, w
      <3>7. session'[c] = new
        BY <1>2 DEF s, w
      <3> HIDE DEF new
      <3>8. CASE new = session[c]
        BY <1>5, <2>1, <2>3, <3>7, <3>8
      <3>9. CASE doing[c][1] = "LIN" /\ status \in {"OK", "REG"}
                 /\ new.uid = doing[c][2] /\ new.pass = doing[c][3]
        BY <1>5, <2>3, <3>7, <3>9
      <3>10. CASE doing[c][1] = "CPS" /\ status = "OK"
                 /\ new.uid = session[c].uid /\ new.pass = doing[c][4]
        BY <1>5, <2>3, <3>2, <3>7, <3>10 DEF Sent
      <3> QED
        BY <3>6, <3>8, <3>9, <3>10
    <2> QED
      BY <2>2, <2>3
  <1>6. LoggedInAsGranted'
    BY <1>1, <1>5 DEF LoggedInAsGranted
  <1> QED
    BY <1>3, <1>4, <1>6 DEF GrantInv

LEMMA AwaitGranted ==
    ASSUME TypeInv, PacketInv, GrantInv, NEW c \in Client, Await(c)
    PROVE  GrantInv'
  <1>1. c \notin late => Alone(c)
    BY DEF GrantInv
  <1>2. CASE Receive(c)
    <2>1. PICK r \in BagToSet(replies) :
             /\ r.of = c
             /\ Return(c, Heard(doing[c][1], r.text))
             /\ replies' = replies (-) SetToBag({r})
             /\ late' = IF doing[c][1] = "LIN" /\ r.text[1] # Response["LIN"]
                        THEN late \cup {c} ELSE late
      BY <1>2 DEF Receive
    <2>2. at[c] = "udp" /\ Waits(c) /\ UNCHANGED answers
      BY <1>2 DEF Receive, Waits
    <2>3. doing[c][1] \in Datagrams
      BY <2>2 DEF TypeInv
    <2>4. /\ BagToSet(replies') \subseteq BagToSet(replies)
          /\ replies[r] = 1 => r \notin BagToSet(replies')
          /\ \A y \in BagToSet(replies') : y # r => replies'[y] = replies[y]
      <3>1. IsABag(replies) /\ replies' = replies (-) SetToBag({r})
        BY <2>1 DEF TypeInv
      <3> QED
        BY <3>1, OneLess
    <2>5. ASSUME c \notin late', doing[c][1] = "LIN"
          PROVE  /\ Asked(c) = {} /\ Told(c)' = {}
                 /\ Heard("LIN", r.text) \in {"OK", "REG"} =>
                       <<c, doing[c][2], doing[c][3]>> \in granted
      <3>1. r.text[1] = "RLI" /\ Alone(c)
        BY <1>1, <2>1, <2>5 DEF Response
      <3>2. r \in Told(c)
        BY <2>1, <3>1 DEF Told
      <3>3. Asked(c) = {} /\ replies[r] = 1 /\ \A q \in Told(c) : q = r
        BY <3>1, <3>2 DEF Alone
      <3>4. Told(c)' = {}
        BY <2>4, <3>3 DEF Told
      <3>5. Heard("LIN", r.text) \in {"OK", "REG"} => r.text[2] \in {"OK", "REG"}
        BY HeardLogin
      <3> QED
        BY <3>1, <3>2, <3>3, <3>4, <3>5 DEF Alone
    <2>6. ASSUME c \notin late', doing[c][1] # "LIN"
          PROVE  Asked(c) = {} /\ Told(c)' = {}
      <3>1. Asked(c) = {} /\ Told(c) = {}
        BY <1>1, <2>1, <2>6, NoneAround
      <3> QED
        BY <2>4, <3>1 DEF Told
    <2>7. doing[c][1] # "CPS"
      BY <2>3 DEF Datagrams
    <2>8. late \subseteq late' /\ \A a \in answers' : a.of # c
      BY <2>1, <2>2, Unconnected
    <2> DEFINE status == Heard(doing[c][1], r.text)
    <2>9. c \notin late' =>
             /\ Asked(c) = {} /\ Told(c)' = {}
             /\ doing[c][1] = "LIN" /\ status \in {"OK", "REG"} =>
                   <<c, doing[c][2], doing[c][3]>> \in granted
             /\ doing[c][1] = "CPS" /\ status = "OK" =>
                   <<c, doing[c][2], doing[c][4]>> \in granted
      BY <2>5, <2>6, <2>7
    <2>10. Return(c, status)
      BY <2>1
    <2> HIDE DEF status
    <2> QED
      BY <2>1, <2>2, <2>4, <2>8, <2>9, <2>10, BackGranted
  <1>3. CASE Retry(c)
    <2>1. /\ datagrams' = datagrams (+) SetToBag({[of |-> c, text |-> doing[c]]})
          /\ late' = IF doing[c][1] = "LIN" THEN late \cup {c} ELSE late
          /\ UNCHANGED <<at, session, doing, replies, answers, granted>>
      BY <1>3 DEF Retry, Packet, Vain
    <2> DEFINE x == [of |-> c, text |-> doing[c]]
    <2>2. x.of = c /\ x.text = doing[c]
      OBVIOUS
    <2> HIDE DEF x
    <2>3. /\ BagToSet(datagrams') = BagToSet(datagrams) \cup {x}
          /\ \A y \in BagToSet(datagrams) : y # x => datagrams'[y] = datagrams[y]
      <3>1. IsABag(datagrams) /\ datagrams' = datagrams (+) SetToBag({x})
        BY <2>1 DEF TypeInv, x
      <3> QED
        BY <3>1, OneMore
    <2>4. ASSUME NEW d \in Client \ late' PROVE Alone(d)'
      <3>1. Alone(d)
        BY <2>1 DEF GrantInv
      <3>2. d # c \/ doing[c][1] # "LIN"
        BY <2>1
      <3>3. /\ Asked(d)' \subseteq Asked(d) /\ \A y \in Asked(d)' : datagrams'[y] = datagrams[y]
            /\ Told(d)' \subseteq Told(d) /\ \A y \in Told(d)' : replies'[y] = replies[y]
        BY <2>1, <2>2, <2>3, <3>2 DEF Asked, Told
      <3> QED
        BY <2>1, <3>1, <3>3, LeftAlone
    <2> QED
      BY <2>1, <2>4 DEF GrantInv, ChangeInv, LoggedInAsGranted
  <1>4. CASE Desist(c)
    <2>1. /\ at[c] = "udp" /\ Return(c, "no response") /\ UNCHANGED <<replies, answers>>
          /\ late' = IF doing[c][1] = "LIN" THEN late \cup {c} ELSE late
      BY <1>4 DEF Desist, Vain
    <2>2. Waits(c) /\ late \subseteq late' /\ \A a \in answers' : a.of # c
      BY <2>1, Unconnected DEF Waits
    <2>3. c \notin late' => Asked(c) = {} /\ Told(c) = {}
      BY <1>1, <2>1, NoneAround
    <2>4. Told(c)' = Told(c)
      BY <2>1 DEF Told
    <2> QED
      BY <2>1, <2>2, <2>3, <2>4, BackGranted
  <1>5. CASE ReadAnswer(c)
    <2>1. at[c] = "tcp" /\ UNCHANGED <<replies, late>>
      BY <1>5 DEF ReadAnswer
    <2>2. PICK a \in answers : /\ a.of = c /\ Return(c, Heard(doing[c][1], a.text))
                               /\ answers' = answers \ {a}
      BY <1>5 DEF ReadAnswer
    <2>3. Waits(c)
      BY <2>1 DEF Waits
    <2>4. c \notin late' => Asked(c) = {} /\ Told(c) = {}
      BY <1>1, <2>1, NoneAround
    <2>5. Told(c)' = Told(c)
      BY <2>1 DEF Told
    <2>6. \A b \in answers' : b.of # c
      BY <2>2 DEF TypeInv, OnceInv
    <2>7. doing[c][1] # "LIN"
      BY <2>1, <2>3 DEF TypeInv, Datagrams
    <2> DEFINE status == Heard(doing[c][1], a.text)
    <2>8. doing[c][1] = "CPS" /\ status = "OK" => <<c, doing[c][2], doing[c][4]>> \in granted
      BY <2>2 DEF GrantInv, ChangeInv
    <2>9. Return(c, status)
      BY <2>2
    <2> HIDE DEF status
    <2> QED
      BY <2>1, <2>2, <2>3, <2>4, <2>5, <2>6, <2>7, <2>8, <2>9, BackGranted
  <1>6. CASE GiveUp(c)
    <2>1. /\ at[c] = "tcp" /\ Return(c, "no response") /\ UNCHANGED replies
          /\ answers' = {a \in answers : a.of # c}
          /\ late \subseteq late'
      BY <1>6 DEF GiveUp, Vain
    <2>2. Waits(c)
      BY <2>1 DEF Waits
    <2>3. c \notin late' => Asked(c) = {} /\ Told(c) = {}
      BY <1>1, <2>1, NoneAround
    <2>4. Told(c)' = Told(c)
      BY <2>1 DEF Told
    <2> QED
      BY <2>1, <2>2, <2>3, <2>4, BackGranted
  <1> QED
    BY <1>2, <1>3, <1>4, <1>5, <1>6 DEF Await

\* Whatever leaves packets, answers and history alone.
LEMMA StillGranted ==
    ASSUME GrantInv, UNCHANGED <<session, doing, datagrams, replies, answers, granted, late>>,
           \A c \in Client : at[c] = "udp" => at'[c] = "udp"
    PROVE  GrantInv'
  BY DEF GrantInv, LoggedInAsGranted, ChangeInv, Alone, Asked, Told

LEMMA NextGranted == TypeInv /\ PacketInv /\ GrantInv /\ [Next]_vars => GrantInv'
  <1> SUFFICES ASSUME TypeInv, PacketInv, GrantInv, [Next]_vars PROVE GrantInv'
    OBVIOUS
  <1>1. CASE Tick \/ Stray
    BY <1>1, StillGranted DEF Tick, Stray, client, network, history
  <1>2. ASSUME NEW c \in Client, Refuse(c) PROVE GrantInv'
    BY <1>2, StillGranted DEF Refuse, vars, client, network, history
  <1>3. ASSUME NEW c \in Client, handle_exit(c) PROVE GrantInv'
    <2>1. \A d \in Client : at[d] = "udp" => at'[d] = "udp"
      BY <1>3 DEF handle_exit, TypeInv, SessionTypeOK
    <2> QED
      BY <1>3, <2>1, StillGranted DEF handle_exit, network, history
  <1>4. CASE UNCHANGED vars
    BY <1>4, StillGranted DEF vars, client, network, history
  <1> QED
    BY <1>1, <1>2, <1>3, <1>4, DatagramGranted, CallGranted, TypeGranted, AwaitGranted DEF Next

\* A client counts itself logged in only with a name and a password for which
\* the server let it in, or to which it has changed the password, whatever is
\* lost, late or repeated, unless a login of this client ended without its own
\* answer.
THEOREM LoggedInGranted == Spec => []LoggedInAsGranted
  <1>1. Init => PacketInv /\ GrantInv
    BY InitGranted
  <1>2. GrantInv => LoggedInAsGranted
    BY DEF GrantInv
  <1> QED
    BY <1>1, <1>2, InitTyped, NextTyped, NextPackets, NextGranted, PTL DEF Spec

-----------------------------------------------------------------------------
(***************************************************************************)
(* One event for one create.                                               *)
(***************************************************************************)

\* One event more.
LEMMA Created ==
    ASSUME EventInv, NEW S, created \in Seq(S), NEW v, created' = Append(created, v),
           UNCHANGED n, calls' \subseteq calls,
           v.by[1] \in Client => /\ v.by[2] \in 0..n[v.by[1]]
                                 /\ \A m \in calls' : v.by # <<m.of, m.n>>
                                 /\ \A e \in Number : created[e].by # v.by
    PROVE  EventInv'
  <1>1. /\ Len(created) \in Nat /\ Len(created') = Len(created) + 1
        /\ created'[Len(created) + 1] = v
        /\ \A e \in Number : created'[e] = created[e]
    <2>1. created \in Seq(S \cup {v})
      BY SeqDef
    <2> QED
      BY <2>1, AppendProperties, LenProperties DEF Number
  <1> DEFINE new == Len(created) + 1
  <1>2. Number' = Number \cup {new} /\ new \notin Number
    BY <1>1 DEF Number
  <1> HIDE DEF new
  <1>3. created'[new] = v
    BY <1>1 DEF new
  <1>4. \A e \in Number : created[e].by[1] \in Client =>
           /\ created[e].by[2] \in 0..n[created[e].by[1]]
           /\ \A m \in calls : created[e].by # <<m.of, m.n>>
    BY DEF EventInv
  <1>5. ASSUME NEW e \in Number', created'[e].by[1] \in Client
        PROVE  /\ created'[e].by[2] \in 0..n'[created'[e].by[1]]
               /\ \A m \in calls' : created'[e].by # <<m.of, m.n>>
    <2>1. CASE e = new
      BY <1>3, <1>5, <2>1
    <2>2. CASE e \in Number
      <3>1. created'[e] = created[e]
        BY <1>1, <2>2
      <3> QED
        BY <1>4, <1>5, <2>2, <3>1
    <2> QED
      BY <1>2, <2>1, <2>2
  <1>6. ASSUME NEW e \in Number', NEW f \in Number',
               created'[e].by = created'[f].by, created'[e].by[1] \in Client
        PROVE  e = f
    <2>1. CASE e \in Number /\ f \in Number
      <3>1. created'[e] = created[e] /\ created'[f] = created[f]
        BY <1>1, <2>1
      <3> QED
        BY <1>6, <2>1, <3>1 DEF EventInv, OneEventPerCreate
    <2>2. CASE e = new \/ f = new
      <3>1. \A g \in Number : created'[g].by = v.by => v.by[1] \notin Client
        BY <1>1
      <3> QED
        BY <1>2, <1>3, <1>6, <2>2, <3>1
    <2> QED
      BY <1>2, <2>1, <2>2
  <1> QED
    BY <1>5, <1>6 DEF EventInv, OneEventPerCreate

\* Whatever makes no event and no call.
LEMMA NoneCreated ==
    ASSUME EventInv, UNCHANGED <<created, n>>, calls' \subseteq calls
    PROVE  EventInv'
  BY DEF EventInv, OneEventPerCreate, Number

LEMMA NextCreated == TypeInv /\ PacketInv /\ EventInv /\ [Next]_vars => EventInv'
  <1> SUFFICES ASSUME TypeInv, PacketInv, EventInv, [Next]_vars PROVE EventInv'
    OBVIOUS
  <1>1. PICK S : created \in Seq(S)
    BY DEF TypeInv
  <1>2. DirectoryTypeOK /\ Len(created) <= MaxEvents
    BY DEF TypeInv, SessionTypeOK
  <1>3. CASE ServeDatagram
    <2>1. PICK m \in BagToSet(datagrams) : \E r \in Result(m.text) : Perform(m.text, <<m.of, 0>>, r)
      BY <1>3 DEF ServeDatagram
    <2>2. PICK r \in Result(m.text) : Perform(m.text, <<m.of, 0>>, r)
      BY <2>1
    <2>3. m.text[1] # "CRE"
      BY DEF PacketInv, Datagrams
    <2>4. UNCHANGED created
      BY <2>2, <2>3 DEF Perform
    <2>5. UNCHANGED <<n, calls>>
      BY <1>3 DEF ServeDatagram, client
    <2> QED
      BY <2>4, <2>5, NoneCreated
  <1>4. CASE ServeCall
    <2>1. PICK m \in calls : /\ \E r \in Result(m.text) : Perform(m.text, <<m.of, m.n>>, r)
                             /\ calls' = calls \ {m} /\ UNCHANGED n
      BY <1>4 DEF ServeCall, client
    <2>2. PICK r \in Result(m.text) : Perform(m.text, <<m.of, m.n>>, r)
      BY <2>1
    <2>3. \/ created' = created
          \/ \E v : v.by = <<m.of, m.n>> /\ created' = Append(created, v)
      BY <1>1, <1>2, <2>2, Performs
    <2>4. CASE created' = created
      BY <2>1, <2>4, NoneCreated
    <2>5. CASE \E v : v.by = <<m.of, m.n>> /\ created' = Append(created, v)
      <3>1. PICK v : v.by = <<m.of, m.n>> /\ created' = Append(created, v)
        BY <2>5
      <3>2. v.by[1] = m.of /\ v.by[2] = m.n
        BY <3>1
      <3>3. m.of \in Client /\ m.n \in 1..n[m.of] /\ n[m.of] \in Nat
        BY DEF TypeInv, SessionTypeOK
      <3>4. \A k \in calls' : v.by # <<k.of, k.n>>
        BY <2>1, <3>1 DEF TypeInv, OnceInv
      <3>5. \A e \in Number : created[e].by # v.by
        BY <2>1, <3>1, <3>3 DEF EventInv
      <3>6. v.by[2] \in 0..n[v.by[1]]
        BY <3>2, <3>3
      <3> QED
        BY <1>1, <2>1, <3>1, <3>4, <3>5, <3>6, Created
    <2> QED
      BY <2>3, <2>4, <2>5
  <1>5. CASE Stray
    <2>1. PICK w \in Strays : \E r \in Result(w) : Perform(w, <<NoOne, 0>>, r)
      BY <1>5 DEF Stray
    <2>2. PICK r \in Result(w) : Perform(w, <<NoOne, 0>>, r)
      BY <2>1
    <2>3. UNCHANGED <<n, calls>>
      BY <1>5 DEF Stray, client, network
    <2>4. \/ created' = created
          \/ \E v : v.by = <<NoOne, 0>> /\ created' = Append(created, v)
      BY <1>1, <1>2, <2>2, Performs
    <2>5. CASE \E v : v.by = <<NoOne, 0>> /\ created' = Append(created, v)
      <3>1. PICK v : v.by = <<NoOne, 0>> /\ created' = Append(created, v)
        BY <2>5
      <3>2. v.by[1] \notin Client
        BY <3>1, SessionNames
      <3> QED
        BY <1>1, <2>3, <3>1, <3>2, Created
    <2> QED
      BY <2>3, <2>4, <2>5, NoneCreated
  <1>6. ASSUME NEW c \in Client, Type(c) PROVE EventInv'
    <2>1. PICK w : Posts(c, w)
      BY <1>6, Posting
    <2>2. UNCHANGED created
      BY <1>6 DEF Type
    <2>3. /\ n' = [n EXCEPT ![c] = @ + 1] /\ n \in [Client -> 0..MaxCommands]
          /\ calls' \subseteq calls \cup {[of |-> c, n |-> n[c] + 1, text |-> w]}
      BY <2>1 DEF Posts, TypeInv, SessionTypeOK
    <2>4. \A d \in Client : n[d] \in Nat /\ n'[d] \in Nat /\ n[d] <= n'[d]
      BY <2>3, SessionBounds
    <2>5. ASSUME NEW e \in Number, created[e].by[1] \in Client
          PROVE  /\ created[e].by[2] \in 0..n'[created[e].by[1]]
                 /\ \A m \in calls' : created[e].by # <<m.of, m.n>>
      <3>1. /\ created[e].by[2] \in 0..n[created[e].by[1]]
            /\ \A m \in calls : created[e].by # <<m.of, m.n>>
        BY <2>5 DEF EventInv
      <3>2. created[e].by # <<c, n[c] + 1>>
        BY <2>4, <3>1
      <3> DEFINE new == [of |-> c, n |-> n[c] + 1, text |-> w]
      <3>3. new.of = c /\ new.n = n[c] + 1
        OBVIOUS
      <3>4. calls' \subseteq calls \cup {new}
        BY <2>3
      <3> HIDE DEF new
      <3>5. \A m \in calls' : created[e].by # <<m.of, m.n>>
        BY <3>1, <3>2, <3>3, <3>4
      <3>6. created[e].by[2] \in 0..n'[created[e].by[1]]
        BY <2>4, <2>5, <3>1
      <3> QED
        BY <3>5, <3>6
    <2>6. OneEventPerCreate'
      BY <2>2 DEF EventInv, OneEventPerCreate, Number
    <2> QED
      BY <2>2, <2>5, <2>6 DEF EventInv, Number
  <1>7. CASE Tick
    BY <1>7, NoneCreated DEF Tick, client, network
  <1>8. ASSUME NEW c \in Client, Refuse(c) \/ handle_exit(c) PROVE EventInv'
    BY <1>8, NoneCreated DEF Refuse, handle_exit, vars, client, network
  <1>9. ASSUME NEW c \in Client, Await(c) PROVE EventInv'
    BY <1>9, NoneCreated DEF Await, Receive, Retry, Desist, ReadAnswer, GiveUp, Return
  <1>10. CASE UNCHANGED vars
    BY <1>10, NoneCreated DEF vars, client, network
  <1> QED
    BY <1>3, <1>4, <1>5, <1>6, <1>7, <1>8, <1>9, <1>10 DEF Next

\* A create of a client makes one event at most, although the client may give
\* up waiting and its call be served long after, while it sends others.
THEOREM CreatedOnce == Spec => []OneEventPerCreate
  <1>1. Init => PacketInv /\ EventInv
    BY InitGranted
  <1>2. EventInv => OneEventPerCreate
    BY DEF EventInv
  <1> QED
    BY <1>1, <1>2, InitTyped, NextTyped, NextPackets, NextCreated, PTL DEF Spec
=============================================================================
