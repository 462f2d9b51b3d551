---------------------------- MODULE RequestProofs ----------------------------
(***************************************************************************)
(* More theorems about Session: what clients send passes the server's      *)
(* parser, but for what the source lets go wrong; the events that the      *)
(* server accepts have dates of the calendar that had not passed; clients  *)
(* understand its answers; and, while every answer comes in time, client   *)
(* and server agree on who is logged in.                                   *)
(***************************************************************************)
EXTENDS SessionProofs

-----------------------------------------------------------------------------
(***************************************************************************)
(* Operators.                                                              *)
(***************************************************************************)

\* Each request goes to the parser of its code.
LEMMA Parsers ==
    ASSUME NEW w, NEW now
    PROVE  /\ w[1] = "LIN" => parse_request(w, now) = parse_login_request(w)
           /\ w[1] = "LOU" => parse_request(w, now) = parse_logout_request(w)
           /\ w[1] = "UNR" => parse_request(w, now) = parse_unregister_request(w)
           /\ w[1] = "LME" => parse_request(w, now) = parse_myevents_request(w)
           /\ w[1] = "LMR" => parse_request(w, now) = parse_myreservations_request(w)
           /\ w[1] = "CRE" => parse_request(w, now) = parse_create_request(w, now)
           /\ w[1] = "CLS" => parse_request(w, now) = parse_close_request(w)
           /\ w[1] = "LST" => parse_request(w, now) = parse_list_request(w)
           /\ w[1] = "SED" => parse_request(w, now) = parse_show_request(w)
           /\ w[1] = "RID" => parse_request(w, now) = parse_reserve_request(w)
           /\ w[1] = "CPS" => parse_request(w, now) = parse_changePass_request(w)
  <1>1. CASE w[1] = "LIN"
    BY <1>1 DEF parse_request
  <1>2. CASE w[1] = "LOU"
    BY <1>2 DEF parse_request
  <1>3. CASE w[1] = "UNR"
    BY <1>3 DEF parse_request
  <1>4. CASE w[1] = "LME"
    BY <1>4 DEF parse_request
  <1>5. CASE w[1] = "LMR"
    BY <1>5 DEF parse_request
  <1>6. CASE w[1] = "CRE"
    BY <1>6 DEF parse_request
  <1>7. CASE w[1] = "CLS"
    BY <1>7 DEF parse_request
  <1>8. CASE w[1] = "LST"
    BY <1>8 DEF parse_request
  <1>9. CASE w[1] = "SED"
    BY <1>9 DEF parse_request
  <1>10. CASE w[1] = "RID"
    BY <1>10 DEF parse_request
  <1>11. CASE w[1] = "CPS"
    BY <1>11 DEF parse_request
  <1> QED
    BY <1>1, <1>2, <1>3, <1>4, <1>5, <1>6, <1>7, <1>8, <1>9, <1>10, <1>11


\* What passes of a user with a password, and of anyone.
LEMMA Passes ==
    ASSUME NEW w, NEW now
    PROVE  /\ w[2] \in User /\ w[3] \in Password =>
              /\ w[1] \in {"LIN", "LOU", "UNR", "LME", "LMR"} /\ Len(w) = 3 => parse_request(w, now)
              /\ w[1] = "CPS" /\ Len(w) = 4 /\ w[4] \in Password => parse_request(w, now)
              /\ w[1] = "CLS" /\ Len(w) = 4 /\ is_valid_eid(w[4]) => parse_request(w, now)
              /\ w[1] = "RID" /\ Len(w) = 5 /\ is_valid_eid(w[4]) /\ is_valid_seats(w[5])
                    => parse_request(w, now)
           /\ w[1] = "LST" /\ Len(w) = 1 => parse_request(w, now)
           /\ w[1] = "SED" /\ Len(w) = 2 /\ is_valid_eid(w[2]) => parse_request(w, now)
  <1>1. \A code \in OpCodes : str_to_op(code) = code
    BY DEF str_to_op
  <1>2. {"LIN", "LOU", "UNR", "LME", "LMR", "CPS", "CLS", "RID", "LST", "SED"} \subseteq OpCodes
    BY DEF OpCodes, Response
  <1>3. ASSUME w[2] \in User, w[3] \in Password, w[1] \in OpCodes
        PROVE  Opens(w, w[1], Len(w))
    BY <1>1, <1>3 DEF Opens, is_valid_userid, is_valid_password
  <1>4. ASSUME w[2] \in User, w[3] \in Password, w[1] = "LIN", Len(w) = 3
        PROVE  parse_request(w, now)
    BY <1>2, <1>3, <1>4, Parsers DEF parse_login_request
  <1>5. ASSUME w[2] \in User, w[3] \in Password, w[1] = "LOU", Len(w) = 3
        PROVE  parse_request(w, now)
    BY <1>2, <1>3, <1>5, Parsers DEF parse_logout_request
  <1>6. ASSUME w[2] \in User, w[3] \in Password, w[1] = "UNR", Len(w) = 3
        PROVE  parse_request(w, now)
    BY <1>2, <1>3, <1>6, Parsers DEF parse_unregister_request
  <1>7. ASSUME w[2] \in User, w[3] \in Password, w[1] = "LME", Len(w) = 3
        PROVE  parse_request(w, now)
    BY <1>2, <1>3, <1>7, Parsers DEF parse_myevents_request
  <1>8. ASSUME w[2] \in User, w[3] \in Password, w[1] = "LMR", Len(w) = 3
        PROVE  parse_request(w, now)
    BY <1>2, <1>3, <1>8, Parsers DEF parse_myreservations_request
  <1>9. ASSUME w[2] \in User, w[3] \in Password, w[1] = "CPS", Len(w) = 4,
               w[4] \in Password
        PROVE  parse_request(w, now)
    BY <1>2, <1>3, <1>9, Parsers DEF parse_changePass_request, is_valid_password
  <1>10. ASSUME w[2] \in User, w[3] \in Password, w[1] = "CLS", Len(w) = 4,
               is_valid_eid(w[4])
        PROVE  parse_request(w, now)
    BY <1>2, <1>3, <1>10, Parsers DEF parse_close_request
  <1>11. ASSUME w[2] \in User, w[3] \in Password, w[1] = "RID", Len(w) = 5,
               is_valid_eid(w[4]), is_valid_seats(w[5])
        PROVE  parse_request(w, now)
    BY <1>2, <1>3, <1>11, Parsers DEF parse_reserve_request
  <1>12. ASSUME w[1] = "LST", Len(w) = 1 PROVE parse_request(w, now)
    BY <1>1, <1>2, <1>12, Parsers DEF parse_list_request
  <1>13. ASSUME w[1] = "SED", Len(w) = 2, is_valid_eid(w[2]) PROVE parse_request(w, now)
    BY <1>1, <1>2, <1>13, Parsers DEF parse_show_request
  <1> QED
    BY <1>4, <1>5, <1>6, <1>7, <1>8, <1>9, <1>10, <1>11, <1>12, <1>13

\* Attendances and sizes that the client lets through are numbers the server
\* reads.
LEMMA Readable ==
    /\ MAX_SEATS \in Int /\ MAX_FILE_SIZE \in Int
    /\ \A k \in 10..MAX_SEATS : is_positive_integer(k) /\ is_valid_num_attendees(k)
    /\ \A k \in 0..MAX_FILE_SIZE : is_nonnegative_integer(k) /\ k <= MAX_FILE_SIZE
  <1>1. /\ MAX_SEATS \in Int /\ MAX_SEATS <= 2147483647
        /\ MAX_FILE_SIZE \in Int /\ MAX_FILE_SIZE <= 2147483647
    BY SMT DEF MAX_SEATS, MAX_FILE_SIZE
  <1>2. ASSUME NEW k \in 10..MAX_SEATS PROVE is_positive_integer(k) /\ is_valid_num_attendees(k)
    BY <1>1, SMT DEF is_valid_num_attendees, is_positive_integer, is_integer_internal
  <1>3. ASSUME NEW k \in 0..MAX_FILE_SIZE PROVE is_nonnegative_integer(k) /\ k <= MAX_FILE_SIZE
    BY <1>1, SMT DEF is_nonnegative_integer, is_integer_internal
  <1> QED
    BY <1>1, <1>2, <1>3

\* The two words of a date read as that date.
LEMMA ReadBack ==
    ASSUME NEW t, IsDate(t), t.second = 0
    PROVE  fromStrings(DateWord(t), TimeWord(t)) = t /\ readable(DateWord(t), TimeWord(t))
  <1>1. fromStrings(DateWord(t), TimeWord(t)) = DateTime(t.day, t.month, t.year, t.hour, t.minute, 0)
    BY DEF fromStrings, DateWord, TimeWord
  <1>2. DateTime(t.day, t.month, t.year, t.hour, t.minute, 0) = t
    BY DEF DateTime, IsDate
  <1>3. t.day # -1
    BY DEF IsDate, isValidDate
  <1> QED
    BY <1>1, <1>2, <1>3 DEF readable, invalidDateTime

\* Only the two abbreviations are not the command they stand for.
LEMMA CommandWord ==
    ASSUME NEW word, get_command(word) \in {"create", "reserve"}
    PROVE  word = get_command(word)
  <1>1. CASE word = "mye"
    <2>1. get_command(word) = "myevents"
      BY <1>1 DEF get_command
    <2> QED
      BY <2>1
  <1>2. CASE word = "myr"
    <2>1. get_command(word) = "myreservations"
      BY <1>2 DEF get_command
    <2> QED
      BY <2>1
  <1>3. CASE word \notin {"mye", "myr"}
    <2> DEFINE words == {"login", "create", "close", "myevents", "list", "show", "reserve",
                         "myreservations", "changePass", "unregister", "logout", "exit", "help"}
    <2>1. CASE word \in words
      BY <1>3, <2>1 DEF get_command
    <2>2. CASE word \notin words
      <3>1. get_command(word) = "invalid"
        BY <1>3, <2>2 DEF get_command
      <3> QED
        BY <3>1
    <2> QED
      BY <2>1, <2>2
  <1> QED
    BY <1>1, <1>2, <1>3

-----------------------------------------------------------------------------
(***************************************************************************)
(* The invariant.                                                          *)
(***************************************************************************)

\* A request as a client makes it: the server's parser has nothing to say
\* against it, but for a UID that is none and for the time that has passed.
Made(w) ==
    /\ w[1] # "CRE" => \/ w[1] \notin {"LST", "SED"} /\ w[2] \notin User
                       \/ \A now : parse_request(w, now)
    /\ w[1] = "CRE" =>
          /\ Len(w) = 9 /\ w[3] \in Password /\ w[4] \in EventName /\ w[7] \in 10..MAX_SEATS
          /\ w[8] \in FileName /\ w[9] \in 0..MAX_FILE_SIZE
          /\ \E t : IsDate(t) /\ t.second = 0 /\ w[5] = DateWord(t) /\ w[6] = TimeWord(t)

MadeInv ==
    /\ \A m \in BagToSet(datagrams) \cup calls : Made(m.text)
    /\ \A c \in Client : Waits(c) => Made(doing[c])
    /\ CreatedIsUpcoming

LEMMA Clock ==
    ASSUME TypeInv
    PROVE  IsDate(Now) /\ Now.year > 0
  BY SessionClock DEF TypeInv, SessionTypeOK, Now

\* What the server may have against a request a client has made.
LEMMA MadeWell ==
    ASSUME TypeInv, NEW w, Made(w)
    PROVE  \/ parse_request(w, Now)
           \/ w[1] \notin {"LST", "SED"} /\ w[2] \notin User
           \/ w[1] = "CRE" /\ ~Upcoming(w[5], w[6], Now)
  <1>1. CASE w[1] # "CRE"
    BY <1>1 DEF Made
  <1>2. CASE w[1] = "CRE"
    <2> SUFFICES ASSUME w[2] \in User, Upcoming(w[5], w[6], Now)
                 PROVE  parse_request(w, Now)
      BY <1>2
    <2>1. PICK t : IsDate(t) /\ t.second = 0 /\ w[5] = DateWord(t) /\ w[6] = TimeWord(t)
      BY <1>2 DEF Made
    <2>2. ~isPast(t, Now)
      BY <2>1, Clock, PastIsPast
    <2>3. readable(w[5], w[6]) /\ ~isPast(fromStrings(w[5], w[6]), Now)
      BY <2>1, <2>2, ReadBack
    <2>4. Opens(w, "CRE", 9)
      BY <1>2 DEF Made, Opens, str_to_op, OpCodes, Response, is_valid_userid, is_valid_password
    <2>5. /\ is_positive_integer(w[7]) /\ is_valid_num_attendees(w[7])
          /\ is_nonnegative_integer(w[9]) /\ w[9] <= MAX_FILE_SIZE
      <3>1. w[7] \in 10..MAX_SEATS /\ w[9] \in 0..MAX_FILE_SIZE
        BY <1>2 DEF Made
      <3> QED
        BY <3>1, Readable
    <2>6. is_valid_event_name(w[4]) /\ is_valid_file_name(w[8])
      BY <1>2 DEF Made, is_valid_event_name, is_valid_file_name
    <2>7. parse_create_request(w, Now)
      BY <2>3, <2>4, <2>5, <2>6 DEF parse_create_request
    <2> QED
      BY <1>2, <2>7, Parsers
  <1> QED
    BY <1>1, <1>2
-----------------------------------------------------------------------------
(***************************************************************************)
(* Each step.                                                              *)
(***************************************************************************)

LEMMA TypingMakes ==
    ASSUME TypeInv, NEW c \in Client, NEW line \in Lines, NEW w \in Sends(c, line)
    PROVE  Made(w)
  <1> DEFINE command == get_command(line[1])
             args == Tail(line)
             s == session[c]
  <1>1. s.logged_in => s.pass \in Password
    BY DEF TypeInv, SessionTypeOK, Start
  <1> HIDE DEF command, args, s
  <1>2. \/ command = "login" /\ parse_login(args) /\ w = loginRequest(args)
        \/ command = "changePass" /\ s.logged_in /\ parse_changePass(args)
           /\ w = changePassRequest(s.uid, args)
        \/ command = "unregister" /\ s.logged_in /\ w = unregisterRequest(s.uid, s.pass)
        \/ command = "logout" /\ s.logged_in /\ w = logoutRequest(s.uid, s.pass)
        \/ command = "create" /\ s.logged_in /\ parse_create(args, Now)
           /\ w = createRequest(s.uid, s.pass, args)
        \/ command = "close" /\ s.logged_in /\ parse_close(args) /\ w = closeRequest(s.uid, s.pass, args)
        \/ command = "myevents" /\ s.logged_in /\ w = myeventsRequest(s.uid, s.pass)
        \/ command = "list" /\ w = listRequest
        \/ command = "show" /\ parse_show(args) /\ w = showRequest(args)
        \/ command = "reserve" /\ s.logged_in /\ parse_reserve(args)
           /\ w = reserveRequest(s.uid, s.pass, args)
        \/ command = "myreservations" /\ s.logged_in /\ w = myreservationsRequest(s.uid, s.pass)
    BY DEF Sends, command, args, s, handle_login, handle_changePass, handle_unregister, handle_logout,
       handle_create, handle_close, handle_myevents, handle_list, handle_show, handle_reserve,
       handle_myreservations, is_logged_in
  <1>3. CASE command = "login" /\ parse_login(args) /\ w = loginRequest(args)
    <2>1. w = <<"LIN", Numeral[args[1]], args[2]>> /\ args[2] \in Password
      BY <1>3 DEF loginRequest, parse_login, is_valid_password
    <2>2. w[1] = "LIN" /\ Len(w) = 3 /\ w[3] \in Password
      BY <2>1
    <2>3. ASSUME w[2] \in User, NEW now PROVE parse_request(w, now)
      BY <2>2, <2>3, Passes
    <2> QED
      BY <2>2, <2>3 DEF Made
  <1>4. CASE command = "changePass" /\ s.logged_in /\ parse_changePass(args)
             /\ w = changePassRequest(s.uid, args)
    <2>1. w = <<"CPS", s.uid, args[1], args[2]>> /\ args[1] \in Password /\ args[2] \in Password
      BY <1>4 DEF changePassRequest, parse_changePass, is_valid_password
    <2>2. w[1] = "CPS" /\ Len(w) = 4 /\ w[3] \in Password /\ w[4] \in Password
      BY <2>1
    <2>3. ASSUME w[2] \in User, NEW now PROVE parse_request(w, now)
      BY <2>2, <2>3, Passes
    <2> QED
      BY <2>2, <2>3 DEF Made
  <1>5. CASE /\ s.logged_in
             /\ \E code \in {"UNR", "LOU", "LME", "LMR"} : w = <<code, s.uid, s.pass>>
    <2>1. PICK code \in {"UNR", "LOU", "LME", "LMR"} : w = <<code, s.uid, s.pass>>
      BY <1>5
    <2>2. w[1] = code /\ Len(w) = 3 /\ w[3] \in Password
      BY <1>1, <1>5, <2>1
    <2>3. ASSUME w[2] \in User, NEW now PROVE parse_request(w, now)
      BY <2>2, <2>3, Passes
    <2> QED
      BY <2>2, <2>3 DEF Made
  <1>6. CASE command = "create" /\ s.logged_in /\ parse_create(args, Now)
             /\ w = createRequest(s.uid, s.pass, args)
    <2> DEFINE t == DateTime(args[3][1], args[3][2], args[3][3], args[4][1], args[4][2], 0)
    <2>1. /\ Len(args) = 5 /\ args[1] \in EventName /\ args[2] \in FileName
          /\ args[2] \in DOMAIN FileSize /\ FileSize[args[2]] <= MAX_FILE_SIZE
          /\ args[5] >= 10 /\ args[5] <= MAX_SEATS
          /\ ~isPast(t, Now)
      BY <1>6 DEF parse_create, is_valid_event_name, is_valid_file_name, file_exists,
         is_valid_num_attendees, is_valid_date_time
    <2>2. line[1] = "create"
      BY <1>6, CommandWord DEF command
    <2>3. args[3][3] \in Int /\ args[5] \in Int
      BY <2>1, <2>2, SessionNumbers DEF args
    <2>4. FileSize[args[2]] \in Nat
      BY <2>1, Files
    <2>5. IsDate(t) /\ t.second = 0
      BY <2>1, <2>3, Constructed, ZeroIsPast, Clock
    <2>6. w = <<"CRE", s.uid, s.pass, args[1], DateWord(t), TimeWord(t), args[5], args[2],
                FileSize[args[2]]>>
      BY <1>6 DEF createRequest
    <2> HIDE DEF t
    <2>7. /\ Len(w) = 9 /\ w[1] = "CRE" /\ w[3] = s.pass /\ w[4] = args[1] /\ w[5] = DateWord(t)
          /\ w[6] = TimeWord(t) /\ w[7] = args[5] /\ w[8] = args[2] /\ w[9] = FileSize[args[2]]
      BY <2>6
    <2>8. w[7] \in 10..MAX_SEATS /\ w[9] \in 0..MAX_FILE_SIZE
      BY <2>1, <2>3, <2>4, <2>7, Readable, SMT
    <2> QED
      BY <1>1, <1>6, <2>1, <2>5, <2>7, <2>8 DEF Made
  <1>7. CASE command = "close" /\ s.logged_in /\ parse_close(args)
             /\ w = closeRequest(s.uid, s.pass, args)
    <2>1. w = <<"CLS", s.uid, s.pass, args[1]>> /\ is_valid_eid(args[1])
      BY <1>7 DEF closeRequest, parse_close
    <2>2. w[1] = "CLS" /\ Len(w) = 4 /\ w[3] \in Password /\ is_valid_eid(w[4])
      BY <1>1, <1>7, <2>1
    <2>3. ASSUME w[2] \in User, NEW now PROVE parse_request(w, now)
      BY <2>2, <2>3, Passes
    <2> QED
      BY <2>2, <2>3 DEF Made
  <1>8. CASE command = "reserve" /\ s.logged_in /\ parse_reserve(args)
             /\ w = reserveRequest(s.uid, s.pass, args)
    <2>1. /\ w = <<"RID", s.uid, s.pass, args[1], args[2]>>
          /\ is_valid_eid(args[1]) /\ is_valid_seats(args[2])
      BY <1>8 DEF reserveRequest, parse_reserve
    <2>2. /\ w[1] = "RID" /\ Len(w) = 5 /\ w[3] \in Password
          /\ is_valid_eid(w[4]) /\ is_valid_seats(w[5])
      BY <1>1, <1>8, <2>1
    <2>3. ASSUME w[2] \in User, NEW now PROVE parse_request(w, now)
      BY <2>2, <2>3, Passes
    <2> QED
      BY <2>2, <2>3 DEF Made
  <1>9. CASE command = "list" /\ w = listRequest
    <2>1. w[1] = "LST" /\ Len(w) = 1
      BY <1>9 DEF listRequest
    <2>2. ASSUME NEW now PROVE parse_request(w, now)
      BY <2>1, Passes
    <2> QED
      BY <2>1, <2>2 DEF Made
  <1>10. CASE command = "show" /\ parse_show(args) /\ w = showRequest(args)
    <2>1. w = <<"SED", args[1]>> /\ is_valid_eid(args[1])
      BY <1>10 DEF showRequest, parse_show
    <2>2. w[1] = "SED" /\ Len(w) = 2 /\ is_valid_eid(w[2])
      BY <2>1
    <2>3. ASSUME NEW now PROVE parse_request(w, now)
      BY <2>2, Passes
    <2> QED
      BY <2>2, <2>3 DEF Made
  <1> QED
    BY <1>2, <1>3, <1>4, <1>5, <1>6, <1>7, <1>8, <1>9, <1>10
    DEF unregisterRequest, logoutRequest, myeventsRequest, myreservationsRequest
\* The date of an event the server accepts, whoever asks for it.
LEMMA Accepted ==
    ASSUME TypeInv, NEW w, parse_create_request(w, Now), w[5][3] \in Int
    PROVE  Real(w[5], w[6]) /\ Upcoming(w[5], w[6], Now)
  <1> DEFINE t == fromStrings(w[5], w[6])
             d == Date(w[5][1], w[5][2], w[5][3], w[6][1], w[6][2], 0)
  <1>1. ~isPast(t, Now)
    BY DEF parse_create_request
  <1>2. t = DateTime(w[5][1], w[5][2], w[5][3], w[6][1], w[6][2], 0)
    BY DEF fromStrings
  <1> HIDE DEF t
  <1>3. t = Zero \/ (IsDate(t) /\ t.second = 0 /\ t = d)
    BY <1>2, Constructed
  <1>4. IsDate(t) /\ t.second = 0 /\ t = d
    BY <1>1, <1>3, Clock, ZeroIsPast
  <1>5. Upcoming(DateWord(t), TimeWord(t), Now)
    BY <1>1, <1>4, Clock, PastIsPast
  <1>6. /\ t.day = w[5][1] /\ t.month = w[5][2] /\ t.year = w[5][3]
        /\ t.hour = w[6][1] /\ t.minute = w[6][2]
    BY <1>4 DEF Date
  <1> HIDE DEF d
  <1>7. Upcoming(w[5], w[6], Now)
    BY <1>5, <1>6 DEF Upcoming, DateWord, TimeWord
  <1>8. /\ w[5][2] \in 1..12 /\ w[5][1] \in 1..daysInMonth(w[5][2], w[5][3])
        /\ w[6][1] \in 0..23 /\ w[6][2] \in 0..59
    BY <1>4, <1>6 DEF IsDate, isValidDate, isValidTime
  <1>9. daysInMonth(w[5][2], w[5][3]) = Length(w[5][2], w[5][3])
    BY <1>8, MonthsAreRight
  <1> QED
    BY <1>7, <1>8, <1>9 DEF Real

LEMMA Creates ==
    ASSUME TypeInv, CreatedIsUpcoming, NEW w, NEW k, NEW r \in Result(w), Perform(w, k, r),
           w[1] = "CRE" /\ Len(w) = 9 => w[5][3] \in Int
    PROVE  CreatedIsUpcoming'
  <1> DEFINE v == [owner |-> w[2], name |-> w[4], date |-> w[5], time |-> w[6], attend |-> w[7],
                   file |-> w[8], size |-> w[9], by |-> k, when |-> Now]
  <1>1. CASE w[1] = "CRE" /\ r = "SUCCESS"
    <2>1. parse_request(w, Now)
      BY <1>1 DEF Result
    <2>2. parse_create_request(w, Now)
      BY <1>1, <2>1, Parsers
    <2>3. Len(w) = 9
      BY <2>2 DEF parse_create_request, Opens
    <2>4. Real(w[5], w[6]) /\ Upcoming(w[5], w[6], Now)
      BY <1>1, <2>2, <2>3, Accepted
    <2>5. created' = Append(created, v)
      BY <1>1 DEF Perform
    <2>6. v.date = w[5] /\ v.time = w[6] /\ v.when = Now
      OBVIOUS
    <2> HIDE DEF v
    <2>7. PICK S : created \in Seq(S)
      BY DEF TypeInv
    <2>8. created \in Seq(S \cup {v})
      BY <2>7, SeqDef
    <2>9. /\ Len(created') = Len(created) + 1 /\ created'[Len(created) + 1] = v
          /\ \A e \in 1..Len(created) : created'[e] = created[e]
      BY <2>5, <2>8, AppendProperties
    <2>10. Len(created) \in Nat
      BY <2>8, LenProperties
    <2>11. \A e \in 1..Len(created') : e \in 1..Len(created) \/ e = Len(created) + 1
      BY <2>9, <2>10
    <2>12. ASSUME NEW e \in 1..Len(created')
           PROVE  /\ Real(created'[e].date, created'[e].time)
                  /\ Upcoming(created'[e].date, created'[e].time, created'[e].when)
      BY <2>4, <2>6, <2>9, <2>11 DEF CreatedIsUpcoming, Number
    <2> QED
      BY <2>12 DEF CreatedIsUpcoming, Number
  <1>2. CASE ~(w[1] = "CRE" /\ r = "SUCCESS")
    <2>1. created' = created
      BY <1>2 DEF Perform
    <2> QED
      BY <2>1 DEF CreatedIsUpcoming, Number
  <1> QED
    BY <1>1, <1>2

LEMMA InitMade == Init => MadeInv
  <1> SUFFICES ASSUME Init PROVE MadeInv
    OBVIOUS
  <1>1. BagToSet(datagrams) = {} /\ calls = {}
    BY DEF Init, EmptyBag, BagToSet, SetToBag
  <1>2. Number = {}
    BY DEF Init, Number
  <1> QED
    BY <1>1, <1>2 DEF Init, MadeInv, CreatedIsUpcoming, Waits

\* A call to create of a client names its year.
LEMMA MadeYear ==
    ASSUME NEW w, Made(w), w[1] = "CRE"
    PROVE  w[5][3] \in Int
  <1>1. PICK t : IsDate(t) /\ w[5] = DateWord(t)
    BY DEF Made
  <1> QED
    BY <1>1 DEF IsDate, DateWord

LEMMA NextMade == TypeInv /\ PacketInv /\ MadeInv /\ [Next]_vars => MadeInv'
  <1> SUFFICES ASSUME TypeInv, PacketInv, MadeInv, [Next]_vars PROVE MadeInv'
    OBVIOUS
  <1> DEFINE Texts == \A m \in BagToSet(datagrams) \cup calls : Made(m.text)
             Waiters == \A c \in Client : Waits(c) => Made(doing[c])
  <1>1. Texts /\ Waiters /\ CreatedIsUpcoming
    BY DEF MadeInv
  <1>2. CASE ServeDatagram
    <2>1. PICK m \in BagToSet(datagrams) :
             /\ \E r \in Result(m.text) : Perform(m.text, <<m.of, 0>>, r)
             /\ datagrams' = datagrams (-) SetToBag({m})
      BY <1>2 DEF ServeDatagram
    <2>2. PICK r \in Result(m.text) : Perform(m.text, <<m.of, 0>>, r)
      BY <2>1
    <2>3. m.text[1] # "CRE"
      BY DEF PacketInv, Datagrams
    <2>4. CreatedIsUpcoming'
      BY <1>1, <2>2, <2>3, Creates
    <2>5. UNCHANGED <<at, doing, calls>>
      BY <1>2 DEF ServeDatagram, client
    <2>6. BagToSet(datagrams') \subseteq BagToSet(datagrams)
      BY <2>1, OneLess DEF TypeInv
    <2> QED
      BY <1>1, <2>4, <2>5, <2>6 DEF MadeInv, Waits
  <1>3. CASE ServeCall
    <2>1. PICK m \in calls : /\ \E r \in Result(m.text) : Perform(m.text, <<m.of, m.n>>, r)
                             /\ calls' = calls \ {m} /\ UNCHANGED <<at, doing, datagrams>>
      BY <1>3 DEF ServeCall, client
    <2>2. PICK r \in Result(m.text) : Perform(m.text, <<m.of, m.n>>, r)
      BY <2>1
    <2>3. m.text[1] = "CRE" => m.text[5][3] \in Int
      BY <1>1, MadeYear
    <2>4. CreatedIsUpcoming'
      BY <1>1, <2>2, <2>3, Creates
    <2> QED
      BY <1>1, <2>1, <2>4 DEF MadeInv, Waits
  <1>4. CASE Stray
    <2>1. PICK w \in Strays : \E r \in Result(w) : Perform(w, <<NoOne, 0>>, r)
      BY <1>4 DEF Stray
    <2>2. PICK r \in Result(w) : Perform(w, <<NoOne, 0>>, r)
      BY <2>1
    <2>3. CreatedIsUpcoming'
      BY <1>1, <2>1, <2>2, Creates, SessionNumbers
    <2>4. UNCHANGED <<at, doing, datagrams, calls>>
      BY <1>4 DEF Stray, client, network
    <2> QED
      BY <1>1, <2>3, <2>4 DEF MadeInv, Waits
  <1>5. ASSUME NEW c \in Client, Type(c) PROVE MadeInv'
    <2>1. PICK line \in Lines : \E w \in Sends(c, line) : Posts(c, w)
      BY <1>5 DEF Type, Posts
    <2>2. PICK w \in Sends(c, line) : Posts(c, w)
      BY <2>1
    <2>3. Made(w)
      BY TypingMakes
    <2>4. Texts'
      <3>1. CASE w[1] \in Datagrams
        <4> DEFINE x == [of |-> c, text |-> w]
        <4>1. datagrams' = datagrams (+) SetToBag({x}) /\ UNCHANGED calls
          BY <2>2, <3>1 DEF Posts, Packet
        <4>2. x.text = w
          OBVIOUS
        <4> HIDE DEF x
        <4>3. BagToSet(datagrams') = BagToSet(datagrams) \cup {x}
          BY <4>1, OneMore DEF TypeInv
        <4> QED
          BY <1>1, <2>3, <4>1, <4>2, <4>3
      <3>2. CASE w[1] \notin Datagrams
        <4> DEFINE x == [of |-> c, n |-> n[c] + 1, text |-> w]
        <4>1. UNCHANGED datagrams /\ calls' = calls \cup {x}
          BY <2>2, <3>2 DEF Posts
        <4>2. x.text = w
          OBVIOUS
        <4> HIDE DEF x
        <4> QED
          BY <1>1, <2>3, <4>1, <4>2
      <3> QED
        BY <3>1, <3>2
    <2>5. DOMAIN doing = Client /\ at \in [Client -> {"prompt", "udp", "tcp", "gone"}]
      BY DEF TypeInv, SessionTypeOK
    <2>6. /\ doing' = [doing EXCEPT ![c] = w]
          /\ \A d \in Client \ {c} : at'[d] = at[d]
      BY <2>2, <2>5 DEF Posts
    <2>7. Waiters'
      BY <1>1, <2>3, <2>5, <2>6 DEF Waits
    <2>8. UNCHANGED created
      BY <1>5 DEF Type
    <2> QED
      BY <1>1, <2>4, <2>7, <2>8 DEF MadeInv, CreatedIsUpcoming, Number
  <1>6. ASSUME NEW c \in Client, Retry(c) PROVE MadeInv'
    <2> DEFINE x == [of |-> c, text |-> doing[c]]
    <2>1. datagrams' = datagrams (+) SetToBag({x}) /\ UNCHANGED <<at, doing, created, calls>>
      BY <1>6 DEF Retry, Packet
    <2>2. x.text = doing[c]
      OBVIOUS
    <2> HIDE DEF x
    <2>3. BagToSet(datagrams') = BagToSet(datagrams) \cup {x}
      BY <2>1, OneMore DEF TypeInv
    <2>4. Made(doing[c])
      BY <1>1, <1>6 DEF Retry, Waits
    <2> QED
      BY <1>1, <2>1, <2>2, <2>3, <2>4 DEF MadeInv, CreatedIsUpcoming, Number, Waits
  <1>7. ASSUME NEW c \in Client, Receive(c) \/ Desist(c) \/ ReadAnswer(c) \/ GiveUp(c) PROVE MadeInv'
    <2>1. PICK status : Return(c, status)
      BY <1>7 DEF Receive, Desist, ReadAnswer, GiveUp
    <2>2. DOMAIN doing = Client /\ at \in [Client -> {"prompt", "udp", "tcp", "gone"}]
      BY DEF TypeInv, SessionTypeOK
    <2>3. /\ at'[c] = "prompt"
          /\ \A d \in Client \ {c} : at'[d] = at[d] /\ doing'[d] = doing[d]
          /\ UNCHANGED <<created, datagrams, calls>>
      BY <2>1, <2>2 DEF Return
    <2> QED
      BY <1>1, <2>3 DEF MadeInv, CreatedIsUpcoming, Number, Waits
  <1>8. ASSUME NEW c \in Client, handle_exit(c) PROVE MadeInv'
    <2>1. at \in [Client -> {"prompt", "udp", "tcp", "gone"}]
      BY DEF TypeInv, SessionTypeOK
    <2>2. /\ at'[c] = "gone" /\ \A d \in Client \ {c} : at'[d] = at[d]
          /\ UNCHANGED <<created, datagrams, calls, doing>>
      BY <1>8, <2>1 DEF handle_exit, network
    <2> QED
      BY <1>1, <2>2 DEF MadeInv, CreatedIsUpcoming, Number, Waits
  <1>9. ASSUME NEW c \in Client, Refuse(c) PROVE MadeInv'
    BY <1>1, <1>9 DEF Refuse, vars, client, network, MadeInv, CreatedIsUpcoming, Number, Waits
  <1>10. CASE Tick \/ UNCHANGED vars
    BY <1>1, <1>10 DEF Tick, vars, client, network, MadeInv, CreatedIsUpcoming, Number, Waits
  <1> QED
    BY <1>2, <1>3, <1>4, <1>5, <1>6, <1>7, <1>8, <1>9, <1>10 DEF Next, Await

-----------------------------------------------------------------------------
\* An event has a date of the calendar that had not passed when the server
\* accepted it: whoever sent the create, whatever numbers stood for the date,
\* and however long it was under way.
THEOREM DatesAhead == Spec => []CreatedIsUpcoming
  <1>1. Init => PacketInv
    BY InitGranted
  <1>2. MadeInv => CreatedIsUpcoming
    BY DEF MadeInv
  <1> QED
    BY <1>1, <1>2, InitTyped, InitMade, NextTyped, NextPackets, NextMade, PTL DEF Spec

\* What clients let their users send, the server can read: only a UID that
\* has lost its zeros and a date that has passed on the way make it refuse.
THEOREM SentWell == Spec => []RequestsAreWellFormed
  <1>1. Init => PacketInv
    BY InitGranted
  <1>2. TypeInv /\ MadeInv => RequestsAreWellFormed
    BY MadeWell DEF MadeInv, RequestsAreWellFormed
  <1> QED
    BY <1>1, <1>2, InitTyped, InitMade, NextTyped, NextPackets, NextMade, PTL DEF Spec

-----------------------------------------------------------------------------
(***************************************************************************)
(* What the client makes of the answers.                                   *)
(***************************************************************************)
Understood(code, t) ==
    Heard(code, t) \in {"bad message", "invalid status"} => t = <<"RCE", "NOK">>

\* Each response goes to the reader of its request.
LEMMA Readers ==
    ASSUME NEW t
    PROVE  /\ Heard("LIN", t) = er_login(t) /\ Heard("LOU", t) = er_logout(t)
           /\ Heard("UNR", t) = er_unregister(t) /\ Heard("LME", t) = er_myevents(t)
           /\ Heard("LMR", t) = er_myreservations(t) /\ Heard("CRE", t) = er_create(t)
           /\ Heard("CLS", t) = er_close(t) /\ Heard("LST", t) = er_list(t)
           /\ Heard("SED", t) = er_show(t) /\ Heard("RID", t) = er_reserve(t)
           /\ Heard("CPS", t) = er_changePass(t)
  BY DEF Heard

\* A response that its parser lets through is reported by its status.
LEMMA Reported ==
    ASSUME NEW t, t[1] \in {Response[q] : q \in OpCodes}, NEW parsed, parsed,
           NEW statuses, t[2] \in statuses
    PROVE  Report(t, parsed, statuses) = t[2]
  <1>1. str_to_op(t[1]) = t[1]
    BY DEF str_to_op
  <1>2. t[1] \notin {"ERR", "NOK"}
    BY DEF Response, OpCodes
  <1> QED
    BY <1>1, <1>2 DEF Report

\* Any two words will do as a date.
LEMMA AllReadable == \A date, time : readable(date, time)
  <1> SUFFICES ASSUME NEW date, NEW time PROVE readable(date, time)
    OBVIOUS
  <1> DEFINE t == fromStrings(date, time)
  <1>1. t.day # -1
    <2>1. CASE isValidDate(date[1], date[2], date[3]) /\ isValidTime(time[1], time[2], 0)
      <3>1. t = Date(date[1], date[2], date[3], time[1], time[2], 0)
        BY <2>1 DEF fromStrings, DateTime
      <3>2. date[1] # -1
        BY <2>1 DEF isValidDate
      <3> QED
        BY <3>1, <3>2 DEF Date
    <2>2. CASE ~(isValidDate(date[1], date[2], date[3]) /\ isValidTime(time[1], time[2], 0))
      <3>1. t = Zero
        BY <2>2 DEF fromStrings, DateTime
      <3> QED
        BY <3>1 DEF Zero, Date
    <2> QED
      BY <2>1, <2>2
  <1> QED
    BY <1>1 DEF readable, invalidDateTime

\* The statuses with no word behind them that the client knows what to say of.
Plain == [LIN |-> {"OK", "NOK", "REG", "ERR"}, LOU |-> {"OK", "NOK", "UNR", "WRP", "ERR"},
          UNR |-> {"OK", "NOK", "UNR", "WRP", "ERR"}, CPS |-> {"OK", "NOK", "NID", "NLG", "ERR"},
          CLS |-> {"OK", "NOK", "NLG", "NOE", "EOW", "SLD", "PST", "CLO", "ERR"},
          LME |-> {"NOK", "NLG", "WRP", "ERR"}, LMR |-> {"NOK", "NLG", "WRP", "ERR"},
          CRE |-> {"NLG", "WRP", "ERR"}, LST |-> {"NOK", "ERR"}, SED |-> {"NOK"},
          RID |-> {"NOK", "NLG", "ACC", "CLS", "SLD", "ERR", "PST", "WRP"}]

LEMMA TwoWords ==
    ASSUME NEW code \in OpCodes, NEW s \in Plain[code], NEW t, t = <<Response[code], s>>
    PROVE  Heard(code, t) = s /\ Understood(code, t)
  <1>1. OpCodes = {"LIN", "CPS", "UNR", "LOU", "CRE", "CLS", "LME", "LST", "SED", "RID", "LMR"}
    BY DEF OpCodes, Response
  <1>2. t[1] = Response[code] /\ t[2] = s /\ Len(t) = 2
    OBVIOUS
  <1>3. t[1] \in {Response[q] : q \in OpCodes}
    BY <1>2
  <1>4. Heads(t, Response[code])
    BY <1>2, <1>3 DEF Heads, str_to_op
  <1>5. ASSUME code = "LIN" PROVE Heard(code, t) = s
    <2>1. parse_login_response(t) /\ s \in Plain["LIN"]
      BY <1>2, <1>4, <1>5 DEF parse_login_response, Plain, Response
    <2>2. Heard("LIN", t) = s
      BY <1>2, <1>3, <2>1, Readers, Reported DEF er_login, Plain
    <2> QED
      BY <1>5, <2>2
  <1>6. ASSUME code = "LOU" PROVE Heard(code, t) = s
    <2>1. parse_logout_response(t) /\ s \in Plain["LOU"]
      BY <1>2, <1>4, <1>6 DEF parse_logout_response, Plain, Response
    <2>2. Heard("LOU", t) = s
      BY <1>2, <1>3, <2>1, Readers, Reported DEF er_logout, Plain
    <2> QED
      BY <1>6, <2>2
  <1>7. ASSUME code = "UNR" PROVE Heard(code, t) = s
    <2>1. parse_unregister_response(t) /\ s \in Plain["UNR"]
      BY <1>2, <1>4, <1>7 DEF parse_unregister_response, Plain, Response
    <2>2. Heard("UNR", t) = s
      BY <1>2, <1>3, <2>1, Readers, Reported DEF er_unregister, Plain
    <2> QED
      BY <1>7, <2>2
  <1>8. ASSUME code = "CPS" PROVE Heard(code, t) = s
    <2>1. parse_changePass_response(t) /\ s \in Plain["CPS"]
      BY <1>2, <1>4, <1>8 DEF parse_changePass_response, Plain, Response
    <2>2. Heard("CPS", t) = s
      BY <1>2, <1>3, <2>1, Readers, Reported DEF er_changePass, Plain
    <2> QED
      BY <1>8, <2>2
  <1>9. ASSUME code = "CLS" PROVE Heard(code, t) = s
    <2>1. parse_close_response(t) /\ s \in Plain["CLS"]
      BY <1>2, <1>4, <1>9 DEF parse_close_response, Plain, Response
    <2>2. Heard("CLS", t) = s
      BY <1>2, <1>3, <2>1, Readers, Reported DEF er_close, Plain
    <2> QED
      BY <1>9, <2>2
  <1>10. ASSUME code = "LME" PROVE Heard(code, t) = s
    <2>1. parse_myevents_response(t) /\ s \in Plain["LME"]
      BY <1>2, <1>4, <1>10 DEF parse_myevents_response, Plain, Response
    <2>2. Heard("LME", t) = s
      BY <1>2, <1>3, <2>1, Readers, Reported DEF er_myevents, Plain
    <2> QED
      BY <1>10, <2>2
  <1>11. ASSUME code = "LMR" PROVE Heard(code, t) = s
    <2>1. parse_myreservations_response(t) /\ s \in Plain["LMR"]
      BY <1>2, <1>4, <1>11 DEF parse_myreservations_response, Plain, Response
    <2>2. Heard("LMR", t) = s
      BY <1>2, <1>3, <2>1, Readers, Reported DEF er_myreservations, Plain
    <2> QED
      BY <1>11, <2>2
  <1>12. ASSUME code = "CRE" PROVE Heard(code, t) = s
    <2>1. parse_create_response(t) /\ s \in Plain["CRE"]
      BY <1>2, <1>4, <1>12 DEF parse_create_response, Plain, Response
    <2>2. Heard("CRE", t) = s
      BY <1>2, <1>3, <2>1, Readers, Reported DEF er_create, Plain
    <2> QED
      BY <1>12, <2>2
  <1>13. ASSUME code = "LST" PROVE Heard(code, t) = s
    <2>1. parse_list_response(t) /\ s \in Plain["LST"]
      BY <1>2, <1>4, <1>13 DEF parse_list_response, Plain, Response
    <2>2. Heard("LST", t) = s
      BY <1>2, <1>3, <2>1, Readers, Reported DEF er_list, Plain
    <2> QED
      BY <1>13, <2>2
  <1>14. ASSUME code = "RID" PROVE Heard(code, t) = s
    <2>1. parse_reserve_response(t) /\ s \in Plain["RID"]
      BY <1>2, <1>4, <1>14 DEF parse_reserve_response, Plain, Response
    <2>2. Heard("RID", t) = s
      BY <1>2, <1>3, <2>1, Readers, Reported DEF er_reserve, Plain
    <2> QED
      BY <1>14, <2>2
  <1>15. ASSUME code = "SED" PROVE Heard(code, t) = s
    <2>1. t[1] = "RSE" /\ s = "NOK" /\ str_to_op(t[1]) = t[1]
      BY <1>2, <1>3, <1>15 DEF Response, Plain, str_to_op
    <2>2. er_show(t) = s
      BY <1>2, <2>1 DEF er_show
    <2> QED
      BY <1>15, <2>2, Readers
  <1>16. Heard(code, t) = s
    BY <1>1, <1>5, <1>6, <1>7, <1>8, <1>9, <1>10, <1>11, <1>12, <1>13, <1>14, <1>15
  <1>17. s \notin {"bad message", "invalid status"}
    <2>1. \A q \in OpCodes : Plain[q] \subseteq
             {"OK", "NOK", "REG", "ERR", "UNR", "WRP", "NID", "NLG", "NOE", "EOW", "SLD", "PST", "CLO",
              "ACC", "CLS"}
      BY <1>1 DEF Plain
    <2> QED
      BY <2>1
  <1> QED
    BY <1>16, <1>17 DEF Understood

\* Responses with a word more.
LEMMA ThreeWords ==
    ASSUME NEW code \in OpCodes, NEW s, NEW x, NEW t, t = <<Response[code], s, x>>,
           \/ s = "OK" /\ \/ code = "LME" /\ parse_myevents_list(x)
                          \/ code = "LMR" /\ parse_reservations_list(x)
                          \/ code = "LST" /\ parse_events_list(x)
                          \/ code = "CRE" /\ is_valid_eid(x)
           \/ s = "REJ" /\ code = "RID" /\ is_valid_seats(x)
    PROVE  Understood(code, t)
  <1>1. t[1] = Response[code] /\ t[2] = s /\ t[3] = x /\ Len(t) = 3
    OBVIOUS
  <1>2. t[1] \in {Response[q] : q \in OpCodes}
    BY <1>1
  <1>3. Heads(t, Response[code]) /\ List(t) = x
    BY <1>1, <1>2 DEF Heads, str_to_op, List
  <1>4. CASE s = "OK" /\ code = "LME" /\ parse_myevents_list(x)
    <2>1. parse_myevents_response(t)
      BY <1>1, <1>3, <1>4 DEF parse_myevents_response, Response
    <2>2. Heard("LME", t) = s
      BY <1>1, <1>2, <1>4, <2>1, Readers, Reported DEF er_myevents
    <2> QED
      BY <1>4, <2>2 DEF Understood
  <1>5. CASE s = "OK" /\ code = "LMR" /\ parse_reservations_list(x)
    <2>1. parse_myreservations_response(t)
      BY <1>1, <1>3, <1>5 DEF parse_myreservations_response, Response
    <2>2. Heard("LMR", t) = s
      BY <1>1, <1>2, <1>5, <2>1, Readers, Reported DEF er_myreservations
    <2> QED
      BY <1>5, <2>2 DEF Understood
  <1>6. CASE s = "OK" /\ code = "LST" /\ parse_events_list(x)
    <2>1. parse_list_response(t)
      BY <1>1, <1>3, <1>6 DEF parse_list_response, Response
    <2>2. Heard("LST", t) = s
      BY <1>1, <1>2, <1>6, <2>1, Readers, Reported DEF er_list
    <2> QED
      BY <1>6, <2>2 DEF Understood
  <1>7. CASE s = "OK" /\ code = "CRE" /\ is_valid_eid(x)
    <2>1. parse_create_response(t)
      BY <1>1, <1>3, <1>7 DEF parse_create_response, Response
    <2>2. Heard("CRE", t) = s
      BY <1>1, <1>2, <1>7, <2>1, Readers, Reported DEF er_create
    <2> QED
      BY <1>7, <2>2 DEF Understood
  <1>8. CASE s = "REJ" /\ code = "RID" /\ is_valid_seats(x)
    <2>1. parse_reserve_response(t)
      BY <1>1, <1>3, <1>8 DEF parse_reserve_response, Response
    <2>2. Heard("RID", t) = s
      BY <1>1, <1>2, <1>8, <2>1, Readers, Reported DEF er_reserve
    <2> QED
      BY <1>8, <2>2 DEF Understood
  <1> QED
    BY <1>4, <1>5, <1>6, <1>7, <1>8

\* Bare words.
LEMMA BareWord ==
    ASSUME NEW w
    PROVE  /\ w[1] = "ERR" => \A code \in OpCodes : Heard(code, w) = "request error"
           /\ w[1] = "NOK" => \A code \in OpCodes \ {"SED"} : Heard(code, w) = "server error"
  <1>1. OpCodes = {"LIN", "CPS", "UNR", "LOU", "CRE", "CLS", "LME", "LST", "SED", "RID", "LMR"}
    BY DEF OpCodes, Response
  <1>2. ASSUME NEW said, \/ str_to_op(w[1]) = "ERR" /\ said = "request error"
                         \/ str_to_op(w[1]) = "NOK" /\ said = "server error"
        PROVE  \A code \in OpCodes \ {"SED"} : Heard(code, w) = said
    <2>1. er_login(w) = said /\ er_logout(w) = said /\ er_unregister(w) = said
      BY <1>2 DEF er_login, er_logout, er_unregister, Report
    <2>2. er_myevents(w) = said /\ er_myreservations(w) = said /\ er_list(w) = said
      BY <1>2 DEF er_myevents, er_myreservations, er_list, Report
    <2>3. er_create(w) = said /\ er_close(w) = said
      BY <1>2 DEF er_create, er_close, Report
    <2>4. er_reserve(w) = said /\ er_changePass(w) = said
      BY <1>2 DEF er_reserve, er_changePass, Report
    <2> QED
      BY <1>1, <2>1, <2>2, <2>3, <2>4, Readers
  <1>3. str_to_op("ERR") = "ERR" /\ str_to_op("NOK") = "NOK"
    BY DEF str_to_op
  <1>4. w[1] = "ERR" => Heard("SED", w) = "request error"
    BY <1>3, Readers DEF er_show
  <1> QED
    BY <1>2, <1>3, <1>4

\* An event as the server files it.
Filed(v) ==
    /\ v.owner \in User /\ Numeral[v.owner] = v.owner
    /\ v.name \in EventName /\ v.file \in FileName
    /\ v.attend \in 10..MAX_SEATS /\ v.size \in 0..MAX_FILE_SIZE

\* The response to show: what is filed of an event is what the client expects.
LEMMA Shown ==
    ASSUME NEW v, Filed(v), NEW seats \in {0, v.attend}
    PROVE  Heard("SED", <<"RSE", "OK">> \o <<Numeral[v.owner], v.name, v.date, v.time, v.attend,
                                            seats, v.file, v.size>>) = "OK"
  <1> DEFINE a == <<"RSE", "OK">>
             d == <<Numeral[v.owner], v.name, v.date, v.time, v.attend, seats, v.file, v.size>>
             t == a \o d
             S == {"RSE", "OK", Numeral[v.owner], v.name, v.date, v.time, v.attend, seats, v.file,
                   v.size}
  <1>1. a \in Seq(S) /\ d \in Seq(S)
    OBVIOUS
  <1>2. /\ t[1] = "RSE" /\ t[2] = "OK" /\ t[3] = Numeral[v.owner] /\ t[4] = v.name /\ t[5] = v.date
        /\ t[6] = v.time /\ t[7] = v.attend /\ t[8] = seats /\ t[9] = v.file /\ t[10] = v.size
        /\ Len(t) = 10
    <2>1. Len(a) = 2 /\ Len(d) = 8
      OBVIOUS
    <2>2. Len(t) = 10 /\ \A i \in 1..10 : t[i] = IF i <= 2 THEN a[i] ELSE d[i - 2]
      <3> HIDE DEF a, d, S
      <3>1. /\ Len(t) = Len(a) + Len(d)
            /\ \A i \in 1..Len(a) + Len(d) : t[i] = IF i <= Len(a) THEN a[i] ELSE d[i - Len(a)]
        BY <1>1, ConcatProperties
      <3> QED
        BY <2>1, <3>1
    <2>3. /\ a[1] = "RSE" /\ a[2] = "OK" /\ d[1] = Numeral[v.owner] /\ d[2] = v.name
          /\ d[3] = v.date /\ d[4] = v.time /\ d[5] = v.attend /\ d[6] = seats /\ d[7] = v.file
          /\ d[8] = v.size
      OBVIOUS
    <2> HIDE DEF a, d, t
    <2> QED
      BY <2>2, <2>3
  <1> HIDE DEF a, d, t
  <1>3. is_valid_userid(t[3]) /\ is_valid_event_name(t[4]) /\ is_valid_file_name(t[9])
    BY <1>2 DEF Filed, is_valid_userid, is_valid_event_name, is_valid_file_name
  <1>4. is_positive_integer(t[7]) /\ is_valid_num_attendees(t[7])
    BY <1>2, Readable DEF Filed
  <1>5. is_nonnegative_integer(t[8]) /\ t[8] <= t[7]
    <2>1. v.attend \in Int /\ v.attend >= 10 /\ v.attend <= 999
      BY SMT DEF Filed, MAX_SEATS
    <2> QED
      BY <1>2, <2>1, SMT DEF is_nonnegative_integer, is_integer_internal
  <1>6. is_nonnegative_integer(t[10]) /\ t[10] <= MAX_FILE_SIZE
    BY <1>2, Readable DEF Filed
  <1>7. parse_show_response(t)
    BY <1>2, <1>3, <1>4, <1>5, <1>6, AllReadable DEF parse_show_response
  <1>8. str_to_op("RSE") = "RSE"
    <2>1. "RSE" \in {Response[q] : q \in OpCodes}
      BY DEF OpCodes, Response
    <2> QED
      BY <2>1 DEF str_to_op
  <1>9. er_show(t) = "OK"
    BY <1>2, <1>7, <1>8 DEF er_show
  <1> QED
    BY <1>9, Readers DEF t, a, d

\* A response with no word behind its status, or with one.
LEMMA Joined ==
    ASSUME NEW a, NEW b, NEW d
    PROVE  /\ d = <<>> => <<a, b>> \o d = <<a, b>>
           /\ \A x : d = <<x>> => <<a, b>> \o d = <<a, b, x>>
  <1>1. d = <<>> => <<a, b>> \o d = <<a, b>>
    OBVIOUS
  <1>2. ASSUME NEW x, d = <<x>> PROVE <<a, b>> \o d = <<a, b, x>>
    <2> DEFINE c == <<a, b>>
               S == {a, b, x}
    <2>1. c \in Seq(S) /\ d \in Seq(S)
      BY <1>2
    <2>2. Len(c) = 2 /\ Len(d) = 1 /\ c[1] = a /\ c[2] = b /\ d[1] = x
      BY <1>2
    <2> HIDE DEF c, S
    <2>3. /\ c \o d \in Seq(S) /\ Len(c \o d) = Len(c) + Len(d)
          /\ \A i \in 1..Len(c) + Len(d) : (c \o d)[i] = IF i <= Len(c) THEN c[i] ELSE d[i - Len(c)]
      BY <2>1, ConcatProperties
    <2>4. /\ Len(c \o d) = 3 /\ (c \o d)[1] = a /\ (c \o d)[2] = b /\ (c \o d)[3] = x
      BY <2>2, <2>3
    <2>5. c \o d = <<a, b, x>>
      <3>1. <<a, b, x>> \in Seq({a, b, x}) /\ Len(<<a, b, x>>) = 3
        OBVIOUS
      <3>2. c \o d = [i \in 1..3 |-> (c \o d)[i]]
        BY <2>3, <2>4, LenProperties
      <3> QED
        BY <2>4, <3>2
    <2> QED
      BY <2>5 DEF c
  <1> QED
    BY <1>1, <1>2

\* The results a readable request may have, but for a fault of the disk.
LEMMA Decided ==
    ASSUME NEW w, w[1] \in OpCodes, NEW r \in Result(w), r \notin {"UNREADABLE", "IO_ERROR"}
    PROVE  /\ parse_request(w, Now)
           /\ w[1] = "LIN" => r \in {"SUCCESS", "REGISTERED", "WRONG_PASS"}
           /\ w[1] \in {"LOU", "UNR", "CPS"} =>
                 r \in {"SUCCESS", "NOT_REGISTERED", "NOT_LOGGED_IN", "WRONG_PASS"}
           /\ w[1] = "LME" => r \in {"SUCCESS", "NOT_LOGGED_IN", "WRONG_PASS", "NO_EVENTS_CREATED"}
           /\ w[1] = "LMR" => r \in {"SUCCESS", "NOT_LOGGED_IN", "WRONG_PASS", "NO_RESERVATIONS_MADE"}
           /\ w[1] = "CRE" => /\ r \in {"SUCCESS", "NOT_LOGGED_IN", "WRONG_PASS", "FAILED_CREATE"}
                              /\ r = "SUCCESS" => Len(created) # MaxEvents
           /\ w[1] = "CLS" =>
                 r \in {"SUCCESS", "WRONG_USER_PASS", "NOT_LOGGED_IN", "EVENT_DOES_NOT_EXIST",
                        "NOT_CREATED_BY_USER", "SOLD_OUT", "ALREADY_PASSED", "ALREADY_CLOSED"}
           /\ w[1] = "LST" => r \in {"SUCCESS", "NO_EVENT_CREATED"}
           /\ w[1] = "SED" => r \in {"SUCCESS", "ERROR"} /\ (r = "SUCCESS" => w[2] \in Number)
           /\ w[1] = "RID" =>
                 /\ r \in {"SUCCESS", "NOT_LOGGED_IN", "WRONG_PASS", "EVENT_NOT_ACTIVE", "SOLD_OUT",
                           "EVENT_PASSED", "ALREADY_CLOSED", "TOO_MANY_SEATS"}
                 /\ r = "TOO_MANY_SEATS" => w[5] > 1
  <1>1. parse_request(w, Now)
    BY DEF Result
  <1>2. CASE w[1] = "LIN"
    <2>1. r \in LoginResult(w[2], w[3])
      BY <1>1, <1>2 DEF Result
    <2> QED
      BY <1>1, <1>2, <2>1 DEF LoginResult, Checked
  <1>3. CASE w[1] \in {"LOU", "UNR"}
    <2>1. r \in LeaveResult(w[2], w[3])
      BY <1>1, <1>3 DEF Result
    <2> QED
      BY <1>1, <1>3, <2>1 DEF LeaveResult, Checked
  <1>4. CASE w[1] = "CPS"
    <2>1. r \in ChangePassResult(w[2], w[3])
      BY <1>1, <1>4 DEF Result
    <2> QED
      BY <1>1, <1>4, <2>1 DEF ChangePassResult, Checked
  <1>5. CASE w[1] = "LME"
    <2>1. r \in Admission(w[2], w[3], IF Own(w[2]) = {} THEN {"NO_EVENTS_CREATED"} ELSE {"SUCCESS"})
      BY <1>1, <1>5 DEF Result
    <2> QED
      BY <1>1, <1>5, <2>1 DEF Admission, Checked
  <1>6. CASE w[1] = "LMR"
    <2>1. r \in Admission(w[2], w[3], {"NO_RESERVATIONS_MADE", "SUCCESS"})
      BY <1>1, <1>6 DEF Result
    <2> QED
      BY <1>1, <1>6, <2>1 DEF Admission, Checked
  <1>7. CASE w[1] = "CRE"
    <2>1. r \in Admission(w[2], w[3], Fault \cup IF Len(created) = MaxEvents THEN {"FAILED_CREATE"}
                                                 ELSE {"SUCCESS"})
      BY <1>1, <1>7 DEF Result
    <2> QED
      BY <1>1, <1>7, <2>1 DEF Admission, Checked, Fault
  <1>8. CASE w[1] = "CLS"
    <2> DEFINE work == CASE w[4] \notin Number -> {"EVENT_DOES_NOT_EXIST"}
                         [] w[4] \in Number /\ Numeral[created[w[4]].owner] # w[2]
                            -> {"NOT_CREATED_BY_USER"}
                         [] OTHER -> {"SUCCESS", "SOLD_OUT", "ALREADY_PASSED", "ALREADY_CLOSED"}
    <2>1. r \in CloseAdmission(w[2], w[3], Fault \cup work)
      BY <1>1, <1>8 DEF Result
    <2>2. work \subseteq {"SUCCESS", "EVENT_DOES_NOT_EXIST", "NOT_CREATED_BY_USER", "SOLD_OUT",
                          "ALREADY_PASSED", "ALREADY_CLOSED"}
      <3>1. CASE w[4] \notin Number
        BY <3>1
      <3>2. CASE w[4] \in Number /\ Numeral[created[w[4]].owner] # w[2]
        BY <3>2
      <3>3. CASE w[4] \in Number /\ Numeral[created[w[4]].owner] = w[2]
        BY <3>3
      <3> QED
        BY <3>1, <3>2, <3>3
    <2> HIDE DEF work
    <2> QED
      BY <1>1, <1>8, <2>1, <2>2 DEF CloseAdmission, Checked, Fault
  <1>9. CASE w[1] = "LST"
    BY <1>1, <1>9 DEF Result
  <1>10. CASE w[1] = "SED"
    <2>1. r \in IF w[2] \in Number THEN {"SUCCESS"} \cup IF ReadsMayFail THEN {"ERROR"} ELSE {}
                ELSE {"ERROR"}
      BY <1>1, <1>10 DEF Result
    <2> QED
      BY <1>1, <1>10, <2>1
  <1>11. CASE w[1] = "RID"
    <2>1. r \in Admission(w[2], w[3], IF w[4] \notin Number THEN {"EVENT_NOT_ACTIVE"}
                   ELSE Fault \cup {"SUCCESS", "SOLD_OUT", "EVENT_PASSED", "ALREADY_CLOSED"}
                              \cup IF w[5] > 1 THEN {"TOO_MANY_SEATS"} ELSE {})
      BY <1>1, <1>11 DEF Result
    <2> QED
      BY <1>1, <1>11, <2>1 DEF Admission, Checked, Fault
  <1> QED
    <2>1. OpCodes = {"LIN", "CPS", "UNR", "LOU", "CRE", "CLS", "LME", "LST", "SED", "RID", "LMR"}
      BY DEF OpCodes, Response
    <2> QED
      BY <2>1, <1>2, <1>3, <1>4, <1>5, <1>6, <1>7, <1>8, <1>9, <1>10, <1>11

\* EIDs have three digits.
LEMMA ThreeDigits ==
    ASSUME TypeInv
    PROVE  /\ \A e \in Number : is_valid_eid(e)
           /\ Len(created) # MaxEvents => is_valid_eid(Len(created) + 1)
           /\ is_valid_eid(MaxEvents)
  <1>1. Len(created) \in Nat /\ Len(created) <= MaxEvents /\ MaxEvents \in 0..999
    <2>1. PICK S : created \in Seq(S)
      BY DEF TypeInv
    <2> QED
      BY <2>1, SessionBounds, LenProperties DEF TypeInv, SessionTypeOK
  <1> DEFINE k == Len(created)
  <1>2. Number = 1..k
    BY DEF Number
  <1> HIDE DEF k
  <1>3. k \in Nat /\ k <= MaxEvents /\ MaxEvents \in Nat /\ MaxEvents <= 999
    BY <1>1 DEF k
  <1>4. \A e \in 1..k : e \in 0..999
    BY <1>3, SMT
  <1>5. k # MaxEvents => k + 1 \in 0..999
    BY <1>3, SMT
  <1>6. MaxEvents \in 0..999
    BY <1>3, SMT
  <1> QED
    BY <1>2, <1>4, <1>5, <1>6 DEF is_valid_eid, k

\* The lists the server sends.
LEMMA Lists ==
    ASSUME TypeInv, \A e \in Number : Filed(created[e]), NEW w, NEW words,
           words \in Details(w, "SUCCESS")
    PROVE  /\ w[1] = "LME" => \E x : words = <<x>> /\ parse_myevents_list(x)
           /\ w[1] = "LMR" => \E x : words = <<x>> /\ parse_reservations_list(x)
           /\ w[1] = "LST" => \E x : words = <<x>> /\ parse_events_list(x)
  <1>1. ASSUME NEW state \in State PROVE state # EVENT_CORRUPTED => is_valid_event_state(state)
    BY DEF State, is_valid_event_state
  <1>2. ASSUME w[1] = "LME" PROVE \E x : words = <<x>> /\ parse_myevents_list(x)
    <2>1. PICK state \in State : words = <<[e \in Own(w[2]) |-> <<e, state>>]>>
      BY <1>2 DEF Details
    <2> DEFINE x == [e \in Own(w[2]) |-> <<e, state>>]
    <2>2. \A i \in Items(x) : i[2] # EVENT_CORRUPTED => is_valid_eid(i[1]) /\ is_valid_event_state(i[2])
      <3>1. SUFFICES ASSUME NEW e \in Own(w[2]), <<e, state>>[2] # EVENT_CORRUPTED
                     PROVE  is_valid_eid(<<e, state>>[1]) /\ is_valid_event_state(<<e, state>>[2])
        BY DEF Items
      <3>2. is_valid_eid(e)
        BY ThreeDigits DEF Own
      <3> QED
        BY <1>1, <3>1, <3>2
    <2> QED
      BY <2>1, <2>2 DEF parse_myevents_list
  <1>3. ASSUME w[1] = "LMR" PROVE \E x : words = <<x>> /\ parse_reservations_list(x)
    <2> DEFINE some == <<MaxEvents, DateWord(Now), TimeWord(Now), MAX_SEATS>>
    <2>1. PICK item \in {Unread, some} : words = << <<item>> >>
      BY <1>3 DEF Details
    <2>2. Items(<<item>>) = {item}
      BY DEF Items
    <2>3. is_valid_eid(some[1]) /\ some[4] \in 1..999
      BY ThreeDigits, SMT DEF MAX_SEATS
    <2> HIDE DEF some
    <2>4. parse_reservations_list(<<item>>)
      BY <2>2, <2>3, AllReadable DEF parse_reservations_list
    <2> QED
      BY <2>1, <2>4
  <1>4. ASSUME w[1] = "LST" PROVE \E x : words = <<x>> /\ parse_events_list(x)
    <2>1. PICK state \in State : words = <<[e \in Number |-> Entry(e, state)]>>
      BY <1>4 DEF Details
    <2> DEFINE x == [e \in Number |-> Entry(e, state)]
    <2>2. ASSUME NEW e \in Number, Entry(e, state)[3] # EVENT_CORRUPTED
          PROVE  LET i == Entry(e, state)
                 IN  /\ is_valid_eid(i[1]) /\ is_valid_event_name(i[2]) /\ is_valid_event_state(i[3])
                     /\ readable(i[4], i[5])
      <3>1. state # EVENT_CORRUPTED
        BY <2>2 DEF Entry
      <3> DEFINE v == created[e]
      <3>2. Entry(e, state) = <<e, v.name, state, v.date, v.time>> /\ v.name \in EventName
        BY <3>1 DEF Entry, Filed
      <3> HIDE DEF v
      <3> QED
        BY <1>1, <3>1, <3>2, ThreeDigits, AllReadable DEF is_valid_event_name
    <2>3. parse_events_list(x)
      BY <2>2 DEF parse_events_list, Items
    <2> QED
      BY <2>1, <2>3
  <1> QED
    BY <1>2, <1>3, <1>4

\* What the server words, the client understands.
LEMMA AnswerHeard ==
    ASSUME TypeInv, \A e \in Number : Filed(created[e]), NEW w, w[1] \in OpCodes,
           w[1] = "SED" => parse_request(w, Now), w[1] = "RID" => w[5] \in Int,
           NEW r \in Result(w), NEW words \in Details(w, r), NEW t, t = Answer(w[1], r, words)
    PROVE  Understood(w[1], t)
  <1>1. OpCodes = {"LIN", "CPS", "UNR", "LOU", "CRE", "CLS", "LME", "LST", "SED", "RID", "LMR"}
    BY DEF OpCodes, Response
  <1>2. CASE r = "UNREADABLE"
    <2>1. t = <<Response[w[1]], "ERR">> /\ w[1] # "SED"
      <3>1. ASSUME w[1] = "SED" PROVE r \in {"SUCCESS", "ERROR"}
        BY <3>1 DEF Result
      <3> QED
        BY <1>2, <3>1 DEF Answer
    <2>2. "ERR" \in Plain[w[1]]
      BY <1>1, <2>1 DEF Plain
    <2> QED
      BY <2>1, <2>2, TwoWords
  <1>3. CASE r = "IO_ERROR"
    <2>1. t = <<"NOK">> /\ w[1] # "SED"
      <3>1. w[1] = "SED" => r \in {"SUCCESS", "ERROR", "UNREADABLE"}
        BY DEF Result
      <3> QED
        BY <1>3, <3>1 DEF Answer
    <2> QED
      BY <2>1, BareWord DEF Understood
  <1>4. CASE r \notin {"UNREADABLE", "IO_ERROR"}
    <2> DEFINE s == Handler[w[1]][r]
    <2>1. t = <<Response[w[1]], s>> \o words
      BY <1>4 DEF Answer
    <2> HIDE DEF s
    <2>2. ASSUME words = <<>>, s \in Plain[w[1]] PROVE Understood(w[1], t)
      <3>1. t = <<Response[w[1]], s>>
        BY <2>1, <2>2, Joined
      <3> QED
        BY <2>2, <3>1, TwoWords
    <2>3. ASSUME NEW x, words = <<x>>
          PROVE  t = <<Response[w[1]], s, x>>
      BY <2>1, <2>3, Joined
    <2>4. CASE w[1] \in {"LIN", "LOU", "UNR", "CPS", "CLS"}
      <3>1. r # "TOO_MANY_SEATS"
        BY <1>4, <2>4, Decided
      <3>2. words = <<>>
        BY <2>4, <3>1 DEF Details
      <3>3. CASE w[1] = "LIN"
        <4>1. r \in {"SUCCESS", "REGISTERED", "WRONG_PASS"}
          BY <1>4, <3>3, Decided
        <4>2. s \in Plain["LIN"]
          BY <3>3, <4>1 DEF s, Handler, loginStatus, Plain
        <4> QED
          BY <2>2, <3>2, <3>3, <4>2
      <3>4. CASE w[1] = "LOU"
        <4>1. r \in {"SUCCESS", "NOT_REGISTERED", "NOT_LOGGED_IN", "WRONG_PASS"}
          BY <1>4, <3>4, Decided
        <4>2. s \in Plain["LOU"]
          BY <3>4, <4>1 DEF s, Handler, logoutStatus, Plain
        <4> QED
          BY <2>2, <3>2, <3>4, <4>2
      <3>5. CASE w[1] = "UNR"
        <4>1. r \in {"SUCCESS", "NOT_REGISTERED", "NOT_LOGGED_IN", "WRONG_PASS"}
          BY <1>4, <3>5, Decided
        <4>2. s \in Plain["UNR"]
          BY <3>5, <4>1 DEF s, Handler, unregisterStatus, Plain
        <4> QED
          BY <2>2, <3>2, <3>5, <4>2
      <3>6. CASE w[1] = "CPS"
        <4>1. r \in {"SUCCESS", "NOT_REGISTERED", "NOT_LOGGED_IN", "WRONG_PASS"}
          BY <1>4, <3>6, Decided
        <4>2. s \in Plain["CPS"]
          BY <3>6, <4>1 DEF s, Handler, changePassStatus, Plain
        <4> QED
          BY <2>2, <3>2, <3>6, <4>2
      <3>7. CASE w[1] = "CLS"
        <4>1. r \in {"SUCCESS", "WRONG_USER_PASS", "NOT_LOGGED_IN", "EVENT_DOES_NOT_EXIST",
                     "NOT_CREATED_BY_USER", "SOLD_OUT", "ALREADY_PASSED", "ALREADY_CLOSED"}
          BY <1>4, <3>7, Decided
        <4>2. s \in Plain["CLS"]
          BY <3>7, <4>1 DEF s, Handler, closeStatus, Plain
        <4> QED
          BY <2>2, <3>2, <3>7, <4>2
      <3> QED
        BY <2>4, <3>3, <3>4, <3>5, <3>6, <3>7
    <2>5. CASE w[1] \in {"LME", "LMR", "LST"} /\ r = "SUCCESS"
      <3>1. s = "OK"
        BY <2>5 DEF s, Handler, myeventsStatus, myreservationsStatus, listStatus
      <3>2. words \in Details(w, "SUCCESS")
        BY <2>5
      <3>3. PICK x : /\ words = <<x>>
                     /\ w[1] = "LME" => parse_myevents_list(x)
                     /\ w[1] = "LMR" => parse_reservations_list(x)
                     /\ w[1] = "LST" => parse_events_list(x)
        BY <2>5, <3>2, Lists
      <3>4. t = <<Response[w[1]], s, x>>
        BY <2>3, <3>3
      <3> QED
        BY <2>5, <3>1, <3>3, <3>4, ThreeWords
    <2>6. CASE w[1] \in {"LME", "LMR", "LST"} /\ r # "SUCCESS"
      <3>1. r # "TOO_MANY_SEATS"
        BY <1>4, <2>6, Decided
      <3>2. words = <<>>
        BY <2>6, <3>1 DEF Details
      <3>3. CASE w[1] = "LME"
        <4>1. r \in {"NOT_LOGGED_IN", "WRONG_PASS", "NO_EVENTS_CREATED"}
          BY <1>4, <2>6, <3>3, Decided
        <4>2. s \in Plain["LME"]
          BY <3>3, <4>1 DEF s, Handler, myeventsStatus, Plain
        <4> QED
          BY <2>2, <3>2, <3>3, <4>2
      <3>4. CASE w[1] = "LMR"
        <4>1. r \in {"NOT_LOGGED_IN", "WRONG_PASS", "NO_RESERVATIONS_MADE"}
          BY <1>4, <2>6, <3>4, Decided
        <4>2. s \in Plain["LMR"]
          BY <3>4, <4>1 DEF s, Handler, myreservationsStatus, Plain
        <4> QED
          BY <2>2, <3>2, <3>4, <4>2
      <3>5. CASE w[1] = "LST"
        <4>1. r = "NO_EVENT_CREATED"
          BY <1>4, <2>6, <3>5, Decided
        <4>2. s \in Plain["LST"]
          BY <3>5, <4>1 DEF s, Handler, listStatus, Plain
        <4> QED
          BY <2>2, <3>2, <3>5, <4>2
      <3> QED
        BY <2>6, <3>3, <3>4, <3>5
    <2>7. CASE w[1] = "CRE"
      <3>1. CASE r = "SUCCESS"
        <4> DEFINE e == Len(created) + 1
        <4>1. words = <<e>> /\ is_valid_eid(e)
          BY <1>4, <2>7, <3>1, Decided, ThreeDigits DEF Details
        <4> HIDE DEF e
        <4>2. s = "OK"
          BY <2>7, <3>1 DEF s, Handler, createStatus
        <4>3. t = <<Response[w[1]], s, e>>
          BY <2>3, <4>1
        <4> QED
          BY <2>7, <4>1, <4>2, <4>3, ThreeWords
      <3>2. CASE r \in {"NOT_LOGGED_IN", "WRONG_PASS"}
        <4>1. words = <<>>
          BY <2>7, <3>2 DEF Details
        <4>2. s \in Plain["CRE"]
          BY <2>7, <3>2 DEF s, Handler, createStatus, Plain
        <4> QED
          BY <2>2, <2>7, <4>1, <4>2
      <3>3. CASE r = "FAILED_CREATE"
        <4>1. words = <<>>
          BY <2>7, <3>3 DEF Details
        <4>2. s = "NOK" /\ Response[w[1]] = "RCE"
          BY <2>7, <3>3 DEF s, Handler, createStatus, Response
        <4>3. t = <<"RCE", "NOK">>
          BY <2>1, <4>1, <4>2, Joined
        <4> QED
          BY <4>3 DEF Understood
      <3> QED
        BY <1>4, <2>7, <3>1, <3>2, <3>3, Decided
    <2>8. CASE w[1] = "SED"
      <3>1. CASE r = "SUCCESS"
        <4>1. w[2] \in Number
          BY <1>4, <2>8, <3>1, Decided
        <4> DEFINE v == created[w[2]]
        <4>2. Filed(v)
          BY <4>1
        <4>3. \E seats \in {0, v.attend} : words = <<Numeral[v.owner], v.name, v.date, v.time, v.attend,
                                                   seats, v.file, v.size>>
          BY <2>8, <3>1 DEF Details
        <4> HIDE DEF v
        <4>4. PICK seats \in {0, v.attend} : words = <<Numeral[v.owner], v.name, v.date, v.time, v.attend,
                                                     seats, v.file, v.size>>
          BY <4>3
        <4>5. s = "OK" /\ Response[w[1]] = "RSE"
          BY <2>8, <3>1 DEF s, Handler, showStatus, Response
        <4>6. t = <<"RSE", "OK">> \o words
          BY <2>1, <4>5
        <4>7. Heard("SED", t) = "OK"
          BY <4>2, <4>4, <4>6, Shown
        <4> QED
          BY <2>8, <4>7 DEF Understood
      <3>2. CASE r # "SUCCESS"
        <4>1. r = "ERROR"
          BY <1>4, <2>8, <3>2, Decided
        <4>2. words = <<>>
          BY <2>8, <4>1 DEF Details
        <4>3. s \in Plain["SED"]
          BY <2>8, <4>1 DEF s, Handler, showStatus, Plain
        <4> QED
          BY <2>2, <2>8, <4>2, <4>3
      <3> QED
        BY <3>1, <3>2
    <2>9. CASE w[1] = "RID"
      <3>1. CASE r = "TOO_MANY_SEATS"
        <4>1. w[5] > 1 /\ w[5] \in Int /\ parse_reserve_request(w)
          BY <1>4, <2>9, <3>1, Decided, Parsers
        <4>2. PICK seats \in {1, w[5] - 1} : words = <<seats>>
          BY <2>9, <3>1 DEF Details
        <4>3. is_valid_seats(seats)
          <5>1. w[5] <= 999
            BY <4>1 DEF parse_reserve_request, is_valid_seats, MAX_SEATS
          <5>2. seats \in Int /\ seats >= 1 /\ seats <= 999
            BY <4>1, <4>2, <5>1, SMT
          <5> QED
            BY <5>2, SMT DEF is_valid_seats, is_positive_integer, is_integer_internal, MAX_SEATS
        <4>4. s = "REJ"
          BY <2>9, <3>1 DEF s, Handler, reserveStatus
        <4>5. t = <<Response[w[1]], s, seats>>
          BY <2>3, <4>2
        <4> QED
          BY <2>9, <4>3, <4>4, <4>5, ThreeWords
      <3>2. CASE r # "TOO_MANY_SEATS"
        <4>1. words = <<>>
          BY <2>9, <3>2 DEF Details
        <4>2. r \in {"SUCCESS", "NOT_LOGGED_IN", "WRONG_PASS", "EVENT_NOT_ACTIVE", "SOLD_OUT",
                     "EVENT_PASSED", "ALREADY_CLOSED"}
          BY <1>4, <2>9, <3>2, Decided
        <4>3. s \in Plain["RID"]
          BY <2>9, <4>2 DEF s, Handler, reserveStatus, Plain
        <4> QED
          BY <2>2, <2>9, <4>1, <4>3
      <3> QED
        BY <3>1, <3>2
    <2> QED
      BY <1>1, <2>4, <2>5, <2>6, <2>7, <2>8, <2>9
  <1> QED
    BY <1>2, <1>3, <1>4

-----------------------------------------------------------------------------
(***************************************************************************)
(* The answers under way.                                                  *)
(***************************************************************************)

\* A create in the name of a user whose UID the server does not shorten, and
\* a reserve with a number of seats.
Named(w) ==
    /\ w[1] = "CRE" /\ w[2] \in User => Numeral[w[2]] = w[2]
    /\ w[1] = "RID" => w[5] \in Int

AnswerInv ==
    /\ AnswersAreUnderstood
    /\ \A e \in Number : Filed(created[e])
    /\ \A m \in calls : Named(m.text)

LEMMA TypingNames ==
    ASSUME TypeInv, NEW c \in Client, NEW line \in Lines, NEW w \in Sends(c, line)
    PROVE  Named(w)
  <1> DEFINE command == get_command(line[1])
             args == Tail(line)
             s == session[c]
  <1>1. s.logged_in => \E u \in User : s.uid = Numeral[u]
    BY DEF TypeInv, SessionTypeOK, Start
  <1> HIDE DEF command, args, s
  <1>2. w[1] \in {"CRE", "RID"} =>
           \/ command = "create" /\ s.logged_in /\ w = createRequest(s.uid, s.pass, args)
           \/ command = "reserve" /\ parse_reserve(args) /\ w = reserveRequest(s.uid, s.pass, args)
    BY DEF Sends, command, args, s, handle_login, handle_changePass, handle_unregister, handle_logout,
       handle_create, handle_close, handle_myevents, handle_list, handle_show, handle_reserve,
       handle_myreservations, is_logged_in, loginRequest, changePassRequest, unregisterRequest,
       logoutRequest, closeRequest, myeventsRequest, listRequest, showRequest, myreservationsRequest
  <1>3. CASE command = "create" /\ s.logged_in /\ w = createRequest(s.uid, s.pass, args)
    <2>1. w[1] = "CRE" /\ w[2] = s.uid
      BY <1>3 DEF createRequest
    <2> QED
      BY <1>1, <1>3, <2>1, Numerals DEF Named
  <1>4. CASE command = "reserve" /\ parse_reserve(args) /\ w = reserveRequest(s.uid, s.pass, args)
    <2>1. line[1] = "reserve" /\ Len(args) = 2
      BY <1>4, CommandWord DEF command, parse_reserve
    <2>2. args[2] \in Int
      BY <2>1, SessionNumbers DEF args
    <2>3. w[1] = "RID" /\ w[5] = args[2]
      BY <1>4 DEF reserveRequest
    <2> QED
      BY <2>2, <2>3 DEF Named
  <1>5. CASE w[1] \notin {"CRE", "RID"}
    BY <1>5 DEF Named
  <1> QED
    BY <1>2, <1>3, <1>4, <1>5

\* What a create files of an event.
LEMMA StillFiled ==
    ASSUME TypeInv, \A e \in Number : Filed(created[e]), NEW w, NEW k, NEW r \in Result(w),
           Perform(w, k, r), Named(w), w[1] = "CRE" /\ Len(w) = 9 => w[7] \in Int /\ w[9] \in Int
    PROVE  (\A e \in Number : Filed(created[e]))'
  <1> DEFINE v == [owner |-> w[2], name |-> w[4], date |-> w[5], time |-> w[6], attend |-> w[7],
                   file |-> w[8], size |-> w[9], by |-> k, when |-> Now]
  <1>1. CASE w[1] = "CRE" /\ r = "SUCCESS"
    <2>1. parse_request(w, Now)
      BY <1>1 DEF Result
    <2>2. parse_create_request(w, Now)
      BY <1>1, <2>1, Parsers
    <2>3. Len(w) = 9 /\ w[2] \in User /\ w[4] \in EventName /\ w[8] \in FileName
      BY <2>2 DEF parse_create_request, Opens, is_valid_userid, is_valid_event_name, is_valid_file_name
    <2>4. w[7] \in 10..MAX_SEATS /\ w[9] \in 0..MAX_FILE_SIZE
      <3>1. w[7] >= 10 /\ w[7] <= MAX_SEATS /\ w[9] >= 0 /\ w[9] <= MAX_FILE_SIZE
        BY <2>2 DEF parse_create_request, is_valid_num_attendees, is_nonnegative_integer,
           is_integer_internal
      <3>2. w[7] \in Int /\ w[9] \in Int
        BY <1>1, <2>3
      <3> QED
        BY <3>1, <3>2, Readable, SMT
    <2>5. Numeral[w[2]] = w[2]
      BY <1>1, <2>3 DEF Named
    <2>6. created' = Append(created, v)
      BY <1>1 DEF Perform
    <2>7. Filed(v)
      BY <2>3, <2>4, <2>5 DEF Filed
    <2> HIDE DEF v
    <2>8. PICK S : created \in Seq(S)
      BY DEF TypeInv
    <2>9. created \in Seq(S \cup {v})
      BY <2>8, SeqDef
    <2>10. /\ Len(created') = Len(created) + 1 /\ created'[Len(created) + 1] = v
           /\ \A e \in 1..Len(created) : created'[e] = created[e]
      BY <2>6, <2>9, AppendProperties
    <2>11. Len(created) \in Nat
      BY <2>9, LenProperties
    <2>12. \A e \in 1..Len(created') : e \in 1..Len(created) \/ e = Len(created) + 1
      BY <2>10, <2>11
    <2> QED
      BY <2>7, <2>10, <2>12 DEF Number
  <1>2. CASE ~(w[1] = "CRE" /\ r = "SUCCESS")
    <2>1. created' = created
      BY <1>2 DEF Perform
    <2> QED
      BY <2>1 DEF Number
  <1> QED
    BY <1>1, <1>2

\* An answer to one datagram, if it looks like the answer to another.
LEMMA ReplyHeard ==
    ASSUME TypeInv, \A e \in Number : Filed(created[e]), NEW w, w[1] \in Datagrams,
           NEW r \in Result(w), NEW words \in Details(w, r), NEW t, t = Answer(w[1], r, words),
           NEW code \in Datagrams, t[1] \in {Response[code], "ERR", "NOK"}
    PROVE  Heard(code, t) \notin {"bad message", "invalid status"}
  <1>1. w[1] \in OpCodes /\ w[1] \notin {"SED", "RID"} /\ code \in OpCodes \ {"SED"}
    BY DEF Datagrams, OpCodes, Response
  <1>2. t[1] \in {Response[w[1]], "NOK"}
    BY Worded
  <1>3. \A p, q \in Datagrams : /\ Response[p] = Response[q] => p = q
                                /\ Response[p] \notin {"ERR", "NOK", "RCE"}
    BY DEF Datagrams, Response
  <1>4. CASE t[1] = "NOK"
    BY <1>1, <1>4, BareWord
  <1>5. CASE t[1] = Response[w[1]]
    <2>1. code = w[1] /\ t[1] # "RCE"
      BY <1>3, <1>5
    <2>2. Understood(w[1], t)
      BY <1>1, AnswerHeard
    <2>3. t # <<"RCE", "NOK">>
      BY <2>1
    <2> QED
      BY <2>1, <2>2, <2>3 DEF Understood
  <1> QED
    BY <1>2, <1>4, <1>5

LEMMA InitAnswers == Init => AnswerInv
  <1> SUFFICES ASSUME Init PROVE AnswerInv
    OBVIOUS
  <1>1. BagToSet(replies) = {} /\ calls = {} /\ answers = {}
    BY DEF Init, EmptyBag, BagToSet, SetToBag
  <1>2. Number = {}
    BY DEF Init, Number
  <1> QED
    BY <1>1, <1>2 DEF AnswerInv, AnswersAreUnderstood

\* What adds no answer and leaves those who wait for one alone.
LEMMA StillUnderstood ==
    ASSUME AnswersAreUnderstood, BagToSet(replies') \subseteq BagToSet(replies),
           answers' \subseteq answers, \A a \in answers' : doing'[a.of] = doing[a.of]
    PROVE  AnswersAreUnderstood'
  BY DEF AnswersAreUnderstood

LEMMA DatagramAnswered ==
    ASSUME TypeInv, PacketInv, AnswerInv, ServeDatagram
    PROVE  AnswerInv'
  <1>1. PICK m \in BagToSet(datagrams) : \E r \in Result(m.text) :
           /\ Perform(m.text, <<m.of, 0>>, r)
           /\ \E words \in Details(m.text, r) :
                 replies' = replies (+) Packet(m.of, IF get_udp_command(m.text[1]) = "ERR" THEN <<"ERR">>
                                                     ELSE Answer(m.text[1], r, words))
           /\ UNCHANGED <<client, calls, answers>>
    BY DEF ServeDatagram
  <1>2. PICK r \in Result(m.text) :
           /\ Perform(m.text, <<m.of, 0>>, r)
           /\ \E words \in Details(m.text, r) :
                 replies' = replies (+) Packet(m.of, IF get_udp_command(m.text[1]) = "ERR" THEN <<"ERR">>
                                                     ELSE Answer(m.text[1], r, words))
    BY <1>1
  <1>3. PICK words \in Details(m.text, r) :
           replies' = replies (+) Packet(m.of, IF get_udp_command(m.text[1]) = "ERR" THEN <<"ERR">>
                                               ELSE Answer(m.text[1], r, words))
    BY <1>2
  <1>4. m.text[1] \in Datagrams
    BY DEF PacketInv
  <1>5. get_udp_command(m.text[1]) # "ERR"
    BY <1>4 DEF get_udp_command, str_to_op, Datagrams, OpCodes, Response
  <1> DEFINE t == Answer(m.text[1], r, words)
             x == [of |-> m.of, text |-> t]
  <1>6. replies' = replies (+) SetToBag({x}) /\ x.text = t
    BY <1>3, <1>5 DEF Packet
  <1>7. \A e \in Number : Filed(created[e])
    BY DEF AnswerInv
  <1>8. \A code \in Datagrams : t[1] \in {Response[code], "ERR", "NOK"} =>
           Heard(code, t) \notin {"bad message", "invalid status"}
    BY <1>4, <1>7, ReplyHeard
  <1> HIDE DEF x, t
  <1>9. BagToSet(replies') = BagToSet(replies) \cup {x}
    BY <1>6, OneMore DEF TypeInv
  <1>10. AnswersAreUnderstood'
    <2>1. UNCHANGED <<answers, doing>>
      BY <1>1 DEF client
    <2>2. AnswersAreUnderstood
      BY DEF AnswerInv
    <2>3. \A y \in BagToSet(replies') : \A code \in Datagrams :
             y.text[1] \in {Response[code], "ERR", "NOK"} =>
                Heard(code, y.text) \notin {"bad message", "invalid status"}
      BY <1>6, <1>8, <1>9, <2>2 DEF AnswersAreUnderstood
    <2> QED
      BY <2>1, <2>2, <2>3 DEF AnswersAreUnderstood
  <1>11. (\A e \in Number : Filed(created[e]))'
    <2>1. Named(m.text) /\ m.text[1] # "CRE"
      BY <1>4 DEF Named, Datagrams
    <2> QED
      BY <1>2, <1>7, <2>1, StillFiled
  <1> QED
    BY <1>1, <1>10, <1>11 DEF AnswerInv

LEMMA CallAnswered ==
    ASSUME TypeInv, MadeInv, AnswerInv, ServeCall
    PROVE  AnswerInv'
  <1>1. PICK m \in calls : \E r \in Result(m.text) :
           /\ Perform(m.text, <<m.of, m.n>>, r)
           /\ \E words \in Details(m.text, r) :
                answers' = IF Waiting(m)
                           THEN answers \cup
                              {[m EXCEPT !.text = IF get_tcp_command(m.text[1]) = "ERR" THEN <<"ERR">>
                                                  ELSE Answer(m.text[1], r, words)]}
                           ELSE answers
           /\ calls' = calls \ {m}
           /\ UNCHANGED <<client, replies>>
    BY DEF ServeCall
  <1>2. PICK r \in Result(m.text) :
           /\ Perform(m.text, <<m.of, m.n>>, r)
           /\ \E words \in Details(m.text, r) :
                answers' = IF Waiting(m)
                           THEN answers \cup
                              {[m EXCEPT !.text = IF get_tcp_command(m.text[1]) = "ERR" THEN <<"ERR">>
                                                  ELSE Answer(m.text[1], r, words)]}
                           ELSE answers
    BY <1>1
  <1>3. PICK words \in Details(m.text, r) :
           answers' = IF Waiting(m)
                      THEN answers \cup
                         {[m EXCEPT !.text = IF get_tcp_command(m.text[1]) = "ERR" THEN <<"ERR">>
                                             ELSE Answer(m.text[1], r, words)]}
                      ELSE answers
    BY <1>2
  <1>4. \A e \in Number : Filed(created[e])
    BY DEF AnswerInv
  <1>5. Named(m.text) /\ Made(m.text)
    BY DEF AnswerInv, MadeInv
  <1>6. UNCHANGED <<replies, doing>>
    BY <1>1 DEF client
  <1>7. AnswersAreUnderstood
    BY DEF AnswerInv
  <1>8. AnswersAreUnderstood'
    <2>1. CASE ~Waiting(m)
      BY <1>3, <1>6, <1>7, <2>1, StillUnderstood
    <2>2. CASE Waiting(m)
      <3> DEFINE t == IF get_tcp_command(m.text[1]) = "ERR" THEN <<"ERR">>
                      ELSE Answer(m.text[1], r, words)
                 b == [m EXCEPT !.text = t]
      <3>1. answers' = answers \cup {b}
        BY <1>3, <2>2
      <3>2. b.of = m.of /\ b.text = t
        <4>1. m = [of |-> m.of, n |-> m.n, text |-> m.text]
          BY DEF TypeInv
        <4> HIDE DEF t
        <4> QED
          BY <4>1
      <3>3. m.text = doing[m.of]
        BY <2>2 DEF TypeInv, OnceInv
      <3>4. m.text[1] \in OpCodes
        <4>1. m.of \in Client /\ Waits(m.of)
          BY <2>2 DEF TypeInv, Waiting, Waits
        <4> QED
          BY <3>3, <4>1 DEF TypeInv, Sent
      <3>5. Understood(m.text[1], t)
        <4>1. CASE get_tcp_command(m.text[1]) = "ERR"
          <5>1. t[1] = "ERR"
            BY <4>1
          <5>2. Heard(m.text[1], t) = "request error"
            <6> HIDE DEF t
            <6> QED
              BY <3>4, <5>1, BareWord
          <5> QED
            BY <5>2 DEF Understood
        <4>2. CASE get_tcp_command(m.text[1]) # "ERR"
          <5>1. t = Answer(m.text[1], r, words)
            BY <4>2
          <5>2. m.text[1] = "RID" => m.text[5] \in Int
            BY <1>5 DEF Named
          <5>3. m.text[1] = "SED" => parse_request(m.text, Now)
            BY <1>5 DEF Made
          <5> HIDE DEF t
          <5> QED
            BY <1>4, <3>4, <5>1, <5>2, <5>3, AnswerHeard
        <4> QED
          BY <4>1, <4>2
      <3> HIDE DEF b, t
      <3>6. \A a \in answers' : Heard(doing[a.of][1], a.text) \in {"bad message", "invalid status"}
                                   => a.text = <<"RCE", "NOK">>
        BY <1>7, <3>1, <3>2, <3>3, <3>5 DEF AnswersAreUnderstood, Understood
      <3> QED
        BY <1>6, <1>7, <3>6 DEF AnswersAreUnderstood
    <2> QED
      BY <2>1, <2>2
  <1>9. (\A e \in Number : Filed(created[e]))'
    <2>1. m.text[1] = "CRE" /\ Len(m.text) = 9 => m.text[7] \in Int /\ m.text[9] \in Int
      BY <1>5 DEF Made
    <2> QED
      BY <1>2, <1>4, <1>5, <2>1, StillFiled
  <1>10. (\A k \in calls : Named(k.text))'
    BY <1>1 DEF AnswerInv
  <1> QED
    BY <1>8, <1>9, <1>10 DEF AnswerInv

LEMMA NextAnswers ==
    ASSUME \A w \in Strays : w[1] = "CRE" => w[2] \notin User \/ Numeral[w[2]] = w[2],
           TypeInv, PacketInv, MadeInv, AnswerInv, [Next]_vars
    PROVE  AnswerInv'
  <1>1. /\ AnswersAreUnderstood /\ \A e \in Number : Filed(created[e])
        /\ \A m \in calls : Named(m.text)
    BY DEF AnswerInv
  <1>2. CASE Stray
    <2>1. PICK w \in Strays : \E r \in Result(w) : Perform(w, <<NoOne, 0>>, r)
      BY <1>2 DEF Stray
    <2>2. PICK r \in Result(w) : Perform(w, <<NoOne, 0>>, r)
      BY <2>1
    <2>3. w[1] = "CRE" /\ Len(w) = 9 => w[7] \in Int /\ w[9] \in Int
      BY SessionNumbers
    <2>4. (\A e \in Number : Filed(created[e]))'
      <3>1. CASE w[1] = "CRE"
        <4>1. Named(w)
          BY <3>1 DEF Named
        <4> QED
          BY <1>1, <2>2, <2>3, <4>1, StillFiled
      <3>2. CASE w[1] # "CRE"
        <4>1. UNCHANGED created
          BY <2>2, <3>2 DEF Perform
        <4> QED
          BY <1>1, <4>1 DEF Number
      <3> QED
        BY <3>1, <3>2
    <2>5. UNCHANGED <<calls, answers, replies, doing>>
      BY <1>2 DEF Stray, client, network
    <2> QED
      BY <1>1, <2>4, <2>5, StillUnderstood DEF AnswerInv
  <1>3. ASSUME NEW c \in Client, Type(c) PROVE AnswerInv'
    <2>1. PICK line \in Lines : \E w \in Sends(c, line) : Posts(c, w)
      BY <1>3 DEF Type, Posts
    <2>2. PICK w \in Sends(c, line) : Posts(c, w)
      BY <2>1
    <2>3. Named(w)
      BY TypingNames
    <2>4. calls' = calls \/ calls' = calls \cup {[of |-> c, n |-> n[c] + 1, text |-> w]}
      BY <2>2 DEF Posts
    <2>5. \A m \in calls' : Named(m.text)
      BY <1>1, <2>3, <2>4
    <2>6. UNCHANGED <<created, answers, replies>>
      BY <1>3 DEF Type
    <2>7. \A a \in answers : doing'[a.of] = doing[a.of]
      <3>1. \A a \in answers : a.of \in Client \ {c}
        BY <1>3 DEF Type, TypeInv, SessionTypeOK
      <3>2. doing' = [doing EXCEPT ![c] = w] /\ DOMAIN doing = Client
        BY <2>2 DEF Posts, TypeInv
      <3> QED
        BY <3>1, <3>2
    <2>8. AnswersAreUnderstood'
      BY <1>1, <2>6, <2>7, StillUnderstood
    <2> QED
      BY <1>1, <2>5, <2>6, <2>8 DEF AnswerInv, Number
  <1>4. ASSUME NEW c \in Client, Receive(c) \/ Desist(c) \/ ReadAnswer(c) \/ GiveUp(c)
        PROVE  AnswerInv'
    <2>1. PICK status : Return(c, status)
      BY <1>4 DEF Receive, Desist, ReadAnswer, GiveUp
    <2>2. \A d \in Client \ {c} : doing'[d] = doing[d]
      BY <2>1 DEF Return, TypeInv
    <2>3. UNCHANGED <<created, calls>>
      BY <2>1 DEF Return
    <2>4. BagToSet(replies') \subseteq BagToSet(replies)
      <3>1. UNCHANGED replies \/ \E r \in BagToSet(replies) : replies' = replies (-) SetToBag({r})
        BY <1>4 DEF Receive, Desist, ReadAnswer, GiveUp
      <3> QED
        BY <3>1, OneLess DEF TypeInv
    <2>5. answers' \subseteq answers /\ \A a \in answers' : a.of # c
      <3>1. CASE Receive(c) \/ Desist(c)
        <4>1. UNCHANGED answers /\ at[c] = "udp"
          BY <3>1 DEF Receive, Desist
        <4> QED
          BY <4>1 DEF TypeInv, SessionTypeOK
      <3>2. CASE ReadAnswer(c)
        BY <3>2 DEF ReadAnswer, TypeInv, OnceInv
      <3>3. CASE GiveUp(c)
        BY <3>3 DEF GiveUp
      <3> QED
        BY <1>4, <3>1, <3>2, <3>3
    <2>6. \A a \in answers' : doing'[a.of] = doing[a.of]
      BY <2>2, <2>5 DEF TypeInv
    <2>7. AnswersAreUnderstood'
      BY <1>1, <2>4, <2>5, <2>6, StillUnderstood
    <2> QED
      BY <1>1, <2>3, <2>7 DEF AnswerInv, Number
  <1>5. ASSUME NEW c \in Client, Retry(c) \/ Refuse(c) \/ handle_exit(c)
        PROVE  AnswerInv'
    <2>1. UNCHANGED <<created, calls, answers, replies, doing>>
      BY <1>5 DEF Retry, Refuse, handle_exit, vars, client, network
    <2> QED
      BY <1>1, <2>1, StillUnderstood DEF AnswerInv, Number
  <1>6. CASE Tick \/ UNCHANGED vars
    <2>1. UNCHANGED <<created, calls, answers, replies, doing>>
      BY <1>6 DEF Tick, vars, client, network
    <2> QED
      BY <1>1, <2>1, StillUnderstood DEF AnswerInv, Number
  <1> QED
    BY <1>2, <1>3, <1>4, <1>5, <1>6, DatagramAnswered, CallAnswered DEF Next, Await

\* The server's words for every result are words the client has something to
\* say of, and every field and list entry behind them passes its checks; the
\* one answer that leaves it without words is that no EID is free.  Events that
\* other programs create in the name of a user whose UID starts with zeros are
\* left out: show then names an owner whose UID is too short to be one.
THEOREM AnswersUnderstood ==
    ASSUME \A w \in Strays : w[1] = "CRE" => w[2] \notin User \/ Numeral[w[2]] = w[2]
    PROVE  Spec => []AnswersAreUnderstood
  <1>1. Init => PacketInv
    BY InitGranted
  <1>2. TypeInv /\ PacketInv /\ MadeInv /\ AnswerInv /\ [Next]_vars => AnswerInv'
    BY NextAnswers
  <1>3. AnswerInv => AnswersAreUnderstood
    BY DEF AnswerInv
  <1> QED
    BY <1>1, <1>2, <1>3, InitTyped, InitMade, InitAnswers, NextTyped, NextPackets, NextMade, PTL
    DEF Spec

-----------------------------------------------------------------------------
(***************************************************************************)
(* Who is logged in: the client and the server.                            *)
(***************************************************************************)

\* What client c holds, or would hold, is what the server has of every user
\* that nobody else has been let in as; and it is logged in only as let in.
Agrees(c, s) ==
    /\ s.logged_in => \E g \in granted : g[1] = c /\ g[2] = s.uid
    /\ \A u \in User : OnlyAs(c, u) =>
          /\ (u \in loggedIn) <=> (s.logged_in /\ s.uid = u)
          /\ u \in loggedIn => s.pass = pass[u]

\* What it would hold once it has the answer t.
Learning(c, t) == Learn(session[c], doing[c], Heard(doing[c][1], t))

Out(c) == {m \in BagToSet(datagrams) : m.of = c}
Back(c) == {r \in BagToSet(replies) : r.of = c}

\* Client c has one request under way at most, or the answer to it: before the
\* server has dealt with it the two agree, and from then on they agree in what
\* the client is about to learn.
Together(c) ==
    /\ \A m \in Out(c) : at[c] = "udp" /\ m.text = doing[c] /\ datagrams[m] = 1 /\ Back(c) = {}
    /\ \A r \in Back(c) : at[c] = "udp" /\ replies[r] = 1 /\ Agrees(c, Learning(c, r.text))
    /\ \A r, q \in Back(c) : r = q
    /\ \A m \in calls : m.of = c => Waiting(m)
    /\ \A a \in answers : a.of = c => Agrees(c, Learning(c, a.text))
    /\ Back(c) = {} /\ (\A a \in answers : a.of # c) => Agrees(c, session[c])

StepInv == trouble = {} => \A c \in Client : Together(c)

\* The client hears of a login, of the end of one and of a new password what
\* the server has decided.
LEMMA Decision ==
    ASSUME NEW w, w[1] \in {"LIN", "LOU", "UNR", "CPS"}, NEW r \in Result(w),
           NEW words \in Details(w, r), NEW t, t = Answer(w[1], r, words)
    PROVE  /\ w[1] = "LIN" =>
                 (Heard(w[1], t) \in {"OK", "REG"} <=> r \in {"SUCCESS", "REGISTERED"})
           /\ w[1] # "LIN" => (Heard(w[1], t) = "OK" <=> r = "SUCCESS")
  <1>1. w[1] \in OpCodes \ {"SED"}
    BY DEF OpCodes, Response
  <1>2. CASE r = "UNREADABLE"
    <2>1. t = <<Response[w[1]], "ERR">>
      BY <1>2 DEF Answer
    <2>2. "ERR" \in Plain[w[1]]
      BY DEF Plain
    <2>3. Heard(w[1], t) = "ERR"
      BY <1>1, <2>1, <2>2, TwoWords
    <2> QED
      BY <1>2, <2>3
  <1>3. CASE r = "IO_ERROR"
    <2>1. t = <<"NOK">>
      BY <1>3 DEF Answer
    <2>2. t[1] = "NOK"
      BY <2>1
    <2>3. Heard(w[1], t) = "server error"
      BY <1>1, <2>2, BareWord
    <2> QED
      BY <1>3, <2>3
  <1>4. CASE r \notin {"UNREADABLE", "IO_ERROR"}
    <2> DEFINE s == Handler[w[1]][r]
    <2>1. t = <<Response[w[1]], s>> \o words
      BY <1>4 DEF Answer
    <2> HIDE DEF s
    <2>2. /\ w[1] = "LIN" => r \in {"SUCCESS", "REGISTERED", "WRONG_PASS"}
          /\ w[1] # "LIN" => r \in {"SUCCESS", "NOT_REGISTERED", "NOT_LOGGED_IN", "WRONG_PASS"}
      BY <1>1, <1>4, Decided
    <2>3. words = <<>>
      BY <2>2 DEF Details
    <2>4. t = <<Response[w[1]], s>>
      BY <2>1, <2>3, Joined
    <2>5. CASE w[1] = "LIN"
      <3>1. s \in Plain["LIN"] /\ (s \in {"OK", "REG"} <=> r \in {"SUCCESS", "REGISTERED"})
        BY <2>2, <2>5 DEF s, Handler, loginStatus, Plain
      <3> QED
        BY <1>1, <2>4, <2>5, <3>1, TwoWords
    <2>6. CASE w[1] = "LOU"
      <3>1. s \in Plain["LOU"] /\ (s = "OK" <=> r = "SUCCESS")
        BY <2>2, <2>6 DEF s, Handler, logoutStatus, Plain
      <3> QED
        BY <1>1, <2>4, <2>6, <3>1, TwoWords
    <2>7. CASE w[1] = "UNR"
      <3>1. s \in Plain["UNR"] /\ (s = "OK" <=> r = "SUCCESS")
        BY <2>2, <2>7 DEF s, Handler, unregisterStatus, Plain
      <3> QED
        BY <1>1, <2>4, <2>7, <3>1, TwoWords
    <2>8. CASE w[1] = "CPS"
      <3>1. s \in Plain["CPS"] /\ (s = "OK" <=> r = "SUCCESS")
        BY <2>2, <2>8 DEF s, Handler, changePassStatus, Plain
      <3> QED
        BY <1>1, <2>4, <2>8, <3>1, TwoWords
    <2> QED
      BY <2>5, <2>6, <2>7, <2>8
  <1> QED
    BY <1>2, <1>3, <1>4

\* What becomes of logins and passwords.
LEMMA Accounted ==
    ASSUME TypeInv, NEW w, NEW k, NEW r \in Result(w), Perform(w, k, r)
    PROVE  \/ /\ w[1] = "LIN" /\ r \in {"SUCCESS", "REGISTERED"} /\ w[2] \in User
              /\ loggedIn' = loggedIn \cup {w[2]} /\ pass'[w[2]] = w[3]
              /\ \A u \in User \ {w[2]} : pass'[u] = pass[u]
           \/ /\ w[1] \in {"LOU", "UNR"} /\ r = "SUCCESS" /\ loggedIn' = loggedIn \ {w[2]}
              /\ \A u \in User \ {w[2]} : pass'[u] = pass[u]
           \/ /\ w[1] = "CPS" /\ r = "SUCCESS" /\ loggedIn' = loggedIn /\ pass'[w[2]] = w[4]
              /\ \A u \in User \ {w[2]} : pass'[u] = pass[u]
           \/ /\ ~(w[1] = "LIN" /\ r \in {"SUCCESS", "REGISTERED"})
              /\ ~(w[1] \in {"LOU", "UNR", "CPS"} /\ r = "SUCCESS")
              /\ UNCHANGED <<pass, loggedIn>>
  <1>1. pass \in [User -> Password \cup {NoFile}]
    BY DEF TypeInv, SessionTypeOK, DirectoryTypeOK
  <1>2. CASE r = "UNREADABLE"
    BY <1>2 DEF Perform, directory
  <1>3. CASE r # "UNREADABLE" /\ w[1] = "LIN"
    <2>1. login(w[2], w[3], r) /\ parse_request(w, Now)
      BY <1>3 DEF Perform, Result
    <2>2. w[2] \in User
      BY <1>3, <2>1, Parsers DEF parse_login_request, Opens, is_valid_userid
    <2>3. r \in LoginResult(w[2], w[3])
      BY <1>3, <2>1 DEF Result
    <2>4. r = "SUCCESS" => pass[w[2]] = w[3]
      BY <2>3 DEF LoginResult, Checked
    <2> QED
      BY <1>1, <1>3, <2>1, <2>2, <2>4 DEF login
  <1>4. CASE r # "UNREADABLE" /\ w[1] = "LOU"
    BY <1>4 DEF Perform, logout
  <1>5. CASE r # "UNREADABLE" /\ w[1] = "UNR"
    <2>1. unregister(w[2], r)
      BY <1>5 DEF Perform
    <2> QED
      BY <1>1, <1>5, <2>1 DEF unregister
  <1>6. CASE r # "UNREADABLE" /\ w[1] = "CPS"
    <2>1. changePass(w[2], w[4], r) /\ parse_request(w, Now)
      BY <1>6 DEF Perform, Result
    <2>2. w[2] \in User
      BY <1>6, <2>1, Parsers DEF parse_changePass_request, Opens, is_valid_userid
    <2> QED
      BY <1>1, <1>6, <2>1, <2>2 DEF changePass
  <1>7. CASE w[1] \notin {"LIN", "LOU", "UNR", "CPS"}
    BY <1>7 DEF Perform, directory
  <1> QED
    BY <1>2, <1>3, <1>4, <1>5, <1>6, <1>7

\* Whom the server lets in when it answers request w of client c with r.
Grants(c, w, r) ==
    IF w[1] = "LIN" /\ r \in {"SUCCESS", "REGISTERED"} THEN {<<c, w[2], w[3]>>}
    ELSE IF w[1] = "CPS" /\ r = "SUCCESS" THEN {<<c, w[2], w[4]>>}
    ELSE {}

\* The server deals with the request of a client it agrees with: it agrees with
\* what the client will learn, and with the others as before, because the
\* request is about a user as whom this client has been let in.
LEMMA Dealt ==
    ASSUME TypeInv, NEW c \in Client, Waits(c), Agrees(c, session[c]),
           NEW k, NEW r \in Result(doing[c]), Perform(doing[c], k, r),
           NEW words \in Details(doing[c], r), NEW t, t = Answer(doing[c][1], r, words),
           UNCHANGED <<session, doing>>, granted' = granted \cup Grants(c, doing[c], r)
    PROVE  /\ Agrees(c, Learning(c, t))'
           /\ \A d \in Client \ {c} : \A s : Agrees(d, s) => Agrees(d, s)'
  <1> DEFINE w == doing[c]
             S == session[c]
             h == Heard(w[1], t)
             L == Learn(S, w, h)
  <1>1. Sent(c, w)
    BY DEF TypeInv
  <1>2. DOMAIN S = {"logged_in", "uid", "pass"}
    BY DEF TypeInv, SessionTypeOK, Start
  <1>3. /\ w[1] = "LIN" => (h \in {"OK", "REG"} <=> r \in {"SUCCESS", "REGISTERED"})
        /\ w[1] \in {"LOU", "UNR", "CPS"} => (h = "OK" <=> r = "SUCCESS")
    BY Decision
  <1>4. Learning(c, t)' = L
    BY DEF Learning
  <1> HIDE DEF h
  <1>5. L = CASE w[1] = "LIN" /\ r \in {"SUCCESS", "REGISTERED"} ->
                    [logged_in |-> TRUE, uid |-> w[2], pass |-> w[3]]
              [] w[1] \in {"LOU", "UNR"} /\ r = "SUCCESS" -> [S EXCEPT !.logged_in = FALSE]
              [] w[1] = "CPS" /\ r = "SUCCESS" -> [S EXCEPT !.pass = w[4]]
              [] OTHER -> S
    BY <1>3 DEF Learn
  <1> HIDE DEF L
  <1>6. /\ S.logged_in => \E g \in granted : g[1] = c /\ g[2] = S.uid
        /\ \A u \in User : OnlyAs(c, u) =>
              /\ (u \in loggedIn) <=> (S.logged_in /\ S.uid = u)
              /\ u \in loggedIn => S.pass = pass[u]
    BY DEF Agrees
  <1>7. /\ w[1] = "LIN" => ~S.logged_in
        /\ w[1] \in {"LOU", "UNR", "CPS"} => S.logged_in /\ w[2] = S.uid
    BY <1>1 DEF Sent
  <1>8. granted \subseteq granted' /\ \A d \in Client, u \in User : OnlyAs(d, u)' => OnlyAs(d, u)
    BY DEF OnlyAs
  <1>9. \/ /\ w[1] = "LIN" /\ r \in {"SUCCESS", "REGISTERED"} /\ w[2] \in User
           /\ loggedIn' = loggedIn \cup {w[2]} /\ pass'[w[2]] = w[3]
           /\ \A u \in User \ {w[2]} : pass'[u] = pass[u]
        \/ /\ w[1] \in {"LOU", "UNR"} /\ r = "SUCCESS" /\ loggedIn' = loggedIn \ {w[2]}
           /\ \A u \in User \ {w[2]} : pass'[u] = pass[u]
        \/ /\ w[1] = "CPS" /\ r = "SUCCESS" /\ loggedIn' = loggedIn /\ pass'[w[2]] = w[4]
           /\ \A u \in User \ {w[2]} : pass'[u] = pass[u]
        \/ /\ ~(w[1] = "LIN" /\ r \in {"SUCCESS", "REGISTERED"})
           /\ ~(w[1] \in {"LOU", "UNR", "CPS"} /\ r = "SUCCESS")
           /\ UNCHANGED <<pass, loggedIn>>
    BY Accounted
  <1>10. ASSUME w[1] = "LIN" /\ r \in {"SUCCESS", "REGISTERED"}
         PROVE  <<c, w[2], w[3]>> \in granted'
    BY <1>10 DEF Grants
  <1> DEFINE Agreed == /\ L.logged_in => \E g \in granted' : g[1] = c /\ g[2] = L.uid
                       /\ \A u \in User : OnlyAs(c, u)' =>
                             /\ (u \in loggedIn') <=> (L.logged_in /\ L.uid = u)
                             /\ u \in loggedIn' => L.pass = pass'[u]
             Same(u) == (u \in loggedIn' <=> u \in loggedIn) /\ pass'[u] = pass[u]
  <1>11. \A u \in User : u # w[2] => Same(u)
    BY <1>9
  <1>12. Agreed
    <2>1. CASE w[1] = "LIN" /\ r \in {"SUCCESS", "REGISTERED"}
      <3>1. L = [logged_in |-> TRUE, uid |-> w[2], pass |-> w[3]]
        BY <1>5, <2>1
      <3>2. \E g \in granted' : g[1] = c /\ g[2] = w[2]
        BY <1>10, <2>1
      <3>3. loggedIn' = loggedIn \cup {w[2]} /\ pass'[w[2]] = w[3]
        BY <1>9, <2>1
      <3>4. \A u \in User : OnlyAs(c, u)' => u \notin loggedIn
        BY <1>6, <1>7, <1>8, <2>1
      <3> QED
        BY <3>1, <3>2, <3>3, <3>4
    <2>2. CASE w[1] \in {"LOU", "UNR"} /\ r = "SUCCESS"
      <3>1. ~L.logged_in
        BY <1>2, <1>5, <2>2
      <3>2. loggedIn' = loggedIn \ {w[2]}
        BY <1>9, <2>2
      <3>3. \A u \in User : OnlyAs(c, u)' => u \notin loggedIn'
        BY <1>6, <1>7, <1>8, <2>2, <3>2
      <3> QED
        BY <3>1, <3>3
    <2>3. CASE w[1] = "CPS" /\ r = "SUCCESS"
      <3>1. L.logged_in = S.logged_in /\ L.uid = S.uid /\ L.pass = w[4]
        BY <1>2, <1>5, <2>3
      <3>2. loggedIn' = loggedIn /\ pass'[w[2]] = w[4]
        BY <1>9, <2>3
      <3>3. \E g \in granted' : g[1] = c /\ g[2] = L.uid
        BY <1>6, <1>7, <1>8, <2>3, <3>1
      <3>4. \A u \in User : OnlyAs(c, u)' =>
                  /\ (u \in loggedIn') <=> (L.logged_in /\ L.uid = u)
                  /\ u \in loggedIn' => L.pass = pass'[u]
        BY <1>6, <1>7, <1>8, <2>3, <3>1, <3>2
      <3> QED
        BY <3>3, <3>4
    <2>4. CASE /\ ~(w[1] = "LIN" /\ r \in {"SUCCESS", "REGISTERED"})
               /\ ~(w[1] \in {"LOU", "UNR", "CPS"} /\ r = "SUCCESS")
      <3>1. L = S
        BY <1>5, <2>4
      <3>2. UNCHANGED <<pass, loggedIn>>
        BY <1>9, <2>4
      <3>3. \A u \in User : OnlyAs(c, u)' =>
                  /\ (u \in loggedIn') <=> (L.logged_in /\ L.uid = u)
                  /\ u \in loggedIn' => L.pass = pass'[u]
        BY <1>6, <1>8, <3>1, <3>2
      <3>4. L.logged_in => \E g \in granted' : g[1] = c /\ g[2] = L.uid
        BY <1>6, <1>8, <3>1
      <3> QED
        BY <3>3, <3>4
    <2> QED
      BY <2>1, <2>2, <2>3, <2>4
  <1>13. ASSUME NEW d \in Client \ {c}, NEW s, Agrees(d, s) PROVE Agrees(d, s)'
    <2>1. \A u \in User : OnlyAs(d, u)' => OnlyAs(d, u) /\ Same(u)
      <3> SUFFICES ASSUME NEW u \in User, OnlyAs(d, u)' PROVE OnlyAs(d, u) /\ Same(u)
        OBVIOUS
      <3>1. OnlyAs(d, u)
        BY <1>8
      <3>2. ~\E g \in granted' : g[1] = c /\ g[2] = u
        BY DEF OnlyAs
      <3>3. CASE u # w[2]
        BY <1>11, <3>1, <3>3
      <3>4. CASE u = w[2] /\ w[1] = "LIN" /\ r \in {"SUCCESS", "REGISTERED"}
        BY <1>10, <3>2, <3>4
      <3>5. CASE u = w[2] /\ w[1] \in {"LOU", "UNR", "CPS"}
        BY <1>6, <1>7, <1>8, <3>2, <3>5
      <3>6. CASE ~(w[1] = "LIN" /\ r \in {"SUCCESS", "REGISTERED"}) /\ w[1] \notin {"LOU", "UNR", "CPS"}
        BY <1>9, <3>1, <3>6
      <3> QED
        BY <3>3, <3>4, <3>5, <3>6
    <2> HIDE DEF Same
    <2>2. /\ s.logged_in => \E g \in granted : g[1] = d /\ g[2] = s.uid
          /\ \A u \in User : OnlyAs(d, u) =>
                /\ (u \in loggedIn) <=> (s.logged_in /\ s.uid = u)
                /\ u \in loggedIn => s.pass = pass[u]
      BY <1>13 DEF Agrees
    <2>3. \A u \in User : OnlyAs(d, u)' =>
                /\ (u \in loggedIn') <=> (s.logged_in /\ s.uid = u)
                /\ u \in loggedIn' => s.pass = pass'[u]
      BY <2>1, <2>2 DEF Same
    <2>4. s.logged_in => \E g \in granted' : g[1] = d /\ g[2] = s.uid
      BY <1>8, <2>2
    <2> QED
      BY <2>3, <2>4 DEF Agrees
  <1>14. Agrees(c, Learning(c, t))'
    BY <1>4, <1>12 DEF Agrees
  <1> QED
    BY <1>13, <1>14

\* A client that does not move, and whose packets and connections stay as they
\* are, or are lost on their way to the server, remains as it was.
LEMMA Apart ==
    ASSUME NEW d \in Client, Together(d),
           at'[d] = at[d], session'[d] = session[d], doing'[d] = doing[d], n'[d] = n[d],
           Out(d)' \subseteq Out(d), \A m \in Out(d)' : datagrams'[m] = datagrams[m],
           Back(d)' = Back(d), \A r \in Back(d) : replies'[r] = replies[r],
           \A m \in calls' : m.of = d => m \in calls,
           \A a : a.of = d => (a \in answers' <=> a \in answers),
           \A s : Agrees(d, s) => Agrees(d, s)'
    PROVE  Together(d)'
  <1> DEFINE Agreed(s) ==
           /\ s.logged_in => \E g \in granted' : g[1] = d /\ g[2] = s.uid
           /\ \A u \in User : (\A g \in granted' : g[2] = u => g[1] = d) =>
                 /\ (u \in loggedIn') <=> (s.logged_in /\ s.uid = u)
                 /\ u \in loggedIn' => s.pass = pass'[u]
  <1>1. \A s : Agrees(d, s) => Agreed(s)
    BY DEF Agrees, OnlyAs
  <1>2. \A t : Learning(d, t)' = Learning(d, t)
    BY DEF Learning
  <1>3. \A t : Agrees(d, Learning(d, t)) => Agrees(d, Learning(d, t))'
    <2> SUFFICES ASSUME NEW t, Agrees(d, Learning(d, t)) PROVE Agrees(d, Learning(d, t))'
      OBVIOUS
    <2>1. Agreed(Learning(d, t)) /\ Learning(d, t)' = Learning(d, t)
      BY <1>1, <1>2
    <2> QED
      BY <2>1 DEF Agrees, OnlyAs
  <1>4. Agrees(d, session[d]) => Agrees(d, session[d])'
    <2> SUFFICES ASSUME Agrees(d, session[d]) PROVE Agrees(d, session[d])'
      OBVIOUS
    <2>1. Agreed(session[d])
      BY <1>1
    <2> QED
      BY <2>1 DEF Agrees, OnlyAs
  <1> HIDE DEF Agreed
  <1>5. /\ \A m \in Out(d) : at[d] = "udp" /\ m.text = doing[d] /\ datagrams[m] = 1 /\ Back(d) = {}
        /\ \A r \in Back(d) : at[d] = "udp" /\ replies[r] = 1 /\ Agrees(d, Learning(d, r.text))
        /\ \A r, q \in Back(d) : r = q
        /\ \A m \in calls : m.of = d => Waiting(m)
        /\ \A a \in answers : a.of = d => Agrees(d, Learning(d, a.text))
        /\ Back(d) = {} /\ (\A a \in answers : a.of # d) => Agrees(d, session[d])
    BY DEF Together
  <1>6. (\A m \in Out(d) : /\ at[d] = "udp" /\ m.text = doing[d] /\ datagrams[m] = 1
                           /\ Back(d) = {})'
    BY <1>5
  <1>7. \A r \in Back(d)' : at'[d] = "udp" /\ replies'[r] = 1
    BY <1>5
  <1>8. (\A r \in Back(d) : Agrees(d, Learning(d, r.text)))'
    BY <1>3, <1>5
  <1>9. (\A r, q \in Back(d) : r = q)'
    BY <1>5
  <1>10. \A m \in calls' : m.of = d => Waiting(m)'
    BY <1>5 DEF Waiting
  <1>11. (\A a \in answers : a.of = d => Agrees(d, Learning(d, a.text)))'
    BY <1>3, <1>5
  <1>12. (Back(d) = {} /\ (\A a \in answers : a.of # d) => Agrees(d, session[d]))'
    BY <1>4, <1>5
  <1> QED
    BY <1>6, <1>7, <1>8, <1>9, <1>10, <1>11, <1>12 DEF Together

\* Nothing of a client at its prompt is under way.
LEMMA Idle ==
    ASSUME TypeInv, NEW c \in Client, Together(c), ~Waits(c)
    PROVE  /\ Out(c) = {} /\ Back(c) = {} /\ \A m \in calls : m.of # c
           /\ \A a \in answers : a.of # c
           /\ Agrees(c, session[c])
  <1>1. Out(c) = {} /\ Back(c) = {} /\ \A m \in calls : m.of # c
    BY DEF Together, Waits, Waiting
  <1>2. \A a \in answers : a.of # c
    BY DEF TypeInv, SessionTypeOK, Waits
  <1> QED
    BY <1>1, <1>2 DEF Together

\* A client of which nothing is under way, and which agrees with the server.
LEMMA Alike ==
    ASSUME NEW c \in Client, Out(c) = {}, Back(c) = {}, \A m \in calls : m.of # c,
           \A a \in answers : a.of # c, Agrees(c, session[c])
    PROVE  Together(c)
  BY DEF Together

LEMMA DatagramInStep ==
    ASSUME TypeInv, PacketInv, \A c \in Client : Together(c), ServeDatagram
    PROVE  \A c \in Client : Together(c)'
  <1>1. PICK m \in BagToSet(datagrams) : \E r \in Result(m.text) :
           /\ Perform(m.text, <<m.of, 0>>, r)
           /\ \E words \in Details(m.text, r) :
                 replies' = replies (+) Packet(m.of, IF get_udp_command(m.text[1]) = "ERR" THEN <<"ERR">>
                                                     ELSE Answer(m.text[1], r, words))
           /\ datagrams' = datagrams (-) SetToBag({m})
           /\ granted' = IF m.text[1] = "LIN" /\ r \in {"SUCCESS", "REGISTERED"}
                         THEN granted \cup {<<m.of, m.text[2], m.text[3]>>} ELSE granted
           /\ UNCHANGED <<client, calls, answers>>
    BY DEF ServeDatagram
  <1>2. PICK r \in Result(m.text) :
           /\ Perform(m.text, <<m.of, 0>>, r)
           /\ \E words \in Details(m.text, r) :
                 replies' = replies (+) Packet(m.of, IF get_udp_command(m.text[1]) = "ERR" THEN <<"ERR">>
                                                     ELSE Answer(m.text[1], r, words))
           /\ granted' = IF m.text[1] = "LIN" /\ r \in {"SUCCESS", "REGISTERED"}
                         THEN granted \cup {<<m.of, m.text[2], m.text[3]>>} ELSE granted
    BY <1>1
  <1>3. PICK words \in Details(m.text, r) :
           replies' = replies (+) Packet(m.of, IF get_udp_command(m.text[1]) = "ERR" THEN <<"ERR">>
                                               ELSE Answer(m.text[1], r, words))
    BY <1>2
  <1>4. /\ m = [of |-> m.of, text |-> m.text] /\ m.of \in Client /\ m.text[1] \in Datagrams
        /\ \A k \in BagToSet(datagrams) : k = [of |-> k.of, text |-> k.text]
    BY DEF PacketInv
  <1>5. get_udp_command(m.text[1]) # "ERR"
    BY <1>4 DEF get_udp_command, str_to_op, Datagrams, OpCodes, Response
  <1> DEFINE c == m.of
             t == Answer(m.text[1], r, words)
             x == [of |-> c, text |-> t]
  <1>6. replies' = replies (+) SetToBag({x}) /\ x.of = c /\ x.text = t
    BY <1>3, <1>5 DEF Packet
  <1>7. m \in Out(c) /\ Together(c)
    BY <1>4 DEF Out
  <1>8. at[c] = "udp" /\ m.text = doing[c] /\ datagrams[m] = 1 /\ Back(c) = {}
    BY <1>7 DEF Together
  <1>9. \A k \in Out(c) : k = m
    BY <1>4, <1>7, <1>8 DEF Together, Out
  <1>10. UNCHANGED <<at, session, doing, n, calls, answers>>
    BY <1>1 DEF client
  <1>11. granted' = granted \cup Grants(c, doing[c], r)
    <2>1. m.text[1] # "CPS"
      BY <1>4 DEF Datagrams
    <2> QED
      BY <1>2, <1>8, <2>1 DEF Grants
  <1>12. \A a \in answers : a.of # c
    BY <1>8 DEF TypeInv, SessionTypeOK
  <1>13. Agrees(c, session[c])
    BY <1>7, <1>8, <1>12 DEF Together
  <1> HIDE DEF x
  <1>14. /\ BagToSet(datagrams') \subseteq BagToSet(datagrams) /\ m \notin BagToSet(datagrams')
         /\ \A k \in BagToSet(datagrams') : k # m => datagrams'[k] = datagrams[k]
    <2>1. IsABag(datagrams) /\ datagrams' = datagrams (-) SetToBag({m})
      BY <1>1 DEF TypeInv
    <2> QED
      BY ONLY <1>8, <2>1, OneLess
  <1>15. x \notin BagToSet(replies)
    BY <1>6, <1>8 DEF Back
  <1>16. /\ BagToSet(replies') = BagToSet(replies) \cup {x} /\ replies'[x] = 1
         /\ \A k \in BagToSet(replies) : k # x => replies'[k] = replies[k]
    <2>1. IsABag(replies)
      BY DEF TypeInv
    <2> DEFINE C == replies (+) SetToBag({x})
    <2>2. /\ BagToSet(C) = BagToSet(replies) \cup {x}
          /\ x \notin BagToSet(replies) => C[x] = 1
          /\ \A k \in BagToSet(replies) : k # x => C[k] = replies[k]
      BY ONLY <2>1, OneMore
    <2> QED
      BY ONLY <1>6, <1>15, <2>2
  <1>17. /\ Agrees(c, Learning(c, t))'
         /\ \A d \in Client \ {c} : \A s : Agrees(d, s) => Agrees(d, s)'
    <2>1. Waits(c) /\ c \in Client /\ t = Answer(doing[c][1], r, words)
      BY <1>4, <1>8 DEF Waits
    <2>2. r \in Result(doing[c]) /\ Perform(doing[c], <<c, 0>>, r) /\ words \in Details(doing[c], r)
      BY <1>2, <1>3, <1>8
    <2> HIDE DEF c, t
    <2> QED
      BY <1>10, <1>11, <1>13, <2>1, <2>2, Dealt
  <1> HIDE DEF t
  <1>18. Together(c)'
    <2>1. Out(c)' = {}
      BY <1>9, <1>14 DEF Out
    <2>2. Back(c)' = {x}
      BY <1>6, <1>8, <1>16 DEF Back
    <2>3. at'[c] = "udp" /\ replies'[x] = 1
      BY <1>8, <1>10, <1>16
    <2>4. \A q \in Back(c)' : q.text = t
      BY <1>6, <2>2
    <2>5. (\A q \in Back(c) : Agrees(c, Learning(c, q.text)))'
      BY <1>17, <2>4 DEF Learning, Agrees
    <2>6. (\A k \in calls : k.of = c => Waiting(k))'
      BY <1>7, <1>10 DEF Together, Waiting
    <2>7. \A a \in answers' : a.of # c
      BY <1>10, <1>12
    <2> QED
      BY <2>1, <2>2, <2>3, <2>5, <2>6, <2>7 DEF Together
  <1>19. ASSUME NEW d \in Client \ {c} PROVE Together(d)'
    <2>1. Out(d)' \subseteq Out(d) /\ \A k \in Out(d)' : datagrams'[k] = datagrams[k]
      BY <1>14 DEF Out
    <2>2. Back(d)' = Back(d) /\ \A k \in Back(d) : replies'[k] = replies[k]
      BY <1>6, <1>16 DEF Back
    <2>3. \A s : Agrees(d, s) => Agrees(d, s)'
      BY <1>17
    <2> QED
      BY <1>10, <2>1, <2>2, <2>3, Apart
  <1> QED
    BY <1>18, <1>19

LEMMA CallInStep ==
    ASSUME TypeInv, \A c \in Client : Together(c), ServeCall
    PROVE  \A c \in Client : Together(c)'
  <1>1. PICK m \in calls : \E r \in Result(m.text) :
           /\ Perform(m.text, <<m.of, m.n>>, r)
           /\ \E words \in Details(m.text, r) :
                answers' = IF Waiting(m)
                           THEN answers \cup
                              {[m EXCEPT !.text = IF get_tcp_command(m.text[1]) = "ERR" THEN <<"ERR">>
                                                  ELSE Answer(m.text[1], r, words)]}
                           ELSE answers
           /\ calls' = calls \ {m}
           /\ granted' = IF m.text[1] = "CPS" /\ r = "SUCCESS"
                         THEN granted \cup {<<m.of, m.text[2], m.text[4]>>} ELSE granted
           /\ UNCHANGED <<client, datagrams, replies>>
    BY DEF ServeCall
  <1>2. PICK r \in Result(m.text) :
           /\ Perform(m.text, <<m.of, m.n>>, r)
           /\ \E words \in Details(m.text, r) :
                answers' = IF Waiting(m)
                           THEN answers \cup
                              {[m EXCEPT !.text = IF get_tcp_command(m.text[1]) = "ERR" THEN <<"ERR">>
                                                  ELSE Answer(m.text[1], r, words)]}
                           ELSE answers
           /\ granted' = IF m.text[1] = "CPS" /\ r = "SUCCESS"
                         THEN granted \cup {<<m.of, m.text[2], m.text[4]>>} ELSE granted
    BY <1>1
  <1>3. PICK words \in Details(m.text, r) :
           answers' = IF Waiting(m)
                      THEN answers \cup
                         {[m EXCEPT !.text = IF get_tcp_command(m.text[1]) = "ERR" THEN <<"ERR">>
                                             ELSE Answer(m.text[1], r, words)]}
                      ELSE answers
    BY <1>2
  <1> DEFINE c == m.of
             t == Answer(m.text[1], r, words)
             b == [m EXCEPT !.text = t]
  <1>4. c \in Client /\ m = [of |-> m.of, n |-> m.n, text |-> m.text] /\ Together(c)
    BY DEF TypeInv
  <1>5. Waiting(m) /\ Waits(c) /\ at[c] = "tcp"
    BY <1>4 DEF Together, Waiting, Waits
  <1>6. m.text = doing[c] /\ \A a \in answers : a.of # c
    BY <1>5 DEF TypeInv, OnceInv
  <1>7. \A k \in calls : k.of = c => k = m
    BY <1>4, <1>5 DEF Together, Waiting, TypeInv, OnceInv
  <1>8. Out(c) = {} /\ Back(c) = {}
    BY <1>4, <1>5 DEF Together
  <1>9. Agrees(c, session[c])
    BY <1>4, <1>6, <1>8 DEF Together
  <1>10. m.text[1] \in OpCodes \ Datagrams
    BY <1>4, <1>5, <1>6 DEF TypeInv, Sent
  <1>11. get_tcp_command(m.text[1]) # "ERR"
    BY <1>10 DEF get_tcp_command, str_to_op, OpCodes, Response
  <1>12. answers' = answers \cup {b}
    BY <1>3, <1>5, <1>11
  <1>13. b.of = c /\ b.text = t
    <2> HIDE DEF t
    <2> QED
      BY <1>4
  <1>14. UNCHANGED <<at, session, doing, n, datagrams, replies>>
    BY <1>1 DEF client
  <1>15. granted' = granted \cup Grants(c, doing[c], r)
    <2>1. m.text[1] # "LIN"
      BY <1>10 DEF Datagrams
    <2> QED
      BY <1>2, <1>6, <2>1 DEF Grants
  <1>16. /\ Agrees(c, Learning(c, t))'
         /\ \A d \in Client \ {c} : \A s : Agrees(d, s) => Agrees(d, s)'
    <2>1. t = Answer(doing[c][1], r, words)
      BY <1>6
    <2>2. r \in Result(doing[c]) /\ Perform(doing[c], <<c, m.n>>, r) /\ words \in Details(doing[c], r)
      BY <1>2, <1>3, <1>6
    <2> HIDE DEF c, t
    <2> QED
      BY <1>4, <1>5, <1>9, <1>14, <1>15, <2>1, <2>2, Dealt
  <1> HIDE DEF b, t
  <1>17. Together(c)'
    <2>1. Out(c)' = {} /\ Back(c)' = {}
      BY <1>8, <1>14 DEF Out, Back
    <2>2. \A k \in calls' : k.of # c
      BY <1>1, <1>7
    <2>3. \A a \in answers' : a.of = c => a.text = t
      BY <1>6, <1>12, <1>13
    <2>4. (\A a \in answers : a.of = c => Agrees(c, Learning(c, a.text)))'
      BY <1>16, <2>3 DEF Learning, Agrees
    <2>5. \E a \in answers' : a.of = c
      BY <1>12, <1>13
    <2> QED
      BY <2>1, <2>2, <2>4, <2>5 DEF Together
  <1>18. ASSUME NEW d \in Client \ {c} PROVE Together(d)'
    <2>1. Out(d)' = Out(d) /\ Back(d)' = Back(d)
      BY <1>14 DEF Out, Back
    <2>2. \A a : a.of = d => (a \in answers' <=> a \in answers)
      BY <1>12, <1>13
    <2>3. \A s : Agrees(d, s) => Agrees(d, s)'
      BY <1>16
    <2>4. \A k \in calls' : k \in calls
      BY <1>1
    <2> QED
      BY <1>14, <2>1, <2>2, <2>3, <2>4, Apart
  <1> QED
    BY <1>17, <1>18

\* A client sends its next request.
LEMMA TypeInStep ==
    ASSUME TypeInv, \A c \in Client : Together(c), NEW c \in Client, Type(c)
    PROVE  \A d \in Client : Together(d)'
  <1>1. PICK w : Sent(c, w) /\ Posts(c, w)
    BY Posting
  <1>2. at[c] = "prompt" /\ UNCHANGED <<directory, session, replies, answers, granted>>
    BY DEF Type, history
  <1>3. DOMAIN doing = Client /\ DOMAIN n = Client /\ DOMAIN at = Client /\ n[c] \in Nat
    <2>1. /\ DOMAIN doing = Client /\ n \in [Client -> 0..MaxCommands]
          /\ at \in [Client -> {"prompt", "udp", "tcp", "gone"}]
      BY DEF TypeInv, SessionTypeOK
    <2> QED
      BY <2>1
  <1>4. /\ doing' = [doing EXCEPT ![c] = w] /\ n' = [n EXCEPT ![c] = @ + 1]
        /\ \E place : at' = [at EXCEPT ![c] = place]
    BY <1>1 DEF Posts
  <1>5. /\ Out(c) = {} /\ Back(c) = {} /\ \A m \in calls : m.of # c
        /\ \A a \in answers : a.of # c
        /\ Agrees(c, session[c])
    BY <1>2, Idle DEF Waits
  <1>6. \A d \in Client : \A s : Agrees(d, s) => Agrees(d, s)'
    BY <1>2 DEF Agrees, OnlyAs, directory
  <1>7. Agrees(c, session[c])'
    BY <1>2, <1>5 DEF Agrees, OnlyAs, directory
  <1> DEFINE x == [of |-> c, text |-> w]
             call == [of |-> c, n |-> n[c] + 1, text |-> w]
  <1>8. CASE at' = [at EXCEPT ![c] = "udp"] /\ datagrams' = datagrams (+) SetToBag({x}) /\ UNCHANGED calls
    <2>1. x.of = c /\ x.text = w
      OBVIOUS
    <2> HIDE DEF x
    <2>2. x \notin BagToSet(datagrams)
      BY <1>5, <2>1 DEF Out
    <2>3. /\ BagToSet(datagrams') = BagToSet(datagrams) \cup {x} /\ datagrams'[x] = 1
          /\ \A k \in BagToSet(datagrams) : k # x => datagrams'[k] = datagrams[k]
      <3> DEFINE C == datagrams (+) SetToBag({x})
      <3>1. IsABag(datagrams)
        BY DEF TypeInv
      <3>2. /\ BagToSet(C) = BagToSet(datagrams) \cup {x}
            /\ x \notin BagToSet(datagrams) => C[x] = 1
            /\ \A k \in BagToSet(datagrams) : k # x => C[k] = datagrams[k]
        BY ONLY <3>1, OneMore
      <3> QED
        BY ONLY <1>8, <2>2, <3>2
    <2>4. Together(c)'
      <3>1. Out(c)' = {x} /\ Back(c)' = {}
        BY <1>2, <1>5, <2>1, <2>3 DEF Out, Back
      <3>2. at'[c] = "udp" /\ doing'[c] = w
        BY <1>3, <1>4, <1>8
      <3>3. (\A m \in calls : m.of # c)' /\ (\A a \in answers : a.of # c)'
        BY <1>2, <1>5, <1>8
      <3> QED
        BY <1>7, <2>1, <2>3, <3>1, <3>2, <3>3 DEF Together
    <2>5. ASSUME NEW d \in Client \ {c} PROVE Together(d)'
      <3>1. Out(d)' = Out(d) /\ \A k \in Out(d) : datagrams'[k] = datagrams[k]
        BY <2>1, <2>3 DEF Out
      <3>2. Back(d)' = Back(d)
        BY <1>2 DEF Back
      <3>3. at'[d] = at[d] /\ session'[d] = session[d] /\ doing'[d] = doing[d] /\ n'[d] = n[d]
        BY <1>2, <1>4
      <3>4. \A s : Agrees(d, s) => Agrees(d, s)'
        BY <1>6
      <3> QED
        BY <1>2, <1>8, <3>1, <3>2, <3>3, <3>4, Apart
    <2> QED
      BY <2>4, <2>5
  <1>9. CASE at' = [at EXCEPT ![c] = "tcp"] /\ calls' = calls \cup {call} /\ UNCHANGED datagrams
    <2>1. call.of = c /\ call.n = n[c] + 1
      OBVIOUS
    <2> HIDE DEF call
    <2>2. Together(c)'
      <3>1. Out(c)' = {} /\ Back(c)' = {}
        BY <1>2, <1>5, <1>9 DEF Out, Back
      <3>2. at'[c] = "tcp" /\ n'[c] = n[c] + 1
        BY <1>3, <1>4, <1>9
      <3>3. \A m \in calls' : m.of = c => Waiting(m)'
        BY <1>5, <1>9, <2>1, <3>2 DEF Waiting
      <3>4. \A a \in answers' : a.of # c
        BY <1>2, <1>5
      <3> QED
        BY <1>7, <3>1, <3>3, <3>4 DEF Together
    <2>3. ASSUME NEW d \in Client \ {c} PROVE Together(d)'
      <3>1. Out(d)' = Out(d) /\ Back(d)' = Back(d)
        BY <1>2, <1>9 DEF Out, Back
      <3>2. at'[d] = at[d] /\ session'[d] = session[d] /\ doing'[d] = doing[d] /\ n'[d] = n[d]
        BY <1>2, <1>4
      <3>3. \A s : Agrees(d, s) => Agrees(d, s)'
        BY <1>6
      <3>4. \A m \in calls' : m.of = d => m \in calls
        BY <1>9, <2>1
      <3> QED
        BY <1>2, <1>9, <3>1, <3>2, <3>3, <3>4, Apart
    <2> QED
      BY <2>2, <2>3
  <1> QED
    BY <1>1, <1>8, <1>9 DEF Posts, Packet

\* A client takes the answer to its request: it holds what it was about to
\* learn, and nothing of it is under way.
LEMMA AnswerInStep ==
    ASSUME TypeInv, PacketInv, \A c \in Client : Together(c),
           NEW c \in Client, Receive(c) \/ ReadAnswer(c)
    PROVE  \A d \in Client : Together(d)'
  <1>1. PICK t :
           /\ Return(c, Heard(doing[c][1], t))
           /\ \/ /\ at[c] = "udp" /\ UNCHANGED answers
                 /\ \E q \in BagToSet(replies) : /\ q.of = c /\ q.text = t
                                                 /\ replies' = replies (-) SetToBag({q})
              \/ /\ at[c] = "tcp" /\ UNCHANGED replies
                 /\ \E a \in answers : a.of = c /\ a.text = t /\ answers' = answers \ {a}
    BY DEF Receive, ReadAnswer
  <1>2. Waits(c) /\ Together(c)
    BY <1>1 DEF Waits
  <1>3. UNCHANGED <<directory, n, datagrams, calls, granted>>
    BY <1>1 DEF Return
  <1>4. /\ session'[c] = Learning(c, t)
        /\ \A d \in Client \ {c} :
              at'[d] = at[d] /\ session'[d] = session[d] /\ doing'[d] = doing[d]
    BY <1>1, <1>2, Returned DEF Learning
  <1>5. \A d \in Client : \A s : Agrees(d, s) => Agrees(d, s)'
    BY <1>3 DEF Agrees, OnlyAs, directory
  <1>6. Agrees(c, Learning(c, t)) => Agrees(c, session[c])'
    BY <1>3, <1>4 DEF Agrees, OnlyAs, directory
  <1>7. CASE /\ at[c] = "udp" /\ UNCHANGED answers
             /\ \E q \in BagToSet(replies) : /\ q.of = c /\ q.text = t
                                             /\ replies' = replies (-) SetToBag({q})
    <2>1. PICK q \in BagToSet(replies) : /\ q.of = c /\ q.text = t
                                         /\ replies' = replies (-) SetToBag({q})
      BY <1>7
    <2>2. q \in Back(c)
      BY <2>1 DEF Back
    <2>3. /\ Out(c) = {} /\ replies[q] = 1 /\ Agrees(c, Learning(c, t))
          /\ \A k \in Back(c) : k = q
      BY <1>2, <2>1, <2>2 DEF Together
    <2>4. /\ BagToSet(replies') \subseteq BagToSet(replies) /\ q \notin BagToSet(replies')
          /\ \A k \in BagToSet(replies') : k # q => replies'[k] = replies[k]
      <3>1. IsABag(replies)
        BY DEF TypeInv
      <3> QED
        BY ONLY <2>1, <2>3, <3>1, OneLess
    <2>5. Together(c)'
      <3>1. Out(c)' = {} /\ Back(c)' = {}
        BY <1>3, <2>3, <2>4 DEF Out, Back
      <3>2. (\A m \in calls : m.of # c)'
        BY <1>2, <1>3, <1>7 DEF Together, Waiting
      <3>3. (\A a \in answers : a.of # c)'
        BY <1>7 DEF TypeInv, SessionTypeOK
      <3> QED
        BY <1>6, <2>3, <3>1, <3>2, <3>3 DEF Together
    <2>6. ASSUME NEW d \in Client \ {c} PROVE Together(d)'
      <3>1. Out(d)' = Out(d)
        BY <1>3 DEF Out
      <3>2. Back(d)' = Back(d) /\ \A k \in Back(d) : replies'[k] = replies[k]
        <4>1. \A k \in BagToSet(replies) : k # q => k \in BagToSet(replies') /\ replies'[k] = replies[k]
          <5>1. IsABag(replies)
            BY DEF TypeInv
          <5> QED
            BY ONLY <2>1, <5>1 DEF IsABag, BagToSet, SetToBag, (-)
        <4> QED
          BY <2>1, <2>4, <4>1 DEF Back
      <3>3. \A s : Agrees(d, s) => Agrees(d, s)'
        BY <1>5
      <3> QED
        BY <1>3, <1>4, <1>7, <3>1, <3>2, <3>3, Apart
    <2> QED
      BY <2>5, <2>6
  <1>8. CASE /\ at[c] = "tcp" /\ UNCHANGED replies
             /\ \E a \in answers : a.of = c /\ a.text = t /\ answers' = answers \ {a}
    <2>1. PICK a \in answers : a.of = c /\ a.text = t /\ answers' = answers \ {a}
      BY <1>8
    <2>2. Together(c)'
      <3>1. Out(c)' = {} /\ Back(c)' = {}
        BY <1>2, <1>3, <1>8 DEF Together, Out, Back
      <3>2. (\A m \in calls : m.of # c)'
        BY <1>2, <1>3, <2>1 DEF Together, TypeInv, OnceInv
      <3>3. (\A b \in answers : b.of # c)'
        BY <2>1 DEF TypeInv, OnceInv
      <3>4. Agrees(c, Learning(c, t))
        BY <1>2, <2>1 DEF Together
      <3> QED
        BY <1>6, <3>1, <3>2, <3>3, <3>4 DEF Together
    <2>3. ASSUME NEW d \in Client \ {c} PROVE Together(d)'
      <3>1. Out(d)' = Out(d) /\ Back(d)' = Back(d)
        BY <1>3, <1>8 DEF Out, Back
      <3>2. \A b : b.of = d => (b \in answers' <=> b \in answers)
        BY <2>1
      <3>3. \A s : Agrees(d, s) => Agrees(d, s)'
        BY <1>5
      <3> QED
        BY <1>3, <1>4, <1>8, <3>1, <3>2, <3>3, Apart
    <2> QED
      BY <2>2, <2>3
  <1> QED
    BY <1>1, <1>7, <1>8

\* What moves no client and no packet, and leaves the accounts alone, changes
\* nothing between a client and the server.
LEMMA StillInStep ==
    ASSUME \A c \in Client : Together(c),
           UNCHANGED <<at, session, doing, n, datagrams, replies, calls, answers, granted>>,
           UNCHANGED <<pass, loggedIn>>
    PROVE  \A c \in Client : Together(c)'
  <1> SUFFICES ASSUME NEW c \in Client PROVE Together(c)'
    OBVIOUS
  <1>1. \A s : Agrees(c, s) => Agrees(c, s)'
    BY DEF Agrees, OnlyAs
  <1>2. Out(c)' = Out(c) /\ Back(c)' = Back(c)
    BY DEF Out, Back
  <1> QED
    BY <1>1, <1>2, Apart

\* A client stops.
LEMMA ExitInStep ==
    ASSUME TypeInv, \A c \in Client : Together(c), NEW c \in Client, handle_exit(c)
    PROVE  \A d \in Client : Together(d)'
  <1>1. /\ at[c] = "prompt" /\ at' = [at EXCEPT ![c] = "gone"]
        /\ UNCHANGED <<directory, session, doing, n, datagrams, replies, calls, answers, granted>>
    BY DEF handle_exit, network, history
  <1>2. \A d \in Client : \A s : Agrees(d, s) => Agrees(d, s)'
    BY <1>1 DEF Agrees, OnlyAs, directory
  <1>3. \A d \in Client : Out(d)' = Out(d) /\ Back(d)' = Back(d)
    BY <1>1 DEF Out, Back
  <1>4. Together(c)'
    <2>1. /\ Out(c) = {} /\ Back(c) = {} /\ \A m \in calls : m.of # c
          /\ \A a \in answers : a.of # c
          /\ Agrees(c, session[c])
      BY <1>1, Idle DEF Waits
    <2>2. Agrees(c, session[c])'
      BY <1>1, <2>1 DEF Agrees, OnlyAs, directory
    <2> QED
      BY <1>1, <1>3, <2>1, <2>2 DEF Together
  <1>5. ASSUME NEW d \in Client \ {c} PROVE Together(d)'
    BY <1>1, <1>2, <1>3, Apart
  <1> QED
    BY <1>4, <1>5

LEMMA InitInStep == Init => StepInv
  <1> SUFFICES ASSUME Init, NEW c \in Client PROVE Together(c)
    BY DEF StepInv
  <1>1. BagToSet(datagrams) = {} /\ BagToSet(replies) = {} /\ calls = {} /\ answers = {}
    BY DEF Init, EmptyBag, BagToSet, SetToBag
  <1>2. session[c] = Start /\ loggedIn = {}
    BY DEF Init, DirectoryInit
  <1>3. Agrees(c, session[c])
    BY <1>2 DEF Agrees, Start
  <1> QED
    BY <1>1, <1>3 DEF Together, Out, Back

LEMMA NextInStep ==
    ASSUME TypeInv, PacketInv, StepInv, [Next]_vars,
           \A w \in Strays : w[1] \notin {"LIN", "LOU", "UNR", "CPS"}
    PROVE  StepInv'
  <1> SUFFICES ASSUME trouble' = {} PROVE \A c \in Client : Together(c)'
    BY DEF StepInv
  <1>1. \A c \in Client : ~Vain(c)
    BY DEF Vain
  <1>2. \A c \in Client : ~Retry(c) /\ ~Desist(c) /\ ~GiveUp(c)
    BY <1>1 DEF Retry, Desist, GiveUp
  <1>3. trouble = {}
    <2>1. CASE Tick \/ ServeDatagram \/ ServeCall \/ Stray \/ UNCHANGED vars
      <3>1. ServeDatagram => UNCHANGED trouble
        BY DEF ServeDatagram
      <3>2. ServeCall => UNCHANGED trouble
        BY DEF ServeCall
      <3>3. Tick \/ Stray \/ UNCHANGED vars => UNCHANGED trouble
        BY DEF Tick, Stray, vars, history
      <3> QED
        BY <2>1, <3>1, <3>2, <3>3
    <2>2. ASSUME NEW c \in Client, Type(c) \/ Refuse(c) \/ handle_exit(c) PROVE trouble = {}
      BY <2>2 DEF Type, Refuse, handle_exit, vars, history
    <2>3. ASSUME NEW c \in Client, Receive(c) \/ ReadAnswer(c) PROVE trouble = {}
      BY <2>3 DEF Receive, ReadAnswer
    <2> QED
      BY <1>2, <2>1, <2>2, <2>3 DEF Next, Await
  <1>4. \A c \in Client : Together(c)
    BY <1>3 DEF StepInv
  <1>5. CASE Stray
    <2>1. PICK w \in Strays : \E r \in Result(w) : Perform(w, <<NoOne, 0>>, r)
      BY <1>5 DEF Stray
    <2>2. PICK r \in Result(w) : Perform(w, <<NoOne, 0>>, r)
      BY <2>1
    <2>3. w[1] \notin {"LIN", "LOU", "UNR", "CPS"}
      OBVIOUS
    <2>4. UNCHANGED <<pass, loggedIn>>
      BY <2>2, <2>3, Accounted
    <2>5. UNCHANGED <<at, session, doing, n, datagrams, replies, calls, answers, granted>>
      BY <1>5 DEF Stray, client, network, history
    <2> QED
      BY <1>4, <2>4, <2>5, StillInStep
  <1>6. CASE Tick \/ UNCHANGED vars \/ \E c \in Client : Refuse(c)
    <2>1. /\ UNCHANGED <<at, session, doing, n, datagrams, replies, calls, answers, granted>>
          /\ UNCHANGED <<pass, loggedIn>>
      BY <1>6 DEF Tick, Refuse, vars, directory, client, network, history
    <2> QED
      BY <1>4, <2>1, StillInStep
  <1>7. CASE ServeDatagram
    BY <1>4, <1>7, DatagramInStep
  <1>8. CASE ServeCall
    BY <1>4, <1>8, CallInStep
  <1>9. ASSUME NEW c \in Client, Type(c) PROVE \A d \in Client : Together(d)'
    BY <1>4, <1>9, TypeInStep
  <1>10. ASSUME NEW c \in Client, handle_exit(c) PROVE \A d \in Client : Together(d)'
    BY <1>4, <1>10, ExitInStep
  <1>11. ASSUME NEW c \in Client, Receive(c) \/ ReadAnswer(c)
         PROVE  \A d \in Client : Together(d)'
    BY <1>4, <1>11, AnswerInStep
  <1> QED
    BY <1>2, <1>5, <1>6, <1>7, <1>8, <1>9, <1>10, <1>11 DEF Next, Await

\* As long as no client has waited in vain and the accounts change through the
\* clients alone, a client at its prompt and the server agree on who is logged
\* in there and with which password, for every user nobody else is let in as:
\* the answers to logins, logouts, unregistrations and changes of a password
\* keep both sides in step.
THEOREM ClientsInStep ==
    ASSUME \A w \in Strays : w[1] \notin {"LIN", "LOU", "UNR", "CPS"}
    PROVE  Spec => []InStep
  <1>1. Init => PacketInv
    BY InitGranted
  <1>2. TypeInv /\ PacketInv /\ StepInv /\ [Next]_vars => StepInv'
    BY NextInStep
  <1>3. TypeInv /\ StepInv => InStep
    <2> SUFFICES ASSUME TypeInv, StepInv, trouble = {}, NEW c \in Client, NEW u \in User,
                        at[c] \in {"prompt", "gone"}, OnlyAs(c, u)
                 PROVE  /\ (u \in loggedIn) = (session[c].logged_in /\ session[c].uid = u)
                        /\ u \in loggedIn => session[c].pass = pass[u]
      BY DEF InStep
    <2>1. Together(c) /\ ~Waits(c)
      BY DEF StepInv, Waits
    <2>2. Agrees(c, session[c])
      BY <2>1, Idle
    <2>3. session[c].logged_in \in BOOLEAN
      <3>1. \/ session[c] = Start
            \/ session[c] \in [logged_in : BOOLEAN, uid : {Numeral[v] : v \in User}, pass : Password]
        BY DEF TypeInv, SessionTypeOK
      <3>2. CASE session[c] = Start
        <4>1. session[c].logged_in = FALSE
          BY <3>2 DEF Start
        <4> QED
          BY <4>1
      <3>3. CASE session[c] \in [logged_in : BOOLEAN, uid : {Numeral[v] : v \in User}, pass : Password]
        BY <3>3
      <3> QED
        BY <3>1, <3>2, <3>3
    <2> QED
      BY <2>2, <2>3 DEF Agrees
  <1> QED
    BY <1>1, <1>2, <1>3, InitTyped, InitInStep, NextTyped, NextPackets, PTL DEF Spec
=============================================================================
