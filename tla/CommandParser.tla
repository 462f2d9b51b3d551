--------------------------- MODULE CommandParser ----------------------------
(***************************************************************************)
(* What the client makes of a line its user types and of a response of the *)
(* server (src/src/client/parser.cpp), which request it sends for the line *)
(* and which status words it knows what to say of (src/src/client/api.cpp).*)
(* A line is the sequence of its words.                                    *)
(***************************************************************************)
EXTENDS Protocol, Calendar

CONSTANTS
    Numeral,    \* to_string(atoi(u)): a UID without its leading zeros
    FileSize    \* the size of each file in the client's directory

ASSUME Numerals == DOMAIN Numeral = User /\ \A u \in User : Numeral[u] = u \/ Numeral[u] \notin User
ASSUME Files == \A f \in DOMAIN FileSize : FileSize[f] \in Nat

get_command(word) ==
    CASE word = "mye" -> "myevents"
      [] word = "myr" -> "myreservations"
      [] word \in {"login", "create", "close", "myevents", "list", "show", "reserve",
                   "myreservations", "changePass", "unregister", "logout", "exit", "help"} -> word
      [] OTHER -> "invalid"

(***************************************************************************)
(* Arguments of a command.                                                 *)
(***************************************************************************)
parse_login(args) ==
    Len(args) = 2 /\ is_valid_userid(args[1]) /\ is_valid_password(args[2])

parse_changePass(args) ==
    /\ Len(args) = 2 /\ is_valid_password(args[1]) /\ is_valid_password(args[2])
    /\ args[1] # args[2]

parse_unregister(args) == args = <<>>
parse_logout(args) == args = <<>>
parse_exit(args) == args = <<>>
parse_myevents(args) == args = <<>>
parse_list(args) == args = <<>>
parse_myreservations(args) == args = <<>>

file_exists(f) == f \in DOMAIN FileSize

\* Name, file, date, time and attendance.
parse_create(args, now) ==
    /\ Len(args) = 5
    /\ is_valid_event_name(args[1])
    /\ is_valid_file_name(args[2]) /\ file_exists(args[2])
    /\ is_valid_date_time(args[3][1], args[3][2], args[3][3], args[4][1], args[4][2], now)
    /\ is_valid_num_attendees(args[5])
    /\ FileSize[args[2]] <= MAX_FILE_SIZE

parse_close(args) == Len(args) = 1 /\ is_valid_eid(args[1])
parse_show(args) == Len(args) = 1 /\ is_valid_eid(args[1])

(***************************************************************************)
(* Slip: any positive number of seats may be asked for.                    *)
(***************************************************************************)
parse_reserveSlip(args) == Len(args) = 2 /\ is_valid_eid(args[1]) /\ is_positive_integer(args[2])

parse_reserve(args) == Len(args) = 2 /\ is_valid_eid(args[1]) /\ is_valid_seats(args[2])

(***************************************************************************)
(* Requests.                                                               *)
(***************************************************************************)
loginRequest(args) == <<"LIN", Numeral[args[1]], args[2]>>
logoutRequest(uid, pass) == <<"LOU", uid, pass>>
unregisterRequest(uid, pass) == <<"UNR", uid, pass>>
myeventsRequest(uid, pass) == <<"LME", uid, pass>>
myreservationsRequest(uid, pass) == <<"LMR", uid, pass>>
changePassRequest(uid, args) == <<"CPS", uid, args[1], args[2]>>
createRequest(uid, pass, args) ==
    LET t == DateTime(args[3][1], args[3][2], args[3][3], args[4][1], args[4][2], 0)
    IN  <<"CRE", uid, pass, args[1], DateWord(t), TimeWord(t), args[5], args[2], FileSize[args[2]]>>
closeRequest(uid, pass, args) == <<"CLS", uid, pass, args[1]>>
reserveRequest(uid, pass, args) == <<"RID", uid, pass, args[1], args[2]>>
listRequest == <<"LST">>
showRequest(args) == <<"SED", args[1]>>

-----------------------------------------------------------------------------
(***************************************************************************)
(* Responses.  The list behind OK is one word here; without it the list is *)
(* empty.                                                                  *)
(***************************************************************************)
Heads(w, code) == Len(w) >= 2 /\ str_to_op(w[1]) = code
List(w) == IF Len(w) >= 3 THEN w[3] ELSE <<>>
Items(list) == {list[i] : i \in DOMAIN list}

(***************************************************************************)
(* Slip: NOK is not known as an answer to logout.                          *)
(***************************************************************************)
parse_logout_responseSlip(w) == Len(w) = 2 /\ Heads(w, "RLO") /\ w[2] \in {"OK", "UNR", "WRP", "ERR"}

parse_login_response(w) ==
    Len(w) = 2 /\ Heads(w, "RLI") /\ w[2] \in {"OK", "NOK", "REG", "ERR"}

parse_changePass_response(w) ==
    Len(w) = 2 /\ Heads(w, "RCP") /\ w[2] \in {"OK", "NOK", "NID", "NLG", "ERR"}

parse_unregister_response(w) ==
    Len(w) = 2 /\ Heads(w, "RUR") /\ w[2] \in {"OK", "NOK", "UNR", "WRP", "ERR"}

parse_logout_response(w) ==
    Len(w) = 2 /\ Heads(w, "RLO") /\ w[2] \in {"OK", "NOK", "UNR", "WRP", "ERR"}

\* Pairs of EID and state.
parse_myevents_list(list) ==
    \A e \in Items(list) :
        e[2] # EVENT_CORRUPTED => is_valid_eid(e[1]) /\ is_valid_event_state(e[2])

\* More words than two pass here and in parse_myreservations_response: the
\* count matters only to a response that does not end with a newline.
parse_myevents_response(w) ==
    /\ Heads(w, "RME")
    /\ \/ w[2] = "OK" /\ parse_myevents_list(List(w))
       \/ w[2] \in {"NOK", "NLG", "WRP", "ERR"}

\* EID, name, state, date and time.
parse_events_list(list) ==
    \A e \in Items(list) : e[3] # EVENT_CORRUPTED =>
        /\ is_valid_eid(e[1]) /\ is_valid_event_name(e[2]) /\ is_valid_event_state(e[3])
        /\ readable(e[4], e[5])

parse_list_response(w) ==
    /\ Heads(w, "RLS")
    /\ \/ w[2] = "OK" /\ parse_events_list(List(w))
       \/ w[2] \in {"NOK", "ERR"} /\ Len(w) = 2

\* EID, date, time and seats.
Unread == <<-1, DateWord(Zero), TimeWord(Zero), -1>>
parse_reservations_list(list) ==
    \A r \in Items(list) : r # Unread =>
        is_valid_eid(r[1]) /\ r[4] \in 1..999 /\ readable(r[2], r[3])

parse_myreservations_response(w) ==
    /\ Heads(w, "RMR")
    /\ \/ w[2] = "OK" /\ parse_reservations_list(List(w))
       \/ w[2] \in {"NOK", "NLG", "WRP", "ERR"}

parse_create_response(w) ==
    /\ Heads(w, "RCE")
    /\ \/ w[2] = "OK" /\ Len(w) = 3 /\ is_valid_eid(w[3])
       \/ w[2] \in {"NOK", "NLG", "WRP", "ERR"}

parse_close_response(w) ==
    /\ Len(w) = 2 /\ Heads(w, "RCL")
    /\ w[2] \in {"OK", "NOK", "NLG", "NOE", "EOW", "SLD", "PST", "CLO", "ERR"}

\* UID, name, date, time, seats, seats reserved, file name and file size;
\* the file follows.
parse_show_response(w) ==
    /\ Len(w) = 10
    /\ is_valid_userid(w[3]) /\ is_valid_event_name(w[4]) /\ readable(w[5], w[6])
    /\ is_positive_integer(w[7]) /\ is_valid_num_attendees(w[7])
    /\ is_nonnegative_integer(w[8]) /\ w[8] <= w[7]
    /\ is_valid_file_name(w[9])
    /\ is_nonnegative_integer(w[10]) /\ w[10] <= MAX_FILE_SIZE

parse_reserve_response(w) ==
    /\ Heads(w, "RRI")
    /\ \/ w[2] = "REJ" /\ Len(w) = 3 /\ is_valid_seats(w[3])
       \/ w[2] \in {"NOK", "NLG", "ACC", "CLS", "SLD", "ERR", "PST", "WRP"}

-----------------------------------------------------------------------------
(***************************************************************************)
(* What the client says of a response: its status, or why it has none.     *)
(***************************************************************************)
Report(w, parsed, statuses) ==
    CASE str_to_op(w[1]) = "ERR" -> "request error"
      [] str_to_op(w[1]) = "NOK" -> "server error"
      [] str_to_op(w[1]) \notin {"ERR", "NOK"} /\ ~parsed -> "bad message"
      [] OTHER -> IF w[2] \in statuses THEN w[2] ELSE "invalid status"

er_login(w) == Report(w, parse_login_response(w), {"OK", "NOK", "REG", "ERR"})
er_logout(w) == Report(w, parse_logout_response(w), {"OK", "NOK", "UNR", "WRP", "ERR"})
er_unregister(w) == Report(w, parse_unregister_response(w), {"OK", "NOK", "WRP", "UNR", "ERR"})
er_myevents(w) == Report(w, parse_myevents_response(w), {"OK", "NOK", "NLG", "WRP", "ERR"})
er_myreservations(w) ==
    Report(w, parse_myreservations_response(w), {"OK", "NOK", "NLG", "WRP", "ERR"})
er_create(w) == Report(w, parse_create_response(w), {"OK", "NLG", "WRP", "ERR"})
er_close(w) == Report(w, parse_close_response(w),
                      {"OK", "NOK", "NLG", "NOE", "EOW", "SLD", "PST", "CLO", "ERR"})
er_list(w) == Report(w, parse_list_response(w), {"OK", "NOK", "ERR"})
er_reserve(w) == Report(w, parse_reserve_response(w),
                        {"ACC", "NOK", "NLG", "WRP", "PST", "CLS", "SLD", "REJ", "ERR"})
er_changePass(w) == Report(w, parse_changePass_response(w), {"OK", "NOK", "NLG", "NID", "ERR"})

\* show reads its response word by word and has a case less.
er_show(w) ==
    CASE str_to_op(w[1]) = "ERR" -> "request error"
      [] str_to_op(w[1]) \notin {"ERR", "RSE"} -> "bad message"
      [] OTHER -> IF w[2] \notin {"OK", "NOK"} THEN "invalid status"
                  ELSE IF w[2] = "OK" /\ ~parse_show_response(w) THEN "bad message" ELSE w[2]

\* The response w to a request with this code.
Heard(code, w) ==
    CASE code = "LIN" -> er_login(w)
      [] code = "LOU" -> er_logout(w)
      [] code = "UNR" -> er_unregister(w)
      [] code = "LME" -> er_myevents(w)
      [] code = "LMR" -> er_myreservations(w)
      [] code = "CRE" -> er_create(w)
      [] code = "CLS" -> er_close(w)
      [] code = "LST" -> er_list(w)
      [] code = "SED" -> er_show(w)
      [] code = "RID" -> er_reserve(w)
      [] code = "CPS" -> er_changePass(w)
=============================================================================
