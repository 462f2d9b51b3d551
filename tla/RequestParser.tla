--------------------------- MODULE RequestParser ----------------------------
(***************************************************************************)
(* What the server makes of a request (src/src/server/parser.cpp) and how  *)
(* it words the result of carrying it out (command_handler.cpp).           *)
(***************************************************************************)
EXTENDS Protocol, Calendar

get_udp_command(word) == IF str_to_op(word) \in Datagrams THEN word ELSE "ERR"
get_tcp_command(word) == IF str_to_op(word) \in OpCodes \ Datagrams THEN word ELSE "ERR"

\* A code, a UID and a password, and n words in all.
Opens(w, code, n) ==
    /\ Len(w) = n /\ str_to_op(w[1]) = code
    /\ is_valid_userid(w[2]) /\ is_valid_password(w[3])

parse_login_request(w) == Opens(w, "LIN", 3)
parse_logout_request(w) == Opens(w, "LOU", 3)
parse_unregister_request(w) == Opens(w, "UNR", 3)
parse_myevents_request(w) == Opens(w, "LME", 3)
parse_myreservations_request(w) == Opens(w, "LMR", 3)

(***************************************************************************)
(* Slip: the largest file a client may send is refused.                    *)
(***************************************************************************)
parse_create_requestSlip(w, now) ==
    /\ Opens(w, "CRE", 9)
    /\ is_valid_event_name(w[4])
    /\ readable(w[5], w[6]) /\ ~isPast(fromStrings(w[5], w[6]), now)
    /\ is_positive_integer(w[7]) /\ is_valid_num_attendees(w[7])
    /\ is_valid_file_name(w[8])
    /\ is_nonnegative_integer(w[9]) /\ w[9] < MAX_FILE_SIZE

\* Code, UID, password, name, date, time, attendance, file name and size;
\* the file follows.
parse_create_request(w, now) ==
    /\ Opens(w, "CRE", 9)
    /\ is_valid_event_name(w[4])
    /\ readable(w[5], w[6]) /\ ~isPast(fromStrings(w[5], w[6]), now)
    /\ is_positive_integer(w[7]) /\ is_valid_num_attendees(w[7])
    /\ is_valid_file_name(w[8])
    /\ is_nonnegative_integer(w[9]) /\ w[9] <= MAX_FILE_SIZE

parse_close_request(w) == Opens(w, "CLS", 4) /\ is_valid_eid(w[4])
parse_list_request(w) == Len(w) = 1 /\ str_to_op(w[1]) = "LST"
parse_show_request(w) == Len(w) = 2 /\ str_to_op(w[1]) = "SED" /\ is_valid_eid(w[2])
parse_reserve_request(w) == Opens(w, "RID", 5) /\ is_valid_eid(w[4]) /\ is_valid_seats(w[5])
parse_changePass_request(w) == Opens(w, "CPS", 4) /\ is_valid_password(w[4])

parse_request(w, now) ==
    CASE w[1] = "LIN" -> parse_login_request(w)
      [] w[1] = "LOU" -> parse_logout_request(w)
      [] w[1] = "UNR" -> parse_unregister_request(w)
      [] w[1] = "LME" -> parse_myevents_request(w)
      [] w[1] = "LMR" -> parse_myreservations_request(w)
      [] w[1] = "CRE" -> parse_create_request(w, now)
      [] w[1] = "CLS" -> parse_close_request(w)
      [] w[1] = "LST" -> parse_list_request(w)
      [] w[1] = "SED" -> parse_show_request(w)
      [] w[1] = "RID" -> parse_reserve_request(w)
      [] w[1] = "CPS" -> parse_changePass_request(w)

-----------------------------------------------------------------------------
(***************************************************************************)
(* The status word for each result of operations.cpp.  IO_ERROR is         *)
(* answered with the bare word NOK.                                        *)
(***************************************************************************)
loginStatus == [SUCCESS |-> "OK", REGISTERED |-> "REG", WRONG_PASS |-> "NOK"]
logoutStatus == [SUCCESS |-> "OK", NOT_REGISTERED |-> "UNR", NOT_LOGGED_IN |-> "NOK",
                 WRONG_PASS |-> "WRP"]
unregisterStatus == [SUCCESS |-> "OK", NOT_REGISTERED |-> "UNR", NOT_LOGGED_IN |-> "NOK",
                     WRONG_PASS |-> "WRP"]
myeventsStatus == [SUCCESS |-> "OK", NOT_LOGGED_IN |-> "NLG", WRONG_PASS |-> "WRP",
                   NO_EVENTS_CREATED |-> "NOK"]
myreservationsStatus == [SUCCESS |-> "OK", NOT_LOGGED_IN |-> "NLG", WRONG_PASS |-> "WRP",
                         NO_RESERVATIONS_MADE |-> "NOK"]
createStatus == [SUCCESS |-> "OK", NOT_LOGGED_IN |-> "NLG", WRONG_PASS |-> "WRP",
                 FAILED_CREATE |-> "NOK"]
closeStatus == [SUCCESS |-> "OK", WRONG_USER_PASS |-> "NOK", NOT_LOGGED_IN |-> "NLG",
                EVENT_DOES_NOT_EXIST |-> "NOE", NOT_CREATED_BY_USER |-> "EOW",
                SOLD_OUT |-> "SLD", ALREADY_PASSED |-> "PST", ALREADY_CLOSED |-> "CLO"]
listStatus == [SUCCESS |-> "OK", NO_EVENT_CREATED |-> "NOK"]
showStatus == [SUCCESS |-> "OK", ERROR |-> "NOK"]
reserveStatus == [SUCCESS |-> "ACC", EVENT_NOT_ACTIVE |-> "NOK", WRONG_PASS |-> "WRP",
                  NOT_LOGGED_IN |-> "NLG", TOO_MANY_SEATS |-> "REJ", SOLD_OUT |-> "SLD",
                  EVENT_PASSED |-> "PST", ALREADY_CLOSED |-> "CLS"]
changePassStatus == [SUCCESS |-> "OK", NOT_REGISTERED |-> "NID", NOT_LOGGED_IN |-> "NLG",
                     WRONG_PASS |-> "NOK"]

Handler == [LIN |-> loginStatus, LOU |-> logoutStatus, UNR |-> unregisterStatus,
            LME |-> myeventsStatus, LMR |-> myreservationsStatus, CRE |-> createStatus,
            CLS |-> closeStatus, LST |-> listStatus, SED |-> showStatus,
            RID |-> reserveStatus, CPS |-> changePassStatus]

\* The answer to a request with this code; details are the words behind OK
\* (and REJ), if the operation has any.
Answer(code, result, details) ==
    CASE result = "UNREADABLE" -> <<Response[code], "ERR">>
      [] result = "IO_ERROR" -> <<"NOK">>
      [] OTHER -> <<Response[code], Handler[code][result]>> \o details
=============================================================================
