------------------------------ MODULE Protocol ------------------------------
(***************************************************************************)
(* What client and server agree on (src/src/common/protocol.cpp, util.cpp  *)
(* and constants.hpp).                                                     *)
(*                                                                         *)
(* A message is the sequence of its words, as sscanf and tcp_read_word cut *)
(* it; its length is the number of words.  A number stands for the word    *)
(* that spells it, a pair or triple for a date or a time, and a list of    *)
(* events or reservations is one word that holds a tuple for each.         *)
(***************************************************************************)
EXTENDS Integers, Sequences

CONSTANTS
    User,       \* the words of six digits
    Password,   \* the words of eight letters and digits
    EventName,  \* the words is_valid_event_name lets through
    FileName    \* the words is_valid_file_name lets through

MAX_SEATS == 999
MAX_FILE_SIZE == 10 * 1000000

(***************************************************************************)
(* Operation codes.                                                        *)
(***************************************************************************)
\* The code a response starts with, by the code of its request.
Response == [LIN |-> "RLI", CPS |-> "RCP", UNR |-> "RUR", LOU |-> "RLO", CRE |-> "RCE",
             CLS |-> "RCL", LME |-> "RME", LST |-> "RLS", SED |-> "RSE", RID |-> "RRI",
             LMR |-> "RMR"]

OpCodes == DOMAIN Response
Datagrams == {"LIN", "LOU", "UNR", "LME", "LMR"}

str_to_op(word) ==
    IF word \in OpCodes \cup {Response[q] : q \in OpCodes} \cup {"ERR", "NOK"} THEN word ELSE "INV"

(***************************************************************************)
(* Fields.                                                                 *)
(***************************************************************************)
is_valid_userid(word) == word \in User
is_valid_password(word) == word \in Password
is_valid_event_name(word) == word \in EventName
is_valid_file_name(word) == word \in FileName
\* Three digits.
is_valid_eid(n) == n \in 0..999

EVENT_IN_PAST == 0
EVENT_ACCEPTING == 1
EVENT_SOLD_OUT == 2
EVENT_CLOSED == 3
EVENT_CORRUPTED == -1
is_valid_event_state(n) == n \in {EVENT_ACCEPTING, EVENT_IN_PAST, EVENT_CLOSED, EVENT_SOLD_OUT}

\* No sign, and no more than an int holds.
is_integer_internal(n, allow_zero) == n >= (IF allow_zero THEN 0 ELSE 1) /\ n <= 2147483647
is_positive_integer(n) == is_integer_internal(n, FALSE)
is_nonnegative_integer(n) == is_integer_internal(n, TRUE)

is_valid_seats(n) == is_positive_integer(n) /\ n <= MAX_SEATS
is_valid_num_attendees(n) == n >= 10 /\ n <= MAX_SEATS
=============================================================================
