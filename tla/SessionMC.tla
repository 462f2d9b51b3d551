----------------------------- MODULE SessionMC ------------------------------
(***************************************************************************)
(* A small instance of Session: one client whose user has an account, gets *)
(* things wrong, and also tries a UID that starts with zeros.              *)
(***************************************************************************)
EXTENDS Session

CONSTANTS c1

Users == {"100001", "000007"}
Passwords == {"old12345", "new12345"}
Printed == [u \in Users |-> IF u = "000007" THEN "7" ELSE u]
Folder == [f \in {"poster.pdf", "film.mp4", "huge.mp4"} |->
             CASE f = "poster.pdf" -> 0 [] f = "film.mp4" -> 10000000 [] OTHER -> 10000001]
Newcomers == [u \in Users |-> NoFile]

\* The first instant of a leap day, for which there is a create, and the next.
Evening == <<Date(29, 2, 2028, 0, 0, 0), Date(29, 2, 2028, 0, 0, 1)>>

Create(file, date, time, seats) == <<"create", "fado", file, date, time, seats>>

Session1 == {
    <<"login", "100001", "old12345">>, <<"login", "100001", "new12345">>,
    <<"login", "000007", "old12345">>,
    <<"logout">>, <<"unregister">>, <<"exit">>, <<"help">>,
    <<"changePass", "old12345", "new12345">>,
    Create("film.mp4", <<29, 2, 2028>>, <<0, 0>>, 10),
    Create("poster.pdf", <<31, 12, 2028>>, <<23, 59>>, 999),
    Create("poster.pdf", <<29, 2, 2100>>, <<12, 0>>, 10),
    Create("huge.mp4", <<31, 12, 2028>>, <<23, 59>>, 10),
    <<"close", 1>>, <<"reserve", 1, 999>>, <<"reserve", 1, 1000>>, <<"mye">>, <<"myr">>,
    <<"list">>, <<"show", 1>>}

\* Programs that ask for what no client would.
Calls == {<<"CRE", "100001", "old12345", "fado", <<29, 2, 2100>>, <<12, 0>>, 10, "poster.pdf", 0>>,
          <<"CRE", "100001", "old12345", "fado", <<28, 2, 2028>>, <<23, 59>>, 10, "poster.pdf", 0>>}
=============================================================================
