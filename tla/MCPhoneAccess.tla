--------------------------- MODULE MCPhoneAccess ----------------------------
EXTENDS PhoneAccess

CONSTANTS s1, s2, p1, p2, c1, c2, d1, d2, w1

Base == [patient |-> TRUE, lingers |-> FALSE, servers |-> {s1, s2},
         procs |-> {}, codes |-> {}, socks |-> {}]

(* A patient user links phones; any user does, with one code; a patient    *)
(* user publishes the server, over processes that may linger or not; any   *)
(* user does, with one server.                                             *)
MCScenarios ==
  { [Base EXCEPT !.codes = {c1, c2}, !.socks = {w1}],
    [Base EXCEPT !.codes = {c1}, !.socks = {w1}, !.patient = FALSE],
    [Base EXCEPT !.procs = {p1, p2}],
    [Base EXCEPT !.procs = {p1, p2}, !.lingers = TRUE],
    [Base EXCEPT !.procs = {p1, p2}, !.servers = {s1}, !.patient = FALSE] }
=============================================================================
