------------------------------- MODULE MCHost -------------------------------
(* A small host: two threads and two events for the router, a handful of     *)
(* sockets, units, modules and persistence entries, two devices of which one *)
(* has no id of its own, two CPUs, and three processes for the detector,     *)
(* which keeps two.                                                          *)
EXTENDS Host

CONSTANTS reader1, detector

MCSockets == {<<"tcp", "a">>, <<"udp", "a">>, <<"tcp6", "b">>}
MCEntries == {<<"crontab", "e">>, <<"cron_d", "e">>}
MCChanges == [listeners |-> 2, kmods |-> 3, services |-> 2, persistence |-> 1, firewall |-> 3]

MCIds == [d1 |-> "046d:1:s", d2 |-> Null]

MCMaxActs == [process |-> 3, connections |-> 2, ptrace |-> 2, modules |-> 2, sockets |-> 2]
=============================================================================
