---------------------------- MODULE MCTransports ----------------------------
(***************************************************************************)
(* Small instances of TransportLease.  A program is a worker's storage, what *)
(* users and agents do, in this order but without waiting, and the number   *)
(* of troubles.                                                             *)
(***************************************************************************)
EXTENDS TransportLease

Program(url, cred, manual, does, troubles) ==
    [stored |-> [cfg |-> [url |-> url, cred |-> cred], manual |-> manual],
     todo |-> does, faults |-> troubles]

Connects    == <<"connect">>
Disconnects == <<"disconnect">>

\* Connect and Disconnect with and without a credential, on production and on a
\* probed gateway.
MCRelay == {
    Program("prod", 0, FALSE, <<Connects, Disconnects>>, 2),
    Program("prod", 1, FALSE, <<Disconnects, Connects>>, 1),
    Program("prod", 1, TRUE, <<<<"save", "dev">>, Disconnects>>, 1),
    Program("dev", 1, FALSE, <<Connects, Connects>>, 1) }

\* One agent makes way for another.
MCAgents == {
    Program("prod", 0, TRUE, <<<<"agent", "a1">>, <<"leave">>, <<"agent", "a2">>, <<"probe">>>>, 2) }

\* Both transports act.
MCActing == {
    Program("prod", 1, FALSE, <<<<"agent", "a1">>, <<"local", "queue">>, <<"remote", "act">>>>, 1),
    Program("prod", 1, FALSE, <<<<"agent", "a1">>, <<"remote", "queue">>, <<"local", "act">>, <<"remote", "read">>>>, 1),
    Program("prod", 1, FALSE, <<<<"agent", "a1">>, <<"local", "queue">>, <<"pause">>, <<"leave">>, <<"remote", "act">>>>, 1) }

MCPrograms == MCRelay \cup MCAgents \cup MCActing

=============================================================================
