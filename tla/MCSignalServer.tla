-------------------------- MODULE MCSignalServer --------------------------
(* Small instances of the signaling server.  In the directory one node     *)
(* announces one room: what the server does to its record is the question. *)
EXTENDS SignalServer, TLC

CONSTANTS c1, c2, m1, t1, t2, a, b, r

MCReports == {[peer |-> a, colls |-> {r}, type |-> "node", peers |-> {b}]}

\* Messages for either id, and one without destination.
MCInputs == [kind : {"signal", "leave"}, sig : Signals, dst : Ids]
            \cup [kind : {"signal"}, sig : Signals, dst : {Nil}]
============================================================================
