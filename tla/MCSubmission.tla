---------------------------- MODULE MCSubmission ----------------------------
(***************************************************************************)
(* Two candidates, one with a port and one without, and records that deny,  *)
(* prefer UDP then TCP, or advertise a port no URL can have, after a good   *)
(* one or before it.                                                        *)
(***************************************************************************)
EXTENDS Submission

CONSTANTS x, y

Pref(proto, port) == [proto |-> proto, port |-> port]

SomePorts == [c \in {x, y} |-> IF c = x THEN 1 ELSE 0]

SomeRecords ==
    {None, <<>>, <<Pref("udp", 2), Pref("tcp", 1)>>, <<Pref("tcp", 2), Pref("udp", 9)>>,
     <<Pref("udp", 2), Pref("udp", 9), Pref("tcp", 1)>>}
=============================================================================
