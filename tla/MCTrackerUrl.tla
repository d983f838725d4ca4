---------------------------- MODULE MCTrackerUrl ----------------------------
(***************************************************************************)
(* A host that runs nothing, or UDP and HTTPS on one port, or HTTP on two   *)
(* and HTTPS without an interval, or what gives responses that end the      *)
(* updater; and records that name either port, or one there is not.         *)
(***************************************************************************)
EXTENDS TrackerUrl, TLC

On(scheme, port) == [scheme |-> scheme, port |-> port]
First(proto, port) == [proto |-> proto, port |-> port]

SomeRecords == {None, Deny, First("udp", 1), First("tcp", 1), First("tcp", 2),
                First("tcp", 9)}

Whole == "answer with interval"
Bare  == "answer"
Odd   == "other exception"
Worse == "ValueError"

SomeServices == {
    <<>>,
    On("udp", 1) :> Whole @@ On("https", 1) :> Whole,
    On("https", 1) :> Bare @@ On("http", 1) :> Whole @@ On("http", 2) :> Bare,
    On("udp", 1) :> Odd @@ On("http", 2) :> Whole @@ On("https", 2) :> Worse}
=============================================================================
