---------------------------- MODULE MCNewTrackon ----------------------------
(***************************************************************************)
(* Small instances of NewTrackon for TLC: two hosts, two enqueue threads.   *)
(***************************************************************************)
EXTENDS NewTrackon, TLC

CONSTANTS a, b, ip1, ip2, lan

Link(h, p, f) == [host |-> h, port |-> p, form |-> f]

\* a and b share an address; a is sometimes given one of the local network, and
\* each of them sometimes does not resolve.
StableDns == a :> {{ip1}, {lan}, {}} @@ b :> {{ip1, ip2}, {}}

\* a moves between an address of its own and the one of b, which sometimes does
\* not resolve.
MovingDns == a :> {{ip1}, {ip2}} @@ b :> {{ip2}, {}}

\* Each host, one of them on two ports.
PlainBatches == {<<Link(a, 1, "ok")>>, <<Link(b, 1, "ok")>>, <<Link(b, 2, "ok")>>}

\* A URL that is refused or does not parse, followed by a good one.
OddBatches ==
    {<<Link(a, 1, "ok")>>} \cup
    {<<Link(a, 1, f), Link(b, 1, "ok")>> : f \in {"ip", "bad", "unparsable"}}
=============================================================================
