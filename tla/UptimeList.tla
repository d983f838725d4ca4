----------------------------- MODULE UptimeList -----------------------------
(***************************************************************************)
(* The uptime of one tracker, attempt by attempt until historic is full,    *)
(* and the list /api/<percentage> makes of it. TrackerLife.tla has the      *)
(* whole row; here only the two counts matter, so that histories are as     *)
(* long as the percentages need.                                            *)
(***************************************************************************)
EXTENDS ApiList

CONSTANT HistMax    \* maxlen of historic: 1000

VARIABLE uptime     \* update_uptime: `up` successes of `of` attempts

Init == \E s \in {0, 1} : uptime = [up |-> s, of |-> 1]

\* is_up or is_down, and update_uptime, while no attempt drops out of historic.
Attempt ==
    /\ uptime.of < HistMax
    /\ \E s \in {0, 1} : uptime' = [up |-> uptime.up + s, of |-> uptime.of + 1]

\* is_up or is_down on a full historic: the oldest attempt drops out.
Slide ==
    /\ uptime.of = HistMax
    /\ \E up \in {uptime.up - 1, uptime.up, uptime.up + 1} \cap 0..HistMax :
          uptime' = [uptime EXCEPT !.up = up]

Next == Attempt \/ Slide

Spec == Init /\ [][Next]_uptime

\* newtrackon-api.yml:51 "trackers that have an uptime of equal or more than the
\* given percentage": a tracker is in the list of every percentage its successes
\* amount to.
ListsEqualOrMore ==
    \A p \in 0..100 :
        100 * uptime.up >= p * uptime.of =>
          ApiPercentage([uptime |-> uptime, added |-> 0, ips |-> {}],
                        p, 0, NoArgument, 0, TRUE, TRUE)
=============================================================================
