------------------------------- MODULE ApiList -------------------------------
(***************************************************************************)
(* The lists the API gives out: the queries of db.get_api_data, the routes  *)
(* of views.py that ask them, and the filters of utils.py.                  *)
(*                                                                          *)
(* A row is judged by its scheme, status, uptime, addresses and the time it *)
(* was added. Which URLs are in a list is modelled; their order and the     *)
(* text they are given out in are not.                                      *)
(***************************************************************************)
EXTENDS Integers

CONSTANTS
    V4,              \* the IPv4 addresses; any other is IPv6
    StableMinAge,    \* stable_min_age_days_default: 10 days
    NoArgument       \* the request does not say min_age_days

ASSUME ApiAssumption == StableMinAge \in Nat /\ NoArgument \notin Nat

\* The precision of a Python float: uptime is a quotient of two small integers,
\* rounded to MantissaBits, times 100, rounded again.
MantissaBits == 53

\* up, shifted by `shift` bits, is the first that is not below of.
Shift(up, of) == CHOOSE s \in 0..10 : /\ up * 2^s >= of
                                      /\ s = 0 \/ up * 2^(s - 1) < of

\* up * 2^k modulo of, without numbers wider than of.
ShiftedRemainder(up, of, k) ==
    LET remainder[i \in 0..k] == IF i = 0 THEN up % of ELSE (2 * remainder[i - 1]) % of
    IN remainder[k]

\* Is the double (up / of) * 100 below a percentage that up/of is exactly? The
\* quotient loses `lost`/of of its last place; a hundred times that is more than
\* half a place of the product (64 of the quotient's places if the product is
\* below 128 times the quotient's power of two, else 128).
RoundsBelow(up, of) ==
    /\ up > 0
    /\ LET s == Shift(up, of)
           lost == ShiftedRemainder(up, of, MantissaBits - 1 + s)
       IN /\ 2 * lost < of
          /\ 100 * lost > 32 * of
          /\ 100 * up * 2^s <= 128 * of

\* The operator >= of the query, on the value update_uptime stored.
UptimeAtLeast(uptime, percentage) ==
    \/ 100 * uptime.up > percentage * uptime.of
    \/ /\ 100 * uptime.up = percentage * uptime.of
       /\ ~RoundsBelow(uptime.up, uptime.of)

-----------------------------------------------------------------------------
(* The WHERE clauses of get_api_data, on one row. *)

StablePercentage == 95

\* get_added_before_from_query_args: an age of 0 is no condition.
OldEnough(row, now, asked, default) ==
    LET minAge == IF asked = NoArgument THEN default ELSE asked
    IN minAge = 0 \/ row.added <= now - minAge

ListsUdp(scheme, row)  == scheme = "udp" /\ UptimeAtLeast(row.uptime, StablePercentage)
ListsHttp(scheme, row) == scheme \in {"http", "https"}
                          /\ UptimeAtLeast(row.uptime, StablePercentage)
ListsLive(row)         == row.status = 1

\* Mutant of KeptByFilters: a row without addresses passes.
KeptUnresolved(row, with4Only, with6Only) ==
    /\ with4Only \/ ~(row.ips \subseteq V4) \/ row.ips = {}
    /\ with6Only \/ row.ips \cap V4 # {} \/ row.ips = {}

\* To leave out trackers with IPv4 only is to keep those with an IPv6 address: a
\* tracker whose last resolution failed has no address and passes neither filter.
KeptByFilters(row, with4Only, with6Only) ==
    /\ with4Only \/ \E ip \in row.ips : ip \notin V4
    /\ with6Only \/ \E ip \in row.ips : ip \in V4

-----------------------------------------------------------------------------
(* The routes of views.py that answer with a list: is the row in it? `age` is
   the min_age_days of the request. *)

\* /api/<percentage>, and /api/stable and /api/all, which call it; only
\* /api/stable has a default age.
ApiPercentage(row, percentage, now, age, default, with4Only, with6Only) ==
    /\ UptimeAtLeast(row.uptime, percentage)
    /\ OldEnough(row, now, age, default)
    /\ KeptByFilters(row, with4Only, with6Only)

ApiStable(row, now, age, with4Only, with6Only) ==
    ApiPercentage(row, StablePercentage, now, age, StableMinAge, with4Only, with6Only)

ApiAll(row, now, age, with4Only, with6Only) ==
    ApiPercentage(row, 0, now, age, 0, with4Only, with6Only)

\* /api/udp, /api/http and /api/live do not look at the address filters.
ApiMultiple(kind, scheme, row, now, age) ==
    /\ CASE kind = "udp"  -> ListsUdp(scheme, row)
         [] kind = "http" -> ListsHttp(scheme, row)
         [] kind = "live" -> ListsLive(row)
    /\ OldEnough(row, now, age, 0)
=============================================================================
