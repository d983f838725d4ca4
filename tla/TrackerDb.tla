------------------------------ MODULE TrackerDb ------------------------------
(***************************************************************************)
(* The `status` table of newtrackon/db.py, and the world its rows describe. *)
(*                                                                          *)
(* The table is keyed by host (PRIMARY KEY(host)), so it is a function from *)
(* hosts to rows, None where the host is not listed. A row keeps the two   *)
(* fields the threads of the program decide on together: `ips`, the         *)
(* addresses of the last resolution ({} when it failed: None in the code),  *)
(* and `recent`, the keys of recent_ips. Every sqlite statement is one      *)
(* transaction, so each operator below is one atomic step of its caller.    *)
(***************************************************************************)
EXTENDS Naturals, Sequences, FiniteSets

CONSTANTS
    Hosts,     \* the host names that are ever submitted
    IPs,       \* the addresses those names resolve to
    Private,   \* the addresses that are not globally routable
    Dns,       \* for each host, the set of answers a resolution may get
    None       \* no row, no host, no candidate

Row == [ips : SUBSET IPs, recent : SUBSET IPs]

ASSUME DnsAssumption  == Dns \in [Hosts -> SUBSET (SUBSET IPs)]
ASSUME PrivAssumption == Private \subseteq IPs
ASSUME NoneAssumption == None \notin Row \cup Hosts

VARIABLE db    \* the table on disk: the only state a restart keeps

DbTypeOK == db \in [Hosts -> Row \cup {None}]

Listed(table) == {h \in Hosts : table[h] # None}

\* Every address a row holds against newcomers, current or recent.
AddressesOf(row) == row.ips \cup row.recent

Held(table) == UNION {AddressesOf(table[h]) : h \in Listed(table)}

\* Mutant of IpConflicts: only current addresses count (the elif is gone).
IpConflictsCurrentOnly(host, ips, table) ==
    {g \in Listed(table) \ {host} : ips \cap table[g].ips # {}}

\* collect_ip_conflicts: the addresses of a candidate against every other row.
IpConflicts(host, ips, table) ==
    {g \in Listed(table) \ {host} : ips \cap AddressesOf(table[g]) # {}}

-----------------------------------------------------------------------------
(* The statements of db.py. *)

\* INSERT; a second row for a host is an IntegrityError and changes nothing.
InsertNewTracker(host, row) ==
    IF db[host] = None THEN [db EXCEPT ![host] = row] ELSE db

\* UPDATE ... WHERE host=?; no row, no effect.
UpdateTracker(host, row) ==
    IF db[host] = None THEN db ELSE [db EXCEPT ![host] = row]

DeleteTracker(host) == [db EXCEPT ![host] = None]

-----------------------------------------------------------------------------
(* Name resolution: the environment of update_ips. *)

Global(answer) == answer # {} /\ answer \cap Private = {}

\* Mutant of Resolved: refresh_recent_ips runs before update_ips.
ResolvedUnstamped(host, row) ==
    {[ips |-> answer, recent |-> kept] :
        answer \in {z \in Dns[host] : Global(z)}, kept \in SUBSET row.recent}

\* What update_ips makes of a usable answer, and refresh_recent_ips of the
\* addresses seen before: every current one is stamped, and of the older ones
\* those past the window (any of them: there is no clock here) are pruned.
Resolved(host, row) ==
    {[ips |-> answer, recent |-> answer \cup kept] :
        answer \in {z \in Dns[host] : Global(z)}, kept \in SUBSET row.recent}

\* A resolution that fails leaves no address, and refresh_recent_ips is not
\* reached: nothing is pruned.
Unresolved(host, row) == {[row EXCEPT !.ips = {}] : failure \in Dns[host] \cap {{}}}

\* A name resolves to one set of global addresses, or not to any.
DnsIsStable ==
    \A h \in Hosts : \A x, y \in {z \in Dns[h] : Global(z)} : x = y
=============================================================================
