------------------------------ MODULE Warnings ------------------------------
(***************************************************************************)
(* trackon.warn_of_ip_conflicts: a thread that reads the table every two    *)
(* minutes and logs which rows share addresses. It changes nothing, so it   *)
(* is what it logs about a table: the duplicated addresses, and the pairs   *)
(* of a tracker and an address that other hosts had recently.               *)
(***************************************************************************)
EXTENDS TrackerDb

\* Mutant of RecentIndex: rows that do not resolve at the moment are skipped.
RecentIndexResolving(table) ==
    [ip \in IPs |-> {h \in Listed(table) : ip \in table[h].recent /\ table[h].ips # {}}]

\* build_ip_indexes, second result: the hosts that had an address recently.
RecentIndex(table) == [ip \in IPs |-> {h \in Listed(table) : ip \in table[h].recent}]

\* build_ip_indexes, first result: what a row adds to the list of all addresses;
\* current ones only if it has no recent one.
Contributed(row) == IF row.recent # {} THEN row.recent ELSE row.ips

\* warn_of_duplicate_ips: a row adds an address once, so a duplicate comes from
\* two rows.
Duplicates(table) ==
    {ip \in IPs : \E g, h \in Listed(table) :
        g # h /\ ip \in Contributed(table[g]) \cap Contributed(table[h])}

\* warn_of_recent_ip_overlaps
RecentOverlaps(table) ==
    {w \in [host : Listed(table), ip : IPs] :
        /\ w.ip \in table[w.host].ips
        /\ RecentIndex(table)[w.ip] \ {w.host} # {}}
=============================================================================
