----------------------------- MODULE TrackerList -----------------------------
(***************************************************************************)
(* What the program promises of the list it publishes, with no queue, no    *)
(* snapshot and no thread in sight: a host enters once, with the addresses  *)
(* it resolves to; a recheck replaces its addresses on the strength of the  *)
(* row as it is at that moment; a host leaves by removal. While names do    *)
(* not change their addresses, a host enters only if no listed host holds   *)
(* one of its addresses (tpl/static/faq.jinja:8-9).                         *)
(***************************************************************************)
EXTENDS Naturals, FiniteSets

CONSTANTS Hosts, IPs, Private, Dns, None

VARIABLE list

ListRow == [ips : SUBSET IPs, recent : SUBSET IPs]

Global(answer) == answer # {} /\ answer \cap Private = {}

Stable == \A h \in Hosts : \A x, y \in {z \in Dns[h] : Global(z)} : x = y

Free(host, answer) ==
    \A g \in Hosts \ {host} :
        list[g] # None => answer \cap (list[g].ips \cup list[g].recent) = {}

ListInit == list = [h \in Hosts |-> None]

Enter(h) ==
    /\ list[h] = None
    /\ \E answer \in Dns[h] :
          /\ Global(answer)
          /\ Stable => Free(h, answer)
          /\ list' = [list EXCEPT ![h] = [ips |-> answer, recent |-> answer]]

Recheck(h) ==
    /\ list[h] # None
    /\ \E row \in ListRow :
          /\ \/ /\ row.ips = {} /\ {} \in Dns[h]
                /\ row.recent = list[h].recent
             \/ /\ row.ips \in Dns[h] /\ Global(row.ips)
                /\ row.ips \subseteq row.recent
                /\ row.recent \subseteq row.ips \cup list[h].recent
          /\ list' = [list EXCEPT ![h] = row]

Leave(h) ==
    /\ list[h] # None
    /\ list' = [list EXCEPT ![h] = None]

ListNext == \E h \in Hosts : Enter(h) \/ Recheck(h) \/ Leave(h)

ListSpec == ListInit /\ [][ListNext]_list
=============================================================================
