----------------------------- MODULE TrackerUrl -----------------------------
(***************************************************************************)
(* The URL of a listed tracker, from round to round of the updater, while   *)
(* its host changes its BEP34 record and the services it runs: the part of  *)
(* Tracker.update_status that TrackerLife.tla leaves out.                   *)
(*                                                                          *)
(* update_scheme_from_bep_34 rewrites the URL as the first preference says, *)
(* probing HTTPS and HTTP where the scheme is not settled by the record;    *)
(* the announce then goes to the URL it left. Other trackers, lookups and   *)
(* announces take their time: record and services may change at each step.  *)
(* A probe or an announce has one of the outcomes of AnnounceOutcome.tla.   *)
(***************************************************************************)
EXTENDS Naturals, Sequences, FiniteSets

CONSTANTS
    Records,       \* what the TXT lookup may give: None, Deny, or a first preference
    Services,      \* what may be running: URLs, and the outcome of an announce to each
    MaxPort,       \* 65535
    MaxCrashes,    \* bound on the kills, for TLC
    None, Deny

Preferences == Records \ {None, Deny}

Served == UNION {DOMAIN s : s \in Services}

Ports == {u.port : u \in Served} \cup {r.port : r \in Preferences}
Url   == [scheme : {"udp", "http", "https"}, port : Ports]

\* attempt_udp, attempt_httpx and update_status catch a RuntimeError alone.
Caught   == {"answer with interval", "answer", "RuntimeError"}
Uncaught == {"ValueError", "other exception"}

ASSUME UrlAssumption ==
    /\ Preferences \subseteq [proto : {"udp", "tcp"}, port : Nat]
    /\ Served \subseteq [scheme : {"udp", "http", "https"}, port : 0..MaxPort]
    /\ \A s \in Services : \A u \in DOMAIN s : s[u] \in Caught \cup Uncaught
    /\ MaxPort \in Nat /\ MaxCrashes \in Nat
    /\ None \notin Url

VARIABLES
    record, services,   \* the host, as it is now
    row,                \* of the table: url and status
    pc,                 \* where update_status is
    url, pref,          \* the URL of the Tracker in hand, and the preference found
    outcome,            \* what to write: the status, or "remove"
    contacts,           \* the announces of this round: to which URL, with what outcome
    answered,           \* auxiliary: the URLs whose answer was acted on, and
    advertised,         \* the preferences acted on, since the tracker was listed
    crashes

env  == <<record, services>>
aux  == <<answered, advertised>>
vars == <<record, services, row, pc, url, pref, outcome, contacts, answered,
          advertised, crashes>>

TypeOK ==
    /\ record \in Records /\ services \in Services
    /\ row \in [url : Url, status : {"up", "down"}] \cup {None}
    /\ pc \in {"idle", "lookup", "https", "http", "resolve", "announce", "write", "dead"}
    /\ url \in Url \cup {None} /\ (url = None <=> pc \in {"idle", "dead"})
    /\ pref \in Preferences \cup {None}
    /\ outcome \in {"up", "down", "remove", None}
    /\ contacts \in Seq([url : Url, outcome : Caught])
    /\ answered \subseteq Url /\ advertised \subseteq Preferences
    /\ crashes \in 0..MaxCrashes

Init ==
    /\ record \in Records /\ services \in Services
    /\ row = None
    /\ pc = "idle" /\ url = None /\ pref = None /\ outcome = None
    /\ contacts = <<>>
    /\ answered = {} /\ advertised = {}
    /\ crashes = 0

-----------------------------------------------------------------------------
(* The host. *)

HostChanges ==
    /\ \/ record' \in Records \ {record} /\ UNCHANGED services
       \/ services' \in Services \ {services} /\ UNCHANGED record
    /\ UNCHANGED <<row, pc, url, pref, outcome, contacts, aux, crashes>>

ParsedPort(u) == u.port <= MaxPort    \* else .port raises ValueError

Tcp(scheme) == scheme \in {"http", "https"}

Advertises(r, u) ==
    /\ r.port = u.port
    /\ r.proto = "udp" <=> u.scheme = "udp"

\* Nothing runs at a URL that is not served.
Gives(u) == IF u \in DOMAIN services THEN services[u] ELSE "RuntimeError"

WithInterval(u) == Gives(u) = "answer with interval"
Responds(u)     == Gives(u) \in {"answer with interval", "answer"}

\* attempt_submitted found a URL that answers with an interval, as the record
\* allows, and process_new_tracker inserted the tracker with it.
Submit ==
    /\ row = None /\ pc = "idle"
    /\ record # Deny
    /\ \E u \in DOMAIN services :
          /\ WithInterval(u)
          /\ record # None => Advertises(record, u)
          /\ row' = [url |-> u, status |-> "up"]
          /\ answered' = answered \cup {u}
    /\ advertised' = advertised \cup ({record} \cap Preferences)
    /\ UNCHANGED <<env, pc, url, pref, outcome, contacts, crashes>>

-----------------------------------------------------------------------------
(* update_status, on a row whose interval has passed. *)

Select ==
    /\ pc = "idle" /\ row # None
    /\ pc' = "lookup" /\ url' = row.url
    /\ UNCHANGED <<env, row, pref, outcome, contacts, aux, crashes>>

\* No answer for max_downtime: the tracker is removed before anything else.
RemoveSilent ==
    /\ pc = "lookup" /\ row.status = "down"
    /\ pc' = "write" /\ outcome' = "remove"
    /\ UNCHANGED <<env, row, url, pref, contacts, aux, crashes>>

NoRecord ==
    /\ pc = "lookup" /\ record = None
    /\ pc' = "resolve"
    /\ UNCHANGED <<env, row, url, pref, outcome, contacts, aux, crashes>>

HostDenies ==
    /\ pc = "lookup" /\ record = Deny
    /\ pc' = "write" /\ outcome' = "remove"
    /\ UNCHANGED <<env, row, url, pref, contacts, aux, crashes>>

\* Mutant of PreferUdp: an unchanged port settles it.
PreferUdpByPort ==
    /\ pc = "lookup" /\ record \in Preferences /\ record.proto = "udp"
    /\ url.scheme = "udp" => ParsedPort(url)
    /\ url' = IF url.port = record.port THEN url
              ELSE [scheme |-> "udp", port |-> record.port]
    /\ advertised' = advertised \cup {record}
    /\ pc' = "resolve"
    /\ UNCHANGED <<env, row, pref, outcome, contacts, answered, crashes>>

\* A preference for UDP is taken as it is. The port of the URL is looked at only
\* if its scheme is UDP already.
PreferUdp ==
    /\ pc = "lookup" /\ record \in Preferences /\ record.proto = "udp"
    /\ url.scheme = "udp" => ParsedPort(url)
    /\ url' = [scheme |-> "udp", port |-> record.port]
    /\ advertised' = advertised \cup {record}
    /\ pc' = "resolve"
    /\ UNCHANGED <<env, row, pref, outcome, contacts, answered, crashes>>

\* A preference for TCP moves an HTTP(S) URL to its port, unprobed.
PreferTcpPort ==
    /\ pc = "lookup" /\ record \in Preferences /\ record.proto = "tcp"
    /\ Tcp(url.scheme) /\ ParsedPort(url)
    /\ url' = [url EXCEPT !.port = record.port]
    /\ advertised' = advertised \cup {record}
    /\ pc' = "resolve"
    /\ UNCHANGED <<env, row, pref, outcome, contacts, answered, crashes>>

\* For a UDP URL, HTTPS and then HTTP are probed on its port.
PreferTcpScheme ==
    /\ pc = "lookup" /\ record \in Preferences /\ record.proto = "tcp"
    /\ url.scheme = "udp" /\ ParsedPort(record)
    /\ pref' = record
    /\ pc' = "https"
    /\ UNCHANGED <<env, row, url, outcome, contacts, aux, crashes>>

\* What .port does not parse is the port of the URL listed, or of the preference,
\* when build_httpx_url makes a URL of it to probe.
PortRaises ==
    /\ pc = "lookup" /\ record \in Preferences
    /\ \/ ~ParsedPort(url) /\ (record.proto = "udp" <=> url.scheme = "udp")
       \/ ~ParsedPort(record) /\ record.proto = "tcp" /\ url.scheme = "udp"

Contact(u) ==
    /\ Gives(u) \in Caught
    /\ contacts' = Append(contacts, [url |-> u, outcome |-> Gives(u)])

\* Mutant of Probe: an answer to HTTPS does not end the search.
ProbeBoth(scheme, otherwise) ==
    LET u == [scheme |-> scheme, port |-> pref.port] IN
    /\ pc = scheme
    /\ Contact(u)
    /\ IF WithInterval(u)
       THEN /\ url' = u
            /\ answered' = answered \cup {u} /\ advertised' = advertised \cup {pref}
       ELSE UNCHANGED <<url, aux>>
    /\ pc' = otherwise
    /\ UNCHANGED <<env, row, pref, outcome, crashes>>

\* Mutant of Probe: the last scheme tried is taken if none answers.
ProbeOptimistic(scheme, otherwise) ==
    LET u == [scheme |-> scheme, port |-> pref.port] IN
    /\ pc = scheme
    /\ Contact(u)
    /\ IF WithInterval(u)
       THEN /\ url' = u /\ pc' = "resolve"
            /\ answered' = answered \cup {u} /\ advertised' = advertised \cup {pref}
       ELSE /\ url' = IF scheme = "http" THEN u ELSE url
            /\ pc' = otherwise /\ UNCHANGED aux
    /\ UNCHANGED <<env, row, pref, outcome, crashes>>

\* One attempt_httpx of attempt_https_http: the URL is switched to the one that
\* answers with an interval, and kept if none does. An answer without one counts
\* for nothing here.
Probe(scheme, otherwise) ==
    LET u == [scheme |-> scheme, port |-> pref.port] IN
    /\ pc = scheme
    /\ Contact(u)
    /\ IF WithInterval(u)
       THEN /\ url' = u /\ pc' = "resolve"
            /\ answered' = answered \cup {u} /\ advertised' = advertised \cup {pref}
       ELSE pc' = otherwise /\ UNCHANGED <<url, aux>>
    /\ UNCHANGED <<env, row, pref, outcome, crashes>>

\* update_ips: the name resolves, or it does not and the tracker is down, or to an
\* address that is not global and the tracker is removed.
Resolve ==
    /\ pc = "resolve"
    /\ \/ pc' = "announce" /\ UNCHANGED outcome
       \/ pc' = "write" /\ outcome' \in {"down", "remove"}
    /\ UNCHANGED <<env, row, url, pref, contacts, aux, crashes>>

\* Mutant of Announce: it goes to the URL the round began with.
AnnounceListed ==
    /\ pc = "announce"
    /\ ParsedPort(url) \/ Tcp(url.scheme)
    /\ Contact(row.url)
    /\ outcome' = IF Responds(row.url) THEN "up" ELSE "down"
    /\ answered' = answered \cup {u \in {row.url} : Responds(u)}
    /\ pc' = "write"
    /\ UNCHANGED <<env, row, url, pref, advertised, crashes>>

\* The announce; any response will do. Requests refuses a port no URL can have like
\* any URL it cannot use: the tracker is down.
Announce ==
    /\ pc = "announce"
    /\ ParsedPort(url) \/ Tcp(url.scheme)
    /\ Contact(url)
    /\ outcome' = IF Responds(url) THEN "up" ELSE "down"
    /\ answered' = answered \cup {u \in {url} : Responds(u)}
    /\ pc' = "write"
    /\ UNCHANGED <<env, row, url, pref, advertised, crashes>>

\* announce_udp reads .port of the URL.
AnnounceRaises == pc = "announce" /\ ~ParsedPort(url) /\ ~Tcp(url.scheme)

\* What announce_http or announce_udp makes of a response may be an exception no
\* caller has a handler for.
ResponseRaises ==
    \/ pc \in {"https", "http"} /\ Gives([scheme |-> pc, port |-> pref.port]) \in Uncaught
    \/ pc = "announce" /\ Gives(url) \in Uncaught

\* What is no RuntimeError ends the updater in update_status. Nothing is written.
Raises ==
    /\ PortRaises \/ AnnounceRaises \/ ResponseRaises
    /\ pc' = "dead" /\ url' = None
    /\ pref' = None /\ outcome' = None /\ contacts' = <<>>
    /\ UNCHANGED <<env, row, aux, crashes>>

\* Mutant of Write: the URL stays in hand.
WriteKeptUrl ==
    /\ pc = "write"
    /\ IF outcome = "remove"
       THEN row' = None /\ answered' = {} /\ advertised' = {}
       ELSE row' = [url |-> url, status |-> outcome] /\ UNCHANGED aux
    /\ pc' = "idle"
    /\ pref' = None /\ outcome' = None /\ contacts' = <<>>
    /\ UNCHANGED <<env, url, crashes>>

\* update_tracker or delete_tracker
Write ==
    /\ pc = "write"
    /\ IF outcome = "remove"
       THEN row' = None /\ answered' = {} /\ advertised' = {}
       ELSE row' = [url |-> url, status |-> outcome] /\ UNCHANGED aux
    /\ pc' = "idle" /\ url' = None
    /\ pref' = None /\ outcome' = None /\ contacts' = <<>>
    /\ UNCHANGED <<env, crashes>>

\* Killed and started again; or started again because the updater has ended.
Restart ==
    /\ \/ pc = "dead" /\ UNCHANGED crashes
       \/ pc \notin {"idle", "dead"} /\ crashes < MaxCrashes /\ crashes' = crashes + 1
    /\ pc' = "idle" /\ url' = None /\ pref' = None /\ outcome' = None
    /\ contacts' = <<>>
    /\ UNCHANGED <<env, row, aux>>

UpdaterNext ==
    \/ Select \/ RemoveSilent
    \/ NoRecord \/ HostDenies \/ PreferUdp \/ PreferTcpPort \/ PreferTcpScheme
    \/ Probe("https", "http") \/ Probe("http", "resolve") \/ Resolve
    \/ Announce \/ Raises \/ Write

Next == HostChanges \/ Submit \/ UpdaterNext \/ Restart

Spec == Init /\ [][Next]_vars

\* The updater runs on, as long as there is one: nothing starts it again, and a
\* restart of the program need not happen.
FairSpec == Spec /\ WF_vars(UpdaterNext)

-----------------------------------------------------------------------------
(* Safety *)

\* The URL a row has was not made up: an HTTP(S) scheme is one an answer came on,
\* and the port is one that answered or was advertised for the protocol; whatever
\* the host changed between two steps, and whenever the program was killed
\* (tracker.py:166-206).
UrlWarranted ==
    row # None =>
      /\ Tcp(row.url.scheme) => \E u \in answered : u.scheme = row.url.scheme
      /\ \/ row.url \in answered
         \/ \E r \in advertised : Advertises(r, row.url)

\* A row is up on the strength of an answer to the URL it has: a tracker listed as
\* working works at the address that is published (tracker.py:119-149).
UpAtItsUrl == row # None /\ row.status = "up" => row.url \in answered

Full(contact) == contact.outcome = "answer with interval"

\* What a recheck costs the tracker: three contacts at most, no other URL after one
\* that answered with an interval, and no URL twice, but for the one a probe makes
\* it switch to: that is announced to again at once, interval or not, which is one
\* contact more than it takes. An answer without an interval stops no probe
\* (tracker.py:131, 202-206; scraper.py:145-159).
NoNeedlessContact ==
    /\ Len(contacts) <= 3
    /\ \A i, j \in DOMAIN contacts :
          i < j /\ (Full(contacts[i]) \/ contacts[i].url = contacts[j].url) =>
            /\ Full(contacts[i]) /\ contacts[i].url = contacts[j].url
            /\ j = Len(contacts) /\ j = i + 1

-----------------------------------------------------------------------------
(* Liveness *)

\* In the end the host advertises r, one service answers if that is over TCP, and
\* no response is one that ends the updater.
Settled(r, scheme) ==
    <>[](/\ record = r
         /\ r.proto = "tcp" => WithInterval([scheme |-> scheme, port |-> r.port])
         /\ \A u \in DOMAIN services : Gives(u) \in Caught)

\* Once the host has settled, its row follows the record, whatever the host said
\* and did before, as long as it only ever advertised ports there are, or else a
\* response from before has ended the updater and nobody starts the program again
\* (tracker.py:166-206, trackon.py:40).
RecordFollowed ==
    [](record \in Preferences => ParsedPort(record)) =>
      \A r \in Preferences, scheme \in {"http", "https"} :
        ParsedPort(r) /\ Settled(r, scheme) =>
          \/ <>[](row # None => Advertises(r, row.url))
          \/ <>[](pc = "dead")

-----------------------------------------------------------------------------
(* What the documentation says, and the code does not do. *)

\* tpl/static/faq.jinja:29-30 "You can use BEP34 to delete your tracker from
\* newTrackon, or change the port and protocol": a round that finds the record of
\* a listed tracker to name a port there is can use it.
RecordUsable ==
    [][pc = "lookup" /\ record \in Preferences /\ ParsedPort(record) => pc' # "dead"]_vars
=============================================================================
