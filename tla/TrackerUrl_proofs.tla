-------------------------- MODULE TrackerUrl_proofs --------------------------
(***************************************************************************)
(* The URL of a listed tracker, for any records, services and ports and any *)
(* number of kills: that it was never made up, that an "up" is owed to it,  *)
(* and how often a recheck contacts the tracker.                            *)
(***************************************************************************)
EXTENDS TrackerUrl, TLAPS

Warranted(u) ==
    /\ Tcp(u.scheme) => \E v \in answered : v.scheme = u.scheme
    /\ u \in answered \/ \E r \in advertised : Advertises(r, u)

\* What is in hand is what its step needs.
HandInv ==
    /\ pc \in {"https", "http"} => pref \in Preferences
    /\ pc = "write" => outcome \in {"up", "down", "remove"}

\* The URL in hand is warranted like that of the row it may be written to.
WarrantInv ==
    /\ UrlWarranted
    /\ pc \notin {"idle", "dead"} => Warranted(url)

UpInv ==
    /\ UpAtItsUrl
    /\ pc = "write" /\ outcome = "up" => url \in answered

\* What was contacted before a step.
ContactInv ==
    /\ pc \in {"idle", "dead", "lookup", "https"} => contacts = <<>>
    /\ pc \in {"https", "http"} => url.scheme = "udp"
    /\ pc = "http" => /\ Len(contacts) = 1
                      /\ ~Full(contacts[1]) /\ contacts[1].url.scheme = "https"
    /\ pc \in {"resolve", "announce"} =>
          \/ contacts = <<>>
          \/ Len(contacts) = 1 /\ Full(contacts[1]) /\ contacts[1].url = url
          \/ /\ Len(contacts) = 2
             /\ ~Full(contacts[1]) /\ contacts[1].url.scheme = "https"
             /\ contacts[2].url.scheme = "http"
             /\ IF Full(contacts[2]) THEN contacts[2].url = url ELSE url.scheme = "udp"
    /\ pc = "write" => NoNeedlessContact

Inv == TypeOK /\ HandInv /\ WarrantInv /\ UpInv

-----------------------------------------------------------------------------

LEMMA UrlsTyped ==
    /\ \A u \in Served : u \in Url
    /\ \A r \in Preferences : r.port \in Ports /\ r.proto \in {"udp", "tcp"}
  BY UrlAssumption DEF Url, Ports, Served

LEMMA InvStart == Init => Inv /\ ContactInv
  <1> SUFFICES ASSUME Init PROVE Inv /\ ContactInv
    OBVIOUS
  <1> USE DEF Init
  <1>1. TypeOK
    BY UrlAssumption DEF TypeOK
  <1>2. HandInv /\ WarrantInv /\ UpInv /\ ContactInv
    BY DEF HandInv, WarrantInv, UpInv, ContactInv, UrlWarranted, UpAtItsUrl
  <1> QED
    BY <1>1, <1>2 DEF Inv

LEMMA InvStep == Inv /\ [Next]_vars => Inv'
  <1> SUFFICES ASSUME Inv, [Next]_vars
               PROVE  Inv'
    OBVIOUS
  <1> USE UrlAssumption, UrlsTyped
      DEF Inv, TypeOK, HandInv, WarrantInv, UpInv, UrlWarranted, UpAtItsUrl, Warranted,
          env, aux
  <1>1. CASE HostChanges
    BY <1>1 DEF HostChanges
  <1>2. CASE Submit
    <2>1. PICK u \in DOMAIN services : /\ record # None => Advertises(record, u)
                                       /\ row' = [url |-> u, status |-> "up"]
                                       /\ answered' = answered \cup {u}
      BY <1>2 DEF Submit
    <2>2. u \in Url
      BY <2>1 DEF Served
    <2> QED
      BY <1>2, <2>1, <2>2 DEF Submit
  <1>3. CASE Select
    BY <1>3 DEF Select
  <1>4. CASE RemoveSilent \/ NoRecord \/ HostDenies
    BY <1>4 DEF RemoveSilent, NoRecord, HostDenies
  <1>5. CASE PreferUdp
    <2>1. url' \in Url
      BY <1>5 DEF PreferUdp, Url
    <2> QED
      BY <1>5, <2>1 DEF PreferUdp, Advertises, Tcp
  <1>6. CASE PreferTcpPort
    <2>1. url' = [scheme |-> url.scheme, port |-> record.port]
      BY <1>6 DEF PreferTcpPort, Url
    <2>2. url' \in Url
      BY <1>6, <2>1 DEF PreferTcpPort, Url
    <2> QED
      BY <1>6, <2>1, <2>2 DEF PreferTcpPort, Advertises, Tcp
  <1>7. CASE PreferTcpScheme
    BY <1>7 DEF PreferTcpScheme
  <1>8. ASSUME NEW scheme \in {"https", "http"}, NEW otherwise \in {"http", "resolve"},
               Probe(scheme, otherwise)
        PROVE  Inv'
    <2> DEFINE u == [scheme |-> scheme, port |-> pref.port]
    <2>1. u \in Url
      BY <1>8 DEF Probe, Url
    <2>2. contacts' \in Seq([url : Url, outcome : Caught])
      BY <1>8, <2>1 DEF Probe, Contact
    <2>3. CASE WithInterval(u)
      BY <1>8, <2>1, <2>2, <2>3 DEF Probe
    <2>4. CASE ~WithInterval(u)
      BY <1>8, <2>1, <2>2, <2>4 DEF Probe
    <2> QED
      BY <2>3, <2>4
  <1>9. CASE Resolve
    BY <1>9 DEF Resolve
  <1>10. CASE Announce
    <2>1. contacts' \in Seq([url : Url, outcome : Caught])
      BY <1>10 DEF Announce, Contact
    <2> QED
      BY <1>10, <2>1 DEF Announce
  <1>11. CASE Raises
    BY <1>11 DEF Raises
  <1>12. CASE Write
    BY <1>12 DEF Write
  <1>13. CASE Restart
    BY <1>13 DEF Restart
  <1>14. CASE UNCHANGED vars
    BY <1>14 DEF vars
  <1> QED
    BY <1>1, <1>2, <1>3, <1>4, <1>5, <1>6, <1>7, <1>8, <1>9, <1>10, <1>11, <1>12, <1>13,
       <1>14
    DEF Next, UpdaterNext

LEMMA InvAlways == Spec => []Inv
  BY InvStart, InvStep, PTL DEF Spec

\* Only "no next state" lies outside the types of the variables.
THEOREM TypeCorrect == Spec => []TypeOK
  <1>1. Inv => TypeOK
    BY DEF Inv
  <1> QED
    BY <1>1, InvAlways, PTL

\* However the host changes its record and its services between the steps of a round,
\* a listed URL has a scheme that answered and a port that answered or was advertised.
THEOREM Warrant == Spec => []UrlWarranted
  <1>1. Inv => UrlWarranted
    BY DEF Inv, WarrantInv
  <1> QED
    BY <1>1, InvAlways, PTL

\* A row that says "up" has a URL that answered since the tracker was listed.
THEOREM UpIsOwed == Spec => []UpAtItsUrl
  <1>1. Inv => UpAtItsUrl
    BY DEF Inv, UpInv
  <1> QED
    BY <1>1, InvAlways, PTL

-----------------------------------------------------------------------------

LEMMA ContactFields ==
    ASSUME NEW c, NEW u, c = [url |-> u, outcome |-> Gives(u)]
    PROVE  c.url = u /\ (Full(c) <=> WithInterval(u))
  BY DEF Full, WithInterval

LEMMA ContactsFew == TypeOK /\ ContactInv => NoNeedlessContact
  <1> SUFFICES ASSUME TypeOK, ContactInv
               PROVE  NoNeedlessContact
    OBVIOUS
  <1>1. Len(contacts) \in Nat /\ DOMAIN contacts = 1..Len(contacts)
    BY DEF TypeOK
  <1>2. \/ pc = "write"
        \/ Len(contacts) <= 1
        \/ /\ Len(contacts) = 2
           /\ ~Full(contacts[1]) /\ contacts[1].url # contacts[2].url
    BY <1>1 DEF TypeOK, ContactInv
  <1> QED
    BY <1>1, <1>2 DEF ContactInv, NoNeedlessContact

LEMMA ContactStep == TypeOK /\ HandInv /\ ContactInv /\ [Next]_vars => ContactInv'
  <1> SUFFICES ASSUME TypeOK, HandInv, ContactInv, [Next]_vars
               PROVE  ContactInv'
    OBVIOUS
  <1> USE UrlAssumption DEF TypeOK, HandInv, ContactInv
  <1>1. CASE HostChanges \/ Submit \/ Select \/ NoRecord \/ UNCHANGED vars
    BY <1>1 DEF HostChanges, Submit, Select, NoRecord, vars, NoNeedlessContact
  <1>2. CASE RemoveSilent \/ HostDenies
    BY <1>2 DEF RemoveSilent, HostDenies, NoNeedlessContact
  <1>3. CASE PreferUdp \/ PreferTcpPort \/ PreferTcpScheme
    BY <1>3 DEF PreferUdp, PreferTcpPort, PreferTcpScheme
  <1>4. CASE Probe("https", "http")
    <2> DEFINE u == [scheme |-> "https", port |-> pref.port]
    <2>1. contacts' = <<[url |-> u, outcome |-> Gives(u)]>>
      BY <1>4 DEF Probe, Contact
    <2>2. Len(contacts') = 1 /\ contacts'[1] = [url |-> u, outcome |-> Gives(u)]
      BY <2>1
    <2>3. contacts'[1].url = u /\ (Full(contacts'[1]) <=> WithInterval(u))
      BY <2>2, ContactFields
    <2>4. u.scheme = "https" /\ url.scheme = "udp"
      BY <1>4 DEF Probe
    <2> QED
      BY <1>4, <2>2, <2>3, <2>4 DEF Probe
  <1>5. CASE Probe("http", "resolve")
    <2> DEFINE u == [scheme |-> "http", port |-> pref.port]
    <2>1. /\ Len(contacts') = Len(contacts) + 1
          /\ \A i \in 1..Len(contacts) : contacts'[i] = contacts[i]
          /\ contacts'[Len(contacts) + 1] = [url |-> u, outcome |-> Gives(u)]
      BY <1>5 DEF Probe, Contact
    <2>2. Len(contacts) = 1 /\ contacts[1].url.scheme = "https" /\ ~Full(contacts[1])
      BY <1>5 DEF Probe
    <2>3. /\ Len(contacts') = 2 /\ contacts'[1] = contacts[1]
          /\ contacts'[2] = [url |-> u, outcome |-> Gives(u)]
      BY <2>1, <2>2
    <2>4. contacts'[2].url = u /\ u.scheme = "http"
      BY <2>3
    <2>5. Full(contacts'[2]) <=> WithInterval(u)
      BY <2>3, ContactFields
    <2>6. IF WithInterval(u) THEN url' = u ELSE url'.scheme = "udp"
      BY <1>5 DEF Probe
    <2>7. pc' = "resolve"
      BY <1>5 DEF Probe
    <2> QED
      BY <2>2, <2>3, <2>4, <2>5, <2>6, <2>7
  <1>6. CASE Resolve
    <2>1. NoNeedlessContact
      BY ContactsFew
    <2>2. NoNeedlessContact'
      BY <1>6, <2>1 DEF Resolve, NoNeedlessContact
    <2> QED
      BY <1>6, <2>2 DEF Resolve
  <1>7. CASE Announce
    <2>1. /\ Len(contacts') = Len(contacts) + 1
          /\ \A i \in 1..Len(contacts) : contacts'[i] = contacts[i]
          /\ contacts'[Len(contacts) + 1] = [url |-> url, outcome |-> Gives(url)]
          /\ DOMAIN contacts' = 1..Len(contacts) + 1
      BY <1>7 DEF Announce, Contact
    <2>2. NoNeedlessContact'
      BY <1>7, <2>1 DEF Announce, NoNeedlessContact
    <2> QED
      BY <1>7, <2>2 DEF Announce
  <1>8. CASE Raises \/ Write \/ Restart
    BY <1>8 DEF Raises, Write, Restart
  <1> QED
    BY <1>1, <1>2, <1>3, <1>4, <1>5, <1>6, <1>7, <1>8 DEF Next, UpdaterNext

\* A recheck contacts a tracker at most three times, no URL again but the one that has
\* just answered with an interval, and no other URL after that one; whatever answers
\* without an interval, raises or is changed in between.
THEOREM FewContacts == Spec => []NoNeedlessContact
  <1>1. TypeOK /\ ContactInv => NoNeedlessContact
    BY ContactsFew
  <1>2. Inv => TypeOK /\ HandInv
    BY DEF Inv
  <1> QED
    BY <1>1, <1>2, InvStart, ContactStep, InvAlways, PTL DEF Spec
=============================================================================
