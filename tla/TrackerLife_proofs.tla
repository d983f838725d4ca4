------------------------- MODULE TrackerLife_proofs -------------------------
(***************************************************************************)
(* A tracker's life, for any addresses, intervals, windows and lengths of   *)
(* history and of time: its row tells what happened to it, recent_ips tells *)
(* what its name resolved to, and no visit to it begins too early.         *)
(*                                                                          *)
(* The Tracker object is followed from the lookup to the write: what is      *)
(* written is the row before it and the visit, whatever was killed between. *)
(* So a step either leaves row and past alone, ends the life, or adds one   *)
(* visit to both; the parts after the first two take one invariant each     *)
(* through such steps.                                                      *)
(***************************************************************************)
EXTENDS TrackerLife, SequenceTheorems, FiniteSetTheorems, TLAPS

-----------------------------------------------------------------------------
(* The methods of Tracker. *)

Bounds ==
    /\ HistMax \in Nat /\ HistMax >= 1 /\ MaxTime \in Nat /\ Window \in Nat
    /\ DefaultInterval \in Nat
    /\ Asked \subseteq Int /\ None \notin Int /\ None \notin Row /\ None \notin Visit

LEMMA BoundsHold == Bounds
  BY LifeAssumption DEF Bounds

LEMMA Typed ==
    ASSUME TypeOK
    PROVE  /\ now \in 0..MaxTime
           /\ row \in Row \cup {None} /\ (row # None => Len(row.historic) \in 1..HistMax)
           /\ past \in Seq(Visit)
  BY Zenon DEF TypeOK

LEMMA UptimeTyped ==
    ASSUME NEW h \in Seq(0..1), Len(h) <= HistMax
    PROVE  UptimeOf(h) \in [up : 0..HistMax, of : 0..HistMax]
  <1> DEFINE ups == {i \in DOMAIN h : h[i] = 1}
  <1>1. DOMAIN h = 1..Len(h) /\ Len(h) \in Nat
    OBVIOUS
  <1>2. IsFiniteSet(1..Len(h)) /\ Cardinality(1..Len(h)) = Len(h)
    <2>1. Len(h) \in Int /\ 1 \in Int
      BY <1>1
    <2>2. /\ IsFiniteSet(1..Len(h))
          /\ Cardinality(1..Len(h)) = IF 1 > Len(h) THEN 0 ELSE Len(h) - 1 + 1
      BY <2>1, FS_Interval
    <2> QED
      BY <1>1, <2>2
  <1>3. ups \subseteq 1..Len(h)
    BY <1>1
  <1>4. Cardinality(ups) \in Nat /\ Cardinality(ups) <= Len(h)
    BY <1>2, <1>3, FS_Subset, FS_CardinalityType
  <1> QED
    BY <1>1, <1>4, BoundsHold DEF UptimeOf, Bounds

\* What a push leaves of the history before.
LEMMA PushOf ==
    ASSUME NEW h \in Seq(0..1), Len(h) <= HistMax, NEW s \in 0..1
    PROVE  /\ Push(h, s) \in Seq(0..1)
           /\ Len(Push(h, s)) = IF Len(h) < HistMax THEN Len(h) + 1 ELSE HistMax
           /\ Push(h, s)[Len(Push(h, s))] = s
           /\ \A k \in 1..Len(Push(h, s)) - 1 :
                 Push(h, s)[k] = h[k + (Len(h) + 1 - Len(Push(h, s)))]
  <1> USE BoundsHold DEF Bounds
  <1>1. CASE Len(h) < HistMax
    <2>1. Push(h, s) = Append(h, s)
      BY <1>1 DEF Push
    <2> QED
      BY <1>1, <2>1
  <1>2. CASE ~(Len(h) < HistMax)
    <2>1. Push(h, s) = Append(Tail(h), s)
      BY <1>2 DEF Push
    <2>2. h # <<>> /\ Len(h) = HistMax
      BY <1>2
    <2>3. /\ Tail(h) \in Seq(0..1) /\ Len(Tail(h)) = Len(h) - 1
          /\ \A k \in 1..Len(h) - 1 : Tail(h)[k] = h[k + 1]
      BY <2>2
    <2> QED
      BY <2>1, <2>2, <2>3
  <1> QED
    BY <1>1, <1>2

\* RefreshRecentIps at time t.
Refreshed(t, recent, ips) ==
    LET stamped == [ip \in IPs |-> IF ip \in ips THEN t ELSE recent[ip]] IN
    [ip \in IPs |-> IF stamped[ip] # None /\ t - stamped[ip] <= Window
                    THEN stamped[ip] ELSE None]

LEMMA StampsTyped ==
    ASSUME TypeOK, NEW recent \in Stamps, NEW ips \in SUBSET IPs
    PROVE  /\ RefreshRecentIps(recent, ips) \in Stamps
           /\ RefreshRecentIps(recent, ips) = Refreshed(now, recent, ips)
  BY BoundsHold DEF Bounds, TypeOK, Stamps, RefreshRecentIps, Refreshed

\* s is the row r when the attempt has been counted.
CountedAs(kind, r, s) ==
    /\ s \in Row
    /\ s.ips = r.ips /\ s.added = r.added /\ s.recent = r.recent
    /\ s.historic = Push(r.historic, IF kind = "up" THEN 1 ELSE 0)
    /\ s.uptime = UptimeOf(s.historic)
    /\ s.status = IF kind = "up" THEN 1 ELSE 0
    /\ s.lastUp = IF kind = "up" THEN now ELSE r.lastUp
    /\ s.lastDown = IF kind = "up" THEN r.lastDown ELSE now
    /\ s.lastChecked = r.lastChecked
    /\ s.interval \in {r.interval, DefaultInterval}

\* s is r but for interval and uptime.
Agrees(s, r) ==
    /\ s \in Row
    /\ s.ips = r.ips /\ s.added = r.added /\ s.recent = r.recent
    /\ s.historic = r.historic /\ s.status = r.status
    /\ s.lastUp = r.lastUp /\ s.lastDown = r.lastDown /\ s.lastChecked = r.lastChecked

LEMMA ResetOf ==
    ASSUME NEW r \in Row
    PROVE  /\ Agrees(ResetInterval(r), r) /\ ResetInterval(r).uptime = r.uptime
           /\ ResetInterval(r).interval \in {r.interval, DefaultInterval}
  BY DEF Agrees, ResetInterval, Row

LEMMA MeasureOf ==
    ASSUME NEW r \in Row, Len(r.historic) <= HistMax
    PROVE  /\ Agrees(UpdateUptime(r), r) /\ UpdateUptime(r).uptime = UptimeOf(r.historic)
           /\ UpdateUptime(r).interval = r.interval
  <1>1. UptimeOf(r.historic) \in [up : 0..HistMax, of : 0..HistMax]
    BY UptimeTyped DEF Row
  <1> QED
    BY <1>1 DEF Agrees, UpdateUptime, Row

\* Resetting the interval and measuring the uptime, in either order.
LEMMA ConcludeOf ==
    ASSUME NEW r \in Row, Len(r.historic) <= HistMax,
           NEW s, s = Conclude(r) \/ s = ResetInterval(UpdateUptime(r))
    PROVE  /\ Agrees(s, r) /\ s.uptime = UptimeOf(r.historic)
           /\ s.interval \in {r.interval, DefaultInterval}
  <1>1. CASE s = Conclude(r)
    <2> DEFINE q == ResetInterval(r)
    <2>1. Agrees(q, r) /\ q.interval \in {r.interval, DefaultInterval}
      BY ResetOf
    <2>2. q \in Row /\ Len(q.historic) <= HistMax
      BY <2>1 DEF Agrees
    <2>3. Agrees(s, q) /\ s.uptime = UptimeOf(q.historic) /\ s.interval = q.interval
      BY <1>1, <2>2, MeasureOf DEF Conclude
    <2> QED
      BY <2>1, <2>3 DEF Agrees
  <1>2. CASE s = ResetInterval(UpdateUptime(r))
    <2> DEFINE q == UpdateUptime(r)
    <2>1. Agrees(q, r) /\ q.uptime = UptimeOf(r.historic) /\ q.interval = r.interval
      BY MeasureOf
    <2>2. q \in Row
      BY <2>1 DEF Agrees
    <2>3. Agrees(s, q) /\ s.uptime = q.uptime /\ s.interval \in {q.interval, DefaultInterval}
      BY <1>2, <2>2, ResetOf
    <2> QED
      BY <2>1, <2>3 DEF Agrees
  <1> QED
    BY <1>1, <1>2

LEMMA CountUp ==
    ASSUME TypeOK, NEW r \in Row, Len(r.historic) <= HistMax, NEW s, s = Conclude(IsUp(r))
    PROVE  CountedAs("up", r, s)
  <1> DEFINE h == Push(r.historic, 1)
             u == IsUp(r)
  <1>1. h \in Seq(0..1) /\ Len(h) <= HistMax
    BY PushOf, BoundsHold DEF Row, Bounds
  <1> HIDE DEF h
  <1>2. u = [r EXCEPT !.status = 1, !.lastUp = now, !.historic = h]
    BY DEF IsUp, h, Row
  <1>3. now \in 0..MaxTime /\ 0 \in 0..1 /\ 1 \in 0..1
    BY Typed
  <1>4. /\ u \in Row /\ u.historic = h /\ u.status = 1
        /\ u.ips = r.ips /\ u.added = r.added /\ u.recent = r.recent
        /\ u.lastUp = now /\ u.lastDown = r.lastDown
        /\ u.lastChecked = r.lastChecked /\ u.interval = r.interval
    BY <1>1, <1>2, <1>3 DEF Row
  <1>5. /\ Agrees(s, u) /\ s.uptime = UptimeOf(h)
        /\ s.interval \in {r.interval, DefaultInterval}
    BY <1>1, <1>4, ConcludeOf
  <1> QED
    BY <1>4, <1>5 DEF CountedAs, Agrees, h

LEMMA CountDown ==
    ASSUME TypeOK, NEW r \in Row, Len(r.historic) <= HistMax,
           NEW s,
           s = Conclude(IsDown(r)) \/ s = ResetInterval(UpdateUptime(IsDown(r)))
    PROVE  CountedAs("down", r, s)
  <1> DEFINE h == Push(r.historic, 0)
             d == IsDown(r)
  <1>1. h \in Seq(0..1) /\ Len(h) <= HistMax
    BY PushOf, BoundsHold DEF Row, Bounds
  <1> HIDE DEF h
  <1>2. d = [r EXCEPT !.status = 0, !.lastDown = now, !.historic = h]
    BY DEF IsDown, h, Row
  <1>3. now \in 0..MaxTime /\ 0 \in 0..1 /\ 1 \in 0..1
    BY Typed
  <1>4. /\ d \in Row /\ d.historic = h /\ d.status = 0
        /\ d.ips = r.ips /\ d.added = r.added /\ d.recent = r.recent
        /\ d.lastUp = r.lastUp /\ d.lastDown = now
        /\ d.lastChecked = r.lastChecked /\ d.interval = r.interval
    BY <1>1, <1>2, <1>3 DEF Row
  <1>5. /\ Agrees(s, d) /\ s.uptime = UptimeOf(h)
        /\ s.interval \in {r.interval, DefaultInterval}
    BY <1>1, <1>4, ConcludeOf
  <1> QED
    BY <1>4, <1>5 DEF CountedAs, Agrees, h

-----------------------------------------------------------------------------
(* The shape of a life. *)

Waiting == pc \in {"queued", "trying", "answered"}

PastInv ==
    /\ Waiting => row = None /\ Len(past) = 1
    /\ ~Waiting /\ row = None => past = <<>>
    /\ row # None => Len(past) >= 2 /\ past[2].kind = "listed" /\ past[2].asked \in Int
    /\ past # <<>> => past[1].kind = "submitted"
    /\ \A i \in 3..Len(past) : past[i].kind \in {"up", "down", "unresolved"}
    /\ \A i \in 1..Len(past) : past[i].from <= past[i].at /\ past[i].at <= now
    /\ \A i, j \in 1..Len(past) : i < j => past[i].at <= past[j].from

-----------------------------------------------------------------------------
(* The Tracker object in hand. *)

\* v is a visit like those of the past, after all of them.
Follows(v) ==
    /\ v \in Visit /\ v.from <= v.at /\ v.at <= now
    /\ \A i \in 1..Len(past) : past[i].at <= v.from

\* The interval of the row has passed when v begins.
Due(v) == row \in Row /\ v.from - row.lastChecked > row.interval

\* h is the row r looked up by the visit v.
LookedUp(r, h, v) ==
    /\ h \in Row
    /\ h.ips = v.ips /\ h.added = r.added
    /\ h.recent = Refreshed(v.from, r.recent, v.ips)
    /\ h.historic = r.historic
    /\ h.lastUp = r.lastUp /\ h.lastDown = r.lastDown
    /\ h.interval = r.interval

\* s is the row r after the visit v.
VisitedAs(r, s, v) ==
    LET up == v.kind = "up" IN
    /\ v.kind \in {"up", "down", "unresolved"}
    /\ s \in Row
    /\ s.ips = v.ips /\ s.added = r.added
    /\ s.recent = IF v.kind = "unresolved" THEN r.recent
                  ELSE Refreshed(v.from, r.recent, v.ips)
    /\ s.historic = Push(r.historic, IF up THEN 1 ELSE 0)
    /\ s.uptime = UptimeOf(s.historic)
    /\ s.status = IF up THEN 1 ELSE 0
    /\ s.lastUp = IF up THEN v.done ELSE r.lastUp
    /\ s.lastDown = IF up THEN r.lastDown ELSE v.done
    /\ s.lastChecked = v.at
    /\ s.interval \in {IF v.asked = None THEN r.interval ELSE v.asked, DefaultInterval}

Unlisted == row = None /\ hand \in Row /\ hand.historic = <<>>

Tried == Follows(visit) /\ visit.kind = "listed" /\ hand.lastChecked = visit.at

Sought ==
    /\ Follows(visit) /\ Due(visit) /\ LookedUp(row, hand, visit)
    /\ visit.kind = "down" /\ visit.asked = None

HandInv ==
    /\ pc = "idle" => hand = None /\ visit = None
    /\ pc = "queued" => Unlisted /\ visit = None
    /\ pc = "trying" => Unlisted /\ Tried
    /\ pc = "answered" =>
          Unlisted /\ Tried /\ visit.asked \in Asked /\ hand.interval = visit.asked
    /\ pc = "selected" =>
          /\ row \in Row /\ hand = row /\ visit = None
          /\ now - row.lastChecked > row.interval
    /\ pc = "looked up" => Sought
    /\ pc = "announcing" => Sought /\ hand.lastChecked = visit.at
    /\ pc = "updated" => Follows(visit) /\ Due(visit) /\ VisitedAs(row, hand, visit)

LEMMA Times ==
    ASSUME TypeOK
    PROVE  /\ now \in Int /\ now >= 0 /\ now <= MaxTime
           /\ row # None => row \in Row /\ row.lastChecked \in Int /\ row.interval \in Int
           /\ Len(past) \in Nat /\ \A i \in 1..Len(past) : past[i] \in Visit
           /\ \A v \in Visit : v.from \in Int /\ v.at \in Int
  <1> USE BoundsHold DEF Bounds
  <1>1. now \in Int /\ now >= 0 /\ now <= MaxTime
    BY Typed
  <1>2. row # None => row \in Row
    BY Typed
  <1>3. ASSUME row \in Row
        PROVE  row.lastChecked \in Int /\ row.interval \in Int
    <2>1. row.lastChecked \in 0..MaxTime /\ row.interval \in Asked \cup {DefaultInterval}
      BY <1>3 DEF Row
    <2>2. Asked \cup {DefaultInterval} \subseteq Int
      OBVIOUS
    <2>3. row.lastChecked \in Int
      BY <2>1
    <2> QED
      BY <2>1, <2>2, <2>3
  <1>4. past \in Seq(Visit)
    BY DEF TypeOK
  <1>5. \A v \in Visit : v.from \in Int /\ v.at \in Int
    BY DEF Visit
  <1> QED
    BY <1>1, <1>2, <1>3, <1>4, <1>5

LEMMA BegunTyped ==
    ASSUME TypeOK, NEW kind \in {"submitted", "listed", "up", "down", "unresolved"},
           NEW ips \in SUBSET IPs
    PROVE  /\ Begun(kind, ips) \in Visit
           /\ Begun(kind, ips).from = now /\ Begun(kind, ips).at = now
           /\ Begun(kind, ips).done = now /\ Begun(kind, ips).kind = kind
           /\ Begun(kind, ips).ips = ips /\ Begun(kind, ips).asked = None
  BY DEF TypeOK, Begun, Visit

\* A visit that begins now follows all of the past.
LEMMA BegunFollows ==
    ASSUME TypeOK, PastInv, NEW kind \in {"listed", "down", "unresolved"},
           NEW ips \in SUBSET IPs
    PROVE  Follows(Begun(kind, ips))
  BY BegunTyped, Times DEF Follows, PastInv

\* An older one still does when time has passed.
LEMMA StillFollows ==
    ASSUME TypeOK, Follows(visit), past' = past, now' \in Int, now' >= now, visit' = visit
    PROVE  Follows(visit)'
  BY Times DEF Follows

LEMMA TryStep ==
    ASSUME TypeOK, PastInv, HandInv, TryCandidate
    PROVE  HandInv'
  <1>1. Unlisted /\ Follows(Begun("listed", {}))
    BY BegunFollows DEF TryCandidate, HandInv
  <1> DEFINE v == Begun("listed", {})
  <1>2. v \in Visit /\ v.at = now /\ v.kind = "listed"
    BY BegunTyped
  <1> HIDE DEF v
  <1>3. /\ visit' = v /\ row' = row /\ past' = past /\ now' = now /\ pc' = "trying"
        /\ hand' = [hand EXCEPT !.lastDown = now, !.lastChecked = now]
    BY DEF TryCandidate, v
  <1>4. hand' \in Row /\ hand'.historic = <<>> /\ hand'.lastChecked = now
    BY <1>1, <1>3 DEF Unlisted, Row, TypeOK
  <1>5. Follows(visit)'
    BY <1>1, <1>3 DEF Follows, v
  <1> QED
    BY <1>1, <1>2, <1>3, <1>4, <1>5 DEF HandInv, Unlisted, Tried

LEMMA AcceptStep ==
    ASSUME TypeOK, PastInv, HandInv, AcceptCandidate
    PROVE  HandInv'
  <1>1. Unlisted /\ Tried
    BY DEF AcceptCandidate, HandInv
  <1>2. PICK asked \in Asked : /\ hand' = [hand EXCEPT !.interval = asked]
                               /\ visit' = [visit EXCEPT !.asked = asked]
    BY DEF AcceptCandidate
  <1>3. row' = row /\ past' = past /\ now' = now /\ pc' = "answered"
    BY DEF AcceptCandidate
  <1>4. /\ hand' \in Row /\ hand'.historic = <<>> /\ hand'.lastChecked = hand.lastChecked
        /\ hand'.interval = asked
    BY <1>1, <1>2 DEF Unlisted, Row
  <1>5. /\ visit' \in Visit /\ visit'.from = visit.from /\ visit'.at = visit.at
        /\ visit'.kind = visit.kind /\ visit'.asked = asked
    BY <1>1, <1>2 DEF Tried, Follows, Visit
  <1> QED
    BY <1>1, <1>3, <1>4, <1>5 DEF HandInv, Unlisted, Tried, Follows

LEMMA LookUpStep ==
    ASSUME TypeOK, PastInv, HandInv, LookUp
    PROVE  HandInv'
  <1>1. row \in Row /\ hand = row /\ now - row.lastChecked > row.interval
    BY DEF LookUp, HandInv
  <1>2. PICK ips \in Answers :
          /\ hand' = [row EXCEPT !.ips = ips, !.recent = RefreshRecentIps(row.recent, ips)]
          /\ visit' = Begun("down", ips)
    BY <1>1 DEF LookUp
  <1>3. ips \in SUBSET IPs
    BY LifeAssumption
  <1> DEFINE v == Begun("down", ips)
  <1>4. /\ v \in Visit /\ v.from = now /\ v.kind = "down" /\ v.ips = ips /\ v.asked = None
        /\ Follows(v)
    BY <1>3, BegunTyped, BegunFollows
  <1>5. visit' = v
    BY <1>2
  <1> HIDE DEF v
  <1>6. /\ RefreshRecentIps(row.recent, ips) \in Stamps
        /\ RefreshRecentIps(row.recent, ips) = Refreshed(now, row.recent, ips)
    BY <1>1, <1>3, StampsTyped DEF Row
  <1>7. /\ hand' \in Row /\ hand'.ips = ips /\ hand'.added = row.added
        /\ hand'.recent = Refreshed(now, row.recent, ips)
        /\ hand'.historic = row.historic
        /\ hand'.lastUp = row.lastUp /\ hand'.lastDown = row.lastDown
        /\ hand'.interval = row.interval
    BY <1>1, <1>2, <1>3, <1>6 DEF Row
  <1>8. row' = row /\ past' = past /\ now' = now /\ pc' = "looked up"
    BY DEF LookUp
  <1>9. LookedUp(row, hand, visit)'
    BY <1>4, <1>5, <1>7, <1>8 DEF LookedUp
  <1>10. Follows(visit)' /\ Due(visit)'
    BY <1>1, <1>4, <1>5, <1>8 DEF Follows, Due
  <1> QED
    BY <1>4, <1>5, <1>8, <1>9, <1>10 DEF HandInv, Sought

LEMMA AnnounceStep ==
    ASSUME TypeOK, PastInv, HandInv, Announce
    PROVE  HandInv'
  <1>1. Sought
    BY DEF Announce, HandInv
  <1>2. /\ hand' = [hand EXCEPT !.lastChecked = now] /\ visit' = [visit EXCEPT !.at = now]
        /\ row' = row /\ past' = past /\ now' = now /\ pc' = "announcing"
    BY DEF Announce
  <1>3. visit \in Visit /\ hand \in Row /\ now \in 0..MaxTime
    BY <1>1 DEF Sought, Follows, LookedUp, TypeOK
  <1>4. /\ visit' \in Visit /\ visit'.from = visit.from /\ visit'.at = now
        /\ visit'.kind = visit.kind /\ visit'.ips = visit.ips /\ visit'.asked = visit.asked
    BY <1>2, <1>3 DEF Visit
  <1>5. /\ hand' \in Row /\ hand'.ips = hand.ips /\ hand'.added = hand.added
        /\ hand'.recent = hand.recent /\ hand'.historic = hand.historic
        /\ hand'.lastUp = hand.lastUp /\ hand'.lastDown = hand.lastDown
        /\ hand'.interval = hand.interval /\ hand'.lastChecked = now
    BY <1>2, <1>3 DEF Row
  <1>6. Follows(visit)'
    <2>1. visit.from <= now
      BY <1>1, <1>3, Times DEF Sought, Follows
    <2> QED
      BY <1>1, <1>2, <1>4, <2>1, Times DEF Sought, Follows
  <1>7. Due(visit)' /\ LookedUp(row, hand, visit)'
    BY <1>1, <1>2, <1>4, <1>5 DEF Sought, Due, LookedUp
  <1> QED
    BY <1>1, <1>2, <1>4, <1>5, <1>6, <1>7 DEF HandInv, Sought

LEMMA UpStep ==
    ASSUME TypeOK, PastInv, HandInv, UpdateUp
    PROVE  HandInv'
  <1>1. Sought /\ hand.lastChecked = visit.at /\ row # None
    BY BoundsHold DEF UpdateUp, HandInv, Sought, Due, Bounds
  <1> DEFINE r(asked) == IF asked = None THEN hand ELSE [hand EXCEPT !.interval = asked]
  <1>2. PICK asked \in Asked \cup {None} :
          /\ hand' = Conclude(IsUp(r(asked)))
          /\ visit' = [visit EXCEPT !.done = now, !.kind = "up", !.asked = asked]
    BY DEF UpdateUp
  <1>3. row' = row /\ past' = past /\ now' = now /\ pc' = "updated"
    BY DEF UpdateUp
  <1>4. visit \in Visit /\ hand \in Row /\ now \in 0..MaxTime
    BY <1>1 DEF Sought, Follows, LookedUp, TypeOK
  <1>5. /\ visit' \in Visit /\ visit'.from = visit.from /\ visit'.at = visit.at
        /\ visit'.done = now
        /\ visit'.kind = "up" /\ visit'.ips = visit.ips /\ visit'.asked = asked
    BY <1>2, <1>4 DEF Visit
  <1> DEFINE q == r(asked)
  <1>6. /\ q \in Row /\ q.ips = hand.ips /\ q.added = hand.added
        /\ q.recent = hand.recent /\ q.historic = hand.historic
        /\ q.lastUp = hand.lastUp /\ q.lastDown = hand.lastDown
        /\ q.interval = (IF asked = None THEN hand.interval ELSE asked)
        /\ q.lastChecked = hand.lastChecked
    BY <1>4 DEF Row
  <1>7. Len(q.historic) <= HistMax /\ hand' = Conclude(IsUp(q))
    BY <1>1, <1>2, <1>6, BoundsHold, Typed DEF Sought, LookedUp, Bounds
  <1> HIDE DEF q
  <1>8. CountedAs("up", q, hand')
    BY <1>6, <1>7, CountUp
  <1>9. VisitedAs(row, hand, visit)'
    BY <1>1, <1>3, <1>5, <1>6, <1>8 DEF Sought, LookedUp, VisitedAs, CountedAs
  <1>10. Follows(visit)' /\ Due(visit)'
    BY <1>1, <1>3, <1>5 DEF Sought, Follows, Due
  <1> QED
    BY <1>3, <1>9, <1>10 DEF HandInv

LEMMA DownStep ==
    ASSUME TypeOK, PastInv, HandInv, UpdateDown
    PROVE  HandInv'
  <1>1. Sought /\ hand.lastChecked = visit.at /\ row # None
    BY BoundsHold DEF UpdateDown, HandInv, Sought, Due, Bounds
  <1>2. /\ hand' = Conclude(IsDown(hand)) /\ visit' = [visit EXCEPT !.done = now]
        /\ row' = row /\ past' = past /\ now' = now /\ pc' = "updated"
    BY DEF UpdateDown
  <1>3. visit \in Visit /\ hand \in Row /\ now \in 0..MaxTime
    BY <1>1 DEF Sought, Follows, LookedUp, TypeOK
  <1>4. /\ visit' \in Visit /\ visit'.from = visit.from /\ visit'.at = visit.at
        /\ visit'.done = now
        /\ visit'.kind = "down" /\ visit'.ips = visit.ips /\ visit'.asked = None
    BY <1>1, <1>2, <1>3 DEF Visit, Sought
  <1>5. Len(hand.historic) <= HistMax
    BY <1>1, BoundsHold, Typed DEF Sought, LookedUp, Bounds
  <1>6. CountedAs("down", hand, hand')
    BY <1>2, <1>3, <1>5, CountDown
  <1>7. VisitedAs(row, hand, visit)'
    BY <1>1, <1>2, <1>4, <1>6 DEF Sought, LookedUp, VisitedAs, CountedAs
  <1>8. Follows(visit)' /\ Due(visit)'
    BY <1>1, <1>2, <1>4 DEF Sought, Follows, Due
  <1> QED
    BY <1>2, <1>7, <1>8 DEF HandInv

LEMMA UnresolvedStep ==
    ASSUME TypeOK, PastInv, HandInv, UpdateUnresolved
    PROVE  HandInv'
  <1>1. row \in Row /\ row # None /\ hand = row /\ now - row.lastChecked > row.interval
    BY BoundsHold DEF UpdateUnresolved, HandInv, Bounds
  <1> DEFINE r == [([row EXCEPT !.ips = {}]) EXCEPT !.lastChecked = now]
             v == Begun("unresolved", {})
  <1>2. hand' = ResetInterval(UpdateUptime(IsDown(r))) /\ visit' = v
    BY <1>1 DEF UpdateUnresolved, ClearTracker
  <1>3. row' = row /\ past' = past /\ now' = now /\ pc' = "updated"
    BY DEF UpdateUnresolved
  <1>4. /\ r \in Row /\ r.ips = {} /\ r.added = row.added /\ r.recent = row.recent
        /\ r.historic = row.historic
        /\ r.lastUp = row.lastUp /\ r.lastDown = row.lastDown /\ r.lastChecked = now
        /\ r.interval = row.interval
    BY <1>1 DEF Row, TypeOK
  <1>5. /\ v \in Visit /\ v.from = now /\ v.at = now /\ v.done = now
        /\ v.kind = "unresolved" /\ v.ips = {} /\ v.asked = None /\ Follows(v)
    BY BegunTyped, BegunFollows
  <1> HIDE DEF r, v
  <1>6. Len(r.historic) <= HistMax
    BY <1>1, <1>4, BoundsHold, Typed DEF Bounds
  <1>7. CountedAs("down", r, hand')
    BY <1>2, <1>4, <1>6, CountDown
  <1>8. VisitedAs(row, hand, visit)'
    BY <1>2, <1>3, <1>4, <1>5, <1>7 DEF VisitedAs, CountedAs
  <1>9. Follows(visit)' /\ Due(visit)'
    BY <1>1, <1>2, <1>3, <1>5 DEF Follows, Due
  <1> QED
    BY <1>3, <1>8, <1>9 DEF HandInv

LEMMA FromUrlStep ==
    ASSUME TypeOK, FromUrl
    PROVE  /\ pc' = "queued" /\ now' = now /\ row' = None /\ visit' = visit
           /\ hand' \in Row /\ hand'.historic = <<>>
           /\ \E ips \in SUBSET IPs :
                 /\ hand'.ips = ips /\ hand'.added = now
                 /\ hand'.recent = RefreshRecentIps([ip \in IPs |-> None], ips)
                 /\ past' = <<Begun("submitted", ips)>>
  <1>1. PICK ips \in Answers :
          /\ hand' = [ips |-> ips,
                      recent |-> RefreshRecentIps([ip \in IPs |-> None], ips),
                      added |-> now, lastChecked |-> 0, lastUp |-> 0, lastDown |-> 0,
                      interval |-> DefaultInterval, status |-> 0, historic |-> <<>>,
                      uptime |-> [up |-> 0, of |-> 0]]
          /\ past' = <<Begun("submitted", ips)>>
    BY DEF FromUrl
  <1>2. ips \in SUBSET IPs
    BY LifeAssumption
  <1>3. RefreshRecentIps([ip \in IPs |-> None], ips) \in Stamps
    <2>1. [ip \in IPs |-> None] \in Stamps
      BY DEF Stamps
    <2> QED
      BY <1>2, <2>1, StampsTyped
  <1>4. hand' \in Row
    <2>1. /\ 0 \in 0..MaxTime /\ 0 \in 0..1 /\ now \in 0..MaxTime /\ 0 \in 0..HistMax
          /\ <<>> \in Seq(0..1)
      BY BoundsHold, Typed DEF Bounds
    <2>2. [up |-> 0, of |-> 0] \in [up : 0..HistMax, of : 0..HistMax]
      BY <2>1
    <2> QED
      BY <1>1, <1>2, <1>3, <2>1, <2>2 DEF Row
  <1> QED
    BY <1>1, <1>2, <1>4 DEF FromUrl

LEMMA HandStep ==
    ASSUME TypeOK, PastInv, HandInv, [Next]_vars
    PROVE  HandInv'
  <1>1. CASE Tick \/ UNCHANGED vars
    <2>1. UNCHANGED <<row, pc, hand, visit, past>> /\ now' \in Int /\ now' >= now
      BY <1>1, Times DEF Tick, vars
    <2>2. Follows(visit) => Follows(visit)'
      BY <2>1, StillFollows
    <2>3. Due(visit) => Due(visit)'
      BY <2>1 DEF Due
    <2>4. Sought => Sought'
      BY <2>1, <2>2, <2>3 DEF Sought, LookedUp
    <2>5. pc = "selected" => now' - row.lastChecked > row.interval
      <3> SUFFICES ASSUME pc = "selected"
                   PROVE  now' - row.lastChecked > row.interval
        OBVIOUS
      <3>1. row \in Row /\ now - row.lastChecked > row.interval
        BY DEF HandInv
      <3>2. row.lastChecked \in Int /\ row.interval \in Int /\ now \in Int
        BY <3>1, Times, BoundsHold DEF Bounds
      <3> QED
        BY <2>1, <3>1, <3>2
    <2>6. VisitedAs(row, hand, visit) => VisitedAs(row, hand, visit)'
      BY <2>1 DEF VisitedAs
    <2>7. Tried => Tried'
      BY <2>1, <2>2 DEF Tried
    <2> QED
      BY <2>1, <2>2, <2>3, <2>4, <2>5, <2>6, <2>7 DEF HandInv, Unlisted
  <1>2. CASE FromUrl
    <2>1. visit = None
      BY <1>2 DEF FromUrl, HandInv
    <2> QED
      BY <1>2, <2>1, FromUrlStep DEF HandInv, Unlisted
  <1>3. CASE DenyCandidate \/ InsertCandidate \/ RemoveSilent \/ RemoveDenied \/ WriteRow
             \/ Restart
    BY <1>3 DEF DenyCandidate, InsertCandidate, RemoveSilent, RemoveDenied, WriteRow,
                Restart, Forget, HandInv
  <1>4. CASE Select
    <2>1. row \in Row
      BY <1>4 DEF Select, TypeOK
    <2>2. visit = None
      BY <1>4 DEF Select, HandInv
    <2> QED
      BY <1>4, <2>1, <2>2 DEF Select, HandInv
  <1> QED
    BY <1>1, <1>2, <1>3, <1>4, TryStep, AcceptStep, LookUpStep, AnnounceStep, UpStep,
       DownStep, UnresolvedStep DEF Next

-----------------------------------------------------------------------------
(* What the steps do to row and past. *)

Passes ==
    /\ UNCHANGED <<row, past>> /\ now' \in 0..MaxTime /\ now' >= now
    /\ Waiting' <=> Waiting
    /\ Waiting => /\ hand'.ips = hand.ips /\ hand'.added = hand.added
                  /\ hand'.recent = hand.recent

Ends == row' = None /\ past' = <<>> /\ ~Waiting' /\ now' = now

Begins ==
    /\ row = None /\ row' = None /\ Waiting' /\ now' = now
    /\ \E ips \in SUBSET IPs :
          /\ hand'.ips = ips /\ hand'.added = now
          /\ hand'.recent = RefreshRecentIps([ip \in IPs |-> None], ips)
          /\ past' = <<Begun("submitted", ips)>>

\* The row of a tracker that was accepted by the visit v.
ListedAs(v) ==
    /\ row = None /\ v.kind = "listed" /\ v.asked \in Asked
    /\ row' \in Row
    /\ row'.ips = hand.ips /\ row'.added = hand.added /\ row'.recent = hand.recent
    /\ row'.historic = <<1>> /\ row'.uptime = UptimeOf(row'.historic)
    /\ row'.status = 1 /\ row'.lastUp = v.done /\ row'.lastChecked = v.at
    /\ row'.interval = v.asked

Enters ==
    /\ Waiting /\ ~Waiting' /\ now' = now
    /\ \E v : Follows(v) /\ ListedAs(v) /\ past' = Append(past, v)

Rechecks ==
    /\ ~Waiting /\ ~Waiting' /\ now' = now
    /\ \E v : /\ Follows(v) /\ Due(v) /\ VisitedAs(row, row', v)
              /\ past' = Append(past, v)

LEMMA ListedStep ==
    ASSUME TypeOK, HandInv, InsertCandidate
    PROVE  \E v : Follows(v) /\ ListedAs(v) /\ past' = Append(past, v)
  <1> DEFINE v == [visit EXCEPT !.done = now]
  <1>1. /\ Unlisted /\ Tried /\ visit.asked \in Asked /\ hand.interval = visit.asked
        /\ row' = UpdateUptime(IsUp(hand)) /\ past' = Append(past, v)
    BY DEF InsertCandidate, HandInv
  <1>2. /\ v \in Visit /\ v.from = visit.from /\ v.at = visit.at /\ v.done = now
        /\ v.kind = "listed" /\ v.asked = visit.asked
    <2>1. visit \in Visit /\ now \in 0..MaxTime
      BY <1>1, Typed DEF Tried, Follows
    <2> QED
      BY <1>1, <2>1 DEF Tried, Visit
  <1> HIDE DEF v
  <1>3. Follows(v)
    BY <1>1, <1>2 DEF Tried, Follows
  <1>4. Push(<<>>, 1) = <<1>>
    BY BoundsHold DEF Push, Bounds
  <1>5. UptimeOf(<<1>>) \in [up : 0..HistMax, of : 0..HistMax]
    <2>1. <<1>> \in Seq(0..1) /\ Len(<<1>>) = 1
      OBVIOUS
    <2> QED
      BY <2>1, UptimeTyped, BoundsHold DEF Bounds
  <1> DEFINE u == IsUp(hand)
  <1>6. u = [hand EXCEPT !.status = 1, !.lastUp = now, !.historic = <<1>>]
    BY <1>1, <1>4 DEF IsUp, Unlisted, Row
  <1>7. /\ now \in 0..MaxTime /\ 1 \in 0..1 /\ <<1>> \in Seq(0..1) /\ hand \in Row
    BY <1>1, Typed DEF Unlisted
  <1>8. /\ u \in Row /\ u.historic = <<1>> /\ u.status = 1 /\ u.lastUp = now
        /\ u.ips = hand.ips /\ u.added = hand.added /\ u.recent = hand.recent
        /\ u.lastChecked = hand.lastChecked /\ u.interval = hand.interval
    BY <1>6, <1>7 DEF Row
  <1> HIDE DEF u
  <1>9. row' = [u EXCEPT !.uptime = UptimeOf(<<1>>)]
    BY <1>1, <1>8 DEF UpdateUptime, u
  <1>10. /\ row' \in Row /\ row'.uptime = UptimeOf(<<1>>) /\ row'.historic = <<1>>
         /\ row'.status = 1 /\ row'.lastUp = now
         /\ row'.ips = hand.ips /\ row'.added = hand.added /\ row'.recent = hand.recent
         /\ row'.lastChecked = hand.lastChecked /\ row'.interval = hand.interval
    BY <1>5, <1>8, <1>9 DEF Row
  <1>11. ListedAs(v)
    BY <1>1, <1>2, <1>10 DEF ListedAs, Unlisted, Tried
  <1> QED
    BY <1>1, <1>3, <1>11

LEMMA StepKinds ==
    ASSUME TypeOK, PastInv, HandInv, [Next]_vars
    PROVE  Passes \/ Ends \/ Begins \/ Enters \/ Rechecks
  <1>0. now \in 0..MaxTime /\ now \in Int /\ now >= now
    BY Typed, Times
  <1>1. CASE Tick
    <2>1. now' \in 0..MaxTime /\ now' >= now
      BY <1>0, <1>1, BoundsHold DEF Tick, Bounds
    <2> QED
      BY <1>1, <2>1 DEF Tick, Passes, Waiting
  <1>2. CASE UNCHANGED vars
    BY <1>0, <1>2 DEF vars, Passes, Waiting
  <1>3. CASE FromUrl
    BY <1>3, FromUrlStep DEF Begins, FromUrl, Waiting
  <1>4. CASE TryCandidate
    <2>1. hand \in Row
      BY <1>4 DEF TryCandidate, HandInv, Unlisted
    <2>2. /\ hand'.ips = hand.ips /\ hand'.added = hand.added /\ hand'.recent = hand.recent
      BY <1>4, <2>1 DEF TryCandidate, Row
    <2> QED
      BY <1>0, <1>4, <2>2 DEF TryCandidate, Passes, Waiting
  <1>5. CASE AcceptCandidate
    <2>1. hand \in Row
      BY <1>5 DEF AcceptCandidate, HandInv, Unlisted
    <2>2. /\ hand'.ips = hand.ips /\ hand'.added = hand.added /\ hand'.recent = hand.recent
      BY <1>5, <2>1 DEF AcceptCandidate, Row
    <2> QED
      BY <1>0, <1>5, <2>2 DEF AcceptCandidate, Passes, Waiting
  <1>6. CASE DenyCandidate \/ RemoveSilent \/ RemoveDenied
    BY <1>6 DEF DenyCandidate, RemoveSilent, RemoveDenied, Forget, Ends, Waiting
  <1>7. CASE InsertCandidate
    BY <1>7, ListedStep DEF InsertCandidate, Enters, Waiting
  <1>8. CASE Select
    BY <1>0, <1>8 DEF Select, Passes, Waiting
  <1>9. CASE LookUp \/ UpdateUnresolved \/ Announce \/ UpdateUp \/ UpdateDown
    BY <1>0, <1>9 DEF LookUp, UpdateUnresolved, Announce, UpdateUp, UpdateDown, Passes, Waiting
  <1>10. CASE WriteRow
    <2>1. Follows(visit) /\ Due(visit) /\ VisitedAs(row, row', visit)
      BY <1>10 DEF WriteRow, HandInv
    <2> QED
      BY <1>10, <2>1 DEF WriteRow, Rechecks, Waiting
  <1>11. CASE Restart
    <2>1. ~Waiting' /\ row' = row /\ now' = now
      BY <1>11 DEF Restart, Waiting
    <2>2. CASE row = None
      BY <1>11, <2>1, <2>2 DEF Restart, Ends
    <2>3. CASE row # None
      <3>1. ~Waiting /\ past' = past
        BY <1>11, <2>3 DEF Restart, PastInv
      <3> QED
        BY <1>0, <2>1, <3>1 DEF Passes
    <2> QED
      BY <2>2, <2>3
  <1> QED
    BY <1>1, <1>2, <1>3, <1>4, <1>5, <1>6, <1>7, <1>8, <1>9, <1>10, <1>11 DEF Next

LEMMA Appended ==
    ASSUME TypeOK, NEW e \in Visit, past' = Append(past, e)
    PROVE  /\ past' \in Seq(Visit)
           /\ Len(past) \in Nat /\ Len(past') = Len(past) + 1
           /\ past'[Len(past) + 1] = e
           /\ \A i \in 1..Len(past) : past'[i] = past[i]
  BY Typed

LEMMA PcStep ==
    ASSUME TypeOK, PastInv, HandInv, [Next]_vars
    PROVE  /\ pc' \in {"idle", "queued", "trying", "answered",
                      "selected", "looked up", "announcing", "updated"}
           /\ visit' \in Visit \cup {None}
           /\ hand' \in IF pc' = "idle" THEN {None} ELSE Row
  <1>1. pc' \in {"idle", "queued", "trying", "answered",
                 "selected", "looked up", "announcing", "updated"}
    <2>1. CASE Tick \/ Restart \/ UNCHANGED vars
      BY <2>1 DEF Tick, Restart, vars, TypeOK
    <2>2. CASE FromUrl \/ TryCandidate \/ DenyCandidate \/ AcceptCandidate \/ InsertCandidate
               \/ Select \/ RemoveSilent \/ RemoveDenied
      BY <2>2 DEF FromUrl, TryCandidate, DenyCandidate, AcceptCandidate, InsertCandidate,
                  Select, RemoveSilent, RemoveDenied, Forget
    <2>3. CASE LookUp \/ UpdateUnresolved \/ Announce \/ UpdateUp \/ UpdateDown \/ WriteRow
      BY <2>3 DEF LookUp, UpdateUnresolved, Announce, UpdateUp, UpdateDown, WriteRow
    <2> QED
      BY <2>1, <2>2, <2>3 DEF Next
  <1>2. HandInv'
    BY HandStep
  <1>3. visit' \in Visit \cup {None}
    BY <1>1, <1>2 DEF HandInv, Tried, Sought, Follows
  <1>4. hand' \in IF pc' = "idle" THEN {None} ELSE Row
    BY <1>1, <1>2 DEF HandInv, Unlisted, Sought, LookedUp, VisitedAs
  <1> QED
    BY <1>1, <1>3, <1>4

LEMMA TypeStep == TypeOK /\ PastInv /\ HandInv /\ [Next]_vars => TypeOK'
  <1> SUFFICES ASSUME TypeOK, PastInv, HandInv, [Next]_vars
               PROVE  TypeOK'
    OBVIOUS
  <1> DEFINE Told == /\ now' \in 0..MaxTime
                     /\ row' \in Row \cup {None}
                     /\ row' # None => Len(row'.historic) \in 1..HistMax
                     /\ past' \in Seq(Visit)
  <1>0. CASE Passes
    <2>1. Told
      BY <1>0, Typed DEF Passes
    <2> QED
      BY <2>1, PcStep DEF TypeOK
  <1>1. CASE Ends
    <2>1. Told
      BY <1>1, Typed DEF Ends
    <2> QED
      BY <2>1, PcStep DEF TypeOK
  <1>2. CASE Begins
    <2>1. PICK ips \in SUBSET IPs : past' = <<Begun("submitted", ips)>>
      BY <1>2 DEF Begins
    <2>2. past' \in Seq(Visit)
      <3>1. Begun("submitted", ips) \in Visit
        BY BegunTyped
      <3> QED
        BY <2>1, <3>1
    <2>3. Told
      BY <1>2, <2>2, Typed DEF Begins
    <2> QED
      BY <2>3, PcStep DEF TypeOK
  <1>3. CASE Enters
    <2>1. PICK v : Follows(v) /\ ListedAs(v) /\ past' = Append(past, v)
      BY <1>3 DEF Enters
    <2>2. past' \in Seq(Visit)
      BY <2>1, Appended DEF Follows
    <2>3. row' \in Row /\ Len(row'.historic) = 1
      BY <2>1 DEF ListedAs
    <2>4. Len(row'.historic) \in 1..HistMax
      BY <2>3, BoundsHold DEF Bounds
    <2>5. Told
      BY <1>3, <2>2, <2>3, <2>4, Typed DEF Enters
    <2> QED
      BY <2>5, PcStep DEF TypeOK
  <1>4. CASE Rechecks
    <2>1. PICK v : Follows(v) /\ Due(v) /\ VisitedAs(row, row', v) /\ past' = Append(past, v)
      BY <1>4 DEF Rechecks
    <2>2. past' \in Seq(Visit)
      BY <2>1, Appended DEF Follows
    <2>3. row \in Row /\ Len(row.historic) \in 1..HistMax /\ row.historic \in Seq(0..1)
      BY <2>1, Typed, BoundsHold DEF Due, Row, Bounds
    <2>4. Len(row'.historic) \in 1..HistMax
      <3>1. row'.historic = Push(row.historic, IF v.kind = "up" THEN 1 ELSE 0)
        BY <2>1 DEF VisitedAs
      <3>2. Len(row'.historic) = IF Len(row.historic) < HistMax
                                 THEN Len(row.historic) + 1 ELSE HistMax
        BY <2>3, <3>1, PushOf
      <3> QED
        BY <2>3, <3>2, BoundsHold DEF Bounds
    <2>5. row' \in Row
      BY <2>1 DEF VisitedAs
    <2>6. Told
      BY <1>4, <2>2, <2>4, <2>5, Typed DEF Rechecks
    <2> QED
      BY <2>6, PcStep DEF TypeOK
  <1> QED
    BY <1>0, <1>1, <1>2, <1>3, <1>4, StepKinds

LEMMA PastStep == TypeOK /\ PastInv /\ HandInv /\ [Next]_vars => PastInv'
  <1> SUFFICES ASSUME TypeOK, PastInv, HandInv, [Next]_vars
               PROVE  PastInv'
    OBVIOUS
  <1>0. /\ now \in Int /\ Len(past) \in Nat
        /\ \A i \in 1..Len(past) : past[i].at \in Int /\ past[i].from \in Int
    BY Times
  <1>1. CASE Passes
    <2>1. now' \in Int /\ now' >= now
      BY <1>1 DEF Passes
    <2>2. \A i \in 1..Len(past') : past'[i].from <= past'[i].at /\ past'[i].at <= now'
      BY <1>0, <1>1, <2>1 DEF Passes, PastInv
    <2> QED
      BY <1>1, <2>2 DEF Passes, PastInv
  <1>2. CASE Ends
    BY <1>2 DEF Ends, PastInv
  <1>3. CASE Begins
    <2>1. PICK ips \in SUBSET IPs : past' = <<Begun("submitted", ips)>>
      BY <1>3 DEF Begins
    <2>2. Len(past') = 1 /\ past'[1] = Begun("submitted", ips) /\ past' # <<>>
      BY <2>1
    <2>3. /\ past'[1].from = now /\ past'[1].at = now /\ past'[1].kind = "submitted"
      BY <2>2 DEF Begun
    <2> QED
      BY <1>0, <1>3, <2>2, <2>3 DEF Begins, PastInv
  <1>4. CASE Enters
    <2>1. PICK v : Follows(v) /\ ListedAs(v) /\ past' = Append(past, v)
      BY <1>4 DEF Enters
    <2>3. Len(past) = 1 /\ past # <<>>
      BY <1>4 DEF Enters, PastInv
    <2>2. v \in Visit /\ v.from <= v.at /\ v.at <= now /\ past[1].at <= v.from
      <3>1. 1 \in 1..Len(past)
        BY <2>3
      <3> QED
        BY <2>1, <3>1 DEF Follows
    <2>4. /\ Len(past') = 2 /\ past'[2] = v /\ past'[1] = past[1] /\ past' # <<>>
      BY <2>1, <2>2, <2>3, Appended
    <2>5. /\ past'[1].kind = "submitted" /\ past'[1].from <= past'[1].at /\ past'[1].at <= now
          /\ row' # None /\ v.kind = "listed" /\ v.asked \in Int
      <3>1. 1 \in 1..Len(past)
        BY <2>3
      <3>2. /\ past[1].kind = "submitted" /\ past[1].from <= past[1].at /\ past[1].at <= now
        BY <2>3, <3>1 DEF PastInv
      <3>3. row' # None /\ v.kind = "listed" /\ v.asked \in Int
        BY <2>1, BoundsHold DEF ListedAs, Bounds
      <3> QED
        BY <2>4, <3>2, <3>3
    <2> QED
      BY <1>4, <2>2, <2>4, <2>5 DEF Enters, PastInv
  <1>5. CASE Rechecks
    <2>1. PICK v : Follows(v) /\ Due(v) /\ VisitedAs(row, row', v) /\ past' = Append(past, v)
      BY <1>5 DEF Rechecks
    <2>2. /\ v \in Visit /\ v.from <= v.at /\ v.at <= now
          /\ \A i \in 1..Len(past) : past[i].at <= v.from
          /\ v.kind \in {"up", "down", "unresolved"}
      BY <2>1 DEF Follows, VisitedAs
    <2>3. /\ Len(past') = Len(past) + 1 /\ past'[Len(past) + 1] = v
          /\ \A i \in 1..Len(past) : past'[i] = past[i]
      BY <2>1, <2>2, Appended
    <2>4. row # None /\ row' # None
      BY <2>1, BoundsHold DEF Due, VisitedAs, Bounds
    <2>5. Len(past) >= 2 /\ past # <<>>
      BY <2>4 DEF PastInv
    <2>6. /\ \A i \in 1..Len(past') : past'[i].from <= past'[i].at /\ past'[i].at <= now
          /\ \A i, j \in 1..Len(past') : i < j => past'[i].at <= past'[j].from
          /\ \A i \in 3..Len(past') : past'[i].kind \in {"up", "down", "unresolved"}
      <3>1. /\ \A i \in 1..Len(past) : past[i].from <= past[i].at /\ past[i].at <= now
            /\ \A i, j \in 1..Len(past) : i < j => past[i].at <= past[j].from
            /\ \A i \in 3..Len(past) : past[i].kind \in {"up", "down", "unresolved"}
        BY DEF PastInv
      <3>2. /\ \A i \in 1..Len(past') : i \in 1..Len(past) \/ i = Len(past) + 1
            /\ \A i \in 3..Len(past') : i \in 3..Len(past) \/ i = Len(past) + 1
        BY <1>0, <2>3
      <3>3. \A i \in 1..Len(past') : past'[i].from <= past'[i].at /\ past'[i].at <= now
        BY <2>2, <2>3, <3>1, <3>2
      <3>4. \A i \in 3..Len(past') : past'[i].kind \in {"up", "down", "unresolved"}
        <4>1. \A i \in 3..Len(past) : i \in 1..Len(past)
          BY <1>0
        <4> QED
          BY <2>2, <2>3, <3>1, <3>2, <4>1
      <3>5. ASSUME NEW i \in 1..Len(past'), NEW j \in 1..Len(past'), i < j
            PROVE  past'[i].at <= past'[j].from
        <4>1. i \in 1..Len(past) /\ past'[i] = past[i]
          BY <1>0, <2>3, <3>5
        <4>2. CASE j = Len(past) + 1
          BY <2>2, <2>3, <4>1, <4>2
        <4>3. CASE j \in 1..Len(past)
          BY <2>3, <3>1, <3>5, <4>1, <4>3
        <4> QED
          BY <3>2, <4>2, <4>3
      <3> QED
        BY <3>3, <3>4, <3>5
    <2>7. /\ Len(past') >= 2 /\ past'[2] = past[2] /\ past'[1] = past[1]
      BY <1>0, <2>3, <2>5
    <2> QED
      BY <1>5, <2>4, <2>5, <2>6, <2>7 DEF Rechecks, PastInv
  <1> QED
    BY <1>1, <1>2, <1>3, <1>4, <1>5, StepKinds

LEMMA LifeStart == Init => TypeOK /\ PastInv /\ HandInv
  <1> SUFFICES ASSUME Init
               PROVE  TypeOK /\ PastInv /\ HandInv
    OBVIOUS
  <1>1. past = <<>> /\ Len(past) = 0 /\ past \in Seq(Visit)
    BY DEF Init
  <1>2. 0 \in 0..MaxTime
    BY BoundsHold DEF Bounds
  <1>3. TypeOK
    BY <1>1, <1>2 DEF Init, TypeOK
  <1>4. PastInv
    BY <1>1 DEF Init, PastInv, Waiting
  <1>5. HandInv
    BY DEF Init, HandInv
  <1> QED
    BY <1>3, <1>4, <1>5

LEMMA LifeAlways == Spec => [](TypeOK /\ PastInv /\ HandInv)
  <1>1. TypeOK /\ PastInv /\ HandInv /\ [Next]_vars => HandInv'
    BY HandStep
  <1> QED
    BY <1>1, LifeStart, TypeStep, PastStep, PTL DEF Spec

\* The types of the rows, whatever the history's length: none is longer than HistMax.
THEOREM TypeCorrect == Spec => []TypeOK
  BY LifeAlways, PTL

LEMMA LastIs ==
    ASSUME NEW S \in SUBSET Int, NEW i \in S, \A j \in S : j <= i
    PROVE  LastOf(S) = i
  <1>1. \A k \in S : (\A j \in S : j <= k) => k = i
    OBVIOUS
  <1> QED
    BY <1>1 DEF LastOf

\* How a past grows.
LEMMA Grown ==
    ASSUME NEW p \in Seq(Visit), NEW e \in Visit
    PROVE  /\ Len(p) \in Nat /\ Append(p, e) \in Seq(Visit)
           /\ Len(Append(p, e)) = Len(p) + 1
           /\ Append(p, e)[Len(p) + 1] = e
           /\ \A i \in 1..Len(p) : Append(p, e)[i] = p[i]
  OBVIOUS

-----------------------------------------------------------------------------
(* recent_ips. *)

Looked(p, i) == p[i].kind \in {"submitted", "up", "down"}

\* h is the last lookup that found ip.
FoundLast(p, ip, h) ==
    /\ Looked(p, h) /\ ip \in p[h].ips
    /\ \A j \in 1..Len(p) : j > h /\ Looked(p, j) => ip \notin p[j].ips

\* The stamps tell the lookups of the past p, of which l is the last.
StampsTell(p, l, stamps) ==
    /\ Looked(p, l) /\ \A j \in 1..Len(p) : Looked(p, j) => j <= l
    /\ \A ip \in IPs :
          \/ /\ stamps[ip] = None
             /\ \A h \in 1..Len(p) : Looked(p, h) => ip \notin p[h].ips
          \/ \E h \in 1..Len(p) :
                /\ FoundLast(p, ip, h)
                /\ stamps[ip] = IF p[l].from - p[h].from <= Window THEN p[h].from ELSE None

Tells(p, stamps) == \E l \in 1..Len(p) : StampsTell(p, l, stamps)

RecentInv ==
    /\ Waiting => Tells(past, hand.recent)
    /\ row # None => Tells(past, row.recent)

\* What is no lookup leaves the stamps true.
LEMMA TellsOther ==
    ASSUME NEW p \in Seq(Visit), NEW e \in Visit, e.kind \notin {"submitted", "up", "down"},
           NEW stamps, Tells(p, stamps)
    PROVE  Tells(Append(p, e), stamps)
  <1> DEFINE q == Append(p, e)
  <1>1. /\ Len(p) \in Nat /\ Len(q) = Len(p) + 1 /\ q[Len(p) + 1] = e
        /\ \A i \in 1..Len(p) : q[i] = p[i]
    BY Grown
  <1> HIDE DEF q
  <1>2. PICK l \in 1..Len(p) : StampsTell(p, l, stamps)
    BY DEF Tells
  <1>3. \A i \in 1..Len(q) : Looked(q, i) <=> i \in 1..Len(p) /\ Looked(p, i)
    BY <1>1 DEF Looked
  <1>4. \A ip \in IPs, h \in 1..Len(p) : FoundLast(p, ip, h) => FoundLast(q, ip, h)
    BY <1>1, <1>3 DEF FoundLast
  <1>5. StampsTell(q, l, stamps)
    BY <1>1, <1>2, <1>3, <1>4 DEF StampsTell
  <1>6. l \in 1..Len(q)
    BY <1>1
  <1> QED
    BY <1>5, <1>6 DEF Tells, q

\* A lookup that finds ips makes the refreshed stamps true.
LEMMA TellsLookup ==
    ASSUME NEW p \in Seq(Visit), NEW e \in Visit, e.kind \in {"up", "down"},
           \A i \in 1..Len(p) : p[i].from <= e.from,
           NEW stamps \in Stamps, Tells(p, stamps)
    PROVE  Tells(Append(p, e), Refreshed(e.from, stamps, e.ips))
  <1> DEFINE q == Append(p, e)
             n == Len(p) + 1
             new == Refreshed(e.from, stamps, e.ips)
             t == e.from
  <1> USE BoundsHold DEF Bounds
  <1>1. /\ Len(p) \in Nat /\ Len(q) = n /\ q[n] = e
        /\ \A i \in 1..Len(p) : q[i] = p[i]
    BY Grown
  <1>2. /\ t \in Int /\ Window \in Nat /\ None \notin Int
        /\ \A i \in 1..Len(p) : p[i].from \in Int /\ p[i].from <= t
    <2>1. \A v \in Visit : v.from \in 0..MaxTime
      BY DEF Visit
    <2>2. \A v \in Visit : v.from \in Int
      BY <2>1
    <2>3. \A i \in 1..Len(p) : p[i] \in Visit
      OBVIOUS
    <2> QED
      BY <2>2, <2>3
  <1>3. PICK l \in 1..Len(p) : StampsTell(p, l, stamps)
    BY DEF Tells
  <1> HIDE DEF q, t, new
  <1>4. /\ Looked(q, n) /\ q[n].from = t
        /\ \A i \in 1..Len(p) : Looked(q, i) <=> Looked(p, i)
    BY <1>1 DEF Looked, t
  <1>5. \A j \in 1..Len(q) : Looked(q, j) => j <= n
    BY <1>1
  <1>6. ASSUME NEW ip \in IPs
        PROVE  \/ /\ new[ip] = None
                  /\ \A h \in 1..Len(q) : Looked(q, h) => ip \notin q[h].ips
               \/ \E h \in 1..Len(q) :
                     /\ FoundLast(q, ip, h)
                     /\ new[ip] = IF q[n].from - q[h].from <= Window THEN q[h].from ELSE None
    <2> DEFINE stamped == IF ip \in e.ips THEN t ELSE stamps[ip]
    <2>1. new[ip] = IF stamped # None /\ t - stamped <= Window THEN stamped ELSE None
      BY DEF Refreshed, new, t
    <2>2. CASE ip \in e.ips
      <3>1. FoundLast(q, ip, n)
        BY <1>1, <1>4, <2>2 DEF FoundLast
      <3>2. new[ip] = t
        BY <1>2, <2>1, <2>2
      <3> QED
        BY <1>1, <1>2, <1>4, <3>1, <3>2
    <2>3. CASE ip \notin e.ips /\ \A h \in 1..Len(p) : Looked(p, h) => ip \notin p[h].ips
      <3>1. \A h \in 1..Len(q) : Looked(q, h) => ip \notin q[h].ips
        BY <1>1, <1>4, <2>3
      <3>2. stamps[ip] = None
        BY <1>3, <2>3 DEF StampsTell, FoundLast
      <3> QED
        BY <2>1, <2>3, <3>1, <3>2
    <2>4. ASSUME ip \notin e.ips, NEW h \in 1..Len(p), FoundLast(p, ip, h),
                 stamps[ip] = IF p[l].from - p[h].from <= Window THEN p[h].from ELSE None
          PROVE  \E k \in 1..Len(q) :
                    /\ FoundLast(q, ip, k)
                    /\ new[ip] = IF q[n].from - q[k].from <= Window THEN q[k].from ELSE None
      <3>1. FoundLast(q, ip, h)
        <4>1. Looked(q, h) /\ ip \in q[h].ips
          BY <1>1, <1>4, <2>4 DEF FoundLast
        <4>2. ASSUME NEW j \in 1..Len(q), j > h, Looked(q, j)
              PROVE  ip \notin q[j].ips
          <5>1. CASE j = n
            BY <1>1, <2>4, <5>1
          <5>2. CASE j # n
            <6>1. j \in 1..Len(p) /\ q[j] = p[j] /\ Looked(p, j)
              BY <1>1, <1>4, <4>2, <5>2
            <6> QED
              BY <2>4, <4>2, <6>1 DEF FoundLast
          <5> QED
            BY <5>1, <5>2
        <4> QED
          BY <4>1, <4>2 DEF FoundLast
      <3>2. /\ q[h].from = p[h].from /\ p[h].from \in Int /\ p[l].from \in Int /\ p[l].from <= t
            /\ h \in 1..Len(q)
        BY <1>1, <1>2
      <3>3. new[ip] = IF t - p[h].from <= Window THEN p[h].from ELSE None
        BY <1>2, <2>1, <2>4, <3>2
      <3> QED
        BY <1>4, <3>1, <3>2, <3>3
    <2>5. CASE ip \notin e.ips /\ ~(\A h \in 1..Len(p) : Looked(p, h) => ip \notin p[h].ips)
      BY <1>3, <2>4, <2>5 DEF StampsTell
    <2> QED
      BY <2>2, <2>3, <2>5
  <1>7. StampsTell(q, n, new)
    BY <1>4, <1>5, <1>6 DEF StampsTell
  <1>8. n \in 1..Len(q)
    BY <1>1
  <1> QED
    BY <1>7, <1>8 DEF Tells, q, new, t

LEMMA RecentStep ==
    TypeOK /\ PastInv /\ HandInv /\ RecentInv /\ [Next]_vars => RecentInv'
  <1> SUFFICES ASSUME TypeOK, PastInv, HandInv, RecentInv, [Next]_vars
               PROVE  RecentInv'
    OBVIOUS
  <1>0. past \in Seq(Visit)
    BY Typed
  <1>1. CASE Passes \/ Ends
    BY <1>1 DEF Passes, Ends, RecentInv
  <1>2. CASE Begins
    <2>1. PICK ips \in SUBSET IPs :
            /\ hand'.recent = RefreshRecentIps([ip \in IPs |-> None], ips)
            /\ past' = <<Begun("submitted", ips)>>
      BY <1>2 DEF Begins
    <2> DEFINE new == hand'.recent
    <2>2. /\ Len(past') = 1 /\ past'[1].kind = "submitted" /\ past'[1].ips = ips
          /\ past'[1].from = now
      BY <2>1 DEF Begun
    <2>3. now \in Int /\ Window \in Nat /\ None \notin Int
      BY Times, BoundsHold DEF Bounds
    <2>4. \A ip \in IPs : new[ip] = IF ip \in ips THEN now ELSE None
      BY <2>1, <2>3 DEF RefreshRecentIps
    <2> HIDE DEF new
    <2>5. StampsTell(past', 1, new)
      BY <2>2, <2>3, <2>4 DEF StampsTell, FoundLast, Looked
    <2>6. Tells(past', new)
      BY <2>2, <2>5 DEF Tells
    <2> QED
      BY <1>2, <2>6 DEF Begins, RecentInv, new
  <1>3. CASE Enters
    <2>1. PICK v : Follows(v) /\ ListedAs(v) /\ past' = Append(past, v)
      BY <1>3 DEF Enters
    <2>2. v \in Visit /\ v.kind = "listed"
      BY <2>1 DEF Follows, ListedAs
    <2>3. Tells(past, hand.recent) /\ row'.recent = hand.recent /\ ~Waiting'
      BY <1>3, <2>1 DEF Enters, ListedAs, RecentInv
    <2>4. Tells(Append(past, v), hand.recent)
      BY <1>0, <2>2, <2>3, TellsOther
    <2> QED
      BY <2>1, <2>3, <2>4 DEF RecentInv
  <1>4. CASE Rechecks
    <2>1. PICK v : Follows(v) /\ Due(v) /\ VisitedAs(row, row', v) /\ past' = Append(past, v)
      BY <1>4 DEF Rechecks
    <2>2. v \in Visit /\ v.kind \in {"up", "down", "unresolved"}
      BY <2>1 DEF Follows, VisitedAs
    <2>3. Tells(past, row.recent) /\ row.recent \in Stamps /\ ~Waiting'
      BY <1>4, <2>1, BoundsHold DEF Rechecks, Due, RecentInv, Bounds, Row
    <2>4. CASE v.kind = "unresolved"
      <3>1. Tells(Append(past, v), row.recent)
        BY <1>0, <2>2, <2>3, <2>4, TellsOther
      <3> QED
        BY <2>1, <2>3, <2>4, <3>1 DEF RecentInv, VisitedAs
    <2>5. CASE v.kind \in {"up", "down"}
      <3>1. \A i \in 1..Len(past) : past[i].from <= v.from
        <4> SUFFICES ASSUME NEW i \in 1..Len(past)
                     PROVE  past[i].from <= v.from
          OBVIOUS
        <4>1. past[i].from <= past[i].at
          BY DEF PastInv
        <4>2. past[i].at <= v.from
          BY <2>1 DEF Follows
        <4>3. past[i].from \in Int /\ past[i].at \in Int /\ v.from \in Int
          BY <2>2, Times
        <4> QED
          BY <4>1, <4>2, <4>3
      <3>2. Tells(Append(past, v), Refreshed(v.from, row.recent, v.ips))
        BY <1>0, <2>2, <2>3, <2>5, <3>1, TellsLookup
      <3> QED
        BY <2>1, <2>3, <2>5, <3>2 DEF RecentInv, VisitedAs
    <2> QED
      BY <2>2, <2>4, <2>5
  <1> QED
    BY <1>1, <1>2, <1>3, <1>4, StepKinds

\* However long a tracker waits in the queue and on the list, and whether it was up or
\* not, recent_ips is what its lookups say.
THEOREM RecentIps == Spec => []RecentIpsTellLookups
  <1>1. TypeOK /\ RecentInv => RecentIpsTellLookups
    <2> SUFFICES ASSUME TypeOK, RecentInv, row # None, NEW ip \in IPs
                 PROVE  LET hits == {i \in Lookups : ip \in past[i].ips}
                            last == past[LastOf(hits)].from
                        IN row.recent[ip] =
                             IF hits # {} /\ past[LastOf(Lookups)].from - last <= Window
                             THEN last ELSE None
      BY DEF RecentIpsTellLookups
    <2> DEFINE hits == {i \in Lookups : ip \in past[i].ips}
    <2>1. DOMAIN past = 1..Len(past) /\ Len(past) \in Nat
      BY Typed
    <2>2. Lookups = {i \in 1..Len(past) : Looked(past, i)}
      BY <2>1 DEF Lookups, Where, Looked
    <2>3. PICK l \in 1..Len(past) : StampsTell(past, l, row.recent)
      BY DEF RecentInv, Tells
    <2>4. LastOf(Lookups) = l
      <3>1. Lookups \in SUBSET Int /\ l \in Lookups /\ \A j \in Lookups : j <= l
        BY <2>1, <2>2, <2>3 DEF StampsTell
      <3> QED
        BY <3>1, LastIs
    <2>5. CASE \A h \in 1..Len(past) : Looked(past, h) => ip \notin past[h].ips
      <3>1. hits = {}
        BY <2>2, <2>5
      <3>2. row.recent[ip] = None
        BY <2>3, <2>5 DEF StampsTell, FoundLast
      <3> QED
        BY <3>1, <3>2
    <2>6. ASSUME NEW h \in 1..Len(past), FoundLast(past, ip, h),
                 row.recent[ip] = IF past[l].from - past[h].from <= Window
                                  THEN past[h].from ELSE None
          PROVE  row.recent[ip] =
                   IF hits # {} /\ past[LastOf(Lookups)].from - past[LastOf(hits)].from <= Window
                   THEN past[LastOf(hits)].from ELSE None
      <3>1. hits \in SUBSET Int /\ h \in hits /\ \A j \in hits : j <= h
        BY <2>1, <2>2, <2>6 DEF FoundLast
      <3>2. LastOf(hits) = h
        BY <3>1, LastIs
      <3> QED
        BY <2>4, <2>6, <3>1, <3>2
    <2> QED
      BY <2>3, <2>5, <2>6 DEF StampsTell
  <1>2. Init => RecentInv
    BY DEF Init, RecentInv, Waiting
  <1> QED
    BY <1>1, <1>2, RecentStep, LifeAlways, PTL DEF Spec

-----------------------------------------------------------------------------
(* The interval. *)

\* a is the interval last asked for, up to visit i.
AskedLast(p, i, a) ==
    \E k \in 1..i : /\ p[k].asked = a /\ a # None
                     /\ \A j \in 1..i : j > k => p[j].asked = None

\* Some interval was asked for by each visit after the submission, and that of the row
\* is the last of them, or the default.
AskInv ==
    row # None =>
      /\ \A i \in 2..Len(past) : \E a \in Int : AskedLast(past, i, a)
      /\ row.interval = DefaultInterval \/ AskedLast(past, Len(past), row.interval)
      /\ row.lastChecked = past[Len(past)].at

\* A visit that begins at t comes too early after visit i.
Eager(p, i, t) == \E a \in Int : /\ AskedLast(p, i, a)
                                 /\ t - p[i].at <= a
                                 /\ t - p[i].at <= DefaultInterval

EagerInv ==
    \A i, j \in 2..Len(past) : i < j => ~Eager(past, i, past[j].from)

LEMMA AskedKept ==
    ASSUME NEW p \in Seq(Visit), NEW e \in Visit, NEW i \in 1..Len(p), NEW a
    PROVE  AskedLast(Append(p, e), i, a) <=> AskedLast(p, i, a)
  BY Grown DEF AskedLast

LEMMA AskedNext ==
    ASSUME NEW p \in Seq(Visit), NEW e \in Visit, p # <<>>, NEW a
    PROVE  /\ e.asked # None => AskedLast(Append(p, e), Len(p) + 1, e.asked)
           /\ e.asked = None /\ AskedLast(p, Len(p), a)
                => AskedLast(Append(p, e), Len(p) + 1, a)
  <1> DEFINE q == Append(p, e)
  <1>1. /\ Len(p) \in Nat /\ Len(q) = Len(p) + 1 /\ q[Len(p) + 1] = e
        /\ \A i \in 1..Len(p) : q[i] = p[i]
    BY Grown
  <1> HIDE DEF q
  <1>2. e.asked # None => AskedLast(q, Len(p) + 1, e.asked)
    BY <1>1 DEF AskedLast
  <1>3. ASSUME e.asked = None, AskedLast(p, Len(p), a)
        PROVE  AskedLast(q, Len(p) + 1, a)
    <2>1. PICK k \in 1..Len(p) : /\ p[k].asked = a /\ a # None
                                 /\ \A j \in 1..Len(p) : j > k => p[j].asked = None
      BY <1>3 DEF AskedLast
    <2>2. \A j \in 1..Len(p) + 1 : j > k => q[j].asked = None
      BY <1>1, <1>3, <2>1
    <2> QED
      BY <1>1, <2>1, <2>2 DEF AskedLast
  <1> QED
    BY <1>2, <1>3 DEF q

LEMMA AskStep == TypeOK /\ PastInv /\ HandInv /\ AskInv /\ [Next]_vars => AskInv'
  <1> SUFFICES ASSUME TypeOK, PastInv, HandInv, AskInv, [Next]_vars
               PROVE  AskInv'
    OBVIOUS
  <1>0. past \in Seq(Visit) /\ Len(past) \in Nat
    BY Typed
  <1>1. CASE Passes \/ Ends \/ Begins
    BY <1>1 DEF Passes, Ends, Begins, AskInv
  <1>2. CASE Enters
    <2>1. PICK v : Follows(v) /\ ListedAs(v) /\ past' = Append(past, v)
      BY <1>2 DEF Enters
    <2>2. v \in Visit /\ v.asked \in Int /\ v.asked # None
      BY <2>1, BoundsHold DEF Follows, ListedAs, Bounds
    <2>3. Len(past) = 1 /\ past # <<>>
      BY <1>2 DEF Enters, PastInv
    <2>4. Len(past') = 2 /\ past'[2] = v
      BY <2>1, <2>2, <2>3, Appended
    <2>5. AskedLast(past', 2, v.asked)
      <3>1. AskedLast(Append(past, v), Len(past) + 1, v.asked)
        BY <1>0, <2>2, <2>3, AskedNext
      <3>2. Len(past) + 1 = 2
        BY <2>3
      <3> QED
        BY <2>1, <3>1, <3>2
    <2>6. row'.interval = v.asked /\ row'.lastChecked = v.at
      BY <2>1 DEF ListedAs
    <2> QED
      BY <2>2, <2>4, <2>5, <2>6 DEF AskInv
  <1>3. CASE Rechecks
    <2>1. PICK v : Follows(v) /\ Due(v) /\ VisitedAs(row, row', v) /\ past' = Append(past, v)
      BY <1>3 DEF Rechecks
    <2> DEFINE n == Len(past)
    <2>2. v \in Visit /\ (v.asked = None \/ v.asked \in Int)
      BY <2>1, BoundsHold DEF Follows, Visit, Bounds
    <2>3. row # None /\ n >= 2 /\ past # <<>>
      BY <2>1, BoundsHold DEF Due, PastInv, Bounds
    <2>4. Len(past') = n + 1 /\ past'[n + 1] = v
      BY <2>1, <2>2, Appended
    <2>5. \A i \in 1..n, a \in Int : AskedLast(past, i, a) => AskedLast(past', i, a)
      BY <1>0, <2>1, <2>2, AskedKept
    <2>6. /\ v.asked # None => AskedLast(past', n + 1, v.asked)
          /\ \A a : v.asked = None /\ AskedLast(past, n, a) => AskedLast(past', n + 1, a)
      BY <1>0, <2>1, <2>2, <2>3, AskedNext
    <2>7. \A i \in 2..n : \E a \in Int : AskedLast(past', i, a)
      BY <1>0, <2>3, <2>5 DEF AskInv
    <2>8. \E a \in Int : AskedLast(past', n + 1, a)
      BY <1>0, <2>2, <2>3, <2>6 DEF AskInv
    <2>9. row'.interval = DefaultInterval \/ AskedLast(past', n + 1, row'.interval)
      BY <2>1, <2>3, <2>6 DEF AskInv, VisitedAs
    <2>10. row'.lastChecked = v.at
      BY <2>1 DEF VisitedAs
    <2> QED
      BY <1>0, <2>4, <2>7, <2>8, <2>9, <2>10 DEF AskInv
  <1> QED
    BY <1>1, <1>2, <1>3, StepKinds

\* A visit that begins when the interval of the row has passed is not too early with
\* respect to any before it.
LEMMA DueNotEager ==
    ASSUME TypeOK, PastInv, AskInv, EagerInv, NEW v, Follows(v), Due(v),
           NEW i \in 2..Len(past)
    PROVE  ~Eager(past, i, v.from)
  <1> DEFINE n == Len(past)
  <1>1. /\ n \in Nat /\ i \in 1..n /\ n \in 1..n /\ DefaultInterval \in Int /\ v.from \in Int
        /\ past[i].at \in Int /\ past[n].at \in Int /\ past[n].from \in Int
    BY Times, BoundsHold DEF Bounds, Follows
  <1>2. /\ row # None /\ row.lastChecked = past[n].at /\ row.interval \in Int
        /\ v.from - past[n].at > row.interval
    BY Times, BoundsHold DEF Bounds, Due, AskInv
  <1> SUFFICES ASSUME NEW a \in Int, AskedLast(past, i, a),
                      v.from - past[i].at <= a, v.from - past[i].at <= DefaultInterval
               PROVE  FALSE
    BY DEF Eager
  <1>3. CASE i = n
    <2>1. \A b : AskedLast(past, n, b) => b = a
      BY <1>1, <1>3 DEF AskedLast
    <2>2. row.interval = DefaultInterval \/ row.interval = a
      BY <1>2, <2>1 DEF AskInv
    <2> QED
      BY <1>1, <1>2, <1>3, <2>2
  <1>4. CASE i # n
    <2>1. n \in 2..n /\ i < n
      BY <1>1, <1>4
    <2>2. ~Eager(past, i, past[n].from)
      BY <2>1 DEF EagerInv
    <2>3. past[n].from - past[i].at > a \/ past[n].from - past[i].at > DefaultInterval
      BY <1>1, <2>2 DEF Eager
    <2>4. past[n].from <= past[n].at /\ past[n].at <= v.from
      BY <1>1 DEF PastInv, Follows
    <2> QED
      BY <1>1, <2>3, <2>4
  <1> QED
    BY <1>3, <1>4

LEMMA EagerStep ==
    TypeOK /\ PastInv /\ HandInv /\ AskInv /\ EagerInv /\ [Next]_vars => EagerInv'
  <1> SUFFICES ASSUME TypeOK, PastInv, HandInv, AskInv, EagerInv, [Next]_vars
               PROVE  EagerInv'
    OBVIOUS
  <1>0. past \in Seq(Visit) /\ Len(past) \in Nat
    BY Typed
  <1>1. CASE Passes \/ Ends
    BY <1>1 DEF Passes, Ends, EagerInv
  <1>2. CASE Begins
    <2>1. Len(past') = 1
      BY <1>2 DEF Begins
    <2> QED
      BY <2>1 DEF EagerInv
  <1>3. CASE Enters
    <2>1. PICK v : Follows(v) /\ ListedAs(v) /\ past' = Append(past, v)
      BY <1>3 DEF Enters
    <2>2. Len(past') = 2
      <3>1. Len(past) = 1
        BY <1>3 DEF Enters, PastInv
      <3>2. v \in Visit
        BY <2>1 DEF Follows
      <3> QED
        BY <2>1, <3>1, <3>2, Appended
    <2> QED
      BY <2>2 DEF EagerInv
  <1>4. CASE Rechecks
    <2>1. PICK v : Follows(v) /\ Due(v) /\ VisitedAs(row, row', v) /\ past' = Append(past, v)
      BY <1>4 DEF Rechecks
    <2> DEFINE n == Len(past)
    <2>2. v \in Visit
      BY <2>1 DEF Follows
    <2>3. /\ Len(past') = n + 1 /\ past'[n + 1] = v
          /\ \A i \in 1..n : past'[i] = past[i]
      BY <2>1, <2>2, Appended
    <2>4. \A i \in 1..n : \A a : AskedLast(past', i, a) <=> AskedLast(past, i, a)
      BY <1>0, <2>1, <2>2, AskedKept
    <2>5. \A i \in 2..n : \A t : Eager(past', i, t) <=> Eager(past, i, t)
      <3>1. \A i \in 2..n : i \in 1..n
        BY <1>0
      <3> QED
        BY <2>3, <2>4, <3>1 DEF Eager
    <2>6. ASSUME NEW i \in 2..n + 1, NEW j \in 2..n + 1, i < j
          PROVE  ~Eager(past', i, past'[j].from)
      <3>1. i \in 2..n
        BY <1>0, <2>6
      <3>2. CASE j = n + 1
        <4>1. ~Eager(past, i, v.from)
          BY <2>1, <3>1, DueNotEager
        <4> QED
          BY <2>3, <2>5, <3>1, <3>2, <4>1
      <3>3. CASE j # n + 1
        <4>1. j \in 2..n /\ j \in 1..n
          BY <1>0, <3>3
        <4>2. ~Eager(past, i, past[j].from)
          BY <2>6, <3>1, <4>1 DEF EagerInv
        <4> QED
          BY <2>3, <2>5, <3>1, <4>1, <4>2
      <3> QED
        BY <3>2, <3>3
    <2> QED
      BY <2>3, <2>6 DEF EagerInv
  <1> QED
    BY <1>1, <1>2, <1>3, <1>4, StepKinds

LEMMA LastIsOfAsked ==
    ASSUME TypeOK, PastInv, AskInv, NEW i \in Attempts
    PROVE  /\ row # None /\ i \in 2..Len(past)
           /\ AskedBy(i) \in Int /\ AskedLast(past, i, AskedBy(i))
  <1>1. /\ Len(past) \in Nat /\ i \in 1..Len(past)
        /\ past[i].kind \in {"listed", "up", "down", "unresolved"}
    BY Typed DEF Attempts, Where
  <1>2. past # <<>> /\ past[1].kind = "submitted"
    BY <1>1 DEF PastInv
  <1>3. i # 1 /\ Len(past) >= 2
    BY <1>1, <1>2
  <1>4. row # None
    BY <1>2, <1>3 DEF PastInv
  <1>5. i \in 2..Len(past)
    BY <1>1, <1>3
  <1>6. PICK a \in Int : AskedLast(past, i, a)
    BY <1>4, <1>5 DEF AskInv
  <1>7. PICK k \in 1..i : /\ past[k].asked = a /\ a # None
                          /\ \A m \in 1..i : m > k => past[m].asked = None
    BY <1>6 DEF AskedLast
  <1> DEFINE asking == {m \in 1..i : past[m].asked # None}
  <1>8. asking \in SUBSET Int /\ k \in asking /\ \A m \in asking : m <= k
    BY <1>1, <1>7
  <1>9. AskedBy(i) = a
    BY <1>7, <1>8, LastIs DEF AskedBy
  <1> QED
    BY <1>4, <1>5, <1>6, <1>9

\* After a visit that was written, the next one to the tracker, whether it is written or
\* cut, begins later than the interval asked for, unless that is longer than the default.
THEOREM NotTooEager == Spec => []NeverTooEager
  <1>1. TypeOK /\ PastInv /\ HandInv /\ AskInv /\ EagerInv => NeverTooEager
    <2> SUFFICES ASSUME TypeOK, PastInv, HandInv, AskInv, EagerInv,
                        NEW i \in Attempts, NEW j \in DOMAIN Visits, i < j
                 PROVE  \/ Visits[j].from - past[i].at > AskedBy(i)
                        \/ Visits[j].from - past[i].at > DefaultInterval
      BY DEF NeverTooEager
    <2> DEFINE n == Len(past)
               t == Visits[j].from
    <2>1. /\ row # None /\ i \in 2..n /\ n \in Nat
          /\ AskedBy(i) \in Int /\ AskedLast(past, i, AskedBy(i))
      BY LastIsOfAsked, Typed
    <2>2. ~Eager(past, i, t) /\ t \in Int
      <3>1. CASE j \in 1..n
        <4>1. Visits[j] = past[j]
          <5>1. visit \in Visit \cup {None} /\ past \in Seq(Visit)
            BY Zenon DEF TypeOK
          <5>2. CASE visit = None
            BY <5>2 DEF Visits
          <5>3. CASE visit # None
            <6>1. visit \in Visit /\ Visits = Append(past, visit)
              BY <5>1, <5>3 DEF Visits
            <6> QED
              BY <3>1, <5>1, <6>1, Grown
          <5> QED
            BY <5>2, <5>3
        <4>2. j \in 2..n
          BY <2>1, <3>1
        <4> QED
          BY <2>1, <3>1, <4>1, <4>2, Times DEF EagerInv
      <3>2. CASE j \notin 1..n
        <4>1. visit # None
          BY <2>1, <3>2, Typed DEF Visits
        <4>2. visit \in Visit
          BY <4>1 DEF TypeOK
        <4>3. Visits[j] = visit
          <5>1. past \in Seq(Visit) /\ Visits = Append(past, visit)
            BY <4>1, Typed DEF Visits
          <5>2. j \in 1..n + 1
            BY <4>2, <5>1, Grown
          <5>3. j = n + 1
            BY <2>1, <3>2, <5>2
          <5> QED
            BY <4>2, <5>1, <5>3, Grown
        <4>4. ~Waiting
          BY <2>1 DEF PastInv
        <4>5. Follows(visit) /\ Due(visit)
          BY <4>1, <4>4 DEF HandInv, Sought, Waiting, TypeOK
        <4>6. ~Eager(past, i, visit.from)
          BY <2>1, <4>5, DueNotEager
        <4> QED
          BY <4>2, <4>3, <4>6, Times
      <3> QED
        BY <3>1, <3>2
    <2>3. past[i].at \in Int /\ DefaultInterval \in Int
      <3>1. i \in 1..n
        BY <2>1
      <3> QED
        BY <3>1, Times, BoundsHold DEF Bounds
    <2> HIDE DEF t
    <2>4. t - past[i].at > AskedBy(i) \/ t - past[i].at > DefaultInterval
      BY <2>1, <2>2, <2>3 DEF Eager
    <2> QED
      BY <2>4 DEF t
  <1>2. Init => AskInv /\ EagerInv
    BY DEF Init, AskInv, EagerInv
  <1> QED
    BY <1>1, <1>2, AskStep, EagerStep, LifeAlways, PTL DEF Spec

-----------------------------------------------------------------------------
(* What the row tells of the attempts. *)

Succeeds(p, i) == p[i].kind \in {"listed", "up"}

\* historic holds the outcomes of the last attempts, all of them or HistMax.
HistoryTells(p, h) ==
    /\ h \in Seq(0..1) /\ 1 <= Len(h) /\ Len(h) <= HistMax /\ Len(h) <= Len(p) - 1
    /\ Len(h) = Len(p) - 1 \/ Len(h) = HistMax
    /\ \A k \in 1..Len(h) : h[k] = 1 <=> Succeeds(p, Len(p) - Len(h) + k)

\* The times of the last attempts of either kind.
UpTells(p, t) ==
    \E u \in 2..Len(p) : /\ Succeeds(p, u) /\ t = p[u].done
                         /\ \A j \in 2..Len(p) : j > u => ~Succeeds(p, j)

DownTells(p, t) ==
    (\E d \in 2..Len(p) : ~Succeeds(p, d)) =>
       \E d \in 2..Len(p) : /\ ~Succeeds(p, d) /\ t = p[d].done
                            /\ \A j \in 2..Len(p) : j > d => Succeeds(p, j)

RowInv ==
    row # None =>
      /\ HistoryTells(past, row.historic)
      /\ row.uptime = UptimeOf(row.historic)
      /\ row.status = 1 <=> Succeeds(past, Len(past))
      /\ UpTells(past, row.lastUp)
      /\ DownTells(past, row.lastDown)

\* A push keeps pace with one more attempt.
LEMMA HistoryPushed ==
    ASSUME NEW p \in Seq(Visit), NEW e \in Visit, NEW h, HistoryTells(p, h),
           NEW s \in 0..1, s = 1 <=> e.kind \in {"listed", "up"}
    PROVE  HistoryTells(Append(p, e), Push(h, s))
  <1> DEFINE q == Append(p, e)
             g == Push(h, s)
  <1>1. /\ Len(p) \in Nat /\ Len(q) = Len(p) + 1 /\ q[Len(p) + 1] = e
        /\ \A i \in 1..Len(p) : q[i] = p[i]
    BY Grown
  <1>2. /\ h \in Seq(0..1) /\ Len(h) \in Nat /\ 1 <= Len(h) /\ Len(h) <= HistMax
        /\ Len(h) <= Len(p) - 1 /\ (Len(h) = Len(p) - 1 \/ Len(h) = HistMax)
        /\ \A k \in 1..Len(h) : h[k] = 1 <=> Succeeds(p, Len(p) - Len(h) + k)
    BY DEF HistoryTells
  <1>3. /\ g \in Seq(0..1)
        /\ Len(g) = IF Len(h) < HistMax THEN Len(h) + 1 ELSE HistMax
        /\ g[Len(g)] = s
        /\ \A k \in 1..Len(g) - 1 : g[k] = h[k + (Len(h) + 1 - Len(g))]
    BY <1>2, PushOf
  <1>4. HistMax \in Nat
    BY BoundsHold DEF Bounds
  <1> HIDE DEF q, g
  <1>5. /\ 1 <= Len(g) /\ Len(g) <= HistMax /\ Len(g) <= Len(q) - 1 /\ Len(g) \in Nat
        /\ Len(g) = Len(q) - 1 \/ Len(g) = HistMax
    BY <1>1, <1>2, <1>3, <1>4
  <1>6. ASSUME NEW k \in 1..Len(g)
        PROVE  g[k] = 1 <=> Succeeds(q, Len(q) - Len(g) + k)
    <2>1. CASE k = Len(g)
      <3>1. Len(q) - Len(g) + k = Len(p) + 1
        BY <1>1, <1>5, <2>1
      <3>2. Succeeds(q, Len(p) + 1) <=> s = 1
        BY <1>1 DEF Succeeds
      <3>3. g[k] = s
        BY <1>3, <2>1
      <3> QED
        BY <3>1, <3>2, <3>3
    <2>2. CASE k # Len(g)
      <3> DEFINE l == k + (Len(h) + 1 - Len(g))
                 i == Len(p) - Len(h) + l
      <3>1. k \in 1..Len(g) - 1 /\ l \in 1..Len(h)
        BY <1>2, <1>3, <1>4, <1>5, <2>2
      <3>2. i \in 1..Len(p) /\ i = Len(q) - Len(g) + k
        BY <1>1, <1>2, <1>5, <3>1
      <3>3. g[k] = h[l] /\ (h[l] = 1 <=> Succeeds(p, i))
        BY <1>2, <1>3, <3>1
      <3>4. Succeeds(q, i) <=> Succeeds(p, i)
        BY <1>1, <3>2 DEF Succeeds
      <3> HIDE DEF l, i
      <3> QED
        BY <3>2, <3>3, <3>4
    <2> QED
      BY <2>1, <2>2
  <1> QED
    BY <1>3, <1>5, <1>6 DEF HistoryTells, q, g

\* One more attempt is the last of its kind and leaves the last of the other kind.
LEMMA TimesTell ==
    ASSUME NEW p \in Seq(Visit), NEW e \in Visit, Len(p) >= 1, NEW u, NEW d,
           UpTells(p, u) \/ Succeeds(Append(p, e), Len(p) + 1), DownTells(p, d)
    PROVE  LET up == Succeeds(Append(p, e), Len(p) + 1) IN
           /\ UpTells(Append(p, e), IF up THEN e.done ELSE u)
           /\ DownTells(Append(p, e), IF up THEN d ELSE e.done)
  <1> DEFINE q == Append(p, e)
             n == Len(p)
  <1>1. /\ n \in Nat /\ n >= 1 /\ Len(q) = n + 1 /\ q[n + 1] = e
        /\ \A i \in 1..n : q[i] = p[i]
    BY Grown
  <1>2. \A i \in 1..n : Succeeds(q, i) <=> Succeeds(p, i)
    BY <1>1 DEF Succeeds
  <1> HIDE DEF q
  <1>3. CASE Succeeds(q, n + 1)
    <2>1. UpTells(q, e.done)
      BY <1>1, <1>3 DEF UpTells
    <2>2. DownTells(q, d)
      <3> SUFFICES ASSUME NEW j \in 2..n + 1, ~Succeeds(q, j)
                   PROVE  \E i \in 2..n + 1 :
                             /\ ~Succeeds(q, i) /\ d = q[i].done
                             /\ \A l \in 2..n + 1 : l > i => Succeeds(q, l)
        BY <1>1 DEF DownTells
      <3>1. j \in 2..n /\ ~Succeeds(p, j)
        BY <1>1, <1>2, <1>3
      <3>2. PICK i \in 2..n : /\ ~Succeeds(p, i) /\ d = p[i].done
                              /\ \A l \in 2..n : l > i => Succeeds(p, l)
        BY <3>1 DEF DownTells
      <3>3. i \in 2..n + 1 /\ i \in 1..n
        BY <1>1
      <3>4. ~Succeeds(q, i) /\ d = q[i].done
        BY <1>1, <1>2, <3>2, <3>3
      <3>5. \A l \in 2..n + 1 : l = n + 1 \/ (l \in 2..n /\ l \in 1..n)
        BY <1>1
      <3>6. \A l \in 2..n + 1 : l > i => Succeeds(q, l)
        BY <1>2, <1>3, <3>2, <3>5
      <3> QED
        BY <3>3, <3>4, <3>6
    <2> QED
      BY <1>3, <2>1, <2>2 DEF q
  <1>4. CASE ~Succeeds(q, n + 1)
    <2>1. DownTells(q, e.done)
      BY <1>1, <1>4 DEF DownTells
    <2>2. UpTells(q, u)
      <3>1. PICK i \in 2..n : /\ Succeeds(p, i) /\ u = p[i].done
                              /\ \A j \in 2..n : j > i => ~Succeeds(p, j)
        BY <1>4 DEF UpTells, q
      <3>2. \A j \in 2..n + 1 : j > i => ~Succeeds(q, j)
        BY <1>1, <1>2, <1>4, <3>1
      <3>3. i \in 2..n + 1 /\ Succeeds(q, i) /\ u = q[i].done
        BY <1>1, <1>2, <3>1
      <3> QED
        BY <1>1, <3>2, <3>3 DEF UpTells
    <2> QED
      BY <1>4, <2>1, <2>2 DEF q
  <1> QED
    BY <1>3, <1>4

LEMMA RowStep == TypeOK /\ PastInv /\ HandInv /\ RowInv /\ [Next]_vars => RowInv'
  <1> SUFFICES ASSUME TypeOK, PastInv, HandInv, RowInv, [Next]_vars
               PROVE  RowInv'
    OBVIOUS
  <1>0. past \in Seq(Visit) /\ Len(past) \in Nat
    BY Typed
  <1>1. CASE Passes \/ Ends \/ Begins
    BY <1>1 DEF Passes, Ends, Begins, RowInv
  <1>2. CASE Enters
    <2>1. PICK v : Follows(v) /\ ListedAs(v) /\ past' = Append(past, v)
      BY <1>2 DEF Enters
    <2>2. v \in Visit /\ v.kind = "listed"
      BY <2>1 DEF Follows, ListedAs
    <2>4. Len(past) = 1
      BY <1>2 DEF Enters, PastInv
    <2>5. Len(past') = 2 /\ past'[2] = v
      BY <2>1, <2>2, <2>4, Appended
    <2>6. Succeeds(past', 2)
      BY <2>2, <2>5 DEF Succeeds
    <2>7. HistoryTells(past', row'.historic)
      <3>1. row'.historic = <<1>>
        BY <2>1 DEF ListedAs
      <3>2. <<1>> \in Seq(0..1) /\ Len(<<1>>) = 1 /\ <<1>>[1] = 1
        OBVIOUS
      <3>3. HistMax >= 1 /\ HistMax \in Nat
        BY BoundsHold DEF Bounds
      <3>4. \A k \in 1..1 : k = 1 /\ 2 - 1 + k = 2
        OBVIOUS
      <3> QED
        BY <2>5, <2>6, <3>1, <3>2, <3>3, <3>4 DEF HistoryTells
    <2>8. UpTells(past', v.done) /\ DownTells(past', row'.lastDown)
      <3>1. \A j \in 2..2 : j = 2
        OBVIOUS
      <3> QED
        BY <2>2, <2>5, <2>6, <3>1 DEF UpTells, DownTells
    <2> QED
      BY <2>1, <2>5, <2>6, <2>7, <2>8 DEF ListedAs, RowInv
  <1>3. CASE Rechecks
    <2>1. PICK v : Follows(v) /\ Due(v) /\ VisitedAs(row, row', v) /\ past' = Append(past, v)
      BY <1>3 DEF Rechecks
    <2> DEFINE n == Len(past)
               s == IF v.kind = "up" THEN 1 ELSE 0
    <2>2. v \in Visit /\ v.kind \in {"up", "down", "unresolved"}
      BY <2>1 DEF Follows, VisitedAs
    <2>4. row # None /\ n >= 1
      BY <1>0, <2>1, BoundsHold DEF Due, PastInv, Bounds
    <2>5. Len(past') = n + 1 /\ past'[n + 1] = v
      BY <2>1, <2>2, Appended
    <2>6. Succeeds(past', n + 1) <=> v.kind = "up"
      BY <2>2, <2>5 DEF Succeeds
    <2>7. s \in 0..1 /\ (s = 1 <=> v.kind \in {"listed", "up"})
      BY <2>2
    <2>8. HistoryTells(past', Push(row.historic, s))
      <3>1. HistoryTells(past, row.historic)
        BY <2>4 DEF RowInv
      <3> HIDE DEF s
      <3> QED
        BY <1>0, <2>2, <2>1, <2>7, <3>1, HistoryPushed
    <2>9. /\ UpTells(past', IF v.kind = "up" THEN v.done ELSE row.lastUp)
          /\ DownTells(past', IF v.kind = "up" THEN row.lastDown ELSE v.done)
      <3>1. UpTells(past, row.lastUp) /\ DownTells(past, row.lastDown)
        BY <2>4 DEF RowInv
      <3>2. LET up == Succeeds(Append(past, v), n + 1) IN
            /\ UpTells(Append(past, v), IF up THEN v.done ELSE row.lastUp)
            /\ DownTells(Append(past, v), IF up THEN row.lastDown ELSE v.done)
        BY <1>0, <2>2, <2>4, <3>1, TimesTell
      <3> QED
        BY <2>2, <2>1, <2>6, <3>2
    <2>10. row'.status = 1 <=> v.kind = "up"
      BY <2>1 DEF VisitedAs
    <2> QED
      BY <2>1, <2>5, <2>6, <2>8, <2>9, <2>10 DEF VisitedAs, RowInv
  <1> QED
    BY <1>1, <1>2, <1>3, StepKinds

\* The last m of n - 1 attempts.
LEMMA Windowed ==
    ASSUME NEW n \in Nat, NEW m \in Nat, NEW max \in Nat,
           1 <= m, m <= max, m <= n - 1, m = n - 1 \/ m = max
    PROVE  /\ {i \in 2..n : n - i < max} = n - m + 1..n
           /\ \A i \in n - m + 1..n : i \in 2..n
           /\ Cardinality(n - m + 1..n) = m
           /\ \A i \in 2..n : Cardinality({j \in 2..n : j > i}) = n - i
  <1>1. \A i \in 2..n : n - i < max <=> i \in n - m + 1..n
    OBVIOUS
  <1>2. \A i \in n - m + 1..n : i \in 2..n
    OBVIOUS
  <1>3. {i \in 2..n : n - i < max} = n - m + 1..n
    <2> DEFINE w == n - m + 1..n
    <2>1. \A i \in 2..n : n - i < max <=> i \in w
      BY <1>1
    <2>2. \A i \in w : i \in 2..n
      BY <1>2
    <2> HIDE DEF w
    <2>3. {i \in 2..n : n - i < max} = w
      BY <2>1, <2>2
    <2> QED
      BY <2>3 DEF w
  <1>4. Cardinality(n - m + 1..n) = m
    <2>1. n - m + 1 \in Int /\ n \in Int
      OBVIOUS
    <2>2. Cardinality(n - m + 1..n) = IF n - m + 1 > n THEN 0 ELSE n - (n - m + 1) + 1
      BY <2>1, FS_Interval
    <2>3. ~(n - m + 1 > n) /\ n - (n - m + 1) + 1 = m
      OBVIOUS
    <2> QED
      BY <2>2, <2>3
  <1>5. ASSUME NEW i \in 2..n
        PROVE  Cardinality({j \in 2..n : j > i}) = n - i
    <2>1. {j \in 2..n : j > i} = i + 1..n
      OBVIOUS
    <2>2. i + 1 \in Int /\ n \in Int
      OBVIOUS
    <2>3. Cardinality(i + 1..n) = IF i + 1 > n THEN 0 ELSE n - (i + 1) + 1
      BY <2>2, FS_Interval
    <2>4. (IF i + 1 > n THEN 0 ELSE n - (i + 1) + 1) = n - i
      OBVIOUS
    <2> QED
      BY <2>1, <2>3, <2>4
  <1> QED
    BY <1>2, <1>3, <1>4, <1>5

\* The ones of historic are the successes among the attempts it holds.
LEMMA SameCount ==
    ASSUME NEW p \in Seq(Visit), NEW h, HistoryTells(p, h)
    PROVE  Cardinality({i \in Len(p) - Len(h) + 1..Len(p) : Succeeds(p, i)}) = UptimeOf(h).up
  <1> DEFINE ups == {k \in DOMAIN h : h[k] = 1}
             window == {i \in Len(p) - Len(h) + 1..Len(p) : Succeeds(p, i)}
             n == Len(p)
             m == Len(h)
             f == [k \in ups |-> n - m + k]
  <1>1. /\ n \in Nat /\ m \in Nat /\ m <= n - 1 /\ DOMAIN h = 1..m
        /\ \A k \in 1..m : h[k] = 1 <=> Succeeds(p, n - m + k)
    BY DEF HistoryTells
  <1>2. IsFiniteSet(ups)
    <2>1. IsFiniteSet(1..m)
      <3>1. 1 \in Int /\ m \in Int
        BY <1>1
      <3> QED
        BY <3>1, FS_Interval
    <2>2. ups \in SUBSET (1..m)
      BY <1>1
    <2> QED
      BY <2>1, <2>2, FS_Subset
  <1>3. f \in Bijection(ups, window)
    <2>1. ups = {k \in 1..m : h[k] = 1}
      BY <1>1
    <2>2. \A k \in ups : n - m + k \in window
      BY <1>1, <2>1
    <2>3. f \in [ups -> window]
      BY <2>2
    <2>4. \A k, l \in ups : n - m + k = n - m + l => k = l
      BY <1>1, <2>1
    <2>5. ASSUME NEW i \in window
          PROVE  \E k \in ups : n - m + k = i
      <3>1. i - (n - m) \in 1..m /\ n - m + (i - (n - m)) = i /\ Succeeds(p, i)
        BY <1>1
      <3>2. i - (n - m) \in ups
        BY <1>1, <2>1, <3>1
      <3> QED
        BY <3>1, <3>2
    <2>6. f \in Injection(ups, window)
      BY <2>3, <2>4 DEF Injection, IsInjective
    <2>7. f \in Surjection(ups, window)
      BY <2>3, <2>5 DEF Surjection
    <2> QED
      BY <2>6, <2>7 DEF Bijection
  <1>4. ExistsBijection(ups, window)
    BY <1>3 DEF ExistsBijection
  <1> HIDE DEF ups, window
  <1>5. Cardinality(window) = Cardinality(ups)
    BY <1>2, <1>4, FS_Bijection
  <1> QED
    BY <1>5 DEF UptimeOf, ups, window

\* All that happened after the submission are attempts.
LEMMA AttemptsAre ==
    ASSUME TypeOK, PastInv, row # None
    PROVE  /\ past \in Seq(Visit) /\ Len(past) \in Nat /\ Len(past) >= 2
           /\ DOMAIN past = 1..Len(past) /\ past[1].kind = "submitted"
           /\ Attempts = 2..Len(past) /\ LastOf(Attempts) = Len(past)
  <1> DEFINE n == Len(past)
  <1>1. /\ past \in Seq(Visit) /\ n \in Nat /\ n >= 2 /\ DOMAIN past = 1..n
        /\ past[1].kind = "submitted" /\ past[2].kind = "listed"
        /\ \A i \in 3..n : past[i].kind \in {"up", "down", "unresolved"}
    <2>1. past \in Seq(Visit) /\ n >= 2
      BY Typed DEF PastInv
    <2>2. past # <<>>
      BY <2>1
    <2> QED
      BY <2>1, <2>2 DEF PastInv
  <1>2. Attempts = 2..n
    <2>1. \A i \in 1..n : i \in 2..n <=> i # 1
      BY <1>1
    <2>2. \A i \in 2..n : i = 2 \/ i \in 3..n
      BY <1>1
    <2>3. \A i \in 2..n : past[i].kind \in {"listed", "up", "down", "unresolved"}
      BY <1>1, <2>2
    <2>4. \A i \in 1..n : past[i].kind \in {"listed", "up", "down", "unresolved"} <=> i # 1
      BY <1>1, <2>1, <2>3
    <2>5. \A i \in 2..n : i \in 1..n
      BY <1>1
    <2> QED
      BY <1>1, <2>1, <2>4, <2>5 DEF Attempts, Where
  <1>3. LastOf(Attempts) = n
    <2>1. Attempts \in SUBSET Int /\ n \in Attempts /\ \A j \in Attempts : j <= n
      BY <1>1, <1>2
    <2> QED
      BY <2>1, LastIs
  <1> QED
    BY <1>1, <1>2, <1>3

LEMMA RowTells ==
    TypeOK /\ PastInv /\ AskInv /\ RowInv => RowTellsLastAttempts
  <1> SUFFICES ASSUME TypeOK, PastInv, AskInv, RowInv, row # None
               PROVE  LET downs == Attempts \ Successes IN
                      /\ row.uptime = [up |-> Cardinality(Counted \cap Successes),
                                       of |-> Cardinality(Counted)]
                      /\ row.status = 1 <=> LastOf(Attempts) \in Successes
                      /\ row.lastUp = past[LastOf(Successes)].done
                      /\ downs # {} => row.lastDown = past[LastOf(downs)].done
                      /\ row.lastChecked = past[LastOf(Attempts)].at
    BY DEF RowTellsLastAttempts
  <1> DEFINE n == Len(past)
             m == Len(row.historic)
             downs == Attempts \ Successes
  <1>1. /\ past \in Seq(Visit) /\ n \in Nat /\ n >= 2 /\ DOMAIN past = 1..n
        /\ past[1].kind = "submitted"
    BY AttemptsAre
  <1>2. Attempts = 2..n /\ LastOf(Attempts) = n
    BY AttemptsAre
  <1>3. Successes = {i \in 2..n : Succeeds(past, i)}
    <2>1. \A i \in 1..n : Succeeds(past, i) => i \in 2..n
      BY <1>1 DEF Succeeds
    <2>2. \A i \in 2..n : i \in 1..n
      BY <1>1
    <2> QED
      BY <1>1, <2>1, <2>2 DEF Successes, Where, Succeeds
  <1>4. /\ HistoryTells(past, row.historic) /\ row.uptime = UptimeOf(row.historic)
        /\ row.status = 1 <=> Succeeds(past, n)
        /\ UpTells(past, row.lastUp) /\ DownTells(past, row.lastDown)
        /\ row.lastChecked = past[n].at
    BY DEF RowInv, AskInv
  <1>5. /\ m \in Nat /\ 1 <= m /\ m <= HistMax /\ m <= n - 1 /\ HistMax \in Nat
        /\ m = n - 1 \/ m = HistMax
    BY <1>4, BoundsHold DEF HistoryTells, Bounds
  <1>6. /\ {i \in 2..n : n - i < HistMax} = n - m + 1..n
        /\ \A i \in n - m + 1..n : i \in 2..n
        /\ Cardinality(n - m + 1..n) = m
        /\ \A i \in 2..n : Cardinality({j \in 2..n : j > i}) = n - i
    <2> HIDE DEF n, m
    <2> QED
      BY <1>1, <1>5, Windowed
  <1>7. Counted = n - m + 1..n /\ Cardinality(Counted) = m
    <2>1. Counted = {i \in 2..n : Cardinality({j \in 2..n : j > i}) < HistMax}
      BY <1>2 DEF Counted
    <2>2. Counted = {i \in 2..n : n - i < HistMax}
      BY <1>6, <2>1
    <2> QED
      BY <1>6, <2>2
  <1>8. Counted \cap Successes = {i \in n - m + 1..n : Succeeds(past, i)}
    <2> DEFINE w == n - m + 1..n
    <2>1. Counted = w /\ \A i \in w : i \in 2..n
      BY <1>6, <1>7
    <2> HIDE DEF w
    <2>2. Counted \cap Successes = {i \in w : Succeeds(past, i)}
      BY <1>3, <2>1
    <2> QED
      BY <2>2 DEF w
  <1>9. row.uptime = [up |-> Cardinality(Counted \cap Successes),
                      of |-> Cardinality(Counted)]
    <2>1. UptimeOf(row.historic).up = Cardinality(Counted \cap Successes)
      BY <1>1, <1>4, <1>8, SameCount
    <2>2. UptimeOf(row.historic) = [up |-> UptimeOf(row.historic).up, of |-> m]
      BY DEF UptimeOf
    <2> QED
      BY <1>4, <1>7, <2>1, <2>2
  <1>11. row.status = 1 <=> LastOf(Attempts) \in Successes
    BY <1>1, <1>2, <1>3, <1>4
  <1>12. row.lastUp = past[LastOf(Successes)].done
    <2>1. PICK u \in 2..n : /\ Succeeds(past, u) /\ row.lastUp = past[u].done
                            /\ \A j \in 2..n : j > u => ~Succeeds(past, j)
      BY <1>4 DEF UpTells
    <2>2. Successes \in SUBSET Int /\ u \in Successes /\ \A j \in Successes : j <= u
      BY <1>1, <1>3, <2>1
    <2>3. LastOf(Successes) = u
      BY <2>2, LastIs
    <2> QED
      BY <2>1, <2>3
  <1>13. ASSUME downs # {}
         PROVE  row.lastDown = past[LastOf(downs)].done
    <2>1. downs = {i \in 2..n : ~Succeeds(past, i)}
      BY <1>2, <1>3
    <2>2. PICK d \in 2..n : /\ ~Succeeds(past, d) /\ row.lastDown = past[d].done
                            /\ \A j \in 2..n : j > d => Succeeds(past, j)
      BY <1>4, <1>13, <2>1 DEF DownTells
    <2> HIDE DEF downs
    <2>3. downs \in SUBSET Int /\ d \in downs /\ \A j \in downs : j <= d
      BY <1>1, <2>1, <2>2
    <2>4. LastOf(downs) = d
      BY <2>3, LastIs
    <2> QED
      BY <2>2, <2>4
  <1> QED
    BY <1>4, <1>2, <1>9, <1>11, <1>12, <1>13

\* The row tells the last HistMax attempts, failed resolutions included, and the times of
\* the last ones of either kind.
THEOREM TellsAttempts == Spec => []RowTellsLastAttempts
  <1>1. Init => AskInv /\ RowInv
    BY DEF Init, AskInv, RowInv
  <1> QED
    BY <1>1, RowTells, AskStep, RowStep, LifeAlways, PTL DEF Spec

-----------------------------------------------------------------------------
(* What the API says. *)

\* The row keeps the time and the addresses of the submission; the addresses are those
\* of the last recheck once there is one.
OriginInv ==
    /\ Waiting => hand.added = past[1].from /\ hand.ips = past[1].ips
    /\ row # None =>
          /\ row.added = past[1].from
          /\ row.ips = IF past[Len(past)].kind = "listed" THEN past[1].ips
                       ELSE past[Len(past)].ips

LEMMA OriginStep ==
    TypeOK /\ PastInv /\ HandInv /\ OriginInv /\ [Next]_vars => OriginInv'
  <1> SUFFICES ASSUME TypeOK, PastInv, HandInv, OriginInv, [Next]_vars
               PROVE  OriginInv'
    OBVIOUS
  <1>1. CASE Passes \/ Ends
    BY <1>1 DEF Passes, Ends, OriginInv
  <1>2. CASE Begins
    <2>1. PICK ips \in SUBSET IPs : /\ hand'.ips = ips /\ hand'.added = now
                                    /\ past' = <<Begun("submitted", ips)>>
      BY <1>2 DEF Begins
    <2>2. past'[1].from = now /\ past'[1].ips = ips
      BY <2>1 DEF Begun
    <2> QED
      BY <1>2, <2>1, <2>2 DEF Begins, OriginInv
  <1>3. CASE Enters
    <2>1. PICK v : Follows(v) /\ ListedAs(v) /\ past' = Append(past, v)
      BY <1>3 DEF Enters
    <2>2. v \in Visit /\ v.kind = "listed"
      BY <2>1 DEF Follows, ListedAs
    <2>3. Len(past) = 1
      BY <1>3 DEF Enters, PastInv
    <2>4. Len(past') = 2 /\ past'[2].kind = "listed" /\ past'[1] = past[1]
      BY <2>1, <2>2, <2>3, Appended
    <2>5. row'.ips = hand.ips /\ row'.added = hand.added
      BY <2>1 DEF ListedAs
    <2> QED
      BY <1>3, <2>4, <2>5 DEF Enters, OriginInv
  <1>4. CASE Rechecks
    <2>1. PICK v : Follows(v) /\ Due(v) /\ VisitedAs(row, row', v) /\ past' = Append(past, v)
      BY <1>4 DEF Rechecks
    <2>2. v \in Visit /\ v.kind # "listed"
      BY <2>1 DEF Follows, VisitedAs
    <2>3. row # None /\ ~Waiting' /\ Len(past) >= 2
      BY <1>4, <2>1, BoundsHold DEF Rechecks, Due, PastInv, Bounds
    <2>4. /\ Len(past') = Len(past) + 1 /\ past'[Len(past) + 1] = v /\ past'[1] = past[1]
      BY <2>1, <2>2, <2>3, Appended
    <2>5. row'.ips = v.ips /\ row'.added = row.added
      BY <2>1 DEF VisitedAs
    <2> QED
      BY <2>2, <2>3, <2>4, <2>5 DEF OriginInv
  <1> QED
    BY <1>1, <1>2, <1>3, <1>4, StepKinds

\* At 95 % exactly the double update_uptime stores is not below 95.
LEMMA StableExactly ==
    ASSUME NEW up \in Nat, NEW of \in Nat, of > 0, 100 * up = 95 * of
    PROVE  ~RoundsBelow(up, of)
  <1>1. up > 0 /\ up < of /\ 2 * up > of /\ 200 * up > 128 * of
    OBVIOUS
  <1>2. Shift(up, of) = 1
    <2> DEFINE P(s) == up * 2^s >= of /\ (s = 0 \/ up * 2^(s - 1) < of)
    <2>1. 2^0 = 1 /\ 2^1 = 2
      OBVIOUS
    <2>2. ~P(0)
      BY <1>1, <2>1
    <2>3. P(1)
      BY <1>1, <2>1
    <2>4. ASSUME NEW s \in 2..10
          PROVE  ~P(s)
      <3>1. 2^(s - 1) \in Nat /\ 2^(s - 1) >= 2
        <4> DEFINE e(k) == 2^k
        <4>1. /\ e(1) = 2 /\ e(2) = 4 /\ e(3) = 8 /\ e(4) = 16 /\ e(5) = 32
              /\ e(6) = 64 /\ e(7) = 128 /\ e(8) = 256 /\ e(9) = 512
          OBVIOUS
        <4> HIDE DEF e
        <4>2. s - 1 \in {1, 2, 3, 4, 5, 6, 7, 8, 9}
          OBVIOUS
        <4>3. e(s - 1) \in {2, 4, 8, 16, 32, 64, 128, 256, 512}
          BY <4>1, <4>2
        <4>4. e(s - 1) \in Nat /\ e(s - 1) >= 2
          BY <4>3
        <4> QED
          BY <4>4 DEF e
      <3> DEFINE q == 2^(s - 1)
      <3>2. q \in Nat /\ q >= 2
        BY <3>1
      <3> HIDE DEF q
      <3>3. up * q >= up * 2
        BY <3>2
      <3>4. ~(up * q < of)
        BY <1>1, <3>2, <3>3
      <3> QED
        BY <3>4 DEF q
    <2> HIDE DEF P
    <2>5. \A s \in 0..10 : P(s) => s = 1
      <3>1. \A s \in 0..10 : s = 0 \/ s = 1 \/ s \in 2..10
        OBVIOUS
      <3> QED
        BY <2>2, <2>4, <3>1
    <2>6. Shift(up, of) = CHOOSE s \in 0..10 : P(s)
      BY DEF Shift, P
    <2>7. 1 \in 0..10
      OBVIOUS
    <2> QED
      BY <2>3, <2>5, <2>6, <2>7
  <1>3. 2^Shift(up, of) = 2
    BY <1>2
  <1>4. ~(100 * up * 2 <= 128 * of)
    BY <1>1
  <1> QED
    BY <1>3, <1>4 DEF RoundsBelow

LEMMA UptimeDecides ==
    ASSUME NEW uptime, uptime.up \in Nat, uptime.of \in Nat, uptime.of > 0
    PROVE  /\ UptimeAtLeast(uptime, StablePercentage) <=> 100 * uptime.up >= 95 * uptime.of
           /\ UptimeAtLeast(uptime, 0)
  <1> DEFINE up == uptime.up
             of == uptime.of
  <1>1. up \in Nat /\ of \in Nat /\ of > 0
    OBVIOUS
  <1>2. /\ UptimeAtLeast(uptime, 95) <=>
              100 * up > 95 * of \/ (100 * up = 95 * of /\ ~RoundsBelow(up, of))
        /\ UptimeAtLeast(uptime, 0) <=>
              100 * up > 0 * of \/ (100 * up = 0 * of /\ ~RoundsBelow(up, of))
    BY DEF UptimeAtLeast
  <1> HIDE DEF up, of
  <1>3. 100 * up = 95 * of => ~RoundsBelow(up, of)
    BY <1>1, StableExactly
  <1>4. up = 0 => ~RoundsBelow(up, of)
    BY DEF RoundsBelow
  <1>5. 100 * up >= 95 * of <=> 100 * up > 95 * of \/ 100 * up = 95 * of
    BY <1>1
  <1>6. (up = 0 /\ 100 * up = 0 * of) \/ 100 * up > 0 * of
    BY <1>1
  <1>7. UptimeAtLeast(uptime, 95) <=> 100 * up >= 95 * of
    BY <1>2, <1>3, <1>5
  <1>8. UptimeAtLeast(uptime, 0)
    BY <1>2, <1>4, <1>6
  <1> QED
    BY <1>7, <1>8 DEF StablePercentage, up, of

\* The lists of the API have the tracker as its past says.
THEOREM ApiTells == Spec => []ApiTellsPast
  <1>1. TypeOK /\ PastInv /\ AskInv /\ RowInv /\ OriginInv => ApiTellsPast
    <2> SUFFICES ASSUME TypeOK, PastInv, AskInv, RowInv, OriginInv, row # None
                 PROVE  ApiTellsPast
      BY DEF ApiTellsPast
    <2> DEFINE last   == LastOf(Attempts)
               up     == Cardinality(Counted \cap Successes)
               of     == Cardinality(Counted)
               stable == 100 * up >= 95 * of
               found  == IF past[last].kind = "listed" THEN past[1].ips ELSE past[last].ips
               Aged(asked, default) ==
                   now - past[1].from >= (IF asked = NoArgument THEN default ELSE asked)
    <2>1. /\ row.uptime = [up |-> up, of |-> of] /\ (row.status = 1 <=> last \in Successes)
          /\ last = Len(past)
      BY RowTells, AttemptsAre DEF RowTellsLastAttempts
    <2>2. row.ips = found /\ row.added = past[1].from
      BY <2>1 DEF OriginInv
    <2>3. up \in Nat /\ of \in Nat /\ of > 0
      <3>1. row.uptime \in [up : 0..HistMax, of : 0..HistMax] /\ HistMax \in Nat
        BY Typed, BoundsHold DEF Row, Bounds
      <3>2. row.uptime.up \in Nat /\ row.uptime.of \in Nat
        BY <3>1
      <3>3. row.uptime.of = Len(row.historic) /\ 1 <= Len(row.historic)
        BY DEF RowInv, UptimeOf, HistoryTells
      <3> QED
        BY <2>1, <3>2, <3>3
    <2>4. now \in Int /\ past[1].from \in Int /\ past[1].from <= now
      <3>1. 1 \in 1..Len(past)
        BY AttemptsAre
      <3> QED
        BY <3>1, Times DEF PastInv
    <2> HIDE DEF last, up, of, found
    <2>5. /\ UptimeAtLeast(row.uptime, StablePercentage) <=> stable
          /\ UptimeAtLeast(row.uptime, 0)
      <3>1. row.uptime.up = up /\ row.uptime.of = of
        BY <2>1
      <3> QED
        BY <2>3, <3>1, UptimeDecides
    <2>6. ASSUME NEW asked \in {NoArgument, 0, 2}, NEW default \in {0, StableMinAge}
          PROVE  OldEnough(row, now, asked, default) <=> Aged(asked, default)
      <3> DEFINE age == IF asked = NoArgument THEN default ELSE asked
      <3>1. age \in Nat
        BY ApiAssumption
      <3>2. OldEnough(row, now, asked, default) <=> age = 0 \/ past[1].from <= now - age
        BY <2>2 DEF OldEnough
      <3> HIDE DEF age
      <3>3. (age = 0 \/ past[1].from <= now - age) <=> now - past[1].from >= age
        BY <2>4, <3>1
      <3> QED
        BY <3>2, <3>3 DEF age
    <2>7. /\ KeptByFilters(row, TRUE, TRUE)
          /\ KeptByFilters(row, FALSE, TRUE) <=> found \ V4 # {}
          /\ KeptByFilters(row, TRUE, FALSE) <=> found \cap V4 # {}
      BY <2>2 DEF KeptByFilters
    <2> HIDE DEF Aged, stable
    <2>8. ASSUME NEW asked \in {NoArgument, 0, 2}
          PROVE  /\ ApiMultiple("live", "udp", row, now, asked)
                       <=> last \in Successes /\ Aged(asked, 0)
                 /\ \A scheme \in {"udp", "http", "https"} :
                       ApiMultiple("http", scheme, row, now, asked)
                         <=> stable /\ Aged(asked, 0) /\ scheme # "udp"
                 /\ ApiStable(row, now, asked, TRUE, TRUE)
                       <=> stable /\ Aged(asked, StableMinAge)
                 /\ ApiAll(row, now, asked, FALSE, TRUE) <=> Aged(asked, 0) /\ found \ V4 # {}
                 /\ ApiAll(row, now, asked, TRUE, FALSE) <=> Aged(asked, 0) /\ found \cap V4 # {}
      <3>1. OldEnough(row, now, asked, 0) <=> Aged(asked, 0)
        BY <2>6
      <3>2. OldEnough(row, now, asked, StableMinAge) <=> Aged(asked, StableMinAge)
        BY <2>6
      <3>3. ApiMultiple("live", "udp", row, now, asked) <=> last \in Successes /\ Aged(asked, 0)
        BY <2>1, <3>1 DEF ApiMultiple, ListsLive
      <3>4. ASSUME NEW scheme \in {"udp", "http", "https"}
            PROVE  ApiMultiple("http", scheme, row, now, asked)
                     <=> stable /\ Aged(asked, 0) /\ scheme # "udp"
        BY <2>5, <3>1 DEF ApiMultiple, ListsHttp
      <3>5. ApiStable(row, now, asked, TRUE, TRUE) <=> stable /\ Aged(asked, StableMinAge)
        BY <2>5, <2>7, <3>2 DEF ApiStable, ApiPercentage
      <3>6. /\ ApiAll(row, now, asked, FALSE, TRUE) <=> Aged(asked, 0) /\ found \ V4 # {}
            /\ ApiAll(row, now, asked, TRUE, FALSE) <=> Aged(asked, 0) /\ found \cap V4 # {}
        BY <2>5, <2>7, <3>1 DEF ApiAll, ApiPercentage
      <3> QED
        BY <3>3, <3>4, <3>5, <3>6
    <2> QED
      BY <2>8 DEF ApiTellsPast, last, stable, up, of, found, Aged
  <1>2. Init => AskInv /\ RowInv /\ OriginInv
    BY DEF Init, AskInv, RowInv, OriginInv, Waiting
  <1> QED
    BY <1>1, <1>2, AskStep, RowStep, OriginStep, LifeAlways, PTL DEF Spec
=============================================================================
