----------------------------- MODULE TrackerLife -----------------------------
(***************************************************************************)
(* One tracker and the clock: what tracker.py, process_new_tracker and the  *)
(* updater make of the fields of its row over its life on the list.         *)
(*                                                                          *)
(* A submitted URL becomes a candidate, waits in the queue, is contacted    *)
(* and listed; each time its interval has passed the updater selects it and *)
(* visits it: looks it up, announces, writes the row. Time may pass and a   *)
(* kill may fall between any two of these steps, and what was not written   *)
(* is lost with the Tracker object. NewTrackon.tla shows that the row the   *)
(* updater read is the row it writes over. What happens inside one visit    *)
(* (the probe of a new scheme, the protocols tried for a submission) is     *)
(* TrackerUrl's and Submission's matter; here it is part of the visit.      *)
(***************************************************************************)
EXTENDS ApiList, Integers, Sequences, FiniteSets

CONSTANTS
    IPs, Private,     \* addresses, and those that are not globally routable
    Answers,          \* what a resolution of the host may give
    Asked,            \* the intervals the tracker may ask for in a response
    MinInterval,      \* 300
    MaxInterval,      \* 10800, the longest interval accepted on submission
    DefaultInterval,  \* 10800, the interval of a tracker with no uptime
    Window,           \* IP_HISTORY_WINDOW
    MaxDowntime,      \* max_downtime
    HistMax,          \* maxlen of historic: 1000
    MaxTime,          \* bound of the clock
    None              \* no row, no candidate, never

Stamps == [IPs -> 0..MaxTime \cup {None}]

Row == [ips         : SUBSET IPs,
        recent      : Stamps,                \* recent_ips, None for "not a key"
        added       : 0..MaxTime,
        lastChecked : 0..MaxTime,
        lastUp      : 0..MaxTime,
        lastDown    : 0..MaxTime,
        interval    : Asked \cup {DefaultInterval},
        status      : 0..1,
        historic    : Seq(0..1),
        uptime      : [up : 0..HistMax, of : 0..HistMax]]   \* up/of

\* A visit: an attempt that ends in a write, or the submission before the first.
Visit == [from  : 0..MaxTime,                \* nothing of it happened earlier
          at    : 0..MaxTime,                \* the attempt begins: last_checked
          done  : 0..MaxTime,                \* its outcome is known
          kind  : {"submitted", "listed", "up", "down", "unresolved"},
          ips   : SUBSET IPs,                \* what the name resolved to
          asked : Asked \cup {None}]         \* the interval in the response

ASSUME LifeAssumption ==
    /\ Answers \subseteq SUBSET IPs /\ Private \subseteq IPs
    /\ Asked \subseteq Int
    /\ {MinInterval, MaxInterval, DefaultInterval, Window, MaxDowntime, MaxTime} \subseteq Nat
    /\ HistMax \in Nat \ {0}
    /\ None \notin Int \cup Row \cup Visit

VARIABLES
    now,
    row,        \* the row of the table
    pc,         \* how far the worker or the updater is with the tracker
    hand,       \* the Tracker object: a candidate, or the row as it was read
    visit,      \* auxiliary: the visit under way
    past        \* auxiliary: all the visits the row was written after, from the
                \* submission on

vars == <<now, row, pc, hand, visit, past>>

TypeOK ==
    /\ now \in 0..MaxTime
    /\ row \in Row \cup {None}
    /\ row # None => Len(row.historic) \in 1..HistMax
    /\ pc \in {"idle", "queued", "trying", "answered",
              "selected", "looked up", "announcing", "updated"}
    /\ hand \in IF pc = "idle" THEN {None} ELSE Row
    /\ visit \in Visit \cup {None}
    /\ past \in Seq(Visit)

Init ==
    /\ now = 0
    /\ row = None
    /\ pc = "idle" /\ hand = None
    /\ visit = None /\ past = <<>>

-----------------------------------------------------------------------------
(* The methods of Tracker. *)

Resolves(answer) == answer # {} /\ answer \cap Private = {}

\* Mutant of RefreshRecentIps: a stamp as old as the window is dropped.
RefreshTooEarly(recent, ips) ==
    LET stamped == [ip \in IPs |-> IF ip \in ips THEN now ELSE recent[ip]] IN
    [ip \in IPs |-> IF stamped[ip] # None /\ now - stamped[ip] < Window
                    THEN stamped[ip] ELSE None]

\* Current addresses are stamped, then every stamp out of the window is dropped.
RefreshRecentIps(recent, ips) ==
    LET stamped == [ip \in IPs |-> IF ip \in ips THEN now ELSE recent[ip]] IN
    [ip \in IPs |-> IF stamped[ip] # None /\ now - stamped[ip] <= Window
                    THEN stamped[ip] ELSE None]

\* Mutant of Push: the deque has no maxlen.
PushUnbounded(historic, s) == Append(historic, s)

\* historic is a deque of maxlen HistMax.
Push(historic, s) ==
    Append(IF Len(historic) < HistMax THEN historic ELSE Tail(historic), s)

IsUp(r)   == [r EXCEPT !.status = 1, !.lastUp = now,   !.historic = Push(@, 1)]
IsDown(r) == [r EXCEPT !.status = 0, !.lastDown = now, !.historic = Push(@, 0)]

UptimeOf(historic) ==
    [up |-> Cardinality({i \in DOMAIN historic : historic[i] = 1}),
     of |-> Len(historic)]

UpdateUptime(r) == [r EXCEPT !.uptime = UptimeOf(r.historic)]

ResetInterval(r) ==
    IF r.uptime.up = 0 THEN [r EXCEPT !.interval = DefaultInterval] ELSE r

\* The end of update_status: the uptime the interval is reset on is still the one
\* the row was read with.
Conclude(r) == UpdateUptime(ResetInterval(r))

\* Mutant of ClearTracker: the uptime is measured before the attempt counts.
ClearMeasuredEarly(r) ==
    IsDown(ResetInterval(UpdateUptime([r EXCEPT !.lastChecked = now])))

\* clear_tracker measures the uptime first.
ClearTracker(r) ==
    ResetInterval(UpdateUptime(IsDown([r EXCEPT !.lastChecked = now])))

-----------------------------------------------------------------------------
Tick ==
    /\ now < MaxTime
    /\ now' = now + 1
    /\ UNCHANGED <<row, pc, hand, visit, past>>

Begun(kind, ips) ==
    [from |-> now, at |-> now, done |-> now, kind |-> kind, ips |-> ips, asked |-> None]

\* The row is gone, or never came to be, and its past with it.
Forget ==
    /\ row' = None /\ pc' = "idle" /\ hand' = None
    /\ visit' = None /\ past' = <<>>

\* Tracker.from_url succeeds on a URL neither queued nor listed.
FromUrl ==
    /\ pc = "idle" /\ row = None
    /\ \E answer \in Answers :
          /\ Resolves(answer)
          /\ hand' = [ips |-> answer,
                      recent |-> RefreshRecentIps([ip \in IPs |-> None], answer),
                      added |-> now, lastChecked |-> 0, lastUp |-> 0, lastDown |-> 0,
                      interval |-> DefaultInterval, status |-> 0, historic |-> <<>>,
                      uptime |-> [up |-> 0, of |-> 0]]
          /\ past' = <<Begun("submitted", answer)>>
    /\ pc' = "queued"
    /\ UNCHANGED <<now, row, visit>>

\* process_new_tracker sets its times before it tries any protocol.
TryCandidate ==
    /\ pc = "queued"
    /\ pc' = "trying"
    /\ hand' = [hand EXCEPT !.lastDown = now, !.lastChecked = now]
    /\ visit' = Begun("listed", {})
    /\ UNCHANGED <<now, row, past>>

\* An address is in use, no protocol answers, or the interval is missing or out
\* of range.
DenyCandidate ==
    /\ pc \in {"queued", "trying"}
    /\ Forget
    /\ UNCHANGED now

\* The tracker answers with an interval in range; ip-api.com is asked next.
AcceptCandidate ==
    /\ pc = "trying"
    /\ \E asked \in Asked :
          /\ ~(MinInterval > asked \/ asked > MaxInterval)
          /\ hand' = [hand EXCEPT !.interval = asked]
          /\ visit' = [visit EXCEPT !.asked = asked]
    /\ pc' = "answered"
    /\ UNCHANGED <<now, row, past>>

\* Addresses and stamps are those of the submission.
InsertCandidate ==
    /\ pc = "answered"
    /\ row' = UpdateUptime(IsUp(hand))
    /\ past' = Append(past, [visit EXCEPT !.done = now])
    /\ pc' = "idle" /\ hand' = None /\ visit' = None
    /\ UNCHANGED now

\* Mutant of Select: the interval need not have passed entirely.
SelectEarly ==
    /\ pc = "idle" /\ row # None
    /\ now - row.lastChecked >= row.interval
    /\ pc' = "selected" /\ hand' = row
    /\ UNCHANGED <<now, row, visit, past>>

\* A round of update_outdated_trackers starts and finds the interval passed. The
\* tracker waits for those before it in the round.
Select ==
    /\ pc = "idle" /\ row # None
    /\ now - row.lastChecked > row.interval
    /\ pc' = "selected" /\ hand' = row
    /\ UNCHANGED <<now, row, visit, past>>

\* update_status, first check: max_downtime without an answer.
Silent == hand.lastUp < now - MaxDowntime

RemoveSilent ==
    /\ pc = "selected" /\ Silent
    /\ Forget
    /\ UNCHANGED now

\* A BEP34 record denies connections, or an address is not global.
RemoveDenied ==
    /\ pc = "selected" /\ ~Silent
    /\ Forget
    /\ UNCHANGED now

\* The record is followed, with a probe of the new scheme where there is one, and
\* the name resolved: update_ips and refresh_recent_ips.
LookUp ==
    /\ pc = "selected" /\ ~Silent
    /\ \E answer \in Answers :
          /\ Resolves(answer)
          /\ hand' = [hand EXCEPT !.ips = answer, !.recent = RefreshRecentIps(@, answer)]
          /\ visit' = Begun("down", answer)
    /\ pc' = "looked up"
    /\ UNCHANGED <<now, row, past>>

\* The name does not resolve. The stamps are left as they are.
UpdateUnresolved ==
    /\ pc = "selected" /\ ~Silent
    /\ {} \in Answers
    /\ hand' = ClearTracker([hand EXCEPT !.ips = {}])
    /\ visit' = Begun("unresolved", {})
    /\ pc' = "updated"
    /\ UNCHANGED <<now, row, past>>

\* update_ipapi_data has asked for every address; the time is taken before the
\* announce.
Announce ==
    /\ pc = "looked up"
    /\ hand' = [hand EXCEPT !.lastChecked = now]
    /\ visit' = [visit EXCEPT !.at = now]
    /\ pc' = "announcing"
    /\ UNCHANGED <<now, row, past>>

\* The announce succeeds; any interval the response has is taken over.
UpdateUp ==
    /\ pc = "announcing"
    /\ \E asked \in Asked \cup {None} :
          /\ hand' = Conclude(IsUp(IF asked = None THEN hand
                                   ELSE [hand EXCEPT !.interval = asked]))
          /\ visit' = [visit EXCEPT !.done = now, !.kind = "up", !.asked = asked]
    /\ pc' = "updated"
    /\ UNCHANGED <<now, row, past>>

UpdateDown ==
    /\ pc = "announcing"
    /\ hand' = Conclude(IsDown(hand))
    /\ visit' = [visit EXCEPT !.done = now]
    /\ pc' = "updated"
    /\ UNCHANGED <<now, row, past>>

\* db.update_tracker.
WriteRow ==
    /\ pc = "updated"
    /\ row' = hand
    /\ past' = Append(past, visit)
    /\ pc' = "idle" /\ hand' = None /\ visit' = None
    /\ UNCHANGED now

\* Killed between any two of the steps above, or the thread ended by an
\* exception, and started again: only the row is left.
Restart ==
    /\ pc' = "idle" /\ hand' = None /\ visit' = None
    /\ past' = IF row = None THEN <<>> ELSE past
    /\ UNCHANGED <<now, row>>

Next ==
    \/ Tick
    \/ FromUrl \/ TryCandidate \/ DenyCandidate \/ AcceptCandidate \/ InsertCandidate
    \/ Select \/ RemoveSilent \/ RemoveDenied
    \/ LookUp \/ UpdateUnresolved \/ Announce \/ UpdateUp \/ UpdateDown \/ WriteRow
    \/ Restart

Spec == Init /\ [][Next]_vars

-----------------------------------------------------------------------------
(* The past of the tracker, read independently of the row. *)

Where(kinds) == {i \in DOMAIN past : past[i].kind \in kinds}

Attempts == Where({"listed", "up", "down", "unresolved"})
Lookups  == Where({"submitted", "up", "down"})

\* The attempts historic still holds.
Counted == {i \in Attempts : Cardinality({j \in Attempts : j > i}) < HistMax}

Successes == Where({"listed", "up"})

LastOf(indices) == CHOOSE i \in indices : \A j \in indices : j <= i

\* The interval the tracker last asked for, up to event i.
AskedBy(i) == past[LastOf({j \in 1..i : past[j].asked # None})].asked

-----------------------------------------------------------------------------
(* Safety *)

\* The row tells the last HistMax attempts: historic and uptime are what the log
\* of attempts gives, failed resolutions included, and the status and its times
\* are those of the last attempts of either kind
\* (tpl/static/faq.jinja:34-35; tracker.py:112-164, 208-244, 291-299).
RowTellsLastAttempts ==
    row # None =>
      LET downs == Attempts \ Successes IN
      /\ row.uptime = [up |-> Cardinality(Counted \cap Successes),
                       of |-> Cardinality(Counted)]
      /\ row.status = 1 <=> LastOf(Attempts) \in Successes
      /\ row.lastUp = past[LastOf(Successes)].done
      /\ downs # {} => row.lastDown = past[LastOf(downs)].done
      /\ row.lastChecked = past[LastOf(Attempts)].at

\* recent_ips is exact with respect to the last resolution that succeeded: it
\* holds, with the time it was last seen, every address seen within the window
\* before that resolution and no other; the queue, an acceptance and failed
\* resolutions leave it alone (tracker.py:246-279).
RecentIpsTellLookups ==
    row # None =>
      \A ip \in IPs :
        LET hits == {i \in Lookups : ip \in past[i].ips}
            last == past[LastOf(hits)].from
        IN row.recent[ip] =
             IF hits # {} /\ past[LastOf(Lookups)].from - last <= Window
             THEN last ELSE None

\* The visits the row tells of, and the one under way.
Visits == IF visit = None THEN past ELSE Append(past, visit)

\* A visit whose outcome was written is not followed too early: the next one, from
\* its very first lookup or probe on, written later or cut by a kill, begins more
\* than the interval the tracker last asked for, or more than DefaultInterval,
\* after the time of its check. A visit a kill cut before its write is repeated at
\* once and bounds nothing (trackon.py:36-47, tracker.py:112-164, ingest.py:159-181).
NeverTooEager ==
    \A i \in Attempts : \A j \in DOMAIN Visits :
        i < j => \/ Visits[j].from - past[i].at > AskedBy(i)
                 \/ Visits[j].from - past[i].at > DefaultInterval

\* What the API says of the tracker is what happened to it: /api/live that its last
\* attempt succeeded; /api/stable that 95 % of its last attempts did, and that it
\* was submitted the default of days ago or as long ago as asked; and a list
\* without IPv4-only (IPv6-only) trackers has it if the last attempt found an
\* address of the other kind, which a failed resolution does not
\* (newtrackon-api.yml:26, 68, 178-193; db.py:114-154, views.py:131-189).
ApiTellsPast ==
    row # None =>
      LET last   == LastOf(Attempts)
          stable == 100 * Cardinality(Counted \cap Successes) >= 95 * Cardinality(Counted)
          found  == IF past[last].kind = "listed" THEN past[1].ips ELSE past[last].ips
          Aged(asked, default) ==
              now - past[1].from >= (IF asked = NoArgument THEN default ELSE asked)
      IN \A asked \in {NoArgument, 0, 2} :
           /\ ApiMultiple("live", "udp", row, now, asked)
                <=> last \in Successes /\ Aged(asked, 0)
           /\ \A scheme \in {"udp", "http", "https"} :
                ApiMultiple("http", scheme, row, now, asked)
                  <=> stable /\ Aged(asked, 0) /\ scheme # "udp"
           /\ ApiStable(row, now, asked, TRUE, TRUE)
                <=> stable /\ Aged(asked, StableMinAge)
           /\ ApiAll(row, now, asked, FALSE, TRUE) <=> Aged(asked, 0) /\ found \ V4 # {}
           /\ ApiAll(row, now, asked, TRUE, FALSE) <=> Aged(asked, 0) /\ found \cap V4 # {}

-----------------------------------------------------------------------------
(* What the documentation and the tests say, and the code does not do. *)

\* tpl/static/faq.jinja:37-38 "Does newTrackon respect the trackers update
\* interval? Yes."
IntervalRespected ==
    \A i, j \in Attempts : i < j => past[j].from - past[i].at > AskedBy(i)
=============================================================================
