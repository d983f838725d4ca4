----------------------------- MODULE Submission -----------------------------
(***************************************************************************)
(* What the submission worker does with one candidate after another: the    *)
(* protocols it tries (scraper.attempt_submitted), the verdict of           *)
(* ingest.process_new_tracker, and the account it leaves in submitted_data  *)
(* and in its file, across restarts.                                        *)
(*                                                                          *)
(* Ingest.tla has the queue and the comparison with the table; here a       *)
(* candidate comes with what its host advertises, which a lookup finds when *)
(* its turn comes, and each attempt has an outcome of AnnounceOutcome.tla.   *)
(***************************************************************************)
EXTENDS Integers, Sequences, FiniteSets, SequencesExt

CONSTANTS
    Candidates,
    PortOf,        \* for each candidate, the port of its URL, NoPort if it has none
    NoPort,
    MaxPort,       \* 65535: urlparse raises ValueError on the port above it
    BepRecords,    \* what the TXT lookup may give: None, or a sequence of preferences
    Intervals,     \* the intervals a response may carry
    MinInterval,   \* 300
    MaxInterval,   \* 10800
    HistoryMax,    \* maxlen of submitted_data: 600
    None,
    Torn           \* a file that was truncated and not written yet

Protocols == {"udp", "https", "http"}
Port == {NoPort} \cup (UNION {{p.port : p \in ToSet(r)} : r \in BepRecords \ {None}})
                 \cup {PortOf[c] : c \in Candidates}

Attempt == [proto : Protocols, port : Port, status : 0..1, interval : Intervals \cup {None}]

\* An entry of the history. The interval is not stored in a field of its own, but
\* shown in the response.
Entry == [cand : Candidates, proto : Protocols \cup {None}, port : Port,
          status : 0..1, interval : Intervals \cup {None}]

ASSUME SubmissionAssumption ==
    /\ PortOf \in [Candidates -> Nat] /\ NoPort \in Nat
    /\ None \in BepRecords
    /\ BepRecords \subseteq {None} \cup Seq([proto : {"udp", "tcp"}, port : Nat])
    /\ Intervals \subseteq Int /\ None \notin Intervals
    /\ {MinInterval, MaxInterval} \subseteq Nat /\ MinInterval > 0
    /\ MaxPort \in Nat /\ HistoryMax \in Nat \ {0}
    /\ None \notin Candidates \cup Attempt \cup Entry

VARIABLES
    waiting,     \* the candidates that have not had their turn
    pc,          \* where the worker is
    cand,        \* the candidate in hand
    prefs,       \* the preferences left to try: protocol udp or tcp, and port
    tls,         \* was HTTPS tried for the first of them?
    result,      \* the attempt that succeeded
    submitted,   \* submitted_data, the newest entry first
    debug,       \* the entry log_wrong_interval_denial took out of it
    file,        \* submitted_data.json
    listed,      \* the trackers this worker inserted
    found,       \* auxiliary: the record of the lookup,
    tries,       \* the attempts that gave an entry, and
    dropped      \* has a ValueError ended the search?

vars == <<waiting, pc, cand, prefs, tls, result, submitted, debug, file, listed, found,
          tries, dropped>>

TypeOK ==
    /\ waiting \subseteq Candidates
    /\ pc \in {"idle", "lookup", "attempt", "verdict", "mark", "insert", "save",
              "dump", "stuck"}
    /\ cand \in Candidates \cup {None}
    /\ prefs \in Seq([proto : {"udp", "tcp"}, port : Port])
    /\ pc = "attempt" => prefs # <<>>
    /\ tls \in BOOLEAN
    /\ result \in Attempt \cup {None}
    /\ pc \in {"verdict", "insert"} => result # None
    /\ submitted \in Seq(Entry) /\ Len(submitted) <= HistoryMax
    /\ debug \in Entry \cup {None} /\ (pc = "mark" => debug # None)
    /\ file \in Seq(Entry) \cup {Torn}
    /\ listed \subseteq [cand : Candidates, proto : Protocols, port : Port,
                         interval : Intervals]
    /\ found \in BepRecords
    /\ tries \in Seq(Attempt)
    /\ dropped \in BOOLEAN

Init ==
    /\ waiting = Candidates
    /\ pc = "idle" /\ cand = None
    /\ prefs = <<>> /\ tls = FALSE /\ result = None
    /\ submitted = <<>> /\ debug = None /\ file = <<>>
    /\ listed = {}
    /\ found = None /\ tries = <<>> /\ dropped = FALSE

-----------------------------------------------------------------------------
\* Mutant of AppendLeft: the deque has no maxlen.
AppendLeftUnbounded(entry) == submitted' = <<entry>> \o submitted

\* deque.appendleft on a full deque drops the other end.
AppendLeft(entry) ==
    submitted' = SubSeq(<<entry>> \o submitted, 1,
                        IF Len(submitted) < HistoryMax THEN Len(submitted) + 1
                        ELSE HistoryMax)

EntryOf(a) == [cand |-> cand, proto |-> a.proto, port |-> a.port,
               status |-> a.status, interval |-> a.interval]

TakeCandidate ==
    /\ pc = "idle"
    /\ \E c \in waiting :
          /\ cand' = c
          /\ waiting' = waiting \ {c}
    /\ pc' = "lookup"
    /\ prefs' = <<>> /\ tls' = FALSE /\ result' = None
    /\ found' = None /\ tries' = <<>> /\ dropped' = FALSE
    /\ UNCHANGED <<debug, submitted, file, listed>>

\* The host or one of its addresses is listed by now: nothing is tried, and the
\* history is saved all the same.
DenyListed ==
    /\ pc = "lookup"
    /\ pc' = "save"
    /\ UNCHANGED <<waiting, debug, cand, prefs, tls, result, submitted, file, listed, found,
                   tries, dropped>>

\* Mutant of Preferences: TCP is tried before UDP.
PreferencesTcpFirst(record) ==
    IF record # None THEN record
    ELSE <<[proto |-> "tcp", port |-> PortOf[cand]]>>
         \o (IF PortOf[cand] = NoPort THEN <<>>
             ELSE <<[proto |-> "udp", port |-> PortOf[cand]]>>)

\* Without a record the URL is tried with UDP, if it has a port, and with HTTPS
\* and HTTP; a record replaces the port and the protocols.
Preferences(record) ==
    IF record # None THEN record
    ELSE (IF PortOf[cand] = NoPort THEN <<>>
          ELSE <<[proto |-> "udp", port |-> PortOf[cand]]>>)
         \o <<[proto |-> "tcp", port |-> PortOf[cand]]>>

\* get_bep_34
LookupBep34 ==
    /\ pc = "lookup"
    /\ \E record \in BepRecords \ {<<>>} :
          /\ found' = record
          /\ prefs' = Preferences(record)
    /\ pc' = "attempt"
    /\ UNCHANGED <<waiting, debug, cand, tls, result, submitted, file, listed, tries, dropped>>

\* A record without preferences denies connections.
DeniedByBep34 ==
    /\ pc = "lookup"
    /\ <<>> \in BepRecords
    /\ found' = <<>>
    /\ AppendLeft([cand |-> cand, proto |-> None, port |-> PortOf[cand],
                   status |-> 0, interval |-> None])
    /\ pc' = "save"
    /\ UNCHANGED <<waiting, debug, cand, prefs, tls, result, file, listed, tries, dropped>>

-----------------------------------------------------------------------------
(* attempt_udp, attempt_httpx *)

\* One attempt leaves one entry; a status with an interval ends the search.
Tried(a) ==
    /\ AppendLeft(EntryOf(a))
    /\ tries' = Append(tries, a)

Succeeded(a) == a.status = 1 /\ a.interval # None

\* The outcomes of an attempt on the first preference left.
Outcomes(proto) ==
    {a \in Attempt : /\ a.proto = proto /\ a.port = Head(prefs).port
                     /\ a.status = 0 => a.interval = None}

\* The end of the preference: on to the next one, or RuntimeError, which
\* process_new_tracker takes for a denial.
NextPreference ==
    /\ prefs' = Tail(prefs) /\ tls' = FALSE
    /\ pc' = IF Tail(prefs) = <<>> THEN "save" ELSE "attempt"
    /\ UNCHANGED result

Found(a) ==
    /\ result' = a
    /\ pc' = "verdict"
    /\ UNCHANGED <<prefs, tls>>

PortParses == Head(prefs).port <= MaxPort

\* A UDP response always carries an interval.
TryUdp ==
    /\ pc = "attempt" /\ Head(prefs).proto = "udp" /\ PortParses
    /\ \E a \in Outcomes("udp") :
          /\ a.status = 1 => a.interval # None
          /\ Tried(a)
          /\ IF Succeeded(a) THEN Found(a) ELSE NextPreference
    /\ UNCHANGED <<waiting, debug, cand, file, listed, found, dropped>>

TryHttps ==
    /\ pc = "attempt" /\ Head(prefs).proto = "tcp" /\ ~tls /\ PortParses
    /\ \E a \in Outcomes("https") :
          /\ Tried(a)
          /\ IF Succeeded(a) THEN Found(a)
             ELSE tls' = TRUE /\ UNCHANGED <<pc, prefs, result>>
    /\ UNCHANGED <<waiting, debug, cand, file, listed, found, dropped>>

TryHttp ==
    /\ pc = "attempt" /\ Head(prefs).proto = "tcp" /\ tls
    /\ \E a \in Outcomes("http") :
          /\ Tried(a)
          /\ IF Succeeded(a) THEN Found(a) ELSE NextPreference
    /\ UNCHANGED <<waiting, debug, cand, file, listed, found, dropped>>

\* A ValueError, of the port or, over HTTP(S), of requests: the candidate is dropped
\* with the preferences it had left, and no entry says so.
RaisesValueError ==
    /\ pc = "attempt"
    /\ ~PortParses \/ Head(prefs).proto = "tcp"
    /\ pc' = "save" /\ dropped' = TRUE
    /\ UNCHANGED <<waiting, debug, cand, prefs, tls, result, submitted, file, listed, found,
                   tries>>

\* Any other exception, of announce_udp or of ip-api before the insertion, ends in
\* submission_worker: nothing is saved.
Raises ==
    /\ \/ pc = "attempt" /\ Head(prefs).proto = "udp" /\ PortParses
       \/ pc = "insert"
    /\ pc' = "idle"
    /\ UNCHANGED <<waiting, debug, cand, prefs, tls, result, submitted, file, listed, found,
                   tries, dropped>>

-----------------------------------------------------------------------------
(* The verdict of process_new_tracker. *)

InRange(interval) == ~(MinInterval > interval \/ interval > MaxInterval)

\* log_wrong_interval_denial: popleft takes the newest entry out ...
DenyInterval ==
    /\ pc = "verdict"
    /\ result.interval = 0 \/ ~InRange(result.interval)
    /\ debug' = Head(submitted)
    /\ submitted' = Tail(submitted)
    /\ pc' = "mark"
    /\ UNCHANGED <<waiting, cand, prefs, tls, result, file, listed, found, tries, dropped>>

\* Mutant of PutBackRejected: the entry goes back at the other end.
PutBackLast ==
    /\ pc = "mark"
    /\ submitted' = Append(submitted, [debug EXCEPT !.status = 0])
    /\ debug' = None
    /\ pc' = "save"
    /\ UNCHANGED <<waiting, cand, prefs, tls, result, file, listed, found, tries, dropped>>

\* Mutant of PutBackRejected: the status is not touched, only the text.
PutBackUnmarked ==
    /\ pc = "mark"
    /\ AppendLeft(debug)
    /\ debug' = None
    /\ pc' = "save"
    /\ UNCHANGED <<waiting, cand, prefs, tls, result, file, listed, found, tries, dropped>>

\* ... and appendleft puts it back, rejected. A page rendered in between misses it.
PutBackRejected ==
    /\ pc = "mark"
    /\ AppendLeft([debug EXCEPT !.status = 0])
    /\ debug' = None
    /\ pc' = "save"
    /\ UNCHANGED <<waiting, cand, prefs, tls, result, file, listed, found, tries, dropped>>

AcceptInterval ==
    /\ pc = "verdict"
    /\ result.interval # 0 /\ InRange(result.interval)
    /\ pc' = "insert"
    /\ UNCHANGED <<waiting, debug, cand, prefs, tls, result, submitted, file, listed, found,
                   tries, dropped>>

\* Mutant of InsertTracker: the row keeps the port of the URL submitted.
InsertSubmittedPort ==
    /\ pc = "insert"
    /\ listed' = listed \cup {[cand |-> cand, proto |-> result.proto,
                               port |-> PortOf[cand], interval |-> result.interval]}
    /\ pc' = "save"
    /\ UNCHANGED <<waiting, debug, cand, prefs, tls, result, submitted, file, found,
                   tries, dropped>>

\* The row has the URL, and so the protocol and port, of the attempt that succeeded.
InsertTracker ==
    /\ pc = "insert"
    /\ listed' = listed \cup {[cand |-> cand, proto |-> result.proto,
                               port |-> result.port, interval |-> result.interval]}
    /\ pc' = "save"
    /\ UNCHANGED <<waiting, debug, cand, prefs, tls, result, submitted, file, found,
                   tries, dropped>>

-----------------------------------------------------------------------------
(* save_deque_to_disk and load_history *)

\* open(filename, "w") truncates the file.
OpenFile ==
    /\ pc = "save"
    /\ file' = Torn
    /\ pc' = "dump"
    /\ UNCHANGED <<waiting, debug, cand, prefs, tls, result, submitted, listed, found,
                   tries, dropped>>

DumpFile ==
    /\ pc = "dump"
    /\ file' = submitted
    /\ pc' = "idle"
    /\ UNCHANGED <<waiting, debug, cand, prefs, tls, result, submitted, listed, found,
                   tries, dropped>>

\* Killed and started again: persistence.py loads the history while it is
\* imported, and json.load raises on a file that was never filled.
Restart ==
    /\ pc # "stuck"
    /\ IF file = Torn THEN pc' = "stuck" /\ submitted' = <<>>
       ELSE pc' = "idle" /\ submitted' = file
    /\ prefs' = <<>> /\ tls' = FALSE /\ result' = None /\ cand' = None
    /\ found' = None /\ tries' = <<>> /\ dropped' = FALSE /\ debug' = None
    /\ UNCHANGED <<waiting, file, listed>>

Next ==
    \/ TakeCandidate \/ DenyListed \/ LookupBep34 \/ DeniedByBep34
    \/ TryUdp \/ TryHttps \/ TryHttp \/ RaisesValueError \/ Raises
    \/ DenyInterval \/ PutBackRejected \/ AcceptInterval \/ InsertTracker
    \/ OpenFile \/ DumpFile \/ Restart

Spec == Init /\ [][Next]_vars

-----------------------------------------------------------------------------
(* Safety *)

\* Every attempt a candidate may get, in order: what its host advertises, or
\* else UDP, HTTPS and HTTP (tpl/submitted.jinja:18-23).
Advertised ==
    IF found = None
    THEN IF PortOf[cand] = NoPort
         THEN <<<<"https", NoPort>>, <<"http", NoPort>>>>
         ELSE <<<<"udp", PortOf[cand]>>, <<"https", PortOf[cand]>>, <<"http", PortOf[cand]>>>>
    ELSE FlattenSeq([i \in DOMAIN found |->
           IF found[i].proto = "udp" THEN <<<<"udp", found[i].port>>>>
           ELSE <<<<"https", found[i].port>>, <<"http", found[i].port>>>>])

\* The tracker is contacted as it advertises, in that order, each way once, up to
\* the first that works. A tracker denied without an answer has had every way tried,
\* unless a ValueError has dropped those left: of a port no URL can have, though the
\* ways after it may be good, or of requests. That nobody is told of, and it is not
\* what the page says of the preferences (scraper.py:71-159, ingest.py:169).
AttemptsAsAdvertised ==
    cand # None /\ pc # "lookup" =>
      /\ IsPrefix([i \in DOMAIN tries |-> <<tries[i].proto, tries[i].port>>], Advertised)
      /\ \A i \in DOMAIN tries : Succeeded(tries[i]) => i = Len(tries) /\ result = tries[i]
      /\ pc \in {"save", "dump"} /\ result = None /\ tries # <<>> =>
            dropped \/ Len(tries) = Len(Advertised)
      /\ dropped => LET way == Advertised[Len(tries) + 1] IN
                    /\ Len(tries) < Len(Advertised)
                    /\ way[2] > MaxPort \/ way[1] # "udp"

\* No response with an interval out of range is shown as accepted once its verdict
\* has fallen, in memory or, killed at any moment, on disk; the newest entry is
\* the one that is marked (ingest.py:171-201).
RefusedIntervalsShown ==
    LET shown == IF pc = "verdict" THEN ToSet(Tail(submitted)) ELSE ToSet(submitted)
        saved == IF file = Torn THEN {} ELSE ToSet(file)
    IN \A e \in shown \cup saved :
          e.status = 1 /\ e.interval # None => InRange(e.interval)

\* A tracker that was inserted has the protocol, port and interval of an entry
\* that says so, and it is the newest one until the next candidate
\* (ingest.py:161-181).
InsertionsShown ==
    pc \in {"save", "dump"} /\ (\E l \in listed : l.cand = cand) =>
        [cand |-> cand, proto |-> Head(submitted).proto, port |-> Head(submitted).port,
         interval |-> Head(submitted).interval] \in listed
        /\ Head(submitted).status = 1

\* While the worker has a candidate, the history begins with its tries, the last
\* one first and as many as fit, as they came out but for the one that a refused
\* interval marks; a page rendered at any moment shows them all, except the last
\* one while it is being marked (scraper.py:182-214, ingest.py:185-201).
TriesShown ==
    pc \in {"attempt", "verdict", "mark", "insert", "save", "dump"} =>
      LET refused == pc \in {"save", "dump"} /\ result # None /\ ~InRange(result.interval)
          told == [i \in DOMAIN tries |->
                     IF refused /\ i = Len(tries) THEN [EntryOf(tries[i]) EXCEPT !.status = 0]
                     ELSE EntryOf(tries[i])]
          page == IF pc = "mark" THEN <<debug>> \o submitted ELSE submitted
      IN \A i \in DOMAIN told :
           Len(told) - i < HistoryMax => page[Len(told) + 1 - i] = told[i]

-----------------------------------------------------------------------------
(* What the documentation and the tests say, and the code does not do. *)

\* tpl/submitted.jinja:50-53 shows an entry with status 1 as "Accepted": once the
\* worker is done with a candidate, the ones it has are of a tracker that entered
\* the list.
AcceptedIsListed ==
    pc = "save" =>
      \A e \in ToSet(submitted) :
         e.cand = cand /\ e.status = 1 => \E l \in listed : l.cand = cand

\* tests/unit/test_persistence.py:149 "output is valid parseable JSON": whenever
\* the program is started, it can read its history.
CanAlwaysStart == pc # "stuck"
=============================================================================
