------------------------------- MODULE Ingest -------------------------------
(***************************************************************************)
(* newtrackon/ingest.py: the threads that put submitted URLs in the queue   *)
(* and the one thread that takes them out of it.                            *)
(*                                                                          *)
(* Every POST of views.py starts a thread on enqueue_new_trackers; it looks *)
(* at the queue, then at the table, then resolves the name, then puts the   *)
(* candidate in the queue, and any other thread may run in between. The     *)
(* worker looks at the table again, contacts the tracker, which takes       *)
(* seconds to minutes, and inserts.                                         *)
(*                                                                          *)
(* A URL is what these steps tell apart: its host and port (the netloc) and *)
(* its form: "ok"; "ip", the host is an address; "bad", from_url refuses    *)
(* its scheme or characters; "unparsable", urlparse itself raises           *)
(* ValueError (an unmatched bracket in the netloc).                         *)
(***************************************************************************)
EXTENDS TrackerDb

CONSTANTS
    Ports,
    Threads,     \* the enqueue threads that can be alive at once
    Batches,     \* the texts that are submitted, as sequences of URLs
    QueueMax     \* maxsize of submitted_queue: 10000 in the code

Url == [host : Hosts, port : Ports, form : {"ok", "ip", "bad", "unparsable"}]
Candidate == [host : Hosts, port : Ports, ips : SUBSET IPs]

ASSUME BatchAssumption     == Batches \subseteq Seq(Url) \ {<<>>}
ASSUME QueueMaxAssumption  == QueueMax \in Nat \ {0}
ASSUME CandidateAssumption == None \notin Candidate

VARIABLES
    queue,     \* submitted_queue
    enq,       \* per enqueue thread: where it is, the URLs it has left, and
               \* the addresses the table held when it read it
    worker     \* submission_worker: where it is and the candidate in its hands

ingestVars == <<queue, enq, worker>>

NoThread == [pc |-> "idle", batch |-> <<>>, seen |-> {}]
NoWork   == [pc |-> "get", cand |-> None]

IngestTypeOK ==
    /\ queue \in Seq(Candidate) /\ Len(queue) <= QueueMax
    /\ enq \in [Threads -> [pc    : {"idle", "inspect", "read", "resolve"},
                            batch : Seq(Url),
                            seen  : SUBSET IPs]]
    /\ \A t \in Threads : enq[t].pc # "idle" => enq[t].batch # <<>>
    /\ worker \in [pc   : {"get", "recheck", "attempt", "insert", "done"},
                   cand : Candidate \cup {None}]
    /\ worker.pc # "get" => worker.cand \in Candidate

IngestInit ==
    /\ queue = <<>>
    /\ enq = [t \in Threads |-> NoThread]
    /\ worker = NoWork

-----------------------------------------------------------------------------
(* enqueue_new_trackers *)

Current(t) == Head(enq[t].batch)

\* The thread is done with this URL, whatever became of it.
NextUrl(t) ==
    LET rest == Tail(enq[t].batch) IN
    enq' = [enq EXCEPT ![t] =
              IF rest = <<>> THEN NoThread
              ELSE [pc |-> "inspect", batch |-> rest, seen |-> {}]]

\* An exception nobody catches ends the thread and what it had left to do.
Abort(t) == enq' = [enq EXCEPT ![t] = NoThread]

\* A POST: the view starts a daemon thread and answers.
Submit(t) ==
    /\ enq[t].pc = "idle"
    /\ \E batch \in Batches :
          enq' = [enq EXCEPT ![t].pc = "inspect", ![t].batch = batch]
    /\ UNCHANGED <<db, queue, worker>>

Queued(url) ==
    \E i \in DOMAIN queue : queue[i].host = url.host /\ queue[i].port = url.port

\* Literal addresses are refused, then the URL is compared with the snapshot
\* of the queue taken under its mutex. The comparison parses the URL again,
\* outside the try: one that does not parse raises as soon as there is a
\* queued tracker to compare it with.
InspectQueue(t) ==
    LET url == Current(t) IN
    /\ enq[t].pc = "inspect"
    /\ \/ /\ url.form = "ip"
          /\ NextUrl(t)
       \/ /\ url.form = "unparsable" /\ queue # <<>>
          /\ Abort(t)
       \/ /\ url.form \in {"ok", "bad"} /\ Queued(url)
          /\ NextUrl(t)
       \/ /\ url.form = "unparsable" => queue = <<>>
          /\ url.form \in {"ok", "bad"} => ~Queued(url)
          /\ url.form # "ip"
          /\ enq' = [enq EXCEPT ![t].pc = "read"]
    /\ UNCHANGED <<db, queue, worker>>

\* list_lock guards the read of the table, not what is concluded from it.
ReadTable(t) ==
    LET url == Current(t) IN
    /\ enq[t].pc = "read"
    /\ \/ /\ url.form = "unparsable" /\ Listed(db) # {}
          /\ Abort(t)
       \/ /\ url.form # "unparsable" /\ url.host \in Listed(db)
          /\ NextUrl(t)
       \/ /\ IF url.form = "unparsable" THEN Listed(db) = {}
             ELSE url.host \notin Listed(db)
          /\ enq' = [enq EXCEPT ![t].pc = "resolve", ![t].seen = Held(db)]
    /\ UNCHANGED <<db, queue, worker>>

\* Tracker.from_url raises: the URL is refused, or the name does not resolve
\* to global addresses only.
RefuseUrl(t) ==
    LET url == Current(t) IN
    /\ enq[t].pc = "resolve"
    /\ \/ url.form \in {"bad", "unparsable"}
       \/ \E answer \in Dns[url.host] : ~Global(answer)
    /\ NextUrl(t)
    /\ UNCHANGED <<db, queue, worker>>

\* Mutant of PutCandidate: the queue has no maxsize.
PutCandidateUnbounded(t) ==
    LET url == Current(t) IN
    /\ enq[t].pc = "resolve"
    /\ url.form = "ok"
    /\ \E answer \in Dns[url.host] :
          /\ Global(answer)
          /\ queue' = IF answer \cap enq[t].seen = {}
                      THEN Append(queue, [host |-> url.host, port |-> url.port,
                                          ips |-> answer])
                      ELSE queue
    /\ NextUrl(t)
    /\ UNCHANGED <<db, worker>>

\* Tracker.from_url returns a candidate; it is compared with the table read
\* before the name was resolved, and put_nowait takes it or raises Full.
PutCandidate(t) ==
    LET url == Current(t) IN
    /\ enq[t].pc = "resolve"
    /\ url.form = "ok"
    /\ \E answer \in Dns[url.host] :
          /\ Global(answer)
          /\ queue' = IF answer \cap enq[t].seen = {} /\ Len(queue) < QueueMax
                      THEN Append(queue, [host |-> url.host, port |-> url.port,
                                          ips |-> answer])
                      ELSE queue
    /\ NextUrl(t)
    /\ UNCHANGED <<db, worker>>

-----------------------------------------------------------------------------
(* submission_worker *)

TakeCandidate ==
    /\ worker.pc = "get"
    /\ queue # <<>>
    /\ worker' = [pc |-> "recheck", cand |-> Head(queue)]
    /\ queue' = Tail(queue)
    /\ UNCHANGED <<db, enq>>

\* Mutant of RecheckCandidate: only the addresses are compared again.
RecheckAddressesOnly ==
    LET cand == worker.cand IN
    /\ worker.pc = "recheck"
    /\ worker' = [worker EXCEPT !.pc =
          IF IpConflicts(cand.host, cand.ips, db) # {} THEN "done" ELSE "attempt"]
    /\ UNCHANGED <<db, queue, enq>>

\* Mutant of RecheckCandidate: a host submitted again has its row refreshed.
RecheckAndRefresh ==
    LET cand == worker.cand IN
    /\ worker.pc = "recheck"
    /\ worker' = [worker EXCEPT !.pc =
          IF cand.host \in Listed(db) \/ IpConflicts(cand.host, cand.ips, db) # {}
          THEN "done" ELSE "attempt"]
    /\ db' = UpdateTracker(cand.host, [ips |-> cand.ips, recent |-> cand.ips])
    /\ UNCHANGED <<queue, enq>>

\* process_new_tracker reads the table once more; the addresses are still
\* those the enqueue thread resolved.
RecheckCandidate ==
    LET cand == worker.cand IN
    /\ worker.pc = "recheck"
    /\ worker' = [worker EXCEPT !.pc =
          IF cand.host \in Listed(db) \/ IpConflicts(cand.host, cand.ips, db) # {}
          THEN "done" ELSE "attempt"]
    /\ UNCHANGED <<db, queue, enq>>

\* attempt_submitted finds a protocol that answers with an interval in range,
\* or does not (or raises RuntimeError or ValueError).
AttemptCandidate ==
    /\ worker.pc = "attempt"
    /\ \E verdict \in {"insert", "done"} : worker' = [worker EXCEPT !.pc = verdict]
    /\ UNCHANGED <<db, queue, enq>>

\* Mutant of AttemptRaises: submission_worker has no handler.
AttemptKillsWorker ==
    /\ worker.pc \in {"attempt", "insert"}
    /\ worker' = [worker EXCEPT !.pc = "dead"]
    /\ UNCHANGED <<db, queue, enq>>

\* Any other exception, of the attempt (a malformed UDP reply packs None), of
\* ip-api or of the INSERT, is logged by submission_worker, which goes on.
AttemptRaises ==
    /\ worker.pc \in {"attempt", "insert"}
    /\ worker' = [worker EXCEPT !.pc = "done"]
    /\ UNCHANGED <<db, queue, enq>>

InsertCandidate ==
    LET cand == worker.cand IN
    /\ worker.pc = "insert"
    /\ db' = InsertNewTracker(cand.host, [ips |-> cand.ips, recent |-> cand.ips])
    /\ worker' = [worker EXCEPT !.pc = "done"]
    /\ UNCHANGED <<queue, enq>>

\* task_done, and back to the blocking get.
FinishCandidate ==
    /\ worker.pc = "done"
    /\ worker' = NoWork
    /\ UNCHANGED <<db, queue, enq>>

-----------------------------------------------------------------------------
EnqueueStep(t) ==
    InspectQueue(t) \/ ReadTable(t) \/ RefuseUrl(t) \/ PutCandidate(t)

WorkerStep ==
    \/ TakeCandidate \/ RecheckCandidate \/ AttemptCandidate
    \/ AttemptRaises \/ InsertCandidate \/ FinishCandidate

IngestNext == WorkerStep \/ \E t \in Threads : Submit(t) \/ EnqueueStep(t)
=============================================================================
