-------------------------- MODULE NewTrackon_proofs --------------------------
(***************************************************************************)
(* Theorems about NewTrackon for any hosts, addresses, DNS answers, threads *)
(* and queue size.                                                          *)
(***************************************************************************)
EXTENDS NewTrackon, SequenceTheorems, TLAPS

-----------------------------------------------------------------------------
(* The rows a recheck can produce are rows. *)

LEMMA RecheckedCases ==
    ASSUME NEW h \in Hosts, NEW row \in Row, NEW new \in Rechecked(h, row)
    PROVE  /\ new \in Row
           /\ \/ /\ Global(new.ips) /\ new.ips \in Dns[h]
                 /\ new.ips \subseteq new.recent
                 /\ new.recent \subseteq new.ips \cup row.recent
              \/ /\ {} \in Dns[h] /\ new.ips = {} /\ new.recent = row.recent
  <1>1. CASE new \in Resolved(h, row)
    <2>1. PICK answer \in Dns[h], kept \in SUBSET row.recent :
            Global(answer) /\ new = [ips |-> answer, recent |-> answer \cup kept]
      BY <1>1 DEF Resolved
    <2>2. answer \subseteq IPs /\ kept \subseteq IPs
      BY DnsAssumption DEF Row
    <2> QED
      BY <2>1, <2>2 DEF Row
  <1>2. CASE new \in Unresolved(h, row)
    BY <1>2 DEF Unresolved, Row
  <1> QED
    BY <1>1, <1>2 DEF Rechecked

\* What a thread does with its list of URLs keeps the threads well typed.
LEMMA ThreadTypes ==
    ASSUME IngestTypeOK, NEW t \in Threads, enq[t].pc # "idle"
    PROVE  /\ Current(t) \in Url
           /\ NextUrl(t) => /\ enq' \in [Threads -> [pc    : {"idle", "inspect", "read", "resolve"},
                                                     batch : Seq(Url), seen : SUBSET IPs]]
                            /\ \A s \in Threads : enq'[s].pc # "idle" => enq'[s].batch # <<>>
           /\ Abort(t) =>   /\ enq' \in [Threads -> [pc    : {"idle", "inspect", "read", "resolve"},
                                                     batch : Seq(Url), seen : SUBSET IPs]]
                            /\ \A s \in Threads : enq'[s].pc # "idle" => enq'[s].batch # <<>>
  <1>1. enq[t].batch \in Seq(Url) /\ enq[t].batch # <<>>
    BY DEF IngestTypeOK
  <1>2. Head(enq[t].batch) \in Url /\ Tail(enq[t].batch) \in Seq(Url)
    BY <1>1, HeadTailProperties
  <1>3. NoThread \in [pc : {"idle", "inspect", "read", "resolve"},
                      batch : Seq(Url), seen : SUBSET IPs]
    BY DEF NoThread
  <1>4. NoThread.pc = "idle"
    BY DEF NoThread
  <1>5. ASSUME NEW next \in [pc : {"idle", "inspect", "read", "resolve"},
                             batch : Seq(Url), seen : SUBSET IPs],
               next.pc # "idle" => next.batch # <<>>,
               enq' = [enq EXCEPT ![t] = next]
        PROVE  /\ enq' \in [Threads -> [pc    : {"idle", "inspect", "read", "resolve"},
                                        batch : Seq(Url), seen : SUBSET IPs]]
               /\ \A s \in Threads : enq'[s].pc # "idle" => enq'[s].batch # <<>>
    BY <1>5 DEF IngestTypeOK
  <1>6. CASE Tail(enq[t].batch) = <<>>
    BY <1>2, <1>3, <1>4, <1>5, <1>6 DEF Current, NextUrl, Abort
  <1>7. CASE Tail(enq[t].batch) # <<>>
    <2>1. [pc |-> "inspect", batch |-> Tail(enq[t].batch), seen |-> {}]
            \in [pc : {"idle", "inspect", "read", "resolve"},
                 batch : Seq(Url), seen : SUBSET IPs]
      BY <1>2
    <2> QED
      BY <1>2, <1>3, <1>4, <1>5, <1>7, <2>1 DEF Current, NextUrl, Abort
  <1> QED
    BY <1>6, <1>7

-----------------------------------------------------------------------------
(* Type correctness. *)

LEMMA TypeInit == Init => TypeOK
  BY QueueMaxAssumption DEF Init, IngestInit, UpdaterInit, TypeOK, DbTypeOK, IngestTypeOK, UpdaterTypeOK,
         NoThread, NoWork, Asleep, NoneLeft

LEMMA TypeEnqueue ==
    ASSUME TypeOK, NEW t \in Threads, Submit(t) \/ EnqueueStep(t), UNCHANGED updater
    PROVE  TypeOK'
  <1> USE DEF TypeOK, DbTypeOK
  <1>0. UpdaterTypeOK'
    BY DEF UpdaterTypeOK
  <1>1. CASE Submit(t)
    <2>1. PICK batch \in Batches :
            enq' = [enq EXCEPT ![t].pc = "inspect", ![t].batch = batch]
      BY <1>1 DEF Submit
    <2>2. batch \in Seq(Url) /\ batch # <<>>
      BY BatchAssumption
    <2> QED
      BY <1>0, <1>1, <2>1, <2>2 DEF Submit, IngestTypeOK
  <1>2. CASE InspectQueue(t)
    <2>1. enq[t].pc # "idle"
      BY <1>2 DEF InspectQueue
    <2>2. CASE NextUrl(t) \/ Abort(t)
      BY <1>0, <1>2, <2>1, <2>2, ThreadTypes DEF InspectQueue, IngestTypeOK
    <2>3. CASE enq' = [enq EXCEPT ![t].pc = "read"]
      BY <1>0, <1>2, <2>1, <2>3 DEF InspectQueue, IngestTypeOK
    <2> QED
      BY <1>2, <2>2, <2>3 DEF InspectQueue
  <1>3. CASE ReadTable(t)
    <2>1. enq[t].pc # "idle"
      BY <1>3 DEF ReadTable
    <2>2. CASE NextUrl(t) \/ Abort(t)
      BY <1>0, <1>3, <2>1, <2>2, ThreadTypes DEF ReadTable, IngestTypeOK
    <2>3. CASE enq' = [enq EXCEPT ![t].pc = "resolve", ![t].seen = Held(db)]
      <3>1. Held(db) \in SUBSET IPs
        BY DEF Held, Listed, AddressesOf, Row
      <3> QED
        BY <1>0, <1>3, <2>1, <2>3, <3>1 DEF ReadTable, IngestTypeOK
    <2> QED
      BY <1>3, <2>2, <2>3 DEF ReadTable
  <1>4. CASE RefuseUrl(t)
    BY <1>0, <1>4, ThreadTypes DEF RefuseUrl, IngestTypeOK
  <1>5. CASE PutCandidate(t)
    <2>1. /\ enq[t].pc # "idle" /\ NextUrl(t)
          /\ UNCHANGED <<db, worker>>
      BY <1>5 DEF PutCandidate
    <2>2. PICK answer \in Dns[Current(t).host] :
            queue' = IF answer \cap enq[t].seen = {} /\ Len(queue) < QueueMax
                     THEN Append(queue, [host |-> Current(t).host,
                                         port |-> Current(t).port, ips |-> answer])
                     ELSE queue
      BY <1>5 DEF PutCandidate
    <2>3. [host |-> Current(t).host, port |-> Current(t).port, ips |-> answer]
             \in Candidate
      BY <2>1, ThreadTypes, DnsAssumption DEF Candidate, Url
    <2>4. queue' \in Seq(Candidate) /\ Len(queue') <= QueueMax
      BY <2>2, <2>3, QueueMaxAssumption, AppendProperties DEF IngestTypeOK
    <2> QED
      BY <1>0, <2>1, <2>4, ThreadTypes DEF IngestTypeOK
  <1> QED
    BY <1>1, <1>2, <1>3, <1>4, <1>5 DEF EnqueueStep

LEMMA TypeWorker ==
    ASSUME TypeOK, WorkerStep, UNCHANGED updater
    PROVE  TypeOK'
  <1> USE DEF TypeOK
  <1>0. UpdaterTypeOK'
    BY DEF UpdaterTypeOK
  <1>1. CASE TakeCandidate
    <2>1. Head(queue) \in Candidate /\ Tail(queue) \in Seq(Candidate)
          /\ Len(Tail(queue)) <= QueueMax
      BY <1>1, HeadTailProperties, QueueMaxAssumption DEF TakeCandidate, IngestTypeOK
    <2> QED
      BY <1>0, <1>1, <2>1 DEF TakeCandidate, IngestTypeOK, DbTypeOK
  <1>2. CASE RecheckCandidate
    BY <1>0, <1>2 DEF RecheckCandidate, IngestTypeOK, DbTypeOK
  <1>3. CASE AttemptCandidate
    BY <1>0, <1>3 DEF AttemptCandidate, IngestTypeOK, DbTypeOK
  <1>4. CASE AttemptRaises
    BY <1>0, <1>4 DEF AttemptRaises, IngestTypeOK, DbTypeOK
  <1>5. CASE InsertCandidate
    <2>1. worker.cand \in Candidate
      BY <1>5 DEF InsertCandidate, IngestTypeOK
    <2>2. [ips |-> worker.cand.ips, recent |-> worker.cand.ips] \in Row
      BY <2>1 DEF Candidate, Row
    <2>3. DbTypeOK'
      BY <1>5, <2>1, <2>2 DEF InsertCandidate, InsertNewTracker, DbTypeOK
    <2> QED
      BY <1>0, <1>5, <2>3 DEF InsertCandidate, IngestTypeOK
  <1>6. CASE FinishCandidate
    BY <1>0, <1>6 DEF FinishCandidate, NoWork, IngestTypeOK, DbTypeOK
  <1> QED
    BY <1>1, <1>2, <1>3, <1>4, <1>5, <1>6 DEF WorkerStep

LEMMA TypeUpdater ==
    ASSUME TypeOK, UpdaterNext, UNCHANGED ingestVars
    PROVE  TypeOK'
  <1> USE DEF TypeOK
  <1>0. IngestTypeOK'
    BY DEF IngestTypeOK, ingestVars
  <1>1. CASE StartRound
    <2>1. PICK outdated \in SUBSET Listed(db) :
            updater' = [Asleep EXCEPT !.pc = "round",
                          !.todo = [h \in Hosts |-> IF h \in outdated THEN db[h]
                                                    ELSE None]]
      BY <1>1 DEF StartRound
    <2>2. [h \in Hosts |-> IF h \in outdated THEN db[h] ELSE None]
            \in [Hosts -> Row \cup {None}]
      BY DEF DbTypeOK
    <2> QED
      BY <1>0, <1>1, <2>1, <2>2 DEF StartRound, Asleep, UpdaterTypeOK, DbTypeOK
  <1>2. CASE WriteBack
    BY <1>0, <1>2
    DEF WriteBack, UpdateTracker, DeleteTracker, UpdaterTypeOK, DbTypeOK
  <1>3. CASE EndRound
    BY <1>0, <1>3 DEF EndRound, Asleep, NoneLeft, UpdaterTypeOK, DbTypeOK
  <1>4. ASSUME NEW h \in Hosts, UpdateStatus(h)
        PROVE  TypeOK'
    <2>1. updater.todo[h] \in Row
      BY <1>4 DEF UpdateStatus, UpdaterTypeOK
    <2>2. PICK row \in Row :
            updater' = [updater EXCEPT !.pc = "write", !.todo[h] = None,
                          !.host = h, !.row = row, !.remove = FALSE]
      BY <1>4, <2>1, RecheckedCases DEF UpdateStatus
    <2> QED
      BY <1>0, <1>4, <2>2 DEF UpdateStatus, UpdaterTypeOK, DbTypeOK
  <1>5. ASSUME NEW h \in Hosts, CondemnTracker(h)
        PROVE  TypeOK'
    BY <1>0, <1>5 DEF CondemnTracker, UpdaterTypeOK, DbTypeOK
  <1>6. CASE UpdateRaises
    BY <1>0, <1>6 DEF UpdateRaises, Asleep, NoneLeft, UpdaterTypeOK, DbTypeOK
  <1> QED
    BY <1>1, <1>2, <1>3, <1>4, <1>5, <1>6 DEF UpdaterNext

LEMMA TypeStep == TypeOK /\ [Next]_vars => TypeOK'
  <1> SUFFICES ASSUME TypeOK, [Next]_vars PROVE TypeOK'
    OBVIOUS
  <1>1. CASE IngestNext /\ UNCHANGED updater
    BY <1>1, TypeWorker, TypeEnqueue DEF IngestNext
  <1>2. CASE UpdaterNext /\ UNCHANGED ingestVars
    BY <1>2, TypeUpdater
  <1>3. CASE Crash
    BY <1>3, QueueMaxAssumption
    DEF Crash, NoThread, NoWork, Asleep, NoneLeft,
        TypeOK, DbTypeOK, IngestTypeOK, UpdaterTypeOK
  <1>4. CASE UNCHANGED vars
    BY <1>4 DEF vars, TypeOK, DbTypeOK, IngestTypeOK, UpdaterTypeOK
  <1> QED
    BY <1>1, <1>2, <1>3, <1>4 DEF Next

\* Every variable keeps its type, and the queue its bound, whatever the threads
\* do and whenever the process is killed.
THEOREM TypeCorrect == Spec => []TypeOK
  BY TypeInit, TypeStep, PTL DEF Spec

-----------------------------------------------------------------------------
(* INSERT never meets a listed host. *)

LEMMA InsertStep ==
    TypeOK /\ InsertNeverConflicts /\ [Next]_vars => InsertNeverConflicts'
  <1> SUFFICES ASSUME TypeOK, InsertNeverConflicts, [Next]_vars
               PROVE  InsertNeverConflicts'
    OBVIOUS
  <1> USE DEF InsertNeverConflicts, Listed
  <1>1. ASSUME WorkerStep, UNCHANGED updater
        PROVE  InsertNeverConflicts'
    BY <1>1 DEF WorkerStep, TakeCandidate, RecheckCandidate, AttemptCandidate,
                AttemptRaises, InsertCandidate, FinishCandidate, NoWork,
                TypeOK, IngestTypeOK
  <1>2. ASSUME NEW t \in Threads, Submit(t) \/ EnqueueStep(t)
        PROVE  InsertNeverConflicts'
    BY <1>2 DEF Submit, EnqueueStep, InspectQueue, ReadTable, RefuseUrl, PutCandidate
  <1>3. ASSUME UpdaterNext, UNCHANGED ingestVars
        PROVE  InsertNeverConflicts'
    <2>1. \A h \in Hosts : db[h] = None => db'[h] = None
      BY <1>3 DEF UpdaterNext, StartRound, WriteBack, EndRound, UpdateStatus,
                  CondemnTracker, UpdateRaises, UpdateTracker, DeleteTracker,
                  TypeOK, DbTypeOK
    <2> QED
      BY <1>3, <2>1 DEF ingestVars, TypeOK, IngestTypeOK, Candidate
  <1>4. CASE Crash
    BY <1>4 DEF Crash, NoWork
  <1>5. CASE UNCHANGED vars
    BY <1>5 DEF vars
  <1> QED
    BY <1>1, <1>2, <1>3, <1>4, <1>5 DEF Next, IngestNext

\* The worker inserts only hosts that are not listed at that moment, although it
\* looked at the table before it contacted the tracker.
THEOREM InsertSafe == Spec => []InsertNeverConflicts
  <1>1. Init => InsertNeverConflicts
    BY DEF Init, IngestInit, NoWork, InsertNeverConflicts
  <1> QED
    BY <1>1, InsertStep, TypeCorrect, PTL DEF Spec

-----------------------------------------------------------------------------
(* The snapshot the updater works on. *)

\* The tracker in hand is no longer in the round, so writing it leaves the rest
\* of the snapshot as fresh as it was.
RoundInv ==
    /\ UpdaterSnapshotFresh
    /\ updater.pc = "write" => updater.todo[updater.host] = None

LEMMA RoundStep == TypeOK /\ RoundInv /\ [Next]_vars => RoundInv'
  <1> SUFFICES ASSUME TypeOK, RoundInv, [Next]_vars
               PROVE  RoundInv'
    OBVIOUS
  <1> USE DEF RoundInv, UpdaterSnapshotFresh, Listed
  <1>1. ASSUME UNCHANGED updater,
               \A h \in Hosts : db[h] # None => db'[h] = db[h]
        PROVE  RoundInv'
    BY <1>1 DEF TypeOK, UpdaterTypeOK, DbTypeOK, Rechecked, Resolved, Unresolved
  <1>2. CASE WorkerStep /\ UNCHANGED updater
    <2>1. \A h \in Hosts : db[h] # None => db'[h] = db[h]
      BY <1>2 DEF WorkerStep, TakeCandidate, RecheckCandidate, AttemptCandidate,
                  AttemptRaises, InsertCandidate, InsertNewTracker, FinishCandidate,
                  TypeOK, DbTypeOK, IngestTypeOK
    <2> QED
      BY <1>1, <1>2, <2>1
  <1>3. ASSUME NEW t \in Threads, Submit(t) \/ EnqueueStep(t), UNCHANGED updater
        PROVE  RoundInv'
    BY <1>1, <1>3 DEF Submit, EnqueueStep, InspectQueue, ReadTable, RefuseUrl,
                      PutCandidate
  <1>4. CASE StartRound
    BY <1>4 DEF StartRound, Asleep, NoneLeft, TypeOK, DbTypeOK
  <1>5. ASSUME NEW h \in Hosts, UpdateStatus(h)
        PROVE  RoundInv'
    BY <1>5, NoneAssumption DEF UpdateStatus, TypeOK, UpdaterTypeOK
  <1>6. ASSUME NEW h \in Hosts, CondemnTracker(h)
        PROVE  RoundInv'
    BY <1>6 DEF CondemnTracker, TypeOK, UpdaterTypeOK
  <1>7. CASE WriteBack
    <2>1. \A h \in Hosts : updater.todo[h] # None => db'[h] = db[h]
      BY <1>7 DEF WriteBack, UpdateTracker, DeleteTracker, TypeOK, DbTypeOK,
                  UpdaterTypeOK
    <2> QED
      BY <1>7, <2>1 DEF WriteBack, TypeOK, UpdaterTypeOK
  <1>8. CASE EndRound \/ UpdateRaises
    BY <1>8 DEF EndRound, UpdateRaises, Asleep, NoneLeft
  <1>9. CASE Crash
    BY <1>9 DEF Crash, Asleep, NoneLeft
  <1>10. CASE UNCHANGED vars
    BY <1>1, <1>10 DEF vars
  <1> QED
    BY <1>2, <1>3, <1>4, <1>5, <1>6, <1>7, <1>8, <1>9, <1>10
    DEF Next, IngestNext, UpdaterNext

LEMMA RoundAlways == Spec => []RoundInv
  <1>1. Init => RoundInv
    BY DEF Init, UpdaterInit, Asleep, NoneLeft, RoundInv, UpdaterSnapshotFresh
  <1> QED
    BY <1>1, RoundStep, TypeCorrect, PTL DEF Spec

\* What the updater is about to write is a recheck of the row that is stored at
\* that moment: its snapshot of the table never goes stale.
THEOREM SnapshotFresh == Spec => []UpdaterSnapshotFresh
  <1>1. RoundInv => UpdaterSnapshotFresh
    BY DEF RoundInv
  <1> QED
    BY <1>1, RoundAlways, PTL

-----------------------------------------------------------------------------
(* Candidates carry the addresses their host resolved to. *)

Resolves(cand) == cand.ips \in Dns[cand.host] /\ Global(cand.ips)

CandidateInv ==
    /\ \A i \in 1..Len(queue) : Resolves(queue[i])
    /\ worker.pc # "get" => Resolves(worker.cand)

LEMMA CandidateStep == TypeOK /\ CandidateInv /\ [Next]_vars => CandidateInv'
  <1> SUFFICES ASSUME TypeOK, CandidateInv, [Next]_vars
               PROVE  CandidateInv'
    OBVIOUS
  <1> USE DEF CandidateInv, Resolves, Global
  <1>0. queue \in Seq(Candidate)
    BY DEF TypeOK, IngestTypeOK
  <1>1. CASE TakeCandidate
    <2>1. /\ Head(queue) = queue[1] /\ 1 \in 1..Len(queue)
          /\ \A i \in 1..Len(Tail(queue)) :
                Tail(queue)[i] = queue[i+1] /\ i+1 \in 1..Len(queue)
      BY <1>0, <1>1, HeadTailProperties DEF TakeCandidate
    <2> QED
      BY <1>1, <2>1 DEF TakeCandidate
  <1>2. CASE RecheckCandidate \/ AttemptCandidate \/ AttemptRaises
             \/ InsertCandidate \/ FinishCandidate
    BY <1>2 DEF RecheckCandidate, AttemptCandidate, AttemptRaises,
                InsertCandidate, FinishCandidate, NoWork, TypeOK, IngestTypeOK
  <1>3. ASSUME NEW t \in Threads, PutCandidate(t)
        PROVE  CandidateInv'
    <2>1. PICK answer \in Dns[Current(t).host] :
            /\ Global(answer)
            /\ queue' = IF answer \cap enq[t].seen = {} /\ Len(queue) < QueueMax
                        THEN Append(queue, [host |-> Current(t).host,
                                            port |-> Current(t).port, ips |-> answer])
                        ELSE queue
      BY <1>3 DEF PutCandidate
    <2>2. Current(t) \in Url
      BY <1>3, ThreadTypes DEF PutCandidate, TypeOK
    <2>3. [host |-> Current(t).host, port |-> Current(t).port, ips |-> answer]
             \in Candidate
      BY <2>2, DnsAssumption DEF Candidate, Url
    <2> QED
      BY <1>0, <1>3, <2>1, <2>3, AppendProperties DEF PutCandidate
  <1>4. ASSUME NEW t \in Threads,
               Submit(t) \/ InspectQueue(t) \/ ReadTable(t) \/ RefuseUrl(t)
        PROVE  CandidateInv'
    BY <1>4 DEF Submit, InspectQueue, ReadTable, RefuseUrl
  <1>5. CASE UNCHANGED ingestVars
    BY <1>5 DEF ingestVars
  <1>6. CASE Crash
    BY <1>6 DEF Crash, NoWork
  <1>7. CASE UNCHANGED vars
    BY <1>7 DEF vars
  <1> QED
    BY <1>1, <1>2, <1>3, <1>4, <1>5, <1>6, <1>7
    DEF Next, IngestNext, WorkerStep, EnqueueStep

LEMMA CandidateAlways == Spec => []CandidateInv
  <1>1. Init => CandidateInv
    BY DEF Init, IngestInit, NoWork, CandidateInv
  <1> QED
    BY <1>1, CandidateStep, TypeCorrect, PTL DEF Spec

-----------------------------------------------------------------------------
(* Disjoint addresses under stable names. *)

\* While names are stable, recent is the one answer the host has ever had: a
\* failed resolution empties ips but leaves recent, which is what newcomers are
\* compared with. The verdict of the worker's recheck therefore survives
\* whatever the updater writes while the tracker is being contacted.
Settled ==
    \A h \in Listed(db) :
        /\ db[h].recent \in Dns[h] /\ Global(db[h].recent)
        /\ db[h].ips \subseteq db[h].recent

VerdictStands ==
    worker.pc \in {"attempt", "insert"} =>
        IpConflicts(worker.cand.host, worker.cand.ips, db) = {}

StableInv == DnsIsStable => Settled /\ VerdictStands /\ ListedHostsDisjoint

\* A table whose rows hold the same addresses as before, or are gone, keeps all
\* three.
LEMMA SameAddresses ==
    ASSUME DbTypeOK, DbTypeOK', StableInv, DnsIsStable,
           worker' = worker \/ worker'.pc \notin {"attempt", "insert"},
           \A h \in Listed(db') : /\ h \in Listed(db)
                                  /\ db'[h].recent = db[h].recent
                                  /\ db'[h].ips \subseteq db[h].recent
    PROVE  StableInv'
  <1>1. Settled'
    BY DEF StableInv, Settled
  <1>2. \A h \in Listed(db') : AddressesOf(db'[h]) = AddressesOf(db[h])
    BY <1>1 DEF Settled, AddressesOf, StableInv
  <1>3. VerdictStands'
    BY <1>2 DEF StableInv, VerdictStands, IpConflicts
  <1>4. ListedHostsDisjoint'
    BY <1>2 DEF StableInv, ListedHostsDisjoint
  <1> QED
    BY <1>1, <1>3, <1>4 DEF StableInv

LEMMA StableStep ==
    TypeOK /\ TypeOK' /\ RoundInv /\ CandidateInv /\ StableInv
      /\ InsertNeverConflicts /\ [Next]_vars
    => StableInv'
  <1> SUFFICES ASSUME TypeOK, TypeOK', RoundInv, CandidateInv, StableInv,
                      InsertNeverConflicts, [Next]_vars, DnsIsStable
               PROVE  StableInv'
    BY DEF StableInv, DnsIsStable
  <1> USE DEF TypeOK
  <1>0. ASSUME db' = db, worker' = worker \/ worker'.pc \notin {"attempt", "insert"}
        PROVE  StableInv'
    BY <1>0, SameAddresses DEF StableInv, Settled
  <1>1. CASE RecheckCandidate
    BY <1>1 DEF RecheckCandidate, StableInv, Settled, VerdictStands,
                ListedHostsDisjoint, IngestTypeOK
  <1>2. CASE AttemptCandidate
    BY <1>2 DEF AttemptCandidate, StableInv, Settled, VerdictStands,
                ListedHostsDisjoint, IngestTypeOK
  <1>3. CASE InsertCandidate
    <2> DEFINE cand == worker.cand
               row  == [ips |-> cand.ips, recent |-> cand.ips]
    <2>1. /\ cand \in Candidate /\ Resolves(cand)
          /\ cand.host \notin Listed(db)
          /\ IpConflicts(cand.host, cand.ips, db) = {}
      BY <1>3 DEF InsertCandidate, IngestTypeOK, CandidateInv, StableInv,
                  VerdictStands, InsertNeverConflicts
    <2>2. /\ cand.host \in Hosts
          /\ db' = [db EXCEPT ![cand.host] = row]
          /\ worker'.pc = "done"
      BY <1>3, <2>1
      DEF InsertCandidate, InsertNewTracker, Listed, Candidate, IngestTypeOK
    <2>3. Listed(db') \subseteq Listed(db) \cup {cand.host}
      BY <2>2 DEF Listed, DbTypeOK
    <2>4. \A h \in Listed(db) : h # cand.host /\ db'[h] = db[h]
      BY <2>1, <2>2 DEF Listed, DbTypeOK
    <2>5. db'[cand.host] = row
      BY <2>2 DEF DbTypeOK
    <2>6. Settled'
      BY <2>1, <2>3, <2>4, <2>5 DEF Settled, StableInv, Resolves
    <2>7. AddressesOf(row) = cand.ips
      BY DEF AddressesOf
    <2>8. \A g \in Listed(db) : cand.ips \cap AddressesOf(db[g]) = {}
      BY <2>1 DEF IpConflicts
    <2>9. ListedHostsDisjoint'
      BY <2>3, <2>4, <2>5, <2>7, <2>8 DEF ListedHostsDisjoint, StableInv
    <2> QED
      BY <2>2, <2>6, <2>9 DEF StableInv, VerdictStands
  <1>4. CASE TakeCandidate \/ AttemptRaises \/ FinishCandidate
    BY <1>0, <1>4 DEF TakeCandidate, AttemptRaises, FinishCandidate, NoWork,
                      IngestTypeOK
  <1>5. ASSUME NEW t \in Threads, Submit(t) \/ EnqueueStep(t)
        PROVE  StableInv'
    BY <1>0, <1>5 DEF Submit, EnqueueStep, InspectQueue, ReadTable, RefuseUrl,
                      PutCandidate
  <1>6. CASE WriteBack /\ UNCHANGED ingestVars
    <2>1. PICK host \in Hosts : host = updater.host /\ db[host] \in Row
      BY <1>6 DEF WriteBack, UpdaterTypeOK, RoundInv, UpdaterSnapshotFresh, Listed,
                  DbTypeOK
    <2>2. CASE updater.remove
      <3>1. \A h \in Listed(db') : h \in Listed(db) /\ db'[h] = db[h]
        BY <1>6, <2>2 DEF WriteBack, DeleteTracker, Listed, DbTypeOK
      <3> QED
        BY <1>6, <3>1, SameAddresses DEF ingestVars, StableInv, Settled
    <2>3. CASE ~updater.remove
      <3> DEFINE new == updater.row
      <3>1. host \in Listed(db) /\ new \in Rechecked(host, db[host])
        BY <1>6, <2>1, <2>3 DEF WriteBack, RoundInv, UpdaterSnapshotFresh
      <3>2. db[host].recent \in Dns[host] /\ Global(db[host].recent)
        BY <3>1 DEF StableInv, Settled
      <3>3. \/ /\ Global(new.ips) /\ new.ips \in Dns[host]
               /\ new.ips \subseteq new.recent
               /\ new.recent \subseteq new.ips \cup db[host].recent
            \/ new.ips = {} /\ new.recent = db[host].recent
        BY <2>1, <3>1, RecheckedCases
      <3>4. new.recent = db[host].recent /\ new.ips \subseteq db[host].recent
        <4>1. CASE Global(new.ips) /\ new.ips \in Dns[host]
          <5>1. new.ips = db[host].recent
            BY <3>2, <4>1 DEF DnsIsStable
          <5> QED
            BY <3>2, <3>3, <5>1 DEF Global
        <4>2. CASE new.ips = {} /\ new.recent = db[host].recent
          BY <4>2
        <4> QED
          BY <3>3, <4>1, <4>2
      <3>5. db' = [db EXCEPT ![host] = new]
        BY <1>6, <2>1, <2>3, <3>1 DEF WriteBack, UpdateTracker, Listed
      <3>6. \A h \in Listed(db') : /\ h \in Listed(db)
                                   /\ db'[h].recent = db[h].recent
                                   /\ db'[h].ips \subseteq db[h].recent
        BY <3>1, <3>4, <3>5 DEF Listed, DbTypeOK, StableInv, Settled
      <3> QED
        BY <1>6, <3>6, SameAddresses DEF ingestVars
    <2> QED
      BY <2>2, <2>3
  <1>7. CASE /\ \/ StartRound \/ EndRound \/ UpdateRaises
                \/ \E h \in Hosts : UpdateStatus(h) \/ CondemnTracker(h)
             /\ UNCHANGED ingestVars
    BY <1>0, <1>7 DEF StartRound, EndRound, UpdateStatus, CondemnTracker,
                      UpdateRaises, ingestVars
  <1>8. CASE Crash
    BY <1>0, <1>8 DEF Crash, NoWork
  <1>9. CASE UNCHANGED vars
    BY <1>0, <1>9 DEF vars
  <1> QED
    BY <1>1, <1>2, <1>3, <1>4, <1>5, <1>6, <1>7, <1>8, <1>9
    DEF Next, IngestNext, WorkerStep, UpdaterNext

LEMMA StableAlways == Spec => []StableInv
  <1>1. Init => StableInv
    BY DEF Init, IngestInit, NoWork, StableInv, Settled, VerdictStands,
           ListedHostsDisjoint, Listed
  <1> QED
    BY <1>1, StableStep, TypeCorrect, RoundAlways, CandidateAlways, InsertSafe, PTL
    DEF Spec

\* As long as no name changes its addresses, no two listed hosts hold a common
\* one, though the check and the insertion are minutes apart, queues hold
\* duplicates, and rows lose their addresses whenever a resolution fails.
THEOREM HostsDisjoint == Spec => []ListedHostsDisjoint
  <1>1. StableInv => ListedHostsDisjoint
    BY DEF StableInv, ListedHostsDisjoint
  <1> QED
    BY <1>1, StableAlways, PTL

-----------------------------------------------------------------------------
(* Refinement. *)

LEMMA ListStep ==
    TypeOK /\ RoundInv /\ CandidateInv /\ StableInv /\ InsertNeverConflicts /\ [Next]_vars
    => [TL!ListNext]_db
  <1> SUFFICES ASSUME TypeOK, RoundInv, CandidateInv, StableInv,
                      InsertNeverConflicts, [Next]_vars
               PROVE  TL!ListNext \/ db' = db
    OBVIOUS
  <1> USE DEF TypeOK
  <1>1. CASE InsertCandidate
    <2> DEFINE cand == worker.cand
    <2>1. /\ cand \in Candidate /\ Resolves(cand)
          /\ db[cand.host] = None
          /\ DnsIsStable => IpConflicts(cand.host, cand.ips, db) = {}
      BY <1>1 DEF InsertCandidate, IngestTypeOK, CandidateInv, StableInv,
                  VerdictStands, InsertNeverConflicts, Listed, Candidate
    <2>2. /\ cand.host \in Hosts
          /\ db' = [db EXCEPT ![cand.host] = [ips |-> cand.ips, recent |-> cand.ips]]
      BY <1>1, <2>1 DEF InsertCandidate, InsertNewTracker, Candidate
    <2>3. TL!Stable => TL!Free(cand.host, cand.ips)
      BY <2>1 DEF TL!Stable, TL!Global, TL!Free, DnsIsStable, Global, IpConflicts,
                  Listed, AddressesOf
    <2>4. TL!Enter(cand.host)
      BY <2>1, <2>2, <2>3 DEF TL!Enter, TL!Global, Global, Resolves
    <2> QED
      BY <2>2, <2>4 DEF TL!ListNext
  <1>2. CASE WriteBack
    <2>1. PICK host \in Hosts : host = updater.host /\ db[host] \in Row
      BY <1>2 DEF WriteBack, UpdaterTypeOK, RoundInv, UpdaterSnapshotFresh, Listed,
                  DbTypeOK
    <2>2. db[host] # None
      BY <1>2, <2>1 DEF WriteBack, RoundInv, UpdaterSnapshotFresh, Listed
    <2>3. CASE updater.remove
      BY <1>2, <2>1, <2>2, <2>3
      DEF WriteBack, DeleteTracker, TL!Leave, TL!ListNext
    <2>4. CASE ~updater.remove
      <3> DEFINE new == updater.row
      <3>1. new \in Rechecked(host, db[host])
        BY <1>2, <2>1, <2>4 DEF WriteBack, RoundInv, UpdaterSnapshotFresh
      <3>2. /\ new \in Row
            /\ \/ /\ Global(new.ips) /\ new.ips \in Dns[host]
                  /\ new.ips \subseteq new.recent
                  /\ new.recent \subseteq new.ips \cup db[host].recent
               \/ {} \in Dns[host] /\ new.ips = {} /\ new.recent = db[host].recent
        BY <2>1, <3>1, RecheckedCases
      <3>3. db' = [db EXCEPT ![host] = new]
        BY <1>2, <2>1, <2>2, <2>4 DEF WriteBack, UpdateTracker
      <3>4. TL!Recheck(host)
        BY <2>2, <3>2, <3>3 DEF TL!Recheck, TL!ListRow, TL!Global, Global, Row
      <3> QED
        BY <2>1, <3>4 DEF TL!ListNext
    <2> QED
      BY <2>3, <2>4
  <1>3. CASE TakeCandidate \/ RecheckCandidate \/ AttemptCandidate \/ AttemptRaises
             \/ FinishCandidate
    BY <1>3 DEF TakeCandidate, RecheckCandidate, AttemptCandidate, AttemptRaises,
                FinishCandidate
  <1>4. ASSUME NEW t \in Threads, Submit(t) \/ EnqueueStep(t)
        PROVE  db' = db
    BY <1>4 DEF Submit, EnqueueStep, InspectQueue, ReadTable, RefuseUrl, PutCandidate
  <1>5. CASE \/ StartRound \/ EndRound \/ UpdateRaises
             \/ \E h \in Hosts : UpdateStatus(h) \/ CondemnTracker(h)
    BY <1>5 DEF StartRound, EndRound, UpdateStatus, CondemnTracker, UpdateRaises
  <1>6. CASE Crash \/ UNCHANGED vars
    BY <1>6 DEF Crash, vars
  <1> QED
    BY <1>1, <1>2, <1>3, <1>4, <1>5, <1>6
    DEF Next, IngestNext, WorkerStep, UpdaterNext

\* The program implements the list it promises: queue, threads, snapshots and
\* kills are invisible in the table, which changes by whole entries, rechecks
\* and removals, each justified by the row it finds.
THEOREM Implements == Spec => ImplementsTrackerList
  <1>1. Init => TL!ListInit
    BY DEF Init, TL!ListInit
  <1> QED
    BY <1>1, ListStep, TypeCorrect, RoundAlways, CandidateAlways, StableAlways,
       InsertSafe, PTL
    DEF Spec, ImplementsTrackerList, TL!ListSpec

-----------------------------------------------------------------------------
(* The warnings. *)

\* Every current address of a row is among its recent ones, which is why the
\* warnings need not look at the current ones.
Stamped == \A h \in Listed(db) : db[h].ips \subseteq db[h].recent

\* The list as it is specified keeps its rows stamped.
LEMMA StampedStep ==
    ASSUME TypeOK, Stamped, [TL!ListNext]_db
    PROVE  Stamped'
  <1> USE DEF Stamped, Listed
  <1>1. ASSUME NEW h \in Hosts, TL!Enter(h)
        PROVE  Stamped'
    BY <1>1 DEF TL!Enter, TypeOK, DbTypeOK
  <1>2. ASSUME NEW h \in Hosts, TL!Recheck(h)
        PROVE  Stamped'
    <2>1. PICK new \in Row : /\ db' = [db EXCEPT ![h] = new]
                             /\ new.ips \subseteq new.recent \/ new.ips = {}
      BY <1>2 DEF TL!Recheck, TL!ListRow, Row
    <2> QED
      BY <2>1 DEF TypeOK, DbTypeOK
  <1>3. ASSUME NEW h \in Hosts, TL!Leave(h)
        PROVE  Stamped'
    BY <1>3 DEF TL!Leave, TypeOK, DbTypeOK
  <1>4. CASE db' = db
    BY <1>4
  <1> QED
    BY <1>1, <1>2, <1>3, <1>4 DEF TL!ListNext

LEMMA StampedWarns ==
    ASSUME DbTypeOK, Stamped
    PROVE  OverlapsWarned
  <1> SUFFICES ASSUME NEW g \in Listed(db), NEW h \in Listed(db), NEW ip \in IPs,
                      g # h, ip \in db[g].ips \cap AddressesOf(db[h])
               PROVE  /\ ip \in Duplicates(db)
                      /\ [host |-> g, ip |-> ip] \in RecentOverlaps(db)
    BY DEF OverlapsWarned
  <1>1. ip \in db[g].recent /\ ip \in db[h].recent
    BY DEF Stamped, AddressesOf
  <1>2. ip \in Duplicates(db)
    BY <1>1 DEF Duplicates, Contributed
  <1>3. h \in RecentIndex(db)[ip] \ {g}
    BY <1>1 DEF RecentIndex
  <1> QED
    BY <1>2, <1>3 DEF RecentOverlaps

\* However names move, and whatever the threads do to the table on stale data, an
\* address that two listed hosts have come to share is warned of.
THEOREM Warned == Spec => []OverlapsWarned
  <1>1. Init => Stamped
    BY DEF Init, Stamped, Listed
  <1>2. TypeOK /\ Stamped => OverlapsWarned
    BY StampedWarns DEF TypeOK
  <1>3. TypeOK /\ Stamped /\ [TL!ListNext]_db => Stamped'
    BY StampedStep
  <1> QED
    BY <1>1, <1>2, <1>3, ListStep, TypeCorrect, RoundAlways, CandidateAlways, StableAlways,
       InsertSafe, PTL
    DEF Spec
=============================================================================
