----------------------------- MODULE NewTrackon -----------------------------
(***************************************************************************)
(* The threads run.py starts, over the one table: enqueue threads, the      *)
(* submission worker and the updater, and the process being killed. The     *)
(* ingest side and the updater side share `db` and nothing else.            *)
(***************************************************************************)
EXTENDS Ingest, Updater, Warnings

CONSTANT MayCrash    \* is the process ever killed?

ASSUME CrashAssumption == MayCrash \in BOOLEAN

vars == <<db, queue, enq, worker, updater>>

TypeOK == DbTypeOK /\ IngestTypeOK /\ UpdaterTypeOK

Init ==
    /\ db = [h \in Hosts |-> None]
    /\ IngestInit
    /\ UpdaterInit

\* Killed and started again: the table is on disk, submitted_queue, the threads
\* and whatever they had in hand are not.
Crash ==
    /\ MayCrash
    /\ queue' = <<>>
    /\ enq' = [t \in Threads |-> NoThread]
    /\ worker' = NoWork
    /\ updater' = Asleep
    /\ UNCHANGED db

Next ==
    \/ IngestNext /\ UNCHANGED updater
    \/ UpdaterNext /\ UNCHANGED ingestVars
    \/ Crash

Spec == Init /\ [][Next]_vars

\* The worker is scheduled, and every call it makes to the outside returns. Nobody
\* has to submit anything, and neither an enqueue thread nor the updater has to go on.
Fairness == WF_vars(WorkerStep /\ UNCHANGED updater)

FairSpec == Spec /\ Fairness

-----------------------------------------------------------------------------
(* Safety *)

\* The worker checks that a host is not listed long before it inserts it. The
\* row is still missing when it does: INSERT never meets its PRIMARY KEY, though
\* the queue may hold the host twice (ingest.py:144-181, db.py:157).
InsertNeverConflicts ==
    worker.pc \in {"attempt", "insert"} => worker.cand.host \notin Listed(db)

\* The updater works on rows read at the start of its round. Whatever it is
\* about to write for a host is what a recheck of the row stored NOW could have
\* given: no write of the worker is undone, no removed host comes back, and no
\* UPDATE finds its row gone (trackon.py:33-47, db.py:46-71).
UpdaterSnapshotFresh ==
    /\ \A h \in Hosts : updater.todo[h] # None => updater.todo[h] = db[h]
    /\ updater.pc = "write" =>
          /\ updater.host \in Listed(db)
          /\ ~updater.remove => updater.row \in Rechecked(updater.host, db[updater.host])

\* Two listed hosts share no address, current or recent, as long as names keep
\* theirs, whether or not they resolve at a given moment (tpl/static/faq.jinja:8-9).
ListedHostsDisjoint ==
    DnsIsStable =>
      \A g, h \in Listed(db) :
          g # h => AddressesOf(db[g]) \cap AddressesOf(db[h]) = {}

\* An address of a listed host that another one has or had recently is warned
\* about, both as a duplicate and naming the host, whatever names do: the
\* overlaps that get past the comparisons with the table do not stay unnoticed,
\* not even while the other host does not resolve
\* (trackon.py:16-27, 52-101; tracker.py:119-121).
OverlapsWarned ==
    \A g, h \in Listed(db) : \A ip \in IPs :
        g # h /\ ip \in db[g].ips \cap AddressesOf(db[h]) =>
          /\ ip \in Duplicates(db)
          /\ [host |-> g, ip |-> ip] \in RecentOverlaps(db)

\* The threads together change the table as one atomic recheck, entry or removal
\* at a time: TrackerList.tla.
TL == INSTANCE TrackerList WITH list <- db
ImplementsTrackerList == TL!ListSpec

-----------------------------------------------------------------------------
(* Liveness *)

\* A queued candidate reaches the worker, however many candidates before it
\* fail or raise, and however many are submitted meanwhile
\* (ingest.py:132-141).
InQueue(h, p) == \E i \in DOMAIN queue : queue[i].host = h /\ queue[i].port = p
InHand(h, p)  == worker.pc # "get" /\ worker.cand.host = h /\ worker.cand.port = p

CandidateReached ==
    \A h \in Hosts, p \in Ports : InQueue(h, p) ~> InHand(h, p)

-----------------------------------------------------------------------------
(* What the documentation and the tests say, and the code does not do. *)

\* newtrackon-api.yml:141 "Submits new trackers to be checked and either accepted
\* or discarded": each of them, so a thread drops at most one URL at a time.
EachUrlConsidered ==
    [][\A t \in Threads :
         Len(enq[t].batch) > 0 => Len(enq'[t].batch) >= Len(enq[t].batch) - 1]_vars
=============================================================================
