------------------------------- MODULE Updater -------------------------------
(***************************************************************************)
(* trackon.update_outdated_trackers with Tracker.update_status: the one     *)
(* thread that rechecks listed trackers. It reads the whole table once a    *)
(* round, and writes each outdated tracker back, or deletes it, from that   *)
(* snapshot, minutes or hours later.                                        *)
(*                                                                          *)
(* Which rows are outdated, and when recent addresses expire, depends on    *)
(* the clock: both are choices here and TrackerLife.tla has the clock.      *)
(***************************************************************************)
EXTENDS TrackerDb

VARIABLE updater   \* pc; todo, the snapshot rows of the round not handled yet;
                   \* host, row and remove: the tracker in hand after update_status

NoneLeft == [h \in Hosts |-> None]
Asleep == [pc |-> "sleep", todo |-> NoneLeft, host |-> None, row |-> None,
           remove |-> FALSE]

UpdaterTypeOK ==
    /\ updater \in [pc     : {"sleep", "round", "write", "dead"},
                    todo   : [Hosts -> Row \cup {None}],
                    host   : Hosts \cup {None},
                    row    : Row \cup {None},
                    remove : BOOLEAN]
    /\ updater.pc = "write" => updater.host \in Hosts /\ updater.row \in Row

UpdaterInit == updater = Asleep

-----------------------------------------------------------------------------
(* What Tracker.update_status may make of a row it keeps. *)

Rechecked(host, row) == Resolved(host, row) \cup Unresolved(host, row)

-----------------------------------------------------------------------------
\* get_all_data, and the rows whose interval has passed.
StartRound ==
    /\ updater.pc = "sleep"
    /\ \E outdated \in SUBSET Listed(db) :
          updater' = [Asleep EXCEPT !.pc = "round",
                        !.todo = [h \in Hosts |-> IF h \in outdated THEN db[h]
                                                  ELSE None]]
    /\ UNCHANGED db

\* update_status keeps the tracker: it resolves, or it does not and is down.
UpdateStatus(h) ==
    /\ updater.pc = "round"
    /\ updater.todo[h] # None
    /\ \E row \in Rechecked(h, updater.todo[h]) :
          updater' = [updater EXCEPT !.pc = "write", !.todo[h] = None,
                        !.host = h, !.row = row, !.remove = FALSE]
    /\ UNCHANGED db

\* update_status sets to_be_deleted: last_uptime is older than max_downtime, a
\* BEP34 record denies connections, or an address is not global.
CondemnTracker(h) ==
    /\ updater.pc = "round"
    /\ updater.todo[h] # None
    /\ updater' = [updater EXCEPT !.pc = "write", !.todo[h] = None, !.host = h,
                     !.row = updater.todo[h], !.remove = TRUE]
    /\ UNCHANGED db

\* update_status lets pass what is not a RuntimeError, and neither reading the
\* table, writing it (an interval sqlite has no integer for, a locked file) nor
\* saving raw_data is guarded: the thread ends for the life of the process.
UpdateRaises ==
    /\ updater.pc \in {"round", "write"}
    /\ updater' = [Asleep EXCEPT !.pc = "dead"]
    /\ UNCHANGED db

WriteBack ==
    /\ updater.pc = "write"
    /\ db' = IF updater.remove THEN DeleteTracker(updater.host)
             ELSE UpdateTracker(updater.host, updater.row)
    /\ updater' = [updater EXCEPT !.pc = "round", !.host = None, !.row = None,
                     !.remove = FALSE]

EndRound ==
    /\ updater.pc = "round"
    /\ updater.todo = NoneLeft
    /\ updater' = Asleep
    /\ UNCHANGED db

UpdaterNext ==
    \/ StartRound \/ WriteBack \/ EndRound \/ UpdateRaises
    \/ \E h \in Hosts : UpdateStatus(h) \/ CondemnTracker(h)
=============================================================================
