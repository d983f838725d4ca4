-------------------------- MODULE AnnounceOutcome --------------------------
(***************************************************************************)
(* What one announce may come to for attempt_udp, attempt_httpx and        *)
(* update_status: over UDP an answer with an interval, over HTTP(S) one     *)
(* with an interval or without; a RuntimeError, which they catch; or what   *)
(* none of them catches: a ValueError, of the port of a UDP URL or of       *)
(* requests, or, over UDP, another exception. Submission and TrackerUrl     *)
(* take an announce to be one such outcome.                                 *)
(***************************************************************************)

VARIABLES
    udp,        \* is the scheme of the URL UDP?
    outcome

Expected ==
    {"answer with interval", "RuntimeError", "ValueError"}
    \cup (IF udp THEN {"other exception"} ELSE {"answer"})

OutcomeInit == udp \in BOOLEAN /\ outcome = "pending"

OutcomeNext == outcome = "pending" /\ outcome' \in Expected /\ UNCHANGED udp

OutcomeSpec == OutcomeInit /\ [][OutcomeNext]_<<udp, outcome>>
=============================================================================
