# A verification project for newTrackon

newTrackon keeps a list of public BitTorrent trackers: anyone submits URLs, one
thread contacts the new ones and lists those that answer, one thread rechecks
the listed ones. This directory holds TLA+ models of that program, the TLC
configurations that check them, and proofs for the TLA+ proof system.

## 1. The system

| Component | State it keeps | Operations | Interacts with |
|---|---|---|---|
| Tracker table, `newtrackon/db.py` | sqlite table `status`, one row per host | `get_all_data`, `insert_new_tracker`, `update_tracker`, `delete_tracker`, `get_api_data` | every thread; each call is one connection and one transaction |
| Ingest, `newtrackon/ingest.py` | `submitted_queue` (10000), the URLs an enqueue thread has left, the candidate in the worker's hands | `enqueue_new_trackers`, `submission_worker`, `process_new_tracker` | started by the views and the daily list; reads and writes the table; calls the scraper |
| Updater, `newtrackon/trackon.py` | the rows of the current round | `update_outdated_trackers` | reads and writes the table; calls `Tracker.update_status` |
| Tracker, `newtrackon/tracker.py` | the fields of a row: addresses, recent addresses, interval, uptime, history, times | `from_url`, `update_status`, `clear_tracker`, ... | DNS, scraper, ip-api |
| Scraper, `newtrackon/scraper.py` | none but the entries it adds to `submitted_data` | `attempt_submitted`, `announce_http`, `announce_udp`, `get_bep_34` | the outside |
| Persistence, `newtrackon/persistence.py` | `submitted_data` and `raw_data`, deques of 600, and their JSON files | `save_deque_to_disk`, `load_history` | worker, updater, views |
| Overlap warnings, `newtrackon/trackon.py` | none | `warn_of_ip_conflicts` | reads the table, logs |
| Web application, `newtrackon/views.py`, `tpl/`, `newtrackon-api.yml` | none | pages, API queries, POST of URLs | reads table and histories; starts enqueue threads |
| Daily list, `newtrackon/trackerlist_project.py` | none | one `enqueue_new_trackers` a day | ingest |
| Bencode decoder, `newtrackon/bdecode.py` | `data`, `index` of one `Decoder` | `bdecode`, `Decoder.decode` and the loops of lists and dictionaries | `announce_http` |
| Utilities, `newtrackon/utils.py` | none | filters of the API, `process_txt_prefs`, URL building, formatting | scraper, tracker, views |

**What is hard.** Enqueue threads, worker and updater run concurrently and share
the table and the queue. `list_lock` and the mutex of the queue protect single
reads; every decision is made on a snapshot and carried out seconds to hours
later. The outside answers late, wrongly or not at all, and some exceptions have
no handler. Rows depend on the clock through three windows (interval, address
history, downtime). Histories are bounded, and files are rewritten in place. A
host that is rechecked for months changes its BEP34 record and its services
between any two steps of a recheck. A UDP announce is two attempts over several
addresses on a network that loses, delays and duplicates; an HTTP one decodes
whatever arrives.

**What makes each part correct.** *Ingest:* a host is inserted once; a candidate
does not share addresses with the list; nothing a candidate does stops the
worker; every URL is considered. *Updater:* it never overwrites what it has not
read. *Tracker:* the row tells what happened to the
tracker, the tracker is not contacted more often than it asked, and its URL is
one it answered at or named. *Announce:* the answer returned is the answer to
what was asked, the second attempt makes up for the first, no socket stays open,
nothing cut short is an answer, and no exception gets out that is not known to. *Scraper and
persistence:* attempts are those advertised, and the history tells what became
of a candidate, at every moment and after a restart. *Warnings and API:* what
they say of the table is true of it. `PROJECT.json` lists the hazards line by
line with the properties that cover them.

## 2. The modules

| Module | Models |
|---|---|
| `TrackerDb` | the table as a function from hosts to rows or `None`, its three statements, `collect_ip_conflicts`, name resolution |
| `Ingest` | enqueue threads, bounded queue, worker, one action per step between two points where another thread may run |
| `Updater` | rounds over a snapshot of rows, `update_status`, write-back and removal |
| `Warnings` | `warn_of_ip_conflicts`: what is logged about a table |
| `NewTrackon` | the composition of these four over one table, kill and restart, fairness, the properties |
| `TrackerList` | abstract specification of the list: atomic `Enter`, `Recheck`, `Leave` |
| `TrackerLife` | one row, the Tracker object in hand and the clock: submission, lookup, announce and write as steps of their own, kills between them, `clear_tracker`, windows, history |
| `ApiList` | the queries and filters of the API, evaluated on the rows of `TrackerLife` |
| `UptimeList` | the uptime of one tracker over up to 1000 attempts and `/api/<percentage>` |
| `TrackerUrl` | the URL of one row while its host changes its record and services: `update_scheme_from_bep_34`, probes, announce, kills, the end of the updater |
| `Submission` | the worker's protocol attempts, verdicts, history entries and history file |
| `UdpAnnounce` | `announce_udp`, the peer and the network between them |
| `Bdecode` | the decoder as a machine with a stack of frames |
| `HttpAnnounce` | `announce_http`: limit, decoding, verdict on a body |
| `Announce` | one announce by either client; reference encoding, the properties |
| `AnnounceOutcome` | abstract specification of an announce: one step to an outcome its callers are written for |
| `MC...` | values for the constants |
| `..._proofs` | the theorems, one module each for `NewTrackon`, `TrackerLife`, `TrackerUrl`, `Submission`; `Announce_proofs` is the UDP client and the refinement, `Encoding_proofs` the lemmas about encoded responses, `Decoder_proofs` the HTTP client |
| `DataInduction` | induction over the natural numbers, and what it gives about `FlattenSeq` |

How the levels fit together. `NewTrackon` keeps of a row what threads decide on
together, `ips` and the keys of `recent_ips`. Which rows are outdated and which
old addresses expire depends on the clock, so both are free choices there;
`TrackerLife` has the clock and one row, `TrackerUrl` the URL of that row.
`NewTrackon!UpdaterSnapshotFresh`, proved for all instances, is what allows these
two to do without a second copy of the row while it waits in a round.
`Submission` opens up the step `Ingest!AttemptCandidate`, and `Announce` opens up
one attempt of `Submission`, the announce of `TrackerLife` and the probes and the
announce of `TrackerUrl`, which take an announce for one step with one of a few
outcomes: over UDP an answer with an interval, `RuntimeError`, `ValueError` (of the
port) or another exception (`struct.error`); over HTTP(S) an answer with an interval
or without, `RuntimeError` or `ValueError` (of requests). `OutcomeAsAssumed` is that
assumption, and `Announce` is shown to refine it. `Submission` has all of them,
`TrackerUrl` those its constant `Services` names; in `TrackerLife` an exception that
nobody handles is a `Restart`, since all it does is to lose what is in hand.

Correspondence of state: `queue` is `submitted_queue`; `enq[t]` is a thread in
`enqueue_new_trackers` with the URLs left (`batch`) and the addresses read from
the table (`seen`); `worker` is `submission_worker` with its `cand`;
`updater.todo` is the part of `trackers_outdated` not reached, and
`updater.host, row, remove` the tracker in hand. In `TrackerUrl`, `url` is
`Tracker.url` of the tracker in hand and `row.url` the one stored; in
`UdpAnnounce`, `sock` is the local variable of that name, `open` the sockets not
closed; in `Bdecode`, `frames` is Python's call stack. Variables for the
properties only: `visit` and `past` of `TrackerLife` (the visit under way, and a log
of those that were written), `found`, `tries` and `dropped` of `Submission`,
`answered`, `advertised` and `contacts` of `TrackerUrl`, `faulty` and `misled` of
`UdpAnnounce` (the attempts that met a fault, and those that read a reply to the
other). `PROJECT.json` maps each definition to its lines.

Modelling decisions worth knowing:

- A URL is a host, a port and a form: `ok`, `ip` (the host is an address), `bad`
  (`from_url` refuses it), `unparsable` (`urlparse` raises `ValueError`).
- A resolution is a choice among `Dns[host]`; an answer is usable if it is not
  empty and has no private address, the `is_global` test of `update_ips`.
- A kill loses everything but the table and the history files.
- In `TrackerLife` a visit to the tracker is a lookup, an announce and a write, with
  time and kills between any two of them. `last_checked` is stamped where the code
  stamps it, before the attempts; a kill before the write leaves the old one. A probe
  of a new scheme is part of the lookup, and the protocols a submission tries are one
  announce: a visit is what is kept apart from other visits, whatever it costs. What it
  costs is counted in `TrackerUrl`, which has no clock and makes every step of
  `update_status` an action of its own, between which the host may change.
- `Submission` keeps the interval of a response in its entry, where the page
  shows it as part of the printed response. An interval of 0 is as good as none
  (`if not tracker_candidate.interval`).
- A port that `.port` of `urlparse` does not parse is one above `MaxPort`.
  `requests` refuses a URL with such a port by an exception that becomes
  `RuntimeError`; the UDP client and `build_httpx_url` meet the `ValueError`.
- The updater of `NewTrackon` may at any step meet an exception its loop does not
  handle (anything but `RuntimeError` in `update_status`, or a failed statement or
  save), and then stays ended until the program is started again. `TrackerUrl` has two
  concrete cases: a port that does not parse, and a response that makes `announce_udp`
  or `announce_http` raise.
- `requests` reads a `Location` header also where it does not follow it; what it cannot
  decode or parse there is a `ValueError` that `announce_http` does not catch.
  `HttpAnnounce!GetFails` has this outcome, `Submission` drops the candidate for it.
- Transaction ids are drawn from 255 (`random.randrange(0, 255)`), so `UdpAnnounce` lets two requests draw the same one. The second attempt's socket
  may get the port of the first. Of a reply, what counts is the request it
  answers, its action (0, 1 or 3, the error) and its length (below 16, below 20, 20).
  A reply that is meant for nobody is one with another id.
- In `Bdecode` and `HttpAnnounce` the keys of a response are one byte long, `"!"`
  stands for a byte that is not UTF-8, and the blanks, plus signs and underscores
  that Python's `int()` accepts are left out, as is its limit on digits (4300).
- `Depth` is how many containers are nested in the responses `RoundTrip` speaks of.
  The decoder of the model nests without limit; Python's ends at its limit of
  recursion, far beyond what a tracker answers.
- Uptime is a double: the quotient of two integers times 100, rounded twice.
  `ApiList` computes from the remainder of the division whether the stored value
  falls below an integer that the exact one equals. `min_age_days` is compared
  with the time `added` of the row, as in the query.

## 3. The runs

Passing runs:

- **NewTrackonSafety**: two hosts sharing an address, two ports, two enqueue
  threads, a queue of 2, crashes and updater exceptions. Two threads are enough
  for both to check before either puts, two places for the same host to be
  queued twice and for the queue to be full with a put pending, and two hosts for
  every conflict of addresses, which are between pairs of rows.
  `TypeOK` (with the bound of the queue), `InsertNeverConflicts`,
  `UpdaterSnapshotFresh`, `ListedHostsDisjoint`, and refinement of `TrackerList`.
- **NewTrackonLiveness**: one enqueue thread with batches of two URLs whose first
  is refused or does not parse, and names that move, so that listed trackers do
  come to share addresses. The updater may end, and no restart is assumed.
  `OverlapsWarned`, `CandidateReached`.
- **TrackerLife**: two addresses, one of each family, a history of 2, a clock of
  7 units; intervals in range and too long, an address window of 3 and a downtime
  limit of 5, so that attempts slide out of the history, addresses expire exactly
  at the edge of the window, and a silent tracker is removed and submitted again.
  Every step of a visit may take any time, and a kill may fall between any two.
  `RowTellsLastAttempts`, `RecentIpsTellLookups`, `NeverTooEager`, `ApiTellsPast`. The
  run of `IntervalShortened` has one address and a clock of 9, which a reset of a long
  interval needs.
- **TrackerUrl**: a host that runs nothing; or UDP and HTTPS on one port; or HTTP on
  one, with HTTPS beside it and HTTP on the other that answer without an interval; or
  what makes the clients raise, `struct.error` over UDP and `ValueError` over HTTPS. It
  may change over at any step. No record, one that denies, and preferences for
  UDP, for TCP on either port and for a port there is not; one kill. Two ports are
  what a rewriting needs, one to leave and one to reach. `UrlWarranted`,
  `UpAtItsUrl`, `NoNeedlessContact`, `RecordFollowed`.
- **Submission**: two candidates, one URL with a port and one without; no BEP34
  record, one that denies, one that prefers UDP then TCP, one whose last port is
  too large, one with such a port between two good ones; intervals 0, too short, in range, too long; a history of 3, shorter
  than the entries of the two candidates together. Deadlock is not checked: the
  worker stops when both candidates are done, and the program when it cannot
  start. `AttemptsAsAdvertised`, `RefusedIntervalsShown`, `InsertionsShown`,
  `TriesShown`.
- **Announce**: over UDP two addresses and three different replies, so that a reply
  to the first attempt can meet both requests of the second; over HTTP twelve
  responses with every shape of value, and as bodies their encodings, those cut at
  every length, with any one byte changed or one appended, and all bodies of up to
  three bytes of the alphabet; a limit of 20 bytes, which some of the encodings
  exceed. Deadlock is not checked: an announce ends. `AnswerIsCurrent`,
  `RetryFailsForCause`, `SocketsClosed`, `RoundTrip`, `NoPartialAnswer`,
  `AnnounceEnds`, and refinement of `AnnounceOutcome` (`OutcomeAsAssumed`).

Runs that end in a violation, each a disagreement of code and documentation
(quoted in `PROJECT.json`, "findings"):

- **UrlsDropped**: a URL that does not parse takes the rest of its batch with it.
- **IntervalShortened**: the interval is reset on the uptime of the previous
  attempt, so a recovering tracker is contacted too early once.
- **AcceptedUnlisted**: an answer without interval is shown as accepted.
- **HistoryTorn**: a kill inside a save makes the next start fail.
- **RecordUnusable**: a TCP preference with a port that cannot be parsed gets into
  the row unprobed, and the next round on that row ends the updater.
- **ApiPercentage**: trackers of an uptime of exactly 29, 57 or 58 % are missing
  from the list of that percentage.

Known and harmless: a netloc can be in the queue twice, but is inserted once
(`InsertNeverConflicts`); with names that move, a tracker can be inserted on an
address a listed one has meanwhile moved to, and is then warned of
(`OverlapsWarned`).

Known, and not promised otherwise or stated in the properties as it is:

- A preference with a port no URL can have, or a `ValueError` of requests, drops a
  candidate with the preferences it had left, good ones included.
  `AttemptsAsAdvertised` names this (`dropped`) as the one way to be denied untried.
- One reply that comes later than the timeout fails both attempts of a UDP announce
  if the second socket gets the port of the first: each request reads one datagram.
  `RetryFailsForCause` names this beside a fault in each attempt.
- `struct.error` leaves the socket to the garbage collector and ends the updater, or
  drops the candidate unsaved. `SocketsClosed` leaves this path out; `RecordFollowed`
  has the end of the updater as its other way out.

Against "Does newTrackon respect the trackers update interval? Yes."
(`tpl/static/faq.jinja:37-38`) there is, besides IntervalShortened, what the models
have and no run is spent on:

- A kill after the announce and before the write leaves the old `last_checked`, and the
  tracker is announced to again at once. `NeverTooEager` counts intervals from
  visits that were written; a visit cut short may not come early itself, but the next
  may follow it at once.
- A switch from UDP to TCP announces to find the scheme and at once again
  (`tracker.py:204`). `NoNeedlessContact` allows this second contact and no other.

Bounds: `QueueMax`, `HistMax`, `HistoryMax`, `MaxPort` and `MaxSize` are limits of
the code made small. `MaxTime` (the clock), `MaxCrashes` (kills in `TrackerUrl`) and
`MaxReplies` (different replies of a UDP peer) are the bounds that are not in the
code. The set of batches, in `Submission` the set of candidates, and in `Announce`
the bodies are finite inputs; `Depth` is 3, the deepest of the twelve responses, and
any natural number in the proofs. `UptimeList` runs with the real `HistMax` of 1000.

Fairness:

- `NewTrackon!Fairness`: weak fairness of the worker. It is a thread of the process
  whose steps stay enabled until taken, and its blocking calls have timeouts: announces,
  DNS. The exception is `ip_api`, whose `urlopen` has none, and the fairness assumes
  that it returns. Nothing is assumed of the updater, of enqueue threads, of
  submissions and of crashes; the liveness run has none of the latter.
- `TrackerUrl!FairSpec`: weak fairness of the updater as long as it runs, its calls to the
  outside returning as above. A kill is one with the restart after it, but nobody has to
  restart a program because its updater has ended: `RecordFollowed` speaks of hosts that
  settle in the end, and says that the row follows or the updater stays ended. The host,
  submissions and kills are free.
- `Announce!Spec`: weak fairness of the client, whose every wait has a time limit.
  `getaddrinfo`, and the reading of a body that keeps trickling in within the
  timeout between two chunks, are taken to return. Nothing is assumed of the peer.

## 4. The proofs

Every theorem is proved for all values of the constants that the named assumptions
of the modules allow. The assumptions say what kind of thing a constant is, that
`None` and the like are none of the values they stand beside, and that limits are
not zero where the code relies on it (a queue, a history, `MinInterval`). Those
of `HttpAnnounce` and `Announce` say that bodies are sequences of bytes and
responses are values nested `Depth` deep at most, with distinct keys.

`NewTrackon_proofs`:

- `TypeCorrect`: inductive as it stands.
- `InsertSafe`: `InsertNeverConflicts` is inductive given the types, because
  only the worker inserts and it has one candidate in hand.
- `SnapshotFresh`: by `RoundInv`, which holds the three parts of the state that
  have to agree: rows in `todo` equal the stored ones, the host in hand is
  listed and no longer in `todo`, and the row in hand is a recheck of the stored
  one. It needs `InsertSafe`: an insertion leaves the rows the updater has read
  alone because its host is not listed.
- `HostsDisjoint`: by `StableInv`, under `DnsIsStable`. The difficulty is that
  rows, candidates and the updater's row in hand were resolved at different times.
  The invariant says that addresses never leave what the name resolves to
  (`SameAddresses` shows that a recheck under a stable DNS changes no address a
  row holds against newcomers), that candidates come from a resolution
  (`CandidateInv`), and that the verdict of the worker's comparison still stands
  when it inserts (`VerdictStands`).
- `Implements`: the identity mapping `list <- db`. `ListStep` takes every action to
  `Enter`, `Recheck`, `Leave` or a stutter, using the invariants above.
- `Warned`: by `Stamped`, every current address of a row is among its recent ones.
  The warnings skip the current addresses of rows that have recent ones; without
  `Stamped` they would be incomplete.

`TrackerLife_proofs`: `StepKinds` sorts the actions, once, into those that leave the
row and its past alone, end a row, begin a candidate, enter a row or recheck one, and
every later proof but that of types goes by these five. `PastInv` orders the log;
`HandInv` says at each step of a visit what the Tracker object in hand has become of
the row or the candidate, and that the visit was due.

- `TypeCorrect`; `RecentIps` by `RecentInv`, which states the window for the
  candidate as well as for the row.
- `NotTooEager` by `AskInv` and `EagerInv`. `AskInv` says that the
  interval of the row is the one last asked for or the default, whichever uptime it
  was reset on; `EagerInv` that of a visit that was written and any later one, written
  or under way, the later begins late enough, counted from the `last_checked` that was
  stamped before the announce. That a visit cut short is followed at once is not
  excluded, because the code does it.
- `TellsAttempts` by `RowInv`: `historic` is, place by place, what the log has for
  the last attempts. That the number of ones in it is the number of successes
  among the last `HistMax` attempts is a bijection between places and events
  (`SameCount`), carried over by the theorems on cardinality.
- `ApiTells` from the invariants before it and `OriginInv`, where the age and the
  addresses of the row come from. What is left is the double that stands for the
  uptime: `StableExactly` computes that at 95 % exactly it is not rounded below 95,
  which `UptimeDecides` makes a comparison of integers. At 29, 57 and 58 % it is
  rounded below (run ApiPercentage), so this needed an argument.

`TrackerUrl_proofs`: `WarrantInv` says of the URL in hand what `UrlWarranted` says
of the row it may be written to, `UpInv` that a verdict of up rests on an answer to
the URL in hand; `HandInv` gives what each step needs in hand.
`FewContacts` by `ContactInv`, the contacts that can have been made at each step, an
answer without an interval among them.

`Submission_proofs`:

- `TypeCorrect` with `HandInv`: from the attempt that succeeded to the verdict the
  newest entry of the history is the one of that attempt. Everything about the
  denial rests on it, because the code marks whatever is newest.
- `RefusedShown` by `RefusedInv`, the same of the file at every point of a save;
  `InsertedShown` by `InsertedInv`; `EveryTryShown` by `TriesInv`, which speaks of the
  page and not of the deque, since during the marking the two differ by the entry
  taken out.
- `ContactedAsAdvertised` by `AttemptsInv`: what was tried, followed by a rest, is what
  the record advertises. While attempts go on the rest is what the worker has left,
  and a TCP preference half tried has its plain HTTP there; at a denial without an
  answer the rest is empty, or the candidate was dropped and the rest begins with a
  way that raises.

`Announce_proofs`: `UdpInv` has five parts: types (with any number of transaction
ids), the socket that is open at each step (`SockInv`), the requests an attempt has
sent (`AskedInv`), what a returned reply matches (`ReplyInv`), and that an attempt
that is over had a fault unless nothing was asked or, in the second, a reply to the
first was read (`FaultInv`). `Closed`, which leaves the path of `struct.error` out,
`CurrentAnswer` and `RetryHasCause` follow. `ModeInv` says that one client runs
and that the decoder raises what `Caught` names, and `Outcomes` is the refinement of
`AnnounceOutcome`: what it shows is that no body makes the decoder raise past
`announce_http`. What requests raises is an assumption of `GetFails`.

`DataInduction` states induction for sets: the numbers at which a fact fails have a
least element if there are any (`WFMin` of the library), so a proof refutes that
least one. With it, `FlattenSeq` is taken apart at its first and its last element,
which the two proofs about concatenations need, those of `ContactedAsAdvertised` and of
the encoder.

`Encoding_proofs`, about the definitions of `Bdecode` and `Announce` alone, which are
recursive functions for this purpose: each satisfies its recursion; the digits of a
number are digits, at least one, and are read as that number; the first byte of an encoding tells the kind of its value, and the end of a
container is none of them.

`Decoder_proofs`: `HttpInv` has three parts.

- `BodyInv`: types, that `index` stays within the data, and that what is decoded is the
  body received. With `UdpInv` it gives `AnnounceTyped`. That no more than four ids
  are drawn follows from the requests that can have been asked at each step.
- `TrackInv`, of every response whose encoding begins with the data: the decoder is
  `OnTrack`, or `Doomed`. On track means that the stack is a walk into the response:
  to each frame belongs a container, the items of it that are read, which are the
  frame's, and what follows; the next frame is inside the next item; and the bytes
  from `index` on are the encodings of all that is left, innermost first. Doomed means
  that the data ended inside a number or a string, so the decoder raises. One lemma
  for each kind of step moves the walk (`IntStep`, `StrStep`, `ContainerStep`,
  `LoopItemStep`, `LoopEndStep`, joined in `ReadStep`), and `ReturnTrack` takes a value
  into the frame that waits for it. A walk replaces induction over the depth of a
  response: each step touches its innermost visit only.
- `AnswerInv`: an answer was decoded without exception, from the whole body.

`DecodesAsEncoded` follows because a decoder on track that is done has the response;
`CutIsNoAnswer` because being done on track leaves nothing ahead, so the data was the
whole encoding.

Only model-checked:

- liveness, which is out of the prover's reach: `CandidateReached`,
  `RecordFollowed`, `AnnounceEnds`;
- the violations, each of which is one behaviour.

## 5. What is not modelled, and the plan

Not modelled, and why:

- Country data from ip-api (`ip_api`, `update_ipapi_data`), `get_server_ip`,
  `redact_origin`, pages, logging, formatting of times and lists: nothing the
  program decides depends on them.
- The order of the lists of the API, by uptime, which `get_api_data` leaves to SQL.
- `raw_data`: the same code as `submitted_data`, with the updater as its writer.
  Its file is torn in the same way (`HistoryTorn`).
- The end of the daily-list thread on a network error. Its effect is that a
  `Submit` does not happen, and no property assumes that one does.
- `process_submitted_queue`, the loop of the worker without the wait, which only
  tests call.

Order followed: the shared table and its threads first, since a mistake there
damages the published list; then the life of a row; submissions and their history;
the URL of a row; the inside of an announce; the lists and the warnings made of the
table; last the proofs of each. What could follow:

1. A history read by a page while the worker of one deque and the updater of the
   other write both: `raw_data` beside `submitted_data`, with the order of the two
   saves.
2. `TrackerLife` and `TrackerUrl` over one row: an announce that probes, on the
   clock, with the probe a contact of its own.
3. The interval of an update, which is taken over unchecked: which bound the
   documentation should promise is a question for the project first.
