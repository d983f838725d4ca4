------------------------------ MODULE Announce ------------------------------
(***************************************************************************)
(* One announce, by either client of scraper.py: announce_udp for a URL     *)
(* whose scheme is UDP, else announce_http.                                 *)
(***************************************************************************)
EXTENDS UdpAnnounce, HttpAnnounce

CONSTANTS
    Responses,    \* what trackers mean to answer, before it is encoded
    Depth         \* how many containers are nested in a response, at most

vars == <<udpVars, httpVars>>

UdpChosen == upc # "off"

\* tracker.py:131-138, and the schemes that attempt_udp and attempt_httpx build.
Init ==
    \/ UdpAt("resolve") /\ HttpAt("off", {<<>>})
    \/ UdpAt("off") /\ HttpAt("get", Bodies)

Next ==
    \/ UdpNext /\ UNCHANGED httpVars
    \/ HttpNext /\ UNCHANGED udpVars

\* The client runs whatever the peer does: each of its waits has a time limit, but
\* for getaddrinfo and the reading of a body that keeps trickling in, which are
\* taken to return.
Spec ==
    /\ Init /\ [][Next]_vars
    /\ WF_vars(ClientNext /\ UNCHANGED httpVars)
    /\ WF_vars(HttpNext /\ UNCHANGED udpVars)

Over == UdpOver \/ hpc = "done"

-----------------------------------------------------------------------------

\* Types of both clients' variables: no attempt is made after the second, no address
\* is looked for past the last, and the decoder stays within the data.
TypeOK ==
    /\ UdpTypeOK
    /\ hpc \in {"off", "get", "decode", "done"} /\ dpc \in {"off", "decode", "loop", "done"}
    /\ index \in 0..Len(content)

DistinctIds == \A p, q \in asked : p.tid = q.tid => p = q

\* Unless chance draws an id twice, the answer announce_udp returns is the one to its
\* last announce, though replies to an earlier request may come late, twice, or, when
\* the second socket gets the port of the first, to the wrong socket.
AnswerIsCurrent ==
    upc = "returned" /\ DistinctIds =>
        reply.to.kind = "announce" /\ reply.to.attempt = attempt

\* An announce that could be sent fails only if the peer or the network was at fault
\* in the first attempt, and again in the second or the second read a reply to the
\* first: the retry starts afresh, with a request, an id and most often a port of its
\* own. It is not proof against leftovers: each request reads one datagram, so that a
\* single reply that is late can fail both attempts if the port is the same
\* (scraper.py:291-344).
RetryFailsForCause ==
    upc = "failed" => asked = {} \/ (1 \in faulty /\ 2 \in faulty \cup misled)

\* announce_udp has one socket open at most and has closed it when it returns or gives
\* up, whichever address, attempt or parser failed before. (An exception other than
\* RuntimeError and OSError leaves it to the garbage collector.)
SocketsClosed ==
    /\ Cardinality(open) <= 1
    /\ upc \in {"returned", "failed"} => open = {}

-----------------------------------------------------------------------------
(* What announce_http should make of a body: bencoding, as a reference. *)

DistinctKeys(pairs) == \A i, j \in DOMAIN pairs : pairs[i][1] = pairs[j][1] => i = j

\* The values with the given ones for parts.
ValuesOf(parts) ==
    ({"int"} \X Int) \cup ({"bytes"} \X Seq(STRING)) \cup ({"list"} \X Seq(parts))
    \cup ({"dict"} \X {pairs \in Seq(({"bytes"} \X Seq(STRING)) \X parts) : DistinctKeys(pairs)})

\* The values by depth. Python's limit of recursion bounds what a decoder reaches.
Values[d \in 0..Depth] == ValuesOf(IF d = 0 THEN {} ELSE Values[d - 1])

ASSUME ResponseAssumption == Depth \in Nat /\ Responses \subseteq Values[Depth]

DigitsOf(n) ==
    LET digits[k \in 0..n] ==
          IF k < 10 THEN <<Digits[k + 1]>> ELSE Append(digits[k \div 10], Digits[(k % 10) + 1])
    IN digits[n]

EncodeInt(n) ==
    <<"i">> \o (IF n < 0 THEN <<"-">> \o DigitsOf(-n) ELSE DigitsOf(n)) \o <<"e">>

EncodeBytes(s) == DigitsOf(Len(s)) \o <<":">> \o s

\* The encoding of a value whose parts inner encodes.
EncodeWith(inner, v) ==
    CASE IsKind("int", v)   -> EncodeInt(v[2])
      [] IsKind("bytes", v) -> EncodeBytes(v[2])
      [] IsKind("list", v)  ->
           <<"l">> \o FlattenSeq([i \in DOMAIN v[2] |-> inner[v[2][i]]]) \o <<"e">>
      [] IsKind("dict", v)  ->
           <<"d">> \o FlattenSeq([i \in DOMAIN v[2] |->
                                    EncodeBytes(v[2][i][1][2]) \o inner[v[2][i][2]]]) \o <<"e">>

Encoder[d \in 0..Depth] ==
    [v \in Values[d] |-> EncodeWith(IF d = 0 THEN <<>> ELSE Encoder[d - 1], v)]

Encode(v) == Encoder[Depth][v]

HasDecoded == hpc = "done" /\ dpc = "done"

\* A body that is the encoding of a response decodes to that response, whatever it is
\* made of: nested containers, empty ones, negative numbers, bytes that look like
\* structure.
RoundTrip == HasDecoded => \A r \in Responses : body = Encode(r) => decoded = r

IsAnswer == IsKind("response", answer)

\* A body that was cut, by the peer, by the network or by MAX_RESPONSE_SIZE, is no
\* answer, even if what arrived holds peers and an interval already.
NoPartialAnswer ==
    IsAnswer => /\ content = body
                /\ \A r \in Responses : body # Encode(r) => ~IsPrefix(body, Encode(r))

-----------------------------------------------------------------------------

\* tracker.py:136-138: the interval of an answer, if it is an int.
HasInterval ==
    Has(answer[2], <<"t">>) /\ IsKind("int", Get(answer[2], <<"t">>))

\* What the caller sees of the announce.
Outcome ==
    IF ~Over THEN "pending"
    ELSE CASE upc = "returned"       -> "answer with interval"
           [] upc = "raised"         -> IF asked = {} THEN "ValueError" ELSE "other exception"
           [] upc = "failed"         -> "RuntimeError"
           [] ~UdpChosen /\ IsAnswer -> IF HasInterval THEN "answer with interval" ELSE "answer"
           [] ~UdpChosen /\ answer = Raised("RuntimeError") -> "RuntimeError"
           [] ~UdpChosen /\ answer = Raised("ValueError") /\ dpc = "off" -> "ValueError"
           [] OTHER                  -> "other exception"

Abstract == INSTANCE AnnounceOutcome WITH udp <- UdpChosen, outcome <- Outcome

\* An announce comes to one of the outcomes listed, once: whatever bytes the body
\* holds, the decoder gives a response or what announce_http turns into RuntimeError;
\* nothing but requests, a port or struct.pack raises what the callers do not catch
\* (scraper.py:248-268, 287-344).
OutcomeAsAssumed == Abstract!OutcomeSpec

\* An announce ends, whatever the peer sends and however often: neither the attempts
\* nor the decoder go on for ever.
AnnounceEnds == <>Over
=============================================================================
