---------------------------- MODULE HttpAnnounce ----------------------------
(***************************************************************************)
(* scraper.announce_http: one GET, of which at most a limit is read, the    *)
(* decoding of the body, and what of it makes a valid answer.               *)
(***************************************************************************)
EXTENDS Bdecode

CONSTANTS
    Bodies,     \* what a peer may answer
    MaxSize     \* MAX_RESPONSE_SIZE

\* A body is a sequence of bytes.
ASSUME HttpAssumption == MaxSize \in Nat /\ Bodies \subseteq Seq(STRING)

VARIABLES
    hpc,        \* "off", "get", "decode", "done"
    body,       \* what the peer is to send, if the GET gets that far
    answer      \* the response that announce_http returns, or the exception

httpVars == <<decoderVars, hpc, body, answer>>

HttpAt(start, bodies) ==
    /\ content = <<>> /\ index = 0 /\ frames = <<>> /\ dpc = "off" /\ decoded = Nothing
    /\ hpc = start /\ body \in bodies /\ answer = Nothing

Smaller(m, n) == IF m < n THEN m ELSE n

Fail(exception) == answer' = Raised(exception) /\ hpc' = "done"

\* No connection, a timeout, a reply that is not HTTP, a URL requests cannot use, a
\* status other than 200, an empty body: a RuntimeError. But requests looks where a
\* Location header leads though no redirect is followed, and what it cannot decode
\* or parse is a ValueError, for which announce_http has no handler.
GetFails ==
    /\ hpc = "get"
    /\ Fail("RuntimeError") \/ Fail("ValueError")
    /\ UNCHANGED <<decoderVars, body>>

\* Mutant of GetBody: exactly as much is read as is allowed.
GetBodyCut ==
    /\ hpc = "get"
    /\ body # <<>>
    /\ content' = SubSeq(body, 1, Smaller(Len(body), MaxSize))
    /\ hpc' = "decode" /\ dpc' = "decode" /\ UNCHANGED answer
    /\ UNCHANGED <<index, frames, decoded, body>>

\* One byte more than allowed is read, so that too large a body shows.
GetBody ==
    /\ hpc = "get"
    /\ body # <<>>
    /\ LET read == SubSeq(body, 1, Smaller(Len(body), MaxSize + 1))
       IN IF Len(read) > MaxSize
          THEN Fail("RuntimeError") /\ UNCHANGED <<content, dpc>>
          ELSE /\ content' = read
               /\ hpc' = "decode" /\ dpc' = "decode" /\ UNCHANGED answer
    /\ UNCHANGED <<index, frames, decoded, body>>

Decode ==
    /\ hpc = "decode"
    /\ DecoderNext
    /\ UNCHANGED <<hpc, body, answer>>

\* Mutant of Caught: the end of the data is not expected.
CaughtButEof(e) == e \in {"OSError", "RuntimeError", "TypeError", "ValueError"}

Caught(e) == e \in {"EOFError", "OSError", "RuntimeError", "TypeError", "ValueError"}

\* A response is an answer if it has peers of either kind and no failure reason.
Judge ==
    /\ hpc = "decode" /\ dpc = "done"
    /\ IF IsKind("raised", Response)
       THEN Fail(IF Caught(Response[2]) THEN "RuntimeError" ELSE Response[2])
       ELSE LET pairs == Response[2] IN
            IF Has(pairs, <<"f">>) \/ ~(Has(pairs, <<"p">>) \/ Has(pairs, <<"q">>))
            THEN Fail("RuntimeError")
            ELSE answer' = Response /\ hpc' = "done"
    /\ UNCHANGED <<decoderVars, body>>

HttpNext == GetFails \/ GetBody \/ Decode \/ Judge
=============================================================================
