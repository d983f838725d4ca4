-------------------------- MODULE Announce_proofs --------------------------
(***************************************************************************)
(* What one announce guarantees for any number of addresses, replies and    *)
(* bodies: the sockets of announce_udp, the answer it takes, what makes it  *)
(* fail, and the outcomes its caller sees.                                  *)
(***************************************************************************)
EXTENDS Announce, FiniteSetTheorems, TLAPS

(* The parts of the inductive invariant. *)

\* A request with any transaction id.
AnyRequest == [kind : {"connect", "announce"}, tid : Int, attempt : Attempts]

Typed ==
    /\ upc \in {"off", "resolve", "open", "connect", "announce",
                "returned", "failed", "raised"}
    /\ attempt \in Attempts
    /\ request \in AnyRequest \cup {NoRequest}
    /\ asked \subseteq AnyRequest
    /\ replies \subseteq Replies(asked) /\ network \subseteq replies
    /\ faulty \subseteq Attempts /\ misled \subseteq Attempts

\* While an exchange is on, its socket is the only one that is open.
SockInv ==
    /\ upc \in {"connect", "announce"} => open = {sock}
    /\ upc = "raised" => open \subseteq {sock}
    /\ upc \notin {"connect", "announce", "raised"} => open = {}

\* Of each kind, an attempt sends one request, in order; the last one is the one
\* whose answer is read.
AskedInv ==
    /\ \A q \in asked : q.attempt <= attempt
    /\ \A p, q \in asked : p.attempt = q.attempt /\ p.kind = q.kind => p = q
    /\ upc \in {"connect", "announce", "returned"} =>
          /\ request \in asked /\ request.attempt = attempt
          /\ request.kind = IF upc = "connect" THEN "connect" ELSE "announce"
    /\ upc = "connect" => \A q \in asked : q.attempt = attempt => q = request
    /\ upc \in {"off", "resolve", "open"} => \A q \in asked : q.attempt # attempt
    /\ upc \in {"off", "resolve"} => attempt = 1 /\ asked = {}

\* The answer that was returned is a reply to some request with the id of the last.
ReplyInv ==
    upc = "returned" => reply.to \in asked /\ reply.to.tid = request.tid

\* While nothing is amiss in an attempt, each of its requests has had one reply, and
\* a proper one, and that for the connection id is not under way any more once the
\* announce is. The first attempt meets no reply but its own.
FaultInv ==
    /\ attempt = 2 => 1 \in faulty
    /\ 1 \notin misled
    /\ \A m \in replies : Proper(m) \/ m.to.attempt \in faulty
    /\ \A m, n \in replies : m.to = n.to /\ m # n => m.to.attempt \in faulty
    /\ upc = "announce" /\ attempt \notin faulty \cup misled =>
          /\ \E r \in replies : r.to.kind = "connect" /\ r.to.attempt = attempt
          /\ \A m \in network : m.to.attempt = attempt => m.to.kind = "announce"
    /\ RetryFailsForCause

UdpInv == Typed /\ SockInv /\ AskedInv /\ ReplyInv /\ FaultInv

-----------------------------------------------------------------------------

LEMMA UdpStart == Init => UdpInv
  BY DEF Init, UdpAt, UdpInv, Typed, SockInv, AskedInv, ReplyInv, FaultInv, Replies,
         Attempts, NoRequest, RetryFailsForCause

\* What is sent when a request is.
LEMMA Sent ==
    ASSUME NEW kind \in {"connect", "announce"}, Typed, Send(kind)
    PROVE  /\ request' \in AnyRequest /\ asked' = asked \cup {request'}
           /\ request'.kind = kind /\ request'.attempt = attempt
  BY DEF Typed, Send, AnyRequest

LEMMA ResolveStep == UdpInv /\ Resolve => UdpInv'
  <1> SUFFICES ASSUME UdpInv, Resolve
               PROVE  UdpInv'
    OBVIOUS
  <1> USE DEF UdpInv, Resolve, wire
  <1>1. Typed'
    BY DEF Typed, Attempts
  <1>2. SockInv' /\ AskedInv' /\ ReplyInv'
    BY DEF SockInv, AskedInv, ReplyInv
  <1>3. replies = {}
    BY DEF Typed, AskedInv, Replies
  <1>4. FaultInv'
    BY <1>3 DEF AskedInv, FaultInv, RetryFailsForCause
  <1> QED
    BY <1>1, <1>2, <1>3, <1>4

LEMMA OpenStep == UdpInv /\ (SkipAddress \/ NoAddress) => UdpInv'
  <1> SUFFICES ASSUME UdpInv, SkipAddress \/ NoAddress
               PROVE  UdpInv'
    OBVIOUS
  <1> USE DEF UdpInv, SkipAddress, NoAddress, wire
  <1>1. Typed'
    BY DEF Typed
  <1>2. SockInv' /\ AskedInv' /\ ReplyInv'
    BY DEF Typed, SockInv, AskedInv, ReplyInv
  <1>3. FaultInv'
    <2>1. UNCHANGED <<attempt, asked, replies, network, misled>> /\ faulty \subseteq faulty'
      OBVIOUS
    <2>2. upc' \in {"open", "failed"}
      OBVIOUS
    <2>3. attempt = 1 => asked = {}
      BY DEF Typed, AskedInv, Attempts, AnyRequest
    <2>4. upc' = "failed" => asked = {} \/ (1 \in faulty' /\ 2 \in faulty')
      BY <2>3 DEF Typed, FaultInv, Attempts
    <2>5. RetryFailsForCause'
      BY <2>1, <2>4 DEF RetryFailsForCause
    <2> QED
      BY <2>1, <2>2, <2>5 DEF FaultInv, Proper
  <1> QED
    BY <1>1, <1>2, <1>3

LEMMA ConnectStep == UdpInv /\ Connect => UdpInv'
  <1> SUFFICES ASSUME UdpInv, Connect
               PROVE  UdpInv'
    OBVIOUS
  <1> USE DEF UdpInv
  <1>1. /\ request' \in AnyRequest /\ asked' = asked \cup {request'}
        /\ request'.kind = "connect" /\ request'.attempt = attempt
    BY Sent DEF Connect
  <1>2. upc = "open" /\ upc' = "connect" /\ UNCHANGED <<attempt, replies, network, faulty, misled>>
    BY DEF Connect
  <1>3. Typed'
    BY <1>1, <1>2 DEF Typed, Replies
  <1>4. SockInv'
    BY DEF Connect, SockInv
  <1>5. AskedInv' /\ ReplyInv'
    BY <1>1, <1>2 DEF Typed, AskedInv, ReplyInv, Attempts
  <1>6. FaultInv'
    BY <1>2 DEF FaultInv, Proper, RetryFailsForCause
  <1> QED
    BY <1>3, <1>4, <1>5, <1>6

\* An attempt that something outside has spoiled may end, and what follows is sound.
LEMMA NextAttemptStep ==
    ASSUME UdpInv, upc \in {"connect", "announce"}, NextAttempt,
           UNCHANGED <<request, asked, replies>>,
           network' \subseteq network,
           faulty \subseteq faulty', faulty' \subseteq Attempts,
           misled \subseteq misled', misled' \subseteq Attempts, 1 \notin misled',
           attempt \in faulty' \cup misled'
    PROVE  UdpInv'
  <1> USE DEF UdpInv
  <1>1. Typed'
    BY DEF Typed, NextAttempt, Attempts
  <1>2. SockInv' /\ ReplyInv'
    BY DEF SockInv, ReplyInv, NextAttempt
  <1>3. AskedInv'
    BY DEF Typed, AskedInv, NextAttempt, Attempts, AnyRequest
  <1>4. FaultInv'
    BY DEF Typed, FaultInv, Proper, NextAttempt, Attempts, RetryFailsForCause
  <1> QED
    BY <1>1, <1>2, <1>3, <1>4

\* Of a datagram that arrives.
LEMMA Arrived ==
    ASSUME UdpInv, NEW m \in Arriving, Receive(m)
    PROVE  /\ m \in replies /\ m.to \in asked /\ network' \subseteq network
           /\ faulty' = faulty /\ misled \subseteq misled' /\ misled' \subseteq Attempts
           /\ 1 \notin misled'
           /\ m.to.attempt # attempt => attempt \in misled'
  <1>1. /\ m \in replies /\ m.to \in asked /\ network' \subseteq network
        /\ faulty' = faulty /\ misled \subseteq misled' /\ misled' \subseteq Attempts
        /\ m.to.attempt # attempt => attempt \in misled'
    BY DEF UdpInv, Typed, Arriving, Receive, Replies, Attempts
  <1>2. m.to.attempt \in Attempts /\ m.to.attempt <= attempt
    BY <1>1 DEF UdpInv, Typed, AskedInv, AnyRequest
  <1>3. 1 \notin misled'
    BY <1>2 DEF UdpInv, Typed, FaultInv, Receive, Attempts
  <1> QED
    BY <1>1, <1>3

LEMMA ReceiveConnectStep ==
    ASSUME UdpInv, NEW m \in Arriving, ReceiveConnect(m)
    PROVE  UdpInv'
  <1> USE DEF UdpInv
  <1>1. /\ m \in replies /\ m.to \in asked /\ network' \subseteq network
        /\ faulty' = faulty /\ misled \subseteq misled' /\ misled' \subseteq Attempts
        /\ 1 \notin misled'
        /\ m.to.attempt # attempt => attempt \in misled'
    BY Arrived DEF ReceiveConnect
  <1>2. upc = "connect" /\ m.to.attempt = attempt => m.to = request
    BY <1>1 DEF AskedInv
  <1>3. CASE m.length < 16 \/ m.to.tid # request.tid \/ m.action = 3
    <2>0. faulty \subseteq Attempts
      BY DEF Typed
    <2>1. attempt \in faulty' \cup misled'
      BY <1>1, <1>2, <1>3 DEF ReceiveConnect, AskedInv, FaultInv, Proper, Typed, Replies
    <2> QED
      BY <1>1, <1>3, <2>0, <2>1, NextAttemptStep DEF ReceiveConnect
  <1>4. CASE ~(m.length < 16 \/ m.to.tid # request.tid \/ m.action = 3) /\ m.action = 0
    <2>1. /\ upc = "connect" /\ upc' = "announce"
          /\ UNCHANGED <<attempt, next, sock, open, replies>>
          /\ network' = network \ {m}
      BY <1>4 DEF ReceiveConnect, Receive
    <2>2. /\ request' \in AnyRequest /\ asked' = asked \cup {request'}
          /\ request'.kind = "announce" /\ request'.attempt = attempt
      BY <1>4, Sent DEF ReceiveConnect
    <2>3. Typed'
      BY <1>1, <2>1, <2>2 DEF Typed, Replies
    <2>4. SockInv' /\ ReplyInv'
      BY <2>1 DEF SockInv, ReplyInv
    <2>5. AskedInv'
      BY <2>1, <2>2 DEF Typed, AskedInv, Attempts
    <2>6. ASSUME attempt \notin faulty' \cup misled'
          PROVE  /\ m.to.kind = "connect" /\ m.to.attempt = attempt
                 /\ \A n \in network' : n.to.attempt = attempt => n.to.kind = "announce"
      <3>1. m.to = request /\ m.to.attempt = attempt
        BY <1>1, <1>2, <2>1, <2>6
      <3>2. ASSUME NEW n \in network', n.to.attempt = attempt
            PROVE  FALSE
        <4>1. n \in replies /\ n # m /\ n.to \in asked
          BY <2>1 DEF Typed, Replies
        <4>2. n.to = m.to
          BY <2>1, <3>1, <3>2, <4>1 DEF AskedInv
        <4> QED
          BY <1>1, <2>6, <3>1, <4>1, <4>2 DEF FaultInv
      <3> QED
        BY <2>1, <3>1, <3>2 DEF AskedInv
    <2>7. FaultInv'
      BY <1>1, <2>1, <2>6 DEF FaultInv, Proper, RetryFailsForCause
    <2> QED
      BY <2>3, <2>4, <2>5, <2>7
  <1>5. CASE ~(m.length < 16 \/ m.to.tid # request.tid \/ m.action = 3) /\ m.action # 0
    <2>1. /\ upc = "connect" /\ upc' = "raised"
          /\ UNCHANGED <<attempt, next, sock, open, replies, request, asked>>
      BY <1>5 DEF ReceiveConnect
    <2>2. Typed'
      BY <1>1, <2>1 DEF Typed
    <2>3. SockInv' /\ ReplyInv' /\ AskedInv'
      BY <2>1 DEF SockInv, ReplyInv, AskedInv
    <2>4. FaultInv'
      BY <1>1, <2>1 DEF FaultInv, Proper, RetryFailsForCause
    <2> QED
      BY <2>2, <2>3, <2>4
  <1> QED
    BY <1>3, <1>4, <1>5

LEMMA ReceiveAnnounceStep ==
    ASSUME UdpInv, NEW m \in Arriving, ReceiveAnnounce(m)
    PROVE  UdpInv'
  <1> USE DEF UdpInv
  <1>1. /\ m \in replies /\ m.to \in asked /\ network' \subseteq network
        /\ faulty' = faulty /\ misled \subseteq misled' /\ misled' \subseteq Attempts
        /\ 1 \notin misled'
        /\ m.to.attempt # attempt => attempt \in misled'
    BY Arrived DEF ReceiveAnnounce
  <1>2. m \in network /\ upc = "announce"
    BY DEF ReceiveAnnounce, Arriving
  <1>3. CASE m.length < 20 \/ m.to.tid # request.tid \/ m.action # 1
    <2>0. faulty \subseteq Attempts
      BY DEF Typed
    <2>1. ASSUME attempt \notin faulty' \cup misled'
          PROVE  FALSE
      <3>1. attempt \notin faulty \cup misled /\ m.to.attempt = attempt
        BY <1>1, <2>1
      <3>2. m.to.kind = "announce"
        BY <1>2, <3>1 DEF FaultInv
      <3>3. m.to = request
        BY <1>1, <1>2, <3>1, <3>2 DEF AskedInv
      <3>4. ~Proper(m)
        BY <1>3, <3>2, <3>3 DEF Proper
      <3> QED
        BY <1>1, <3>1, <3>4 DEF FaultInv
    <2> QED
      BY <1>1, <1>2, <1>3, <2>0, <2>1, NextAttemptStep DEF ReceiveAnnounce
  <1>4. CASE ~(m.length < 20 \/ m.to.tid # request.tid \/ m.action # 1)
    <2>1. /\ upc' = "returned" /\ reply' = m /\ open' = open \ {sock}
          /\ UNCHANGED <<attempt, next, sock, replies, request, asked>>
      BY <1>4 DEF ReceiveAnnounce
    <2>2. Typed' /\ SockInv'
      BY <1>1, <1>2, <2>1 DEF Typed, SockInv
    <2>3. AskedInv' /\ ReplyInv'
      BY <1>1, <1>2, <1>4, <2>1 DEF AskedInv, ReplyInv
    <2>4. FaultInv'
      BY <1>1, <2>1 DEF FaultInv, Proper, RetryFailsForCause
    <2> QED
      BY <2>2, <2>3, <2>4
  <1> QED
    BY <1>3, <1>4

LEMMA PeerStep == UdpInv /\ PeerReplies => UdpInv'
  <1> SUFFICES ASSUME UdpInv, PeerReplies
               PROVE  UdpInv'
    OBVIOUS
  <1> USE DEF UdpInv
  <1>1. PICK m \in Replies(asked) :
             /\ replies' = replies \cup {m} /\ network' = network \cup {m}
             /\ faulty' = IF Proper(m) /\ \A r \in replies : r.to # m.to
                          THEN faulty ELSE faulty \cup {m.to.attempt}
    BY DEF PeerReplies
  <1>2. UNCHANGED <<upc, attempt, sock, open, request, asked, reply, misled>> /\ ~UdpOver
    BY DEF PeerReplies
  <1>3. m.to \in asked /\ m.to.attempt \in Attempts /\ m.to.kind \in {"connect", "announce"}
    BY DEF Replies, Typed, AnyRequest
  <1>4. Typed'
    BY <1>1, <1>2, <1>3 DEF Typed
  <1>5. SockInv' /\ AskedInv' /\ ReplyInv'
    BY <1>2 DEF SockInv, AskedInv, ReplyInv
  <1>6. /\ (attempt = 2 => 1 \in faulty)'
        /\ RetryFailsForCause'
    BY <1>1, <1>2 DEF FaultInv, UdpOver, RetryFailsForCause
  <1>7. /\ \A n \in replies' : Proper(n) \/ n.to.attempt \in faulty'
        /\ \A n, k \in replies' : n.to = k.to /\ n # k => n.to.attempt \in faulty'
    BY <1>1 DEF FaultInv
  <1>8. ASSUME upc = "announce", attempt \notin faulty' \cup misled
        PROVE  /\ \E r \in replies' : r.to.kind = "connect" /\ r.to.attempt = attempt
               /\ \A n \in network' : n.to.attempt = attempt => n.to.kind = "announce"
    <2>1. PICK r \in replies : r.to.kind = "connect" /\ r.to.attempt = attempt
      BY <1>1, <1>8 DEF FaultInv
    <2>2. m.to.attempt = attempt => m.to.kind = "announce"
      <3>1. r.to \in asked
        BY DEF Typed, Replies
      <3>2. m.to.attempt = attempt /\ m.to.kind = "connect" => m.to = r.to
        BY <1>3, <2>1, <3>1 DEF AskedInv
      <3> QED
        BY <1>1, <1>3, <1>8, <3>2
    <2> QED
      BY <1>1, <1>8, <2>1, <2>2 DEF FaultInv
  <1>9. FaultInv'
    BY <1>2, <1>6, <1>7, <1>8 DEF FaultInv, Proper
  <1> QED
    BY <1>4, <1>5, <1>9

LEMMA UdpStep == UdpInv /\ [Next]_vars => UdpInv'
  <1> SUFFICES ASSUME UdpInv, [Next]_vars
               PROVE  UdpInv'
    OBVIOUS
  <1>1. CASE TimesOut
    <2>1. /\ attempt \in Attempts /\ faulty \subseteq Attempts /\ network \subseteq replies
          /\ misled \subseteq Attempts /\ 1 \notin misled
      BY DEF UdpInv, Typed, FaultInv
    <2> QED
      BY <1>1, <2>1, NextAttemptStep DEF TimesOut, wire
  <1>2. CASE UNCHANGED udpVars
    BY <1>2 DEF udpVars, wire, UdpInv, Typed, SockInv, AskedInv, ReplyInv, FaultInv, Proper,
                RetryFailsForCause
  <1> QED
    BY <1>1, <1>2, ResolveStep, OpenStep, ConnectStep, ReceiveConnectStep,
       ReceiveAnnounceStep, PeerStep
    DEF Next, UdpNext, ClientNext, vars

LEMMA UdpAlways == Spec => []UdpInv
  BY UdpStart, UdpStep, PTL DEF Spec

-----------------------------------------------------------------------------

\* announce_udp never holds two sockets, whatever number of addresses it goes through
\* in its two attempts, and none once it has returned or given up with a RuntimeError.
\* The exception of struct.pack is excluded: it may leave a socket open.
THEOREM Closed == Spec => []SocketsClosed
  <1>1. UdpInv => SocketsClosed
    <2> SUFFICES ASSUME UdpInv
                 PROVE  SocketsClosed
      OBVIOUS
    <2>1. open = {} \/ open = {sock}
      BY DEF UdpInv, Typed, SockInv
    <2>2. Cardinality(open) <= 1
      <3>1. CASE open = {}
        BY <3>1, FS_EmptySet
      <3>2. CASE open = {sock}
        <4>1. Cardinality({sock}) = 1
          BY FS_Singleton
        <4> QED
          BY <3>2, <4>1
      <3> QED
        BY <2>1, <3>1, <3>2
    <2> QED
      BY <2>2 DEF UdpInv, SockInv, SocketsClosed
  <1> QED
    BY <1>1, UdpAlways, PTL

\* As long as the ids differ, no late, repeated or misdirected datagram is taken for
\* the answer to the announce.
THEOREM CurrentAnswer == Spec => []AnswerIsCurrent
  <1>1. UdpInv => AnswerIsCurrent
    BY DEF UdpInv, AskedInv, ReplyInv, AnswerIsCurrent, DistinctIds
  <1> QED
    BY <1>1, UdpAlways, PTL

\* An announce that fails met a fault in the first attempt, and in the second another
\* or a leftover of the first; whatever number of replies and addresses there are.
THEOREM RetryHasCause == Spec => []RetryFailsForCause
  <1>1. UdpInv => RetryFailsForCause
    BY DEF UdpInv, FaultInv
  <1> QED
    BY <1>1, UdpAlways, PTL

-----------------------------------------------------------------------------
(* Refinement. *)

\* One client runs, and what the decoder raises is an exception announce_http expects.
ModeInv ==
    /\ hpc \in {"off", "get", "decode", "done"}
    /\ UdpChosen <=> hpc = "off"
    /\ hpc = "get" => dpc = "off"
    /\ IsKind("raised", decoded) => Caught(decoded[2])

LEMMA RaiseCaught ==
    ASSUME NEW e, Caught(e), Raise(e)
    PROVE  IsKind("raised", decoded') => Caught(decoded'[2])
  BY DEF Raise, Raised, IsKind

LEMMA ReturnCaught ==
    ASSUME NEW v, NEW i, NEW stack, ~IsKind("raised", v), Return(v, i, stack),
           IsKind("raised", decoded) => Caught(decoded[2])
    PROVE  IsKind("raised", decoded') => Caught(decoded'[2])
  <1>1. \/ decoded' = v
        \/ decoded' = decoded
        \/ decoded' = Raised("TypeError")
    BY DEF Return
  <1> QED
    BY <1>1 DEF Raised, IsKind, Caught

LEMMA DecoderStep ==
    ASSUME DecoderNext, IsKind("raised", decoded) => Caught(decoded[2])
    PROVE  IsKind("raised", decoded') => Caught(decoded'[2])
  <1>1. CASE DecodeEof \/ DecodeInvalid
    BY <1>1, RaiseCaught DEF DecodeEof, DecodeInvalid, Caught
  <1>2. CASE DecodeEnd
    BY <1>2, ReturnCaught DEF DecodeEnd, Nothing, IsKind
  <1>3. CASE DecodeContainer \/ LoopItem
    BY <1>3 DEF DecodeContainer, LoopItem
  <1>4. CASE DecodeInt
    <2>1. \/ Raise("RuntimeError") \/ Raise("ValueError")
          \/ \E n, i : Return(Number(n), i, frames)
      BY <1>4 DEF DecodeInt
    <2>2. \A n : ~IsKind("raised", Number(n))
      BY DEF Number, IsKind
    <2> QED
      BY <2>1, <2>2, RaiseCaught, ReturnCaught DEF Caught
  <1>5. CASE DecodeStr
    <2>1. \/ Raise("RuntimeError") \/ Raise("ValueError")
          \/ \E s, i : Return(Bytes(s), i, frames)
      BY <1>5 DEF DecodeStr
    <2>2. \A s : ~IsKind("raised", Bytes(s))
      BY DEF Bytes, IsKind
    <2> QED
      BY <2>1, <2>2, RaiseCaught, ReturnCaught DEF Caught
  <1>6. CASE LoopEnd
    <2>1. ~IsKind("raised", Collected(Last(frames)))
      BY DEF Collected, List, Dict, IsKind
    <2> QED
      BY <1>6, <2>1, ReturnCaught DEF LoopEnd
  <1> QED
    BY <1>1, <1>2, <1>3, <1>4, <1>5, <1>6 DEF DecoderNext

\* The response is one, or an exception that announce_http expects.
LEMMA ResponseCases ==
    ASSUME IsKind("raised", decoded) => Caught(decoded[2])
    PROVE  IF IsKind("raised", Response) THEN Caught(Response[2])
           ELSE IsKind("response", Response)
  <1>1. \/ IsKind("raised", decoded) /\ Response = decoded
        \/ \E e \in {"TypeError", "ValueError", "RuntimeError"} : Response = Raised(e)
        \/ \E pairs : Response = <<"response", pairs>>
    BY Zenon DEF Response
  <1> QED
    BY <1>1 DEF Raised, IsKind, Caught

LEMMA ModeStep == ModeInv /\ [Next]_vars => ModeInv'
  <1> SUFFICES ASSUME ModeInv, [Next]_vars
               PROVE  ModeInv'
    OBVIOUS
  <1> USE DEF ModeInv
  <1>1. CASE UdpNext /\ UNCHANGED httpVars
    <2>1. UNCHANGED <<hpc, dpc, decoded>>
      BY <1>1 DEF httpVars, decoderVars
    <2>2. UdpChosen' = UdpChosen
      BY <1>1 DEF UdpNext, ClientNext, Resolve, SkipAddress, NoAddress, Connect, TimesOut,
                  ReceiveConnect, ReceiveAnnounce, NextAttempt, PeerReplies, UdpChosen
    <2> QED
      BY <2>1, <2>2 DEF IsKind
  <1>2. CASE HttpNext /\ UNCHANGED udpVars
    <2>1. UdpChosen' = UdpChosen
      BY <1>2 DEF udpVars, UdpChosen
    <2>2. CASE Decode
      <3>1. IsKind("raised", decoded') => Caught(decoded'[2])
        BY <2>2, DecoderStep DEF Decode
      <3> QED
        BY <2>1, <2>2, <3>1 DEF Decode, IsKind
    <2>3. CASE GetFails \/ GetBody \/ Judge
      <3>1. decoded' = decoded /\ hpc # "off" /\ hpc' \in {"decode", "done"}
        BY <2>3 DEF GetFails, GetBody, Judge, Fail, decoderVars
      <3> QED
        BY <2>1, <3>1 DEF IsKind
    <2> QED
      BY <1>2, <2>2, <2>3 DEF HttpNext
  <1>3. CASE UNCHANGED vars
    BY <1>3 DEF vars, udpVars, httpVars, decoderVars, UdpChosen, IsKind
  <1> QED
    BY <1>1, <1>2, <1>3 DEF Next

LEMMA ModeAlways == Spec => []ModeInv
  <1>1. Init => ModeInv
    BY DEF Init, UdpAt, HttpAt, ModeInv, UdpChosen, IsKind, Nothing
  <1> QED
    BY <1>1, ModeStep, PTL DEF Spec

LEMMA OutcomeStep ==
    Typed /\ ModeInv /\ [Next]_vars => [Abstract!OutcomeNext]_<<UdpChosen, Outcome>>
  <1> SUFFICES ASSUME Typed, ModeInv, [Next]_vars
               PROVE  \/ Abstract!OutcomeNext
                      \/ UNCHANGED <<UdpChosen, Outcome>>
    OBVIOUS
  <1>1. CASE UdpNext /\ UNCHANGED httpVars
    <2>1. UNCHANGED <<hpc, dpc, answer>>
      BY <1>1 DEF httpVars, decoderVars
    <2>2. \/ UNCHANGED <<upc, asked>>
          \/ UdpChosen /\ ~UdpOver /\ UdpChosen'
      BY <1>1 DEF UdpNext, ClientNext, Resolve, SkipAddress, NoAddress, Connect, TimesOut,
                  ReceiveConnect, ReceiveAnnounce, NextAttempt, PeerReplies, UdpChosen,
                  UdpOver, wire
    <2>3. CASE UNCHANGED <<upc, asked>>
      BY <2>1, <2>3 DEF UdpChosen, Outcome, Over, UdpOver, IsAnswer, HasInterval
    <2>4. CASE UdpChosen /\ ~UdpOver /\ UdpChosen'
      <3>1. Outcome = "pending"
        BY <2>4 DEF ModeInv, Outcome, Over
      <3>2. Outcome' \in {"pending", "answer with interval", "RuntimeError",
                          "ValueError", "other exception"}
        BY <2>4 DEF Outcome
      <3> QED
        BY <2>4, <3>1, <3>2 DEF Abstract!OutcomeNext, Abstract!Expected
    <2> QED
      BY <2>2, <2>3, <2>4
  <1>2. CASE HttpNext /\ UNCHANGED udpVars
    <2>1. UNCHANGED <<upc, asked>>
      BY <1>2 DEF udpVars, wire
    <2>2. hpc \in {"get", "decode"}
      BY <1>2 DEF HttpNext, GetFails, GetBody, Decode, Judge
    <2>3. upc = "off" /\ UdpChosen = FALSE /\ UdpChosen' = FALSE
      BY <2>1, <2>2 DEF ModeInv, UdpChosen
    <2>4. Outcome = "pending"
      BY <2>2, <2>3 DEF Outcome, Over, UdpOver
    <2>5. \/ hpc' # "done" \/ answer' = Raised("RuntimeError") \/ IsKind("response", answer')
          \/ answer' = Raised("ValueError") /\ dpc' = "off"
      <3>1. CASE Judge
        BY <3>1, ResponseCases DEF Judge, ModeInv, Fail
      <3>2. CASE GetFails
        BY <3>2 DEF GetFails, ModeInv, Fail, decoderVars
      <3> QED
        BY <1>2, <3>1, <3>2 DEF HttpNext, GetBody, Decode, Fail
    <2>6. Outcome' \in {"pending", "answer with interval", "answer", "RuntimeError", "ValueError"}
      BY <2>1, <2>3, <2>5 DEF Outcome, Over, UdpOver, IsAnswer
    <2> QED
      BY <2>3, <2>4, <2>6 DEF Abstract!OutcomeNext, Abstract!Expected
  <1>3. CASE UNCHANGED vars
    BY <1>3 DEF vars, udpVars, wire, httpVars, decoderVars, UdpChosen, Outcome, Over,
                UdpOver, IsAnswer, HasInterval
  <1> QED
    BY <1>1, <1>2, <1>3 DEF Next

\* An announce comes to one of the outcomes Submission and TrackerUrl take it to have,
\* for any body: all that the decoder raises is a RuntimeError to the caller, and a
\* ValueError can only have come from requests or from the port.
THEOREM Outcomes == Spec => OutcomeAsAssumed
  <1>1. Init => Abstract!OutcomeInit
    BY DEF Init, UdpAt, HttpAt, Abstract!OutcomeInit, UdpChosen, Outcome, Over, UdpOver
  <1>2. UdpInv => Typed
    BY DEF UdpInv
  <1> QED
    BY <1>1, <1>2, OutcomeStep, UdpAlways, ModeAlways, PTL
    DEF Spec, OutcomeAsAssumed, Abstract!OutcomeSpec
=============================================================================
