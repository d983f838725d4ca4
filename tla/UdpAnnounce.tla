----------------------------- MODULE UdpAnnounce -----------------------------
(***************************************************************************)
(* scraper.announce_udp: the client of the UDP tracker protocol, the peer   *)
(* it talks to and the network in between.                                  *)
(*                                                                          *)
(* An announce makes up to two attempts. Each opens a socket to the first   *)
(* address that takes one, asks for a connection id, and announces with it; *)
(* for each request it reads one datagram, whichever comes, and waits ten   *)
(* seconds for it. Datagrams may be lost, late, out of order or come twice. *)
(* The second socket has a port of its own or, by chance, the one of the    *)
(* first, where late replies to the first still arrive. A transaction id is *)
(* drawn at random from 255, so that two may be equal.                      *)
(***************************************************************************)
EXTENDS Integers, Sequences, FiniteSets

CONSTANTS
    Addresses,     \* how many addresses getaddrinfo gives
    MaxReplies     \* how many different replies the peer makes: a bound for TLC

ASSUME UdpAssumption == Addresses \in Nat \ {0} /\ MaxReplies \in Nat

VARIABLES
    upc,        \* where announce_udp is
    attempt,    \* 1 or 2
    next,       \* the address to try next, in the loop over them
    sock,       \* the attempt and address of the last socket, or NoSocket
    open,       \* the sockets that are open
    samePort,   \* has the second socket the port of the first?
    request,    \* the last request, of which only the transaction id is kept
    asked,      \* the requests that were sent, and may reach the peer
    replies,    \* the replies the peer made
    network,    \* the replies under way
    reply,      \* the reply that is returned, or NoReply
    faulty,     \* auxiliary: the attempts in which something went wrong outside
    misled      \* auxiliary: the attempts that read a reply to another one

wire    == <<asked, replies, network>>
udpVars == <<upc, attempt, next, sock, open, samePort, request, wire, reply, faulty,
             misled>>

Attempts == {1, 2}
Request  == [kind : {"connect", "announce"}, tid : 1..4, attempt : Attempts]
NoRequest == [kind |-> "none", tid |-> 0, attempt |-> 1]

\* A reply by what the parsers look at: the request it answers, its action, of which
\* each parser knows some, and its length, which falls short of both minima, of the
\* one of an announce, or of neither. Of one that is too short nothing else counts.
Replies(requests) ==
    {m \in [to : requests, action : {0, 1, 3}, length : {12, 16, 20}] :
        m.length = 12 => m.action = 0}
Reply == Replies(Request)

NoSocket == <<0, 0>>
NoReply  == [to |-> NoRequest, action |-> 0, length |-> 0]

UdpOver == upc \in {"returned", "failed", "raised"}

UdpTypeOK ==
    /\ upc \in {"off", "resolve", "open", "connect", "announce",
                "returned", "failed", "raised"}
    /\ attempt \in Attempts /\ next \in 1..Addresses + 1
    /\ sock \in (Attempts \X (1..Addresses)) \cup {NoSocket}
    /\ open \subseteq Attempts \X (1..Addresses)
    /\ samePort \in BOOLEAN /\ request \in Request \cup {NoRequest}
    /\ asked \subseteq Request /\ replies \subseteq Reply /\ network \subseteq replies
    /\ reply \in Reply \cup {NoReply}
    /\ faulty \subseteq Attempts /\ misled \subseteq Attempts

UdpAt(start) ==
    /\ upc = start
    /\ attempt = 1 /\ next = 1 /\ sock = NoSocket /\ open = {} /\ samePort = FALSE
    /\ request = NoRequest /\ asked = {} /\ replies = {} /\ network = {}
    /\ reply = NoReply /\ faulty = {} /\ misled = {}

-----------------------------------------------------------------------------
(* announce_udp *)

\* getaddrinfo gives addresses; or it fails, which is a RuntimeError; or the URL
\* has a port that .port does not parse, which is a ValueError.
Resolve ==
    /\ upc = "resolve"
    /\ \/ upc' = "open" /\ UNCHANGED faulty
       \/ upc' \in {"failed", "raised"} /\ faulty' = {1}
    /\ UNCHANGED <<attempt, next, sock, open, samePort, request, wire, reply, misled>>

\* Mutant of SkipAddress: a socket that does not connect is not closed.
SkipAddressOpen ==
    /\ upc = "open" /\ next <= Addresses
    /\ next' = next + 1
    /\ sock' = NoSocket
    /\ open' = open \cup {<<attempt, next>>}
    /\ UNCHANGED <<upc, attempt, samePort, request, wire, reply, faulty, misled>>

\* socket() fails, or connect() does and the socket is closed.
SkipAddress ==
    /\ upc = "open" /\ next <= Addresses
    /\ next' = next + 1
    /\ sock' = NoSocket
    /\ UNCHANGED <<upc, attempt, open, samePort, request, wire, reply, faulty, misled>>

\* No address takes a socket: an error at once, in the first attempt as in the
\* second.
NoAddress ==
    /\ upc = "open" /\ next > Addresses
    /\ upc' = "failed"
    /\ faulty' = faulty \cup {attempt}
    /\ UNCHANGED <<attempt, next, sock, open, samePort, request, wire, reply, misled>>

\* The id drawn is one drawn before or a new one; which new one makes no difference.
Send(kind) ==
    /\ \E tid \in 1..Cardinality({q.tid : q \in asked}) + 1 :
          request' = [kind |-> kind, tid |-> tid, attempt |-> attempt]
    /\ asked' = asked \cup {request'}

\* The socket is connected, and the request for a connection id sent.
Connect ==
    /\ upc = "open" /\ next <= Addresses
    /\ sock' = <<attempt, next>>
    /\ open' = open \cup {<<attempt, next>>}
    /\ samePort' \in IF attempt = 2 THEN BOOLEAN ELSE {FALSE}
    /\ Send("connect")
    /\ upc' = "connect"
    /\ UNCHANGED <<attempt, next, replies, network, reply, faulty, misled>>

\* Mutant of NextAttempt: the second failure is not the last.
NextAttemptMore ==
    /\ open' = open \ {sock}
    /\ IF attempt > 2
       THEN upc' = "failed" /\ UNCHANGED <<attempt, next, sock>>
       ELSE attempt' = attempt + 1 /\ next' = 1 /\ sock' = NoSocket /\ upc' = "open"

\* An error of an attempt: the socket is closed, and the attempt was the last one
\* or another follows, again from the first address.
NextAttempt ==
    /\ open' = open \ {sock}
    /\ IF attempt = 2
       THEN upc' = "failed" /\ UNCHANGED <<attempt, next, sock>>
       ELSE attempt' = 2 /\ next' = 1 /\ sock' = NoSocket /\ upc' = "open"

\* Nothing comes in time, or the peer or the network refuses.
TimesOut ==
    /\ upc \in {"connect", "announce"}
    /\ NextAttempt
    /\ faulty' = faulty \cup {attempt}
    /\ UNCHANGED <<samePort, request, wire, reply, misled>>

Arriving == {m \in network : m.to.attempt = attempt \/ samePort}

\* The next datagram, whichever request it answers.
Receive(m) ==
    /\ network' = network \ {m}
    /\ misled' = IF m.to.attempt = attempt THEN misled ELSE misled \cup {attempt}
    /\ UNCHANGED faulty

\* Mutant of ReceiveConnect: a reply longer than it needs to be is refused.
ReceiveConnectExact(m) ==
    /\ upc = "connect" /\ Receive(m)
    /\ IF m.length # 16 \/ m.to.tid # request.tid \/ m.action = 3
       THEN NextAttempt /\ UNCHANGED <<request, asked>>
       ELSE /\ IF m.action = 0
               THEN upc' = "announce" /\ Send("announce")
               ELSE upc' = "raised" /\ UNCHANGED <<request, asked>>
            /\ UNCHANGED <<attempt, next, sock, open>>
    /\ UNCHANGED <<samePort, replies, reply>>

\* udp_parse_connection_response: an error, or an id to announce with, or, for an
\* action there is not, None, which struct.pack does not take.
ReceiveConnect(m) ==
    /\ upc = "connect" /\ Receive(m)
    /\ IF m.length < 16 \/ m.to.tid # request.tid \/ m.action = 3
       THEN NextAttempt /\ UNCHANGED <<request, asked>>
       ELSE /\ IF m.action = 0
               THEN upc' = "announce" /\ Send("announce")
               ELSE upc' = "raised" /\ UNCHANGED <<request, asked>>
            /\ UNCHANGED <<attempt, next, sock, open>>
    /\ UNCHANGED <<samePort, replies, reply>>

\* Mutant of ReceiveAnnounce: the transaction id is not compared.
ReceiveAnnounceAny(m) ==
    /\ upc = "announce" /\ Receive(m)
    /\ IF m.length < 20 \/ m.action # 1
       THEN NextAttempt /\ UNCHANGED reply
       ELSE /\ upc' = "returned" /\ reply' = m /\ open' = open \ {sock}
            /\ UNCHANGED <<attempt, next, sock>>
    /\ UNCHANGED <<samePort, request, asked, replies>>

\* Mutant of ReceiveAnnounce: a datagram that is not the answer is passed over, and
\* the next one waited for.
ReceiveAnnouncePatient(m) ==
    /\ upc = "announce" /\ Receive(m)
    /\ IF m.length < 20 \/ m.to.tid # request.tid \/ m.action # 1
       THEN UNCHANGED <<upc, open, reply>>
       ELSE upc' = "returned" /\ reply' = m /\ open' = open \ {sock}
    /\ UNCHANGED <<attempt, next, sock, samePort, request, asked, replies>>

\* udp_parse_announce_response, on a socket that is closed already.
ReceiveAnnounce(m) ==
    /\ upc = "announce" /\ Receive(m)
    /\ IF m.length < 20 \/ m.to.tid # request.tid \/ m.action # 1
       THEN NextAttempt /\ UNCHANGED reply
       ELSE /\ upc' = "returned" /\ reply' = m /\ open' = open \ {sock}
            /\ UNCHANGED <<attempt, next, sock>>
    /\ UNCHANGED <<samePort, request, asked, replies>>

ClientNext ==
    \/ Resolve \/ SkipAddress \/ NoAddress \/ Connect \/ TimesOut
    \/ \E m \in Arriving : ReceiveConnect(m) \/ ReceiveAnnounce(m)

-----------------------------------------------------------------------------
(* The peer. *)

Proper(m) ==
    IF m.to.kind = "connect" THEN m.action = 0 /\ m.length >= 16
    ELSE m.action = 1 /\ m.length = 20

\* A request reaches the peer, for the first time or again, and the peer makes some
\* reply, for which MaxReplies is the bound; or the network delivers one twice.
\* One reply of the right kind is what should be.
PeerReplies ==
    /\ ~UdpOver
    /\ \E m \in Replies(asked) :
          /\ m \in replies \/ Cardinality(replies) < MaxReplies
          /\ replies' = replies \cup {m} /\ network' = network \cup {m}
          /\ faulty' = IF Proper(m) /\ \A r \in replies : r.to # m.to
                       THEN faulty ELSE faulty \cup {m.to.attempt}
    /\ UNCHANGED <<upc, attempt, next, sock, open, samePort, request, asked, reply,
                   misled>>

UdpNext == ClientNext \/ PeerReplies
=============================================================================
