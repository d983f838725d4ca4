--------------------------- MODULE Decoder_proofs ---------------------------
(***************************************************************************)
(* What the decoder guarantees for bodies of any length and responses of    *)
(* any depth: it stays within the data, gives back what was encoded, and    *)
(* refuses what was cut.                                                    *)
(***************************************************************************)
EXTENDS Announce_proofs, Encoding_proofs

(* Types. *)

LEMMA ThreeAtMost ==
    ASSUME NEW x, NEW y, NEW z, NEW T \in SUBSET {x, y, z}
    PROVE  Cardinality(T) \in 0..3
<1>1. IsFiniteSet({z}) /\ Cardinality({z}) = 1
  BY FS_Singleton
<1>2. {z} \cup {y} = {y, z} /\ {y, z} \cup {x} = {x, y, z}
  OBVIOUS
<1>3. IsFiniteSet({y, z}) /\ Cardinality({y, z}) \in 0..2
  BY <1>1, <1>2, FS_AddElement
<1>4. IsFiniteSet({x, y, z}) /\ Cardinality({x, y, z}) \in 0..3
  BY <1>2, <1>3, FS_AddElement
<1>5. Cardinality(T) <= Cardinality({x, y, z}) /\ IsFiniteSet(T)
  BY <1>4, FS_Subset
<1>6. Cardinality(T) \in Nat
  BY <1>5, FS_CardinalityType
<1> QED
  BY <1>4, <1>5, <1>6

\* Before a request is sent there have been three at most.
LEMMA IdsSoFar ==
    ASSUME Typed, AskedInv, upc \in {"open", "connect"}
    PROVE  Cardinality({q.tid : q \in asked}) \in 0..3
<1> DEFINE At(kind, n) == CHOOSE q \in asked : q.kind = kind /\ q.attempt = n
           x == At("connect", 1)
           y == At("announce", 1)
           z == At("connect", 2)
<1>1. ASSUME NEW q \in asked
      PROVE  q \in {x, y, z}
  <2>1. q.kind \in {"connect", "announce"} /\ q.attempt \in {1, 2} /\ attempt \in {1, 2}
    BY DEF Typed, AnyRequest, Attempts
  <2>2. ~(q.kind = "announce" /\ q.attempt = 2)
    BY <2>1 DEF AskedInv
  <2>3. q = At(q.kind, q.attempt)
    <3>1. \A p \in asked : p.kind = q.kind /\ p.attempt = q.attempt => p = q
      BY DEF AskedInv
    <3> QED
      BY <3>1
  <2> HIDE DEF At
  <2> QED
    BY <2>1, <2>2, <2>3
<1> HIDE DEF x, y, z
<1>2. {q.tid : q \in asked} \subseteq {x.tid, y.tid, z.tid}
  BY <1>1
<1> QED
  BY <1>2, ThreeAtMost

LEMMA SentTyped ==
    ASSUME NEW kind \in {"connect", "announce"}, Typed, AskedInv, asked \subseteq Request,
           upc \in {"open", "connect"}, Send(kind)
    PROVE  request' \in Request /\ asked' \subseteq Request
<1> DEFINE n == Cardinality({q.tid : q \in asked})
<1>1. n \in 0..3
  BY IdsSoFar
<1>2. PICK tid \in 1..n + 1 : request' = [kind |-> kind, tid |-> tid, attempt |-> attempt]
  BY DEF Send
<1> HIDE DEF n
<1>3. tid \in 1..4
  BY <1>1
<1> QED
  BY <1>2, <1>3 DEF Send, Typed, Request

LEMMA UdpTypeStep == UdpInv /\ UdpTypeOK /\ [Next]_vars => UdpTypeOK'
<1> SUFFICES ASSUME UdpInv, UdpTypeOK, [Next]_vars
             PROVE  UdpTypeOK'
  OBVIOUS
<1>0. UdpInv'
  BY UdpStep
<1> DEFINE Sockets == Attempts \X (1..Addresses)
           Rest == /\ upc \in {"off", "resolve", "open", "connect", "announce",
                              "returned", "failed", "raised"}
                   /\ attempt \in Attempts /\ network \subseteq replies
                   /\ faulty \subseteq Attempts /\ misled \subseteq Attempts
           Socks == /\ next \in 1..Addresses + 1 /\ sock \in Sockets \cup {NoSocket}
                    /\ open \subseteq Sockets /\ samePort \in BOOLEAN
           Requests == request \in Request \cup {NoRequest} /\ asked \subseteq Request
           Answers == replies \subseteq Reply /\ reply \in Reply \cup {NoReply}
<1>1. Rest'
  BY <1>0 DEF UdpInv, Typed
<1>2. Addresses \in Nat \ {0}
  BY UdpAssumption
<1>3. Socks /\ Requests /\ Answers
  BY DEF UdpTypeOK
<1>n. ASSUME NextAttempt
      PROVE  /\ next' \in 1..Addresses + 1 /\ sock' \in Sockets \cup {NoSocket}
             /\ open' \subseteq Sockets
  <2> HIDE DEF Sockets
  <2> QED
    BY <1>n, <1>2, <1>3 DEF NextAttempt
<1>4. CASE UNCHANGED <<next, sock, open, samePort, request, asked, replies, reply>>
  BY <1>1, <1>3, <1>4 DEF UdpTypeOK
<1>5. CASE SkipAddress
  <2>1. next + 1 \in 1..Addresses + 1
    BY <1>2, <1>3, <1>5 DEF SkipAddress
  <2>2. Socks' /\ Requests' /\ Answers'
    <3> HIDE DEF Sockets
    <3> QED
      BY <1>3, <1>5, <2>1 DEF SkipAddress, wire
  <2> QED
    BY <1>1, <2>2 DEF UdpTypeOK
<1>6. CASE Connect
  <2>1. <<attempt, next>> \in Sockets
    BY <1>2, <1>3, <1>6 DEF Connect, UdpInv, Typed
  <2>2. request' \in Request /\ asked' \subseteq Request
    BY <1>3, <1>6, SentTyped DEF Connect, UdpInv
  <2>3. Socks' /\ Requests' /\ Answers'
    <3> HIDE DEF Sockets
    <3> QED
      BY <1>3, <1>6, <2>1, <2>2 DEF Connect
  <2> QED
    BY <1>1, <2>3 DEF UdpTypeOK
<1>7. CASE TimesOut
  <2>1. Socks' /\ Requests' /\ Answers'
    BY <1>3, <1>7, <1>n DEF TimesOut, wire
  <2> QED
    BY <1>1, <2>1 DEF UdpTypeOK
<1>8. ASSUME NEW m \in Arriving, ReceiveConnect(m)
      PROVE  UdpTypeOK'
  <2>1. Socks'
    <3> HIDE DEF Sockets
    <3> QED
      BY <1>3, <1>8, <1>n DEF ReceiveConnect
  <2>2. Requests'
    BY <1>3, <1>8, SentTyped DEF ReceiveConnect, UdpInv
  <2>3. Answers'
    BY <1>3, <1>8 DEF ReceiveConnect
  <2> QED
    BY <1>1, <2>1, <2>2, <2>3 DEF UdpTypeOK
<1>9. ASSUME NEW m \in Arriving, ReceiveAnnounce(m)
      PROVE  UdpTypeOK'
  <2>1. Socks'
    <3> HIDE DEF Sockets
    <3> QED
      BY <1>3, <1>9, <1>n DEF ReceiveAnnounce
  <2>2. Requests'
    BY <1>3, <1>9 DEF ReceiveAnnounce
  <2>3. m \in Reply
    BY <1>3 DEF Arriving, UdpInv, Typed
  <2>4. Answers'
    BY <1>3, <1>9, <2>3 DEF ReceiveAnnounce
  <2> QED
    BY <1>1, <2>1, <2>2, <2>4 DEF UdpTypeOK
<1>10. CASE PeerReplies
  <2>1. Replies(asked) \subseteq Reply
    BY <1>3 DEF Reply, Replies
  <2>2. Socks' /\ Requests' /\ Answers'
    <3> HIDE DEF Sockets
    <3> QED
      BY <1>3, <1>10, <2>1 DEF PeerReplies
  <2> QED
    BY <1>1, <2>2 DEF UdpTypeOK
<1>11. CASE Resolve \/ NoAddress \/ UNCHANGED udpVars
  BY <1>4, <1>11 DEF Resolve, NoAddress, udpVars, wire
<1> QED
  BY <1>5, <1>6, <1>7, <1>8, <1>9, <1>10, <1>11 DEF Next, UdpNext, ClientNext, vars

\* Where a token is, or that it is not in what is left of the data.
LEMMA FindIs ==
    ASSUME NEW token, Len(content) \in Nat, index \in Nat
    PROVE  \/ Find(token) = 0 /\ \A i \in index + 1..Len(content) : content[i] # token
           \/ /\ Find(token) \in index + 1..Len(content) /\ content[Find(token)] = token
              /\ \A i \in index + 1..Find(token) - 1 : content[i] # token
<1> DEFINE found == {i \in index + 1..Len(content) : content[i] = token}
           First(i) == i \in found /\ \A j \in found : i <= j
<1>1. CASE found = {}
  <2>1. Find(token) = 0
    BY <1>1 DEF Find
  <2> QED
    BY <1>1, <2>1
<1>2. CASE found # {}
  <2> DEFINE p == CHOOSE i \in found : \A j \in found : i <= j
  <2>1. Find(token) = p
    BY <1>2 DEF Find
  <2>2. found \in SUBSET Nat
    OBVIOUS
  <2>3. p \in found /\ \A j \in found : p <= j
    <3> HIDE DEF found
    <3>1. \E i \in found : \A j \in found : i <= j
      BY <1>2, <2>2, Least
    <3> QED
      BY <3>1
  <2> HIDE DEF p
  <2>4. p \in index + 1..Len(content) /\ content[p] = token
    BY <2>3
  <2>5. ASSUME NEW i \in index + 1..p - 1
        PROVE  content[i] # token
    <3>1. i \in index + 1..Len(content) /\ ~(p <= i)
      BY <2>4
    <3> QED
      BY <2>3, <3>1
  <2> QED
    BY <2>1, <2>4, <2>5
<1> QED
  BY <1>1, <1>2

\* A length begins with a digit, and so is not negative.
LEMMA LengthNat ==
    ASSUME NEW s \in Seq(STRING), IsNumber(s), IsDigit(s[1])
    PROVE  NumberOf(s) \in Nat
<1>1. s[1] # "-"
  BY DigitValue DEF Structure
<1>2. Magnitude(s) = s
  BY <1>1 DEF Magnitude
<1>3. Len(s) \in Nat /\ DOMAIN s = 1..Len(s)
  OBVIOUS
<1>4. \A i \in 1..Len(s) : IsDigit(s[i])
  BY <1>2, <1>3 DEF IsNumber
<1>5. Decimal(s) \in Nat
  BY <1>3, <1>4, DecimalNat
<1> QED
  BY <1>1, <1>5 DEF NumberOf

\* The text of a number, from where the decoder is up to the token after it.
LEMMA TokenText ==
    ASSUME content \in Seq(STRING), NEW i \in 1..Len(content), NEW p \in i..Len(content)
    PROVE  /\ SubSeq(content, i, p - 1) \in Seq(STRING)
           /\ p > i => SubSeq(content, i, p - 1)[1] = content[i]
           /\ p = i => SubSeq(content, i, p - 1) = <<>>
<1>1. i \in Int /\ p - 1 \in Int /\ Len(content) \in Nat
  OBVIOUS
<1>2. \A j \in i..p - 1 : content[j] \in STRING
  BY <1>1
<1>3. /\ SubSeq(content, i, p - 1) \in Seq(STRING)
      /\ \A j \in 1..(p - 1) - i + 1 : SubSeq(content, i, p - 1)[j] = content[i + j - 1]
  BY <1>1, <1>2, SubSeqProperties
<1>4. p > i => 1 \in 1..(p - 1) - i + 1 /\ i + 1 - 1 = i
  OBVIOUS
<1>5. p = i => SubSeq(content, i, p - 1) = <<>>
  BY <1>1, SubSeqEmpty
<1> QED
  BY <1>3, <1>4, <1>5

\* The decoder stays within the data, and leaves it as it is.
LEMMA DecoderStays ==
    ASSUME content \in Seq(STRING), index \in 0..Len(content), DecoderNext
    PROVE  /\ index' \in 0..Len(content) /\ content' = content
           /\ dpc # "off" /\ dpc' \in {"decode", "loop", "done"}
<1> DEFINE n == Len(content)
<1>0. n \in Nat /\ index \in Nat /\ (~AtEnd => index + 1 <= n) /\ (Here = "e" => index + 1 <= n)
  BY DEF AtEnd, Here
<1>r. ASSUME NEW v, NEW i \in 0..n, NEW stack, Return(v, i, stack)
      PROVE  index' \in 0..n /\ content' = content /\ dpc' \in {"decode", "loop", "done"}
  BY <1>r DEF Return
<1>e. ASSUME NEW e, Raise(e)
      PROVE  index' = index /\ content' = content /\ dpc' \in {"decode", "loop", "done"}
  BY <1>e DEF Raise
<1> HIDE DEF n
<1>1. CASE DecodeEof \/ DecodeInvalid
  <2>1. (\E e : Raise(e)) /\ dpc = "decode"
    BY <1>1 DEF DecodeEof, DecodeInvalid
  <2> QED
    BY <1>e, <2>1 DEF n
<1>2. CASE DecodeEnd
  <2>1. Return(Nothing, index, frames) /\ dpc = "decode"
    BY <1>2 DEF DecodeEnd
  <2> QED
    BY <1>r, <2>1 DEF n
<1>3. CASE DecodeContainer \/ LoopItem
  BY <1>0, <1>3 DEF DecodeContainer, LoopItem, n
<1>4. CASE DecodeInt
  <2> DEFINE p == Find("e")
  <2>1. p \in 0..n
    BY <1>0, FindIs DEF n
  <2> HIDE DEF p
  <2>2. \/ \E e : Raise(e)
        \/ \E v : Return(v, p, frames)
    BY <1>4 DEF DecodeInt, p
  <2> QED
    BY <1>4, <1>r, <1>e, <2>1, <2>2 DEF n, DecodeInt
<1>5. CASE DecodeStr
  <2> DEFINE p == Find(":")
             digits == SubSeq(content, index + 1, p - 1)
             length == NumberOf(digits)
  <2>1. ASSUME p # 0, IsNumber(digits)
        PROVE  p \in 1..n /\ length \in Nat
    <3>1. p \in index + 1..n /\ content[p] = ":"
      BY <1>0, <2>1, FindIs DEF n
    <3>2. index + 1 \in 1..Len(content) /\ p \in index + 1..Len(content)
      BY <1>0, <3>1 DEF n
    <3>3. /\ digits \in Seq(STRING)
          /\ p > index + 1 => digits[1] = content[index + 1]
      BY <3>2, TokenText
    <3>4. content[index + 1] # ":" /\ IsDigit(content[index + 1])
      <4>1. IsDigit(Here)
        BY <1>5 DEF DecodeStr
      <4>2. Here = content[index + 1]
        <5>1. index < Len(content)
          BY <1>0, <3>2 DEF n
        <5> QED
          BY <5>1 DEF Here
      <4> QED
        BY <4>1, <4>2, DigitValue DEF Structure
    <3>5. p > index + 1
      BY <3>1, <3>2, <3>4
    <3> HIDE DEF digits
    <3>6. IsDigit(digits[1])
      BY <3>3, <3>4, <3>5
    <3>7. length \in Nat
      BY <2>1, <3>3, <3>6, LengthNat
    <3> QED
      BY <1>0, <3>1, <3>7
  <2>2. \/ \E e : Raise(e)
        \/ p # 0 /\ IsNumber(digits) /\ ~(p + length > n) /\ \E v : Return(v, p + length, frames)
    BY <1>5 DEF DecodeStr, n
  <2>3. dpc = "decode"
    BY <1>5 DEF DecodeStr
  <2> HIDE DEF p, digits, length
  <2>4. CASE \E e : Raise(e)
    BY <1>e, <2>3, <2>4 DEF n
  <2>5. CASE p # 0 /\ IsNumber(digits) /\ ~(p + length > n) /\ \E v : Return(v, p + length, frames)
    <3>1. p + length \in 0..n
      BY <1>0, <2>1, <2>5
    <3> QED
      BY <1>r, <2>3, <2>5, <3>1 DEF n
  <2> QED
    BY <2>2, <2>4, <2>5
<1>6. CASE LoopEnd
  <2>1. Return(Collected(Last(frames)), index + 1, Front(frames)) /\ dpc = "loop"
    BY <1>6 DEF LoopEnd
  <2>2. index + 1 \in 0..n
    BY <1>0, <1>6 DEF LoopEnd
  <2> QED
    BY <1>r, <2>1, <2>2 DEF n
<1> QED
  BY <1>1, <1>2, <1>3, <1>4, <1>5, <1>6 DEF DecoderNext

-----------------------------------------------------------------------------

\* What is decoded is the whole body, and nothing is before the body is there.
BodyInv ==
    /\ body \in Seq(STRING) /\ content \in Seq(STRING)
    /\ hpc \in {"off", "get", "decode", "done"} /\ dpc \in {"off", "decode", "loop", "done"}
    /\ index \in 0..Len(content)
    /\ hpc \in {"off", "get"} => dpc = "off"
    /\ dpc = "off" => index = 0 /\ frames = <<>>
    /\ dpc # "off" => content = body

LEMMA BodyStart == Init => BodyInv
<1> SUFFICES ASSUME Init
             PROVE  BodyInv
  OBVIOUS
<1>1. /\ content = <<>> /\ index = 0 /\ frames = <<>> /\ dpc = "off"
      /\ hpc \in {"off", "get"} /\ body \in {<<>>} \cup Bodies
  BY DEF Init, HttpAt
<1>2. <<>> \in Seq(STRING) /\ Len(<<>>) = 0
  OBVIOUS
<1>3. body \in Seq(STRING)
  BY <1>1, <1>2, HttpAssumption
<1> QED
  BY <1>1, <1>2, <1>3 DEF BodyInv

LEMMA BodyStep == BodyInv /\ [Next]_vars => BodyInv'
<1> SUFFICES ASSUME BodyInv, [Next]_vars
             PROVE  BodyInv'
  OBVIOUS
<1>1. CASE UNCHANGED httpVars \/ GetFails \/ Judge
  BY <1>1 DEF httpVars, decoderVars, GetFails, Judge, Fail, BodyInv
<1>2. CASE GetBody
  <2> DEFINE m == Smaller(Len(body), MaxSize + 1)
             read == SubSeq(body, 1, m)
  <2>1. index = 0 /\ dpc = "off" /\ frames = <<>> /\ UNCHANGED <<index, frames, body>>
    BY <1>2 DEF GetBody, BodyInv
  <2>2. /\ body \in Seq(STRING) /\ Len(body) \in Nat /\ MaxSize \in Nat
        /\ \A i \in 1..Len(body) : body[i] \in STRING
    BY HttpAssumption DEF BodyInv
  <2>3. m \in 0..Len(body) /\ (m <= MaxSize => m = Len(body))
    BY <2>2 DEF Smaller
  <2> HIDE DEF m
  <2>4. read \in Seq(STRING) /\ Len(read) = m
    <3>1. \A i \in 1..m : body[i] \in STRING
      BY <2>2, <2>3
    <3>2. 1 \in Int /\ m \in Int /\ (IF 1 <= m THEN m - 1 + 1 ELSE 0) = m
      BY <2>2, <2>3
    <3> QED
      BY <3>1, <3>2, SubSeqProperties
  <2>5. Len(read) <= MaxSize => read = body
    BY <2>2, <2>3, <2>4, SubSeqFull
  <2> HIDE DEF read
  <2>6. CASE Len(read) > MaxSize
    <3>1. hpc' = "done" /\ UNCHANGED <<content, dpc>>
      BY <1>2, <2>6 DEF GetBody, Fail, read, m
    <3> QED
      BY <2>1, <3>1 DEF BodyInv
  <2>7. CASE ~(Len(read) > MaxSize)
    <3>1. content' = read /\ hpc' = "decode" /\ dpc' = "decode"
      BY <1>2, <2>7 DEF GetBody, read, m
    <3>2. read = body
      BY <2>2, <2>3, <2>4, <2>5, <2>7
    <3> QED
      BY <2>1, <2>2, <3>1, <3>2 DEF BodyInv
  <2> QED
    BY <2>6, <2>7
<1>3. CASE Decode
  <2>1. /\ index' \in 0..Len(content) /\ content' = content
        /\ dpc # "off" /\ dpc' \in {"decode", "loop", "done"}
    BY <1>3, DecoderStays DEF BodyInv, Decode
  <2>2. hpc = "decode" /\ UNCHANGED <<hpc, body>>
    BY <1>3 DEF Decode
  <2> QED
    BY <2>1, <2>2 DEF BodyInv
<1> QED
  BY <1>1, <1>2, <1>3 DEF Next, HttpNext, vars

LEMMA BodyAlways == Spec => []BodyInv
  BY BodyStart, BodyStep, PTL DEF Spec

\* The variables of both clients keep their types: of any number of addresses and
\* replies there are never more attempts than two or ids than four, and the decoder
\* never looks past the data, whatever lengths it reads there.
THEOREM AnnounceTyped == Spec => []TypeOK
<1>1. Init => UdpTypeOK
  <2> SUFFICES ASSUME Init
               PROVE  UdpTypeOK
    OBVIOUS
  <2>1. Addresses \in Nat \ {0}
    BY UdpAssumption
  <2>2. 1 \in 1..Addresses + 1
    BY <2>1
  <2> QED
    BY <2>2 DEF Init, UdpAt, UdpTypeOK, Attempts
<1>2. UdpTypeOK /\ BodyInv => TypeOK
  BY DEF TypeOK, BodyInv
<1> QED
  BY <1>1, <1>2, UdpTypeStep, UdpAlways, BodyAlways, PTL DEF Spec

-----------------------------------------------------------------------------
(* Sequences. *)

LEMMA ConcatParts ==
    ASSUME NEW S, NEW a \in Seq(S), NEW b \in Seq(S)
    PROVE  /\ a \o b \in Seq(S) /\ Len(a \o b) = Len(a) + Len(b)
           /\ \A k \in 1..Len(a) : (a \o b)[k] = a[k]
           /\ \A k \in 1..Len(b) : (a \o b)[Len(a) + k] = b[k]
<1> DEFINE s == a \o b
<1>1. /\ s \in Seq(S) /\ Len(s) = Len(a) + Len(b)
      /\ \A i \in 1..Len(a) + Len(b) : s[i] = IF i <= Len(a) THEN a[i] ELSE b[i - Len(a)]
  BY ConcatProperties
<1> HIDE DEF s
<1>2. Len(a) \in Nat /\ Len(b) \in Nat
  OBVIOUS
<1>3. ASSUME NEW k \in 1..Len(a)
      PROVE  s[k] = a[k]
  <2>1. k \in 1..Len(a) + Len(b) /\ k <= Len(a)
    BY <1>2
  <2> QED
    BY <1>1, <2>1
<1>4. ASSUME NEW k \in 1..Len(b)
      PROVE  s[Len(a) + k] = b[k]
  <2>1. Len(a) + k \in 1..Len(a) + Len(b) /\ ~(Len(a) + k <= Len(a)) /\ Len(a) + k - Len(a) = k
    BY <1>2
  <2> QED
    BY <1>1, <2>1
<1> QED
  BY <1>1, <1>3, <1>4 DEF s

\* b is what follows the first n elements of s.
Left(s, n, b) == SubSeq(s, n + 1, Len(s)) = b

LEMMA AheadSplit ==
    ASSUME NEW s \in Seq(Byte), NEW n \in 0..Len(s), NEW a \in Seq(Byte), NEW b \in Seq(Byte),
           Left(s, n, a \o b)
    PROVE  /\ n + Len(a) + Len(b) = Len(s)
           /\ \A k \in 1..Len(a) : s[n + k] = a[k]
           /\ Left(s, n + Len(a), b)
<1> DEFINE t == SubSeq(s, n + 1, Len(s))
           u == SubSeq(s, n + Len(a) + 1, Len(s))
           m == Len(s)
           x == Len(a)
           y == Len(b)
<1>1. n \in Nat /\ m \in Nat /\ x \in Nat /\ y \in Nat /\ n <= m /\ \A i \in 1..m : s[i] \in Byte
  OBVIOUS
<1>2. /\ Len(t) = IF n + 1 <= m THEN m - (n + 1) + 1 ELSE 0
      /\ \A i \in 1..m - (n + 1) + 1 : t[i] = s[n + 1 + i - 1]
  <2>1. n + 1 \in Int /\ m \in Int /\ \A i \in n + 1..m : s[i] \in Byte
    BY <1>1
  <2> HIDE DEF m
  <2>2. /\ Len(SubSeq(s, n + 1, m)) = IF n + 1 <= m THEN m - (n + 1) + 1 ELSE 0
        /\ \A i \in 1..m - (n + 1) + 1 : SubSeq(s, n + 1, m)[i] = s[n + 1 + i - 1]
    BY <2>1, SubSeqProperties
  <2> QED
    BY <2>2 DEF m
<1>3. /\ Len(t) = x + y /\ (\A k \in 1..x : t[k] = a[k])
      /\ \A k \in 1..y : t[x + k] = b[k]
  <2>1. t = a \o b
    BY DEF Left
  <2> HIDE DEF t
  <2> QED
    BY <2>1, ConcatParts
<1> HIDE DEF t
<1>4. n + x + y = m
  <2>1. x + y = IF n + 1 <= m THEN m - (n + 1) + 1 ELSE 0
    BY <1>2, <1>3
  <2>2. n \in Nat /\ m \in Nat /\ x \in Nat /\ y \in Nat /\ n <= m
    BY <1>1
  <2> HIDE DEF m, x, y
  <2> QED
    BY <2>1, <2>2
<1>5. \A i \in 1..x + y : t[i] = s[n + i]
  <2> HIDE DEF m, x, y
  <2>1. \A i \in 1..x + y : i \in 1..m - (n + 1) + 1 /\ n + 1 + i - 1 = n + i
    BY <1>1, <1>4
  <2> QED
    BY <1>2, <2>1
<1>6. \A k \in 1..x : s[n + k] = a[k]
  <2>1. \A k \in 1..x : k \in 1..x + y
    BY <1>1
  <2> QED
    BY <1>3, <1>5, <2>1
<1>7. u = b
  <2>1. n + x + 1 \in Int /\ m \in Int /\ \A i \in n + x + 1..m : s[i] \in Byte
    BY <1>1
  <2> HIDE DEF m
  <2> DEFINE l == n + x + 1
  <2>2. /\ SubSeq(s, l, m) \in Seq(Byte) /\ Len(SubSeq(s, l, m)) = IF l <= m THEN m - l + 1 ELSE 0
        /\ \A i \in 1..m - l + 1 : SubSeq(s, l, m)[i] = s[l + i - 1]
    <3> HIDE DEF l
    <3> QED
      BY <2>1, SubSeqProperties DEF l
  <2>3. u = SubSeq(s, l, m)
    BY DEF m
  <2> HIDE DEF u
  <2>4. u \in Seq(Byte) /\ Len(u) = y /\ \A i \in 1..y : u[i] = s[n + x + i]
    <3> HIDE DEF x, y
    <3>1. m - l + 1 = y
      BY <1>1, <1>4
    <3>2. \A i \in 1..y : l + i - 1 = n + x + i
      BY <1>1
    <3>3. (IF l <= m THEN m - l + 1 ELSE 0) = y
      BY <1>1, <1>4
    <3> HIDE DEF l
    <3> QED
      BY <2>2, <2>3, <3>1, <3>2, <3>3
  <2>5. ASSUME NEW i \in 1..y
        PROVE  s[n + x + i] = b[i]
    <3>1. x + i \in 1..x + y /\ n + (x + i) = n + x + i
      BY <1>1
    <3>2. t[x + i] = s[n + (x + i)]
      BY <1>5, <3>1
    <3> QED
      BY <1>3, <3>1, <3>2
  <2> QED
    BY <2>4, <2>5, SeqEqual
<1>8. Left(s, n + Len(a), b)
  BY <1>7 DEF Left
<1> QED
  BY <1>4, <1>6, <1>7, <1>8

LEMMA SubSeqSnoc ==
    ASSUME NEW S, NEW s \in Seq(S), NEW n \in Nat, n < Len(s)
    PROVE  Append(SubSeq(s, 1, n), s[n + 1]) = SubSeq(s, 1, n + 1)
<1> DEFINE a == SubSeq(s, 1, n)
           b == SubSeq(s, 1, n + 1)
           c == s[n + 1]
<1>1. Len(s) \in Nat /\ n + 1 \in 1..Len(s) /\ \A i \in 1..n + 1 : i \in 1..Len(s) /\ s[i] \in S
  OBVIOUS
<1>2. a \in Seq(S) /\ Len(a) = n /\ \A i \in 1..n : a[i] = s[i]
  <2>1. 1 \in Int /\ n \in Int /\ \A i \in 1..n : s[i] \in S
    BY <1>1
  <2>2. /\ a \in Seq(S) /\ Len(a) = IF 1 <= n THEN n - 1 + 1 ELSE 0
        /\ \A i \in 1..n - 1 + 1 : a[i] = s[1 + i - 1]
    BY <2>1, SubSeqProperties
  <2> HIDE DEF a
  <2>3. n - 1 + 1 = n /\ \A i \in 1..n : 1 + i - 1 = i
    OBVIOUS
  <2> QED
    BY <2>2, <2>3
<1>3. b \in Seq(S) /\ Len(b) = n + 1 /\ \A i \in 1..n + 1 : b[i] = s[i]
  <2> DEFINE m == n + 1
  <2>1. 1 \in Int /\ m \in Nat /\ m >= 1 /\ \A i \in 1..m : s[i] \in S
    BY <1>1
  <2> HIDE DEF m
  <2>2. /\ SubSeq(s, 1, m) \in Seq(S) /\ Len(SubSeq(s, 1, m)) = IF 1 <= m THEN m - 1 + 1 ELSE 0
        /\ \A i \in 1..m - 1 + 1 : SubSeq(s, 1, m)[i] = s[1 + i - 1]
    BY <2>1, SubSeqProperties
  <2>3. m - 1 + 1 = m /\ (\A i \in 1..m : 1 + i - 1 = i) /\ b = SubSeq(s, 1, m)
    BY <2>1 DEF m
  <2> HIDE DEF b
  <2> QED
    BY <2>1, <2>2, <2>3 DEF m
<1> HIDE DEF a, b
<1>4. c \in S
  BY <1>1
<1> HIDE DEF c
<1> DEFINE d == Append(a, c)
<1>5. /\ d \in Seq(S) /\ Len(d) = n + 1 /\ d[n + 1] = c
      /\ \A i \in 1..n : d[i] = a[i]
  BY <1>2, <1>4
<1> HIDE DEF d
<1>6. \A i \in 1..n + 1 : d[i] = b[i]
  <2>1. \A i \in 1..n + 1 : i \in 1..n \/ i = n + 1
    OBVIOUS
  <2>2. n + 1 \in 1..n + 1 /\ \A i \in 1..n : i \in 1..n + 1
    OBVIOUS
  <2>3. b[n + 1] = c
    BY <1>3, <2>2 DEF c
  <2> QED
    BY <1>2, <1>3, <1>5, <2>1, <2>2, <2>3
<1>7. d = b
  BY <1>3, <1>5, <1>6, SeqEqual
<1> QED
  BY <1>7 DEF a, b, c, d

LEMMA FrontLast ==
    ASSUME NEW S, NEW s \in Seq(S), s # <<>>
    PROVE  /\ Front(s) \in Seq(S) /\ Len(Front(s)) = Len(s) - 1 /\ Last(s) = s[Len(s)]
           /\ Last(s) \in S /\ Len(s) \in Nat \ {0}
           /\ \A i \in 1..Len(s) - 1 : Front(s)[i] = s[i]
<1> DEFINE n == Len(s) - 1
<1>1. n \in Nat /\ 1 \in Int /\ Len(s) \in 1..Len(s) /\ \A i \in 1..n : s[i] \in S
  OBVIOUS
<1>2. Front(s) = SubSeq(s, 1, n)
  BY DEF Front
<1>3. Last(s) = s[Len(s)] /\ Last(s) \in S
  BY <1>1 DEF Last
<1>4. Len(s) \in Nat \ {0}
  OBVIOUS
<1> DEFINE m == n
<1> HIDE DEF m
<1>5. /\ SubSeq(s, 1, m) \in Seq(S) /\ Len(SubSeq(s, 1, m)) = IF 1 <= m THEN m - 1 + 1 ELSE 0
      /\ \A i \in 1..m - 1 + 1 : SubSeq(s, 1, m)[i] = s[1 + i - 1]
  <2>1. 1 \in Int /\ m \in Int /\ \A i \in 1..m : s[i] \in S
    BY <1>1 DEF m
  <2> QED
    BY <2>1, SubSeqProperties
<1>6. m \in Nat /\ m - 1 + 1 = m /\ \A i \in 1..m : 1 + i - 1 = i
  BY <1>1 DEF m
<1>7. /\ SubSeq(s, 1, m) \in Seq(S) /\ Len(SubSeq(s, 1, m)) = m
      /\ \A i \in 1..m : SubSeq(s, 1, m)[i] = s[i]
  BY <1>5, <1>6
<1> QED
  BY <1>2, <1>3, <1>4, <1>7 DEF m

-----------------------------------------------------------------------------
(* Where the decoder is in the response that a body encodes. *)

IsContainer(v) == IsKind("list", v) \/ IsKind("dict", v)
Parts(v) == IF IsKind("list", v) THEN ListParts(v[2]) ELSE DictParts(v[2])
Remaining(v, n) == FlattenSeq(SubSeq(Parts(v), n + 1, Len(Parts(v))))

\* A container, of whose items at have been read; rest is what follows its end.
Visits == {t \in [v : AnyValue, at : Nat, rest : Seq(Byte)] :
             IsContainer(t.v) /\ t.at <= Len(t.v[2])}

\* What follows the first n items.
After(t, n) == Remaining(t.v, n) \o (<<"e">> \o t.rest)

LEMMA Containers ==
    ASSUME NEW v \in AnyValue, IsContainer(v)
    PROVE  \/ v = List(v[2]) /\ IsKind("list", v) /\ ~IsKind("dict", v) /\ v[2] \in Seq(AnyValue)
           \/ /\ v = Dict(v[2]) /\ IsKind("dict", v) /\ ~IsKind("list", v)
              /\ v[2] \in Seq(Entries) /\ DistinctKeys(v[2])
<1>1. v \in ValuesOf(AnyValue)
  BY PartsAreValues
<1>2. \/ \E n \in Int : v = Number(n)
      \/ \E s \in Seq(STRING) : v = Bytes(s)
      \/ \E s \in Seq(AnyValue) : v = List(s)
      \/ \E s \in Seq(Texts \X AnyValue) : DistinctKeys(s) /\ v = Dict(s)
  BY <1>1, ValueIs
<1>3. \A x : /\ ~IsContainer(Number(x)) /\ ~IsContainer(Bytes(x))
             /\ List(x)[2] = x /\ Dict(x)[2] = x
             /\ IsKind("list", List(x)) /\ ~IsKind("dict", List(x))
             /\ IsKind("dict", Dict(x)) /\ ~IsKind("list", Dict(x))
  BY DEF IsContainer, IsKind, Number, Bytes, List, Dict
<1>4. CASE \E s \in Seq(AnyValue) : v = List(s)
  BY <1>3, <1>4
<1>5. CASE \E s \in Seq(Texts \X AnyValue) : DistinctKeys(s) /\ v = Dict(s)
  BY <1>3, <1>5 DEF Entries
<1> QED
  BY <1>2, <1>3, <1>4, <1>5

LEMMA PartsOf ==
    ASSUME NEW v \in AnyValue, IsContainer(v)
    PROVE  /\ Parts(v) \in Seq(Seq(Byte)) /\ Len(Parts(v)) = Len(v[2]) /\ Len(v[2]) \in Nat
           /\ \A i \in 1..Len(v[2]) :
                 Parts(v)[i] = IF IsKind("list", v) THEN Encode(v[2][i])
                               ELSE Encode(v[2][i][1]) \o Encode(v[2][i][2])
<1>1. CASE IsKind("list", v)
  <2>1. v[2] \in Seq(AnyValue) /\ Parts(v) = ListParts(v[2])
    BY <1>1, Containers DEF Parts
  <2>2. ListParts(v[2]) \in Seq(Seq(Byte)) /\ Len(ListParts(v[2])) = Len(v[2])
    BY <2>1, PartsTyped
  <2>3. DOMAIN v[2] = 1..Len(v[2]) /\ Len(v[2]) \in Nat
    BY <2>1
  <2>4. \A i \in 1..Len(v[2]) : ListParts(v[2])[i] = Encode(v[2][i])
    BY <2>3 DEF ListParts
  <2> QED
    BY <1>1, <2>1, <2>2, <2>3, <2>4
<1>2. CASE ~IsKind("list", v)
  <2>1. v[2] \in Seq(Entries) /\ Parts(v) = DictParts(v[2])
    BY <1>2, Containers DEF Parts
  <2>2. DictParts(v[2]) \in Seq(Seq(Byte)) /\ Len(DictParts(v[2])) = Len(v[2])
    BY <2>1, PartsTyped
  <2>3. DOMAIN v[2] = 1..Len(v[2]) /\ Len(v[2]) \in Nat
    BY <2>1
  <2>4. \A i \in 1..Len(v[2]) : DictParts(v[2])[i] = Encode(v[2][i][1]) \o Encode(v[2][i][2])
    BY <2>3 DEF DictParts
  <2> QED
    BY <1>2, <2>1, <2>2, <2>3, <2>4
<1> QED
  BY <1>1, <1>2

LEMMA RemainingIs ==
    ASSUME NEW v \in AnyValue, IsContainer(v), NEW n \in 0..Len(v[2])
    PROVE  /\ Remaining(v, n) \in Seq(Byte)
           /\ n = Len(v[2]) => Remaining(v, n) = <<>>
           /\ n < Len(v[2]) => Remaining(v, n) = Parts(v)[n + 1] \o Remaining(v, n + 1)
<1> DEFINE p == Parts(v)
           m == Len(p)
           r(k) == SubSeq(p, k + 1, m)
<1>1. p \in Seq(Seq(Byte)) /\ m = Len(v[2]) /\ m \in Nat
  BY PartsOf
<1> HIDE DEF p
<1>2. \A i \in 1..m : p[i] \in Seq(Byte)
  BY <1>1
<1> HIDE DEF m
<1>3. ASSUME NEW k \in Nat
      PROVE  r(k) \in Seq(Seq(Byte))
  <2> DEFINE l == k + 1
  <2>1. l \in Int /\ m \in Int /\ \A i \in l..m : p[i] \in Seq(Byte)
    BY <1>1, <1>2
  <2> HIDE DEF l
  <2>2. SubSeq(p, l, m) \in Seq(Seq(Byte))
    BY <2>1, SubSeqProperties
  <2> QED
    BY <2>2 DEF l
<1>4. ASSUME NEW k \in Nat
      PROVE  Remaining(v, k) = FlattenSeq(r(k)) /\ Remaining(v, k) \in Seq(Byte)
  <2>1. Remaining(v, k) = FlattenSeq(r(k))
    BY DEF Remaining, p, m
  <2> QED
    BY <1>3, <2>1, FlattenType
<1>5. n = m => Remaining(v, n) = <<>>
  <2> SUFFICES ASSUME n = m
               PROVE  Remaining(v, n) = <<>>
    OBVIOUS
  <2> DEFINE l == n + 1
  <2>1. l \in Int /\ m \in Int /\ m < l
    BY <1>1
  <2> HIDE DEF l
  <2>2. SubSeq(p, l, m) = <<>>
    BY <2>1, SubSeqEmpty
  <2>3. r(n) = <<>> /\ n \in Nat
    BY <2>2 DEF l
  <2> QED
    BY <1>4, <2>3, FlattenEmpty
<1>6. n < m => Remaining(v, n) = p[n + 1] \o Remaining(v, n + 1)
  <2> SUFFICES ASSUME n < m
               PROVE  Remaining(v, n) = p[n + 1] \o Remaining(v, n + 1)
    OBVIOUS
  <2> DEFINE l == n + 1
  <2>1. l \in 1..Len(p) /\ m \in l..Len(p) /\ l \in Nat /\ n \in Nat
    BY <1>1 DEF m
  <2> HIDE DEF l
  <2>2. SubSeq(p, l, m) = <<p[l]>> \o SubSeq(p, l + 1, m)
    BY <1>1, <2>1, SubSeqRecursiveFirst
  <2>3. r(n) = <<p[l]>> \o r(l)
    BY <2>2 DEF l
  <2>4. p[l] \in Seq(Byte) /\ r(l) \in Seq(Seq(Byte))
    BY <1>2, <1>3, <2>1 DEF m
  <2>5. Remaining(v, n) = FlattenSeq(r(n)) /\ Remaining(v, l) = FlattenSeq(r(l))
    BY <1>4, <2>1
  <2> HIDE DEF r
  <2>6. FlattenSeq(r(n)) = p[l] \o FlattenSeq(r(l))
    BY <2>3, <2>4, FlattenCons
  <2> QED
    BY <2>5, <2>6 DEF l
<1>7. n \in Nat /\ Remaining(v, n) \in Seq(Byte)
  BY <1>4
<1> QED
  BY <1>1, <1>5, <1>6, <1>7 DEF p

LEMMA AfterIs ==
    ASSUME NEW t \in Visits, NEW n \in 0..Len(t.v[2])
    PROVE  /\ After(t, n) \in Seq(Byte)
           /\ n = Len(t.v[2]) => After(t, n) = <<"e">> \o t.rest
           /\ n < Len(t.v[2]) => After(t, n) = Parts(t.v)[n + 1] \o After(t, n + 1)
<1> DEFINE end == <<"e">> \o t.rest
           x == Remaining(t.v, n)
           y == Remaining(t.v, n + 1)
           p == Parts(t.v)[n + 1]
<1>1. t.v \in AnyValue /\ IsContainer(t.v) /\ t.rest \in Seq(Byte)
  BY DEF Visits
<1>2. end \in Seq(Byte)
  <2>1. <<"e">> \in Seq(Byte)
    BY StructureBytes DEF Structure
  <2> QED
    BY <1>1, <2>1, ConcatParts
<1>3. Len(t.v[2]) \in Nat
  BY <1>1, PartsOf
<1>4. /\ x \in Seq(Byte)
      /\ n = Len(t.v[2]) => x = <<>>
      /\ n < Len(t.v[2]) => x = p \o y
  BY <1>1, RemainingIs
<1>5. n < Len(t.v[2]) => y \in Seq(Byte) /\ p \in Seq(Byte)
  <2> SUFFICES ASSUME n < Len(t.v[2])
               PROVE  y \in Seq(Byte) /\ p \in Seq(Byte)
    OBVIOUS
  <2>1. n + 1 \in 0..Len(t.v[2]) /\ n + 1 \in 1..Len(Parts(t.v))
    BY <1>1, <1>3, PartsOf
  <2>2. Parts(t.v) \in Seq(Seq(Byte))
    BY <1>1, PartsOf
  <2>3. p \in Seq(Byte)
    BY <2>1, <2>2
  <2> DEFINE l == n + 1
  <2>4. l \in 0..Len(t.v[2])
    BY <2>1
  <2> HIDE DEF l
  <2>5. Remaining(t.v, l) \in Seq(Byte)
    BY <1>1, <2>4, RemainingIs
  <2> QED
    BY <2>3, <2>5 DEF l
<1>6. After(t, n) = x \o end /\ After(t, n + 1) = y \o end
  BY DEF After
<1> HIDE DEF end, x, y, p
<1>7. After(t, n) \in Seq(Byte)
  BY <1>2, <1>4, <1>6, ConcatParts
<1>8. n = Len(t.v[2]) => After(t, n) = end
  BY <1>2, <1>4, <1>6, ConcatEmptySeq
<1>9. n < Len(t.v[2]) => After(t, n) = p \o After(t, n + 1)
  <2> SUFFICES ASSUME n < Len(t.v[2])
               PROVE  After(t, n) = p \o After(t, n + 1)
    OBVIOUS
  <2>1. p \in Seq(Byte) /\ y \in Seq(Byte) /\ end \in Seq(Byte)
    BY <1>2, <1>5
  <2>2. (p \o y) \o end = p \o (y \o end)
    BY <2>1, ConcatAssociative
  <2> QED
    BY <1>4, <1>6, <2>2
<1> QED
  BY <1>7, <1>8, <1>9 DEF end, p

\* The encoding of a container is its token and what follows none of its items.
LEMMA ContainerOpens ==
    ASSUME NEW t \in Visits
    PROVE  Encode(t.v) \o t.rest
             = <<IF IsKind("dict", t.v) THEN "d" ELSE "l">> \o After(t, 0)
<1> DEFINE c == <<IF IsKind("dict", t.v) THEN "d" ELSE "l">>
           x == Remaining(t.v, 0)
           e == <<"e">>
<1>1. t.v \in AnyValue /\ IsContainer(t.v) /\ t.rest \in Seq(Byte)
  BY DEF Visits
<1>2. c \in Seq(Byte) /\ e \in Seq(Byte)
  BY StructureBytes DEF Structure
<1>3. Len(t.v[2]) \in Nat /\ Parts(t.v) \in Seq(Seq(Byte))
  BY <1>1, PartsOf
<1>4. x \in Seq(Byte)
  <2>1. 0 \in 0..Len(t.v[2])
    BY <1>3
  <2> QED
    BY <1>1, <2>1, RemainingIs
<1>5. x = FlattenSeq(Parts(t.v))
  <2>1. SubSeq(Parts(t.v), 0 + 1, Len(Parts(t.v))) = Parts(t.v)
    BY <1>3, SubSeqFull
  <2> QED
    BY <2>1 DEF Remaining
<1>6. Encode(t.v) = c \o x \o e
  <2>1. CASE IsKind("list", t.v)
    <3>1. t.v = List(t.v[2]) /\ ~IsKind("dict", t.v)
      BY <1>1, <2>1, Containers
    <3>2. Encode(List(t.v[2])) = <<"l">> \o FlattenSeq(ListParts(t.v[2])) \o <<"e">>
      BY <1>1, <3>1, EncodeList
    <3> QED
      BY <1>5, <2>1, <3>1, <3>2 DEF Parts
  <2>2. CASE ~IsKind("list", t.v)
    <3>1. t.v = Dict(t.v[2]) /\ IsKind("dict", t.v) /\ t.v[2] \in Seq(Entries)
      BY <1>1, <2>2, Containers
    <3>2. Encode(Dict(t.v[2])) = <<"d">> \o FlattenSeq(DictParts(t.v[2])) \o <<"e">>
      BY <1>1, <3>1, EncodeDict
    <3> QED
      BY <1>5, <2>2, <3>1, <3>2 DEF Parts
  <2> QED
    BY <2>1, <2>2
<1>7. After(t, 0) = x \o (e \o t.rest)
  BY DEF After
<1> HIDE DEF c, x, e
<1> DEFINE rest == t.rest
<1>8. rest \in Seq(Byte)
  BY <1>1
<1> HIDE DEF rest
<1>9. ((c \o x) \o e) \o rest = c \o (x \o (e \o rest))
  <2> DEFINE y == c \o x
             z == e \o rest
  <2>1. y \in Seq(Byte) /\ z \in Seq(Byte)
    BY <1>2, <1>4, <1>8, ConcatParts
  <2> HIDE DEF z
  <2>2. (c \o x) \o z = c \o (x \o z)
    BY <1>2, <1>4, <2>1, ConcatAssociative
  <2> HIDE DEF y
  <2>3. (y \o e) \o rest = y \o (e \o rest)
    BY <1>2, <1>8, <2>1, ConcatAssociative
  <2> QED
    BY <2>2, <2>3 DEF y, z
<1> QED
  BY <1>6, <1>7, <1>9 DEF c, rest

-----------------------------------------------------------------------------
(* The stack of the decoder, and the containers its frames stand for. *)

\* The frame of a container, with the key that waits for its value, if there is one.
FrameOf(t, key) == [kind |-> t.v[1], key |-> key, items |-> SubSeq(t.v[2], 1, t.at)]
AnyFrame == {FrameOf(t, key) : t \in Visits, key \in {NoKey} \cup Texts}

Inside(f, t) ==
    /\ f = FrameOf(t, f.key)
    /\ f.key # NoKey => /\ IsKind("dict", t.v) /\ t.at < Len(t.v[2])
                        /\ f.key = t.v[2][t.at + 1][1]

\* The container waits for v, which rest follows.
Expects(f, t, v, rest) ==
    /\ t.at < Len(t.v[2])
    /\ LET item == t.v[2][t.at + 1]
           after == After(t, t.at + 1)
       IN \/ IsKind("list", t.v) /\ v = item /\ rest = after
          \/ /\ IsKind("dict", t.v) /\ f.key = NoKey
             /\ v = item[1] /\ rest = Encode(item[2]) \o after
          \/ IsKind("dict", t.v) /\ f.key # NoKey /\ v = item[2] /\ rest = after

\* The same of the n-th container, or of the response itself.
ExpectedBy(r, fs, w, n, v, rest) ==
    IF n = 0 THEN v = r /\ rest = <<>> ELSE Expects(fs[n], w[n], v, rest)

Nested(r, fs, w) ==
    /\ fs \in Seq(AnyFrame) /\ w \in Seq(Visits) /\ Len(w) = Len(fs)
    /\ \A k \in 1..Len(fs) :
          Inside(fs[k], w[k]) /\ ExpectedBy(r, fs, w, k - 1, w[k].v, w[k].rest)

LEMMA Pushed ==
    ASSUME NEW r, NEW fs, NEW w, NEW f \in AnyFrame, NEW t \in Visits,
           Nested(r, fs, w), Inside(f, t), ExpectedBy(r, fs, w, Len(fs), t.v, t.rest)
    PROVE  Nested(r, Append(fs, f), Append(w, t))
<1> DEFINE gs == Append(fs, f)
           x == Append(w, t)
           n == Len(fs)
<1>1. fs \in Seq(AnyFrame) /\ w \in Seq(Visits) /\ Len(w) = n
  BY DEF Nested
<1>2. n \in Nat /\ gs \in Seq(AnyFrame) /\ x \in Seq(Visits) /\ Len(gs) = n + 1 /\ Len(x) = n + 1
      /\ gs[n + 1] = f /\ x[n + 1] = t /\ \A k \in 1..n : gs[k] = fs[k] /\ x[k] = w[k]
  BY <1>1
<1>3. ASSUME NEW k \in 1..n
      PROVE  Inside(fs[k], w[k]) /\ ExpectedBy(r, fs, w, k - 1, w[k].v, w[k].rest)
  BY <1>3 DEF Nested
<1> HIDE DEF gs, x, n
<1>4. ASSUME NEW k \in 0..n, NEW v, NEW rest
      PROVE  ExpectedBy(r, gs, x, k, v, rest) <=> ExpectedBy(r, fs, w, k, v, rest)
  <2>1. k # 0 => k \in 1..n
    BY <1>2
  <2> QED
    BY <1>2, <2>1 DEF ExpectedBy
<1>5. ASSUME NEW k \in 1..n + 1
      PROVE  Inside(gs[k], x[k]) /\ ExpectedBy(r, gs, x, k - 1, x[k].v, x[k].rest)
  <2>1. CASE k \in 1..n
    <3>1. k - 1 \in 0..n
      BY <1>2
    <3> QED
      BY <1>2, <1>3, <1>4, <2>1, <3>1
  <2>2. CASE k = n + 1
    <3>1. k - 1 = n /\ n \in 0..n
      BY <1>2, <2>2
    <3>2. ExpectedBy(r, gs, x, n, t.v, t.rest)
      BY <1>4, <3>1 DEF n
    <3> QED
      BY <1>2, <2>2, <3>1, <3>2
  <2> QED
    BY <1>2, <2>1, <2>2
<1> QED
  BY <1>2, <1>5 DEF Nested, gs, x

LEMMA Popped ==
    ASSUME NEW r, NEW fs, NEW w, Nested(r, fs, w), fs # <<>>
    PROVE  /\ Nested(r, Front(fs), Front(w))
           /\ Last(fs) \in AnyFrame /\ Last(w) \in Visits /\ Inside(Last(fs), Last(w))
           /\ ExpectedBy(r, Front(fs), Front(w), Len(Front(fs)), Last(w).v, Last(w).rest)
<1> DEFINE n == Len(fs) - 1
           gs == Front(fs)
           x == Front(w)
<1>1. fs \in Seq(AnyFrame) /\ w \in Seq(Visits) /\ Len(w) = Len(fs) /\ w # <<>>
  BY DEF Nested
<1>2. /\ gs \in Seq(AnyFrame) /\ Len(gs) = n /\ Last(fs) = fs[n + 1] /\ Last(fs) \in AnyFrame
      /\ n \in Nat /\ \A k \in 1..n : gs[k] = fs[k]
  <2>1. /\ Front(fs) \in Seq(AnyFrame) /\ Len(Front(fs)) = Len(fs) - 1
        /\ Last(fs) = fs[Len(fs)]
        /\ Last(fs) \in AnyFrame /\ Len(fs) \in Nat \ {0}
        /\ \A i \in 1..Len(fs) - 1 : Front(fs)[i] = fs[i]
    BY <1>1, FrontLast
  <2>2. n + 1 = Len(fs)
    BY <2>1
  <2> QED
    BY <2>1, <2>2
<1>3. /\ x \in Seq(Visits) /\ Len(x) = n /\ Last(w) = w[n + 1] /\ Last(w) \in Visits
      /\ \A k \in 1..n : x[k] = w[k]
  <2>1. /\ Front(w) \in Seq(Visits) /\ Len(Front(w)) = Len(w) - 1 /\ Last(w) = w[Len(w)]
        /\ Last(w) \in Visits /\ Len(w) \in Nat \ {0}
        /\ \A i \in 1..Len(w) - 1 : Front(w)[i] = w[i]
    BY <1>1, FrontLast
  <2>2. n + 1 = Len(w) /\ n = Len(w) - 1
    BY <1>1, <2>1
  <2> QED
    BY <1>1, <2>1, <2>2
<1>4. \A k \in 1..n + 1 :
          Inside(fs[k], w[k]) /\ ExpectedBy(r, fs, w, k - 1, w[k].v, w[k].rest)
  <2>1. n + 1 = Len(fs)
    BY <1>1
  <2> QED
    BY <2>1 DEF Nested
<1> HIDE DEF gs, x, n
<1>5. ASSUME NEW k \in 0..n, NEW v, NEW rest
      PROVE  ExpectedBy(r, gs, x, k, v, rest) <=> ExpectedBy(r, fs, w, k, v, rest)
  <2>1. k # 0 => k \in 1..n
    BY <1>2
  <2> QED
    BY <1>2, <1>3, <2>1 DEF ExpectedBy
<1>6. ASSUME NEW k \in 1..n
      PROVE  Inside(gs[k], x[k]) /\ ExpectedBy(r, gs, x, k - 1, x[k].v, x[k].rest)
  <2>1. k \in 1..n + 1 /\ k - 1 \in 0..n
    BY <1>2
  <2>2. gs[k] = fs[k] /\ x[k] = w[k]
    BY <1>2, <1>3
  <2> QED
    BY <1>4, <1>5, <2>1, <2>2
<1>7. Inside(Last(fs), Last(w)) /\ ExpectedBy(r, gs, x, n, Last(w).v, Last(w).rest)
  <2>1. n + 1 \in 1..n + 1 /\ (n + 1) - 1 = n /\ n \in 0..n
    BY <1>2
  <2> QED
    BY <1>2, <1>3, <1>4, <1>5, <2>1
<1> QED
  BY <1>2, <1>3, <1>6, <1>7 DEF Nested, gs, x

LEMMA AppendLast ==
    ASSUME NEW S, NEW s \in Seq(S), NEW e \in S
    PROVE  LET a == Append(s, e)
           IN  a # <<>> /\ Len(a) # 0 /\ a[Len(a)] = e /\ Last(a) = e
<1> DEFINE a == Append(s, e)
<1>1. Len(a) = Len(s) + 1 /\ a[Len(s) + 1] = e /\ Len(s) \in Nat /\ a # <<>>
  OBVIOUS
<1> HIDE DEF a
<1>2. Len(a) # 0 /\ a[Len(a)] = e
  BY <1>1
<1> QED
  BY <1>1, <1>2 DEF a, Last

\* f is the innermost frame of fs, and t the container it stands for.
Innermost(r, fs, w, f, t) == Nested(r, fs, w) /\ fs # <<>> /\ Last(fs) = f /\ Last(w) = t

\* What the innermost container has changes, and nothing around it.
LEMMA Replaced ==
    ASSUME NEW r, NEW fs, NEW w, Nested(r, fs, w), fs # <<>>,
           NEW f \in AnyFrame, NEW t \in Visits, Inside(f, t),
           t.v = Last(w).v, t.rest = Last(w).rest
    PROVE  Innermost(r, Append(Front(fs), f), Append(Front(w), t), f, t)
<1>1. /\ Nested(r, Front(fs), Front(w))
      /\ ExpectedBy(r, Front(fs), Front(w), Len(Front(fs)), Last(w).v, Last(w).rest)
  BY Popped
<1>2. Nested(r, Append(Front(fs), f), Append(Front(w), t))
  BY <1>1, Pushed
<1>3. Front(fs) \in Seq(AnyFrame) /\ Front(w) \in Seq(Visits)
  BY <1>1 DEF Nested
<1>4. /\ Append(Front(fs), f) # <<>> /\ Last(Append(Front(fs), f)) = f
      /\ Last(Append(Front(w), t)) = t
  BY <1>3, AppendLast
<1> QED
  BY <1>2, <1>4 DEF Innermost

\* The innermost container is the one that waits.
LEMMA Waiting ==
    ASSUME NEW r, NEW fs, NEW w, NEW v, NEW rest, Nested(r, fs, w), fs # <<>>,
           ExpectedBy(r, fs, w, Len(fs), v, rest)
    PROVE  Expects(Last(fs), Last(w), v, rest)
<1>1. fs \in Seq(AnyFrame) /\ Len(w) = Len(fs)
  BY DEF Nested
<1>2. Len(fs) # 0
  BY <1>1
<1> QED
  BY <1>1, <1>2 DEF ExpectedBy, Last

-----------------------------------------------------------------------------
(* A value is returned. *)

\* With the index i, the stack fs and the program counter pc, the decoder is in the
\* response r where it should be, or has decoded it to d.
OnTrack(r, fs, i, pc, d) ==
    LET Rest(b) == Left(Encode(r), i, b)
    IN \E w :
         /\ Nested(r, fs, w)
         /\ pc = "decode" =>
               \E v \in AnyValue, rest \in Seq(Byte) :
                  ExpectedBy(r, fs, w, Len(fs), v, rest) /\ Rest(Encode(v) \o rest)
         /\ pc = "loop" => /\ fs # <<>> /\ Last(fs).key = NoKey
                           /\ Rest(After(Last(w), Last(w).at))
         /\ pc = "done" => d = r /\ Rest(<<>>)

Next1(t) == [t EXCEPT !.at = @ + 1]

LEMMA NextItem ==
    ASSUME NEW t \in Visits, t.at < Len(t.v[2])
    PROVE  /\ Next1(t) \in Visits /\ Next1(t).v = t.v /\ Next1(t).rest = t.rest
           /\ Next1(t).at = t.at + 1
           /\ Append(SubSeq(t.v[2], 1, t.at), t.v[2][t.at + 1]) = SubSeq(t.v[2], 1, t.at + 1)
           /\ After(t, t.at + 1) \in Seq(Byte)
           /\ After(Next1(t), Next1(t).at) = After(t, t.at + 1)
<1>1. t.v \in AnyValue /\ IsContainer(t.v) /\ t.at \in Nat /\ Len(t.v[2]) \in Nat
  BY PartsOf DEF Visits
<1>2. t.at + 1 \in 0..Len(t.v[2])
  BY <1>1
<1>3. Next1(t) \in Visits /\ Next1(t).v = t.v /\ Next1(t).rest = t.rest /\ Next1(t).at = t.at + 1
  BY <1>1 DEF Next1, Visits
<1>4. \E S : t.v[2] \in Seq(S)
  BY <1>1, Containers
<1>5. Append(SubSeq(t.v[2], 1, t.at), t.v[2][t.at + 1]) = SubSeq(t.v[2], 1, t.at + 1)
  BY <1>1, <1>4, SubSeqSnoc
<1> QED
  BY <1>2, <1>3, <1>5, AfterIs DEF After

\* A frame with another field.
LEMMA WithItem ==
    ASSUME NEW a, NEW b, NEW c, NEW x
    PROVE  LET f == [kind |-> a, key |-> b, items |-> c]
           IN  [f EXCEPT !.items = Append(@, x)]
                 = [kind |-> a, key |-> b, items |-> Append(c, x)]
<1> DEFINE f == [kind |-> a, key |-> b, items |-> c]
           d == Append(c, x)
<1>1. Append(f.items, x) = d
  OBVIOUS
<1> HIDE DEF d
<1>2. [f EXCEPT !.items = d] = [kind |-> a, key |-> b, items |-> d]
  OBVIOUS
<1>3. [f EXCEPT !.items = Append(@, x)] = [f EXCEPT !.items = d]
  BY <1>1, Zenon
<1> QED
  BY <1>2, <1>3 DEF d

LEMMA WithKey ==
    ASSUME NEW a, NEW b, NEW c, NEW x
    PROVE  LET f == [kind |-> a, key |-> b, items |-> c]
           IN  [f EXCEPT !.key = x] = [kind |-> a, key |-> x, items |-> c]
  OBVIOUS

LEMMA FrameParts ==
    ASSUME NEW t, NEW key
    PROVE  /\ FrameOf(t, key).kind = t.v[1] /\ FrameOf(t, key).key = key
           /\ FrameOf(t, key).items = SubSeq(t.v[2], 1, t.at)
  BY DEF FrameOf

\* The item a container waited for comes.
LEMMA ListGrows ==
    ASSUME NEW r, NEW fs, NEW w, Nested(r, fs, w), fs # <<>>,
           IsKind("list", Last(w).v), Last(w).at < Len(Last(w).v[2])
    PROVE  LET f == Last(fs)
               t == Last(w)
               g == [f EXCEPT !.items = Append(@, t.v[2][t.at + 1])]
           IN  /\ f.kind = "list" /\ g.key = NoKey
               /\ Innermost(r, Append(Front(fs), g), Append(Front(w), Next1(t)), g, Next1(t))
<1> DEFINE f == Last(fs)
           t == Last(w)
           g == [f EXCEPT !.items = Append(@, t.v[2][t.at + 1])]
<1>1. f \in AnyFrame /\ t \in Visits /\ Inside(f, t)
  BY Popped
<1>2. IsKind("list", t.v) /\ t.at < Len(t.v[2])
  OBVIOUS
<1>3. f = FrameOf(t, NoKey)
  BY <1>1, <1>2 DEF Inside, IsKind
<1>4. /\ Next1(t) \in Visits /\ Next1(t).v = t.v /\ Next1(t).rest = t.rest
      /\ Next1(t).at = t.at + 1
      /\ Append(SubSeq(t.v[2], 1, t.at), t.v[2][t.at + 1]) = SubSeq(t.v[2], 1, t.at + 1)
  BY <1>1, <1>2, NextItem
<1> HIDE DEF f, t
<1>5. g = FrameOf(Next1(t), NoKey) /\ f.kind = "list"
  <2> DEFINE c == SubSeq(t.v[2], 1, t.at)
             x == t.v[2][t.at + 1]
  <2>1. f = [kind |-> t.v[1], key |-> NoKey, items |-> c]
    BY <1>3, Zenon DEF FrameOf
  <2>2. g = [kind |-> t.v[1], key |-> NoKey, items |-> Append(c, x)]
    <3> DEFINE a == t.v[1]
               b == NoKey
    <3> HIDE DEF a, b, c, x
    <3>1. [[kind |-> a, key |-> b, items |-> c] EXCEPT !.items = Append(@, x)]
            = [kind |-> a, key |-> b, items |-> Append(c, x)]
      BY WithItem
    <3> USE DEF a, b, c, x
    <3> QED
      BY <2>1, <3>1, Zenon
  <2>3. FrameOf(Next1(t), NoKey) = [kind |-> t.v[1], key |-> NoKey, items |-> Append(c, x)]
    BY <1>4, Zenon DEF FrameOf
  <2>4. f.kind = "list"
    BY <1>2, <1>3, FrameParts DEF IsKind
  <2> QED
    BY <2>2, <2>3, <2>4, Zenon
<1> HIDE DEF g
<1>6. Inside(g, Next1(t)) /\ g \in AnyFrame /\ g.key = NoKey
  BY <1>4, <1>5, FrameParts DEF Inside, AnyFrame
<1>7. Innermost(r, Append(Front(fs), g), Append(Front(w), Next1(t)), g, Next1(t))
  BY <1>4, <1>6, Replaced DEF t
<1> QED
  BY <1>5, <1>6, <1>7 DEF f, t, g

LEMMA DictGrows ==
    ASSUME NEW r, NEW fs, NEW w, Nested(r, fs, w), fs # <<>>,
           IsKind("dict", Last(w).v), Last(w).at < Len(Last(w).v[2]), Last(fs).key # NoKey
    PROVE  LET f == Last(fs)
               t == Last(w)
               item == t.v[2][t.at + 1][2]
               g == [f EXCEPT !.key = NoKey, !.items = PutPair(@, f.key, item)]
           IN  /\ f.kind = "dict" /\ g.key = NoKey
               /\ Innermost(r, Append(Front(fs), g), Append(Front(w), Next1(t)), g, Next1(t))
<1> DEFINE f == Last(fs)
           t == Last(w)
           pairs == t.v[2]
           n == t.at
           pair == pairs[n + 1]
           g == [f EXCEPT !.key = NoKey, !.items = PutPair(@, f.key, pair[2])]
<1>1. f \in AnyFrame /\ t \in Visits /\ Inside(f, t)
  BY Popped
<1>2. IsKind("dict", t.v) /\ n < Len(pairs) /\ f.key # NoKey
  OBVIOUS
<1>3. f = FrameOf(t, f.key) /\ f.key = pair[1]
  BY <1>1, <1>2 DEF Inside
<1>4. /\ Next1(t) \in Visits /\ Next1(t).v = t.v /\ Next1(t).rest = t.rest
      /\ Next1(t).at = n + 1
      /\ Append(SubSeq(pairs, 1, n), pair) = SubSeq(pairs, 1, n + 1)
  BY <1>1, <1>2, NextItem
<1>5. t.v \in AnyValue /\ IsContainer(t.v) /\ n \in Nat
  BY <1>1 DEF Visits
<1>6. pairs \in Seq(Entries) /\ DistinctKeys(pairs)
  BY <1>2, <1>5, Containers
<1> HIDE DEF pairs, n
<1>7. pair = <<pair[1], pair[2]>>
  <2>1. n + 1 \in 1..Len(pairs)
    BY <1>2, <1>5, <1>6
  <2>2. pair \in Entries
    BY <1>6, <2>1
  <2> QED
    BY <2>2 DEF Entries
<1>8. ~Has(SubSeq(pairs, 1, n), pair[1])
  <2> DEFINE s == SubSeq(pairs, 1, n)
  <2>1. \A i \in 1..n : i \in 1..Len(pairs) /\ pairs[i] \in Entries
    BY <1>2, <1>5, <1>6
  <2>2. /\ s \in Seq(Entries) /\ Len(s) = IF 1 <= n THEN n - 1 + 1 ELSE 0
        /\ \A i \in 1..n - 1 + 1 : s[i] = pairs[1 + i - 1]
    <3>1. 1 \in Int /\ n \in Int
      BY <1>5
    <3> QED
      BY <2>1, <3>1, SubSeqProperties
  <2> HIDE DEF s
  <2>3. n - 1 + 1 = n /\ \A i \in 1..n : 1 + i - 1 = i
    BY <1>5
  <2>4. DOMAIN s = 1..n /\ \A i \in 1..n : s[i] = pairs[i]
    BY <1>5, <2>2, <2>3
  <2>5. ASSUME NEW i \in 1..n, pairs[i][1] = pair[1]
        PROVE  FALSE
    <3>1. i \in DOMAIN pairs /\ n + 1 \in DOMAIN pairs /\ i # n + 1
      BY <1>2, <1>5, <1>6, <2>1
    <3> QED
      BY <1>6, <2>5, <3>1 DEF DistinctKeys
  <2> QED
    BY <2>4, <2>5 DEF Has, s
<1>9. PutPair(SubSeq(pairs, 1, n), pair[1], pair[2]) = SubSeq(pairs, 1, n + 1)
  BY <1>4, <1>7, <1>8 DEF PutPair
<1> HIDE DEF f, t, pair
<1>10. g = FrameOf(Next1(t), NoKey) /\ f.kind = "dict"
  <2> DEFINE c == SubSeq(pairs, 1, n)
             old == [kind |-> t.v[1], key |-> pair[1], items |-> c]
             new == [kind |-> t.v[1], key |-> NoKey, items |-> SubSeq(pairs, 1, n + 1)]
  <2>1. f = old
    BY <1>3, Zenon DEF FrameOf, pairs, n
  <2>2. g = new
    <3> DEFINE a == t.v[1]
               b == pair[1]
               x == NoKey
               y == pair[2]
               g1 == [kind |-> a, key |-> b, items |-> c]
    <3> HIDE DEF a, b, c, x, y
    <3>1. [g1 EXCEPT !.key = x, !.items = PutPair(@, g1.key, y)]
            = [kind |-> a, key |-> x, items |-> PutPair(c, b, y)]
      <4> DEFINE p == PutPair(c, b, y)
                 g2 == [kind |-> a, key |-> x, items |-> c]
      <4>1. g1.items = c /\ g1.key = b
        OBVIOUS
      <4>2. PutPair(g1.items, g1.key, y) = p
        BY <4>1
      <4> HIDE DEF p
      <4>3. [g1 EXCEPT !.key = x] = g2
        OBVIOUS
      <4>4. [g2 EXCEPT !.items = p] = [kind |-> a, key |-> x, items |-> p]
        OBVIOUS
      <4>5. [g1 EXCEPT !.key = x, !.items = p] = [kind |-> a, key |-> x, items |-> p]
        BY <4>3, <4>4, Zenon
      <4>6. [g1 EXCEPT !.key = x, !.items = PutPair(@, g1.key, y)]
              = [g1 EXCEPT !.key = x, !.items = p]
        BY <4>2, Zenon
      <4> QED
        BY <4>5, <4>6 DEF p
    <3> USE DEF a, b, c, x, y
    <3> QED
      BY <1>9, <2>1, <3>1, Zenon
  <2>3. FrameOf(Next1(t), NoKey) = new
    BY <1>4, Zenon DEF FrameOf, pairs
  <2>4. f.kind = "dict"
    BY <1>2, <1>3, FrameParts DEF IsKind
  <2> QED
    BY <2>2, <2>3, <2>4, Zenon
<1> HIDE DEF g
<1>11. Inside(g, Next1(t)) /\ g \in AnyFrame /\ g.key = NoKey
  BY <1>4, <1>10, FrameParts DEF Inside, AnyFrame
<1>12. Innermost(r, Append(Front(fs), g), Append(Front(w), Next1(t)), g, Next1(t))
  BY <1>4, <1>11, Replaced DEF t
<1> QED
  BY <1>10, <1>11, <1>12 DEF f, t, g, pair, pairs, n

LEMMA KeyComes ==
    ASSUME NEW r, NEW fs, NEW w, Nested(r, fs, w), fs # <<>>,
           IsKind("dict", Last(w).v), Last(w).at < Len(Last(w).v[2]), Last(fs).key = NoKey
    PROVE  LET f == Last(fs)
               t == Last(w)
               key == t.v[2][t.at + 1][1]
               g == [f EXCEPT !.key = key]
           IN  /\ f.kind = "dict" /\ IsKind("bytes", key) /\ g.key # NoKey
               /\ t.v[2][t.at + 1][2] \in AnyValue
               /\ Innermost(r, Append(Front(fs), g), Append(Front(w), t), g, t)
<1> DEFINE f == Last(fs)
           t == Last(w)
           pair == t.v[2][t.at + 1]
           g == [f EXCEPT !.key = pair[1]]
<1>1. f \in AnyFrame /\ t \in Visits /\ Inside(f, t)
  BY Popped
<1>2. IsKind("dict", t.v) /\ t.at < Len(t.v[2]) /\ f.key = NoKey
  OBVIOUS
<1>3. f = FrameOf(t, NoKey)
  BY <1>1, <1>2 DEF Inside
<1>4. t.v \in AnyValue /\ IsContainer(t.v) /\ t.at \in Nat
  BY <1>1 DEF Visits
<1>5. pair \in Entries
  <2>1. t.v[2] \in Seq(Entries)
    BY <1>2, <1>4, Containers
  <2>2. t.at + 1 \in 1..Len(t.v[2])
    BY <1>2, <1>4, <2>1
  <2> QED
    BY <2>1, <2>2
<1>6. pair[1] \in Texts /\ pair[2] \in AnyValue
  BY <1>5 DEF Entries
<1>7. IsKind("bytes", pair[1]) /\ pair[1] # NoKey
  <2> DEFINE key == pair[1]
  <2>1. key \in Texts
    BY <1>6
  <2> HIDE DEF key
  <2>2. key[1] = "bytes"
    BY <2>1 DEF Texts
  <2>3. NoKey[1] = "no key"
    BY DEF NoKey
  <2> QED
    BY <2>2, <2>3 DEF IsKind, key
<1> HIDE DEF f, t
<1>8. g = FrameOf(t, pair[1]) /\ f.kind = "dict"
  <2> DEFINE c == SubSeq(t.v[2], 1, t.at)
  <2>1. f = [kind |-> t.v[1], key |-> NoKey, items |-> c]
    BY <1>3, Zenon DEF FrameOf
  <2>2. [[kind |-> t.v[1], key |-> NoKey, items |-> c] EXCEPT !.key = pair[1]]
          = [kind |-> t.v[1], key |-> pair[1], items |-> c]
    <3> DEFINE a == t.v[1]
               b == NoKey
               x == pair[1]
    <3> HIDE DEF a, b, c, x
    <3>1. [[kind |-> a, key |-> b, items |-> c] EXCEPT !.key = x]
            = [kind |-> a, key |-> x, items |-> c]
      BY WithKey
    <3> QED
      BY <3>1 DEF a, b, c, x
  <2>3. FrameOf(t, pair[1]) = [kind |-> t.v[1], key |-> pair[1], items |-> c]
    BY Zenon DEF FrameOf
  <2>4. f.kind = "dict"
    BY <1>2, <1>3, FrameParts DEF IsKind
  <2> QED
    BY <2>1, <2>2, <2>3, <2>4, Zenon
<1> HIDE DEF g
<1>9. Inside(g, t) /\ g \in AnyFrame /\ g.key = pair[1]
  BY <1>1, <1>2, <1>6, <1>8, FrameParts DEF Inside, AnyFrame
<1>10. Innermost(r, Append(Front(fs), g), Append(Front(w), t), g, t)
  BY <1>1, <1>9, Replaced DEF t
<1> QED
  BY <1>6, <1>7, <1>8, <1>9, <1>10 DEF f, t, g

\* The three places where the decoder can be.
LEMMA AtLoop ==
    ASSUME NEW r, NEW fs, NEW w, NEW f, NEW t, NEW i, NEW d, Innermost(r, fs, w, f, t),
           f.key = NoKey, Left(Encode(r), i, After(t, t.at))
    PROVE  OnTrack(r, fs, i, "loop", d)
<1>1. Nested(r, fs, w) /\ fs # <<>> /\ Last(fs) = f /\ Last(w) = t
  BY DEF Innermost
<1> QED
  BY <1>1 DEF OnTrack

LEMMA AtDecode ==
    ASSUME NEW r, NEW fs, NEW w, NEW i, NEW d, NEW v \in AnyValue, NEW rest \in Seq(Byte),
           Nested(r, fs, w), ExpectedBy(r, fs, w, Len(fs), v, rest),
           Left(Encode(r), i, Encode(v) \o rest)
    PROVE  OnTrack(r, fs, i, "decode", d)
  BY DEF OnTrack

LEMMA AtDone ==
    ASSUME NEW r, NEW fs, NEW w, NEW i, Nested(r, fs, w),
           Left(Encode(r), i, <<>>)
    PROVE  OnTrack(r, fs, i, "done", r)
  BY DEF OnTrack

LEMMA ReturnTrack ==
    ASSUME NEW r, NEW fs, NEW w, NEW i, NEW v \in AnyValue, NEW rest \in Seq(Byte),
           Nested(r, fs, w), ExpectedBy(r, fs, w, Len(fs), v, rest),
           Left(Encode(r), i, rest), Return(v, i, fs)
    PROVE  OnTrack(r, frames', index', dpc', decoded')
<1> DEFINE f == Last(fs)
           t == Last(w)
           item == t.v[2][t.at + 1]
           gs == Front(fs)
           x == Front(w)
<1>1. index' = i
  BY DEF Return
<1>2. CASE fs = <<>>
  <2>1. v = r /\ rest = <<>>
    BY <1>2 DEF ExpectedBy
  <2>2. decoded' = v /\ dpc' = "done" /\ frames' = fs
    BY <1>2 DEF Return
  <2> QED
    BY <1>1, <2>1, <2>2, AtDone
<1>3. CASE fs # <<>>
  <2>1. /\ f \in AnyFrame /\ t \in Visits /\ Inside(f, t)
        /\ gs \in Seq(AnyFrame) /\ x \in Seq(Visits)
    BY <1>3, Popped DEF Nested
  <2>2. Expects(f, t, v, rest)
    BY <1>3, Waiting
  <2>3. /\ t.at < Len(t.v[2])
        /\ \/ IsKind("list", t.v) /\ v = item /\ rest = After(t, t.at + 1)
           \/ /\ IsKind("dict", t.v) /\ f.key = NoKey
              /\ v = item[1] /\ rest = Encode(item[2]) \o After(t, t.at + 1)
           \/ /\ IsKind("dict", t.v) /\ f.key # NoKey
              /\ v = item[2] /\ rest = After(t, t.at + 1)
    BY <2>2 DEF Expects
  <2>4. /\ Next1(t) \in Visits /\ After(t, t.at + 1) \in Seq(Byte)
        /\ After(Next1(t), Next1(t).at) = After(t, t.at + 1)
    BY <2>1, <2>3, NextItem
  <2>7. CASE IsKind("list", t.v)
    <3> DEFINE g == [f EXCEPT !.items = Append(@, item)]
               hs == Append(gs, g)
               y == Append(x, Next1(t))
    <3>1. f.kind = "list" /\ g.key = NoKey /\ Innermost(r, hs, y, g, Next1(t))
      BY <1>3, <2>3, <2>7, ListGrows
    <3>2. v = item /\ rest = After(t, t.at + 1)
      BY <2>3, <2>7 DEF IsKind
    <3>3. frames' = hs /\ dpc' = "loop"
      BY <1>3, <3>1, <3>2, Zenon DEF Return
    <3> HIDE DEF g, hs, y
    <3>4. OnTrack(r, hs, i, "loop", decoded')
      BY <2>4, <3>1, <3>2, AtLoop
    <3> QED
      BY <1>1, <3>3, <3>4
  <2>8. CASE IsKind("dict", t.v) /\ f.key # NoKey
    <3> DEFINE g == [f EXCEPT !.key = NoKey, !.items = PutPair(@, f.key, item[2])]
               hs == Append(gs, g)
               y == Append(x, Next1(t))
    <3>1. f.kind = "dict" /\ g.key = NoKey /\ Innermost(r, hs, y, g, Next1(t))
      BY <1>3, <2>3, <2>8, DictGrows
    <3>2. v = item[2] /\ rest = After(t, t.at + 1)
      BY <2>3, <2>8 DEF IsKind
    <3>3. frames' = hs /\ dpc' = "loop"
      BY <1>3, <2>8, <3>1, <3>2, Zenon DEF Return
    <3> HIDE DEF g, hs, y
    <3>4. OnTrack(r, hs, i, "loop", decoded')
      BY <2>4, <3>1, <3>2, AtLoop
    <3> QED
      BY <1>1, <3>3, <3>4
  <2>9. CASE IsKind("dict", t.v) /\ f.key = NoKey
    <3> DEFINE g == [f EXCEPT !.key = item[1]]
               hs == Append(gs, g)
               y == Append(x, t)
    <3>1. /\ f.kind = "dict" /\ IsKind("bytes", item[1]) /\ g.key # NoKey
          /\ item[2] \in AnyValue /\ Innermost(r, hs, y, g, t)
      BY <1>3, <2>3, <2>9, KeyComes
    <3>2. v = item[1] /\ rest = Encode(item[2]) \o After(t, t.at + 1)
      BY <2>3, <2>9 DEF IsKind
    <3>3. frames' = hs /\ dpc' = "decode"
      BY <1>3, <2>9, <3>1, <3>2, Zenon DEF Return
    <3> HIDE DEF g, hs, y
    <3>4. Expects(g, t, item[2], After(t, t.at + 1))
      BY <2>3, <2>9, <3>1 DEF Expects
    <3>5. ExpectedBy(r, hs, y, Len(hs), item[2], After(t, t.at + 1)) /\ Nested(r, hs, y)
      <4>1. hs \in Seq(AnyFrame) /\ Len(y) = Len(hs) /\ hs # <<>> /\ Last(hs) = g /\ Last(y) = t
        BY <3>1 DEF Innermost, Nested
      <4>2. Len(hs) # 0 /\ hs[Len(hs)] = g /\ y[Len(hs)] = t
        BY <4>1 DEF Last
      <4> QED
        BY <3>1, <3>4, <4>2 DEF ExpectedBy, Innermost
    <3>6. OnTrack(r, hs, i, "decode", decoded')
      BY <2>4, <3>1, <3>2, <3>5, AtDecode
    <3> QED
      BY <1>1, <3>3, <3>6
  <2> QED
    BY <2>3, <2>7, <2>8, <2>9
<1> QED
  BY <1>2, <1>3

-----------------------------------------------------------------------------
(* One step of the decoder. *)

\* What there is to decode is the encoding of r, or the beginning of it.
Reading(r) ==
    /\ r \in AnyValue /\ content \in Seq(STRING) /\ index \in 0..Len(content)
    /\ IsPrefix(content, Encode(r))

\* The data were cut, and the decoder is about to tell, or has told.
Doomed(r) ==
    /\ Len(content) < Len(Encode(r))
    /\ \/ dpc = "decode" /\ AtEnd
       \/ dpc = "done" /\ IsKind("raised", decoded)

OnCourse(r) == OnTrack(r, frames, index, dpc, decoded) \/ Doomed(r)

\* A value is to be decoded next.
Expecting(r, w, v, rest) ==
    /\ Nested(r, frames, w) /\ v \in AnyValue /\ rest \in Seq(Byte)
    /\ ExpectedBy(r, frames, w, Len(frames), v, rest)
    /\ Left(Encode(r), index, Encode(v) \o rest)

LEMMA PrefixBytes ==
    ASSUME NEW r, Reading(r)
    PROVE  /\ Encode(r) \in Seq(Byte) /\ content \in Seq(Byte)
           /\ Len(content) \in Nat /\ Len(Encode(r)) \in Nat /\ index \in Nat
           /\ index <= Len(content) /\ Len(content) <= Len(Encode(r))
           /\ \A k \in 1..Len(content) : content[k] = Encode(r)[k]
<1> DEFINE s == Encode(r)
           n == Len(content)
<1>1. s \in Seq(Byte) /\ content \in Seq(STRING) /\ index \in 0..n /\ IsPrefix(content, s)
  BY EncodeShape DEF Reading
<1>2. content \in Seq(Byte)
  BY <1>1, TextBytes
<1> HIDE DEF s
<1>3. n \in Nat /\ Len(s) \in Nat
  BY <1>1, <1>2
<1> HIDE DEF n
<1>4. n <= Len(s) /\ SubSeq(content, 1, n) = SubSeq(s, 1, n)
  BY <1>1 DEF IsPrefix, n
<1>5. \A k \in 1..n : content[k] = s[k]
  <2>1. 1 \in Int /\ n \in Int /\ n - 1 + 1 = n /\ \A k \in 1..n : 1 + k - 1 = k
    BY <1>3
  <2>2. (\A k \in 1..n : content[k] \in Byte) /\ (\A k \in 1..n : s[k] \in Byte)
    BY <1>1, <1>2, <1>3, <1>4 DEF n
  <2>3. \A k \in 1..n - 1 + 1 : SubSeq(content, 1, n)[k] = content[1 + k - 1]
    BY <2>1, <2>2, SubSeqProperties
  <2>4. \A k \in 1..n - 1 + 1 : SubSeq(s, 1, n)[k] = s[1 + k - 1]
    BY <2>1, <2>2, SubSeqProperties
  <2> QED
    BY <1>4, <2>1, <2>3, <2>4
<1> QED
  BY <1>1, <1>2, <1>3, <1>4, <1>5 DEF s, n

\* If a and b are what is left to read, a is there, as far as the data go, and b follows.
LEMMA AheadIs ==
    ASSUME NEW r, Reading(r), NEW a \in Seq(Byte), NEW b \in Seq(Byte),
           Left(Encode(r), index, a \o b)
    PROVE  /\ index + Len(a) + Len(b) = Len(Encode(r))
           /\ \A k \in 1..Len(a) : index + k <= Len(content) => content[index + k] = a[k]
           /\ Left(Encode(r), index + Len(a), b)
<1> DEFINE s == Encode(r)
<1>1. /\ s \in Seq(Byte) /\ content \in Seq(Byte)
      /\ Len(content) \in Nat /\ Len(s) \in Nat /\ index \in Nat
      /\ index <= Len(content) /\ Len(content) <= Len(s)
      /\ \A k \in 1..Len(content) : content[k] = s[k]
  BY PrefixBytes
<1>2. Left(s, index, a \o b)
  OBVIOUS
<1> HIDE DEF s
<1>3. index \in 0..Len(s) /\ a \in Seq(Byte) /\ b \in Seq(Byte)
  BY <1>1
<1>4. /\ index + Len(a) + Len(b) = Len(s)
      /\ \A k \in 1..Len(a) : s[index + k] = a[k]
      /\ Left(s, index + Len(a), b)
  <2>1. s \in Seq(Byte)
    BY <1>1
  <2> QED
    BY <1>2, <1>3, <2>1, AheadSplit
<1>5. ASSUME NEW k \in 1..Len(a), index + k <= Len(content)
      PROVE  content[index + k] = a[k]
  <2>1. index + k \in 1..Len(content)
    BY <1>1, <1>5
  <2> QED
    BY <1>1, <1>4, <2>1
<1> QED
  BY <1>4, <1>5 DEF s

LEMMA Slice ==
    ASSUME NEW r, Reading(r), NEW i \in Nat, NEW x \in Seq(Byte), i + Len(x) <= Len(content),
           \A k \in 1..Len(x) : content[i + k] = x[k]
    PROVE  SubSeq(content, i + 1, i + Len(x)) = x
<1> DEFINE n == Len(x)
           a == i + 1
           b == i + n
<1>1. content \in Seq(Byte) /\ Len(content) \in Nat /\ n \in Nat
  BY PrefixBytes
<1>2. a \in Int /\ b \in Int /\ \A k \in a..b : k \in 1..Len(content)
  BY <1>1
<1>3. \A k \in a..b : content[k] \in Byte
  BY <1>1, <1>2
<1>4. (IF a <= b THEN b - a + 1 ELSE 0) = n /\ \A k \in 1..n : k \in 1..b - a + 1 /\ a + k - 1 = i + k
  BY <1>1
<1> DEFINE s == SubSeq(content, a, b)
<1> HIDE DEF a, b
<1>5. /\ s \in Seq(Byte) /\ Len(s) = IF a <= b THEN b - a + 1 ELSE 0
      /\ \A k \in 1..b - a + 1 : s[k] = content[a + k - 1]
  BY <1>2, <1>3, SubSeqProperties
<1> HIDE DEF s
<1>6. Len(s) = Len(x) /\ \A k \in 1..Len(s) : s[k] = x[k]
  BY <1>4, <1>5
<1>7. s = x
  BY <1>5, <1>6, SeqEqual
<1> QED
  BY <1>7 DEF s, a, b

\* The first token after x, or what there is of x, is where it was put.
LEMMA FoundAt ==
    ASSUME NEW r, Reading(r), NEW token \in Byte, NEW x \in Seq(Byte), NEW y \in Seq(Byte),
           Left(Encode(r), index, x \o (<<token>> \o y)),
           \A k \in 1..Len(x) : x[k] # token
    PROVE  \/ Find(token) = 0 /\ Len(content) < Len(Encode(r))
           \/ Find(token) = index + Len(x) + 1 /\ Find(token) <= Len(content)
<1> DEFINE z == <<token>> \o y
           a == x \o <<token>>
           p == index + Len(x) + 1
<1>1. /\ Len(content) \in Nat /\ Len(Encode(r)) \in Nat /\ index \in Nat /\ Len(x) \in Nat
      /\ Len(content) <= Len(Encode(r))
  BY PrefixBytes
<1>2. z \in Seq(Byte) /\ a \in Seq(Byte) /\ Len(a) = Len(x) + 1 /\ a[Len(x) + 1] = token
      /\ \A k \in 1..Len(x) : a[k] = x[k]
  <2> DEFINE t == <<token>>
  <2>1. /\ t \in Seq(Byte) /\ Len(t) = 1 /\ t[1] = token /\ 1 \in 1..Len(t)
        /\ x \in Seq(Byte) /\ y \in Seq(Byte)
    OBVIOUS
  <2> HIDE DEF t
  <2>2. t \o y \in Seq(Byte)
    BY <2>1, ConcatParts
  <2>3. /\ x \o t \in Seq(Byte) /\ Len(x \o t) = Len(x) + Len(t)
        /\ \A k \in 1..Len(x) : (x \o t)[k] = x[k]
        /\ \A k \in 1..Len(t) : (x \o t)[Len(x) + k] = t[k]
    <3>1. x \in Seq(Byte) /\ t \in Seq(Byte)
      BY <2>1
    <3> QED
      BY <3>1, ConcatParts
  <2> QED
    BY <2>1, <2>2, <2>3 DEF t
<1>3. Left(Encode(r), index, a \o y)
  <2> DEFINE t == <<token>>
  <2>1. t \in Seq(Byte)
    OBVIOUS
  <2> HIDE DEF t
  <2>2. (x \o t) \o y = x \o (t \o y)
    BY <2>1, ConcatAssociative
  <2> QED
    BY <2>2 DEF t
<1> HIDE DEF z, a
<1>4. /\ index + Len(a) + Len(y) = Len(Encode(r))
      /\ \A k \in 1..Len(a) : index + k <= Len(content) => content[index + k] = a[k]
  <2>1. a \in Seq(Byte) /\ y \in Seq(Byte) /\ Reading(r)
    BY <1>2
  <2> QED
    BY <1>3, <2>1, AheadIs
<1>5. \A i \in index + 1..Len(content) : i < p => content[i] # token
  <2> SUFFICES ASSUME NEW i \in index + 1..Len(content), i < p
               PROVE  content[i] # token
    OBVIOUS
  <2> DEFINE k == i - index
  <2>1. k \in 1..Len(x) /\ index + k = i /\ k \in 1..Len(a)
    BY <1>1, <1>2
  <2> HIDE DEF k
  <2>2. content[i] = a[k]
    BY <1>4, <2>1
  <2> QED
    BY <1>2, <2>1, <2>2
<1>6. p <= Len(content) => content[p] = token
  <2>1. Len(x) + 1 \in 1..Len(a) /\ index + (Len(x) + 1) = p
    BY <1>1, <1>2
  <2> QED
    BY <1>2, <1>4, <2>1
<1>7. \/ Find(token) = 0 /\ \A i \in index + 1..Len(content) : content[i] # token
      \/ /\ Find(token) \in index + 1..Len(content) /\ content[Find(token)] = token
         /\ \A i \in index + 1..Find(token) - 1 : content[i] # token
  BY <1>1, FindIs
<1>8. CASE p <= Len(content)
  <2>1. p \in index + 1..Len(content)
    BY <1>1, <1>8
  <2>2. Find(token) \in index + 1..Len(content) /\ content[Find(token)] = token
        /\ \A i \in index + 1..Find(token) - 1 : content[i] # token
    BY <1>6, <1>7, <1>8, <2>1
  <2>3. ~(Find(token) < p)
    BY <1>5, <2>2
  <2>4. ~(p < Find(token))
    <3>1. p < Find(token) => p \in index + 1..Find(token) - 1
      BY <1>1, <2>1, <2>2
    <3> QED
      BY <1>6, <1>8, <2>2, <3>1
  <2>5. Find(token) = p
    <3> DEFINE q == Find(token)
    <3>1. p \in Int /\ q \in Int /\ ~(q < p) /\ ~(p < q)
      BY <1>1, <2>2, <2>3, <2>4
    <3> HIDE DEF p, q
    <3>2. q = p
      BY <3>1
    <3> QED
      BY <3>2 DEF q
  <2> QED
    BY <1>8, <2>5
<1>9. CASE ~(p <= Len(content))
  <2>1. Find(token) = 0
    <3>1. \A i \in index + 1..Len(content) : i < p
      BY <1>1, <1>9
    <3> QED
      BY <1>5, <1>7, <3>1
  <2>2. Len(content) < Len(Encode(r))
    <3>1. Len(y) \in Nat
      OBVIOUS
    <3> QED
      BY <1>1, <1>2, <1>4, <1>9, <3>1
  <2> QED
    BY <2>1, <2>2
<1> QED
  BY <1>8, <1>9

LEMMA CutRaises ==
    ASSUME NEW r, Len(content) < Len(Encode(r)), NEW e, Raise(e)
    PROVE  Doomed(r)'
<1>1. dpc' = "done" /\ decoded' = Raised(e) /\ content' = content
  BY DEF Raise
<1>2. IsKind("raised", Raised(e))
  BY DEF IsKind, Raised
<1> QED
  BY <1>1, <1>2 DEF Doomed

\* Where there is something to decode, its first byte is there.
LEMMA FirstByte ==
    ASSUME NEW r, Reading(r), NEW w, NEW v, NEW rest, Expecting(r, w, v, rest)
    PROVE  /\ Encode(v) \in Seq(Byte) /\ Len(Encode(v)) >= 2
           /\ AtEnd => Len(content) < Len(Encode(r))
           /\ index < Len(content) => Here = Encode(v)[1]
           /\ ~AtEnd => index < Len(content)
<1> DEFINE a == Encode(v)
<1>1. a \in Seq(Byte) /\ Len(a) >= 2 /\ rest \in Seq(Byte) /\ Left(Encode(r), index, a \o rest)
  BY EncodeShape DEF Expecting
<1> HIDE DEF a
<1>2. /\ index + Len(a) + Len(rest) = Len(Encode(r))
      /\ \A k \in 1..Len(a) : index + k <= Len(content) => content[index + k] = a[k]
  BY <1>1, AheadIs
<1>3. /\ Len(content) \in Nat /\ Len(Encode(r)) \in Nat /\ index \in Nat
      /\ Len(a) \in Nat /\ Len(rest) \in Nat
  BY <1>1, PrefixBytes
<1>4. AtEnd => Len(content) < Len(Encode(r))
  BY <1>1, <1>2, <1>3 DEF AtEnd
<1>5. ASSUME index < Len(content)
      PROVE  Here = a[1]
  <2>1. index + 1 <= Len(content) /\ 1 \in 1..Len(a)
    BY <1>1, <1>3, <1>5
  <2> QED
    BY <1>2, <1>5, <2>1 DEF Here
<1>6. ~AtEnd => index < Len(content)
  BY <1>3 DEF AtEnd
<1> QED
  BY <1>1, <1>4, <1>5, <1>6 DEF a

\* The first byte tells what is to be decoded.
LEMMA FirstTells ==
    ASSUME NEW v \in AnyValue
    PROVE  \/ \E n \in Int : v = Number(n) /\ Encode(v) = EncodeInt(n) /\ Encode(v)[1] = "i"
           \/ \E s \in Seq(STRING) : v = Bytes(s) /\ Encode(v) = EncodeBytes(s)
                                     /\ IsDigit(Encode(v)[1])
           \/ /\ IsContainer(v)
              /\ Encode(v)[1] = IF IsKind("dict", v) THEN "d" ELSE "l"
<1>1. v \in ValuesOf(AnyValue)
  BY PartsAreValues
<1>2. \/ \E n \in Int : v = Number(n)
      \/ \E s \in Seq(STRING) : v = Bytes(s)
      \/ \E s \in Seq(AnyValue) : v = List(s)
      \/ \E s \in Seq(Texts \X AnyValue) : DistinctKeys(s) /\ v = Dict(s)
  BY <1>1, ValueIs
<1>3. ASSUME NEW n \in Int, v = Number(n)
      PROVE  Encode(v) = EncodeInt(n) /\ Encode(v)[1] = "i"
  <2>1. Encode(v) = EncodeInt(n)
    BY <1>3, EncodeNumber
  <2>2. PICK x \in Seq(Byte) : EncodeInt(n) = <<"i">> \o x \o <<"e">>
    BY NumberText
  <2>3. "i" \in Byte /\ "e" \in Byte
    BY StructureBytes DEF Structure
  <2>4. (<<"i">> \o x \o <<"e">>)[1] = "i"
    BY <2>3, Framed
  <2> QED
    BY <2>1, <2>2, <2>4
<1>4. ASSUME NEW s \in Seq(STRING), v = Bytes(s)
      PROVE  Encode(v) = EncodeBytes(s) /\ IsDigit(Encode(v)[1])
  <2>1. Encode(v) = EncodeBytes(s)
    BY <1>4, EncodeText
  <2> DEFINE y == <<":">> \o s
  <2>2. PICK d \in Seq(Byte) : EncodeBytes(s) = d \o y /\ d # <<>> /\ IsDigit(d[1])
    BY BytesText
  <2>3. y \in Seq(Byte)
    <3>1. <<":">> \in Seq(Byte) /\ s \in Seq(Byte)
      BY TextBytes, StructureBytes DEF Structure
    <3> QED
      BY <3>1, ConcatParts
  <2> HIDE DEF y
  <2>4. \A k \in 1..Len(d) : (d \o y)[k] = d[k]
    <3>1. d \in Seq(Byte)
      BY <2>2
    <3> QED
      BY <2>3, <3>1, ConcatParts
  <2>5. 1 \in 1..Len(d)
    BY <2>2
  <2> QED
    BY <2>1, <2>2, <2>4, <2>5
<1>5. ASSUME IsContainer(v)
      PROVE  Encode(v)[1] = IF IsKind("dict", v) THEN "d" ELSE "l"
  <2>1. "d" \in Byte /\ "l" \in Byte /\ "e" \in Byte
    BY StructureBytes DEF Structure
  <2>2. \A x \in Seq(Byte) : /\ (<<"d">> \o x \o <<"e">>)[1] = "d"
                             /\ (<<"l">> \o x \o <<"e">>)[1] = "l"
    BY <2>1, Framed
  <2>3. CASE IsKind("list", v)
    <3>1. v = List(v[2]) /\ ~IsKind("dict", v) /\ v[2] \in Seq(AnyValue)
      BY <1>5, <2>3, Containers
    <3>2. Encode(List(v[2])) = <<"l">> \o FlattenSeq(ListParts(v[2])) \o <<"e">>
      BY <3>1, EncodeList
    <3>3. FlattenSeq(ListParts(v[2])) \in Seq(Byte)
      BY <3>1, PartsTyped, FlattenType
    <3> QED
      BY <2>2, <3>1, <3>2, <3>3
  <2>4. CASE ~IsKind("list", v)
    <3>1. v = Dict(v[2]) /\ IsKind("dict", v) /\ v[2] \in Seq(Entries)
      BY <1>5, <2>4, Containers
    <3>2. Encode(Dict(v[2])) = <<"d">> \o FlattenSeq(DictParts(v[2])) \o <<"e">>
      BY <3>1, EncodeDict
    <3>3. FlattenSeq(DictParts(v[2])) \in Seq(Byte)
      BY <3>1, PartsTyped, FlattenType
    <3> QED
      BY <2>2, <3>1, <3>2, <3>3
  <2> QED
    BY <2>3, <2>4
<1>6. \A x : IsContainer(List(x)) /\ IsContainer(Dict(x))
  BY DEF IsContainer, IsKind, List, Dict
<1> QED
  BY <1>2, <1>3, <1>4, <1>5, <1>6

LEMMA ContainerStep ==
    ASSUME NEW r, Reading(r), NEW w, NEW v, NEW rest, Expecting(r, w, v, rest), DecodeContainer
    PROVE  OnTrack(r, frames', index', dpc', decoded')
<1> DEFINE t == [v |-> v, at |-> 0, rest |-> rest]
           kind == IF Here = "d" THEN "dict" ELSE "list"
           f == Frame(kind)
           c == <<IF IsKind("dict", v) THEN "d" ELSE "l">>
           fs == Append(frames, f)
           x == Append(w, t)
<1>1. /\ Nested(r, frames, w) /\ v \in AnyValue /\ rest \in Seq(Byte)
      /\ ExpectedBy(r, frames, w, Len(frames), v, rest)
      /\ Left(Encode(r), index, Encode(v) \o rest)
  BY DEF Expecting
<1>2. /\ ~AtEnd /\ Here \in {"d", "l"}
      /\ frames' = fs /\ index' = index + 1 /\ dpc' = "loop"
  BY DEF DecodeContainer
<1>3. Here = Encode(v)[1]
  BY <1>2, FirstByte
<1>4. Here # "i" /\ ~IsDigit(Here)
  <2>1. Here \in Structure
    BY <1>2 DEF Structure
  <2> QED
    BY <1>2, <2>1, DigitValue
<1>5. IsContainer(v) /\ Here = IF IsKind("dict", v) THEN "d" ELSE "l"
  BY <1>1, <1>3, <1>4, FirstTells
<1>6. t \in Visits /\ t.v = v /\ t.at = 0 /\ t.rest = rest
  <2>1. Len(v[2]) \in Nat
    BY <1>1, <1>5, PartsOf
  <2> QED
    BY <1>1, <1>5, <2>1 DEF Visits
<1>7. f = FrameOf(t, NoKey)
  <2>1. kind = v[1]
    BY <1>5 DEF IsContainer, IsKind
  <2>2. \E S : v[2] \in Seq(S)
    BY <1>1, <1>5, Containers
  <2>3. SubSeq(v[2], 1, 0) = <<>>
    BY <2>2, SubSeqEmpty
  <2> QED
    BY <1>6, <2>1, <2>3 DEF FrameOf, Frame
<1> HIDE DEF t, f
<1>8. f \in AnyFrame /\ Inside(f, t) /\ f.key = NoKey
  BY <1>6, <1>7, FrameParts DEF AnyFrame, Inside
<1>9. Nested(r, fs, x)
  BY <1>1, <1>6, <1>8, Pushed
<1>10. fs # <<>> /\ Last(fs) = f /\ Last(x) = t
  <2>1. frames \in Seq(AnyFrame) /\ w \in Seq(Visits)
    BY <1>1 DEF Nested
  <2> QED
    BY <1>6, <1>8, <2>1, AppendLast
<1> HIDE DEF fs, x
<1>11. Left(Encode(r), index + 1, After(t, 0))
  <2>1. Encode(v) \o rest = c \o After(t, 0)
    BY <1>6, ContainerOpens
  <2>2. c \in Seq(Byte) /\ Len(c) = 1
    BY StructureBytes DEF Structure
  <2>3. After(t, 0) \in Seq(Byte)
    <3>1. 0 \in 0..Len(t.v[2])
      BY <1>1, <1>5, <1>6, PartsOf
    <3> QED
      BY <1>6, <3>1, AfterIs
  <2> HIDE DEF c
  <2>4. Left(Encode(r), index, c \o After(t, 0))
    BY <1>1, <2>1
  <2>5. Left(Encode(r), index + Len(c), After(t, 0))
    BY <2>2, <2>3, <2>4, AheadIs
  <2> QED
    BY <2>2, <2>5
<1>12. OnTrack(r, fs, index + 1, "loop", decoded')
  <2>1. Innermost(r, fs, x, f, t)
    BY <1>9, <1>10 DEF Innermost
  <2> QED
    BY <1>6, <1>8, <1>11, <2>1, AtLoop
<1> QED
  BY <1>2, <1>12

LEMMA IntStep ==
    ASSUME NEW r, Reading(r), NEW w, NEW v, NEW rest, Expecting(r, w, v, rest), DecodeInt
    PROVE  OnTrack(r, frames', index', dpc', decoded') \/ Doomed(r)'
<1> DEFINE p == Find("e")
           digits == SubSeq(content, index + 2, p - 1)
<1>1. /\ Nested(r, frames, w) /\ v \in AnyValue /\ rest \in Seq(Byte)
      /\ ExpectedBy(r, frames, w, Len(frames), v, rest)
      /\ Left(Encode(r), index, Encode(v) \o rest)
  BY DEF Expecting
<1>2. /\ ~AtEnd /\ Here = "i"
      /\ IF p = 0 THEN Raise("RuntimeError")
         ELSE IF ~IsNumber(digits) THEN Raise("ValueError")
         ELSE Return(Number(NumberOf(digits)), p, frames)
  BY DEF DecodeInt
<1>3. Encode(v)[1] = "i"
  BY <1>2, FirstByte
<1>4. PICK n \in Int : v = Number(n) /\ Encode(v) = EncodeInt(n)
  <2>1. ~IsDigit("i")
    BY DigitValue DEF Structure
  <2>2. ("i" = IF IsKind("dict", v) THEN "d" ELSE "l") => FALSE
    OBVIOUS
  <2> QED
    BY <1>1, <1>3, <2>1, <2>2, FirstTells
<1>5. PICK x \in Seq(Byte) : /\ EncodeInt(n) = <<"i">> \o x \o <<"e">>
                             /\ IsNumber(x) /\ NumberOf(x) = n
                             /\ \A i \in 1..Len(x) : x[i] # "e"
  BY NumberText
<1> DEFINE i == <<"i">>
           e == <<"e">>
           a == i \o x
<1>6. i \in Seq(Byte) /\ e \in Seq(Byte) /\ Len(i) = 1 /\ i[1] = "i" /\ Len(e) = 1 /\ "e" \in Byte
  BY StructureBytes DEF Structure
<1> HIDE DEF i
<1>7. /\ a \in Seq(Byte) /\ Len(a) = Len(x) + 1 /\ (\A k \in 1..Len(a) : a[k] # "e")
      /\ \A k \in 1..Len(x) : a[k + 1] = x[k]
  <2>1. i \in Seq(Byte) /\ x \in Seq(Byte)
    BY <1>5, <1>6
  <2>2. /\ a \in Seq(Byte) /\ Len(a) = Len(i) + Len(x)
        /\ \A k \in 1..Len(i) : a[k] = i[k]
        /\ \A k \in 1..Len(x) : a[Len(i) + k] = x[k]
    BY <2>1, ConcatParts
  <2> HIDE DEF a
  <2>3. Len(x) \in Nat /\ 1 \in 1..Len(i)
    BY <1>6, <2>1
  <2>4. a[1] = "i" /\ \A k \in 1..Len(x) : a[k + 1] = x[k] /\ a[k + 1] # "e"
    BY <1>5, <1>6, <2>2, <2>3
  <2>5. Len(a) = Len(x) + 1
    BY <1>6, <2>2, <2>3
  <2>6. ASSUME NEW k \in 1..Len(a)
        PROVE  a[k] # "e"
    <3>1. k = 1 \/ (k - 1 \in 1..Len(x) /\ (k - 1) + 1 = k)
      BY <2>3, <2>5
    <3> QED
      BY <2>4, <3>1
  <2> QED
    BY <2>2, <2>4, <2>5, <2>6
<1>8. Encode(v) \in Seq(Byte) /\ Encode(v) = a \o e /\ Len(Encode(v)) = Len(x) + 2
  <2>1. Encode(v) = a \o e
    BY <1>4, <1>5 DEF i
  <2> HIDE DEF a, e
  <2>2. a \o e \in Seq(Byte) /\ Len(a \o e) = Len(a) + Len(e)
    BY <1>6, <1>7, ConcatParts
  <2>3. Len(x) \in Nat
    BY <1>5
  <2> QED
    BY <1>6, <1>7, <2>1, <2>2, <2>3
<1> HIDE DEF a
<1>9. Left(Encode(r), index, a \o (<<"e">> \o rest))
  <2> HIDE DEF e
  <2>1. (a \o e) \o rest = a \o (e \o rest)
    <3>1. a \in Seq(Byte) /\ e \in Seq(Byte) /\ rest \in Seq(Byte)
      BY <1>1, <1>6, <1>7
    <3> QED
      BY <3>1, ConcatAssociative
  <2> QED
    BY <1>1, <1>8, <2>1 DEF e
<1> HIDE DEF e
<1>10. \/ p = 0 /\ Len(content) < Len(Encode(r))
       \/ p = index + Len(a) + 1 /\ p <= Len(content)
  <2>1. a \in Seq(Byte) /\ rest \in Seq(Byte) /\ "e" \in Byte
    BY <1>1, <1>6, <1>7
  <2> QED
    BY <1>7, <1>9, <2>1, FoundAt
<1>11. Len(content) \in Nat /\ index \in Nat /\ Len(x) \in Nat
  BY <1>5, PrefixBytes
<1> HIDE DEF p
<1>12. CASE p = 0 /\ Len(content) < Len(Encode(r))
  BY <1>2, <1>12, CutRaises
<1>13. CASE p = index + Len(a) + 1 /\ p <= Len(content)
  <2>1. p = index + Len(Encode(v)) /\ p # 0
    BY <1>7, <1>8, <1>11, <1>13
  <2>2. digits = x
    <3> DEFINE j == index + 1
    <3>1. j \in Nat /\ j + Len(x) <= Len(content) /\ j + 1 = index + 2 /\ j + Len(x) = p - 1
      BY <1>7, <1>11, <1>13
    <3>2. ASSUME NEW k \in 1..Len(x)
          PROVE  content[j + k] = x[k]
      <4>1. k + 1 \in 1..Len(a) /\ index + (k + 1) = j + k /\ index + (k + 1) <= Len(content)
        BY <1>7, <1>11, <1>13
      <4>2. \A l \in 1..Len(a) : index + l <= Len(content) => content[index + l] = a[l]
        <5> DEFINE y == <<"e">> \o rest
        <5>1. a \in Seq(Byte) /\ y \in Seq(Byte)
          BY <1>1, <1>6, <1>7, ConcatParts DEF e
        <5>2. Left(Encode(r), index, a \o y)
          BY <1>9
        <5> HIDE DEF y
        <5> QED
          BY <5>1, <5>2, AheadIs
      <4> QED
        BY <1>7, <4>1, <4>2
    <3> HIDE DEF j
    <3>3. SubSeq(content, j + 1, j + Len(x)) = x
      BY <1>5, <3>1, <3>2, Slice
    <3> QED
      BY <3>1, <3>3
  <2> HIDE DEF digits
  <2>3. Return(v, p, frames)
    BY <1>2, <1>4, <1>5, <2>1, <2>2
  <2>4. Left(Encode(r), p, rest)
    BY <1>1, <1>8, <2>1, AheadIs
  <2> QED
    BY <1>1, <2>3, <2>4, ReturnTrack
<1> QED
  BY <1>10, <1>12, <1>13

LEMMA StrStep ==
    ASSUME NEW r, Reading(r), NEW w, NEW v, NEW rest, Expecting(r, w, v, rest), DecodeStr
    PROVE  OnTrack(r, frames', index', dpc', decoded') \/ Doomed(r)'
<1> DEFINE p == Find(":")
           digits == SubSeq(content, index + 1, p - 1)
           l == NumberOf(digits)
           text == SubSeq(content, p + 1, p + l)
<1>1. /\ Nested(r, frames, w) /\ v \in AnyValue /\ rest \in Seq(Byte)
      /\ ExpectedBy(r, frames, w, Len(frames), v, rest)
      /\ Left(Encode(r), index, Encode(v) \o rest)
  BY DEF Expecting
<1>2. /\ ~AtEnd /\ IsDigit(Here)
      /\ IF p = 0 THEN Raise("RuntimeError")
         ELSE IF ~IsNumber(digits) THEN Raise("ValueError")
         ELSE IF p + l > Len(content) THEN Raise("RuntimeError")
         ELSE Return(Bytes(text), p + l, frames)
  BY DEF DecodeStr
<1>3. IsDigit(Encode(v)[1])
  BY <1>2, FirstByte
<1>4. PICK s \in Seq(STRING) : v = Bytes(s) /\ Encode(v) = EncodeBytes(s)
  <2>1. ~IsDigit("i") /\ ~IsDigit("d") /\ ~IsDigit("l")
    BY DigitValue DEF Structure
  <2> QED
    BY <1>1, <1>3, <2>1, FirstTells
<1>5. PICK d \in Seq(Byte) : /\ EncodeBytes(s) = d \o (<<":">> \o s)
                             /\ IsNumber(d) /\ NumberOf(d) = Len(s)
                             /\ \A i \in 1..Len(d) : d[i] # ":"
  BY BytesText
<1> DEFINE c == <<":">>
           y == c \o s
           z == s \o rest
<1>6. c \in Seq(Byte) /\ Len(c) = 1 /\ ":" \in Byte /\ s \in Seq(Byte)
  BY TextBytes, StructureBytes DEF Structure
<1> HIDE DEF c
<1>7. y \in Seq(Byte) /\ Len(y) = 1 + Len(s) /\ z \in Seq(Byte) /\ Len(z) = Len(s) + Len(rest)
  <2>1. c \in Seq(Byte) /\ s \in Seq(Byte) /\ rest \in Seq(Byte)
    BY <1>1, <1>6
  <2>2. y \in Seq(Byte) /\ Len(y) = Len(c) + Len(s)
    BY <2>1, ConcatParts
  <2>3. z \in Seq(Byte) /\ Len(z) = Len(s) + Len(rest)
    BY <2>1, ConcatParts
  <2> QED
    BY <1>6, <2>2, <2>3
<1>8. Len(s) \in Nat /\ Len(d) \in Nat /\ Len(rest) \in Nat
      /\ Len(content) \in Nat /\ Len(Encode(r)) \in Nat /\ index \in Nat
  BY <1>1, <1>5, PrefixBytes
<1>9. Encode(v) \in Seq(Byte) /\ Encode(v) = d \o y /\ Len(Encode(v)) = Len(d) + 1 + Len(s)
  <2>1. Encode(v) = d \o y
    BY <1>4, <1>5 DEF c
  <2> HIDE DEF y
  <2>2. d \in Seq(Byte) /\ y \in Seq(Byte)
    BY <1>5, <1>7
  <2>3. d \o y \in Seq(Byte) /\ Len(d \o y) = Len(d) + Len(y)
    BY <2>2, ConcatParts
  <2> QED
    BY <1>7, <1>8, <2>1, <2>3
<1>10. Left(Encode(r), index, d \o (<<":">> \o z))
  <2>1. d \in Seq(Byte) /\ y \in Seq(Byte) /\ rest \in Seq(Byte)
    BY <1>1, <1>5, <1>7
  <2> HIDE DEF y
  <2>2. (d \o y) \o rest = d \o (y \o rest)
    BY <2>1, ConcatAssociative
  <2>3. c \in Seq(Byte) /\ s \in Seq(Byte) /\ rest \in Seq(Byte)
    BY <1>1, <1>6
  <2>4. (c \o s) \o rest = c \o (s \o rest)
    BY <2>3, ConcatAssociative
  <2>5. Encode(v) \o rest = d \o (c \o z)
    BY <1>9, <2>2, <2>4 DEF y
  <2> QED
    BY <1>1, <2>5 DEF c
<1> HIDE DEF z, y
<1>11. \/ p = 0 /\ Len(content) < Len(Encode(r))
       \/ p = index + Len(d) + 1 /\ p <= Len(content)
  <2>1. d \in Seq(Byte) /\ z \in Seq(Byte) /\ ":" \in Byte
    BY <1>5, <1>6, <1>7
  <2> QED
    BY <1>5, <1>10, <2>1, FoundAt
<1>12. /\ index + Len(Encode(v)) + Len(rest) = Len(Encode(r))
       /\ \A k \in 1..Len(Encode(v)) :
             index + k <= Len(content) => content[index + k] = Encode(v)[k]
       /\ Left(Encode(r), index + Len(Encode(v)), rest)
  <2>1. Encode(v) \in Seq(Byte) /\ rest \in Seq(Byte)
    BY <1>1, <1>9
  <2> QED
    BY <1>1, <2>1, AheadIs
<1> HIDE DEF p
<1>13. CASE p = 0 /\ Len(content) < Len(Encode(r))
  BY <1>2, <1>13, CutRaises
<1>14. CASE p = index + Len(d) + 1 /\ p <= Len(content)
  <2>1. p # 0 /\ p + Len(s) = index + Len(Encode(v))
    BY <1>8, <1>9, <1>14
  <2>2. digits = d
    <3>1. index + Len(d) <= Len(content) /\ index + Len(d) = p - 1
      BY <1>8, <1>14
    <3>2. ASSUME NEW k \in 1..Len(d)
          PROVE  content[index + k] = d[k]
      <4>1. k \in 1..Len(Encode(v)) /\ index + k <= Len(content)
        BY <1>8, <1>9, <3>1
      <4>2. Encode(v)[k] = d[k]
        <5>1. d \in Seq(Byte) /\ y \in Seq(Byte)
          BY <1>5, <1>7
        <5>2. (d \o y)[k] = d[k]
          BY <5>1, ConcatParts
        <5> QED
          BY <1>9, <5>2
      <4> QED
        BY <1>12, <4>1, <4>2
    <3>3. SubSeq(content, index + 1, index + Len(d)) = d
      BY <1>5, <1>8, <3>1, <3>2, Slice
    <3> QED
      BY <3>1, <3>3
  <2> HIDE DEF digits
  <2>3. l = Len(s)
    BY <1>5, <2>2
  <2>4. CASE p + l > Len(content)
    <3>1. Raise("RuntimeError")
      BY <1>2, <1>5, <2>1, <2>2, <2>4
    <3>2. Len(content) < Len(Encode(r))
      BY <1>8, <1>12, <2>1, <2>3, <2>4
    <3> QED
      BY <3>1, <3>2, CutRaises
  <2>5. CASE ~(p + l > Len(content))
    <3>1. Return(Bytes(text), p + l, frames)
      BY <1>2, <1>5, <2>1, <2>2, <2>5
    <3>2. text = s
      <4>1. p \in Nat /\ p + Len(s) <= Len(content) /\ p + l = p + Len(s)
        BY <1>8, <1>14, <2>3, <2>5
      <4>2. ASSUME NEW k \in 1..Len(s)
            PROVE  content[p + k] = s[k]
        <5> DEFINE j == Len(d) + (1 + k)
        <5>1. j \in 1..Len(Encode(v)) /\ index + j = p + k /\ index + j <= Len(content)
          BY <1>8, <1>9, <1>14, <4>1
        <5>2. d \in Seq(Byte) /\ y \in Seq(Byte) /\ 1 + k \in 1..Len(y)
          BY <1>5, <1>7, <1>8
        <5>3. (d \o y)[j] = y[1 + k]
          BY <5>2, ConcatParts
        <5>4. y[1 + k] = s[k]
          <6>1. c \in Seq(Byte) /\ s \in Seq(Byte)
            BY <1>6
          <6>2. (c \o s)[Len(c) + k] = s[k]
            BY <6>1, ConcatParts
          <6> QED
            BY <1>6, <6>2 DEF y
        <5> HIDE DEF j
        <5> QED
          BY <1>9, <1>12, <5>1, <5>3, <5>4
      <4>3. SubSeq(content, p + 1, p + Len(s)) = s
        BY <1>6, <4>1, <4>2, Slice
      <4> QED
        BY <4>1, <4>3
    <3>3. Return(v, p + l, frames)
      BY <1>4, <3>1, <3>2
    <3>4. Left(Encode(r), p + l, rest)
      BY <1>12, <2>1, <2>3
    <3> QED
      BY <1>1, <3>3, <3>4, ReturnTrack
  <2> QED
    BY <2>4, <2>5
<1> QED
  BY <1>11, <1>13, <1>14

\* What a container that is not at its end waits for.
LEMMA ItemAhead ==
    ASSUME NEW f, NEW t \in Visits, t.at < Len(t.v[2]), f.key = NoKey
    PROVE  \E v \in AnyValue, rest \in Seq(Byte) :
              Expects(f, t, v, rest) /\ After(t, t.at) = Encode(v) \o rest
<1> DEFINE item == t.v[2][t.at + 1]
           after == After(t, t.at + 1)
<1>1. t.v \in AnyValue /\ IsContainer(t.v) /\ t.at \in Nat /\ Len(t.v[2]) \in Nat
  BY PartsOf DEF Visits
<1>2. t.at \in 0..Len(t.v[2]) /\ t.at + 1 \in 0..Len(t.v[2]) /\ t.at + 1 \in 1..Len(t.v[2])
  BY <1>1
<1>3. After(t, t.at) = Parts(t.v)[t.at + 1] \o after /\ after \in Seq(Byte)
  BY <1>2, AfterIs
<1>4. Parts(t.v)[t.at + 1] = IF IsKind("list", t.v) THEN Encode(item)
                             ELSE Encode(item[1]) \o Encode(item[2])
  BY <1>1, <1>2, PartsOf
<1> HIDE DEF after
<1>5. CASE IsKind("list", t.v)
  <2>1. item \in AnyValue
    BY <1>1, <1>2, <1>5, Containers
  <2>2. Expects(f, t, item, after)
    BY <1>5 DEF Expects, after
  <2>3. After(t, t.at) = Encode(item) \o after
    BY <1>3, <1>4, <1>5
  <2> HIDE DEF item
  <2> QED
    BY <1>3, <2>1, <2>2, <2>3
<1>6. CASE ~IsKind("list", t.v)
  <2> DEFINE a == Encode(item[1])
             b == Encode(item[2])
             rest == b \o after
  <2>1. IsKind("dict", t.v) /\ t.v[2] \in Seq(Entries)
    BY <1>1, <1>6, Containers
  <2>2. item[1] \in AnyValue /\ item[2] \in AnyValue
    <3>1. item \in Entries
      BY <1>2, <2>1
    <3>2. item[1] \in Texts /\ item[2] \in AnyValue
      BY <3>1 DEF Entries
    <3>3. \E s \in Seq(STRING) : item[1] = Bytes(s)
      BY <3>2 DEF Texts, Bytes
    <3> QED
      BY <3>2, <3>3, TextsAreValues
  <2>3. a \in Seq(Byte) /\ b \in Seq(Byte) /\ after \in Seq(Byte)
    BY <1>3, <2>2, EncodeShape
  <2>4. Expects(f, t, item[1], rest)
    BY <2>1 DEF Expects, after
  <2> HIDE DEF a, b
  <2>5. (a \o b) \o after = a \o (b \o after)
    BY <2>3, ConcatAssociative
  <2>6. rest \in Seq(Byte)
    BY <2>3, ConcatParts
  <2>7. After(t, t.at) = a \o rest
    BY <1>3, <1>4, <1>6, <2>5 DEF a, b
  <2> HIDE DEF rest, item
  <2>8. item[1] \in AnyValue /\ After(t, t.at) = Encode(item[1]) \o rest
    BY <2>2, <2>7 DEF a
  <2> QED
    BY <2>4, <2>6, <2>8
<1> QED
  BY <1>5, <1>6

\* In the loop of a container, at its end or before another item.
LEMMA LoopAt ==
    ASSUME NEW r, OnTrack(r, frames, index, "loop", decoded)
    PROVE  \E w :
              LET t == Last(w) IN
              /\ Nested(r, frames, w) /\ frames # <<>>
              /\ Last(frames) = FrameOf(t, NoKey) /\ Inside(Last(frames), t) /\ t \in Visits
              /\ \/ t.at = Len(t.v[2]) /\ Left(Encode(r), index, <<"e">> \o t.rest)
                 \/ \E v, rest : Expecting(r, w, v, rest)
<1>1. PICK w : /\ Nested(r, frames, w) /\ frames # <<>> /\ Last(frames).key = NoKey
               /\ Left(Encode(r), index, After(Last(w), Last(w).at))
  BY DEF OnTrack
<1> DEFINE t == Last(w)
           f == Last(frames)
<1>2. f \in AnyFrame /\ t \in Visits /\ Inside(f, t)
  BY <1>1, Popped
<1>3. f = FrameOf(t, NoKey)
  BY <1>1, <1>2 DEF Inside
<1>4. t.at \in Nat /\ Len(t.v[2]) \in Nat /\ t.at <= Len(t.v[2])
  BY <1>2, PartsOf DEF Visits
<1>5. CASE t.at = Len(t.v[2])
  <2>1. t.at \in 0..Len(t.v[2])
    BY <1>4
  <2>2. After(t, t.at) = <<"e">> \o t.rest
    BY <1>2, <1>5, <2>1, AfterIs
  <2> QED
    BY <1>1, <1>2, <1>3, <1>5, <2>2
<1>6. CASE t.at < Len(t.v[2])
  <2>1. PICK v \in AnyValue, rest \in Seq(Byte) :
           Expects(f, t, v, rest) /\ After(t, t.at) = Encode(v) \o rest
    BY <1>1, <1>2, <1>6, ItemAhead
  <2>2. ExpectedBy(r, frames, w, Len(frames), v, rest)
    <3>1. frames \in Seq(AnyFrame) /\ Len(w) = Len(frames)
      BY <1>1 DEF Nested
    <3>2. Len(frames) # 0
      BY <1>1, <3>1
    <3> QED
      BY <2>1, <3>1, <3>2 DEF ExpectedBy, Last
  <2>3. Left(Encode(r), index, Encode(v) \o rest)
    BY <1>1, <2>1
  <2>4. Expecting(r, w, v, rest)
    BY <1>1, <2>2, <2>3 DEF Expecting
  <2> QED
    BY <1>1, <1>2, <1>3, <2>4
<1> QED
  BY <1>4, <1>5, <1>6

LEMMA EndBytes ==
    ASSUME NEW r, Reading(r), NEW rest \in Seq(Byte), Left(Encode(r), index, <<"e">> \o rest)
    PROVE  /\ index + 1 + Len(rest) = Len(Encode(r)) /\ Left(Encode(r), index + 1, rest)
           /\ Here # "e" => index = Len(content)
<1> DEFINE e == <<"e">>
<1>1. e \in Seq(Byte) /\ Len(e) = 1 /\ e[1] = "e" /\ 1 \in 1..Len(e)
  BY StructureBytes DEF Structure
<1>2. Left(Encode(r), index, e \o rest)
  OBVIOUS
<1> HIDE DEF e
<1>3. /\ index + Len(e) + Len(rest) = Len(Encode(r))
      /\ \A k \in 1..Len(e) : index + k <= Len(content) => content[index + k] = e[k]
      /\ Left(Encode(r), index + Len(e), rest)
  BY <1>1, <1>2, AheadIs
<1>4. index \in Nat /\ Len(content) \in Nat /\ index <= Len(content)
  BY PrefixBytes
<1>5. ASSUME index < Len(content)
      PROVE  Here = "e"
  <2>1. index + 1 <= Len(content)
    BY <1>4, <1>5
  <2> QED
    BY <1>1, <1>3, <1>5, <2>1 DEF Here
<1>6. Here # "e" => index = Len(content)
  BY <1>4, <1>5
<1> QED
  BY <1>1, <1>3, <1>6

LEMMA LoopItemStep ==
    ASSUME NEW r, Reading(r), OnTrack(r, frames, index, "loop", decoded), LoopItem
    PROVE  OnTrack(r, frames', index', dpc', decoded') \/ Doomed(r)'
<1>1. /\ Here # "e" /\ dpc' = "decode"
      /\ content' = content /\ index' = index /\ frames' = frames
  BY DEF LoopItem
<1>2. PICK w :
         LET t == Last(w) IN
         /\ Nested(r, frames, w) /\ frames # <<>>
         /\ t \in Visits
         /\ \/ t.at = Len(t.v[2]) /\ Left(Encode(r), index, <<"e">> \o t.rest)
            \/ \E v, rest : Expecting(r, w, v, rest)
  BY LoopAt
<1> DEFINE end == Last(w).rest
<1>3. CASE Left(Encode(r), index, <<"e">> \o end)
  <2>1. end \in Seq(Byte)
    BY <1>2 DEF Visits
  <2>2. /\ index + 1 + Len(end) = Len(Encode(r)) /\ (Here # "e" => index = Len(content))
    BY <1>3, <2>1, EndBytes
  <2>3. index = Len(content) /\ Len(content) < Len(Encode(r))
    <3>1. Len(end) \in Nat /\ Len(content) \in Nat
      BY <2>1, PrefixBytes
    <3> QED
      BY <1>1, <2>2, <3>1
  <2>4. AtEnd'
    <3>1. index + 1 >= Len(content)
      BY <2>3, PrefixBytes
    <3> QED
      BY <1>1, <3>1 DEF AtEnd
  <2> QED
    BY <1>1, <2>3, <2>4 DEF Doomed
<1>4. ASSUME NEW v, NEW rest, Expecting(r, w, v, rest)
      PROVE  OnTrack(r, frames', index', dpc', decoded')
  <2>1. /\ Nested(r, frames, w) /\ v \in AnyValue /\ rest \in Seq(Byte)
        /\ ExpectedBy(r, frames, w, Len(frames), v, rest)
        /\ Left(Encode(r), index, Encode(v) \o rest)
    BY <1>4 DEF Expecting
  <2>2. OnTrack(r, frames, index, "decode", decoded')
    BY <2>1, AtDecode
  <2> QED
    BY <1>1, <2>2
<1> QED
  BY <1>2, <1>3, <1>4

LEMMA LoopEndStep ==
    ASSUME NEW r, Reading(r), OnTrack(r, frames, index, "loop", decoded), LoopEnd
    PROVE  OnTrack(r, frames', index', dpc', decoded')
<1>1. Here = "e" /\ Return(Collected(Last(frames)), index + 1, Front(frames))
  BY DEF LoopEnd
<1>2. PICK w :
         LET t == Last(w) IN
         /\ Nested(r, frames, w) /\ frames # <<>>
         /\ Last(frames) = FrameOf(t, NoKey) /\ t \in Visits
         /\ \/ t.at = Len(t.v[2]) /\ Left(Encode(r), index, <<"e">> \o t.rest)
            \/ \E v, rest : Expecting(r, w, v, rest)
  BY LoopAt
<1> DEFINE t == Last(w)
           end == t.rest
<1>3. t.v \in AnyValue /\ IsContainer(t.v) /\ end \in Seq(Byte)
  BY <1>2 DEF Visits
<1>4. ASSUME NEW v, NEW rest, Expecting(r, w, v, rest)
      PROVE  FALSE
  <2>1. v \in AnyValue
    BY <1>4 DEF Expecting
  <2>2. Encode(v)[1] # "e"
    BY <2>1, EncodeShape
  <2>3. index < Len(content)
    <3>1. index < Len(content) \/ Here = ""
      BY DEF Here
    <3> QED
      BY <1>1, <3>1
  <2> QED
    BY <1>1, <1>4, <2>2, <2>3, FirstByte
<1>5. t.at = Len(t.v[2]) /\ Left(Encode(r), index, <<"e">> \o end)
  BY <1>2, <1>4
<1>6. Left(Encode(r), index + 1, end)
  BY <1>3, <1>5, EndBytes
<1>7. Collected(Last(frames)) = t.v
  <2>1. \E S : t.v[2] \in Seq(S)
    BY <1>3, Containers
  <2>2. SubSeq(t.v[2], 1, t.at) = t.v[2]
    BY <1>5, <2>1, SubSeqFull
  <2>3. Last(frames).kind = t.v[1] /\ Last(frames).items = t.v[2]
    <3>1. /\ FrameOf(t, NoKey).kind = t.v[1]
          /\ FrameOf(t, NoKey).items = SubSeq(t.v[2], 1, t.at)
      BY FrameParts
    <3> QED
      BY <1>2, <2>2, <3>1
  <2>4. CASE IsKind("list", t.v)
    <3>1. t.v = List(t.v[2])
      BY <1>3, <2>4, Containers
    <3> QED
      BY <2>3, <2>4, <3>1 DEF Collected, IsKind
  <2>5. CASE ~IsKind("list", t.v)
    <3>1. t.v = Dict(t.v[2])
      BY <1>3, <2>5, Containers
    <3> QED
      BY <2>3, <2>5, <3>1 DEF Collected, IsKind
  <2> QED
    BY <2>4, <2>5
<1>8. /\ Nested(r, Front(frames), Front(w))
      /\ ExpectedBy(r, Front(frames), Front(w), Len(Front(frames)), t.v, end)
  BY <1>2, Popped
<1>9. Return(t.v, index + 1, Front(frames))
  BY <1>1, <1>7
<1> QED
  BY <1>3, <1>6, <1>8, <1>9, ReturnTrack

\* A step of the decoder leaves it where it should be, or tells that the data were cut.
LEMMA ReadStep ==
    ASSUME NEW r, Reading(r), OnCourse(r), DecoderNext
    PROVE  OnCourse(r)'
<1>1. CASE Doomed(r)
  <2>1. Len(content) < Len(Encode(r)) /\ dpc = "decode" /\ AtEnd
    BY <1>1 DEF Doomed, DecoderNext, DecodeEof, DecodeInvalid, DecodeEnd, DecodeContainer,
                DecodeInt, DecodeStr, LoopItem, LoopEnd
  <2>2. DecodeEof
    BY <2>1 DEF DecoderNext, DecodeEof, DecodeInvalid, DecodeEnd, DecodeContainer,
                DecodeInt, DecodeStr, LoopItem, LoopEnd
  <2>3. Raise("EOFError")
    BY <2>2 DEF DecodeEof
  <2>4. Doomed(r)'
    BY <2>1, <2>3, CutRaises
  <2> QED
    BY <2>4 DEF OnCourse
<1>2. CASE OnTrack(r, frames, index, dpc, decoded)
  <2>1. CASE dpc = "decode"
    <3>1. PICK w, v, rest : Expecting(r, w, v, rest)
      BY <1>2, <2>1 DEF OnTrack, Expecting
    <3>2. /\ v \in AnyValue /\ Encode(v)[1] # "e"
          /\ AtEnd => Len(content) < Len(Encode(r))
          /\ ~AtEnd => Here = Encode(v)[1]
      BY <3>1, FirstByte, EncodeShape DEF Expecting
    <3>3. CASE DecodeEof
      <4>1. Raise("EOFError") /\ Len(content) < Len(Encode(r))
        BY <3>2, <3>3 DEF DecodeEof
      <4> QED
        BY <4>1, CutRaises DEF OnCourse
    <3>4. CASE DecodeInvalid \/ DecodeEnd
      <4>1. /\ ~AtEnd /\ \/ Here \notin {"d", "l", "i", "e"} /\ ~IsDigit(Here)
                         \/ Here = "e"
        BY <3>4 DEF DecodeInvalid, DecodeEnd
      <4>2. Encode(v)[1] \in {"d", "l", "i"} \/ IsDigit(Encode(v)[1])
        BY <3>2, FirstTells
      <4> QED
        BY <3>2, <4>1, <4>2
    <3>5. CASE DecodeContainer
      BY <3>1, <3>5, ContainerStep DEF OnCourse
    <3>6. CASE DecodeInt
      BY <3>1, <3>6, IntStep DEF OnCourse
    <3>7. CASE DecodeStr
      BY <3>1, <3>7, StrStep DEF OnCourse
    <3> QED
      BY <2>1, <3>3, <3>4, <3>5, <3>6, <3>7 DEF DecoderNext, LoopItem, LoopEnd
  <2>2. CASE dpc = "loop"
    <3>1. OnTrack(r, frames, index, "loop", decoded)
      BY <1>2, <2>2
    <3>2. CASE LoopItem
      BY <3>1, <3>2, LoopItemStep DEF OnCourse
    <3>3. CASE LoopEnd
      BY <3>1, <3>3, LoopEndStep DEF OnCourse
    <3> QED
      BY <2>2, <3>2, <3>3 DEF DecoderNext, DecodeEof, DecodeInvalid, DecodeEnd, DecodeContainer,
                              DecodeInt, DecodeStr
  <2>3. dpc = "decode" \/ dpc = "loop"
    BY DEF DecoderNext, DecodeEof, DecodeInvalid, DecodeEnd, DecodeContainer,
           DecodeInt, DecodeStr, LoopItem, LoopEnd
  <2> QED
    BY <2>1, <2>2, <2>3
<1> QED
  BY <1>1, <1>2 DEF OnCourse

-----------------------------------------------------------------------------
(* What announce_http makes of a body. *)

TrackInv == \A r \in Responses : dpc # "off" /\ IsPrefix(content, Encode(r)) => OnCourse(r)

\* An answer was decoded.
AnswerInv == IsAnswer => hpc = "done" /\ dpc = "done" /\ ~IsKind("raised", decoded)

HttpInv == BodyInv /\ TrackInv /\ AnswerInv

LEMMA ResponseValues == Responses \subseteq AnyValue
  BY ResponseAssumption DEF AnyValue

\* A whole response is expected in the beginning.
LEMMA ReadingStarts ==
    ASSUME NEW r \in AnyValue, NEW d
    PROVE  OnTrack(r, <<>>, 0, "decode", d)
<1> DEFINE s == Encode(r)
           none == <<>>
<1>1. s \in Seq(Byte) /\ none \in Seq(Byte) /\ none \in Seq(AnyFrame) /\ none \in Seq(Visits)
      /\ Len(none) = 0
  BY EncodeShape
<1>2. Nested(r, none, none)
  <2>1. \A k \in 1..0 : FALSE
    OBVIOUS
  <2> HIDE DEF none
  <2> QED
    BY <1>1, <2>1 DEF Nested
<1>3. ExpectedBy(r, none, none, Len(none), r, none)
  BY <1>1 DEF ExpectedBy
<1>4. Left(s, 0, s \o none)
  <2> HIDE DEF s
  <2>1. SubSeq(s, 1, Len(s)) = s
    BY <1>1, SubSeqFull
  <2>2. s \o <<>> = s
    BY <1>1, ConcatEmptySeq
  <2>3. 0 + 1 = 1
    OBVIOUS
  <2> QED
    BY <2>1, <2>2, <2>3 DEF Left
<1> HIDE DEF none
<1>5. OnTrack(r, none, 0, "decode", d)
  BY <1>1, <1>2, <1>3, <1>4, AtDecode
<1> QED
  BY <1>5 DEF none

LEMMA HttpStart == Init => HttpInv
<1> SUFFICES ASSUME Init
             PROVE  HttpInv
  OBVIOUS
<1>1. dpc = "off" /\ answer = Nothing
  BY DEF Init, HttpAt
<1>2. TrackInv
  BY <1>1 DEF TrackInv
<1>3. AnswerInv
  <2>1. ~IsKind("response", Nothing)
    BY DEF IsKind, Nothing
  <2> QED
    BY <1>1, <2>1 DEF AnswerInv, IsAnswer
<1> QED
  BY <1>2, <1>3, BodyStart DEF HttpInv

LEMMA TrackStep == HttpInv /\ [Next]_vars => TrackInv'
<1> SUFFICES ASSUME HttpInv, [Next]_vars, NEW r \in Responses,
                    dpc' # "off", IsPrefix(content, Encode(r))'
             PROVE  OnCourse(r)'
  BY DEF TrackInv
<1>1. r \in AnyValue /\ IsPrefix(content', Encode(r))
  BY ResponseValues
<1>2. CASE UNCHANGED decoderVars
  <2>1. /\ content' = content /\ index' = index /\ frames' = frames
        /\ dpc' = dpc /\ decoded' = decoded
    BY <1>2 DEF decoderVars
  <2>2. OnCourse(r)
    BY <1>1, <2>1 DEF HttpInv, TrackInv
  <2>3. AtEnd' <=> AtEnd
    BY <2>1 DEF AtEnd
  <2> QED
    BY <2>1, <2>2, <2>3 DEF OnCourse, Doomed
<1>3. CASE GetBody
  <2>1. dpc = "off" /\ index = 0 /\ frames = <<>>
    BY <1>3 DEF GetBody, HttpInv, BodyInv
  <2>2. dpc' = "decode" /\ index' = 0 /\ frames' = <<>>
    BY <1>3, <2>1 DEF GetBody
  <2>3. OnTrack(r, <<>>, 0, "decode", decoded')
    BY <1>1, ReadingStarts
  <2> QED
    BY <2>2, <2>3 DEF OnCourse
<1>4. CASE Decode
  <2>1. DecoderNext
    BY <1>4 DEF Decode
  <2>2. content' = content /\ dpc # "off"
    BY <2>1, DecoderStays DEF HttpInv, BodyInv
  <2>3. Reading(r) /\ OnCourse(r)
    BY <1>1, <2>2 DEF HttpInv, BodyInv, TrackInv, Reading
  <2> QED
    BY <2>1, <2>3, ReadStep
<1> QED
  BY <1>2, <1>3, <1>4 DEF Next, HttpNext, GetFails, Judge, vars, httpVars

LEMMA AnswerStep == HttpInv /\ [Next]_vars => AnswerInv'
<1> SUFFICES ASSUME HttpInv, [Next]_vars
             PROVE  AnswerInv'
  OBVIOUS
<1>1. AnswerInv
  BY DEF HttpInv
<1>2. CASE UNCHANGED httpVars
  BY <1>1, <1>2 DEF AnswerInv, IsAnswer, httpVars, decoderVars
<1>3. ASSUME NEW e, Fail(e)
      PROVE  ~IsAnswer'
  <2>1. ~IsKind("response", Raised(e))
    BY DEF IsKind, Raised
  <2> QED
    BY <1>3, <2>1 DEF Fail, IsAnswer
<1>4. CASE GetFails
  BY <1>3, <1>4 DEF GetFails, AnswerInv
<1>5. CASE GetBody
  <2>1. hpc = "get" /\ (answer' = answer \/ \E e : Fail(e))
    BY <1>5 DEF GetBody
  <2>2. ~IsAnswer
    BY <1>1, <2>1 DEF AnswerInv
  <2>3. ~IsAnswer'
    BY <1>3, <2>1, <2>2 DEF IsAnswer
  <2> QED
    BY <2>3 DEF AnswerInv
<1>6. CASE Decode
  <2>1. hpc = "decode" /\ answer' = answer
    BY <1>6 DEF Decode
  <2> QED
    BY <1>1, <2>1 DEF AnswerInv, IsAnswer
<1>7. CASE Judge
  <2>1. dpc' = "done" /\ decoded' = decoded
        /\ ((\E e : Fail(e)) \/ (~IsKind("raised", Response) /\ hpc' = "done"))
    BY <1>7 DEF Judge, decoderVars
  <2>2. IsKind("raised", decoded) => Response = decoded
    BY DEF Response
  <2> QED
    BY <1>3, <2>1, <2>2 DEF AnswerInv
<1> QED
  BY <1>2, <1>4, <1>5, <1>6, <1>7 DEF Next, HttpNext, vars

LEMMA HttpAlways == Spec => []HttpInv
<1>1. HttpInv /\ [Next]_vars => HttpInv'
  BY BodyStep, TrackStep, AnswerStep DEF HttpInv
<1> QED
  BY <1>1, HttpStart, PTL DEF Spec

\* Every response that can be encoded, of any size and nesting and made of whatever
\* bytes, is decoded to what it was: the calls of decode() and the loops of
\* decode_list and decode_dict take each byte of it for what it is.
THEOREM DecodesAsEncoded == Spec => []RoundTrip
<1>1. HttpInv => RoundTrip
  <2> SUFFICES ASSUME HttpInv, HasDecoded, NEW r \in Responses, body = Encode(r)
               PROVE  decoded = r
    BY DEF RoundTrip
  <2>1. dpc = "done" /\ content = Encode(r)
    BY DEF HasDecoded, HttpInv, BodyInv
  <2>2. IsPrefix(content, Encode(r)) /\ ~(Len(content) < Len(Encode(r)))
    <3>1. Encode(r) \in Seq(Byte)
      BY ResponseValues, EncodeShape
    <3>2. Len(Encode(r)) \in Nat
      BY <3>1
    <3> QED
      BY <2>1, <3>2 DEF IsPrefix
  <2>3. OnCourse(r)
    BY <2>1, <2>2 DEF HttpInv, TrackInv
  <2>4. OnTrack(r, frames, index, "done", decoded)
    BY <2>1, <2>2, <2>3 DEF OnCourse, Doomed
  <2> QED
    BY <2>4 DEF OnTrack
<1> QED
  BY <1>1, HttpAlways, PTL

\* Wherever the encoding of a response is cut, what is left of it is no answer:
\* the decoder runs out of data in the value, the token or the container it is in, and
\* what it has collected by then is lost with it.
THEOREM CutIsNoAnswer == Spec => []NoPartialAnswer
<1>1. HttpInv => NoPartialAnswer
  <2> SUFFICES ASSUME HttpInv, IsAnswer
               PROVE  /\ content = body
                      /\ \A r \in Responses : IsPrefix(body, Encode(r)) => body = Encode(r)
    BY DEF NoPartialAnswer
  <2>1. dpc = "done" /\ ~IsKind("raised", decoded) /\ content = body
    BY DEF HttpInv, AnswerInv, BodyInv
  <2>2. ASSUME NEW r \in Responses, IsPrefix(content, Encode(r))
        PROVE  content = Encode(r)
    <3>1. Reading(r) /\ OnCourse(r)
      BY <2>1, <2>2, ResponseValues DEF HttpInv, BodyInv, TrackInv, Reading
    <3>2. OnTrack(r, frames, index, "done", decoded)
      BY <2>1, <3>1 DEF OnCourse, Doomed
    <3> DEFINE s == Encode(r)
               none == <<>>
    <3>3. Left(s, index, none)
      BY <3>2 DEF OnTrack
    <3>4. /\ s \in Seq(Byte) /\ content \in Seq(Byte)
          /\ Len(content) \in Nat /\ Len(s) \in Nat /\ index \in Nat
          /\ index <= Len(content) /\ Len(content) <= Len(s)
          /\ \A k \in 1..Len(content) : content[k] = s[k]
      BY <3>1, PrefixBytes
    <3> HIDE DEF s
    <3>5. none \in Seq(Byte) /\ none \o none = none /\ Len(none) = 0
      OBVIOUS
    <3> HIDE DEF none
    <3>6. Left(s, index, none \o none) /\ index \in 0..Len(s)
      BY <3>3, <3>4, <3>5
    <3>7. index + Len(none) + Len(none) = Len(s)
      BY <3>4, <3>5, <3>6, AheadSplit
    <3>8. Len(content) = Len(s)
      BY <3>4, <3>5, <3>7
    <3>9. content = s
      BY <3>4, <3>8, SeqEqual
    <3> QED
      BY <3>9 DEF s
  <2> QED
    BY <2>1, <2>2
<1> QED
  BY <1>1, HttpAlways, PTL

=============================================================================
