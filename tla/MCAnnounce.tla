----------------------------- MODULE MCAnnounce -----------------------------
(***************************************************************************)
(* Announce for TLC: a few responses with every shape of value in them, and *)
(* as bodies their encodings, all that is left of those when they are cut,  *)
(* the same with one byte changed or followed by one, and short bodies of   *)
(* any bytes.                                                               *)
(***************************************************************************)
EXTENDS Announce

Key(c) == Bytes(<<c>>)
Peers0 == <<Key("p"), Bytes(<<>>)>>

MCResponses == {Dict(pairs) : pairs \in {
    <<>>,
    <<Peers0>>,
    <<<<Key("t"), Number(30)>>, <<Key("p"), Bytes(<<"1", "2", "i", "4", "e", "6">>)>>>>,
    <<<<Key("p"), Bytes(<<"1", "2", "!", "e", "6", "d">>)>>, <<Key("t"), Number(-7)>>>>,
    <<<<Key("q"), List(<<>>)>>, <<Key("t"), Key("9")>>>>,
    <<<<Key("t"), Number(30)>>, <<Key("p"), Bytes(<<"1", "2", "3", "4", "5", "6">>)>>,
      <<Key("q"), List(<<>>)>>>>,
    <<<<Key("p"), List(<<Dict(<<Peers0>>), Number(0)>>)>>>>,
    <<Peers0, <<Key("x"), Bytes(<<"e", "e", "!", "1">>)>>>>,
    <<Peers0, <<Key("x"), Key("e")>>>>,
    <<Peers0, <<Key("f"), Key("!")>>>>,
    <<<<Key("f"), Key("a")>>, Peers0>>,
    <<<<Key("q"), Dict(<<<<Bytes(<<>>), Number(10)>>>>)>>, <<Key("!"), Number(1)>>>>}}

Alphabet == {"d", "l", "i", "e", ":", "-", "0", "1", "2", "p", "t", "!"}

Encodings == {Encode(r) : r \in MCResponses}

MCBodies ==
    LET Changed(s) == {[s EXCEPT ![i] = c] : i \in DOMAIN s, c \in Alphabet}
    IN Encodings
       \cup UNION {{SubSeq(s, 1, n) : n \in 0..Len(s)} : s \in Encodings}
       \cup UNION {Changed(s) : s \in Encodings}
       \cup {Append(s, c) : s \in Encodings, c \in Alphabet}
       \cup UNION {[1..n -> Alphabet] : n \in 0..3}
=============================================================================
