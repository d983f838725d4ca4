------------------------------ MODULE Bdecode ------------------------------
(***************************************************************************)
(* newtrackon/bdecode.py: the decoder of what a tracker answers over HTTP.  *)
(*                                                                          *)
(* Decoder is recursive; here its calls are the frames of a stack, and each *)
(* action is one call of decode() or one test of the loop of a container.   *)
(* A body is a sequence of bytes. Keys of a response are one byte long      *)
(* here: "p" peers, "q" peers6, "x" external ip, "f" failure reason, "t"    *)
(* interval. The byte "!" is one that is not UTF-8.                         *)
(***************************************************************************)
EXTENDS Integers, Sequences, FiniteSets, SequencesExt

VARIABLES
    content,    \* Decoder.data
    index,      \* Decoder.index
    frames,     \* the containers being decoded, the innermost one last
    dpc,        \* "off", "decode", "loop", "done"
    decoded     \* what decode() returned, or the exception it raised

decoderVars == <<content, index, frames, dpc, decoded>>

-----------------------------------------------------------------------------
(* Values are pairs of a kind and what it holds; a dictionary is the sequence of
   its pairs, in the order in which the keys came first. *)

Number(n) == <<"int", n>>
Bytes(s)  == <<"bytes", s>>
List(s)   == <<"list", s>>
Dict(s)   == <<"dict", s>>
Nothing   == <<"none", 0>>
Raised(e) == <<"raised", e>>

IsKind(kind, v) == v[1] = kind

Digits == <<"0", "1", "2", "3", "4", "5", "6", "7", "8", "9">>
IsDigit(c) == \E i \in DOMAIN Digits : Digits[i] = c
ValueOf(c) == (CHOOSE i \in DOMAIN Digits : Digits[i] = c) - 1

\* int() of bytes: digits after a minus or none; it also takes a plus, blanks and
\* underscores, which are left out.
Magnitude(s) == IF s # <<>> /\ s[1] = "-" THEN Tail(s) ELSE s
IsNumber(s) == Magnitude(s) # <<>> /\ \A i \in DOMAIN Magnitude(s) : IsDigit(Magnitude(s)[i])
Decimal(s) ==
    LET value[i \in 0..Len(s)] == IF i = 0 THEN 0 ELSE 10 * value[i - 1] + ValueOf(s[i])
    IN value[Len(s)]
NumberOf(s) == IF s[1] = "-" THEN -Decimal(Magnitude(s)) ELSE Decimal(s)

Utf8(s) == \A i \in DOMAIN s : s[i] # "!"

Has(pairs, key) == \E i \in DOMAIN pairs : pairs[i][1] = key

\* result[key] = item: a key that is there already keeps its place.
PutPair(pairs, key, item) ==
    IF Has(pairs, key)
    THEN [i \in DOMAIN pairs |-> IF pairs[i][1] = key THEN <<key, item>> ELSE pairs[i]]
    ELSE Append(pairs, <<key, item>>)

Get(pairs, key) == pairs[CHOOSE i \in DOMAIN pairs : pairs[i][1] = key][2]

-----------------------------------------------------------------------------
(* Decoder. *)

NoKey == <<"no key", 0>>
Frame(kind) == [kind |-> kind, key |-> NoKey, items |-> <<>>]

\* data[index:index+1], which is empty past the end
Here == IF index < Len(content) THEN content[index + 1] ELSE ""

\* peek: None already at the last byte
AtEnd == index + 1 >= Len(content)

\* read_until, first byte: where the token is, or 0
Find(token) ==
    LET found == {i \in index + 1..Len(content) : content[i] = token}
    IN IF found = {} THEN 0 ELSE CHOOSE i \in found : \A j \in found : i <= j

Raise(exception) ==
    /\ decoded' = Raised(exception) /\ dpc' = "done"
    /\ UNCHANGED <<content, index, frames>>

\* decode() returns v to the container that called it, and leaves the index at i.
Return(v, i, stack) ==
    /\ index' = i
    /\ UNCHANGED content
    /\ IF stack = <<>>
       THEN decoded' = v /\ dpc' = "done" /\ frames' = <<>>
       ELSE LET frame == Last(stack)
                Into(f) == frames' = Append(Front(stack), f)
            IN IF frame.kind = "list"
               THEN /\ Into([frame EXCEPT !.items = Append(@, v)])
                    /\ dpc' = "loop" /\ UNCHANGED decoded
               ELSE IF frame.key # NoKey
               THEN /\ Into([frame EXCEPT !.key = NoKey,
                                          !.items = PutPair(@, frame.key, v)])
                    /\ dpc' = "loop" /\ UNCHANGED decoded
               ELSE IF IsKind("bytes", v)
               THEN /\ Into([frame EXCEPT !.key = v])
                    /\ dpc' = "decode" /\ UNCHANGED decoded
               ELSE decoded' = Raised("TypeError") /\ dpc' = "done" /\ frames' = stack

DecodeEof     == dpc = "decode" /\ AtEnd /\ Raise("EOFError")
DecodeInvalid == /\ dpc = "decode" /\ ~AtEnd
                 /\ Here \notin {"d", "l", "i", "e"} /\ ~IsDigit(Here)
                 /\ Raise("RuntimeError")

\* An end where a value should be is no value, and is not read: a key may lack one.
DecodeEnd ==
    /\ dpc = "decode" /\ ~AtEnd /\ Here = "e"
    /\ Return(Nothing, index, frames)

DecodeContainer ==
    /\ dpc = "decode" /\ ~AtEnd /\ Here \in {"d", "l"}
    /\ frames' = Append(frames, Frame(IF Here = "d" THEN "dict" ELSE "list"))
    /\ index' = index + 1 /\ dpc' = "loop"
    /\ UNCHANGED <<content, decoded>>

DecodeInt ==
    /\ dpc = "decode" /\ ~AtEnd /\ Here = "i"
    /\ LET end == Find("e")
           digits == SubSeq(content, index + 2, end - 1)
       IN IF end = 0 THEN Raise("RuntimeError")
          ELSE IF ~IsNumber(digits) THEN Raise("ValueError")
          ELSE Return(Number(NumberOf(digits)), end, frames)

DecodeStr ==
    /\ dpc = "decode" /\ ~AtEnd /\ IsDigit(Here)
    /\ LET sep == Find(":")
           digits == SubSeq(content, index + 1, sep - 1)
           length == NumberOf(digits)
       IN IF sep = 0 THEN Raise("RuntimeError")
          ELSE IF ~IsNumber(digits) THEN Raise("ValueError")
          ELSE IF sep + length > Len(content) THEN Raise("RuntimeError")
          ELSE Return(Bytes(SubSeq(content, sep + 1, sep + length)), sep + length, frames)

\* The loop of a container: another item, or its end, which may be the last byte.
LoopItem ==
    /\ dpc = "loop" /\ Here # "e"
    /\ dpc' = "decode"
    /\ UNCHANGED <<content, index, frames, decoded>>

Collected(frame) == IF frame.kind = "list" THEN List(frame.items) ELSE Dict(frame.items)

\* Mutant of LoopEnd: the token is left for the container around.
LoopEndUnread ==
    /\ dpc = "loop" /\ Here = "e"
    /\ Return(Collected(Last(frames)), index, Front(frames))

LoopEnd ==
    /\ dpc = "loop" /\ Here = "e"
    /\ Return(Collected(Last(frames)), index + 1, Front(frames))

DecoderNext ==
    \/ DecodeEof \/ DecodeInvalid \/ DecodeEnd \/ DecodeContainer \/ DecodeInt \/ DecodeStr
    \/ LoopItem \/ LoopEnd

-----------------------------------------------------------------------------
(* bdecode: what the values of the response become. *)

\* decode_binary_peers_list: as many whole peers as there are.
Peers(s, size) == <<"peers", Len(s) \div size>>

IpSized(v) == Len(v[2]) \in {4, 16}

Converted(key, v) ==
    IF ~IsKind("bytes", v) THEN v
    ELSE CASE key = <<"p">> -> Peers(v[2], 6)
           [] key = <<"q">> -> Peers(v[2], 18)
           [] key = <<"x">> -> <<"ip", v[2]>>
           [] OTHER         -> <<"text", v[2]>>

\* The response, or the exception that was raised. Keys and values are UTF-8, but
\* for the values that are something else in binary.
Response ==
    IF IsKind("raised", decoded) THEN decoded
    ELSE IF ~IsKind("dict", decoded) THEN Raised("TypeError")
    ELSE LET pairs   == decoded[2]
             key(i)  == pairs[i][1][2]
             item(i) == pairs[i][2]
             Binary(i) == IsKind("bytes", item(i))
         IN IF \E i \in DOMAIN pairs : ~Utf8(key(i)) THEN Raised("ValueError")
            ELSE IF \E i \in DOMAIN pairs :
                      Binary(i) /\ key(i) = <<"x">> /\ ~IpSized(item(i))
            THEN Raised("RuntimeError")
            ELSE IF \E i \in DOMAIN pairs :
                      Binary(i) /\ key(i) \notin {<<"p">>, <<"q">>, <<"x">>} /\ ~Utf8(item(i)[2])
            THEN Raised("ValueError")
            ELSE <<"response",
                   [i \in DOMAIN pairs |-> <<key(i), Converted(key(i), item(i))>>]>>
=============================================================================
