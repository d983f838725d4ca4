------------------------- MODULE Submission_proofs --------------------------
(***************************************************************************)
(* What the worker leaves in its history, for any candidates, records,      *)
(* intervals and length of the history, and killed at any moment: no        *)
(* refused interval is shown as accepted, every insertion is shown as one,  *)
(* and the tries of a candidate are the head of the history.                *)
(*                                                                          *)
(* Every argument rests on the same fact: between an attempt and the last   *)
(* word on it the newest entry is the entry of that attempt (HandInv).      *)
(***************************************************************************)
EXTENDS Submission, DataInduction

-----------------------------------------------------------------------------
(* The history and the attempts. *)

Busy == {"lookup", "attempt", "verdict", "mark", "insert", "save", "dump"}

Preference == [proto : {"udp", "tcp"}, port : Port]

Limits ==
    /\ HistoryMax \in Nat /\ HistoryMax >= 1
    /\ Intervals \subseteq Int /\ None \notin Intervals
    /\ MinInterval \in Nat /\ MaxInterval \in Nat /\ MinInterval > 0
    /\ None \notin Candidates /\ None \notin Attempt /\ None \notin Entry
    /\ PortOf \in [Candidates -> Nat] /\ NoPort \in Port
    /\ \A c \in Candidates : PortOf[c] \in Port

LEMMA LimitsHold == Limits
  <1>1. NoPort \in Port /\ \A c \in Candidates : PortOf[c] \in Port
    BY DEF Port
  <1> QED
    BY <1>1, SubmissionAssumption DEF Limits

\* What AppendLeft makes of a history.
Prepended(e, s) ==
    SubSeq(<<e>> \o s, 1, IF Len(s) < HistoryMax THEN Len(s) + 1 ELSE HistoryMax)

LEMMA Added ==
    ASSUME NEW s \in Seq(Entry), Len(s) <= HistoryMax, NEW e \in Entry
    PROVE  LET t == Prepended(e, s) IN
           /\ t \in Seq(Entry)
           /\ Len(t) = IF Len(s) < HistoryMax THEN Len(s) + 1 ELSE HistoryMax
           /\ t[1] = e
           /\ \A k \in 1..Len(t) - 1 : t[k + 1] = s[k]
  <1> DEFINE n == IF Len(s) < HistoryMax THEN Len(s) + 1 ELSE HistoryMax
             u == <<e>> \o s
             t == Prepended(e, s)
  <1>1. Len(s) \in Nat /\ n \in Nat /\ n >= 1 /\ n <= Len(s) + 1
    BY LimitsHold DEF Limits
  <1>2. /\ u \in Seq(Entry) /\ Len(u) = Len(s) + 1 /\ u[1] = e
        /\ \A k \in 1..Len(s) : u[k + 1] = s[k]
    <2>1. <<e>> \in Seq(Entry) /\ Len(<<e>>) = 1 /\ <<e>>[1] = e
      OBVIOUS
    <2>2. /\ u \in Seq(Entry) /\ Len(u) = 1 + Len(s)
          /\ \A i \in 1..1 + Len(s) : u[i] = IF i <= 1 THEN <<e>>[i] ELSE s[i - 1]
      BY <2>1, ConcatProperties
    <2>3. \A k \in 1..Len(s) : k + 1 \in 1..1 + Len(s) /\ ~(k + 1 <= 1) /\ k + 1 - 1 = k
      BY <1>1
    <2> HIDE DEF u
    <2> QED
      BY <1>1, <2>1, <2>2, <2>3
  <1> HIDE DEF u
  <1>3. \A i \in 1..n : u[i] \in Entry
    <2>1. \A i \in 1..n : i \in 1..Len(u)
      BY <1>1, <1>2
    <2> QED
      BY <1>2, <2>1, ElementOfSeq
  <1>4. t = SubSeq(u, 1, n)
    BY DEF u, Prepended
  <1> HIDE DEF n, t
  <1>5. /\ t \in Seq(Entry) /\ Len(t) = n
        /\ \A i \in 1..n : t[i] = u[i]
    <2>1. 1 \in Int /\ n \in Int /\ 1 <= n
      BY <1>1
    <2>2. /\ SubSeq(u, 1, n) \in Seq(Entry)
          /\ Len(SubSeq(u, 1, n)) = IF 1 <= n THEN n - 1 + 1 ELSE 0
          /\ \A i \in 1..n - 1 + 1 : SubSeq(u, 1, n)[i] = u[1 + i - 1]
      BY <1>3, <2>1, SubSeqProperties
    <2>3. n - 1 + 1 = n /\ \A i \in 1..n : 1 + i - 1 = i
      BY <2>1
    <2> QED
      BY <1>4, <2>1, <2>2, <2>3
  <1>6. \A k \in 1..n - 1 : k + 1 \in 1..n /\ k \in 1..Len(s)
    BY <1>1
  <1>7. 1 \in 1..n
    BY <1>1
  <1> QED
    BY <1>2, <1>5, <1>6, <1>7 DEF n, t

\* An attempt, whichever: it leaves its entry, and it ends the search, the candidate's
\* turn, or neither.
Trying(a) ==
    /\ pc = "attempt" /\ a.port \in Port
    /\ AppendLeft(EntryOf(a)) /\ tries' = Append(tries, a)
    /\ \/ Succeeded(a) /\ pc' = "verdict" /\ result' = a /\ prefs' = prefs
       \/ /\ ~Succeeded(a) /\ result' = result
          /\ \/ pc' = "attempt" /\ prefs' = prefs
             \/ pc' = "attempt" /\ prefs' = Tail(prefs) /\ prefs' # <<>>
             \/ pc' = "save" /\ prefs' = Tail(prefs)
    /\ tls' \in {tls, TRUE, FALSE}
    /\ UNCHANGED <<waiting, debug, cand, file, listed, found, dropped>>

LEMMA Attempts ==
    TryUdp \/ TryHttps \/ TryHttp => \E a \in Attempt : Trying(a)
  <1>1. ASSUME TryUdp PROVE \E a \in Attempt : Trying(a)
    <2>1. PICK a \in Outcomes("udp") :
             Tried(a) /\ IF Succeeded(a) THEN Found(a) ELSE NextPreference
      BY <1>1 DEF TryUdp
    <2> QED
      BY <1>1, <2>1 DEF TryUdp, Outcomes, Tried, Found, NextPreference, Trying, Attempt
  <1>2. ASSUME TryHttps PROVE \E a \in Attempt : Trying(a)
    <2>1. PICK a \in Outcomes("https") :
             /\ Tried(a)
             /\ IF Succeeded(a) THEN Found(a)
                ELSE tls' = TRUE /\ UNCHANGED <<pc, prefs, result>>
      BY <1>2 DEF TryHttps
    <2> QED
      BY <1>2, <2>1 DEF TryHttps, Outcomes, Tried, Found, Trying, Attempt
  <1>3. ASSUME TryHttp PROVE \E a \in Attempt : Trying(a)
    <2>1. PICK a \in Outcomes("http") :
             Tried(a) /\ IF Succeeded(a) THEN Found(a) ELSE NextPreference
      BY <1>3 DEF TryHttp
    <2> QED
      BY <1>3, <2>1 DEF TryHttp, Outcomes, Tried, Found, NextPreference, Trying, Attempt
  <1> QED
    BY <1>1, <1>2, <1>3

LEMMA EntryTyped ==
    ASSUME cand \in Candidates, NEW a \in Attempt
    PROVE  EntryOf(a) \in Entry
  BY DEF EntryOf, Attempt, Entry

-----------------------------------------------------------------------------
(* Types, and what the worker has in hand. *)

HandInv ==
    /\ pc \in Busy => cand \in Candidates
    /\ pc \in {"verdict", "insert"} =>
          /\ result \in Attempt /\ Succeeded(result)
          /\ submitted # <<>> /\ submitted[1] = EntryOf(result)
    /\ pc = "insert" => InRange(result.interval)
    /\ file # Torn => Len(file) <= HistoryMax

\* The invariants of a step that adds entry e to the history.
LEMMA AddedTyped ==
    ASSUME TypeOK, NEW e \in Entry, AppendLeft(e)
    PROVE  /\ submitted' \in Seq(Entry) /\ Len(submitted') <= HistoryMax
           /\ submitted' # <<>> /\ submitted'[1] = e
           /\ Len(submitted') \in Nat
           /\ Len(submitted') = IF Len(submitted) < HistoryMax THEN Len(submitted) + 1
                                ELSE HistoryMax
           /\ \A k \in 1..Len(submitted') - 1 : submitted'[k + 1] = submitted[k]
  <1>1. submitted \in Seq(Entry) /\ Len(submitted) <= HistoryMax /\ Len(submitted) \in Nat
    BY DEF TypeOK
  <1>2. /\ submitted' \in Seq(Entry)
        /\ Len(submitted') = IF Len(submitted) < HistoryMax THEN Len(submitted) + 1
                             ELSE HistoryMax
        /\ submitted'[1] = e
        /\ \A k \in 1..Len(submitted') - 1 : submitted'[k + 1] = submitted[k]
    <2>1. submitted' = Prepended(e, submitted)
      BY DEF AppendLeft, Prepended
    <2> QED
      BY <1>1, <2>1, Added
  <1>3. Len(submitted') >= 1
    BY <1>1, <1>2, LimitsHold DEF Limits
  <1>4. submitted' # <<>>
    BY <1>3
  <1> QED
    BY <1>1, <1>2, <1>4, LimitsHold DEF Limits

LEMMA PreferencesTyped ==
    ASSUME cand \in Candidates, NEW record \in BepRecords \ {<<>>}
    PROVE  Preferences(record) \in Seq(Preference) /\ Preferences(record) # <<>>
  <1>1. CASE record # None
    <2>1. record \in Seq([proto : {"udp", "tcp"}, port : Nat])
      BY <1>1, SubmissionAssumption
    <2>2. \A i \in 1..Len(record) : record[i] \in Preference
      <3> SUFFICES ASSUME NEW i \in 1..Len(record)
                   PROVE  record[i] \in Preference
        OBVIOUS
      <3>1. record[i] \in [proto : {"udp", "tcp"}, port : Nat]
        BY <2>1, ElementOfSeq
      <3>2. record[i] \in ToSet(record)
        BY <2>1 DEF ToSet
      <3>3. record[i].port \in {p.port : p \in ToSet(record)}
        BY <3>2
      <3>4. record[i].port \in UNION {{p.port : p \in ToSet(r)} : r \in BepRecords \ {None}}
        BY <1>1, <3>3
      <3>5. record[i].port \in Port
        BY <3>4 DEF Port
      <3> QED
        BY <3>1, <3>5 DEF Preference
    <2>3. record \in Seq(Preference)
      BY <2>1, <2>2
    <2> QED
      BY <1>1, <2>3 DEF Preferences
  <1>2. CASE record = None
    <2> DEFINE udp == [proto |-> "udp", port |-> PortOf[cand]]
               tcp == [proto |-> "tcp", port |-> PortOf[cand]]
    <2>1. udp \in Preference /\ tcp \in Preference
      BY LimitsHold DEF Limits, Preference
    <2>2. Preferences(record) = (IF PortOf[cand] = NoPort THEN <<>> ELSE <<udp>>) \o <<tcp>>
      BY <1>2 DEF Preferences
    <2> HIDE DEF udp, tcp
    <2>3. <<udp>> \in Seq(Preference) /\ <<tcp>> \in Seq(Preference) /\ Len(<<tcp>>) = 1
      BY <2>1
    <2>4. <<>> \in Seq(Preference)
      OBVIOUS
    <2>5. \A s \in Seq(Preference) : s \o <<tcp>> \in Seq(Preference)
                                      /\ Len(s \o <<tcp>>) = Len(s) + 1 /\ Len(s) \in Nat
      BY <2>3, ConcatProperties
    <2>6. \A s \in Seq(Preference) : s \o <<tcp>> # <<>>
      BY <2>5
    <2> QED
      BY <2>2, <2>3, <2>4, <2>5, <2>6
  <1> QED
    BY <1>1, <1>2

LEMMA TypeStep == TypeOK /\ HandInv /\ [Next]_vars => TypeOK' /\ HandInv'
  <1> SUFFICES ASSUME TypeOK, HandInv, [Next]_vars
               PROVE  TypeOK' /\ HandInv'
    OBVIOUS
  <1> USE DEF Preference
  <1>0. CASE UNCHANGED vars
    BY <1>0 DEF vars, TypeOK, HandInv, EntryOf, Busy
  <1>1. CASE TakeCandidate
    <2>1. prefs' = <<>> /\ prefs' \in Seq(Preference) /\ tries' \in Seq(Attempt)
      BY <1>1 DEF TakeCandidate
    <2>2. cand' \in Candidates /\ waiting' \subseteq Candidates
      BY <1>1 DEF TakeCandidate, TypeOK
    <2> QED
      BY <1>1, <2>1, <2>2, SubmissionAssumption DEF TakeCandidate, TypeOK, HandInv, Busy
  <1>2. CASE DenyListed \/ RaisesValueError \/ Raises
    BY <1>2 DEF DenyListed, RaisesValueError, Raises, TypeOK, HandInv, Busy
  <1>3. CASE LookupBep34
    <2>1. PICK record \in BepRecords \ {<<>>} :
             found' = record /\ prefs' = Preferences(record)
      BY <1>3 DEF LookupBep34
    <2>2. prefs' \in Seq(Preference) /\ prefs' # <<>>
      BY <1>3, <2>1, PreferencesTyped DEF LookupBep34, HandInv, Busy
    <2> QED
      BY <1>3, <2>1, <2>2 DEF LookupBep34, TypeOK, HandInv, Busy
  <1>4. CASE DeniedByBep34
    <2> DEFINE e == [cand |-> cand, proto |-> None, port |-> PortOf[cand],
                     status |-> 0, interval |-> None]
    <2>1. e \in Entry
      BY <1>4, LimitsHold DEF DeniedByBep34, HandInv, Busy, Entry, Limits
    <2>2. AppendLeft(e)
      BY <1>4 DEF DeniedByBep34
    <2> HIDE DEF e
    <2>3. submitted' \in Seq(Entry) /\ Len(submitted') <= HistoryMax
      BY <2>1, <2>2, AddedTyped
    <2> QED
      BY <1>4, <2>3 DEF DeniedByBep34, TypeOK, HandInv, Busy
  <1>5. CASE TryUdp \/ TryHttps \/ TryHttp
    <2>1. PICK a \in Attempt : Trying(a)
      BY <1>5, Attempts
    <2>2. cand \in Candidates /\ pc = "attempt" /\ prefs # <<>>
      BY <2>1 DEF Trying, HandInv, Busy, TypeOK
    <2>3. EntryOf(a) \in Entry /\ AppendLeft(EntryOf(a))
      BY <2>1, <2>2, EntryTyped DEF Trying
    <2>4. /\ submitted' \in Seq(Entry) /\ Len(submitted') <= HistoryMax
          /\ submitted' # <<>> /\ submitted'[1] = EntryOf(a)
      BY <2>3, AddedTyped
    <2>5. prefs' \in Seq(Preference) /\ (pc' = "attempt" => prefs' # <<>>)
      <3>1. prefs \in Seq(Preference)
        BY DEF TypeOK
      <3>2. Tail(prefs) \in Seq(Preference)
        BY <2>2, <3>1
      <3> QED
        BY <2>1, <2>2, <3>1, <3>2 DEF Trying
    <2>6. tries' \in Seq(Attempt)
      BY <2>1 DEF Trying, TypeOK
    <2>7. TypeOK'
      <3>1. /\ result' \in Attempt \cup {None} /\ tls' \in BOOLEAN
            /\ pc' \in {"attempt", "verdict", "save"}
            /\ pc' = "verdict" => result' # None
        BY <2>1, LimitsHold DEF Trying, TypeOK, Limits
      <3>2. UNCHANGED <<waiting, debug, cand, file, listed, found, dropped>>
        BY <2>1 DEF Trying
      <3> QED
        BY <2>4, <2>5, <2>6, <3>1, <3>2 DEF TypeOK
    <2>8. cand' = cand /\ file' = file
      BY <2>1 DEF Trying
    <2>9. EntryOf(a)' = [cand |-> cand', proto |-> a.proto, port |-> a.port,
                         status |-> a.status, interval |-> a.interval]
      BY DEF EntryOf
    <2>10. pc' = "verdict" => result' = a /\ Succeeded(a)
      BY <2>1 DEF Trying
    <2>11. pc' \in {"attempt", "verdict", "save"}
      BY <2>1 DEF Trying
    <2> QED
      BY <2>2, <2>4, <2>7, <2>8, <2>10, <2>11 DEF HandInv, Busy, EntryOf, Succeeded
  <1>6. CASE DenyInterval
    <2>1. submitted \in Seq(Entry) /\ submitted # <<>> /\ Len(submitted) <= HistoryMax
      BY <1>6 DEF DenyInterval, HandInv, TypeOK
    <2>2. Head(submitted) \in Entry /\ Tail(submitted) \in Seq(Entry)
          /\ Len(Tail(submitted)) <= HistoryMax
      BY <2>1, LimitsHold DEF Limits
    <2> QED
      BY <1>6, <2>2, LimitsHold DEF DenyInterval, TypeOK, HandInv, Busy, Limits
  <1>7. CASE PutBackRejected
    <2>1. debug \in Entry
      BY <1>7 DEF PutBackRejected, TypeOK
    <2>2. [debug EXCEPT !.status = 0] \in Entry
      <3>1. 0 \in 0..1
        OBVIOUS
      <3> QED
        BY <2>1, <3>1 DEF Entry
    <2>3. submitted' \in Seq(Entry) /\ Len(submitted') <= HistoryMax
      BY <1>7, <2>2, AddedTyped DEF PutBackRejected
    <2> QED
      BY <1>7, <2>3 DEF PutBackRejected, TypeOK, HandInv, Busy
  <1>8. CASE AcceptInterval
    BY <1>8 DEF AcceptInterval, TypeOK, HandInv, Busy, EntryOf
  <1>9. CASE InsertTracker
    <2>1. result \in Attempt /\ result.interval # None /\ cand \in Candidates
      BY <1>9 DEF InsertTracker, HandInv, Busy, Succeeded
    <2>2. [cand |-> cand, proto |-> result.proto, port |-> result.port,
           interval |-> result.interval]
             \in [cand : Candidates, proto : Protocols, port : Port, interval : Intervals]
      BY <2>1 DEF Attempt
    <2> QED
      BY <1>9, <2>2 DEF InsertTracker, TypeOK, HandInv, Busy
  <1>10. CASE OpenFile \/ DumpFile
    BY <1>10 DEF OpenFile, DumpFile, TypeOK, HandInv, Busy
  <1>11. CASE Restart
    <2>1. submitted' \in Seq(Entry)
      <3>1. <<>> \in Seq(Entry)
        OBVIOUS
      <3> QED
        BY <1>11, <3>1 DEF Restart, TypeOK
    <2>2. pc' \in {"idle", "stuck"} /\ Len(submitted') <= HistoryMax
      BY <1>11, LimitsHold DEF Restart, HandInv, Limits
    <2>3. prefs' \in Seq(Preference) /\ tries' \in Seq(Attempt)
      BY <1>11 DEF Restart
    <2> QED
      BY <1>11, <2>1, <2>2, <2>3, SubmissionAssumption DEF Restart, TypeOK, HandInv, Busy
  <1> QED
    BY <1>0, <1>1, <1>2, <1>3, <1>4, <1>5, <1>6, <1>7, <1>8, <1>9, <1>10, <1>11 DEF Next

LEMMA Always == Spec => [](TypeOK /\ HandInv)
  <1>1. Init => TypeOK /\ HandInv
    <2>1. <<>> \in Seq(Entry) /\ <<>> \in Seq(Attempt) /\ <<>> \in Seq(Preference)
      OBVIOUS
    <2>2. Len(<<>>) <= HistoryMax
      BY LimitsHold DEF Limits
    <2> QED
      BY <2>1, <2>2, SubmissionAssumption DEF Init, TypeOK, HandInv, Busy, Preference
  <1> QED
    BY <1>1, TypeStep, PTL DEF Spec

\* Types, for any candidates, records and length of the history.
THEOREM TypeCorrect == Spec => []TypeOK
  BY Always, PTL

-----------------------------------------------------------------------------
(* Refused intervals. *)

Clean(s) == \A i \in 1..Len(s) : s[i].status = 1 /\ s[i].interval # None => InRange(s[i].interval)

\* While the verdict is open the newest entry may be any, the others may not.
RefusedInv ==
    /\ \A i \in 1..Len(submitted) :
          \/ pc = "verdict" /\ i = 1
          \/ submitted[i].status = 1 /\ submitted[i].interval # None
                => InRange(submitted[i].interval)
    /\ file # Torn => Clean(file)

LEMMA CleanAdded ==
    ASSUME TypeOK, NEW e \in Entry, AppendLeft(e), Clean(submitted),
           e.status = 1 /\ e.interval # None => InRange(e.interval)
    PROVE  Clean(submitted')
  <1>1. Len(submitted) \in Nat
    BY DEF TypeOK
  <1>2. /\ submitted'[1] = e /\ Len(submitted') \in Nat
        /\ Len(submitted') = IF Len(submitted) < HistoryMax THEN Len(submitted) + 1
                             ELSE HistoryMax
        /\ \A k \in 1..Len(submitted') - 1 : submitted'[k + 1] = submitted[k]
    BY AddedTyped
  <1> SUFFICES ASSUME NEW i \in 1..Len(submitted')
               PROVE  submitted'[i].status = 1 /\ submitted'[i].interval # None
                        => InRange(submitted'[i].interval)
    BY DEF Clean
  <1>3. CASE i = 1
    BY <1>2, <1>3
  <1>4. CASE i # 1
    <2>1. /\ i - 1 \in 1..Len(submitted') - 1 /\ i - 1 \in 1..Len(submitted)
          /\ i - 1 + 1 = i
      BY <1>1, <1>2, <1>4, LimitsHold DEF Limits, TypeOK
    <2>2. submitted'[i] = submitted[i - 1]
      BY <1>2, <2>1
    <2> QED
      BY <2>1, <2>2 DEF Clean
  <1> QED
    BY <1>3, <1>4

LEMMA RefusedStep ==
    TypeOK /\ HandInv /\ RefusedInv /\ [Next]_vars => RefusedInv'
  <1> SUFFICES ASSUME TypeOK, HandInv, RefusedInv, [Next]_vars
               PROVE  RefusedInv'
    OBVIOUS
  <1>0. pc # "verdict" => Clean(submitted)
    BY DEF RefusedInv, Clean
  <1>1. CASE UNCHANGED vars
    BY <1>1 DEF vars, RefusedInv, Clean, InRange
  <1>2. CASE \/ TakeCandidate \/ DenyListed \/ LookupBep34 \/ RaisesValueError \/ Raises
             \/ InsertTracker \/ OpenFile
    BY <1>2 DEF TakeCandidate, DenyListed, LookupBep34, RaisesValueError, Raises, InsertTracker,
                OpenFile, RefusedInv, Clean, InRange
  <1>3. CASE DeniedByBep34
    <2> DEFINE e == [cand |-> cand, proto |-> None, port |-> PortOf[cand],
                     status |-> 0, interval |-> None]
    <2>1. e \in Entry
      BY <1>3, LimitsHold DEF DeniedByBep34, HandInv, Busy, Entry, Limits
    <2>2. AppendLeft(e) /\ e.status = 0 /\ pc = "lookup"
      BY <1>3 DEF DeniedByBep34
    <2> HIDE DEF e
    <2>3. Clean(submitted')
      BY <1>0, <2>1, <2>2, CleanAdded
    <2> QED
      BY <1>3, <2>3 DEF DeniedByBep34, RefusedInv, Clean, InRange
  <1>4. CASE TryUdp \/ TryHttps \/ TryHttp
    <2>1. PICK a \in Attempt : Trying(a)
      BY <1>4, Attempts
    <2> DEFINE e == EntryOf(a)
    <2>2. e \in Entry /\ AppendLeft(e) /\ pc = "attempt" /\ file' = file
      BY <2>1, EntryTyped DEF Trying, HandInv, Busy
    <2>3. e.status = a.status /\ e.interval = a.interval
      BY DEF EntryOf
    <2> HIDE DEF e
    <2>4. CASE ~Succeeded(a)
      <3>1. Clean(submitted')
        BY <1>0, <2>2, <2>3, <2>4, CleanAdded DEF Succeeded
      <3> QED
        BY <2>2, <3>1 DEF RefusedInv, Clean, InRange
    <2>5. CASE Succeeded(a)
      <3>1. pc' = "verdict"
        BY <2>1, <2>5 DEF Trying
      <3>2. /\ Len(submitted) \in Nat /\ Len(submitted') \in Nat
            /\ Len(submitted') = IF Len(submitted) < HistoryMax THEN Len(submitted) + 1
                                 ELSE HistoryMax
            /\ \A k \in 1..Len(submitted') - 1 : submitted'[k + 1] = submitted[k]
        BY <2>2, AddedTyped DEF TypeOK
      <3>3. ASSUME NEW i \in 1..Len(submitted'), i # 1
            PROVE  submitted'[i].status = 1 /\ submitted'[i].interval # None
                     => InRange(submitted'[i].interval)
        <4>1. /\ i - 1 \in 1..Len(submitted') - 1 /\ i - 1 \in 1..Len(submitted)
              /\ i - 1 + 1 = i
          BY <3>2, <3>3, LimitsHold DEF Limits, TypeOK
        <4>2. submitted'[i] = submitted[i - 1]
          BY <3>2, <4>1
        <4> QED
          BY <1>0, <2>2, <4>1, <4>2 DEF Clean
      <3> QED
        BY <2>2, <3>1, <3>3 DEF RefusedInv, Clean, InRange
    <2> QED
      BY <2>4, <2>5
  <1>5. CASE DenyInterval
    <2>1. submitted \in Seq(Entry) /\ submitted # <<>> /\ submitted' = Tail(submitted)
      BY <1>5 DEF DenyInterval, HandInv, TypeOK
    <2>2. /\ Len(submitted) \in Nat /\ Len(submitted') = Len(submitted) - 1
          /\ \A i \in 1..Len(submitted') : submitted'[i] = submitted[i + 1]
      BY <2>1, HeadTailProperties
    <2>3. \A i \in 1..Len(submitted') : i + 1 \in 1..Len(submitted) /\ i + 1 # 1
      BY <2>2
    <2>4. Clean(submitted')
      BY <2>2, <2>3 DEF RefusedInv, Clean
    <2> QED
      BY <1>5, <2>4 DEF DenyInterval, RefusedInv, Clean, InRange
  <1>6. CASE PutBackRejected
    <2> DEFINE e == [debug EXCEPT !.status = 0]
    <2>1. e \in Entry /\ e.status = 0
      <3>1. 0 \in 0..1 /\ debug \in Entry
        BY <1>6 DEF PutBackRejected, TypeOK
      <3> QED
        BY <3>1 DEF Entry
    <2>2. AppendLeft(e) /\ pc = "mark"
      BY <1>6 DEF PutBackRejected
    <2> HIDE DEF e
    <2>3. Clean(submitted')
      BY <1>0, <2>1, <2>2, CleanAdded
    <2> QED
      BY <1>6, <2>3 DEF PutBackRejected, RefusedInv, Clean, InRange
  <1>7. CASE AcceptInterval
    <2>1. submitted[1].interval = result.interval /\ InRange(result.interval)
      BY <1>7 DEF AcceptInterval, HandInv, EntryOf
    <2>2. Clean(submitted)
      BY <2>1 DEF RefusedInv, Clean
    <2> QED
      BY <1>7, <2>2 DEF AcceptInterval, RefusedInv, Clean, InRange
  <1>8. CASE DumpFile
    BY <1>0, <1>8 DEF DumpFile, RefusedInv, Clean, InRange
  <1>9. CASE Restart
    <2>1. Clean(submitted')
      BY <1>9 DEF Restart, RefusedInv, Clean
    <2> QED
      BY <1>9, <2>1 DEF Restart, RefusedInv, Clean, InRange
  <1> QED
    BY <1>1, <1>2, <1>3, <1>4, <1>5, <1>6, <1>7, <1>8, <1>9 DEF Next

\* Once the verdict has fallen no response with an interval out of range is shown as
\* accepted, in memory or on disk.
THEOREM RefusedShown == Spec => []RefusedIntervalsShown
  <1>1. TypeOK /\ HandInv /\ RefusedInv => RefusedIntervalsShown
    <2> SUFFICES ASSUME TypeOK, HandInv, RefusedInv
                 PROVE  RefusedIntervalsShown
      OBVIOUS
    <2>1. submitted \in Seq(Entry) /\ Len(submitted) \in Nat
      BY DEF TypeOK
    <2>2. ASSUME pc = "verdict", NEW e \in ToSet(Tail(submitted)),
                 e.status = 1, e.interval # None
          PROVE  InRange(e.interval)
      <3>1. submitted # <<>>
        BY <2>2 DEF HandInv
      <3>2. /\ Tail(submitted) \in Seq(Entry) /\ Len(Tail(submitted)) = Len(submitted) - 1
            /\ \A i \in 1..Len(Tail(submitted)) : Tail(submitted)[i] = submitted[i + 1]
        BY <2>1, <3>1, HeadTailProperties
      <3>3. PICK i \in 1..Len(Tail(submitted)) : e = Tail(submitted)[i]
        BY <2>2, <3>2 DEF ToSet
      <3>4. i + 1 \in 1..Len(submitted) /\ i + 1 # 1 /\ e = submitted[i + 1]
        BY <2>1, <3>2, <3>3
      <3> QED
        BY <2>2, <3>4 DEF RefusedInv
    <2>3. ASSUME pc # "verdict", NEW e \in ToSet(submitted), e.status = 1, e.interval # None
          PROVE  InRange(e.interval)
      BY <2>1, <2>3 DEF RefusedInv, ToSet
    <2>4. ASSUME file # Torn, NEW e \in ToSet(file), e.status = 1, e.interval # None
          PROVE  InRange(e.interval)
      <3>1. file \in Seq(Entry)
        BY <2>4 DEF TypeOK
      <3> QED
        BY <2>4, <3>1 DEF RefusedInv, Clean, ToSet
    <2> QED
      BY <2>2, <2>3, <2>4 DEF RefusedIntervalsShown
  <1>2. Init => RefusedInv
    BY DEF Init, RefusedInv, Clean
  <1> QED
    BY <1>1, <1>2, Always, RefusedStep, PTL DEF Spec

-----------------------------------------------------------------------------
(* Insertions. *)

Insertion(c, e) == [cand |-> c, proto |-> e.proto, port |-> e.port, interval |-> e.interval]

\* A candidate that waits, or whose verdict is not carried out, was not inserted; one
\* that was has the entry of its insertion at the head of the history.
InsertedInv ==
    /\ \A l \in listed : l.cand \notin waiting
    /\ pc \in Busy => cand \notin waiting
    /\ pc \in {"lookup", "attempt", "verdict", "mark", "insert"} =>
          \A l \in listed : l.cand # cand
    /\ pc \in {"save", "dump"} /\ (\E l \in listed : l.cand = cand) =>
          /\ submitted # <<>> /\ submitted[1].status = 1
          /\ Insertion(cand, submitted[1]) \in listed

LEMMA InsertedStep ==
    TypeOK /\ HandInv /\ InsertedInv /\ [Next]_vars => InsertedInv'
  <1> SUFFICES ASSUME TypeOK, HandInv, InsertedInv, [Next]_vars
               PROVE  InsertedInv'
    OBVIOUS
  <1>1. CASE UNCHANGED vars
    BY <1>1 DEF vars, InsertedInv, Insertion, Busy
  <1>2. CASE TakeCandidate
    <2>1. PICK c \in waiting : cand' = c /\ waiting' = waiting \ {c}
      BY <1>2 DEF TakeCandidate
    <2> QED
      BY <1>2, <2>1 DEF TakeCandidate, InsertedInv, Busy
  <1>3. CASE \/ DenyListed \/ LookupBep34 \/ DeniedByBep34 \/ RaisesValueError \/ Raises
             \/ DenyInterval \/ PutBackRejected \/ AcceptInterval
    BY <1>3 DEF DenyListed, LookupBep34, DeniedByBep34, RaisesValueError, Raises, DenyInterval,
                PutBackRejected, AcceptInterval, InsertedInv, Busy
  <1>4. CASE TryUdp \/ TryHttps \/ TryHttp
    <2>1. PICK a \in Attempt : Trying(a)
      BY <1>4, Attempts
    <2>2. pc = "attempt" /\ UNCHANGED <<waiting, cand, listed>>
      BY <2>1 DEF Trying
    <2> QED
      BY <2>2 DEF InsertedInv, Busy
  <1>5. CASE InsertTracker
    <2>1. /\ submitted # <<>> /\ submitted[1] = EntryOf(result) /\ result.status = 1
          /\ submitted' = submitted /\ cand' = cand /\ waiting' = waiting
          /\ listed' = listed \cup {Insertion(cand, result)}
      BY <1>5 DEF InsertTracker, HandInv, Succeeded, Insertion
    <2>2. submitted[1].status = 1 /\ Insertion(cand, submitted[1]) = Insertion(cand, result)
      BY <2>1 DEF EntryOf, Insertion
    <2>3. cand \notin waiting /\ Insertion(cand, result).cand = cand
      BY <1>5 DEF InsertTracker, InsertedInv, Insertion, Busy
    <2> QED
      BY <1>5, <2>1, <2>2, <2>3 DEF InsertTracker, InsertedInv, Busy
  <1>6. CASE OpenFile \/ DumpFile
    BY <1>6 DEF OpenFile, DumpFile, InsertedInv, Insertion, Busy
  <1>7. CASE Restart
    <2>1. pc' \in {"idle", "stuck"} /\ UNCHANGED <<waiting, listed>>
      BY <1>7 DEF Restart
    <2> QED
      BY <2>1 DEF InsertedInv, Busy
  <1> QED
    BY <1>1, <1>2, <1>3, <1>4, <1>5, <1>6, <1>7 DEF Next

\* An inserted tracker has the protocol, port and interval of the newest entry, which
\* says it was accepted.
THEOREM InsertedShown == Spec => []InsertionsShown
  <1>1. TypeOK /\ InsertedInv => InsertionsShown
    <2> SUFFICES ASSUME TypeOK, InsertedInv,
                        pc \in {"save", "dump"}, \E l \in listed : l.cand = cand
                 PROVE  /\ Insertion(cand, Head(submitted)) \in listed
                        /\ Head(submitted).status = 1
      BY DEF InsertionsShown, Insertion
    <2>1. Head(submitted) = submitted[1]
      BY DEF InsertedInv, TypeOK
    <2> QED
      BY <2>1 DEF InsertedInv, Busy
  <1>2. Init => InsertedInv
    BY DEF Init, InsertedInv, Busy
  <1> QED
    BY <1>1, <1>2, Always, InsertedStep, PTL DEF Spec

-----------------------------------------------------------------------------
(* The tries of a candidate. *)

Refused == pc \in {"save", "dump"} /\ result # None /\ ~InRange(result.interval)

Page == IF pc = "mark" THEN <<debug>> \o submitted ELSE submitted

Told(i) == IF Refused /\ i = Len(tries) THEN [EntryOf(tries[i]) EXCEPT !.status = 0]
           ELSE EntryOf(tries[i])

\* The result is the last try, and the page begins with the tries.
TriesInv ==
    /\ pc = "lookup" => tries = <<>>
    /\ pc \in {"lookup", "attempt"} => result = None
    /\ pc \in Busy /\ result # None =>
          /\ tries # <<>> /\ result = tries[Len(tries)] /\ result.interval # None
          /\ Len(Page) >= 1
    /\ pc = "mark" =>
          /\ result # None /\ ~InRange(result.interval)
          /\ debug = EntryOf(result) /\ Len(submitted) < HistoryMax
    /\ pc \in Busy =>
          \A i \in 1..Len(tries) :
              Len(tries) - i < HistoryMax =>
                 /\ Len(tries) + 1 - i <= Len(Page)
                 /\ Page[Len(tries) + 1 - i] = Told(i)

LEMMA PageTyped ==
    ASSUME TypeOK
    PROVE  Page \in Seq(Entry) /\ Len(Page) \in Nat
  <1>1. submitted \in Seq(Entry)
    BY DEF TypeOK
  <1>2. CASE pc = "mark"
    <2>1. debug \in Entry
      BY <1>2 DEF TypeOK
    <2>2. <<debug>> \in Seq(Entry)
      BY <2>1
    <2> QED
      BY <1>1, <1>2, <2>2, ConcatProperties DEF Page
  <1>3. CASE pc # "mark"
    BY <1>1, <1>3 DEF Page
  <1> QED
    BY <1>2, <1>3

\* A step that keeps the tries, the candidate, the page and what is refused.
LEMMA TriesKept ==
    ASSUME TypeOK, TriesInv, pc \in Busy, pc' \in Busy, pc' # "mark",
           pc' \in {"lookup", "attempt"} => pc \in {"lookup", "attempt"},
           pc' = "lookup" => pc = "lookup",
           Page' = Page, Refused' <=> Refused, UNCHANGED <<tries, cand, result>>
    PROVE  TriesInv'
  <1>1. \A i : Told(i)' = Told(i)
    BY DEF Told, EntryOf
  <1> QED
    BY <1>1 DEF TriesInv

LEMMA TriesStep ==
    TypeOK /\ HandInv /\ TriesInv /\ [Next]_vars => TriesInv'
  <1> SUFFICES ASSUME TypeOK, HandInv, TriesInv, [Next]_vars
               PROVE  TriesInv'
    OBVIOUS
  <1>0. /\ submitted \in Seq(Entry) /\ Len(submitted) \in Nat /\ Len(submitted) <= HistoryMax
        /\ tries \in Seq(Attempt) /\ Len(tries) \in Nat
        /\ HistoryMax \in Nat /\ HistoryMax >= 1
    BY LimitsHold DEF TypeOK, Limits
  <1>1. CASE UNCHANGED vars
    BY <1>1 DEF vars, TriesInv, Page, Told, Refused, EntryOf, Busy, InRange
  <1>2. CASE TakeCandidate
    <2>1. tries' = <<>> /\ result' = None /\ pc' = "lookup"
      BY <1>2 DEF TakeCandidate
    <2>2. Len(tries') = 0
      BY <2>1
    <2> QED
      BY <2>1, <2>2 DEF TriesInv
  <1>3. CASE DenyListed \/ RaisesValueError \/ OpenFile \/ DumpFile \/ LookupBep34
    <2>1. pc = "dump" \/ pc' # "idle"
      BY <1>3 DEF DenyListed, RaisesValueError, OpenFile, DumpFile, LookupBep34
    <2>2. CASE DumpFile
      BY <2>2 DEF DumpFile, TriesInv, Busy
    <2>3. CASE DenyListed \/ RaisesValueError \/ LookupBep34
      <3>1. /\ pc \in {"lookup", "attempt"} /\ pc' \in {"save", "attempt"}
            /\ UNCHANGED <<tries, cand, result, submitted, debug>>
        BY <2>3 DEF DenyListed, RaisesValueError, LookupBep34
      <3>2. result = None
        BY <3>1 DEF TriesInv
      <3>3. Page' = Page /\ ~Refused /\ ~Refused'
        BY <3>1, <3>2 DEF Page, Refused
      <3> QED
        BY <3>1, <3>3, TriesKept DEF Busy
    <2>4. CASE OpenFile
      <3>1. /\ pc = "save" /\ pc' = "dump"
            /\ UNCHANGED <<tries, cand, result, submitted, debug>>
        BY <2>4 DEF OpenFile
      <3>2. Page' = Page /\ (Refused' <=> Refused)
        BY <3>1 DEF Page, Refused, InRange
      <3> QED
        BY <3>1, <3>2, TriesKept DEF Busy
    <2> QED
      BY <1>3, <2>2, <2>3, <2>4
  <1>4. CASE DeniedByBep34
    <2>1. /\ pc = "lookup" /\ pc' = "save" /\ tries' = tries /\ result' = result
      BY <1>4 DEF DeniedByBep34
    <2>2. tries' = <<>> /\ result' = None /\ Len(tries') = 0
      BY <2>1 DEF TriesInv
    <2> QED
      BY <2>1, <2>2 DEF TriesInv
  <1>5. CASE Raises \/ Restart
    <2>1. pc' \in {"idle", "stuck"}
      BY <1>5 DEF Raises, Restart
    <2> QED
      BY <2>1 DEF TriesInv, Busy
  <1>6. CASE TryUdp \/ TryHttps \/ TryHttp
    <2>1. PICK a \in Attempt : Trying(a)
      BY <1>6, Attempts
    <2>2. /\ pc = "attempt" /\ cand' = cand /\ result = None
          /\ pc' \in {"attempt", "verdict", "save"} /\ tries' = Append(tries, a)
          /\ EntryOf(a) \in Entry /\ AppendLeft(EntryOf(a))
      BY <2>1, EntryTyped DEF Trying, HandInv, Busy, TriesInv
    <2>3. /\ Len(tries') = Len(tries) + 1 /\ tries'[Len(tries) + 1] = a
          /\ \A i \in 1..Len(tries) : tries'[i] = tries[i]
      BY <1>0, <2>2
    <2>4. /\ submitted'[1] = EntryOf(a) /\ Len(submitted') \in Nat
          /\ Len(submitted') = IF Len(submitted) < HistoryMax THEN Len(submitted) + 1
                               ELSE HistoryMax
          /\ \A k \in 1..Len(submitted') - 1 : submitted'[k + 1] = submitted[k]
      BY <2>2, AddedTyped
    <2>5. Page = submitted /\ Page' = submitted'
      BY <2>2 DEF Page
    <2>6. ~Refused /\ ~Refused'
      <3>1. pc' = "save" => result' = None
        BY <2>1, <2>2 DEF Trying
      <3> QED
        BY <2>2, <3>1 DEF Refused
    <2>7. \A i : Told(i) = EntryOf(tries[i])
      BY <2>6 DEF Told
    <2>8. \A i \in 1..Len(tries) + 1 :
             Told(i)' = IF i = Len(tries) + 1 THEN EntryOf(a) ELSE EntryOf(tries[i])
      BY <1>0, <2>2, <2>3, <2>6 DEF Told, EntryOf
    <2>9. ASSUME NEW i \in 1..Len(tries) + 1, Len(tries) + 1 - i < HistoryMax
          PROVE  /\ Len(tries) + 1 + 1 - i <= Len(submitted')
                 /\ submitted'[Len(tries) + 1 + 1 - i] = Told(i)'
      <3>1. CASE i = Len(tries) + 1
        <4>1. Len(tries) + 1 + 1 - i = 1 /\ Len(submitted') >= 1
          BY <1>0, <2>4, <3>1
        <4> QED
          BY <2>4, <2>8, <3>1, <4>1
      <3>2. CASE i # Len(tries) + 1
        <4> DEFINE k == Len(tries) + 1 - i
        <4>1. i \in 1..Len(tries) /\ Len(tries) - i < HistoryMax /\ k \in Nat /\ k >= 1
          BY <1>0, <2>9, <3>2
        <4>2. k <= Len(submitted) /\ submitted[k] = EntryOf(tries[i])
          BY <2>2, <2>5, <2>7, <4>1 DEF TriesInv, Busy
        <4>3. Len(tries) + 1 + 1 - i = k + 1 /\ k < HistoryMax
          BY <1>0, <2>9
        <4> HIDE DEF k
        <4>4. k + 1 <= Len(submitted') /\ k \in 1..Len(submitted') - 1
          BY <1>0, <2>4, <4>1, <4>2, <4>3
        <4>5. submitted'[k + 1] = submitted[k]
          BY <2>4, <4>4
        <4> QED
          BY <2>8, <3>2, <4>2, <4>3, <4>4, <4>5
      <3> QED
        BY <3>1, <3>2
    <2>10. /\ pc' = "verdict" => result' = a /\ a.interval # None
           /\ pc' # "verdict" => result' = None
      BY <2>1, <2>2 DEF Trying, Succeeded
    <2>11. tries' # <<>> /\ Len(submitted') >= 1
      BY <1>0, <2>3, <2>4
    <2>12. \A i \in 1..Len(tries') :
              Len(tries') - i < HistoryMax =>
                 /\ Len(tries') + 1 - i <= Len(Page')
                 /\ Page'[Len(tries') + 1 - i] = Told(i)'
      BY <2>3, <2>5, <2>9
    <2>13. /\ pc' # "lookup" /\ pc' # "mark"
           /\ pc' = "attempt" => result' = None
           /\ result' # None => result' = tries'[Len(tries')] /\ result'.interval # None
           /\ Len(Page') >= 1
      BY <2>2, <2>3, <2>5, <2>10, <2>11
    <2> QED
      BY <2>11, <2>12, <2>13 DEF TriesInv
  <1>7. CASE DenyInterval
    <2>1. /\ pc = "verdict" /\ pc' = "mark" /\ submitted # <<>> /\ submitted[1] = EntryOf(result)
          /\ debug' = Head(submitted) /\ submitted' = Tail(submitted)
          /\ result.interval = 0 \/ ~InRange(result.interval)
          /\ UNCHANGED <<tries, cand, result>>
      BY <1>7 DEF DenyInterval, HandInv
    <2>2. result # None
      BY <1>7 DEF DenyInterval, TypeOK
    <2>3. ~InRange(result.interval)
      BY <2>1, LimitsHold DEF InRange, Limits
    <2>4. /\ debug' = submitted[1] /\ Len(submitted') = Len(submitted) - 1
          /\ Len(submitted') < HistoryMax
      BY <1>0, <2>1
    <2>5. Page' = Page
      <3>1. <<Head(submitted)>> \o Tail(submitted) = submitted
        BY <1>0, <2>1
      <3> QED
        BY <2>1, <3>1 DEF Page
    <2>6. ~Refused /\ ~Refused'
      BY <2>1 DEF Refused
    <2>7. \A i : Told(i)' = Told(i)
      BY <2>1, <2>6 DEF Told, EntryOf
    <2>8. debug' = EntryOf(result)'
      BY <2>1, <2>4 DEF EntryOf
    <2>9. InRange(result.interval)' <=> InRange(result.interval)
      BY <2>1 DEF InRange
    <2> QED
      BY <2>1, <2>2, <2>3, <2>4, <2>5, <2>7, <2>8, <2>9 DEF TriesInv, Busy
  <1>8. CASE PutBackRejected
    <2> DEFINE e == [debug EXCEPT !.status = 0]
               n == Len(tries)
    <2>1. /\ pc = "mark" /\ pc' = "save" /\ AppendLeft(e)
          /\ UNCHANGED <<tries, cand, result>>
      BY <1>8 DEF PutBackRejected
    <2>2. /\ result # None /\ ~InRange(result.interval) /\ debug = EntryOf(result)
          /\ Len(submitted) < HistoryMax /\ tries # <<>> /\ result = tries[n]
          /\ result.interval # None
      BY <2>1 DEF TriesInv, Busy
    <2>3. e \in Entry
      <3>1. 0 \in 0..1 /\ debug \in Entry
        BY <2>1 DEF TypeOK
      <3> QED
        BY <3>1 DEF Entry
    <2>4. e = [EntryOf(tries[n]) EXCEPT !.status = 0]
      BY <2>2
    <2> HIDE DEF e
    <2>5. /\ submitted'[1] = e /\ Len(submitted') = Len(submitted) + 1
          /\ \A k \in 1..Len(submitted') - 1 : submitted'[k + 1] = submitted[k]
      BY <2>1, <2>2, <2>3, AddedTyped
    <2>6. /\ Len(Page) = Len(submitted) + 1
          /\ \A k \in 1..Len(submitted) : Page[k + 1] = submitted[k]
      <3>1. debug \in Entry
        BY <2>1 DEF TypeOK
      <3>2. <<debug>> \in Seq(Entry) /\ Len(<<debug>>) = 1
        BY <3>1
      <3>3. Page = <<debug>> \o submitted
        BY <2>1 DEF Page
      <3>4. /\ Len(Page) = 1 + Len(submitted)
            /\ \A i \in 1..1 + Len(submitted) :
                  Page[i] = IF i <= 1 THEN <<debug>>[i] ELSE submitted[i - 1]
        BY <1>0, <3>2, <3>3, ConcatProperties
      <3>5. \A k \in 1..Len(submitted) : k + 1 \in 1..1 + Len(submitted)
                                         /\ ~(k + 1 <= 1) /\ k + 1 - 1 = k
        BY <1>0
      <3> QED
        BY <1>0, <3>4, <3>5
    <2>7. Page' = submitted'
      BY <2>1 DEF Page
    <2>8. ~Refused /\ Refused'
      BY <2>1, <2>2 DEF Refused, InRange
    <2>9. /\ n \in Nat /\ n >= 1
          /\ \A i : Told(i) = EntryOf(tries[i])
          /\ \A i : Told(i)' = IF i = n THEN e ELSE EntryOf(tries[i])
      <3>1. n >= 1
        BY <1>0, <2>2
      <3>2. \A i : Told(i) = EntryOf(tries[i])
        BY <2>8 DEF Told
      <3>3. \A i : Told(i)' = IF i = n THEN [EntryOf(tries[i]) EXCEPT !.status = 0]
                              ELSE EntryOf(tries[i])
        BY <2>1, <2>8 DEF Told, EntryOf
      <3> QED
        BY <1>0, <2>4, <3>1, <3>2, <3>3
    <2>10. ASSUME NEW i \in 1..n, n - i < HistoryMax
           PROVE  n + 1 - i <= Len(submitted') /\ submitted'[n + 1 - i] = Told(i)'
      <3>1. CASE i = n
        BY <1>0, <2>5, <2>9, <3>1
      <3>2. CASE i # n
        <4> DEFINE k == n - i
        <4>1. n + 1 - i = k + 1 /\ k \in Nat /\ k >= 1
          BY <2>9, <3>2
        <4>2. k + 1 <= Len(Page) /\ Page[k + 1] = EntryOf(tries[i])
          BY <2>1, <2>9, <2>10, <4>1 DEF TriesInv, Busy
        <4> HIDE DEF k
        <4>3. k \in 1..Len(submitted) /\ k \in 1..Len(submitted') - 1
          BY <1>0, <2>5, <2>6, <4>1, <4>2
        <4> QED
          BY <2>5, <2>6, <2>9, <3>2, <4>1, <4>2, <4>3
      <3> QED
        BY <3>1, <3>2
    <2>11. Len(submitted') >= 1
      BY <1>0, <2>5
    <2> QED
      BY <2>1, <2>2, <2>7, <2>10, <2>11 DEF TriesInv
  <1>9. CASE AcceptInterval \/ InsertTracker
    <2>1. /\ pc \in {"verdict", "insert"} /\ pc' \in {"insert", "save"}
          /\ UNCHANGED <<tries, cand, result, submitted, debug>>
      BY <1>9 DEF AcceptInterval, InsertTracker
    <2>2. ~Refused /\ ~Refused'
      <3>1. pc' = "save" => InRange(result.interval)
        BY <1>9 DEF AcceptInterval, InsertTracker, HandInv
      <3> QED
        BY <2>1, <3>1 DEF Refused, InRange
    <2>3. Page' = Page
      BY <2>1 DEF Page
    <2> QED
      BY <2>1, <2>2, <2>3, TriesKept DEF Busy
  <1> QED
    BY <1>1, <1>2, <1>3, <1>4, <1>5, <1>6, <1>7, <1>8, <1>9 DEF Next

\* The history begins with the tries of the candidate in hand, the last one first, and
\* only the last one of a refused interval is not as it came out.
THEOREM EveryTryShown == Spec => []TriesShown
  <1>1. TypeOK /\ TriesInv => TriesShown
    <2> SUFFICES ASSUME TypeOK, TriesInv, pc \in Busy
                 PROVE  LET told == [i \in DOMAIN tries |-> Told(i)] IN
                        \A i \in DOMAIN told :
                           Len(told) - i < HistoryMax => Page[Len(told) + 1 - i] = told[i]
      BY DEF TriesShown, Told, Refused, Page, Busy
    <2> DEFINE told == [i \in DOMAIN tries |-> Told(i)]
    <2>1. tries \in Seq(Attempt) /\ Len(tries) \in Nat /\ DOMAIN tries = 1..Len(tries)
      BY DEF TypeOK
    <2>2. DOMAIN told = 1..Len(tries) /\ \A i \in 1..Len(tries) : told[i] = Told(i)
      BY <2>1
    <2>3. Len(told) = Len(tries)
      BY <2>1, <2>2
    <2> HIDE DEF told
    <2>4. ASSUME NEW i \in DOMAIN told, Len(told) - i < HistoryMax
          PROVE  Page[Len(told) + 1 - i] = told[i]
      BY <2>2, <2>3, <2>4 DEF TriesInv
    <2> QED
      BY <2>4 DEF told
  <1>2. Init => TriesInv
    BY DEF Init, TriesInv, Busy
  <1> QED
    BY <1>1, <1>2, Always, TriesStep, PTL DEF Spec

-----------------------------------------------------------------------------
(* The ways in which a tracker is contacted. *)

Way == Protocols \X Port

Ways(p) == IF p.proto = "udp" THEN <<<<"udp", p.port>>>>
           ELSE <<<<"https", p.port>>, <<"http", p.port>>>>

EachWays(ps) == [i \in DOMAIN ps |-> Ways(ps[i])]

AllWays(ps) == FlattenSeq(EachWays(ps))

\* The ways that are left to the worker, and those it took.
Left == IF tls THEN <<<<"http", Head(prefs).port>>>> \o AllWays(Tail(prefs))
        ELSE AllWays(prefs)

Taken == [i \in DOMAIN tries |-> <<tries[i].proto, tries[i].port>>]

LEMMA WaysTyped ==
    ASSUME NEW p \in Preference
    PROVE  Ways(p) \in Seq(Way)
  <1>1. p.port \in Port
    BY DEF Preference
  <1>2. /\ <<"udp", p.port>> \in Way /\ <<"https", p.port>> \in Way
        /\ <<"http", p.port>> \in Way
    BY <1>1 DEF Way, Protocols
  <1> QED
    BY <1>2 DEF Ways

LEMMA EachWaysTyped ==
    ASSUME NEW ps \in Seq(Preference)
    PROVE  EachWays(ps) \in Seq(Seq(Way)) /\ Len(EachWays(ps)) = Len(ps)
  <1>1. \A i \in 1..Len(ps) : Ways(ps[i]) \in Seq(Way)
    BY WaysTyped
  <1> QED
    BY <1>1 DEF EachWays

LEMMA AllWaysTyped ==
    ASSUME NEW ps \in Seq(Preference)
    PROVE  AllWays(ps) \in Seq(Way)
  BY EachWaysTyped, FlattenType DEF AllWays

LEMMA NoWays == AllWays(<<>>) = <<>>
  <1>1. EachWays(<<>>) = <<>>
    BY DEF EachWays
  <1> QED
    BY <1>1, FlattenEmpty DEF AllWays

LEMMA WaysOfFirst ==
    ASSUME NEW ps \in Seq(Preference), ps # <<>>
    PROVE  /\ Tail(ps) \in Seq(Preference) /\ Head(ps) \in Preference
           /\ AllWays(ps) = Ways(Head(ps)) \o AllWays(Tail(ps))
  <1> DEFINE x == Ways(Head(ps))
             s == EachWays(Tail(ps))
             t == EachWays(ps)
  <1>1. /\ Tail(ps) \in Seq(Preference) /\ Head(ps) \in Preference
        /\ Len(Tail(ps)) = Len(ps) - 1 /\ Len(ps) \in Nat /\ Len(ps) >= 1
        /\ \A i \in 1..Len(ps) - 1 : Tail(ps)[i] = ps[i + 1]
        /\ Head(ps) = ps[1]
    OBVIOUS
  <1>2. /\ x \in Seq(Way) /\ s \in Seq(Seq(Way)) /\ t \in Seq(Seq(Way))
        /\ Len(s) = Len(ps) - 1 /\ Len(t) = Len(ps)
    BY <1>1, WaysTyped, EachWaysTyped
  <1>3. t[1] = x /\ \A i \in 1..Len(ps) - 1 : t[i + 1] = s[i]
    <2>1. \A i \in 1..Len(ps) : t[i] = Ways(ps[i])
      BY DEF EachWays
    <2>2. \A i \in 1..Len(ps) - 1 : s[i] = Ways(Tail(ps)[i])
      BY <1>1 DEF EachWays
    <2>3. 1 \in 1..Len(ps) /\ \A i \in 1..Len(ps) - 1 : i + 1 \in 1..Len(ps)
      BY <1>1
    <2> HIDE DEF s, t
    <2> QED
      BY <1>1, <2>1, <2>2, <2>3
  <1> HIDE DEF x, s, t
  <1>4. t = <<x>> \o s
    <2>1. <<x>> \in Seq(Seq(Way)) /\ Len(<<x>>) = 1 /\ <<x>>[1] = x
      BY <1>2
    <2>2. /\ <<x>> \o s \in Seq(Seq(Way)) /\ Len(<<x>> \o s) = 1 + Len(s)
          /\ \A i \in 1..1 + Len(s) : (<<x>> \o s)[i] = IF i <= 1 THEN <<x>>[i] ELSE s[i - 1]
      BY <1>2, <2>1, ConcatProperties
    <2>3. ASSUME NEW i \in 1..Len(t)
          PROVE  t[i] = (<<x>> \o s)[i]
      <3>1. CASE i = 1
        <4>1. 1 \in 1..1 + Len(s)
          BY <1>1, <1>2
        <4> QED
          BY <1>3, <2>1, <2>2, <3>1, <4>1
      <3>2. CASE i # 1
        <4> DEFINE k == i - 1
        <4>1. k \in 1..Len(ps) - 1 /\ i \in 1..1 + Len(s) /\ ~(i <= 1) /\ k + 1 = i
          BY <1>1, <1>2, <3>2
        <4>2. (<<x>> \o s)[i] = s[k]
          BY <2>2, <4>1
        <4> HIDE DEF k
        <4> QED
          BY <1>3, <4>1, <4>2
      <3> QED
        BY <3>1, <3>2
    <2>4. Len(t) = Len(<<x>> \o s)
      <3>1. Len(t) = 1 + Len(s)
        BY <1>1, <1>2
      <3>2. Len(<<x>> \o s) = 1 + Len(s)
        BY <2>2
      <3> QED
        BY <3>1, <3>2
    <2> QED
      BY <1>2, <2>2, <2>3, <2>4
  <1>5. FlattenSeq(t) = x \o FlattenSeq(s)
    BY <1>2, <1>4, FlattenCons
  <1> QED
    BY <1>1, <1>5 DEF x, s, t, AllWays

LEMMA WaysOfOne ==
    ASSUME NEW p \in Preference
    PROVE  AllWays(<<p>>) = Ways(p)
  <1>1. /\ <<p>> \in Seq(Preference) /\ <<p>> # <<>>
        /\ Head(<<p>>) = p /\ Tail(<<p>>) = <<>>
    OBVIOUS
  <1>2. Ways(p) \o <<>> = Ways(p)
    BY WaysTyped, ConcatEmptySeq
  <1> QED
    BY <1>1, <1>2, WaysOfFirst, NoWays

\* What the host advertises is what its preferences come to.
Advertises(c, f) ==
    IF f = None
    THEN IF PortOf[c] = NoPort
         THEN <<<<"https", NoPort>>, <<"http", NoPort>>>>
         ELSE <<<<"udp", PortOf[c]>>, <<"https", PortOf[c]>>, <<"http", PortOf[c]>>>>
    ELSE AllWays(f)

PreferencesOf(c, f) ==
    IF f # None THEN f
    ELSE (IF PortOf[c] = NoPort THEN <<>> ELSE <<[proto |-> "udp", port |-> PortOf[c]]>>)
         \o <<[proto |-> "tcp", port |-> PortOf[c]]>>

LEMMA AdvertisedWays ==
    ASSUME NEW c \in Candidates, NEW f \in BepRecords
    PROVE  Advertises(c, f) = AllWays(PreferencesOf(c, f))
  <1>1. CASE f # None
    BY <1>1 DEF Advertises, PreferencesOf
  <1>2. CASE f = None
    <2> DEFINE udp == [proto |-> "udp", port |-> PortOf[c]]
               tcp == [proto |-> "tcp", port |-> PortOf[c]]
    <2>1. udp \in Preference /\ tcp \in Preference
      BY LimitsHold DEF Limits, Preference
    <2>2. Ways(udp) = <<<<"udp", PortOf[c]>>>>
          /\ Ways(tcp) = <<<<"https", PortOf[c]>>, <<"http", PortOf[c]>>>>
      BY DEF Ways
    <2>3. PreferencesOf(c, f) = (IF PortOf[c] = NoPort THEN <<>> ELSE <<udp>>) \o <<tcp>>
      BY <1>2 DEF PreferencesOf
    <2> HIDE DEF udp, tcp
    <2>4. AllWays(<<tcp>>) = Ways(tcp)
      BY <2>1, WaysOfOne
    <2>5. CASE PortOf[c] = NoPort
      <3>1. PreferencesOf(c, f) = <<tcp>>
        BY <2>3, <2>5
      <3> QED
        BY <1>2, <2>2, <2>4, <2>5, <3>1 DEF Advertises
    <2>6. CASE PortOf[c] # NoPort
      <3>1. /\ PreferencesOf(c, f) = <<udp, tcp>>
            /\ <<udp, tcp>> \in Seq(Preference) /\ <<udp, tcp>> # <<>>
            /\ Head(<<udp, tcp>>) = udp /\ Tail(<<udp, tcp>>) = <<tcp>>
        <4>1. PreferencesOf(c, f) = <<udp, tcp>>
          <5>1. <<udp>> \o <<tcp>> = <<udp, tcp>>
            <6>1. <<udp>> \in Seq(Preference) /\ <<tcp>> \in Seq(Preference)
              BY <2>1
            <6> DEFINE both == <<udp>> \o <<tcp>>
            <6>2. /\ both \in Seq(Preference) /\ Len(both) = 1 + 1
                  /\ \A i \in 1..1 + 1 : both[i] = IF i <= 1 THEN <<udp>>[i] ELSE <<tcp>>[i - 1]
              BY <6>1, ConcatProperties
            <6> HIDE DEF both
            <6>3. Len(both) = 2 /\ both[1] = udp /\ both[2] = tcp
              BY <6>2
            <6>4. both = <<udp, tcp>>
              BY <6>2, <6>3
            <6> QED
              BY <6>4 DEF both
          <5> QED
            BY <2>3, <2>6, <5>1
        <4>2. /\ <<udp, tcp>> \in Seq(Preference) /\ <<udp, tcp>> # <<>>
              /\ Head(<<udp, tcp>>) = udp
          BY <2>1
        <4>3. Tail(<<udp, tcp>>) = <<tcp>>
          OBVIOUS
        <4> QED
          BY <4>1, <4>2, <4>3
      <3>2. AllWays(<<udp, tcp>>) = Ways(udp) \o Ways(tcp)
        BY <2>4, <3>1, WaysOfFirst
      <3> QED
        BY <1>2, <2>2, <2>6, <3>1, <3>2 DEF Advertises
    <2> QED
      BY <2>5, <2>6
  <1> QED
    BY <1>1, <1>2

LEMMA NoRecordTyped ==
    ASSUME NEW c \in Candidates
    PROVE  PreferencesOf(c, None) \in Seq(Preference)
  <1> DEFINE udp == [proto |-> "udp", port |-> PortOf[c]]
             tcp == [proto |-> "tcp", port |-> PortOf[c]]
  <1>1. udp \in Preference /\ tcp \in Preference
    BY LimitsHold DEF Limits, Preference
  <1>2. PreferencesOf(c, None) = (IF PortOf[c] = NoPort THEN <<>> ELSE <<udp>>) \o <<tcp>>
    BY DEF PreferencesOf
  <1> HIDE DEF udp, tcp
  <1>3. <<>> \in Seq(Preference) /\ <<udp>> \in Seq(Preference) /\ <<tcp>> \in Seq(Preference)
    BY <1>1
  <1> QED
    BY <1>2, <1>3, ConcatProperties

LEMMA PortIsNat == Port \subseteq Nat
  <1> SUFFICES ASSUME NEW port \in Port, port # NoPort, port \notin {PortOf[c] : c \in Candidates}
               PROVE  port \in Nat
    BY SubmissionAssumption
  <1>1. PICK r \in BepRecords \ {None} : port \in {p.port : p \in ToSet(r)}
    BY DEF Port
  <1>2. r \in Seq([proto : {"udp", "tcp"}, port : Nat])
    BY SubmissionAssumption
  <1>3. PICK i \in 1..Len(r) : port = r[i].port
    BY <1>1, <1>2 DEF ToSet
  <1>4. r[i] \in [proto : {"udp", "tcp"}, port : Nat]
    BY <1>2, <1>3, ElementOfSeq
  <1> QED
    BY <1>3, <1>4

\* A way that may raise ValueError.
Raising(way) == way[2] > MaxPort \/ way[1] # "udp"

\* What was taken, and a rest, make up what is advertised; the rest is what is left
\* while attempts go on, and when the candidate is denied without an answer it is over,
\* or was dropped and begins with a way that may raise.
AttemptsInv ==
    /\ pc = "lookup" => tls = FALSE /\ found = None
    /\ dropped => pc \in {"save", "dump", "idle"}
    /\ pc = "attempt" => (tls => Head(prefs).proto = "tcp")
    /\ cand # None /\ pc # "lookup" =>
          \E rest \in Seq(Way) :
             /\ Advertised = Taken \o rest
             /\ pc = "attempt" => rest = Left
             /\ pc \in {"save", "dump"} /\ result = None /\ tries # <<>> =>
                   dropped \/ rest = <<>>
             /\ dropped => rest # <<>> /\ Raising(rest[1])
    /\ cand # None =>
          \A i \in DOMAIN tries : Succeeded(tries[i]) => i = Len(tries) /\ result = tries[i]

LEMMA TakenTyped ==
    ASSUME TypeOK
    PROVE  Taken \in Seq(Way) /\ Len(Taken) = Len(tries) /\ Len(tries) \in Nat
  <1>1. tries \in Seq(Attempt)
    BY DEF TypeOK
  <1>2. \A i \in 1..Len(tries) : <<tries[i].proto, tries[i].port>> \in Way
    <2> SUFFICES ASSUME NEW i \in 1..Len(tries)
                 PROVE  <<tries[i].proto, tries[i].port>> \in Way
      OBVIOUS
    <2>1. tries[i] \in Attempt
      BY <1>1
    <2> QED
      BY <2>1 DEF Attempt, Way
  <1> QED
    BY <1>1, <1>2 DEF Taken

\* An attempt takes the first way that is left.
LEMMA TakesTheFirst ==
    ASSUME TypeOK, AttemptsInv, TryUdp \/ TryHttps \/ TryHttp
    PROVE  \E a \in Attempt : \E rest \in Seq(Way) :
              /\ Trying(a)
              /\ Left = <<<<a.proto, a.port>>>> \o rest
              /\ pc' = "attempt" => rest = Left' /\ (tls' => Head(prefs').proto = "tcp")
              /\ pc' = "save" => rest = <<>>
  <1> DEFINE head == Head(prefs)
             tail == Tail(prefs)
  <1>1. pc = "attempt" /\ prefs \in Seq(Preference) /\ prefs # <<>>
    BY DEF TryUdp, TryHttps, TryHttp, TypeOK, Preference
  <1>2. /\ tail \in Seq(Preference) /\ head \in Preference /\ head.port \in Port
        /\ AllWays(prefs) = Ways(head) \o AllWays(tail) /\ AllWays(tail) \in Seq(Way)
    BY <1>1, WaysOfFirst, AllWaysTyped DEF Preference
  <1>3. /\ tls => head.proto = "tcp"
        /\ tls \in BOOLEAN
    BY <1>1 DEF AttemptsInv, TypeOK
  <1>4. tail = <<>> => AllWays(tail) = <<>>
    BY NoWays
  <1>5. prefs' = tail /\ tls' = FALSE => Left' = AllWays(tail)
    BY DEF Left, AllWays, EachWays, Ways
  <1> HIDE DEF head, tail
  <1>6. CASE TryUdp
    <2>1. PICK a \in Outcomes("udp") :
             Tried(a) /\ IF Succeeded(a) THEN Found(a) ELSE NextPreference
      BY <1>6 DEF TryUdp
    <2>2. a \in Attempt /\ a.proto = "udp" /\ a.port = head.port
      BY <2>1 DEF Outcomes, head
    <2>3. Trying(a)
      BY <1>2, <1>6, <2>1, <2>2 DEF TryUdp, Tried, Found, NextPreference, Trying
    <2>4. Left = <<<<a.proto, a.port>>>> \o AllWays(tail)
      BY <1>2, <1>3, <1>6, <2>2 DEF TryUdp, Left, Ways, head
    <2>5. /\ pc' = "attempt" => AllWays(tail) = Left' /\ (tls' => Head(prefs').proto = "tcp")
          /\ pc' = "save" => AllWays(tail) = <<>>
      BY <1>4, <1>5, <2>1 DEF Found, NextPreference, tail
    <2> QED
      BY <1>2, <2>2, <2>3, <2>4, <2>5
  <1>7. CASE TryHttps
    <2>1. PICK a \in Outcomes("https") :
             /\ Tried(a)
             /\ IF Succeeded(a) THEN Found(a)
                ELSE tls' = TRUE /\ UNCHANGED <<pc, prefs, result>>
      BY <1>7 DEF TryHttps
    <2>2. a \in Attempt /\ a.proto = "https" /\ a.port = head.port
      BY <2>1 DEF Outcomes, head
    <2>3. Trying(a)
      BY <1>2, <1>7, <2>1, <2>2 DEF TryHttps, Tried, Found, Trying
    <2> DEFINE rest == <<<<"http", head.port>>>> \o AllWays(tail)
    <2>4. <<<<"http", head.port>>>> \in Seq(Way) /\ <<<<"https", head.port>>>> \in Seq(Way)
      <3>1. <<"http", head.port>> \in Way /\ <<"https", head.port>> \in Way
        BY <1>2 DEF Way, Protocols
      <3> QED
        BY <3>1
    <2>5. rest \in Seq(Way)
      BY <1>2, <2>4, ConcatProperties
    <2>6. Left = <<<<a.proto, a.port>>>> \o rest
      <3>1. Left = <<<<"https", head.port>>, <<"http", head.port>>>> \o AllWays(tail)
        BY <1>2, <1>7 DEF TryHttps, Left, Ways, head
      <3>2. <<<<"https", head.port>>, <<"http", head.port>>>>
               = <<<<"https", head.port>>>> \o <<<<"http", head.port>>>>
        OBVIOUS
      <3>3. (<<<<"https", head.port>>>> \o <<<<"http", head.port>>>>) \o AllWays(tail) = 
               <<<<"https", head.port>>>> \o rest
        BY <1>2, <2>4, ConcatAssoc
      <3> QED
        BY <2>2, <3>1, <3>2, <3>3
    <2>7. pc' = "attempt" => rest = Left' /\ (tls' => Head(prefs').proto = "tcp")
      <3>1. pc' = "attempt" => tls' = TRUE /\ prefs' = prefs
        BY <2>1 DEF Found
      <3>2. tls' = TRUE /\ prefs' = prefs => Left' = rest
        BY DEF Left, AllWays, EachWays, Ways, head, tail
      <3> QED
        BY <1>7, <3>1, <3>2 DEF TryHttps
    <2>8. pc' # "save"
      BY <1>1, <2>1 DEF Found
    <2> HIDE DEF rest
    <2> QED
      BY <2>2, <2>3, <2>5, <2>6, <2>7, <2>8
  <1>8. CASE TryHttp
    <2>1. PICK a \in Outcomes("http") :
             Tried(a) /\ IF Succeeded(a) THEN Found(a) ELSE NextPreference
      BY <1>8 DEF TryHttp
    <2>2. a \in Attempt /\ a.proto = "http" /\ a.port = head.port
      BY <2>1 DEF Outcomes, head
    <2>3. Trying(a)
      BY <1>2, <1>8, <2>1, <2>2 DEF TryHttp, Tried, Found, NextPreference, Trying
    <2>4. Left = <<<<a.proto, a.port>>>> \o AllWays(tail)
      BY <1>8, <2>2 DEF TryHttp, Left, head, tail
    <2>5. /\ pc' = "attempt" => AllWays(tail) = Left' /\ (tls' => Head(prefs').proto = "tcp")
          /\ pc' = "save" => AllWays(tail) = <<>>
      BY <1>4, <1>5, <2>1 DEF Found, NextPreference, tail
    <2> QED
      BY <1>2, <2>2, <2>3, <2>4, <2>5
  <1> QED
    BY <1>6, <1>7, <1>8

LEMMA AdvertisedIs == Advertised = Advertises(cand, found)
  BY DEF Advertised, Advertises, AllWays, EachWays, Ways

\* A step that keeps the account of the tries.
LEMMA AttemptsKept ==
    ASSUME TypeOK, AttemptsInv, UNCHANGED <<cand, found, tries, result, dropped>>,
           pc # "lookup", pc' \notin {"lookup", "attempt"},
           dropped => pc' \in {"save", "dump", "idle"},
           pc' \in {"save", "dump"} => pc \in {"save", "dump"} \/ result # None
    PROVE  AttemptsInv'
  <1>1. Advertised' = Advertised /\ Taken' = Taken
    BY DEF Advertised, Taken
  <1>2. \A a : Succeeded(a)' = Succeeded(a)
    BY DEF Succeeded
  <1> QED
    BY <1>1, <1>2 DEF AttemptsInv, Succeeded, Raising

LEMMA AttemptsStep ==
    TypeOK /\ HandInv /\ TriesInv /\ AttemptsInv /\ [Next]_vars => AttemptsInv'
  <1> SUFFICES ASSUME TypeOK, HandInv, TriesInv, AttemptsInv, [Next]_vars
               PROVE  AttemptsInv'
    OBVIOUS
  <1>0. /\ tries \in Seq(Attempt) /\ Len(tries) \in Nat /\ found \in BepRecords
        /\ Taken \in Seq(Way) /\ Len(Taken) = Len(tries)
    BY TakenTyped DEF TypeOK
  <1>1. CASE UNCHANGED vars
    BY <1>1 DEF vars, AttemptsInv, Advertised, Taken, Left, AllWays, EachWays, Ways, Succeeded,
                Raising
  <1>2. CASE TakeCandidate
    BY <1>2 DEF TakeCandidate, AttemptsInv
  <1>3. CASE DenyListed
    <2>1. /\ pc = "lookup" /\ pc' = "save" /\ UNCHANGED <<cand, found, tries, result>>
          /\ tries = <<>> /\ cand \in Candidates /\ ~dropped'
      BY <1>3 DEF DenyListed, TriesInv, HandInv, Busy, AttemptsInv
    <2>2. Advertised \in Seq(Way)
      <3>1. PreferencesOf(cand, None) = Preferences(None)
        BY DEF Preferences, PreferencesOf
      <3>2. None \in BepRecords \ {<<>>} \/ None = <<>>
        BY SubmissionAssumption
      <3>3. found = None
        BY <2>1 DEF AttemptsInv
      <3>4. Advertised = AllWays(PreferencesOf(cand, None))
        BY <1>0, <2>1, <3>3, AdvertisedIs, AdvertisedWays
      <3>5. PreferencesOf(cand, None) \in Seq(Preference)
        BY <2>1, NoRecordTyped
      <3> QED
        BY <3>4, <3>5, AllWaysTyped
    <2>3. Taken = <<>> /\ Taken \o Advertised = Advertised
      <3>1. Taken = <<>>
        BY <2>1 DEF Taken
      <3> QED
        BY <2>2, <3>1, ConcatEmptySeq
    <2>4. Advertised' = Advertised /\ Taken' = Taken
      BY <2>1 DEF Advertised, Taken
    <2> QED
      BY <2>1, <2>2, <2>3, <2>4 DEF AttemptsInv
  <1>4. CASE LookupBep34
    <2>1. PICK record \in BepRecords \ {<<>>} :
             found' = record /\ prefs' = Preferences(record)
      BY <1>4 DEF LookupBep34
    <2>2. /\ pc = "lookup" /\ pc' = "attempt" /\ UNCHANGED <<cand, tries, result, tls>>
          /\ tries = <<>> /\ cand \in Candidates /\ tls = FALSE /\ ~dropped'
      BY <1>4 DEF LookupBep34, TriesInv, HandInv, Busy, AttemptsInv
    <2>3. prefs' = PreferencesOf(cand, record) /\ prefs' \in Seq(Preference)
      BY <2>1, <2>2, PreferencesTyped DEF Preferences, PreferencesOf
    <2>4. Advertised' = AllWays(PreferencesOf(cand, record))
      <3>1. Advertised' = Advertises(cand', found')
        BY DEF Advertised, Advertises, AllWays, EachWays, Ways
      <3> QED
        BY <2>1, <2>2, <3>1, AdvertisedWays
    <2>5. Left' = AllWays(prefs')
      BY <2>2 DEF Left, AllWays, EachWays, Ways
    <2>6. Left' \in Seq(Way) /\ Advertised' = Left'
      BY <2>3, <2>4, <2>5, AllWaysTyped
    <2>7. Taken' = <<>>
      BY <2>2 DEF Taken
    <2>8. <<>> \o Left' = Left'
      BY <2>6, ConcatEmptySeq
    <2> QED
      BY <2>2, <2>6, <2>7, <2>8 DEF AttemptsInv
  <1>5. CASE DeniedByBep34
    <2>1. /\ pc = "lookup" /\ pc' = "save" /\ UNCHANGED <<cand, tries, result>>
          /\ tries = <<>> /\ found' = <<>> /\ <<>> \in BepRecords /\ ~dropped'
      BY <1>5 DEF DeniedByBep34, TriesInv, AttemptsInv
    <2>2. Taken' = <<>>
      BY <2>1 DEF Taken
    <2>3. Advertised' \in Seq(Way) /\ <<>> \o Advertised' = Advertised'
      <3>1. cand \in Candidates
        BY <2>1 DEF HandInv, Busy
      <3>2. PreferencesOf(cand, <<>>) \in Seq(Preference)
        <4>1. <<>> \in Seq(Preference)
          OBVIOUS
        <4>2. CASE None = <<>>
          BY <3>1, <4>2, NoRecordTyped
        <4>3. CASE None # <<>>
          BY <4>1, <4>3 DEF PreferencesOf
        <4> QED
          BY <4>2, <4>3
      <3>3. Advertised' = Advertises(cand', found')
        BY DEF Advertised, Advertises, AllWays, EachWays, Ways
      <3>4. Advertised' = AllWays(PreferencesOf(cand, <<>>))
        BY <2>1, <3>1, <3>3, AdvertisedWays
      <3> QED
        BY <3>2, <3>4, AllWaysTyped, ConcatEmptySeq
    <2> QED
      BY <2>1, <2>2, <2>3 DEF AttemptsInv
  <1>6. CASE TryUdp \/ TryHttps \/ TryHttp
    <2>1. PICK a \in Attempt : \E rest \in Seq(Way) :
              /\ Trying(a)
              /\ Left = <<<<a.proto, a.port>>>> \o rest
              /\ pc' = "attempt" => rest = Left' /\ (tls' => Head(prefs').proto = "tcp")
              /\ pc' = "save" => rest = <<>>
      BY <1>6, TakesTheFirst
    <2>2. PICK rest \in Seq(Way) :
              /\ Left = <<<<a.proto, a.port>>>> \o rest
              /\ pc' = "attempt" => rest = Left' /\ (tls' => Head(prefs').proto = "tcp")
              /\ pc' = "save" => rest = <<>>
      BY <2>1
    <2>3. /\ Trying(a) /\ pc = "attempt" /\ UNCHANGED <<cand, found>> /\ cand \in Candidates
          /\ pc' \in {"attempt", "verdict", "save"} /\ tries' = Append(tries, a)
          /\ result = None /\ cand # None /\ ~dropped'
      <3>1. /\ Trying(a) /\ pc = "attempt" /\ UNCHANGED <<cand, found, dropped>>
            /\ pc' \in {"attempt", "verdict", "save"} /\ tries' = Append(tries, a)
        BY <2>1 DEF Trying
      <3>2. cand \in Candidates /\ cand # None /\ result = None
        BY <3>1, LimitsHold DEF HandInv, TriesInv, Busy, Limits
      <3>3. ~dropped'
        BY <3>1 DEF AttemptsInv
      <3> QED
        BY <3>1, <3>2, <3>3
    <2> DEFINE way == <<a.proto, a.port>>
    <2>4. way \in Way /\ <<way>> \in Seq(Way)
      BY DEF Attempt, Way
    <2> HIDE DEF way
    <2>5. Taken' = Taken \o <<way>>
      <3>1. /\ Len(tries') = Len(tries) + 1 /\ tries'[Len(tries) + 1] = a
            /\ DOMAIN tries' = 1..Len(tries) + 1
            /\ \A i \in 1..Len(tries) : tries'[i] = tries[i]
        BY <1>0, <2>3
      <3>2. Append(Taken, way) = [i \in 1..Len(tries) + 1 |-> <<tries'[i].proto, tries'[i].port>>]
        <4> DEFINE u == Append(Taken, way)
                   v == [i \in 1..Len(tries) + 1 |-> <<tries'[i].proto, tries'[i].port>>]
        <4>1. /\ u \in Seq(Way) /\ Len(u) = Len(tries) + 1 /\ u[Len(tries) + 1] = way
              /\ \A i \in 1..Len(tries) : u[i] = Taken[i]
          BY <1>0, <2>4
        <4>2. \A i \in 1..Len(tries) : Taken[i] = <<tries[i].proto, tries[i].port>>
          BY <1>0 DEF Taken
        <4> HIDE DEF u
        <4>3. \A i \in 1..Len(tries) + 1 : u[i] = v[i]
          <5> SUFFICES ASSUME NEW i \in 1..Len(tries) + 1
                       PROVE  u[i] = <<tries'[i].proto, tries'[i].port>>
            OBVIOUS
          <5>1. CASE i = Len(tries) + 1
            BY <3>1, <4>1, <5>1 DEF way
          <5>2. CASE i # Len(tries) + 1
            <6>1. i \in 1..Len(tries)
              BY <1>0, <5>2
            <6> QED
              BY <3>1, <4>1, <4>2, <6>1
          <5> QED
            BY <5>1, <5>2
        <4>4. DOMAIN u = 1..Len(tries) + 1 /\ u = [i \in DOMAIN u |-> u[i]]
          BY <4>1
        <4>5. u = v
          BY <4>3, <4>4
        <4> QED
          BY <4>5 DEF u
      <3>3. Append(Taken, way) = Taken \o <<way>>
        BY <1>0, <2>4
      <3> QED
        BY <3>1, <3>2, <3>3 DEF Taken
    <2>6. Advertised = Taken \o (<<way>> \o rest)
      BY <2>2, <2>3 DEF AttemptsInv, way
    <2>7. Advertised' = Taken' \o rest
      <3>1. Advertised' = Advertised
        BY <2>3 DEF Advertised
      <3>2. (Taken \o <<way>>) \o rest = Taken \o (<<way>> \o rest)
        BY <1>0, <2>4, ConcatAssoc
      <3> QED
        BY <2>5, <2>6, <3>1, <3>2
    <2>8. ASSUME NEW i \in DOMAIN tries', Succeeded(tries'[i])
          PROVE  i = Len(tries') /\ result' = tries'[i]
      <3>1. /\ Len(tries') = Len(tries) + 1 /\ tries'[Len(tries) + 1] = a
            /\ DOMAIN tries' = 1..Len(tries) + 1
            /\ \A k \in 1..Len(tries) : tries'[k] = tries[k]
        BY <1>0, <2>3
      <3>2. CASE i = Len(tries) + 1
        <4>1. result' = a
          BY <2>3, <2>8, <3>1, <3>2 DEF Trying
        <4> QED
          BY <3>1, <3>2, <4>1
      <3>3. CASE i # Len(tries) + 1
        <4>1. i \in 1..Len(tries) /\ i \in DOMAIN tries /\ tries'[i] = tries[i]
          BY <1>0, <3>1, <3>3
        <4>2. tries[i] \in Attempt /\ tries[i] = None
          BY <1>0, <2>3, <2>8, <4>1 DEF AttemptsInv, Succeeded
        <4> QED
          BY <4>2, LimitsHold DEF Limits
      <3> QED
        BY <3>2, <3>3
    <2>9. pc' = "attempt" => rest = Left' /\ (tls' => Head(prefs').proto = "tcp")
      BY <2>2
    <2>10. pc' = "save" => rest = <<>>
      BY <2>2
    <2> QED
      BY <2>3, <2>7, <2>8, <2>9, <2>10 DEF AttemptsInv, Succeeded
  <1>7. CASE RaisesValueError
    <2>1. /\ pc = "attempt" /\ pc' = "save" /\ UNCHANGED <<cand, found, tries, result>>
          /\ ~(Head(prefs).port <= MaxPort) \/ Head(prefs).proto = "tcp"
          /\ dropped' /\ cand \in Candidates
      BY <1>7 DEF RaisesValueError, PortParses, HandInv, Busy
    <2>2. prefs \in Seq(Preference) /\ prefs # <<>>
      BY <2>1 DEF TypeOK, Preference
    <2>3. /\ Head(prefs) \in Preference /\ Tail(prefs) \in Seq(Preference)
          /\ AllWays(prefs) = Ways(Head(prefs)) \o AllWays(Tail(prefs))
      BY <2>2, WaysOfFirst
    <2>4. /\ Left \in Seq(Way) /\ Left # <<>> /\ Left[1][2] = Head(prefs).port
          /\ Head(prefs).proto = "tcp" => Left[1][1] # "udp"
      <3> DEFINE port == Head(prefs).port
                 first == IF tls THEN <<<<"http", port>>>> ELSE Ways(Head(prefs))
      <3>1. port \in Port
        BY <2>3 DEF Preference
      <3>2. /\ <<"udp", port>> \in Way /\ <<"https", port>> \in Way /\ <<"http", port>> \in Way
        BY <3>1 DEF Way, Protocols
      <3> HIDE DEF port
      <3>3. /\ first \in Seq(Way) /\ Len(first) >= 1 /\ first[1][2] = port
            /\ Head(prefs).proto = "tcp" => first[1][1] # "udp"
        BY <3>2 DEF Ways, port
      <3>4. Left = first \o AllWays(Tail(prefs))
        BY <2>3 DEF Left, port
      <3> HIDE DEF first
      <3>5. AllWays(Tail(prefs)) \in Seq(Way)
        BY <2>3, AllWaysTyped
      <3>6. Left \in Seq(Way) /\ Left[1] = first[1] /\ Left # <<>>
        <4>1. Len(first) \in Nat /\ Len(AllWays(Tail(prefs))) \in Nat
              /\ 1 \in 1..Len(first) + Len(AllWays(Tail(prefs)))
          BY <3>3, <3>5
        <4> QED
          BY <3>3, <3>4, <3>5, <4>1, ConcatProperties
      <3> QED
        BY <3>3, <3>6 DEF port
    <2>5. Left # <<>> /\ Raising(Left[1])
      <3>1. Head(prefs).port \in Nat
        BY <2>3, PortIsNat DEF Preference
      <3>2. Head(prefs).port > MaxPort \/ Head(prefs).proto = "tcp"
        BY <2>1, <3>1, SubmissionAssumption
      <3> QED
        BY <2>4, <3>2 DEF Raising
    <2>6. Advertised = Taken \o Left \/ cand = None
      BY <2>1 DEF AttemptsInv
    <2>7. Advertised' = Advertised /\ Taken' = Taken
      BY <2>1 DEF Advertised, Taken
    <2>8. \A i \in DOMAIN tries : cand # None /\ Succeeded(tries[i])
                                       => i = Len(tries) /\ result = tries[i]
      BY DEF AttemptsInv
    <2> QED
      BY <2>1, <2>4, <2>5, <2>6, <2>7, <2>8 DEF AttemptsInv, Succeeded, Raising
  <1>8. CASE Raises \/ OpenFile \/ DumpFile
    <2>1. /\ pc \in {"attempt", "insert", "save", "dump"} /\ pc' \in {"idle", "dump"}
          /\ UNCHANGED <<cand, found, tries, result, dropped>>
          /\ pc' = "dump" => pc = "save"
      BY <1>8 DEF Raises, OpenFile, DumpFile
    <2> QED
      BY <2>1, AttemptsKept
  <1>9. CASE DenyInterval \/ PutBackRejected \/ AcceptInterval \/ InsertTracker
    <2>1. /\ pc \in {"verdict", "mark", "insert"} /\ pc' \in {"mark", "insert", "save"}
          /\ UNCHANGED <<cand, found, tries, result, dropped>>
      BY <1>9 DEF DenyInterval, PutBackRejected, AcceptInterval, InsertTracker
    <2>2. result # None /\ ~dropped
      BY <2>1 DEF TypeOK, TriesInv, AttemptsInv
    <2> QED
      BY <2>1, <2>2, AttemptsKept
  <1>10. CASE Restart
    <2>1. cand' = None /\ pc' \in {"idle", "stuck"} /\ ~dropped'
      BY <1>10 DEF Restart
    <2> QED
      BY <2>1 DEF AttemptsInv
  <1> QED
    BY <1>1, <1>2, <1>3, <1>4, <1>5, <1>6, <1>7, <1>8, <1>9, <1>10 DEF Next

\* The prefix of a concatenation, and what follows it.
LEMMA PrefixOfConcat ==
    ASSUME NEW S, NEW a \in Seq(S), NEW b \in Seq(S)
    PROVE  /\ IsPrefix(a, a \o b)
           /\ b = <<>> => Len(a \o b) = Len(a)
           /\ b # <<>> => (a \o b)[Len(a) + 1] = b[1] /\ Len(a) < Len(a \o b)
  <1> DEFINE c == a \o b
  <1>1. /\ c \in Seq(S) /\ Len(c) = Len(a) + Len(b) /\ Len(a) \in Nat /\ Len(b) \in Nat
        /\ \A i \in 1..Len(a) + Len(b) : c[i] = IF i <= Len(a) THEN a[i] ELSE b[i - Len(a)]
    BY ConcatProperties
  <1> HIDE DEF c
  <1>2. \A i \in 1..Len(a) : c[i] = a[i]
    BY <1>1
  <1>3. SubSeq(a, 1, Len(a)) = SubSeq(c, 1, Len(a))
    <2>1. \A i \in 1..Len(a) : a[i] \in S /\ c[i] \in S
      BY <1>1, <1>2
    <2>2. SubSeq(a, 1, Len(a)) = [i \in 1..Len(a) |-> a[i]]
      BY <1>1
    <2>3. SubSeq(c, 1, Len(a)) = [i \in 1..Len(a) |-> c[i]]
      BY <1>1
    <2> QED
      BY <1>2, <2>2, <2>3
  <1>4. b # <<>> => Len(a) + 1 \in 1..Len(a) + Len(b) /\ ~(Len(a) + 1 <= Len(a))
                    /\ Len(a) + 1 - Len(a) = 1
    BY <1>1
  <1>5. b = <<>> => Len(c) = Len(a)
    BY <1>1
  <1>6. Len(a) <= Len(c) /\ (b # <<>> => Len(a) < Len(c))
    BY <1>1
  <1> QED
    BY <1>1, <1>3, <1>4, <1>5, <1>6 DEF c, IsPrefix

\* The tracker is contacted as its host advertises, in that order, up to the first way
\* that works; a denial without an answer comes when no way is left, or when a port or
\* requests has raised ValueError, which drops those left, the good ones with it.
THEOREM ContactedAsAdvertised == Spec => []AttemptsAsAdvertised
  <1>1. TypeOK /\ AttemptsInv => AttemptsAsAdvertised
    <2> SUFFICES ASSUME TypeOK, AttemptsInv, cand # None, pc # "lookup"
                 PROVE  /\ IsPrefix(Taken, Advertised)
                        /\ \A i \in DOMAIN tries :
                              Succeeded(tries[i]) => i = Len(tries) /\ result = tries[i]
                        /\ pc \in {"save", "dump"} /\ result = None /\ tries # <<>> =>
                              dropped \/ Len(tries) = Len(Advertised)
                        /\ dropped => /\ Len(tries) < Len(Advertised)
                                      /\ Raising(Advertised[Len(tries) + 1])
      BY DEF AttemptsAsAdvertised, Taken, Raising
    <2>1. PICK rest \in Seq(Way) :
             /\ Advertised = Taken \o rest
             /\ pc \in {"save", "dump"} /\ result = None /\ tries # <<>> =>
                   dropped \/ rest = <<>>
             /\ dropped => rest # <<>> /\ Raising(rest[1])
      BY DEF AttemptsInv
    <2>2. Taken \in Seq(Way) /\ Len(Taken) = Len(tries)
      BY TakenTyped
    <2>3. /\ IsPrefix(Taken, Advertised)
          /\ rest = <<>> => Len(Advertised) = Len(tries)
          /\ rest # <<>> => /\ Advertised[Len(tries) + 1] = rest[1]
                            /\ Len(tries) < Len(Advertised)
      BY <2>1, <2>2, PrefixOfConcat
    <2> QED
      BY <2>1, <2>3 DEF AttemptsInv
  <1>2. Init => TriesInv /\ AttemptsInv
    BY DEF Init, TriesInv, AttemptsInv, Busy
  <1> QED
    BY <1>1, <1>2, Always, TriesStep, AttemptsStep, PTL DEF Spec
=============================================================================
