--------------------------- MODULE StatsBusProofs ---------------------------
(***************************************************************************)
(* The event streams of the dashboard, for every set of publishers and of  *)
(* streams, any size of the queues and any number of events: a stream that *)
(* lost nothing to its full queue gets the events due to it once, in the   *)
(* order of each publisher.                                                *)
(*                                                                         *)
(* _publish calls a copy of the list of subscribers, so a stream can be    *)
(* called after it unsubscribed, and is not called for an event published  *)
(* before it came.  The invariant says what is due at every moment of a    *)
(* round of calls: a stream still to be called is due all but the event    *)
(* under way, and one that left since is due that event as well.           *)
(***************************************************************************)
EXTENDS StatsBus, SequenceTheorems, TLAPS

USE StatsBusAssumption

-----------------------------------------------------------------------------
(* Sequences *)

LEMMA ConcatAppend ==
    ASSUME NEW S, NEW a \in Seq(S), NEW b \in Seq(S), NEW c \in Seq(S), NEW e \in S
    PROVE  a \o b \o Append(c, e) = Append(a \o b \o c, e)
<1>1. /\ a \o b \in Seq(S) /\ a \o b \o c \in Seq(S) /\ Append(c, e) \in Seq(S)
      /\ a \o b \o Append(c, e) \in Seq(S) /\ Append(a \o b \o c, e) \in Seq(S)
      /\ <<e>> \in Seq(S)
  BY ConcatProperties, AppendProperties
<1>2. Append(c, e) = c \o <<e>> /\ Append(a \o b \o c, e) = a \o b \o c \o <<e>>
  BY <1>1, AppendIsConcat
<1> QED
  BY <1>1, <1>2, ConcatAssociative

LEMMA HeadOntoTail ==
    ASSUME NEW S, NEW q \in Seq(S), q # <<>>
    PROVE  <<Head(q)>> \in Seq(S) /\ <<Head(q)>> \o Tail(q) = q
<1>1. /\ Head(q) \in S /\ Tail(q) \in Seq(S) /\ Len(Tail(q)) = Len(q) - 1
      /\ \A i \in 1 .. Len(Tail(q)) : Tail(q)[i] = q[i + 1]
      /\ Len(q) \in Nat \ {0}
  BY HeadTailProperties, EmptySeq
<1>2. <<Head(q)>> \in Seq(S) /\ Len(<<Head(q)>>) = 1 /\ <<Head(q)>>[1] = q[1]
  BY <1>1
<1>3. /\ <<Head(q)>> \o Tail(q) \in Seq(S)
      /\ Len(<<Head(q)>> \o Tail(q)) = Len(q)
      /\ \A i \in 1 .. Len(q) :
            (<<Head(q)>> \o Tail(q))[i] = IF i <= 1 THEN <<Head(q)>>[i] ELSE Tail(q)[i - 1]
  BY <1>1, <1>2, ConcatProperties
<1>4. \A i \in 1 .. Len(q) : (<<Head(q)>> \o Tail(q))[i] = q[i]
  BY <1>1, <1>2, <1>3
<1> QED
  BY <1>2, <1>3, <1>4, SeqEqual

LEMMA TailOnce ==
    ASSUME NEW S, NEW t \in Seq(S), t # <<>>, IsInjective(t)
    PROVE  /\ Head(t) \in S /\ Head(t) \in Range(t)
           /\ Tail(t) \in Seq(S) /\ IsInjective(Tail(t))
           /\ Range(Tail(t)) = Range(t) \ {Head(t)}
           /\ Len(t) = 1 <=> Tail(t) = <<>>
<1>1. /\ Tail(t) \in Seq(S) /\ Len(Tail(t)) = Len(t) - 1 /\ Head(t) = t[1]
      /\ Len(t) \in Nat \ {0}
      /\ \A i \in 1 .. Len(t) - 1 : Tail(t)[i] = t[i + 1]
  BY HeadTailProperties, EmptySeq
<1>2. \A i, j \in 1 .. Len(t) : t[i] = t[j] => i = j
  BY DEF IsInjective
<1>3. Head(t) \in S /\ Head(t) \in Range(t)
  BY <1>1 DEF Range
<1>4. IsInjective(Tail(t))
  <2>1. SUFFICES ASSUME NEW i \in 1 .. Len(t) - 1, NEW j \in 1 .. Len(t) - 1,
                        Tail(t)[i] = Tail(t)[j]
                 PROVE  i = j
    BY <1>1 DEF IsInjective
  <2>2. i + 1 = j + 1
    BY <1>1, <1>2, <2>1
  <2> QED
    BY <2>2
<1>5. Range(Tail(t)) = Range(t) \ {Head(t)}
  <2>1. \A i \in 1 .. Len(Tail(t)) : Tail(t)[i] \in Range(t) /\ Tail(t)[i] # Head(t)
    BY <1>1, <1>2 DEF Range
  <2>2. ASSUME NEW i \in 1 .. Len(t), t[i] # Head(t) PROVE t[i] \in Range(Tail(t))
    <3>1. i - 1 \in 1 .. Len(Tail(t)) /\ Tail(t)[i - 1] = t[i]
      BY <1>1, <2>2
    <3>2. DOMAIN Tail(t) = 1 .. Len(Tail(t))
      BY <1>1, LenProperties
    <3> QED
      BY <3>1, <3>2 DEF Range
  <2>3. Range(Tail(t)) \subseteq Range(t) \ {Head(t)}
    BY <1>1, <2>1 DEF Range
  <2>4. \A x \in Range(t) : \E i \in 1 .. Len(t) : x = t[i]
    BY DEF Range
  <2> QED
    BY <2>2, <2>3, <2>4
<1>6. Len(t) = 1 <=> Tail(t) = <<>>
  <2>1. Tail(t) # <<>> => Len(Tail(t)) \in Nat \ {0}
    BY <1>1, EmptySeq
  <2>2. Tail(t) = <<>> => Len(Tail(t)) = 0
    <3>1. Len(<<>>) = 0
      OBVIOUS
    <3> QED
      BY <3>1, Zenon
  <2> QED
    BY <1>1, <2>1, <2>2
<1> QED
  BY <1>1, <1>3, <1>4, <1>5, <1>6

LEMMA AppendOnce ==
    ASSUME NEW S, NEW q \in Seq(S), IsInjective(q), NEW e \in S, e \notin Range(q)
    PROVE  /\ Append(q, e) \in Seq(S)
           /\ IsInjective(Append(q, e))
           /\ Range(Append(q, e)) = Range(q) \cup {e}
<1>1. /\ Append(q, e) \in Seq(S) /\ Len(Append(q, e)) = Len(q) + 1
      /\ \A i \in 1 .. Len(q) : Append(q, e)[i] = q[i]
      /\ Append(q, e)[Len(q) + 1] = e /\ Len(q) \in Nat
  BY AppendProperties
<1>2. \A i, j \in 1 .. Len(q) : q[i] = q[j] => i = j
  BY DEF IsInjective
<1>3. \A i \in 1 .. Len(q) : q[i] # e
  BY DEF Range
<1>4. IsInjective(Append(q, e))
  BY <1>1, <1>2, <1>3 DEF IsInjective
<1>5. Range(Append(q, e)) = Range(q) \cup {e}
  BY <1>1 DEF Range
<1> QED
  BY <1>1, <1>4, <1>5

(* A subscriber is in the list once, so list.remove leaves all the others. *)
LEMMA RemoveOnce ==
    ASSUME NEW S, NEW q \in Seq(S), IsInjective(q), NEW e
    PROVE  /\ RemoveFirst(q, e) \in Seq(S)
           /\ IsInjective(RemoveFirst(q, e))
           /\ Range(RemoveFirst(q, e)) = Range(q) \ {e}
<1>1. CASE \A i \in 1 .. Len(q) : q[i] # e
  <2>1. RemoveFirst(q, e) = q
    BY <1>1 DEF RemoveFirst
  <2>2. e \notin Range(q)
    BY <1>1 DEF Range
  <2> QED
    BY <2>1, <2>2
<1>2. ASSUME NEW k \in 1 .. Len(q), q[k] = e
      PROVE  /\ RemoveFirst(q, e) \in Seq(S)
             /\ IsInjective(RemoveFirst(q, e))
             /\ Range(RemoveFirst(q, e)) = Range(q) \ {e}
  <2>1. \A i \in 1 .. Len(q) : q[i] = e <=> i = k
    BY <1>2 DEF IsInjective
  <2>2. RemoveFirst(q, e) = RemoveAt(q, k)
    <3>1. SelectInSeq(q, LAMBDA v : v = e) = k
      <4>1. {i \in 1 .. Len(q) : q[i] = e} = {k}
        BY <2>1
      <4>2. Min({k}) = k
        BY DEF Min
      <4> QED
        BY <4>1, <4>2 DEF SelectInSeq
    <3> QED
      BY <1>2, <3>1 DEF RemoveFirst
  <2> DEFINE a == SubSeq(q, 1, k - 1)
             b == SubSeq(q, k + 1, Len(q))
             r == a \o b
  <2>3. /\ a \in Seq(S) /\ Len(a) = k - 1 /\ \A i \in 1 .. k - 1 : a[i] = q[i]
        /\ b \in Seq(S) /\ Len(b) = Len(q) - k
        /\ \A i \in 1 .. Len(q) - k : b[i] = q[k + i]
    BY SubSeqProperties
  <2> HIDE DEF a, b
  <2>4. /\ r \in Seq(S) /\ Len(r) = Len(q) - 1
        /\ \A i \in 1 .. Len(q) - 1 : r[i] = IF i < k THEN q[i] ELSE q[i + 1]
    <3>1. /\ r \in Seq(S) /\ Len(r) = Len(a) + Len(b)
          /\ \A i \in 1 .. Len(a) + Len(b) : r[i] = IF i <= Len(a) THEN a[i] ELSE b[i - Len(a)]
      BY <2>3, ConcatProperties
    <3> QED
      BY <2>3, <3>1
  <2> HIDE DEF r
  <2>5. IsInjective(r)
    <3>1. \A i, j \in 1 .. Len(q) : q[i] = q[j] => i = j
      BY DEF IsInjective
    <3>2. SUFFICES ASSUME NEW i \in 1 .. Len(q) - 1, NEW j \in 1 .. Len(q) - 1, r[i] = r[j]
                   PROVE  i = j
      BY <2>4 DEF IsInjective
    <3> DEFINE before(n) == IF n < k THEN n ELSE n + 1
    <3>3. before(i) \in 1 .. Len(q) /\ before(j) \in 1 .. Len(q)
      OBVIOUS
    <3>4. r[i] = q[before(i)] /\ r[j] = q[before(j)]
      BY <2>4
    <3>5. before(i) = before(j)
      BY <3>1, <3>2, <3>3, <3>4
    <3> QED
      BY <3>5
  <2>6. Range(r) = Range(q) \ {e}
    <3>1. \A i \in 1 .. Len(r) : r[i] \in Range(q) /\ r[i] # e
      BY <2>1, <2>4 DEF Range
    <3>2. ASSUME NEW i \in 1 .. Len(q), i # k PROVE q[i] \in Range(r)
      <4>1. CASE i < k
        <5>1. i \in 1 .. Len(r) /\ r[i] = q[i]
          BY <2>4, <4>1
        <5> QED
          BY <2>4, <5>1 DEF Range
      <4>2. CASE i > k
        <5>1. i - 1 \in 1 .. Len(r) /\ r[i - 1] = q[i]
          BY <2>4, <4>2
        <5> QED
          BY <2>4, <5>1 DEF Range
      <4> QED
        BY <3>2, <4>1, <4>2
    <3>3. Range(r) \subseteq Range(q) \ {e}
      BY <2>4, <3>1 DEF Range
    <3>4. \A x \in Range(q) \ {e} : \E i \in 1 .. Len(q) : x = q[i] /\ i # k
      BY <1>2 DEF Range
    <3> QED
      BY <3>2, <3>3, <3>4
  <2> QED
    BY <2>2, <2>4, <2>5, <2>6 DEF RemoveAt, r, a, b
<1> QED
  BY <1>1, <1>2

-----------------------------------------------------------------------------
(* The invariant *)

BusTyped ==
    /\ shown \in [Publishers -> Nat]
    /\ pub \in [Publishers -> {"idle", "copy", "call"}]
    /\ todo \in [Publishers -> Seq(Streams)]
    /\ subs \in Seq(Streams)
    /\ at \in [Streams -> {"none", "get", "write", "leave", "end"}]
    /\ queue \in [Streams -> Seq(Events)]
    /\ hand \in [Streams -> Seq(Events)]
    /\ sent \in [Streams -> Seq(Events)]
    /\ broken \subseteq Streams /\ lost \subseteq Streams
    /\ from \in [Streams -> [Publishers -> Nat]]
    /\ until \in [Streams -> [Publishers -> Nat]]

SubsFit ==
    /\ IsInjective(subs)
    /\ \A s \in Streams : at[s] \in {"get", "write", "leave"} <=> s \in Range(subs)

(* A round of calls: who is still to be called has subscribed, and if it   *)
(* left meanwhile, it left when the event under way had been copied.       *)
CallsFit ==
    \A p \in Publishers :
        /\ IsInjective(todo[p])
        /\ pub[p] = "call" <=> todo[p] # <<>>
        /\ pub[p] # "idle" => shown[p] > 0
        /\ \A s \in Range(todo[p]) :
              /\ at[s] # "none"
              /\ at[s] = "end" => until[s][p] = shown[p]

StreamFits(s) ==
    /\ at[s] = "none" => sent[s] = <<>> /\ hand[s] = <<>> /\ queue[s] = <<>>
    /\ at[s] = "get" => hand[s] = <<>>
    /\ Len(hand[s]) <= 1 /\ Len(queue[s]) <= QueueMax

FromFits(s) == at[s] # "none" => \A p \in Publishers : from[s][p] <= LastDue(s, p)

InOrder(r) ==
    \A i, j \in 1 .. Len(r) : i < j /\ r[i][1] = r[j][1] => r[i][2] < r[j][2]

Complete(s) ==
    s \notin lost /\ at[s] # "none" => Range(Received(s)) = Due(s) /\ InOrder(Received(s))

StreamInv(s) == StreamFits(s) /\ FromFits(s) /\ Complete(s)

BusInv == BusTyped /\ SubsFit /\ CallsFit /\ \A s \in Streams : StreamInv(s)

LEMMA CopiedType ==
    ASSUME BusTyped, CallsFit
    PROVE  /\ Copied \in [Publishers -> Nat]
           /\ \A p \in Publishers :
                  Copied[p] = IF pub[p] = "copy" THEN shown[p] - 1 ELSE shown[p]
<1>1. \A p \in Publishers :
          /\ Copied[p] = IF pub[p] = "copy" THEN shown[p] - 1 ELSE shown[p]
          /\ shown[p] \in Nat /\ (pub[p] = "copy" => shown[p] > 0)
  BY DEF BusTyped, CallsFit, Copied
<1>2. \A p \in Publishers : Copied[p] \in Nat
  BY <1>1
<1>3. Copied = [p \in Publishers |-> Copied[p]]
  BY DEF Copied
<1> QED
  BY <1>1, <1>2, <1>3

LEMMA LastDueType ==
    ASSUME BusTyped, CallsFit, NEW s \in Streams, NEW p \in Publishers
    PROVE  LastDue(s, p) \in Nat
<1>1. s \in Range(todo[p]) => shown[p] > 0
  <2>1. s \in Range(todo[p]) => todo[p] # <<>>
    BY DEF Range
  <2> QED
    BY <2>1 DEF CallsFit
<1>2. Copied[p] \in Nat /\ until[s][p] \in Nat /\ shown[p] \in Nat
  BY CopiedType DEF BusTyped
<1> QED
  BY <1>1, <1>2 DEF LastDue

LEMMA ReceivedType ==
    ASSUME BusTyped, NEW s \in Streams
    PROVE  Received(s) \in Seq(Events)
BY ConcatProperties DEF BusTyped, Received

LEMMA ReceivedPut ==
    ASSUME NEW s, NEW e \in Events,
           sent[s] \in Seq(Events), hand[s] \in Seq(Events), queue[s] \in Seq(Events),
           sent' = sent, hand' = hand, queue'[s] = Append(queue[s], e)
    PROVE  Received(s)' = Append(Received(s), e)
<1>1. Received(s)' = sent[s] \o hand[s] \o Append(queue[s], e)
  BY DEF Received
<1>2. sent[s] \o hand[s] \o Append(queue[s], e) = Append(sent[s] \o hand[s] \o queue[s], e)
  <2>1. ASSUME NEW a \in Seq(Events), NEW b \in Seq(Events), NEW c \in Seq(Events)
        PROVE  a \o b \o Append(c, e) = Append(a \o b \o c, e)
    BY ConcatAppend
  <2> QED
    BY <2>1
<1> QED
  BY <1>1, <1>2 DEF Received

LEMMA DueMember ==
    ASSUME NEW s, NEW x
    PROVE  x \in Due(s) <=>
               \E p \in Publishers : \E n \in from[s][p] + 1 .. LastDue(s, p) : x = <<p, n>>
BY DEF Due

(* A stream that nothing is put into and whose due does not change.        *)
LEMMA StreamFrame ==
    ASSUME NEW s \in Streams, StreamInv(s), StreamFits(s)',
           s \notin lost' => s \notin lost,
           at[s] # "none", at'[s] # "none",
           Received(s)' = Received(s), from'[s] = from[s],
           \A p \in Publishers : LastDue(s, p)' = LastDue(s, p)
    PROVE  StreamInv(s)'
<1>1. Due(s)' = Due(s)
  BY DEF Due
<1> QED
  BY <1>1 DEF StreamInv, FromFits, Complete, InOrder

-----------------------------------------------------------------------------
(* Publishers *)

(* Nobody is due the event before the list is copied.                      *)
LEMMA UpdateStep ==
    ASSUME BusInv, NEW p \in Publishers, Update(p)
    PROVE  BusInv'
<1>1. /\ pub[p] = "idle" /\ shown' = [shown EXCEPT ![p] = shown[p] + 1]
      /\ pub' = [pub EXCEPT ![p] = "copy"]
      /\ UNCHANGED <<todo, subs, at, hand, sent, broken, queue, lost, from, until>>
  BY DEF Update, streamVars, pastVars
<1>2. BusTyped'
  <2>1. shown' \in [Publishers -> Nat] /\ pub' \in [Publishers -> {"idle", "copy", "call"}]
    BY <1>1 DEF BusInv, BusTyped
  <2> QED
    BY <1>1, <2>1 DEF BusInv, BusTyped
<1>3. /\ shown'[p] = shown[p] + 1 /\ pub'[p] = "copy" /\ todo[p] = <<>>
      /\ \A q \in Publishers : q # p => shown'[q] = shown[q] /\ pub'[q] = pub[q]
      /\ \A q \in Publishers : shown[q] \in Nat
  BY <1>1 DEF BusInv, BusTyped, CallsFit
<1>4. \A s : s \notin Range(todo[p])
  BY <1>3 DEF Range
<1>5. CallsFit'
  BY <1>1, <1>3, <1>4 DEF BusInv, CallsFit
<1>6. SubsFit'
  BY <1>1 DEF BusInv, SubsFit
<1>7. ASSUME NEW s \in Streams PROVE StreamInv(s)'
  <2>1. StreamInv(s)
    BY DEF BusInv
  <2>2. \A q \in Publishers : Copied'[q] = Copied[q]
    BY <1>1, <1>3 DEF Copied
  <2>3. ASSUME NEW q \in Publishers PROVE LastDue(s, q)' = LastDue(s, q)
    BY <1>1, <1>3, <1>4, <2>2 DEF LastDue
  <2>4. StreamFits(s)'
    BY <1>1, <2>1 DEF StreamInv, StreamFits
  <2>5. CASE at[s] = "none"
    BY <1>1, <2>4, <2>5 DEF StreamInv, FromFits, Complete
  <2>6. CASE at[s] # "none"
    BY <1>1, <2>1, <2>3, <2>4, <2>6, StreamFrame DEF Received
  <2> QED
    BY <2>5, <2>6
<1> QED
  BY <1>2, <1>5, <1>6, <1>7 DEF BusInv

LEMMA CopyStep ==
    ASSUME BusInv, NEW p \in Publishers, Copy(p)
    PROVE  BusInv'
<1>1. /\ pub[p] = "copy" /\ todo' = [todo EXCEPT ![p] = subs]
      /\ pub' = [pub EXCEPT ![p] = IF subs = <<>> THEN "idle" ELSE "call"]
      /\ UNCHANGED <<shown, subs, at, hand, sent, broken, queue, lost, from, until>>
  BY DEF Copy, streamVars, pastVars
<1>2. BusTyped'
  BY <1>1 DEF BusInv, BusTyped
<1>3. /\ todo'[p] = subs /\ pub'[p] = (IF subs = <<>> THEN "idle" ELSE "call")
      /\ \A q \in Publishers : q # p => todo'[q] = todo[q] /\ pub'[q] = pub[q]
      /\ \A q \in Publishers : shown[q] \in Nat
      /\ shown[p] > 0 /\ todo[p] = <<>>
  BY <1>1 DEF BusInv, BusTyped, CallsFit
<1>4. \A s \in Range(subs) : s \in Streams /\ at[s] \in {"get", "write", "leave"}
  <2>1. \A s \in Range(subs) : s \in Streams
    BY DEF BusInv, BusTyped, Range
  <2> QED
    BY <2>1 DEF BusInv, SubsFit
<1>5. CallsFit'
  BY <1>1, <1>3, <1>4 DEF BusInv, CallsFit, SubsFit
<1>6. SubsFit'
  BY <1>1 DEF BusInv, SubsFit
<1>7. ASSUME NEW s \in Streams PROVE StreamInv(s)'
  <2>1. StreamInv(s)
    BY DEF BusInv
  <2>2. /\ \A q \in Publishers : q # p => Copied'[q] = Copied[q]
        /\ Copied[p] = shown[p] - 1 /\ Copied'[p] = shown[p]
    BY <1>1, <1>3 DEF Copied
  <2>3. s \notin Range(todo[p])
    BY <1>3 DEF Range
  <2>4. ASSUME NEW q \in Publishers, at[s] # "none" PROVE LastDue(s, q)' = LastDue(s, q)
    <3>1. CASE q # p
      BY <1>1, <1>3, <2>2, <3>1 DEF LastDue
    <3>2. CASE q = p /\ s \in Range(subs)
      BY <1>1, <1>3, <1>4, <2>2, <2>3, <3>2 DEF LastDue
    <3>3. CASE q = p /\ s \notin Range(subs)
      <4>1. at[s] = "end"
        BY <2>4, <3>3 DEF BusInv, SubsFit, BusTyped
      <4> QED
        BY <1>1, <1>3, <2>3, <3>3, <4>1 DEF LastDue
    <3> QED
      BY <3>1, <3>2, <3>3
  <2>5. StreamFits(s)'
    BY <1>1, <2>1 DEF StreamInv, StreamFits
  <2>6. CASE at[s] = "none"
    BY <1>1, <2>5, <2>6 DEF StreamInv, FromFits, Complete
  <2>7. CASE at[s] # "none"
    BY <1>1, <2>1, <2>4, <2>5, <2>7, StreamFrame DEF Received
  <2> QED
    BY <2>6, <2>7
<1> QED
  BY <1>2, <1>5, <1>6, <1>7 DEF BusInv

(* The stream at the head of the copy is due the event from now on.        *)
LEMMA CallStep ==
    ASSUME BusInv, NEW p \in Publishers, Call(p)
    PROVE  BusInv'
<1>0. /\ todo[p] \in Seq(Streams) /\ todo[p] # <<>> /\ IsInjective(todo[p])
      /\ shown[p] \in Nat /\ shown[p] > 0
  BY DEF Call, BusInv, BusTyped, CallsFit
<1> PICK s \in Streams : s = Head(todo[p])
  BY <1>0, TailOnce
<1> PICK e : e = <<p, shown[p]>>
  OBVIOUS
<1>1. /\ pub[p] = "call"
      /\ todo' = [todo EXCEPT ![p] = Tail(todo[p])]
      /\ pub' = [pub EXCEPT ![p] = IF Len(todo[p]) = 1 THEN "idle" ELSE "call"]
      /\ UNCHANGED <<shown, subs, at, hand, sent, broken, from, until>>
      /\ \/ /\ Len(queue[s]) < QueueMax
            /\ queue' = [queue EXCEPT ![s] = Append(queue[s], e)]
            /\ lost' = lost
         \/ lost' = lost \cup {s} /\ queue' = queue
  BY DEF Call, Put, streamVars
<1>3. /\ s \in Streams /\ s \in Range(todo[p])
      /\ Tail(todo[p]) \in Seq(Streams) /\ IsInjective(Tail(todo[p]))
      /\ Range(Tail(todo[p])) = Range(todo[p]) \ {s}
      /\ Len(todo[p]) = 1 <=> Tail(todo[p]) = <<>>
  BY <1>0, TailOnce
<1>4. /\ at[s] # "none" /\ (at[s] = "end" => until[s][p] = shown[p])
      /\ e \in Events
  BY <1>0, <1>3 DEF BusInv, CallsFit, Events
<1>5. queue' \in [Streams -> Seq(Events)]
  <2>1. queue[s] \in Seq(Events) /\ Append(queue[s], e) \in Seq(Events)
    BY <1>3, <1>4, AppendProperties DEF BusInv, BusTyped
  <2> QED
    BY <1>1, <2>1 DEF BusInv, BusTyped
<1>6. /\ pub'[p] = (IF Len(todo[p]) = 1 THEN "idle" ELSE "call") /\ todo'[p] = Tail(todo[p])
      /\ \A q \in Publishers : q # p => pub'[q] = pub[q] /\ todo'[q] = todo[q]
  BY <1>1 DEF BusInv, BusTyped
<1>7. BusTyped'
  <2>1. todo' \in [Publishers -> Seq(Streams)]
    BY <1>1, <1>3 DEF BusInv, BusTyped
  <2>2. pub' \in [Publishers -> {"idle", "copy", "call"}]
    BY <1>1 DEF BusInv, BusTyped
  <2>3. lost' \subseteq Streams
    BY <1>1, <1>3 DEF BusInv, BusTyped
  <2> QED
    BY <1>1, <1>5, <2>1, <2>2, <2>3 DEF BusInv, BusTyped
<1>8. SubsFit'
  BY <1>1 DEF BusInv, SubsFit
<1>9. CallsFit'
  BY <1>1, <1>0, <1>3, <1>6 DEF BusInv, CallsFit
<1>10. \A q \in Publishers : Copied'[q] = Copied[q]
  BY <1>1, <1>6 DEF Copied
<1>11. ASSUME NEW r \in Streams, r # s PROVE StreamInv(r)'
  <2>1. /\ StreamInv(r) /\ queue'[r] = queue[r]
        /\ r \notin lost' => r \notin lost
    BY <1>1, <1>3, <1>11 DEF BusInv, BusTyped
  <2>2. ASSUME NEW q \in Publishers PROVE LastDue(r, q)' = LastDue(r, q)
    BY <1>1, <1>3, <1>6, <1>10, <1>11 DEF LastDue
  <2>3. StreamFits(r)'
    BY <1>1, <2>1 DEF StreamInv, StreamFits
  <2>4. CASE at[r] = "none"
    BY <1>1, <2>3, <2>4 DEF StreamInv, FromFits, Complete
  <2>5. CASE at[r] # "none"
    BY <1>1, <2>1, <2>2, <2>3, <2>5, StreamFrame DEF Received
  <2> QED
    BY <2>4, <2>5
<1>12. StreamInv(s)'
  <2>0. StreamInv(s) /\ from[s] \in [Publishers -> Nat]
    BY <1>3 DEF BusInv, BusTyped
  <2>1. LastDue(s, p) = shown[p] - 1 /\ LastDue(s, p)' = shown[p]
    <3>1. Copied[p] = shown[p]
      BY <1>1 DEF Copied
    <3> QED
      BY <1>1, <1>3, <1>4, <1>6, <1>10, <3>1 DEF LastDue
  <2>2. \A q \in Publishers : q # p => LastDue(s, q)' = LastDue(s, q)
    BY <1>1, <1>6, <1>10 DEF LastDue
  <2>3. StreamFits(s)'
    <3>1. queue[s] \in Seq(Events) /\ Len(queue[s]) \in Nat
      <4>1. queue[s] \in Seq(Events)
        BY <1>3 DEF BusInv, BusTyped
      <4> QED
        BY <4>1, LenProperties
    <3>2. \/ Len(queue[s]) < QueueMax /\ Len(queue'[s]) = Len(queue[s]) + 1
          \/ queue'[s] = queue[s]
      <4>1. queue' = queue => queue'[s] = queue[s]
        OBVIOUS
      <4>2. queue' = [queue EXCEPT ![s] = Append(queue[s], e)]
                => queue'[s] = Append(queue[s], e)
        BY <1>3 DEF BusInv, BusTyped
      <4>3. Len(Append(queue[s], e)) = Len(queue[s]) + 1
        BY <1>4, <3>1, AppendProperties
      <4> QED
        BY <1>1, <4>1, <4>2, <4>3
    <3>3. Len(queue'[s]) <= QueueMax /\ Len(queue[s]) <= QueueMax
      <4>1. Len(queue[s]) <= QueueMax
        BY <2>0 DEF StreamInv, StreamFits
      <4> QED
        BY <3>1, <3>2, <4>1
    <3> QED
      BY <1>1, <1>4, <2>0, <3>3 DEF StreamInv, StreamFits
  <2>4. FromFits(s)'
    <3>1. \A q \in Publishers : from[s][q] <= LastDue(s, q)'
      <4>1. \A q \in Publishers : from[s][q] \in Nat /\ from[s][q] <= LastDue(s, q)
        BY <1>4, <2>0 DEF StreamInv, FromFits
      <4> QED
        BY <1>0, <2>1, <2>2, <4>1
    <3> QED
      BY <1>1, <3>1 DEF FromFits
  <2>5. Complete(s)'
    <3> SUFFICES ASSUME s \notin lost' PROVE Range(Received(s)') = Due(s)' /\ InOrder(Received(s)')
      BY DEF Complete
    <3>1. /\ s \notin lost
          /\ queue' = [queue EXCEPT ![s] = Append(queue[s], e)]
      BY <1>1
    <3>2. /\ Received(s) \in Seq(Events)
          /\ Received(s)' = Append(Received(s), e)
      <4>1. sent[s] \in Seq(Events) /\ hand[s] \in Seq(Events) /\ queue[s] \in Seq(Events)
        BY <1>3 DEF BusInv, BusTyped
      <4>2. queue'[s] = Append(queue[s], e)
        BY <1>3, <3>1 DEF BusInv, BusTyped
      <4>3. Received(s)' = Append(Received(s), e)
        BY <1>1, <1>4, <4>1, <4>2, ReceivedPut
      <4>4. Received(s) \in Seq(Events)
        BY <1>3, ReceivedType DEF BusInv
      <4> QED
        BY <4>3, <4>4
    <3> DEFINE r == Received(s)
    <3>3. Range(r) = Due(s) /\ InOrder(r)
      BY <1>4, <2>0, <3>1 DEF StreamInv, Complete
    <3>4. /\ Len(r) \in Nat /\ Len(Append(r, e)) = Len(r) + 1
          /\ \A i \in 1 .. Len(r) : Append(r, e)[i] = r[i]
          /\ Append(r, e)[Len(r) + 1] = e
          /\ Append(r, e) \in Seq(Events)
      BY <1>4, <3>2, AppendProperties
    <3>5. Range(Append(r, e)) = Range(r) \cup {e}
      BY <3>2, <3>4 DEF Range
    <3>6. Due(s)' = Due(s) \cup {e}
      <4>1. ASSUME NEW q \in Publishers
            PROVE  /\ q # p => from'[s][q] + 1 .. LastDue(s, q)' = from[s][q] + 1 .. LastDue(s, q)
                   /\ q = p => from'[s][q] + 1 .. LastDue(s, q)'
                                 = (from[s][q] + 1 .. LastDue(s, q)) \cup {shown[p]}
        <5>1. from[s][q] \in Nat /\ from[s][q] <= LastDue(s, q)
          BY <1>4, <2>0 DEF StreamInv, FromFits
        <5> QED
          BY <1>1, <1>0, <2>1, <2>2, <5>1
      <4>2. \A x : x \in Due(s)' <=>
                \E q \in Publishers : \E n \in from'[s][q] + 1 .. LastDue(s, q)' : x = <<q, n>>
        BY DEF Due
      <4>3. \A x : x \in Due(s) <=>
                \E q \in Publishers : \E n \in from[s][q] + 1 .. LastDue(s, q) : x = <<q, n>>
        BY DEF Due
      <4>4. \A x : x \in Due(s)' <=> x \in Due(s) \/ x = <<p, shown[p]>>
        <5>1. ASSUME NEW x, x \in Due(s)' PROVE x \in Due(s) \/ x = <<p, shown[p]>>
          <6>0. PICK q \in Publishers : \E n \in from'[s][q] + 1 .. LastDue(s, q)' : x = <<q, n>>
            BY <4>2, <5>1
          <6>1. PICK n \in from'[s][q] + 1 .. LastDue(s, q)' : x = <<q, n>>
            BY <6>0
          <6>2. n \in from[s][q] + 1 .. LastDue(s, q) \/ (q = p /\ n = shown[p])
            BY <4>1
          <6> QED
            BY <4>3, <6>1, <6>2
        <5>2. ASSUME NEW x, x \in Due(s) PROVE x \in Due(s)'
          <6>0. PICK q \in Publishers : \E n \in from[s][q] + 1 .. LastDue(s, q) : x = <<q, n>>
            BY <4>3, <5>2
          <6>1. PICK n \in from[s][q] + 1 .. LastDue(s, q) : x = <<q, n>>
            BY <6>0
          <6>2. n \in from'[s][q] + 1 .. LastDue(s, q)'
            BY <4>1
          <6> QED
            BY <4>2, <6>1, <6>2
        <5>3. <<p, shown[p]>> \in Due(s)'
          <6>1. shown[p] \in from'[s][p] + 1 .. LastDue(s, p)'
            BY <4>1
          <6> QED
            BY <4>2, <6>1
        <5> QED
          BY <5>1, <5>2, <5>3
      <4> QED
        BY <4>4
    <3>7. \A i \in 1 .. Len(r) : r[i][1] = p => r[i][2] < shown[p]
      <4> SUFFICES ASSUME NEW i \in 1 .. Len(r), r[i][1] = p PROVE r[i][2] < shown[p]
        OBVIOUS
      <4>1. r[i] \in Due(s)
        BY <3>2, <3>3 DEF Range
      <4>2. PICK q \in Publishers : \E n \in from[s][q] + 1 .. LastDue(s, q) : r[i] = <<q, n>>
        BY <4>1, DueMember
      <4>3. PICK n \in from[s][q] + 1 .. LastDue(s, q) : r[i] = <<q, n>>
        BY <4>2
      <4>4. q = p /\ r[i][2] = n
        BY <4>3
      <4>5. from[s][p] \in Nat
        BY <2>0
      <4> QED
        BY <1>0, <2>1, <4>3, <4>4, <4>5
    <3>8. InOrder(Append(r, e))
      <4>1. e[1] = p /\ e[2] = shown[p]
        OBVIOUS
      <4> SUFFICES ASSUME NEW i \in 1 .. Len(r) + 1, NEW j \in 1 .. Len(r) + 1, i < j,
                          Append(r, e)[i][1] = Append(r, e)[j][1]
                   PROVE  Append(r, e)[i][2] < Append(r, e)[j][2]
        BY <3>4 DEF InOrder
      <4>2. i \in 1 .. Len(r) /\ Append(r, e)[i] = r[i]
        BY <3>4
      <4>3. CASE j \in 1 .. Len(r)
        BY <3>3, <3>4, <4>2, <4>3 DEF InOrder
      <4>4. CASE j = Len(r) + 1
        <5>1. Append(r, e)[j] = e
          BY <3>4, <4>4
        <5> QED
          BY <3>7, <4>1, <4>2, <5>1
      <4> QED
        BY <3>4, <4>3, <4>4
    <3> QED
      BY <3>2, <3>3, <3>5, <3>6, <3>8
  <2> QED
    BY <2>3, <2>4, <2>5 DEF StreamInv
<1> QED
  BY <1>7, <1>8, <1>9, <1>11, <1>12 DEF BusInv

-----------------------------------------------------------------------------
(* Streams *)

LEMMA CopiedKept ==
    ASSUME UNCHANGED pubVars
    PROVE  Copied' = Copied
BY DEF pubVars, Copied

(* The step of one stream does not touch the others.                       *)
LEMMA OtherStream ==
    ASSUME BusInv, NEW r \in Streams, UNCHANGED pubVars, lost' = lost,
           at'[r] = at[r], hand'[r] = hand[r], sent'[r] = sent[r],
           queue'[r] = queue[r], from'[r] = from[r], until'[r] = until[r]
    PROVE  StreamInv(r)'
<1>1. StreamInv(r) /\ StreamFits(r)'
  BY DEF BusInv, StreamInv, StreamFits
<1>2. ASSUME NEW p \in Publishers PROVE LastDue(r, p)' = LastDue(r, p)
  <2>1. todo' = todo /\ shown' = shown
    BY DEF pubVars
  <2> QED
    BY <2>1, CopiedKept DEF LastDue
<1>3. CASE at[r] = "none"
  BY <1>1, <1>3 DEF StreamInv, FromFits, Complete
<1>4. CASE at[r] # "none"
  BY <1>1, <1>2, <1>4, StreamFrame DEF Received
<1> QED
  BY <1>3, <1>4

(* A stream takes an event, writes or waits, and what it got is the same.  *)
LEMMA StreamMoves ==
    ASSUME BusInv, NEW s \in Streams,
           UNCHANGED <<pubVars, subs, pastVars>>,
           at[s] \in {"get", "write", "leave"}, at'[s] \in {"get", "write", "leave"},
           \A r \in Streams \ {s} : /\ at'[r] = at[r] /\ hand'[r] = hand[r]
                                    /\ sent'[r] = sent[r] /\ queue'[r] = queue[r],
           BusTyped', StreamFits(s)', Received(s)' = Received(s)
    PROVE  BusInv'
<1>1. UNCHANGED <<shown, pub, todo, lost, from, until>>
  BY DEF pubVars, pastVars
<1>2. SubsFit'
  BY DEF BusInv, SubsFit
<1>3. CallsFit'
  <2>1. ASSUME NEW p \in Publishers, NEW r \in Range(todo[p])
        PROVE  at'[r] # "none" /\ (at'[r] = "end" => until[r][p] = shown[p])
    <3>1. r \in Streams
      BY DEF BusInv, BusTyped, Range
    <3>2. CASE r = s
      BY <3>2
    <3>3. CASE r # s
      BY <3>1, <3>3 DEF BusInv, CallsFit
    <3> QED
      BY <3>2, <3>3
  <2> QED
    BY <1>1, <2>1 DEF BusInv, CallsFit
<1>4. ASSUME NEW r \in Streams, r # s PROVE StreamInv(r)'
  BY <1>1, <1>4, OtherStream
<1>5. StreamInv(s)'
  <2>1. ASSUME NEW p \in Publishers PROVE LastDue(s, p)' = LastDue(s, p)
    BY <1>1, CopiedKept DEF LastDue
  <2>2. StreamInv(s)
    BY DEF BusInv
  <2> QED
    BY <1>1, <2>1, <2>2, StreamFrame
<1> QED
  BY <1>2, <1>3, <1>4, <1>5 DEF BusInv

(* The event moves from the queue to the hand of the thread.               *)
LEMMA TakeEventStep ==
    ASSUME BusInv, NEW s \in Streams, TakeEvent(s)
    PROVE  BusInv'
<1>1. /\ at[s] = "get" /\ queue[s] # <<>>
      /\ at' = [at EXCEPT ![s] = "write"]
      /\ hand' = [hand EXCEPT ![s] = <<Head(queue[s])>>]
      /\ queue' = [queue EXCEPT ![s] = Tail(queue[s])]
      /\ UNCHANGED <<pubVars, subs, broken, blind, sent, pastVars>>
  BY DEF TakeEvent
<1>2. /\ queue[s] \in Seq(Events) /\ sent[s] \in Seq(Events)
      /\ hand[s] = <<>> /\ Len(queue[s]) <= QueueMax
  BY <1>1 DEF BusInv, BusTyped, StreamInv, StreamFits
<1>3. /\ <<Head(queue[s])>> \in Seq(Events) /\ Tail(queue[s]) \in Seq(Events)
      /\ <<Head(queue[s])>> \o Tail(queue[s]) = queue[s]
      /\ Len(Tail(queue[s])) <= QueueMax
  <2>1. Len(Tail(queue[s])) = Len(queue[s]) - 1 /\ Len(queue[s]) \in Nat
    BY <1>1, <1>2, HeadTailProperties
  <2> QED
    BY <1>1, <1>2, <2>1, HeadOntoTail
<1>4. /\ at'[s] = "write" /\ sent' = sent
      /\ hand'[s] = <<Head(queue[s])>> /\ queue'[s] = Tail(queue[s])
      /\ \A r \in Streams \ {s} : at'[r] = at[r] /\ hand'[r] = hand[r] /\ queue'[r] = queue[r]
  BY <1>1 DEF BusInv, BusTyped
<1>5. BusTyped'
  <2>1. /\ hand' \in [Streams -> Seq(Events)] /\ queue' \in [Streams -> Seq(Events)]
        /\ at' \in [Streams -> {"none", "get", "write", "leave", "end"}]
    BY <1>1, <1>3 DEF BusInv, BusTyped
  <2> QED
    BY <1>1, <2>1 DEF BusInv, BusTyped, pubVars, pastVars
<1>6. StreamFits(s)'
  BY <1>3, <1>4 DEF StreamFits
<1>7. Received(s)' = Received(s)
  <2>1. Received(s) = sent[s] \o queue[s]
    BY <1>2, ConcatEmptySeq DEF Received
  <2>2. Received(s)' = sent[s] \o <<Head(queue[s])>> \o Tail(queue[s])
    BY <1>4 DEF Received
  <2>3. sent[s] \o <<Head(queue[s])>> \o Tail(queue[s])
            = sent[s] \o (<<Head(queue[s])>> \o Tail(queue[s]))
    <3>1. ASSUME NEW a \in Seq(Events), NEW b \in Seq(Events), NEW c \in Seq(Events)
          PROVE  a \o b \o c = a \o (b \o c)
      BY ConcatAssociative
    <3> QED
      BY <1>2, <1>3, <3>1
  <2> QED
    BY <1>3, <2>1, <2>2, <2>3
<1> QED
  BY <1>1, <1>4, <1>5, <1>6, <1>7, StreamMoves

(* ... and from the hand to what was written.                              *)
LEMMA WriteEventStep ==
    ASSUME BusInv, NEW s \in Streams, WriteEvent(s)
    PROVE  BusInv'
<1>1. /\ at[s] = "write"
      /\ at' = [at EXCEPT ![s] = "get"]
      /\ sent' = [sent EXCEPT ![s] = sent[s] \o hand[s]]
      /\ hand' = [hand EXCEPT ![s] = <<>>]
      /\ UNCHANGED <<pubVars, subs, broken, queue, pastVars>>
  BY DEF WriteEvent
<1>2. /\ queue[s] \in Seq(Events) /\ sent[s] \in Seq(Events) /\ hand[s] \in Seq(Events)
      /\ Len(queue[s]) <= QueueMax
  BY <1>1 DEF BusInv, BusTyped, StreamInv, StreamFits
<1>3. sent[s] \o hand[s] \in Seq(Events)
  BY <1>2, ConcatProperties
<1>4. /\ at'[s] = "get" /\ sent'[s] = sent[s] \o hand[s] /\ hand'[s] = <<>>
      /\ queue' = queue
      /\ \A r \in Streams \ {s} : at'[r] = at[r] /\ hand'[r] = hand[r] /\ sent'[r] = sent[r]
  BY <1>1 DEF BusInv, BusTyped
<1>5. BusTyped'
  <2>1. /\ hand' \in [Streams -> Seq(Events)] /\ sent' \in [Streams -> Seq(Events)]
        /\ at' \in [Streams -> {"none", "get", "write", "leave", "end"}]
    BY <1>1, <1>3 DEF BusInv, BusTyped
  <2> QED
    BY <1>1, <2>1 DEF BusInv, BusTyped, pubVars, pastVars
<1>6. StreamFits(s)'
  <2>1. Len(<<>>) <= 1
    OBVIOUS
  <2> QED
    BY <1>2, <1>4, <2>1 DEF StreamFits
<1>7. Received(s)' = Received(s)
  <2>1. Received(s)' = sent[s] \o hand[s] \o <<>> \o queue[s]
    BY <1>4 DEF Received
  <2> QED
    BY <1>3, <2>1, ConcatEmptySeq DEF Received
<1> QED
  BY <1>1, <1>4, <1>5, <1>6, <1>7, StreamMoves

(* A write that fails, a keepalive and a break of the connection.          *)
LEMMA WaitStep ==
    ASSUME BusInv, NEW s \in Streams, WriteFails(s) \/ WriteKeepalive(s) \/ Break(s)
    PROVE  BusInv'
<1>1. /\ at[s] \in {"get", "write", "leave"}
      /\ at' = at \/ at' = [at EXCEPT ![s] = "leave"]
      /\ broken' = broken \/ broken' = broken \cup {s}
      /\ UNCHANGED <<pubVars, subs, sent, hand, queue, pastVars>>
  BY DEF WriteFails, WriteKeepalive, Keepalive, Break, BusInv, BusTyped
<1>2. /\ at'[s] \in {"get", "write", "leave"}
      /\ at'[s] = at[s] \/ at'[s] = "leave"
      /\ \A r \in Streams \ {s} : at'[r] = at[r]
      /\ at' \in [Streams -> {"none", "get", "write", "leave", "end"}]
      /\ broken' \subseteq Streams
  BY <1>1 DEF BusInv, BusTyped
<1>3. BusTyped'
  BY <1>1, <1>2 DEF BusInv, BusTyped, pubVars, pastVars
<1>4. StreamFits(s)'
  BY <1>1, <1>2 DEF BusInv, StreamInv, StreamFits
<1>5. Received(s)' = Received(s)
  BY <1>1 DEF Received
<1> QED
  BY <1>1, <1>2, <1>3, <1>4, <1>5, StreamMoves

(* A stream that subscribes is due nothing yet: what was copied for the    *)
(* others is not for it, and what was not copied will be.                  *)
LEMMA SubscribeStep ==
    ASSUME BusInv, NEW s \in Streams, Subscribe(s)
    PROVE  BusInv'
<1>1. /\ at[s] = "none"
      /\ at' = [at EXCEPT ![s] = "get"]
      /\ subs' = Append(subs, s)
      /\ from' = [from EXCEPT ![s] = Copied]
      /\ UNCHANGED <<pubVars, queue, hand, broken, blind, sent, lost, until>>
      /\ UNCHANGED <<shown, pub, todo>>
  BY DEF Subscribe, pubVars
<1>2. /\ subs \in Seq(Streams) /\ IsInjective(subs) /\ s \notin Range(subs)
      /\ Copied \in [Publishers -> Nat]
  <2>1. s \notin Range(subs)
    BY <1>1 DEF BusInv, SubsFit
  <2> QED
    BY <2>1, CopiedType DEF BusInv, BusTyped, SubsFit
<1>3. /\ subs' \in Seq(Streams) /\ IsInjective(subs')
      /\ Range(subs') = Range(subs) \cup {s}
  BY <1>1, <1>2, AppendOnce
<1>4. /\ at'[s] = "get" /\ from'[s] = Copied
      /\ \A r \in Streams \ {s} : at'[r] = at[r] /\ from'[r] = from[r]
  BY <1>1 DEF BusInv, BusTyped
<1>5. BusTyped'
  <2>1. /\ at' \in [Streams -> {"none", "get", "write", "leave", "end"}]
        /\ from' \in [Streams -> [Publishers -> Nat]]
    BY <1>1, <1>2 DEF BusInv, BusTyped
  <2> QED
    BY <1>1, <1>3, <2>1 DEF BusInv, BusTyped
<1>6. SubsFit'
  BY <1>3, <1>4 DEF BusInv, SubsFit
<1>7. \A p \in Publishers : s \notin Range(todo[p])
  BY <1>1 DEF BusInv, CallsFit
<1>8. CallsFit'
  <2>1. ASSUME NEW p \in Publishers, NEW r \in Range(todo[p]) PROVE r \in Streams \ {s}
    <3>1. r \in Streams
      BY DEF BusInv, BusTyped, Range
    <3> QED
      BY <1>7, <3>1
  <2>2. ASSUME NEW p \in Publishers, NEW r \in Range(todo[p])
        PROVE  at'[r] # "none" /\ (at'[r] = "end" => until[r][p] = shown[p])
    BY <1>4, <2>1 DEF BusInv, CallsFit
  <2> QED
    BY <1>1, <2>2 DEF BusInv, CallsFit
<1>9. ASSUME NEW r \in Streams, r # s PROVE StreamInv(r)'
  BY <1>1, <1>4, <1>9, OtherStream
<1>10. StreamInv(s)'
  <2>1. /\ sent'[s] = <<>> /\ hand'[s] = <<>> /\ queue'[s] = <<>>
        /\ Len(hand'[s]) <= 1 /\ Len(queue'[s]) <= QueueMax
    BY <1>1 DEF BusInv, StreamInv, StreamFits
  <2>2. StreamFits(s)'
    BY <1>4, <2>1 DEF StreamFits
  <2>3. ASSUME NEW p \in Publishers
        PROVE  LastDue(s, p)' = from'[s][p] /\ from'[s][p] \in Nat
    BY <1>1, <1>2, <1>4, <1>7, CopiedKept DEF LastDue
  <2>4. FromFits(s)'
    BY <2>3 DEF FromFits
  <2>5. Complete(s)'
    <3>1. Received(s)' = <<>>
      BY <2>1 DEF Received
    <3>2. Due(s)' = {}
      <4>1. \A p \in Publishers : from'[s][p] + 1 .. LastDue(s, p)' = {}
        BY <2>3
      <4> QED
        BY <4>1 DEF Due
    <3>3. Range(<<>>) = {} /\ InOrder(<<>>)
      BY DEF Range, InOrder
    <3> QED
      BY <3>1, <3>2, <3>3 DEF Complete, InOrder
  <2> QED
    BY <2>2, <2>4, <2>5 DEF StreamInv
<1> QED
  BY <1>5, <1>6, <1>8, <1>9, <1>10 DEF BusInv

(* A stream that leaves is due what was copied, and nothing copied later.  *)
LEMMA UnsubscribeStep ==
    ASSUME BusInv, NEW s \in Streams, Unsubscribe(s)
    PROVE  BusInv'
<1>1. /\ at[s] = "leave"
      /\ at' = [at EXCEPT ![s] = "end"]
      /\ subs' = RemoveFirst(subs, s)
      /\ until' = [until EXCEPT ![s] = Copied]
      /\ UNCHANGED <<shown, pub, todo, queue, hand, broken, blind, sent, lost, from>>
      /\ UNCHANGED pubVars
  BY DEF Unsubscribe, Unlist, pubVars
<1>2. /\ subs \in Seq(Streams) /\ IsInjective(subs)
      /\ Copied \in [Publishers -> Nat]
  BY CopiedType DEF BusInv, BusTyped, SubsFit
<1>3. /\ subs' \in Seq(Streams) /\ IsInjective(subs')
      /\ Range(subs') = Range(subs) \ {s}
  BY <1>1, <1>2, RemoveOnce
<1>4. /\ at'[s] = "end" /\ until'[s] = Copied
      /\ \A r \in Streams \ {s} : at'[r] = at[r] /\ until'[r] = until[r]
  BY <1>1 DEF BusInv, BusTyped
<1>5. BusTyped'
  <2>1. /\ at' \in [Streams -> {"none", "get", "write", "leave", "end"}]
        /\ until' \in [Streams -> [Publishers -> Nat]]
    BY <1>1, <1>2 DEF BusInv, BusTyped
  <2> QED
    BY <1>1, <1>3, <2>1 DEF BusInv, BusTyped
<1>6. SubsFit'
  BY <1>3, <1>4 DEF BusInv, SubsFit
<1>7. CallsFit'
  <2>1. ASSUME NEW p \in Publishers, NEW r \in Range(todo[p])
        PROVE  at'[r] # "none" /\ (at'[r] = "end" => until'[r][p] = shown[p])
    <3>1. r \in Streams
      BY DEF BusInv, BusTyped, Range
    <3>2. CASE r = s
      <4>1. pub[p] = "call"
        BY DEF BusInv, CallsFit, Range
      <4> QED
        BY <1>4, <3>2, <4>1 DEF Copied
    <3>3. CASE r # s
      BY <1>4, <3>1, <3>3 DEF BusInv, CallsFit
    <3> QED
      BY <3>2, <3>3
  <2> QED
    BY <1>1, <2>1 DEF BusInv, CallsFit
<1>8. ASSUME NEW r \in Streams, r # s PROVE StreamInv(r)'
  BY <1>1, <1>4, <1>8, OtherStream
<1>9. StreamInv(s)'
  <2>1. StreamInv(s) /\ StreamFits(s)'
    BY <1>1, <1>4 DEF BusInv, StreamInv, StreamFits
  <2>2. ASSUME NEW p \in Publishers PROVE LastDue(s, p)' = LastDue(s, p)
    BY <1>1, <1>4, CopiedKept DEF LastDue
  <2>3. Received(s)' = Received(s)
    BY <1>1 DEF Received
  <2> QED
    BY <1>1, <1>4, <2>1, <2>2, <2>3, StreamFrame
<1> QED
  BY <1>5, <1>6, <1>7, <1>8, <1>9 DEF BusInv
-----------------------------------------------------------------------------

LEMMA BusInit == Init => BusInv
<1> SUFFICES ASSUME Init PROVE BusInv
  OBVIOUS
<1>1. BusTyped
  BY DEF Init, BusTyped, Zero
<1>2. IsInjective(<<>>) /\ Range(<<>>) = {} /\ Len(<<>>) = 0
  BY DEF IsInjective, Range
<1>3. SubsFit
  BY <1>2 DEF Init, SubsFit
<1>4. CallsFit
  BY <1>2 DEF Init, CallsFit
<1>5. ASSUME NEW s \in Streams PROVE StreamInv(s)
  BY <1>2 DEF Init, StreamInv, StreamFits, FromFits, Complete
<1> QED
  BY <1>1, <1>3, <1>4, <1>5 DEF BusInv

LEMMA BusNext == BusInv /\ [Next]_vars => BusInv'
<1> SUFFICES ASSUME BusInv, [Next]_vars PROVE BusInv'
  OBVIOUS
<1>1. ASSUME NEW p \in Publishers, Update(p) \/ Copy(p) \/ Call(p) PROVE BusInv'
  BY <1>1, UpdateStep, CopyStep, CallStep
<1>2. ASSUME NEW s \in Streams, Subscribe(s) PROVE BusInv'
  BY <1>2, SubscribeStep
<1>3. ASSUME NEW s \in Streams, StreamNext(s) \/ Break(s) PROVE BusInv'
  BY <1>3, TakeEventStep, WriteEventStep, WaitStep, UnsubscribeStep DEF StreamNext
<1>4. CASE UNCHANGED vars
  <2> USE <1>4 DEF vars, pubVars, streamVars, pastVars
  <2>1. BusTyped' /\ SubsFit' /\ CallsFit'
    BY DEF BusInv, BusTyped, SubsFit, CallsFit
  <2>2. ASSUME NEW s \in Streams PROVE StreamInv(s)'
    BY OtherStream
  <2> QED
    BY <2>1, <2>2 DEF BusInv
<1> QED
  BY <1>1, <1>2, <1>3, <1>4 DEF Next

LEMMA BusAlways == Spec => []BusInv
  BY BusInit, BusNext, PTL DEF Spec

(* A stream that lost nothing got what is due to it and no more, once, and *)
(* the events of each publisher in order, whoever subscribes or leaves     *)
(* while the subscribers are called.                                       *)
THEOREM StreamGetsAllDue == Spec => []StreamIsComplete
<1>1. BusInv => StreamIsComplete
  BY DEF BusInv, StreamInv, Complete, InOrder, StreamIsComplete
<1> QED
  BY <1>1, BusAlways, PTL

-----------------------------------------------------------------------------
(* Types *)

BlindTyped == blind \in [Streams -> 0 .. MaxBlind]

(* Every variable keeps its type; no queue is longer than its limit and no *)
(* stream is in the list twice.                                            *)
THEOREM BusTypes == Spec => []TypeOK
<1>1. Init => BlindTyped
  BY DEF Init, BlindTyped
<1>2. BlindTyped /\ [Next]_vars => BlindTyped'
  <2> SUFFICES ASSUME BlindTyped, [Next]_vars PROVE BlindTyped'
    OBVIOUS
  <2>1. UNCHANGED blind \/ \E s \in Streams : Passes(s)
    BY DEF Next, StreamNext, Update, Copy, Call, Subscribe, TakeEvent, WriteEvent, WriteFails,
           WriteKeepalive, Keepalive, Unsubscribe, Break, vars, pubVars, streamVars, pastVars
  <2> QED
    BY <2>1 DEF BlindTyped, Passes
<1>3. BusInv /\ BlindTyped => TypeOK
  BY DEF BusInv, BusTyped, SubsFit, StreamInv, StreamFits, BlindTyped, TypeOK
<1> QED
  BY <1>1, <1>2, <1>3, BusAlways, PTL DEF Spec
=============================================================================
