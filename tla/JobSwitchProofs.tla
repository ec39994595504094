-------------------------- MODULE JobSwitchProofs --------------------------
(***************************************************************************)
(* Theorems about JobSwitch, for all job ids, extranonces and difficulties. *)
(***************************************************************************)
EXTENDS JobSwitch, SequenceTheorems, TLAPS

(* Extranonce and job that the client holds are of the pool it is aimed    *)
(* at, the job is of the session, and so is the extranonce once the reply  *)
(* to subscribe was read.                                                  *)
ExtranonceInv ==
    /\ sup # "off" => offer \in Pairs /\ offer.pool = pool
    /\ sup = "up" => en = offer
    /\ sup = "subscribe" => ~replied
    /\ en # none => en.pool = pool
    /\ job # none => /\ job.en.pool = pool
                     /\ sup # "off" => job.en = offer
                     /\ replied => en = job.en

(* s are values of extranonce2 that mine() took one after the other: two   *)
(* of them are as far apart as their places, up to one wrap at max.        *)
Spaced(s, max) ==
    /\ \A i \in 1 .. Len(s) : s[i] < max
    /\ \A i, j \in 1 .. Len(s) :
          i <= j => s[j] - s[i] = j - i \/ s[j] - s[i] = j - i - max

Consecutive(s, max) == Len(s) \in 1 .. max /\ Spaced(s, max)

CounterInv ==
    tried # none => /\ Consecutive(recent, tried.max)
                    /\ counter = recent[Len(recent)] + 1

HeaderInv == HeaderMatchesOffer /\ NoForeignExtranonce

Inv == TypeOK /\ ExtranonceInv /\ HeaderInv /\ CounterInv /\ NoWorkTwice

-----------------------------------------------------------------------------
(* Values taken one after the other are distinct, if not more than exist.  *)
LEMMA ConsecutiveDistinct ==
    ASSUME NEW max \in Nat \ {0}, NEW s \in Seq(Nat), Consecutive(s, max)
    PROVE  \A i, j \in 1 .. Len(s) : s[i] = s[j] => i = j
<1>1. \A i, j \in 1 .. Len(s) : i < j => s[i] # s[j]
  <2> SUFFICES ASSUME NEW i \in 1 .. Len(s), NEW j \in 1 .. Len(s), i < j
               PROVE  s[i] # s[j]
      OBVIOUS
  <2>1. Len(s) \in Nat /\ s[i] \in Nat /\ s[j] \in Nat
      OBVIOUS
  <2>2. /\ Len(s) <= max
        /\ s[j] - s[i] = j - i \/ s[j] - s[i] = j - i - max
      BY <2>1 DEF Consecutive, Spaced
  <2> QED
      BY <2>1, <2>2
<1>2. Len(s) \in Nat
    OBVIOUS
<1> QED
    BY <1>1, <1>2

(* The next value of the counter continues such a sequence.                *)
LEMMA AppendConsecutive ==
    ASSUME NEW max \in Nat \ {0}, NEW s \in Seq(Nat), Consecutive(s, max),
           NEW c \in Nat, c = s[Len(s)] + 1,
           NEW w, w = Wrapped(c, max), NEW r, r = Append(s, w)
    PROVE  /\ r \in Seq(Nat) /\ Len(r) = Len(s) + 1
           /\ Spaced(r, max)
<1> DEFINE n == Len(s)
<1>1. n \in Nat /\ n >= 1 /\ n <= max
    BY DEF Consecutive, Spaced
<1>2. s[n] \in Nat /\ s[n] < max
    BY <1>1 DEF Consecutive, Spaced
<1>3. w \in Nat /\ w < max /\ (w = s[n] + 1 \/ w = s[n] + 1 - max)
    BY <1>2 DEF Wrapped
<1>4. /\ r \in Seq(Nat) /\ Len(r) = n + 1 /\ r[n + 1] = w
      /\ \A i \in 1 .. n : r[i] = s[i]
    BY <1>1, <1>3, AppendProperties
<1>5. \A i \in 1 .. n : s[i] \in Nat /\ s[i] < max
    BY DEF Consecutive, Spaced
<1>6. \A i, j \in 1 .. n : i <= j => s[j] - s[i] = j - i \/ s[j] - s[i] = j - i - max
    BY DEF Consecutive, Spaced
<1> HIDE DEF n
<1>7. ASSUME NEW i \in 1 .. n
      PROVE  w - s[i] = n + 1 - i \/ w - s[i] = n + 1 - i - max
  <2>1. s[n] - s[i] = n - i \/ s[n] - s[i] = n - i - max
      BY <1>1, <1>6
  <2>2. s[i] \in Nat /\ s[i] < max
      BY <1>5
  <2>3. PICK x \in Nat : x = s[i]
      BY <2>2
  <2>4. PICK y \in Nat : y = s[n]
      BY <1>2
  <2>5. PICK v \in Nat : v = w
      BY <1>3
  <2>6. x < max /\ v < max
      BY <1>3, <2>2, <2>3, <2>5
  <2>7. y - x = n - i \/ y - x = n - i - max
      BY <2>1, <2>3, <2>4
  <2>8. v = y + 1 \/ v = y + 1 - max
      BY <1>3, <2>4, <2>5
  <2>9. v - x = n + 1 - i \/ v - x = n + 1 - i - max
      BY <1>1, <2>6, <2>7, <2>8
  <2> QED
      BY <2>3, <2>5, <2>9
<1>8. ASSUME NEW i \in 1 .. n + 1 PROVE r[i] < max
  <2>1. CASE i = n + 1
      BY <1>3, <1>4, <2>1
  <2>2. CASE i # n + 1
    <3>1. i \in 1 .. n
        BY <1>1, <2>2
    <3> QED
        BY <1>4, <1>5, <3>1
  <2> QED
      BY <2>1, <2>2
<1>9. ASSUME NEW i \in 1 .. n + 1, NEW j \in 1 .. n + 1, i <= j
      PROVE  r[j] - r[i] = j - i \/ r[j] - r[i] = j - i - max
  <2>1. CASE j <= n
    <3>1. i \in 1 .. n /\ j \in 1 .. n
        BY <1>1, <1>9, <2>1
    <3>2. r[i] = s[i] /\ r[j] = s[j]
        BY <1>4, <3>1
    <3>3. s[j] - s[i] = j - i \/ s[j] - s[i] = j - i - max
        BY <1>6, <1>9, <3>1
    <3> QED
        BY <3>2, <3>3
  <2>2. CASE j = n + 1 /\ i <= n
    <3>1. i \in 1 .. n
        BY <1>1, <2>2
    <3>2. r[i] = s[i] /\ r[j] = w
        BY <1>4, <2>2, <3>1
    <3>3. w - s[i] = n + 1 - i \/ w - s[i] = n + 1 - i - max
        BY <1>7, <3>1
    <3>4. n + 1 - i = j - i /\ n + 1 - i - max = j - i - max
        BY <1>1, <2>2
    <3> QED
        BY <3>2, <3>3, <3>4
  <2>3. CASE j = n + 1 /\ i = n + 1
      BY <1>1, <1>3, <1>4, <2>3
  <2>4. j <= n \/ (j = n + 1 /\ i <= n) \/ (j = n + 1 /\ i = n + 1)
      BY <1>1, <1>9
  <2> QED
      BY <2>1, <2>2, <2>3, <2>4
<1> QED
    BY <1>4, <1>8, <1>9 DEF n, Spaced

(* So does its end of at most max values.                                  *)
LEMMA LastFewConsecutive ==
    ASSUME NEW max \in Nat \ {0}, NEW r \in Seq(Nat), Len(r) >= 1,
           Spaced(r, max)
    PROVE  /\ LastFew(r, max) \in Seq(Nat)
           /\ Consecutive(LastFew(r, max), max)
           /\ LastFew(r, max)[Len(LastFew(r, max))] = r[Len(r)]
<1> DEFINE q == LastFew(r, max)
           d == IF Len(r) > max THEN Len(r) - max ELSE 0
<1>a. Len(r) \in Nat
    OBVIOUS
<1>b. ASSUME Len(r) > max PROVE d = Len(r) - max /\ q = SubSeq(r, Len(r) - max + 1, Len(r))
    BY <1>a, <1>b DEF LastFew
<1>c. ASSUME Len(r) <= max PROVE d = 0 /\ q = r
    BY <1>a, <1>c DEF LastFew
<1> HIDE DEF q, d
<1>1. d \in Nat
    BY <1>a, <1>b, <1>c
<1>2. /\ q \in Seq(Nat) /\ Len(q) = Len(r) - d /\ Len(q) \in 1 .. max
      /\ \A k \in 1 .. Len(q) : q[k] = r[k + d]
  <2>1. CASE Len(r) > max
    <3>0. Len(r) - max + 1 \in 1 .. Len(r) + 1
        BY <1>a, <2>1
    <3>1. PICK m \in 1 .. Len(r) + 1 : m = Len(r) - max + 1
        BY <3>0
    <3>2. /\ SubSeq(r, m, Len(r)) \in Seq(Nat)
          /\ Len(SubSeq(r, m, Len(r))) = Len(r) - m + 1
          /\ \A k \in 1 .. Len(r) - m + 1 : SubSeq(r, m, Len(r))[k] = r[m + k - 1]
      <4>1. Len(r) \in m - 1 .. Len(r) /\ ~(Len(r) < m)
          BY <1>a, <2>1, <3>1
      <4> QED
          BY <4>1, SubSeqProperties
    <3>3. q = SubSeq(r, m, Len(r)) /\ d = m - 1
        BY <1>a, <1>b, <2>1, <3>1
    <3>4. Len(r) - m + 1 = Len(r) - d /\ Len(r) - d \in 1 .. max
        BY <1>a, <2>1, <3>1, <3>3
    <3>5. \A k \in 1 .. Len(q) : m + k - 1 = k + d
        BY <3>1, <3>2, <3>3
    <3> QED
        BY <3>2, <3>3, <3>4, <3>5
  <2>2. CASE Len(r) <= max
    <3>1. q = r /\ d = 0
        BY <1>c, <2>2
    <3> QED
        BY <1>a, <2>2, <3>1
  <2> QED
      BY <1>a, <2>1, <2>2
<1>3. \A k \in 1 .. Len(q) : k + d \in 1 .. Len(r)
    BY <1>a, <1>1, <1>2
<1>4. \A i \in 1 .. Len(q) : q[i] < max
    BY <1>2, <1>3 DEF Spaced
<1>5. ASSUME NEW i \in 1 .. Len(q), NEW j \in 1 .. Len(q), i <= j
      PROVE  q[j] - q[i] = j - i \/ q[j] - q[i] = j - i - max
  <2>1. i + d \in 1 .. Len(r) /\ j + d \in 1 .. Len(r)
      BY <1>3
  <2>2. i + d <= j + d
      BY <1>a, <1>1, <1>2, <1>5
  <2>3. r[j + d] - r[i + d] = (j + d) - (i + d) \/ r[j + d] - r[i + d] = (j + d) - (i + d) - max
      BY <2>1, <2>2 DEF Spaced
  <2>4. (j + d) - (i + d) = j - i
      BY <1>a, <1>1, <1>2
  <2>5. q[i] = r[i + d] /\ q[j] = r[j + d]
      BY <1>2
  <2> QED
      BY <2>3, <2>4, <2>5
<1>6. q[Len(q)] = r[Len(r)]
  <2>1. Len(q) \in 1 .. Len(q) /\ Len(q) + d = Len(r)
      BY <1>a, <1>1, <1>2
  <2> QED
      BY <1>2, <2>1
<1> QED
    BY <1>2, <1>4, <1>5, <1>6 DEF Consecutive, Spaced, q

(* StartWork, whatever it starts for, leaves a sequence of that kind.      *)
LEMMA StartWorkTakesNext ==
    ASSUME Inv, StartWork
    PROVE  /\ en \in Pairs /\ recent' \in Seq(Nat) /\ counter' \in Nat
           /\ Wrapped(counter, en.max) \in Nat /\ Wrapped(counter, en.max) < en.max
           /\ Consecutive(recent', en.max)
           /\ counter' = recent'[Len(recent')] + 1
<1> DEFINE w == Wrapped(counter, en.max)
           old == IF tried = en THEN recent ELSE <<>>
           r == Append(old, w)
<1>1. en \in Pairs /\ en.max \in Nat \ {0} /\ counter \in Nat /\ recent \in Seq(Nat)
    BY JobSwitchAssumption DEF Inv, TypeOK, StartWork
<1>2. w \in Nat /\ w < en.max
    BY <1>1 DEF Wrapped
<1>3. recent' = LastFew(r, en.max) /\ counter' = w + 1
    BY DEF StartWork
<1>4. /\ r \in Seq(Nat) /\ Len(r) >= 1 /\ r[Len(r)] = w
      /\ Spaced(r, en.max)
  <2>1. CASE tried = en
    <3>1. Consecutive(recent, en.max) /\ counter = recent[Len(recent)] + 1
        BY <2>1 DEF Inv, CounterInv, StartWork
    <3>2. old = recent /\ Len(recent) \in Nat
        BY <1>1, <2>1
    <3>3. r[Len(r)] = w
        BY <1>1, <1>2, <3>2, AppendProperties
    <3> HIDE DEF w, r, old
    <3>4. /\ r \in Seq(Nat) /\ Len(r) = Len(recent) + 1
          /\ Spaced(r, en.max)
      <4>1. r = Append(recent, w) /\ w = Wrapped(counter, en.max)
          BY <3>2 DEF r, w
      <4>2. PICK max \in Nat \ {0} : max = en.max
          BY <1>1
      <4>3. Consecutive(recent, max) /\ w = Wrapped(counter, max)
          BY <3>1, <4>1, <4>2
      <4>4. recent \in Seq(Nat) /\ counter \in Nat /\ counter = recent[Len(recent)] + 1
          BY <1>1, <3>1
      <4>5. /\ r \in Seq(Nat) /\ Len(r) = Len(recent) + 1
            /\ Spaced(r, max)
          BY <4>1, <4>2, <4>3, <4>4, AppendConsecutive
      <4> QED
          BY <4>2, <4>5
    <3> QED
        BY <3>2, <3>3, <3>4
  <2>2. CASE tried # en
    <3>1. r = <<w>>
        BY <2>2
    <3> HIDE DEF r, w
    <3> QED
        BY <1>1, <1>2, <3>1 DEF Spaced
  <2> QED
      BY <2>1, <2>2
<1> HIDE DEF r, w
<1>5. /\ LastFew(r, en.max) \in Seq(Nat)
      /\ Consecutive(LastFew(r, en.max), en.max)
      /\ LastFew(r, en.max)[Len(LastFew(r, en.max))] = r[Len(r)]
    BY <1>1, <1>4, LastFewConsecutive
<1> QED
    BY <1>1, <1>2, <1>3, <1>4, <1>5 DEF w

-----------------------------------------------------------------------------
LEMMA InitInv == Init => Inv
<1> SUFFICES ASSUME Init PROVE Inv
    OBVIOUS
<1>1. TypeOK
  <2>1. /\ sup \in {"off", "subscribe", "up"} /\ pool \in Pools
        /\ job \in JobRecords \cup {none}
        /\ en \in Pairs \cup {none} /\ diff \in Diffs
        /\ mine \in {"look", "search"} /\ mine = "look" /\ work = none
        /\ offer \in Pairs \cup {none} /\ tried \in Pairs \cup {none}
      BY JobSwitchAssumption DEF Init
  <2>2. counter \in Nat /\ recent \in Seq(Nat)
      BY EmptySeq DEF Init
  <2>3. replied \in BOOLEAN
      BY DEF Init
  <2> QED
      BY <2>1, <2>2, <2>3, Zenon DEF TypeOK
<1>2. ExtranonceInv
    BY JobSwitchAssumption DEF Init, ExtranonceInv
<1>3. HeaderInv
    BY DEF Init, HeaderInv, HeaderMatchesOffer, NoForeignExtranonce
<1>4. CounterInv
    BY JobSwitchAssumption DEF Init, CounterInv
<1>5. NoWorkTwice
    BY DEF Init, NoWorkTwice
<1> QED
    BY <1>1, <1>2, <1>3, <1>4, <1>5 DEF Inv

(* The steps that touch the fields of the client and nothing of mine().    *)
LEMMA SessionStep ==
    ASSUME Inv,
           \/ SetEndpoint \/ BeginSession \/ SubscribeReply \/ SessionEnds
           \/ Notify \/ SetDifficulty \/ SetExtranonce
    PROVE  Inv'
<1> USE DEF clientVars, mineVars, poolVars
<1>1. TypeOK'
  <2>1. CASE SetEndpoint
      BY <2>1 DEF Inv, TypeOK, SetEndpoint
  <2>2. CASE BeginSession
      BY <2>2, JobSwitchAssumption DEF Inv, TypeOK, BeginSession
  <2>3. CASE SubscribeReply
      BY <2>3 DEF Inv, TypeOK, ExtranonceInv, SubscribeReply
  <2>4. CASE SessionEnds
      BY <2>4 DEF Inv, TypeOK, SessionEnds
  <2>5. CASE Notify
      BY <2>5 DEF Inv, TypeOK, ExtranonceInv, JobRecords, Notify
  <2>6. CASE SetDifficulty
      BY <2>6 DEF Inv, TypeOK, SetDifficulty
  <2>7. CASE SetExtranonce
      BY <2>7 DEF Inv, TypeOK, SetExtranonce
  <2> QED
      BY <2>1, <2>2, <2>3, <2>4, <2>5, <2>6, <2>7
<1>2. ExtranonceInv'
  <2>1. CASE SetEndpoint
      BY <2>1 DEF Inv, ExtranonceInv, SetEndpoint
  <2>2. CASE BeginSession
      BY <2>2 DEF Inv, ExtranonceInv, BeginSession
  <2>3. CASE SubscribeReply
      BY <2>3 DEF Inv, ExtranonceInv, SubscribeReply
  <2>4. CASE SessionEnds
      BY <2>4 DEF Inv, ExtranonceInv, SessionEnds
  <2>5. CASE Notify
    <3>1. sup \in {"subscribe", "up"}
        BY <2>5 DEF Inv, TypeOK, Notify
    <3>2. job'.en = offer /\ UNCHANGED <<sup, pool, en, offer, replied>>
      <4>1. PICK id \in JobIds : job' = [id |-> id, en |-> offer]
          BY <2>5 DEF Notify
      <4> QED
          BY <2>5, <4>1 DEF Notify
    <3> QED
        BY <3>1, <3>2 DEF Inv, ExtranonceInv
  <2>6. CASE SetDifficulty
      BY <2>6 DEF Inv, ExtranonceInv, SetDifficulty
  <2>7. CASE SetExtranonce
      BY <2>7 DEF Inv, ExtranonceInv, SetExtranonce
  <2> QED
      BY <2>1, <2>2, <2>3, <2>4, <2>5, <2>6, <2>7
<1>3. UNCHANGED mineVars /\ (tried' = tried \/ tried' = none)
    BY DEF SetEndpoint, BeginSession, SubscribeReply, SessionEnds, Notify, SetDifficulty,
           SetExtranonce
<1>4. HeaderInv' /\ CounterInv' /\ NoWorkTwice'
    BY <1>3 DEF Inv, HeaderInv, HeaderMatchesOffer, NoForeignExtranonce, CounterInv,
           NoWorkTwice, Consecutive, Spaced
<1> QED
    BY <1>1, <1>2, <1>4 DEF Inv

(* The steps of mine().                                                    *)
LEMMA MineStep == ASSUME Inv, MineNext PROVE Inv'
<1> USE DEF clientVars, mineVars, poolVars
<1>1. CASE StartWork
  <2> DEFINE w == Wrapped(counter, en.max)
  <2>1. /\ en \in Pairs /\ recent' \in Seq(Nat) /\ counter' \in Nat
        /\ w \in Nat /\ w < en.max
        /\ Consecutive(recent', en.max)
        /\ counter' = recent'[Len(recent')] + 1
      BY <1>1, StartWorkTakesNext
  <2>2. /\ work' = [job |-> job, en |-> en, diff |-> diff, replied |-> replied, en2 |-> w]
        /\ tried' = en /\ mine' = "search"
        /\ job # none /\ en # none
        /\ UNCHANGED <<sup, pool, job, en, diff, offer, replied>>
      BY <1>1 DEF StartWork
  <2> HIDE DEF w
  <2>3. TypeOK'
    <3>1. job \in JobRecords /\ diff \in Diffs /\ replied \in BOOLEAN
        BY <2>2 DEF Inv, TypeOK
    <3>2. /\ work' \in [job : JobRecords, en : Pairs, diff : Diffs, replied : BOOLEAN,
                        en2 : Nat]
          /\ work'.en2 < work'.en.max
        BY <2>1, <2>2, <3>1
    <3> QED
        BY <2>1, <2>2, <3>2 DEF Inv, TypeOK
  <2>4. ExtranonceInv' /\ HeaderInv'
      BY <2>2 DEF Inv, ExtranonceInv, HeaderInv, HeaderMatchesOffer, NoForeignExtranonce
  <2>5. CounterInv'
      BY <2>1, <2>2 DEF CounterInv, Consecutive, Spaced
  <2>6. NoWorkTwice'
    <3>1. en.max \in Nat \ {0}
        BY <2>1, JobSwitchAssumption
    <3> QED
        BY <2>1, <3>1, ConsecutiveDistinct DEF NoWorkTwice
  <2> QED
      BY <2>3, <2>4, <2>5, <2>6 DEF Inv
<1>2. CASE LeaveWork \/ Exhausted
  <2>1. /\ mine' = "look" /\ work' = none
        /\ UNCHANGED <<sup, pool, clientVars, counter, recent, poolVars, tried>>
      BY <1>2 DEF LeaveWork, Exhausted
  <2>2. TypeOK'
      BY <2>1 DEF Inv, TypeOK
  <2> QED
      BY <2>1, <2>2 DEF Inv, ExtranonceInv, HeaderInv, HeaderMatchesOffer,
                        NoForeignExtranonce, CounterInv, NoWorkTwice, Consecutive
<1> QED
    BY <1>1, <1>2 DEF MineNext

LEMMA InvHolds == Spec => []Inv
<1>1. ASSUME Inv, [Next]_vars PROVE Inv'
  <2>1. CASE Next
      BY <1>1, <2>1, SessionStep, MineStep DEF Next
  <2>2. CASE UNCHANGED vars
      BY <1>1, <2>2 DEF vars, clientVars, mineVars, poolVars, Inv, TypeOK, ExtranonceInv,
                        HeaderInv, HeaderMatchesOffer, NoForeignExtranonce, CounterInv,
                        NoWorkTwice, Consecutive, Spaced
  <2> QED
      BY <1>1, <2>1, <2>2
<1> QED
    BY <1>1, InitInv, PTL DEF Spec

(* For any pools and extranonces: a search that begins after the reply to  *)
(* subscribe was read uses the extranonce the job was announced for; it    *)
(* says nothing of searches that begin before the reply, for which see     *)
(* WorkersUseNoForeignExtranonce.                                          *)
THEOREM WorkersUseRightExtranonce == Spec => []HeaderMatchesOffer
<1>1. Inv => HeaderMatchesOffer
    BY DEF Inv, HeaderInv
<1> QED
    BY <1>1, InvHolds, PTL

(* For any pools: no search, before the reply to subscribe or after it,    *)
(* combines a job of one pool with an extranonce of another.               *)
THEOREM WorkersUseNoForeignExtranonce == Spec => []NoForeignExtranonce
<1>1. Inv => NoForeignExtranonce
    BY DEF Inv, HeaderInv
<1> QED
    BY <1>1, InvHolds, PTL

(* For every size of extranonce2, mine() uses all its values for a job     *)
(* before it uses one again.                                               *)
THEOREM NoSearchIsRepeated == Spec => []NoWorkTwice
<1>1. Inv => NoWorkTwice
    BY DEF Inv
<1> QED
    BY <1>1, InvHolds, PTL

(* The extranonce2 of every search fits into the bytes the pool reserved.  *)
THEOREM TypesHold == Spec => []TypeOK
<1>1. Inv => TypeOK
    BY DEF Inv
<1> QED
    BY <1>1, InvHolds, PTL
=============================================================================
