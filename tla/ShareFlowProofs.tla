-------------------------- MODULE ShareFlowProofs --------------------------
(***************************************************************************)
(* The ledger of the shares is right for every set of shares and job ids,  *)
(* any number of sessions and of repeated replies: request ids collide     *)
(* across sessions and replies come in any order, yet no share is settled  *)
(* twice and the counters agree with the rows.                             *)
(*                                                                         *)
(* The argument for this does not look at request ids at all.  A share     *)
(* moves from the queue to mine()'s hand, from there to _pending_submits,  *)
(* and from there to the callback: in each place it is owned by one        *)
(* thread, has no verdict yet, and is in none of the other places.         *)
(*                                                                         *)
(* Request ids matter for whose verdict a share gets.  While a connection  *)
(* is up, whatever still holds an id for a request of that connection (a   *)
(* message, the callback, mine(), an entry of _pending_submits) holds an   *)
(* id that no other such request has, and that is not above req_id.        *)
(***************************************************************************)
EXTENDS ShareFlow, FiniteSetTheorems, SequenceTheorems, TLAPS

(* mine() holds a share that is in no entry of _pending_submits yet.       *)
Submitting == mine \in {"build", "transmit", "return", "track", "register"}

Unsettled(s) == row[s] = "no" /\ verdicts[s] = 0

(* The conjuncts of TypeOK the arguments need.                             *)
FlowTyped ==
    /\ mine \in {"wait", "drain", "build", "transmit", "return", "track",
                 "register", "count", "check"}
    /\ queue \in Seq(Shares)
    /\ row \in [Shares -> {"absent", "no", "yes"}]
    /\ verdicts \in [Shares -> {0, 1}]
    /\ rd \in {"idle", "pop", "store", "count"}
    /\ Submitting => hand \in Shares
    /\ rd \in {"store", "count"} => entry \in Shares
    /\ \A p \in pending : p.share \in Shares

RowsFit ==
    \A s \in Shares : /\ row[s] = "absent" => verdicts[s] = 0
                      /\ row[s] = "yes" => verdicts[s] = 1

QueueIsNew ==
    /\ \A i \in 1..Len(queue) : row[queue[i]] = "absent"
    /\ \A i, j \in 1..Len(queue) : queue[i] = queue[j] => i = j

HandIsUnsettled ==
    Submitting =>
        /\ Unsettled(hand)
        /\ \A p \in pending : p.share # hand
        /\ rd = "store" => entry # hand

PendingIsUnsettled ==
    /\ \A p \in pending : Unsettled(p.share)
    /\ \A p, q \in pending : p.share = q.share => p = q

EntryIsOwned ==
    /\ rd = "store" => Unsettled(entry) /\ \A p \in pending : p.share # entry
    /\ rd = "count" =>
         /\ verdicts[entry] = 1
         /\ row[entry] = IF ResultIsTrue(msg) THEN "yes" ELSE "no"

FlowInv ==
    FlowTyped /\ RowsFit /\ QueueIsNew /\ HandIsUnsettled
    /\ PendingIsUnsettled /\ EntryIsOwned

-----------------------------------------------------------------------------
(* The queue *)

LEMMA AppendNew ==
    ASSUME NEW S, NEW q \in Seq(S), NEW s \in S,
           \A i \in 1..Len(q) : q[i] # s,
           \A i, j \in 1..Len(q) : q[i] = q[j] => i = j
    PROVE  /\ Append(q, s) \in Seq(S)
           /\ \A i \in 1..Len(Append(q, s)) :
                  Append(q, s)[i] = s \/ (i \in 1..Len(q) /\ Append(q, s)[i] = q[i])
           /\ \A i, j \in 1..Len(Append(q, s)) :
                  Append(q, s)[i] = Append(q, s)[j] => i = j
OBVIOUS

LEMMA TailOfNew ==
    ASSUME NEW S, NEW q \in Seq(S), q # <<>>,
           \A i, j \in 1..Len(q) : q[i] = q[j] => i = j
    PROVE  /\ Head(q) \in S /\ Tail(q) \in Seq(S)
           /\ Head(q) = q[1] /\ 1 \in 1..Len(q)
           /\ \A i \in 1..Len(Tail(q)) :
                  /\ Tail(q)[i] = q[i + 1] /\ i + 1 \in 1..Len(q)
                  /\ Tail(q)[i] # Head(q)
           /\ \A i, j \in 1..Len(Tail(q)) : Tail(q)[i] = Tail(q)[j] => i = j
<1>1. Len(q) \in Nat /\ Len(q) > 0 /\ Len(Tail(q)) = Len(q) - 1
  OBVIOUS
<1>2. Head(q) \in S /\ Tail(q) \in Seq(S) /\ Head(q) = q[1] /\ 1 \in 1..Len(q)
  OBVIOUS
<1>3. \A i \in 1..Len(Tail(q)) : Tail(q)[i] = q[i + 1] /\ i + 1 \in 1..Len(q)
  BY <1>1
<1>4. \A i \in 1..Len(Tail(q)) : Tail(q)[i] # Head(q)
  BY <1>1, <1>2, <1>3
<1>5. \A i, j \in 1..Len(Tail(q)) : Tail(q)[i] = Tail(q)[j] => i = j
  <2>1. SUFFICES ASSUME NEW i \in 1..Len(Tail(q)), NEW j \in 1..Len(Tail(q)),
                        Tail(q)[i] = Tail(q)[j]
                 PROVE  i = j
    OBVIOUS
  <2>2. i + 1 = j + 1
    BY <1>3, <2>1
  <2> QED
    BY <1>1, <2>2
<1> QED
  BY <1>2, <1>3, <1>4, <1>5

-----------------------------------------------------------------------------
(* The invariant *)

LEMMA FlowInit == Init => FlowInv
BY DEF Init, FlowInv, FlowTyped, RowsFit, QueueIsNew, HandIsUnsettled,
       PendingIsUnsettled, EntryIsOwned, Submitting

(* Steps that leave the shares where they are.                             *)
LEMMA FlowFrame ==
    ASSUME FlowInv,
           UNCHANGED <<mine, hand, queue, row, verdicts, pending, rd, entry, msg>>
    PROVE  FlowInv'
BY DEF FlowInv, FlowTyped, RowsFit, QueueIsNew, HandIsUnsettled,
       PendingIsUnsettled, EntryIsOwned, Submitting, Unsettled

(* Steps within mine() that leave the share in its hand, or let it go.     *)
LEMMA MineFrame ==
    ASSUME FlowInv,
           UNCHANGED <<queue, row, verdicts, pending, rd, entry, msg>>,
           mine' \in {"wait", "drain", "build", "transmit", "return", "track",
                      "register", "count", "check"},
           Submitting' => Submitting /\ hand' = hand
    PROVE  FlowInv'
<1>1. FlowTyped'
  BY DEF FlowInv, FlowTyped
<1>2. HandIsUnsettled'
  BY DEF FlowInv, HandIsUnsettled, Unsettled
<1> QED
  BY <1>1, <1>2 DEF FlowInv, RowsFit, QueueIsNew, PendingIsUnsettled, EntryIsOwned, Unsettled

LEMMA FindStep ==
    ASSUME FlowInv, NEW s \in Shares, Find(s)
    PROVE  FlowInv'
<1>1. /\ queue' = Append(queue, s)
      /\ UNCHANGED <<mine, hand, row, verdicts, pending, rd, entry, msg>>
  BY DEF Find, readVars, pastVars
<1>2. row[s] = "absent" /\ \A i \in 1..Len(queue) : queue[i] # s
  <2>1. s \notin Range(queue) /\ row[s] = "absent"
    BY DEF Find, Found
  <2> QED
    BY <2>1 DEF Range, FlowInv, FlowTyped
<1>3. QueueIsNew' /\ queue' \in Seq(Shares)
  BY <1>1, <1>2, AppendNew DEF FlowInv, FlowTyped, QueueIsNew
<1>4. FlowTyped'
  BY <1>1, <1>3 DEF FlowInv, FlowTyped, Submitting
<1> QED
  BY <1>1, <1>3, <1>4
     DEF FlowInv, RowsFit, HandIsUnsettled, PendingIsUnsettled, EntryIsOwned,
         Submitting, Unsettled

LEMMA JournalStep ==
    ASSUME FlowInv, Journal
    PROVE  FlowInv'
<1> DEFINE s == Head(queue)
<1>1. /\ hand' = s /\ queue' = Tail(queue) /\ mine' = "build"
      /\ row' = [row EXCEPT ![s] = "no"]
      /\ UNCHANGED <<verdicts, pending, rd, entry, msg>>
  BY DEF Journal, readVars, pastVars
<1>2. /\ s \in Shares /\ row[s] = "absent"
      /\ Tail(queue) \in Seq(Shares)
      /\ \A i \in 1..Len(Tail(queue)) :
             Tail(queue)[i] # s /\ row[Tail(queue)[i]] = "absent"
      /\ \A i, j \in 1..Len(Tail(queue)) : Tail(queue)[i] = Tail(queue)[j] => i = j
  BY TailOfNew DEF Journal, FlowInv, FlowTyped, QueueIsNew
<1> HIDE DEF s
<1>3. /\ row' \in [Shares -> {"absent", "no", "yes"}]
      /\ row'[s] = "no" /\ \A t \in Shares : t # s => row'[t] = row[t]
  BY <1>1, <1>2 DEF FlowInv, FlowTyped
<1>4. verdicts[s] = 0
  BY <1>2 DEF FlowInv, RowsFit
<1>5. /\ \A p \in pending : p.share \in Shares /\ p.share # s
      /\ rd = "store" => entry \in Shares /\ entry # s
      /\ rd = "count" => entry \in Shares /\ entry # s
  BY <1>2, <1>4 DEF FlowInv, FlowTyped, PendingIsUnsettled, EntryIsOwned, Unsettled
<1>6. FlowTyped'
  BY <1>1, <1>2, <1>3 DEF FlowInv, FlowTyped
<1>7. RowsFit'
  BY <1>1, <1>3, <1>4 DEF FlowInv, RowsFit
<1>8. QueueIsNew'
  <2>1. \A i \in 1..Len(Tail(queue)) : Tail(queue)[i] \in Shares
    BY <1>2
  <2> QED
    BY <1>1, <1>2, <1>3, <2>1 DEF QueueIsNew
<1>9. HandIsUnsettled'
  BY <1>1, <1>3, <1>4, <1>5 DEF HandIsUnsettled, Unsettled
<1>10. PendingIsUnsettled'
  BY <1>1, <1>3, <1>5 DEF FlowInv, PendingIsUnsettled, Unsettled
<1>11. EntryIsOwned'
  BY <1>1, <1>3, <1>5 DEF FlowInv, EntryIsOwned, Unsettled, ResultIsTrue
<1> QED
  BY <1>6, <1>7, <1>8, <1>9, <1>10, <1>11 DEF FlowInv

(* _pending_submits is emptied.                                            *)
LEMMA StartPoolStep ==
    ASSUME FlowInv, StartPool
    PROVE  FlowInv'
<1>1. /\ mine' = "drain" /\ pending' = {}
      /\ UNCHANGED <<queue, row, verdicts, rd, entry, msg>>
  BY DEF StartPool, readVars, pastVars
<1> QED
  BY <1>1 DEF FlowInv, FlowTyped, RowsFit, QueueIsNew, HandIsUnsettled,
              PendingIsUnsettled, EntryIsOwned, Submitting, Unsettled

(* The share leaves mine()'s hand for _pending_submits.                    *)
LEMMA RegisterStep ==
    ASSUME FlowInv, Register
    PROVE  FlowInv'
<1> DEFINE new == [id |-> mid, share |-> hand]
<1>1. /\ Submitting /\ mine' = "count"
      /\ UNCHANGED <<queue, row, verdicts, rd, entry, msg>>
      /\ \A p \in pending' : p \in pending \/ p = new
  BY DEF Register, readVars, pastVars, Submitting
<1>2. /\ new.share = hand /\ hand \in Shares /\ Unsettled(hand)
      /\ rd = "store" => entry # hand
      /\ \A p \in pending : p.share # hand
  BY <1>1 DEF FlowInv, FlowTyped, HandIsUnsettled
<1> HIDE DEF new
<1>3. FlowTyped'
  BY <1>1, <1>2 DEF FlowInv, FlowTyped, Submitting
<1>4. HandIsUnsettled'
  BY <1>1 DEF HandIsUnsettled, Submitting
<1>5. PendingIsUnsettled'
  BY <1>1, <1>2 DEF FlowInv, PendingIsUnsettled, Unsettled
<1>6. EntryIsOwned'
  BY <1>1, <1>2 DEF FlowInv, EntryIsOwned, Unsettled, ResultIsTrue
<1> QED
  BY <1>1, <1>3, <1>4, <1>5, <1>6 DEF FlowInv, RowsFit, QueueIsNew

(* stop_pool empties the queue.                                            *)
LEMMA CheckJobStep ==
    ASSUME FlowInv, CheckJob
    PROVE  FlowInv'
<1>1. /\ mine' \in {"drain", "wait"} /\ queue' \in {queue, <<>>}
      /\ UNCHANGED <<hand, row, verdicts, pending, rd, entry, msg>>
  BY DEF CheckJob, readVars
<1>2. QueueIsNew' /\ queue' \in Seq(Shares)
  <2>1. CASE UNCHANGED queue
    BY <1>1, <2>1 DEF FlowInv, FlowTyped, QueueIsNew
  <2>2. CASE queue' = <<>>
    BY <2>2 DEF QueueIsNew
  <2> QED
    BY <1>1, <2>1, <2>2
<1> QED
  BY <1>1, <1>2 DEF FlowInv, FlowTyped, RowsFit, HandIsUnsettled,
              PendingIsUnsettled, EntryIsOwned, Submitting, Unsettled

(* Steps of the callback before it owns a share.                           *)
LEMMA HandleReplyStep ==
    ASSUME FlowInv, HandleReply
    PROVE  FlowInv'
<1>1. /\ rd = "idle" /\ rd' \in {"idle", "pop"}
      /\ UNCHANGED <<mine, hand, queue, row, verdicts, pending, entry>>
  BY DEF HandleReply, CanRead, mineSide, mineVars, pastVars
<1> QED
  BY <1>1 DEF FlowInv, FlowTyped, RowsFit, QueueIsNew, HandIsUnsettled,
              PendingIsUnsettled, EntryIsOwned, Submitting, Unsettled

(* The share leaves _pending_submits for the callback.                     *)
LEMMA PopStep ==
    ASSUME FlowInv, Pop
    PROVE  FlowInv'
<1>1. /\ rd = "pop"
      /\ UNCHANGED <<mine, hand, queue, row, verdicts>>
  BY DEF Pop, mineVars, pastVars
<1>2. CASE rd' = "idle" /\ UNCHANGED <<pending, entry>>
  BY <1>1, <1>2 DEF FlowInv, FlowTyped, RowsFit, QueueIsNew, HandIsUnsettled,
              PendingIsUnsettled, EntryIsOwned, Submitting, Unsettled
<1>3. ASSUME NEW p \in pending,
             pending' = pending \ {p}, entry' = p.share, rd' = "store"
      PROVE  FlowInv'
  <2>1. p.share \in Shares /\ Unsettled(p.share) /\ \A q \in pending' : q.share # p.share
    BY <1>3 DEF FlowInv, FlowTyped, PendingIsUnsettled
  <2>2. pending' \subseteq pending
    BY <1>3
  <2>3. FlowTyped'
    BY <1>1, <1>3, <2>1, <2>2 DEF FlowInv, FlowTyped, Submitting
  <2>4. HandIsUnsettled'
    BY <1>1, <1>3, <2>2 DEF FlowInv, HandIsUnsettled, Submitting, Unsettled
  <2>5. PendingIsUnsettled'
    BY <1>1, <2>2 DEF FlowInv, PendingIsUnsettled, Unsettled
  <2>6. EntryIsOwned'
    BY <1>1, <1>3, <2>1 DEF EntryIsOwned, Unsettled
  <2> QED
    BY <1>1, <2>3, <2>4, <2>5, <2>6 DEF FlowInv, RowsFit, QueueIsNew
<1> QED
  BY <1>2, <1>3 DEF Pop

(* What Store does to the row and the verdicts of its share.               *)
LEMMA StoreEffect ==
    ASSUME FlowInv, Store
    PROVE  /\ entry \in Shares /\ Unsettled(entry)
           /\ row' \in [Shares -> {"absent", "no", "yes"}]
           /\ row'[entry] = IF ResultIsTrue(msg) THEN "yes" ELSE "no"
           /\ verdicts' \in [Shares -> {0, 1}] /\ verdicts'[entry] = 1
           /\ \A s \in Shares : s # entry =>
                  row'[s] = row[s] /\ verdicts'[s] = verdicts[s]
<1>1. entry \in Shares /\ row[entry] = "no" /\ verdicts[entry] = 0
  BY DEF Store, FlowInv, FlowTyped, EntryIsOwned, Unsettled
<1>2. verdicts' = [verdicts EXCEPT ![entry] = 1]
  BY <1>1 DEF Store
<1> QED
  BY <1>1, <1>2 DEF Store, FlowInv, FlowTyped, Unsettled

LEMMA StoreStep ==
    ASSUME FlowInv, Store
    PROVE  FlowInv'
<1>1. /\ rd = "store" /\ rd' = "count"
      /\ UNCHANGED <<mine, hand, queue, pending, entry, msg>>
  BY DEF Store, mineVars
<1>2. /\ \A p \in pending : p.share \in Shares /\ p.share # entry
      /\ Submitting => hand \in Shares /\ hand # entry
  BY <1>1 DEF FlowInv, FlowTyped, EntryIsOwned, HandIsUnsettled
<1>3. FlowTyped'
  BY <1>1, StoreEffect DEF FlowInv, FlowTyped, Submitting
<1>4. RowsFit'
  BY StoreEffect DEF FlowInv, RowsFit
<1>5. QueueIsNew'
  <2>1. \A i \in 1..Len(queue) : queue[i] \in Shares /\ row[queue[i]] = "absent"
    BY DEF FlowInv, FlowTyped, QueueIsNew
  <2>2. \A i \in 1..Len(queue) : row'[queue[i]] = "absent"
    BY <2>1, StoreEffect DEF Unsettled
  <2> QED
    BY <1>1, <2>2 DEF FlowInv, QueueIsNew
<1>6. HandIsUnsettled'
  BY <1>1, <1>2, StoreEffect DEF FlowInv, HandIsUnsettled, Submitting, Unsettled
<1>7. PendingIsUnsettled'
  BY <1>1, <1>2, StoreEffect DEF FlowInv, PendingIsUnsettled, Unsettled
<1>8. EntryIsOwned'
  BY <1>1, StoreEffect DEF EntryIsOwned, ResultIsTrue
<1> QED
  BY <1>3, <1>4, <1>5, <1>6, <1>7, <1>8 DEF FlowInv

LEMMA CountVerdictStep ==
    ASSUME FlowInv, CountVerdict
    PROVE  FlowInv'
<1>1. /\ rd' = "idle"
      /\ UNCHANGED <<mine, hand, queue, row, verdicts, pending>>
  BY DEF CountVerdict, mineVars, pastVars
<1> QED
  BY <1>1 DEF FlowInv, FlowTyped, RowsFit, QueueIsNew, HandIsUnsettled,
              PendingIsUnsettled, EntryIsOwned, Submitting, Unsettled

(* The steps of the supervisor, the pool and the job side leave the shares *)
(* alone; the others have their lemma.                                     *)
LEMMA FlowStep ==
    ASSUME FlowInv, [Next]_vars
    PROVE  FlowInv'
<1>1. CASE MineNext
  <2>1. CASE StartPool
    BY <2>1, StartPoolStep
  <2>2. CASE Journal
    BY <2>2, JournalStep
  <2>3. CASE MineBuild \/ MineTransmit \/ MineReturn \/ Track
    <3>1. UNCHANGED <<hand, queue, row, verdicts, pending, rd, entry, msg>>
      BY <2>3 DEF MineBuild, MineTransmit, MineReturn, Track, readVars, pastVars
    <3>2. /\ Submitting
          /\ mine' \in {"transmit", "return", "track", "register", "count"}
      BY <2>3 DEF MineBuild, MineTransmit, MineReturn, Track, Submitting
    <3> QED
      BY <3>1, <3>2, MineFrame
  <2>4. CASE Register
    BY <2>4, RegisterStep
  <2>5. CASE CountFound \/ Drained
    <3>1. /\ mine' \in {"drain", "check"}
          /\ UNCHANGED <<queue, row, verdicts, pending, rd, entry, msg>>
      BY <2>5 DEF CountFound, Drained, readVars, pastVars
    <3> QED
      BY <3>1, MineFrame DEF Submitting
  <2>6. CASE CheckJob
    BY <2>6, CheckJobStep
  <2> QED
    BY <1>1, <2>1, <2>2, <2>3, <2>4, <2>5, <2>6 DEF MineNext
<1>2. CASE SupNext \/ Notify \/ SetExtranonce \/ Answer \/ UNCHANGED vars
  <2>1. UNCHANGED <<mine, hand, queue, row, verdicts, pending, rd, entry, msg>>
    BY <1>2 DEF SupNext, ResetId, ResetSession, Connect, HandshakeBuild,
                HandshakeTransmit, HandshakeReturn, HandshakeReply, SessionEnds,
                Notify, SetExtranonce, Answer, vars, poolFrame, mineSide,
                mineVars, readVars, pastVars
  <2> QED
    BY <2>1, FlowFrame
<1>3. CASE ReadNext
  BY <1>3, HandleReplyStep, PopStep, StoreStep, CountVerdictStep DEF ReadNext
<1>4. CASE \E s \in Shares : Find(s)
  BY <1>4, FindStep
<1> QED
  BY <1>1, <1>2, <1>3, <1>4 DEF Next

THEOREM FlowInvariant == Spec => []FlowInv
BY FlowInit, FlowStep, PTL DEF Spec

(* A share is settled at most once, whatever replies, repeats, reconnects  *)
(* and collisions of request ids do: _pending_submits.pop hands a share to *)
(* the callback, and no share enters _pending_submits twice.               *)
THEOREM ShareSettledOnce == Spec => []VerdictOnce
<1>1. FlowInv => VerdictOnce
  BY DEF FlowInv, FlowTyped, VerdictOnce
<1> QED
  BY <1>1, FlowInvariant, PTL

-----------------------------------------------------------------------------
(* Refinement *)

(* The row as the ledger sees it.                                          *)
LedgerRow ==
    [s \in Shares |->
        IF row[s] = "absent" THEN "absent"
        ELSE IF verdicts[s] = 0 THEN "pending"
        ELSE IF row[s] = "yes" THEN "accepted" ELSE "rejected"]

Settling == IF rd = "count" THEN {entry} ELSE {}

(* Steps that the ledger does not see.                                     *)
LEMMA LedgerStutters ==
    ASSUME UNCHANGED <<row, verdicts, accepted, rejected, told>>,
           rd # "count" \/ UNCHANGED <<rd, entry>>, rd' = "count" => rd = "count"
    PROVE  UNCHANGED Ledger!vars
BY DEF Ledger!vars

LEMMA JournalRefines ==
    ASSUME FlowInv, Journal
    PROVE  \E s \in Shares : Ledger!Journal(s)
<1>1. PICK s \in Shares : s = Head(queue) /\ row[s] = "absent"
  BY TailOfNew DEF Journal, FlowInv, FlowTyped, QueueIsNew
<1>2. /\ row' = [row EXCEPT ![s] = "no"] /\ verdicts[s] = 0
      /\ UNCHANGED <<verdicts, rd, entry, accepted, rejected, told>>
  BY <1>1 DEF Journal, readVars, pastVars, FlowInv, RowsFit
<1>3. LedgerRow' = [LedgerRow EXCEPT ![s] = "pending"]
  BY <1>1, <1>2 DEF LedgerRow, FlowInv, FlowTyped
<1>4. LedgerRow[s] = "absent"
  BY <1>1 DEF LedgerRow
<1>5. Ledger!Journal(s)
  BY <1>2, <1>3, <1>4 DEF Ledger!Journal, LedgerRow
<1> QED
  BY <1>5

LEMMA StoreRefines ==
    ASSUME FlowInv, Store
    PROVE  \E s \in Shares, v \in {"accepted", "rejected"} : Ledger!Settle(s, v)
<1>1. /\ rd = "store" /\ rd' = "count"
      /\ UNCHANGED <<entry, accepted, rejected, told>>
  BY DEF Store
<1>2. PICK s \in Shares : s = entry
  BY StoreEffect
<1>3. PICK v \in {"accepted", "rejected"} :
          v = IF ResultIsTrue(msg) THEN "accepted" ELSE "rejected"
  <2>1. CASE ResultIsTrue(msg)
    BY <2>1
  <2>2. CASE ~ResultIsTrue(msg)
    BY <2>2
  <2> QED
    BY <2>1, <2>2
<1>4. LedgerRow' = [LedgerRow EXCEPT ![s] = v]
  <2>1. /\ row' \in [Shares -> {"absent", "no", "yes"}]
        /\ verdicts'[s] = 1
        /\ v = IF row'[s] = "yes" THEN "accepted" ELSE "rejected"
        /\ row'[s] # "absent"
        /\ \A t \in Shares : t # s => row'[t] = row[t] /\ verdicts'[t] = verdicts[t]
    BY <1>2, <1>3, StoreEffect
  <2>2. LedgerRow'[s] = v
    BY <2>1 DEF LedgerRow
  <2>3. \A t \in Shares : t # s => LedgerRow'[t] = LedgerRow[t]
    BY <2>1 DEF LedgerRow
  <2> QED
    BY <2>2, <2>3 DEF LedgerRow
<1>5. LedgerRow[s] = "pending"
  BY <1>2, StoreEffect DEF LedgerRow, Unsettled
<1>6. Settling = {} /\ Settling' = Settling \cup {s}
  BY <1>1, <1>2 DEF Settling
<1>7. Ledger!Settle(s, v)
  BY <1>1, <1>4, <1>5, <1>6 DEF Ledger!Settle, LedgerRow, Settling
<1> QED
  BY <1>7

LEMMA CountVerdictRefines ==
    ASSUME FlowInv, CountVerdict
    PROVE  \E s \in Shares : Ledger!Count(s)
<1>1. rd = "count" /\ rd' = "idle" /\ UNCHANGED <<row, verdicts>>
  BY DEF CountVerdict, pastVars
<1>2. PICK s \in Shares :
          /\ s = entry /\ verdicts[s] = 1
          /\ row[s] = IF ResultIsTrue(msg) THEN "yes" ELSE "no"
  BY <1>1 DEF FlowInv, FlowTyped, EntryIsOwned
<1>3. LedgerRow[s] = IF ResultIsTrue(msg) THEN "accepted" ELSE "rejected"
  BY <1>2 DEF LedgerRow
<1>4. Settling = {s} /\ Settling' = {} /\ LedgerRow' = LedgerRow
  BY <1>1, <1>2 DEF Settling, LedgerRow
<1>5. Ledger!Count(s)
  <2>1. CASE ResultIsTrue(msg)
    <3>1. accepted' = accepted + 1 /\ told' = told \cup {s} /\ UNCHANGED rejected
      BY <1>2, <2>1 DEF CountVerdict
    <3> QED
      BY <1>3, <1>4, <2>1, <3>1 DEF Ledger!Count, LedgerRow, Settling
  <2>2. CASE ~ResultIsTrue(msg)
    <3>1. rejected' = rejected + 1 /\ UNCHANGED <<accepted, told>>
      BY <2>2 DEF CountVerdict
    <3> QED
      BY <1>3, <1>4, <2>2, <3>1 DEF Ledger!Count, LedgerRow, Settling
  <2> QED
    BY <2>1, <2>2
<1> QED
  BY <1>5

(* Steps of mine() before and after the journal, of the supervisor and of  *)
(* the pool: neither rows nor counters nor the callback move.              *)
LEMMA QuietSteps ==
    ASSUME \/ \E s \in Shares : Find(s)
           \/ StartPool \/ MineBuild \/ MineTransmit \/ MineReturn \/ Track
           \/ Register \/ CountFound \/ Drained \/ CheckJob
           \/ SupNext \/ Notify \/ SetExtranonce \/ Answer \/ UNCHANGED vars
    PROVE  UNCHANGED <<row, verdicts, accepted, rejected, told, rd, entry>>
<1>1. CASE \/ \E s \in Shares : Find(s)
           \/ StartPool \/ MineBuild \/ MineTransmit \/ MineReturn \/ Track
           \/ Register \/ CountFound \/ Drained \/ CheckJob
  BY <1>1 DEF Find, StartPool, MineBuild, MineTransmit, MineReturn, Track,
              Register, CountFound, Drained, CheckJob, readVars, pastVars
<1>2. CASE SupNext \/ Notify \/ SetExtranonce \/ Answer \/ UNCHANGED vars
  BY <1>2 DEF SupNext, ResetId, ResetSession, Connect, HandshakeBuild,
              HandshakeTransmit, HandshakeReturn, HandshakeReply, SessionEnds,
              Notify, SetExtranonce, Answer, vars, poolFrame, mineSide,
              readVars, pastVars
<1> QED
  BY <1>1, <1>2

LEMMA LedgerInit == Init => Ledger!Init
BY DEF Init, Ledger!Init

LEMMA LedgerStep ==
    ASSUME FlowInv, [Next]_vars
    PROVE  [Ledger!Next]_(Ledger!vars)
<1>1. CASE Journal
  BY <1>1, JournalRefines DEF Ledger!Next
<1>2. CASE Store
  BY <1>2, StoreRefines DEF Ledger!Next
<1>3. CASE CountVerdict
  BY <1>3, CountVerdictRefines DEF Ledger!Next
<1>4. CASE HandleReply \/ Pop
  <2>1. /\ rd # "count" /\ rd' # "count"
        /\ UNCHANGED <<row, verdicts, accepted, rejected, told>>
    BY <1>4 DEF HandleReply, Pop, CanRead, mineSide, pastVars
  <2> QED
    BY <2>1, LedgerStutters
<1>5. CASE (\E s \in Shares : Find(s)) \/ StartPool \/ MineBuild \/ MineTransmit
           \/ MineReturn \/ Track \/ Register \/ CountFound \/ Drained \/ CheckJob
           \/ SupNext \/ Notify \/ SetExtranonce \/ Answer \/ UNCHANGED vars
  BY <1>5, QuietSteps, LedgerStutters
<1> QED
  BY <1>1, <1>2, <1>3, <1>4, <1>5 DEF Next, MineNext, ReadNext

(* The threads of the miner implement the ledger: a share is journaled     *)
(* before anything else happens to it, settled once, and counted and       *)
(* announced once, as its row says.                                        *)
THEOREM FlowImplementsLedger == Spec => ImplementsLedger
<1>1. ImplementsLedger <=> Ledger!Init /\ [][Ledger!Next]_(Ledger!vars)
  BY DEF ImplementsLedger, Ledger!Spec
<1> QED
  BY <1>1, LedgerInit, LedgerStep, FlowInvariant, PTL DEF Spec

-----------------------------------------------------------------------------
(* Counters and rows *)

(* The shares whose verdict the callback has finished with.                *)
Counted == {s \in Shares : verdicts[s] = 1} \ Settling

CountInv ==
    /\ IsFiniteSet(Counted)
    /\ told = {s \in Counted : row[s] = "yes"}
    /\ accepted \in Nat /\ rejected \in Nat
    /\ accepted = Cardinality(told)
    /\ accepted + rejected = Cardinality(Counted)

Journaled == {s \in Shares : row[s] # "absent"}

(* mine() holds a share from its record_share to its counter_inc.          *)
Holding == mine \notin {"wait", "drain", "check"}

TotalInv ==
    /\ IF Holding THEN hand \in Shares ELSE hand = none
    /\ IsFiniteSet(Journaled)
    /\ total \in Nat
    /\ total + (IF Holding THEN 1 ELSE 0) = Cardinality(Journaled)

LEMMA OneMore ==
    ASSUME NEW S, IsFiniteSet(S), NEW x, x \notin S
    PROVE  /\ IsFiniteSet(S \cup {x})
           /\ Cardinality(S) \in Nat
           /\ Cardinality(S \cup {x}) = Cardinality(S) + 1
BY FS_AddElement, FS_CardinalityType

(* One more accepted, or one more rejected: the sum grows by one.          *)
LEMMA SumGrows ==
    ASSUME NEW a \in Nat, NEW r \in Nat, NEW n, a + r = n
    PROVE  /\ a + 1 \in Nat /\ r + 1 \in Nat
           /\ (a + 1) + r = n + 1 /\ a + (r + 1) = n + 1
OBVIOUS

LEMMA CountInit == Init => CountInv /\ TotalInv
<1> SUFFICES ASSUME Init PROVE CountInv /\ TotalInv
  OBVIOUS
<1>1. Counted = {} /\ Journaled = {} /\ told = {}
  BY DEF Init, Counted, Journaled
<1>2. IsFiniteSet({}) /\ Cardinality({}) = 0
  BY FS_EmptySet
<1> QED
  BY <1>1, <1>2 DEF Init, CountInv, TotalInv, Holding

(* Steps other than the callback's last one finish no verdict.             *)
LEMMA CountFrame ==
    ASSUME CountInv, UNCHANGED <<accepted, rejected, told>>,
           Counted' = Counted, \A s \in Counted : row'[s] = row[s]
    PROVE  CountInv'
<1>1. {s \in Counted : row'[s] = "yes"} = {s \in Counted : row[s] = "yes"}
  OBVIOUS
<1> QED
  BY <1>1 DEF CountInv

LEMMA CountStep ==
    ASSUME FlowInv, CountInv, [Next]_vars
    PROVE  CountInv'
<1>1. CASE CountVerdict
  <2>1. rd = "count" /\ rd' = "idle" /\ UNCHANGED <<row, verdicts>>
    BY <1>1 DEF CountVerdict, pastVars
  <2>2. PICK s \in Shares :
            /\ s = entry /\ verdicts[s] = 1
            /\ row[s] = IF ResultIsTrue(msg) THEN "yes" ELSE "no"
    BY <2>1 DEF FlowInv, FlowTyped, EntryIsOwned
  <2>3. s \notin Counted /\ Counted' = Counted \cup {s}
    BY <2>1, <2>2 DEF Counted, Settling
  <2>4. /\ IsFiniteSet(Counted') /\ Cardinality(Counted) \in Nat
        /\ Cardinality(Counted') = Cardinality(Counted) + 1
    BY <2>3, OneMore DEF CountInv
  <2>5. s \notin told /\ IsFiniteSet(told)
    <3>1. told \subseteq Counted
      BY DEF CountInv
    <3> QED
      BY <2>3, <3>1, FS_Subset DEF CountInv
  <2>6. CASE ResultIsTrue(msg)
    <3>1. accepted' = accepted + 1 /\ told' = told \cup {s} /\ rejected' = rejected
      BY <1>1, <2>2, <2>6 DEF CountVerdict
    <3>2. Cardinality(told') = Cardinality(told) + 1
      BY <2>5, <3>1, OneMore
    <3>3. told' = {t \in Counted' : row'[t] = "yes"}
      BY <2>1, <2>2, <2>3, <2>6, <3>1 DEF CountInv
    <3>4. /\ accepted' \in Nat /\ rejected' \in Nat
          /\ accepted' + rejected' = Cardinality(Counted) + 1
      BY <3>1, SumGrows DEF CountInv
    <3> QED
      BY <2>4, <3>1, <3>2, <3>3, <3>4 DEF CountInv
  <2>7. CASE ~ResultIsTrue(msg)
    <3>1. rejected' = rejected + 1 /\ told' = told /\ accepted' = accepted
      BY <1>1, <2>7 DEF CountVerdict
    <3>2. told' = {t \in Counted' : row'[t] = "yes"}
      BY <2>1, <2>2, <2>3, <2>7, <3>1 DEF CountInv
    <3>3. /\ accepted' \in Nat /\ rejected' \in Nat
          /\ accepted' + rejected' = Cardinality(Counted) + 1
      BY <3>1, SumGrows DEF CountInv
    <3> QED
      BY <2>4, <3>1, <3>2, <3>3 DEF CountInv
  <2> QED
    BY <2>6, <2>7
<1>2. CASE Store
  <2>1. /\ rd = "store" /\ rd' = "count"
        /\ UNCHANGED <<entry, accepted, rejected, told>>
    BY <1>2 DEF Store
  <2>2. Settling = {} /\ Settling' = {entry}
    BY <2>1 DEF Settling
  <2>3. Counted' = Counted /\ entry \notin Counted
    BY <1>2, <2>2, StoreEffect DEF Counted, Unsettled
  <2>4. \A s \in Counted : row'[s] = row[s]
    BY <1>2, <2>3, StoreEffect DEF Counted
  <2> QED
    BY <2>1, <2>3, <2>4, CountFrame
<1>3. CASE Journal
  <2>1. /\ row' = [row EXCEPT ![Head(queue)] = "no"]
        /\ UNCHANGED <<verdicts, rd, entry, accepted, rejected, told>>
    BY <1>3 DEF Journal, readVars, pastVars
  <2>2. Head(queue) \notin Counted
    <3>1. Head(queue) \in Shares /\ row[Head(queue)] = "absent"
      BY <1>3, TailOfNew DEF Journal, FlowInv, FlowTyped, QueueIsNew
    <3> QED
      BY <3>1 DEF FlowInv, RowsFit, Counted
  <2>3. Counted' = Counted
    BY <2>1 DEF Counted, Settling
  <2>4. \A s \in Counted : row'[s] = row[s]
    <3>1. \A s \in Counted : s \in Shares /\ s # Head(queue)
      BY <2>2 DEF Counted
    <3> QED
      BY <2>1, <3>1 DEF FlowInv, FlowTyped
  <2> QED
    BY <2>1, <2>3, <2>4, CountFrame
<1>4. CASE HandleReply \/ Pop
  <2>1. /\ rd # "count" /\ rd' # "count"
        /\ UNCHANGED <<row, verdicts, accepted, rejected, told>>
    BY <1>4 DEF HandleReply, Pop, CanRead, mineSide, pastVars
  <2>2. Counted' = Counted
    BY <2>1 DEF Counted, Settling
  <2> QED
    BY <2>1, <2>2, CountFrame
<1>5. CASE (\E s \in Shares : Find(s)) \/ StartPool \/ MineBuild \/ MineTransmit
           \/ MineReturn \/ Track \/ Register \/ CountFound \/ Drained \/ CheckJob
           \/ SupNext \/ Notify \/ SetExtranonce \/ Answer \/ UNCHANGED vars
  <2>1. UNCHANGED <<row, verdicts, accepted, rejected, told, rd, entry>>
    BY <1>5, QuietSteps
  <2>2. Counted' = Counted
    BY <2>1 DEF Counted, Settling
  <2> QED
    BY <2>1, <2>2, CountFrame
<1> QED
  BY <1>1, <1>2, <1>3, <1>4, <1>5 DEF Next, MineNext, ReadNext

LEMMA TotalFrame ==
    ASSUME TotalInv, UNCHANGED <<total, hand>>, Holding' = Holding, Journaled' = Journaled
    PROVE  TotalInv'
BY DEF TotalInv

LEMMA TotalStep ==
    ASSUME FlowInv, TotalInv, [Next]_vars
    PROVE  TotalInv'
<1>1. CASE Journal
  <2>1. PICK s \in Shares : s = Head(queue) /\ row[s] = "absent"
    BY <1>1, TailOfNew DEF Journal, FlowInv, FlowTyped, QueueIsNew
  <2>2. /\ ~Holding /\ Holding' /\ hand' = s /\ total' = total
        /\ row' = [row EXCEPT ![s] = "no"]
    BY <1>1, <2>1 DEF Journal, Holding
  <2>3. s \notin Journaled /\ Journaled' = Journaled \cup {s}
    BY <2>1, <2>2 DEF Journaled, FlowInv, FlowTyped
  <2>4. IsFiniteSet(Journaled') /\ Cardinality(Journaled') = Cardinality(Journaled) + 1
    BY <2>3, OneMore DEF TotalInv
  <2>5. total \in Nat /\ total + 0 = Cardinality(Journaled)
    BY <2>2 DEF TotalInv
  <2>6. total' + 1 = Cardinality(Journaled')
    BY <2>2, <2>4, <2>5
  <2> QED
    BY <2>2, <2>4, <2>5, <2>6 DEF TotalInv
<1>2. CASE CountFound
  <2>1. /\ Holding /\ ~Holding' /\ hand' = none /\ total' = total + 1
        /\ UNCHANGED row
    BY <1>2 DEF CountFound, Holding
  <2>2. Journaled' = Journaled
    BY <2>1 DEF Journaled
  <2>3. total \in Nat /\ total + 1 = Cardinality(Journaled)
    BY <2>1 DEF TotalInv
  <2>4. total' \in Nat /\ total' + 0 = Cardinality(Journaled')
    BY <2>1, <2>2, <2>3
  <2> QED
    BY <2>1, <2>2, <2>4 DEF TotalInv
<1>3. CASE Store
  <2>1. UNCHANGED <<total, hand, mine>>
    BY <1>3 DEF Store, mineVars
  <2>2. Journaled' = Journaled
    BY <1>3, StoreEffect DEF Journaled, Unsettled
  <2> QED
    BY <2>1, <2>2, TotalFrame DEF Holding
<1>4. CASE (\E s \in Shares : Find(s)) \/ StartPool \/ MineBuild \/ MineTransmit
           \/ MineReturn \/ Track \/ Register \/ Drained \/ CheckJob
  <2>1. UNCHANGED <<total, hand, row>> /\ Holding' = Holding
    BY <1>4 DEF Find, StartPool, MineBuild, MineTransmit, MineReturn, Track,
                Register, Drained, CheckJob, Holding
  <2>2. Journaled' = Journaled
    BY <2>1 DEF Journaled
  <2> QED
    BY <2>1, <2>2, TotalFrame
<1>5. CASE HandleReply \/ Pop \/ CountVerdict
           \/ SupNext \/ Notify \/ SetExtranonce \/ Answer \/ UNCHANGED vars
  <2>1. UNCHANGED <<total, hand, row, mine>>
    BY <1>5 DEF HandleReply, Pop, CountVerdict, SupNext, ResetId, ResetSession,
                Connect, HandshakeBuild, HandshakeTransmit, HandshakeReturn,
                HandshakeReply, SessionEnds, Notify, SetExtranonce, Answer,
                vars, poolFrame, mineSide, mineVars
  <2>2. Journaled' = Journaled
    BY <2>1 DEF Journaled
  <2> QED
    BY <2>1, <2>2, TotalFrame DEF Holding
<1> QED
  BY <1>1, <1>2, <1>3, <1>4, <1>5 DEF Next, MineNext, ReadNext

(* The metrics, the rows of SQLite and the notifications agree whenever no *)
(* callback is between its update of the row and its counters.             *)
THEOREM LedgersStayEqual == Spec => []LedgersAgree
<1>1. FlowInv /\ CountInv => LedgersAgree
  <2> SUFFICES ASSUME FlowInv, CountInv, rd # "count"
               PROVE  /\ told = {s \in Shares : row[s] = "yes"}
                      /\ accepted = Cardinality(told)
                      /\ accepted + rejected = Cardinality({s \in Shares : verdicts[s] > 0})
    BY DEF LedgersAgree
  <2>1. Counted = {s \in Shares : verdicts[s] = 1}
    BY DEF Counted, Settling
  <2>2. {s \in Shares : verdicts[s] > 0} = Counted
    BY <2>1 DEF FlowInv, FlowTyped
  <2>3. told = {s \in Shares : row[s] = "yes"}
    BY <2>1 DEF CountInv, FlowInv, RowsFit
  <2> QED
    BY <2>2, <2>3 DEF CountInv
<1> QED
  BY <1>1, FlowInvariant, FlowStep, FlowInit, CountInit, CountStep, PTL DEF Spec

(* The total of found shares counts the rows of SQLite, whatever becomes   *)
(* of the submits.                                                         *)
THEOREM TotalIsRowCount == Spec => []TotalCountsRows
<1>1. TotalInv => TotalCountsRows
  <2> SUFFICES ASSUME TotalInv PROVE TotalCountsRows
    OBVIOUS
  <2>1. Holding <=> hand # none
    BY ShareFlowAssumption DEF TotalInv
  <2>2. total + (IF Holding THEN 1 ELSE 0) = Cardinality(Journaled)
    BY DEF TotalInv
  <2> QED
    BY <2>1, <2>2 DEF TotalCountsRows, Journaled
<1> QED
  BY <1>1, FlowInvariant, CountInit, TotalStep, PTL DEF Spec

-----------------------------------------------------------------------------
(* Types *)

Replies == [id : Nat, for : Requests, ok : BOOLEAN]

MineTyped ==
    /\ mineJob \in JobIds \cup {none}
    /\ hand \in IF mine \in {"wait", "drain", "check"} THEN {none} ELSE Shares
    /\ mid \in Nat /\ total \in Nat
    /\ pending \subseteq [id : Nat, share : Shares]
    /\ begun \in [Shares -> 0 .. MaxSessions]
    /\ dropped \subseteq Shares

SessionTyped ==
    /\ sup \in {"down", "reset", "connect", "handshake", "up"}
    /\ stage \in Stages /\ step \in {"build", "transmit", "return", "await"}
    /\ sid \in Nat /\ reqId \in Nat /\ conn \in 0 .. MaxSessions
    /\ submitIds \subseteq Nat
    /\ job \in JobIds \cup {none}

EnFlag == en1 \in BOOLEAN

ReaderTyped ==
    /\ accepted \in Nat /\ rejected \in Nat
    /\ told \subseteq Shares
    /\ msg \in IF rd = "idle" THEN {none} ELSE Replies
    /\ entry \in IF rd \in {"idle", "pop"} THEN {none} ELSE Shares

WireTyped ==
    /\ toPool \subseteq [id : Nat, for : Requests]
    /\ toClient \in Seq(Replies)
    /\ repeats \in 0 .. MaxRepeats

FullyTyped ==
    FlowInv /\ MineTyped /\ SessionTyped /\ EnFlag /\ ReaderTyped /\ WireTyped

LEMMA MineTypedStep == ASSUME FullyTyped, [Next]_vars PROVE MineTyped'
<1> USE ShareFlowAssumption DEF FullyTyped, MineTyped, mineVars, pastVars, supVars
<1>1. CASE StartPool
  BY <1>1 DEF StartPool, SessionTyped
<1>2. CASE Journal
  <2>1. Head(queue) \in Shares
    BY <1>2 DEF Journal, FlowInv, FlowTyped
  <2> QED
    BY <1>2, <2>1 DEF Journal
<1>3. CASE MineBuild
  <2>1. reqId + 1 \in Nat /\ conn \in 0 .. MaxSessions /\ 0 \in 0 .. MaxSessions
    BY DEF SessionTyped
  <2> QED
    BY <1>3, <2>1 DEF MineBuild, NextId
<1>4. CASE MineTransmit
  BY <1>4 DEF MineTransmit
<1>5. CASE MineReturn
  BY <1>5 DEF MineReturn, SessionTyped
<1>6. CASE Track
  BY <1>6 DEF Track
<1>7. CASE Register
  BY <1>7 DEF Register
<1>8. CASE CountFound
  BY <1>8 DEF CountFound
<1>9. CASE Drained
  BY <1>9 DEF Drained
<1>10. CASE CheckJob
  <2>1. Range(queue) \subseteq Shares
    BY DEF FlowInv, FlowTyped, Range
  <2> QED
    BY <1>10, <2>1 DEF CheckJob
<1>11. CASE Pop
  BY <1>11 DEF Pop
<1>12. CASE HandleReply \/ Store \/ CountVerdict
  BY <1>12 DEF HandleReply, Store, CountVerdict, mineSide
<1>13. CASE SupNext \/ Notify \/ SetExtranonce \/ Answer \/ UNCHANGED vars
  BY <1>13 DEF SupNext, ResetId, ResetSession, Connect, HandshakeBuild, HandshakeTransmit,
     HandshakeReturn, HandshakeReply, SessionEnds, Notify, SetExtranonce, Answer, vars,
     poolFrame, mineSide
<1>14. CASE \E s \in Shares : Find(s)
  BY <1>14 DEF Find
<1> QED
  BY <1>1, <1>2, <1>3, <1>4, <1>5, <1>6, <1>7, <1>8, <1>9, <1>10, <1>11, <1>12, <1>13, <1>14
     DEF Next, MineNext, ReadNext

LEMMA SessionTypedStep == ASSUME FullyTyped, [Next]_vars PROVE SessionTyped'
<1> USE DEF SessionTyped, supVars
<1>0. SessionTyped /\ MaxSessions \in Nat
  BY ShareFlowAssumption DEF FullyTyped
<1>1. CASE MineNext \/ (\E s \in Shares : Find(s)) \/ ReadNext \/ Answer \/ UNCHANGED vars
  <2>1. UNCHANGED <<sup, stage, step, sid, conn, job>>
    BY <1>1 DEF MineNext, StartPool, Journal, MineBuild, MineTransmit, MineReturn, Track,
       Register, CountFound, Drained, CheckJob, Find, ReadNext, HandleReply, Pop, Store,
       CountVerdict, Answer, poolFrame, jobVars, vars
  <2>2. reqId' = reqId \/ reqId' = reqId + 1
    <3>1. CASE MineBuild
      BY <3>1 DEF MineBuild, NextId
    <3>2. CASE ~MineBuild
      BY <3>2, <1>1 DEF MineNext, StartPool, Journal, MineTransmit, MineReturn, Track,
         Register, CountFound, Drained, CheckJob, Find, ReadNext, HandleReply, Pop, Store,
         CountVerdict, Answer, poolFrame, vars
    <3> QED
      BY <3>1, <3>2
  <2>3. submitIds' \subseteq submitIds \cup {mid}
    BY <1>1 DEF MineNext, StartPool, Journal, MineBuild, MineTransmit, MineReturn,
       Track, Register, CountFound, Drained, CheckJob, Find, ReadNext, HandleReply, Pop, Store,
       CountVerdict, Answer, poolFrame, vars
  <2>4. mid \in Nat
    BY DEF FullyTyped, MineTyped
  <2>5. reqId' \in Nat
    BY <1>0, <2>2
  <2>6. submitIds' \subseteq Nat
    BY <1>0, <2>3, <2>4
  <2> QED
    BY <1>0, <2>1, <2>5, <2>6
<1>2. CASE ResetId
  BY <1>0, <1>2 DEF ResetId, jobVars
<1>3. CASE ResetSession
  <2>1. /\ submitIds' = {} /\ job' = none /\ sup' \in {"connect", "down"}
        /\ UNCHANGED <<stage, step, sid, conn, reqId>>
    BY <1>3 DEF ResetSession
  <2> QED
    BY <1>0, <2>1
<1>4. CASE Connect
  <2>1. /\ UNCHANGED <<stage, step, sid, reqId, submitIds, job>>
        /\ sup' \in {"handshake", "down"}
        /\ conn' = conn \/ (conn < MaxSessions /\ conn' = conn + 1)
    BY <1>4 DEF Connect, jobVars
  <2>2. conn' \in 0 .. MaxSessions
    BY <1>0, <2>1
  <2> QED
    BY <1>0, <2>1, <2>2
<1>5. CASE HandshakeBuild \/ HandshakeTransmit
  <2>1. /\ UNCHANGED <<sup, stage, conn, submitIds, job>>
        /\ step' \in {"transmit", "return"}
        /\ (reqId' = reqId + 1 /\ sid' = reqId + 1) \/ UNCHANGED <<reqId, sid>>
    BY <1>5 DEF HandshakeBuild, HandshakeTransmit, NextId, jobVars
  <2>2. reqId' \in Nat /\ sid' \in Nat
    BY <1>0, <2>1
  <2> QED
    BY <1>0, <2>1, <2>2
<1>6. CASE HandshakeReturn \/ SessionEnds
  <2>1. /\ UNCHANGED <<conn, reqId, submitIds, job>>
        /\ sup' \in {sup, "up", "down"} /\ stage' \in {stage, "subscribe"}
        /\ step' \in {"build", "await"} /\ sid' \in {reqId, 0}
    BY <1>6 DEF HandshakeReturn, NoHandshake, SessionEnds, jobVars
  <2> QED
    BY <1>0, <2>1 DEF Stages
<1>7. CASE HandshakeReply
  <2>1. /\ UNCHANGED <<conn, reqId, submitIds, job>>
        /\ sup' \in {sup, "up", "down"}
        /\ stage' \in {"authorize", "suggest", "subscribe"}
        /\ step' = "build" /\ sid' \in {sid, 0}
    BY <1>7 DEF HandshakeReply, NoHandshake
  <2> QED
    BY <1>0, <2>1 DEF Stages
<1>8. CASE Notify \/ SetExtranonce
  <2>1. job' \in JobIds \cup {none} /\ UNCHANGED <<sup, stage, step, sid, conn, reqId, submitIds>>
    BY <1>8 DEF Notify, SetExtranonce
  <2> QED
    BY <1>0, <2>1
<1> QED
  BY <1>1, <1>2, <1>3, <1>4, <1>5, <1>6, <1>7, <1>8 DEF Next, SupNext

LEMMA EnFlagStep == ASSUME FullyTyped, [Next]_vars PROVE EnFlag'
<1> USE DEF FullyTyped, EnFlag, jobVars
<1>1. CASE ResetSession \/ HandshakeReply \/ SetExtranonce
  BY <1>1 DEF ResetSession, HandshakeReply, SetExtranonce
<1>2. CASE MineNext \/ (\E s \in Shares : Find(s)) \/ ReadNext \/ Answer \/ UNCHANGED vars
  BY <1>2 DEF MineNext, StartPool, Journal, MineBuild, MineTransmit, MineReturn, Track,
     Register, CountFound, Drained, CheckJob, Find, ReadNext, HandleReply, Pop, Store,
     CountVerdict, Answer, poolFrame, vars
<1>3. CASE ResetId \/ Connect \/ HandshakeBuild \/ HandshakeTransmit \/ HandshakeReturn
           \/ SessionEnds \/ Notify
  BY <1>3 DEF ResetId, Connect, HandshakeBuild, HandshakeTransmit, HandshakeReturn,
     SessionEnds, Notify
<1> QED
  BY <1>1, <1>2, <1>3 DEF Next, SupNext

LEMMA ReaderTypedStep == ASSUME FullyTyped, [Next]_vars PROVE ReaderTyped'
<1> USE ShareFlowAssumption DEF FullyTyped, ReaderTyped, readVars
<1>1. CASE HandleReply
  <2>1. Head(toClient) \in Replies
    BY <1>1 DEF HandleReply, WireTyped
  <2> QED
    BY <1>1, <2>1 DEF HandleReply, CanRead
<1>2. CASE Pop
  BY <1>2 DEF Pop, MineTyped
<1>3. CASE Store
  BY <1>3 DEF Store
<1>4. CASE CountVerdict
  BY <1>4 DEF CountVerdict
<1>5. CASE MineNext \/ (\E s \in Shares : Find(s)) \/ SupNext \/ Notify \/ SetExtranonce
           \/ Answer \/ UNCHANGED vars
  BY <1>5 DEF MineNext, StartPool, Journal, MineBuild, MineTransmit, MineReturn, Track,
     Register, CountFound, Drained, CheckJob, Find, SupNext, ResetId, ResetSession, Connect,
     HandshakeBuild, HandshakeTransmit, HandshakeReturn, HandshakeReply, SessionEnds, Notify,
     SetExtranonce, Answer, poolFrame, vars
<1> QED
  BY <1>1, <1>2, <1>3, <1>4, <1>5 DEF Next, ReadNext

LEMMA WireTypedStep == ASSUME FullyTyped, [Next]_vars PROVE WireTyped'
<1> USE DEF FullyTyped, WireTyped, wireVars
<1>1. CASE MineTransmit
  <2>1. [id |-> mid, for |-> hand] \in [id : Nat, for : Requests]
    BY <1>1 DEF MineTransmit, MineTyped, Requests
  <2> QED
    BY <1>1, <2>1 DEF MineTransmit
<1>2. CASE HandshakeTransmit
  <2>1. [id |-> sid, for |-> stage] \in [id : Nat, for : Requests]
    BY DEF SessionTyped, Requests
  <2> QED
    BY <1>2, <2>1 DEF HandshakeTransmit
<1>3. CASE HandshakeReply \/ SessionEnds \/ HandleReply
  <2>1. /\ toPool' \in {toPool, {}} /\ repeats' = repeats
        /\ toClient' = <<>> \/ (toClient # <<>> /\ toClient' = Tail(toClient))
    BY <1>3 DEF HandshakeReply, SessionEnds, HandleReply, Lose
  <2>2. toClient' \in Seq(Replies)
    <3>1. toClient \in Seq(Replies)
      OBVIOUS
    <3>2. toClient # <<>> => Tail(toClient) \in Seq(Replies)
      BY <3>1, HeadTailProperties
    <3>3. <<>> \in Seq(Replies)
      OBVIOUS
    <3> QED
      BY <2>1, <3>1, <3>2, <3>3
  <2>3. toPool' \subseteq [id : Nat, for : Requests]
    BY <2>1
  <2> QED
    BY <2>1, <2>2, <2>3
<1>4. CASE Answer
  <2>1. PICK r \in toPool, ok \in BOOLEAN :
          /\ toClient' = Append(toClient, [id |-> r.id, for |-> r.for, ok |-> ok])
          /\ toPool' \subseteq toPool
          /\ repeats' = repeats \/ (repeats < MaxRepeats /\ repeats' = repeats + 1)
    BY <1>4 DEF Answer
  <2>2. [id |-> r.id, for |-> r.for, ok |-> ok] \in Replies
    BY DEF Replies
  <2>3. toClient' \in Seq(Replies)
    BY <2>1, <2>2
  <2>4. repeats' \in 0 .. MaxRepeats
    BY <2>1, ShareFlowAssumption
  <2> QED
    BY <2>1, <2>3, <2>4
<1>5. CASE Notify \/ SetExtranonce \/ Pop \/ Store \/ CountVerdict \/ UNCHANGED vars
           \/ \E s \in Shares : Find(s)
  BY <1>5 DEF Notify, SetExtranonce, Pop, Store, CountVerdict, vars, Find
<1>6. CASE StartPool \/ Journal \/ MineBuild \/ MineReturn \/ Track \/ Register \/ CountFound
           \/ Drained \/ CheckJob
  BY <1>6 DEF StartPool, Journal, MineBuild, MineReturn, Track, Register, CountFound, Drained,
     CheckJob
<1>7. CASE ResetId \/ ResetSession \/ Connect \/ HandshakeBuild \/ HandshakeReturn
  BY <1>7 DEF ResetId, ResetSession, Connect, HandshakeBuild, HandshakeReturn
<1> QED
  BY <1>1, <1>2, <1>3, <1>4, <1>5, <1>6, <1>7 DEF Next, MineNext, SupNext, ReadNext

LEMMA TypesInit == Init => FullyTyped
<1> SUFFICES ASSUME Init PROVE FullyTyped
  OBVIOUS
<1>1. MineTyped
  <2>1. 0 \in Nat /\ 0 \in 0 .. MaxSessions
    BY ShareFlowAssumption
  <2> QED
    BY <2>1 DEF Init, MineTyped
<1>2. SessionTyped
  BY ShareFlowAssumption DEF Init, SessionTyped, Stages
<1>3. EnFlag
  BY Zenon DEF Init, EnFlag
<1>4. ReaderTyped
  BY DEF Init, ReaderTyped
<1>5. WireTyped
  BY ShareFlowAssumption DEF Init, WireTyped
<1> QED
  BY FlowInit, <1>1, <1>2, <1>3, <1>4, <1>5 DEF FullyTyped

LEMMA TypesAlways == Spec => []FullyTyped
<1>1. FullyTyped /\ [Next]_vars => FullyTyped'
  BY FlowStep, MineTypedStep, SessionTypedStep, EnFlagStep, ReaderTypedStep, WireTypedStep
     DEF FullyTyped
<1> QED
  BY TypesInit, <1>1, PTL DEF Spec

(* mine() has a share in hand, and the callback a reply and an entry, just *)
(* when they work on one, and every other variable keeps to its type.      *)
THEOREM FlowTypes == Spec => []TypeOK
<1>1. ASSUME FullyTyped PROVE TypeOK
  <2>1. FlowTyped /\ MineTyped /\ SessionTyped /\ EnFlag /\ ReaderTyped /\ WireTyped
    BY <1>1 DEF FullyTyped, FlowInv
  <2>2. verdicts \in [Shares -> Nat]
    <3>1. \A s \in Shares : verdicts[s] \in Nat
      BY <2>1 DEF FlowTyped
    <3> QED
      BY <2>1, <3>1 DEF FlowTyped
  <2> HIDE DEF EnFlag
  <2>3. /\ stage \in Stages /\ sid \in Nat /\ reqId \in Nat /\ conn \in 0 .. MaxSessions
        /\ step \in {"build", "transmit", "return", "await"}
        /\ sup \in {"down", "reset", "connect", "handshake", "up"}
        /\ submitIds \subseteq Nat /\ job \in JobIds \cup {none}
    BY <2>1 DEF SessionTyped
  <2> QED
    BY <2>1, <2>2, <2>3, Zenon
       DEF FlowTyped, MineTyped, EnFlag, ReaderTyped, WireTyped, TypeOK, Replies
<1> QED
  BY <1>1, TypesAlways, PTL

-----------------------------------------------------------------------------
(* Whose verdict it is *)

(* Something holds request id i for the request x: a message on the wire,  *)
(* the callback, mine() while it submits, an entry of _pending_submits, or *)
(* the handshake about to send.                                            *)
Claimed(i, x) ==
    \/ \E m \in toPool : m.id = i /\ m.for = x
    \/ \E k \in 1..Len(toClient) : toClient[k].id = i /\ toClient[k].for = x
    \/ rd # "idle" /\ msg.id = i /\ msg.for = x
    \/ Submitting /\ mine # "build" /\ mid = i /\ hand = x
    \/ \E p \in pending : p.id = i /\ p.share = x
    \/ sup = "handshake" /\ step = "transmit" /\ sid = i /\ stage = x

Alive == sup \in {"handshake", "up"}

(* The request belongs to the connection that is up.                       *)
Current(x) == x \in Shares => begun[x] = conn

IdsAreUnique ==
    Alive => \A i, j \in Nat, x, y \in Requests :
                 Claimed(i, x) /\ Claimed(j, y) /\ Current(x) /\ Current(y)
                 => i <= reqId /\ (i = j => x = y)

NewIsUnclaimed ==
    \A s \in Shares : row[s] = "absent" \/ (mine = "build" /\ hand = s) =>
        \A i \in Nat : ~Claimed(i, s)

SessionFits ==
    /\ ~Alive => toPool = {} /\ toClient = <<>>
    /\ rd # "idle" => sup = "up" \/ (sup = "handshake" /\ step = "await")
    /\ sup # "handshake" => step = "build"
    /\ Alive => conn > 0

BegunFits ==
    \A s \in Shares : begun[s] <= conn /\ (sup = "handshake" => begun[s] < conn)

MidIsLast ==
    sup = "up" /\ mine \in {"transmit", "return"} /\ begun[hand] = conn => mid = reqId

OwnInv ==
    IdsAreUnique /\ NewIsUnclaimed /\ SessionFits /\ BegunFits /\ MidIsLast
    /\ OwnVerdictInSession

ownVars ==
    <<toPool, toClient, rd, msg, entry, mine, mid, hand, pending, sup, step, sid, stage,
      begun, conn, reqId, row>>

LEMMA OwnFrame == ASSUME OwnInv, UNCHANGED ownVars PROVE OwnInv'
BY DEF OwnInv, IdsAreUnique, NewIsUnclaimed, SessionFits, BegunFits, MidIsLast,
       OwnVerdictInSession, ownVars, Claimed, Alive, Current, Submitting

(* The steps that make no claim, in a session that was there before.       *)
LEMMA ClaimsShrink ==
    ASSUME OwnInv,
           UNCHANGED <<reqId, conn, begun>>,
           \A i \in Nat, x \in Requests : Claimed(i, x)' => Claimed(i, x),
           \A s \in Shares : row'[s] = "absent" => row[s] = "absent",
           mine' = "build" =>
               /\ hand' \in Shares
               /\ row[hand'] = "absent" \/ (mine = "build" /\ hand' = hand),
           rd' = "store" => rd = "store" /\ UNCHANGED <<msg, entry>>,
           Alive' => Alive,
           sup' = "handshake" => sup = "handshake",
           SessionFits', MidIsLast'
    PROVE  OwnInv'
<1>1. IdsAreUnique'
  BY DEF OwnInv, IdsAreUnique, Current
<1>2. NewIsUnclaimed'
  <2>1. Shares \subseteq Requests
    BY DEF Requests
  <2> QED
    BY <2>1 DEF OwnInv, NewIsUnclaimed
<1>3. BegunFits'
  BY DEF OwnInv, BegunFits
<1>4. OwnVerdictInSession'
  BY DEF OwnInv, OwnVerdictInSession
<1> QED
  BY <1>1, <1>2, <1>3, <1>4 DEF OwnInv

-----------------------------------------------------------------------------
(* mine() *)

LEMMA OwnMine ==
    ASSUME FullyTyped, OwnInv,
           StartPool \/ Journal \/ MineTransmit \/ Track \/ Register \/ CountFound
               \/ Drained \/ CheckJob
    PROVE  OwnInv'
<1> DEFINE Fixed == UNCHANGED <<reqId, conn, begun, toClient, rd, msg, entry, sup, step, sid,
                                stage>>
<1>0. Fixed
  BY DEF StartPool, Journal, MineTransmit, Track, Register, CountFound, Drained, CheckJob,
     supVars, readVars, wireVars, pastVars
<1>1. SessionFits'
  <2>1. toPool' = toPool \/ Alive
    BY DEF StartPool, Journal, MineTransmit, Track, Register, CountFound, Drained, CheckJob,
       wireVars, Alive
  <2> QED
    BY <1>0, <2>1 DEF OwnInv, SessionFits, Alive
<1>2. /\ \A i \in Nat, x \in Requests : Claimed(i, x)' => Claimed(i, x)
      /\ \A s \in Shares : row'[s] = "absent" => row[s] = "absent"
      /\ mine' = "build" => hand' \in Shares /\ row[hand'] = "absent"
      /\ MidIsLast'
  <2>1. CASE StartPool
    BY <1>0, <2>1 DEF StartPool, Claimed, Submitting, MidIsLast, wireVars
  <2>2. CASE Journal
    <3>1. Head(queue) \in Shares /\ row[Head(queue)] = "absent"
      BY <2>2, TailOfNew DEF Journal, FullyTyped, FlowInv, FlowTyped, QueueIsNew
    <3>2. \A s \in Shares : row'[s] = "absent" => row[s] = "absent"
      BY <2>2, <3>1 DEF Journal, FullyTyped, FlowInv, FlowTyped
    <3> QED
      BY <1>0, <2>2, <3>1, <3>2 DEF Journal, Claimed, Submitting, MidIsLast, wireVars
  <2>3. CASE MineTransmit
    <3>1. /\ mine = "transmit" /\ mine' \in {"return", "count"}
          /\ UNCHANGED <<hand, mid, pending, row>>
          /\ toPool' = toPool \/ toPool' = toPool \cup {[id |-> mid, for |-> hand]}
      BY <2>3 DEF MineTransmit
    <3>2. \A i \in Nat, x \in Requests : Claimed(i, x)' => Claimed(i, x)
      <4>1. \A m \in toPool' : m \in toPool \/ (m.id = mid /\ m.for = hand)
        BY <3>1
      <4> QED
        BY <1>0, <3>1, <4>1 DEF Claimed, Submitting
    <3> QED
      BY <1>0, <3>1, <3>2 DEF OwnInv, MidIsLast
  <2>4. CASE Track
    BY <1>0, <2>4 DEF Track, Claimed, Submitting, MidIsLast, wireVars
  <2>5. CASE Register
    BY <1>0, <2>5 DEF Register, Claimed, Submitting, MidIsLast, wireVars
  <2>6. CASE CountFound
    BY <1>0, <2>6 DEF CountFound, Claimed, Submitting, MidIsLast, wireVars
  <2>7. CASE Drained
    BY <1>0, <2>7 DEF Drained, Claimed, Submitting, MidIsLast, wireVars
  <2>8. CASE CheckJob
    BY <1>0, <2>8 DEF CheckJob, Claimed, Submitting, MidIsLast, wireVars
  <2> QED
    BY <2>1, <2>2, <2>3, <2>4, <2>5, <2>6, <2>7, <2>8
<1> QED
  BY <1>0, <1>1, <1>2, ClaimsShrink DEF Alive

LEMMA OwnMineBuild ==
    ASSUME FullyTyped, OwnInv, MineBuild
    PROVE  OwnInv'
<1>1. /\ mine = "build" /\ mine' = "transmit"
      /\ reqId' = reqId + 1 /\ mid' = reqId + 1
      /\ begun' = [begun EXCEPT ![hand] = IF sup = "up" THEN conn ELSE 0]
      /\ UNCHANGED <<hand, conn, toPool, toClient, rd, msg, entry, sup, step, sid, stage,
                     pending, row>>
  BY DEF MineBuild, NextId, supVars, readVars, wireVars
<1>2. /\ hand \in Shares /\ row[hand] = "no"
      /\ rd = "store" => entry \in Shares /\ entry # hand
      /\ reqId \in Nat /\ conn \in Nat
      /\ begun \in [Shares -> 0 .. MaxSessions]
  BY <1>1, ShareFlowAssumption
     DEF FullyTyped, FlowInv, FlowTyped, HandIsUnsettled, Submitting, Unsettled, SessionTyped,
         MineTyped
<1>3. /\ \A s \in Shares : s # hand => begun'[s] = begun[s]
      /\ begun'[hand] = (IF sup = "up" THEN conn ELSE 0)
  BY <1>1, <1>2
<1>4. \A i \in Nat : ~Claimed(i, hand)
  BY <1>1, <1>2 DEF OwnInv, NewIsUnclaimed
<1>5. \A i \in Nat, x \in Requests : Claimed(i, x)' =>
          Claimed(i, x) \/ (i = reqId + 1 /\ x = hand)
  BY <1>1 DEF Claimed, Submitting
<1>6. IdsAreUnique'
  <2> SUFFICES ASSUME Alive', NEW i \in Nat, NEW j \in Nat, NEW x \in Requests,
                      NEW y \in Requests, Claimed(i, x)', Claimed(j, y)',
                      Current(x)', Current(y)'
               PROVE  i <= reqId' /\ (i = j => x = y)
    BY DEF IdsAreUnique
  <2>1. Alive
    BY <1>1 DEF Alive
  <2>2. \A z \in Requests : z # hand /\ Current(z)' => Current(z)
    BY <1>1, <1>3 DEF Current
  <2>3. x # hand => Claimed(i, x) /\ Current(x)
    BY <1>5, <2>2
  <2>4. y # hand => Claimed(j, y) /\ Current(y)
    BY <1>5, <2>2
  <2>5. x = hand => i = reqId + 1
    BY <1>4, <1>5
  <2>6. y = hand => j = reqId + 1
    BY <1>4, <1>5
  <2>7. x # hand => i <= reqId
    BY <2>1, <2>3 DEF OwnInv, IdsAreUnique
  <2>8. y # hand => j <= reqId
    BY <2>1, <2>4 DEF OwnInv, IdsAreUnique
  <2>9. x # hand /\ y # hand => (i = j => x = y)
    BY <2>1, <2>3, <2>4 DEF OwnInv, IdsAreUnique
  <2> QED
    BY <1>1, <1>2, <2>5, <2>6, <2>7, <2>8, <2>9
<1>7. NewIsUnclaimed'
  <2>1. Shares \subseteq Requests
    BY DEF Requests
  <2> QED
    BY <1>1, <1>2, <1>5, <2>1 DEF OwnInv, NewIsUnclaimed
<1>8. SessionFits'
  BY <1>1 DEF OwnInv, SessionFits, Alive
<1>9. BegunFits'
  BY <1>1, <1>2, <1>3 DEF OwnInv, BegunFits, SessionFits, Alive
<1>10. MidIsLast'
  BY <1>1 DEF MidIsLast
<1>11. OwnVerdictInSession'
  <2>1. rd = "store" => msg.for # hand /\ msg.for \in Requests
    <3>1. rd = "store" => msg.id \in Nat /\ msg.for \in Requests
      BY DEF FullyTyped, ReaderTyped, Replies
    <3> QED
      BY <1>4, <3>1 DEF Claimed
  <2> QED
    BY <1>1, <1>2, <1>3, <2>1 DEF OwnInv, OwnVerdictInSession
<1> QED
  BY <1>6, <1>7, <1>8, <1>9, <1>10, <1>11 DEF OwnInv

LEMMA OwnMineReturn ==
    ASSUME FullyTyped, OwnInv, MineReturn
    PROVE  OwnInv'
<1>1. /\ mine = "return" /\ mine' = "track" /\ mid' = reqId
      /\ UNCHANGED <<hand, conn, reqId, begun, toPool, toClient, rd, msg, entry, sup, step, sid,
                     stage, pending, row>>
  BY DEF MineReturn, supVars, readVars, wireVars, pastVars
<1>2. hand \in Shares /\ row[hand] = "no"
  BY <1>1 DEF FullyTyped, FlowInv, FlowTyped, HandIsUnsettled, Submitting, Unsettled
<1>3. \A i \in Nat, x \in Requests : Claimed(i, x)' =>
          Claimed(i, x) \/ (i = reqId /\ x = hand)
  BY <1>1 DEF Claimed, Submitting
<1>4. Alive /\ Current(hand) => Claimed(reqId, hand)
  <2>1. Alive /\ Current(hand) => sup = "up" /\ begun[hand] = conn
    BY <1>2 DEF OwnInv, BegunFits, Alive, Current, FullyTyped, SessionTyped, MineTyped
  <2>2. Alive /\ Current(hand) => mid = reqId
    BY <1>1, <2>1 DEF OwnInv, MidIsLast
  <2> QED
    BY <1>1, <2>2 DEF Claimed, Submitting
<1>5. IdsAreUnique'
  <2>1. \A i \in Nat, x \in Requests :
            Alive' /\ Claimed(i, x)' /\ Current(x)' => Claimed(i, x) /\ Current(x) /\ Alive
    BY <1>1, <1>3, <1>4 DEF Current, Alive
  <2> QED
    BY <1>1, <2>1 DEF OwnInv, IdsAreUnique
<1>6. NewIsUnclaimed'
  <2>1. Shares \subseteq Requests
    BY DEF Requests
  <2> QED
    BY <1>1, <1>2, <1>3, <2>1 DEF OwnInv, NewIsUnclaimed
<1>7. SessionFits' /\ BegunFits'
  BY <1>1 DEF OwnInv, SessionFits, BegunFits, Alive
<1>8. MidIsLast' /\ OwnVerdictInSession'
  BY <1>1 DEF OwnInv, MidIsLast, OwnVerdictInSession
<1> QED
  BY <1>5, <1>6, <1>7, <1>8 DEF OwnInv

-----------------------------------------------------------------------------
(* The supervisor *)

LEMMA OwnReset ==
    ASSUME FullyTyped, OwnInv, ResetId \/ ResetSession \/ SessionEnds
    PROVE  OwnInv'
<1>1. /\ ~Alive' /\ step' = "build" /\ rd = "idle" /\ toPool' = {} /\ toClient' = <<>>
      /\ sup' # "handshake" /\ sup' # "up"
      /\ UNCHANGED <<conn, begun, rd, msg, entry, mine, mid, hand, pending, row>>
  <2>1. CASE ResetId
    BY <2>1 DEF ResetId, OwnInv, SessionFits, Alive, mineSide, mineVars, pastVars, readVars,
       wireVars
  <2>2. CASE ResetSession
    BY <2>2 DEF ResetSession, OwnInv, SessionFits, Alive, mineSide, mineVars, pastVars,
       readVars, wireVars
  <2>3. CASE SessionEnds
    <3>1. rd = "idle"
      BY <2>3 DEF SessionEnds, CanRead, OwnInv, SessionFits
    <3> QED
      BY <2>3, <3>1 DEF SessionEnds, Lose, NoHandshake, Alive, mineSide, mineVars, pastVars,
         readVars
  <2> QED
    BY <2>1, <2>2, <2>3
<1>2. \A i \in Nat, x \in Requests : Claimed(i, x)' => Claimed(i, x)
  BY <1>1 DEF Claimed, Submitting
<1>3. IdsAreUnique' /\ SessionFits' /\ MidIsLast'
  BY <1>1 DEF IdsAreUnique, SessionFits, MidIsLast, Alive
<1>4. NewIsUnclaimed'
  <2>1. Shares \subseteq Requests
    BY DEF Requests
  <2> QED
    BY <1>1, <1>2, <2>1 DEF OwnInv, NewIsUnclaimed
<1>5. BegunFits' /\ OwnVerdictInSession'
  BY <1>1 DEF OwnInv, BegunFits, OwnVerdictInSession
<1> QED
  BY <1>3, <1>4, <1>5 DEF OwnInv

(* No share belongs to a connection that is new.                           *)
LEMMA OwnConnect ==
    ASSUME FullyTyped, OwnInv, Connect
    PROVE  OwnInv'
<1>1. /\ sup = "connect"
      /\ UNCHANGED <<reqId, step, sid, stage, toPool, toClient, begun, rd, msg, entry, mine, mid,
                     hand, pending, row>>
      /\ \/ conn' = conn + 1 /\ sup' = "handshake"
         \/ conn' = conn /\ sup' = "down"
  BY DEF Connect, mineSide, mineVars, pastVars, readVars, wireVars
<1>2. rd = "idle" /\ toPool = {} /\ toClient = <<>> /\ step = "build"
  BY <1>1 DEF OwnInv, SessionFits, Alive
<1>3. conn \in Nat /\ \A s \in Shares : begun[s] \in Nat /\ begun[s] <= conn
  BY ShareFlowAssumption DEF FullyTyped, SessionTyped, MineTyped, OwnInv, BegunFits
<1>4. \A i \in Nat, x \in Requests : Claimed(i, x)' => Claimed(i, x) /\ x \in Shares
  <2>1. Submitting => hand \in Shares
    BY DEF FullyTyped, FlowInv, FlowTyped
  <2>2. \A p \in pending : p.share \in Shares
    BY DEF FullyTyped, FlowInv, FlowTyped
  <2> QED
    BY <1>1, <1>2, <2>1, <2>2 DEF Claimed, Submitting
<1>5. IdsAreUnique'
  BY <1>1, <1>3, <1>4 DEF IdsAreUnique, Current, Alive
<1>6. NewIsUnclaimed'
  <2>1. Shares \subseteq Requests
    BY DEF Requests
  <2> QED
    BY <1>1, <1>4, <2>1 DEF OwnInv, NewIsUnclaimed
<1>7. SessionFits' /\ BegunFits'
  BY <1>1, <1>2, <1>3 DEF SessionFits, BegunFits, Alive
<1>8. MidIsLast' /\ OwnVerdictInSession'
  BY <1>1, <1>2 DEF MidIsLast, OwnVerdictInSession
<1> QED
  BY <1>5, <1>6, <1>7, <1>8 DEF OwnInv

LEMMA OwnHandshakeBuild ==
    ASSUME FullyTyped, OwnInv, HandshakeBuild
    PROVE  OwnInv'
<1>1. /\ sup = "handshake" /\ step' = "transmit"
      /\ reqId' = reqId + 1 /\ sid' = reqId + 1
      /\ step = "build"
      /\ UNCHANGED <<sup, stage, conn, toPool, toClient, begun, rd, msg, entry, mine, mid,
                     hand, pending, row>>
  BY DEF HandshakeBuild, NextId, mineSide, mineVars, pastVars, readVars, wireVars
<1>2. reqId \in Nat /\ stage \in Stages /\ rd = "idle"
  BY <1>1 DEF FullyTyped, SessionTyped, OwnInv, SessionFits
<1>3. \A i \in Nat, x \in Requests : Claimed(i, x)' =>
          Claimed(i, x) \/ (i = reqId + 1 /\ x = stage)
  BY <1>1, <1>2 DEF Claimed, Submitting
<1>4. IdsAreUnique'
  <2>1. \A i \in Nat, x \in Requests : Claimed(i, x)' /\ Current(x)' =>
            (Claimed(i, x) /\ Current(x) /\ i <= reqId) \/ (i = reqId + 1 /\ x = stage)
    BY <1>1, <1>3 DEF OwnInv, IdsAreUnique, Current, Alive
  <2>2. \A i, j \in Nat, x, y \in Requests :
            Claimed(i, x) /\ Claimed(j, y) /\ Current(x) /\ Current(y) /\ i = j => x = y
    BY <1>1 DEF OwnInv, IdsAreUnique, Alive
  <2> QED
    BY <1>1, <1>2, <2>1, <2>2 DEF IdsAreUnique
<1>5. NewIsUnclaimed'
  <2>1. Shares \subseteq Requests /\ stage \notin Shares
    BY <1>2, ShareFlowAssumption DEF Requests
  <2> QED
    BY <1>1, <1>3, <2>1 DEF OwnInv, NewIsUnclaimed
<1>6. SessionFits' /\ BegunFits' /\ MidIsLast' /\ OwnVerdictInSession'
  BY <1>1, <1>2 DEF OwnInv, SessionFits, BegunFits, MidIsLast, OwnVerdictInSession, Alive
<1> QED
  BY <1>4, <1>5, <1>6 DEF OwnInv

LEMMA OwnHandshake ==
    ASSUME FullyTyped, OwnInv, HandshakeTransmit \/ HandshakeReturn
    PROVE  OwnInv'
<1>1. /\ sup = "handshake" /\ rd = "idle" /\ step \in {"transmit", "return"}
      /\ UNCHANGED <<reqId, conn, toClient, begun, rd, msg, entry, mine, mid, hand, pending, row>>
      /\ sup' \in {"handshake", "up"} /\ step' # "transmit"
      /\ sup' = "up" => step' = "build"
  BY DEF HandshakeTransmit, HandshakeReturn, NoHandshake, OwnInv, SessionFits, mineSide,
     mineVars, pastVars, readVars, wireVars
<1>2. \A m \in toPool' : m \in toPool
          \/ (step = "transmit" /\ m.id = sid /\ m.for = stage)
  BY <1>1 DEF HandshakeTransmit, HandshakeReturn, wireVars
<1>3. \A i \in Nat, x \in Requests : Claimed(i, x)' => Claimed(i, x)
  BY <1>1, <1>2 DEF Claimed, Submitting
<1>4. SessionFits'
  BY <1>1 DEF OwnInv, SessionFits, Alive
<1>5. MidIsLast'
  <2>1. mine \in {"transmit", "return"} => begun[hand] # conn
    <3>1. mine \in {"transmit", "return"} => hand \in Shares
      BY DEF FullyTyped, MineTyped
    <3> QED
      BY <1>1, <3>1, ShareFlowAssumption
         DEF OwnInv, BegunFits, FullyTyped, SessionTyped, MineTyped
  <2> QED
    BY <1>1, <2>1 DEF MidIsLast
<1>6. mine' = "build" => hand' \in Shares
  BY <1>1 DEF FullyTyped, MineTyped
<1> QED
  BY <1>1, <1>3, <1>4, <1>5, <1>6, ClaimsShrink DEF Alive

LEMMA OwnHandshakeReply ==
    ASSUME FullyTyped, OwnInv, HandshakeReply
    PROVE  OwnInv'
<1>1. /\ sup = "handshake" /\ rd = "idle" /\ step = "await" /\ step' = "build"
      /\ UNCHANGED <<reqId, conn, begun, rd, msg, entry, mine, mid, hand, pending, row>>
      /\ \/ /\ toClient # <<>> /\ toClient' = Tail(toClient) /\ toPool' = toPool
            /\ sup' \in {"handshake", "up"}
         \/ toPool' = {} /\ toClient' = <<>> /\ sup' = "down"
  BY DEF HandshakeReply, NoHandshake, Awaited, CanRead, Lose, OwnInv, SessionFits, mineSide,
     mineVars, pastVars, readVars
<1>2. \A k \in 1..Len(toClient') : \E l \in 1..Len(toClient) : toClient'[k] = toClient[l]
  <2>1. toClient \in Seq(Replies)
    BY DEF FullyTyped, WireTyped
  <2> QED
    BY <1>1, <2>1
<1>3. \A i \in Nat, x \in Requests : Claimed(i, x)' => Claimed(i, x)
  <2>1. toPool' \subseteq toPool
    BY <1>1
  <2> QED
    BY <1>1, <1>2, <2>1 DEF Claimed, Submitting
<1>4. SessionFits'
  BY <1>1 DEF OwnInv, SessionFits, Alive
<1>5. MidIsLast'
  <2>1. mine \in {"transmit", "return"} => begun[hand] # conn
    <3>1. mine \in {"transmit", "return"} => hand \in Shares
      BY DEF FullyTyped, MineTyped
    <3> QED
      BY <1>1, <3>1, ShareFlowAssumption
         DEF OwnInv, BegunFits, FullyTyped, SessionTyped, MineTyped
  <2> QED
    BY <1>1, <2>1 DEF MidIsLast
<1>6. mine' = "build" => hand' \in Shares
  BY <1>1 DEF FullyTyped, MineTyped
<1> QED
  BY <1>1, <1>3, <1>4, <1>5, <1>6, ClaimsShrink DEF Alive

-----------------------------------------------------------------------------
(* The callback and the pool *)

LEMMA OwnHandleReply ==
    ASSUME FullyTyped, OwnInv, HandleReply
    PROVE  OwnInv'
<1> DEFINE m == Head(toClient)
<1>1. /\ CanRead /\ toClient # <<>> /\ toClient' = Tail(toClient)
      /\ (rd' = "pop" /\ msg' = m) \/ UNCHANGED <<rd, msg>>
      /\ UNCHANGED <<reqId, conn, begun, entry, mine, mid, hand, pending, row, toPool, sup, step,
                     sid, stage>>
  BY DEF HandleReply, mineSide, mineVars, pastVars, supVars
<1>2. /\ \A k \in 1..Len(toClient') : \E l \in 1..Len(toClient) : toClient'[k] = toClient[l]
      /\ m = toClient[1] /\ 1 \in 1..Len(toClient)
  <2>1. toClient \in Seq(Replies)
    BY DEF FullyTyped, WireTyped
  <2> QED
    BY <1>1, <2>1
<1> HIDE DEF m
<1>3. \A i \in Nat, x \in Requests : Claimed(i, x)' => Claimed(i, x)
  BY <1>1, <1>2 DEF Claimed, Submitting
<1>4. SessionFits' /\ MidIsLast'
  BY <1>1 DEF OwnInv, SessionFits, MidIsLast, Alive, CanRead
<1>5. mine' = "build" => hand' \in Shares
  BY <1>1 DEF FullyTyped, MineTyped
<1>6. Alive' = Alive /\ rd' # "store"
  BY <1>1 DEF Alive, CanRead
<1> QED
  BY <1>1, <1>3, <1>4, <1>5, <1>6, ClaimsShrink

(* The entry popped has the id of the reply: in the session both belong to *)
(* they are the same submit's.                                             *)
LEMMA OwnPop ==
    ASSUME FullyTyped, OwnInv, Pop
    PROVE  OwnInv'
<1>1. /\ rd = "pop" /\ rd' \in {"store", "idle"} /\ pending' \subseteq pending
      /\ rd' = "store" => /\ msg' = msg
                          /\ \E p \in pending : p.id = msg.id /\ entry' = p.share
      /\ UNCHANGED <<reqId, conn, begun, mine, mid, hand, row, toPool, toClient, sup, step,
                     sid, stage>>
  BY DEF Pop, mineVars, pastVars, supVars, wireVars
<1>2. msg.id \in Nat /\ msg.for \in Requests /\ Alive
  BY <1>1 DEF FullyTyped, ReaderTyped, Replies, OwnInv, SessionFits, Alive
<1>3. \A i \in Nat, x \in Requests : Claimed(i, x)' => Claimed(i, x)
  BY <1>1 DEF Claimed, Submitting
<1>4. OwnVerdictInSession'
  <2> SUFFICES ASSUME rd' = "store", begun[entry'] = conn,
                      ~(msg.for \in Shares /\ begun[msg.for] # conn)
               PROVE  msg.for = entry'
    BY <1>1 DEF OwnVerdictInSession
  <2>1. PICK p \in pending : p.id = msg.id /\ entry' = p.share
    BY <1>1
  <2>2. p.share \in Shares /\ p.share \in Requests
    BY DEF FullyTyped, FlowInv, FlowTyped, Requests
  <2>3. Claimed(msg.id, msg.for) /\ Claimed(msg.id, p.share)
    BY <1>1, <2>1 DEF Claimed
  <2>4. Current(msg.for) /\ Current(p.share)
    BY <2>1 DEF Current
  <2> QED
    BY <1>2, <2>1, <2>2, <2>3, <2>4 DEF OwnInv, IdsAreUnique
<1>5. IdsAreUnique'
  BY <1>1, <1>3 DEF OwnInv, IdsAreUnique, Current, Alive
<1>6. NewIsUnclaimed'
  <2>1. Shares \subseteq Requests
    BY DEF Requests
  <2> QED
    BY <1>1, <1>3, <2>1 DEF OwnInv, NewIsUnclaimed
<1>7. SessionFits' /\ BegunFits' /\ MidIsLast'
  BY <1>1 DEF OwnInv, SessionFits, BegunFits, MidIsLast, Alive
<1> QED
  BY <1>4, <1>5, <1>6, <1>7 DEF OwnInv

LEMMA OwnVerdict ==
    ASSUME FullyTyped, OwnInv, Store \/ CountVerdict
    PROVE  OwnInv'
<1>1. /\ rd \in {"store", "count"} /\ rd' \in {"count", "idle"}
      /\ rd' # "idle" => msg' = msg
      /\ UNCHANGED <<reqId, conn, begun, mine, mid, hand, pending, toPool, toClient, sup, step,
                     sid, stage>>
  BY DEF Store, CountVerdict, mineVars, pastVars, supVars, wireVars
<1>2. \A s \in Shares : row'[s] = "absent" => row[s] = "absent"
  <2>1. CASE Store
    <3>1. entry \in Shares /\ row \in [Shares -> {"absent", "no", "yes"}]
      BY <2>1 DEF Store, FullyTyped, FlowInv, FlowTyped
    <3> QED
      BY <2>1, <3>1 DEF Store
  <2>2. CASE CountVerdict
    BY <2>2 DEF CountVerdict
  <2> QED
    BY <2>1, <2>2
<1>3. \A i \in Nat, x \in Requests : Claimed(i, x)' => Claimed(i, x)
  BY <1>1 DEF Claimed, Submitting
<1>4. SessionFits' /\ MidIsLast'
  BY <1>1 DEF OwnInv, SessionFits, MidIsLast, Alive
<1>5. mine' = "build" => hand' \in Shares
  BY <1>1 DEF FullyTyped, MineTyped
<1>6. Alive' = Alive
  BY <1>1 DEF Alive
<1> QED
  BY <1>1, <1>2, <1>3, <1>4, <1>5, <1>6, ClaimsShrink

LEMMA OwnAnswer ==
    ASSUME FullyTyped, OwnInv, Answer
    PROVE  OwnInv'
<1>1. PICK r \in toPool, ok \in BOOLEAN :
          /\ toClient' = Append(toClient, [id |-> r.id, for |-> r.for, ok |-> ok])
          /\ toPool' \subseteq toPool
          /\ UNCHANGED <<reqId, conn, begun, rd, msg, entry, mine, mid, hand, pending, row, sup,
                         step, sid, stage>>
  BY DEF Answer, poolFrame, mineSide, mineVars, pastVars, supVars, readVars
<1>2. \A k \in 1..Len(toClient') :
          \/ k \in 1..Len(toClient) /\ toClient'[k] = toClient[k]
          \/ toClient'[k].id = r.id /\ toClient'[k].for = r.for
  <2>1. toClient \in Seq(Replies)
    BY DEF FullyTyped, WireTyped
  <2> QED
    BY <1>1, <2>1
<1>3. \A i \in Nat, x \in Requests : Claimed(i, x)' => Claimed(i, x)
  BY <1>1, <1>2 DEF Claimed, Submitting
<1>4. SessionFits' /\ MidIsLast'
  BY <1>1 DEF OwnInv, SessionFits, MidIsLast, Alive
<1>5. mine' = "build" => hand' \in Shares
  BY <1>1 DEF FullyTyped, MineTyped
<1>6. Alive' = Alive
  BY <1>1 DEF Alive
<1> QED
  BY <1>1, <1>3, <1>4, <1>5, <1>6, ClaimsShrink

-----------------------------------------------------------------------------
LEMMA OwnStep == ASSUME FullyTyped, OwnInv, [Next]_vars PROVE OwnInv'
<1>1. CASE MineNext
  BY <1>1, OwnMine, OwnMineBuild, OwnMineReturn DEF MineNext
<1>2. CASE SupNext
  BY <1>2, OwnReset, OwnConnect, OwnHandshakeBuild, OwnHandshake, OwnHandshakeReply DEF SupNext
<1>3. CASE ReadNext
  BY <1>3, OwnHandleReply, OwnPop, OwnVerdict DEF ReadNext
<1>4. CASE (\E s \in Shares : Find(s)) \/ Notify \/ SetExtranonce \/ UNCHANGED vars
  <2>1. UNCHANGED ownVars
    BY <1>4 DEF ownVars, Find, Notify, SetExtranonce, vars, mineVars, supVars, readVars,
       wireVars, pastVars, mineSide
  <2> QED
    BY <2>1, OwnFrame
<1> QED
  BY <1>1, <1>2, <1>3, <1>4, OwnAnswer DEF Next

LEMMA OwnInit == Init => OwnInv
<1> SUFFICES ASSUME Init PROVE OwnInv
  OBVIOUS
<1>1. \A i, x : ~Claimed(i, x)
  BY DEF Init, Claimed, Submitting
<1>2. IdsAreUnique /\ NewIsUnclaimed
  BY <1>1 DEF IdsAreUnique, NewIsUnclaimed
<1>3. SessionFits /\ BegunFits /\ MidIsLast /\ OwnVerdictInSession
  BY DEF Init, SessionFits, BegunFits, MidIsLast, OwnVerdictInSession, Alive
<1> QED
  BY <1>2, <1>3 DEF OwnInv

(* A share whose submit began on the connection that is up is settled by   *)
(* the reply to itself: the ids of one session never collide, although     *)
(* _send reads req_id again after the send, although a reconnect starts    *)
(* them from 1 while older entries of _pending_submits are still there,    *)
(* and in whatever order the replies come.                                 *)
THEOREM OwnVerdictHolds == Spec => []OwnVerdictInSession
<1>1. OwnInv => OwnVerdictInSession
  BY DEF OwnInv
<1> QED
  BY <1>1, OwnInit, OwnStep, TypesAlways, PTL DEF Spec
=============================================================================
