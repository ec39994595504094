-------------------------- MODULE WorkerPoolProofs --------------------------
(***************************************************************************)
(* The worker pool for every number of workers, every nonce space, tick    *)
(* length, queue and drain limit: the ranges partition the nonce space,    *)
(* the shared counter loses and doubles no hash, a stop is noticed within  *)
(* a tick, and mine() waits for no lock of a process that died.            *)
(***************************************************************************)
EXTENDS WorkerPool, FiniteSetTheorems, TLAPS

USE WorkerPoolAssumption

-----------------------------------------------------------------------------
(* Arithmetic *)

LEMMA QuotientFits ==
    ASSUME NEW a \in Nat, NEW b \in Nat \ {0}
    PROVE  a \div b \in Nat /\ b * (a \div b) <= a
OBVIOUS

LEMMA ProductMonotone ==
    ASSUME NEW a \in Nat, NEW b \in Nat, NEW c \in Nat, a <= b
    PROVE  a * c \in Nat /\ b * c \in Nat /\ a * c <= b * c
OBVIOUS

LEMMA NextMultiple ==
    ASSUME NEW a \in Nat, NEW c \in Nat
    PROVE  (a + 1) * c = a * c + c
OBVIOUS

-----------------------------------------------------------------------------
(* The ranges *)

LEMMA StepFits == Step \in Nat /\ NWorkers * Step <= NonceSpace
BY QuotientFits DEF Step

LEMMA RangeBounds ==
    ASSUME NEW i \in Workers
    PROVE  /\ StartOf(i) \in Nat /\ EndOf(i) \in Nat
           /\ StartOf(i) <= EndOf(i) /\ EndOf(i) <= NonceSpace
<1>1. i \in Nat /\ i + 1 \in Nat /\ i + 1 <= NWorkers
  BY DEF Workers
<1>2. /\ i * Step \in Nat /\ (i + 1) * Step \in Nat
      /\ i * Step <= (i + 1) * Step /\ (i + 1) * Step <= NWorkers * Step
  BY <1>1, StepFits, ProductMonotone
<1>3. (i + 1) * Step <= NonceSpace /\ i * Step <= NonceSpace
  <2>1. NWorkers * Step \in Nat
    BY StepFits, ProductMonotone
  <2> QED
    BY <1>2, <2>1, StepFits
<1>4. CASE i = NWorkers - 1
  BY <1>2, <1>3, <1>4 DEF StartOf, EndOf
<1>5. CASE i # NWorkers - 1
  BY <1>2, <1>3, <1>5 DEF StartOf, EndOf
<1> QED
  BY <1>4, <1>5

LEMMA RangesInOrder ==
    ASSUME NEW i \in Workers, NEW j \in Workers, i < j
    PROVE  EndOf(i) <= StartOf(j)
<1>1. i + 1 \in Nat /\ j \in Nat /\ i + 1 <= j /\ i # NWorkers - 1
  BY DEF Workers
<1>2. (i + 1) * Step <= j * Step
  BY <1>1, StepFits, ProductMonotone
<1> QED
  BY <1>1, <1>2 DEF StartOf, EndOf

LEMMA RangesCover ==
    ASSUME NEW x \in Nonces
    PROVE  \E i \in Workers : x \in StartOf(i) .. EndOf(i) - 1
<1> DEFINE last == NWorkers - 1
<1>1. last \in Workers /\ last \in Nat /\ EndOf(last) = NonceSpace /\ x \in Nat /\ x < NonceSpace
  BY DEF Workers, Nonces, EndOf
<1>2. StartOf(last) \in Nat /\ StartOf(last) = last * Step
  BY <1>1, RangeBounds DEF StartOf
<1> HIDE DEF last
<1>3. CASE StartOf(last) <= x
  BY <1>1, <1>2, <1>3
<1>4. CASE x < StartOf(last)
  <2> DEFINE q == x \div Step
  <2>1. Step \in Nat \ {0}
    <3>1. Step # 0
      <4>1. last * 0 = 0
        BY <1>1
      <4> QED
        BY <1>1, <1>2, <1>4, <4>1
    <3> QED
      BY <3>1, StepFits
  <2>2. q \in Nat /\ Step * q <= x
    BY <1>1, <2>1, QuotientFits
  <2>3. x < (q + 1) * Step
    BY <1>1, <2>1
  <2> HIDE DEF q
  <2>4. q * Step <= x
    BY <2>1, <2>2
  <2>5. q < last
    <3>1. SUFFICES ASSUME last <= q PROVE FALSE
      BY <1>1, <2>2
    <3>2. last * Step <= q * Step
      BY <1>1, <2>1, <2>2, <3>1, ProductMonotone
    <3>3. q * Step \in Nat
      BY <2>1, <2>2
    <3> QED
      BY <1>1, <1>2, <1>4, <2>4, <3>2, <3>3
  <2>6. q \in Workers /\ q # NWorkers - 1
    BY <2>2, <2>5 DEF Workers, last
  <2>7. StartOf(q) = q * Step /\ EndOf(q) = (q + 1) * Step
    BY <2>6 DEF StartOf, EndOf
  <2>8. StartOf(q) \in Nat /\ EndOf(q) \in Nat
    BY <2>6, RangeBounds
  <2>9. x \in StartOf(q) .. EndOf(q) - 1
    BY <1>1, <2>3, <2>4, <2>7, <2>8
  <2> QED
    BY <2>6, <2>9
<1> QED
  BY <1>1, <1>2, <1>3, <1>4

-----------------------------------------------------------------------------
(* The invariant *)

PoolTyped ==
    /\ pc \in [Workers -> {"hash", "tick", "tickWrite", "check", "final",
                           "finalWrite", "exit", "dead"}]
    /\ nonce \in [Workers -> Nat]
    /\ local \in [Workers -> Nat]
    /\ atStop \in [Workers -> Nat]
    /\ k \in Workers

InRange == \A i \in Workers : StartOf(i) <= nonce[i] /\ nonce[i] <= EndOf(i)

(* A worker in its loop has counted all it tested since it last looked at  *)
(* stop_event, and counts less than a tick.                                *)
TickCount(i) ==
    /\ pc[i] = "hash" => local[i] < HashesPerTick
    /\ pc[i] = "check" => local[i] = 0

SinceStop(i) ==
    nonce[i] - atStop[i] <= IF pc[i] = "hash" THEN local[i] ELSE HashesPerTick

Ticking == \A i \in Workers : TickCount(i) /\ (stop => SinceStop(i))

PoolInv == PoolTyped /\ InRange /\ Ticking

LEMMA PoolInvInit == Init => PoolInv
<1> SUFFICES ASSUME Init PROVE PoolInv
  OBVIOUS
<1>1. \A i \in Workers : StartOf(i) \in Nat /\ StartOf(i) <= EndOf(i)
  BY RangeBounds
<1>2. PoolTyped
  BY <1>1 DEF Init, PoolTyped, Workers
<1>3. InRange
  BY <1>1 DEF Init, InRange
<1>4. Ticking
  BY DEF Init, Ticking, TickCount
<1> QED
  BY <1>2, <1>3, <1>4 DEF PoolInv

(* A new pool starts like the first.                                       *)
LEMMA RestartStep == start_pool => PoolInv'
<1> SUFFICES ASSUME start_pool PROVE PoolInv'
  OBVIOUS
<1>1. \A i \in Workers : StartOf(i) \in Nat /\ StartOf(i) <= EndOf(i)
  BY RangeBounds
<1>2. PoolTyped'
  BY <1>1 DEF start_pool, PoolTyped, Workers
<1>3. InRange'
  BY <1>1 DEF start_pool, InRange
<1>4. Ticking'
  BY DEF start_pool, Ticking, TickCount
<1> QED
  BY <1>2, <1>3, <1>4 DEF PoolInv

(* A worker's step on its own state: the others are as before, and a dead  *)
(* worker takes none.                                                      *)
LEMMA WorkerFrame ==
    ASSUME PoolInv, NEW w \in Workers,
           UNCHANGED parVars,
           PoolTyped',
           pc[w] # "dead",
           \A i \in Workers : i # w =>
               pc'[i] = pc[i] /\ nonce'[i] = nonce[i] /\ local'[i] = local[i],
           StartOf(w) <= nonce'[w] /\ nonce'[w] <= EndOf(w),
           TickCount(w)', stop => SinceStop(w)'
    PROVE  PoolInv'
<1>1. InRange'
  BY DEF PoolInv, InRange
<1>2. Ticking'
  BY DEF PoolInv, Ticking, TickCount, SinceStop, parVars
<1> QED
  BY <1>1, <1>2 DEF PoolInv

LEMMA HashStep ==
    ASSUME PoolInv, NEW w \in Workers, Hash(w)
    PROVE  PoolInv'
<1>1. /\ pc[w] = "hash" /\ nonce[w] < EndOf(w)
      /\ nonce' = [nonce EXCEPT ![w] = nonce[w] + 1]
      /\ local' = [local EXCEPT ![w] = local[w] + 1]
      /\ pc' = [pc EXCEPT ![w] = IF local[w] + 1 >= HashesPerTick THEN "tick" ELSE "hash"]
      /\ UNCHANGED parVars
  BY DEF Hash
<1>2. /\ nonce[w] \in Nat /\ local[w] \in Nat /\ local[w] < HashesPerTick
      /\ atStop[w] \in Nat /\ StartOf(w) <= nonce[w]
      /\ stop => nonce[w] - atStop[w] <= local[w]
  BY <1>1 DEF PoolInv, PoolTyped, InRange, Ticking, TickCount, SinceStop
<1>3. PoolTyped'
  BY <1>1, <1>2 DEF PoolInv, PoolTyped, parVars
<1>4. nonce'[w] = nonce[w] + 1 /\ local'[w] = local[w] + 1 /\ atStop'[w] = atStop[w]
  BY <1>1 DEF PoolInv, PoolTyped, parVars
<1>5. StartOf(w) <= nonce'[w] /\ nonce'[w] <= EndOf(w)
  BY <1>1, <1>2, <1>4, RangeBounds
<1>6. CASE local[w] + 1 >= HashesPerTick
  <2>1. pc'[w] = "tick" /\ local[w] + 1 = HashesPerTick
    BY <1>1, <1>2, <1>6 DEF PoolInv, PoolTyped
  <2>2. TickCount(w)' /\ (stop => SinceStop(w)')
    BY <1>2, <1>4, <2>1 DEF TickCount, SinceStop
  <2> QED
    BY <1>1, <1>3, <1>5, <2>2, WorkerFrame DEF PoolInv, PoolTyped
<1>7. CASE ~(local[w] + 1 >= HashesPerTick)
  <2>1. pc'[w] = "hash"
    BY <1>1, <1>7 DEF PoolInv, PoolTyped
  <2>2. TickCount(w)' /\ (stop => SinceStop(w)')
    BY <1>2, <1>4, <1>7, <2>1 DEF TickCount, SinceStop
  <2> QED
    BY <1>1, <1>3, <1>5, <2>2, WorkerFrame DEF PoolInv, PoolTyped
<1> QED
  BY <1>6, <1>7

(* Steps of a worker that test nothing: its place and its local count.     *)
LEMMA WorkerMoves ==
    ASSUME PoolInv, NEW w \in Workers, NEW there,
           UNCHANGED <<nonce, parVars>>,
           pc[w] # "dead",
           pc' = [pc EXCEPT ![w] = there],
           there \in {"hash", "tickWrite", "check", "final", "finalWrite", "exit", "dead"},
           there = "hash" => pc[w] = "check" /\ ~stop,
           local' = local \/ local' = [local EXCEPT ![w] = 0],
           there = "check" => local' = [local EXCEPT ![w] = 0]
    PROVE  PoolInv'
<1>1. pc'[w] = there /\ nonce'[w] = nonce[w] /\ atStop'[w] = atStop[w] /\ stop' = stop
  BY DEF PoolInv, PoolTyped, parVars
<1>2. local'[w] \in {local[w], 0} /\ local[w] \in Nat
  BY DEF PoolInv, PoolTyped
<1>3. PoolTyped'
  BY DEF PoolInv, PoolTyped, parVars
<1>4. /\ nonce[w] \in Nat /\ atStop[w] \in Nat
      /\ stop => nonce[w] - atStop[w] <= HashesPerTick
  BY DEF PoolInv, PoolTyped, Ticking, TickCount, SinceStop
<1>5. TickCount(w)'
  <2>1. CASE there = "hash"
    <3>1. local[w] = 0
      BY <2>1 DEF PoolInv, Ticking, TickCount
    <3> QED
      BY <1>1, <1>2, <2>1, <3>1 DEF TickCount
  <2>2. CASE there = "check"
    BY <1>1, <2>2 DEF TickCount, PoolInv, PoolTyped
  <2>3. CASE there \notin {"hash", "check"}
    BY <1>1, <2>3 DEF TickCount
  <2> QED
    BY <2>1, <2>2, <2>3
<1>6. stop => SinceStop(w)'
  BY <1>1, <1>4 DEF SinceStop
<1>7. \A i \in Workers : i # w =>
          pc'[i] = pc[i] /\ nonce'[i] = nonce[i] /\ local'[i] = local[i]
  BY DEF PoolInv, PoolTyped
<1>8. StartOf(w) <= nonce'[w] /\ nonce'[w] <= EndOf(w)
  BY <1>1 DEF PoolInv, InRange
<1> QED
  BY <1>3, <1>5, <1>6, <1>7, <1>8, WorkerFrame

LEMMA WorkStep ==
    ASSUME PoolInv, NEW w \in Workers, Work(w)
    PROVE  PoolInv'
<1>1. CASE Hash(w)
  BY <1>1, HashStep
<1>2. CASE Exhaust(w)
  <2>1. PICK there \in {"exit", "final"} : pc' = [pc EXCEPT ![w] = there]
    BY <1>2 DEF Exhaust
  <2> QED
    BY <1>2, <2>1, WorkerMoves DEF Exhaust
<1>3. CASE ReadCounter(w)
  <2>1. PICK there \in {"tickWrite", "finalWrite"} : pc' = [pc EXCEPT ![w] = there]
    BY <1>3 DEF ReadCounter
  <2>2. pc[w] # "dead" /\ UNCHANGED <<nonce, local, parVars>>
    BY <1>3 DEF ReadCounter
  <2> QED
    BY <2>1, <2>2, WorkerMoves
<1>4. CASE WriteCounter(w)
  <2>1. PICK there \in {"check", "exit"} : pc' = [pc EXCEPT ![w] = there]
    BY <1>4 DEF WriteCounter
  <2>2. /\ pc[w] # "dead" /\ UNCHANGED <<nonce, parVars>>
        /\ local' = [local EXCEPT ![w] = 0]
    BY <1>4 DEF WriteCounter
  <2> QED
    BY <2>1, <2>2, WorkerMoves
<1>5. CASE CheckStop(w)
  <2>1. PICK there \in {"exit", "hash"} :
            pc' = [pc EXCEPT ![w] = there] /\ (there = "hash" => ~stop)
    BY <1>5 DEF CheckStop
  <2>2. pc[w] = "check" /\ UNCHANGED <<nonce, local, parVars>>
    BY <1>5 DEF CheckStop
  <2> QED
    BY <2>1, <2>2, WorkerMoves
<1>6. CASE Exit(w)
  <2>1. /\ pc[w] # "dead" /\ UNCHANGED <<nonce, local, parVars>>
        /\ pc' = [pc EXCEPT ![w] = "dead"]
    BY <1>6 DEF Exit
  <2> QED
    BY <2>1, WorkerMoves
<1>7. CASE FeedBegins(w) \/ Feed(w)
  <2>1. UNCHANGED <<pc, nonce, local, parVars>>
    BY <1>7 DEF FeedBegins, Feed
  <2> QED
    BY <2>1 DEF PoolInv, PoolTyped, InRange, Ticking, TickCount, SinceStop, parVars
<1>8. CASE Dies(w)
  <2>1. /\ pc[w] # "dead" /\ UNCHANGED <<nonce, local, parVars>>
        /\ pc' = [pc EXCEPT ![w] = "dead"]
    BY <1>8 DEF Dies
  <2> QED
    BY <2>1, WorkerMoves
<1> QED
  BY <1>1, <1>2, <1>3, <1>4, <1>5, <1>6, <1>7, <1>8 DEF Work

LEMMA NextProcess ==
    ASSUME k \in Workers, NEW from, NEW to, Advance(from, to)
    PROVE  \/ k = NWorkers - 1 /\ par' = to /\ k' = 0 /\ k' \in Workers
           \/ k # NWorkers - 1 /\ par' = from /\ k' = k + 1 /\ k' \in Workers
BY DEF Advance, Workers

LEMMA ParentStep ==
    ASSUME PoolInv, Parent
    PROVE  PoolInv'
<1>1. CASE Take \/ Drained \/ Report \/ Continue \/ DrainOne \/ DrainEnds \/ Terminate
  <2>1. UNCHANGED <<pc, nonce, local, stop, atStop>> /\ k' \in {k, 0}
    BY <1>1 DEF Take, Drained, Report, Continue, DrainOne, DrainEnds, Terminate, workVars, parVars
  <2>2. PoolTyped'
    BY <2>1 DEF PoolInv, PoolTyped, Workers
  <2> QED
    BY <2>1, <2>2 DEF PoolInv, InRange, Ticking, TickCount, SinceStop
<1>2. CASE StopPool
  <2>1. /\ UNCHANGED <<pc, nonce, local, k>> /\ par' = "empty" /\ atStop' = nonce
    BY <1>2 DEF StopPool, workVars
  <2>2. PoolTyped'
    BY <2>1 DEF PoolInv, PoolTyped
  <2>3. \A i \in Workers : nonce'[i] - atStop'[i] = 0 /\ local'[i] \in Nat
    BY <2>1 DEF PoolInv, PoolTyped
  <2>4. \A i \in Workers : SinceStop(i)'
    BY <2>3 DEF SinceStop
  <2> QED
    BY <2>1, <2>2, <2>4 DEF PoolInv, InRange, Ticking, TickCount
<1>3. CASE Join \/ SkipDead \/ Reap
  <2>1. /\ UNCHANGED <<pc, nonce, local, stop, atStop>>
        /\ \E from, to : Advance(from, to)
    BY <1>3 DEF Join, SkipDead, Reap, workVars
  <2>2. PoolTyped'
    BY <2>1, NextProcess DEF PoolInv, PoolTyped
  <2> QED
    BY <2>1, <2>2 DEF PoolInv, InRange, Ticking, TickCount, SinceStop
<1>4. CASE start_pool
  BY <1>4, RestartStep
<1> QED
  BY <1>1, <1>2, <1>3, <1>4 DEF Parent

THEOREM PoolInvariant == Spec => []PoolInv
<1>1. PoolInv /\ [Next]_vars => PoolInv'
  <2> SUFFICES ASSUME PoolInv, [Next]_vars PROVE PoolInv'
    OBVIOUS
  <2>1. CASE UNCHANGED vars
    BY <2>1 DEF PoolInv, PoolTyped, InRange, Ticking, TickCount, SinceStop,
                vars, workVars, parVars
  <2> QED
    BY <2>1, WorkStep, ParentStep DEF Next
<1> QED
  BY <1>1, PoolInvInit, PTL DEF Spec

(* For every number of workers, 2^32 divisible by it or not: no nonce of a *)
(* header is tested twice, and none is left out when the ranges are done   *)
(* (start_pool).                                                           *)
THEOREM NoncesArePartitioned == Spec => []TestedOnce
<1>1. PoolInv => TestedOnce
  <2> SUFFICES ASSUME PoolInv PROVE TestedOnce
    OBVIOUS
  <2>1. \A i \in Workers : /\ StartOf(i) \in Nat /\ EndOf(i) \in Nat /\ nonce[i] \in Nat
                           /\ StartOf(i) <= nonce[i] /\ nonce[i] <= EndOf(i)
                           /\ EndOf(i) <= NonceSpace
    BY RangeBounds DEF PoolInv, PoolTyped, InRange
  <2>2. ASSUME NEW i \in Workers, NEW j \in Workers, i < j
        PROVE  Tested(i) \cap Tested(j) = {}
    <3>1. EndOf(i) <= StartOf(j)
      BY <2>2, RangesInOrder
    <3> QED
      BY <2>1, <3>1 DEF Tested
  <2>3. \A i, j \in Workers : i # j => Tested(i) \cap Tested(j) = {}
    BY <2>2 DEF Workers
  <2>4. ASSUME \A i \in Workers : nonce[i] >= EndOf(i)
        PROVE  UNION {Tested(i) : i \in Workers} = Nonces
    <3>1. \A i \in Workers : Tested(i) = StartOf(i) .. EndOf(i) - 1
      BY <2>1, <2>4 DEF Tested
    <3>2. \A i \in Workers : Tested(i) \subseteq Nonces
      BY <2>1, <3>1 DEF Nonces
    <3>3. \A x \in Nonces : \E i \in Workers : x \in Tested(i)
      BY <3>1, RangesCover
    <3> QED
      BY <3>2, <3>3
  <2> QED
    BY <2>3, <2>4 DEF TestedOnce
<1> QED
  BY <1>1, PoolInvariant, PTL

(* A worker notices stop_event within one tick.                            *)
THEOREM StopWithinTick == Spec => []StopLatency
<1>1. PoolInv => StopLatency
  <2> SUFFICES ASSUME PoolInv, stop, NEW i \in Workers
               PROVE  nonce[i] - atStop[i] <= HashesPerTick
    BY DEF StopLatency
  <2>1. nonce[i] - atStop[i] \in Int /\ local[i] \in Nat
    BY DEF PoolInv, PoolTyped
  <2> QED
    BY <2>1 DEF PoolInv, Ticking, TickCount, SinceStop
<1> QED
  BY <1>1, PoolInvariant, PTL

-----------------------------------------------------------------------------
(* The counter *)

CounterTyped == counter \in Nat /\ seen \in [Workers -> Nat]

(* Between the read and the write of `value += local_hashes` the lock is   *)
(* held, also when the worker that holds it is terminated.                 *)
CounterIsLocked ==
    \A i \in Workers :
        pc[i] \in {"tickWrite", "finalWrite"} => lock = i /\ seen[i] = counter

CounterInv == CounterTyped /\ CounterIsLocked /\ CounterExact

AllCounted == UNION {Counted(i) : i \in Workers}

LEMMA CountedIsFinite == ASSUME PoolInv, CounterExact PROVE IsFiniteSet(AllCounted)
<1>1. IsFiniteSet(Nonces)
  BY FS_Interval DEF Nonces
<1>2. ASSUME NEW i \in Workers, NEW x \in Counted(i) PROVE x \in Nonces
  <2>1. /\ StartOf(i) \in Nat /\ EndOf(i) \in Nat /\ nonce[i] \in Nat /\ local[i] \in Nat
        /\ nonce[i] <= EndOf(i) /\ EndOf(i) <= NonceSpace
    BY RangeBounds DEF PoolInv, PoolTyped, InRange
  <2> QED
    BY <1>2, <2>1 DEF Counted, Nonces
<1>3. AllCounted \in SUBSET Nonces
  BY <1>2 DEF AllCounted
<1> QED
  BY <1>1, <1>3, FS_Subset

LEMMA CountInit ==
    ASSUME \A i \in Workers : nonce[i] = StartOf(i) /\ local[i] = 0,
           counter = 0,
           \A i \in Workers : pc[i] = "hash",
           seen \in [Workers -> Nat]
    PROVE  CounterInv
<1>1. \A i \in Workers : StartOf(i) \in Nat
  BY RangeBounds
<1>2. \A i \in Workers : Counted(i) = {}
  BY <1>1 DEF Counted
<1>3. AllCounted = {}
  BY <1>2 DEF AllCounted
<1>4. CounterExact
  BY <1>1, <1>3, FS_EmptySet DEF CounterExact, AllCounted
<1> QED
  BY <1>4 DEF CounterInv, CounterTyped, CounterIsLocked

(* Steps that leave each worker's count where it is.                       *)
LEMMA CountFrame ==
    ASSUME PoolInv, CounterInv,
           counter' = counter,
           \A i \in Workers : /\ nonce'[i] - local'[i] = nonce[i] - local[i]
                              /\ nonce'[i] \in Nat /\ local'[i] \in Nat,
           \A i \in Workers : pc'[i] = "exit" => local'[i] = 0
    PROVE  CounterExact'
<1>1. \A i \in Workers : nonce[i] \in Nat /\ local[i] \in Nat /\ StartOf(i) \in Nat
  BY RangeBounds DEF PoolInv, PoolTyped
<1>2. \A i \in Workers : local'[i] <= nonce'[i] - StartOf(i)
  BY <1>1 DEF CounterInv, CounterExact
<1>3. \A i \in Workers : Counted(i)' = Counted(i)
  BY <1>1 DEF Counted
<1>4. (UNION {Counted(i) : i \in Workers})' = UNION {Counted(i) : i \in Workers}
  BY <1>3
<1> QED
  BY <1>2, <1>4 DEF CounterInv, CounterExact

LEMMA CountHash ==
    ASSUME PoolInv, PoolInv', CounterInv, NEW w \in Workers, Hash(w)
    PROVE  CounterInv'
<1>1. /\ pc[w] = "hash"
      /\ nonce' = [nonce EXCEPT ![w] = nonce[w] + 1]
      /\ local' = [local EXCEPT ![w] = local[w] + 1]
      /\ UNCHANGED <<counter, lock, seen>>
      /\ pc' = [pc EXCEPT ![w] = IF local[w] + 1 >= HashesPerTick THEN "tick" ELSE "hash"]
  BY DEF Hash
<1>2. pc'[w] \in {"tick", "hash"} /\ \A i \in Workers : i # w => pc'[i] = pc[i]
  BY <1>1 DEF PoolInv, PoolTyped
<1>3. \A i \in Workers : /\ nonce[i] \in Nat /\ local[i] \in Nat
                         /\ nonce'[i] \in Nat /\ local'[i] \in Nat
  BY DEF PoolInv, PoolTyped
<1>4. /\ nonce'[w] = nonce[w] + 1 /\ local'[w] = local[w] + 1
      /\ \A i \in Workers : i # w => nonce'[i] = nonce[i] /\ local'[i] = local[i]
  BY <1>1 DEF PoolInv, PoolTyped
<1>5. \A i \in Workers : nonce'[i] - local'[i] = nonce[i] - local[i]
  BY <1>3, <1>4
<1>6. \A i \in Workers : pc'[i] = "exit" => local'[i] = 0
  BY <1>2, <1>4 DEF CounterInv, CounterExact
<1>7. CounterExact'
  BY <1>1, <1>3, <1>5, <1>6, CountFrame
<1>8. CounterIsLocked'
  BY <1>1, <1>2 DEF CounterInv, CounterIsLocked
<1> QED
  BY <1>1, <1>7, <1>8 DEF CounterInv, CounterTyped

(* Moves of a worker that change neither its count nor the counter.        *)
LEMMA CountMoves ==
    ASSUME PoolInv, PoolInv', CounterInv, NEW w \in Workers, NEW there,
           UNCHANGED <<nonce, local, counter>>,
           pc' = [pc EXCEPT ![w] = there],
           there = "exit" => local[w] = 0,
           \/ there \in {"hash", "final", "exit", "dead"} /\ UNCHANGED <<lock, seen>>
           \/ lock = none /\ lock' = w /\ seen' = [seen EXCEPT ![w] = counter]
    PROVE  CounterInv'
<1>1. pc'[w] = there /\ \A i \in Workers : i # w => pc'[i] = pc[i]
  BY DEF PoolInv, PoolTyped
<1>2. \A i \in Workers : pc'[i] = "exit" => local'[i] = 0
  BY <1>1 DEF CounterInv, CounterExact
<1>3. CounterExact'
  BY <1>2, CountFrame DEF PoolInv, PoolTyped
<1>4. CounterIsLocked' /\ CounterTyped'
  <2>1. CASE there \in {"hash", "final", "exit", "dead"} /\ UNCHANGED <<lock, seen>>
    BY <1>1, <2>1 DEF CounterInv, CounterIsLocked, CounterTyped
  <2>2. CASE lock = none /\ lock' = w /\ seen' = [seen EXCEPT ![w] = counter]
    <3>1. \A i \in Workers : i # none
      BY DEF Workers
    <3>2. \A i \in Workers : pc[i] \notin {"tickWrite", "finalWrite"}
      BY <2>2, <3>1 DEF CounterInv, CounterIsLocked
    <3>3. seen'[w] = counter /\ seen' \in [Workers -> Nat]
      BY <2>2 DEF CounterInv, CounterTyped
    <3> QED
      BY <1>1, <2>2, <3>2, <3>3 DEF CounterInv, CounterIsLocked, CounterTyped
  <2> QED
    BY <2>1, <2>2
<1> QED
  BY <1>3, <1>4 DEF CounterInv

(* The nonces a worker adds are its own, and none of them is counted yet.  *)
LEMMA CountWrite ==
    ASSUME PoolInv, PoolInv', CounterInv, NEW w \in Workers, WriteCounter(w)
    PROVE  CounterInv'
<1>1. /\ pc[w] \in {"tickWrite", "finalWrite"}
      /\ counter' = seen[w] + local[w] /\ lock' = none
      /\ local' = [local EXCEPT ![w] = 0]
      /\ UNCHANGED <<nonce, seen>>
      /\ \A i \in Workers : i # w => pc'[i] = pc[i]
      /\ pc'[w] \in {"check", "exit"}
  BY DEF WriteCounter, PoolInv, PoolTyped
<1>2. /\ lock = w /\ seen[w] = counter
      /\ \A i \in Workers : i # w => pc[i] \notin {"tickWrite", "finalWrite"}
  BY <1>1 DEF CounterInv, CounterIsLocked
<1>3. /\ local'[w] = 0 /\ \A i \in Workers : i # w => local'[i] = local[i]
      /\ \A i \in Workers : /\ nonce[i] \in Nat /\ local[i] \in Nat /\ StartOf(i) \in Nat
                            /\ nonce[i] <= EndOf(i) /\ EndOf(i) \in Nat
                            /\ local[i] <= nonce[i] - StartOf(i)
      /\ counter \in Nat
  BY <1>1, RangeBounds DEF PoolInv, PoolTyped, InRange, CounterInv, CounterExact, CounterTyped
<1> DEFINE New == nonce[w] - local[w] .. nonce[w] - 1
<1>4. \A i \in Workers : i # w => Counted(i)' = Counted(i) /\ Counted(i) \cap New = {}
  <2> SUFFICES ASSUME NEW i \in Workers, i # w
               PROVE  Counted(i)' = Counted(i) /\ Counted(i) \cap New = {}
    OBVIOUS
  <2>1. Counted(i)' = Counted(i)
    BY <1>1, <1>3 DEF Counted
  <2>2. EndOf(i) <= StartOf(w) \/ EndOf(w) <= StartOf(i)
    <3>1. i < w \/ w < i
      BY DEF Workers
    <3> QED
      BY <3>1, RangesInOrder
  <2>3. Counted(i) \cap New = {}
    BY <1>3, <2>2 DEF Counted
  <2> QED
    BY <2>1, <2>3
<1>5. Counted(w)' = Counted(w) \cup New /\ Counted(w) \cap New = {}
  BY <1>1, <1>3 DEF Counted
<1>6. IsFiniteSet(New) /\ Cardinality(New) = local[w]
  <2>1. /\ nonce[w] - local[w] \in Int /\ nonce[w] - 1 \in Int
        /\ (nonce[w] - local[w] > nonce[w] - 1 <=> local[w] = 0)
        /\ (nonce[w] - 1) - (nonce[w] - local[w]) + 1 = local[w]
    BY <1>3
  <2> QED
    BY <2>1, FS_Interval
<1> HIDE DEF New
<1>7. AllCounted' = AllCounted \cup New /\ AllCounted \cap New = {}
  BY <1>4, <1>5 DEF AllCounted
<1>8. Cardinality(AllCounted') = counter'
  <2>1. IsFiniteSet(AllCounted) /\ Cardinality(AllCounted) = counter
    BY CountedIsFinite DEF CounterInv, CounterExact, AllCounted
  <2>2. Cardinality(AllCounted \cup New) = counter + local[w] - Cardinality({})
    BY <1>6, <1>7, <2>1, FS_Union
  <2> QED
    BY <1>1, <1>2, <1>3, <1>7, <2>2, FS_EmptySet
<1>9. CounterExact'
  <2>1. \A i \in Workers : local'[i] <= nonce'[i] - StartOf(i)
    BY <1>1, <1>3
  <2>2. \A i \in Workers : pc'[i] = "exit" => local'[i] = 0
    BY <1>1, <1>3 DEF CounterInv, CounterExact
  <2> QED
    BY <1>8, <2>1, <2>2 DEF CounterExact, AllCounted
<1>10. CounterTyped' /\ CounterIsLocked'
  BY <1>1, <1>2, <1>3 DEF CounterInv, CounterTyped, CounterIsLocked
<1> QED
  BY <1>9, <1>10 DEF CounterInv

LEMMA CountWork ==
    ASSUME PoolInv, PoolInv', CounterInv, NEW w \in Workers, Work(w)
    PROVE  CounterInv'
<1>1. CASE Exhaust(w)
  <2>1. pc' = [pc EXCEPT ![w] = IF local[w] = 0 THEN "exit" ELSE "final"]
        /\ UNCHANGED <<nonce, local, counter, lock, seen>>
    BY <1>1 DEF Exhaust
  <2>2. PICK there : /\ there = IF local[w] = 0 THEN "exit" ELSE "final"
                     /\ pc' = [pc EXCEPT ![w] = there]
    BY <2>1
  <2>3. there \in {"exit", "final"} /\ (there = "exit" => local[w] = 0)
    BY <2>2
  <2> QED
    BY <2>1, <2>2, <2>3, CountMoves
<1>2. CASE ReadCounter(w)
  <2>1. /\ UNCHANGED <<nonce, local, counter>> /\ lock = none /\ lock' = w
        /\ seen' = [seen EXCEPT ![w] = counter]
    BY <1>2 DEF ReadCounter
  <2>2. PICK there \in {"tickWrite", "finalWrite"} : pc' = [pc EXCEPT ![w] = there]
    BY <1>2 DEF ReadCounter
  <2> QED
    BY <2>1, <2>2, CountMoves
<1>3. CASE CheckStop(w)
  <2>1. PICK there \in {"exit", "hash"} : pc' = [pc EXCEPT ![w] = there]
    BY <1>3 DEF CheckStop
  <2>2. local[w] = 0 /\ UNCHANGED <<nonce, local, counter, lock, seen>>
    BY <1>3 DEF CheckStop, PoolInv, Ticking, TickCount
  <2> QED
    BY <2>1, <2>2, CountMoves
<1>4. CASE Exit(w)
  <2>1. pc' = [pc EXCEPT ![w] = "dead"] /\ UNCHANGED <<nonce, local, counter, lock, seen>>
    BY <1>4 DEF Exit
  <2> QED
    BY <2>1, CountMoves
<1>5. CASE FeedBegins(w) \/ Feed(w)
  <2>1. UNCHANGED <<pc, nonce, local, counter, lock, seen>>
    BY <1>5 DEF FeedBegins, Feed
  <2>2. CounterExact'
    BY <2>1, CountFrame DEF PoolInv, PoolTyped, CounterInv, CounterExact
  <2> QED
    BY <2>1, <2>2 DEF CounterInv, CounterTyped, CounterIsLocked
<1>6. CASE Dies(w)
  <2>1. pc' = [pc EXCEPT ![w] = "dead"] /\ UNCHANGED <<nonce, local, counter, lock, seen>>
    BY <1>6 DEF Dies
  <2> QED
    BY <2>1, CountMoves
<1> QED
  BY <1>1, <1>2, <1>3, <1>4, <1>5, <1>6, CountHash, CountWrite DEF Work

LEMMA CountParent ==
    ASSUME PoolInv, PoolInv', CounterInv, Parent
    PROVE  CounterInv'
<1>1. CASE \/ Take \/ Drained \/ Report \/ Continue \/ StopPool \/ DrainOne \/ DrainEnds
           \/ Join \/ SkipDead \/ Terminate \/ Reap
  <2>1. UNCHANGED <<pc, nonce, local, counter, lock, seen>>
    BY <1>1 DEF Take, Drained, Report, Continue, StopPool, DrainOne, DrainEnds, Join,
       SkipDead, Terminate, Reap, workVars
  <2>2. CounterExact'
    BY <2>1, CountFrame DEF PoolInv, PoolTyped, CounterInv, CounterExact
  <2> QED
    BY <2>1, <2>2 DEF CounterInv, CounterTyped, CounterIsLocked
<1>2. CASE start_pool
  <2>1. /\ \A i \in Workers : nonce'[i] = StartOf(i) /\ local'[i] = 0 /\ pc'[i] = "hash"
        /\ counter' = 0 /\ seen' \in [Workers -> Nat]
    BY <1>2 DEF start_pool
  <2>2. \A i \in Workers : StartOf(i) \in Nat
    BY RangeBounds
  <2>3. \A i \in Workers : Counted(i)' = {}
    BY <2>1, <2>2 DEF Counted
  <2>4. AllCounted' = {}
    BY <2>3 DEF AllCounted
  <2>5. CounterExact'
    BY <2>1, <2>2, <2>4, FS_EmptySet DEF CounterExact, AllCounted
  <2> QED
    BY <2>1, <2>5 DEF CounterInv, CounterTyped, CounterIsLocked
<1> QED
  BY <1>1, <1>2 DEF Parent

LEMMA CounterAlways == Spec => []CounterInv
<1>1. Init => CounterInv
  BY CountInit DEF Init
<1>2. PoolInv /\ PoolInv' /\ CounterInv /\ [Next]_vars => CounterInv'
  <2> SUFFICES ASSUME PoolInv, PoolInv', CounterInv, [Next]_vars PROVE CounterInv'
    OBVIOUS
  <2>1. CASE UNCHANGED vars
    <3>1. UNCHANGED <<pc, nonce, local, counter, lock, seen>>
      BY <2>1 DEF vars, workVars
    <3>2. CounterExact'
      BY <3>1, CountFrame DEF PoolInv, PoolTyped, CounterInv, CounterExact
    <3> QED
      BY <3>1, <3>2 DEF CounterInv, CounterTyped, CounterIsLocked
  <2> QED
    BY <2>1, CountWork, CountParent DEF Next
<1> QED
  BY <1>1, <1>2, PoolInvariant, PTL DEF Spec

(* The shared counter misses no hash and counts none twice, with any       *)
(* number of workers adding to it and wherever stop_event or terminate()   *)
(* hits them.                                                              *)
THEOREM CounterIsExact == Spec => []CounterExact
<1>1. CounterInv => CounterExact
  BY DEF CounterInv
<1> QED
  BY <1>1, CounterAlways, PTL

-----------------------------------------------------------------------------
(* Types *)

TickBound == \A i \in Workers : local[i] <= HashesPerTick

(* The feeder that may write has something to write.                       *)
FindsTyped ==
    /\ buffer \in [Workers -> Nat]
    /\ pipe \in 0 .. PipeCap
    /\ \A i \in Workers : wlock = i => buffer[i] # 0 \/ pc[i] = "dead"

StopTyped ==
    /\ stop \in BOOLEAN
    /\ lock \in Workers \cup {none} /\ wlock \in Workers \cup {none}
    /\ killed \subseteq Workers
    /\ par \in {"drain", "report", "check", "empty", "join", "term", "reap", "stopped"}

DrainTyped == drained \in 0 .. DrainCap

RestTyped == TickBound /\ FindsTyped /\ StopTyped /\ DrainTyped

LEMMA TickBoundStep == ASSUME PoolInv, TickBound, [Next]_vars PROVE TickBound'
<1>1. ASSUME NEW w \in Workers, Hash(w) PROVE TickBound'
  <2>1. /\ pc[w] = "hash" /\ local' = [local EXCEPT ![w] = local[w] + 1]
    BY <1>1 DEF Hash
  <2>2. local[w] \in Nat /\ local[w] < HashesPerTick
    BY <2>1 DEF PoolInv, PoolTyped, Ticking, TickCount
  <2> QED
    BY <2>1, <2>2 DEF PoolInv, PoolTyped, TickBound
<1>2. ASSUME NEW w \in Workers, WriteCounter(w) PROVE TickBound'
  BY <1>2 DEF WriteCounter, PoolInv, PoolTyped, TickBound
<1>3. ASSUME NEW w \in Workers,
             \/ Exhaust(w) \/ ReadCounter(w) \/ CheckStop(w)
             \/ FeedBegins(w) \/ Feed(w) \/ Exit(w) \/ Dies(w)
      PROVE  TickBound'
  <2>1. UNCHANGED local
    BY <1>3 DEF Exhaust, ReadCounter, CheckStop, FeedBegins, Feed, Exit, Dies
  <2> QED
    BY <2>1 DEF TickBound
<1>4. CASE Parent \/ UNCHANGED vars
  <2>1. UNCHANGED local \/ local' = [i \in Workers |-> 0]
    BY <1>4 DEF Parent, Take, Drained, Report, Continue, StopPool, DrainOne, DrainEnds, Join,
       SkipDead, Terminate, Reap, start_pool, workVars, vars
  <2> QED
    BY <2>1 DEF TickBound
<1> QED
  BY <1>1, <1>2, <1>3, <1>4 DEF Next, Work

LEMMA FindsTypedStep == ASSUME PoolInv, FindsTyped, [Next]_vars PROVE FindsTyped'
<1> USE DEF FindsTyped
<1>0. pc \in [Workers -> {"hash", "tick", "tickWrite", "check", "final",
                         "finalWrite", "exit", "dead"}]
      /\ \A i \in Workers : i # none
  BY DEF PoolInv, PoolTyped, Workers
<1>1. ASSUME NEW w \in Workers, Hash(w) PROVE FindsTyped'
  <2>1. PICK win \in {0, 1} : buffer' = [buffer EXCEPT ![w] = buffer[w] + win]
    BY <1>1 DEF Hash
  <2>2. UNCHANGED <<pipe, wlock>> /\ \A i \in Workers : pc[i] = "dead" => pc'[i] = "dead"
    BY <1>0, <1>1 DEF Hash
  <2> QED
    BY <2>1, <2>2
<1>2. ASSUME NEW w \in Workers, Feed(w) PROVE FindsTyped'
  <2>1. /\ pc[w] # "dead" /\ wlock = w /\ wlock' = none
        /\ pipe < PipeCap /\ pipe' = pipe + 1
        /\ buffer' = [buffer EXCEPT ![w] = buffer[w] - 1]
    BY <1>2 DEF Feed
  <2>2. buffer[w] \in Nat \ {0}
    BY <2>1
  <2> QED
    BY <1>0, <2>1, <2>2
<1>3. ASSUME NEW w \in Workers, FeedBegins(w) PROVE FindsTyped'
  BY <1>0, <1>3 DEF FeedBegins
<1>4. ASSUME NEW w \in Workers,
             Exhaust(w) \/ ReadCounter(w) \/ WriteCounter(w) \/ CheckStop(w) \/ Exit(w)
      PROVE  FindsTyped'
  <2>1. UNCHANGED <<buffer, pipe, wlock>> /\ \A i \in Workers : pc[i] = "dead" => pc'[i] = "dead"
    BY <1>0, <1>4 DEF Exhaust, ReadCounter, WriteCounter, CheckStop, Exit
  <2> QED
    BY <2>1
<1>5. ASSUME NEW w \in Workers, Dies(w) PROVE FindsTyped'
  BY <1>0, <1>5 DEF Dies
<1>6. CASE Take \/ DrainOne
  <2>1. pipe # 0 /\ pipe' = pipe - 1 /\ UNCHANGED <<buffer, wlock, pc>>
    BY <1>6 DEF Take, DrainOne, workVars
  <2> QED
    BY <2>1
<1>7. CASE \/ Drained \/ Report \/ Continue \/ StopPool \/ DrainEnds \/ Join \/ SkipDead
           \/ Terminate \/ Reap \/ UNCHANGED vars
  BY <1>7 DEF Drained, Report, Continue, StopPool, DrainEnds, Join, SkipDead, Terminate, Reap,
     workVars, vars
<1>8. CASE start_pool
  BY <1>0, <1>8 DEF start_pool
<1> QED
  BY <1>1, <1>2, <1>3, <1>4, <1>5, <1>6, <1>7, <1>8 DEF Next, Work, Parent

LEMMA StopTypedStep == ASSUME PoolInv, StopTyped, [Next]_vars PROVE StopTyped'
<1>1. stop' \in BOOLEAN
  <2>1. stop' \in {stop, TRUE, FALSE}
    BY Zenon DEF Next, Work, Hash, Exhaust, ReadCounter, WriteCounter, CheckStop,
       FeedBegins, Feed, Exit, Dies,
       Parent, Take, Drained, Report, Continue, StopPool, DrainOne, DrainEnds, Join,
       SkipDead, Terminate, Reap, start_pool, parVars, vars
  <2> QED
    BY <2>1, Zenon DEF StopTyped
<1>2. lock' \in Workers \cup {none} /\ wlock' \in Workers \cup {none}
  BY DEF StopTyped, Next, Work, Hash, Exhaust, ReadCounter, WriteCounter, CheckStop,
       FeedBegins, Feed, Exit, Dies,
     Parent, Take, Drained, Report, Continue, StopPool, DrainOne, DrainEnds, Join,
       SkipDead, Terminate, Reap, start_pool, workVars, vars
<1>3. killed' \subseteq Workers
  <2>1. killed' \in {killed, {}, killed \cup {k}} /\ k \in Workers
    BY DEF Next, Work, Hash, Exhaust, ReadCounter, WriteCounter, CheckStop,
       FeedBegins, Feed, Exit, Dies,
       Parent, Take, Drained, Report, Continue, StopPool, DrainOne, DrainEnds, Join,
       SkipDead, Terminate, Reap, start_pool, parVars, vars,
       PoolInv, PoolTyped
  <2> QED
    BY <2>1 DEF StopTyped
<1>4. par' \in {"drain", "report", "check", "empty", "join", "term", "reap", "stopped"}
  <2>1. par' \in {par, "drain", "report", "check", "empty", "join", "term", "reap", "stopped"}
    BY DEF Next, Work, Hash, Exhaust, ReadCounter, WriteCounter, CheckStop,
       FeedBegins, Feed, Exit, Dies,
       Parent, Take, Drained, Report, Continue, StopPool, DrainOne, DrainEnds, Join,
       SkipDead, Terminate, Reap, start_pool, parVars, vars,
       Advance
  <2> QED
    BY <2>1 DEF StopTyped
<1> QED
  BY <1>1, <1>2, <1>3, <1>4, Zenon DEF StopTyped

LEMMA DrainTypedStep == ASSUME DrainTyped, [Next]_vars PROVE DrainTyped'
<1>1. drained' \in {drained, 0} \/ (drained < DrainCap /\ drained' = drained + 1)
  BY DEF Next, Work, Hash, Exhaust, ReadCounter, WriteCounter, CheckStop,
       FeedBegins, Feed, Exit, Dies,
     Parent, Take, Drained, Report, Continue, StopPool, DrainOne, DrainEnds, Join,
       SkipDead, Terminate, Reap, start_pool, parVars, vars
<1> QED
  BY <1>1 DEF DrainTyped

LEMMA RestInit == Init => RestTyped
<1> SUFFICES ASSUME Init PROVE RestTyped
  OBVIOUS
<1>1. TickBound /\ DrainTyped
  BY DEF Init, TickBound, DrainTyped
<1>2. FindsTyped
  BY DEF Init, FindsTyped, Workers
<1>3. StopTyped
  BY DEF Init, StopTyped
<1> QED
  BY <1>1, <1>2, <1>3 DEF RestTyped

LEMMA RestAlways == Spec => []RestTyped
<1>1. PoolInv /\ RestTyped /\ [Next]_vars => RestTyped'
  BY TickBoundStep, FindsTypedStep, StopTypedStep, DrainTypedStep DEF RestTyped
<1> QED
  BY <1>1, RestInit, PoolInvariant, PTL DEF Spec

(* A worker stays in its range and counts at most a tick, and every other  *)
(* variable keeps to its type.                                             *)
THEOREM PoolTypes == Spec => []TypeOK
<1>1. PoolInv /\ CounterInv /\ RestTyped => TypeOK
  <2> SUFFICES ASSUME PoolInv, CounterInv, RestTyped PROVE TypeOK
    OBVIOUS
  <2>1. local \in [Workers -> 0 .. HashesPerTick]
    <3>1. \A i \in Workers : local[i] \in 0 .. HashesPerTick
      BY DEF PoolInv, PoolTyped, RestTyped, TickBound
    <3> QED
      BY <3>1 DEF PoolInv, PoolTyped
  <2>2. \A i \in Workers : nonce[i] \in StartOf(i) .. EndOf(i)
    BY RangeBounds DEF PoolInv, PoolTyped, InRange
  <2> QED
    BY <2>1, <2>2, Zenon
       DEF PoolInv, PoolTyped, CounterInv, CounterTyped, RestTyped, FindsTyped, StopTyped,
           DrainTyped, TypeOK
<1> QED
  BY <1>1, PoolInvariant, CounterAlways, RestAlways, PTL

-----------------------------------------------------------------------------
(* The lock of the counter *)

(* Whoever has the lock is between the read and the write of the counter,  *)
(* unless terminate() was called for it.                                   *)
HolderWrites ==
    \A i \in Workers : lock = i /\ i \notin killed => pc[i] \in {"tickWrite", "finalWrite"}

(* terminate() is not called before the loop of mine() has ended.          *)
NoneKilledBefore == par \in {"drain", "report", "check", "empty", "join"} => killed = {}

HolderInv == HolderWrites /\ NoneKilledBefore

(* A worker moves without the lock, and the parent's part is as before.    *)
LEMMA HolderMoves ==
    ASSUME PoolInv, HolderInv, NEW w \in Workers, NEW there,
           pc' = [pc EXCEPT ![w] = there],
           UNCHANGED <<par, killed>>,
           \/ lock' = lock /\ pc[w] \notin {"tickWrite", "finalWrite"}
           \/ lock' = none
           \/ lock' = w /\ there \in {"tickWrite", "finalWrite"}
    PROVE  HolderInv'
<1>1. pc'[w] = there /\ \A i \in Workers : i # w => pc'[i] = pc[i]
  BY DEF PoolInv, PoolTyped
<1>2. \A i \in Workers : i # none
  BY DEF Workers
<1> QED
  BY <1>1, <1>2 DEF HolderInv, HolderWrites, NoneKilledBefore

LEMMA HolderWork ==
    ASSUME PoolInv, HolderInv, NEW w \in Workers, Work(w)
    PROVE  HolderInv'
<1>1. CASE Hash(w) \/ Exhaust(w) \/ CheckStop(w) \/ Exit(w)
  <2>1. /\ UNCHANGED <<lock, par, killed>>
        /\ pc[w] \notin {"tickWrite", "finalWrite"}
        /\ \E there : pc' = [pc EXCEPT ![w] = there]
    BY <1>1 DEF Hash, Exhaust, CheckStop, Exit, parVars
  <2> QED
    BY <2>1, HolderMoves
<1>2. CASE ReadCounter(w)
  <2>1. PICK there \in {"tickWrite", "finalWrite"} : pc' = [pc EXCEPT ![w] = there]
    BY <1>2 DEF ReadCounter
  <2>2. lock' = w /\ UNCHANGED <<par, killed>>
    BY <1>2 DEF ReadCounter, parVars
  <2> QED
    BY <2>1, <2>2, HolderMoves
<1>3. CASE WriteCounter(w)
  <2>1. /\ lock' = none /\ UNCHANGED <<par, killed>>
        /\ \E there : pc' = [pc EXCEPT ![w] = there]
    BY <1>3 DEF WriteCounter, parVars
  <2> QED
    BY <2>1, HolderMoves
<1>4. CASE FeedBegins(w) \/ Feed(w)
  <2>1. UNCHANGED <<pc, lock, par, killed>>
    BY <1>4 DEF FeedBegins, Feed, parVars
  <2> QED
    BY <2>1 DEF HolderInv, HolderWrites, NoneKilledBefore
<1>5. CASE Dies(w)
  <2>1. /\ w \in killed /\ UNCHANGED <<lock, par, killed>>
        /\ \A i \in Workers : i # w => pc'[i] = pc[i]
    BY <1>5 DEF Dies, parVars, PoolInv, PoolTyped
  <2> QED
    BY <2>1 DEF HolderInv, HolderWrites, NoneKilledBefore
<1> QED
  BY <1>1, <1>2, <1>3, <1>4, <1>5 DEF Work

LEMMA HolderParent ==
    ASSUME PoolInv, HolderInv, Parent
    PROVE  HolderInv'
<1>1. CASE Take \/ Drained \/ Report \/ Continue \/ StopPool \/ DrainOne \/ DrainEnds
  <2>1. /\ UNCHANGED <<pc, lock, killed>>
        /\ par \in {"drain", "report", "check", "empty"}
    BY <1>1 DEF Take, Drained, Report, Continue, StopPool, DrainOne, DrainEnds, workVars, parVars
  <2> QED
    BY <2>1 DEF HolderInv, HolderWrites, NoneKilledBefore
<1>2. CASE Join
  <2>1. UNCHANGED <<pc, lock, killed>> /\ par = "join"
    BY <1>2 DEF Join, workVars
  <2> QED
    BY <2>1 DEF HolderInv, HolderWrites, NoneKilledBefore
<1>3. CASE SkipDead \/ Reap
  <2>1. UNCHANGED <<pc, lock, killed>> /\ Advance("term", "stopped")
    BY <1>3 DEF SkipDead, Reap, workVars
  <2>2. par' \in {"term", "stopped"}
    BY <2>1 DEF Advance
  <2> QED
    BY <2>1, <2>2 DEF HolderInv, HolderWrites, NoneKilledBefore
<1>4. CASE Terminate
  <2>1. UNCHANGED <<pc, lock>> /\ killed \subseteq killed' /\ par' = "reap"
    BY <1>4 DEF Terminate, workVars
  <2> QED
    BY <2>1 DEF HolderInv, HolderWrites, NoneKilledBefore
<1>5. CASE start_pool
  <2>1. lock' = none /\ killed' = {} /\ \A i \in Workers : i # none
    BY <1>5 DEF start_pool, Workers
  <2> QED
    BY <2>1 DEF HolderInv, HolderWrites, NoneKilledBefore
<1> QED
  BY <1>1, <1>2, <1>3, <1>4, <1>5 DEF Parent

(* For any number of workers: when mine() waits for the lock of the        *)
(* counter, its holder is a process that lives and will release it, for    *)
(* the signals of stop_pool come after the last report.                    *)
THEOREM ReportIsNotLockedOut == Spec => []HolderIsAlive
<1>1. Init => HolderInv
  <2>1. \A i \in Workers : i # none
    BY DEF Workers
  <2> QED
    BY <2>1 DEF Init, HolderInv, HolderWrites, NoneKilledBefore
<1>2. PoolInv /\ HolderInv /\ [Next]_vars => HolderInv'
  <2> SUFFICES ASSUME PoolInv, HolderInv, [Next]_vars PROVE HolderInv'
    OBVIOUS
  <2>1. CASE UNCHANGED vars
    BY <2>1 DEF HolderInv, HolderWrites, NoneKilledBefore, vars, workVars, parVars
  <2> QED
    BY <2>1, HolderWork, HolderParent DEF Next
<1>3. RestTyped /\ HolderInv => HolderIsAlive
  <2> SUFFICES ASSUME RestTyped, HolderInv, par = "report", lock # none
               PROVE  pc[lock] # "dead"
    BY DEF HolderIsAlive
  <2>1. lock \in Workers /\ killed = {}
    BY DEF RestTyped, StopTyped, HolderInv, NoneKilledBefore
  <2> QED
    BY <2>1 DEF HolderInv, HolderWrites
<1> QED
  BY <1>1, <1>2, <1>3, PoolInvariant, RestAlways, PTL DEF Spec
=============================================================================
