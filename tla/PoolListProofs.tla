--------------------------- MODULE PoolListProofs ---------------------------
(***************************************************************************)
(* Proofs about PoolList for every number of endpoints and every rotation  *)
(* threshold.                                                              *)
(***************************************************************************)
EXTENDS PoolList, TLAPS

(* `self._idx = (self._idx + 1) % len(self._endpoints)` without the        *)
(* modulus: the cyclic successor of an index of the list.                  *)
LEMMA CyclicSuccessor ==
    ASSUME NEW n \in Nat \ {0}, NEW i \in 0 .. n - 1
    PROVE  (i + 1) % n = IF i = n - 1 THEN 0 ELSE i + 1
<1>1. CASE i = n - 1
  BY <1>1, SMT
<1>2. CASE i # n - 1
  BY <1>2, SMT
<1> QED
  BY <1>1, <1>2

(* A saturating counter stays within its cap and never goes down.          *)
LEMMA BumpRange ==
    ASSUME NEW cap \in Nat, NEW n \in 0 .. cap
    PROVE  /\ Bump(n, cap) \in 0 .. cap
           /\ Bump(n, cap) >= n
           /\ Bump(n, cap) <= n + 1
           /\ n < cap => Bump(n, cap) = n + 1
BY DEF Bump
-----------------------------------------------------------------------------

(* Every call leaves the list well typed: the index stays inside the list, *)
(* the counters inside their caps.                                         *)
LEMMA PoolTypeStep ==
    ASSUME PoolTypeOK, [PoolNext]_poolVars
    PROVE  PoolTypeOK'
<1> USE PoolsAssumption DEF PoolTypeOK, Pools
<1>1. ASSUME _rotate_locked PROVE /\ idx' \in Pools
                                  /\ rotations' \in 0 .. RotationCap
                                  /\ visit' \in Nat
                                  /\ left' \in SUBSET Pools
  <2>1. idx' \in Pools
    BY <1>1, CyclicSuccessor DEF _rotate_locked
  <2>2. rotations' \in 0 .. RotationCap
    BY <1>1, BumpRange DEF _rotate_locked
  <2> QED
    BY <1>1, <2>1, <2>2 DEF _rotate_locked
<1>2. CASE mark_failed
  <2>1. Bump(failures[idx], FailureCap) \in 0 .. FailureCap
    BY BumpRange
  <2>2. failures' \in [Pools -> 0 .. FailureCap]
    BY <1>2, <2>1 DEF mark_failed
  <2>3. CASE MarkFailedRotates /\ _rotate_locked
    BY <1>1, <2>2, <2>3
  <2>4. CASE ~MarkFailedRotates /\ visit' = visit + 1 /\ UNCHANGED <<idx, rotations, left>>
    BY <2>2, <2>4
  <2> QED
    BY <1>2, <2>3, <2>4 DEF mark_failed
<1>3. CASE mark_success
  BY <1>3 DEF mark_success
<1>4. CASE rotate
  BY <1>1, <1>4 DEF rotate
<1>5. CASE reset_round
  BY <1>5 DEF reset_round
<1>6. CASE UNCHANGED poolVars
  BY <1>6 DEF poolVars
<1> QED
  BY <1>2, <1>3, <1>4, <1>5, <1>6 DEF PoolNext

-----------------------------------------------------------------------------

(* The failures of the current visit are among those the counter holds,    *)
(* and the visit would have ended had there been rotate_after of them.     *)
VisitInv ==
    /\ visit < RotateAfter
    /\ visit <= failures[idx]

LEMMA VisitStep ==
    ASSUME PoolTypeOK, VisitInv, [PoolNext]_poolVars
    PROVE  VisitInv'
<1> USE PoolsAssumption DEF PoolTypeOK, VisitInv
<1>0. PoolTypeOK'
  BY PoolTypeStep
<1>1. ASSUME _rotate_locked PROVE VisitInv'
  <2>1. failures'[idx'] \in 0 .. FailureCap
    BY <1>0
  <2> QED
    BY <1>1, <2>1 DEF _rotate_locked
<1>2. CASE mark_failed
  <2>1. CASE MarkFailedRotates /\ _rotate_locked
    BY <1>1, <2>1
  <2>2. CASE ~MarkFailedRotates /\ visit' = visit + 1 /\ UNCHANGED <<idx, rotations, left>>
    <3>0. failures[idx] \in 0 .. FailureCap
      OBVIOUS
    <3>1. failures'[idx] = Bump(failures[idx], FailureCap)
      BY <1>2 DEF mark_failed
    <3>2. Bump(failures[idx], FailureCap) < RotateAfter
      BY <2>2, <3>0, BumpRange DEF MarkFailedRotates
    <3>3. failures[idx] < FailureCap
      BY <3>0, <3>2 DEF Bump
    <3>4. Bump(failures[idx], FailureCap) = failures[idx] + 1
      BY <3>0, <3>3, BumpRange
    <3> QED
      BY <2>2, <3>1, <3>2, <3>4
  <2> QED
    BY <1>2, <2>1, <2>2 DEF mark_failed
<1>3. CASE mark_success
  BY <1>0, <1>3 DEF mark_success
<1>4. CASE rotate
  BY <1>1, <1>4 DEF rotate
<1>5. CASE reset_round
  BY <1>5 DEF reset_round
<1>6. CASE UNCHANGED poolVars
  BY <1>6 DEF poolVars
<1> QED
  BY <1>2, <1>3, <1>4, <1>5, <1>6 DEF PoolNext

-----------------------------------------------------------------------------

(* The endpoints rotated away from since the round began include the       *)
(* `rotations` endpoints just before the current one, in cyclic order.     *)
InRound(p, i, r) == (p < i /\ p >= i - r) \/ p >= i - r + NPools

RoundInv == \A p \in Pools : InRound(p, idx, rotations) => p \in left

(* One rotation adds the endpoint it leaves, and no other, to the round.   *)
LEMMA RoundGrows ==
    ASSUME NEW i \in Pools, NEW r \in Nat, NEW rr \in Nat, rr <= r + 1,
           NEW p \in Pools,
           InRound(p, IF i = NPools - 1 THEN 0 ELSE i + 1, rr)
    PROVE  p = i \/ InRound(p, i, r)
BY PoolsAssumption DEF InRound, Pools

LEMMA NewRoundIsEmpty ==
    ASSUME NEW i \in Pools, NEW p \in Pools
    PROVE  ~InRound(p, i, 0)
BY PoolsAssumption DEF InRound, Pools

LEMMA RoundStep ==
    ASSUME PoolTypeOK, RoundInv, [PoolNext]_poolVars
    PROVE  RoundInv'
<1> USE PoolsAssumption DEF PoolTypeOK, Pools
<1>1. ASSUME _rotate_locked PROVE RoundInv'
  <2>1. left' = left \cup {idx}
    BY <1>1 DEF _rotate_locked
  <2>2. rotations' \in Nat /\ rotations' <= rotations + 1
    BY <1>1, BumpRange DEF _rotate_locked
  <2>3. idx' = IF idx = NPools - 1 THEN 0 ELSE idx + 1
    BY <1>1, CyclicSuccessor DEF _rotate_locked
  <2>4. ASSUME NEW p \in Pools, InRound(p, idx', rotations')
        PROVE  p = idx \/ InRound(p, idx, rotations)
    BY <2>2, <2>3, <2>4, RoundGrows
  <2> QED
    BY <2>1, <2>4 DEF RoundInv
<1>2. CASE mark_failed
  <2>1. CASE MarkFailedRotates /\ _rotate_locked
    BY <1>1, <2>1
  <2>2. CASE UNCHANGED <<idx, rotations, left>>
    BY <2>2 DEF RoundInv
  <2> QED
    BY <1>2, <2>1, <2>2 DEF mark_failed
<1>3. CASE mark_success
  BY <1>3, NewRoundIsEmpty DEF mark_success, RoundInv
<1>4. CASE rotate
  BY <1>1, <1>4 DEF rotate
<1>5. CASE reset_round
  BY <1>5, NewRoundIsEmpty DEF reset_round, RoundInv
<1>6. CASE UNCHANGED poolVars
  BY <1>6 DEF poolVars, RoundInv
<1> QED
  BY <1>2, <1>3, <1>4, <1>5, <1>6 DEF PoolNext

-----------------------------------------------------------------------------

PoolInv == PoolTypeOK /\ VisitInv /\ RoundInv

LEMMA PoolInitInv == PoolInit => PoolInv
BY PoolsAssumption
   DEF PoolInit, PoolInv, PoolTypeOK, VisitInv, RoundInv, InRound, Pools

LEMMA PoolInvStep ==
    ASSUME PoolInv, [PoolNext]_poolVars
    PROVE  PoolInv'
BY PoolTypeStep, VisitStep, RoundStep DEF PoolInv

(* What the invariant gives to whoever uses the list.                      *)
LEMMA PoolInvImplies ==
    ASSUME PoolInv
    PROVE  PoolTypeOK /\ PatienceBounded /\ FullCycleMeansAll
<1>1. PoolTypeOK /\ PatienceBounded
  BY DEF PoolInv, VisitInv, PatienceBounded
<1>2. FullCycleMeansAll
  <2> SUFFICES ASSUME rotations >= NPools PROVE left = Pools
    BY DEF FullCycleMeansAll, full_cycle_failed
  <2>1. ASSUME NEW p \in Pools PROVE p \in left
    BY <2>1, PoolsAssumption DEF PoolInv, PoolTypeOK, RoundInv, InRound, Pools
  <2> QED
    BY <1>1, <2>1 DEF PoolTypeOK
<1> QED
  BY <1>1, <1>2

(* For every list length and threshold: no pool that is current collects   *)
(* rotate_after failures in one visit (mark_failed, pools.py:108-115).     *)
THEOREM PatienceIsBounded == PoolSpec => []PatienceBounded
<1>1. PoolInv /\ [PoolNext]_poolVars => PoolInv'
  BY PoolInvStep
<1>2. PoolInv => PatienceBounded
  BY PoolInvImplies
<1> QED
  BY PoolInitInv, <1>1, <1>2, PTL DEF PoolSpec

(* For every list length and threshold: full_cycle_failed() answers True   *)
(* only when every endpoint was rotated away from since the round began    *)
(* (pools.py:101-104).                                                     *)
THEOREM FullCycleIsComplete == PoolSpec => []FullCycleMeansAll
<1>1. PoolInv /\ [PoolNext]_poolVars => PoolInv'
  BY PoolInvStep
<1>2. PoolInv => FullCycleMeansAll
  BY PoolInvImplies
<1> QED
  BY PoolInitInv, <1>1, <1>2, PTL DEF PoolSpec

(* Both at once, as the supervisor relies on them (pools.py:101-149).      *)
THEOREM RotationStaysFair == PoolSpec => []RotationIsFair
BY PatienceIsBounded, FullCycleIsComplete, PTL DEF RotationIsFair
=============================================================================
