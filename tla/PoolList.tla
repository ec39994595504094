------------------------------ MODULE PoolList ------------------------------
(***************************************************************************)
(* PoolList of src/hope_hash/pools.py: the round-robin list of mining      *)
(* pools with a failure counter per endpoint.  Every public method takes   *)
(* the object's RLock, so one method call is one atomic action here.       *)
(*                                                                         *)
(* Endpoints are their positions 0 .. NPools-1 in the deduplicated list.   *)
(* The two counters are unbounded integers in Python and are only ever     *)
(* compared with a threshold (_rotate_after, len(_endpoints)); they        *)
(* saturate here at FailureCap and RotationCap, which lie at or above the  *)
(* threshold, so every comparison has the outcome it has in the code.      *)
(***************************************************************************)
EXTENDS Integers

CONSTANTS
    NPools,        \* number of endpoints left after the constructor's dedup
    RotateAfter,   \* rotate_after_failures
    FailureCap,    \* bound: where an endpoint's failure counter saturates
    RotationCap    \* bound: where the rotations counter saturates

ASSUME PoolsAssumption ==
    /\ NPools \in Nat \ {0}
    /\ RotateAfter \in Nat \ {0}
    /\ FailureCap \in Nat /\ FailureCap >= RotateAfter
    /\ RotationCap \in Nat /\ RotationCap >= NPools

Pools == 0 .. NPools - 1

VARIABLES
    idx,        \* _idx
    failures,   \* _failures
    rotations,  \* _rotations_since_success
    (* History, read by properties only. *)
    visit,      \* failures reported since the current pool became current
                \* or was last confirmed by mark_success
    left        \* pools rotated away from since the round began

poolVars == <<idx, failures, rotations, visit, left>>

PoolTypeOK ==
    /\ idx \in Pools
    /\ failures \in [Pools -> 0 .. FailureCap]
    /\ rotations \in 0 .. RotationCap
    /\ visit \in Nat
    /\ left \in SUBSET Pools

PoolInit ==
    /\ idx = 0
    /\ failures = [p \in Pools |-> 0]
    /\ rotations = 0
    /\ visit = 0
    /\ left = {}

Bump(n, cap) == IF n < cap THEN n + 1 ELSE cap

full_cycle_failed_late == rotations > NPools   \* mutant

full_cycle_failed == rotations >= NPools

_rotate_stays ==   \* mutant: the index is not moved
    /\ rotations' = Bump(rotations, RotationCap)
    /\ visit' = 0
    /\ left' = left \cup {idx}
    /\ UNCHANGED idx

_rotate_locked ==
    /\ idx' = (idx + 1) % NPools
    /\ rotations' = Bump(rotations, RotationCap)
    /\ visit' = 0
    /\ left' = left \cup {idx}

(* The condition under which mark_failed rotates and returns True: the     *)
(* counter it has just incremented reached the threshold.                  *)
MarkFailedRotatesLate == Bump(failures[idx], FailureCap) > RotateAfter   \* mutant
MarkFailedRotates == Bump(failures[idx], FailureCap) >= RotateAfter

mark_failed ==
    /\ failures' = [failures EXCEPT ![idx] = Bump(@, FailureCap)]
    /\ \/ MarkFailedRotates /\ _rotate_locked
       \/ ~MarkFailedRotates /\ visit' = visit + 1 /\ UNCHANGED <<idx, rotations, left>>

mark_success ==
    /\ failures' = [failures EXCEPT ![idx] = 0]
    /\ rotations' = 0
    /\ visit' = 0
    /\ left' = {}
    /\ UNCHANGED idx

rotate ==
    /\ _rotate_locked
    /\ UNCHANGED failures

reset_round ==
    /\ rotations' = 0
    /\ left' = {}
    /\ UNCHANGED <<idx, failures, visit>>

PoolNext == mark_failed \/ mark_success \/ rotate \/ reset_round

PoolSpec == PoolInit /\ [][PoolNext]_poolVars

-----------------------------------------------------------------------------

(* Patience is bounded: a pool that is current never collects              *)
(* rotate_after failures in a row without being rotated away from, however *)
(* old its counter is and whatever mix of calls came before.               *)
PatienceBounded == visit < RotateAfter

(* When full_cycle_failed() says the whole round failed, every endpoint    *)
(* really was given up since the last success or reset_round: supervisor   *)
(* never starts a backoff pause while some pool was not tried.             *)
FullCycleMeansAll == full_cycle_failed => left = Pools

(* Rotation is fair in both respects: no pool outstays its patience, and   *)
(* none is passed over in a round that counts as failed (pools.py:101-149).*)
RotationIsFair == PatienceBounded /\ FullCycleMeansAll
=============================================================================
