----------------------------- MODULE ShareLedger -----------------------------
(***************************************************************************)
(* What the miner promises about the shares it finds, without threads,     *)
(* request ids or connections: a share is journaled in SQLite first, then  *)
(* settled at most once by a verdict of the pool, and a settled share is   *)
(* counted (metrics, statistics) and announced once, announced only when   *)
(* its row says accepted.  ShareFlow implements this.                      *)
(***************************************************************************)
EXTENDS Integers, FiniteSets

CONSTANT Shares

VARIABLES
    row,       \* the share's row: absent, pending, accepted or rejected
    settling,  \* settled shares not yet counted
    accepted,  \* hopehash_shares_accepted_total
    rejected,  \* hopehash_shares_rejected_total
    told       \* shares announced as accepted

vars == <<row, settling, accepted, rejected, told>>

Init ==
    /\ row = [s \in Shares |-> "absent"]
    /\ settling = {}
    /\ accepted = 0 /\ rejected = 0
    /\ told = {}

Journal(s) ==
    /\ row[s] = "absent"
    /\ row' = [row EXCEPT ![s] = "pending"]
    /\ UNCHANGED <<settling, accepted, rejected, told>>

Settle(s, verdict) ==
    /\ row[s] = "pending"
    /\ row' = [row EXCEPT ![s] = verdict]
    /\ settling' = settling \cup {s}
    /\ UNCHANGED <<accepted, rejected, told>>

Count(s) ==
    /\ s \in settling
    /\ settling' = settling \ {s}
    /\ \/ /\ row[s] = "accepted"
          /\ accepted' = accepted + 1
          /\ told' = told \cup {s}
          /\ UNCHANGED rejected
       \/ /\ row[s] = "rejected"
          /\ rejected' = rejected + 1
          /\ UNCHANGED <<accepted, told>>
    /\ UNCHANGED row

Next ==
    \E s \in Shares :
        Journal(s) \/ Count(s) \/ \E v \in {"accepted", "rejected"} : Settle(s, v)

Spec == Init /\ [][Next]_vars
=============================================================================
