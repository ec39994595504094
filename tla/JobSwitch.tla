----------------------------- MODULE JobSwitch -----------------------------
(***************************************************************************)
(* What header the workers search: job, extranonce1, extranonce2 and       *)
(* difficulty as the client holds them (stratum.py), as mine() takes them  *)
(* (miner.py), and as the pool meant them.                                 *)
(*                                                                         *)
(* The supervisor and the reader write the client's fields one after the   *)
(* other, never at the same time; mine() reads them together.  The reply   *)
(* to subscribe writes extranonce1 and its size outside job_lock, but no   *)
(* call lies between the two writes, so CPython does not part them.        *)
(* An extranonce is an extranonce1 with the number of values that its      *)
(* extranonce2_size leaves, 1 << 8 * size; a job is its job_id.            *)
(***************************************************************************)
EXTENDS Integers, Sequences

CONSTANTS
    JobIds,      \* job ids; a pool may use one again for another job
    Pairs,       \* extranonces the pools hand out, as [pool, en1, max] records
    Diffs,       \* difficulties a pool sets
    InitDiff,    \* 1.0, the difficulty of a client that was told none
    none         \* model value

ASSUME JobSwitchAssumption ==
    /\ Pairs # {} /\ \A p \in Pairs : p.max \in Nat \ {0}
    /\ InitDiff \in Diffs
    /\ none \notin Pairs

Pools == {p.pool : p \in Pairs}

VARIABLES
    sup,      \* where the session is
    pool,     \* client.host
    job,      \* client.current_job
    en,       \* client.extranonce1 and extranonce2_size; none if empty
    diff,     \* client.difficulty
    mine,     \* where mine() is: looking for a job, or workers search one
    counter,  \* extranonce2_counter
    work,     \* what the workers search
    (* History, read by properties only. *)
    offer,    \* extranonce the pool works with
    replied,  \* whether the reply to subscribe of the session was read
    tried,    \* extranonce workers were started with for the job, or none
    recent    \* the extranonce2 used with it last, newest at the end

clientVars == <<job, en, diff>>
mineVars   == <<mine, counter, work, recent>>
poolVars   == <<offer, replied>>
vars == <<sup, pool, clientVars, mineVars, poolVars, tried>>

Init ==
    /\ sup = "off" /\ pool \in Pools
    /\ job = none /\ en = none /\ diff = InitDiff
    /\ mine = "look" /\ counter = 0 /\ work = none
    /\ offer = none /\ replied = FALSE
    /\ tried = none /\ recent = <<>>

-----------------------------------------------------------------------------
(* The session *)

SetEndpointOnly ==   \* mutant: extranonce1 outlives the pool, as it does a session
    /\ sup = "off"
    /\ pool' \in Pools
    /\ job' = none
    /\ UNCHANGED <<sup, en, diff, mineVars, poolVars, tried>>

(* set_endpoint, at a rotation of the pools; the difficulty stays.         *)
SetEndpoint ==
    /\ sup = "off"
    /\ pool' \in Pools
    /\ job' = none /\ en' = none
    /\ UNCHANGED <<sup, diff, mineVars, poolVars, tried>>

(* run_session: the job is dropped, extranonce1 is not; then connect.      *)
BeginSession ==
    /\ sup = "off"
    /\ job' = none
    /\ sup' = "subscribe"
    /\ offer' \in {p \in Pairs : p.pool = pool} /\ replied' = FALSE
    /\ UNCHANGED <<pool, en, diff, mineVars, tried>>

(* The reply to mining.subscribe.                                          *)
SubscribeReply ==
    /\ sup = "subscribe"
    /\ en' = offer /\ replied' = TRUE
    /\ sup' = "up"
    /\ UNCHANGED <<pool, job, diff, mineVars, offer, tried>>

SessionEnds ==
    /\ sup # "off"
    /\ sup' = "off"
    /\ UNCHANGED <<pool, clientVars, mineVars, poolVars, tried>>

(* Messages are handled by the reader, and by the handshake while it waits *)
(* for a reply.  mining.notify:                                            *)
Notify ==
    /\ sup # "off"
    /\ \E id \in JobIds : job' = [id |-> id, en |-> offer]
    /\ tried' = none
    /\ UNCHANGED <<sup, pool, en, diff, mineVars, poolVars>>

SetDifficulty ==
    /\ sup # "off"
    /\ diff' \in Diffs
    /\ UNCHANGED <<sup, pool, job, en, mineVars, poolVars, tried>>

SetExtranonceKeepsJob ==   \* mutant: the job stays
    /\ sup = "up"
    /\ en' \in {p \in Pairs : p.pool = pool} /\ offer' = en'
    /\ UNCHANGED <<sup, pool, job, diff, mineVars, replied, tried>>

(* mining.set_extranonce drops the job.                                    *)
SetExtranonce ==
    /\ sup = "up"
    /\ en' \in {p \in Pairs : p.pool = pool} /\ offer' = en'
    /\ job' = none
    /\ UNCHANGED <<sup, pool, diff, mineVars, replied, tried>>

-----------------------------------------------------------------------------
(* mine() *)

WrappedNot(c, max) == c   \* mutant: no wrap

(* `if extranonce2_counter >= en2_max: extranonce2_counter = 0`.           *)
Wrapped(c, max) == IF c >= max THEN 0 ELSE c

LastFew(s, n) == IF Len(s) > n THEN SubSeq(s, Len(s) - n + 1, Len(s)) ELSE s

StartWorkSameExtranonce ==   \* mutant: the counter restarts for every pool
    /\ mine = "look" /\ job # none /\ en # none
    /\ counter' = 1
    /\ work' = [job |-> job, en |-> en, diff |-> diff, replied |-> replied, en2 |-> 0]
    /\ recent' = LastFew(Append(IF tried = en THEN recent ELSE <<>>, 0), en.max)
    /\ tried' = en
    /\ mine' = "search"
    /\ UNCHANGED <<sup, pool, clientVars, poolVars>>

(* The snapshot under job_lock, extranonce2, the header and start_pool.    *)
StartWork ==
    /\ mine = "look" /\ job # none /\ en # none
    /\ LET en2 == Wrapped(counter, en.max)
       IN  /\ counter' = en2 + 1
           /\ work' = [job |-> job, en |-> en, diff |-> diff, replied |-> replied, en2 |-> en2]
           /\ recent' = LastFew(Append(IF tried = en THEN recent ELSE <<>>, en2), en.max)
    /\ tried' = en
    /\ mine' = "search"
    /\ UNCHANGED <<sup, pool, clientVars, poolVars>>

JobChangedOnly == job # none /\ job.id # work.job.id   \* mutant: a dropped job is overlooked

(* `not cj or cj["job_id"] != current_job_id`.                             *)
JobChanged == ~(job # none /\ job.id = work.job.id)

(* The job changed: stop_pool, and back to the start.                      *)
LeaveWork ==
    /\ mine = "search" /\ JobChanged
    /\ mine' = "look" /\ work' = none
    /\ UNCHANGED <<sup, pool, clientVars, counter, recent, poolVars, tried>>

(* All nonces are searched: the same job, another extranonce2.             *)
Exhausted ==
    /\ mine = "search"
    /\ mine' = "look" /\ work' = none
    /\ UNCHANGED <<sup, pool, clientVars, counter, recent, poolVars, tried>>

MineNext == StartWork \/ LeaveWork \/ Exhausted

Next ==
    \/ SetEndpoint \/ BeginSession \/ SubscribeReply \/ SessionEnds
    \/ Notify \/ SetDifficulty \/ SetExtranonce
    \/ MineNext

Spec == Init /\ [][Next]_vars

(* mine() polls in its own thread; nothing is assumed of pool and session. *)
FairSpec == Spec /\ WF_vars(StartWork) /\ WF_vars(LeaveWork)

-----------------------------------------------------------------------------
(* Properties *)

JobRecords == [id : JobIds, en : Pairs]

(* Besides the types: extranonce2 fits into the bytes the pool reserved.   *)
TypeOK ==
    /\ sup \in {"off", "subscribe", "up"}
    /\ pool \in Pools
    /\ job \in JobRecords \cup {none}
    /\ en \in Pairs \cup {none} /\ diff \in Diffs
    /\ mine \in {"look", "search"}
    /\ counter \in Nat
    /\ IF mine = "look"
       THEN work = none
       ELSE /\ work \in [job : JobRecords, en : Pairs, diff : Diffs, replied : BOOLEAN,
                         en2 : Nat]
            /\ work.en2 < work.en.max
    /\ offer \in Pairs \cup {none} /\ replied \in BOOLEAN
    /\ tried \in Pairs \cup {none}
    /\ recent \in Seq(Nat)

(* A search that begins after the reply to subscribe was read is made with *)
(* the extranonce its job was announced for, also when the job came before *)
(* the reply, and through every mining.set_extranonce: with another, every *)
(* share would be rejected.  Before the reply the code does not ensure it: *)
(* at a reconnect to the same pool the extranonce of before still stands.  *)
HeaderMatchesOffer ==
    mine = "search" /\ work.replied => work.en = work.job.en

(* At any time, before the reply too: a job of one pool is never searched  *)
(* with an extranonce of another (set_endpoint empties extranonce1, and    *)
(* mine() waits until it is set).                                          *)
NoForeignExtranonce ==
    mine = "search" => work.en.pool = work.job.en.pool

(* A job is not searched twice with one extranonce2 before all values were *)
(* used, over exhausted nonce spaces, wraps and changes of the size.       *)
NoWorkTwice ==
    \A i, j \in 1 .. Len(recent) : recent[i] = recent[j] => i = j

(* Workers follow the client: when a job stays, they come to search one    *)
(* with its id, and when there is no job they come to rest (the check of   *)
(* job_id at the end of each round of the drain loop).  A new difficulty   *)
(* alone does not stop a search, but if searches keep ending, the workers  *)
(* come to search with the difficulty that stays.                          *)
WorkersFollow ==
    /\ \A j \in JobIds :
          <>[](job # none /\ job.id = j /\ en # none)
             => []<>(mine = "search" /\ work.job.id = j)
    /\ <>[](job = none) => <>[](mine = "look")
    /\ \A d \in Diffs :
          <>[](diff = d) /\ []<>(mine = "look") => <>[](mine = "search" => work.diff = d)
=============================================================================
