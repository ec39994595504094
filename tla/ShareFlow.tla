------------------------------ MODULE ShareFlow ------------------------------
(***************************************************************************)
(* The way of a share from a worker's find to the verdict of the pool:     *)
(* the drain loop of mine() and its on_share_result callback (miner.py),   *)
(* _send, submit, the handshake, _handle_message and the reader thread     *)
(* (stratum.py), and the session resets of run_session.                    *)
(*                                                                         *)
(* Threads: mine() in the main thread; the supervisor, which runs the      *)
(* handshake; the reader, which handles messages while a session is up.    *)
(* One reader at a time: Supervisor shows that without /restart there is   *)
(* never a second one.  A step ends where a thread can be preempted with   *)
(* an effect another thread can see: at a lock, at I/O, at a call.  In     *)
(* particular _send increments req_id and builds the message in one step   *)
(* (no call lies between, so CPython does not switch threads), sends in a  *)
(* second, and reads req_id again for its result in a third.               *)
(*                                                                         *)
(* A connection delivers in order and loses what is in flight when it      *)
(* ends; the pool answers requests in any order and may answer one twice.  *)
(***************************************************************************)
EXTENDS Integers, Sequences, FiniteSets, Functions

CONSTANTS
    Shares,        \* the shares the workers can find
    JobIds,        \* job ids a pool announces; it may announce one again
    SuggestDiff,   \* TRUE if --suggest-diff is given
    MaxSessions,   \* bound: connections made
    MaxRepeats,    \* bound: replies the pool sends a second time
    none           \* model value

Stages == {"subscribe", "authorize", "suggest"}

ASSUME ShareFlowAssumption ==
    /\ SuggestDiff \in BOOLEAN
    /\ MaxSessions \in Nat /\ MaxRepeats \in Nat
    /\ none \notin Shares \cup JobIds \cup Stages
    /\ Shares \cap Stages = {}

VARIABLES
    mine,      \* where mine() is
    mineJob,   \* current_job_id
    queue,     \* found_queue
    hand,      \* the find being recorded and submitted
    mid,       \* mine()'s request id: in the message, later the one returned
    pending,   \* _pending_submits, as a set of (id, share) entries
    total,     \* hopehash_shares_total, StatsSnapshot.shares_total
    sup,       \* where the supervisor is
    stage,     \* request of the handshake under way
    step,      \* ... and how far it got
    sid,       \* the supervisor's request id, as mid
    reqId,     \* client.req_id
    submitIds, \* client._submit_req_ids
    job,       \* client.current_job, by its job_id
    en1,       \* TRUE if client.extranonce1 is not empty
    rd,        \* where the thread that reads the socket is in the callback
    msg,       \* the reply it handles
    entry,     \* the share it popped from _pending_submits
    accepted, rejected,  \* the two verdict counters
    told,      \* shares announced by notify_share_accepted
    row,       \* accepted column of the share's row, absent if there is none
    toPool,    \* requests on the wire or at the pool
    toClient,  \* replies on the wire
    repeats,   \* requests answered more than once so far
    (* History, read by properties only. *)
    conn,      \* number of the connection
    begun,     \* connection that was up when the share's submit began, or 0
    verdicts,  \* how many verdicts the share's row received
    dropped    \* finds discarded with the worker pool's queue

mineVars  == <<mine, mineJob, queue, hand, mid, total>>
supVars   == <<sup, stage, step, sid, conn>>
readVars  == <<rd, msg, entry, accepted, rejected, told>>
wireVars  == <<toPool, toClient, repeats>>
pastVars  == <<begun, verdicts, dropped>>
jobVars   == <<job, en1>>
vars == <<mineVars, supVars, readVars, wireVars, pastVars,
          pending, reqId, submitIds, jobVars, row>>

Found == Range(queue) \cup dropped \cup {s \in Shares : row[s] # "absent"}

Init ==
    /\ mine = "wait" /\ mineJob = none /\ queue = <<>> /\ hand = none /\ mid = 0
    /\ pending = {} /\ total = 0
    /\ sup = "down" /\ stage = "subscribe" /\ step = "build" /\ sid = 0 /\ conn = 0
    /\ reqId = 0 /\ submitIds = {} /\ job = none /\ en1 = FALSE
    /\ rd = "idle" /\ msg = none /\ entry = none
    /\ accepted = 0 /\ rejected = 0 /\ told = {}
    /\ row = [s \in Shares |-> "absent"]
    /\ toPool = {} /\ toClient = <<>> /\ repeats = 0
    /\ begun = [s \in Shares |-> 0]
    /\ verdicts = [s \in Shares |-> 0]
    /\ dropped = {}

-----------------------------------------------------------------------------
(* mine() *)

(* A worker process puts a share of the current job into found_queue.      *)
Find(s) ==
    /\ mine # "wait"
    /\ s \notin Found
    /\ queue' = Append(queue, s)
    /\ UNCHANGED <<mine, mineJob, hand, mid, total, supVars, readVars, wireVars, pastVars,
                   pending, reqId, submitIds, jobVars, row>>

(* The outer loop found a job: the entries of _pending_submits are thrown  *)
(* away and a worker pool is started.                                      *)
StartPool ==
    /\ mine = "wait" /\ job # none /\ en1
    /\ mine' = "drain" /\ mineJob' = job
    /\ pending' = {}
    /\ UNCHANGED <<queue, hand, mid, total, supVars, readVars, wireVars, pastVars,
                   reqId, submitIds, jobVars, row>>

(* get_nowait and record_share: the row says accepted=False, "no verdict". *)
Journal ==
    /\ mine = "drain" /\ queue # <<>>
    /\ hand' = Head(queue) /\ queue' = Tail(queue)
    /\ row' = [row EXCEPT ![Head(queue)] = "no"]
    /\ mine' = "build"
    /\ UNCHANGED <<mineJob, mid, total, supVars, readVars, wireVars, pastVars,
                   pending, reqId, submitIds, jobVars>>

NextIdStuck == reqId   \* mutant: req_id is not incremented

NextId == reqId + 1

(* _send: `self.req_id += 1` and the message that carries the new id.      *)
MineBuild ==
    /\ mine = "build"
    /\ reqId' = NextId /\ mid' = NextId
    /\ begun' = [begun EXCEPT ![hand] = IF sup = "up" THEN conn ELSE 0]
    /\ mine' = "transmit"
    /\ UNCHANGED <<mineJob, queue, hand, total, supVars, readVars, wireVars, verdicts, dropped,
                   pending, submitIds, jobVars, row>>

(* sendall on whatever socket client.sock is by now; a closed or broken    *)
(* one raises OSError, which mine() logs: the share stays unsent.          *)
MineTransmit ==
    /\ mine = "transmit"
    /\ \/ /\ sup \in {"handshake", "up"}
          /\ toPool' = toPool \cup {[id |-> mid, for |-> hand]}
          /\ mine' = "return"
       \/ /\ mine' = "count"
          /\ UNCHANGED toPool
    /\ UNCHANGED <<mineJob, queue, hand, mid, total, supVars, readVars, toClient, repeats, pastVars,
                   pending, reqId, submitIds, jobVars, row>>

(* `return self.req_id`: the attribute is read again, after the send.      *)
MineReturn ==
    /\ mine = "return"
    /\ mid' = reqId
    /\ mine' = "track"
    /\ UNCHANGED <<mineJob, queue, hand, total, supVars, readVars, wireVars, pastVars,
                   pending, reqId, submitIds, jobVars, row>>

(* submit(): only now is the id known as that of a submit.                 *)
Track ==
    /\ mine = "track"
    /\ submitIds' = submitIds \cup {mid}
    /\ mine' = "register"
    /\ UNCHANGED <<mineJob, queue, hand, mid, total, supVars, readVars, wireVars, pastVars,
                   pending, reqId, jobVars, row>>

(* `_pending_submits[req_id] = ...` replaces an entry with the same id.    *)
Register ==
    /\ mine = "register"
    /\ pending' = {p \in pending : p.id # mid} \cup {[id |-> mid, share |-> hand]}
    /\ mine' = "count"
    /\ UNCHANGED <<mineJob, queue, hand, mid, total, supVars, readVars, wireVars, pastVars,
                   reqId, submitIds, jobVars, row>>

CountFoundNot ==   \* mutant: the total is not incremented
    /\ mine = "count"
    /\ mine' = "drain" /\ hand' = none /\ mid' = 0
    /\ UNCHANGED <<mineJob, queue, total, supVars, readVars, wireVars, pastVars,
                   pending, reqId, submitIds, jobVars, row>>

(* counter_inc and record_share(accepted=None), sent or not.               *)
CountFound ==
    /\ mine = "count"
    /\ total' = total + 1
    /\ mine' = "drain" /\ hand' = none /\ mid' = 0
    /\ UNCHANGED <<mineJob, queue, supVars, readVars, wireVars, pastVars,
                   pending, reqId, submitIds, jobVars, row>>

(* get_nowait raised queue.Empty; the job is looked at next.               *)
Drained ==
    /\ mine = "drain" /\ queue = <<>>
    /\ mine' = "check"
    /\ UNCHANGED <<mineJob, queue, hand, mid, total, supVars, readVars, wireVars, pastVars,
                   pending, reqId, submitIds, jobVars, row>>

(* The job is unchanged: sleep, drain again.  Another job, none, or all    *)
(* workers done with their nonces: stop_pool, which reads what is still in *)
(* the queue and drops it.                                                 *)
CheckJob ==
    /\ mine = "check"
    /\ \/ /\ job = mineJob
          /\ mine' = "drain"
          /\ UNCHANGED <<mineJob, queue, dropped>>
       \/ /\ mine' = "wait" /\ mineJob' = none
          /\ dropped' = dropped \cup Range(queue)
          /\ queue' = <<>>
    /\ UNCHANGED <<hand, mid, total, supVars, readVars, wireVars, begun, verdicts, pending,
                   reqId, submitIds, jobVars, row>>

MineNext ==
    \/ StartPool \/ Journal \/ MineBuild \/ MineTransmit \/ MineReturn
    \/ Track \/ Register \/ CountFound \/ Drained \/ CheckJob
-----------------------------------------------------------------------------
(* The supervisor: resets, connection, handshake *)

mineSide == <<mineVars, pastVars, pending, row>>

(* run_session, its resets before connect(), one lock at a time.           *)
ResetId ==
    /\ sup = "down"
    /\ reqId' = 0
    /\ sup' = "reset"
    /\ UNCHANGED <<mineSide, stage, step, sid, conn, readVars, wireVars, submitIds, jobVars>>

(* The second half also ends set_endpoint, which a rotation of the pools   *)
(* calls before run_session; only set_endpoint forgets extranonce1.        *)
ResetSession ==
    /\ sup = "reset"
    /\ submitIds' = {}
    /\ job' = none
    /\ \/ sup' = "connect" /\ UNCHANGED en1
       \/ sup' = "down" /\ en1' = FALSE
    /\ UNCHANGED <<mineSide, stage, step, sid, conn, readVars, wireVars, reqId>>

Connect ==
    /\ sup = "connect"
    /\ \/ /\ conn < MaxSessions
          /\ conn' = conn + 1
          /\ sup' = "handshake"
       \/ /\ sup' = "down"
          /\ UNCHANGED conn
    /\ UNCHANGED <<mineSide, stage, step, sid, readVars, wireVars, reqId, submitIds, jobVars>>

(* The same _send, in the supervisor thread.                               *)
HandshakeBuild ==
    /\ sup = "handshake" /\ step = "build"
    /\ reqId' = NextId /\ sid' = NextId
    /\ step' = "transmit"
    /\ UNCHANGED <<mineSide, sup, stage, conn, readVars, wireVars, submitIds, jobVars>>

HandshakeTransmit ==
    /\ sup = "handshake" /\ step = "transmit"
    /\ toPool' = toPool \cup {[id |-> sid, for |-> stage]}
    /\ step' = "return"
    /\ UNCHANGED <<mineSide, sup, stage, sid, conn, readVars, toClient, repeats,
                   reqId, submitIds, jobVars>>

(* The handshake's local variables are gone.                               *)
NoHandshake == stage' = "subscribe" /\ step' = "build" /\ sid' = 0

(* `return self.req_id`; suggest_difficulty expects no reply.              *)
HandshakeReturn ==
    /\ sup = "handshake" /\ step = "return"
    /\ IF stage = "suggest"
       THEN sup' = "up" /\ NoHandshake
       ELSE step' = "await" /\ sid' = reqId /\ UNCHANGED <<sup, stage>>
    /\ UNCHANGED <<mineSide, conn, readVars, wireVars, reqId, submitIds, jobVars>>

CanRead == rd = "idle" /\ (sup = "up" \/ (sup = "handshake" /\ step = "await"))

(* `result is True`: what subscribe is answered with is a list.            *)
ResultIsTrue(m) == m.ok /\ m.for # "subscribe"

(* The message ends the wait for the reply to the request under way.       *)
Awaited(m) ==
    /\ sup = "handshake"
    /\ m.id = sid
    /\ stage = "subscribe" => m.ok

Lose == toPool' = {} /\ toClient' = <<>>

(* The awaited reply.  subscribe wants a list (indexing True raises),      *)
(* authorize wants True; anything else ends the session.                   *)
HandshakeReply ==
    /\ CanRead /\ toClient # <<>> /\ Awaited(Head(toClient))
    /\ LET m == Head(toClient)
           fits == IF stage = "subscribe" THEN ~ResultIsTrue(m) ELSE ResultIsTrue(m)
       IN  \/ /\ fits
              /\ toClient' = Tail(toClient)
              /\ \/ /\ stage = "subscribe" \/ SuggestDiff
                    /\ stage' = IF stage = "subscribe" THEN "authorize" ELSE "suggest"
                    /\ step' = "build"
                    /\ en1' = (en1 \/ stage = "subscribe")
                    /\ UNCHANGED <<sup, sid>>
                 \/ /\ stage = "authorize" /\ ~SuggestDiff
                    /\ sup' = "up" /\ NoHandshake /\ UNCHANGED en1
              /\ UNCHANGED toPool
           \/ ~fits /\ sup' = "down" /\ Lose /\ NoHandshake /\ UNCHANGED en1
    /\ UNCHANGED <<mineSide, conn, readVars, repeats, reqId, submitIds, job>>

(* The connection breaks, falls silent or is refused; what is in flight is *)
(* lost, the reader ends, the socket is closed.                            *)
SessionEnds ==
    /\ CanRead \/ (sup = "handshake" /\ step = "transmit")
    /\ sup' = "down"
    /\ Lose /\ NoHandshake
    /\ UNCHANGED <<mineSide, conn, readVars, repeats, reqId, submitIds, jobVars>>

SupNext ==
    \/ ResetId \/ ResetSession \/ Connect \/ HandshakeBuild \/ HandshakeTransmit
    \/ HandshakeReturn \/ HandshakeReply \/ SessionEnds

-----------------------------------------------------------------------------
(* _handle_message, in the reader thread or, during the handshake, in the  *)
(* supervisor's                                                            *)

(* mining.notify.                                                          *)
Notify ==
    /\ CanRead
    /\ job' \in JobIds
    /\ UNCHANGED <<mineSide, supVars, readVars, wireVars, reqId, submitIds, en1>>

(* mining.set_extranonce forgets the job.                                  *)
SetExtranonce ==
    /\ CanRead
    /\ job' = none /\ en1' = TRUE
    /\ UNCHANGED <<mineSide, supVars, readVars, wireVars, reqId, submitIds>>

(* A reply: its id is discarded from _submit_req_ids if it is there, and   *)
(* on_share_result is called; a reply with another id has no effect.       *)
HandleReply ==
    /\ CanRead /\ toClient # <<>> /\ ~Awaited(Head(toClient))
    /\ toClient' = Tail(toClient)
    /\ LET m == Head(toClient)
       IN  \/ /\ m.id \in submitIds
              /\ submitIds' = submitIds \ {m.id}
              /\ rd' = "pop" /\ msg' = m
           \/ /\ m.id \notin submitIds
              /\ UNCHANGED <<submitIds, rd, msg>>
    /\ UNCHANGED <<mineSide, supVars, entry, accepted, rejected, told, toPool, repeats,
                   reqId, jobVars>>

PopKeeps ==   \* mutant: the entry is read, not removed
    /\ rd = "pop"
    /\ \E p \in pending : p.id = msg.id /\ entry' = p.share
    /\ rd' = "store"
    /\ UNCHANGED <<mineVars, supVars, msg, accepted, rejected, told, wireVars, pastVars,
                   pending, reqId, submitIds, jobVars, row>>

PopUnchecked ==   \* mutant: a missing entry is not skipped
    /\ rd = "pop"
    /\ IF \E p \in pending : p.id = msg.id
       THEN \E p \in pending :
                p.id = msg.id /\ entry' = p.share /\ pending' = pending \ {p}
       ELSE entry' = none /\ UNCHANGED pending
    /\ rd' = "store"
    /\ UNCHANGED <<mineVars, supVars, msg, accepted, rejected, told, wireVars, pastVars,
                   reqId, submitIds, jobVars, row>>

(* `_pending_submits.pop(req_id, None)`.                                   *)
Pop ==
    /\ rd = "pop"
    /\ \/ \E p \in pending :
            /\ p.id = msg.id
            /\ pending' = pending \ {p}
            /\ entry' = p.share
            /\ rd' = "store"
            /\ UNCHANGED msg
       \/ /\ \A p \in pending : p.id # msg.id
          /\ rd' = "idle" /\ msg' = none
          /\ UNCHANGED <<pending, entry>>
    /\ UNCHANGED <<mineVars, supVars, accepted, rejected, told, wireVars, pastVars,
                   reqId, submitIds, jobVars, row>>

StoreNot ==   \* mutant: the row keeps its first value
    /\ rd = "store"
    /\ verdicts' = [verdicts EXCEPT ![entry] = @ + 1]
    /\ rd' = "count"
    /\ UNCHANGED <<mineVars, supVars, msg, entry, accepted, rejected, told, wireVars,
                   begun, dropped, pending, reqId, submitIds, jobVars, row>>

(* update_share_accepted.                                                  *)
Store ==
    /\ rd = "store"
    /\ row' = [row EXCEPT ![entry] = IF ResultIsTrue(msg) THEN "yes" ELSE "no"]
    /\ verdicts' = [verdicts EXCEPT ![entry] = @ + 1]
    /\ rd' = "count"
    /\ UNCHANGED <<mineVars, supVars, msg, entry, accepted, rejected, told, wireVars, begun,
                   dropped, pending, reqId, submitIds, jobVars>>

CountVerdictTellsAll ==   \* mutant: rejected shares are announced as well
    /\ rd = "count"
    /\ IF ResultIsTrue(msg)
       THEN accepted' = accepted + 1 /\ UNCHANGED rejected
       ELSE rejected' = rejected + 1 /\ UNCHANGED accepted
    /\ told' = told \cup {entry}
    /\ rd' = "idle" /\ msg' = none /\ entry' = none
    /\ UNCHANGED <<mineVars, supVars, wireVars, pastVars,
                   pending, reqId, submitIds, jobVars, row>>

(* counter_inc, record_share(accepted=...) and, for an accepted share, the *)
(* notification.                                                           *)
CountVerdict ==
    /\ rd = "count"
    /\ IF ResultIsTrue(msg)
       THEN accepted' = accepted + 1 /\ told' = told \cup {entry} /\ UNCHANGED rejected
       ELSE rejected' = rejected + 1 /\ UNCHANGED <<accepted, told>>
    /\ rd' = "idle" /\ msg' = none /\ entry' = none
    /\ UNCHANGED <<mineVars, supVars, wireVars, pastVars,
                   pending, reqId, submitIds, jobVars, row>>

ReadNext == HandleReply \/ Pop \/ Store \/ CountVerdict

-----------------------------------------------------------------------------
(* The pool *)

poolFrame == <<mineSide, supVars, readVars, reqId, submitIds, jobVars>>

Answer ==
    \E r \in toPool, ok \in BOOLEAN :
        /\ toClient' = Append(toClient, [id |-> r.id, for |-> r.for, ok |-> ok])
        /\ \/ toPool' = toPool \ {r} /\ UNCHANGED repeats
           \/ /\ repeats < MaxRepeats   \* it will be answered again
              /\ repeats' = repeats + 1
              /\ UNCHANGED toPool
        /\ UNCHANGED poolFrame

Next ==
    \/ \E s \in Shares : Find(s)
    \/ MineNext \/ SupNext \/ Notify \/ SetExtranonce \/ ReadNext \/ Answer

Spec == Init /\ [][Next]_vars

-----------------------------------------------------------------------------
(* Properties *)

Requests == Shares \cup Stages

(* The type of every variable; mine() holds a share and the callback a     *)
(* reply and an entry just when they work on one.                          *)
TypeOK ==
    /\ mine \in {"wait", "drain", "build", "transmit", "return", "track",
                 "register", "count", "check"}
    /\ mineJob \in JobIds \cup {none} /\ job \in JobIds \cup {none}
    /\ en1 \in BOOLEAN
    /\ queue \in Seq(Shares)
    /\ hand \in IF mine \in {"wait", "drain", "check"} THEN {none} ELSE Shares
    /\ mid \in Nat /\ sid \in Nat /\ reqId \in Nat /\ conn \in 0..MaxSessions
    /\ pending \subseteq [id : Nat, share : Shares]
    /\ submitIds \subseteq Nat
    /\ total \in Nat /\ accepted \in Nat /\ rejected \in Nat
    /\ told \subseteq Shares
    /\ sup \in {"down", "reset", "connect", "handshake", "up"}
    /\ stage \in Stages /\ step \in {"build", "transmit", "return", "await"}
    /\ rd \in {"idle", "pop", "store", "count"}
    /\ msg \in IF rd = "idle" THEN {none} ELSE [id : Nat, for : Requests, ok : BOOLEAN]
    /\ entry \in IF rd \in {"idle", "pop"} THEN {none} ELSE Shares
    /\ row \in [Shares -> {"absent", "no", "yes"}]
    /\ toPool \subseteq [id : Nat, for : Requests]
    /\ toClient \in Seq([id : Nat, for : Requests, ok : BOOLEAN])
    /\ repeats \in 0..MaxRepeats
    /\ begun \in [Shares -> 0..MaxSessions]
    /\ verdicts \in [Shares -> Nat]
    /\ dropped \subseteq Shares

(* However replies, retries of ids and reconnects interleave, the row of a *)
(* share gets at most one verdict, so the accepted flag of a settled share *)
(* never changes again (pop under _pending_lock in _on_share_result).      *)
VerdictOnce == \A s \in Shares : verdicts[s] <= 1

(* A share whose submit began on the connection that is up takes its       *)
(* verdict from no other submit of that connection, nor from the           *)
(* handshake: the ids of one session never collide, whatever the order of  *)
(* the replies (req_id in _send, _submit_req_ids, _pending_submits).       *)
OwnVerdictInSession ==
    rd = "store" /\ begun[entry] = conn =>
        \/ msg.for = entry
        \/ msg.for \in Shares /\ begun[msg.for] # conn

(* hopehash_shares_total counts the rows of SQLite: each journaled share   *)
(* once, but for the one in hand, whether its submit succeeded or raised.  *)
TotalCountsRows ==
    total + (IF hand = none THEN 0 ELSE 1)
        = Cardinality({s \in Shares : row[s] # "absent"})

(* Between two callbacks the metrics, the rows and the notifications agree:*)
(* as many accepted as rows that say so, which are the announced ones, and *)
(* as many accepted and rejected as shares with a verdict.                 *)
LedgersAgree ==
    rd # "count" =>
        /\ told = {s \in Shares : row[s] = "yes"}
        /\ accepted = Cardinality(told)
        /\ accepted + rejected = Cardinality({s \in Shares : verdicts[s] > 0})

(* The threads together implement the ledger that ShareLedger describes.   *)
(* The code writes accepted=False both for "no answer yet" and for a       *)
(* rejection; the history variable verdicts tells them apart.              *)
Ledger == INSTANCE ShareLedger WITH
    row <- [s \in Shares |->
              IF row[s] = "absent" THEN "absent"
              ELSE IF verdicts[s] = 0 THEN "pending"
              ELSE IF row[s] = "yes" THEN "accepted" ELSE "rejected"],
    settling <- IF rd = "count" THEN {entry} ELSE {}

ImplementsLedger == Ledger!Spec

(* CLAIM of stop_pool, "first take out the shares already found, so that   *)
(* they are not lost" (parallel.py:248): violated, mine() never sees what  *)
(* stop_pool takes out of the queue.                                       *)
NoFindIsDropped == dropped = {}

(* CLAIM of mine(), "when the pool answers, on_share_result updates the    *)
(* flag through req_id" (miner.py:291): violated, the id is filed only     *)
(* after the message left, so the reply to a share sent on the connection  *)
(* that is up may be read while submit() is still returning.               *)
FastReplyIsCredited ==
    [][ /\ rd = "idle" /\ sup = "up" /\ toClient # <<>>
        /\ toClient' = Tail(toClient) /\ sup' = "up"
        /\ Head(toClient).for = hand /\ begun[hand] = conn
        => rd' = "pop" ]_vars
=============================================================================
