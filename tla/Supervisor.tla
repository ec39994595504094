----------------------------- MODULE Supervisor -----------------------------
(***************************************************************************)
(* The connection supervisor of Hope-Hash: supervisor_loop and run_session *)
(* of miner.py, reader_loop, set_endpoint, connect, close and the handshake*)
(* of stratum.py, over the endpoint list of PoolList.  The actors are the  *)
(* supervisor thread, the reader threads it starts, the operator (/stop,   *)
(* /restart, Ctrl+C) and the pools.                                        *)
(*                                                                         *)
(* Sockets are not numbered.  What matters is whether a thread, a message  *)
(* or a job belongs to the connection client.sock now names ("cur") or to  *)
(* an earlier one ("old"); connect() turns every "cur" into "old".         *)
(* Time is not modelled: a timed wait may end at any moment, by its        *)
(* timeout or by stop_event.                                               *)
(***************************************************************************)
EXTENDS PoolList, FiniteSets

CONSTANTS
    Readers,      \* identities for reader threads; one is reused once it ended
    MaxBackoff,   \* cap of the reconnect delay in seconds, 60 in the code
    MaxRestarts,  \* bound: how many /restart commands the operator sends
    none          \* model value: no reader thread

ASSUME SupervisorAssumption ==
    /\ MaxBackoff \in Nat \ {0}
    /\ MaxRestarts \in Nat
    /\ none \notin Readers

VARIABLES
    sup,        \* where the supervisor thread is
    host,       \* client.host / client.port
    backoff,    \* the local variable of supervisor_loop
    watched,    \* reader_thread
    stop,       \* stop_event
    restart,    \* restart_event
    closing,    \* handlers that set their event and will call client.close()
    sock,       \* client.sock: never set, connected, cut by the peer, closed
    job,        \* whose connection client.current_job came from
    reader,     \* the reader threads
    up,         \* pools that accept and answer the handshake now
    (* History, read by properties only. *)
    restarts,   \* /restart commands sent so far
    tried       \* endpoints attempted since the last pause

supVars == <<sup, host, backoff, watched>>
netVars == <<sock, job, reader, up>>
opVars  == <<stop, restart, closing, restarts>>
vars    == <<poolVars, supVars, netVars, opVars, tried>>

Origins == {"none", "cur", "old"}

ReaderStates == [at : {"off", "loop", "recv", "handle"}, conn : Origins]

SupStates == {"start", "check", "connect", "handshake", "watch", "join",
              "ended", "failed", "cyclewait", "wait", "done"}

TypeOK ==
    /\ PoolTypeOK
    /\ sup \in SupStates
    /\ host \in Pools
    /\ backoff \in 1 .. MaxBackoff
    /\ watched \in Readers \cup {none}
    /\ stop \in BOOLEAN /\ restart \in BOOLEAN
    /\ closing \subseteq {"stop", "restart"}
    /\ sock \in {"none", "open", "lost", "closed"}
    /\ job \in Origins
    /\ reader \in [Readers -> ReaderStates]
    /\ up \in SUBSET Pools
    /\ restarts \in 0 .. MaxRestarts
    /\ tried \in SUBSET Pools

Init ==
    /\ PoolInit
    /\ sup = "start" /\ host = 0 /\ backoff = 1 /\ watched = none
    /\ sock = "none" /\ job = "none"
    /\ reader = [r \in Readers |-> [at |-> "off", conn |-> "none"]]
    /\ up \in SUBSET Pools
    /\ stop = FALSE /\ restart = FALSE /\ closing = {} /\ restarts = 0
    /\ tried = {}

Off == [at |-> "off", conn |-> "none"]

Alive(r) == reader[r].at # "off"

(* A reader the supervisor does not hold a reference to any more.          *)
Zombies == {r \in Readers : Alive(r) /\ (r # watched \/ sup \notin {"watch", "join"})}

Aged(origin) == IF origin = "cur" THEN "old" ELSE origin

DoubleUncapped(b) == 2 * b   \* mutant: no upper bound on the delay

Double(b) == IF 2 * b < MaxBackoff THEN 2 * b ELSE MaxBackoff

Closed == IF sock = "none" THEN "none" ELSE "closed"

-----------------------------------------------------------------------------
(* The supervisor thread *)

set_endpoint_job_only(p) == job' = "none" /\ UNCHANGED host   \* mutant: host, port kept

(* Re-aims the client and drops what belonged to the endpoint before.      *)
set_endpoint(p) == host' = p /\ job' = "none"

(* Before the loop the client is aimed at the list's current endpoint.     *)
Start ==
    /\ sup = "start"
    /\ sup' = "check"
    /\ set_endpoint(idx)
    /\ UNCHANGED <<poolVars, backoff, watched, sock, reader, up, opVars, tried>>

BeginSessionKeepsJob ==   \* mutant: run_session does not clear current_job
    /\ sup = "check"
    /\ sup' = IF stop THEN "done" ELSE "connect"
    /\ UNCHANGED <<poolVars, host, backoff, watched, netVars, opVars, tried>>

(* `while not stop_event.is_set()`, then the resets that open run_session. *)
BeginSession ==
    /\ sup = "check"
    /\ \/ stop  /\ sup' = "done" /\ UNCHANGED job
       \/ ~stop /\ sup' = "connect" /\ job' = "none"
    /\ UNCHANGED <<poolVars, host, backoff, watched, sock, reader, up, opVars, tried>>

(* connect(): create_connection succeeds or raises; what the client knew   *)
(* before becomes old when the new socket replaces the one in client.sock. *)
Connect ==
    /\ sup = "connect"
    /\ tried' = tried \cup {host}
    /\ \/ /\ sup' = "handshake"
          /\ sock' = "open"
          /\ job' = Aged(job)
          /\ reader' = [r \in Readers |-> [reader[r] EXCEPT !.conn = Aged(@)]]
       \/ /\ host \notin up
          /\ sup' = "failed"
          /\ UNCHANGED <<sock, job, reader>>
    /\ UNCHANGED <<poolVars, host, backoff, watched, up, stop, restart, closing, restarts>>

(* subscribe_and_authorize: a message that is not the awaited reply goes   *)
(* to _handle_message, which may install a job.  stop_event is not read.   *)
HandshakeMessage ==
    /\ sup = "handshake"
    /\ sock = "open"
    /\ job' = "cur"
    /\ UNCHANGED <<poolVars, supVars, sock, reader, up, opVars, tried>>

(* Both replies arrived: the reader thread is started, and the supervisor  *)
(* resets the delay and calls mark_success.                                *)
HandshakeOk ==
    /\ sup = "handshake"
    /\ sock = "open"
    /\ host \in up
    /\ \E r \in Readers :
        /\ ~Alive(r)
        /\ reader' = [reader EXCEPT ![r] = [at |-> "loop", conn |-> "none"]]
        /\ watched' = r
    /\ sup' = "watch"
    /\ backoff' = 1
    /\ mark_success
    /\ UNCHANGED <<host, sock, job, up, opVars, tried>>

(* The handshake raises: the pool refused, hung up, stayed silent for the  *)
(* 30 s of the socket timeout, or another reader ate part of its replies.  *)
HandshakeFails ==
    /\ sup = "handshake"
    /\ host \notin up \/ sock \in {"lost", "closed"} \/ Zombies # {}
    /\ sup' = "failed"
    /\ UNCHANGED <<poolVars, host, backoff, watched, netVars, opVars, tried>>

WatchReturnsAtOnce ==   \* mutant: the supervisor does not wait for its reader
    /\ sup = "watch"
    /\ sup' = "ended"
    /\ UNCHANGED <<poolVars, host, backoff, watched, netVars, opVars, tried>>

(* `while reader_thread.is_alive() and not stop_event.is_set()`.           *)
Watch ==
    /\ sup = "watch"
    /\ sup' = IF Alive(watched) /\ ~stop THEN "join" ELSE "ended"
    /\ UNCHANGED <<poolVars, host, backoff, watched, netVars, opVars, tried>>

JoinIgnoresRestart ==   \* mutant: restart_event is never looked at
    /\ sup = "join"
    /\ sup' = "watch"
    /\ UNCHANGED <<poolVars, host, backoff, watched, netVars, opVars, tried>>

(* After join(timeout=1.0): a pending /restart closes the socket, clears   *)
(* the event and leaves the loop at once; the reader is not joined.        *)
JoinReturns ==
    /\ sup = "join"
    /\ \/ /\ restart
          /\ sock' = Closed
          /\ restart' = FALSE
          /\ sup' = "ended"
       \/ /\ ~restart
          /\ sup' = "watch"
          /\ UNCHANGED <<sock, restart>>
    /\ UNCHANGED <<poolVars, host, backoff, watched, job, reader, up,
                   stop, closing, restarts, tried>>

(* After a session that had come up: close, then the delay.                *)
SessionEnded ==
    /\ sup = "ended"
    /\ \/ stop  /\ sup' = "done" /\ UNCHANGED sock
       \/ ~stop /\ sup' = "wait" /\ sock' = Closed
    /\ UNCHANGED <<poolVars, host, backoff, watched, job, reader, up, opVars, tried>>

(* After a session that did not come up: close and mark_failed; a rotation *)
(* re-aims the client (set_endpoint drops the job) and goes straight to    *)
(* the next endpoint unless the whole round has failed.                    *)
SessionFailed ==
    /\ sup = "failed"
    /\ \/ /\ stop
          /\ sup' = "done"
          /\ UNCHANGED <<poolVars, host, sock, job>>
       \/ /\ ~stop
          /\ sock' = Closed
          /\ mark_failed
          /\ \/ /\ MarkFailedRotates
                /\ set_endpoint(idx')
                /\ sup' = IF full_cycle_failed' THEN "cyclewait" ELSE "check"
             \/ /\ ~MarkFailedRotates
                /\ sup' = "wait"
                /\ UNCHANGED <<host, job>>
    /\ UNCHANGED <<backoff, watched, reader, up, opVars, tried>>

(* The pause after a full round of failures; the code then falls through   *)
(* to the ordinary pause below.                                            *)
CycleWait ==
    /\ sup = "cyclewait"
    /\ \/ stop  /\ sup' = "done" /\ UNCHANGED <<poolVars, backoff, tried>>
       \/ /\ ~stop
          /\ sup' = "wait"
          /\ backoff' = Double(backoff)
          /\ reset_round
          /\ tried' = {}
    /\ UNCHANGED <<host, watched, netVars, opVars>>

Wait ==
    /\ sup = "wait"
    /\ \/ stop  /\ sup' = "done" /\ UNCHANGED <<backoff, tried>>
       \/ /\ ~stop
          /\ sup' = "check"
          /\ backoff' = Double(backoff)
          /\ tried' = {}
    /\ UNCHANGED <<poolVars, host, watched, netVars, opVars>>

SupNext ==
    \/ Start \/ BeginSession \/ Connect \/ HandshakeOk \/ HandshakeFails
    \/ Watch \/ JoinReturns \/ SessionEnded \/ SessionFailed \/ CycleWait \/ Wait

-----------------------------------------------------------------------------
(* The reader threads *)

SetReader(r, at, conn) == reader' = [reader EXCEPT ![r] = [at |-> at, conn |-> conn]]

(* `while not stop_event.is_set()` and the call of self.sock.recv: the     *)
(* socket is looked up now, whoever the thread was started for.            *)
ReaderLoop(r) ==
    /\ reader[r].at = "loop"
    /\ stop \/ sock = "closed"
    /\ reader' = [reader EXCEPT ![r] = Off]
    /\ UNCHANGED <<poolVars, supVars, sock, job, up, opVars, tried>>

ReaderBlocksAnyway(r) ==   \* mutant: the loop test on stop_event is dropped
    /\ reader[r].at = "loop"
    /\ sock \in {"open", "lost"}
    /\ SetReader(r, "recv", "cur")
    /\ UNCHANGED <<poolVars, supVars, sock, job, up, opVars, tried>>

ReaderBlocks(r) ==
    /\ reader[r].at = "loop"
    /\ ~stop /\ sock \in {"open", "lost"}
    /\ SetReader(r, "recv", "cur")
    /\ UNCHANGED <<poolVars, supVars, sock, job, up, opVars, tried>>

(* recv returns a message of the connection it was called on.              *)
ReaderReceives(r) ==
    /\ reader[r].at = "recv" /\ reader[r].conn = "cur" /\ sock = "open"
    /\ SetReader(r, "handle", "cur")
    /\ UNCHANGED <<poolVars, supVars, sock, job, up, opVars, tried>>

(* recv raises: the peer hung up, close() was called under it, or nothing  *)
(* came for the 30 s of the socket timeout.  close() does not interrupt a  *)
(* blocked recv on every platform, so the thread may outlive it a while.   *)
(* A malformed message can also end the thread while it handles it.        *)
ReaderFails(r) ==
    /\ reader[r].at \in {"recv", "handle"}
    /\ reader' = [reader EXCEPT ![r] = Off]
    /\ UNCHANGED <<poolVars, supVars, sock, job, up, opVars, tried>>

(* _handle_message: mining.notify installs a job, the rest does not.       *)
ReaderHandles(r) ==
    /\ reader[r].at = "handle"
    /\ SetReader(r, "loop", "none")
    /\ job' \in {job, reader[r].conn}
    /\ UNCHANGED <<poolVars, supVars, sock, up, opVars, tried>>

ReaderNext(r) ==
    ReaderLoop(r) \/ ReaderBlocks(r) \/ ReaderReceives(r) \/ ReaderFails(r) \/ ReaderHandles(r)

-----------------------------------------------------------------------------
(* The operator and the pools *)

(* The Telegram /stop handler and the end of main() set the event and then *)
(* close the socket; the q key of the TUI only sets the event.             *)
Stop ==
    /\ ~stop
    /\ stop' = TRUE
    /\ closing' \in {closing, closing \cup {"stop"}}
    /\ UNCHANGED <<poolVars, supVars, netVars, restart, restarts, tried>>

(* The /restart handler sets the event; it runs in one thread, so a second *)
(* command is read only after the handler's close().                       *)
Restart ==
    /\ restarts < MaxRestarts
    /\ "restart" \notin closing
    /\ restart' = TRUE
    /\ closing' = closing \cup {"restart"}
    /\ restarts' = restarts + 1
    /\ UNCHANGED <<poolVars, supVars, netVars, stop, tried>>

(* client.close() in a handler: it closes whichever socket the client has  *)
(* by now.                                                                 *)
HandlerCloses ==
    /\ \E h \in closing : closing' = closing \ {h}
    /\ sock' = Closed
    /\ UNCHANGED <<poolVars, supVars, job, reader, up, stop, restart, restarts, tried>>

PoolsChange ==
    /\ up' \in SUBSET Pools
    /\ up' # up
    /\ UNCHANGED <<poolVars, supVars, sock, job, reader, opVars, tried>>

(* A pool outside `up` may also drop a connection it had accepted.         *)
PeerHangsUp ==
    /\ sock = "open" /\ host \notin up
    /\ sock' = "lost"
    /\ UNCHANGED <<poolVars, supVars, job, reader, up, opVars, tried>>

Next ==
    \/ SupNext \/ HandshakeMessage
    \/ \E r \in Readers : ReaderNext(r)
    \/ Stop \/ Restart \/ HandlerCloses \/ PoolsChange \/ PeerHangsUp

Spec == Init /\ [][Next]_vars

(* The threads keep running; a handshake ends (the pool answers, refuses   *)
(* or falls silent for 30 s) and so does a recv.  Nothing is assumed of    *)
(* the operator, of further messages or of the pools coming up.            *)
Fairness ==
    /\ WF_vars(SupNext)
    /\ \A r \in Readers : WF_vars(ReaderNext(r))

FairSpec == Spec /\ Fairness
-----------------------------------------------------------------------------

(* No hot reconnect loop: an endpoint is not attempted twice without a     *)
(* backoff pause between the attempts, although a rotation skips the pause *)
(* (miner.py:133-141).                                                     *)
NoHotReconnect == sup = "connect" => host \notin tried

(* The failure of an attempt is charged to the endpoint that was attempted:*)
(* client.host and the list's index agree whenever mark_failed or          *)
(* mark_success can be called (miner.py:86-87, 113-120).                   *)
BlamesTheRightPool == sup \in {"connect", "handshake", "failed", "watch"} => host = idx

(* The only source of surplus reader threads is /restart: each command     *)
(* leaves at most one reader of an abandoned session behind, and without   *)
(* one the supervisor never has two readers on the same client.            *)
SurplusReadersComeFromRestart ==
    Cardinality({r \in Readers : Alive(r)}) <= 1 + restarts

(* Without /restart the job mine() sees was never announced on a           *)
(* connection older than the one shares would be submitted on, across any  *)
(* number of reconnects and rotations.                                     *)
JobIsOfThisConnection == restarts = 0 => job # "old"

(* If some pool is reachable from some time on, and no stray reader eats   *)
(* its replies, sessions keep being established: failover does not get     *)
(* stuck on dead pools, whatever the others do.                            *)
Failover ==
    \A p \in Pools :
        <>[](p \in up /\ ~stop /\ Zombies = {}) => []<>(sup = "watch")

(* Once stop_event is set the supervisor and every reader thread end.      *)
StopEndsThreads == stop ~> (sup = "done" /\ \A r \in Readers : ~Alive(r))

(* A /restart that meets an established session leads to a new connection  *)
(* attempt (unless the miner is stopped first).                            *)
RestartReconnects ==
    (restart /\ sup \in {"watch", "join"}) ~> (sup = "connect" \/ stop)
=============================================================================
