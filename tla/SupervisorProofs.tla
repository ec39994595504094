-------------------------- MODULE SupervisorProofs --------------------------
(***************************************************************************)
(* Safety of the supervisor for every list of endpoints, threshold, delay  *)
(* cap and set of reader identities.                                       *)
(***************************************************************************)
EXTENDS Supervisor, PoolListProofs, FiniteSetTheorems

USE PoolsAssumption, SupervisorAssumption

(* The conjuncts of TypeOK the safety arguments need.                      *)
Typed ==
    /\ PoolTypeOK
    /\ sup \in SupStates
    /\ host = idx
    /\ tried \in SUBSET Pools

(* A round is complete only in the pause that follows it (or when the loop *)
(* is left during that pause); everything tried                            *)
(* since the last pause was rotated away from in this round, save the      *)
(* endpoint being tried, until a pause or a success makes it irrelevant.   *)
RoundOpen == sup \notin {"cyclewait", "done"} => rotations < NPools

TriedInRound ==
    \A p \in tried :
        /\ sup \in {"start", "check", "connect"} => InRound(p, idx, rotations)
        /\ sup \in {"handshake", "failed"} => p = idx \/ InRound(p, idx, rotations)

FailoverInv == Typed /\ RoundOpen /\ TriedInRound

(* While the round is open the current endpoint is not part of it yet.     *)
LEMMA CurrentIsOutOfRound ==
    ASSUME NEW i \in Pools, NEW r \in Nat, r < NPools
    PROVE  ~InRound(i, i, r)
BY DEF InRound, Pools

(* A rotation carries the round over and adds the endpoint it leaves.      *)
LEMMA RoundCarriesOver ==
    ASSUME NEW i \in Pools, NEW r \in Nat, NEW p \in Pools,
           p = i \/ InRound(p, i, r)
    PROVE  InRound(p, IF i = NPools - 1 THEN 0 ELSE i + 1, r + 1)
BY DEF InRound, Pools

LEMMA FailoverInit == Init => FailoverInv
BY DEF Init, PoolInit, FailoverInv, Typed, PoolTypeOK, SupStates,
       RoundOpen, TriedInRound, Pools

(* Steps that touch neither the list, nor the target, nor the supervisor's *)
(* own position.                                                           *)
LEMMA FailoverFrame ==
    ASSUME FailoverInv, UNCHANGED <<poolVars, sup, host, tried>>
    PROVE  FailoverInv'
BY DEF FailoverInv, Typed, PoolTypeOK, RoundOpen, TriedInRound, poolVars

(* Steps of the supervisor that leave the list and the target alone.       *)
LEMMA FailoverSupFrame ==
    ASSUME FailoverInv, UNCHANGED <<poolVars, host>>, sup' \in SupStates,
           tried' \in SUBSET Pools, RoundOpen', TriedInRound'
    PROVE  FailoverInv'
BY DEF FailoverInv, Typed, PoolTypeOK, poolVars

LEMMA BeginSessionStep ==
    ASSUME FailoverInv, BeginSession
    PROVE  FailoverInv'
<1>1. /\ sup = "check" /\ sup' \in {"done", "connect"}
      /\ UNCHANGED <<poolVars, host, tried>>
      /\ idx' = idx /\ rotations' = rotations
  BY DEF BeginSession, poolVars
<1>2. RoundOpen'
  BY <1>1 DEF FailoverInv, RoundOpen
<1>3. TriedInRound'
  BY <1>1 DEF FailoverInv, TriedInRound
<1> QED
  BY <1>1, <1>2, <1>3, FailoverSupFrame DEF SupStates, FailoverInv, Typed

LEMMA ConnectStep ==
    ASSUME FailoverInv, Connect
    PROVE  FailoverInv'
<1>1. /\ sup = "connect" /\ sup' \in {"handshake", "failed"}
      /\ UNCHANGED <<poolVars, host>>
      /\ tried' = tried \cup {idx}
      /\ idx' = idx /\ rotations' = rotations
  BY DEF Connect, FailoverInv, Typed, poolVars
<1>2. RoundOpen'
  BY <1>1 DEF FailoverInv, RoundOpen
<1>3. TriedInRound'
  BY <1>1 DEF FailoverInv, TriedInRound
<1>4. tried' \in SUBSET Pools
  BY <1>1 DEF FailoverInv, Typed, PoolTypeOK
<1> QED
  BY <1>1, <1>2, <1>3, <1>4, FailoverSupFrame DEF SupStates

LEMMA HandshakeOkStep ==
    ASSUME FailoverInv, HandshakeOk
    PROVE  FailoverInv'
<1>1. /\ mark_success /\ sup' = "watch"
      /\ UNCHANGED <<host, tried>>
  BY DEF HandshakeOk
<1>2. PoolTypeOK'
  BY <1>1, PoolTypeStep DEF PoolNext, FailoverInv, Typed
<1>3. idx' = idx /\ rotations' = 0
  BY <1>1 DEF mark_success
<1> QED
  BY <1>1, <1>2, <1>3
     DEF FailoverInv, Typed, RoundOpen, TriedInRound, SupStates

LEMMA SessionFailedStep ==
    ASSUME FailoverInv, SessionFailed
    PROVE  FailoverInv'
<1>1. sup = "failed" /\ UNCHANGED tried
  BY DEF SessionFailed
<1>2. CASE stop
  <2>1. sup' = "done" /\ UNCHANGED <<poolVars, host>>
    BY <1>2 DEF SessionFailed
  <2>2. RoundOpen' /\ TriedInRound'
    BY <1>1, <2>1 DEF FailoverInv, RoundOpen, TriedInRound, poolVars
  <2> QED
    BY <1>1, <2>1, <2>2, FailoverSupFrame DEF SupStates, FailoverInv, Typed
<1>3. CASE ~stop
  <2>1. mark_failed
    BY <1>3 DEF SessionFailed
  <2>2. PoolTypeOK'
    BY <2>1, PoolTypeStep DEF PoolNext, FailoverInv, Typed
  <2>3. CASE ~MarkFailedRotates
    <3>1. sup' = "wait" /\ UNCHANGED host
      BY <1>3, <2>3 DEF SessionFailed
    <3>2. idx' = idx /\ rotations' = rotations
      BY <2>1, <2>3 DEF mark_failed
    <3>3. RoundOpen' /\ TriedInRound'
      BY <1>1, <3>1, <3>2 DEF FailoverInv, RoundOpen, TriedInRound
    <3> QED
      BY <1>1, <2>2, <3>1, <3>2, <3>3 DEF FailoverInv, Typed, SupStates
  <2>4. CASE MarkFailedRotates
    <3>1. _rotate_locked
      BY <2>1, <2>4 DEF mark_failed
    <3>2. host' = idx' /\ sup' = IF full_cycle_failed' THEN "cyclewait" ELSE "check"
      BY <1>3, <2>4 DEF SessionFailed, set_endpoint
    <3>3. idx' = IF idx = NPools - 1 THEN 0 ELSE idx + 1
      BY <3>1, CyclicSuccessor DEF _rotate_locked, FailoverInv, Typed, PoolTypeOK, Pools
    <3>4. rotations' = rotations + 1
      BY <1>1, <3>1 DEF _rotate_locked, Bump, FailoverInv, Typed, PoolTypeOK, RoundOpen
    <3>5. RoundOpen'
      BY <2>2, <3>2 DEF RoundOpen, full_cycle_failed, PoolTypeOK
    <3>6. ASSUME NEW p \in tried
          PROVE  InRound(p, idx', rotations')
      <4>1. p = idx \/ InRound(p, idx, rotations)
        BY <1>1 DEF FailoverInv, TriedInRound
      <4>2. p \in Pools /\ idx \in Pools /\ rotations \in Nat
        BY DEF FailoverInv, Typed, PoolTypeOK
      <4> QED
        BY <3>3, <3>4, <4>1, <4>2, RoundCarriesOver
    <3>7. TriedInRound'
      BY <1>1, <3>6 DEF TriedInRound
    <3> QED
      BY <1>1, <2>2, <3>2, <3>5, <3>7 DEF FailoverInv, Typed, SupStates
  <2> QED
    BY <2>3, <2>4
<1> QED
  BY <1>2, <1>3

LEMMA CycleWaitStep ==
    ASSUME FailoverInv, CycleWait
    PROVE  FailoverInv'
<1>1. sup = "cyclewait" /\ UNCHANGED host
  BY DEF CycleWait
<1>2. CASE stop
  <2>1. sup' = "done" /\ UNCHANGED <<poolVars, tried>>
    BY <1>2 DEF CycleWait
  <2>2. RoundOpen' /\ TriedInRound'
    BY <2>1 DEF RoundOpen, TriedInRound
  <2> QED
    BY <1>1, <2>1, <2>2, FailoverSupFrame DEF SupStates, FailoverInv, Typed
<1>3. CASE ~stop
  <2>1. reset_round /\ sup' = "wait" /\ tried' = {}
    BY <1>3 DEF CycleWait
  <2>2. PoolTypeOK'
    BY <2>1, PoolTypeStep DEF PoolNext, FailoverInv, Typed
  <2>3. idx' = idx /\ rotations' = 0
    BY <2>1 DEF reset_round
  <2> QED
    BY <1>1, <2>1, <2>2, <2>3
       DEF FailoverInv, Typed, RoundOpen, TriedInRound, SupStates
<1> QED
  BY <1>2, <1>3

LEMMA WaitStep ==
    ASSUME FailoverInv, Wait
    PROVE  FailoverInv'
<1>1. /\ sup = "wait" /\ sup' \in {"done", "check"}
      /\ UNCHANGED <<poolVars, host>>
      /\ rotations' = rotations
      /\ sup' = "check" => tried' = {}
      /\ tried' \in SUBSET Pools
  BY DEF Wait, FailoverInv, Typed, PoolTypeOK, poolVars
<1>2. RoundOpen' /\ TriedInRound'
  BY <1>1 DEF FailoverInv, RoundOpen, TriedInRound
<1> QED
  BY <1>1, <1>2, FailoverSupFrame DEF SupStates

(* The remaining positions of the supervisor carry no obligation about     *)
(* what was tried.                                                         *)
LEMMA OtherSupStep ==
    ASSUME FailoverInv, HandshakeFails \/ Watch \/ JoinReturns \/ SessionEnded
    PROVE  FailoverInv'
<1>1. /\ UNCHANGED <<poolVars, host, tried>>
      /\ idx' = idx /\ rotations' = rotations
      /\ \/ sup = "handshake" /\ sup' = "failed"
         \/ /\ sup \in {"watch", "join", "ended"}
            /\ sup' \in {"join", "ended", "watch", "wait", "done"}
  BY DEF HandshakeFails, Watch, JoinReturns, SessionEnded, poolVars
<1>2. RoundOpen' /\ TriedInRound'
  BY <1>1 DEF FailoverInv, RoundOpen, TriedInRound
<1> QED
  BY <1>1, <1>2, FailoverSupFrame DEF SupStates, FailoverInv, Typed

LEMMA StartStep ==
    ASSUME FailoverInv, Start
    PROVE  FailoverInv'
<1>1. /\ sup' = "check" /\ sup = "start" /\ host' = idx
      /\ UNCHANGED <<poolVars, tried>>
      /\ idx' = idx /\ rotations' = rotations
  BY DEF Start, set_endpoint, poolVars
<1>2. RoundOpen' /\ TriedInRound'
  BY <1>1 DEF FailoverInv, RoundOpen, TriedInRound
<1>3. host' = host
  BY <1>1 DEF FailoverInv, Typed
<1> QED
  BY <1>1, <1>2, <1>3, FailoverSupFrame DEF SupStates, FailoverInv, Typed

LEMMA FailoverStep ==
    ASSUME FailoverInv, [Next]_vars
    PROVE  FailoverInv'
<1>1. CASE SupNext
  BY <1>1, StartStep, BeginSessionStep, ConnectStep, HandshakeOkStep, OtherSupStep,
     SessionFailedStep, CycleWaitStep, WaitStep DEF SupNext
<1>2. CASE HandshakeMessage
  BY <1>2, FailoverFrame DEF HandshakeMessage, supVars
<1>3. ASSUME NEW r \in Readers, ReaderNext(r)
      PROVE  FailoverInv'
  BY <1>3, FailoverFrame
     DEF ReaderNext, ReaderLoop, ReaderBlocks, ReaderReceives, ReaderFails, ReaderHandles, supVars
<1>4. CASE Stop \/ Restart \/ HandlerCloses \/ PoolsChange \/ PeerHangsUp
  BY <1>4, FailoverFrame DEF Stop, Restart, HandlerCloses, PoolsChange, PeerHangsUp, supVars
<1>5. CASE UNCHANGED vars
  BY <1>5, FailoverFrame DEF vars, supVars
<1> QED
  BY <1>1, <1>2, <1>3, <1>4, <1>5 DEF Next

(* For every list, threshold and behaviour of the pools and the operator:  *)
(* no endpoint is attempted twice without a pause in between               *)
(* (supervisor_loop, miner.py:113-141).                                    *)
THEOREM NoHotReconnectLoop == Spec => []NoHotReconnect
<1>1. FailoverInv /\ [Next]_vars => FailoverInv'
  BY FailoverStep
<1>2. FailoverInv => NoHotReconnect
  <2> SUFFICES ASSUME FailoverInv, sup = "connect" PROVE host \notin tried
    BY DEF NoHotReconnect
  <2>1. idx \in Pools /\ rotations \in Nat /\ rotations < NPools /\ host = idx
    BY DEF FailoverInv, Typed, PoolTypeOK, RoundOpen
  <2> QED
    BY <2>1, CurrentIsOutOfRound DEF FailoverInv, TriedInRound
<1> QED
  BY FailoverInit, <1>1, <1>2, PTL DEF Spec

(* Success and failure are charged to the endpoint the client was aimed at *)
(* (miner.py:86-87, 113-120).                                              *)
THEOREM RightPoolIsBlamed == Spec => []BlamesTheRightPool
<1>1. FailoverInv /\ [Next]_vars => FailoverInv'
  BY FailoverStep
<1>2. FailoverInv => BlamesTheRightPool
  BY DEF FailoverInv, Typed, BlamesTheRightPool
<1> QED
  BY FailoverInit, <1>1, <1>2, PTL DEF Spec
-----------------------------------------------------------------------------
(* Without /restart: one reader, and only jobs of its connection.          *)

ReaderTyped ==
    /\ reader \in [Readers -> ReaderStates]
    /\ restarts \in Nat
    /\ restart => restarts > 0

(* A live reader is the one the supervisor is watching, or the supervisor  *)
(* is on its way out because of stop_event.                                *)
OnlyWatched ==
    \A r \in Readers :
        Alive(r) => /\ r = watched
                    /\ \/ sup \in {"watch", "join"}
                       \/ stop /\ sup \in {"ended", "done"}

(* What a reader holds in its hands came from the current connection.      *)
HandsAreCurrent ==
    \A r \in Readers : Alive(r) /\ reader[r].at # "loop" => reader[r].conn = "cur"

NoOldJob == job # "old" /\ (sup = "connect" => job = "none")

ReaderInv ==
    /\ ReaderTyped
    /\ restarts = 0 => OnlyWatched /\ HandsAreCurrent /\ NoOldJob

LEMMA ReaderInit == Init => ReaderInv
BY DEF Init, ReaderInv, ReaderTyped, OnlyWatched, HandsAreCurrent, NoOldJob,
       ReaderStates, Origins, Alive

(* A step of one reader neither starts a reader nor moves another one.     *)
LEMMA ReaderThreadStep ==
    ASSUME ReaderInv, NEW r \in Readers, ReaderNext(r)
    PROVE  ReaderInv'
<1>1. /\ UNCHANGED <<sup, watched, stop, restarts, restart>>
      /\ Alive(r)
      /\ \E s \in ReaderStates :
            /\ reader' = [reader EXCEPT ![r] = s]
            /\ s.at \in {"recv", "handle"} => s.conn = "cur"
  <2> DEFINE Moves(s) == /\ reader' = [reader EXCEPT ![r] = s]
                         /\ s.at \in {"recv", "handle"} => s.conn = "cur"
  <2>1. /\ UNCHANGED <<sup, watched, stop, restarts, restart>>
        /\ Alive(r)
    BY DEF ReaderNext, ReaderLoop, ReaderBlocks, ReaderReceives, ReaderFails,
           ReaderHandles, Alive, supVars, opVars
  <2>2. CASE ReaderLoop(r) \/ ReaderFails(r)
    <3>1. Off \in ReaderStates /\ Moves(Off)
      BY <2>2 DEF ReaderLoop, ReaderFails, Off, ReaderStates, Origins
    <3> QED
      BY <2>1, <3>1
  <2>3. CASE ReaderBlocks(r) \/ ReaderReceives(r) \/ ReaderHandles(r)
    <3>1. \/ \E at \in {"recv", "handle"} : SetReader(r, at, "cur")
          \/ SetReader(r, "loop", "none")
      BY <2>3 DEF ReaderBlocks, ReaderReceives, ReaderHandles
    <3>2. \E at \in {"loop", "recv", "handle"}, conn \in Origins :
            /\ reader' = [reader EXCEPT ![r] = [at |-> at, conn |-> conn]]
            /\ at \in {"recv", "handle"} => conn = "cur"
      BY <3>1 DEF SetReader, Origins
    <3>3. PICK at \in {"loop", "recv", "handle"}, conn \in Origins :
            /\ reader' = [reader EXCEPT ![r] = [at |-> at, conn |-> conn]]
            /\ at \in {"recv", "handle"} => conn = "cur"
      BY <3>2
    <3>4. [at |-> at, conn |-> conn] \in ReaderStates /\ Moves([at |-> at, conn |-> conn])
      BY <3>3 DEF ReaderStates
    <3> QED
      BY <2>1, <3>4
  <2> QED
    BY <2>2, <2>3 DEF ReaderNext
<1>2. PICK s \in ReaderStates :
            /\ reader' = [reader EXCEPT ![r] = s]
            /\ s.at \in {"recv", "handle"} => s.conn = "cur"
  BY <1>1
<1>3. job' = job \/ (reader[r].at = "handle" /\ job' = reader[r].conn)
  BY DEF ReaderNext, ReaderLoop, ReaderBlocks, ReaderReceives, ReaderFails, ReaderHandles
<1>4. ReaderTyped'
  BY <1>1, <1>2 DEF ReaderInv, ReaderTyped
<1>5. ASSUME restarts = 0
      PROVE  OnlyWatched' /\ HandsAreCurrent' /\ NoOldJob'
  <2>1. \A q \in Readers : q # r => reader'[q] = reader[q]
    BY <1>2 DEF ReaderInv, ReaderTyped
  <2>2. reader'[r] = s
    BY <1>2 DEF ReaderInv, ReaderTyped
  <2>3. OnlyWatched'
    BY <1>1, <1>5, <2>1 DEF ReaderInv, OnlyWatched, Alive
  <2>4. HandsAreCurrent'
    BY <1>2, <1>5, <2>1, <2>2 DEF ReaderInv, HandsAreCurrent, Alive, ReaderStates
  <2>5. NoOldJob'
    <3>1. sup # "connect"
      BY <1>1, <1>5 DEF ReaderInv, OnlyWatched
    <3>2. reader[r].at = "handle" => reader[r].conn = "cur"
      BY <1>1, <1>5 DEF ReaderInv, HandsAreCurrent
    <3> QED
      BY <1>1, <1>3, <1>5, <3>1, <3>2 DEF ReaderInv, NoOldJob
  <2> QED
    BY <2>3, <2>4, <2>5
<1> QED
  BY <1>1, <1>4, <1>5 DEF ReaderInv

(* Steps of the supervisor that leave the readers and the job alone and do *)
(* not abandon a live reader.                                              *)
LEMMA ReaderSupFrame ==
    ASSUME ReaderInv, UNCHANGED <<reader, watched, stop, restarts, restart>>,
           restarts = 0 => (sup' = "connect" => job' = "none") /\ job' # "old",
           restarts = 0 /\ sup \in {"watch", "join"} =>
               \/ sup' \in {"watch", "join"}
               \/ sup' = "ended" /\ (~Alive(watched) \/ stop),
           restarts = 0 /\ stop /\ sup = "ended" => sup' = "done",
           sup # "done"
    PROVE  ReaderInv'
BY DEF ReaderInv, ReaderTyped, OnlyWatched, HandsAreCurrent, Alive, NoOldJob

LEMMA ReaderConnectStep ==
    ASSUME ReaderInv, Connect
    PROVE  ReaderInv'
<1>1. /\ sup = "connect" /\ UNCHANGED <<watched, stop, restarts, restart>>
      /\ sup' \in {"handshake", "failed"}
      /\ job' = Aged(job) \/ job' = job
      /\ \/ reader' = [r \in Readers |-> [reader[r] EXCEPT !.conn = Aged(@)]]
         \/ reader' = reader
  BY DEF Connect
<1>2. /\ reader' \in [Readers -> ReaderStates]
      /\ \A r \in Readers : reader'[r].at = reader[r].at
  BY <1>1 DEF ReaderInv, ReaderTyped, ReaderStates, Aged, Origins
<1>3. ASSUME restarts = 0
      PROVE  OnlyWatched' /\ HandsAreCurrent' /\ NoOldJob'
  <2>1. \A r \in Readers : ~Alive(r)
    BY <1>1, <1>3 DEF ReaderInv, OnlyWatched
  <2>2. \A r \in Readers : ~Alive(r)'
    BY <1>2, <2>1 DEF Alive
  <2>3. job' = "none"
    BY <1>1, <1>3 DEF ReaderInv, NoOldJob, Aged
  <2> QED
    BY <1>1, <2>2, <2>3 DEF OnlyWatched, HandsAreCurrent, NoOldJob
<1> QED
  BY <1>1, <1>2, <1>3 DEF ReaderInv, ReaderTyped

LEMMA ReaderHandshakeOkStep ==
    ASSUME ReaderInv, HandshakeOk
    PROVE  ReaderInv'
<1>1. /\ sup = "handshake" /\ sup' = "watch"
      /\ UNCHANGED <<job, stop, restarts, restart>>
  BY DEF HandshakeOk, opVars
<1>2. PICK r \in Readers :
        /\ reader' = [reader EXCEPT ![r] = [at |-> "loop", conn |-> "none"]]
        /\ watched' = r
  BY DEF HandshakeOk
<1>3. ReaderTyped'
  BY <1>1, <1>2 DEF ReaderInv, ReaderTyped, ReaderStates, Origins
<1>4. ASSUME restarts = 0
      PROVE  OnlyWatched' /\ HandsAreCurrent' /\ NoOldJob'
  <2>1. \A q \in Readers : ~Alive(q)
    BY <1>1, <1>4 DEF ReaderInv, OnlyWatched
  <2>2. \A q \in Readers : q # r => ~Alive(q)'
    BY <1>2, <2>1 DEF Alive, ReaderInv, ReaderTyped
  <2>3. reader'[r].at = "loop"
    BY <1>2 DEF ReaderInv, ReaderTyped
  <2> QED
    BY <1>1, <1>2, <1>4, <2>2, <2>3
       DEF OnlyWatched, HandsAreCurrent, NoOldJob, ReaderInv
<1> QED
  BY <1>1, <1>3, <1>4 DEF ReaderInv

LEMMA ReaderJoinStep ==
    ASSUME ReaderInv, JoinReturns
    PROVE  ReaderInv'
<1>1. /\ sup = "join" /\ sup' \in {"ended", "watch"}
      /\ UNCHANGED <<watched, job, reader, stop, restarts>>
      /\ restart' => restart
      /\ ~restart => sup' = "watch"
  BY DEF JoinReturns
<1>2. restarts = 0 => ~restart
  BY DEF ReaderInv, ReaderTyped
<1> QED
  BY <1>1, <1>2
     DEF ReaderInv, ReaderTyped, OnlyWatched, HandsAreCurrent, NoOldJob, Alive

LEMMA ReaderStep ==
    ASSUME ReaderInv, [Next]_vars
    PROVE  ReaderInv'
<1>0. restarts = 0 => (sup = "connect" => job = "none") /\ job # "old"
  BY DEF ReaderInv, NoOldJob
<1>1. CASE SupNext
  <2>1. CASE Start \/ BeginSession \/ HandshakeFails \/ SessionFailed
    BY <1>0, <2>1, ReaderSupFrame
       DEF Start, BeginSession, HandshakeFails, SessionFailed, set_endpoint, netVars, opVars
  <2>2. CASE SessionEnded \/ CycleWait \/ Wait
    BY <1>0, <2>2, ReaderSupFrame
       DEF SessionEnded, CycleWait, Wait, netVars, opVars
  <2>3. CASE Watch
    BY <1>0, <2>3, ReaderSupFrame DEF Watch, netVars, opVars
  <2> QED
    BY <1>1, <2>1, <2>2, <2>3, ReaderConnectStep, ReaderHandshakeOkStep, ReaderJoinStep
       DEF SupNext
<1>2. CASE HandshakeMessage
  BY <1>2 DEF HandshakeMessage, ReaderInv, ReaderTyped, OnlyWatched,
              HandsAreCurrent, NoOldJob, Alive, supVars, opVars
<1>3. ASSUME NEW r \in Readers, ReaderNext(r)
      PROVE  ReaderInv'
  BY <1>3, ReaderThreadStep
<1>4. CASE Stop
  BY <1>4 DEF Stop, ReaderInv, ReaderTyped, OnlyWatched, HandsAreCurrent,
              NoOldJob, Alive, supVars, netVars
<1>5. CASE Restart
  <2>1. restarts' \in Nat /\ restarts' > 0 /\ UNCHANGED reader
    BY <1>5 DEF Restart, ReaderInv, ReaderTyped, netVars
  <2> QED
    BY <2>1 DEF ReaderInv, ReaderTyped
<1>6. CASE HandlerCloses \/ PoolsChange \/ PeerHangsUp \/ UNCHANGED vars
  <2>1. UNCHANGED <<sup, watched, stop, restart, restarts, reader, job>>
    BY <1>6 DEF HandlerCloses, PoolsChange, PeerHangsUp, vars, supVars, netVars, opVars
  <2> QED
    BY <2>1 DEF ReaderInv, ReaderTyped, OnlyWatched, HandsAreCurrent, NoOldJob, Alive
<1> QED
  BY <1>1, <1>2, <1>3, <1>4, <1>5, <1>6 DEF Next

(* However often sessions drop and endpoints rotate, without /restart the  *)
(* job mine() reads was announced on the connection it submits to          *)
(* (run_session, miner.py:24-41).                                          *)
THEOREM JobsAreOfThisConnection == Spec => []JobIsOfThisConnection
<1>1. ReaderInv /\ [Next]_vars => ReaderInv'
  BY ReaderStep
<1>2. ReaderInv => JobIsOfThisConnection
  BY DEF ReaderInv, NoOldJob, JobIsOfThisConnection
<1> QED
  BY ReaderInit, <1>1, <1>2, PTL DEF Spec
-----------------------------------------------------------------------------
(* With /restart: how many readers there may be.                           *)

AliveReaders == {r \in Readers : Alive(r)}
WatchedNow   == IF sup \in {"watch", "join"} THEN {watched} ELSE {}
Strays       == AliveReaders \ WatchedNow

(* A /restart may leave one reader behind, once its event was cleared; the *)
(* stop another one, as the supervisor is on its way out.                  *)
Allowed == (IF restart THEN restarts - 1 ELSE restarts)
           + (IF stop /\ sup \in {"ended", "done"} THEN 1 ELSE 0)

StrayInv ==
    /\ ReaderTyped
    /\ stop \in BOOLEAN /\ restart \in BOOLEAN
    /\ IsFiniteSet(AliveReaders)
    /\ Cardinality(Strays) <= Allowed

LEMMA StraysAreFinite ==
    ASSUME IsFiniteSet(AliveReaders)
    PROVE  IsFiniteSet(Strays) /\ Cardinality(Strays) \in Nat
<1>1. IsFiniteSet(Strays)
  BY FS_Subset DEF Strays
<1> QED
  BY <1>1, FS_CardinalityType

LEMMA OneMoreElement ==
    ASSUME NEW S, IsFiniteSet(S), NEW x
    PROVE  /\ IsFiniteSet(S \cup {x})
           /\ Cardinality(S \cup {x}) \in Nat
           /\ Cardinality(S \cup {x}) <= Cardinality(S) + 1
<1>1. /\ IsFiniteSet(S \cup {x})
      /\ Cardinality(S \cup {x}) = IF x \in S THEN Cardinality(S) ELSE Cardinality(S) + 1
  BY FS_AddElement
<1>2. Cardinality(S) \in Nat
  BY FS_CardinalityType
<1> QED
  BY <1>1, <1>2

(* A step that leaves no further reader behind.                            *)
LEMMA NoNewStray ==
    ASSUME StrayInv, IsFiniteSet(AliveReaders'), Strays' \subseteq Strays, Allowed' >= Allowed,
           Allowed' \in Int, ReaderTyped', stop' \in BOOLEAN, restart' \in BOOLEAN
    PROVE  StrayInv'
<1>1. Cardinality(Strays') <= Cardinality(Strays)
  BY StraysAreFinite, FS_Subset DEF StrayInv
<1>2. Cardinality(Strays') \in Nat
  <2>1. IsFiniteSet(Strays')
    BY StraysAreFinite, FS_Subset DEF StrayInv
  <2> QED
    BY <2>1, FS_CardinalityType
<1>3. Cardinality(Strays) \in Nat /\ Allowed \in Int
  BY StraysAreFinite DEF StrayInv, ReaderTyped, Allowed
<1> QED
  BY <1>1, <1>2, <1>3 DEF StrayInv

(* A step that leaves the watched reader behind, and is entitled to it.    *)
LEMMA OneNewStray ==
    ASSUME StrayInv, IsFiniteSet(AliveReaders'), Strays' \subseteq Strays \cup {watched},
           Allowed' >= Allowed + 1,
           Allowed' \in Int, ReaderTyped', stop' \in BOOLEAN, restart' \in BOOLEAN
    PROVE  StrayInv'
<1>1. /\ IsFiniteSet(Strays \cup {watched})
      /\ Cardinality(Strays \cup {watched}) <= Cardinality(Strays) + 1
      /\ Cardinality(Strays \cup {watched}) \in Nat
  <2>1. IsFiniteSet(Strays)
    BY StraysAreFinite DEF StrayInv
  <2> QED
    BY <2>1, OneMoreElement
<1>2. Cardinality(Strays') <= Cardinality(Strays \cup {watched})
  BY <1>1, FS_Subset
<1>3. Cardinality(Strays') \in Nat
  <2>1. IsFiniteSet(Strays')
    BY <1>1, FS_Subset
  <2> QED
    BY <2>1, FS_CardinalityType
<1>4. Cardinality(Strays) \in Nat /\ Allowed \in Int
  BY StraysAreFinite DEF StrayInv, ReaderTyped, Allowed
<1> QED
  BY <1>1, <1>2, <1>3, <1>4 DEF StrayInv

(* The readers, the events and the count stay, and the supervisor neither  *)
(* leaves a reader alone nor the place where a stop has left one.          *)
LEMMA StrayFrame ==
    ASSUME StrayInv, UNCHANGED <<reader, watched, stop, restart, restarts>>,
           sup \in {"watch", "join"} => sup' \in {"watch", "join"} \/ ~Alive(watched),
           stop /\ sup \in {"ended", "done"} => sup' \in {"ended", "done"}
    PROVE  StrayInv'
<1>1. AliveReaders' = AliveReaders
  BY DEF AliveReaders, Alive
<1>2. Strays' \subseteq Strays
  BY <1>1 DEF Strays, WatchedNow, AliveReaders
<1>3. ReaderTyped' /\ Allowed' >= Allowed /\ Allowed' \in Int
  BY DEF StrayInv, ReaderTyped, Allowed
<1> QED
  BY <1>1, <1>2, <1>3, NoNewStray DEF StrayInv

LEMMA StrayReaderStep ==
    ASSUME StrayInv, NEW r \in Readers, ReaderNext(r)
    PROVE  StrayInv'
<1>1. /\ UNCHANGED <<sup, watched, stop, restarts, restart>> /\ Alive(r)
  BY DEF ReaderNext, ReaderLoop, ReaderBlocks, ReaderReceives, ReaderFails,
         ReaderHandles, Alive, supVars, opVars
<1>2. \E s \in ReaderStates : reader' = [reader EXCEPT ![r] = s]
  <2>1. CASE ReaderLoop(r) \/ ReaderFails(r)
    <3>1. Off \in ReaderStates
      BY DEF Off, ReaderStates, Origins
    <3> QED
      BY <2>1, <3>1 DEF ReaderLoop, ReaderFails
  <2>2. CASE ReaderBlocks(r) \/ ReaderReceives(r) \/ ReaderHandles(r)
    <3>1. PICK at \in {"loop", "recv", "handle"}, conn \in {"none", "cur"} :
            SetReader(r, at, conn)
      BY <2>2 DEF ReaderBlocks, ReaderReceives, ReaderHandles
    <3>2. [at |-> at, conn |-> conn] \in ReaderStates
      BY DEF ReaderStates, Origins
    <3> QED
      BY <3>1, <3>2 DEF SetReader
  <2> QED
    BY <2>1, <2>2 DEF ReaderNext
<1>3. ReaderTyped'
  BY <1>1, <1>2 DEF StrayInv, ReaderTyped
<1>4. AliveReaders' \subseteq AliveReaders
  BY <1>1, <1>2 DEF StrayInv, ReaderTyped, AliveReaders, Alive
<1>5. IsFiniteSet(AliveReaders')
  BY <1>4, FS_Subset DEF StrayInv
<1>6. Strays' \subseteq Strays
  BY <1>1, <1>4 DEF Strays, WatchedNow
<1>7. Allowed' = Allowed /\ Allowed \in Int
  BY <1>1 DEF Allowed, StrayInv, ReaderTyped
<1> QED
  BY <1>1, <1>3, <1>5, <1>6, <1>7, NoNewStray DEF StrayInv

LEMMA StrayConnectStep ==
    ASSUME StrayInv, Connect
    PROVE  StrayInv'
<1>1. /\ sup = "connect" /\ sup' \in {"handshake", "failed"}
      /\ UNCHANGED <<watched, stop, restarts, restart>>
      /\ \/ reader' = [r \in Readers |-> [reader[r] EXCEPT !.conn = Aged(@)]]
         \/ reader' = reader
  BY DEF Connect
<1>2. /\ reader' \in [Readers -> ReaderStates]
      /\ \A r \in Readers : reader'[r].at = reader[r].at
  BY <1>1 DEF StrayInv, ReaderTyped, ReaderStates, Aged, Origins
<1>3. AliveReaders' = AliveReaders
  BY <1>2 DEF AliveReaders, Alive
<1>4. Strays' = Strays
  BY <1>1, <1>3 DEF Strays, WatchedNow
<1>5. ReaderTyped' /\ Allowed' = Allowed /\ Allowed \in Int
  BY <1>1, <1>2 DEF StrayInv, ReaderTyped, Allowed
<1> QED
  BY <1>1, <1>3, <1>4, <1>5, NoNewStray DEF StrayInv

LEMMA StrayHandshakeOkStep ==
    ASSUME StrayInv, HandshakeOk
    PROVE  StrayInv'
<1>1. /\ sup = "handshake" /\ sup' = "watch"
      /\ UNCHANGED <<stop, restarts, restart>>
  BY DEF HandshakeOk, opVars
<1>2. PICK r \in Readers :
        /\ ~Alive(r)
        /\ reader' = [reader EXCEPT ![r] = [at |-> "loop", conn |-> "none"]]
        /\ watched' = r
  BY DEF HandshakeOk
<1>3. ReaderTyped'
  BY <1>1, <1>2 DEF StrayInv, ReaderTyped, ReaderStates, Origins
<1>4. AliveReaders' = AliveReaders \cup {r}
  BY <1>2 DEF StrayInv, ReaderTyped, AliveReaders, Alive
<1>5. IsFiniteSet(AliveReaders')
  BY <1>4, FS_AddElement DEF StrayInv
<1>6. Strays' \subseteq Strays
  BY <1>1, <1>2, <1>4 DEF Strays, WatchedNow
<1>7. Allowed' = Allowed /\ Allowed \in Int
  BY <1>1 DEF StrayInv, ReaderTyped, Allowed
<1> QED
  BY <1>1, <1>3, <1>5, <1>6, <1>7, NoNewStray DEF StrayInv

(* The two steps after which a live reader is on its own.                  *)
LEMMA StrayLeaveStep ==
    ASSUME StrayInv, JoinReturns \/ Watch
    PROVE  StrayInv'
<1>1. UNCHANGED <<reader, watched, stop, restarts>> /\ sup \in {"watch", "join"}
  BY DEF JoinReturns, Watch, netVars, opVars
<1>2. AliveReaders' = AliveReaders /\ Strays' \subseteq Strays \cup {watched}
  BY <1>1 DEF AliveReaders, Alive, Strays, WatchedNow
<1>3. CASE sup' \in {"watch", "join"} \/ ~Alive(watched)
  <2>1. CASE UNCHANGED restart
    BY <1>1, <1>3, <2>1, StrayFrame
  <2>2. CASE restart /\ restart' = FALSE
    <3>1. ReaderTyped' /\ Allowed' >= Allowed /\ Allowed' \in Int
      BY <1>1, <2>2 DEF StrayInv, ReaderTyped, Allowed
    <3>2. Strays' \subseteq Strays
      BY <1>1, <1>2, <1>3 DEF Strays, WatchedNow, AliveReaders
    <3> QED
      BY <1>1, <1>2, <2>2, <3>1, <3>2, NoNewStray DEF StrayInv
  <2> QED
    BY <2>1, <2>2 DEF JoinReturns, Watch, opVars
<1>4. CASE sup' \notin {"watch", "join"} /\ Alive(watched)
  <2>1. /\ sup' = "ended"
        /\ \/ stop /\ UNCHANGED restart
           \/ restart /\ restart' = FALSE
    BY <1>4 DEF JoinReturns, Watch, opVars
  <2>2. ReaderTyped' /\ Allowed' >= Allowed + 1 /\ Allowed' \in Int
    BY <1>1, <2>1 DEF StrayInv, ReaderTyped, Allowed
  <2>3. restart' \in BOOLEAN
    BY <2>1 DEF StrayInv
  <2> QED
    BY <1>1, <1>2, <2>2, <2>3, OneNewStray DEF StrayInv
<1> QED
  BY <1>3, <1>4

LEMMA StrayOperatorStep ==
    ASSUME StrayInv, Stop \/ Restart
    PROVE  StrayInv'
<1>1. UNCHANGED <<reader, watched, sup>>
  BY DEF Stop, Restart, supVars, netVars
<1>2. AliveReaders' = AliveReaders /\ Strays' = Strays
  BY <1>1 DEF AliveReaders, Alive, Strays, WatchedNow
<1>3. ReaderTyped' /\ Allowed' >= Allowed /\ Allowed' \in Int
      /\ stop' \in BOOLEAN /\ restart' \in BOOLEAN
  <2>1. CASE Stop
    BY <1>1, <2>1 DEF Stop, StrayInv, ReaderTyped, Allowed
  <2>2. CASE Restart
    <3>1. restart' = TRUE /\ restarts' = restarts + 1 /\ UNCHANGED stop
      BY <2>2 DEF Restart
    <3> QED
      BY <1>1, <3>1 DEF StrayInv, ReaderTyped, Allowed
  <2> QED
    BY <2>1, <2>2
<1> QED
  BY <1>2, <1>3, NoNewStray DEF StrayInv

LEMMA StrayStep ==
    ASSUME StrayInv, [Next]_vars
    PROVE  StrayInv'
<1>1. CASE SupNext
  <2>1. CASE Start \/ BeginSession \/ HandshakeFails \/ SessionEnded \/ SessionFailed
             \/ CycleWait \/ Wait
    BY <2>1, StrayFrame DEF Start, BeginSession, HandshakeFails, SessionEnded, SessionFailed,
                            CycleWait, Wait, netVars, opVars
  <2> QED
    BY <1>1, <2>1, StrayConnectStep, StrayHandshakeOkStep, StrayLeaveStep DEF SupNext
<1>2. ASSUME NEW r \in Readers, ReaderNext(r)
      PROVE  StrayInv'
  BY <1>2, StrayReaderStep
<1>3. CASE Stop \/ Restart
  BY <1>3, StrayOperatorStep
<1>4. CASE HandshakeMessage \/ HandlerCloses \/ PoolsChange \/ PeerHangsUp \/ UNCHANGED vars
  BY <1>4, StrayFrame DEF HandshakeMessage, HandlerCloses, PoolsChange, PeerHangsUp, vars,
                          supVars, netVars, opVars
<1> QED
  BY <1>1, <1>2, <1>3, <1>4 DEF Next

(* However many /restart commands, sessions and reader threads there are,  *)
(* each command leaves at most one surplus reader behind                   *)
(* (supervisor_loop, miner.py:89-95).                                      *)
THEOREM RestartsBoundReaders == Spec => []SurplusReadersComeFromRestart
<1>1. Init => StrayInv
  <2>1. SUFFICES ASSUME Init PROVE StrayInv
    OBVIOUS
  <2>2. AliveReaders = {} /\ Strays = {}
    BY <2>1 DEF Init, AliveReaders, Strays, Alive
  <2>3. ReaderTyped /\ stop \in BOOLEAN /\ restart \in BOOLEAN /\ Allowed = 0
    <3>1. stop = FALSE /\ restart = FALSE /\ restarts = 0
      BY <2>1 DEF Init
    <3>2. ReaderTyped
      BY <2>1, ReaderInit DEF ReaderInv
    <3>3. Allowed = 0
      BY <3>1 DEF Allowed
    <3> QED
      BY <3>1, <3>2, <3>3
  <2> QED
    BY <2>2, <2>3, FS_EmptySet DEF StrayInv
<1>2. StrayInv /\ [Next]_vars => StrayInv'
  BY StrayStep
<1>3. StrayInv => SurplusReadersComeFromRestart
  <2>1. SUFFICES ASSUME StrayInv PROVE Cardinality(AliveReaders) <= 1 + restarts
    BY DEF SurplusReadersComeFromRestart, AliveReaders
  <2>2. Cardinality(Strays) \in Nat /\ IsFiniteSet(Strays)
        /\ Cardinality(AliveReaders) \in Nat
    BY <2>1, StraysAreFinite, FS_CardinalityType DEF StrayInv
  <2>3. CASE sup \in {"watch", "join"}
    <3>1. /\ IsFiniteSet(Strays \cup {watched})
          /\ Cardinality(Strays \cup {watched}) <= Cardinality(Strays) + 1
          /\ Cardinality(Strays \cup {watched}) \in Nat
      <4>1. IsFiniteSet(Strays)
        BY <2>2
      <4> QED
        BY <4>1, OneMoreElement
    <3>2. AliveReaders \subseteq Strays \cup {watched}
      BY DEF Strays, WatchedNow
    <3>3. Cardinality(AliveReaders) <= Cardinality(Strays \cup {watched})
      BY <3>1, <3>2, FS_Subset
    <3>4. Allowed <= restarts /\ Allowed \in Int
      BY <2>1, <2>3 DEF StrayInv, ReaderTyped, Allowed
    <3> QED
      BY <2>1, <2>2, <3>1, <3>3, <3>4 DEF StrayInv, ReaderTyped
  <2>4. CASE sup \notin {"watch", "join"}
    <3>1. Strays = AliveReaders
      BY <2>4 DEF Strays, WatchedNow
    <3>2. Allowed <= restarts + 1 /\ Allowed \in Int
      BY <2>1 DEF StrayInv, ReaderTyped, Allowed
    <3> QED
      BY <2>1, <2>2, <3>1, <3>2 DEF StrayInv, ReaderTyped
  <2> QED
    BY <2>3, <2>4
<1> QED
  BY <1>1, <1>2, <1>3, PTL DEF Spec
-----------------------------------------------------------------------------
(* Types *)

DelayTyped == backoff \in 1 .. MaxBackoff /\ watched \in Readers \cup {none}

EventsTyped ==
    /\ stop \in BOOLEAN /\ restart \in BOOLEAN
    /\ closing \subseteq {"stop", "restart"}
    /\ restarts \in 0 .. MaxRestarts

NetTyped ==
    /\ sock \in {"none", "open", "lost", "closed"}
    /\ job \in Origins
    /\ reader \in [Readers -> ReaderStates]
    /\ up \in SUBSET Pools

(* However often it doubles, the delay stays within its cap (miner.py:131, *)
(* 141).                                                                   *)
LEMMA DelayStep == DelayTyped /\ [Next]_vars => DelayTyped'
<1> SUFFICES ASSUME DelayTyped, [Next]_vars PROVE DelayTyped'
  OBVIOUS
<1>1. CASE HandshakeOk
  <2>1. backoff' = 1 /\ watched' \in Readers
    BY <1>1 DEF HandshakeOk
  <2> QED
    BY <2>1 DEF DelayTyped
<1>2. CASE CycleWait \/ Wait
  <2>1. watched' = watched /\ (backoff' = backoff \/ backoff' = Double(backoff))
    BY <1>2 DEF CycleWait, Wait
  <2> QED
    BY <2>1 DEF DelayTyped, Double
<1>3. CASE UNCHANGED <<backoff, watched>>
  BY <1>3 DEF DelayTyped
<1>4. ASSUME NEW r \in Readers, ReaderNext(r) PROVE UNCHANGED <<backoff, watched>>
  BY <1>4 DEF ReaderNext, ReaderLoop, ReaderBlocks, ReaderReceives, ReaderFails,
              ReaderHandles, supVars
<1>5. CASE Start \/ BeginSession \/ Connect \/ HandshakeFails \/ Watch \/ JoinReturns
           \/ SessionEnded \/ SessionFailed
  BY <1>3, <1>5 DEF Start, BeginSession, Connect, HandshakeFails, Watch, JoinReturns,
                    SessionEnded, SessionFailed
<1>6. CASE HandshakeMessage \/ Stop \/ Restart \/ HandlerCloses \/ PoolsChange \/ PeerHangsUp
           \/ UNCHANGED vars
  BY <1>3, <1>6 DEF HandshakeMessage, Stop, Restart, HandlerCloses, PoolsChange, PeerHangsUp,
                    vars, supVars
<1> QED
  BY <1>1, <1>2, <1>3, <1>4, <1>5, <1>6 DEF Next, SupNext

LEMMA EventsStep == EventsTyped /\ [Next]_vars => EventsTyped'
<1> SUFFICES ASSUME EventsTyped, [Next]_vars PROVE EventsTyped'
  OBVIOUS
<1>1. CASE Stop
  <2>1. stop' = TRUE /\ restart' = restart /\ restarts' = restarts
    BY <1>1 DEF Stop
  <2>2. closing' \subseteq {"stop", "restart"}
    BY <1>1 DEF Stop, EventsTyped
  <2> QED
    BY <2>1, <2>2 DEF EventsTyped
<1>2. CASE Restart
  <2>1. restart' = TRUE /\ stop' = stop /\ restarts < MaxRestarts /\ restarts' = restarts + 1
    BY <1>2 DEF Restart
  <2>2. closing' \subseteq {"stop", "restart"}
    BY <1>2 DEF Restart, EventsTyped
  <2>3. restarts' \in 0 .. MaxRestarts
    BY <2>1 DEF EventsTyped
  <2> QED
    BY <2>1, <2>2, <2>3 DEF EventsTyped
<1>3. CASE HandlerCloses
  BY <1>3 DEF HandlerCloses, EventsTyped
<1>4. CASE JoinReturns
  <2>1. UNCHANGED <<stop, closing, restarts>> /\ (restart' = FALSE \/ restart' = restart)
    BY <1>4 DEF JoinReturns
  <2> QED
    BY <2>1 DEF EventsTyped
<1>5. CASE UNCHANGED opVars
  BY <1>5 DEF EventsTyped, opVars
<1>6. ASSUME NEW r \in Readers, ReaderNext(r) PROVE UNCHANGED opVars
  BY <1>6 DEF ReaderNext, ReaderLoop, ReaderBlocks, ReaderReceives, ReaderFails, ReaderHandles
<1>7. CASE Start \/ BeginSession \/ HandshakeFails \/ Watch \/ SessionEnded \/ SessionFailed
           \/ CycleWait \/ Wait
  BY <1>5, <1>7 DEF Start, BeginSession, HandshakeFails, Watch, SessionEnded, SessionFailed,
                    CycleWait, Wait
<1>8. CASE Connect \/ HandshakeOk
  <2>1. UNCHANGED opVars
    BY <1>8 DEF Connect, HandshakeOk, mark_success, opVars
  <2> QED
    BY <1>5, <2>1
<1>9. CASE HandshakeMessage \/ PoolsChange \/ PeerHangsUp \/ UNCHANGED vars
  BY <1>5, <1>9 DEF HandshakeMessage, PoolsChange, PeerHangsUp, vars
<1> QED
  BY <1>1, <1>2, <1>3, <1>4, <1>6, <1>5, <1>7, <1>8, <1>9 DEF Next, SupNext

LEMMA NetReaderStep ==
    ASSUME NetTyped, NEW r \in Readers, ReaderNext(r)
    PROVE  NetTyped'
<1>1. UNCHANGED <<sock, up>>
  BY DEF ReaderNext, ReaderLoop, ReaderBlocks, ReaderReceives, ReaderFails, ReaderHandles
<1>2. job' \in Origins
  <2>1. job' = job \/ job' = reader[r].conn
    BY DEF ReaderNext, ReaderLoop, ReaderBlocks, ReaderReceives, ReaderFails, ReaderHandles
  <2> QED
    BY <2>1 DEF NetTyped, ReaderStates
<1>3. reader' \in [Readers -> ReaderStates]
  <2>1. CASE ReaderLoop(r) \/ ReaderFails(r)
    BY <2>1 DEF ReaderLoop, ReaderFails, Off, NetTyped, ReaderStates, Origins
  <2>2. CASE ReaderBlocks(r) \/ ReaderReceives(r) \/ ReaderHandles(r)
    BY <2>2 DEF ReaderBlocks, ReaderReceives, ReaderHandles, SetReader, NetTyped, ReaderStates,
                Origins
  <2> QED
    BY <2>1, <2>2 DEF ReaderNext
<1> QED
  BY <1>1, <1>2, <1>3 DEF NetTyped

LEMMA NetStep == NetTyped /\ [Next]_vars => NetTyped'
<1> SUFFICES ASSUME NetTyped, [Next]_vars PROVE NetTyped'
  OBVIOUS
<1>1. CASE Connect
  <2>1. UNCHANGED up /\ sock' \in {sock, "open"} /\ job' \in {job, Aged(job)}
    BY <1>1 DEF Connect
  <2>2. reader' = reader \/ reader' = [r \in Readers |-> [reader[r] EXCEPT !.conn = Aged(@)]]
    BY <1>1 DEF Connect
  <2>3. reader' \in [Readers -> ReaderStates]
    BY <2>2 DEF NetTyped, ReaderStates, Aged, Origins
  <2> QED
    BY <2>1, <2>3 DEF NetTyped, Aged, Origins
<1>2. CASE HandshakeOk
  <2>1. UNCHANGED <<sock, job, up>>
    BY <1>2 DEF HandshakeOk
  <2>2. reader' \in [Readers -> ReaderStates]
    BY <1>2 DEF HandshakeOk, NetTyped, ReaderStates, Origins
  <2> QED
    BY <2>1, <2>2 DEF NetTyped
<1>3. ASSUME NEW r \in Readers, ReaderNext(r) PROVE NetTyped'
  BY <1>3, NetReaderStep
<1>4. CASE \/ Start \/ BeginSession \/ JoinReturns \/ SessionEnded \/ SessionFailed
           \/ HandshakeMessage \/ HandlerCloses \/ PeerHangsUp
  <2>1. /\ UNCHANGED <<reader, up>>
        /\ job' \in {job, "none", "cur"} /\ sock' \in {sock, Closed, "lost"}
    BY <1>4 DEF Start, BeginSession, JoinReturns, SessionEnded, SessionFailed, set_endpoint,
                HandshakeMessage, HandlerCloses, PeerHangsUp
  <2> QED
    BY <2>1 DEF NetTyped, Closed, Origins
<1>5. CASE \/ HandshakeFails \/ Watch \/ CycleWait \/ Wait \/ Stop \/ Restart
           \/ UNCHANGED vars
  <2>1. UNCHANGED netVars
    BY <1>5 DEF HandshakeFails, Watch, CycleWait, Wait, Stop, Restart, vars
  <2> QED
    BY <2>1 DEF NetTyped, netVars
<1>6. CASE PoolsChange
  BY <1>6 DEF PoolsChange, NetTyped
<1> QED
  BY <1>1, <1>2, <1>3, <1>4, <1>5, <1>6 DEF Next, SupNext

(* Every variable keeps its type: among them, the index and the counters   *)
(* of the list and the delay stay in their ranges.                         *)
THEOREM SupervisorTypes == Spec => []TypeOK
<1>1. Init => DelayTyped /\ EventsTyped /\ NetTyped
  <2> SUFFICES ASSUME Init PROVE DelayTyped /\ EventsTyped /\ NetTyped
    OBVIOUS
  <2>1. DelayTyped
    BY DEF Init, DelayTyped
  <2>2. restarts \in 0 .. MaxRestarts
    BY DEF Init
  <2>3. EventsTyped
    BY <2>2 DEF Init, EventsTyped
  <2>4. NetTyped
    BY DEF Init, NetTyped, ReaderStates, Origins
  <2> QED
    BY <2>1, <2>3, <2>4
<1>2. FailoverInv /\ [Next]_vars => FailoverInv'
  BY FailoverStep
<1>3. FailoverInv /\ DelayTyped /\ EventsTyped /\ NetTyped => TypeOK
  BY DEF FailoverInv, Typed, PoolTypeOK, DelayTyped, EventsTyped, NetTyped, TypeOK
<1> QED
  BY FailoverInit, <1>1, <1>2, DelayStep, EventsStep, NetStep, <1>3, PTL DEF Spec
-----------------------------------------------------------------------------
(* The list of endpoints as the supervisor uses it                         *)

(* Every step of the miner is a call of the list or leaves it alone, so    *)
(* what holds for any user of the list holds here (supervisor_loop,        *)
(* miner.py:86-141).                                                       *)
THEOREM SupervisorUsesPoolList == Spec => PoolSpec
<1>1. Init => PoolInit
  BY DEF Init
<1>2. [Next]_vars => [PoolNext]_poolVars
  <2> SUFFICES ASSUME [Next]_vars PROVE [PoolNext]_poolVars
    OBVIOUS
  <2>1. CASE HandshakeOk
    BY <2>1 DEF HandshakeOk, PoolNext
  <2>2. CASE SessionFailed
    BY <2>2 DEF SessionFailed, PoolNext
  <2>3. CASE CycleWait
    BY <2>3 DEF CycleWait, PoolNext
  <2>4. CASE \/ Start \/ BeginSession \/ Connect \/ HandshakeFails \/ Watch \/ JoinReturns
             \/ SessionEnded \/ Wait
    BY <2>4 DEF Start, BeginSession, Connect, HandshakeFails, Watch, JoinReturns, SessionEnded,
                Wait
  <2>5. ASSUME NEW r \in Readers, ReaderNext(r) PROVE UNCHANGED poolVars
    BY <2>5 DEF ReaderNext, ReaderLoop, ReaderBlocks, ReaderReceives, ReaderFails, ReaderHandles
  <2>6. CASE \/ HandshakeMessage \/ Stop \/ Restart \/ HandlerCloses \/ PoolsChange
             \/ PeerHangsUp \/ UNCHANGED vars
    BY <2>6 DEF HandshakeMessage, Stop, Restart, HandlerCloses, PoolsChange, PeerHangsUp, vars
  <2> QED
    BY <2>1, <2>2, <2>3, <2>4, <2>5, <2>6 DEF Next, SupNext
<1> QED
  BY <1>1, <1>2, PTL DEF Spec, PoolSpec

(* The supervisor never outstays the patience with a pool, and pauses for  *)
(* a failed round only when every pool of the list was given up in it.     *)
THEOREM SupervisorRotatesFairly == Spec => []RotationIsFair
BY SupervisorUsesPoolList, RotationStaysFair, PTL
=============================================================================
