----------------------------- MODULE WorkerPool -----------------------------
(***************************************************************************)
(* The pool of worker processes (parallel.py) over one header: start_pool, *)
(* the loop of worker(), the drain loop of mine() as far as it uses the    *)
(* queue, and stop_pool.                                                   *)
(*                                                                         *)
(* A worker tests the nonces of its range one by one, puts those that win  *)
(* into the queue (a find is only counted here), and every HashesPerTick   *)
(* of them adds its count to the shared counter and looks at stop_event.   *)
(* Both backends have this loop.  A multiprocessing.Queue is a buffer in   *)
(* each process, a feeder thread that moves it into a pipe of limited size *)
(* under a lock of the queue, and a process that exits waits for its       *)
(* feeder.  terminate() only sends a signal: the process dies of it some   *)
(* time later, wherever it is then.                                        *)
(***************************************************************************)
EXTENDS Integers, FiniteSets

CONSTANTS
    NWorkers,       \* n_workers, after max(1, ...)
    NonceSpace,     \* 2^32 in the code
    HashesPerTick,  \* HASHES_PER_TICK
    PipeCap,        \* finds that fit into the pipe of the queue
    DrainCap,       \* drain_cap of stop_pool
    none            \* model value: nobody holds the lock

ASSUME WorkerPoolAssumption ==
    /\ NWorkers \in Nat \ {0}
    /\ NonceSpace \in Nat \ {0}
    /\ HashesPerTick \in Nat \ {0}
    /\ PipeCap \in Nat /\ DrainCap \in Nat
    /\ none \notin Int

Workers == 0 .. NWorkers - 1
Nonces == 0 .. NonceSpace - 1

VARIABLES
    pc,        \* where each worker is
    nonce,     \* its next nonce
    local,     \* its local_hashes
    seen,      \* the counter as it read it under the lock
    buffer,    \* how many of its finds the feeder thread has not written yet
    pipe,      \* how many finds are in the pipe of found_queue
    counter,   \* hashes_counter.value
    lock,      \* holder of the counter's lock
    wlock,     \* holder of the lock for writing to the pipe
    killed,    \* workers that were sent the signal of terminate()
    stop,      \* stop_event of the pool
    par,       \* where the parent is: loop of mine(), then stop_pool
    k,         \* the process stop_pool joins or terminates
    drained,   \* how many finds stop_pool took out of the queue
    (* History, read by properties only. *)
    atStop     \* nonce of each worker when stop was set

workVars == <<pc, nonce, local, seen, buffer, counter, lock, wlock>>
parVars  == <<stop, par, k, drained, killed, atStop>>
vars == <<workVars, pipe, parVars>>

Step == NonceSpace \div NWorkers

StartOf(i) == i * Step

EndOfEven(i) == (i + 1) * Step   \* mutant: the remainder is left out

(* The last worker gets the remainder.                                     *)
EndOf(i) == IF i = NWorkers - 1 THEN NonceSpace ELSE (i + 1) * Step

(* The first pool, as start_pool sets it up.                               *)
Init ==
    /\ pc = [i \in Workers |-> "hash"]
    /\ nonce = [i \in Workers |-> StartOf(i)] /\ atStop = nonce
    /\ local = [i \in Workers |-> 0] /\ seen = local
    /\ buffer = [i \in Workers |-> 0] /\ pipe = 0
    /\ counter = 0 /\ lock = none /\ wlock = none
    /\ stop = FALSE /\ par = "drain" /\ k = 0 /\ drained = 0 /\ killed = {}

-----------------------------------------------------------------------------
(* worker() *)

HashPastEnd(i) ==   \* mutant: the end of the range is tested as well
    /\ pc[i] = "hash" /\ nonce[i] <= EndOf(i)
    /\ nonce' = [nonce EXCEPT ![i] = @ + 1]
    /\ local' = [local EXCEPT ![i] = @ + 1]
    /\ pc' = [pc EXCEPT ![i] = IF local[i] + 1 >= HashesPerTick THEN "tick" ELSE "hash"]
    /\ UNCHANGED <<seen, buffer, counter, lock, wlock, pipe, parVars>>

(* One round of the loop: test a nonce, put it if its hash wins.           *)
Hash(i) ==
    /\ pc[i] = "hash" /\ nonce[i] < EndOf(i)
    /\ \E win \in {0, 1} : buffer' = [buffer EXCEPT ![i] = @ + win]
    /\ nonce' = [nonce EXCEPT ![i] = @ + 1]
    /\ local' = [local EXCEPT ![i] = @ + 1]
    /\ pc' = [pc EXCEPT ![i] = IF local[i] + 1 >= HashesPerTick THEN "tick" ELSE "hash"]
    /\ UNCHANGED <<seen, counter, lock, wlock, pipe, parVars>>

(* The range is exhausted: to the finally block, which has nothing to do   *)
(* if local_hashes is 0.                                                   *)
Exhaust(i) ==
    /\ pc[i] = "hash" /\ nonce[i] >= EndOf(i)
    /\ pc' = [pc EXCEPT ![i] = IF local[i] = 0 THEN "exit" ELSE "final"]
    /\ UNCHANGED <<nonce, local, seen, buffer, counter, lock, wlock, pipe, parVars>>

ReadCounterUnlocked(i) ==   \* mutant: value += without the lock
    /\ pc[i] \in {"tick", "final"}
    /\ lock' = i
    /\ seen' = [seen EXCEPT ![i] = counter]
    /\ pc' = [pc EXCEPT ![i] = IF @ = "tick" THEN "tickWrite" ELSE "finalWrite"]
    /\ UNCHANGED <<nonce, local, buffer, counter, wlock, pipe, parVars>>

(* with hashes_counter.get_lock(): value += local_hashes, a read and a     *)
(* write, at a tick or in the finally block.                               *)
ReadCounter(i) ==
    /\ pc[i] \in {"tick", "final"}
    /\ lock = none
    /\ lock' = i
    /\ seen' = [seen EXCEPT ![i] = counter]
    /\ pc' = [pc EXCEPT ![i] = IF @ = "tick" THEN "tickWrite" ELSE "finalWrite"]
    /\ UNCHANGED <<nonce, local, buffer, counter, wlock, pipe, parVars>>

WriteCounter(i) ==
    /\ pc[i] \in {"tickWrite", "finalWrite"}
    /\ counter' = seen[i] + local[i]
    /\ lock' = none
    /\ local' = [local EXCEPT ![i] = 0]
    /\ pc' = [pc EXCEPT ![i] = IF @ = "tickWrite" THEN "check" ELSE "exit"]
    /\ UNCHANGED <<nonce, seen, buffer, wlock, pipe, parVars>>

CheckStopAtEnd(i) ==   \* mutant: stop_event is not looked at
    /\ pc[i] = "check"
    /\ pc' = [pc EXCEPT ![i] = "hash"]
    /\ UNCHANGED <<nonce, local, seen, buffer, counter, lock, wlock, pipe, parVars>>

(* if stop_event.is_set(): return.                                         *)
CheckStop(i) ==
    /\ pc[i] = "check"
    /\ pc' = [pc EXCEPT ![i] = IF stop THEN "exit" ELSE "hash"]
    /\ UNCHANGED <<nonce, local, seen, buffer, counter, lock, wlock, pipe, parVars>>

(* The feeder thread takes the lock of the queue and writes one find; it   *)
(* blocks, with the lock, while the pipe is full.                          *)
FeedBegins(i) ==
    /\ pc[i] # "dead" /\ buffer[i] # 0
    /\ wlock = none
    /\ wlock' = i
    /\ UNCHANGED <<pc, nonce, local, seen, buffer, counter, lock, pipe, parVars>>

Feed(i) ==
    /\ pc[i] # "dead" /\ wlock = i
    /\ pipe < PipeCap /\ pipe' = pipe + 1
    /\ buffer' = [buffer EXCEPT ![i] = @ - 1]
    /\ wlock' = none
    /\ UNCHANGED <<pc, nonce, local, seen, counter, lock, parVars>>

(* A process that exits joins its feeder thread first.                     *)
Exit(i) ==
    /\ pc[i] = "exit" /\ buffer[i] = 0
    /\ pc' = [pc EXCEPT ![i] = "dead"]
    /\ UNCHANGED <<nonce, local, seen, buffer, counter, lock, wlock, pipe, parVars>>

(* The signal of terminate() arrives: the process is gone wherever it was, *)
(* with what its feeder had not written; a lock it held stays locked.      *)
Dies(i) ==
    /\ i \in killed /\ pc[i] # "dead"
    /\ pc' = [pc EXCEPT ![i] = "dead"]
    /\ buffer' = [buffer EXCEPT ![i] = 0]
    /\ UNCHANGED <<nonce, local, seen, counter, lock, wlock, pipe, parVars>>

Work(i) ==
    \/ Hash(i) \/ Exhaust(i) \/ ReadCounter(i) \/ WriteCounter(i)
    \/ CheckStop(i) \/ FeedBegins(i) \/ Feed(i) \/ Exit(i) \/ Dies(i)

-----------------------------------------------------------------------------
(* The parent: mine() and stop_pool *)

(* get_nowait in mine(): the find is recorded and submitted.               *)
Take ==
    /\ par = "drain" /\ pipe # 0
    /\ pipe' = pipe - 1
    /\ UNCHANGED <<workVars, parVars>>

(* queue.Empty.  Every report_interval the hash rate is worked out.        *)
Drained ==
    /\ par = "drain" /\ pipe = 0
    /\ par' \in {"report", "check"}
    /\ UNCHANGED <<workVars, pipe, stop, k, drained, killed, atStop>>

(* with hashes_counter.get_lock(): cur = hashes_counter.value.             *)
Report ==
    /\ par = "report" /\ lock = none
    /\ par' = "check"
    /\ UNCHANGED <<workVars, pipe, stop, k, drained, killed, atStop>>

(* The job is unchanged, and some worker is alive or the last look at them *)
(* is less than a second ago: next round.                                  *)
Continue ==
    /\ par = "check"
    /\ par' = "drain"
    /\ UNCHANGED <<workVars, pipe, stop, k, drained, killed, atStop>>

(* The loop ends: another job, a shutdown, or all workers are done.        *)
(* stop_pool sets the event.                                               *)
StopPool ==
    /\ par = "check"
    /\ par' = "empty" /\ stop' = TRUE
    /\ atStop' = nonce
    /\ UNCHANGED <<workVars, pipe, k, drained, killed>>

(* stop_pool takes out finds, but at most drain_cap of them.               *)
DrainOne ==
    /\ par = "empty" /\ pipe # 0 /\ drained < DrainCap
    /\ pipe' = pipe - 1 /\ drained' = drained + 1
    /\ UNCHANGED <<workVars, stop, par, k, killed, atStop>>

DrainEnds ==
    /\ par = "empty" /\ (pipe = 0 \/ drained >= DrainCap)
    /\ par' = "join" /\ k' = 0
    /\ UNCHANGED <<workVars, pipe, stop, drained, killed, atStop>>

Advance(from, to) ==
    IF k = NWorkers - 1 THEN par' = to /\ k' = 0 ELSE par' = from /\ k' = k + 1

JoinForever ==   \* mutant: join() without a timeout
    /\ par = "join" /\ pc[k] = "dead"
    /\ Advance("join", "term")
    /\ UNCHANGED <<workVars, pipe, stop, drained, killed, atStop>>

(* p.join(timeout): the process is dead or the time is over.               *)
Join ==
    /\ par = "join"
    /\ Advance("join", "term")
    /\ UNCHANGED <<workVars, pipe, stop, drained, killed, atStop>>

(* `if p.is_alive()`: the process is gone, nothing to do.                  *)
SkipDead ==
    /\ par = "term" /\ pc[k] = "dead"
    /\ Advance("term", "stopped")
    /\ UNCHANGED <<workVars, pipe, stop, drained, killed, atStop>>

(* p.terminate(): the signal is sent, the process is still there.          *)
Terminate ==
    /\ par = "term" /\ pc[k] # "dead"
    /\ killed' = killed \cup {k}
    /\ par' = "reap"
    /\ UNCHANGED <<workVars, pipe, stop, k, drained, atStop>>

ReapThenReport ==   \* mutant: the counter is read once more after the pool
    /\ par = "reap"
    /\ Advance("term", "report")
    /\ UNCHANGED <<workVars, pipe, stop, drained, killed, atStop>>

(* p.join(timeout=2.0): the process is dead or the time is over.           *)
Reap ==
    /\ par = "reap"
    /\ Advance("term", "stopped")
    /\ UNCHANGED <<workVars, pipe, stop, drained, killed, atStop>>

(* mine() starts the next pool, with a queue, a counter and an event of    *)
(* its own: a process of the old pool that has not died yet shares nothing *)
(* with it any more.                                                       *)
start_pool ==
    /\ par = "stopped"
    /\ pc' = [i \in Workers |-> "hash"]
    /\ nonce' = [i \in Workers |-> StartOf(i)] /\ atStop' = nonce'
    /\ local' = [i \in Workers |-> 0] /\ seen' = local'
    /\ buffer' = [i \in Workers |-> 0] /\ pipe' = 0
    /\ counter' = 0 /\ lock' = none /\ wlock' = none
    /\ stop' = FALSE /\ par' = "drain" /\ k' = 0 /\ drained' = 0 /\ killed' = {}

Parent ==
    \/ Take \/ Drained \/ Report \/ Continue \/ StopPool \/ DrainOne \/ DrainEnds
    \/ Join \/ SkipDead \/ Terminate \/ Reap \/ start_pool

Next == Parent \/ \E i \in Workers : Work(i)

Spec == Init /\ [][Next]_vars

(* The parent's thread is scheduled; nothing is assumed of the workers.    *)
FairSpec == Spec /\ WF_vars(Parent)

-----------------------------------------------------------------------------
(* Properties *)

TypeOK ==
    /\ pc \in [Workers -> {"hash", "tick", "tickWrite", "check", "final",
                           "finalWrite", "exit", "dead"}]
    /\ nonce \in [Workers -> Nat]
    /\ \A i \in Workers : nonce[i] \in StartOf(i) .. EndOf(i)
    /\ local \in [Workers -> 0 .. HashesPerTick]
    /\ seen \in [Workers -> Nat]
    /\ buffer \in [Workers -> Nat] /\ pipe \in 0 .. PipeCap
    /\ counter \in Nat
    /\ lock \in Workers \cup {none} /\ wlock \in Workers \cup {none}
    /\ killed \subseteq Workers
    /\ stop \in BOOLEAN
    /\ par \in {"drain", "report", "check", "empty", "join", "term", "reap", "stopped"}
    /\ k \in Workers
    /\ drained \in 0 .. DrainCap
    /\ atStop \in [Workers -> Nat]

Tested(i) == StartOf(i) .. nonce[i] - 1

(* Whatever the number of workers, no nonce of a header is tested by two   *)
(* of them, and once all ranges are exhausted every nonce was tested: the  *)
(* ranges that start_pool hands out partition the nonce space.             *)
TestedOnce ==
    /\ \A i, j \in Workers : i # j => Tested(i) \cap Tested(j) = {}
    /\ (\A i \in Workers : nonce[i] >= EndOf(i)) =>
          UNION {Tested(i) : i \in Workers} = Nonces

(* What the worker tested and has added to the shared counter.             *)
Counted(i) == StartOf(i) .. nonce[i] - local[i] - 1

(* The shared counter is the number of nonces tested, less those that the  *)
(* workers still have in their local counts, and a worker that ends by     *)
(* itself leaves no local count behind: ticks, stops, the finally block    *)
(* and terminate() lose or double no hash.                                 *)
CounterExact ==
    /\ \A i \in Workers : local[i] <= nonce[i] - StartOf(i)
    /\ counter = Cardinality(UNION {Counted(i) : i \in Workers})
    /\ \A i \in Workers : pc[i] = "exit" => local[i] = 0

(* After stop_event is set a worker tests at most one more tick of nonces. *)
StopLatency ==
    stop => \A i \in Workers : nonce[i] - atStop[i] <= HashesPerTick

(* mine() takes the lock of the counter for its report (miner.py:329): it  *)
(* never waits for a process that died with the lock, although terminate() *)
(* may hit a worker between the read and the write of the counter.         *)
HolderIsAlive == par = "report" /\ lock # none => pc[lock] # "dead"

(* stop_pool returns, whatever the workers do.                             *)
PoolStops == stop ~> par = "stopped"
=============================================================================
