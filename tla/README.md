# Hope-Hash: a TLA+ verification project

Hope-Hash (`src/src/hope_hash/`) is a Bitcoin solo miner in Python: it keeps a
Stratum connection to one of several pools, mines in worker processes, submits
the shares they find and records what the pool says about them. This directory
holds TLA+ models of its control, the TLC configurations that check them on
small instances, and theorems proved with TLAPS for every value of the
constants. Line numbers refer to the files in `src/src/hope_hash/`.

## 1. Inventory

| Component | State | Operations | Talks to |
|---|---|---|---|
| Pool list (`pools.py`) | `_idx`, `_failures`, `_rotations_since_success` | `mark_failed`, `mark_success`, `rotate`, `reset_round`, `full_cycle_failed` | called by the supervisor |
| Supervisor (`miner.py` `supervisor_loop`, `run_session`) | `backoff`, `reader_thread`, `stop_event`, `restart_event` | connect, handshake, watch the reader, fail over, pause | pool list, client, reader thread; the Telegram handlers set its events and close its socket |
| Stratum client (`stratum.py`) | `sock`, `buf`, `req_id`, `_submit_req_ids`, `current_job`, `extranonce1/2_size`, `difficulty` | `_send`, `submit`, `subscribe_and_authorize`, `_handle_message`, `reader_loop`, `set_endpoint`, `close` | shared by three threads: supervisor, reader, `mine()` |
| Miner (`miner.py` `mine`) | `_pending_submits`, `extranonce2_counter`, current pool of workers, EMA | snapshot of the job, drain loop, `_on_share_result`, job check | worker processes (queue, counter, event), client, store, metrics, stats, notifier |
| Worker pool (`parallel.py`) | `found_queue`, `hashes_counter`, `stop_event`, processes | `start_pool`, `worker`, `stop_pool` | `mine()` |
| Share database (`storage.py`) | tables `shares`, `sessions` | `record_share`, `update_share_accepted`, sessions, reports, `close` | `mine()` and the reader thread |
| Metrics and health (`metrics.py`) | counters, gauges, server | `counter_inc`, `gauge_set`, `render`, `build_health_snapshot` | all threads |
| Statistics and TUI (`tui.py`) | `StatsSnapshot`, subscribers | `record_share`, `update_*`, `subscribe`, `_publish` | all threads, SSE clients |
| Web dashboard (`webui.py`) | a queue per SSE client | `_serve_events` | statistics provider |
| Telegram notifier (`notifier.py`) | outbound queue, update offset, handlers | `notify`, `_worker`, `_inbound_loop`, `shutdown` | `main()` and all threads |
| Solo client (`solo.py`) | `_last_template`, `current_job` | `_fetch_template`, `reader_loop`, `submit` | bitcoind, `mine()` |
| Command line (`cli.py`) | the wiring of all of the above | start-up, `/stop`, `/restart`, shutdown order | everything |
| `address.py`, `block.py`, `sha_native.py`, `bench.py`, `demo.py`, `banner.py` | none | pure functions, one-shot tools | |

What is hard in this code, component by component (the `hazards` of
`PROJECT.json` give the lines):

* *Failover.* Three counters and a round flag decide between "next pool at
  once", "same pool after a pause" and "pause, then a new round". Correct means:
  no pool is hammered without a pause, a reachable pool is always tried again,
  the pool that is blamed is the one that failed.
* *Sessions.* The supervisor, the reader thread, `/restart`, `/stop` and the
  peer may all end a session, in any order. Correct means: everything ends after
  a stop, `/restart` leads to a new attempt, jobs of an older connection are not
  mined on a newer one, threads do not pile up.
* *Shares.* A share passes through the queue of the workers, SQLite, the socket,
  two dictionaries keyed by a request id, and comes back through another thread,
  while either end of the connection may go away and request ids start again.
  Correct means: at most one verdict for a share, its own; rows, metrics and
  notifications agree.
* *Jobs.* The workers search one combination of job, extranonce1, extranonce2 and
  difficulty, all of which change under `mine()`. Correct means: the extranonce is
  the one of the job and never one of another pool, no combination is searched twice,
  workers follow the client.
* *Workers.* Processes share a counter, a bounded queue and a stop event, and may be
  killed while they hold a lock, and die of it late. Correct means: each nonce is tested
  once, the counter is exact, `stop_pool` always returns, and nobody waits afterwards for a
  lock that a dead worker holds.
* *Solo mode.* Template and job are two variables under two locks, written by up to
  three threads; the header is assembled twice, in different byte orders. Correct
  means: both are of the node's block, and the block that is submitted is the one that
  was searched.
* *Notifier.* Two threads, a bounded queue that `shutdown()` joins without a timeout,
  and an update offset that lives in memory only, while Telegram may be asked twice or
  answer in vain. Correct means: no command is confirmed before it was handled, none is
  handled twice by one process, what was accepted before the shutdown is sent.
* *Shutdown.* `main()`, supervisor, reader, notifier and TUI wait for one another, some
  with timeouts, some as the interpreter's wait for its threads and worker processes. Correct means: however a
  stop is asked for, the process ends, and its session row is closed.
* *Statistics.* Events are delivered by the publishing threads without a lock, while
  streams subscribe, break and leave. Correct means: a stream misses or repeats nothing but
  what its full queue cost it, and a broken stream does not stay subscribed.

## 2. Modules

`PoolList` models `pools.py`. Every public method runs under the object's lock
and is one action. Endpoints are numbers; the two counters, compared only with
thresholds, saturate above them (`FailureCap`, `RotationCap`). `visit` and
`left` are history variables for the properties.

`Supervisor` extends `PoolList` with `supervisor_loop`, `run_session`,
`reader_loop`, `connect`, `close`, `set_endpoint` and the operator. `sup` is the
supervisor's program counter, one value per place where it can be preempted with
an effect another thread sees; `reader` is the set of reader threads, each in
`loop` (about to look `client.sock` up), `recv` or `handle`. Sockets are not
numbered: a thread, message or job is of the current connection or of an older
one. Time is not modelled: a timed wait may end at any moment. `/stop` and
`/restart` set an event and call `client.close()` in a second step
(`HandlerCloses`, `cli.py:431-441`), on whatever socket the client has by then.
`RotationIsFair` joins the two properties of `PoolList`, checked here under the calls the
supervisor makes and proved for any calls. `rotate()`, which only tests call, is left to
the proofs.

`ShareFlow` models the way of a share: the drain loop and callback of `mine()`,
`_send`, `submit`, the handshake, `_handle_message` and the session resets. A
step ends where a thread can be preempted with a visible effect: `_send` is
*increment and build*, *send*, *read `req_id` again*; `submit` then adds the id
under `_submit_lock`, `mine()` files it under `_pending_lock`. Between
`self.req_id += 1` and the literal that reads it there is no call, so CPython
with a GIL does not switch threads there. The reader handles a reply in four
steps (`HandleReply`, `Pop`, `Store`, `CountVerdict`), one per lock or database
call. Shares are model values; the row of a share is its `accepted` column;
`verdicts`, `begun` and `dropped` are history. `ShareFlow` assumes one reader at
a time, which `Supervisor` shows to hold without `/restart`
(`SurplusReadersComeFromRestart`).

`ShareLedger` is the abstract specification of the same: journal a share, settle
it at most once, count it, announce it if accepted. `ShareFlow!ImplementsLedger`
is the refinement; the code writes `accepted=False` for both "no answer yet" and
"rejected", and the mapping tells them apart with `verdicts`. `MCShareFlow` adds
the symmetry of shares and job ids.

`WorkerPool` models `parallel.py` with the part of `mine()` that owns a pool:
the ranges of `start_pool`, the loop of a worker (both backends share it), the
shared counter as a read and a write under its lock, the queue as a buffer per
process, a feeder thread and a pipe of limited size with its lock for writing
(`wlock`), and `stop_pool` with its drain limit, its timeouts and `terminate()`. That
call only sends a signal (`killed`): the worker dies of it (`Dies`) at any later time,
wherever it is then, and a lock it holds stays locked; `join(timeout=2.0)` may return
before (`Reap`). Any nonce may win, and finds are only counted. `mine()` reads the
counter under its lock for the hash rate (`Report`). `start_pool` makes a queue, a
counter and an event of its own, so that a process of the old pool that is still there
shares nothing with the new one and is not followed any further. `atStop` is history.

`JobSwitch` models what header the workers search: the client's `current_job`,
extranonce and difficulty, written by handshake and reader, and the snapshot, the
extranonce2 counter and the job check of `mine()`. An extranonce is a record of an
extranonce1 and the number of values its size leaves, `1 << 8 * size`, with the pool
that hands it out; `pool` is the one the client is aimed at (`set_endpoint`). A job keeps,
as history, the extranonce the pool announced it for; `replied` says whether the reply to
subscribe of the session was read, and a search notes it when it begins.
`subscribe_and_authorize` writes extranonce1 and its size without `job_lock`
(`stratum.py:96-97`); no call lies between the two writes, so CPython with a GIL does not
part them and they are one step. A `mining.set_extranonce` before the reply to subscribe
is left out. `MCJobSwitch` gives the extranonces values.

`Solo` models `solo.py` with the supervisor around it. A template is a number that
`Tmpl` maps to its fields: version and time as integers; bits, previous block hash, the
height push and the outputs of the coinbase as sequences of bytes; its transactions. Both
ways to a header are modelled field by field. `_template_to_job` packs version and time in
big-endian order, reverses and swaps the previous hash, builds the coinbase around the
marker `deadbeef`, looks for the marker (`find`) and cuts the coinbase in two there;
`_build_header_base` puts it together again with the extranonce2 and turns every field
into the order of headers, and the worker appends the nonce (`SearchedHeader`).
`submit()` builds the coinbase with the extranonce2 in it, folds the root, and
`_assemble_header` packs the fields of the template with the time and nonce of the find
(`SubmittedHeader`). A hash is the pair of what is hashed, that of the coinbase its
bytes. `TemplatesAreWellFormed` says what `bitcoind` ensures: integers of four bytes,
hashes in groups of four, a height of at most three bytes with its sign (up to
8388607). The loops over merkle
layers are recursive functions of the number of the layer (`layers`, `full_layers`). `_fetch_template` is
three steps (call, `_last_template`, `current_job`), by the supervisor in
`connect()` or by a reader. A find calls `submit()`; with `ByMine` the search starts
under the condition of `mine()`, without it whenever there is a job, as in
`tests/test_solo.py`. The operator of this mode has `/restart` and a stop.
`MCSolo` gives the templates.

`Notifier` models `notifier.py`: the outbound queue with its worker, the inbound poller
with `_last_update_id`, and `shutdown()`, which the main thread runs. Telegram is
external: it keeps `updates` in order and forgets those below the offset of a call when
the call reaches it, whether or not its answer arrives. A message is a text or the
sentinel; `unfinished` is the counter of `Queue.join()`. A handler is up to three steps
(its first statement, `client.close()` in those of `/stop` and `/restart`, the answer);
which of the other commands an update holds is left open. An error that the poller does
not catch, as `IncompleteRead` of `http.client`, ends its thread (`FetchFails`), and
commands are not heard any more. `ProcessEnds` takes all that
lives in the process. `owed`, `handled` and `times` are history. `_stop_event` is left
out: the only condition that reads it (`notifier.py:307`) comes down to `item is None`.

`Lifecycle` extends `Notifier` with the process around it: one step of `main` per
statement of `main()` that another thread can see (start-up, the wait for the first job,
`mine()`, each call of the finally block), the session row and the connection of the
store, `client.sock`, and supervisor and reader reduced to what the end of the process
waits for: a session may end at any time, for any reason, `/restart` among them (its event
and the reader it leaves behind are in `Supervisor`). At the exit the interpreter waits for
the threads that are no daemons, and then for the worker processes (`JoinThreads`,
`Exit`); `mine()` does not return before `stop_pool` has told each of them to end, or
terminated it. The handler of `/stop` sets the stop and closes the socket in the poller's thread; the
reader writes its verdict to the store and posts a notice, and dies of the exception if
the store is closed. The operator starts processes, presses `q` or Ctrl+C and kills;
users write to the bot. An exception that leaves `mine()` has the effect of a Ctrl+C
there. Joins with a timeout only pass time. Ctrl+C during start-up, or a second one inside
`stop_pool`, is left out.

`StatsBus` models the way of an event from `StatsProvider` (`tui.py`) to an event stream
of the dashboard (`webui.py`): the update under `_lock`, the copy of the list of
subscribers under `_sub_lock`, one call of a subscriber after the other without a lock,
the bounded queue of each stream and its thread, which writes, keeps alive and leaves.
The n-th event of a publisher stands for its kind and payload. A write to a broken
connection may still succeed, a bounded number of times.

`PoolListProofs`, `SupervisorProofs`, `ShareFlowProofs`, `WorkerPoolProofs`,
`JobSwitchProofs`, `SoloProofs`, `StatsBusProofs` and `LifecycleProofs` (which also proves
about `Notifier`) hold the theorems.

## 3. Runs

| Run | Module, configuration | What it shows |
|---|---|---|
| `supervisor` | `Supervisor` | `NoHotReconnect`, `BlamesTheRightPool`, `SurplusReadersComeFromRestart`, `JobIsOfThisConnection` in every interleaving of supervisor, readers, operator and pools. `RotationIsFair`: a pool never collects `rotate_after` failures while it stays current, and a full failed round really gave every endpoint up. `Failover`, `StopEndsThreads`, `RestartReconnects` under fairness. |
| `share_flow` | `MCShareFlow` | `VerdictOnce`, `OwnVerdictInSession`, `TotalCountsRows`, `LedgersAgree`, and the refinement `ImplementsLedger`. |
| `share_flow_repeat` | `ShareFlow`, `ShareFlowRepeat.cfg` | `OwnVerdictInSession` with a pool that answers a request twice and with `--suggest-diff`. |
| `lifecycle` | `Lifecycle` | `EachCommandIsHandled`: over lost answers, errors that end the poller, kills and restarts Telegram is told to forget only what some process handled to its end, and no process handles an update twice. `DrainedBeforeEnd`: when `queue.join()` of `shutdown()` returns, everything accepted before is sent or tried, whatever is posted meanwhile. `StopEndsProcess`: a stop by `/stop`, `q` or Ctrl+C ends the process with its session row closed, whatever the threads are doing. |
| `stats_bus` | `StatsBus` | `StreamIsComplete`: a stream that lost nothing to its full queue gets the events due to it once and in the order of each publisher, whoever comes or goes meanwhile. `BrokenStreamsEnd`: a broken stream is unsubscribed in the end, also when no event comes any more. |
| `worker_pool` | `WorkerPool` | `TestedOnce`: the ranges partition the nonce space. `CounterExact`: no hash is lost or counted twice. `StopLatency`, `PoolStops`: a stop is seen within a tick, and `stop_pool` returns though a worker may hang on a full pipe or on a lock. `HolderIsAlive`: `mine()` never waits, for its report, for a lock of the counter that died with its holder, though `terminate()` may hit a worker that has it. |
| `job_switch` | `MCJobSwitch` | `HeaderMatchesOffer`: a search begun after the reply to subscribe uses the extranonce of its job. `NoForeignExtranonce`: none ever uses an extranonce of another pool. `NoWorkTwice`: all values of extranonce2 are used before one is used again, over wraps and changes of the size. `WorkersFollow`: the workers come to search the job that stays, or to rest, and if searches keep ending, with the difficulty that stays. |
| `flow_dropped` | `ShareFlow`, `FlowDropped.cfg` | Violation of `NoFindIsDropped`: `parallel.py:248` drains the queue "so that they are not lost", and the finds are lost. |
| `flow_early` | `ShareFlow`, `FlowEarly.cfg` | Violation of `FastReplyIsCredited`: a reply read before `submit()` filed the id is ignored (`miner.py:291`, `stratum.py:200-205`). |
| `solo` | `MCSolo` | `BlockIsAsSearched`: the two ways from a template to a header agree in every field, also when a template with another time came in between. `BlocksAreWellFormed`: the header names the previous block in header byte order, and its root is that of the full merkle tree. `JobAndTemplateAgree`, `JobFollowsNode`, `StopEndsSolo`: template and job stay together over polls, failures of the node and sessions. |
| `solo_tip` | `MCSolo`, `SoloTip.cfg` | Violation of `JobIsOfTip`: `solo.py:467` calls the first 16 digits of the previous hash unique; where hashes begin with zeros the job is never replaced. |
| `solo_idle` | `MCSolo`, `SoloIdle.cfg` | Violation of `SoloIsMined`: `mine()` waits for an extranonce1 that `SoloClient` never has. |

Met while modelling, and described by no run of its own:

* Ctrl+C while `main()` waits for the first job (`cli.py:454`) leaves `main()` without
  setting the stop, and the supervisor, no daemon, keeps the process alive for ever,
  though `docs/getting-started.en.md:73` promises a clean end ("closes the socket cleanly
  and joins all threads"); in the model the process is then at `exit` without `stop`;
* an update handled after `stop_inbound()` gave up its join of 5 s (a poll lasts up to
  30 s) puts its answer into the queue during or after the shutdown, though
  `notifier.py:276-277` orders the calls to prevent that;
* the offset that confirms a `/stop` is sent by the next poll only, which a stopping
  process need not reach: the next process is handed the same `/stop` and stops at once
  (`EachCommandIsHandled` bounds the repetition within a process only);
* the reader is joined by nobody at a stop, so its last verdict may come after
  `store.close()` (`cli.py:497`): `update_share_accepted` raises, and the row stays
  unaccepted;
* `/healthz` takes `client.sock is not None` for a living reader (`cli.py:400`), and
  `close()` leaves `sock` set (`stratum.py:207-213`): a client that lost its pool is
  `degraded`, not `down` as `metrics.py:15-16` says;
* an event stream outlives `WebUIServer.stop()`, though `webui.py:349-350` names the stop
  of the server as one of its ends;
* a full queue of a stream loses the newest event (`webui.py:369-372`), and events of two
  threads may come in the other order, though `tui.py:72-73` says subscribers are
  called under the lock of the list:
  "share_accepted" before "share_found";
* `_rotate_locked` leaves the failure counter of the pool it leaves (`pools.py:143`),
  though `pools.py:13-14` says the local counter is reset: a pool visited again is
  left at its first failure;
* after `/restart` the supervisor does not wait for the reader to exit, though
  `miner.py:57-58` says so: two readers may read one connection for a while
  (`SurplusReadersComeFromRestart` bounds them);
* a new session keeps the difficulty of the one before (`stratum.py:67`): until the
  pool tells its own, `mine()` pairs a job with a foreign difficulty, though
  `miner.py:239-240` calls the two a consistent pair;
* in solo mode `/restart` starts a session next to the old reader, which only a stop
  or a failing call ends; and `submit()` builds the block from the newest template, so a
  find for an older one with other transactions, or of the block before, gets another
  header than the one that was searched;
* after a full round of failures the supervisor pauses twice, the second time
  with the doubled delay (`miner.py:123-141`);
* a `/restart` that arrives while no session is up stays pending and tears down
  the next session (`miner.py:91`);
* `_pending_submits` survives a reconnect while request ids start again, and
  `mine()` may add an id of the old connection to `_submit_req_ids` after the
  reset: the reply to a new share can then settle an old one
  (`OwnVerdictInSession` says exactly where this cannot happen);
* `_pending_submits.clear()` forgets shares that the pool still answers, also
  when the worker pool restarts for the same job (`miner.py:267-274`);
* `hopehash_shares_total` also counts shares whose `submit()` raised
  (`TotalCountsRows` states what it does count);
* a job that a pool announces before it answers subscribe is mined, after a
  reconnect to the same pool, with the extranonce1 of the old connection, if `mine()`
  begins to search it before the reply, and until the job changes (`replied` in
  `HeaderMatchesOffer`; after a change of pool `set_endpoint` prevents it, see
  `NoForeignExtranonce`);
* a new difficulty alone does not restart a search (`miner.py:364`): the workers go on
  with the old target until the job changes or the nonces are used up;
* `p.join(timeout=2.0)` after `terminate()` (`parallel.py:269`) may return with the
  process alive: it outlives `stop_pool`, next to the workers of the next job;
* `bench.py:134` takes the lock of the counter after `stop_pool`, as the comment at
  129-130 wants it for the last counts: a worker that was terminated with the lock hangs
  the benchmark, and one that was terminated without has not added its last counts.
  (`mine()` reads the counter before `stop_pool` only, which `HolderIsAlive` is about);
* an exception of `http.client` that is no `OSError` ends the thread of the poller
  (`notifier.py:194-201`), and nothing starts it again: the bot is deaf from then on;
* only job ids are compared (`miner.py:364`), so a job that is dropped and announced
  again with the same id and another extranonce between two polls of 50 ms is not
  noticed, and the old header is searched on;
* with an `extranonce2_size` of 0 the format of `miner.py:260` still writes one
  digit, and `bytes.fromhex` raises in `mine()`. Pools send 4 or 8; the model
  assumes a size of at least one value and does not format.

## 4. Bounds and fairness

*Supervisor*: two pools with threshold 2 make a full round of failures, a rotation with
and without it, and a second visit possible; the caps of the counters are at the
thresholds, where comparisons stop telling values apart; one `/restart` and two reader
identities allow an abandoned reader next to a live one, which is what the properties
distinguish (any number is covered by the theorems); a backoff cap of 2 reaches the cap.
*ShareFlow*: two shares are needed for one to be
mistaken for the other, two connections for request ids to start again; one job
id suffices, since only "a job or none" matters there and the worker pool may
also restart for the same job. The second configuration spends the states on a
repeated reply instead of the second share. *WorkerPool*: five nonces over two
workers leave a remainder, ticks of two end in the middle of a range, and with
room for one find in the pipe and a drain limit of one a worker can hang in its
exit; any nonce may win. *JobSwitch*: extranonces with two and with three values make
the counter wrap in both and exceed the limit when the size shrinks; one pool hands out
two and another a third, so that changes within a pool and between pools occur; two job ids
and two difficulties suffice to tell a change from none. The counter is bounded by
the wrap itself, `recent` by the number of values. *Solo*: two blocks, one of them with
two templates that differ in their time, are what a reader can be late between; none and six
transactions give merkle layers of odd and even length; one extranonce2 and one nonce of
four different bytes each tell every byte order from every other, and the outputs contain
the marker as well; one `/restart` and two reader identities
allow one abandoned reader. Hashes of eight bytes keep the ratio of id to hash (a quarter) and
have two groups of four, so that the order of groups matters. *Lifecycle*: a queue of two is
full with one notice and the sentinel, or two notices; two updates are needed for one to
be confirmed by the answer to the other; starts, verdicts, updates and Ctrl+C share a
budget of four inputs (`MaxInputs`), so that every mix of four is tried, among them two
processes that read the same two updates; `q` and kills are not bounded but by that.
*StatsBus*: two publishers and two streams, three events and queues of two, so that a
queue fills and one stream may leave while the other is still to be called; one write to
a broken connection may pass unnoticed.

Fairness is assumed of threads only (`Supervisor!Fairness`): the supervisor and
each reader keep running, a handshake ends (answer, refusal or the 30 s socket
timeout) and so does a `recv`. Nothing is assumed of the operator, of further
messages, or of pools coming up: `Failover` has its own premise, that some pool
stays reachable and no stray reader eats its replies. `WorkerPool!FairSpec`
assumes that the parent keeps running and nothing of the workers, so that
`PoolStops` holds though a worker hangs. `JobSwitch!FairSpec` assumes that `mine()` takes
a job that is there and looks for a new one; nothing is assumed of pool and session.
`Solo!FairSpec` assumes that supervisor, readers and miner keep running: a call to
bitcoind has a timeout, and the pause between polls is a wait with one. Nothing is
assumed of bitcoind: `JobFollowsNode` and `SoloIsMined` have their own premise, that it
stays up. `Lifecycle!FairSpec` assumes that the threads of a process keep running: calls to
Telegram, `recv` and joins have timeouts, except `queue.join()`, which is what
`StopEndsProcess` is about. `StatsBus!Fairness` assumes that the threads of streams keep
running (their `get` has a timeout of 1 s, and a keepalive is due after 15 s), and nothing of
publishers and browsers.

## 5. Proofs

| Theorem | Property |
|---|---|
| `PoolListProofs!PatienceIsBounded` | `PatienceBounded` |
| `PoolListProofs!FullCycleIsComplete` | `FullCycleMeansAll` |
| `PoolListProofs!RotationStaysFair` | `RotationIsFair` |
| `SupervisorProofs!NoHotReconnectLoop` | `NoHotReconnect` |
| `SupervisorProofs!RightPoolIsBlamed` | `BlamesTheRightPool` |
| `SupervisorProofs!JobsAreOfThisConnection` | `JobIsOfThisConnection` |
| `SupervisorProofs!RestartsBoundReaders` | `SurplusReadersComeFromRestart` |
| `SupervisorProofs!SupervisorUsesPoolList` | `PoolList!PoolSpec`, which `Supervisor` implements |
| `SupervisorProofs!SupervisorRotatesFairly` | `RotationIsFair`, of the running miner |
| `SupervisorProofs!SupervisorTypes` | `TypeOK` of `Supervisor` |
| `ShareFlowProofs!ShareSettledOnce` | `VerdictOnce` |
| `ShareFlowProofs!LedgersStayEqual` | `LedgersAgree` |
| `ShareFlowProofs!TotalIsRowCount` | `TotalCountsRows` |
| `ShareFlowProofs!FlowImplementsLedger` | `ImplementsLedger` |
| `ShareFlowProofs!OwnVerdictHolds` | `OwnVerdictInSession` |
| `ShareFlowProofs!FlowTypes` | `TypeOK` of `ShareFlow` |
| `WorkerPoolProofs!NoncesArePartitioned` | `TestedOnce` |
| `WorkerPoolProofs!StopWithinTick` | `StopLatency` |
| `WorkerPoolProofs!ReportIsNotLockedOut` | `HolderIsAlive` |
| `WorkerPoolProofs!CounterIsExact` | `CounterExact` |
| `WorkerPoolProofs!PoolTypes` | `TypeOK` of `WorkerPool` |
| `JobSwitchProofs!WorkersUseRightExtranonce` | `HeaderMatchesOffer` |
| `JobSwitchProofs!NoSearchIsRepeated` | `NoWorkTwice` |
| `JobSwitchProofs!WorkersUseNoForeignExtranonce` | `NoForeignExtranonce` |
| `JobSwitchProofs!TypesHold` | `TypeOK` of `JobSwitch` |
| `SoloProofs!JobAndTemplateStayTogether` | `JobAndTemplateAgree` |
| `SoloProofs!HeadersAgree` | `BlockIsAsSearched` |
| `SoloProofs!MerkleStep` | one layer of branch and tree, of any length |
| `SoloProofs!BlocksCommitToAll` | `BlocksAreWellFormed` |
| `SoloProofs!MarkerIsFound` | the marker is found, and in its place: `solo.py:497` is never reached |
| `SoloProofs!SoloTypes` | `TypeOK` of `Solo` |
| `StatsBusProofs!StreamGetsAllDue` | `StreamIsComplete` |
| `StatsBusProofs!BusTypes` | `TypeOK` of `StatsBus` |
| `LifecycleProofs!ProcessUsesNotifier` | `Notifier!NotifierSpec`, as an abstraction of the process |
| `LifecycleProofs!ProcessTypes` | `TypeOK` of `Lifecycle` |
| `LifecycleProofs!ShutdownDrains` | `DrainedBeforeEnd` |
| `LifecycleProofs!OffsetsLoseNothing` | `EachCommandIsHandled` |

They rest on `PoolsAssumption`, `SupervisorAssumption`, `ShareFlowAssumption`,
`WorkerPoolAssumption`, `JobSwitchAssumption`, `SoloAssumption`, `TemplatesAreWellFormed`,
`StatsBusAssumption`, `NotifierAssumption` and `LifecycleAssumption` only, which the code's
constructors check, which `bitcoind` ensures, or which bound the model.

*Pool list.* `PatienceBounded` is not inductive: the failure counter of the
current pool may be left over from an earlier visit. The invariant adds
`visit <= failures[idx]` and that the counter of a pool being current is below
the threshold or the pool was just entered. `FullCycleMeansAll` needs that
`left` is the cyclic interval of the last `rotations` positions before `idx`.

*Supervisor.* `NoHotReconnect` needs to know where the pools tried since the
last pause lie: they are those left since the last pause, plus the current one
only where a pause is still to come. `JobIsOfThisConnection` needs that without
`/restart` the only live reader is the one being watched, and that what a reader
has in hand is of the current connection. `RestartsBoundReaders` counts the readers that
are alive and not watched (`Strays`): no more than there were `/restart` commands whose
event was cleared, and one more once a stop lets the supervisor leave its reader.
`SupervisorUsesPoolList` takes each step of supervisor, readers, operator and pools to one
call of the list or to none, so that what `PoolListProofs` shows for any calls holds in the
running miner (`SupervisorRotatesFairly`).

*Share flow.* That a share is settled once has nothing to do with request ids. `FlowInv`
follows a share through the places it can be in: queue, `mine()`'s hand, `_pending_submits`,
callback. Each owner has it alone, and until the callback's `Store` it has no
verdict; so no collision of ids, repeat or reconnect can settle it twice. The
same invariant gives the steps of the refinement: `Journal`, `Store` and
`CountVerdict` are steps of `ShareLedger`, everything else stutters. `CountInv`
and `TotalInv` add the cardinalities. `OwnVerdictInSession` is about ids: the invariant
(`OwnInv`) collects who may yet use an id in the session that is up, a request in flight,
a reply, an entry of `_pending_submits` or the id `mine()` has in hand (`Claimed`). Two
claims of this session to one id are of one request, and none is above `req_id`
(`IdsAreUnique`); a share that is still to be submitted claims nothing (`NewIsUnclaimed`);
nothing of an old connection is on the wire or in the reader's hands (`SessionFits`), and
the id that `_send` reads again is still its own (`MidIsLast`).

*Worker pool.* The range lemmas are arithmetic about `i * Step` and the
remainder, also when there are more workers than nonces. `StopLatency` is
inductive with the fact that a worker in its loop has counted, since it last
looked at `stop_event`, everything it tested. `CounterExact` says that the counter is the
size of the union of what each worker has handed over (`Counted`): the sets are disjoint
because the ranges are, each write under the lock adds a set as large as the local count, and
what a worker read while it holds the lock is still the counter when it writes.
`HolderIsAlive` needs that whoever holds the lock is between its read and its write, unless it
was sent the signal (`HolderWrites`), and that nobody is killed before `stop_pool` has joined all
(`NoneKilledBefore`), after which this pool is reported on no more.

*Job switch.* `ExtranonceInv` says that the client's extranonce, if it has one, is of the
pool it is aimed at, that a job is of that pool and within a session of the extranonce
offered there, and that once the reply was read the two are the same. For `NoWorkTwice` the invariant says that two values used for a job are as far
apart as their places in the sequence, up to one wrap (`Spaced`), and that the counter
stands one after the last; `AppendConsecutive` and `LastFewConsecutive` are the steps.

*Solo.* `JobAndTemplateAgree` needs that without `/restart` one thread at a time is alive
among supervisor and readers as far as templates go (`OneThread`), and that between the
two writes of a fetch the thread still has what it wrote first (`PairInHand`).
`HeadersAgree` is about bytes: reversing groups of four twice restores them
(`SwapIsInvolution`), packing in one order and reversing is packing in the other
(`PackedBytes`), and the coinbase that is cut at the marker and put together with an
extranonce2 is the one that is built with it (`CoinbaseIsRebuilt`). The last needs that the
marker is found where it was put (`MarkerIsFound`): by the bytes that may stand before it
(`CoinbaseParts`) it cannot begin earlier, whatever the height, and what follows it does
not matter.
`BlocksCommitToAll` is an induction over the layers of the merkle tree, in three parts: the
recursive functions exist (`LayersUnfold`, `FullLayersUnfold`, `PathUnfold`); what follows
the coinbase's node gets shorter, so that the branch has an end; and the node of the path,
with what follows it, is the layer of the whole tree (`MerkleStep`, `MerkleAgree`). The
induction is over sets of natural numbers (`NatSet`), from the least element that a
well-founded order has, as the theorems about predicates cannot be instantiated.

*Statistics.* Which events a stream is due depends on when the list of subscribers was
copied: from the first round of calls that found it subscribed (`from`) to the last before it
left (`until`), but for the call that is still to come (`LastDue`). `BusInv` says that what
is due and what was received, in the connection, in hand and in the queue, is the same set in
order, and that the calls still to come (`todo`) are to different streams, and to streams that
left only if they left during that round (`CallsFit`).

*Notifier and process.* Every step of `Lifecycle` is a step of `Notifier` or leaves it
alone (`ProcessUsesNotifier`), so the rest is proved of the notifier with any user. For
`DrainedBeforeEnd` the invariant says that `unfinished` counts the queue and the text being
sent, that what is owed is a part of it, and that a sentinel is queued only after the join
has returned, so that taking it off the count takes nothing owed. For
`EachCommandIsHandled` it says that what the process has passed was handled or is in its
hand, that a fetched batch lies ahead of `_last_update_id` with no gap but for what was
handled before, and that nothing at or below it is left when a call is made.

*Only model-checked:* liveness (`Failover`, `StopEndsThreads`,
`RestartReconnects`, `PoolStops`, `WorkersFollow`, `JobFollowsNode`, `StopEndsSolo`,
`StopEndsProcess`, `BrokenStreamsEnd`: the prover does not treat fairness). Every
invariant of a passing run is also proved; the runs check them too, on the instances.

## 6. Plan

1. `ShareFlow` with the two readers that a `/restart` leaves for a while, and what of
   `VerdictOnce` and `OwnVerdictInSession` survives there.
2. *Health*: `/healthz` with the ages it compares, over the states of `Supervisor`.
3. Proofs: an abstract bus (a stream gets what is published between its subscription and its
   end) that `StatsBus` implements.

## 7. Not modelled

Hash functions, the hexadecimal notation of bytes, how height and outputs of a coinbase are
written, the header and target of a job of a pool, addresses and difficulty arithmetic; output (TUI, HTML,
log, banner, metrics exposition); `bench.py`, `demo.py` and the libcrypto
binding; deployment files; the reports of the store, which only read; the HTTP servers as objects
(start, stop, routing) and the health provider. `/restart` with two readers on one connection is
modelled in `Supervisor` (threads) but not in `ShareFlow` (messages). Builds of
CPython without the GIL are out of scope.
