------------------------------ MODULE Notifier ------------------------------
(***************************************************************************)
(* TelegramNotifier of src/hope_hash/notifier.py, with both of its threads:*)
(* the worker, which sends what notify() queued, and the poller, which     *)
(* fetches updates and runs their handlers; and shutdown(), which the main *)
(* thread calls.  A process may end at any point and a new one be started: *)
(* _last_update_id is lost then, while Telegram keeps what it knows.       *)
(*                                                                         *)
(* Telegram is external: it numbers updates from 1 and forgets those below *)
(* the offset of a getUpdates call when the call reaches it, not when it is*)
(* answered.  An answer may be lost; a call that is lost changes nothing   *)
(* and is repeated, so it is no step.                                      *)
(*                                                                         *)
(* A message is "text" whatever it says.  Joins and puts with a timeout may*)
(* give up at any time.  _stop_event is left out: the only condition that  *)
(* reads it, notifier.py:307, is equivalent to `item is None`.             *)
(***************************************************************************)
EXTENDS Integers, Sequences, FiniteSets

CONSTANTS
    QueueMax,     \* queue_maxsize
    MaxUpdates    \* bound: updates users send to the bot

ASSUME NotifierAssumption == QueueMax \in Nat \ {0} /\ MaxUpdates \in Nat

UpdateIds == 1 .. MaxUpdates

(* What an update asks for: "command" is /restart or a command whose       *)
(* handler only answers, "other" a foreign chat, a text that is no known   *)
(* command, or no text.  All known commands have a handler.                *)
Commands == {"/stop", "command"}
Kinds == Commands \cup {"other"}
Kept  == Kinds \cup {"forgotten"}

VARIABLES
    (* Outbound. *)
    queue,        \* _queue: texts and the sentinel "stop"
    unfinished,   \* its unfinished_tasks
    worker,       \* where the worker thread is
    closing,      \* where the main thread is in shutdown()
    (* Inbound. *)
    poller,       \* where the poller thread is
    inboundStop,  \* _inbound_stop
    lastId,       \* _last_update_id
    batch,        \* updates fetched and not yet handled
    hand,         \* update whose handler runs, or 0
    (* Telegram; survives the process. *)
    updates,      \* what users sent, by update id, until it is forgotten
    (* History, read by properties only. *)
    owed,         \* texts accepted before shutdown() and not yet tried
    handled,      \* updates whose handling was finished by some process
    times         \* how often this process took an update to handle

outVars      == <<queue, unfinished, worker, closing, owed>>
pollVars     == <<poller, inboundStop, lastId, batch, hand, times>>
notifierVars == <<outVars, pollVars, updates, handled>>

NotifierTypeOK ==
    /\ queue \in Seq({"text", "stop"}) /\ Len(queue) <= QueueMax
    /\ unfinished \in Nat /\ owed \in Nat
    /\ worker \in {"none", "get", "send", "ended"}
    /\ closing \in {"no", "inbound", "drain", "sentinel", "join", "done"}
    /\ poller \in {"none", "look", "asked", "handle", "call", "close", "reply", "ended"}
    /\ inboundStop \in BOOLEAN
    /\ lastId \in 0 .. MaxUpdates
    /\ batch \subseteq UpdateIds
    /\ hand \in 0 .. MaxUpdates
    /\ updates \in Seq(Kept) /\ Len(updates) <= MaxUpdates
    /\ handled \subseteq UpdateIds
    /\ times \in [UpdateIds -> Nat]

NotifierInit ==
    /\ queue = <<>> /\ unfinished = 0 /\ worker = "none" /\ closing = "no" /\ owed = 0
    /\ poller = "none" /\ inboundStop = FALSE /\ lastId = 0 /\ batch = {} /\ hand = 0
    /\ times = [u \in UpdateIds |-> 0]
    /\ updates = <<>> /\ handled = {}

(* The constructor starts the worker; start_inbound() starts the poller.   *)
StartWorker ==
    /\ worker = "none"
    /\ worker' = "get"
    /\ UNCHANGED <<queue, unfinished, closing, owed, pollVars, updates, handled>>

start_inbound ==
    /\ worker # "none" /\ poller = "none"
    /\ poller' = "look" /\ inboundStop' = FALSE
    /\ UNCHANGED <<outVars, lastId, batch, hand, times, updates, handled>>

(* The end of the process, orderly or not, takes its threads and state.    *)
ProcessEnds ==
    /\ queue' = <<>> /\ unfinished' = 0 /\ worker' = "none" /\ closing' = "no" /\ owed' = 0
    /\ poller' = "none" /\ inboundStop' = FALSE /\ lastId' = 0 /\ batch' = {} /\ hand' = 0
    /\ times' = [u \in UpdateIds |-> 0]
    /\ UNCHANGED <<updates, handled>>

-----------------------------------------------------------------------------
(* Outbound                                                                *)

PutAnyway ==   \* mutant: the queue has no limit
    /\ queue' = Append(queue, "text")
    /\ unfinished' = unfinished + 1

(* put_nowait, and the text dropped when the queue is full.                *)
Put ==
    \/ /\ Len(queue) < QueueMax
       /\ queue' = Append(queue, "text")
       /\ unfinished' = unfinished + 1
    \/ /\ Len(queue) = QueueMax
       /\ UNCHANGED <<queue, unfinished>>

notify ==
    /\ worker # "none"
    /\ Put
    /\ UNCHANGED <<worker, closing, owed, pollVars, updates, handled>>

TakeTextDone ==   \* mutant: task_done comes before the text is sent
    /\ queue # <<>> /\ Head(queue) = "text"
    /\ worker' = "send"
    /\ queue' = Tail(queue)
    /\ unfinished' = unfinished - 1

TakeText ==
    /\ queue # <<>> /\ Head(queue) = "text"
    /\ worker' = "send"
    /\ queue' = Tail(queue)
    /\ UNCHANGED unfinished

(* The sentinel ends the worker; finally calls task_done for it as well.   *)
TakeStop ==
    /\ queue # <<>> /\ Head(queue) = "stop"
    /\ worker' = "ended"
    /\ queue' = Tail(queue)
    /\ unfinished' = unfinished - 1

Get ==
    /\ worker = "get"
    /\ TakeText \/ TakeStop
    /\ UNCHANGED <<closing, owed, pollVars, updates, handled>>

task_done_forgotten == UNCHANGED unfinished   \* mutant: no task_done after an error

task_done == unfinished' = unfinished - 1

(* _send succeeds or raises: the worker goes on either way.                *)
Send ==
    /\ worker = "send"
    /\ worker' = "get"
    /\ task_done
    /\ owed' = IF owed > 0 THEN owed - 1 ELSE 0
    /\ UNCHANGED <<queue, closing, pollVars, updates, handled>>

WorkerNext == Get \/ Send

-----------------------------------------------------------------------------
(* shutdown(), in the main thread                                          *)

(* stop_inbound sets the flag and then waits 5 s at most for the poller.   *)
BeginShutdown ==
    /\ worker # "none" /\ closing = "no"
    /\ closing' = "inbound" /\ inboundStop' = TRUE
    /\ owed' = Len(queue) + (IF worker = "send" THEN 1 ELSE 0)
    /\ UNCHANGED <<queue, unfinished, worker, poller, lastId, batch, hand, times,
                   updates, handled>>

JoinPoller ==
    /\ closing = "inbound"
    /\ closing' = "drain"
    /\ UNCHANGED <<queue, unfinished, worker, owed, pollVars, updates, handled>>

(* queue.join(): no timeout.                                               *)
Drain ==
    /\ closing = "drain" /\ unfinished = 0
    /\ closing' = "sentinel"
    /\ UNCHANGED <<queue, unfinished, worker, owed, pollVars, updates, handled>>

(* put_nowait, or put with a timeout of 1 s, or none.                      *)
PutSentinel ==
    /\ closing = "sentinel"
    /\ closing' = "join"
    /\ \/ /\ Len(queue) < QueueMax
          /\ queue' = Append(queue, "stop")
          /\ unfinished' = unfinished + 1
       \/ /\ Len(queue) = QueueMax
          /\ UNCHANGED <<queue, unfinished>>
    /\ UNCHANGED <<worker, owed, pollVars, updates, handled>>

JoinWorker ==
    /\ closing = "join"
    /\ closing' = "done"
    /\ UNCHANGED <<queue, unfinished, worker, owed, pollVars, updates, handled>>

ShutdownNext == JoinPoller \/ Drain \/ PutSentinel \/ JoinWorker

-----------------------------------------------------------------------------
(* Inbound                                                                 *)

UserSends(k) ==
    /\ Len(updates) < MaxUpdates
    /\ updates' = Append(updates, k)
    /\ UNCHANGED <<outVars, pollVars, handled>>

OffsetAgain == lastId   \* mutant: the last update itself is asked for again

Offset == IF lastId = 0 THEN 0 ELSE lastId + 1

Forget(ids) ==
    updates' = [u \in DOMAIN updates |-> IF u \in ids THEN "forgotten" ELSE updates[u]]

(* The loop's test of _inbound_stop, and the call if it goes on.           *)
Look ==
    /\ poller = "look"
    /\ \/ /\ inboundStop
          /\ poller' = "ended" /\ UNCHANGED updates
       \/ /\ ~inboundStop
          /\ poller' = "asked" /\ Forget({u \in UpdateIds : u < Offset})
    /\ UNCHANGED <<outVars, inboundStop, lastId, batch, hand, times, handled>>

(* The answer: all that is not forgotten, or nothing when the long poll    *)
(* ends without any.                                                       *)
Answer ==
    /\ poller = "asked"
    /\ batch' = {u \in DOMAIN updates : updates[u] # "forgotten"}
    /\ poller' = "handle"
    /\ UNCHANGED <<outVars, inboundStop, lastId, hand, times, updates, handled>>

(* A network error, a timeout or a broken answer: the loop waits, until the*)
(* backoff or the stop, and goes on.  Another error, as IncompleteRead of  *)
(* http.client, is not caught and ends the thread.                         *)
FetchFails ==
    /\ poller = "asked"
    /\ poller' \in {"look", "ended"}
    /\ UNCHANGED <<outVars, inboundStop, lastId, batch, hand, times, updates, handled>>

(* _handle_update up to the call of the handler: _last_update_id is        *)
(* advanced first, then the update may be ignored.                         *)
Take(u) ==
    /\ poller = "handle" /\ u \in batch /\ \A v \in batch : u <= v
    /\ batch' = batch \ {u}
    /\ lastId' = IF u > lastId THEN u ELSE lastId
    /\ times' = [times EXCEPT ![u] = @ + 1]
    /\ \/ /\ updates[u] \in Commands
          /\ poller' = "call" /\ hand' = u
          /\ UNCHANGED handled
       \/ /\ updates[u] \notin Commands
          /\ handled' = handled \cup {u}
          /\ UNCHANGED <<poller, hand>>
    /\ UNCHANGED <<outVars, inboundStop, updates>>

BatchDone ==
    /\ poller = "handle" /\ batch = {}
    /\ poller' = "look"
    /\ UNCHANGED <<outVars, inboundStop, lastId, batch, hand, times, updates, handled>>

(* A handler's first statement, and its second where there is one: those   *)
(* of /stop and /restart set an event and then call client.close().        *)
HandlerCalled ==
    /\ poller = "call"
    /\ poller' \in IF updates[hand] = "/stop" THEN {"close"} ELSE {"close", "reply"}
    /\ UNCHANGED <<outVars, inboundStop, lastId, batch, hand, times, updates, handled>>

HandlerCloses ==
    /\ poller = "close"
    /\ poller' = "reply"
    /\ UNCHANGED <<outVars, inboundStop, lastId, batch, hand, times, updates, handled>>

(* notify(reply), or the report of an exception.                           *)
Reply ==
    /\ poller = "reply"
    /\ Put
    /\ handled' = handled \cup {hand}
    /\ poller' = "handle" /\ hand' = 0
    /\ UNCHANGED <<worker, closing, owed, inboundStop, lastId, batch, times, updates>>

FetchNext == Look \/ Answer \/ FetchFails \/ BatchDone
TakeNext  == \E u \in UpdateIds : Take(u)

(* A process that uses the notifier, and its environment.                  *)
NotifierNext ==
    \/ StartWorker \/ start_inbound \/ ProcessEnds
    \/ notify \/ WorkerNext
    \/ BeginShutdown \/ ShutdownNext
    \/ FetchNext \/ TakeNext \/ HandlerCalled \/ HandlerCloses \/ Reply
    \/ \E k \in Kinds : UserSends(k)

NotifierSpec == NotifierInit /\ [][NotifierNext]_notifierVars

-----------------------------------------------------------------------------

(* An update that Telegram was told to forget was handled to its end by    *)
(* some process, whatever calls and answers were lost and wherever         *)
(* processes were killed; and no process handles an update twice           *)
(* (notifier.py:206, 227-229).  Another process may handle it again.       *)
EachCommandIsHandled ==
    /\ \A u \in DOMAIN updates : updates[u] = "forgotten" => u \in handled
    /\ \A u \in UpdateIds : times[u] <= 1

(* Once queue.join() in shutdown() has returned, every message accepted    *)
(* before the call was sent or tried, "stopped" among them, though other   *)
(* threads may go on posting (notifier.py:282-284, 315-317).               *)
DrainedBeforeEnd == closing \in {"sentinel", "join", "done"} => owed = 0
=============================================================================
