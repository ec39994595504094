------------------------------ MODULE StatsBus ------------------------------
(***************************************************************************)
(* The statistics bus: StatsProvider of src/hope_hash/tui.py with its three*)
(* publishing threads, and the event streams of the web dashboard,         *)
(* src/hope_hash/webui.py, which subscribe to it, one thread per request.  *)
(*                                                                         *)
(* A publisher changes the snapshot under _lock, copies the list of        *)
(* subscribers under _sub_lock and then calls them one by one without a    *)
(* lock.  A subscriber is the queue of a stream.  The n-th event of a      *)
(* publisher is <<publisher, n>>; n is also how often that publisher       *)
(* changed the snapshot, whose fields have one writer each.                *)
(*                                                                         *)
(* The connection of a stream is external: it may break at any time, and a *)
(* write notices that at once or later.  WebUIServer.stop() is no step: it *)
(* only means that no further stream subscribes.                           *)
(***************************************************************************)
EXTENDS Integers, Sequences, SequencesExt

CONSTANTS
    Publishers,   \* mine(), the reader, the supervisor
    Streams,      \* requests of /api/events
    QueueMax,     \* _SSE_QUEUE_MAX
    MaxEvents,    \* bound: events of all publishers together
    MaxBlind      \* bound: writes to a broken connection that do not fail

ASSUME StatsBusAssumption ==
    /\ QueueMax \in Nat \ {0}
    /\ MaxEvents \in Nat /\ MaxBlind \in Nat

VARIABLES
    shown,     \* changes of the snapshot made by each publisher
    pub,       \* where each publisher is
    todo,      \* subscribers it has still to call, from its copy of the list
    subs,      \* _subscribers
    at,        \* where the thread of each stream is
    queue,     \* ev_queue of each stream
    hand,      \* the event it took and writes, or none
    broken,    \* connections that are broken
    blind,     \* writes that did not fail since
    (* History, read by properties only. *)
    sent,      \* events written
    lost,      \* streams that lost an event to a full queue
    from,      \* event of each publisher copied last when the stream subscribed
    until      \* ... and when it unsubscribed

pubVars    == <<shown, pub, todo>>
streamVars == <<at, hand, broken, blind, sent>>
pastVars   == <<lost, from, until>>
vars == <<pubVars, subs, streamVars, queue, pastVars>>

Events == Publishers \X Nat

TypeOK ==
    /\ shown \in [Publishers -> Nat]
    /\ pub \in [Publishers -> {"idle", "copy", "call"}]
    /\ todo \in [Publishers -> Seq(Streams)]
    /\ subs \in Seq(Streams) /\ IsInjective(subs)
    /\ at \in [Streams -> {"none", "get", "write", "leave", "end"}]
    /\ queue \in [Streams -> Seq(Events)]
    /\ \A s \in Streams : Len(queue[s]) <= QueueMax
    /\ hand \in [Streams -> Seq(Events)]
    /\ \A s \in Streams : Len(hand[s]) <= IF at[s] = "get" THEN 0 ELSE 1
    /\ sent \in [Streams -> Seq(Events)]
    /\ broken \subseteq Streams /\ lost \subseteq Streams
    /\ blind \in [Streams -> 0 .. MaxBlind]
    /\ from \in [Streams -> [Publishers -> Nat]]
    /\ until \in [Streams -> [Publishers -> Nat]]

Zero == [p \in Publishers |-> 0]

Init ==
    /\ shown = Zero
    /\ pub = [p \in Publishers |-> "idle"]
    /\ todo = [p \in Publishers |-> <<>>]
    /\ subs = <<>>
    /\ at = [s \in Streams |-> "none"]
    /\ queue = [s \in Streams |-> <<>>]
    /\ hand = [s \in Streams |-> <<>>]
    /\ sent = [s \in Streams |-> <<>>]
    /\ broken = {} /\ lost = {}
    /\ blind = [s \in Streams |-> 0]
    /\ from = [s \in Streams |-> Zero]
    /\ until = [s \in Streams |-> Zero]

-----------------------------------------------------------------------------
(* Publishers                                                              *)

Total == FoldFunction(+, 0, shown)

(* record_share, update_pool, or update_job with another job than before:  *)
(* the part under _lock.                                                   *)
Update(p) ==
    /\ pub[p] = "idle" /\ Total < MaxEvents
    /\ shown' = [shown EXCEPT ![p] = @ + 1]
    /\ pub' = [pub EXCEPT ![p] = "copy"]
    /\ UNCHANGED <<todo, subs, streamVars, queue, pastVars>>

(* _publish: the copy of the list, under _sub_lock.                        *)
Copy(p) ==
    /\ pub[p] = "copy"
    /\ todo' = [todo EXCEPT ![p] = subs]
    /\ pub' = [pub EXCEPT ![p] = IF subs = <<>> THEN "idle" ELSE "call"]
    /\ UNCHANGED <<shown, subs, streamVars, queue, pastVars>>

PutUnbounded(s, e) ==   \* mutant: the queue has no limit
    /\ queue' = [queue EXCEPT ![s] = Append(@, e)]
    /\ UNCHANGED lost

(* _on_event: put_nowait, and the event dropped when the queue is full.    *)
Put(s, e) ==
    \/ /\ Len(queue[s]) < QueueMax
       /\ queue' = [queue EXCEPT ![s] = Append(@, e)]
       /\ UNCHANGED lost
    \/ /\ Len(queue[s]) = QueueMax
       /\ lost' = lost \cup {s}
       /\ UNCHANGED queue

(* One call of a subscriber, outside of any lock.                          *)
Call(p) ==
    /\ pub[p] = "call"
    /\ Put(Head(todo[p]), <<p, shown[p]>>)
    /\ todo' = [todo EXCEPT ![p] = Tail(@)]
    /\ pub' = [pub EXCEPT ![p] = IF Len(todo[p]) = 1 THEN "idle" ELSE "call"]
    /\ UNCHANGED <<shown, subs, streamVars, from, until>>

-----------------------------------------------------------------------------
(* Streams: _serve_events                                                  *)

(* Number of the last event of each publisher whose receivers are settled. *)
Copied == [p \in Publishers |-> IF pub[p] = "copy" THEN shown[p] - 1 ELSE shown[p]]

Subscribe(s) ==
    /\ at[s] = "none"
    /\ at' = [at EXCEPT ![s] = "get"]
    /\ subs' = Append(subs, s)
    /\ from' = [from EXCEPT ![s] = Copied]
    /\ UNCHANGED <<pubVars, queue, hand, broken, blind, sent, lost, until>>

TakeEvent(s) ==
    /\ at[s] = "get" /\ queue[s] # <<>>
    /\ at' = [at EXCEPT ![s] = "write"]
    /\ hand' = [hand EXCEPT ![s] = <<Head(queue[s])>>]
    /\ queue' = [queue EXCEPT ![s] = Tail(@)]
    /\ UNCHANGED <<pubVars, subs, broken, blind, sent, pastVars>>

(* A write to a connection that is up succeeds; one to a broken connection *)
(* may, a limited number of times.                                         *)
Passes(s) ==
    \/ s \notin broken /\ UNCHANGED blind
    \/ s \in broken /\ blind[s] < MaxBlind /\ blind' = [blind EXCEPT ![s] = @ + 1]

WriteEvent(s) ==
    /\ at[s] = "write"
    /\ Passes(s)
    /\ at' = [at EXCEPT ![s] = "get"]
    /\ sent' = [sent EXCEPT ![s] = @ \o hand[s]]
    /\ hand' = [hand EXCEPT ![s] = <<>>]
    /\ UNCHANGED <<pubVars, subs, broken, queue, pastVars>>

WriteFails(s) ==
    /\ at[s] = "write" /\ s \in broken
    /\ at' = [at EXCEPT ![s] = "leave"]
    /\ UNCHANGED <<pubVars, subs, broken, blind, sent, hand, queue, pastVars>>

KeepaliveNever(s) ==   \* mutant: a stream without events writes nothing
    /\ at[s] = "get" /\ queue[s] = <<>>
    /\ UNCHANGED <<at, blind>>

(* No event for a while: a keepalive is due now and then.                  *)
Keepalive(s) ==
    /\ at[s] = "get" /\ queue[s] = <<>>
    /\ \/ Passes(s) /\ UNCHANGED at
       \/ s \in broken /\ at' = [at EXCEPT ![s] = "leave"] /\ UNCHANGED blind

WriteKeepalive(s) ==
    /\ Keepalive(s)
    /\ UNCHANGED <<pubVars, subs, broken, sent, hand, queue, pastVars>>

UnlistWhileCalled(s) ==   \* mutant: _publish walks the list itself, not a copy
    /\ subs' = RemoveFirst(subs, s)
    /\ todo' = [p \in Publishers |->
                  IF \E i \in DOMAIN todo[p] : todo[p][i] = s \/ pub[p] # "call"
                  THEN RemoveFirst(todo[p], s)
                  ELSE IF todo[p] = <<>> THEN <<>> ELSE Tail(todo[p])]

(* list.remove(callback).                                                  *)
Unlist(s) ==
    /\ subs' = RemoveFirst(subs, s)
    /\ UNCHANGED todo

Unsubscribe(s) ==
    /\ at[s] = "leave"
    /\ Unlist(s)
    /\ at' = [at EXCEPT ![s] = "end"]
    /\ until' = [until EXCEPT ![s] = Copied]
    /\ UNCHANGED <<shown, pub, queue, hand, broken, blind, sent, lost, from>>

StreamNext(s) ==
    \/ TakeEvent(s) \/ WriteEvent(s) \/ WriteFails(s) \/ WriteKeepalive(s)
    \/ Unsubscribe(s)

-----------------------------------------------------------------------------

(* The browser goes away, or the network does.                             *)
Break(s) ==
    /\ at[s] \notin {"none", "end"} /\ s \notin broken
    /\ broken' = broken \cup {s}
    /\ UNCHANGED <<pubVars, subs, at, blind, sent, hand, queue, pastVars>>

Next ==
    \/ \E p \in Publishers : Update(p) \/ Copy(p) \/ Call(p)
    \/ \E s \in Streams : Subscribe(s) \/ StreamNext(s) \/ Break(s)

Spec == Init /\ [][Next]_vars

(* The thread of a stream keeps running: get has a timeout of 1 s, a       *)
(* keepalive is due after 15 s.                                            *)
Fairness == \A s \in Streams : WF_vars(StreamNext(s))

FairSpec == Spec /\ Fairness
-----------------------------------------------------------------------------

Subscribed(s) == s \in Range(subs)

(* What was put into the queue of a stream, in order.                      *)
Received(s) == sent[s] \o hand[s] \o queue[s]

(* The last event of p the stream was to get so far.                       *)
LastDue(s, p) ==
    LET settled == IF at[s] = "end" THEN until[s][p] ELSE Copied[p]
    IN  IF s \in Range(todo[p]) THEN shown[p] - 1 ELSE settled

Due(s) == UNION {{p} \X (from[s][p] + 1 .. LastDue(s, p)) : p \in Publishers}

(* A stream that lost nothing to a full queue gets the events of each      *)
(* publisher without gap, once and in order: those whose subscribers were  *)
(* copied between its subscription and its end, whoever comes or goes      *)
(* while they are called (tui.py:161-190, webui.py:374-400).               *)
StreamIsComplete ==
    \A s \in Streams \ lost :
        at[s] # "none" =>
            /\ Range(Received(s)) = Due(s)
            /\ \A i, j \in 1 .. Len(Received(s)) :
                  i < j /\ Received(s)[i][1] = Received(s)[j][1]
                      => Received(s)[i][2] < Received(s)[j][2]

(* A stream whose connection breaks is unsubscribed in the end, also when  *)
(* no event comes any more: otherwise each visit of the dashboard would    *)
(* leave a queue and a thread behind (webui.py:382-400).                   *)
BrokenStreamsEnd == \A s \in Streams : s \in broken ~> ~Subscribed(s)
=============================================================================
