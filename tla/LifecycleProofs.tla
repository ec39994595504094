-------------------------- MODULE LifecycleProofs ---------------------------
(***************************************************************************)
(* Proofs about Notifier in the process that uses it.  Every step of       *)
(* Lifecycle is a step of the notifier or leaves it alone, so what is      *)
(* proved of Notifier for any user holds for the process.                  *)
(***************************************************************************)
EXTENDS Lifecycle, SequenceTheorems, TLAPS

-----------------------------------------------------------------------------
(* The process as a user of the notifier                                   *)

(* A step of main() does one thing to the notifier at most.                *)
LEMMA MainUsesNotifier ==
    ASSUME MainNext
    PROVE  NotifierNext \/ UNCHANGED notifierVars
<1>1. CASE CreateObservers
  BY <1>1 DEF CreateObservers, NotifierNext
<1>2. CASE Announce \/ NotifyStopped
  BY <1>2 DEF Announce, NotifyStopped, NotifierNext
<1>3. CASE StartThreads
  BY <1>3 DEF StartThreads, NotifierNext
<1>4. CASE Shutdown
  BY <1>4 DEF Shutdown, NotifierNext
<1>5. CASE Exit
  BY <1>5 DEF Exit, Gone, NotifierNext
<1>6. CASE StartSupervisor \/ FirstJob \/ MineReturns \/ SetStop \/ CloseClient \/ ShutdownReturns
           \/ end_session \/ CloseStore \/ JoinThreads
  BY <1>6 DEF StartSupervisor, FirstJob, MineReturns, SetStop, CloseClient, ShutdownReturns,
              end_session, CloseStore, JoinThreads
<1> QED
  BY <1>1, <1>2, <1>3, <1>4, <1>5, <1>6 DEF MainNext

LEMMA NextUsesNotifier ==
    ASSUME [Next]_vars
    PROVE  [NotifierNext]_notifierVars
<1>1. CASE MainNext
  BY <1>1, MainUsesNotifier
<1>2. CASE NewProcess \/ SupNext \/ ReaderGets \/ PressQ
  BY <1>2 DEF NewProcess, SupNext, ReaderGets, PressQ
<1>3. CASE ReaderNext
  BY <1>3 DEF ReaderNext, ReaderEnds, StoreVerdict, notify_share_accepted, NotifierNext
<1>4. CASE PollerNext
  BY <1>4 DEF PollerNext, RunHandler, RunClose, NotifierNext
<1>5. CASE SendNext
  BY <1>5 DEF SendNext, NotifierNext
<1>6. CASE Interrupt \/ Kill
  BY <1>6 DEF Interrupt, Kill, Gone, NotifierNext
<1>7. CASE Write
  BY <1>7 DEF Write, NotifierNext
<1>8. CASE UNCHANGED vars
  BY <1>8 DEF vars
<1> QED
  BY <1>1, <1>2, <1>3, <1>4, <1>5, <1>6, <1>7, <1>8 DEF Next

(* The process uses the notifier as its interface allows: notify() only    *)
(* while the worker was started, shutdown() once, a handler step at a time *)
(* (cli.py:326-451, 488-489).                                              *)
THEOREM ProcessUsesNotifier == Spec => NotifierSpec
<1>1. Init => NotifierInit
  BY DEF Init
<1>2. [Next]_vars => [NotifierNext]_notifierVars
  BY NextUsesNotifier
<1> QED
  BY <1>1, <1>2, PTL DEF Spec, NotifierSpec

-----------------------------------------------------------------------------
(* Type correctness, of the two halves of the notifier                     *)

OutTypeOK ==
    /\ queue \in Seq({"text", "stop"}) /\ Len(queue) <= QueueMax
    /\ unfinished \in Int /\ owed \in Nat
    /\ worker \in {"none", "get", "send", "ended"}
    /\ closing \in {"no", "inbound", "drain", "sentinel", "join", "done"}

PollTypeOK ==
    /\ poller \in {"none", "look", "asked", "handle", "call", "close", "reply", "ended"}
    /\ inboundStop \in BOOLEAN
    /\ lastId \in 0 .. MaxUpdates
    /\ batch \subseteq UpdateIds
    /\ hand \in 0 .. MaxUpdates
    /\ updates \in Seq(Kept) /\ Len(updates) <= MaxUpdates
    /\ handled \subseteq UpdateIds
    /\ times \in [UpdateIds -> Nat]

(* What a put does to the queue, whether the text fits or not.             *)
LEMMA PutType ==
    ASSUME OutTypeOK, Put
    PROVE  /\ queue' \in Seq({"text", "stop"}) /\ Len(queue') <= QueueMax
           /\ unfinished' \in Int
<1>1. CASE Len(queue) < QueueMax
  <2>1. queue' = Append(queue, "text") /\ unfinished' = unfinished + 1
    BY <1>1, NotifierAssumption DEF OutTypeOK, Put
  <2>2. Append(queue, "text") \in Seq({"text", "stop"})
    BY DEF OutTypeOK
  <2>3. Len(Append(queue, "text")) = Len(queue) + 1
    BY DEF OutTypeOK
  <2>4. Len(queue) \in Nat
    BY DEF OutTypeOK
  <2> QED
    BY <1>1, <2>1, <2>2, <2>3, <2>4, NotifierAssumption DEF OutTypeOK
<1>2. CASE ~(Len(queue) < QueueMax)
  BY <1>2 DEF OutTypeOK, Put
<1> QED
  BY <1>1, <1>2

-----------------------------------------------------------------------------
(* Outbound: what queue.join() waits for                                   *)

(* unfinished counts the queue and the text being sent; what is owed is a  *)
(* part of it until queue.join() has returned; and the sentinel, the only  *)
(* message that is counted off without being owed, comes after that.       *)
Counted == unfinished = Len(queue) + (IF worker = "send" THEN 1 ELSE 0)
OwedIsCounted == owed <= unfinished
SentinelIsLast ==
    \A i \in 1 .. Len(queue) : queue[i] = "stop" => closing \in {"join", "done"}

DrainInv == OutTypeOK /\ Counted /\ OwedIsCounted /\ SentinelIsLast /\ DrainedBeforeEnd

LEMMA PutKeepsDrain ==
    ASSUME DrainInv, Put, UNCHANGED <<worker, closing, owed>>
    PROVE  DrainInv'
<1>1. OutTypeOK'
  BY PutType DEF DrainInv, OutTypeOK
<1>2. CASE queue' = Append(queue, "text") /\ unfinished' = unfinished + 1
  <2>1. Len(queue') = Len(queue) + 1
    BY <1>2 DEF DrainInv, OutTypeOK
  <2>2. \A i \in 1 .. Len(queue') :
           (i \in 1 .. Len(queue) /\ queue'[i] = queue[i]) \/ queue'[i] = "text"
    BY <1>2, <2>1 DEF DrainInv, OutTypeOK
  <2>3. Len(queue) \in Nat
    BY DEF DrainInv, OutTypeOK
  <2>4. (Counted /\ OwedIsCounted)'
    BY <1>2, <2>1, <2>3 DEF DrainInv, OutTypeOK, Counted, OwedIsCounted
  <2>5. SentinelIsLast'
    BY <2>2 DEF DrainInv, SentinelIsLast
  <2> QED
    BY <1>1, <2>4, <2>5 DEF DrainInv, DrainedBeforeEnd
<1>3. CASE UNCHANGED <<queue, unfinished>>
  BY <1>1, <1>3 DEF DrainInv, Counted, OwedIsCounted, SentinelIsLast, DrainedBeforeEnd
<1> QED
  BY <1>2, <1>3 DEF Put

LEMMA GetKeepsDrain ==
    ASSUME DrainInv, Get
    PROVE  DrainInv'
<1>1. /\ queue # <<>> /\ queue' = Tail(queue) /\ worker = "get"
      /\ worker' \in {"send", "ended"} /\ UNCHANGED <<closing, owed>>
  BY DEF Get, TakeText, TakeStop
<1>2. /\ Len(queue) \in Nat \ {0} /\ Len(queue') = Len(queue) - 1
      /\ queue' \in Seq({"text", "stop"})
      /\ \A i \in 1 .. Len(queue') : i + 1 \in 1 .. Len(queue) /\ queue'[i] = queue[i + 1]
      /\ Head(queue) = queue[1]
  BY <1>1 DEF DrainInv, OutTypeOK
<1>3. unfinished' \in Int
  BY DEF DrainInv, OutTypeOK, Get, TakeText, TakeStop
<1>4. OutTypeOK'
  BY <1>1, <1>2, <1>3, NotifierAssumption DEF DrainInv, OutTypeOK
<1>5. SentinelIsLast'
  BY <1>1, <1>2 DEF DrainInv, SentinelIsLast
<1>6. (Counted /\ OwedIsCounted)'
  <2>1. CASE TakeText
    BY <1>1, <1>2, <2>1 DEF DrainInv, OutTypeOK, Counted, OwedIsCounted, TakeText
  <2>2. CASE TakeStop
    <3>1. queue[1] = "stop"
      BY <1>2, <2>2 DEF TakeStop
    <3>2. owed = 0
      BY <1>2, <3>1 DEF DrainInv, SentinelIsLast, DrainedBeforeEnd
    <3> QED
      BY <1>1, <1>2, <2>2, <3>2 DEF DrainInv, OutTypeOK, Counted, OwedIsCounted, TakeStop
  <2> QED
    BY <2>1, <2>2 DEF Get
<1>7. DrainedBeforeEnd'
  BY <1>1 DEF DrainInv, DrainedBeforeEnd
<1> QED
  BY <1>4, <1>5, <1>6, <1>7 DEF DrainInv

LEMMA SendKeepsDrain ==
    ASSUME DrainInv, Send
    PROVE  DrainInv'
<1> USE DEF Send, task_done
<1>1. /\ worker = "send" /\ worker' = "get" /\ unfinished' = unfinished - 1
      /\ owed' = (IF owed > 0 THEN owed - 1 ELSE 0) /\ UNCHANGED <<queue, closing>>
  OBVIOUS
<1>2. Len(queue) \in Nat
  BY DEF DrainInv, OutTypeOK
<1>3. OutTypeOK'
  BY <1>1 DEF DrainInv, OutTypeOK
<1>4. (Counted /\ OwedIsCounted)'
  BY <1>1, <1>2 DEF DrainInv, OutTypeOK, Counted, OwedIsCounted
<1>5. (SentinelIsLast /\ DrainedBeforeEnd)'
  BY <1>1 DEF DrainInv, SentinelIsLast, DrainedBeforeEnd
<1> QED
  BY <1>3, <1>4, <1>5 DEF DrainInv

LEMMA ShutdownKeepsDrain ==
    ASSUME DrainInv, BeginShutdown \/ ShutdownNext
    PROVE  DrainInv'
<1>0. Len(queue) \in Nat
  BY DEF DrainInv, OutTypeOK
<1>1. CASE BeginShutdown
  BY <1>0, <1>1 DEF BeginShutdown, DrainInv, OutTypeOK, Counted, OwedIsCounted,
                    SentinelIsLast, DrainedBeforeEnd
<1>2. CASE JoinPoller \/ Drain \/ JoinWorker
  BY <1>0, <1>2 DEF JoinPoller, Drain, JoinWorker, DrainInv, OutTypeOK, Counted,
                    OwedIsCounted, SentinelIsLast, DrainedBeforeEnd
<1>3. CASE PutSentinel
  <2>1. closing = "sentinel" /\ closing' = "join" /\ UNCHANGED <<worker, owed>>
    BY <1>3 DEF PutSentinel
  <2>2. owed = 0
    BY <2>1 DEF DrainInv, DrainedBeforeEnd
  <2>3. CASE UNCHANGED <<queue, unfinished>>
    BY <2>1, <2>3 DEF DrainInv, OutTypeOK, Counted, OwedIsCounted, SentinelIsLast,
                      DrainedBeforeEnd
  <2>4. CASE Len(queue) < QueueMax /\ queue' = Append(queue, "stop")
             /\ unfinished' = unfinished + 1
    <3>1. Len(queue') = Len(queue) + 1 /\ queue' \in Seq({"text", "stop"})
      BY <2>4 DEF DrainInv, OutTypeOK
    <3>2. OutTypeOK'
      BY <1>0, <2>1, <2>4, <3>1, NotifierAssumption DEF DrainInv, OutTypeOK
    <3>3. (Counted /\ OwedIsCounted)'
      BY <1>0, <2>1, <2>4, <3>1 DEF DrainInv, OutTypeOK, Counted, OwedIsCounted
    <3> QED
      BY <2>1, <2>2, <3>2, <3>3 DEF DrainInv, SentinelIsLast, DrainedBeforeEnd
  <2> QED
    BY <1>3, <2>3, <2>4 DEF PutSentinel
<1> QED
  BY <1>1, <1>2, <1>3 DEF ShutdownNext

LEMMA DrainStep ==
    ASSUME DrainInv, [NotifierNext]_notifierVars
    PROVE  DrainInv'
<1>1. CASE UNCHANGED outVars
  BY <1>1 DEF outVars, DrainInv, OutTypeOK, Counted, OwedIsCounted, SentinelIsLast,
              DrainedBeforeEnd
<1>2. CASE StartWorker
  BY <1>2 DEF StartWorker, DrainInv, OutTypeOK, Counted, OwedIsCounted, SentinelIsLast,
              DrainedBeforeEnd
<1>3. CASE ProcessEnds
  BY <1>3, NotifierAssumption DEF ProcessEnds, DrainInv, OutTypeOK, Counted,
              OwedIsCounted, SentinelIsLast, DrainedBeforeEnd
<1>4. CASE notify \/ Reply
  BY <1>4, PutKeepsDrain DEF notify, Reply
<1>5. CASE WorkerNext
  BY <1>5, GetKeepsDrain, SendKeepsDrain DEF WorkerNext
<1>6. CASE BeginShutdown \/ ShutdownNext
  BY <1>6, ShutdownKeepsDrain
<1>7. CASE start_inbound \/ FetchNext \/ TakeNext \/ HandlerCalled \/ HandlerCloses
           \/ (\E k \in Kinds : UserSends(k))
  BY <1>1, <1>7 DEF start_inbound, FetchNext, Look, Answer, FetchFails, BatchDone,
              TakeNext, Take, HandlerCalled, HandlerCloses, UserSends
<1> QED
  BY <1>1, <1>2, <1>3, <1>4, <1>5, <1>6, <1>7 DEF NotifierNext, notifierVars

LEMMA DrainHolds == NotifierSpec => []DrainInv
<1>1. NotifierInit => DrainInv
  BY NotifierAssumption DEF NotifierInit, DrainInv, OutTypeOK, Counted, OwedIsCounted,
                            SentinelIsLast, DrainedBeforeEnd
<1> QED
  BY <1>1, DrainStep, PTL DEF NotifierSpec

(* Once queue.join() in shutdown() has returned, every message accepted    *)
(* before the call was sent or tried, in every process that uses the       *)
(* notifier (notifier.py:282-284, 315-317).                                *)
THEOREM ShutdownDrains == Spec => []DrainedBeforeEnd
BY DrainHolds, ProcessUsesNotifier, PTL DEF DrainInv

-----------------------------------------------------------------------------
(* Inbound: offsets                                                        *)

Sent == DOMAIN updates
InHand(u) == hand = u /\ poller \in {"call", "close", "reply"}

(* What this process has passed was handled or is in hand; what it has     *)
(* fetched lies ahead of lastId, and without a gap but for what is         *)
(* forgotten; before an answer, nothing at or below lastId is left.        *)
PassedIsHandled == \A u \in Sent : u <= lastId => u \in handled \/ InHand(u)
BatchIsAhead    == \A u \in batch : u \in Sent /\ u > lastId
BatchHasNoGap   == \A u \in batch, v \in Sent :
                      lastId < v /\ v < u => v \in batch \/ v \in handled
AskedBeyond     == poller = "asked" => \A u \in Sent : u <= lastId => updates[u] = "forgotten"
AheadIsUntaken  == \A u \in UpdateIds : u > lastId => times[u] = 0
HandIsSent      == poller \in {"call", "close", "reply"} => hand \in Sent

OffsetInv ==
    /\ PollTypeOK /\ EachCommandIsHandled
    /\ lastId <= Len(updates)
    /\ PassedIsHandled /\ BatchIsAhead /\ BatchHasNoGap
    /\ AskedBeyond /\ AheadIsUntaken /\ HandIsSent

LEMMA SentIsNumbered ==
    ASSUME PollTypeOK
    PROVE  Sent = 1 .. Len(updates) /\ Len(updates) \in Nat /\ Sent \subseteq UpdateIds
BY NotifierAssumption DEF PollTypeOK, Sent, UpdateIds

LEMMA ForgetKeepsTyping ==
    ASSUME PollTypeOK, NEW ids, Forget(ids)
    PROVE  /\ updates' \in Seq(Kept) /\ Len(updates') = Len(updates)
           /\ Sent' = Sent
           /\ \A u \in Sent : updates'[u] = IF u \in ids THEN "forgotten" ELSE updates[u]
<1>1. PICK n \in Nat : n = Len(updates) /\ Sent = 1 .. n
  BY SentIsNumbered
<1>2. updates' = [u \in 1 .. n |-> IF u \in ids THEN "forgotten" ELSE updates[u]]
  BY <1>1 DEF Forget, Sent
<1>3. \A u \in 1 .. n : updates[u] \in Kept
  BY <1>1 DEF PollTypeOK, Sent
<1>4. updates' \in [1 .. n -> Kept]
  BY <1>2, <1>3 DEF Kept
<1>5. updates' \in Seq(Kept) /\ Len(updates') = n
  BY <1>1, <1>4, SeqDef, LenProperties
<1> QED
  BY <1>1, <1>2, <1>5 DEF Sent

LEMMA LookKeepsOffset ==
    ASSUME OffsetInv, Look
    PROVE  OffsetInv'
<1>1. poller = "look" /\ UNCHANGED <<inboundStop, lastId, batch, hand, times, handled>>
  BY DEF Look
<1>2. CASE poller' = "ended" /\ UNCHANGED updates
  BY <1>1, <1>2 DEF OffsetInv, PollTypeOK, EachCommandIsHandled, PassedIsHandled, BatchIsAhead,
                    BatchHasNoGap, AskedBeyond, AheadIsUntaken, HandIsSent, InHand, Sent
<1>3. CASE poller' = "asked" /\ Forget({u \in UpdateIds : u < Offset})
  <2>1. PollTypeOK
    BY DEF OffsetInv
  <2>2. /\ updates' \in Seq(Kept) /\ Len(updates') = Len(updates) /\ Sent' = Sent
        /\ \A u \in Sent : updates'[u] = IF u \in {w \in UpdateIds : w < Offset}
                                         THEN "forgotten" ELSE updates[u]
    BY <1>3, <2>1, ForgetKeepsTyping
  <2>3. \A u \in Sent : u \in Int /\ u > 0 /\ (u < Offset <=> u <= lastId) /\ u \in UpdateIds
    BY <2>1, SentIsNumbered DEF PollTypeOK, Offset
  <2>4. \A u \in Sent : updates'[u] = IF u <= lastId THEN "forgotten" ELSE updates[u]
    BY <2>2, <2>3
  <2>5. PollTypeOK'
    BY <1>1, <1>3, <2>1, <2>2 DEF PollTypeOK
  <2>6. EachCommandIsHandled'
    BY <1>1, <2>2, <2>4 DEF OffsetInv, EachCommandIsHandled, PassedIsHandled, InHand, Sent
  <2>7. AskedBeyond'
    BY <1>1, <2>2, <2>4 DEF AskedBeyond
  <2> QED
    BY <1>1, <1>3, <2>2, <2>5, <2>6, <2>7
       DEF OffsetInv, PassedIsHandled, BatchIsAhead, BatchHasNoGap, AheadIsUntaken,
           HandIsSent, InHand
<1> QED
  BY <1>2, <1>3 DEF Look

LEMMA AnswerKeepsOffset ==
    ASSUME OffsetInv, Answer
    PROVE  OffsetInv'
<1>1. /\ poller = "asked" /\ poller' = "handle"
      /\ batch' = {u \in Sent : updates[u] # "forgotten"}
      /\ UNCHANGED <<inboundStop, lastId, hand, times, updates, handled>>
  BY DEF Answer, Sent
<1>2. Sent \subseteq UpdateIds /\ \A u \in Sent : u \in Int
  BY SentIsNumbered DEF OffsetInv, UpdateIds
<1>3. PollTypeOK'
  BY <1>1, <1>2 DEF OffsetInv, PollTypeOK
<1>4. BatchIsAhead'
  BY <1>1, <1>2 DEF OffsetInv, PollTypeOK, BatchIsAhead, AskedBeyond, Sent
<1>5. BatchHasNoGap'
  BY <1>1 DEF OffsetInv, BatchHasNoGap, EachCommandIsHandled, Sent
<1> QED
  BY <1>1, <1>3, <1>4, <1>5 DEF OffsetInv, EachCommandIsHandled, PassedIsHandled, AskedBeyond,
                               AheadIsUntaken, HandIsSent, InHand, Sent

LEMMA TakeKeepsOffset ==
    ASSUME OffsetInv, NEW u \in UpdateIds, Take(u)
    PROVE  OffsetInv'
<1>1. /\ poller = "handle" /\ u \in batch /\ \A v \in batch : u <= v
      /\ batch' = batch \ {u} /\ times' = [times EXCEPT ![u] = @ + 1]
      /\ UNCHANGED <<inboundStop, updates>>
  BY DEF Take
<1>2. u \in Sent /\ u > lastId /\ lastId' = u
  BY <1>1 DEF Take, OffsetInv, BatchIsAhead
<1>3. /\ Sent' = Sent /\ Sent = 1 .. Len(updates) /\ Len(updates) \in Nat
      /\ lastId \in Int /\ batch \subseteq UpdateIds /\ \A v \in UpdateIds : v \in Int
  BY <1>1, SentIsNumbered DEF OffsetInv, PollTypeOK, Sent, UpdateIds
<1>4. /\ handled \subseteq handled' /\ handled' \subseteq handled \cup {u}
      /\ \/ poller' = "handle" /\ hand' = hand /\ u \in handled'
         \/ poller' = "call" /\ hand' = u
  <2>1. CASE updates[u] \in Commands
    BY <1>1, <2>1 DEF Take
  <2>2. CASE updates[u] \notin Commands
    BY <1>1, <2>2 DEF Take
  <2> QED
    BY <2>1, <2>2
<1>5. times'[u] = 1 /\ \A v \in UpdateIds \ {u} : times'[v] = times[v]
  BY <1>1, <1>2 DEF OffsetInv, PollTypeOK, AheadIsUntaken
<1>6. PollTypeOK'
  BY <1>1, <1>2, <1>4 DEF OffsetInv, PollTypeOK, UpdateIds
<1>7. EachCommandIsHandled'
  BY <1>1, <1>4, <1>5 DEF OffsetInv, EachCommandIsHandled
<1>8. PassedIsHandled'
  <2>1. SUFFICES ASSUME NEW v \in Sent, v <= u
                 PROVE  v \in handled' \/ (hand' = v /\ poller' = "call")
    BY <1>2, <1>3 DEF PassedIsHandled, InHand
  <2>2. CASE v <= lastId
    BY <1>1, <1>4, <2>2 DEF OffsetInv, PassedIsHandled, InHand
  <2>3. CASE lastId < v /\ v < u
    BY <1>1, <1>3, <1>4, <2>3 DEF OffsetInv, BatchHasNoGap
  <2>4. CASE v = u
    BY <1>4, <2>4
  <2> QED
    BY <1>3, <2>1, <2>2, <2>3, <2>4
<1>9. BatchIsAhead'
  BY <1>1, <1>2, <1>3 DEF OffsetInv, BatchIsAhead
<1>10. BatchHasNoGap'
  BY <1>1, <1>2, <1>3, <1>4 DEF OffsetInv, BatchHasNoGap
<1>11. (AskedBeyond /\ HandIsSent)'
  BY <1>1, <1>2, <1>3, <1>4 DEF OffsetInv, AskedBeyond, HandIsSent
<1>12. AheadIsUntaken'
  BY <1>2, <1>3, <1>5 DEF OffsetInv, AheadIsUntaken
<1> QED
  BY <1>1, <1>2, <1>3, <1>6, <1>7, <1>8, <1>9, <1>10, <1>11, <1>12 DEF OffsetInv

LEMMA ReplyKeepsOffset ==
    ASSUME OffsetInv, Reply
    PROVE  OffsetInv'
<1>1. /\ poller = "reply" /\ handled' = handled \cup {hand} /\ poller' = "handle" /\ hand' = 0
      /\ UNCHANGED <<inboundStop, lastId, batch, times, updates>>
  BY DEF Reply
<1>2. hand \in UpdateIds
  BY <1>1, SentIsNumbered DEF OffsetInv, HandIsSent
<1>3. PollTypeOK'
  BY <1>1, <1>2, NotifierAssumption DEF OffsetInv, PollTypeOK
<1> QED
  BY <1>1, <1>3 DEF OffsetInv, EachCommandIsHandled, PassedIsHandled, BatchIsAhead,
                    BatchHasNoGap, AskedBeyond, AheadIsUntaken, HandIsSent, InHand, Sent

LEMMA UserSendsKeepsOffset ==
    ASSUME OffsetInv, NEW k \in Kinds, UserSends(k)
    PROVE  OffsetInv'
<1>1. /\ Len(updates) < MaxUpdates /\ updates' = Append(updates, k)
      /\ UNCHANGED <<pollVars, handled>>
  BY DEF UserSends
<1>2. PICK n \in Nat : n = Len(updates) /\ Sent = 1 .. n /\ Sent \subseteq UpdateIds
  BY SentIsNumbered DEF OffsetInv
<1>3. k \in Kept /\ k # "forgotten"
  BY DEF Kept, Kinds, Commands
<1>4. /\ updates' \in Seq(Kept) /\ Len(updates') = n + 1
      /\ \A v \in 1 .. n : updates'[v] = updates[v]
      /\ updates'[n + 1] = k
  BY <1>1, <1>2, <1>3 DEF OffsetInv, PollTypeOK
<1>5. Sent' = Sent \cup {n + 1}
  <2>1. Sent' = 1 .. (n + 1)
    BY <1>4, LenProperties DEF Sent
  <2> QED
    BY <1>2, <2>1
<1>6. lastId \in Int /\ lastId <= n
  BY <1>2 DEF OffsetInv, PollTypeOK
<1>7. PollTypeOK'
  BY <1>1, <1>2, <1>4, NotifierAssumption DEF OffsetInv, PollTypeOK, pollVars
<1>8. EachCommandIsHandled'
  BY <1>1, <1>2, <1>3, <1>4, <1>5 DEF OffsetInv, EachCommandIsHandled, pollVars, Sent
<1>9. (PassedIsHandled /\ BatchIsAhead /\ HandIsSent /\ AheadIsUntaken)'
  BY <1>1, <1>5, <1>6 DEF OffsetInv, PassedIsHandled, BatchIsAhead, HandIsSent,
                          AheadIsUntaken, InHand, pollVars
<1>10. BatchHasNoGap'
  BY <1>1, <1>2, <1>5 DEF OffsetInv, BatchHasNoGap, BatchIsAhead, pollVars
<1>11. AskedBeyond'
  BY <1>1, <1>2, <1>4, <1>5, <1>6 DEF OffsetInv, AskedBeyond, pollVars
<1> QED
  BY <1>1, <1>2, <1>4, <1>6, <1>7, <1>8, <1>9, <1>10, <1>11 DEF OffsetInv, pollVars

LEMMA OffsetStep ==
    ASSUME OffsetInv, [NotifierNext]_notifierVars
    PROVE  OffsetInv'
<1> USE DEF EachCommandIsHandled, PassedIsHandled, BatchIsAhead, BatchHasNoGap, AskedBeyond,
            AheadIsUntaken, HandIsSent, InHand, Sent
<1>1. CASE UNCHANGED <<pollVars, updates, handled>>
  BY <1>1 DEF pollVars, OffsetInv, PollTypeOK
<1>2. CASE StartWorker \/ notify \/ WorkerNext \/ ShutdownNext
  BY <1>1, <1>2 DEF StartWorker, notify, WorkerNext, Get, Send, ShutdownNext, JoinPoller,
                    Drain, PutSentinel, JoinWorker
<1>3. CASE BeginShutdown \/ start_inbound
  BY <1>3 DEF BeginShutdown, start_inbound, OffsetInv, PollTypeOK
<1>4. CASE ProcessEnds
  <2>1. /\ poller' = "none" /\ inboundStop' = FALSE /\ lastId' = 0 /\ batch' = {}
        /\ hand' = 0 /\ times' = [u \in UpdateIds |-> 0] /\ UNCHANGED <<updates, handled>>
    BY <1>4 DEF ProcessEnds
  <2>2. Len(updates) >= 0
    BY SentIsNumbered DEF OffsetInv
  <2>3. times' \in [UpdateIds -> Nat] /\ 0 \in 0 .. MaxUpdates
    BY <2>1, NotifierAssumption
  <2>4. PollTypeOK'
    BY <2>1, <2>3 DEF OffsetInv, PollTypeOK
  <2>5. \A u \in DOMAIN updates : ~(u <= 0)
    BY SentIsNumbered DEF OffsetInv
  <2> QED
    BY <2>1, <2>2, <2>4, <2>5 DEF OffsetInv
<1>5. CASE FetchFails \/ BatchDone
  BY <1>5 DEF FetchFails, BatchDone, OffsetInv, PollTypeOK
<1>6. CASE Look
  BY <1>6, LookKeepsOffset
<1>7. CASE Answer
  BY <1>7, AnswerKeepsOffset
<1>8. CASE TakeNext
  BY <1>8, TakeKeepsOffset DEF TakeNext
<1>9. CASE HandlerCalled \/ HandlerCloses
  BY <1>9 DEF HandlerCalled, HandlerCloses, OffsetInv, PollTypeOK
<1>10. CASE Reply
  BY <1>10, ReplyKeepsOffset
<1>11. CASE \E k \in Kinds : UserSends(k)
  BY <1>11, UserSendsKeepsOffset
<1> QED
  BY <1>1, <1>2, <1>3, <1>4, <1>5, <1>6, <1>7, <1>8, <1>9, <1>10, <1>11
     DEF NotifierNext, FetchNext, notifierVars

LEMMA OffsetHolds == NotifierSpec => []OffsetInv
<1>1. NotifierInit => OffsetInv
  <2>1. SUFFICES ASSUME NotifierInit PROVE OffsetInv
    OBVIOUS
  <2>2. Len(updates) = 0 /\ Sent = {} /\ updates \in Seq(Kept)
    BY <2>1 DEF NotifierInit, Sent
  <2>3. times \in [UpdateIds -> Nat] /\ 0 \in 0 .. MaxUpdates /\ 0 <= MaxUpdates
    BY <2>1, NotifierAssumption DEF NotifierInit
  <2>4. PollTypeOK
    BY <2>1, <2>2, <2>3 DEF NotifierInit, PollTypeOK
  <2> QED
    BY <2>1, <2>2, <2>4
       DEF NotifierInit, OffsetInv, EachCommandIsHandled, PassedIsHandled, BatchIsAhead,
           BatchHasNoGap, AskedBeyond, AheadIsUntaken, HandIsSent, Sent
<1> QED
  BY <1>1, OffsetStep, PTL DEF NotifierSpec

(* An update Telegram was told to forget was handled to its end by some    *)
(* process, and no process handles one twice, however many updates,        *)
(* processes and lost answers there are (notifier.py:206, 227-229).        *)
THEOREM OffsetsLoseNothing == Spec => []EachCommandIsHandled
BY OffsetHolds, ProcessUsesNotifier, PTL DEF OffsetInv

-----------------------------------------------------------------------------
(* The types of the whole                                                  *)

ProcessTypeOK ==
    /\ main \in {"off", "boot", "announce", "start", "threads", "await", "mine", "stop",
                 "close", "join", "shutdown", "session", "store", "exit", "workers"}
    /\ {stop, store, cut} \subseteq BOOLEAN
    /\ sup \in {"none", "connect", "watch", "ended"}
    /\ reader \in {"none", "recv", "verdict", "tell"}
    /\ sock \in {"none", "open", "closed"}
    /\ row \in {"none", "open", "ended"}
    /\ inputs \in 0 .. MaxInputs

LEMMA InputType ==
    ASSUME inputs \in 0 .. MaxInputs, Input
    PROVE  inputs' \in 0 .. MaxInputs
BY LifecycleAssumption DEF Input

LEMMA ProcessTypeStep ==
    ASSUME ProcessTypeOK, [Next]_vars
    PROVE  ProcessTypeOK'
<1> USE DEF ProcessTypeOK, netVars, dbVars, pastVars
<1>1. CASE NewProcess
  BY <1>1, InputType DEF NewProcess
<1>2. CASE CreateObservers \/ Announce \/ StartSupervisor \/ StartThreads \/ FirstJob
           \/ MineReturns \/ SetStop
  BY <1>2 DEF CreateObservers, Announce, StartSupervisor, StartThreads, FirstJob,
              MineReturns, SetStop
<1>3. CASE CloseClient \/ NotifyStopped \/ Shutdown \/ ShutdownReturns \/ end_session
           \/ CloseStore
  BY <1>3 DEF CloseClient, close, NotifyStopped, Shutdown, ShutdownReturns, end_session,
              CloseStore
<1>4. CASE JoinThreads \/ Exit
  BY <1>4 DEF JoinThreads, Exit, Gone
<1>5. CASE SupNext
  BY <1>5 DEF SupNext, ConnectFails, Connect, Watch, close
<1>6. CASE ReaderGets
  BY <1>6, InputType DEF ReaderGets
<1>7. CASE ReaderNext
  BY <1>7 DEF ReaderNext, ReaderEnds, StoreVerdict, notify_share_accepted, AfterMessage
<1>8. CASE PollerNext
  BY <1>8 DEF PollerNext, Effects, RunHandler, RunClose, close
<1>9. CASE SendNext \/ PressQ
  BY <1>9 DEF SendNext, Effects, PressQ
<1>10. CASE Interrupt
  BY <1>10, InputType DEF Interrupt, Gone
<1>11. CASE Kill
  BY <1>11 DEF Kill, Gone
<1>12. CASE Write
  BY <1>12, InputType DEF Write
<1>13. CASE UNCHANGED vars
  BY <1>13 DEF vars
<1> QED
  BY <1>1, <1>2, <1>3, <1>4, <1>5, <1>6, <1>7, <1>8, <1>9, <1>10, <1>11, <1>12, <1>13
     DEF Next, MainNext

(* The process and its notifier keep to their types: the queue stays       *)
(* within its limit and unfinished_tasks is never negative                 *)
(* (notifier.py:77, 335).                                                  *)
THEOREM ProcessTypes == Spec => []TypeOK
<1>1. Init => ProcessTypeOK
  <2>1. SUFFICES ASSUME Init PROVE ProcessTypeOK
    OBVIOUS
  <2>2. inputs \in 0 .. MaxInputs
    BY <2>1, LifecycleAssumption DEF Init
  <2>3. {stop, store, cut} \subseteq BOOLEAN
    BY <2>1, Zenon DEF Init
  <2> QED
    BY <2>1, <2>2, <2>3 DEF Init, ProcessTypeOK
<1>2. Spec => []ProcessTypeOK
  BY <1>1, ProcessTypeStep, PTL DEF Spec
<1>3. DrainInv => unfinished \in Nat
  <2>1. ASSUME DrainInv PROVE Len(queue) \in Nat
    BY <2>1 DEF DrainInv, OutTypeOK
  <2> QED
    BY <2>1 DEF DrainInv, Counted
<1>4. DrainInv /\ OffsetInv => NotifierTypeOK
  BY <1>3 DEF DrainInv, OutTypeOK, OffsetInv, PollTypeOK, NotifierTypeOK
<1>5. NotifierTypeOK /\ ProcessTypeOK => TypeOK
  BY DEF TypeOK, ProcessTypeOK
<1> QED
  BY <1>2, <1>4, <1>5, DrainHolds, OffsetHolds, ProcessUsesNotifier, PTL
=============================================================================
