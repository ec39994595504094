----------------------------- MODULE Lifecycle ------------------------------
(***************************************************************************)
(* The life of a mining process, main() of src/hope_hash/cli.py: what it   *)
(* starts and in which order it stops it, with the notifier (Notifier), the*)
(* session row and the connection of the store (storage.py), the TUI's q,  *)
(* and, reduced to what main() waits for, the supervisor and its reader.   *)
(* The operator may press Ctrl+C or q, write to the bot, kill the process  *)
(* and start another.                                                      *)
(*                                                                         *)
(* The supervisor, the reader and the worker processes are not daemons:    *)
(* the interpreter waits for them before the process ends.  All other      *)
(* threads end with it.  Supervisor has the first two in full, with pools, *)
(* pauses, restart_event and the readers that /restart leaves behind; here *)
(* a session may end at any time, for whatever reason.  WorkerPool has the *)
(* workers: mine() does not return before stop_pool has told each of them  *)
(* to end, or terminated it.                                               *)
(***************************************************************************)
EXTENDS Notifier

CONSTANTS
    MaxInputs    \* bound: processes started, verdicts read, updates sent and
                 \* Ctrl+C pressed, all together

ASSUME LifecycleAssumption == MaxInputs \in Nat

VARIABLES
    main,       \* where main() is; "off" without a process
    stop,       \* stop_event
    sup,        \* where supervisor_loop is
    reader,     \* where the reader thread is
    sock,       \* client.sock
    row,        \* the process's row in the table sessions
    store,      \* TRUE while the connection of the store is open
    inputs,     \* inputs so far
    (* History, read by properties only. *)
    cut         \* the process was killed, or Ctrl+C came outside mine()

netVars  == <<sup, reader, sock>>
dbVars   == <<row, store>>
pastVars == <<inputs, cut>>
vars     == <<notifierVars, main, stop, netVars, dbVars, pastVars>>

TypeOK ==
    /\ NotifierTypeOK
    /\ main \in {"off", "boot", "announce", "start", "threads", "await", "mine", "stop",
                 "close", "join", "shutdown", "session", "store", "exit", "workers"}
    /\ {stop, store, cut} \subseteq BOOLEAN
    /\ sup \in {"none", "connect", "watch", "ended"}
    /\ reader \in {"none", "recv", "verdict", "tell"}
    /\ sock \in {"none", "open", "closed"}
    /\ row \in {"none", "open", "ended"}
    /\ inputs \in 0 .. MaxInputs

Input ==
    /\ inputs < MaxInputs
    /\ inputs' = inputs + 1

Init ==
    /\ NotifierInit
    /\ main = "off" /\ stop = FALSE /\ sup = "none" /\ sock = "none"
    /\ reader = "none" /\ row = "none" /\ store = FALSE
    /\ inputs = 0 /\ cut = FALSE

-----------------------------------------------------------------------------
(* main(), from its start to mine()                                        *)

NewProcess ==
    /\ main = "off" /\ Input
    /\ main' = "boot" /\ row' = "none" /\ cut' = FALSE
    /\ UNCHANGED <<notifierVars, stop, netVars, store>>

CreateObservers ==
    /\ main = "boot"
    /\ StartWorker
    /\ main' = "announce" /\ store' = TRUE
    /\ UNCHANGED <<stop, netVars, row, pastVars>>

(* notify_started and start_session.                                       *)
Announce ==
    /\ main = "announce"
    /\ notify
    /\ main' = "start" /\ row' = "open"
    /\ UNCHANGED <<stop, netVars, store, pastVars>>

StartSupervisor ==
    /\ main = "start"
    /\ main' = "threads" /\ sup' = "connect"
    /\ UNCHANGED <<notifierVars, stop, reader, sock, dbVars, pastVars>>

(* The TUI and the inbound commands are optional.                          *)
StartThreads ==
    /\ main = "threads"
    /\ main' = "await"
    /\ start_inbound \/ UNCHANGED notifierVars
    /\ UNCHANGED <<stop, netVars, dbVars, pastVars>>

(* A job may be there once a connection was made.                          *)
FirstJob ==
    /\ main = "await" /\ (sock # "none" \/ stop)
    /\ main' = "mine"
    /\ UNCHANGED <<notifierVars, stop, netVars, dbVars, pastVars>>

(* mine() returns, or is not called at all.                                *)
MineReturns ==
    /\ main = "mine" /\ stop
    /\ main' = "stop"
    /\ UNCHANGED <<notifierVars, stop, netVars, dbVars, pastVars>>

-----------------------------------------------------------------------------
(* The finally block of main()                                             *)

SetStop ==
    /\ main = "stop"
    /\ main' = "close" /\ stop' = TRUE
    /\ UNCHANGED <<notifierVars, netVars, dbVars, pastVars>>

close == sock' = IF sock = "open" THEN "closed" ELSE sock

CloseClient ==
    /\ main = "close"
    /\ main' = "join" /\ close
    /\ UNCHANGED <<notifierVars, stop, sup, reader, dbVars, pastVars>>

(* The joins of the TUI (2 s) and the supervisor (5 s) may give up, so they*)
(* only pass time.                                                         *)
NotifyStopped ==
    /\ main = "join"
    /\ notify
    /\ main' = "shutdown"
    /\ UNCHANGED <<stop, netVars, dbVars, pastVars>>

Shutdown ==
    /\ main = "shutdown"
    /\ BeginShutdown \/ ShutdownNext
    /\ UNCHANGED <<main, stop, netVars, dbVars, pastVars>>

ShutdownReturns ==
    /\ main = "shutdown" /\ closing = "done"
    /\ main' = "session"
    /\ UNCHANGED <<notifierVars, stop, netVars, dbVars, pastVars>>

end_session ==
    /\ main = "session"
    /\ main' = "store" /\ row' = "ended"
    /\ UNCHANGED <<notifierVars, stop, netVars, store, pastVars>>

CloseStore ==
    /\ main = "store"
    /\ main' = "exit" /\ store' = FALSE
    /\ UNCHANGED <<notifierVars, stop, netVars, row, pastVars>>

(* All threads of the process end with it.                                 *)
Gone ==
    /\ ProcessEnds
    /\ main' = "off" /\ stop' = FALSE /\ sup' = "none" /\ sock' = "none"
    /\ reader' = "none"
    /\ store' = FALSE
    /\ UNCHANGED row

(* The interpreter waits for the threads, and then for the workers.        *)
JoinThreads ==
    /\ main = "exit" /\ sup \in {"none", "ended"} /\ reader = "none"
    /\ main' = "workers"
    /\ UNCHANGED <<notifierVars, stop, netVars, dbVars, pastVars>>

Exit ==
    /\ main = "workers"
    /\ Gone
    /\ UNCHANGED pastVars

MainNext ==
    \/ CreateObservers \/ Announce \/ StartSupervisor \/ StartThreads \/ FirstJob
    \/ MineReturns \/ SetStop \/ CloseClient \/ NotifyStopped \/ Shutdown \/ ShutdownReturns
    \/ end_session \/ CloseStore \/ JoinThreads \/ Exit

-----------------------------------------------------------------------------
(* Supervisor and reader                                                   *)

(* An attempt that fails is followed by another, after a pause that stop   *)
(* ends, unless stop is set.                                               *)
ConnectFails ==
    /\ sup = "connect" /\ stop
    /\ sup' = "ended"
    /\ UNCHANGED <<reader, sock>>

Connect ==
    /\ sup = "connect" /\ reader = "none"
    /\ sup' = "watch" /\ reader' = "recv" /\ sock' = "open"

(* The loop that watches the reader: it ends with the stop, which leaves   *)
(* the reader alone, or with the reader.                                   *)
Watch ==
    /\ sup = "watch"
    /\ \/ /\ stop
          /\ sup' = "ended" /\ UNCHANGED sock
       \/ /\ ~stop /\ reader = "none"
          /\ sup' = "connect" /\ close
    /\ UNCHANGED reader

SupNext ==
    /\ ConnectFails \/ Connect \/ Watch
    /\ UNCHANGED <<notifierVars, main, stop, dbVars, pastVars>>

(* reader_loop: a recv ends with a message, an error or a timeout.         *)
ReaderGets ==
    /\ reader = "recv" /\ sock = "open"
    /\ Input
    /\ reader' = "verdict"
    /\ UNCHANGED <<notifierVars, main, stop, sup, sock, dbVars, cut>>

ReaderEnds ==
    /\ reader = "recv"
    /\ reader' = "none"
    /\ UNCHANGED <<notifierVars, main, stop, sup, sock, dbVars, pastVars>>

AfterMessage == IF stop THEN "none" ELSE "recv"

(* _on_share_result: update_share_accepted, which raises on a closed store *)
(* and takes the thread with it, and notify_share_accepted.                *)
StoreVerdict ==
    /\ reader = "verdict"
    /\ \/ store /\ reader' \in {"tell", AfterMessage}
       \/ ~store /\ reader' = "none"
    /\ UNCHANGED <<notifierVars, main, stop, sup, sock, dbVars, pastVars>>

notify_share_accepted ==
    /\ reader = "tell"
    /\ notify
    /\ reader' = AfterMessage
    /\ UNCHANGED <<main, stop, sup, sock, dbVars, pastVars>>

ReaderNext == ReaderEnds \/ StoreVerdict \/ notify_share_accepted

-----------------------------------------------------------------------------
(* The notifier's threads and the TUI                                      *)

Effects == <<main, stop, netVars, dbVars, pastVars>>

(* _on_stop sets stop_event, _on_restart restart_event (see Supervisor).   *)
RunHandler ==
    /\ HandlerCalled
    /\ \/ updates[hand] = "/stop" /\ stop' = TRUE
       \/ updates[hand] # "/stop" /\ UNCHANGED stop
    /\ UNCHANGED <<main, netVars, dbVars, pastVars>>

RunClose ==
    /\ HandlerCloses
    /\ close
    /\ UNCHANGED <<main, stop, sup, reader, dbVars, pastVars>>

PollerNext ==
    \/ (FetchNext \/ TakeNext \/ Reply) /\ UNCHANGED Effects
    \/ RunHandler \/ RunClose

SendNext == WorkerNext /\ UNCHANGED Effects

(* TUIApp._loop: q sets stop_event.  Its thread ends with the stop.        *)
PressQ ==
    /\ main \in {"await", "mine", "exit", "workers"} /\ ~stop
    /\ stop' = TRUE
    /\ UNCHANGED <<notifierVars, main, netVars, dbVars, pastVars>>

-----------------------------------------------------------------------------
(* The operator                                                            *)

(* Ctrl+C in mine() enters the finally block; before it, or in that block, *)
(* main() is left at once, and only the interpreter's waits for threads    *)
(* and workers remain; each of them ends at a further Ctrl+C.              *)
Interrupt ==
    /\ main \notin {"off", "boot", "announce", "start", "threads"}
    /\ Input
    /\ cut' = (cut \/ main # "mine")
    /\ \/ /\ main = "mine"
          /\ main' = "stop"
          /\ UNCHANGED <<notifierVars, stop, netVars, dbVars>>
       \/ /\ main \notin {"mine", "workers"}
          /\ main' = IF main = "exit" THEN "workers" ELSE "exit"
          /\ UNCHANGED <<notifierVars, stop, netVars, dbVars>>
       \/ /\ main = "workers"
          /\ Gone

Kill ==
    /\ main # "off"
    /\ Gone /\ cut' = TRUE
    /\ UNCHANGED inputs

Write ==
    /\ \E k \in Kinds : UserSends(k)
    /\ Input
    /\ UNCHANGED <<main, stop, netVars, dbVars, cut>>

Next ==
    \/ NewProcess \/ MainNext \/ SupNext \/ PollerNext \/ SendNext
    \/ ReaderGets \/ ReaderNext \/ PressQ \/ Interrupt \/ Kill \/ Write

Spec == Init /\ [][Next]_vars

(* The threads keep running: joins, calls over the network and recv have   *)
(* timeouts, and workers that were told to end or terminated do.  Nothing  *)
(* is assumed of the operator, the pool or the bot's users.                *)
Fairness ==
    /\ WF_vars(MainNext) /\ WF_vars(SupNext) /\ WF_vars(ReaderNext)
    /\ WF_vars(SendNext) /\ WF_vars(PollerNext)

FairSpec == Spec /\ Fairness
-----------------------------------------------------------------------------

(* However a stop is asked for (/stop, q, Ctrl+C while mining) and whatever*)
(* the threads are doing, the process ends; and unless it is killed or     *)
(* Ctrl+C is pressed outside mine(), its session row has got its end       *)
(* (cli.py:476-497, notifier.py:284).                                      *)
StopEndsProcess == stop ~> main = "off" /\ (row = "ended" \/ cut)
=============================================================================
