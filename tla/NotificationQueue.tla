-------------------------- MODULE NotificationQueue --------------------------
(***************************************************************************)
(* The in-memory queue (internal/platform) and its one consumer, the       *)
(* notification worker (cmd/notification), from the first order event to   *)
(* the end of the process.                                                 *)
(*                                                                         *)
(* wired says whether publishers run in the worker's process, which is     *)
(* what SharedQueue is for.  As the services are built the order service   *)
(* publishes on a queue of its own, and nothing is ever consumed.          *)
(***************************************************************************)
EXTENDS Naturals, Sequences, SequencesExt

CONSTANTS
    Messages,  \* orders whose creation is announced
    Buffer     \* capacity of a subscriber's channel, 256

VARIABLES
    wired,     \* the publishers have the worker's queue
    publish,   \* where each message's Publish stands
    channel,   \* the subscriber's channel
    closed,    \* it has been closed
    dropped,   \* messages there was no room for
    accepted,  \* history: the messages sent on the channel, in order
    consumer,  \* the consuming goroutine
    stats,     \* stats, its two counts
    records,   \* history: the notifications stored, in order
    stopping,  \* ctx is done
    main,      \* where main stands
    crashed    \* a publisher panicked

queueVars == <<channel, closed, dropped, accepted>>
workVars == <<consumer, stats, records>>
vars == <<wired, publish, queueVars, workVars, stopping, main, crashed>>

-----------------------------------------------------------------------------
Nobody == "none"

Init ==
    /\ wired \in BOOLEAN
    /\ publish = [m \in Messages |-> "new"]
    /\ channel = <<>> /\ closed = FALSE /\ dropped = {} /\ accepted = <<>>
    /\ consumer = [at |-> "select", msg |-> Nobody]
    /\ stats = [success |-> 0, failed |-> 0]
    /\ records = <<>>
    /\ stopping = FALSE /\ main = "wait" /\ crashed = FALSE

Up == ~crashed /\ main # "ended"

(* Publish, up to the backlog delay.                                       *)
Publish(m) ==
    /\ publish[m] = "new"
    /\ publish' = [publish EXCEPT ![m] = IF wired THEN "delay" ELSE "done"]
    /\ UNCHANGED <<wired, queueVars, workVars, stopping, main, crashed>>

(* The sends.  One on a closed channel panics, full or not.                *)
Send(m) ==
    /\ publish[m] = "delay"
    /\ publish' = [publish EXCEPT ![m] = "done"]
    /\ crashed' = closed
    /\ IF closed THEN UNCHANGED queueVars
       ELSE IF Len(channel) < Buffer
       THEN /\ channel' = Append(channel, m)
            /\ accepted' = Append(accepted, m)
            /\ UNCHANGED <<closed, dropped>>
       ELSE dropped' = dropped \cup {m} /\ UNCHANGED <<channel, closed, accepted>>
    /\ UNCHANGED <<wired, workVars, stopping, main>>

-----------------------------------------------------------------------------
(* Subscribe's select.  When both are ready it may take either.            *)
Consume ==
    /\ consumer.at = "select"
    /\ channel # <<>>
    /\ consumer' = [at |-> "handle", msg |-> Head(channel)]
    /\ channel' = Tail(channel)
    /\ UNCHANGED <<closed, dropped, accepted, stats, records>>

ConsumerReturns ==
    /\ consumer.at = "select"
    /\ stopping \/ (closed /\ channel = <<>>)
    /\ consumer' = [at |-> "gone", msg |-> Nobody]
    /\ UNCHANGED <<queueVars, stats, records>>

Counted(success) == IF success THEN [stats EXCEPT !.success = @ + 1] ELSE [stats EXCEPT !.failed = @ + 1]

MutHandleOrderCreated(success) ==
    /\ consumer.at = "handle"
    /\ stats' = Counted(success)
    /\ consumer' = IF success THEN [consumer EXCEPT !.at = "insert"] ELSE [at |-> "gone", msg |-> Nobody]
    /\ UNCHANGED <<queueVars, records>>

(* handleOrderCreated: the outcome is counted, and then stored, whichever  *)
(* it is.                                                                  *)
HandleOrderCreated(success) ==
    /\ consumer.at = "handle"
    /\ stats' = Counted(success)
    /\ consumer' = [consumer EXCEPT !.at = "insert"]
    /\ UNCHANGED <<queueVars, records>>

InsertRecord ==
    /\ consumer.at = "insert"
    /\ records' = Append(records, consumer.msg)
    /\ consumer' = [at |-> "select", msg |-> Nobody]
    /\ UNCHANGED <<queueVars, stats>>

Work ==
    /\ Consume \/ ConsumerReturns \/ InsertRecord \/ \E ok \in BOOLEAN : HandleOrderCreated(ok)
    /\ UNCHANGED <<wired, publish, stopping, main, crashed>>

-----------------------------------------------------------------------------
(* SIGTERM; then cancelSub closes the channel and waits for the consumer.  *)
Stop ==
    /\ ~stopping
    /\ stopping' = TRUE
    /\ UNCHANGED <<wired, publish, queueVars, workVars, main, crashed>>

MutCancelSub ==
    /\ main = "wait" /\ stopping
    /\ main' = "join"
    /\ closed' = TRUE
    /\ channel' = <<>>
    /\ UNCHANGED <<wired, publish, dropped, accepted, workVars, stopping, crashed>>

CancelSub ==
    /\ main = "wait" /\ stopping
    /\ main' = "join"
    /\ closed' = TRUE
    /\ UNCHANGED <<wired, publish, channel, dropped, accepted, workVars, stopping, crashed>>

(* What is left is srv.Shutdown, with its own time limit.                  *)
Shutdown ==
    /\ main = "join" /\ consumer.at = "gone"
    /\ main' = "ended"
    /\ UNCHANGED <<wired, publish, queueVars, workVars, stopping, crashed>>

Step == (\E m \in Messages : Publish(m) \/ Send(m)) \/ Work \/ Stop \/ CancelSub \/ Shutdown

(* A panic and the end of main end every goroutine.                        *)
Next == Up /\ Step

Spec == Init /\ [][Next]_vars

-----------------------------------------------------------------------------
(* What has been taken off the channel.                                    *)
Taken == [i \in 1 .. Len(accepted) - Len(channel) |-> accepted[i]]

(* The worker handles what the channel took in the order it took it, each  *)
(* message once, and counts it before it stores it.  A message that never  *)
(* reached the channel met a full one or a closed one, and nothing ends    *)
(* the worker or closes the channel before the process is told to stop.    *)
HandledInOrder ==
    LET handled == IF consumer.at \in {"handle", "insert"} THEN Front(Taken) ELSE Taken
        counted == IF consumer.at = "insert" THEN Taken ELSE handled
    IN  /\ accepted = Taken \o channel
        /\ IsInjective(accepted) /\ ToSet(accepted) \cap dropped = {}
        /\ stats.success + stats.failed = Len(counted)
        /\ records = handled
        /\ (consumer.at = "gone" \/ closed \/ crashed) => stopping
        /\ \A m \in Messages : publish[m] = "done" /\ wired =>
              m \in ToSet(accepted) \cup dropped \/ crashed

(* A worker told to stop ends, unless a publisher crashes it first; until  *)
(* then whatever the channel has taken is handled.                         *)
WorkerFinishes ==
    /\ stopping ~> (main = "ended" \/ crashed)
    /\ \A m \in Messages : (m \in ToSet(accepted)) ~> (m \in ToSet(records) \/ stopping)

(* The goroutines run; nobody has to stop the process.                     *)
Fairness == /\ WF_vars(Up /\ Work)
            /\ WF_vars(Up /\ CancelSub)
            /\ WF_vars(Up /\ Shutdown)
=============================================================================
