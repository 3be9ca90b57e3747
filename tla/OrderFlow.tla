------------------------------- MODULE OrderFlow -------------------------------
(***************************************************************************)
(* An order and its payment (cmd/order, cmd/payment).  The order service   *)
(* stores the order as pending, calls the payment service up to            *)
(* MaxAttempts times and stores the outcome; readers go through a cache    *)
(* that nothing invalidates.  The two services share no state: a handler   *)
(* of the payment service goes on when its caller has given up, and an     *)
(* answer may be lost.  Order ids are drawn at random, and Insert          *)
(* overwrites, so two requests may meet in one id.                         *)
(*                                                                         *)
(* The order service's queue has no subscriber in its process, so the      *)
(* event published at the end reaches nobody.                              *)
(***************************************************************************)
EXTENDS Naturals

CONSTANTS
    Requests,     \* POST /orders
    Readers,      \* GET /orders/<id>
    OrderIds,     \* ids the service may draw
    MaxAttempts   \* maxRetries

ASSUME OrderAssumption == MaxAttempts \in Nat \ {0}

VARIABLES
    orders,    \* the order service's DB, None where there is no record
    cache,     \* its cache
    at,        \* where a request's goroutine stands
    id,        \* the id it drew
    attempt,   \* the payment call it makes
    charge,    \* what the payment service did with each of its calls
    heard,     \* the calls whose answer arrived
    reader     \* what a reader has read and not yet cached

vars == <<orders, cache, at, id, attempt, charge, heard, reader>>

None == [by |-> "nobody", status |-> "none"]

Attempts == 1 .. MaxAttempts

-----------------------------------------------------------------------------
Record == [by : Requests, status : {"pending", "confirmed", "payment_failed"}]

Idle == [id |-> "none", got |-> None]

Init ==
    /\ orders = [o \in OrderIds |-> None]
    /\ cache = [o \in OrderIds |-> None]
    /\ at = [r \in Requests |-> "new"]
    /\ id \in [Requests -> OrderIds]
    /\ attempt = [r \in Requests |-> 1]
    /\ charge = [r \in Requests |-> [n \in Attempts |-> "none"]]
    /\ heard = [r \in Requests |-> {}]
    /\ reader = [d \in Readers |-> Idle]

Goto(r, place) == at' = [at EXCEPT ![r] = place]

(* db.Insert and db.Update: the whole record, whoever wrote it before.     *)
Store(r, status) == orders' = [orders EXCEPT ![id[r]] = [by |-> r, status |-> status]]

-----------------------------------------------------------------------------
(* createOrder, up to the stored pending order.                            *)
CreateOrder(r) ==
    /\ at[r] = "new"
    /\ Store(r, "pending")
    /\ Goto(r, "call")
    /\ UNCHANGED <<cache, id, attempt, charge, heard, reader>>

(* doPaymentRequest: the call is on its way to handleProcess.              *)
CallPayment(r) ==
    /\ at[r] = "call"
    /\ charge' = [charge EXCEPT ![r][attempt[r]] = "handling"]
    /\ Goto(r, "wait")
    /\ UNCHANGED <<orders, cache, id, attempt, heard, reader>>

(* handleProcess: a timeout and a failure are both a failed payment, and   *)
(* the record is stored either way, whether or not the caller still waits. *)
HandleProcess(r, n, status) ==
    /\ charge[r][n] = "handling"
    /\ status \in {"completed", "failed"}
    /\ charge' = [charge EXCEPT ![r][n] = status]
    /\ UNCHANGED <<orders, cache, at, id, attempt, heard, reader>>

(* Mutant: a failed attempt is not counted.                                *)
NextAttemptUncounted(r) == Goto(r, "call") /\ UNCHANGED attempt

(* Mutant: one attempt too many.                                           *)
NextAttemptOneMore(r) ==
    IF attempt[r] <= MaxAttempts
    THEN Goto(r, "call") /\ attempt' = [attempt EXCEPT ![r] = @ + 1]
    ELSE Goto(r, "refuse") /\ UNCHANGED attempt

(* The loop of callPaymentService: back off and try again, or give up.     *)
NextAttempt(r) ==
    IF attempt[r] < MaxAttempts
    THEN Goto(r, "call") /\ attempt' = [attempt EXCEPT ![r] = @ + 1]
    ELSE Goto(r, "refuse") /\ UNCHANGED attempt

(* Mutant: any answer is taken for a success.                              *)
AnswerUnread(r) ==
    /\ at[r] = "wait"
    /\ charge[r][attempt[r]] \in {"completed", "failed"}
    /\ heard' = [heard EXCEPT ![r] = @ \cup {attempt[r]}]
    /\ Goto(r, "confirm")
    /\ UNCHANGED <<orders, cache, id, attempt, charge, reader>>

(* Mutant: the loop goes on after a success.                               *)
AnswerGoesOn(r) ==
    /\ at[r] = "wait"
    /\ charge[r][attempt[r]] \in {"completed", "failed"}
    /\ heard' = [heard EXCEPT ![r] = @ \cup {attempt[r]}]
    /\ IF charge[r][attempt[r]] = "completed" /\ attempt[r] = MaxAttempts
       THEN Goto(r, "confirm") /\ UNCHANGED attempt
       ELSE NextAttempt(r)
    /\ UNCHANGED <<orders, cache, id, charge, reader>>

(* The answer arrives: 200 for a completed payment, 402 for a failed one.  *)
Answer(r) ==
    /\ at[r] = "wait"
    /\ charge[r][attempt[r]] \in {"completed", "failed"}
    /\ heard' = [heard EXCEPT ![r] = @ \cup {attempt[r]}]
    /\ IF charge[r][attempt[r]] = "completed"
       THEN Goto(r, "confirm") /\ UNCHANGED attempt
       ELSE NextAttempt(r)
    /\ UNCHANGED <<orders, cache, id, charge, reader>>

(* It does not: the connection fails before the handler or behind it, an   *)
(* injected fault answers in its place, or the client has gone away and    *)
(* the context is done.                                                    *)
NoAnswer(r) ==
    /\ at[r] \in {"call", "wait"}
    /\ NextAttempt(r)
    /\ UNCHANGED <<orders, cache, id, charge, heard, reader>>

(* The outcome is stored; Update does not look at the context.             *)
Confirm(r) ==
    /\ at[r] = "confirm"
    /\ Store(r, "confirmed")
    /\ Goto(r, "publish")
    /\ UNCHANGED <<cache, id, attempt, charge, heard, reader>>

Refuse(r) ==
    /\ at[r] = "refuse"
    /\ Store(r, "payment_failed")
    /\ Goto(r, "done")
    /\ UNCHANGED <<cache, id, attempt, charge, heard, reader>>

(* queue.Publish, to no subscriber; then the answer to the client.         *)
Publish(r) ==
    /\ at[r] = "publish"
    /\ Goto(r, "done")
    /\ UNCHANGED <<orders, cache, id, attempt, charge, heard, reader>>

-----------------------------------------------------------------------------
(* getOrder.  A hit answers what is cached and changes nothing.  A miss,   *)
(* or an entry that a stampede evicts for this call, leads to the DB ...   *)
CacheMiss(d, o) ==
    /\ reader[d] = Idle
    /\ orders[o] # None
    /\ reader' = [reader EXCEPT ![d] = [id |-> o, got |-> orders[o]]]
    /\ UNCHANGED <<orders, cache, at, id, attempt, charge, heard>>

(* ... and what was read there is put into the cache, and answered.        *)
FillCache(d) ==
    /\ reader[d] # Idle
    /\ cache' = [cache EXCEPT ![reader[d].id] = reader[d].got]
    /\ reader' = [reader EXCEPT ![d] = Idle]
    /\ UNCHANGED <<orders, at, id, attempt, charge, heard>>

-----------------------------------------------------------------------------
Request(r) ==
    \/ CallPayment(r) \/ Answer(r) \/ NoAnswer(r)
    \/ Confirm(r) \/ Refuse(r) \/ Publish(r)

Payment(r) == \E n \in Attempts, status \in {"completed", "failed"} : HandleProcess(r, n, status)

Read(d) == (\E o \in OrderIds : CacheMiss(d, o)) \/ FillCache(d)

Next ==
    \/ \E r \in Requests : CreateOrder(r) \/ Request(r) \/ Payment(r)
    \/ \E d \in Readers : Read(d)

Spec == Init /\ [][Next]_vars

(* Handlers run to their end: every sleep of the payment service is        *)
(* finite, and a call that is answered, or whose context is done, returns. *)
FairSpec ==
    /\ Spec
    /\ \A r \in Requests : WF_vars(Request(r)) /\ WF_vars(Payment(r))

-----------------------------------------------------------------------------
(* Every variable has its type.                                            *)
TypeOK ==
    /\ orders \in [OrderIds -> Record \cup {None}]
    /\ cache \in [OrderIds -> Record \cup {None}]
    /\ at \in [Requests -> {"new", "call", "wait", "confirm", "refuse", "publish", "done"}]
    /\ id \in [Requests -> OrderIds]
    /\ attempt \in [Requests -> Attempts]
    /\ charge \in [Requests -> [Attempts -> {"none", "handling", "completed", "failed"}]]
    /\ heard \in [Requests -> SUBSET Attempts]
    /\ reader \in [Readers -> [id : OrderIds, got : Record] \cup {Idle}]

(* Every copy of an order there is: in the DB, in the cache, with a reader. *)
Copies ==
    {orders[o] : o \in OrderIds} \cup {cache[o] : o \in OrderIds} \cup
    {reader[d].got : d \in Readers}

HeardPaid(r) == \E n \in heard[r] : charge[r][n] = "completed"

(* What an order says of its payment is what the payment service answered: *)
(* confirmed only if a completed payment of this very order was heard of,  *)
(* payment_failed only if none was.  Of every copy, also when two orders   *)
(* drew the same id and the copy outlived the record.                      *)
StatusIsWhatWasHeard ==
    \A c \in Copies :
        /\ c.status = "confirmed" => HeardPaid(c.by)
        /\ c.status = "payment_failed" => ~HeardPaid(c.by)

(* A customer is charged twice for an order only when the answer to an     *)
(* earlier charge never arrived; the payment service has no idempotency    *)
(* key that would stop it then.                                            *)
ChargedAgainOnlyIfLost ==
    \A r \in Requests : \A n, m \in Attempts :
        n < m /\ charge[r][n] = "completed" /\ charge[r][m] # "none" => n \notin heard[r]

(* Every order that was stored comes to a status of its own, whatever the  *)
(* payment service answers and however often the answer is lost.           *)
OrderSettles == \A r \in Requests : at[r] = "call" ~> at[r] = "done"
=============================================================================
