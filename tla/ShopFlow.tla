------------------------------ MODULE ShopFlow ------------------------------
(***************************************************************************)
(* The Shopify mock (internal/shopify, cmd/mock-shopify): the mutator      *)
(* makes one webhook event a tick and puts it on a bounded channel, the    *)
(* emitter takes it off, lets the incident knobs alter it and posts it,    *)
(* and the Admin REST pages read the store meanwhile.                      *)
(*                                                                         *)
(* Events are numbered as they are made.  Mutator and emitter draw ids     *)
(* from idSeq with no lock: a draw is a read and a write.  An object draws *)
(* one id here, its own; its line items draw theirs the same way.  What is *)
(* random in the code is a choice.                                         *)
(***************************************************************************)
EXTENDS ShopKnobs, Sequences, SequencesExt

CONSTANTS
    ShopOrder,    \* cfg.Shops as the round robin takes them
    Topics,       \* topics drawn from topicMix
    Room,         \* capacity of events
    MaxRetained,  \* maxOrdersRetained
    Page,         \* the page clip falls back on
    MaxPage,      \* the largest page it grants
    SeedOrders,   \* cfg.SeedOrders
    MaxEvents     \* bound: events made

ASSUME FlowAssumption ==
    /\ ShopOrder \in Seq(Shops) /\ Len(ShopOrder) > 0 /\ Shops = ToSet(ShopOrder)
    /\ {Room, MaxRetained, Page, MaxPage} \subseteq Nat \ {0}
    /\ {SeedOrders, MaxEvents} \subseteq Nat

VARIABLES
    idSeq,     \* Store.idSeq
    issued,    \* history: every id drawn, in turn
    raced,     \* history: two draws have overlapped
    orders,    \* Store.orders
    recorded,  \* history: every order recorded, for each shop
    events,    \* the channel
    mutator,   \* RunMutator's goroutine
    emitter,   \* Emitter.Run's goroutine
    made,      \* events made so far; Store.rr
    dropped,   \* events the channel had no room for
    slumped,   \* events the slump suppressed
    sent,      \* history: the webhooks posted
    cancelled  \* the process has been told to stop

storeVars == <<idSeq, issued, raced, orders, recorded>>
countVars == <<made, dropped, slumped, sent>>
flowVars == <<storeVars, events, mutator, emitter, countVars, cancelled>>
vars == <<knobVars, flowVars>>

-----------------------------------------------------------------------------
OrderTopics == {"orders/create", "orders/paid"}

(* Topics whose payload is, or names, an order the store still has.        *)
OrderRefs == {"orders/paid", "orders/cancelled", "transactions/create", "refunds/create"}

(* Payloads that are an order, and so may need a fresh one.                *)
WholeOrders == OrderTopics \cup {"orders/cancelled"}

NoEvent == [n |-> 0, shop |-> NoShop, topic |-> "none", id |-> 0, order |-> 0]

NoOrder == [n |-> 0, id |-> 0]

Resting == [at |-> "idle", ev |-> NoEvent, reg |-> 0, out |-> <<>>]

(* NewStore.                                                               *)
Seeds(i) == [j \in 1 .. SeedOrders |-> [n |-> 0, id |-> (i - 1) * SeedOrders + j]]

IndexOf(shop) == CHOOSE i \in 1 .. Len(ShopOrder) : ShopOrder[i] = shop

Init ==
    /\ KnobInit
    /\ orders = [s \in Shops |-> Seeds(IndexOf(s))]
    /\ recorded = orders
    /\ idSeq = SeedOrders * Len(ShopOrder)
    /\ issued = [i \in 1 .. idSeq |-> i]
    /\ raced = FALSE
    /\ events = <<>>
    /\ mutator = [at |-> "idle", ev |-> NoEvent, reg |-> 0]
    /\ emitter = Resting
    /\ made = 0 /\ dropped = {} /\ slumped = {} /\ sent = <<>>
    /\ cancelled = FALSE

-----------------------------------------------------------------------------
(* nextID is a read of idSeq and, some time later, this write of one more. *)
(* What it returns is what it wrote: the compiler forwards the value to    *)
(* the return, and reads the field no second time.                         *)
(* raced says that one goroutine read while the other had yet to write.    *)
MutWrite(reg) == idSeq' = idSeq + 1 /\ issued' = Append(issued, idSeq)

Write(reg) == idSeq' = reg /\ issued' = Append(issued, reg)

(* RunMutator's tick, and emit until it draws an id.  What comes before    *)
(* the read of idSeq is the mutator's own, and one step with it.           *)
Emit(topic, o) ==
    LET shop == ShopOrder[(made % Len(ShopOrder)) + 1]
        known == orders[shop] # <<>>
        fresh == topic = "orders/create" \/ ~known
        draws == topic \in WholeOrders => fresh
        names == IF topic \in WholeOrders /\ fresh THEN made + 1 ELSE o.n
        ev == [n |-> made + 1, shop |-> shop, topic |-> topic, id |-> o.id, order |-> names]
    IN  /\ mutator.at = "idle"
        /\ made < MaxEvents
        /\ IF topic \in OrderRefs /\ known THEN o \in ToSet(orders[shop]) ELSE o = NoOrder
        /\ made' = made + 1
        /\ mutator' = [at |-> IF draws THEN "drawn" ELSE "send", ev |-> ev,
                       reg |-> IF draws THEN idSeq + 1 ELSE 0]
        /\ raced' = (raced \/ (draws /\ emitter.at = "drawn"))
        /\ UNCHANGED <<knobVars, idSeq, issued, orders, recorded, events, emitter, dropped, slumped, sent, cancelled>>

MutatorDraws ==
    /\ mutator.at = "drawn"
    /\ Write(mutator.reg)
    /\ mutator' = [mutator EXCEPT !.at = "send", !.reg = 0, !.ev.id = mutator.reg]
    /\ UNCHANGED <<knobVars, raced, orders, recorded, events, emitter, countVars, cancelled>>

MutRetained(lst) == IF Len(lst) > MaxRetained THEN SubSeq(lst, 1, MaxRetained) ELSE lst

(* The retained suffix of an order list.                                   *)
Retained(lst) ==
    IF Len(lst) > MaxRetained THEN SubSeq(lst, Len(lst) - MaxRetained + 1, Len(lst)) ELSE lst

(* recordOrder.  Only the mutator and the REST pages read the orders, so   *)
(* it is one step with the send that follows.                              *)
RecordOrder(ev) ==
    LET o == [n |-> ev.n, id |-> ev.id]
    IN  IF ev.topic = "orders/create"
        THEN /\ orders' = [orders EXCEPT ![ev.shop] = Retained(Append(@, o))]
             /\ recorded' = [recorded EXCEPT ![ev.shop] = Append(@, o)]
        ELSE UNCHANGED <<orders, recorded>>

MutHasRoom == TRUE

HasRoom == Len(events) < Room

(* The non-blocking send.                                                  *)
MutatorSends ==
    /\ mutator.at = "send"
    /\ RecordOrder(mutator.ev)
    /\ IF HasRoom THEN events' = Append(events, mutator.ev) /\ UNCHANGED dropped
                  ELSE dropped' = dropped \cup {mutator.ev.n} /\ UNCHANGED events
    /\ mutator' = [mutator EXCEPT !.at = "idle", !.ev = NoEvent]
    /\ UNCHANGED <<knobVars, idSeq, issued, raced, emitter, made, slumped, sent, cancelled>>

-----------------------------------------------------------------------------
Slumps(ev) == Active("slump") /\ knob["slump"].shop = ev.shop /\ ev.topic \in OrderTopics

(* The emitter takes an event and looks at the slump; whether the order    *)
(* has the product is a choice.  Nothing else sees the moment in between.  *)
Receive ==
    /\ emitter.at = "idle"
    /\ events # <<>>
    /\ events' = Tail(events)
    /\ \/ /\ Slumps(Head(events))
          /\ slumped' = slumped \cup {Head(events).n}
          /\ UNCHANGED emitter
       \/ /\ emitter' = [emitter EXCEPT !.at = "incident", !.ev = Head(events)]
          /\ UNCHANGED slumped
    /\ UNCHANGED <<knobVars, storeVars, mutator, made, dropped, sent, cancelled>>

Hook(ev, kind) == [n |-> ev.n, shop |-> ev.shop, topic |-> ev.topic, order |-> ev.order, kind |-> kind]

MutMelts(ev) == Active("meltdown")

Melts(ev) == Active("meltdown") /\ knob["meltdown"].shop = ev.shop

MutFanOut(ev, declined, cancel) ==
    IF cancel THEN <<Hook(ev, "cancelled")>> ELSE <<Hook(ev, IF declined THEN "declined" ELSE "event")>>

FanOut(ev, declined, cancel) ==
    <<Hook(ev, IF declined THEN "declined" ELSE "event")>>
    \o (IF cancel THEN <<Hook(ev, "cancelled")>> ELSE <<>>)

(* applyIncident, the meltdown, which is looked at only now: a declined    *)
(* transaction, a cancellation and a refund sent behind an order.          *)
CheckIncident(declined, cancel, refund) ==
    LET ev == emitter.ev
    IN  /\ emitter.at = "incident"
        /\ declined => Melts(ev) /\ ev.topic = "transactions/create"
        /\ (cancel \/ refund) => Melts(ev) /\ ev.topic \in OrderTopics
        /\ emitter' = [emitter EXCEPT !.out = FanOut(ev, declined, cancel),
                                      !.at = IF refund THEN "drawn" ELSE "post",
                                      !.reg = IF refund THEN idSeq + 1 ELSE 0]
        /\ raced' = (raced \/ (refund /\ mutator.at = "drawn"))
        /\ UNCHANGED <<knobVars, idSeq, issued, orders, recorded, events, mutator, countVars, cancelled>>

EmitterDraws ==
    /\ emitter.at = "drawn"
    /\ Write(emitter.reg)
    /\ emitter' = [emitter EXCEPT !.at = "post", !.reg = 0, !.out = Append(@, Hook(emitter.ev, "refund"))]
    /\ UNCHANGED <<knobVars, raced, orders, recorded, events, mutator, countVars, cancelled>>

(* post: an answer, an error or the client's timeout ends each of them.    *)
Deliver ==
    /\ emitter.at = "post"
    /\ sent' = Append(sent, Head(emitter.out))
    /\ emitter' = IF Len(emitter.out) = 1 THEN Resting ELSE [emitter EXCEPT !.out = Tail(@)]
    /\ UNCHANGED <<knobVars, storeVars, events, mutator, made, dropped, slumped, cancelled>>

-----------------------------------------------------------------------------
(* SIGTERM.  Each loop ends when its select takes ctx.Done(), which may be *)
(* after it has taken other things that were ready.                        *)
Cancel ==
    /\ ~cancelled
    /\ cancelled' = TRUE
    /\ UNCHANGED <<knobVars, storeVars, events, mutator, emitter, countVars>>

MutatorReturns ==
    /\ cancelled /\ mutator.at = "idle"
    /\ mutator' = [mutator EXCEPT !.at = "gone"]
    /\ UNCHANGED <<knobVars, storeVars, events, emitter, countVars, cancelled>>

EmitterReturns ==
    /\ cancelled /\ emitter.at = "idle"
    /\ emitter' = [emitter EXCEPT !.at = "gone"]
    /\ UNCHANGED <<knobVars, storeVars, events, mutator, countVars, cancelled>>

Emits == \E t \in Topics : \E o \in {NoOrder} \cup UNION {ToSet(orders[s]) : s \in Shops} : Emit(t, o)

Mutates == Emits \/ MutatorDraws \/ MutatorSends \/ MutatorReturns

Handles == Receive \/ (\E d, c, r \in BOOLEAN : CheckIncident(d, c, r))

Posts == EmitterDraws \/ Deliver \/ EmitterReturns

Next ==
    \/ Mutates
    \/ Handles
    \/ Posts
    \/ Cancel
    \/ KnobNext /\ UNCHANGED flowVars

Spec == Init /\ [][Next]_vars

(* Both goroutines go on as long as they can.                              *)
FairSpec == Spec /\ KnobFairness /\ WF_vars(Mutates) /\ WF_vars(Handles \/ Posts)
-----------------------------------------------------------------------------
(* clip, and GET orders.json: newest first.                                *)
Clip(lst, limit) ==
    LET n == IF limit <= 0 \/ limit > MaxPage THEN Page ELSE limit
    IN  IF Len(lst) > n THEN SubSeq(lst, 1, n) ELSE lst

ListOrders(shop, limit) == Clip(Reverse(orders[shop]), limit)

-----------------------------------------------------------------------------
Hooks == [n : 1 .. MaxEvents, shop : Shops, topic : Topics, order : 0 .. MaxEvents,
          kind : {"event", "declined", "cancelled", "refund"}]

(* A goroutine is where its code can be, and holds what it holds there.    *)
TypeOK ==
    /\ mutator.at \in {"idle", "drawn", "send", "gone"}
    /\ emitter.at \in {"idle", "incident", "drawn", "post", "gone"}
    /\ (mutator.ev = NoEvent) <=> (mutator.at \in {"idle", "gone"})
    /\ (emitter.ev = NoEvent) <=> (emitter.at \in {"idle", "gone"})
    /\ (emitter.out # <<>>) <=> (emitter.at \in {"drawn", "post"})
    /\ {emitter.out[i] : i \in DOMAIN emitter.out} \cup ToSet(sent) \subseteq Hooks
    /\ Len(events) <= Room

(* The webhook of the event itself, among those it may fan out into.       *)
Own(hook) == hook.kind \in {"event", "declined"}

(* Every event made is in one place: being made, on the channel, in the    *)
(* emitter's hands, dropped, suppressed or posted, once.  The webhooks go  *)
(* out in the order of their events, and a cancellation or a refund right  *)
(* behind the order it belongs to.                                         *)
NothingLostOrTwice ==
    LET waiting == emitter.out # <<>> => Own(Head(emitter.out))
        places == <<{mutator.ev.n} \ {0}, {e.n : e \in ToSet(events)},
                    IF waiting THEN {emitter.ev.n} \ {0} ELSE {},
                    dropped, slumped, {h.n : h \in {h \in ToSet(sent) : Own(h)}}>>
        before(i, j) == sent[i].n < sent[j].n \/ (sent[i].n = sent[j].n /\ ~Own(sent[j]))
    IN  /\ UNION ToSet(places) = 1 .. made
        /\ \A i, j \in DOMAIN places : i < j => places[i] \cap places[j] = {}
        /\ \A i, j \in DOMAIN sent : i < j => before(i, j)
        /\ \A j \in DOMAIN sent : ~Own(sent[j]) => j > 1 /\ sent[j - 1].n = sent[j].n

(* A webhook that names another event's order goes out after that order's  *)
(* own, or the order's own never goes out: the channel was full, or the    *)
(* slump suppressed it while the store kept the order.                     *)
OrderFirst ==
    \A j \in DOMAIN sent :
        LET m == sent[j].order
        IN  \/ m \in {0, sent[j].n} \cup dropped \cup slumped
            \/ \E i \in 1 .. j - 1 : sent[i].n = m /\ sent[i].topic = "orders/create" /\ Own(sent[i])

(* No shop's webhooks are altered, and none suppressed, unless a client    *)
(* asked for that incident in that shop; an empty shop asks for the first. *)
OnlyTheAsked ==
    /\ \A h \in ToSet(sent) \cup ToSet(emitter.out) : h.kind # "event" => h.shop \in askedFor["meltdown"]
    /\ \A n \in slumped : ShopOrder[((n - 1) % Len(ShopOrder)) + 1] \in askedFor["slump"]

(* Two objects have one id only if the emitter drew the id of a refund     *)
(* while the mutator was drawing one.                                      *)
DuplicateBlamesRefund ==
    (\E i, j \in DOMAIN issued : i < j /\ issued[i] = issued[j]) =>
        raced /\ askedFor["meltdown"] # {}

(* Whatever the limit, the orders page is the newest orders the shop ever  *)
(* had, newest first, as many as fit; the seeds stay until the first order *)
(* behind them even when they are more than the store retains.             *)
RestShowsNewest ==
    \A shop \in Shops, limit \in -1 .. MaxPage + 1 :
        LET page == ListOrders(shop, limit)
            all == Reverse(recorded[shop])
            kept == IF Len(all) = SeedOrders \/ Len(all) < MaxRetained THEN Len(all) ELSE MaxRetained
        IN  /\ IsPrefix(page, all)
            /\ Len(page) = IF limit \in 1 .. MaxPage /\ limit < kept THEN limit
                            ELSE IF limit \in 1 .. MaxPage \/ kept < Page THEN kept ELSE Page

(* When the clients have done asking, every incident ends and every event  *)
(* leaves the process, or the process was told to stop.                    *)
QuietsDown ==
    /\ IncidentsEnd
    /\ <>[](cancelled \/ (events = <<>> /\ mutator.at = "idle" /\ emitter.at = "idle"))
=============================================================================
