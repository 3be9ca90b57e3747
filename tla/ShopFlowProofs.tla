--------------------------- MODULE ShopFlowProofs ---------------------------
(* Proofs about ShopKnobs and ShopFlow, for any shops, durations, topics,   *)
(* sizes of the store and of the channel, and any number of requests.       *)
EXTENDS ShopFlow, SequenceTheorems, TLAPS

Knob == [enabled : BOOLEAN, shop : Shops \cup {NoShop}, duration : Int, left : Int]

Sleeper == [n : Nat, knob : Knobs, left : Int]

KnobsTyped ==
    /\ knob \in [Knobs -> Knob]
    /\ sleepers \subseteq Sleeper
    /\ posts \in Nat
    /\ askedFor \in [Knobs -> SUBSET Shops]

(* A knob is on for a shop somebody asked for.                              *)
KnobsAsked == \A k \in Knobs : knob[k].enabled => knob[k].shop \in askedFor[k]

(* A knob without a time of its own has a goroutine that is due.            *)
Doomed ==
    \A k \in Knobs : knob[k].enabled /\ knob[k].duration <= 0 => \E s \in sleepers : s.knob = k /\ s.left <= 0

KInv == KnobsTyped /\ KnobsAsked /\ Doomed

-----------------------------------------------------------------------------
LEMMA DurationTyped ==
    ASSUME NEW k \in Knobs, NEW a \in Asked, NEW d \in Durations(k, a)
    PROVE  d \in Int
<1> USE KnobAssumption
<1>1. a \in Nat \/ a = TooShort \/ a = TooLong
  OBVIOUS
<1>2. TooShort \notin Nat /\ TooLong \notin Nat /\ TooShort # TooLong
  BY DEF TooShort, TooLong
<1> QED
  BY <1>1, <1>2 DEF Durations

LEMMA InitK == KnobInit => KInv
BY DEF KnobInit, KInv, KnobsTyped, KnobsAsked, Doomed, Disabled, Knob

(* Enable, and the goroutine that will disable.                             *)
LEMMA PostKeeps ==
    ASSUME KInv, NEW k \in Knobs, NEW shop \in Shops, NEW d \in Int, Post(k, shop, d)
    PROVE  KInv' /\ \A l \in Knobs : askedFor[l] \subseteq askedFor'[l]
<1> DEFINE on == [enabled |-> TRUE, shop |-> shop, duration |-> d, left |-> d]
           started == [n |-> posts, knob |-> k, left |-> d]
<1>1. /\ posts' = posts + 1
      /\ knob' = [knob EXCEPT ![k] = on]
      /\ sleepers' = sleepers \cup {started}
      /\ askedFor' = [askedFor EXCEPT ![k] = askedFor[k] \cup {shop}]
  BY DEF Post, Started, KInv, KnobsTyped
<1>2. on \in Knob /\ started \in Sleeper
  BY DEF KInv, KnobsTyped, Knob, Sleeper
<1>3. KnobsTyped'
  BY <1>1, <1>2 DEF KInv, KnobsTyped
<1>4. /\ knob'[k] = on /\ on.shop = shop /\ on.duration = d /\ started.knob = k /\ started.left = d
      /\ \A l \in Knobs : l # k => knob'[l] = knob[l]
  BY <1>1 DEF KInv, KnobsTyped
<1>5. /\ shop \in askedFor'[k]
      /\ \A l \in Knobs : askedFor[l] \subseteq askedFor'[l]
  BY <1>1 DEF KInv, KnobsTyped
<1> HIDE DEF on, started
<1>6. KnobsAsked'
  BY <1>4, <1>5 DEF KInv, KnobsAsked
<1>7. Doomed'
  BY <1>1, <1>4 DEF KInv, Doomed
<1> QED
  BY <1>3, <1>5, <1>6, <1>7 DEF KInv

(* A knob goes off, by a request or a goroutine, which is then gone.        *)
LEMMA OffKeeps ==
    ASSUME KInv, NEW k \in Knobs, knob' = [knob EXCEPT ![k] = Disabled],
           sleepers' \subseteq sleepers, \A s \in sleepers : s.knob # k => s \in sleepers',
           UNCHANGED <<posts, askedFor>>
    PROVE  KInv'
<1>1. Disabled \in Knob /\ Disabled.enabled = FALSE
  BY DEF Disabled, Knob
<1>2. KnobsTyped'
  BY <1>1 DEF KInv, KnobsTyped
<1>3. knob'[k].enabled = FALSE /\ \A l \in Knobs : l # k => knob'[l] = knob[l]
  BY <1>1 DEF KInv, KnobsTyped
<1>4. KnobsAsked'
  BY <1>3 DEF KInv, KnobsAsked
<1>5. Doomed'
  BY <1>3 DEF KInv, Doomed
<1> QED
  BY <1>2, <1>4, <1>5 DEF KInv

LEMMA TickKeeps == ASSUME KInv, Tick PROVE KInv'
<1>1. /\ knob' = [k \in Knobs |-> IF Counting(k) THEN Down(knob[k]) ELSE knob[k]]
      /\ sleepers' = {IF s.left > 0 THEN Down(s) ELSE s : s \in sleepers}
      /\ UNCHANGED <<posts, askedFor>>
  BY DEF Tick
<1>2. \A x \in Knob : /\ Down(x) \in Knob /\ Down(x).enabled = x.enabled
                      /\ Down(x).shop = x.shop /\ Down(x).duration = x.duration
  BY DEF Down, Knob
<1>3. \A s \in Sleeper : Down(s) \in Sleeper
  BY DEF Down, Sleeper
<1>4. \A k \in Knobs : /\ knob'[k] \in Knob /\ knob'[k].enabled = knob[k].enabled
                       /\ knob'[k].shop = knob[k].shop /\ knob'[k].duration = knob[k].duration
  BY <1>1, <1>2 DEF KInv, KnobsTyped
<1>5. sleepers' \subseteq Sleeper
  BY <1>1, <1>3 DEF KInv, KnobsTyped
<1>6. knob' \in [Knobs -> Knob]
  BY <1>1, <1>4
<1>7. \A s \in sleepers : s.left <= 0 => s \in sleepers'
  BY <1>1 DEF KInv, KnobsTyped, Sleeper
<1>8. KnobsTyped' /\ KnobsAsked' /\ Doomed'
  BY <1>1, <1>4, <1>5, <1>6, <1>7 DEF KInv, KnobsTyped, KnobsAsked, Doomed
<1> QED
  BY <1>8 DEF KInv

(* Whatever the knobs do, nobody's request is forgotten.                    *)
LEMMA KnobStep ==
    ASSUME KInv, KnobNext
    PROVE  KInv' /\ \A l \in Knobs : askedFor[l] \subseteq askedFor'[l]
<1>1. ASSUME NEW k \in Knobs, Ask(k)
      PROVE  KInv' /\ \A l \in Knobs : askedFor[l] \subseteq askedFor'[l]
  <2>1. PICK shop \in AskedShops, a \in Asked : \E d \in Durations(k, a) :
          Post(k, IF shop = NoShop THEN DefaultShop ELSE shop, d)
    BY <1>1 DEF Ask
  <2>2. PICK d \in Durations(k, a) : Post(k, IF shop = NoShop THEN DefaultShop ELSE shop, d)
    BY <2>1
  <2>3. d \in Int /\ (IF shop = NoShop THEN DefaultShop ELSE shop) \in Shops
    BY DurationTyped, KnobAssumption
  <2> QED
    BY <2>2, <2>3, PostKeeps
<1>2. ASSUME NEW k \in Knobs, Delete(k)
      PROVE  KInv' /\ \A l \in Knobs : askedFor[l] \subseteq askedFor'[l]
  BY <1>2, OffKeeps DEF Delete
<1>3. ASSUME NEW s \in sleepers, Wake(s)
      PROVE  KInv' /\ \A l \in Knobs : askedFor[l] \subseteq askedFor'[l]
  <2>1. s.knob \in Knobs
    BY DEF KInv, KnobsTyped, Sleeper
  <2> QED
    BY <1>3, <2>1, OffKeeps DEF Wake
<1>4. CASE Tick
  BY <1>4, TickKeeps DEF Tick
<1> QED
  BY <1>1, <1>2, <1>3, <1>4 DEF KnobNext

(* A knob without a time of its own is about to be disabled, and the page   *)
(* and the emitter disagree about no other.                                 *)
LEMMA DoomedIsBrief == KInv => UnlimitedIsBrief
<1> SUFFICES ASSUME KInv PROVE UnlimitedIsBrief
  OBVIOUS
<1>1. \A k \in Knobs : knob[k].duration \in Int /\ knob[k].left \in Int /\ knob[k].enabled \in BOOLEAN
  BY DEF KInv, KnobsTyped, Knob
<1>2. \A k \in Knobs : Snapshot(k) # Active(k) => knob[k].enabled /\ knob[k].duration < 0
  BY <1>1 DEF Snapshot, Active
<1> QED
  BY <1>2 DEF KInv, Doomed, UnlimitedIsBrief

-----------------------------------------------------------------------------
Event == [n : 1 .. MaxEvents, shop : Shops, topic : Topics, id : Int, order : 0 .. MaxEvents]

Order == [n : 0 .. MaxEvents, id : Int]

Mutator == [at : {"idle", "drawn", "send", "gone"}, ev : Event \cup {NoEvent}, reg : Int]

Emitter == [at : {"idle", "incident", "drawn", "post", "gone"}, ev : Event \cup {NoEvent}, reg : Int,
            out : Seq(Hooks)]

FlowTyped ==
    /\ idSeq \in Int /\ issued \in Seq(Int) /\ raced \in BOOLEAN
    /\ orders \in [Shops -> Seq(Order)]
    /\ events \in Seq(Event) /\ sent \in Seq(Hooks)
    /\ mutator \in Mutator /\ emitter \in Emitter
    /\ made \in 0 .. MaxEvents

Placed ==
    /\ (mutator.ev = NoEvent) <=> (mutator.at \in {"idle", "gone"})
    /\ (emitter.ev = NoEvent) <=> (emitter.at \in {"idle", "gone"})
    /\ (emitter.out # <<>>) <=> (emitter.at \in {"drawn", "post"})
    /\ Len(events) <= Room

ShopOf(n) == ShopOrder[((n - 1) % Len(ShopOrder)) + 1]

(* An event is of the shop whose turn it was.                               *)
InTurn ==
    /\ mutator.ev # NoEvent => mutator.ev.shop = ShopOf(mutator.ev.n)
    /\ emitter.ev # NoEvent => emitter.ev.shop = ShopOf(emitter.ev.n)
    /\ \A i \in 1 .. Len(events) : events[i].shop = ShopOf(events[i].n)

(* What an incident touched is of a shop it was asked for.                  *)
Touched ==
    /\ emitter.at = "drawn" => emitter.ev.shop \in askedFor["meltdown"]
    /\ \A i \in 1 .. Len(emitter.out) : emitter.out[i].kind # "event" => emitter.out[i].shop \in askedFor["meltdown"]
    /\ \A i \in 1 .. Len(sent) : sent[i].kind # "event" => sent[i].shop \in askedFor["meltdown"]
    /\ \A n \in slumped : ShopOf(n) \in askedFor["slump"]

(* While no two draws have overlapped, one is under way at most, and the    *)
(* ids are those up to idSeq, each once.                                    *)
Distinct ==
    /\ \A i \in 1 .. Len(issued) : issued[i] <= idSeq
    /\ \A i, j \in 1 .. Len(issued) : issued[i] = issued[j] => i = j
    /\ mutator.at = "drawn" => mutator.reg = idSeq + 1 /\ emitter.at # "drawn"
    /\ emitter.at = "drawn" => emitter.reg = idSeq + 1

(* Two draws overlap only when one of them is a refund's.                   *)
Ids == (~raced => Distinct) /\ (raced => askedFor["meltdown"] # {})

FInv == FlowTyped /\ Placed /\ InTurn /\ Touched /\ Ids

-----------------------------------------------------------------------------
LEMMA NoEventIsNone == NoEvent \notin Event
BY DEF NoEvent, Event

(* With the flow as it was, more requests change nothing.                   *)
LEMMA FlowRests ==
    ASSUME FInv, UNCHANGED flowVars, \A l \in Knobs : askedFor[l] \subseteq askedFor'[l]
    PROVE  FInv'
<1>1. /\ UNCHANGED <<idSeq, issued, raced, orders, events, mutator, emitter, made, slumped, sent>>
      /\ askedFor["meltdown"] \subseteq askedFor'["meltdown"] /\ askedFor["slump"] \subseteq askedFor'["slump"]
  BY DEF flowVars, storeVars, countVars, Knobs
<1>2. FlowTyped' /\ Placed' /\ InTurn'
  BY <1>1 DEF FInv, FlowTyped, Placed, InTurn, ShopOf
<1>3. Touched'
  BY <1>1 DEF FInv, Touched, ShopOf
<1>4. Ids'
  BY <1>1 DEF FInv, Ids, Distinct
<1> QED
  BY <1>2, <1>3, <1>4 DEF FInv

(* A draw that overlaps none is of a new id.                                *)
LEMMA WriteDistinct ==
    ASSUME idSeq \in Int, issued \in Seq(Int), Write(idSeq + 1),
           \A i \in 1 .. Len(issued) : issued[i] <= idSeq,
           \A i, j \in 1 .. Len(issued) : issued[i] = issued[j] => i = j
    PROVE  /\ \A i \in 1 .. Len(issued') : issued'[i] <= idSeq'
           /\ \A i, j \in 1 .. Len(issued') : issued'[i] = issued'[j] => i = j
<1>1. /\ idSeq' = idSeq + 1 /\ issued' = Append(issued, idSeq + 1)
      /\ Len(issued) \in Nat /\ Len(issued') = Len(issued) + 1
  BY DEF Write
<1>2. \A i \in 1 .. Len(issued') : IF i = Len(issued) + 1 THEN issued'[i] = idSeq + 1
                                  ELSE i \in 1 .. Len(issued) /\ issued'[i] = issued[i] /\ issued[i] \in Int
  BY <1>1
<1>3. \A i \in 1 .. Len(issued') : issued'[i] <= idSeq'
  BY <1>1, <1>2
<1>4. ASSUME NEW i \in 1 .. Len(issued'), NEW j \in 1 .. Len(issued'), issued'[i] = issued'[j] PROVE i = j
  BY <1>1, <1>2, <1>4
<1> QED
  BY <1>3, <1>4

-----------------------------------------------------------------------------
(* The mutator.                                                             *)
LEMMA EmitKeeps ==
    ASSUME FInv, KInv, NEW topic \in Topics,
           NEW o \in {NoOrder} \cup UNION {ToSet(orders[s]) : s \in Shops}, Emit(topic, o)
    PROVE  FInv'
<1> DEFINE shop == ShopOrder[(made % Len(ShopOrder)) + 1]
<1>0. Len(ShopOrder) \in Nat \ {0} /\ ShopOrder \in Seq(Shops) /\ MaxEvents \in Nat
  BY FlowAssumption
<1> DEFINE fresh == topic = "orders/create" \/ ~(orders[shop] # <<>>)
           draws == topic \in WholeOrders => fresh
           names == IF topic \in WholeOrders /\ fresh THEN made + 1 ELSE o.n
<1>1. /\ names = made + 1 \/ names = o.n
      /\ mutator' = [at |-> IF draws THEN "drawn" ELSE "send",
                     ev |-> [n |-> made + 1, shop |-> shop, topic |-> topic, id |-> o.id, order |-> names],
                     reg |-> IF draws THEN idSeq + 1 ELSE 0]
      /\ raced' = (raced \/ (draws /\ emitter.at = "drawn"))
  BY DEF Emit
<1> HIDE DEF draws, names
<1>2. /\ mutator.at = "idle" /\ made < MaxEvents /\ made' = made + 1
      /\ UNCHANGED <<idSeq, issued, orders, events, emitter, slumped, sent, knobVars>>
  BY DEF Emit
<1>3. o \in Order
  <2>1. NoOrder \in Order
    BY <1>0 DEF NoOrder, Order
  <2>2. \A s \in Shops : \A x \in ToSet(orders[s]) : x \in Order
    BY DEF FInv, FlowTyped, ToSet
  <2> QED
    BY <2>1, <2>2
<1>4. made \in 0 .. MaxEvents /\ made + 1 \in 1 .. MaxEvents
  BY <1>0, <1>2 DEF FInv, FlowTyped
<1>5. shop \in Shops
  <2>1. (made % Len(ShopOrder)) + 1 \in 1 .. Len(ShopOrder)
    BY <1>0, <1>4
  <2> QED
    BY <1>0, <2>1
<1>6. names \in 0 .. MaxEvents /\ o.id \in Int
  BY <1>1, <1>3, <1>4 DEF Order
<1> DEFINE ev == [n |-> made + 1, shop |-> shop, topic |-> topic, id |-> o.id, order |-> names]
<1>7. ev \in Event
  BY <1>4, <1>5, <1>6 DEF Event
<1>8. ev.n = made + 1 /\ ev.shop = shop
  OBVIOUS
<1>9. (made + 1) - 1 = made
  BY <1>4
<1>10. ev.shop = ShopOf(ev.n)
  BY <1>8, <1>9 DEF ShopOf
<1>11. mutator'.ev = ev /\ mutator'.at = (IF draws THEN "drawn" ELSE "send")
       /\ mutator'.reg = (IF draws THEN idSeq + 1 ELSE 0)
  BY <1>1
<1> HIDE DEF ev, shop
<1>12. mutator' \in Mutator
  <2>1. (IF draws THEN idSeq + 1 ELSE 0) \in Int
    BY DEF FInv, FlowTyped
  <2> QED
    BY <1>1, <1>7, <2>1 DEF Mutator, ev
<1>13. FlowTyped'
  BY <1>1, <1>2, <1>4, <1>12 DEF FInv, FlowTyped
<1>14. Placed' /\ InTurn'
  BY <1>2, <1>7, <1>10, <1>11, NoEventIsNone DEF FInv, Placed, InTurn, ShopOf
<1>15. Touched'
  BY <1>2 DEF FInv, Touched, ShopOf, knobVars
<1>16. raced' => askedFor'["meltdown"] # {}
  BY <1>1, <1>2 DEF FInv, Ids, Touched, knobVars
<1>17. ~raced' => Distinct'
  BY <1>1, <1>2, <1>11 DEF FInv, Ids, Distinct
<1> QED
  BY <1>13, <1>14, <1>15, <1>16, <1>17 DEF FInv, Ids

LEMMA MutatorDrawsKeeps == ASSUME FInv, MutatorDraws PROVE FInv'
<1>1. /\ mutator.at = "drawn" /\ Write(mutator.reg)
      /\ mutator' = [mutator EXCEPT !.at = "send", !.reg = 0, !.ev.id = mutator.reg]
      /\ UNCHANGED <<raced, orders, events, emitter, made, slumped, sent, askedFor>>
  BY DEF MutatorDraws, countVars, knobVars
<1>2. mutator \in Mutator /\ mutator.ev \in Event /\ mutator.reg \in Int
  BY <1>1 DEF FInv, FlowTyped, Placed, Mutator
<1>3. /\ mutator'.at = "send" /\ mutator'.reg = 0 /\ mutator'.ev = [mutator.ev EXCEPT !.id = mutator.reg]
  BY <1>1, <1>2 DEF Mutator
<1>4. /\ mutator'.ev \in Event /\ mutator'.ev.n = mutator.ev.n /\ mutator'.ev.shop = mutator.ev.shop
  BY <1>2, <1>3 DEF Event
<1>5. mutator' \in Mutator
  <2>1. mutator' = [at |-> "send", ev |-> mutator'.ev, reg |-> 0]
    BY <1>1, <1>2, <1>3 DEF Mutator
  <2> QED
    BY <1>4, <2>1 DEF Mutator
<1>6. idSeq' \in Int /\ issued' \in Seq(Int)
  BY <1>1, <1>2 DEF Write, FInv, FlowTyped
<1>7. FlowTyped'
  BY <1>1, <1>5, <1>6 DEF FInv, FlowTyped
<1>8. Placed' /\ InTurn'
  BY <1>1, <1>2, <1>3, <1>4, NoEventIsNone DEF FInv, Placed, InTurn, ShopOf
<1>9. Touched'
  BY <1>1 DEF FInv, Touched, ShopOf
<1>10. ASSUME ~raced PROVE Distinct'
  <2>1. mutator.reg = idSeq + 1 /\ emitter.at # "drawn"
    BY <1>1, <1>10 DEF FInv, Ids, Distinct
  <2>2. /\ \A i \in 1 .. Len(issued') : issued'[i] <= idSeq'
        /\ \A i, j \in 1 .. Len(issued') : issued'[i] = issued'[j] => i = j
    BY <1>1, <1>10, <2>1, WriteDistinct DEF FInv, FlowTyped, Ids, Distinct
  <2> QED
    BY <1>1, <1>3, <2>1, <2>2 DEF Distinct
<1> QED
  BY <1>1, <1>7, <1>8, <1>9, <1>10 DEF FInv, Ids

LEMMA MutatorSendsKeeps == ASSUME FInv, MutatorSends PROVE FInv'
<1>1. /\ mutator.at = "send"
      /\ RecordOrder(mutator.ev)
      /\ \/ HasRoom /\ events' = Append(events, mutator.ev)
         \/ events' = events
      /\ mutator' = [mutator EXCEPT !.at = "idle", !.ev = NoEvent]
      /\ UNCHANGED <<idSeq, issued, raced, emitter, made, slumped, sent, askedFor>>
  BY DEF MutatorSends, knobVars
<1>2. mutator \in Mutator /\ mutator.ev \in Event /\ mutator.ev.shop = ShopOf(mutator.ev.n)
  BY <1>1, NoEventIsNone DEF FInv, FlowTyped, Placed, InTurn, Mutator
<1>3. mutator'.at = "idle" /\ mutator'.ev = NoEvent /\ mutator' \in Mutator
  BY <1>1, <1>2 DEF Mutator
<1>4. orders' \in [Shops -> Seq(Order)]
  <2> DEFINE o == [n |-> mutator.ev.n, id |-> mutator.ev.id]
             all == Append(orders[mutator.ev.shop], o)
  <2>1. o \in Order /\ mutator.ev.shop \in Shops /\ orders \in [Shops -> Seq(Order)]
    <3>1. mutator.ev.n \in 1 .. MaxEvents /\ mutator.ev.id \in Int /\ mutator.ev.shop \in Shops
      BY <1>2 DEF Event
    <3>2. mutator.ev.n \in 0 .. MaxEvents
      BY <3>1, FlowAssumption
    <3> QED
      BY <3>1, <3>2 DEF Order, FInv, FlowTyped
  <2>2. all \in Seq(Order)
    BY <2>1
  <2> HIDE DEF all
  <2>3. Retained(all) \in Seq(Order)
    <3>1. CASE Len(all) > MaxRetained
      <4>1. Len(all) \in Nat /\ MaxRetained \in Nat \ {0}
        BY <2>2, FlowAssumption
      <4>2. \A i \in Len(all) - MaxRetained + 1 .. Len(all) : all[i] \in Order
        BY <2>2, <3>1, <4>1
      <4>3. SubSeq(all, Len(all) - MaxRetained + 1, Len(all)) \in Seq(Order)
        BY <2>2, <3>1, <4>1, <4>2
      <4> QED
        BY <3>1, <4>3 DEF Retained
    <3>2. CASE ~(Len(all) > MaxRetained)
      BY <2>2, <3>2 DEF Retained
    <3> QED
      BY <3>1, <3>2
  <2>4. orders' = orders \/ orders' = [orders EXCEPT ![mutator.ev.shop] = Retained(all)]
    BY <1>1, <2>1 DEF RecordOrder, all
  <2> QED
    BY <2>1, <2>3, <2>4
<1>5. events' \in Seq(Event) /\ Len(events') <= Room
      /\ \A i \in 1 .. Len(events') : events'[i].shop = ShopOf(events'[i].n)
  <2>1. CASE events' = events
    BY <2>1 DEF FInv, FlowTyped, Placed, InTurn
  <2>2. CASE HasRoom /\ events' = Append(events, mutator.ev)
    <3>1. events \in Seq(Event) /\ Len(events) < Room /\ Room \in Nat /\ Len(events) \in Nat
      BY <2>2, FlowAssumption DEF HasRoom, FInv, FlowTyped
    <3>2. /\ events' \in Seq(Event) /\ Len(events') = Len(events) + 1
          /\ \A i \in 1 .. Len(events') : events'[i] = mutator.ev \/ (i \in 1 .. Len(events) /\ events'[i] = events[i])
      BY <1>2, <2>2, <3>1
    <3> QED
      BY <1>2, <3>1, <3>2 DEF FInv, InTurn
  <2> QED
    BY <1>1, <2>1, <2>2
<1>6. FlowTyped'
  BY <1>1, <1>3, <1>4, <1>5 DEF FInv, FlowTyped
<1>7. Placed' /\ InTurn'
  BY <1>1, <1>3, <1>5 DEF FInv, Placed, InTurn, ShopOf
<1>8. Touched' /\ Ids'
  BY <1>1, <1>3 DEF FInv, Touched, Ids, Distinct, ShopOf
<1> QED
  BY <1>6, <1>7, <1>8 DEF FInv

LEMMA MutatorReturnsKeeps == ASSUME FInv, MutatorReturns PROVE FInv'
<1>1. /\ mutator.at = "idle" /\ mutator' = [mutator EXCEPT !.at = "gone"]
      /\ UNCHANGED <<idSeq, issued, raced, orders, events, emitter, made, slumped, sent, askedFor>>
  BY DEF MutatorReturns, storeVars, countVars, knobVars
<1>2. mutator'.at = "gone" /\ mutator'.ev = mutator.ev /\ mutator' \in Mutator
  BY <1>1 DEF FInv, FlowTyped, Mutator
<1>3. FlowTyped'
  BY <1>1, <1>2 DEF FInv, FlowTyped
<1>4. Placed' /\ InTurn'
  BY <1>1, <1>2 DEF FInv, Placed, InTurn, ShopOf
<1>5. Touched' /\ Ids'
  BY <1>1, <1>2 DEF FInv, Touched, Ids, Distinct, ShopOf
<1> QED
  BY <1>3, <1>4, <1>5 DEF FInv

-----------------------------------------------------------------------------
(* The emitter.                                                             *)
LEMMA ReceiveKeeps == ASSUME FInv, KInv, Receive PROVE FInv'
<1>1. /\ emitter.at = "idle" /\ events # <<>> /\ events' = Tail(events)
      /\ \/ /\ Slumps(Head(events)) /\ slumped' = slumped \cup {Head(events).n}
            /\ UNCHANGED emitter
         \/ /\ emitter' = [emitter EXCEPT !.at = "incident", !.ev = Head(events)]
            /\ UNCHANGED slumped
      /\ UNCHANGED <<idSeq, issued, raced, orders, mutator, made, sent, askedFor>>
  BY DEF Receive, storeVars, knobVars
<1>2. /\ Head(events) \in Event /\ Head(events).shop = ShopOf(Head(events).n)
  <2>1. events \in Seq(Event) /\ 1 \in 1 .. Len(events) /\ Head(events) = events[1]
    BY <1>1 DEF FInv, FlowTyped
  <2> QED
    BY <2>1 DEF FInv, InTurn
<1>3. /\ events' \in Seq(Event) /\ Len(events') <= Room
      /\ \A i \in 1 .. Len(events') : events'[i].shop = ShopOf(events'[i].n)
  <2>1. events \in Seq(Event) /\ Len(events) \in Nat /\ Len(events) <= Room /\ Room \in Nat
    BY FlowAssumption DEF FInv, FlowTyped, Placed
  <2>2. /\ events' \in Seq(Event) /\ Len(events') = Len(events) - 1
        /\ \A i \in 1 .. Len(events') : i + 1 \in 1 .. Len(events) /\ events'[i] = events[i + 1]
    BY <1>1, <2>1
  <2> QED
    BY <2>1, <2>2 DEF FInv, InTurn
<1>4. CASE Slumps(Head(events)) /\ slumped' = slumped \cup {Head(events).n} /\ UNCHANGED emitter
  <2>1. ShopOf(Head(events).n) \in askedFor["slump"]
    BY <1>2, <1>4 DEF Slumps, Active, KInv, KnobsAsked, Knobs
  <2>2. FlowTyped' /\ Placed'
    BY <1>1, <1>3, <1>4 DEF FInv, FlowTyped, Placed
  <2>3. InTurn'
    BY <1>1, <1>3, <1>4 DEF FInv, InTurn, ShopOf
  <2>4. Touched'
    BY <1>1, <1>4, <2>1 DEF FInv, Touched, ShopOf
  <2>5. Ids'
    BY <1>1, <1>4 DEF FInv, Ids, Distinct
  <2> QED
    BY <2>2, <2>3, <2>4, <2>5 DEF FInv
<1>5. CASE emitter' = [emitter EXCEPT !.at = "incident", !.ev = Head(events)] /\ UNCHANGED slumped
  <2>1. /\ emitter'.at = "incident" /\ emitter'.ev = Head(events) /\ emitter'.out = emitter.out
        /\ emitter' \in Emitter
    BY <1>2, <1>5 DEF FInv, FlowTyped, Emitter
  <2>2. FlowTyped'
    BY <1>1, <1>3, <1>5, <2>1 DEF FInv, FlowTyped
  <2>3. Placed'
    BY <1>1, <1>2, <1>3, <2>1, NoEventIsNone DEF FInv, Placed
  <2>4. InTurn'
    BY <1>1, <1>2, <1>3, <2>1 DEF FInv, InTurn, ShopOf
  <2>5. Touched'
    BY <1>1, <1>5, <2>1 DEF FInv, Touched, ShopOf
  <2>6. Ids'
    BY <1>1, <2>1 DEF FInv, Ids, Distinct
  <2> QED
    BY <2>2, <2>3, <2>4, <2>5, <2>6 DEF FInv
<1> QED
  BY <1>1, <1>4, <1>5

LEMMA HookTyped ==
    ASSUME NEW ev \in Event, NEW kind \in {"event", "declined", "cancelled", "refund"}
    PROVE  Hook(ev, kind) \in Hooks /\ Hook(ev, kind).kind = kind /\ Hook(ev, kind).shop = ev.shop
BY DEF Hook, Hooks, Event

LEMMA FanOutIs ==
    ASSUME NEW ev, NEW declined \in BOOLEAN, NEW cancel \in BOOLEAN
    PROVE  LET own == Hook(ev, IF declined THEN "declined" ELSE "event")
               out == FanOut(ev, declined, cancel)
           IN  /\ out \in Seq({own, Hook(ev, "cancelled")})
               /\ out # <<>> /\ Head(out) = own
               /\ \A i \in 1 .. Len(out) : out[i] = own \/ (cancel /\ out[i] = Hook(ev, "cancelled"))
               /\ \A i \in 2 .. Len(out) : out[i] = Hook(ev, "cancelled")
<1> DEFINE own == Hook(ev, IF declined THEN "declined" ELSE "event")
           out == FanOut(ev, declined, cancel)
           behind == Hook(ev, "cancelled")
           S == {own, behind}
           first == <<own>>
           second == <<behind>>
<1> SUFFICES /\ out \in Seq(S) /\ out # <<>> /\ Head(out) = own
             /\ \A i \in 1 .. Len(out) : out[i] = own \/ (cancel /\ out[i] = behind)
             /\ \A i \in 2 .. Len(out) : out[i] = behind
  OBVIOUS
<1>0. out = IF cancel THEN first \o second ELSE first
  <2>1. CASE cancel
    BY <2>1 DEF FanOut
  <2>2. CASE ~cancel
    <3>1. \A x : <<x>> \o << >> = <<x>>
      OBVIOUS
    <3>2. out = first \o << >>
      BY <2>2 DEF FanOut
    <3> QED
      BY <2>2, <3>1, <3>2, Zenon
  <2> QED
    BY <2>1, <2>2
<1> HIDE DEF own, behind, out
<1>1. first \in Seq(S) /\ Len(first) = 1 /\ first[1] = own /\ second \in Seq(S) /\ Len(second) = 1 /\ second[1] = behind
  OBVIOUS
<1>2. CASE cancel
  <2>1. out = first \o second
    BY <1>0, <1>2
  <2> HIDE DEF first, second, S
  <2>2. /\ first \o second \in Seq(S) /\ Len(first \o second) = Len(first) + Len(second)
        /\ \A i \in 1 .. Len(first) + Len(second) :
              (first \o second)[i] = IF i <= Len(first) THEN first[i] ELSE second[i - Len(first)]
    BY <1>1, ConcatProperties, Zenon
  <2>3. out \in Seq(S) /\ Len(out) = 2 /\ \A i \in 1 .. 2 : out[i] = IF i <= 1 THEN first[i] ELSE second[i - 1]
    BY <1>1, <2>1, <2>2
  <2>4. out[1] = own /\ out[2] = behind
    BY <1>1, <2>3
  <2>5. out # <<>>
    BY <2>3, EmptySeq
  <2>6. Head(out) = own
    BY <2>3, <2>4, <2>5
  <2>7. \A i \in 1 .. Len(out) : i = 1 \/ i = 2
    BY <2>3
  <2>8. \A i \in 1 .. Len(out) : IF i = 1 THEN out[i] = own ELSE out[i] = behind
    BY <2>4, <2>7
  <2>9. \A i \in 1 .. Len(out) : out[i] = own \/ out[i] = behind
    BY <2>8
  <2> QED
    BY <1>2, <2>3, <2>5, <2>6, <2>8, <2>9 DEF S
<1>3. CASE ~cancel
  <2>1. out = <<own>>
    BY <1>0, <1>3
  <2> QED
    BY <1>1, <2>1
<1> QED
  BY <1>2, <1>3

LEMMA CheckIncidentKeeps ==
    ASSUME FInv, KInv, NEW declined \in BOOLEAN, NEW cancel \in BOOLEAN, NEW refund \in BOOLEAN,
           CheckIncident(declined, cancel, refund)
    PROVE  FInv'
<1> DEFINE ev == emitter.ev
           own == Hook(ev, IF declined THEN "declined" ELSE "event")
           out == FanOut(ev, declined, cancel)
           at == IF refund THEN "drawn" ELSE "post"
           reg == IF refund THEN idSeq + 1 ELSE 0
<1>1. /\ emitter.at = "incident"
      /\ declined => Melts(ev)
      /\ (cancel \/ refund) => Melts(ev)
      /\ emitter' = [emitter EXCEPT !.out = out, !.at = at, !.reg = reg]
      /\ raced' = (raced \/ (refund /\ mutator.at = "drawn"))
      /\ UNCHANGED <<idSeq, issued, orders, events, mutator, made, slumped, sent, askedFor>>
  BY DEF CheckIncident, countVars, knobVars
<1>2. emitter \in Emitter /\ ev \in Event /\ ev.shop = ShopOf(ev.n)
  BY <1>1, NoEventIsNone DEF FInv, FlowTyped, Placed, InTurn, Emitter
<1>3. (declined \/ cancel \/ refund) => ev.shop \in askedFor["meltdown"]
  BY <1>1 DEF Melts, Active, KInv, KnobsAsked, Knobs
<1>4. /\ own \in Hooks /\ own.shop = ev.shop /\ (~declined => own.kind = "event")
      /\ Hook(ev, "cancelled") \in Hooks /\ Hook(ev, "cancelled").shop = ev.shop
  BY <1>2, HookTyped
<1>5. /\ out \in Seq(Hooks) /\ out # <<>>
      /\ \A i \in 1 .. Len(out) : out[i] = own \/ (cancel /\ out[i] = Hook(ev, "cancelled"))
  <2>1. /\ out \in Seq({own, Hook(ev, "cancelled")}) /\ out # <<>>
        /\ \A i \in 1 .. Len(out) : out[i] = own \/ (cancel /\ out[i] = Hook(ev, "cancelled"))
    BY FanOutIs
  <2> HIDE DEF own, out
  <2> QED
    BY <1>4, <2>1
<1>6. \A i \in 1 .. Len(out) : out[i].kind # "event" => out[i].shop \in askedFor["meltdown"]
  BY <1>3, <1>4, <1>5
<1>7. at \in {"drawn", "post"} /\ reg \in Int
  BY DEF FInv, FlowTyped
<1>8. at = "drawn" => refund /\ reg = idSeq + 1
  OBVIOUS
<1> HIDE DEF own, out, at, reg
<1>9. emitter'.out = out /\ emitter'.at = at /\ emitter'.reg = reg /\ emitter'.ev = ev
  BY <1>1, <1>2 DEF Emitter
<1>10. emitter' \in Emitter
  BY <1>1, <1>2, <1>5, <1>7 DEF Emitter
<1>11. FlowTyped'
  BY <1>1, <1>10 DEF FInv, FlowTyped
<1>12. Placed' /\ InTurn'
  BY <1>1, <1>2, <1>5, <1>7, <1>9, NoEventIsNone DEF FInv, Placed, InTurn, ShopOf
<1>13. Touched'
  BY <1>1, <1>3, <1>6, <1>8, <1>9 DEF FInv, Touched, ShopOf
<1>14. raced' => askedFor'["meltdown"] # {}
  BY <1>1, <1>3 DEF FInv, Ids
<1>15. ~raced' => Distinct'
  BY <1>1, <1>8, <1>9 DEF FInv, Ids, Distinct
<1> QED
  BY <1>11, <1>12, <1>13, <1>14, <1>15 DEF FInv, Ids

LEMMA EmitterDrawsKeeps == ASSUME FInv, EmitterDraws PROVE FInv'
<1> DEFINE hook == Hook(emitter.ev, "refund")
<1>1. /\ emitter.at = "drawn" /\ Write(emitter.reg)
      /\ emitter' = [emitter EXCEPT !.at = "post", !.reg = 0, !.out = Append(emitter.out, hook)]
      /\ UNCHANGED <<raced, orders, events, mutator, made, slumped, sent, askedFor>>
  BY DEF EmitterDraws, countVars, knobVars
<1>2. emitter \in Emitter /\ emitter.ev \in Event /\ emitter.reg \in Int /\ emitter.out \in Seq(Hooks)
  BY <1>1 DEF FInv, FlowTyped, Placed, Emitter
<1>3. hook \in Hooks /\ hook.shop = emitter.ev.shop
  BY <1>2, HookTyped
<1> HIDE DEF hook
<1>4. /\ emitter'.at = "post" /\ emitter'.ev = emitter.ev /\ emitter'.out = Append(emitter.out, hook)
  BY <1>1, <1>2 DEF Emitter
<1>5. /\ emitter'.out \in Seq(Hooks) /\ emitter'.out # <<>>
      /\ \A i \in 1 .. Len(emitter'.out) :
            (emitter'.out[i] = hook) \/ (i \in 1 .. Len(emitter.out) /\ emitter'.out[i] = emitter.out[i])
  BY <1>2, <1>3, <1>4
<1>6. emitter' \in Emitter
  <2>1. emitter' = [at |-> "post", ev |-> emitter.ev, reg |-> 0, out |-> emitter'.out]
    BY <1>1, <1>2, <1>4 DEF Emitter
  <2> QED
    BY <1>2, <1>5, <2>1 DEF Emitter
<1>7. idSeq' \in Int /\ issued' \in Seq(Int)
  BY <1>1, <1>2 DEF Write, FInv, FlowTyped
<1>8. FlowTyped'
  BY <1>1, <1>6, <1>7 DEF FInv, FlowTyped
<1>9. Placed' /\ InTurn'
  BY <1>1, <1>4, <1>5 DEF FInv, Placed, InTurn, ShopOf
<1>10. Touched'
  <2>1. emitter.ev.shop \in askedFor["meltdown"]
    BY <1>1 DEF FInv, Touched
  <2>2. \A i \in 1 .. Len(emitter'.out) :
          emitter'.out[i].kind # "event" => emitter'.out[i].shop \in askedFor["meltdown"]
    BY <1>3, <1>5, <2>1 DEF FInv, Touched
  <2> QED
    BY <1>1, <1>4, <2>2 DEF FInv, Touched, ShopOf
<1>11. ASSUME ~raced PROVE Distinct'
  <2>1. emitter.reg = idSeq + 1 /\ mutator.at # "drawn"
    BY <1>1, <1>11 DEF FInv, Ids, Distinct
  <2>2. /\ \A i \in 1 .. Len(issued') : issued'[i] <= idSeq'
        /\ \A i, j \in 1 .. Len(issued') : issued'[i] = issued'[j] => i = j
    BY <1>1, <1>11, <2>1, WriteDistinct DEF FInv, FlowTyped, Ids, Distinct
  <2> QED
    BY <1>1, <1>4, <2>1, <2>2 DEF Distinct
<1> QED
  BY <1>1, <1>8, <1>9, <1>10, <1>11 DEF FInv, Ids

LEMMA DeliverKeeps == ASSUME FInv, Deliver PROVE FInv'
<1>1. /\ emitter.at = "post" /\ sent' = Append(sent, Head(emitter.out))
      /\ emitter' = IF Len(emitter.out) = 1 THEN Resting ELSE [emitter EXCEPT !.out = Tail(emitter.out)]
      /\ UNCHANGED <<idSeq, issued, raced, orders, events, mutator, made, slumped, askedFor>>
  BY DEF Deliver, storeVars, knobVars
<1>2. /\ emitter \in Emitter /\ emitter.ev \in Event /\ emitter.ev # NoEvent
      /\ emitter.out \in Seq(Hooks) /\ emitter.out # <<>>
  BY <1>1 DEF FInv, FlowTyped, Placed, Emitter
<1>3. /\ 1 \in 1 .. Len(emitter.out) /\ Head(emitter.out) = emitter.out[1] /\ Head(emitter.out) \in Hooks
  BY <1>2
<1>4. /\ sent' \in Seq(Hooks)
      /\ \A i \in 1 .. Len(sent') : sent'[i].kind # "event" => sent'[i].shop \in askedFor["meltdown"]
  <2>1. sent \in Seq(Hooks)
    BY DEF FInv, FlowTyped
  <2>2. /\ sent' \in Seq(Hooks)
        /\ \A i \in 1 .. Len(sent') : sent'[i] = emitter.out[1] \/ (i \in 1 .. Len(sent) /\ sent'[i] = sent[i])
    BY <1>1, <1>3, <2>1
  <2> QED
    BY <1>3, <2>2 DEF FInv, Touched
<1>5. CASE Len(emitter.out) = 1
  <2>1. emitter' = Resting
    BY <1>1, <1>5
  <2>2. /\ emitter'.at = "idle" /\ emitter'.ev = NoEvent /\ emitter'.out = <<>> /\ emitter' \in Emitter
    BY <2>1 DEF Resting, Emitter
  <2>3. FlowTyped'
    BY <1>1, <1>4, <2>2 DEF FInv, FlowTyped
  <2>4. Placed' /\ InTurn'
    BY <1>1, <2>2 DEF FInv, Placed, InTurn, ShopOf
  <2>5. Touched' /\ Ids'
    BY <1>1, <1>4, <2>2 DEF FInv, Touched, Ids, Distinct, ShopOf
  <2> QED
    BY <2>3, <2>4, <2>5 DEF FInv
<1>6. CASE Len(emitter.out) # 1
  <2>1. emitter' = [emitter EXCEPT !.out = Tail(emitter.out)]
    BY <1>1, <1>6
  <2>2. /\ Tail(emitter.out) \in Seq(Hooks) /\ Tail(emitter.out) # <<>>
        /\ \A i \in 1 .. Len(Tail(emitter.out)) :
              i + 1 \in 1 .. Len(emitter.out) /\ Tail(emitter.out)[i] = emitter.out[i + 1]
    <3>1. Len(emitter.out) \in Nat /\ Len(emitter.out) > 1
      <4>1. Len(emitter.out) \in Nat \ {0}
        BY <1>2, EmptySeq, Zenon
      <4>2. \A n \in Nat \ {0} : n # 1 => n \in Nat /\ n > 1
        OBVIOUS
      <4> QED
        BY <1>6, <4>1, <4>2, Zenon
    <3>2. Tail(emitter.out) \in Seq(Hooks) /\ Len(Tail(emitter.out)) = Len(emitter.out) - 1
      BY <1>2
    <3>3. \A i \in 1 .. Len(Tail(emitter.out)) : Tail(emitter.out)[i] = emitter.out[i + 1]
      BY <1>2, HeadTailProperties
    <3>4. Len(Tail(emitter.out)) # 0 /\ Tail(emitter.out) # <<>>
      <4>1. \A n \in Nat : n > 1 => n - 1 # 0
        OBVIOUS
      <4>2. Len(Tail(emitter.out)) # 0
        BY <3>1, <3>2, <4>1, Zenon
      <4> QED
        BY <4>2, EmptySeq, Zenon
    <3>5. \A i \in 1 .. Len(Tail(emitter.out)) : i + 1 \in 1 .. Len(emitter.out)
      BY <3>1, <3>2
    <3> QED
      BY <3>2, <3>3, <3>4, <3>5
  <2>3. /\ emitter'.at = "post" /\ emitter'.ev = emitter.ev /\ emitter'.out = Tail(emitter.out)
        /\ emitter' \in Emitter
    BY <1>1, <1>2, <2>1, <2>2 DEF Emitter
  <2>4. FlowTyped'
    BY <1>1, <1>4, <2>3 DEF FInv, FlowTyped
  <2>5. Placed' /\ InTurn'
    BY <1>1, <1>2, <2>2, <2>3 DEF FInv, Placed, InTurn, ShopOf
  <2>6. Touched'
    BY <1>1, <1>4, <2>2, <2>3 DEF FInv, Touched, ShopOf
  <2>7. Ids'
    BY <1>1, <2>3 DEF FInv, Ids, Distinct
  <2> QED
    BY <2>4, <2>5, <2>6, <2>7 DEF FInv
<1> QED
  BY <1>5, <1>6

LEMMA EmitterReturnsKeeps == ASSUME FInv, EmitterReturns PROVE FInv'
<1>1. /\ emitter.at = "idle" /\ emitter' = [emitter EXCEPT !.at = "gone"]
      /\ UNCHANGED <<idSeq, issued, raced, orders, events, mutator, made, slumped, sent, askedFor>>
  BY DEF EmitterReturns, storeVars, countVars, knobVars
<1>2. emitter'.at = "gone" /\ emitter'.ev = emitter.ev /\ emitter'.out = emitter.out /\ emitter' \in Emitter
  BY <1>1 DEF FInv, FlowTyped, Emitter
<1>3. FlowTyped'
  BY <1>1, <1>2 DEF FInv, FlowTyped
<1>4. Placed' /\ InTurn'
  BY <1>1, <1>2 DEF FInv, Placed, InTurn, ShopOf
<1>5. Touched' /\ Ids'
  BY <1>1, <1>2 DEF FInv, Touched, Ids, Distinct, ShopOf
<1> QED
  BY <1>3, <1>4, <1>5 DEF FInv

-----------------------------------------------------------------------------
LEMMA InitFlow == Init => FInv
<1> SUFFICES ASSUME Init PROVE FInv
  OBVIOUS
<1>1. /\ orders = [s \in Shops |-> Seeds(IndexOf(s))]
      /\ idSeq = SeedOrders * Len(ShopOrder) /\ issued = [i \in 1 .. idSeq |-> i] /\ raced = FALSE
      /\ events = <<>> /\ sent = <<>> /\ made = 0 /\ slumped = {}
      /\ mutator = [at |-> "idle", ev |-> NoEvent, reg |-> 0] /\ emitter = Resting
  BY DEF Init
<1>2. /\ ShopOrder \in Seq(Shops) /\ Len(ShopOrder) \in Nat /\ Shops = {ShopOrder[i] : i \in 1 .. Len(ShopOrder)}
      /\ SeedOrders \in Nat /\ MaxEvents \in Nat /\ Room \in Nat
  BY FlowAssumption DEF ToSet
<1>3. ASSUME NEW s \in Shops PROVE Seeds(IndexOf(s)) \in Seq(Order)
  <2>1. IndexOf(s) \in Int
    <3>1. \E i \in 1 .. Len(ShopOrder) : ShopOrder[i] = s
      BY <1>2
    <3>2. IndexOf(s) \in 1 .. Len(ShopOrder)
      BY <3>1 DEF IndexOf
    <3> QED
      BY <1>2, <3>2
  <2> DEFINE id(j) == (IndexOf(s) - 1) * SeedOrders + j
  <2>2. \A j \in 1 .. SeedOrders : id(j) \in Int
    BY <1>2, <2>1
  <2> HIDE DEF id
  <2>3. \A j \in 1 .. SeedOrders : [n |-> 0, id |-> id(j)] \in Order
    BY <1>2, <2>2 DEF Order
  <2>4. Seeds(IndexOf(s)) = [j \in 1 .. SeedOrders |-> [n |-> 0, id |-> id(j)]]
    BY DEF Seeds, id
  <2> QED
    BY <1>2, <2>3, <2>4
<1>4. orders \in [Shops -> Seq(Order)]
  BY <1>1, <1>3
<1>5. idSeq \in Nat
  BY <1>1, <1>2
<1>6. issued \in Seq(Int) /\ Len(issued) = idSeq /\ \A i \in 1 .. idSeq : issued[i] = i
  BY <1>1, <1>5
<1>7. mutator \in Mutator /\ emitter \in Emitter
  BY <1>1 DEF Mutator, Emitter, Resting
<1>8. FlowTyped
  <2>1. events \in Seq(Event) /\ sent \in Seq(Hooks)
    BY <1>1, EmptySeq, Zenon
  <2>2. made \in 0 .. MaxEvents /\ raced \in BOOLEAN /\ idSeq \in Int
    <3>1. 0 \in 0 .. MaxEvents
      BY FlowAssumption
    <3>2. idSeq \in Int
      BY <1>5
    <3> QED
      BY <1>1, <3>1, <3>2, Zenon
  <2> QED
    BY <1>4, <1>6, <1>7, <2>1, <2>2 DEF FlowTyped
<1>9. Placed /\ InTurn /\ Touched
  BY <1>1, <1>2 DEF Placed, InTurn, Touched, Resting
<1>10. Ids
  BY <1>1, <1>5, <1>6 DEF Ids, Distinct, Resting
<1> QED
  BY <1>8, <1>9, <1>10 DEF FInv

LEMMA InvInit == Init => KInv /\ FInv
BY InitK, InitFlow DEF Init

LEMMA InvNext == KInv /\ FInv /\ [Next]_vars => KInv' /\ FInv'
<1> SUFFICES ASSUME KInv, FInv, [Next]_vars PROVE KInv' /\ FInv'
  OBVIOUS
<1>1. UNCHANGED knobVars => KInv'
  BY DEF knobVars, KInv, KnobsTyped, KnobsAsked, Doomed
<1>2. CASE Mutates
  <2>1. CASE Emits
    <3>1. PICK t \in Topics, o \in {NoOrder} \cup UNION {ToSet(orders[s]) : s \in Shops} : Emit(t, o)
      BY <2>1 DEF Emits
    <3>2. UNCHANGED knobVars
      BY <3>1 DEF Emit
    <3> QED
      BY <1>1, <3>1, <3>2, EmitKeeps
  <2>2. CASE MutatorDraws
    BY <1>1, <2>2, MutatorDrawsKeeps DEF MutatorDraws
  <2>3. CASE MutatorSends
    BY <1>1, <2>3, MutatorSendsKeeps DEF MutatorSends
  <2>4. CASE MutatorReturns
    BY <1>1, <2>4, MutatorReturnsKeeps DEF MutatorReturns
  <2> QED
    BY <1>2, <2>1, <2>2, <2>3, <2>4 DEF Mutates
<1>3. CASE Handles
  <2>1. UNCHANGED knobVars
    BY <1>3 DEF Handles, Receive, CheckIncident
  <2> QED
    BY <1>1, <1>3, <2>1, ReceiveKeeps, CheckIncidentKeeps DEF Handles
<1>4. CASE Posts
  <2>1. UNCHANGED knobVars
    BY <1>4 DEF Posts, EmitterDraws, Deliver, EmitterReturns
  <2> QED
    BY <1>1, <1>4, <2>1, EmitterDrawsKeeps, DeliverKeeps, EmitterReturnsKeeps DEF Posts
<1>5. CASE Cancel
  <2>1. UNCHANGED <<knobVars, idSeq, issued, raced, orders, events, mutator, emitter, made, slumped, sent>>
    BY <1>5 DEF Cancel, storeVars, countVars
  <2>2. UNCHANGED askedFor
    BY <2>1 DEF knobVars
  <2>3. FlowTyped' /\ Placed' /\ InTurn'
    BY <2>1 DEF FInv, FlowTyped, Placed, InTurn, ShopOf
  <2>4. Touched' /\ Ids'
    BY <2>1, <2>2 DEF FInv, Touched, Ids, Distinct, ShopOf
  <2> QED
    BY <1>1, <2>1, <2>3, <2>4 DEF FInv
<1>6. CASE KnobNext /\ UNCHANGED flowVars
  BY <1>6, KnobStep, FlowRests
<1>7. CASE UNCHANGED vars
  <2>1. UNCHANGED flowVars /\ UNCHANGED knobVars /\ UNCHANGED askedFor
    BY <1>7 DEF vars, knobVars
  <2> QED
    BY <1>1, <2>1, FlowRests
<1> QED
  BY <1>2, <1>3, <1>4, <1>5, <1>6, <1>7 DEF Next

THEOREM ShopInvariant == Spec => [](KInv /\ FInv)
<1> QED
  BY InvInit, InvNext, PTL DEF Spec

-----------------------------------------------------------------------------
(* The mutator and the emitter are always somewhere their code can be,      *)
(* with an event in hand exactly where the code holds one, and what goes    *)
(* out is the payload of an event that was made, for a shop there is.       *)
THEOREM ShopTypeCorrect == Spec => []TypeOK
<1>1. FInv => TypeOK
  <2> SUFFICES ASSUME FInv PROVE TypeOK
    OBVIOUS
  <2>1. /\ mutator.at \in {"idle", "drawn", "send", "gone"}
        /\ emitter.at \in {"idle", "incident", "drawn", "post", "gone"}
        /\ emitter.out \in Seq(Hooks) /\ sent \in Seq(Hooks)
    BY DEF FInv, FlowTyped, Mutator, Emitter
  <2>2. {emitter.out[i] : i \in DOMAIN emitter.out} \cup ToSet(sent) \subseteq Hooks
    BY <2>1 DEF ToSet
  <2> QED
    BY <2>1, <2>2 DEF FInv, Placed, TypeOK
<1> QED
  BY ShopInvariant, <1>1, PTL

(* emitter.go looks at an incident twice, before and after it has taken     *)
(* an event, while clients and goroutines switch it: all the same no shop's *)
(* webhook is altered and none suppressed unless somebody asked for that    *)
(* incident in that shop.                                                   *)
THEOREM IncidentsStayHome == Spec => []OnlyTheAsked
<1>1. FInv => OnlyTheAsked
  <2> SUFFICES ASSUME FInv PROVE OnlyTheAsked
    OBVIOUS
  <2>1. emitter.out \in Seq(Hooks) /\ sent \in Seq(Hooks)
    BY DEF FInv, FlowTyped, Emitter
  <2>2. \A h \in ToSet(sent) \cup ToSet(emitter.out) : h.kind # "event" => h.shop \in askedFor["meltdown"]
    BY <2>1 DEF FInv, Touched, ToSet
  <2> QED
    BY <2>2 DEF FInv, Touched, ShopOf, OnlyTheAsked
<1> QED
  BY ShopInvariant, <1>1, PTL

(* idSeq is read and written with no lock (store.go:213), by the mutator    *)
(* and by the emitter's refunds.  However the draws interleave, two objects *)
(* share an id only after an overlap of the two, and never while nobody has *)
(* asked for a payment meltdown.                                            *)
THEOREM OnlyRefundsCollide == Spec => []DuplicateBlamesRefund
<1>1. FInv => DuplicateBlamesRefund
  <2> SUFFICES ASSUME FInv PROVE DuplicateBlamesRefund
    OBVIOUS
  <2>1. issued \in Seq(Int) /\ DOMAIN issued = 1 .. Len(issued)
    BY DEF FInv, FlowTyped
  <2>2. ASSUME NEW i \in DOMAIN issued, NEW j \in DOMAIN issued, i < j, issued[i] = issued[j]
        PROVE  raced
    <3>1. i # j
      BY <2>1, <2>2
    <3> QED
      BY <2>1, <2>2, <3>1 DEF FInv, Ids, Distinct
  <2> QED
    BY <2>2 DEF FInv, Ids, DuplicateBlamesRefund
<1> QED
  BY ShopInvariant, <1>1, PTL

(* A duration below a nanosecond, or beyond an int64 of them, enables an    *)
(* incident that does not expire by itself (incident.go:60).  There is      *)
(* always a goroutine, due already, that is about to disable it, whatever   *)
(* is asked for and cancelled meanwhile; and only for a negative duration   *)
(* do the status page and the emitter disagree on whether it is on.         *)
THEOREM UnlimitedEnds == Spec => []UnlimitedIsBrief
<1> QED
  BY ShopInvariant, DoomedIsBrief, PTL

-----------------------------------------------------------------------------
(* The number of the last event that has left the mutator's hands.          *)
Behind == IF mutator.ev = NoEvent THEN made ELSE made - 1

(* The emitter has an event whose own webhook is still to be posted.        *)
Waiting == emitter.ev # NoEvent /\ (emitter.out # <<>> => Own(Head(emitter.out)))

(* Events pass the stations in the order of their numbers.                  *)
Numbered ==
    /\ mutator.ev # NoEvent => mutator.ev.n = made
    /\ \A i \in 1 .. Len(events) : events[i].n <= Behind
    /\ \A i, j \in 1 .. Len(events) : i < j => events[i].n < events[j].n
    /\ emitter.ev # NoEvent => emitter.ev.n <= Behind /\ \A i \in 1 .. Len(events) : emitter.ev.n < events[i].n
    /\ \A n \in dropped : n \in 1 .. Behind
    /\ \A n \in slumped :
          /\ n \in 1 .. Behind
          /\ \A i \in 1 .. Len(events) : n < events[i].n
          /\ emitter.ev # NoEvent => n < emitter.ev.n
    /\ \A j \in 1 .. Len(sent) :
          /\ sent[j].n <= Behind
          /\ \A i \in 1 .. Len(events) : sent[j].n < events[i].n
          /\ emitter.ev # NoEvent => sent[j].n <= emitter.ev.n

(* What was dropped or suppressed is nowhere else.                          *)
Apart ==
    /\ \A n \in dropped :
          /\ n \notin slumped
          /\ \A i \in 1 .. Len(events) : events[i].n # n
          /\ emitter.ev # NoEvent => emitter.ev.n # n
          /\ \A j \in 1 .. Len(sent) : sent[j].n # n
    /\ \A n \in slumped : \A j \in 1 .. Len(sent) : sent[j].n # n

(* The event's own webhook has been posted.                                 *)
Posted(n) == \E j \in 1 .. Len(sent) : sent[j].n = n /\ Own(sent[j])

(* What has left the mutator's hands is somewhere.                          *)
Somewhere ==
    \A n \in 1 .. Behind :
        \/ n \in dropped \/ n \in slumped
        \/ \E i \in 1 .. Len(events) : events[i].n = n
        \/ emitter.ev # NoEvent /\ emitter.ev.n = n
        \/ Posted(n)

(* An event's own webhook is posted first, the others right behind it.      *)
Fanned ==
    emitter.ev # NoEvent =>
        /\ \A i \in 1 .. Len(emitter.out) : emitter.out[i].n = emitter.ev.n /\ (i > 1 => ~Own(emitter.out[i]))
        /\ Waiting => \A j \in 1 .. Len(sent) : sent[j].n < emitter.ev.n
        /\ ~Waiting => /\ Posted(emitter.ev.n)
                       /\ Len(sent) > 0 /\ sent[Len(sent)].n = emitter.ev.n

Sorted ==
    /\ \A i, j \in 1 .. Len(sent) :
          i < j => sent[i].n < sent[j].n \/ (sent[i].n = sent[j].n /\ ~Own(sent[j]))
    /\ \A j \in 1 .. Len(sent) : ~Own(sent[j]) => j > 1 /\ sent[j - 1].n = sent[j].n

QInv == Numbered /\ Apart /\ Somewhere /\ Fanned /\ Sorted

-----------------------------------------------------------------------------
LEMMA NumbersAreNat ==
    ASSUME FInv
    PROVE  /\ made \in Nat /\ mutator.ev.n \in Nat /\ emitter.ev.n \in Nat
           /\ Len(events) \in Nat /\ Len(sent) \in Nat /\ Len(emitter.out) \in Nat
           /\ events \in Seq(Event) /\ sent \in Seq(Hooks) /\ emitter.out \in Seq(Hooks)
           /\ \A i \in 1 .. Len(events) : events[i].n \in Nat
           /\ \A j \in 1 .. Len(sent) : sent[j].n \in Nat
           /\ \A k \in 1 .. Len(emitter.out) : emitter.out[k].n \in Nat
<1>1. MaxEvents \in Nat
  BY FlowAssumption
<1>2. \A e \in Event : e.n \in Nat
  BY <1>1 DEF Event
<1>3. \A h \in Hooks : h.n \in Nat
  BY <1>1 DEF Hooks
<1>4. events \in Seq(Event) /\ sent \in Seq(Hooks) /\ emitter.out \in Seq(Hooks)
  BY DEF FInv, FlowTyped, Emitter
<1>5. mutator.ev \in Event \cup {NoEvent} /\ emitter.ev \in Event \cup {NoEvent}
  BY DEF FInv, FlowTyped, Mutator, Emitter
<1>6. made \in Nat /\ NoEvent.n = 0
  BY <1>1 DEF FInv, FlowTyped, NoEvent
<1> QED
  BY <1>2, <1>3, <1>4, <1>5, <1>6

(* Nothing moves between the stations.                                      *)
LEMMA QRests ==
    ASSUME QInv, Behind' = Behind, mutator'.ev # NoEvent => mutator'.ev.n = made',
           UNCHANGED <<events, dropped, slumped, sent>>, emitter'.ev = emitter.ev, emitter'.out = emitter.out
    PROVE  QInv'
<1>1. Waiting' <=> Waiting
  BY DEF Waiting, Own
<1>2. \A n : Posted(n)' <=> Posted(n)
  BY DEF Posted, Own
<1>3. Numbered'
  BY DEF QInv, Numbered
<1>4. Apart'
  BY DEF QInv, Apart
<1>5. Somewhere'
  BY <1>2 DEF QInv, Somewhere
<1>6. Fanned'
  BY <1>1, <1>2 DEF QInv, Fanned, Own
<1>7. Sorted'
  BY DEF QInv, Sorted, Own
<1> QED
  BY <1>3, <1>4, <1>5, <1>6, <1>7 DEF QInv

LEMMA InitQ == Init => QInv
<1> SUFFICES ASSUME Init PROVE QInv
  OBVIOUS
<1>1. /\ events = <<>> /\ sent = <<>> /\ made = 0 /\ dropped = {} /\ slumped = {}
      /\ mutator.ev = NoEvent /\ emitter.ev = NoEvent
  BY DEF Init, Resting
<1>2. Behind = 0 /\ Len(events) = 0 /\ Len(sent) = 0
  BY <1>1 DEF Behind
<1> QED
  BY <1>1, <1>2 DEF QInv, Numbered, Apart, Somewhere, Fanned, Sorted

LEMMA EmitOrders ==
    ASSUME FInv, QInv, NEW topic \in Topics,
           NEW o \in {NoOrder} \cup UNION {ToSet(orders[s]) : s \in Shops}, Emit(topic, o)
    PROVE  QInv'
<1>1. /\ mutator.at = "idle" /\ made' = made + 1 /\ mutator'.ev.n = made + 1
      /\ UNCHANGED <<events, emitter, dropped, slumped, sent>>
  BY DEF Emit
<1>2. mutator.ev = NoEvent /\ mutator'.ev # NoEvent /\ made \in Nat
  BY <1>1, NumbersAreNat DEF FInv, Placed, NoEvent
<1>3. Behind' = Behind
  BY <1>1, <1>2 DEF Behind
<1> QED
  BY <1>1, <1>3, QRests

LEMMA MutatorDrawsOrders == ASSUME FInv, QInv, MutatorDraws PROVE QInv'
<1>1. /\ mutator.at = "drawn" /\ mutator' = [mutator EXCEPT !.at = "send", !.reg = 0, !.ev.id = mutator.reg]
      /\ UNCHANGED <<events, emitter, made, dropped, slumped, sent>>
  BY DEF MutatorDraws, countVars
<1>2. mutator \in Mutator /\ mutator.ev \in Event /\ mutator.ev # NoEvent /\ mutator.reg \in Int
  BY <1>1, NoEventIsNone DEF FInv, FlowTyped, Placed, Mutator
<1>3. mutator'.ev = [mutator.ev EXCEPT !.id = mutator.reg]
  BY <1>1, <1>2 DEF Mutator
<1>4. mutator'.ev.n = mutator.ev.n /\ mutator'.ev \in Event
  BY <1>2, <1>3 DEF Event
<1>5. mutator'.ev # NoEvent
  BY <1>4, NoEventIsNone
<1>6. Behind' = Behind /\ mutator'.ev.n = made'
  BY <1>1, <1>2, <1>4, <1>5 DEF Behind, QInv, Numbered
<1> QED
  BY <1>1, <1>6, QRests

LEMMA MutatorSendsOrders == ASSUME FInv, QInv, MutatorSends PROVE QInv'
<1>1. /\ mutator.at = "send" /\ mutator' = [mutator EXCEPT !.at = "idle", !.ev = NoEvent]
      /\ \/ events' = Append(events, mutator.ev) /\ UNCHANGED dropped
         \/ dropped' = dropped \cup {mutator.ev.n} /\ UNCHANGED events
      /\ UNCHANGED <<emitter, made, slumped, sent>>
  BY DEF MutatorSends
<1>2. mutator \in Mutator /\ mutator.ev \in Event /\ mutator.ev # NoEvent /\ mutator'.ev = NoEvent
  BY <1>1, NoEventIsNone DEF FInv, FlowTyped, Placed, Mutator
<1>3. mutator.ev.n = made /\ Behind = made - 1 /\ Behind' = made /\ made \in Nat /\ made > 0
  <2>1. mutator.ev.n \in 1 .. MaxEvents /\ MaxEvents \in Nat
    BY <1>2, FlowAssumption DEF Event
  <2> QED
    BY <1>1, <1>2, <2>1 DEF Behind, QInv, Numbered
<1>4. /\ Waiting' <=> Waiting
      /\ \A n : Posted(n)' <=> Posted(n)
  BY <1>1 DEF Waiting, Posted, Own
<1>5. Fanned' /\ Sorted'
  BY <1>1, <1>4 DEF QInv, Fanned, Sorted, Own
<1>6. CASE events' = Append(events, mutator.ev) /\ UNCHANGED dropped
  <2>1. /\ Len(events') = Len(events) + 1 /\ Len(events) \in Nat /\ events'[Len(events) + 1].n = made
        /\ \A i \in 1 .. Len(events) : events'[i] = events[i] /\ events[i].n \in Nat /\ events[i].n < made
    BY <1>2, <1>3, <1>6, NumbersAreNat DEF QInv, Numbered
  <2>2. \A i \in 1 .. Len(events') : i = Len(events) + 1 \/ i \in 1 .. Len(events)
    BY <2>1
  <2>3. emitter.ev # NoEvent => emitter.ev.n < made
    BY <1>3, NumbersAreNat DEF QInv, Numbered
  <2>4. \A n \in dropped \cup slumped : n \in 1 .. made /\ n < made
    BY <1>3 DEF QInv, Numbered
  <2>5. \A j \in 1 .. Len(sent) : sent[j].n < made
    BY <1>3, NumbersAreNat DEF QInv, Numbered
  <2>6. Numbered'
    BY <1>1, <1>2, <1>3, <1>6, <2>1, <2>2, <2>3, <2>4, <2>5, NumbersAreNat DEF QInv, Numbered
  <2>7. Apart'
    BY <1>1, <1>6, <2>1, <2>2, <2>4 DEF QInv, Apart
  <2>8. Somewhere'
    <3>1. \A n \in 1 .. made : n = made \/ n \in 1 .. Behind
      BY <1>3
    <3>2. Len(events) + 1 \in 1 .. Len(events') /\ \A i \in 1 .. Len(events) : i \in 1 .. Len(events')
      BY <2>1
    <3> QED
      BY <1>1, <1>3, <1>4, <1>6, <2>1, <3>1, <3>2 DEF QInv, Somewhere
  <2> QED
    BY <1>5, <2>6, <2>7, <2>8 DEF QInv
<1>7. CASE dropped' = dropped \cup {mutator.ev.n} /\ UNCHANGED events
  <2>1. Numbered'
    BY <1>1, <1>2, <1>3, <1>7, NumbersAreNat DEF QInv, Numbered
  <2>2. Apart'
    BY <1>1, <1>3, <1>7, NumbersAreNat DEF QInv, Numbered, Apart
  <2>3. Somewhere'
    <3>1. \A n \in 1 .. made : n = made \/ n \in 1 .. Behind
      BY <1>3
    <3> QED
      BY <1>1, <1>3, <1>4, <1>7, <3>1 DEF QInv, Somewhere
  <2> QED
    BY <1>5, <2>1, <2>2, <2>3 DEF QInv
<1> QED
  BY <1>1, <1>6, <1>7

LEMMA ReceiveOrders == ASSUME FInv, QInv, Receive PROVE QInv'
<1>1. /\ emitter.at = "idle" /\ events # <<>> /\ events' = Tail(events)
      /\ \/ slumped' = slumped \cup {Head(events).n} /\ UNCHANGED emitter
         \/ emitter' = [emitter EXCEPT !.at = "incident", !.ev = Head(events)] /\ UNCHANGED slumped
      /\ UNCHANGED <<mutator, made, dropped, sent>>
  BY DEF Receive
<1>2. emitter.ev = NoEvent /\ emitter.out = <<>> /\ emitter \in Emitter
  BY <1>1 DEF FInv, FlowTyped, Placed
<1> DEFINE first == Head(events).n
<1>3. /\ Len(events) \in Nat /\ 1 \in 1 .. Len(events) /\ Head(events) = events[1] /\ Head(events) \in Event
      /\ Len(events') = Len(events) - 1
      /\ \A i \in 1 .. Len(events') : i + 1 \in 1 .. Len(events) /\ events'[i] = events[i + 1]
      /\ \A i \in 1 .. Len(events) : i = 1 \/ (i - 1 \in 1 .. Len(events') /\ events'[i - 1] = events[i])
  <2>1. Len(events) \in Nat \ {0}
    BY <1>1, NumbersAreNat, EmptySeq, Zenon
  <2>2. Len(events') = Len(events) - 1 /\ Head(events) = events[1]
    BY <1>1, NumbersAreNat
  <2>3. \A i \in 1 .. Len(events') : events'[i] = events[i + 1]
    BY <1>1, NumbersAreNat, HeadTailProperties
  <2>4. Head(events) \in Event
    BY <1>1, NumbersAreNat, HeadTailProperties, Zenon
  <2>5. \A i \in 1 .. Len(events) : i = 1 \/ i - 1 \in 1 .. Len(events')
    BY <2>1, <2>2
  <2>6. \A i \in 1 .. Len(events') : i + 1 \in 1 .. Len(events)
    BY <2>1, <2>2
  <2>7. \A i \in 1 .. Len(events) : i = 1 \/ events'[i - 1] = events[i]
    <3> SUFFICES ASSUME NEW i \in 1 .. Len(events), i # 1 PROVE events'[i - 1] = events[i]
      OBVIOUS
    <3>1. i - 1 \in 1 .. Len(events') /\ (i - 1) + 1 = i
      BY <2>5
    <3> QED
      BY <2>3, <3>1
  <2> QED
    BY <2>1, <2>2, <2>3, <2>4, <2>5, <2>6, <2>7
<1>4. /\ Behind' = Behind /\ Behind \in Int
      /\ \A n : Posted(n)' <=> Posted(n)
  BY <1>1, NumbersAreNat DEF Behind, Posted, Own
<1>5. /\ first \in Nat /\ first \in 1 .. Behind /\ Head(events) # NoEvent
      /\ \A i \in 1 .. Len(events') : events'[i].n \in Nat /\ events'[i].n <= Behind /\ first < events'[i].n
      /\ \A i, j \in 1 .. Len(events') : i < j => events'[i].n < events'[j].n
  <2>1. first \in 1 .. MaxEvents /\ MaxEvents \in Nat /\ Head(events) # NoEvent
    BY <1>3, NoEventIsNone, FlowAssumption DEF Event
  <2>2. first <= Behind
    BY <1>3 DEF QInv, Numbered
  <2>3. \A i \in 1 .. Len(events') : 1 < i + 1
    BY <1>3
  <2>4. \A i \in 1 .. Len(events') : events'[i].n \in Nat /\ events'[i].n <= Behind /\ first < events'[i].n
    BY <1>3, <2>3, NumbersAreNat DEF QInv, Numbered
  <2>5. \A i, j \in 1 .. Len(events') : i < j => i + 1 < j + 1
    BY <1>3
  <2>6. \A i, j \in 1 .. Len(events') : i < j => events'[i].n < events'[j].n
    BY <1>3, <2>5 DEF QInv, Numbered
  <2> QED
    BY <1>4, <2>1, <2>2, <2>4, <2>6
<1>6. /\ \A n \in slumped : n < first /\ n \in 1 .. Behind
      /\ \A n \in dropped : n # first /\ n \in 1 .. Behind
      /\ \A j \in 1 .. Len(sent) : sent[j].n < first /\ sent[j].n \in Nat /\ sent[j].n <= Behind
  BY <1>3, NumbersAreNat DEF QInv, Numbered, Apart
<1>7. \A n \in slumped : \A i \in 1 .. Len(events') : n < events'[i].n
  BY <1>5, <1>6
<1>8. \A j \in 1 .. Len(sent) : \A i \in 1 .. Len(events') : sent[j].n < events'[i].n
  BY <1>5, <1>6
<1>9. \A n \in dropped : n \notin slumped /\ \A i \in 1 .. Len(events') : events'[i].n # n
  BY <1>3 DEF QInv, Apart
<1>10. \A n \in 1 .. Behind :
          \/ n \in dropped \/ n \in slumped \/ n = first
          \/ \E i \in 1 .. Len(events') : events'[i].n = n
          \/ Posted(n)
  <2> SUFFICES ASSUME NEW n \in 1 .. Behind, NEW i \in 1 .. Len(events), events[i].n = n
               PROVE  n = first \/ \E k \in 1 .. Len(events') : events'[k].n = n
    BY <1>2 DEF QInv, Somewhere
  <2> QED
    BY <1>3
<1> HIDE DEF first
<1>11. CASE slumped' = slumped \cup {first} /\ UNCHANGED emitter
  <2>1. Numbered'
    BY <1>1, <1>2, <1>4, <1>5, <1>6, <1>7, <1>8, <1>11 DEF QInv, Numbered
  <2>2. Apart'
    BY <1>1, <1>2, <1>6, <1>9, <1>11 DEF QInv, Apart
  <2>3. Somewhere'
    BY <1>1, <1>4, <1>10, <1>11 DEF Somewhere
  <2>4. Fanned' /\ Sorted'
    BY <1>1, <1>2, <1>11 DEF QInv, Fanned, Sorted, Own
  <2> QED
    BY <2>1, <2>2, <2>3, <2>4 DEF QInv
<1>12. CASE emitter' = [emitter EXCEPT !.at = "incident", !.ev = Head(events)] /\ UNCHANGED slumped
  <2>1. emitter'.ev = Head(events) /\ emitter'.out = <<>> /\ emitter'.ev.n = first /\ emitter'.ev # NoEvent
    BY <1>2, <1>5, <1>12 DEF Emitter, first
  <2>2. Numbered'
    BY <1>1, <1>4, <1>5, <1>6, <1>7, <1>8, <1>12, <2>1 DEF QInv, Numbered
  <2>3. Apart'
    BY <1>1, <1>6, <1>9, <1>12, <2>1 DEF QInv, Apart
  <2>4. Somewhere'
    BY <1>1, <1>4, <1>10, <1>12, <2>1 DEF Somewhere
  <2>5. Fanned'
    <3>1. Waiting'
      BY <2>1 DEF Waiting
    <3>2. Len(emitter'.out) = 0
      BY <2>1
    <3> QED
      BY <1>1, <1>6, <2>1, <3>1, <3>2 DEF Fanned
  <2>6. Sorted'
    BY <1>1 DEF QInv, Sorted, Own
  <2> QED
    BY <2>2, <2>3, <2>4, <2>5, <2>6 DEF QInv
<1> QED
  BY <1>1, <1>11, <1>12 DEF first

(* A longer list of webhooks, whose first stays the event's own.            *)
LEMMA OutGrows ==
    ASSUME QInv, UNCHANGED <<mutator, made, events, dropped, slumped, sent>>,
           emitter'.ev = emitter.ev, Waiting' <=> Waiting,
           \A i \in 1 .. Len(emitter'.out) :
               emitter'.out[i].n = emitter.ev.n /\ (i > 1 => ~Own(emitter'.out[i]))
    PROVE  QInv'
<1>1. Behind' = Behind /\ \A n : Posted(n)' <=> Posted(n)
  BY DEF Behind, Posted, Own
<1>2. Numbered' /\ Apart'
  BY <1>1 DEF QInv, Numbered, Apart
<1>3. Somewhere'
  BY <1>1 DEF QInv, Somewhere
<1>4. Fanned'
  BY <1>1 DEF QInv, Fanned, Own
<1>5. Sorted'
  BY DEF QInv, Sorted, Own
<1> QED
  BY <1>2, <1>3, <1>4, <1>5 DEF QInv

LEMMA FanOutRest ==
    ASSUME NEW ev, NEW declined \in BOOLEAN, NEW cancel \in BOOLEAN
    PROVE  \A i \in 2 .. Len(FanOut(ev, declined, cancel)) : FanOut(ev, declined, cancel)[i] = Hook(ev, "cancelled")
BY FanOutIs

LEMMA CheckIncidentOrders ==
    ASSUME FInv, QInv, NEW declined \in BOOLEAN, NEW cancel \in BOOLEAN, NEW refund \in BOOLEAN,
           CheckIncident(declined, cancel, refund)
    PROVE  QInv'
<1> DEFINE ev == emitter.ev
           own == Hook(ev, IF declined THEN "declined" ELSE "event")
           out == FanOut(ev, declined, cancel)
<1>1. /\ emitter.at = "incident"
      /\ emitter' = [emitter EXCEPT !.out = out, !.at = IF refund THEN "drawn" ELSE "post",
                                    !.reg = IF refund THEN idSeq + 1 ELSE 0]
      /\ UNCHANGED <<events, mutator, made, dropped, slumped, sent>>
  BY DEF CheckIncident, countVars
<1>2. emitter \in Emitter /\ emitter.out = <<>> /\ ev # NoEvent
  BY <1>1 DEF FInv, FlowTyped, Placed
<1>3. own.n = ev.n /\ Own(own) /\ Hook(ev, "cancelled").n = ev.n /\ ~Own(Hook(ev, "cancelled"))
  BY DEF Hook, Own
<1>4. /\ out # <<>> /\ Head(out) = own
      /\ \A i \in 1 .. Len(out) : out[i] = own \/ out[i] = Hook(ev, "cancelled")
      /\ \A i \in 2 .. Len(out) : out[i] = Hook(ev, "cancelled")
  <2>1. /\ out # <<>> /\ Head(out) = own
        /\ \A i \in 1 .. Len(out) : out[i] = own \/ (cancel /\ out[i] = Hook(ev, "cancelled"))
    BY FanOutIs
  <2>2. \A i \in 2 .. Len(out) : out[i] = Hook(ev, "cancelled")
    BY FanOutRest, Zenon
  <2> HIDE DEF own, out
  <2> QED
    BY <2>1, <2>2
<1> HIDE DEF own, out
<1>5. emitter'.out = out /\ emitter'.ev = ev
  BY <1>1, <1>2 DEF Emitter
<1>6. Waiting' /\ Waiting
  BY <1>2, <1>3, <1>4, <1>5 DEF Waiting, Own
<1>7. \A i \in 1 .. Len(emitter'.out) : emitter'.out[i].n = emitter.ev.n /\ (i > 1 => ~Own(emitter'.out[i]))
  BY <1>3, <1>4, <1>5
<1> QED
  BY <1>1, <1>5, <1>6, <1>7, OutGrows

LEMMA EmitterDrawsOrders == ASSUME FInv, QInv, EmitterDraws PROVE QInv'
<1> DEFINE hook == Hook(emitter.ev, "refund")
<1>1. /\ emitter.at = "drawn"
      /\ emitter' = [emitter EXCEPT !.at = "post", !.reg = 0, !.out = Append(emitter.out, hook)]
      /\ UNCHANGED <<events, mutator, made, dropped, slumped, sent>>
  BY DEF EmitterDraws, countVars
<1>2. emitter \in Emitter /\ emitter.out # <<>> /\ emitter.ev \in Event /\ emitter.ev # NoEvent
  BY <1>1, NoEventIsNone DEF FInv, FlowTyped, Placed, Emitter
<1>3. hook.n = emitter.ev.n /\ ~Own(hook) /\ hook \in Hooks
  BY <1>2, HookTyped DEF Hook, Own
<1> HIDE DEF hook
<1>4. emitter'.out = Append(emitter.out, hook) /\ emitter'.ev = emitter.ev
  BY <1>1, <1>2 DEF Emitter
<1>5. /\ Len(emitter.out) \in Nat \ {0} /\ Len(emitter'.out) = Len(emitter.out) + 1
      /\ emitter'.out[Len(emitter.out) + 1] = hook
      /\ \A i \in 1 .. Len(emitter.out) : emitter'.out[i] = emitter.out[i]
      /\ emitter'.out # <<>> /\ Head(emitter'.out) = Head(emitter.out)
  <2>1. Len(emitter.out) \in Nat \ {0}
    BY <1>2, NumbersAreNat, EmptySeq, Zenon
  <2>2. emitter.out \in Seq(Hooks)
    BY NumbersAreNat
  <2>3. /\ Len(emitter'.out) = Len(emitter.out) + 1 /\ emitter'.out[Len(emitter.out) + 1] = hook
        /\ \A i \in 1 .. Len(emitter.out) : emitter'.out[i] = emitter.out[i]
    BY <1>3, <1>4, <2>2
  <2>4. emitter'.out # <<>> /\ Head(emitter'.out) = emitter'.out[1] /\ Head(emitter.out) = emitter.out[1]
    BY <1>2, <1>3, <1>4, <2>2
  <2>5. 1 \in 1 .. Len(emitter.out)
    BY <2>1
  <2> QED
    BY <2>1, <2>3, <2>4, <2>5
<1>6. Waiting' <=> Waiting
  BY <1>2, <1>4, <1>5 DEF Waiting, Own
<1>7. \A i \in 1 .. Len(emitter'.out) : emitter'.out[i].n = emitter.ev.n /\ (i > 1 => ~Own(emitter'.out[i]))
  <2>1. \A i \in 1 .. Len(emitter'.out) : i = Len(emitter.out) + 1 \/ i \in 1 .. Len(emitter.out)
    BY <1>5
  <2> QED
    BY <1>2, <1>3, <1>5, <2>1 DEF QInv, Fanned
<1> QED
  BY <1>1, <1>4, <1>6, <1>7, OutGrows

LEMMA DeliverOrders == ASSUME FInv, QInv, Deliver PROVE QInv'
<1> DEFINE h == Head(emitter.out)
           l == Len(sent)
<1>1. /\ emitter.at = "post" /\ sent' = Append(sent, h)
      /\ emitter' = IF Len(emitter.out) = 1 THEN Resting ELSE [emitter EXCEPT !.out = Tail(emitter.out)]
      /\ UNCHANGED <<events, mutator, made, dropped, slumped>>
  BY DEF Deliver
<1>2. emitter \in Emitter /\ emitter.out # <<>> /\ emitter.ev # NoEvent
  BY <1>1 DEF FInv, FlowTyped, Placed
<1>3. /\ Len(emitter.out) \in Nat \ {0} /\ h = emitter.out[1] /\ h \in Hooks
  <2>1. Len(emitter.out) \in Nat \ {0}
    BY <1>2, NumbersAreNat, EmptySeq, Zenon
  <2>2. h \in Hooks
    BY <1>2, NumbersAreNat, HeadTailProperties, Zenon
  <2>3. h = emitter.out[1]
    BY NumbersAreNat
  <2> QED
    BY <2>1, <2>2, <2>3
<1>4. h.n = emitter.ev.n /\ (Waiting <=> Own(h))
  BY <1>2, <1>3 DEF QInv, Fanned, Waiting
<1>5. emitter.out \in Seq(Hooks) /\ sent \in Seq(Hooks) /\ l \in Nat
  BY NumbersAreNat
<1> HIDE DEF h
<1>6. /\ Len(sent') = l + 1 /\ sent'[l + 1] = h
      /\ \A j \in 1 .. l : sent'[j] = sent[j] /\ sent[j].n \in Nat
      /\ \A j \in 1 .. Len(sent') : j = l + 1 \/ j \in 1 .. l
      /\ l + 1 \in 1 .. Len(sent') /\ \A j \in 1 .. l : j \in 1 .. Len(sent')
  BY <1>1, <1>3, <1>5, NumbersAreNat
<1> HIDE DEF l
<1>7. Behind' = Behind /\ emitter.ev.n \in Nat /\ made \in Nat
  BY <1>1, NumbersAreNat DEF Behind
<1>8. \A j \in 1 .. l : sent[j].n < h.n \/ (sent[j].n = h.n /\ ~Own(h))
  BY <1>2, <1>4, <1>6, <1>7 DEF QInv, Numbered, Fanned, l
<1>9. ~Own(h) => l > 0 /\ sent[l].n = h.n
  BY <1>2, <1>4 DEF QInv, Fanned, l
<1>10. Sorted'
  <2>1. ASSUME NEW i \in 1 .. Len(sent'), NEW j \in 1 .. Len(sent'), i < j
        PROVE  sent'[i].n < sent'[j].n \/ (sent'[i].n = sent'[j].n /\ ~Own(sent'[j]))
    <3>1. i \in 1 .. l
      BY <1>5, <1>6, <2>1 DEF l
    <3>2. CASE j = l + 1
      BY <1>6, <1>8, <3>1, <3>2
    <3>3. CASE j \in 1 .. l
      BY <1>6, <2>1, <3>1, <3>3 DEF QInv, Sorted, l
    <3> QED
      BY <1>6, <3>2, <3>3
  <2>2. ASSUME NEW j \in 1 .. Len(sent'), ~Own(sent'[j])
        PROVE  j > 1 /\ sent'[j - 1].n = sent'[j].n
    <3>1. CASE j = l + 1
      <4>1. l > 0 /\ sent[l].n = h.n /\ j - 1 = l /\ l \in 1 .. l /\ j > 1
        BY <1>5, <1>6, <1>9, <2>2, <3>1 DEF l
      <4> QED
        BY <1>6, <3>1, <4>1
    <3>2. CASE j \in 1 .. l
      <4>1. ~Own(sent[j])
        BY <1>6, <2>2, <3>2
      <4>2. j > 1 /\ sent[j - 1].n = sent[j].n
        BY <3>2, <4>1 DEF QInv, Sorted, l
      <4>3. j - 1 \in 1 .. l
        BY <1>5, <3>2, <4>2 DEF l
      <4> QED
        BY <1>6, <3>2, <4>2, <4>3
    <3> QED
      BY <1>6, <3>1, <3>2
  <2> QED
    BY <2>1, <2>2 DEF Sorted, Own
<1>11. /\ \A n : Posted(n) => \E k \in 1 .. Len(sent') : sent'[k].n = n /\ Own(sent'[k])
       /\ \E k \in 1 .. Len(sent') : sent'[k].n = emitter.ev.n /\ Own(sent'[k])
  <2>1. \A n : Posted(n) => \E k \in 1 .. Len(sent') : sent'[k].n = n /\ Own(sent'[k])
    <3> SUFFICES ASSUME NEW n, NEW j \in 1 .. l, sent[j].n = n, Own(sent[j])
                 PROVE  \E k \in 1 .. Len(sent') : sent'[k].n = n /\ Own(sent'[k])
      BY DEF Posted, l
    <3> QED
      BY <1>6
  <2>2. CASE Own(h)
    <3>1. l + 1 \in 1 .. Len(sent') /\ sent'[l + 1].n = emitter.ev.n /\ Own(sent'[l + 1])
      BY <1>4, <1>6, <2>2, Zenon
    <3> QED
      BY <2>1, <3>1
  <2>3. CASE ~Own(h)
    <3>1. Posted(emitter.ev.n)
      BY <1>2, <1>4, <2>3 DEF QInv, Fanned
    <3> QED
      BY <2>1, <3>1
  <2> QED
    BY <2>1, <2>2, <2>3
<1>12. /\ \A j \in 1 .. Len(sent') : sent'[j].n <= Behind /\ sent'[j].n <= emitter.ev.n
       /\ \A j \in 1 .. Len(sent') : \A i \in 1 .. Len(events) : sent'[j].n < events[i].n
       /\ \A n \in dropped \cup slumped : \A j \in 1 .. Len(sent') : sent'[j].n # n
  <2>1. \A j \in 1 .. l : sent[j].n <= Behind /\ sent[j].n <= emitter.ev.n
    BY <1>2 DEF QInv, Numbered, l
  <2>2. \A j \in 1 .. l : \A i \in 1 .. Len(events) : sent[j].n < events[i].n
    BY DEF QInv, Numbered, l
  <2>3. \A n \in dropped \cup slumped : \A j \in 1 .. l : sent[j].n # n
    BY DEF QInv, Apart, l
  <2>4. /\ h.n <= Behind /\ h.n <= emitter.ev.n /\ \A i \in 1 .. Len(events) : h.n < events[i].n
        /\ \A n \in dropped \cup slumped : h.n # n
    BY <1>2, <1>4, <1>7 DEF QInv, Numbered, Apart
  <2> QED
    BY <1>6, <2>1, <2>2, <2>3, <2>4
<1>13. CASE Len(emitter.out) = 1
  <2>1. emitter'.ev = NoEvent
    BY <1>1, <1>13 DEF Resting
  <2>2. Numbered' /\ Apart'
    BY <1>1, <1>7, <1>12, <2>1 DEF QInv, Numbered, Apart
  <2>3. Somewhere'
    <3>1. \A n : (\E k \in 1 .. Len(sent') : sent'[k].n = n /\ Own(sent'[k])) => Posted(n)'
      BY DEF Posted, Own
    <3>2. \A n \in 1 .. Behind :
            \/ n \in dropped \/ n \in slumped
            \/ \E i \in 1 .. Len(events) : events[i].n = n
            \/ Posted(n)'
      BY <1>11, <3>1 DEF QInv, Somewhere
    <3> QED
      BY <1>1, <1>7, <3>2 DEF Somewhere
  <2>4. Fanned'
    BY <2>1 DEF Fanned
  <2> QED
    BY <1>10, <2>2, <2>3, <2>4 DEF QInv
<1>14. CASE Len(emitter.out) # 1
  <2>1. /\ emitter'.ev = emitter.ev /\ emitter'.out = Tail(emitter.out)
    BY <1>1, <1>2, <1>14 DEF Emitter
  <2>2. /\ Len(emitter'.out) \in Nat \ {0} /\ emitter'.out # <<>> /\ Head(emitter'.out) = emitter.out[2]
        /\ 2 \in 1 .. Len(emitter.out)
        /\ \A i \in 1 .. Len(emitter'.out) : i + 1 \in 1 .. Len(emitter.out) /\ emitter'.out[i] = emitter.out[i + 1]
    <3>1. \A n \in Nat \ {0} : n # 1 => n - 1 \in Nat \ {0} /\ 2 \in 1 .. n /\ \A i \in 1 .. n - 1 : i + 1 \in 1 .. n
      OBVIOUS
    <3>2. /\ Tail(emitter.out) \in Seq(Hooks) /\ Len(Tail(emitter.out)) = Len(emitter.out) - 1
          /\ \A i \in 1 .. Len(Tail(emitter.out)) : Tail(emitter.out)[i] = emitter.out[i + 1]
      BY <1>2, <1>5, HeadTailProperties
    <3>3. Len(Tail(emitter.out)) \in Nat \ {0}
      BY <1>3, <1>14, <3>1, <3>2
    <3>4. Tail(emitter.out) # <<>>
      BY <3>3, EmptySeq, Zenon
    <3>5. Head(Tail(emitter.out)) = Tail(emitter.out)[1]
      <4>1. \A t \in Seq(Hooks) : t # <<>> => Head(t) = t[1]
        OBVIOUS
      <4> QED
        BY <3>2, <3>4, <4>1, Zenon
    <3>6. Tail(emitter.out)[1] = emitter.out[2]
      <4>1. \A n \in Nat \ {0} : 1 \in 1 .. n
        OBVIOUS
      <4>2. 1 \in 1 .. Len(Tail(emitter.out))
        BY <3>3, <4>1, Zenon
      <4>3. Tail(emitter.out)[1] = emitter.out[1 + 1]
        BY <3>2, <4>2, Zenon
      <4>4. 1 + 1 = 2
        OBVIOUS
      <4> QED
        BY <4>3, <4>4, Zenon
    <3> QED
      BY <1>3, <1>14, <2>1, <3>1, <3>2, <3>3, <3>4, <3>5, <3>6
  <2>3. /\ \A i \in 1 .. Len(emitter'.out) : emitter'.out[i].n = emitter.ev.n /\ ~Own(emitter'.out[i])
        /\ ~Own(emitter.out[2])
    <3>1. \A i \in 1 .. Len(emitter'.out) : i + 1 > 1
      BY <2>2
    <3> QED
      BY <1>2, <2>2, <3>1 DEF QInv, Fanned
  <2>4. ~Waiting'
    BY <2>2, <2>3 DEF Waiting, Own
  <2>5. Fanned'
    <3>1. Len(sent') > 0 /\ sent'[Len(sent')].n = emitter.ev.n
      BY <1>4, <1>5, <1>6
    <3>2. \E k \in 1 .. Len(sent') : sent'[k].n = emitter'.ev.n /\ Own(sent'[k])
      BY <1>11, <2>1
    <3> QED
      BY <2>1, <2>3, <2>4, <3>1, <3>2 DEF Fanned, Posted, Own
  <2>6. Numbered' /\ Apart'
    BY <1>1, <1>2, <1>7, <1>12, <2>1 DEF QInv, Numbered, Apart
  <2>7. Somewhere'
    <3>1. \A n : (\E k \in 1 .. Len(sent') : sent'[k].n = n /\ Own(sent'[k])) => Posted(n)'
      BY DEF Posted, Own
    <3> QED
      BY <1>1, <1>2, <1>7, <1>11, <2>1, <3>1 DEF QInv, Somewhere
  <2> QED
    BY <1>10, <2>5, <2>6, <2>7 DEF QInv
<1> QED
  BY <1>13, <1>14

LEMMA QNext == FInv /\ QInv /\ [Next]_vars => QInv'
<1> SUFFICES ASSUME FInv, QInv, [Next]_vars PROVE QInv'
  OBVIOUS
<1>1. ASSUME UNCHANGED <<mutator.ev, made, events, dropped, slumped, sent, emitter.ev, emitter.out>> PROVE QInv'
  <2>1. Behind' = Behind /\ (mutator'.ev # NoEvent => mutator'.ev.n = made')
    BY <1>1 DEF Behind, QInv, Numbered
  <2> QED
    BY <1>1, <2>1, QRests
<1>2. CASE Mutates
  <2>1. CASE Emits
    <3>1. PICK t \in Topics, o \in {NoOrder} \cup UNION {ToSet(orders[s]) : s \in Shops} : Emit(t, o)
      BY <2>1 DEF Emits
    <3> QED
      BY <3>1, EmitOrders
  <2>2. CASE MutatorReturns
    <3>1. mutator'.ev = mutator.ev
      BY <2>2 DEF MutatorReturns, FInv, FlowTyped, Mutator
    <3> QED
      BY <1>1, <2>2, <3>1 DEF MutatorReturns, countVars
  <2> QED
    BY <1>2, <2>1, <2>2, MutatorDrawsOrders, MutatorSendsOrders DEF Mutates
<1>3. CASE Handles
  BY <1>3, ReceiveOrders, CheckIncidentOrders DEF Handles
<1>4. CASE Posts
  <2>1. CASE EmitterReturns
    <3>1. emitter'.ev = emitter.ev /\ emitter'.out = emitter.out
      BY <2>1 DEF EmitterReturns, FInv, FlowTyped, Emitter
    <3> QED
      BY <1>1, <2>1, <3>1 DEF EmitterReturns, countVars
  <2> QED
    BY <1>4, <2>1, EmitterDrawsOrders, DeliverOrders DEF Posts
<1>5. CASE Cancel
  BY <1>1, <1>5 DEF Cancel, countVars
<1>6. CASE UNCHANGED flowVars
  BY <1>1, <1>6 DEF flowVars, countVars
<1> QED
  BY <1>2, <1>3, <1>4, <1>5, <1>6 DEF Next, vars

LEMMA OrderInvariant == Spec => []QInv
BY ShopInvariant, InitQ, QNext, PTL DEF Spec

(* Mutator, channel and emitter together lose no event without counting it  *)
(* as dropped or suppressed, post none twice, and post the webhooks in the  *)
(* order of their events, a cancellation or a refund right behind the order *)
(* it belongs to; whatever the sizes, the incidents and the interleaving.   *)
THEOREM OnceAndInOrder == Spec => []NothingLostOrTwice
<1>1. FInv /\ QInv => NothingLostOrTwice
  <2> SUFFICES ASSUME FInv, QInv PROVE NothingLostOrTwice
    OBVIOUS
  <2> DEFINE waiting == emitter.out # <<>> => Own(Head(emitter.out))
             M == {mutator.ev.n} \ {0}
             C == {e.n : e \in ToSet(events)}
             E == IF waiting THEN {emitter.ev.n} \ {0} ELSE {}
             P == {g.n : g \in {g \in ToSet(sent) : Own(g)}}
             places == <<M, C, E, dropped, slumped, P>>
  <2>1. DOMAIN events = 1 .. Len(events) /\ DOMAIN sent = 1 .. Len(sent) /\ made \in Nat /\ Behind \in Int
    BY NumbersAreNat DEF Behind
  <2>2. mutator.ev \in Event \cup {NoEvent} /\ emitter.ev \in Event \cup {NoEvent}
    BY DEF FInv, FlowTyped, Mutator, Emitter
  <2>3. NoEvent.n = 0 /\ \A e \in Event : e.n # 0 /\ e.n \in Nat
    BY FlowAssumption DEF NoEvent, Event
  <2>4. \A n : n \in M <=> mutator.ev # NoEvent /\ n = made
    BY <2>2, <2>3 DEF QInv, Numbered
  <2>5. \A n : n \in C <=> \E i \in 1 .. Len(events) : events[i].n = n
    BY <2>1 DEF ToSet
  <2>6. \A n : n \in E <=> Waiting /\ n = emitter.ev.n
    BY <2>2, <2>3 DEF Waiting
  <2>7. \A n : n \in P <=> Posted(n)
    BY <2>1 DEF ToSet, Posted
  <2>8. IF mutator.ev = NoEvent THEN Behind = made ELSE Behind = made - 1 /\ made > 0
    BY <2>1, <2>2, <2>3, NumbersAreNat DEF Behind, QInv, Numbered
  <2> HIDE DEF M, C, E, P
  <2>9. \A n \in C \cup E \cup dropped \cup slumped \cup P : n \in 1 .. Behind
    <3>1. \A n \in C : n \in 1 .. Behind
      <4>1. \A i \in 1 .. Len(events) : events[i].n # 0 /\ events[i].n \in Nat
        BY <2>3, NumbersAreNat
      <4> QED
        BY <2>1, <2>5, <4>1 DEF QInv, Numbered
    <3>2. \A n \in E : n \in 1 .. Behind
      BY <2>1, <2>2, <2>3, <2>6 DEF QInv, Numbered, Waiting
    <3>3. \A n \in P : n \in 1 .. Behind
      <4>1. \A j \in 1 .. Len(sent) : sent[j].n \in 1 .. MaxEvents
        <5>1. \A g \in Hooks : g.n \in 1 .. MaxEvents
          BY DEF Hooks
        <5> QED
          BY <5>1, NumbersAreNat
      <4> QED
        BY <2>1, <2>7, <4>1, FlowAssumption DEF QInv, Numbered, Posted
    <3>4. \A n \in dropped \cup slumped : n \in 1 .. Behind
      BY DEF QInv, Numbered
    <3> QED
      BY <3>1, <3>2, <3>3, <3>4
  <2>10. \A n \in 1 .. made : n \in M \cup C \cup E \cup dropped \cup slumped \cup P
    <3> SUFFICES ASSUME NEW n \in 1 .. made PROVE n \in M \cup C \cup E \cup dropped \cup slumped \cup P
      OBVIOUS
    <3>1. n \in M \/ n \in 1 .. Behind
      BY <2>1, <2>4, <2>8
    <3>2. ASSUME emitter.ev # NoEvent, emitter.ev.n = n PROVE n \in E \/ n \in P
      BY <2>6, <2>7, <3>2 DEF QInv, Fanned
    <3> QED
      BY <2>5, <2>7, <3>1, <3>2 DEF QInv, Somewhere
  <2>11. /\ M \cap C = {} /\ M \cap E = {} /\ M \cap dropped = {} /\ M \cap slumped = {} /\ M \cap P = {}
    <3>1. \A n \in M : n \notin 1 .. Behind
      BY <2>1, <2>4, <2>8
    <3> QED
      BY <2>9, <3>1
  <2>12. /\ C \cap E = {} /\ C \cap dropped = {} /\ C \cap slumped = {} /\ C \cap P = {}
    <3>1. \A i \in 1 .. Len(events) :
            /\ events[i].n \in Nat /\ events[i].n \notin dropped
            /\ Waiting => emitter.ev.n < events[i].n
            /\ \A n \in slumped : n < events[i].n
            /\ \A k \in 1 .. Len(sent) : sent[k].n < events[i].n
      BY NumbersAreNat DEF QInv, Numbered, Apart, Waiting
    <3>2. \A n \in C : n \notin E
      BY <2>5, <2>6, <3>1
    <3>3. \A n \in C : n \notin dropped
      BY <2>5, <3>1
    <3>4. \A n \in C : n \notin slumped
      BY <2>5, <3>1
    <3>5. \A n \in C : n \notin P
      BY <2>5, <2>7, <3>1 DEF Posted
    <3> QED
      BY <3>2, <3>3, <3>4, <3>5
  <2>13. /\ E \cap dropped = {} /\ E \cap slumped = {} /\ E \cap P = {}
    <3>1. Waiting => /\ emitter.ev.n \in Nat /\ emitter.ev.n \notin dropped
                     /\ \A n \in slumped : n < emitter.ev.n
                     /\ \A k \in 1 .. Len(sent) : sent[k].n < emitter.ev.n
      BY NumbersAreNat DEF QInv, Numbered, Apart, Fanned, Waiting
    <3>2. \A n \in E : n \notin dropped /\ n \notin slumped
      BY <2>6, <3>1
    <3>3. \A n \in E : n \notin P
      BY <2>6, <2>7, <3>1 DEF Posted
    <3> QED
      BY <3>2, <3>3
  <2>14. /\ dropped \cap slumped = {} /\ dropped \cap P = {} /\ slumped \cap P = {}
    BY <2>7 DEF QInv, Apart, Posted
  <2>15. UNION ToSet(places) = 1 .. made
    <3>1. ToSet(places) = {M, C, E, dropped, slumped, P}
      BY DEF ToSet
    <3>2. \A n \in M : n \in 1 .. made
      BY <2>1, <2>4, <2>8
    <3>3. \A n \in 1 .. Behind : n \in 1 .. made
      BY <2>1, <2>8
    <3>4. \A n \in M \cup C \cup E \cup dropped \cup slumped \cup P : n \in 1 .. made
      BY <2>9, <3>2, <3>3
    <3> HIDE DEF places
    <3> QED
      BY <2>10, <3>1, <3>4
  <2>16. \A i, j \in DOMAIN places : i < j => places[i] \cap places[j] = {}
    <3>1. DOMAIN places = 1 .. 6
      OBVIOUS
    <3> SUFFICES ASSUME NEW i \in 1 .. 6, NEW j \in 1 .. 6, i < j PROVE places[i] \cap places[j] = {}
      BY <3>1
    <3>2. (i = 1 \/ i = 2 \/ i = 3 \/ i = 4 \/ i = 5) /\ (j = 2 \/ j = 3 \/ j = 4 \/ j = 5 \/ j = 6)
      OBVIOUS
    <3>3. /\ places[1] = M /\ places[2] = C /\ places[3] = E
          /\ places[4] = dropped /\ places[5] = slumped /\ places[6] = P
      OBVIOUS
    <3> HIDE DEF places
    <3>4. CASE i = 1
      BY <2>11, <3>2, <3>3, <3>4
    <3>5. CASE i = 2
      BY <2>12, <3>2, <3>3, <3>5
    <3>6. CASE i = 3
      BY <2>13, <3>2, <3>3, <3>6
    <3>7. CASE i = 4
      BY <2>14, <3>2, <3>3, <3>7
    <3>8. CASE i = 5
      BY <2>14, <3>2, <3>3, <3>8
    <3> QED
      BY <3>2, <3>4, <3>5, <3>6, <3>7, <3>8
  <2>17. /\ \A i, j \in DOMAIN sent :
                i < j => sent[i].n < sent[j].n \/ (sent[i].n = sent[j].n /\ ~Own(sent[j]))
         /\ \A j \in DOMAIN sent : ~Own(sent[j]) => j > 1 /\ sent[j - 1].n = sent[j].n
    BY <2>1 DEF QInv, Sorted
  <2> QED
    BY <2>15, <2>16, <2>17 DEF NothingLostOrTwice, M, C, E, P
<1> QED
  BY ShopInvariant, OrderInvariant, <1>1, PTL

-----------------------------------------------------------------------------
(* What the store has dropped of a shop's orders are the oldest.            *)
Suffix ==
    \A s \in Shops :
        LET all == Len(recorded[s])
            kept == Len(orders[s])
        IN  /\ all >= SeedOrders
            /\ kept = (IF all = SeedOrders \/ all < MaxRetained THEN all ELSE MaxRetained)
            /\ \A i \in 1 .. kept : orders[s][i] = recorded[s][all - kept + i]

RestInv ==
    /\ orders \in [Shops -> Seq(Order)] /\ recorded \in [Shops -> Seq(Order)]
    /\ Suffix

(* One more of both: whichever is longer than the store retains loses its   *)
(* first.                                                                   *)
LEMMA RetainedIs ==
    ASSUME NEW lst \in Seq(Order)
    PROVE  LET n == IF Len(lst) > MaxRetained THEN MaxRetained ELSE Len(lst)
           IN  /\ Retained(lst) \in Seq(Order) /\ Len(Retained(lst)) = n
               /\ \A i \in 1 .. n : Retained(lst)[i] = lst[Len(lst) - n + i]
<1>1. Len(lst) \in Nat /\ MaxRetained \in Nat \ {0}
  BY FlowAssumption
<1>2. CASE Len(lst) > MaxRetained
  <2>1. \A i \in Len(lst) - MaxRetained + 1 .. Len(lst) : lst[i] \in Order
    BY <1>1, <1>2
  <2>2. SubSeq(lst, Len(lst) - MaxRetained + 1, Len(lst)) \in Seq(Order)
    BY <1>1, <1>2, <2>1
  <2> QED
    BY <1>1, <1>2, <2>2 DEF Retained
<1>3. CASE ~(Len(lst) > MaxRetained)
  BY <1>1, <1>3 DEF Retained
<1> QED
  BY <1>2, <1>3

LEMMA RecordRetains ==
    ASSUME NEW kept \in Seq(Order), NEW all \in Seq(Order), NEW o \in Order,
           Len(all) >= SeedOrders,
           Len(kept) = (IF Len(all) = SeedOrders \/ Len(all) < MaxRetained THEN Len(all) ELSE MaxRetained),
           \A i \in 1 .. Len(kept) : kept[i] = all[Len(all) - Len(kept) + i]
    PROVE  LET more == Append(all, o)
               rest == Retained(Append(kept, o))
           IN  /\ Len(more) >= SeedOrders
               /\ Len(rest) = (IF Len(more) = SeedOrders \/ Len(more) < MaxRetained THEN Len(more) ELSE MaxRetained)
               /\ \A i \in 1 .. Len(rest) : rest[i] = more[Len(more) - Len(rest) + i]
<1> DEFINE more == Append(all, o)
           app == Append(kept, o)
           rest == Retained(app)
           n == IF Len(app) > MaxRetained THEN MaxRetained ELSE Len(app)
<1>1. /\ Len(all) \in Nat /\ Len(kept) \in Nat /\ MaxRetained \in Nat \ {0} /\ SeedOrders \in Nat
      /\ Len(more) = Len(all) + 1 /\ Len(app) = Len(kept) + 1
      /\ app \in Seq(Order) /\ more \in Seq(Order) /\ Len(kept) <= Len(all)
      /\ \A i \in 1 .. Len(kept) : app[i] = kept[i]
      /\ \A i \in 1 .. Len(all) : more[i] = all[i]
      /\ app[Len(kept) + 1] = o /\ more[Len(all) + 1] = o
  BY FlowAssumption
<1> HIDE DEF more, app
<1>9. /\ Len(all) \in Nat /\ Len(kept) \in Nat /\ Len(more) \in Nat /\ Len(app) \in Nat
      /\ Len(more) = Len(all) + 1 /\ Len(app) = Len(kept) + 1
  BY <1>1
<1>2. ASSUME NEW i \in 1 .. Len(app) PROVE app[i] = more[Len(more) - Len(app) + i]
  <2>1. CASE i = Len(kept) + 1
    <3>1. Len(more) - Len(app) + i = Len(all) + 1
      BY <1>9, <2>1
    <3> QED
      BY <1>1, <2>1, <3>1
  <2>2. CASE i \in 1 .. Len(kept)
    <3>1. app[i] = kept[i] /\ kept[i] = all[Len(all) - Len(kept) + i]
      BY <1>1, <2>2
    <3>2. Len(all) - Len(kept) + i \in 1 .. Len(all) /\ Len(more) - Len(app) + i = Len(all) - Len(kept) + i
      BY <1>1, <2>2
    <3> QED
      BY <1>1, <3>1, <3>2
  <2> QED
    BY <1>9, <2>1, <2>2
<1>3. Len(rest) = n /\ \A i \in 1 .. n : rest[i] = app[Len(app) - n + i]
  BY <1>1, RetainedIs
<1> HIDE DEF rest
<1>4. n \in Nat /\ n <= Len(app)
  BY <1>1
<1>7. n = (IF Len(more) = SeedOrders \/ Len(more) < MaxRetained THEN Len(more) ELSE MaxRetained)
  BY <1>1
<1>8. Len(more) >= SeedOrders
  BY <1>1
<1> HIDE DEF n
<1>6. ASSUME NEW i \in 1 .. n PROVE rest[i] = more[Len(more) - n + i]
  <2>1. i \in Int /\ 1 <= i /\ i <= n
    BY <1>4
  <2>2. Len(app) - n + i \in 1 .. Len(app)
    BY <1>4, <1>9, <2>1
  <2>3. Len(more) - Len(app) + (Len(app) - n + i) = Len(more) - n + i
    <3>2. Len(more) \in Int /\ Len(app) \in Int /\ n \in Int /\ i \in Int
      BY <1>4, <1>9, <2>1
    <3> DEFINE lm == Len(more)  la == Len(app)
    <3>3. lm \in Int /\ la \in Int /\ n \in Int /\ i \in Int
      BY <3>2
    <3> SUFFICES lm - la + (la - n + i) = lm - n + i
      OBVIOUS
    <3> HIDE DEF lm, la
    <3> QED
      BY <3>3
  <2> QED
    BY <1>2, <1>3, <2>2, <2>3
<1> QED
  BY <1>3, <1>6, <1>7, <1>8 DEF more, app, rest

LEMMA RestRests == ASSUME RestInv, UNCHANGED <<orders, recorded>> PROVE RestInv'
BY DEF RestInv, Suffix

LEMMA MutatorSendsRest == ASSUME FInv, RestInv, MutatorSends PROVE RestInv'
<1> DEFINE ev == mutator.ev
           o == [n |-> ev.n, id |-> ev.id]
<1>1. mutator.at = "send" /\ RecordOrder(ev)
  BY DEF MutatorSends
<1>2. CASE ev.topic # "orders/create"
  BY <1>1, <1>2, RestRests DEF RecordOrder
<1>3. CASE ev.topic = "orders/create"
  <2>1. ev \in Event
    BY <1>1 DEF FInv, FlowTyped, Placed, Mutator
  <2>2. o \in Order /\ ev.shop \in Shops
    BY <2>1, FlowAssumption DEF Event, Order
  <2> DEFINE s == ev.shop
  <2>3. /\ orders' = [orders EXCEPT ![s] = Retained(Append(orders[s], o))]
        /\ recorded' = [recorded EXCEPT ![s] = Append(recorded[s], o)]
    BY <1>1, <1>3 DEF RecordOrder
  <2> HIDE DEF o, s
  <2>4. s \in Shops /\ orders[s] \in Seq(Order) /\ recorded[s] \in Seq(Order)
    BY <2>2 DEF RestInv, s
  <2>5. Append(orders[s], o) \in Seq(Order) /\ Append(recorded[s], o) \in Seq(Order)
    BY <2>2, <2>4
  <2>6. Retained(Append(orders[s], o)) \in Seq(Order)
    BY <2>5, RetainedIs
  <2>7. orders' \in [Shops -> Seq(Order)] /\ recorded' \in [Shops -> Seq(Order)]
    BY <2>3, <2>4, <2>5, <2>6 DEF RestInv
  <2>8. /\ orders'[s] = Retained(Append(orders[s], o)) /\ recorded'[s] = Append(recorded[s], o)
        /\ \A t \in Shops \ {s} : orders'[t] = orders[t] /\ recorded'[t] = recorded[t]
    BY <2>3, <2>4 DEF RestInv
  <2>9. ASSUME NEW t \in Shops
        PROVE  /\ Len(recorded'[t]) >= SeedOrders
               /\ Len(orders'[t]) = (IF Len(recorded'[t]) = SeedOrders \/ Len(recorded'[t]) < MaxRetained
                                     THEN Len(recorded'[t]) ELSE MaxRetained)
               /\ \A i \in 1 .. Len(orders'[t]) :
                     orders'[t][i] = recorded'[t][Len(recorded'[t]) - Len(orders'[t]) + i]
    <3>1. CASE t # s
      BY <2>8, <3>1 DEF RestInv, Suffix
    <3>2. CASE t = s
      <4>1. /\ Len(recorded[s]) >= SeedOrders
            /\ Len(orders[s]) = (IF Len(recorded[s]) = SeedOrders \/ Len(recorded[s]) < MaxRetained
                                 THEN Len(recorded[s]) ELSE MaxRetained)
            /\ \A i \in 1 .. Len(orders[s]) : orders[s][i] = recorded[s][Len(recorded[s]) - Len(orders[s]) + i]
        BY <2>4 DEF RestInv, Suffix
      <4> DEFINE more == Append(recorded[s], o)
                 rest == Retained(Append(orders[s], o))
      <4>2. /\ Len(more) >= SeedOrders
            /\ Len(rest) = (IF Len(more) = SeedOrders \/ Len(more) < MaxRetained THEN Len(more) ELSE MaxRetained)
            /\ \A i \in 1 .. Len(rest) : rest[i] = more[Len(more) - Len(rest) + i]
        BY <2>2, <2>4, <4>1, RecordRetains
      <4> QED
        BY <2>8, <3>2, <4>2
    <3> QED
      BY <3>1, <3>2
  <2> QED
    BY <2>7, <2>9 DEF RestInv, Suffix
<1> QED
  BY <1>2, <1>3

LEMMA RestStart == Init => RestInv
<1> SUFFICES ASSUME Init PROVE RestInv
  OBVIOUS
<1>1. orders = [s \in Shops |-> Seeds(IndexOf(s))] /\ recorded = orders
  BY DEF Init
<1>2. orders \in [Shops -> Seq(Order)]
  BY InitFlow DEF FInv, FlowTyped
<1>3. \A s \in Shops : Len(orders[s]) = SeedOrders
  BY <1>1, FlowAssumption DEF Seeds
<1> QED
  BY <1>1, <1>2, <1>3, FlowAssumption DEF RestInv, Suffix

LEMMA RestNext == FInv /\ RestInv /\ [Next]_vars => RestInv'
<1> SUFFICES ASSUME FInv, RestInv, [Next]_vars PROVE RestInv'
  OBVIOUS
<1>1. CASE MutatorSends
  BY <1>1, MutatorSendsRest
<1>2. CASE Emits \/ MutatorDraws \/ MutatorReturns
  BY <1>2, RestRests DEF Emits, Emit, MutatorDraws, MutatorReturns, storeVars
<1>3. CASE Handles \/ Posts \/ Cancel \/ UNCHANGED flowVars
  BY <1>3, RestRests DEF Handles, Receive, CheckIncident, Posts, EmitterDraws, Deliver, EmitterReturns, Cancel,
     flowVars, storeVars
<1> QED
  BY <1>1, <1>2, <1>3 DEF Next, Mutates, vars

(* A clipped page is the first so many of the list.                         *)
LEMMA ClipIs ==
    ASSUME NEW lst \in Seq(Order), NEW limit \in Int
    PROVE  LET n == IF limit <= 0 \/ limit > MaxPage THEN Page ELSE limit
               m == IF Len(lst) > n THEN n ELSE Len(lst)
           IN  /\ Clip(lst, limit) \in Seq(Order) /\ Len(Clip(lst, limit)) = m /\ m \in Nat
               /\ \A i \in 1 .. m : Clip(lst, limit)[i] = lst[i]
<1> DEFINE n == IF limit <= 0 \/ limit > MaxPage THEN Page ELSE limit
<1>1. n \in Nat /\ Len(lst) \in Nat
  BY FlowAssumption
<1>2. Clip(lst, limit) = IF Len(lst) > n THEN SubSeq(lst, 1, n) ELSE lst
  BY DEF Clip
<1> HIDE DEF n
<1>3. Len(lst) > n => /\ SubSeq(lst, 1, n) \in Seq(Order) /\ Len(SubSeq(lst, 1, n)) = n
                      /\ \A i \in 1 .. n : SubSeq(lst, 1, n)[i] = lst[i]
  BY <1>1
<1> QED
  BY <1>1, <1>2, <1>3 DEF n

LEMMA ReverseIs ==
    ASSUME NEW lst \in Seq(Order)
    PROVE  /\ Reverse(lst) \in Seq(Order) /\ Len(Reverse(lst)) = Len(lst)
           /\ \A i \in 1 .. Len(lst) : Reverse(lst)[i] = lst[Len(lst) - i + 1]
<1>1. Len(lst) \in Nat /\ \A i \in 1 .. Len(lst) : Len(lst) - i + 1 \in 1 .. Len(lst)
  OBVIOUS
<1> QED
  BY <1>1 DEF Reverse

LEMMA SameStart ==
    ASSUME NEW a \in Seq(Order), NEW b \in Seq(Order), Len(a) <= Len(b), \A i \in 1 .. Len(a) : a[i] = b[i]
    PROVE  IsPrefix(a, b)
<1>1. Len(a) \in Nat /\ Len(b) \in Nat
  OBVIOUS
<1>2. SubSeq(a, 1, Len(a)) = SubSeq(b, 1, Len(a))
  BY <1>1
<1> QED
  BY <1>2 DEF IsPrefix

(* Whatever the limit, the orders page is the newest orders the shop ever   *)
(* had, newest first, as many as fit: recordOrder keeps a suffix of the     *)
(* list, though it looks at its length only after the first order.          *)
THEOREM NewestAreShown == Spec => []RestShowsNewest
<1>1. RestInv => RestShowsNewest
  <2> SUFFICES ASSUME RestInv, NEW shop \in Shops, NEW limit \in -1 .. MaxPage + 1
               PROVE  LET page == ListOrders(shop, limit)
                          all == Reverse(recorded[shop])
                          kept == IF Len(all) = SeedOrders \/ Len(all) < MaxRetained THEN Len(all) ELSE MaxRetained
                      IN  /\ IsPrefix(page, all)
                          /\ Len(page) = IF limit \in 1 .. MaxPage /\ limit < kept THEN limit
                                          ELSE IF limit \in 1 .. MaxPage \/ kept < Page THEN kept ELSE Page
    BY DEF RestShowsNewest
  <2> DEFINE o == orders[shop]
             r == recorded[shop]
             page == ListOrders(shop, limit)
             all == Reverse(r)
             kept == Len(o)
             n == IF limit <= 0 \/ limit > MaxPage THEN Page ELSE limit
             m == IF kept > n THEN n ELSE kept
  <2>1. o \in Seq(Order) /\ r \in Seq(Order) /\ limit \in Int
    BY FlowAssumption DEF RestInv
  <2>2. /\ kept = (IF Len(r) = SeedOrders \/ Len(r) < MaxRetained THEN Len(r) ELSE MaxRetained)
        /\ Len(r) >= SeedOrders
        /\ \A i \in 1 .. kept : o[i] = r[Len(r) - kept + i]
    BY DEF RestInv, Suffix
  <2>3. /\ all \in Seq(Order) /\ Len(all) = Len(r) /\ \A i \in 1 .. Len(r) : all[i] = r[Len(r) - i + 1]
        /\ Reverse(o) \in Seq(Order) /\ Len(Reverse(o)) = kept /\ \A i \in 1 .. kept : Reverse(o)[i] = o[kept - i + 1]
    BY <2>1, ReverseIs
  <2>4. page \in Seq(Order) /\ Len(page) = m /\ m \in Nat /\ \A i \in 1 .. m : page[i] = Reverse(o)[i]
    <3> DEFINE v == Reverse(o)
    <3>1. page = Clip(v, limit) /\ v \in Seq(Order) /\ Len(v) = kept
      BY <2>3 DEF ListOrders
    <3> HIDE DEF page, v, o
    <3>2. /\ Clip(v, limit) \in Seq(Order)
          /\ Len(Clip(v, limit)) = IF Len(v) > n THEN n ELSE Len(v)
          /\ (IF Len(v) > n THEN n ELSE Len(v)) \in Nat
          /\ \A i \in 1 .. (IF Len(v) > n THEN n ELSE Len(v)) : Clip(v, limit)[i] = v[i]
      BY <2>1, <3>1, ClipIs
    <3> QED
      BY <3>1, <3>2 DEF v
  <2>5. /\ Len(r) \in Nat /\ kept \in Nat /\ MaxRetained \in Nat \ {0} /\ SeedOrders \in Nat
        /\ MaxPage \in Nat /\ Page \in Nat /\ kept <= Len(r)
    BY <2>1, <2>2, FlowAssumption
  <2> HIDE DEF o, r, page, all, kept
  <2>6. m <= kept /\ m = IF limit \in 1 .. MaxPage /\ limit < kept THEN limit
                         ELSE IF limit \in 1 .. MaxPage \/ kept < Page THEN kept ELSE Page
    BY <2>1, <2>5
  <2> HIDE DEF m
  <2>7. ASSUME NEW i \in 1 .. m PROVE page[i] = all[i]
    <3>1. i \in 1 .. kept /\ i \in 1 .. Len(r) /\ kept - i + 1 \in 1 .. kept
          /\ Len(r) - kept + (kept - i + 1) = Len(r) - i + 1
      BY <2>4, <2>5, <2>6
    <3> QED
      BY <2>2, <2>3, <2>4, <3>1
  <2>8. IsPrefix(page, all)
    BY <2>3, <2>4, <2>5, <2>6, <2>7, SameStart
  <2> QED
    BY <2>2, <2>3, <2>4, <2>6, <2>8 DEF all, r, page, kept, o
<1> QED
  BY <1>1, ShopInvariant, RestStart, RestNext, PTL DEF Spec

-----------------------------------------------------------------------------
(* No announcement of the order made with event n is still to come: its own *)
(* webhook went out, or never will.                                         *)
Told(n) ==
    \/ n = 0 \/ n \in dropped \/ n \in slumped
    \/ \E j \in 1 .. Len(sent) : sent[j].n = n /\ sent[j].topic = "orders/create" /\ Own(sent[j])

(* ... or it is on its way, in the emitter's hands or on the channel.       *)
Known(n) ==
    \/ Told(n)
    \/ emitter.ev.n = n /\ emitter.ev.topic = "orders/create"
    \/ \E i \in 1 .. Len(events) : events[i].n = n /\ events[i].topic = "orders/create"

(* An event is of its own order, or of one that was known before it.        *)
Refers(e) == e.order = e.n \/ (e.order < e.n /\ Known(e.order))

Kept == \A s \in Shops : \A i \in 1 .. Len(orders[s]) : orders[s][i].n <= Behind /\ Known(orders[s][i].n)

Referring ==
    /\ Refers(mutator.ev) /\ Refers(emitter.ev)
    /\ \A i \in 1 .. Len(events) : Refers(events[i])

(* What the emitter posts is of the event it has; when the event's own      *)
(* webhook is out, so is the order's.                                       *)
Telling ==
    /\ \A i \in 1 .. Len(emitter.out) :
          emitter.out[i].order = emitter.ev.order /\ emitter.out[i].topic = emitter.ev.topic
    /\ emitter.ev # NoEvent /\ ~Waiting /\ emitter.ev.topic = "orders/create" => Told(emitter.ev.n)

NInv == Kept /\ Referring /\ Telling /\ OrderFirst

-----------------------------------------------------------------------------
(* The orders that can be referred to have numbers.                         *)
LEMMA OrdersAreNat ==
    ASSUME FInv
    PROVE  /\ NoEvent.n = 0 /\ NoEvent.order = 0 /\ NoEvent.topic # "orders/create"
           /\ \A e \in Event \cup {NoEvent} : e.n \in Nat /\ e.order \in Nat
           /\ mutator.ev \in Event \cup {NoEvent} /\ emitter.ev \in Event \cup {NoEvent}
           /\ \A i \in 1 .. Len(events) : events[i] \in Event
           /\ \A s \in Shops : \A i \in 1 .. Len(orders[s]) : orders[s][i].n \in Nat
<1>1. NoEvent.n = 0 /\ NoEvent.order = 0 /\ NoEvent.topic # "orders/create"
  BY DEF NoEvent
<1>2. \A e \in Event : e.n \in Nat /\ e.order \in Nat
  BY FlowAssumption DEF Event
<1>3. mutator.ev \in Event \cup {NoEvent} /\ emitter.ev \in Event \cup {NoEvent}
  BY DEF FInv, FlowTyped, Mutator, Emitter
<1>4. \A i \in 1 .. Len(events) : events[i] \in Event
  BY NumbersAreNat
<1>5. \A o \in Order : o.n \in Nat
  BY FlowAssumption DEF Order
<1>6. \A s \in Shops : orders[s] \in Seq(Order)
  BY DEF FInv, FlowTyped
<1>7. \A s \in Shops : \A i \in 1 .. Len(orders[s]) : orders[s][i] \in Order
  BY <1>6
<1> QED
  BY <1>1, <1>2, <1>3, <1>4, <1>5, <1>7

LEMMA ToldStays ==
    ASSUME dropped \subseteq dropped', slumped \subseteq slumped', UNCHANGED sent
    PROVE  (\A n : Told(n) => Told(n)') /\ (OrderFirst => OrderFirst')
<1>1. \A n : Told(n) => Told(n)'
  BY DEF Told, Own
<1>2. OrderFirst => OrderFirst'
  BY DEF OrderFirst, Own
<1> QED
  BY <1>1, <1>2

(* Nothing moves between the stations.                                      *)
LEMMA NRests ==
    ASSUME NInv, Behind' = Behind, Refers(mutator.ev)',
           UNCHANGED <<events, orders, dropped, slumped, sent>>, emitter'.ev = emitter.ev, emitter'.out = emitter.out
    PROVE  NInv'
<1>1. (\A n : Told(n)' <=> Told(n)) /\ (\A n : Known(n)' <=> Known(n)) /\ OrderFirst'
  BY ToldStays DEF Told, Known, Own, NInv
<1>2. Waiting' <=> Waiting
  BY DEF Waiting, Own
<1>3. Kept'
  BY <1>1 DEF NInv, Kept
<1>4. Referring'
  BY <1>1 DEF NInv, Referring, Refers
<1>5. Telling'
  BY <1>1, <1>2 DEF NInv, Telling
<1> QED
  BY <1>1, <1>3, <1>4, <1>5 DEF NInv

LEMMA InitN == Init => NInv
<1> SUFFICES ASSUME Init PROVE NInv
  OBVIOUS
<1>1. /\ events = <<>> /\ sent = <<>> /\ made = 0
      /\ mutator.ev = NoEvent /\ emitter.ev = NoEvent /\ emitter.out = <<>>
      /\ orders = [s \in Shops |-> Seeds(IndexOf(s))]
  BY DEF Init, Resting
<1>2. Behind = 0 /\ Len(events) = 0 /\ DOMAIN sent = {} /\ Len(emitter.out) = 0
  BY <1>1 DEF Behind
<1>3. \A s \in Shops : \A i \in 1 .. Len(orders[s]) : orders[s][i].n = 0
  BY <1>1, FlowAssumption DEF Seeds
<1>4. Kept
  BY <1>2, <1>3 DEF Kept, Known, Told
<1>5. Referring
  BY <1>1, <1>2 DEF Referring, Refers, NoEvent
<1>6. Telling
  BY <1>1, <1>2 DEF Telling
<1>7. OrderFirst
  BY <1>2 DEF OrderFirst
<1> QED
  BY <1>4, <1>5, <1>6, <1>7 DEF NInv

LEMMA EmitRefers ==
    ASSUME FInv, NInv, NEW topic \in Topics,
           NEW o \in {NoOrder} \cup UNION {ToSet(orders[s]) : s \in Shops}, Emit(topic, o)
    PROVE  NInv'
<1>1. /\ mutator.at = "idle" /\ made' = made + 1 /\ mutator'.ev.n = made + 1
      /\ mutator'.ev.order = made + 1 \/ mutator'.ev.order = o.n
      /\ UNCHANGED <<events, orders, emitter, dropped, slumped, sent>>
  BY DEF Emit
<1>2. mutator.ev = NoEvent /\ mutator'.ev # NoEvent /\ made \in Nat
  BY <1>1, NumbersAreNat DEF FInv, Placed, NoEvent
<1>3. Behind' = Behind /\ Behind = made
  BY <1>1, <1>2 DEF Behind
<1>4. o.n < made + 1 /\ Known(o.n)
  <2>1. CASE o = NoOrder
    BY <1>2, <2>1 DEF NoOrder, Known, Told
  <2>2. CASE o # NoOrder
    <3>1. PICK s \in Shops : o \in ToSet(orders[s])
      BY <2>2
    <3>2. PICK i \in 1 .. Len(orders[s]) : o = orders[s][i]
      <4>1. orders[s] \in Seq(Order)
        BY DEF FInv, FlowTyped
      <4>2. DOMAIN orders[s] = 1 .. Len(orders[s])
        BY <4>1
      <4> QED
        BY <3>1, <4>2 DEF ToSet
    <3>3. orders[s][i].n <= Behind /\ Known(orders[s][i].n) /\ orders[s][i].n \in Nat
      BY OrdersAreNat DEF NInv, Kept
    <3> QED
      BY <1>2, <1>3, <3>2, <3>3
  <2> QED
    BY <2>1, <2>2
<1>5. Known(o.n)'
  BY <1>1, <1>4 DEF Known, Told, Own
<1>6. Refers(mutator.ev)'
  <2>1. CASE mutator'.ev.order = made + 1
    BY <1>1, <2>1 DEF Refers
  <2>2. CASE mutator'.ev.order = o.n
    BY <1>1, <1>4, <1>5, <2>2 DEF Refers
  <2> QED
    BY <1>1, <2>1, <2>2
<1> QED
  BY <1>1, <1>3, <1>6, NRests

LEMMA MutatorDrawsRefers == ASSUME FInv, QInv, NInv, MutatorDraws PROVE NInv'
<1>1. /\ mutator.at = "drawn" /\ mutator' = [mutator EXCEPT !.at = "send", !.reg = 0, !.ev.id = mutator.reg]
      /\ UNCHANGED <<events, orders, emitter, made, dropped, slumped, sent>>
  BY DEF MutatorDraws, countVars
<1>2. mutator \in Mutator /\ mutator.ev \in Event /\ mutator.ev # NoEvent /\ mutator.reg \in Int
  BY <1>1, NoEventIsNone DEF FInv, FlowTyped, Placed, Mutator
<1>3. mutator'.ev = [mutator.ev EXCEPT !.id = mutator.reg]
  BY <1>1, <1>2 DEF Mutator
<1>4. mutator'.ev.n = mutator.ev.n /\ mutator'.ev.order = mutator.ev.order /\ mutator'.ev \in Event
  BY <1>2, <1>3 DEF Event
<1>5. mutator'.ev # NoEvent
  BY <1>4, NoEventIsNone
<1>6. Behind' = Behind
  BY <1>1, <1>2, <1>5 DEF Behind
<1>7. \A n : Known(n)' <=> Known(n)
  BY <1>1 DEF Known, Told, Own
<1>8. Refers(mutator.ev)'
  BY <1>4, <1>7 DEF Refers, NInv, Referring
<1> QED
  BY <1>1, <1>6, <1>8, NRests

LEMMA RetainedFrom ==
    ASSUME NEW lst \in Seq(Order)
    PROVE  \A i \in 1 .. Len(Retained(lst)) : \E k \in 1 .. Len(lst) : Retained(lst)[i] = lst[k]
<1>1. Len(lst) \in Nat /\ MaxRetained \in Nat \ {0}
  BY FlowAssumption
<1> DEFINE l == Len(lst)
           r == IF l > MaxRetained THEN MaxRetained ELSE l
           res == Retained(lst)
<1>2. Len(res) = r /\ \A i \in 1 .. r : res[i] = lst[l - r + i]
  BY RetainedIs
<1> HIDE DEF l, res
<1>3. l \in Nat
  BY <1>1 DEF l
<1>4. \A i \in 1 .. r : l - r + i \in 1 .. l
  BY <1>1, <1>3
<1> HIDE DEF r
<1>5. \A i \in 1 .. Len(res) : \E k \in 1 .. l : res[i] = lst[k]
  BY <1>2, <1>4
<1> QED
  BY <1>5 DEF l, res

LEMMA MutatorSendsRefers == ASSUME FInv, QInv, NInv, MutatorSends PROVE NInv'
<1> DEFINE ev == mutator.ev
           o == [n |-> ev.n, id |-> ev.id]
<1>1. /\ mutator.at = "send" /\ mutator' = [mutator EXCEPT !.at = "idle", !.ev = NoEvent]
      /\ RecordOrder(ev)
      /\ \/ events' = Append(events, ev) /\ UNCHANGED dropped
         \/ dropped' = dropped \cup {ev.n} /\ UNCHANGED events
      /\ UNCHANGED <<emitter, made, slumped, sent>>
  BY DEF MutatorSends
<1>2. mutator \in Mutator /\ ev \in Event /\ ev # NoEvent /\ mutator'.ev = NoEvent
  BY <1>1, NoEventIsNone DEF FInv, FlowTyped, Placed, Mutator
<1>3. ev.n = made /\ Behind = made - 1 /\ Behind' = made /\ made \in Nat
  BY <1>1, <1>2, NumbersAreNat DEF Behind, QInv, Numbered
<1>4. /\ Len(events) \in Nat
      /\ \A i \in 1 .. Len(events) : i \in 1 .. Len(events') /\ events'[i] = events[i]
      /\ \A i \in 1 .. Len(events') : i \in 1 .. Len(events) \/ events'[i] = ev
      /\ ev.n \in dropped' \/ \E i \in 1 .. Len(events') : events'[i] = ev
      /\ dropped \subseteq dropped'
  <2>1. events \in Seq(Event) /\ Len(events) \in Nat
    BY NumbersAreNat
  <2>2. CASE events' = Append(events, ev) /\ UNCHANGED dropped
    <3>1. /\ Len(events') = Len(events) + 1 /\ events'[Len(events) + 1] = ev
          /\ \A i \in 1 .. Len(events) : events'[i] = events[i]
      BY <1>2, <2>1, <2>2
    <3>2. /\ Len(events) + 1 \in 1 .. Len(events')
          /\ \A i \in 1 .. Len(events) : i \in 1 .. Len(events')
          /\ \A i \in 1 .. Len(events') : i \in 1 .. Len(events) \/ i = Len(events) + 1
      BY <2>1, <3>1
    <3> QED
      BY <2>1, <2>2, <3>1, <3>2
  <2>3. CASE dropped' = dropped \cup {ev.n} /\ UNCHANGED events
    BY <2>1, <2>3
  <2> QED
    BY <1>1, <2>2, <2>3
<1>5. /\ \A n : Told(n) => Told(n)'
      /\ OrderFirst'
  BY <1>1, <1>4, ToldStays DEF NInv
<1>6. \A n : Known(n) => Known(n)'
  BY <1>1, <1>4, <1>5 DEF Known
<1>7. \A n : n = ev.n /\ ev.topic = "orders/create" => Known(n)'
  <2>1. \A n : n \in dropped' => Known(n)'
    BY DEF Known, Told
  <2>2. ASSUME NEW i \in 1 .. Len(events'), events'[i] = ev PROVE \A n : n = ev.n /\ ev.topic = "orders/create" => Known(n)'
    BY <2>2 DEF Known
  <2> QED
    BY <1>4, <2>1, <2>2
<1>8. Referring'
  <2>1. Refers(mutator.ev)'
    BY <1>2 DEF Refers, NoEvent
  <2>2. Refers(emitter.ev)'
    BY <1>1, <1>6 DEF Refers, NInv, Referring
  <2>3. ASSUME NEW i \in 1 .. Len(events') PROVE Refers(events[i])'
    <3>1. CASE i \in 1 .. Len(events)
      <4>1. events'[i] = events[i] /\ Refers(events[i])
        BY <1>4, <3>1 DEF NInv, Referring
      <4> QED
        BY <1>6, <4>1 DEF Refers
    <3>2. CASE events'[i] = ev
      <4>1. Refers(ev)
        BY DEF NInv, Referring
      <4> QED
        BY <1>6, <3>2, <4>1 DEF Refers
    <3> QED
      BY <1>4, <3>1, <3>2
  <2> QED
    BY <2>1, <2>2, <2>3 DEF Referring
<1>9. Telling'
  <2>1. Waiting' <=> Waiting
    BY <1>1 DEF Waiting, Own
  <2> QED
    BY <1>1, <1>5, <2>1 DEF NInv, Telling
<1>10. Kept'
  <2>1. \A s \in Shops : \A i \in 1 .. Len(orders[s]) : \A n : n = orders[s][i].n => n <= made /\ Known(n)'
    <3> SUFFICES ASSUME NEW s \in Shops, NEW i \in 1 .. Len(orders[s]), NEW n, n = orders[s][i].n
                 PROVE  n <= made /\ Known(n)'
      OBVIOUS
    <3>1. n <= Behind /\ Known(n) /\ n \in Nat
      BY OrdersAreNat DEF NInv, Kept
    <3> QED
      BY <1>3, <1>6, <3>1
  <2>2. CASE ev.topic # "orders/create"
    <3>1. orders' = orders
      BY <1>1, <2>2 DEF RecordOrder
    <3> QED
      BY <1>3, <2>1, <3>1 DEF Kept
  <2>3. CASE ev.topic = "orders/create"
    <3>1. ev.shop \in Shops /\ o \in Order /\ o.n = made
      BY <1>2, <1>3, FlowAssumption DEF Event, Order
    <3> DEFINE sh == ev.shop
               lst == Append(orders[sh], o)
    <3>2. orders' = [orders EXCEPT ![sh] = Retained(lst)] /\ orders \in [Shops -> Seq(Order)]
      BY <1>1, <2>3 DEF RecordOrder, FInv, FlowTyped
    <3> HIDE DEF o
    <3>3. lst \in Seq(Order) /\ \A k \in 1 .. Len(lst) : lst[k] = o \/ \E i \in 1 .. Len(orders[sh]) : lst[k] = orders[sh][i]
      <4>1. orders[sh] \in Seq(Order)
        BY <3>1, <3>2
      <4> QED
        BY <3>1, <4>1
    <3> HIDE DEF lst
    <3>4. \A n : n = made => n <= made /\ Known(n)'
      BY <1>3, <1>7, <2>3
    <3>5. \A k \in 1 .. Len(lst) : \A n : n = lst[k].n => n <= made /\ Known(n)'
      BY <2>1, <3>1, <3>3, <3>4
    <3> DEFINE res == Retained(lst)
    <3>6. \A i \in 1 .. Len(res) : \E k \in 1 .. Len(lst) : res[i] = lst[k]
      BY <3>3, RetainedFrom
    <3> HIDE DEF res
    <3>7. \A i \in 1 .. Len(res) : \A n : n = res[i].n => n <= made /\ Known(n)'
      BY <3>5, <3>6
    <3>8. \A s \in Shops : orders'[s] = IF s = sh THEN res ELSE orders[s]
      BY <3>1, <3>2 DEF res
    <3> HIDE DEF sh
    <3>9. ASSUME NEW s \in Shops, NEW i \in 1 .. Len(orders'[s]) PROVE \A n : n = orders'[s][i].n => n <= made /\ Known(n)'
      <4>1. CASE s = sh
        BY <3>7, <3>8, <4>1
      <4>2. CASE s # sh
        BY <2>1, <3>8, <4>2
      <4> QED
        BY <4>1, <4>2
    <3> QED
      BY <1>3, <3>9 DEF Kept
  <2> QED
    BY <2>2, <2>3
<1> QED
  BY <1>5, <1>8, <1>9, <1>10 DEF NInv

LEMMA ReceiveRefers == ASSUME FInv, NInv, Receive PROVE NInv'
<1> DEFINE ev == Head(events)
<1>1. /\ emitter.at = "idle" /\ events # <<>> /\ events' = Tail(events)
      /\ \/ slumped' = slumped \cup {ev.n} /\ UNCHANGED emitter
         \/ emitter' = [emitter EXCEPT !.at = "incident", !.ev = ev] /\ UNCHANGED slumped
      /\ UNCHANGED <<mutator, orders, made, dropped, sent>>
  BY DEF Receive, storeVars
<1>2. emitter.ev = NoEvent /\ emitter.out = <<>> /\ emitter \in Emitter /\ emitter.ev.topic # "orders/create"
  BY <1>1, OrdersAreNat DEF FInv, FlowTyped, Placed
<1>3. /\ ev \in Event /\ ev # NoEvent /\ Refers(ev)
      /\ \A i \in 1 .. Len(events') : \E k \in 1 .. Len(events) : events'[i] = events[k]
      /\ \A k \in 1 .. Len(events) : events[k] = ev \/ \E i \in 1 .. Len(events') : events'[i] = events[k]
  <2>1. events \in Seq(Event) /\ Len(events) \in Nat \ {0}
    BY <1>1, NumbersAreNat, EmptySeq, Zenon
  <2>2. Len(events') = Len(events) - 1 /\ ev = events[1]
    BY <1>1, <2>1
  <2>3. \A i \in 1 .. Len(events') : events'[i] = events[i + 1]
    BY <1>1, <2>1, HeadTailProperties
  <2>4. \A i \in 1 .. Len(events') : i + 1 \in 1 .. Len(events)
    BY <2>1, <2>2
  <2>5. \A k \in 1 .. Len(events) : k = 1 \/ (k - 1 \in 1 .. Len(events') /\ (k - 1) + 1 = k)
    BY <2>1, <2>2
  <2>6. 1 \in 1 .. Len(events)
    BY <2>1
  <2>7. Refers(events[1]) /\ events[1] \in Event
    BY <2>1, <2>6 DEF NInv, Referring
  <2>8. \A k \in 1 .. Len(events) : k = 1 \/ \E i \in 1 .. Len(events') : events'[i] = events[k]
    BY <2>3, <2>5
  <2> QED
    BY <2>2, <2>3, <2>4, <2>7, <2>8, NoEventIsNone
<1> HIDE DEF ev
<1>4. \/ slumped' = slumped \cup {ev.n} /\ UNCHANGED emitter
      \/ emitter'.ev = ev /\ emitter'.out = <<>> /\ UNCHANGED slumped
  BY <1>1, <1>2 DEF Emitter
<1>5. (\A n : Told(n) => Told(n)') /\ OrderFirst'
  BY <1>1, <1>4, ToldStays DEF NInv
<1>6. \A n : n = ev.n /\ ev.topic = "orders/create" => Known(n)'
  BY <1>4 DEF Known, Told
<1>7. ASSUME NEW n, Known(n) PROVE Known(n)'
  <2>1. CASE Told(n)
    BY <1>5, <2>1 DEF Known
  <2>2. CASE \E k \in 1 .. Len(events) : events[k].n = n /\ events[k].topic = "orders/create"
    <3>1. PICK k \in 1 .. Len(events) : events[k].n = n /\ events[k].topic = "orders/create"
      BY <2>2
    <3>2. CASE events[k] = ev
      BY <1>6, <3>1, <3>2
    <3>3. CASE \E i \in 1 .. Len(events') : events'[i] = events[k]
      BY <3>1, <3>3 DEF Known
    <3> QED
      BY <1>3, <3>2, <3>3
  <2> QED
    BY <1>2, <1>7, <2>1, <2>2 DEF Known
<1>8. Kept'
  <2>1. Behind' = Behind
    BY <1>1 DEF Behind
  <2> QED
    BY <1>1, <1>7, <2>1 DEF NInv, Kept
<1>9. Referring'
  <2>1. Refers(mutator.ev)'
    BY <1>1, <1>7 DEF NInv, Referring, Refers
  <2>2. Refers(emitter.ev)'
    BY <1>2, <1>3, <1>4, <1>7 DEF Refers, NoEvent
  <2>3. ASSUME NEW i \in 1 .. Len(events') PROVE Refers(events[i])'
    <3>1. PICK k \in 1 .. Len(events) : events'[i] = events[k]
      BY <1>3
    <3>2. Refers(events[k])
      BY DEF NInv, Referring
    <3> QED
      BY <1>7, <3>1, <3>2 DEF Refers
  <2> QED
    BY <2>1, <2>2, <2>3 DEF Referring
<1>10. Telling'
  <2>1. emitter'.out = <<>>
    BY <1>2, <1>4
  <2>2. Waiting' \/ emitter'.ev = NoEvent
    BY <2>1 DEF Waiting
  <2>3. Len(emitter'.out) = 0
    BY <2>1
  <2> QED
    BY <2>2, <2>3 DEF Telling
<1> QED
  BY <1>5, <1>8, <1>9, <1>10 DEF NInv

(* A longer list of webhooks of the event at hand.                          *)
LEMMA OutRefers ==
    ASSUME NInv, UNCHANGED <<mutator, orders, made, events, dropped, slumped, sent>>,
           emitter'.ev = emitter.ev, Waiting' <=> Waiting,
           \A i \in 1 .. Len(emitter'.out) :
               emitter'.out[i].order = emitter.ev.order /\ emitter'.out[i].topic = emitter.ev.topic
    PROVE  NInv'
<1>1. /\ Behind' = Behind
      /\ \A n : Told(n)' <=> Told(n)
      /\ \A n : Known(n)' <=> Known(n)
      /\ OrderFirst'
  BY ToldStays DEF Behind, Told, Known, Own, NInv
<1>2. Kept'
  BY <1>1 DEF NInv, Kept
<1>3. Referring'
  BY <1>1 DEF NInv, Referring, Refers
<1>4. Telling'
  BY <1>1 DEF NInv, Telling
<1> QED
  BY <1>1, <1>2, <1>3, <1>4 DEF NInv

LEMMA CheckIncidentRefers ==
    ASSUME FInv, NInv, NEW declined \in BOOLEAN, NEW cancel \in BOOLEAN, NEW refund \in BOOLEAN,
           CheckIncident(declined, cancel, refund)
    PROVE  NInv'
<1> DEFINE ev == emitter.ev
           own == Hook(ev, IF declined THEN "declined" ELSE "event")
           out == FanOut(ev, declined, cancel)
<1>1. /\ emitter.at = "incident"
      /\ emitter' = [emitter EXCEPT !.out = out, !.at = IF refund THEN "drawn" ELSE "post",
                                    !.reg = IF refund THEN idSeq + 1 ELSE 0]
      /\ UNCHANGED <<events, orders, mutator, made, dropped, slumped, sent>>
  BY DEF CheckIncident, countVars
<1>2. emitter \in Emitter /\ emitter.out = <<>> /\ ev # NoEvent
  BY <1>1 DEF FInv, FlowTyped, Placed
<1>3. /\ own.order = ev.order /\ own.topic = ev.topic /\ Own(own)
      /\ Hook(ev, "cancelled").order = ev.order /\ Hook(ev, "cancelled").topic = ev.topic
  BY DEF Hook, Own
<1>4. /\ out # <<>> /\ Head(out) = own
      /\ \A i \in 1 .. Len(out) : out[i] = own \/ (cancel /\ out[i] = Hook(ev, "cancelled"))
  BY FanOutIs
<1> HIDE DEF own, out
<1>5. emitter'.out = out /\ emitter'.ev = ev
  BY <1>1, <1>2 DEF Emitter
<1>6. Waiting' /\ Waiting
  BY <1>2, <1>3, <1>4, <1>5 DEF Waiting, Own
<1>7. \A i \in 1 .. Len(emitter'.out) : emitter'.out[i].order = emitter.ev.order /\ emitter'.out[i].topic = emitter.ev.topic
  BY <1>3, <1>4, <1>5
<1> QED
  BY <1>1, <1>5, <1>6, <1>7, OutRefers

LEMMA EmitterDrawsRefers == ASSUME FInv, NInv, EmitterDraws PROVE NInv'
<1> DEFINE hook == Hook(emitter.ev, "refund")
<1>1. /\ emitter.at = "drawn"
      /\ emitter' = [emitter EXCEPT !.at = "post", !.reg = 0, !.out = Append(emitter.out, hook)]
      /\ UNCHANGED <<events, orders, mutator, made, dropped, slumped, sent>>
  BY DEF EmitterDraws, countVars
<1>2. emitter \in Emitter /\ emitter.out # <<>> /\ emitter.ev \in Event /\ emitter.out \in Seq(Hooks)
  BY <1>1 DEF FInv, FlowTyped, Placed, Emitter
<1>3. hook.order = emitter.ev.order /\ hook.topic = emitter.ev.topic /\ hook \in Hooks
  BY <1>2, HookTyped DEF Hook
<1> HIDE DEF hook
<1>4. emitter'.out = Append(emitter.out, hook) /\ emitter'.ev = emitter.ev
  BY <1>1, <1>2 DEF Emitter
<1>5. /\ emitter'.out # <<>> /\ Head(emitter'.out) = Head(emitter.out)
      /\ \A i \in 1 .. Len(emitter'.out) : emitter'.out[i] = hook \/ \E k \in 1 .. Len(emitter.out) : emitter'.out[i] = emitter.out[k]
  BY <1>2, <1>3, <1>4
<1>6. Waiting' <=> Waiting
  BY <1>2, <1>4, <1>5 DEF Waiting, Own
<1>7. \A i \in 1 .. Len(emitter'.out) : emitter'.out[i].order = emitter.ev.order /\ emitter'.out[i].topic = emitter.ev.topic
  BY <1>3, <1>5 DEF NInv, Telling
<1> QED
  BY <1>1, <1>4, <1>6, <1>7, OutRefers

LEMMA DeliverRefers == ASSUME FInv, QInv, NInv, Deliver PROVE NInv'
<1> DEFINE h == Head(emitter.out)
           ev == emitter.ev
<1>1. /\ emitter.at = "post" /\ sent' = Append(sent, h)
      /\ emitter' = IF Len(emitter.out) = 1 THEN Resting ELSE [emitter EXCEPT !.out = Tail(emitter.out)]
      /\ UNCHANGED <<events, mutator, orders, made, dropped, slumped>>
  BY DEF Deliver, storeVars
<1>2. emitter \in Emitter /\ emitter.out # <<>> /\ ev # NoEvent /\ emitter.out \in Seq(Hooks)
  BY <1>1 DEF FInv, FlowTyped, Placed, Emitter
<1>3. /\ Len(emitter.out) \in Nat \ {0} /\ h = emitter.out[1] /\ h \in Hooks /\ 1 \in 1 .. Len(emitter.out)
  <2>1. Len(emitter.out) \in Nat \ {0}
    BY <1>2, EmptySeq, Zenon
  <2>2. h \in Hooks
    BY <1>2, HeadTailProperties, Zenon
  <2>3. h = emitter.out[1] /\ 1 \in 1 .. Len(emitter.out)
    BY <1>2, <2>1
  <2> QED
    BY <2>1, <2>2, <2>3
<1>4. /\ h.n = ev.n /\ h.order = ev.order /\ h.topic = ev.topic /\ (Waiting <=> Own(h))
  BY <1>2, <1>3 DEF QInv, Fanned, Waiting, NInv, Telling
<1> HIDE DEF h
<1>5. /\ Len(sent) \in Nat /\ Len(sent') = Len(sent) + 1 /\ sent'[Len(sent) + 1] = h
      /\ \A j \in 1 .. Len(sent) : sent'[j] = sent[j]
      /\ DOMAIN sent = 1 .. Len(sent) /\ DOMAIN sent' = 1 .. Len(sent')
  BY <1>1, <1>3, NumbersAreNat
<1>6. /\ Len(sent) + 1 \in 1 .. Len(sent') /\ \A j \in 1 .. Len(sent) : j \in 1 .. Len(sent')
      /\ \A j \in 1 .. Len(sent') : j = Len(sent) + 1 \/ j \in 1 .. Len(sent)
      /\ (Len(sent) + 1) - 1 = Len(sent)
  BY <1>5
<1>7. \A n : Told(n) => Told(n)'
  BY <1>1, <1>5, <1>6 DEF Told, Own
<1>8. \A n : n = ev.n /\ ev.topic = "orders/create" => Told(n)'
  <2>1. CASE Own(h)
    BY <1>4, <1>5, <1>6, <2>1 DEF Told, Own
  <2>2. CASE ~Own(h)
    BY <1>2, <1>4, <1>7, <2>2 DEF NInv, Telling
  <2> QED
    BY <2>1, <2>2
<1>9. \A n : Known(n) => Known(n)'
  BY <1>1, <1>7, <1>8 DEF Known
<1>10. OrderFirst'
  <2>1. ASSUME NEW j \in DOMAIN sent'
        PROVE  \/ sent'[j].order \in {0, sent'[j].n} \cup dropped' \cup slumped'
               \/ \E i \in 1 .. j - 1 : sent'[i].n = sent'[j].order /\ sent'[i].topic = "orders/create" /\ Own(sent'[i])
    <3>1. CASE j = Len(sent) + 1
      <4>1. ev.order \in {0, ev.n} \cup dropped \cup slumped \/ (ev.order < ev.n /\ Known(ev.order))
        BY DEF NInv, Referring, Refers
      <4>2. ASSUME ev.order < ev.n, Known(ev.order) PROVE Told(ev.order)
        <5>1. ev.n \in Nat /\ ev.order \in Nat
          BY OrdersAreNat
        <5>2. \A i \in 1 .. Len(events) : events[i].n \in Nat /\ ev.n < events[i].n
          BY <1>2, NumbersAreNat DEF QInv, Numbered
        <5>3. ev.n # ev.order /\ \A i \in 1 .. Len(events) : events[i].n # ev.order
          BY <4>2, <5>1, <5>2
        <5> QED
          BY <4>2, <5>3 DEF Known
      <4>3. sent'[j].order = ev.order /\ sent'[j].n = ev.n /\ j - 1 = Len(sent)
        BY <1>4, <1>5, <1>6, <3>1
      <4>4. CASE Told(ev.order) /\ ev.order \notin {0} \cup dropped \cup slumped
        <5>1. PICK i \in 1 .. Len(sent) : sent[i].n = ev.order /\ sent[i].topic = "orders/create" /\ Own(sent[i])
          BY <4>4 DEF Told
        <5> QED
          BY <1>5, <4>3, <5>1
      <4> QED
        BY <1>1, <4>1, <4>2, <4>3, <4>4
    <3>2. CASE j \in 1 .. Len(sent)
      <4>1. \A i \in 1 .. j - 1 : i \in 1 .. Len(sent)
        BY <1>5, <3>2
      <4>2. \/ sent[j].order \in {0, sent[j].n} \cup dropped \cup slumped
            \/ \E i \in 1 .. j - 1 : sent[i].n = sent[j].order /\ sent[i].topic = "orders/create" /\ Own(sent[i])
        BY <1>5, <3>2 DEF NInv, OrderFirst
      <4> QED
        BY <1>1, <1>5, <3>2, <4>1, <4>2
    <3> QED
      BY <1>5, <1>6, <3>1, <3>2
  <2> QED
    BY <2>1 DEF OrderFirst, Own
<1>11. Kept'
  <2>1. Behind' = Behind
    BY <1>1 DEF Behind
  <2> QED
    BY <1>1, <1>9, <2>1 DEF NInv, Kept
<1>12. emitter'.ev = ev \/ emitter'.ev = NoEvent
  BY <1>1, <1>2 DEF Emitter, Resting
<1>13. Referring'
  <2>1. Refers(mutator.ev)' /\ \A i \in 1 .. Len(events') : Refers(events[i])'
    BY <1>1, <1>9 DEF NInv, Referring, Refers
  <2>2. Refers(emitter.ev)'
    BY <1>9, <1>12 DEF NInv, Referring, Refers, NoEvent
  <2> QED
    BY <2>1, <2>2 DEF Referring
<1>14. Telling'
  <2>1. CASE Len(emitter.out) = 1
    <3>1. emitter'.ev = NoEvent /\ emitter'.out = <<>>
      BY <1>1, <2>1 DEF Resting
    <3>2. Len(emitter'.out) = 0
      BY <3>1
    <3> QED
      BY <3>1, <3>2 DEF Telling
  <2>2. CASE Len(emitter.out) # 1
    <3>1. emitter'.ev = ev /\ emitter'.out = Tail(emitter.out)
      BY <1>1, <1>2, <2>2 DEF Emitter
    <3>2. \A i \in 1 .. Len(emitter'.out) : i + 1 \in 1 .. Len(emitter.out) /\ emitter'.out[i] = emitter.out[i + 1]
      <4>1. /\ Len(emitter'.out) = Len(emitter.out) - 1
            /\ \A i \in 1 .. Len(emitter'.out) : emitter'.out[i] = emitter.out[i + 1]
        BY <1>2, <3>1, HeadTailProperties
      <4> QED
        BY <1>3, <4>1
    <3> QED
      BY <1>8, <3>1, <3>2 DEF NInv, Telling
  <2> QED
    BY <2>1, <2>2
<1> QED
  BY <1>10, <1>11, <1>13, <1>14 DEF NInv

LEMMA NNext == FInv /\ QInv /\ NInv /\ [Next]_vars => NInv'
<1> SUFFICES ASSUME FInv, QInv, NInv, [Next]_vars PROVE NInv'
  OBVIOUS
<1>1. ASSUME UNCHANGED <<mutator.ev, orders, made, events, dropped, slumped, sent, emitter.ev, emitter.out>> PROVE NInv'
  <2>1. Behind' = Behind /\ Refers(mutator.ev)'
    <3>1. \A n : Known(n)' <=> Known(n)
      BY <1>1 DEF Known, Told, Own
    <3> QED
      BY <1>1, <3>1 DEF Behind, NInv, Referring, Refers
  <2> QED
    BY <1>1, <2>1, NRests
<1>2. CASE Mutates
  <2>1. CASE Emits
    <3>1. PICK t \in Topics, o \in {NoOrder} \cup UNION {ToSet(orders[s]) : s \in Shops} : Emit(t, o)
      BY <2>1 DEF Emits
    <3> QED
      BY <3>1, EmitRefers
  <2>2. CASE MutatorReturns
    <3>1. mutator'.ev = mutator.ev
      BY <2>2 DEF MutatorReturns, FInv, FlowTyped, Mutator
    <3> QED
      BY <1>1, <2>2, <3>1 DEF MutatorReturns, countVars, storeVars
  <2> QED
    BY <1>2, <2>1, <2>2, MutatorDrawsRefers, MutatorSendsRefers DEF Mutates
<1>3. CASE Handles
  BY <1>3, ReceiveRefers, CheckIncidentRefers DEF Handles
<1>4. CASE Posts
  <2>1. CASE EmitterReturns
    <3>1. emitter'.ev = emitter.ev /\ emitter'.out = emitter.out
      BY <2>1 DEF EmitterReturns, FInv, FlowTyped, Emitter
    <3> QED
      BY <1>1, <2>1, <3>1 DEF EmitterReturns, countVars, storeVars
  <2> QED
    BY <1>4, <2>1, EmitterDrawsRefers, DeliverRefers DEF Posts
<1>5. CASE Cancel
  BY <1>1, <1>5 DEF Cancel, countVars, storeVars
<1>6. CASE UNCHANGED flowVars
  BY <1>1, <1>6 DEF flowVars, countVars, storeVars
<1> QED
  BY <1>2, <1>3, <1>4, <1>5, <1>6 DEF Next, vars

(* A payment, a cancellation, a refund or a transaction that names an order *)
(* is posted after the order itself, or the order never will be: channel    *)
(* and emitter keep the mutator's order, and what the store still offers to *)
(* later events has left its hands before them.                             *)
THEOREM OrdersGoFirst == Spec => []OrderFirst
<1>1. NInv => OrderFirst
  BY DEF NInv
<1> QED
  BY <1>1, ShopInvariant, OrderInvariant, InitN, NNext, PTL DEF Spec
=============================================================================
