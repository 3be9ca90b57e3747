---------------------------- MODULE OrderFlowProofs ----------------------------
(* Proofs about OrderFlow, for any requests, readers, ids and attempts.     *)
EXTENDS OrderFlow, TLAPS

(* A call that was heard of is over.                                       *)
HeardIsOver ==
    \A r \in Requests : \A n \in heard[r] : charge[r][n] \in {"completed", "failed"}

(* No call is made ahead of the loop, nor the current one before its time. *)
NoneAhead ==
    \A r \in Requests : \A n \in Attempts :
        n > attempt[r] \/ (n = attempt[r] /\ at[r] \in {"new", "call"}) => charge[r][n] = "none"

(* Where a request stands says what it has heard.                          *)
PlaceKnows ==
    \A r \in Requests :
        /\ at[r] \in {"new", "call", "wait", "refuse"} => ~HeardPaid(r)
        /\ at[r] \in {"confirm", "publish"} => HeardPaid(r)

(* A refused order's request is over, so it hears nothing any more.        *)
RefusedIsOver == \A c \in Copies : c.status = "payment_failed" => at[c.by] = "done"

OInv ==
    /\ TypeOK /\ HeardIsOver /\ NoneAhead /\ PlaceKnows /\ RefusedIsOver
    /\ StatusIsWhatWasHeard /\ ChargedAgainOnlyIfLost

-----------------------------------------------------------------------------
LEMMA CopiesTyped == TypeOK => Copies \subseteq Record \cup {None}
BY DEF TypeOK, Copies, Idle, None, Record

LEMMA InitO == Init => OInv
<1> SUFFICES ASSUME Init PROVE OInv
  OBVIOUS
<1> USE DEF Init
<1>1. TypeOK
  BY OrderAssumption DEF TypeOK, Idle, Attempts
<1>2. Copies \subseteq {None}
  BY DEF Copies, Idle
<1>3. HeardIsOver /\ PlaceKnows
  BY DEF HeardIsOver, PlaceKnows, HeardPaid
<1>4. NoneAhead /\ ChargedAgainOnlyIfLost
  BY DEF NoneAhead, ChargedAgainOnlyIfLost
<1>5. RefusedIsOver /\ StatusIsWhatWasHeard
  BY <1>2 DEF RefusedIsOver, StatusIsWhatWasHeard, None
<1> QED
  BY <1>1, <1>3, <1>4, <1>5 DEF OInv

-----------------------------------------------------------------------------
(* Copies only come from copies, and from what Store writes.               *)
LEMMA CopiesKept ==
    ASSUME UNCHANGED <<orders, cache, reader>>
    PROVE  Copies' = Copies
BY DEF Copies

LEMMA CopiesStored ==
    ASSUME TypeOK, NEW r \in Requests, NEW status, Store(r, status), UNCHANGED <<cache, reader>>
    PROVE  Copies' \subseteq Copies \cup {[by |-> r, status |-> status]}
BY DEF TypeOK, Store, Copies

(* The payment's part of the invariant, for a step that leaves it alone.   *)
LEMMA PaymentKept ==
    ASSUME OInv, UNCHANGED <<attempt, charge, heard>>,
           \A r \in Requests : at'[r] \in {"new", "call"} => at[r] \in {"new", "call"}
    PROVE  /\ HeardIsOver' /\ NoneAhead' /\ ChargedAgainOnlyIfLost'
           /\ \A r : HeardPaid(r)' <=> HeardPaid(r)
BY DEF OInv, HeardIsOver, NoneAhead, ChargedAgainOnlyIfLost, HeardPaid

(* The records' part, for a step that adds no copy.                        *)
LEMMA NoNewCopy ==
    ASSUME OInv, Copies' \subseteq Copies,
           \A r \in Requests : at[r] = "done" => at'[r] = "done",
           \A r \in Requests : HeardPaid(r) => HeardPaid(r)',
           \A r \in Requests : at[r] = "done" => (HeardPaid(r)' <=> HeardPaid(r))
    PROVE  RefusedIsOver' /\ StatusIsWhatWasHeard'
<1>1. \A c \in Copies' : c \in Copies /\ (c.by \in Requests \/ c = None)
  BY CopiesTyped DEF OInv, Record
<1>2. None.status # "payment_failed" /\ None.status # "confirmed"
  BY DEF None
<1>3. RefusedIsOver'
  BY <1>1, <1>2 DEF OInv, RefusedIsOver
<1>4. StatusIsWhatWasHeard'
  BY <1>1, <1>2 DEF OInv, StatusIsWhatWasHeard, RefusedIsOver
<1> QED
  BY <1>3, <1>4

-----------------------------------------------------------------------------
(* The loop counts up to MaxAttempts and no further.                       *)
LEMMA AttemptTyped ==
    ASSUME attempt \in [Requests -> Attempts], NEW r \in Requests,
           NextAttempt(r) \/ UNCHANGED attempt
    PROVE  attempt' \in [Requests -> Attempts]
<1>1. CASE attempt[r] < MaxAttempts /\ NextAttempt(r)
  <2>1. attempt' = [attempt EXCEPT ![r] = attempt[r] + 1]
    BY <1>1 DEF NextAttempt
  <2>2. attempt[r] \in Attempts
    OBVIOUS
  <2>3. attempt[r] + 1 \in Attempts
    BY <1>1, <2>2, OrderAssumption DEF Attempts
  <2> QED
    BY <2>1, <2>3
<1>2. CASE ~(attempt[r] < MaxAttempts) /\ NextAttempt(r)
  BY <1>2 DEF NextAttempt
<1>3. CASE UNCHANGED attempt
  BY <1>3
<1> QED
  BY <1>1, <1>2, <1>3

-----------------------------------------------------------------------------
(* Every step preserves the types.                                         *)
LEMMA TypePreserved == TypeOK /\ [Next]_vars => TypeOK'
<1> SUFFICES ASSUME TypeOK, [Next]_vars PROVE TypeOK'
  OBVIOUS
<1> USE DEF TypeOK
<1>1. ASSUME NEW r \in Requests, CreateOrder(r) PROVE TypeOK'
  BY <1>1 DEF CreateOrder, Store, Goto, Record
<1>2. ASSUME NEW r \in Requests, CallPayment(r) PROVE TypeOK'
  BY <1>2 DEF CallPayment, Goto
<1>3. ASSUME NEW r \in Requests, Answer(r) PROVE TypeOK'
  <2>1. attempt' \in [Requests -> Attempts]
    BY <1>3, AttemptTyped DEF Answer
  <2>2. at' \in [Requests -> {"new", "call", "wait", "confirm", "refuse", "publish", "done"}]
    BY <1>3 DEF Answer, NextAttempt, Goto
  <2>3. heard' \in [Requests -> SUBSET Attempts]
    BY <1>3 DEF Answer
  <2> QED
    BY <1>3, <2>1, <2>2, <2>3 DEF Answer
<1>4. ASSUME NEW r \in Requests, NoAnswer(r) PROVE TypeOK'
  <2>1. attempt' \in [Requests -> Attempts]
    BY <1>4, AttemptTyped DEF NoAnswer
  <2>2. at' \in [Requests -> {"new", "call", "wait", "confirm", "refuse", "publish", "done"}]
    BY <1>4 DEF NoAnswer, NextAttempt, Goto
  <2> QED
    BY <1>4, <2>1, <2>2 DEF NoAnswer
<1>5. ASSUME NEW r \in Requests, Confirm(r) PROVE TypeOK'
  BY <1>5 DEF Confirm, Store, Goto, Record
<1>6. ASSUME NEW r \in Requests, Refuse(r) PROVE TypeOK'
  BY <1>6 DEF Refuse, Store, Goto, Record
<1>7. ASSUME NEW r \in Requests, Publish(r) PROVE TypeOK'
  BY <1>7 DEF Publish, Goto
<1>8. ASSUME NEW r \in Requests, NEW n \in Attempts, NEW status, HandleProcess(r, n, status)
      PROVE  TypeOK'
  BY <1>8 DEF HandleProcess
<1>9. ASSUME NEW d \in Readers, NEW o \in OrderIds, CacheMiss(d, o) PROVE TypeOK'
  BY <1>9 DEF CacheMiss
<1>10. ASSUME NEW d \in Readers, FillCache(d) PROVE TypeOK'
  BY <1>10 DEF FillCache
<1>11. CASE UNCHANGED vars
  BY <1>11 DEF vars
<1> QED
  BY <1>1, <1>2, <1>3, <1>4, <1>5, <1>6, <1>7, <1>8, <1>9, <1>10, <1>11
  DEF Next, Request, Payment, Read

-----------------------------------------------------------------------------
LEMMA CreateStep == ASSUME OInv, NEW r \in Requests, CreateOrder(r), TypeOK' PROVE OInv'
<1>1. \A q \in Requests : at'[q] = IF q = r THEN "call" ELSE at[q]
  BY DEF OInv, TypeOK, CreateOrder, Goto
<1>2. HeardIsOver' /\ NoneAhead' /\ ChargedAgainOnlyIfLost' /\ \A q : HeardPaid(q)' <=> HeardPaid(q)
  BY <1>1, PaymentKept DEF CreateOrder
<1>3. PlaceKnows'
  BY <1>1, <1>2 DEF OInv, PlaceKnows, CreateOrder
<1>4. Copies' \subseteq Copies \cup {[by |-> r, status |-> "pending"]}
  BY CopiesStored DEF OInv, CreateOrder
<1>5. \A c \in Copies : c.status = "payment_failed" => c.by # r
  BY DEF OInv, RefusedIsOver, CreateOrder
<1>6. \A c \in Copies : c.status = "payment_failed" => c.by \in Requests
  BY CopiesTyped DEF OInv, Record, None
<1>7. RefusedIsOver'
  BY <1>1, <1>4, <1>5, <1>6 DEF OInv, RefusedIsOver
<1>8. StatusIsWhatWasHeard'
  BY <1>2, <1>4 DEF OInv, StatusIsWhatWasHeard
<1> QED
  BY <1>2, <1>3, <1>7, <1>8 DEF OInv

(* A call is made only while no completed payment was heard of, so no      *)
(* heard charge comes before it.                                           *)
LEMMA CallStep == ASSUME OInv, NEW r \in Requests, CallPayment(r), TypeOK' PROVE OInv'
<1> DEFINE a == attempt[r]
<1>0. a \in Attempts /\ at[r] = "call" /\ ~HeardPaid(r) /\ charge[r][a] = "none"
  BY DEF OInv, TypeOK, PlaceKnows, NoneAhead, CallPayment
<1>1. \A q \in Requests : \A n \in Attempts :
        charge'[q][n] = IF q = r /\ n = a THEN "handling" ELSE charge[q][n]
  BY <1>0 DEF OInv, TypeOK, CallPayment
<1>2. \A q \in Requests : at'[q] = IF q = r THEN "wait" ELSE at[q]
  BY DEF OInv, TypeOK, CallPayment, Goto
<1>3. heard' = heard /\ attempt' = attempt /\ a \notin heard[r]
  BY <1>0 DEF OInv, HeardIsOver, CallPayment
<1>4. \A q \in Requests : heard[q] \subseteq Attempts
  BY DEF OInv, TypeOK
<1>5. \A q \in Requests : HeardPaid(q)' <=> HeardPaid(q)
  BY <1>1, <1>3, <1>4 DEF HeardPaid
<1>6. HeardIsOver'
  BY <1>1, <1>3, <1>4 DEF OInv, HeardIsOver
<1>7. NoneAhead'
  <2> SUFFICES ASSUME NEW q \in Requests, NEW n \in Attempts,
                      n > attempt[q] \/ (n = attempt[q] /\ at'[q] \in {"new", "call"})
               PROVE  charge'[q][n] = "none"
    BY <1>3 DEF NoneAhead
  <2>1. attempt[q] \in Nat /\ n \in Nat
    BY OrderAssumption DEF OInv, TypeOK, Attempts
  <2>2. charge[q][n] = "none"
    BY <1>2 DEF OInv, NoneAhead
  <2>3. ~(q = r /\ n = a)
    BY <1>2, <2>1
  <2> QED
    BY <1>1, <2>2, <2>3
<1>8. PlaceKnows'
  BY <1>0, <1>2, <1>5 DEF OInv, PlaceKnows
<1>9. ChargedAgainOnlyIfLost'
  <2> SUFFICES ASSUME NEW q \in Requests, NEW n \in Attempts, NEW m \in Attempts,
                      n < m, charge'[q][n] = "completed", charge'[q][m] # "none"
               PROVE  n \notin heard[q]
    BY <1>3 DEF ChargedAgainOnlyIfLost
  <2>1. charge[q][n] = "completed"
    BY <1>1
  <2>2. CASE q = r
    BY <1>0, <2>1, <2>2 DEF HeardPaid
  <2>3. CASE q # r
    BY <1>1, <2>1, <2>3 DEF OInv, ChargedAgainOnlyIfLost
  <2> QED
    BY <2>2, <2>3
<1>10. RefusedIsOver' /\ StatusIsWhatWasHeard'
  <2>1. Copies' = Copies
    BY CopiesKept DEF CallPayment
  <2> QED
    BY <1>0, <1>2, <1>5, <2>1, NoNewCopy
<1> QED
  BY <1>6, <1>7, <1>8, <1>9, <1>10 DEF OInv

(* The payment service finishes a call nobody has heard of yet.            *)
LEMMA HandleStep ==
    ASSUME OInv, NEW r \in Requests, NEW a \in Attempts, NEW status,
           HandleProcess(r, a, status), TypeOK'
    PROVE  OInv'
<1>0. charge[r][a] = "handling" /\ status \in {"completed", "failed"} /\ a \notin heard[r]
  BY DEF OInv, HeardIsOver, HandleProcess
<1>1. \A q \in Requests : \A n \in Attempts :
        charge'[q][n] = IF q = r /\ n = a THEN status ELSE charge[q][n]
  BY <1>0 DEF OInv, TypeOK, HandleProcess
<1>2. heard' = heard /\ attempt' = attempt /\ at' = at
  BY DEF HandleProcess
<1>3. \A q \in Requests : heard[q] \subseteq Attempts
  BY DEF OInv, TypeOK
<1>4. \A q \in Requests : HeardPaid(q)' <=> HeardPaid(q)
  BY <1>0, <1>1, <1>2, <1>3 DEF HeardPaid
<1>5. HeardIsOver'
  BY <1>0, <1>1, <1>2, <1>3 DEF OInv, HeardIsOver
<1>6. NoneAhead'
  BY <1>0, <1>1, <1>2 DEF OInv, NoneAhead
<1>7. PlaceKnows'
  BY <1>2, <1>4 DEF OInv, PlaceKnows
<1>8. ChargedAgainOnlyIfLost'
  <2> SUFFICES ASSUME NEW q \in Requests, NEW n \in Attempts, NEW m \in Attempts,
                      n < m, charge'[q][n] = "completed", charge'[q][m] # "none"
               PROVE  n \notin heard[q]
    BY <1>2 DEF ChargedAgainOnlyIfLost
  <2>1. charge[q][m] # "none"
    BY <1>0, <1>1
  <2>2. CASE q = r /\ n = a
    BY <1>0, <2>2
  <2>3. CASE ~(q = r /\ n = a)
    BY <1>1, <2>1, <2>3 DEF OInv, ChargedAgainOnlyIfLost
  <2> QED
    BY <2>2, <2>3
<1>9. RefusedIsOver' /\ StatusIsWhatWasHeard'
  <2>1. Copies' = Copies
    BY CopiesKept DEF HandleProcess
  <2> QED
    BY <1>2, <1>4, <2>1, NoNewCopy
<1> QED
  BY <1>5, <1>6, <1>7, <1>8, <1>9, TypePreserved DEF OInv

(* What NextAttempt does to a request and to no other.                     *)
LEMMA NextAttemptDoes ==
    ASSUME TypeOK, NEW r \in Requests, NextAttempt(r)
    PROVE  /\ \A q \in Requests : q # r => at'[q] = at[q] /\ attempt'[q] = attempt[q]
           /\ \/ at'[r] = "call" /\ attempt'[r] = attempt[r] + 1
              \/ at'[r] = "refuse" /\ attempt'[r] = attempt[r]
BY DEF TypeOK, NextAttempt, Goto

(* The next attempt has not been made, nor has any after it.               *)
LEMMA StillNoneAhead ==
    ASSUME OInv, NEW r \in Requests, NextAttempt(r), UNCHANGED charge
    PROVE  NoneAhead'
<1> SUFFICES ASSUME NEW q \in Requests, NEW n \in Attempts,
                    n > attempt'[q] \/ (n = attempt'[q] /\ at'[q] \in {"new", "call"})
             PROVE  charge[q][n] = "none"
  BY DEF NoneAhead
<1>1. attempt[q] \in Nat /\ n \in Nat
  BY OrderAssumption DEF OInv, TypeOK, Attempts
<1>2. CASE q = r
  <2>1. n > attempt[r]
    BY <1>1, <1>2, NextAttemptDoes DEF OInv
  <2> QED
    BY <1>2, <2>1 DEF OInv, NoneAhead
<1>3. CASE q # r
  BY <1>3, NextAttemptDoes DEF OInv, NoneAhead
<1> QED
  BY <1>2, <1>3

(* An answer that says completed ends the loop; one that does not leaves   *)
(* the request with nothing paid.                                          *)
LEMMA AnswerStep == ASSUME OInv, NEW r \in Requests, Answer(r), TypeOK' PROVE OInv'
<1> DEFINE a == attempt[r]
<1>0. a \in Attempts /\ at[r] = "wait" /\ ~HeardPaid(r) /\ charge[r][a] \in {"completed", "failed"}
  BY DEF OInv, TypeOK, PlaceKnows, Answer
<1>1. \A q \in Requests : heard'[q] = IF q = r THEN heard[r] \cup {a} ELSE heard[q]
  BY DEF OInv, TypeOK, Answer
<1>2. charge' = charge
  BY DEF Answer
<1>3. \A q \in Requests : q # r => at'[q] = at[q] /\ attempt'[q] = attempt[q]
  BY NextAttemptDoes DEF OInv, TypeOK, Answer, Goto
<1>4. \A q \in Requests : q # r => (HeardPaid(q)' <=> HeardPaid(q))
  BY <1>1, <1>2 DEF HeardPaid
<1>5. HeardPaid(r)' <=> charge[r][a] = "completed"
  BY <1>0, <1>1, <1>2 DEF HeardPaid
<1>6. HeardIsOver'
  BY <1>0, <1>1, <1>2 DEF OInv, HeardIsOver
<1>7. RefusedIsOver' /\ StatusIsWhatWasHeard'
  <2>1. Copies' = Copies
    BY CopiesKept DEF Answer
  <2>2. \A q \in Requests : HeardPaid(q) => HeardPaid(q)'
    BY <1>0, <1>4
  <2> QED
    BY <1>0, <1>3, <1>4, <2>1, <2>2, NoNewCopy
<1>8. CASE charge[r][a] = "completed"
  <2>1. at'[r] = "confirm" /\ attempt' = attempt
    BY <1>8 DEF OInv, TypeOK, Answer, Goto
  <2>2. PlaceKnows'
    BY <1>3, <1>4, <1>5, <1>8, <2>1 DEF OInv, PlaceKnows
  <2>3. NoneAhead'
    BY <1>2, <1>3, <2>1 DEF OInv, NoneAhead
  <2>4. ChargedAgainOnlyIfLost'
    <3> SUFFICES ASSUME NEW q \in Requests, NEW n \in Attempts, NEW m \in Attempts,
                        n < m, charge[q][n] = "completed", charge[q][m] # "none"
                 PROVE  n \notin heard'[q]
      BY <1>2 DEF ChargedAgainOnlyIfLost
    <3>1. n \notin heard[q]
      BY DEF OInv, ChargedAgainOnlyIfLost
    <3>2. ~(q = r /\ n = a)
      BY DEF OInv, NoneAhead
    <3> QED
      BY <1>1, <3>1, <3>2
  <2> QED
    BY <1>6, <1>7, <2>2, <2>3, <2>4 DEF OInv
<1>9. CASE charge[r][a] # "completed"
  <2>1. NextAttempt(r)
    BY <1>9 DEF Answer
  <2>2. at'[r] \in {"call", "refuse"}
    BY <2>1, NextAttemptDoes DEF OInv
  <2>3. PlaceKnows'
    BY <1>3, <1>4, <1>5, <1>9, <2>2 DEF OInv, PlaceKnows
  <2>4. NoneAhead'
    BY <1>2, <2>1, StillNoneAhead
  <2>5. ChargedAgainOnlyIfLost'
    BY <1>1, <1>2, <1>9 DEF OInv, ChargedAgainOnlyIfLost
  <2> QED
    BY <1>6, <1>7, <2>3, <2>4, <2>5 DEF OInv
<1> QED
  BY <1>8, <1>9

LEMMA NoAnswerStep == ASSUME OInv, NEW r \in Requests, NoAnswer(r), TypeOK' PROVE OInv'
<1>0. ~HeardPaid(r) /\ at[r] \in {"call", "wait"} /\ NextAttempt(r)
  BY DEF OInv, PlaceKnows, NoAnswer
<1>1. /\ \A q \in Requests : q # r => at'[q] = at[q]
      /\ at'[r] \in {"call", "refuse"}
  BY <1>0, NextAttemptDoes DEF OInv
<1>2. \A q : HeardPaid(q)' <=> HeardPaid(q)
  BY DEF NoAnswer, HeardPaid
<1>3. HeardIsOver' /\ ChargedAgainOnlyIfLost'
  BY DEF OInv, HeardIsOver, ChargedAgainOnlyIfLost, NoAnswer
<1>4. NoneAhead'
  BY <1>0, StillNoneAhead DEF NoAnswer
<1>5. PlaceKnows'
  BY <1>0, <1>1, <1>2 DEF OInv, PlaceKnows
<1>6. RefusedIsOver' /\ StatusIsWhatWasHeard'
  <2>1. Copies' = Copies
    BY CopiesKept DEF NoAnswer
  <2> QED
    BY <1>0, <1>1, <1>2, <2>1, NoNewCopy
<1> QED
  BY <1>3, <1>4, <1>5, <1>6 DEF OInv

-----------------------------------------------------------------------------
LEMMA ConfirmStep == ASSUME OInv, NEW r \in Requests, Confirm(r), TypeOK' PROVE OInv'
<1>0. HeardPaid(r) /\ at[r] = "confirm"
  BY DEF OInv, PlaceKnows, Confirm
<1>1. \A q \in Requests : at'[q] = IF q = r THEN "publish" ELSE at[q]
  BY DEF OInv, TypeOK, Confirm, Goto
<1>2. HeardIsOver' /\ NoneAhead' /\ ChargedAgainOnlyIfLost' /\ \A q : HeardPaid(q)' <=> HeardPaid(q)
  BY <1>1, PaymentKept DEF Confirm
<1>3. PlaceKnows'
  BY <1>0, <1>1, <1>2 DEF OInv, PlaceKnows
<1>4. Copies' \subseteq Copies \cup {[by |-> r, status |-> "confirmed"]}
  BY CopiesStored DEF OInv, Confirm
<1>5. \A c \in Copies : c.status = "payment_failed" => c.by # r /\ c.by \in Requests
  BY <1>0, CopiesTyped DEF OInv, RefusedIsOver, Record, None
<1>6. RefusedIsOver'
  BY <1>1, <1>4, <1>5 DEF OInv, RefusedIsOver
<1>7. StatusIsWhatWasHeard'
  BY <1>0, <1>2, <1>4 DEF OInv, StatusIsWhatWasHeard
<1> QED
  BY <1>2, <1>3, <1>6, <1>7 DEF OInv

LEMMA RefuseStep == ASSUME OInv, NEW r \in Requests, Refuse(r), TypeOK' PROVE OInv'
<1>0. ~HeardPaid(r) /\ at[r] = "refuse"
  BY DEF OInv, PlaceKnows, Refuse
<1>1. \A q \in Requests : at'[q] = IF q = r THEN "done" ELSE at[q]
  BY DEF OInv, TypeOK, Refuse, Goto
<1>2. HeardIsOver' /\ NoneAhead' /\ ChargedAgainOnlyIfLost' /\ \A q : HeardPaid(q)' <=> HeardPaid(q)
  BY <1>1, PaymentKept DEF Refuse
<1>3. PlaceKnows'
  BY <1>1, <1>2 DEF OInv, PlaceKnows
<1>4. Copies' \subseteq Copies \cup {[by |-> r, status |-> "payment_failed"]}
  BY CopiesStored DEF OInv, Refuse
<1>5. \A c \in Copies : c.status = "payment_failed" => c.by \in Requests
  BY CopiesTyped DEF OInv, Record, None
<1>6. RefusedIsOver'
  BY <1>1, <1>4, <1>5 DEF OInv, RefusedIsOver
<1>7. StatusIsWhatWasHeard'
  BY <1>0, <1>2, <1>4 DEF OInv, StatusIsWhatWasHeard
<1> QED
  BY <1>2, <1>3, <1>6, <1>7 DEF OInv

LEMMA PublishStep == ASSUME OInv, NEW r \in Requests, Publish(r), TypeOK' PROVE OInv'
<1>1. \A q \in Requests : at'[q] = IF q = r THEN "done" ELSE at[q]
  BY DEF OInv, TypeOK, Publish, Goto
<1>2. HeardIsOver' /\ NoneAhead' /\ ChargedAgainOnlyIfLost' /\ \A q : HeardPaid(q)' <=> HeardPaid(q)
  BY <1>1, PaymentKept DEF Publish
<1>3. PlaceKnows'
  BY <1>1, <1>2 DEF OInv, PlaceKnows
<1>4. RefusedIsOver' /\ StatusIsWhatWasHeard'
  <2>1. Copies' = Copies
    BY CopiesKept DEF Publish
  <2> QED
    BY <1>1, <1>2, <2>1, NoNewCopy
<1> QED
  BY <1>2, <1>3, <1>4 DEF OInv

(* A reader only copies.                                                   *)
LEMMA ReadStep ==
    ASSUME OInv, TypeOK', NEW d \in Readers,
           (\E o \in OrderIds : CacheMiss(d, o)) \/ FillCache(d)
    PROVE  OInv'
<1>1. UNCHANGED <<at, attempt, charge, heard>>
  BY DEF CacheMiss, FillCache
<1>2. HeardIsOver' /\ NoneAhead' /\ ChargedAgainOnlyIfLost' /\ \A q : HeardPaid(q)' <=> HeardPaid(q)
  BY <1>1, PaymentKept
<1>3. PlaceKnows'
  BY <1>1, <1>2 DEF OInv, PlaceKnows
<1>4. Copies' \subseteq Copies \cup {None}
  <2>1. ASSUME NEW o \in OrderIds, CacheMiss(d, o) PROVE Copies' \subseteq Copies
    BY <2>1 DEF OInv, TypeOK, CacheMiss, Copies
  <2>2. ASSUME FillCache(d) PROVE Copies' \subseteq Copies \cup {None}
    BY <2>2 DEF OInv, TypeOK, FillCache, Copies, Idle
  <2> QED
    BY <2>1, <2>2
<1>5. RefusedIsOver' /\ StatusIsWhatWasHeard'
  BY <1>1, <1>2, <1>4 DEF OInv, RefusedIsOver, StatusIsWhatWasHeard, None
<1> QED
  BY <1>2, <1>3, <1>5 DEF OInv

-----------------------------------------------------------------------------
LEMMA OrderStep == OInv /\ [Next]_vars => OInv'
<1> SUFFICES ASSUME OInv, [Next]_vars PROVE OInv'
  OBVIOUS
<1>0. TypeOK'
  BY TypePreserved DEF OInv
<1>1. ASSUME NEW r \in Requests, CreateOrder(r) PROVE OInv'
  BY <1>0, <1>1, CreateStep
<1>2. ASSUME NEW r \in Requests, Request(r) PROVE OInv'
  BY <1>0, <1>2, CallStep, AnswerStep, NoAnswerStep, ConfirmStep, RefuseStep, PublishStep DEF Request
<1>3. ASSUME NEW r \in Requests, Payment(r) PROVE OInv'
  BY <1>0, <1>3, HandleStep DEF Payment
<1>4. ASSUME NEW d \in Readers, Read(d) PROVE OInv'
  BY <1>0, <1>4, ReadStep DEF Read
<1>5. CASE UNCHANGED vars
  BY <1>5 DEF vars, OInv, TypeOK, HeardIsOver, NoneAhead, PlaceKnows, RefusedIsOver, Copies,
              StatusIsWhatWasHeard, ChargedAgainOnlyIfLost, HeardPaid
<1> QED
  BY <1>1, <1>2, <1>3, <1>4, <1>5 DEF Next

(* The strengthened invariant, of the requests, the payment service and    *)
(* the readers together.                                                   *)
THEOREM OrderInvariant == Spec => []OInv
BY InitO, OrderStep, PTL DEF Spec

(* No loop makes more attempts than it may, and every record, copy and      *)
(* charge is one the two handlers can write.                                *)
THEOREM OrderTypeCorrect == Spec => []TypeOK
<1>1. OInv => TypeOK
  BY DEF OInv
<1> QED
  BY <1>1, OrderInvariant, PTL

(* No copy of an order, in the DB, the cache or a reader's hands, claims   *)
(* of its payment anything but what createOrder heard of it.               *)
THEOREM StatusHonest == Spec => []StatusIsWhatWasHeard
<1>1. OInv => StatusIsWhatWasHeard
  BY DEF OInv
<1> QED
  BY <1>1, OrderInvariant, PTL

(* The retry loop of callPaymentService charges again only when the answer *)
(* to the earlier charge was lost.                                         *)
THEOREM NoNeedlessCharge == Spec => []ChargedAgainOnlyIfLost
<1>1. OInv => ChargedAgainOnlyIfLost
  BY DEF OInv
<1> QED
  BY <1>1, OrderInvariant, PTL
=============================================================================
