--------------------------- MODULE ChaosScheduler ---------------------------
(***************************************************************************)
(* The standalone scheduler target (cmd/chaos-service): one timed switch,  *)
(* set by POST /chaos and cleared by nobody but time.  Expiry is written   *)
(* down lazily, by whoever asks.  A request asks whether chaos is on, and  *)
(* then, behind another lock, which kind it is.                            *)
(*                                                                         *)
(* Time is counted in ticks, down.  What a kind does to the request it     *)
(* strikes (a delay, an error, load) is left out, and so are commands for  *)
(* other targets, which change nothing.                                    *)
(***************************************************************************)
EXTENDS Integers

CONSTANTS
    Kinds,         \* types a client may send
    Sent,          \* duration_seconds it may send, negative ones too
    Clients,       \* GET /
    MaxPosted      \* bound: commands

VARIABLES
    chaos,    \* chaosState
    posted,   \* commands so far
    request,  \* the requests being answered
    struck    \* history: a kind struck that its request never saw on

vars == <<chaos, posted, request, struck>>

-----------------------------------------------------------------------------
NoKind == "none"

(* seen: the kinds that were on, or were sent, since the request began.    *)
Waiting == [at |-> "new", seen |-> {}]

Init ==
    /\ chaos = [active |-> FALSE, kind |-> NoKind, left |-> 0]
    /\ posted = 0
    /\ request = [c \in Clients |-> Waiting]
    /\ struck = FALSE

On == chaos.active /\ chaos.left >= 0

See(kind) == [c \in Clients |-> IF request[c].at = "new" THEN request[c]
                                ELSE [request[c] EXCEPT !.seen = @ \cup {kind}]]

(* handleChaos.                                                            *)
HandleChaos(k, d) ==
    /\ posted < MaxPosted
    /\ posted' = posted + 1
    /\ chaos' = [active |-> TRUE, kind |-> k, left |-> d]
    /\ request' = See(k)
    /\ UNCHANGED struck

MutIsChaosActive(c, next) ==
    /\ request' = [request EXCEPT ![c] = IF chaos.active THEN next ELSE Waiting]
    /\ UNCHANGED <<chaos, posted, struck>>

(* isChaosActive, which clears what has expired, and only the flag.        *)
IsChaosActive(c, next) ==
    /\ chaos' = [chaos EXCEPT !.active = On]
    /\ request' = [request EXCEPT ![c] = IF On THEN next ELSE Waiting]
    /\ UNCHANGED <<posted, struck>>

(* handleDefault, handleStatus: the first thing they ask.                  *)
Arrive(c) ==
    /\ request[c].at = "new"
    /\ IsChaosActive(c, [at |-> "inject", seen |-> IF On THEN {chaos.kind} ELSE {}])

(* injectChaos, after getChaosType.                                        *)
InjectChaos(c) ==
    /\ request[c].at = "inject"
    /\ struck' = (struck \/ chaos.kind \notin request[c].seen)
    /\ request' = [request EXCEPT ![c].at = "answer"]
    /\ UNCHANGED <<chaos, posted>>

(* handleDefault asks again for its answer.                                *)
Answer(c) == request[c].at = "answer" /\ IsChaosActive(c, Waiting)

Tick ==
    /\ On
    /\ chaos' = [chaos EXCEPT !.left = @ - 1]
    /\ UNCHANGED <<posted, request, struck>>

Next ==
    \/ \E k \in Kinds, d \in Sent : HandleChaos(k, d)
    \/ \E c \in Clients : Arrive(c) \/ InjectChaos(c) \/ Answer(c)
    \/ Tick

Spec == Init /\ [][Next]_vars

-----------------------------------------------------------------------------
Switch == INSTANCE TimedSwitch WITH
    Values <- Kinds, Off <- NoKind, Standings <- Sent, commands <- posted,
    value <- IF On THEN chaos.kind ELSE NoKind,
    left <- IF On THEN chaos.left ELSE 0

(* Chaos stands as long as it was sent for and no longer, whether or not   *)
(* anyone asks meanwhile.                                                  *)
ChaosKeepsTime == Switch!Spec

(* What strikes a request was on when it asked, though it may have run out *)
(* before it was looked up, or was sent after, though never to be on.      *)
StruckByItsOwn == ~struck
=============================================================================
