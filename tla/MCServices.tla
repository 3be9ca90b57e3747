----------------------------- MODULE MCServices -----------------------------
(* Finite instances of the components of Services.  A run follows one of   *)
(* them at a time, focus, while the others rest in a state of theirs.      *)
EXTENDS Services

VARIABLE focus

(* The synthetic incidents, left alone from the start of an epoch to its   *)
(* end.                                                                    *)
Schedule == INSTANCE SysState WITH
    ForceNames <- {}, Intensities <- {}, Standings <- {}, DefaultForce <- 10,
    Starts <- {0}, Horizon <- 59, MaxCommands <- 0, MaxPages <- 0

(* A spec as it is sent.  Levels are hundredths or, above those, per cent. *)
Ask(level, onset, ramp, period, sticky, scope, duration) ==
    [enabled |-> FALSE, level |-> level, onset |-> onset, ramp |-> ramp, period |-> period,
     sticky |-> sticky, scope |-> scope, duration |-> duration]

MCSpecs ==
    {Ask(80, "step", 0, 0, FALSE, 0, 9), Ask(6000, "ramp", 3, 0, FALSE, 25, 4),
     Ask(150, "ramp", 0, 0, TRUE, 0, 0), Ask(50, "slowleak", 0, 0, FALSE, 101, -1),
     Ask(100, "slowleak", 0, 0, TRUE, 10, 3), Ask(40, "flap", 0, 1, FALSE, 100, 3),
     Ask(-1, "flap", 0, 0, TRUE, 50, 0)}

MCDurations == {-1, 0, 1, 9}

MCSent == {-1, 0, 2}

-----------------------------------------------------------------------------
Resting ==
    /\ focus \notin {"schedule", "sysstate"} => ~auto /\ ~plan.incident /\ clock = 14
    /\ focus # "shape" => kind = "latency"
    /\ focus # "notification" => wired
    /\ focus # "traffic" => mode = "legacy"

MCInit ==
    /\ focus \in {"schedule", "sysstate", "shape", "ecom", "scheduler", "notification", "user", "auth", "path", "traffic"}
    /\ IF focus = "schedule" THEN Schedule!Init ELSE Sys!Init
    /\ Shape!Init /\ Ecom!Init /\ Sched!Init
    /\ Note!Init /\ User!Init /\ Auth!Init /\ Path!Init /\ Gen!Init
    /\ focus = "sysstate" => ~plan.incident \/ plan.name \in {"network_saturation", "clock_skew_auth"}
    /\ Resting

MCNext ==
    /\ \/ focus = "schedule" /\ Schedule!Next /\ UNCHANGED <<shapeVars, ecomVars, schedVars, serviceVars>>
       \/ focus = "sysstate" /\ SysSteps
       \/ focus = "shape" /\ ShapeSteps
       \/ focus = "ecom" /\ EcomSteps
       \/ focus = "scheduler" /\ SchedSteps
       \/ focus = "notification" /\ NoteSteps
       \/ focus = "user" /\ UserSteps
       \/ focus = "auth" /\ AuthSteps
       \/ focus = "path" /\ PathSteps
       \/ focus = "traffic" /\ GenSteps
    /\ UNCHANGED focus

(* The goroutines of the notification service run.                         *)
MCSpec == MCInit /\ [][MCNext]_<<vars, focus>> /\ Note!Fairness
=============================================================================
