--------------------------- MODULE MCChaosCampaign ---------------------------
(* Finite instances of ChaosCampaign; two ticks make a second.             *)
EXTENDS ChaosCampaign

CONSTANTS errors, latency

(* One plan of one immediate step; one whose second step starts later and  *)
(* brings no duration; one that is too long; one that is empty.            *)
MCPlans ==
    LET step(t, s, d) == [type |-> t, start |-> s, duration |-> d]
    IN  {<<step(errors, -1, 1)>>,
         <<step(errors, 0, 5), step(latency, 2, 0)>>,
         <<step(errors, 0, 1), step(errors, 0, 1), step(errors, 0, 1)>>,
         <<>>}
=============================================================================
