---------------------------- MODULE SlidingWindow ----------------------------
(***************************************************************************)
(* What a limiter promises: an event is let through exactly when fewer     *)
(* than Limit events were let through less than Window ticks ago.          *)
(***************************************************************************)
EXTENDS Naturals

CONSTANTS Limit, Window

VARIABLES
    within,   \* for each a, how many events were let through in the last a ticks
    verdict   \* on the event whose caller waits for it, "none" without one

Ages == 0..(Window - 1)
Count == within[Window - 1]

Init == within = [a \in Ages |-> 0] /\ verdict = "none"

Allow ==
    /\ verdict = "none"
    /\ Count < Limit
    /\ within' = [a \in Ages |-> within[a] + 1]
    /\ verdict' = "allow"

Refuse ==
    /\ verdict = "none"
    /\ Count >= Limit
    /\ verdict' = "refuse"
    /\ UNCHANGED within

Return == verdict' = "none" /\ UNCHANGED within

Tick ==
    /\ within' = [a \in Ages |-> IF a = 0 THEN 0 ELSE within[a - 1]]
    /\ UNCHANGED verdict

Next == Allow \/ Refuse \/ Return \/ Tick

Step == [Next]_<<within, verdict>>
Spec == Init /\ [][Step]_<<within, verdict>>
=============================================================================
