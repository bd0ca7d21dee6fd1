----------------------------- MODULE Middleware ------------------------------
(***************************************************************************)
(* internal/bot/middleware.go: the rate limiter of messages and the        *)
(* debouncer of button presses, each behind a mutex.  One user is modelled *)
(* (the limiter's windows are per user), pressing buttons Keys.  Times are *)
(* kept as ages in ticks; ages that no comparison tells apart are cut.     *)
(*                                                                         *)
(* Allow filters the user's slice in place, over its backing array, and    *)
(* stores the result only when it lets the message through.                *)
(***************************************************************************)
EXTENDS Naturals, Sequences, FiniteSets

CONSTANTS
    Limit, Window,   \* newRateLimiter(30, time.Minute)
    Keys,            \* "<user>:<data>" of the buttons
    Interval,        \* newCallbackDebouncer(2 * time.Second)
    KeepFor,         \* interval * 10
    MaxEntries       \* 10000

ASSUME MiddlewareAssumption ==
    /\ Limit \in Nat \ {0} /\ Window \in Nat \ {0}
    /\ IsFiniteSet(Keys)
    /\ Interval \in Nat \ {0} /\ KeepFor \in Nat /\ KeepFor >= Interval
    /\ MaxEntries \in Nat

VARIABLES
    requests,    \* the limiter's slice for the user: ages, oldest first
    allowed,     \* its answer, until the caller has it
    lastSeen,    \* the debouncer's map: the ages of its keys
    processed    \* its answers, until their callers have them

limiterVars == <<requests, allowed>>
debouncerVars == <<lastSeen, processed>>
vars == <<limiterVars, debouncerVars>>

Answers == {"none", "allow", "refuse"}
Aged(n, cap) == IF n < cap THEN n + 1 ELSE n

MiddlewareTypeOK ==
    /\ requests \in Seq(0..Window)
    /\ Len(requests) <= Limit
    /\ allowed \in Answers
    /\ DOMAIN lastSeen \subseteq Keys
    /\ \A k \in DOMAIN lastSeen : lastSeen[k] \in 0..(KeepFor + 1)
    /\ processed \in [Keys -> Answers]

MiddlewareInit ==
    /\ requests = <<>>
    /\ allowed = "none"
    /\ lastSeen = <<>>
    /\ processed = [k \in Keys |-> "none"]

-----------------------------------------------------------------------------
\* The loop over reqs: valid once the entry i was looked at.
Filter(reqs) ==
    LET valid[i \in 0..Len(reqs)] ==
          IF i = 0 THEN <<>>
          ELSE IF reqs[i] < Window THEN Append(valid[i - 1], reqs[i])
          ELSE valid[i - 1]
    IN  valid[Len(reqs)]

\* valid, and what the in-place filter leaves in the old slice.
Valid == Filter(requests)
Overwritten == Valid \o SubSeq(requests, Len(Valid) + 1, Len(requests))

\* Mutants of Allow: now is appended to the unfiltered slice; one too many.
AllowUnfiltered ==
    /\ allowed = "none"
    /\ IF Len(Valid) >= Limit
       THEN requests' = Overwritten /\ allowed' = "refuse"
       ELSE requests' = Append(Overwritten, 0) /\ allowed' = "allow"
    /\ UNCHANGED debouncerVars
AllowOneMore ==
    /\ allowed = "none"
    /\ IF Len(Valid) > Limit
       THEN requests' = Overwritten /\ allowed' = "refuse"
       ELSE requests' = Append(Valid, 0) /\ allowed' = "allow"
    /\ UNCHANGED debouncerVars

Allow ==
    /\ allowed = "none"
    /\ IF Len(Valid) >= Limit
       THEN requests' = Overwritten /\ allowed' = "refuse"
       ELSE requests' = Append(Valid, 0) /\ allowed' = "allow"
    /\ UNCHANGED debouncerVars

\* Mutant of Cleaned: the cutoff is now.
CleanedAll(seen) ==
    IF Cardinality(DOMAIN seen) <= MaxEntries THEN seen
    ELSE [k \in {x \in DOMAIN seen : seen[x] < 1} |-> seen[k]]

\* Above MaxEntries the entries older than KeepFor are dropped.
Cleaned(seen) ==
    IF Cardinality(DOMAIN seen) <= MaxEntries THEN seen
    ELSE [k \in {x \in DOMAIN seen : seen[x] <= KeepFor} |-> seen[k]]

ShouldProcess(k) ==
    /\ processed[k] = "none"
    /\ IF k \in DOMAIN lastSeen /\ lastSeen[k] < Interval
       THEN /\ processed' = [processed EXCEPT ![k] = "refuse"]
            /\ UNCHANGED lastSeen
       ELSE /\ processed' = [processed EXCEPT ![k] = "allow"]
            /\ lastSeen' = Cleaned([x \in DOMAIN lastSeen \union {k} |->
                                      IF x = k THEN 0 ELSE lastSeen[x]])
    /\ UNCHANGED limiterVars

Tick ==
    /\ requests' = [i \in DOMAIN requests |-> Aged(requests[i], Window)]
    /\ lastSeen' = [k \in DOMAIN lastSeen |-> Aged(lastSeen[k], KeepFor + 1)]
    /\ UNCHANGED <<allowed, processed>>

\* Calls return: handlers hold the mutex only to ask.
Return ==
    /\ allowed' = "none"
    /\ processed' = [k \in Keys |-> "none"]
    /\ UNCHANGED <<requests, lastSeen>>

MiddlewareNext == Allow \/ (\E k \in Keys : ShouldProcess(k)) \/ Return \/ Tick

MiddlewareSpec == MiddlewareInit /\ [][MiddlewareNext]_vars

-----------------------------------------------------------------------------
\* The limiter lets a message through exactly when fewer than Limit were let
\* through within the window (SECURITY.md:44), although a refusal keeps a
\* slice that was filtered in place.
Limiter == INSTANCE SlidingWindow WITH
    within <- [a \in 0..(Window - 1) |->
                 Cardinality({i \in DOMAIN requests : requests[i] <= a})],
    verdict <- allowed
LimiterIsWindow == Limiter!Spec

\* A button is processed exactly when it was not processed within Interval
\* (SECURITY.md:45), whatever the cleanup of a full map drops.
Debouncer(k) == INSTANCE SlidingWindow WITH
    Limit <- 1,
    Window <- Interval,
    within <- [a \in 0..(Interval - 1) |->
                 IF k \in DOMAIN lastSeen /\ lastSeen[k] <= a THEN 1 ELSE 0],
    verdict <- processed[k]
DebouncerIsWindow ==
    /\ \A k \in Keys : Debouncer(k)!Init
    /\ [][\A k \in Keys : Debouncer(k)!Step]_vars
=============================================================================
