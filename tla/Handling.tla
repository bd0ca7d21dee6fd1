------------------------------ MODULE Handling ------------------------------
(***************************************************************************)
(* What the producers of the job stream rely on, whoever consumes it: the  *)
(* messages are taken up in the order they were sent, one may be taken up  *)
(* again until it is settled, and only who holds a message settles it.     *)
(* Its holder may let go of it at any moment, or be lost with the reply.   *)
(***************************************************************************)
EXTENDS Naturals, Sequences

CONSTANT Messages

VARIABLES
    sent,      \* the messages in the order they were sent
    handed,    \* messages handed out at least once
    settled,   \* messages acknowledged
    held       \* messages someone works on

handlingVars == <<sent, handed, settled, held>>

Sent == {sent[i] : i \in 1..Len(sent)}

HandlingInit == sent = <<>> /\ handed = {} /\ settled = {} /\ held = {}

Send(m) ==
    /\ m \notin Sent
    /\ sent' = Append(sent, m)
    /\ UNCHANGED <<handed, settled, held>>

Take ==
    /\ \E i \in 1..Len(sent) :
        /\ sent[i] \notin handed
        /\ \A k \in 1..(i - 1) : sent[k] \in handed
        /\ handed' = handed \union {sent[i]}
        /\ held' \in {held, held \union {sent[i]}}
    /\ UNCHANGED <<sent, settled>>

TakeAgain ==
    /\ \E some \in SUBSET (handed \ settled) : held' = held \union some
    /\ UNCHANGED <<sent, handed, settled>>

Settle(m) ==
    /\ m \in held
    /\ settled' = settled \union {m}
    /\ held' \in {held, held \ {m}}
    /\ UNCHANGED <<sent, handed>>

LetGo ==
    /\ held' \in SUBSET held
    /\ UNCHANGED <<sent, handed, settled>>

HandlingNext ==
    \/ \E m \in Messages : Send(m) \/ Settle(m)
    \/ Take \/ TakeAgain \/ LetGo

HandlingSpec == HandlingInit /\ [][HandlingNext]_handlingVars
=============================================================================
