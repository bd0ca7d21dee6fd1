------------------------------ MODULE Delivery ------------------------------
(***************************************************************************)
(* What the consumers of the job stream rely on: at-least-once delivery.   *)
(* Messages are first handed out in the order they were sent; one that was *)
(* handed out may be handed out again, until it is settled.                *)
(***************************************************************************)
EXTENDS Naturals, Sequences

CONSTANT Messages

VARIABLES
    sent,      \* the messages in the order they were sent
    handed,    \* messages handed out at least once
    settled,   \* messages acknowledged
    got        \* messages the last step handed out

deliveryVars == <<sent, handed, settled, got>>

Sent == {sent[i] : i \in 1..Len(sent)}

DeliveryInit == sent = <<>> /\ handed = {} /\ settled = {} /\ got = {}

Send(m) ==
    /\ m \notin Sent
    /\ sent' = Append(sent, m)
    /\ got' = {}
    /\ UNCHANGED <<handed, settled>>

HandOutNext ==
    /\ \E i \in 1..Len(sent) :
        /\ sent[i] \notin handed
        /\ \A k \in 1..(i - 1) : sent[k] \in handed
        /\ handed' = handed \union {sent[i]}
        /\ got' = {sent[i]}
    /\ UNCHANGED <<sent, settled>>

HandOutAgain ==
    /\ \E some \in SUBSET (handed \ settled) : got' = some
    /\ UNCHANGED <<sent, handed, settled>>

Settle(m) ==
    /\ m \in handed
    /\ settled' = settled \union {m}
    /\ got' = {}
    /\ UNCHANGED <<sent, handed>>

DeliveryNext ==
    \/ \E m \in Messages : Send(m) \/ Settle(m)
    \/ HandOutNext
    \/ HandOutAgain

DeliverySpec == DeliveryInit /\ [][DeliveryNext]_deliveryVars
=============================================================================
