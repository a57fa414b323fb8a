-------------------------------- MODULE Delivery --------------------------------
(***************************************************************************)
(* What a Prometheus that writes through the proxy relies on, with no      *)
(* proxy in between: a stream of batches goes out one by one, and none is  *)
(* left behind before every tenant it is due to has settled it, by taking  *)
(* it or by refusing it for good.                                          *)
(***************************************************************************)
EXTENDS Naturals

CONSTANTS
    Readers,  \* those to whom batches are delivered
    Due       \* per batch, the readers it must not pass by

VARIABLES
    current,  \* the batch that is being delivered
    settled   \* who has settled it

vars == <<current, settled>>

Init == current = 1 /\ settled = {}

Settle ==
    /\ \E reader \in Readers : settled' = settled \cup {reader}
    /\ UNCHANGED current

MoveOn ==
    /\ current \in DOMAIN Due
    /\ Due[current] \subseteq settled
    /\ current' = current + 1
    /\ settled' = {}

Next == Settle \/ MoveOn

Spec == Init /\ [][Next]_vars
=============================================================================
