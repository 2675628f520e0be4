----------------------------- MODULE MCDelivery -----------------------------
(***************************************************************************)
(* Instances of Delivery.  A small frame leaves room for a sentinel beside *)
(* it, two large ones fill the ring to less than a sentinel, and a huge    *)
(* one never fits.                                                         *)
(***************************************************************************)
EXTENDS Delivery

Small == [kind |-> "account", size |-> 2]
Large == [kind |-> "slot", size |-> 3]
Huge == [kind |-> "account", size |-> 7]

MCFrames == {Small, Large, Huge}
MCFittingFrames == {Small, Large}
=============================================================================
