------------------------ MODULE MCSubscriptionFilter ------------------------
(* Three keys and a Bloom threshold of 2: zero, one and many pubkeys and    *)
(* owners occur on both sides of the threshold.  At most two requests.      *)
EXTENDS SubscriptionFilter, TLC

KeySymmetry == Permutations(Keys)
=============================================================================
