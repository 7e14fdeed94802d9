-------------------------- MODULE MCSubscriptions --------------------------
(* Two subscriptions of one organization for TLC. *)
EXTENDS Subscriptions, TLC

CONSTANTS h1, h2, s1, s2, c1

Alike == Permutations(Handler) \cup Permutations(Subscription)
=============================================================================
