------------------------ MODULE MCSubscriptionBilling ------------------------
(* For TLC: subscriptions, users and requests are interchangeable. *)
EXTENDS SubscriptionBilling, TLC

Symmetry == Permutations(Subs) \cup Permutations(Users) \cup Permutations(Tasks)
==============================================================================
