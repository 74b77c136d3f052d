------------------------ MODULE MCAggregateDelivery -------------------------
\* Model-checking instances of AggregateDelivery: deliverers and subscriptions are
\* symmetric.
EXTENDS AggregateDelivery, TLC

TwoDays == 1..2
Symmetry == Permutations(Deliverers) \cup Permutations(Subs)
=============================================================================
