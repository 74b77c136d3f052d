----------------------------- MODULE MCPayments -----------------------------
\* Model-checking instances of Payments: workers and refund requests are symmetric.
EXTENDS Payments, TLC

OneOrder == {1}
OneTick == [o \in OneOrder |-> 1]
TwoOrders == {1, 2}
TwoTicks == [o \in TwoOrders |-> 2]
Symmetry == Permutations(Workers) \cup Permutations(Refunds)
=============================================================================
