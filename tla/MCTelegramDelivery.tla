------------------------- MODULE MCTelegramDelivery -------------------------
\* Model-checking instances of TelegramDelivery: the deliverers are symmetric,
\* and so are the bots.
EXTENDS TelegramDelivery, TLC

Symmetry == Permutations(Deliverers) \cup Permutations(Bots)
=============================================================================
