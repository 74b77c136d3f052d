----------------------- MODULE MCNotificationDelivery -----------------------
\* Model-checking instances of NotificationDelivery.
EXTENDS NotificationDelivery, TLC

CONSTANTS r1, r2, tg, vk, o1, o2

AllKeys == Runs \X Routes
\* Every run has leads for a route of its own: runs of two client profiles.
OwnKeys == {<<r1, tg>>, <<r2, vk>>}

OwnedByOne == [r \in Routes |-> o1]
OwnedByTwo == [r \in Routes |-> IF r = tg THEN o1 ELSE o2]
=============================================================================
