--------------------------- MODULE MCAlertDelivery --------------------------
\* Instances of AlertDelivery for TLC.
EXTENDS AlertDelivery

CONSTANTS a1, a2, a3

\* a1 and a2 ask for the digest too; a fact of a2 may not leave as a push.
AlertRoutes == {<<a1, "email">>, <<a2, "sms">>}
WithheldEgress == {<<a2, "push">>}

\* a1 alone can be sent: the run about what an unreadable alert does to it.
OneRoute == {<<a1, "email">>}

\* a1 fired before a2, and a2 before a3.
FiredInOrder == {<<a1, a2>>, <<a2, a3>>, <<a1, a3>>}
=============================================================================
