---------------------------- MODULE MCNotifications ----------------------------
\* Instances of Notifications for TLC.
EXTENDS Notifications

CONSTANTS n1, n2

Two == {n1, n2}
=============================================================================
