---------------------------- MODULE MCNotifications ----------------------------
(* Small instances of Notifications.                                         *)
EXTENDS Notifications, TLC

Symmetry == Permutations(Task)
=============================================================================
