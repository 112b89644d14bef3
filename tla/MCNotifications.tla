-------------------------- MODULE MCNotifications ---------------------------
(* The instance of Notifications for TLC: two notifications of any kind. *)
EXTENDS Notifications

CONSTANTS n1, n2
=============================================================================
