---------------------------- MODULE MCNotifications ----------------------------
(* A small instance of Notifications for TLC. *)
EXTENDS Notifications

CONSTANTS l1, l2, s1, s2, s3
=============================================================================
