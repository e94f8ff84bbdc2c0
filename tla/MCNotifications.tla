-------------------------- MODULE MCNotifications --------------------------
(***************************************************************************)
(* Instance of Notifications for TLC: one recipient, two revisions and     *)
(* both channels.                                                          *)
(***************************************************************************)
EXTENDS Notifications
=============================================================================
