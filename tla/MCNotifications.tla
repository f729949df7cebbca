--------------------------- MODULE MCNotifications ---------------------------
(* A TD's machine, or one that a TD and an artist share. *)
EXTENDS Notifications, TLC

CONSTANTS td, artist
=============================================================================
