----------------------------- MODULE MCMessaging ----------------------------
(* Small instances of Messaging. *)
EXTENDS Messaging, TLC

CONSTANTS r1, r2

TwoRequesters == {r1, r2}
=============================================================================
