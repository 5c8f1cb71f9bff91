------------------------------ MODULE MCInbox ------------------------------
(* Instances of Inbox for TLC.                                             *)
EXTENDS Inbox
=============================================================================
