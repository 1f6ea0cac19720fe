------------------------------ MODULE MCChatRoom ------------------------------
(***************************************************************************)
(* Instances of ChatRoom for TLC.                                           *)
(***************************************************************************)
EXTENDS ChatRoom

CONSTANTS chatA, chatB

=============================================================================
