---------------------- MODULE MCConversationProvisioner ----------------------
(***************************************************************************)
(* An instance of ConversationProvisioner for TLC.                          *)
(***************************************************************************)
EXTENDS ConversationProvisioner, TLC

CONSTANTS c1

=============================================================================
