-------------------------- MODULE MCConversationTurns --------------------------
(* Small instances of ConversationTurns are given by constants alone.      *)
EXTENDS ConversationTurns
=============================================================================
