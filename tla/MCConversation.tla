--------------------------- MODULE MCConversation ---------------------------
(* A small instance of ConversationView, and with it of Conversation, for TLC. *)
EXTENDS ConversationView

=============================================================================
