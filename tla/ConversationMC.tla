--------------------------- MODULE ConversationMC ---------------------------
(* Small instances of a conversation for TLC. *)
EXTENDS Conversation

CONSTANTS q1, q2

\* The prediction q1 is also contained in the longer final q2.
Contained == {<<q1, q1>>, <<q2, q2>>, <<q1, q2>>}
Apart == {<<q1, q1>>, <<q2, q2>>}
=============================================================================
