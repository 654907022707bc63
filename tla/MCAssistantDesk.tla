--------------------------- MODULE MCAssistantDesk ---------------------------
(* Instances of AssistantDesk for TLC. *)
EXTENDS AssistantDesk

CONSTANTS ann, bob, old

\* One conversation on file, bob's.
BobsBook == [b \in OldBooks |-> bob]

=============================================================================
