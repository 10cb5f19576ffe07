------------------------------ MODULE MCChatbot ------------------------------
(* The instances of Chatbot that TLC checks. *)
EXTENDS Chatbot, TLC

ChatSymmetry == Permutations(Instance) \cup Permutations(Key)

=============================================================================
