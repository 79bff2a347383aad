---------------------------- MODULE MCKeyTyping ----------------------------
(* Instances of KeyTyping for TLC. *)
EXTENDS KeyTyping

\* Every key with an engraved character in one of the layouts.
AllEngraved == Keys(JisSymbols) \cup Keys(UsSymbols)

=============================================================================
