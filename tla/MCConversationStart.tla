------------------------ MODULE MCConversationStart ------------------------
(***************************************************************************)
(* Bounds for model checking ConversationStart: three users (three pairs,  *)
(* so calls about overlapping pairs meet), every request of every call     *)
(* chosen in the initial state, one id per pair.                           *)
(***************************************************************************)
EXTENDS ConversationStart, TLC

Symmetry == Permutations(Call) \cup Permutations(ConvId)
=============================================================================
