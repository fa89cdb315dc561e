---------------------------- MODULE MCWebClient ----------------------------
(* Instances of WebClient for TLC. *)
EXTENDS WebClient, TLC

Symmetry == Permutations(Ids) \cup Permutations(Slots)

==============================================================================
