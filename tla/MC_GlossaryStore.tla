-------------------------- MODULE MC_GlossaryStore --------------------------
(* Two books of up to two entries, one language pair, one translation in   *)
(* flight, five commands.                                                  *)
EXTENDS GlossaryStore, TLC

CONSTANTS b1, b2, e1, e2

GlossarySymmetry == Permutations(Books) \cup Permutations(Entries)
=============================================================================
