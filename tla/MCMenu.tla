------------------------------- MODULE MCMenu -------------------------------
(* Three categories: one whose name fits a Telegram button, one whose name *)
(* is cut between two characters, one whose name is cut inside of one.     *)
(* Two languages, and Messenger menus cut after one entry.                 *)
EXTENDS Menu, TLC

MCCut == [c \in Names |-> CASE c = "payment" -> "pay"
                             [] c = "delivery" -> "deliv?"
                             [] OTHER -> c]

Symmetry == Permutations(Slots) \union Permutations(Messages) \union Permutations(LoadSlots)

Authored == {[i \in {1, 2} |-> Row(IF i = 1 THEN "ship" ELSE "payment", "en")]}
=============================================================================
