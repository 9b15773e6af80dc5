------------------------------ MODULE MCWidget ------------------------------
(* Values for TLC: where no contact is asked for, the visitor types more and *)
(* the admins read the dashboard; where one is, the page has more to do.     *)
EXTENDS Widget

MCMaxTyped == [off |-> 3, always |-> 2, handoff |-> 2]
MCMaxReloads == [off |-> 0, always |-> 1, handoff |-> 1]
=============================================================================
