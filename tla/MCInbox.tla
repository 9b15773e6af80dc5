------------------------------- MODULE MCInbox -------------------------------
(* Values for TLC: item 1 belongs to the business of the chat channels, item *)
(* 2 to another tenant of the same database.                                 *)
EXTENDS Inbox, TLC

CONSTANTS home, other

MCBusinesses == {home, other}
MCOwner == [i \in Item |-> IF i = 2 THEN other ELSE home]
OneTenant == {home}
MCOneOwner == [i \in Item |-> home]

\* The admin's taps come one at a time, so that only messages overlap them.
Taps == {w \in Workers : job[w].pc \in {"set", "unset", "show"}}
OneTapSpec == Init /\ [][Next /\ Cardinality(Taps') <= 1]_vars

Symmetry == Permutations(Workers)
=============================================================================
