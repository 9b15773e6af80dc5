---------------------------- MODULE MCRateLimiter ----------------------------
(* Values for TLC: two settings of the ask limits, and smaller ones of the   *)
(* contact form.                                                             *)
EXTENDS RateLimiter, TLC

MCAsk == {<<1, 1>>, <<2, 1>>}
MCLead == <<1, 1>>
Symmetry == Permutations(Requests)
=============================================================================
