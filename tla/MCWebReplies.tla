---------------------------- MODULE MCWebReplies ----------------------------
(* The widget of a visitor of the deployment's own business, and that of a *)
(* visitor of another one, whose questions the same admins answer.         *)
EXTENDS WebReplies

TwoPages == {[biz |-> "b1", session |-> "s1", tab |-> 1],
             [biz |-> "b2", session |-> "s2", tab |-> 1]}
=============================================================================
