------------------------------- MODULE Ticket -------------------------------
(***************************************************************************)
(* What the human inbox promises about one unanswered question, whatever   *)
(* surface the admin answers from.                                         *)
(*                                                                         *)
(* A question is raised once.  An admin's request may claim it only while  *)
(* it is pending; only a request that holds a claim can send the customer  *)
(* a reply.  The question is closed by a reply that was sent, or by being  *)
(* dismissed, and it never becomes pending again.  The retention job may   *)
(* forget it at any time.                                                  *)
(***************************************************************************)
CONSTANTS Item,     \* questions
          Worker    \* concurrent requests

VARIABLES status,     \* Item -> none | pending | resolved | purged
          claims,     \* Item -> the requests entitled to answer it
          answered,   \* the items whose customer was sent a reply
          dismissed   \* the items an admin dismissed

vars == <<status, claims, answered, dismissed>>

Init == /\ status = [i \in Item |-> "none"]
        /\ claims = [i \in Item |-> {}]
        /\ answered = {}
        /\ dismissed = {}

Raise(i) == /\ status[i] = "none"
            /\ status' = [status EXCEPT ![i] = "pending"]
            /\ UNCHANGED <<claims, answered, dismissed>>

Claim(i, w) == /\ status[i] = "pending"
               /\ claims' = [claims EXCEPT ![i] = @ \cup {w}]
               /\ UNCHANGED <<status, answered, dismissed>>

\* The request gives up; its customer may or may not have been reached.
GiveUp(i, w) == /\ w \in claims[i]
                /\ claims' = [claims EXCEPT ![i] = @ \ {w}]
                /\ answered' \in {answered, answered \cup {i}}
                /\ UNCHANGED <<status, dismissed>>

Answer(i, w) == /\ w \in claims[i]
                /\ claims' = [claims EXCEPT ![i] = @ \ {w}]
                /\ answered' = answered \cup {i}
                /\ UNCHANGED <<status, dismissed>>

Close(i) == /\ status[i] = "pending"
            /\ i \in answered
            /\ status' = [status EXCEPT ![i] = "resolved"]
            /\ UNCHANGED <<claims, answered, dismissed>>

Dismiss(i) == /\ status[i] = "pending"
              /\ status' = [status EXCEPT ![i] = "resolved"]
              /\ dismissed' = dismissed \cup {i}
              /\ UNCHANGED <<claims, answered>>

\* Retention deletes a set of the questions asked so far.
Forget(S) == /\ \A i \in S : status[i] # "none"
             /\ status' = [i \in Item |-> IF i \in S THEN "purged" ELSE status[i]]
             /\ UNCHANGED <<claims, answered, dismissed>>

Next == \/ \E i \in Item : Raise(i) \/ Close(i) \/ Dismiss(i)
        \/ \E i \in Item, w \in Worker : Claim(i, w) \/ GiveUp(i, w) \/ Answer(i, w)
        \/ \E S \in SUBSET Item : Forget(S)

Spec == Init /\ [][Next]_vars
=============================================================================
