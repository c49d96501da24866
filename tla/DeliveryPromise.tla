-------------------------- MODULE DeliveryPromise --------------------------
(***************************************************************************)
(* What the delivery ledger promises of one obligation, whichever process  *)
(* writes it and whatever happens to the queue: an obligation is opened,   *)
(* attempted, and in the end delivered or excluded.  Delivery is final and *)
(* rests on an attempt that a manifest proved; an obligation leaves the    *)
(* denominator only before its first attempt; the outcome of an attempt is *)
(* written once.                                                           *)
(***************************************************************************)
EXTENDS Naturals

CONSTANTS Videos, Ids, MaxTries

Tries == 1..MaxTries
Ended == {"succeeded", "retryable_failure", "review_required", "deferred", "failed"}

VARIABLES obl, tries, att, proven

vars == <<obl, tries, att, proven>>

Init ==
  /\ obl = [v \in Videos |-> [i \in Ids |-> "none"]]
  /\ tries = [v \in Videos |-> [i \in Ids |-> 0]]
  /\ att = [v \in Videos |-> [i \in Ids |-> [k \in Tries |-> "none"]]]
  /\ proven = [v \in Videos |-> {}]

\* Excluded before its first attempt, or opened (again), or left alone.
Admission(v, i) ==
  \/ obl'[v][i] = obl[v][i]
  \/ obl[v][i] \in {"none", "excluded"} /\ obl'[v][i] = "open"
  \/ obl[v][i] = "open" /\ tries'[v][i] = 0 /\ obl'[v][i] = "excluded"

\* Delivered in the step that ends one of its running attempts as proven.
Delivery(v, i) ==
  /\ obl[v][i] = "open" /\ obl'[v][i] = "succeeded"
  /\ \E k \in Tries : att[v][i][k] = "running" /\ att'[v][i][k] = "succeeded"

\* An attempt begins as the next one of an open obligation, and ends once.
\* It ends as succeeded only if a manifest proved it.
Attempt(v, i, k) ==
  \/ att'[v][i][k] = att[v][i][k]
  \/ /\ att[v][i][k] = "none" /\ att'[v][i][k] = "running"
     /\ obl'[v][i] = "open"
     /\ k = tries[v][i] + 1 /\ tries'[v][i] = k
  \/ /\ att[v][i][k] = "running" /\ att'[v][i][k] \in Ended
     /\ att'[v][i][k] = "succeeded" => <<i, k>> \in proven[v] /\ obl'[v][i] = "succeeded"

Counted(v, i) ==
  \/ tries'[v][i] = tries[v][i]
  \/ tries'[v][i] = tries[v][i] + 1 /\ att'[v][i][tries'[v][i]] = "running"

Next ==
  \A v \in Videos :
    /\ proven[v] \subseteq proven'[v]
    /\ \A i \in Ids :
         /\ Admission(v, i) \/ Delivery(v, i)
         /\ Counted(v, i)
         /\ \A k \in Tries : Attempt(v, i, k)

Spec == Init /\ [][Next]_vars
=============================================================================
