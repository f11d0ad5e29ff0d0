--------------------------- MODULE ReportPromise ---------------------------
(***************************************************************************)
(* What the report queue promises whoever requests a report, with no       *)
(* workers, leases or object store: a request is tried a bounded number of *)
(* times, it is given up only when the tries are spent, what is published  *)
(* is the product of the latest try, and a settled request stays settled.  *)
(***************************************************************************)
EXTENDS Naturals

CONSTANTS Jobs, MaxAttempts

VARIABLES outcome, tries, published

vars == <<outcome, tries, published>>

Init ==
  /\ outcome   = [j \in Jobs |-> "none"]
  /\ tries     = [j \in Jobs |-> 0]
  /\ published = [j \in Jobs |-> 0]

Request(j) ==
  /\ outcome[j] = "none"
  /\ outcome' = [outcome EXCEPT ![j] = "pending"]
  /\ UNCHANGED <<tries, published>>

Try(j) ==
  /\ outcome[j] = "pending"
  /\ tries[j] < MaxAttempts
  /\ tries' = [tries EXCEPT ![j] = @ + 1]
  /\ UNCHANGED <<outcome, published>>

Deliver(j) ==
  /\ outcome[j] = "pending"
  /\ tries[j] > 0
  /\ outcome'   = [outcome EXCEPT ![j] = "succeeded"]
  /\ published' = [published EXCEPT ![j] = tries[j]]
  /\ UNCHANGED tries

GiveUp(j) ==
  /\ outcome[j] = "pending"
  /\ tries[j] = MaxAttempts
  /\ outcome' = [outcome EXCEPT ![j] = "failed"]
  /\ UNCHANGED <<tries, published>>

Next == \E j \in Jobs : Request(j) \/ Try(j) \/ Deliver(j) \/ GiveUp(j)

Spec == Init /\ [][Next]_vars

=============================================================================
