----------------------------- MODULE RunContract -----------------------------
(***************************************************************************)
(* What a generation run promises to the person who asked for it, without   *)
(* queue, attempts or processes: an accepted run is decided once, a success *)
(* has filled the version, a debit happens at most once and only after a    *)
(* success, and one terminal event tells the decision that was taken.       *)
(***************************************************************************)
EXTENDS Naturals

CONSTANT Runs

VARIABLES
  outcome,    \* [Runs -> {"none", "running", "succeeded", "failed"}]
  filled,     \* [Runs -> BOOLEAN], has the version been given content?
  debits,     \* [Runs -> Nat]
  told        \* [Runs -> what the client has been told]

vars == <<outcome, filled, debits, told>>

Init ==
  /\ outcome = [r \in Runs |-> "none"]
  /\ filled = [r \in Runs |-> FALSE]
  /\ debits = [r \in Runs |-> 0]
  /\ told = [r \in Runs |-> <<>>]

Decide(r, before, after) ==
  /\ outcome[r] = before
  /\ outcome' = [outcome EXCEPT ![r] = after]
  /\ UNCHANGED <<filled, debits, told>>

Accept(r)  == Decide(r, "none", "running")
Succeed(r) == filled[r] /\ Decide(r, "running", "succeeded")
Fail(r)    == Decide(r, "running", "failed")

Fill(r) ==
  /\ outcome[r] = "running"
  /\ filled' = [filled EXCEPT ![r] = TRUE]
  /\ UNCHANGED <<outcome, debits, told>>

Debit(r) ==
  /\ outcome[r] = "succeeded"
  /\ debits[r] = 0
  /\ debits' = [debits EXCEPT ![r] = 1]
  /\ UNCHANGED <<outcome, filled, told>>

Tell(r) ==
  /\ told[r] = <<>>
  /\ \/ outcome[r] = "succeeded" /\ told' = [told EXCEPT ![r] = <<"run.completed">>]
     \/ outcome[r] = "failed" /\ told' = [told EXCEPT ![r] = <<"run.failed">>]
  /\ UNCHANGED <<outcome, filled, debits>>

Next == \E r \in Runs : \/ Accept(r) \/ Succeed(r) \/ Fail(r)
                        \/ Fill(r) \/ Debit(r) \/ Tell(r)

Spec == Init /\ [][Next]_vars
=============================================================================
