---------------------------- MODULE ParallelAll ----------------------------
(***************************************************************************)
(* The contract of con-ron/src/pool.rs: what `parallel_all` promises its   *)
(* caller, with no worker, no counter and no limit in it.  Every index of  *)
(* 0..N-1 is stepped at most once, in whatever order; the answer is that   *)
(* of a walk over the outcomes in index order.  Pool implements this       *)
(* module, and the driver relies on this module alone.                     *)
(***************************************************************************)
EXTENDS Integers

CONSTANT N                  \* the number of indices, `n` of parallel_all

Index == 0 .. N - 1

VARIABLES
  outcome,  \* what `step(_, k)` returned at each index, "none" until it did
  answer    \* what the call returned, Running until it returns

vars == <<outcome, answer>>

(* `Result<(), ParallelError<E>>`, plus the call that has not returned and *)
(* the call that never will: the calling thread unwound out of it.         *)
Running  == [kind |-> "Running",  at |-> 0]
Ok       == [kind |-> "Ok",       at |-> 0]
StepErr(k) == [kind |-> "Step",   at |-> k]
Missing(k) == [kind |-> "Missing", at |-> k]
Panicked == [kind |-> "Panicked", at |-> 0]
Unwound  == [kind |-> "Unwound",  at |-> 0]

Answer ==
  {Running, Ok, Panicked, Unwound}
    \cup {StepErr(k) : k \in Index} \cup {Missing(k) : k \in Index}

(* The first slot, in index order, that is not Ok decides.                 *)
IsWalk(tab, a) ==
  \/ /\ \A k \in Index : tab[k] = "ok"
     /\ a = Ok
  \/ \E k \in Index :
       /\ \A j \in Index : j < k => tab[j] = "ok"
       /\ tab[k] # "ok"
       /\ a = IF tab[k] = "err" THEN StepErr(k) ELSE Missing(k)

Init ==
  /\ outcome = [k \in Index |-> "none"]
  /\ answer = Running

(* Some index that has no outcome yet is stepped.                          *)
Try(k) ==
  /\ answer = Running
  /\ outcome[k] = "none"
  /\ \E r \in {"ok", "err"} : outcome' = [outcome EXCEPT ![k] = r]
  /\ UNCHANGED answer

(* The call returns the walk's answer.  An index with no outcome is never  *)
(* reached by the walk: Missing is not among the answers.                  *)
Return ==
  /\ answer = Running
  /\ IsWalk(outcome, answer')
  /\ answer'.kind # "Missing"
  /\ UNCHANGED outcome

(* A panic on a lane: an internal failure, whatever the outcomes.          *)
Abort ==
  /\ answer = Running
  /\ answer' \in {Panicked, Unwound}
  /\ UNCHANGED outcome

Next == Return \/ Abort \/ \E k \in Index : Try(k)

Spec == Init /\ [][Next]_vars

=============================================================================
