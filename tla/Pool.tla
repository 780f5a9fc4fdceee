-------------------------------- MODULE Pool --------------------------------
(***************************************************************************)
(* con-ron/src/pool.rs: `parallel_all` and the `worker` it runs on every   *)
(* lane.  A lane is a spawned thread, 1 .. Workers, or the calling thread  *)
(* itself (0) when the system refused every thread.  Each shared-memory    *)
(* access of the code is a step of its own: the claim (`next.fetch_add`),  *)
(* the gate (`limit.load`), the call of `step`, and the lowering of the    *)
(* limit (`limit.fetch_min`).                                              *)
(*                                                                         *)
(* All accesses are Relaxed, so the gate may read any value the limit ever *)
(* held; `held` is that set of values, and the limit itself is its least   *)
(* element, since fetch_min only ever lowers it.                           *)
(***************************************************************************)
EXTENDS Integers

CONSTANTS
  N,        \* the number of indices, `n`
  Workers   \* the number of threads asked for, `workers`

ASSUME SizeAssumption == N \in Nat /\ Workers \in Nat

Index == 0 .. N - 1
Caller == 0
Lane == 0 .. Workers

VARIABLES
  next,       \* the shared claim counter
  held,       \* the values the shared limit has held
  pc,         \* where each lane stands in `worker`
  claim,      \* the index a lane claimed last
  acc,        \* the results a lane has pushed, "none" where it has none
  stage,      \* where the caller stands in `parallel_all`
  spawned,    \* how many threads were spawned
  joined,     \* how many handles were joined
  collected,  \* the lanes whose results were handed back
  panicked,   \* did a join return Err
  answer      \* the value returned

laneVars == <<next, held, pc, claim, acc>>
callVars == <<stage, spawned, joined, collected, panicked, answer>>
vars == <<next, held, pc, claim, acc, stage, spawned, joined, collected,
          panicked, answer>>

(* What each index's step returned, on whichever lane: the view of the     *)
(* lanes the contract is about.                                            *)
Outcome ==
  [k \in Index |->
     IF \E l \in Lane : acc[l][k] = "err" THEN "err"
     ELSE IF \E l \in Lane : acc[l][k] = "ok" THEN "ok" ELSE "none"]

Contract == INSTANCE ParallelAll WITH outcome <- Outcome

TypeOK ==
  /\ next \in Nat
  /\ held \in SUBSET (0 .. N)
  /\ pc \in [Lane -> {"unborn", "init", "claim", "gate", "step", "lower",
                      "after", "done", "dead"}]
  /\ claim \in [Lane -> 0 .. N]
  /\ acc \in [Lane -> [Index -> {"none", "ok", "err"}]]
  /\ stage \in {"spawn", "lane", "join", "returned"}
  /\ spawned \in 0 .. Workers
  /\ joined \in 0 .. Workers
  /\ collected \in SUBSET Lane
  /\ panicked \in BOOLEAN
  /\ answer \in Contract!Answer

-----------------------------------------------------------------------------
(* The lanes: `worker`.                                                    *)

Go(l, from, to) == pc[l] = from /\ pc' = [pc EXCEPT ![l] = to]

(* `let mut st: S = init();`                                               *)
BuildState(l) ==
  /\ Go(l, "init", "claim")
  /\ UNCHANGED <<next, held, claim, acc, callVars>>

(* Mutant: a load and a store in place of the fetch_add; one is lost.      *)
ClaimIndexNotAtomic(l) ==
  /\ Go(l, "claim", IF next >= N THEN "done" ELSE "gate")
  /\ claim' = IF next >= N THEN claim ELSE [claim EXCEPT ![l] = next]
  /\ next' \in {next, next + 1}
  /\ UNCHANGED <<held, acc, callVars>>

(* `next.fetch_add(1)`: past the end, the worker returns what it has.      *)
ClaimIndex(l) ==
  /\ Go(l, "claim", IF next >= N THEN "done" ELSE "gate")
  /\ claim' = IF next >= N THEN claim ELSE [claim EXCEPT ![l] = next]
  /\ next' = next + 1
  /\ UNCHANGED <<held, acc, callVars>>

(* Mutant: the gate skips the index just below the limit.                  *)
PassGateOffByOne(l) ==
  /\ \E v \in held : Go(l, "gate", IF claim[l] + 1 >= v THEN "claim" ELSE "step")
  /\ UNCHANGED <<next, held, claim, acc, callVars>>

(* `if k >= limit.load(Relaxed) { continue; }` on some value it has held.  *)
PassGate(l) ==
  /\ \E v \in held : Go(l, "gate", IF claim[l] >= v THEN "claim" ELSE "step")
  /\ UNCHANGED <<next, held, claim, acc, callVars>>

(* `step(&mut st, k)` returns Ok and the result is pushed.                 *)
StepOk(l) ==
  /\ Go(l, "step", "after")
  /\ acc' = [acc EXCEPT ![l][claim[l]] = "ok"]
  /\ UNCHANGED <<next, held, claim, callVars>>

(* `step` returns Err: the limit is still to be lowered.                   *)
StepErrs(l) ==
  /\ Go(l, "step", "lower")
  /\ UNCHANGED <<next, held, claim, acc, callVars>>

(* `limit.fetch_min(k)`, which reads the limit itself, then the push.      *)
LowerLimit(l) ==
  /\ Go(l, "lower", "after")
  /\ held' = IF \A v \in held : claim[l] < v THEN held \cup {claim[l]} ELSE held
  /\ acc' = [acc EXCEPT ![l][claim[l]] = "err"]
  /\ UNCHANGED <<next, claim, callVars>>

(* `after(&st, k)` returns and the loop goes round.                        *)
RunAfter(l) ==
  /\ Go(l, "after", "claim")
  /\ UNCHANGED <<next, held, claim, acc, callVars>>

(* A panic inside `init`, `step` or `after`: the lane is gone, and with it *)
(* every result it had pushed.                                             *)
Panic(l) ==
  /\ pc[l] \in {"init", "step", "after"}
  /\ pc' = [pc EXCEPT ![l] = "dead"]
  /\ UNCHANGED <<next, held, claim, acc, callVars>>

Work(l) ==
  \/ BuildState(l) \/ ClaimIndex(l) \/ PassGate(l)
  \/ StepOk(l) \/ StepErrs(l) \/ LowerLimit(l) \/ RunAfter(l)

-----------------------------------------------------------------------------
(* The caller: `parallel_all`.                                             *)

Spawn ==
  /\ stage = "spawn" /\ spawned < Workers
  /\ spawned' = spawned + 1
  /\ pc' = [pc EXCEPT ![spawned + 1] = "init"]
  /\ UNCHANGED <<next, held, claim, acc, stage, joined, collected, panicked,
                 answer>>

(* The loop is over, or the system refused this thread and it is left: run *)
(* on the calling thread if there is no handle at all.                     *)
StopSpawning ==
  /\ stage = "spawn"
  /\ stage' = IF spawned = 0 THEN "lane" ELSE "join"
  /\ pc' = IF spawned = 0 THEN [pc EXCEPT ![Caller] = "init"] ELSE pc
  /\ UNCHANGED <<next, held, claim, acc, spawned, joined, collected, panicked,
                 answer>>

(* `results.push(run())` on the calling thread has come back.              *)
LaneReturned ==
  /\ stage = "lane" /\ pc[Caller] = "done"
  /\ stage' = "join"
  /\ collected' = {Caller}
  /\ UNCHANGED <<laneVars, spawned, joined, panicked, answer>>

(* A panic on the calling thread unwinds out of `parallel_all`.            *)
LaneUnwound ==
  /\ stage = "lane" /\ pc[Caller] = "dead"
  /\ stage' = "returned"
  /\ answer' = Contract!Unwound
  /\ UNCHANGED <<laneVars, spawned, joined, collected, panicked>>

(* Mutant: a thread that panicked is waited for.                           *)
JoinWaitsForResults ==
  /\ stage = "join" /\ joined < spawned
  /\ pc[joined + 1] = "done"
  /\ joined' = joined + 1
  /\ collected' = collected \cup {joined + 1}
  /\ UNCHANGED <<laneVars, stage, spawned, panicked, answer>>

(* `h.join()` of the next handle, in spawn order.                          *)
Join ==
  /\ stage = "join" /\ joined < spawned
  /\ pc[joined + 1] \in {"done", "dead"}
  /\ joined' = joined + 1
  /\ IF pc[joined + 1] = "done"
       THEN collected' = collected \cup {joined + 1} /\ UNCHANGED panicked
       ELSE panicked' = TRUE /\ UNCHANGED collected
  /\ UNCHANGED <<laneVars, stage, spawned, answer>>

(* `merge_results`: slot k holds the result some lane handed back for k.   *)
(* At most one lane has one (ClaimedOnce), so which lane is merged last    *)
(* does not matter.                                                        *)
MergeResults ==
  [k \in Index |->
     IF \E l \in collected : acc[l][k] # "none"
       THEN acc[CHOOSE l \in collected : acc[l][k] # "none"][k]
       ELSE "none"]

(* Mutants: a join that failed is forgotten; the scope is left before the  *)
(* last handle is joined.                                                  *)
ReturnIgnoringPanic ==
  /\ stage = "join" /\ joined = spawned
  /\ stage' = "returned"
  /\ answer' \in Contract!Answer
  /\ Contract!IsWalk(MergeResults, answer')
  /\ UNCHANGED <<laneVars, spawned, joined, collected, panicked>>

ReturnBeforeLastJoin ==
  /\ stage = "join" /\ joined + 1 >= spawned
  /\ stage' = "returned"
  /\ IF panicked
       THEN answer' = Contract!Panicked
       ELSE /\ answer' \in Contract!Answer
            /\ Contract!IsWalk(MergeResults, answer')
  /\ UNCHANGED <<laneVars, spawned, joined, collected, panicked>>

(* `first_failure(merge_results(n, results))`, unless a lane panicked.     *)
Return ==
  /\ stage = "join" /\ joined = spawned
  /\ stage' = "returned"
  /\ IF panicked
       THEN answer' = Contract!Panicked
       ELSE /\ answer' \in Contract!Answer
            /\ Contract!IsWalk(MergeResults, answer')
  /\ UNCHANGED <<laneVars, spawned, joined, collected, panicked>>

Call == Spawn \/ StopSpawning \/ LaneReturned \/ LaneUnwound \/ Join \/ Return

(* The call has returned; nothing happens any more.                        *)
Finished == stage = "returned" /\ UNCHANGED vars

-----------------------------------------------------------------------------
Init ==
  /\ next = 0
  /\ held = {N}
  /\ pc = [l \in Lane |-> "unborn"]
  /\ claim = [l \in Lane |-> N]
  /\ acc = [l \in Lane |-> [k \in Index |-> "none"]]
  /\ stage = "spawn"
  /\ spawned = 0
  /\ joined = 0
  /\ collected = {}
  /\ panicked = FALSE
  /\ answer = Contract!Running

Next == Call \/ Finished \/ \E l \in Lane : Work(l) \/ Panic(l)

(* The system runs every thread, and `init`, `step` and `after` return or  *)
(* panic.                                                                  *)
Fairness == WF_vars(Call) /\ \A l \in Lane : WF_vars(Work(l))

Spec == Init /\ [][Next]_vars
FairSpec == Spec /\ Fairness

-----------------------------------------------------------------------------
(* A lane is busy with index k: it has claimed it and has not pushed it,   *)
(* and has not skipped it either.  A lane that died there counts.          *)
Holds(l, k) == claim[l] = k /\ pc[l] \in {"gate", "step", "lower"}
LostAt(l, k) == claim[l] = k /\ pc[l] = "dead"
Pushed(l, k) == acc[l][k] # "none"
Has(l, k) == Holds(l, k) \/ Pushed(l, k)
Kept(l, k) == Has(l, k) \/ LostAt(l, k)

(* No index is ever in the hands of two lanes, or stepped twice: a claimed *)
(* index is held or pushed by at most one lane (pool.rs, "each value is    *)
(* handed to exactly one caller").                                         *)
ClaimedOnce ==
  \A k \in Index : \A l \in Lane :
    /\ Has(l, k) => k < next
    /\ Holds(l, k) => ~ Pushed(l, k)
    /\ \A m \in Lane : Has(l, k) /\ Has(m, k) => l = m

(* The table is complete below the first failure: a claimed index below    *)
(* every value the limit has held is pushed, in flight, or was lost with a *)
(* lane that panicked -- never skipped, however stale the limit that was   *)
(* read (pool.rs, "an index below f is never skipped").                    *)
NoneSkippedBelowLimit ==
  \A k \in Index :
    k < next /\ (\A v \in held : k < v) =>
      \E l \in Lane : Kept(l, k)

(* A value the limit holds is N or an index whose step has failed, and no  *)
(* failure is above every value it holds: the limit is the least failure.  *)
LimitIsFailure ==
  /\ \A v \in held : v = N \/ (v \in Index /\ \E l \in Lane : acc[l][v] = "err")
  /\ \A l \in Lane, k \in Index : acc[l][k] = "err" => \E v \in held : v <= k

(* A call that accepts has stepped every index, successfully, on a lane    *)
(* whose results came back; a call that names index k has stepped all of   *)
(* 0 .. k-1 successfully and k unsuccessfully, whatever the timing; and no *)
(* call ever answers Missing.                                              *)
AnswerIsTheWalk ==
  stage = "returned" =>
    \/ answer \in {Contract!Panicked, Contract!Unwound}
    \/ answer.kind # "Missing" /\ Contract!IsWalk(Outcome, answer)

(* Where the lanes can stand, seen from the caller: no thread beyond those *)
(* it spawned, itself a lane only if it spawned none, and every lane whose *)
(* handle is joined at rest, its results collected or its panic noted.     *)
CallerKnows ==
  /\ joined <= spawned
  /\ \A l \in Lane : l > spawned => pc[l] = "unborn"
  /\ \A l \in Lane : pc[l] = "unborn" => \A k \in Index : acc[l][k] = "none"
  /\ \A l \in Lane : pc[l] = "done" => next >= N
  /\ \A l \in Lane : pc[l] \in {"gate", "step", "lower"} => claim[l] \in Index
  /\ pc[Caller] # "unborn" => spawned = 0 /\ stage # "spawn"
  /\ \A l \in collected : pc[l] = "done"
  /\ \A l \in 1 .. joined :
       (pc[l] = "done" /\ l \in collected) \/ (pc[l] = "dead" /\ panicked)
  /\ stage \in {"spawn", "lane"} => joined = 0 /\ ~ panicked
  /\ stage = "lane" => spawned = 0
  /\ stage = "join" /\ spawned = 0 => Caller \in collected
  /\ stage # "returned" <=> answer = Contract!Running
  /\ stage = "returned" =>
       /\ \A l \in Lane : pc[l] \in {"unborn", "done", "dead"}
       /\ \/ answer \in {Contract!Panicked, Contract!Unwound}
          \/ ~ panicked /\ joined = spawned

(* The inductive invariant: what the pool never loses sight of.            *)
Inv ==
  /\ TypeOK
  /\ ClaimedOnce
  /\ NoneSkippedBelowLimit
  /\ LimitIsFailure
  /\ CallerKnows
  /\ AnswerIsTheWalk

(* The pool is an implementation of its contract: no index is stepped      *)
(* twice, and the one answer is the walk's or an internal failure.         *)
Implements == Contract!Spec

(* Every call comes back, panics and refused threads included.             *)
Returns == <>(stage = "returned")

=============================================================================
