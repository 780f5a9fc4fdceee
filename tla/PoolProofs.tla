----------------------------- MODULE PoolProofs -----------------------------
(***************************************************************************)
(* Proofs about Pool, for every number of indices and of threads: Inv is   *)
(* an invariant, so the answer is the sequential walk's; and every step of *)
(* the pool is a step of its contract.                                     *)
(***************************************************************************)
EXTENDS Pool, TLAPS

USE SizeAssumption DEF Index, Caller, Lane

(* The values an answer can have are told apart by their kind.             *)
LEMMA AnswersDiffer ==
  /\ Contract!Running # Contract!Panicked
  /\ Contract!Running # Contract!Unwound
  /\ Contract!Running # Contract!Ok
  /\ \A k : Contract!Running # Contract!StepErr(k) /\ Contract!Running # Contract!Missing(k)
BY DEF Contract!Running, Contract!Panicked, Contract!Unwound, Contract!Ok,
       Contract!StepErr, Contract!Missing

-----------------------------------------------------------------------------
(* Type correctness.                                                       *)

LEMMA InitTypeOK == Init => TypeOK
<1> SUFFICES ASSUME Init PROVE TypeOK
  OBVIOUS
<1>1. answer \in Contract!Answer
  BY DEF Init, Contract!Answer
<1>2. /\ next \in Nat /\ held \in SUBSET (0 .. N)
      /\ spawned \in 0 .. Workers /\ joined \in 0 .. Workers
  BY DEF Init
<1>3. /\ pc \in [Lane -> {"unborn", "init", "claim", "gate", "step", "lower",
                          "after", "done", "dead"}]
      /\ claim \in [Lane -> 0 .. N]
      /\ acc \in [Lane -> [Index -> {"none", "ok", "err"}]]
  BY DEF Init
<1>4. /\ stage \in {"spawn", "lane", "join", "returned"}
      /\ collected \in SUBSET Lane /\ panicked \in BOOLEAN
  BY DEF Init
<1> QED
  BY <1>1, <1>2, <1>3, <1>4 DEF TypeOK

LEMMA NextTypeOK == TypeOK /\ [Next]_vars => TypeOK'
<1> SUFFICES ASSUME TypeOK, [Next]_vars PROVE TypeOK'
  OBVIOUS
<1> USE DEF TypeOK
<1>1. ASSUME NEW l \in Lane, BuildState(l) PROVE TypeOK'
  BY <1>1 DEF BuildState, Go, callVars
<1>2. ASSUME NEW l \in Lane, ClaimIndex(l) PROVE TypeOK'
  BY <1>2 DEF ClaimIndex, Go, callVars
<1>3. ASSUME NEW l \in Lane, PassGate(l) PROVE TypeOK'
  BY <1>3 DEF PassGate, Go, callVars
<1>4. ASSUME NEW l \in Lane, StepOk(l) PROVE TypeOK'
  BY <1>4 DEF StepOk, Go, callVars
<1>5. ASSUME NEW l \in Lane, StepErrs(l) PROVE TypeOK'
  BY <1>5 DEF StepErrs, Go, callVars
<1>6. ASSUME NEW l \in Lane, LowerLimit(l) PROVE TypeOK'
  BY <1>6 DEF LowerLimit, Go, callVars
<1>7. ASSUME NEW l \in Lane, RunAfter(l) PROVE TypeOK'
  BY <1>7 DEF RunAfter, Go, callVars
<1>8. ASSUME NEW l \in Lane, Panic(l) PROVE TypeOK'
  BY <1>8 DEF Panic, callVars
<1>9. CASE Spawn
  BY <1>9 DEF Spawn
<1>10. CASE StopSpawning
  BY <1>10 DEF StopSpawning
<1>11. CASE LaneReturned
  BY <1>11 DEF LaneReturned, laneVars
<1>12. CASE LaneUnwound
  BY <1>12 DEF LaneUnwound, laneVars, Contract!Answer
<1>13. CASE Join
  <2>1. joined + 1 \in Lane /\ joined + 1 \in 0 .. Workers
    BY <1>13 DEF Join
  <2> QED
    BY <1>13, <2>1 DEF Join, laneVars
<1>14. CASE Return
  BY <1>14 DEF Return, laneVars, Contract!Answer
<1>15. CASE UNCHANGED vars
  BY <1>15 DEF vars
<1> QED
  BY <1>1, <1>2, <1>3, <1>4, <1>5, <1>6, <1>7, <1>8, <1>9, <1>10, <1>11, <1>12,
     <1>13, <1>14, <1>15 DEF Next, Call, Work, Finished

(* Every variable of the pool keeps to its type.                           *)
THEOREM TypeCorrect == Spec => []TypeOK
BY InitTypeOK, NextTypeOK, PTL DEF Spec

-----------------------------------------------------------------------------
(* No index is ever in the hands of two lanes: the counter passes every    *)
(* index exactly once, and what was claimed stays below it.                *)

LEMMA ClaimStep ==
  ASSUME TypeOK, ClaimedOnce, CallerKnows, [Next]_vars
  PROVE  ClaimedOnce'
<1> USE DEF ClaimedOnce, Has, Holds, Pushed
<1>1. ASSUME NEW l \in Lane, BuildState(l) PROVE ClaimedOnce'
  BY <1>1 DEF BuildState, Go, callVars, TypeOK
<1>2. ASSUME NEW l \in Lane, ClaimIndex(l) PROVE ClaimedOnce'
  BY <1>2 DEF ClaimIndex, Go, callVars, TypeOK
<1>3. ASSUME NEW l \in Lane, PassGate(l) PROVE ClaimedOnce'
  BY <1>3 DEF PassGate, Go, callVars, TypeOK
<1>4. ASSUME NEW l \in Lane, StepOk(l) PROVE ClaimedOnce'
  BY <1>4 DEF StepOk, Go, callVars, TypeOK, CallerKnows
<1>5. ASSUME NEW l \in Lane, StepErrs(l) PROVE ClaimedOnce'
  BY <1>5 DEF StepErrs, Go, callVars, TypeOK
<1>6. ASSUME NEW l \in Lane, LowerLimit(l) PROVE ClaimedOnce'
  BY <1>6 DEF LowerLimit, Go, callVars, TypeOK, CallerKnows
<1>7. ASSUME NEW l \in Lane, RunAfter(l) PROVE ClaimedOnce'
  BY <1>7 DEF RunAfter, Go, callVars, TypeOK
<1>8. ASSUME NEW l \in Lane, Panic(l) PROVE ClaimedOnce'
  BY <1>8 DEF Panic, callVars, TypeOK
<1>9. CASE Spawn
  BY <1>9 DEF Spawn, TypeOK
<1>10. CASE StopSpawning
  BY <1>10 DEF StopSpawning, TypeOK
<1>11. CASE UNCHANGED laneVars
  BY <1>11 DEF laneVars
<1>12. CASE LaneReturned \/ LaneUnwound \/ Join \/ Return \/ UNCHANGED vars
  BY <1>11, <1>12 DEF LaneReturned, LaneUnwound, Join, Return, laneVars, vars
<1> QED
  BY <1>1, <1>2, <1>3, <1>4, <1>5, <1>6, <1>7, <1>8, <1>9, <1>10, <1>12
     DEF Next, Call, Work, Finished

-----------------------------------------------------------------------------
(* An index below every value of the limit passes the gate, however stale  *)
(* the value read there; from then on its lane holds it, has pushed it, or *)
(* has died on it.                                                         *)

LEMMA NoneSkippedStep ==
  ASSUME TypeOK, NoneSkippedBelowLimit, CallerKnows, [Next]_vars
  PROVE  NoneSkippedBelowLimit'
<1> SUFFICES ASSUME NEW k \in Index, k < next', \A v \in held' : k < v
             PROVE  \E m \in Lane : Kept(m, k)'
  BY DEF NoneSkippedBelowLimit
<1>1. held \subseteq held'
  BY DEF Next, Call, Work, Finished, BuildState, ClaimIndex, PassGate, StepOk,
         StepErrs, LowerLimit, RunAfter, Panic, Spawn, StopSpawning,
         LaneReturned, LaneUnwound, Join, Return, laneVars, vars
<1>2. CASE k < next
  <2>1. PICK m \in Lane : Kept(m, k)
    BY <1>1, <1>2 DEF NoneSkippedBelowLimit
  <2> USE DEF Kept, Has, Holds, Pushed, LostAt
  <2>2. ASSUME NEW l \in Lane, BuildState(l) PROVE Kept(m, k)'
    BY <1>1, <2>1, <2>2 DEF BuildState, Go, callVars, TypeOK
  <2>3. ASSUME NEW l \in Lane, ClaimIndex(l) PROVE Kept(m, k)'
    BY <1>1, <2>1, <2>3 DEF ClaimIndex, Go, callVars, TypeOK
  <2>4. ASSUME NEW l \in Lane, PassGate(l) PROVE Kept(m, k)'
    BY <1>1, <2>1, <2>4 DEF PassGate, Go, callVars, TypeOK
  <2>5. ASSUME NEW l \in Lane, StepOk(l) PROVE Kept(m, k)'
    BY <1>1, <2>1, <2>5 DEF StepOk, Go, callVars, TypeOK
  <2>6. ASSUME NEW l \in Lane, StepErrs(l) PROVE Kept(m, k)'
    BY <1>1, <2>1, <2>6 DEF StepErrs, Go, callVars, TypeOK
  <2>7. ASSUME NEW l \in Lane, LowerLimit(l) PROVE Kept(m, k)'
    BY <1>1, <2>1, <2>7 DEF LowerLimit, Go, callVars, TypeOK
  <2>8. ASSUME NEW l \in Lane, RunAfter(l) PROVE Kept(m, k)'
    BY <1>1, <2>1, <2>8 DEF RunAfter, Go, callVars, TypeOK
  <2>9. ASSUME NEW l \in Lane, Panic(l) PROVE Kept(m, k)'
    BY <2>1, <2>9 DEF Panic, callVars, TypeOK
  <2>10. CASE Spawn
    BY <2>1, <2>10 DEF Spawn, TypeOK, CallerKnows
  <2>11. CASE StopSpawning
    BY <2>1, <2>11 DEF StopSpawning, TypeOK, CallerKnows
  <2>12. CASE LaneReturned \/ LaneUnwound \/ Join \/ Return \/ UNCHANGED vars
    BY <2>1, <2>12 DEF LaneReturned, LaneUnwound, Join, Return, laneVars, vars
  <2> QED
    BY <2>2, <2>3, <2>4, <2>5, <2>6, <2>7, <2>8, <2>9, <2>10, <2>11, <2>12
       DEF Next, Call, Work, Finished
<1>3. CASE ~ (k < next)
  <2>1. PICK l \in Lane : ClaimIndex(l)
    BY <1>3 DEF Next, Call, Work, Finished, BuildState, PassGate, StepOk,
         StepErrs, LowerLimit, RunAfter, Panic, Spawn, StopSpawning,
         LaneReturned, LaneUnwound, Join, Return, laneVars, vars
  <2>2. k = next
    BY <1>3, <2>1 DEF ClaimIndex, TypeOK
  <2> QED
    BY <2>1, <2>2 DEF ClaimIndex, Go, TypeOK, Kept, Has, Holds
<1> QED
  BY <1>2, <1>3

-----------------------------------------------------------------------------
(* The limit only ever takes indices that failed, and takes all of them.   *)

LEMMA LimitStep ==
  ASSUME TypeOK, ClaimedOnce, LimitIsFailure, CallerKnows, [Next]_vars
  PROVE  LimitIsFailure'
<1> USE DEF LimitIsFailure
<1>1. ASSUME NEW l \in Lane, BuildState(l) PROVE LimitIsFailure'
  BY <1>1 DEF BuildState, Go, callVars, TypeOK
<1>2. ASSUME NEW l \in Lane, ClaimIndex(l) PROVE LimitIsFailure'
  BY <1>2 DEF ClaimIndex, Go, callVars, TypeOK
<1>3. ASSUME NEW l \in Lane, PassGate(l) PROVE LimitIsFailure'
  BY <1>3 DEF PassGate, Go, callVars, TypeOK
<1>4. ASSUME NEW l \in Lane, StepOk(l) PROVE LimitIsFailure'
  <2>1. claim[l] \in Index /\ acc[l][claim[l]] = "none"
    BY <1>4 DEF StepOk, Go, CallerKnows, ClaimedOnce, Holds, Pushed
  <2>2. \A m \in Lane, k \in Index : acc'[m][k] = "err" <=> acc[m][k] = "err"
    BY <1>4, <2>1 DEF StepOk, TypeOK
  <2> QED
    BY <1>4, <2>2 DEF StepOk
<1>5. ASSUME NEW l \in Lane, StepErrs(l) PROVE LimitIsFailure'
  BY <1>5 DEF StepErrs, Go, callVars, TypeOK
<1>6. ASSUME NEW l \in Lane, LowerLimit(l) PROVE LimitIsFailure'
  <2>1. claim[l] \in Index
    BY <1>6 DEF LowerLimit, Go, CallerKnows
  <2>2. \A m \in Lane, k \in Index :
          acc'[m][k] = "err" <=> (acc[m][k] = "err" \/ (m = l /\ k = claim[l]))
    BY <1>6, <2>1 DEF LowerLimit, TypeOK
  <2>3. held' \subseteq held \cup {claim[l]} /\ held \subseteq held'
    BY <1>6 DEF LowerLimit
  <2>4. \E v \in held' : v <= claim[l]
    BY <1>6, <2>1 DEF LowerLimit, TypeOK
  <2>5. \A v \in held' : v = N \/ (v \in Index /\ \E m \in Lane : acc'[m][v] = "err")
    <3> SUFFICES ASSUME NEW v \in held', v # N
                 PROVE  v \in Index /\ \E m \in Lane : acc'[m][v] = "err"
      OBVIOUS
    <3>1. CASE v = claim[l]
      BY <2>1, <2>2, <3>1
    <3>2. CASE v \in held
      BY <2>2, <3>2
    <3> QED
      BY <2>3, <3>1, <3>2
  <2>6. \A m \in Lane, k \in Index : acc'[m][k] = "err" => \E v \in held' : v <= k
    BY <2>2, <2>3, <2>4
  <2> QED
    BY <2>5, <2>6
<1>7. ASSUME NEW l \in Lane, RunAfter(l) PROVE LimitIsFailure'
  BY <1>7 DEF RunAfter, Go, callVars, TypeOK
<1>8. ASSUME NEW l \in Lane, Panic(l) PROVE LimitIsFailure'
  BY <1>8 DEF Panic, callVars, TypeOK
<1>9. CASE Spawn
  BY <1>9 DEF Spawn, TypeOK, CallerKnows
<1>10. CASE StopSpawning
  BY <1>10 DEF StopSpawning, TypeOK, CallerKnows
<1>11. CASE UNCHANGED laneVars
  BY <1>11 DEF laneVars
<1>12. CASE LaneReturned \/ LaneUnwound \/ Join \/ Return \/ UNCHANGED vars
  BY <1>11, <1>12 DEF LaneReturned, LaneUnwound, Join, Return, laneVars, vars
<1> QED
  BY <1>1, <1>2, <1>3, <1>4, <1>5, <1>6, <1>7, <1>8, <1>9, <1>10, <1>12
     DEF Next, Call, Work, Finished

-----------------------------------------------------------------------------
(* What the caller knows of the lanes.                                     *)

LEMMA CallerStep ==
  ASSUME TypeOK, CallerKnows, [Next]_vars
  PROVE  CallerKnows'
<1> USE DEF CallerKnows, TypeOK
<1>1. ASSUME NEW l \in Lane, BuildState(l) PROVE CallerKnows'
  BY <1>1 DEF BuildState, Go, callVars
<1>2. ASSUME NEW l \in Lane, ClaimIndex(l) PROVE CallerKnows'
  BY <1>2 DEF ClaimIndex, Go, callVars
<1>3. ASSUME NEW l \in Lane, PassGate(l) PROVE CallerKnows'
  BY SMTT(30), <1>3 DEF PassGate, Go, callVars
<1>4. ASSUME NEW l \in Lane, StepOk(l) PROVE CallerKnows'
  BY <1>4 DEF StepOk, Go, callVars
<1>5. ASSUME NEW l \in Lane, StepErrs(l) PROVE CallerKnows'
  BY <1>5 DEF StepErrs, Go, callVars
<1>6. ASSUME NEW l \in Lane, LowerLimit(l) PROVE CallerKnows'
  BY <1>6 DEF LowerLimit, Go, callVars
<1>7. ASSUME NEW l \in Lane, RunAfter(l) PROVE CallerKnows'
  BY <1>7 DEF RunAfter, Go, callVars
<1>8. ASSUME NEW l \in Lane, Panic(l) PROVE CallerKnows'
  BY <1>8 DEF Panic, callVars
<1>9. CASE Spawn
  BY <1>9 DEF Spawn
<1>10. CASE StopSpawning
  BY <1>10 DEF StopSpawning
<1>11. CASE LaneReturned
  BY <1>11 DEF LaneReturned, laneVars
<1>12. CASE LaneUnwound
  BY <1>12, AnswersDiffer DEF LaneUnwound, laneVars
<1>13. CASE Join
  <2>1. joined + 1 \in Lane /\ pc' = pc /\ joined' = joined + 1
    BY <1>13 DEF Join, laneVars
  <2>2. \A l \in 1 .. joined' :
          (pc[l] = "done" /\ l \in collected') \/ (pc[l] = "dead" /\ panicked')
    <3> SUFFICES ASSUME NEW l \in 1 .. joined'
                 PROVE  (pc[l] = "done" /\ l \in collected') \/ (pc[l] = "dead" /\ panicked')
      OBVIOUS
    <3>1. CASE l = joined + 1
      BY <1>13, <3>1 DEF Join
    <3>2. CASE l \in 1 .. joined
      BY <1>13, <3>2 DEF Join
    <3> QED
      BY <2>1, <3>1, <3>2
  <2>3. \A l \in collected' : pc[l] = "done"
    <3>1. CASE pc[joined + 1] = "done"
      <4>1. collected' = collected \cup {joined + 1}
        BY <1>13, <3>1 DEF Join
      <4> QED
        BY <3>1, <4>1
    <3>2. CASE pc[joined + 1] # "done"
      BY <1>13, <3>2 DEF Join
    <3> QED
      BY <3>1, <3>2
  <2>4. collected \subseteq collected' /\ joined' <= spawned
    BY <1>13, <2>1 DEF Join
  <2> QED
    BY <1>13, <2>1, <2>2, <2>3, <2>4 DEF Join, laneVars
<1>14. CASE Return
  BY <1>14, AnswersDiffer DEF Return, laneVars, Contract!IsWalk
<1>15. CASE UNCHANGED vars
  BY <1>15 DEF vars
<1> QED
  BY <1>1, <1>2, <1>3, <1>4, <1>5, <1>6, <1>7, <1>8, <1>9, <1>10, <1>11, <1>12,
     <1>13, <1>14, <1>15 DEF Next, Call, Work, Finished

-----------------------------------------------------------------------------
(* The answer.  When the last handle is joined and no lane has died, every *)
(* lane is at rest with the counter past the end, so the table merged from *)
(* the lanes that came back is the table of outcomes, and it is complete   *)
(* below its first failure.                                                *)

LEMMA MergeIsOutcome ==
  ASSUME TypeOK, ClaimedOnce, CallerKnows, stage = "join", joined = spawned,
         ~ panicked
  PROVE  MergeResults = Outcome
<1>1. \A l \in Lane : l \in collected \/ pc[l] = "unborn"
  BY DEF CallerKnows, TypeOK
<1>2. \A l \in Lane, k \in Index : acc[l][k] # "none" => l \in collected
  BY <1>1 DEF CallerKnows
<1>3. \A l, m \in Lane, k \in Index :
        acc[l][k] # "none" /\ acc[m][k] # "none" => l = m
  BY DEF ClaimedOnce, Has, Pushed
<1>4. ASSUME NEW k \in Index PROVE MergeResults[k] = Outcome[k]
  <2>1. CASE \E l \in Lane : acc[l][k] # "none"
    <3>1. PICK l \in Lane : acc[l][k] # "none"
      BY <2>1
    <3>2. MergeResults[k] = acc[l][k]
      BY <1>2, <1>3, <3>1 DEF MergeResults, TypeOK
    <3>3. Outcome[k] = acc[l][k]
      BY <1>3, <3>1 DEF Outcome, TypeOK
    <3> QED
      BY <3>2, <3>3
  <2>2. CASE \A l \in Lane : acc[l][k] = "none"
    BY <2>2 DEF MergeResults, Outcome, TypeOK
  <2> QED
    BY <2>1, <2>2
<1> QED
  BY <1>4 DEF MergeResults, Outcome

LEMMA NeverMissing ==
  ASSUME TypeOK, ClaimedOnce, NoneSkippedBelowLimit, LimitIsFailure,
         CallerKnows, stage = "join", joined = spawned, ~ panicked,
         NEW a, Contract!IsWalk(Outcome, a)
  PROVE  a.kind # "Missing"
<1> SUFFICES ASSUME NEW k \in Index, \A j \in Index : j < k => Outcome[j] = "ok",
                    Outcome[k] = "none"
             PROVE  FALSE
  BY DEF Contract!IsWalk, Contract!Index, Contract!Ok, Contract!StepErr,
         Contract!Missing, Outcome
<1>1. \A l \in Lane : pc[l] \in {"done", "unborn"}
  BY DEF CallerKnows, TypeOK
<1>2. k < next
  <2>1. \E l \in Lane : pc[l] = "done"
    <3>1. CASE spawned = 0
      BY <3>1 DEF CallerKnows
    <3>2. CASE spawned # 0
      <4>1. 1 \in Lane /\ 1 \in 1 .. joined
        BY <3>2 DEF TypeOK
      <4> QED
        BY <4>1 DEF CallerKnows
    <3> QED
      BY <3>1, <3>2
  <2>2. next >= N
    BY <2>1 DEF CallerKnows
  <2> QED
    BY <2>2 DEF TypeOK
<1>3. \A l \in Lane : ~ Kept(l, k)
  <2>1. \A l \in Lane : acc[l][k] = "none"
    BY DEF Outcome, TypeOK
  <2> QED
    BY <1>1, <2>1 DEF Kept, Has, Holds, Pushed, LostAt
<1>4. PICK v \in held : v <= k
  BY <1>2, <1>3 DEF NoneSkippedBelowLimit, TypeOK
<1>5. v \in Index /\ Outcome[v] = "err"
  BY <1>4 DEF LimitIsFailure, Outcome
<1> QED
  BY <1>4, <1>5

LEMMA AnswerStep ==
  ASSUME Inv, [Next]_vars
  PROVE  AnswerIsTheWalk'
<1> SUFFICES ASSUME stage' = "returned" PROVE AnswerIsTheWalk'
  BY DEF AnswerIsTheWalk
<1> USE DEF Inv
<1>1. CASE stage = "returned"
  <2>1. \A l \in Lane : pc[l] \in {"unborn", "done", "dead"}
    BY <1>1 DEF CallerKnows
  <2>2. UNCHANGED vars
    BY <1>1, <2>1 DEF Next, Call, Work, Finished, BuildState, ClaimIndex,
       PassGate, StepOk, StepErrs, LowerLimit, RunAfter, Panic, Go, Spawn,
       StopSpawning, LaneReturned, LaneUnwound, Join, Return, vars
  <2> QED
    BY <2>2 DEF AnswerIsTheWalk, Outcome, vars
<1>2. CASE LaneUnwound
  BY <1>2 DEF LaneUnwound, AnswerIsTheWalk
<1>3. CASE Return
  <2>1. CASE panicked
    BY <1>3, <2>1 DEF Return, AnswerIsTheWalk
  <2>2. CASE ~ panicked
    <3>1. MergeResults = Outcome
      BY <1>3, <2>2, MergeIsOutcome DEF Return
    <3>2. Contract!IsWalk(Outcome, answer')
      BY <1>3, <2>2, <3>1 DEF Return
    <3>3. answer'.kind # "Missing"
      BY <1>3, <2>2, <3>2, NeverMissing DEF Return
    <3>4. Outcome' = Outcome
      BY <1>3 DEF Return, laneVars, Outcome
    <3> QED
      BY <3>2, <3>3, <3>4 DEF AnswerIsTheWalk, Contract!IsWalk
  <2> QED
    BY <2>1, <2>2
<1>4. CASE stage # "returned" /\ ~ LaneUnwound /\ ~ Return
  BY <1>4 DEF Next, Call, Work, Finished, BuildState, ClaimIndex, PassGate,
     StepOk, StepErrs, LowerLimit, RunAfter, Panic, callVars, Spawn,
     StopSpawning, LaneReturned, Join, vars
<1> QED
  BY <1>1, <1>2, <1>3, <1>4

-----------------------------------------------------------------------------
(* The inductive invariant.                                                *)

LEMMA InitInv == Init => Inv
<1> SUFFICES ASSUME Init PROVE Inv
  OBVIOUS
<1>1. TypeOK
  BY InitTypeOK
<1>2. ClaimedOnce
  BY DEF Init, ClaimedOnce, Has, Holds, Pushed
<1>3. NoneSkippedBelowLimit
  BY DEF Init, NoneSkippedBelowLimit
<1>4. LimitIsFailure
  BY DEF Init, LimitIsFailure
<1>5. CallerKnows
  BY DEF Init, CallerKnows
<1>6. AnswerIsTheWalk
  BY DEF Init, AnswerIsTheWalk
<1> QED
  BY <1>1, <1>2, <1>3, <1>4, <1>5, <1>6 DEF Inv

LEMMA NextInv == Inv /\ [Next]_vars => Inv'
BY NextTypeOK, ClaimStep, NoneSkippedStep, LimitStep, CallerStep, AnswerStep
   DEF Inv

(* At every moment of every run, whatever the number of indices and of     *)
(* threads: the parts of Inv hold together.                                *)
THEOREM Invariance == Spec => []Inv
BY InitInv, NextInv, PTL DEF Spec

(* No index is ever in the hands of two lanes.                             *)
THEOREM EachClaimedOnce == Spec => []ClaimedOnce
<1>1. Inv => ClaimedOnce
  BY DEF Inv
<1> QED
  BY <1>1, Invariance, PTL

(* A claimed index below the limit is kept, however stale the limit read.  *)
THEOREM TableComplete == Spec => []NoneSkippedBelowLimit
<1>1. Inv => NoneSkippedBelowLimit
  BY DEF Inv
<1> QED
  BY <1>1, Invariance, PTL

(* The answer of a call that no panic cut short is that of the walk over   *)
(* the outcomes in index order, and Missing is never answered.             *)
THEOREM AnswerCorrect == Spec => []AnswerIsTheWalk
<1>1. Inv => AnswerIsTheWalk
  BY DEF Inv
<1> QED
  BY <1>1, Invariance, PTL

-----------------------------------------------------------------------------
(* The pool implements its contract.  Only a completed step is visible in  *)
(* the outcomes, and only the return in the answer.                        *)

LEMMA StepOkIsTry ==
  ASSUME Inv, NEW l \in Lane, StepOk(l)
  PROVE  Contract!Try(claim[l])
<1> USE DEF Inv
<1>1. claim[l] \in Index /\ \A m \in Lane : acc[m][claim[l]] = "none"
  BY DEF StepOk, Go, CallerKnows, ClaimedOnce, Has, Holds, Pushed
<1>2. answer = Contract!Running /\ answer' = answer
  BY DEF StepOk, Go, callVars, CallerKnows
<1>3. Outcome[claim[l]] = "none"
  BY <1>1 DEF Outcome
<1>4. Outcome' = [Outcome EXCEPT ![claim[l]] = "ok"]
  BY <1>1 DEF StepOk, Outcome, TypeOK
<1> QED
  BY <1>2, <1>3, <1>4 DEF Contract!Try

LEMMA LowerLimitIsTry ==
  ASSUME Inv, NEW l \in Lane, LowerLimit(l)
  PROVE  Contract!Try(claim[l])
<1> USE DEF Inv
<1>1. claim[l] \in Index /\ \A m \in Lane : acc[m][claim[l]] = "none"
  BY DEF LowerLimit, Go, CallerKnows, ClaimedOnce, Has, Holds, Pushed
<1>2. answer = Contract!Running /\ answer' = answer
  BY DEF LowerLimit, Go, callVars, CallerKnows
<1>3. Outcome[claim[l]] = "none"
  BY <1>1 DEF Outcome
<1>4. Outcome' = [Outcome EXCEPT ![claim[l]] = "err"]
  BY <1>1 DEF LowerLimit, Outcome, TypeOK
<1> QED
  BY <1>2, <1>3, <1>4 DEF Contract!Try

LEMMA ReturnIsReturn ==
  ASSUME Inv, Return
  PROVE  Contract!Return \/ Contract!Abort
<1> USE DEF Inv
<1>1. answer = Contract!Running /\ Outcome' = Outcome
  BY DEF Return, laneVars, Outcome, CallerKnows
<1>2. CASE panicked
  BY <1>1, <1>2 DEF Return, Contract!Abort
<1>3. CASE ~ panicked
  <2>1. MergeResults = Outcome
    BY <1>3, MergeIsOutcome DEF Return
  <2>2. Contract!IsWalk(Outcome, answer')
    BY <1>3, <2>1 DEF Return
  <2>3. answer'.kind # "Missing"
    BY <1>3, <2>2, NeverMissing DEF Return
  <2> QED
    BY <1>1, <2>2, <2>3 DEF Contract!Return
<1> QED
  BY <1>2, <1>3

LEMMA StepSimulation ==
  ASSUME Inv, [Next]_vars
  PROVE  [Contract!Next]_(Contract!vars)
<1>1. ASSUME NEW l \in Lane, StepOk(l) \/ LowerLimit(l) PROVE Contract!Next
  <2>1. claim[l] \in Index
    BY <1>1 DEF Inv, CallerKnows, StepOk, LowerLimit, Go
  <2> QED
    BY <1>1, <2>1, StepOkIsTry, LowerLimitIsTry DEF Contract!Next, Contract!Index
<1>2. CASE Return
  BY <1>2, ReturnIsReturn DEF Contract!Next
<1>3. CASE LaneUnwound
  <2>1. answer = Contract!Running /\ Outcome' = Outcome
    BY <1>3 DEF Inv, CallerKnows, LaneUnwound, laneVars, Outcome
  <2> QED
    BY <1>3, <2>1 DEF LaneUnwound, Contract!Abort, Contract!Next
<1>4. CASE UNCHANGED <<acc, answer>>
  BY <1>4 DEF Contract!vars, Outcome
<1> QED
  BY <1>1, <1>2, <1>3, <1>4 DEF Next, Call, Work, Finished, BuildState,
     ClaimIndex, PassGate, StepErrs, RunAfter, Panic, callVars, Spawn,
     StopSpawning, LaneReturned, Join, laneVars, vars

(* The pool implements ParallelAll.                                        *)
THEOREM Refinement == Spec => Implements
<1>1. Init => Contract!Init
  BY DEF Init, Contract!Init, Contract!Index, Outcome
<1> QED
  BY <1>1, StepSimulation, Invariance, PTL DEF Spec, Implements, Contract!Spec

=============================================================================
