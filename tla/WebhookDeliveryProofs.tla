------------------------ MODULE WebhookDeliveryProofs ------------------------
(* Proofs about the webhook deliveries, for any number of deliveries,      *)
(* attempts, stalls, workers and crashes.                                  *)
EXTENDS WebhookLog, FiniteSetTheorems, TLAPS

(***************************************************************************)
(* The inductive invariant.                                                *)
(***************************************************************************)

(* A handler runs an active job, a job that may still run has attempts     *)
(* left, and there is none before dispatch has enqueued it.                *)
JobInv ==
  \A d \in Deliveries :
    /\ pc[d] # "idle" => job[d] = "active"
    /\ job[d] \in Live => made[d] < MaxAttempts
    /\ job[d] = "completed" => made[d] < MaxAttempts
    /\ dispatching[d] \in {"idle", "found", "created"} => job[d] = "none"
    /\ job[d] = "none" => made[d] = 0

(* An answer is there when the handler looks at it, and a 2xx one was      *)
(* counted.                                                                *)
AnswerInv ==
  \A d \in Deliveries :
    /\ pc[d] = "answered" => answer[d] # "none"
    /\ answer[d] = "ok" => acks[d] >= 1
    /\ row[d].delivered => acks[d] >= 1

(* Each run of a job posts once, and is over when the next one starts.     *)
PostInv ==
  \A d \in Deliveries :
    /\ posts[d] <= made[d] + stalls[d] + 1
    /\ job[d] \in {"none", "delayed", "waiting"} \/ pc[d] \in {"loading", "posting"}
         => posts[d] <= made[d] + stalls[d]
    /\ job[d] = "failed" =>
         made[d] < MaxAttempts \/ posts[d] <= made[d] + stalls[d]

Inv == TypeOK /\ JobInv /\ AnswerInv /\ PostInv

-----------------------------------------------------------------------------
LEMMA InitInv == Init => Inv
<1> SUFFICES ASSUME Init PROVE Inv
  OBVIOUS
<1>1. TypeOK
  <2>1. row \in [Deliveries -> Columns]
    BY HookAssumption DEF Init, Columns
  <2>2. /\ made \in [Deliveries -> 0..MaxAttempts]
        /\ stalls \in [Deliveries -> 0..MaxStalled]
        /\ crashes \in 0..MaxCrashes
    BY HookAssumption DEF Init
  <2>3. /\ dispatching \in [Deliveries -> {"idle", "found", "created", "done"}]
        /\ rank \in [Deliveries -> Nat]
        /\ job \in [Deliveries -> JobState] /\ pc \in [Deliveries -> WorkerPc]
        /\ answer \in [Deliveries -> {"none", "ok", "error", "network"}]
        /\ posts \in [Deliveries -> Nat] /\ acks \in [Deliveries -> Nat]
    BY DEF Init, JobState, WorkerPc
  <2> QED
    BY <2>1, <2>2, <2>3 DEF Init, TypeOK
<1>2. JobInv /\ AnswerInv /\ PostInv
  BY DEF Init, JobInv, AnswerInv, PostInv, Live
<1> QED
  BY <1>1, <1>2 DEF Inv

(* What an update writes is a row again.                                   *)
LEMMA UpdateType ==
  ASSUME TypeOK, NEW d \in Deliveries, NEW c \in Columns, Update(d, c)
  PROVE  row' \in [Deliveries -> Columns]
  BY DEF Update, TypeOK

LEMMA TypeStep == Inv /\ [Next]_vars => TypeOK'
<1> SUFFICES ASSUME Inv, [Next]_vars PROVE TypeOK'
  OBVIOUS
<1> USE HookAssumption DEF TypeOK, JobState, WorkerPc, queue, history, worker, table, Goto
<1>1. ASSUME NEW d \in Deliveries, Dispatch(d) PROVE TypeOK'
  <2>1. CASE DispatchFind(d)
    BY <2>1 DEF DispatchFind, Inv
  <2>2. CASE DispatchCreate(d)
    <3>1. 1 + Cardinality({e \in Deliveries : rank[e] > 0}) \in Nat
      BY FS_Subset, FS_CardinalityType
    <3>2. rank' \in [Deliveries -> Nat]
      BY <2>2, <3>1 DEF DispatchCreate, Inv
    <3> QED
      BY <2>2, <3>2 DEF DispatchCreate, Inv
  <2>3. CASE DispatchEnqueue(d)
    BY <2>3 DEF DispatchEnqueue, Inv
  <2>4. CASE DispatchAbort(d)
    BY <2>4 DEF DispatchAbort, Inv
  <2> QED
    BY <1>1, <2>1, <2>2, <2>3, <2>4 DEF Dispatch
<1>2. ASSUME NEW d \in Deliveries, QueueStep(d) PROVE TypeOK'
  <2>1. CASE Promote(d)
    BY <2>1 DEF Promote, Inv
  <2>2. CASE Pick(d)
    BY <2>2 DEF Pick, Inv
  <2>3. CASE StalledCheck(d)
    BY <2>3 DEF StalledCheck, Inv
  <2>4. CASE Complete(d)
    BY <2>4 DEF Complete, Finish, Inv
  <2>5. CASE FailAttempt(d)
    <3>1. made[d] + 1 \in 0..MaxAttempts
      BY <2>5 DEF FailAttempt, Inv, JobInv, Live
    <3>2. made' \in [Deliveries -> 0..MaxAttempts]
      BY <2>5, <3>1 DEF FailAttempt, Inv
    <3> QED
      BY <2>5, <3>2 DEF FailAttempt, Finish, Inv
  <2> QED
    BY <1>2, <2>1, <2>2, <2>3, <2>4, <2>5 DEF QueueStep
<1>3. ASSUME NEW d \in Deliveries, WorkerStep(d) PROVE TypeOK'
  <2>0. /\ row[d] \in Columns
        /\ pc[d] # "idle" => made[d] + 1 \in 1..MaxAttempts
        /\ pc[d] = "answered" /\ answer[d] # "ok"
             => ResponseStatus(d) \in {"null", "error"}
    BY DEF Inv, JobInv, AnswerInv, Live, ResponseStatus
  <2>1. CASE Load(d)
    BY <2>1 DEF Load, Inv
  <2>2. CASE Post(d)
    BY <2>2 DEF Post, Inv
  <2>3. CASE RecordDelivery(d)
    <3>1. [row[d] EXCEPT !.status = "ok", !.delivered = TRUE, !.retrying = FALSE]
            \in Columns
      BY <2>0 DEF Columns
    <3>2. row' \in [Deliveries -> Columns]
      BY <2>3, <3>1, UpdateType DEF RecordDelivery, MarkDelivered, Inv
    <3> QED
      BY <2>3, <3>2 DEF RecordDelivery, Inv
  <2>4. CASE RecordRetry(d)
    <3>1. [row[d] EXCEPT !.status = ResponseStatus(d), !.retrying = TRUE,
                         !.attempt = made[d] + 1] \in Columns
      BY <2>0, <2>4 DEF RecordRetry, Columns
    <3>2. row' \in [Deliveries -> Columns]
      BY <2>4, <3>1, UpdateType DEF RecordRetry, MarkRetrying, Inv
    <3> QED
      BY <2>4, <3>2 DEF RecordRetry, Inv
  <2>5. CASE RecordFailure(d)
    <3>1. [row[d] EXCEPT !.status = ResponseStatus(d), !.retrying = FALSE,
                         !.attempt = made[d] + 1] \in Columns
      BY <2>0, <2>5 DEF RecordFailure, Columns
    <3>2. row' \in [Deliveries -> Columns]
      BY <2>5, <3>1, UpdateType DEF RecordFailure, MarkFailed, Inv
    <3> QED
      BY <2>5, <3>2 DEF RecordFailure, MarkFailed, Inv
  <2>6. CASE CountFailures(d)
    BY <2>6 DEF CountFailures, Inv
  <2>7. CASE Disable(d)
    BY <2>7 DEF Disable, Inv
  <2>8. CASE HandlerFault(d)
    BY <2>8 DEF HandlerFault, Inv
  <2> QED
    BY <1>3, <2>1, <2>2, <2>3, <2>4, <2>5, <2>6, <2>7, <2>8 DEF WorkerStep
<1>4. CASE Crash
  BY <1>4 DEF Crash, Inv
<1>5. CASE SwitchEndpoint \/ DeleteEndpoint
  BY <1>5 DEF SwitchEndpoint, DeleteEndpoint, Inv
<1>6. CASE UNCHANGED vars
  BY <1>6 DEF vars, Inv
<1> QED
  BY <1>1, <1>2, <1>3, <1>4, <1>5, <1>6 DEF Next

-----------------------------------------------------------------------------
LEMMA JobStep == Inv /\ [Next]_vars => JobInv'
<1> SUFFICES ASSUME Inv, [Next]_vars PROVE JobInv'
  OBVIOUS
<1> USE HookAssumption DEF JobInv, Live, queue, worker, history, table, Goto
<1>0. TypeOK /\ JobInv
  BY DEF Inv
<1>1. ASSUME NEW d \in Deliveries, Dispatch(d) PROVE JobInv'
  <2>1. CASE DispatchEnqueue(d)
    <3>1. /\ job[d] = "none" /\ pc[d] = "idle" /\ made[d] = 0
      BY <1>0, <2>1 DEF DispatchEnqueue
    <3> QED
      BY <1>0, <2>1, <3>1 DEF TypeOK, DispatchEnqueue
  <2>2. CASE DispatchFind(d) \/ DispatchCreate(d) \/ DispatchAbort(d)
    BY <1>0, <2>2 DEF TypeOK, DispatchFind, DispatchCreate, DispatchAbort
  <2> QED
    BY <1>1, <2>1, <2>2 DEF Dispatch
<1>2. ASSUME NEW d \in Deliveries, QueueStep(d) PROVE JobInv'
  <2>1. CASE Promote(d)
    BY <1>0, <2>1 DEF TypeOK, Promote
  <2>2. CASE Pick(d)
    BY <1>0, <2>2 DEF TypeOK, Pick
  <2>3. CASE StalledCheck(d)
    BY <1>0, <2>3 DEF TypeOK, StalledCheck
  <2>4. CASE Complete(d)
    BY <1>0, <2>4 DEF TypeOK, Complete, Finish
  <2>5. CASE FailAttempt(d)
    BY <1>0, <2>5 DEF TypeOK, FailAttempt, Finish
  <2> QED
    BY <1>2, <2>1, <2>2, <2>3, <2>4, <2>5 DEF QueueStep
<1>3. ASSUME NEW d \in Deliveries, WorkerStep(d) PROVE JobInv'
  <2>1. /\ UNCHANGED <<dispatching, job, made>>
        /\ pc[d] # "idle"
        /\ \E label : pc' = [pc EXCEPT ![d] = label]
    BY <1>3
    DEF WorkerStep, Load, Post, RecordDelivery, RecordRetry, RecordFailure,
        CountFailures, Disable, HandlerFault
  <2> QED
    BY <1>0, <2>1 DEF TypeOK
<1>4. CASE Crash
  BY <1>0, <1>4 DEF TypeOK, Crash
<1>5. CASE UNCHANGED <<dispatching, queue, worker>>
  BY <1>0, <1>5
<1> QED
  BY <1>1, <1>2, <1>3, <1>4, <1>5 DEF Next, SwitchEndpoint, DeleteEndpoint, vars

LEMMA AnswerStep == Inv /\ [Next]_vars => AnswerInv'
<1> SUFFICES ASSUME Inv, [Next]_vars PROVE AnswerInv'
  OBVIOUS
<1> USE DEF AnswerInv, queue, worker, history, table, Goto
<1>0. TypeOK /\ AnswerInv
  BY DEF Inv
<1>1. ASSUME NEW d \in Deliveries, Load(d) PROVE AnswerInv'
  BY <1>0, <1>1 DEF TypeOK, Load
<1>2. ASSUME NEW d \in Deliveries, Post(d) PROVE AnswerInv'
  <2>1. PICK a \in Answers :
          /\ answer' = [answer EXCEPT ![d] = a]
          /\ acks' = [acks EXCEPT ![d] = @ + IF a = "ok" THEN 1 ELSE 0]
    BY <1>2 DEF Post
  <2>2. a # "none"
    BY HookAssumption
  <2>3. /\ pc' = [pc EXCEPT ![d] = "answered"]
        /\ UNCHANGED row
    BY <1>2 DEF Post
  <2>4. acks \in [Deliveries -> Nat] /\ answer \in [Deliveries -> {"none", "ok", "error", "network"}]
    BY <1>0 DEF TypeOK
  <2> QED
    BY <1>0, <2>1, <2>2, <2>3, <2>4 DEF TypeOK
<1>3. ASSUME NEW d \in Deliveries, RecordDelivery(d) PROVE AnswerInv'
  BY <1>0, <1>3 DEF TypeOK, RecordDelivery, MarkDelivered, Update
<1>4. ASSUME NEW d \in Deliveries, RecordRetry(d) PROVE AnswerInv'
  BY <1>0, <1>4 DEF TypeOK, RecordRetry, MarkRetrying, Update, Columns
<1>5. ASSUME NEW d \in Deliveries, RecordFailure(d) PROVE AnswerInv'
  BY <1>0, <1>5 DEF TypeOK, RecordFailure, MarkFailed, Update, Columns
<1>6. ASSUME NEW d \in Deliveries, CountFailures(d) \/ Disable(d) \/ HandlerFault(d)
      PROVE  AnswerInv'
  BY <1>0, <1>6 DEF TypeOK, CountFailures, Disable, HandlerFault
<1>7. ASSUME NEW d \in Deliveries, Complete(d) \/ FailAttempt(d) PROVE AnswerInv'
  BY <1>0, <1>7 DEF TypeOK, Complete, FailAttempt, Finish
<1>8. ASSUME NEW d \in Deliveries, Pick(d) PROVE AnswerInv'
  BY <1>0, <1>8 DEF TypeOK, Pick
<1>9. CASE Crash
  BY <1>0, <1>9 DEF TypeOK, Crash
<1>10. CASE UNCHANGED <<row, worker, acks>>
  BY <1>0, <1>10
<1> QED
  BY <1>1, <1>2, <1>3, <1>4, <1>5, <1>6, <1>7, <1>8, <1>9, <1>10
  DEF Next, Dispatch, DispatchFind, DispatchCreate, DispatchEnqueue,
      DispatchAbort, QueueStep, Promote, StalledCheck, WorkerStep,
      SwitchEndpoint, DeleteEndpoint, vars

LEMMA PostStep == Inv /\ [Next]_vars => PostInv'
<1> SUFFICES ASSUME Inv, [Next]_vars PROVE PostInv'
  OBVIOUS
<1> USE DEF PostInv, queue, worker, history, table, Goto
<1>0. /\ JobInv /\ PostInv
      /\ job \in [Deliveries -> JobState] /\ pc \in [Deliveries -> WorkerPc]
      /\ made \in [Deliveries -> Nat] /\ stalls \in [Deliveries -> Nat]
      /\ posts \in [Deliveries -> Nat]
      /\ MaxAttempts \in Nat
  BY HookAssumption DEF Inv, TypeOK
<1>1. ASSUME NEW d \in Deliveries, Dispatch(d) PROVE PostInv'
  BY <1>0, <1>1 DEF Dispatch, DispatchFind, DispatchCreate, DispatchEnqueue,
     DispatchAbort, JobInv
<1>2. ASSUME NEW d \in Deliveries, QueueStep(d) PROVE PostInv'
  <2>1. CASE Promote(d)
    BY <1>0, <2>1 DEF Promote
  <2>2. CASE Pick(d)
    BY <1>0, <2>2 DEF Pick
  <2>3. CASE StalledCheck(d)
    BY <1>0, <2>3 DEF StalledCheck, JobInv, Live
  <2>4. CASE Complete(d)
    BY <1>0, <2>4 DEF Complete, Finish
  <2>5. CASE FailAttempt(d)
    BY <1>0, <2>5 DEF FailAttempt, Finish
  <2> QED
    BY <1>2, <2>1, <2>2, <2>3, <2>4, <2>5 DEF QueueStep
<1>3. ASSUME NEW d \in Deliveries, Post(d) PROVE PostInv'
  <2>1. posts' = [posts EXCEPT ![d] = @ + 1]
    BY <1>3 DEF Post
  <2>2. /\ pc[d] = "posting" /\ job[d] = "active"
        /\ pc' = [pc EXCEPT ![d] = "answered"]
        /\ UNCHANGED <<job, made, stalls>>
    BY <1>0, <1>3 DEF Post, JobInv
  <2> QED
    BY <1>0, <2>1, <2>2
<1>4. ASSUME NEW d \in Deliveries, Load(d) PROVE PostInv'
  BY <1>0, <1>4 DEF Load
<1>5. ASSUME NEW d \in Deliveries, WorkerStep(d), ~Post(d), ~Load(d) PROVE PostInv'
  <2>1. /\ UNCHANGED <<job, made, stalls, posts>>
        /\ \E label \in WorkerPc \ {"loading", "posting"} :
             pc' = [pc EXCEPT ![d] = label]
    BY <1>5
    DEF WorkerStep, RecordDelivery, RecordRetry, RecordFailure, CountFailures,
        Disable, HandlerFault, WorkerPc
  <2> QED
    BY <1>0, <2>1
<1>6. CASE Crash
  BY <1>0, <1>6 DEF Crash
<1>7. CASE UNCHANGED <<queue, worker, posts>>
  BY <1>0, <1>7
<1> QED
  BY <1>1, <1>2, <1>3, <1>4, <1>5, <1>6, <1>7
  DEF Next, SwitchEndpoint, DeleteEndpoint, vars

(***************************************************************************)
(* The invariant holds in every reachable state.                           *)
(***************************************************************************)
THEOREM InvHolds == Spec => []Inv
<1>1. Inv /\ [Next]_vars => Inv'
  BY TypeStep, JobStep, AnswerStep, PostStep DEF Inv
<1> QED
  BY InitInv, <1>1, PTL DEF Spec

(***************************************************************************)
(* Every variable keeps its type; the attempt the log shows stays within   *)
(* the attempts of the job.                                                *)
(***************************************************************************)
THEOREM TypeCorrect == Spec => []TypeOK
<1>1. Inv => TypeOK
  BY DEF Inv
<1> QED
  BY InvHolds, <1>1, PTL

(***************************************************************************)
(* markDelivered is reached only with a 2xx answer of this delivery.       *)
(***************************************************************************)
THEOREM DeliveredWasAcknowledged == Spec => []DeliveredIsTruthful
<1>1. Inv => DeliveredIsTruthful
  BY DEF Inv, AnswerInv, DeliveredIsTruthful
<1> QED
  BY InvHolds, <1>1, PTL

(***************************************************************************)
(* A delivery is posted at most once per attempt and once more per stall   *)
(* the queue forgives.                                                     *)
(***************************************************************************)
THEOREM PostsAreBounded == Spec => []PostsBound
<1>1. Inv => PostsBound
  <2> SUFFICES ASSUME Inv, NEW d \in Deliveries
               PROVE  posts[d] <= MaxAttempts + MaxStalled
    BY DEF PostsBound
  <2>1. /\ made[d] \in 0..MaxAttempts /\ stalls[d] \in 0..MaxStalled
        /\ job[d] \in JobState /\ posts[d] \in Nat
    BY DEF Inv, TypeOK
  <2> QED
    BY <2>1, HookAssumption DEF Inv, JobInv, PostInv, JobState, Live
<1> QED
  BY InvHolds, <1>1, PTL

-----------------------------------------------------------------------------
(* A row that counts as a failure was given up on.                         *)
FailureInv ==
  /\ \A d \in Deliveries :
       row[d].status # "null" /\ ~row[d].retrying /\ ~row[d].delivered
         => d \in gaveUp
  /\ DisabledForFailures

LEMMA StreakGivenUp ==
  ASSUME TypeOK, FailureInv
  PROVE  /\ Streak \subseteq gaveUp
         /\ IsFiniteSet(gaveUp)
         /\ Cardinality(Streak) \in Nat /\ Cardinality(gaveUp) \in Nat
         /\ Cardinality(Streak) <= Cardinality(gaveUp)
<1>1. Streak \subseteq gaveUp
  BY DEF FailureInv, Streak, Completed, Rows
<1>2. IsFiniteSet(gaveUp)
  BY HookAssumption, FS_Subset DEF TypeOK
<1> QED
  BY <1>1, <1>2, FS_Subset, FS_CardinalityType

LEMMA FailureStep == TypeOK /\ FailureInv /\ [Next]_vars => FailureInv'
<1> SUFFICES ASSUME TypeOK, FailureInv, [Next]_vars PROVE FailureInv'
  OBVIOUS
<1> USE DEF queue, worker, history, table, Goto
<1>0. /\ row \in [Deliveries -> Columns] /\ pc \in [Deliveries -> WorkerPc]
      /\ \A d \in Deliveries :
           row[d].status # "null" /\ ~row[d].retrying /\ ~row[d].delivered
             => d \in gaveUp
      /\ \A d \in Deliveries :
           pc[d] = "disabling" => Cardinality(gaveUp) >= Threshold
  BY DEF TypeOK, FailureInv, DisabledForFailures
<1>1. ASSUME NEW d \in Deliveries, RecordDelivery(d) PROVE FailureInv'
  BY <1>0, <1>1
  DEF RecordDelivery, MarkDelivered, Update, Columns, FailureInv, DisabledForFailures
<1>2. ASSUME NEW d \in Deliveries, RecordRetry(d) PROVE FailureInv'
  BY <1>0, <1>2
  DEF RecordRetry, MarkRetrying, Update, Columns, FailureInv, DisabledForFailures
<1>3. ASSUME NEW d \in Deliveries, RecordFailure(d) PROVE FailureInv'
  <2>1. /\ gaveUp' = gaveUp \cup {d}
        /\ pc' = [pc EXCEPT ![d] = "counting"]
        /\ \A e \in Deliveries : e # d => row'[e] = row[e]
    BY <1>0, <1>3 DEF RecordFailure, MarkFailed, Update
  <2>2. /\ IsFiniteSet(gaveUp \cup {d})
        /\ Cardinality(gaveUp) \in Nat /\ Cardinality(gaveUp \cup {d}) \in Nat
        /\ Cardinality(gaveUp) <= Cardinality(gaveUp \cup {d})
    <3>1. IsFiniteSet(gaveUp \cup {d})
      BY StreakGivenUp, FS_AddElement
    <3> QED
      BY <3>1, FS_Subset, FS_CardinalityType
  <2>3. ASSUME NEW e \in Deliveries, pc'[e] = "disabling"
        PROVE  Cardinality(gaveUp') >= Threshold
    <3>1. pc[e] = "disabling"
      BY <1>0, <2>1, <2>3
    <3> QED
      BY <1>0, <2>1, <2>2, <3>1, HookAssumption
  <2> QED
    BY <1>0, <2>1, <2>3 DEF FailureInv, DisabledForFailures
<1>4. ASSUME NEW d \in Deliveries, CountFailures(d) PROVE FailureInv'
  <2>1. /\ UNCHANGED <<row, gaveUp>>
        /\ pc' = [pc EXCEPT ![d] = pc'[d]]
        /\ pc'[d] = "disabling" => ~(Cardinality(Streak) < Threshold)
    BY <1>0, <1>4 DEF CountFailures
  <2>2. pc'[d] = "disabling" => Cardinality(gaveUp) >= Threshold
    BY <2>1, StreakGivenUp, HookAssumption
  <2> QED
    BY <1>0, <2>1, <2>2 DEF FailureInv, DisabledForFailures
<1>5. CASE /\ UNCHANGED <<row, gaveUp>>
           /\ \A d \in Deliveries : pc'[d] = "disabling" => pc[d] = "disabling"
  BY <1>0, <1>5 DEF FailureInv, DisabledForFailures
<1>6. ASSUME NEW d \in Deliveries, Load(d) \/ Post(d) \/ Disable(d) \/ HandlerFault(d)
      PROVE  FailureInv'
  <2>1. /\ UNCHANGED <<row, gaveUp>>
        /\ \E label : label # "disabling" /\ pc' = [pc EXCEPT ![d] = label]
    BY <1>6 DEF Load, Post, Disable, HandlerFault
  <2> QED
    BY <1>0, <1>5, <2>1
<1>7. ASSUME NEW d \in Deliveries, Dispatch(d) \/ QueueStep(d) PROVE FailureInv'
  <2>1. /\ UNCHANGED <<row, gaveUp>>
        /\ \/ pc' = pc
           \/ \E label : label # "disabling" /\ pc' = [pc EXCEPT ![d] = label]
    BY <1>7
    DEF Dispatch, DispatchFind, DispatchCreate, DispatchEnqueue, DispatchAbort,
        QueueStep, Promote, Pick, StalledCheck, Complete, FailAttempt, Finish
  <2> QED
    BY <1>0, <1>5, <2>1
<1>8. CASE Crash \/ SwitchEndpoint \/ DeleteEndpoint \/ UNCHANGED vars
  <2>1. /\ UNCHANGED <<row, gaveUp>>
        /\ pc' = pc \/ pc' = [d \in Deliveries |-> "idle"]
    BY <1>8 DEF Crash, SwitchEndpoint, DeleteEndpoint, vars
  <2> QED
    BY <1>0, <1>5, <2>1
<1> QED
  BY <1>1, <1>2, <1>3, <1>4, <1>6, <1>7, <1>8 DEF Next, WorkerStep

(***************************************************************************)
(* The worker switches an endpoint off only after it has given up on       *)
(* Threshold deliveries (countRecentConsecutiveFailures counts only rows   *)
(* markFailed has written).                                                *)
(***************************************************************************)
THEOREM DisabledAfterFailures == Spec => []DisabledForFailures
<1>1. Init => FailureInv
  BY DEF Init, FailureInv, DisabledForFailures
<1>2. FailureInv => DisabledForFailures
  BY DEF FailureInv
<1> QED
  BY TypeCorrect, <1>1, FailureStep, <1>2, PTL DEF Spec

-----------------------------------------------------------------------------
(* The refinement of HookLog. *)

Posting == {d \in Deliveries : pc[d] = "posting"}
Acked   == {d \in Deliveries : acks[d] > 0}
Shown   == {d \in Deliveries : row[d].delivered}

LEMMA LogInit == Init => Log!Init
  BY DEF Init, Log!Init

(* A step that leaves the row's delivered_at and the attempt alone.        *)
LEMMA PcWrite ==
  ASSUME TypeOK, NEW d \in Deliveries, NEW label \in WorkerPc \ {"posting"},
         pc' = [pc EXCEPT ![d] = label]
  PROVE  Posting' = Posting \ {d}
  BY DEF TypeOK, Posting

LEMMA LogWorker ==
  ASSUME Inv, DisabledForFailures, NEW d \in Deliveries, WorkerStep(d)
  PROVE  Log!Next \/ UNCHANGED Log!vars
<1> USE DEF queue, history, table, worker, Goto
<1>0. /\ TypeOK /\ pc \in [Deliveries -> WorkerPc] /\ acks \in [Deliveries -> Nat]
      /\ row \in [Deliveries -> Columns]
      /\ d \in Posting <=> pc[d] = "posting"
  BY DEF Inv, TypeOK, Posting
<1>a. ASSUME UNCHANGED <<endpoint, switched, gaveUp, acks>>,
             Posting' = Posting, Shown' = Shown
      PROVE  UNCHANGED Log!vars
  BY <1>a DEF Log!vars, Posting, Shown
<1>1. CASE Load(d)
  <2>1. UNCHANGED <<endpoint, switched, gaveUp, acks, row>>
    BY <1>1 DEF Load
  <2>2. CASE endpoint = "active"
    <3>1. Posting' = Posting \cup {d}
      BY <1>0, <1>1, <2>2 DEF Load, Posting
    <3>2. Log!Try(d)
      BY <2>1, <2>2, <3>1 DEF Log!Try, Posting
    <3> QED
      BY <3>2 DEF Log!Next
  <2>3. CASE endpoint # "active"
    <3>1. Posting' = Posting
      BY <1>0, <1>1, <2>3 DEF Load, Posting
    <3> QED
      BY <1>a, <2>1, <3>1 DEF Shown
  <2> QED
    BY <2>2, <2>3
<1>2. CASE Post(d)
  <2>1. UNCHANGED <<endpoint, switched, gaveUp, row>> /\ pc[d] = "posting"
    BY <1>2 DEF Post
  <2>2. Posting' = Posting \ {d}
    BY <1>0, <1>2, PcWrite DEF Post, WorkerPc
  <2>3. PICK a \in Answers :
          acks' = [acks EXCEPT ![d] = @ + IF a = "ok" THEN 1 ELSE 0]
    BY <1>2 DEF Post
  <2>4. Acked' \in {Acked, Acked \cup {d}}
    <3>1. CASE a = "ok"
      <4>1. \A x \in Deliveries : acks'[x] = IF x = d THEN acks[d] + 1 ELSE acks[x]
        BY <1>0, <2>3, <3>1
      <4> QED
        BY <1>0, <4>1 DEF Acked
    <3>2. CASE a # "ok"
      <4>1. \A x \in Deliveries : acks'[x] = acks[x]
        BY <1>0, <2>3, <3>2
      <4> QED
        BY <1>0, <4>1 DEF Acked
    <3> QED
      BY <3>1, <3>2
  <2>5. Log!Answer(d)
    BY <1>0, <2>1, <2>2, <2>4 DEF Log!Answer, Posting, Acked
  <2> QED
    BY <2>5 DEF Log!Next
<1>3. CASE RecordDelivery(d)
  <2>1. /\ UNCHANGED <<endpoint, switched, gaveUp, acks>>
        /\ acks[d] > 0
    BY <1>0, <1>3 DEF RecordDelivery, Inv, AnswerInv
  <2>2. Posting' = Posting
    BY <1>0, <1>3, PcWrite DEF RecordDelivery, WorkerPc
  <2>3. CASE endpoint = "deleted"
    BY <1>a, <1>3, <2>1, <2>2, <2>3 DEF RecordDelivery, MarkDelivered, Update, Shown
  <2>4. CASE endpoint # "deleted"
    <3>1. Shown' = Shown \cup {d}
      BY <1>0, <1>3, <2>4 DEF RecordDelivery, MarkDelivered, Update, Columns, Shown
    <3>2. Log!Show(d)
      BY <2>1, <2>2, <2>4, <3>1 DEF Log!Show, Posting, Shown
    <3> QED
      BY <3>2 DEF Log!Next
  <2> QED
    BY <2>3, <2>4
<1>4. CASE RecordRetry(d)
  <2>1. UNCHANGED <<endpoint, switched, gaveUp, acks>>
    BY <1>4 DEF RecordRetry
  <2>2. Posting' = Posting
    BY <1>0, <1>4, PcWrite DEF RecordRetry, WorkerPc
  <2>3. Shown' = Shown
    BY <1>0, <1>4 DEF RecordRetry, MarkRetrying, Update, Columns, Shown
  <2> QED
    BY <1>a, <2>1, <2>2, <2>3
<1>5. CASE RecordFailure(d)
  <2>1. /\ UNCHANGED <<endpoint, switched, acks>>
        /\ gaveUp' = gaveUp \cup {d}
    BY <1>5 DEF RecordFailure, MarkFailed
  <2>2. Posting' = Posting
    BY <1>0, <1>5, PcWrite DEF RecordFailure, WorkerPc
  <2>3. Shown' = Shown
    BY <1>0, <1>5 DEF RecordFailure, MarkFailed, Update, Columns, Shown
  <2>4. Log!GiveUp(d)
    BY <2>1, <2>2, <2>3 DEF Log!GiveUp, Posting, Shown
  <2> QED
    BY <2>4 DEF Log!Next
<1>6. CASE CountFailures(d) \/ HandlerFault(d)
  <2>1. UNCHANGED <<endpoint, switched, gaveUp, acks, row>>
    BY <1>6 DEF CountFailures, HandlerFault
  <2>2. Posting' = Posting
    BY <1>0, <1>6, PcWrite DEF CountFailures, HandlerFault, WorkerPc
  <2> QED
    BY <1>a, <2>1, <2>2 DEF Shown
<1>7. CASE Disable(d)
  <2>1. UNCHANGED <<switched, gaveUp, acks, row>> /\ pc[d] = "disabling"
    BY <1>7 DEF Disable
  <2>2. Posting' = Posting
    BY <1>0, <1>7, PcWrite DEF Disable, WorkerPc
  <2>3. CASE endpoint = "active"
    <3>1. Cardinality(gaveUp) >= Threshold
      BY <2>1 DEF DisabledForFailures
    <3>2. endpoint' = "inactive"
      BY <1>7, <2>3 DEF Disable
    <3>3. Cardinality(gaveUp) = Log!Cardinality(gaveUp)
      BY Zenon DEF Cardinality, Log!Cardinality
    <3>4. Log!TurnOff
      BY <3>3, <2>1, <2>2, <2>3, <3>1, <3>2 DEF Log!TurnOff, Posting
    <3> QED
      BY <3>4 DEF Log!Next
  <2>4. CASE endpoint # "active"
    <3>1. UNCHANGED endpoint
      BY <1>7, <2>4 DEF Disable, Inv, TypeOK
    <3> QED
      BY <1>a, <2>1, <2>2, <3>1 DEF Shown
  <2> QED
    BY <2>3, <2>4
<1> QED
  BY <1>1, <1>2, <1>3, <1>4, <1>5, <1>6, <1>7 DEF WorkerStep

LEMMA LogStep == Inv /\ DisabledForFailures /\ [Next]_vars => [Log!Next]_(Log!vars)
<1> SUFFICES ASSUME Inv, DisabledForFailures, [Next]_vars
             PROVE  Log!Next \/ UNCHANGED Log!vars
  OBVIOUS
<1> USE DEF queue, history, table, worker, Goto
<1>0. TypeOK /\ pc \in [Deliveries -> WorkerPc]
  BY DEF Inv, TypeOK
<1>a. ASSUME UNCHANGED <<endpoint, switched, gaveUp, acks, row>>, Posting' = Posting
      PROVE  UNCHANGED Log!vars
  BY <1>a DEF Log!vars, Posting
<1>1. ASSUME NEW d \in Deliveries, Dispatch(d) PROVE UNCHANGED Log!vars
  BY <1>1, <1>a
  DEF Dispatch, DispatchFind, DispatchCreate, DispatchEnqueue, DispatchAbort, Posting
<1>2. ASSUME NEW d \in Deliveries, QueueStep(d) PROVE UNCHANGED Log!vars
  <2>1. UNCHANGED <<endpoint, switched, gaveUp, acks, row>>
    BY <1>2
    DEF QueueStep, Promote, Pick, StalledCheck, Complete, FailAttempt, Finish
  <2>2. \/ pc' = pc
        \/ /\ pc[d] # "posting"
           /\ \E label \in {"loading", "idle"} : pc' = [pc EXCEPT ![d] = label]
    BY <1>2
    DEF QueueStep, Promote, Pick, StalledCheck, Complete, FailAttempt, Finish,
        Inv, JobInv
  <2>3. Posting' = Posting
    BY <1>0, <2>2 DEF Posting
  <2> QED
    BY <1>a, <2>1, <2>3
<1>3. CASE Crash
  <2>1. UNCHANGED <<endpoint, switched, gaveUp, acks, row>>
    BY <1>3 DEF Crash
  <2>2. Posting' = {}
    BY <1>3 DEF Crash, Posting
  <2>3. Log!Abandon
    BY <2>1, <2>2 DEF Log!Abandon, Posting
  <2> QED
    BY <2>3 DEF Log!Next
<1>4. CASE SwitchEndpoint \/ DeleteEndpoint
  <2>1. /\ UNCHANGED <<gaveUp, acks, row, pc>>
        /\ endpoint # "deleted" /\ switched' = TRUE
        /\ endpoint' \in {"active", "inactive", "deleted"}
    BY <1>4 DEF SwitchEndpoint, DeleteEndpoint
  <2>2. Log!Change
    BY <2>1 DEF Log!Change
  <2> QED
    BY <2>2 DEF Log!Next
<1>5. CASE UNCHANGED vars
  BY <1>a, <1>5 DEF vars, Posting
<1> QED
  BY <1>1, <1>2, <1>3, <1>4, <1>5, LogWorker DEF Next

(***************************************************************************)
(* The webhooks, with their queue, retries, stalls, crashes and the admin, *)
(* implement HookLog: one answer to each look at an endpoint that was on,  *)
(* delivered only after a 2xx answer and for good, off only for failures.  *)
(***************************************************************************)
THEOREM Implementation == Spec => ImplementsHookLog
  BY InvHolds, DisabledAfterFailures, LogInit, LogStep, PTL
  DEF Spec, ImplementsHookLog, Log!Spec

(* What HookLog says of a single step.                                     *)

(***************************************************************************)
(* A delivery the log shows as delivered stays so: a stalled job that is   *)
(* run again, and whose later POST is answered with an error, does not     *)
(* take delivered_at back.                                                 *)
(***************************************************************************)
DeliveredForGood ==
  [][\A d \in Deliveries : row[d].delivered => row'[d].delivered]_vars

THEOREM DeliveredStays == Spec => DeliveredForGood
<1>1. Inv /\ DisabledForFailures /\ [Next]_vars
        => [\A d \in Deliveries : row[d].delivered => row'[d].delivered]_vars
  <2> SUFFICES ASSUME Inv, DisabledForFailures, [Next]_vars
               PROVE  Shown \subseteq Shown'
    BY DEF Shown
  <2>1. [Log!Next]_(Log!vars)
    BY LogStep
  <2> QED
    BY <2>1
    DEF Log!Next, Log!vars, Log!Try, Log!Answer, Log!Show, Log!GiveUp,
        Log!Abandon, Log!TurnOff, Log!Change, Shown
<1> QED
  BY InvHolds, DisabledAfterFailures, <1>1, PTL DEF Spec, DeliveredForGood

(***************************************************************************)
(* An endpoint that a worker or an admin switched off is on again only     *)
(* when an admin says so, and never once it is deleted.                    *)
(***************************************************************************)
OnByAdmin ==
  [][endpoint' = "active" => endpoint = "active" \/ (endpoint = "inactive" /\ switched')]_vars

THEOREM SwitchedOnByAdmin == Spec => OnByAdmin
<1>1. Inv /\ DisabledForFailures /\ [Next]_vars
        => [endpoint' = "active" =>
              endpoint = "active" \/ (endpoint = "inactive" /\ switched')]_vars
  <2> SUFFICES ASSUME Inv, DisabledForFailures, [Next]_vars, endpoint' = "active"
               PROVE  endpoint = "active" \/ (endpoint = "inactive" /\ switched')
    OBVIOUS
  <2>1. [Log!Next]_(Log!vars) /\ endpoint \in {"active", "inactive", "deleted"}
    BY LogStep DEF Inv, TypeOK
  <2>2. CASE Log!Change
    <3>1. endpoint # "deleted" /\ switched' = TRUE
      BY <2>2 DEF Log!Change
    <3> QED
      BY <2>1, <3>1
  <2>3. CASE ~Log!Change
    <3>1. endpoint' = endpoint \/ endpoint' = "inactive"
      BY <2>1, <2>3
      DEF Log!Next, Log!vars, Log!Try, Log!Answer, Log!Show, Log!GiveUp,
          Log!Abandon, Log!TurnOff
    <3>2. endpoint = "active"
      BY <3>1
    <3> QED
      BY <3>2
  <2> QED
    BY <2>2, <2>3
<1> QED
  BY InvHolds, DisabledAfterFailures, <1>1, PTL DEF Spec, OnByAdmin

-----------------------------------------------------------------------------
(* Only a retry that was recorded, or a call that failed, makes a handler  *)
(* throw.                                                                  *)
ThrowInv ==
  \A d \in Deliveries :
    pc[d] = "throwing" => made[d] + 1 < MaxAttempts \/ d \in struck

RetryInv ==
  \A d \in Deliveries \ struck :
    row[d].retrying /\ ~switched /\ endpoint = "active" =>
      job[d] \in Live /\ pc[d] \notin {"counting", "disabling", "returning"}

(* A job that is tried again, or ended, without its handler's word: an     *)
(* attempt fails for good only if it was struck.                           *)
LEMMA AttemptFails ==
  ASSUME Inv, ThrowInv, NEW d \in Deliveries, d \notin struck, FailAttempt(d)
  PROVE  job' = [job EXCEPT ![d] = "delayed"]
<1>1. made[d] \in Nat /\ made[d] + 1 < MaxAttempts /\ MaxAttempts \in Nat
  BY HookAssumption DEF Inv, TypeOK, ThrowInv, FailAttempt
<1>2. ~(made[d] + 1 >= MaxAttempts)
  BY <1>1
<1> QED
  BY <1>2 DEF FailAttempt, Finish

LEMMA ThrowStep == Inv /\ ThrowInv /\ [Next]_vars => ThrowInv'
<1> SUFFICES ASSUME Inv, ThrowInv, [Next]_vars PROVE ThrowInv'
  OBVIOUS
<1> USE DEF ThrowInv, queue, worker, history, table, Goto
<1>0. /\ pc \in [Deliveries -> WorkerPc]
      /\ made \in [Deliveries -> 0..MaxAttempts] /\ MaxAttempts \in Nat
  BY HookAssumption DEF Inv, TypeOK
<1>1. ASSUME NEW d \in Deliveries, QueueStep(d) PROVE ThrowInv'
  <2>1. struck \subseteq struck'
    BY <1>1
    DEF QueueStep, Promote, Pick, StalledCheck, Complete, FailAttempt, Finish
  <2>2. \A e \in Deliveries : pc'[e] = "throwing" => pc[e] = "throwing" /\ made'[e] = made[e]
    BY <1>0, <1>1
    DEF QueueStep, Promote, Pick, StalledCheck, Complete, FailAttempt, Finish
  <2> QED
    BY <2>1, <2>2
<1>2. ASSUME NEW d \in Deliveries, WorkerStep(d) PROVE ThrowInv'
  <2>1. CASE RecordRetry(d)
    BY <1>0, <2>1 DEF RecordRetry
  <2>2. CASE HandlerFault(d)
    BY <1>0, <2>2 DEF HandlerFault
  <2>3. CASE Load(d) \/ Post(d) \/ RecordDelivery(d)
    BY <1>0, <2>3 DEF Load, Post, RecordDelivery
  <2>4. CASE RecordFailure(d) \/ CountFailures(d) \/ Disable(d)
    BY <1>0, <2>4 DEF RecordFailure, CountFailures, Disable
  <2> QED
    BY <1>2, <2>1, <2>2, <2>3, <2>4 DEF WorkerStep
<1>3. ASSUME NEW d \in Deliveries, Dispatch(d) PROVE ThrowInv'
  BY <1>0, <1>3
  DEF Dispatch, DispatchFind, DispatchCreate, DispatchEnqueue, DispatchAbort
<1>4. CASE Crash \/ SwitchEndpoint \/ DeleteEndpoint \/ UNCHANGED vars
  BY <1>0, <1>4 DEF Crash, SwitchEndpoint, DeleteEndpoint, vars
<1> QED
  BY <1>1, <1>2, <1>3, <1>4 DEF Next

LEMMA ThrowHolds == Spec => [](Inv /\ ThrowInv)
<1>1. Init => ThrowInv
  BY DEF Init, ThrowInv
<1> QED
  BY InvHolds, <1>1, ThrowStep, PTL DEF Spec

LEMMA RetryStep == Inv /\ ThrowInv /\ RetryInv /\ [Next]_vars => RetryInv'
<1> SUFFICES ASSUME Inv, ThrowInv, RetryInv, [Next]_vars PROVE RetryInv'
  OBVIOUS
<1> USE DEF RetryInv, Live, queue, worker, history, table, Goto
<1>0. /\ RetryInv
      /\ \A d \in Deliveries : pc[d] # "idle" => job[d] = "active"
      /\ job \in [Deliveries -> JobState] /\ pc \in [Deliveries -> WorkerPc]
      /\ made \in [Deliveries -> 0..MaxAttempts] /\ MaxAttempts \in Nat
      /\ row \in [Deliveries -> Columns]
      /\ endpoint \in {"active", "inactive", "deleted"} /\ switched \in BOOLEAN
  BY HookAssumption DEF Inv, TypeOK, JobInv
<1>1. ASSUME NEW d \in Deliveries, QueueStep(d) PROVE RetryInv'
  <2>1. CASE Promote(d) \/ Pick(d)
    BY <1>0, <2>1 DEF Promote, Pick
  <2>2. CASE StalledCheck(d)
    BY <1>0, <2>2 DEF StalledCheck
  <2>3. CASE Complete(d)
    BY <1>0, <2>3 DEF Complete, Finish
  <2>4. CASE FailAttempt(d)
    <3>1. /\ pc' = [pc EXCEPT ![d] = "idle"]
          /\ UNCHANGED <<row, switched, endpoint, struck>>
          /\ \A e \in Deliveries : e # d => job'[e] = job[e]
      BY <1>0, <2>4 DEF FailAttempt, Finish
    <3>2. d \notin struck => job' = [job EXCEPT ![d] = "delayed"]
      BY <2>4, AttemptFails
    <3> QED
      BY <1>0, <3>1, <3>2
  <2> QED
    BY <1>1, <2>1, <2>2, <2>3, <2>4 DEF QueueStep
<1>2. ASSUME NEW d \in Deliveries, WorkerStep(d) PROVE RetryInv'
  <2>1. CASE Load(d)
    BY <1>0, <2>1 DEF Load
  <2>2. CASE Post(d)
    BY <1>0, <2>2 DEF Post
  <2>3. CASE RecordDelivery(d)
    BY <1>0, <2>3 DEF RecordDelivery, MarkDelivered, Update, Columns
  <2>4. CASE RecordRetry(d)
    BY <1>0, <2>4 DEF RecordRetry, MarkRetrying, Update, Columns
  <2>5. CASE RecordFailure(d)
    BY <1>0, <2>5 DEF RecordFailure, MarkFailed, Update, Columns
  <2>6. CASE CountFailures(d)
    BY <1>0, <2>6 DEF CountFailures
  <2>7. CASE Disable(d)
    BY <1>0, <2>7 DEF Disable
  <2>8. CASE HandlerFault(d)
    BY <1>0, <2>8 DEF HandlerFault
  <2> QED
    BY <1>2, <2>1, <2>2, <2>3, <2>4, <2>5, <2>6, <2>7, <2>8 DEF WorkerStep
<1>3. CASE Crash
  BY <1>0, <1>3 DEF Crash
<1>4. ASSUME NEW d \in Deliveries, Dispatch(d) PROVE RetryInv'
  BY <1>0, <1>4
  DEF Dispatch, DispatchFind, DispatchCreate, DispatchEnqueue, DispatchAbort
<1>5. CASE SwitchEndpoint \/ DeleteEndpoint \/ UNCHANGED vars
  BY <1>0, <1>5 DEF SwitchEndpoint, DeleteEndpoint, vars
<1> QED
  BY <1>1, <1>2, <1>3, <1>4, <1>5 DEF Next

(***************************************************************************)
(* The retry the log announces (markRetrying) has a job that will do it,   *)
(* as long as the endpoint was never taken away, whatever crashes and      *)
(* fails; a delivery is exempt when a call of its last attempt threw, or   *)
(* the queue gave up on a job that stalled too often.                      *)
(***************************************************************************)
THEOREM RetriesHaveJobs == Spec => []RetryHasJob
<1>1. Init => RetryInv
  BY DEF Init, RetryInv
<1>2. RetryInv => RetryHasJob
  BY DEF RetryInv, RetryHasJob, Rows
<1> QED
  BY ThrowHolds, <1>1, RetryStep, <1>2, PTL DEF Spec

-----------------------------------------------------------------------------
(* As long as no admin interferes and no answer is a 2xx.                  *)
Quiet == ~switched /\ \A d \in Deliveries : acks[d] = 0

Answered == {d \in gaveUp : row[d].status # "null"}

(* Those whose handler has counted the streak, if it was not struck.       *)
Settled ==
  {d \in gaveUp \ struck :
     row[d].status # "null" /\ (job[d] \notin Live \/ pc[d] = "returning")}

(* A row exists before its job; only an admin deletes the endpoint.        *)
RankInv ==
  /\ \A d \in Deliveries :
       dispatching[d] = "created" \/ job[d] # "none" => rank[d] > 0
  /\ endpoint = "deleted" => switched

(* What was given up on is in its last attempt, and shows no retry.        *)
GaveUpInv ==
  \A d \in gaveUp :
    /\ job[d] # "none" /\ made[d] + 1 >= MaxAttempts
    /\ ~switched => ~row[d].retrying

(* Whoever counts last sees the rows of all that have settled.             *)
DecideInv == Quiet /\ Cardinality(Settled) >= Threshold => endpoint = "inactive"

LEMMA RankStep == Inv /\ RankInv /\ [Next]_vars => RankInv'
<1> SUFFICES ASSUME Inv, RankInv, [Next]_vars PROVE RankInv'
  OBVIOUS
<1> USE DEF RankInv, queue, worker, history, table
<1>0. /\ RankInv
      /\ job \in [Deliveries -> JobState]
      /\ rank \in [Deliveries -> Nat]
      /\ dispatching \in [Deliveries -> {"idle", "found", "created", "done"}]
      /\ \A d \in Deliveries : pc[d] # "idle" => job[d] = "active"
  BY DEF Inv, TypeOK, JobInv
<1>1. ASSUME NEW d \in Deliveries, Dispatch(d) PROVE RankInv'
  <2>1. Cardinality({e \in Deliveries : rank[e] > 0}) \in Nat
    BY HookAssumption, FS_Subset, FS_CardinalityType
  <2>2. CASE DispatchCreate(d)
    BY <1>0, <2>1, <2>2 DEF DispatchCreate
  <2>3. CASE DispatchFind(d) \/ DispatchEnqueue(d) \/ DispatchAbort(d)
    BY <1>0, <2>3 DEF DispatchFind, DispatchEnqueue, DispatchAbort
  <2> QED
    BY <1>1, <2>2, <2>3 DEF Dispatch
<1>2. ASSUME NEW d \in Deliveries, QueueStep(d) PROVE RankInv'
  <2>1. /\ job[d] # "none"
        /\ \E state : job' = [job EXCEPT ![d] = state]
        /\ UNCHANGED <<endpoint, dispatching, rank, switched>>
    BY <1>0, <1>2
    DEF QueueStep, Promote, Pick, StalledCheck, Complete, FailAttempt, Finish
  <2> QED
    BY <1>0, <2>1
<1>3. ASSUME NEW d \in Deliveries, WorkerStep(d) PROVE RankInv'
  BY <1>0, <1>3
  DEF WorkerStep, Load, Post, RecordDelivery, RecordRetry, RecordFailure,
      CountFailures, Disable, HandlerFault
<1>4. CASE Crash \/ SwitchEndpoint \/ DeleteEndpoint \/ UNCHANGED vars
  BY <1>0, <1>4 DEF Crash, SwitchEndpoint, DeleteEndpoint, vars
<1> QED
  BY <1>1, <1>2, <1>3, <1>4 DEF Next

LEMMA GaveUpStep == Inv /\ RankInv /\ GaveUpInv /\ [Next]_vars => GaveUpInv'
<1> SUFFICES ASSUME Inv, RankInv, GaveUpInv, [Next]_vars PROVE GaveUpInv'
  OBVIOUS
<1> USE DEF queue, worker, history, table, Goto
<1>0. /\ job \in [Deliveries -> JobState] /\ pc \in [Deliveries -> WorkerPc]
      /\ made \in [Deliveries -> 0..MaxAttempts] /\ MaxAttempts \in Nat
      /\ row \in [Deliveries -> Columns] /\ gaveUp \subseteq Deliveries
      /\ switched \in BOOLEAN
      /\ \A d \in Deliveries : pc[d] # "idle" => job[d] = "active"
  BY HookAssumption DEF Inv, TypeOK, JobInv
<1>1. ASSUME UNCHANGED <<row, gaveUp>>, switched \in BOOLEAN,
             switched => switched',
             \A e \in gaveUp : job'[e] # "none" /\ made'[e] >= made[e] /\ made'[e] \in Nat
      PROVE  GaveUpInv'
  BY <1>0, <1>1 DEF GaveUpInv
<1>2. ASSUME NEW d \in Deliveries, Dispatch(d) PROVE GaveUpInv'
  BY <1>0, <1>1, <1>2
  DEF Dispatch, DispatchFind, DispatchCreate, DispatchEnqueue, DispatchAbort, GaveUpInv
<1>3. ASSUME NEW d \in Deliveries, QueueStep(d) PROVE GaveUpInv'
  <2>1. UNCHANGED <<row, gaveUp, switched>>
    BY <1>3
    DEF QueueStep, Promote, Pick, StalledCheck, Complete, FailAttempt, Finish
  <2>2. \A e \in Deliveries : job[e] # "none" => job'[e] # "none"
    BY <1>0, <1>3
    DEF QueueStep, Promote, Pick, StalledCheck, Complete, FailAttempt, Finish
  <2>3. \A e \in Deliveries : made'[e] >= made[e] /\ made'[e] \in Nat
    BY <1>0, <1>3
    DEF QueueStep, Promote, Pick, StalledCheck, Complete, FailAttempt, Finish
  <2> QED
    BY <1>0, <1>1, <2>1, <2>2, <2>3 DEF GaveUpInv
<1>4. ASSUME NEW d \in Deliveries, WorkerStep(d) PROVE GaveUpInv'
  <2>1. UNCHANGED <<job, made, switched>>
    BY <1>4
    DEF WorkerStep, Load, Post, RecordDelivery, RecordRetry, RecordFailure,
        CountFailures, Disable, HandlerFault
  <2>2. CASE Load(d) \/ Post(d) \/ CountFailures(d) \/ Disable(d) \/ HandlerFault(d)
    <3>1. UNCHANGED <<row, gaveUp>>
      BY <2>2 DEF Load, Post, CountFailures, Disable, HandlerFault
    <3> QED
      BY <2>1, <3>1 DEF GaveUpInv
  <2>3. CASE RecordDelivery(d)
    BY <1>0, <2>1, <2>3
    DEF RecordDelivery, MarkDelivered, Update, Columns, GaveUpInv
  <2>4. CASE RecordRetry(d)
    <3>1. d \notin gaveUp /\ gaveUp' = gaveUp
      <4>1. made[d] \in Nat /\ made[d] + 1 < MaxAttempts
        BY <1>0, <2>4 DEF RecordRetry
      <4> QED
        BY <1>0, <2>4, <4>1 DEF RecordRetry, GaveUpInv
    <3>2. \A e \in Deliveries : e # d => row'[e] = row[e]
      BY <1>0, <2>4 DEF RecordRetry, MarkRetrying, Update
    <3> QED
      BY <1>0, <2>1, <3>1, <3>2 DEF GaveUpInv
  <2>5. CASE RecordFailure(d)
    <3>1. /\ gaveUp' = gaveUp \cup {d}
          /\ job[d] # "none" /\ made[d] + 1 >= MaxAttempts
      BY <1>0, <2>5 DEF RecordFailure, MarkFailed
    <3>2. /\ \A e \in Deliveries : e # d => row'[e] = row[e]
          /\ ~switched => ~row'[d].retrying
      BY <1>0, <2>5 DEF RecordFailure, MarkFailed, Update, Columns, RankInv
    <3> QED
      BY <1>0, <2>1, <3>1, <3>2 DEF GaveUpInv
  <2> QED
    BY <1>4, <2>2, <2>3, <2>4, <2>5 DEF WorkerStep
<1>5. CASE Crash
  BY <1>5 DEF Crash, GaveUpInv
<1>6. CASE SwitchEndpoint \/ DeleteEndpoint \/ UNCHANGED vars
  BY <1>6 DEF SwitchEndpoint, DeleteEndpoint, vars, GaveUpInv
<1> QED
  BY <1>2, <1>3, <1>4, <1>5, <1>6 DEF Next

(* Undisturbed, every delivery given up on with an answer is part of the   *)
(* streak.                                                                 *)
LEMMA AllCount ==
  ASSUME Inv, RankInv, GaveUpInv, Quiet
  PROVE  Answered \subseteq Streak
<1>1. ASSUME NEW d \in Answered PROVE d \in Streak
  <2>1. /\ d \in Deliveries /\ d \in gaveUp /\ row[d].status # "null"
        /\ ~switched /\ endpoint # "deleted"
    BY DEF Answered, Quiet, RankInv, Inv, TypeOK
  <2>2. ~row[d].retrying /\ rank[d] > 0
    BY <2>1 DEF GaveUpInv, RankInv
  <2>3. \A e \in Deliveries : ~row[e].delivered
    BY DEF Inv, AnswerInv, Quiet
  <2>4. Completed \subseteq Deliveries
    BY DEF Completed, Rows
  <2>5. d \in Completed
    BY <2>1, <2>2 DEF Completed, Rows
  <2> QED
    BY <2>1, <2>3, <2>4, <2>5 DEF Streak
<1> QED
  BY <1>1

LEMMA DecideStep ==
  Inv /\ ThrowInv /\ RankInv /\ GaveUpInv /\ DecideInv /\ [Next]_vars => DecideInv'
<1> SUFFICES ASSUME Inv, ThrowInv, RankInv, GaveUpInv, DecideInv, [Next]_vars,
                    Quiet', Cardinality(Settled') >= Threshold
             PROVE  endpoint' = "inactive"
  BY DEF DecideInv
<1> USE DEF queue, worker, history, table, Goto
<1>0. /\ pc \in [Deliveries -> WorkerPc] /\ row \in [Deliveries -> Columns]
      /\ job \in [Deliveries -> JobState]
      /\ gaveUp \subseteq Deliveries /\ acks \in [Deliveries -> Nat]
      /\ endpoint \in {"active", "inactive", "deleted"} /\ Threshold \in Nat
      /\ ~switched' /\ \A d \in Deliveries : acks'[d] = 0
      /\ \A d \in Deliveries : pc[d] # "idle" => job[d] = "active"
  BY HookAssumption DEF Inv, TypeOK, Quiet, JobInv
<1>1. ASSUME Quiet, Settled' \subseteq Settled, endpoint' = endpoint
      PROVE  endpoint' = "inactive"
  <2>1. IsFiniteSet(Settled)
    BY <1>0, HookAssumption, FS_Subset DEF Settled
  <2>2. Cardinality(Settled') <= Cardinality(Settled)
        /\ Cardinality(Settled') \in Nat /\ Cardinality(Settled) \in Nat
    BY <1>1, <2>1, FS_Subset, FS_CardinalityType
  <2> QED
    BY <1>0, <1>1, <2>2 DEF DecideInv
<1>2. ASSUME NEW d \in Deliveries, Dispatch(d) PROVE endpoint' = "inactive"
  <2>1. UNCHANGED <<endpoint, row, pc, switched, acks, gaveUp, struck>>
    BY <1>2
    DEF Dispatch, DispatchFind, DispatchCreate, DispatchEnqueue, DispatchAbort
  <2>2. \A e \in Deliveries : job'[e] = job[e] \/ job'[e] = "waiting"
    BY <1>0, <1>2
    DEF Dispatch, DispatchFind, DispatchCreate, DispatchEnqueue, DispatchAbort
  <2>3. Settled' \subseteq Settled
    BY <1>0, <2>1, <2>2 DEF Settled, Live
  <2> QED
    BY <1>0, <1>1, <2>1, <2>3 DEF Quiet
<1>3. ASSUME NEW d \in Deliveries, QueueStep(d) PROVE endpoint' = "inactive"
  <2>1. /\ UNCHANGED <<endpoint, row, switched, acks, gaveUp>>
        /\ struck \subseteq struck'
        /\ \A e \in Deliveries : e # d => job'[e] = job[e] /\ pc'[e] = pc[e]
    BY <1>0, <1>3
    DEF QueueStep, Promote, Pick, StalledCheck, Complete, FailAttempt, Finish
  <2>2. d \in Settled' => d \in Settled
    <3>1. CASE Promote(d) \/ Pick(d)
      BY <1>0, <3>1 DEF Promote, Pick, Settled, Live
    <3>2. CASE StalledCheck(d)
      BY <1>0, <3>2 DEF StalledCheck, Settled, Live
    <3>3. CASE Complete(d)
      BY <1>0, <2>1, <3>3 DEF Complete, Settled
    <3>4. CASE FailAttempt(d)
      <4>1. pc' = [pc EXCEPT ![d] = "idle"] /\ struck' = struck
        BY <3>4 DEF FailAttempt, Finish
      <4> QED
        BY <1>0, <3>4, <4>1, AttemptFails DEF Settled, Live
    <3> QED
      BY <1>3, <3>1, <3>2, <3>3, <3>4 DEF QueueStep
  <2>3. Settled' \subseteq Settled
    BY <1>0, <2>1, <2>2 DEF Settled
  <2> QED
    BY <1>0, <1>1, <2>1, <2>3 DEF Quiet
<1>4. ASSUME NEW d \in Deliveries, WorkerStep(d) PROVE endpoint' = "inactive"
  <2>0. UNCHANGED <<job, switched>> /\ struck \subseteq struck' /\ job[d] \in Live
    BY <1>0, <1>4
    DEF WorkerStep, Load, Post, RecordDelivery, RecordRetry, RecordFailure,
        CountFailures, Disable, HandlerFault, Live
  <2>q. Quiet
    <3>1. ASSUME NEW e \in Deliveries PROVE acks[e] = 0
      <4>1. acks'[e] = acks[e] \/ acks'[e] = acks[e] + 1
        BY <1>0, <1>4
        DEF WorkerStep, Load, Post, RecordDelivery, RecordRetry, RecordFailure,
            CountFailures, Disable, HandlerFault
      <4> QED
        BY <1>0, <4>1
    <3> QED
      BY <1>0, <2>0, <3>1 DEF Quiet
  <2>1. ASSUME endpoint' = endpoint, pc'[d] # "returning",
               \A e \in Deliveries : e # d => pc'[e] = pc[e] /\ row'[e] = row[e],
               gaveUp' \subseteq gaveUp \cup {d}
        PROVE  endpoint' = "inactive"
    <3>1. Settled' \subseteq Settled
      BY <1>0, <2>0, <2>1 DEF Settled
    <3> QED
      BY <1>1, <2>q, <2>1, <3>1
  <2>2. CASE Load(d)
    <3>1. CASE endpoint = "active"
      BY <1>0, <2>1, <2>2, <3>1 DEF Load
    <3>2. CASE endpoint # "active"
      BY <1>0, <2>0, <2>2, <3>2 DEF Load, RankInv
    <3> QED
      BY <3>1, <3>2
  <2>3. CASE Post(d)
    <3>1. pc' = [pc EXCEPT ![d] = "answered"] /\ UNCHANGED <<endpoint, row, gaveUp>>
      BY <2>3 DEF Post
    <3> QED
      BY <1>0, <2>1, <3>1
  <2>4. CASE RecordDelivery(d)
    BY <1>0, <2>q, <2>4 DEF RecordDelivery, Inv, AnswerInv, Quiet
  <2>5. CASE RecordRetry(d)
    BY <1>0, <2>1, <2>5 DEF RecordRetry, MarkRetrying, Update
  <2>6. CASE RecordFailure(d)
    BY <1>0, <2>1, <2>6 DEF RecordFailure, MarkFailed, Update
  <2>7. CASE CountFailures(d)
    <3>1. UNCHANGED <<endpoint, row, gaveUp>>
      BY <2>7 DEF CountFailures
    <3>2. CASE Cardinality(Streak) < Threshold
      <4>1. Settled' \subseteq Answered
        BY <3>1 DEF Settled, Answered
      <4>2. IsFiniteSet(Streak) /\ Settled' \subseteq Streak
        BY <2>q, <4>1, AllCount, HookAssumption, FS_Subset DEF Streak, Completed, Rows
      <4>3. Cardinality(Settled') <= Cardinality(Streak)
            /\ Cardinality(Settled') \in Nat /\ Cardinality(Streak) \in Nat
        BY <4>2, FS_Subset, FS_CardinalityType
      <4> QED
        BY <1>0, <3>2, <4>3
    <3>3. CASE ~(Cardinality(Streak) < Threshold)
      <4>1. pc' = [pc EXCEPT ![d] = "disabling"]
        BY <2>7, <3>3 DEF CountFailures
      <4> QED
        BY <1>0, <2>1, <3>1, <4>1
    <3> QED
      BY <3>2, <3>3
  <2>8. CASE Disable(d)
    BY <1>0, <2>0, <2>8 DEF Disable, RankInv
  <2>9. CASE HandlerFault(d)
    BY <1>0, <2>1, <2>9 DEF HandlerFault
  <2> QED
    BY <1>4, <2>2, <2>3, <2>4, <2>5, <2>6, <2>7, <2>8, <2>9 DEF WorkerStep
<1>5. CASE Crash
  <2>1. /\ UNCHANGED <<endpoint, row, job, switched, acks, gaveUp, struck>>
        /\ \A e \in Deliveries : pc'[e] = "idle"
    BY <1>5 DEF Crash
  <2>2. Settled' \subseteq Settled
    BY <1>0, <2>1 DEF Settled
  <2> QED
    BY <1>0, <1>1, <2>1, <2>2 DEF Quiet
<1>6. CASE SwitchEndpoint \/ DeleteEndpoint
  BY <1>0, <1>6 DEF SwitchEndpoint, DeleteEndpoint
<1>7. CASE UNCHANGED vars
  BY <1>0, <1>1, <1>7 DEF vars, Quiet, Settled
<1> QED
  BY <1>2, <1>3, <1>4, <1>5, <1>6, <1>7 DEF Next

LEMMA DecideInit == Init => RankInv /\ GaveUpInv /\ DecideInv
<1> SUFFICES ASSUME Init PROVE RankInv /\ GaveUpInv /\ DecideInv
  OBVIOUS
<1>1. Settled = {} /\ Cardinality(Settled) = 0
  BY FS_EmptySet DEF Init, Settled
<1> QED
  BY <1>1, HookAssumption DEF Init, RankInv, GaveUpInv, DecideInv

(***************************************************************************)
(* Whichever handlers give up at the same time, and whatever fails or      *)
(* crashes on the way, the one that counts last (handleFailure, after      *)
(* markFailed) sees the rows of all that come to their end, so Threshold   *)
(* answered failures in a row switch the endpoint off.                     *)
(***************************************************************************)
THEOREM FailuresSwitchOff == Spec => []AnsweredFailuresDisable
<1>1. Inv /\ ThrowInv /\ RankInv /\ GaveUpInv /\ DecideInv /\ [Next]_vars
        => RankInv' /\ GaveUpInv' /\ DecideInv'
  BY RankStep, GaveUpStep, DecideStep
<1>2. Inv /\ DecideInv => AnsweredFailuresDisable
  <2> SUFFICES ASSUME Inv, DecideInv, Quiet,
                      Cardinality({d \in gaveUp \ struck :
                         row[d].status # "null" /\ job[d] \notin Live}) >= Threshold
               PROVE  endpoint = "inactive"
    BY DEF AnsweredFailuresDisable, Quiet
  <2>1. {d \in gaveUp \ struck : row[d].status # "null" /\ job[d] \notin Live}
          \subseteq Settled
    BY DEF Settled
  <2>2. IsFiniteSet(Settled)
    BY HookAssumption, FS_Subset DEF Settled, Inv, TypeOK
  <2>3. Cardinality(Settled) >= Threshold
    BY <2>1, <2>2, HookAssumption, FS_Subset, FS_CardinalityType
  <2> QED
    BY <2>3 DEF DecideInv
<1> QED
  BY ThrowHolds, DecideInit, <1>1, <1>2, PTL DEF Spec
=============================================================================
