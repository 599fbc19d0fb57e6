--------------------------- MODULE SendQueueProofs ---------------------------
(***************************************************************************)
(* What the send queue keeps, for any number of messages, requests and     *)
(* worker slots: how far the gap between the check and the send lets the   *)
(* usage exceed the quota, how often a message is mailed, that an open     *)
(* message keeps a job, and that a cancelled schedule has no message that  *)
(* waits for its date.                                                     *)
(***************************************************************************)
EXTENDS SendPipelineProofs, FiniteSetTheorems

-----------------------------------------------------------------------------
(* The quota. *)

(* The messages Usage counts, and those a worker has cleared to be sent.   *)
Counted == {m \in window : status[m] \in {"sent", "delivered"}}
Gate    == {m \in Messages : pc[m] \in PastGate}

(***************************************************************************)
(* The inductive invariant.  A worker that clears a message has seen fewer *)
(* than Quota counted ones, and past the gate there are at most as many as *)
(* there are slots.                                                        *)
(***************************************************************************)
SlotInv  == IsFiniteSet(Busy) /\ Cardinality(Busy) <= Concurrency
QuotaInv ==
  /\ IsFiniteSet(window)
  /\ Cardinality(Counted) + Cardinality(Gate) <= Quota + Concurrency - 1

LEMMA OneMore ==
  ASSUME NEW S, NEW x, IsFiniteSet(S)
  PROVE  /\ IsFiniteSet(S \cup {x})
         /\ Cardinality(S \cup {x}) <= Cardinality(S) + 1
         /\ Cardinality(S) \in Nat /\ Cardinality(S \cup {x}) \in Nat
<1>1. /\ IsFiniteSet(S \cup {x})
      /\ Cardinality(S \cup {x}) = IF x \in S THEN Cardinality(S)
                                             ELSE Cardinality(S) + 1
  BY FS_AddElement
<1> QED
  BY <1>1, FS_CardinalityType

LEMMA GateBusy == Gate \subseteq Busy
  BY DEF Gate, Busy, PastGate

LEMMA Sizes ==
  ASSUME SlotInv, QuotaInv
  PROVE  /\ IsFiniteSet(Counted) /\ Cardinality(Counted) \in Nat
         /\ IsFiniteSet(Gate) /\ Cardinality(Gate) \in Nat
         /\ Cardinality(Busy) \in Nat
<1>1. Counted \subseteq window
  BY DEF Counted
<1> QED
  BY <1>1, GateBusy, FS_Subset, FS_CardinalityType DEF SlotInv, QuotaInv

LEMMA InitQuota == Init => SlotInv /\ QuotaInv
<1> SUFFICES ASSUME Init PROVE SlotInv /\ QuotaInv
  OBVIOUS
<1>1. Busy = {} /\ Gate = {} /\ window = {} /\ Counted = {}
  BY DEF Init, Busy, Gate, PastGate, Counted
<1> QED
  BY <1>1, FS_EmptySet, ConstantsAssumption DEF SlotInv, QuotaInv

-----------------------------------------------------------------------------
(* Only Pick takes a slot.                                                 *)
LEMMA SlotShrinks ==
  ASSUME SlotInv, Busy' \subseteq Busy
  PROVE  SlotInv'
<1>1. IsFiniteSet(Busy') /\ Cardinality(Busy') <= Cardinality(Busy)
  BY FS_Subset DEF SlotInv
<1>2. Cardinality(Busy) \in Nat /\ Cardinality(Busy') \in Nat
  BY <1>1, FS_CardinalityType DEF SlotInv
<1> QED
  BY <1>1, <1>2, ConstantsAssumption DEF SlotInv

LEMMA SlotStep == Inv /\ SlotInv /\ [Next]_vars => SlotInv'
<1> SUFFICES ASSUME Inv, SlotInv, [Next]_vars PROVE SlotInv'
  OBVIOUS
<1>1. ASSUME NEW m \in Messages, Pick(m) PROVE SlotInv'
  <2>1. Busy' = Busy \cup {m}
    BY <1>1 DEF Pick, Busy, Inv, TypeOK
  <2>2. /\ IsFiniteSet(Busy')
        /\ Cardinality(Busy') <= Cardinality(Busy) + 1
        /\ Cardinality(Busy) \in Nat /\ Cardinality(Busy') \in Nat
    BY <2>1, OneMore DEF SlotInv
  <2>3. Cardinality(Busy) < Concurrency
    BY <1>1 DEF Pick
  <2> QED
    BY <2>2, <2>3, ConstantsAssumption DEF SlotInv
<1>2. ASSUME NEW m \in Messages, WorkerStep(m) PROVE Busy' \subseteq Busy
  BY <1>2 DEF WorkerStep, Load, CheckAccount, RejectInactive, DeferForQuota,
     Clear, StartSending, Transmit, Record, Catch, HandlerFault, Goto, Busy,
     Inv, TypeOK
<1>3. ASSUME NEW m \in Messages, Complete(m) \/ FailAttempt(m)
      PROVE  Busy' \subseteq Busy
  BY <1>3 DEF Complete, FailAttempt, Busy, Inv, TypeOK
<1>4. ASSUME Crash PROVE Busy' \subseteq Busy
  BY <1>4 DEF Crash, Busy
<1>5. ASSUME NEW m \in Messages,
             \/ Compose(m) \/ Promote(m) \/ StalledCheck(m)
             \/ Bounce(m) \/ AssumeDelivered(m)
      PROVE  UNCHANGED pc
  BY <1>5 DEF Compose, ComposeCheck, ComposeCreate, ComposeEnqueue,
     ComposeRecord, ComposeAbort, Promote, StalledCheck, Bounce,
     AssumeDelivered
<1>6. ASSUME NEW r \in Requests,
             \/ \E m \in Messages : CancelBegin(r, m) \/ RescheduleBegin(r, m)
             \/ RequestStep(r)
      PROVE  UNCHANGED pc
  BY <1>6 DEF CancelBegin, RescheduleBegin, Begin, RequestStep, RemoveJob,
     CancelMarkRow, CancelMarkMessage, RescheduleAdd, RescheduleMarkRow,
     RequestAbort
<1>7. ASSUME NewWindow \/ SetAccountStatus \/ UNCHANGED vars
      PROVE  UNCHANGED pc
  BY <1>7 DEF NewWindow, SetAccountStatus, vars
<1>8. UNCHANGED pc => Busy' \subseteq Busy
  BY DEF Busy
<1> QED
  BY <1>1, <1>2, <1>3, <1>4, <1>5, <1>6, <1>7, <1>8, SlotShrinks
  DEF Next, QueueStep

-----------------------------------------------------------------------------
(* Only Clear lets a message past the gate, and only Record counts one.    *)
LEMMA QuotaShrinks ==
  ASSUME SlotInv, QuotaInv,
         window' \subseteq window, Counted' \subseteq Counted, Gate' \subseteq Gate
  PROVE  QuotaInv'
<1>1. /\ IsFiniteSet(window')
      /\ Cardinality(Counted') <= Cardinality(Counted)
      /\ Cardinality(Gate') <= Cardinality(Gate)
      /\ Cardinality(Counted') \in Nat /\ Cardinality(Gate') \in Nat
  BY Sizes, FS_Subset, FS_CardinalityType DEF QuotaInv
<1> QED
  BY <1>1, Sizes, ConstantsAssumption DEF QuotaInv

LEMMA ClearQuota ==
  ASSUME Inv, SlotInv, QuotaInv, NEW m \in Messages, Clear(m)
  PROVE  QuotaInv'
<1>1. Gate' \subseteq Busy
  BY DEF Clear, Goto, Gate, Busy, PastGate, Inv, TypeOK
<1>2. UNCHANGED window /\ Counted' = Counted
  BY DEF Clear, rows, Counted
<1>3. Cardinality(Counted) < Quota
  BY DEF Clear, Usage, Counted
<1>4. /\ Cardinality(Gate') <= Cardinality(Busy)
      /\ Cardinality(Gate') \in Nat
  BY <1>1, FS_Subset, FS_CardinalityType DEF SlotInv
<1> QED
  BY <1>2, <1>3, <1>4, Sizes, ConstantsAssumption DEF SlotInv, QuotaInv

LEMMA RecordQuota ==
  ASSUME Inv, SlotInv, QuotaInv, NEW m \in Messages, Record(m)
  PROVE  QuotaInv'
<1>1. m \in Gate /\ Gate' = Gate \ {m}
  BY DEF Record, Goto, Gate, PastGate, Inv, TypeOK
<1>2. window' = window \cup {m} /\ Counted' \subseteq Counted \cup {m}
  BY DEF Record, MarkSent, SetStatus, Counted, Inv, TypeOK
<1>3. IsFiniteSet(window')
  BY <1>2, OneMore DEF QuotaInv
<1>4. /\ Cardinality(Counted') <= Cardinality(Counted) + 1
      /\ Cardinality(Counted') \in Nat
  <2>1. /\ IsFiniteSet(Counted \cup {m})
        /\ Cardinality(Counted \cup {m}) <= Cardinality(Counted) + 1
    BY Sizes, OneMore
  <2>2. /\ IsFiniteSet(Counted')
        /\ Cardinality(Counted') <= Cardinality(Counted \cup {m})
    BY <1>2, <2>1, FS_Subset
  <2> QED
    BY <2>1, <2>2, Sizes, FS_CardinalityType
<1>5. Cardinality(Gate') = Cardinality(Gate) - 1
  BY <1>1, Sizes, FS_RemoveElement
<1> QED
  BY <1>3, <1>4, <1>5, Sizes, ConstantsAssumption DEF QuotaInv

LEMMA QuotaStep == Inv /\ SlotInv /\ QuotaInv /\ [Next]_vars => QuotaInv'
<1> SUFFICES ASSUME Inv, SlotInv, QuotaInv, [Next]_vars PROVE QuotaInv'
  OBVIOUS
<1> DEFINE Shrinks == /\ window' \subseteq window
                      /\ Counted' \subseteq Counted
                      /\ Gate' \subseteq Gate
<1>1. ASSUME NEW m \in Messages,
             \/ Load(m) \/ CheckAccount(m) \/ DeferForQuota(m)
             \/ Transmit(m) \/ HandlerFault(m)
      PROVE  Shrinks
  BY <1>1 DEF Load, CheckAccount, DeferForQuota, Transmit, HandlerFault, Goto,
     rows, Counted, Gate, PastGate, Inv, TypeOK
<1>2. ASSUME NEW m \in Messages, RejectInactive(m) \/ StartSending(m) \/ Catch(m)
      PROVE  Shrinks
  <2>1. PICK s \in {"failed", "sending", "queued"} : SetStatus(m, s)
    BY <1>2 DEF RejectInactive, StartSending, Catch, MarkFailed, MarkSending,
       MarkQueued
  <2>2. UNCHANGED window /\ Counted' \subseteq Counted
    BY <1>2, <2>1 DEF RejectInactive, StartSending, Catch, SetStatus, Counted,
       Inv, TypeOK
  <2>3. Gate' \subseteq Gate
    BY <1>2 DEF RejectInactive, StartSending, Catch, Goto, Gate, PastGate,
       Inv, TypeOK
  <2> QED
    BY <2>2, <2>3
<1>3. ASSUME NEW m \in Messages, QueueStep(m) PROVE Shrinks
  BY <1>3 DEF QueueStep, Promote, Pick, StalledCheck, Complete, FailAttempt,
     rows, Counted, Gate, PastGate, Inv, TypeOK
<1>4. ASSUME NEW m \in Messages, Compose(m) PROVE Shrinks
  <2>1. \A n \in Messages : status'[n] = status[n] \/ status'[n] \in {"queued", "scheduled"}
    BY <1>4 DEF Compose, ComposeCheck, ComposeCreate, ComposeEnqueue,
       ComposeRecord, ComposeAbort, SetStatus, rows, Inv, TypeOK
  <2>2. UNCHANGED <<window, pc>>
    BY <1>4 DEF Compose, ComposeCheck, ComposeCreate, ComposeEnqueue,
       ComposeRecord, ComposeAbort, rows
  <2> QED
    BY <2>1, <2>2 DEF Counted, Gate, Inv, TypeOK
<1>5. ASSUME NEW m \in Messages, Bounce(m) \/ AssumeDelivered(m) PROVE Shrinks
  BY <1>5 DEF Bounce, AssumeDelivered, SetStatus, Counted, Gate, Inv, TypeOK
<1>6. ASSUME NEW r \in Requests,
             \/ \E m \in Messages : CancelBegin(r, m) \/ RescheduleBegin(r, m)
             \/ RequestStep(r)
      PROVE  Shrinks
  <2>1. \A n \in Messages : status'[n] = status[n] \/ status'[n] = "cancelled"
    BY <1>6, RequestFields DEF CancelBegin, RescheduleBegin, Begin, RequestStep,
       RemoveJob, CancelMarkRow, CancelMarkMessage, MarkCancelled, SetStatus,
       RescheduleAdd, RescheduleMarkRow, RequestAbort, rows, Inv, TypeOK
  <2>2. UNCHANGED <<window, pc>>
    BY <1>6 DEF CancelBegin, RescheduleBegin, Begin, RequestStep,
       RemoveJob, CancelMarkRow, CancelMarkMessage, RescheduleAdd,
       RescheduleMarkRow, RequestAbort, rows
  <2> QED
    BY <2>1, <2>2 DEF Counted, Gate, Inv, TypeOK
<1>7. ASSUME Crash \/ NewWindow \/ SetAccountStatus \/ UNCHANGED vars
      PROVE  Shrinks
  BY <1>7 DEF Crash, NewWindow, SetAccountStatus, vars, rows, Counted, Gate,
     PastGate
<1> QED
  BY <1>1, <1>2, <1>3, <1>4, <1>5, <1>6, <1>7, ClearQuota, RecordQuota,
     QuotaShrinks
  DEF Next, WorkerStep

(***************************************************************************)
(* The usage, with the sends under way, exceeds the quota by at most       *)
(* Concurrency - 1, whatever crashes, stalls and bounces do: a worker of   *)
(* one slot keeps the quota exactly.                                       *)
(***************************************************************************)
THEOREM UsageIsBounded == Spec => []UsageBound
<1>1. Inv /\ SlotInv /\ QuotaInv /\ [Next]_vars => SlotInv' /\ QuotaInv'
  BY SlotStep, QuotaStep
<1>2. QuotaInv => UsageBound
  BY DEF QuotaInv, UsageBound, Usage, Counted, Gate
<1> QED
  BY InvHolds, InitQuota, <1>1, <1>2, PTL DEF Spec

-----------------------------------------------------------------------------
(* The jobs. *)

(***************************************************************************)
(* The inductive invariant.                                                *)
(***************************************************************************)

(* A job whose handler is gone is one more crash.                          *)
StallInv ==
  \A m \in Messages :
    /\ stalls[m] <= crashes
    /\ job[m] = "active" /\ pc[m] = "idle" => stalls[m] + 1 <= crashes

(* There is no row, and so no request, until compose is done, and no job   *)
(* until it has enqueued one.                                              *)
OrderInv ==
  /\ \A m \in Messages :
       /\ composing[m] # "done" => row[m] = "none"
       /\ composing[m] \in {"idle", "checked", "created"} => job[m] = "none"
  /\ \A r \in Requests : request[r].pc # "idle" => row[request[r].msg] # "none"

(* A handler ends for good only with a message that is not open.           *)
EndInv ==
  \A m \in Messages \ struck :
    /\ pc[m] = "returning" => status[m] \notin Open
    /\ pc[m] = "throwing" /\ made[m] + 1 >= MaxAttempts => status[m] \notin Open
    /\ job[m] \in {"completed", "failed"} => status[m] \notin Open

(* Some request for m is between the removal of the job and its next step. *)
Reached(m, label) == \E r \in Requests : request[r].msg = m /\ request[r].pc = label

(* An open message without a job is one a request has just taken it from.  *)
OpenInv ==
  \A m \in Messages \ struck :
    status[m] \in Open /\ composing[m] \in {"enqueued", "done"}
      /\ row[m] # "cancelled" => job[m] \in Live \/ Reached(m, "removed")

(* cancel() marks the row before the message.                              *)
CancelInv ==
  \A m \in Messages \ struck :
    row[m] = "cancelled" /\ status[m] = "scheduled" => Reached(m, "marked")

JobsInv == OrderInv /\ EndInv /\ OpenInv /\ CancelInv

-----------------------------------------------------------------------------
(* Which actions touch what, so that each proof looks at those only.       *)
LEMMA WorkerEffect ==
  ASSUME TypeOK, JobInv, NEW m \in Messages, WorkerStep(m)
  PROVE  /\ UNCHANGED <<row, made, stalls, composing, request, crashes>>
         /\ pc[m] # "idle" /\ job[m] = "active"
         /\ \/ job' = job /\ \E label \in WorkerPc \ {"idle"} : pc' = [pc EXCEPT ![m] = label]
            \/ /\ job' = [job EXCEPT ![m] = "delayed"]
               /\ pc' = [pc EXCEPT ![m] = "idle"]
         /\ \E s \in {"sending", "sent", "failed", "queued", status[m]} :
              status' = [status EXCEPT ![m] = s]
<1>1. pc[m] # "idle" /\ job[m] = "active"
  BY DEF JobInv, WorkerStep, Load, CheckAccount, RejectInactive, DeferForQuota,
     Clear, StartSending, Transmit, Record, Catch, HandlerFault
<1>2. status = [status EXCEPT ![m] = status[m]]
  BY DEF TypeOK
<1>3. CASE Load(m) \/ CheckAccount(m) \/ Clear(m) \/ Transmit(m) \/ HandlerFault(m)
  BY <1>1, <1>2, <1>3
  DEF Load, CheckAccount, Clear, Transmit, HandlerFault, Goto, rows, queue,
      history, outside, WorkerPc
<1>4. CASE RejectInactive(m)
  BY <1>1, <1>4 DEF RejectInactive, MarkFailed, SetStatus, Goto, queue, outside, WorkerPc
<1>5. CASE DeferForQuota(m)
  BY <1>1, <1>2, <1>5 DEF DeferForQuota, Goto, rows, outside
<1>6. CASE StartSending(m)
  BY <1>1, <1>6 DEF StartSending, MarkSending, SetStatus, Goto, queue, outside, WorkerPc
<1>7. CASE Record(m)
  BY <1>1, <1>7 DEF Record, MarkSent, SetStatus, Goto, queue, outside, WorkerPc
<1>8. CASE Catch(m)
  BY <1>1, <1>8 DEF Catch, MarkFailed, MarkQueued, SetStatus, Goto, queue, outside, WorkerPc
<1> QED
  BY <1>3, <1>4, <1>5, <1>6, <1>7, <1>8 DEF WorkerStep

LEMMA StallStep == Inv /\ StallInv /\ [Next]_vars => StallInv'
<1> SUFFICES ASSUME Inv, StallInv, [Next]_vars PROVE StallInv'
  OBVIOUS
<1> USE DEF StallInv, rows, queue, history, outside
<1>0. /\ StallInv /\ TypeOK /\ JobInv
      /\ \A m \in Messages : pc[m] # "idle" => job[m] = "active"
      /\ job \in [Messages -> JobState] /\ pc \in [Messages -> WorkerPc]
      /\ stalls \in [Messages -> Nat] /\ crashes \in Nat
  BY ConstantsAssumption DEF Inv, TypeOK, JobInv
<1>1. ASSUME NEW m \in Messages, NEW s \in {"waiting", "delayed"},
             NEW d, AddJob(m, s, d), UNCHANGED <<pc, crashes>>
      PROVE  StallInv'
  BY <1>0, <1>1 DEF AddJob
<1>2. ASSUME NEW m \in Messages, Compose(m) PROVE StallInv'
  <2>1. CASE ComposeEnqueue(m)
    BY <1>1, <2>1 DEF ComposeEnqueue, EnqueueSend, EnqueueScheduled
  <2>2. CASE ~ComposeEnqueue(m)
    BY <1>0, <1>2, <2>2
    DEF Compose, ComposeCheck, ComposeCreate, ComposeRecord, ComposeAbort
  <2> QED
    BY <2>1, <2>2
<1>3. ASSUME NEW m \in Messages, WorkerStep(m) PROVE StallInv'
  BY <1>0, <1>3, WorkerEffect
<1>4. ASSUME NEW m \in Messages, QueueStep(m) PROVE StallInv'
  <2>1. CASE Promote(m) \/ Pick(m)
    BY <1>0, <2>1 DEF Promote, Pick
  <2>2. CASE StalledCheck(m)
    BY <1>0, <2>2 DEF StalledCheck
  <2>3. CASE Complete(m) \/ FailAttempt(m)
    BY <1>0, <2>3 DEF Complete, FailAttempt
  <2> QED
    BY <1>4, <2>1, <2>2, <2>3 DEF QueueStep
<1>5. ASSUME NEW r \in Requests, RequestStep(r) PROVE StallInv'
  <2>1. CASE RemoveJob(r)
    BY <1>0, <2>1 DEF RemoveJob, CancelScheduled
  <2>2. CASE RescheduleAdd(r)
    <3>1. request[r].msg \in Messages
      BY <1>0, <2>2, RequestFields DEF RescheduleAdd
    <3> QED
      BY <1>1, <2>2, <3>1 DEF RescheduleAdd, EnqueueScheduled
  <2>3. CASE ~RemoveJob(r) /\ ~RescheduleAdd(r)
    BY <1>0, <1>5, <2>3
    DEF RequestStep, CancelMarkRow, CancelMarkMessage, RescheduleMarkRow, RequestAbort
  <2> QED
    BY <2>1, <2>2, <2>3
<1>6. CASE Crash
  BY <1>0, <1>6 DEF Crash
<1>7. CASE UNCHANGED <<queue, pc, crashes>>
  BY <1>0, <1>7
<1> QED
  BY <1>2, <1>3, <1>4, <1>5, <1>6, <1>7
  DEF Next, Bounce, AssumeDelivered, CancelBegin, RescheduleBegin, Begin,
      NewWindow, SetAccountStatus, vars

LEMMA OrderStep == Inv /\ OrderInv /\ [Next]_vars => OrderInv'
<1> SUFFICES ASSUME Inv, OrderInv, [Next]_vars PROVE OrderInv'
  OBVIOUS
<1> USE DEF OrderInv, rows, queue, history, outside
<1>0. /\ OrderInv /\ TypeOK /\ JobInv
      /\ composing \in [Messages -> {"idle", "checked", "created", "enqueued", "done"}]
      /\ row \in [Messages -> {"none", "pending", "cancelled"}]
      /\ job \in [Messages -> JobState]
      /\ request \in [Requests -> RequestState]
      /\ IdleRequest.pc = "idle"
      /\ \A r \in Requests : request[r].pc # "idle" => request[r].msg \in Messages
  BY RequestFields DEF Inv, TypeOK, IdleRequest
<1>1. ASSUME NEW m \in Messages, Compose(m) PROVE OrderInv'
  <2>1. CASE ComposeCheck(m) \/ ComposeCreate(m) \/ ComposeAbort(m)
    BY <1>0, <2>1 DEF ComposeCheck, ComposeCreate, ComposeAbort
  <2>2. CASE ComposeEnqueue(m)
    BY <1>0, <2>2 DEF ComposeEnqueue, EnqueueSend, EnqueueScheduled, AddJob
  <2>3. CASE ComposeRecord(m)
    BY <1>0, <2>3 DEF ComposeRecord
  <2> QED
    BY <1>1, <2>1, <2>2, <2>3 DEF Compose
<1>2. ASSUME NEW m \in Messages, WorkerStep(m) PROVE OrderInv'
  BY <1>0, <1>2, WorkerEffect
<1>3. ASSUME NEW m \in Messages, QueueStep(m) PROVE OrderInv'
  <2>1. /\ UNCHANGED <<row, composing, request>>
        /\ job[m] # "none"
        /\ \E state : job' = [job EXCEPT ![m] = state]
    BY <1>0, <1>3
    DEF QueueStep, Promote, Pick, StalledCheck, Complete, FailAttempt, JobInv
  <2> QED
    BY <1>0, <2>1
<1>4. ASSUME NEW r \in Requests, RequestStep(r) PROVE OrderInv'
  <2>0. request[r].pc # "idle"
    BY <1>0, <1>4
    DEF RequestStep, RemoveJob, CancelMarkRow, CancelMarkMessage, RescheduleAdd,
        RescheduleMarkRow, RequestAbort, TypeOK, RequestState
  <2>1. CASE RemoveJob(r)
    <3>1. composing[request[r].msg] = "done"
      BY <1>0, <2>0
    <3>2. \A q \in Requests : request'[q].pc # "idle" =>
            request[q].pc # "idle" /\ request'[q].msg = request[q].msg
      BY <1>0, <2>0, <2>1 DEF RemoveJob, RequestState, IdleRequest
    <3> QED
      BY <1>0, <2>1, <3>1, <3>2 DEF RemoveJob, CancelScheduled
  <2>2. CASE RescheduleAdd(r)
    <3>1. composing[request[r].msg] = "done"
      BY <1>0, <2>0
    <3>2. \A q \in Requests : request'[q].pc # "idle" =>
            request[q].pc # "idle" /\ request'[q].msg = request[q].msg
      BY <1>0, <2>0, <2>2 DEF RescheduleAdd, RequestState, IdleRequest
    <3> QED
      BY <1>0, <2>2, <3>1, <3>2 DEF RescheduleAdd, EnqueueScheduled, AddJob
  <2>3. CASE CancelMarkRow(r)
    <3>1. composing[request[r].msg] = "done" /\ request[r].msg \in Messages
      BY <1>0, <2>0
    <3>2. \A q \in Requests : request'[q].pc # "idle" =>
            request[q].pc # "idle" /\ request'[q].msg = request[q].msg
      BY <1>0, <2>0, <2>3 DEF CancelMarkRow, RequestState, IdleRequest
    <3> QED
      BY <1>0, <2>3, <3>1, <3>2 DEF CancelMarkRow
  <2>4. CASE CancelMarkMessage(r) \/ RescheduleMarkRow(r) \/ RequestAbort(r)
    BY <1>0, <2>4 DEF CancelMarkMessage, RescheduleMarkRow, RequestAbort
  <2> QED
    BY <1>4, <2>1, <2>2, <2>3, <2>4 DEF RequestStep
<1>5. ASSUME NEW r \in Requests, NEW m \in Messages, CancelBegin(r, m) \/ RescheduleBegin(r, m)
      PROVE  OrderInv'
  BY <1>0, <1>5 DEF CancelBegin, RescheduleBegin, Begin
<1>6. CASE UNCHANGED <<row, job, composing, request>>
  BY <1>0, <1>6
<1> QED
  BY <1>1, <1>2, <1>3, <1>4, <1>5, <1>6
  DEF Next, Crash, Bounce, AssumeDelivered, NewWindow, SetAccountStatus, vars

(* A mishap is not forgotten, and only these five steps strike a message.  *)
LEMMA StruckGrows ==
  ASSUME [Next]_vars
  PROVE  struck \subseteq struck'
<1> USE DEF rows, queue, history, outside
<1>1. ASSUME NEW m \in Messages, Compose(m) PROVE struck \subseteq struck'
  BY <1>1
  DEF Compose, ComposeCheck, ComposeCreate, ComposeEnqueue, ComposeRecord,
      ComposeAbort, Strike
<1>2. ASSUME NEW m \in Messages, WorkerStep(m) PROVE struck \subseteq struck'
  BY <1>2
  DEF WorkerStep, Load, CheckAccount, RejectInactive, DeferForQuota, Clear,
      StartSending, Transmit, Record, Catch, HandlerFault, Strike
<1>3. ASSUME NEW m \in Messages, QueueStep(m) PROVE struck \subseteq struck'
  BY <1>3
  DEF QueueStep, Promote, Pick, StalledCheck, Complete, FailAttempt, Strike
<1>4. ASSUME NEW r \in Requests, RequestStep(r) PROVE struck \subseteq struck'
  BY <1>4
  DEF RequestStep, RemoveJob, CancelMarkRow, CancelMarkMessage, RescheduleAdd,
      RescheduleMarkRow, RequestAbort, Strike
<1> QED
  BY <1>1, <1>2, <1>3, <1>4
  DEF Next, CancelBegin, RescheduleBegin, Begin, Crash, Bounce,
      AssumeDelivered, NewWindow, SetAccountStatus, vars

LEMMA EndStep == Inv /\ OrderInv /\ EndInv /\ [Next]_vars => EndInv'
<1> SUFFICES ASSUME Inv, OrderInv, EndInv, [Next]_vars PROVE EndInv'
  OBVIOUS
<1> USE StruckGrows DEF EndInv, Open, rows, queue, history, outside
<1>0. /\ EndInv /\ struck \subseteq struck'
      /\ \A m \in Messages : pc[m] # "idle" => job[m] = "active"
      /\ status \in [Messages -> MessageStatus \cup {"none"}]
      /\ job \in [Messages -> JobState] /\ pc \in [Messages -> WorkerPc]
      /\ made \in [Messages -> Nat] /\ MaxAttempts \in Nat
  BY ConstantsAssumption DEF Inv, TypeOK, JobInv
<1>1. ASSUME NEW m \in Messages, Compose(m) PROVE EndInv'
  <2>1. CASE ComposeCreate(m)
    <3>1. job[m] = "none" /\ pc[m] = "idle"
      BY <1>0, <2>1 DEF ComposeCreate, OrderInv
    <3> QED
      BY <1>0, <2>1, <3>1 DEF ComposeCreate, SetStatus
  <2>2. CASE ComposeEnqueue(m)
    <3>1. job[m] = "none" /\ pc[m] = "idle"
      BY <1>0, <2>2 DEF ComposeEnqueue, OrderInv
    <3> QED
      BY <1>0, <2>2, <3>1 DEF ComposeEnqueue, EnqueueSend, EnqueueScheduled, AddJob
  <2>3. CASE ComposeCheck(m) \/ ComposeRecord(m) \/ ComposeAbort(m)
    BY <1>0, <2>3 DEF ComposeCheck, ComposeRecord, ComposeAbort
  <2> QED
    BY <1>1, <2>1, <2>2, <2>3 DEF Compose
<1>2. ASSUME NEW m \in Messages, WorkerStep(m) PROVE EndInv'
  <2>1. CASE Load(m)
    BY <1>0, <2>1 DEF Load, Goto, MessageStatus
  <2>2. CASE CheckAccount(m) \/ Clear(m) \/ DeferForQuota(m) \/ Transmit(m)
    BY <1>0, <2>2 DEF CheckAccount, Clear, DeferForQuota, Transmit, Goto
  <2>3. CASE RejectInactive(m)
    BY <1>0, <2>3 DEF RejectInactive, MarkFailed, SetStatus, Goto
  <2>4. CASE StartSending(m)
    BY <1>0, <2>4 DEF StartSending, MarkSending, SetStatus, Goto
  <2>5. CASE Record(m)
    BY <1>0, <2>5 DEF Record, MarkSent, SetStatus, Goto
  <2>6. CASE Catch(m)
    BY <1>0, <2>6 DEF Catch, MarkFailed, MarkQueued, SetStatus, Goto
  <2>7. CASE HandlerFault(m)
    <3>1. /\ UNCHANGED <<status, job, made>>
          /\ \/ pc' = [pc EXCEPT ![m] = "catching"]
             \/ /\ pc' = [pc EXCEPT ![m] = "throwing"]
                /\ made[m] + 1 >= MaxAttempts => m \in struck'
      BY <2>7 DEF HandlerFault, Goto, Strike
    <3> QED
      BY <1>0, <3>1
  <2> QED
    BY <1>2, <2>1, <2>2, <2>3, <2>4, <2>5, <2>6, <2>7 DEF WorkerStep
<1>3. ASSUME NEW m \in Messages, QueueStep(m) PROVE EndInv'
  <2>1. CASE Promote(m) \/ Pick(m)
    BY <1>0, <2>1 DEF Promote, Pick
  <2>2. CASE StalledCheck(m)
    <3>1. /\ UNCHANGED <<status, made, pc>>
          /\ \/ job' = [job EXCEPT ![m] = "waiting"]
             \/ job' = [job EXCEPT ![m] = "failed"] /\ m \in struck'
      BY <2>2 DEF StalledCheck, Strike
    <3> QED
      BY <1>0, <3>1
  <2>3. CASE Complete(m)
    BY <1>0, <2>3 DEF Complete
  <2>4. CASE FailAttempt(m)
    <3>1. /\ pc' = [pc EXCEPT ![m] = "idle"]
          /\ made' = [made EXCEPT ![m] = @ + 1]
          /\ status' = status
          /\ \/ job' = [job EXCEPT ![m] = "delayed"]
             \/ /\ job' = [job EXCEPT ![m] = "failed"]
                /\ m \notin struck => status[m] \notin Open
      BY <1>0, <2>4 DEF FailAttempt
    <3> QED
      BY <1>0, <3>1
  <2> QED
    BY <1>3, <2>1, <2>2, <2>3, <2>4 DEF QueueStep
<1>4. ASSUME NEW r \in Requests, RequestStep(r) PROVE EndInv'
  <2>1. CASE RemoveJob(r)
    BY <1>0, <2>1 DEF RemoveJob, CancelScheduled
  <2>2. CASE RescheduleAdd(r)
    BY <1>0, <2>2 DEF RescheduleAdd, EnqueueScheduled, AddJob
  <2>3. CASE CancelMarkMessage(r)
    BY <1>0, <2>3 DEF CancelMarkMessage, MarkCancelled, SetStatus
  <2>4. CASE CancelMarkRow(r) \/ RescheduleMarkRow(r) \/ RequestAbort(r)
    BY <1>0, <2>4 DEF CancelMarkRow, RescheduleMarkRow, RequestAbort
  <2> QED
    BY <1>4, <2>1, <2>2, <2>3, <2>4 DEF RequestStep
<1>5. CASE Crash
  BY <1>0, <1>5 DEF Crash
<1>6. ASSUME NEW m \in Messages, Bounce(m) \/ AssumeDelivered(m) PROVE EndInv'
  BY <1>0, <1>6 DEF Bounce, AssumeDelivered, SetStatus
<1>7. CASE UNCHANGED <<status, job, made, pc>>
  BY <1>0, <1>7
<1> QED
  BY <1>1, <1>2, <1>3, <1>4, <1>5, <1>6, <1>7
  DEF Next, CancelBegin, RescheduleBegin, Begin, NewWindow, SetAccountStatus, vars

-----------------------------------------------------------------------------
(* A request that stays where it is, is still seen there.                  *)
LEMMA StillReached ==
  ASSUME NEW m, NEW label, Reached(m, label),
         \A r \in Requests : request[r].pc = label =>
           request'[r].pc = label /\ request'[r].msg = request[r].msg
  PROVE  Reached(m, label)'
  BY DEF Reached

LEMMA OpenStep ==
  Inv /\ OrderInv /\ EndInv /\ EndInv' /\ OpenInv /\ [Next]_vars => OpenInv'
<1> SUFFICES ASSUME Inv, OrderInv, EndInv, EndInv', OpenInv, [Next]_vars,
                    NEW e \in Messages \ struck',
                    status'[e] \in Open, composing'[e] \in {"enqueued", "done"},
                    row'[e] # "cancelled"
             PROVE  job'[e] \in Live \/ Reached(e, "removed")'
  BY DEF OpenInv
<1> DEFINE Goal == job'[e] \in Live \/ Reached(e, "removed")'
<1> USE DEF rows, queue, history, outside
<1>0. /\ TypeOK /\ JobInv /\ e \in Messages \ struck
      /\ \A m \in Messages : pc[m] # "idle" => job[m] = "active"
      /\ status \in [Messages -> MessageStatus \cup {"none"}]
      /\ composing \in [Messages -> {"idle", "checked", "created", "enqueued", "done"}]
      /\ row \in [Messages -> {"none", "pending", "cancelled"}]
      /\ job \in [Messages -> JobState] /\ pc \in [Messages -> WorkerPc]
      /\ request \in [Requests -> RequestState]
      /\ IdleRequest.pc = "idle"
      /\ \A r \in Requests : request[r].pc # "idle" => request[r].msg \in Messages
  BY RequestFields, StruckGrows DEF Inv, TypeOK, JobInv, IdleRequest
<1>a. status[e] \in Open /\ composing[e] \in {"enqueued", "done"} /\ row[e] # "cancelled"
        => job[e] \in Live \/ Reached(e, "removed")
  BY <1>0 DEF OpenInv
<1>b. ASSUME status'[e] = status[e], composing'[e] = composing[e], row'[e] = row[e],
             job[e] \in Live => job'[e] \in Live,
             \A r \in Requests : request[r].pc = "removed" =>
               request'[r].pc = "removed" /\ request'[r].msg = request[r].msg
      PROVE  Goal
  BY <1>a, <1>b, StillReached
<1>1. ASSUME NEW m \in Messages, Compose(m) PROVE Goal
  <2>1. CASE ComposeCheck(m) \/ ComposeCreate(m) \/ ComposeRecord(m)
    <3>1. /\ UNCHANGED <<job, request>>
          /\ e # m => status'[e] = status[e] /\ composing'[e] = composing[e] /\ row'[e] = row[e]
      BY <1>0, <2>1 DEF ComposeCheck, ComposeCreate, ComposeRecord, SetStatus
    <3>2. CASE e # m
      BY <1>b, <3>1, <3>2
    <3>3. CASE e = m
      <4>1. ComposeRecord(m)
        BY <1>0, <2>1, <3>3 DEF ComposeCheck, ComposeCreate
      <4>2. status[e] \in Open /\ composing[e] = "enqueued" /\ row[e] = "none"
        BY <3>3, <4>1 DEF ComposeRecord, OrderInv
      <4> QED
        BY <1>a, <3>1, <4>2, StillReached
    <3> QED
      BY <3>2, <3>3
  <2>2. CASE ComposeEnqueue(m)
    <3>1. job[m] = "none"
      BY <2>2 DEF ComposeEnqueue, OrderInv
    <3>2. \E s \in {"waiting", "delayed"} : job' = [job EXCEPT ![m] = s]
      BY <2>2, <3>1 DEF ComposeEnqueue, EnqueueSend, EnqueueScheduled, AddJob
    <3>3. CASE e = m
      BY <1>0, <3>2, <3>3 DEF Live
    <3>4. CASE e # m
      BY <1>0, <1>b, <2>2, <3>2, <3>4 DEF ComposeEnqueue
    <3> QED
      BY <3>3, <3>4
  <2>3. CASE ComposeAbort(m)
    <3>1. /\ UNCHANGED <<status, row, job, request>>
          /\ composing' = [composing EXCEPT ![m] = "done"]
          /\ composing[m] = "created" => m \in struck'
          /\ composing[m] \in {"created", "enqueued"}
      BY <2>3 DEF ComposeAbort, Strike
    <3>2. composing[e] \in {"enqueued", "done"}
      BY <1>0, <3>1
    <3> QED
      BY <1>a, <3>1, <3>2, StillReached
  <2> QED
    BY <1>1, <2>1, <2>2, <2>3 DEF Compose
<1>2. ASSUME NEW m \in Messages, WorkerStep(m) PROVE Goal
  <2>1. /\ UNCHANGED <<row, composing, request>>
        /\ job' = job \/ job' = [job EXCEPT ![m] = "delayed"]
        /\ job[m] = "active"
        /\ e # m => status'[e] = status[e]
    BY <1>0, <1>2, WorkerEffect
  <2>2. CASE e = m
    BY <1>0, <2>1, <2>2 DEF Live
  <2>3. CASE e # m
    BY <1>0, <1>b, <2>1, <2>3
  <2> QED
    BY <2>2, <2>3
<1>3. ASSUME NEW m \in Messages, QueueStep(m) PROVE Goal
  <2>1. /\ UNCHANGED <<status, row, composing, request>>
        /\ \E state \in JobState \ {"none"} : job' = [job EXCEPT ![m] = state]
    BY <1>3
    DEF QueueStep, Promote, Pick, StalledCheck, Complete, FailAttempt, JobState
  <2>2. CASE e = m
    <3>1. job'[e] \in JobState \ {"none"}
      BY <1>0, <2>1, <2>2
    <3>2. job'[e] \notin {"completed", "failed"}
      BY DEF EndInv
    <3> QED
      BY <3>1, <3>2 DEF JobState, Live
  <2>3. CASE e # m
    BY <1>0, <1>b, <2>1, <2>3
  <2> QED
    BY <2>2, <2>3
<1>4. ASSUME NEW r \in Requests, RequestStep(r) PROVE Goal
  <2>1. CASE RemoveJob(r)
    <3>1. /\ request[r].pc = "checked"
          /\ request' = [request EXCEPT ![r].pc = "removed"]
          /\ job' = [job EXCEPT ![request[r].msg] =
                       IF @ = "active" THEN "active" ELSE "none"]
          /\ UNCHANGED <<status, row, composing>>
      BY <2>1 DEF RemoveJob, CancelScheduled
    <3>2. request'[r].pc = "removed" /\ request'[r].msg = request[r].msg
      BY <1>0, <3>1 DEF RequestState, IdleRequest
    <3>3. CASE e = request[r].msg
      BY <3>2, <3>3 DEF Reached
    <3>4. CASE e # request[r].msg
      BY <1>0, <1>b, <3>1, <3>4
    <3> QED
      BY <3>3, <3>4
  <2>2. CASE RescheduleAdd(r)
    <3>1. /\ request[r].pc = "removed" /\ request[r].msg \in Messages
          /\ \A q \in Requests : q # r => request'[q] = request[q]
          /\ UNCHANGED <<status, row, composing>>
          /\ job' = [job EXCEPT ![request[r].msg] =
                       IF @ = "none" THEN "delayed" ELSE @]
      BY <1>0, <2>2 DEF RescheduleAdd, EnqueueScheduled, AddJob
    <3>2. CASE e = request[r].msg
      <4>1. job[e] \notin {"completed", "failed"}
        BY <3>1 DEF EndInv
      <4> QED
        BY <1>0, <3>1, <3>2, <4>1 DEF JobState, Live
    <3>3. CASE e # request[r].msg
      <4>1. job'[e] = job[e]
        BY <1>0, <3>1, <3>3
      <4>2. Reached(e, "removed") => Reached(e, "removed")'
        BY <3>1, <3>3 DEF Reached
      <4> QED
        BY <1>a, <3>1, <4>1, <4>2
    <3> QED
      BY <3>2, <3>3
  <2>3. CASE CancelMarkRow(r)
    <3>1. /\ request[r].pc = "removed" /\ request[r].msg \in Messages
          /\ \A q \in Requests : q # r => request'[q] = request[q]
          /\ UNCHANGED <<status, job, composing>>
          /\ row' = [row EXCEPT ![request[r].msg] = "cancelled"]
      BY <1>0, <2>3 DEF CancelMarkRow
    <3>2. e # request[r].msg /\ row'[e] = row[e]
      BY <1>0, <3>1
    <3>3. Reached(e, "removed") => Reached(e, "removed")'
      BY <3>1, <3>2 DEF Reached
    <3> QED
      BY <1>a, <3>1, <3>2, <3>3
  <2>4. CASE CancelMarkMessage(r) \/ RescheduleMarkRow(r)
    <3>1. /\ request[r].pc # "removed"
          /\ \A q \in Requests : q # r => request'[q] = request[q]
          /\ UNCHANGED <<row, job, composing>>
          /\ status'[e] = status[e]
      BY <1>0, <2>4
      DEF CancelMarkMessage, RescheduleMarkRow, MarkCancelled, SetStatus, Open
    <3> QED
      BY <1>b, <3>1
  <2>5. CASE RequestAbort(r)
    <3>1. /\ request[r].pc = "removed" => request[r].msg \in struck'
          /\ \A q \in Requests : q # r => request'[q] = request[q]
          /\ UNCHANGED <<status, row, job, composing>>
      BY <1>0, <2>5 DEF RequestAbort, Strike
    <3>2. Reached(e, "removed") => Reached(e, "removed")'
      BY <3>1 DEF Reached
    <3> QED
      BY <1>a, <3>1, <3>2
  <2> QED
    BY <1>4, <2>1, <2>2, <2>3, <2>4, <2>5 DEF RequestStep
<1>5. ASSUME NEW r \in Requests, NEW m \in Messages, CancelBegin(r, m) \/ RescheduleBegin(r, m)
      PROVE  Goal
  <2>1. /\ request[r].pc # "removed"
        /\ \A q \in Requests : q # r => request'[q] = request[q]
        /\ UNCHANGED <<status, row, job, composing>>
    BY <1>0, <1>5 DEF CancelBegin, RescheduleBegin, Begin
  <2> QED
    BY <1>b, <2>1
<1>6. ASSUME NEW m \in Messages, Bounce(m) \/ AssumeDelivered(m) PROVE Goal
  <2>1. /\ UNCHANGED <<row, job, composing, request>>
        /\ status'[e] = status[e]
    BY <1>0, <1>6 DEF Bounce, AssumeDelivered, SetStatus, Open
  <2> QED
    BY <1>b, <2>1
<1>7. CASE UNCHANGED <<status, row, job, composing, request>>
  BY <1>b, <1>7
<1> QED
  BY <1>1, <1>2, <1>3, <1>4, <1>5, <1>6, <1>7
  DEF Next, Crash, NewWindow, SetAccountStatus, vars

LEMMA CancelStep == Inv /\ OrderInv /\ CancelInv /\ [Next]_vars => CancelInv'
<1> SUFFICES ASSUME Inv, OrderInv, CancelInv, [Next]_vars,
                    NEW e \in Messages \ struck',
                    row'[e] = "cancelled", status'[e] = "scheduled"
             PROVE  Reached(e, "marked")'
  BY DEF CancelInv
<1> USE DEF rows, queue, history, outside
<1>0. /\ TypeOK /\ e \in Messages \ struck
      /\ status \in [Messages -> MessageStatus \cup {"none"}]
      /\ row \in [Messages -> {"none", "pending", "cancelled"}]
      /\ request \in [Requests -> RequestState]
      /\ IdleRequest.pc = "idle"
      /\ \A r \in Requests : request[r].pc # "idle" => request[r].msg \in Messages
  BY RequestFields, StruckGrows DEF Inv, TypeOK, IdleRequest
<1>a. row[e] = "cancelled" /\ status[e] = "scheduled" => Reached(e, "marked")
  BY <1>0 DEF CancelInv
<1>b. ASSUME row'[e] = row[e], status'[e] = status[e],
             \A r \in Requests : request[r].pc = "marked" =>
               request'[r].pc = "marked" /\ request'[r].msg = request[r].msg
      PROVE  Reached(e, "marked")'
  BY <1>a, <1>b, StillReached
<1>1. ASSUME NEW m \in Messages, Compose(m) PROVE Reached(e, "marked")'
  <2>1. CASE ComposeCreate(m)
    <3>1. e # m
      BY <1>0, <2>1 DEF ComposeCreate, OrderInv
    <3> QED
      BY <1>0, <1>b, <2>1, <3>1 DEF ComposeCreate, SetStatus
  <2>2. CASE ComposeRecord(m)
    <3>1. e # m
      BY <1>0, <2>2 DEF ComposeRecord
    <3> QED
      BY <1>0, <1>b, <2>2, <3>1 DEF ComposeRecord
  <2>3. CASE ComposeCheck(m) \/ ComposeEnqueue(m) \/ ComposeAbort(m)
    BY <1>b, <2>3 DEF ComposeCheck, ComposeEnqueue, ComposeAbort
  <2> QED
    BY <1>1, <2>1, <2>2, <2>3 DEF Compose
<1>2. ASSUME NEW m \in Messages, WorkerStep(m) PROVE Reached(e, "marked")'
  <2>1. UNCHANGED <<row, request>> /\ status'[e] = status[e]
    BY <1>0, <1>2, WorkerEffect DEF Inv
  <2> QED
    BY <1>b, <2>1
<1>3. ASSUME NEW m \in Messages, QueueStep(m) PROVE Reached(e, "marked")'
  <2>1. UNCHANGED <<row, status, request>>
    BY <1>3
    DEF QueueStep, Promote, Pick, StalledCheck, Complete, FailAttempt
  <2> QED
    BY <1>b, <2>1
<1>4. ASSUME NEW r \in Requests, RequestStep(r) PROVE Reached(e, "marked")'
  <2>1. CASE CancelMarkRow(r)
    <3>1. /\ request[r].pc = "removed" /\ request[r].msg \in Messages
          /\ request' = [request EXCEPT ![r].pc = "marked"]
          /\ row' = [row EXCEPT ![request[r].msg] = "cancelled"]
          /\ UNCHANGED status
      BY <1>0, <2>1 DEF CancelMarkRow
    <3>2. request'[r].pc = "marked" /\ request'[r].msg = request[r].msg
      BY <1>0, <3>1 DEF RequestState, IdleRequest
    <3>3. CASE e = request[r].msg
      BY <3>2, <3>3 DEF Reached
    <3>4. CASE e # request[r].msg
      BY <1>0, <1>b, <3>1, <3>4
    <3> QED
      BY <3>3, <3>4
  <2>2. CASE CancelMarkMessage(r)
    <3>1. /\ request[r].pc = "marked" /\ request[r].msg \in Messages
          /\ \A q \in Requests : q # r => request'[q] = request[q]
          /\ UNCHANGED row
          /\ status' = [status EXCEPT ![request[r].msg] =
                          IF @ = "scheduled" THEN "cancelled" ELSE @]
      BY <1>0, <2>2 DEF CancelMarkMessage, MarkCancelled, SetStatus
    <3>2. e # request[r].msg /\ status'[e] = status[e]
      BY <1>0, <3>1
    <3>3. Reached(e, "marked") => Reached(e, "marked")'
      BY <3>1, <3>2 DEF Reached
    <3> QED
      BY <1>a, <3>1, <3>2, <3>3
  <2>3. CASE RemoveJob(r) \/ RescheduleAdd(r) \/ RescheduleMarkRow(r)
    <3>1. /\ request[r].pc # "marked"
          /\ \A q \in Requests : q # r => request'[q] = request[q]
          /\ UNCHANGED <<row, status>>
      BY <1>0, <2>3 DEF RemoveJob, RescheduleAdd, RescheduleMarkRow
    <3> QED
      BY <1>b, <3>1
  <2>4. CASE RequestAbort(r)
    <3>1. /\ request[r].pc = "marked" => request[r].msg \in struck'
          /\ \A q \in Requests : q # r => request'[q] = request[q]
          /\ UNCHANGED <<row, status>>
      BY <1>0, <2>4 DEF RequestAbort, Strike
    <3>2. Reached(e, "marked") => Reached(e, "marked")'
      BY <3>1 DEF Reached
    <3> QED
      BY <1>a, <3>1, <3>2
  <2> QED
    BY <1>4, <2>1, <2>2, <2>3, <2>4 DEF RequestStep
<1>5. ASSUME NEW r \in Requests, NEW m \in Messages, CancelBegin(r, m) \/ RescheduleBegin(r, m)
      PROVE  Reached(e, "marked")'
  <2>1. /\ request[r].pc # "marked"
        /\ \A q \in Requests : q # r => request'[q] = request[q]
        /\ UNCHANGED <<status, row>>
    BY <1>0, <1>5 DEF CancelBegin, RescheduleBegin, Begin
  <2> QED
    BY <1>b, <2>1
<1>6. ASSUME NEW m \in Messages, Bounce(m) \/ AssumeDelivered(m) PROVE Reached(e, "marked")'
  <2>1. UNCHANGED <<row, request>> /\ status'[e] = status[e]
    BY <1>0, <1>6 DEF Bounce, AssumeDelivered, SetStatus
  <2> QED
    BY <1>b, <2>1
<1>7. CASE UNCHANGED <<status, row, request>>
  BY <1>b, <1>7
<1> QED
  BY <1>1, <1>2, <1>3, <1>4, <1>5, <1>6, <1>7
  DEF Next, Crash, NewWindow, SetAccountStatus, vars

LEMMA JobsInit == Init => JobsInv
  BY DEF Init, JobsInv, OrderInv, EndInv, OpenInv, CancelInv, Open,
         IdleRequest

LEMMA JobsHold == Spec => []JobsInv
<1>1. Inv /\ JobsInv /\ [Next]_vars => JobsInv'
  <2>1. Inv /\ JobsInv /\ [Next]_vars => OrderInv' /\ EndInv' /\ CancelInv'
    BY OrderStep, EndStep, CancelStep DEF JobsInv
  <2>2. Inv /\ JobsInv /\ [Next]_vars => OpenInv'
    BY <2>1, OpenStep DEF JobsInv
  <2> QED
    BY <2>1, <2>2 DEF JobsInv
<1> QED
  BY JobsInit, InvHolds, <1>1, PTL DEF Spec

(***************************************************************************)
(* A message that is still to be sent keeps a job, whatever the requests   *)
(* on its schedule, the worker, its crashes and the failing calls do in    *)
(* whatever order, unless one of the mishaps the history names struck it.  *)
(***************************************************************************)
THEOREM OpenMessagesHaveJobs == Spec => []OpenHasJob
<1>1. JobsInv => OpenHasJob
  BY DEF JobsInv, OpenInv, OpenHasJob, Reached, InFlight
<1> QED
  BY JobsHold, <1>1, PTL

(***************************************************************************)
(* Once cancel() has answered, its schedule has no message that waits for  *)
(* the date, unless the request failed in between.                         *)
(***************************************************************************)
THEOREM CancelledRowsSettle == Spec => []CancelledRowSettled
<1>1. JobsInv => CancelledRowSettled
  BY DEF JobsInv, CancelInv, CancelledRowSettled, Reached, InFlight
<1> QED
  BY JobsHold, <1>1, PTL

-----------------------------------------------------------------------------
(* The mishaps. *)

NothingStruck == struck = {}

LEMMA StruckStep ==
  ASSUME ~Faults, MaxCrashes <= MaxStalled
  PROVE  Inv /\ StallInv /\ NothingStruck /\ [Next]_vars => NothingStruck'
<1> SUFFICES ASSUME Inv, StallInv, NothingStruck, [Next]_vars PROVE NothingStruck'
  OBVIOUS
<1> USE DEF NothingStruck, rows, queue, history, outside
<1>1. ASSUME NEW m \in Messages, Compose(m) PROVE NothingStruck'
  BY <1>1
  DEF Compose, ComposeCheck, ComposeCreate, ComposeEnqueue, ComposeRecord,
      ComposeAbort
<1>2. ASSUME NEW m \in Messages, WorkerStep(m) PROVE NothingStruck'
  BY <1>2
  DEF WorkerStep, Load, CheckAccount, RejectInactive, DeferForQuota, Clear,
      StartSending, Transmit, Record, Catch, HandlerFault
<1>3. ASSUME NEW m \in Messages, QueueStep(m) PROVE NothingStruck'
  <2>1. StalledCheck(m) => stalls[m] < MaxStalled
    BY ConstantsAssumption DEF StalledCheck, StallInv, Inv, TypeOK
  <2> QED
    BY <1>3, <2>1
    DEF QueueStep, Promote, Pick, StalledCheck, Complete, FailAttempt
<1>4. ASSUME NEW r \in Requests, RequestStep(r) PROVE NothingStruck'
  BY <1>4
  DEF RequestStep, RemoveJob, CancelMarkRow, CancelMarkMessage, RescheduleAdd,
      RescheduleMarkRow, RequestAbort
<1> QED
  BY <1>1, <1>2, <1>3, <1>4
  DEF Next, CancelBegin, RescheduleBegin, Begin, Crash, Bounce,
      AssumeDelivered, NewWindow, SetAccountStatus, vars

(***************************************************************************)
(* As long as no call fails, and the worker crashes no more often than the *)
(* queue forgives a stalled job, nothing is struck: every open message     *)
(* keeps its job and every cancelled schedule its mark.                    *)
(***************************************************************************)
THEOREM NothingIsStruck ==
  ASSUME ~Faults, MaxCrashes <= MaxStalled
  PROVE  Spec => []NothingStruck
<1>1. Init => StallInv /\ NothingStruck
  BY DEF Init, StallInv, NothingStruck
<1>2. Inv /\ StallInv /\ NothingStruck /\ [Next]_vars => StallInv' /\ NothingStruck'
  BY StallStep, StruckStep
<1> QED
  BY InvHolds, <1>1, <1>2, PTL DEF Spec
-----------------------------------------------------------------------------
(* How often a message is mailed. *)

(* The runs the job of m still has.  A run is spent once it has asked the  *)
(* SMTP server, or when its worker is gone.                                *)
Spent(m) ==
  job[m] = "active"
    /\ pc[m] \in {"idle", "recording", "catching", "returning", "throwing"}

Left(m) ==
  IF job[m] \in Live
    THEN (MaxAttempts - made[m]) + (MaxStalled - stalls[m])
           - (IF Spent(m) THEN 1 ELSE 0)
    ELSE 0

(***************************************************************************)
(* The inductive invariant: what a mailed message has used, what its job   *)
(* still has, and what the pending requests may add.  A request checks the *)
(* status, and so begins only before the first mail.                       *)
(***************************************************************************)
Budget == Runs * (1 + Cardinality(Requests))

Within(m) ==
  accepted[m] > 0 =>
    /\ composing[m] \in {"enqueued", "done"}
    /\ accepted[m] + Left(m) + Runs * Cardinality(Pending(m)) <= Budget

MailInv == \A m \in Messages : Within(m)

LEMMA Products ==
  ASSUME NEW k \in Nat, NEW a \in Nat, NEW b \in Nat, a <= b
  PROVE  k * a \in Nat /\ k * b \in Nat /\ k * a <= k * b /\ k * (1 + b) = k + k * b
<1>1. PICK d \in Nat : b = a + d
  <2>1. b - a \in Nat /\ b = a + (b - a)
    OBVIOUS
  <2> QED
    BY <2>1
<1>2. \A x \in Nat : k * x \in Nat
  OBVIOUS
<1>3. k * b = k * a + k * d /\ k * (1 + b) = k + k * b
  BY <1>1
<1> QED
  BY <1>2, <1>3

LEMMA LeftRange == Inv => \A m \in Messages : Left(m) \in 0..Runs
  BY ConstantsAssumption
  DEF Inv, TypeOK, JobInv, JobState, Live, Left, Spent, Runs

LEMMA NextLeftRange == Inv' => \A m \in Messages : Left(m)' \in 0..Runs
  BY ConstantsAssumption
  DEF Inv, TypeOK, JobInv, JobState, Live, Left, Spent, Runs

LEMMA PendingSize ==
  ASSUME IsFiniteSet(Requests), NEW S \in SUBSET Requests
  PROVE  /\ IsFiniteSet(S) /\ Cardinality(S) \in Nat
         /\ Cardinality(S) <= Cardinality(Requests)
  BY FS_Subset, FS_CardinalityType

(* A step that mails nothing, and gives neither runs nor requests.         *)
LEMMA WithinShrinks ==
  ASSUME IsFiniteSet(Requests), Inv, Inv', NEW e \in Messages, Within(e),
         accepted'[e] = accepted[e],
         composing[e] \in {"enqueued", "done"} => composing'[e] \in {"enqueued", "done"},
         Left(e)' <= Left(e),
         Pending(e)' \subseteq Pending(e)
  PROVE  Within(e)'
<1>1. /\ Cardinality(Pending(e)) \in Nat /\ Cardinality(Pending(e)') \in Nat
      /\ Cardinality(Pending(e)') <= Cardinality(Pending(e))
  <2>1. Pending(e) \in SUBSET Requests
    BY DEF Pending
  <2>2. IsFiniteSet(Pending(e)) /\ Cardinality(Pending(e)) \in Nat
    BY <2>1, PendingSize
  <2> QED
    BY <2>2, FS_Subset, FS_CardinalityType
<1>2. Runs \in Nat /\ Left(e) \in 0..Runs /\ Left(e)' \in 0..Runs
  BY LeftRange, NextLeftRange, ConstantsAssumption DEF Runs
<1>3. Runs * Cardinality(Pending(e)') <= Runs * Cardinality(Pending(e))
  BY <1>1, <1>2, Products
<1>4. Runs * Cardinality(Pending(e)') \in Nat /\ Runs * Cardinality(Pending(e)) \in Nat
  BY <1>1, <1>2, Products
<1>5. Budget \in Nat /\ accepted[e] \in Nat
  <2>1. Cardinality(Requests) \in Nat
    BY FS_CardinalityType
  <2>2. 1 + Cardinality(Requests) \in Nat
    BY <2>1
  <2> QED
    BY <1>2, <2>2, Products DEF Budget, Inv, TypeOK
<1> HIDE DEF Left, Pending, Budget
<1>6. ASSUME accepted'[e] > 0
      PROVE  accepted'[e] + Left(e)' + Runs * Cardinality(Pending(e)') <= Budget
  <2>1. accepted[e] + Left(e) + Runs * Cardinality(Pending(e)) <= Budget
    BY <1>6 DEF Within
  <2> QED
    BY <1>2, <1>3, <1>4, <1>5, <2>1
<1> QED
  BY <1>6 DEF Within, Budget

(* sendMail uses the run up.                                               *)
LEMMA TransmitWithin ==
  ASSUME IsFiniteSet(Requests), Inv, Inv', OrderInv, NEW e \in Messages,
         Within(e), Transmit(e)
  PROVE  Within(e)'
<1>1. /\ UNCHANGED <<job, made, stalls, composing, request>>
      /\ pc[e] = "transmitting" /\ pc'[e] \in {"recording", "catching"}
      /\ job[e] = "active" /\ composing[e] \in {"enqueued", "done"}
      /\ accepted'[e] \in {accepted[e], accepted[e] + 1}
  BY DEF Transmit, Goto, queue, outside, Inv, TypeOK, JobInv, OrderInv
<1>2. Left(e)' = Left(e) - 1
  BY <1>1, ConstantsAssumption DEF Left, Spent, Live, Inv, TypeOK
<1>3. Pending(e)' = Pending(e) /\ Pending(e) \in SUBSET Requests
  BY <1>1 DEF Pending
<1>4. /\ Cardinality(Pending(e)) \in Nat /\ Cardinality(Requests) \in Nat
      /\ Cardinality(Pending(e)) <= Cardinality(Requests)
  BY <1>3, PendingSize, FS_CardinalityType
<1>5. Runs \in Nat /\ Left(e) \in 0..Runs /\ Left(e)' \in 0..Runs
  BY LeftRange, NextLeftRange, ConstantsAssumption DEF Runs
<1>6. /\ Runs * Cardinality(Pending(e)) \in Nat
      /\ Runs * Cardinality(Requests) \in Nat
      /\ Runs * Cardinality(Pending(e)) <= Runs * Cardinality(Requests)
      /\ Budget = Runs + Runs * Cardinality(Requests)
  BY <1>4, <1>5, Products DEF Budget
<1>7. accepted[e] \in Nat
  BY DEF Inv, TypeOK
<1>8. accepted[e] + 1 + Left(e)' + Runs * Cardinality(Pending(e)) <= Budget
  <2>1. CASE accepted[e] = 0
    BY <1>2, <1>5, <1>6, <2>1
  <2>2. CASE accepted[e] > 0
    <3>1. accepted[e] + Left(e) + Runs * Cardinality(Pending(e)) <= Budget
      BY <2>2 DEF Within
    <3> QED
      BY <1>2, <1>5, <1>6, <1>7, <3>1
  <2> QED
    BY <1>7, <2>1, <2>2
<1>9. accepted'[e] + Left(e)' + Runs * Cardinality(Pending(e)') <= Budget
  BY <1>1, <1>3, <1>5, <1>6, <1>7, <1>8
<1> QED
  BY <1>1, <1>9 DEF Within, Budget

(* A new job for the message of a request, which is pending no more.       *)
LEMMA RescheduleWithin ==
  ASSUME IsFiniteSet(Requests), Inv, Inv', NEW r \in Requests, RescheduleAdd(r),
         NEW e \in Messages, request[r].msg = e, Within(e)
  PROVE  Within(e)'
<1>1. /\ UNCHANGED <<accepted, composing, pc>>
      /\ request[r].pc = "removed" /\ request[r].op = "reschedule"
      /\ request' = [request EXCEPT ![r].pc = "added"]
  BY DEF RescheduleAdd, history, outside
<1>2. r \in Pending(e) /\ Pending(e)' = Pending(e) \ {r} /\ Pending(e) \in SUBSET Requests
  BY <1>1 DEF Pending, Inv, TypeOK, RequestState, IdleRequest
<1>3. IsFiniteSet(Pending(e)) /\ Cardinality(Pending(e)) \in Nat
  BY <1>2, PendingSize
<1>4. /\ Cardinality(Pending(e)') \in Nat
      /\ Cardinality(Pending(e)) = 1 + Cardinality(Pending(e)')
  <2>1. /\ IsFiniteSet(Pending(e)')
        /\ Cardinality(Pending(e)') = Cardinality(Pending(e)) - 1
    BY <1>2, <1>3, FS_RemoveElement
  <2> QED
    BY <1>3, <2>1, FS_CardinalityType
<1>5. Runs \in Nat /\ Left(e) \in 0..Runs /\ Left(e)' \in 0..Runs
  BY LeftRange, NextLeftRange, ConstantsAssumption DEF Runs
<1>6. /\ Runs * Cardinality(Pending(e)) = Runs + Runs * Cardinality(Pending(e)')
      /\ Runs * Cardinality(Pending(e)') \in Nat
  BY <1>4, <1>5, Products
<1>7. Budget \in Nat /\ accepted[e] \in Nat
  <2>1. 1 + Cardinality(Requests) \in Nat
    BY FS_CardinalityType
  <2> QED
    BY <1>5, <2>1, Products DEF Budget, Inv, TypeOK
<1>8. ASSUME accepted[e] > 0
      PROVE  accepted[e] + Left(e)' + Runs * Cardinality(Pending(e)') <= Budget
  <2>1. accepted[e] + Left(e) + Runs * Cardinality(Pending(e)) <= Budget
    BY <1>8 DEF Within
  <2> QED
    BY <1>5, <1>6, <1>7, <2>1
<1> QED
  BY <1>1, <1>8 DEF Within, Budget

LEMMA MailStep ==
  ASSUME IsFiniteSet(Requests)
  PROVE  Inv /\ Inv' /\ OrderInv /\ MailInv /\ [Next]_vars => MailInv'
<1> SUFFICES ASSUME Inv, Inv', OrderInv, MailInv, [Next]_vars, NEW e \in Messages
             PROVE  Within(e)'
  BY DEF MailInv
<1> USE DEF rows, queue, history, outside
<1>0. /\ Within(e) /\ TypeOK /\ JobInv
      /\ job \in [Messages -> JobState] /\ pc \in [Messages -> WorkerPc]
      /\ made \in [Messages -> 0..MaxAttempts] /\ stalls \in [Messages -> 0..MaxStalled]
      /\ accepted \in [Messages -> Nat]
      /\ MaxAttempts \in Nat /\ MaxStalled \in Nat
      /\ pc[e] # "idle" => job[e] = "active"
      /\ job[e] \in Live => made[e] < MaxAttempts
  BY ConstantsAssumption DEF MailInv, Inv, TypeOK, JobInv
<1>a. UNCHANGED request => Pending(e)' = Pending(e)
  BY DEF Pending
<1>b. ASSUME accepted'[e] = accepted[e], Pending(e)' \subseteq Pending(e),
             composing'[e] = composing[e],
             job'[e] = job[e], made'[e] = made[e], stalls'[e] = stalls[e],
             pc'[e] = pc[e]
      PROVE  Within(e)'
  <2>1. Left(e)' = Left(e) /\ Left(e) \in 0..Runs
    BY <1>b, LeftRange DEF Left, Spent
  <2>2. Left(e)' <= Left(e)
    BY <2>1, ConstantsAssumption DEF Runs
  <2> QED
    BY <1>0, <1>b, <2>2, WithinShrinks
<1>1. ASSUME NEW m \in Messages, Compose(m) PROVE Within(e)'
  <2>1. /\ UNCHANGED <<accepted, pc, request>>
        /\ Pending(e)' = Pending(e)
    BY <1>1, <1>a
    DEF Compose, ComposeCheck, ComposeCreate, ComposeEnqueue, ComposeRecord,
        ComposeAbort
  <2>2. CASE ComposeEnqueue(m) /\ e = m
    BY <1>0, <2>1, <2>2 DEF ComposeEnqueue, Within
  <2>3. CASE ComposeEnqueue(m) /\ e # m
    BY <1>0, <1>b, <2>1, <2>3
    DEF ComposeEnqueue, EnqueueSend, EnqueueScheduled, AddJob, TypeOK
  <2>4. CASE ~ComposeEnqueue(m)
    <3>1. /\ UNCHANGED queue
          /\ composing[e] \in {"enqueued", "done"} => composing'[e] \in {"enqueued", "done"}
      BY <1>0, <1>1, <2>4
      DEF Compose, ComposeCheck, ComposeCreate, ComposeRecord, ComposeAbort, TypeOK
    <3>2. Left(e)' = Left(e) /\ Left(e) \in 0..Runs
      BY <2>1, <3>1, LeftRange DEF Left, Spent
    <3>3. Left(e)' <= Left(e)
      BY <3>2, ConstantsAssumption DEF Runs
    <3> QED
      BY <1>0, <2>1, <3>1, <3>3, WithinShrinks
  <2> QED
    BY <2>2, <2>3, <2>4
<1>2. ASSUME NEW m \in Messages, WorkerStep(m) PROVE Within(e)'
  <2>1. UNCHANGED <<made, stalls, composing, request>> /\ Pending(e)' = Pending(e)
    BY <1>0, <1>2, <1>a, WorkerEffect
  <2>2. CASE e # m
    <3>1. accepted'[e] = accepted[e]
      BY <1>0, <1>2, <2>2
      DEF WorkerStep, Load, CheckAccount, RejectInactive, DeferForQuota, Clear,
          StartSending, Transmit, Record, Catch, HandlerFault
    <3>2. job'[e] = job[e] /\ pc'[e] = pc[e]
      BY <1>0, <1>2, <2>2, WorkerEffect
    <3> QED
      BY <1>b, <2>1, <3>1, <3>2
  <2>3. CASE e = m /\ Transmit(e)
    BY <1>0, <2>3, TransmitWithin
  <2>4. CASE e = m /\ ~Transmit(e)
    <3>1. UNCHANGED accepted /\ job[e] = "active"
      BY <1>0, <1>2, <2>4, WorkerEffect
      DEF WorkerStep, Load, CheckAccount, RejectInactive, DeferForQuota, Clear,
          StartSending, Record, Catch, HandlerFault
    <3>2. /\ job'[e] \in Live
          /\ Spent(e) => Spent(e)'
      BY <1>0, <1>2, <2>4, <3>1
      DEF WorkerStep, Load, CheckAccount, RejectInactive, DeferForQuota, Clear,
          StartSending, Record, Catch, HandlerFault, Goto, Spent, Live
    <3>3. Left(e)' <= Left(e)
      <4>1. job[e] \in Live /\ Left(e) \in 0..Runs
        BY <3>1, LeftRange DEF Live
      <4>2. made'[e] = made[e] /\ stalls'[e] = stalls[e]
        BY <2>1
      <4>3. /\ made[e] \in 0..MaxAttempts /\ stalls[e] \in 0..MaxStalled
        BY <1>0
      <4> HIDE DEF Live, Spent
      <4> QED
        BY <1>0, <3>2, <4>1, <4>2, <4>3 DEF Left
    <3> QED
      BY <1>0, <2>1, <3>1, <3>3, WithinShrinks
  <2> QED
    BY <1>2, <2>2, <2>3, <2>4
<1>3. ASSUME NEW m \in Messages, QueueStep(m) PROVE Within(e)'
  <2>1. UNCHANGED <<accepted, composing, request>> /\ Pending(e)' = Pending(e)
    BY <1>3, <1>a
    DEF QueueStep, Promote, Pick, StalledCheck, Complete, FailAttempt
  <2>2. CASE e # m
    BY <1>0, <1>3, <1>b, <2>1, <2>2
    DEF QueueStep, Promote, Pick, StalledCheck, Complete, FailAttempt
  <2>3. CASE e = m
    <3>1. Left(e)' <= Left(e)
      <4>1. CASE Promote(e) \/ Pick(e)
        BY <1>0, <4>1 DEF Promote, Pick, Left, Spent, Live
      <4>2. CASE StalledCheck(e)
        BY <1>0, <4>2 DEF StalledCheck, Left, Spent, Live
      <4>3. CASE Complete(e)
        BY <1>0, <4>3 DEF Complete, Left, Spent, Live
      <4>4. CASE FailAttempt(e)
        BY <1>0, <4>4 DEF FailAttempt, Left, Spent, Live
      <4> QED
        BY <1>3, <2>3, <4>1, <4>2, <4>3, <4>4 DEF QueueStep
    <3> QED
      BY <1>0, <2>1, <3>1, WithinShrinks
  <2> QED
    BY <2>2, <2>3
<1>4. ASSUME NEW r \in Requests, RequestStep(r) PROVE Within(e)'
  <2>1. UNCHANGED <<accepted, composing, pc>>
    BY <1>4
    DEF RequestStep, RemoveJob, CancelMarkRow, CancelMarkMessage, RescheduleAdd,
        RescheduleMarkRow, RequestAbort
  <2>2. CASE RescheduleAdd(r) /\ request[r].msg = e
    BY <1>0, <2>2, RescheduleWithin
  <2>3. CASE RescheduleAdd(r) /\ request[r].msg # e
    <3>1. request[r].msg \in Messages /\ Pending(e)' \subseteq Pending(e)
      BY <1>0, <2>3, RequestFields DEF RescheduleAdd, Pending, TypeOK, RequestState, IdleRequest
    <3>2. job'[e] = job[e] /\ made'[e] = made[e] /\ stalls'[e] = stalls[e]
      BY <1>0, <2>3, <3>1 DEF RescheduleAdd, EnqueueScheduled, AddJob
    <3> QED
      BY <1>b, <2>1, <3>1, <3>2
  <2>4. CASE RemoveJob(r)
    <3>1. Pending(e)' \subseteq Pending(e)
      BY <1>0, <2>4 DEF RemoveJob, Pending, TypeOK, RequestState, IdleRequest
    <3>2. UNCHANGED <<made, stalls>> /\ (job'[e] = job[e] \/ job'[e] = "none")
      BY <1>0, <2>4 DEF RemoveJob, CancelScheduled
    <3>3. Left(e)' <= Left(e)
      <4>1. CASE job'[e] = job[e]
        BY <1>0, <2>1, <3>2, <4>1 DEF Left, Spent, Live
      <4>2. CASE job'[e] = "none"
        BY <1>0, <4>2, LeftRange, ConstantsAssumption DEF Left, Live, Runs
      <4> QED
        BY <3>2, <4>1, <4>2
    <3> QED
      BY <1>0, <2>1, <3>1, <3>3, WithinShrinks
  <2>5. CASE CancelMarkRow(r) \/ CancelMarkMessage(r) \/ RescheduleMarkRow(r) \/ RequestAbort(r)
    <3>1. Pending(e)' \subseteq Pending(e)
      BY <1>0, <2>5
      DEF CancelMarkRow, CancelMarkMessage, RescheduleMarkRow, RequestAbort,
          Pending, TypeOK, RequestState, IdleRequest
    <3>2. UNCHANGED queue
      BY <2>5 DEF CancelMarkRow, CancelMarkMessage, RescheduleMarkRow, RequestAbort
    <3> QED
      BY <1>b, <2>1, <3>1, <3>2
  <2> QED
    BY <1>4, <2>2, <2>3, <2>4, <2>5 DEF RequestStep
<1>5. ASSUME NEW r \in Requests, NEW m \in Messages, CancelBegin(r, m) \/ RescheduleBegin(r, m)
      PROVE  Within(e)'
  <2>1. UNCHANGED <<queue, accepted, composing, pc>>
    BY <1>5 DEF CancelBegin, RescheduleBegin, Begin
  <2>2. CASE e = m
    <3>1. accepted[e] = 0
      BY <1>5, <2>2 DEF CancelBegin, RescheduleBegin, Begin, Inv, CountInv
    <3> QED
      BY <2>1, <3>1 DEF Within
  <2>3. CASE e # m
    <3>1. Pending(e)' \subseteq Pending(e)
      BY <1>0, <1>5, <2>3 DEF CancelBegin, RescheduleBegin, Begin, Pending, TypeOK
    <3> QED
      BY <1>b, <2>1, <3>1
  <2> QED
    BY <2>2, <2>3
<1>6. CASE Crash
  <2>1. UNCHANGED <<queue, accepted, composing, request>> /\ pc'[e] = "idle"
    BY <1>6 DEF Crash
  <2>2. Left(e)' <= Left(e)
    BY <1>0, <2>1 DEF Left, Spent, Live
  <2> QED
    BY <1>0, <1>a, <2>1, <2>2, WithinShrinks
<1>7. CASE UNCHANGED <<queue, accepted, composing, request, pc>>
  BY <1>a, <1>b, <1>7
<1> QED
  BY <1>1, <1>2, <1>3, <1>4, <1>5, <1>6, <1>7
  DEF Next, Bounce, AssumeDelivered, NewWindow, SetAccountStatus, vars

(***************************************************************************)
(* However attempts, stalls, crashes and reschedules meet, a message is    *)
(* mailed at most once in each run of a job: MaxAttempts + MaxStalled      *)
(* times, and as often again for each reschedule that had checked it       *)
(* before the first mail; those still to add a job have their share left.  *)
(***************************************************************************)
THEOREM MailsAreBounded ==
  ASSUME IsFiniteSet(Requests)
  PROVE  Spec => []MailsBound
<1>1. Init => OrderInv /\ MailInv
  BY DEF Init, OrderInv, MailInv, Within, IdleRequest
<1>2. Inv /\ Inv' /\ OrderInv /\ MailInv /\ [Next]_vars => OrderInv' /\ MailInv'
  BY OrderStep, MailStep
<1>3. Inv /\ MailInv => MailsBound
  <2> SUFFICES ASSUME Inv, MailInv, NEW m \in Messages, accepted[m] > 0
               PROVE  accepted[m] + Runs * Cardinality(Pending(m)) <= Budget
    BY DEF MailsBound, Budget
  <2>1. Runs \in Nat /\ Left(m) \in 0..Runs /\ accepted[m] \in Nat
    BY LeftRange, ConstantsAssumption DEF Runs, Inv, TypeOK
  <2>2. /\ Cardinality(Pending(m)) \in Nat /\ 1 + Cardinality(Requests) \in Nat
    BY PendingSize, FS_CardinalityType DEF Pending
  <2>3. Runs * Cardinality(Pending(m)) \in Nat /\ Budget \in Nat
    BY <2>1, <2>2, Products DEF Budget
  <2>4. accepted[m] > 0 => accepted[m] + Left(m) + Runs * Cardinality(Pending(m)) <= Budget
    BY DEF MailInv, Within
  <2> QED
    BY <2>1, <2>3, <2>4
<1> QED
  BY InvHolds, <1>1, <1>2, <1>3, PTL DEF Spec
=============================================================================
