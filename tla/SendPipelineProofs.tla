------------------------- MODULE SendPipelineProofs -------------------------
(* Proofs about the send pipeline, for any number of messages, requests,   *)
(* dates, attempts, stalls, workers and crashes, with and without faults.  *)
EXTENDS SendOutbox, TLAPS

(***************************************************************************)
(* The inductive invariant.                                                *)
(***************************************************************************)

(* A handler runs only for an active job, and a job that may still run has *)
(* attempts left.                                                          *)
JobInv ==
  \A m \in Messages :
    /\ pc[m] # "idle" => job[m] = "active"
    /\ job[m] \in Live => made[m] < MaxAttempts

(* Nothing refers to a message before compose has created it.              *)
UnbornInv ==
  /\ \A m \in Messages :
       /\ composing[m] \in {"idle", "checked"} => status[m] = "none"
       /\ status[m] = "none" =>
            /\ composing[m] \in {"idle", "checked"}
            /\ row[m] = "none"
            /\ job[m] = "none"
            /\ accepted[m] = 0
  /\ \A r \in Requests :
       request[r] # IdleRequest => status[request[r].msg] # "none"

(* The guard at the head of the handler stays true until markSent: only    *)
(* the handler itself could make it false.                                 *)
HandlerInv ==
  \A m \in Messages :
    /\ pc[m] \in {"checking", "rejecting", "metering", "cleared"} => status[m] \notin {"sent", "delivered"}
    /\ pc[m] \in InTry => status[m] \in {"sending", "bounced"}
    /\ pc[m] = "recording" => recorded[m] < accepted[m]

(* How often the mail went out, by what the status says.                   *)
CountInv ==
  \A m \in Messages :
    /\ recorded[m] <= accepted[m]
    /\ status[m] \in {"scheduled", "cancelled"} => accepted[m] = 0
    /\ status[m] = "bounced" => accepted[m] >= 1
    /\ status[m] \in {"sent", "delivered"}
         => recorded[m] >= 1 /\ recorded[m] <= 1 + bounces[m]
    /\ status[m] \notin {"sent", "delivered"} => recorded[m] <= bounces[m]

Inv == TypeOK /\ JobInv /\ UnbornInv /\ HandlerInv /\ CountInv

-----------------------------------------------------------------------------
LEMMA InitInv == Init => Inv
  BY ConstantsAssumption
  DEF Init, Inv, TypeOK, JobInv, UnbornInv, HandlerInv, CountInv, JobState,
      WorkerPc, MessageStatus, RequestState, IdleRequest, Live, InTry

(* What the steps of a request know of the request they advance.           *)
LEMMA RequestFields ==
  ASSUME TypeOK, NEW r \in Requests, request[r].pc # "idle"
  PROVE  /\ request[r].msg \in Messages
         /\ request[r].at \in Dates \cup {NoDate}
         /\ request[r] # IdleRequest
         /\ request[r].op = "cancel" => request[r].at = NoDate
         /\ request[r].op = "reschedule" => request[r].at \in Dates
  BY DEF TypeOK, RequestState, IdleRequest

(* What enqueuing leaves of the queue's types.                             *)
LEMMA AddJobType ==
  ASSUME TypeOK, NEW m \in Messages, NEW state \in JobState,
         NEW d \in Dates \cup {NoDate}, AddJob(m, state, d)
  PROVE  /\ job' \in [Messages -> JobState]
         /\ jobAt' \in [Messages -> Dates \cup {NoDate}]
         /\ made' \in [Messages -> 0..MaxAttempts]
         /\ stalls' \in [Messages -> 0..MaxStalled]
<1>1. 0 \in 0..MaxAttempts /\ 0 \in 0..MaxStalled
  BY ConstantsAssumption
<1>2. CASE job[m] = "none"
  BY <1>1, <1>2 DEF AddJob, TypeOK
<1>3. CASE job[m] # "none"
  BY <1>3 DEF AddJob, queue, TypeOK
<1> QED
  BY <1>2, <1>3

LEMMA TypeStep == Inv /\ [Next]_vars => TypeOK'
<1> SUFFICES ASSUME Inv, [Next]_vars PROVE TypeOK'
  OBVIOUS
<1> USE ConstantsAssumption DEF Inv, rows, queue, history, outside, TypeOK, JobInv, JobState, WorkerPc, MessageStatus, RequestState, IdleRequest, Live
<1>1. ASSUME NEW m \in Messages, ComposeCreate(m) PROVE TypeOK'
  BY <1>1 DEF ComposeCreate, SetStatus
<1>2. ASSUME NEW m \in Messages, ComposeEnqueue(m) PROVE TypeOK'
  BY <1>2 DEF ComposeEnqueue, EnqueueSend, EnqueueScheduled, AddJob
<1>3. ASSUME NEW m \in Messages, ComposeRecord(m) PROVE TypeOK'
  BY <1>3 DEF ComposeRecord
<1>4. ASSUME NEW m \in Messages, ComposeAbort(m) PROVE TypeOK'
  BY <1>4 DEF ComposeAbort, Strike
<1>5. ASSUME NEW m \in Messages, Load(m) PROVE TypeOK'
  BY <1>5 DEF Load, Goto
<1>6. ASSUME NEW m \in Messages, RejectInactive(m) PROVE TypeOK'
  BY <1>6 DEF RejectInactive, MarkFailed, SetStatus, Goto
<1>7. ASSUME NEW m \in Messages, DeferForQuota(m) PROVE TypeOK'
  BY <1>7 DEF DeferForQuota, Goto
<1>8. ASSUME NEW m \in Messages, Clear(m) PROVE TypeOK'
  BY <1>8 DEF Clear, Goto
<1>9. ASSUME NEW m \in Messages, StartSending(m) PROVE TypeOK'
  BY <1>9 DEF StartSending, MarkSending, SetStatus, Goto
<1>10. ASSUME NEW m \in Messages, Transmit(m) PROVE TypeOK'
  BY <1>10 DEF Transmit, Goto
<1>11. ASSUME NEW m \in Messages, Record(m) PROVE TypeOK'
  BY <1>11 DEF Record, MarkSent, SetStatus, Goto
<1>12. ASSUME NEW m \in Messages, Catch(m) PROVE TypeOK'
  BY <1>12 DEF Catch, MarkFailed, MarkQueued, SetStatus, Goto
<1>13. ASSUME NEW m \in Messages, HandlerFault(m) PROVE TypeOK'
  BY <1>13 DEF HandlerFault, Goto, Strike
<1>14. ASSUME NEW m \in Messages, Promote(m) PROVE TypeOK'
  BY <1>14 DEF Promote
<1>15. ASSUME NEW m \in Messages, Pick(m) PROVE TypeOK'
  BY <1>15 DEF Pick
<1>16. ASSUME NEW m \in Messages, StalledCheck(m) PROVE TypeOK'
  BY <1>16 DEF StalledCheck, Strike
<1>17. ASSUME NEW m \in Messages, Complete(m) PROVE TypeOK'
  BY <1>17 DEF Complete
<1>18. ASSUME NEW m \in Messages, FailAttempt(m) PROVE TypeOK'
  BY <1>18 DEF FailAttempt
<1>19. ASSUME NEW m \in Messages, Bounce(m) PROVE TypeOK'
  BY <1>19 DEF Bounce, SetStatus
<1>20. ASSUME NEW m \in Messages, AssumeDelivered(m) PROVE TypeOK'
  BY <1>20 DEF AssumeDelivered, SetStatus
<1>21. ASSUME NEW r \in Requests, NEW m \in Messages, CancelBegin(r, m) PROVE TypeOK'
  BY <1>21 DEF CancelBegin, Begin
<1>22. ASSUME NEW r \in Requests, NEW m \in Messages, RescheduleBegin(r, m) PROVE TypeOK'
  BY <1>22 DEF RescheduleBegin, Begin
<1>23. ASSUME NEW r \in Requests, RemoveJob(r) PROVE TypeOK'
  BY RequestFields, <1>23 DEF RemoveJob, CancelScheduled
<1>24. ASSUME NEW r \in Requests, CancelMarkRow(r) PROVE TypeOK'
  BY RequestFields, <1>24 DEF CancelMarkRow
<1>25. ASSUME NEW r \in Requests, CancelMarkMessage(r) PROVE TypeOK'
  BY RequestFields, <1>25 DEF CancelMarkMessage, MarkCancelled, SetStatus
<1>26. ASSUME NEW r \in Requests, RescheduleAdd(r) PROVE TypeOK'
  <2>1. /\ request[r] \in RequestState
        /\ request[r].pc = "removed"
        /\ request[r].op = "reschedule"
    BY <1>26 DEF RescheduleAdd
  <2>2. [request[r] EXCEPT !.pc = "added"] \in RequestState
    BY <2>1
  <2>3. request' \in [Requests -> RequestState]
    BY <1>26, <2>2 DEF RescheduleAdd
  <2>4. /\ job' \in [Messages -> JobState]
        /\ jobAt' \in [Messages -> Dates \cup {NoDate}]
        /\ made' \in [Messages -> 0..MaxAttempts]
        /\ stalls' \in [Messages -> 0..MaxStalled]
    <3>1. request[r].msg \in Messages /\ request[r].at \in Dates \cup {NoDate}
      BY RequestFields, <2>1
    <3>2. AddJob(request[r].msg, "delayed", request[r].at)
      BY <1>26 DEF RescheduleAdd, EnqueueScheduled
    <3> QED
      BY <3>1, <3>2, AddJobType DEF JobState
  <2> QED
    BY <1>26, <2>3, <2>4 DEF RescheduleAdd
<1>27. ASSUME NEW r \in Requests, RescheduleMarkRow(r) PROVE TypeOK'
  BY RequestFields, <1>27 DEF RescheduleMarkRow
<1>28. ASSUME NEW r \in Requests, RequestAbort(r) PROVE TypeOK'
  BY RequestFields, <1>28 DEF RequestAbort, Strike
<1>29. ASSUME Crash PROVE TypeOK'
  BY <1>29 DEF Crash
<1>30. ASSUME NewWindow PROVE TypeOK'
  BY <1>30 DEF NewWindow
<1>31. ASSUME SetAccountStatus PROVE TypeOK'
  BY <1>31 DEF SetAccountStatus
<1>33. ASSUME NEW m \in Messages, ComposeCheck(m) PROVE TypeOK'
  BY <1>33 DEF ComposeCheck
<1>34. ASSUME NEW m \in Messages, CheckAccount(m) PROVE TypeOK'
  BY <1>34 DEF CheckAccount, Goto
<1>32. CASE UNCHANGED vars
  BY <1>32 DEF vars
<1> QED
  BY <1>1, <1>2, <1>3, <1>4, <1>5, <1>6, <1>7, <1>8, <1>9, <1>10, <1>11, <1>12, <1>13, <1>14, <1>15, <1>16, <1>17, <1>18, <1>19, <1>20, <1>21, <1>22, <1>23, <1>24, <1>25, <1>26, <1>27, <1>28, <1>29, <1>30, <1>31, <1>32, <1>33, <1>34 DEF Next, Compose, RequestStep, WorkerStep, QueueStep

LEMMA JobStep == Inv /\ [Next]_vars => JobInv'
<1> SUFFICES ASSUME Inv, [Next]_vars PROVE JobInv'
  OBVIOUS
<1> USE ConstantsAssumption DEF Inv, rows, queue, history, outside, TypeOK, JobInv, Live, JobState
<1>1. ASSUME NEW m \in Messages, ComposeCreate(m) PROVE JobInv'
  BY <1>1 DEF ComposeCreate, SetStatus
<1>2. ASSUME NEW m \in Messages, ComposeEnqueue(m) PROVE JobInv'
  BY <1>2 DEF ComposeEnqueue, EnqueueSend, EnqueueScheduled, AddJob
<1>3. ASSUME NEW m \in Messages, ComposeRecord(m) PROVE JobInv'
  BY <1>3 DEF ComposeRecord
<1>4. ASSUME NEW m \in Messages, ComposeAbort(m) PROVE JobInv'
  BY <1>4 DEF ComposeAbort
<1>5. ASSUME NEW m \in Messages, Load(m) PROVE JobInv'
  BY <1>5 DEF Load, Goto
<1>6. ASSUME NEW m \in Messages, RejectInactive(m) PROVE JobInv'
  BY <1>6 DEF RejectInactive, MarkFailed, SetStatus, Goto
<1>7. ASSUME NEW m \in Messages, DeferForQuota(m) PROVE JobInv'
  BY <1>7 DEF DeferForQuota, Goto
<1>8. ASSUME NEW m \in Messages, Clear(m) PROVE JobInv'
  BY <1>8 DEF Clear, Goto
<1>9. ASSUME NEW m \in Messages, StartSending(m) PROVE JobInv'
  BY <1>9 DEF StartSending, MarkSending, SetStatus, Goto
<1>10. ASSUME NEW m \in Messages, Transmit(m) PROVE JobInv'
  BY <1>10 DEF Transmit, Goto
<1>11. ASSUME NEW m \in Messages, Record(m) PROVE JobInv'
  BY <1>11 DEF Record, MarkSent, SetStatus, Goto
<1>12. ASSUME NEW m \in Messages, Catch(m) PROVE JobInv'
  BY <1>12 DEF Catch, MarkFailed, MarkQueued, SetStatus, Goto
<1>13. ASSUME NEW m \in Messages, HandlerFault(m) PROVE JobInv'
  BY <1>13 DEF HandlerFault, Goto
<1>14. ASSUME NEW m \in Messages, Promote(m) PROVE JobInv'
  BY <1>14 DEF Promote
<1>15. ASSUME NEW m \in Messages, Pick(m) PROVE JobInv'
  BY <1>15 DEF Pick
<1>16. ASSUME NEW m \in Messages, StalledCheck(m) PROVE JobInv'
  BY <1>16 DEF StalledCheck
<1>17. ASSUME NEW m \in Messages, Complete(m) PROVE JobInv'
  BY <1>17 DEF Complete
<1>18. ASSUME NEW m \in Messages, FailAttempt(m) PROVE JobInv'
  BY <1>18 DEF FailAttempt
<1>19. ASSUME NEW m \in Messages, Bounce(m) PROVE JobInv'
  BY <1>19 DEF Bounce, SetStatus
<1>20. ASSUME NEW m \in Messages, AssumeDelivered(m) PROVE JobInv'
  BY <1>20 DEF AssumeDelivered, SetStatus
<1>21. ASSUME NEW r \in Requests, NEW m \in Messages, CancelBegin(r, m) PROVE JobInv'
  BY <1>21 DEF CancelBegin, Begin
<1>22. ASSUME NEW r \in Requests, NEW m \in Messages, RescheduleBegin(r, m) PROVE JobInv'
  BY <1>22 DEF RescheduleBegin, Begin
<1>23. ASSUME NEW r \in Requests, RemoveJob(r) PROVE JobInv'
  BY RequestFields, <1>23 DEF RemoveJob, CancelScheduled
<1>24. ASSUME NEW r \in Requests, CancelMarkRow(r) PROVE JobInv'
  BY RequestFields, <1>24 DEF CancelMarkRow
<1>25. ASSUME NEW r \in Requests, CancelMarkMessage(r) PROVE JobInv'
  BY RequestFields, <1>25 DEF CancelMarkMessage, MarkCancelled, SetStatus
<1>26. ASSUME NEW r \in Requests, RescheduleAdd(r) PROVE JobInv'
  BY RequestFields, <1>26 DEF RescheduleAdd, EnqueueScheduled, AddJob
<1>27. ASSUME NEW r \in Requests, RescheduleMarkRow(r) PROVE JobInv'
  BY RequestFields, <1>27 DEF RescheduleMarkRow
<1>28. ASSUME NEW r \in Requests, RequestAbort(r) PROVE JobInv'
  BY <1>28 DEF RequestAbort
<1>29. ASSUME Crash PROVE JobInv'
  BY <1>29 DEF Crash
<1>30. ASSUME NewWindow PROVE JobInv'
  BY <1>30 DEF NewWindow
<1>31. ASSUME SetAccountStatus PROVE JobInv'
  BY <1>31 DEF SetAccountStatus
<1>33. ASSUME NEW m \in Messages, ComposeCheck(m) PROVE JobInv'
  BY <1>33 DEF ComposeCheck
<1>34. ASSUME NEW m \in Messages, CheckAccount(m) PROVE JobInv'
  BY <1>34 DEF CheckAccount, Goto
<1>32. CASE UNCHANGED vars
  BY <1>32 DEF vars
<1> QED
  BY <1>1, <1>2, <1>3, <1>4, <1>5, <1>6, <1>7, <1>8, <1>9, <1>10, <1>11, <1>12, <1>13, <1>14, <1>15, <1>16, <1>17, <1>18, <1>19, <1>20, <1>21, <1>22, <1>23, <1>24, <1>25, <1>26, <1>27, <1>28, <1>29, <1>30, <1>31, <1>32, <1>33, <1>34 DEF Next, Compose, RequestStep, WorkerStep, QueueStep

LEMMA UnbornStep == Inv /\ [Next]_vars => UnbornInv'
<1> SUFFICES ASSUME Inv, [Next]_vars PROVE UnbornInv'
  OBVIOUS
<1> USE ConstantsAssumption DEF Inv, rows, queue, history, outside, TypeOK, JobInv, UnbornInv, HandlerInv, IdleRequest, InTry
<1>1. ASSUME NEW m \in Messages, ComposeCreate(m) PROVE UnbornInv'
  BY <1>1 DEF ComposeCreate, SetStatus
<1>2. ASSUME NEW m \in Messages, ComposeEnqueue(m) PROVE UnbornInv'
  BY <1>2 DEF ComposeEnqueue, EnqueueSend, EnqueueScheduled, AddJob
<1>3. ASSUME NEW m \in Messages, ComposeRecord(m) PROVE UnbornInv'
  BY <1>3 DEF ComposeRecord
<1>4. ASSUME NEW m \in Messages, ComposeAbort(m) PROVE UnbornInv'
  BY <1>4 DEF ComposeAbort
<1>5. ASSUME NEW m \in Messages, Load(m) PROVE UnbornInv'
  BY <1>5 DEF Load, Goto
<1>6. ASSUME NEW m \in Messages, RejectInactive(m) PROVE UnbornInv'
  BY <1>6 DEF RejectInactive, MarkFailed, SetStatus, Goto
<1>7. ASSUME NEW m \in Messages, DeferForQuota(m) PROVE UnbornInv'
  BY <1>7 DEF DeferForQuota, Goto
<1>8. ASSUME NEW m \in Messages, Clear(m) PROVE UnbornInv'
  BY <1>8 DEF Clear, Goto
<1>9. ASSUME NEW m \in Messages, StartSending(m) PROVE UnbornInv'
  BY <1>9 DEF StartSending, MarkSending, SetStatus, Goto
<1>10. ASSUME NEW m \in Messages, Transmit(m) PROVE UnbornInv'
  BY <1>10 DEF Transmit, Goto
<1>11. ASSUME NEW m \in Messages, Record(m) PROVE UnbornInv'
  BY <1>11 DEF Record, MarkSent, SetStatus, Goto
<1>12. ASSUME NEW m \in Messages, Catch(m) PROVE UnbornInv'
  <2>1. status[m] # "none" /\ (status'[m] = "failed" \/ status'[m] = "queued")
    BY <1>12 DEF Catch, MarkFailed, MarkQueued, SetStatus
  <2>2. \A n \in Messages : n # m => status'[n] = status[n]
    BY <1>12 DEF Catch, MarkFailed, MarkQueued, SetStatus
  <2>3. UNCHANGED <<composing, row, job, accepted, request>>
    BY <1>12 DEF Catch
  <2>4. \A r \in Requests : request[r] # IdleRequest =>
          request[r].msg \in Messages /\ status[request[r].msg] # "none"
    BY DEF RequestState
  <2>5. \A n \in Messages : status'[n] = "none" <=> status[n] = "none"
    BY <2>1, <2>2
  <2> QED
    BY <2>3, <2>4, <2>5
<1>13. ASSUME NEW m \in Messages, HandlerFault(m) PROVE UnbornInv'
  BY <1>13 DEF HandlerFault, Goto
<1>14. ASSUME NEW m \in Messages, Promote(m) PROVE UnbornInv'
  BY <1>14 DEF Promote
<1>15. ASSUME NEW m \in Messages, Pick(m) PROVE UnbornInv'
  BY <1>15 DEF Pick
<1>16. ASSUME NEW m \in Messages, StalledCheck(m) PROVE UnbornInv'
  BY <1>16 DEF StalledCheck
<1>17. ASSUME NEW m \in Messages, Complete(m) PROVE UnbornInv'
  BY <1>17 DEF Complete
<1>18. ASSUME NEW m \in Messages, FailAttempt(m) PROVE UnbornInv'
  BY <1>18 DEF FailAttempt
<1>19. ASSUME NEW m \in Messages, Bounce(m) PROVE UnbornInv'
  BY <1>19 DEF Bounce, SetStatus
<1>20. ASSUME NEW m \in Messages, AssumeDelivered(m) PROVE UnbornInv'
  BY <1>20 DEF AssumeDelivered, SetStatus
<1>21. ASSUME NEW r \in Requests, NEW m \in Messages, CancelBegin(r, m) PROVE UnbornInv'
  BY <1>21 DEF CancelBegin, Begin
<1>22. ASSUME NEW r \in Requests, NEW m \in Messages, RescheduleBegin(r, m) PROVE UnbornInv'
  BY <1>22 DEF RescheduleBegin, Begin
<1>23. ASSUME NEW r \in Requests, RemoveJob(r) PROVE UnbornInv'
  BY RequestFields, <1>23 DEF RemoveJob, CancelScheduled
<1>24. ASSUME NEW r \in Requests, CancelMarkRow(r) PROVE UnbornInv'
  BY RequestFields, <1>24 DEF CancelMarkRow
<1>25. ASSUME NEW r \in Requests, CancelMarkMessage(r) PROVE UnbornInv'
  BY RequestFields, <1>25 DEF CancelMarkMessage, MarkCancelled, SetStatus
<1>26. ASSUME NEW r \in Requests, RescheduleAdd(r) PROVE UnbornInv'
  BY RequestFields, <1>26 DEF RescheduleAdd, EnqueueScheduled, AddJob
<1>27. ASSUME NEW r \in Requests, RescheduleMarkRow(r) PROVE UnbornInv'
  BY RequestFields, <1>27 DEF RescheduleMarkRow
<1>28. ASSUME NEW r \in Requests, RequestAbort(r) PROVE UnbornInv'
  BY <1>28 DEF RequestAbort
<1>29. ASSUME Crash PROVE UnbornInv'
  BY <1>29 DEF Crash
<1>30. ASSUME NewWindow PROVE UnbornInv'
  BY <1>30 DEF NewWindow
<1>31. ASSUME SetAccountStatus PROVE UnbornInv'
  BY <1>31 DEF SetAccountStatus
<1>33. ASSUME NEW m \in Messages, ComposeCheck(m) PROVE UnbornInv'
  BY <1>33 DEF ComposeCheck
<1>34. ASSUME NEW m \in Messages, CheckAccount(m) PROVE UnbornInv'
  BY <1>34 DEF CheckAccount, Goto
<1>32. CASE UNCHANGED vars
  BY <1>32 DEF vars
<1> QED
  BY <1>1, <1>2, <1>3, <1>4, <1>5, <1>6, <1>7, <1>8, <1>9, <1>10, <1>11, <1>12, <1>13, <1>14, <1>15, <1>16, <1>17, <1>18, <1>19, <1>20, <1>21, <1>22, <1>23, <1>24, <1>25, <1>26, <1>27, <1>28, <1>29, <1>30, <1>31, <1>32, <1>33, <1>34 DEF Next, Compose, RequestStep, WorkerStep, QueueStep

LEMMA HandlerStep == Inv /\ [Next]_vars => HandlerInv'
<1> SUFFICES ASSUME Inv, [Next]_vars PROVE HandlerInv'
  OBVIOUS
<1> USE ConstantsAssumption DEF Inv, rows, queue, history, outside, TypeOK, JobInv, UnbornInv, HandlerInv, CountInv, InTry, WorkerPc
<1>1. ASSUME NEW m \in Messages, ComposeCreate(m) PROVE HandlerInv'
  BY <1>1 DEF ComposeCreate, SetStatus
<1>2. ASSUME NEW m \in Messages, ComposeEnqueue(m) PROVE HandlerInv'
  BY <1>2 DEF ComposeEnqueue, EnqueueSend, EnqueueScheduled, AddJob
<1>3. ASSUME NEW m \in Messages, ComposeRecord(m) PROVE HandlerInv'
  BY <1>3 DEF ComposeRecord
<1>4. ASSUME NEW m \in Messages, ComposeAbort(m) PROVE HandlerInv'
  BY <1>4 DEF ComposeAbort
<1>5. ASSUME NEW m \in Messages, Load(m) PROVE HandlerInv'
  BY <1>5 DEF Load, Goto
<1>6. ASSUME NEW m \in Messages, RejectInactive(m) PROVE HandlerInv'
  BY <1>6 DEF RejectInactive, MarkFailed, SetStatus, Goto
<1>7. ASSUME NEW m \in Messages, DeferForQuota(m) PROVE HandlerInv'
  BY <1>7 DEF DeferForQuota, Goto
<1>8. ASSUME NEW m \in Messages, Clear(m) PROVE HandlerInv'
  BY <1>8 DEF Clear, Goto
<1>9. ASSUME NEW m \in Messages, StartSending(m) PROVE HandlerInv'
  BY <1>9 DEF StartSending, MarkSending, SetStatus, Goto
<1>10. ASSUME NEW m \in Messages, Transmit(m) PROVE HandlerInv'
  BY <1>10 DEF Transmit, Goto
<1>11. ASSUME NEW m \in Messages, Record(m) PROVE HandlerInv'
  BY <1>11 DEF Record, MarkSent, SetStatus, Goto
<1>12. ASSUME NEW m \in Messages, Catch(m) PROVE HandlerInv'
  BY <1>12 DEF Catch, MarkFailed, MarkQueued, SetStatus, Goto
<1>13. ASSUME NEW m \in Messages, HandlerFault(m) PROVE HandlerInv'
  BY <1>13 DEF HandlerFault, Goto
<1>14. ASSUME NEW m \in Messages, Promote(m) PROVE HandlerInv'
  BY <1>14 DEF Promote
<1>15. ASSUME NEW m \in Messages, Pick(m) PROVE HandlerInv'
  BY <1>15 DEF Pick
<1>16. ASSUME NEW m \in Messages, StalledCheck(m) PROVE HandlerInv'
  BY <1>16 DEF StalledCheck
<1>17. ASSUME NEW m \in Messages, Complete(m) PROVE HandlerInv'
  BY <1>17 DEF Complete
<1>18. ASSUME NEW m \in Messages, FailAttempt(m) PROVE HandlerInv'
  BY <1>18 DEF FailAttempt
<1>19. ASSUME NEW m \in Messages, Bounce(m) PROVE HandlerInv'
  BY <1>19 DEF Bounce, SetStatus
<1>20. ASSUME NEW m \in Messages, AssumeDelivered(m) PROVE HandlerInv'
  BY <1>20 DEF AssumeDelivered, SetStatus
<1>21. ASSUME NEW r \in Requests, NEW m \in Messages, CancelBegin(r, m) PROVE HandlerInv'
  BY <1>21 DEF CancelBegin, Begin
<1>22. ASSUME NEW r \in Requests, NEW m \in Messages, RescheduleBegin(r, m) PROVE HandlerInv'
  BY <1>22 DEF RescheduleBegin, Begin
<1>23. ASSUME NEW r \in Requests, RemoveJob(r) PROVE HandlerInv'
  BY RequestFields, <1>23 DEF RemoveJob, CancelScheduled
<1>24. ASSUME NEW r \in Requests, CancelMarkRow(r) PROVE HandlerInv'
  BY RequestFields, <1>24 DEF CancelMarkRow
<1>25. ASSUME NEW r \in Requests, CancelMarkMessage(r) PROVE HandlerInv'
  BY RequestFields, <1>25 DEF CancelMarkMessage, MarkCancelled, SetStatus
<1>26. ASSUME NEW r \in Requests, RescheduleAdd(r) PROVE HandlerInv'
  BY RequestFields, <1>26 DEF RescheduleAdd, EnqueueScheduled, AddJob
<1>27. ASSUME NEW r \in Requests, RescheduleMarkRow(r) PROVE HandlerInv'
  BY RequestFields, <1>27 DEF RescheduleMarkRow
<1>28. ASSUME NEW r \in Requests, RequestAbort(r) PROVE HandlerInv'
  BY <1>28 DEF RequestAbort
<1>29. ASSUME Crash PROVE HandlerInv'
  BY <1>29 DEF Crash
<1>30. ASSUME NewWindow PROVE HandlerInv'
  BY <1>30 DEF NewWindow
<1>31. ASSUME SetAccountStatus PROVE HandlerInv'
  BY <1>31 DEF SetAccountStatus
<1>33. ASSUME NEW m \in Messages, ComposeCheck(m) PROVE HandlerInv'
  BY <1>33 DEF ComposeCheck
<1>34. ASSUME NEW m \in Messages, CheckAccount(m) PROVE HandlerInv'
  BY <1>34 DEF CheckAccount, Goto
<1>32. CASE UNCHANGED vars
  BY <1>32 DEF vars
<1> QED
  BY <1>1, <1>2, <1>3, <1>4, <1>5, <1>6, <1>7, <1>8, <1>9, <1>10, <1>11, <1>12, <1>13, <1>14, <1>15, <1>16, <1>17, <1>18, <1>19, <1>20, <1>21, <1>22, <1>23, <1>24, <1>25, <1>26, <1>27, <1>28, <1>29, <1>30, <1>31, <1>32, <1>33, <1>34 DEF Next, Compose, RequestStep, WorkerStep, QueueStep

LEMMA CountStep == Inv /\ [Next]_vars => CountInv'
<1> SUFFICES ASSUME Inv, [Next]_vars PROVE CountInv'
  OBVIOUS
<1> USE ConstantsAssumption DEF Inv, rows, queue, history, outside, TypeOK, JobInv, UnbornInv, HandlerInv, CountInv, InTry, MessageStatus
<1>1. ASSUME NEW m \in Messages, ComposeCreate(m) PROVE CountInv'
  BY <1>1 DEF ComposeCreate, SetStatus
<1>2. ASSUME NEW m \in Messages, ComposeEnqueue(m) PROVE CountInv'
  BY <1>2 DEF ComposeEnqueue, EnqueueSend, EnqueueScheduled, AddJob
<1>3. ASSUME NEW m \in Messages, ComposeRecord(m) PROVE CountInv'
  BY <1>3 DEF ComposeRecord
<1>4. ASSUME NEW m \in Messages, ComposeAbort(m) PROVE CountInv'
  BY <1>4 DEF ComposeAbort
<1>5. ASSUME NEW m \in Messages, Load(m) PROVE CountInv'
  BY <1>5 DEF Load, Goto
<1>6. ASSUME NEW m \in Messages, RejectInactive(m) PROVE CountInv'
  BY <1>6 DEF RejectInactive, MarkFailed, SetStatus, Goto
<1>7. ASSUME NEW m \in Messages, DeferForQuota(m) PROVE CountInv'
  BY <1>7 DEF DeferForQuota, Goto
<1>8. ASSUME NEW m \in Messages, Clear(m) PROVE CountInv'
  BY <1>8 DEF Clear, Goto
<1>9. ASSUME NEW m \in Messages, StartSending(m) PROVE CountInv'
  BY <1>9 DEF StartSending, MarkSending, SetStatus, Goto
<1>10. ASSUME NEW m \in Messages, Transmit(m) PROVE CountInv'
  BY <1>10 DEF Transmit, Goto
<1>11. ASSUME NEW m \in Messages, Record(m) PROVE CountInv'
  BY <1>11 DEF Record, MarkSent, SetStatus, Goto
<1>12. ASSUME NEW m \in Messages, Catch(m) PROVE CountInv'
  BY <1>12 DEF Catch, MarkFailed, MarkQueued, SetStatus, Goto
<1>13. ASSUME NEW m \in Messages, HandlerFault(m) PROVE CountInv'
  BY <1>13 DEF HandlerFault, Goto
<1>14. ASSUME NEW m \in Messages, Promote(m) PROVE CountInv'
  BY <1>14 DEF Promote
<1>15. ASSUME NEW m \in Messages, Pick(m) PROVE CountInv'
  BY <1>15 DEF Pick
<1>16. ASSUME NEW m \in Messages, StalledCheck(m) PROVE CountInv'
  BY <1>16 DEF StalledCheck
<1>17. ASSUME NEW m \in Messages, Complete(m) PROVE CountInv'
  BY <1>17 DEF Complete
<1>18. ASSUME NEW m \in Messages, FailAttempt(m) PROVE CountInv'
  BY <1>18 DEF FailAttempt
<1>19. ASSUME NEW m \in Messages, Bounce(m) PROVE CountInv'
  BY <1>19 DEF Bounce, SetStatus
<1>20. ASSUME NEW m \in Messages, AssumeDelivered(m) PROVE CountInv'
  BY <1>20 DEF AssumeDelivered, SetStatus
<1>21. ASSUME NEW r \in Requests, NEW m \in Messages, CancelBegin(r, m) PROVE CountInv'
  BY <1>21 DEF CancelBegin, Begin
<1>22. ASSUME NEW r \in Requests, NEW m \in Messages, RescheduleBegin(r, m) PROVE CountInv'
  BY <1>22 DEF RescheduleBegin, Begin
<1>23. ASSUME NEW r \in Requests, RemoveJob(r) PROVE CountInv'
  BY RequestFields, <1>23 DEF RemoveJob, CancelScheduled
<1>24. ASSUME NEW r \in Requests, CancelMarkRow(r) PROVE CountInv'
  BY RequestFields, <1>24 DEF CancelMarkRow
<1>25. ASSUME NEW r \in Requests, CancelMarkMessage(r) PROVE CountInv'
  BY RequestFields, <1>25 DEF CancelMarkMessage, MarkCancelled, SetStatus
<1>26. ASSUME NEW r \in Requests, RescheduleAdd(r) PROVE CountInv'
  BY RequestFields, <1>26 DEF RescheduleAdd, EnqueueScheduled, AddJob
<1>27. ASSUME NEW r \in Requests, RescheduleMarkRow(r) PROVE CountInv'
  BY RequestFields, <1>27 DEF RescheduleMarkRow
<1>28. ASSUME NEW r \in Requests, RequestAbort(r) PROVE CountInv'
  BY <1>28 DEF RequestAbort
<1>29. ASSUME Crash PROVE CountInv'
  BY <1>29 DEF Crash
<1>30. ASSUME NewWindow PROVE CountInv'
  BY <1>30 DEF NewWindow
<1>31. ASSUME SetAccountStatus PROVE CountInv'
  BY <1>31 DEF SetAccountStatus
<1>33. ASSUME NEW m \in Messages, ComposeCheck(m) PROVE CountInv'
  BY <1>33 DEF ComposeCheck
<1>34. ASSUME NEW m \in Messages, CheckAccount(m) PROVE CountInv'
  BY <1>34 DEF CheckAccount, Goto
<1>32. CASE UNCHANGED vars
  BY <1>32 DEF vars
<1> QED
  BY <1>1, <1>2, <1>3, <1>4, <1>5, <1>6, <1>7, <1>8, <1>9, <1>10, <1>11, <1>12, <1>13, <1>14, <1>15, <1>16, <1>17, <1>18, <1>19, <1>20, <1>21, <1>22, <1>23, <1>24, <1>25, <1>26, <1>27, <1>28, <1>29, <1>30, <1>31, <1>32, <1>33, <1>34 DEF Next, Compose, RequestStep, WorkerStep, QueueStep

LEMMA InvStep == Inv /\ [Next]_vars => Inv'
  BY TypeStep, JobStep, UnbornStep, HandlerStep, CountStep DEF Inv

(***************************************************************************)
(* Every reachable state satisfies the inductive invariant.                *)
(***************************************************************************)
THEOREM InvHolds == Spec => []Inv
  BY InitInv, InvStep, PTL DEF Spec

(***************************************************************************)
(* Type correctness of the send pipeline.                                  *)
(***************************************************************************)
THEOREM TypeCorrect == Spec => []TypeOK
<1>1. Inv => TypeOK
  BY DEF Inv
<1> QED
  BY InvHolds, <1>1, PTL

(***************************************************************************)
(* The status shown is backed by what the SMTP server did, also for a      *)
(* message shown as cancelled: it was never mailed, and no worker is       *)
(* inside the block that mails it.                                         *)
(***************************************************************************)
THEOREM StatusIsTruthful == Spec => []StatusIsBacked
<1>1. Inv => CancelledNotMailed
  BY DEF Inv, HandlerInv, CountInv, CancelledNotMailed
<1>2. Inv => SentIsTruthful
  BY DEF Inv, CountInv, SentIsTruthful
<1>3. Inv => StatusIsBacked
  BY <1>1, <1>2 DEF StatusIsBacked
<1> QED
  BY InvHolds, <1>3, PTL

(***************************************************************************)
(* A message is recorded as sent once, and once more for every bounce that *)
(* took the sent status away.                                              *)
(***************************************************************************)
THEOREM SentOncePerBounce == Spec => []RecordedOnce
<1>1. Inv => RecordedOnce
  BY DEF Inv, TypeOK, CountInv, RecordedOnce
<1> QED
  BY InvHolds, <1>1, PTL

-----------------------------------------------------------------------------
(* The refinement.                                                         *)

(* A write of one status moves that message's phase and no other.          *)
LEMMA PhaseWrite ==
  ASSUME TypeOK, NEW m \in Messages, NEW s, SetStatus(m, s), UNCHANGED accepted
  PROVE  /\ Phase' = [Phase EXCEPT ![m] = PhaseOf(s)]
         /\ UNCHANGED Mailed
  BY DEF TypeOK, SetStatus, Phase, Mailed

(* A step that writes neither status nor accepted is a stutter.            *)
LEMMA PhaseStutter ==
  ASSUME UNCHANGED <<status, accepted>>
  PROVE  UNCHANGED <<Phase, Mailed>>
  BY DEF Phase, Mailed

LEMMA PhaseValues ==
  /\ PhaseOf("none") = "absent"
  /\ PhaseOf("queued") = "pending"
  /\ PhaseOf("scheduled") = "pending"
  /\ PhaseOf("sending") = "pending"
  /\ PhaseOf("sent") = "out"
  /\ PhaseOf("delivered") = "out"
  /\ PhaseOf("bounced") = "bounced"
  /\ PhaseOf("failed") = "dead"
  /\ PhaseOf("cancelled") = "dead"
  BY DEF PhaseOf, Open

LEMMA InitRefines == Init => Abstract!Init
  BY PhaseValues DEF Init, Abstract!Init, Phase, Mailed

LEMMA StepRefines == Inv /\ [Next]_vars => [Abstract!Next]_<<Phase, Mailed>>
<1> SUFFICES ASSUME Inv, [Next]_vars
             PROVE  Abstract!Next \/ UNCHANGED <<Phase, Mailed>>
  OBVIOUS
<1> USE DEF Inv
<1> DEFINE Stutter == UNCHANGED <<Phase, Mailed>>
<1>0. ASSUME NEW m \in Messages
      PROVE  /\ Phase[m] = PhaseOf(status[m])
             /\ m \in Mailed <=> accepted[m] > 0
             /\ status[m] \in MessageStatus \cup {"none"}
             /\ accepted[m] \in Nat /\ recorded[m] \in Nat /\ bounces[m] \in Nat
             /\ pc[m] # "idle" => status[m] # "none"
  BY DEF TypeOK, JobInv, UnbornInv, Phase, Mailed
<1>1. ASSUME NEW m \in Messages, ComposeCreate(m) PROVE Abstract!Accept(m)
  <2>1. Phase[m] = "absent"
    BY <1>0, <1>1, PhaseValues DEF UnbornInv, ComposeCreate
  <2>2. PICK s \in {"queued", "scheduled"} : SetStatus(m, s)
    BY <1>1 DEF ComposeCreate
  <2> QED
    BY <1>1, <2>1, <2>2, PhaseValues, PhaseWrite
    DEF ComposeCreate, history, Abstract!Accept, Abstract!Move
<1>2. ASSUME NEW m \in Messages, RejectInactive(m)
      PROVE  Abstract!Drop(m) \/ Stutter
  <2>1. Phase[m] \in {"pending", "bounced", "dead"}
    BY <1>0, <1>2, PhaseValues DEF HandlerInv, RejectInactive, MessageStatus
  <2>2. Phase' = [Phase EXCEPT ![m] = "dead"] /\ UNCHANGED Mailed
    BY <1>2, PhaseValues, PhaseWrite DEF RejectInactive, MarkFailed, history
  <2> QED
    BY <2>1, <2>2 DEF Abstract!Drop, Abstract!Move, Phase
<1>3. ASSUME NEW m \in Messages, StartSending(m)
      PROVE  Abstract!TakeUp(m) \/ Stutter
  <2>1. Phase[m] \in {"pending", "bounced", "dead"}
    BY <1>0, <1>3, PhaseValues DEF HandlerInv, StartSending, MessageStatus
  <2>2. Phase' = [Phase EXCEPT ![m] = "pending"] /\ UNCHANGED Mailed
    BY <1>3, PhaseValues, PhaseWrite DEF StartSending, MarkSending, history
  <2> QED
    BY <2>1, <2>2 DEF Abstract!TakeUp, Abstract!Move, Phase
<1>4. ASSUME NEW m \in Messages, Transmit(m) PROVE Abstract!Mail(m) \/ Stutter
  <2>1. Phase[m] \in {"pending", "bounced"}
    BY <1>0, <1>4, PhaseValues DEF HandlerInv, InTry, Transmit
  <2>2. UNCHANGED Phase
    BY <1>4 DEF Transmit, rows, Phase
  <2>3. CASE accepted' = [accepted EXCEPT ![m] = @ + 1]
    <3>1. Mailed' = Mailed \cup {m}
      BY <1>0, <2>3 DEF Mailed, TypeOK
    <3> QED
      BY <2>1, <2>2, <3>1 DEF Abstract!Mail
  <2>4. CASE UNCHANGED accepted
    BY <2>2, <2>4 DEF Mailed
  <2> QED
    BY <1>4, <2>3, <2>4 DEF Transmit
<1>5. ASSUME NEW m \in Messages, Record(m) PROVE Abstract!Settle(m)
  <2>1. m \in Mailed /\ Phase[m] \in {"pending", "bounced"}
    BY <1>0, <1>5, PhaseValues DEF HandlerInv, InTry, Record
  <2>2. Phase' = [Phase EXCEPT ![m] = "out"] /\ UNCHANGED Mailed
    BY <1>5, PhaseValues, PhaseWrite DEF Record, MarkSent
  <2> QED
    BY <2>1, <2>2 DEF Abstract!Settle, Abstract!Move
<1>6. ASSUME NEW m \in Messages, Catch(m)
      PROVE  Abstract!Drop(m) \/ Abstract!TakeUp(m) \/ Stutter
  <2>1. Phase[m] \in {"pending", "bounced"}
    BY <1>0, <1>6, PhaseValues DEF HandlerInv, InTry, Catch
  <2>2. PICK s \in {"failed", "queued"} : SetStatus(m, s)
    BY <1>6 DEF Catch, MarkFailed, MarkQueued
  <2>3. /\ Phase' = [Phase EXCEPT ![m] = PhaseOf(s)]
        /\ UNCHANGED Mailed
    BY <1>6, <2>2, PhaseWrite DEF Catch, history
  <2>4. CASE s = "failed"
    BY <2>1, <2>3, <2>4, PhaseValues DEF Abstract!Drop, Abstract!Move
  <2>5. CASE s = "queued"
    BY <2>1, <2>3, <2>5, PhaseValues
    DEF Abstract!TakeUp, Abstract!Move, Phase
  <2> QED
    BY <2>4, <2>5
<1>7. ASSUME NEW m \in Messages, Bounce(m) PROVE Abstract!Bounce(m)
  <2>1. accepted[m] > 0
    BY <1>0, <1>7 DEF Bounce
  <2>2. m \in Mailed /\ Phase[m] \in {"pending", "out", "dead"}
    BY <1>0, <1>7, <2>1, PhaseValues DEF UnbornInv, Bounce, MessageStatus
  <2>3. Phase' = [Phase EXCEPT ![m] = "bounced"] /\ UNCHANGED Mailed
    BY <1>7, PhaseValues, PhaseWrite DEF Bounce
  <2> QED
    BY <2>2, <2>3 DEF Abstract!Bounce, Abstract!Move
<1>8. ASSUME NEW m \in Messages, AssumeDelivered(m) PROVE Stutter
  <2>1. Phase[m] = "out"
    BY <1>0, <1>8, PhaseValues DEF AssumeDelivered
  <2>2. Phase' = [Phase EXCEPT ![m] = "out"] /\ UNCHANGED Mailed
    BY <1>8, PhaseValues, PhaseWrite DEF AssumeDelivered, history
  <2> QED
    BY <2>1, <2>2 DEF Phase
<1>9. ASSUME NEW r \in Requests, CancelMarkMessage(r)
      PROVE  Abstract!Drop(request[r].msg) \/ Stutter
  <2> DEFINE m == request[r].msg
  <2>1. m \in Messages
    BY <1>9, RequestFields DEF CancelMarkMessage
  <2>2. CASE status[m] = "scheduled"
    <3>1. Phase[m] = "pending"
      BY <1>0, <2>1, <2>2, PhaseValues
    <3>2. SetStatus(m, "cancelled")
      BY <1>9, <2>2 DEF CancelMarkMessage, MarkCancelled
    <3>3. Phase' = [Phase EXCEPT ![m] = "dead"] /\ UNCHANGED Mailed
      BY <1>9, <2>1, <3>2, PhaseValues, PhaseWrite DEF CancelMarkMessage, history
    <3> QED
      BY <3>1, <3>3 DEF Abstract!Drop, Abstract!Move
  <2>3. CASE status[m] # "scheduled"
    <3>1. UNCHANGED <<status, accepted>>
      BY <1>9, <2>1, <2>3
      DEF CancelMarkMessage, MarkCancelled, SetStatus, history, TypeOK
    <3> QED
      BY <3>1, PhaseStutter
  <2> QED
    BY <2>2, <2>3
<1>10. ASSUME NEW m \in Messages,
              \/ ComposeCheck(m) \/ ComposeEnqueue(m) \/ ComposeRecord(m)
              \/ ComposeAbort(m) \/ Load(m) \/ CheckAccount(m)
              \/ DeferForQuota(m) \/ Clear(m) \/ HandlerFault(m)
              \/ QueueStep(m)
       PROVE  Stutter
  BY <1>10, PhaseStutter
  DEF ComposeCheck, ComposeEnqueue, ComposeRecord, ComposeAbort, Load,
      CheckAccount, DeferForQuota, Clear, HandlerFault, QueueStep, Promote, Pick, StalledCheck, Complete,
      FailAttempt, rows, history
<1>11. ASSUME NEW r \in Requests,
              \/ \E m \in Messages : CancelBegin(r, m) \/ RescheduleBegin(r, m)
              \/ RemoveJob(r) \/ CancelMarkRow(r) \/ RescheduleAdd(r)
              \/ RescheduleMarkRow(r) \/ RequestAbort(r)
       PROVE  Stutter
  BY <1>11, PhaseStutter
  DEF CancelBegin, RescheduleBegin, Begin, RemoveJob, CancelMarkRow,
      RescheduleAdd, RescheduleMarkRow, RequestAbort, rows, history
<1>12. ASSUME Crash \/ NewWindow \/ SetAccountStatus \/ UNCHANGED vars
       PROVE  Stutter
  BY <1>12, PhaseStutter
  DEF Crash, NewWindow, SetAccountStatus, vars, rows, history
<1>13. ASSUME NEW r \in Requests, CancelMarkMessage(r)
       PROVE  request[r].msg \in Messages
  BY <1>13, RequestFields DEF CancelMarkMessage
<1> QED
  BY <1>1, <1>2, <1>3, <1>4, <1>5, <1>6, <1>7, <1>8, <1>9, <1>10, <1>11,
     <1>12, <1>13
  DEF Next, Compose, WorkerStep, RequestStep, Abstract!Next

(***************************************************************************)
(* The pipeline, with its queue, retries, stalls, crashes and racing       *)
(* requests, implements the message state machine of Outbox.               *)
(***************************************************************************)
THEOREM Implementation == Spec => ImplementsOutbox
  BY InvHolds, InitRefines, StepRefines, PTL
  DEF Spec, ImplementsOutbox, Abstract!Spec, Abstract!vars

(***************************************************************************)
(* What Outbox says of a single step: a message shown as sent or delivered *)
(* is shown so until it bounces.  No retry, stalled re-run, cancel or      *)
(* reschedule takes it back, although markSending, markQueued, markFailed  *)
(* and markSent write the status without looking at it.                    *)
(***************************************************************************)
OutUntilBounced ==
  [][\A m \in Messages :
       status[m] \in {"sent", "delivered"}
         => status'[m] \in {"sent", "delivered", "bounced"}]_vars

THEOREM OutStays == Spec => OutUntilBounced
<1>1. Inv /\ [Next]_vars =>
        [\A m \in Messages :
           status[m] \in {"sent", "delivered"}
             => status'[m] \in {"sent", "delivered", "bounced"}]_vars
  <2> SUFFICES ASSUME Inv, [Next]_vars, NEW m \in Messages,
                      status[m] \in {"sent", "delivered"}
               PROVE  status'[m] \in {"sent", "delivered", "bounced"}
    OBVIOUS
  <2>1. TypeOK /\ TypeOK' /\ [Abstract!Next]_<<Phase, Mailed>>
    BY InvStep, StepRefines DEF Inv
  <2>2. /\ DOMAIN Phase = Messages
        /\ Phase[m] = "out" /\ Phase'[m] = PhaseOf(status'[m])
    BY <2>1, PhaseValues DEF Phase
  <2>3. Phase'[m] \in {"out", "bounced"}
    <3>1. CASE UNCHANGED Phase
      BY <2>2, <3>1
    <3>2. CASE Abstract!Next
      BY <2>2, <3>2
      DEF Abstract!Next, Abstract!Accept, Abstract!Mail, Abstract!Settle,
          Abstract!Bounce, Abstract!Drop, Abstract!TakeUp, Abstract!Move
    <3> QED
      BY <2>1, <3>1, <3>2
  <2>4. status'[m] \in MessageStatus \cup {"none"}
    BY <2>1 DEF TypeOK
  <2> QED
    BY <2>2, <2>3, <2>4, PhaseValues DEF MessageStatus
<1> QED
  BY InvHolds, <1>1, PTL DEF Spec, OutUntilBounced
=============================================================================
