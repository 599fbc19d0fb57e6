---------------------------- MODULE SendPipeline ----------------------------
(***************************************************************************)
(* The path of one outgoing e-mail: compose (email-messages.service.ts),   *)
(* the BullMQ send queue (send-queue.service.ts), the worker that runs     *)
(* processSendJob (email-sender.service.ts), the cancel and reschedule     *)
(* requests on scheduled messages (scheduled-sends.service.ts), and the    *)
(* two background writers of email_messages.status: the inbound worker     *)
(* (bounces) and the delivery heuristic.                                   *)
(*                                                                         *)
(* A handler gives way to the other actors at its awaits: every await that *)
(* reads or writes what they share is a step of its own.  Each message has *)
(* at most one job: compose enqueues it once, and the jobs of a scheduled  *)
(* message share the id "scheduled-<messageId>".                           *)
(***************************************************************************)
EXTENDS Naturals, FiniteSets

CONSTANTS
  Messages,      \* rows of email_messages, all of one sender account
  Requests,      \* API requests that may run at the same time
  Dates,         \* values of scheduledFor
  NoDate,        \* NULL
  MaxAttempts,   \* attempts of a send job
  MaxStalled,    \* BullMQ's maxStalledCount
  Concurrency,   \* jobs one worker process runs at a time
  Quota,         \* sends the account may make in a quota window
  MaxCrashes,    \* bound: crashes of the worker process
  Faults         \* whether a call to PostgreSQL or Redis may fail

ASSUME ConstantsAssumption ==
  /\ NoDate \notin Dates \cup Messages
  /\ MaxAttempts \in Nat \ {0}
  /\ MaxStalled \in Nat
  /\ Concurrency \in Nat \ {0}
  /\ Quota \in Nat \ {0}
  /\ MaxCrashes \in Nat
  /\ Faults \in BOOLEAN

VARIABLES
  status,     \* email_messages.status, "none" before the row exists
  composing,  \* where compose() is for this recipient
  row,        \* the scheduled_sends row: absent, pending or cancelled
  rowAt,      \* scheduled_sends.scheduled_for
  job,        \* state of the BullMQ job
  jobAt,      \* the date the job was delayed to
  made,       \* job.attemptsMade
  stalls,     \* the job's stalled counter
  pc,         \* where the worker that runs the job is
  request,    \* cancel and reschedule requests in flight
  account,    \* sender_accounts.status
  window,     \* messages with sent_at in the current quota window
  crashes,    \* worker crashes so far
  accepted,   \* history: times the SMTP server took the mail
  recorded,   \* history: times markSent committed
  bounces,    \* history: bounces processed for the message
  struck      \* history: messages a mishap took the job or the mark from

rows     == <<status, row, rowAt, window>>
queue    == <<job, jobAt, made, stalls>>
history  == <<accepted, recorded, bounces, struck>>
outside  == <<composing, request, account, crashes>>
vars     == <<rows, queue, history, outside, pc>>

-----------------------------------------------------------------------------
MessageStatus == {"queued", "scheduled", "sending", "sent", "delivered",
                  "bounced", "failed", "cancelled"}
JobState      == {"none", "delayed", "waiting", "active", "completed", "failed"}
WorkerPc      == {"idle", "loading", "checking", "rejecting", "metering",
                  "cleared", "transmitting", "recording", "catching",
                  "returning", "throwing"}
IdleRequest   == [pc |-> "idle", op |-> "none", msg |-> NoDate, at |-> NoDate]
RequestState  ==
  {IdleRequest} \cup
  [pc: {"checked", "removed", "marked"}, op: {"cancel"},
   msg: Messages, at: {NoDate}] \cup
  [pc: {"checked", "removed", "added"}, op: {"reschedule"},
   msg: Messages, at: Dates]

(***************************************************************************)
(* The one type invariant.                                                 *)
(***************************************************************************)
TypeOK ==
  /\ status \in [Messages -> MessageStatus \cup {"none"}]
  /\ composing \in [Messages -> {"idle", "checked", "created", "enqueued", "done"}]
  /\ row \in [Messages -> {"none", "pending", "cancelled"}]
  /\ rowAt \in [Messages -> Dates \cup {NoDate}]
  /\ job \in [Messages -> JobState]
  /\ jobAt \in [Messages -> Dates \cup {NoDate}]
  /\ made \in [Messages -> 0..MaxAttempts]
  /\ stalls \in [Messages -> 0..MaxStalled]
  /\ pc \in [Messages -> WorkerPc]
  /\ request \in [Requests -> RequestState]
  /\ account \in {"active", "inactive"}
  /\ window \in SUBSET Messages
  /\ crashes \in 0..MaxCrashes
  /\ accepted \in [Messages -> Nat]
  /\ recorded \in [Messages -> Nat]
  /\ bounces \in [Messages -> Nat]
  /\ struck \subseteq Messages

Init ==
  /\ status = [m \in Messages |-> "none"]
  /\ composing = [m \in Messages |-> "idle"]
  /\ row = [m \in Messages |-> "none"]
  /\ rowAt = [m \in Messages |-> NoDate]
  /\ job = [m \in Messages |-> "none"]
  /\ jobAt = [m \in Messages |-> NoDate]
  /\ made = [m \in Messages |-> 0]
  /\ stalls = [m \in Messages |-> 0]
  /\ pc = [m \in Messages |-> "idle"]
  /\ request = [r \in Requests |-> IdleRequest]
  /\ account = "active"
  /\ window = {}
  /\ crashes = 0
  /\ accepted = [m \in Messages |-> 0]
  /\ recorded = [m \in Messages |-> 0]
  /\ bounces = [m \in Messages |-> 0]
  /\ struck = {}

-----------------------------------------------------------------------------
(* Writes of email-messages.repository.ts.  Only markCancelled looks at    *)
(* the row it overwrites.                                                  *)

SetStatus(m, s) == status' = [status EXCEPT ![m] = s]

MarkSending(m) == SetStatus(m, "sending")

MarkSent(m) ==
  /\ SetStatus(m, "sent")
  /\ window' = window \cup {m}

MarkFailed(m) == SetStatus(m, "failed")

MarkQueued(m) == SetStatus(m, "queued")

(* Mutant: the update lost its condition on the current status.            *)
MarkCancelledAlways(m) == SetStatus(m, "cancelled")

(* Mutant: the message is cancelled only if its job could be removed.      *)
MarkCancelledUnlessActive(m) ==
  SetStatus(m, IF status[m] = "scheduled" /\ job[m] # "active"
                 THEN "cancelled" ELSE status[m])

MarkCancelled(m) ==
  SetStatus(m, IF status[m] = "scheduled" THEN "cancelled" ELSE status[m])

(* getUsage counts the rows that are sent or delivered NOW among those     *)
(* whose sent_at lies in the window: a bounced one no longer counts.       *)
Usage == Cardinality({m \in window : status[m] \in {"sent", "delivered"}})

(* The queue.  An id that is already in the queue makes add a no-op.       *)
AddJob(m, state, d) ==
  IF job[m] = "none"
    THEN /\ job' = [job EXCEPT ![m] = state]
         /\ jobAt' = [jobAt EXCEPT ![m] = d]
         /\ made' = [made EXCEPT ![m] = 0]
         /\ stalls' = [stalls EXCEPT ![m] = 0]
    ELSE UNCHANGED queue

EnqueueSend(m) == AddJob(m, "waiting", NoDate)

EnqueueScheduled(m, d) == AddJob(m, "delayed", d)

(* job.remove() refuses an active job; the caller swallows the refusal.    *)
CancelScheduled(m) ==
  job' = [job EXCEPT ![m] = IF job[m] = "active" THEN "active" ELSE "none"]

-----------------------------------------------------------------------------
(* compose(), for one recipient that passes the guards: awaits that no     *)
(* transaction holds together.                                             *)

ComposeCheck(m) ==
  /\ composing[m] = "idle"
  /\ account = "active"
  /\ composing' = [composing EXCEPT ![m] = "checked"]
  /\ UNCHANGED <<rows, queue, history, request, account, crashes, pc>>

ComposeCreate(m) ==
  /\ composing[m] = "checked"
  /\ \E s \in {"queued", "scheduled"} : SetStatus(m, s)
  /\ composing' = [composing EXCEPT ![m] = "created"]
  /\ UNCHANGED <<row, rowAt, window, queue, history, request, account,
                 crashes, pc>>

ComposeEnqueue(m) ==
  /\ composing[m] = "created"
  /\ \/ /\ status[m] = "queued"
        /\ EnqueueSend(m)
        /\ composing' = [composing EXCEPT ![m] = "done"]
     \/ /\ status[m] = "scheduled"
        /\ \E d \in Dates : EnqueueScheduled(m, d)
        /\ composing' = [composing EXCEPT ![m] = "enqueued"]
  /\ UNCHANGED <<rows, history, request, account, crashes, pc>>

ComposeRecord(m) ==
  /\ composing[m] = "enqueued"
  /\ row' = [row EXCEPT ![m] = "pending"]
  /\ rowAt' = [rowAt EXCEPT ![m] = jobAt[m]]
  /\ composing' = [composing EXCEPT ![m] = "done"]
  /\ UNCHANGED <<status, window, queue, history, request, account, crashes, pc>>

(* A mishap that may leave m without what the code meant it to have.       *)
Strike(m) == struck' = struck \cup {m}

(* The request fails between two awaits: what it wrote stays.              *)
ComposeAbort(m) ==
  /\ Faults
  /\ composing[m] \in {"created", "enqueued"}
  /\ IF composing[m] = "created" THEN Strike(m) ELSE UNCHANGED struck
  /\ composing' = [composing EXCEPT ![m] = "done"]
  /\ UNCHANGED <<rows, queue, accepted, recorded, bounces, request, account,
                 crashes, pc>>

-----------------------------------------------------------------------------
(* cancel() and reschedule(): both check the row, then act on what they    *)
(* read.                                                                   *)

Begin(r, op, m, d) ==
  /\ request[r] = IdleRequest
  /\ row[m] # "none"
  /\ status[m] = "scheduled"
  /\ request' = [request EXCEPT ![r] =
                   [pc |-> "checked", op |-> op, msg |-> m, at |-> d]]
  /\ UNCHANGED <<rows, queue, history, composing, account, crashes, pc>>

CancelBegin(r, m) == Begin(r, "cancel", m, NoDate)

RescheduleBegin(r, m) == \E d \in Dates : Begin(r, "reschedule", m, d)

RemoveJob(r) ==
  /\ request[r].pc = "checked"
  /\ CancelScheduled(request[r].msg)
  /\ request' = [request EXCEPT ![r].pc = "removed"]
  /\ UNCHANGED <<rows, jobAt, made, stalls, history, composing, account,
                 crashes, pc>>

CancelMarkRow(r) ==
  /\ request[r].pc = "removed"
  /\ request[r].op = "cancel"
  /\ row' = [row EXCEPT ![request[r].msg] = "cancelled"]
  /\ request' = [request EXCEPT ![r].pc = "marked"]
  /\ UNCHANGED <<status, rowAt, window, queue, history, composing, account,
                 crashes, pc>>

CancelMarkMessage(r) ==
  /\ request[r].pc = "marked"
  /\ MarkCancelled(request[r].msg)
  /\ request' = [request EXCEPT ![r] = IdleRequest]
  /\ UNCHANGED <<row, rowAt, window, queue, history, composing, account,
                 crashes, pc>>

RescheduleAdd(r) ==
  /\ request[r].pc = "removed"
  /\ request[r].op = "reschedule"
  /\ EnqueueScheduled(request[r].msg, request[r].at)
  /\ request' = [request EXCEPT ![r].pc = "added"]
  /\ UNCHANGED <<rows, history, composing, account, crashes, pc>>

(* reschedule writes the date; it leaves cancelled_at alone.               *)
RescheduleMarkRow(r) ==
  /\ request[r].pc = "added"
  /\ rowAt' = [rowAt EXCEPT ![request[r].msg] = request[r].at]
  /\ request' = [request EXCEPT ![r] = IdleRequest]
  /\ UNCHANGED <<status, row, window, queue, history, composing, account,
                 crashes, pc>>

RequestAbort(r) ==
  /\ Faults
  /\ request[r] # IdleRequest
  /\ IF request[r].pc \in {"removed", "marked"} THEN Strike(request[r].msg)
                                                ELSE UNCHANGED struck
  /\ request' = [request EXCEPT ![r] = IdleRequest]
  /\ UNCHANGED <<rows, queue, accepted, recorded, bounces, composing, account,
                 crashes, pc>>

-----------------------------------------------------------------------------
(* The queue's own steps (BullMQ).                                         *)

Promote(m) ==
  /\ job[m] = "delayed"
  /\ job' = [job EXCEPT ![m] = "waiting"]
  /\ UNCHANGED <<rows, jobAt, made, stalls, history, outside, pc>>

Busy == {m \in Messages : pc[m] # "idle"}

(* Mutant: a handler that waits for the SMTP server gives its slot away.   *)
PickWhileSending(m) ==
  /\ job[m] = "waiting"
  /\ Cardinality({n \in Busy : pc[n] \notin {"transmitting", "recording"}})
       < Concurrency
  /\ job' = [job EXCEPT ![m] = "active"]
  /\ pc' = [pc EXCEPT ![m] = "loading"]
  /\ UNCHANGED <<rows, jobAt, made, stalls, history, outside>>

Pick(m) ==
  /\ job[m] = "waiting"
  /\ Cardinality(Busy) < Concurrency
  /\ job' = [job EXCEPT ![m] = "active"]
  /\ pc' = [pc EXCEPT ![m] = "loading"]
  /\ UNCHANGED <<rows, jobAt, made, stalls, history, outside>>

(* An active job nobody runs any more goes back to the queue, and fails    *)
(* without its handler running once it has stalled too often.              *)
StalledCheck(m) ==
  /\ job[m] = "active"
  /\ pc[m] = "idle"
  /\ IF stalls[m] < MaxStalled
       THEN /\ job' = [job EXCEPT ![m] = "waiting"]
            /\ stalls' = [stalls EXCEPT ![m] = @ + 1]
            /\ UNCHANGED struck
       ELSE /\ job' = [job EXCEPT ![m] = "failed"]
            /\ Strike(m)
            /\ UNCHANGED stalls
  /\ UNCHANGED <<rows, jobAt, made, accepted, recorded, bounces, outside, pc>>

Complete(m) ==
  /\ pc[m] = "returning"
  /\ job' = [job EXCEPT ![m] = "completed"]
  /\ pc' = [pc EXCEPT ![m] = "idle"]
  /\ UNCHANGED <<rows, jobAt, made, stalls, history, outside>>

(* Mutant: one attempt too many.                                           *)
FailAttemptLate(m) ==
  /\ pc[m] = "throwing"
  /\ made' = [made EXCEPT ![m] = @ + 1]
  /\ job' = [job EXCEPT ![m] =
               IF made[m] + 1 > MaxAttempts THEN "failed" ELSE "delayed"]
  /\ pc' = [pc EXCEPT ![m] = "idle"]
  /\ UNCHANGED <<rows, jobAt, stalls, history, outside>>

FailAttempt(m) ==
  /\ pc[m] = "throwing"
  /\ made' = [made EXCEPT ![m] = @ + 1]
  /\ job' = [job EXCEPT ![m] =
               IF made[m] + 1 >= MaxAttempts THEN "failed" ELSE "delayed"]
  /\ pc' = [pc EXCEPT ![m] = "idle"]
  /\ UNCHANGED <<rows, jobAt, stalls, history, outside>>

-----------------------------------------------------------------------------
(* processSendJob, one step per await.                                     *)

Goto(m, label) == pc' = [pc EXCEPT ![m] = label]

(* Mutants: the guard against sending twice is missing, forgets delivered, *)
(* or takes a message in sending for somebody else's.                      *)
LoadReturning(m, done) ==
  /\ pc[m] = "loading"
  /\ Goto(m, IF status[m] \in done THEN "returning" ELSE "checking")
  /\ UNCHANGED <<rows, queue, history, outside>>

LoadUnguarded(m) == LoadReturning(m, {"cancelled"})
LoadSentOnly(m) == LoadReturning(m, {"sent", "cancelled"})
LoadSkipsSending(m) ==
  LoadReturning(m, {"sending", "sent", "delivered", "cancelled"})

Load(m) ==
  /\ pc[m] = "loading"
  /\ Goto(m, IF status[m] \in {"sent", "delivered", "cancelled"}
               THEN "returning" ELSE "checking")
  /\ UNCHANGED <<rows, queue, history, outside>>

CheckAccount(m) ==
  /\ pc[m] = "checking"
  /\ Goto(m, IF account = "active" THEN "metering" ELSE "rejecting")
  /\ UNCHANGED <<rows, queue, history, outside>>

RejectInactive(m) ==
  /\ pc[m] = "rejecting"
  /\ MarkFailed(m)
  /\ Goto(m, "returning")
  /\ UNCHANGED <<row, rowAt, window, queue, history, outside>>

(* Mutant: over quota, the handler returns instead of delaying its job.    *)
DeferByReturning(m) ==
  /\ pc[m] = "metering"
  /\ Usage >= Quota
  /\ Goto(m, "returning")
  /\ UNCHANGED <<rows, queue, history, outside>>

DeferForQuota(m) ==
  /\ pc[m] = "metering"
  /\ Usage >= Quota
  /\ job' = [job EXCEPT ![m] = "delayed"]
  /\ Goto(m, "idle")
  /\ UNCHANGED <<rows, jobAt, made, stalls, history, outside>>

Clear(m) ==
  /\ pc[m] = "metering"
  /\ Usage < Quota
  /\ Goto(m, "cleared")
  /\ UNCHANGED <<rows, queue, history, outside>>

StartSending(m) ==
  /\ pc[m] = "cleared"
  /\ MarkSending(m)
  /\ Goto(m, "transmitting")
  /\ UNCHANGED <<row, rowAt, window, queue, history, outside>>

(* Mutant: the answer of the server is not awaited.                        *)
TransmitUnawaited(m) ==
  /\ pc[m] = "transmitting"
  /\ Goto(m, "recording")
  /\ accepted' \in {accepted, [accepted EXCEPT ![m] = @ + 1]}
  /\ UNCHANGED <<rows, queue, recorded, bounces, struck, outside>>

(* sendMail: taken, refused, or taken but answered with an error.          *)
Transmit(m) ==
  /\ pc[m] = "transmitting"
  /\ \/ /\ accepted' = [accepted EXCEPT ![m] = @ + 1]
        /\ \E label \in {"recording", "catching"} : Goto(m, label)
     \/ /\ Goto(m, "catching")
        /\ UNCHANGED accepted
  /\ UNCHANGED <<rows, queue, recorded, bounces, struck, outside>>

Record(m) ==
  /\ pc[m] = "recording"
  /\ MarkSent(m)
  /\ recorded' = [recorded EXCEPT ![m] = @ + 1]
  /\ Goto(m, "returning")
  /\ UNCHANGED <<row, rowAt, queue, accepted, bounces, struck, outside>>

(* Mutant: isFinalAttempt without the + 1.                                 *)
CatchLate(m) ==
  /\ pc[m] = "catching"
  /\ IF made[m] >= MaxAttempts THEN MarkFailed(m) ELSE MarkQueued(m)
  /\ Goto(m, "throwing")
  /\ UNCHANGED <<row, rowAt, window, queue, history, outside>>

Catch(m) ==
  /\ pc[m] = "catching"
  /\ IF made[m] + 1 >= MaxAttempts THEN MarkFailed(m) ELSE MarkQueued(m)
  /\ Goto(m, "throwing")
  /\ UNCHANGED <<row, rowAt, window, queue, history, outside>>

(* A call that throws.  Inside the try block it reaches the catch clause;  *)
(* before the block, and in the clause itself, it leaves the handler and   *)
(* the status stays as it is.                                              *)
HandlerFault(m) ==
  /\ Faults
  /\ \/ /\ pc[m] = "recording"
        /\ Goto(m, "catching")
        /\ UNCHANGED struck
     \/ /\ pc[m] \in {"loading", "checking", "rejecting", "metering",
                       "cleared", "transmitting", "catching"}
        /\ Goto(m, "throwing")
        /\ IF made[m] + 1 >= MaxAttempts THEN Strike(m) ELSE UNCHANGED struck
  /\ UNCHANGED <<rows, queue, accepted, recorded, bounces, outside>>

(* The worker process dies: every handler in it is gone, its jobs stay     *)
(* active in Redis.                                                        *)
Crash ==
  /\ crashes < MaxCrashes
  /\ Busy # {}
  /\ pc' = [m \in Messages |-> "idle"]
  /\ crashes' = crashes + 1
  /\ UNCHANGED <<rows, queue, history, composing, request, account>>

-----------------------------------------------------------------------------
(* Other writers.                                                          *)

(* The inbound worker finds a delivery failure report for a mail that      *)
(* went out and has not been marked yet.                                   *)
Bounce(m) ==
  /\ bounces[m] < accepted[m]
  /\ status[m] # "bounced"
  /\ SetStatus(m, "bounced")
  /\ bounces' = [bounces EXCEPT ![m] = @ + 1]
  /\ UNCHANGED <<row, rowAt, window, queue, accepted, recorded, struck, outside, pc>>

(* 48 hours after sent_at, which no quota window spans.                    *)
AssumeDelivered(m) ==
  /\ status[m] = "sent"
  /\ m \notin window
  /\ SetStatus(m, "delivered")
  /\ UNCHANGED <<row, rowAt, window, queue, history, outside, pc>>

NewWindow ==
  /\ window # {}
  /\ window' = {}
  /\ UNCHANGED <<status, row, rowAt, queue, history, outside, pc>>

SetAccountStatus ==
  /\ account' = IF account = "active" THEN "inactive" ELSE "active"
  /\ UNCHANGED <<rows, queue, history, composing, request, crashes, pc>>

-----------------------------------------------------------------------------
Compose(m) ==
  \/ ComposeCheck(m) \/ ComposeCreate(m) \/ ComposeEnqueue(m)
  \/ ComposeRecord(m) \/ ComposeAbort(m)

RequestStep(r) ==
  \/ RemoveJob(r) \/ CancelMarkRow(r) \/ CancelMarkMessage(r)
  \/ RescheduleAdd(r) \/ RescheduleMarkRow(r) \/ RequestAbort(r)

WorkerStep(m) ==
  \/ Load(m) \/ CheckAccount(m) \/ RejectInactive(m) \/ DeferForQuota(m) \/ Clear(m)
  \/ StartSending(m) \/ Transmit(m) \/ Record(m) \/ Catch(m) \/ HandlerFault(m)

QueueStep(m) ==
  \/ Promote(m) \/ Pick(m) \/ StalledCheck(m) \/ Complete(m) \/ FailAttempt(m)

Next ==
  \/ \E m \in Messages :
       \/ Compose(m) \/ WorkerStep(m) \/ QueueStep(m)
       \/ Bounce(m) \/ AssumeDelivered(m)
  \/ \E r \in Requests :
       \/ \E m \in Messages : CancelBegin(r, m) \/ RescheduleBegin(r, m)
       \/ RequestStep(r)
  \/ Crash
  \/ NewWindow
  \/ SetAccountStatus

Spec == Init /\ [][Next]_vars

(***************************************************************************)
(* Fairness: a request that started runs on (Node's event loop), the       *)
(* worker and the queue keep working, and time passes, so delays expire    *)
(* and quota windows end.  Nobody has to cancel, reschedule or toggle an   *)
(* account, no crash has to happen and no mail has to be accepted.         *)
(***************************************************************************)
Fairness ==
  /\ \A m \in Messages :
       /\ WF_vars(ComposeEnqueue(m) \/ ComposeRecord(m))
       /\ WF_vars(WorkerStep(m))
       /\ WF_vars(Promote(m))
       /\ SF_vars(Pick(m))
       /\ WF_vars(StalledCheck(m) \/ Complete(m) \/ FailAttempt(m))
  /\ \A r \in Requests : WF_vars(RequestStep(r))
  /\ WF_vars(NewWindow)

FairSpec == Spec /\ Fairness

-----------------------------------------------------------------------------
Open == {"queued", "scheduled", "sending"}
Live == {"delayed", "waiting", "active"}

InTry == {"transmitting", "recording", "catching"}
PastGate == {"cleared", "transmitting", "recording"}

InFlight(m) == \E r \in Requests : request[r].msg = m

(***************************************************************************)
(* A message shown as cancelled has not been mailed, and no worker is      *)
(* inside the block that mails it: markCancelled (email-messages.          *)
(* repository.ts) leaves a row alone that a worker has already taken.      *)
(***************************************************************************)
CancelledNotMailed ==
  \A m \in Messages :
    status[m] = "cancelled" => accepted[m] = 0 /\ pc[m] \notin InTry

(***************************************************************************)
(* The status the dashboard shows is backed by the SMTP server: a sent or  *)
(* delivered message was accepted and recorded, a bounced one accepted,    *)
(* and markSent never ran more often than the server took the mail.        *)
(***************************************************************************)
SentIsTruthful ==
  \A m \in Messages :
    /\ status[m] \in {"sent", "delivered"} => recorded[m] >= 1
    /\ status[m] = "bounced" => accepted[m] >= 1
    /\ recorded[m] <= accepted[m]

(* Both: what the status says was mailed, and what it says was not.        *)
StatusIsBacked == CancelledNotMailed /\ SentIsTruthful

(***************************************************************************)
(* However often a job is retried or re-run after a stall, a message is    *)
(* recorded as sent a second time only if a bounce took the sent status    *)
(* away in between (the guard of processSendJob, email-sender.service.ts   *)
(* lines 55-62, knows sent, delivered and cancelled only).                 *)
(***************************************************************************)
RecordedOnce == \A m \in Messages : recorded[m] <= 1 + bounces[m]

(***************************************************************************)
(* The quota check (email-sender.service.ts, line 82) reads the usage, and *)
(* the mail is counted when it was sent: workers that check at the same    *)
(* time all pass.  However they, the bounces, the failing calls and the    *)
(* deferred jobs interleave, the usage and the sends under way exceed the  *)
(* quota by at most Concurrency - 1: a slot is held from the check to      *)
(* markSent.                                                               *)
(***************************************************************************)
UsageBound ==
  Usage + Cardinality({m \in Messages : pc[m] \in PastGate})
    <= Quota + Concurrency - 1

(***************************************************************************)
(* A message that is still to be sent keeps a job that will send it,       *)
(* whatever crashes, and whatever cancel and reschedule do to it at the    *)
(* same time.  It loses the job only when compose fails before it has      *)
(* enqueued, a request fails between the removal and its next step, a call *)
(* outside the try block throws in the last attempt, or the queue gives up *)
(* on a job that stalled too often.  A message whose schedule was          *)
(* cancelled is exempt: a cancel that checked it before its first attempt  *)
(* takes the retry's job away.                                             *)
(***************************************************************************)
OpenHasJob ==
  \A m \in Messages \ struck :
    status[m] \in Open /\ composing[m] = "done" /\ ~InFlight(m)
      /\ row[m] # "cancelled" => job[m] \in Live

(***************************************************************************)
(* scheduled_sends and email_messages agree once cancel() has answered:    *)
(* a cancelled schedule has no message that still waits for its date,      *)
(* unless the request failed between the two.                              *)
(***************************************************************************)
CancelledRowSettled ==
  \A m \in Messages \ struck :
    row[m] = "cancelled" /\ ~InFlight(m) => status[m] # "scheduled"

(* The requests that may still give m a new job.                           *)
Pending(m) ==
  {r \in Requests : request[r].msg = m /\ request[r].op = "reschedule"
                      /\ request[r].pc \in {"checked", "removed"}}

(***************************************************************************)
(* However attempts, stalls, crashes and reschedules meet, a message is    *)
(* mailed at most once in each run of a job: MaxAttempts + MaxStalled      *)
(* times, and as often again for each reschedule that had checked it       *)
(* before the first mail.  Those that have yet to add their job have their *)
(* share left.                                                             *)
(***************************************************************************)
Runs == MaxAttempts + MaxStalled

MailsBound ==
  \A m \in Messages : accepted[m] > 0 =>
    accepted[m] + Runs * Cardinality(Pending(m)) <= Runs * (1 + Cardinality(Requests))

(***************************************************************************)
(* Every message with a job is settled (sent, failed or cancelled) in the  *)
(* end, or somebody is changing its schedule, unless a failing call in its *)
(* last attempt or one stall too many took the job.                        *)
(***************************************************************************)
Settles ==
  \A m \in Messages :
    (status[m] \in Open /\ job[m] \in Live)
      ~> (status[m] \notin Open \/ InFlight(m) \/ m \in struck)

-----------------------------------------------------------------------------
(* What the documents claim and the code does not keep.                    *)

(***************************************************************************)
(* "cancelled schedule never sends" (TASKS.md, task 12), for which         *)
(* send-queue.service.ts relies on the worker's own status check.          *)
(***************************************************************************)
CancelledNeverSends ==
  [][\A m \in Messages :
       status[m] = "cancelled" => status'[m] # "sending"]_vars
=============================================================================
