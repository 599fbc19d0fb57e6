--------------------------- MODULE WebhookDelivery ---------------------------
(***************************************************************************)
(* Outbound webhooks of one endpoint: the fan-out of an event and the      *)
(* admin's test-send (webhook-dispatch.service.ts, webhook-endpoints.      *)
(* service.ts), the BullMQ delivery queue, the worker that posts and       *)
(* retries (webhook-delivery-worker.service.ts), the automatic disabling   *)
(* of a failing endpoint, and the admin who switches it on and off or      *)
(* deletes it.  Endpoints share nothing but the worker's slots.            *)
(***************************************************************************)
EXTENDS Naturals, FiniteSets

CONSTANTS
  Deliveries,   \* rows of webhook_deliveries
  Answers,      \* how a POST may end: subset of {"ok", "error", "network"}
  MaxAttempts,  \* attempts of a delivery job
  MaxStalled,   \* BullMQ's maxStalledCount
  Concurrency,  \* jobs the worker runs at a time
  Threshold,    \* WEBHOOK_AUTO_DISABLE_THRESHOLD
  MaxCrashes,   \* bound: crashes of the worker process
  Admin,        \* whether an admin switches or deletes the endpoint
  Faults        \* whether a call to PostgreSQL or Redis may fail

ASSUME HookAssumption ==
  /\ IsFiniteSet(Deliveries)
  /\ Answers \subseteq {"ok", "error", "network"}
  /\ MaxAttempts \in Nat \ {0}
  /\ MaxStalled \in Nat
  /\ Concurrency \in Nat \ {0}
  /\ Threshold \in Nat \ {0}
  /\ MaxCrashes \in Nat
  /\ Admin \in BOOLEAN /\ Faults \in BOOLEAN

VARIABLES
  endpoint,    \* webhook_endpoints: active, inactive or deleted
  dispatching, \* where dispatch() is with the delivery
  rank,        \* order of created_at, 0 before the row exists
  row,         \* the columns of the row that change
  job, made, stalls,  \* the BullMQ job
  pc,          \* where the worker that runs the job is
  answer,      \* what that worker's POST came back with
  crashes,     \* worker crashes so far
  posts,       \* history: POSTs made for it
  acks,        \* history: POSTs it answered with a 2xx status
  gaveUp,      \* history: deliveries markFailed was called for
  switched,    \* history: an admin switched or deleted the endpoint
  struck       \* history: deliveries whose job ended without its handler

queue   == <<job, made, stalls>>
history == <<posts, acks, gaveUp, switched, struck>>
worker  == <<pc, answer>>
table   == <<rank, row>>
vars    == <<endpoint, dispatching, table, queue, worker, crashes, history>>

JobState == {"none", "delayed", "waiting", "active", "completed", "failed"}
Live     == {"delayed", "waiting", "active"}
WorkerPc == {"idle", "loading", "posting", "answered", "counting", "disabling",
             "returning", "throwing"}
Columns  == [status: {"null", "ok", "error"}, delivered: BOOLEAN,
             retrying: BOOLEAN, attempt: 1..MaxAttempts]

(***************************************************************************)
(* The one type invariant.                                                 *)
(***************************************************************************)
TypeOK ==
  /\ endpoint \in {"active", "inactive", "deleted"}
  /\ dispatching \in [Deliveries -> {"idle", "found", "created", "done"}]
  /\ rank \in [Deliveries -> Nat]
  /\ row \in [Deliveries -> Columns]
  /\ job \in [Deliveries -> JobState]
  /\ made \in [Deliveries -> 0..MaxAttempts]
  /\ stalls \in [Deliveries -> 0..MaxStalled]
  /\ pc \in [Deliveries -> WorkerPc]
  /\ answer \in [Deliveries -> {"none", "ok", "error", "network"}]
  /\ crashes \in 0..MaxCrashes
  /\ posts \in [Deliveries -> Nat]
  /\ acks \in [Deliveries -> Nat]
  /\ gaveUp \in SUBSET Deliveries
  /\ switched \in BOOLEAN
  /\ struck \in SUBSET Deliveries

Init ==
  /\ endpoint = "active"
  /\ dispatching = [d \in Deliveries |-> "idle"]
  /\ rank = [d \in Deliveries |-> 0]
  /\ row = [d \in Deliveries |-> [status |-> "null", delivered |-> FALSE,
                                  retrying |-> FALSE, attempt |-> 1]]
  /\ job = [d \in Deliveries |-> "none"]
  /\ made = [d \in Deliveries |-> 0]
  /\ stalls = [d \in Deliveries |-> 0]
  /\ pc = [d \in Deliveries |-> "idle"]
  /\ answer = [d \in Deliveries |-> "none"]
  /\ crashes = 0
  /\ posts = [d \in Deliveries |-> 0]
  /\ acks = [d \in Deliveries |-> 0]
  /\ gaveUp = {}
  /\ switched = FALSE
  /\ struck = {}

-----------------------------------------------------------------------------
(* webhook-deliveries.repository.ts.  Deleting an endpoint cascades to its *)
(* rows: an update then finds nothing to change.                           *)

Update(d, columns) ==
  row' = IF endpoint = "deleted" THEN row ELSE [row EXCEPT ![d] = columns]

MarkDelivered(d) ==
  Update(d, [row[d] EXCEPT !.status = "ok", !.delivered = TRUE,
                           !.retrying = FALSE])

ResponseStatus(d) == IF answer[d] = "network" THEN "null" ELSE answer[d]

MarkRetrying(d) ==
  Update(d, [row[d] EXCEPT !.status = ResponseStatus(d), !.retrying = TRUE,
                           !.attempt = made[d] + 1])

MarkFailed(d) ==
  /\ Update(d, [row[d] EXCEPT !.status = ResponseStatus(d), !.retrying = FALSE,
                              !.attempt = made[d] + 1])
  /\ gaveUp' = gaveUp \cup {d}

Rows == IF endpoint = "deleted" THEN {} ELSE {d \in Deliveries : rank[d] > 0}

(* Mutant: rows that wait for a retry count too.                           *)
CompletedRetrying == {d \in Rows : row[d].status # "null"}

(* The rows countRecentConsecutiveFailures looks at ...                    *)
Completed == {d \in Rows : ~row[d].retrying /\ row[d].status # "null"}

(* ... and the failures among them that are newer than every success.      *)
Streak ==
  {d \in Completed :
     /\ ~row[d].delivered
     /\ \A e \in Completed : row[e].delivered => rank[e] < rank[d]}

-----------------------------------------------------------------------------
(* dispatch() and testSend(): find the endpoint, create the row, enqueue.  *)
(* Only dispatch asks for an active endpoint.                              *)

DispatchFind(d) ==
  /\ dispatching[d] = "idle"
  /\ endpoint # "deleted"
  /\ dispatching' = [dispatching EXCEPT ![d] = "found"]
  /\ UNCHANGED <<endpoint, table, queue, worker, crashes, history>>

(* The row of a deleted endpoint violates its foreign key.                 *)
DispatchCreate(d) ==
  /\ dispatching[d] = "found"
  /\ IF endpoint = "deleted"
       THEN /\ dispatching' = [dispatching EXCEPT ![d] = "done"]
            /\ UNCHANGED rank
       ELSE /\ dispatching' = [dispatching EXCEPT ![d] = "created"]
            /\ rank' = [rank EXCEPT ![d] =
                          1 + Cardinality({e \in Deliveries : rank[e] > 0})]
  /\ UNCHANGED <<endpoint, row, queue, worker, crashes, history>>

DispatchEnqueue(d) ==
  /\ dispatching[d] = "created"
  /\ job' = [job EXCEPT ![d] = "waiting"]
  /\ dispatching' = [dispatching EXCEPT ![d] = "done"]
  /\ UNCHANGED <<endpoint, table, made, stalls, worker, crashes, history>>

(* An error is logged and swallowed; a row without a job stays behind.     *)
DispatchAbort(d) ==
  /\ Faults
  /\ dispatching[d] \in {"found", "created"}
  /\ dispatching' = [dispatching EXCEPT ![d] = "done"]
  /\ UNCHANGED <<endpoint, table, queue, worker, crashes, history>>

-----------------------------------------------------------------------------
(* The queue's own steps (BullMQ).                                         *)

Promote(d) ==
  /\ job[d] = "delayed"
  /\ job' = [job EXCEPT ![d] = "waiting"]
  /\ UNCHANGED <<endpoint, dispatching, table, made, stalls, worker, crashes,
                 history>>

Busy == {d \in Deliveries : pc[d] # "idle"}

Pick(d) ==
  /\ job[d] = "waiting"
  /\ Cardinality(Busy) < Concurrency
  /\ job' = [job EXCEPT ![d] = "active"]
  /\ pc' = [pc EXCEPT ![d] = "loading"]
  /\ UNCHANGED <<endpoint, dispatching, table, made, stalls, answer, crashes,
                 history>>

StalledCheck(d) ==
  /\ job[d] = "active"
  /\ pc[d] = "idle"
  /\ IF stalls[d] < MaxStalled
       THEN /\ job' = [job EXCEPT ![d] = "waiting"]
            /\ stalls' = [stalls EXCEPT ![d] = @ + 1]
            /\ UNCHANGED struck
       ELSE /\ job' = [job EXCEPT ![d] = "failed"]
            /\ struck' = struck \cup {d}
            /\ UNCHANGED stalls
  /\ UNCHANGED <<endpoint, dispatching, table, made, worker, crashes, posts,
                 acks, gaveUp, switched>>

Finish(d, state) ==
  /\ job' = [job EXCEPT ![d] = state]
  /\ pc' = [pc EXCEPT ![d] = "idle"]
  /\ answer' = [answer EXCEPT ![d] = "none"]
  /\ UNCHANGED <<endpoint, dispatching, table, stalls, crashes, history>>

Complete(d) ==
  /\ pc[d] = "returning"
  /\ Finish(d, "completed")
  /\ UNCHANGED made

(* Mutant: one attempt too many.                                           *)
FailAttemptLate(d) ==
  /\ pc[d] = "throwing"
  /\ made' = [made EXCEPT ![d] = @ + 1]
  /\ Finish(d, IF made[d] + 1 > MaxAttempts THEN "failed" ELSE "delayed")

FailAttempt(d) ==
  /\ pc[d] = "throwing"
  /\ made' = [made EXCEPT ![d] = @ + 1]
  /\ Finish(d, IF made[d] + 1 >= MaxAttempts THEN "failed" ELSE "delayed")

-----------------------------------------------------------------------------
(* processDeliveryJob, one step per await.                                 *)

Goto(d, label) == pc' = [pc EXCEPT ![d] = label]

Load(d) ==
  /\ pc[d] = "loading"
  /\ Goto(d, IF endpoint = "active" THEN "posting" ELSE "returning")
  /\ UNCHANGED <<endpoint, dispatching, table, queue, answer, crashes, history>>

(* fetch: an answer with a status, or none at all.                         *)
Post(d) ==
  /\ pc[d] = "posting"
  /\ \E a \in Answers :
       /\ answer' = [answer EXCEPT ![d] = a]
       /\ acks' = [acks EXCEPT ![d] = @ + IF a = "ok" THEN 1 ELSE 0]
  /\ posts' = [posts EXCEPT ![d] = @ + 1]
  /\ Goto(d, "answered")
  /\ UNCHANGED <<endpoint, dispatching, table, queue, crashes, gaveUp,
                 switched, struck>>

(* Mutant: only a lost connection is a failure.                            *)
RecordDeliveryLoose(d) ==
  /\ pc[d] = "answered"
  /\ answer[d] # "network"
  /\ MarkDelivered(d)
  /\ Goto(d, "returning")
  /\ UNCHANGED <<endpoint, dispatching, rank, queue, answer, crashes, history>>

RecordDelivery(d) ==
  /\ pc[d] = "answered"
  /\ answer[d] = "ok"
  /\ MarkDelivered(d)
  /\ Goto(d, "returning")
  /\ UNCHANGED <<endpoint, dispatching, rank, queue, answer, crashes, history>>

(* Mutants: the attempt in progress is not counted; the error that makes   *)
(* BullMQ retry is not thrown.                                             *)
RecordRetryLate(d) ==
  /\ pc[d] = "answered"
  /\ answer[d] # "ok"
  /\ made[d] < MaxAttempts
  /\ MarkRetrying(d)
  /\ Goto(d, "throwing")
  /\ UNCHANGED <<endpoint, dispatching, rank, queue, answer, crashes, history>>

RecordRetrySwallowed(d) ==
  /\ pc[d] = "answered"
  /\ answer[d] # "ok"
  /\ made[d] + 1 < MaxAttempts
  /\ MarkRetrying(d)
  /\ Goto(d, "returning")
  /\ UNCHANGED <<endpoint, dispatching, rank, queue, answer, crashes, history>>

RecordRetry(d) ==
  /\ pc[d] = "answered"
  /\ answer[d] # "ok"
  /\ made[d] + 1 < MaxAttempts
  /\ MarkRetrying(d)
  /\ Goto(d, "throwing")
  /\ UNCHANGED <<endpoint, dispatching, rank, queue, answer, crashes, history>>

RecordFailure(d) ==
  /\ pc[d] = "answered"
  /\ answer[d] # "ok"
  /\ made[d] + 1 >= MaxAttempts
  /\ MarkFailed(d)
  /\ Goto(d, "counting")
  /\ UNCHANGED <<endpoint, dispatching, rank, queue, answer, crashes, posts,
                 acks, switched, struck>>

(* Mutant: the threshold itself is not enough.                             *)
CountFailuresAbove(d) ==
  /\ pc[d] = "counting"
  /\ Goto(d, IF Cardinality(Streak) <= Threshold THEN "returning" ELSE "disabling")
  /\ UNCHANGED <<endpoint, dispatching, table, queue, answer, crashes, history>>

CountFailures(d) ==
  /\ pc[d] = "counting"
  /\ Goto(d, IF Cardinality(Streak) < Threshold THEN "returning" ELSE "disabling")
  /\ UNCHANGED <<endpoint, dispatching, table, queue, answer, crashes, history>>

(* setActive(false), then the audit record and the admins' notification.   *)
Disable(d) ==
  /\ pc[d] = "disabling"
  /\ endpoint' = IF endpoint = "deleted" THEN endpoint ELSE "inactive"
  /\ Goto(d, "returning")
  /\ UNCHANGED <<dispatching, table, queue, answer, crashes, history>>

(* A call that throws; in the last attempt there is no other.              *)
HandlerFault(d) ==
  /\ Faults
  /\ pc[d] \in {"loading", "answered", "counting", "disabling", "returning"}
  /\ Goto(d, "throwing")
  /\ struck' = IF made[d] + 1 >= MaxAttempts THEN struck \cup {d} ELSE struck
  /\ UNCHANGED <<endpoint, dispatching, table, queue, answer, crashes, posts,
                 acks, gaveUp, switched>>

Crash ==
  /\ crashes < MaxCrashes
  /\ Busy # {}
  /\ pc' = [d \in Deliveries |-> "idle"]
  /\ answer' = [d \in Deliveries |-> "none"]
  /\ crashes' = crashes + 1
  /\ UNCHANGED <<endpoint, dispatching, table, queue, history>>

-----------------------------------------------------------------------------
(* The admin: update() with isActive, and delete().                        *)

SwitchEndpoint ==
  /\ Admin
  /\ endpoint # "deleted"
  /\ endpoint' \in {"active", "inactive"}
  /\ switched' = TRUE
  /\ UNCHANGED <<dispatching, table, queue, worker, crashes, posts, acks, gaveUp,
                 struck>>

DeleteEndpoint ==
  /\ Admin
  /\ endpoint # "deleted"
  /\ endpoint' = "deleted"
  /\ switched' = TRUE
  /\ UNCHANGED <<dispatching, table, queue, worker, crashes, posts, acks, gaveUp,
                 struck>>

-----------------------------------------------------------------------------
Dispatch(d) ==
  DispatchFind(d) \/ DispatchCreate(d) \/ DispatchEnqueue(d) \/ DispatchAbort(d)

QueueStep(d) ==
  Promote(d) \/ Pick(d) \/ StalledCheck(d) \/ Complete(d) \/ FailAttempt(d)

WorkerStep(d) ==
  \/ Load(d) \/ Post(d) \/ RecordDelivery(d) \/ RecordRetry(d)
  \/ RecordFailure(d) \/ CountFailures(d) \/ Disable(d) \/ HandlerFault(d)

Next ==
  \/ \E d \in Deliveries : Dispatch(d) \/ QueueStep(d) \/ WorkerStep(d)
  \/ Crash
  \/ SwitchEndpoint
  \/ DeleteEndpoint

Spec == Init /\ [][Next]_vars

(***************************************************************************)
(* Fairness: the queue and the worker keep working (a POST times out after *)
(* ten seconds at the latest); nobody has to raise events, switch the      *)
(* endpoint or crash, and no endpoint has to answer.                       *)
(***************************************************************************)
Fairness ==
  \A d \in Deliveries :
    /\ WF_vars(WorkerStep(d))
    /\ WF_vars(Promote(d))
    /\ SF_vars(Pick(d))
    /\ WF_vars(StalledCheck(d) \/ Complete(d) \/ FailAttempt(d))

FairSpec == Spec /\ Fairness

-----------------------------------------------------------------------------
(***************************************************************************)
(* A delivery the log shows as delivered was answered with a 2xx status in *)
(* one of its POSTs, whichever of its handlers wrote the row last.         *)
(***************************************************************************)
DeliveredIsTruthful == \A d \in Deliveries : row[d].delivered => acks[d] >= 1

(***************************************************************************)
(* "retries with backoff, max 5" (ERD.md), precisely: a job that was moved *)
(* back by a crash is one more POST, so a delivery is posted at most       *)
(* MaxAttempts + MaxStalled times.                                         *)
(***************************************************************************)
PostsBound == \A d \in Deliveries : posts[d] <= MaxAttempts + MaxStalled

(***************************************************************************)
(* A worker disables the endpoint only after it gave up on at least        *)
(* Threshold deliveries, however the deliveries' retries interleave:       *)
(* deliveries that wait, or were never tried, are not failures.            *)
(***************************************************************************)
DisabledForFailures ==
  \A d \in Deliveries : pc[d] = "disabling" => Cardinality(gaveUp) >= Threshold

(***************************************************************************)
(* A row that shows a next retry has a job that will do it, whatever fails *)
(* or crashes, unless an admin or a worker took the endpoint away, a call  *)
(* of the last attempt threw, or the job stalled too often.                *)
(***************************************************************************)
RetryHasJob ==
  \A d \in Rows \ struck :
    row[d].retrying /\ ~switched /\ endpoint = "active" => job[d] \in Live

(***************************************************************************)
(* However the workers that give up at the same time interleave, the last  *)
(* of them sees the failures of all: Threshold deliveries whose last job   *)
(* ended with an answer, none of them delivered, switch the endpoint off,  *)
(* whatever failed or crashed on the way, unless an admin intervened.      *)
(***************************************************************************)
AnsweredFailuresDisable ==
  /\ Cardinality({d \in gaveUp \ struck :
                     row[d].status # "null" /\ job[d] \notin Live}) >= Threshold
  /\ \A d \in Deliveries : acks[d] = 0
  /\ ~switched
  => endpoint = "inactive"

(***************************************************************************)
(* A delivery whose job waits in the queue is delivered or given up in the *)
(* end, unless its endpoint is off at some time until then, or the last    *)
(* run of its job is ended by a failing call or one stall too many.        *)
(***************************************************************************)
DeliverySettles ==
  \A d \in Deliveries :
    job[d] \in {"delayed", "waiting"}
      ~> (row[d].delivered \/ d \in gaveUp \cup struck \/ endpoint # "active")
=============================================================================
