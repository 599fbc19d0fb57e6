------------------------------ MODULE Tracking ------------------------------
(***************************************************************************)
(* Open and click tracking, from the pixel and link endpoints              *)
(* (tracking.controller.ts) through the tracking queue and its workers     *)
(* (tracking-event-processor.service.ts) to the event log, the counters of *)
(* messages and links, the first-open notification, and the realtime       *)
(* stream that turns committed events into toasts (realtime-events.        *)
(* service.ts, realtime-context.tsx).  Times are in ticks of the sibling   *)
(* window.  The rate limiter in front only drops requests.                 *)
(***************************************************************************)
EXTENDS Integers, FiniteSets

CONSTANTS
  Messages,     \* mailed messages
  Positions,    \* positions of the links in a message
  Unknown,      \* a token no message has
  Hits,         \* requests that reach the queue, one job each
  InstantLinks, \* ALL_LINKS_INSTANT_THRESHOLD
  MaxAttempts, MaxStalled, Concurrency,  \* of the tracking queue
  MaxMishaps    \* bound: mishaps, restarts, lost connections, failed calls

ASSUME TrackingAssumption ==
  /\ Unknown \notin Messages
  /\ IsFiniteSet(Hits) /\ InstantLinks \in Nat /\ MaxMishaps \in Nat
  /\ MaxAttempts \in Nat \ {0} /\ MaxStalled \in Nat
  /\ Concurrency \in Nat \ {0}

VARIABLES
  hits,        \* the data of the jobs that were queued
  job, made, stalls, \* the BullMQ jobs
  pc,          \* where the worker that runs the job is
  seen,        \* the open_count it read
  bot,         \* its verdict
  events,      \* tracking_events
  openCount, clickCount, linkClicks, \* email_messages, email_links
  told,        \* calls of notify() for a first open
  listening,   \* the LISTEN connection is up
  notes,       \* notifications the api process is handling
  toasts,      \* events sent to the stream as a first open
  mishaps

queue    == <<hits, job, made, stalls>>
worker   == <<pc, seen, bot>>
database == <<events, openCount, clickCount, linkClicks, told>>
realtime == <<listening, notes, toasts>>
vars     == <<queue, worker, database, realtime, mishaps>>

Links == Messages \X Positions
NoLink == <<>>

Hit == [kind: {"open", "click"}, message: Messages \cup {Unknown},
        link: Links \cup {NoLink}, machine: BOOLEAN, at: Nat]

TrackingEventType == {"open", "open_inferred", "click"}

(* A row is identified by the run of the job that inserted it.             *)
Event == [hit: Hits, run: Nat, message: Messages, link: Links \cup {NoLink},
          type: TrackingEventType, bot: BOOLEAN, at: Nat]

Note == [hit: Hits, run: Nat, message: Messages]

(* The jobs the worker runs.                                               *)
Busy == {h \in Hits : pc[h] # "idle"}

JobState == {"none", "delayed", "waiting", "active", "completed", "failed"}

(***************************************************************************)
(* The one type invariant.                                                 *)
(***************************************************************************)
TypeOK ==
  /\ \E queued \in SUBSET Hits : hits \in [queued -> Hit]
  /\ job \in [Hits -> JobState]
  /\ made \in [Hits -> 0..MaxAttempts]
  /\ stalls \in [Hits -> 0..MaxStalled]
  /\ pc \in [Hits -> {"idle", "loading", "judging", "committing", "telling",
                      "returning", "throwing"}]
  /\ Cardinality(Busy) <= Concurrency
  /\ seen \in [Hits -> Nat] /\ bot \in [Hits -> BOOLEAN]
  /\ events \subseteq Event
  /\ openCount \in [Messages -> Nat] /\ clickCount \in [Messages -> Nat]
  /\ linkClicks \in [Links -> Nat]
  /\ told \in [Messages -> Nat]
  /\ listening \in BOOLEAN /\ notes \subseteq Note
  /\ toasts \in [Messages -> Nat]
  /\ mishaps \in 0..MaxMishaps

Init ==
  /\ hits = [h \in {} |-> h]
  /\ job = [h \in Hits |-> "none"]
  /\ made = [h \in Hits |-> 0] /\ stalls = [h \in Hits |-> 0]
  /\ pc = [h \in Hits |-> "idle"]
  /\ seen = [h \in Hits |-> 0] /\ bot = [h \in Hits |-> FALSE]
  /\ events = {}
  /\ openCount = [m \in Messages |-> 0] /\ clickCount = [m \in Messages |-> 0]
  /\ linkClicks = [l \in Links |-> 0]
  /\ told = [m \in Messages |-> 0]
  /\ listening = TRUE /\ notes = {} /\ toasts = [m \in Messages |-> 0]
  /\ mishaps = 0

Mishap == mishaps < MaxMishaps /\ mishaps' = mishaps + 1

-----------------------------------------------------------------------------
(* A request the rate limiter lets through is queued.                      *)
Enqueue(h, data) ==
  /\ hits' = [x \in DOMAIN hits \cup {h} |-> IF x = h THEN data ELSE hits[x]]
  /\ job' = [job EXCEPT ![h] = "waiting"]
  /\ UNCHANGED <<made, stalls>>

(* When a click occurs: in the window of the one before it, or later.      *)
Now ==
  LET clicks == {h \in DOMAIN hits : hits[h].kind = "click"}
      last   == {h \in clicks : \A g \in clicks : hits[g].at <= hits[h].at}
  IN  IF clicks = {} THEN {0} ELSE UNION {{hits[h].at, hits[h].at + 1} : h \in last}

(* A request is from a machine when it alone says so: its user agent, or,  *)
(* for a click, a hosting provider's address or too few seconds since the  *)
(* send.  The time of an open decides nothing here.                        *)
Pixel(h, token, machine) ==
  /\ h \notin DOMAIN hits
  /\ Enqueue(h, [kind |-> "open", message |-> token, link |-> NoLink,
                 machine |-> machine, at |-> 0])
  /\ UNCHANGED <<worker, database, realtime, mishaps>>

(* A click on an unknown token redirects to the home page and leaves no    *)
(* trace, so only the links of messages are clicked here.                  *)
ClickLink(h, link, machine) ==
  /\ h \notin DOMAIN hits
  /\ \E t \in Now :
       Enqueue(h,
               [kind |-> "click", message |-> link[1], link |-> link,
                machine |-> machine, at |-> t])
  /\ UNCHANGED <<worker, database, realtime, mishaps>>

-----------------------------------------------------------------------------
(* The queue's own steps (BullMQ).                                         *)

Promote(h) ==
  /\ job[h] = "delayed"
  /\ job' = [job EXCEPT ![h] = "waiting"]
  /\ UNCHANGED <<hits, made, stalls, worker, database,
                 realtime, mishaps>>

(* Mutant: one job more than the worker has slots.                         *)
PickOneMore(h) ==
  /\ job[h] = "waiting"
  /\ Cardinality(Busy) <= Concurrency
  /\ job' = [job EXCEPT ![h] = "active"]
  /\ pc' = [pc EXCEPT ![h] = "loading"]
  /\ UNCHANGED <<hits, made, stalls, seen, bot, database, realtime, mishaps>>

Pick(h) ==
  /\ job[h] = "waiting"
  /\ Cardinality(Busy) < Concurrency
  /\ job' = [job EXCEPT ![h] = "active"]
  /\ pc' = [pc EXCEPT ![h] = "loading"]
  /\ UNCHANGED <<hits, made, stalls, seen, bot, database, realtime, mishaps>>

StalledCheck(h) ==
  /\ job[h] = "active"
  /\ pc[h] = "idle"
  /\ IF stalls[h] < MaxStalled
       THEN /\ job' = [job EXCEPT ![h] = "waiting"]
            /\ stalls' = [stalls EXCEPT ![h] = @ + 1]
       ELSE /\ job' = [job EXCEPT ![h] = "failed"]
            /\ UNCHANGED stalls
  /\ UNCHANGED <<hits, made, worker, database,
                 realtime, mishaps>>

Leave(h, state) ==
  /\ job' = [job EXCEPT ![h] = state]
  /\ pc' = [pc EXCEPT ![h] = "idle"]
  /\ seen' = [seen EXCEPT ![h] = 0]
  /\ bot' = [bot EXCEPT ![h] = FALSE]
  /\ UNCHANGED <<hits, stalls, database, realtime, mishaps>>

Complete(h) ==
  /\ pc[h] = "returning"
  /\ Leave(h, "completed")
  /\ UNCHANGED made

FailAttempt(h) ==
  /\ pc[h] = "throwing"
  /\ made' = [made EXCEPT ![h] = @ + 1]
  /\ Leave(h, IF made[h] + 1 >= MaxAttempts THEN "failed" ELSE "delayed")

-----------------------------------------------------------------------------
(* processJob, one step per await outside a transaction.                   *)

Goto(h, label) == pc' = [pc EXCEPT ![h] = label]

Load(h) ==
  /\ pc[h] = "loading"
  /\ IF hits[h].message = Unknown
       THEN Goto(h, "returning") /\ UNCHANGED <<seen, bot>>
       ELSE /\ seen' = [seen EXCEPT ![h] = openCount[hits[h].message]]
            /\ bot' = [bot EXCEPT ![h] = hits[h].machine]
            /\ Goto(h, IF hits[h].kind = "open" THEN "committing" ELSE "judging")
  /\ UNCHANGED <<queue, database, realtime, mishaps>>

RecentLinks(h) ==
  {e.link : e \in {e \in events :
     e.message = hits[h].message /\ e.type = "click" /\ e.at = hits[h].at}}

Judge(h) ==
  /\ pc[h] = "judging"
  /\ bot' = [bot EXCEPT ![h] = @ \/ Cardinality(RecentLinks(h)) >= InstantLinks]
  /\ Goto(h, "committing")
  /\ UNCHANGED <<queue, seen, database, realtime, mishaps>>

(* The rows one transaction inserts: a human click on a message that was   *)
(* not open when it was read infers an open.                               *)
Inferred(h) == hits[h].kind = "click" /\ ~bot[h] /\ seen[h] = 0

Types(h) == {hits[h].kind} \cup (IF Inferred(h) THEN {"open_inferred"} ELSE {})

NewEvents(h) ==
  {[hit     |-> h,
    run     |-> made[h] + stalls[h],
    message |-> hits[h].message,
    link    |-> IF t = "click" THEN hits[h].link ELSE NoLink,
    type    |-> t,
    bot     |-> bot[h],
    at      |-> hits[h].at] : t \in Types(h)}

Opens(h) == IF ~bot[h] /\ Types(h) # {"click"} THEN 1 ELSE 0
Clicks(h) == IF ~bot[h] /\ hits[h].kind = "click" THEN 1 ELSE 0

(* Mutant: the inferred open is logged and not counted.                    *)
RecordOpenPixelOnly(h) ==
  openCount' = [openCount EXCEPT ![hits[h].message] =
                  @ + IF Inferred(h) THEN 0 ELSE Opens(h)]

RecordOpen(h) == openCount' = [openCount EXCEPT ![hits[h].message] = @ + Opens(h)]

RecordClick(h) ==
  /\ clickCount' = [clickCount EXCEPT ![hits[h].message] = @ + Clicks(h)]
  /\ linkClicks' = IF hits[h].kind = "click"
                     THEN [linkClicks EXCEPT ![hits[h].link] = @ + Clicks(h)]
                     ELSE linkClicks

(* pg_notify is sent for human events, at the commit.  Only opens are      *)
(* followed: clicks are handled alike, with click_count.                   *)
Published(h) ==
  IF listening /\ Opens(h) = 1
    THEN {[hit |-> h, run |-> made[h] + stalls[h], message |-> hits[h].message]}
    ELSE {}

(* The transaction.  When the connection is lost at the commit, the rows   *)
(* may be there although the handler throws.                               *)
Commit(h) ==
  /\ pc[h] = "committing"
  /\ events' = events \cup NewEvents(h)
  /\ RecordOpen(h)
  /\ RecordClick(h)
  /\ notes' = notes \cup Published(h)
  /\ \/ Goto(h, IF bot[h] THEN "returning" ELSE "telling") /\ UNCHANGED mishaps
     \/ Goto(h, "throwing") /\ Mishap
  /\ UNCHANGED <<queue, seen, bot, told, listening, toasts>>

(* Mutant: every open is the first.                                        *)
FirstOpenAlways(h) == hits[h].kind = "open"

(* Whether the message was open before, as the handler knows it.           *)
FirstOpen(h) == hits[h].kind = "open" /\ seen[h] = 0

(* notify() does not throw, whether it creates the notification or not;    *)
(* the webhook fan-out that follows (module WebhookDelivery) neither.      *)
Tell(h) ==
  /\ pc[h] = "telling"
  /\ told' = IF FirstOpen(h) THEN [told EXCEPT ![hits[h].message] = @ + 1] ELSE told
  /\ Goto(h, "returning")
  /\ UNCHANGED <<queue, seen, bot, events, openCount,
                 clickCount, linkClicks, realtime, mishaps>>

(* Mutant: an error is logged and swallowed.                               *)
HandlerFaultSwallowed(h) ==
  /\ Mishap
  /\ pc[h] \in {"loading", "judging", "committing"}
  /\ Goto(h, "returning")
  /\ UNCHANGED <<queue, seen, bot, database, realtime>>

HandlerFault(h) ==
  /\ Mishap
  /\ pc[h] \in {"loading", "judging", "committing"}
  /\ Goto(h, "throwing")
  /\ UNCHANGED <<queue, seen, bot, database, realtime>>

Crash ==
  /\ Mishap
  /\ Busy # {}
  /\ pc' = [h \in Hits |-> "idle"]
  /\ seen' = [h \in Hits |-> 0]
  /\ bot' = [h \in Hits |-> FALSE]
  /\ UNCHANGED <<queue, database, realtime>>

-----------------------------------------------------------------------------
(* The api process: the LISTEN connection, and one async handler per       *)
(* notification, which reads the message and then emits to the stream.     *)

ConnectionError ==
  /\ Mishap
  /\ listening
  /\ listening' = FALSE
  /\ UNCHANGED <<queue, worker, database, notes, toasts>>

Reconnect ==
  /\ ~listening
  /\ listening' = TRUE
  /\ UNCHANGED <<queue, worker, database, notes, toasts, mishaps>>

(* Mutant: any event of an opened message.                                 *)
IsFirstOpenLoose(n) == openCount[n.message] >= 1

IsFirstOpen(n) == openCount[n.message] = 1

(* The message is read some time after the commit that announced it; a tab *)
(* that is connected to the stream shows a toast for a first open.         *)
HandleNotification(n) ==
  /\ notes' = notes \ {n}
  /\ toasts' = IF IsFirstOpen(n) THEN [toasts EXCEPT ![n.message] = @ + 1] ELSE toasts
  /\ UNCHANGED <<queue, worker, database, listening, mishaps>>

(* The notifications are in the process only.                              *)
ApiRestart ==
  /\ Mishap
  /\ notes # {} \/ listening
  /\ notes' = {}
  /\ listening' = FALSE
  /\ UNCHANGED <<queue, worker, database, toasts>>

-----------------------------------------------------------------------------
QueueStep(h) ==
  Promote(h) \/ Pick(h) \/ StalledCheck(h) \/ Complete(h) \/ FailAttempt(h)

WorkerStep(h) == Load(h) \/ Judge(h) \/ Commit(h) \/ Tell(h) \/ HandlerFault(h)

Next ==
  \/ \E h \in Hits :
       \/ \E t \in Messages, b \in BOOLEAN : Pixel(h, t, b)
       \/ Pixel(h, Unknown, FALSE)
       \/ \E l \in Links, b \in BOOLEAN : ClickLink(h, l, b)
       \/ QueueStep(h)
       \/ WorkerStep(h)
  \/ \E n \in notes : HandleNotification(n)
  \/ ConnectionError \/ Reconnect \/ ApiRestart \/ Crash

Spec == Init /\ [][Next]_vars

-----------------------------------------------------------------------------
(***************************************************************************)
(* The counters of messages and links are those of the event log without   *)
(* its bot events, after any crash, fault or repeated job: FR-5.6, "bot    *)
(* events stored but excluded from headline counters".                     *)
(***************************************************************************)
Human(m, types) == {e \in events : e.message = m /\ e.type \in types /\ ~e.bot}

CountersMatch ==
  /\ \A m \in Messages :
       /\ openCount[m] = Cardinality(Human(m, {"open", "open_inferred"}))
       /\ clickCount[m] = Cardinality(Human(m, {"click"}))
  /\ \A l \in Links :
       linkClicks[l] = Cardinality({e \in events : e.link = l /\ ~e.bot})

(***************************************************************************)
(* A request whose job completed is in the log, and no request is there    *)
(* more than once, and once more for each time its job threw or stalled.   *)
(***************************************************************************)
RowsOf(h) == {e \in events : e.hit = h /\ e.type # "open_inferred"}

HitsRecorded ==
  \A h \in DOMAIN hits :
    /\ Cardinality(RowsOf(h)) <= 1 + made[h] + stalls[h]
    /\ job[h] = "completed" /\ hits[h].message # Unknown => RowsOf(h) # {}

(***************************************************************************)
(* Jobs that run at the same time may each find the message unopened, so   *)
(* the first open may be told, and opens inferred, more than once, but at  *)
(* most once per worker slot however many jobs there are.                  *)
(***************************************************************************)
FirstOpensBound ==
  \A m \in Messages :
    told[m] + Cardinality(Human(m, {"open_inferred"})) <= Concurrency

(***************************************************************************)
(* At most one event of a message goes out as its first open, although the *)
(* counter is read after the event was committed and the handlers of       *)
(* several events run at the same time.                                    *)
(***************************************************************************)
OneToast == \A m \in Messages : toasts[m] <= 1
=============================================================================
