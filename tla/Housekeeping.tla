---------------------------- MODULE Housekeeping ----------------------------
(***************************************************************************)
(* The scheduled jobs over what was recorded: the monthly partitions of    *)
(* tracking_events that event-purge.service.ts drops and creates, the      *)
(* figures per day stats-rollup.service.ts keeps once the events are gone, *)
(* and the follow-up reminders of engagement-rollup.service.ts.            *)
(*                                                                         *)
(* Each job has a queue of its own with one worker at a time; a job that   *)
(* fails or whose process stops is over, and runs again at its next turn.  *)
(* The clock counts days from 0, and months have DaysPerMonth of them.     *)
(***************************************************************************)
EXTENDS Integers, FiniteSets

CONSTANTS
  Events,       \* human opens that come to be recorded
  Messages,
  None,
  DaysPerMonth,
  FirstDay,     \* the day of the migration
  LastDay,      \* bound: days
  Lookahead,    \* PARTITION_LOOKAHEAD_MONTHS
  RawDays,      \* the retention.raw_events_days an admin may choose
  FollowUpDays, \* follow_up_days of the messages
  MaxDelay,     \* bound: days between an open and its row
  MaxFaults     \* bound: jobs that end in the middle

ASSUME HousekeepingAssumption ==
  /\ IsFiniteSet(Events) /\ IsFiniteSet(Messages)
  /\ DaysPerMonth \in Nat \ {0}
  /\ FirstDay \in Nat /\ LastDay \in Nat /\ FirstDay <= LastDay
  /\ FirstDay >= DaysPerMonth /\ FirstDay >= MaxDelay
  /\ Lookahead \in Nat /\ FollowUpDays \in Nat \ {0}
  /\ MaxDelay \in 0..1 /\ MaxFaults \in Nat
  /\ RawDays \subseteq Nat \ {0}
  /\ None \notin Messages \cup Int

VARIABLES
  today,
  retention,  \* raw_events_days in the settings
  month,      \* the months that have a partition
  event,      \* the rows of tracking_events, and those dropped
  message,    \* the rows of email_messages
  stats,      \* the rows of daily_stats for all accounts and templates
  purge,      \* what the running event-purge job holds
  reminding,  \* what the running engagement-rollup job holds
  faults,     \* jobs that ended in the middle
  dirty,      \* history: days that changed since a rollup covered them
  kept,       \* history: month of the last event-purge job that came to its end
  late,       \* history: a month began that was beyond the look-ahead of kept
  reminders   \* history: reminders for each message

rows    == <<month, event, message>>
history == <<dirty, kept, late, reminders>>
jobs    == <<purge, reminding, faults>>
vars    == <<today, retention, rows, stats, jobs, history>>

Days == 0..LastDay
Month(d) == d \div DaysPerMonth
Months == 0..(Month(LastDay) + Lookahead)

EventRow == [place: {"none", "partition", "default", "dropped"},
             day: Days]

MessageRow == [sent: Days \cup {None}, bounced: BOOLEAN, answered: BOOLEAN,
               notified: BOOLEAN]

Figures == [sent: Nat, bounced: Nat, opens: Nat]

PurgeState == [at: {"idle", "drop", "ensure"}, drop: SUBSET Months,
               next: Months, from: Months]

ReminderState == [due: SUBSET Messages, told: Messages \cup {None}]

Zero == [sent |-> 0, bounced |-> 0, opens |-> 0]

NoPurge == [at |-> "idle", drop |-> {}, next |-> 0, from |-> 0]

NoReminders == [due |-> {}, told |-> None]

(* The migration creates the partitions from the month before it to        *)
(* Lookahead months ahead.                                                 *)
Init ==
  /\ today = FirstDay
  /\ retention \in RawDays
  /\ month = (Month(FirstDay) - 1)..(Month(FirstDay) + Lookahead)
  /\ event = [e \in Events |-> [place |-> "none", day |-> 0]]
  /\ message = [m \in Messages |-> [sent |-> None, bounced |-> FALSE,
                                    answered |-> FALSE, notified |-> FALSE]]
  /\ stats = [d \in Days |-> Zero]
  /\ purge = NoPurge
  /\ reminding = NoReminders
  /\ faults = 0
  /\ dirty = {}
  /\ kept = Month(FirstDay)
  /\ late = FALSE
  /\ reminders = [m \in Messages |-> 0]

-----------------------------------------------------------------------------
(* What the rest of the system does meanwhile. *)

NextDay ==
  /\ today < LastDay
  /\ today' = today + 1
  /\ late' = (late \/ Month(today + 1) > kept + Lookahead)
  /\ UNCHANGED <<retention, rows, stats, jobs, dirty, kept, reminders>>

(* settings.service.ts; its schema takes positive integers only.           *)
UpdateRetention ==
  /\ retention' \in RawDays \ {retention}
  /\ UNCHANGED <<today, rows, stats, jobs, history>>

Send(m) ==
  /\ message[m].sent = None
  /\ message' = [message EXCEPT ![m].sent = today]
  /\ dirty' = dirty \cup {today}
  /\ UNCHANGED <<today, retention, month, event, stats, jobs, kept, late, reminders>>

Bounce(m) ==
  /\ message[m].sent # None /\ ~message[m].bounced
  /\ message' = [message EXCEPT ![m].bounced = TRUE]
  /\ dirty' = dirty \cup {message[m].sent}
  /\ UNCHANGED <<today, retention, month, event, stats, jobs, kept, late, reminders>>

(* An event goes to the partition of its month, to the default partition   *)
(* when there is none.  first_opened_at is set with it.                    *)
Place(d) == IF Month(d) \in month THEN "partition" ELSE "default"

Open(e, m, d) ==
  /\ event[e].place = "none"
  /\ message[m].sent # None
  /\ d \in message[m].sent..today /\ d >= today - MaxDelay
  /\ event' = [event EXCEPT ![e] = [place |-> Place(d), day |-> d]]
  /\ message' = [message EXCEPT ![m].answered = TRUE]
  /\ dirty' = dirty \cup {d}
  /\ UNCHANGED <<today, retention, month, stats, jobs, kept, late, reminders>>

(* inbound-match.service.ts sets replied_at.                               *)
Reply(m) ==
  /\ message[m].sent # None /\ ~message[m].answered
  /\ message' = [message EXCEPT ![m].answered = TRUE]
  /\ UNCHANGED <<today, retention, month, event, stats, jobs, history>>

-----------------------------------------------------------------------------
(* event-purge.service.ts *)

(* Mutant: the month of the cutoff is dropped too.                         *)
ExpiredThrough == {p \in month : p <= Month(today - retention)}

(* Months that end before the day of the cutoff does.                      *)
Expired == {p \in month : p < Month(today - retention)}

PurgeStart ==
  /\ purge.at = "idle"
  /\ purge' = [at |-> "drop", drop |-> Expired, next |-> 0, from |-> 0]
  /\ UNCHANGED <<today, retention, rows, stats, reminding, faults, history>>

PurgeDrop(p) ==
  /\ purge.at = "drop" /\ p \in purge.drop
  /\ purge' = [purge EXCEPT !.drop = @ \ {p}]
  /\ month' = month \ {p}
  /\ event' = [e \in Events |->
                 IF event[e].place = "partition" /\ Month(event[e].day) = p
                 THEN [event[e] EXCEPT !.place = "dropped"] ELSE event[e]]
  /\ UNCHANGED <<today, retention, message, stats, reminding, faults, history>>

PurgeDropped ==
  /\ purge.at = "drop" /\ purge.drop = {}
  /\ purge' = [purge EXCEPT !.at = "ensure", !.from = Month(today), !.next = Month(today)]
  /\ UNCHANGED <<today, retention, rows, stats, reminding, faults, history>>

(* PostgreSQL refuses a partition for rows the default partition holds.    *)
Refused(p) ==
  /\ p \notin month
  /\ \E e \in Events : event[e].place = "default" /\ Month(event[e].day) = p

(* Mutants: the loop stops one month short, or goes on for one too many.   *)
EnsuredShort(p) == p + 1 >= purge.from + Lookahead

EnsuredLong(p) == p > purge.from + Lookahead

Ensured(p) == p = purge.from + Lookahead

PurgeEnsure ==
  LET p == purge.next IN
  /\ purge.at = "ensure"
  /\ ~Refused(p)
  /\ month' = month \cup {p}
  /\ IF Ensured(p) THEN purge' = NoPurge /\ kept' = purge.from
     ELSE purge' = [purge EXCEPT !.next = p + 1] /\ UNCHANGED kept
  /\ UNCHANGED <<today, retention, event, message, stats, reminding, faults, dirty,
                 late, reminders>>

PurgeRefused ==
  /\ purge.at = "ensure" /\ Refused(purge.next)
  /\ purge' = NoPurge
  /\ UNCHANGED <<today, retention, rows, stats, reminding, faults, history>>

-----------------------------------------------------------------------------
(* stats-rollup.service.ts: one statement for yesterday and today.         *)

SentOn(d) == {m \in Messages : message[m].sent = d}

Figured(d, es) ==
  [sent    |-> Cardinality(SentOn(d)),
   bounced |-> Cardinality({m \in SentOn(d) : message[m].bounced}),
   opens   |-> Cardinality(es)]

OpensOn(d, places) == {e \in Events : event[e].place \in places /\ event[e].day = d}

Stored(d) == OpensOn(d, {"partition", "default"})

(* A day without messages and events has no group, and keeps its row.      *)
Rollup ==
  LET covered == {d \in {today - 1, today} : SentOn(d) # {} \/ Stored(d) # {}} IN
  /\ stats' = [d \in Days |-> IF d \in covered THEN Figured(d, Stored(d)) ELSE stats[d]]
  /\ dirty' = dirty \ {today - 1, today}
  /\ UNCHANGED <<today, retention, rows, jobs, kept, late, reminders>>

-----------------------------------------------------------------------------
(* engagement-rollup.service.ts *)

Due(m) ==
  /\ message[m].sent # None /\ message[m].sent <= today - FollowUpDays
  /\ ~message[m].answered /\ ~message[m].bounced /\ ~message[m].notified

RemindScan ==
  /\ reminding = NoReminders
  /\ \E m \in Messages : Due(m)
  /\ reminding' = [due |-> {m \in Messages : Due(m)}, told |-> None]
  /\ UNCHANGED <<today, retention, rows, stats, purge, faults, history>>

Remind(m) ==
  /\ reminding.told = None /\ m \in reminding.due
  /\ reminding' = [reminding EXCEPT !.told = m]
  /\ reminders' = [reminders EXCEPT ![m] = @ + 1]
  /\ UNCHANGED <<today, retention, rows, stats, purge, faults, dirty, kept, late>>

(* Mutant: what was notified is not marked.                                *)
MarkedNone(m) == message

Marked(m) == [message EXCEPT ![m].notified = TRUE]

MarkNotified ==
  LET m == reminding.told IN
  /\ m # None
  /\ message' = Marked(m)
  /\ reminding' = [due |-> reminding.due \ {m}, told |-> None]
  /\ UNCHANGED <<today, retention, month, event, stats, purge, faults, history>>

-----------------------------------------------------------------------------
(* A statement fails or the process stops: the jobs that run are over. *)
Fault ==
  /\ purge # NoPurge \/ reminding # NoReminders
  /\ faults < MaxFaults
  /\ faults' = faults + 1
  /\ purge' = NoPurge /\ reminding' = NoReminders
  /\ UNCHANGED <<today, retention, rows, stats, history>>

Next ==
  \/ NextDay \/ UpdateRetention
  \/ \E m \in Messages : Send(m) \/ Bounce(m) \/ Reply(m) \/ Remind(m)
  \/ \E e \in Events, m \in Messages, d \in Days : Open(e, m, d)
  \/ PurgeStart \/ PurgeDropped \/ PurgeEnsure \/ PurgeRefused
  \/ \E p \in Months : PurgeDrop(p)
  \/ Rollup \/ RemindScan \/ MarkNotified \/ Fault

Spec == Init /\ [][Next]_vars

-----------------------------------------------------------------------------
(* The rows, and what the jobs hold, have the shapes of their tables and   *)
(* handlers.                                                               *)
TypeOK ==
  /\ today \in Days
  /\ retention \in RawDays
  /\ month \subseteq Months
  /\ event \in [Events -> EventRow]
  /\ message \in [Messages -> MessageRow]
  /\ stats \in [Days -> Figures]
  /\ purge \in PurgeState
  /\ reminding \in ReminderState
  /\ faults \in 0..MaxFaults
  /\ dirty \subseteq Days
  /\ kept \in Months
  /\ late \in BOOLEAN
  /\ reminders \in [Messages -> Nat]

(* "daily_stats aggregates are untouched": the figures of a day are those  *)
(* of all that happened on it up to the last rollup that covered it, its   *)
(* dropped events included.  No rollup finds a day half dropped.           *)
StatsKept ==
  \A d \in Days \ dirty :
    stats[d] = Figured(d, OpensOn(d, {"partition", "default", "dropped"}))

(* "inserts never silently fall back to the tracking_events_default        *)
(* catch-all", where no purge would find them, as long as an event-purge   *)
(* job comes to its end once in every Lookahead months.                    *)
DefaultStaysEmpty ==
  late \/ \A e \in Events : event[e].place # "default"

(* "Marks a follow-up reminder as fired so the rollup job never            *)
(* re-notifies": a message is reminded of once, and once more for each job *)
(* that ends between the notification and the mark.                        *)
RemindersBound == \A m \in Messages : reminders[m] <= 1 + faults
=============================================================================
