------------------------- MODULE HousekeepingProofs -------------------------
(***************************************************************************)
(* The invariants of Housekeeping hold for any number of events, messages  *)
(* and days, any length of a month, and any retention and look-ahead.      *)
(***************************************************************************)
EXTENDS Housekeeping, FiniteSetTheorems, TLAPS

-----------------------------------------------------------------------------
(* Months.                                                                 *)

LEMMA MonthInt ==
  ASSUME NEW a \in Int PROVE Month(a) \in Int /\ (a >= 0 => Month(a) >= 0)
  BY HousekeepingAssumption DEF Month

LEMMA MonthMono ==
  ASSUME NEW a \in Int, NEW b \in Int, a <= b PROVE Month(a) <= Month(b)
  BY HousekeepingAssumption DEF Month

LEMMA FirstMonth == Month(FirstDay) >= 1
  BY HousekeepingAssumption DEF Month

LEMMA LastMonth == Month(LastDay) \in Nat
  BY MonthInt, HousekeepingAssumption

LEMMA MonthsRange ==
  ASSUME NEW p
  PROVE  p \in Months <=> p \in Int /\ 0 <= p /\ p <= Month(LastDay) + Lookahead
  BY LastMonth, HousekeepingAssumption DEF Months

LEMMA DayMonth ==
  ASSUME NEW d \in Days PROVE Month(d) \in Nat /\ Month(d) + Lookahead \in Months /\ Month(d) \in Months
<1> USE HousekeepingAssumption
<1>1. d \in Int /\ d >= 0 /\ d <= LastDay /\ LastDay \in Int
  BY DEF Days
<1>2. Month(d) \in Int /\ Month(d) >= 0 /\ Month(LastDay) \in Int /\ Month(d) <= Month(LastDay)
  BY <1>1, MonthInt, MonthMono
<1> QED  BY <1>2 DEF Months

-----------------------------------------------------------------------------
(* The inductive invariant.                                                *)

(* A reminder that is told of and not marked yet is of the running job.    *)
ReminderInv ==
  /\ reminding.told # None => reminding.told \in reminding.due
  /\ \A m \in reminding.due : ~message[m].notified
  /\ \A m \in Messages :
       reminders[m] <= faults + (IF message[m].notified \/ reminding.told = m THEN 1 ELSE 0)

(* The months from yesterday's to the look-ahead of the last purge have    *)
(* their partitions, and what a purge is about to drop ended before.       *)
PartitionInv ==
  /\ \A p \in purge.drop : p < Month(today - 1)
  /\ kept <= Month(today)
  /\ purge.at = "ensure" =>
       /\ kept <= purge.from /\ purge.from <= Month(today)
       /\ purge.from <= purge.next /\ purge.next <= purge.from + Lookahead
       /\ \A p \in Months : purge.from <= p /\ p < purge.next => p \in month
  /\ ~late =>
       /\ Month(today) <= kept + Lookahead
       /\ \A p \in Months : Month(today - 1) <= p /\ p <= kept + Lookahead => p \in month
  /\ DefaultStaysEmpty

All == {"partition", "default", "dropped"}

Full(d) == Figured(d, OpensOn(d, All))

(* A day is dirty for something that happened on it, and its events are    *)
(* there as long as a rollup still covers it.                              *)
StatsInv ==
  /\ \A e \in Events : event[e].place = "dropped" => event[e].day < today - 1
  /\ \A d \in dirty : SentOn(d) # {} \/ OpensOn(d, All) # {}
  /\ \A d \in Days \ dirty : stats[d] = Full(d)

Inv == TypeOK /\ ReminderInv /\ PartitionInv /\ StatsInv

-----------------------------------------------------------------------------
(* Types.                                                                  *)

LEMMA FiguresType ==
  ASSUME NEW d, NEW es \in SUBSET Events PROVE Figured(d, es) \in Figures
<1> USE HousekeepingAssumption
<1>1. IsFiniteSet(SentOn(d)) /\ IsFiniteSet(es)
      /\ IsFiniteSet({m \in SentOn(d) : message[m].bounced})
  <2>1. SentOn(d) \subseteq Messages /\ {m \in SentOn(d) : message[m].bounced} \subseteq Messages
    BY DEF SentOn
  <2> QED  BY <2>1, FS_Subset
<1> QED  BY <1>1, FS_CardinalityType DEF Figured, Figures

LEMMA TypeInit == Init => TypeOK
<1> USE HousekeepingAssumption
<1> SUFFICES ASSUME Init PROVE TypeOK
  OBVIOUS
<1>1. today \in Days /\ FirstDay \in Days /\ 0 \in Days
  BY DEF Init, Days
<1>2. Month(FirstDay) \in Nat /\ Month(FirstDay) + Lookahead \in Months /\ Month(FirstDay) \in Months
  BY <1>1, DayMonth
<1>3. month \subseteq Months
  <2>1. month = (Month(FirstDay) - 1)..(Month(FirstDay) + Lookahead)
    BY DEF Init
  <2>2. Month(FirstDay) + Lookahead <= Month(LastDay) + Lookahead
    BY <1>2, MonthsRange
  <2>3. ASSUME NEW p \in month PROVE p \in Months
    BY <1>2, <2>1, <2>2, <2>3, FirstMonth, LastMonth, MonthsRange
  <2> QED  BY <2>3
<1>4. purge \in PurgeState
  BY <1>2, MonthInt DEF Init, NoPurge, PurgeState, Months
<1>5. event \in [Events -> EventRow] /\ message \in [Messages -> MessageRow]
  BY <1>1 DEF Init, EventRow, MessageRow
<1>6. stats \in [Days -> Figures] /\ reminding \in ReminderState
  BY DEF Init, Zero, Figures, NoReminders, ReminderState
<1>7. kept \in Months /\ faults \in 0..MaxFaults /\ dirty \subseteq Days /\ late \in BOOLEAN
      /\ retention \in RawDays /\ reminders \in [Messages -> Nat]
  <2>1. kept \in Months
    BY <1>2 DEF Init
  <2>2. faults \in 0..MaxFaults
    BY DEF Init
  <2>3. retention \in RawDays /\ dirty \subseteq Days
    BY DEF Init
  <2>4. reminders \in [Messages -> Nat]
    BY DEF Init
  <2>5. late \in BOOLEAN
    BY DEF Init
  <2> QED  BY <2>1, <2>2, <2>3, <2>4, <2>5
<1> QED  BY <1>1, <1>3, <1>4, <1>5, <1>6, <1>7 DEF TypeOK

LEMMA NoPurgeType == NoPurge \in PurgeState /\ NoReminders \in ReminderState
<1> USE HousekeepingAssumption
<1>1. 0 \in Months
  BY LastMonth, MonthsRange
<1> QED  BY <1>1 DEF NoPurge, PurgeState, NoReminders, ReminderState

LEMMA TypeStep ==
  ASSUME TypeOK, PartitionInv, [Next]_vars PROVE TypeOK'
<1> USE HousekeepingAssumption
<1>t. today \in Days /\ today \in Int /\ Month(today) \in Nat /\ Month(today) \in Months
      /\ Month(today) + Lookahead \in Months
  BY DayMonth DEF TypeOK, Days
<1>p. /\ purge.at \in {"idle", "drop", "ensure"} /\ purge.drop \subseteq Months
      /\ purge.next \in Months /\ purge.from \in Months
      /\ reminding.due \subseteq Messages /\ reminding.told \in Messages \cup {None}
  BY DEF TypeOK, PurgeState, ReminderState
<1>1. ASSUME NextDay PROVE TypeOK'
  <2>1. today' \in Days
    BY <1>1 DEF NextDay, TypeOK, Days
  <2> QED  BY <1>1, <2>1 DEF NextDay, TypeOK, rows, jobs
<1>2. ASSUME UpdateRetention PROVE TypeOK'
  BY <1>2 DEF UpdateRetention, TypeOK, rows, jobs, history
<1>3. ASSUME NEW m \in Messages, Send(m) PROVE TypeOK'
  <2>1. message' \in [Messages -> MessageRow] /\ dirty' \subseteq Days
    BY <1>3 DEF Send, TypeOK, MessageRow
  <2> QED  BY <1>3, <2>1 DEF Send, TypeOK, jobs
<1>4. ASSUME NEW m \in Messages, Bounce(m) PROVE TypeOK'
  <2>1. message' \in [Messages -> MessageRow] /\ dirty' \subseteq Days
    BY <1>4 DEF Bounce, TypeOK, MessageRow
  <2> QED  BY <1>4, <2>1 DEF Bounce, TypeOK, jobs
<1>5. ASSUME NEW m \in Messages, Reply(m) PROVE TypeOK'
  <2>1. message' \in [Messages -> MessageRow]
    BY <1>5 DEF Reply, TypeOK, MessageRow
  <2> QED  BY <1>5, <2>1 DEF Reply, TypeOK, jobs, history
<1>6. ASSUME NEW m \in Messages, Remind(m) PROVE TypeOK'
  <2>1. reminding' \in ReminderState /\ reminders' \in [Messages -> Nat]
    BY <1>6, <1>p DEF Remind, TypeOK, ReminderState
  <2> QED  BY <1>6, <2>1 DEF Remind, TypeOK, rows
<1>7. ASSUME NEW e \in Events, NEW m \in Messages, NEW d \in Days, Open(e, m, d) PROVE TypeOK'
  <2>1. message' \in [Messages -> MessageRow] /\ dirty' \subseteq Days
    BY <1>7 DEF Open, TypeOK, MessageRow
  <2>2. event' \in [Events -> EventRow]
    BY <1>7 DEF Open, Place, TypeOK, EventRow
  <2> QED  BY <1>7, <2>1, <2>2 DEF Open, TypeOK, jobs
<1>8. ASSUME PurgeStart PROVE TypeOK'
  <2>1. purge' \in PurgeState
    BY <1>8, NoPurgeType DEF PurgeStart, TypeOK, PurgeState, NoPurge, Expired
  <2> QED  BY <1>8, <2>1 DEF PurgeStart, TypeOK, rows, history
<1>9. ASSUME PurgeDropped PROVE TypeOK'
  <2>1. purge' \in PurgeState
    BY <1>9, <1>t, <1>p DEF PurgeDropped, TypeOK, PurgeState
  <2> QED  BY <1>9, <2>1 DEF PurgeDropped, TypeOK, rows, history
<1>10. ASSUME PurgeEnsure PROVE TypeOK'
  <2>1. purge.at = "ensure" /\ purge.from <= Month(today) /\ purge.next <= purge.from + Lookahead
    BY <1>10 DEF PurgeEnsure, PartitionInv
  <2>2. CASE Ensured(purge.next)
    <3>1. purge' = NoPurge /\ kept' = purge.from /\ month' = month \cup {purge.next}
      BY <1>10, <2>2 DEF PurgeEnsure
    <3> QED  BY <1>10, <1>p, <3>1, NoPurgeType DEF PurgeEnsure, TypeOK
  <2>3. CASE ~Ensured(purge.next)
    <3>1. /\ purge' = [purge EXCEPT !.next = purge.next + 1] /\ UNCHANGED kept
          /\ month' = month \cup {purge.next}
      BY <1>10, <2>3 DEF PurgeEnsure
    <3>2. purge.next + 1 \in Months
      BY <1>t, <1>p, <2>1, <2>3, LastMonth, MonthsRange DEF Ensured
    <3>3. purge' \in PurgeState
      BY <1>p, <3>1, <3>2 DEF PurgeState, TypeOK
    <3> QED  BY <1>10, <1>p, <3>1, <3>3 DEF PurgeEnsure, TypeOK
  <2> QED  BY <2>2, <2>3
<1>11. ASSUME PurgeRefused PROVE TypeOK'
  BY <1>11, NoPurgeType DEF PurgeRefused, TypeOK, rows, history
<1>12. ASSUME NEW p \in Months, PurgeDrop(p) PROVE TypeOK'
  <2>1. purge' \in PurgeState
    BY <1>12, <1>p DEF PurgeDrop, TypeOK, PurgeState
  <2>2. event' \in [Events -> EventRow]
    BY <1>12 DEF PurgeDrop, TypeOK, EventRow
  <2> QED  BY <1>12, <2>1, <2>2 DEF PurgeDrop, TypeOK, history
<1>13. ASSUME Rollup PROVE TypeOK'
  <2>1. \A d \in Days : Figured(d, Stored(d)) \in Figures
    BY FiguresType DEF Stored, OpensOn
  <2>2. stats' \in [Days -> Figures]
    BY <1>13, <2>1 DEF Rollup, TypeOK
  <2> QED  BY <1>13, <2>2 DEF Rollup, TypeOK, rows, jobs
<1>14. ASSUME RemindScan PROVE TypeOK'
  <2>1. reminding' \in ReminderState
    BY <1>14 DEF RemindScan, ReminderState
  <2> QED  BY <1>14, <2>1 DEF RemindScan, TypeOK, rows, history
<1>15. ASSUME MarkNotified PROVE TypeOK'
  <2>1. message' \in [Messages -> MessageRow]
    BY <1>15, <1>p DEF MarkNotified, Marked, TypeOK, MessageRow
  <2>2. reminding' \in ReminderState
    BY <1>15, <1>p DEF MarkNotified, ReminderState
  <2> QED  BY <1>15, <2>1, <2>2 DEF MarkNotified, TypeOK, history
<1>16. ASSUME Fault PROVE TypeOK'
  BY <1>16, NoPurgeType DEF Fault, TypeOK, rows, history
<1>17. ASSUME UNCHANGED vars PROVE TypeOK'
  BY <1>17 DEF vars, rows, jobs, history, TypeOK
<1> QED
  BY <1>1, <1>2, <1>3, <1>4, <1>5, <1>6, <1>7, <1>8, <1>9, <1>10, <1>11, <1>12, <1>13,
     <1>14, <1>15, <1>16, <1>17 DEF Next

-----------------------------------------------------------------------------
(* Reminders.                                                              *)

LEMMA ReminderStep ==
  ASSUME TypeOK, ReminderInv, [Next]_vars PROVE ReminderInv'
<1> USE HousekeepingAssumption
<1>t. /\ reminding.due \subseteq Messages /\ reminding.told \in Messages \cup {None}
      /\ message \in [Messages -> MessageRow] /\ faults \in Nat
      /\ reminders \in [Messages -> Nat]
  BY DEF TypeOK, ReminderState
<1>1. ASSUME UNCHANGED <<reminding, faults, reminders>>,
             \A m \in Messages : message'[m].notified = message[m].notified
      PROVE  ReminderInv'
  BY <1>1, <1>t DEF ReminderInv
<1>2. ASSUME NEW m \in Messages, Send(m) \/ Bounce(m) \/ Reply(m) PROVE ReminderInv'
  <2>1. \A k \in Messages : message'[k].notified = message[k].notified
    BY <1>2, <1>t DEF Send, Bounce, Reply, MessageRow
  <2> QED  BY <1>1, <1>2, <2>1 DEF Send, Bounce, Reply, jobs, history
<1>3. ASSUME NEW e \in Events, NEW m \in Messages, NEW d \in Days, Open(e, m, d)
      PROVE  ReminderInv'
  <2>1. \A k \in Messages : message'[k].notified = message[k].notified
    BY <1>3, <1>t DEF Open, MessageRow
  <2> QED  BY <1>1, <1>3, <2>1 DEF Open, jobs
<1>4. ASSUME NEW m \in Messages, Remind(m) PROVE ReminderInv'
  <2>1. /\ reminding.told = None /\ m \in reminding.due /\ m # None
        /\ reminding'.told = m /\ reminding'.due = reminding.due
        /\ reminders' = [reminders EXCEPT ![m] = @ + 1]
        /\ UNCHANGED <<message, faults>>
    BY <1>4, <1>t DEF Remind, rows, TypeOK, ReminderState
  <2>2. reminders[m] <= faults
    BY <2>1, <1>t DEF ReminderInv
  <2>3. ASSUME NEW k \in Messages
        PROVE  reminders'[k] <= faults + (IF message[k].notified \/ m = k THEN 1 ELSE 0)
    <3>1. CASE k = m
      BY <2>1, <2>2, <3>1, <1>t
    <3>2. CASE k # m
      <4>1. reminders'[k] = reminders[k]
        BY <2>1, <3>2, <1>t
      <4>2. reminders[k] <= faults + (IF message[k].notified \/ reminding.told = k THEN 1 ELSE 0)
        BY DEF ReminderInv
      <4>3. reminding.told # k
        BY <2>1
      <4> QED  BY <4>1, <4>2, <4>3, <3>2
    <3> QED  BY <3>1, <3>2
  <2> QED  BY <2>1, <2>3 DEF ReminderInv
<1>5. ASSUME RemindScan PROVE ReminderInv'
  <2>1. /\ reminding.told = None /\ reminding'.told = None
        /\ reminding'.due = {m \in Messages : Due(m)}
        /\ UNCHANGED <<message, faults, reminders>>
    BY <1>5 DEF RemindScan, NoReminders, rows, history
  <2>2. \A m \in reminding'.due : ~message[m].notified
    BY <2>1 DEF Due
  <2> QED  BY <2>1, <2>2, <1>t DEF ReminderInv
<1>6. ASSUME MarkNotified PROVE ReminderInv'
  <2> DEFINE n == reminding.told
  <2>1. /\ n \in Messages /\ n \in reminding.due
        /\ message' = [message EXCEPT ![n].notified = TRUE]
        /\ reminding'.told = None /\ reminding'.due = reminding.due \ {n}
        /\ UNCHANGED <<faults, reminders>>
    BY <1>6, <1>t DEF MarkNotified, Marked, history, ReminderInv
  <2>2. /\ message'[n].notified
        /\ \A k \in Messages : k # n => message'[k] = message[k]
    BY <2>1, <1>t DEF MessageRow
  <2>3. \A m \in reminding'.due : ~message'[m].notified
    BY <2>1, <2>2, <1>t DEF ReminderInv
  <2>4. ASSUME NEW k \in Messages
        PROVE  reminders[k] <= faults + (IF message'[k].notified \/ reminding'.told = k THEN 1 ELSE 0)
    <3>1. reminders[k] <= faults + (IF message[k].notified \/ reminding.told = k THEN 1 ELSE 0)
      BY DEF ReminderInv
    <3> QED  BY <2>2, <3>1, <1>t
  <2> QED  BY <2>1, <2>3, <2>4 DEF ReminderInv
<1>7. ASSUME Fault PROVE ReminderInv'
  <2>1. /\ faults' = faults + 1 /\ reminding' = NoReminders
        /\ UNCHANGED <<message, reminders>>
    BY <1>7 DEF Fault, rows, history
  <2>2. ASSUME NEW k \in Messages PROVE reminders[k] <= faults + 1
    <3>1. reminders[k] <= faults + (IF message[k].notified \/ reminding.told = k THEN 1 ELSE 0)
      BY DEF ReminderInv
    <3> QED  BY <3>1, <1>t
  <2> QED  BY <2>1, <2>2, <1>t DEF ReminderInv, NoReminders
<1>8. ASSUME UNCHANGED <<reminding, faults, reminders, message>> PROVE ReminderInv'
  BY <1>1, <1>8
<1> QED
  BY <1>2, <1>3, <1>4, <1>5, <1>6, <1>7, <1>8
     DEF Next, vars, rows, jobs, history, NextDay, UpdateRetention, PurgeStart, PurgeDropped,
         PurgeEnsure, PurgeRefused, PurgeDrop, Rollup

-----------------------------------------------------------------------------
(* Partitions.                                                             *)

LEMMA PartitionStep ==
  ASSUME TypeOK, PartitionInv, [Next]_vars PROVE PartitionInv'
<1> USE HousekeepingAssumption
<1>t. /\ today \in Int /\ today \in Days /\ Month(today) \in Int /\ Month(today - 1) \in Int
      /\ Month(today - 1) <= Month(today) /\ Month(today + 1) \in Int
      /\ Month(today) <= Month(today + 1) /\ Month(today) \in Months
      /\ kept \in Int /\ purge.from \in Int /\ purge.next \in Int
      /\ \A p \in Months : p \in Int
      /\ late \in BOOLEAN
  <2>1. today \in Int /\ today \in Days
    BY DEF TypeOK, Days
  <2>2. kept \in Months /\ purge.from \in Months /\ purge.next \in Months /\ late \in BOOLEAN
    BY DEF TypeOK, PurgeState
  <2> QED  BY <2>1, <2>2, MonthInt, MonthMono, MonthsRange, DayMonth
<1>e. /\ purge.drop \subseteq Months /\ purge.next \in Months
      /\ event \in [Events -> EventRow]
  BY DEF TypeOK, PurgeState
<1>1. ASSUME NextDay PROVE PartitionInv'
  <2>1. /\ today' = today + 1 /\ late' = (late \/ Month(today + 1) > kept + Lookahead)
        /\ UNCHANGED <<month, event, purge, kept>>
    BY <1>1 DEF NextDay, rows, jobs
  <2>2. today' - 1 = today
    BY <2>1, <1>t
  <2>3. \A p \in purge.drop : p < Month(today)
    BY <1>t, <1>e DEF PartitionInv
  <2>4. purge.at = "ensure" =>
       /\ kept <= purge.from /\ purge.from <= Month(today + 1)
       /\ purge.from <= purge.next /\ purge.next <= purge.from + Lookahead
       /\ \A p \in Months : purge.from <= p /\ p < purge.next => p \in month
    BY <1>t DEF PartitionInv
  <2>5. ~late' =>
       /\ Month(today + 1) <= kept + Lookahead
       /\ \A p \in Months : Month(today) <= p /\ p <= kept + Lookahead => p \in month
    <3>1. ASSUME ~late' PROVE ~late /\ ~(Month(today + 1) > kept + Lookahead)
      BY <2>1, <3>1
    <3>2. ASSUME ~late PROVE \A p \in Months :
                              Month(today) <= p /\ p <= kept + Lookahead => p \in month
      BY <3>2, <1>t DEF PartitionInv
    <3> QED  BY <3>1, <3>2, <1>t
  <2>6. kept <= Month(today + 1)
    BY <1>t DEF PartitionInv
  <2>7. late' \/ \A e \in Events : event[e].place # "default"
    BY <2>1 DEF PartitionInv, DefaultStaysEmpty
  <2> QED  BY <2>1, <2>2, <2>3, <2>4, <2>5, <2>6, <2>7 DEF PartitionInv, DefaultStaysEmpty
<1>2. ASSUME NEW e \in Events, NEW m \in Messages, NEW d \in Days, Open(e, m, d)
      PROVE  PartitionInv'
  <2>1. /\ event' = [event EXCEPT ![e] = [place |-> Place(d), day |-> d]]
        /\ d \in message[m].sent..today /\ d >= today - MaxDelay
        /\ UNCHANGED <<today, month, purge, kept, late>>
    BY <1>2 DEF Open, jobs
  <2>2. d \in Int /\ d <= today /\ today - 1 <= d
    <3>1. message[m].sent \in Int
      BY <1>2 DEF Open, TypeOK, MessageRow, Days
    <3> QED  BY <2>1, <3>1, <1>t
  <2>3. Month(today - 1) <= Month(d) /\ Month(d) <= Month(today) /\ Month(d) \in Months
    BY <2>2, <1>t, MonthMono, DayMonth
  <2>4. ~late => Month(d) \in month
    BY <2>3, <1>t DEF PartitionInv
  <2>5. ~late => \A x \in Events : event'[x].place # "default"
    BY <2>1, <2>4, <1>e DEF Place, PartitionInv, DefaultStaysEmpty
  <2> QED  BY <2>1, <2>5 DEF PartitionInv, DefaultStaysEmpty
<1>3. ASSUME PurgeStart PROVE PartitionInv'
  <2>1. purge'.drop = Expired /\ purge'.at = "drop" /\ UNCHANGED <<today, month, event, kept, late>>
    BY <1>3 DEF PurgeStart, rows, history
  <2>2. \A p \in Expired : p < Month(today - 1)
    <3>1. retention \in Int /\ today - retention <= today - 1 /\ today - retention \in Int
      BY <1>t DEF TypeOK
    <3>2. Month(today - retention) <= Month(today - 1) /\ Month(today - retention) \in Int
      BY <3>1, <1>t, MonthMono, MonthInt
    <3>3. month \subseteq Months
      BY DEF TypeOK
    <3> QED  BY <3>2, <3>3, <1>t DEF Expired
  <2> QED  BY <2>1, <2>2 DEF PartitionInv, DefaultStaysEmpty
<1>4. ASSUME NEW p \in Months, PurgeDrop(p) PROVE PartitionInv'
  <2>1. /\ purge.at = "drop" /\ p \in purge.drop
        /\ purge'.at = "drop" /\ purge'.drop \subseteq purge.drop
        /\ month' = month \ {p}
        /\ event' = [e \in Events |->
                 IF event[e].place = "partition" /\ Month(event[e].day) = p
                 THEN [event[e] EXCEPT !.place = "dropped"] ELSE event[e]]
        /\ UNCHANGED <<today, kept, late>>
    BY <1>4 DEF PurgeDrop, TypeOK, PurgeState, history
  <2>2. \A e \in Events : event[e].place # "default" => event'[e].place # "default"
    BY <2>1, <1>e DEF EventRow
  <2>3. p < Month(today - 1)
    BY <2>1 DEF PartitionInv
  <2>4. ~late => \A x \in Months :
                   Month(today - 1) <= x /\ x <= kept + Lookahead => x \in month'
    BY <2>1, <2>3, <1>t DEF PartitionInv
  <2> QED  BY <2>1, <2>2, <2>4 DEF PartitionInv, DefaultStaysEmpty
<1>5. ASSUME PurgeDropped PROVE PartitionInv'
  <2>1. /\ purge'.at = "ensure" /\ purge'.from = Month(today) /\ purge'.next = Month(today)
        /\ purge'.drop = purge.drop
        /\ UNCHANGED <<today, month, event, kept, late>>
    BY <1>5 DEF PurgeDropped, TypeOK, PurgeState, rows, history
  <2> QED  BY <2>1, <1>t DEF PartitionInv, DefaultStaysEmpty
<1>6. ASSUME PurgeEnsure PROVE PartitionInv'
  <2>0. /\ purge.at = "ensure" /\ month' = month \cup {purge.next}
        /\ UNCHANGED <<today, event, late>>
    BY <1>6 DEF PurgeEnsure
  <2>1. /\ kept <= purge.from /\ purge.from <= Month(today)
        /\ purge.from <= purge.next /\ purge.next <= purge.from + Lookahead
        /\ \A p \in Months : purge.from <= p /\ p < purge.next => p \in month
    BY <2>0 DEF PartitionInv
  <2>2. CASE Ensured(purge.next)
    <3>1. purge'.at = "idle" /\ purge'.drop = {} /\ kept' = purge.from
      BY <1>6, <2>2 DEF PurgeEnsure, NoPurge
    <3>2. \A p \in Months : purge.from <= p /\ p <= purge.from + Lookahead => p \in month'
      BY <2>0, <2>1, <2>2, <1>t DEF Ensured
    <3>3. ~late => \A p \in Months :
                     Month(today - 1) <= p /\ p <= purge.from + Lookahead => p \in month'
      <4>1. ASSUME ~late, NEW p \in Months, Month(today - 1) <= p, p <= purge.from + Lookahead
            PROVE  p \in month'
        <5>1. CASE purge.from <= p
          BY <3>2, <4>1, <5>1
        <5>2. CASE p < purge.from
          <6>1. p <= kept + Lookahead
            BY <2>1, <4>1, <5>2, <1>t DEF PartitionInv
          <6> QED  BY <2>0, <4>1, <6>1 DEF PartitionInv
        <5> QED  BY <5>1, <5>2, <1>t
      <4> QED  BY <4>1
    <3>4. ~late => Month(today) <= purge.from + Lookahead
      BY <2>1, <1>t DEF PartitionInv
    <3> QED  BY <2>0, <2>1, <3>1, <3>3, <3>4 DEF PartitionInv, DefaultStaysEmpty
  <2>3. CASE ~Ensured(purge.next)
    <3>1. /\ purge'.at = "ensure" /\ purge'.drop = purge.drop /\ purge'.from = purge.from
          /\ purge'.next = purge.next + 1 /\ UNCHANGED kept
      BY <1>6, <2>3 DEF PurgeEnsure, TypeOK, PurgeState
    <3>2. \A p \in Months : purge.from <= p /\ p < purge.next + 1 => p \in month'
      BY <2>0, <2>1, <1>t
    <3>3. purge.next + 1 <= purge.from + Lookahead /\ purge.from <= purge.next + 1
      BY <2>1, <2>3, <1>t DEF Ensured
    <3> QED  BY <2>0, <2>1, <3>1, <3>2, <3>3 DEF PartitionInv, DefaultStaysEmpty
  <2> QED  BY <2>2, <2>3
<1>7. ASSUME PurgeRefused PROVE PartitionInv'
  BY <1>7 DEF PurgeRefused, PartitionInv, DefaultStaysEmpty, NoPurge, rows, history
<1>8. ASSUME Fault PROVE PartitionInv'
  BY <1>8 DEF Fault, PartitionInv, DefaultStaysEmpty, NoPurge, rows, history
<1>9. ASSUME UNCHANGED <<today, month, event, purge, kept, late>> PROVE PartitionInv'
  BY <1>9 DEF PartitionInv, DefaultStaysEmpty
<1> QED
  BY <1>1, <1>2, <1>3, <1>4, <1>5, <1>6, <1>7, <1>8, <1>9
     DEF Next, vars, rows, jobs, history, UpdateRetention, Send, Bounce, Reply, Remind,
         Rollup, RemindScan, MarkNotified

-----------------------------------------------------------------------------
(* Figures.                                                                *)

LEMMA FullSame ==
  ASSUME NEW d,
         \A m \in Messages :
           /\ message'[m].sent = d <=> message[m].sent = d
           /\ message[m].sent = d => message'[m].bounced = message[m].bounced,
         \A e \in Events : (event'[e].place \in All /\ event'[e].day = d)
                             <=> (event[e].place \in All /\ event[e].day = d)
  PROVE  Full(d)' = Full(d)
<1>1. SentOn(d)' = SentOn(d)
  BY DEF SentOn
<1>2. {m \in SentOn(d) : message[m].bounced}' = {m \in SentOn(d) : message[m].bounced}
  BY <1>1 DEF SentOn
<1>3. OpensOn(d, All)' = OpensOn(d, All)
  BY DEF OpensOn, All
<1> QED  BY <1>1, <1>2, <1>3 DEF Full, Figured

(* A step that changes the rows of one day marks it.                       *)
LEMMA StatsFrame ==
  ASSUME TypeOK, TypeOK', StatsInv, NEW S \in SUBSET Days,
         today' \in Int, today <= today', stats' = stats, dirty' = dirty \cup S,
         \A d \in Days \ S :
           /\ \A m \in Messages :
                /\ message'[m].sent = d <=> message[m].sent = d
                /\ message[m].sent = d => message'[m].bounced = message[m].bounced
           /\ \A e \in Events : (event'[e].place \in All /\ event'[e].day = d)
                                  <=> (event[e].place \in All /\ event[e].day = d),
         \A d \in S : SentOn(d)' # {} \/ OpensOn(d, All)' # {},
         \A d \in Days : (SentOn(d) # {} => SentOn(d)' # {})
                      /\ (OpensOn(d, All) # {} => OpensOn(d, All)' # {}),
         \A e \in Events : event'[e].place = "dropped" => event'[e].day < today - 1
  PROVE  StatsInv'
<1>1. today \in Int /\ dirty \subseteq Days
  BY DEF TypeOK, Days
<1>2. \A d \in Days \ S : Full(d)' = Full(d)
  BY FullSame
<1>3. \A e \in Events : event'[e].place = "dropped" => event'[e].day < today' - 1
  <2>1. ASSUME NEW e \in Events, event'[e].place = "dropped" PROVE event'[e].day < today' - 1
    <3>1. event'[e].day < today - 1
      BY <2>1
    <3>2. event'[e].day \in Int
      BY DEF TypeOK, EventRow, Days
    <3> QED  BY <3>1, <3>2, <1>1
  <2> QED  BY <2>1
<1>4. \A d \in dirty' : SentOn(d)' # {} \/ OpensOn(d, All)' # {}
  BY <1>1 DEF StatsInv
<1>5. \A d \in Days \ dirty' : stats'[d] = Full(d)'
  BY <1>2 DEF StatsInv
<1> QED  BY <1>3, <1>4, <1>5 DEF StatsInv

LEMMA StatsStep ==
  ASSUME TypeOK, TypeOK', PartitionInv, StatsInv, [Next]_vars PROVE StatsInv'
<1> USE HousekeepingAssumption
<1>t. /\ today \in Int /\ today \in Days /\ today' \in Int
      /\ message \in [Messages -> MessageRow] /\ event \in [Events -> EventRow]
      /\ \A e \in Events : event[e].day \in Int /\ event[e].day \in Days
      /\ \A d \in Days : d \in Int
      /\ \A d \in Days : d # None
  BY DEF TypeOK, Days, EventRow
<1> DEFINE SameMail(d) == \A m \in Messages :
                /\ message'[m].sent = d <=> message[m].sent = d
                /\ message[m].sent = d => message'[m].bounced = message[m].bounced
           SameOpens(d) == \A e \in Events : (event'[e].place \in All /\ event'[e].day = d)
                                  <=> (event[e].place \in All /\ event[e].day = d)
<1>s. \A d \in Days : SameMail(d) => (SentOn(d) # {} => SentOn(d)' # {})
  BY DEF SentOn
<1>o. \A d \in Days : SameOpens(d) => (OpensOn(d, All) # {} => OpensOn(d, All)' # {})
  BY DEF OpensOn, All
<1>d. \A e \in Events : event[e].place = "dropped" => event[e].day < today - 1
  BY DEF StatsInv
<1>1. ASSUME today' = today \/ today' = today + 1, UNCHANGED <<stats, dirty, event>>,
             \A m \in Messages : /\ message'[m].sent = message[m].sent
                                 /\ message'[m].bounced = message[m].bounced
      PROVE  StatsInv'
  <2>1. \A d \in Days : SameMail(d) /\ SameOpens(d)
    BY <1>1
  <2>2. today <= today' /\ dirty' = dirty \cup {}
    BY <1>1, <1>t
  <2>3. \A e \in Events : event'[e].place = "dropped" => event'[e].day < today - 1
    BY <1>1, <1>d
  <2> HIDE DEF SameMail, SameOpens
  <2>4. \A d \in Days : (SentOn(d) # {} => SentOn(d)' # {})
                     /\ (OpensOn(d, All) # {} => OpensOn(d, All)' # {})
    BY <1>s, <1>o, <2>1
  <2> USE DEF SameMail, SameOpens
  <2>5. \A d \in {} : SentOn(d)' # {} \/ OpensOn(d, All)' # {}
    OBVIOUS
  <2> QED  BY <1>1, <1>t, <2>1, <2>2, <2>3, <2>4, <2>5, StatsFrame
<1>2. ASSUME NEW m \in Messages, Send(m) PROVE StatsInv'
  <2>1. /\ message[m].sent = None /\ message' = [message EXCEPT ![m].sent = today]
        /\ dirty' = dirty \cup {today} /\ UNCHANGED <<today, stats, event>>
    BY <1>2 DEF Send
  <2>2. /\ message'[m].sent = today /\ \A k \in Messages : message'[k].bounced = message[k].bounced
        /\ \A k \in Messages : k # m => message'[k].sent = message[k].sent
    BY <2>1, <1>t DEF MessageRow
  <2>3. \A d \in Days \ {today} : SameMail(d) /\ SameOpens(d)
    BY <2>1, <2>2, <1>t
  <2>4. ASSUME NEW d \in {today} PROVE SentOn(d)' # {}
    BY <2>1, <2>2 DEF SentOn
  <2>5. \A d \in Days : (SentOn(d) # {} => SentOn(d)' # {})
                     /\ (OpensOn(d, All) # {} => OpensOn(d, All)' # {})
    BY <2>1, <2>2, <1>t DEF SentOn, OpensOn, All
  <2>6. {today} \in SUBSET Days /\ \A d \in {today} : SentOn(d)' # {} \/ OpensOn(d, All)' # {}
    BY <1>t, <2>4
  <2>7. today <= today' /\ \A x \in Events : event'[x].place = "dropped" => event'[x].day < today - 1
    BY <1>d, <1>t, <2>1
  <2>8. stats' = stats /\ dirty' = dirty \cup {today}
    BY <2>1
  <2> QED  BY <1>t, <2>3, <2>5, <2>6, <2>7, <2>8, StatsFrame
<1>3. ASSUME NEW m \in Messages, Bounce(m) PROVE StatsInv'
  <2> DEFINE b == message[m].sent
  <2>1. /\ b # None /\ message' = [message EXCEPT ![m].bounced = TRUE]
        /\ dirty' = dirty \cup {b} /\ UNCHANGED <<today, stats, event>>
    BY <1>3 DEF Bounce
  <2>2. /\ \A k \in Messages : message'[k].sent = message[k].sent
        /\ \A k \in Messages : k # m => message'[k].bounced = message[k].bounced
    BY <2>1, <1>t DEF MessageRow
  <2>3. b \in Days
    BY <2>1, <1>t DEF MessageRow
  <2>4. \A d \in Days \ {b} : SameMail(d) /\ SameOpens(d)
    BY <2>1, <2>2, <1>t
  <2>5. ASSUME NEW d \in {b} PROVE SentOn(d)' # {}
    <3>1. m \in {k \in Messages : message'[k].sent = d}
      BY <2>2
    <3> QED  BY <3>1 DEF SentOn
  <2>6. \A d \in Days : (SentOn(d) # {} => SentOn(d)' # {})
                     /\ (OpensOn(d, All) # {} => OpensOn(d, All)' # {})
    BY <2>1, <2>2 DEF SentOn, OpensOn, All
  <2>7. {b} \in SUBSET Days /\ \A d \in {b} : SentOn(d)' # {} \/ OpensOn(d, All)' # {}
    BY <2>3, <2>5
  <2>8. today <= today' /\ \A x \in Events : event'[x].place = "dropped" => event'[x].day < today - 1
    BY <1>d, <1>t, <2>1
  <2>9. stats' = stats /\ dirty' = dirty \cup {b}
    BY <2>1
  <2> HIDE DEF b
  <2> QED  BY <1>t, <2>4, <2>6, <2>7, <2>8, <2>9, StatsFrame
<1>4. ASSUME NEW e \in Events, NEW m \in Messages, NEW d \in Days, Open(e, m, d) PROVE StatsInv'
  <2>1. /\ event[e].place = "none" /\ event' = [event EXCEPT ![e] = [place |-> Place(d), day |-> d]]
        /\ message' = [message EXCEPT ![m].answered = TRUE]
        /\ dirty' = dirty \cup {d} /\ UNCHANGED <<today, stats>>
    BY <1>4 DEF Open
  <2>2. \A k \in Messages : /\ message'[k].sent = message[k].sent
                            /\ message'[k].bounced = message[k].bounced
    BY <2>1, <1>t DEF MessageRow
  <2>3. /\ event'[e].day = d /\ event'[e].place \in {"partition", "default"}
        /\ \A x \in Events : x # e => event'[x] = event[x]
    BY <2>1, <1>t DEF Place
  <2>4. \A c \in Days \ {d} : SameMail(c) /\ SameOpens(c)
    BY <2>1, <2>2, <2>3, <1>t DEF All
  <2>5. OpensOn(d, All)' # {}
    BY <2>3 DEF OpensOn, All
  <2>6. \A c \in Days : (SentOn(c) # {} => SentOn(c)' # {})
                     /\ (OpensOn(c, All) # {} => OpensOn(c, All)' # {})
    <3>1. \A c \in Days : SentOn(c) # {} => SentOn(c)' # {}
      BY <2>2 DEF SentOn
    <3>2. \A c \in Days : OpensOn(c, All) # {} => OpensOn(c, All)' # {}
      BY <2>1, <2>3 DEF OpensOn, All
    <3> QED  BY <3>1, <3>2
  <2>7. \A x \in Events : event'[x].place = "dropped" => event'[x].day < today - 1
    BY <1>d, <2>3
  <2>8. {d} \in SUBSET Days /\ \A c \in {d} : SentOn(c)' # {} \/ OpensOn(c, All)' # {}
    BY <2>5
  <2>9. today <= today' /\ stats' = stats /\ dirty' = dirty \cup {d}
    BY <1>t, <2>1
  <2> QED  BY <1>t, <2>4, <2>6, <2>7, <2>8, <2>9, StatsFrame
<1>5. ASSUME NEW p \in Months, PurgeDrop(p) PROVE StatsInv'
  <2>1. /\ p \in purge.drop
        /\ event' = [e \in Events |->
                 IF event[e].place = "partition" /\ Month(event[e].day) = p
                 THEN [event[e] EXCEPT !.place = "dropped"] ELSE event[e]]
        /\ UNCHANGED <<today, stats, message, dirty>>
    BY <1>5 DEF PurgeDrop, history
  <2>2. p < Month(today - 1) /\ p \in Int
    BY <2>1, MonthsRange DEF PartitionInv
  <2>3. \A e \in Events : Month(event[e].day) = p => event[e].day < today - 1
    <3>1. ASSUME NEW e \in Events, Month(event[e].day) = p, today - 1 <= event[e].day PROVE FALSE
      <4>1. Month(today - 1) <= Month(event[e].day) /\ Month(today - 1) \in Int
        BY <3>1, <1>t, MonthMono, MonthInt
      <4> QED  BY <2>2, <3>1, <4>1
    <3> QED  BY <3>1, <1>t
  <2>4. \A e \in Events : /\ event'[e].day = event[e].day
                          /\ event'[e].place \in All <=> event[e].place \in All
                          /\ event'[e].place = "dropped" => event'[e].day < today - 1
    BY <1>d, <1>t, <2>1, <2>3 DEF EventRow, All
  <2>5. \A d \in Days : SameMail(d) /\ SameOpens(d)
    BY <2>1, <2>4
  <2>6. \A d \in Days : (SentOn(d) # {} => SentOn(d)' # {})
                     /\ (OpensOn(d, All) # {} => OpensOn(d, All)' # {})
    <3> HIDE DEF SameMail, SameOpens
    <3> QED  BY <1>s, <1>o, <2>5
  <2>7. dirty' = dirty \cup {} /\ \A d \in {} : SentOn(d)' # {} \/ OpensOn(d, All)' # {}
    BY <2>1
  <2>8. \A x \in Events : event'[x].place = "dropped" => event'[x].day < today - 1
    BY <2>4
  <2>9. today <= today' /\ stats' = stats /\ \A d \in Days \ {} : SameMail(d) /\ SameOpens(d)
    BY <1>t, <2>1, <2>5
  <2> QED  BY <1>t, <2>6, <2>7, <2>8, <2>9, StatsFrame
<1>6. ASSUME Rollup PROVE StatsInv'
  <2> DEFINE covered == {d \in {today - 1, today} : SentOn(d) # {} \/ Stored(d) # {}}
  <2>1. /\ stats' = [d \in Days |-> IF d \in covered THEN Figured(d, Stored(d)) ELSE stats[d]]
        /\ dirty' = dirty \ {today - 1, today}
        /\ UNCHANGED <<today, month, event, message>>
    BY <1>6 DEF Rollup, rows
  <2>2. \A d \in {today - 1, today} : Stored(d) = OpensOn(d, All)
    <3>1. ASSUME NEW d \in {today - 1, today}, NEW e \in Events,
                 event[e].place = "dropped", event[e].day = d
          PROVE  FALSE
      BY <1>d, <1>t, <3>1
    <3> QED  BY <3>1 DEF Stored, OpensOn, All
  <2>3. \A d \in Days : Full(d)' = Full(d)
    BY <2>1, FullSame
  <2>4. ASSUME NEW d \in Days \ dirty' PROVE stats'[d] = Full(d)
    <3>1. CASE d \in covered
      BY <2>1, <2>2, <3>1 DEF Full
    <3>2. CASE d \notin covered /\ d \notin dirty
      BY <2>1, <3>2 DEF StatsInv
    <3>3. CASE d \notin covered /\ d \in dirty
      <4>1. d \in {today - 1, today}
        BY <2>1, <3>3
      <4> QED  BY <2>2, <3>3, <4>1 DEF StatsInv
    <3> QED  BY <3>1, <3>2, <3>3
  <2>5. \A d \in dirty' : SentOn(d)' # {} \/ OpensOn(d, All)' # {}
    BY <2>1 DEF StatsInv, SentOn, OpensOn
  <2> QED  BY <2>1, <2>3, <2>4, <2>5, <1>d DEF StatsInv
<1>7. ASSUME NEW m \in Messages, Reply(m) \/ Remind(m) PROVE StatsInv'
  <2>1. \A k \in Messages : /\ message'[k].sent = message[k].sent
                            /\ message'[k].bounced = message[k].bounced
    BY <1>7, <1>t DEF Reply, Remind, rows, MessageRow
  <2> QED  BY <1>1, <1>7, <2>1 DEF Reply, Remind, rows, history
<1>8. ASSUME MarkNotified PROVE StatsInv'
  <2>1. \A k \in Messages : /\ message'[k].sent = message[k].sent
                            /\ message'[k].bounced = message[k].bounced
    BY <1>8, <1>t DEF MarkNotified, Marked, MessageRow
  <2> QED  BY <1>1, <1>8, <2>1 DEF MarkNotified, history
<1>9. ASSUME today' = today \/ today' = today + 1, UNCHANGED <<stats, dirty, event, message>>
      PROVE  StatsInv'
  BY <1>1, <1>9
<1> QED
  BY <1>2, <1>3, <1>4, <1>5, <1>6, <1>7, <1>8, <1>9
     DEF Next, vars, rows, jobs, history, NextDay, UpdateRetention, PurgeStart, PurgeDropped,
         PurgeEnsure, PurgeRefused, RemindScan, Fault

-----------------------------------------------------------------------------
(* The theorems.                                                           *)

LEMMA InitInv == Init => Inv
<1> USE HousekeepingAssumption
<1> SUFFICES ASSUME Init PROVE Inv
  OBVIOUS
<1>1. TypeOK
  BY TypeInit
<1>2. ReminderInv
  BY DEF Init, ReminderInv, NoReminders
<1>3. PartitionInv
  <2>1. /\ Month(FirstDay) \in Int /\ Month(FirstDay - 1) \in Int
        /\ Month(FirstDay - 1) >= Month(FirstDay) - 1
    <3>1. Month(FirstDay - DaysPerMonth) <= Month(FirstDay - 1)
      BY MonthMono
    <3>2. Month(FirstDay - DaysPerMonth) = Month(FirstDay) - 1
      BY DEF Month
    <3> QED  BY <3>1, <3>2, MonthInt
  <2>2. month = (Month(FirstDay) - 1)..(Month(FirstDay) + Lookahead)
    BY DEF Init
  <2>3. ASSUME NEW p \in Months, Month(today - 1) <= p, p <= kept + Lookahead PROVE p \in month
    <3>1. p \in Int /\ today = FirstDay /\ kept = Month(FirstDay)
      BY MonthsRange DEF Init
    <3> QED  BY <2>1, <2>2, <2>3, <3>1
  <2>4. DefaultStaysEmpty
    BY DEF Init, DefaultStaysEmpty
  <2>5. kept <= Month(today) /\ Month(today) <= kept + Lookahead
    BY <2>1 DEF Init
  <2>6. purge.drop = {} /\ purge.at # "ensure"
    BY DEF Init, NoPurge
  <2> QED  BY <2>3, <2>4, <2>5, <2>6 DEF PartitionInv
<1>4. StatsInv
  <2>1. \A d \in Days : SentOn(d) = {} /\ OpensOn(d, All) = {}
    BY DEF Init, SentOn, OpensOn, All, Days
  <2>2. \A d \in Days : Full(d) = Zero
    <3>1. ASSUME NEW d \in Days PROVE Full(d) = Zero
      <4>1. {m \in SentOn(d) : message[m].bounced} = {}
        BY <2>1
      <4> QED  BY <2>1, <4>1, FS_EmptySet DEF Full, Figured, Zero
    <3> QED  BY <3>1
  <2> QED  BY <2>2 DEF Init, StatsInv
<1> QED  BY <1>1, <1>2, <1>3, <1>4 DEF Inv

LEMMA StepInv == Inv /\ [Next]_vars => Inv'
  BY TypeStep, ReminderStep, PartitionStep, StatsStep DEF Inv

LEMMA Invariance == Spec => []Inv
  BY InitInv, StepInv, PTL DEF Spec

(* The rows, the partitions and what the jobs hold keep their shapes; a    *)
(* purge never creates a partition past the look-ahead.                    *)
THEOREM TypeCorrect == Spec => []TypeOK
<1>1. Inv => TypeOK
  BY DEF Inv
<1> QED  BY <1>1, Invariance, PTL

(* "daily_stats aggregates are untouched" (event-purge.service.ts): no     *)
(* rollup ever counts a day some of whose events are dropped.              *)
THEOREM FiguresAreKept == Spec => []StatsKept
<1>1. Inv => StatsKept
  BY DEF Inv, StatsInv, StatsKept, Full, All
<1> QED  BY <1>1, Invariance, PTL

(* No event goes to tracking_events_default while event-purge jobs end     *)
(* once in every PARTITION_LOOKAHEAD_MONTHS months.                        *)
THEOREM DefaultIsEmpty == Spec => []DefaultStaysEmpty
<1>1. Inv => DefaultStaysEmpty
  BY DEF Inv, PartitionInv
<1> QED  BY <1>1, Invariance, PTL

(* A message is reminded of once, and once more for each job that ends     *)
(* between the notification and the mark (engagement-rollup.service.ts).   *)
THEOREM RemindersAreBound == Spec => []RemindersBound
<1>1. ASSUME Inv PROVE RemindersBound
  <2>1. ASSUME NEW m \in Messages PROVE reminders[m] <= 1 + faults
    <3>1. reminders[m] <= faults + (IF message[m].notified \/ reminding.told = m THEN 1 ELSE 0)
      BY <1>1 DEF Inv, ReminderInv
    <3>2. faults \in Nat /\ reminders[m] \in Nat
      BY <1>1, HousekeepingAssumption DEF Inv, TypeOK
    <3> QED  BY <3>1, <3>2
  <2> QED  BY <2>1 DEF RemindersBound
<1> QED  BY <1>1, Invariance, PTL
=============================================================================
