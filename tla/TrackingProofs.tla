---------------------------- MODULE TrackingProofs ----------------------------
(***************************************************************************)
(* The invariants of Tracking hold for any messages, links and requests,   *)
(* and any number of attempts, stalls, worker slots and mishaps.           *)
(***************************************************************************)
EXTENDS Tracking, FiniteSetTheorems, TLAPS

-----------------------------------------------------------------------------
(* The inductive invariant.                                                *)

(* A request in the queue has its data, a job that may run again has an    *)
(* attempt left, and only an active job is run.                            *)
JobInv ==
  \A h \in Hits :
    /\ h \in DOMAIN hits <=> job[h] # "none"
    /\ job[h] = "none" => made[h] = 0
    /\ job[h] \in {"delayed", "waiting", "active"} => made[h] < MaxAttempts
    /\ pc[h] # "idle" => job[h] = "active"
    /\ pc[h] \in {"judging", "committing", "telling"} => hits[h].message \in Messages

(* The run that is under way, or comes next, has inserted nothing yet.     *)
Ahead(h) ==
  job[h] \in {"delayed", "waiting"} \/ pc[h] \in {"loading", "judging", "committing"}

RunInv ==
  \A e \in events :
    /\ e.hit \in DOMAIN hits
    /\ Ahead(e.hit) => e.run < made[e.hit] + stalls[e.hit]
    /\ ~Ahead(e.hit) => e.run <= made[e.hit] + stalls[e.hit]

(* A run inserts one row of its own kind, before it tells or returns.      *)
RowsInv ==
  /\ IsFiniteSet(events)
  /\ \A h \in DOMAIN hits :
       /\ Cardinality(RowsOf(h)) <= made[h] + stalls[h] + (IF Ahead(h) THEN 0 ELSE 1)
       /\ pc[h] \in {"telling", "returning"} \/ job[h] = "completed" =>
            hits[h].message = Unknown \/ RowsOf(h) # {}

(* Who still may tell of a first open, or infer one: they found no open.   *)
Pending(m) ==
  {h \in Busy : /\ pc[h] \in {"judging", "committing", "telling"}
                /\ hits[h].message = m /\ seen[h] = 0
                /\ pc[h] = "telling" => hits[h].kind = "open"}

InferredOf(m) == Human(m, {"open_inferred"})

OpenInv ==
  /\ \A h \in Hits : pc[h] = "telling" /\ hits[h].kind = "open" => openCount[hits[h].message] > 0
  /\ \A m \in Messages :
       /\ openCount[m] = 0 => told[m] = 0
       /\ told[m] + Cardinality(InferredOf(m)) + Cardinality(Pending(m)) <= Concurrency

(* Each open is announced once: while there is one, its notification is on *)
(* its way or has become the toast.                                        *)
NotesOf(m) == {n \in notes : n.message = m}

ToastInv ==
  /\ IsFiniteSet(notes)
  /\ \A m \in Messages : toasts[m] + Cardinality(NotesOf(m)) <= openCount[m]
  /\ OneToast

Inv == TypeOK /\ JobInv /\ RunInv /\ RowsInv /\ CountersMatch /\ OpenInv /\ ToastInv

-----------------------------------------------------------------------------
(* Finite sets.                                                            *)

LEMMA AddNew ==
  ASSUME NEW S, IsFiniteSet(S), NEW x, x \notin S
  PROVE  IsFiniteSet(S \cup {x}) /\ Cardinality(S \cup {x}) = Cardinality(S) + 1
         /\ Cardinality(S) \in Nat
  BY FS_AddElement, FS_CardinalityType

LEMMA AddAny ==
  ASSUME NEW S, IsFiniteSet(S), NEW x
  PROVE  IsFiniteSet(S \cup {x}) /\ Cardinality(S \cup {x}) <= Cardinality(S) + 1
         /\ Cardinality(S) \in Nat /\ Cardinality(S \cup {x}) \in Nat
<1>1. IsFiniteSet(S \cup {x})
      /\ Cardinality(S \cup {x}) = IF x \in S THEN Cardinality(S) ELSE Cardinality(S) + 1
  BY FS_AddElement
<1> QED  BY <1>1, FS_CardinalityType

LEMMA TakeOut ==
  ASSUME NEW S, IsFiniteSet(S), NEW x \in S
  PROVE  IsFiniteSet(S \ {x}) /\ Cardinality(S \ {x}) = Cardinality(S) - 1
         /\ Cardinality(S) \in Nat /\ Cardinality(S \ {x}) \in Nat
<1>1. IsFiniteSet(S \ {x})
      /\ Cardinality(S \ {x}) = IF x \in S THEN Cardinality(S) - 1 ELSE Cardinality(S)
  BY FS_RemoveElement
<1> QED  BY <1>1, FS_CardinalityType

LEMMA Smaller ==
  ASSUME NEW S, IsFiniteSet(S), NEW T, T \subseteq S
  PROVE  IsFiniteSet(T) /\ Cardinality(T) <= Cardinality(S)
         /\ Cardinality(T) \in Nat /\ Cardinality(S) \in Nat
  BY FS_Subset, FS_CardinalityType

LEMMA BusyFinite == IsFiniteSet(Busy) /\ IsFiniteSet(Hits)
  BY Smaller, TrackingAssumption DEF Busy

LEMMA NoLinkIsNone == NoLink \notin Links
  BY DEF NoLink, Links

-----------------------------------------------------------------------------
(* Types.                                                                  *)

LEMMA HitsType ==
  (\E queued \in SUBSET Hits : hits \in [queued -> Hit])
    <=> DOMAIN hits \subseteq Hits /\ hits \in [DOMAIN hits -> Hit]
  OBVIOUS

LEMMA EnqueueType ==
  ASSUME TypeOK, NEW h \in Hits, NEW data \in Hit, Enqueue(h, data)
  PROVE  /\ \E queued \in SUBSET Hits : hits' \in [queued -> Hit]
         /\ job' \in [Hits -> JobState] /\ UNCHANGED <<made, stalls>>
<1>1. DOMAIN hits \subseteq Hits /\ hits \in [DOMAIN hits -> Hit]
  BY HitsType DEF TypeOK
<1>2. hits' \in [DOMAIN hits \cup {h} -> Hit]
  BY <1>1 DEF Enqueue
<1>3. job' \in [Hits -> JobState] /\ UNCHANGED <<made, stalls>>
  BY DEF Enqueue, TypeOK, JobState
<1> QED  BY <1>1, <1>2, <1>3

(* A queued request's data.                                                *)
LEMMA HitOf ==
  ASSUME TypeOK, JobInv, NEW h \in Hits, job[h] # "none"
  PROVE  /\ h \in DOMAIN hits /\ hits[h] \in Hit
         /\ hits[h].message \in Messages \cup {Unknown} /\ hits[h].kind \in {"open", "click"}
         /\ hits[h].link \in Links \cup {NoLink} /\ hits[h].at \in Nat
         /\ hits[h].machine \in BOOLEAN
<1>1. hits \in [DOMAIN hits -> Hit] /\ h \in DOMAIN hits
  BY HitsType DEF TypeOK, JobInv
<1>2. hits[h] \in Hit
  BY <1>1
<1> QED  BY <1>1, <1>2 DEF Hit

LEMMA NowType == TypeOK => Now \subseteq Nat
<1> SUFFICES ASSUME TypeOK PROVE Now \subseteq Nat
  OBVIOUS
<1>1. \A h \in DOMAIN hits : hits[h].at \in Nat
  BY HitsType DEF TypeOK, Hit
<1> QED  BY <1>1 DEF Now

(* The rows of a commit.                                                   *)
Row(h, t) ==
  [hit     |-> h,
   run     |-> made[h] + stalls[h],
   message |-> hits[h].message,
   link    |-> IF t = "click" THEN hits[h].link ELSE NoLink,
   type    |-> t,
   bot     |-> bot[h],
   at      |-> hits[h].at]

LEMMA RowFields ==
  ASSUME NEW h, NEW t
  PROVE  /\ Row(h, t).hit = h /\ Row(h, t).run = made[h] + stalls[h]
         /\ Row(h, t).message = hits[h].message /\ Row(h, t).type = t
         /\ Row(h, t).bot = bot[h] /\ Row(h, t).at = hits[h].at
         /\ Row(h, t).link = IF t = "click" THEN hits[h].link ELSE NoLink
  BY DEF Row

LEMMA RowType ==
  ASSUME TypeOK, JobInv, NEW h \in Hits, pc[h] = "committing",
         NEW t \in TrackingEventType
  PROVE  Row(h, t) \in Event
<1>1. job[h] # "none" /\ hits[h].message \in Messages
  BY DEF JobInv
<1>2. hits[h].link \in Links \cup {NoLink} /\ hits[h].at \in Nat
  BY <1>1, HitOf
<1>3. made[h] + stalls[h] \in Nat /\ bot[h] \in BOOLEAN
  BY TrackingAssumption DEF TypeOK
<1> QED  BY <1>1, <1>2, <1>3 DEF Row, Event

(* What a commit inserts.  A click that infers an open inserts two rows.   *)
LEMMA Inserts ==
  ASSUME TypeOK, JobInv, NEW h \in Hits, pc[h] = "committing"
  PROVE  /\ NewEvents(h) = {Row(h, t) : t \in Types(h)}
         /\ hits[h].kind \in Types(h) /\ Types(h) \subseteq {hits[h].kind, "open_inferred"}
         /\ hits[h].kind \in {"open", "click"}
         /\ "open_inferred" \in Types(h) <=> Inferred(h)
         /\ Inferred(h) => hits[h].kind = "click" /\ ~bot[h] /\ seen[h] = 0
         /\ bot[h] \in BOOLEAN
         /\ Opens(h) = IF ~bot[h] /\ (hits[h].kind = "open" \/ Inferred(h)) THEN 1 ELSE 0
         /\ Clicks(h) = IF ~bot[h] /\ hits[h].kind = "click" THEN 1 ELSE 0
<1>1. hits[h].kind \in {"open", "click"} /\ bot[h] \in BOOLEAN
  BY HitOf DEF JobInv, TypeOK
<1>2. NewEvents(h) = {Row(h, t) : t \in Types(h)}
  BY DEF NewEvents, Row
<1>3. /\ hits[h].kind \in Types(h) /\ Types(h) \subseteq {hits[h].kind, "open_inferred"}
      /\ "open_inferred" \in Types(h) <=> Inferred(h)
      /\ Inferred(h) => hits[h].kind = "click" /\ ~bot[h] /\ seen[h] = 0
      /\ Types(h) # {"click"} <=> hits[h].kind = "open" \/ Inferred(h)
  BY <1>1 DEF Types, Inferred
<1> QED  BY <1>1, <1>2, <1>3 DEF Opens, Clicks

LEMMA NewAreEvents ==
  ASSUME TypeOK, JobInv, NEW h \in Hits, pc[h] = "committing"
  PROVE  NewEvents(h) \subseteq Event
<1>1. Types(h) \subseteq TrackingEventType
  BY Inserts DEF TrackingEventType
<1>2. \A t \in Types(h) : Row(h, t) \in Event
  BY <1>1, RowType
<1> QED  BY <1>2, Inserts

LEMMA TypeInit == Init => TypeOK
<1> SUFFICES ASSUME Init PROVE TypeOK
  OBVIOUS
<1>1. Busy = {}
  BY DEF Init, Busy
<1>2. Cardinality(Busy) <= Concurrency
  BY <1>1, FS_EmptySet, TrackingAssumption
<1>3. hits \in [{} -> Hit]
  BY DEF Init
<1>4. \E queued \in SUBSET Hits : hits \in [queued -> Hit]
  BY <1>3
<1>5. /\ job \in [Hits -> JobState] /\ made \in [Hits -> 0..MaxAttempts]
      /\ stalls \in [Hits -> 0..MaxStalled] /\ seen \in [Hits -> Nat]
      /\ bot \in [Hits -> BOOLEAN]
      /\ pc \in [Hits -> {"idle", "loading", "judging", "committing", "telling",
                           "returning", "throwing"}]
  BY TrackingAssumption DEF Init, JobState
<1>6. /\ openCount \in [Messages -> Nat] /\ clickCount \in [Messages -> Nat]
      /\ linkClicks \in [Links -> Nat] /\ told \in [Messages -> Nat]
      /\ toasts \in [Messages -> Nat]
  BY DEF Init
<1>7. events \subseteq Event /\ notes \subseteq Note /\ listening \in BOOLEAN
      /\ mishaps \in 0..MaxMishaps
  BY TrackingAssumption DEF Init
<1> QED  BY <1>2, <1>4, <1>5, <1>6, <1>7 DEF TypeOK

(* A request that is queued.                                               *)
Queued(h, data) ==
  /\ h \notin DOMAIN hits
  /\ Enqueue(h, data)
  /\ UNCHANGED <<worker, database, realtime, mishaps>>

LEMMA Arrivals ==
  ASSUME TypeOK, NEW h \in Hits,
         \/ \E t \in Messages, b \in BOOLEAN : Pixel(h, t, b)
         \/ Pixel(h, Unknown, FALSE)
         \/ \E l \in Links, b \in BOOLEAN : ClickLink(h, l, b)
  PROVE  \E data \in Hit : Queued(h, data)
<1>1. ASSUME NEW t \in Messages \cup {Unknown}, NEW b \in BOOLEAN, Pixel(h, t, b)
      PROVE  \E data \in Hit : Queued(h, data)
  <2> DEFINE d == [kind |-> "open", message |-> t, link |-> NoLink, machine |-> b, at |-> 0]
  <2>1. d \in Hit
    BY DEF Hit
  <2>2. Queued(h, d)
    BY <1>1 DEF Pixel, Queued
  <2> QED  BY <2>1, <2>2
<1>2. ASSUME NEW l \in Links, NEW b \in BOOLEAN, ClickLink(h, l, b)
      PROVE  \E data \in Hit : Queued(h, data)
  <2>1. PICK t \in Now : Enqueue(h, [kind |-> "click", message |-> l[1], link |-> l,
                                      machine |-> b, at |-> t])
    BY <1>2 DEF ClickLink
  <2> DEFINE d == [kind |-> "click", message |-> l[1], link |-> l, machine |-> b, at |-> t]
  <2>2. l[1] \in Messages /\ t \in Nat
    BY NowType DEF Links
  <2>3. d \in Hit
    BY <2>2 DEF Hit
  <2>4. Queued(h, d)
    BY <1>2, <2>1 DEF ClickLink, Queued
  <2> QED  BY <2>3, <2>4
<1> QED  BY <1>1, <1>2

(* The steps of the next-state relation, arrivals as Queued.               *)
LEMMA Steps ==
  ASSUME TypeOK, [Next]_vars
  PROVE  \/ \E h \in Hits : \/ \E data \in Hit : Queued(h, data)
                            \/ Promote(h) \/ Pick(h) \/ StalledCheck(h)
                            \/ Complete(h) \/ FailAttempt(h)
                            \/ Load(h) \/ Judge(h) \/ Commit(h) \/ Tell(h)
                            \/ HandlerFault(h)
         \/ \E n \in notes : HandleNotification(n)
         \/ ConnectionError \/ Reconnect \/ ApiRestart \/ Crash \/ UNCHANGED vars
  BY Arrivals DEF Next, QueueStep, WorkerStep

LEMMA BusyShrinks ==
  ASSUME TypeOK, Busy' \subseteq Busy PROVE Cardinality(Busy') <= Concurrency
<1>1. Cardinality(Busy') <= Cardinality(Busy) /\ Cardinality(Busy') \in Nat /\ Cardinality(Busy) \in Nat
  BY BusyFinite, Smaller
<1> QED  BY <1>1, TrackingAssumption DEF TypeOK

LEMMA TypeStep ==
  ASSUME TypeOK, JobInv, [Next]_vars PROVE TypeOK'
<1> USE TrackingAssumption
<1>1. ASSUME NEW h \in Hits, NEW data \in Hit, Queued(h, data) PROVE TypeOK'
  <2>1. UNCHANGED <<pc, seen, bot, events, openCount, clickCount, linkClicks, told,
                    listening, notes, toasts, mishaps>>
    BY <1>1 DEF Queued, worker, database, realtime
  <2>2. /\ \E queued \in SUBSET Hits : hits' \in [queued -> Hit]
        /\ job' \in [Hits -> JobState] /\ UNCHANGED <<made, stalls>>
    BY <1>1, EnqueueType DEF Queued
  <2>3. Busy' = Busy
    BY <2>1 DEF Busy
  <2> QED  BY <2>1, <2>2, <2>3 DEF TypeOK, JobState
<1>2. ASSUME NEW h \in Hits, Promote(h) \/ StalledCheck(h) PROVE TypeOK'
  <2>1. UNCHANGED <<hits, pc, seen, bot, made, events, openCount, clickCount, linkClicks, told,
                    listening, notes, toasts, mishaps>>
    BY <1>2 DEF Promote, StalledCheck, worker, database, realtime
  <2>2. job' \in [Hits -> JobState] /\ stalls' \in [Hits -> 0..MaxStalled]
    BY <1>2 DEF Promote, StalledCheck, TypeOK, JobState
  <2>3. Busy' = Busy
    BY <2>1 DEF Busy
  <2> QED  BY <2>1, <2>2, <2>3 DEF TypeOK, JobState
<1>3. ASSUME NEW h \in Hits, Pick(h) PROVE TypeOK'
  <2>1. UNCHANGED <<hits, made, stalls, seen, bot, events, openCount, clickCount, linkClicks, told,
                    listening, notes, toasts, mishaps>>
    BY <1>3 DEF Pick, database, realtime
  <2>2. job' \in [Hits -> JobState]
        /\ pc' \in [Hits -> {"idle", "loading", "judging", "committing", "telling",
                      "returning", "throwing"}]
    BY <1>3 DEF Pick, TypeOK, JobState
  <2>3. Busy' = Busy \cup {h}
    BY <1>3 DEF Busy, Pick, TypeOK
  <2>4. Cardinality(Busy') <= Cardinality(Busy) + 1 /\ Cardinality(Busy) \in Nat
        /\ Cardinality(Busy') \in Nat
    BY <2>3, BusyFinite, AddAny
  <2>5. Cardinality(Busy) < Concurrency
    BY <1>3 DEF Pick
  <2>6. Cardinality(Busy') <= Concurrency
    BY <2>4, <2>5
  <2> QED  BY <2>1, <2>2, <2>6 DEF TypeOK, JobState
<1>4. ASSUME NEW h \in Hits, Complete(h) \/ FailAttempt(h) PROVE TypeOK'
  <2>1. PICK s \in {"completed", "failed", "delayed"} : Leave(h, s)
    BY <1>4 DEF Complete, FailAttempt
  <2>2. UNCHANGED <<hits, stalls, events, openCount, clickCount, linkClicks, told,
                    listening, notes, toasts, mishaps>>
    BY <2>1 DEF Leave, database, realtime
  <2>3. /\ job' \in [Hits -> JobState] /\ seen' \in [Hits -> Nat] /\ bot' \in [Hits -> BOOLEAN]
        /\ pc' \in [Hits -> {"idle", "loading", "judging", "committing", "telling",
                      "returning", "throwing"}]
    BY <2>1 DEF Leave, TypeOK, JobState
  <2>4. made' \in [Hits -> 0..MaxAttempts]
    <3>1. CASE Complete(h)
      BY <3>1 DEF Complete, TypeOK
    <3>2. CASE FailAttempt(h)
      <4>1. made[h] < MaxAttempts /\ made[h] \in Nat
        BY <3>2 DEF FailAttempt, JobInv, TypeOK
      <4>2. made[h] + 1 \in 0..MaxAttempts
        BY <4>1
      <4> QED  BY <3>2, <4>2 DEF FailAttempt, TypeOK
    <3> QED  BY <1>4, <3>1, <3>2
  <2>5. Busy' \subseteq Busy
    BY <2>1 DEF Busy, Leave, TypeOK
  <2>6. Cardinality(Busy') <= Concurrency
    BY <2>5, BusyShrinks
  <2> QED  BY <2>2, <2>3, <2>4, <2>6 DEF TypeOK, JobState
<1>5. ASSUME NEW h \in Hits, Load(h) \/ Judge(h) \/ HandlerFault(h) PROVE TypeOK'
  <2>1. UNCHANGED <<hits, job, made, stalls, events, openCount, clickCount, linkClicks, told,
                    listening, notes, toasts>>
    BY <1>5 DEF Load, Judge, HandlerFault, queue, database, realtime
  <2>2. /\ pc' \in [Hits -> {"idle", "loading", "judging", "committing", "telling",
                      "returning", "throwing"}]
        /\ Busy' \subseteq Busy
    BY <1>5 DEF Load, Judge, HandlerFault, Goto, TypeOK, Busy
  <2>3. mishaps' \in 0..MaxMishaps
    BY <1>5 DEF Load, Judge, HandlerFault, Mishap, TypeOK
  <2>4. seen' \in [Hits -> Nat] /\ bot' \in [Hits -> BOOLEAN]
    <3>1. CASE Load(h)
      <4>1. job[h] # "none" /\ hits[h].machine \in BOOLEAN
            /\ hits[h].message \in Messages \cup {Unknown}
        BY <3>1, HitOf DEF Load, JobInv
      <4> QED  BY <3>1, <4>1 DEF Load, TypeOK
    <3>2. CASE Judge(h)
      BY <3>2 DEF Judge, TypeOK
    <3>3. CASE HandlerFault(h)
      BY <3>3 DEF HandlerFault, TypeOK
    <3> QED  BY <1>5, <3>1, <3>2, <3>3
  <2>5. Cardinality(Busy') <= Concurrency
    BY <2>2, BusyShrinks
  <2> QED  BY <2>1, <2>2, <2>3, <2>4, <2>5 DEF TypeOK, JobState
<1>6. ASSUME NEW h \in Hits, Commit(h) PROVE TypeOK'
  <2>1. UNCHANGED <<hits, job, made, stalls, seen, bot, told, listening, toasts>>
    BY <1>6 DEF Commit, queue
  <2>2. /\ pc' \in [Hits -> {"idle", "loading", "judging", "committing", "telling",
                      "returning", "throwing"}]
        /\ Busy' \subseteq Busy
    BY <1>6 DEF Commit, Goto, TypeOK, Busy
  <2>3. mishaps' \in 0..MaxMishaps
    BY <1>6 DEF Commit, Mishap, TypeOK
  <2>4. events' \subseteq Event
    BY <1>6, NewAreEvents DEF Commit, TypeOK
  <2>5. Opens(h) \in Nat /\ Clicks(h) \in Nat
    BY DEF Opens, Clicks
  <2>6. /\ openCount' \in [Messages -> Nat] /\ clickCount' \in [Messages -> Nat]
        /\ linkClicks' \in [Links -> Nat]
    <3>1. hits[h].message \in Messages /\ pc[h] = "committing"
      BY <1>6 DEF Commit, JobInv
    <3>2. openCount' \in [Messages -> Nat] /\ clickCount' \in [Messages -> Nat]
      BY <1>6, <2>5, <3>1 DEF Commit, RecordOpen, RecordClick, TypeOK
    <3>3. \A l \in Links : linkClicks[l] \in Nat /\ linkClicks[l] + Clicks(h) \in Nat
      BY <2>5 DEF TypeOK
    <3>4. linkClicks' \in [Links -> Nat]
      BY <1>6, <3>3 DEF Commit, RecordClick, TypeOK
    <3> QED  BY <3>2, <3>4
  <2>7. notes' \subseteq Note
    <3>1. hits[h].message \in Messages /\ made[h] + stalls[h] \in Nat
      BY <1>6 DEF Commit, JobInv, TypeOK
    <3>2. Published(h) \subseteq Note
      BY <3>1 DEF Published, Note
    <3> QED  BY <1>6, <3>2 DEF Commit, TypeOK
  <2>8. Cardinality(Busy') <= Concurrency
    BY <2>2, BusyShrinks
  <2> QED  BY <2>1, <2>2, <2>3, <2>4, <2>6, <2>7, <2>8 DEF TypeOK, JobState
<1>7. ASSUME NEW h \in Hits, Tell(h) PROVE TypeOK'
  <2>1. UNCHANGED <<hits, job, made, stalls, seen, bot, events, openCount, clickCount,
                    linkClicks, listening, notes, toasts, mishaps>>
    BY <1>7 DEF Tell, queue, realtime
  <2>2. /\ pc' \in [Hits -> {"idle", "loading", "judging", "committing", "telling",
                      "returning", "throwing"}]
        /\ Busy' \subseteq Busy
    BY <1>7 DEF Tell, Goto, TypeOK, Busy
  <2>3. told' \in [Messages -> Nat]
    <3>1. hits[h].message \in Messages
      BY <1>7 DEF Tell, JobInv
    <3> QED  BY <1>7, <3>1 DEF Tell, TypeOK
  <2>4. Cardinality(Busy') <= Concurrency
    BY <2>2, BusyShrinks
  <2> QED  BY <2>1, <2>2, <2>3, <2>4 DEF TypeOK, JobState
<1>8. ASSUME Crash PROVE TypeOK'
  <2>1. UNCHANGED <<hits, job, made, stalls, events, openCount, clickCount, linkClicks, told,
                    listening, notes, toasts>>
    BY <1>8 DEF Crash, queue, database, realtime
  <2>2. /\ pc' = [h \in Hits |-> "idle"] /\ seen' \in [Hits -> Nat] /\ bot' \in [Hits -> BOOLEAN]
        /\ mishaps' \in 0..MaxMishaps
    BY <1>8 DEF Crash, Mishap, TypeOK
  <2>3. Busy' = {}
    BY <2>2 DEF Busy
  <2>4. Cardinality(Busy') <= Concurrency
    BY <2>3, BusyShrinks
  <2> QED  BY <2>1, <2>2, <2>4 DEF TypeOK, JobState
<1>9. ASSUME \/ \E n \in notes : HandleNotification(n)
             \/ ConnectionError \/ Reconnect \/ ApiRestart \/ UNCHANGED vars
      PROVE  TypeOK'
  <2>1. UNCHANGED <<hits, job, made, stalls, pc, seen, bot, events, openCount, clickCount,
                    linkClicks, told>>
    BY <1>9 DEF HandleNotification, ConnectionError, Reconnect, ApiRestart, queue, worker,
       database, vars
  <2>2. /\ listening' \in BOOLEAN /\ notes' \subseteq Note /\ toasts' \in [Messages -> Nat]
        /\ mishaps' \in 0..MaxMishaps
    <3>1. ASSUME NEW n \in notes, HandleNotification(n)
          PROVE  toasts' \in [Messages -> Nat] /\ notes' \subseteq Note /\ UNCHANGED <<listening, mishaps>>
      <4>1. n.message \in Messages
        BY DEF TypeOK, Note
      <4> QED  BY <3>1, <4>1 DEF HandleNotification, TypeOK
    <3>2. ASSUME ConnectionError \/ Reconnect \/ ApiRestart \/ UNCHANGED vars
          PROVE  /\ listening' \in BOOLEAN /\ notes' \subseteq Note /\ UNCHANGED toasts
                 /\ mishaps' \in 0..MaxMishaps
      <4>0. ASSUME Mishap PROVE mishaps' \in 0..MaxMishaps
        BY <4>0 DEF Mishap, TypeOK
      <4>1. CASE ConnectionError \/ ApiRestart
        BY <4>0, <4>1 DEF ConnectionError, ApiRestart, TypeOK
      <4>2. CASE Reconnect
        BY <4>2 DEF Reconnect, TypeOK
      <4>3. CASE UNCHANGED vars
        BY <4>3 DEF vars, realtime, TypeOK
      <4> QED  BY <3>2, <4>1, <4>2, <4>3
    <3> QED  BY <1>9, <3>1, <3>2 DEF TypeOK
  <2>3. Busy' = Busy
    BY <2>1 DEF Busy
  <2> QED  BY <2>1, <2>2, <2>3 DEF TypeOK, JobState
<1> QED  BY <1>1, <1>2, <1>3, <1>4, <1>5, <1>6, <1>7, <1>8, <1>9, Steps

-----------------------------------------------------------------------------
(* The jobs and their runs.                                                *)

LEMMA JobStep ==
  ASSUME TypeOK, JobInv, [Next]_vars PROVE JobInv'
<1> USE TrackingAssumption
<1>1. ASSUME NEW h \in Hits, NEW data \in Hit, Queued(h, data) PROVE JobInv'
  <2>1. UNCHANGED <<pc, made>>
    BY <1>1 DEF Queued, Enqueue, worker
  <2>2. /\ DOMAIN hits' = DOMAIN hits \cup {h} /\ h \notin DOMAIN hits
        /\ hits' = [x \in DOMAIN hits \cup {h} |-> IF x = h THEN data ELSE hits[x]]
    BY <1>1 DEF Queued, Enqueue
  <2>3. job[h] = "none" /\ job' = [job EXCEPT ![h] = "waiting"] /\ made[h] = 0 /\ pc[h] = "idle"
    BY <1>1, <2>2 DEF Queued, Enqueue, JobInv
  <2> QED  BY <2>1, <2>2, <2>3 DEF JobInv, TypeOK
<1>2. ASSUME NEW h \in Hits,
             \/ Promote(h) \/ Pick(h) \/ StalledCheck(h) \/ Complete(h)
             \/ Load(h) \/ Judge(h) \/ Commit(h) \/ Tell(h) \/ HandlerFault(h)
      PROVE  JobInv'
  <2>1. UNCHANGED <<hits, made>>
    BY <1>2 DEF Promote, Pick, StalledCheck, Complete, Leave, Load, Judge, Commit, Tell,
       HandlerFault, queue
  <2>2. ASSUME NEW g \in Hits, g # h PROVE job'[g] = job[g] /\ pc'[g] = pc[g]
    BY <1>2, <2>2 DEF Promote, Pick, StalledCheck, Complete, Leave, Load, Judge, Commit, Tell,
       HandlerFault, Goto, queue, worker, TypeOK
  <2>3. /\ h \in DOMAIN hits' <=> job'[h] # "none"
        /\ job'[h] = "none" => made'[h] = 0
        /\ job'[h] \in {"delayed", "waiting", "active"} => made'[h] < MaxAttempts
        /\ pc'[h] # "idle" => job'[h] = "active"
        /\ pc'[h] \in {"judging", "committing", "telling"} => hits'[h].message \in Messages
    <3>1. CASE Promote(h) \/ Pick(h) \/ StalledCheck(h) \/ Complete(h)
      BY <3>1 DEF Promote, Pick, StalledCheck, Complete, Leave, worker, TypeOK, JobInv
    <3>2. CASE Load(h)
      <4>1. job[h] = "active" /\ hits[h].message \in Messages \cup {Unknown}
        BY <3>2, HitOf DEF Load, JobInv
      <4> QED  BY <3>2, <4>1 DEF Load, Goto, queue, TypeOK, JobInv
    <3>3. CASE Judge(h) \/ Commit(h) \/ Tell(h) \/ HandlerFault(h)
      BY <3>3 DEF Judge, Commit, Tell, HandlerFault, Goto, queue, TypeOK, JobInv
    <3> QED  BY <1>2, <3>1, <3>2, <3>3
  <2> QED  BY <2>1, <2>2, <2>3 DEF JobInv
<1>3. ASSUME NEW h \in Hits, FailAttempt(h) PROVE JobInv'
  <2>1. made[h] < MaxAttempts /\ made[h] \in Nat /\ job[h] = "active"
    BY <1>3 DEF FailAttempt, JobInv, TypeOK
  <2>2. made[h] + 1 >= MaxAttempts \/ made[h] + 1 < MaxAttempts
    BY <2>1
  <2> QED  BY <1>3, <2>1, <2>2 DEF FailAttempt, Leave, JobInv, TypeOK
<1>4. ASSUME Crash PROVE JobInv'
  BY <1>4 DEF Crash, queue, JobInv
<1>5. ASSUME \/ \E n \in notes : HandleNotification(n)
             \/ ConnectionError \/ Reconnect \/ ApiRestart \/ UNCHANGED vars
      PROVE  JobInv'
  BY <1>5 DEF HandleNotification, ConnectionError, Reconnect, ApiRestart, queue, worker, vars,
     JobInv
<1> QED  BY <1>1, <1>2, <1>3, <1>4, <1>5, Steps

LEMMA Counts ==
  ASSUME TypeOK, NEW h \in Hits
  PROVE  made[h] \in Nat /\ stalls[h] \in Nat /\ made[h] + stalls[h] \in Nat
  BY TrackingAssumption DEF TypeOK

(* A request that is not in the queue has no rows.                         *)
LEMMA NoRowsYet ==
  ASSUME RunInv, NEW h, h \notin DOMAIN hits
  PROVE  RowsOf(h) = {} /\ \A e \in events : e.hit # h
  BY DEF RunInv, RowsOf

(* The rows of a commit are new: no event has the hit and the run.         *)
LEMMA NewAreNew ==
  ASSUME TypeOK, RunInv, NEW h \in Hits, pc[h] = "committing", NEW t
  PROVE  Row(h, t) \notin events
<1> SUFFICES ASSUME Row(h, t) \in events PROVE FALSE
  OBVIOUS
<1>1. Row(h, t).run < made[Row(h, t).hit] + stalls[Row(h, t).hit]
  BY RowFields DEF RunInv, Ahead
<1>2. Row(h, t).run < made[h] + stalls[h] /\ Row(h, t).run = made[h] + stalls[h]
  BY <1>1, RowFields
<1> QED  BY <1>2, Counts

(* What of a job matters to its rows: a step that inserts none leaves them *)
(* in order when it does this to the job.                                  *)
Orderly(h) ==
  /\ made[h] + stalls[h] <= made'[h] + stalls'[h]
  /\ Ahead(h)' => Ahead(h) \/ made[h] + stalls[h] < made'[h] + stalls'[h]
  /\ hits'[h] = hits[h]
  /\ pc'[h] \in {"telling", "returning"} \/ job'[h] = "completed" =>
       \/ pc[h] \in {"telling", "returning"} \/ job[h] = "completed"
       \/ hits[h].message = Unknown

LEMMA OrderlySteps ==
  ASSUME TypeOK, TypeOK', JobInv, [Next]_vars, ~(\E h \in Hits : Commit(h)), NEW g \in DOMAIN hits
  PROVE  Orderly(g)
<1> USE TrackingAssumption
<1>0. g \in Hits /\ made[g] + stalls[g] \in Nat
  BY Counts, HitsType DEF TypeOK
<1>1. ASSUME NEW h \in Hits, NEW data \in Hit, Queued(h, data) PROVE Orderly(g)
  BY <1>0, <1>1 DEF Queued, Enqueue, worker, database, Orderly, Ahead, TypeOK
<1>2. ASSUME NEW h \in Hits,
             \/ Promote(h) \/ Pick(h) \/ StalledCheck(h) \/ Complete(h) \/ FailAttempt(h)
             \/ Load(h) \/ Judge(h) \/ Tell(h) \/ HandlerFault(h)
      PROVE  Orderly(g)
  <2>1. UNCHANGED <<hits, events>>
    BY <1>2 DEF Promote, Pick, StalledCheck, Complete, FailAttempt, Leave, Load, Judge, Tell,
       HandlerFault, queue, database
  <2>2. CASE g # h
    <3>1. job'[g] = job[g] /\ pc'[g] = pc[g] /\ made'[g] = made[g] /\ stalls'[g] = stalls[g]
      BY <1>0, <1>2, <2>2 DEF Promote, Pick, StalledCheck, Complete, FailAttempt, Leave, Load,
         Judge, Tell, HandlerFault, Goto, queue, worker, TypeOK
    <3> QED  BY <1>0, <2>1, <3>1 DEF Orderly, Ahead
  <2>3. CASE g = h
    <3>1. CASE Promote(h) \/ Pick(h) \/ Complete(h)
      BY <1>0, <2>1, <2>3, <3>1 DEF Promote, Pick, Complete, Leave, worker, Orderly, Ahead, TypeOK
    <3>2. CASE StalledCheck(h)
      BY <1>0, <2>1, <2>3, <3>2, Counts DEF StalledCheck, worker, Orderly, Ahead, TypeOK
    <3>3. CASE FailAttempt(h)
      BY <1>0, <2>1, <2>3, <3>3, Counts DEF FailAttempt, Leave, Orderly, Ahead, TypeOK
    <3>4. CASE Load(h) \/ Judge(h) \/ Tell(h) \/ HandlerFault(h)
      BY <1>0, <2>1, <2>3, <3>4 DEF Load, Judge, Tell, HandlerFault, Goto, queue, Orderly, Ahead,
         TypeOK
    <3> QED  BY <1>2, <3>1, <3>2, <3>3, <3>4
  <2> QED  BY <2>1, <2>2, <2>3
<1>3. ASSUME Crash PROVE Orderly(g)
  BY <1>0, <1>3 DEF Crash, queue, database, Orderly, Ahead
<1>4. ASSUME \/ \E n \in notes : HandleNotification(n)
             \/ ConnectionError \/ Reconnect \/ ApiRestart \/ UNCHANGED vars
      PROVE  Orderly(g)
  <2>1. UNCHANGED <<hits, job, made, stalls, pc, events>>
    BY <1>4 DEF HandleNotification, ConnectionError, Reconnect, ApiRestart, queue, worker,
       database, vars
  <2> QED  BY <1>0, <2>1 DEF Orderly, Ahead
<1> QED  BY <1>1, <1>2, <1>3, <1>4, Steps

(* Requests stay in the queue's history.                                   *)
LEMMA HitsStay ==
  ASSUME TypeOK, JobInv, [Next]_vars
  PROVE  /\ DOMAIN hits \subseteq DOMAIN hits'
         /\ \A h \in DOMAIN hits' \ DOMAIN hits : /\ job[h] = "none" /\ job'[h] = "waiting"
                                                  /\ pc'[h] = "idle" /\ UNCHANGED events
<1>1. ASSUME NEW h \in Hits, NEW data \in Hit, Queued(h, data)
      PROVE  /\ DOMAIN hits \subseteq DOMAIN hits'
             /\ \A g \in DOMAIN hits' \ DOMAIN hits : /\ job[g] = "none" /\ job'[g] = "waiting"
                                                  /\ pc'[g] = "idle" /\ UNCHANGED events
  <2>1. DOMAIN hits' = DOMAIN hits \cup {h} /\ h \notin DOMAIN hits
    BY <1>1 DEF Queued, Enqueue
  <2>2. job[h] = "none" /\ pc[h] = "idle"
    BY <2>1 DEF JobInv
  <2> QED  BY <1>1, <2>1, <2>2 DEF Queued, Enqueue, worker, database, TypeOK
<1>2. ASSUME ~(\E h \in Hits, data \in Hit : Queued(h, data)) PROVE UNCHANGED hits
  BY <1>2, Steps DEF Promote, Pick, StalledCheck, Complete, FailAttempt, Leave, Load, Judge,
     Commit, Tell, HandlerFault, HandleNotification, ConnectionError, Reconnect, ApiRestart,
     Crash, vars, queue
<1> QED  BY <1>1, <1>2

LEMMA EventsStay ==
  ASSUME TypeOK, [Next]_vars, ~(\E h \in Hits : Commit(h)) PROVE UNCHANGED events
  BY Steps DEF Queued, Promote, Pick, StalledCheck, Complete, FailAttempt, Leave, Load, Judge,
     Tell, HandlerFault, HandleNotification, ConnectionError, Reconnect, ApiRestart, Crash, vars,
     database

LEMMA RunStep ==
  ASSUME TypeOK, TypeOK', JobInv, RunInv, [Next]_vars PROVE RunInv'
<1> USE TrackingAssumption
<1>1. CASE ~(\E h \in Hits : Commit(h))
  <2> SUFFICES ASSUME NEW e \in events'
               PROVE  /\ e.hit \in DOMAIN hits'
                      /\ Ahead(e.hit)' => e.run < made'[e.hit] + stalls'[e.hit]
                      /\ ~Ahead(e.hit)' => e.run <= made'[e.hit] + stalls'[e.hit]
    BY DEF RunInv, Ahead
  <2>1. e \in events
    BY <1>1, EventsStay
  <2>2. e.hit \in DOMAIN hits /\ Orderly(e.hit)
    BY <1>1, <2>1, OrderlySteps DEF RunInv
  <2>3. e.hit \in Hits /\ e.run \in Nat
    BY <2>1, <2>2 DEF TypeOK, Event
  <2>4. made[e.hit] + stalls[e.hit] \in Nat /\ made'[e.hit] + stalls'[e.hit] \in Nat
    BY <2>3 DEF TypeOK
  <2>5. /\ Ahead(e.hit) => e.run < made[e.hit] + stalls[e.hit]
        /\ ~Ahead(e.hit) => e.run <= made[e.hit] + stalls[e.hit]
    BY <2>1 DEF RunInv
  <2> QED  BY <2>2, <2>3, <2>4, <2>5, HitsStay DEF Orderly
<1>2. ASSUME NEW h \in Hits, Commit(h) PROVE RunInv'
  <2>1. UNCHANGED <<hits, job, made, stalls>> /\ pc[h] = "committing" /\ job[h] = "active"
    BY <1>2 DEF Commit, queue, JobInv
  <2>2. /\ \A g \in Hits : g # h => pc'[g] = pc[g]
        /\ pc'[h] \in {"returning", "telling", "throwing"}
    BY <1>2 DEF Commit, Goto, TypeOK
  <2>3. events' = events \cup {Row(h, t) : t \in Types(h)}
    BY <1>2, <2>1, Inserts DEF Commit
  <2>4. ASSUME NEW e \in events
        PROVE  /\ e.hit \in DOMAIN hits'
               /\ Ahead(e.hit)' => e.run < made'[e.hit] + stalls'[e.hit]
               /\ ~Ahead(e.hit)' => e.run <= made'[e.hit] + stalls'[e.hit]
    <3>1. e.hit \in Hits /\ e.run \in Nat /\ made[e.hit] + stalls[e.hit] \in Nat
      BY Counts DEF TypeOK, Event
    <3>2. Ahead(e.hit)' => Ahead(e.hit)
      BY <2>1, <2>2, <3>1 DEF Ahead
    <3>3. /\ e.hit \in DOMAIN hits
          /\ Ahead(e.hit) => e.run < made[e.hit] + stalls[e.hit]
          /\ ~Ahead(e.hit) => e.run <= made[e.hit] + stalls[e.hit]
      BY DEF RunInv
    <3> QED  BY <2>1, <3>1, <3>2, <3>3
  <2>5. ASSUME NEW t \in Types(h)
        PROVE  /\ Row(h, t).hit = h /\ h \in DOMAIN hits' /\ ~Ahead(h)'
               /\ Row(h, t).run <= made'[h] + stalls'[h]
    <3>1. h \in DOMAIN hits /\ made[h] + stalls[h] \in Nat
      BY <2>1, Counts DEF JobInv
    <3>2. ~Ahead(h)'
      BY <2>1, <2>2 DEF Ahead
    <3>3. Row(h, t).hit = h /\ Row(h, t).run = made[h] + stalls[h]
      BY RowFields
    <3> QED  BY <2>1, <3>1, <3>2, <3>3
  <2> QED  BY <2>3, <2>4, <2>5 DEF RunInv
<1> QED  BY <1>1, <1>2

LEMMA RowsStep ==
  ASSUME TypeOK, TypeOK', JobInv, RunInv, RowsInv, [Next]_vars PROVE RowsInv'
<1> USE TrackingAssumption
<1> DEFINE Counted(h) == Cardinality(RowsOf(h)) <= made[h] + stalls[h] + (IF Ahead(h) THEN 0 ELSE 1)
           Found(h) == pc[h] \in {"telling", "returning"} \/ job[h] = "completed" =>
                         hits[h].message = Unknown \/ RowsOf(h) # {}
<1>0. \A h : IsFiniteSet(RowsOf(h)) /\ Cardinality(RowsOf(h)) \in Nat
  <2>1. \A h : RowsOf(h) \subseteq events
    BY DEF RowsOf
  <2> QED  BY <2>1, Smaller DEF RowsInv
<1>1. CASE ~(\E h \in Hits : Commit(h))
  <2>1. UNCHANGED events /\ \A h : RowsOf(h)' = RowsOf(h)
    BY <1>1, EventsStay DEF RowsOf
  <2>2. ASSUME NEW h \in DOMAIN hits PROVE Counted(h)' /\ Found(h)'
    <3>1. Orderly(h) /\ Counted(h) /\ Found(h) /\ h \in Hits
      BY <1>1, OrderlySteps, HitsType DEF RowsInv, TypeOK
    <3>2. made[h] + stalls[h] \in Nat /\ (made[h] + stalls[h])' \in Nat
      BY <3>1, Counts DEF TypeOK
    <3>3. Found(h)'
      BY <2>1, <3>1 DEF Orderly
    <3>4. Counted(h)'
      BY <1>0, <2>1, <3>1, <3>2 DEF Orderly
    <3> QED  BY <3>3, <3>4
  <2>3. ASSUME NEW h \in DOMAIN hits' \ DOMAIN hits PROVE Counted(h)' /\ Found(h)'
    <3>1. RowsOf(h)' = {} /\ Cardinality(RowsOf(h)') = 0
      BY <2>1, NoRowsYet, FS_EmptySet
    <3>2. h \in Hits
      BY HitsType DEF TypeOK
    <3>3. (made[h] + stalls[h])' \in Nat
      BY <3>2 DEF TypeOK
    <3>4. Found(h)'
      BY HitsStay
    <3> QED  BY <3>1, <3>3, <3>4
  <2> QED  BY <2>1, <2>2, <2>3 DEF RowsInv
<1>2. ASSUME NEW h \in Hits, Commit(h) PROVE RowsInv'
  <2>1. UNCHANGED <<hits, job, made, stalls>> /\ pc[h] = "committing" /\ job[h] = "active"
    BY <1>2 DEF Commit, queue, JobInv
  <2>2. /\ \A g \in Hits : g # h => pc'[g] = pc[g]
        /\ pc'[h] \in {"returning", "telling", "throwing"}
    BY <1>2 DEF Commit, Goto, TypeOK
  <2>3. events' = events \cup {Row(h, t) : t \in Types(h)}
    BY <1>2, <2>1, Inserts DEF Commit
  <2>4. Types(h) \subseteq {hits[h].kind, "open_inferred"} /\ hits[h].kind \in Types(h)
        /\ hits[h].kind \in {"open", "click"}
    BY <2>1, Inserts
  <2>5. IsFiniteSet(events')
    <3>1. events' \subseteq events \cup {Row(h, hits[h].kind)} \cup {Row(h, "open_inferred")}
      BY <2>3, <2>4
    <3>2. IsFiniteSet(events \cup {Row(h, hits[h].kind)} \cup {Row(h, "open_inferred")})
      BY AddAny DEF RowsInv
    <3> QED  BY <3>1, <3>2, Smaller
  <2>6. ASSUME NEW g \in DOMAIN hits, g # h PROVE Counted(g)' /\ Found(g)'
    <3>1. RowsOf(g)' = RowsOf(g)
      <4>1. \A t : Row(h, t).hit # g
        BY <2>6, RowFields
      <4> QED  BY <2>3, <4>1 DEF RowsOf
    <3>2. g \in Hits
      BY HitsType DEF TypeOK
    <3>3. job'[g] = job[g] /\ pc'[g] = pc[g] /\ Counted(g) /\ Found(g)
      BY <2>1, <2>2, <2>6, <3>2 DEF RowsInv
    <3> QED  BY <2>1, <3>1, <3>3 DEF Ahead
  <2>7. h \in DOMAIN hits /\ Ahead(h) /\ ~Ahead(h)' /\ Counted(h)
    BY <2>1, <2>2 DEF JobInv, Ahead, RowsInv
  <2>8. /\ RowsOf(h)' \subseteq RowsOf(h) \cup {Row(h, hits[h].kind)}
        /\ Row(h, hits[h].kind) \in RowsOf(h)'
    <3>1. Row(h, "open_inferred").type = "open_inferred" /\ Row(h, hits[h].kind).hit = h
          /\ Row(h, hits[h].kind).type = hits[h].kind
      BY RowFields
    <3> QED  BY <2>3, <2>4, <3>1 DEF RowsOf
  <2>9. Cardinality(RowsOf(h)') <= Cardinality(RowsOf(h)) + 1 /\ Cardinality(RowsOf(h)') \in Nat
    <3>1. IsFiniteSet(RowsOf(h) \cup {Row(h, hits[h].kind)})
          /\ Cardinality(RowsOf(h) \cup {Row(h, hits[h].kind)}) <= Cardinality(RowsOf(h)) + 1
      BY <1>0, AddAny
    <3>2. Cardinality(RowsOf(h)') <= Cardinality(RowsOf(h) \cup {Row(h, hits[h].kind)})
          /\ Cardinality(RowsOf(h)') \in Nat
          /\ Cardinality(RowsOf(h) \cup {Row(h, hits[h].kind)}) \in Nat
      BY <2>8, <3>1, Smaller
    <3> QED  BY <1>0, <3>1, <3>2
  <2>10. Counted(h)' /\ Found(h)'
    <3>1. made[h] + stalls[h] \in Nat
      BY Counts
    <3> QED  BY <1>0, <2>1, <2>7, <2>8, <2>9, <3>1
  <2> QED  BY <2>1, <2>5, <2>6, <2>10 DEF RowsInv
<1> QED  BY <1>1, <1>2

-----------------------------------------------------------------------------
(* The counters.                                                           *)

(* What a commit adds to the people's rows of a message.                   *)
LEMMA AddedHuman ==
  ASSUME TypeOK, JobInv, RunInv, RowsInv, NEW h \in Hits, Commit(h),
         NEW m \in Messages, NEW T, NEW t \in {"open", "click", "open_inferred"},
         T \cap Types(h) \subseteq {t}
  PROVE  /\ IsFiniteSet(Human(m, T)) /\ Cardinality(Human(m, T)) \in Nat
         /\ IF m = hits[h].message /\ t \in T \cap Types(h) /\ ~bot[h]
              THEN /\ Human(m, T)' = Human(m, T) \cup {Row(h, t)}
                   /\ Cardinality(Human(m, T)') = Cardinality(Human(m, T)) + 1
              ELSE Human(m, T)' = Human(m, T)
<1>1. pc[h] = "committing"
  BY DEF Commit
<1>2. events' = events \cup {Row(h, s) : s \in Types(h)}
  BY <1>1, Inserts DEF Commit
<1>3. IsFiniteSet(Human(m, T)) /\ Cardinality(Human(m, T)) \in Nat
  <2>1. Human(m, T) \subseteq events
    BY DEF Human
  <2> QED  BY <2>1, Smaller DEF RowsInv
<1>4. \A s : /\ Row(h, s).message = hits[h].message /\ Row(h, s).type = s
             /\ Row(h, s).bot = bot[h] /\ Row(h, s) \notin events
  BY <1>1, RowFields, NewAreNew
<1>5. CASE m = hits[h].message /\ t \in T \cap Types(h) /\ ~bot[h]
  <2>1. Human(m, T)' = Human(m, T) \cup {Row(h, t)}
    BY <1>2, <1>4, <1>5 DEF Human
  <2>2. Row(h, t) \notin Human(m, T)
    BY <1>4 DEF Human
  <2> QED  BY <1>3, <1>5, <2>1, <2>2, AddNew
<1>6. CASE ~(m = hits[h].message /\ t \in T \cap Types(h) /\ ~bot[h])
  <2>1. Human(m, T)' = Human(m, T)
    BY <1>2, <1>4, <1>6 DEF Human
  <2> QED  BY <1>3, <1>6, <2>1
<1> QED  BY <1>5, <1>6

LinkRows(l) == {e \in events : e.link = l /\ ~e.bot}

LEMMA AddedClicks ==
  ASSUME TypeOK, JobInv, RunInv, RowsInv, NEW h \in Hits, Commit(h), NEW l \in Links
  PROVE  /\ Cardinality(LinkRows(l)) \in Nat
         /\ Cardinality(LinkRows(l)') =
              IF hits[h].kind = "click" /\ hits[h].link = l /\ ~bot[h]
                THEN Cardinality(LinkRows(l)) + 1 ELSE Cardinality(LinkRows(l))
<1>1. pc[h] = "committing"
  BY DEF Commit
<1>2. events' = events \cup {Row(h, s) : s \in Types(h)}
      /\ hits[h].kind \in Types(h) /\ Types(h) \subseteq {hits[h].kind, "open_inferred"}
  BY <1>1, Inserts DEF Commit
<1>3. IsFiniteSet(LinkRows(l)) /\ Cardinality(LinkRows(l)) \in Nat
  <2>1. LinkRows(l) \subseteq events
    BY DEF LinkRows
  <2> QED  BY <2>1, Smaller DEF RowsInv
<1>4. \A s : /\ Row(h, s).link = (IF s = "click" THEN hits[h].link ELSE NoLink)
             /\ Row(h, s).bot = bot[h] /\ Row(h, s) \notin events
  BY <1>1, RowFields, NewAreNew
<1>5. NoLink # l
  BY NoLinkIsNone
<1>6. CASE hits[h].kind = "click" /\ hits[h].link = l /\ ~bot[h]
  <2>1. LinkRows(l)' = LinkRows(l) \cup {Row(h, "click")}
    BY <1>2, <1>4, <1>5, <1>6 DEF LinkRows
  <2>2. Row(h, "click") \notin LinkRows(l)
    BY <1>4 DEF LinkRows
  <2> QED  BY <1>3, <1>6, <2>1, <2>2, AddNew
<1>7. CASE ~(hits[h].kind = "click" /\ hits[h].link = l /\ ~bot[h])
  <2>1. LinkRows(l)' = LinkRows(l)
    BY <1>2, <1>4, <1>5, <1>7 DEF LinkRows
  <2> QED  BY <1>3, <1>7, <2>1
<1> QED  BY <1>6, <1>7

LEMMA CountersStay ==
  ASSUME TypeOK, [Next]_vars, ~(\E h \in Hits : Commit(h))
  PROVE  UNCHANGED <<events, openCount, clickCount, linkClicks>>
  BY Steps DEF Queued, Promote, Pick, StalledCheck, Complete, FailAttempt, Leave, Load, Judge,
     Tell, HandlerFault, HandleNotification, ConnectionError, Reconnect, ApiRestart, Crash, vars,
     database

LEMMA CountersStep ==
  ASSUME TypeOK, JobInv, RunInv, RowsInv, CountersMatch, [Next]_vars PROVE CountersMatch'
<1>1. CASE ~(\E h \in Hits : Commit(h))
  BY <1>1, CountersStay DEF CountersMatch, Human
<1>2. ASSUME NEW h \in Hits, Commit(h) PROVE CountersMatch'
  <2>1. /\ hits[h].message \in Messages
        /\ hits[h].kind \in Types(h) /\ Types(h) \subseteq {hits[h].kind, "open_inferred"}
        /\ hits[h].kind \in {"open", "click"}
        /\ "open_inferred" \in Types(h) <=> Inferred(h)
        /\ Inferred(h) => hits[h].kind = "click" /\ ~bot[h]
        /\ Opens(h) = IF ~bot[h] /\ (hits[h].kind = "open" \/ Inferred(h)) THEN 1 ELSE 0
        /\ Clicks(h) = IF ~bot[h] /\ hits[h].kind = "click" THEN 1 ELSE 0
    BY <1>2, Inserts DEF Commit, JobInv
  <2>2. ASSUME NEW m \in Messages
        PROVE  (openCount[m] = Cardinality(Human(m, {"open", "open_inferred"})))'
    <3> DEFINE T == {"open", "open_inferred"}
               t == IF hits[h].kind = "open" THEN "open" ELSE "open_inferred"
    <3>1. T \cap Types(h) \subseteq {t} /\ t \in {"open", "click", "open_inferred"} /\ t \in T
          /\ (t \in Types(h) <=> hits[h].kind = "open" \/ Inferred(h))
      BY <2>1
    <3>2. /\ Cardinality(Human(m, T)) \in Nat
          /\ IF m = hits[h].message /\ t \in T \cap Types(h) /\ ~bot[h]
               THEN Cardinality(Human(m, T)') = Cardinality(Human(m, T)) + 1
               ELSE Human(m, T)' = Human(m, T)
      BY <1>2, <3>1, AddedHuman
    <3>3. openCount'[m] = IF m = hits[h].message THEN openCount[m] + Opens(h) ELSE openCount[m]
      BY <1>2 DEF Commit, RecordOpen, TypeOK
    <3>4. openCount[m] = Cardinality(Human(m, T))
      BY DEF CountersMatch
    <3>5. openCount'[m] = Cardinality(Human(m, T)')
      BY <2>1, <3>1, <3>2, <3>3, <3>4
    <3> QED  BY <3>5
  <2>3. ASSUME NEW m \in Messages PROVE (clickCount[m] = Cardinality(Human(m, {"click"})))'
    <3>1. {"click"} \cap Types(h) \subseteq {"click"}
          /\ ("click" \in Types(h) <=> hits[h].kind = "click")
      BY <2>1
    <3>2. /\ Cardinality(Human(m, {"click"})) \in Nat
          /\ IF m = hits[h].message /\ "click" \in {"click"} \cap Types(h) /\ ~bot[h]
               THEN Cardinality(Human(m, {"click"})') = Cardinality(Human(m, {"click"})) + 1
               ELSE Human(m, {"click"})' = Human(m, {"click"})
      BY <1>2, <3>1, AddedHuman
    <3>3. clickCount'[m] = IF m = hits[h].message THEN clickCount[m] + Clicks(h) ELSE clickCount[m]
      BY <1>2 DEF Commit, RecordClick, TypeOK
    <3>4. clickCount[m] = Cardinality(Human(m, {"click"}))
      BY DEF CountersMatch
    <3>5. clickCount'[m] = Cardinality(Human(m, {"click"})')
      BY <2>1, <3>1, <3>2, <3>3, <3>4
    <3> QED  BY <3>5
  <2>4. ASSUME NEW l \in Links PROVE (linkClicks[l] = Cardinality(LinkRows(l)))'
    <3>1. linkClicks'[l] = IF hits[h].kind = "click" /\ l = hits[h].link
                             THEN linkClicks[l] + Clicks(h) ELSE linkClicks[l]
      BY <1>2 DEF Commit, RecordClick, TypeOK
    <3>2. linkClicks[l] = Cardinality(LinkRows(l))
      BY DEF CountersMatch, LinkRows
    <3>3. linkClicks'[l] = Cardinality(LinkRows(l)')
      BY <1>2, <2>1, <3>1, <3>2, AddedClicks
    <3> QED  BY <3>3
  <2> QED  BY <2>2, <2>3, <2>4 DEF CountersMatch, LinkRows
<1> QED  BY <1>1, <1>2

-----------------------------------------------------------------------------
(* First opens.                                                            *)

LEMMA OpenFinite ==
  ASSUME RowsInv, NEW m
  PROVE  /\ IsFiniteSet(InferredOf(m)) /\ Cardinality(InferredOf(m)) \in Nat
         /\ IsFiniteSet(Pending(m)) /\ Cardinality(Pending(m)) \in Nat
<1>1. InferredOf(m) \subseteq events /\ Pending(m) \subseteq Busy
  BY DEF InferredOf, Human, Pending
<1> QED  BY <1>1, Smaller, BusyFinite DEF RowsInv

(* A message that is not open has none inferred.                           *)
LEMMA NoneInferred ==
  ASSUME RowsInv, CountersMatch, NEW m \in Messages, openCount[m] = 0
  PROVE  InferredOf(m) = {}
<1>1. Cardinality(Human(m, {"open", "open_inferred"})) = 0
  BY DEF CountersMatch
<1>2. Human(m, {"open", "open_inferred"}) \subseteq events
  BY DEF Human
<1>3. Human(m, {"open", "open_inferred"}) = {}
  BY <1>1, <1>2, Smaller, FS_EmptySet DEF RowsInv
<1> QED  BY <1>3 DEF InferredOf, Human

(* The sum of a message grows by no step that moves these sets down.       *)
LEMMA OpenShrinks ==
  ASSUME TypeOK, TypeOK', RowsInv, RowsInv', OpenInv, NEW m \in Messages,
         told'[m] = told[m], InferredOf(m)' = InferredOf(m), Pending(m)' \subseteq Pending(m)
  PROVE  told'[m] + Cardinality(InferredOf(m)') + Cardinality(Pending(m)') <= Concurrency
<1>1. Cardinality(Pending(m)') <= Cardinality(Pending(m)) /\ Cardinality(Pending(m)') \in Nat
  BY OpenFinite, Smaller
<1>2. told[m] \in Nat /\ Cardinality(InferredOf(m)) \in Nat /\ Cardinality(Pending(m)) \in Nat
  BY OpenFinite DEF TypeOK
<1>3. told[m] + Cardinality(InferredOf(m)) + Cardinality(Pending(m)) <= Concurrency
  BY DEF OpenInv
<1> QED  BY <1>1, <1>2, <1>3, TrackingAssumption

LEMMA OpenStep ==
  ASSUME TypeOK, TypeOK', JobInv, JobInv', RunInv, RowsInv, RowsInv', CountersMatch, OpenInv,
         [Next]_vars
  PROVE  OpenInv'
<1> USE TrackingAssumption
<1> DEFINE Told == \A h \in Hits : pc[h] = "telling" /\ hits[h].kind = "open"
                                     => openCount[hits[h].message] > 0
           Quiet(m) == openCount[m] = 0 => told[m] = 0
           Sum(m) == told[m] + Cardinality(InferredOf(m)) + Cardinality(Pending(m)) <= Concurrency
<1>0. Told /\ \A m \in Messages : Quiet(m) /\ Sum(m)
  BY DEF OpenInv
<1>1. ASSUME NEW h \in Hits, NEW data \in Hit, Queued(h, data) PROVE OpenInv'
  <2>1. UNCHANGED <<pc, seen, bot, events, openCount, told>>
    BY <1>1 DEF Queued, worker, database
  <2>2. pc[h] = "idle"
    BY <1>1 DEF Queued, Enqueue, JobInv
  <2>3. \A g \in Busy : hits'[g] = hits[g] /\ g # h
    <3>1. \A g \in Busy : g \in DOMAIN hits /\ g # h
      BY <2>2 DEF Busy, JobInv
    <3> QED  BY <1>1, <3>1 DEF Queued, Enqueue
  <2>4. \A m : InferredOf(m)' = InferredOf(m) /\ Pending(m)' = Pending(m)
    BY <2>1, <2>3 DEF InferredOf, Human, Pending, Busy
  <2>5. Told'
    BY <1>0, <2>1, <2>3 DEF Busy
  <2> QED  BY <1>0, <2>1, <2>4, <2>5 DEF OpenInv
<1>2. ASSUME NEW h \in Hits,
             \/ Promote(h) \/ Pick(h) \/ StalledCheck(h) \/ Complete(h) \/ FailAttempt(h)
             \/ Judge(h) \/ HandlerFault(h)
      PROVE  OpenInv'
  <2>1. UNCHANGED <<hits, events, openCount, told>>
    BY <1>2 DEF Promote, Pick, StalledCheck, Complete, FailAttempt, Leave, Judge, HandlerFault,
       queue, database
  <2>2. \A g \in Hits : g # h => pc'[g] = pc[g] /\ seen'[g] = seen[g]
    BY <1>2 DEF Promote, Pick, StalledCheck, Complete, FailAttempt, Leave, Judge, HandlerFault,
       Goto, worker, TypeOK
  <2>3. /\ pc'[h] = "telling" => FALSE
        /\ pc'[h] = "judging" => FALSE
        /\ pc'[h] = "committing" => pc[h] = "judging" /\ seen'[h] = seen[h]
    <3>1. CASE Promote(h) \/ StalledCheck(h)
      <4>1. job[h] = "delayed" \/ pc[h] = "idle"
        BY <3>1 DEF Promote, StalledCheck
      <4>2. pc[h] = "idle"
        BY <4>1 DEF JobInv
      <4> QED  BY <3>1, <4>2 DEF Promote, StalledCheck, worker
    <3>2. CASE Pick(h) \/ Complete(h) \/ FailAttempt(h) \/ Judge(h) \/ HandlerFault(h)
      BY <3>2 DEF Pick, Complete, FailAttempt, Leave, Judge, HandlerFault, Goto, TypeOK
    <3> QED  BY <1>2, <3>1, <3>2
  <2>4. ASSUME NEW m \in Messages PROVE Sum(m)'
    <3>1. InferredOf(m)' = InferredOf(m) /\ Pending(m)' \subseteq Pending(m)
      BY <2>1, <2>2, <2>3 DEF InferredOf, Human, Pending, Busy
    <3> QED  BY <2>1, <3>1, OpenShrinks
  <2>5. Told'
    BY <1>0, <2>1, <2>2, <2>3
  <2> QED  BY <1>0, <2>1, <2>4, <2>5 DEF OpenInv
<1>3. ASSUME NEW h \in Hits, Load(h) PROVE OpenInv'
  <2>1. UNCHANGED <<hits, events, openCount, told>> /\ pc[h] = "loading"
    BY <1>3 DEF Load, queue, database
  <2>2. \A g \in Hits : g # h => pc'[g] = pc[g] /\ seen'[g] = seen[g]
    BY <1>3 DEF Load, Goto, TypeOK
  <2>3. /\ pc'[h] \in {"returning", "committing", "judging"}
        /\ pc'[h] # "returning" =>
             hits[h].message \in Messages /\ seen'[h] = openCount[hits[h].message]
    <3>1. hits[h].message \in Messages \cup {Unknown}
      BY <2>1, HitOf DEF JobInv
    <3> QED  BY <1>3, <3>1 DEF Load, Goto, TypeOK
  <2>4. ASSUME NEW m \in Messages PROVE Sum(m)'
    <3>1. InferredOf(m)' = InferredOf(m)
      BY <2>1 DEF InferredOf, Human
    <3>2. CASE openCount[m] = 0
      <4>1. told'[m] = 0 /\ Cardinality(InferredOf(m)') = 0
        BY <1>0, <2>1, <3>1, <3>2, NoneInferred, FS_EmptySet
      <4>2. Pending(m)' \subseteq Busy' /\ IsFiniteSet(Busy')
        <5>1. Busy' \subseteq Hits
          BY DEF Busy
        <5> QED  BY <5>1, BusyFinite, Smaller DEF Pending
      <4>3. Cardinality(Pending(m)') <= Cardinality(Busy') /\ Cardinality(Pending(m)') \in Nat
            /\ Cardinality(Busy') \in Nat
        BY <4>2, Smaller
      <4>4. Cardinality(Busy') <= Concurrency
        BY DEF TypeOK
      <4> QED  BY <4>1, <4>3, <4>4
    <3>3. CASE openCount[m] # 0
      <4>1. Pending(m)' \subseteq Pending(m)
        BY <2>1, <2>2, <2>3, <3>3 DEF Pending, Busy
      <4> QED  BY <2>1, <3>1, <4>1, OpenShrinks
    <3> QED  BY <3>2, <3>3
  <2>5. Told'
    BY <1>0, <2>1, <2>2, <2>3
  <2> QED  BY <1>0, <2>1, <2>4, <2>5 DEF OpenInv
<1>4. ASSUME NEW h \in Hits, Commit(h) PROVE OpenInv'
  <2>1. UNCHANGED <<hits, seen, bot, told>> /\ pc[h] = "committing" /\ h \in Busy
    BY <1>4 DEF Commit, queue, Busy
  <2>2. /\ \A g \in Hits : g # h => pc'[g] = pc[g]
        /\ pc'[h] = (IF bot[h] THEN "returning" ELSE "telling") \/ pc'[h] = "throwing"
    BY <1>4 DEF Commit, Goto, TypeOK
  <2>3. /\ hits[h].message \in Messages /\ hits[h].kind \in {"open", "click"}
        /\ Inferred(h) <=> "open_inferred" \in Types(h)
        /\ Inferred(h) => hits[h].kind = "click" /\ ~bot[h] /\ seen[h] = 0
        /\ bot[h] \in BOOLEAN
        /\ Opens(h) = IF ~bot[h] /\ (hits[h].kind = "open" \/ Inferred(h)) THEN 1 ELSE 0
    BY <2>1, Inserts DEF JobInv
  <2>4. \A m \in Messages : /\ openCount[m] \in Nat /\ openCount'[m] >= openCount[m]
                            /\ m = hits[h].message => openCount'[m] = openCount[m] + Opens(h)
    BY <1>4, <2>3 DEF Commit, RecordOpen, TypeOK
  <2>5. Told'
    <3> SUFFICES ASSUME NEW g \in Hits, pc'[g] = "telling", hits'[g].kind = "open"
                 PROVE  openCount'[hits'[g].message] > 0
      OBVIOUS
    <3>1. hits'[g] = hits[g] /\ hits[g].message \in Messages
      BY <2>1 DEF JobInv
    <3>2. CASE g = h
      <4>1. bot[h] = FALSE /\ Opens(h) = 1
        BY <2>1, <2>2, <2>3, <3>2
      <4>2. openCount'[hits[h].message] = openCount[hits[h].message] + 1
            /\ openCount[hits[h].message] \in Nat
        BY <2>3, <2>4, <4>1
      <4> QED  BY <3>1, <3>2, <4>2
    <3>3. CASE g # h
      <4>1. openCount[hits[g].message] > 0
        BY <1>0, <2>1, <2>2, <3>3
      <4>2. openCount'[hits[g].message] >= openCount[hits[g].message]
            /\ openCount[hits[g].message] \in Nat /\ openCount'[hits[g].message] \in Nat
        BY <2>4, <3>1 DEF TypeOK
      <4> QED  BY <3>1, <4>1, <4>2
    <3> QED  BY <3>2, <3>3
  <2>6. ASSUME NEW m \in Messages PROVE Sum(m)'
    <3>1. /\ IF m = hits[h].message /\ Inferred(h)
               THEN InferredOf(m)' = InferredOf(m) \cup {Row(h, "open_inferred")}
                    /\ Cardinality(InferredOf(m)') = Cardinality(InferredOf(m)) + 1
               ELSE InferredOf(m)' = InferredOf(m)
      BY <1>4, <2>3, AddedHuman DEF InferredOf
    <3>2. Pending(m)' \subseteq Pending(m)
      BY <2>1, <2>2 DEF Pending, Busy
    <3>3. CASE m = hits[h].message /\ Inferred(h)
      <4>1. h \in Pending(m) /\ h \notin Pending(m)'
        BY <2>1, <2>2, <2>3, <3>3 DEF Pending, Busy
      <4>2. Pending(m)' \subseteq Pending(m) \ {h}
        BY <3>2, <4>1
      <4>3. IsFiniteSet(Pending(m) \ {h}) /\ Cardinality(Pending(m) \ {h}) = Cardinality(Pending(m)) - 1
        BY <4>1, OpenFinite, TakeOut
      <4>4. Cardinality(Pending(m)') <= Cardinality(Pending(m)) - 1 /\ Cardinality(Pending(m)') \in Nat
        BY <4>2, <4>3, Smaller
      <4>5. told[m] \in Nat /\ Cardinality(InferredOf(m)) \in Nat /\ Cardinality(Pending(m)) \in Nat
        BY OpenFinite DEF TypeOK
      <4> QED  BY <1>0, <2>1, <3>1, <3>3, <4>4, <4>5
    <3>4. CASE ~(m = hits[h].message /\ Inferred(h))
      BY <2>1, <3>1, <3>2, <3>4, OpenShrinks
    <3> QED  BY <3>3, <3>4
  <2>7. ASSUME NEW m \in Messages PROVE Quiet(m)'
    BY <1>0, <2>1, <2>4
  <2> QED  BY <2>5, <2>6, <2>7 DEF OpenInv
<1>5. ASSUME NEW h \in Hits, Tell(h) PROVE OpenInv'
  <2>1. UNCHANGED <<hits, seen, events, openCount>> /\ pc[h] = "telling" /\ h \in Busy
        /\ hits[h].message \in Messages
    BY <1>5 DEF Tell, queue, Busy, JobInv
  <2>2. (\A g \in Hits : g # h => pc'[g] = pc[g]) /\ pc'[h] = "returning"
    BY <1>5 DEF Tell, Goto, TypeOK
  <2>3. \A m \in Messages : told'[m] = IF m = hits[h].message /\ FirstOpen(h)
                                         THEN told[m] + 1 ELSE told[m]
    BY <1>5, <2>1 DEF Tell, TypeOK
  <2>4. ASSUME NEW m \in Messages PROVE Sum(m)'
    <3>1. InferredOf(m)' = InferredOf(m) /\ Pending(m)' \subseteq Pending(m)
      BY <2>1, <2>2 DEF InferredOf, Human, Pending, Busy
    <3>2. CASE m = hits[h].message /\ FirstOpen(h)
      <4>1. h \in Pending(m) /\ h \notin Pending(m)'
        BY <2>1, <2>2, <3>2 DEF Pending, Busy, FirstOpen
      <4>2. Pending(m)' \subseteq Pending(m) \ {h}
        BY <3>1, <4>1
      <4>3. IsFiniteSet(Pending(m) \ {h}) /\ Cardinality(Pending(m) \ {h}) = Cardinality(Pending(m)) - 1
        BY <4>1, OpenFinite, TakeOut
      <4>4. Cardinality(Pending(m)') <= Cardinality(Pending(m)) - 1 /\ Cardinality(Pending(m)') \in Nat
        BY <4>2, <4>3, Smaller
      <4>5. told[m] \in Nat /\ Cardinality(InferredOf(m)) \in Nat /\ Cardinality(Pending(m)) \in Nat
        BY OpenFinite DEF TypeOK
      <4> QED  BY <1>0, <2>3, <3>1, <3>2, <4>4, <4>5
    <3>3. CASE ~(m = hits[h].message /\ FirstOpen(h))
      BY <2>3, <3>1, <3>3, OpenShrinks
    <3> QED  BY <3>2, <3>3
  <2>5. Told'
    BY <1>0, <2>1, <2>2
  <2>6. ASSUME NEW m \in Messages PROVE Quiet(m)'
    <3>1. m = hits[h].message /\ FirstOpen(h) => openCount[m] > 0
      BY <1>0, <2>1 DEF FirstOpen
    <3>2. openCount[m] \in Nat
      BY DEF TypeOK
    <3> QED  BY <1>0, <2>1, <2>3, <3>1, <3>2
  <2> QED  BY <2>4, <2>5, <2>6 DEF OpenInv
<1>6. ASSUME Crash PROVE OpenInv'
  <2>1. UNCHANGED <<hits, events, openCount, told>> /\ pc' = [h \in Hits |-> "idle"]
    BY <1>6 DEF Crash, queue, database
  <2>2. ASSUME NEW m \in Messages PROVE Sum(m)'
    <3>1. InferredOf(m)' = InferredOf(m) /\ Pending(m)' \subseteq Pending(m)
      BY <2>1 DEF InferredOf, Human, Pending, Busy
    <3> QED  BY <2>1, <3>1, OpenShrinks
  <2> QED  BY <1>0, <2>1, <2>2 DEF OpenInv
<1>7. ASSUME \/ \E n \in notes : HandleNotification(n)
             \/ ConnectionError \/ Reconnect \/ ApiRestart \/ UNCHANGED vars
      PROVE  OpenInv'
  <2>1. UNCHANGED <<hits, pc, seen, events, openCount, told>>
    BY <1>7 DEF HandleNotification, ConnectionError, Reconnect, ApiRestart, queue, worker,
       database, vars
  <2>2. \A m : InferredOf(m)' = InferredOf(m) /\ Pending(m)' = Pending(m)
    BY <2>1 DEF InferredOf, Human, Pending, Busy
  <2> QED  BY <2>1, <2>2 DEF OpenInv
<1> QED  BY <1>1, <1>2, <1>3, <1>4, <1>5, <1>6, <1>7, Steps

-----------------------------------------------------------------------------
(* The stream.                                                             *)

LEMMA ToastShrinks ==
  ASSUME TypeOK, TypeOK', ToastInv, notes' \subseteq notes,
         \A m \in Messages : toasts'[m] = toasts[m], \A m \in Messages : openCount'[m] = openCount[m]
  PROVE  ToastInv'
<1>1. IsFiniteSet(notes')
  BY Smaller DEF ToastInv
<1>2. ASSUME NEW m \in Messages
      PROVE  (toasts[m] + Cardinality(NotesOf(m)) <= openCount[m])'
  <2>1. NotesOf(m)' \subseteq NotesOf(m) /\ NotesOf(m) \subseteq notes
    BY DEF NotesOf
  <2>2. IsFiniteSet(NotesOf(m))
    BY <2>1, Smaller DEF ToastInv
  <2>3. Cardinality(NotesOf(m)') <= Cardinality(NotesOf(m))
        /\ Cardinality(NotesOf(m)') \in Nat /\ Cardinality(NotesOf(m)) \in Nat
    BY <2>1, <2>2, Smaller
  <2>4. toasts[m] \in Nat /\ openCount[m] \in Nat /\ toasts[m] + Cardinality(NotesOf(m)) <= openCount[m]
    BY DEF TypeOK, ToastInv
  <2> QED  BY <2>3, <2>4
<1>3. OneToast'
  BY DEF ToastInv, OneToast
<1> QED  BY <1>1, <1>2, <1>3 DEF ToastInv

LEMMA ToastStep ==
  ASSUME TypeOK, TypeOK', JobInv, ToastInv, [Next]_vars PROVE ToastInv'
<1>0. \A m \in Messages : /\ IsFiniteSet(NotesOf(m)) /\ Cardinality(NotesOf(m)) \in Nat
                          /\ toasts[m] \in Nat /\ openCount[m] \in Nat
                          /\ toasts[m] + Cardinality(NotesOf(m)) <= openCount[m]
                          /\ toasts[m] <= 1
  <2>1. \A m \in Messages : NotesOf(m) \subseteq notes
    BY DEF NotesOf
  <2> QED  BY <2>1, Smaller DEF ToastInv, OneToast, TypeOK
<1>1. ASSUME NEW h \in Hits, Commit(h) PROVE ToastInv'
  <2>1. hits[h].message \in Messages /\ UNCHANGED toasts
    BY <1>1 DEF Commit, JobInv
  <2>2. \A m \in Messages : openCount'[m] = IF m = hits[h].message THEN openCount[m] + Opens(h)
                                                                   ELSE openCount[m]
    BY <1>1, <2>1 DEF Commit, RecordOpen, TypeOK
  <2> DEFINE n == [hit |-> h, run |-> made[h] + stalls[h], message |-> hits[h].message]
  <2>3. notes' = notes \/ (notes' = notes \cup {n} /\ Opens(h) = 1)
    BY <1>1 DEF Commit, Published
  <2>4. IsFiniteSet(notes')
    BY <2>3, AddAny DEF ToastInv
  <2>5. ASSUME NEW m \in Messages PROVE (toasts[m] + Cardinality(NotesOf(m)) <= openCount[m])'
    <3>1. NotesOf(m)' = NotesOf(m) \/ (/\ NotesOf(m)' = NotesOf(m) \cup {n}
                                       /\ m = hits[h].message /\ Opens(h) = 1)
      BY <2>3 DEF NotesOf
    <3>2. Opens(h) \in Nat
      BY DEF Opens
    <3>3. Cardinality(NotesOf(m) \cup {n}) <= Cardinality(NotesOf(m)) + 1
          /\ Cardinality(NotesOf(m) \cup {n}) \in Nat
      BY <1>0, AddAny
    <3>4. Cardinality(NotesOf(m)') \in Nat
          /\ \/ Cardinality(NotesOf(m)') = Cardinality(NotesOf(m))
             \/ /\ Cardinality(NotesOf(m)') <= Cardinality(NotesOf(m)) + 1
                /\ m = hits[h].message /\ Opens(h) = 1
      BY <1>0, <3>1, <3>3
    <3>5. toasts'[m] = toasts[m] /\ openCount'[m] >= openCount[m] /\ openCount'[m] \in Nat
          /\ (m = hits[h].message /\ Opens(h) = 1 => openCount'[m] = openCount[m] + 1)
      BY <1>0, <2>1, <2>2, <3>2
    <3> QED  BY <1>0, <3>4, <3>5
  <2>6. OneToast'
    BY <1>0, <2>1 DEF OneToast
  <2> QED  BY <2>4, <2>5, <2>6 DEF ToastInv
<1>2. ASSUME NEW n \in notes, HandleNotification(n) PROVE ToastInv'
  <2>1. n.message \in Messages /\ UNCHANGED openCount /\ notes' = notes \ {n}
    BY <1>2 DEF HandleNotification, TypeOK, Note, database
  <2>2. \A m \in Messages : toasts'[m] = IF m = n.message /\ openCount[m] = 1
                                           THEN toasts[m] + 1 ELSE toasts[m]
    BY <1>2, <2>1 DEF HandleNotification, IsFirstOpen, TypeOK
  <2>3. IsFiniteSet(notes')
    BY <2>1, Smaller DEF ToastInv
  <2>4. ASSUME NEW m \in Messages
        PROVE  (toasts[m] + Cardinality(NotesOf(m)) <= openCount[m] /\ toasts[m] <= 1)'
    <3>1. NotesOf(m)' = IF m = n.message THEN NotesOf(m) \ {n} ELSE NotesOf(m)
      BY <2>1 DEF NotesOf
    <3>2. CASE m # n.message
      BY <1>0, <2>1, <2>2, <3>1, <3>2
    <3>3. CASE m = n.message
      <4>1. n \in NotesOf(m)
        BY <3>3 DEF NotesOf
      <4>2. Cardinality(NotesOf(m)') = Cardinality(NotesOf(m)) - 1
            /\ Cardinality(NotesOf(m)') \in Nat
        BY <1>0, <3>1, <3>3, <4>1, TakeOut
      <4>3. openCount[m] = 1 => toasts[m] = 0
        BY <1>0, <4>2
      <4> QED  BY <1>0, <2>1, <2>2, <3>3, <4>2, <4>3
    <3> QED  BY <3>2, <3>3
  <2> QED  BY <2>3, <2>4 DEF ToastInv, OneToast
<1>3. ASSUME ~(\E h \in Hits : Commit(h)), ~(\E n \in notes : HandleNotification(n))
      PROVE  ToastInv'
  <2>1. notes' \subseteq notes /\ UNCHANGED toasts
    BY <1>3, Steps DEF Queued, Promote, Pick, StalledCheck, Complete, FailAttempt, Leave, Load,
       Judge, Tell, HandlerFault, ConnectionError, Reconnect, ApiRestart, Crash, vars, realtime
  <2>2. UNCHANGED openCount
    BY <1>3, CountersStay
  <2> QED  BY <2>1, <2>2, ToastShrinks
<1> QED  BY <1>1, <1>2, <1>3

-----------------------------------------------------------------------------
LEMMA InitInv == Init => Inv
<1> USE TrackingAssumption
<1> SUFFICES ASSUME Init PROVE Inv
  OBVIOUS
<1>1. TypeOK
  BY TypeInit
<1>2. JobInv /\ RunInv
  BY DEF Init, JobInv, RunInv
<1>3. RowsInv /\ IsFiniteSet(notes)
  BY FS_EmptySet DEF Init, RowsInv
<1>4. /\ \A m, T : Human(m, T) = {}
      /\ \A l : {e \in events : e.link = l /\ ~e.bot} = {}
      /\ \A m : NotesOf(m) = {} /\ Pending(m) = {}
  BY DEF Init, Human, NotesOf, Pending, Busy
<1>5. CountersMatch
  <2>1. Cardinality({}) = 0
    BY FS_EmptySet
  <2>2. \A m \in Messages : openCount[m] = 0 /\ clickCount[m] = 0
    BY DEF Init
  <2>3. \A l \in Links : linkClicks[l] = 0
    BY DEF Init
  <2> QED  BY <1>4, <2>1, <2>2, <2>3 DEF CountersMatch
<1>6. OpenInv
  <2>1. Cardinality({}) = 0
    BY FS_EmptySet
  <2>2. (\A m \in Messages : told[m] = 0) /\ \A h \in Hits : pc[h] = "idle"
    BY DEF Init
  <2>3. \A m \in Messages : told[m] + Cardinality(InferredOf(m)) + Cardinality(Pending(m)) <= Concurrency
    BY <1>4, <2>1, <2>2 DEF InferredOf
  <2> QED  BY <2>2, <2>3 DEF OpenInv
<1>7. ToastInv
  <2>1. Cardinality({}) = 0
    BY FS_EmptySet
  <2>2. \A m \in Messages : toasts[m] = 0 /\ openCount[m] = 0
    BY DEF Init
  <2> QED  BY <1>3, <1>4, <2>1, <2>2 DEF ToastInv, OneToast
<1> QED  BY <1>1, <1>2, <1>3, <1>5, <1>6, <1>7 DEF Inv

LEMMA InvHolds == Spec => []Inv
<1>1. Inv /\ [Next]_vars => Inv'
  <2> SUFFICES ASSUME Inv, [Next]_vars PROVE Inv'
    OBVIOUS
  <2>1. TypeOK' /\ JobInv'
    BY TypeStep, JobStep DEF Inv
  <2>2. RunInv' /\ RowsInv'
    BY <2>1, RunStep, RowsStep DEF Inv
  <2>3. CountersMatch'
    BY CountersStep DEF Inv
  <2>4. OpenInv'
    BY <2>1, <2>2, OpenStep DEF Inv
  <2>5. ToastInv'
    BY <2>1, ToastStep DEF Inv
  <2> QED  BY <2>1, <2>2, <2>3, <2>4, <2>5 DEF Inv
<1> QED  BY InitInv, <1>1, PTL DEF Spec

(***************************************************************************)
(* Jobs, handlers, rows and counters keep their types: above all, no job   *)
(* is tried more often than the queue allows, and no more jobs run at a    *)
(* time than the worker has slots.                                         *)
(***************************************************************************)
THEOREM TypeCorrect == Spec => []TypeOK
<1>1. Inv => TypeOK
  BY DEF Inv
<1> QED  BY InvHolds, <1>1, PTL

(***************************************************************************)
(* The counters of messages and links are those of the log, whatever jobs  *)
(* run at the same time, are repeated or lose the answer to their commit.  *)
(***************************************************************************)
THEOREM CountersAgree == Spec => []CountersMatch
<1>1. Inv => CountersMatch
  BY DEF Inv
<1> QED  BY InvHolds, <1>1, PTL

(***************************************************************************)
(* A completed hit is in the log, and none is there more often than its    *)
(* job ran.                                                                *)
(***************************************************************************)
THEOREM HitsAreRecorded == Spec => []HitsRecorded
<1>1. Inv => HitsRecorded
  <2> SUFFICES ASSUME Inv, NEW h \in DOMAIN hits
               PROVE  /\ Cardinality(RowsOf(h)) <= 1 + made[h] + stalls[h]
                      /\ job[h] = "completed" /\ hits[h].message # Unknown => RowsOf(h) # {}
    BY DEF HitsRecorded
  <2>1. h \in Hits /\ RowsOf(h) \subseteq events
    BY HitsType DEF Inv, TypeOK, RowsOf
  <2>2. Cardinality(RowsOf(h)) \in Nat
    BY <2>1, Smaller DEF Inv, RowsInv
  <2>3. made[h] \in Nat /\ stalls[h] \in Nat
    BY <2>1, Counts DEF Inv
  <2>4. Cardinality(RowsOf(h)) <= made[h] + stalls[h] + (IF Ahead(h) THEN 0 ELSE 1)
    BY DEF Inv, RowsInv
  <2>5. Cardinality(RowsOf(h)) <= 1 + made[h] + stalls[h]
    BY <2>2, <2>3, <2>4
  <2> QED  BY <2>5 DEF Inv, RowsInv
<1> QED  BY InvHolds, <1>1, PTL

(***************************************************************************)
(* However many hits of a message come, its first open is told of, and     *)
(* opens are inferred, no more often than the worker has slots.            *)
(***************************************************************************)
THEOREM FirstOpensAreBound == Spec => []FirstOpensBound
<1>1. Inv => FirstOpensBound
  <2> SUFFICES ASSUME Inv, NEW m \in Messages
               PROVE  told[m] + Cardinality(Human(m, {"open_inferred"})) <= Concurrency
    BY DEF FirstOpensBound
  <2>1. told[m] + Cardinality(InferredOf(m)) + Cardinality(Pending(m)) <= Concurrency
    BY DEF Inv, OpenInv
  <2>2. told[m] \in Nat /\ Cardinality(InferredOf(m)) \in Nat /\ Cardinality(Pending(m)) \in Nat
    BY OpenFinite DEF Inv, TypeOK
  <2> QED  BY <2>1, <2>2, TrackingAssumption DEF InferredOf
<1> QED  BY InvHolds, <1>1, PTL

(***************************************************************************)
(* A message is toasted at most once: every event on its way to the stream *)
(* has an open of its own in the counter its handler reads.                *)
(***************************************************************************)
THEOREM OneToastEach == Spec => []OneToast
<1>1. Inv => OneToast
  BY DEF Inv, ToastInv
<1> QED  BY InvHolds, <1>1, PTL
=============================================================================
