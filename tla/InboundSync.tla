----------------------------- MODULE InboundSync -----------------------------
(***************************************************************************)
(* The inbound worker: passes over the sender accounts' mailboxes with a   *)
(* stored UID cursor, the idempotent intake of each mail, the bounces and  *)
(* replies it records, and the suppression policy (inbound-sync.service.   *)
(* ts, inbound.repository.ts, suppressions.repository.ts).                 *)
(*                                                                         *)
(* The queue runs one pass at a time.  What processMessage does to the     *)
(* database is one transaction, so one step; its notifications and the     *)
(* cursor come after it, each in a step of its own.                        *)
(***************************************************************************)
EXTENDS Naturals, Sequences, FiniteSets

CONSTANTS
  Accounts,    \* active sender accounts
  Messages,    \* e-mails sent to one recipient address
  Kinds,       \* kinds of mail that arrive
  Threshold,   \* SOFT_BOUNCE_SUPPRESSION_THRESHOLD
  MaxUid,      \* bound: mails per mailbox
  MaxCrashes,  \* bound: crashes of the worker process
  MaxLosses,   \* bound: unanswered commits and failing notifications
  Faults       \* whether IMAP and PostgreSQL calls may fail

ASSUME InboundAssumption ==
  /\ Kinds \subseteq {"hard", "soft", "reply", "other", "bare", "poison"}
  /\ Threshold \in Nat \ {0}
  /\ MaxUid \in Nat
  /\ MaxCrashes \in Nat
  /\ MaxLosses \in Nat
  /\ Faults \in BOOLEAN
  /\ IsFiniteSet(Messages)

VARIABLES
  inbox,        \* the mails of each mailbox, in UID order
  cursor,       \* sender_accounts.imap_last_uid
  intake,       \* UIDs in inbound_messages
  bounce,       \* bounces.bounce_class, by message
  bounceType,   \* email_messages.bounce_type, set when status is bounced
  replied,      \* email_messages.replied_at is set
  suppression,  \* the suppressions row of the address
  pass,         \* the pass in progress
  crashes,      \* worker crashes so far
  losses,       \* unanswered commits and failing notifications so far
  told,         \* history: mails whose notifications went out in full
  events,       \* history: reply events inserted, by message
  hardSeen,     \* history: a hard bounce was recorded
  softSeen      \* history: soft bounces recorded

records == <<bounce, bounceType, replied, suppression>>
history == <<told, events, hardSeen, softSeen>>
vars    == <<inbox, cursor, intake, records, pass, crashes, losses, history>>

Mail == [kind: Kinds, about: Messages]
Uids == 1..MaxUid
PassPc == {"idle", "choosing", "opening", "fetching", "telling", "moving"}
InMailbox == {"opening", "fetching", "telling", "moving"}
PassState == [pc: PassPc, todo: SUBSET Accounts, seen: [Accounts -> 0..MaxUid],
              account: Accounts \cup {"none"}, uid: 0..(MaxUid + 1),
              last: 0..MaxUid]
Idle == [pc |-> "idle", todo |-> {}, seen |-> [a \in Accounts |-> 0],
         account |-> "none", uid |-> 0, last |-> 0]

(***************************************************************************)
(* The one type invariant.                                                 *)
(***************************************************************************)
TypeOK ==
  /\ inbox \in [Accounts -> Seq(Mail)]
  /\ cursor \in [Accounts -> 0..MaxUid]
  /\ intake \in [Accounts -> SUBSET Uids]
  /\ bounce \in [Messages -> {"none", "soft", "hard"}]
  /\ bounceType \in [Messages -> {"none", "soft", "hard"}]
  /\ replied \in [Messages -> BOOLEAN]
  /\ suppression \in {"none", "active", "released"}
  /\ pass \in PassState
  /\ pass.pc \in InMailbox => pass.account \in Accounts
  /\ crashes \in 0..MaxCrashes
  /\ losses \in 0..MaxLosses
  /\ told \in [Accounts -> SUBSET Uids]
  /\ events \in [Messages -> Nat]
  /\ hardSeen \in BOOLEAN
  /\ softSeen \in Nat

Init ==
  /\ inbox = [a \in Accounts |-> <<>>]
  /\ cursor = [a \in Accounts |-> 0]
  /\ intake = [a \in Accounts |-> {}]
  /\ bounce = [m \in Messages |-> "none"]
  /\ bounceType = [m \in Messages |-> "none"]
  /\ replied = [m \in Messages |-> FALSE]
  /\ suppression = "none"
  /\ pass = Idle
  /\ crashes = 0
  /\ losses = 0
  /\ told = [a \in Accounts |-> {}]
  /\ events = [m \in Messages |-> 0]
  /\ hardSeen = FALSE
  /\ softSeen = 0

-----------------------------------------------------------------------------
Arrive(a) ==
  /\ Len(inbox[a]) < MaxUid
  /\ \E mail \in Mail : inbox' = [inbox EXCEPT ![a] = Append(@, mail)]
  /\ UNCHANGED <<cursor, intake, records, pass, crashes, losses, history>>

-----------------------------------------------------------------------------
(* syncAllAccounts.  listActive reads every account row, cursors included. *)

StartPass ==
  /\ pass.pc = "idle"
  /\ pass' = [pass EXCEPT !.pc = "choosing", !.todo = Accounts, !.seen = cursor]
  /\ UNCHANGED <<inbox, cursor, intake, records, crashes, losses, history>>

NextAccount(a) ==
  /\ pass.pc = "choosing"
  /\ a \in pass.todo
  /\ pass' = [pass EXCEPT !.pc = "opening", !.todo = @ \ {a}, !.account = a]
  /\ UNCHANGED <<inbox, cursor, intake, records, crashes, losses, history>>

EndPass ==
  /\ pass.pc = "choosing"
  /\ pass.todo = {}
  /\ pass' = Idle
  /\ UNCHANGED <<inbox, cursor, intake, records, crashes, losses, history>>

(* Mutant: an account that fails ends the pass.                            *)
SkipAccountEndsPass == pass' = Idle

(* An error in one account is logged, and the pass goes on.                *)
SkipAccount == pass' = [pass EXCEPT !.pc = "choosing"]

-----------------------------------------------------------------------------
(* syncAccount and syncMailbox: the mails above the cursor the pass read,  *)
(* in UID order.                                                           *)

(* Mutant: the search does not start after the cursor.                     *)
OpenFromStart ==
  /\ pass.pc = "opening"
  /\ LET a == pass.account IN
       IF Len(inbox[a]) <= pass.seen[a]
         THEN pass' = [pass EXCEPT !.pc = "choosing"]
         ELSE pass' = [pass EXCEPT !.pc = "fetching", !.uid = 1,
                                   !.last = Len(inbox[a])]
  /\ UNCHANGED <<inbox, cursor, intake, records, crashes, losses, history>>

OpenMailbox ==
  /\ pass.pc = "opening"
  /\ LET a == pass.account IN
       IF Len(inbox[a]) <= pass.seen[a]
         THEN pass' = [pass EXCEPT !.pc = "choosing"]
         ELSE pass' = [pass EXCEPT !.pc = "fetching",
                                   !.uid = pass.seen[a] + 1,
                                   !.last = Len(inbox[a])]
  /\ UNCHANGED <<inbox, cursor, intake, records, crashes, losses, history>>

CurrentMail == inbox[pass.account][pass.uid]

(* applySuppressionPolicy, after the bounce row was written.               *)
SuppressionAfter(class, rows) ==
  IF class = "hard" \/ Cardinality({m \in Messages : rows[m] = "soft"}) >= Threshold
    THEN "active" ELSE suppression

(* Mutants: the policy runs on the rows before the upsert, or only for the *)
(* first bounce of a message.                                              *)
RecordBounceEarly(m, class) ==
  /\ bounce' = [bounce EXCEPT ![m] = class]
  /\ bounceType' = [bounceType EXCEPT ![m] = IF @ = "none" THEN class ELSE @]
  /\ suppression' = SuppressionAfter(class, bounce)

RecordBounceFirst(m, class) ==
  /\ bounce' = [bounce EXCEPT ![m] = class]
  /\ bounceType' = [bounceType EXCEPT ![m] = IF @ = "none" THEN class ELSE @]
  /\ suppression' =
       IF bounceType[m] = "none" THEN SuppressionAfter(class, bounce')
                                 ELSE suppression

(* The status and type are written for the first bounce only, the bounce   *)
(* row for each.                                                           *)
RecordBounce(m, class) ==
  /\ bounce' = [bounce EXCEPT ![m] = class]
  /\ bounceType' = [bounceType EXCEPT ![m] = IF @ = "none" THEN class ELSE @]
  /\ suppression' = SuppressionAfter(class, bounce')

(* Only the first reply of a thread is an event.                           *)
RecordReply(m) ==
  /\ events' = [events EXCEPT ![m] = IF replied[m] THEN @ ELSE @ + 1]
  /\ replied' = [replied EXCEPT ![m] = TRUE]

(* What the transaction does for a mail that is new.                       *)
Apply(mail) ==
  \/ /\ mail.kind \in {"hard", "soft"}
     /\ RecordBounce(mail.about, mail.kind)
     /\ hardSeen' = (hardSeen \/ mail.kind = "hard")
     /\ softSeen' = softSeen + IF mail.kind = "soft" THEN 1 ELSE 0
     /\ UNCHANGED <<replied, events>>
  \/ /\ mail.kind = "reply"
     /\ RecordReply(mail.about)
     /\ UNCHANGED <<bounce, bounceType, suppression, hardSeen, softSeen>>
  \/ /\ mail.kind = "other"
     /\ UNCHANGED <<records, events, hardSeen, softSeen>>

(* Mutant: no unique index on account and UID.                             *)
IsNewAlways == TRUE

IsNew == pass.uid \notin intake[pass.account]

(* The mail the pass is at, when the transaction gets to its end.          *)
AtMail ==
  /\ pass.pc = "fetching"
  /\ pass.uid <= pass.last
  /\ CurrentMail.kind \notin {"bare", "poison"}

(* The transaction of a mail that is new.                                  *)
TakeIn ==
  /\ intake' = [intake EXCEPT ![pass.account] = @ \cup {pass.uid}]
  /\ Apply(CurrentMail)

ProcessMessage ==
  /\ AtMail
  /\ IF IsNew
       THEN /\ TakeIn
            /\ pass' = [pass EXCEPT !.pc = "telling"]
       ELSE /\ pass' = [pass EXCEPT !.pc = "moving"]
            /\ UNCHANGED <<intake, records, events, hardSeen, softSeen>>
  /\ UNCHANGED <<inbox, cursor, crashes, losses, told>>

Loss == Faults /\ losses < MaxLosses /\ losses' = losses + 1

(* The transaction took effect and its answer is lost: withTransaction     *)
(* throws, so the account's turn ends before the notifications.            *)
CommitUnanswered ==
  /\ Loss
  /\ AtMail
  /\ IsNew
  /\ TakeIn
  /\ SkipAccount
  /\ UNCHANGED <<inbox, cursor, crashes, told>>

(* A fetched mail without a source is passed over.                         *)
PassOver ==
  /\ pass.pc = "fetching"
  /\ pass.uid <= pass.last
  /\ CurrentMail.kind = "bare"
  /\ pass' = [pass EXCEPT !.pc = "moving"]
  /\ UNCHANGED <<inbox, cursor, intake, records, crashes, losses, history>>

(* A mail that cannot be processed at all ends the account's turn.         *)
FailMessage ==
  /\ pass.pc = "fetching"
  /\ pass.uid <= pass.last
  /\ CurrentMail.kind = "poison"
  /\ SkipAccount
  /\ UNCHANGED <<inbox, cursor, intake, records, crashes, losses, history>>

(* The notifications of a bounce or a reply, after the commit.             *)
Tell ==
  /\ pass.pc = "telling"
  /\ told' = [told EXCEPT ![pass.account] = @ \cup {pass.uid}]
  /\ pass' = [pass EXCEPT !.pc = "moving"]
  /\ UNCHANGED <<inbox, cursor, intake, records, crashes, losses, events,
                 hardSeen, softSeen>>

(* notify and dispatch log an error of the database or of Redis and go on. *)
TellFails ==
  /\ Loss
  /\ pass.pc = "telling"
  /\ pass' = [pass EXCEPT !.pc = "moving"]
  /\ UNCHANGED <<inbox, cursor, intake, records, crashes, history>>

(* Mutant: the cursor jumps to the end of the fetched range.               *)
AdvanceToLast ==
  /\ pass.pc = "moving"
  /\ cursor' = [cursor EXCEPT ![pass.account] = pass.last]
  /\ pass' = [pass EXCEPT !.pc = "fetching", !.uid = @ + 1]
  /\ UNCHANGED <<inbox, intake, records, crashes, losses, history>>

(* Mutant: the stored UID is the next one to fetch, not the last one seen. *)
AdvancePast ==
  /\ pass.pc = "moving"
  /\ cursor' = [cursor EXCEPT ![pass.account] = pass.uid + 1]
  /\ pass' = [pass EXCEPT !.pc = "fetching", !.uid = @ + 1]
  /\ UNCHANGED <<inbox, intake, records, crashes, losses, history>>

Advance ==
  /\ pass.pc = "moving"
  /\ cursor' = [cursor EXCEPT ![pass.account] = pass.uid]
  /\ pass' = [pass EXCEPT !.pc = "fetching", !.uid = @ + 1]
  /\ UNCHANGED <<inbox, intake, records, crashes, losses, history>>

EndMailbox ==
  /\ pass.pc = "fetching"
  /\ pass.uid > pass.last
  /\ pass' = [pass EXCEPT !.pc = "choosing"]
  /\ UNCHANGED <<inbox, cursor, intake, records, crashes, losses, history>>

(* Mutant: a failing notification ends the account's turn.                 *)
SyncFaultTelling ==
  /\ Faults
  /\ pass.pc \in {"opening", "fetching", "telling", "moving"}
  /\ SkipAccount
  /\ UNCHANGED <<inbox, cursor, intake, records, crashes, losses, history>>

(* A connection that fails, a transaction that is rolled back, or a cursor *)
(* that cannot be written.                                                 *)
SyncFault ==
  /\ Faults
  /\ pass.pc \in {"opening", "fetching", "moving"}
  /\ SkipAccount
  /\ UNCHANGED <<inbox, cursor, intake, records, crashes, losses, history>>

(* The worker process dies; the job scheduler starts the next pass.        *)
Crash ==
  /\ crashes < MaxCrashes
  /\ pass.pc # "idle"
  /\ pass' = Idle
  /\ crashes' = crashes + 1
  /\ UNCHANGED <<inbox, cursor, intake, records, losses, history>>

-----------------------------------------------------------------------------
(* An admin releases the address.                                          *)
Release ==
  /\ suppression = "active"
  /\ suppression' = "released"
  /\ UNCHANGED <<inbox, cursor, intake, bounce, bounceType, replied, pass,
                 crashes, losses, history>>

-----------------------------------------------------------------------------
SyncStep ==
  \/ StartPass \/ (\E a \in Accounts : NextAccount(a)) \/ EndPass
  \/ OpenMailbox \/ ProcessMessage \/ PassOver \/ FailMessage
  \/ Tell \/ Advance \/ EndMailbox

Next ==
  \/ \E a \in Accounts : Arrive(a)
  \/ SyncStep
  \/ SyncFault \/ CommitUnanswered \/ TellFails \/ Crash
  \/ Release

Spec == Init /\ [][Next]_vars

(***************************************************************************)
(* Fairness: the job scheduler starts passes and a pass that started goes  *)
(* on.  Mail need not arrive, and nobody has to release an address.        *)
(***************************************************************************)
FairSpec == Spec /\ WF_vars(SyncStep)

-----------------------------------------------------------------------------
(***************************************************************************)
(* The cursor never runs ahead of the intake, whatever crashes or fails in *)
(* between: a mail at or below it was taken in, unless it had no source.   *)
(* A bounce below the cursor would be lost for good.                       *)
(***************************************************************************)
NothingSkipped ==
  \A a \in Accounts : \A uid \in 1..cursor[a] :
    uid \in intake[a] \/ inbox[a][uid].kind = "bare"

(***************************************************************************)
(* "reprocessing a mailbox can never double-record a bounce or reply"      *)
(* (ERD.md, decision 6): after any crashes and repeated passes, the soft   *)
(* bounces recorded are the soft bounces taken in, and a thread has one    *)
(* reply event.                                                            *)
(***************************************************************************)
SoftTakenIn ==
  {p \in Accounts \X Uids :
     p[2] \in intake[p[1]] /\ inbox[p[1]][p[2]].kind = "soft"}

RecordedOnce ==
  /\ softSeen = Cardinality(SoftTakenIn)
  /\ \A m \in Messages : events[m] = IF replied[m] THEN 1 ELSE 0

(***************************************************************************)
(* After a hard bounce, also one that follows a soft bounce of the same    *)
(* message, the address is on the suppression list until an admin          *)
(* releases it.                                                            *)
(***************************************************************************)
HardBounceSuppresses == hardSeen => suppression # "none"

(***************************************************************************)
(* The address is suppressed as soon as Threshold of its messages are      *)
(* soft-bounced: the bounce that completes the number is counted.          *)
(***************************************************************************)
SoftBouncesSuppress ==
  Cardinality({m \in Messages : bounce[m] = "soft"}) >= Threshold
    => suppression # "none"

(* Both ways onto the list.                                                *)
BouncesSuppress == HardBounceSuppresses /\ SoftBouncesSuppress

(***************************************************************************)
(* The notifications follow the commit and are not repeated by the pass    *)
(* that finds the mail taken in.  Those of one mail at most are lost by a  *)
(* crash, by a commit whose answer is lost and by a notification that      *)
(* fails, and none by a connection that breaks, a transaction that is      *)
(* rolled back, a cursor that is not written or a mail that is met again.  *)
(***************************************************************************)
Telling(a, uid) == pass.pc = "telling" /\ pass.account = a /\ pass.uid = uid

Untold ==
  {p \in Accounts \X Uids :
     p[2] \in intake[p[1]] \ told[p[1]] /\ ~Telling(p[1], p[2])}

UntoldBound == Cardinality(Untold) <= crashes + losses

(***************************************************************************)
(* Every mail that arrives is taken in, unless a mail before it in the     *)
(* same mailbox cannot be processed: no failing account holds up another.  *)
(***************************************************************************)
Arrived(a, uid) ==
  /\ uid <= Len(inbox[a])
  /\ \A u \in 1..uid : inbox[a][u].kind # "poison"
  /\ inbox[a][uid].kind # "bare"

MailTakenIn ==
  \A a \in Accounts : \A uid \in Uids : Arrived(a, uid) ~> uid \in intake[a]
=============================================================================
