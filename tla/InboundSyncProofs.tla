-------------------------- MODULE InboundSyncProofs --------------------------
(* Proofs about the inbound worker, for any number of accounts, messages,  *)
(* mails and crashes, with and without faults.                             *)
EXTENDS InboundLedger, FiniteSetTheorems, TLAPS

(***************************************************************************)
(* The inductive invariant.                                                *)
(***************************************************************************)

(* The cursor and the intake stay inside the mailbox.                      *)
BoxInv ==
  \A a \in Accounts :
    /\ Len(inbox[a]) <= MaxUid
    /\ cursor[a] <= Len(inbox[a])
    /\ intake[a] \subseteq 1..Len(inbox[a])

(* The cursors a pass read at its start hold for the mailboxes it has not  *)
(* come to, and in the open one it works on the mail after the cursor.     *)
PassInv ==
  /\ pass.pc # "idle" => \A a \in pass.todo : pass.seen[a] = cursor[a]
  /\ pass.pc \in InMailbox => pass.account \notin pass.todo
  /\ pass.pc = "opening" => pass.seen[pass.account] = cursor[pass.account]
  /\ pass.pc \in {"fetching", "telling", "moving"} =>
       /\ pass.uid = cursor[pass.account] + 1
       /\ pass.uid <= pass.last + 1
       /\ pass.last <= Len(inbox[pass.account])
  /\ pass.pc \in {"telling", "moving"} =>
       /\ pass.uid <= pass.last
       /\ \/ pass.uid \in intake[pass.account]
          \/ pass.pc = "moving" /\ CurrentMail.kind = "bare"

Inv == TypeOK /\ BoxInv /\ PassInv /\ NothingSkipped

LEMMA OneMore ==
  ASSUME NEW S, NEW x, IsFiniteSet(S)
  PROVE  /\ IsFiniteSet(S \cup {x})
         /\ Cardinality(S \cup {x}) = IF x \in S THEN Cardinality(S)
                                                ELSE Cardinality(S) + 1
         /\ Cardinality(S) \in Nat
  BY FS_AddElement, FS_CardinalityType

-----------------------------------------------------------------------------
LEMMA IdlePass == Idle \in PassState /\ Idle.pc = "idle"
  BY InboundAssumption DEF Idle, PassState, PassPc

LEMMA InitInv == Init => Inv
<1> SUFFICES ASSUME Init PROVE Inv
  OBVIOUS
<1>1. /\ pass = Idle /\ Idle.pc = "idle" /\ Idle \in PassState
      /\ \A a \in Accounts : /\ inbox[a] = <<>>
                             /\ cursor[a] = 0
                             /\ intake[a] = {}
  BY IdlePass DEF Init
<1>2. TypeOK
  <2>1. inbox \in [Accounts -> Seq(Mail)]
    BY DEF Init
  <2>2. /\ cursor \in [Accounts -> 0..MaxUid]
        /\ crashes \in 0..MaxCrashes /\ losses \in 0..MaxLosses
    BY InboundAssumption DEF Init
  <2> QED
    BY <1>1, <2>1, <2>2 DEF Init, TypeOK, InMailbox
<1>3. BoxInv
  BY <1>1, InboundAssumption DEF BoxInv
<1>4. PassInv
  BY <1>1 DEF PassInv, InMailbox
<1>5. NothingSkipped
  BY <1>1 DEF NothingSkipped
<1> QED
  BY <1>2, <1>3, <1>4, <1>5 DEF Inv

(* The mail a pass is at is one of the mailbox.                            *)
LEMMA MailAtHand ==
  ASSUME Inv, pass.pc \in {"fetching", "telling", "moving"}, pass.uid <= pass.last
  PROVE  /\ pass.account \in Accounts
         /\ pass.uid \in 1..Len(inbox[pass.account])
         /\ pass.uid \in Uids
         /\ CurrentMail \in Mail
  BY InboundAssumption
  DEF Inv, TypeOK, BoxInv, PassInv, InMailbox, PassState, Uids, CurrentMail

(* The parts of the state that the transaction writes keep their types.    *)
LEMMA ApplyTypes ==
  ASSUME TypeOK, NEW mail \in Mail, Apply(mail)
  PROVE  /\ bounce' \in [Messages -> {"none", "soft", "hard"}]
         /\ bounceType' \in [Messages -> {"none", "soft", "hard"}]
         /\ replied' \in [Messages -> BOOLEAN]
         /\ suppression' \in {"none", "active", "released"}
         /\ events' \in [Messages -> Nat]
         /\ hardSeen' \in BOOLEAN
         /\ softSeen' \in Nat
<1> USE DEF TypeOK, Mail
<1>1. CASE mail.kind \in {"hard", "soft"}
  <2>1. /\ bounce' = [bounce EXCEPT ![mail.about] = mail.kind]
        /\ bounceType' = [bounceType EXCEPT
             ![mail.about] = IF @ = "none" THEN mail.kind ELSE @]
        /\ suppression' \in {"active", suppression}
        /\ UNCHANGED <<replied, events>>
    BY <1>1 DEF Apply, RecordBounce, SuppressionAfter
  <2>2. /\ hardSeen' = (hardSeen \/ mail.kind = "hard")
        /\ softSeen' = softSeen + IF mail.kind = "soft" THEN 1 ELSE 0
    BY <1>1 DEF Apply
  <2>3. mail.about \in Messages
    OBVIOUS
  <2>4. /\ bounce' \in [Messages -> {"none", "soft", "hard"}]
        /\ bounceType' \in [Messages -> {"none", "soft", "hard"}]
    BY <1>1, <2>1, <2>3
  <2>5. hardSeen' \in BOOLEAN /\ softSeen' \in Nat
    BY <2>2
  <2> QED
    BY <2>1, <2>4, <2>5
<1>2. CASE mail.kind = "reply"
  <2>1. /\ RecordReply(mail.about)
        /\ UNCHANGED <<bounce, bounceType, suppression, hardSeen, softSeen>>
    BY <1>2 DEF Apply
  <2>2. mail.about \in Messages
    OBVIOUS
  <2>3. replied' \in [Messages -> BOOLEAN] /\ events' \in [Messages -> Nat]
    BY <2>1, <2>2 DEF RecordReply
  <2> QED
    BY <2>1, <2>3
<1>3. CASE mail.kind = "other"
  BY <1>3 DEF Apply, records
<1> QED
  BY <1>1, <1>2, <1>3 DEF Apply

LEMMA TypeStep == Inv /\ [Next]_vars => TypeOK'
<1> SUFFICES ASSUME Inv, [Next]_vars PROVE TypeOK'
  OBVIOUS
<1> USE InboundAssumption DEF TypeOK, PassState, PassPc, InMailbox, records, history
<1>1. ASSUME NEW a \in Accounts, Arrive(a) PROVE TypeOK'
  BY <1>1 DEF Arrive, Inv
<1>2. ASSUME StartPass PROVE TypeOK'
  BY <1>2 DEF StartPass, Inv
<1>3. ASSUME NEW a \in Accounts, NextAccount(a) PROVE TypeOK'
  BY <1>3 DEF NextAccount, Inv
<1>4. ASSUME EndPass PROVE TypeOK'
  BY <1>4 DEF EndPass, Idle, Inv
<1>5. ASSUME OpenMailbox PROVE TypeOK'
  <2>1. /\ pass \in PassState /\ pass.account \in Accounts
        /\ Len(inbox[pass.account]) \in 0..MaxUid
        /\ pass.seen[pass.account] \in 0..MaxUid
    BY <1>5 DEF OpenMailbox, Inv, BoxInv
  <2>2. pass' \in PassState /\ (pass'.pc \in InMailbox => pass'.account \in Accounts)
    <3> DEFINE uid == pass.seen[pass.account] + 1
               last == Len(inbox[pass.account])
    <3>1. uid \in 0..(MaxUid + 1) /\ last \in 0..MaxUid
      BY <2>1
    <3>2. \/ pass' = [pass EXCEPT !.pc = "choosing"]
          \/ pass' = [pass EXCEPT !.pc = "fetching", !.uid = uid, !.last = last]
      BY <1>5 DEF OpenMailbox
    <3> HIDE DEF uid, last
    <3> QED
      BY <2>1, <3>1, <3>2
  <2> QED
    BY <1>5, <2>2 DEF OpenMailbox, Inv
<1>6. ASSUME ProcessMessage \/ CommitUnanswered PROVE TypeOK'
  <2>1. /\ pass.account \in Accounts /\ pass.uid \in Uids
        /\ CurrentMail \in Mail
    BY <1>6, MailAtHand DEF ProcessMessage, CommitUnanswered, AtMail
  <2>2. pass' \in PassState /\ (pass'.pc \in InMailbox => pass'.account \in Accounts)
    <3>1. \E pc \in {"telling", "moving", "choosing"} :
            pass' = [pass EXCEPT !.pc = pc]
      BY <1>6 DEF ProcessMessage, CommitUnanswered, SkipAccount
    <3> QED
      BY <2>1, <3>1 DEF Inv
  <2>3. intake' \in [Accounts -> SUBSET Uids]
    <3>1. \/ intake' = intake
          \/ intake' = [intake EXCEPT ![pass.account] = @ \cup {pass.uid}]
      BY <1>6 DEF ProcessMessage, CommitUnanswered, TakeIn
    <3>2. intake \in [Accounts -> SUBSET Uids]
      BY DEF Inv
    <3>3. intake[pass.account] \cup {pass.uid} \in SUBSET Uids
      BY <2>1, <3>2
    <3> QED
      BY <3>1, <3>2, <3>3
  <2>4. /\ bounce' \in [Messages -> {"none", "soft", "hard"}]
        /\ bounceType' \in [Messages -> {"none", "soft", "hard"}]
        /\ replied' \in [Messages -> BOOLEAN]
        /\ suppression' \in {"none", "active", "released"}
        /\ events' \in [Messages -> Nat]
        /\ hardSeen' \in BOOLEAN
        /\ softSeen' \in Nat
    <3>1. \/ Apply(CurrentMail)
          \/ UNCHANGED <<records, events, hardSeen, softSeen>>
      BY <1>6 DEF ProcessMessage, CommitUnanswered, TakeIn
    <3> QED
      BY <2>1, <3>1, ApplyTypes DEF Inv
  <2>5. losses' \in 0..MaxLosses
    BY <1>6 DEF ProcessMessage, CommitUnanswered, Loss, Inv
  <2> QED
    BY <1>6, <2>2, <2>3, <2>4, <2>5 DEF ProcessMessage, CommitUnanswered, Inv
<1>7. ASSUME PassOver \/ FailMessage \/ SyncFault PROVE TypeOK'
  BY <1>7 DEF PassOver, FailMessage, SyncFault, SkipAccount, Inv
<1>8. ASSUME Tell PROVE TypeOK'
  <2>1. pass.account \in Accounts /\ pass.uid \in Uids
    BY <1>8, MailAtHand DEF Tell, Inv, PassInv
  <2> QED
    BY <1>8, <2>1 DEF Tell, Inv
<1>9. ASSUME Advance PROVE TypeOK'
  <2>1. pass.account \in Accounts /\ pass.uid \in Uids
    BY <1>9, MailAtHand DEF Advance, Inv, PassInv
  <2>2. /\ pass.uid \in 0..MaxUid /\ pass.uid + 1 \in 0..(MaxUid + 1)
        /\ pass \in PassState /\ cursor \in [Accounts -> 0..MaxUid]
    BY <2>1 DEF Inv, Uids
  <2>3. cursor' \in [Accounts -> 0..MaxUid]
    BY <1>9, <2>2 DEF Advance
  <2>4. pass' \in PassState /\ pass'.account = pass.account
    BY <1>9, <2>2 DEF Advance
  <2> QED
    BY <1>9, <2>1, <2>3, <2>4 DEF Advance, Inv
<1>10. ASSUME EndMailbox PROVE TypeOK'
  BY <1>10 DEF EndMailbox, Inv
<1>11. ASSUME Crash PROVE TypeOK'
  BY <1>11 DEF Crash, Idle, Inv
<1>12. ASSUME Release PROVE TypeOK'
  BY <1>12 DEF Release, Inv
<1>13. ASSUME TellFails PROVE TypeOK'
  <2>1. losses' \in 0..MaxLosses
    BY <1>13 DEF TellFails, Loss, Inv
  <2>2. pass' \in PassState /\ (pass'.pc \in InMailbox => pass'.account \in Accounts)
    BY <1>13 DEF TellFails, Inv
  <2> QED
    BY <1>13, <2>1, <2>2 DEF TellFails, Inv
<1>14. CASE UNCHANGED vars
  BY <1>14 DEF vars, Inv
<1> QED
  BY <1>1, <1>2, <1>3, <1>4, <1>5, <1>6, <1>7, <1>8, <1>9, <1>10, <1>11,
     <1>12, <1>13, <1>14 DEF Next, SyncStep

-----------------------------------------------------------------------------
(* A mail that arrives goes to the end: the mails before it stay.          *)
LEMMA ArriveAppends ==
  ASSUME Inv, NEW a \in Accounts, Arrive(a), NEW b \in Accounts
  PROVE  /\ Len(inbox[b]) \in Nat /\ Len(inbox'[b]) \in Nat
         /\ Len(inbox[b]) <= Len(inbox'[b])
         /\ Len(inbox'[b]) <= MaxUid
         /\ \A i \in 1..Len(inbox[b]) : inbox'[b][i] = inbox[b][i]
<1>1. PICK mail \in Mail : inbox' = [inbox EXCEPT ![a] = Append(@, mail)]
  BY DEF Arrive
<1>2. /\ inbox \in [Accounts -> Seq(Mail)]
      /\ Len(inbox[b]) <= MaxUid
  BY DEF Inv, TypeOK, BoxInv
<1>3. inbox'[b] = IF b = a THEN Append(inbox[b], mail) ELSE inbox[b]
  BY <1>1, <1>2
<1>4. inbox[b] \in Seq(Mail) /\ MaxUid \in Nat
  BY <1>2, InboundAssumption
<1>5. CASE b = a
  <2>1. Len(inbox[b]) < MaxUid
    BY <1>5 DEF Arrive
  <2>2. inbox'[b] = Append(inbox[b], mail)
    BY <1>3, <1>5
  <2> QED
    BY <1>4, <2>1, <2>2
<1>6. CASE b # a
  BY <1>2, <1>3, <1>4, <1>6
<1> QED
  BY <1>5, <1>6

LEMMA BoxStep == Inv /\ [Next]_vars => BoxInv'
<1> SUFFICES ASSUME Inv, [Next]_vars, NEW b \in Accounts
             PROVE  (/\ Len(inbox[b]) <= MaxUid
                     /\ cursor[b] <= Len(inbox[b])
                     /\ intake[b] \subseteq 1..Len(inbox[b]))'
  BY DEF BoxInv
<1> DEFINE Goal == (/\ Len(inbox[b]) <= MaxUid
                    /\ cursor[b] <= Len(inbox[b])
                    /\ intake[b] \subseteq 1..Len(inbox[b]))'
<1>0. /\ Len(inbox[b]) <= MaxUid
      /\ cursor[b] <= Len(inbox[b])
      /\ intake[b] \subseteq 1..Len(inbox[b])
      /\ cursor[b] \in Nat
  BY InboundAssumption DEF Inv, BoxInv, TypeOK
<1>1. ASSUME NEW a \in Accounts, Arrive(a) PROVE Goal
  <2>1. UNCHANGED <<cursor, intake>>
    BY <1>1 DEF Arrive
  <2>2. /\ Len(inbox[b]) \in Nat /\ Len(inbox'[b]) \in Nat
        /\ Len(inbox[b]) <= Len(inbox'[b])
        /\ Len(inbox'[b]) <= MaxUid
    BY <1>1, ArriveAppends
  <2> QED
    BY <1>0, <2>1, <2>2
<1>2. ASSUME ProcessMessage \/ CommitUnanswered PROVE Goal
  <2>1. UNCHANGED <<inbox, cursor>>
    BY <1>2 DEF ProcessMessage, CommitUnanswered, TakeIn
  <2>2. pass.account \in Accounts /\ pass.uid \in 1..Len(inbox[pass.account])
    BY <1>2, MailAtHand DEF ProcessMessage, CommitUnanswered, AtMail
  <2>3. \/ intake' = intake
        \/ intake' = [intake EXCEPT ![pass.account] = @ \cup {pass.uid}]
    BY <1>2 DEF ProcessMessage, CommitUnanswered, TakeIn
  <2>4. intake \in [Accounts -> SUBSET Uids]
    BY DEF Inv, TypeOK
  <2> QED
    BY <1>0, <2>1, <2>2, <2>3, <2>4
<1>3. ASSUME Advance PROVE Goal
  <2>1. UNCHANGED <<inbox, intake>>
    BY <1>3 DEF Advance
  <2>2. pass.account \in Accounts /\ pass.uid \in 1..Len(inbox[pass.account])
    BY <1>3, MailAtHand DEF Advance, Inv, PassInv
  <2>3. cursor' = [cursor EXCEPT ![pass.account] = pass.uid]
    BY <1>3 DEF Advance
  <2>4. cursor \in [Accounts -> 0..MaxUid]
    BY DEF Inv, TypeOK
  <2> QED
    BY <1>0, <2>1, <2>2, <2>3, <2>4
<1>4. CASE UNCHANGED <<inbox, cursor, intake>>
  BY <1>0, <1>4
<1>5. \/ \E a \in Accounts : Arrive(a)
      \/ ProcessMessage \/ CommitUnanswered
      \/ Advance
      \/ UNCHANGED <<inbox, cursor, intake>>
  BY DEF Next, SyncStep, StartPass, NextAccount, EndPass, OpenMailbox,
         PassOver, FailMessage, Tell, TellFails, EndMailbox, SyncFault, Crash, Release,
         vars
<1> QED
  BY <1>1, <1>2, <1>3, <1>4, <1>5

(* The cursor moves past a mail that is in the intake, or has no source.   *)
LEMMA SkipStep == Inv /\ [Next]_vars => NothingSkipped'
<1> SUFFICES ASSUME Inv, [Next]_vars, NEW a \in Accounts, NEW uid \in 1..cursor'[a]
             PROVE  uid \in intake'[a] \/ inbox'[a][uid].kind = "bare"
  BY DEF NothingSkipped
<1>0. /\ cursor \in [Accounts -> 0..MaxUid]
      /\ intake \in [Accounts -> SUBSET Uids]
      /\ \A u \in 1..cursor[a] : u \in intake[a] \/ inbox[a][u].kind = "bare"
      /\ cursor[a] \in Nat /\ cursor[a] <= Len(inbox[a])
  <2>1. /\ cursor \in [Accounts -> 0..MaxUid]
        /\ intake \in [Accounts -> SUBSET Uids]
    BY DEF Inv, TypeOK
  <2>2. /\ \A u \in 1..cursor[a] : u \in intake[a] \/ inbox[a][u].kind = "bare"
        /\ cursor[a] <= Len(inbox[a])
    BY DEF Inv, BoxInv, NothingSkipped
  <2> QED
    BY <2>1, <2>2, InboundAssumption
<1>1. CASE \E b \in Accounts : Arrive(b)
  <2>1. PICK b \in Accounts : Arrive(b)
    BY <1>1
  <2>2. UNCHANGED <<cursor, intake>>
    BY <2>1 DEF Arrive
  <2>3. /\ Len(inbox[a]) \in Nat
        /\ \A i \in 1..Len(inbox[a]) : inbox'[a][i] = inbox[a][i]
    BY <2>1, ArriveAppends
  <2>4. inbox'[a][uid] = inbox[a][uid]
    BY <1>0, <2>2, <2>3
  <2> QED
    BY <1>0, <2>2, <2>4
<1>2. CASE ProcessMessage \/ CommitUnanswered
  <2>1. UNCHANGED <<inbox, cursor>>
    BY <1>2 DEF ProcessMessage, CommitUnanswered, TakeIn
  <2>2. \/ intake' = intake
        \/ intake' = [intake EXCEPT ![pass.account] = @ \cup {pass.uid}]
    BY <1>2 DEF ProcessMessage, CommitUnanswered, TakeIn
  <2>3. intake[a] \subseteq intake'[a]
    BY <1>0, <2>2
  <2> QED
    BY <1>0, <2>1, <2>3
<1>3. CASE Advance
  <2>1. UNCHANGED <<inbox, intake>>
    BY <1>3 DEF Advance
  <2>2. cursor' = [cursor EXCEPT ![pass.account] = pass.uid]
    BY <1>3 DEF Advance
  <2>3. /\ pass.account \in Accounts
        /\ pass.uid = cursor[pass.account] + 1
        /\ \/ pass.uid \in intake[pass.account]
           \/ inbox[pass.account][pass.uid].kind = "bare"
    BY <1>3 DEF Advance, Inv, TypeOK, InMailbox, PassInv, CurrentMail
  <2>4. CASE a = pass.account
    <3>1. cursor'[a] = cursor[a] + 1
      BY <1>0, <2>2, <2>3, <2>4
    <3>2. uid \in 1..cursor[a] \/ uid = cursor[a] + 1
      BY <1>0, <3>1
    <3> QED
      BY <1>0, <2>1, <2>3, <2>4, <3>2
  <2>5. CASE a # pass.account
    BY <1>0, <2>1, <2>2, <2>5
  <2> QED
    BY <2>4, <2>5
<1>4. CASE UNCHANGED <<inbox, cursor, intake>>
  BY <1>0, <1>4
<1> QED
  BY <1>1, <1>2, <1>3, <1>4
  DEF Next, SyncStep, StartPass, NextAccount, EndPass, OpenMailbox,
      PassOver, FailMessage, Tell, TellFails, EndMailbox, SyncFault, Crash,
      Release, vars

-----------------------------------------------------------------------------
LEMMA PassStep == Inv /\ [Next]_vars => PassInv'
<1> SUFFICES ASSUME Inv, [Next]_vars PROVE PassInv'
  OBVIOUS
<1>0. /\ pass \in PassState
      /\ cursor \in [Accounts -> 0..MaxUid]
      /\ intake \in [Accounts -> SUBSET Uids]
      /\ pass.pc \in InMailbox => pass.account \in Accounts
  BY DEF Inv, TypeOK
<1>1. CASE \E a \in Accounts : Arrive(a)
  <2>1. PICK a \in Accounts : Arrive(a)
    BY <1>1
  <2>2. UNCHANGED <<cursor, intake, pass>>
    BY <2>1 DEF Arrive
  <2>3. \A b \in Accounts :
          /\ Len(inbox[b]) \in Nat /\ Len(inbox'[b]) \in Nat
          /\ Len(inbox[b]) <= Len(inbox'[b])
          /\ \A i \in 1..Len(inbox[b]) : inbox'[b][i] = inbox[b][i]
    BY <2>1, ArriveAppends
  <2>4. CASE pass.pc \in {"fetching", "telling", "moving"}
    <3>1. /\ pass.account \in Accounts
          /\ pass.last <= Len(inbox[pass.account])
          /\ pass.uid \in Nat /\ pass.last \in Nat
      BY <1>0, <2>4, InboundAssumption DEF Inv, PassInv, InMailbox, PassState
    <3>2. pass.last <= Len(inbox'[pass.account])
      BY <2>3, <3>1
    <3>3. pass.pc \in {"telling", "moving"} => CurrentMail' = CurrentMail
      BY <2>2, <2>3, <2>4, MailAtHand DEF CurrentMail, Inv, PassInv
    <3> QED
      BY <2>2, <2>4, <3>2, <3>3 DEF Inv, PassInv
  <2>5. CASE pass.pc \notin {"fetching", "telling", "moving"}
    BY <2>2, <2>5 DEF Inv, PassInv
  <2> QED
    BY <2>4, <2>5
<1>2. CASE StartPass
  BY <1>0, <1>2 DEF StartPass, PassInv, InMailbox, PassState
<1>3. CASE \E a \in Accounts : NextAccount(a)
  BY <1>0, <1>3 DEF NextAccount, Inv, PassInv, InMailbox, PassState
<1>4. CASE EndPass \/ Crash
  BY <1>4, IdlePass DEF EndPass, Crash, PassInv, InMailbox
<1>5. CASE OpenMailbox
  <2>1. UNCHANGED <<inbox, cursor, intake>>
    BY <1>5 DEF OpenMailbox
  <2>2. /\ pass.pc = "opening"
        /\ pass.account \in Accounts /\ pass.account \notin pass.todo
        /\ pass.seen[pass.account] = cursor[pass.account]
        /\ \A a \in pass.todo : pass.seen[a] = cursor[a]
        /\ cursor[pass.account] \in Nat
        /\ Len(inbox[pass.account]) \in Nat
    BY <1>0, <1>5, InboundAssumption
    DEF OpenMailbox, Inv, TypeOK, PassInv, InMailbox
  <2>3. CASE pass' = [pass EXCEPT !.pc = "choosing"]
    BY <1>0, <2>1, <2>2, <2>3 DEF PassInv, InMailbox, PassState
  <2>4. CASE /\ cursor[pass.account] < Len(inbox[pass.account])
             /\ pass' = [pass EXCEPT !.pc = "fetching",
                                     !.uid = cursor[pass.account] + 1,
                                     !.last = Len(inbox[pass.account])]
    BY <1>0, <2>1, <2>2, <2>4 DEF PassInv, InMailbox, PassState
  <2> QED
    BY <1>5, <2>2, <2>3, <2>4 DEF OpenMailbox
<1>6. CASE ProcessMessage
  <2>1. /\ pass.account \in Accounts /\ pass.uid \in Uids
        /\ pass.pc = "fetching" /\ pass.uid <= pass.last
        /\ UNCHANGED <<inbox, cursor>>
    BY <1>6, MailAtHand DEF ProcessMessage, AtMail
  <2>2. /\ pass.account \notin pass.todo
        /\ \A a \in pass.todo : pass.seen[a] = cursor[a]
        /\ pass.uid = cursor[pass.account] + 1
        /\ pass.uid <= pass.last + 1
        /\ pass.last <= Len(inbox[pass.account])
    BY <2>1 DEF Inv, PassInv, InMailbox
  <2>3. /\ pass' = [pass EXCEPT !.pc = pass'.pc]
        /\ pass'.pc \in {"telling", "moving"}
        /\ pass.uid \in intake'[pass.account]
    BY <1>0, <1>6, <2>1 DEF ProcessMessage, TakeIn, IsNew, PassState
  <2> QED
    BY <1>0, <2>1, <2>2, <2>3 DEF PassInv, InMailbox, PassState
<1>7. CASE PassOver
  BY <1>0, <1>7 DEF PassOver, Inv, PassInv, InMailbox, PassState, CurrentMail
<1>8. CASE FailMessage \/ SyncFault
  BY <1>0, <1>8
  DEF FailMessage, SyncFault, SkipAccount, Inv, PassInv, InMailbox, PassState
<1>9. CASE Tell \/ TellFails
  BY <1>0, <1>9
  DEF Tell, TellFails, Inv, PassInv, InMailbox, PassState, CurrentMail
<1>10. CASE Advance
  <2>1. /\ pass.account \in Accounts /\ pass.account \notin pass.todo
        /\ \A a \in pass.todo : pass.seen[a] = cursor[a]
        /\ pass.uid <= pass.last
        /\ pass.last <= Len(inbox[pass.account])
        /\ pass.uid \in Nat /\ pass.last \in Nat
    BY <1>0, <1>10, InboundAssumption
    DEF Advance, Inv, PassInv, InMailbox, PassState
  <2>2. /\ cursor' = [cursor EXCEPT ![pass.account] = pass.uid]
        /\ pass' = [pass EXCEPT !.pc = "fetching", !.uid = pass.uid + 1]
        /\ UNCHANGED <<inbox, intake>>
    BY <1>10 DEF Advance
  <2>3. /\ pass'.pc = "fetching" /\ pass'.uid = pass.uid + 1
        /\ pass'.account = pass.account /\ pass'.todo = pass.todo
        /\ pass'.seen = pass.seen /\ pass'.last = pass.last
    BY <1>0, <2>2 DEF PassState
  <2>4. /\ cursor'[pass.account] = pass.uid
        /\ \A a \in pass.todo : cursor'[a] = cursor[a]
    BY <1>0, <2>1, <2>2 DEF PassState
  <2> QED
    BY <2>1, <2>2, <2>3, <2>4 DEF PassInv, InMailbox
<1>11. CASE EndMailbox
  BY <1>0, <1>11 DEF EndMailbox, Inv, PassInv, InMailbox, PassState
<1>12. CASE CommitUnanswered
  BY <1>0, <1>12
  DEF CommitUnanswered, AtMail, SkipAccount, Inv, PassInv, InMailbox, PassState
<1>13. CASE UNCHANGED <<inbox, cursor, intake, pass>>
  BY <1>13 DEF Inv, PassInv, CurrentMail
<1> QED
  BY <1>1, <1>2, <1>3, <1>4, <1>5, <1>6, <1>7, <1>8, <1>9, <1>10, <1>11, <1>12,
     <1>13
  DEF Next, SyncStep, Release, vars

(***************************************************************************)
(* The invariant holds in every reachable state.                           *)
(***************************************************************************)
THEOREM InvHolds == Spec => []Inv
<1>1. Inv /\ [Next]_vars => Inv'
  BY TypeStep, BoxStep, PassStep, SkipStep DEF Inv
<1> QED
  BY InitInv, <1>1, PTL DEF Spec

(***************************************************************************)
(* Every variable of the inbound worker keeps its type.                    *)
(***************************************************************************)
THEOREM TypeCorrect == Spec => []TypeOK
<1>1. Inv => TypeOK
  BY DEF Inv
<1> QED
  BY InvHolds, <1>1, PTL

(***************************************************************************)
(* Whatever crashes or fails between the transaction of a mail and the     *)
(* cursor (syncMailbox), the cursor never passes a mail that was not       *)
(* taken in.                                                               *)
(***************************************************************************)
THEOREM NothingIsSkipped == Spec => []NothingSkipped
<1>1. Inv => NothingSkipped
  BY DEF Inv
<1> QED
  BY InvHolds, <1>1, PTL

-----------------------------------------------------------------------------
LEMMA SuppressStep ==
  TypeOK /\ HardBounceSuppresses /\ SoftBouncesSuppress /\ [Next]_vars
    => HardBounceSuppresses' /\ SoftBouncesSuppress'
<1> SUFFICES ASSUME TypeOK, HardBounceSuppresses, SoftBouncesSuppress, [Next]_vars
             PROVE  HardBounceSuppresses' /\ SoftBouncesSuppress'
  OBVIOUS
<1> DEFINE Soft == {m \in Messages : bounce[m] = "soft"}
<1>1. CASE ProcessMessage \/ CommitUnanswered
  <2>1. CASE UNCHANGED <<bounce, suppression, hardSeen>>
    BY <2>1 DEF HardBounceSuppresses, SoftBouncesSuppress
  <2>2. CASE /\ CurrentMail.kind \in {"hard", "soft"}
             /\ RecordBounce(CurrentMail.about, CurrentMail.kind)
             /\ hardSeen' = (hardSeen \/ CurrentMail.kind = "hard")
    <3>1. suppression' =
            IF CurrentMail.kind = "hard" \/ Cardinality(Soft') >= Threshold
              THEN "active" ELSE suppression
      BY <2>2 DEF RecordBounce, SuppressionAfter
    <3>2. HardBounceSuppresses'
      BY <2>2, <3>1 DEF HardBounceSuppresses
    <3>3. SoftBouncesSuppress'
      BY <3>1 DEF SoftBouncesSuppress
    <3> QED
      BY <3>2, <3>3
  <2> QED
    BY <1>1, <2>1, <2>2
    DEF ProcessMessage, CommitUnanswered, TakeIn, Apply, records
<1>2. CASE Release
  BY <1>2 DEF Release, HardBounceSuppresses, SoftBouncesSuppress, history
<1>3. CASE UNCHANGED <<bounce, suppression, hardSeen>>
  BY <1>3 DEF HardBounceSuppresses, SoftBouncesSuppress
<1> QED
  BY <1>1, <1>2, <1>3
  DEF Next, SyncStep, Arrive, StartPass, NextAccount, EndPass, OpenMailbox,
      PassOver, FailMessage, Tell, TellFails, Advance, EndMailbox, SyncFault,
      Crash, vars, records, history

LEMMA SuppressInit == Init => HardBounceSuppresses /\ SoftBouncesSuppress
<1> SUFFICES ASSUME Init PROVE HardBounceSuppresses /\ SoftBouncesSuppress
  OBVIOUS
<1>1. {m \in Messages : bounce[m] = "soft"} = {}
  BY DEF Init
<1>2. Cardinality({m \in Messages : bounce[m] = "soft"}) = 0
  BY <1>1, FS_EmptySet
<1> QED
  BY <1>2, InboundAssumption DEF Init, HardBounceSuppresses, SoftBouncesSuppress

LEMMA SuppressHolds == Spec => [](HardBounceSuppresses /\ SoftBouncesSuppress)
<1>1. TypeOK /\ (HardBounceSuppresses /\ SoftBouncesSuppress) /\ [Next]_vars
        => (HardBounceSuppresses /\ SoftBouncesSuppress)'
  BY SuppressStep
<1> QED
  BY SuppressInit, TypeCorrect, <1>1, PTL DEF Spec

(***************************************************************************)
(* A hard bounce leaves the address on the suppression list                *)
(* (applySuppressionPolicy), also when a soft bounce of the same message   *)
(* was recorded before; and so does the soft bounce that brings the        *)
(* address to the threshold, whichever message it is about.                *)
(***************************************************************************)
THEOREM BouncesReachTheList == Spec => []BouncesSuppress
<1>1. HardBounceSuppresses /\ SoftBouncesSuppress => BouncesSuppress
  BY DEF BouncesSuppress
<1> QED
  BY SuppressHolds, <1>1, PTL

-----------------------------------------------------------------------------
(* The counts of the history agree with the tables.                        *)
CountInv == IsFiniteSet(SoftTakenIn) /\ RecordedOnce

(* A mail that is new adds one to the soft bounces taken in, when it is a  *)
(* soft bounce.                                                            *)
LEMMA NewMail ==
  ASSUME Inv, AtMail, IsNew, TakeIn, UNCHANGED inbox
  PROVE  /\ Apply(CurrentMail)
         /\ <<pass.account, pass.uid>> \notin SoftTakenIn
         /\ SoftTakenIn' = IF CurrentMail.kind = "soft"
                             THEN SoftTakenIn \cup {<<pass.account, pass.uid>>}
                             ELSE SoftTakenIn
<1>1. /\ pass.account \in Accounts /\ pass.uid \in Uids
      /\ UNCHANGED inbox
      /\ intake' = [intake EXCEPT ![pass.account] = @ \cup {pass.uid}]
      /\ Apply(CurrentMail)
  BY MailAtHand DEF AtMail, TakeIn
<1>2. intake \in [Accounts -> SUBSET Uids] /\ pass.uid \notin intake[pass.account]
  BY DEF Inv, TypeOK, IsNew
<1>3. \A p \in Accounts \X Uids :
        p[2] \in intake'[p[1]] <=>
          p[2] \in intake[p[1]] \/ p = <<pass.account, pass.uid>>
  BY <1>1, <1>2
<1>4. CASE CurrentMail.kind = "soft"
  BY <1>1, <1>2, <1>3, <1>4 DEF SoftTakenIn, CurrentMail
<1>5. CASE CurrentMail.kind # "soft"
  BY <1>1, <1>2, <1>3, <1>5 DEF SoftTakenIn, CurrentMail
<1> QED
  BY <1>1, <1>4, <1>5, <1>2 DEF SoftTakenIn

LEMMA CountStep == Inv /\ CountInv /\ [Next]_vars => CountInv'
<1> SUFFICES ASSUME Inv, CountInv, [Next]_vars PROVE CountInv'
  OBVIOUS
<1>1. CASE \E a \in Accounts : Arrive(a)
  <2>1. PICK a \in Accounts : Arrive(a)
    BY <1>1
  <2>2. UNCHANGED <<intake, events, replied, softSeen>>
    BY <2>1 DEF Arrive, records, history
  <2>3. \A b \in Accounts : \A u \in intake[b] : inbox'[b][u] = inbox[b][u]
    BY <2>1, ArriveAppends DEF Inv, BoxInv
  <2>4. SoftTakenIn' = SoftTakenIn
    BY <2>2, <2>3 DEF SoftTakenIn
  <2> QED
    BY <2>2, <2>4 DEF CountInv, RecordedOnce
<1>2. CASE (ProcessMessage /\ IsNew) \/ CommitUnanswered
  <2>0. AtMail /\ IsNew /\ TakeIn /\ UNCHANGED inbox
    BY <1>2 DEF ProcessMessage, CommitUnanswered
  <2>1. CurrentMail.kind \in {"soft", "hard"}
          => /\ softSeen' = softSeen + IF CurrentMail.kind = "soft" THEN 1 ELSE 0
             /\ UNCHANGED <<replied, events>>
    BY <2>0, NewMail DEF Apply, records
  <2>2. CASE CurrentMail.kind = "soft"
    <3>1. /\ IsFiniteSet(SoftTakenIn')
          /\ Cardinality(SoftTakenIn') = softSeen + 1
      BY <2>0, <2>2, NewMail, OneMore DEF CountInv, RecordedOnce
    <3> QED
      BY <2>1, <2>2, <3>1 DEF CountInv, RecordedOnce
  <2>3. CASE CurrentMail.kind = "hard"
    <3>1. SoftTakenIn' = SoftTakenIn /\ softSeen' = softSeen
      BY <2>0, <2>1, <2>3, NewMail DEF Inv, TypeOK
    <3> QED
      BY <2>1, <2>3, <3>1 DEF CountInv, RecordedOnce
  <2>4. CASE CurrentMail.kind = "reply"
    <3>1. /\ SoftTakenIn' = SoftTakenIn /\ softSeen' = softSeen
          /\ RecordReply(CurrentMail.about)
      BY <2>0, <2>4, NewMail DEF Apply
    <3>2. \A m \in Messages : events'[m] = IF replied'[m] THEN 1 ELSE 0
      BY <3>1 DEF RecordReply, CountInv, RecordedOnce, Inv, TypeOK
    <3> QED
      BY <3>1, <3>2 DEF CountInv, RecordedOnce
  <2>5. CASE CurrentMail.kind = "other"
    <3>1. /\ SoftTakenIn' = SoftTakenIn
          /\ UNCHANGED <<softSeen, replied, events>>
      BY <2>0, <2>5, NewMail DEF Apply, records
    <3> QED
      BY <3>1 DEF CountInv, RecordedOnce
  <2> QED
    BY <2>0, <2>2, <2>3, <2>4, <2>5, NewMail DEF Apply
<1>3. CASE UNCHANGED <<inbox, intake, replied, events, softSeen>>
  BY <1>3 DEF CountInv, RecordedOnce, SoftTakenIn
<1> QED
  BY <1>1, <1>2, <1>3
  DEF Next, SyncStep, StartPass, NextAccount, EndPass, OpenMailbox,
      ProcessMessage, PassOver, FailMessage, Tell, TellFails, Advance,
      EndMailbox, SyncFault, Crash, Release, vars, records, history

LEMMA CountInit == Init => CountInv
<1> SUFFICES ASSUME Init PROVE CountInv
  OBVIOUS
<1>1. SoftTakenIn = {}
  BY DEF Init, SoftTakenIn
<1> QED
  BY <1>1, FS_EmptySet DEF Init, CountInv, RecordedOnce

(***************************************************************************)
(* Reprocessing a mailbox never records a mail twice (the unique index of  *)
(* inbound_messages and the replied_at guard), however often passes crash  *)
(* or fail and start again.                                                *)
(***************************************************************************)
THEOREM NothingRecordedTwice == Spec => []RecordedOnce
<1>1. CountInv => RecordedOnce
  BY DEF CountInv
<1> QED
  BY CountInit, InvHolds, CountStep, <1>1, PTL DEF Spec

-----------------------------------------------------------------------------
UntoldInv == IsFiniteSet(Untold) /\ UntoldBound

(* A step that loses the notifications of one mail and counts for it.      *)
LEMMA OneLost ==
  ASSUME UntoldInv, NEW p, Untold' \subseteq Untold \cup {p},
         crashes \in Nat, losses \in Nat,
         \/ crashes' = crashes + 1 /\ losses' = losses
         \/ crashes' = crashes /\ losses' = losses + 1
  PROVE  UntoldInv'
<1>1. /\ IsFiniteSet(Untold \cup {p})
      /\ \/ Cardinality(Untold \cup {p}) = Cardinality(Untold)
         \/ Cardinality(Untold \cup {p}) = Cardinality(Untold) + 1
      /\ Cardinality(Untold) \in Nat
  BY OneMore DEF UntoldInv
<1>2. Cardinality(Untold \cup {p}) <= crashes' + losses'
  BY <1>1 DEF UntoldInv, UntoldBound
<1>3. /\ IsFiniteSet(Untold')
      /\ Cardinality(Untold') <= Cardinality(Untold \cup {p})
  BY <1>1, FS_Subset
<1>4. Cardinality(Untold') \in Nat /\ Cardinality(Untold \cup {p}) \in Nat
  BY <1>1, <1>3, FS_CardinalityType
<1> QED
  BY <1>2, <1>3, <1>4 DEF UntoldInv, UntoldBound

LEMMA UntoldStep == Inv /\ UntoldInv /\ [Next]_vars => UntoldInv'
<1> SUFFICES ASSUME Inv, UntoldInv, [Next]_vars PROVE UntoldInv'
  OBVIOUS
<1>0. /\ intake \in [Accounts -> SUBSET Uids]
      /\ told \in [Accounts -> SUBSET Uids]
      /\ pass \in PassState /\ crashes \in Nat /\ losses \in Nat
  BY InboundAssumption DEF Inv, TypeOK
<1>1. CASE Untold' = Untold /\ UNCHANGED <<crashes, losses>>
  BY <1>1 DEF UntoldInv, UntoldBound
<1>2. CASE ProcessMessage /\ IsNew
  <2>1. /\ pass.account \in Accounts /\ pass.uid \in Uids
        /\ pass.uid \notin intake[pass.account]
        /\ intake' = [intake EXCEPT ![pass.account] = @ \cup {pass.uid}]
        /\ UNCHANGED <<told, crashes, losses>>
    BY <1>2, MailAtHand DEF ProcessMessage, AtMail, TakeIn, IsNew
  <2>2. /\ pass.pc = "fetching"
        /\ pass'.pc = "telling"
        /\ pass'.account = pass.account /\ pass'.uid = pass.uid
    BY <1>0, <1>2 DEF ProcessMessage, AtMail, PassState
  <2>3. \A a \in Accounts : \A u \in Uids :
          (u \in intake'[a] /\ ~Telling(a, u)') <=> (u \in intake[a] /\ ~Telling(a, u))
    BY <1>0, <2>1, <2>2 DEF Telling
  <2>4. Untold' = Untold
    BY <2>1, <2>3 DEF Untold
  <2> QED
    BY <1>1, <2>1, <2>4
<1>3. CASE Tell
  <2>1. /\ pass.pc = "telling" /\ pass'.pc = "moving"
        /\ pass.account \in Accounts
        /\ told' = [told EXCEPT ![pass.account] = @ \cup {pass.uid}]
        /\ UNCHANGED <<intake, crashes, losses>>
    BY <1>0, <1>3 DEF Tell, PassState, Inv, TypeOK, InMailbox
  <2>2. \A a \in Accounts : \A u \in Uids :
          (u \notin told'[a] /\ ~Telling(a, u)') <=> (u \notin told[a] /\ ~Telling(a, u))
    BY <1>0, <2>1 DEF Telling
  <2>3. Untold' = Untold
    BY <2>1, <2>2 DEF Untold
  <2> QED
    BY <1>1, <2>1, <2>3
<1>4. CASE Crash \/ TellFails
  <2>1. /\ \/ crashes' = crashes + 1 /\ losses' = losses
           \/ crashes' = crashes /\ losses' = losses + 1
        /\ UNCHANGED <<intake, told>>
    BY <1>4 DEF Crash, TellFails, Loss, history
  <2>2. pass.pc = "telling" =>
          Untold' \subseteq Untold \cup {<<pass.account, pass.uid>>}
    BY <2>1 DEF Untold, Telling
  <2>3. pass.pc # "telling" => Untold' \subseteq Untold
    BY <2>1 DEF Untold, Telling
  <2> QED
    BY <1>0, <2>1, <2>2, <2>3, OneLost
<1>5. CASE /\ UNCHANGED <<intake, told, crashes, losses>>
           /\ \/ pass' = pass
              \/ pass.pc # "telling" /\ pass'.pc # "telling"
  <2>1. Untold' = Untold
    BY <1>5 DEF Untold, Telling
  <2> QED
    BY <1>1, <1>5, <2>1
<1>6. CASE ProcessMessage /\ ~IsNew
  <2>1. /\ UNCHANGED <<intake, told, crashes, losses>>
        /\ pass.pc # "telling" /\ pass'.pc # "telling"
    BY <1>0, <1>6 DEF ProcessMessage, AtMail, PassState
  <2> QED
    BY <1>5, <2>1
<1>7. CASE \/ StartPass \/ (\E a \in Accounts : NextAccount(a)) \/ OpenMailbox
           \/ PassOver \/ FailMessage \/ Advance \/ EndMailbox \/ SyncFault
  <2>1. /\ UNCHANGED <<intake, told, crashes, losses>>
        /\ pass.pc # "telling" /\ pass'.pc # "telling"
    BY <1>0, <1>7
    DEF StartPass, NextAccount, OpenMailbox, PassOver, FailMessage, Advance,
        EndMailbox, SyncFault, SkipAccount, PassState, history
  <2> QED
    BY <1>5, <2>1
<1>8. CASE EndPass
  BY <1>5, <1>8, IdlePass DEF EndPass, history
<1>9. CASE (\E a \in Accounts : Arrive(a)) \/ Release \/ UNCHANGED vars
  <2>1. UNCHANGED <<intake, told, crashes, losses>> /\ pass' = pass
    BY <1>9 DEF Arrive, Release, vars, history
  <2> QED
    BY <1>5, <2>1
<1>10. CASE ProcessMessage
  BY <1>2, <1>6, <1>10
<1>11. CASE CommitUnanswered
  <2>1. /\ pass.account \in Accounts
        /\ intake' = [intake EXCEPT ![pass.account] = @ \cup {pass.uid}]
        /\ crashes' = crashes /\ losses' = losses + 1
        /\ told' = told /\ pass.pc = "fetching"
    BY <1>11, MailAtHand DEF CommitUnanswered, AtMail, TakeIn, Loss
  <2>2. Untold' \subseteq Untold \cup {<<pass.account, pass.uid>>}
    BY <1>0, <2>1 DEF Untold, Telling
  <2> QED
    BY <1>0, <2>1, <2>2, OneLost
<1> QED
  BY <1>3, <1>4, <1>7, <1>8, <1>9, <1>10, <1>11 DEF Next, SyncStep

LEMMA UntoldInit == Init => UntoldInv
<1> SUFFICES ASSUME Init PROVE UntoldInv
  OBVIOUS
<1>1. Untold = {}
  BY DEF Init, Untold
<1> QED
  BY <1>1, FS_EmptySet DEF Init, UntoldInv, UntoldBound

(***************************************************************************)
(* However many passes run, the mails whose notifications are lost are no  *)
(* more than the crashes of the worker, the commits whose answer was lost  *)
(* (withTransaction throws, and the next pass finds the mail taken in) and *)
(* the notifications that failed.  A pass that ends early in any other way *)
(* and a mail that is met again lose none.                                 *)
(***************************************************************************)
THEOREM NotificationsLost == Spec => []UntoldBound
<1>1. UntoldInv => UntoldBound
  BY DEF UntoldInv
<1> QED
  BY UntoldInit, InvHolds, UntoldStep, <1>1, PTL DEF Spec

-----------------------------------------------------------------------------
(* The refinement of Ledger. *)

Answered == {m \in Messages : replied[m]}
Listed   == suppression = "active"

LEMMA LedgerInit == Init => Books!Init
  BY DEF Init, Books!Init

(* A new mail is booked with its effect: it is the one after the cursor.   *)
LEMMA BookStep ==
  ASSUME Inv, AtMail, IsNew, TakeIn, UNCHANGED <<inbox, cursor>>,
         NEW a \in Accounts, a = pass.account
  PROVE  Books!Book(a)
<1> DEFINE mail == inbox[a][cursor[a] + 1]
<1>1. /\ pass.uid \in 1..Len(inbox[a]) /\ mail \in Mail
      /\ inbox[a] \in Seq(Mail)
      /\ pass.uid = cursor[a] + 1 /\ pass.uid \notin intake[a]
      /\ CurrentMail = mail
  BY MailAtHand DEF AtMail, IsNew, CurrentMail, Inv, TypeOK, PassInv
<1>2. /\ UNCHANGED <<inbox, cursor>>
      /\ intake' = [intake EXCEPT ![a] = @ \cup {cursor[a] + 1}]
      /\ Apply(CurrentMail)
  BY <1>1 DEF TakeIn
<1> HIDE DEF mail
<1>3. Books!Effect(mail)
  <2>1. CASE mail.kind \in {"hard", "soft"}
    <3>1. /\ bounce' = [bounce EXCEPT ![mail.about] = mail.kind]
          /\ suppression' \in {"active", suppression}
          /\ mail.kind = "hard" => suppression' = "active"
          /\ UNCHANGED replied
      BY <1>1, <1>2, <2>1 DEF Apply, RecordBounce, SuppressionAfter
    <3> QED
      BY <2>1, <3>1 DEF Books!Effect
  <2>2. CASE mail.kind = "reply"
    <3>1. /\ replied' = [replied EXCEPT ![mail.about] = TRUE]
          /\ UNCHANGED <<bounce, suppression>>
      BY <1>1, <1>2, <2>2 DEF Apply, RecordReply
    <3>2. Answered' = Answered \cup {mail.about}
      BY <1>1, <3>1 DEF Inv, TypeOK, Mail, Answered
    <3> QED
      BY <2>2, <3>1, <3>2 DEF Books!Effect, Answered
  <2>3. CASE mail.kind = "other"
    BY <1>1, <1>2, <2>3 DEF Apply, records, Books!Effect
  <2> QED
    BY <1>1, <1>2, <2>1, <2>2, <2>3 DEF Apply
<1>4. cursor[a] + 1 \in DOMAIN inbox[a] \ intake[a]
  BY <1>1
<1>5. Books!Effect(inbox[a][cursor[a] + 1])
  BY <1>3 DEF mail, Books!Effect
<1> QED
  BY <1>2, <1>4, <1>5 DEF Books!Book, Books!Effect

(* The cursor moves past a mail that is done.                              *)
LEMMA MarkStep ==
  ASSUME Inv, Advance, NEW a \in Accounts, a = pass.account
  PROVE  Books!Pass(a)
<1>1. /\ pass.uid = cursor[a] + 1
      /\ pass.pc = "moving" /\ pass.uid <= pass.last
      /\ pass.uid \in intake[a] \/ CurrentMail.kind = "bare"
      /\ inbox[a] \in Seq(Mail)
  BY DEF Advance, Inv, TypeOK, PassInv, InMailbox
<1>2. pass.uid \in DOMAIN inbox[a]
  BY <1>1, MailAtHand
<1>3. /\ cursor' = [cursor EXCEPT ![a] = @ + 1]
      /\ UNCHANGED <<inbox, intake, bounce, replied, suppression>>
  BY <1>1 DEF Advance, records
<1> QED
  BY <1>1, <1>2, <1>3 DEF Books!Pass, CurrentMail

LEMMA LedgerStep == Inv /\ [Next]_vars => [Books!Next]_(Books!vars)
<1> SUFFICES ASSUME Inv, [Next]_vars
             PROVE  Books!Next \/ UNCHANGED Books!vars
  OBVIOUS
<1> DEFINE Stutter == UNCHANGED Books!vars
<1> USE DEF records, history
<1>1. ASSUME NEW a \in Accounts, Arrive(a) PROVE Books!Arrive(a)
  BY <1>1 DEF Arrive, Books!Arrive, Mail
<1>2. CASE (ProcessMessage /\ IsNew) \/ CommitUnanswered
  <2>1. AtMail /\ IsNew /\ TakeIn /\ UNCHANGED <<inbox, cursor>>
    BY <1>2 DEF ProcessMessage, CommitUnanswered
  <2>2. PICK a \in Accounts : a = pass.account
    BY <2>1, MailAtHand DEF AtMail
  <2> QED
    BY <2>1, <2>2, BookStep DEF Books!Next
<1>3. CASE ProcessMessage /\ ~IsNew
  BY <1>3 DEF ProcessMessage, Books!vars
<1>4. CASE Advance
  <2>1. PICK a \in Accounts : a = pass.account
    BY <1>4 DEF Advance, Inv, TypeOK, InMailbox
  <2> QED
    BY <1>4, <2>1, MarkStep DEF Books!Next
<1>5. CASE Release
  BY <1>5 DEF Release, Books!Release, Books!Next
<1>6. CASE UNCHANGED <<inbox, cursor, intake, bounce, replied, suppression>>
  BY <1>6 DEF Books!vars
<1> QED
  BY <1>1, <1>2, <1>3, <1>4, <1>5, <1>6
  DEF Next, SyncStep, StartPass, NextAccount, EndPass, OpenMailbox, PassOver,
      FailMessage, Tell, TellFails, EndMailbox, SyncFault, Crash, vars, Books!Next

(***************************************************************************)
(* The inbound worker, with its passes, crashes, failing connections and   *)
(* repeated fetches, implements Ledger: each mail is taken in at most once,*)
(* in the order of its mailbox, and imap_last_uid never moves back nor     *)
(* past a mail that is not done.                                           *)
(***************************************************************************)
THEOREM Implementation == Spec => ImplementsLedger
  BY InvHolds, LedgerInit, LedgerStep, PTL
  DEF Spec, ImplementsLedger, Books!Spec

(***************************************************************************)
(* What Ledger says of a single step: imap_last_uid moves by one at most   *)
(* and never back, though the pass writes the position it computed from    *)
(* the cursor read at its start, and only onto a mail that is in the       *)
(* intake, or has nothing to take in.                                      *)
(***************************************************************************)
CursorInOrder ==
  [][\A a \in Accounts :
       cursor'[a] # cursor[a] =>
         /\ cursor'[a] = cursor[a] + 1
         /\ cursor'[a] \in intake[a] \/ inbox[a][cursor'[a]].kind = "bare"]_vars

THEOREM CursorMovesInOrder == Spec => CursorInOrder
<1>1. Inv /\ [Next]_vars =>
        [\A a \in Accounts :
           cursor'[a] # cursor[a] =>
             /\ cursor'[a] = cursor[a] + 1
             /\ cursor'[a] \in intake[a] \/ inbox[a][cursor'[a]].kind = "bare"]_vars
  <2> SUFFICES ASSUME Inv, [Next]_vars, NEW a \in Accounts, cursor'[a] # cursor[a]
               PROVE  /\ cursor'[a] = cursor[a] + 1
                      /\ cursor'[a] \in intake[a] \/ inbox[a][cursor'[a]].kind = "bare"
    OBVIOUS
  <2>1. [Books!Next]_(Books!vars) /\ cursor \in [Accounts -> Nat]
    BY LedgerStep DEF Inv, TypeOK
  <2>2. PICK b \in Accounts : Books!Pass(b)
    BY <2>1
    DEF Books!Next, Books!vars, Books!Arrive, Books!Book, Books!Release
  <2> QED
    BY <2>1, <2>2 DEF Books!Pass
<1> QED
  BY InvHolds, <1>1, PTL DEF Spec, CursorInOrder
=============================================================================
