------------------------------ MODULE Contacts ------------------------------
(***************************************************************************)
(* Who may be written to: the customers (customers.service.ts), the        *)
(* suppression list (suppressions.service.ts), the unsubscribe page        *)
(* (unsubscribe.service.ts), and the compose page whose request is checked *)
(* against both (compose/page.tsx, email-messages.service.ts).             *)
(*                                                                         *)
(* A handler gives way to the others at its awaits.  The transaction of an *)
(* erasure gives way between its statements too: PostgreSQL runs it at     *)
(* READ COMMITTED, so it sees rows that others commit meanwhile.           *)
(***************************************************************************)
EXTENDS Naturals, FiniteSets

CONSTANTS
  Customers,   \* ids of customers
  Mailboxes,   \* addresses as citext compares them: without regard to case
  Spellings,   \* ways to write one
  Null,
  Requests,    \* requests on customers and suppressions that run at a time
  MaxSends,    \* bound: compose requests
  MaxChanges,  \* bound: requests on customers and suppressions
  MaxFaults    \* bound: compose requests that a fault ends

Emails == Mailboxes \X Spellings

ASSUME ContactsAssumption ==
  /\ Null \notin Customers \cup Emails
  /\ Customers \cap (Emails \cup Mailboxes) = {} /\ IsFiniteSet(Customers)
  /\ MaxSends \in Nat /\ MaxFaults \in Nat /\ MaxChanges \in Nat

VARIABLES
  customer,   \* the rows of customers
  suppressed, \* the rows of suppressions, one per mailbox
  message,    \* the rows of email_messages and their jobs
  request,    \* what each request holds
  page,       \* the compose page
  compose,    \* the compose request it has sent
  failures,   \* compose requests that ended with an error
  changes,    \* requests on customers and suppressions so far
  stopped,    \* history: addresses whose holder must not be written to
  confirmed,  \* history: messages the page was told are on their way
  raced       \* history: messages inserted while their customer was erased

tables  == <<customer, suppressed, message>>
sending == <<page, compose, failures, confirmed, raced>>
asking  == <<request, changes>>
vars    == <<tables, asking, sending, stopped>>

(* Erasure gives a message the address erased-<id>@erased.invalid, which   *)
(* the id stands for here.                                                 *)
Addresses == Emails \cup Customers
Boxes == Mailboxes \cup Customers
Box(a) == IF a \in Customers THEN a ELSE a[1]

Message == (1..MaxSends) \X Customers

CustomerRow == [state: {"none", "active", "deleted", "erased"},
                email: Emails \cup {Null}]

SuppressionRow == [state: {"none", "live", "released"}, email: Addresses \cup {Null},
                   customer: Customers \cup {Null}]

MessageRow == [state: {"none", "inserted", "queued", "mailed"},
               customer: Customers \cup {Null}, to: Addresses \cup {Null}]

Request ==
  [op: {"idle"}] \cup
  [op: {"report"}, message: Message, to: Addresses,
   customer: Customers \cup {Null}] \cup
  [op: {"erase"}, at: {"read", "anonymised", "cleared"}, customer: Customers,
   rows: SUBSET Message, boxes: SUBSET Boxes]

Compose ==
  [at: {"idle", "customers", "flags", "loop", "enqueue"},
   override: BOOLEAN,
   left: SUBSET Customers,                \* customerIds not yet handled
   email: [Customers -> Emails \cup {Null}], \* customersById, as read
   flagged: SUBSET Customers,             \* suppressionFlags
   ok: SUBSET Customers,                  \* results
   barred: SUBSET Emails]                 \* history: stopped since it came

(***************************************************************************)
(* The one type invariant.                                                 *)
(***************************************************************************)
TypeOK ==
  /\ customer \in [Customers -> CustomerRow]
  /\ suppressed \in [Boxes -> SuppressionRow]
  /\ message \in [Message -> MessageRow]
  /\ \A c \in Customers : (customer[c].state = "none") = (customer[c].email = Null)
  /\ \A b \in Boxes : (suppressed[b].state = "none") = (suppressed[b].email = Null)
  /\ \A m \in Message : (message[m].state = "none") = (message[m].to = Null)
  /\ request \in [Requests -> Request]
  /\ page \in [chosen: SUBSET Customers, sends: 0..MaxSends]
  /\ compose \in Compose
  /\ failures \in 0..MaxSends /\ changes \in 0..MaxChanges
  /\ stopped \subseteq Emails
  /\ confirmed \subseteq Message /\ raced \subseteq Message

Idle == [op |-> "idle"]
NoCompose == [at |-> "idle", override |-> FALSE, left |-> {},
              email |-> [c \in Customers |-> Null],
              flagged |-> {}, ok |-> {}, barred |-> {}]

Init ==
  /\ customer = [c \in Customers |-> [state |-> "none", email |-> Null]]
  /\ suppressed = [b \in Boxes |-> [state |-> "none", email |-> Null,
                                    customer |-> Null]]
  /\ message = [m \in Message |->
                  [state |-> "none", customer |-> Null, to |-> Null]]
  /\ request = [q \in Requests |-> Idle]
  /\ page = [chosen |-> {}, sends |-> 0]
  /\ compose = NoCompose
  /\ failures = 0 /\ changes = 0
  /\ stopped = {} /\ confirmed = {} /\ raced = {}

Active(c) == customer[c].state = "active"

(* Customers the application finds by address, as citext compares.         *)
HoldersOf(e) ==
  {c \in Customers : Active(c) /\ Box(customer[c].email) = Box(e)}

Change == changes < MaxChanges /\ changes' = changes + 1

Hold(q, what) == request' = [request EXCEPT ![q] = what]

-----------------------------------------------------------------------------
(* Customers.  create and each row of an import look for the address and   *)
(* then insert; the unique index on active customers has the last word.    *)
Create(e) ==
  /\ Change
  /\ HoldersOf(e) = {}
  /\ \E c \in Customers :
       /\ customer[c].state = "none"
       /\ customer' = [customer EXCEPT ![c] = [state |-> "active", email |-> e]]
  /\ UNCHANGED <<suppressed, message, request, sending, stopped>>

SoftDelete(c) ==
  /\ Active(c) /\ Change
  /\ customer' = [customer EXCEPT ![c].state = "deleted"]
  /\ UNCHANGED <<suppressed, message, request, sending, stopped>>

(* erase: the customer is read, deleted or not; then, in a transaction,    *)
(* its messages are anonymised, its suppression loses the link, and the    *)
(* row is deleted.  What the first two statements changed stays locked.    *)

EraseRead(q, c) ==
  /\ request[q] = Idle /\ Change
  /\ customer[c].state \in {"active", "deleted"}
  /\ Hold(q, [op |-> "erase", at |-> "read", customer |-> c,
              rows |-> {}, boxes |-> {}])
  /\ UNCHANGED <<tables, sending, stopped>>

Locked(m) == \E q \in Requests : request[q].op = "erase" /\ m \in request[q].rows
LockedBox(b) == \E q \in Requests : request[q].op = "erase" /\ b \in request[q].boxes

Erasing(q, at) == request[q].op = "erase" /\ request[q].at = at

MessagesOf(c) == {m \in Message : message[m].state # "none" /\ message[m].customer = c}
BoxesOf(c) == {b \in Boxes : suppressed[b].state # "none" /\ suppressed[b].customer = c}

(* Mutant: the address becomes NULL.                                       *)
AnonymisedNull(row, c) == [row EXCEPT !.customer = Null, !.to = Null]

(* Mutant: only the link is cut.                                           *)
AnonymisedLink(row, c) == [row EXCEPT !.customer = Null]

Anonymised(row, c) == [row EXCEPT !.customer = Null, !.to = c]

Anonymise(q) ==
  /\ Erasing(q, "read")
  /\ LET rows == MessagesOf(request[q].customer)
     IN  /\ \A m \in rows : ~Locked(m)
         /\ Hold(q, [request[q] EXCEPT !.at = "anonymised", !.rows = rows])
  /\ UNCHANGED <<changes, tables, sending, stopped>>

ClearCustomerId(q) ==
  /\ Erasing(q, "anonymised")
  /\ LET boxes == BoxesOf(request[q].customer)
     IN  /\ \A b \in boxes : ~LockedBox(b)
         /\ Hold(q, [request[q] EXCEPT !.at = "cleared", !.boxes = boxes])
  /\ UNCHANGED <<changes, tables, sending, stopped>>

(* The foreign key of suppressions refuses the delete when an entry names  *)
(* the customer again; that of email_messages sets NULL.                   *)
HardDelete(q) ==
  /\ Erasing(q, "cleared")
  /\ LET c == request[q].customer
         r == request[q]
     IN  IF BoxesOf(c) \subseteq r.boxes
           THEN /\ customer' = [customer EXCEPT ![c].state = "erased"]
                /\ suppressed' =
                     [b \in Boxes |-> IF b \in r.boxes
                        THEN [suppressed[b] EXCEPT !.customer = Null]
                        ELSE suppressed[b]]
                /\ message' =
                     [m \in Message |->
                        CASE m \in r.rows -> Anonymised(message[m], c)
                          [] m \in MessagesOf(c) \ r.rows ->
                               [message[m] EXCEPT !.customer = Null]
                          [] OTHER -> message[m]]
           ELSE UNCHANGED tables
  /\ Hold(q, Idle)
  /\ UNCHANGED <<changes, sending, stopped>>

-----------------------------------------------------------------------------
(* The suppression list.                                                   *)

(* Mutant: a released entry is left as it is.                              *)
UpsertOnce(a, c) ==
  LET old == suppressed[Box(a)]
  IN  suppressed' = [suppressed EXCEPT ![Box(a)] =
        [state    |-> IF old.state = "none" THEN "live" ELSE old.state,
         email    |-> IF old.state = "none" THEN a ELSE old.email,
         customer |-> IF c = Null THEN old.customer ELSE c]]

(* On a conflict the entry keeps the spelling it was made with, and its    *)
(* customer if the new one is NULL; a released entry is revived.           *)
Upsert(a, c) ==
  LET old == suppressed[Box(a)]
  IN  suppressed' = [suppressed EXCEPT ![Box(a)] =
        [state    |-> "live",
         email    |-> IF old.state = "none" THEN a ELSE old.email,
         customer |-> IF c = Null THEN old.customer ELSE c]]

(* An admin enters an address, and the request may name a customer, who    *)
(* must be there.  An entry that became live since the check is written    *)
(* once more.                                                              *)
Suppress(e, c) ==
  /\ Change
  /\ suppressed[Box(e)].state # "live"
  /\ ~LockedBox(Box(e))
  /\ c # Null => customer[c].state \in {"active", "deleted"}
  /\ Upsert(e, c)
  /\ stopped' = stopped \cup {e}
  /\ UNCHANGED <<customer, message, request, sending>>

Release(b) ==
  /\ suppressed[b].state = "live" /\ Change
  /\ ~LockedBox(b)
  /\ suppressed' = [suppressed EXCEPT ![b].state = "released"]
  /\ stopped' = {e \in stopped : Box(e) # b}
  /\ compose' = [compose EXCEPT !.barred = {e \in @ : Box(e) # b}]
  /\ UNCHANGED <<customer, message, request, page, failures, confirmed, raced>>

(* The holder of a message unsubscribes, or it hard-bounces (module        *)
(* InboundSync): the message is read first, the transaction uses what was  *)
(* read, and the foreign key refuses a customer erased in between.         *)

ReportRead(q, m) ==
  /\ request[q] = Idle /\ Change
  /\ message[m].state = "mailed"
  /\ Hold(q, [op |-> "report", message |-> m, to |-> message[m].to,
              customer |-> message[m].customer])
  /\ UNCHANGED <<tables, sending, stopped>>

ReportCommit(q) ==
  LET r == request[q]
  IN  /\ r.op = "report"
      /\ ~Locked(r.message) /\ ~LockedBox(Box(r.to))
      /\ IF r.customer # Null /\ customer[r.customer].state = "erased"
           THEN UNCHANGED <<suppressed, stopped>>
           ELSE /\ Upsert(r.to, r.customer)
                /\ stopped' = stopped \cup ({r.to} \cap Emails)
      /\ Hold(q, Idle)
      /\ UNCHANGED <<changes, customer, message, sending>>

-----------------------------------------------------------------------------
(* The compose page and its request.                                       *)

Editing == compose.at = "idle"

AddCustomer(c) ==
  /\ Editing /\ Active(c) /\ c \notin page.chosen
  /\ page' = [page EXCEPT !.chosen = @ \cup {c}]
  /\ UNCHANGED <<tables, asking, compose, failures, confirmed, raced, stopped>>

RemoveCustomer(c) ==
  /\ Editing /\ c \in page.chosen
  /\ page' = [page EXCEPT !.chosen = @ \ {c}]
  /\ UNCHANGED <<tables, asking, compose, failures, confirmed, raced, stopped>>

(* Only an admin's override counts.                                        *)
HandleSend(override) ==
  /\ Editing /\ page.chosen # {} /\ page.sends < MaxSends
  /\ page' = [page EXCEPT !.sends = @ + 1]
  /\ compose' = [NoCompose EXCEPT
       !.at = "customers", !.left = page.chosen, !.override = override,
       !.barred = stopped]
  /\ UNCHANGED <<tables, asking, failures, confirmed, raced, stopped>>

(* The customers are read together, once, before the loop; then the flags  *)
(* of the addresses that were read.                                        *)
ReadCustomers ==
  /\ compose.at = "customers"
  /\ compose' = [compose EXCEPT
       !.at = "flags",
       !.email = [c \in Customers |->
          IF c \in compose.left /\ Active(c) THEN customer[c].email ELSE Null]]
  /\ UNCHANGED <<tables, asking, page, failures, confirmed, raced, stopped>>

(* getSuppressionFlags compares with ANY($1::text[]), that is as text: an  *)
(* entry under another spelling of the mailbox is not found.               *)
Flagged(e) ==
  suppressed[Box(e)].state = "live" /\ suppressed[Box(e)].email = e

ReadFlags ==
  /\ compose.at = "flags"
  /\ compose' = [compose EXCEPT
       !.at = "loop",
       !.flagged = {c \in compose.left :
          compose.email[c] # Null /\ Flagged(compose.email[c])}]
  /\ UNCHANGED <<tables, asking, page, failures, confirmed, raced, stopped>>

Skips(c) ==
  compose.email[c] = Null \/ (c \in compose.flagged /\ ~compose.override)

Skip(c) ==
  /\ compose.at = "loop" /\ c \in compose.left
  /\ Skips(c)
  /\ compose' = [compose EXCEPT !.left = @ \ {c}]
  /\ UNCHANGED <<tables, asking, page, failures, confirmed, raced, stopped>>

(* The request ends with an error; the page keeps all it had chosen.       *)
Fail ==
  /\ compose' = NoCompose
  /\ failures' = failures + 1

(* The message is for the customer as it was read.  A deleted customer is  *)
(* still there for the foreign key, an erased one is not.                  *)
CreateMessage(c) ==
  /\ compose.at = "loop" /\ c \in compose.left
  /\ ~Skips(c)
  /\ customer[c].state # "erased"
  /\ message' = [message EXCEPT ![<<page.sends, c>>] =
       [state |-> "inserted", customer |-> c, to |-> compose.email[c]]]
  /\ raced' = IF \E q \in Requests :
                   /\ request[q].op = "erase" /\ request[q].customer = c
                   /\ request[q].at # "read"
                THEN raced \cup {<<page.sends, c>>}
                ELSE raced
  /\ compose' = [compose EXCEPT !.at = "enqueue", !.left = @ \ {c}, !.ok = @ \cup {c}]
  /\ UNCHANGED <<customer, suppressed, asking, page, failures, confirmed, stopped>>

CreateMessageRefused(c) ==
  /\ compose.at = "loop" /\ c \in compose.left
  /\ ~Skips(c)
  /\ customer[c].state = "erased"
  /\ Fail
  /\ UNCHANGED <<tables, asking, page, confirmed, raced, stopped>>

EnqueueSend ==
  /\ compose.at = "enqueue"
  /\ message' = [m \in Message |->
       IF m[1] = page.sends /\ message[m].state = "inserted"
         THEN [message[m] EXCEPT !.state = "queued"] ELSE message[m]]
  /\ compose' = [compose EXCEPT !.at = "loop"]
  /\ UNCHANGED <<customer, suppressed, asking, page, failures, confirmed, raced,
                 stopped>>

(* Mutant: the page keeps the recipients that went well.                   *)
AnsweredNone == {}

(* The page drops the recipients that went well and keeps the others.      *)
Answered == compose.ok

Answer ==
  /\ compose.at = "loop" /\ compose.left = {}
  /\ page' = [page EXCEPT !.chosen = @ \ Answered]
  /\ confirmed' = confirmed \cup ({page.sends} \X Answered)
  /\ compose' = NoCompose
  /\ UNCHANGED <<tables, asking, failures, raced, stopped>>

(* A call fails, the process dies, or the answer does not arrive.          *)
ComposeFault ==
  /\ ~Editing
  /\ failures < MaxFaults
  /\ Fail
  /\ UNCHANGED <<tables, asking, page, confirmed, raced, stopped>>

(* The worker sends to the address the row has now (module SendPipeline).  *)
Mail(m) ==
  /\ message[m].state = "queued"
  /\ message' = [message EXCEPT ![m].state = "mailed"]
  /\ UNCHANGED <<customer, suppressed, asking, sending, stopped>>

-----------------------------------------------------------------------------
CustomerStep ==
  \/ \E e \in Emails : Create(e)
  \/ \E c \in Customers : SoftDelete(c)
  \/ \E q \in Requests, c \in Customers : EraseRead(q, c)
  \/ \E q \in Requests : Anonymise(q) \/ ClearCustomerId(q) \/ HardDelete(q)

SuppressionStep ==
  \/ \E e \in Emails, c \in Customers \cup {Null} : Suppress(e, c)
  \/ \E b \in Boxes : Release(b)
  \/ \E q \in Requests, m \in Message : ReportRead(q, m)
  \/ \E q \in Requests : ReportCommit(q)

ComposeStep ==
  \/ \E c \in Customers :
       \/ AddCustomer(c) \/ RemoveCustomer(c)
       \/ Skip(c) \/ CreateMessage(c) \/ CreateMessageRefused(c)
  \/ \E override \in BOOLEAN : HandleSend(override)
  \/ ReadCustomers \/ ReadFlags \/ EnqueueSend \/ Answer \/ ComposeFault
  \/ \E m \in Message : Mail(m)

Next == CustomerStep \/ SuppressionStep \/ ComposeStep

Spec == Init /\ [][Next]_vars

-----------------------------------------------------------------------------
Inserted(m) == message[m].state = "none" /\ message'[m].state # "none"

AsSpelled(e) == suppressed[Box(e)].email = e

(***************************************************************************)
(* compose writes to no address, without an admin's override, that was     *)
(* unsubscribed, bounced or suppressed before its request came and has not *)
(* been released since: not after the customer was deleted, erased or made *)
(* anew.  The address must be spelled as the entry spells it: docs/        *)
(* ERD.md:382-383 keeps it "suppressed even if the customer record is      *)
(* deleted/re-imported" however it is written, and the code does not.      *)
(***************************************************************************)
NoMailToStopped ==
  [][\A m \in Message : Inserted(m) /\ ~compose.override =>
       message'[m].to \notin {e \in compose.barred : AsSpelled(e)}]_vars

(***************************************************************************)
(* Nothing names an erased customer, and no message whose customer is gone *)
(* shows an address, but those that compose inserted after the erasure had *)
(* begun to anonymise.                                                     *)
(***************************************************************************)
ErasureIsComplete ==
  /\ \A m \in Message :
       /\ message[m].customer # Null => customer[message[m].customer].state # "erased"
       /\ message[m].to \in Emails /\ message[m].customer = Null => m \in raced
  /\ \A b \in Boxes :
       suppressed[b].customer # Null => customer[suppressed[b].customer].state # "erased"

(***************************************************************************)
(* Sending again after an error repeats the recipients that had gone well: *)
(* each failed request leaves at most one message to a customer that the   *)
(* page does not know of.                                                  *)
(***************************************************************************)
Unconfirmed(c) ==
  {m \in Message \ confirmed : m[2] = c /\ message[m].state # "none"}

CopiesBound ==
  \A c \in Customers :
    Cardinality(Unconfirmed(c)) <= failures + (IF Editing THEN 0 ELSE 1)
=============================================================================
