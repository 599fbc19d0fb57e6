---------------------------- MODULE ContactsProofs ----------------------------
(***************************************************************************)
(* The invariants of Contacts hold for any customers, mailboxes and        *)
(* spellings, and any number of requests that run at a time.               *)
(***************************************************************************)
EXTENDS Contacts, FiniteSetTheorems, TLAPS

-----------------------------------------------------------------------------
(* The inductive invariant.                                                *)

(* What a row that is not there holds, and what an erasure has in hand.    *)
RowsInv ==
  /\ \A m \in Message : message[m].state = "none" => message[m].customer = Null
  /\ \A b \in Boxes : suppressed[b].state = "none" => suppressed[b].customer = Null
  /\ \A q \in Requests : request[q].op = "erase" =>
       /\ customer[request[q].customer].state # "none"
       /\ \A m \in request[q].rows : message[m].state # "none"

(* The page counts the requests it sent; messages are of the requests that *)
(* were sent, and those of the running one are its results.                *)
SendsInv ==
  /\ failures + (IF Editing THEN 0 ELSE 1) <= page.sends
  /\ \A m \in Message : message[m].state # "none" => m[1] <= page.sends
  /\ ~Editing => \A c \in Customers :
       /\ message[<<page.sends, c>>].state # "none" => c \in compose.ok
       /\ c \in compose.left => message[<<page.sends, c>>].state = "none"

(* Copies the page does not know of, but for the running request's.        *)
Lost(c) == {m \in Unconfirmed(c) : Editing \/ m[1] # page.sends}

CopiesInv == \A c \in Customers : Cardinality(Lost(c)) <= failures

(* An address that must not be written to has a live entry, and the loop   *)
(* has it flagged.                                                         *)
StoppedInv ==
  /\ \A e \in stopped : suppressed[Box(e)].state = "live"
  /\ compose.barred \subseteq stopped
  /\ compose.at \in {"loop", "enqueue"} =>
       \A c \in compose.left :
         compose.email[c] \in compose.barred /\ AsSpelled(compose.email[c])
           => c \in compose.flagged

(* An erasure that has anonymised knows every message of its customer, but *)
(* those inserted since.                                                   *)
ErasingInv ==
  \A q \in Requests :
    request[q].op = "erase" /\ request[q].at # "read" =>
      \A m \in MessagesOf(request[q].customer) : m \in request[q].rows \cup raced

Inv ==
  /\ TypeOK
  /\ RowsInv
  /\ SendsInv
  /\ CopiesInv
  /\ StoppedInv
  /\ ErasingInv
  /\ ErasureIsComplete

-----------------------------------------------------------------------------
(* Addresses, requests and types.                                          *)

LEMMA BoxType ==
  /\ \A a \in Addresses : Box(a) \in Boxes /\ a # Null
  /\ \A e \in Emails : e \in Addresses /\ e \notin Customers /\ e # Null
  /\ \A c \in Customers : c \in Addresses /\ c \in Boxes /\ c \notin Emails /\ c # Null
<1> USE ContactsAssumption
<1>1. \A e \in Emails : e \in Addresses /\ e \notin Customers /\ e # Null /\ e[1] \in Mailboxes
  BY DEF Addresses, Emails
<1>2. \A c \in Customers : c \in Addresses /\ c \in Boxes /\ c \notin Emails /\ c # Null
  BY DEF Addresses, Boxes
<1> QED  BY <1>1, <1>2 DEF Box, Boxes, Addresses

LEMMA RequestFacts ==
  ASSUME NEW r \in Request
  PROVE  /\ r.op \in {"idle", "report", "erase"}
         /\ r.op = "report" => /\ r.message \in Message /\ r.to \in Addresses
                               /\ r.customer \in Customers \cup {Null}
         /\ r.op = "erase" => /\ r.at \in {"read", "anonymised", "cleared"}
                              /\ r.customer \in Customers
                              /\ r.rows \subseteq Message /\ r.boxes \subseteq Boxes
                              /\ r = [op |-> "erase", at |-> r.at, customer |-> r.customer,
                                      rows |-> r.rows, boxes |-> r.boxes]
  BY DEF Request

LEMMA EraseType ==
  ASSUME NEW a \in {"read", "anonymised", "cleared"}, NEW c \in Customers,
         NEW rs \in SUBSET Message, NEW bs \in SUBSET Boxes
  PROVE  [op |-> "erase", at |-> a, customer |-> c, rows |-> rs, boxes |-> bs] \in Request
  BY DEF Request

LEMMA HoldingType ==
  ASSUME NEW r \in Request, r.op = "erase", NEW rs \in SUBSET Message, NEW bs \in SUBSET Boxes
  PROVE  /\ [r EXCEPT !.at = "anonymised", !.rows = rs] \in Request
         /\ [r EXCEPT !.at = "cleared", !.boxes = bs] \in Request
<1> DEFINE Erase == [op: {"erase"}, at: {"read", "anonymised", "cleared"}, customer: Customers,
                     rows: SUBSET Message, boxes: SUBSET Boxes]
<1>1. r \in Erase
  BY DEF Request
<1>2. [r EXCEPT !.at = "anonymised", !.rows = rs] \in Erase
  BY <1>1
<1>3. [r EXCEPT !.at = "cleared", !.boxes = bs] \in Erase
  BY <1>1
<1> QED  BY <1>2, <1>3 DEF Request

LEMMA IdleType == Idle \in Request
  BY DEF Idle, Request

LEMMA ReportType ==
  ASSUME NEW m \in Message, NEW a \in Addresses, NEW c \in Customers \cup {Null}
  PROVE  [op |-> "report", message |-> m, to |-> a, customer |-> c] \in Request
  BY DEF Request

LEMMA HoldType ==
  ASSUME TypeOK, NEW q \in Requests, NEW r \in Request, Hold(q, r)
  PROVE  request' \in [Requests -> Request]
  BY DEF TypeOK, Hold

LEMMA UpsertType ==
  ASSUME TypeOK, RowsInv, NEW a \in Addresses, NEW c \in Customers \cup {Null}, Upsert(a, c)
  PROVE  /\ suppressed' \in [Boxes -> SuppressionRow]
         /\ \A b \in Boxes : (suppressed'[b].state = "none") = (suppressed'[b].email = Null)
         /\ \A b \in Boxes : suppressed'[b].state = "none" => suppressed'[b].customer = Null
         /\ \A b \in Boxes : suppressed[b].state # "none" => suppressed'[b].email = suppressed[b].email
         /\ \A b \in Boxes : suppressed[b].state = "live" => suppressed'[b].state = "live"
         /\ suppressed'[Box(a)].state = "live"
         /\ \A b \in Boxes : suppressed'[b].customer # suppressed[b].customer
                               => suppressed'[b].customer = c
<1> DEFINE old == suppressed[Box(a)]
           new == [state    |-> "live",
                   email    |-> IF old.state = "none" THEN a ELSE old.email,
                   customer |-> IF c = Null THEN old.customer ELSE c]
<1>1. Box(a) \in Boxes /\ a # Null
  BY BoxType
<1>2. suppressed' = [suppressed EXCEPT ![Box(a)] = new]
  BY DEF Upsert
<1>3. old \in SuppressionRow /\ (old.state = "none") = (old.email = Null)
  BY <1>1 DEF TypeOK
<1>4. new \in SuppressionRow /\ new.email # Null /\ new.state = "live"
      /\ (old.state # "none" => new.email = old.email)
      /\ (new.customer # old.customer => new.customer = c)
  BY <1>1, <1>3 DEF SuppressionRow
<1>5. suppressed'[Box(a)] = new /\ \A b \in Boxes : b # Box(a) => suppressed'[b] = suppressed[b]
  BY <1>1, <1>2 DEF TypeOK
<1> HIDE DEF new
<1>6. suppressed' \in [Boxes -> SuppressionRow]
  BY <1>1, <1>2, <1>4 DEF TypeOK
<1> QED  BY <1>1, <1>4, <1>5, <1>6 DEF TypeOK, RowsInv

ComposeOK(p) ==
  /\ p.at \in {"idle", "customers", "flags", "loop", "enqueue"}
  /\ p.override \in BOOLEAN
  /\ p.left \subseteq Customers
  /\ p.email \in [Customers -> Emails \cup {Null}]
  /\ p.flagged \subseteq Customers
  /\ p.ok \subseteq Customers
  /\ p.barred \subseteq Emails

LEMMA ComposeFacts ==
  ASSUME NEW p \in Compose PROVE ComposeOK(p)
  BY DEF Compose, ComposeOK

LEMMA NoComposeType == NoCompose \in Compose
  BY DEF NoCompose, Compose

(* The message of the running request is one of Message.                   *)
LEMMA SendsType ==
  ASSUME TypeOK, SendsInv
  PROVE  /\ page.sends \in Nat /\ page.sends <= MaxSends /\ failures \in Nat
         /\ page.chosen \subseteq Customers
         /\ ~Editing => \A c \in Customers : <<page.sends, c>> \in Message
<1> USE ContactsAssumption
<1>1. page.sends \in Nat /\ page.sends <= MaxSends /\ failures \in Nat /\ page.chosen \subseteq Customers
  BY DEF TypeOK
<1>2. ~Editing => page.sends \in 1..MaxSends
  BY <1>1 DEF SendsInv
<1> QED  BY <1>1, <1>2 DEF Message

LEMMA FailuresType ==
  ASSUME TypeOK, SendsInv, Fail, ~Editing
  PROVE  failures' \in 0..MaxSends /\ compose' \in Compose
<1> USE ContactsAssumption
<1>1. failures' = failures + 1 /\ compose' = NoCompose
  BY DEF Fail
<1>2. failures + 1 <= page.sends
  BY SendsType DEF SendsInv
<1> QED  BY <1>1, <1>2, SendsType, NoComposeType

LEMMA ConfirmedType ==
  ASSUME TypeOK, SendsInv, ~Editing
  PROVE  {page.sends} \X compose.ok \subseteq Message
<1>1. compose.ok \subseteq Customers
  BY ComposeFacts DEF TypeOK, ComposeOK
<1>2. page.sends \in 1..MaxSends
  BY SendsType, ContactsAssumption DEF SendsInv
<1> QED  BY <1>1, <1>2 DEF Message

MessagesOK(ms) ==
  /\ ms \in [Message -> MessageRow]
  /\ \A m \in Message : (ms[m].state = "none") = (ms[m].to = Null)

LEMMA MessageStateType ==
  ASSUME TypeOK, NEW S \in SUBSET Message, NEW st \in {"queued", "mailed"},
         \A m \in S : message[m].state # "none",
         message' = [m \in Message |-> IF m \in S THEN [message[m] EXCEPT !.state = st] ELSE message[m]]
  PROVE  MessagesOK(message')
  BY DEF TypeOK, MessagesOK, MessageRow

LEMMA ErasedType ==
  ASSUME TypeOK, RowsInv, NEW q \in Requests, HardDelete(q)
  PROVE  /\ customer' \in [Customers -> CustomerRow]
         /\ \A c \in Customers : (customer'[c].state = "none") = (customer'[c].email = Null)
         /\ suppressed' \in [Boxes -> SuppressionRow]
         /\ \A b \in Boxes : /\ suppressed'[b].state = suppressed[b].state
                             /\ suppressed'[b].email = suppressed[b].email
                             /\ suppressed'[b].customer \in {suppressed[b].customer, Null}
         /\ MessagesOK(message')
         /\ \A m \in Message : /\ message'[m].state = message[m].state
                               /\ message'[m].customer \in {message[m].customer, Null}
<1> USE ContactsAssumption
<1> DEFINE r == request[q]
           c == r.customer
<1>0. /\ r.op = "erase" /\ c \in Customers /\ r.rows \subseteq Message /\ r.boxes \subseteq Boxes
      /\ customer[c].state # "none" /\ \A m \in r.rows : message[m].state # "none"
  BY RequestFacts DEF HardDelete, Erasing, TypeOK, RowsInv
<1>1. CASE UNCHANGED tables
  BY <1>1 DEF tables, TypeOK, MessagesOK
<1>2. CASE /\ customer' = [customer EXCEPT ![c].state = "erased"]
           /\ suppressed' = [b \in Boxes |-> IF b \in r.boxes
                               THEN [suppressed[b] EXCEPT !.customer = Null] ELSE suppressed[b]]
           /\ message' = [m \in Message |->
                CASE m \in r.rows -> Anonymised(message[m], c)
                  [] m \in MessagesOf(c) \ r.rows -> [message[m] EXCEPT !.customer = Null]
                  [] OTHER -> message[m]]
  <2>1. /\ customer' \in [Customers -> CustomerRow]
        /\ \A d \in Customers : (customer'[d].state = "none") = (customer'[d].email = Null)
    BY <1>0, <1>2 DEF TypeOK, CustomerRow
  <2>2. /\ suppressed' \in [Boxes -> SuppressionRow]
        /\ \A b \in Boxes : /\ suppressed'[b].state = suppressed[b].state
                            /\ suppressed'[b].email = suppressed[b].email
                            /\ suppressed'[b].customer \in {suppressed[b].customer, Null}
    BY <1>2 DEF TypeOK, SuppressionRow
  <2>3. ASSUME NEW m \in Message
        PROVE  /\ message'[m] \in MessageRow
               /\ (message'[m].state = "none") = (message'[m].to = Null)
               /\ message'[m].state = message[m].state
               /\ message'[m].customer \in {message[m].customer, Null}
    <3>0. message[m] \in MessageRow /\ (message[m].state = "none") = (message[m].to = Null)
      BY DEF TypeOK
    <3>1. CASE m \in r.rows
      <4>1. message'[m] = [message[m] EXCEPT !.customer = Null, !.to = c]
        BY <1>2, <3>1 DEF Anonymised
      <4> QED  BY <1>0, <3>0, <3>1, <4>1, BoxType DEF MessageRow
    <3>2. CASE m \in MessagesOf(c) \ r.rows
      <4>1. message'[m] = [message[m] EXCEPT !.customer = Null]
        BY <1>2, <3>2
      <4> QED  BY <3>0, <4>1 DEF MessageRow
    <3>3. CASE m \notin r.rows /\ m \notin MessagesOf(c)
      <4>1. message'[m] = message[m]
        BY <1>2, <3>3
      <4> QED  BY <3>0, <4>1
    <3> QED  BY <3>1, <3>2, <3>3
  <2>4. message' \in [Message -> MessageRow]
    <3>1. DOMAIN message' = Message /\ message' = [m \in Message |-> message'[m]]
      BY <1>2
    <3> QED  BY <2>3, <3>1
  <2> QED  BY <2>1, <2>2, <2>3, <2>4 DEF MessagesOK
<1> QED  BY <1>1, <1>2 DEF HardDelete

LEMMA TypeStep ==
  ASSUME TypeOK, RowsInv, SendsInv, [Next]_vars PROVE TypeOK'
<1> USE ContactsAssumption
<1>a. \A q \in Requests : request[q] \in Request
  BY DEF TypeOK
<1>b. compose \in Compose /\ ComposeOK(compose)
  BY ComposeFacts DEF TypeOK
<1>s. /\ page.sends \in Nat /\ page.sends <= MaxSends /\ failures \in Nat
      /\ page.chosen \subseteq Customers
      /\ ~Editing => \A c \in Customers : <<page.sends, c>> \in Message
  BY SendsType
<1>c. ASSUME Change PROVE changes' \in 0..MaxChanges
  BY <1>c DEF Change, TypeOK
<1>u. ASSUME UNCHANGED tables, request' \in [Requests -> Request], changes' \in 0..MaxChanges,
             UNCHANGED sending, stopped' \subseteq Emails
      PROVE  TypeOK'
  BY <1>u DEF TypeOK, tables, sending
<1>w. ASSUME UNCHANGED <<customer, suppressed, asking, stopped>>, MessagesOK(message'),
             page' \in [chosen: SUBSET Customers, sends: 0..MaxSends],
             compose' \in Compose, failures' \in 0..MaxSends,
             confirmed' \subseteq Message, raced' \subseteq Message
      PROVE  TypeOK'
  BY <1>w DEF TypeOK, asking, MessagesOK
<1>m. MessagesOK(message)
  BY DEF TypeOK, MessagesOK
<1>x. ASSUME UNCHANGED <<tables, asking, page, failures, confirmed, raced, stopped>>,
             compose' \in Compose
      PROVE  TypeOK'
  BY <1>x DEF TypeOK, tables, asking
<1>1. ASSUME NEW e \in Emails, Create(e) PROVE TypeOK'
  <2>1. PICK c \in Customers :
          customer' = [customer EXCEPT ![c] = [state |-> "active", email |-> e]]
    BY <1>1 DEF Create
  <2>2. /\ customer' \in [Customers -> CustomerRow]
        /\ \A d \in Customers : (customer'[d].state = "none") = (customer'[d].email = Null)
    BY <2>1, BoxType DEF TypeOK, CustomerRow
  <2> QED  BY <1>1, <1>c, <2>2 DEF Create, TypeOK, sending
<1>2. ASSUME NEW c \in Customers, SoftDelete(c) PROVE TypeOK'
  <2>1. customer' = [customer EXCEPT ![c].state = "deleted"] /\ customer[c].state = "active"
    BY <1>2 DEF SoftDelete, Active
  <2>2. /\ customer' \in [Customers -> CustomerRow]
        /\ \A d \in Customers : (customer'[d].state = "none") = (customer'[d].email = Null)
    BY <2>1 DEF TypeOK, CustomerRow
  <2> QED  BY <1>2, <1>c, <2>2 DEF SoftDelete, TypeOK, sending
<1>3. ASSUME NEW q \in Requests, NEW c \in Customers, EraseRead(q, c) PROVE TypeOK'
  <2>1. request' \in [Requests -> Request]
    BY <1>3, EraseType, HoldType DEF EraseRead
  <2> QED  BY <1>3, <1>c, <1>u, <2>1 DEF EraseRead, TypeOK
<1>4. ASSUME NEW q \in Requests, Anonymise(q) PROVE TypeOK'
  <2> DEFINE r == request[q]
             rs == MessagesOf(r.customer)
             n == [r EXCEPT !.at = "anonymised", !.rows = rs]
  <2>1. r.op = "erase" /\ Hold(q, n) /\ rs \in SUBSET Message
    BY <1>4 DEF Anonymise, Erasing, MessagesOf
  <2> HIDE DEF rs
  <2>3. n \in Request
    BY <1>a, <2>1, HoldingType
  <2> HIDE DEF n
  <2>4. request' \in [Requests -> Request]
    BY <2>1, <2>3, HoldType
  <2> QED  BY <1>4, <1>u, <2>4 DEF Anonymise, TypeOK
<1>5. ASSUME NEW q \in Requests, ClearCustomerId(q) PROVE TypeOK'
  <2> DEFINE r == request[q]
             bs == BoxesOf(r.customer)
             n == [r EXCEPT !.at = "cleared", !.boxes = bs]
  <2>1. r.op = "erase" /\ Hold(q, n) /\ bs \in SUBSET Boxes
    BY <1>5 DEF ClearCustomerId, Erasing, BoxesOf
  <2> HIDE DEF bs
  <2>3. n \in Request
    BY <1>a, <2>1, HoldingType
  <2> HIDE DEF n
  <2>4. request' \in [Requests -> Request]
    BY <2>1, <2>3, HoldType
  <2> QED  BY <1>5, <1>u, <2>4 DEF ClearCustomerId, TypeOK
<1>6. ASSUME NEW q \in Requests, HardDelete(q) PROVE TypeOK'
  <2>1. Hold(q, Idle) /\ UNCHANGED <<changes, sending, stopped>>
    BY <1>6 DEF HardDelete
  <2>2. request' \in [Requests -> Request]
    BY <2>1, HoldType, IdleType
  <2>3. \A b \in Boxes : (suppressed'[b].state = "none") = (suppressed'[b].email = Null)
    BY <1>6, ErasedType DEF TypeOK
  <2> QED  BY <1>6, <2>1, <2>2, <2>3, ErasedType DEF TypeOK, MessagesOK, sending
<1>7. ASSUME NEW e \in Emails, NEW c \in Customers \cup {Null}, Suppress(e, c) PROVE TypeOK'
  <2>1. /\ suppressed' \in [Boxes -> SuppressionRow]
        /\ \A b \in Boxes : (suppressed'[b].state = "none") = (suppressed'[b].email = Null)
    BY <1>7, UpsertType, BoxType DEF Suppress
  <2> QED  BY <1>7, <1>c, <2>1 DEF Suppress, TypeOK, sending
<1>8. ASSUME NEW b \in Boxes, Release(b) PROVE TypeOK'
  <2>1. suppressed' = [suppressed EXCEPT ![b].state = "released"] /\ suppressed[b].state = "live"
    BY <1>8 DEF Release
  <2>2. /\ suppressed' \in [Boxes -> SuppressionRow]
        /\ \A x \in Boxes : (suppressed'[x].state = "none") = (suppressed'[x].email = Null)
    BY <2>1 DEF TypeOK, SuppressionRow
  <2>3. compose' \in Compose
    BY <1>8, <1>b DEF Release, Compose, ComposeOK
  <2>4. stopped' \subseteq Emails
    BY <1>8 DEF Release, TypeOK
  <2> QED  BY <1>8, <1>c, <2>2, <2>3, <2>4 DEF Release, TypeOK
<1>9. ASSUME NEW q \in Requests, NEW m \in Message, ReportRead(q, m) PROVE TypeOK'
  <2> DEFINE n == [op |-> "report", message |-> m, to |-> message[m].to,
                   customer |-> message[m].customer]
  <2>1. message[m].to \in Addresses /\ message[m].customer \in Customers \cup {Null}
    BY <1>9 DEF ReportRead, TypeOK, MessageRow
  <2>2. n \in Request
    BY <2>1, ReportType
  <2>3. Hold(q, n)
    BY <1>9 DEF ReportRead
  <2> HIDE DEF n
  <2>4. request' \in [Requests -> Request]
    BY <2>2, <2>3, HoldType
  <2> QED  BY <1>9, <1>c, <1>u, <2>4 DEF ReportRead, TypeOK
<1>10. ASSUME NEW q \in Requests, ReportCommit(q) PROVE TypeOK'
  <2> DEFINE r == request[q]
  <2>1. r.to \in Addresses /\ r.customer \in Customers \cup {Null}
    BY <1>10, <1>a, RequestFacts DEF ReportCommit
  <2>2. Hold(q, Idle) /\ UNCHANGED <<changes, customer, message, sending>>
    BY <1>10 DEF ReportCommit
  <2>3. request' \in [Requests -> Request]
    BY <2>2, HoldType, IdleType
  <2>4. \/ UNCHANGED <<suppressed, stopped>>
        \/ Upsert(r.to, r.customer) /\ stopped' = stopped \cup ({r.to} \cap Emails)
    BY <1>10 DEF ReportCommit
  <2>5. /\ suppressed' \in [Boxes -> SuppressionRow]
        /\ \A b \in Boxes : (suppressed'[b].state = "none") = (suppressed'[b].email = Null)
        /\ stopped' \subseteq Emails
    BY <2>1, <2>4, UpsertType DEF TypeOK
  <2> QED  BY <2>2, <2>3, <2>5 DEF TypeOK, sending
<1>11. ASSUME NEW c \in Customers, AddCustomer(c) \/ RemoveCustomer(c) PROVE TypeOK'
  <2>1. page' \in [chosen: SUBSET Customers, sends: 0..MaxSends]
    BY <1>11, <1>s DEF AddCustomer, RemoveCustomer, TypeOK
  <2> QED  BY <1>11, <1>w, <1>m, <2>1 DEF AddCustomer, RemoveCustomer, TypeOK, tables
<1>12. ASSUME NEW v \in BOOLEAN, HandleSend(v) PROVE TypeOK'
  <2>1. page' \in [chosen: SUBSET Customers, sends: 0..MaxSends]
    BY <1>12, <1>s DEF HandleSend, TypeOK
  <2>2. compose' \in Compose
    BY <1>12, <1>s DEF HandleSend, NoCompose, Compose, TypeOK
  <2> QED  BY <1>12, <1>w, <1>m, <2>1, <2>2 DEF HandleSend, TypeOK, tables
<1>13. ASSUME ReadCustomers PROVE TypeOK'
  <2>1. [c \in Customers |-> IF c \in compose.left /\ Active(c) THEN customer[c].email ELSE Null]
          \in [Customers -> Emails \cup {Null}]
    BY DEF TypeOK, CustomerRow
  <2>2. compose' \in Compose
    BY <1>13, <1>b, <2>1 DEF ReadCustomers, Compose, ComposeOK
  <2> QED  BY <1>13, <1>x, <2>2 DEF ReadCustomers
<1>14. ASSUME ReadFlags PROVE TypeOK'
  <2>1. {c \in compose.left : compose.email[c] # Null /\ Flagged(compose.email[c])} \subseteq Customers
    BY <1>b DEF ComposeOK
  <2>2. compose' \in Compose
    BY <1>14, <1>b, <2>1 DEF ReadFlags, Compose, ComposeOK
  <2> QED  BY <1>14, <1>x, <2>2 DEF ReadFlags
<1>15. ASSUME NEW c \in Customers, Skip(c) PROVE TypeOK'
  <2>1. compose' \in Compose
    BY <1>15, <1>b DEF Skip, Compose, ComposeOK
  <2> QED  BY <1>15, <1>x, <2>1 DEF Skip
<1>16. ASSUME NEW c \in Customers, CreateMessage(c) PROVE TypeOK'
  <2> DEFINE k == <<page.sends, c>>
             n == [state |-> "inserted", customer |-> c, to |-> compose.email[c]]
  <2>1. k \in Message
    BY <1>16, <1>s DEF CreateMessage, Editing
  <2>2. n \in MessageRow /\ n.to # Null /\ n.state = "inserted"
    BY <1>16, <1>b, BoxType DEF CreateMessage, Skips, ComposeOK, MessageRow, Addresses
  <2>3. message' = [message EXCEPT ![k] = n]
    BY <1>16 DEF CreateMessage
  <2> HIDE DEF k, n
  <2>4. MessagesOK(message')
    BY <2>1, <2>2, <2>3, <1>m DEF MessagesOK
  <2>5. raced' \subseteq Message
    BY <1>16, <2>1 DEF CreateMessage, TypeOK, k
  <2>6. compose' \in Compose
    BY <1>16, <1>b DEF CreateMessage, Compose, ComposeOK
  <2> QED  BY <1>16, <1>w, <2>4, <2>5, <2>6 DEF CreateMessage, TypeOK
<1>17. ASSUME NEW c \in Customers, CreateMessageRefused(c) PROVE TypeOK'
  <2>1. failures' \in 0..MaxSends /\ compose' \in Compose
    BY <1>17, FailuresType DEF CreateMessageRefused, Editing
  <2> QED  BY <1>17, <1>w, <1>m, <2>1 DEF CreateMessageRefused, TypeOK, tables
<1>18. ASSUME EnqueueSend PROVE TypeOK'
  <2>1. MessagesOK(message')
    <3> DEFINE S == {m \in Message : m[1] = page.sends /\ message[m].state = "inserted"}
    <3>1. message' = [m \in Message |->
                        IF m \in S THEN [message[m] EXCEPT !.state = "queued"] ELSE message[m]]
      BY <1>18 DEF EnqueueSend
    <3> QED  BY <3>1, MessageStateType
  <2>2. compose' \in Compose
    BY <1>18, <1>b DEF EnqueueSend, Compose, ComposeOK
  <2> QED  BY <1>18, <1>w, <2>1, <2>2 DEF EnqueueSend, TypeOK
<1>19. ASSUME Answer PROVE TypeOK'
  <2>1. page' \in [chosen: SUBSET Customers, sends: 0..MaxSends]
    BY <1>19, <1>s DEF Answer, TypeOK
  <2>2. confirmed' \subseteq Message /\ compose' \in Compose
    BY <1>19, ConfirmedType, NoComposeType DEF Answer, Answered, Editing, TypeOK
  <2> QED  BY <1>19, <1>w, <1>m, <2>1, <2>2 DEF Answer, TypeOK, tables
<1>20. ASSUME ComposeFault PROVE TypeOK'
  <2>1. failures' \in 0..MaxSends /\ compose' \in Compose
    BY <1>20, FailuresType DEF ComposeFault
  <2> QED  BY <1>20, <1>w, <1>m, <2>1 DEF ComposeFault, TypeOK, tables
<1>21. ASSUME NEW m \in Message, Mail(m) PROVE TypeOK'
  <2>1. MessagesOK(message')
    BY <1>21, <1>m DEF Mail, MessagesOK, MessageRow
  <2> QED  BY <1>21, <2>1 DEF Mail, TypeOK, MessagesOK, asking, sending
<1>22. ASSUME UNCHANGED vars PROVE TypeOK'
  BY <1>22 DEF vars, tables, asking, sending, TypeOK
<1> QED
  BY <1>1, <1>2, <1>3, <1>4, <1>5, <1>6, <1>7, <1>8, <1>9, <1>10, <1>11, <1>12, <1>13,
     <1>14, <1>15, <1>16, <1>17, <1>18, <1>19, <1>20, <1>21, <1>22
     DEF Next, CustomerStep, SuppressionStep, ComposeStep

-----------------------------------------------------------------------------
(* What a step may do to messages and customers.                           *)

(* Messages come from CreateMessage and are never taken back.              *)
MessagesStay ==
  \A m \in Message : /\ (message'[m].state = "none") = (message[m].state = "none")
                     /\ message'[m].customer \in {message[m].customer, Null}

LEMMA MessagesStep ==
  ASSUME TypeOK, RowsInv, [Next]_vars, ~(\E c \in Customers : CreateMessage(c))
  PROVE  MessagesStay
<1>1. ASSUME NEW q \in Requests, HardDelete(q) PROVE MessagesStay
  BY <1>1, ErasedType DEF MessagesStay
<1>2. CASE EnqueueSend
  <2>1. message' = [m \in Message |->
          IF m[1] = page.sends /\ message[m].state = "inserted"
          THEN [message[m] EXCEPT !.state = "queued"] ELSE message[m]]
    BY <1>2 DEF EnqueueSend
  <2> QED  BY <2>1 DEF MessagesStay, TypeOK, MessageRow
<1>3. ASSUME NEW m \in Message, Mail(m) PROVE MessagesStay
  BY <1>3 DEF Mail, MessagesStay, TypeOK, MessageRow
<1>4. CASE UNCHANGED message
  BY <1>4 DEF MessagesStay
<1> QED
  BY <1>1, <1>2, <1>3, <1>4
     DEF Next, CustomerStep, SuppressionStep, ComposeStep, vars, tables, Create, SoftDelete,
         EraseRead, Anonymise, ClearCustomerId, Suppress, Release, ReportRead, ReportCommit,
         AddCustomer, RemoveCustomer, HandleSend, ReadCustomers, ReadFlags, Skip,
         CreateMessageRefused, Answer, ComposeFault

LEMMA CreatedFacts ==
  ASSUME TypeOK, SendsInv, NEW c \in Customers, CreateMessage(c)
  PROVE  /\ <<page.sends, c>> \in Message
         /\ message'[<<page.sends, c>>].state = "inserted"
         /\ message'[<<page.sends, c>>].customer = c
         /\ message'[<<page.sends, c>>].to = compose.email[c]
         /\ \A m \in Message : m # <<page.sends, c>> => message'[m] = message[m]
         /\ ~Editing /\ compose.at = "loop" /\ c \in compose.left
         /\ compose'.left = compose.left \ {c} /\ compose'.ok = compose.ok \cup {c}
         /\ compose'.at = "enqueue" /\ compose'.email = compose.email
         /\ compose'.barred = compose.barred /\ compose'.flagged = compose.flagged
         /\ UNCHANGED <<customer, suppressed, asking, page, failures, confirmed, stopped>>
<1>1. ~Editing /\ compose.at = "loop" /\ c \in compose.left
  BY DEF CreateMessage, Editing
<1>2. <<page.sends, c>> \in Message
  BY <1>1, SendsType
<1>3. compose' = [compose EXCEPT !.at = "enqueue", !.left = @ \ {c}, !.ok = @ \cup {c}]
  BY DEF CreateMessage
<1>4. /\ compose'.left = compose.left \ {c} /\ compose'.ok = compose.ok \cup {c}
      /\ compose'.at = "enqueue" /\ compose'.email = compose.email
      /\ compose'.barred = compose.barred /\ compose'.flagged = compose.flagged
  BY <1>3 DEF TypeOK, Compose
<1>5. message' = [message EXCEPT ![<<page.sends, c>>] =
                    [state |-> "inserted", customer |-> c, to |-> compose.email[c]]]
  BY DEF CreateMessage
<1>6. UNCHANGED <<customer, suppressed, asking, page, failures, confirmed, stopped>>
  BY DEF CreateMessage
<1>7. message'[<<page.sends, c>>] = [state |-> "inserted", customer |-> c, to |-> compose.email[c]]
  BY <1>2, <1>5 DEF TypeOK
<1>8. /\ message'[<<page.sends, c>>].state = "inserted"
      /\ message'[<<page.sends, c>>].customer = c
      /\ message'[<<page.sends, c>>].to = compose.email[c]
  BY <1>7
<1>9. \A m \in Message : m # <<page.sends, c>> => message'[m] = message[m]
  BY <1>2, <1>5 DEF TypeOK
<1> QED  BY <1>1, <1>2, <1>4, <1>6, <1>8, <1>9

(* A customer comes into being once, and one that was erased stays erased. *)
CustomersStay ==
  \A c \in Customers : /\ customer[c].state # "none" => customer'[c].state # "none"
                       /\ customer[c].state = "erased" => customer'[c].state = "erased"

LEMMA CustomersStep ==
  ASSUME TypeOK, RowsInv, [Next]_vars PROVE CustomersStay
<1>1. ASSUME NEW e \in Emails, Create(e) PROVE CustomersStay
  BY <1>1 DEF Create, CustomersStay, TypeOK
<1>2. ASSUME NEW c \in Customers, SoftDelete(c) PROVE CustomersStay
  BY <1>2 DEF SoftDelete, Active, CustomersStay, TypeOK, CustomerRow
<1>3. ASSUME NEW q \in Requests, HardDelete(q) PROVE CustomersStay
  BY <1>3 DEF HardDelete, tables, CustomersStay, TypeOK, CustomerRow
<1>4. CASE UNCHANGED customer
  BY <1>4 DEF CustomersStay
<1> QED
  BY <1>1, <1>2, <1>3, <1>4
     DEF Next, CustomerStep, SuppressionStep, ComposeStep, vars, tables,
         EraseRead, Anonymise, ClearCustomerId, Suppress, Release, ReportRead, ReportCommit,
         AddCustomer, RemoveCustomer, HandleSend, ReadCustomers, ReadFlags, Skip, CreateMessage,
         CreateMessageRefused, EnqueueSend, Answer, ComposeFault, Mail

(* An entry of the suppression list keeps its spelling.                    *)
EntriesStay ==
  \A b \in Boxes : suppressed[b].state # "none" =>
    suppressed'[b].state # "none" /\ suppressed'[b].email = suppressed[b].email

EntriesOK ==
  /\ EntriesStay
  /\ \A b \in Boxes : suppressed'[b].state = "none" => suppressed'[b].customer = Null

LEMMA EntriesStep ==
  ASSUME TypeOK, RowsInv, [Next]_vars PROVE EntriesOK
<1>1. ASSUME NEW e \in Emails, NEW c \in Customers \cup {Null}, Suppress(e, c) PROVE EntriesOK
  <2>1. Upsert(e, c) /\ e \in Addresses
    BY <1>1, BoxType DEF Suppress
  <2>2. \A b \in Boxes : suppressed[b].state # "none" => suppressed'[b].state # "none"
    BY <2>1, UpsertType DEF Upsert, TypeOK
  <2> QED  BY <2>1, <2>2, UpsertType DEF EntriesOK, EntriesStay
<1>2. ASSUME NEW b \in Boxes, Release(b) PROVE EntriesOK
  BY <1>2 DEF Release, EntriesOK, EntriesStay, TypeOK, SuppressionRow, RowsInv
<1>3. ASSUME NEW q \in Requests, ReportCommit(q) PROVE EntriesOK
  <2> DEFINE r == request[q]
  <2>1. r.to \in Addresses /\ r.customer \in Customers \cup {Null}
    BY <1>3, RequestFacts DEF ReportCommit, TypeOK
  <2>2. CASE UNCHANGED suppressed
    BY <2>2 DEF EntriesOK, EntriesStay, RowsInv
  <2>3. CASE Upsert(r.to, r.customer)
    <3>1. \A b \in Boxes : suppressed[b].state # "none" => suppressed'[b].state # "none"
      BY <2>3 DEF Upsert, TypeOK
    <3> QED  BY <2>1, <2>3, <3>1, UpsertType DEF EntriesOK, EntriesStay
  <2> QED  BY <1>3, <2>2, <2>3 DEF ReportCommit
<1>4. ASSUME NEW q \in Requests, HardDelete(q) PROVE EntriesOK
  BY <1>4, ErasedType DEF EntriesOK, EntriesStay, RowsInv
<1>5. CASE UNCHANGED suppressed
  BY <1>5 DEF EntriesOK, EntriesStay, RowsInv
<1> QED
  BY <1>1, <1>2, <1>3, <1>4, <1>5
     DEF Next, CustomerStep, SuppressionStep, ComposeStep, vars, tables, Create, SoftDelete,
         EraseRead, Anonymise, ClearCustomerId, ReportRead,
         AddCustomer, RemoveCustomer, HandleSend, ReadCustomers, ReadFlags, Skip, CreateMessage,
         CreateMessageRefused, EnqueueSend, Answer, ComposeFault, Mail

-----------------------------------------------------------------------------
(* Rows and erasures.                                                      *)

(* A request that goes on holds what it held, or begins.                   *)
RequestsOK ==
  \A q \in Requests :
    request'[q].op = "erase" =>
      \/ /\ request[q].op = "erase" /\ request'[q].customer = request[q].customer
         /\ \/ request'[q].rows = request[q].rows /\ (request[q].at = "read" => request'[q].at = "read")
            \/ /\ request'[q].rows = MessagesOf(request[q].customer)
               /\ UNCHANGED <<message, raced>>
      \/ /\ request'[q].rows = {} /\ request'[q].at = "read"
         /\ customer[request'[q].customer].state # "none"

LEMMA RequestsStep ==
  ASSUME TypeOK, [Next]_vars PROVE RequestsOK
<1>a. \A q \in Requests : request[q] \in Request
  BY DEF TypeOK
<1>i. ASSUME NEW q \in Requests, Hold(q, Idle) PROVE RequestsOK
  BY <1>i DEF Hold, Idle, RequestsOK, TypeOK
<1>1. ASSUME NEW q \in Requests, NEW c \in Customers, EraseRead(q, c) PROVE RequestsOK
  BY <1>1 DEF EraseRead, Hold, RequestsOK, TypeOK
<1>2. ASSUME NEW q \in Requests, Anonymise(q) PROVE RequestsOK
  <2> DEFINE r == request[q]
             n == [r EXCEPT !.at = "anonymised", !.rows = MessagesOf(r.customer)]
  <2>1. r.op = "erase" /\ request' = [request EXCEPT ![q] = n] /\ UNCHANGED <<message, raced>>
    BY <1>2 DEF Anonymise, Erasing, Hold, tables, sending
  <2>2. n.customer = r.customer /\ n.rows = MessagesOf(r.customer)
    BY <1>a, <2>1, RequestFacts
  <2> HIDE DEF n
  <2> QED  BY <2>1, <2>2 DEF RequestsOK, TypeOK
<1>3. ASSUME NEW q \in Requests, ClearCustomerId(q) PROVE RequestsOK
  <2> DEFINE r == request[q]
             n == [r EXCEPT !.at = "cleared", !.boxes = BoxesOf(r.customer)]
  <2>1. r.op = "erase" /\ r.at = "anonymised" /\ request' = [request EXCEPT ![q] = n]
    BY <1>3 DEF ClearCustomerId, Erasing, Hold
  <2>2. n.customer = r.customer /\ n.rows = r.rows
    BY <1>a, <2>1, RequestFacts
  <2> HIDE DEF n
  <2> QED  BY <2>1, <2>2 DEF RequestsOK, TypeOK
<1>4. ASSUME NEW q \in Requests, NEW m \in Message, ReportRead(q, m) PROVE RequestsOK
  BY <1>4 DEF ReportRead, Hold, RequestsOK, TypeOK
<1>5. ASSUME NEW q \in Requests, HardDelete(q) \/ ReportCommit(q) PROVE RequestsOK
  BY <1>5, <1>i DEF HardDelete, ReportCommit
<1>6. CASE UNCHANGED request
  BY <1>6 DEF RequestsOK
<1> QED
  BY <1>1, <1>2, <1>3, <1>4, <1>5, <1>6
     DEF Next, CustomerStep, SuppressionStep, ComposeStep, vars, asking, Create, SoftDelete,
         Suppress, Release, AddCustomer, RemoveCustomer, HandleSend, ReadCustomers, ReadFlags,
         Skip, CreateMessage, CreateMessageRefused, EnqueueSend, Answer, ComposeFault, Mail

LEMMA RowsStep ==
  ASSUME TypeOK, TypeOK', RowsInv, SendsInv, [Next]_vars PROVE RowsInv'
<1>a. \A q \in Requests : request[q] \in Request /\ request'[q] \in Request
  BY DEF TypeOK
<1>m. \A m \in Message : message[m].state # "none" => message'[m].state # "none"
  <2>1. CASE \E c \in Customers : CreateMessage(c)
    <3>1. PICK c \in Customers : CreateMessage(c)
      BY <2>1
    <3>2. /\ message'[<<page.sends, c>>].state = "inserted"
          /\ \A m \in Message : m # <<page.sends, c>> => message'[m] = message[m]
      BY <3>1, CreatedFacts
    <3> QED  BY <3>2
  <2>2. CASE ~(\E c \in Customers : CreateMessage(c))
    BY <2>2, MessagesStep DEF MessagesStay
  <2> QED  BY <2>1, <2>2
<1>1. \A m \in Message : message'[m].state = "none" => message'[m].customer = Null
  <2>1. CASE \E c \in Customers : CreateMessage(c)
    <3>1. PICK c \in Customers : CreateMessage(c)
      BY <2>1
    <3>2. /\ message'[<<page.sends, c>>].state = "inserted"
          /\ \A m \in Message : m # <<page.sends, c>> => message'[m] = message[m]
      BY <3>1, CreatedFacts
    <3> QED  BY <3>2 DEF RowsInv
  <2>2. CASE ~(\E c \in Customers : CreateMessage(c))
    BY <2>2, MessagesStep DEF MessagesStay, RowsInv
  <2> QED  BY <2>1, <2>2
<1>2. \A b \in Boxes : suppressed'[b].state = "none" => suppressed'[b].customer = Null
  BY EntriesStep DEF EntriesOK
<1>3. ASSUME NEW q \in Requests, request'[q].op = "erase"
      PROVE  /\ customer'[request'[q].customer].state # "none"
             /\ \A m \in request'[q].rows : message'[m].state # "none"
  <2>0. request'[q].customer \in Customers /\ request'[q].rows \subseteq Message
    BY <1>a, <1>3, RequestFacts
  <2>1. CASE /\ request[q].op = "erase" /\ request'[q].customer = request[q].customer
             /\ \/ request'[q].rows = request[q].rows
                \/ request'[q].rows = MessagesOf(request[q].customer)
    <3>1. \A m \in request'[q].rows : message[m].state # "none"
      BY <2>1 DEF RowsInv, MessagesOf
    <3>2. customer[request'[q].customer].state # "none"
      BY <2>1 DEF RowsInv
    <3> QED  BY <1>m, <2>0, <3>1, <3>2, CustomersStep DEF CustomersStay
  <2>2. CASE request'[q].rows = {} /\ customer[request'[q].customer].state # "none"
    BY <2>0, <2>2, CustomersStep DEF CustomersStay
  <2> QED  BY <1>3, <2>1, <2>2, RequestsStep DEF RequestsOK
<1> QED  BY <1>1, <1>2, <1>3 DEF RowsInv

LEMMA ErasingStep ==
  ASSUME TypeOK, TypeOK', RowsInv, SendsInv, ErasingInv, [Next]_vars PROVE ErasingInv'
<1>a. \A q \in Requests : request[q] \in Request /\ request'[q] \in Request
  BY DEF TypeOK
<1>r. raced \subseteq raced'
  BY DEF Next, CustomerStep, SuppressionStep, ComposeStep, vars, sending, Create, SoftDelete,
         EraseRead, Anonymise, ClearCustomerId, HardDelete, ReportRead, ReportCommit,
         Suppress, Release, AddCustomer, RemoveCustomer, HandleSend, ReadCustomers, ReadFlags,
         Skip, CreateMessage, CreateMessageRefused, EnqueueSend, Answer, ComposeFault, Mail
<1>1. ASSUME NEW q \in Requests, request'[q].op = "erase", request'[q].at # "read",
             NEW m \in Message, message'[m].state # "none",
             message'[m].customer = request'[q].customer
      PROVE  m \in request'[q].rows \cup raced'
  <2>0. request'[q].customer \in Customers /\ request'[q].customer # Null
    BY <1>a, <1>1, RequestFacts, BoxType
  <2>1. /\ request[q].op = "erase" /\ request'[q].customer = request[q].customer
        /\ \/ request'[q].rows = request[q].rows /\ request[q].at # "read"
           \/ /\ request'[q].rows = MessagesOf(request[q].customer)
              /\ UNCHANGED <<message, raced>>
    BY <1>1, RequestsStep DEF RequestsOK
  <2>2. CASE /\ request'[q].rows = MessagesOf(request[q].customer)
             /\ UNCHANGED <<message, raced>>
    BY <1>1, <2>1, <2>2 DEF MessagesOf
  <2>3. CASE request'[q].rows = request[q].rows /\ request[q].at # "read"
    <3>1. CASE message[m].state # "none" /\ message[m].customer = request[q].customer
      BY <1>r, <2>1, <2>3, <3>1 DEF ErasingInv, MessagesOf
    <3>2. CASE \E c \in Customers : CreateMessage(c)
      <4>1. PICK c \in Customers : CreateMessage(c)
        BY <3>2
      <4>2. CASE m = <<page.sends, c>>
        <5>0. message'[m].customer = c
          BY <4>1, <4>2, CreatedFacts
        <5>1. request[q].customer = c
          BY <1>1, <2>1, <5>0
        <5>2. raced' = raced \cup {<<page.sends, c>>}
          BY <2>1, <2>3, <4>1, <5>1 DEF CreateMessage
        <5> QED  BY <4>2, <5>2
      <4>3. CASE m # <<page.sends, c>>
        <5>1. message'[m] = message[m]
          BY <4>1, <4>3, CreatedFacts
        <5> QED  BY <1>1, <2>1, <3>1, <5>1
      <4> QED  BY <4>2, <4>3
    <3>3. CASE ~(\E c \in Customers : CreateMessage(c))
      <4>1. message[m].state # "none" /\ message[m].customer = message'[m].customer
        BY <1>1, <2>0, <3>3, MessagesStep DEF MessagesStay
      <4> QED  BY <1>1, <2>1, <3>1, <4>1
    <3> QED  BY <3>2, <3>3
  <2> QED  BY <2>1, <2>2, <2>3
<1> QED  BY <1>1 DEF ErasingInv, MessagesOf

-----------------------------------------------------------------------------
(* The requests of the compose page.                                       *)

(* A step within a request, or beside it.                                  *)
Stays ==
  /\ (compose'.at = "idle") <=> (compose.at = "idle")
  /\ compose'.left \subseteq compose.left /\ compose'.ok = compose.ok
  /\ page'.sends = page.sends /\ failures' = failures /\ confirmed' = confirmed

Failed ==
  /\ compose.at # "idle" /\ compose'.at = "idle"
  /\ failures' = failures + 1
  /\ page' = page /\ confirmed' = confirmed

LEMMA ComposeSteps ==
  ASSUME TypeOK, [Next]_vars
  PROVE  \/ Stays
         \/ \E v \in BOOLEAN : HandleSend(v)
         \/ \E c \in Customers : CreateMessage(c)
         \/ Failed
         \/ Answer
<1>1. CASE UNCHANGED <<compose, failures, confirmed>> /\ page'.sends = page.sends
  BY <1>1 DEF Stays
<1>2. ASSUME NEW b \in Boxes, Release(b) PROVE Stays
  BY <1>2 DEF Release, Stays, TypeOK, Compose
<1>3. ASSUME NEW c \in Customers, AddCustomer(c) \/ RemoveCustomer(c)
      PROVE  UNCHANGED <<compose, failures, confirmed>> /\ page'.sends = page.sends
  BY <1>3 DEF AddCustomer, RemoveCustomer, TypeOK
<1>4. CASE ReadCustomers
  BY <1>4 DEF ReadCustomers, Stays, TypeOK, Compose
<1>5. CASE ReadFlags
  BY <1>5 DEF ReadFlags, Stays, TypeOK, Compose
<1>6. CASE EnqueueSend
  BY <1>6 DEF EnqueueSend, Stays, TypeOK, Compose
<1>7. ASSUME NEW c \in Customers, Skip(c) PROVE Stays
  BY <1>7 DEF Skip, Stays, TypeOK, Compose
<1>8. ASSUME NEW c \in Customers, CreateMessageRefused(c) PROVE Failed
  BY <1>8 DEF CreateMessageRefused, Fail, NoCompose, Failed
<1>9. CASE ComposeFault
  BY <1>9 DEF ComposeFault, Fail, NoCompose, Failed, Editing
<1> QED
  BY <1>1, <1>2, <1>3, <1>4, <1>5, <1>6, <1>7, <1>8, <1>9
     DEF Next, CustomerStep, SuppressionStep, ComposeStep, vars, sending, Create, SoftDelete,
         EraseRead, Anonymise, ClearCustomerId, HardDelete, ReportRead, ReportCommit,
         Suppress, Mail

LEMMA HandleSendFacts ==
  ASSUME TypeOK, NEW v \in BOOLEAN, HandleSend(v)
  PROVE  /\ compose.at = "idle" /\ page.sends < MaxSends /\ page'.sends = page.sends + 1
         /\ compose'.at = "customers" /\ compose'.ok = {} /\ compose'.barred = stopped
         /\ UNCHANGED <<message, failures, confirmed, suppressed, stopped>>
<1>1. compose' = [NoCompose EXCEPT !.at = "customers", !.left = page.chosen,
                                   !.override = v, !.barred = stopped]
  BY DEF HandleSend
<1>2. compose'.at = "customers" /\ compose'.ok = {} /\ compose'.barred = stopped
  BY <1>1 DEF NoCompose
<1>3. page'.sends = page.sends + 1
  BY DEF HandleSend, TypeOK
<1> QED  BY <1>2, <1>3 DEF HandleSend, Editing, tables

LEMMA AnswerFacts ==
  ASSUME Answer
  PROVE  /\ compose.at = "loop" /\ compose.left = {} /\ compose'.at = "idle"
         /\ confirmed' = confirmed \cup ({page.sends} \X compose.ok)
         /\ UNCHANGED <<message, failures>>
  BY DEF Answer, Answered, NoCompose, tables

(* What SendsInv says of a request that runs.                              *)
LEMMA RunningFacts ==
  ASSUME TypeOK, SendsInv
  PROVE  /\ page.sends \in Nat /\ page.sends <= MaxSends /\ failures \in Nat
         /\ failures <= page.sends
         /\ compose.at # "idle" => failures + 1 <= page.sends
         /\ \A m \in Message : m[1] \in Nat /\ (message[m].state # "none" => m[1] <= page.sends)
<1>1. page.sends \in Nat /\ page.sends <= MaxSends /\ failures \in Nat
  BY SendsType
<1>2. \A m \in Message : m[1] \in Nat /\ (message[m].state # "none" => m[1] <= page.sends)
  BY ContactsAssumption DEF SendsInv, Message
<1>3. CASE Editing
  BY <1>1, <1>2, <1>3 DEF SendsInv, Editing
<1>4. CASE ~Editing
  BY <1>1, <1>2, <1>4 DEF SendsInv, Editing
<1> QED  BY <1>3, <1>4

LEMMA SendsStep ==
  ASSUME TypeOK, TypeOK', RowsInv, SendsInv, [Next]_vars PROVE SendsInv'
<1>a. /\ page.sends \in Nat /\ failures \in Nat /\ failures <= page.sends
      /\ compose.at # "idle" => failures + 1 <= page.sends
      /\ \A m \in Message : m[1] \in Nat /\ (message[m].state # "none" => m[1] <= page.sends)
  BY RunningFacts
<1>t. page'.sends \in Nat /\ failures' \in Nat
  BY ContactsAssumption DEF TypeOK
<1>c. compose.at # "idle" => \A c \in Customers :
        /\ <<page.sends, c>> \in Message
        /\ message[<<page.sends, c>>].state # "none" => c \in compose.ok
        /\ c \in compose.left => message[<<page.sends, c>>].state = "none"
  BY SendsType DEF SendsInv, Editing
<1>q. ASSUME failures' + (IF compose'.at = "idle" THEN 0 ELSE 1) <= page'.sends,
             \A m \in Message : message'[m].state # "none" => m[1] <= page'.sends,
             compose'.at # "idle" => \A c \in Customers :
               /\ message'[<<page'.sends, c>>].state # "none" => c \in compose'.ok
               /\ c \in compose'.left => message'[<<page'.sends, c>>].state = "none"
      PROVE  SendsInv'
  BY <1>q DEF SendsInv, Editing
<1>1. CASE \E c \in Customers : CreateMessage(c)
  <2>1. PICK c \in Customers : CreateMessage(c)
    BY <1>1
  <2>2. /\ compose.at # "idle" /\ compose'.at = "enqueue"
        /\ compose'.left = compose.left \ {c} /\ compose'.ok = compose.ok \cup {c}
        /\ page' = page /\ failures' = failures
        /\ \A m \in Message : m # <<page.sends, c>> => message'[m] = message[m]
    BY <2>1, CreatedFacts DEF Editing
  <2>3. failures' + (IF compose'.at = "idle" THEN 0 ELSE 1) <= page'.sends
    BY <1>a, <2>2
  <2>4. \A m \in Message : message'[m].state # "none" => m[1] <= page'.sends
    <3>1. ASSUME NEW m \in Message, message'[m].state # "none" PROVE m[1] <= page.sends
      <4>1. CASE m = <<page.sends, c>>
        BY <1>a, <4>1
      <4>2. CASE m # <<page.sends, c>>
        BY <1>a, <2>2, <3>1, <4>2
      <4> QED  BY <4>1, <4>2
    <3> QED  BY <2>2, <3>1
  <2>5. \A d \in Customers :
          /\ message'[<<page'.sends, d>>].state # "none" => d \in compose'.ok
          /\ d \in compose'.left => message'[<<page'.sends, d>>].state = "none"
    <3>1. \A d \in Customers : d # c => message'[<<page.sends, d>>] = message[<<page.sends, d>>]
      BY <1>c, <2>2
    <3> QED  BY <1>c, <2>2, <3>1
  <2> QED  BY <1>q, <2>3, <2>4, <2>5
<1>2. CASE ~(\E c \in Customers : CreateMessage(c))
  <2>s. \A m \in Message : (message'[m].state = "none") <=> (message[m].state = "none")
    BY <1>2, MessagesStep DEF MessagesStay
  <2>1. CASE Stays
    <3>1. failures' + (IF compose'.at = "idle" THEN 0 ELSE 1) <= page'.sends
      BY <1>a, <2>1 DEF Stays
    <3>2. \A m \in Message : message'[m].state # "none" => m[1] <= page'.sends
      BY <1>a, <2>s, <2>1 DEF Stays
    <3>3. compose'.at # "idle" => \A c \in Customers :
            /\ message'[<<page'.sends, c>>].state # "none" => c \in compose'.ok
            /\ c \in compose'.left => message'[<<page'.sends, c>>].state = "none"
      BY <1>c, <2>s, <2>1 DEF Stays
    <3> QED  BY <1>q, <3>1, <3>2, <3>3
  <2>2. ASSUME NEW v \in BOOLEAN, HandleSend(v) PROVE SendsInv'
    <3>1. /\ page'.sends = page.sends + 1 /\ failures' = failures /\ message' = message
          /\ page.sends < MaxSends /\ compose'.at = "customers"
      BY <2>2, HandleSendFacts
    <3>2. failures' + (IF compose'.at = "idle" THEN 0 ELSE 1) <= page'.sends
      BY <1>a, <3>1
    <3>3. \A m \in Message : message'[m].state # "none" => m[1] <= page'.sends
      BY <1>a, <3>1
    <3>4. ASSUME NEW c \in Customers PROVE message'[<<page'.sends, c>>].state = "none"
      <4> DEFINE k == <<page.sends + 1, c>>
      <4>1. k \in Message
        BY <1>a, <3>1, ContactsAssumption DEF Message
      <4>2. k[1] = page.sends + 1
        OBVIOUS
      <4> HIDE DEF k
      <4>3. message[k].state = "none"
        BY <1>a, <4>1, <4>2
      <4> QED  BY <3>1, <4>3 DEF k
    <3> QED  BY <1>q, <3>2, <3>3, <3>4
  <2>3. CASE Failed
    <3>1. failures' + (IF compose'.at = "idle" THEN 0 ELSE 1) <= page'.sends
      BY <1>a, <2>3 DEF Failed
    <3>2. \A m \in Message : message'[m].state # "none" => m[1] <= page'.sends
      BY <1>a, <2>s, <2>3 DEF Failed
    <3> QED  BY <1>q, <2>3, <3>1, <3>2 DEF Failed
  <2>4. CASE Answer
    <3>1. compose'.at = "idle" /\ failures' = failures /\ message' = message
      BY <2>4, AnswerFacts
    <3>2. page'.sends = page.sends
      BY <2>4 DEF Answer, TypeOK
    <3>3. failures' + (IF compose'.at = "idle" THEN 0 ELSE 1) <= page'.sends
      BY <1>a, <3>1, <3>2
    <3>4. \A m \in Message : message'[m].state # "none" => m[1] <= page'.sends
      BY <1>a, <3>1, <3>2
    <3> QED  BY <1>q, <3>1, <3>3, <3>4
  <2> QED  BY <1>2, <2>1, <2>2, <2>3, <2>4, ComposeSteps
<1> QED  BY <1>1, <1>2
LEMMA LostFinite ==
  ASSUME TypeOK, NEW c \in Customers
  PROVE  /\ IsFiniteSet(Lost(c)) /\ Cardinality(Lost(c)) \in Nat
         /\ \A S \in SUBSET Lost(c) : Cardinality(S) <= Cardinality(Lost(c))
                                       /\ Cardinality(S) \in Nat
<1>1. IsFiniteSet(1..MaxSends)
  BY ContactsAssumption, FS_Interval
<1>2. IsFiniteSet(Message)
  BY <1>1, ContactsAssumption, FS_Product DEF Message
<1>3. Lost(c) \in SUBSET Message
  BY DEF Lost, Unconfirmed
<1>4. IsFiniteSet(Lost(c))
  BY <1>2, <1>3, FS_Subset
<1>5. ASSUME NEW S \in SUBSET Lost(c)
      PROVE  Cardinality(S) <= Cardinality(Lost(c)) /\ Cardinality(S) \in Nat
  BY <1>4, FS_Subset, FS_CardinalityType
<1> QED  BY <1>4, <1>5, FS_CardinalityType

(* One more message adds one at most.                                      *)
LEMMA OneMore ==
  ASSUME TypeOK, NEW c \in Customers, NEW x, NEW S \in SUBSET (Lost(c) \cup {x})
  PROVE  Cardinality(S) <= Cardinality(Lost(c)) + 1 /\ Cardinality(S) \in Nat
<1> DEFINE L == Lost(c)
<1>1. IsFiniteSet(L) /\ Cardinality(L) \in Nat
  BY LostFinite
<1> HIDE DEF L
<1>2. IsFiniteSet(L \cup {x}) /\ Cardinality(L \cup {x}) <= Cardinality(L) + 1
  BY <1>1, FS_AddElement
<1>3. Cardinality(L \cup {x}) \in Nat
  BY <1>2, FS_CardinalityType
<1>4. S \in SUBSET (L \cup {x})
  BY DEF L
<1>5. Cardinality(S) <= Cardinality(L \cup {x}) /\ Cardinality(S) \in Nat
  BY <1>2, <1>4, FS_Subset, FS_CardinalityType
<1>6. Cardinality(S) <= Cardinality(L) + 1 /\ Cardinality(S) \in Nat
  BY <1>1, <1>2, <1>3, <1>5
<1> QED  BY <1>6 DEF L

LEMMA CopiesStep ==
  ASSUME TypeOK, TypeOK', RowsInv, SendsInv, CopiesInv, [Next]_vars PROVE CopiesInv'
<1>a. /\ page.sends \in Nat /\ failures \in Nat
      /\ \A m \in Message : m[1] \in Nat /\ (message[m].state # "none" => m[1] <= page.sends)
  BY RunningFacts
<1>b. \A c \in Customers : Cardinality(Lost(c)) <= failures /\ Cardinality(Lost(c)) \in Nat
  BY LostFinite DEF CopiesInv
<1>c. compose.at # "idle" => \A c \in Customers :
        /\ <<page.sends, c>> \in Message
        /\ message[<<page.sends, c>>].state # "none" => c \in compose.ok
  BY SendsType DEF SendsInv, Editing
<1>l. \A c \in Customers : \A m :
        m \in Lost(c)' <=> /\ m \in Message /\ m \notin confirmed' /\ m[2] = c
                           /\ message'[m].state # "none"
                           /\ (compose'.at = "idle" \/ m[1] # page'.sends)
  BY DEF Lost, Unconfirmed, Editing
<1>k. \A c \in Customers : \A m :
        m \in Lost(c) <=> /\ m \in Message /\ m \notin confirmed /\ m[2] = c
                          /\ message[m].state # "none"
                          /\ (compose.at = "idle" \/ m[1] # page.sends)
  BY DEF Lost, Unconfirmed, Editing
<1>q. ASSUME failures' = failures, \A c \in Customers : Lost(c)' \subseteq Lost(c)
      PROVE  CopiesInv'
  <2>1. ASSUME NEW c \in Customers PROVE Cardinality(Lost(c)') <= failures'
    <3> DEFINE S == Lost(c)'
    <3>1. S \in SUBSET Lost(c)
      BY <1>q
    <3> HIDE DEF S
    <3>2. Cardinality(S) <= Cardinality(Lost(c)) /\ Cardinality(S) \in Nat
      BY <3>1, LostFinite
    <3>3. Cardinality(S) <= failures
      BY <1>a, <1>b, <3>2
    <3> QED  BY <1>q, <3>3 DEF S
  <2> QED  BY <2>1 DEF CopiesInv
<1>1. CASE \E c \in Customers : CreateMessage(c)
  <2>1. PICK c \in Customers : CreateMessage(c)
    BY <1>1
  <2>2. /\ compose.at # "idle" /\ compose'.at = "enqueue"
        /\ page' = page /\ failures' = failures /\ confirmed' = confirmed
        /\ \A m \in Message : m # <<page.sends, c>> => message'[m] = message[m]
    BY <2>1, CreatedFacts DEF Editing
  <2>3. \A d \in Customers : Lost(d)' \subseteq Lost(d)
    <3>1. ASSUME NEW d \in Customers, NEW m, m \in Lost(d)' PROVE m \in Lost(d)
      <4>1. m \in Message /\ m[1] # page.sends /\ m \notin confirmed /\ m[2] = d
            /\ message'[m].state # "none"
        BY <1>l, <2>2, <3>1
      <4>2. message'[m] = message[m]
        BY <2>2, <4>1
      <4> QED  BY <1>k, <4>1, <4>2
    <3> QED  BY <3>1
  <2> QED  BY <1>q, <2>2, <2>3
<1>2. CASE ~(\E c \in Customers : CreateMessage(c))
  <2>s. \A m \in Message : (message'[m].state = "none") <=> (message[m].state = "none")
    BY <1>2, MessagesStep DEF MessagesStay
  <2>1. CASE Stays
    <3>1. \A c \in Customers : Lost(c)' \subseteq Lost(c)
      BY <1>l, <1>k, <2>s, <2>1 DEF Stays
    <3> QED  BY <1>q, <2>1, <3>1 DEF Stays
  <2>2. ASSUME NEW v \in BOOLEAN, HandleSend(v) PROVE CopiesInv'
    <3>1. compose.at = "idle" /\ failures' = failures /\ confirmed' = confirmed
      BY <2>2, HandleSendFacts
    <3>2. \A c \in Customers : Lost(c)' \subseteq Lost(c)
      BY <1>l, <1>k, <2>s, <3>1
    <3> QED  BY <1>q, <3>1, <3>2
  <2>3. CASE Failed
    <3>1. /\ compose.at # "idle" /\ failures' = failures + 1 /\ confirmed' = confirmed
          /\ compose'.at = "idle"
      BY <2>3 DEF Failed
    <3>2. ASSUME NEW c \in Customers PROVE Cardinality(Lost(c)') <= failures'
      <4> DEFINE S == Lost(c)'
                 k == <<page.sends, c>>
      <4>1. ASSUME NEW m, m \in S PROVE m \in Lost(c) \/ m = k
        <5>1. /\ m \in Message /\ m \notin confirmed /\ m[2] = c
              /\ message[m].state # "none"
          BY <1>l, <2>s, <3>1, <4>1
        <5>2. CASE m[1] = page.sends
          <6>1. m = <<m[1], m[2]>>
            BY <5>1 DEF Message
          <6> QED  BY <5>1, <5>2, <6>1
        <5>3. CASE m[1] # page.sends
          BY <1>k, <5>1, <5>3
        <5> QED  BY <5>2, <5>3
      <4>2. S \in SUBSET (Lost(c) \cup {k})
        BY <4>1
      <4> HIDE DEF S, k
      <4>3. Cardinality(S) <= Cardinality(Lost(c)) + 1 /\ Cardinality(S) \in Nat
        BY <4>2, OneMore
      <4>4. Cardinality(S) <= failures + 1
        BY <1>a, <1>b, <4>3
      <4> QED  BY <3>1, <4>4 DEF S
    <3> QED  BY <3>2 DEF CopiesInv
  <2>4. CASE Answer
    <3>1. /\ compose.at # "idle" /\ failures' = failures
          /\ confirmed' = confirmed \cup ({page.sends} \X compose.ok)
      BY <2>4, AnswerFacts
    <3>2. \A c \in Customers : Lost(c)' \subseteq Lost(c)
      <4>1. ASSUME NEW c \in Customers, NEW m, m \in Lost(c)' PROVE m \in Lost(c)
        <5>1. /\ m \in Message /\ m \notin confirmed' /\ m[2] = c
              /\ message[m].state # "none"
          BY <1>l, <2>s, <4>1
        <5>2. m[1] # page.sends
          <6>1. m = <<m[1], m[2]>>
            BY <5>1 DEF Message
          <6>2. ASSUME m[1] = page.sends PROVE FALSE
            <7>1. m = <<page.sends, c>>
              BY <5>1, <6>1, <6>2
            <7>2. c \in compose.ok
              BY <1>c, <3>1, <5>1, <7>1
            <7> QED  BY <3>1, <5>1, <7>1, <7>2
          <6> QED  BY <6>2
        <5> QED  BY <1>k, <3>1, <5>1, <5>2
      <4> QED  BY <4>1
    <3> QED  BY <1>q, <3>1, <3>2
  <2> QED  BY <1>2, <2>1, <2>2, <2>3, <2>4, ComposeSteps
<1> QED  BY <1>1, <1>2

LEMMA CopiesAreFew ==
  ASSUME TypeOK, SendsInv, CopiesInv PROVE CopiesBound
<1>a. failures \in Nat
  BY RunningFacts
<1>1. ASSUME NEW c \in Customers
      PROVE  Cardinality(Unconfirmed(c)) <= failures + (IF Editing THEN 0 ELSE 1)
  <2>0. Cardinality(Lost(c)) <= failures /\ Cardinality(Lost(c)) \in Nat
    BY <1>1, LostFinite DEF CopiesInv
  <2>1. CASE Editing
    <3>1. Unconfirmed(c) = Lost(c)
      BY <2>1 DEF Lost
    <3> QED  BY <1>a, <2>0, <2>1, <3>1
  <2>2. CASE ~Editing
    <3> DEFINE S == Unconfirmed(c)
               k == <<page.sends, c>>
    <3>1. ASSUME NEW m, m \in S PROVE m \in Lost(c) \/ m = k
      <4>1. m \in Message /\ m[2] = c
        BY <3>1 DEF Unconfirmed
      <4>2. m = <<m[1], m[2]>>
        BY <4>1 DEF Message
      <4> QED  BY <3>1, <4>1, <4>2 DEF Lost
    <3>2. S \in SUBSET (Lost(c) \cup {k})
      BY <3>1
    <3> HIDE DEF S, k
    <3>3. Cardinality(S) <= Cardinality(Lost(c)) + 1 /\ Cardinality(S) \in Nat
      BY <3>2, OneMore
    <3>4. Cardinality(S) <= failures + 1
      BY <1>a, <2>0, <3>3
    <3> QED  BY <2>2, <3>4 DEF S
  <2> QED  BY <2>1, <2>2
<1> QED  BY <1>1 DEF CopiesBound
-----------------------------------------------------------------------------
(* Addresses that must not be written to.                                  *)

LEMMA StoppedStep ==
  ASSUME TypeOK, TypeOK', RowsInv, SendsInv, StoppedInv, [Next]_vars PROVE StoppedInv'
<1>e. EntriesOK
  BY EntriesStep
<1>b. \A e \in stopped : Box(e) \in Boxes
  BY BoxType DEF TypeOK
<1>w. ASSUME UNCHANGED <<suppressed, stopped>>, compose'.barred \subseteq compose.barred,
             compose'.at \in {"loop", "enqueue"} =>
               /\ compose.at \in {"loop", "enqueue"} /\ compose'.left \subseteq compose.left
               /\ compose'.email = compose.email /\ compose'.flagged = compose.flagged
      PROVE  StoppedInv'
  BY <1>w DEF StoppedInv, AsSpelled
<1>v. ASSUME UNCHANGED compose, stopped \subseteq stopped',
             \A e \in stopped' : suppressed'[Box(e)].state = "live"
      PROVE  StoppedInv'
  <2>1. \A e \in compose.barred : suppressed'[Box(e)].email = suppressed[Box(e)].email
    BY <1>b, <1>e DEF EntriesOK, EntriesStay, StoppedInv
  <2> QED  BY <1>v, <2>1 DEF StoppedInv, AsSpelled
<1>1. ASSUME NEW e \in Emails, NEW c \in Customers \cup {Null}, Suppress(e, c) PROVE StoppedInv'
  <2>1. Upsert(e, c) /\ stopped' = stopped \cup {e} /\ e \in Addresses
    BY <1>1, BoxType DEF Suppress
  <2>2. \A x \in stopped' : suppressed'[Box(x)].state = "live"
    BY <1>b, <2>1, UpsertType DEF StoppedInv
  <2>3. UNCHANGED compose
    BY <1>1 DEF Suppress, sending
  <2> QED  BY <1>v, <2>1, <2>2, <2>3
<1>2. ASSUME NEW q \in Requests, ReportCommit(q) PROVE StoppedInv'
  <2> DEFINE r == request[q]
  <2>1. r.to \in Addresses /\ r.customer \in Customers \cup {Null}
    BY <1>2, RequestFacts DEF ReportCommit, TypeOK
  <2>2. UNCHANGED compose
    BY <1>2 DEF ReportCommit, sending
  <2>3. CASE UNCHANGED <<suppressed, stopped>>
    BY <1>w, <2>2, <2>3
  <2>4. CASE Upsert(r.to, r.customer) /\ stopped' = stopped \cup ({r.to} \cap Emails)
    <3>1. \A b \in Boxes : suppressed[b].state = "live" => suppressed'[b].state = "live"
      BY <2>1, <2>4, UpsertType
    <3>2. suppressed'[Box(r.to)].state = "live"
      BY <2>1, <2>4, UpsertType
    <3>3. \A x \in stopped' : suppressed'[Box(x)].state = "live"
      BY <1>b, <2>4, <3>1, <3>2 DEF StoppedInv
    <3> QED  BY <1>v, <2>2, <2>4, <3>3
  <2> QED  BY <1>2, <2>3, <2>4 DEF ReportCommit
<1>3. ASSUME NEW q \in Requests, HardDelete(q) PROVE StoppedInv'
  <2>1. UNCHANGED <<compose, stopped>>
    BY <1>3 DEF HardDelete, sending
  <2>2. \A b \in Boxes : suppressed'[b].state = suppressed[b].state
    BY <1>3, ErasedType
  <2>3. \A x \in stopped' : suppressed'[Box(x)].state = "live"
    BY <1>b, <2>1, <2>2 DEF StoppedInv
  <2> QED  BY <1>v, <2>1, <2>3
<1>4. ASSUME NEW b \in Boxes, Release(b) PROVE StoppedInv'
  <2>1. /\ suppressed' = [suppressed EXCEPT ![b].state = "released"]
        /\ stopped' = {e \in stopped : Box(e) # b}
    BY <1>4 DEF Release
  <2>2. /\ compose'.barred = {e \in compose.barred : Box(e) # b}
        /\ compose'.at = compose.at /\ compose'.left = compose.left
        /\ compose'.email = compose.email /\ compose'.flagged = compose.flagged
    BY <1>4 DEF Release, TypeOK, Compose
  <2>3. \A e \in stopped' : suppressed'[Box(e)].state = "live"
    BY <1>b, <2>1 DEF StoppedInv, TypeOK
  <2>4. \A e \in compose'.barred : suppressed'[Box(e)].email = suppressed[Box(e)].email
    BY <1>b, <1>e, <2>2 DEF EntriesOK, EntriesStay, StoppedInv
  <2>5. compose'.barred \subseteq stopped'
    BY <2>1, <2>2 DEF StoppedInv
  <2>6. compose'.at \in {"loop", "enqueue"} =>
          \A c \in compose'.left :
            compose'.email[c] \in compose'.barred
              /\ suppressed'[Box(compose'.email[c])].email = compose'.email[c]
              => c \in compose'.flagged
    BY <2>2, <2>4 DEF StoppedInv, AsSpelled
  <2> QED  BY <2>3, <2>5, <2>6 DEF StoppedInv, AsSpelled
<1>5. CASE UNCHANGED <<suppressed, stopped, compose>>
  BY <1>5, <1>w
<1>6. ASSUME NEW v \in BOOLEAN, HandleSend(v) PROVE StoppedInv'
  <2>1. compose'.at = "customers" /\ compose'.barred = stopped /\ UNCHANGED <<suppressed, stopped>>
    BY <1>6, HandleSendFacts
  <2> QED  BY <2>1 DEF StoppedInv
<1>7. CASE ReadCustomers
  <2>1. compose'.at = "flags" /\ compose'.barred = compose.barred
    BY <1>7 DEF ReadCustomers, TypeOK, Compose
  <2> QED  BY <1>7, <1>w, <2>1 DEF ReadCustomers, tables
<1>8. CASE ReadFlags
  <2>1. /\ compose'.left = compose.left /\ compose'.email = compose.email
        /\ compose'.barred = compose.barred
        /\ compose'.flagged = {c \in compose.left :
             compose.email[c] # Null /\ Flagged(compose.email[c])}
    BY <1>8 DEF ReadFlags, TypeOK, Compose
  <2>2. UNCHANGED <<suppressed, stopped>>
    BY <1>8 DEF ReadFlags, tables
  <2>3. ASSUME NEW c \in compose.left, compose.email[c] \in compose.barred,
               AsSpelled(compose.email[c])
        PROVE  c \in compose'.flagged
    <3>1. compose.email[c] \in Emails /\ suppressed[Box(compose.email[c])].state = "live"
      BY <2>3 DEF StoppedInv, TypeOK
    <3> QED  BY <2>1, <2>3, <3>1, BoxType DEF Flagged, AsSpelled
  <2> QED  BY <2>1, <2>2, <2>3 DEF StoppedInv, AsSpelled
<1>9. ASSUME NEW c \in Customers, Skip(c) PROVE StoppedInv'
  <2>1. /\ compose.at = "loop" /\ compose'.left = compose.left \ {c}
        /\ compose'.email = compose.email /\ compose'.flagged = compose.flagged
        /\ compose'.barred = compose.barred
    BY <1>9 DEF Skip, TypeOK, Compose
  <2> QED  BY <1>9, <1>w, <2>1 DEF Skip, tables
<1>10. ASSUME NEW c \in Customers, CreateMessage(c) PROVE StoppedInv'
  <2>1. /\ compose.at = "loop" /\ compose'.left = compose.left \ {c}
        /\ compose'.email = compose.email /\ compose'.flagged = compose.flagged
        /\ compose'.barred = compose.barred /\ UNCHANGED <<suppressed, stopped>>
    BY <1>10, CreatedFacts
  <2> QED  BY <1>w, <2>1
<1>11. CASE EnqueueSend
  <2>1. /\ compose.at = "enqueue" /\ compose'.left = compose.left
        /\ compose'.email = compose.email /\ compose'.flagged = compose.flagged
        /\ compose'.barred = compose.barred
    BY <1>11 DEF EnqueueSend, TypeOK, Compose
  <2> QED  BY <1>11, <1>w, <2>1 DEF EnqueueSend
<1>12. CASE UNCHANGED <<suppressed, stopped>> /\ compose' = NoCompose
  BY <1>12, <1>w DEF NoCompose
<1> QED
  BY <1>1, <1>2, <1>3, <1>4, <1>5, <1>6, <1>7, <1>8, <1>9, <1>10, <1>11, <1>12
     DEF Next, CustomerStep, SuppressionStep, ComposeStep, vars, tables, sending, Create,
         SoftDelete, EraseRead, Anonymise, ClearCustomerId, ReportRead, AddCustomer,
         RemoveCustomer, CreateMessageRefused, Fail, Answer, ComposeFault, Mail

LEMMA NotWritten ==
  ASSUME TypeOK, RowsInv, SendsInv, StoppedInv, [Next]_vars
  PROVE  \A m \in Message : Inserted(m) /\ ~compose.override =>
           message'[m].to \notin {e \in compose.barred : AsSpelled(e)}
<1>1. ASSUME NEW m \in Message, Inserted(m), ~compose.override,
             message'[m].to \in compose.barred, AsSpelled(message'[m].to)
      PROVE  FALSE
  <2>1. CASE \E c \in Customers : CreateMessage(c)
    <3>1. PICK c \in Customers : CreateMessage(c)
      BY <2>1
    <3>2. /\ \A x \in Message : x # <<page.sends, c>> => message'[x] = message[x]
          /\ message'[<<page.sends, c>>].to = compose.email[c]
          /\ compose.at = "loop" /\ c \in compose.left
      BY <3>1, CreatedFacts
    <3>3. message'[m].to = compose.email[c]
      BY <1>1, <3>2 DEF Inserted
    <3>4. c \in compose.flagged
      BY <1>1, <3>2, <3>3 DEF StoppedInv
    <3> QED  BY <1>1, <3>1, <3>4 DEF CreateMessage, Skips
  <2>2. CASE ~(\E c \in Customers : CreateMessage(c))
    BY <1>1, <2>2, MessagesStep DEF MessagesStay, Inserted
  <2> QED  BY <2>1, <2>2
<1> QED  BY <1>1
-----------------------------------------------------------------------------
(* What an erasure leaves.                                                 *)

LEMMA ErasureStep ==
  ASSUME TypeOK, TypeOK', RowsInv, SendsInv, ErasingInv, ErasureIsComplete, [Next]_vars
  PROVE  ErasureIsComplete'
<1>a. \A q \in Requests : request[q] \in Request
  BY DEF TypeOK
<1>t. /\ \A m \in Message : /\ message[m].customer \in Customers \cup {Null}
                            /\ message'[m].customer \in Customers \cup {Null}
      /\ \A b \in Boxes : /\ suppressed[b].customer \in Customers \cup {Null}
                          /\ suppressed'[b].customer \in Customers \cup {Null}
  BY DEF TypeOK, MessageRow, SuppressionRow
<1>q. ASSUME \A c \in Customers : customer'[c].state = "erased" => customer[c].state = "erased",
             \A m \in Message : /\ message'[m].customer = message[m].customer
                                /\ message'[m].to = message[m].to,
             \A b \in Boxes : \/ suppressed'[b].customer = suppressed[b].customer
                              \/ suppressed'[b].customer = Null
                              \/ customer[suppressed'[b].customer].state # "erased",
             raced' = raced
      PROVE  ErasureIsComplete'
  <2>1. \A m \in Message : message'[m].customer # Null => customer'[message'[m].customer].state # "erased"
    BY <1>q, <1>t DEF ErasureIsComplete
  <2>2. \A m \in Message : message'[m].to \in Emails /\ message'[m].customer = Null => m \in raced'
    BY <1>q DEF ErasureIsComplete
  <2>3. \A b \in Boxes : suppressed'[b].customer # Null => customer'[suppressed'[b].customer].state # "erased"
    BY <1>q, <1>t DEF ErasureIsComplete
  <2> QED  BY <2>1, <2>2, <2>3 DEF ErasureIsComplete
<1>1. ASSUME NEW e \in Emails, Create(e) PROVE ErasureIsComplete'
  <2>1. \A c \in Customers : customer'[c].state = "erased" => customer[c].state = "erased"
    BY <1>1 DEF Create, TypeOK
  <2> QED  BY <1>1, <1>q, <2>1 DEF Create, sending
<1>2. ASSUME NEW c \in Customers, SoftDelete(c) PROVE ErasureIsComplete'
  <2>1. \A d \in Customers : customer'[d].state = "erased" => customer[d].state = "erased"
    BY <1>2 DEF SoftDelete, TypeOK, CustomerRow
  <2> QED  BY <1>2, <1>q, <2>1 DEF SoftDelete, sending
<1>3. ASSUME NEW q \in Requests, HardDelete(q) PROVE ErasureIsComplete'
  <2> DEFINE r == request[q]
             c == r.customer
  <2>0. /\ r.op = "erase" /\ r.at = "cleared" /\ c \in Customers /\ c \notin Emails
        /\ r.boxes \subseteq Boxes /\ raced' = raced
    BY <1>3, <1>a, RequestFacts, BoxType DEF HardDelete, Erasing, sending
  <2>1. CASE UNCHANGED tables
    BY <1>q, <2>0, <2>1 DEF tables
  <2>2. CASE /\ BoxesOf(c) \subseteq r.boxes
             /\ customer' = [customer EXCEPT ![c].state = "erased"]
             /\ suppressed' = [b \in Boxes |-> IF b \in r.boxes
                                 THEN [suppressed[b] EXCEPT !.customer = Null] ELSE suppressed[b]]
             /\ message' = [m \in Message |->
                  CASE m \in r.rows -> Anonymised(message[m], c)
                    [] m \in MessagesOf(c) \ r.rows -> [message[m] EXCEPT !.customer = Null]
                    [] OTHER -> message[m]]
    <3>1. \A d \in Customers : d # c => customer'[d] = customer[d]
      BY <2>2 DEF TypeOK
    <3>2. ASSUME NEW m \in Message
          PROVE  /\ message'[m].customer # Null => customer'[message'[m].customer].state # "erased"
                 /\ message'[m].to \in Emails /\ message'[m].customer = Null => m \in raced'
      <4>0. message[m] \in MessageRow
        BY DEF TypeOK
      <4>1. CASE m \in r.rows
        <5>1. message'[m] = [message[m] EXCEPT !.customer = Null, !.to = c]
          BY <2>2, <4>1 DEF Anonymised
        <5>2. message'[m].customer = Null /\ message'[m].to = c
          BY <4>0, <5>1 DEF MessageRow
        <5> QED  BY <2>0, <5>2
      <4>2. CASE m \in MessagesOf(c) \ r.rows
        <5>1. message'[m] = [message[m] EXCEPT !.customer = Null]
          BY <2>2, <4>2
        <5>2. message'[m].customer = Null
          BY <4>0, <5>1 DEF MessageRow
        <5>3. m \in raced
          BY <2>0, <4>2 DEF ErasingInv
        <5> QED  BY <2>0, <5>2, <5>3
      <4>3. CASE m \notin r.rows /\ m \notin MessagesOf(c)
        <5>1. message'[m] = message[m]
          BY <2>2, <4>3
        <5>2. message[m].customer # Null => message[m].customer # c
          BY <4>3 DEF MessagesOf, RowsInv
        <5> QED  BY <1>t, <2>0, <3>1, <5>1, <5>2 DEF ErasureIsComplete
      <4> QED  BY <4>1, <4>2, <4>3
    <3>3. ASSUME NEW b \in Boxes, suppressed'[b].customer # Null
          PROVE  customer'[suppressed'[b].customer].state # "erased"
      <4>1. CASE b \in r.boxes
        <5>1. suppressed'[b] = [suppressed[b] EXCEPT !.customer = Null] /\ suppressed[b] \in SuppressionRow
          BY <2>2, <4>1 DEF TypeOK
        <5> QED  BY <3>3, <5>1 DEF SuppressionRow
      <4>2. CASE b \notin r.boxes
        <5>1. suppressed'[b] = suppressed[b]
          BY <2>2, <4>2
        <5>2. suppressed[b].customer # c
          BY <2>2, <3>3, <4>2, <5>1 DEF BoxesOf, RowsInv
        <5> QED  BY <1>t, <3>1, <3>3, <5>1, <5>2 DEF ErasureIsComplete
      <4> QED  BY <4>1, <4>2
    <3> QED  BY <3>2, <3>3 DEF ErasureIsComplete
  <2> QED  BY <1>3, <2>1, <2>2 DEF HardDelete
<1>4. ASSUME NEW e \in Emails, NEW c \in Customers \cup {Null}, Suppress(e, c) PROVE ErasureIsComplete'
  <2>1. \A b \in Boxes : suppressed'[b].customer # suppressed[b].customer
                           => suppressed'[b].customer = c
    BY <1>4, UpsertType, BoxType DEF Suppress
  <2> QED  BY <1>4, <1>q, <2>1 DEF Suppress, sending
<1>5. ASSUME NEW b \in Boxes, Release(b) PROVE ErasureIsComplete'
  <2>1. \A x \in Boxes : suppressed'[x].customer = suppressed[x].customer
    BY <1>5 DEF Release, TypeOK, SuppressionRow
  <2> QED  BY <1>5, <1>q, <2>1 DEF Release
<1>6. ASSUME NEW q \in Requests, ReportCommit(q) PROVE ErasureIsComplete'
  <2> DEFINE r == request[q]
  <2>1. r.to \in Addresses /\ r.customer \in Customers \cup {Null}
    BY <1>6, <1>a, RequestFacts DEF ReportCommit
  <2>2. UNCHANGED <<customer, message, raced>>
    BY <1>6 DEF ReportCommit, sending
  <2>3. CASE UNCHANGED suppressed
    BY <1>q, <2>2, <2>3
  <2>4. CASE Upsert(r.to, r.customer) /\ ~(r.customer # Null /\ customer[r.customer].state = "erased")
    <3>1. \A b \in Boxes : suppressed'[b].customer # suppressed[b].customer
                             => suppressed'[b].customer = r.customer
      BY <2>1, <2>4, UpsertType
    <3> QED  BY <1>q, <2>2, <2>4, <3>1
  <2> QED  BY <1>6, <2>3, <2>4 DEF ReportCommit
<1>7. ASSUME NEW c \in Customers, CreateMessage(c) PROVE ErasureIsComplete'
  <2>1. /\ <<page.sends, c>> \in Message
        /\ message'[<<page.sends, c>>].customer = c
        /\ \A m \in Message : m # <<page.sends, c>> => message'[m] = message[m]
        /\ UNCHANGED <<customer, suppressed>>
    BY <1>7, CreatedFacts
  <2>2. customer[c].state # "erased" /\ raced \subseteq raced' /\ c # Null
    BY <1>7, BoxType DEF CreateMessage
  <2>3. \A m \in Message : message'[m].customer # Null => customer'[message'[m].customer].state # "erased"
    BY <2>1, <2>2 DEF ErasureIsComplete
  <2>4. \A m \in Message : message'[m].to \in Emails /\ message'[m].customer = Null => m \in raced'
    BY <2>1, <2>2 DEF ErasureIsComplete
  <2> QED  BY <2>1, <2>3, <2>4 DEF ErasureIsComplete
<1>8. CASE EnqueueSend
  <2>1. \A m \in Message : message'[m].customer = message[m].customer /\ message'[m].to = message[m].to
    BY <1>8 DEF EnqueueSend, TypeOK, MessageRow
  <2> QED  BY <1>8, <1>q, <2>1 DEF EnqueueSend
<1>9. ASSUME NEW m \in Message, Mail(m) PROVE ErasureIsComplete'
  <2>1. \A x \in Message : message'[x].customer = message[x].customer /\ message'[x].to = message[x].to
    BY <1>9 DEF Mail, TypeOK, MessageRow
  <2> QED  BY <1>9, <1>q, <2>1 DEF Mail, sending
<1>10. CASE UNCHANGED <<tables, raced>>
  BY <1>10, <1>q DEF tables
<1> QED
  BY <1>1, <1>2, <1>3, <1>4, <1>5, <1>6, <1>7, <1>8, <1>9, <1>10
     DEF Next, CustomerStep, SuppressionStep, ComposeStep, vars, tables, sending,
         EraseRead, Anonymise, ClearCustomerId, ReportRead, AddCustomer, RemoveCustomer,
         HandleSend, ReadCustomers, ReadFlags, Skip, CreateMessageRefused, Answer, ComposeFault

-----------------------------------------------------------------------------
(* The theorems.                                                           *)

LEMMA InitInv ==
  ASSUME Init PROVE Inv
<1> USE ContactsAssumption
<1>1. TypeOK
  BY NoComposeType, IdleType
     DEF Init, TypeOK, CustomerRow, SuppressionRow, MessageRow
<1>2. RowsInv
  BY DEF Init, RowsInv, Idle
<1>3. Editing /\ failures = 0 /\ page.sends = 0
  BY DEF Init, Editing, NoCompose
<1>4. SendsInv
  BY <1>3 DEF Init, SendsInv
<1>5. CopiesInv
  <2>1. \A c \in Customers : Lost(c) = {}
    BY DEF Init, Lost, Unconfirmed
  <2> QED  BY <1>3, <2>1, FS_EmptySet DEF CopiesInv
<1>6. StoppedInv
  BY DEF Init, StoppedInv, NoCompose
<1>7. ErasingInv
  BY DEF Init, ErasingInv, Idle
<1>8. ErasureIsComplete
  BY BoxType DEF Init, ErasureIsComplete
<1> QED  BY <1>1, <1>2, <1>4, <1>5, <1>6, <1>7, <1>8 DEF Inv

LEMMA StepInv ==
  ASSUME Inv, [Next]_vars PROVE Inv'
<1> USE DEF Inv
<1>1. TypeOK'
  BY TypeStep
<1> QED
  BY <1>1, RowsStep, SendsStep, CopiesStep, StoppedStep, ErasingStep, ErasureStep

LEMMA Invariance == Spec => []Inv
BY InitInv, StepInv, PTL DEF Spec

(* Every row, request and answer has its type: an erased message keeps an  *)
(* address, a request never names a customer that is not there.            *)
THEOREM TypeCorrect == Spec => []TypeOK
<1>1. Inv => TypeOK
  BY DEF Inv
<1> QED  BY <1>1, Invariance, PTL

(* Whatever is inserted, reported or suppressed while the three statements *)
(* of an erasure run, nothing names the customer afterwards, and only the  *)
(* messages inserted since the first of them still show its address.       *)
THEOREM ErasureCompletes == Spec => []ErasureIsComplete
<1>1. Inv => ErasureIsComplete
  BY DEF Inv
<1> QED  BY <1>1, Invariance, PTL

(* However often compose fails and is sent again, a customer has at most   *)
(* one message more than the page knows of for each failed request.        *)
THEOREM CopiesAreBound == Spec => []CopiesBound
<1>1. Inv => CopiesBound
  BY CopiesAreFew DEF Inv
<1> QED  BY <1>1, Invariance, PTL

(* No interleaving of compose with unsubscribes, bounces, releases,        *)
(* deletions and erasures writes to an address that was stopped before the *)
(* request came, as its entry spells it.                                   *)
THEOREM StoppedNotMailed == Spec => NoMailToStopped
<1>1. Inv /\ [Next]_vars =>
        \A m \in Message : Inserted(m) /\ ~compose.override =>
          message'[m].to \notin {e \in compose.barred : AsSpelled(e)}
  BY NotWritten DEF Inv
<1>2. Inv /\ [Next]_vars =>
        [\A m \in Message : Inserted(m) /\ ~compose.override =>
          message'[m].to \notin {e \in compose.barred : AsSpelled(e)}]_vars
  BY <1>1
<1> QED  BY <1>2, Invariance, PTL DEF Spec, NoMailToStopped
=============================================================================
