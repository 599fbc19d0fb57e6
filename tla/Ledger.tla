-------------------------------- MODULE Ledger --------------------------------
(***************************************************************************)
(* What the inbound worker promises about the mailboxes, with no pass,     *)
(* connection or crash in it: the mails of a mailbox are taken in one      *)
(* after the other in the order they arrived, each once and together with  *)
(* its effect on the records, and the mark moves past a mail only then.    *)
(***************************************************************************)
EXTENDS Naturals, Sequences

CONSTANTS Accounts, Messages, Kinds

VARIABLES
  box,       \* the mails of each mailbox, as they arrived
  booked,    \* the positions of the mails taken in
  mark,      \* the position everything is done up to
  bounced,   \* the class of the last bounce of each message
  answered,  \* messages with a reply
  listed     \* whether the address must not be mailed

vars == <<box, booked, mark, bounced, answered, listed>>

Init ==
  /\ box = [a \in Accounts |-> <<>>]
  /\ booked = [a \in Accounts |-> {}]
  /\ mark = [a \in Accounts |-> 0]
  /\ bounced = [m \in Messages |-> "none"]
  /\ answered = {}
  /\ listed = FALSE

Arrive(a) ==
  /\ \E mail \in [kind: Kinds, about: Messages] :
       box' = [box EXCEPT ![a] = Append(@, mail)]
  /\ UNCHANGED <<booked, mark, bounced, answered, listed>>

(* The effect of a mail: a bounce may list the address, and a hard one     *)
(* does; nothing but a bounce lists it.                                    *)
Effect(mail) ==
  \/ /\ mail.kind \in {"hard", "soft"}
     /\ bounced' = [bounced EXCEPT ![mail.about] = mail.kind]
     /\ listed' \in {listed, TRUE}
     /\ mail.kind = "hard" => listed'
     /\ UNCHANGED answered
  \/ /\ mail.kind = "reply"
     /\ answered' = answered \cup {mail.about}
     /\ UNCHANGED <<bounced, listed>>
  \/ /\ mail.kind = "other"
     /\ UNCHANGED <<bounced, answered, listed>>

(* The mail after the mark, if it is not booked yet.                       *)
Book(a) ==
  /\ mark[a] + 1 \in DOMAIN box[a] \ booked[a]
  /\ booked' = [booked EXCEPT ![a] = @ \cup {mark[a] + 1}]
  /\ Effect(box[a][mark[a] + 1])
  /\ UNCHANGED <<box, mark>>

(* Past a mail that is booked, or one without a source.                    *)
Pass(a) ==
  /\ mark[a] + 1 \in DOMAIN box[a]
  /\ mark[a] + 1 \in booked[a] \/ box[a][mark[a] + 1].kind = "bare"
  /\ mark' = [mark EXCEPT ![a] = @ + 1]
  /\ UNCHANGED <<box, booked, bounced, answered, listed>>

Release ==
  /\ listed
  /\ listed' = FALSE
  /\ UNCHANGED <<box, booked, mark, bounced, answered>>

Next ==
  \/ \E a \in Accounts : Arrive(a) \/ Book(a) \/ Pass(a)
  \/ Release

Spec == Init /\ [][Next]_vars
=============================================================================
