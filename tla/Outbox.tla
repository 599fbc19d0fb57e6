------------------------------- MODULE Outbox -------------------------------
(***************************************************************************)
(* What the send pipeline promises about a message, with no queue, worker  *)
(* or request in it: the message state machine of email_messages.status    *)
(* seen from outside.  A message shown as out has been mailed and stays    *)
(* out until a bounce arrives; mail leaves only for a message that is      *)
(* pending (or bounced while a sending was under way).                     *)
(***************************************************************************)
CONSTANT Messages

VARIABLES
  phase,   \* what the status column says of the message
  mailed   \* the messages an SMTP server has taken

vars == <<phase, mailed>>

Phases == {"absent", "pending", "out", "bounced", "dead"}

Init ==
  /\ phase = [m \in Messages |-> "absent"]
  /\ mailed = {}

Move(m, from, to) ==
  /\ phase[m] \in from
  /\ phase' = [phase EXCEPT ![m] = to]
  /\ UNCHANGED mailed

Accept(m) == Move(m, {"absent"}, "pending")

Mail(m) ==
  /\ phase[m] \in {"pending", "bounced"}
  /\ mailed' = mailed \cup {m}
  /\ UNCHANGED phase

Settle(m) == m \in mailed /\ Move(m, {"pending", "bounced"}, "out")

Bounce(m) == m \in mailed /\ Move(m, {"pending", "out", "dead"}, "bounced")

(* Failed for good, or cancelled.                                          *)
Drop(m) == Move(m, {"pending", "bounced"}, "dead")

(* A job that is still in the queue takes the message up again.            *)
TakeUp(m) == Move(m, {"bounced", "dead"}, "pending")

Next ==
  \E m \in Messages :
    Accept(m) \/ Mail(m) \/ Settle(m) \/ Bounce(m) \/ Drop(m) \/ TakeUp(m)

Spec == Init /\ [][Next]_vars
=============================================================================
