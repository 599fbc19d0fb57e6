---------------------------- MODULE InboundLedger ----------------------------
(* The inbound worker implements Ledger.                                   *)
EXTENDS InboundSync

Books == INSTANCE Ledger
  WITH box <- inbox, booked <- intake, mark <- cursor, bounced <- bounce,
       answered <- {m \in Messages : replied[m]},
       listed <- suppression = "active"

(***************************************************************************)
(* Whatever crashes, fails or is fetched again, a mailbox is taken in mail *)
(* by mail in its order, each mail once and with its effect in the same    *)
(* step, and imap_last_uid moves by one past a mail that is done, never    *)
(* back: a pass that works with the cursor it read at its start cannot     *)
(* undo what another did.                                                  *)
(***************************************************************************)
ImplementsLedger == Books!Spec
=============================================================================
