---------------------------- MODULE MCInboundSync ----------------------------
(* The inbound worker on small sets of accounts and messages, which are    *)
(* interchangeable.                                                        *)
EXTENDS InboundLedger, TLC

Symmetry == Permutations(Accounts) \cup Permutations(Messages)
=============================================================================
