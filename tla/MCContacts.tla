----------------------------- MODULE MCContacts -----------------------------
(* The contacts on small sets, whose members are interchangeable.          *)
EXTENDS Contacts, TLC

Symmetry ==
  Permutations(Customers) \cup Permutations(Requests)
    \cup Permutations(Mailboxes) \cup Permutations(Spellings)
=============================================================================
