------------------------------ MODULE MCVendors ------------------------------
(* Instances of Vendors for TLC. *)
EXTENDS Vendors, TLC

CONSTANTS e1, e2

\* The first sender's mail has a display name.
MCMailName == [e \in Emails |-> IF e = e1 THEN {"mail"} ELSE {}]

\* Every spelling is of one string.
MCNorm == [s \in Spellings |-> "NEWS"]

\* Mail of both senders in either order, with our own in between; the third
\* message is beyond the limit.
MCMailboxes == {<<e1, Internal>>, <<e2, e1, e1>>, <<e1, e2, Internal>>}

\* Two ids for every key.
MCIdsOf == [k \in Keys |-> CASE k = e1 -> {1, 2} [] k = e2 -> {3, 4}
                             [] OTHER -> {5, 6}]

MCVendorLists == {<<"news">>}

\* Transactions are interchangeable.
Symmetric == Permutations(Procs)
=============================================================================
