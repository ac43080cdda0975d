------------------------------ MODULE MCConfirm ------------------------------
(* Instances of Confirm for TLC. *)
EXTENDS Confirm, TLC

\* Tabs and ads are interchangeable; transactions are not (Saas).
Symmetric == Permutations(Tabs) \union Permutations(Ads)

\* A view for properties of Postgres alone: no step of the tool reads the
\* status the staff edit, so states that differ in it behave alike.
WithoutStatus == <<crmRow, trx, pgVars, gate, tab, faults, traced>>
=============================================================================
