---------------------------- MODULE MCMembership ----------------------------
(***************************************************************************)
(* Small instances of Membership.                                          *)
(***************************************************************************)
EXTENDS Membership

CONSTANTS s1, s2, i1, i2

\* Every session logs in to an account of its own.
OwnAccounts == [s \in Sessions |-> IF s = s1 THEN i1 ELSE i2]

\* Both sessions log in to the same account.
OneAccount == [s \in Sessions |-> i1]

=============================================================================
