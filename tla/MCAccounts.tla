----------------------------- MODULE MCAccounts -----------------------------
(***************************************************************************)
(* Two Comets, two names of which one is quoted, both kinds of schema.     *)
(***************************************************************************)
EXTENDS Accounts

CONSTANTS cx, cy, n1, n2, e1, e2, p1, p2, s1, s2

BothSchemas == BOOLEAN

=============================================================================
