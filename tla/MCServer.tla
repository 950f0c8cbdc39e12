------------------------------ MODULE MCServer ------------------------------
(***************************************************************************)
(* Small instances of Server for TLC.                                      *)
(***************************************************************************)
EXTENDS Server, TLC

CONSTANTS consultant, biller, s1, s2, c1

RoleOfEach == (consultant :> "consultant") @@ (biller :> "billing")

\* A route of each kind: one that reaches no database, a lookup, a unit of work.
OneOfEachKind == {"session", "choose", "issue"}

=============================================================================
