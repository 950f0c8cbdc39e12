---------------------------- MODULE MCDeployment ----------------------------
(***************************************************************************)
(* Small instances of Deployment for TLC: three releases, of which the     *)
(* second adds a migration and does not always come up.                    *)
(***************************************************************************)
EXTENDS Deployment

CONSTANTS v1, v2, v3

Migrations == [ i \in Images |-> IF i = v1 THEN 1 ELSE IF i = v2 THEN 2 ELSE 3 ]

=============================================================================
