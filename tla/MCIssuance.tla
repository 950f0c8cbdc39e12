----------------------------- MODULE MCIssuance -----------------------------
(***************************************************************************)
(* Small instances of Issuance for TLC.                                    *)
(***************************************************************************)
EXTENDS Issuance, TLC

CONSTANTS c1, c2, i1, i2, k1, k2, s1, s2, validator, biller

\* Each key has an advisory lock of its own.
SlotPerKey == (k1 :> s1) @@ (k2 :> s2)

AllReadable == Actors \X Invoices

\* The validator belongs to another office than the second invoice.
OfficeScoped == AllReadable \ {<< validator, i2 >>}

\* The last day opens the next year.
NewYear == [ d \in Days |-> IF d < LastDay THEN 2026 ELSE 2027 ]
OneYear == [ d \in Days |-> 2026 ]

Symmetric == Permutations(Connections)

=============================================================================
