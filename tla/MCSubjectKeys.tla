---------------------------- MODULE MCSubjectKeys ----------------------------
(***************************************************************************)
(* An order under a customer under a shop.  The customer was written       *)
(* before it had a parent: one writer still names it alone, the other      *)
(* names the whole chain, and the adoption moves it under the shop.        *)
(***************************************************************************)
EXTENDS SubjectKeysSafety, TLC

CONSTANTS Order, Customer, Shop, Before, Deep, Adopt

MCChain ==
    [p \in Processes |-> CASE p = Before -> <<Customer>>
                           [] p = Deep -> <<Order, Customer, Shop>>
                           [] p = Adopt -> <<Customer, Shop>>]
=============================================================================
