----------------------------- MODULE MCPayment -----------------------------
(***************************************************************************)
(* Instances of Payment for TLC.  The order has two gateway transactions:  *)
(* the one the answer of the charge names, and one only callbacks name.    *)
(***************************************************************************)
EXTENDS Payment, TLC

CONSTANTS o1, chg1, txn1

MCOrderOf == chg1 :> o1 @@ txn1 :> o1
MCChargeRef == o1 :> chg1

Symmetry ==
    Permutations(Charges) \cup Permutations(Callbacks)
        \cup Permutations(Confirms) \cup Permutations(Refunds)
=============================================================================
