------------------------------ MODULE MCBilling ------------------------------
(***************************************************************************)
(* Small instances of Billing for TLC.                                     *)
(***************************************************************************)
EXTENDS Billing, TLC

\* Requests and keys are interchangeable.
Symmetry ==
  Permutations(Workers) \cup Permutations(InvoiceIds) \cup Permutations(PaymentIds)
=============================================================================
