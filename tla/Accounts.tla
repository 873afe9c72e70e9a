------------------------------ MODULE Accounts ------------------------------
(* The addresses that act on a stablecoin, shared by its components.       *)
CONSTANT
  Account       \* the non-zero addresses other than the stablecoin proxy
=============================================================================
