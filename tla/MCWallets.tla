----------------------------- MODULE MCWallets ------------------------------
(* An instance of Wallets for TLC.                                         *)
EXTENDS Wallets, TLC

CONSTANTS a, b, testnet, mainnet

(* b is an account of one network alone.                                   *)
BOnTestnetOnly == (testnet :> {a, b}) @@ (mainnet :> {a})
=============================================================================
