--------------------------- MODULE MCWalletLedger ---------------------------
(***************************************************************************)
(* The wallets of MCWalletService with the history of their balances.      *)
(***************************************************************************)
EXTENDS MCWalletService, WalletLedger

=============================================================================
