-------------------------- MODULE MCDepositCredit --------------------------
(* A small instance of DepositCredit for TLC. *)
EXTENDS DepositCredit

(* Every vault and every transfer is of one asset. *)
MCVaultAsset == [v \in Vaults |-> "USDT"]
MCAsset == [t \in Transfers |-> "USDT"]
=============================================================================
