---------------------------- MODULE CreditLedger ----------------------------
(***************************************************************************)
(* What the deposit credit path promises, without how it keeps it: a       *)
(* transfer that reached a deposit address is claimed once, then raises    *)
(* the vault's TVL once, then raises the user's balance once.  The         *)
(* detailed path (DepositCredit) is shown to implement this.               *)
(***************************************************************************)
EXTENDS Naturals

CONSTANT Transfers

VARIABLES
  claimed,   \* the transfers that own a deposit_credits row
  tvl,       \* tvl[t]: how often the amount of t was added to the vault
  paid       \* paid[t]: how often it was added to the user's balance

vars == <<claimed, tvl, paid>>

Init ==
  /\ claimed = {}
  /\ tvl  = [t \in Transfers |-> 0]
  /\ paid = [t \in Transfers |-> 0]

(* A scanner saw the transfer for the first time. *)
Claim(t) ==
  /\ t \notin claimed
  /\ claimed' = claimed \union {t}
  /\ UNCHANGED <<tvl, paid>>

(* The amount enters the vault's TVL: only of a claimed transfer, only once. *)
RaiseVault(t) ==
  /\ t \in claimed
  /\ tvl[t] = 0
  /\ tvl' = [tvl EXCEPT ![t] = 1]
  /\ UNCHANGED <<claimed, paid>>

(* The amount enters the user's balance: only after the vault, only once. *)
PayUser(t) ==
  /\ tvl[t] = 1
  /\ paid[t] = 0
  /\ paid' = [paid EXCEPT ![t] = 1]
  /\ UNCHANGED <<claimed, tvl>>

Next == \E t \in Transfers : Claim(t) \/ RaiseVault(t) \/ PayUser(t)

Spec == Init /\ [][Next]_vars
=============================================================================
