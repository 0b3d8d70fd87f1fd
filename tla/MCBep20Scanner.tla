--------------------------- MODULE MCBep20Scanner ---------------------------
(* Small instances of Bep20Scanner for TLC. *)
EXTENDS Bep20Scanner, TLC

CONSTANTS t1, t2, u1, u2

(* One transfer of each token, to two users: the address of either may be *)
(* made while a tick for the other is under way.                          *)
MCTo == (t1 :> u1) @@ (t2 :> u2)
MCToken == (t1 :> "USDT") @@ (t2 :> "USDC")
MCTokens == << "USDT", "USDC" >>
=============================================================================
