------------------------- MODULE MCPersistentSweep -------------------------
(* A small instance of PersistentSweep for TLC. *)
EXTENDS PersistentSweep, TLC

CONSTANTS t1, t2

Load(network, tokens, assets, others, n, f, c, r, w) ==
  [network |-> network, tokens |-> tokens, asset |-> assets, others |-> others, sweeps |-> n,
   faults |-> f, crashes |-> c, recoveries |-> r, windows |-> w]
OneEach == (t1 :> "USDT") @@ (t2 :> "USDC")
AllUSDT == (t1 :> "USDT") @@ (t2 :> "USDT")

(* BSC with two tokens and a recovery, a restart or a fault, and with USDT *)
(* alone, where the balance fallback meets a recovery or a fault; Tron     *)
(* with a fault, a restart and a polling window that ends early; other     *)
(* addresses in the queue.                                                 *)
MCLoads == {Load("bep20", <<"USDT", "USDC">>, OneEach, 0, 2, 0, 0, 1, 0),
            Load("bep20", <<"USDT", "USDC">>, OneEach, 0, 2, 0, 1, 0, 0),
            Load("bep20", <<"USDT", "USDC">>, OneEach, 0, 1, 1, 0, 0, 0),
            Load("bep20", <<"USDT">>, AllUSDT, 0, 3, 0, 0, 1, 0),
            Load("bep20", <<"USDT">>, AllUSDT, 0, 3, 1, 0, 0, 0),
            Load("trc20", <<"USDT">>, AllUSDT, 0, 4, 1, 1, 0, 0),
            Load("trc20", <<"USDT">>, AllUSDT, 0, 3, 0, 0, 0, 1),
            Load("trc20", <<"USDT">>, AllUSDT, 2, 2, 0, 0, 0, 0)}
=============================================================================
