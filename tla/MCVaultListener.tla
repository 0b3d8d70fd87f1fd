--------------------------- MODULE MCVaultListener ---------------------------
(* A small instance of VaultListener for TLC. *)
EXTENDS VaultListener, TLC

CONSTANTS u1, u2, w1, w2, i1, i2, p1, p2, c1, c2

MCTx == <<"x1", "x2">>
MCPayer == <<w1, w2>>
MCOwner == (i1 :> u1) @@ (i2 :> u1)

Paying(a, b) == <<a, b>>
Load(intent, none, timers, end, f, n, cs) ==
  [intent |-> intent, wrong |-> none, polls |-> timers, last |-> end, faults |-> f,
   crashes |-> n, calls |-> cs]
(* One intent paid twice, with polls that overlap; two intents, one poll,  *)
(* a fault and a crash; one intent and a call that links; two calls.       *)
MCLoads == {Load(Paying(i1, i1), {}, {p1, p2}, 3, 0, 0, {}),
            Load(Paying(i1, i2), {2}, {p1}, 4, 1, 1, {}),
            Load(Paying(i1, i2), {2}, {p1}, 2, 0, 0, {c1}),
            Load(Paying(i1, i2), {}, {}, 1, 0, 0, {c1, c2})}
=============================================================================
