--------------------------- MODULE MCWithdrawals ---------------------------
(* A small instance of Withdrawals for TLC. *)
EXTENDS Withdrawals, TLC

CONSTANTS a1, a2

Load(sources, admins, e, p, t, c, u) ==
  [sources |-> sources, admins |-> admins, errors |-> e, payErrors |-> p, timeouts |-> t,
   crashes |-> c, unlink |-> u]
(* Two admins, with errors, restarts and an unlinked wallet; two admins    *)
(* and a timeout; one admin and two sources; one admin and failed updates. *)
MCLoads == {Load({"yield"}, {a1, a2}, 1, 1, 0, 1, TRUE),
            Load({"yield"}, {a1, a2}, 0, 0, 1, 0, FALSE),
            Load({"deposit", "referral"}, {a1}, 0, 1, 1, 0, FALSE),
            Load({"deposit"}, {a1}, 1, 1, 0, 1, FALSE)}
=============================================================================
