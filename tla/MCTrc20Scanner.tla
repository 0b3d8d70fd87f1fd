---------------------------- MODULE MCTrc20Scanner ----------------------------
(* A small instance of Trc20Scanner for TLC. *)
EXTENDS Trc20Scanner, TLC

CONSTANTS u1, u2, c1, c2, m1, p1

(* Four transfers to u1, two of them in one transaction, and a transaction *)
(* that pays both users.                                                   *)
MCTo == <<u1, u1, u1, u1, u1, u2>>
MCTx == <<"x1", "x1", "x2", "x3", "x4", "x4">>

MCEnvironments == {[phrase |-> p1, backup |-> FALSE], [phrase |-> NoPhrase, backup |-> TRUE]}

Load(users, calls, ts, end, f, rs, rr) ==
  [made |-> users, callers |-> calls, transfers |-> ts, last |-> end, faults |-> f,
   rescans |-> rs, restarts |-> rr]
(* Who races for addresses; a new address; a long history; faults and a    *)
(* restart; a rescan; a transaction that pays two addresses.               *)
MCLoads == {Load({}, {c1, c2, m1}, {}, 1, 0, 0, 0),
            Load({}, {c1}, {3}, 2, 0, 0, 1),
            Load({u1}, {}, {1, 2, 3, 4}, 3, 0, 0, 0),
            Load({u1}, {}, {1, 2, 3}, 3, 1, 0, 1),
            Load({u1}, {}, {1, 2, 3}, 3, 0, 1, 0),
            Load({u1, u2}, {}, {5, 6}, 3, 1, 0, 0)}
=============================================================================
