------------------------ MODULE MCEphemeralDeposits ------------------------
(* Small instances of EphemeralDeposits for TLC. *)
EXTENDS EphemeralDeposits

Open(n) == [network |-> n, open |-> TRUE]

(* Any amount on both networks, and an exact one on BSC. *)
MCKinds == {Open("bep20"), Open("trc20"), [network |-> "bep20", open |-> FALSE]}

(* A top-up is tried on BSC only: on Tron two calls interleave. *)
MCPayments == [n \in {"bep20", "trc20"} |-> IF n = "bep20" THEN 2 ELSE 1]

MCTronOpen == {Open("trc20")}
=============================================================================
