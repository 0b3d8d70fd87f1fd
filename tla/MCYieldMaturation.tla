------------------------- MODULE MCYieldMaturation -------------------------
(* Small instances of YieldMaturation for TLC. *)
EXTENDS YieldMaturation

CONSTANTS d1, v1, v2

(* The deposit is in the first vault; a second one has none. *)
InFirst == [d \in Deposits |-> v1]

(* Both referrers active, the second only, or a direct one alone. *)
SomeReferrers == {<<"active", "active">>, <<"inactive", "active">>, <<"active", "none">>}
=============================================================================
