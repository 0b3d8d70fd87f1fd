--------------------------- MODULE YieldMaturation ---------------------------
(***************************************************************************)
(* The 30-day maturation of yield: settleDepositYield and the commissions  *)
(* of apyDistribution.helper.ts.  The daily cron and the admin go through  *)
(* the active vaults and load the deposits of each (distributeMonthlyAPY); *)
(* a yield withdrawal (settleUserYieldForAsset) and a portfolio load take  *)
(* all deposits of the user at once, whatever their vault, and a           *)
(* redemption takes its own.  Calls interleave at every await.             *)
(*                                                                         *)
(* Amounts are in units of the deposit's monthly yield, so a matured cycle *)
(* credits one unit, and a commission is counted as the yield it is on.    *)
(***************************************************************************)
EXTENDS Integers, FiniteSets

CONSTANTS
  Deposits,       \* deposits of one user, in one asset
  Vaults,
  VaultOf,        \* VaultOf[d]: the vault of d
  Referrers,      \* what referrers the user has at both levels: <<status, status>>
  Settlers,       \* calls that may settle at the same time
  Distributors,   \* those that distribute, the cron and the admin; the others are users'
  Cron,
  MaxCycles,      \* bound: cycles that complete
  MaxFailures,    \* bound: database calls that throw and restarts, together
  MaxChanges      \* bound: suspensions of the user, vaults switched off and
                  \* changes of a referrer's status, together

ReferrerStatus == {"none", "active", "inactive"}

ASSUME YieldAssumption ==
  /\ IsFiniteSet(Deposits) /\ Deposits # {} /\ IsFiniteSet(Settlers)
  /\ Distributors \subseteq Settlers /\ Cron \in Distributors
  /\ VaultOf \in [Deposits -> Vaults] /\ MaxCycles > 0
  /\ Referrers \subseteq [{1, 2} -> ReferrerStatus]
  /\ \A n \in {MaxCycles, MaxFailures, MaxChanges} : n \in Nat

VARIABLES
  elapsed,        \* elapsed[d]: whole 30-day cycles since d was made
  active,         \* active[d]: its status is "active"
  suspended,      \* the user's status is not "active"
  open,           \* open[v]: the status of vault v is "active"
  referrer,       \* referrer[l]: whether there is one at level l, and is active
  cyclesMatured, totalYieldPaid,     \* of each deposit
  credited,       \* what d has added to the user's yield wallet
  logged,         \* what the yield log says of d
  commission,     \* commission[l][d]: yield of d on which referrer l got a commission
  settler,        \* the calls: [pc, vaults, todo, copy, deposit, cycles, completed]
  budget

books == <<cyclesMatured, totalYieldPaid, credited, logged, commission>>
vars == <<elapsed, active, suspended, open, referrer, books, settler, budget>>
world == <<elapsed, active, suspended, open, referrer>>

NoCopy == [d \in Deposits |-> [matured |-> 0, paid |-> 0]]
AnyDeposit == CHOOSE d \in Deposits : TRUE
Idle == [pc |-> "idle", vaults |-> {}, todo |-> {}, copy |-> NoCopy, deposit |-> AnyDeposit,
         cycles |-> 0, completed |-> 0]

Greater(m, n) == IF m > n THEN m ELSE n

(* Failures have one bound, and the statuses that people change another. *)
Fail(k) ==
  /\ budget.faults + budget.crashes < MaxFailures
  /\ budget' = [budget EXCEPT ![k] = @ + 1]

Change(k) ==
  /\ budget.suspensions + budget.closings + budget.referrals < MaxChanges
  /\ budget' = [budget EXCEPT ![k] = @ + 1]

(* Who gets a commission: the direct referrer while active, and that one's *)
(* referrer only if both are (distributeReferralCommissions).              *)
Gets(l) == \A k \in 1..l : referrer[k] = "active"

(* A deposit is new, or it stems from the continuous model: some of its    *)
(* yield is paid, logged and shared, and no cycle counted.                 *)
Init ==
  /\ elapsed \in [Deposits -> 0..1]
  /\ totalYieldPaid \in [Deposits -> 0..1]
  /\ \A d \in Deposits : totalYieldPaid[d] <= elapsed[d]
  /\ credited = totalYieldPaid /\ logged = totalYieldPaid
  /\ cyclesMatured = [d \in Deposits |-> 0]
  /\ active = [d \in Deposits |-> TRUE]
  /\ suspended = FALSE /\ open = [v \in Vaults |-> TRUE]
  /\ referrer \in Referrers
  /\ commission = [l \in {1, 2} |->
       IF Gets(l) THEN totalYieldPaid ELSE [d \in Deposits |-> 0]]
  /\ settler = [s \in Settlers |-> Idle]
  /\ budget = [faults |-> 0, crashes |-> 0, suspensions |-> 0, closings |-> 0, referrals |-> 0]

-----------------------------------------------------------------------------
(* The world *)

CompleteCycle(d) ==
  /\ elapsed[d] < MaxCycles
  /\ elapsed' = [elapsed EXCEPT ![d] = @ + 1]
  /\ UNCHANGED <<active, suspended, open, referrer, books, settler, budget>>

(* An approved redemption. *)
Redeem(d) ==
  /\ active[d]
  /\ active' = [active EXCEPT ![d] = FALSE]
  /\ UNCHANGED <<elapsed, suspended, open, referrer, books, settler, budget>>

Suspend ==
  /\ ~suspended /\ Change("suspensions")
  /\ suspended' = TRUE
  /\ UNCHANGED <<elapsed, active, open, referrer, books, settler>>

Reinstate ==
  /\ suspended
  /\ suspended' = FALSE
  /\ UNCHANGED <<elapsed, active, open, referrer, books, settler, budget>>

(* The admin switches a vault off and on. *)
CloseVault(v) ==
  /\ open[v] /\ Change("closings")
  /\ open' = [open EXCEPT ![v] = FALSE]
  /\ UNCHANGED <<elapsed, active, suspended, referrer, books, settler>>

OpenVault(v) ==
  /\ ~open[v]
  /\ open' = [open EXCEPT ![v] = TRUE]
  /\ UNCHANGED <<elapsed, active, suspended, referrer, books, settler, budget>>

(* An operator suspends or reinstates a referrer. *)
ChangeReferrer(l) ==
  /\ referrer[l] # "none" /\ Change("referrals")
  /\ referrer' = [referrer EXCEPT ![l] = IF @ = "active" THEN "inactive" ELSE "active"]
  /\ UNCHANGED <<elapsed, active, suspended, open, books, settler>>

-----------------------------------------------------------------------------
(* A call *)

At(s, pc) == settler[s].pc = pc
Go(s, pc) == settler' = [settler EXCEPT ![s].pc = pc]
Of(s) == settler[s].deposit

(* Deposits are loaded at once and settled one after the other from these  *)
(* copies; the vaults still to do come after them.                         *)
Loaded(D, V) == [Idle EXCEPT
  !.pc = "next", !.vaults = V, !.todo = D,
  !.copy = [d \in Deposits |->
    IF d \in D THEN [matured |-> cyclesMatured[d], paid |-> totalYieldPaid[d]] ELSE NoCopy[d]]]

(* What follows when the deposits of a load are done. *)
Rest(V) == IF V = {} THEN Idle ELSE [Idle EXCEPT !.pc = "vault", !.vaults = V]

(* A call of a user takes all active deposits, or the one that is redeemed. *)
Load(s, D) ==
  /\ At(s, "idle") /\ s \notin Distributors /\ D # {} /\ \A d \in D : active[d]
  /\ settler' = [settler EXCEPT ![s] = Loaded(D, {})]
  /\ UNCHANGED <<world, books, budget>>

LoadAll(s) == Load(s, {d \in Deposits : active[d]})
LoadOne(s) == \E d \in Deposits : Load(s, {d})

(* distributeMonthlyAPY, by the cron or the admin: the vaults that are     *)
(* active now, then one after the other the active deposits of each.       *)
StartDistribution(s) ==
  /\ At(s, "idle") /\ s \in Distributors /\ \E v \in Vaults : open[v]
  /\ settler' = [settler EXCEPT ![s] = Rest({v \in Vaults : open[v]})]
  /\ UNCHANGED <<world, books, budget>>

LoadVault(s, v) ==
  /\ At(s, "vault") /\ v \in settler[s].vaults
  /\ LET D == {d \in Deposits : active[d] /\ VaultOf[d] = v}
          V == settler[s].vaults \ {v}
     IN  settler' = [settler EXCEPT ![s] = IF D = {} THEN Rest(V) ELSE Loaded(D, V)]
  /\ UNCHANGED <<world, books, budget>>

(* A find that throws ends the distribution until it is started again. *)
FindThrows(s) ==
  /\ At(s, "vault") /\ Fail("faults")
  /\ settler' = [settler EXCEPT ![s] = Idle]
  /\ UNCHANGED <<world, books>>

AlreadyMatured(c) == Greater(c.matured, c.paid)

(* A mistake to find: a cycle matures when the next one is complete. *)
NewCyclesLate(s, d) == elapsed[d] - 1 - AlreadyMatured(settler[s].copy[d])

NewCycles(s, d) == elapsed[d] - AlreadyMatured(settler[s].copy[d])

Done(s, d) ==
  LET call == settler[s] IN
    settler' = [settler EXCEPT ![s] =
      IF call.todo = {d} THEN Rest(call.vaults)
      ELSE [call EXCEPT !.pc = "next", !.todo = call.todo \ {d}, !.copy[d] = NoCopy[d],
                        !.deposit = AnyDeposit, !.cycles = 0, !.completed = 0]]

NothingNew(s, d) ==
  /\ At(s, "next") /\ d \in settler[s].todo
  /\ NewCycles(s, d) <= 0 \/ suspended
  /\ Done(s, d)
  /\ UNCHANGED <<world, books, budget>>

(* A mistake to find: a settlement that found no new cycle goes on. *)
MatureAnyway(s, d) ==
  /\ At(s, "next") /\ d \in settler[s].todo /\ ~suspended
  /\ settler' = [settler EXCEPT ![s].pc = "credit", ![s].deposit = d,
                                ![s].cycles = NewCycles(s, d), ![s].completed = elapsed[d]]
  /\ UNCHANGED <<world, books, budget>>

(* New cycles completed and the user is active. *)
Mature(s, d) ==
  /\ At(s, "next") /\ d \in settler[s].todo
  /\ NewCycles(s, d) > 0 /\ ~suspended
  /\ settler' = [settler EXCEPT ![s].pc = "credit", ![s].deposit = d,
                                ![s].cycles = NewCycles(s, d), ![s].completed = elapsed[d]]
  /\ UNCHANGED <<world, books, budget>>

CreditWallet(s) ==
  /\ At(s, "credit")
  /\ credited' = [credited EXCEPT ![Of(s)] = @ + settler[s].cycles]
  /\ Go(s, "book")
  /\ UNCHANGED <<world, cyclesMatured, totalYieldPaid, logged, commission,
                 budget>>

(* A mistake to find: the total is written, not incremented. *)
BookAbsolute(s) ==
  /\ At(s, "book")
  /\ totalYieldPaid' = [totalYieldPaid EXCEPT ![Of(s)] = settler[s].completed]
  /\ cyclesMatured' = [cyclesMatured EXCEPT ![Of(s)] = settler[s].completed]
  /\ Go(s, "log")
  /\ UNCHANGED <<world, credited, logged, commission, budget>>

BookDeposit(s) ==
  /\ At(s, "book")
  /\ totalYieldPaid' = [totalYieldPaid EXCEPT ![Of(s)] = @ + settler[s].cycles]
  /\ cyclesMatured' = [cyclesMatured EXCEPT ![Of(s)] = settler[s].completed]
  /\ Go(s, "log")
  /\ UNCHANGED <<world, credited, logged, commission, budget>>

LogYield(s) ==
  /\ At(s, "log")
  /\ logged' = [logged EXCEPT ![Of(s)] = @ + settler[s].cycles]
  /\ Go(s, "referrer1")
  /\ UNCHANGED <<world, cyclesMatured, totalYieldPaid, credited, commission,
                 budget>>

(* A mistake to find: the second referrer is paid whatever the first is. *)
ReadReferrerApart(s, l) ==
  /\ At(s, IF l = 1 THEN "referrer1" ELSE "referrer2")
  /\ IF referrer[l] = "active" THEN Go(s, IF l = 1 THEN "commission1" ELSE "commission2")
     ELSE IF l = 1 THEN Go(s, "referrer2") ELSE Done(s, Of(s))
  /\ UNCHANGED <<world, books, budget>>

(* distributeReferralCommissions: the direct referrer is read, and if      *)
(* active gets a commission, and only then the second is read.             *)
ReadReferrer(s, l) ==
  /\ At(s, IF l = 1 THEN "referrer1" ELSE "referrer2")
  /\ IF referrer[l] = "active"
     THEN Go(s, IF l = 1 THEN "commission1" ELSE "commission2")
     ELSE Done(s, Of(s))
  /\ UNCHANGED <<world, books, budget>>

PayDirectReferrer(s) ==
  /\ At(s, "commission1")
  /\ commission' = [commission EXCEPT ![1][Of(s)] = @ + settler[s].cycles]
  /\ Go(s, "referrer2")
  /\ UNCHANGED <<world, cyclesMatured, totalYieldPaid, credited, logged, budget>>

PaySecondReferrer(s) ==
  /\ At(s, "commission2")
  /\ commission' = [commission EXCEPT ![2][Of(s)] = @ + settler[s].cycles]
  /\ Done(s, Of(s))
  /\ UNCHANGED <<world, cyclesMatured, totalYieldPaid, credited, logged, budget>>

Stages == {"credit", "book", "log", "referrer1", "commission1", "referrer2", "commission2"}

(* An error ends the deposit's settlement where it stands; the caller goes *)
(* on with the next.                                                       *)
SettleThrows(s) ==
  /\ settler[s].pc \in Stages
  /\ Fail("faults")
  /\ Done(s, Of(s))
  /\ UNCHANGED <<world, books>>

Crash ==
  /\ Fail("crashes")
  /\ settler' = [s \in Settlers |-> Idle]
  /\ UNCHANGED <<world, books>>

-----------------------------------------------------------------------------
Settle(s) ==
  \/ \E v \in Vaults : LoadVault(s, v)
  \/ \E d \in Deposits : NothingNew(s, d) \/ Mature(s, d)
  \/ CreditWallet(s) \/ BookDeposit(s) \/ LogYield(s)
  \/ \E l \in {1, 2} : ReadReferrer(s, l)
  \/ PayDirectReferrer(s) \/ PaySecondReferrer(s)

Next ==
  \/ \E s \in Settlers : \/ Settle(s) \/ LoadAll(s) \/ LoadOne(s) \/ StartDistribution(s)
                          \/ SettleThrows(s) \/ FindThrows(s)
  \/ \E d \in Deposits : CompleteCycle(d) \/ Redeem(d)
  \/ \E v \in Vaults : CloseVault(v) \/ OpenVault(v)
  \/ \E l \in {1, 2} : ChangeReferrer(l)
  \/ Suspend \/ Reinstate \/ Crash

Spec == Init /\ [][Next]_vars

(* The cron starts a distribution every day, and a call that began goes on. *)
Fairness ==
  /\ \A s \in Settlers : WF_vars(Settle(s))
  /\ WF_vars(StartDistribution(Cron))

FairSpec == Spec /\ Fairness

-----------------------------------------------------------------------------
(* Properties *)

(* The type invariant. *)
TypeOK ==
  /\ elapsed \in [Deposits -> 0..MaxCycles]
  /\ active \in [Deposits -> BOOLEAN] /\ suspended \in BOOLEAN
  /\ open \in [Vaults -> BOOLEAN] /\ referrer \in [{1, 2} -> ReferrerStatus]
  /\ cyclesMatured \in [Deposits -> Nat] /\ totalYieldPaid \in [Deposits -> Nat]
  /\ credited \in [Deposits -> Nat] /\ logged \in [Deposits -> Nat]
  /\ commission \in [{1, 2} -> [Deposits -> Nat]]
  /\ settler \in [Settlers ->
       [pc : {"idle", "vault", "next"} \union Stages, vaults : SUBSET Vaults,
        todo : SUBSET Deposits, copy : [Deposits -> [matured : Nat, paid : Nat]],
        deposit : Deposits, cycles : Nat, completed : Nat]]
  /\ budget \in [faults : Nat, crashes : Nat, suspensions : Nat, closings : Nat, referrals : Nat]
  /\ \A s \in Settlers : settler[s].pc \in Stages => Of(s) \in settler[s].todo /\ settler[s].cycles > 0

(* How many settlements may have been cut off: each error ends one, each   *)
(* restart all that are under way.                                         *)
CutOffs == budget.faults + budget.crashes * Cardinality(Settlers)

(* n has all of d's credited yield but what was cut off. *)
AllBut(n, d) == n <= credited[d] /\ credited[d] <= n + elapsed[d] * CutOffs

(* At rest, whatever calls overlapped, no increment is lost: the deposit's *)
(* total and the log have what the wallet was credited, but for what each  *)
(* error or restart cut off, at most what had completed.  The log is never *)
(* ahead of the total, the direct referrer's commissions never of the log  *)
(* and the second one's never of the first's; and unless a referrer's      *)
(* status changed, each has a commission on all of it, or on none when he  *)
(* or the one before him is not active.                                    *)
RecordsAgree ==
  (\A s \in Settlers : settler[s].pc = "idle") =>
    \A d \in Deposits :
      /\ AllBut(totalYieldPaid[d], d) /\ AllBut(logged[d], d)
      /\ logged[d] <= totalYieldPaid[d]
      /\ commission[1][d] <= logged[d] /\ commission[2][d] <= commission[1][d]
      /\ budget.referrals = 0 =>
           \A l \in {1, 2} : IF Gets(l) THEN AllBut(commission[l][d], d)
                             ELSE commission[l][d] = 0

(* What completed matures, after any errors and restarts, if in the end    *)
(* the deposit and its vault stay active and the user is not suspended.    *)
CyclesMature ==
  \A d \in Deposits :
    <>[](active[d] /\ open[VaultOf[d]] /\ ~suspended) => <>[](credited[d] >= elapsed[d])

-----------------------------------------------------------------------------
(* Promises the code does not keep; the README says how each is broken *)

(* "It credits ONLY newly-completed cycles (...) without ever              *)
(* double-crediting": a deposit never yields more cycles than it has       *)
(* completed, legacy deposits included.                                    *)
NeverDoubleCredited == \A d \in Deposits : credited[d] <= elapsed[d]

(* It holds as long as no two calls are under way at once; each error or   *)
(* restart that cuts a settlement off between the wallet and the deposit   *)
(* credits what had completed once more.                                   *)
OneAtATime ==
  \A s, t \in Settlers : settler[s].pc # "idle" /\ settler[t].pc # "idle" => s = t

CreditedWithin ==
  \A d \in Deposits : credited[d] <= elapsed[d] * (1 + budget.faults + budget.crashes)

ApartIsExact == []OneAtATime => []CreditedWithin
=============================================================================
