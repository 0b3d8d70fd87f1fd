------------------------ MODULE YieldMaturationProofs ------------------------
(***************************************************************************)
(* Proofs about YieldMaturation, for any number of deposits, vaults,       *)
(* calls, cycles, faults and restarts: its types, and how far the records  *)
(* of a settlement agree at rest however calls overlap.                    *)
(*                                                                         *)
(* The argument is a chain of accounts.  A settlement passes its cycles    *)
(* through the wallet, the deposit, the log and the commissions of active  *)
(* referrers in this order, so each account has what was credited but for  *)
(* what the calls have still to bring it and what errors and restarts cut  *)
(* off; what is on its way, over all calls, is the number of a disjoint    *)
(* union of blocks, one for each call.                                     *)
(*                                                                         *)
(* What overlap may break is the copy a call works from.  As long as calls *)
(* keep apart the copies are true when they are used, and no cycle is      *)
(* credited before it completed (Exact).                                   *)
(***************************************************************************)
EXTENDS YieldMaturation, FiniteSetTheorems, TLAPS

-----------------------------------------------------------------------------
(* Sums of natural numbers over a finite set *)

(* A block of f[x] pairs for each x of S, and how many pairs there are. *)
Block(f, x) == {x} \X (1..f[x])
Blocks(S, f) == UNION {Block(f, x) : x \in S}
SumOver(S, f) == Cardinality(Blocks(S, f))

LEMMA BlockSize ==
  ASSUME NEW f, NEW x, f[x] \in Nat
  PROVE  IsFiniteSet(Block(f, x)) /\ Cardinality(Block(f, x)) = f[x]
<1>1. IsFiniteSet({x}) /\ Cardinality({x}) = 1
  BY FS_Singleton
<1>2. IsFiniteSet(1..f[x]) /\ Cardinality(1..f[x]) = f[x]
  BY FS_Interval
<1>3. IsFiniteSet(Block(f, x)) /\ Cardinality(Block(f, x)) = Cardinality({x}) * Cardinality(1..f[x])
  BY <1>1, <1>2, FS_Product, Zenon DEF Block
<1> QED  BY <1>1, <1>2, <1>3

LEMMA BlocksFinite ==
  ASSUME NEW S, IsFiniteSet(S), NEW f, \A x \in S : f[x] \in Nat
  PROVE  IsFiniteSet(Blocks(S, f)) /\ SumOver(S, f) \in Nat
<1> DEFINE B == {Block(f, x) : x \in S}
           g == [x \in S |-> Block(f, x)]
<1>1. g \in Surjection(S, B)
  BY DEF Surjection
<1>2. IsFiniteSet(B)
  <2> HIDE DEF B, g
  <2> QED  BY <1>1, FS_Surjection
<1>3. \A T \in B : IsFiniteSet(T)
  BY BlockSize
<1>4. IsFiniteSet(UNION B)
  <2> HIDE DEF B
  <2> QED  BY <1>2, <1>3, FS_UNION
<1> QED  BY <1>4, FS_CardinalityType DEF Blocks, SumOver

LEMMA SumSplits ==
  ASSUME NEW S, IsFiniteSet(S), NEW f, \A x \in S : f[x] \in Nat, NEW y \in S
  PROVE  SumOver(S, f) = SumOver(S \ {y}, f) + f[y]
<1> DEFINE R == S \ {y}
<1>1. IsFiniteSet(R) /\ \A x \in R : f[x] \in Nat
  BY FS_RemoveElement
<1>2. IsFiniteSet(Blocks(R, f)) /\ SumOver(R, f) \in Nat
  <2> HIDE DEF R
  <2> QED  BY <1>1, BlocksFinite
<1>3. IsFiniteSet(Block(f, y)) /\ Cardinality(Block(f, y)) = f[y]
  BY BlockSize
<1>4. Blocks(S, f) = Blocks(R, f) \cup Block(f, y)
  BY DEF Blocks
<1>5. Blocks(R, f) \cap Block(f, y) = {}
  BY DEF Blocks, Block
<1>6. Cardinality(Blocks(R, f) \cap Block(f, y)) = 0
  BY <1>5, FS_EmptySet
<1>7. Cardinality(Blocks(R, f) \cup Block(f, y)) =
        Cardinality(Blocks(R, f)) + Cardinality(Block(f, y))
          - Cardinality(Blocks(R, f) \cap Block(f, y))
  BY <1>2, <1>3, FS_Union
<1>8. Cardinality(Blocks(R, f)) \in Nat /\ f[y] \in Nat
  BY <1>2 DEF SumOver
<1> QED  BY <1>3, <1>4, <1>6, <1>7, <1>8 DEF SumOver

(* Functions that agree have the same sum. *)
LEMMA SumAgrees ==
  ASSUME NEW S, NEW f, NEW g, \A x \in S : f[x] = g[x]
  PROVE  SumOver(S, f) = SumOver(S, g)
<1>1. \A x \in S : Block(f, x) = Block(g, x)
  BY DEF Block
<1>2. Blocks(S, f) = Blocks(S, g)
  BY <1>1 DEF Blocks
<1> QED  BY <1>2 DEF SumOver

(* A change at one point changes the sum by as much. *)
LEMMA SumMoves ==
  ASSUME NEW S, IsFiniteSet(S), NEW f, NEW g, \A x \in S : f[x] \in Nat /\ g[x] \in Nat,
         NEW y \in S, \A x \in S \ {y} : f[x] = g[x]
  PROVE  SumOver(S, g) = SumOver(S, f) - f[y] + g[y]
<1>1. SumOver(S \ {y}, f) = SumOver(S \ {y}, g)
  BY SumAgrees
<1>2. SumOver(S, f) = SumOver(S \ {y}, f) + f[y]
  BY SumSplits
<1>3. SumOver(S, g) = SumOver(S \ {y}, g) + g[y]
  BY SumSplits
<1>4. SumOver(S \ {y}, f) \in Nat
  <2>1. IsFiniteSet(S \ {y})
    BY FS_RemoveElement
  <2> QED  BY <2>1, BlocksFinite
<1>5. f[y] \in Nat /\ g[y] \in Nat
  OBVIOUS
<1> QED  BY <1>1, <1>2, <1>3, <1>4, <1>5

LEMMA SumOfNothing ==
  ASSUME NEW S, NEW f, \A x \in S : f[x] = 0
  PROVE  SumOver(S, f) = 0
<1>1. \A x \in S : Block(f, x) = {}
  BY DEF Block
<1>2. Blocks(S, f) = {}
  BY <1>1 DEF Blocks
<1> QED  BY <1>2, FS_EmptySet DEF SumOver

-----------------------------------------------------------------------------
(* Types *)

Pcs == {"idle", "vault", "next"} \union Stages
Copies == [Deposits -> [matured : Nat, paid : Nat]]
Calls == [pc : Pcs, vaults : SUBSET Vaults, todo : SUBSET Deposits, copy : Copies,
          deposit : Deposits, cycles : Nat, completed : Nat]

WorldTypes ==
  /\ elapsed \in [Deposits -> 0..MaxCycles]
  /\ active \in [Deposits -> BOOLEAN] /\ suspended \in BOOLEAN
  /\ open \in [Vaults -> BOOLEAN] /\ referrer \in [{1, 2} -> ReferrerStatus]
  /\ budget \in [faults : Nat, crashes : Nat, suspensions : Nat, closings : Nat, referrals : Nat]

BookTypes ==
  /\ cyclesMatured \in [Deposits -> Nat] /\ totalYieldPaid \in [Deposits -> Nat]
  /\ credited \in [Deposits -> Nat] /\ logged \in [Deposits -> Nat]
  /\ commission \in [{1, 2} -> [Deposits -> Nat]]

CallTypes == settler \in [Settlers -> Calls]

(* A call past its decision settles a deposit it still has to do. *)
Busy(c) == c.pc \in Stages => c.deposit \in c.todo /\ c.cycles > 0

BusyCalls == \A s \in Settlers : Busy(settler[s])

TypeInv == WorldTypes /\ BookTypes /\ CallTypes /\ BusyCalls

LEMMA TypeInvMeans == TypeInv => TypeOK
<1>1. CallTypes <=>
        settler \in [Settlers ->
          [pc : {"idle", "vault", "next"} \union Stages, vaults : SUBSET Vaults,
           todo : SUBSET Deposits, copy : [Deposits -> [matured : Nat, paid : Nat]],
           deposit : Deposits, cycles : Nat, completed : Nat]]
  BY Zenon DEF CallTypes, Calls, Copies, Pcs
<1>2. BusyCalls <=> \A s \in Settlers : settler[s].pc \in Stages =>
                       Of(s) \in settler[s].todo /\ settler[s].cycles > 0
  BY DEF BusyCalls, Busy, Of
<1> QED  BY <1>1, <1>2, Zenon DEF TypeOK, TypeInv, WorldTypes, BookTypes

LEMMA IdleTypes == Idle \in Calls /\ Busy(Idle) /\ NoCopy \in Copies /\ AnyDeposit \in Deposits
<1>1. AnyDeposit \in Deposits
  BY YieldAssumption DEF AnyDeposit
<1>2. NoCopy \in Copies
  BY DEF NoCopy, Copies
<1> QED  BY <1>1, <1>2 DEF Idle, Calls, Pcs, Stages, Busy

LEMMA RestTypes ==
  ASSUME NEW V \in SUBSET Vaults
  PROVE  Rest(V) \in Calls /\ Busy(Rest(V)) /\ Rest(V).pc \in {"idle", "vault"}
<1>1. CASE V = {}
  BY <1>1, IdleTypes DEF Rest, Idle
<1>2. CASE V # {}
  <2>1. Rest(V) = [Idle EXCEPT !.pc = "vault", !.vaults = V]
    BY <1>2 DEF Rest
  <2>2. [Idle EXCEPT !.pc = "vault", !.vaults = V] \in Calls
    BY IdleTypes DEF Calls, Pcs, Stages
  <2>3. [Idle EXCEPT !.pc = "vault", !.vaults = V].pc = "vault"
    BY DEF Idle
  <2> QED  BY <2>1, <2>2, <2>3 DEF Busy, Stages
<1> QED  BY <1>1, <1>2

LEMMA InitTypes == Init => TypeInv
<1> SUFFICES ASSUME Init PROVE TypeInv  OBVIOUS
<1>1. WorldTypes
  <2>1. MaxCycles \in Nat /\ MaxCycles > 0
    BY YieldAssumption
  <2>2. elapsed \in [Deposits -> 0..MaxCycles]
    BY <2>1 DEF Init
  <2>3. active \in [Deposits -> BOOLEAN] /\ suspended \in BOOLEAN /\ open \in [Vaults -> BOOLEAN]
    BY DEF Init
  <2>4. /\ budget \in [faults : Nat, crashes : Nat, suspensions : Nat, closings : Nat, referrals : Nat]
        /\ referrer \in [{1, 2} -> ReferrerStatus]
    BY YieldAssumption DEF Init
  <2> QED  BY <2>2, <2>3, <2>4 DEF WorldTypes
<1>2. BookTypes
  BY DEF Init, BookTypes
<1>3. CallTypes /\ BusyCalls
  BY IdleTypes DEF Init, CallTypes, BusyCalls
<1> QED  BY <1>1, <1>2, <1>3 DEF TypeInv

(* One call changes to another that fits its place. *)
LEMMA CallChanges ==
  ASSUME CallTypes, BusyCalls, NEW s \in Settlers, NEW c \in Calls, Busy(c),
         settler' = [settler EXCEPT ![s] = c]
  PROVE  CallTypes' /\ BusyCalls'
BY DEF CallTypes, BusyCalls, Busy

LEMMA LoadedTypes ==
  ASSUME BookTypes, NEW D \in SUBSET Deposits, NEW V \in SUBSET Vaults
  PROVE  /\ Loaded(D, V) \in Calls /\ Busy(Loaded(D, V))
         /\ Loaded(D, V).pc = "next" /\ Loaded(D, V).todo = D
         /\ \A d \in D : Loaded(D, V).copy[d].paid = totalYieldPaid[d]
<1> DEFINE copy == [d \in Deposits |->
                     IF d \in D THEN [matured |-> cyclesMatured[d], paid |-> totalYieldPaid[d]]
                     ELSE NoCopy[d]]
<1>1. copy \in Copies /\ \A d \in D : copy[d].paid = totalYieldPaid[d]
  BY DEF BookTypes, Copies, NoCopy
<1>2. Loaded(D, V) = [Idle EXCEPT !.pc = "next", !.vaults = V, !.todo = D, !.copy = copy]
  BY Zenon DEF Loaded
<1>3. Loaded(D, V) \in Calls
  <2> HIDE DEF copy
  <2> QED  BY <1>1, <1>2, IdleTypes DEF Calls, Pcs, Stages
<1>4. Loaded(D, V).pc = "next" /\ Loaded(D, V).todo = D /\ Loaded(D, V).copy = copy
  <2> HIDE DEF copy
  <2> QED  BY <1>2 DEF Idle
<1> QED  BY <1>1, <1>3, <1>4 DEF Busy, Stages

(* A call begins, or takes up the next vault. *)
Begins(s) ==
  \/ \E D \in SUBSET Deposits : Load(s, D)
  \/ StartDistribution(s)
  \/ \E v \in Vaults : LoadVault(s, v)

(* It becomes a call that has loaded deposits, or has still vaults to do.  *)
LEMMA BeginsMeans ==
  ASSUME TypeInv, NEW s \in Settlers, Begins(s)
  PROVE  /\ settler[s].pc \in {"idle", "vault"}
         /\ UNCHANGED <<world, books, budget>>
         /\ \E V \in SUBSET Vaults :
              \/ settler' = [settler EXCEPT ![s] = Rest(V)]
              \/ \E D \in SUBSET Deposits : settler' = [settler EXCEPT ![s] = Loaded(D, V)]
<1>1. ASSUME NEW D \in SUBSET Deposits, Load(s, D)
      PROVE  /\ settler[s].pc = "idle" /\ UNCHANGED <<world, books, budget>>
             /\ settler' = [settler EXCEPT ![s] = Loaded(D, {})]
  BY <1>1 DEF Load, At
<1>2. ASSUME StartDistribution(s)
      PROVE  /\ settler[s].pc = "idle" /\ UNCHANGED <<world, books, budget>>
             /\ settler' = [settler EXCEPT ![s] = Rest({v \in Vaults : open[v]})]
  BY <1>2 DEF StartDistribution, At
<1>3. ASSUME NEW v \in Vaults, LoadVault(s, v)
      PROVE  /\ settler[s].pc = "vault" /\ UNCHANGED <<world, books, budget>>
             /\ \/ settler' = [settler EXCEPT ![s] = Rest(settler[s].vaults \ {v})]
                \/ settler' = [settler EXCEPT ![s] =
                     Loaded({d \in Deposits : active[d] /\ VaultOf[d] = v}, settler[s].vaults \ {v})]
  BY <1>3 DEF LoadVault, At
<1>4. settler[s].vaults \in SUBSET Vaults
  BY DEF TypeInv, CallTypes, Calls
<1>5. CASE \E D \in SUBSET Deposits : Load(s, D)
  BY <1>1, <1>5
<1>6. CASE StartDistribution(s)
  <2>1. {v \in Vaults : open[v]} \in SUBSET Vaults
    OBVIOUS
  <2> QED  BY <1>2, <1>6, <2>1
<1>7. ASSUME NEW v \in Vaults, LoadVault(s, v)
      PROVE  \E V \in SUBSET Vaults :
              \/ settler' = [settler EXCEPT ![s] = Rest(V)]
              \/ \E D \in SUBSET Deposits : settler' = [settler EXCEPT ![s] = Loaded(D, V)]
  <2>1. settler[s].vaults \ {v} \in SUBSET Vaults
    BY <1>4
  <2>2. {d \in Deposits : active[d] /\ VaultOf[d] = v} \in SUBSET Deposits
    OBVIOUS
  <2> QED  BY <1>3, <1>7, <2>1, <2>2
<1> QED  BY <1>3, <1>5, <1>6, <1>7 DEF Begins

LEMMA BeginTypes ==
  ASSUME TypeInv, NEW s \in Settlers, Begins(s)
  PROVE  TypeInv'
<1> USE DEF TypeInv
<1>1. UNCHANGED <<world, books, budget>>
  BY BeginsMeans
<1>2. WorldTypes' /\ BookTypes'
  BY <1>1 DEF world, WorldTypes, BookTypes, books
<1>3. \E c \in Calls : Busy(c) /\ settler' = [settler EXCEPT ![s] = c]
  <2>1. PICK V \in SUBSET Vaults :
          \/ settler' = [settler EXCEPT ![s] = Rest(V)]
          \/ \E D \in SUBSET Deposits : settler' = [settler EXCEPT ![s] = Loaded(D, V)]
    BY BeginsMeans
  <2>2. Rest(V) \in Calls /\ Busy(Rest(V))
    BY RestTypes
  <2>3. \A D \in SUBSET Deposits : Loaded(D, V) \in Calls /\ Busy(Loaded(D, V))
    BY LoadedTypes
  <2> QED  BY <2>1, <2>2, <2>3
<1>4. CallTypes' /\ BusyCalls'
  BY <1>3, CallChanges
<1> QED  BY <1>2, <1>4

(* The call goes on to its next deposit, or is over. *)
LEMMA DoneTypes ==
  ASSUME CallTypes, BusyCalls, NEW s \in Settlers, NEW d \in Deposits, Done(s, d)
  PROVE  CallTypes' /\ BusyCalls'
<1> DEFINE old == settler[s]
           c == IF old.todo = {d} THEN Rest(old.vaults)
                ELSE [old EXCEPT !.pc = "next", !.todo = old.todo \ {d}, !.copy[d] = NoCopy[d],
                                 !.deposit = AnyDeposit, !.cycles = 0, !.completed = 0]
<1>1. old \in Calls
  BY DEF CallTypes
<1>2. c \in Calls /\ Busy(c)
  <2>1. CASE old.todo = {d}
    <3>1. old.vaults \in SUBSET Vaults
      BY <1>1 DEF Calls
    <3> QED  BY <2>1, <3>1, RestTypes
  <2>2. CASE old.todo # {d}
    <3>1. [old.copy EXCEPT ![d] = NoCopy[d]] \in Copies
      BY <1>1, IdleTypes DEF Calls, Copies
    <3> QED  BY <1>1, <2>2, <3>1, IdleTypes DEF Calls, Busy, Pcs, Stages
  <2> QED  BY <2>1, <2>2
<1>3. settler' = [settler EXCEPT ![s] = c]
  BY DEF Done
<1> HIDE DEF c
<1> QED  BY <1>2, <1>3, CallChanges

LEMMA MatureTypes ==
  ASSUME TypeInv, NEW s \in Settlers, NEW d \in Deposits, Mature(s, d)
  PROVE  CallTypes' /\ BusyCalls'
<1> USE DEF TypeInv
<1> DEFINE c == [settler[s] EXCEPT !.pc = "credit", !.deposit = d, !.cycles = NewCycles(s, d),
                                   !.completed = elapsed[d]]
<1>1. settler[s] \in Calls
  BY DEF CallTypes
<1>2. elapsed[d] \in Nat
  BY YieldAssumption DEF WorldTypes
<1>3. NewCycles(s, d) \in Nat /\ NewCycles(s, d) > 0 /\ d \in settler[s].todo
  <2>1. AlreadyMatured(settler[s].copy[d]) \in Nat
    BY <1>1 DEF Calls, Copies, AlreadyMatured, Greater
  <2> QED  BY <1>2, <2>1 DEF Mature, NewCycles
<1>4. c \in Calls /\ Busy(c)
  BY <1>1, <1>2, <1>3 DEF Calls, Busy, Pcs, Stages
<1>5. settler' = [settler EXCEPT ![s] = c]
  BY DEF Mature, CallTypes
<1> HIDE DEF c
<1> QED  BY <1>4, <1>5, CallChanges

LEMMA GoTypes ==
  ASSUME CallTypes, BusyCalls, NEW s \in Settlers, settler[s].pc \in Stages,
         NEW pc \in Stages, Go(s, pc)
  PROVE  CallTypes' /\ BusyCalls'
<1> DEFINE c == [settler[s] EXCEPT !.pc = pc]
<1>1. settler[s] \in Calls /\ Busy(settler[s])
  BY DEF CallTypes, BusyCalls
<1>2. c \in Calls /\ Busy(c)
  BY <1>1 DEF Calls, Busy, Pcs, Stages
<1>3. settler' = [settler EXCEPT ![s] = c]
  BY DEF Go, CallTypes
<1> HIDE DEF c
<1> QED  BY <1>2, <1>3, CallChanges

(* The deposit a call is at, and what it carries. *)
LEMMA CallAt ==
  ASSUME CallTypes, NEW s \in Settlers
  PROVE  Of(s) \in Deposits /\ settler[s].cycles \in Nat /\ settler[s].completed \in Nat
BY DEF CallTypes, Calls, Of

WorldMoves == \/ \E d \in Deposits : CompleteCycle(d) \/ Redeem(d)
              \/ \E v \in Vaults : CloseVault(v) \/ OpenVault(v)
              \/ \E l \in {1, 2} : ChangeReferrer(l)
              \/ Suspend \/ Reinstate

(* What happens around the calls touches neither them nor the books, and a *)
(* referrer's change is counted.                                           *)
LEMMA WorldTypesKept ==
  ASSUME TypeInv, WorldMoves
  PROVE  /\ WorldTypes' /\ UNCHANGED <<books, settler>>
         /\ budget'.faults = budget.faults /\ budget'.crashes = budget.crashes
         /\ budget'.referrals = 0 => budget.referrals = 0 /\ referrer' = referrer
<1> USE DEF TypeInv
<1>0. /\ budget.faults \in Nat /\ budget.crashes \in Nat /\ budget.suspensions \in Nat
      /\ budget.closings \in Nat /\ budget.referrals \in Nat
      /\ budget = [faults |-> budget.faults, crashes |-> budget.crashes,
                   suspensions |-> budget.suspensions, closings |-> budget.closings,
                   referrals |-> budget.referrals]
  BY DEF WorldTypes
<1>1. ASSUME NEW d \in Deposits, CompleteCycle(d)
      PROVE  WorldTypes' /\ UNCHANGED <<books, settler, budget, referrer>>
  <2>1. MaxCycles \in Nat
    BY YieldAssumption
  <2> QED  BY <1>1, <2>1 DEF CompleteCycle, WorldTypes
<1>2. ASSUME NEW d \in Deposits, Redeem(d)
      PROVE  WorldTypes' /\ UNCHANGED <<books, settler, budget, referrer>>
  BY <1>2 DEF Redeem, WorldTypes
<1>3. CASE Suspend
  <2>1. budget' = [budget EXCEPT !.suspensions = @ + 1]
    BY <1>3 DEF Suspend, Change
  <2>2. UNCHANGED <<elapsed, active, open, referrer, books, settler>> /\ suspended' \in BOOLEAN
    BY <1>3 DEF Suspend
  <2> QED  BY <1>0, <2>1, <2>2 DEF WorldTypes
<1>4. CASE Reinstate
  <2>1. suspended' \in BOOLEAN /\ UNCHANGED <<elapsed, active, open, referrer, books, settler, budget>>
    BY <1>4 DEF Reinstate
  <2> QED  BY <2>1 DEF WorldTypes
<1>5. ASSUME NEW v \in Vaults, CloseVault(v)
      PROVE  /\ WorldTypes' /\ UNCHANGED <<books, settler, referrer>>
             /\ budget' = [budget EXCEPT !.closings = @ + 1]
  <2>1. budget' = [budget EXCEPT !.closings = @ + 1]
    BY <1>5 DEF CloseVault, Change
  <2>2. /\ UNCHANGED <<elapsed, active, suspended, referrer, books, settler>>
        /\ open' = [open EXCEPT ![v] = FALSE]
    BY <1>5 DEF CloseVault
  <2> QED  BY <1>0, <2>1, <2>2 DEF WorldTypes
<1>6. ASSUME NEW v \in Vaults, OpenVault(v)
      PROVE  WorldTypes' /\ UNCHANGED <<books, settler, budget, referrer>>
  BY <1>6 DEF OpenVault, WorldTypes
<1>7. ASSUME NEW l \in {1, 2}, ChangeReferrer(l)
      PROVE  /\ WorldTypes' /\ UNCHANGED <<books, settler>>
             /\ budget' = [budget EXCEPT !.referrals = @ + 1]
  <2>1. budget' = [budget EXCEPT !.referrals = @ + 1]
    BY <1>7 DEF ChangeReferrer, Change
  <2>2. /\ UNCHANGED <<elapsed, active, suspended, open, books, settler>>
        /\ referrer' = [referrer EXCEPT ![l] = IF @ = "active" THEN "inactive" ELSE "active"]
    BY <1>7 DEF ChangeReferrer
  <2>3. referrer' \in [{1, 2} -> ReferrerStatus]
    BY <2>2 DEF WorldTypes, ReferrerStatus
  <2> QED  BY <1>0, <2>1, <2>2, <2>3 DEF WorldTypes
<1> QED  BY <1>0, <1>1, <1>2, <1>3, <1>4, <1>5, <1>6, <1>7 DEF WorldMoves

(* Cycles only complete. *)
LEMMA ElapsedGrows ==
  ASSUME TypeInv, WorldMoves
  PROVE  \A d \in Deposits : elapsed[d] \in Nat /\ elapsed'[d] \in Nat /\ elapsed'[d] >= elapsed[d]
<1>1. \A d \in Deposits : elapsed[d] \in Nat
  BY YieldAssumption DEF TypeInv, WorldTypes
<1>2. ASSUME NEW e \in Deposits, CompleteCycle(e)
      PROVE  \A d \in Deposits : elapsed'[d] = IF d = e THEN elapsed[d] + 1 ELSE elapsed[d]
  BY <1>2 DEF CompleteCycle, TypeInv, WorldTypes
<1>3. CASE UNCHANGED elapsed
  BY <1>1, <1>3
<1>4. ASSUME NEW e \in Deposits, CompleteCycle(e)
      PROVE  \A d \in Deposits : elapsed'[d] \in Nat /\ elapsed'[d] >= elapsed[d]
  BY <1>1, <1>2, <1>4
<1>5. UNCHANGED elapsed \/ \E e \in Deposits : CompleteCycle(e)
  BY DEF WorldMoves, Redeem, Suspend, Reinstate, CloseVault, OpenVault, ChangeReferrer
<1> QED  BY <1>1, <1>3, <1>4, <1>5

CutOff == (\E s \in Settlers : SettleThrows(s) \/ FindThrows(s)) \/ Crash

(* A fault or a restart is counted and leaves the books alone. *)
LEMMA CutOffTypes ==
  ASSUME TypeInv, CutOff
  PROVE  TypeInv' /\ UNCHANGED <<world, books>> /\ budget'.referrals = budget.referrals
<1> USE DEF TypeInv
<1>1. UNCHANGED <<world, books>> /\ \E k \in {"faults", "crashes"} : Fail(k)
  BY DEF CutOff, SettleThrows, FindThrows, Crash
<1>2. WorldTypes' /\ BookTypes' /\ budget'.referrals = budget.referrals
  <2>1. \E k \in {"faults", "crashes"} : budget' = [budget EXCEPT ![k] = @ + 1]
    BY <1>1 DEF Fail
  <2>2. /\ budget' \in [faults : Nat, crashes : Nat, suspensions : Nat, closings : Nat, referrals : Nat]
        /\ budget'.referrals = budget.referrals
    BY <2>1 DEF WorldTypes
  <2> QED  BY <1>1, <2>2 DEF world, WorldTypes, BookTypes, books
<1>3. ASSUME NEW s \in Settlers, SettleThrows(s) PROVE CallTypes' /\ BusyCalls'
  <2>1. Of(s) \in Deposits
    BY CallAt
  <2> QED  BY <1>3, <2>1, DoneTypes DEF SettleThrows
<1>4. ASSUME NEW s \in Settlers, FindThrows(s) PROVE CallTypes' /\ BusyCalls'
  BY <1>4, IdleTypes, CallChanges DEF FindThrows
<1>5. ASSUME Crash PROVE CallTypes' /\ BusyCalls'
  BY <1>5, IdleTypes DEF Crash, CallTypes, BusyCalls
<1> QED  BY <1>1, <1>2, <1>3, <1>4, <1>5 DEF CutOff

(* The steps that carry cycles into the books. *)
Carries(s) ==
  \/ CreditWallet(s) \/ BookDeposit(s) \/ LogYield(s)
  \/ \E l \in {1, 2} : ReadReferrer(s, l)
  \/ PayDirectReferrer(s) \/ PaySecondReferrer(s)

LEMMA CarryTypes ==
  ASSUME TypeInv, NEW s \in Settlers, Carries(s)
  PROVE  TypeInv' /\ UNCHANGED <<world, budget>>
<1> USE DEF TypeInv
<1>1. /\ Of(s) \in Deposits /\ settler[s].cycles \in Nat /\ settler[s].completed \in Nat
  BY CallAt
<1>2. WorldTypes' /\ UNCHANGED <<world, budget>>
  <2>1. UNCHANGED <<world, budget>>
    BY DEF Carries, CreditWallet, BookDeposit, LogYield, ReadReferrer, PayDirectReferrer,
           PaySecondReferrer
  <2> QED  BY <2>1 DEF WorldTypes, world
<1>3. CASE CreditWallet(s)
  <2>1. CallTypes' /\ BusyCalls'
    BY <1>3, GoTypes DEF CreditWallet, At, Stages
  <2>2. BookTypes'
    BY <1>1, <1>3 DEF CreditWallet, BookTypes
  <2> QED  BY <1>2, <2>1, <2>2
<1>4. CASE BookDeposit(s)
  <2>1. CallTypes' /\ BusyCalls'
    BY <1>4, GoTypes DEF BookDeposit, At, Stages
  <2>2. BookTypes'
    BY <1>1, <1>4 DEF BookDeposit, BookTypes
  <2> QED  BY <1>2, <2>1, <2>2
<1>5. CASE LogYield(s)
  <2>1. CallTypes' /\ BusyCalls'
    BY <1>5, GoTypes DEF LogYield, At, Stages
  <2>2. BookTypes'
    BY <1>1, <1>5 DEF LogYield, BookTypes
  <2> QED  BY <1>2, <2>1, <2>2
<1>6. ASSUME NEW l \in {1, 2}, ReadReferrer(s, l) PROVE TypeInv'
  <2>1. settler[s].pc \in Stages /\ UNCHANGED books
        /\ (Done(s, Of(s)) \/ \E pc \in Stages : Go(s, pc))
    BY <1>6 DEF ReadReferrer, At, Stages
  <2>2. CallTypes' /\ BusyCalls'
    BY <1>1, <2>1, GoTypes, DoneTypes
  <2> QED  BY <1>2, <2>1, <2>2 DEF BookTypes, books
<1>7. CASE PayDirectReferrer(s)
  <2>1. CallTypes' /\ BusyCalls'
    BY <1>7, GoTypes DEF PayDirectReferrer, At, Stages
  <2>2. BookTypes'
    BY <1>1, <1>7 DEF PayDirectReferrer, BookTypes
  <2> QED  BY <1>2, <2>1, <2>2
<1>8. CASE PaySecondReferrer(s)
  <2>1. CallTypes' /\ BusyCalls'
    BY <1>1, <1>8, DoneTypes DEF PaySecondReferrer
  <2>2. BookTypes'
    BY <1>1, <1>8 DEF PaySecondReferrer, BookTypes
  <2> QED  BY <1>2, <2>1, <2>2
<1> QED  BY <1>2, <1>3, <1>4, <1>5, <1>6, <1>7, <1>8 DEF Carries

(* Loading, deciding, passing over: no book changes. *)
Decides(s) == Begins(s) \/ \E d \in Deposits : NothingNew(s, d) \/ Mature(s, d)

LEMMA DecideTypes ==
  ASSUME TypeInv, NEW s \in Settlers, Decides(s)
  PROVE  TypeInv' /\ UNCHANGED <<world, books, budget>>
<1> USE DEF TypeInv
<1>1. CASE Begins(s)
  BY <1>1, BeginTypes, BeginsMeans
<1>2. ASSUME NEW d \in Deposits, NothingNew(s, d)
      PROVE  TypeInv' /\ UNCHANGED <<world, books, budget>>
  <2>1. CallTypes' /\ BusyCalls'
    BY <1>2, DoneTypes DEF NothingNew
  <2>2. UNCHANGED <<world, books, budget>>
    BY <1>2 DEF NothingNew
  <2> QED  BY <2>1, <2>2 DEF world, WorldTypes, BookTypes, books
<1>3. ASSUME NEW d \in Deposits, Mature(s, d)
      PROVE  TypeInv' /\ UNCHANGED <<world, books, budget>>
  <2>1. CallTypes' /\ BusyCalls'
    BY <1>3, MatureTypes
  <2>2. UNCHANGED <<world, books, budget>>
    BY <1>3 DEF Mature
  <2> QED  BY <2>1, <2>2 DEF world, WorldTypes, BookTypes, books
<1> QED  BY <1>1, <1>2, <1>3 DEF Decides

(* Every step is of one of these kinds. *)
LEMMA StepKinds ==
  Next => WorldMoves \/ CutOff \/ \E s \in Settlers : Decides(s) \/ Carries(s)
<1>1. \A s \in Settlers : LoadAll(s) \/ LoadOne(s) \/ StartDistribution(s) => Decides(s)
  BY DEF LoadAll, LoadOne, Decides, Begins
<1>2. \A s \in Settlers : Settle(s) => Decides(s) \/ Carries(s)
  BY DEF Settle, Decides, Begins, Carries
<1> QED  BY <1>1, <1>2 DEF Next, WorldMoves, CutOff

LEMMA StepTypes == TypeInv /\ [Next]_vars => TypeInv'
<1> SUFFICES ASSUME TypeInv, [Next]_vars PROVE TypeInv'  OBVIOUS
<1>1. CASE WorldMoves
  BY <1>1, WorldTypesKept DEF TypeInv, BookTypes, CallTypes, BusyCalls, books
<1>2. CASE UNCHANGED vars
  BY <1>2 DEF vars, books, TypeInv, WorldTypes, BookTypes, CallTypes, BusyCalls
<1> QED  BY <1>1, <1>2, CutOffTypes, CarryTypes, DecideTypes, StepKinds

(* The elapsed cycles, the books, the calls and the counts of what was cut *)
(* off keep their types, and a call past its decision carries at least one *)
(* cycle of a deposit it has still to settle.                              *)
THEOREM TypeCorrect == Spec => []TypeOK
BY InitTypes, StepTypes, TypeInvMeans, PTL DEF Spec

-----------------------------------------------------------------------------
(* The chain of accounts *)

(* What a call carries for d while at one of the places P, and the places  *)
(* at which its cycles have not come to an account yet.                    *)
Share(P, d) == [s \in Settlers |->
  IF settler[s].pc \in P /\ settler[s].deposit = d THEN settler[s].cycles ELSE 0]
Owing(P, d) == SumOver(Settlers, Share(P, d))

ToBook == {"book"}
ToLog == {"book", "log"}
ToDirect == {"book", "log", "referrer1", "commission1"}
ToSecond == {"book", "log", "referrer1", "commission1", "referrer2", "commission2"}
AtFirst == {"referrer1", "commission1"}
AtSecond == {"referrer2", "commission2"}

(* An account with n of d has what was credited, but for what the calls    *)
(* have still to bring it and what was cut off.                            *)
Covers(n, P, d) ==
  n + Owing(P, d) <= credited[d] /\ credited[d] <= n + Owing(P, d) + elapsed[d] * CutOffs

(* Each account is ahead of the next at least by what is on its way.       *)
Accounts(d) ==
  /\ Covers(totalYieldPaid[d], ToBook, d)
  /\ Covers(logged[d], ToLog, d)
  /\ logged[d] + Owing({"log"}, d) <= totalYieldPaid[d]
  /\ commission[1][d] + Owing(AtFirst, d) <= logged[d]
  /\ commission[2][d] + Owing(AtSecond, d) <= commission[1][d]

(* While no referrer's status changes, who gets a commission gets all.     *)
Commissions(d) ==
  /\ IF Gets(1) THEN Covers(commission[1][d], ToDirect, d) ELSE commission[1][d] = 0
  /\ IF Gets(2) THEN Covers(commission[2][d], ToSecond, d) ELSE commission[2][d] = 0

ReadOf(c) ==
  /\ c.pc \in {"commission1", "referrer2", "commission2"} => Gets(1)
  /\ c.pc = "commission2" => Gets(2)

(* No call carries more than had completed. *)
Timed(c) == c.pc \in Stages => c.cycles <= elapsed[c.deposit]

Settled ==
  /\ \A s \in Settlers : Timed(settler[s])
  /\ \A d \in Deposits : Accounts(d)
  /\ budget.referrals = 0 => /\ \A d \in Deposits : Commissions(d)
                             /\ \A s \in Settlers : ReadOf(settler[s])

IInv == TypeInv /\ Settled

LEMMA ShareTypes ==
  ASSUME CallTypes
  PROVE  \A P, d : \A s \in Settlers : Share(P, d)[s] \in Nat
BY DEF CallTypes, Calls, Share

LEMMA OwingTypes ==
  ASSUME CallTypes
  PROVE  \A P, d : Owing(P, d) \in Nat
BY ShareTypes, BlocksFinite, YieldAssumption DEF Owing

LEMMA OwingTypesNext ==
  ASSUME CallTypes'
  PROVE  \A P, d : Owing(P, d)' \in Nat
<1> SUFFICES ASSUME NEW P, NEW d PROVE Owing(P, d)' \in Nat  OBVIOUS
<1> DEFINE g == Share(P, d)'
<1>1. \A s \in Settlers : g[s] \in Nat
  BY DEF CallTypes, Calls, Share
<1>2. SumOver(Settlers, g) \in Nat
  <2> HIDE DEF g
  <2> QED  BY <1>1, BlocksFinite, YieldAssumption
<1> QED  BY <1>2 DEF Owing

LEMMA GetsMeans ==
  /\ Gets(1) <=> referrer[1] = "active"
  /\ Gets(2) <=> referrer[1] = "active" /\ referrer[2] = "active"
<1>1. 1..1 = {1} /\ 1..2 = {1, 2}
  OBVIOUS
<1> QED  BY <1>1 DEF Gets

(* What is bounded for each is bounded by as many times the bound. *)
LEMMA SumBounded ==
  ASSUME NEW S, IsFiniteSet(S), NEW n \in Nat, NEW f, \A x \in S : f[x] \in 0..n
  PROVE  SumOver(S, f) <= Cardinality(S) * n
<1>1. IsFiniteSet(1..n) /\ Cardinality(1..n) = n
  BY FS_Interval
<1>2. IsFiniteSet(S \X (1..n)) /\ Cardinality(S \X (1..n)) = Cardinality(S) * n
  BY <1>1, FS_Product
<1>3. Blocks(S, f) \in SUBSET (S \X (1..n))
  <2> SUFFICES ASSUME NEW x \in S, NEW p \in Block(f, x) PROVE p \in S \X (1..n)
    BY DEF Blocks
  <2>1. f[x] \in 0..n /\ 1..f[x] \subseteq 1..n
    OBVIOUS
  <2> QED  BY <2>1 DEF Block
<1> QED  BY <1>2, <1>3, FS_Subset DEF SumOver

(* A step of s moves what it carries. *)
Moves(s) ==
  /\ \A t \in Settlers \ {s} : settler'[t] = settler[t]
  /\ settler'[s].pc \in ToSecond =>
       settler'[s].deposit = Of(s) /\ settler'[s].cycles = settler[s].cycles

LEMMA OwingMoves ==
  ASSUME CallTypes, CallTypes', NEW s \in Settlers, Moves(s), NEW P \in SUBSET ToSecond, NEW d
  PROVE  Owing(P, d)' = IF d # Of(s) THEN Owing(P, d)
                        ELSE Owing(P, d) - (IF settler[s].pc \in P THEN settler[s].cycles ELSE 0)
                                         + (IF settler'[s].pc \in P THEN settler[s].cycles ELSE 0)
<1> DEFINE f == Share(P, d)
           g == Share(P, d)'
<1>1. \A x \in Settlers : f[x] \in Nat /\ g[x] \in Nat
  BY DEF CallTypes, Calls, Share
<1>2. \A x \in Settlers \ {s} : f[x] = g[x]
  BY DEF Share, Moves
<1>3. IsFiniteSet(Settlers)
  BY YieldAssumption
<1>4. SumOver(Settlers, g) = SumOver(Settlers, f) - f[s] + g[s] /\ SumOver(Settlers, f) \in Nat
  <2> HIDE DEF f, g
  <2> QED  BY <1>1, <1>2, <1>3, SumMoves, BlocksFinite
<1>5. /\ f[s] = IF settler[s].pc \in P /\ Of(s) = d THEN settler[s].cycles ELSE 0
      /\ g[s] = IF settler'[s].pc \in P /\ Of(s) = d THEN settler[s].cycles ELSE 0
  BY DEF Share, Of, Moves
<1>6. settler[s].cycles \in Nat
  BY CallAt
<1>7. Owing(P, d) = SumOver(Settlers, f) /\ Owing(P, d)' = SumOver(Settlers, g)
  BY DEF Owing
<1> HIDE DEF f, g
<1> QED  BY <1>4, <1>5, <1>6, <1>7

LEMMA GoMoves ==
  ASSUME TypeInv, NEW s \in Settlers, NEW pc, Go(s, pc)
  PROVE  Moves(s) /\ settler'[s].pc = pc /\ settler'[s].deposit = Of(s)
         /\ settler'[s].cycles = settler[s].cycles
BY DEF TypeInv, CallTypes, Calls, Go, Moves, Of

LEMMA DoneMoves ==
  ASSUME TypeInv, NEW s \in Settlers, NEW d \in Deposits, Done(s, d)
  PROVE  /\ settler'[s].pc \in {"idle", "vault", "next"} /\ Moves(s)
         /\ settler'[s].pc = "next" =>
              /\ settler'[s].todo = settler[s].todo \ {d}
              /\ \A e \in settler[s].todo \ {d} : settler'[s].copy[e] = settler[s].copy[e]
<1>0. settler \in [Settlers -> Calls] /\ settler[s] \in Calls
  BY DEF TypeInv, CallTypes
<1>1. CASE settler[s].todo = {d}
  <2>1. settler' = [settler EXCEPT ![s] = Rest(settler[s].vaults)]
    BY <1>1 DEF Done
  <2>2. settler'[s] = Rest(settler[s].vaults) /\ \A t \in Settlers \ {s} : settler'[t] = settler[t]
    BY <1>0, <2>1
  <2>3. Rest(settler[s].vaults).pc \in {"idle", "vault"}
    BY <1>0, RestTypes DEF Calls
  <2> QED  BY <2>2, <2>3 DEF Moves, ToSecond
<1>2. CASE settler[s].todo # {d}
  <2> DEFINE c == [settler[s] EXCEPT !.pc = "next", !.todo = settler[s].todo \ {d},
                     !.copy[d] = NoCopy[d], !.deposit = AnyDeposit, !.cycles = 0, !.completed = 0]
  <2>1. settler' = [settler EXCEPT ![s] = c]
    BY <1>2 DEF Done
  <2>2. c.pc = "next" /\ c.todo = settler[s].todo \ {d} /\ c.copy = [settler[s].copy EXCEPT ![d] = NoCopy[d]]
    BY <1>0 DEF Calls
  <2>3. settler'[s] = c /\ \A t \in Settlers \ {s} : settler'[t] = settler[t]
    <3> HIDE DEF c
    <3> QED  BY <1>0, <2>1
  <2>4. \A e \in settler[s].todo \ {d} : c.copy[e] = settler[s].copy[e]
    <3> HIDE DEF c
    <3> QED  BY <1>0, <2>2 DEF Calls, Copies
  <2> HIDE DEF c
  <2> QED  BY <2>2, <2>3, <2>4 DEF Moves, ToSecond
<1> QED  BY <1>1, <1>2

(* A step that neither completes a cycle nor cuts off: where it carries    *)
(* cycles it takes them from what had completed.                           *)
LEMMA TimedMoves ==
  ASSUME IInv, NEW s \in Settlers, Moves(s), elapsed' = elapsed,
         settler'[s].pc \in Stages =>
           settler[s].pc \in Stages /\ settler'[s].deposit = Of(s) /\ settler'[s].cycles = settler[s].cycles
  PROVE  \A t \in Settlers : Timed(settler[t])'
<1>1. \A t \in Settlers : Timed(settler[t])
  BY DEF IInv, Settled
<1>2. Timed(settler[s])'
  BY <1>1 DEF Timed, Of
<1>3. ASSUME NEW t \in Settlers \ {s} PROVE Timed(settler[t])'
  <2>1. settler'[t] = settler[t]
    BY DEF Moves
  <2> QED  BY <1>1, <2>1 DEF Timed
<1> QED  BY <1>2, <1>3

LEMMA BoundTypes ==
  ASSUME TypeInv
  PROVE  /\ CutOffs \in Nat /\ budget.faults \in Nat /\ budget.crashes \in Nat
         /\ \A d \in Deposits :
              /\ elapsed[d] \in Nat /\ elapsed[d] * CutOffs \in Nat /\ credited[d] \in Nat
              /\ totalYieldPaid[d] \in Nat /\ logged[d] \in Nat
              /\ commission[1][d] \in Nat /\ commission[2][d] \in Nat
<1>1. budget.faults \in Nat /\ budget.crashes \in Nat /\ Cardinality(Settlers) \in Nat
  BY YieldAssumption, FS_CardinalityType DEF TypeInv, WorldTypes
<1>2. \A m, n \in Nat : m * n \in Nat
  OBVIOUS
<1>3. CutOffs \in Nat
  BY <1>1, <1>2 DEF CutOffs
<1>4. \A d \in Deposits :
        /\ elapsed[d] \in Nat /\ credited[d] \in Nat
        /\ totalYieldPaid[d] \in Nat /\ logged[d] \in Nat
        /\ commission[1][d] \in Nat /\ commission[2][d] \in Nat
  BY YieldAssumption DEF TypeInv, WorldTypes, BookTypes
<1> QED  BY <1>1, <1>2, <1>3, <1>4

LEMMA LagTypesNext ==
  ASSUME TypeInv'
  PROVE  CutOffs' \in Nat /\ \A d \in Deposits : elapsed'[d] \in Nat /\ elapsed'[d] * CutOffs' \in Nat
<1>1. budget'.faults \in Nat /\ budget'.crashes \in Nat /\ Cardinality(Settlers) \in Nat
  BY YieldAssumption, FS_CardinalityType DEF TypeInv, WorldTypes
<1>2. \A m, n \in Nat : m * n \in Nat
  OBVIOUS
<1>3. CutOffs' \in Nat
  BY <1>1, <1>2 DEF CutOffs
<1>4. \A d \in Deposits : elapsed'[d] \in Nat
  BY YieldAssumption DEF TypeInv, WorldTypes
<1> QED  BY <1>2, <1>3, <1>4

(* The commissions go by the referrers read: where the statuses stand, a   *)
(* call that has read them goes on as they say.                            *)
LEMMA ReadMoves ==
  ASSUME IInv, NEW s \in Settlers, Moves(s), budget' = budget, referrer' = referrer,
         settler'[s].pc = "commission1" => referrer[1] = "active",
         settler'[s].pc = "referrer2" => settler[s].pc = "commission1",
         settler'[s].pc = "commission2" => settler[s].pc = "referrer2" /\ referrer[2] = "active",
         budget.referrals = 0
  PROVE  \A t \in Settlers : ReadOf(settler[t])'
<1>1. \A t \in Settlers : ReadOf(settler[t])
  BY DEF IInv, Settled
<1>2. (Gets(1)' <=> Gets(1)) /\ (Gets(2)' <=> Gets(2))
  BY DEF Gets
<1>3. ReadOf(settler[s])'
  <2>1. CASE settler'[s].pc = "commission1"
    BY <2>1, GetsMeans, <1>2 DEF ReadOf
  <2>2. CASE settler'[s].pc = "referrer2"
    BY <1>1, <2>2, <1>2 DEF ReadOf
  <2>3. CASE settler'[s].pc = "commission2"
    BY <1>1, <2>3, GetsMeans, <1>2 DEF ReadOf
  <2>4. CASE settler'[s].pc \notin {"commission1", "referrer2", "commission2"}
    BY <2>4 DEF ReadOf
  <2> QED  BY <2>1, <2>2, <2>3, <2>4
<1>4. ASSUME NEW t \in Settlers \ {s} PROVE ReadOf(settler[t])'
  <2>1. settler'[t] = settler[t]
    BY DEF Moves
  <2> QED  BY <1>1, <1>2, <2>1 DEF ReadOf
<1> QED  BY <1>3, <1>4

(* A deposit at which nothing moves. *)
Still(d) ==
  /\ credited'[d] = credited[d] /\ totalYieldPaid'[d] = totalYieldPaid[d]
  /\ logged'[d] = logged[d]
  /\ commission'[1][d] = commission[1][d] /\ commission'[2][d] = commission[2][d]
  /\ \A P \in {ToBook, ToLog, {"log"}, ToDirect, ToSecond, AtFirst, AtSecond} :
       Owing(P, d)' = Owing(P, d)

LEMMA StillAgrees ==
  ASSUME TypeInv, TypeInv', NEW d \in Deposits, Still(d), Accounts(d),
         elapsed'[d] * CutOffs' >= elapsed[d] * CutOffs
  PROVE  Accounts(d)' /\ (referrer' = referrer /\ Commissions(d) => Commissions(d)')
<1>1. \A P : Owing(P, d) \in Nat /\ Owing(P, d)' \in Nat
  BY OwingTypes, OwingTypesNext DEF TypeInv
<1>2. /\ credited[d] \in Nat /\ elapsed[d] * CutOffs \in Nat /\ totalYieldPaid[d] \in Nat
      /\ logged[d] \in Nat /\ commission[1][d] \in Nat /\ commission[2][d] \in Nat
      /\ elapsed'[d] * CutOffs' \in Nat
  BY BoundTypes, LagTypesNext
<1>3. \A n \in Nat, P \in {ToBook, ToLog, {"log"}, ToDirect, ToSecond, AtFirst, AtSecond} :
        n + Owing(P, d) <= credited[d] /\ credited[d] <= n + Owing(P, d) + elapsed[d] * CutOffs
          => n + Owing(P, d)' <= credited'[d] /\ credited'[d] <= n + Owing(P, d)' + elapsed'[d] * CutOffs'
  <2> SUFFICES ASSUME NEW n \in Nat,
                      NEW P \in {ToBook, ToLog, {"log"}, ToDirect, ToSecond, AtFirst, AtSecond},
                      n + Owing(P, d) <= credited[d],
                      credited[d] <= n + Owing(P, d) + elapsed[d] * CutOffs
               PROVE  /\ n + Owing(P, d)' <= credited'[d]
                      /\ credited'[d] <= n + Owing(P, d)' + elapsed'[d] * CutOffs'
    OBVIOUS
  <2>1. Owing(P, d)' = Owing(P, d) /\ credited'[d] = credited[d] /\ Owing(P, d) \in Nat
    BY <1>1 DEF Still
  <2>2. n + Owing(P, d)' <= credited'[d]
    BY <2>1
  <2>3. credited[d] <= n + Owing(P, d) + elapsed'[d] * CutOffs'
    BY <1>2, <2>1
  <2> QED  BY <2>1, <2>2, <2>3
<1>4. Accounts(d)'
  BY <1>2, <1>3 DEF Still, Accounts, Covers
<1>5. ASSUME referrer' = referrer, Commissions(d) PROVE Commissions(d)'
  <2>1. (Gets(1)' <=> Gets(1)) /\ (Gets(2)' <=> Gets(2))
    BY <1>5 DEF Gets
  <2> QED  BY <1>2, <1>3, <1>5, <2>1 DEF Still, Commissions, Covers
<1> QED  BY <1>4, <1>5

(* What a step that carries changes, and that it changes nothing of other  *)
(* deposits.                                                               *)
LEMMA CarryMoves ==
  ASSUME TypeInv, TypeInv', NEW s \in Settlers, Carries(s)
  PROVE  /\ Moves(s) /\ settler[s].pc \in Stages
         /\ settler'[s].pc \in Stages =>
              settler'[s].deposit = Of(s) /\ settler'[s].cycles = settler[s].cycles
         /\ settler'[s].pc = "commission1" => referrer[1] = "active"
         /\ settler'[s].pc = "referrer2" => settler[s].pc = "commission1"
         /\ settler'[s].pc = "commission2" => settler[s].pc = "referrer2" /\ referrer[2] = "active"
         /\ \A d \in Deposits \ {Of(s)} : Still(d)
<1>1. Of(s) \in Deposits
  BY CallAt DEF TypeInv
<1>2. /\ settler[s].pc \in Stages
      /\ \/ Go(s, "book") \/ Go(s, "log") \/ Go(s, "referrer1")
         \/ Go(s, "referrer2") /\ settler[s].pc = "commission1"
         \/ Go(s, "commission1") /\ referrer[1] = "active"
         \/ Go(s, "commission2") /\ settler[s].pc = "referrer2" /\ referrer[2] = "active"
         \/ Done(s, Of(s))
  BY DEF Carries, CreditWallet, BookDeposit, LogYield, ReadReferrer, PayDirectReferrer,
         PaySecondReferrer, At, Stages
<1>3. /\ Moves(s)
      /\ settler'[s].pc \in Stages =>
           settler'[s].deposit = Of(s) /\ settler'[s].cycles = settler[s].cycles
      /\ settler'[s].pc = "commission1" => referrer[1] = "active"
      /\ settler'[s].pc = "referrer2" => settler[s].pc = "commission1"
      /\ settler'[s].pc = "commission2" => settler[s].pc = "referrer2" /\ referrer[2] = "active"
  <2>1. CASE Done(s, Of(s))
    BY <1>1, <2>1, DoneMoves DEF Stages
  <2>2. CASE Go(s, "commission1") /\ referrer[1] = "active"
    BY <2>2, GoMoves
  <2>3. CASE Go(s, "commission2") /\ settler[s].pc = "referrer2" /\ referrer[2] = "active"
    BY <2>3, GoMoves
  <2>4. CASE Go(s, "referrer2") /\ settler[s].pc = "commission1"
    BY <2>4, GoMoves
  <2>5. ASSUME NEW pc \in {"book", "log", "referrer1"}, Go(s, pc)
        PROVE  Moves(s) /\ settler'[s].pc = pc
               /\ settler'[s].deposit = Of(s) /\ settler'[s].cycles = settler[s].cycles
    BY <2>5, GoMoves
  <2> QED  BY <1>2, <2>1, <2>2, <2>3, <2>4, <2>5
<1>4. ASSUME NEW d \in Deposits, d # Of(s) PROVE Still(d)
  <2>1. /\ credited'[d] = credited[d] /\ totalYieldPaid'[d] = totalYieldPaid[d]
        /\ logged'[d] = logged[d]
        /\ commission'[1][d] = commission[1][d] /\ commission'[2][d] = commission[2][d]
    BY <1>4 DEF Carries, CreditWallet, BookDeposit, LogYield, ReadReferrer, PayDirectReferrer,
                PaySecondReferrer, TypeInv, BookTypes, books
  <2>2. \A P \in SUBSET ToSecond : Owing(P, d)' = Owing(P, d)
    BY <1>3, <1>4, OwingMoves DEF TypeInv
  <2>3. {ToBook, ToLog, {"log"}, ToDirect, ToSecond, AtFirst, AtSecond} \subseteq SUBSET ToSecond
    BY DEF ToBook, ToLog, ToDirect, ToSecond, AtFirst, AtSecond
  <2> QED  BY <2>1, <2>2, <2>3 DEF Still
<1> QED  BY <1>2, <1>3, <1>4

(* The deposit whose cycles a step carries: they go from one place to the  *)
(* next, and so on to the next account.                                    *)
LEMMA CarryKeeps ==
  ASSUME IInv, TypeInv', NEW s \in Settlers, Carries(s), NEW o \in Deposits, o = Of(s)
  PROVE  Accounts(o)' /\ (budget.referrals = 0 => Commissions(o)')
<1> DEFINE n == settler[s].cycles
           e == elapsed[o] * CutOffs
<1>0. TypeInv /\ Accounts(o) /\ (budget.referrals = 0 => Commissions(o)) /\ n \in Nat
  BY CallAt DEF IInv, Settled, TypeInv
<1>1. UNCHANGED <<world, budget>> /\ elapsed'[o] * CutOffs' = e
      /\ (Gets(1)' <=> Gets(1)) /\ (Gets(2)' <=> Gets(2))
  <2>1. UNCHANGED <<world, budget>>
    BY <1>0, CarryTypes
  <2> QED  BY <2>1 DEF world, CutOffs, Gets
<1>2. /\ credited[o] \in Nat /\ totalYieldPaid[o] \in Nat /\ logged[o] \in Nat /\ e \in Nat
      /\ commission[1][o] \in Nat /\ commission[2][o] \in Nat
  BY <1>0, BoundTypes
<1>3. /\ Owing(ToBook, o) \in Nat /\ Owing(ToLog, o) \in Nat /\ Owing({"log"}, o) \in Nat
      /\ Owing(ToDirect, o) \in Nat /\ Owing(ToSecond, o) \in Nat
      /\ Owing(AtFirst, o) \in Nat /\ Owing(AtSecond, o) \in Nat
  BY <1>0, OwingTypes DEF TypeInv
<1>4. /\ totalYieldPaid[o] + Owing(ToBook, o) <= credited[o]
      /\ credited[o] <= totalYieldPaid[o] + Owing(ToBook, o) + e
      /\ logged[o] + Owing(ToLog, o) <= credited[o]
      /\ credited[o] <= logged[o] + Owing(ToLog, o) + e
      /\ logged[o] + Owing({"log"}, o) <= totalYieldPaid[o]
      /\ commission[1][o] + Owing(AtFirst, o) <= logged[o]
      /\ commission[2][o] + Owing(AtSecond, o) <= commission[1][o]
  BY <1>0 DEF Accounts, Covers
<1>5. ASSUME budget.referrals = 0
      PROVE  /\ Gets(1) => /\ commission[1][o] + Owing(ToDirect, o) <= credited[o]
                           /\ credited[o] <= commission[1][o] + Owing(ToDirect, o) + e
             /\ ~Gets(1) => commission[1][o] = 0
             /\ Gets(2) => /\ commission[2][o] + Owing(ToSecond, o) <= credited[o]
                           /\ credited[o] <= commission[2][o] + Owing(ToSecond, o) + e
             /\ ~Gets(2) => commission[2][o] = 0
  BY <1>0, <1>5 DEF Commissions, Covers
<1>6. \A P \in SUBSET ToSecond :
        Owing(P, o)' = Owing(P, o) - (IF settler[s].pc \in P THEN n ELSE 0)
                                   + (IF settler'[s].pc \in P THEN n ELSE 0)
  BY <1>0, CarryMoves, OwingMoves DEF TypeInv
<1>7. /\ ToBook \in SUBSET ToSecond /\ ToLog \in SUBSET ToSecond /\ {"log"} \in SUBSET ToSecond
      /\ ToDirect \in SUBSET ToSecond /\ ToSecond \in SUBSET ToSecond
      /\ AtFirst \in SUBSET ToSecond /\ AtSecond \in SUBSET ToSecond
  BY DEF ToBook, ToLog, ToDirect, ToSecond, AtFirst, AtSecond
<1>8. budget.referrals = 0 => ReadOf(settler[s])
  BY DEF IInv, Settled
<1>9. /\ settler'[s].pc = "commission1" => referrer[1] = "active"
      /\ settler'[s].pc = "commission2" => referrer[2] = "active"
  BY <1>0, CarryMoves
<1> DEFINE Ahead ==
             /\ totalYieldPaid'[o] + Owing(ToBook, o)' <= credited'[o]
             /\ credited'[o] <= totalYieldPaid'[o] + Owing(ToBook, o)' + e
             /\ logged'[o] + Owing(ToLog, o)' <= credited'[o]
             /\ credited'[o] <= logged'[o] + Owing(ToLog, o)' + e
             /\ logged'[o] + Owing({"log"}, o)' <= totalYieldPaid'[o]
             /\ commission'[1][o] + Owing(AtFirst, o)' <= logged'[o]
             /\ commission'[2][o] + Owing(AtSecond, o)' <= commission'[1][o]
           Due ==
             /\ Gets(1) => /\ commission'[1][o] + Owing(ToDirect, o)' <= credited'[o]
                           /\ credited'[o] <= commission'[1][o] + Owing(ToDirect, o)' + e
             /\ ~Gets(1) => commission'[1][o] = 0
             /\ Gets(2) => /\ commission'[2][o] + Owing(ToSecond, o)' <= credited'[o]
                           /\ credited'[o] <= commission'[2][o] + Owing(ToSecond, o)' + e
             /\ ~Gets(2) => commission'[2][o] = 0
<1>10. Ahead => Accounts(o)'
  BY <1>1 DEF Accounts, Covers
<1>11. Due => Commissions(o)'
  BY <1>1 DEF Commissions, Covers
<1>12. SUFFICES Ahead /\ (budget.referrals = 0 => Due)
  <2> HIDE DEF Ahead, Due
  <2> QED  BY <1>10, <1>11
<1> HIDE DEF n, e
<1>13. /\ credited \in [Deposits -> Nat] /\ totalYieldPaid \in [Deposits -> Nat]
       /\ logged \in [Deposits -> Nat] /\ commission \in [{1, 2} -> [Deposits -> Nat]]
  BY <1>0 DEF TypeInv, BookTypes
<1>21. CASE CreditWallet(s)
  <2>1. settler[s].pc = "credit" /\ settler'[s].pc = "book"
    BY <1>0, <1>21, GoMoves DEF CreditWallet, At, Stages
  <2>2. /\ Owing(ToBook, o)' = Owing(ToBook, o) + n /\ Owing(ToLog, o)' = Owing(ToLog, o) + n
        /\ Owing({"log"}, o)' = Owing({"log"}, o) /\ Owing(ToDirect, o)' = Owing(ToDirect, o) + n
        /\ Owing(ToSecond, o)' = Owing(ToSecond, o) + n
        /\ Owing(AtFirst, o)' = Owing(AtFirst, o) /\ Owing(AtSecond, o)' = Owing(AtSecond, o)
    BY <1>0, <1>3, <1>6, <1>7, <2>1 DEF ToBook, ToLog, ToDirect, ToSecond, AtFirst, AtSecond, Stages
  <2>3. /\ credited'[o] = credited[o] + n /\ totalYieldPaid'[o] = totalYieldPaid[o]
        /\ logged'[o] = logged[o]
        /\ commission'[1][o] = commission[1][o] /\ commission'[2][o] = commission[2][o]
    BY <1>0, <1>21, <1>13 DEF CreditWallet, n
  <2>4. Ahead
    BY <1>0, <1>2, <1>3, <1>4, <2>2, <2>3
  <2>5. ASSUME budget.referrals = 0 PROVE Due
    BY <1>0, <1>2, <1>3, <1>5, <2>2, <2>3, <2>5
  <2> QED  BY <2>4, <2>5
<1>22. CASE BookDeposit(s)
  <2>1. settler[s].pc = "book" /\ settler'[s].pc = "log"
    BY <1>0, <1>22, GoMoves DEF BookDeposit, At, Stages
  <2>2. /\ Owing(ToBook, o)' = Owing(ToBook, o) - n /\ Owing(ToLog, o)' = Owing(ToLog, o)
        /\ Owing({"log"}, o)' = Owing({"log"}, o) + n /\ Owing(ToDirect, o)' = Owing(ToDirect, o)
        /\ Owing(ToSecond, o)' = Owing(ToSecond, o)
        /\ Owing(AtFirst, o)' = Owing(AtFirst, o) /\ Owing(AtSecond, o)' = Owing(AtSecond, o)
    BY <1>0, <1>3, <1>6, <1>7, <2>1 DEF ToBook, ToLog, ToDirect, ToSecond, AtFirst, AtSecond, Stages
  <2>3. /\ credited'[o] = credited[o] /\ totalYieldPaid'[o] = totalYieldPaid[o] + n
        /\ logged'[o] = logged[o]
        /\ commission'[1][o] = commission[1][o] /\ commission'[2][o] = commission[2][o]
    BY <1>0, <1>22, <1>13 DEF BookDeposit, n
  <2>4. Ahead
    BY <1>0, <1>2, <1>3, <1>4, <2>2, <2>3
  <2>5. ASSUME budget.referrals = 0 PROVE Due
    BY <1>0, <1>2, <1>3, <1>5, <2>2, <2>3, <2>5
  <2> QED  BY <2>4, <2>5
<1>23. CASE LogYield(s)
  <2>1. settler[s].pc = "log" /\ settler'[s].pc = "referrer1"
    BY <1>0, <1>23, GoMoves DEF LogYield, At, Stages
  <2>2. /\ Owing(ToBook, o)' = Owing(ToBook, o) /\ Owing(ToLog, o)' = Owing(ToLog, o) - n
        /\ Owing({"log"}, o)' = Owing({"log"}, o) - n /\ Owing(ToDirect, o)' = Owing(ToDirect, o)
        /\ Owing(ToSecond, o)' = Owing(ToSecond, o)
        /\ Owing(AtFirst, o)' = Owing(AtFirst, o) + n /\ Owing(AtSecond, o)' = Owing(AtSecond, o)
    BY <1>0, <1>3, <1>6, <1>7, <2>1 DEF ToBook, ToLog, ToDirect, ToSecond, AtFirst, AtSecond, Stages
  <2>3. /\ credited'[o] = credited[o] /\ totalYieldPaid'[o] = totalYieldPaid[o]
        /\ logged'[o] = logged[o] + n
        /\ commission'[1][o] = commission[1][o] /\ commission'[2][o] = commission[2][o]
    BY <1>0, <1>23, <1>13 DEF LogYield, n
  <2>4. Ahead
    BY <1>0, <1>2, <1>3, <1>4, <2>2, <2>3
  <2>5. ASSUME budget.referrals = 0 PROVE Due
    BY <1>0, <1>2, <1>3, <1>5, <2>2, <2>3, <2>5
  <2> QED  BY <2>4, <2>5
<1>24. CASE ReadReferrer(s, 1) /\ referrer[1] = "active"
  <2>1. settler[s].pc = "referrer1" /\ settler'[s].pc = "commission1"
    BY <1>0, <1>24, GoMoves DEF ReadReferrer, books, At, Stages
  <2>2. /\ Owing(ToBook, o)' = Owing(ToBook, o) /\ Owing(ToLog, o)' = Owing(ToLog, o)
        /\ Owing({"log"}, o)' = Owing({"log"}, o) /\ Owing(ToDirect, o)' = Owing(ToDirect, o)
        /\ Owing(ToSecond, o)' = Owing(ToSecond, o)
        /\ Owing(AtFirst, o)' = Owing(AtFirst, o) /\ Owing(AtSecond, o)' = Owing(AtSecond, o)
    BY <1>0, <1>3, <1>6, <1>7, <2>1 DEF ToBook, ToLog, ToDirect, ToSecond, AtFirst, AtSecond, Stages
  <2>3. /\ credited'[o] = credited[o] /\ totalYieldPaid'[o] = totalYieldPaid[o]
        /\ logged'[o] = logged[o]
        /\ commission'[1][o] = commission[1][o] /\ commission'[2][o] = commission[2][o]
    BY <1>0, <1>24, <1>13 DEF ReadReferrer, books, n
  <2>4. Ahead
    BY <1>0, <1>2, <1>3, <1>4, <2>2, <2>3
  <2>5. ASSUME budget.referrals = 0 PROVE Due
    BY <1>0, <1>2, <1>3, <1>5, <2>2, <2>3, <2>5
  <2> QED  BY <2>4, <2>5
<1>25. CASE ReadReferrer(s, 1) /\ referrer[1] # "active"
  <2>1. settler[s].pc = "referrer1" /\ settler'[s].pc \notin Stages
    BY <1>0, <1>25, DoneMoves DEF ReadReferrer, books, At, Stages
  <2>2. /\ Owing(ToBook, o)' = Owing(ToBook, o) /\ Owing(ToLog, o)' = Owing(ToLog, o)
        /\ Owing({"log"}, o)' = Owing({"log"}, o) /\ Owing(ToDirect, o)' = Owing(ToDirect, o) - n
        /\ Owing(ToSecond, o)' = Owing(ToSecond, o) - n
        /\ Owing(AtFirst, o)' = Owing(AtFirst, o) - n /\ Owing(AtSecond, o)' = Owing(AtSecond, o)
    BY <1>0, <1>3, <1>6, <1>7, <2>1 DEF ToBook, ToLog, ToDirect, ToSecond, AtFirst, AtSecond, Stages
  <2>3. /\ credited'[o] = credited[o] /\ totalYieldPaid'[o] = totalYieldPaid[o]
        /\ logged'[o] = logged[o]
        /\ commission'[1][o] = commission[1][o] /\ commission'[2][o] = commission[2][o]
    BY <1>0, <1>25, <1>13 DEF ReadReferrer, books, n
  <2>4. Ahead
    BY <1>0, <1>2, <1>3, <1>4, <2>2, <2>3
  <2>5. ASSUME budget.referrals = 0 PROVE Due
    <3>1. ~Gets(1) /\ ~Gets(2)
      BY <1>25, GetsMeans
    <3> QED  BY <1>0, <1>2, <1>3, <1>5, <2>2, <2>3, <2>5, <3>1
  <2> QED  BY <2>4, <2>5
<1>26. CASE ReadReferrer(s, 2) /\ referrer[2] = "active"
  <2>1. settler[s].pc = "referrer2" /\ settler'[s].pc = "commission2"
    BY <1>0, <1>26, GoMoves DEF ReadReferrer, books, At, Stages
  <2>2. /\ Owing(ToBook, o)' = Owing(ToBook, o) /\ Owing(ToLog, o)' = Owing(ToLog, o)
        /\ Owing({"log"}, o)' = Owing({"log"}, o) /\ Owing(ToDirect, o)' = Owing(ToDirect, o)
        /\ Owing(ToSecond, o)' = Owing(ToSecond, o)
        /\ Owing(AtFirst, o)' = Owing(AtFirst, o) /\ Owing(AtSecond, o)' = Owing(AtSecond, o)
    BY <1>0, <1>3, <1>6, <1>7, <2>1 DEF ToBook, ToLog, ToDirect, ToSecond, AtFirst, AtSecond, Stages
  <2>3. /\ credited'[o] = credited[o] /\ totalYieldPaid'[o] = totalYieldPaid[o]
        /\ logged'[o] = logged[o]
        /\ commission'[1][o] = commission[1][o] /\ commission'[2][o] = commission[2][o]
    BY <1>0, <1>26, <1>13 DEF ReadReferrer, books, n
  <2>4. Ahead
    BY <1>0, <1>2, <1>3, <1>4, <2>2, <2>3
  <2>5. ASSUME budget.referrals = 0 PROVE Due
    BY <1>0, <1>2, <1>3, <1>5, <2>2, <2>3, <2>5
  <2> QED  BY <2>4, <2>5
<1>27. CASE ReadReferrer(s, 2) /\ referrer[2] # "active"
  <2>1. settler[s].pc = "referrer2" /\ settler'[s].pc \notin Stages
    BY <1>0, <1>27, DoneMoves DEF ReadReferrer, books, At, Stages
  <2>2. /\ Owing(ToBook, o)' = Owing(ToBook, o) /\ Owing(ToLog, o)' = Owing(ToLog, o)
        /\ Owing({"log"}, o)' = Owing({"log"}, o) /\ Owing(ToDirect, o)' = Owing(ToDirect, o)
        /\ Owing(ToSecond, o)' = Owing(ToSecond, o) - n
        /\ Owing(AtFirst, o)' = Owing(AtFirst, o) /\ Owing(AtSecond, o)' = Owing(AtSecond, o) - n
    BY <1>0, <1>3, <1>6, <1>7, <2>1 DEF ToBook, ToLog, ToDirect, ToSecond, AtFirst, AtSecond, Stages
  <2>3. /\ credited'[o] = credited[o] /\ totalYieldPaid'[o] = totalYieldPaid[o]
        /\ logged'[o] = logged[o]
        /\ commission'[1][o] = commission[1][o] /\ commission'[2][o] = commission[2][o]
    BY <1>0, <1>27, <1>13 DEF ReadReferrer, books, n
  <2>4. Ahead
    BY <1>0, <1>2, <1>3, <1>4, <2>2, <2>3
  <2>5. ASSUME budget.referrals = 0 PROVE Due
    <3>1. ~Gets(2)
      BY <1>27, GetsMeans
    <3> QED  BY <1>0, <1>2, <1>3, <1>5, <2>2, <2>3, <2>5, <3>1
  <2> QED  BY <2>4, <2>5
<1>28. CASE PayDirectReferrer(s)
  <2>1. settler[s].pc = "commission1" /\ settler'[s].pc = "referrer2"
    BY <1>0, <1>28, GoMoves DEF PayDirectReferrer, At, Stages
  <2>2. /\ Owing(ToBook, o)' = Owing(ToBook, o) /\ Owing(ToLog, o)' = Owing(ToLog, o)
        /\ Owing({"log"}, o)' = Owing({"log"}, o) /\ Owing(ToDirect, o)' = Owing(ToDirect, o) - n
        /\ Owing(ToSecond, o)' = Owing(ToSecond, o)
        /\ Owing(AtFirst, o)' = Owing(AtFirst, o) - n /\ Owing(AtSecond, o)' = Owing(AtSecond, o) + n
    BY <1>0, <1>3, <1>6, <1>7, <2>1 DEF ToBook, ToLog, ToDirect, ToSecond, AtFirst, AtSecond, Stages
  <2>3. /\ credited'[o] = credited[o] /\ totalYieldPaid'[o] = totalYieldPaid[o]
        /\ logged'[o] = logged[o]
        /\ commission'[1][o] = commission[1][o] + n /\ commission'[2][o] = commission[2][o]
    BY <1>0, <1>28, <1>13 DEF PayDirectReferrer, n
  <2>4. Ahead
    BY <1>0, <1>2, <1>3, <1>4, <2>2, <2>3
  <2>5. ASSUME budget.referrals = 0 PROVE Due
    <3>1. Gets(1)
      BY <1>8, <2>1, <2>5 DEF ReadOf
    <3> QED  BY <1>0, <1>2, <1>3, <1>5, <2>2, <2>3, <2>5, <3>1
  <2> QED  BY <2>4, <2>5
<1>29. CASE PaySecondReferrer(s)
  <2>1. settler[s].pc = "commission2" /\ settler'[s].pc \notin Stages
    BY <1>0, <1>29, DoneMoves DEF PaySecondReferrer, At, Stages
  <2>2. /\ Owing(ToBook, o)' = Owing(ToBook, o) /\ Owing(ToLog, o)' = Owing(ToLog, o)
        /\ Owing({"log"}, o)' = Owing({"log"}, o) /\ Owing(ToDirect, o)' = Owing(ToDirect, o)
        /\ Owing(ToSecond, o)' = Owing(ToSecond, o) - n
        /\ Owing(AtFirst, o)' = Owing(AtFirst, o) /\ Owing(AtSecond, o)' = Owing(AtSecond, o) - n
    BY <1>0, <1>3, <1>6, <1>7, <2>1 DEF ToBook, ToLog, ToDirect, ToSecond, AtFirst, AtSecond, Stages
  <2>3. /\ credited'[o] = credited[o] /\ totalYieldPaid'[o] = totalYieldPaid[o]
        /\ logged'[o] = logged[o]
        /\ commission'[1][o] = commission[1][o] /\ commission'[2][o] = commission[2][o] + n
    BY <1>0, <1>29, <1>13 DEF PaySecondReferrer, n
  <2>4. Ahead
    BY <1>0, <1>2, <1>3, <1>4, <2>2, <2>3
  <2>5. ASSUME budget.referrals = 0 PROVE Due
    <3>1. Gets(1) /\ Gets(2)
      BY <1>8, <2>1, <2>5 DEF ReadOf
    <3> QED  BY <1>0, <1>2, <1>3, <1>5, <2>2, <2>3, <2>5, <3>1
  <2> QED  BY <2>4, <2>5
<1>14. \/ CreditWallet(s) \/ BookDeposit(s) \/ LogYield(s)
       \/ ReadReferrer(s, 1) \/ ReadReferrer(s, 2) \/ PayDirectReferrer(s) \/ PaySecondReferrer(s)
  BY DEF Carries
<1> QED  BY <1>14, <1>21, <1>22, <1>23, <1>24, <1>25, <1>26, <1>27, <1>28, <1>29

LEMMA CarrySettled ==
  ASSUME IInv, TypeInv', NEW s \in Settlers, Carries(s)
  PROVE  Settled'
<1>0. TypeInv /\ Settled /\ UNCHANGED <<world, budget>>
  BY CarryTypes DEF IInv
<1>1. \A t \in Settlers : Timed(settler[t])'
  BY <1>0, CarryMoves, TimedMoves DEF world
<1>2. ASSUME NEW d \in Deposits
      PROVE  Accounts(d)' /\ (budget.referrals = 0 => Commissions(d)')
  <2>1. CASE d = Of(s)
    BY <2>1, CarryKeeps
  <2>2. CASE d # Of(s)
    <3>1. Still(d) /\ Accounts(d) /\ (budget.referrals = 0 => Commissions(d))
      BY <1>0, <2>2, CarryMoves DEF Settled
    <3>2. elapsed'[d] * CutOffs' = elapsed[d] * CutOffs /\ elapsed[d] * CutOffs \in Nat
      BY <1>0, BoundTypes DEF world, CutOffs
    <3>3. elapsed'[d] * CutOffs' >= elapsed[d] * CutOffs
      BY <3>2
    <3> QED  BY <1>0, <3>1, <3>3, StillAgrees DEF world
  <2> QED  BY <2>1, <2>2
<1>3. budget.referrals = 0 => \A t \in Settlers : ReadOf(settler[t])'
  BY <1>0, CarryMoves, ReadMoves DEF world
<1> QED  BY <1>0, <1>1, <1>2, <1>3 DEF Settled

(* Nothing is owed by a call that has not begun to carry. *)
LEMMA AsideStill ==
  ASSUME TypeInv, TypeInv', UNCHANGED books,
         \A t \in Settlers : \/ settler'[t] = settler[t]
                             \/ settler[t].pc \notin ToSecond /\ settler'[t].pc \notin ToSecond,
         NEW d \in Deposits
  PROVE  Still(d)
<1>1. \A P \in SUBSET ToSecond : Owing(P, d)' = Owing(P, d)
  <2> SUFFICES ASSUME NEW P \in SUBSET ToSecond PROVE Owing(P, d)' = Owing(P, d)  OBVIOUS
  <2> DEFINE f == Share(P, d)
             g == Share(P, d)'
  <2>1. \A t \in Settlers : f[t] = g[t]
    BY DEF Share
  <2>2. SumOver(Settlers, f) = SumOver(Settlers, g)
    <3> HIDE DEF f, g
    <3> QED  BY <2>1, SumAgrees
  <2> QED  BY <2>2 DEF Owing
<1>2. {ToBook, ToLog, {"log"}, ToDirect, ToSecond, AtFirst, AtSecond} \subseteq SUBSET ToSecond
  BY DEF ToBook, ToLog, ToDirect, ToSecond, AtFirst, AtSecond
<1> QED  BY <1>1, <1>2 DEF Still, books

(* How a call comes to a place: it begins, passes a deposit over, or takes *)
(* in hand what had completed.                                             *)
LEMMA DecideMoves ==
  ASSUME TypeInv, TypeInv', NEW s \in Settlers, Decides(s)
  PROVE  /\ settler[s].pc \in {"idle", "vault", "next"}
         /\ settler'[s].pc \in {"idle", "vault", "next", "credit"}
         /\ settler'[s].pc = "credit" => settler'[s].cycles <= elapsed[settler'[s].deposit]
         /\ \A t \in Settlers \ {s} : settler'[t] = settler[t]
<1>0. settler \in [Settlers -> Calls]
  BY DEF TypeInv, CallTypes
<1>1. CASE Begins(s)
  <2>1. PICK V \in SUBSET Vaults :
          \/ settler' = [settler EXCEPT ![s] = Rest(V)]
          \/ \E D \in SUBSET Deposits : settler' = [settler EXCEPT ![s] = Loaded(D, V)]
    BY <1>1, BeginsMeans
  <2>2. Rest(V).pc \in {"idle", "vault"} /\ \A D \in SUBSET Deposits : Loaded(D, V).pc = "next"
    BY RestTypes, LoadedTypes DEF TypeInv
  <2>3. settler[s].pc \in {"idle", "vault"}
    BY <1>1, BeginsMeans
  <2> QED  BY <1>0, <2>1, <2>2, <2>3
<1>2. CASE \E d \in Deposits : NothingNew(s, d)
  BY <1>2, DoneMoves DEF NothingNew, At, Moves
<1>3. ASSUME NEW d \in Deposits, Mature(s, d)
      PROVE  /\ settler[s].pc = "next" /\ settler'[s].pc = "credit"
             /\ settler'[s].deposit = d /\ settler'[s].cycles <= elapsed[d]
             /\ \A t \in Settlers \ {s} : settler'[t] = settler[t]
  <2>1. /\ settler[s].pc = "next" /\ settler'[s].pc = "credit" /\ settler'[s].deposit = d
        /\ settler'[s].cycles = NewCycles(s, d)
        /\ \A t \in Settlers \ {s} : settler'[t] = settler[t]
    BY <1>0, <1>3 DEF Mature, At, Calls
  <2>2. settler[s].copy[d].matured \in Nat /\ settler[s].copy[d].paid \in Nat /\ elapsed[d] \in Nat
    BY <1>0, BoundTypes DEF Calls, Copies
  <2>3. NewCycles(s, d) <= elapsed[d]
    BY <2>2 DEF NewCycles, AlreadyMatured, Greater
  <2> QED  BY <2>1, <2>3
<1> QED  BY <1>1, <1>2, <1>3 DEF Decides

LEMMA DecideSettled ==
  ASSUME IInv, TypeInv', NEW s \in Settlers, Decides(s)
  PROVE  Settled'
<1>0. TypeInv /\ Settled /\ UNCHANGED <<world, books, budget>>
  BY DecideTypes DEF IInv
<1>1. /\ settler[s].pc \in {"idle", "vault", "next"}
      /\ settler'[s].pc \in {"idle", "vault", "next", "credit"}
      /\ settler'[s].pc = "credit" => settler'[s].cycles <= elapsed[settler'[s].deposit]
      /\ \A t \in Settlers \ {s} : settler'[t] = settler[t]
  BY <1>0, DecideMoves
<1>2. ASSUME NEW t \in Settlers PROVE Timed(settler[t])'
  <2>1. CASE t = s
    BY <1>0, <1>1, <2>1 DEF Timed, Stages, world
  <2>2. CASE t # s
    BY <1>0, <1>1, <2>2 DEF Settled, Timed, world
  <2> QED  BY <2>1, <2>2
<1>3. ASSUME NEW d \in Deposits
      PROVE  Accounts(d)' /\ (budget.referrals = 0 => Commissions(d)')
  <2>1. Still(d)
    <3>1. \A t \in Settlers : \/ settler'[t] = settler[t]
                              \/ settler[t].pc \notin ToSecond /\ settler'[t].pc \notin ToSecond
      BY <1>1 DEF ToSecond
    <3> QED  BY <1>0, <3>1, AsideStill
  <2>2. elapsed'[d] * CutOffs' = elapsed[d] * CutOffs /\ elapsed[d] * CutOffs \in Nat
    BY <1>0, BoundTypes DEF world, CutOffs
  <2>3. elapsed'[d] * CutOffs' >= elapsed[d] * CutOffs
    BY <2>2
  <2> QED  BY <1>0, <2>1, <2>3, StillAgrees DEF world, Settled
<1>4. ASSUME budget.referrals = 0, NEW t \in Settlers PROVE ReadOf(settler[t])'
  <2>1. (Gets(1)' <=> Gets(1)) /\ (Gets(2)' <=> Gets(2))
    BY <1>0 DEF world, Gets
  <2>2. CASE t = s
    BY <1>1, <2>2 DEF ReadOf
  <2>3. CASE t # s
    BY <1>0, <1>1, <1>4, <2>1, <2>3 DEF Settled, ReadOf
  <2> QED  BY <2>2, <2>3
<1> QED  BY <1>0, <1>2, <1>3, <1>4 DEF Settled

LEMMA WorldSettled ==
  ASSUME IInv, TypeInv', WorldMoves
  PROVE  Settled'
<1>0. TypeInv /\ Settled
  BY DEF IInv
<1>1. /\ UNCHANGED <<books, settler>>
      /\ budget'.faults = budget.faults /\ budget'.crashes = budget.crashes
      /\ budget'.referrals = 0 => budget.referrals = 0 /\ referrer' = referrer
  BY <1>0, WorldTypesKept
<1>2. \A d \in Deposits : elapsed[d] \in Nat /\ elapsed'[d] \in Nat /\ elapsed'[d] >= elapsed[d]
  BY <1>0, ElapsedGrows
<1>3. CutOffs' = CutOffs /\ CutOffs \in Nat
  BY <1>0, <1>1, BoundTypes DEF CutOffs
<1>4. ASSUME NEW d \in Deposits PROVE elapsed'[d] * CutOffs' >= elapsed[d] * CutOffs
  <2>1. \A k, m, n \in Nat : m >= n => m * k >= n * k
    OBVIOUS
  <2> QED  BY <1>2, <1>3, <2>1
<1>5. ASSUME NEW t \in Settlers PROVE Timed(settler[t])'
  <2>1. settler'[t] = settler[t] /\ Timed(settler[t]) /\ settler[t] \in Calls
    BY <1>0, <1>1 DEF Settled, TypeInv, CallTypes
  <2>2. settler[t].deposit \in Deposits /\ settler[t].cycles \in Nat
    BY <2>1 DEF Calls
  <2>3. elapsed[settler[t].deposit] \in Nat /\ elapsed'[settler[t].deposit] \in Nat
        /\ elapsed'[settler[t].deposit] >= elapsed[settler[t].deposit]
    BY <1>2, <2>2
  <2> QED  BY <2>1, <2>2, <2>3 DEF Timed
<1>6. ASSUME NEW d \in Deposits
      PROVE  Accounts(d)' /\ (budget'.referrals = 0 => Commissions(d)')
  <2>1. Still(d)
    BY <1>0, <1>1, AsideStill
  <2> QED  BY <1>0, <1>1, <1>4, <2>1, StillAgrees DEF Settled
<1>7. ASSUME budget'.referrals = 0, NEW t \in Settlers PROVE ReadOf(settler[t])'
  <2>1. (Gets(1)' <=> Gets(1)) /\ (Gets(2)' <=> Gets(2))
    BY <1>1, <1>7 DEF Gets
  <2>2. settler'[t] = settler[t] /\ ReadOf(settler[t])
    BY <1>0, <1>1, <1>7 DEF Settled
  <2> QED  BY <2>1, <2>2 DEF ReadOf
<1> QED  BY <1>5, <1>6, <1>7 DEF Settled

(* What a call drops when it is cut off is no more than had completed.     *)
LEMMA OwingBounded ==
  ASSUME IInv, NEW P \in SUBSET ToSecond, NEW d \in Deposits
  PROVE  Owing(P, d) <= Cardinality(Settlers) * elapsed[d]
<1>1. elapsed[d] \in Nat
  BY BoundTypes DEF IInv
<1>2. ASSUME NEW s \in Settlers PROVE Share(P, d)[s] \in 0..elapsed[d]
  <2>1. settler[s].cycles \in Nat
    BY CallAt DEF IInv, TypeInv
  <2>2. settler[s].pc \in P /\ settler[s].deposit = d => settler[s].cycles <= elapsed[d]
    BY DEF IInv, Settled, Timed, ToSecond, Stages
  <2> QED  BY <1>1, <2>1, <2>2 DEF Share
<1> QED  BY <1>1, <1>2, SumBounded, YieldAssumption DEF Owing

(* What every account may lack grows by as much as a cut drops.            *)
LEMMA CutAccounts ==
  ASSUME IInv, TypeInv', UNCHANGED <<world, books>>, NEW d \in Deposits, NEW k \in Nat,
         CutOffs' = CutOffs + k,
         \A P \in SUBSET ToSecond : Owing(P, d)' \in Nat /\ Owing(P, d)' <= Owing(P, d)
                                    /\ Owing(P, d) <= Owing(P, d)' + elapsed[d] * k
  PROVE  Accounts(d)' /\ (budget.referrals = 0 => Commissions(d)')
<1> DEFINE e == elapsed[d] * CutOffs
           x == elapsed[d] * k
<1>0. TypeInv /\ Accounts(d) /\ (budget.referrals = 0 => Commissions(d))
  BY DEF IInv, Settled
<1>1. /\ credited[d] \in Nat /\ totalYieldPaid[d] \in Nat /\ logged[d] \in Nat /\ e \in Nat
      /\ commission[1][d] \in Nat /\ commission[2][d] \in Nat /\ CutOffs \in Nat /\ elapsed[d] \in Nat
  BY <1>0, BoundTypes
<1>2. elapsed'[d] * CutOffs' = e + x /\ x \in Nat
  <2>1. \A a, b, c \in Nat : a * (b + c) = a * b + a * c /\ a * c \in Nat
    OBVIOUS
  <2> QED  BY <1>1, <2>1 DEF world
<1>3. \A P : Owing(P, d) \in Nat
  BY <1>0, OwingTypes DEF TypeInv
<1> HIDE DEF e, x
<1>4. ASSUME NEW n \in Nat, NEW P \in SUBSET ToSecond,
             n + Owing(P, d) <= credited[d], credited[d] <= n + Owing(P, d) + e
      PROVE  n + Owing(P, d)' <= credited[d] /\ credited[d] <= n + Owing(P, d)' + (e + x)
  <2>1. Owing(P, d)' \in Nat /\ Owing(P, d)' <= Owing(P, d) /\ Owing(P, d) <= Owing(P, d)' + x
    BY DEF x
  <2>2. Owing(P, d) \in Nat
    BY <1>3
  <2> QED  BY <1>1, <1>2, <1>4, <2>1, <2>2
<1>5. ToBook \in SUBSET ToSecond /\ ToLog \in SUBSET ToSecond /\ {"log"} \in SUBSET ToSecond
      /\ ToDirect \in SUBSET ToSecond /\ AtFirst \in SUBSET ToSecond
      /\ AtSecond \in SUBSET ToSecond /\ ToSecond \in SUBSET ToSecond
  BY DEF ToBook, ToLog, ToDirect, ToSecond, AtFirst, AtSecond
<1>6. /\ credited' = credited /\ totalYieldPaid' = totalYieldPaid /\ logged' = logged
      /\ commission' = commission /\ referrer' = referrer
  BY DEF world, books
<1>7. Accounts(d)'
  <2>1. Covers(totalYieldPaid[d], ToBook, d)' /\ Covers(logged[d], ToLog, d)'
    BY <1>0, <1>1, <1>2, <1>4, <1>5, <1>6 DEF Accounts, Covers, e
  <2>2. logged[d] + Owing({"log"}, d)' <= totalYieldPaid[d]
    <3>1. Owing({"log"}, d)' \in Nat /\ Owing({"log"}, d)' <= Owing({"log"}, d) /\ Owing({"log"}, d) \in Nat
      BY <1>3, <1>5
    <3> QED  BY <1>0, <1>1, <3>1 DEF Accounts
  <2>3. commission[1][d] + Owing(AtFirst, d)' <= logged[d]
    <3>1. Owing(AtFirst, d)' \in Nat /\ Owing(AtFirst, d)' <= Owing(AtFirst, d) /\ Owing(AtFirst, d) \in Nat
      BY <1>3, <1>5
    <3> QED  BY <1>0, <1>1, <3>1 DEF Accounts
  <2>4. commission[2][d] + Owing(AtSecond, d)' <= commission[1][d]
    <3>1. Owing(AtSecond, d)' \in Nat /\ Owing(AtSecond, d)' <= Owing(AtSecond, d) /\ Owing(AtSecond, d) \in Nat
      BY <1>3, <1>5
    <3> QED  BY <1>0, <1>1, <3>1 DEF Accounts
  <2> QED  BY <1>6, <2>1, <2>2, <2>3, <2>4 DEF Accounts
<1>8. ASSUME budget.referrals = 0 PROVE Commissions(d)'
  <2>1. (Gets(1)' <=> Gets(1)) /\ (Gets(2)' <=> Gets(2))
    BY <1>6 DEF Gets
  <2>2. Gets(1) => Covers(commission[1][d], ToDirect, d)'
    BY <1>0, <1>1, <1>2, <1>4, <1>5, <1>6, <1>8 DEF Commissions, Covers, e
  <2>3. Gets(2) => Covers(commission[2][d], ToSecond, d)'
    BY <1>0, <1>1, <1>2, <1>4, <1>5, <1>6, <1>8 DEF Commissions, Covers, e
  <2>4. (~Gets(1) => commission[1][d] = 0) /\ (~Gets(2) => commission[2][d] = 0)
    BY <1>0, <1>8 DEF Commissions
  <2> QED  BY <1>6, <2>1, <2>2, <2>3, <2>4 DEF Commissions
<1> QED  BY <1>7, <1>8

(* Each call is as it was, or is not under way with a deposit.             *)
LEMMA CutOffMoves ==
  ASSUME TypeInv, CutOff
  PROVE  \A t \in Settlers : settler'[t] = settler[t] \/ settler'[t].pc \in {"idle", "vault", "next"}
<1>1. ASSUME NEW s \in Settlers, SettleThrows(s)
      PROVE  \A t \in Settlers : settler'[t] = settler[t] \/ settler'[t].pc \in {"idle", "vault", "next"}
  <2>1. Of(s) \in Deposits
    BY CallAt DEF TypeInv
  <2> QED  BY <1>1, <2>1, DoneMoves DEF SettleThrows, Moves
<1>2. ASSUME NEW s \in Settlers, FindThrows(s)
      PROVE  \A t \in Settlers : settler'[t] = settler[t] \/ settler'[t].pc \in {"idle", "vault", "next"}
  BY <1>2 DEF FindThrows, TypeInv, CallTypes, Idle
<1>3. CASE Crash
  BY <1>3 DEF Crash, Idle
<1> QED  BY <1>1, <1>2, <1>3 DEF CutOff

LEMMA CutSettled ==
  ASSUME IInv, TypeInv', CutOff
  PROVE  Settled'
<1>0. TypeInv /\ Settled /\ UNCHANGED <<world, books>> /\ budget'.referrals = budget.referrals
  BY CutOffTypes DEF IInv
<1>1. \A t \in Settlers : settler'[t] = settler[t] \/ settler'[t].pc \in {"idle", "vault", "next"}
  BY <1>0, CutOffMoves
<1>2. \A t \in Settlers : Timed(settler[t])'
  BY <1>0, <1>1 DEF Settled, Timed, world, Stages
<1>3. ASSUME budget.referrals = 0, NEW t \in Settlers PROVE ReadOf(settler[t])'
  <2>1. (Gets(1)' <=> Gets(1)) /\ (Gets(2)' <=> Gets(2))
    BY <1>0 DEF world, Gets
  <2> QED  BY <1>0, <1>1, <1>3, <2>1 DEF Settled, ReadOf
<1>4. /\ budget.faults \in Nat /\ budget.crashes \in Nat /\ Cardinality(Settlers) \in Nat
      /\ budget \in [faults : Nat, crashes : Nat, suspensions : Nat, closings : Nat, referrals : Nat]
  BY <1>0, YieldAssumption, FS_CardinalityType DEF TypeInv, WorldTypes
<1>5. ASSUME budget' = [budget EXCEPT !.faults = @ + 1] PROVE CutOffs' = CutOffs + 1
  <2>1. budget'.faults = budget.faults + 1 /\ budget'.crashes = budget.crashes
    BY <1>4, <1>5
  <2>2. \A m, n \in Nat : m * n \in Nat
    OBVIOUS
  <2>3. budget.crashes * Cardinality(Settlers) \in Nat
    BY <1>4, <2>2
  <2> QED  BY <1>4, <2>1, <2>3 DEF CutOffs
<1>6. ASSUME NEW s \in Settlers, SettleThrows(s), NEW d \in Deposits
      PROVE  Accounts(d)' /\ (budget.referrals = 0 => Commissions(d)')
  <2>1. CutOffs' = CutOffs + 1
    BY <1>5, <1>6 DEF SettleThrows, Fail
  <2>2. Of(s) \in Deposits /\ settler[s].cycles \in Nat /\ settler[s].pc \in Stages
    BY <1>0, <1>6, CallAt DEF TypeInv, SettleThrows
  <2>3. Moves(s) /\ settler'[s].pc \notin ToSecond
    BY <1>0, <1>6, <2>2, DoneMoves DEF SettleThrows, ToSecond
  <2>4. settler[s].cycles <= elapsed[Of(s)]
    BY <1>0, <2>2 DEF Settled, Timed, Of
  <2>5. ASSUME NEW P \in SUBSET ToSecond
        PROVE  Owing(P, d)' \in Nat /\ Owing(P, d)' <= Owing(P, d)
               /\ Owing(P, d) <= Owing(P, d)' + elapsed[d] * 1
    <3>1. Owing(P, d) \in Nat /\ Owing(P, d)' \in Nat /\ elapsed[d] \in Nat
      BY <1>0, OwingTypes, OwingTypesNext, BoundTypes DEF TypeInv
    <3>2. Owing(P, d)' = IF d # Of(s) THEN Owing(P, d)
                         ELSE Owing(P, d) - (IF settler[s].pc \in P THEN settler[s].cycles ELSE 0)
      <4>1. Owing(P, d)' = IF d # Of(s) THEN Owing(P, d)
                           ELSE Owing(P, d) - (IF settler[s].pc \in P THEN settler[s].cycles ELSE 0)
                                            + (IF settler'[s].pc \in P THEN settler[s].cycles ELSE 0)
        BY <1>0, <2>3, OwingMoves DEF TypeInv
      <4>2. settler'[s].pc \notin P
        BY <2>3
      <4> QED  BY <2>2, <3>1, <4>1, <4>2
    <3>3. d = Of(s) => settler[s].cycles <= elapsed[d]
      BY <2>4
    <3> QED  BY <2>2, <3>1, <3>2, <3>3
  <2> QED  BY <1>0, <2>1, <2>5, CutAccounts
<1>7. ASSUME NEW s \in Settlers, FindThrows(s), NEW d \in Deposits
      PROVE  Accounts(d)' /\ (budget.referrals = 0 => Commissions(d)')
  <2>1. CutOffs' = CutOffs + 1
    BY <1>5, <1>7 DEF FindThrows, Fail
  <2>2. Still(d)
    <3>1. /\ settler[s].pc = "vault" /\ settler'[s].pc = "idle"
          /\ \A t \in Settlers \ {s} : settler'[t] = settler[t]
      BY <1>0, <1>7 DEF FindThrows, At, TypeInv, CallTypes, Idle
    <3>2. \A t \in Settlers : \/ settler'[t] = settler[t]
                              \/ settler[t].pc \notin ToSecond /\ settler'[t].pc \notin ToSecond
      BY <3>1 DEF ToSecond
    <3> QED  BY <1>0, <3>2, AsideStill
  <2>3. elapsed'[d] * CutOffs' >= elapsed[d] * CutOffs
    <3>1. \A m, n \in Nat : m * (n + 1) >= m * n
      OBVIOUS
    <3> QED  BY <1>0, <2>1, <3>1, BoundTypes DEF world
  <2> QED  BY <1>0, <2>2, <2>3, StillAgrees DEF world, Settled
<1>8. ASSUME Crash, NEW d \in Deposits
      PROVE  Accounts(d)' /\ (budget.referrals = 0 => Commissions(d)')
  <2>1. CutOffs' = CutOffs + Cardinality(Settlers)
    <3>1. budget'.crashes = budget.crashes + 1 /\ budget'.faults = budget.faults
      BY <1>4, <1>8 DEF Crash, Fail
    <3>2. \A m, n \in Nat : (m + 1) * n = m * n + n /\ m * n \in Nat
      OBVIOUS
    <3>3. (budget.crashes + 1) * Cardinality(Settlers) =
            budget.crashes * Cardinality(Settlers) + Cardinality(Settlers)
          /\ budget.crashes * Cardinality(Settlers) \in Nat
      BY <1>4, <3>2
    <3> QED  BY <1>4, <3>1, <3>3 DEF CutOffs
  <2>2. ASSUME NEW P \in SUBSET ToSecond
        PROVE  Owing(P, d)' \in Nat /\ Owing(P, d)' <= Owing(P, d)
               /\ Owing(P, d) <= Owing(P, d)' + elapsed[d] * Cardinality(Settlers)
    <3>1. Owing(P, d)' = 0
      <4> DEFINE g == Share(P, d)'
      <4>1. \A t \in Settlers : g[t] = 0
        BY <1>8 DEF Share, Crash, Idle, ToSecond
      <4>2. SumOver(Settlers, g) = 0
        <5> HIDE DEF g
        <5> QED  BY <4>1, SumOfNothing
      <4> QED  BY <4>2 DEF Owing
    <3>2. Owing(P, d) \in Nat /\ Owing(P, d) <= Cardinality(Settlers) * elapsed[d] /\ elapsed[d] \in Nat
      BY <1>0, OwingTypes, OwingBounded, BoundTypes DEF TypeInv
    <3>3. Cardinality(Settlers) * elapsed[d] = elapsed[d] * Cardinality(Settlers)
      <4>1. \A m, n \in Nat : m * n = n * m
        OBVIOUS
      <4> QED  BY <1>4, <3>2, <4>1
    <3>4. elapsed[d] * Cardinality(Settlers) \in Nat
      <4>1. \A m, n \in Nat : m * n \in Nat
        OBVIOUS
      <4> QED  BY <1>4, <3>2, <4>1
    <3> QED  BY <3>1, <3>2, <3>3, <3>4
  <2> QED  BY <1>0, <1>4, <2>1, <2>2, CutAccounts
<1>9. \A d \in Deposits : Accounts(d)' /\ (budget.referrals = 0 => Commissions(d)')
  BY <1>6, <1>7, <1>8 DEF CutOff
<1> QED  BY <1>0, <1>2, <1>3, <1>9 DEF Settled

LEMMA InitSettled == Init => IInv
<1> SUFFICES ASSUME Init PROVE Settled  BY InitTypes DEF IInv
<1>1. TypeInv
  BY InitTypes
<1>2. \A s \in Settlers : settler[s].pc = "idle"
  BY DEF Init, Idle
<1>3. \A P \in SUBSET ToSecond : \A d : Owing(P, d) = 0
  <2> SUFFICES ASSUME NEW P \in SUBSET ToSecond, NEW d PROVE Owing(P, d) = 0  OBVIOUS
  <2>1. \A s \in Settlers : Share(P, d)[s] = 0
    BY <1>2 DEF Share, ToSecond
  <2> QED  BY <2>1, SumOfNothing DEF Owing
<1>4. {ToBook, ToLog, {"log"}, ToDirect, ToSecond, AtFirst, AtSecond} \subseteq SUBSET ToSecond
  BY DEF ToBook, ToLog, ToDirect, ToSecond, AtFirst, AtSecond
<1>5. ASSUME NEW d \in Deposits PROVE Accounts(d) /\ Commissions(d)
  <2>1. /\ credited[d] = totalYieldPaid[d] /\ logged[d] = totalYieldPaid[d]
        /\ commission[1][d] = IF Gets(1) THEN totalYieldPaid[d] ELSE 0
        /\ commission[2][d] = IF Gets(2) THEN totalYieldPaid[d] ELSE 0
    BY DEF Init
  <2>2. totalYieldPaid[d] \in Nat /\ elapsed[d] * CutOffs \in Nat
    BY <1>1, BoundTypes
  <2>3. Gets(2) => Gets(1)
    BY GetsMeans
  <2>4. /\ Owing(ToBook, d) = 0 /\ Owing(ToLog, d) = 0 /\ Owing({"log"}, d) = 0
        /\ Owing(ToDirect, d) = 0 /\ Owing(ToSecond, d) = 0
        /\ Owing(AtFirst, d) = 0 /\ Owing(AtSecond, d) = 0
    BY <1>3, <1>4
  <2>5. Accounts(d)
    BY <2>1, <2>2, <2>3, <2>4 DEF Accounts, Covers
  <2>6. Commissions(d)
    BY <2>1, <2>2, <2>4 DEF Commissions, Covers
  <2> QED  BY <2>5, <2>6
<1>6. \A s \in Settlers : Timed(settler[s]) /\ ReadOf(settler[s])
  BY <1>2 DEF Timed, ReadOf, Stages
<1> QED  BY <1>5, <1>6 DEF Settled

LEMMA StepSettled == IInv /\ [Next]_vars => IInv'
<1> SUFFICES ASSUME IInv, [Next]_vars PROVE IInv'  OBVIOUS
<1>1. TypeInv'
  BY StepTypes DEF IInv
<1>2. CASE UNCHANGED vars
  <2>1. UNCHANGED <<elapsed, referrer, credited, totalYieldPaid, logged, commission, settler, budget>>
    BY <1>2 DEF vars, books
  <2>2. Settled'
    BY <2>1 DEF IInv, Settled, Accounts, Commissions, Covers, Owing, Share, Timed, ReadOf, Gets, CutOffs
  <2> QED  BY <1>1, <2>2 DEF IInv
<1> QED  BY <1>1, <1>2, StepKinds, WorldSettled, CutSettled, DecideSettled, CarrySettled DEF IInv

LEMMA AtRestAgree == IInv => RecordsAgree
<1> SUFFICES ASSUME IInv, \A s \in Settlers : settler[s].pc = "idle", NEW d \in Deposits
             PROVE  /\ AllBut(totalYieldPaid[d], d) /\ AllBut(logged[d], d)
                    /\ logged[d] <= totalYieldPaid[d]
                    /\ commission[1][d] <= logged[d] /\ commission[2][d] <= commission[1][d]
                    /\ budget.referrals = 0 =>
                         \A l \in {1, 2} : IF Gets(l) THEN AllBut(commission[l][d], d)
                                           ELSE commission[l][d] = 0
  BY DEF RecordsAgree
<1>1. \A P \in {ToBook, ToLog, {"log"}, ToDirect, ToSecond, AtFirst, AtSecond} : Owing(P, d) = 0
  <2> SUFFICES ASSUME NEW P \in {ToBook, ToLog, {"log"}, ToDirect, ToSecond, AtFirst, AtSecond}
               PROVE  Owing(P, d) = 0
    OBVIOUS
  <2>1. "idle" \notin P
    BY DEF ToBook, ToLog, ToDirect, ToSecond, AtFirst, AtSecond
  <2>2. \A s \in Settlers : Share(P, d)[s] = 0
    BY <2>1 DEF Share
  <2> QED  BY <2>2, SumOfNothing DEF Owing
<1>2. /\ credited[d] \in Nat /\ totalYieldPaid[d] \in Nat /\ logged[d] \in Nat
      /\ commission[1][d] \in Nat /\ commission[2][d] \in Nat
  BY BoundTypes DEF IInv
<1>3. Accounts(d) /\ (budget.referrals = 0 => Commissions(d))
  BY DEF IInv, Settled
<1>4. \A n \in Nat, P \in {ToBook, ToLog, ToDirect, ToSecond} : Covers(n, P, d) => AllBut(n, d)
  BY <1>1 DEF Covers, AllBut
<1>5. AllBut(totalYieldPaid[d], d) /\ AllBut(logged[d], d)
  BY <1>2, <1>3, <1>4 DEF Accounts
<1>6. /\ logged[d] <= totalYieldPaid[d]
      /\ commission[1][d] <= logged[d] /\ commission[2][d] <= commission[1][d]
  BY <1>1, <1>2, <1>3 DEF Accounts
<1>7. ASSUME budget.referrals = 0, NEW l \in {1, 2}
      PROVE  IF Gets(l) THEN AllBut(commission[l][d], d) ELSE commission[l][d] = 0
  <2>1. CASE l = 1
    BY <1>2, <1>3, <1>4, <1>7, <2>1 DEF Commissions
  <2>2. CASE l = 2
    BY <1>2, <1>3, <1>4, <1>7, <2>2 DEF Commissions
  <2> QED  BY <2>1, <2>2
<1> QED  BY <1>5, <1>6, <1>7

(* Whatever calls overlap, settleDepositYield loses no increment: when no  *)
(* call is under way the deposit's total and the log have what the wallet  *)
(* got, but for what each error or restart cut off; and unless a           *)
(* referrer's status changed, distributeReferralCommissions paid each that *)
(* it reaches on as much, and the others nothing.                          *)
THEOREM RecordsMatch == Spec => []RecordsAgree
BY InitSettled, StepSettled, AtRestAgree, PTL DEF Spec

-----------------------------------------------------------------------------
(* Calls that keep apart *)

(* With one call at a time the copies a call works from stay true until it *)
(* books, so that what it is about to credit has completed (Timely); and   *)
(* the wallet is ahead of the deposit by what the call has in hand and by  *)
(* what was cut off in between, each time no more than had completed.      *)
Cuts == budget.faults + budget.crashes
InHand(s, d) == settler[s].pc = "book" /\ Of(s) = d

CopyFresh(c) == \A d \in c.todo :
  c.pc \in {"next", "credit", "book"} \/ d # c.deposit => c.copy[d].paid = totalYieldPaid[d]
Timely(c) ==
  c.pc \in {"credit", "book"} => totalYieldPaid[c.deposit] + c.cycles <= elapsed[c.deposit]

PaidWithin == \A d \in Deposits : totalYieldPaid[d] <= elapsed[d]
Resting == {"idle", "vault"}
CallsFresh == \A s \in Settlers :
  settler[s].pc \notin Resting => CopyFresh(settler[s]) /\ Timely(settler[s])
WalletWithin == \A d \in Deposits :
  /\ (\A s \in Settlers : ~InHand(s, d)) => credited[d] <= totalYieldPaid[d] + elapsed[d] * Cuts
  /\ \A s \in Settlers : InHand(s, d) =>
       credited[d] <= totalYieldPaid[d] + settler[s].cycles + elapsed[d] * Cuts

Exact == TypeInv /\ PaidWithin /\ CallsFresh /\ WalletWithin

LEMMA ExactTypes ==
  ASSUME TypeInv
  PROVE  /\ Cuts \in Nat /\ budget.faults \in Nat /\ budget.crashes \in Nat
         /\ \A d \in Deposits : /\ elapsed[d] \in Nat /\ totalYieldPaid[d] \in Nat
                                /\ credited[d] \in Nat /\ elapsed[d] * Cuts \in Nat
         /\ \A s \in Settlers : settler[s] \in Calls /\ Of(s) \in Deposits /\ settler[s].cycles \in Nat
<1>1. Cuts \in Nat /\ budget.faults \in Nat /\ budget.crashes \in Nat
  BY DEF TypeInv, WorldTypes, Cuts
<1>2. \A d \in Deposits : elapsed[d] \in Nat /\ totalYieldPaid[d] \in Nat /\ credited[d] \in Nat
  BY YieldAssumption DEF TypeInv, WorldTypes, BookTypes
<1>3. \A m, n \in Nat : m * n \in Nat
  OBVIOUS
<1>4. \A s \in Settlers : settler[s] \in Calls /\ Of(s) \in Deposits /\ settler[s].cycles \in Nat
  BY CallAt DEF TypeInv, CallTypes
<1> QED  BY <1>1, <1>2, <1>3, <1>4

(* A call that goes on changes only where it stands. *)
LEMMA GoesOn ==
  ASSUME TypeInv, NEW s \in Settlers, NEW pc, Go(s, pc)
  PROVE  /\ settler'[s].pc = pc /\ settler'[s].todo = settler[s].todo
         /\ settler'[s].copy = settler[s].copy /\ settler'[s].deposit = settler[s].deposit
         /\ settler'[s].cycles = settler[s].cycles
         /\ \A t \in Settlers \ {s} : settler'[t] = settler[t]
BY DEF TypeInv, CallTypes, Calls, Go

(* A call that is through with a deposit still has fresh copies of the rest. *)
LEMMA DoneFresh ==
  ASSUME TypeInv, CallsFresh, NEW s \in Settlers, NEW d \in Deposits, Done(s, d),
         settler[s].pc \notin Resting, settler[s].pc = "next" \/ d = Of(s),
         UNCHANGED <<totalYieldPaid, elapsed>>
  PROVE  CallsFresh'
<1>0. /\ settler'[s].pc \in {"idle", "vault", "next"}
      /\ settler'[s].pc = "next" =>
           /\ settler'[s].todo = settler[s].todo \ {d}
           /\ \A e \in settler[s].todo \ {d} : settler'[s].copy[e] = settler[s].copy[e]
      /\ \A t \in Settlers \ {s} : settler'[t] = settler[t]
  BY DoneMoves DEF Moves
<1>1. CopyFresh(settler[s])
  BY DEF CallsFresh
<1>2. ASSUME settler'[s].pc = "next", NEW e \in settler'[s].todo
      PROVE  settler'[s].copy[e].paid = totalYieldPaid'[e]
  <2>1. e \in settler[s].todo /\ e # d /\ settler'[s].copy[e] = settler[s].copy[e]
    BY <1>0, <1>2
  <2>2. settler[s].copy[e].paid = totalYieldPaid[e]
    BY <1>1, <2>1 DEF CopyFresh, Of
  <2> QED  BY <2>1, <2>2
<1>3. settler'[s].pc \notin Resting => CopyFresh(settler[s])' /\ Timely(settler[s])'
  BY <1>0, <1>2 DEF CopyFresh, Timely, Resting
<1>4. \A t \in Settlers \ {s} :
        settler[t].pc \notin Resting => CopyFresh(settler[t])' /\ Timely(settler[t])'
  BY <1>0 DEF CallsFresh, CopyFresh, Timely
<1> QED  BY <1>0, <1>3, <1>4 DEF CallsFresh

(* What is in hand stays so: the wallet is ahead by as much, or by less of *)
(* what completed.                                                         *)
LEMMA WalletStays ==
  ASSUME Exact, TypeInv', UNCHANGED <<credited, totalYieldPaid>>, Cuts' = Cuts,
         \A d \in Deposits : elapsed'[d] >= elapsed[d],
         \A s \in Settlers : settler[s].pc = "book" \/ settler'[s].pc = "book" => settler'[s] = settler[s]
  PROVE  WalletWithin'
<1> SUFFICES ASSUME NEW d \in Deposits
             PROVE  /\ (\A s \in Settlers : ~InHand(s, d)')
                         => credited'[d] <= totalYieldPaid'[d] + elapsed'[d] * Cuts'
                    /\ \A s \in Settlers : InHand(s, d)' =>
                         credited'[d] <= totalYieldPaid'[d] + settler'[s].cycles + elapsed'[d] * Cuts'
  BY DEF WalletWithin
<1>1. elapsed'[d] * Cuts >= elapsed[d] * Cuts /\ elapsed'[d] * Cuts \in Nat
  <2>1. Cuts \in Nat /\ elapsed[d] \in Nat /\ elapsed'[d] \in Nat /\ elapsed'[d] >= elapsed[d]
    BY YieldAssumption, ExactTypes DEF Exact, TypeInv, WorldTypes
  <2>2. \A k, m, n \in Nat : m >= n => m * k >= n * k /\ m * k \in Nat
    OBVIOUS
  <2> QED  BY <2>1, <2>2
<1>2. /\ credited[d] \in Nat /\ totalYieldPaid[d] \in Nat /\ elapsed[d] * Cuts \in Nat
      /\ \A s \in Settlers : settler[s].cycles \in Nat
  BY ExactTypes DEF Exact
<1>3. \A s \in Settlers : InHand(s, d)' = InHand(s, d) /\ (InHand(s, d) => settler'[s] = settler[s])
  BY DEF InHand, Of
<1>4. ASSUME \A s \in Settlers : ~InHand(s, d)'
      PROVE  credited'[d] <= totalYieldPaid'[d] + elapsed'[d] * Cuts'
  <2>1. credited[d] <= totalYieldPaid[d] + elapsed[d] * Cuts
    BY <1>3, <1>4 DEF Exact, WalletWithin
  <2> QED  BY <1>1, <1>2, <2>1
<1>5. ASSUME NEW s \in Settlers, InHand(s, d)'
      PROVE  credited'[d] <= totalYieldPaid'[d] + settler'[s].cycles + elapsed'[d] * Cuts'
  <2>1. credited[d] <= totalYieldPaid[d] + settler[s].cycles + elapsed[d] * Cuts
    BY <1>3, <1>5 DEF Exact, WalletWithin
  <2>2. settler'[s] = settler[s]
    BY <1>3, <1>5
  <2>3. settler[s].cycles \in Nat
    BY <1>2
  <2> QED  BY <1>1, <1>2, <2>1, <2>2, <2>3
<1> QED  BY <1>4, <1>5

LEMMA WorldExact ==
  ASSUME Exact, TypeInv', WorldMoves
  PROVE  Exact'
<1>1. UNCHANGED <<books, settler>>
  BY WorldTypesKept DEF Exact
<1>2. Cuts' = Cuts
  BY WorldTypesKept DEF Exact, Cuts
<1>3. \A d \in Deposits : elapsed[d] \in Nat /\ elapsed'[d] \in Nat /\ elapsed'[d] >= elapsed[d]
  BY ElapsedGrows DEF Exact
<1>4. PaidWithin'
  <2>1. \A d \in Deposits : totalYieldPaid'[d] = totalYieldPaid[d] /\ totalYieldPaid[d] \in Nat
    BY <1>1, ExactTypes DEF books, Exact
  <2> QED  BY <1>3, <2>1 DEF Exact, PaidWithin
<1>5. CallsFresh'
  <2> SUFFICES ASSUME NEW s \in Settlers, settler'[s].pc \notin Resting
               PROVE  CopyFresh(settler[s])' /\ Timely(settler[s])'
    BY DEF CallsFresh
  <2>1. settler'[s] = settler[s] /\ totalYieldPaid' = totalYieldPaid
    BY <1>1 DEF books
  <2>2. CopyFresh(settler[s]) /\ Timely(settler[s])
    BY <2>1 DEF Exact, CallsFresh
  <2>3. CopyFresh(settler[s])'
    BY <2>1, <2>2 DEF CopyFresh
  <2>4. Timely(settler[s])'
    <3>1. settler[s].deposit \in Deposits /\ settler[s].cycles \in Nat
          /\ totalYieldPaid[settler[s].deposit] \in Nat
      BY ExactTypes DEF Exact, Of
    <3> QED  BY <1>3, <2>1, <2>2, <3>1 DEF Timely
  <2> QED  BY <2>3, <2>4
<1>6. WalletWithin'
  <2>1. UNCHANGED <<credited, totalYieldPaid>>
    BY <1>1 DEF books
  <2> QED  BY <1>1, <1>2, <1>3, <2>1, WalletStays
<1> QED  BY <1>4, <1>5, <1>6 DEF Exact

(* What a cut leaves in the wallet alone is no more than what completed. *)
LEMMA CutExact ==
  ASSUME Exact, TypeInv', CutOff
  PROVE  Exact'
<1>1. UNCHANGED <<elapsed, books>> /\ Cuts' = Cuts + 1
  <2>1. UNCHANGED <<elapsed, books>> /\ \E k \in {"faults", "crashes"} : Fail(k)
    BY DEF CutOff, SettleThrows, FindThrows, Crash, world
  <2>2. \E k \in {"faults", "crashes"} : budget' = [budget EXCEPT ![k] = @ + 1]
    BY <2>1 DEF Fail
  <2>3. CASE budget' = [budget EXCEPT !["faults"] = @ + 1]
    BY <2>1, <2>3 DEF Exact, TypeInv, WorldTypes, Cuts
  <2>4. CASE budget' = [budget EXCEPT !["crashes"] = @ + 1]
    BY <2>1, <2>4 DEF Exact, TypeInv, WorldTypes, Cuts
  <2> QED  BY <2>2, <2>3, <2>4
<1>2. CallsFresh' /\ \A t \in Settlers : settler'[t] = settler[t] \/ settler'[t].pc # "book"
  <2>1. ASSUME NEW s \in Settlers, SettleThrows(s)
        PROVE  CallsFresh' /\ \A t \in Settlers : settler'[t] = settler[t] \/ settler'[t].pc # "book"
    <3>1. Done(s, Of(s)) /\ settler[s].pc \notin Resting /\ Of(s) \in Deposits
      BY <2>1, ExactTypes DEF SettleThrows, Exact, Stages, Resting
    <3> QED  BY <1>1, <3>1, DoneMoves, DoneFresh DEF Exact, books, Moves
  <2>2. ASSUME NEW s \in Settlers, FindThrows(s)
        PROVE  CallsFresh' /\ \A t \in Settlers : settler'[t] = settler[t] \/ settler'[t].pc # "book"
    <3>1. settler' = [settler EXCEPT ![s] = Idle] /\ settler \in [Settlers -> Calls]
      BY <2>2 DEF FindThrows, Exact, TypeInv, CallTypes
    <3>2. settler'[s].pc = "idle" /\ \A t \in Settlers \ {s} : settler'[t] = settler[t]
      BY <3>1 DEF Idle
    <3> QED  BY <1>1, <3>2 DEF Exact, books, CallsFresh, CopyFresh, Timely, Resting
  <2>3. CASE Crash
    BY <2>3 DEF Crash, Idle, CallsFresh, Resting
  <2> QED  BY <2>1, <2>2, <2>3 DEF CutOff
<1>3. PaidWithin'
  BY <1>1 DEF Exact, PaidWithin, books
<1> SUFFICES ASSUME NEW d \in Deposits
             PROVE  /\ (\A s \in Settlers : ~InHand(s, d)')
                         => credited'[d] <= totalYieldPaid'[d] + elapsed'[d] * Cuts'
                    /\ \A s \in Settlers : InHand(s, d)' =>
                         credited'[d] <= totalYieldPaid'[d] + settler'[s].cycles + elapsed'[d] * Cuts'
  BY <1>2, <1>3 DEF Exact, WalletWithin
<1>4. /\ credited[d] \in Nat /\ totalYieldPaid[d] \in Nat /\ elapsed[d] \in Nat /\ elapsed[d] * Cuts \in Nat
      /\ \A s \in Settlers : settler[s].cycles \in Nat
  BY ExactTypes DEF Exact
<1>5. elapsed'[d] * Cuts' = elapsed[d] * Cuts + elapsed[d]
  <2>1. \A m, n \in Nat : m * (n + 1) = m * n + m
    OBVIOUS
  <2> QED  BY <1>1, <1>4, <2>1, ExactTypes DEF Exact
<1>6. credited'[d] = credited[d] /\ totalYieldPaid'[d] = totalYieldPaid[d]
  BY <1>1 DEF books
<1>7. credited[d] <= totalYieldPaid[d] + elapsed[d] * Cuts + elapsed[d]
  <2>1. CASE \A s \in Settlers : ~InHand(s, d)
    BY <1>4, <2>1 DEF Exact, WalletWithin
  <2>2. ASSUME NEW s \in Settlers, InHand(s, d)
        PROVE  credited[d] <= totalYieldPaid[d] + elapsed[d] * Cuts + elapsed[d]
    <3>1. credited[d] <= totalYieldPaid[d] + settler[s].cycles + elapsed[d] * Cuts
      BY <2>2 DEF Exact, WalletWithin
    <3>2. totalYieldPaid[d] + settler[s].cycles <= elapsed[d]
      BY <2>2 DEF Exact, CallsFresh, Timely, InHand, Of, Resting
    <3>3. settler[s].cycles \in Nat
      BY <1>4
    <3> QED  BY <1>4, <3>1, <3>2, <3>3
  <2> QED  BY <2>1, <2>2
<1>8. ASSUME NEW s \in Settlers, InHand(s, d)'
      PROVE  credited'[d] <= totalYieldPaid'[d] + settler'[s].cycles + elapsed'[d] * Cuts'
  <2>1. settler'[s] = settler[s] /\ InHand(s, d)
    BY <1>2, <1>8 DEF InHand, Of
  <2>2. credited[d] <= totalYieldPaid[d] + settler[s].cycles + elapsed[d] * Cuts
    BY <2>1 DEF Exact, WalletWithin
  <2>3. settler[s].cycles \in Nat
    BY <1>4
  <2> QED  BY <1>4, <1>5, <1>6, <2>1, <2>2, <2>3
<1> QED  BY <1>4, <1>5, <1>6, <1>7, <1>8

(* What the others work from stays. *)
LEMMA OthersFresh ==
  ASSUME CallsFresh, UNCHANGED <<totalYieldPaid, elapsed>>, NEW s \in Settlers,
         \A t \in Settlers \ {s} : settler'[t] = settler[t],
         CopyFresh(settler[s])' /\ Timely(settler[s])'
  PROVE  CallsFresh'
<1> SUFFICES ASSUME NEW t \in Settlers, settler'[t].pc \notin Resting
             PROVE  CopyFresh(settler[t])' /\ Timely(settler[t])'
  BY DEF CallsFresh
<1>1. CASE t = s
  BY <1>1
<1>2. CASE t # s
  BY <1>2 DEF CallsFresh, CopyFresh, Timely
<1> QED  BY <1>1, <1>2

(* What a call decides to do and what it loads. *)
DecidesApart(s) ==
  /\ CallsFresh' /\ settler[s].pc \in {"idle", "vault", "next"} /\ settler'[s].pc # "book"
  /\ \A t \in Settlers \ {s} : settler'[t] = settler[t]

LEMMA DecideExact ==
  ASSUME Exact, TypeInv', NEW s \in Settlers, Decides(s)
  PROVE  Exact'
<1>0. settler \in [Settlers -> Calls]
  BY DEF Exact, TypeInv, CallTypes
<1>1. UNCHANGED <<books, budget, elapsed>>
  BY DecideTypes DEF Exact, world
<1>2. ASSUME Begins(s) PROVE DecidesApart(s)
  <2>0. BookTypes /\ TypeInv
    BY DEF Exact, TypeInv
  <2>1. PICK V \in SUBSET Vaults :
          \/ settler' = [settler EXCEPT ![s] = Rest(V)]
          \/ \E D \in SUBSET Deposits : settler' = [settler EXCEPT ![s] = Loaded(D, V)]
    BY <1>2, <2>0, BeginsMeans
  <2>2. settler[s].pc \in {"idle", "vault"}
    BY <1>2, <2>0, BeginsMeans
  <2>3. CASE settler' = [settler EXCEPT ![s] = Rest(V)]
    <3>1. settler'[s].pc \in Resting /\ \A t \in Settlers \ {s} : settler'[t] = settler[t]
      BY <1>0, <2>3, RestTypes DEF Resting
    <3>2. CallsFresh'
      BY <1>1, <3>1 DEF Exact, books, CallsFresh, CopyFresh, Timely
    <3> QED  BY <2>2, <3>1, <3>2 DEF DecidesApart, Resting
  <2>4. ASSUME NEW D \in SUBSET Deposits, settler' = [settler EXCEPT ![s] = Loaded(D, V)]
        PROVE  DecidesApart(s)
    <3>1. /\ settler'[s].pc = "next" /\ settler'[s].todo = D
          /\ \A d \in D : settler'[s].copy[d].paid = totalYieldPaid[d]
          /\ \A t \in Settlers \ {s} : settler'[t] = settler[t]
      BY <1>0, <2>0, <2>4, LoadedTypes
    <3>2. CopyFresh(settler[s])' /\ Timely(settler[s])'
      BY <1>1, <3>1 DEF CopyFresh, Timely, books
    <3> QED  BY <1>1, <2>2, <3>1, <3>2, OthersFresh DEF Exact, books, DecidesApart
  <2> QED  BY <2>1, <2>3, <2>4
<1>3. ASSUME NEW d \in Deposits, NothingNew(s, d) PROVE DecidesApart(s)
  <2>1. Done(s, d) /\ settler[s].pc = "next"
    BY <1>3 DEF NothingNew, At
  <2>2. settler[s].pc \notin Resting
    BY <2>1 DEF Resting
  <2> QED  BY <1>1, <2>1, <2>2, DoneMoves, DoneFresh DEF Exact, books, DecidesApart, Moves
<1>4. ASSUME NEW d \in Deposits, Mature(s, d) PROVE DecidesApart(s)
  <2>1. /\ settler[s].pc = "next" /\ d \in settler[s].todo /\ NewCycles(s, d) > 0
        /\ settler'[s].pc = "credit" /\ settler'[s].todo = settler[s].todo
        /\ settler'[s].copy = settler[s].copy /\ settler'[s].deposit = d
        /\ settler'[s].cycles = NewCycles(s, d)
        /\ \A t \in Settlers \ {s} : settler'[t] = settler[t]
    BY <1>0, <1>4 DEF Mature, At, Calls
  <2>2. \A e \in settler[s].todo : settler[s].copy[e].paid = totalYieldPaid[e]
    BY <2>1 DEF Exact, CallsFresh, CopyFresh, Resting
  <2>3. totalYieldPaid[d] + NewCycles(s, d) <= elapsed[d]
    <3>1. /\ settler[s].copy[d].paid \in Nat /\ settler[s].copy[d].matured \in Nat
          /\ elapsed[d] \in Nat /\ settler[s].copy[d].paid = totalYieldPaid[d]
      BY <1>0, <2>1, <2>2, ExactTypes DEF Exact, Calls, Copies
    <3> QED  BY <3>1 DEF NewCycles, AlreadyMatured, Greater
  <2>4. CopyFresh(settler[s])' /\ Timely(settler[s])'
    BY <1>1, <2>1, <2>2, <2>3 DEF CopyFresh, Timely, books
  <2> QED  BY <1>1, <2>1, <2>4, OthersFresh DEF Exact, books, DecidesApart
<1>5. DecidesApart(s)
  BY <1>2, <1>3, <1>4 DEF Decides
<1>6. PaidWithin' /\ Cuts' = Cuts
  BY <1>1 DEF Exact, PaidWithin, books, Cuts
<1>7. WalletWithin'
  <2>1. \A d \in Deposits : elapsed'[d] >= elapsed[d]
    BY <1>1, ExactTypes DEF Exact
  <2>2. UNCHANGED <<credited, totalYieldPaid>>
    BY <1>1 DEF books
  <2>3. \A t \in Settlers : settler[t].pc = "book" \/ settler'[t].pc = "book" => settler'[t] = settler[t]
    BY <1>5 DEF DecidesApart
  <2> QED  BY <1>6, <2>1, <2>2, <2>3, WalletStays
<1> QED  BY <1>5, <1>6, <1>7 DEF Exact, DecidesApart

(* The wallet is credited; nobody else has anything in hand. *)
LEMMA CreditExact ==
  ASSUME Exact, TypeInv', OneAtATime, NEW s \in Settlers, CreditWallet(s)
  PROVE  Exact'
<1>0. settler \in [Settlers -> Calls] /\ credited \in [Deposits -> Nat]
  BY DEF Exact, TypeInv, CallTypes, BookTypes
<1>1. /\ settler[s].pc = "credit" /\ Go(s, "book") /\ UNCHANGED <<totalYieldPaid, elapsed, budget>>
      /\ credited' = [credited EXCEPT ![Of(s)] = @ + settler[s].cycles]
  BY DEF CreditWallet, At, world
<1>2. /\ settler'[s].pc = "book" /\ settler'[s].todo = settler[s].todo
      /\ settler'[s].copy = settler[s].copy /\ settler'[s].deposit = settler[s].deposit
      /\ settler'[s].cycles = settler[s].cycles
      /\ \A t \in Settlers \ {s} : settler'[t] = settler[t]
  BY <1>1, GoesOn DEF Exact
<1>3. \A t \in Settlers \ {s} : settler[t].pc = "idle"
  BY <1>1 DEF OneAtATime
<1>4. PaidWithin' /\ Cuts' = Cuts
  BY <1>1 DEF Exact, PaidWithin, Cuts
<1>5. CallsFresh'
  <2>1. CopyFresh(settler[s]) /\ Timely(settler[s])
    BY <1>1 DEF Exact, CallsFresh, Resting
  <2>2. CopyFresh(settler[s])' /\ Timely(settler[s])'
    BY <1>1, <1>2, <2>1 DEF CopyFresh, Timely
  <2> QED  BY <1>1, <1>2, <2>2, OthersFresh DEF Exact
<1>6. WalletWithin'
  <2> SUFFICES ASSUME NEW d \in Deposits
               PROVE  /\ (\A t \in Settlers : ~InHand(t, d)')
                           => credited'[d] <= totalYieldPaid'[d] + elapsed'[d] * Cuts'
                      /\ \A t \in Settlers : InHand(t, d)' =>
                           credited'[d] <= totalYieldPaid'[d] + settler'[t].cycles + elapsed'[d] * Cuts'
    BY DEF WalletWithin
  <2>1. \A t \in Settlers : ~InHand(t, d)
    BY <1>1, <1>3 DEF InHand
  <2>2. credited[d] <= totalYieldPaid[d] + elapsed[d] * Cuts
    BY <2>1 DEF Exact, WalletWithin
  <2>3. /\ credited[d] \in Nat /\ totalYieldPaid[d] \in Nat /\ elapsed[d] * Cuts \in Nat
        /\ settler[s].cycles \in Nat
    BY ExactTypes DEF Exact
  <2>4. credited'[d] = IF d = Of(s) THEN credited[d] + settler[s].cycles ELSE credited[d]
    BY <1>0, <1>1
  <2>5. \A t \in Settlers : InHand(t, d)' => t = s /\ d = Of(s)
    BY <1>2, <1>3 DEF InHand, Of
  <2>6. d = Of(s) => InHand(s, d)'
    BY <1>2 DEF InHand, Of
  <2>7. ASSUME d = Of(s)
        PROVE  credited'[d] <= totalYieldPaid'[d] + settler'[s].cycles + elapsed'[d] * Cuts'
    BY <1>1, <1>2, <1>4, <2>2, <2>3, <2>4, <2>7
  <2>8. ASSUME d # Of(s)
        PROVE  credited'[d] <= totalYieldPaid'[d] + elapsed'[d] * Cuts'
    BY <1>1, <1>4, <2>2, <2>3, <2>4, <2>8
  <2> QED  BY <2>5, <2>6, <2>7, <2>8
<1> QED  BY <1>4, <1>5, <1>6 DEF Exact

(* The deposit takes what was in hand; nobody else has a copy of it. *)
LEMMA BookExact ==
  ASSUME Exact, TypeInv', OneAtATime, NEW s \in Settlers, BookDeposit(s)
  PROVE  Exact'
<1>0. settler \in [Settlers -> Calls] /\ totalYieldPaid \in [Deposits -> Nat] /\ Of(s) \in Deposits
  BY ExactTypes DEF Exact, TypeInv, CallTypes, BookTypes
<1>1. /\ settler[s].pc = "book" /\ Go(s, "log") /\ UNCHANGED <<credited, elapsed, budget>>
      /\ totalYieldPaid' = [totalYieldPaid EXCEPT ![Of(s)] = @ + settler[s].cycles]
  BY DEF BookDeposit, At, world
<1>2. /\ settler'[s].pc = "log" /\ settler'[s].todo = settler[s].todo
      /\ settler'[s].copy = settler[s].copy /\ settler'[s].deposit = settler[s].deposit
      /\ \A t \in Settlers \ {s} : settler'[t] = settler[t]
  BY <1>1, GoesOn DEF Exact
<1>3. \A t \in Settlers \ {s} : settler[t].pc = "idle"
  BY <1>1 DEF OneAtATime
<1>4. \A d \in Deposits : totalYieldPaid'[d] =
        IF d = Of(s) THEN totalYieldPaid[d] + settler[s].cycles ELSE totalYieldPaid[d]
  BY <1>0, <1>1
<1>5. CopyFresh(settler[s]) /\ totalYieldPaid[Of(s)] + settler[s].cycles <= elapsed[Of(s)]
  BY <1>1 DEF Exact, CallsFresh, Timely, Of, Resting
<1>6. PaidWithin' /\ Cuts' = Cuts
  BY <1>1, <1>4, <1>5 DEF Exact, PaidWithin, Cuts
<1>7. CallsFresh'
  <2>1. settler[s].todo \subseteq Deposits
    BY <1>0 DEF Calls
  <2>2. CopyFresh(settler[s])'
    BY <1>1, <1>2, <1>4, <1>5, <2>1 DEF CopyFresh, Of
  <2>3. Timely(settler[s])'
    BY <1>2 DEF Timely
  <2> QED  BY <1>2, <1>3, <2>2, <2>3 DEF CallsFresh, Resting
<1>8. WalletWithin'
  <2> SUFFICES ASSUME NEW d \in Deposits
               PROVE  /\ credited'[d] <= totalYieldPaid'[d] + elapsed'[d] * Cuts'
                      /\ \A t \in Settlers : ~InHand(t, d)'
    BY DEF WalletWithin
  <2>1. \A t \in Settlers : ~InHand(t, d)'
    BY <1>2, <1>3 DEF InHand
  <2>2. /\ credited[d] \in Nat /\ totalYieldPaid[d] \in Nat /\ elapsed[d] * Cuts \in Nat
        /\ settler[s].cycles \in Nat
    BY ExactTypes DEF Exact
  <2>3. CASE d = Of(s)
    <3>1. credited[d] <= totalYieldPaid[d] + settler[s].cycles + elapsed[d] * Cuts
      BY <1>1, <2>3 DEF Exact, WalletWithin, InHand
    <3> QED  BY <1>1, <1>4, <1>6, <2>1, <2>2, <2>3, <3>1
  <2>4. CASE d # Of(s)
    <3>1. \A t \in Settlers : ~InHand(t, d)
      BY <1>3, <2>4 DEF InHand
    <3>2. credited[d] <= totalYieldPaid[d] + elapsed[d] * Cuts
      BY <3>1 DEF Exact, WalletWithin
    <3> QED  BY <1>1, <1>4, <1>6, <2>1, <2>2, <2>4, <3>2
  <2> QED  BY <2>3, <2>4
<1> QED  BY <1>6, <1>7, <1>8 DEF Exact

(* The log and the commissions come after. *)
LEMMA AfterExact ==
  ASSUME Exact, TypeInv', NEW s \in Settlers,
         \/ LogYield(s) \/ PayDirectReferrer(s) \/ PaySecondReferrer(s)
         \/ \E l \in {1, 2} : ReadReferrer(s, l)
  PROVE  Exact'
<1> DEFINE Later == {"referrer1", "commission1", "referrer2", "commission2"}
<1>1. /\ settler[s].pc \in Later \union {"log"}
      /\ UNCHANGED <<credited, totalYieldPaid, elapsed, budget>>
      /\ (\E pc \in Later : Go(s, pc)) \/ Done(s, Of(s))
  <2>1. CASE LogYield(s)
    BY <2>1 DEF LogYield, At, world
  <2>2. CASE PayDirectReferrer(s)
    BY <2>2 DEF PayDirectReferrer, At, world
  <2>3. CASE PaySecondReferrer(s)
    BY <2>3 DEF PaySecondReferrer, At, world
  <2>4. ASSUME NEW l \in {1, 2}, ReadReferrer(s, l)
        PROVE  /\ settler[s].pc \in Later
               /\ UNCHANGED <<credited, totalYieldPaid, elapsed, budget>>
               /\ (\E pc \in Later : Go(s, pc)) \/ Done(s, Of(s))
    BY <2>4 DEF ReadReferrer, At, world, books
  <2> QED  BY <2>1, <2>2, <2>3, <2>4
<1>2. /\ CallsFresh' /\ settler'[s].pc # "book"
      /\ \A t \in Settlers \ {s} : settler'[t] = settler[t]
  <2>0. settler[s].pc \notin Resting
    BY <1>1 DEF Resting
  <2>1. ASSUME NEW pc \in Later, Go(s, pc)
        PROVE  /\ CallsFresh' /\ settler'[s].pc # "book"
               /\ \A t \in Settlers \ {s} : settler'[t] = settler[t]
    <3>1. /\ settler'[s].pc = pc /\ settler'[s].todo = settler[s].todo
          /\ settler'[s].copy = settler[s].copy /\ settler'[s].deposit = settler[s].deposit
          /\ \A t \in Settlers \ {s} : settler'[t] = settler[t]
      BY <2>1, GoesOn DEF Exact
    <3>2. CopyFresh(settler[s])
      BY <2>0 DEF Exact, CallsFresh
    <3>3. CopyFresh(settler[s])' /\ Timely(settler[s])'
      BY <1>1, <3>1, <3>2 DEF CopyFresh, Timely
    <3> QED  BY <1>1, <3>1, <3>3, OthersFresh DEF Exact
  <2>2. CASE Done(s, Of(s))
    <3>1. Of(s) \in Deposits
      BY ExactTypes DEF Exact
    <3> QED  BY <1>1, <2>0, <2>2, <3>1, DoneMoves, DoneFresh DEF Exact, Moves
  <2> QED  BY <1>1, <2>1, <2>2
<1>3. PaidWithin' /\ Cuts' = Cuts
  BY <1>1 DEF Exact, PaidWithin, Cuts
<1>4. WalletWithin'
  <2>1. \A d \in Deposits : elapsed'[d] >= elapsed[d]
    BY <1>1, ExactTypes DEF Exact
  <2>2. \A t \in Settlers : settler[t].pc = "book" \/ settler'[t].pc = "book" => settler'[t] = settler[t]
    BY <1>1, <1>2
  <2> QED  BY <1>1, <1>3, <2>1, <2>2, WalletStays
<1> QED  BY <1>2, <1>3, <1>4 DEF Exact

LEMMA ExactInit == Init => Exact
<1> SUFFICES ASSUME Init PROVE Exact  OBVIOUS
<1>1. TypeInv
  BY InitTypes
<1>2. PaidWithin /\ \A s \in Settlers : settler[s].pc = "idle"
  BY DEF Init, PaidWithin, Idle
<1>3. Cuts = 0
  BY DEF Init, Cuts
<1>4. ASSUME NEW d \in Deposits PROVE credited[d] <= totalYieldPaid[d] + elapsed[d] * Cuts
  <2>1. credited[d] = totalYieldPaid[d] /\ totalYieldPaid[d] \in Nat /\ elapsed[d] \in Nat
    BY <1>1, ExactTypes DEF Init
  <2>2. elapsed[d] * Cuts = 0
    BY <1>3, <2>1
  <2> QED  BY <2>1, <2>2
<1> QED  BY <1>1, <1>2, <1>4 DEF Exact, CallsFresh, WalletWithin, InHand, Resting

LEMMA ExactStep == Exact /\ OneAtATime /\ [Next]_vars => Exact'
<1> SUFFICES ASSUME Exact, OneAtATime, [Next]_vars PROVE Exact'  OBVIOUS
<1>1. TypeInv'
  BY StepTypes DEF Exact
<1>2. ASSUME NEW s \in Settlers, Carries(s) PROVE Exact'
  BY <1>1, <1>2, CreditExact, BookExact, AfterExact DEF Carries
<1>3. CASE UNCHANGED vars
  <2>1. UNCHANGED <<settler, credited, totalYieldPaid, elapsed, budget>>
    BY <1>3 DEF vars, books
  <2>2. Cuts' = Cuts /\ PaidWithin'
    BY <2>1 DEF Cuts, Exact, PaidWithin
  <2>3. CallsFresh'
    BY <2>1 DEF Exact, CallsFresh, CopyFresh, Timely
  <2>4. WalletWithin'
    BY <2>1, <2>2 DEF Exact, WalletWithin, InHand, Of
  <2> QED  BY <1>1, <2>2, <2>3, <2>4 DEF Exact
<1> QED  BY <1>1, <1>2, <1>3, StepKinds, WorldExact, CutExact, DecideExact

LEMMA ExactBounds == Exact => CreditedWithin
<1> SUFFICES ASSUME Exact, NEW d \in Deposits
             PROVE  credited[d] <= elapsed[d] * (1 + budget.faults + budget.crashes)
  BY DEF CreditedWithin
<1>1. /\ credited[d] \in Nat /\ totalYieldPaid[d] \in Nat /\ elapsed[d] \in Nat /\ elapsed[d] * Cuts \in Nat
      /\ \A s \in Settlers : settler[s].cycles \in Nat
  BY ExactTypes DEF Exact
<1>2. elapsed[d] * (1 + budget.faults + budget.crashes) = elapsed[d] + elapsed[d] * Cuts
  <2>1. \A m, n \in Nat : m * (1 + n) = m + m * n
    OBVIOUS
  <2>2. 1 + budget.faults + budget.crashes = 1 + Cuts /\ Cuts \in Nat
    BY ExactTypes DEF Exact, Cuts
  <2> QED  BY <1>1, <2>1, <2>2
<1>3. credited[d] <= elapsed[d] + elapsed[d] * Cuts
  <2>1. CASE \A s \in Settlers : ~InHand(s, d)
    BY <1>1, <2>1 DEF Exact, WalletWithin, PaidWithin
  <2>2. ASSUME NEW s \in Settlers, InHand(s, d) PROVE credited[d] <= elapsed[d] + elapsed[d] * Cuts
    <3>1. credited[d] <= totalYieldPaid[d] + settler[s].cycles + elapsed[d] * Cuts
      BY <2>2 DEF Exact, WalletWithin
    <3>2. totalYieldPaid[d] + settler[s].cycles <= elapsed[d] /\ settler[s].cycles \in Nat
      BY <1>1, <2>2 DEF Exact, CallsFresh, Timely, InHand, Of, Resting
    <3> QED  BY <1>1, <3>1, <3>2
  <2> QED  BY <2>1, <2>2
<1> QED  BY <1>2, <1>3

(* settleDepositYield credits "ONLY newly-completed cycles": as long as no *)
(* two calls are under way at once, a deposit never yields more cycles     *)
(* than it has completed, and each error or restart repeats them once at   *)
(* most.                                                                   *)
THEOREM ExactWhenApart == Spec => ApartIsExact
BY ExactInit, ExactStep, ExactBounds, PTL DEF Spec, ApartIsExact
=============================================================================
