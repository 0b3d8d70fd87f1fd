------------------------ MODULE PersistentSweepProofs ------------------------
(***************************************************************************)
(* Proofs about PersistentSweep, for any transfers, tokens, networks,      *)
(* sweeps, faults and restarts: its types, that the books never claim more *)
(* sweeps than the chain made, and that on an address with one asset where *)
(* nothing fails and every sweep is waited for only credited value is      *)
(* swept.                                                                  *)
(*                                                                         *)
(* The mined rows add up to what left the address, and only a mined row is *)
(* confirmed; so a sum of the confirmed rows is never too large, and what  *)
(* a pass has copied from it stays true.  Where nothing fails each row but *)
(* the one being sent is settled, so that the sum is exact, a decision is  *)
(* made on all that left, and what is decided is still there to be swept   *)
(* when it is sent: of what is credited nothing is taken away.             *)
(***************************************************************************)
EXTENDS PersistentSweep, SequenceTheorems, FiniteSetTheorems, WellFoundedInduction, TLAPS

-----------------------------------------------------------------------------
(* Types *)

Pcs == {"idle", "reconcile", "recordReconciled", "sumLedgers", "writeTotals", "readBalance",
        "decide", "flipFallback", "countFallback", "rereadTotals", "create", "send",
        "saveHash", "wait", "record"}
Docs == [credited : Nat, swept : Nat, unexplained : BOOLEAN]
Budgets == [faults : Nat, crashes : Nat, recoveries : Nat, windows : Nat]
Kinds == {"faults", "crashes", "recoveries", "windows"}

WorldTypes == load \in Loads /\ ahead \in 0..load.others /\ budget \in Budgets
CreditTypes ==
  /\ row \in [Transfers -> {"away", "arrived", "flipped", "credited"}]
  /\ fallback \subseteq Credit /\ IsFiniteSet(fallback)
  /\ \A f, g \in fallback : f.key = g.key => f = g
BookTypes == creditedTotal \in Nat /\ sweptTotal \in Nat /\ unexplained \in BOOLEAN
ChainTypes == balance \in [Assets -> Nat] /\ moved \in [Assets -> Nat]
RowTypes == sweeps \in Seq(Sweeps) /\ Len(sweeps) <= MaxSweeps

(* The sweeper works on a row it made, and reconciles one that it loaded.  *)
Sending == {"send", "saveHash", "wait", "record"}
CallTypes ==
  /\ pc \in Pcs /\ queue \subseteq DOMAIN sweeps /\ doc \in Docs
  /\ step \in DOMAIN Tokens /\ read \in Nat /\ amount \in Nat /\ current \in 0..Len(sweeps)
  /\ pc \in Sending => current \in DOMAIN sweeps
  /\ pc = "recordReconciled" => queue # {}

TypeInv == WorldTypes /\ CreditTypes /\ BookTypes /\ ChainTypes /\ RowTypes /\ CallTypes

LEMMA TypeInvMeans == TypeInv => TypeOK
BY DEF TypeInv, WorldTypes, CreditTypes, BookTypes, ChainTypes, RowTypes, CallTypes, TypeOK,
   Pcs, Docs, Budgets

LEMMA LoadFacts ==
  ASSUME load \in Loads
  PROVE  /\ Len(Tokens) \in Nat \ {0} /\ DOMAIN Tokens = 1..Len(Tokens)
         /\ "USDT" \in Assets /\ IsFiniteSet(Assets)
         /\ \A t \in Transfers : Asset[t] \in Assets
         /\ MaxSweeps \in Nat /\ load.others \in Nat
<1>1. /\ load.tokens \in Seq(Stablecoins) /\ load.sweeps \in 0..MaxRows /\ load.others \in Nat
      /\ Len(load.tokens) > 0 /\ load.tokens[1] = "USDT" /\ MaxRows \in Nat
      /\ \A t \in Transfers : \E k \in DOMAIN load.tokens : load.tokens[k] = load.asset[t]
  BY SweepAssumption
<1>2. Len(Tokens) \in Nat \ {0} /\ DOMAIN Tokens = 1..Len(Tokens)
  BY <1>1, LenProperties DEF Tokens
<1>3. "USDT" \in Assets
  BY <1>1, <1>2 DEF Assets, Tokens
<1>4. \A t \in Transfers : Asset[t] \in Assets
  BY <1>1 DEF Assets, Tokens, Asset
<1>5. IsFiniteSet(Assets)
  <2> DEFINE g == [k \in DOMAIN Tokens |-> Tokens[k]]
  <2>1. g \in Surjection(DOMAIN Tokens, Assets)
    BY DEF Surjection, Assets
  <2>2. IsFiniteSet(DOMAIN Tokens)
    BY <1>2, FS_Interval
  <2> HIDE DEF g
  <2> QED  BY <2>1, <2>2, FS_Surjection
<1> QED  BY <1>1, <1>2, <1>3, <1>4, <1>5 DEF MaxSweeps

LEMMA RowFacts ==
  ASSUME RowTypes
  PROVE  /\ Len(sweeps) \in Nat /\ DOMAIN sweeps = 1..Len(sweeps) /\ IsFiniteSet(DOMAIN sweeps)
         /\ \A i \in DOMAIN sweeps : sweeps[i] \in Sweeps
BY LenProperties, ElementOfSeq, FS_Interval DEF RowTypes

(* Every set of rows that is not empty has an oldest. *)
LEMMA OldestOf ==
  ASSUME NEW S \in SUBSET Nat, S # {}
  PROVE  Oldest(S) \in S
<1>1. PICK i \in S : \A j \in S : ~ (<<j, i>> \in OpToRel(<, Nat))
  BY NatLessThanWellFounded, WFMin
<1>2. \A j \in S : ~ (j < i)
  BY <1>1, Zenon DEF OpToRel
<1>3. \A j \in S : i <= j
  BY <1>2
<1> QED  BY <1>3 DEF Oldest

LEMMA OldestInQueue ==
  ASSUME RowTypes, CallTypes, queue # {}
  PROVE  Oldest(queue) \in queue /\ Oldest(queue) \in DOMAIN sweeps
<1>1. queue \subseteq Nat
  BY RowFacts DEF CallTypes
<1> QED  BY <1>1, OldestOf DEF CallTypes

-----------------------------------------------------------------------------
(* The rows *)

(* A row keeps its asset and its amount, and stays. *)
KeepsRows ==
  /\ RowTypes' /\ Len(sweeps') >= Len(sweeps) /\ DOMAIN sweeps \subseteq DOMAIN sweeps'
  /\ \A i \in DOMAIN sweeps : sweeps'[i].amount = sweeps[i].amount /\ sweeps'[i].asset = sweeps[i].asset

LEMMA RowsStay ==
  ASSUME RowTypes, UNCHANGED <<sweeps, load>>
  PROVE  KeepsRows
BY RowFacts DEF KeepsRows, RowTypes, Sweeps, Assets, Tokens, MaxSweeps

LEMMA RowMarks ==
  ASSUME RowTypes, NEW i \in DOMAIN sweeps, NEW e \in Sweeps,
         e.amount = sweeps[i].amount, e.asset = sweeps[i].asset,
         sweeps' = [sweeps EXCEPT ![i] = e], UNCHANGED load
  PROVE  /\ KeepsRows /\ DOMAIN sweeps' = DOMAIN sweeps
         /\ \A j \in DOMAIN sweeps : sweeps'[j] = IF j = i THEN e ELSE sweeps[j]
<1>1. /\ Len(sweeps) \in Nat /\ DOMAIN sweeps = 1..Len(sweeps)
      /\ \A j \in DOMAIN sweeps : sweeps[j] \in Sweeps
  BY RowFacts
<1>2. /\ sweeps' \in Seq(Sweeps) /\ Len(sweeps') = Len(sweeps)
      /\ \A j \in 1..Len(sweeps) : sweeps'[j] = IF j = i THEN e ELSE sweeps[j]
  BY <1>1, ExceptSeq DEF RowTypes
<1>3. RowTypes'
  BY <1>2 DEF RowTypes, Sweeps, Assets, Tokens, MaxSweeps
<1>4. DOMAIN sweeps' = DOMAIN sweeps
  BY <1>1, <1>2, LenProperties
<1> QED  BY <1>1, <1>2, <1>3, <1>4 DEF KeepsRows

Statuses == {"broadcast", "failed", "confirmed"}
Fates == {"none", "pending", "mined", "reverted"}

(* What an update of one field does. *)
SameBut(i, st, h, x) ==
  /\ KeepsRows /\ DOMAIN sweeps' = DOMAIN sweeps
  /\ \A j \in DOMAIN sweeps \ {i} : sweeps'[j] = sweeps[j]
  /\ sweeps'[i].status = st /\ sweeps'[i].hash = h /\ sweeps'[i].tx = x

LEMMA StatusMarks ==
  ASSUME RowTypes, NEW i \in DOMAIN sweeps, NEW st \in Statuses,
         sweeps' = [sweeps EXCEPT ![i].status = st], UNCHANGED load
  PROVE  SameBut(i, st, sweeps[i].hash, sweeps[i].tx)
<1> DEFINE e == [sweeps[i] EXCEPT !.status = st]
<1>1. /\ e \in Sweeps /\ e.amount = sweeps[i].amount /\ e.asset = sweeps[i].asset
      /\ e.status = st /\ e.hash = sweeps[i].hash /\ e.tx = sweeps[i].tx
  BY RowFacts DEF Sweeps, Statuses
<1>2. sweeps' = [sweeps EXCEPT ![i] = e]
  OBVIOUS
<1> HIDE DEF e
<1> QED  BY <1>1, <1>2, RowMarks DEF SameBut

LEMMA HashMarks ==
  ASSUME RowTypes, NEW i \in DOMAIN sweeps,
         sweeps' = [sweeps EXCEPT ![i].hash = TRUE], UNCHANGED load
  PROVE  SameBut(i, sweeps[i].status, TRUE, sweeps[i].tx)
<1> DEFINE e == [sweeps[i] EXCEPT !.hash = TRUE]
<1>1. /\ e \in Sweeps /\ e.amount = sweeps[i].amount /\ e.asset = sweeps[i].asset
      /\ e.status = sweeps[i].status /\ e.hash = TRUE /\ e.tx = sweeps[i].tx
  BY RowFacts DEF Sweeps
<1>2. sweeps' = [sweeps EXCEPT ![i] = e]
  OBVIOUS
<1> HIDE DEF e
<1> QED  BY <1>1, <1>2, RowMarks DEF SameBut

LEMMA FateMarks ==
  ASSUME RowTypes, NEW i \in DOMAIN sweeps, NEW x \in Fates,
         sweeps' = [sweeps EXCEPT ![i].tx = x], UNCHANGED load
  PROVE  SameBut(i, sweeps[i].status, sweeps[i].hash, x)
<1> DEFINE e == [sweeps[i] EXCEPT !.tx = x]
<1>1. /\ e \in Sweeps /\ e.amount = sweeps[i].amount /\ e.asset = sweeps[i].asset
      /\ e.status = sweeps[i].status /\ e.hash = sweeps[i].hash /\ e.tx = x
  BY RowFacts DEF Sweeps, Fates
<1>2. sweeps' = [sweeps EXCEPT ![i] = e]
  OBVIOUS
<1> HIDE DEF e
<1> QED  BY <1>1, <1>2, RowMarks DEF SameBut

LEMMA RowCreated ==
  ASSUME RowTypes, CallTypes, load \in Loads, CreateSweep
  PROVE  /\ KeepsRows /\ Len(sweeps') = Len(sweeps) + 1
         /\ DOMAIN sweeps' = DOMAIN sweeps \union {current'} /\ current' = Len(sweeps) + 1
         /\ current' \notin DOMAIN sweeps
         /\ \A j \in DOMAIN sweeps : sweeps'[j] = sweeps[j]
         /\ sweeps'[current'].amount = amount /\ sweeps'[current'].tx = "none"
         /\ sweeps'[current'].status = "broadcast"
<1> DEFINE e == [asset |-> Tokens[step], amount |-> amount, status |-> "broadcast",
                 hash |-> FALSE, tx |-> "none"]
<1>1. Tokens[step] \in Assets /\ amount \in Nat
  BY DEF CallTypes, Assets
<1>2. e \in Sweeps /\ e.amount = amount /\ e.tx = "none" /\ e.status = "broadcast"
  BY <1>1 DEF Sweeps
<1>3. /\ sweeps' = Append(sweeps, e) /\ current' = Len(sweeps) + 1 /\ UNCHANGED load
      /\ Len(sweeps) < MaxSweeps
  BY DEF CreateSweep
<1>4. Len(sweeps) \in Nat /\ DOMAIN sweeps = 1..Len(sweeps) /\ MaxSweeps \in Nat
  BY RowFacts, LoadFacts
<1>5. /\ sweeps' \in Seq(Sweeps) /\ Len(sweeps') = Len(sweeps) + 1
      /\ \A j \in 1..Len(sweeps) : sweeps'[j] = sweeps[j]
      /\ sweeps'[Len(sweeps) + 1] = e
  <2> HIDE DEF e
  <2> QED  BY <1>2, <1>3, AppendProperties DEF RowTypes
<1>6. DOMAIN sweeps' = 1..(Len(sweeps) + 1)
  BY <1>5, LenProperties
<1>7. RowTypes'
  BY <1>3, <1>4, <1>5 DEF RowTypes, Sweeps, Assets, Tokens, MaxSweeps
<1>8. DOMAIN sweeps' = DOMAIN sweeps \union {current'} /\ current' \notin DOMAIN sweeps
  BY <1>3, <1>4, <1>6
<1> HIDE DEF e
<1> QED  BY <1>2, <1>3, <1>4, <1>5, <1>7, <1>8 DEF KeepsRows

-----------------------------------------------------------------------------
(* Every step keeps the types *)

LEMMA LoadStays ==
  ASSUME [Next]_vars
  PROVE  UNCHANGED load
<1>1. CASE Sweeper \/ ForceSweep
  BY <1>1 DEF Sweeper, ForceSweep, Tick, StartPass, ReconcileConfirmed, RecordReconciled, ReconcileFailed,
     ReconcileUnknown, LoadDoc, SumLedgers, WriteTotals, ReadBalance, FlagExcess, HoldExcess,
     CreateFallback, FlipFallback, CountFallback, RereadTotals, NoExcess, CreateSweep, OutOfRows,
     Send, SaveHash, WaitMined, RecordSweep, WaitReverted, WaitUnconfirmed
<1>2. CASE \/ \E t \in Transfers : Arrive(t) \/ FlipCredit(t) \/ IncTotal(t)
           \/ \E f \in fallback : RetryFlip(f) \/ RetryInc(f)
           \/ \E i \in DOMAIN sweeps : Mine(i)
  BY <1>2 DEF Arrive, FlipCredit, IncTotal, RetryFlip, RetryInc, Mine
<1>3. CASE \/ WaitTooShort \/ SweepThrows \/ SkipToken \/ FallbackDeferred \/ PassThrows
           \/ Crash \/ Recover \/ OtherSwept
  BY <1>3 DEF WaitTooShort, SweepThrows, SkipToken, FallbackDeferred, PassThrows, Crash, Recover,
     OtherSwept
<1> QED  BY <1>1, <1>2, <1>3 DEF Next, vars

(* What is spent is one call, restart, recovery or window more. *)
LEMMA SpendTypes ==
  ASSUME budget \in Budgets, NEW k \in Kinds, Spend(k)
  PROVE  /\ budget' \in Budgets
         /\ budget'.faults = budget.faults + (IF k = "faults" THEN 1 ELSE 0)
         /\ budget'.crashes = budget.crashes + (IF k = "crashes" THEN 1 ELSE 0)
         /\ budget'.windows = budget.windows + (IF k = "windows" THEN 1 ELSE 0)
<1>1. CASE k = "faults"
  BY <1>1 DEF Budgets, Spend
<1>2. CASE k = "crashes"
  BY <1>2 DEF Budgets, Spend
<1>3. CASE k = "recoveries"
  BY <1>3 DEF Budgets, Spend
<1>4. CASE k = "windows"
  BY <1>4 DEF Budgets, Spend
<1> QED  BY <1>1, <1>2, <1>3, <1>4 DEF Kinds

LEMMA WorldStep ==
  ASSUME TypeInv, [Next]_vars
  PROVE  WorldTypes'
<1>0. /\ load \in Loads /\ ahead \in 0..load.others /\ budget \in Budgets /\ UNCHANGED load
      /\ load.others \in Nat
  BY LoadStays, LoadFacts DEF TypeInv, WorldTypes
<1>1. CASE (Sweeper \/ ForceSweep) /\ ~(ReconcileFailed \/ ReconcileUnknown)
  <2>1. UNCHANGED budget /\ (ahead' = ahead \/ ahead' = load.others)
    BY <1>1 DEF Sweeper, ForceSweep, Tick, StartPass, ReconcileConfirmed, RecordReconciled, LoadDoc, SumLedgers, WriteTotals, ReadBalance, FlagExcess, HoldExcess,
       CreateFallback, FlipFallback, CountFallback, RereadTotals, NoExcess, CreateSweep, OutOfRows,
       Send, SaveHash, WaitMined, RecordSweep, WaitReverted, WaitUnconfirmed, RecordTotals
  <2> QED  BY <1>0, <2>1 DEF WorldTypes
<1>2. CASE \/ \E t \in Transfers : Arrive(t) \/ FlipCredit(t) \/ IncTotal(t)
           \/ \E f \in fallback : RetryFlip(f) \/ RetryInc(f)
           \/ \E i \in DOMAIN sweeps : Mine(i)
           \/ OtherSwept
  <2>1. UNCHANGED budget /\ (ahead' = ahead \/ (ahead > 0 /\ ahead' = ahead - 1))
    BY <1>2 DEF Arrive, FlipCredit, IncTotal, RetryFlip, RetryInc, Mine, OtherSwept
  <2> QED  BY <1>0, <2>1 DEF WorldTypes
<1>3. CASE WaitTooShort \/ SweepThrows \/ SkipToken \/ FallbackDeferred \/ PassThrows
  <2>1. (\E k \in Kinds : Spend(k)) /\ (ahead' = ahead \/ ahead' = load.others)
    BY <1>3 DEF WaitTooShort, SweepThrows, SkipToken, FallbackDeferred, PassThrows, RecordTotals,
       Kinds
  <2> QED  BY <1>0, <2>1, SpendTypes DEF WorldTypes
<1>4. CASE Crash
  BY <1>0, <1>4, SpendTypes DEF WorldTypes, Crash, Kinds
<1>5. CASE Recover
  BY <1>0, <1>5, SpendTypes DEF WorldTypes, Recover, Kinds
<1>6. CASE UNCHANGED vars
  BY <1>0, <1>6 DEF WorldTypes, vars
<1>7. CASE ReconcileFailed \/ ReconcileUnknown
  <2>1. UNCHANGED ahead /\ (UNCHANGED budget \/ \E k \in Kinds : Spend(k))
    BY <1>7 DEF ReconcileFailed, ReconcileUnknown, Kinds
  <2> QED  BY <1>0, <2>1, SpendTypes DEF WorldTypes
<1> QED  BY <1>1, <1>2, <1>3, <1>4, <1>5, <1>6, <1>7 DEF Next

LEMMA ChainStep ==
  ASSUME TypeInv, [Next]_vars
  PROVE  ChainTypes'
<1>0. /\ ChainTypes /\ UNCHANGED load /\ Assets' = Assets /\ "USDT" \in Assets
      /\ \A t \in Transfers : Asset[t] \in Assets
  BY LoadStays, LoadFacts DEF TypeInv, WorldTypes, Assets, Tokens
<1>1. ASSUME NEW t \in Transfers, Arrive(t) PROVE ChainTypes'
  <2>1. balance' \in [Assets -> Nat] /\ UNCHANGED moved
    BY <1>0, <1>1 DEF ChainTypes, Arrive
  <2> QED  BY <1>0, <2>1 DEF ChainTypes
<1>2. ASSUME NEW i \in DOMAIN sweeps, Mine(i) PROVE ChainTypes'
  <2>1. sweeps[i] \in Sweeps
    BY <1>2, RowFacts DEF TypeInv
  <2>2. balance' \in [Assets -> Nat] /\ moved' \in [Assets -> Nat]
    BY <1>0, <1>2, <2>1 DEF ChainTypes, Mine, Sweeps
  <2> QED  BY <1>0, <2>2 DEF ChainTypes
<1>3. CASE Recover
  <2>1. PICK n \in 1..balance["USDT"] : balance' = [balance EXCEPT !["USDT"] = @ - n]
    BY <1>3 DEF Recover
  <2>2. UNCHANGED moved /\ balance["USDT"] \in Nat /\ balance["USDT"] - n \in Nat
    BY <1>0, <1>3 DEF ChainTypes, Recover
  <2> QED  BY <1>0, <2>1, <2>2 DEF ChainTypes
<1>4. CASE \/ Sweeper \/ ForceSweep
           \/ \E t \in Transfers : FlipCredit(t) \/ IncTotal(t)
           \/ \E f \in fallback : RetryFlip(f) \/ RetryInc(f)
           \/ WaitTooShort \/ SweepThrows \/ SkipToken \/ FallbackDeferred \/ PassThrows
           \/ Crash \/ OtherSwept \/ UNCHANGED vars
  <2>1. UNCHANGED chain
    <3>1. CASE Sweeper \/ ForceSweep
      BY <3>1 DEF Sweeper, ForceSweep, Tick, StartPass, ReconcileConfirmed, RecordReconciled, ReconcileFailed,
         ReconcileUnknown, LoadDoc, SumLedgers, WriteTotals, ReadBalance, FlagExcess, HoldExcess,
         CreateFallback, FlipFallback, CountFallback, RereadTotals, NoExcess, CreateSweep, OutOfRows,
         Send, SaveHash, WaitMined, RecordSweep, WaitReverted, WaitUnconfirmed
    <3> QED  BY <1>4, <3>1 DEF FlipCredit, IncTotal, RetryFlip, RetryInc, WaitTooShort, SweepThrows,
             SkipToken, FallbackDeferred, PassThrows, Crash, OtherSwept, vars
  <2> QED  BY <1>0, <2>1 DEF ChainTypes, chain
<1> QED  BY <1>1, <1>2, <1>3, <1>4 DEF Next

Fallbacks ==
  /\ fallback \subseteq Credit /\ IsFiniteSet(fallback)
  /\ \A f, g \in fallback : f.key = g.key => f = g

LEMMA CreditStays == UNCHANGED load => Credit' = Credit
BY DEF Credit, Assets, Tokens

(* The row with a new status takes the place of the old one. *)
LEMMA Restated ==
  ASSUME Fallbacks, NEW f \in fallback, NEW st \in {"flipped", "credited"},
         fallback' = WithStatus(f, st), UNCHANGED load
  PROVE  Fallbacks'
<1> DEFINE e == [f EXCEPT !.status = st]
<1>1. e \in Credit /\ e.key = f.key
  BY DEF Fallbacks, Credit
<1>2. fallback' = (fallback \ {f}) \union {e}
  BY DEF WithStatus
<1> HIDE DEF e
<1>3. IsFiniteSet(fallback')
  <2>1. IsFiniteSet(fallback \ {f})
    BY FS_RemoveElement DEF Fallbacks
  <2> QED  BY <1>2, <2>1, FS_AddElement
<1>4. fallback' \subseteq Credit'
  BY <1>1, <1>2, CreditStays DEF Fallbacks
<1>5. ASSUME NEW g \in fallback', NEW h \in fallback', g.key = h.key PROVE g = h
  BY <1>1, <1>2, <1>5 DEF Fallbacks
<1> QED  BY <1>3, <1>4, <1>5 DEF Fallbacks

LEMMA CreditStep ==
  ASSUME TypeInv, [Next]_vars
  PROVE  CreditTypes'
<1> DEFINE RowKinds == {"away", "arrived", "flipped", "credited"}
<1>0. /\ row \in [Transfers -> RowKinds] /\ Fallbacks /\ UNCHANGED load /\ Credit' = Credit
  BY LoadStays, CreditStays DEF TypeInv, CreditTypes, Fallbacks
<1>a. ASSUME row' \in [Transfers -> RowKinds], Fallbacks' PROVE CreditTypes'
  BY <1>a DEF CreditTypes, Fallbacks
<1>b. ASSUME UNCHANGED fallback PROVE Fallbacks'
  BY <1>0, <1>b DEF Fallbacks
<1>1. ASSUME NEW t \in Transfers, Arrive(t) \/ FlipCredit(t) \/ IncTotal(t) PROVE CreditTypes'
  <2>1. row' \in [Transfers -> RowKinds] /\ UNCHANGED fallback
    BY <1>0, <1>1 DEF Arrive, FlipCredit, IncTotal
  <2> QED  BY <1>a, <1>b, <2>1
<1>2. ASSUME NEW f \in fallback, RetryFlip(f) \/ RetryInc(f) PROVE CreditTypes'
  <2>1. UNCHANGED row /\ \E st \in {"flipped", "credited"} : fallback' = WithStatus(f, st)
    BY <1>2 DEF RetryFlip, RetryInc
  <2>2. Fallbacks'
    BY <1>0, <2>1, Restated
  <2> QED  BY <1>0, <1>a, <2>1, <2>2
<1>3. CASE FlipFallback
  <2>1. PICK f \in fallback :
          UNCHANGED row /\ (fallback' = WithStatus(f, "credited") \/ UNCHANGED fallback)
    BY <1>3 DEF FlipFallback
  <2>2. Fallbacks'
    BY <1>0, <1>b, <2>1, Restated
  <2> QED  BY <1>0, <1>a, <2>1, <2>2
<1>4. CASE CreateFallback
  <2> DEFINE e == [key |-> FallbackKey, amount |-> Excess, asset |-> Tokens[step],
                   status |-> "detected"]
  <2>1. /\ UNCHANGED row /\ fallback' = fallback \union {e} /\ Excess > 0
        /\ \A f \in fallback : f.key # FallbackKey
    BY <1>4 DEF CreateFallback, credits
  <2>2. Excess \in Nat \ {0} /\ FallbackKey \in Nat /\ Tokens[step] \in Assets
    BY <2>1 DEF TypeInv, CallTypes, Docs, Excess, Expected, FallbackKey, Assets
  <2>3. e \in Credit /\ e.key = FallbackKey
    BY <2>2 DEF Credit
  <2> HIDE DEF e
  <2>4. IsFiniteSet(fallback')
    BY <1>0, <2>1, FS_AddElement DEF Fallbacks
  <2>5. ASSUME NEW g \in fallback', NEW h \in fallback', g.key = h.key PROVE g = h
    BY <1>0, <2>1, <2>3, <2>5 DEF Fallbacks
  <2>6. Fallbacks'
    BY <1>0, <2>1, <2>3, <2>4, <2>5 DEF Fallbacks
  <2> QED  BY <1>0, <1>a, <2>1, <2>6
<1>5. CASE Crash
  <2> DEFINE g(f) == IF f.status = "flipped" THEN [f EXCEPT !.status = "credited"] ELSE f
  <2>1. row' \in [Transfers -> RowKinds] /\ fallback' = {g(f) : f \in fallback}
    BY <1>0, <1>5 DEF Crash
  <2>2. \A f \in fallback : g(f) \in Credit /\ g(f).key = f.key
    BY <1>0 DEF Fallbacks, Credit
  <2>3. IsFiniteSet(fallback')
    <3> DEFINE G == [f \in fallback |-> g(f)]
    <3>1. G \in Surjection(fallback, fallback')
      BY <2>1 DEF Surjection
    <3> HIDE DEF G
    <3> QED  BY <1>0, <3>1, FS_Surjection DEF Fallbacks
  <2> HIDE DEF g
  <2>4. ASSUME NEW e \in fallback', NEW h \in fallback', e.key = h.key PROVE e = h
    BY <1>0, <2>1, <2>2, <2>4 DEF Fallbacks
  <2>5. Fallbacks'
    BY <1>0, <2>1, <2>2, <2>3, <2>4 DEF Fallbacks
  <2> QED  BY <1>a, <2>1, <2>5
<1>6. CASE \/ Tick \/ ReconcileConfirmed \/ RecordReconciled \/ ReconcileFailed
           \/ ReconcileUnknown \/ LoadDoc \/ SumLedgers \/ WriteTotals \/ ReadBalance
           \/ FlagExcess \/ HoldExcess \/ CountFallback
           \/ RereadTotals \/ NoExcess \/ CreateSweep \/ OutOfRows \/ Send \/ SaveHash
           \/ WaitMined \/ RecordSweep \/ WaitReverted \/ WaitUnconfirmed \/ ForceSweep
  <2>1. UNCHANGED credits
    BY <1>6 DEF ForceSweep, Tick, StartPass, ReconcileConfirmed, RecordReconciled, ReconcileFailed,
       ReconcileUnknown, LoadDoc, SumLedgers, WriteTotals, ReadBalance, FlagExcess, HoldExcess,
       CountFallback, RereadTotals, NoExcess, CreateSweep, OutOfRows,
       Send, SaveHash, WaitMined, RecordSweep, WaitReverted, WaitUnconfirmed
  <2> QED  BY <1>0, <1>a, <1>b, <2>1 DEF credits
<1>7. CASE \/ \E i \in DOMAIN sweeps : Mine(i)
           \/ WaitTooShort \/ SweepThrows \/ SkipToken \/ FallbackDeferred \/ PassThrows
           \/ Recover \/ OtherSwept \/ UNCHANGED vars
  <2>1. UNCHANGED credits
    BY <1>7 DEF Mine, WaitTooShort, SweepThrows, SkipToken, FallbackDeferred, PassThrows, Recover,
       OtherSwept, vars
  <2> QED  BY <1>0, <1>a, <1>b, <2>1 DEF credits
<1> QED  BY <1>1, <1>2, <1>3, <1>4, <1>5, <1>6, <1>7 DEF Next, Sweeper

LEMMA BookStep ==
  ASSUME TypeInv, [Next]_vars
  PROVE  BookTypes'
<1>0. /\ BookTypes /\ doc \in Docs /\ amount \in Nat
      /\ \A f \in fallback : f.amount \in Nat
  BY DEF TypeInv, CallTypes, CreditTypes, Credit
<1>1. ASSUME NEW i \in DOMAIN sweeps, RecordTotals(sweeps[i].amount) PROVE sweptTotal' \in Nat
  <2>1. sweeps[i] \in Sweeps
    BY <1>1, RowFacts DEF TypeInv
  <2> QED  BY <1>0, <1>1, <2>1 DEF RecordTotals, BookTypes, Sweeps
<1>2. CASE RecordReconciled
  <2>1. Oldest(queue) \in DOMAIN sweeps
    BY <1>2, OldestInQueue DEF TypeInv, CallTypes, RecordReconciled
  <2> QED  BY <1>0, <1>1, <1>2, <2>1 DEF RecordReconciled, BookTypes
<1>3. CASE RecordSweep \/ SweepThrows
  <2>1. current \in DOMAIN sweeps
    BY <1>3 DEF TypeInv, CallTypes, Sending, RecordSweep, SweepThrows
  <2> QED  BY <1>0, <1>1, <1>3, <2>1 DEF RecordSweep, SweepThrows, BookTypes
<1>4. CASE WriteTotals \/ CountFallback \/ FlagExcess \/ NoExcess
  <2>1. CASE WriteTotals
    BY <1>0, <2>1 DEF WriteTotals, BookTypes, Docs
  <2>2. CASE CountFallback
    <3>1. creditedTotal' \in Nat
      BY <1>0, <2>2 DEF CountFallback, BookTypes
    <3> QED  BY <1>0, <2>2, <3>1, Zenon DEF CountFallback, BookTypes
  <2>3. CASE FlagExcess
    BY <1>0, <2>3 DEF FlagExcess, BookTypes
  <2>4. CASE NoExcess
    BY <1>0, <2>4 DEF NoExcess, BookTypes
  <2> QED  BY <1>4, <2>1, <2>2, <2>3, <2>4
<1>5. CASE \/ \E t \in Transfers : IncTotal(t)
           \/ \E f \in fallback : RetryInc(f)
  <2>1. CASE \E t \in Transfers : IncTotal(t)
    <3>1. creditedTotal' \in Nat
      BY <1>0, <2>1 DEF IncTotal, BookTypes
    <3> QED  BY <1>0, <2>1, <3>1, Zenon DEF IncTotal, BookTypes
  <2>2. ASSUME NEW f \in fallback, RetryInc(f) PROVE BookTypes'
    <3>1. creditedTotal' \in Nat
      BY <1>0, <2>2 DEF RetryInc, BookTypes
    <3> QED  BY <1>0, <2>2, <3>1, Zenon DEF RetryInc, BookTypes
  <2> QED  BY <1>5, <2>1, <2>2
<1>6. CASE \/ Tick \/ ReconcileConfirmed \/ ReconcileFailed
           \/ ReconcileUnknown \/ LoadDoc \/ SumLedgers \/ ReadBalance
           \/ HoldExcess \/ CreateFallback \/ FlipFallback
           \/ RereadTotals \/ CreateSweep \/ OutOfRows \/ Send \/ SaveHash
           \/ WaitMined \/ WaitReverted \/ WaitUnconfirmed \/ ForceSweep
  <2>1. UNCHANGED books
    BY <1>6 DEF ForceSweep, Tick, StartPass, ReconcileConfirmed, ReconcileFailed,
       ReconcileUnknown, LoadDoc, SumLedgers, ReadBalance, HoldExcess, CreateFallback, FlipFallback,
       RereadTotals, CreateSweep, OutOfRows, Send, SaveHash, WaitMined, WaitReverted, WaitUnconfirmed
  <2> QED  BY <1>0, <2>1 DEF books, BookTypes
<1>7. CASE \/ \E t \in Transfers : Arrive(t) \/ FlipCredit(t)
           \/ \E f \in fallback : RetryFlip(f)
           \/ \E i \in DOMAIN sweeps : Mine(i)
           \/ WaitTooShort \/ SkipToken \/ FallbackDeferred \/ PassThrows
           \/ Crash \/ Recover \/ OtherSwept \/ UNCHANGED vars
  <2>1. UNCHANGED books
    BY <1>7 DEF Arrive, FlipCredit, RetryFlip, Mine, WaitTooShort, SkipToken, FallbackDeferred,
       PassThrows, Crash, Recover, OtherSwept, vars
  <2> QED  BY <1>0, <2>1 DEF books, BookTypes
<1> QED  BY <1>2, <1>3, <1>4, <1>5, <1>6, <1>7 DEF Next, Sweeper

(* Steps that leave the rows alone, and what the others do to them. *)
Aside ==
  \/ Tick \/ RecordReconciled \/ ReconcileUnknown \/ LoadDoc \/ SumLedgers \/ WriteTotals
  \/ ReadBalance \/ FlagExcess \/ HoldExcess \/ CreateFallback \/ FlipFallback \/ CountFallback
  \/ RereadTotals \/ NoExcess \/ OutOfRows \/ RecordSweep \/ WaitUnconfirmed \/ ForceSweep
  \/ \E t \in Transfers : Arrive(t) \/ FlipCredit(t) \/ IncTotal(t)
  \/ \E f \in fallback : RetryFlip(f) \/ RetryInc(f)
  \/ WaitTooShort \/ SkipToken \/ FallbackDeferred \/ PassThrows
  \/ Crash \/ Recover \/ OtherSwept \/ UNCHANGED vars

LEMMA NextParts ==
  ASSUME [Next]_vars
  PROVE  \/ Aside \/ ReconcileConfirmed \/ ReconcileFailed \/ CreateSweep \/ Send \/ SaveHash
         \/ WaitMined \/ WaitReverted \/ SweepThrows \/ \E i \in DOMAIN sweeps : Mine(i)
BY DEF Next, Sweeper, Aside

LEMMA AsideLeaves ==
  ASSUME Aside
  PROVE  UNCHANGED <<load, sweeps, moved>>
<1>1. CASE \/ Tick \/ RecordReconciled \/ ReconcileUnknown \/ LoadDoc \/ SumLedgers \/ WriteTotals
           \/ ReadBalance \/ FlagExcess \/ HoldExcess \/ CreateFallback \/ FlipFallback \/ CountFallback
           \/ RereadTotals \/ NoExcess \/ OutOfRows \/ RecordSweep \/ WaitUnconfirmed \/ ForceSweep
  BY <1>1 DEF ForceSweep, Tick, StartPass, RecordReconciled, ReconcileUnknown, LoadDoc, SumLedgers,
     WriteTotals, ReadBalance, FlagExcess, HoldExcess, CreateFallback, FlipFallback, CountFallback,
     RereadTotals, NoExcess, OutOfRows, RecordSweep, WaitUnconfirmed, chain
<1>2. CASE \/ \E t \in Transfers : Arrive(t) \/ FlipCredit(t) \/ IncTotal(t)
           \/ \E f \in fallback : RetryFlip(f) \/ RetryInc(f)
           \/ WaitTooShort \/ SkipToken \/ FallbackDeferred \/ PassThrows
           \/ Crash \/ Recover \/ OtherSwept \/ UNCHANGED vars
  BY <1>2 DEF Arrive, FlipCredit, IncTotal, RetryFlip, RetryInc, WaitTooShort, SkipToken,
     FallbackDeferred, PassThrows, Crash, Recover, OtherSwept, vars, chain
<1> QED  BY <1>1, <1>2 DEF Aside

LEMMA ConfirmedRow ==
  ASSUME TypeInv, ReconcileConfirmed
  PROVE  /\ Oldest(queue) \in DOMAIN sweeps /\ sweeps[Oldest(queue)].tx = "mined"
         /\ SameBut(Oldest(queue), "confirmed", sweeps[Oldest(queue)].hash, sweeps[Oldest(queue)].tx)
BY OldestInQueue, StatusMarks DEF TypeInv, ReconcileConfirmed, Statuses

LEMMA FailedRow ==
  ASSUME TypeInv, ReconcileFailed
  PROVE  /\ Oldest(queue) \in DOMAIN sweeps
         /\ SameBut(Oldest(queue), "failed", sweeps[Oldest(queue)].hash, sweeps[Oldest(queue)].tx)
BY OldestInQueue, StatusMarks DEF TypeInv, ReconcileFailed, Statuses

LEMMA CurrentRow ==
  ASSUME TypeInv, Send \/ SaveHash \/ WaitMined \/ WaitReverted \/ SweepThrows
  PROVE  /\ current \in DOMAIN sweeps /\ sweeps[current] \in Sweeps
         /\ Send => SameBut(current, sweeps[current].status, sweeps[current].hash, "pending")
         /\ SaveHash => SameBut(current, sweeps[current].status, TRUE, sweeps[current].tx)
         /\ WaitMined => SameBut(current, "confirmed", sweeps[current].hash, sweeps[current].tx)
         /\ WaitReverted \/ SweepThrows
              => SameBut(current, "failed", sweeps[current].hash, sweeps[current].tx)
<1>1. current \in DOMAIN sweeps /\ RowTypes
  BY DEF TypeInv, CallTypes, Sending, Send, SaveHash, WaitMined, WaitReverted, SweepThrows
<1>2. sweeps[current] \in Sweeps
  BY <1>1, RowFacts
<1>3. Send => SameBut(current, sweeps[current].status, sweeps[current].hash, "pending")
  BY <1>1, FateMarks DEF Send, Fates
<1>4. SaveHash => SameBut(current, sweeps[current].status, TRUE, sweeps[current].tx)
  BY <1>1, HashMarks DEF SaveHash
<1>5. WaitMined => SameBut(current, "confirmed", sweeps[current].hash, sweeps[current].tx)
  BY <1>1, StatusMarks DEF WaitMined, Statuses
<1>6. WaitReverted \/ SweepThrows => SameBut(current, "failed", sweeps[current].hash, sweeps[current].tx)
  BY <1>1, StatusMarks DEF WaitReverted, SweepThrows, Statuses
<1> QED  BY <1>1, <1>2, <1>3, <1>4, <1>5, <1>6

LEMMA MinedRow ==
  ASSUME TypeInv, NEW i \in DOMAIN sweeps, Mine(i)
  PROVE  /\ sweeps[i] \in Sweeps /\ sweeps[i].tx = "pending"
         /\ \E x \in {"mined", "reverted"} :
              /\ SameBut(i, sweeps[i].status, sweeps[i].hash, x)
              /\ x = "reverted" => UNCHANGED moved
              /\ x = "mined" => moved' = [moved EXCEPT ![sweeps[i].asset] = @ + sweeps[i].amount]
<1>1. sweeps[i] \in Sweeps /\ RowTypes
  BY RowFacts DEF TypeInv
<1>2. CASE sweeps[i].amount <= balance[sweeps[i].asset]
  <2>1. /\ sweeps' = [sweeps EXCEPT ![i].tx = "mined"] /\ UNCHANGED load
        /\ moved' = [moved EXCEPT ![sweeps[i].asset] = @ + sweeps[i].amount]
    BY <1>2 DEF Mine
  <2> QED  BY <1>1, <2>1, FateMarks DEF Fates, Mine
<1>3. CASE ~(sweeps[i].amount <= balance[sweeps[i].asset])
  <2>1. sweeps' = [sweeps EXCEPT ![i].tx = "reverted"] /\ UNCHANGED <<load, moved>>
    BY <1>3 DEF Mine
  <2> QED  BY <1>1, <2>1, FateMarks DEF Fates, Mine
<1> QED  BY <1>2, <1>3

LEMMA RowsKept ==
  ASSUME TypeInv, [Next]_vars
  PROVE  KeepsRows
<1>1. CASE Aside
  BY <1>1, AsideLeaves, RowsStay DEF TypeInv
<1>2. CASE ReconcileConfirmed \/ ReconcileFailed
  BY <1>2, ConfirmedRow, FailedRow DEF SameBut
<1>3. CASE CreateSweep
  BY <1>3, RowCreated DEF TypeInv, WorldTypes
<1>4. CASE Send \/ SaveHash \/ WaitMined \/ WaitReverted \/ SweepThrows
  BY <1>4, CurrentRow DEF SameBut
<1>5. CASE \E i \in DOMAIN sweeps : Mine(i)
  BY <1>5, MinedRow DEF SameBut
<1> QED  BY <1>1, <1>2, <1>3, <1>4, <1>5, NextParts

-----------------------------------------------------------------------------
(* Sums of natural numbers over a finite set *)

(* A block of f[x] pairs for each x of S, and how many pairs there are. *)
Block(f, x) == {x} \X (1..f[x])
Blocks(S, f) == UNION {Block(f, x) : x \in S}

LEMMA SumOfBlocks == \A S, f : SumOver(S, f) = Cardinality(Blocks(S, f))
BY DEF SumOver, Blocks, Block

LEMMA BlockSize ==
  ASSUME NEW f, NEW x, f[x] \in Nat
  PROVE  IsFiniteSet(Block(f, x)) /\ Cardinality(Block(f, x)) = f[x]
<1>1. IsFiniteSet({x}) /\ Cardinality({x}) = 1
  BY FS_Singleton
<1>2. IsFiniteSet(1..f[x]) /\ Cardinality(1..f[x]) = f[x]
  BY FS_Interval
<1>3. IsFiniteSet(Block(f, x)) /\ Cardinality(Block(f, x)) = Cardinality({x}) * Cardinality(1..f[x])
  BY <1>1, <1>2, FS_Product, Zenon DEF Block
<1> QED  BY <1>1, <1>2, <1>3

LEMMA BlocksFinite ==
  ASSUME NEW S, IsFiniteSet(S), NEW f, \A x \in S : f[x] \in Nat
  PROVE  IsFiniteSet(Blocks(S, f)) /\ SumOver(S, f) \in Nat
<1> DEFINE B == {Block(f, x) : x \in S}
           g == [x \in S |-> Block(f, x)]
<1>1. g \in Surjection(S, B)
  BY DEF Surjection
<1>2. IsFiniteSet(B)
  <2> HIDE DEF B, g
  <2> QED  BY <1>1, FS_Surjection
<1>3. \A T \in B : IsFiniteSet(T)
  BY BlockSize
<1>4. IsFiniteSet(UNION B)
  <2> HIDE DEF B
  <2> QED  BY <1>2, <1>3, FS_UNION
<1> QED  BY <1>4, FS_CardinalityType, SumOfBlocks DEF Blocks

LEMMA SumSplits ==
  ASSUME NEW S, IsFiniteSet(S), NEW f, \A x \in S : f[x] \in Nat, NEW y \in S
  PROVE  SumOver(S, f) = SumOver(S \ {y}, f) + f[y]
<1> DEFINE R == S \ {y}
<1>1. IsFiniteSet(R) /\ \A x \in R : f[x] \in Nat
  BY FS_RemoveElement
<1>2. IsFiniteSet(Blocks(R, f)) /\ SumOver(R, f) \in Nat
  <2> HIDE DEF R
  <2> QED  BY <1>1, BlocksFinite
<1>3. IsFiniteSet(Block(f, y)) /\ Cardinality(Block(f, y)) = f[y]
  BY BlockSize
<1>4. Blocks(S, f) = Blocks(R, f) \cup Block(f, y)
  BY DEF Blocks
<1>5. Blocks(R, f) \cap Block(f, y) = {}
  BY DEF Blocks, Block
<1>6. Cardinality(Blocks(R, f) \cap Block(f, y)) = 0
  BY <1>5, FS_EmptySet
<1>7. Cardinality(Blocks(R, f) \cup Block(f, y)) =
        Cardinality(Blocks(R, f)) + Cardinality(Block(f, y))
          - Cardinality(Blocks(R, f) \cap Block(f, y))
  BY <1>2, <1>3, FS_Union
<1>8. Cardinality(Blocks(R, f)) \in Nat /\ f[y] \in Nat
  BY <1>2, SumOfBlocks
<1>9. SumOver(S, f) = Cardinality(Blocks(S, f)) /\ SumOver(R, f) = Cardinality(Blocks(R, f))
  BY SumOfBlocks
<1> QED  BY <1>3, <1>4, <1>6, <1>7, <1>8, <1>9

(* Functions that agree have the same sum. *)
LEMMA SumAgrees ==
  ASSUME NEW S, NEW f, NEW g, \A x \in S : f[x] = g[x]
  PROVE  SumOver(S, f) = SumOver(S, g)
<1>1. \A x \in S : Block(f, x) = Block(g, x)
  BY DEF Block
<1>2. Blocks(S, f) = Blocks(S, g)
  BY <1>1 DEF Blocks
<1> QED  BY <1>2, SumOfBlocks

(* A change at one point changes the sum by as much. *)
LEMMA SumMoves ==
  ASSUME NEW S, IsFiniteSet(S), NEW f, NEW g, \A x \in S : f[x] \in Nat /\ g[x] \in Nat,
         NEW y \in S, \A x \in S \ {y} : f[x] = g[x]
  PROVE  SumOver(S, g) = SumOver(S, f) - f[y] + g[y]
<1>1. SumOver(S \ {y}, f) = SumOver(S \ {y}, g)
  BY SumAgrees
<1>2. SumOver(S, f) = SumOver(S \ {y}, f) + f[y]
  BY SumSplits
<1>3. SumOver(S, g) = SumOver(S \ {y}, g) + g[y]
  BY SumSplits
<1>4. SumOver(S \ {y}, f) \in Nat
  <2>1. IsFiniteSet(S \ {y})
    BY FS_RemoveElement
  <2> QED  BY <2>1, BlocksFinite
<1>5. f[y] \in Nat /\ g[y] \in Nat
  OBVIOUS
<1> QED  BY <1>1, <1>2, <1>3, <1>4, <1>5

LEMMA SumOfNone == \A f : SumOver({}, f) = 0
<1> TAKE f
<1>1. Blocks({}, f) = {}
  BY DEF Blocks
<1> QED  BY <1>1, FS_EmptySet, SumOfBlocks

(* One more element adds its number. *)
LEMMA SumAdds ==
  ASSUME NEW S, IsFiniteSet(S), NEW f, NEW y, y \notin S, \A x \in S \union {y} : f[x] \in Nat
  PROVE  SumOver(S \union {y}, f) = SumOver(S, f) + f[y]
<1> DEFINE T == S \union {y}
<1>1. IsFiniteSet(T) /\ y \in T /\ T \ {y} = S
  BY FS_AddElement
<1> HIDE DEF T
<1>2. SumOver(T, f) = SumOver(T \ {y}, f) + f[y]
  BY <1>1, SumSplits DEF T
<1> QED  BY <1>1, <1>2 DEF T

(* A part has no more than the whole. *)
LEMMA SumOfPart ==
  ASSUME NEW S, IsFiniteSet(S), NEW f, \A x \in S : f[x] \in Nat, NEW T \in SUBSET S
  PROVE  SumOver(T, f) <= SumOver(S, f)
<1>1. IsFiniteSet(Blocks(S, f))
  BY BlocksFinite
<1>2. Blocks(T, f) \subseteq Blocks(S, f)
  BY DEF Blocks
<1> QED  BY <1>1, <1>2, FS_Subset, SumOfBlocks

-----------------------------------------------------------------------------
(* The sums of the model *)

LEMMA AmountTypes ==
  ASSUME RowTypes
  PROVE  /\ IsFiniteSet(DOMAIN sweeps) /\ DOMAIN Amounts = DOMAIN sweeps
         /\ \A i \in DOMAIN sweeps : Amounts[i] = sweeps[i].amount /\ Amounts[i] \in Nat
BY RowFacts DEF Amounts, Sweeps

LEMMA RowSums ==
  ASSUME RowTypes, NEW S \in SUBSET DOMAIN sweeps
  PROVE  IsFiniteSet(S) /\ SumOver(S, Amounts) \in Nat
<1>1. IsFiniteSet(S)
  BY AmountTypes, FS_Subset
<1> QED  BY <1>1, AmountTypes, BlocksFinite

(* The ledger's credits in A: its transfers, and its fallback rows. *)
CountedTransfers(A) == {t \in Transfers : row[t] \in Counted /\ Asset[t] \in A}
CountedRows(A) == {f \in fallback : f.status \in Counted /\ f.asset \in A}
Worth == [f \in fallback |-> f.amount]

LEMMA CreditedParts ==
  ASSUME CreditTypes, NEW A
  PROVE  /\ CreditedIn(A) = Cardinality(CountedTransfers(A)) + SumOver(CountedRows(A), Worth)
         /\ IsFiniteSet(CountedTransfers(A)) /\ Cardinality(CountedTransfers(A)) \in Nat
         /\ IsFiniteSet(CountedRows(A)) /\ SumOver(CountedRows(A), Worth) \in Nat
         /\ CreditedIn(A) \in Nat
<1>1. IsFiniteSet(CountedTransfers(A))
  BY SweepAssumption, FS_Subset DEF CountedTransfers
<1>2. IsFiniteSet(CountedRows(A))
  BY FS_Subset DEF CountedRows, CreditTypes
<1>3. \A f \in CountedRows(A) : Worth[f] \in Nat
  BY DEF CountedRows, Worth, CreditTypes, Credit
<1>4. SumOver(CountedRows(A), Worth) \in Nat
  BY <1>2, <1>3, BlocksFinite
<1>5. Cardinality(CountedTransfers(A)) \in Nat
  BY <1>1, FS_CardinalityType
<1>6. CreditedIn(A) = Cardinality(CountedTransfers(A)) + SumOver(CountedRows(A), Worth)
  BY DEF CreditedIn, CountedTransfers, CountedRows, Worth
<1> QED  BY <1>1, <1>2, <1>4, <1>5, <1>6

LEMMA LedgerSums ==
  ASSUME TypeInv
  PROVE  CreditedSum \in Nat /\ SweptSum \in Nat /\ Moved \in Nat
<1>1. CreditedSum \in Nat
  BY CreditedParts DEF TypeInv, CreditedSum
<1>2. SweptSum \in Nat
  BY RowSums DEF TypeInv, SweptSum, Confirmed
<1>3. Moved \in Nat
  BY LoadFacts, BlocksFinite DEF TypeInv, WorldTypes, ChainTypes, Moved
<1> QED  BY <1>1, <1>2, <1>3

-----------------------------------------------------------------------------
(* The sweeper's own variables *)

LEMMA TokensStay == UNCHANGED load => Tokens' = Tokens /\ Assets' = Assets
BY DEF Assets, Tokens

LEMMA CallStays ==
  ASSUME CallTypes, RowTypes, KeepsRows, UNCHANGED <<load, pc, queue, doc, step, read, amount, current>>
  PROVE  CallTypes'
<1>1. Len(sweeps) \in Nat /\ Len(sweeps') \in Nat
  BY RowFacts, LenProperties DEF KeepsRows, RowTypes
<1> QED  BY <1>1, TokensStay DEF CallTypes, KeepsRows

LEMMA IdleFits ==
  ASSUME RowTypes, KeepsRows, load \in Loads, UNCHANGED load, Idle
  PROVE  CallTypes'
<1>1. Len(sweeps') \in Nat
  BY LenProperties DEF KeepsRows, RowTypes
<1> QED  BY <1>1, TokensStay, LoadFacts DEF CallTypes, Idle, Pcs, Docs, NoDoc, Sending

LEMMA NextTokenFits ==
  ASSUME CallTypes, RowTypes, KeepsRows, load \in Loads, UNCHANGED load, NextToken
  PROVE  CallTypes'
<1>1. CASE Idle
  BY <1>1, IdleFits
<1>2. CASE /\ step < Len(Tokens) /\ pc' = "readBalance" /\ step' = step + 1
           /\ read' = 0 /\ amount' = 0 /\ current' = 0 /\ UNCHANGED <<queue, doc>>
  <2>1. Len(sweeps') \in Nat
    BY LenProperties DEF KeepsRows, RowTypes
  <2>2. step' \in DOMAIN Tokens
    BY <1>2, LoadFacts DEF CallTypes
  <2> QED  BY <1>2, <2>1, <2>2, TokensStay DEF CallTypes, Pcs, Sending, KeepsRows
<1> QED  BY <1>1, <1>2 DEF NextToken

LEMMA SweepFits ==
  ASSUME CallTypes, RowTypes, KeepsRows, load \in Loads, UNCHANGED load, NEW n \in Nat, Sweep(n)
  PROVE  CallTypes'
<1>1. CASE n = 0
  BY <1>1, NextTokenFits DEF Sweep
<1>2. CASE n # 0
  <2>1. pc' = "create" /\ amount' = n /\ UNCHANGED <<queue, doc, step, read, current>>
    BY <1>2 DEF Sweep
  <2>2. Len(sweeps) \in Nat /\ Len(sweeps') \in Nat
    BY RowFacts, LenProperties DEF KeepsRows, RowTypes
  <2> QED  BY <2>1, <2>2, TokensStay DEF CallTypes, Pcs, Sending, KeepsRows
<1> QED  BY <1>1, <1>2

LEMMA DecisionTypes ==
  ASSUME TypeInv
  PROVE  /\ Excess \in Int /\ Booked \in Nat /\ Expected(doc.credited, doc.swept) \in Nat
         /\ Lesser(read, Expected(creditedTotal, sweptTotal)) \in Nat
         /\ Excess > 0 => Excess \in Nat /\ FallbackKey \in Nat
BY DEF TypeInv, CallTypes, BookTypes, Docs, Excess, Booked, Expected, Lesser, FallbackKey

LEMMA CallStep ==
  ASSUME TypeInv, [Next]_vars
  PROVE  CallTypes'
<1>0. /\ CallTypes /\ RowTypes /\ KeepsRows /\ load \in Loads /\ UNCHANGED load
      /\ Tokens' = Tokens /\ DOMAIN sweeps \subseteq DOMAIN sweeps'
      /\ Len(sweeps) \in Nat /\ Len(sweeps') \in Nat /\ Len(sweeps') >= Len(sweeps)
  BY RowsKept, LoadStays, TokensStay, RowFacts, LenProperties
     DEF TypeInv, WorldTypes, KeepsRows, RowTypes
<1>1. CASE Idle
  BY <1>0, <1>1, IdleFits
<1>2. CASE NextToken
  BY <1>0, <1>2, NextTokenFits
<1>3. ASSUME NEW n \in Nat, Sweep(n) PROVE CallTypes'
  BY <1>0, <1>3, SweepFits
<1>4. CASE UNCHANGED <<pc, local>>
  BY <1>0, <1>4, CallStays DEF local
<1>5. CASE Tick \/ ForceSweep
  <2>1. pc' = "reconcile" /\ queue' = Unsettled /\ UNCHANGED <<doc, step, read, amount, current>>
        /\ UNCHANGED sweeps
    BY <1>5 DEF Tick, ForceSweep, StartPass
  <2>2. queue' \subseteq DOMAIN sweeps'
    BY <2>1 DEF Unsettled
  <2> QED  BY <1>0, <2>1, <2>2 DEF CallTypes, Pcs, Sending
<1>6. CASE ReconcileConfirmed
  <2>1. pc' = "recordReconciled" /\ UNCHANGED local /\ queue # {}
    BY <1>6 DEF ReconcileConfirmed
  <2> QED  BY <1>0, <2>1 DEF CallTypes, Pcs, Sending, local
<1>7. CASE RecordReconciled \/ ReconcileFailed \/ ReconcileUnknown
  <2>1. pc' = "reconcile" /\ queue' \subseteq queue /\ UNCHANGED <<doc, step, read, amount, current>>
    BY <1>7 DEF RecordReconciled, ReconcileFailed, ReconcileUnknown
  <2> QED  BY <1>0, <2>1 DEF CallTypes, Pcs, Sending
<1>8. CASE LoadDoc
  <2>1. /\ doc' = [credited |-> creditedTotal, swept |-> sweptTotal, unexplained |-> unexplained]
        /\ pc' = "sumLedgers" /\ UNCHANGED <<queue, step, read, amount, current>>
    BY <1>8 DEF LoadDoc
  <2>2. doc' \in Docs
    BY <2>1 DEF TypeInv, BookTypes, Docs
  <2> QED  BY <1>0, <2>1, <2>2 DEF CallTypes, Pcs, Sending
<1>9. CASE SumLedgers
  <2>1. /\ doc' = [doc EXCEPT !.credited = CreditedSum, !.swept = SweptSum]
        /\ pc' \in {"writeTotals", "readBalance"} /\ step' = 1
        /\ UNCHANGED <<queue, read, amount, current>>
    BY <1>9 DEF SumLedgers
  <2>2. doc' \in Docs
    BY <1>0, <2>1, LedgerSums DEF CallTypes, Docs
  <2>3. step' \in DOMAIN Tokens'
    BY <1>0, <2>1, LoadFacts
  <2> QED  BY <1>0, <2>1, <2>2, <2>3 DEF CallTypes, Pcs, Sending
<1>10. CASE WriteTotals
  <2>1. pc' = "readBalance" /\ UNCHANGED local
    BY <1>10 DEF WriteTotals
  <2> QED  BY <1>0, <2>1 DEF CallTypes, Pcs, Sending, local
<1>11. CASE ReadBalance
  <2>1. CASE balance[Tokens[step]] # 0
    <3>1. /\ read' = balance[Tokens[step]] /\ pc' = "decide"
          /\ UNCHANGED <<queue, doc, step, amount, current>>
      BY <1>11, <2>1 DEF ReadBalance
    <3>2. read' \in Nat
      BY <1>0, <3>1 DEF TypeInv, ChainTypes, CallTypes, Assets
    <3> QED  BY <1>0, <3>1, <3>2 DEF CallTypes, Pcs, Sending
  <2> QED  BY <1>2, <1>11, <2>1 DEF ReadBalance
<1>12. CASE FlagExcess \/ HoldExcess \/ NoExcess \/ FallbackDeferred
  BY <1>3, <1>12, DecisionTypes DEF FlagExcess, HoldExcess, NoExcess, FallbackDeferred
<1>13. CASE RereadTotals
  BY <1>3, <1>13, DecisionTypes DEF RereadTotals
<1>14. CASE CreateFallback
  <2>1. /\ amount' = Excess /\ Excess > 0 /\ pc' = "flipFallback"
        /\ UNCHANGED <<queue, doc, step, read, current>>
    BY <1>14 DEF CreateFallback
  <2>2. amount' \in Nat
    BY <2>1, DecisionTypes
  <2> QED  BY <1>0, <2>1, <2>2 DEF CallTypes, Pcs, Sending
<1>15. CASE FlipFallback \/ CountFallback
  <2>1. pc' \in {"countFallback", "rereadTotals"} /\ UNCHANGED local
    BY <1>15 DEF FlipFallback, CountFallback
  <2> QED  BY <1>0, <2>1 DEF CallTypes, Pcs, Sending, local
<1>16. CASE CreateSweep
  <2>1. /\ pc' = "send" /\ UNCHANGED <<queue, doc, step, read, amount>>
        /\ current' \in DOMAIN sweeps' /\ current' \in 0..Len(sweeps')
    BY <1>0, <1>16, RowCreated DEF CreateSweep
  <2> QED  BY <1>0, <2>1 DEF CallTypes, Pcs, Sending
<1>17. CASE Send \/ SaveHash \/ WaitMined
  <2>1. pc' \in {"saveHash", "wait", "record"} /\ UNCHANGED local /\ current \in DOMAIN sweeps
    BY <1>17, CurrentRow DEF Send, SaveHash, WaitMined
  <2> QED  BY <1>0, <2>1 DEF CallTypes, Pcs, Sending, local
<1>18. CASE OutOfRows \/ RecordSweep \/ WaitReverted \/ WaitUnconfirmed \/ WaitTooShort
              \/ SweepThrows \/ SkipToken
  BY <1>2, <1>18 DEF OutOfRows, RecordSweep, WaitReverted, WaitUnconfirmed, WaitTooShort, SweepThrows,
     SkipToken
<1>19. CASE PassThrows \/ Crash
  BY <1>1, <1>19 DEF PassThrows, Crash
<1>20. CASE \/ \E t \in Transfers : Arrive(t) \/ FlipCredit(t) \/ IncTotal(t)
            \/ \E f \in fallback : RetryFlip(f) \/ RetryInc(f)
            \/ \E i \in DOMAIN sweeps : Mine(i)
            \/ Recover \/ OtherSwept \/ UNCHANGED vars
  BY <1>4, <1>20 DEF Arrive, FlipCredit, IncTotal, RetryFlip, RetryInc, Mine, Recover, OtherSwept,
     vars
<1> QED  BY <1>5, <1>6, <1>7, <1>8, <1>9, <1>10, <1>11, <1>12, <1>13, <1>14, <1>15, <1>16,
            <1>17, <1>18, <1>19, <1>20 DEF Next, Sweeper

LEMMA TypeStep ==
  ASSUME TypeInv, [Next]_vars
  PROVE  TypeInv'
BY WorldStep, CreditStep, BookStep, ChainStep, RowsKept, CallStep DEF TypeInv, KeepsRows

LEMMA TypeInit ==
  ASSUME Init
  PROVE  TypeInv
<1>1. load \in Loads
  BY DEF Init
<1>2. WorldTypes
  BY LoadFacts, <1>1 DEF Init, WorldTypes, Budgets
<1>3. CreditTypes
  BY FS_EmptySet DEF Init, CreditTypes
<1>4. BookTypes /\ ChainTypes
  BY DEF Init, BookTypes, ChainTypes
<1>5. RowTypes
  <2>1. sweeps = << >> /\ << >> \in Seq(Sweeps) /\ Len(<< >>) = 0 /\ MaxSweeps \in Nat
    BY <1>1, LoadFacts, EmptySeq DEF Init
  <2> QED  BY <2>1 DEF RowTypes
<1>6. CallTypes
  <2>1. Len(sweeps) = 0
    BY EmptySeq DEF Init
  <2> QED  BY <1>1, <2>1, LoadFacts DEF Init, CallTypes, Pcs, Docs, NoDoc, Sending
<1> QED  BY <1>2, <1>3, <1>4, <1>5, <1>6 DEF TypeInv


-----------------------------------------------------------------------------
(* The chain behind the books *)

(* What left the address is what was mined; only that is confirmed; and    *)
(* what a pass takes from the ledger stays true while the pass goes on.    *)
Mined == {i \in DOMAIN sweeps : sweeps[i].tx = "mined"}
MinedMoved == SumOver(Mined, Amounts) = Moved
ConfirmedMined == \A i \in DOMAIN sweeps : sweeps[i].status = "confirmed" => sweeps[i].tx = "mined"
Unsent == pc = "send" => sweeps[current].tx = "none"
CopyHolds == pc # "sumLedgers" => doc.swept <= Moved
Real == MinedMoved /\ ConfirmedMined /\ Unsent /\ CopyHolds

LEMMA ConfirmedWithin ==
  ASSUME TypeInv, MinedMoved, ConfirmedMined
  PROVE  SweptSum <= Moved
<1>1. Confirmed \subseteq Mined /\ Mined \subseteq DOMAIN sweeps
  BY DEF Confirmed, Mined, ConfirmedMined
<1>2. IsFiniteSet(Mined) /\ \A i \in Mined : Amounts[i] \in Nat
  BY <1>1, RowSums, AmountTypes DEF TypeInv
<1>3. SumOver(Confirmed, Amounts) <= SumOver(Mined, Amounts)
  BY <1>1, <1>2, SumOfPart
<1> QED  BY <1>3 DEF SweptSum, MinedMoved

(* Rows that stay have the sums they had. *)
LEMMA AmountsAgree ==
  ASSUME TypeInv, KeepsRows, NEW S \in SUBSET DOMAIN sweeps
  PROVE  SumOver(S, Amounts') = SumOver(S, Amounts)
<1>1. \A i \in DOMAIN sweeps : Amounts[i] = sweeps[i].amount /\ Amounts'[i] = sweeps'[i].amount
  BY DEF Amounts, KeepsRows
<1> QED  BY <1>1, SumAgrees DEF KeepsRows

LEMMA MinedStays ==
  ASSUME TypeInv, KeepsRows, UNCHANGED <<load, moved>>, Mined' = Mined, MinedMoved
  PROVE  MinedMoved' /\ UNCHANGED Moved
<1>1. Mined \subseteq DOMAIN sweeps
  BY DEF Mined
<1>2. SumOver(Mined, Amounts') = SumOver(Mined, Amounts)
  BY <1>1, AmountsAgree
<1>3. Moved' = Moved
  BY TokensStay DEF Moved
<1>4. SumOver(Mined, Amounts)' = SumOver(Mined, Amounts')
  BY DEF SumOver
<1> QED  BY <1>2, <1>3, <1>4 DEF MinedMoved

LEMMA MinedMoves ==
  ASSUME TypeInv, MinedMoved, NEW i \in DOMAIN sweeps, Mine(i)
  PROVE  /\ MinedMoved'
         /\ \/ UNCHANGED Moved /\ sweeps'[i].tx = "reverted"
            \/ Moved' = Moved + sweeps[i].amount /\ sweeps'[i].tx = "mined"
<1>0. /\ sweeps[i] \in Sweeps /\ sweeps[i].tx = "pending" /\ RowTypes
      /\ UNCHANGED load /\ IsFiniteSet(Assets) /\ moved \in [Assets -> Nat]
  BY MinedRow, LoadFacts DEF TypeInv, WorldTypes, ChainTypes, Mine
<1>1. PICK x \in {"mined", "reverted"} :
         /\ SameBut(i, sweeps[i].status, sweeps[i].hash, x)
         /\ x = "reverted" => UNCHANGED moved
         /\ x = "mined" => moved' = [moved EXCEPT ![sweeps[i].asset] = @ + sweeps[i].amount]
  BY MinedRow
<1>2. CASE x = "reverted"
  <2>1. Mined' = Mined /\ sweeps'[i].tx = "reverted"
    BY <1>0, <1>1, <1>2 DEF Mined, SameBut
  <2> QED  BY <1>0, <1>1, <1>2, <2>1, MinedStays DEF SameBut
<1>3. CASE x = "mined"
  <2> DEFINE a == sweeps[i].asset
             n == sweeps[i].amount
  <2>1. /\ Mined' = Mined \union {i} /\ i \notin Mined /\ Mined \subseteq DOMAIN sweeps
        /\ sweeps'[i].tx = "mined" /\ KeepsRows
    BY <1>0, <1>1, <1>3 DEF Mined, SameBut
  <2>2. a \in Assets /\ n \in Nat
    BY <1>0 DEF Sweeps
  <2>3. /\ moved' \in [Assets -> Nat] /\ moved'[a] = moved[a] + n
        /\ \A b \in Assets \ {a} : moved[b] = moved'[b]
    BY <1>0, <1>1, <1>3, <2>2
  <2>4. SumOver(Assets, moved') = SumOver(Assets, moved) - moved[a] + moved'[a]
    <3> HIDE DEF a, n
    <3> QED  BY <1>0, <2>2, <2>3, SumMoves
  <2>5. Moved' = SumOver(Assets, moved')
    BY <1>0, TokensStay DEF Moved, SumOver
  <2>6. Moved' = Moved + n
    <3>1. Moved \in Nat /\ moved[a] \in Nat
      BY <1>0, <2>2, LedgerSums
    <3> QED  BY <2>2, <2>3, <2>4, <2>5, <3>1 DEF Moved
  <2>7. SumOver(Mined \union {i}, Amounts) = SumOver(Mined, Amounts) + Amounts[i]
    BY <1>0, <2>1, RowSums, AmountTypes, SumAdds
  <2>8. SumOver(Mined \union {i}, Amounts') = SumOver(Mined \union {i}, Amounts)
    BY <2>1, AmountsAgree
  <2>9. SumOver(Mined, Amounts)' = SumOver(Mined \union {i}, Amounts')
    BY <2>1 DEF SumOver
  <2>10. Amounts[i] = n
    BY <1>0, AmountTypes
  <2> QED  BY <2>1, <2>6, <2>7, <2>8, <2>9, <2>10 DEF MinedMoved
<1> QED  BY <1>1, <1>2, <1>3

(* Where a step gets to; a copy that is not taken from the ledgers stays   *)
(* or is forgotten.                                                        *)
LEMMA SweepGoes ==
  ASSUME NEW n, NextToken \/ Sweep(n)
  PROVE  pc' \in {"idle", "readBalance", "create"} /\ (UNCHANGED doc \/ doc' = NoDoc)
BY DEF NextToken, Sweep, Idle

LEMMA CallGoes ==
  ASSUME [Next]_vars
  PROVE  /\ \/ UNCHANGED doc /\ (pc = "sumLedgers" => pc' = pc)
            \/ doc' = NoDoc
            \/ pc' = "sumLedgers"
            \/ SumLedgers
         /\ pc' = "send" => CreateSweep \/ UNCHANGED <<pc, current>>
<1>1. CASE NextToken /\ pc # "sumLedgers"
  BY <1>1, SweepGoes
<1>2. CASE (\E n : Sweep(n)) /\ pc # "sumLedgers"
  BY <1>2, SweepGoes
<1>3. CASE Idle
  BY <1>3 DEF Idle
<1>4. CASE UNCHANGED <<pc, local>>
  BY <1>4 DEF local
<1>5. CASE \/ Tick \/ ForceSweep \/ ReconcileConfirmed \/ RecordReconciled \/ ReconcileFailed
           \/ ReconcileUnknown \/ LoadDoc \/ SumLedgers \/ WriteTotals \/ CreateFallback
           \/ FlipFallback \/ CountFallback \/ CreateSweep \/ Send \/ SaveHash \/ WaitMined
  BY <1>5 DEF Tick, ForceSweep, StartPass, ReconcileConfirmed, RecordReconciled, ReconcileFailed,
     ReconcileUnknown, LoadDoc, SumLedgers, WriteTotals, CreateFallback, FlipFallback, CountFallback,
     CreateSweep, Send, SaveHash, WaitMined, local
<1>6. CASE ReadBalance
  <2>1. CASE NextToken
    BY <1>1, <1>6, <2>1 DEF ReadBalance
  <2>2. CASE pc' = "decide" /\ UNCHANGED doc
    BY <1>6, <2>2 DEF ReadBalance
  <2> QED  BY <1>6, <2>1, <2>2 DEF ReadBalance
<1>7. CASE FlagExcess \/ HoldExcess \/ NoExcess \/ FallbackDeferred \/ RereadTotals
  BY <1>2, <1>7 DEF FlagExcess, HoldExcess, NoExcess, FallbackDeferred, RereadTotals
<1>8. CASE OutOfRows \/ RecordSweep \/ WaitReverted \/ WaitUnconfirmed \/ WaitTooShort
             \/ SweepThrows \/ SkipToken
  BY <1>1, <1>8 DEF OutOfRows, RecordSweep, WaitReverted, WaitUnconfirmed, WaitTooShort, SweepThrows,
     SkipToken
<1>9. CASE PassThrows \/ Crash
  BY <1>3, <1>9 DEF PassThrows, Crash
<1>10. CASE \/ \E t \in Transfers : Arrive(t) \/ FlipCredit(t) \/ IncTotal(t)
            \/ \E f \in fallback : RetryFlip(f) \/ RetryInc(f)
            \/ \E i \in DOMAIN sweeps : Mine(i)
            \/ Recover \/ OtherSwept \/ UNCHANGED vars
  BY <1>4, <1>10 DEF Arrive, FlipCredit, IncTotal, RetryFlip, RetryInc, Mine, Recover, OtherSwept,
     vars
<1> QED  BY <1>5, <1>6, <1>7, <1>8, <1>9, <1>10 DEF Next, Sweeper

(* What a step does to the chain: nothing, but for Mine. *)
LEMMA MovedStep ==
  ASSUME TypeInv, Real, [Next]_vars
  PROVE  /\ MinedMoved' /\ Moved' \in Nat /\ Moved' >= Moved
         /\ (\A i \in DOMAIN sweeps : ~Mine(i)) => UNCHANGED Moved
<1>0. KeepsRows /\ UNCHANGED load /\ MinedMoved /\ Moved \in Nat
  BY RowsKept, LoadStays, LedgerSums DEF Real
<1>a. ASSUME Mined' = Mined, UNCHANGED moved
      PROVE  MinedMoved' /\ Moved' \in Nat /\ Moved' >= Moved /\ UNCHANGED Moved
  BY <1>0, <1>a, MinedStays
<1>1. CASE Aside
  BY <1>1, <1>a, AsideLeaves DEF Mined
<1>2. ASSUME NEW i \in DOMAIN sweeps, NEW st, NEW h, SameBut(i, st, h, sweeps[i].tx)
      PROVE  Mined' = Mined
  BY <1>2 DEF Mined, SameBut
<1>3. CASE ReconcileConfirmed \/ ReconcileFailed
  <2>1. Mined' = Mined
    BY <1>2, <1>3, ConfirmedRow, FailedRow
  <2> QED  BY <1>a, <1>3, <2>1 DEF ReconcileConfirmed, ReconcileFailed, chain
<1>4. CASE SaveHash \/ WaitMined \/ WaitReverted \/ SweepThrows
  <2>1. Mined' = Mined
    BY <1>2, <1>4, CurrentRow
  <2> QED  BY <1>a, <1>4, <2>1 DEF SaveHash, WaitMined, WaitReverted, SweepThrows, chain
<1>5. CASE Send
  <2>1. Mined' = Mined
    BY <1>5, CurrentRow DEF Mined, SameBut, Real, Unsent, Send
  <2> QED  BY <1>a, <1>5, <2>1 DEF Send, chain
<1>6. CASE CreateSweep
  <2>1. Mined' = Mined
    BY <1>6, RowCreated DEF Mined, TypeInv, WorldTypes
  <2> QED  BY <1>a, <1>6, <2>1 DEF CreateSweep, chain
<1>7. ASSUME NEW i \in DOMAIN sweeps, Mine(i)
      PROVE  MinedMoved' /\ Moved' \in Nat /\ Moved' >= Moved
  <2>1. sweeps[i].amount \in Nat
    BY <1>7, MinedRow DEF Sweeps
  <2> QED  BY <1>0, <1>7, <2>1, MinedMoves
<1> QED  BY <1>1, <1>3, <1>4, <1>5, <1>6, <1>7, NextParts

LEMMA ConfirmedStep ==
  ASSUME TypeInv, Real, [Next]_vars
  PROVE  ConfirmedMined'
<1>0. ConfirmedMined
  BY DEF Real
<1>1. CASE Aside
  BY <1>0, <1>1, AsideLeaves DEF ConfirmedMined
<1>2. CASE ReconcileConfirmed \/ ReconcileFailed
  BY <1>0, <1>2, ConfirmedRow, FailedRow DEF ConfirmedMined, SameBut
<1>3. CASE SaveHash \/ WaitMined \/ WaitReverted \/ SweepThrows
  BY <1>0, <1>3, CurrentRow DEF ConfirmedMined, SameBut, WaitMined
<1>4. CASE Send
  BY <1>0, <1>4, CurrentRow DEF ConfirmedMined, SameBut, Send, Real, Unsent
<1>5. CASE CreateSweep
  BY <1>0, <1>5, RowCreated DEF ConfirmedMined, TypeInv, WorldTypes
<1>6. CASE \E i \in DOMAIN sweeps : Mine(i)
  BY <1>0, <1>6, MinedRow DEF ConfirmedMined, SameBut
<1> QED  BY <1>1, <1>2, <1>3, <1>4, <1>5, <1>6, NextParts

LEMMA RealStep ==
  ASSUME TypeInv, Real, [Next]_vars
  PROVE  Real'
<1>1. MinedMoved' /\ ConfirmedMined' /\ TypeInv'
  BY MovedStep, ConfirmedStep, TypeStep
<1>2. Unsent'
  <2> SUFFICES ASSUME pc' = "send" PROVE sweeps'[current'].tx = "none"
    BY DEF Unsent
  <2>1. CASE CreateSweep
    BY <2>1, RowCreated DEF TypeInv, WorldTypes
  <2>2. CASE UNCHANGED <<pc, current>>
    <3>1. sweeps[current].tx = "none" /\ pc = "send" /\ current \in DOMAIN sweeps
      BY <2>2 DEF Real, Unsent, TypeInv, CallTypes, Sending
    <3>2. CASE \E i \in DOMAIN sweeps : Mine(i)
      BY <2>2, <3>1, <3>2, MinedRow DEF SameBut
    <3>3. CASE Aside
      BY <2>2, <3>1, <3>3, AsideLeaves
    <3>4. CASE \/ ReconcileConfirmed \/ ReconcileFailed \/ CreateSweep \/ Send \/ SaveHash
               \/ WaitMined \/ WaitReverted
      BY <2>2, <3>1, <3>4 DEF ReconcileConfirmed, ReconcileFailed, CreateSweep, Send, SaveHash,
         WaitMined, WaitReverted
    <3>5. CASE SweepThrows
      BY <3>1, <3>5, SweepGoes DEF SweepThrows
    <3> QED  BY <3>2, <3>3, <3>4, <3>5, NextParts
  <2> QED  BY <2>1, <2>2, CallGoes
<1>3. CopyHolds'
  <2>1. Moved \in Nat /\ Moved' \in Nat /\ doc.swept \in Nat /\ Moved' >= Moved
    BY LedgerSums, MovedStep DEF TypeInv, CallTypes, Docs
  <2>2. CASE UNCHANGED doc /\ (pc = "sumLedgers" => pc' = pc)
    <3>1. CASE pc = "sumLedgers"
      BY <2>2, <3>1 DEF CopyHolds
    <3>2. CASE pc # "sumLedgers"
      <4>1. doc.swept <= Moved
        BY <3>2 DEF Real, CopyHolds
      <4> QED  BY <2>1, <2>2, <4>1 DEF CopyHolds
    <3> QED  BY <3>1, <3>2
  <2>3. CASE doc' = NoDoc
    BY <2>1, <2>3 DEF CopyHolds, NoDoc
  <2>4. CASE SumLedgers
    <3>1. doc'.swept = SweptSum /\ SweptSum <= Moved
      BY <2>4, ConfirmedWithin DEF SumLedgers, Real, TypeInv, CallTypes, Docs
    <3> QED  BY <2>1, <3>1, LedgerSums DEF CopyHolds
  <2> QED  BY <2>2, <2>3, <2>4, CallGoes DEF CopyHolds
<1> QED  BY <1>1, <1>2, <1>3 DEF Real

LEMMA RealInit ==
  ASSUME Init
  PROVE  Real
<1>1. sweeps = << >> /\ DOMAIN sweeps = {}
  BY EmptySeq DEF Init
<1>2. TypeInv
  BY TypeInit
<1>3. SumOver(Mined, Amounts) = 0
  BY <1>1, SumOfNone DEF Mined
<1>4. Moved = 0
  <2>1. Blocks(Assets, moved) = {}
    BY DEF Init, Blocks, Block
  <2> QED  BY <2>1, SumOfBlocks, FS_EmptySet DEF Moved
<1> QED  BY <1>1, <1>3, <1>4 DEF Real, MinedMoved, ConfirmedMined, Unsent, CopyHolds, Init, NoDoc

-----------------------------------------------------------------------------
(* What the ledger says is credited never falls *)

LEMMA CreditedIs ==
  CreditedSum = Cardinality(CountedTransfers(Assets)) + SumOver(CountedRows(Assets), Worth)
BY DEF CreditedSum, CreditedIn, CountedTransfers, CountedRows, Worth

LEMMA CreditedNext ==
  ASSUME UNCHANGED load
  PROVE  /\ CreditedSum' = Cardinality(CountedTransfers(Assets)') + SumOver(CountedRows(Assets)', Worth')
         /\ UNCHANGED <<Assets, Asset>>
BY TokensStay DEF CreditedSum, CreditedIn, CountedTransfers, CountedRows, Worth, SumOver, Asset

LEMMA CreditedStays ==
  ASSUME UNCHANGED <<load, credits>>
  PROVE  CreditedSum' = CreditedSum
<1>1. CountedTransfers(Assets)' = CountedTransfers(Assets) /\ CountedRows(Assets)' = CountedRows(Assets)
      /\ Worth' = Worth
  BY CreditedNext DEF CountedTransfers, CountedRows, Worth, credits
<1> QED  BY <1>1, CreditedNext, CreditedIs

(* A transfer's row that goes on. *)
LEMMA TransferCounts ==
  ASSUME TypeInv, UNCHANGED <<load, fallback>>, NEW t \in Transfers, NEW st,
         row' = [row EXCEPT ![t] = st], row[t] \in Counted => st \in Counted
  PROVE  CreditedSum' \in Nat /\ CreditedSum' >= CreditedSum
<1> DEFINE T == CountedTransfers(Assets)
           U == CountedTransfers(Assets)'
<1>1. T \subseteq U /\ U \subseteq Transfers
  BY CreditedNext DEF TypeInv, CreditTypes, CountedTransfers
<1>2. IsFiniteSet(U) /\ Cardinality(U) \in Nat
  BY <1>1, SweepAssumption, FS_Subset, FS_CardinalityType
<1>3. Cardinality(T) \in Nat /\ SumOver(CountedRows(Assets), Worth) \in Nat
  BY CreditedParts DEF TypeInv
<1>4. Cardinality(T) <= Cardinality(U)
  <2> HIDE DEF T, U
  <2> QED  BY <1>1, <1>2, FS_Subset
<1>5. CountedRows(Assets)' = CountedRows(Assets) /\ Worth' = Worth
  BY CreditedNext DEF CountedRows, Worth
<1>6. CreditedSum' = Cardinality(U) + SumOver(CountedRows(Assets), Worth)
  BY <1>5, CreditedNext
<1>7. CreditedSum = Cardinality(T) + SumOver(CountedRows(Assets), Worth)
  BY CreditedIs
<1> HIDE DEF T, U
<1> QED  BY <1>2, <1>3, <1>4, <1>6, <1>7

(* A fallback row that becomes credited adds its amount, one that was      *)
(* credited already adds nothing.                                          *)
LEMMA RowCounts ==
  ASSUME TypeInv, UNCHANGED <<load, row>>, NEW f \in fallback, NEW st \in Counted,
         fallback' = WithStatus(f, st)
  PROVE  CreditedSum' = CreditedSum + (IF f.status \in Counted THEN 0 ELSE f.amount)
<1> DEFINE e == [f EXCEPT !.status = st]
           R == CountedRows(Assets) \ {f}
           T == CountedTransfers(Assets)
<1>1. /\ fallback \subseteq Credit /\ \A g, h \in fallback : g.key = h.key => g = h
      /\ f \in Credit /\ UNCHANGED Assets
  BY CreditedNext DEF TypeInv, CreditTypes
<1>2. e \in Credit /\ e.key = f.key /\ e.amount = f.amount /\ e.asset = f.asset /\ e.status = st
  BY <1>1 DEF Credit, Counted
<1>3. fallback' = (fallback \ {f}) \union {e}
  BY DEF WithStatus
<1>4. f.asset \in Assets /\ f.amount \in Nat
  BY <1>1 DEF Credit
<1>5. e \notin R
  BY <1>1, <1>2 DEF CountedRows
<1>6. CountedRows(Assets)' = R \union {e}
  <2> HIDE DEF e
  <2> QED  BY <1>1, <1>2, <1>3, <1>4, <1>5 DEF CountedRows
<1>7. /\ IsFiniteSet(R) /\ \A g \in R : Worth[g] \in Nat /\ Worth'[g] = Worth[g]
  <2>1. IsFiniteSet(R)
    BY CreditedParts, FS_RemoveElement DEF TypeInv
  <2>2. \A g \in R : g \in fallback /\ g \in fallback' /\ g.amount \in Nat
    BY <1>1, <1>3 DEF CountedRows, Credit
  <2> QED  BY <2>1, <2>2 DEF Worth
<1>8. Worth'[e] = f.amount /\ Worth[f] = f.amount
  BY <1>2, <1>3 DEF Worth
<1>9. SumOver(R \union {e}, Worth') = SumOver(R, Worth') + f.amount
  <2> HIDE DEF e, R
  <2>1. \A g \in R \union {e} : Worth'[g] \in Nat
    BY <1>4, <1>7, <1>8
  <2>2. SumOver(R \union {e}, Worth') = SumOver(R, Worth') + Worth'[e]
    BY <1>5, <1>7, <2>1, SumAdds
  <2> QED  BY <1>8, <2>2
<1>10. SumOver(R, Worth') = SumOver(R, Worth)
  <2> HIDE DEF R
  <2> QED  BY <1>7, SumAgrees
<1>11. SumOver(CountedRows(Assets), Worth)
         = SumOver(R, Worth) + (IF f.status \in Counted THEN f.amount ELSE 0)
  <2>0. SumOver(R, Worth) \in Nat
    <3> HIDE DEF R
    <3> QED  BY <1>7, BlocksFinite
  <2>1. CASE f.status \in Counted
    <3>1. f \in CountedRows(Assets)
      BY <1>4, <2>1 DEF CountedRows
    <3>2. IsFiniteSet(CountedRows(Assets)) /\ \A g \in CountedRows(Assets) : Worth[g] \in Nat
      BY CreditedParts DEF TypeInv, CreditTypes, CountedRows, Worth, Credit
    <3>3. SumOver(CountedRows(Assets), Worth) = SumOver(CountedRows(Assets) \ {f}, Worth) + Worth[f]
      BY <3>1, <3>2, SumSplits
    <3> QED  BY <1>8, <2>1, <3>3
  <2>2. CASE f.status \notin Counted
    <3>1. R = CountedRows(Assets)
      BY <2>2 DEF CountedRows
    <3> QED  BY <2>0, <2>2, <3>1
  <2> QED  BY <2>1, <2>2
<1>12. CountedTransfers(Assets)' = T
  BY CreditedNext DEF CountedTransfers
<1>13. CreditedSum' = Cardinality(T) + SumOver(R \union {e}, Worth')
  BY <1>6, <1>12, CreditedNext
<1>14. CreditedSum = Cardinality(T) + SumOver(CountedRows(Assets), Worth) /\ Cardinality(T) \in Nat
  BY CreditedIs, CreditedParts DEF TypeInv
<1>15. SumOver(R, Worth) \in Nat
  <2> HIDE DEF R
  <2> QED  BY <1>7, BlocksFinite
<1> HIDE DEF R, T, e
<1> QED  BY <1>4, <1>9, <1>10, <1>11, <1>13, <1>14, <1>15

(* A row that is made is not credited yet. *)
LEMMA RowAwaits ==
  ASSUME TypeInv, CreateFallback
  PROVE  CreditedSum' = CreditedSum
<1> DEFINE e == [key |-> FallbackKey, amount |-> Excess, asset |-> Tokens[step],
                 status |-> "detected"]
<1>1. UNCHANGED <<load, row>> /\ fallback' = fallback \union {e} /\ e.status \notin Counted
  BY DEF CreateFallback, Counted
<1> HIDE DEF e
<1>2. CountedRows(Assets)' = CountedRows(Assets)
  BY <1>1, CreditedNext DEF CountedRows
<1>3. SumOver(CountedRows(Assets), Worth') = SumOver(CountedRows(Assets), Worth)
  <2>1. \A f \in CountedRows(Assets) : Worth'[f] = Worth[f]
    BY <1>1 DEF CountedRows, Worth
  <2> QED  BY <2>1, SumAgrees
<1>4. CountedTransfers(Assets)' = CountedTransfers(Assets)
  BY <1>1, CreditedNext DEF CountedTransfers
<1> QED  BY <1>1, <1>2, <1>3, <1>4, CreditedNext, CreditedIs

LEMMA CreditedGrows ==
  ASSUME TypeInv, [Next]_vars, ~Crash
  PROVE  CreditedSum' \in Nat /\ CreditedSum' >= CreditedSum
<1>0. CreditedSum \in Nat /\ UNCHANGED load /\ \A f \in fallback : f.amount \in Nat
  BY LedgerSums, LoadStays DEF TypeInv, CreditTypes, Credit
<1>1. ASSUME NEW t \in Transfers, Arrive(t) \/ FlipCredit(t) \/ IncTotal(t)
      PROVE  CreditedSum' \in Nat /\ CreditedSum' >= CreditedSum
  <2>1. UNCHANGED fallback
    BY <1>1 DEF Arrive, FlipCredit, IncTotal
  <2>2. PICK st \in {"arrived", "flipped", "credited"} :
          row' = [row EXCEPT ![t] = st] /\ (row[t] \in Counted => st \in Counted)
    BY <1>1 DEF Arrive, FlipCredit, IncTotal, Counted
  <2> QED  BY <1>0, <2>1, <2>2, TransferCounts
<1>2. ASSUME NEW f \in fallback, RetryFlip(f) \/ RetryInc(f)
      PROVE  CreditedSum' \in Nat /\ CreditedSum' >= CreditedSum
  <2>1. UNCHANGED row /\ \E st \in Counted : fallback' = WithStatus(f, st)
    BY <1>2 DEF RetryFlip, RetryInc, Counted
  <2>2. CreditedSum' = CreditedSum + (IF f.status \in Counted THEN 0 ELSE f.amount)
    BY <1>0, <2>1, RowCounts
  <2> QED  BY <1>0, <2>2
<1>3. CASE FlipFallback
  <2>1. PICK f \in fallback :
          UNCHANGED row /\ (fallback' = WithStatus(f, "credited") \/ UNCHANGED fallback)
    BY <1>3 DEF FlipFallback
  <2>2. CASE UNCHANGED fallback
    BY <1>0, <2>1, <2>2, CreditedStays DEF credits
  <2>3. CASE fallback' = WithStatus(f, "credited")
    <3>1. CreditedSum' = CreditedSum + (IF f.status \in Counted THEN 0 ELSE f.amount)
      BY <1>0, <2>1, <2>3, RowCounts DEF Counted
    <3> QED  BY <1>0, <3>1
  <2> QED  BY <2>1, <2>2, <2>3
<1>4. CASE CreateFallback
  BY <1>0, <1>4, RowAwaits
<1>5. CASE UNCHANGED credits
  BY <1>0, <1>5, CreditedStays
<1>6. CASE \/ Tick \/ ReconcileConfirmed \/ RecordReconciled \/ ReconcileFailed
           \/ ReconcileUnknown \/ LoadDoc \/ SumLedgers \/ WriteTotals \/ ReadBalance
           \/ FlagExcess \/ HoldExcess \/ CountFallback
           \/ RereadTotals \/ NoExcess \/ CreateSweep \/ OutOfRows \/ Send \/ SaveHash
           \/ WaitMined \/ RecordSweep \/ WaitReverted \/ WaitUnconfirmed \/ ForceSweep
  BY <1>5, <1>6 DEF ForceSweep, Tick, StartPass, ReconcileConfirmed, RecordReconciled, ReconcileFailed,
     ReconcileUnknown, LoadDoc, SumLedgers, WriteTotals, ReadBalance, FlagExcess, HoldExcess,
     CountFallback, RereadTotals, NoExcess, CreateSweep, OutOfRows,
     Send, SaveHash, WaitMined, RecordSweep, WaitReverted, WaitUnconfirmed
<1>7. CASE \/ \E i \in DOMAIN sweeps : Mine(i)
           \/ WaitTooShort \/ SweepThrows \/ SkipToken \/ FallbackDeferred \/ PassThrows
           \/ Recover \/ OtherSwept \/ UNCHANGED vars
  BY <1>5, <1>7 DEF Mine, WaitTooShort, SweepThrows, SkipToken, FallbackDeferred, PassThrows, Recover,
     OtherSwept, vars
<1> QED  BY <1>1, <1>2, <1>3, <1>4, <1>6, <1>7 DEF Next, Sweeper

-----------------------------------------------------------------------------
(* One asset, nothing fails, and every sweep is waited for *)

Whole == OneAsset /\ budget.faults = 0 /\ budget.crashes = 0 /\ budget.windows = 0

(* Every row but the one that is being sent is settled, so that the        *)
(* confirmed rows are what was mined.                                      *)
InFlight == {"send", "saveHash", "wait"}
SettledRow(i) ==
  \/ sweeps[i].tx = "reverted"
  \/ sweeps[i].tx = "mined" /\ sweeps[i].status = "confirmed"
Settled == \A i \in DOMAIN sweeps : (pc \in InFlight /\ i = current) \/ SettledRow(i)

(* What is decided on: all that left, and no more than is credited; the    *)
(* fallback's row adds the excess to that once it is counted.              *)
Falling == {"flipFallback", "countFallback", "rereadTotals"}
Deciding == {"writeTotals", "readBalance", "decide"} \union Falling
Decided ==
  pc \in Deciding => doc.swept = Moved /\ doc.swept <= doc.credited /\ doc.credited <= CreditedSum
FallsBack ==
  pc \in Falling =>
    /\ Excess > 0
    /\ \E f \in fallback :
         /\ f.key = FallbackKey /\ f.amount = Excess
         /\ pc # "flipFallback" => f.status \in Counted
         /\ f.status \in Counted => doc.credited + Excess <= CreditedSum

(* What moved and what is about to move is credited. *)
Going ==
  IF pc = "create" THEN amount
  ELSE IF pc \in InFlight /\ sweeps[current].tx \in {"none", "pending"} THEN sweeps[current].amount
  ELSE 0
Enough == Moved + Going <= CreditedSum

Solo == Settled /\ Decided /\ FallsBack /\ Enough

IInv == TypeInv /\ Real /\ (Whole => Solo)

(* The steps of the others. *)
Outside ==
  \/ \E t \in Transfers : Arrive(t) \/ FlipCredit(t) \/ IncTotal(t)
  \/ \E f \in fallback : RetryFlip(f) \/ RetryInc(f)
  \/ \E i \in DOMAIN sweeps : Mine(i)
  \/ Recover \/ OtherSwept \/ UNCHANGED vars

(* Whatever is spent is there to be seen. *)
LEMMA NothingSpent ==
  ASSUME budget \in Budgets, budget'.faults = 0, budget'.crashes = 0, budget'.windows = 0
  PROVE  ~Spend("faults") /\ ~Spend("crashes") /\ ~Spend("windows")
<1>1. budget.faults \in Nat /\ budget.crashes \in Nat /\ budget.windows \in Nat
  BY DEF Budgets
<1>2. \A k \in {"faults", "crashes", "windows"} : k \in Kinds
  BY DEF Kinds
<1> QED  BY <1>1, <1>2, SpendTypes

LEMMA WholeParts ==
  ASSUME TypeInv, [Next]_vars, Whole'
  PROVE  Whole /\ ~Crash /\ (Outside \/ Sweeper \/ ForceSweep)
<1>0. /\ UNCHANGED load /\ budget \in Budgets
      /\ budget'.faults = 0 /\ budget'.crashes = 0 /\ budget'.windows = 0
  BY LoadStays DEF TypeInv, WorldTypes, Whole
<1>1. OneAsset
  BY <1>0, TokensStay DEF Whole, OneAsset
<1>2. ~Spend("faults") /\ ~Spend("crashes") /\ ~Spend("windows")
  BY <1>0, NothingSpent
<1>3. ~(WaitTooShort \/ SweepThrows \/ SkipToken \/ FallbackDeferred \/ PassThrows \/ Crash)
  BY <1>2 DEF WaitTooShort, SweepThrows, SkipToken, FallbackDeferred, PassThrows, Crash
<1>4. CASE Recover
  <2>1. Spend("recoveries")
    BY <1>4 DEF Recover
  <2>2. /\ budget'.faults = budget.faults /\ budget'.crashes = budget.crashes
        /\ budget'.windows = budget.windows
    BY <1>0, <2>1, SpendTypes DEF Budgets, Kinds
  <2> QED  BY <1>0, <1>1, <1>3, <1>4, <2>2 DEF Whole, Outside
<1>5. CASE ~Recover
  <2>1. Outside \/ Sweeper \/ ForceSweep
    BY <1>3, <1>5 DEF Next, Outside
  <2>2. UNCHANGED budget
    <3>1. CASE Outside
      BY <1>5, <3>1 DEF Outside, Arrive, FlipCredit, IncTotal, RetryFlip, RetryInc, Mine, OtherSwept,
         vars
    <3>2. CASE Sweeper \/ ForceSweep
      BY <1>2, <3>2 DEF Sweeper, ForceSweep, Tick, StartPass, ReconcileConfirmed, RecordReconciled,
         ReconcileFailed, ReconcileUnknown, LoadDoc, SumLedgers, WriteTotals, ReadBalance, FlagExcess,
         HoldExcess, CreateFallback, FlipFallback, CountFallback, RereadTotals, NoExcess, CreateSweep,
         OutOfRows, Send, SaveHash, WaitMined, RecordSweep, WaitReverted, WaitUnconfirmed
    <3> QED  BY <2>1, <3>1, <3>2
  <2> QED  BY <1>0, <1>1, <1>3, <2>1, <2>2 DEF Whole
<1> QED  BY <1>4, <1>5

LEMMA OutsideLeaves ==
  ASSUME Outside
  PROVE  UNCHANGED <<pc, local>> /\ (UNCHANGED <<sweeps, moved, load>> \/ \E i \in DOMAIN sweeps : Mine(i))
BY DEF Outside, Arrive, FlipCredit, IncTotal, RetryFlip, RetryInc, Mine, Recover, OtherSwept, vars,
   chain

(* The sweeper where nothing is in flight, and its other steps. *)
AtRest ==
  \/ Tick \/ ForceSweep \/ RecordReconciled \/ ReconcileUnknown \/ LoadDoc \/ SumLedgers
  \/ WriteTotals \/ ReadBalance \/ FlagExcess \/ HoldExcess \/ CreateFallback \/ FlipFallback
  \/ CountFallback \/ RereadTotals \/ NoExcess \/ OutOfRows \/ RecordSweep

LEMMA SweeperParts ==
  ASSUME Sweeper \/ ForceSweep
  PROVE  \/ AtRest \/ ReconcileConfirmed \/ ReconcileFailed \/ CreateSweep \/ Send \/ SaveHash
         \/ WaitMined \/ WaitReverted \/ WaitUnconfirmed
BY DEF Sweeper, AtRest

LEMMA AtRestStays ==
  ASSUME AtRest
  PROVE  UNCHANGED <<sweeps, moved, load>> /\ pc \notin InFlight /\ pc' \notin InFlight
<1>1. CASE \/ Tick \/ ForceSweep \/ RecordReconciled \/ ReconcileUnknown \/ LoadDoc \/ SumLedgers
           \/ WriteTotals \/ CreateFallback \/ FlipFallback \/ CountFallback
  BY <1>1 DEF Tick, ForceSweep, StartPass, RecordReconciled, ReconcileUnknown, LoadDoc, SumLedgers,
     WriteTotals, CreateFallback, FlipFallback, CountFallback, InFlight, chain, local
<1>2. CASE ReadBalance \/ OutOfRows \/ RecordSweep
  BY <1>2, SweepGoes DEF ReadBalance, OutOfRows, RecordSweep, InFlight, chain
<1>3. CASE FlagExcess \/ HoldExcess \/ RereadTotals \/ NoExcess
  BY <1>3, SweepGoes DEF FlagExcess, HoldExcess, RereadTotals, NoExcess, InFlight, chain
<1> QED  BY <1>1, <1>2, <1>3 DEF AtRest

(* On to the next token is the end of the pass. *)
LEMMA LastToken ==
  ASSUME TypeInv, OneAsset, NextToken
  PROVE  Idle
BY LoadFacts DEF TypeInv, WorldTypes, CallTypes, OneAsset, NextToken

LEMMA NothingPending ==
  ASSUME TypeInv, Settled, NEW i \in DOMAIN sweeps, Mine(i)
  PROVE  pc \in InFlight /\ i = current
BY MinedRow DEF Settled, SettledRow

LEMMA SettledStep ==
  ASSUME TypeInv, Real, Whole, Whole', Solo, Outside \/ Sweeper \/ ForceSweep, [Next]_vars
  PROVE  Settled'
<1>0. Settled
  BY DEF Solo
<1>1. CASE Outside
  <2>1. UNCHANGED <<pc, current>>
    BY <1>1, OutsideLeaves DEF local
  <2>2. CASE UNCHANGED sweeps
    BY <1>0, <2>1, <2>2 DEF Settled, SettledRow
  <2>3. ASSUME NEW i \in DOMAIN sweeps, Mine(i) PROVE Settled'
    <3>1. pc \in InFlight /\ i = current
      BY <1>0, <2>3, NothingPending
    <3> QED  BY <1>0, <2>1, <2>3, <3>1, MinedRow DEF Settled, SettledRow, SameBut
  <2> QED  BY <1>1, <2>2, <2>3, OutsideLeaves
<1>2. CASE AtRest
  BY <1>0, <1>2, AtRestStays DEF Settled, SettledRow
<1>3. CASE ReconcileConfirmed
  <2>1. pc \notin InFlight
    BY <1>3 DEF ReconcileConfirmed, InFlight
  <2> QED  BY <1>0, <1>3, <2>1, ConfirmedRow DEF Settled, SettledRow, SameBut
<1>4. CASE ReconcileFailed
  <2>0. ~Spend("windows")
    BY NothingSpent DEF TypeInv, WorldTypes, Whole
  <2>1. pc \notin InFlight /\ sweeps[Oldest(queue)].tx # "mined"
    BY <1>4, <2>0 DEF ReconcileFailed, InFlight
  <2> QED  BY <1>0, <1>4, <2>1, FailedRow DEF Settled, SettledRow, SameBut
<1>5. CASE CreateSweep
  <2>1. pc \notin InFlight /\ pc' \in InFlight
    BY <1>5 DEF CreateSweep, InFlight
  <2>2. /\ DOMAIN sweeps' = DOMAIN sweeps \union {current'}
        /\ \A j \in DOMAIN sweeps : sweeps'[j] = sweeps[j]
    BY <1>5, RowCreated DEF TypeInv, WorldTypes
  <2>3. \A j \in DOMAIN sweeps : SettledRow(j)
    BY <1>0, <2>1 DEF Settled
  <2> QED  BY <2>1, <2>2, <2>3 DEF Settled, SettledRow
<1>6. CASE Send \/ SaveHash
  <2>1. pc' \in InFlight /\ UNCHANGED current /\ \A i \in DOMAIN sweeps : i = current \/ SettledRow(i)
    BY <1>0, <1>6 DEF Send, SaveHash, InFlight, local, Settled
  <2> QED  BY <1>6, <2>1, CurrentRow DEF Settled, SettledRow, SameBut
<1>7. CASE WaitMined \/ WaitReverted
  <2>1. \A i \in DOMAIN sweeps : i = current \/ SettledRow(i)
    BY <1>0 DEF Settled
  <2>2. (WaitMined => sweeps[current].tx = "mined") /\ (WaitReverted => sweeps[current].tx = "reverted")
    BY DEF WaitMined, WaitReverted
  <2> QED  BY <1>7, <2>1, <2>2, CurrentRow DEF Settled, SettledRow, SameBut
<1>8. CASE WaitUnconfirmed
  BY <1>0, <1>8 DEF WaitUnconfirmed, Settled, SettledRow
<1> QED  BY <1>1, <1>2, <1>3, <1>4, <1>5, <1>6, <1>7, <1>8, SweeperParts

(* With every row settled the confirmed ones are what was mined. *)
LEMMA ExactSum ==
  ASSUME TypeInv, Real, Settled, pc \notin InFlight
  PROVE  SweptSum = Moved
<1>1. Confirmed = Mined
  BY DEF Confirmed, Mined, Settled, SettledRow, Real, ConfirmedMined
<1> QED  BY <1>1 DEF SweptSum, Real, MinedMoved

(* How a decision is come to. *)
LEMMA DecidingComesFrom ==
  ASSUME TypeInv, OneAsset, Outside \/ Sweeper \/ ForceSweep, pc' \in Deciding
  PROVE  /\ \/ SumLedgers
            \/ pc \in Deciding /\ UNCHANGED doc
         /\ pc' \in Falling =>
              \/ CreateFallback
              \/ FlipFallback /\ UNCHANGED <<doc, read>>
              \/ CountFallback /\ UNCHANGED <<doc, read, credits, load>>
              \/ Outside /\ UNCHANGED <<pc, doc, read>>
<1>a. CASE Idle
  BY <1>a DEF Idle, Deciding, Falling
<1>b. CASE pc' \notin Deciding
  BY <1>b
<1>1. CASE Outside
  BY <1>1, OutsideLeaves DEF local
<1>2. CASE \/ Tick \/ ForceSweep \/ RecordReconciled \/ ReconcileUnknown \/ LoadDoc
           \/ ReconcileConfirmed \/ ReconcileFailed \/ CreateSweep \/ Send \/ SaveHash \/ WaitMined
  <2>1. pc' \in {"reconcile", "recordReconciled", "sumLedgers", "send", "saveHash", "wait", "record"}
    BY <1>2 DEF Tick, ForceSweep, StartPass, RecordReconciled, ReconcileUnknown, LoadDoc,
       ReconcileConfirmed, ReconcileFailed, CreateSweep, Send, SaveHash, WaitMined
  <2> QED  BY <2>1 DEF Deciding, Falling
<1>3. CASE SumLedgers \/ WriteTotals \/ CreateFallback \/ FlipFallback \/ CountFallback
  BY <1>3 DEF SumLedgers, WriteTotals, CreateFallback, FlipFallback, CountFallback, Deciding, Falling,
     local
<1>4. CASE ReadBalance
  <2>1. CASE balance[Tokens[step]] = 0
    BY <1>a, <1>4, <2>1, LastToken DEF ReadBalance
  <2>2. CASE balance[Tokens[step]] # 0
    BY <1>4, <2>2 DEF ReadBalance, Deciding, Falling
  <2> QED  BY <2>1, <2>2
<1>5. CASE OutOfRows \/ RecordSweep \/ WaitReverted \/ WaitUnconfirmed
  BY <1>a, <1>5, LastToken DEF OutOfRows, RecordSweep, WaitReverted, WaitUnconfirmed
<1>6. ASSUME NEW n, Sweep(n) PROVE pc' \notin Deciding
  <2>1. CASE n = 0
    BY <1>6, <2>1, LastToken DEF Sweep, Idle, Deciding, Falling
  <2>2. CASE n # 0
    BY <1>6, <2>2 DEF Sweep, Deciding, Falling
  <2> QED  BY <2>1, <2>2
<1>7. CASE FlagExcess \/ HoldExcess \/ RereadTotals \/ NoExcess
  BY <1>6, <1>7 DEF FlagExcess, HoldExcess, RereadTotals, NoExcess
<1> QED  BY <1>1, <1>2, <1>3, <1>4, <1>5, <1>7 DEF Sweeper

LEMMA DecidedStep ==
  ASSUME TypeInv, Real, Whole, Solo, ~Crash, Outside \/ Sweeper \/ ForceSweep, [Next]_vars
  PROVE  Decided'
<1> SUFFICES ASSUME pc' \in Deciding
             PROVE  doc'.swept = Moved' /\ doc'.swept <= doc'.credited /\ doc'.credited <= CreditedSum'
  BY DEF Decided
<1>0. /\ CreditedSum \in Nat /\ Moved \in Nat /\ CreditedSum' \in Nat /\ CreditedSum' >= CreditedSum
      /\ doc.swept \in Nat /\ doc.credited \in Nat /\ Settled /\ OneAsset
  BY LedgerSums, CreditedGrows DEF TypeInv, CallTypes, Docs, Solo, Whole
<1>1. CASE SumLedgers
  <2>1. pc = "sumLedgers" /\ UNCHANGED <<load, moved, credits>>
    BY <1>1 DEF SumLedgers, chain
  <2>2. doc'.swept = SweptSum /\ doc'.credited = CreditedSum
    BY <1>1 DEF SumLedgers, TypeInv, CallTypes, Docs
  <2>3. SweptSum = Moved
    BY <1>0, <2>1, ExactSum DEF InFlight
  <2>4. Going = 0
    BY <2>1 DEF Going, InFlight
  <2>5. Moved <= CreditedSum
    BY <1>0, <2>4 DEF Solo, Enough
  <2>6. Moved' = Moved /\ CreditedSum' = CreditedSum
    BY <2>1, TokensStay, CreditedStays DEF Moved
  <2> QED  BY <1>0, <2>2, <2>3, <2>5, <2>6
<1>2. CASE pc \in Deciding /\ UNCHANGED doc
  <2>1. doc.swept = Moved /\ doc.swept <= doc.credited /\ doc.credited <= CreditedSum
    BY <1>2 DEF Solo, Decided
  <2>2. \A i \in DOMAIN sweeps : ~Mine(i)
    BY <1>0, <1>2, NothingPending DEF Deciding, Falling, InFlight
  <2>3. Moved' = Moved
    BY <2>2, MovedStep
  <2> QED  BY <1>0, <1>2, <2>1, <2>3
<1> QED  BY <1>0, <1>1, <1>2, DecidingComesFrom

LEMMA FallsBackStep ==
  ASSUME TypeInv, Real, Whole, Solo, ~Crash, Outside \/ Sweeper \/ ForceSweep, [Next]_vars
  PROVE  FallsBack'
<1> SUFFICES ASSUME pc' \in Falling
             PROVE  /\ Excess' > 0
                    /\ \E f \in fallback' :
                         /\ f.key = FallbackKey' /\ f.amount = Excess'
                         /\ pc' # "flipFallback" => f.status \in Counted
                         /\ f.status \in Counted => doc'.credited + Excess' <= CreditedSum'
  BY DEF FallsBack
<1>0. /\ CreditedSum \in Nat /\ CreditedSum' \in Nat /\ CreditedSum' >= CreditedSum
      /\ doc.credited \in Nat /\ Excess \in Int /\ UNCHANGED load /\ OneAsset
      /\ \A f, g \in fallback : f.key = g.key => f = g
      /\ \A f \in fallback : f \in Credit
  BY LedgerSums, CreditedGrows, DecisionTypes, LoadStays
     DEF TypeInv, CallTypes, CreditTypes, Docs, Whole
<1>a. ASSUME UNCHANGED <<doc, read>> PROVE Excess' = Excess /\ FallbackKey' = FallbackKey
  BY <1>a DEF Excess, FallbackKey, Expected
<1>b. ASSUME NEW f \in fallback, NEW st, fallback' = WithStatus(f, st)
      PROVE  /\ [f EXCEPT !.status = st] \in fallback' /\ \A g \in fallback \ {f} : g \in fallback'
             /\ [f EXCEPT !.status = st].key = f.key /\ [f EXCEPT !.status = st].amount = f.amount
             /\ [f EXCEPT !.status = st].status = st
  BY <1>0, <1>b DEF WithStatus, Credit
<1>1. CASE CreateFallback
  <2> DEFINE e == [key |-> FallbackKey, amount |-> Excess, asset |-> Tokens[step],
                   status |-> "detected"]
  <2>1. /\ UNCHANGED <<doc, read>> /\ e \in fallback' /\ Excess > 0 /\ pc' = "flipFallback"
        /\ e.key = FallbackKey /\ e.amount = Excess /\ e.status \notin Counted
    BY <1>1 DEF CreateFallback, Counted
  <2> HIDE DEF e
  <2> QED  BY <1>a, <2>1
<1>2. CASE pc \in Falling /\ UNCHANGED <<doc, read>>
  <2>1. PICK f \in fallback :
          /\ f.key = FallbackKey /\ f.amount = Excess
          /\ pc # "flipFallback" => f.status \in Counted
          /\ f.status \in Counted => doc.credited + Excess <= CreditedSum
    BY <1>2 DEF Solo, FallsBack
  <2>2. Excess > 0 /\ Excess' = Excess /\ FallbackKey' = FallbackKey /\ doc.credited <= CreditedSum
    BY <1>2, <1>a DEF Solo, FallsBack, Decided, Deciding
  <2>3. f.status \in Counted => doc.credited + Excess <= CreditedSum'
    BY <1>0, <2>1
  <2>a. ASSUME f \in fallback', pc' # "flipFallback" => f.status \in Counted
        PROVE  \E g \in fallback' : /\ g.key = FallbackKey' /\ g.amount = Excess'
                                    /\ pc' # "flipFallback" => g.status \in Counted
                                    /\ g.status \in Counted => doc'.credited + Excess' <= CreditedSum'
    BY <1>2, <2>1, <2>2, <2>3, <2>a
  <2>b. ASSUME NEW st \in Counted, fallback' = WithStatus(f, st), UNCHANGED row
        PROVE  \E g \in fallback' : /\ g.key = FallbackKey' /\ g.amount = Excess'
                                    /\ pc' # "flipFallback" => g.status \in Counted
                                    /\ g.status \in Counted => doc'.credited + Excess' <= CreditedSum'
    <3>1. CreditedSum' = CreditedSum + (IF f.status \in Counted THEN 0 ELSE f.amount)
      BY <1>0, <2>b, RowCounts
    <3>2. doc.credited + Excess <= CreditedSum'
      BY <1>0, <2>1, <2>2, <3>1
    <3> DEFINE e == [f EXCEPT !.status = st]
    <3>3. e \in fallback' /\ e.key = f.key /\ e.amount = f.amount /\ e.status \in Counted
      BY <1>b, <2>b
    <3> HIDE DEF e
    <3> QED  BY <1>2, <2>1, <2>2, <3>2, <3>3
  <2>4. CASE UNCHANGED <<pc, fallback>>
    BY <2>1, <2>2, <2>4, <2>a
  <2>5. CASE FlipFallback
    <3>1. PICK g \in fallback :
            /\ g.key = FallbackKey
            /\ IF g.status = "detected" THEN fallback' = WithStatus(g, "credited")
                                        ELSE UNCHANGED fallback
            /\ UNCHANGED row
      BY <2>5 DEF FlipFallback
    <3>2. g = f
      BY <1>0, <2>1, <3>1
    <3>3. CASE f.status = "detected"
      BY <2>2, <2>b, <3>1, <3>2, <3>3 DEF Counted
    <3>4. CASE f.status # "detected"
      <4>1. f.status \in Counted /\ f \in fallback'
        BY <1>0, <3>1, <3>2, <3>4 DEF Counted, Credit
      <4> QED  BY <2>2, <2>a, <4>1
    <3> QED  BY <3>3, <3>4
  <2>6. CASE CountFallback /\ UNCHANGED credits
    BY <2>1, <2>2, <2>6, <2>a DEF CountFallback, credits
  <2>7. CASE Outside /\ UNCHANGED pc
    <3>1. ASSUME NEW g \in fallback, RetryFlip(g) \/ RetryInc(g)
          PROVE  \E h \in fallback' : /\ h.key = FallbackKey' /\ h.amount = Excess'
                                      /\ pc' # "flipFallback" => h.status \in Counted
                                      /\ h.status \in Counted => doc'.credited + Excess' <= CreditedSum'
      <4>1. PICK st \in Counted : fallback' = WithStatus(g, st) /\ UNCHANGED row
        BY <3>1 DEF RetryFlip, RetryInc, Counted
      <4>2. CASE g = f
        BY <2>b, <4>1, <4>2
      <4>3. CASE g # f
        BY <1>b, <2>1, <2>7, <2>a, <4>1, <4>3
      <4> QED  BY <4>2, <4>3
    <3>2. CASE \/ \E t \in Transfers : Arrive(t) \/ FlipCredit(t) \/ IncTotal(t)
               \/ \E i \in DOMAIN sweeps : Mine(i)
               \/ Recover \/ OtherSwept \/ UNCHANGED vars
      <4>1. UNCHANGED fallback
        BY <3>2 DEF Arrive, FlipCredit, IncTotal, Mine, Recover, OtherSwept, vars, credits
      <4> QED  BY <2>4, <2>7, <4>1
    <3> QED  BY <2>2, <2>7, <3>1, <3>2 DEF Outside
  <2> QED  BY <1>0, <2>2, <2>5, <2>6, <2>7, <1>1, DecidingComesFrom DEF Deciding
<1>3. pc' \in Deciding
  BY DEF Deciding
<1>4. CreateFallback \/ (pc \in Falling /\ UNCHANGED <<doc, read>>)
  <2>1. (FlipFallback => pc = "flipFallback") /\ (CountFallback => pc = "countFallback")
    BY DEF FlipFallback, CountFallback
  <2> QED  BY <1>0, <1>3, <2>1, DecidingComesFrom DEF Falling
<1> QED  BY <1>1, <1>2, <1>4

(* What is decided on is within what is credited. *)
LEMMA BookedFits ==
  ASSUME TypeInv, Whole, Solo, pc \in Deciding, NEW n \in Nat,
         n = Booked \/ (pc = "rereadTotals" /\ n <= read)
  PROVE  Moved + n <= CreditedSum
<1>0. /\ CreditedSum \in Nat /\ Moved \in Nat /\ read \in Nat
      /\ doc.swept \in Nat /\ doc.credited \in Nat
      /\ doc.swept = Moved /\ doc.swept <= doc.credited /\ doc.credited <= CreditedSum
  BY LedgerSums DEF TypeInv, CallTypes, Docs, Solo, Decided
<1>1. Expected(doc.credited, doc.swept) = doc.credited - Moved
  BY <1>0 DEF Expected
<1>2. CASE n = Booked
  <2>1. n <= doc.credited - Moved
    BY <1>0, <1>1, <1>2 DEF Booked, Lesser
  <2> QED  BY <1>0, <2>1
<1>3. CASE pc = "rereadTotals" /\ n <= read
  <2>1. doc.credited + Excess <= CreditedSum
    BY <1>3 DEF Solo, FallsBack, Falling
  <2>2. Excess = read - (doc.credited - Moved)
    BY <1>1 DEF Excess
  <2> QED  BY <1>0, <1>3, <2>1, <2>2
<1> QED  BY <1>2, <1>3

LEMMA EnoughStep ==
  ASSUME TypeInv, Real, Whole, Solo, ~Crash, Outside \/ Sweeper \/ ForceSweep, [Next]_vars
  PROVE  Enough'
<1>0. /\ CreditedSum \in Nat /\ CreditedSum' \in Nat /\ CreditedSum' >= CreditedSum
      /\ Moved \in Nat /\ Moved' \in Nat /\ Settled /\ OneAsset /\ amount \in Nat
  BY LedgerSums, CreditedGrows, MovedStep DEF TypeInv, CallTypes, Solo, Whole
<1>1. Going \in Nat /\ Moved + Going <= CreditedSum
  <2>1. pc \in InFlight => sweeps[current] \in Sweeps
    BY RowFacts DEF TypeInv, CallTypes, InFlight, Sending
  <2> QED  BY <1>0, <2>1 DEF Going, Sweeps, Solo, Enough
<1>a. ASSUME UNCHANGED Moved, Going' = Going \/ Going' = 0 PROVE Enough'
  BY <1>0, <1>1, <1>a DEF Enough
<1>b. ASSUME \A i \in DOMAIN sweeps : ~Mine(i) PROVE UNCHANGED Moved
  BY <1>b, MovedStep
<1>2. CASE Outside
  <2>1. UNCHANGED <<pc, amount, current>>
    BY <1>2, OutsideLeaves DEF local
  <2>2. ASSUME NEW i \in DOMAIN sweeps, Mine(i) PROVE Enough'
    <3>1. pc \in InFlight /\ i = current /\ sweeps[i].tx = "pending"
      BY <1>0, <2>2, NothingPending, MinedRow
    <3>2. Going = sweeps[i].amount
      BY <3>1 DEF Going, InFlight
    <3>3. \/ UNCHANGED Moved /\ sweeps'[i].tx = "reverted"
          \/ Moved' = Moved + sweeps[i].amount /\ sweeps'[i].tx = "mined"
      BY <2>2, MinedMoves DEF Real
    <3>4. Going' = 0
      BY <2>1, <3>1, <3>3 DEF Going, InFlight
    <3>5. Moved' <= Moved + Going
      BY <1>0, <1>1, <3>2, <3>3
    <3>6. Moved' <= CreditedSum
      BY <1>0, <1>1, <3>5
    <3>7. Moved' <= CreditedSum' /\ Moved' \in Int
      BY <1>0, <3>6
    <3>8. \A m, g, c \in Int : g = 0 /\ m <= c => m + g <= c
      OBVIOUS
    <3>9. Going' \in Int /\ Moved' \in Int /\ CreditedSum' \in Int
      BY <1>0, <3>4
    <3>10. Moved' + Going' <= CreditedSum'
      BY <3>4, <3>7, <3>8, <3>9, Zenon
    <3> QED  BY <3>10 DEF Enough
  <2>3. CASE UNCHANGED sweeps /\ \A i \in DOMAIN sweeps : ~Mine(i)
    <3>1. Going' = Going
      BY <2>1, <2>3 DEF Going
    <3> QED  BY <1>a, <1>b, <2>3, <3>1
  <2> QED  BY <1>2, <2>2, <2>3, OutsideLeaves
<1>3. CASE AtRest
  <2>1. UNCHANGED Moved /\ pc' \notin InFlight
    BY <1>3, AtRestStays, TokensStay DEF Moved
  <2>2. CASE pc' # "create"
    <3>1. Going' = 0
      BY <2>1, <2>2 DEF Going
    <3> QED  BY <1>a, <2>1, <3>1
  <2>3. ASSUME NEW n \in Nat, Sweep(n), Moved + n <= CreditedSum PROVE Enough'
    <3>1. Going' = 0 \/ Going' = n
      <4>1. pc' = "create" => amount' = n
        BY <2>3, SweepGoes DEF Sweep, NextToken, Idle
      <4> QED  BY <2>1, <4>1 DEF Going
    <3> QED  BY <1>0, <2>1, <2>3, <3>1 DEF Enough
  <2>4. CASE FlagExcess \/ HoldExcess \/ NoExcess
    <3>1. pc \in Deciding /\ Sweep(Booked)
      BY <2>4 DEF FlagExcess, HoldExcess, NoExcess, Deciding
    <3>2. Booked \in Nat
      BY DecisionTypes
    <3>3. Moved + Booked <= CreditedSum
      BY <3>1, <3>2, BookedFits
    <3> QED  BY <2>3, <3>1, <3>2, <3>3
  <2>5. CASE RereadTotals
    <3> DEFINE n == Lesser(read, Expected(creditedTotal, sweptTotal))
    <3>1. pc = "rereadTotals" /\ pc \in Deciding /\ Sweep(n)
      BY <2>5 DEF RereadTotals, Deciding, Falling
    <3>2. n \in Nat
      BY DecisionTypes
    <3>3. n <= read
      <4>1. read \in Nat /\ Expected(creditedTotal, sweptTotal) \in Nat
        BY DEF TypeInv, CallTypes, BookTypes, Expected
      <4> QED  BY <4>1 DEF Lesser
    <3> HIDE DEF n
    <3>4. Moved + n <= CreditedSum
      BY <3>1, <3>2, <3>3, BookedFits
    <3> QED  BY <2>3, <3>1, <3>2, <3>4
  <2>6. CASE \/ Tick \/ ForceSweep \/ RecordReconciled \/ ReconcileUnknown \/ LoadDoc \/ SumLedgers
             \/ WriteTotals \/ CreateFallback \/ FlipFallback \/ CountFallback
    <3>1. pc' # "create"
      BY <2>6 DEF Tick, ForceSweep, StartPass, RecordReconciled, ReconcileUnknown, LoadDoc, SumLedgers,
         WriteTotals, CreateFallback, FlipFallback, CountFallback
    <3> QED  BY <2>2, <3>1
  <2>7. CASE ReadBalance \/ OutOfRows \/ RecordSweep
    <3>1. pc' # "create"
      BY <1>0, <2>7, LastToken DEF ReadBalance, OutOfRows, RecordSweep, Idle
    <3> QED  BY <2>2, <3>1
  <2> QED  BY <1>3, <2>4, <2>5, <2>6, <2>7 DEF AtRest
<1>4. CASE ReconcileConfirmed \/ ReconcileFailed
  <2>1. UNCHANGED <<load, moved>> /\ pc' \in {"recordReconciled", "reconcile"}
    BY <1>4 DEF ReconcileConfirmed, ReconcileFailed, chain
  <2>2. Going' = 0 /\ UNCHANGED Moved
    BY <2>1, TokensStay DEF Going, InFlight, Moved
  <2> QED  BY <1>a, <2>2
<1>5. CASE CreateSweep
  <2>1. UNCHANGED <<load, moved>> /\ pc = "create" /\ pc' = "send" /\ sweeps'[current'].amount = amount
        /\ sweeps'[current'].tx = "none"
    BY <1>5, RowCreated DEF CreateSweep, chain, TypeInv, WorldTypes
  <2>2. Going' = Going /\ UNCHANGED Moved
    BY <2>1, TokensStay DEF Going, InFlight, Moved
  <2> QED  BY <1>a, <2>2
<1>6. CASE Send \/ SaveHash \/ WaitMined \/ WaitReverted
  <2>1. /\ UNCHANGED <<load, moved>> /\ pc \in InFlight /\ pc' # "create"
        /\ pc' \in InFlight => UNCHANGED current
    BY <1>0, <1>6, LastToken DEF Send, SaveHash, WaitMined, WaitReverted, InFlight, Idle, chain, local
  <2>2. /\ sweeps'[current].amount = sweeps[current].amount
        /\ sweeps'[current].tx \in {"none", "pending"} => sweeps[current].tx \in {"none", "pending"}
    BY <1>6, CurrentRow DEF SameBut, KeepsRows, Real, Unsent, Send
  <2>3. Going' = Going \/ Going' = 0
    BY <2>1, <2>2 DEF Going, InFlight
  <2>4. UNCHANGED Moved
    BY <2>1, TokensStay DEF Moved
  <2> QED  BY <1>a, <2>3, <2>4
<1>7. CASE WaitUnconfirmed
  <2>1. UNCHANGED <<load, moved>> /\ pc' = "idle"
    BY <1>0, <1>7, LastToken DEF WaitUnconfirmed, Idle, chain
  <2>2. Going' = 0 /\ UNCHANGED Moved
    BY <2>1, TokensStay DEF Going, InFlight, Moved
  <2> QED  BY <1>a, <2>2
<1> QED  BY <1>2, <1>3, <1>4, <1>5, <1>6, <1>7, SweeperParts

LEMMA SoloStep ==
  ASSUME IInv, [Next]_vars, Whole'
  PROVE  Solo'
<1>1. Whole /\ ~Crash /\ (Outside \/ Sweeper \/ ForceSweep)
  BY WholeParts DEF IInv
<1> QED  BY <1>1, SettledStep, DecidedStep, FallsBackStep, EnoughStep DEF IInv, Solo

LEMMA SoloInit ==
  ASSUME Init
  PROVE  Solo
<1>1. DOMAIN sweeps = {} /\ TypeInv
  <2>1. sweeps = << >>
    BY DEF Init
  <2> QED  BY <2>1, TypeInit
<1>a. Moved = 0
  <2>1. Blocks(Assets, moved) = {}
    BY DEF Init, Blocks, Block
  <2> QED  BY <2>1, SumOfBlocks, FS_EmptySet DEF Moved
<1>2. CreditedSum \in Nat /\ Going = 0
  BY <1>1, LedgerSums DEF Going, InFlight, Init
<1>3. Settled /\ Decided /\ FallsBack
  BY <1>1 DEF Init, Settled, Decided, FallsBack, Deciding, Falling
<1> QED  BY <1>a, <1>2, <1>3 DEF Solo, Enough

LEMMA Inductive == Spec => []IInv
<1>1. Init => IInv
  BY TypeInit, RealInit, SoloInit DEF IInv
<1>2. IInv /\ [Next]_vars => IInv'
  <2> SUFFICES ASSUME IInv, [Next]_vars PROVE IInv'
    OBVIOUS
  <2>1. TypeInv' /\ Real'
    BY TypeStep, RealStep DEF IInv
  <2>2. Whole' => Solo'
    BY SoloStep
  <2> QED  BY <2>1, <2>2 DEF IInv
<1> QED  BY <1>1, <1>2, PTL DEF Spec

-----------------------------------------------------------------------------
(* Theorems *)

(* The rows, the balances and the sweeper's variables have their types, no *)
(* two fallback rows share a key, and the sweeper's row is one that it     *)
(* made, whatever throws or restarts.                                      *)
THEOREM TypeCorrect == Spec => []TypeOK
<1>1. IInv => TypeOK
  BY TypeInvMeans DEF IInv
<1> QED  BY <1>1, Inductive, PTL

(* recomputeTotals never finds, and a pass never decides on, more sweeps   *)
(* than the chain made: on any address, with any faults and restarts.      *)
THEOREM SweptIsReal == Spec => []SweptNeverOverstated
<1>1. IInv => SweptNeverOverstated
  <2> SUFFICES ASSUME IInv PROVE SweptNeverOverstated
    OBVIOUS
  <2>1. SweptSum <= Moved
    BY ConfirmedWithin DEF IInv, Real
  <2>2. pc \in {"readBalance", "decide"} => doc.swept <= Moved
    BY DEF IInv, Real, CopyHolds
  <2> QED  BY <2>1, <2>2 DEF SweptNeverOverstated
<1> QED  BY <1>1, Inductive, PTL

(* The money safety invariant of depositAddress.model.ts, of an address    *)
(* that holds one asset, while no call throws, nothing restarts and, on    *)
(* Tron, no polling window of confirmTronTx ends before its transaction is *)
(* seen: whatever arrives, is credited, is booked from the balance, is     *)
(* forced or is recovered by hand between any two awaits of a pass,        *)
(* nothing uncredited is swept.                                            *)
THEOREM OnlyCreditedSwept == Spec => []SweepsOnlyCredited
<1>1. IInv => SweepsOnlyCredited
  <2> SUFFICES ASSUME IInv, Whole PROVE NeverSweepUncredited
    BY DEF SweepsOnlyCredited, Whole
  <2>1. CreditedSum \in Nat /\ Moved \in Nat /\ Solo /\ TypeInv
    BY LedgerSums DEF IInv
  <2>2. Going \in Nat
    <3>1. pc \in InFlight => sweeps[current] \in Sweeps
      BY <2>1, RowFacts DEF TypeInv, CallTypes, InFlight, Sending
    <3> QED  BY <2>1, <3>1 DEF Going, Sweeps, TypeInv, CallTypes
  <2>3. Moved <= CreditedSum
    BY <2>1, <2>2 DEF Solo, Enough
  <2> SUFFICES ASSUME NEW a \in Assets PROVE moved[a] <= CreditedIn({a})
    BY DEF NeverSweepUncredited
  <2>4. Assets = {a}
    BY <2>1, LoadFacts DEF TypeInv, WorldTypes, Whole, OneAsset, Assets
  <2>5. moved[a] \in Nat /\ \A x \in {a} : moved[x] \in Nat
    BY <2>1 DEF TypeInv, ChainTypes
  <2>6. SumOver({a}, moved) = SumOver({a} \ {a}, moved) + moved[a]
    BY <2>5, FS_Singleton, SumSplits
  <2>7. SumOver({a} \ {a}, moved) = 0
    BY SumOfNone
  <2>8. Moved = moved[a]
    BY <2>4, <2>5, <2>6, <2>7 DEF Moved
  <2> QED  BY <2>3, <2>4, <2>8 DEF CreditedSum
<1> QED  BY <1>1, Inductive, PTL
=============================================================================
