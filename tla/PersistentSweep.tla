--------------------------- MODULE PersistentSweep ---------------------------
(***************************************************************************)
(* The sweeper of persistentSweep.service.ts on one permanent deposit      *)
(* address: it reconciles earlier sweeps with the chain, recomputes the    *)
(* running totals from the ledgers, and moves what the money safety        *)
(* invariant of depositAddress.model.ts allows to the treasury.  One pass  *)
(* over an address runs at a time (inFlight), but deposits arrive,         *)
(* scanners credit them and transactions are mined between any two of its  *)
(* awaits, calls throw, and the process may crash.                         *)
(*                                                                         *)
(* The credit path is DepositCredit; here a credit is its two visible      *)
(* steps, the row becoming "credited" and the later increment of           *)
(* creditedTotal.  Every transfer moves one unit, more than the dust limit.*)
(***************************************************************************)
EXTENDS Integers, Sequences, FiniteSets

CONSTANTS
  Transfers,
  Stablecoins,
  Fallback,       \* DEPOSIT_BALANCE_FALLBACK
  FallbackChains, \* DEPOSIT_BALANCE_FALLBACK_CHAINS
  Batch,          \* how many addresses a tick takes
  MaxRows,        \* bound: sweep rows
  Loads           \* the address, and what may happen, how often, in one behaviour

Networks == {"bep20", "trc20"}

(* The assets in the order sweepOne takes them, the asset each transfer    *)
(* moves, the other active addresses, and how many sweeps, calls that      *)
(* throw, restarts, recoverFromAddress calls of an admin, and Tron polling *)
(* windows that end before their transaction is seen there may be.         *)
ASSUME SweepAssumption ==
  /\ IsFiniteSet(Transfers) /\ Batch \in Nat \ {0} /\ MaxRows \in Nat
  /\ Fallback \in BOOLEAN /\ FallbackChains \subseteq Networks
  /\ Loads \subseteq [network : Networks, tokens : Seq(Stablecoins),
                      asset : [Transfers -> Stablecoins], sweeps : 0..MaxRows,
                      others : Nat, faults : Nat, crashes : Nat, recoveries : Nat,
                      windows : Nat]
  /\ \A l \in Loads : /\ Len(l.tokens) > 0 /\ l.tokens[1] = "USDT"
                      /\ \A t \in Transfers : \E k \in DOMAIN l.tokens : l.tokens[k] = l.asset[t]

VARIABLES
  row,            \* row[t]: "away"; "arrived", perhaps with a credit row; "flipped",
                  \* credited and still to be counted; "credited"
  fallback,       \* credit rows made from the balance: [key, amount, asset, status]
  creditedTotal, sweptTotal, unexplained,   \* the address row
  balance,        \* balance[a]: what the address holds on chain
  moved,          \* moved[a]: what sweeps have taken off the address on chain
  sweeps,         \* deposit_sweeps rows, with the fate of their transaction
  pc,             \* the await the sweeper is at
  queue,          \* sweeps its reconciliation has still to look at
  doc,            \* its copy of the address row
  step,           \* index into Tokens
  read,           \* the balance it read
  amount,         \* the amount it decided to sweep or to credit
  current,        \* the sweep row it works on
  ahead,          \* other addresses with an older lastSweepAt, or none
  budget,
  load

Network == load.network
Tokens == load.tokens
Asset == load.asset
MaxSweeps == load.sweeps

books == <<creditedTotal, sweptTotal, unexplained>>
chain == <<balance, moved>>
local == <<queue, doc, step, read, amount, current>>
credits == <<row, fallback>>
vars == <<credits, books, chain, sweeps, pc, local, ahead, budget, load>>

Assets == {Tokens[k] : k \in DOMAIN Tokens}
NoDoc == [credited |-> 0, swept |-> 0, unexplained |-> FALSE]
Lesser(m, n) == IF m < n THEN m ELSE n
Counted == {"flipped", "credited"}      \* the row's status in the ledger is "credited"

(* The sum of f over S, as the number of units it is made of. *)
SumOver(S, f) == Cardinality(UNION {{x} \X (1..f[x]) : x \in S})
Amounts == [i \in DOMAIN sweeps |-> sweeps[i].amount]
Confirmed == {i \in DOMAIN sweeps : sweeps[i].status = "confirmed"}

(* What the ledger says is credited in the assets of A. *)
CreditedIn(A) ==
  Cardinality({t \in Transfers : row[t] \in Counted /\ Asset[t] \in A})
    + SumOver({f \in fallback : f.status \in Counted /\ f.asset \in A},
              [f \in fallback |-> f.amount])

(* A mistake to find: sweeps still in flight count as made. *)
SweptSumEarly ==
  SumOver({i \in DOMAIN sweeps : sweeps[i].status # "failed"}, Amounts)

(* The two ledger sums recomputeTotals takes. *)
CreditedSum == CreditedIn(Assets)
SweptSum == SumOver(Confirmed, Amounts)

Init ==
  /\ load \in Loads
  /\ ahead \in 0..load.others
  /\ row = [t \in Transfers |-> "away"]
  /\ fallback = {}
  /\ creditedTotal = 0 /\ sweptTotal = 0 /\ unexplained = FALSE
  /\ balance = [a \in Assets |-> 0]
  /\ moved = [a \in Assets |-> 0]
  /\ sweeps = << >>
  /\ pc = "idle"
  /\ queue = {} /\ doc = NoDoc /\ step = 1 /\ read = 0 /\ amount = 0 /\ current = 0
  /\ budget = [faults |-> 0, crashes |-> 0, recoveries |-> 0, windows |-> 0]

Spend(k) == budget[k] < load[k] /\ budget' = [budget EXCEPT ![k] = @ + 1]

-----------------------------------------------------------------------------
(* The chain and the credit path *)

Arrive(t) ==
  /\ row[t] = "away"
  /\ row' = [row EXCEPT ![t] = "arrived"]
  /\ balance' = [balance EXCEPT ![Asset[t]] = @ + 1]
  /\ UNCHANGED <<load, ahead, fallback, books, moved, sweeps, pc, local, budget>>

(* finalizeCredit, by a scanner: the row first, the running total later.   *)
FlipCredit(t) ==
  /\ row[t] = "arrived"
  /\ row' = [row EXCEPT ![t] = "flipped"]
  /\ UNCHANGED <<load, ahead, fallback, books, chain, sweeps, pc, local, budget>>

IncTotal(t) ==
  /\ row[t] = "flipped"
  /\ row' = [row EXCEPT ![t] = "credited"]
  /\ creditedTotal' = creditedTotal + 1
  /\ unexplained' = FALSE
  /\ UNCHANGED <<load, ahead, fallback, sweptTotal, chain, sweeps, pc, local, budget>>

WithStatus(f, status) == (fallback \ {f}) \union {[f EXCEPT !.status = status]}

(* retryPendingCredits finds rows the balance fallback left "detected". *)
RetryFlip(f) ==
  /\ f.status = "detected"
  /\ fallback' = WithStatus(f, "flipped")
  /\ UNCHANGED <<load, ahead, row, books, chain, sweeps, pc, local, budget>>

RetryInc(f) ==
  /\ f.status = "flipped"
  /\ fallback' = WithStatus(f, "credited")
  /\ creditedTotal' = creditedTotal + f.amount
  /\ unexplained' = FALSE
  /\ UNCHANGED <<load, ahead, row, sweptTotal, chain, sweeps, pc, local, budget>>

(* Transactions of one address are mined in nonce order; a transfer of     *)
(* more than the address holds reverts.                                    *)
Mine(i) ==
  LET s == sweeps[i] IN
    /\ s.tx = "pending"
    /\ \A j \in 1..(i - 1) : sweeps[j].tx # "pending"
    /\ IF s.amount <= balance[s.asset]
         THEN /\ balance' = [balance EXCEPT ![s.asset] = @ - s.amount]
              /\ moved' = [moved EXCEPT ![s.asset] = @ + s.amount]
              /\ sweeps' = [sweeps EXCEPT ![i].tx = "mined"]
         ELSE /\ sweeps' = [sweeps EXCEPT ![i].tx = "reverted"]
              /\ UNCHANGED <<balance, moved>>
    /\ UNCHANGED <<load, ahead, credits, books, pc, local, budget>>

-----------------------------------------------------------------------------
(* reconcileBroadcastSweeps *)

(* A mistake to find: "failed" is taken to be final. *)
UnsettledBroadcast == {i \in DOMAIN sweeps : sweeps[i].status = "broadcast" /\ sweeps[i].hash}

Unsettled == {i \in DOMAIN sweeps : sweeps[i].status \in {"broadcast", "failed"} /\ sweeps[i].hash}

(* sweepOne enters through the inFlight guard and loads the rows to settle. *)
StartPass ==
  /\ pc = "idle"
  /\ pc' = "reconcile"
  /\ queue' = Unsettled
  /\ UNCHANGED <<load, ahead, credits, books, chain, sweeps, doc, step, read, amount, current,
                 budget>>

(* The timer takes the addresses whose last sweep is the oldest, first     *)
(* those never swept; without the fallback it passes over one that the     *)
(* cached totals show as settled.                                          *)
Candidate ==
  /\ ahead < Batch
  /\ Fallback \/ creditedTotal > sweptTotal \/ unexplained

(* One of them is swept, and is behind this address then. *)
OtherSwept ==
  /\ ahead > 0
  /\ ahead' = ahead - 1
  /\ UNCHANGED <<load, credits, books, chain, sweeps, pc, local, budget>>

Tick == Candidate /\ StartPass

(* forceSweepAddress looks at any address. *)
ForceSweep == StartPass

Oldest(S) == CHOOSE i \in S : \A j \in S : i <= j

(* A mistake to find: any receipt is taken for success. *)
ReconcileAnyReceipt ==
  /\ pc = "reconcile" /\ queue # {}
  /\ sweeps[Oldest(queue)].tx \in {"mined", "reverted"}
  /\ sweeps' = [sweeps EXCEPT ![Oldest(queue)].status = "confirmed"]
  /\ pc' = "recordReconciled"
  /\ UNCHANGED <<load, ahead, credits, books, chain, local, budget>>

(* A receipt says it succeeded.  The row was a snapshot, but only this     *)
(* loop settles rows of earlier sweeps.                                    *)
ReconcileConfirmed ==
  /\ pc = "reconcile" /\ queue # {}
  /\ sweeps[Oldest(queue)].tx = "mined"
  /\ sweeps' = [sweeps EXCEPT ![Oldest(queue)].status = "confirmed"]
  /\ pc' = "recordReconciled"
  /\ UNCHANGED <<load, ahead, credits, books, chain, local, budget>>

(* recordSweepTotals: the total, and lastSweepAt. *)
RecordTotals(n) == sweptTotal' = sweptTotal + n /\ ahead' = load.others

RecordReconciled ==
  /\ pc = "recordReconciled"
  /\ RecordTotals(sweeps[Oldest(queue)].amount)
  /\ queue' = queue \ {Oldest(queue)}
  /\ pc' = "reconcile"
  /\ UNCHANGED <<load, credits, creditedTotal, unexplained, chain, sweeps, doc, step, read, amount,
                 current, budget>>

(* It reverted; or, on Tron, the polling window ends before a transaction  *)
(* is seen that is pending, or mined and not indexed or not readable yet,  *)
(* which confirmTronTx reports the same way.                               *)
ReconcileFailed ==
  /\ pc = "reconcile" /\ queue # {}
  /\ \/ sweeps[Oldest(queue)].tx = "reverted" /\ UNCHANGED budget
     \/ Network = "trc20" /\ sweeps[Oldest(queue)].tx = "pending" /\ UNCHANGED budget
     \/ Network = "trc20" /\ sweeps[Oldest(queue)].tx = "mined" /\ Spend("windows")
  /\ sweeps' = [sweeps EXCEPT ![Oldest(queue)].status = "failed"]
  /\ queue' = queue \ {Oldest(queue)}
  /\ UNCHANGED <<load, ahead, credits, books, chain, pc, doc, step, read, amount, current>>

(* On BSC there is no receipt while the transaction is pending, or it      *)
(* cannot be read: the row is left for a later pass.                       *)
ReconcileUnknown ==
  /\ pc = "reconcile" /\ queue # {} /\ Network = "bep20"
  /\ \/ sweeps[Oldest(queue)].tx = "pending" /\ UNCHANGED budget
     \/ sweeps[Oldest(queue)].tx \in {"mined", "reverted"} /\ Spend("faults")
  /\ queue' = queue \ {Oldest(queue)}
  /\ UNCHANGED <<load, ahead, credits, books, chain, sweeps, pc, doc, step, read, amount, current>>

-----------------------------------------------------------------------------
(* recomputeTotals *)

LoadDoc ==
  /\ pc = "reconcile" /\ queue = {}
  /\ doc' = [credited |-> creditedTotal, swept |-> sweptTotal, unexplained |-> unexplained]
  /\ pc' = "sumLedgers"
  /\ UNCHANGED <<load, ahead, credits, books, chain, sweeps, queue, step, read, amount, current,
                 budget>>

(* Both ledgers are read and summed; the copy takes the sums. *)
SumLedgers ==
  /\ pc = "sumLedgers"
  /\ doc' = [doc EXCEPT !.credited = CreditedSum, !.swept = SweptSum]
  /\ pc' = IF doc.credited # CreditedSum \/ doc.swept # SweptSum
             THEN "writeTotals" ELSE "readBalance"
  /\ step' = 1
  /\ UNCHANGED <<load, ahead, credits, books, chain, sweeps, queue, read, amount, current, budget>>

(* A mistake to find: the sums correct the copy, not the row. *)
WriteCopyOnly ==
  /\ pc = "writeTotals"
  /\ pc' = "readBalance"
  /\ UNCHANGED <<load, ahead, credits, books, chain, sweeps, local, budget>>

(* The write happens later; an increment that lands in between is lost, or *)
(* one that lands after it counts twice, until the next pass.              *)
WriteTotals ==
  /\ pc = "writeTotals"
  /\ creditedTotal' = doc.credited
  /\ sweptTotal' = doc.swept
  /\ pc' = "readBalance"
  /\ UNCHANGED <<load, ahead, credits, unexplained, chain, sweeps, local, budget>>

-----------------------------------------------------------------------------
(* sweepEvmToken and sweepTron, up to the decision *)

Idle ==
  /\ pc' = "idle"
  /\ queue' = {} /\ doc' = NoDoc /\ step' = 1 /\ read' = 0 /\ amount' = 0 /\ current' = 0

(* On to the next token, with the same copy of the address row. *)
NextToken ==
  \/ /\ step = Len(Tokens)
     /\ Idle
  \/ /\ step < Len(Tokens)
     /\ pc' = "readBalance" /\ step' = step + 1
     /\ read' = 0 /\ amount' = 0 /\ current' = 0
     /\ UNCHANGED <<queue, doc>>

ReadBalance ==
  /\ pc = "readBalance"
  /\ IF balance[Tokens[step]] = 0
       THEN NextToken
       ELSE /\ read' = balance[Tokens[step]]
            /\ pc' = "decide"
            /\ UNCHANGED <<queue, doc, step, amount, current>>
  /\ UNCHANGED <<load, ahead, credits, books, chain, sweeps, budget>>

Expected(credited, swept) == IF credited > swept THEN credited - swept ELSE 0

(* sweepableAmount's result n; nothing to move goes on to the next token. *)
Sweep(n) ==
  IF n = 0 THEN NextToken
  ELSE pc' = "create" /\ amount' = n
       /\ UNCHANGED <<queue, doc, step, read, current>>

Excess == read - Expected(doc.credited, doc.swept)
(* A mistake to find: the whole balance is taken to be booked. *)
BookedWhole == read
Booked == Lesser(read, Expected(doc.credited, doc.swept))

(* First sight of an excess: it is flagged and only the booked part moves. *)
FlagExcess ==
  /\ pc = "decide" /\ Excess > 0 /\ ~doc.unexplained
  /\ unexplained' = TRUE
  /\ Sweep(Booked)
  /\ UNCHANGED <<load, ahead, credits, creditedTotal, sweptTotal, chain, sweeps, budget>>

FallbackAllowed == Fallback /\ Network \in FallbackChains
FallbackKey == doc.credited + Excess

(* It was flagged before, but the fallback is off or its delay is running; *)
(* or creditFromBalance finds a row with its key (E11000).                 *)
HoldExcess ==
  /\ pc = "decide" /\ Excess > 0 /\ doc.unexplained
  /\ Sweep(Booked)
  /\ UNCHANGED <<load, ahead, credits, books, chain, sweeps, budget>>

(* A mistake to find: the row's key does not collide with an earlier one. *)
CreateFallbackUnkeyed ==
  /\ pc = "decide" /\ Excess > 0 /\ doc.unexplained /\ FallbackAllowed
  /\ fallback' = fallback \union
       {[key |-> FallbackKey, amount |-> Excess, asset |-> Tokens[step], status |-> "detected"]}
  /\ amount' = Excess
  /\ pc' = "flipFallback"
  /\ UNCHANGED <<load, ahead, row, books, chain, sweeps, queue, doc, step, read, current, budget>>

(* The delay has passed: creditFromBalance writes a row for the excess,    *)
(* under a key made of the credited total it will bring about.             *)
CreateFallback ==
  /\ pc = "decide" /\ Excess > 0 /\ doc.unexplained /\ FallbackAllowed
  /\ \A f \in fallback : f.key # FallbackKey
  /\ fallback' = fallback \union
       {[key |-> FallbackKey, amount |-> Excess, asset |-> Tokens[step], status |-> "detected"]}
  /\ amount' = Excess
  /\ pc' = "flipFallback"
  /\ UNCHANGED <<load, ahead, row, books, chain, sweeps, queue, doc, step, read, current, budget>>

(* finalizeCredit on it; the scanner's retry may have been faster. *)
FlipFallback ==
  \E f \in fallback :
    /\ pc = "flipFallback" /\ f.key = FallbackKey
    /\ IF f.status = "detected"
         THEN fallback' = WithStatus(f, "credited") /\ pc' = "countFallback"
         ELSE pc' = "rereadTotals" /\ UNCHANGED fallback
    /\ UNCHANGED <<load, ahead, row, books, chain, sweeps, local, budget>>

CountFallback ==
  /\ pc = "countFallback"
  /\ creditedTotal' = creditedTotal + amount
  /\ unexplained' = FALSE
  /\ pc' = "rereadTotals"
  /\ UNCHANGED <<load, ahead, credits, sweptTotal, chain, sweeps, local, budget>>

(* The amount follows from the totals read afresh; doc stays as it was. *)
RereadTotals ==
  /\ pc = "rereadTotals"
  /\ Sweep(Lesser(read, Expected(creditedTotal, sweptTotal)))
  /\ UNCHANGED <<load, ahead, credits, books, chain, sweeps, budget>>

NoExcess ==
  /\ pc = "decide" /\ Excess <= 0
  /\ unexplained' = IF doc.unexplained THEN FALSE ELSE unexplained
  /\ Sweep(Booked)
  /\ UNCHANGED <<load, ahead, credits, creditedTotal, sweptTotal, chain, sweeps, budget>>

-----------------------------------------------------------------------------
(* The sweep itself *)

CreateSweep ==
  /\ pc = "create" /\ Len(sweeps) < MaxSweeps
  /\ sweeps' = Append(sweeps, [asset |-> Tokens[step], amount |-> amount,
                               status |-> "broadcast", hash |-> FALSE, tx |-> "none"])
  /\ current' = Len(sweeps) + 1
  /\ pc' = "send"
  /\ UNCHANGED <<load, ahead, credits, books, chain, queue, doc, step, read, amount, budget>>

(* The bound: no row is left, the token is passed over. *)
OutOfRows ==
  /\ pc = "create" /\ Len(sweeps) = MaxSweeps
  /\ NextToken
  /\ UNCHANGED <<load, ahead, credits, books, chain, sweeps, budget>>

Send ==
  /\ pc = "send"
  /\ sweeps' = [sweeps EXCEPT ![current].tx = "pending"]
  /\ pc' = "saveHash"
  /\ UNCHANGED <<load, ahead, credits, books, chain, local, budget>>

SaveHash ==
  /\ pc = "saveHash"
  /\ sweeps' = [sweeps EXCEPT ![current].hash = TRUE]
  /\ pc' = "wait"
  /\ UNCHANGED <<load, ahead, credits, books, chain, local, budget>>

WaitMined ==
  /\ pc = "wait" /\ sweeps[current].tx = "mined"
  /\ sweeps' = [sweeps EXCEPT ![current].status = "confirmed"]
  /\ pc' = "record"
  /\ UNCHANGED <<load, ahead, credits, books, chain, local, budget>>

(* recordSweepTotals; the copy in doc is not updated. *)
RecordSweep ==
  /\ pc = "record"
  /\ RecordTotals(sweeps[current].amount)
  /\ NextToken
  /\ UNCHANGED <<load, credits, creditedTotal, unexplained, chain, sweeps, budget>>

(* ethers throws on a reverted transaction; the row becomes "failed". *)
WaitReverted ==
  /\ pc = "wait" /\ sweeps[current].tx = "reverted" /\ Network = "bep20"
  /\ sweeps' = [sweeps EXCEPT ![current].status = "failed"]
  /\ NextToken
  /\ UNCHANGED <<load, ahead, credits, books, chain, budget>>

(* confirmTronTx did not see it succeed; the row stays "broadcast". *)
WaitUnconfirmed ==
  /\ pc = "wait" /\ sweeps[current].tx = "reverted" /\ Network = "trc20"
  /\ NextToken
  /\ UNCHANGED <<load, ahead, credits, books, chain, sweeps, budget>>

-----------------------------------------------------------------------------
(* Faults *)

(* On Tron the polling window ends before the transaction is mined and     *)
(* indexed; nothing throws, and the row stays "broadcast".                 *)
WaitTooShort ==
  /\ pc = "wait" /\ sweeps[current].tx \in {"pending", "mined"} /\ Network = "trc20"
  /\ Spend("windows")
  /\ NextToken
  /\ UNCHANGED <<load, ahead, credits, books, chain, sweeps>>

(* A call of the try block throws: the node refuses the transaction or its *)
(* answer is lost, the hash is not saved, the confirmation does not come,  *)
(* or an update fails, the increment done or not.  The catch block writes  *)
(* "failed".                                                               *)
SweepThrows ==
  /\ pc \in {"send", "saveHash", "wait", "record"}
  /\ Spend("faults")
  /\ sweeps' = [sweeps EXCEPT ![current].status = "failed"]
  /\ \/ UNCHANGED <<sweptTotal, ahead>>
     \/ pc = "record" /\ RecordTotals(sweeps[current].amount)
  /\ NextToken
  /\ UNCHANGED <<load, credits, creditedTotal, unexplained, chain>>

(* An unreadable balance, no gas, a missing treasury: this token is left   *)
(* for the next tick.                                                      *)
SkipToken ==
  /\ pc \in {"readBalance", "create"}
  /\ Spend("faults")
  /\ NextToken
  /\ UNCHANGED <<load, ahead, credits, books, chain, sweeps>>

(* finalizeCredit defers, or an error in the fallback is caught, also of   *)
(* the read after it: only what was booked before moves.                   *)
FallbackDeferred ==
  /\ pc \in {"flipFallback", "countFallback", "rereadTotals"}
  /\ Spend("faults")
  /\ Sweep(Booked)
  /\ UNCHANGED <<load, ahead, credits, books, chain, sweeps>>

(* Any other call throws; sweepOne catches it and the pass ends. *)
PassThrows ==
  /\ pc \in {"reconcile", "recordReconciled", "sumLedgers", "writeTotals", "decide", "create"}
  /\ Spend("faults")
  /\ Idle
  /\ UNCHANGED <<load, ahead, credits, books, chain, sweeps>>

(* Whoever was to count a flipped credit is gone. *)
Crash ==
  /\ Spend("crashes")
  /\ Idle
  /\ row' = [t \in Transfers |-> IF row[t] = "flipped" THEN "credited" ELSE row[t]]
  /\ fallback' = {IF f.status = "flipped" THEN [f EXCEPT !.status = "credited"] ELSE f :
                    f \in fallback}
  /\ UNCHANGED <<load, ahead, books, chain, sweeps>>

(* recoverFromAddress: an admin moves the USDT balance, or a part of it,   *)
(* anywhere; nothing is booked.                                            *)
Recover ==
  /\ Spend("recoveries")
  /\ \E n \in 1..balance["USDT"] : balance' = [balance EXCEPT !["USDT"] = @ - n]
  /\ UNCHANGED <<load, ahead, credits, books, moved, sweeps, pc, local>>

-----------------------------------------------------------------------------
Sweeper ==
  \/ Tick \/ ReconcileConfirmed \/ RecordReconciled \/ ReconcileFailed
  \/ ReconcileUnknown \/ LoadDoc \/ SumLedgers \/ WriteTotals \/ ReadBalance
  \/ FlagExcess \/ HoldExcess \/ CreateFallback \/ FlipFallback \/ CountFallback
  \/ RereadTotals \/ NoExcess \/ CreateSweep \/ OutOfRows \/ Send \/ SaveHash
  \/ WaitMined \/ RecordSweep \/ WaitReverted \/ WaitUnconfirmed

Next ==
  \/ Sweeper \/ ForceSweep
  \/ \E t \in Transfers : Arrive(t) \/ FlipCredit(t) \/ IncTotal(t)
  \/ \E f \in fallback : RetryFlip(f) \/ RetryInc(f)
  \/ \E i \in DOMAIN sweeps : Mine(i)
  \/ WaitTooShort \/ SweepThrows \/ SkipToken \/ FallbackDeferred \/ PassThrows
  \/ Crash \/ Recover \/ OtherSwept

Spec == Init /\ [][Next]_vars

(* The sweep timer fires, its awaits return, broadcast transactions are    *)
(* mined or revert, and a scanner that flipped a row goes on.  Nobody owes *)
(* a deposit, a credit, a forced sweep, a fault or a recovery, here or at  *)
(* another address.                                                        *)
Fairness ==
  /\ WF_vars(Sweeper)
  /\ \A t \in Transfers : WF_vars(IncTotal(t))
  /\ WF_vars(\E f \in fallback : RetryInc(f))
  /\ WF_vars(\E i \in DOMAIN sweeps : Mine(i))

FairSpec == Spec /\ Fairness

-----------------------------------------------------------------------------
(* Properties *)

Sweeps == [asset : Assets, amount : Nat, status : {"broadcast", "failed", "confirmed"},
           hash : BOOLEAN, tx : {"none", "pending", "mined", "reverted"}]

Credit == [key : Nat, amount : Nat \ {0}, asset : Assets,
           status : {"detected", "flipped", "credited"}]

(* The type invariant of the rows, the chain and the sweeper. *)
TypeOK ==
  /\ row \in [Transfers -> {"away", "arrived", "flipped", "credited"}]
  /\ fallback \subseteq Credit
  /\ \A f, g \in fallback : f.key = g.key => f = g
  /\ creditedTotal \in Nat /\ sweptTotal \in Nat /\ unexplained \in BOOLEAN
  /\ balance \in [Assets -> Nat] /\ moved \in [Assets -> Nat]
  /\ sweeps \in Seq(Sweeps) /\ Len(sweeps) <= MaxSweeps
  /\ pc \in {"idle", "reconcile", "recordReconciled", "sumLedgers", "writeTotals",
             "readBalance", "decide", "flipFallback", "countFallback", "rereadTotals",
             "create", "send", "saveHash", "wait", "record"}
  /\ queue \subseteq DOMAIN sweeps
  /\ doc \in [credited : Nat, swept : Nat, unexplained : BOOLEAN]
  /\ step \in DOMAIN Tokens /\ read \in Nat /\ amount \in Nat
  /\ current \in 0..Len(sweeps)
  /\ load \in Loads /\ ahead \in 0..load.others
  /\ budget \in [faults : Nat, crashes : Nat, recoveries : Nat, windows : Nat]

Moved == SumOver(Assets, moved)

OneAsset == Len(Tokens) = 1

(* Money safety invariant of depositAddress.model.ts: value that was not   *)
(* credited to the user is never swept, of any asset.                      *)
NeverSweepUncredited == \A a \in Assets : moved[a] <= CreditedIn({a})

(* On an address that holds one asset the invariant stands while no call   *)
(* throws, nothing restarts and, on Tron, no polling window ends before    *)
(* its transaction is seen, whatever arrives, is credited late, falls back *)
(* on the balance or is recovered by hand during a pass.  A window that    *)
(* ends breaks it: a sweep that is still pending is marked failed, and the *)
(* next pass sends its amount again.                                       *)
SweepsOnlyCredited ==
  OneAsset /\ budget.faults = 0 /\ budget.crashes = 0 /\ budget.windows = 0
    => NeverSweepUncredited

(* The sweeper never decides on books that claim a sweep the chain did not *)
(* make: whatever was lost, retried, marked failed or counted twice, the   *)
(* confirmed rows, and the total its pass works with, stay within what     *)
(* left the address.                                                       *)
SweptNeverOverstated ==
  /\ SweptSum <= Moved
  /\ pc \in {"readBalance", "decide"} => doc.swept <= Moved

(* As many addresses as a tick takes come before this one: no tick looks   *)
(* at it before one of them is swept.                                      *)
PassedOver == ahead >= Batch

(* "Running this every tick makes the totals self-healing": however an     *)
(* increment raced or was lost, the cached totals come to equal the        *)
(* ledgers and stay equal once deposits stop.                              *)
TotalsHeal == <>[](PassedOver \/ (creditedTotal = CreditedSum /\ sweptTotal = SweptSum))

(* Sweeps that were broadcast and recorded are settled in the books in the *)
(* end, once the chain has settled them, whatever their waiters made of    *)
(* them.                                                                   *)
BroadcastsReconciled ==
  <>[](PassedOver \/
         \A i \in DOMAIN sweeps :
           sweeps[i].hash /\ sweeps[i].tx = "mined" => sweeps[i].status = "confirmed")

(* What was credited is swept in the end, from an address that holds one   *)
(* asset and that the timer comes to, or the address is left empty, by     *)
(* hand or because the fallback credited a transfer a second time.         *)
CreditedIsSwept ==
  \A t \in Transfers :
    (OneAsset /\ row[t] = "credited")
      ~> (PassedOver \/ balance[Asset[t]] = 0 \/ moved[Asset[t]] >= CreditedIn({Asset[t]}))

-----------------------------------------------------------------------------
(* Promises the code does not keep; the README says how each is broken *)

(* The amount the fallback books is exact ("the on-chain balance minus     *)
(* everything already credited"): the user is never credited more than     *)
(* arrived.                                                                *)
CreditedAtMostArrived ==
  CreditedSum <= Cardinality({t \in Transfers : row[t] # "away"})

(* "The sweeper is also a detector, so it must look at every live          *)
(* address": what was credited is swept, however many others there are.    *)
EveryAddressSwept ==
  \A t \in Transfers :
    (OneAsset /\ row[t] = "credited") ~> (moved[Asset[t]] >= CreditedIn({Asset[t]}))

(* The books learn of every sweep that moved money. *)
EverySweepRecorded ==
  \A i \in 1..MaxRows :
    (i \in DOMAIN sweeps /\ sweeps[i].tx = "mined")
      ~> (i \in DOMAIN sweeps /\ sweeps[i].status = "confirmed")
=============================================================================
