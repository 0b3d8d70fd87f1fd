-------------------------- MODULE EphemeralDeposits --------------------------
(***************************************************************************)
(* A deposit to a one-time address: getDepositQRLegacy opens an intent     *)
(* with a fresh address and its encrypted key; the sweepers of             *)
(* ephemeralDepositSweep (BSC) and tronDepositSweep (Tron) find the money, *)
(* credit the user through applyDepositAccounting, send it to the treasury *)
(* and erase the key.  A call is the timer's tick or an admin's forceSweep *)
(* and interleaves with the other, with payments and with the clock at     *)
(* every await.                                                            *)
(*                                                                         *)
(* Every payment is one unit.  The e-mails sent while the window is open,  *)
(* the wallets attributed to the payer and the return of unused TRX leave  *)
(* the money alone and are left out.                                       *)
(***************************************************************************)
EXTENDS Integers, Sequences

CONSTANTS
  Kinds,            \* the intents users ask for: [network, open]
  MaxFundAttempts,  \* TRON_MAX_FUND_ATTEMPTS
  MaxPayments,      \* bound: payments to the address, per network
  MaxSends,         \* bound: sweep transactions
  MaxTroubles,      \* bound: restarts, and calls that throw, time out or find no gas
  MaxForces         \* bound: calls of an admin

ASSUME KindsAssumption == Kinds \subseteq [network : {"bep20", "trc20"}, open : BOOLEAN]
ASSUME EphemeralBoundsAssumption ==
  /\ \A n \in {MaxFundAttempts, MaxSends, MaxTroubles, MaxForces} : n \in Nat
  /\ MaxPayments \in [{"bep20", "trc20"} -> Nat]

VARIABLES
  kind,             \* network, and whether any amount is taken
  intent,           \* the pending_deposits row
  deposit,          \* amount of its deposits row, 0 if there is none
  vaultTotal, userTotal,     \* what was added to the vault's and the user's totals
  windowOpen,       \* now < expiresAt
  balance,          \* what the address holds on chain
  paidInTime,       \* a payment was made within the window
  moved,            \* what reached the treasury
  gas,              \* the address can pay for a transfer
  tx,               \* sweep transactions: [amount, status]
  call,             \* call[c]: [pc, doc, bal, tx]
  budget

books == <<deposit, vaultTotal, userTotal>>
chain == <<balance, paidInTime, moved, tx>>
vars == <<kind, intent, books, windowOpen, chain, gas, call, budget>>

Callers == {"tick", "force"}
NoIntent == [status |-> "none", credited |-> FALSE, key |-> FALSE, hash |-> FALSE,
             received |-> 0, attempts |-> 0, halted |-> FALSE, cooling |-> FALSE]
NoCall == [pc |-> "idle", doc |-> NoIntent, bal |-> 0, tx |-> 0]

Init ==
  /\ kind \in Kinds
  /\ intent = NoIntent
  /\ deposit = 0 /\ vaultTotal = 0 /\ userTotal = 0
  /\ windowOpen = TRUE
  /\ balance = 0 /\ paidInTime = FALSE /\ moved = 0 /\ tx = << >>
  /\ gas = FALSE
  /\ call = [c \in Callers |-> NoCall]
  /\ budget = [faults |-> 0, crashes |-> 0, forces |-> 0]

(* Payments ever made: the chain neither makes money nor loses it. *)
arrived == balance + moved

Trouble(k) ==
  /\ budget.faults + budget.crashes < MaxTroubles
  /\ budget' = [budget EXCEPT ![k] = @ + 1]

-----------------------------------------------------------------------------
(* The user, the clock and the chain *)

(* getDepositQRLegacy; paying for gas in advance may fail. *)
OpenIntent ==
  /\ intent.status = "none"
  /\ intent' = [NoIntent EXCEPT !.status = "pending", !.key = TRUE]
  /\ gas' \in BOOLEAN
  /\ UNCHANGED <<kind, books, windowOpen, chain, call, budget>>

Pay ==
  /\ intent.status # "none" /\ arrived < MaxPayments[kind.network]
  /\ balance' = balance + 1
  /\ paidInTime' = (paidInTime \/ windowOpen)
  /\ UNCHANGED <<kind, intent, books, windowOpen, moved, tx, gas, call, budget>>

CloseWindow ==
  /\ intent.status # "none" /\ windowOpen
  /\ windowOpen' = FALSE
  /\ UNCHANGED <<kind, intent, books, chain, gas, call, budget>>

(* Three minutes have passed since energy was sent. *)
CoolDown ==
  /\ intent.cooling
  /\ intent' = [intent EXCEPT !.cooling = FALSE]
  /\ UNCHANGED <<kind, books, windowOpen, chain, gas, call, budget>>

Mine(i) ==
  /\ tx[i].status = "pending"
  /\ IF tx[i].amount <= balance
       THEN /\ tx' = [tx EXCEPT ![i].status = "mined"]
            /\ balance' = balance - tx[i].amount /\ moved' = moved + tx[i].amount
       ELSE tx' = [tx EXCEPT ![i].status = "reverted"] /\ UNCHANGED <<balance, moved>>
  /\ UNCHANGED <<kind, intent, books, windowOpen, paidInTime, gas, call, budget>>

-----------------------------------------------------------------------------
(* A call *)

At(c, pc) == call[c].pc = pc
Bep(c, pc) == kind.network = "bep20" /\ At(c, pc)
Tron(c, pc) == kind.network = "trc20" /\ At(c, pc)
Doc(c) == call[c].doc
Bal(c) == call[c].bal
Go(c, pc) == call' = [call EXCEPT ![c].pc = pc]
Return(c) == call' = [call EXCEPT ![c] = NoCall]
Store(row) == intent' = row
Keep == UNCHANGED <<kind, books, windowOpen, chain, gas, budget>>

(* A mistake to find: credited rows are not looked at again. *)
LivePending == intent.status = "pending"

(* What the ticks load. *)
Live == intent.status \in {"pending", "credited"}

-----------------------------------------------------------------------------
(* sweepOne, on BSC *)

Ask(c) ==
  IF c = "force" THEN budget.forces < MaxForces /\ budget' = [budget EXCEPT !.forces = @ + 1]
                 ELSE UNCHANGED budget

(* The processing set lets one call at a time work on an intent. *)
BepStart(c) ==
  /\ Bep(c, "idle") /\ Live /\ Ask(c)
  /\ \A o \in Callers : At(o, "idle")
  /\ call' = [call EXCEPT ![c].pc = "balance", ![c].doc = intent]
  /\ UNCHANGED <<kind, intent, books, windowOpen, chain, gas>>

BepReadBalance(c) ==
  /\ Bep(c, "balance")
  /\ call' = [call EXCEPT ![c].pc = "judge", ![c].bal = balance]
  /\ Keep /\ UNCHANGED intent

(* An exact amount is waited for until the window closes; an empty address *)
(* of an open one is looked at again.                                      *)
BepNotYet(c) ==
  /\ Bep(c, "judge")
  /\ windowOpen /\ (~kind.open \/ Bal(c) = 0)
  /\ Return(c)
  /\ Keep /\ UNCHANGED intent

(* The row is written by its id, and holds no payment then. *)
BepExpire(c) ==
  /\ Bep(c, "judge")
  /\ ~windowOpen /\ Bal(c) = 0
  /\ Store(IF Doc(c).status = "pending" THEN [intent EXCEPT !.status = "expired"] ELSE intent)
  /\ Return(c)
  /\ Keep

BepFunded(c) ==
  /\ Bep(c, "judge")
  /\ Bal(c) > 0 /\ (kind.open \/ ~windowOpen)
  /\ Go(c, IF Doc(c).credited THEN "update" ELSE "claim")
  /\ Keep /\ UNCHANGED intent

BepClaim(c) ==
  /\ Bep(c, "claim")
  /\ IF intent.status = "pending" /\ ~intent.credited
       THEN /\ Store([intent EXCEPT !.status = "credited", !.credited = TRUE, !.received = Bal(c)])
            /\ Go(c, "findDeposit")
       ELSE Go(c, "reread") /\ UNCHANGED intent
  /\ Keep

(* A mistake to find: the claim is kept when the accounting failed. *)
BepRevertNothing(c) ==
  /\ Bep(c, "revert")
  /\ Return(c)
  /\ Keep /\ UNCHANGED intent

BepRevert(c) ==
  /\ Bep(c, "revert")
  /\ Store([intent EXCEPT !.status = "pending", !.credited = FALSE])
  /\ Return(c)
  /\ Keep

(* More may have come since: if the payers are found, the row and the      *)
(* deposit take the new balance; the totals do not.                        *)
BepUpdate(c) ==
  /\ Bep(c, "update")
  /\ \/ /\ Store([intent EXCEPT !.received = Bal(c)])
        /\ deposit' = IF deposit > 0 THEN Bal(c) ELSE 0
     \/ UNCHANGED <<intent, deposit>>
  /\ Go(c, "reread")
  /\ UNCHANGED <<kind, vaultTotal, userTotal, windowOpen, chain, gas, budget>>

(* The row is read again for its key, and gas is topped up if need be. *)
BepPrepare(c) ==
  /\ Bep(c, "reread")
  /\ IF intent.key THEN Go(c, "rebalance") /\ gas' = TRUE
                   ELSE Return(c) /\ UNCHANGED gas
  /\ UNCHANGED <<kind, intent, books, windowOpen, chain, budget>>

BepReadAgain(c) ==
  /\ Bep(c, "rebalance")
  /\ IF balance = 0 THEN Return(c)
     ELSE call' = [call EXCEPT ![c].pc = "send", ![c].bal = balance]
  /\ Keep /\ UNCHANGED intent

BepReverted(c) ==
  /\ Bep(c, "wait") /\ tx[call[c].tx].status = "reverted"
  /\ Return(c)
  /\ Keep /\ UNCHANGED intent

BepSettle(c) ==
  /\ Bep(c, "settle")
  /\ Store([intent EXCEPT !.status = "matched", !.hash = TRUE, !.key = FALSE])
  /\ Return(c)
  /\ Keep

-----------------------------------------------------------------------------
(* applyDepositAccounting, for both networks *)

AfterCredit(c) == Go(c, IF kind.network = "bep20" THEN "reread" ELSE "markCredited")

FindDeposit(c) ==
  /\ At(c, "findDeposit")
  /\ IF deposit > 0 THEN AfterCredit(c) ELSE Go(c, "create")
  /\ Keep /\ UNCHANGED intent

(* A mistake to find: pendingRequestId is not unique. *)
CreateDepositTwice(c) ==
  /\ At(c, "create")
  /\ deposit' = Bal(c) /\ Go(c, "incVault")
  /\ UNCHANGED <<kind, intent, vaultTotal, userTotal, windowOpen, chain, gas, budget>>

(* The unique pendingRequestId: whoever comes second does nothing. *)
CreateDeposit(c) ==
  /\ At(c, "create")
  /\ IF deposit = 0 THEN deposit' = Bal(c) /\ Go(c, "incVault")
                    ELSE AfterCredit(c) /\ UNCHANGED deposit
  /\ UNCHANGED <<kind, intent, vaultTotal, userTotal, windowOpen, chain, gas, budget>>

IncVault(c) ==
  /\ At(c, "incVault")
  /\ vaultTotal' = vaultTotal + Bal(c)
  /\ Go(c, "incUser")
  /\ UNCHANGED <<kind, intent, deposit, userTotal, windowOpen, chain, gas, budget>>

IncUser(c) ==
  /\ At(c, "incUser")
  /\ userTotal' = userTotal + Bal(c)
  /\ Go(c, "activity")
  /\ UNCHANGED <<kind, intent, deposit, vaultTotal, windowOpen, chain, gas, budget>>

LogActivity(c) ==
  /\ At(c, "activity")
  /\ AfterCredit(c)
  /\ Keep /\ UNCHANGED intent

-----------------------------------------------------------------------------
(* processOne, on Tron *)

Retirable ==
  intent.status = "pending" /\ ~windowOpen /\ ~intent.credited /\ intent.received = 0

(* The tick retires what expired unpaid, judged by the row alone, then     *)
(* loads the rest.                                                         *)
TronTick ==
  /\ Tron("tick", "idle") /\ Live
  /\ Store(IF Retirable THEN [intent EXCEPT !.status = "expired"] ELSE intent)
  /\ Go("tick", "load")
  /\ Keep

(* forceSweep turns away a matched intent only, and lifts the funding cap. *)
TronForce ==
  /\ Tron("force", "idle") /\ intent.status \notin {"none", "matched"} /\ Ask("force")
  /\ Store([intent EXCEPT !.attempts = 0, !.halted = FALSE, !.cooling = FALSE])
  /\ Go("force", "load")
  /\ UNCHANGED <<kind, books, windowOpen, chain, gas>>

(* The tick's query leaves expired rows out; the admin's has no condition. *)
TronLoad(c) ==
  /\ Tron(c, "load")
  /\ IF c = "tick" /\ ~Live THEN Return(c)
     ELSE call' = [call EXCEPT ![c].pc = "balance", ![c].doc = intent]
  /\ Keep /\ UNCHANGED intent

TronReadBalance(c) ==
  /\ Tron(c, "balance")
  /\ IF balance = 0 THEN Return(c)
     ELSE call' = [call EXCEPT ![c].pc = IF Doc(c).credited THEN "energy" ELSE "findDeposit",
                               ![c].bal = balance]
  /\ Keep /\ UNCHANGED intent

TronMarkCredited(c) ==
  /\ Tron(c, "markCredited")
  /\ Store([intent EXCEPT !.status = "credited", !.credited = TRUE, !.received = Bal(c)])
  /\ Go(c, "energy")
  /\ Keep

TronReady(c) ==
  /\ Tron(c, "energy") /\ Doc(c).key /\ gas
  /\ Go(c, "send")
  /\ Keep /\ UNCHANGED intent

(* It has too little TRX; or, at any time, its balance cannot be read and  *)
(* is taken for none.                                                      *)
NeedsEnergy(c) == Tron(c, "energy") /\ Doc(c).key

Cooling(c) == Doc(c).cooling /\ intent.cooling

(* The row as it was loaded has no key, or energy may not be paid for now. *)
TronHold(c) ==
  /\ Tron(c, "energy")
  /\ ~Doc(c).key \/ (NeedsEnergy(c) /\ (Doc(c).halted \/ Cooling(c)))
  /\ Return(c)
  /\ Keep /\ UNCHANGED intent

TronHaltFunding(c) ==
  /\ NeedsEnergy(c) /\ ~Doc(c).halted /\ ~Cooling(c)
  /\ Doc(c).attempts >= MaxFundAttempts
  /\ Store([intent EXCEPT !.halted = TRUE])
  /\ Return(c)
  /\ Keep

(* A mistake to find: the attempts are not limited. *)
TronFundUncapped(c) ==
  /\ NeedsEnergy(c) /\ ~Doc(c).halted /\ ~Cooling(c)
  /\ gas' = TRUE
  /\ Go(c, "noteFunding")
  /\ UNCHANGED <<kind, intent, books, windowOpen, chain, budget>>

TronFundEnergy(c) ==
  /\ NeedsEnergy(c) /\ ~Doc(c).halted /\ ~Cooling(c)
  /\ Doc(c).attempts < MaxFundAttempts
  /\ gas' = TRUE
  /\ Go(c, "noteFunding")
  /\ UNCHANGED <<kind, intent, books, windowOpen, chain, budget>>

TronNoteFunding(c) ==
  /\ Tron(c, "noteFunding")
  /\ Store([intent EXCEPT !.cooling = TRUE, !.attempts = Doc(c).attempts + 1])
  /\ Return(c)
  /\ Keep

TronSaveHash(c) ==
  /\ Tron(c, "saveHash")
  /\ Store([intent EXCEPT !.hash = TRUE])
  /\ Go(c, "wait")
  /\ Keep

(* confirmTronTx finds that it reverted. *)
TronReverted(c) ==
  /\ Tron(c, "wait") /\ tx[call[c].tx].status = "reverted"
  /\ Return(c)
  /\ Keep /\ UNCHANGED intent

TronSettle(c) ==
  /\ Tron(c, "settle")
  /\ Store([intent EXCEPT !.status = "matched", !.key = FALSE])
  /\ Return(c)
  /\ Keep

-----------------------------------------------------------------------------
(* The transfer to the treasury *)

(* On Tron the energy is spent. *)
Send(c) ==
  /\ At(c, "send") /\ Len(tx) < MaxSends
  /\ tx' = Append(tx, [amount |-> Bal(c), status |-> "pending"])
  /\ call' = [call EXCEPT ![c].tx = Len(tx) + 1,
                          ![c].pc = IF kind.network = "bep20" THEN "wait" ELSE "saveHash"]
  /\ gas' = (gas /\ kind.network = "bep20")
  /\ UNCHANGED <<kind, intent, books, windowOpen, balance, paidInTime, moved, budget>>

(* The bound: the call gives up. *)
OutOfSends(c) ==
  /\ At(c, "send") /\ Len(tx) = MaxSends
  /\ Return(c)
  /\ Keep /\ UNCHANGED intent

(* A mistake to find: a transfer that was sent is taken for made. *)
SettleOnBroadcast(c) ==
  /\ At(c, "wait")
  /\ Go(c, "settle")
  /\ Keep /\ UNCHANGED intent

WaitMined(c) ==
  /\ At(c, "wait") /\ tx[call[c].tx].status = "mined"
  /\ Go(c, "settle")
  /\ Keep /\ UNCHANGED intent

-----------------------------------------------------------------------------
(* Faults *)

Booking == {"findDeposit", "create", "incVault", "incUser", "activity"}

(* On BSC the claim is undone, on Tron it was not made yet. *)
AccountingThrows(c) ==
  /\ call[c].pc \in Booking
  /\ Trouble("faults")
  /\ IF kind.network = "bep20" THEN Go(c, "revert") ELSE Return(c)
  /\ UNCHANGED <<kind, intent, books, windowOpen, chain, gas>>

(* An unanswered node, no gas to be had, a confirmation that is not seen   *)
(* in time, a failed update: the call ends, the next finds the key.        *)
CallThrows(c) ==
  /\ call[c].pc \notin Booking \union {"idle"}
  /\ Trouble("faults")
  /\ Return(c)
  /\ UNCHANGED <<kind, intent, books, windowOpen, chain, gas>>

(* The funder's transaction brings no TRX; the attempt counts. *)
FundingFails(c) ==
  /\ NeedsEnergy(c) /\ ~Doc(c).halted /\ ~Cooling(c)
  /\ Doc(c).attempts < MaxFundAttempts
  /\ Trouble("faults")
  /\ Go(c, "noteFunding")
  /\ UNCHANGED <<kind, intent, books, windowOpen, chain, gas>>

Crash ==
  /\ Trouble("crashes")
  /\ call' = [c \in Callers |-> NoCall]
  /\ UNCHANGED <<kind, intent, books, windowOpen, chain, gas>>

-----------------------------------------------------------------------------
Work(c) ==
  \/ BepReadBalance(c) \/ BepNotYet(c) \/ BepExpire(c) \/ BepFunded(c) \/ BepClaim(c)
  \/ BepRevert(c) \/ BepUpdate(c) \/ BepPrepare(c) \/ BepReadAgain(c) \/ BepReverted(c)
  \/ BepSettle(c)
  \/ FindDeposit(c) \/ CreateDeposit(c) \/ IncVault(c) \/ IncUser(c) \/ LogActivity(c)
  \/ TronLoad(c) \/ TronReadBalance(c) \/ TronMarkCredited(c)
  \/ TronReady(c) \/ TronHold(c) \/ TronHaltFunding(c) \/ TronFundEnergy(c)
  \/ TronNoteFunding(c) \/ TronSaveHash(c) \/ TronReverted(c) \/ TronSettle(c)
  \/ Send(c) \/ OutOfSends(c) \/ WaitMined(c)

Next ==
  \/ OpenIntent \/ Pay \/ CloseWindow \/ CoolDown
  \/ \E i \in DOMAIN tx : Mine(i)
  \/ TronTick \/ TronForce
  \/ \E c \in Callers :
       BepStart(c) \/ Work(c) \/ AccountingThrows(c) \/ CallThrows(c) \/ FundingFails(c)
  \/ Crash

Spec == Init /\ [][Next]_vars

(* The timers fire, awaits return, time passes and transactions are mined. *)
(* Nobody owes a payment, an admin's call or a fault.                      *)
Fairness ==
  /\ WF_vars(BepStart("tick")) /\ WF_vars(TronTick)
  /\ \A c \in Callers : WF_vars(Work(c))
  /\ WF_vars(CloseWindow) /\ WF_vars(CoolDown)
  /\ \A i \in 1..MaxSends : WF_vars(i \in DOMAIN tx /\ Mine(i))

FairSpec == Spec /\ Fairness

-----------------------------------------------------------------------------
(* Properties *)

Intents ==
  [status : {"none", "pending", "credited", "matched", "expired"}, credited : BOOLEAN,
   key : BOOLEAN, hash : BOOLEAN, received : Nat, attempts : 0..MaxFundAttempts,
   halted : BOOLEAN, cooling : BOOLEAN]

(* The type invariant. *)
TypeOK ==
  /\ kind \in Kinds /\ intent \in Intents
  /\ deposit \in 0..arrived /\ vaultTotal \in Nat /\ userTotal \in Nat
  /\ windowOpen \in BOOLEAN /\ gas \in BOOLEAN
  /\ balance \in Nat /\ moved \in Nat /\ arrived <= MaxPayments[kind.network]
  /\ paidInTime \in BOOLEAN
  /\ tx \in Seq([amount : Nat \ {0}, status : {"pending", "mined", "reverted"}])
  /\ Len(tx) <= MaxSends
  /\ \A c \in Callers : call[c].doc \in Intents /\ call[c].bal \in 0..arrived
                        /\ call[c].tx \in 0..Len(tx)

(* "Idempotent via unique pendingRequestId": the tick and an admin who     *)
(* find the same money, reverts, retries and restarts do not add it to the *)
(* user's or the vault's total twice.                                      *)
NeverCreditedTwice == userTotal <= arrived /\ vaultTotal <= arrived

(* "NEVER purge on an unconfirmed sweep": whatever reverted, was not seen  *)
(* in time or was sent twice, the key is gone only if a sweep reached the  *)
(* treasury; on BSC it moved all the user was credited with.  (On Tron two *)
(* calls that saw different balances can credit the larger one and sweep   *)
(* the smaller.)                                                           *)
PurgedIsInTreasury ==
  intent.status # "none" /\ ~intent.key
    => moved > 0 /\ (kind.network = "bep20" => moved >= deposit)

(* The user is credited before the sweep: no single failed call lets an    *)
(* intent be settled without its deposit.  (A restart between the claim    *)
(* and the deposit does, and so does a failure to undo the claim.)         *)
SettledHasDeposit ==
  intent.status = "matched" /\ budget.crashes = 0 /\ budget.faults <= 1 => deposit > 0

(* The accounting is done in its order and once: the vault is raised by    *)
(* the deposit as it was inserted, then the user by what the vault was     *)
(* raised by, whatever calls throw, end or begin again between; and a      *)
(* deposit is not taken back.                                              *)
BookedInOrder ==
  [][/\ vaultTotal' # vaultTotal => vaultTotal = 0 /\ vaultTotal' = deposit
     /\ userTotal' # userTotal => userTotal = 0 /\ userTotal' = vaultTotal
     /\ deposit > 0 => deposit' > 0]_vars

(* The one-time address keeps the promise of the standing one: its money   *)
(* is claimed by the deposits row, then raises the vault, then the user.   *)
Ledger == INSTANCE CreditLedger WITH
  Transfers <- {"payment"},
  claimed <- IF deposit > 0 THEN {"payment"} ELSE {},
  tvl <- [t \in {"payment"} |-> IF vaultTotal > 0 THEN 1 ELSE 0],
  paid <- [t \in {"payment"} |-> IF userTotal > 0 THEN 1 ELSE 0]

ImplementsLedger == Ledger!Spec

(* What was credited leaves for the treasury, after any fault or restart,  *)
(* unless funding its energy was given up (or the model's transactions ran *)
(* out).                                                                   *)
CreditedIsSwept ==
  intent.status = "credited"
    ~> (balance = 0 \/ ~intent.key \/ intent.halted \/ Len(tx) = MaxSends)

-----------------------------------------------------------------------------
(* Promises the code does not keep; the README says how each is broken *)

(* "Only ones that never received funds and were never credited": an       *)
(* intent that expires was not paid within its window.                     *)
ExpiredIsUnpaid == intent.status = "expired" => ~paidInTime
=============================================================================
