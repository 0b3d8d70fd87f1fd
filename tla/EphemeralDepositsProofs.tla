---------------------- MODULE EphemeralDepositsProofs ----------------------
(***************************************************************************)
(* Proofs about EphemeralDeposits, for any kinds of intents and any number *)
(* of payments, transactions, faults and admin calls.                      *)
(*                                                                         *)
(* What matters is which call still owes a step of a booking, and what the *)
(* transaction a call waits for moves when it is mined.  On BSC one call   *)
(* at a time works on an intent, so that what it loaded is what is stored; *)
(* on Tron two calls interleave, and only the deposit, which never goes    *)
(* back to nothing, tells them apart.                                      *)
(*                                                                         *)
(* Last, the accounting is done in its order and once (InStep), and so     *)
(* keeps the promise of CreditLedger.                                      *)
(***************************************************************************)
EXTENDS EphemeralDeposits, SequenceTheorems, TLAPS

Steps ==
  Booking \union
  {"idle", "balance", "judge", "claim", "update", "revert", "reread", "rebalance", "send",
   "wait", "settle", "load", "markCredited", "energy", "noteFunding", "saveHash"}

Calls == [pc : Steps, doc : Intents, bal : Nat, tx : Nat]

(* Where a call has found money, and where it has sent some. *)
HasFound == Booking \union {"claim", "update", "markCredited", "energy", "send"}
HasSent == {"saveHash", "wait", "settle"}

(* What the await a call is at relies on. *)
Fits(r, t) ==
  /\ r.pc \in HasFound => r.bal > 0
  /\ r.pc = "noteFunding" => r.doc.attempts < MaxFundAttempts
  /\ r.pc \in HasSent => r.tx > 0
  /\ r.pc = "settle" => t[r.tx].status = "mined"

Transactions == [amount : Nat \ {0}, status : {"pending", "mined", "reverted"}]

Money ==
  /\ kind \in Kinds /\ kind.network \in {"bep20", "trc20"}
  /\ deposit \in Nat /\ deposit <= arrived /\ vaultTotal \in Nat /\ userTotal \in Nat
  /\ balance \in Nat /\ moved \in Nat /\ arrived <= MaxPayments[kind.network]
  /\ tx \in Seq(Transactions) /\ Len(tx) <= MaxSends

World ==
  /\ Money
  /\ windowOpen \in BOOLEAN /\ gas \in BOOLEAN /\ paidInTime \in BOOLEAN
  /\ budget \in [faults : Nat, crashes : Nat, forces : Nat]

CallsOK ==
  /\ call \in [Callers -> Calls]
  /\ \A c \in Callers : call[c].bal <= arrived /\ call[c].tx <= Len(tx) /\ Fits(call[c], tx)

TypeInv == World /\ intent \in Intents /\ CallsOK

(* A call between a deposit it created and the totals owes to both or to   *)
(* the user's, and is the only one that does.                              *)
Owing == {"incVault", "incUser"}

BookedOnce ==
  /\ deposit = 0 => vaultTotal = 0 /\ userTotal = 0
  /\ vaultTotal <= arrived /\ userTotal <= arrived
  /\ \A c \in Callers :
       /\ call[c].pc \in Owing => deposit > 0 /\ userTotal = 0
       /\ call[c].pc = "incVault" => vaultTotal = 0
  /\ \A c, d \in Callers : call[c].pc \in Owing /\ call[d].pc \in Owing => c = d

(* Calls work on intents that were opened. *)
Opened == \A c \in Callers : ~At(c, "idle") => intent.status # "none"

(* What was mined is in the treasury. *)
Mined == \A i \in DOMAIN tx : tx[i].status = "mined" => moved > 0

(* On BSC one call works at a time, at the awaits of sweepOne.             *)
OneCall ==
  kind.network = "bep20" =>
    /\ \A c, d \in Callers : ~At(c, "idle") /\ ~At(d, "idle") => c = d
    /\ \A c \in Callers : call[c].pc \notin {"load", "markCredited", "energy", "noteFunding", "saveHash"}

(* There, what the caller's transaction has moved or will move is all that *)
(* was credited.                                                           *)
Sweeps(c) ==
  /\ At(c, "send") => moved + call[c].bal >= deposit
  /\ At(c, "wait") \/ At(c, "settle") =>
       /\ tx[call[c].tx].status = "mined" => moved >= deposit
       /\ tx[call[c].tx].status = "pending" => moved + tx[call[c].tx].amount >= deposit

Gone == intent.status # "none" /\ ~intent.key

Purged ==
  /\ Opened /\ Mined /\ OneCall
  /\ Gone => moved > 0
  /\ kind.network = "bep20" =>
       /\ \A c \in Callers : Sweeps(c)
       /\ Gone => intent.status = "matched" /\ moved >= deposit /\ \A c \in Callers : At(c, "idle")

(* On Tron the row is marked after the deposit. *)
PastDeposit ==
  {"incVault", "incUser", "activity", "markCredited", "energy", "noteFunding", "send"} \union HasSent

TronBooked ==
  kind.network = "trc20" =>
    /\ intent.credited \/ intent.status = "matched" => deposit > 0
    /\ \A c \in Callers :
         call[c].pc \in PastDeposit
         \/ (call[c].pc \notin {"idle", "load"} /\ call[c].doc.credited)
           => deposit > 0

(* On BSC the claim comes first: it is undone, or the deposit follows.     *)
(* What a call has loaded is what is stored until it claims.               *)
Fresh(c) ==
  /\ call[c].pc \in {"balance", "judge", "claim", "update"} =>
       /\ call[c].doc.credited = intent.credited /\ call[c].doc.status = intent.status
       /\ intent.status \in {"pending", "credited"}
  /\ At(c, "claim") => ~intent.credited
  /\ At(c, "update") => intent.credited

Claimed == {"findDeposit", "create", "revert"}
AfterBooking == {"incVault", "incUser", "activity", "reread", "rebalance", "send"} \union HasSent

BscBooked ==
  kind.network = "bep20" =>
    /\ intent.status = "pending" => ~intent.credited
    /\ intent.status = "credited" => intent.credited
    /\ \A c \in Callers : Fresh(c)
    /\ budget.crashes = 0 /\ budget.faults <= 1 =>
         /\ \A c \in Callers : At(c, "revert") => budget.faults = 1
         /\ \A c \in Callers : call[c].pc \in AfterBooking => deposit > 0
         /\ intent.status = "matched" => deposit > 0
         /\ intent.credited => deposit > 0 \/ \E c \in Callers : call[c].pc \in Claimed

IInv == TypeInv /\ BookedOnce /\ Purged /\ TronBooked /\ BscBooked

-----------------------------------------------------------------------------
(* Types *)

LEMMA TypeInvImpliesTypeOK == TypeInv => TypeOK
<1> SUFFICES ASSUME TypeInv PROVE TypeOK OBVIOUS
<1>1. Money /\ World /\ CallsOK /\ intent \in Intents BY DEF TypeInv, World
<1>2. arrived \in Nat /\ Len(tx) \in Nat BY <1>1 DEF Money, arrived
<1>3. ASSUME NEW c \in Callers
      PROVE  call[c].doc \in Intents /\ call[c].bal \in 0..arrived /\ call[c].tx \in 0..Len(tx)
  BY <1>1, <1>2 DEF CallsOK, Calls
<1>4. deposit \in 0..arrived BY <1>1, <1>2 DEF Money
<1> QED BY <1>1, <1>3, <1>4 DEF Money, World, TypeOK, Transactions

(* The steps that touch the totals or the chain; Quiet is every other one. *)
Quiet == UNCHANGED <<kind, deposit, vaultTotal, userTotal, balance, moved, tx>>

MoneyStep(c) == BepUpdate(c) \/ CreateDeposit(c) \/ IncVault(c) \/ IncUser(c) \/ Send(c)

LEMMA MoneyMoves ==
  ASSUME [Next]_vars
  PROVE  \/ Quiet \/ Pay \/ \E i \in DOMAIN tx : Mine(i)
         \/ \E c \in Callers : MoneyStep(c)
<1> USE DEF Quiet, books, chain
<1>1. ASSUME NEW c \in Callers, Work(c) PROVE Quiet \/ MoneyStep(c)
  BY <1>1 DEF Work, MoneyStep, Keep, BepReadBalance, BepNotYet, BepExpire, BepFunded, BepClaim,
       BepRevert, BepPrepare, BepReadAgain, BepReverted, BepSettle, FindDeposit, LogActivity,
       TronLoad, TronReadBalance, TronMarkCredited, TronReady, TronHold, TronHaltFunding,
       TronFundEnergy, TronNoteFunding, TronSaveHash, TronReverted, TronSettle, OutOfSends,
       WaitMined
<1>2. ASSUME NEW c \in Callers,
             BepStart(c) \/ AccountingThrows(c) \/ CallThrows(c) \/ FundingFails(c)
      PROVE  Quiet
  BY <1>2 DEF BepStart, AccountingThrows, CallThrows, FundingFails
<1>3. CASE OpenIntent \/ CloseWindow \/ CoolDown \/ TronTick \/ TronForce \/ Crash \/ UNCHANGED vars
  BY <1>3 DEF OpenIntent, CloseWindow, CoolDown, TronTick, TronForce, Crash, Keep, vars
<1> QED BY <1>1, <1>2, <1>3 DEF Next

(* A transaction is mined in its block, moving its amount, or reverts.     *)
LEMMA MineTx ==
  ASSUME Money, NEW i \in DOMAIN tx, Mine(i)
  PROVE  /\ tx[i] \in Transactions /\ tx[i].status = "pending"
         /\ DOMAIN tx' = DOMAIN tx /\ \A j \in DOMAIN tx \ {i} : tx'[j] = tx[j]
         /\ tx'[i].status \in {"mined", "reverted"}
         /\ tx'[i].status = "mined" => moved' = moved + tx[i].amount
<1>1. tx[i] \in Transactions /\ tx[i].status = "pending" BY DEF Money, Mine
<1>2. CASE tx[i].amount <= balance
  <2>1. tx' = [tx EXCEPT ![i].status = "mined"] /\ moved' = moved + tx[i].amount
    BY <1>2 DEF Mine
  <2>2. tx'[i].status = "mined" BY <1>1, <2>1 DEF Transactions
  <2> QED BY <1>1, <2>1, <2>2
<1>3. CASE ~(tx[i].amount <= balance)
  <2>1. tx' = [tx EXCEPT ![i].status = "reverted"] BY <1>3 DEF Mine
  <2>2. tx'[i].status = "reverted" BY <1>1, <2>1 DEF Transactions
  <2> QED BY <1>1, <2>1, <2>2
<1> QED BY <1>2, <1>3

(* Money and transactions only come; what was mined stays mined. *)
Later ==
  /\ arrived' \in Nat /\ arrived <= arrived' /\ moved <= moved' /\ Len(tx) <= Len(tx')
  /\ \A i \in DOMAIN tx : /\ tx'[i].amount = tx[i].amount
                          /\ tx[i].status \in {"mined", "reverted"} => tx'[i] = tx[i]

LEMMA MoneyStays ==
  ASSUME TypeInv, [Next]_vars
  PROVE  Money' /\ Later
<1> USE DEF Money, arrived, Later
<1>0. /\ Money /\ MaxPayments[kind.network] \in Nat /\ MaxSends \in Nat /\ Len(tx) \in Nat
      /\ balance + moved \in Nat
      /\ \A i \in DOMAIN tx : tx[i] \in Transactions
  BY EphemeralBoundsAssumption DEF TypeInv, World
<1>1. CASE Quiet BY <1>0, <1>1 DEF Quiet
<1>2. CASE Pay BY <1>0, <1>2 DEF Pay, books
<1>3. ASSUME NEW i \in DOMAIN tx, Mine(i) PROVE Money' /\ Later
  <2>1. tx[i].amount \in Nat \ {0} /\ tx[i].status = "pending"
    BY <1>0, <1>3 DEF Mine, Transactions
  <2>2. CASE tx[i].amount <= balance
    <3>1. /\ tx' = [tx EXCEPT ![i] = [tx[i] EXCEPT !.status = "mined"]]
          /\ [tx[i] EXCEPT !.status = "mined"] \in Transactions
      BY <1>0, <1>3, <2>2 DEF Mine, Transactions
    <3>2. tx' \in Seq(Transactions) /\ Len(tx') = Len(tx)
      BY <1>0, <3>1, ExceptSeq
    <3>3. UNCHANGED <<kind, deposit, vaultTotal, userTotal>>
          /\ balance' = balance - tx[i].amount /\ moved' = moved + tx[i].amount
      BY <1>3, <2>2 DEF Mine, books
    <3>4. \A j \in DOMAIN tx : /\ tx'[j].amount = tx[j].amount
                               /\ tx[j].status \in {"mined", "reverted"} => tx'[j] = tx[j]
      BY <1>0, <2>1, <3>1
    <3>6. ASSUME NEW a \in Nat, a <= balance, balance' = balance - a, moved' = moved + a
          PROVE  /\ balance' + moved' = balance + moved /\ moved <= moved'
                 /\ balance' \in Nat /\ moved' \in Nat
      <4>1. balance \in Nat /\ moved \in Nat BY <1>0
      <4> QED BY <3>6, <4>1
    <3>5. arrived' = arrived /\ moved <= moved' /\ balance' \in Nat /\ moved' \in Nat
      BY <2>1, <2>2, <3>3, <3>6
    <3> QED BY <1>0, <3>2, <3>3, <3>4, <3>5
  <2>3. CASE ~(tx[i].amount <= balance)
    <3>1. /\ tx' = [tx EXCEPT ![i] = [tx[i] EXCEPT !.status = "reverted"]]
          /\ [tx[i] EXCEPT !.status = "reverted"] \in Transactions
      BY <1>0, <1>3, <2>3 DEF Mine, Transactions
    <3>2. tx' \in Seq(Transactions) /\ Len(tx') = Len(tx)
      BY <1>0, <3>1, ExceptSeq
    <3>3. UNCHANGED <<kind, deposit, vaultTotal, userTotal, balance, moved>>
      BY <1>3, <2>3 DEF Mine, books
    <3> QED BY <1>0, <2>1, <3>1, <3>2, <3>3
  <2> QED BY <2>2, <2>3
<1>4. ASSUME NEW c \in Callers, MoneyStep(c) PROVE Money' /\ Later
  <2>0. call[c].bal \in Nat /\ call[c].bal <= arrived /\ (call[c].pc = "send" => call[c].bal > 0)
    BY DEF TypeInv, CallsOK, Calls, Fits, HasFound
  <2>1. CASE BepUpdate(c)
    BY <1>0, <2>0, <2>1 DEF BepUpdate, Bal, Store, chain
  <2>2. CASE CreateDeposit(c) BY <1>0, <2>0, <2>2 DEF CreateDeposit, Bal, chain
  <2>3. CASE IncVault(c) BY <1>0, <2>0, <2>3 DEF IncVault, Bal, chain
  <2>4. CASE IncUser(c) BY <1>0, <2>0, <2>4 DEF IncUser, Bal, chain
  <2>5. CASE Send(c)
    <3>1. [amount |-> Bal(c), status |-> "pending"] \in Transactions
      BY <2>0, <2>5 DEF Send, At, Bal, Transactions
    <3>2. /\ tx' \in Seq(Transactions) /\ Len(tx') = Len(tx) + 1
          /\ \A i \in DOMAIN tx : tx'[i] = tx[i]
      BY <1>0, <2>5, <3>1 DEF Send
    <3> QED BY <1>0, <2>5, <3>2 DEF Send, books
  <2> QED BY <1>4, <2>1, <2>2, <2>3, <2>4, <2>5 DEF MoneyStep
<1> QED BY <1>1, <1>2, <1>3, <1>4, MoneyMoves

LEMMA WorldStays ==
  ASSUME TypeInv, [Next]_vars
  PROVE  World'
<1>1. Money' BY MoneyStays
<1>2. World BY DEF TypeInv
<1>3. windowOpen \in BOOLEAN /\ gas \in BOOLEAN /\ paidInTime \in BOOLEAN
      /\ budget \in [faults : Nat, crashes : Nat, forces : Nat]
  BY <1>2 DEF World
<1> DEFINE Flags == windowOpen' \in BOOLEAN /\ gas' \in BOOLEAN /\ paidInTime' \in BOOLEAN
           Budget == budget' \in [faults : Nat, crashes : Nat, forces : Nat]
           Fine == Flags /\ Budget
<1> SUFFICES Fine BY <1>1 DEF World
<1> USE <1>3 DEF chain, Keep
<1>4. CASE OpenIntent \/ CloseWindow \/ CoolDown \/ TronTick \/ UNCHANGED vars
  <2>1. Flags BY <1>4 DEF OpenIntent, CloseWindow, CoolDown, TronTick, vars
  <2>2. UNCHANGED budget BY <1>4 DEF OpenIntent, CloseWindow, CoolDown, TronTick, vars
  <2> QED BY <2>1, <2>2 DEF Budget
<1>11. CASE Pay
  <2>1. Flags BY <1>11 DEF Pay
  <2>2. UNCHANGED budget BY <1>11 DEF Pay
  <2> QED BY <2>1, <2>2 DEF Budget
<1>5. ASSUME NEW k \in {"faults", "crashes"}, Trouble(k)
      PROVE  Budget
  BY <1>5 DEF Trouble
<1>6. ASSUME NEW c \in Callers, Ask(c)
      PROVE  Budget
  BY <1>6 DEF Ask
<1>7. CASE TronForce \/ Crash
  <2>1. Budget BY <1>5, <1>6, <1>7 DEF TronForce, Crash, Callers
  <2>2. CASE TronForce BY <2>1, <2>2 DEF TronForce
  <2>3. CASE Crash BY <2>1, <2>3 DEF Crash
  <2> QED BY <1>7, <2>2, <2>3
<1>8. ASSUME NEW i \in DOMAIN tx, Mine(i) PROVE Fine
  BY <1>8 DEF Mine
<1>9. ASSUME NEW c \in Callers,
             BepStart(c) \/ AccountingThrows(c) \/ CallThrows(c) \/ FundingFails(c)
      PROVE  Fine
  BY <1>5, <1>6, <1>9 DEF BepStart, AccountingThrows, CallThrows, FundingFails
<1>10. ASSUME NEW c \in Callers, Work(c) PROVE Fine
  BY <1>10 DEF Work, BepReadBalance, BepNotYet, BepExpire, BepFunded, BepClaim, BepRevert,
       BepUpdate, BepPrepare, BepReadAgain, BepReverted, BepSettle, FindDeposit, CreateDeposit,
       IncVault, IncUser, LogActivity, TronLoad, TronReadBalance, TronMarkCredited, TronReady,
       TronHold, TronHaltFunding, TronFundEnergy, TronNoteFunding, TronSaveHash, TronReverted,
       TronSettle, Send, OutOfSends, WaitMined
<1> QED BY <1>1, <1>4, <1>7, <1>8, <1>9, <1>10, <1>11 DEF Next, World

LEMMA IntentStays ==
  ASSUME TypeInv, [Next]_vars
  PROVE  intent' \in Intents
<1> USE DEF Intents, Keep, Store
<1>0. intent \in Intents /\ 0 \in 0..MaxFundAttempts
      /\ \A c \in Callers : call[c].bal \in Nat /\ call[c].doc.attempts \in Nat
                            /\ (call[c].pc = "noteFunding" => call[c].doc.attempts + 1 \in 0..MaxFundAttempts)
  BY EphemeralBoundsAssumption DEF TypeInv, CallsOK, Calls, Fits
<1>1. CASE OpenIntent BY <1>0, <1>1 DEF OpenIntent, NoIntent
<1>2. CASE CoolDown \/ TronTick \/ TronForce
  BY <1>0, <1>2 DEF CoolDown, TronTick, TronForce
<1>3. CASE Pay \/ CloseWindow \/ Crash \/ UNCHANGED vars \/ \E i \in DOMAIN tx : Mine(i)
  BY <1>0, <1>3 DEF Pay, CloseWindow, Crash, vars, Mine
<1>4. ASSUME NEW c \in Callers,
             BepStart(c) \/ AccountingThrows(c) \/ CallThrows(c) \/ FundingFails(c)
      PROVE  intent' \in Intents
  BY <1>0, <1>4 DEF BepStart, AccountingThrows, CallThrows, FundingFails
<1>5. ASSUME NEW c \in Callers, BepExpire(c) \/ BepClaim(c) \/ BepRevert(c) \/ BepUpdate(c) \/ BepSettle(c)
      PROVE  intent' \in Intents
  BY <1>0, <1>5 DEF BepExpire, BepClaim, BepRevert, BepUpdate, BepSettle, Bal
<1>6. ASSUME NEW c \in Callers, TronMarkCredited(c) \/ TronHaltFunding(c) \/ TronSaveHash(c) \/ TronSettle(c)
      PROVE  intent' \in Intents
  BY <1>0, <1>6 DEF TronMarkCredited, TronHaltFunding, TronSaveHash, TronSettle, Bal
<1>7. ASSUME NEW c \in Callers, TronNoteFunding(c) PROVE intent' \in Intents
  BY <1>0, <1>7 DEF TronNoteFunding, Doc, Tron, At
<1>8. ASSUME NEW c \in Callers, Work(c) PROVE intent' \in Intents
  BY <1>0, <1>5, <1>6, <1>7, <1>8 DEF Work, BepReadBalance, BepNotYet, BepFunded, BepPrepare,
       BepReadAgain, BepReverted, FindDeposit, CreateDeposit, IncVault, IncUser, LogActivity,
       TronLoad, TronReadBalance, TronReady, TronHold, TronFundEnergy, TronReverted, Send,
       OutOfSends, WaitMined
<1> QED BY <1>1, <1>2, <1>3, <1>4, <1>8 DEF Next

-----------------------------------------------------------------------------
(* Calls *)

(* A call that moves takes its caller's record to one that fits.           *)
LEMMA CallMoves ==
  ASSUME CallsOK, Later, NEW c \in Callers, NEW new \in Calls,
         call' = [call EXCEPT ![c] = new], tx \in Seq(Transactions), tx' \in Seq(Transactions),
         arrived \in Nat, new.bal <= arrived', new.tx <= Len(tx'), Fits(new, tx')
  PROVE  CallsOK'
<1>1. call' \in [Callers -> Calls] /\ call'[c] = new BY DEF CallsOK
<1>2. ASSUME NEW d \in Callers, d # c
      PROVE  call'[d].bal <= arrived' /\ call'[d].tx <= Len(tx') /\ Fits(call'[d], tx')
  <2>1. call'[d] = call[d] /\ call[d] \in Calls /\ call[d].bal <= arrived
        /\ call[d].tx <= Len(tx) /\ Fits(call[d], tx)
    BY <1>2 DEF CallsOK
  <2>2. call[d].pc = "settle" => tx'[call[d].tx].status = "mined"
    BY <2>1 DEF Fits, HasSent, Later, Calls
  <2> QED BY <2>1, <2>2 DEF Calls, Fits, Later
<1> QED BY <1>1, <1>2 DEF CallsOK

LEMMA CallsWait ==
  ASSUME CallsOK, Later, tx \in Seq(Transactions), tx' \in Seq(Transactions), arrived \in Nat,
         UNCHANGED call
  PROVE  CallsOK'
<1>2. ASSUME NEW d \in Callers
      PROVE  call'[d].bal <= arrived' /\ call'[d].tx <= Len(tx') /\ Fits(call'[d], tx')
  <2>1. call'[d] = call[d] /\ call[d] \in Calls /\ call[d].bal <= arrived
        /\ call[d].tx <= Len(tx) /\ Fits(call[d], tx)
    BY DEF CallsOK
  <2>2. call[d].pc = "settle" => tx'[call[d].tx].status = "mined"
    BY <2>1 DEF Fits, HasSent, Later, Calls
  <2> QED BY <2>1, <2>2 DEF Calls, Fits, Later
<1> QED BY <1>2 DEF CallsOK

(* Going on with the same locals. *)
LEMMA GoFits ==
  ASSUME CallsOK, Later, tx \in Seq(Transactions), tx' \in Seq(Transactions), arrived \in Nat,
         NEW c \in Callers, NEW to \in Steps, Go(c, to),
         to \in HasFound => call[c].bal > 0,
         to = "noteFunding" => call[c].doc.attempts < MaxFundAttempts,
         to \in HasSent => call[c].tx > 0,
         to = "settle" => tx[call[c].tx].status = "mined"
  PROVE  CallsOK'
<1> DEFINE new == [call[c] EXCEPT !.pc = to]
<1>1. call[c] \in Calls /\ call[c].bal <= arrived /\ call[c].tx <= Len(tx) BY DEF CallsOK
<1>2. new \in Calls /\ new.pc = to /\ new.bal = call[c].bal /\ new.tx = call[c].tx
      /\ new.doc = call[c].doc
  BY <1>1 DEF Calls
<1>3. call' = [call EXCEPT ![c] = new] BY DEF Go
<1>4. to = "settle" => tx'[new.tx].status = "mined"
  BY <1>1, <1>2 DEF Later, Calls, HasSent
<1>5. Fits(new, tx') BY <1>2, <1>4 DEF Fits
<1>6. new.bal <= arrived' /\ new.tx <= Len(tx') BY <1>1, <1>2 DEF Later, Calls
<1> HIDE DEF new
<1> QED BY <1>2, <1>3, <1>5, <1>6, CallMoves

LEMMA ReturnFits ==
  ASSUME CallsOK, Later, tx \in Seq(Transactions), tx' \in Seq(Transactions), arrived \in Nat,
         0 \in 0..MaxFundAttempts, NEW c \in Callers, Return(c)
  PROVE  CallsOK'
<1>1. NoCall \in Calls /\ NoCall.bal = 0 /\ NoCall.tx = 0 /\ NoCall.pc = "idle"
  BY DEF NoCall, NoIntent, Calls, Intents, Steps
<1>2. Fits(NoCall, tx') BY <1>1 DEF Fits, HasFound, HasSent, Booking
<1>3. NoCall.bal <= arrived' /\ NoCall.tx <= Len(tx') BY <1>1 DEF Later
<1>4. call' = [call EXCEPT ![c] = NoCall] BY DEF Return
<1> QED BY <1>1, <1>2, <1>3, <1>4, CallMoves

LEMMA CallsStay ==
  ASSUME TypeInv, [Next]_vars
  PROVE  CallsOK'
<1>0. /\ CallsOK /\ Later /\ tx \in Seq(Transactions) /\ tx' \in Seq(Transactions)
      /\ arrived \in Nat /\ 0 \in 0..MaxFundAttempts /\ intent \in Intents /\ balance \in Nat /\ balance <= arrived
  BY MoneyStays, EphemeralBoundsAssumption DEF TypeInv, World, Money, arrived
<1> USE <1>0
<1>1. CASE OpenIntent \/ Pay \/ CloseWindow \/ CoolDown \/ UNCHANGED vars
           \/ \E i \in DOMAIN tx : Mine(i)
  <2>1. UNCHANGED call BY <1>1 DEF OpenIntent, Pay, CloseWindow, CoolDown, vars, Mine
  <2> QED BY <2>1, CallsWait
<1>2. CASE Crash
  <2>1. \A c \in Callers : call'[c] = NoCall BY <1>2 DEF Crash
  <2> QED BY <1>2, <2>1 DEF Crash, NoCall, NoIntent, CallsOK, Calls, Intents, Steps, Fits,
       HasFound, HasSent, Booking, Later
<1>3. ASSUME NEW c \in Callers,
             \/ BepNotYet(c) \/ BepExpire(c) \/ BepRevert(c) \/ BepReverted(c) \/ BepSettle(c)
             \/ TronHold(c) \/ TronHaltFunding(c) \/ TronNoteFunding(c) \/ TronReverted(c)
             \/ TronSettle(c) \/ OutOfSends(c) \/ CallThrows(c)
      PROVE  CallsOK'
  <2>1. Return(c) BY <1>3 DEF BepNotYet, BepExpire, BepRevert, BepReverted, BepSettle, TronHold,
       TronHaltFunding, TronNoteFunding, TronReverted, TronSettle, OutOfSends, CallThrows
  <2> QED BY <2>1, ReturnFits
<1>4. ASSUME NEW c \in Callers, BepStart(c) \/ BepReadBalance(c) \/ BepReadAgain(c) \/ TronLoad(c) \/ TronReadBalance(c) \/ Send(c)
      PROVE  CallsOK'
  <2>0. call[c] \in Calls /\ call[c].bal <= arrived /\ call[c].tx <= Len(tx) /\ Fits(call[c], tx) /\ call \in [Callers -> Calls]
    BY DEF CallsOK
  <2> DEFINE Moved(new) == /\ new \in Calls /\ call' = [call EXCEPT ![c] = new]
                           /\ new.bal <= arrived' /\ new.tx <= Len(tx') /\ Fits(new, tx')
  <2>1. ASSUME NEW new, Moved(new) PROVE CallsOK'
    BY <2>1, CallMoves
  <2>2. CASE BepStart(c) \/ TronLoad(c)
    <3>1. CASE Return(c) BY <3>1, ReturnFits
    <3>2. CASE ~Return(c)
      <4> DEFINE new == [call[c] EXCEPT !.pc = "balance", !.doc = intent]
      <4>1. call' = [call EXCEPT ![c] = new] BY <2>0, <2>2, <3>2 DEF BepStart, TronLoad
      <4>2. new \in Calls /\ new.bal = call[c].bal /\ new.tx = call[c].tx /\ new.pc = "balance"
        BY <2>0 DEF Calls, Steps
      <4>3. Fits(new, tx') BY <4>2 DEF Fits, HasFound, HasSent, Booking
      <4>4. Moved(new) BY <2>0, <4>1, <4>2, <4>3 DEF Later, Calls
      <4> QED BY <2>1, <4>4
    <3> QED BY <3>1, <3>2
  <2>3. ASSUME NEW to \in {"judge", "send", "energy", "findDeposit"},
               to # "judge" => balance # 0,
               call' = [call EXCEPT ![c].pc = to, ![c].bal = balance]
        PROVE  CallsOK'
    <3> DEFINE new == [call[c] EXCEPT !.pc = to, !.bal = balance]
    <3>1. call' = [call EXCEPT ![c] = new] BY <2>0, <2>3
    <3>2. new \in Calls /\ new.bal = balance /\ new.tx = call[c].tx /\ new.pc = to
      BY <2>0 DEF Calls, Steps, Booking
    <3>3. Fits(new, tx') BY <2>3, <3>2 DEF Fits, HasFound, HasSent, Booking
    <3>4. Moved(new) BY <2>0, <3>1, <3>2, <3>3 DEF Later, Calls
    <3> QED BY <2>1, <3>4
  <2>4. CASE BepReadBalance(c) BY <2>3, <2>4 DEF BepReadBalance
  <2>5. CASE BepReadAgain(c) BY <2>3, <2>5, ReturnFits DEF BepReadAgain
  <2>6. CASE TronReadBalance(c) BY <2>3, <2>6, ReturnFits DEF TronReadBalance
  <2>7. CASE Send(c)
    <3>1. ASSUME NEW to \in {"wait", "saveHash"}, NEW n \in Nat, n > 0, n <= Len(tx'),
                 call' = [call EXCEPT ![c].tx = n, ![c].pc = to]
          PROVE  CallsOK'
      <4> DEFINE new == [call[c] EXCEPT !.tx = n, !.pc = to]
      <4>1. call' = [call EXCEPT ![c] = new] BY <2>0, <3>1
      <4>2. new \in Calls /\ new.bal = call[c].bal /\ new.tx = n /\ new.pc = to
        BY <2>0 DEF Calls, Steps
      <4>3. Fits(new, tx') BY <3>1, <4>2 DEF Fits, HasFound, HasSent, Booking
      <4>4. new.bal <= arrived' /\ new.tx <= Len(tx') BY <2>0, <3>1, <4>2 DEF Later, Calls
      <4>5. Moved(new) BY <4>1, <4>2, <4>3, <4>4
      <4> QED BY <2>1, <4>5
    <3>2. Len(tx') = Len(tx) + 1 /\ Len(tx) \in Nat BY <2>7 DEF Send
    <3> DEFINE n == Len(tx) + 1
               to == IF kind.network = "bep20" THEN "wait" ELSE "saveHash"
    <3>3. call' = [call EXCEPT ![c].tx = n, ![c].pc = to] BY <2>7 DEF Send
    <3>4. n \in Nat /\ n > 0 /\ n <= Len(tx') /\ to \in {"wait", "saveHash"} BY <3>2
    <3> HIDE DEF n, to
    <3> QED BY <3>1, <3>3, <3>4
  <2> QED BY <1>4, <2>2, <2>4, <2>5, <2>6, <2>7
<1>5. ASSUME NEW c \in Callers,
             \/ BepFunded(c) \/ BepClaim(c) \/ BepUpdate(c) \/ BepPrepare(c) \/ FindDeposit(c)
             \/ CreateDeposit(c) \/ IncVault(c) \/ IncUser(c) \/ LogActivity(c)
             \/ TronMarkCredited(c) \/ TronReady(c) \/ TronFundEnergy(c) \/ TronSaveHash(c)
             \/ WaitMined(c) \/ AccountingThrows(c) \/ FundingFails(c)
      PROVE  CallsOK'
  <2>0. call[c] \in Calls /\ Fits(call[c], tx) BY DEF CallsOK
  <2>1. CASE Return(c) BY <2>1, ReturnFits
  <2>2. CASE ~Return(c)
    <3>1. PICK to \in Steps :
            /\ Go(c, to)
            /\ to \in HasFound => call[c].bal > 0
            /\ to = "noteFunding" => call[c].doc.attempts < MaxFundAttempts
            /\ to \in HasSent => call[c].tx > 0
            /\ to = "settle" => tx[call[c].tx].status = "mined"
      <4> USE <2>0, <2>2 DEF Steps, Booking, HasFound, HasSent, Fits, At, Bep, Tron, Bal, Doc
      <4>1. CASE BepFunded(c) BY <4>1 DEF BepFunded
      <4>2. CASE BepClaim(c) \/ BepUpdate(c) \/ BepPrepare(c) BY <4>2 DEF BepClaim, BepUpdate,
           BepPrepare
      <4>3. CASE FindDeposit(c) \/ CreateDeposit(c) \/ LogActivity(c) BY <4>3 DEF FindDeposit,
           CreateDeposit, LogActivity, AfterCredit
      <4>4. CASE IncVault(c) \/ IncUser(c) \/ TronMarkCredited(c) \/ TronReady(c) \/ AccountingThrows(c)
        BY <4>4 DEF IncVault, IncUser, TronMarkCredited, TronReady, AccountingThrows
      <4>5. CASE TronFundEnergy(c) \/ FundingFails(c) BY <4>5 DEF TronFundEnergy, FundingFails,
           NeedsEnergy
      <4>6. CASE TronSaveHash(c) \/ WaitMined(c) BY <4>6 DEF TronSaveHash, WaitMined
      <4> QED BY <1>5, <4>1, <4>2, <4>3, <4>4, <4>5, <4>6
    <3> QED BY <3>1, GoFits
  <2> QED BY <2>1, <2>2
<1>6. CASE TronTick \/ TronForce
  <2>1. PICK c \in Callers : Go(c, "load") BY <1>6 DEF TronTick, TronForce, Callers
  <2> QED BY <2>1, GoFits DEF Steps, HasFound, HasSent, Booking
<1> QED BY <1>1, <1>2, <1>3, <1>4, <1>5, <1>6 DEF Next, Work

LEMMA TypeInit == Init => TypeInv
<1> SUFFICES ASSUME Init PROVE TypeInv OBVIOUS
<1>1. kind \in Kinds /\ kind.network \in {"bep20", "trc20"} /\ MaxPayments[kind.network] \in Nat
  BY KindsAssumption, EphemeralBoundsAssumption DEF Init
<1>2. NoIntent \in Intents /\ NoCall \in Calls
  BY EphemeralBoundsAssumption DEF NoIntent, Intents, NoCall, Calls, Steps
<1>3. Money
  <2>1. tx \in Seq(Transactions) /\ Len(tx) = 0 BY DEF Init
  <2>2. arrived = 0 /\ MaxSends \in Nat BY EphemeralBoundsAssumption DEF Init, arrived
  <2> QED BY <1>1, <2>1, <2>2 DEF Init, Money
<1>4. World BY <1>3 DEF Init, World
<1>5. CallsOK BY <1>2, <1>3 DEF Init, CallsOK, NoCall, Fits, HasFound, HasSent, Booking, Money,
     arrived
<1> QED BY <1>2, <1>4, <1>5 DEF TypeInv, Init

LEMMA TypeStep == TypeInv /\ [Next]_vars => TypeInv'
BY WorldStays, IntentStays, CallsStay DEF TypeInv

-----------------------------------------------------------------------------
(* Booked once *)

(* Only an insert and the step after it bring a call where it owes.        *)
LEMMA OwingArrives ==
  ASSUME TypeInv, [Next]_vars, \A c \in Callers : ~CreateDeposit(c) /\ ~IncVault(c)
  PROVE  \A d \in Callers : call'[d].pc \in Owing => call'[d].pc = call[d].pc
<1>0. call \in [Callers -> Calls] BY DEF TypeInv, CallsOK
<1> DEFINE Fine == \A d \in Callers : call'[d].pc \in Owing => call'[d].pc = call[d].pc
<1> SUFFICES Fine OBVIOUS
<1> USE <1>0 DEF Calls, Owing
<1>1. ASSUME NEW c \in Callers, NEW to \in Steps \ Owing, Go(c, to) PROVE Fine
  BY <1>1 DEF Go
<1>2. ASSUME NEW c \in Callers, Return(c) PROVE Fine
  BY <1>2 DEF Return, NoCall
<1>3. CASE OpenIntent \/ Pay \/ CloseWindow \/ CoolDown \/ UNCHANGED vars
           \/ \E i \in DOMAIN tx : Mine(i)
  BY <1>3 DEF OpenIntent, Pay, CloseWindow, CoolDown, vars, Mine
<1>4. CASE Crash BY <1>4 DEF Crash, NoCall
<1>5. CASE TronTick \/ TronForce
  BY <1>1, <1>5 DEF TronTick, TronForce, Callers, Steps
<1>6. ASSUME NEW c \in Callers,
             \/ BepNotYet(c) \/ BepExpire(c) \/ BepRevert(c) \/ BepReverted(c) \/ BepSettle(c)
             \/ TronHold(c) \/ TronHaltFunding(c) \/ TronNoteFunding(c) \/ TronReverted(c)
             \/ TronSettle(c) \/ OutOfSends(c) \/ CallThrows(c)
      PROVE  Fine
  BY <1>2, <1>6 DEF BepNotYet, BepExpire, BepRevert, BepReverted, BepSettle, TronHold,
       TronHaltFunding, TronNoteFunding, TronReverted, TronSettle, OutOfSends, CallThrows
<1>7. ASSUME NEW c \in Callers,
             \/ BepFunded(c) \/ BepClaim(c) \/ BepUpdate(c) \/ BepPrepare(c) \/ FindDeposit(c)
             \/ IncUser(c) \/ LogActivity(c)
             \/ TronMarkCredited(c) \/ TronReady(c) \/ TronFundEnergy(c) \/ TronSaveHash(c)
             \/ WaitMined(c) \/ AccountingThrows(c) \/ FundingFails(c)
      PROVE  Fine
  <2>1. Return(c) \/ \E to \in Steps \ Owing : Go(c, to)
    BY <1>7 DEF BepFunded, BepClaim, BepUpdate, BepPrepare, FindDeposit, IncUser, LogActivity,
         AfterCredit, TronMarkCredited, TronReady, TronFundEnergy, TronSaveHash, WaitMined,
         AccountingThrows, FundingFails, Steps, Booking
  <2> QED BY <1>1, <1>2, <2>1
<1>8. ASSUME NEW c \in Callers, BepStart(c) \/ BepReadBalance(c) \/ BepReadAgain(c) \/ TronLoad(c) \/ TronReadBalance(c) \/ Send(c)
      PROVE  Fine
  <2>1. CASE BepStart(c) BY <2>1 DEF BepStart
  <2>2. CASE BepReadBalance(c) BY <2>2 DEF BepReadBalance
  <2>3. CASE BepReadAgain(c) BY <1>2, <2>3 DEF BepReadAgain
  <2>4. CASE TronLoad(c) BY <1>2, <2>4 DEF TronLoad
  <2>5. CASE TronReadBalance(c) BY <1>2, <2>5 DEF TronReadBalance
  <2>6. CASE Send(c) BY <2>6 DEF Send
  <2> QED BY <1>8, <2>1, <2>2, <2>3, <2>4, <2>5, <2>6
<1> QED BY <1>3, <1>4, <1>5, <1>6, <1>7, <1>8 DEF Next, Work

LEMMA BookedStep ==
  ASSUME TypeInv, BookedOnce, [Next]_vars
  PROVE  BookedOnce'
<1>0. /\ call \in [Callers -> Calls] /\ Money /\ Later /\ arrived \in Nat
      /\ \A c \in Callers : call[c].bal \in Nat /\ call[c].bal <= arrived
                            /\ (call[c].pc \in Booking => call[c].bal > 0)
  BY MoneyStays DEF TypeInv, World, Money, CallsOK, Calls, Fits, HasFound, arrived
<1> USE DEF BookedOnce, Later, Money
<1>1. CASE \A c \in Callers : ~CreateDeposit(c) /\ ~IncVault(c)
  <2>1. \A d \in Callers : call'[d].pc \in Owing => call'[d].pc = call[d].pc
    BY <1>1, OwingArrives
  <2>2. CASE UNCHANGED <<deposit, vaultTotal, userTotal>>
    BY <1>0, <2>1, <2>2 DEF Owing
  <2>3. ASSUME NEW c \in Callers, BepUpdate(c) PROVE BookedOnce'
    <3>1. /\ UNCHANGED <<vaultTotal, userTotal>> /\ (deposit' = 0 <=> deposit = 0) /\ deposit' \in Nat
      BY <1>0, <2>3 DEF BepUpdate, Bal, Bep, At, TypeInv, CallsOK, Fits, HasFound
    <3> QED BY <1>0, <2>1, <3>1 DEF Owing
  <2>4. ASSUME NEW c \in Callers, IncUser(c) PROVE BookedOnce'
    <3>1. /\ UNCHANGED <<deposit, vaultTotal>> /\ userTotal' = userTotal + call[c].bal
          /\ call[c].pc = "incUser" /\ call'[c].pc = "activity"
      BY <1>0, <2>4 DEF IncUser, Bal, At, Go, Calls
    <3>2. call[c].pc \in Owing /\ call'[c].pc \notin Owing BY <3>1 DEF Owing
    <3>3. deposit > 0 /\ userTotal' \in Nat /\ userTotal' <= arrived' BY <1>0, <3>1, <3>2
    <3>4. \A d \in Callers : call'[d].pc \notin Owing BY <2>1, <3>2
    <3> QED BY <1>0, <3>1, <3>3, <3>4 DEF Owing
  <2> QED BY <1>1, <2>2, <2>3, <2>4, MoneyMoves DEF Quiet, Pay, Mine, books, MoneyStep, Send
<1>2. ASSUME NEW c \in Callers, CreateDeposit(c) PROVE BookedOnce'
  <2>1. \A d \in Callers : d # c => call'[d] = call[d]
    BY <1>0, <1>2 DEF CreateDeposit, AfterCredit, Go
  <2>2. UNCHANGED <<vaultTotal, userTotal>> /\ call[c].pc = "create" /\ call[c].bal > 0
    BY <1>0, <1>2 DEF CreateDeposit, At, Booking
  <2>3. CASE deposit = 0
    <3>1. deposit' = call[c].bal /\ call'[c].pc = "incVault"
      BY <1>0, <1>2, <2>3 DEF CreateDeposit, Bal, Go, Calls
    <3>2. \A d \in Callers \ {c} : call'[d].pc \notin Owing BY <1>0, <2>1, <2>3
    <3> QED BY <1>0, <2>2, <2>3, <3>1, <3>2
  <2>4. CASE deposit # 0
    <3>1. deposit' = deposit /\ call'[c].pc \notin Owing
      BY <1>0, <1>2, <2>4 DEF CreateDeposit, AfterCredit, Go, Calls, Owing
    <3> QED BY <1>0, <2>1, <2>2, <3>1 DEF Owing
  <2> QED BY <2>3, <2>4
<1>3. ASSUME NEW c \in Callers, IncVault(c) PROVE BookedOnce'
  <2>1. \A d \in Callers : d # c => call'[d] = call[d]
    BY <1>0, <1>3 DEF IncVault, Go
  <2>2. /\ UNCHANGED <<deposit, userTotal>> /\ vaultTotal' = vaultTotal + call[c].bal
        /\ call[c].pc = "incVault" /\ call'[c].pc = "incUser"
    BY <1>0, <1>3 DEF IncVault, Bal, At, Go, Calls
  <2>3. \A d \in Callers \ {c} : call'[d].pc \notin Owing BY <2>1, <2>2 DEF Owing
  <2> QED BY <1>0, <2>2, <2>3 DEF Owing
<1> QED BY <1>1, <1>2, <1>3

-----------------------------------------------------------------------------
(* The control flow of a call *)

Edges ==
  IF kind.network = "bep20"
  THEN {<<"idle", "balance">>, <<"balance", "judge">>, <<"judge", "update">>, <<"judge", "claim">>,
        <<"claim", "findDeposit">>, <<"claim", "reread">>, <<"update", "reread">>,
        <<"findDeposit", "reread">>, <<"findDeposit", "create">>, <<"create", "incVault">>,
        <<"create", "reread">>, <<"incVault", "incUser">>, <<"incUser", "activity">>,
        <<"activity", "reread">>, <<"reread", "rebalance">>, <<"rebalance", "send">>,
        <<"send", "wait">>, <<"wait", "settle">>} \union (Booking \X {"revert"})
  ELSE {<<"idle", "load">>, <<"load", "balance">>, <<"balance", "energy">>,
        <<"balance", "findDeposit">>, <<"findDeposit", "markCredited">>,
        <<"findDeposit", "create">>, <<"create", "incVault">>, <<"create", "markCredited">>,
        <<"incVault", "incUser">>, <<"incUser", "activity">>, <<"activity", "markCredited">>,
        <<"markCredited", "energy">>, <<"energy", "send">>, <<"energy", "noteFunding">>,
        <<"send", "saveHash">>, <<"saveHash", "wait">>, <<"wait", "settle">>}

Acts(c) == BepStart(c) \/ Work(c) \/ AccountingThrows(c) \/ CallThrows(c) \/ FundingFails(c)

(* A caller moves alone, along an edge or back to idle. *)
LEMMA CallerMoves ==
  ASSUME TypeInv, NEW c \in Callers, Acts(c)
  PROVE  /\ \A d \in Callers \ {c} : call'[d] = call[d]
         /\ call'[c].pc = "idle" \/ <<call[c].pc, call'[c].pc>> \in Edges
         /\ call[c].pc # "idle" \/ BepStart(c)
<1>0. call \in [Callers -> Calls] BY DEF TypeInv, CallsOK
<1> DEFINE Fine == /\ \A d \in Callers \ {c} : call'[d] = call[d]
                   /\ call'[c].pc = "idle" \/ <<call[c].pc, call'[c].pc>> \in Edges
                   /\ call[c].pc # "idle" \/ BepStart(c)
<1> SUFFICES Fine OBVIOUS
<1> USE <1>0 DEF Calls, Edges, At, Bep, Tron
<1>1. ASSUME NEW to \in Steps, Go(c, to), <<call[c].pc, to>> \in Edges, call[c].pc # "idle" PROVE Fine
  BY <1>1 DEF Go
<1>2. ASSUME Return(c), call[c].pc # "idle" PROVE Fine
  BY <1>2 DEF Return, NoCall
<1>3. CASE \/ BepNotYet(c) \/ BepExpire(c) \/ BepRevert(c) \/ BepReverted(c) \/ BepSettle(c)
           \/ TronHold(c) \/ TronHaltFunding(c) \/ TronNoteFunding(c) \/ TronReverted(c)
           \/ TronSettle(c) \/ OutOfSends(c) \/ CallThrows(c)
  BY <1>2, <1>3 DEF BepNotYet, BepExpire, BepRevert, BepReverted, BepSettle, TronHold,
       TronHaltFunding, NeedsEnergy, TronNoteFunding, TronReverted, TronSettle, OutOfSends,
       CallThrows
<1>4. CASE \/ BepFunded(c) \/ BepClaim(c) \/ BepUpdate(c) \/ BepPrepare(c) \/ FindDeposit(c)
           \/ CreateDeposit(c) \/ IncVault(c) \/ IncUser(c) \/ LogActivity(c)
           \/ TronMarkCredited(c) \/ TronReady(c) \/ TronFundEnergy(c) \/ TronSaveHash(c)
           \/ WaitMined(c) \/ AccountingThrows(c) \/ FundingFails(c)
  <2>0. call[c].pc # "idle"
    BY <1>4 DEF BepFunded, BepClaim, BepUpdate, BepPrepare, FindDeposit, CreateDeposit, IncVault,
         IncUser, LogActivity, TronMarkCredited, TronReady, TronFundEnergy, NeedsEnergy,
         TronSaveHash, WaitMined, AccountingThrows, FundingFails, Booking
  <2>1. CASE BepFunded(c) \/ BepClaim(c) \/ BepUpdate(c) \/ BepPrepare(c)
    BY <1>1, <1>2, <2>0, <2>1 DEF BepFunded, BepClaim, BepUpdate, BepPrepare, Steps, Booking
  <2>2. CASE FindDeposit(c) \/ CreateDeposit(c) \/ LogActivity(c)
    BY <1>1, <2>0, <2>2 DEF FindDeposit, CreateDeposit, LogActivity, AfterCredit, Steps, Booking
  <2>3. CASE IncVault(c) \/ IncUser(c)
    BY <1>1, <2>0, <2>3 DEF IncVault, IncUser, Steps, Booking
  <2>4. CASE TronMarkCredited(c) \/ TronReady(c) \/ TronFundEnergy(c) \/ TronSaveHash(c) \/ FundingFails(c)
    BY <1>1, <2>0, <2>4 DEF TronMarkCredited, TronReady, TronFundEnergy, NeedsEnergy, TronSaveHash,
         FundingFails, Steps, Booking
  <2>5. CASE WaitMined(c)
    BY <1>1, <2>0, <2>5 DEF WaitMined, Steps, Booking
  <2>6. CASE AccountingThrows(c)
    BY <1>1, <1>2, <2>0, <2>6 DEF AccountingThrows, Steps, Booking
  <2> QED BY <1>4, <2>1, <2>2, <2>3, <2>4, <2>5, <2>6
<1>5. CASE BepStart(c) BY <1>5 DEF BepStart
<1>6. CASE BepReadBalance(c) BY <1>6 DEF BepReadBalance
<1>7. CASE BepReadAgain(c) BY <1>2, <1>7 DEF BepReadAgain
<1>8. CASE TronLoad(c) BY <1>2, <1>8 DEF TronLoad
<1>9. CASE TronReadBalance(c) BY <1>2, <1>9 DEF TronReadBalance
<1>10. CASE Send(c) BY <1>10 DEF Send
<1> QED BY <1>3, <1>4, <1>5, <1>6, <1>7, <1>8, <1>9, <1>10 DEF Acts, Work

(* Everyone else leaves the calls alone, starts one on Tron or stops all. *)
LEMMA NextMoves ==
  ASSUME TypeInv, [Next]_vars
  PROVE  \/ \E c \in Callers : Acts(c)
         \/ UNCHANGED call
         \/ TronTick \/ TronForce
         \/ Crash
BY DEF Next, Acts, vars, OpenIntent, Pay, CloseWindow, CoolDown, Mine

LEMMA TronStarts ==
  ASSUME TypeInv, TronTick \/ TronForce
  PROVE  \E c \in Callers :
           /\ kind.network = "trc20" /\ intent.status # "none" /\ At(c, "idle")
           /\ call' = [call EXCEPT ![c].pc = "load"]
BY DEF TronTick, TronForce, Tron, Go, Callers, Live

-----------------------------------------------------------------------------
(* Purged *)

LEMMA IntentMoves ==
  ASSUME TypeInv, Opened, [Next]_vars
  PROVE  \/ OpenIntent
         \/ \E c \in Callers : BepSettle(c) \/ TronSettle(c)
         \/ intent'.key = intent.key /\ (intent'.status = "none" <=> intent.status = "none")
<1> DEFINE Fine == intent'.key = intent.key /\ (intent'.status = "none" <=> intent.status = "none")
<1> USE DEF Keep, Store, Intents
<1>0. intent \in Intents BY DEF TypeInv
<1>1. UNCHANGED intent => Fine OBVIOUS
<1>2. CASE CoolDown \/ TronTick \/ TronForce
  BY <1>0, <1>2 DEF CoolDown, TronTick, TronForce, Retirable
<1>3. CASE Pay \/ CloseWindow \/ Crash \/ UNCHANGED vars \/ \E i \in DOMAIN tx : Mine(i)
  BY <1>1, <1>3 DEF Pay, CloseWindow, Crash, vars, Mine
<1>4. ASSUME NEW c \in Callers, Acts(c), ~BepSettle(c), ~TronSettle(c) PROVE Fine
  <2>1. CASE BepStart(c) \/ AccountingThrows(c) \/ CallThrows(c) \/ FundingFails(c)
    BY <1>1, <2>1 DEF BepStart, AccountingThrows, CallThrows, FundingFails
  <2>2. CASE BepUpdate(c) \/ TronHaltFunding(c) \/ TronNoteFunding(c) \/ TronSaveHash(c)
    BY <1>0, <2>2 DEF BepUpdate, TronHaltFunding, TronNoteFunding, TronSaveHash
  <2>3. CASE BepExpire(c) \/ BepClaim(c) \/ BepRevert(c) \/ TronMarkCredited(c)
    <3>1. intent.status # "none" BY <2>3 DEF Opened, At, Bep, Tron, BepExpire, BepClaim, BepRevert,
         TronMarkCredited
    <3> QED BY <1>0, <2>3, <3>1 DEF BepExpire, BepClaim, BepRevert, TronMarkCredited
  <2> QED BY <1>1, <1>4, <2>1, <2>2, <2>3 DEF Acts, Work, BepReadBalance, BepNotYet, BepFunded,
       BepPrepare, BepReadAgain, BepReverted, FindDeposit, CreateDeposit, IncVault, IncUser,
       LogActivity, TronLoad, TronReadBalance, TronReady, TronHold, TronFundEnergy, TronReverted,
       Send, OutOfSends, WaitMined
<1> QED BY <1>2, <1>3, <1>4 DEF Next, Acts

LEMMA OpenedStep ==
  ASSUME TypeInv, Opened, [Next]_vars
  PROVE  Opened'
<1>0. call \in [Callers -> Calls] BY DEF TypeInv, CallsOK
<1>1. intent.status # "none" => intent'.status # "none"
  BY IntentMoves DEF TypeInv, Intents, OpenIntent, BepSettle, TronSettle, Store
<1>2. ASSUME intent.status = "none", NEW d \in Callers, call'[d].pc # "idle", intent'.status = "none" PROVE FALSE
  <2>1. \A c \in Callers : At(c, "idle") BY <1>2 DEF Opened
  <2>2. ~TronTick /\ ~TronForce BY <1>2 DEF TronTick, TronForce, Live
  <2>3. \A c \in Callers : ~Acts(c)
    <3>1. \A c \in Callers : ~BepStart(c) BY <1>2 DEF BepStart, Live
    <3> QED BY <2>1, <3>1, CallerMoves DEF At
  <2>4. ~Crash BY <1>2 DEF Crash, NoCall
  <2> QED BY <1>2, <2>1, <2>2, <2>3, <2>4, NextMoves DEF At
<1> QED BY <1>1, <1>2 DEF Opened, At

LEMMA OneCallStep ==
  ASSUME TypeInv, OneCall, [Next]_vars
  PROVE  OneCall'
<1>0. call \in [Callers -> Calls] /\ kind' = kind BY MoneyMoves DEF TypeInv, CallsOK, Quiet, Pay,
     Mine, MoneyStep, BepUpdate, CreateDeposit, IncVault, IncUser, Send
<1> SUFFICES ASSUME kind.network = "bep20" PROVE OneCall' BY <1>0 DEF OneCall
<1> USE DEF OneCall, At
<1>1. ASSUME NEW c \in Callers, Acts(c) PROVE OneCall'
  <2>1. /\ \A d \in Callers \ {c} : call'[d] = call[d]
        /\ call'[c].pc = "idle" \/ <<call[c].pc, call'[c].pc>> \in Edges
        /\ call[c].pc # "idle" \/ BepStart(c)
    BY <1>1, CallerMoves
  <2>2. \A d \in Callers \ {c} : call[d].pc = "idle" BY <2>1 DEF BepStart
  <2>3. call'[c].pc \notin {"load", "markCredited", "energy", "noteFunding",
       "saveHash"} BY <2>1 DEF Edges
  <2> QED BY <1>0, <2>1, <2>2, <2>3
<1>2. CASE UNCHANGED call BY <1>0, <1>2
<1>3. CASE Crash BY <1>0, <1>3 DEF Crash, NoCall
<1>4. ~TronTick /\ ~TronForce BY TronStarts
<1> QED BY <1>1, <1>2, <1>3, <1>4, NextMoves

LEMMA MinedStep ==
  ASSUME TypeInv, Mined, [Next]_vars
  PROVE  Mined'
<1>0. Money /\ Money' /\ Later BY MoneyStays DEF TypeInv, World
<1>1. ASSUME NEW i \in DOMAIN tx, Mine(i) PROVE Mined'
  <2>1. tx[i] \in Transactions /\ DOMAIN tx' = DOMAIN tx BY <1>0, <1>1, MineTx
  <2>2. \A j \in DOMAIN tx \ {i} : tx'[j] = tx[j] BY <1>0, <1>1, MineTx
  <2>3. tx'[i].status = "mined" => moved' > 0
    BY <1>0, <1>1, <2>1, MineTx DEF Money, Transactions
  <2>4. moved <= moved' /\ moved' \in Nat /\ moved \in Nat BY <1>0 DEF Money, Later
  <2> QED BY <2>1, <2>2, <2>3, <2>4 DEF Mined
<1>2. ASSUME NEW c \in Callers, Send(c) PROVE Mined'
  <2>1. \A j \in DOMAIN tx' : (j \in DOMAIN tx /\ tx'[j] = tx[j]) \/ tx'[j].status = "pending"
    BY <1>0, <1>2 DEF Send, Money
  <2> QED BY <1>0, <1>2, <2>1 DEF Mined, Send
<1>3. UNCHANGED <<tx, moved>> => Mined' BY DEF Mined
<1> QED BY <1>1, <1>2, <1>3, MoneyMoves DEF Quiet, Pay, MoneyStep, BepUpdate, CreateDeposit,
     IncVault, IncUser, chain

(* On BSC a caller that has found and booked the money is the only one,    *)
(* and the deposit stays as it is while it sends.                          *)
LEMMA DepositHolds ==
  ASSUME TypeInv, OneCall, [Next]_vars, kind.network = "bep20", NEW c \in Callers,
         call[c].pc \in {"send", "wait", "settle", "rebalance"}
  PROVE  deposit' = deposit
<1>1. ASSUME NEW d \in Callers, BepUpdate(d) \/ CreateDeposit(d) PROVE FALSE
  <2>1. d = c BY <1>1 DEF OneCall, At, BepUpdate, CreateDeposit, Bep
  <2> QED BY <1>1, <2>1 DEF At, BepUpdate, CreateDeposit, Bep
<1> QED BY <1>1, MoneyMoves DEF Quiet, Pay, Mine, books, MoneyStep, IncVault, IncUser, Send

LEMMA SweepsStep ==
  ASSUME TypeInv, OneCall, \A c \in Callers : Sweeps(c), [Next]_vars, kind.network = "bep20"
  PROVE  \A c \in Callers : Sweeps(c)'
<1>0. /\ call \in [Callers -> Calls] /\ Money /\ Money' /\ Later /\ Len(tx) \in Nat
      /\ \A c \in Callers : call[c].bal \in Nat /\ Fits(call[c], tx) /\ call[c].tx <= Len(tx) /\ call[c].tx \in Nat
  BY MoneyStays DEF TypeInv, World, CallsOK, Calls, Money
<1> TAKE c \in Callers
<1> USE DEF Sweeps, At
<1>1. CASE call'[c] = call[c]
  <2> SUFFICES ASSUME call[c].pc \in {"send", "wait", "settle"} PROVE Sweeps(c)'
    BY <1>1
  <2>1. deposit' = deposit BY DepositHolds
  <2>2. CASE call[c].pc = "send" BY <1>0, <1>1, <2>1, <2>2 DEF Money, Later
  <2>3. CASE call[c].pc \in {"wait", "settle"}
    <3> DEFINE i == call[c].tx
    <3>1. i \in DOMAIN tx /\ tx[i] \in Transactions BY <1>0, <2>3 DEF Fits, HasSent, Money
    <3>5. /\ tx[i].status = "mined" => moved >= deposit
          /\ tx[i].status = "pending" => moved + tx[i].amount >= deposit
      BY <2>3
    <3>6. moved <= moved' /\ moved \in Nat /\ moved' \in Nat /\ deposit \in Nat /\ tx[i].amount \in Nat
      BY <1>0, <3>1 DEF Money, Later, Transactions
    <3>7. SUFFICES /\ tx'[i].status = "mined" => moved' >= deposit
                   /\ tx'[i].status = "pending" => moved' + tx'[i].amount >= deposit
      BY <1>1, <2>1, <2>3
    <3>2. CASE tx'[i] = tx[i] BY <3>2, <3>5, <3>6
    <3>3. CASE Mine(i)
      <4>1. tx'[i].status = "mined" => moved' = moved + tx[i].amount /\ tx[i].status = "pending"
        BY <1>0, <3>1, <3>3, MineTx
      <4>2. tx'[i].status # "pending" BY <1>0, <3>1, <3>3, MineTx
      <4> QED BY <3>5, <3>6, <4>1, <4>2
    <3>4. tx'[i] = tx[i] \/ Mine(i)
      <4>1. ASSUME NEW j \in DOMAIN tx, Mine(j), j # i PROVE tx'[i] = tx[i]
        BY <1>0, <3>1, <4>1, MineTx
      <4>2. ASSUME NEW d \in Callers, Send(d) PROVE tx'[i] = tx[i]
        BY <1>0, <3>1, <4>2 DEF Send, Money
      <4> QED BY <4>1, <4>2, MoneyMoves DEF Quiet, Pay, MoneyStep, BepUpdate, CreateDeposit,
           IncVault, IncUser, chain
    <3> QED BY <3>2, <3>3, <3>4
  <2> QED BY <2>2, <2>3
<1>2. ASSUME Acts(c) PROVE Sweeps(c)'
  <2>0. /\ call'[c].pc = "idle" \/ <<call[c].pc, call'[c].pc>> \in Edges
        /\ call[c].pc # "idle" \/ BepStart(c)
    BY <1>2, CallerMoves
  <2> SUFFICES ASSUME call'[c].pc \in {"send", "wait", "settle"} PROVE Sweeps(c)'
    OBVIOUS
  <2>1. CASE BepReadAgain(c)
    <3>1. call'[c].bal = balance /\ call'[c].pc = "send" BY <1>0, <2>1 DEF BepReadAgain, Return,
         NoCall, Calls
    <3>2. UNCHANGED <<moved, deposit>> BY <2>1 DEF BepReadAgain, Keep, books, chain
    <3> QED BY <1>0, <3>1, <3>2 DEF Money, arrived
  <2>2. CASE Send(c)
    <3>1. call'[c].tx = Len(tx) + 1 /\ call'[c].pc = "wait" /\ call[c].pc = "send"
      BY <1>0, <2>2 DEF Send, Calls
    <3>2. tx'[Len(tx) + 1] = [amount |-> call[c].bal, status |-> "pending"]
      BY <1>0, <2>2 DEF Send, Money, Bal
    <3>3. UNCHANGED <<moved, deposit>> BY <2>2 DEF Send, books
    <3> QED BY <1>0, <3>1, <3>2, <3>3
  <2>3. CASE WaitMined(c)
    <3>1. call'[c].tx = call[c].tx /\ call'[c].pc = "settle" /\ call[c].pc = "wait"
      BY <1>0, <2>3 DEF WaitMined, Go, Calls
    <3>2. UNCHANGED <<moved, deposit, tx>> BY <2>3 DEF WaitMined, Keep, books, chain
    <3>3. tx[call[c].tx].status = "mined" BY <2>3 DEF WaitMined
    <3> QED BY <3>1, <3>2, <3>3
  <2>4. BepReadAgain(c) \/ Send(c) \/ WaitMined(c)
    <3>1. call[c].pc \in {"rebalance", "send", "wait"} BY <2>0 DEF Edges
    <3>2. ~CallThrows(c) BY <1>0 DEF CallThrows, Return, NoCall
    <3>3. ~BepReverted(c) /\ ~TronReverted(c) /\ ~OutOfSends(c)
      BY <1>0 DEF BepReverted, TronReverted, OutOfSends, Return, NoCall
    <3> QED BY <1>2, <3>1, <3>2, <3>3 DEF Acts, Work, BepStart, BepReadBalance, BepNotYet,
         BepExpire, BepFunded, BepClaim, BepRevert, BepUpdate, BepPrepare, BepSettle, FindDeposit,
         CreateDeposit, IncVault, IncUser, LogActivity, TronLoad, TronReadBalance,
         TronMarkCredited, TronReady, TronHold, TronHaltFunding, TronFundEnergy, NeedsEnergy,
         TronNoteFunding, TronSaveHash, TronSettle, AccountingThrows, FundingFails, Bep, Tron,
         Booking
  <2> QED BY <2>1, <2>2, <2>3, <2>4
<1>3. CASE Crash BY <1>3 DEF Crash, NoCall
<1>4. ~TronTick /\ ~TronForce BY TronStarts
<1>5. ASSUME NEW d \in Callers, d # c, Acts(d) PROVE call'[c] = call[c]
  BY <1>5, CallerMoves
<1> QED BY <1>1, <1>2, <1>3, <1>4, <1>5, NextMoves

LEMMA PurgedStep ==
  ASSUME TypeInv, Purged, [Next]_vars
  PROVE  Purged'
<1>0. /\ call \in [Callers -> Calls] /\ intent \in Intents /\ Money /\ Money' /\ Later
      /\ \A c \in Callers : Fits(call[c], tx)
  BY MoneyStays DEF TypeInv, World, CallsOK
<1>1. Opened /\ Mined /\ OneCall BY DEF Purged
<1>2. Opened' /\ Mined' /\ OneCall' BY <1>1, OpenedStep, MinedStep, OneCallStep
<1>3. kind' = kind BY MoneyMoves DEF Quiet, Pay, Mine, MoneyStep, BepUpdate, CreateDeposit,
     IncVault, IncUser, Send
<1>4. kind.network = "bep20" => \A c \in Callers : Sweeps(c)'
  BY <1>1, SweepsStep DEF Purged
(* Who settles waited for a transaction that was mined. *)
<1>5. ASSUME NEW c \in Callers, BepSettle(c) \/ TronSettle(c) PROVE moved' > 0
  <2>1. call[c].pc = "settle" /\ moved' = moved
    BY <1>5 DEF BepSettle, TronSettle, Bep, Tron, At, Keep, chain
  <2>2. call[c].tx \in DOMAIN tx /\ tx[call[c].tx].status = "mined"
    BY <1>0, <2>1 DEF Fits, HasSent, TypeInv, CallsOK, Calls, Money
  <2> QED BY <1>1, <2>1, <2>2 DEF Mined
<1>6. Gone' => moved' > 0
  <2>1. Gone => moved' > 0 BY <1>0 DEF Purged, Later, Money
  <2>2. OpenIntent => ~Gone' BY DEF OpenIntent, Gone, NoIntent
  <2> QED BY <1>1, <1>5, <2>1, <2>2, IntentMoves DEF Gone
<1> DEFINE Done ==
      intent'.status = "matched" /\ moved' >= deposit' /\ \A c \in Callers : call'[c].pc = "idle"
<1>7. ASSUME kind.network = "bep20", Gone' PROVE Done
  <2>1. CASE Gone
    <3>1. intent.status = "matched" /\ moved >= deposit /\ \A c \in Callers : call[c].pc = "idle"
      BY <1>7, <2>1 DEF Purged, At
    <3>2. \A c \in Callers : ~Acts(c) BY <3>1, CallerMoves DEF BepStart, Live
    <3>3. ~TronTick /\ ~TronForce BY <1>7, TronStarts
    <3>4. \A c \in Callers : call'[c].pc = "idle" BY <3>1, <3>2, <3>3, NextMoves DEF Crash, NoCall
    <3>5. intent'.status = "matched"
      BY <1>0, <3>1, <3>2, <3>3 DEF Next, Acts, OpenIntent, Pay, CloseWindow, CoolDown, Mine,
           Crash, vars, Intents
    <3>6. deposit' = deposit
      BY <3>2, MoneyMoves DEF Quiet, Pay, Mine, books, MoneyStep, Acts, Work
    <3> QED BY <1>0, <3>1, <3>4, <3>5, <3>6 DEF Money, Later
  <2>2. ASSUME NEW c \in Callers, BepSettle(c) PROVE Done
    <3>1. call[c].pc = "settle" /\ UNCHANGED <<moved, deposit>> /\ intent'.status = "matched"
      BY <1>0, <2>2 DEF BepSettle, Bep, At, Keep, chain, books, Store, Intents
    <3>2. moved >= deposit
      BY <1>0, <1>7, <3>1 DEF Purged, Sweeps, At, Fits
    <3>3. \A d \in Callers \ {c} : call'[d].pc = "idle"
      BY <1>0, <1>1, <1>7, <2>2, <3>1 DEF OneCall, At, BepSettle, Return
    <3>4. call'[c].pc = "idle" BY <1>0, <2>2 DEF BepSettle, Return, NoCall
    <3> QED BY <3>1, <3>2, <3>3, <3>4
  <2>3. ~OpenIntent BY <1>7 DEF OpenIntent, Gone, NoIntent
  <2>4. \A c \in Callers : ~TronSettle(c) BY <1>7 DEF TronSettle, Tron
  <2> QED BY <1>1, <1>7, <2>1, <2>2, <2>3, <2>4, IntentMoves DEF Gone
<1> QED BY <1>2, <1>3, <1>4, <1>6, <1>7 DEF Purged, At

-----------------------------------------------------------------------------
(* Settled with a deposit *)

(* A deposit is never taken back. *)
LEMMA DepositStays ==
  ASSUME TypeInv, [Next]_vars, deposit > 0
  PROVE  deposit' > 0
<1>1. ASSUME NEW c \in Callers, BepUpdate(c) PROVE deposit' > 0
  BY <1>1 DEF BepUpdate, Bep, At, Bal, TypeInv, CallsOK, Fits, HasFound
<1>2. ASSUME NEW c \in Callers, CreateDeposit(c) \/ IncVault(c) \/ IncUser(c) \/ Send(c) PROVE deposit' = deposit
  BY <1>2 DEF CreateDeposit, IncVault, IncUser, Send, books
<1> QED BY <1>1, <1>2, MoneyMoves DEF Quiet, Pay, Mine, books, MoneyStep

(* The row is marked as credited by a claim or after the deposit, and as   *)
(* matched by whoever settles.                                             *)
LEMMA RowMoves ==
  ASSUME TypeInv, [Next]_vars
  PROVE  /\ intent'.credited => intent.credited \/ \E c \in Callers : BepClaim(c) \/ TronMarkCredited(c)
         /\ intent'.status = "matched" =>
              intent.status = "matched" \/ \E c \in Callers : BepSettle(c) \/ TronSettle(c)
<1> DEFINE Fine == /\ intent'.credited => intent.credited
                   /\ intent'.status = "matched" => intent.status = "matched"
<1> USE DEF Keep, Store, Intents
<1>0. intent \in Intents BY DEF TypeInv
<1>1. UNCHANGED intent => Fine OBVIOUS
<1>2. CASE OpenIntent \/ CoolDown \/ TronTick \/ TronForce
  BY <1>0, <1>2 DEF OpenIntent, NoIntent, CoolDown, TronTick, TronForce
<1>3. CASE Pay \/ CloseWindow \/ Crash \/ UNCHANGED vars \/ \E i \in DOMAIN tx : Mine(i)
  BY <1>1, <1>3 DEF Pay, CloseWindow, Crash, vars, Mine
<1>4. ASSUME NEW c \in Callers, Acts(c) PROVE Fine \/ BepClaim(c) \/ TronMarkCredited(c) \/ BepSettle(c) \/ TronSettle(c)
  <2>1. CASE BepStart(c) \/ AccountingThrows(c) \/ CallThrows(c) \/ FundingFails(c)
    BY <1>1, <2>1 DEF BepStart, AccountingThrows, CallThrows, FundingFails
  <2>2. CASE BepUpdate(c) \/ TronHaltFunding(c) \/ TronNoteFunding(c) \/ TronSaveHash(c)
    BY <1>0, <2>2 DEF BepUpdate, TronHaltFunding, TronNoteFunding, TronSaveHash
  <2>3. CASE BepExpire(c) \/ BepRevert(c)
    BY <1>0, <2>3 DEF BepExpire, BepRevert
  <2> QED BY <1>1, <1>4, <2>1, <2>2, <2>3 DEF Acts, Work, BepReadBalance, BepNotYet, BepFunded,
       BepPrepare, BepReadAgain, BepReverted, FindDeposit, CreateDeposit, IncVault, IncUser,
       LogActivity, TronLoad, TronReadBalance, TronReady, TronHold, TronFundEnergy, TronReverted,
       Send, OutOfSends, WaitMined
<1>5. ASSUME NEW c \in Callers, BepSettle(c) \/ TronSettle(c)
      PROVE  intent'.credited => intent.credited
  BY <1>0, <1>5 DEF BepSettle, TronSettle
<1>6. ASSUME NEW c \in Callers, BepClaim(c) \/ TronMarkCredited(c)
      PROVE  intent'.status = "matched" => intent.status = "matched"
  BY <1>0, <1>6 DEF BepClaim, TronMarkCredited
<1> QED BY <1>2, <1>3, <1>4, <1>5, <1>6 DEF Next, Acts

LEMMA TronBookedStep ==
  ASSUME TypeInv, TronBooked, [Next]_vars
  PROVE  TronBooked'
<1>0. /\ call \in [Callers -> Calls] /\ deposit \in Nat
      /\ \A c \in Callers : call[c].doc \in Intents /\ Fits(call[c], tx)
  BY DEF TypeInv, World, Money, CallsOK, Calls
<1>1. kind' = kind BY MoneyMoves DEF Quiet, Pay, Mine, MoneyStep, BepUpdate, CreateDeposit,
     IncVault, IncUser, Send
<1>2. SUFFICES ASSUME kind.network = "trc20", deposit' = 0 PROVE TronBooked'
  BY <1>1, MoneyStays DEF TronBooked, Money
<1>3. deposit = 0 BY <1>0, <1>2, DepositStays
<1>4. /\ ~intent.credited /\ intent.status # "matched"
      /\ \A c \in Callers : call[c].pc \notin PastDeposit /\ (call[c].pc \notin {"idle", "load"} => ~call[c].doc.credited)
  BY <1>2, <1>3 DEF TronBooked
<1> USE DEF At, Bep, Tron
<1>5. ~intent'.credited /\ intent'.status # "matched"
  BY <1>2, <1>4, RowMoves DEF BepClaim, TronMarkCredited, BepSettle, TronSettle, PastDeposit,
       HasSent
<1>6. ASSUME NEW c \in Callers, Acts(c)
      PROVE  call'[c].pc \notin PastDeposit /\ (call'[c].pc \notin {"idle", "load"} => ~call'[c].doc.credited)
  <2>1. call'[c].pc = "idle" \/ (<<call[c].pc, call'[c].pc>> \in Edges /\ call[c].pc # "idle")
    BY <1>2, <1>6, CallerMoves DEF BepStart
  <2>2. CASE TronLoad(c)
    <3>1. call'[c].pc = "idle" \/ (call'[c].doc = intent /\ call'[c].pc = "balance")
      BY <1>0, <2>2 DEF TronLoad, Return, NoCall, Calls
    <3> QED BY <1>4, <3>1 DEF PastDeposit, HasSent
  <2>3. CASE TronReadBalance(c)
    <3>1. call'[c].pc = "idle" \/ (call'[c].doc = call[c].doc /\ call'[c].pc = "findDeposit")
      BY <1>0, <1>4, <2>3 DEF TronReadBalance, Return, NoCall, Calls, Doc
    <3> QED BY <1>4, <2>3, <3>1 DEF PastDeposit, HasSent, TronReadBalance
  <2>4. CASE FindDeposit(c)
    <3>1. call'[c].doc = call[c].doc /\ call'[c].pc = "create"
      BY <1>0, <1>3, <2>4 DEF FindDeposit, Go, Calls
    <3> QED BY <1>4, <2>4, <3>1 DEF PastDeposit, HasSent, FindDeposit
  <2>5. ~CreateDeposit(c)
    <3>1. SUFFICES ASSUME CreateDeposit(c) PROVE FALSE OBVIOUS
    <3>2. deposit' = call[c].bal /\ call[c].bal > 0
      BY <1>0, <1>3, <3>1 DEF CreateDeposit, Bal, Fits, HasFound, Booking
    <3> QED BY <1>2, <3>2
  <2>6. CASE call'[c].pc = "idle" BY <2>6 DEF PastDeposit, HasSent
  <2>7. CASE call'[c].pc # "idle"
    <3>1. call[c].pc \in {"load", "balance", "findDeposit", "create"}
      BY <1>2, <1>4, <2>1, <2>7 DEF Edges, PastDeposit, HasSent
    <3>2. TronLoad(c) \/ TronReadBalance(c) \/ FindDeposit(c) \/ CreateDeposit(c)
      BY <1>0, <1>2, <1>6, <2>7, <3>1 DEF Acts, Work, BepStart, BepReadBalance, BepNotYet,
           BepExpire, BepFunded, BepClaim, BepRevert, BepUpdate, BepPrepare, BepReadAgain,
           BepReverted, BepSettle, IncVault, IncUser, LogActivity, TronMarkCredited, TronReady,
           TronHold, TronHaltFunding, TronFundEnergy, NeedsEnergy, TronNoteFunding, TronSaveHash,
           TronReverted, TronSettle, Send, OutOfSends, WaitMined, AccountingThrows, CallThrows,
           FundingFails, Return, NoCall
    <3> QED BY <2>2, <2>3, <2>4, <2>5, <3>2
  <2> QED BY <2>6, <2>7
<1>7. ASSUME NEW d \in Callers
      PROVE  call'[d].pc \notin PastDeposit /\ (call'[d].pc \notin {"idle", "load"} => ~call'[d].doc.credited)
  <2>1. CASE call'[d] = call[d] BY <1>4, <2>1
  <2>2. CASE Crash BY <2>2 DEF Crash, NoCall, PastDeposit, HasSent
  <2>3. ASSUME NEW c \in Callers, Acts(c) PROVE d = c \/ call'[d] = call[d]
    BY <2>3, CallerMoves
  <2>4. CASE TronTick \/ TronForce
    <3>1. PICK c \in Callers : At(c, "idle") /\ call' = [call EXCEPT ![c].pc = "load"]
      BY <2>4, TronStarts
    <3>2. d # c => call'[d] = call[d] BY <1>0, <3>1
    <3>3. call'[c].pc = "load" BY <1>0, <3>1 DEF Calls
    <3> QED BY <1>4, <3>2, <3>3 DEF PastDeposit, HasSent
  <2> QED BY <1>6, <2>1, <2>2, <2>3, <2>4, NextMoves
<1> QED BY <1>2, <1>5, <1>7 DEF TronBooked

LEMMA BscBookedStep ==
  ASSUME TypeInv, Opened, OneCall, BscBooked, [Next]_vars
  PROVE  BscBooked'
<1>0. /\ call \in [Callers -> Calls] /\ intent \in Intents /\ deposit \in Nat
      /\ budget \in [faults : Nat, crashes : Nat, forces : Nat]
      /\ \A c \in Callers : Fits(call[c], tx)
  BY DEF TypeInv, World, Money, CallsOK
<1>1. kind' = kind BY MoneyMoves DEF Quiet, Pay, Mine, MoneyStep, BepUpdate, CreateDeposit,
     IncVault, IncUser, Send
<1>2. SUFFICES ASSUME kind.network = "bep20" PROVE BscBooked'
  BY <1>1 DEF BscBooked
<1> DEFINE Calm == budget.crashes = 0 /\ budget.faults <= 1
           Row == /\ intent.status = "pending" => ~intent.credited
                  /\ intent.status = "credited" => intent.credited
<1>3. /\ Row /\ \A c \in Callers : Fresh(c)
      /\ Calm => /\ \A c \in Callers : call[c].pc = "revert" => budget.faults = 1
                 /\ \A c \in Callers : call[c].pc \in AfterBooking => deposit > 0
                 /\ intent.status = "matched" => deposit > 0
                 /\ intent.credited => deposit > 0 \/ \E c \in Callers : call[c].pc \in Claimed
  BY <1>2 DEF BscBooked, At
<1> USE DEF At, Bep, Tron, Keep, Store, books
(* Steps that leave the calls alone. *)
<1>4. CASE UNCHANGED <<call, deposit, budget>> /\ intent'.status = intent.status /\ intent'.credited = intent.credited
  BY <1>1, <1>3, <1>4 DEF BscBooked, Fresh
<1>5. CASE OpenIntent
  <2>1. \A c \in Callers : call'[c].pc = "idle" BY <1>5 DEF OpenIntent, Opened
  <2>2. intent'.status = "pending" /\ ~intent'.credited BY <1>5 DEF OpenIntent, NoIntent
  <2> QED BY <2>1, <2>2 DEF BscBooked, Fresh, AfterBooking, HasSent
<1>6. CASE Crash
  <2>1. (\A c \in Callers : call'[c].pc = "idle") /\ UNCHANGED intent /\ budget'.crashes # 0
    BY <1>0, <1>6 DEF Crash, NoCall, Trouble
  <2> QED BY <1>3, <2>1 DEF BscBooked, Fresh
<1>7. ~TronTick /\ ~TronForce BY <1>2 DEF TronTick, TronForce
(* A call that moves is the only one. *)
<1>8. ASSUME NEW c \in Callers, Acts(c) PROVE BscBooked'
  <2>1. \A d \in Callers \ {c} : call[d].pc = "idle" /\ call'[d].pc = "idle"
    BY <1>2, <1>8, CallerMoves DEF OneCall, BepStart
  <2>2. /\ call[c] \in Calls /\ Fresh(c) /\ Fits(call[c], tx)
        /\ Calm => /\ call[c].pc = "revert" => budget.faults = 1
                   /\ call[c].pc \in AfterBooking => deposit > 0
                   /\ intent.status = "matched" => deposit > 0
                   /\ intent.credited => deposit > 0 \/ call[c].pc \in Claimed
    BY <1>0, <1>3, <2>1 DEF Claimed
  <2>3. SUFFICES /\ Row' /\ Fresh(c)'
                 /\ Calm' => /\ call'[c].pc = "revert" => budget'.faults = 1
                             /\ call'[c].pc \in AfterBooking => deposit' > 0
                             /\ intent'.status = "matched" => deposit' > 0
                             /\ intent'.credited => deposit' > 0 \/ call'[c].pc \in Claimed
    BY <2>1 DEF BscBooked, Fresh, AfterBooking, HasSent
  <2> USE <1>0, <1>2, <1>3, <2>2
  <2>4. CASE BepStart(c)
    <3>1. call'[c].pc = "balance" /\ call'[c].doc = intent BY <2>4 DEF BepStart, Calls
    <3>2. UNCHANGED <<intent, deposit>> /\ budget'.faults = budget.faults /\ budget'.crashes = budget.crashes
      BY <2>4 DEF BepStart, Ask
    <3> QED BY <2>4, <3>1, <3>2 DEF BepStart, Live, Fresh, AfterBooking, HasSent, Claimed
  <2>5. CASE BepReadBalance(c)
    <3>1. call[c].pc = "balance" /\ call'[c].pc = "judge" /\ call'[c].doc = call[c].doc
      BY <2>5 DEF BepReadBalance, Calls
    <3> QED BY <2>5, <3>1 DEF BepReadBalance, Fresh, AfterBooking, HasSent, Claimed
  <2>6. CASE BepExpire(c)
    <3>1. call[c].pc = "judge" /\ call'[c].pc = "idle" BY <2>6 DEF BepExpire, Return, NoCall
    <3>2. intent'.credited = intent.credited /\ (intent'.status = intent.status \/ intent'.status = "expired")
          /\ UNCHANGED <<deposit, budget>>
      BY <2>6 DEF BepExpire, Intents
    <3> QED BY <3>1, <3>2 DEF Fresh, AfterBooking, HasSent, Claimed
  <2>7. CASE BepFunded(c)
    <3>1. call[c].pc = "judge" /\ UNCHANGED <<intent, deposit, budget>> /\ call'[c].doc = call[c].doc
          /\ call'[c].pc = IF call[c].doc.credited THEN "update" ELSE "claim"
      BY <2>7 DEF BepFunded, Go, Calls, Doc
    <3> QED BY <3>1 DEF Fresh, AfterBooking, HasSent, Claimed
  <2>8. CASE BepClaim(c)
    <3>1. intent.status = "pending" /\ ~intent.credited BY <2>8 DEF BepClaim, Fresh
    <3>3. call'[c].pc = "findDeposit" BY <2>8, <3>1 DEF BepClaim, Go, Calls
    <3>4. intent' = [intent EXCEPT !.status = "credited", !.credited = TRUE, !.received = Bal(c)]
      BY <2>8, <3>1 DEF BepClaim
    <3>2. call'[c].pc = "findDeposit" /\ intent'.status = "credited" /\ intent'.credited
      BY <3>3, <3>4 DEF Intents
    <3> QED BY <3>2 DEF Fresh, AfterBooking, HasSent, Claimed
  <2>9. CASE BepRevert(c)
    <3>1. call'[c].pc = "idle" /\ intent'.status = "pending" /\ ~intent'.credited
      BY <2>9 DEF BepRevert, Return, NoCall, Intents
    <3> QED BY <3>1 DEF Fresh, AfterBooking, HasSent
  <2>10. CASE BepUpdate(c)
    <3>1. /\ call[c].pc = "update" /\ call'[c].pc = "reread" /\ UNCHANGED budget
          /\ intent'.status = intent.status /\ intent'.credited = intent.credited
      BY <2>10 DEF BepUpdate, Go, Calls, Intents
    <3>2. deposit > 0 => deposit' > 0 BY DepositStays
    <3> QED BY <3>1, <3>2 DEF Fresh, AfterBooking, HasSent, Claimed
  <2>11. CASE BepSettle(c)
    <3>1. /\ call[c].pc = "settle" /\ call'[c].pc = "idle" /\ UNCHANGED <<deposit, budget>>
          /\ intent'.status = "matched"
      BY <2>11 DEF BepSettle, Return, NoCall, Intents
    <3> QED BY <3>1 DEF Fresh, AfterBooking, HasSent
  <2>12. CASE FindDeposit(c) \/ CreateDeposit(c) \/ IncVault(c) \/ IncUser(c) \/ LogActivity(c)
    <3>1. /\ UNCHANGED <<intent, budget>> /\ call[c].pc \in Booking
          /\ call'[c].pc \in {"create", "incVault", "incUser", "activity", "reread"}
          /\ Calm /\ call'[c].pc # "create" => deposit' > 0
      <4>1. CASE FindDeposit(c) BY <2>12, <4>1 DEF FindDeposit, AfterCredit, Go, Calls, Booking
      <4>2. CASE CreateDeposit(c)
        BY <2>12, <4>2 DEF CreateDeposit, AfterCredit, Go, Calls, Booking, Bal, Fits, HasFound
      <4>3. CASE IncVault(c) \/ IncUser(c) \/ LogActivity(c)
        <5>1. \/ call[c].pc = "incVault" /\ call'[c].pc = "incUser"
              \/ call[c].pc = "incUser" /\ call'[c].pc = "activity"
              \/ call[c].pc = "activity" /\ call'[c].pc = "reread"
          BY <4>3 DEF IncVault, IncUser, LogActivity, AfterCredit, Go, Calls
        <5>2. UNCHANGED <<intent, budget, deposit>> BY <4>3 DEF IncVault, IncUser, LogActivity
        <5> QED BY <5>1, <5>2 DEF Booking, AfterBooking
      <4> QED BY <2>12, <4>1, <4>2, <4>3
    <3>2. deposit > 0 => deposit' > 0 BY DepositStays
    <3> QED BY <3>1, <3>2 DEF Fresh, Claimed, AfterBooking, HasSent, Booking
  <2>13. CASE AccountingThrows(c)
    <3>1. /\ UNCHANGED <<intent, deposit>> /\ call'[c].pc = "revert"
          /\ budget'.faults = budget.faults + 1 /\ budget'.crashes = budget.crashes
      BY <2>13 DEF AccountingThrows, Go, Calls, Trouble
    <3> QED BY <3>1 DEF Fresh, AfterBooking, HasSent, Claimed
  <2>14. CASE CallThrows(c)
    <3>1. /\ UNCHANGED <<intent, deposit>> /\ call'[c].pc = "idle" /\ call[c].pc \notin Booking
          /\ budget'.faults = budget.faults + 1 /\ budget'.crashes = budget.crashes
      BY <2>14 DEF CallThrows, Return, NoCall, Trouble
    <3> QED BY <3>1 DEF Fresh, AfterBooking, HasSent, Claimed, Booking
  <2>15. CASE BepNotYet(c) \/ BepPrepare(c) \/ BepReadAgain(c) \/ BepReverted(c) \/ Send(c) \/ OutOfSends(c) \/ WaitMined(c)
    <3>1. /\ UNCHANGED <<intent, deposit, budget>>
          /\ \/ call'[c].pc = "idle" /\ call[c].pc \notin Claimed
             \/ call'[c].pc \in {"rebalance", "send", "wait", "settle"} /\ call[c].pc \in AfterBooking
      <4>1. CASE BepNotYet(c) \/ BepReverted(c) \/ OutOfSends(c)
        BY <4>1 DEF BepNotYet, BepReverted, OutOfSends, Return, NoCall, Claimed
      <4>2. CASE BepPrepare(c) BY <4>2 DEF BepPrepare, Go, Return, NoCall, Calls, AfterBooking,
           Claimed
      <4>3. CASE BepReadAgain(c) BY <4>3 DEF BepReadAgain, Return, NoCall, Calls, AfterBooking,
           Claimed
      <4>4. CASE Send(c) BY <4>4 DEF Send, Calls, AfterBooking
      <4>5. CASE WaitMined(c) BY <4>5 DEF WaitMined, Go, Calls, AfterBooking, HasSent
      <4> QED BY <2>15, <4>1, <4>2, <4>3, <4>4, <4>5
    <3> QED BY <3>1 DEF Fresh, AfterBooking, HasSent, Claimed
  <2> QED BY <1>8, <2>4, <2>5, <2>6, <2>7, <2>8, <2>9, <2>10, <2>11, <2>12, <2>13, <2>14, <2>15
       DEF OneCall, Acts, Work, TronLoad, TronReadBalance, TronMarkCredited, TronReady, TronHold,
            TronHaltFunding, TronFundEnergy, NeedsEnergy, TronNoteFunding, TronSaveHash,
            TronReverted, TronSettle, FundingFails
<1>9. ASSUME ~OpenIntent, ~Crash, \A c \in Callers : ~Acts(c)
      PROVE  UNCHANGED <<call, deposit, budget>> /\ intent'.status = intent.status /\ intent'.credited = intent.credited
  BY <1>0, <1>7, <1>9 DEF Next, Acts, vars, Pay, CloseWindow, CoolDown, Mine, Intents
<1> QED BY <1>4, <1>5, <1>6, <1>8, <1>9

-----------------------------------------------------------------------------
(* The theorems *)

LEMMA IInvInit == Init => IInv
<1> SUFFICES ASSUME Init PROVE IInv OBVIOUS
<1>1. TypeInv BY TypeInit
<1>2. \A c \in Callers : call[c] = NoCall BY DEF Init
<1>3. intent = NoIntent /\ deposit = 0 /\ vaultTotal = 0 /\ userTotal = 0 /\ moved = 0 /\ balance = 0
      /\ tx = << >>
  BY DEF Init
<1>4. BookedOnce BY <1>2, <1>3 DEF BookedOnce, NoCall, Owing, arrived
<1>5. Purged
  <2>1. Mined BY <1>3 DEF Mined
  <2> QED BY <1>2, <1>3, <2>1 DEF Purged, Opened, OneCall, Gone, Sweeps, NoIntent, NoCall, At
<1>6. TronBooked BY <1>2, <1>3 DEF TronBooked, NoIntent, NoCall, PastDeposit, HasSent
<1>7. BscBooked BY <1>2, <1>3 DEF BscBooked, Fresh, NoIntent, NoCall, At, AfterBooking, HasSent
<1> QED BY <1>1, <1>4, <1>5, <1>6, <1>7 DEF IInv

LEMMA IInvStep == IInv /\ [Next]_vars => IInv'
<1> SUFFICES ASSUME IInv, [Next]_vars PROVE IInv' OBVIOUS
<1>1. TypeInv /\ BookedOnce /\ Purged /\ TronBooked /\ BscBooked BY DEF IInv
<1>2. Opened /\ OneCall BY <1>1 DEF Purged
<1> QED BY <1>1, <1>2, TypeStep, BookedStep, PurgedStep, TronBookedStep, BscBookedStep DEF IInv

LEMMA IInvCorrect == Spec => []IInv
BY IInvInit, IInvStep, PTL DEF Spec

(* What the rows and the local variables of the calls may hold: amounts    *)
(* are bounded by what was ever paid to the address.                       *)
THEOREM TypeCorrect == Spec => []TypeOK
<1>1. IInv => TypeOK BY TypeInvImpliesTypeOK DEF IInv
<1> QED BY <1>1, IInvCorrect, PTL

(* applyDepositAccounting adds a payment to the totals once, whatever      *)
(* calls interleave, throw and are retried.                                *)
THEOREM CreditedAtMostOnce == Spec => []NeverCreditedTwice
<1>1. IInv => NeverCreditedTwice BY DEF IInv, BookedOnce, NeverCreditedTwice
<1> QED BY <1>1, IInvCorrect, PTL

(* A key is erased only after a transaction of its caller was mined, which *)
(* on BSC moved everything that was credited.                              *)
THEOREM PurgeIsSafe == Spec => []PurgedIsInTreasury
<1>1. IInv => PurgedIsInTreasury BY DEF IInv, Purged, Gone, PurgedIsInTreasury
<1> QED BY <1>1, IInvCorrect, PTL

(* Without a restart and with at most one failed call, an intent is not    *)
(* settled without a deposit.                                              *)
THEOREM SettledIsBooked == Spec => []SettledHasDeposit
<1>1. ASSUME IInv PROVE SettledHasDeposit
  <2>1. TypeInv /\ Purged /\ TronBooked /\ BscBooked BY <1>1 DEF IInv
  <2>2. SUFFICES ASSUME intent.status = "matched", budget.crashes = 0, budget.faults <= 1
                 PROVE  deposit > 0
    BY DEF SettledHasDeposit
  <2>3. kind.network \in {"bep20", "trc20"} BY <2>1 DEF TypeInv, World, Money
  <2>4. CASE kind.network = "trc20" BY <2>1, <2>2, <2>4 DEF TronBooked
  <2>5. CASE kind.network = "bep20" BY <2>1, <2>2, <2>5 DEF BscBooked
  <2> QED BY <2>3, <2>4, <2>5
<1> QED BY <1>1, IInvCorrect, PTL

-----------------------------------------------------------------------------
(* Booked in order *)

(* What a booking that has begun adds is what its deposit holds, or what   *)
(* it has already added to the vault.                                      *)
InStep == \A c \in Callers :
  /\ call[c].pc = "incVault" => deposit = call[c].bal
  /\ call[c].pc = "incUser" => vaultTotal = call[c].bal

(* Nobody but its own call touches a call that owes. *)
LEMMA OwingStays ==
  ASSUME TypeInv, [Next]_vars, \A c \in Callers : ~CreateDeposit(c) /\ ~IncVault(c)
  PROVE  \A d \in Callers : call'[d].pc \in Owing => call'[d] = call[d]
<1> SUFFICES ASSUME NEW d \in Callers, call'[d].pc \in Owing PROVE call'[d] = call[d]
  OBVIOUS
<1>1. call'[d].pc = call[d].pc
  BY OwingArrives
<1>2. ASSUME NEW c \in Callers, Acts(c) PROVE call'[d] = call[d]
  <2>1. CASE c = d
    <3>1. <<call[d].pc, call[d].pc>> \in Edges
      BY <1>1, <1>2, <2>1, CallerMoves DEF Owing
    <3> QED  BY <3>1 DEF Edges, Booking
  <2> QED  BY <1>2, <2>1, CallerMoves
<1>3. CASE Crash
  BY <1>3 DEF Crash, NoCall, Owing
<1>4. CASE TronTick \/ TronForce
  <2>1. call \in [Callers -> Calls]
    BY DEF TypeInv, CallsOK
  <2>2. PICK c \in Callers : call' = [call EXCEPT ![c].pc = "load"]
    BY <1>4, TronStarts
  <2>3. d # c
    BY <2>1, <2>2 DEF Owing, Calls
  <2> QED  BY <2>1, <2>2, <2>3
<1>5. CASE UNCHANGED call
  BY <1>5
<1> QED  BY <1>2, <1>3, <1>4, <1>5, NextMoves

LEMMA InStepStep ==
  ASSUME IInv, InStep, [Next]_vars
  PROVE  InStep'
<1> USE DEF IInv
<1>0. /\ call \in [Callers -> Calls] /\ vaultTotal \in Nat
      /\ \A c \in Callers : call[c].bal \in Nat
  BY DEF TypeInv, World, Money, CallsOK, Calls
<1>1. CASE \A c \in Callers : ~CreateDeposit(c) /\ ~IncVault(c)
  <2>1. \A d \in Callers : call'[d].pc \in Owing => call'[d] = call[d]
    BY <1>1, OwingStays
  <2>2. CASE UNCHANGED <<deposit, vaultTotal>>
    BY <2>1, <2>2 DEF InStep, Owing
  <2>3. ASSUME NEW c \in Callers, BepUpdate(c) PROVE InStep'
    <3>1. kind.network = "bep20" /\ call[c].pc = "update" /\ UNCHANGED vaultTotal
      BY <2>3 DEF BepUpdate, Bep, At
    <3>2. \A d \in Callers : call[d].pc \notin Owing
      BY <3>1 DEF Purged, OneCall, At, Owing
    <3> QED  BY <2>1, <3>2 DEF InStep, Owing
  <2> QED  BY <1>1, <2>2, <2>3, MoneyMoves DEF Quiet, Pay, Mine, books, MoneyStep, Send, IncUser
<1>2. ASSUME NEW c \in Callers, CreateDeposit(c) PROVE InStep'
  <2>1. \A d \in Callers : d # c => call'[d] = call[d]
    BY <1>0, <1>2 DEF CreateDeposit, AfterCredit, Go
  <2>2. UNCHANGED vaultTotal
    BY <1>2 DEF CreateDeposit
  <2>3. CASE deposit = 0
    <3>1. deposit' = call[c].bal /\ call'[c].pc = "incVault" /\ call'[c].bal = call[c].bal
      BY <1>0, <1>2, <2>3 DEF CreateDeposit, Bal, Go, Calls
    <3>2. \A d \in Callers \ {c} : call'[d].pc \notin Owing
      BY <2>1, <2>3 DEF BookedOnce
    <3> QED  BY <3>1, <3>2 DEF InStep, Owing
  <2>4. CASE deposit # 0
    <3>1. deposit' = deposit /\ call'[c].pc \notin Owing
      BY <1>0, <1>2, <2>4 DEF CreateDeposit, AfterCredit, Go, Calls, Owing
    <3> QED  BY <2>1, <2>2, <3>1 DEF InStep, Owing
  <2> QED  BY <2>3, <2>4
<1>3. ASSUME NEW c \in Callers, IncVault(c) PROVE InStep'
  <2>1. \A d \in Callers : d # c => call'[d] = call[d]
    BY <1>0, <1>3 DEF IncVault, Go
  <2>2. /\ vaultTotal' = vaultTotal + call[c].bal /\ call'[c].bal = call[c].bal
        /\ call[c].pc = "incVault" /\ call'[c].pc = "incUser"
    BY <1>0, <1>3 DEF IncVault, Bal, At, Go, Calls
  <2>3. vaultTotal = 0 /\ \A d \in Callers \ {c} : call'[d].pc \notin Owing
    BY <2>1, <2>2 DEF Owing, BookedOnce
  <2> QED  BY <1>0, <2>2, <2>3 DEF InStep, Owing
<1> QED  BY <1>1, <1>2, <1>3

OrderedStep ==
  /\ vaultTotal' # vaultTotal => vaultTotal = 0 /\ vaultTotal' = deposit
  /\ userTotal' # userTotal => userTotal = 0 /\ userTotal' = vaultTotal
  /\ deposit > 0 => deposit' > 0

LEMMA InOrder ==
  ASSUME IInv, InStep, [Next]_vars
  PROVE  OrderedStep
<1> USE DEF IInv
<1>0. deposit > 0 => deposit' > 0
  BY DepositStays
<1>1. ASSUME NEW c \in Callers, IncVault(c) PROVE OrderedStep
  <2>1. /\ call[c].pc = "incVault" /\ vaultTotal' = vaultTotal + call[c].bal /\ UNCHANGED userTotal
        /\ call[c].bal \in Nat
    BY <1>1 DEF IncVault, At, Bal, TypeInv, CallsOK, Calls
  <2>2. vaultTotal = 0 /\ deposit = call[c].bal
    BY <2>1 DEF BookedOnce, InStep
  <2> QED  BY <1>0, <2>1, <2>2 DEF OrderedStep
<1>2. ASSUME NEW c \in Callers, IncUser(c) PROVE OrderedStep
  <2>1. /\ call[c].pc = "incUser" /\ userTotal' = userTotal + call[c].bal /\ UNCHANGED vaultTotal
        /\ call[c].bal \in Nat
    BY <1>2 DEF IncUser, At, Bal, TypeInv, CallsOK, Calls
  <2>2. userTotal = 0 /\ vaultTotal = call[c].bal
    BY <2>1 DEF BookedOnce, InStep, Owing
  <2> QED  BY <1>0, <2>1, <2>2 DEF OrderedStep
<1>3. CASE UNCHANGED <<vaultTotal, userTotal>>
  BY <1>0, <1>3 DEF OrderedStep
<1> QED  BY <1>1, <1>2, <1>3, MoneyMoves DEF Quiet, Pay, Mine, books, MoneyStep, Send, BepUpdate,
         CreateDeposit

LEMMA OrderCorrect == Spec => [](IInv /\ InStep)
<1>1. Init => IInv /\ InStep
  BY IInvInit DEF Init, InStep, NoCall
<1>2. IInv /\ InStep /\ [Next]_vars => (IInv /\ InStep)'
  BY IInvStep, InStepStep
<1> QED  BY <1>1, <1>2, PTL DEF Spec

(* Under the mapping of Ledger every step is a step of the ledger, or none. *)
LEMMA LedgerStep ==
  ASSUME IInv, InStep, [Next]_vars
  PROVE  [Ledger!Next]_(Ledger!vars)
<1> USE DEF IInv
<1>0. /\ deposit \in Nat /\ vaultTotal \in Nat /\ userTotal \in Nat
      /\ \A c \in Callers : call[c].bal \in Nat /\ (call[c].pc \in HasFound => call[c].bal > 0)
      /\ deposit = 0 => vaultTotal = 0 /\ userTotal = 0
  BY DEF TypeInv, World, Money, CallsOK, Calls, Fits, BookedOnce
<1>1. ASSUME NEW c \in Callers, CreateDeposit(c) PROVE [Ledger!Next]_(Ledger!vars)
  <2>1. UNCHANGED <<vaultTotal, userTotal>>
    BY <1>1 DEF CreateDeposit
  <2>2. CASE deposit = 0
    <3>1. deposit' = call[c].bal /\ call[c].bal > 0
      BY <1>0, <1>1, <2>2 DEF CreateDeposit, Bal, At, HasFound, Booking
    <3>2. Ledger!Claim("payment")
      BY <1>0, <2>1, <2>2, <3>1 DEF Ledger!Claim
    <3> QED  BY <3>2 DEF Ledger!Next
  <2>3. CASE deposit # 0
    <3>1. UNCHANGED deposit
      BY <1>1, <2>3 DEF CreateDeposit
    <3> QED  BY <2>1, <3>1 DEF Ledger!vars
  <2> QED  BY <2>2, <2>3
<1>2. ASSUME NEW c \in Callers, IncVault(c) PROVE [Ledger!Next]_(Ledger!vars)
  <2>1. /\ call[c].pc = "incVault" /\ vaultTotal' = vaultTotal + call[c].bal
        /\ UNCHANGED <<deposit, userTotal>>
    BY <1>2 DEF IncVault, At, Bal
  <2>2. vaultTotal = 0 /\ deposit > 0 /\ call[c].bal > 0
    BY <1>0, <2>1 DEF BookedOnce, Owing, HasFound, Booking
  <2>3. Ledger!RaiseVault("payment")
    BY <1>0, <2>1, <2>2 DEF Ledger!RaiseVault
  <2> QED  BY <2>3 DEF Ledger!Next
<1>3. ASSUME NEW c \in Callers, IncUser(c) PROVE [Ledger!Next]_(Ledger!vars)
  <2>1. /\ call[c].pc = "incUser" /\ userTotal' = userTotal + call[c].bal
        /\ UNCHANGED <<deposit, vaultTotal>>
    BY <1>3 DEF IncUser, At, Bal
  <2>2. userTotal = 0 /\ vaultTotal > 0 /\ call[c].bal > 0
    BY <1>0, <2>1 DEF BookedOnce, InStep, Owing, HasFound, Booking
  <2>3. Ledger!PayUser("payment")
    BY <1>0, <2>1, <2>2 DEF Ledger!PayUser
  <2> QED  BY <2>3 DEF Ledger!Next
<1>4. ASSUME NEW c \in Callers, BepUpdate(c) PROVE [Ledger!Next]_(Ledger!vars)
  <2>1. UNCHANGED <<vaultTotal, userTotal>> /\ (deposit' > 0 <=> deposit > 0)
    BY <1>0, <1>4 DEF BepUpdate, Bal, Bep, At, HasFound
  <2> QED  BY <2>1 DEF Ledger!vars
<1>5. CASE UNCHANGED <<deposit, vaultTotal, userTotal>>
  BY <1>5 DEF Ledger!vars
<1> QED  BY <1>1, <1>2, <1>3, <1>4, <1>5, MoneyMoves DEF Quiet, Pay, Mine, books, MoneyStep, Send

(* applyDepositAccounting books a one-time deposit in order: the vault is  *)
(* raised once, by what was inserted, then the user once, by as much; what *)
(* is left undone by a throw is never done a second time by a retry.       *)
THEOREM BooksInOrder == Spec => BookedInOrder
<1>1. IInv /\ InStep /\ [Next]_vars => OrderedStep
  BY InOrder
<1> QED  BY <1>1, OrderCorrect, PTL DEF Spec, BookedInOrder, OrderedStep

(* The one-time address keeps what CreditLedger promises of a credit: one  *)
(* claim, then the vault, then the user, in every interleaving of the tick *)
(* and an admin's call on either network.                                  *)
THEOREM LedgerKept == Spec => ImplementsLedger
<1>1. Init => Ledger!Init
  BY DEF Init, Ledger!Init
<1>2. IInv /\ InStep /\ [Next]_vars => [Ledger!Next]_(Ledger!vars)
  BY LedgerStep
<1> QED  BY <1>1, <1>2, OrderCorrect, PTL DEF Spec, ImplementsLedger, Ledger!Spec

=============================================================================
