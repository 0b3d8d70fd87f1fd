----------------------------- MODULE Withdrawals -----------------------------
(***************************************************************************)
(* Withdrawals of one user: requestWithdraw of user.controller.ts files a  *)
(* request, processWithdrawal of admin.controller.ts approves it (claim,   *)
(* check the payee, debit, pay on chain, complete; or refund and put it    *)
(* back in the queue) or rejects it.  Calls of several clients and several *)
(* admins interleave at every await; a batch is one admin's calls in turn. *)
(*                                                                         *)
(* A deposit is worth one unit.  The early-exit fee is left out: a request *)
(* pays what it debits.                                                    *)
(***************************************************************************)
EXTENDS Integers, Sequences, FiniteSets

CONSTANTS
  Deposits,       \* the user's deposits
  Clients,        \* concurrent requestWithdraw calls
  Admins,         \* concurrent processWithdrawal calls
  NoDeposit,
  MaxRequests,    \* bound: requests filed
  MaxEarned,      \* bound: units of yield and of commission that mature
  Loads           \* bounds: what may happen, and how often, in one behaviour

Sources == {"deposit", "yield", "referral"}

(* The sources that are withdrawn from, the admins at work, database       *)
(* updates that throw, payouts refused or reverted, payouts sent whose     *)
(* confirmation is not seen, restarts, and whether a wallet is unlinked.   *)
ASSUME WithdrawalsAssumption ==
  /\ NoDeposit \notin Deposits /\ IsFiniteSet(Deposits)
  /\ Clients \intersect Admins = {} /\ IsFiniteSet(Admins)
  /\ MaxRequests \in Nat /\ MaxEarned \in Nat
  /\ Loads \subseteq [sources : SUBSET Sources, admins : SUBSET Admins, errors : Nat,
                      payErrors : Nat, timeouts : Nat, crashes : Nat, unlink : BOOLEAN]

VARIABLES
  request,        \* the withdraw-requests rows, in the order of creation
  deposit,        \* deposit[d]: "active" or "withdrawn"
  staked,         \* totalStaked of the vault
  wallet,         \* yieldWallet and referralEarnings of the user
  earned,         \* what has ever been credited to each
  totalWithdrawn,
  linked,         \* is the payout wallet linked to the user
  payout,         \* payouts sent: [request, status]
  client, admin,  \* the calls under way
  budget,         \* errors, refusals, timeouts and restarts so far
  load

calls == <<client, admin>>
user == <<wallet, totalWithdrawn>>
vars == <<request, deposit, staked, wallet, earned, totalWithdrawn, linked, payout, calls, budget, load>>

Wallets == {"yield", "referral"}
NoCall == [pc |-> "idle", source |-> "yield", deposit |-> NoDeposit, amount |-> 0]
NoReview == [pc |-> "idle", request |-> 0, undo |-> FALSE, payout |-> 0]

Init ==
  /\ load \in Loads
  /\ request = << >>
  /\ deposit = [d \in Deposits |-> "active"]
  /\ staked = Cardinality(Deposits)
  /\ wallet = [w \in Wallets |-> 0]
  /\ earned = [w \in Wallets |-> 0]
  /\ totalWithdrawn = 0
  /\ linked = TRUE
  /\ payout = << >>
  /\ client = [c \in Clients |-> NoCall]
  /\ admin = [a \in Admins |-> NoReview]
  /\ budget = [errors |-> 0, payErrors |-> 0, timeouts |-> 0, crashes |-> 0]

Spend(k) == budget[k] < load[k] /\ budget' = [budget EXCEPT ![k] = @ + 1]

-----------------------------------------------------------------------------
(* requestWithdraw *)

(* The user row, and for a redemption the deposit, is read first; the      *)
(* balance of a referral request comes from this copy.                     *)
BeginRequest(c, s, d) ==
  /\ client[c].pc = "idle" /\ linked /\ s \in load.sources
  /\ IF s = "deposit" THEN d \in Deposits /\ deposit[d] = "active" ELSE d = NoDeposit
  /\ client' = [client EXCEPT ![c] =
       [pc |-> "check", source |-> s, deposit |-> d,
        amount |-> CASE s = "deposit" -> 1 [] s = "yield" -> 0 [] OTHER -> wallet[s]]]
  /\ UNCHANGED <<load, request, deposit, staked, user, earned, linked, payout, admin, budget>>

PendingLike(s, d) ==
  \E i \in DOMAIN request :
    request[i].status = "pending" /\ request[i].source = s /\ request[i].deposit = d

Refused(c) ==
  /\ client[c].pc = "check"
  /\ \/ PendingLike(client[c].source, client[c].deposit)
     \/ client[c].source = "referral" /\ client[c].amount <= 0
  /\ client' = [client EXCEPT ![c] = NoCall]
  /\ UNCHANGED <<load, request, deposit, staked, user, earned, linked, payout, admin, budget>>

(* A referral request names any amount within the copy. *)
Accepted(c) ==
  /\ client[c].pc = "check"
  /\ ~PendingLike(client[c].source, client[c].deposit)
  /\ \/ /\ client[c].source = "yield"
        /\ client' = [client EXCEPT ![c].pc = "readYield"]
     \/ /\ client[c].source = "deposit"
        /\ client' = [client EXCEPT ![c].pc = "create"]
     \/ /\ client[c].source = "referral"
        /\ \E n \in 1..client[c].amount :
             client' = [client EXCEPT ![c].pc = "create", ![c].amount = n]
  /\ UNCHANGED <<load, request, deposit, staked, user, earned, linked, payout, admin, budget>>

(* A mistake to find: an empty wallet is asked for all the same. *)
ReadYieldEmpty(c) ==
  /\ client[c].pc = "readYield"
  /\ client' = [client EXCEPT ![c].pc = "create", ![c].amount = wallet["yield"]]
  /\ UNCHANGED <<load, request, deposit, staked, user, earned, linked, payout, admin, budget>>

(* A yield request asks for the whole balance, read after it settled what  *)
(* had matured.                                                            *)
ReadYield(c) ==
  /\ client[c].pc = "readYield"
  /\ client' = [client EXCEPT ![c] =
       IF wallet["yield"] <= 0 THEN NoCall
       ELSE [@ EXCEPT !.pc = "create", !.amount = wallet["yield"]]]
  /\ UNCHANGED <<load, request, deposit, staked, user, earned, linked, payout, admin, budget>>

FileRequest(c) ==
  /\ client[c].pc = "create" /\ Len(request) < MaxRequests
  /\ request' = Append(request, [source |-> client[c].source, deposit |-> client[c].deposit,
                                 amount |-> client[c].amount, status |-> "pending"])
  /\ client' = [client EXCEPT ![c] = NoCall]
  /\ UNCHANGED <<load, deposit, staked, user, earned, linked, payout, admin, budget>>

-----------------------------------------------------------------------------
(* processWithdrawal *)

At(a, pc) == admin[a].pc = pc
Of(a) == request[admin[a].request]
Go(a, pc) == admin' = [admin EXCEPT ![a].pc = pc]
Return(a) == admin' = [admin EXCEPT ![a] = NoReview]
Mark(a, status) == request' = [request EXCEPT ![admin[a].request].status = status]

Review(a, i, action) ==
  /\ At(a, "idle") /\ a \in load.admins /\ request[i].status = "pending"
  /\ admin' = [admin EXCEPT ![a] = [NoReview EXCEPT !.pc = action, !.request = i]]
  /\ UNCHANGED <<load, request, deposit, staked, user, earned, linked, payout, client, budget>>

(* A mistake to find: the claim does not look at the status again. *)
ClaimBlindly(a) ==
  /\ At(a, "approve")
  /\ Mark(a, "approved") /\ Go(a, "payee")
  /\ UNCHANGED <<load, deposit, staked, user, earned, linked, payout, client, budget>>

(* findOneAndUpdate claims the request if it is still pending. *)
Claim(a) ==
  /\ At(a, "approve")
  /\ IF Of(a).status = "pending"
       THEN Mark(a, "approved") /\ Go(a, "payee")
       ELSE Return(a) /\ UNCHANGED request
  /\ UNCHANGED <<load, deposit, staked, user, earned, linked, payout, client, budget>>

CheckPayee(a) ==
  /\ At(a, "payee")
  /\ IF linked
       THEN Go(a, IF Of(a).source = "deposit" THEN "readDeposit" ELSE "guard")
            /\ UNCHANGED request
       ELSE Mark(a, "pending") /\ Return(a)
  /\ UNCHANGED <<load, deposit, staked, user, earned, linked, payout, client, budget>>

(* A redemption takes the deposit out of the vault; one that finds it      *)
(* withdrawn already has nothing to take and goes on to pay.               *)
ReadDeposit(a) ==
  /\ At(a, "readDeposit")
  /\ Go(a, IF deposit[Of(a).deposit] = "active" THEN "withdraw" ELSE "pay")
  /\ UNCHANGED <<load, request, deposit, staked, user, earned, linked, payout, client, budget>>

WithdrawDeposit(a) ==
  /\ At(a, "withdraw")
  /\ deposit' = [deposit EXCEPT ![Of(a).deposit] = "withdrawn"]
  /\ Go(a, "lowerStake")
  /\ UNCHANGED <<load, request, staked, user, earned, linked, payout, client, budget>>

LowerStake(a) ==
  /\ At(a, "lowerStake")
  /\ staked' = staked - 1
  /\ admin' = [admin EXCEPT ![a].pc = "pay", ![a].undo = TRUE]
  /\ UNCHANGED <<load, request, deposit, user, earned, linked, payout, client, budget>>

(* The pre-update hook of user.model.ts: no balance of the user, updated   *)
(* or not, may be negative afterwards.                                     *)
NonNegativeAfter(w, delta) ==
  wallet[w] + delta >= 0 /\ \A x \in Wallets : x # w => wallet[x] >= 0

(* A mistake to find: the hook alone is asked, nothing is debited. *)
GuardOnly(a) ==
  /\ At(a, "guard")
  /\ IF NonNegativeAfter(Of(a).source, -Of(a).amount)
       THEN Go(a, "pay") /\ UNCHANGED request
       ELSE Mark(a, "pending") /\ Return(a)
  /\ UNCHANGED <<load, deposit, staked, user, earned, linked, payout, client, budget>>

(* The hook reads the user before the update is sent.  Its error puts the  *)
(* request back.                                                           *)
GuardDebit(a) ==
  /\ At(a, "guard")
  /\ IF NonNegativeAfter(Of(a).source, -Of(a).amount)
       THEN Go(a, "debit") /\ UNCHANGED request
       ELSE Mark(a, "pending") /\ Return(a)
  /\ UNCHANGED <<load, deposit, staked, user, earned, linked, payout, client, budget>>

Debit(a) ==
  /\ At(a, "debit")
  /\ wallet' = [wallet EXCEPT ![Of(a).source] = @ - Of(a).amount]
  /\ admin' = [admin EXCEPT ![a].pc = "pay", ![a].undo = TRUE]
  /\ UNCHANGED <<load, request, deposit, staked, totalWithdrawn, earned, linked, payout, client, budget>>

(* The signer is configured and no hash was given: pay on chain. *)
SendPayout(a) ==
  /\ At(a, "pay")
  /\ payout' = Append(payout, [request |-> admin[a].request, status |-> "pending"])
  /\ admin' = [admin EXCEPT ![a].pc = "wait", ![a].payout = Len(payout) + 1]
  /\ UNCHANGED <<load, request, deposit, staked, user, earned, linked, client, budget>>

(* The admin gave the hash of a payment made by hand. *)
PaidByHand(a) ==
  /\ At(a, "pay")
  /\ Go(a, "complete")
  /\ UNCHANGED <<load, request, deposit, staked, user, earned, linked, payout, client, budget>>

WaitPaid(a) ==
  /\ At(a, "wait") /\ payout[admin[a].payout].status = "mined"
  /\ Go(a, "complete")
  /\ UNCHANGED <<load, request, deposit, staked, user, earned, linked, payout, client, budget>>

(* A mistake to find: a reverted payout is only reported. *)
WaitRevertedReturns(a) ==
  /\ At(a, "wait") /\ payout[admin[a].payout].status = "reverted"
  /\ Return(a)
  /\ UNCHANGED <<load, request, deposit, staked, user, earned, linked, payout, client, budget>>

WaitReverted(a) ==
  /\ At(a, "wait") /\ payout[admin[a].payout].status = "reverted"
  /\ Go(a, IF admin[a].undo THEN "refund" ELSE "requeue")
  /\ UNCHANGED <<load, request, deposit, staked, user, earned, linked, payout, client, budget>>

(* debitApplied: the compensating updates.  The hook may refuse the        *)
(* wallet's; that is only logged.                                          *)
Refund(a) ==
  /\ At(a, "refund")
  /\ IF Of(a).source = "deposit"
       THEN /\ deposit' = [deposit EXCEPT ![Of(a).deposit] = "active"]
            /\ Go(a, "raiseStake")
            /\ UNCHANGED wallet
       ELSE /\ wallet' = IF NonNegativeAfter(Of(a).source, Of(a).amount)
                           THEN [wallet EXCEPT ![Of(a).source] = @ + Of(a).amount] ELSE wallet
            /\ Go(a, "requeue")
            /\ UNCHANGED deposit
  /\ UNCHANGED <<load, request, staked, totalWithdrawn, earned, linked, payout, client, budget>>

RaiseStake(a) ==
  /\ At(a, "raiseStake")
  /\ staked' = staked + 1
  /\ Go(a, "requeue")
  /\ UNCHANGED <<load, request, deposit, user, earned, linked, payout, client, budget>>

Requeue(a) ==
  /\ At(a, "requeue")
  /\ Mark(a, "pending") /\ Return(a)
  /\ UNCHANGED <<load, deposit, staked, user, earned, linked, payout, client, budget>>

Complete(a) ==
  /\ At(a, "complete")
  /\ Mark(a, "completed") /\ Go(a, "total")
  /\ UNCHANGED <<load, deposit, staked, user, earned, linked, payout, client, budget>>

(* The hook guards this update too: a balance that is negative blocks it. *)
CountWithdrawn(a) ==
  /\ At(a, "total")
  /\ totalWithdrawn' = IF \A w \in Wallets : wallet[w] >= 0
                         THEN totalWithdrawn + Of(a).amount ELSE totalWithdrawn
  /\ Return(a)
  /\ UNCHANGED <<load, request, deposit, staked, wallet, earned, linked, payout, client, budget>>

(* A mistake to find: a rejection gives back what was never taken. *)
RejectRefunds(a) ==
  /\ At(a, "reject")
  /\ Mark(a, "rejected") /\ Return(a)
  /\ wallet' = IF Of(a).source = "deposit" THEN wallet
               ELSE [wallet EXCEPT ![Of(a).source] = @ + Of(a).amount]
  /\ UNCHANGED <<load, deposit, staked, totalWithdrawn, earned, linked, payout, client, budget>>

(* Only the first read looked at the status; this write does not. *)
Reject(a) ==
  /\ At(a, "reject")
  /\ Mark(a, "rejected") /\ Return(a)
  /\ UNCHANGED <<load, deposit, staked, user, earned, linked, payout, client, budget>>

-----------------------------------------------------------------------------
(* The chain, the yield and the faults *)

Mine(i) ==
  /\ payout[i].status = "pending"
  /\ payout' = [payout EXCEPT ![i].status = "mined"]
  /\ UNCHANGED <<load, request, deposit, staked, user, earned, linked, calls, budget>>

Revert(i) ==
  /\ payout[i].status = "pending"
  /\ Spend("payErrors")
  /\ payout' = [payout EXCEPT ![i].status = "reverted"]
  /\ UNCHANGED <<load, request, deposit, staked, user, earned, linked, calls>>

(* Yield matures, a commission is paid: the user hook lets it through      *)
(* unless a balance is negative.                                           *)
Earn(w) ==
  /\ w \in load.sources /\ earned[w] < MaxEarned /\ NonNegativeAfter(w, 1)
  /\ wallet' = [wallet EXCEPT ![w] = @ + 1]
  /\ earned' = [earned EXCEPT ![w] = @ + 1]
  /\ UNCHANGED <<load, request, deposit, staked, totalWithdrawn, linked, payout, calls, budget>>

(* No code path unlinks a wallet, but approval reckons with it. *)
Unlink ==
  /\ load.unlink /\ linked
  /\ linked' = FALSE
  /\ UNCHANGED <<load, request, deposit, staked, user, earned, payout, calls, budget>>

(* The payout is refused before it is sent: no gas, a bad nonce. *)
SendRefused(a) ==
  /\ At(a, "pay")
  /\ Spend("payErrors")
  /\ Go(a, IF admin[a].undo THEN "refund" ELSE "requeue")
  /\ UNCHANGED <<load, request, deposit, staked, user, earned, linked, payout, client>>

(* Waiting for the receipt throws although the payout is out. *)
WaitThrows(a) ==
  /\ At(a, "wait") /\ payout[admin[a].payout].status # "reverted"
  /\ Spend("timeouts")
  /\ Go(a, IF admin[a].undo THEN "refund" ELSE "requeue")
  /\ UNCHANGED <<load, request, deposit, staked, user, earned, linked, payout, client>>

(* An update of the debit block throws: the request is put back, what was  *)
(* done of the block stays.                                                *)
DebitThrows(a) ==
  /\ admin[a].pc \in {"readDeposit", "withdraw", "lowerStake", "guard", "debit"}
  /\ Spend("errors")
  /\ Mark(a, "pending") /\ Return(a)
  /\ UNCHANGED <<load, deposit, staked, user, earned, linked, payout, client>>

(* An undo that throws is logged; any other error ends the call. *)
RefundThrows(a) ==
  /\ admin[a].pc \in {"refund", "raiseStake"}
  /\ Spend("errors")
  /\ Go(a, "requeue")
  /\ UNCHANGED <<load, request, deposit, staked, user, earned, linked, payout, client>>

CallThrows(a) ==
  /\ admin[a].pc \in {"approve", "payee", "requeue", "complete", "total", "reject"}
  /\ Spend("errors")
  /\ Return(a)
  /\ UNCHANGED <<load, request, deposit, staked, user, earned, linked, payout, client>>

Crash ==
  /\ Spend("crashes")
  /\ client' = [c \in Clients |-> NoCall]
  /\ admin' = [a \in Admins |-> NoReview]
  /\ UNCHANGED <<load, request, deposit, staked, user, earned, linked, payout>>

-----------------------------------------------------------------------------
Request(c) == Refused(c) \/ Accepted(c) \/ ReadYield(c) \/ FileRequest(c)

Process(a) ==
  \/ Claim(a) \/ CheckPayee(a) \/ ReadDeposit(a) \/ WithdrawDeposit(a) \/ LowerStake(a)
  \/ GuardDebit(a) \/ Debit(a) \/ SendPayout(a) \/ PaidByHand(a) \/ WaitPaid(a)
  \/ WaitReverted(a) \/ Refund(a) \/ RaiseStake(a) \/ Requeue(a) \/ Complete(a)
  \/ CountWithdrawn(a) \/ Reject(a)

Fault(a) ==
  SendRefused(a) \/ WaitThrows(a) \/ DebitThrows(a) \/ RefundThrows(a) \/ CallThrows(a)

Next ==
  \/ \E c \in Clients :
       \/ Request(c)
       \/ \E s \in Sources, d \in Deposits \union {NoDeposit} : BeginRequest(c, s, d)
  \/ \E a \in Admins :
       \/ Process(a) \/ Fault(a)
       \/ \E i \in DOMAIN request, action \in {"approve", "reject"} : Review(a, i, action)
  \/ \E i \in DOMAIN payout : Mine(i) \/ Revert(i)
  \/ \E w \in Wallets : Earn(w)
  \/ Unlink \/ Crash

Spec == Init /\ [][Next]_vars

(* A call that has begun goes on, and a payout that was sent is mined or   *)
(* reverts.  Nobody owes a request, a review or a fault.                   *)
Fairness ==
  /\ \A a \in Admins : WF_vars(Process(a))
  /\ WF_vars(\E i \in DOMAIN payout : Mine(i))

FairSpec == Spec /\ Fairness

-----------------------------------------------------------------------------
(* Properties *)

(* The type invariant. *)
TypeOK ==
  /\ request \in Seq([source : Sources, deposit : Deposits \union {NoDeposit},
                      amount : Nat \ {0},
                      status : {"pending", "approved", "rejected", "completed"}])
  /\ Len(request) <= MaxRequests
  /\ deposit \in [Deposits -> {"active", "withdrawn"}]
  /\ staked \in Int /\ totalWithdrawn \in Nat
  /\ wallet \in [Wallets -> Int] /\ earned \in [Wallets -> 0..MaxEarned]
  /\ linked \in BOOLEAN
  /\ payout \in Seq([request : DOMAIN request, status : {"pending", "mined", "reverted"}])
  /\ client \in [Clients -> [pc : {"idle", "check", "readYield", "create"},
                             source : Sources,
                             deposit : Deposits \union {NoDeposit}, amount : Int]]
  /\ admin \in [Admins -> [pc : {"idle", "approve", "payee", "readDeposit", "withdraw",
                                 "lowerStake", "guard", "debit", "pay", "wait", "refund",
                                 "raiseStake", "requeue", "complete", "total", "reject"},
                           request : 0..Len(request), undo : BOOLEAN, payout : 0..Len(payout)]]
  /\ load \in Loads
  /\ budget \in [errors : Nat, payErrors : Nat, timeouts : Nat, crashes : Nat]

(* The sum of f over S, as the number of units it is made of. *)
SumOver(S, f) == Cardinality(UNION {{x} \X (1..f[x]) : x \in S})

Out(k) == payout[k].status # "reverted"
Paid(s) == {k \in DOMAIN payout : Out(k) /\ request[payout[k].request].source = s}
PaidTo(s) == SumOver(Paid(s), [k \in DOMAIN payout |-> request[payout[k].request].amount])
Done(s) == {i \in DOMAIN request : request[i].source = s /\ request[i].status = "completed"}
Completed(s) == SumOver(Done(s), [i \in DOMAIN request |-> request[i].amount])

(* A request "approved" is being paid; "atomically claim" lets one call at *)
(* a time do that, and none pays a request twice.  "Debiting first": every *)
(* payout that is out or on its way was taken from its wallet, in whatever *)
(* order the calls of two admins, their refunds, errors and restarts come; *)
(* what was paid too much shows as a negative balance.  Each payout that   *)
(* is out when waiting for it throws may be refunded and paid once more.   *)
PaidOnce ==
  /\ \A i \in DOMAIN request :
       Cardinality({k \in DOMAIN payout : Out(k) /\ payout[k].request = i})
         <= 1 + budget.timeouts
  /\ \A w \in Wallets : PaidTo(w) + wallet[w] <= earned[w] + budget.timeouts * MaxEarned

Larger(m, n) == IF m > n THEN m ELSE n
Within(m, n, k) == m - n \in -k..k

(* With one admin the books agree with each other at rest: the wallets     *)
(* hold what was earned and not withdrawn, the vault stakes the active     *)
(* deposits, and the user's total counts the completed requests; each      *)
(* failed update or restart puts them apart by one request at most.        *)
BooksBalance ==
  LET cut == budget.errors + budget.crashes IN
  (Cardinality(load.admins) = 1 /\ \A a \in Admins : admin[a].pc = "idle") =>
    /\ \A w \in Wallets : Within(wallet[w], earned[w] - Completed(w), cut * MaxEarned)
    /\ Within(staked, Cardinality({d \in Deposits : deposit[d] = "active"}), cut)
    /\ Within(totalWithdrawn, Completed("yield") + Completed("referral") + Completed("deposit"),
              cut * Larger(1, MaxEarned))

(* A claimed request does not stay claimed: it is completed, or put back   *)
(* for another attempt, unless a failed update or a restart ended a call.  *)
ApprovedIsResolved ==
  \A i \in 1..MaxRequests :
    (i \in DOMAIN request /\ request[i].status = "approved")
      ~> ((i \in DOMAIN request /\ request[i].status # "approved")
            \/ budget.crashes > 0 \/ budget.errors > 0)

-----------------------------------------------------------------------------
(* Promises the code does not keep; the README says how each is broken *)

(* "Debiting first means an insufficient balance stops the payout": no     *)
(* sequence of requests, approvals, refusals, refunds and retries pays the *)
(* user more yield or commission than was earned.                          *)
NeverOverpaid == \A w \in Wallets : PaidTo(w) <= earned[w]

(* One deposit is paid out once, whichever requests redeem it.            *)
DepositPaidOnce ==
  \A k, l \in DOMAIN payout :
    Out(k) /\ Out(l) /\ request[payout[k].request].source = "deposit"
      /\ request[payout[k].request].deposit = request[payout[l].request].deposit
      => k = l

(* user.model.ts, "Prevent negative balances". *)
NoNegativeBalance == \A w \in Wallets : wallet[w] >= 0

(* "REJECT: nothing was ever deducted at submit time, so there is nothing  *)
(* to refund": a rejected request is not one that was paid.                *)
RejectedIsUnpaid ==
  \A k \in DOMAIN payout : request[payout[k].request].status = "rejected" => ~Out(k)

(* With one admin these three hold: no balance turns negative and nothing  *)
(* that was paid is rejected or paid beyond what was earned, unless a wait *)
(* threw while its payout was out.                                         *)
OneAdminIsSafe ==
  Cardinality(load.admins) = 1 =>
    /\ NoNegativeBalance
    /\ budget.timeouts = 0 => NeverOverpaid /\ RejectedIsUnpaid
=============================================================================
