# Aussivo DEX backend: TLA+ models and proofs

The backend (`src/`, Node/TypeScript, one process, MongoDB, two chains) takes
stablecoin deposits on BSC and Tron, books them to vaults, matures a monthly
yield, pays withdrawals, and mirrors positions to a registry contract. There
are no tests in the repository. Nearly all that can go wrong lies between two
awaits: timers, requests and admin calls interleave there, calls to a node or
to MongoDB throw, and a restart forgets everything but the rows.

In every module one action is one awaited call with the code up to the next
one. Faults, restarts and the outside world (chains, users, admins) are
actions too, with a budget that bounds them.

## 1. Inventory

| Part | State | Operations | Touches |
|---|---|---|---|
| Credit ledger (`depositAddress.service.ts`, `applyDepositAccounting`) | `deposit_credits`, `deposits`, vault and user totals, the address row, QR sessions | `applyCredit`, `finalizeCredit`, `retryPendingCredits`, `resolveVaultForCredit`, `getDepositQR` | called by both scanners, the sweeper's fallback and admins |
| Persistent sweep (`persistentSweep.service.ts`) | `deposit_sweeps`, `creditedTotal`, `sweptTotal`, `inFlight` | `tick`, `sweepOne`, reconcile, recompute, fallback, force, recover | reads the ledger's rows, sends on both chains |
| BEP-20 scanner | a cursor per token | `tick`, `scanToken`, `rescanBep20Range` | calls `applyCredit` |
| TRC-20 scanner | a cursor and a tier per address | `tick`, `scanOne`, `rescan` | calls `applyCredit`; scans what address allocation made |
| One-time addresses (`ephemeralDepositSweep`, `tronDepositSweep`) | `pending_deposits` with an encrypted key | `getDepositQRLegacy`, two sweepers, `forceSweep` | same accounting; sends on both chains |
| Withdrawals (`user.controller`, `admin.controller`, `vaultPayout`) | `withdraw_requests`, wallets, stake | `requestWithdraw`, `processWithdrawal`, batch | settles yield first; pays on BSC; enqueues attestations |
| Yield (`apyDistribution.helper`) | cycles matured, yield paid, the log | `settleDepositYield`, commissions | cron, portfolio, withdrawals, redemptions |
| Chain outbox (`chainSync.worker`, `chainReconcile`) | `chain_outbox` | enqueue, worker, nightly comparison, admin's retry | every change of a position |
| Vault deposit listener (`depositListener.service.ts`) | in-memory block number, pending intents | poll, match, book | books deposits by itself, links wallets |
| Linked wallets (`user.model.ts`, `sendOTP`, `linkWallet`) | primary wallet, wallet list, document version | register, link | deposits and the listener link too |
| Address allocation (`depositAddress.service.ts`, `depositKey.helper.ts`, the migration script) | `deposit_addresses`, the index counter, the environment | `getOrCreateDepositAddress`, the script | both scanners and the sweeper work on its rows |
| Login and OTP, mirrors, statistics, routes, other scripts | see `PROJECT.json` | | |

Hard behaviours: several callers book one transfer; totals are caches of sums
that others increment; a broadcast whose fate is unknown is retried; guards
read before the write they guard; a row is overwritten by id from an old copy;
a claim is made before the work it stands for; cursors and addresses are read
at different times; the chain reorganises. `PROJECT.json` lists each hazard at
its line with the properties that would catch it.

What makes each part correct: the **ledger** books and counts a transfer once
and settles it; the **sweeper** moves no more than was credited, never believes
a sweep that was not made, and in the end moves everything; the **scanners**
skip nothing and credit nothing the chain drops; a **one-time key** outlives
the money, and the money is credited once; a **withdrawal** is paid once, from
a debit; **yield** is credited once per cycle and the records agree; the
**outbox** has one live job per wallet, drains, and the registry catches up;
an **address** is one user's and every call shows him that one; the **listener**
books an event once and loses none; a **linked wallet** stays linked.

## 2. Plan

Written, in this order: `CreditLedger` (abstract), `DepositCredit`,
`DepositCreditProofs`, `PersistentSweep`, `Withdrawals`, `ChainOutbox`,
`YieldMaturation`, `Bep20Scanner`, `EphemeralDeposits`, `AddressAllocation`,
`Trc20Scanner` (composed with it), `UserWallets`, `VaultListener` (composed
with it), `VaultListenerProofs`, `Bep20ScannerProofs`,
`EphemeralDepositsProofs`, `YieldMaturationProofs`, `WithdrawalsProofs`,
`PersistentSweepProofs`, `Trc20ScannerProofs` (with the allocation's),
`AddressBook` (abstract). The outbox's proofs are a section of
`WithdrawalsProofs`.

Next:

1. `OtpLogin`.
2. Compositions: scanner with `DepositCredit` instead of its one-step credit;
   sweeper with the ledger; an abstract *custody* specification (arrived =
   on the address + moved; credited; swept) that `PersistentSweep` and
   `EphemeralDeposits` implement, and an abstract *payout* specification
   for `Withdrawals`.
3. Algorithms: the tier of an amount, the vault choice, allocation weights.

No module declares a RECURSIVE operator, so that each can be proved about.

## 3. Modules

**CreditLedger** says what a credit is: claimed once, then the vault's total
once, then the user's once. **DepositCredit** is the code. A caller's `pc` is the
await it is at: `claim` (the insert under the unique key), `intent` and `vault`
(`resolveVaultForCredit`), `dup`, `create`, `incVault`, `incUser`
(`applyDepositAccounting`), `flip`, `totals`, `session`, `catch`
(`finalizeCredit`). `job` holds its local variables and is where stale copies
live. Scanners end a tick with a retry pass over snapshots of the rows;
direct callers are rescans and the fallback. Amounts are counts per transfer:
`vaultIncs[t]` is how often `t` was added. Left out: mails, tiers, wallet
links, and the limit of 25 rows per retry pass.

**PersistentSweep** is one address. `pc` follows `sweepOne`: reconcile each
unsettled sweep, sum the ledgers, write the sums, then per token read the
balance, decide (`sweepableAmount` with the fallback), create the row, send,
store the hash, wait, record. Transfers and credits move between any two.
Of the other addresses it has `ahead`, how many the tick's query returns before
this one; a sweep puts an address behind all others. A wait may throw
(`faults`) or, on Tron, just end, its 30 s over with the transaction unseen
(`WaitTooShort`, `windows`); a later pass takes a pending transaction for
failed if its own 30 s go by (`ReconcileFailed`). An admin recovers any part of
a balance. Network, tokens and bounds
are a `load`, chosen when the behaviour starts. A sum over a ledger
(`SumOver`) is the number of units it is made of, the size of a union of
disjoint blocks, so that it can be proved about. Left out: gas, energy and dust
(a token that is passed over).

**Withdrawals** is one user with several clients and admins. A review is
approve (claim, payee, debit, pay, wait, complete, total; on failure refund
and requeue) or reject. `NonNegativeAfter` is the update hook of
`user.model.ts`; it reads in one step and the update lands in another. The
module's last section has what comments promise and the code breaks, and
`OneAdminIsSafe`, which is what one admin keeps of it.

**ChainOutbox** has enqueuers (compute the position, upsert the job), the
worker (take back what a crash left, claim, send, mark), the nightly
comparison, and the admin's retry, which stops at the first row that violates
the unique index. Done rows are dropped: nothing reads them. `DoneUnlessRefreshed`
says what is left of the promise that a done job was attested. The module's
names carry the prefix `Outbox` where others would clash, so that it is proved
about beside `Withdrawals`.

**YieldMaturation** has calls that load copies of deposits and settle them in
turn: credit the wallet, book the deposit, log, pay two referrers, the first if
he is active and the second if both are. The cron and the admin
(`Distributors`) go through the vaults that are active and load the deposits of
each; a user's call takes his own whatever their vault. People change statuses
meanwhile, of the user, a vault or a referrer. A legacy
deposit starts with paid yield and no counted cycle. `ApartIsExact` says what
calls that keep apart would be promised.

**Bep20Scanner** has a chain of blocks that may be replaced, addresses that
may be made at any moment, a cursor per token, and the tick: list addresses,
read the head, then per token the range, its chunks, and the cursor. A restart
and a failing call that end the tick are one action, `TickEnds`.

**EphemeralDeposits** is one intent on either network. `Bep...` actions are
`sweepOne`, guarded by its processing set; `Tron...` actions are `processOne`,
which has no lock, so the tick and `forceSweep` may be in it together;
the accounting between them is shared. `doc` is a call's copy of the row, `bal`
the balance it read. Two adjacent writes of one branch are one action where
nothing reads between them (the row and its deposit in `BepUpdate`). Left
out: mails, payers' wallets, the TRX given back. `cancelPendingDeposit` only
sets `userDismissedAt`, which no sweeper reads. `Ledger` maps the intent to a
`CreditLedger` with one transfer, as `DepositCredit` does its transfers.

**AddressAllocation** has requests (find the row, draw an index with `$inc`,
derive or make a key, insert, on E11000 read the winner's row, go round) and
runs of the migration script, which do the same in a process and with an
environment of their own and end at the first duplicate. A key is the mnemonic
and the index it comes from; a key without a mnemonic is random, and the index
drawn for it stands for the randomness. A restart may change the mnemonic or
take it away. **AddressBook** is what they promise: an entry is made for a user
and a key that have none, and stays. `Book` maps the rows to its entries; it
begins as any book with unique users and keys, for the addresses may be older
than the process (`Made` of the scanner).

**Trc20Scanner** extends it: users pay the addresses they were shown. A tick
lists addresses with their cursors, then for each fetches one page from an
overlap before the cursor, applies the rows and saves the newest timestamp.
TronGrid shows a transaction up to `Lag` late. Which tier an address is in is
free at every tick, for the activity that decides it is outside. The cursor of
a rescan starts at 0. `applyCredit` is one action here: a row under its key,
or a throw before or after it.

**UserWallets** has the three ways to link a wallet: `sendOTP` and `linkWallet`
save the document with a list read earlier, on condition of its version;
`applyDepositAccounting` adds with `$addToSet` and leaves the version.
**VaultListener** extends it with the listener's own linking. A poll reads the
events since `lastBlock` and handles them in turn, `pc` being the await of
`handleEvent` it is at; polls overlap; the intent may be closed by its other
owners at any time.

Each module that a run uses has an `MC` module with its constants' values.
Definitions marked "a mistake to find" or "variant" are plausible bugs used
to see that a property can fail; no specification uses them.

## 4. Runs

Bounds are in the `.cfg` files and the `MC` modules. Faults, restarts, toggles
and the like are mostly one each: the hazards here need one bad event and its
consequences, and the ordinary interleavings around it are explored in full.
Four runs have a constant `Loads`: each load is an environment (who acts, how
many faults and restarts, how far the clock goes), and a behaviour has one of
them. A run then covers several small instances instead of their product.

| Run | Instance | Shows |
|---|---|---|
| `credit_address` | 1 transfer, a scanner with retries, a direct caller, 2 QR requests, 1 vault that may be switched off, 2 attempts, a fault, a restart | booked once, counted once, final only with a deposit, credited means booked (where nothing failed), settled in the end; refines `CreditLedger` |
| `sweep` | fallback on; BSC, 2 tokens with a transfer each, 2 sweeps with a recovery or a restart, 1 with a fault; BSC, 2 transfers of one token, 3 sweeps with a recovery or a fault; Tron, 2 transfers of one token, 4 sweeps with a fault and a restart, 3 with a polling window that ends early, or 2 in a queue of 3 addresses of which a tick takes 2 | the books never claim more than the chain moved; of one asset only credited value is swept while nothing fails and no window ends early; broadcasts are settled, totals heal, what is credited is swept |
| `withdraw` | 2 admins and 2 yield requests with an error, a failed payout, a restart and unlinking, or with a timeout; 1 admin with a deposit and commissions, a failed payout and a timeout; 1 admin with failed updates and a restart | a request is paid once, from a debit; books balance at rest; a claimed request is resolved |
| `outbox_queue` | 2 users, a caller and the comparison, batch 2, 2 changes, 2 faults, a restart | one live job per wallet; queue drains; holders catch up |
| `yield_calls` | 1 deposit (new or legacy) in one of 2 vaults, cron and a user's call, both referrers active, the direct one inactive or alone, 2 cycles, a fault or a restart, a change of one status | records agree at rest but for what was cut off; cycles mature |
| `bep20_ticks` | 2 tokens with a transfer each, to 2 users; confirmations 1, span 2, chunk 1, head to 5, 1 block mined while the head is awaited, a reorganisation of 1, a fault, a rescan | nothing skipped, no phantom, everything seen |
| `trc20` | 2 users, 2 requests, a script, with and without a mnemonic, a restart; a page of 3, overlap and lag of 1, up to 4 transfers in 3 transactions, a fault and a restart, a rescan; a transaction to both users | one address each; a transfer has one row and no cursor passes one without; everything seen |
| `vault_listener` | 2 events of 1 intent with 2 overlapping polls; 2 intents with a poll, a fault, a restart; a linking call beside a poll; 2 linking calls and registrations | booked once per poll at most, totals follow, linked wallets stay, every event booked or accounted for |
| `ephemeral_money` | both networks, open and exact, 2 payments on BSC and 1 on Tron, 2 sweeps, 1 forced call, one fault or restart | credited once, key erased only after a mined sweep, settled with a deposit, swept in the end |
| `withdraw_timeout`, `yield_overlap`, `ephemeral_retire` | the smallest that show it | promises of comments the code breaks (section 6) |

Why the bounds suffice: a transfer's credit involves at most two callers at a
time and the third only repeats the second (the theorems of section 5 cover
any number); a sweep depends on earlier sweeps through their sums and one
unsettled row; span 2 with chunk 1 makes a range of two chunks, one of which
may fail, and a span larger than the confirmations lets a range reach blocks
mined after the addresses were listed; two admins suffice for every race on one request; one extra
transaction suffices for each race on a one-time address. For addresses, one
requester, its rival and a script meet every race (and section 5 proves any
number). A history of four with pages of three has a page that is not the last
and an overlap that begins within a transaction of two. Two polls suffice for
an overlap, and a third repeats the second; a poll's copy and one call suffice
for a lost update. What `Loads` leaves out: on BSC a fault, a restart and a
recovery in one behaviour (on Tron a fault and a restart do meet); faults of
the listener together with overlapping polls. On Tron the second
payment is left out of `ephemeral_money`, because two unlocked calls make it
large; the properties that compare amounts are stated for BSC. Deadlock is
checked in `credit_address`, `sweep`, `outbox_queue`, `bep20_ticks` and
`trc20`, where a timer can always fire. It is off for withdrawals,
yield, one-time addresses and the listener, which really come to rest (a
listener whose first call failed has no timer).

**Conditions in properties.** `CreditedMeansBooked` holds
where no call fails and nothing restarts, `SweepsOnlyCredited` likewise,
for one asset, and where no polling window on Tron ends before its transaction is
seen; `RecordsAgree` allows each error and restart what it cut off, and asks for
whole commissions while no referrer's status changes; `CyclesMature` is about
deposits whose vault, user and own status stay active in the end; `PaidOnce` counts what a timeout pays again;
`ApprovedIsResolved` excuses restarts and database errors;
`NoDepositSkipped` concerns cursors that existed; `NoPhantomCredit`
unless an admin rescans; `SettledHasDeposit` one failed call;
`PurgedIsInTreasury` compares amounts on BSC; `CreditsExact` and `EverySeen`
except a transaction that pays two users, `EverySeen` also an address with a
page of transfers in one overlap; `LinkedStays` except wallets the accounting
added; `BooksFollow` up to one booking per overlapping poll; `EventBooked`
except events whose handling was cut off. Without the condition each is
false; section 6 says how where it takes more than a fault at the wrong moment. `BroadcastsReconciled`, `TotalsHeal` and
`CreditedIsSwept` of the sweeper are checked with the bound on sweeps, and
excuse an address that as many others as a tick takes are before;
`CreditedIsSwept` is content with an address left empty.

**Fairness.** Weak fairness of what the process does by itself: timers are
`setInterval` and cron jobs that keep firing (`start...` functions, `index.ts`),
and an await returns or throws. Weak fairness of mining, time and blocks,
where a property needs them. None of users, admins, faults or restarts.
In `trc20` the fair tick is the one that
takes every address for cold, which the code owes each of them however idle;
hotter tiers may be scanned more often, never must. In `yield_calls` the cron's
distribution starts again and again, if a vault is active, and a call that
began goes on; no user owes a call. In `vault_listener` new
polls begin and a poll that began goes on, but nothing makes `start` succeed.
Weak is enough: no action of a timer is disabled again and again for ever
while the bounded events have run out.

## 5. Proofs

`DepositCreditProofs` proves, for any number of transfers, callers, vaults,
QR requests, faults and restarts, from the assumptions named in
`DepositCredit` (`MaxAttempts` and the bounds are naturals; `NoTransfer`,
`NoVault` are not members of their sets):

- `TypeCorrect`: `Spec => []TypeOK`;
- `NeverBookedTwice`, `NeverCountedTwice`, `FinalCreditsHaveDeposits`: the three
  safety invariants `BookedOnce`, `CountedOnce`, `FinalHasDeposit`;
- `CreditsAreBooked`: `Spec => []CreditedMeansBooked`;
- `Refinement`: `Spec => ImplementsLedger`, with `claimed` mapped to the rows
  that exist, `tvl` and `paid` to the increments.

The safety properties are not inductive: what matters is who still owes a
step. `IInv == TypeOK /\ Booking /\ Totals /\ Finality /\ Claimed`. `Booking`
says that a transfer was added to the vault only if its deposit exists, and
that at most one caller, the one that created the deposit, is still between the
insert and the user's increment. `Totals` says the same of the conditional
flip and the address's total. `Finality` says that a caller past the flip, and
a credited row, have their deposit. `Claimed` says that callers and retry
queues hold only transfers that own a row. The step proofs have a case per
action; four `Quiet...` lemmas cover the actions that do not touch a part.
`CreditsAreBooked` needs `Owed` besides, where no call failed and nothing
restarted: an increment that a deposit lacks is owed by the caller that created
it, so with nobody at work on the transfer none is lacking.
The refinement needs `IInv` before and after: the step `incVault` maps to
`RaiseVault` because `Booking` gives that it was not done, and every step but
three maps to a stutter.

`Trc20ScannerProofs` proves, for any number of users, requests, script runs,
mnemonics, environments and restarts, from `AllocationAssumption` (the
environments are pairs of a mnemonic or none and a flag; the bounds are
naturals):

- `AllocTypeCorrect`: `AllocSpec => []AllocTypeOK`;
- `AddressesCorrect`: `AllocSpec => []OneAddressEach`, from `AllocInvariant`;

and of the scanner beside them, for any transfers, pages, faults and rescans,
from `ScannerAssumption` too (the transfers are finitely many, and TronGrid
shows a block within the overlap, `Lag <= Overlap`, which is what
TRON_SCAN_OVERLAP_MS is for):

- `ScannerTypeCorrect`: `Spec => []TypeOK`;
- `WatchedAddressesCorrect`: `Spec => []OneAddressEach`;
- `CreditsAreExact`: `Spec => []CreditsExact`, from `ScannerInvariant`;
- `AddressesForLife`: `AllocSpec => ImplementsBook`, and `WatchedForLife`:
  `Spec => ImplementsBook`.

`OneAddressEach` is about what was shown, and says nothing of the keys that
calls still hold. `AllocInv == AllocTypeOK /\ RowsUnique /\ ShownInRows /\
LosersHaveRows /\ DrawnOnce`: the two unique indexes hold; what was shown is
in a row, and rows stay; a request that lost has a row to read; and an index
is held by at most one call, is in no row while it is held, and is not above
the counter. The last is what makes a lost insert a loss by user: a held key
is in no row, so the duplicate is `{userId, network}`, the winner's row
exists, and the loop of `getOrCreateDepositAddress` never goes round. It holds
across changes of the mnemonic because the counter outlives them. Under
`AllocInv` an insert is an `Enter` of the book, by a request with the showing in
the same step; a read of an existing row or the winner's is a `Tell`; all else
is a stutter. So an address is not only unique at any time, it is for life.

`CreditsExact` is about cursors, and a cursor is moved by what a scan read
before. `CreditsInv == ScannerTypes /\ ChainInv /\ CreditInv /\ CursorInv /\
ScanInv`: a transaction is in one block, is shown whole and within the lag; a
row has the index that its transfer has in the whole history (`Index`), though
perTxCounter counts in a page; all older than the overlap before a cursor, or
before a copy a tick holds, is seen to (`Settled`); and a page has, before each
of its rows, all rows of the same transaction and all that are older than the
overlap before it (`PageFits`). The last is proved of what TronGrid answers
(`HistoryFits`): each row has its place (`PlaceTaken`), so the first `Page` rows
are a page, and what is not shown yet is too young to matter. It stays true
while new transfers are made, and it is what allows a scan to save the
timestamp of its newest row (`NewestSettles`) from whatever copy it began, and
a rescan beside a tick to do no harm. If a row's key is taken, it is taken by
the row itself or by another user's (`ClaimedFits`).

`VaultListenerProofs`, for any number of users, calls, polls, intents and
events, from `WalletAssumption` and `ListenerAssumption`:

- `TypeCorrect`: `Spec => []TypeOK`;
- `LinkedWalletsStay`: `Spec => LinkedStays`, an action property;
- `BooksFollowDeposits`: `Spec => []BooksFollow`.

`LinkedStays` is about the document, and a save writes a list read before. So
`LinkInvariant` also says of every copy a call or a poll holds: if its version
is still the document's, it lacks only wallets the accounting added since
(`$addToSet` alone leaves the version). Two smaller parts go with it: who is
not registered has no wallet, and who holds a copy is registered.

`BooksFollow` needs `BooksInv == OncePerPoll /\ Totals` besides. The check that a
transaction was processed does not protect an intent from two polls: both may
pass it before either makes the deposit. What bounds the deposits is the status:
an intent is taken up only while pending, a pending one has no deposit, and it
is marked before its deposit is made. So its deposits and the polls that have
taken it up are together no more than the polls that ever ran at once
(`OncePerPoll`). `Totals` has the polls at the await between two totals, and
lets each fault cut off one of them, each restart one for every poll.

`Bep20ScannerProofs`, for any chain, tokens, transfers, span and chunk, from
`ScannerAssumption`:

- `TypeCorrect`: `Spec => []TypeOK`;
- `NothingSkipped`: `Spec => []NoDepositSkipped`, if `MaxStall <= Confirmations`;
- `NothingPhantom`: `Spec => []NoPhantomCredit`, if `MaxReorg <= Confirmations`.

The two hypotheses are what the confirmations are for, and the instance of
`bep20_ticks` meets them: without the first, a tick
that stalls between listing the addresses and reading the head passes blocks in
which a new address was paid; without the second, a reorganisation reaches
confirmed blocks. A step of the scan knows its range and its list of addresses,
not the chain, so the invariants tie them to it: `Heads` keeps cursors among
confirmed blocks and the head a tick read within a stall of the head when it
listed the addresses, `Unwatched` says that an unlisted address is paid only
above that head, `Scanned` that a range without a failure has the rows of the
blocks it passed, `FinalRows` that, until an admin rescans, a row's transfer is
in a confirmed block.

`EphemeralDepositsProofs`, for any kinds of intents and any number of payments,
calls, sweeps, faults and restarts, from `KindsAssumption` and
`EphemeralBoundsAssumption`:

- `TypeCorrect`: `Spec => []TypeOK`;
- `CreditedAtMostOnce`: `Spec => []NeverCreditedTwice`;
- `PurgeIsSafe`: `Spec => []PurgedIsInTreasury`;
- `SettledIsBooked`: `Spec => []SettledHasDeposit`;
- `BooksInOrder`: `Spec => BookedInOrder`, an action property;
- `LedgerKept`: `Spec => ImplementsLedger`.

`IInv == TypeInv /\ BookedOnce /\ Purged /\ TronBooked /\ BscBooked`. `BookedOnce`
says that at most one call is between the deposit it created and the user's
increment, and that until then there is nothing in the totals. `Purged` ties the
key to the chain: on BSC the processing set keeps all but one call away, so the
balance a call read and the transaction it waits for are all that was credited.
`BscBooked` uses the same to say that what a call loaded is what is stored
until it claims, and that a claim is followed by its deposit or undone.
On Tron two calls interleave and neither has such a claim; what `TronBooked`
uses is that the row is marked after the deposit, which never goes away.

`BookedOnce` says how often, not in which order. `InStep` adds that the
call between two of the writes holds the amount that the one before it wrote. With it
`incVault` is the ledger's `RaiseVault`, `incUser` its `PayUser`, the insert its
`Claim`, and every other step, of both networks, a stutter. What a throw leaves
undone stays undone: no call does a part of it a second time.

`YieldMaturationProofs`, for any number of deposits, settlements, cycles, faults
and restarts, from `YieldAssumption` (the settlers are finitely many):

- `TypeCorrect`: `Spec => []TypeOK`;
- `RecordsMatch`: `Spec => []RecordsAgree`;
- `ExactWhenApart`: `Spec => ApartIsExact`, that is, if in all states at most one
  call is under way, no deposit is credited beyond
  `elapsed * (1 + faults + crashes)`, which without faults and restarts is
  `NeverDoubleCredited`.

`IInv == TypeInv /\ Settled`. `RecordsAgree` is about rest. Between, the wallet,
the deposit, the log and the two commissions are a chain: each account has what
was credited, but for what calls have still to bring it, summed over the calls
(`Owing`), and what errors and restarts cut off (`Covers`); and each is ahead of
the next at least by what is on its way between the two (`Accounts`). A cut-off
turns what a call owes into what is lost, at most the cycles that had
completed, and a restart does so for every call. Commissions are covered so
while no referrer's status changes, or are nothing (`Commissions`). At rest
nobody owes anything. Overlapping settlements may credit
a cycle twice, but every record has it twice.

`Exact` carries `ExactWhenApart`. A call that is alone holds copies that are
still what is stored, but of the deposit it works on (`CopyFresh`); what it has
credited and not yet booked is what the copy lacks (`InHand`); and each call
that was cut off between the two has left at most all completed cycles to be
credited again (`Cuts`). The hypothesis is needed when a call begins: only then
does freshness come from nobody else being under way. `yield_overlap` is the
counterexample without it.

`WithdrawalsProofs`, for any number of deposits, clients, admins, requests,
faults and restarts, from `WithdrawalsAssumption` (the admins are finitely many):

- `TypeCorrect`: `Spec => []TypeOK`;
- `PaidAtMostOnce`: `Spec => []PaidOnce`;
- `BooksMatch`: `Spec => []BooksBalance`;
- `OneAdminSafe`: `Spec => []OneAdminIsSafe`: with one admin no balance turns
  negative, and if no wait threw with its payout out, what is paid was earned
  and nothing that was paid is rejected;

and of the outbox, for any number of wallets, callers, rows, faults and
restarts, from `OutboxAssumption` and `CallersAssumption` (there is a user,
the bounds are naturals, the comparison is not one of the callers):

- `OneLiveJobPerWallet`: `OutboxSpec => []OutboxTypeOK`;
- `DoneIsAttestedUnlessRefreshed`: `OutboxSpec => DoneUnlessRefreshed`, an action
  property.

`IInv == Structure /\ PaidCount /\ Covered /\ Backed /\ Solo`. `Structure` has the
types and `Claims`: a request that is being paid is claimed by one admin, for a
claim asks for a pending row and only its admin puts it back. So a request whose
payout is still to be sent has no payout out but those of timeouts
(`PaidCount`). `Covered` and `Backed` say that the wallet, what approvals hold
and what is out come from what was earned. `Solo` is about one admin: each of
his steps moves an amount from one book to the next, so the books differ by
the amount under way and by at most one more for each failed update or restart.

`OneAdminSafe` needs `RejectedClean` besides: no payout of a rejected request is
out. A rejection is written by id over whatever the row has become; one admin
is not between the read and the write of another review, so the row he rejects
is pending, and a pending request has no payout out (`PaidCount`). That no
balance turns negative is `Covered`, with what only he holds.

`OutboxInv == QueueTypes /\ OneLive /\ WorkerHolds /\ Attested /\ EnqueueTypes /\
Snapshots`. `OneLive` is the partial unique index, which every writer meets by
itself: an enqueue's upsert finds the live row, the retry stops at a failed
row whose wallet has one. What the proof is about is the worker, which marks by
id what it read before: `WorkerHolds` says that a row of its batch is in the
queue and live until it is marked, for nobody else ends a live row, and its
attempts stay within the maximum. `Attested` says that a row still "processing"
after its call was sent carries what was sent: an enqueue that changes it turns
it back to pending. So a mark "done" on a row that was not refreshed is true.

`PersistentSweepProofs`, for any transfers, tokens, networks, numbers of sweeps,
faults and restarts, from `SweepAssumption`:

- `TypeCorrect`: `Spec => []TypeOK`;
- `SweptIsReal`: `Spec => []SweptNeverOverstated`;
- `OnlyCreditedSwept`: `Spec => []SweepsOnlyCredited`.

`IInv == TypeInv /\ Real /\ (Whole => Solo)`. `Real` says that the mined rows add
up to what left the address, that only a mined row is confirmed, that a row
about to be sent was never sent, and that the pass's copy of the total stays
within what left the address. The confirmed rows are some of the mined ones, so
their sum is never too large, whatever was lost, retried or marked failed.
`Solo` is about one asset where nothing failed and no polling window ended
early: every row but the one
being sent is settled, so the sum is exact (`Settled`); a pass decides on all
that left and on no more than is credited (`Decided`); a fallback's row adds
exactly its excess to that, once, whoever counts it (`FallsBack`, by the unique
key); and what moved and is about to move is within what is credited
(`Enough`). This survives what happens between the awaits because what the
ledger calls credited never falls (`CreditedGrows`).

Sums are cardinalities: `SumOver(S, f)` is the size of the union of a block of
`f[x]` pairs for each `x` of `S`. What the proofs need of them (a sum splits off
an element, changes by what one summand changes, is no more than a larger sum)
then follows from the library's facts about finite sets, without induction.

Only model-checked: all liveness (`TotalsHeal`, `BroadcastsReconciled`,
`CreditedIsSwept` and their like in the other modules), for the prover handles
neither liveness under fairness nor ENABLED. Every invariant and every action
property of a passing run, and both refinements of `CreditLedger`, are proved.
`BookedInOrder`, `Ledger` of the one-time addresses, `DoneUnlessRefreshed`,
`OneAdminIsSafe`, `ApartIsExact` and `ImplementsBook` are proved and not part of a
run; TLC found each to hold on an instance of its module's run before it
was proved.
No module reaches a RECURSIVE operator.

## 6. Where code and comments disagree

Runs show three: a payout whose confirmation throws is paid twice
(`withdraw_timeout`), two overlapping settlements credit a cycle twice
(`yield_overlap`), and a Tron intent expires with the money on its address
(`ephemeral_retire`).

Of what the code breaks, this much is proved to be kept (section 5):
`DoneIsAttested` unless the row was refreshed (`DoneUnlessRefreshed`);
`NoNegativeBalance`, `RejectedIsUnpaid` and `NeverOverpaid` with one admin and, for
the latter two, no timeout (`OneAdminIsSafe`); `NeverDoubleCredited` for calls
that keep apart (`ApartIsExact`).

Found while modelling, and shown by TLC with these changes to a run's
constants and the property named (each is the last section of its module
unless said otherwise):

| Property | In | How it breaks |
|---|---|---|
| `CreditedMeansBooked` without its condition | `credit_address` | a restart after the deposit row and before the increments; the retry takes it for booked |
| `LayersAgree` | `DepositCredit`, 2 vaults, 2 callers | each caller resolves a vault; the deposit keeps the first, the credit row the last |
| `CreditIsFinal` | `credit_address` | the last failed attempt writes `failed` over a row another caller credited |
| `CreditsExact`, `EverySeen` without the transaction's condition | `trc20`, a later payment | a row's key has no address: of a transaction that pays two users' addresses only the first scanned is credited |
| `EverySeen` without `Crowded` | `trc20` | a page of transfers within one overlap: the next page is the same again, though the address is "NEVER stopped being watched" |
| `LinkedStays` for every wallet | `vault_listener` | `$addToSet` leaves the version, so a save drops what it added |
| "A single wallet may only appear on one user" (`user.model.ts:8-9`) | `UserWallets` | a registration does not search for the wallet, and two calls search before either writes |
| `BooksFollow` without the overlaps | `vault_listener` | two polls read one event before either books it |
| `EventBooked` without `lost` and crashes | `vault_listener` | an intent marked before its deposit, a save that fails on the version, blocks mined while the service was down |
| `EventBooked` without the transaction's condition | `vault_listener`, two intents paid in one transaction | "already processed" is by transaction: its second event is skipped |
| `NeverSweepUncredited` | `PersistentSweep` with two tokens, or one fault | totals mix the tokens; a sweep whose hash was lost stays unswept in the totals |
| `SweepsOnlyCredited` without its condition on windows | `sweep`, the Tron load with a window | no call throws: `confirmTronTx` gives up on a transaction that is still pending, the next pass marks it failed and sends its amount again, and both are mined |
| `EverySweepRecorded` | `PersistentSweep`, one fault | rows without a hash are never reconciled |
| `CreditedAtMostArrived` | `PersistentSweep`, BSC with fallback | fallback and scanner book one transfer under two keys |
| `EveryAddressSwept` | `sweep` | `sort({ lastSweepAt: 1 }).limit(50)`: addresses that hold nothing keep the first places, so with more than 50 of them one that was swept once, or made later, is never looked at again, though the tick "must look at every live address" |
| `TotalsHeal`, `BroadcastsReconciled`, `CreditedIsSwept` | `sweep`, fallback off | the tick skips an address whose stale totals look settled |
| `NoNegativeBalance` | `Withdrawals`, 2 admins | the hook reads before either debit |
| `DepositPaidOnce` | `Withdrawals`, 2 requests of one deposit | the second finds the deposit withdrawn, debits nothing and pays |
| `RejectedIsUnpaid` | `Withdrawals`, 2 admins | a rejection overwrites a claim |
| `DoneIsAttested`, `ChainCatchesUp` | `outbox_queue` | the row was refreshed while it was sent; a lost attestation of zero is in no comparison |
| `RetryRequeuesAll` | `ChainOutbox`, 2 faults | a failed job collides with a live one |
| `NoDepositSkipped` without its condition, or with `MaxStall` above `Confirmations` | `bep20_ticks` | the first cursor starts at the safe head; an address made while the head was awaited |
| `NoPhantomCredit` without its condition | `bep20_ticks` | a rescan reads blocks that are not final |
| `RecordsAgree` without what was cut off, or for any change of a referrer | `yield_calls` | a call that throws after the wallet was credited; a referrer switched off between two settlements |
| `CyclesMature` without its condition | `yield_calls` | the deposit is redeemed, or the user or the vault stays off |
| `SettledHasDeposit` without its condition | `ephemeral_money` | a restart between the claim and the accounting: swept, never booked |
| `PurgedIsInTreasury`, amounts on Tron | `ephemeral_money`, 2 payments | the tick and `forceSweep` saw different balances |

Seen in the code while modelling and outside the models:
`resolveDepositPrivateKey` (`depositKey.helper.ts:170-195`) throws on a
derivation mismatch before it tries the stored key, where its comment says
"Throws only if BOTH are unavailable"; `walletAddress` defaults to null under
a sparse unique index, so two users without a wallet collide (`Register` and
`Unique` have it); a listener whose first call throws stays off until the next
restart (`StartFails`); the listener reads blocks without confirmations;
`tronDepositSweep.service.ts:297` sorts ascending by `userCreditedAt`, so rows
without it come first, where line 284 says "credited-but-unswept first". The
tick of the one-time sweeper on BSC takes 50 rows too, but an unpaid one
expires when it is looked at, so places become free: its queue is not modelled.

## 7. Not modelled

The components marked `not_modelled` in `PROJECT.json`, with the reason there.
Across the modules: amounts in base units and their rounding, fees, dust and gas prices, mails and
logs, key derivation and encryption beyond which key belongs to which row, the HTTP layer. The ticks that walk over
many addresses or intents (limits of 50, pages of 20 whose filter changes
under the walk) are modelled for one; the order and starvation among them are
in the plan.
