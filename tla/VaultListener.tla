---------------------------- MODULE VaultListener ----------------------------
(***************************************************************************)
(* The listener of the vault contract (depositListener.service.ts): every  *)
(* 15 seconds a poll reads the Deposited events since the last block, and  *)
(* handles them one by one: it finds the pending intent the event names,   *)
(* links the paying wallet, marks the intent, makes the deposit, and       *)
(* raises the vault's and the user's totals.  A poll that is not over does *)
(* not keep the timer from starting another one.                           *)
(*                                                                         *)
(* Intents are of pending_deposits, whose other users (EphemeralDeposits)  *)
(* may credit them or let them expire.  Every event moves one unit.  The   *)
(* chain is not reorganised.                                               *)
(***************************************************************************)
EXTENDS UserWallets, Integers, Sequences, SequencesExt

CONSTANTS
  Events,         \* numbered in the order of their logs
  Intents,
  Tx,             \* Tx[e]: the transaction that emitted event e
  Payer,          \* Payer[e]: the wallet that deposited
  Owner,          \* Owner[i]: the user of intent i
  Polls,          \* polls that may run at once
  Loads           \* bounds: what may happen, and how often, in one behaviour

ASSUME ListenerAssumption ==
  /\ Events \subseteq Nat /\ IsFiniteSet(Events) /\ IsFiniteSet(Polls)
  /\ Payer \in [Events -> Wallets] /\ Owner \in [Intents -> Users] /\ DOMAIN Tx = Events
  /\ Loads \subseteq [intent : [Events -> Intents], wrong : SUBSET Events,
                      polls : SUBSET Polls, last : Nat \ {0}, calls : SUBSET Calls,
                      faults : Nat, crashes : Nat]

VARIABLES
  head,           \* the newest block
  block,          \* block[e]: the block that holds e, 0 if none does yet
  status,         \* status[i]: of the intent
  service,        \* "first" until the first poll has ended
  lastBlock,      \* where the next poll begins
  poll,
  deposits,       \* deposits[e]: deposits rows made for event e
  tvl, balance,   \* what they added to the vaults and to the users
  lost,           \* events whose handling threw or was cut off
  budget,         \* faults and crashes so far, and polls that began beside another
  load

chain == <<head, block>>
books == <<status, deposits, tvl, balance>>
vars == <<walletVars, chain, books, service, lastBlock, poll, lost, budget, load>>

IntentOf(e) == load.intent[e]
Idle == [pc |-> "idle", queue |-> <<>>, current |-> 0, copy |-> NoCopy]
Spend(k) == budget[k] < load[k] /\ budget' = [budget EXCEPT ![k] = @ + 1]

Init ==
  /\ load \in Loads
  /\ WalletsInit /\ Range(Owner) \subseteq registered
  /\ load.polls # {} => registered = Range(Owner) /\ primary = [u \in Users |-> NoWallet]
  /\ \A c \in Calls \ load.calls : call[c] = CHOOSE r \in Fresh : TRUE
  /\ head = 1 /\ block = [e \in Events |-> 0]
  /\ status = [i \in Intents |-> "pending"]
  /\ service = "down" /\ lastBlock = 0 /\ poll = [p \in Polls |-> Idle]
  /\ deposits = [e \in Events |-> 0] /\ tvl = 0 /\ balance = 0 /\ lost = {}
  /\ budget = [faults |-> 0, crashes |-> 0, overlaps |-> 0]

-----------------------------------------------------------------------------
(* The chain, and the other users of the intents *)

Mine(S) ==
  /\ load.polls # {} /\ head < load.last /\ \A e \in S : block[e] = 0
  /\ head' = head + 1
  /\ block' = [e \in Events |-> IF e \in S THEN head + 1 ELSE block[e]]
  /\ UNCHANGED <<walletVars, books, service, lastBlock, poll, lost, budget, load>>

(* The intent expires, or a sweep of its one-time address credits it. *)
CloseIntent(i) ==
  /\ load.polls # {} /\ status[i] = "pending"
  /\ \E s \in {"expired", "credited"} : status' = [status EXCEPT ![i] = s]
  /\ UNCHANGED <<walletVars, chain, deposits, tvl, balance, service, lastBlock, poll, lost,
                 budget, load>>

-----------------------------------------------------------------------------
(* start and poll *)

Start ==
  /\ load.polls # {} /\ service = "down"
  /\ service' = "first" /\ lastBlock' = head
  /\ UNCHANGED <<walletVars, chain, books, poll, lost, budget, load>>

(* The first call throws: there is no timer until the next restart. *)
StartFails ==
  /\ load.polls # {} /\ service = "down"
  /\ Spend("faults")
  /\ service' = "failed"
  /\ UNCHANGED <<walletVars, chain, books, lastBlock, poll, lost, load>>

Earlier(d, e) == block[d] < block[e] \/ (block[d] = block[e] /\ d < e)
EventsIn(from, to) == {e \in Events : block[e] # 0 /\ block[e] \in from..to}
Sorted(queue) == \A i, j \in DOMAIN queue : i < j => Earlier(queue[i], queue[j])

(* getBlockNumber and queryFilter.  The reply may be a block old.  A poll  *)
(* whose calls throw changes nothing.                                      *)
BeginPoll(p, current) ==
  /\ poll[p].pc = "idle" /\ p \in load.polls
  /\ service = "up" \/ (service = "first" /\ \A q \in Polls : poll[q].pc = "idle")
  /\ lastBlock <= current
  /\ \E queue \in SetToSeqs(EventsIn(lastBlock, current)) :
       /\ Sorted(queue)
       /\ poll' = [poll EXCEPT ![p].pc = "next", ![p].current = current, ![p].queue = queue]
  /\ budget' = [budget EXCEPT !.overlaps =
                  @ + (IF \E q \in Polls : poll[q].pc # "idle" THEN 1 ELSE 0)]
  /\ UNCHANGED <<walletVars, chain, books, service, lastBlock, lost, load>>

(* A mistake to find: one block too far. *)
AfterNext(current) == current + 2

After(current) == current + 1

EndPoll(p) ==
  /\ poll[p].pc = "next" /\ poll[p].queue = <<>>
  /\ lastBlock' = After(poll[p].current)
  /\ service' = "up"
  /\ poll' = [poll EXCEPT ![p] = Idle]
  /\ UNCHANGED <<walletVars, chain, books, lost, budget, load>>

-----------------------------------------------------------------------------
(* handleEvent *)

Handling(p) == poll[p].pc \notin {"idle", "next"}
Event(p) == Head(poll[p].queue)
UserOf(p) == Owner[IntentOf(Event(p))]

Goto(p, pc) == poll' = [poll EXCEPT ![p].pc = pc]
Drop(p) ==
  poll' = [poll EXCEPT ![p].pc = "next", ![p].queue = Tail(@), ![p].copy = NoCopy]

(* "Check if this tx already processed". *)
FindDeposit(p) ==
  /\ poll[p].pc = "next" /\ poll[p].queue # <<>>
  /\ IF \E d \in Events : Tx[d] = Tx[Event(p)] /\ deposits[d] > 0 THEN Drop(p)
     ELSE Goto(p, "intent")
  /\ UNCHANGED <<walletVars, chain, books, service, lastBlock, lost, budget, load>>

(* A mistake to find: the intent is found whatever its status is. *)
IsAny(i) == TRUE

IsOpen(i) == status[i] = "pending"

FindIntent(p) ==
  /\ poll[p].pc = "intent"
  /\ IF IsOpen(IntentOf(Event(p))) THEN Goto(p, "user") ELSE Drop(p)
  /\ UNCHANGED <<walletVars, chain, books, service, lastBlock, lost, budget, load>>

(* The user's document, and the events that fit no user, token or asset.   *)
LoadUser(p) ==
  /\ poll[p].pc = "user"
  /\ IF Event(p) \in load.wrong THEN Drop(p)
     ELSE poll' = [poll EXCEPT ![p].copy = CopyOf(UserOf(p)),
                     ![p].pc = IF Payer[Event(p)] \in wallets[UserOf(p)] THEN "match" ELSE "check"]
  /\ UNCHANGED <<walletVars, chain, books, service, lastBlock, lost, budget, load>>

CheckPayer(p) ==
  /\ poll[p].pc = "check"
  /\ Goto(p, IF OfAnother(UserOf(p), Payer[Event(p)]) THEN "match" ELSE "link")
  /\ UNCHANGED <<walletVars, chain, books, service, lastBlock, lost, budget, load>>

(* save(); if it throws the event is given up. *)
LinkPayer(p) ==
  /\ poll[p].pc = "link"
  /\ IF Saves(UserOf(p), poll[p].copy, Payer[Event(p)])
       THEN /\ Save(UserOf(p), poll[p].copy, Payer[Event(p)])
            /\ Goto(p, "match") /\ UNCHANGED lost
       ELSE /\ lost' = lost \union {Event(p)}
            /\ Drop(p) /\ UNCHANGED users
  /\ UNCHANGED <<call, chain, books, service, lastBlock, budget, load>>

(* The intent is marked by its id, whatever became of it meanwhile.  Its   *)
(* vault is there: nothing deletes one.                                    *)
Match(p) ==
  /\ poll[p].pc = "match"
  /\ status' = [status EXCEPT ![IntentOf(Event(p))] = "matched"]
  /\ Goto(p, "create")
  /\ UNCHANGED <<walletVars, chain, deposits, tvl, balance, service, lastBlock, lost, budget, load>>

(* DepositModel.create, under no unique key. *)
CreateDeposit(p) ==
  /\ poll[p].pc = "create"
  /\ deposits' = [deposits EXCEPT ![Event(p)] = @ + 1]
  /\ Goto(p, "vault")
  /\ UNCHANGED <<walletVars, chain, status, tvl, balance, service, lastBlock, lost, budget, load>>

(* A mistake to find: the user's balance is raised a second time. *)
IncVaultAndUser(p) ==
  /\ poll[p].pc = "vault"
  /\ tvl' = tvl + 1 /\ balance' = balance + 1
  /\ Goto(p, "balance")
  /\ UNCHANGED <<walletVars, chain, status, deposits, service, lastBlock, lost, budget, load>>

IncVault(p) ==
  /\ poll[p].pc = "vault"
  /\ tvl' = tvl + 1
  /\ Goto(p, "balance")
  /\ UNCHANGED <<walletVars, chain, status, deposits, balance, service, lastBlock, lost, budget, load>>

IncUser(p) ==
  /\ poll[p].pc = "balance"
  /\ balance' = balance + 1
  /\ Drop(p)
  /\ UNCHANGED <<walletVars, chain, status, deposits, tvl, service, lastBlock, lost, budget, load>>

(* Anything in handleEvent throws: the event is given up. *)
HandlerThrows(p) ==
  /\ Handling(p)
  /\ Spend("faults")
  /\ lost' = lost \union {Event(p)}
  /\ Drop(p)
  /\ UNCHANGED <<walletVars, chain, books, service, lastBlock, load>>

(* The process dies, and with it the timer, lastBlock and the polls: what  *)
(* they had read is not read again.                                        *)
Crash ==
  /\ service # "down"
  /\ Spend("crashes")
  /\ service' = "down" /\ poll' = [p \in Polls |-> Idle]
  /\ UNCHANGED <<walletVars, chain, books, lastBlock, lost, load>>

-----------------------------------------------------------------------------
PollStep(p) ==
  \/ FindDeposit(p) \/ FindIntent(p) \/ LoadUser(p) \/ CheckPayer(p) \/ LinkPayer(p)
  \/ Match(p) \/ CreateDeposit(p) \/ IncVault(p) \/ IncUser(p) \/ EndPoll(p)

Next ==
  \/ \E S \in SUBSET Events : Mine(S)
  \/ \E i \in Intents : CloseIntent(i)
  \/ Start \/ StartFails \/ Crash
  \/ \E p \in Polls :
       \/ \E current \in {head - 1, head} : BeginPoll(p, current)
       \/ PollStep(p) \/ HandlerThrows(p)
  \/ /\ load.calls # {}
     /\ \/ \E c \in load.calls : WalletCall(c)
        \/ \E u \in Users, w \in Wallets \union {NoWallet} : Register(u, w)
     /\ UNCHANGED <<chain, books, service, lastBlock, poll, lost, budget, load>>

Spec == Init /\ [][Next]_vars

(* The timer goes on starting polls, and a poll that was begun goes on. *)
Fairness ==
  /\ WF_vars(\E p \in Polls : BeginPoll(p, head))
  /\ \A p \in Polls : WF_vars(PollStep(p))

FairSpec == Spec /\ Fairness

-----------------------------------------------------------------------------
(* Properties *)

(* The type invariant. *)
TypeOK ==
  /\ WalletsTypeOK
  /\ load \in Loads /\ head \in 1..load.last /\ block \in [Events -> 0..load.last]
  /\ status \in [Intents -> {"pending", "credited", "matched", "expired"}]
  /\ service \in {"down", "first", "up", "failed"} /\ lastBlock \in 0..(load.last + 1)
  /\ poll \in [Polls -> [pc : {"idle", "next", "intent", "user", "check", "link", "match",
                               "create", "vault", "balance"},
                         queue : Seq(Events), current : 0..load.last, copy : Copies]]
  /\ \A p \in Polls : Handling(p) => poll[p].queue # <<>>
  /\ deposits \in [Events -> Nat] /\ tvl \in Nat /\ balance \in Nat /\ lost \subseteq Events
  /\ budget \in [{"faults", "crashes", "overlaps"} -> Nat]

(* The sum of f over S: f[x] pairs for each x. *)
SumOver(S, f) == Cardinality(UNION {{x} \X (1..f[x]) : x \in S})

DepositsOf(i) == SumOver({e \in Events : IntentOf(e) = i}, deposits)
TotalDeposits == SumOver(Events, deposits)

(* "Check if this tx already processed": an intent is booked once, however *)
(* often it is paid and its events are read, unless polls run at once, and *)
(* then once for each of them.  The totals never run ahead of the          *)
(* deposits, and while no event is being handled they are behind by at     *)
(* most what faults and crashes cut off.                                   *)
BooksFollow ==
  /\ \A i \in Intents : DepositsOf(i) <= 1 + budget.overlaps
  /\ balance <= tvl /\ tvl <= TotalDeposits
  /\ (\A p \in Polls : ~Handling(p)) =>
       TotalDeposits - balance <= budget.faults + Cardinality(Polls) * budget.crashes

(* Every event of an open intent, mined while the listener runs, becomes a *)
(* deposit: wherever the polls begin and end, and whatever they overlap.   *)
(* What can keep it from that: its handling threw, or that of another      *)
(* event of the intent; the process died; the intent was closed by others; *)
(* or the transaction had another event.                                   *)
Watching(e) ==
  /\ service \in {"first", "up"} /\ block[e] >= lastBlock
  /\ status[IntentOf(e)] = "pending" /\ e \notin load.wrong

SettledOrExcused(e) ==
  \/ \E d \in Events : IntentOf(d) = IntentOf(e) /\ (deposits[d] > 0 \/ d \in lost)
  \/ \E d \in Events \ {e} : Tx[d] = Tx[e] /\ deposits[d] > 0
  \/ status[IntentOf(e)] \in {"expired", "credited"}
  \/ budget.crashes > 0

EventBooked == \A e \in Events : Watching(e) ~> SettledOrExcused(e)
=============================================================================
