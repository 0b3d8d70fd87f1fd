-------------------------- MODULE WithdrawalsProofs --------------------------
(***************************************************************************)
(* Proofs about Withdrawals, for any number of deposits, clients, admins,  *)
(* requests, faults and restarts: its types, that a request is paid once   *)
(* and what is paid was debited (but for the payouts whose confirmation    *)
(* was missed), that with one admin the books agree at rest, and what the  *)
(* code's promises come to with one admin.                                 *)
(*                                                                         *)
(* A claimed request has one admin: a claim asks for a pending row, and a  *)
(* row is put back only by the admin who has it (Claims).  So a row whose  *)
(* payouts are still to be sent has none out beyond the timeouts           *)
(* (PaidCount), and what is out of a wallet or due from it was taken from  *)
(* what was earned (Covered, Backed).  With one admin each step moves an   *)
(* amount from one book to the next, and only a failed update or a restart *)
(* loses the one amount that is under way (SoloBooks).                     *)
(*                                                                         *)
(* Last, proofs about ChainOutbox, the queue that an approved withdrawal,  *)
(* as every change of a position, enters through enqueueAttest.            *)
(***************************************************************************)
EXTENDS Withdrawals, ChainOutbox, SequenceTheorems, FiniteSetTheorems, TLAPS

-----------------------------------------------------------------------------
(* Types *)

Statuses == {"pending", "approved", "rejected", "completed"}
Row == [source : Sources, deposit : Deposits \union {NoDeposit}, amount : Nat \ {0},
        status : Statuses]
Payouts == [request : DOMAIN request, status : {"pending", "mined", "reverted"}]
ClientCalls == [pc : {"idle", "check", "readYield", "create"}, source : Sources,
                deposit : Deposits \union {NoDeposit}, amount : Int]
Redeeming == {"readDeposit", "withdraw", "lowerStake"}
Debiting == {"guard", "debit"}
Undoing == {"refund", "raiseStake"}
AdminPcs == {"idle", "approve", "reject", "payee", "pay", "wait", "requeue", "complete", "total"}
              \union Redeeming \union Debiting \union Undoing
Reviews == [pc : AdminPcs, request : 0..Len(request), undo : BOOLEAN, payout : 0..Len(payout)]

RequestTypes == request \in Seq(Row) /\ Len(request) <= MaxRequests
MoneyTypes ==
  /\ deposit \in [Deposits -> {"active", "withdrawn"}]
  /\ staked \in Int /\ totalWithdrawn \in Nat
  /\ wallet \in [Wallets -> Int] /\ earned \in [Wallets -> 0..MaxEarned]
PayoutTypes == payout \in Seq(Payouts)
ClientTypes == client \in [Clients -> ClientCalls]
AdminTypes == admin \in [Admins -> Reviews]
OtherTypes ==
  /\ linked \in BOOLEAN /\ load \in Loads
  /\ budget \in [errors : Nat, payErrors : Nat, timeouts : Nat, crashes : Nat]

TypeInv == RequestTypes /\ MoneyTypes /\ PayoutTypes /\ ClientTypes /\ AdminTypes /\ OtherTypes

(* What a request that is to be filed asks for. *)
Asks(c) ==
  /\ c.source = "deposit" => c.amount = 1 /\ c.deposit \in Deposits
  /\ c.source # "deposit" => c.amount <= MaxEarned
ClientsAsk == \A c \in Clients : client[c].pc # "idle" =>
                /\ Asks(client[c])
                /\ client[c].pc = "readYield" => client[c].source = "yield"
                /\ client[c].pc = "create" => client[c].amount > 0
RowsAsk == \A i \in DOMAIN request : Asks(request[i])

(* What the point an approval is at says of its request and its payout. *)
Fits(v) ==
  /\ v.pc # "idle" => v.request \in DOMAIN request
  /\ v.pc \in Redeeming \union {"raiseStake"} => request[v.request].source = "deposit"
  /\ v.pc \in Debiting => request[v.request].source # "deposit"
  /\ v.pc \in {"pay", "wait"} => (request[v.request].source # "deposit" => v.undo)
  /\ v.pc = "wait" => v.payout \in DOMAIN payout /\ payout[v.payout].request = v.request
AdminsFit == \A a \in Admins : Fits(admin[a])

-----------------------------------------------------------------------------
(* Claims *)

Claimed(v) == v.pc \notin {"idle", "approve", "reject"}
Apart == \A a, b \in Admins :
  Claimed(admin[a]) /\ Claimed(admin[b]) /\ admin[a].request = admin[b].request => a = b
ClaimsMarked == \A a \in Admins : Claimed(admin[a]) => Of(a).status # "pending"
Claims == Apart /\ ClaimsMarked

(* A claimed request whose payout is not sent, or has reverted. *)
Unsent(v) ==
  \/ v.pc \in {"payee", "pay", "requeue"} \union Redeeming \union Debiting \union Undoing
  \/ v.pc = "wait" /\ ~Out(v.payout)
Unpaid(i) == request[i].status = "pending" \/ \E a \in Admins : Unsent(admin[a]) /\ admin[a].request = i
OutFor(i) == {k \in DOMAIN payout : Out(k) /\ payout[k].request = i}
PaidCount == \A i \in DOMAIN request :
  Cardinality(OutFor(i)) <= budget.timeouts + (IF Unpaid(i) THEN 0 ELSE 1)

(* What an approval has taken from w and may give back, and what of it is  *)
(* not paid.                                                               *)
Debited(v, w) == v.pc \in {"pay", "wait", "refund"} /\ request[v.request].source = w
Held(w) == [a \in Admins |-> IF Debited(admin[a], w) THEN Of(a).amount ELSE 0]
Due(w) == [a \in Admins |-> IF Debited(admin[a], w) /\ Unsent(admin[a]) THEN Of(a).amount ELSE 0]
Covered == \A w \in Wallets : wallet[w] + SumOver(Admins, Held(w)) <= earned[w]
Backed == \A w \in Wallets :
  PaidTo(w) + wallet[w] + SumOver(Admins, Due(w)) <= earned[w] + budget.timeouts * MaxEarned

-----------------------------------------------------------------------------
(* One admin *)

AtWork == \A a \in Admins : admin[a].pc # "idle" => a \in load.admins
Cut == budget.errors + budget.crashes
RowAt(v) == request[v.request]

SoloStatus(s) ==
  /\ admin[s].pc \in {"approve", "reject"} => Of(s).status = "pending"
  /\ Claimed(admin[s]) => Of(s).status = IF admin[s].pc = "total" THEN "completed" ELSE "approved"
SoloWallet(s) ==
  /\ \A w \in Wallets : wallet[w] >= 0
  /\ admin[s].pc = "debit" => wallet[Of(s).source] >= Of(s).amount
SoloDeposit(s) == admin[s].pc # "idle" /\ Of(s).source = "deposit" =>
  /\ admin[s].pc = "withdraw" => deposit[Of(s).deposit] = "active"
  /\ admin[s].pc \in {"lowerStake", "refund"} => deposit[Of(s).deposit] = "withdrawn"
  /\ admin[s].pc \in {"pay", "wait"} /\ admin[s].undo => deposit[Of(s).deposit] = "withdrawn"

(* What is between two books while the admin is at work. *)
InFlight(v, w) ==
  IF v.pc \in {"pay", "wait", "refund", "complete"} /\ RowAt(v).source = w THEN RowAt(v).amount ELSE 0
Lag(v) == CASE v.pc = "lowerStake" -> -1 [] v.pc = "raiseStake" -> 1 [] OTHER -> 0
Uncounted(v) == IF v.pc = "total" THEN RowAt(v).amount ELSE 0

(* How far the books are apart. *)
Active == {d \in Deposits : deposit[d] = "active"}
AllCompleted == Completed("yield") + Completed("referral") + Completed("deposit")
Slack(s, w) == wallet[w] + InFlight(admin[s], w) + Completed(w) - earned[w]
StakeSlack(s) == staked + Lag(admin[s]) - Cardinality(Active)
TotalSlack(s) == totalWithdrawn + Uncounted(admin[s]) - AllCompleted
SoloBooks(s) ==
  /\ \A w \in Wallets : Slack(s, w) \in -(Cut * MaxEarned)..(Cut * MaxEarned)
  /\ StakeSlack(s) \in -Cut..Cut
  /\ TotalSlack(s) \in -(Cut * Larger(1, MaxEarned))..(Cut * Larger(1, MaxEarned))
Solo == \A s \in Admins : load.admins = {s} =>
          SoloStatus(s) /\ SoloWallet(s) /\ SoloDeposit(s) /\ SoloBooks(s)

Structure == TypeInv /\ ClientsAsk /\ RowsAsk /\ AdminsFit /\ Claims /\ AtWork
IInv == Structure /\ PaidCount /\ Covered /\ Backed /\ Solo
-----------------------------------------------------------------------------
(* Sums of natural numbers over a finite set *)

(* A block of f[x] pairs for each x of S, and how many pairs there are. *)
Block(f, x) == {x} \X (1..f[x])
Blocks(S, f) == UNION {Block(f, x) : x \in S}

LEMMA SumOfBlocks == \A S, f : SumOver(S, f) = Cardinality(Blocks(S, f))
BY DEF SumOver, Blocks, Block

LEMMA BlockSize ==
  ASSUME NEW f, NEW x, f[x] \in Nat
  PROVE  IsFiniteSet(Block(f, x)) /\ Cardinality(Block(f, x)) = f[x]
<1>1. IsFiniteSet({x}) /\ Cardinality({x}) = 1
  BY FS_Singleton
<1>2. IsFiniteSet(1..f[x]) /\ Cardinality(1..f[x]) = f[x]
  BY FS_Interval
<1>3. IsFiniteSet(Block(f, x)) /\ Cardinality(Block(f, x)) = Cardinality({x}) * Cardinality(1..f[x])
  BY <1>1, <1>2, FS_Product, Zenon DEF Block
<1> QED  BY <1>1, <1>2, <1>3

LEMMA BlocksFinite ==
  ASSUME NEW S, IsFiniteSet(S), NEW f, \A x \in S : f[x] \in Nat
  PROVE  IsFiniteSet(Blocks(S, f)) /\ SumOver(S, f) \in Nat
<1> DEFINE B == {Block(f, x) : x \in S}
           g == [x \in S |-> Block(f, x)]
<1>1. g \in Surjection(S, B)
  BY DEF Surjection
<1>2. IsFiniteSet(B)
  <2> HIDE DEF B, g
  <2> QED  BY <1>1, FS_Surjection
<1>3. \A T \in B : IsFiniteSet(T)
  BY BlockSize
<1>4. IsFiniteSet(UNION B)
  <2> HIDE DEF B
  <2> QED  BY <1>2, <1>3, FS_UNION
<1> QED  BY <1>4, FS_CardinalityType, SumOfBlocks DEF Blocks

LEMMA SumSplits ==
  ASSUME NEW S, IsFiniteSet(S), NEW f, \A x \in S : f[x] \in Nat, NEW y \in S
  PROVE  SumOver(S, f) = SumOver(S \ {y}, f) + f[y]
<1> DEFINE R == S \ {y}
<1>1. IsFiniteSet(R) /\ \A x \in R : f[x] \in Nat
  BY FS_RemoveElement
<1>2. IsFiniteSet(Blocks(R, f)) /\ SumOver(R, f) \in Nat
  <2> HIDE DEF R
  <2> QED  BY <1>1, BlocksFinite
<1>3. IsFiniteSet(Block(f, y)) /\ Cardinality(Block(f, y)) = f[y]
  BY BlockSize
<1>4. Blocks(S, f) = Blocks(R, f) \cup Block(f, y)
  BY DEF Blocks
<1>5. Blocks(R, f) \cap Block(f, y) = {}
  BY DEF Blocks, Block
<1>6. Cardinality(Blocks(R, f) \cap Block(f, y)) = 0
  BY <1>5, FS_EmptySet
<1>7. Cardinality(Blocks(R, f) \cup Block(f, y)) =
        Cardinality(Blocks(R, f)) + Cardinality(Block(f, y))
          - Cardinality(Blocks(R, f) \cap Block(f, y))
  BY <1>2, <1>3, FS_Union
<1>8. Cardinality(Blocks(R, f)) \in Nat /\ f[y] \in Nat
  BY <1>2, SumOfBlocks
<1>9. SumOver(S, f) = Cardinality(Blocks(S, f)) /\ SumOver(R, f) = Cardinality(Blocks(R, f))
  BY SumOfBlocks
<1> QED  BY <1>3, <1>4, <1>6, <1>7, <1>8, <1>9

(* Functions that agree have the same sum. *)
LEMMA SumAgrees ==
  ASSUME NEW S, NEW f, NEW g, \A x \in S : f[x] = g[x]
  PROVE  SumOver(S, f) = SumOver(S, g)
<1>1. \A x \in S : Block(f, x) = Block(g, x)
  BY DEF Block
<1>2. Blocks(S, f) = Blocks(S, g)
  BY <1>1 DEF Blocks
<1> QED  BY <1>2, SumOfBlocks

(* A change at one point changes the sum by as much. *)
LEMMA SumMoves ==
  ASSUME NEW S, IsFiniteSet(S), NEW f, NEW g, \A x \in S : f[x] \in Nat /\ g[x] \in Nat,
         NEW y \in S, \A x \in S \ {y} : f[x] = g[x]
  PROVE  SumOver(S, g) = SumOver(S, f) - f[y] + g[y]
<1>1. SumOver(S \ {y}, f) = SumOver(S \ {y}, g)
  BY SumAgrees
<1>2. SumOver(S, f) = SumOver(S \ {y}, f) + f[y]
  BY SumSplits
<1>3. SumOver(S, g) = SumOver(S \ {y}, g) + g[y]
  BY SumSplits
<1>4. SumOver(S \ {y}, f) \in Nat
  <2>1. IsFiniteSet(S \ {y})
    BY FS_RemoveElement
  <2> QED  BY <2>1, BlocksFinite
<1>5. f[y] \in Nat /\ g[y] \in Nat
  OBVIOUS
<1> QED  BY <1>1, <1>2, <1>3, <1>4, <1>5

LEMMA SumOfNothing ==
  ASSUME NEW S, NEW f, \A x \in S : f[x] = 0
  PROVE  SumOver(S, f) = 0
<1>1. \A x \in S : Block(f, x) = {}
  BY DEF Block
<1>2. Blocks(S, f) = {}
  BY <1>1 DEF Blocks
<1> QED  BY <1>2, FS_EmptySet, SumOfBlocks


-----------------------------------------------------------------------------
(* Rows and payouts *)

LEMMA RowFacts ==
  ASSUME RequestTypes
  PROVE  /\ Len(request) \in Nat /\ DOMAIN request = 1..Len(request)
         /\ \A i \in DOMAIN request : request[i] \in Row
BY LenProperties, ElementOfSeq DEF RequestTypes

LEMMA PayoutFacts ==
  ASSUME PayoutTypes
  PROVE  /\ Len(payout) \in Nat /\ DOMAIN payout = 1..Len(payout)
         /\ \A k \in DOMAIN payout : payout[k] \in Payouts
BY LenProperties, ElementOfSeq DEF PayoutTypes

SameRow(r, q) == r.source = q.source /\ r.deposit = q.deposit /\ r.amount = q.amount

(* What a row says never changes, but for its status. *)
KeepsRows ==
  /\ RequestTypes' /\ Len(request') >= Len(request)
  /\ \A i \in DOMAIN request : i \in DOMAIN request' /\ SameRow(request'[i], request[i])
KeepsPayouts ==
  /\ PayoutTypes' /\ Len(payout') >= Len(payout)
  /\ \A k \in DOMAIN payout : k \in DOMAIN payout' /\ payout'[k].request = payout[k].request

LEMMA Marks ==
  ASSUME RequestTypes, NEW i \in DOMAIN request, NEW st \in Statuses,
         request' = [request EXCEPT ![i].status = st]
  PROVE  /\ KeepsRows /\ DOMAIN request' = DOMAIN request
         /\ \A j \in DOMAIN request :
              request'[j].status = IF j = i THEN st ELSE request[j].status
<1> DEFINE e == [request[i] EXCEPT !.status = st]
<1>1. /\ Len(request) \in Nat /\ DOMAIN request = 1..Len(request)
      /\ \A j \in DOMAIN request : request[j] \in Row
  BY RowFacts
<1>2. e \in Row /\ e.status = st /\ SameRow(e, request[i])
  BY <1>1 DEF Row, SameRow
<1>3. request' = [request EXCEPT ![i] = e]
  OBVIOUS
<1>4. /\ request' \in Seq(Row) /\ Len(request') = Len(request)
      /\ \A j \in 1..Len(request) : request'[j] = IF j = i THEN e ELSE request[j]
  <2> HIDE DEF e
  <2> QED  BY <1>1, <1>2, <1>3, ExceptSeq DEF RequestTypes
<1>5. RequestTypes'
  BY <1>4 DEF RequestTypes
<1>6. DOMAIN request' = DOMAIN request
  BY <1>1, <1>4, <1>5, LenProperties
<1>7. \A j \in DOMAIN request : SameRow(request'[j], request[j])
  <2> HIDE DEF e
  <2> QED  BY <1>1, <1>2, <1>4 DEF SameRow
<1> HIDE DEF e
<1> QED  BY <1>1, <1>2, <1>4, <1>5, <1>6, <1>7 DEF KeepsRows

LEMMA RowsStay ==
  ASSUME RequestTypes, UNCHANGED request
  PROVE  KeepsRows
BY RowFacts DEF KeepsRows, RequestTypes, SameRow

(* The payouts of fewer rows are payouts of more. *)
LEMMA PayoutsStay ==
  ASSUME RequestTypes, PayoutTypes, KeepsRows, UNCHANGED payout
  PROVE  KeepsPayouts
<1>1. Payouts \subseteq Payouts'
  BY DEF KeepsRows, Payouts
<1>2. payout' \in Seq(Payouts')
  BY <1>1, SeqMonotonic DEF PayoutTypes
<1>3. Len(payout) \in Nat
  BY PayoutFacts
<1> QED  BY <1>2, <1>3 DEF KeepsPayouts, PayoutTypes

(* A payout settles. *)
LEMMA PayoutMarks ==
  ASSUME PayoutTypes, NEW k \in DOMAIN payout, NEW st \in {"mined", "reverted"},
         payout' = [payout EXCEPT ![k].status = st], UNCHANGED request
  PROVE  /\ KeepsPayouts /\ DOMAIN payout' = DOMAIN payout
         /\ \A j \in DOMAIN payout :
              payout'[j].status = IF j = k THEN st ELSE payout[j].status
<1> DEFINE e == [payout[k] EXCEPT !.status = st]
<1>1. /\ Len(payout) \in Nat /\ DOMAIN payout = 1..Len(payout)
      /\ \A j \in DOMAIN payout : payout[j] \in Payouts
  BY PayoutFacts
<1>2. e \in Payouts /\ e.status = st /\ e.request = payout[k].request
  BY <1>1 DEF Payouts
<1>3. payout' = [payout EXCEPT ![k] = e]
  OBVIOUS
<1>4. /\ payout' \in Seq(Payouts) /\ Len(payout') = Len(payout)
      /\ \A j \in 1..Len(payout) : payout'[j] = IF j = k THEN e ELSE payout[j]
  <2> HIDE DEF e
  <2> QED  BY <1>1, <1>2, <1>3, ExceptSeq DEF PayoutTypes
<1>5. PayoutTypes'
  BY <1>4 DEF PayoutTypes, Payouts
<1>6. DOMAIN payout' = DOMAIN payout
  BY <1>1, <1>4, LenProperties
<1> HIDE DEF e
<1> QED  BY <1>1, <1>2, <1>4, <1>5, <1>6 DEF KeepsPayouts

LEMMA PayoutSent ==
  ASSUME PayoutTypes, NEW i \in DOMAIN request,
         payout' = Append(payout, [request |-> i, status |-> "pending"]), UNCHANGED request
  PROVE  /\ KeepsPayouts /\ Len(payout') = Len(payout) + 1
         /\ DOMAIN payout' = DOMAIN payout \union {Len(payout) + 1}
         /\ \A k \in DOMAIN payout : payout'[k] = payout[k]
         /\ payout'[Len(payout) + 1] = [request |-> i, status |-> "pending"]
<1> DEFINE e == [request |-> i, status |-> "pending"]
<1>1. Len(payout) \in Nat /\ DOMAIN payout = 1..Len(payout)
  BY PayoutFacts
<1>2. e \in Payouts
  BY DEF Payouts
<1>0. payout' = Append(payout, e)
  OBVIOUS
<1>3. /\ payout' \in Seq(Payouts) /\ Len(payout') = Len(payout) + 1
      /\ \A k \in 1..Len(payout) : payout'[k] = payout[k]
      /\ payout'[Len(payout) + 1] = e
  <2> HIDE DEF e
  <2> QED  BY <1>0, <1>1, <1>2 DEF PayoutTypes
<1>4. PayoutTypes' /\ DOMAIN payout' = 1..Len(payout) + 1
  BY <1>1, <1>3, LenProperties DEF PayoutTypes, Payouts
<1> QED  BY <1>1, <1>3, <1>4 DEF KeepsPayouts

LEMMA RequestFiled ==
  ASSUME RequestTypes, NEW r \in Row, request' = Append(request, r), Len(request) < MaxRequests
  PROVE  /\ KeepsRows /\ Len(request') = Len(request) + 1
         /\ DOMAIN request' = DOMAIN request \union {Len(request) + 1}
         /\ \A i \in DOMAIN request : request'[i] = request[i]
         /\ request'[Len(request) + 1] = r
<1>1. Len(request) \in Nat /\ DOMAIN request = 1..Len(request)
  BY RowFacts
<1>2. /\ request' \in Seq(Row) /\ Len(request') = Len(request) + 1
      /\ \A i \in 1..Len(request) : request'[i] = request[i]
      /\ request'[Len(request) + 1] = r
  BY <1>1 DEF RequestTypes
<1>3. DOMAIN request' = 1..Len(request) + 1
  BY <1>1, <1>2, LenProperties
<1>4. MaxRequests \in Nat
  BY WithdrawalsAssumption
<1> QED  BY <1>1, <1>2, <1>3, <1>4 DEF KeepsRows, RequestTypes, SameRow

(* What an approval stands at stays what it is as rows and payouts come. *)
LEMMA FitsStays ==
  ASSUME TypeInv, KeepsRows, KeepsPayouts, NEW a \in Admins, Fits(admin[a]), admin'[a] = admin[a]
  PROVE  Fits(admin[a])' /\ admin'[a] \in Reviews'
<1> DEFINE v == admin[a]
<1>0. /\ v.pc # "idle" => SameRow(request'[v.request], request[v.request])
                          /\ v.request \in DOMAIN request'
      /\ v.pc = "wait" => v.payout \in DOMAIN payout' /\ payout'[v.payout].request = v.request
  BY DEF Fits, KeepsRows, KeepsPayouts
<1>1. Fits(admin[a])'
  BY <1>0 DEF Fits, SameRow, Redeeming, Debiting
<1>2. /\ admin[a] \in Reviews /\ Len(request) \in Nat /\ Len(payout) \in Nat
      /\ Len(request') \in Nat /\ Len(payout') \in Nat
      /\ Len(request') >= Len(request) /\ Len(payout') >= Len(payout)
  BY RowFacts, PayoutFacts, LenProperties
     DEF TypeInv, AdminTypes, KeepsRows, KeepsPayouts, RequestTypes, PayoutTypes
<1>3. admin[a] \in Reviews'
  BY <1>2 DEF Reviews
<1> QED  BY <1>1, <1>3

LEMMA AdminsStay ==
  ASSUME TypeInv, AdminsFit, KeepsRows, KeepsPayouts, UNCHANGED admin
  PROVE  AdminTypes' /\ AdminsFit'
<1>1. \A a \in Admins : Fits(admin[a])' /\ admin'[a] \in Reviews'
  BY FitsStays DEF AdminsFit
<1>2. admin' \in [Admins -> Reviews']
  BY <1>1 DEF TypeInv, AdminTypes
<1> QED  BY <1>1, <1>2 DEF AdminTypes, AdminsFit

LEMMA AdminChanges ==
  ASSUME TypeInv, AdminsFit, KeepsRows, KeepsPayouts, NEW a \in Admins, NEW v,
         admin' = [admin EXCEPT ![a] = v], v \in Reviews', Fits(admin[a])'
  PROVE  AdminTypes' /\ AdminsFit'
<1>1. \A b \in Admins \ {a} : admin'[b] = admin[b]
  BY DEF TypeInv, AdminTypes
<1>2. \A b \in Admins \ {a} : Fits(admin[b])' /\ admin'[b] \in Reviews'
  BY <1>1, FitsStays DEF AdminsFit
<1>3. admin'[a] \in Reviews'
  BY DEF TypeInv, AdminTypes
<1>4. admin' \in [Admins -> Reviews']
  BY <1>2, <1>3 DEF TypeInv, AdminTypes
<1> QED  BY <1>2, <1>4 DEF AdminTypes, AdminsFit

Kept == KeepsRows /\ KeepsPayouts /\ AdminTypes' /\ AdminsFit'

(* A point of the code that a claimed request may be at, as Fits has it. *)
MayBeAt(a, to, undo) ==
  /\ to \in Redeeming \union {"raiseStake"} => Of(a).source = "deposit"
  /\ to \in Debiting => Of(a).source # "deposit"
  /\ to = "pay" => (Of(a).source # "deposit" => undo)

LEMMA ReviewTypes ==
  ASSUME TypeInv, KeepsRows, KeepsPayouts
  PROVE  /\ \A a \in Admins : admin[a] \in Reviews /\ admin[a] \in Reviews'
         /\ Len(request) \in Nat /\ Len(payout) \in Nat
         /\ Len(request') \in Nat /\ Len(payout') \in Nat
         /\ Len(request') >= Len(request) /\ Len(payout') >= Len(payout)
<1>1. /\ \A a \in Admins : admin[a] \in Reviews
      /\ Len(request) \in Nat /\ Len(payout) \in Nat
      /\ Len(request') \in Nat /\ Len(payout') \in Nat
      /\ Len(request') >= Len(request) /\ Len(payout') >= Len(payout)
  BY RowFacts, PayoutFacts, LenProperties
     DEF TypeInv, AdminTypes, KeepsRows, KeepsPayouts, RequestTypes, PayoutTypes
<1>2. Reviews \subseteq Reviews'
  BY <1>1 DEF Reviews
<1> QED  BY <1>1, <1>2

LEMMA ReturnKeeps ==
  ASSUME TypeInv, AdminsFit, KeepsRows, KeepsPayouts, NEW a \in Admins, Return(a)
  PROVE  Kept
<1>1. admin' = [admin EXCEPT ![a] = NoReview]
  BY DEF Return
<1>2. admin'[a] = NoReview
  BY <1>1 DEF TypeInv, AdminTypes
<1>3. Fits(admin[a])'
  BY <1>2 DEF Fits, NoReview, Redeeming, Debiting
<1>4. NoReview \in Reviews'
  BY ReviewTypes DEF Reviews, NoReview, AdminPcs
<1> QED  BY <1>1, <1>3, <1>4, AdminChanges DEF Kept

LEMMA GoKeeps ==
  ASSUME TypeInv, AdminsFit, KeepsRows, KeepsPayouts, NEW a \in Admins, NEW to \in AdminPcs,
         admin[a].pc # "idle", to # "wait",
         NEW undo \in BOOLEAN, MayBeAt(a, to, undo),
         admin' = [admin EXCEPT ![a] = [admin[a] EXCEPT !.pc = to, !.undo = undo]]
  PROVE  Kept
<1> DEFINE v == [admin[a] EXCEPT !.pc = to, !.undo = undo]
<1>1. admin[a] \in Reviews /\ admin[a] \in Reviews' /\ admin[a].request \in DOMAIN request
  BY ReviewTypes DEF AdminsFit, Fits
<1>2. v \in Reviews'
  BY <1>1 DEF Reviews
<1>3. admin'[a] = v
  BY DEF TypeInv, AdminTypes
<1>4. v.pc = to /\ v.request = admin[a].request /\ v.undo = undo
  BY <1>1 DEF Reviews
<1>5. /\ admin[a].request \in DOMAIN request'
      /\ SameRow(request'[admin[a].request], request[admin[a].request])
  BY <1>1 DEF KeepsRows
<1>6. Fits(admin[a])'
  <2> HIDE DEF v
  <2> QED  BY <1>3, <1>4, <1>5 DEF Fits, SameRow, MayBeAt, Of
<1>7. admin' = [admin EXCEPT ![a] = v]
  OBVIOUS
<1> HIDE DEF v
<1> QED  BY <1>2, <1>6, <1>7, AdminChanges DEF Kept

LEMMA GoesOn ==
  ASSUME TypeInv, AdminsFit, KeepsRows, KeepsPayouts, NEW a \in Admins, NEW to \in AdminPcs,
         admin[a].pc # "idle", to # "wait", MayBeAt(a, to, admin[a].undo), Go(a, to)
  PROVE  Kept
<1>1. admin[a] \in Reviews
  BY DEF TypeInv, AdminTypes
<1>2. admin[a].undo \in BOOLEAN
  BY <1>1 DEF Reviews
<1>3. admin' = [admin EXCEPT ![a] = [admin[a] EXCEPT !.pc = to, !.undo = admin[a].undo]]
  <2>1. [admin[a] EXCEPT !.pc = to] = [admin[a] EXCEPT !.pc = to, !.undo = admin[a].undo]
    BY <1>1 DEF Reviews
  <2>2. admin' = [admin EXCEPT ![a] = [admin[a] EXCEPT !.pc = to]]
    BY DEF Go
  <2> QED  BY <2>1, <2>2
<1> QED  BY <1>2, <1>3, GoKeeps

(* The row of a claimed request, or of one that is looked at. *)
LEMMA RowOf ==
  ASSUME TypeInv, AdminsFit, NEW a \in Admins, admin[a].pc # "idle"
  PROVE  /\ admin[a].request \in DOMAIN request /\ Of(a) \in Row /\ Of(a).source \in Sources
         /\ Of(a).amount \in Nat /\ Of(a).amount > 0
BY RowFacts DEF TypeInv, AdminsFit, Fits, Of, Row

LEMMA MarkKeeps ==
  ASSUME TypeInv, AdminsFit, NEW a \in Admins, admin[a].pc # "idle", NEW st \in Statuses, Mark(a, st),
         UNCHANGED payout
  PROVE  KeepsRows /\ KeepsPayouts
<1>1. KeepsRows
  BY RowOf, Marks DEF Mark, TypeInv
<1> QED  BY <1>1, PayoutsStay DEF TypeInv

LEMMA AllStays ==
  ASSUME TypeInv, UNCHANGED <<request, payout>>
  PROVE  KeepsRows /\ KeepsPayouts
BY RowsStay, PayoutsStay DEF TypeInv

(* The steps of an approval by what they do to the request. *)
PutsBack(a) == Claimed(admin[a]) /\ Mark(a, "pending") /\ Return(a) /\ UNCHANGED payout
EndsCall(a) == Return(a) /\ UNCHANGED <<request, payout>>

LEMMA PutBackKeeps ==
  ASSUME TypeInv, AdminsFit, NEW a \in Admins, PutsBack(a)
  PROVE  Kept
<1>1. admin[a].pc # "idle"
  BY DEF PutsBack, Claimed
<1> QED  BY <1>1, MarkKeeps, ReturnKeeps DEF PutsBack, Statuses

LEMMA EndCallKeeps ==
  ASSUME TypeInv, AdminsFit, NEW a \in Admins, EndsCall(a)
  PROVE  Kept
BY AllStays, ReturnKeeps DEF EndsCall

(* The steps of an approval that only go from one point to another. *)
Passes(a) ==
  \/ ReadDeposit(a) \/ PaidByHand(a) \/ WaitPaid(a) \/ WaitReverted(a)
  \/ CheckPayee(a) /\ linked
  \/ GuardDebit(a) /\ NonNegativeAfter(Of(a).source, -Of(a).amount)
  \/ SendRefused(a) \/ WaitThrows(a) \/ RefundThrows(a)

(* Where they lead, and on what condition. *)
Passage(a, to) ==
  \/ /\ UNCHANGED budget
     /\ \/ At(a, "payee") /\ to = (IF Of(a).source = "deposit" THEN "readDeposit" ELSE "guard")
        \/ At(a, "readDeposit")
             /\ to = (IF deposit[Of(a).deposit] = "active" THEN "withdraw" ELSE "pay")
        \/ At(a, "guard") /\ to = "debit" /\ NonNegativeAfter(Of(a).source, -Of(a).amount)
        \/ At(a, "pay") /\ to = "complete"
        \/ At(a, "wait") /\ to = "complete" /\ payout[admin[a].payout].status = "mined"
        \/ At(a, "wait") /\ to = (IF admin[a].undo THEN "refund" ELSE "requeue")
             /\ ~Out(admin[a].payout)
  \/ At(a, "pay") /\ to = (IF admin[a].undo THEN "refund" ELSE "requeue") /\ Spend("payErrors")
  \/ At(a, "wait") /\ to = (IF admin[a].undo THEN "refund" ELSE "requeue") /\ Spend("timeouts")
  \/ admin[a].pc \in Undoing /\ to = "requeue" /\ Spend("errors")

LEMMA PassesGoOn ==
  ASSUME NEW a \in Admins, Passes(a)
  PROVE  \E to \in AdminPcs : Go(a, to) /\ Passage(a, to)
<1> USE DEF At, AdminPcs, Redeeming, Debiting, Undoing
<1>1. CASE CheckPayee(a) /\ linked
  BY <1>1 DEF CheckPayee, Passage
<1>2. CASE ReadDeposit(a)
  BY <1>2 DEF ReadDeposit, Passage
<1>3. CASE PaidByHand(a)
  BY <1>3 DEF PaidByHand, Passage
<1>4. CASE WaitPaid(a)
  BY <1>4 DEF WaitPaid, Passage
<1>5. CASE WaitReverted(a)
  BY <1>5 DEF WaitReverted, Passage, Out
<1>6. CASE GuardDebit(a) /\ NonNegativeAfter(Of(a).source, -Of(a).amount)
  BY <1>6 DEF GuardDebit, Passage
<1>7. CASE SendRefused(a)
  BY <1>7 DEF SendRefused, Passage
<1>8. CASE WaitThrows(a)
  BY <1>8 DEF WaitThrows, Passage
<1>9. CASE RefundThrows(a)
  BY <1>9 DEF RefundThrows, Passage
<1> QED  BY <1>1, <1>2, <1>3, <1>4, <1>5, <1>6, <1>7, <1>8, <1>9 DEF Passes

LEMMA PassageFits ==
  ASSUME TypeInv, AdminsFit, NEW a \in Admins, NEW to, Passage(a, to)
  PROVE  to # "wait" /\ admin[a].pc # "idle" /\ MayBeAt(a, to, admin[a].undo)
<1>1. Fits(admin[a])
  BY DEF AdminsFit
<1> USE <1>1 DEF At, Of, Fits, MayBeAt, Redeeming, Debiting, Undoing
<1>2. admin[a].pc # "idle"
  BY DEF Passage
<1>3. to # "wait"
  BY DEF Passage
<1>4. to \in Redeeming \union {"raiseStake"} => Of(a).source = "deposit"
  BY DEF Passage
<1>5. to \in Debiting => Of(a).source # "deposit"
  BY DEF Passage
<1>6. to = "pay" => (Of(a).source # "deposit" => admin[a].undo)
  BY DEF Passage
<1> QED  BY <1>2, <1>3, <1>4, <1>5, <1>6

LEMMA PassesLeave ==
  ASSUME NEW a \in Admins, Passes(a)
  PROVE  UNCHANGED <<load, request, deposit, staked, wallet, totalWithdrawn, earned, linked, payout, client>>
<1>1. CASE (CheckPayee(a) /\ linked) \/ ReadDeposit(a) \/ PaidByHand(a) \/ WaitPaid(a)
  BY <1>1 DEF CheckPayee, ReadDeposit, PaidByHand, WaitPaid, user
<1>2. CASE WaitReverted(a) \/ (GuardDebit(a) /\ NonNegativeAfter(Of(a).source, -Of(a).amount))
  BY <1>2 DEF WaitReverted, GuardDebit, user
<1>3. CASE SendRefused(a) \/ WaitThrows(a) \/ RefundThrows(a)
  BY <1>3 DEF SendRefused, WaitThrows, RefundThrows, user
<1> QED  BY <1>1, <1>2, <1>3, Zenon DEF Passes

LEMMA PassesKeep ==
  ASSUME TypeInv, AdminsFit, NEW a \in Admins, Passes(a)
  PROVE  Kept
<1>1. UNCHANGED <<request, payout>>
  BY PassesLeave
<1>2. PICK to \in AdminPcs : Go(a, to) /\ Passage(a, to)
  BY PassesGoOn
<1>3. to # "wait" /\ admin[a].pc # "idle" /\ MayBeAt(a, to, admin[a].undo)
  BY <1>2, PassageFits
<1> QED  BY <1>1, <1>2, <1>3, AllStays, GoesOn

(* The other steps of an approval. *)
Takes(a) == Claim(a) /\ Of(a).status = "pending"
BacksOut(a) ==
  \/ Requeue(a) \/ DebitThrows(a)
  \/ CheckPayee(a) /\ ~linked
  \/ GuardDebit(a) /\ ~NonNegativeAfter(Of(a).source, -Of(a).amount)
GivesUp(a) == CallThrows(a) \/ (Claim(a) /\ Of(a).status # "pending")

LEMMA BackedOut ==
  ASSUME NEW a \in Admins, BacksOut(a)
  PROVE  /\ PutsBack(a)
         /\ UNCHANGED <<load, deposit, staked, wallet, earned, totalWithdrawn, linked, client>>
         /\ admin[a].pc \in {"payee", "guard", "requeue", "readDeposit", "withdraw", "lowerStake", "debit"}
         /\ \/ UNCHANGED budget /\ admin[a].pc # "lowerStake"
            \/ Spend("errors")
<1> USE DEF At, PutsBack, Claimed, user
<1>1. CASE CheckPayee(a) /\ ~linked
  BY <1>1 DEF CheckPayee
<1>2. CASE Requeue(a)
  BY <1>2 DEF Requeue
<1>3. CASE DebitThrows(a)
  BY <1>3 DEF DebitThrows
<1>4. CASE GuardDebit(a) /\ ~NonNegativeAfter(Of(a).source, -Of(a).amount)
  BY <1>4 DEF GuardDebit
<1> QED  BY <1>1, <1>2, <1>3, <1>4 DEF BacksOut

LEMMA GaveUp ==
  ASSUME NEW a \in Admins, GivesUp(a)
  PROVE  /\ EndsCall(a)
         /\ UNCHANGED <<load, deposit, staked, wallet, earned, totalWithdrawn, linked, client>>
         /\ admin[a].pc \in {"approve", "payee", "requeue", "complete", "total", "reject"}
         /\ \/ UNCHANGED budget /\ At(a, "approve") /\ Of(a).status # "pending"
            \/ Spend("errors")
BY DEF GivesUp, Claim, CallThrows, EndsCall, At, user

(* Everything an approval does is one of these. *)
LEMMA ApprovalKinds ==
  ASSUME NEW a \in Admins, Process(a) \/ Fault(a)
  PROVE  \/ Passes(a) \/ BacksOut(a) \/ GivesUp(a) \/ Takes(a)
         \/ WithdrawDeposit(a) \/ LowerStake(a) \/ Debit(a) \/ SendPayout(a) \/ Refund(a)
         \/ RaiseStake(a) \/ Complete(a) \/ CountWithdrawn(a) \/ Reject(a)
BY DEF Process, Fault, Passes, BacksOut, GivesUp, Takes

LEMMA TakesKeep ==
  ASSUME TypeInv, AdminsFit, NEW a \in Admins, Takes(a)
  PROVE  Kept
<1>1. admin[a].pc # "idle" /\ Mark(a, "approved") /\ Go(a, "payee") /\ UNCHANGED payout
  BY DEF Takes, Claim, At
<1>2. KeepsRows /\ KeepsPayouts
  BY <1>1, MarkKeeps DEF Statuses
<1> QED  BY <1>1, <1>2, GoesOn DEF MayBeAt, Redeeming, Debiting, AdminPcs

LEMMA RedeemsKeep ==
  ASSUME TypeInv, AdminsFit, NEW a \in Admins,
         WithdrawDeposit(a) \/ LowerStake(a) \/ Debit(a) \/ Refund(a) \/ RaiseStake(a)
  PROVE  Kept
<1>1. KeepsRows /\ KeepsPayouts /\ Fits(admin[a])
  BY AllStays DEF AdminsFit, WithdrawDeposit, LowerStake, Debit, Refund, RaiseStake
<1> USE <1>1 DEF At, MayBeAt, Redeeming, Debiting, Undoing, AdminPcs
<1>2. CASE WithdrawDeposit(a)
  <2>1. At(a, "withdraw") /\ Go(a, "lowerStake") /\ Of(a).source = "deposit"
    BY <1>2 DEF WithdrawDeposit, Fits, Of
  <2> QED  BY <2>1, GoesOn
<1>3. CASE LowerStake(a) \/ Debit(a)
  <2>1. /\ admin[a].pc # "idle"
        /\ admin' = [admin EXCEPT ![a] = [admin[a] EXCEPT !.pc = "pay", !.undo = TRUE]]
    BY <1>3 DEF LowerStake, Debit
  <2> QED  BY <2>1, GoKeeps
<1>4. CASE Refund(a)
  <2>1. \/ At(a, "refund") /\ Go(a, "raiseStake") /\ Of(a).source = "deposit"
        \/ At(a, "refund") /\ Go(a, "requeue")
    BY <1>4 DEF Refund
  <2> QED  BY <2>1, GoesOn
<1>5. CASE RaiseStake(a)
  <2>1. At(a, "raiseStake") /\ Go(a, "requeue")
    BY <1>5 DEF RaiseStake
  <2> QED  BY <2>1, GoesOn
<1> QED  BY <1>2, <1>3, <1>4, <1>5

LEMMA SendsKeep ==
  ASSUME TypeInv, AdminsFit, NEW a \in Admins, SendPayout(a)
  PROVE  Kept
<1> DEFINE v == [admin[a] EXCEPT !.pc = "wait", !.payout = Len(payout) + 1]
<1>1. /\ At(a, "pay") /\ admin[a].request \in DOMAIN request /\ UNCHANGED request
      /\ payout' = Append(payout, [request |-> admin[a].request, status |-> "pending"])
      /\ admin' = [admin EXCEPT ![a] = v]
  BY RowOf DEF SendPayout, At
<1>2. /\ KeepsPayouts /\ Len(payout') = Len(payout) + 1
      /\ DOMAIN payout' = DOMAIN payout \union {Len(payout) + 1}
      /\ payout'[Len(payout) + 1] = [request |-> admin[a].request, status |-> "pending"]
  BY <1>1, PayoutSent DEF TypeInv
<1>3. KeepsRows
  BY <1>1, RowsStay DEF TypeInv
<1>4. admin[a] \in Reviews' /\ Len(payout) \in Nat /\ Len(payout') \in Nat
  BY <1>2, <1>3, ReviewTypes
<1>5. v \in Reviews'
  <2>1. v \in [pc : AdminPcs, request : 0..Len(request'), undo : BOOLEAN, payout : 0..Len(payout')]
    <3>1. Len(payout) + 1 \in 0..Len(payout') /\ "wait" \in AdminPcs
      BY <1>2, <1>4 DEF AdminPcs
    <3> QED  BY <1>4, <3>1 DEF Reviews
  <2> QED  BY <2>1 DEF Reviews
<1>6. admin'[a] = v
  BY <1>1 DEF TypeInv, AdminTypes
<1>7. v.pc = "wait" /\ v.request = admin[a].request /\ v.undo = admin[a].undo
      /\ v.payout = Len(payout) + 1
  BY <1>4 DEF Reviews
<1>8. Fits(admin[a]) /\ admin[a].pc = "pay"
  BY <1>1 DEF AdminsFit, At
<1>9. Fits(admin[a])'
  <2> HIDE DEF v
  <2> QED  BY <1>1, <1>2, <1>6, <1>7, <1>8 DEF Fits, Redeeming, Debiting
<1> HIDE DEF v
<1> QED  BY <1>1, <1>2, <1>3, <1>5, <1>9, AdminChanges DEF Kept

LEMMA EndsKeep ==
  ASSUME TypeInv, AdminsFit, NEW a \in Admins, Complete(a) \/ CountWithdrawn(a) \/ Reject(a)
  PROVE  Kept
<1> USE DEF At, Statuses, AdminPcs, MayBeAt, Redeeming, Debiting
<1>1. CASE Complete(a)
  <2>1. At(a, "complete") /\ Mark(a, "completed") /\ Go(a, "total") /\ UNCHANGED payout
    BY <1>1 DEF Complete
  <2>2. KeepsRows /\ KeepsPayouts
    BY <2>1, MarkKeeps
  <2> QED  BY <2>1, <2>2, GoesOn
<1>2. CASE CountWithdrawn(a)
  BY <1>2, EndCallKeeps DEF CountWithdrawn, EndsCall
<1>3. CASE Reject(a)
  <2>1. At(a, "reject") /\ Mark(a, "rejected") /\ Return(a) /\ UNCHANGED payout
    BY <1>3 DEF Reject
  <2> QED  BY <2>1, MarkKeeps, ReturnKeeps
<1> QED  BY <1>1, <1>2, <1>3

LEMMA ReviewKeeps ==
  ASSUME TypeInv, AdminsFit, NEW a \in Admins, NEW i \in DOMAIN request,
         NEW action \in {"approve", "reject"}, Review(a, i, action)
  PROVE  Kept
<1> DEFINE v == [NoReview EXCEPT !.pc = action, !.request = i]
<1>1. UNCHANGED <<request, payout>> /\ admin' = [admin EXCEPT ![a] = v]
  BY DEF Review
<1>2. KeepsRows /\ KeepsPayouts
  BY <1>1, AllStays
<1>3. v.pc = action /\ v.request = i
  BY DEF NoReview
<1>4. v \in Reviews'
  <2>1. i \in 0..Len(request) /\ Len(request') = Len(request) /\ Len(payout') \in Nat
    BY <1>1, <1>2, ReviewTypes, RowFacts DEF TypeInv
  <2>2. NoReview \in Reviews'
    BY <2>1 DEF Reviews, NoReview, AdminPcs
  <2>3. action \in AdminPcs /\ i \in 0..Len(request')
    BY <2>1 DEF AdminPcs
  <2> QED  BY <2>2, <2>3 DEF Reviews
<1>5. admin'[a] = v
  BY <1>1 DEF TypeInv, AdminTypes
<1>6. Fits(admin[a])'
  <2> HIDE DEF v
  <2> QED  BY <1>1, <1>3, <1>5 DEF Fits, Redeeming, Debiting
<1> HIDE DEF v
<1> QED  BY <1>1, <1>2, <1>4, <1>6, AdminChanges DEF Kept

LEMMA ApprovalKeeps ==
  ASSUME TypeInv, AdminsFit, NEW a \in Admins, Process(a) \/ Fault(a)
  PROVE  Kept
<1>1. BacksOut(a) => Kept
  BY BackedOut, PutBackKeeps
<1>2. GivesUp(a) => Kept
  BY GaveUp, EndCallKeeps
<1> QED  BY <1>1, <1>2, ApprovalKinds, PassesKeep, TakesKeep, RedeemsKeep, SendsKeep, EndsKeep

-----------------------------------------------------------------------------
(* Every step keeps the types *)

LEMMA LoadFacts ==
  ASSUME OtherTypes
  PROVE  /\ load.sources \subseteq Sources /\ load.admins \subseteq Admins
         /\ budget.errors \in Nat /\ budget.payErrors \in Nat
         /\ budget.timeouts \in Nat /\ budget.crashes \in Nat
BY WithdrawalsAssumption DEF OtherTypes

LEMMA SpendTypes ==
  ASSUME OtherTypes, NEW k \in {"errors", "payErrors", "timeouts", "crashes"}, Spend(k)
  PROVE  /\ budget' \in [errors : Nat, payErrors : Nat, timeouts : Nat, crashes : Nat]
         /\ budget'.errors = IF k = "errors" THEN budget.errors + 1 ELSE budget.errors
         /\ budget'.timeouts = IF k = "timeouts" THEN budget.timeouts + 1 ELSE budget.timeouts
         /\ budget'.crashes = IF k = "crashes" THEN budget.crashes + 1 ELSE budget.crashes
BY DEF OtherTypes, Spend

(* What an approval does to the budget. *)
LEMMA ApprovalSpends ==
  ASSUME NEW a \in Admins, Process(a) \/ Fault(a)
  PROVE  UNCHANGED budget \/ Spend("errors") \/ Spend("payErrors") \/ Spend("timeouts")
<1>1. CASE Passes(a)
  BY <1>1, PassesGoOn DEF Passage
<1>2. CASE BacksOut(a) \/ GivesUp(a)
  BY <1>2, BackedOut, GaveUp
<1>3. CASE Takes(a) \/ Complete(a) \/ CountWithdrawn(a) \/ Reject(a) \/ SendPayout(a)
  BY <1>3 DEF Takes, Claim, Complete, CountWithdrawn, Reject, SendPayout
<1>4. CASE WithdrawDeposit(a) \/ LowerStake(a) \/ Debit(a) \/ Refund(a) \/ RaiseStake(a)
  BY <1>4 DEF WithdrawDeposit, LowerStake, Debit, Refund, RaiseStake
<1> QED  BY <1>1, <1>2, <1>3, <1>4, ApprovalKinds

(* What it leaves alone always. *)
LEMMA ApprovalLeaves ==
  ASSUME NEW a \in Admins, Process(a) \/ Fault(a)
  PROVE  UNCHANGED <<load, earned, linked, client>>
<1>1. CASE Passes(a)
  BY <1>1, PassesLeave
<1>2. CASE BacksOut(a) \/ GivesUp(a)
  BY <1>2, BackedOut, GaveUp
<1>3. CASE Takes(a) \/ Complete(a) \/ CountWithdrawn(a) \/ Reject(a) \/ SendPayout(a)
  BY <1>3 DEF Takes, Claim, Complete, CountWithdrawn, Reject, SendPayout
<1>4. CASE WithdrawDeposit(a) \/ LowerStake(a) \/ Debit(a) \/ Refund(a) \/ RaiseStake(a)
  BY <1>4 DEF WithdrawDeposit, LowerStake, Debit, Refund, RaiseStake
<1> QED  BY <1>1, <1>2, <1>3, <1>4, ApprovalKinds

LEMMA ApprovalMoney ==
  ASSUME TypeInv, AdminsFit, NEW a \in Admins, Process(a) \/ Fault(a)
  PROVE  MoneyTypes'
<1> USE DEF TypeInv, MoneyTypes
<1>1. CASE Passes(a)
  BY <1>1, PassesLeave
<1>2. CASE BacksOut(a) \/ GivesUp(a)
  BY <1>2, BackedOut, GaveUp
<1>3. CASE Takes(a) \/ Complete(a) \/ Reject(a) \/ SendPayout(a)
  BY <1>3 DEF Takes, Claim, Complete, Reject, SendPayout, user
<1>4. CASE CountWithdrawn(a)
  <2>1. Of(a).amount \in Nat
    BY <1>4, RowOf DEF CountWithdrawn, At
  <2> QED  BY <1>4, <2>1 DEF CountWithdrawn
<1>5. CASE WithdrawDeposit(a)
  BY <1>5 DEF WithdrawDeposit, user
<1>6. CASE LowerStake(a) \/ RaiseStake(a)
  BY <1>6 DEF LowerStake, RaiseStake, user
<1>7. CASE Debit(a)
  <2>1. Of(a).amount \in Nat
    BY <1>7, RowOf DEF Debit, At
  <2>2. \A x \in Wallets : wallet'[x] \in Int
    BY <1>7, <2>1 DEF Debit
  <2>3. wallet' \in [Wallets -> Int]
    BY <1>7, <2>2 DEF Debit
  <2> QED  BY <1>7, <2>3 DEF Debit
<1>8. CASE Refund(a)
  <2>1. Of(a).amount \in Nat
    BY <1>8, RowOf DEF Refund, At
  <2>2. deposit' \in [Deposits -> {"active", "withdrawn"}]
    BY <1>8 DEF Refund
  <2>3. wallet' \in [Wallets -> Int]
    BY <1>8, <2>1 DEF Refund
  <2>4. UNCHANGED <<staked, totalWithdrawn, earned>>
    BY <1>8 DEF Refund
  <2> QED  BY <2>2, <2>3, <2>4
<1> QED  BY <1>1, <1>2, <1>3, <1>4, <1>5, <1>6, <1>7, <1>8, ApprovalKinds

LEMMA ApprovalTypes ==
  ASSUME TypeInv, AdminsFit, NEW a \in Admins, Process(a) \/ Fault(a)
  PROVE  TypeInv' /\ AdminsFit' /\ KeepsRows /\ KeepsPayouts
<1>1. Kept
  BY ApprovalKeeps
<1>2. RequestTypes' /\ PayoutTypes' /\ AdminTypes' /\ AdminsFit' /\ KeepsRows /\ KeepsPayouts
  BY <1>1 DEF Kept, KeepsRows, KeepsPayouts
<1>3. MoneyTypes'
  BY ApprovalMoney
<1>4. ClientTypes'
  BY ApprovalLeaves DEF TypeInv, ClientTypes
<1>5. budget' \in [errors : Nat, payErrors : Nat, timeouts : Nat, crashes : Nat]
  BY ApprovalSpends, SpendTypes DEF TypeInv, OtherTypes
<1>6. OtherTypes'
  BY <1>5, ApprovalLeaves DEF TypeInv, OtherTypes
<1> QED  BY <1>2, <1>3, <1>4, <1>6 DEF TypeInv

(* What a client does before its request is filed changes only its call. *)
Prepares(c) ==
  \/ \E s \in Sources, d \in Deposits \union {NoDeposit} : BeginRequest(c, s, d)
  \/ Refused(c) \/ Accepted(c) \/ ReadYield(c)

AllButClients == <<load, request, deposit, staked, user, earned, linked, payout, admin, budget>>

LEMMA PreparesLeaves ==
  ASSUME NEW c \in Clients, Prepares(c)
  PROVE  UNCHANGED AllButClients
BY DEF Prepares, BeginRequest, Refused, Accepted, ReadYield, AllButClients

(* A call that fits. *)
ClientFits(q) ==
  /\ q \in ClientCalls
  /\ q.pc # "idle" => /\ Asks(q)
                      /\ q.pc = "readYield" => q.source = "yield"
                      /\ q.pc = "create" => q.amount > 0

WalletsBounded == \A w \in Wallets : wallet[w] <= MaxEarned

LEMMA ClientChanges ==
  ASSUME ClientTypes, ClientsAsk, NEW c \in Clients, NEW q, ClientFits(q),
         client' = [client EXCEPT ![c] = q]
  PROVE  ClientTypes' /\ ClientsAsk'
BY DEF ClientTypes, ClientsAsk, ClientFits, Asks

LEMMA ClientsFit ==
  ASSUME TypeInv, ClientsAsk
  PROVE  /\ \A c \in Clients : ClientFits(client[c])
         /\ ClientFits(NoCall)
         /\ MaxEarned \in Nat
<1>1. MaxEarned \in Nat
  BY WithdrawalsAssumption
<1>2. ClientFits(NoCall)
  BY DEF ClientFits, ClientCalls, NoCall, Sources
<1> QED  BY <1>1, <1>2 DEF TypeInv, ClientTypes, ClientsAsk, ClientFits

LEMMA PreparesTypes ==
  ASSUME TypeInv, ClientsAsk, WalletsBounded, NEW c \in Clients, Prepares(c)
  PROVE  ClientTypes' /\ ClientsAsk'
<1> DEFINE old == client[c]
<1>0. /\ ClientFits(old) /\ ClientFits(NoCall) /\ MaxEarned \in Nat /\ ClientTypes
      /\ wallet \in [Wallets -> Int]
  BY ClientsFit DEF TypeInv, MoneyTypes
<1>1. ASSUME NEW s \in Sources, NEW d \in Deposits \union {NoDeposit}, BeginRequest(c, s, d)
      PROVE  ClientTypes' /\ ClientsAsk'
  <2> DEFINE q == [pc |-> "check", source |-> s, deposit |-> d,
                   amount |-> CASE s = "deposit" -> 1 [] s = "yield" -> 0 [] OTHER -> wallet[s]]
  <2>1. q.amount \in Int /\ (s = "deposit" => q.amount = 1) /\ (s # "deposit" => q.amount <= MaxEarned)
    <3>1. CASE s = "deposit"
      BY <3>1
    <3>2. CASE s = "yield"
      BY <1>0, <3>2
    <3>3. CASE s = "referral"
      BY <1>0, <3>3 DEF WalletsBounded, Wallets
    <3> QED  BY <3>1, <3>2, <3>3 DEF Sources
  <2>2. s = "deposit" => d \in Deposits
    BY <1>1 DEF BeginRequest
  <2>3. q.pc = "check" /\ q.source = s /\ q.deposit = d
    OBVIOUS
  <2>4. ClientFits(q)
    <3>1. q \in ClientCalls
      BY <2>1 DEF ClientCalls
    <3> HIDE DEF q
    <3> QED  BY <2>1, <2>2, <2>3, <3>1 DEF ClientFits, Asks
  <2>5. client' = [client EXCEPT ![c] = q]
    BY <1>1 DEF BeginRequest
  <2> HIDE DEF q
  <2> QED  BY <1>0, <2>4, <2>5, ClientChanges
<1>2. CASE Refused(c)
  BY <1>0, <1>2, ClientChanges DEF Refused
<1>3. CASE Accepted(c)
  <2>1. \/ /\ old.source = "yield" /\ client' = [client EXCEPT ![c] = [old EXCEPT !.pc = "readYield"]]
        \/ /\ old.source = "deposit" /\ client' = [client EXCEPT ![c] = [old EXCEPT !.pc = "create"]]
        \/ /\ old.source = "referral"
           /\ \E n \in 1..old.amount :
                client' = [client EXCEPT ![c] = [old EXCEPT !.pc = "create", !.amount = n]]
    BY <1>3 DEF Accepted
  <2>2. old.pc = "check" /\ old \in ClientCalls /\ Asks(old)
    BY <1>0, <1>3 DEF Accepted, ClientFits
  <2>3. old.source = "yield" => ClientFits([old EXCEPT !.pc = "readYield"])
    BY <2>2 DEF ClientFits, ClientCalls, Asks
  <2>4. old.source = "deposit" => ClientFits([old EXCEPT !.pc = "create"])
    BY <2>2 DEF ClientFits, ClientCalls, Asks
  <2>5. ASSUME old.source = "referral", NEW n \in 1..old.amount
        PROVE  ClientFits([old EXCEPT !.pc = "create", !.amount = n])
    <3> DEFINE q == [old EXCEPT !.pc = "create", !.amount = n]
    <3>1. n \in Int /\ n > 0 /\ n <= MaxEarned
      BY <1>0, <2>2, <2>5 DEF ClientCalls, Asks
    <3>2. q \in ClientCalls /\ q.pc = "create" /\ q.source = "referral" /\ q.amount = n
      BY <2>2, <2>5, <3>1 DEF ClientCalls
    <3>3. ClientFits(q)
      <4> HIDE DEF q
      <4> QED  BY <3>1, <3>2 DEF ClientFits, Asks
    <3> QED  BY <3>3
  <2> HIDE DEF old
  <2> QED  BY <1>0, <2>1, <2>3, <2>4, <2>5, ClientChanges
<1>4. CASE ReadYield(c)
  <2>1. \/ client' = [client EXCEPT ![c] = NoCall]
        \/ /\ wallet["yield"] > 0
           /\ client' = [client EXCEPT ![c] = [old EXCEPT !.pc = "create", !.amount = wallet["yield"]]]
    <3>1. wallet["yield"] \in Int
      BY <1>0 DEF Wallets
    <3>2. client' = [client EXCEPT ![c] =
                       IF wallet["yield"] <= 0 THEN NoCall
                       ELSE [old EXCEPT !.pc = "create", !.amount = wallet["yield"]]]
      BY <1>4 DEF ReadYield
    <3>3. CASE wallet["yield"] <= 0
      BY <3>2, <3>3
    <3>4. CASE wallet["yield"] > 0
      BY <3>1, <3>2, <3>4
    <3> QED  BY <3>1, <3>3, <3>4
  <2>2. old.pc = "readYield" /\ old \in ClientCalls /\ old.source = "yield"
    BY <1>0, <1>4 DEF ReadYield, ClientFits
  <2>3. wallet["yield"] \in Int /\ wallet["yield"] <= MaxEarned
    BY <1>0 DEF WalletsBounded, Wallets
  <2>4. ASSUME wallet["yield"] > 0
        PROVE  ClientFits([old EXCEPT !.pc = "create", !.amount = wallet["yield"]])
    <3> DEFINE q == [old EXCEPT !.pc = "create", !.amount = wallet["yield"]]
    <3>1. q \in ClientCalls /\ q.pc = "create" /\ q.source = "yield" /\ q.amount = wallet["yield"]
      BY <2>2, <2>3 DEF ClientCalls
    <3>2. ClientFits(q)
      <4> HIDE DEF q
      <4> QED  BY <2>3, <2>4, <3>1 DEF ClientFits, Asks
    <3> QED  BY <3>2
  <2> HIDE DEF old
  <2> QED  BY <1>0, <2>1, <2>4, ClientChanges
<1> QED  BY <1>1, <1>2, <1>3, <1>4 DEF Prepares

LEMMA PreparesKeep ==
  ASSUME TypeInv, AdminsFit, RowsAsk, ClientsAsk, WalletsBounded, NEW c \in Clients, Prepares(c)
  PROVE  TypeInv' /\ AdminsFit' /\ RowsAsk' /\ ClientsAsk' /\ KeepsRows /\ KeepsPayouts
<1>1. UNCHANGED AllButClients
  BY PreparesLeaves
<1>2. UNCHANGED <<load, request, deposit, staked, wallet, totalWithdrawn, earned, linked, payout, admin, budget>>
  BY <1>1 DEF AllButClients, user
<1>3. KeepsRows /\ KeepsPayouts
  BY <1>2, AllStays
<1>4. RequestTypes' /\ PayoutTypes'
  BY <1>3 DEF KeepsRows, KeepsPayouts
<1>5. AdminTypes' /\ AdminsFit'
  BY <1>2, <1>3, AdminsStay
<1>6. MoneyTypes' /\ OtherTypes'
  BY <1>2 DEF TypeInv, MoneyTypes, OtherTypes
<1>7. ClientTypes' /\ ClientsAsk'
  BY PreparesTypes
<1>8. RowsAsk'
  BY <1>2 DEF RowsAsk, Asks
<1> QED  BY <1>3, <1>4, <1>5, <1>6, <1>7, <1>8 DEF TypeInv

NewRow(c) == [source |-> client[c].source, deposit |-> client[c].deposit,
              amount |-> client[c].amount, status |-> "pending"]

LEMMA FilesKeep ==
  ASSUME TypeInv, AdminsFit, RowsAsk, ClientsAsk, NEW c \in Clients, FileRequest(c)
  PROVE  /\ TypeInv' /\ AdminsFit' /\ RowsAsk' /\ ClientsAsk' /\ KeepsRows /\ KeepsPayouts
         /\ Len(request') = Len(request) + 1
         /\ DOMAIN request' = DOMAIN request \union {Len(request) + 1}
         /\ \A i \in DOMAIN request : request'[i] = request[i]
         /\ request'[Len(request) + 1] = NewRow(c)
         /\ UNCHANGED <<load, deposit, staked, wallet, totalWithdrawn, earned, linked, payout, admin, budget>>
<1>1. /\ ClientFits(client[c]) /\ ClientFits(NoCall)
      /\ client[c].pc = "create" /\ Len(request) < MaxRequests
      /\ request' = Append(request, NewRow(c)) /\ client' = [client EXCEPT ![c] = NoCall]
  BY ClientsFit DEF FileRequest, NewRow
<1>2. UNCHANGED <<load, deposit, staked, wallet, totalWithdrawn, earned, linked, payout, admin, budget>>
  BY DEF FileRequest, user
<1>3. NewRow(c) \in Row /\ Asks(NewRow(c))
  BY <1>1 DEF NewRow, Row, Asks, ClientFits, ClientCalls, Statuses
<1>4. /\ KeepsRows /\ Len(request') = Len(request) + 1
      /\ DOMAIN request' = DOMAIN request \union {Len(request) + 1}
      /\ \A i \in DOMAIN request : request'[i] = request[i]
      /\ request'[Len(request) + 1] = NewRow(c)
  BY <1>1, <1>3, RequestFiled DEF TypeInv
<1>5. KeepsPayouts
  BY <1>2, <1>4, PayoutsStay DEF TypeInv
<1>6. AdminTypes' /\ AdminsFit'
  BY <1>2, <1>4, <1>5, AdminsStay
<1>7. MoneyTypes' /\ OtherTypes'
  BY <1>2 DEF TypeInv, MoneyTypes, OtherTypes
<1>8. ClientTypes' /\ ClientsAsk'
  BY <1>1, ClientChanges DEF TypeInv
<1>9. RowsAsk'
  BY <1>3, <1>4 DEF RowsAsk, Asks
<1> QED  BY <1>2, <1>4, <1>5, <1>6, <1>7, <1>8, <1>9 DEF TypeInv, KeepsRows, KeepsPayouts

(* The same rows ask for the same. *)
LEMMA RowsAskStays ==
  ASSUME RowsAsk, KeepsRows, DOMAIN request' = DOMAIN request
  PROVE  RowsAsk'
BY DEF RowsAsk, KeepsRows, SameRow, Asks

LEMMA ApprovalRows ==
  ASSUME TypeInv, AdminsFit, NEW a \in Admins, Process(a) \/ Fault(a)
  PROVE  DOMAIN request' = DOMAIN request
<1>1. CASE UNCHANGED request
  BY <1>1
<1>2. CASE admin[a].pc # "idle" /\ \E st \in Statuses : Mark(a, st)
  BY <1>2, RowOf, Marks DEF Mark, TypeInv
<1>3. Passes(a) \/ GivesUp(a) => UNCHANGED request
  BY PassesLeave, GaveUp DEF EndsCall
<1>4. BacksOut(a) => admin[a].pc # "idle" /\ Mark(a, "pending")
  BY BackedOut DEF PutsBack
<1>5. Takes(a) => admin[a].pc # "idle" /\ Mark(a, "approved")
  BY DEF Takes, Claim, At
<1>6. WithdrawDeposit(a) \/ LowerStake(a) \/ Debit(a) \/ SendPayout(a) \/ Refund(a)
        \/ RaiseStake(a) \/ CountWithdrawn(a) => UNCHANGED request
  BY DEF WithdrawDeposit, LowerStake, Debit, SendPayout, Refund, RaiseStake, CountWithdrawn
<1>7. Complete(a) => admin[a].pc # "idle" /\ Mark(a, "completed")
  BY DEF Complete, At
<1>8. Reject(a) => admin[a].pc # "idle" /\ Mark(a, "rejected")
  BY DEF Reject, At
<1> QED  BY <1>1, <1>2, <1>3, <1>4, <1>5, <1>6, <1>7, <1>8, ApprovalKinds DEF Statuses

(* The chain, the yield, the wallet's link and a restart. *)
Around == Unlink \/ Crash \/ (\E i \in DOMAIN payout : Mine(i) \/ Revert(i)) \/ \E w \in Wallets : Earn(w)

LEMMA CrashKeeps ==
  ASSUME TypeInv, AdminsFit, KeepsRows, KeepsPayouts, admin' = [a \in Admins |-> NoReview]
  PROVE  AdminTypes' /\ AdminsFit'
<1>1. NoReview \in Reviews'
  BY ReviewTypes DEF Reviews, NoReview, AdminPcs
<1>2. AdminTypes'
  BY <1>1 DEF AdminTypes
<1>3. AdminsFit'
  BY DEF AdminsFit, Fits, NoReview, Redeeming, Debiting
<1> QED  BY <1>2, <1>3

LEMMA AroundKeeps ==
  ASSUME TypeInv, AdminsFit, RowsAsk, ClientsAsk, Around
  PROVE  /\ TypeInv' /\ AdminsFit' /\ RowsAsk' /\ ClientsAsk' /\ KeepsRows /\ KeepsPayouts
         /\ UNCHANGED <<load, request, deposit, staked, totalWithdrawn>>
<1>1. UNCHANGED <<load, request, deposit, staked, totalWithdrawn>>
  BY DEF Around, Unlink, Crash, Mine, Revert, Earn, user
<1>2. KeepsRows /\ RowsAsk'
  BY <1>1, RowsStay DEF TypeInv, RowsAsk, Asks
<1>3. KeepsPayouts
  <2>1. UNCHANGED payout => KeepsPayouts
    BY <1>2, PayoutsStay DEF TypeInv
  <2>2. ASSUME NEW i \in DOMAIN payout, Mine(i) \/ Revert(i) PROVE KeepsPayouts
    BY <2>2, <1>1, PayoutMarks DEF Mine, Revert, TypeInv
  <2> QED  BY <2>1, <2>2 DEF Around, Unlink, Crash, Earn
<1>4. AdminTypes' /\ AdminsFit'
  <2>1. CASE Crash
    BY <2>1, <1>2, <1>3, CrashKeeps DEF Crash
  <2>2. CASE UNCHANGED admin
    BY <2>2, <1>2, <1>3, AdminsStay
  <2> QED  BY <2>1, <2>2 DEF Around, Unlink, Mine, Revert, Earn, calls
<1>5. ClientTypes' /\ ClientsAsk'
  <2>1. CASE Crash
    BY <2>1, ClientsFit DEF Crash, ClientTypes, ClientsAsk, ClientFits, NoCall
  <2>2. CASE UNCHANGED client
    BY <2>2 DEF TypeInv, ClientTypes, ClientsAsk, Asks
  <2> QED  BY <2>1, <2>2 DEF Around, Unlink, Mine, Revert, Earn, calls
<1>6. OtherTypes'
  <2>1. linked' \in BOOLEAN
    BY DEF Around, Unlink, Crash, Mine, Revert, Earn, TypeInv, OtherTypes
  <2>2. UNCHANGED budget \/ Spend("payErrors") \/ Spend("crashes")
    BY DEF Around, Unlink, Crash, Mine, Revert, Earn
  <2> QED  BY <1>1, <2>1, <2>2, SpendTypes DEF TypeInv, OtherTypes
<1>7. MoneyTypes'
  <2>1. CASE \E w \in Wallets : Earn(w)
    <3>1. MaxEarned \in Nat
      BY WithdrawalsAssumption
    <3> QED  BY <1>1, <2>1, <3>1 DEF Earn, TypeInv, MoneyTypes
  <2>2. CASE UNCHANGED <<wallet, earned>>
    BY <1>1, <2>2 DEF TypeInv, MoneyTypes
  <2> QED  BY <2>1, <2>2 DEF Around, Unlink, Crash, Mine, Revert, user
<1> QED  BY <1>1, <1>2, <1>3, <1>4, <1>5, <1>6, <1>7 DEF TypeInv, KeepsRows, KeepsPayouts

-----------------------------------------------------------------------------
(* Claims *)

LEMMA Moved ==
  ASSUME AdminTypes, NEW a \in Admins, NEW to, Go(a, to)
  PROVE  /\ admin'[a].pc = to /\ admin'[a].request = admin[a].request
         /\ admin'[a].undo = admin[a].undo /\ admin'[a].payout = admin[a].payout
         /\ \A b \in Admins \ {a} : admin'[b] = admin[b]
<1>1. admin[a] \in Reviews /\ admin' = [admin EXCEPT ![a] = [admin[a] EXCEPT !.pc = to]]
  BY DEF AdminTypes, Go
<1>2. admin'[a] = [admin[a] EXCEPT !.pc = to] /\ \A b \in Admins \ {a} : admin'[b] = admin[b]
  BY <1>1 DEF AdminTypes
<1> QED  BY <1>1, <1>2 DEF Reviews

LEMMA Returned ==
  ASSUME AdminTypes, NEW a \in Admins, Return(a)
  PROVE  admin'[a] = NoReview /\ \A b \in Admins \ {a} : admin'[b] = admin[b]
BY DEF AdminTypes, Return

LEMMA MovedWithUndo ==
  ASSUME AdminTypes, NEW a \in Admins, LowerStake(a) \/ Debit(a)
  PROVE  /\ admin'[a].pc = "pay" /\ admin'[a].request = admin[a].request /\ admin'[a].undo = TRUE
         /\ \A b \in Admins \ {a} : admin'[b] = admin[b]
<1>1. admin[a] \in Reviews
      /\ admin' = [admin EXCEPT ![a] = [admin[a] EXCEPT !.pc = "pay", !.undo = TRUE]]
  BY DEF AdminTypes, LowerStake, Debit
<1>2. admin'[a] = [admin[a] EXCEPT !.pc = "pay", !.undo = TRUE]
      /\ \A b \in Admins \ {a} : admin'[b] = admin[b]
  BY <1>1 DEF AdminTypes
<1> QED  BY <1>1, <1>2 DEF Reviews

LEMMA MovedToWait ==
  ASSUME AdminTypes, NEW a \in Admins, SendPayout(a)
  PROVE  /\ admin'[a].pc = "wait" /\ admin'[a].request = admin[a].request
         /\ admin'[a].undo = admin[a].undo /\ admin'[a].payout = Len(payout) + 1
         /\ \A b \in Admins \ {a} : admin'[b] = admin[b]
<1> DEFINE v == [admin[a] EXCEPT !.pc = "wait", !.payout = Len(payout) + 1]
<1>1. admin[a] \in Reviews /\ admin' = [admin EXCEPT ![a] = v]
  BY DEF AdminTypes, SendPayout
<1>2. admin'[a] = v /\ \A b \in Admins \ {a} : admin'[b] = admin[b]
  BY <1>1 DEF AdminTypes
<1> QED  BY <1>1, <1>2 DEF Reviews

(* An approval goes on with the request it is at, or ends. *)
LEMMA ApprovalMoves ==
  ASSUME TypeInv, AdminsFit, NEW a \in Admins, Process(a) \/ Fault(a)
  PROVE  /\ admin[a].pc # "idle" /\ \A b \in Admins \ {a} : admin'[b] = admin[b]
         /\ admin'[a].pc = "idle" \/ admin'[a].request = admin[a].request
         /\ Claimed(admin[a])' => Claimed(admin[a]) \/ Takes(a)
<1>0. AdminTypes
  BY DEF TypeInv
<1> USE <1>0 DEF At
<1>1. CASE Passes(a)
  <2>1. PICK to \in AdminPcs : Go(a, to) /\ Passage(a, to)
    BY <1>1, PassesGoOn
  <2>2. Claimed(admin[a])
    BY <2>1 DEF Passage, Claimed, Undoing
  <2> QED  BY <2>1, <2>2, Moved DEF Claimed
<1>2. CASE BacksOut(a) \/ GivesUp(a) \/ CountWithdrawn(a) \/ Reject(a)
  <2>1. Return(a) /\ admin[a].pc # "idle"
    BY <1>2, BackedOut, GaveUp DEF PutsBack, EndsCall, CountWithdrawn, Reject
  <2> QED  BY <2>1, Returned DEF NoReview, Claimed
<1>3. CASE LowerStake(a) \/ Debit(a)
  BY <1>3, MovedWithUndo DEF LowerStake, Debit, Claimed
<1>4. CASE SendPayout(a)
  BY <1>4, MovedToWait DEF SendPayout, Claimed
<1>5. CASE Takes(a)
  <2>1. Go(a, "payee") /\ admin[a].pc = "approve"
    BY <1>5 DEF Takes, Claim
  <2> QED  BY <1>5, <2>1, Moved
<1>6. CASE WithdrawDeposit(a) \/ Refund(a) \/ RaiseStake(a) \/ Complete(a)
  <2>1. Claimed(admin[a]) /\ \E to \in AdminPcs : Go(a, to)
    BY <1>6 DEF WithdrawDeposit, Refund, RaiseStake, Complete, Claimed, AdminPcs, Redeeming, Undoing
  <2> QED  BY <2>1, Moved DEF Claimed
<1> QED  BY <1>1, <1>2, <1>3, <1>4, <1>5, <1>6, ApprovalKinds

(* It marks no request but its own. *)
LEMMA ApprovalMarks ==
  ASSUME TypeInv, AdminsFit, NEW a \in Admins, Process(a) \/ Fault(a)
  PROVE  \/ UNCHANGED request /\ ~Takes(a)
         \/ BacksOut(a) /\ Mark(a, "pending")
         \/ Takes(a) /\ Mark(a, "approved")
         \/ Complete(a) /\ Mark(a, "completed")
         \/ Reject(a) /\ Mark(a, "rejected")
<1> USE DEF At
<1>1. CASE Passes(a)
  <2>1. PICK to \in AdminPcs : Passage(a, to)
    BY <1>1, PassesGoOn
  <2>2. ~Takes(a)
    BY <2>1 DEF Passage, Takes, Claim, Undoing
  <2> QED  BY <1>1, <2>2, PassesLeave
<1>2. CASE GivesUp(a)
  <2>1. CASE Takes(a)
    BY <2>1 DEF Takes, Claim
  <2> QED  BY <1>2, <2>1, GaveUp DEF EndsCall
<1>3. CASE BacksOut(a)
  BY <1>3, BackedOut DEF PutsBack
<1>4. CASE WithdrawDeposit(a) \/ LowerStake(a) \/ Debit(a) \/ SendPayout(a) \/ Refund(a)
             \/ RaiseStake(a) \/ CountWithdrawn(a)
  BY <1>4 DEF WithdrawDeposit, LowerStake, Debit, SendPayout, Refund, RaiseStake, CountWithdrawn,
     Takes, Claim
<1>5. CASE Takes(a) \/ Complete(a) \/ Reject(a)
  BY <1>5 DEF Takes, Claim, Complete, Reject
<1> QED  BY <1>1, <1>2, <1>3, <1>4, <1>5, ApprovalKinds

LEMMA MarkedStatus ==
  ASSUME TypeInv, AdminsFit, NEW a \in Admins, admin[a].pc # "idle", NEW st \in Statuses, Mark(a, st)
  PROVE  \A i \in DOMAIN request :
           request'[i].status = IF i = admin[a].request THEN st ELSE request[i].status
BY RowOf, Marks DEF Mark, TypeInv

LEMMA ApprovalClaims ==
  ASSUME TypeInv, AdminsFit, Claims, NEW a \in Admins, Process(a) \/ Fault(a)
  PROVE  Claims'
<1> DEFINE r == admin[a].request
<1>0. /\ admin[a].pc # "idle" /\ \A b \in Admins \ {a} : admin'[b] = admin[b]
      /\ admin'[a].pc = "idle" \/ admin'[a].request = r
      /\ Claimed(admin[a])' => Claimed(admin[a]) \/ Takes(a)
  BY ApprovalMoves
<1>1. Takes(a) => request[r].status = "pending"
  BY DEF Takes, Of
<1>2. \A b \in Admins : Claimed(admin[b])' => admin'[b].request = admin[b].request
  BY <1>0 DEF Claimed
<1>3. \A b \in Admins \ {a} : Claimed(admin[b]) =>
        admin[b].request \in DOMAIN request /\ request[admin[b].request].status # "pending"
  BY DEF AdminsFit, Fits, Claims, ClaimsMarked, Of, Claimed
<1>4. \A b \in Admins \ {a} : Claimed(admin[b])' = Claimed(admin[b])
  BY <1>0 DEF Claimed
<1>5. \A b \in Admins \ {a} : Claimed(admin[a])' /\ Claimed(admin[b]) => admin[b].request # r
  BY <1>0, <1>1, <1>3 DEF Claims, Apart
<1>6. Apart'
  BY <1>2, <1>4, <1>5 DEF Claims, Apart
<1>7. r \in DOMAIN request
  BY <1>0, RowOf
<1>8. ASSUME NEW b \in Admins, Claimed(admin[b])' PROVE Of(b)'.status # "pending"
  <2>1. Of(b)' = request'[admin[b].request] /\ admin[b].request \in DOMAIN request
    BY <1>2, <1>3, <1>4, <1>7, <1>8 DEF Of
  <2>2. CASE UNCHANGED request /\ ~Takes(a)
    BY <1>0, <1>4, <1>8, <2>1, <2>2 DEF Claims, ClaimsMarked, Of
  <2>3. CASE BacksOut(a) /\ Mark(a, "pending")
    <3>1. Return(a) /\ Claimed(admin[a])
      BY <2>3, BackedOut DEF PutsBack
    <3>2. b # a
      BY <3>1, <1>8, Returned DEF NoReview, Claimed, TypeInv
    <3>3. admin[b].request # r
      BY <3>1, <3>2, <1>4, <1>8 DEF Claims, Apart
    <3>4. request'[admin[b].request].status = request[admin[b].request].status
      BY <1>0, <2>1, <2>3, <3>3, MarkedStatus DEF Statuses
    <3> QED  BY <1>3, <1>4, <1>8, <2>1, <3>2, <3>4
  <2>4. ASSUME NEW st \in Statuses \ {"pending"}, Mark(a, st) PROVE Of(b)'.status # "pending"
    <3>1. request'[admin[b].request].status =
            IF admin[b].request = r THEN st ELSE request[admin[b].request].status
      BY <1>0, <2>1, <2>4, MarkedStatus
    <3>2. b # a => request[admin[b].request].status # "pending"
      BY <1>3, <1>4, <1>8
    <3> QED  BY <2>1, <2>4, <3>1, <3>2
  <2>5. \/ UNCHANGED request /\ ~Takes(a)
        \/ BacksOut(a) /\ Mark(a, "pending")
        \/ \E st \in Statuses \ {"pending"} : Mark(a, st)
    BY ApprovalMarks DEF Statuses
  <2> QED  BY <2>2, <2>3, <2>4, <2>5
<1> QED  BY <1>6, <1>8 DEF Claims, ClaimsMarked

(* A step that claims nothing, and makes no claimed request pending. *)
LEMMA ClaimsStay ==
  ASSUME TypeInv, AdminsFit, Claims,
         \A b \in Admins : Claimed(admin[b])' => admin'[b] = admin[b],
         \A i \in DOMAIN request : request'[i] = request[i]
  PROVE  Claims'
<1>1. \A b \in Admins : Claimed(admin[b])' => Claimed(admin[b]) /\ admin'[b].request = admin[b].request
  BY DEF Claimed
<1>2. Apart'
  BY <1>1 DEF Claims, Apart
<1>3. \A b \in Admins : Claimed(admin[b])' => admin[b].request \in DOMAIN request /\ Of(b)' = Of(b)
  BY <1>1 DEF AdminsFit, Fits, Claimed, Of
<1> QED  BY <1>1, <1>2, <1>3 DEF Claims, ClaimsMarked

-----------------------------------------------------------------------------
(* The structure is kept *)

LEMMA WalletsAreBounded ==
  ASSUME TypeInv, AdminsFit, Covered
  PROVE  WalletsBounded
<1> SUFFICES ASSUME NEW w \in Wallets PROVE wallet[w] <= MaxEarned
  BY DEF WalletsBounded
<1>1. \A a \in Admins : Held(w)[a] \in Nat
  <2>1. ASSUME NEW a \in Admins, Debited(admin[a], w) PROVE Of(a).amount \in Nat
    BY <2>1, RowOf DEF Debited
  <2> QED  BY <2>1 DEF Held
<1>2. SumOver(Admins, Held(w)) \in Nat
  BY <1>1, BlocksFinite, WithdrawalsAssumption
<1>3. wallet[w] + SumOver(Admins, Held(w)) <= earned[w] /\ earned[w] <= MaxEarned
      /\ wallet[w] \in Int /\ earned[w] \in Int /\ MaxEarned \in Nat
  BY WithdrawalsAssumption DEF Covered, TypeInv, MoneyTypes
<1> QED  BY <1>2, <1>3

(* The steps of the specification, by who takes them. *)
Looks(a) == \E i \in DOMAIN request, action \in {"approve", "reject"} : Review(a, i, action)

LEMMA Steps ==
  ASSUME Next
  PROVE  \/ \E c \in Clients : Prepares(c) \/ FileRequest(c)
         \/ \E a \in Admins : Process(a) \/ Fault(a) \/ Looks(a)
         \/ Around
<1>1. ASSUME NEW c \in Clients,
             Request(c) \/ \E s \in Sources, d \in Deposits \union {NoDeposit} : BeginRequest(c, s, d)
      PROVE  Prepares(c) \/ FileRequest(c)
  BY <1>1 DEF Request, Prepares
<1> QED  BY <1>1 DEF Next, Looks, Around

LEMMA LooksKeep ==
  ASSUME TypeInv, AdminsFit, RowsAsk, ClientsAsk, NEW a \in Admins, Looks(a)
  PROVE  /\ TypeInv' /\ AdminsFit' /\ RowsAsk' /\ ClientsAsk' /\ KeepsRows /\ KeepsPayouts
         /\ UNCHANGED <<load, request, deposit, staked, wallet, totalWithdrawn, earned, linked,
                        payout, client, budget>>
         /\ admin[a].pc = "idle" /\ a \in load.admins
         /\ admin'[a].pc \in {"approve", "reject"} /\ admin'[a].request \in DOMAIN request
         /\ request[admin'[a].request].status = "pending"
         /\ \A b \in Admins \ {a} : admin'[b] = admin[b]
<1>1. PICK i \in DOMAIN request, action \in {"approve", "reject"} : Review(a, i, action)
  BY DEF Looks
<1>2. UNCHANGED <<load, request, deposit, staked, wallet, totalWithdrawn, earned, linked,
                  payout, client, budget>>
  BY <1>1 DEF Review, user
<1>3. Kept
  BY <1>1, ReviewKeeps
<1>4. RequestTypes' /\ PayoutTypes' /\ AdminTypes' /\ AdminsFit' /\ KeepsRows /\ KeepsPayouts
  BY <1>3 DEF Kept, KeepsRows, KeepsPayouts
<1>5. MoneyTypes' /\ ClientTypes' /\ OtherTypes'
  BY <1>2 DEF TypeInv, MoneyTypes, ClientTypes, OtherTypes
<1>6. RowsAsk' /\ ClientsAsk'
  BY <1>2 DEF RowsAsk, ClientsAsk, Asks
<1>7. admin[a].pc = "idle" /\ a \in load.admins /\ request[i].status = "pending"
  BY <1>1 DEF Review, At
<1>8. admin' = [admin EXCEPT ![a] = [NoReview EXCEPT !.pc = action, !.request = i]]
  BY <1>1 DEF Review
<1>9. admin'[a] = [NoReview EXCEPT !.pc = action, !.request = i]
      /\ \A b \in Admins \ {a} : admin'[b] = admin[b]
  BY <1>8 DEF TypeInv, AdminTypes
<1>10. admin'[a].pc = action /\ admin'[a].request = i
  BY <1>9 DEF NoReview
<1> QED  BY <1>2, <1>4, <1>5, <1>6, <1>7, <1>9, <1>10 DEF TypeInv

LEMMA AroundCalls ==
  ASSUME Around
  PROVE  UNCHANGED admin \/ (Crash /\ admin' = [a \in Admins |-> NoReview])
BY DEF Around, Unlink, Crash, Mine, Revert, Earn, calls

LEMMA StructureKept ==
  ASSUME Structure, Covered, [Next]_vars
  PROVE  Structure' /\ KeepsRows /\ KeepsPayouts
<1> USE DEF Structure
<1>0. WalletsBounded
  BY WalletsAreBounded
<1>1. ASSUME NEW c \in Clients, Prepares(c) PROVE Structure' /\ KeepsRows /\ KeepsPayouts
  <2>1. TypeInv' /\ AdminsFit' /\ RowsAsk' /\ ClientsAsk' /\ KeepsRows /\ KeepsPayouts
    BY <1>0, <1>1, PreparesKeep
  <2>2. UNCHANGED <<load, request, admin>>
    BY <1>1, PreparesLeaves DEF AllButClients
  <2>3. Claims'
    BY <2>2, ClaimsStay
  <2>4. AtWork'
    BY <2>2 DEF AtWork
  <2> QED  BY <2>1, <2>3, <2>4
<1>2. ASSUME NEW c \in Clients, FileRequest(c) PROVE Structure' /\ KeepsRows /\ KeepsPayouts
  <2>1. /\ TypeInv' /\ AdminsFit' /\ RowsAsk' /\ ClientsAsk' /\ KeepsRows /\ KeepsPayouts
        /\ \A i \in DOMAIN request : request'[i] = request[i]
        /\ UNCHANGED <<load, admin>>
    BY <1>2, FilesKeep
  <2>3. Claims'
    BY <2>1, ClaimsStay
  <2>4. AtWork'
    BY <2>1 DEF AtWork
  <2> QED  BY <2>1, <2>3, <2>4
<1>3. ASSUME NEW a \in Admins, Process(a) \/ Fault(a) PROVE Structure' /\ KeepsRows /\ KeepsPayouts
  <2>1. TypeInv' /\ AdminsFit' /\ KeepsRows /\ KeepsPayouts
    BY <1>3, ApprovalTypes
  <2>2. RowsAsk'
    BY <1>3, <2>1, ApprovalRows, RowsAskStays
  <2>3. ClientsAsk' /\ UNCHANGED load
    BY <1>3, ApprovalLeaves DEF ClientsAsk, Asks
  <2>4. Claims'
    BY <1>3, ApprovalClaims
  <2>5. AtWork'
    BY <1>3, <2>3, ApprovalMoves DEF AtWork
  <2> QED  BY <2>1, <2>2, <2>3, <2>4, <2>5
<1>4. ASSUME NEW a \in Admins, Looks(a) PROVE Structure' /\ KeepsRows /\ KeepsPayouts
  <2>1. /\ TypeInv' /\ AdminsFit' /\ RowsAsk' /\ ClientsAsk' /\ KeepsRows /\ KeepsPayouts
        /\ UNCHANGED <<load, request>> /\ a \in load.admins
        /\ admin'[a].pc \in {"approve", "reject"}
        /\ \A b \in Admins \ {a} : admin'[b] = admin[b]
    BY <1>4, LooksKeep
  <2>2. \A b \in Admins : Claimed(admin[b])' => admin'[b] = admin[b]
    BY <2>1 DEF Claimed
  <2>3. Claims'
    BY <2>1, <2>2, ClaimsStay
  <2>4. AtWork'
    BY <2>1 DEF AtWork
  <2> QED  BY <2>1, <2>3, <2>4
<1>5. CASE Around
  <2>1. /\ TypeInv' /\ AdminsFit' /\ RowsAsk' /\ ClientsAsk' /\ KeepsRows /\ KeepsPayouts
        /\ UNCHANGED <<load, request>>
    BY <1>5, AroundKeeps
  <2>2. \A b \in Admins : admin'[b] = admin[b] \/ admin'[b].pc = "idle"
    BY <1>5, AroundCalls DEF NoReview
  <2>3. Claims'
    BY <2>1, <2>2, ClaimsStay DEF Claimed
  <2>4. AtWork'
    BY <2>1, <2>2 DEF AtWork
  <2> QED  BY <2>1, <2>3, <2>4
<1>6. CASE UNCHANGED vars
  <2>1. UNCHANGED <<request, deposit, staked, wallet, earned, totalWithdrawn, linked, payout,
                    client, admin, budget, load>>
    BY <1>6 DEF vars, calls
  <2>2. KeepsRows /\ KeepsPayouts
    BY <2>1, AllStays
  <2>3. RequestTypes' /\ PayoutTypes' /\ AdminTypes' /\ AdminsFit'
    BY <2>1, <2>2, AdminsStay DEF KeepsRows, KeepsPayouts
  <2>4. MoneyTypes' /\ ClientTypes' /\ OtherTypes'
    BY <2>1 DEF TypeInv, MoneyTypes, ClientTypes, OtherTypes
  <2>5. RowsAsk' /\ ClientsAsk'
    BY <2>1 DEF RowsAsk, ClientsAsk, Asks
  <2>6. Claims'
    BY <2>1, ClaimsStay
  <2>7. AtWork'
    BY <2>1 DEF AtWork
  <2> QED  BY <2>2, <2>3, <2>4, <2>5, <2>6, <2>7 DEF TypeInv
<1> QED  BY <1>1, <1>2, <1>3, <1>4, <1>5, <1>6, Steps

LEMMA StructureInit ==
  ASSUME Init
  PROVE  Structure
<1> USE DEF Init
<1>1. RequestTypes /\ PayoutTypes /\ DOMAIN request = {} /\ Len(request) = 0 /\ Len(payout) = 0
  <2>1. MaxRequests \in Nat /\ Len(<< >>) = 0
    BY WithdrawalsAssumption
  <2> QED  BY <2>1 DEF RequestTypes, PayoutTypes
<1>2. MoneyTypes
  <2>1. staked \in Int
    BY FS_CardinalityType, WithdrawalsAssumption
  <2>2. MaxEarned \in Nat
    BY WithdrawalsAssumption
  <2> QED  BY <2>1, <2>2 DEF MoneyTypes
<1>3. ClientTypes /\ ClientsAsk
  BY DEF ClientTypes, ClientsAsk, ClientCalls, NoCall, Sources
<1>4. AdminTypes /\ AdminsFit /\ Claims /\ AtWork
  <2>1. NoReview \in Reviews
    BY <1>1 DEF Reviews, NoReview, AdminPcs
  <2>2. AdminTypes
    BY <2>1 DEF AdminTypes
  <2>3. \A a \in Admins : admin[a].pc = "idle"
    BY DEF NoReview
  <2> QED  BY <2>2, <2>3
    DEF AdminsFit, Fits, Claims, Apart, ClaimsMarked, Claimed, AtWork, Redeeming, Debiting
<1>5. OtherTypes
  BY DEF OtherTypes
<1>6. RowsAsk
  BY <1>1 DEF RowsAsk
<1> QED  BY <1>1, <1>2, <1>3, <1>4, <1>5, <1>6 DEF Structure, TypeInv

-----------------------------------------------------------------------------
(* How often a request is paid *)

LEMMA OutForFinite ==
  ASSUME PayoutTypes, NEW i
  PROVE  IsFiniteSet(OutFor(i)) /\ Cardinality(OutFor(i)) \in Nat
<1>1. IsFiniteSet(DOMAIN payout)
  BY PayoutFacts, FS_Interval
<1>2. OutFor(i) \subseteq DOMAIN payout
  BY DEF OutFor
<1> QED  BY <1>1, <1>2, FS_Subset, FS_CardinalityType

(* A step that changes no payout leaves what is out. *)
LEMMA OutForSame ==
  ASSUME UNCHANGED payout
  PROVE  \A i : OutFor(i)' = OutFor(i)
BY DEF OutFor, Out

(* A step that makes nothing unpaid and sends nothing. *)
LEMMA PaidCountQuiet ==
  ASSUME TypeInv, PaidCount, UNCHANGED payout, budget'.timeouts = budget.timeouts,
         DOMAIN request' = DOMAIN request,
         \A i \in DOMAIN request : Unpaid(i)' => Unpaid(i)
  PROVE  PaidCount'
<1>1. \A i \in DOMAIN request : Cardinality(OutFor(i))' = Cardinality(OutFor(i))
                                  /\ Cardinality(OutFor(i)) \in Nat
  BY OutForSame, OutForFinite DEF TypeInv
<1>2. budget.timeouts \in Nat
  BY DEF TypeInv, OtherTypes
<1> QED  BY <1>1, <1>2 DEF PaidCount

LEMMA UnsentClaimed ==
  ASSUME NEW v, Unsent(v)
  PROVE  Claimed(v)
BY DEF Unsent, Claimed, Redeeming, Debiting, Undoing

(* Others at work see the same as before. *)
LEMMA UnsentSame ==
  ASSUME TypeInv, AdminsFit, UNCHANGED payout, NEW b \in Admins, admin'[b] = admin[b]
  PROVE  Unsent(admin[b])' = Unsent(admin[b])
BY DEF Unsent, Out

(* But for a wait that throws, an approval makes no request unpaid. *)
LEMMA ApprovalUnpaid ==
  ASSUME TypeInv, AdminsFit, NEW a \in Admins, Process(a) \/ Fault(a), ~SendPayout(a),
         UNCHANGED payout, budget'.timeouts = budget.timeouts,
         NEW i \in DOMAIN request, Unpaid(i)'
  PROVE  Unpaid(i)
<1> DEFINE r == admin[a].request
<1>0. /\ admin[a].pc # "idle" /\ \A b \in Admins \ {a} : admin'[b] = admin[b]
      /\ admin'[a].pc = "idle" \/ admin'[a].request = r
  BY ApprovalMoves
<1>1. CASE request'[i].status = "pending"
  <2>1. CASE UNCHANGED request
    BY <1>1, <2>1 DEF Unpaid
  <2>2. CASE BacksOut(a) /\ Mark(a, "pending")
    <3>1. Unsent(admin[a])
      BY <2>2, BackedOut DEF Unsent, Redeeming, Debiting
    <3>2. request'[i].status = IF i = r THEN "pending" ELSE request[i].status
      BY <1>0, <2>2, MarkedStatus DEF Statuses
    <3> QED  BY <1>1, <3>1, <3>2 DEF Unpaid
  <2>3. ASSUME NEW st \in Statuses \ {"pending"}, Mark(a, st) PROVE Unpaid(i)
    <3>1. request'[i].status = IF i = r THEN st ELSE request[i].status
      BY <1>0, <2>3, MarkedStatus
    <3> QED  BY <1>1, <3>1 DEF Unpaid
  <2> QED  BY <2>1, <2>2, <2>3, ApprovalMarks DEF Statuses
<1>2. ASSUME NEW b \in Admins, Unsent(admin[b])', admin'[b].request = i PROVE Unpaid(i)
  <2>1. CASE b # a
    BY <1>0, <1>2, <2>1, UnsentSame DEF Unpaid
  <2>2. CASE b = a
    <3>0. AdminTypes
      BY DEF TypeInv
    <3>1. admin'[a].pc # "idle"
      BY <1>2, <2>2 DEF Unsent, Redeeming, Debiting, Undoing
    <3>2. r = i
      BY <1>0, <1>2, <2>2, <3>1
    <3>3. Unsent(admin[a]) \/ request[r].status = "pending"
      <4>1. CASE Passes(a)
        <5>1. PICK to \in AdminPcs : Go(a, to) /\ Passage(a, to)
          BY <4>1, PassesGoOn
        <5>2. admin'[a].pc = to
          BY <3>0, <5>1, Moved
        <5>3. ~(At(a, "wait") /\ Spend("timeouts"))
          BY SpendTypes DEF TypeInv, OtherTypes
        <5>4. to # "complete"
          BY <1>2, <2>2, <5>2 DEF Unsent, Redeeming, Debiting, Undoing
        <5> QED  BY <5>1, <5>3, <5>4 DEF Passage, Unsent, At, Redeeming, Debiting, Undoing
      <4>2. CASE BacksOut(a) \/ GivesUp(a) \/ CountWithdrawn(a) \/ Reject(a)
        <5>1. Return(a)
          BY <4>2, BackedOut, GaveUp DEF PutsBack, EndsCall, CountWithdrawn, Reject
        <5> QED  BY <3>0, <3>1, <5>1, Returned DEF NoReview
      <4>3. CASE Takes(a)
        BY <4>3 DEF Takes, Of
      <4>4. CASE Complete(a)
        <5>1. Go(a, "total")
          BY <4>4 DEF Complete
        <5>2. admin'[a].pc = "total"
          BY <3>0, <5>1, Moved
        <5> QED  BY <1>2, <2>2, <5>2 DEF Unsent, Redeeming, Debiting, Undoing
      <4>5. CASE WithdrawDeposit(a) \/ LowerStake(a) \/ Debit(a) \/ Refund(a) \/ RaiseStake(a)
        BY <4>5 DEF WithdrawDeposit, LowerStake, Debit, Refund, RaiseStake, At, Unsent, Redeeming,
           Debiting, Undoing
      <4> QED  BY <4>1, <4>2, <4>3, <4>4, <4>5, ApprovalKinds
    <3> QED  BY <3>2, <3>3 DEF Unpaid
  <2> QED  BY <2>1, <2>2
<1> QED  BY <1>1, <1>2 DEF Unpaid

LEMMA ApprovalPayout ==
  ASSUME NEW a \in Admins, Process(a) \/ Fault(a)
  PROVE  UNCHANGED payout \/ SendPayout(a)
<1>1. CASE Passes(a)
  BY <1>1, PassesLeave
<1>2. CASE BacksOut(a) \/ GivesUp(a)
  BY <1>2, BackedOut, GaveUp DEF PutsBack, EndsCall
<1>3. CASE Takes(a) \/ Complete(a) \/ CountWithdrawn(a) \/ Reject(a)
  BY <1>3 DEF Takes, Claim, Complete, CountWithdrawn, Reject
<1>4. CASE WithdrawDeposit(a) \/ LowerStake(a) \/ Debit(a) \/ Refund(a) \/ RaiseStake(a)
  BY <1>4 DEF WithdrawDeposit, LowerStake, Debit, Refund, RaiseStake
<1> QED  BY <1>1, <1>2, <1>3, <1>4, ApprovalKinds

LEMMA SendsOnce ==
  ASSUME TypeInv, AdminsFit, Claims, PaidCount, NEW a \in Admins, SendPayout(a)
  PROVE  PaidCount'
<1>0. PICK r, n : r = admin[a].request /\ n = Len(payout) + 1
  OBVIOUS
<1>1. /\ At(a, "pay") /\ r \in DOMAIN request /\ UNCHANGED <<request, budget>>
      /\ payout' = Append(payout, [request |-> r, status |-> "pending"])
  BY <1>0, RowOf DEF SendPayout, At
<1>2. /\ DOMAIN payout' = DOMAIN payout \union {n} /\ n \notin DOMAIN payout
      /\ \A k \in DOMAIN payout : payout'[k] = payout[k]
      /\ payout'[n] = [request |-> r, status |-> "pending"]
  BY <1>0, <1>1, PayoutSent, PayoutFacts DEF TypeInv
<1>3. /\ admin'[a].pc = "wait" /\ admin'[a].request = r /\ admin'[a].payout = n
      /\ \A b \in Admins \ {a} : admin'[b] = admin[b]
  BY <1>0, MovedToWait DEF TypeInv
<1>4. \A k \in DOMAIN payout : Out(k)' = Out(k)
  BY <1>2 DEF Out
<1>5. Out(n)' /\ payout'[n].request = r
  BY <1>2 DEF Out
<1>6. Claimed(admin[a]) /\ Unsent(admin[a])
  BY <1>1 DEF Claimed, Unsent, At
<1>7. \A b \in Admins \ {a} : Unsent(admin[b])' => Unsent(admin[b]) /\ admin[b].request # r
  <2> SUFFICES ASSUME NEW b \in Admins \ {a}, Unsent(admin[b])'
               PROVE  Unsent(admin[b]) /\ admin[b].request # r
    OBVIOUS
  <2>1. Fits(admin[b]) /\ admin'[b] = admin[b]
    BY <1>3 DEF AdminsFit
  <2>2. Unsent(admin[b])
    BY <1>4, <2>1 DEF Unsent, Fits
  <2>3. Claimed(admin[b])
    BY <2>2, UnsentClaimed
  <2> QED  BY <1>0, <1>6, <2>2, <2>3 DEF Claims, Apart
<1>8. ~Unsent(admin[a])'
  BY <1>3, <1>5 DEF Unsent, Redeeming, Debiting, Undoing
<1>9. budget.timeouts \in Nat
  BY DEF TypeInv, OtherTypes
<1> SUFFICES ASSUME NEW i \in DOMAIN request'
             PROVE  Cardinality(OutFor(i)') <= budget'.timeouts + (IF Unpaid(i)' THEN 0 ELSE 1)
  BY DEF PaidCount
<1>10. i \in DOMAIN request /\ Cardinality(OutFor(i)) \in Nat /\ IsFiniteSet(OutFor(i))
       /\ Cardinality(OutFor(i)) <= budget.timeouts + (IF Unpaid(i) THEN 0 ELSE 1)
  BY <1>1, OutForFinite DEF TypeInv, PaidCount
<1>11. CASE i = r
  <2>1. OutFor(i)' = OutFor(i) \union {n} /\ n \notin OutFor(i)
    BY <1>2, <1>4, <1>5, <1>11 DEF OutFor
  <2>2. Cardinality(OutFor(i)') = Cardinality(OutFor(i)) + 1
    BY <1>10, <2>1, FS_AddElement
  <2>3. Unpaid(i)
    BY <1>0, <1>6, <1>11 DEF Unpaid
  <2>4. request[r].status # "pending"
    BY <1>0, <1>6 DEF Claims, ClaimsMarked, Of
  <2>5. ~Unpaid(i)'
    BY <1>1, <1>3, <1>7, <1>8, <1>11, <2>4 DEF Unpaid
  <2> QED  BY <1>1, <1>9, <1>10, <2>2, <2>3, <2>5
<1>12. CASE i # r
  <2>1. OutFor(i)' = OutFor(i)
    BY <1>2, <1>4, <1>5, <1>12 DEF OutFor
  <2>2. Unpaid(i)' => Unpaid(i)
    BY <1>1, <1>3, <1>7, <1>8 DEF Unpaid
  <2> QED  BY <1>1, <1>9, <1>10, <2>1, <2>2
<1> QED  BY <1>11, <1>12

LEMMA ApprovalPaysOnce ==
  ASSUME TypeInv, AdminsFit, Claims, PaidCount, NEW a \in Admins, Process(a) \/ Fault(a)
  PROVE  PaidCount'
<1>1. CASE SendPayout(a)
  BY <1>1, SendsOnce
<1>2. CASE ~SendPayout(a)
  <2>1. UNCHANGED payout /\ DOMAIN request' = DOMAIN request
    BY <1>2, ApprovalPayout, ApprovalRows
  <2>2. CASE budget'.timeouts = budget.timeouts
    BY <1>2, <2>1, <2>2, ApprovalUnpaid, PaidCountQuiet
  <2>3. CASE budget'.timeouts = budget.timeouts + 1
    <3>1. \A i \in DOMAIN request : Cardinality(OutFor(i))' = Cardinality(OutFor(i))
                                      /\ Cardinality(OutFor(i)) \in Nat
      BY <2>1, OutForSame, OutForFinite DEF TypeInv
    <3>2. budget.timeouts \in Nat
      BY DEF TypeInv, OtherTypes
    <3> QED  BY <2>1, <2>3, <3>1, <3>2 DEF PaidCount
  <2>4. budget'.timeouts = budget.timeouts \/ budget'.timeouts = budget.timeouts + 1
    BY ApprovalSpends, SpendTypes DEF TypeInv
  <2> QED  BY <2>2, <2>3, <2>4
<1> QED  BY <1>1, <1>2

LEMMA FilesUnpaid ==
  ASSUME TypeInv, AdminsFit, RowsAsk, ClientsAsk, PaidCount, NEW c \in Clients, FileRequest(c)
  PROVE  PaidCount'
<1>1. PICK n : n = Len(request) + 1
  OBVIOUS
<1>2. /\ DOMAIN request' = DOMAIN request \union {n}
      /\ \A i \in DOMAIN request : request'[i] = request[i]
      /\ UNCHANGED <<payout, admin, budget>>
  BY <1>1, FilesKeep
<1>3. n \notin DOMAIN request /\ budget.timeouts \in Nat
  BY <1>1, RowFacts DEF TypeInv, OtherTypes
<1> SUFFICES ASSUME NEW i \in DOMAIN request'
             PROVE  Cardinality(OutFor(i)') <= budget'.timeouts + (IF Unpaid(i)' THEN 0 ELSE 1)
  BY DEF PaidCount
<1>4. OutFor(i)' = OutFor(i)
  BY <1>2, OutForSame
<1>5. CASE i = n
  <2>1. OutFor(i) = {}
    BY <1>3, <1>5, PayoutFacts DEF TypeInv, OutFor, Payouts
  <2>2. Cardinality(OutFor(i)) = 0
    BY <2>1, FS_EmptySet
  <2> QED  BY <1>2, <1>3, <1>4, <2>2
<1>6. CASE i # n
  <2>1. i \in DOMAIN request
    BY <1>2, <1>6
  <2>2. Unpaid(i)' => Unpaid(i)
    BY <1>2, <2>1, UnsentSame DEF Unpaid
  <2>3. /\ Cardinality(OutFor(i)) <= budget.timeouts + (IF Unpaid(i) THEN 0 ELSE 1)
        /\ Cardinality(OutFor(i)) \in Nat
    BY <2>1, OutForFinite DEF PaidCount, TypeInv
  <2> QED  BY <1>2, <1>3, <1>4, <2>2, <2>3
<1> QED  BY <1>5, <1>6

(* A payout that reverts is one fewer; one that is mined is out still. *)
LEMMA SettlesOnce ==
  ASSUME TypeInv, AdminsFit, PaidCount, NEW k \in DOMAIN payout, Mine(k) \/ Revert(k)
  PROVE  PaidCount'
<1>1. /\ payout[k].status = "pending" /\ UNCHANGED <<request, admin>>
      /\ budget'.timeouts = budget.timeouts /\ budget.timeouts \in Nat
  BY SpendTypes DEF Mine, Revert, calls, TypeInv, OtherTypes
<1>2. PICK st \in {"mined", "reverted"} : payout' = [payout EXCEPT ![k].status = st]
  BY DEF Mine, Revert
<1>3. /\ KeepsPayouts /\ DOMAIN payout' = DOMAIN payout
      /\ \A j \in DOMAIN payout : payout'[j].status = IF j = k THEN st ELSE payout[j].status
      /\ \A j \in DOMAIN payout : payout'[j].request = payout[j].request
  BY <1>1, <1>2, PayoutMarks DEF TypeInv, KeepsPayouts
<1>4. \A j \in DOMAIN payout : Out(j)' = IF j = k THEN st = "mined" ELSE Out(j)
  BY <1>3 DEF Out
<1>5. Out(k)
  BY <1>1 DEF Out
<1>6. \A b \in Admins : Unsent(admin[b])' =>
        Unsent(admin[b]) \/ (st = "reverted" /\ admin[b].request = payout[k].request)
  BY <1>1, <1>4 DEF Unsent, AdminsFit, Fits
<1> SUFFICES ASSUME NEW i \in DOMAIN request
             PROVE  Cardinality(OutFor(i)') <= budget'.timeouts + (IF Unpaid(i)' THEN 0 ELSE 1)
  BY <1>1 DEF PaidCount
<1>7. /\ Cardinality(OutFor(i)) <= budget.timeouts + (IF Unpaid(i) THEN 0 ELSE 1)
      /\ Cardinality(OutFor(i)) \in Nat /\ IsFiniteSet(OutFor(i))
  BY OutForFinite DEF PaidCount, TypeInv
<1>8. CASE st = "reverted" /\ i = payout[k].request
  <2>1. OutFor(i)' = OutFor(i) \ {k} /\ k \in OutFor(i)
    BY <1>3, <1>4, <1>5, <1>8 DEF OutFor
  <2>2. Cardinality(OutFor(i)') = Cardinality(OutFor(i)) - 1
    BY <1>7, <2>1, FS_RemoveElement
  <2> QED  BY <1>1, <1>7, <2>2
<1>9. CASE ~(st = "reverted" /\ i = payout[k].request)
  <2>1. OutFor(i)' = OutFor(i)
    BY <1>2, <1>3, <1>4, <1>5, <1>9 DEF OutFor
  <2>2. Unpaid(i)' => Unpaid(i)
    BY <1>1, <1>6, <1>9 DEF Unpaid
  <2> QED  BY <1>1, <1>7, <2>1, <2>2
<1> QED  BY <1>8, <1>9

LEMMA PaidCountKept ==
  ASSUME Structure, PaidCount, [Next]_vars
  PROVE  PaidCount'
<1> USE DEF Structure
<1>1. ASSUME UNCHANGED <<request, payout>>, budget'.timeouts = budget.timeouts,
             \A b \in Admins : Unsent(admin[b])' => admin'[b] = admin[b]
      PROVE  PaidCount'
  <2>1. \A i \in DOMAIN request : Unpaid(i)' => Unpaid(i)
    BY <1>1, UnsentSame DEF Unpaid
  <2> QED  BY <1>1, <2>1, PaidCountQuiet
<1>2. ASSUME NEW c \in Clients, Prepares(c) PROVE PaidCount'
  BY <1>1, <1>2, PreparesLeaves DEF AllButClients
<1>3. ASSUME NEW c \in Clients, FileRequest(c) PROVE PaidCount'
  BY <1>3, FilesUnpaid
<1>4. ASSUME NEW a \in Admins, Process(a) \/ Fault(a) PROVE PaidCount'
  BY <1>4, ApprovalPaysOnce
<1>5. ASSUME NEW a \in Admins, Looks(a) PROVE PaidCount'
  <2>1. /\ UNCHANGED <<request, payout, budget>> /\ admin'[a].pc \in {"approve", "reject"}
        /\ \A b \in Admins \ {a} : admin'[b] = admin[b]
    BY <1>5, LooksKeep
  <2>2. \A b \in Admins : Unsent(admin[b])' => admin'[b] = admin[b]
    BY <2>1 DEF Unsent, Redeeming, Debiting, Undoing
  <2> QED  BY <1>1, <2>1, <2>2
<1>6. CASE Around
  <2>1. ASSUME NEW k \in DOMAIN payout, Mine(k) \/ Revert(k) PROVE PaidCount'
    BY <2>1, SettlesOnce
  <2>2. CASE (\E w \in Wallets : Earn(w)) \/ Unlink
    BY <1>1, <2>2 DEF Earn, Unlink, calls
  <2>3. CASE Crash
    <3>1. UNCHANGED <<request, payout>> /\ \A b \in Admins : admin'[b] = NoReview
      BY <2>3 DEF Crash
    <3>2. budget'.timeouts = budget.timeouts
      BY <2>3, SpendTypes DEF Crash, TypeInv
    <3>3. \A b \in Admins : ~Unsent(admin[b])'
      BY <3>1 DEF Unsent, NoReview, Redeeming, Debiting, Undoing
    <3> QED  BY <1>1, <3>1, <3>2, <3>3
  <2> QED  BY <1>6, <2>1, <2>2, <2>3 DEF Around
<1>7. CASE UNCHANGED vars
  BY <1>1, <1>7 DEF vars, calls
<1> QED  BY <1>2, <1>3, <1>4, <1>5, <1>6, <1>7, Steps

-----------------------------------------------------------------------------
(* What approvals hold of a wallet *)

LEMMA HeldFacts ==
  ASSUME TypeInv, AdminsFit, NEW w
  PROVE  /\ \A a \in Admins : Held(w)[a] \in Nat /\ Due(w)[a] \in Nat
         /\ SumOver(Admins, Held(w)) \in Nat /\ SumOver(Admins, Due(w)) \in Nat
         /\ \A a \in Admins : Debited(admin[a], w) => Of(a).amount \in Nat
<1>1. \A a \in Admins : Debited(admin[a], w) => Of(a).amount \in Nat
  BY RowOf DEF Debited
<1>2. \A a \in Admins : Held(w)[a] \in Nat /\ Due(w)[a] \in Nat
  BY <1>1 DEF Held, Due
<1> QED  BY <1>1, <1>2, BlocksFinite, WithdrawalsAssumption

(* An approval that is where it was, with its row and its payout. *)
Rests(a) == admin'[a] = admin[a] /\ Unsent(admin[a])' = Unsent(admin[a])

LEMMA RestsHolds ==
  ASSUME TypeInv, AdminsFit, KeepsRows, NEW a \in Admins, Rests(a), NEW w
  PROVE  Held(w)'[a] = Held(w)[a] /\ Due(w)'[a] = Due(w)[a]
<1>1. CASE admin[a].pc = "idle"
  BY <1>1 DEF Rests, Held, Due, Debited
<1>2. CASE admin[a].pc # "idle"
  <2>1. SameRow(request'[admin[a].request], request[admin[a].request])
    BY <1>2 DEF KeepsRows, AdminsFit, Fits
  <2>2. Debited(admin[a], w)' = Debited(admin[a], w) /\ Of(a)'.amount = Of(a).amount
    BY <2>1 DEF Rests, Debited, SameRow, Of
  <2> QED  BY <2>2 DEF Rests, Held, Due
<1> QED  BY <1>1, <1>2

(* When all the others rest, the sums change as the one does. *)
LEMMA HeldMoves ==
  ASSUME TypeInv, AdminsFit, KeepsRows, TypeInv', AdminsFit', NEW a \in Admins,
         \A b \in Admins \ {a} : Rests(b), NEW w
  PROVE  /\ SumOver(Admins, Held(w)') = SumOver(Admins, Held(w)) - Held(w)[a] + Held(w)'[a]
         /\ SumOver(Admins, Due(w)') = SumOver(Admins, Due(w)) - Due(w)[a] + Due(w)'[a]
<1>1. /\ \A x \in Admins : Held(w)[x] \in Nat /\ Due(w)[x] \in Nat
      /\ \A x \in Admins : Held(w)'[x] \in Nat /\ Due(w)'[x] \in Nat
  <2>1. \A x \in Admins : Debited(admin[x], w)' => Of(x)'.amount \in Nat
    <3>1. \A x \in Admins : Debited(admin[x], w)' => admin'[x].request \in DOMAIN request'
      BY DEF AdminsFit, Fits, Debited
    <3>2. \A i \in DOMAIN request' : request'[i] \in Row
      BY ElementOfSeq, LenProperties DEF TypeInv, RequestTypes
    <3> QED  BY <3>1, <3>2 DEF Of, Row
  <2>2. \A x \in Admins : Held(w)'[x] \in Nat /\ Due(w)'[x] \in Nat
    BY <2>1 DEF Held, Due
  <2> QED  BY <2>2, HeldFacts
<1>2. \A x \in Admins \ {a} : Held(w)[x] = Held(w)'[x] /\ Due(w)[x] = Due(w)'[x]
  BY RestsHolds
<1>3. IsFiniteSet(Admins)
  BY WithdrawalsAssumption
<1>4. SumOver(Admins, Held(w)') = SumOver(Admins, Held(w)) - Held(w)[a] + Held(w)'[a]
  BY <1>1, <1>2, <1>3, SumMoves
<1>5. SumOver(Admins, Due(w)') = SumOver(Admins, Due(w)) - Due(w)[a] + Due(w)'[a]
  BY <1>1, <1>2, <1>3, SumMoves
<1> QED  BY <1>4, <1>5

LEMMA AllRest ==
  ASSUME TypeInv, AdminsFit, KeepsRows, \A a \in Admins : Rests(a), NEW w
  PROVE  /\ SumOver(Admins, Held(w)') = SumOver(Admins, Held(w))
         /\ SumOver(Admins, Due(w)') = SumOver(Admins, Due(w))
BY RestsHolds, SumAgrees

LEMMA OthersRest ==
  ASSUME TypeInv, AdminsFit, Claims, NEW a \in Admins, Process(a) \/ Fault(a)
  PROVE  \A b \in Admins \ {a} : Rests(b)
<1>1. \A b \in Admins \ {a} : admin'[b] = admin[b]
  BY ApprovalMoves
<1>2. CASE UNCHANGED payout
  BY <1>1, <1>2, UnsentSame DEF Rests
<1>3. CASE SendPayout(a)
  <2>1. \A k \in DOMAIN payout : payout'[k] = payout[k]
    <3>1. /\ admin[a].request \in DOMAIN request /\ UNCHANGED request
          /\ payout' = Append(payout, [request |-> admin[a].request, status |-> "pending"])
      BY <1>3, RowOf DEF SendPayout, At
    <3> QED  BY <3>1, PayoutSent DEF TypeInv
  <2>2. \A b \in Admins \ {a} : Unsent(admin[b])' = Unsent(admin[b])
    BY <1>1, <2>1 DEF Unsent, Out, AdminsFit, Fits
  <2> QED  BY <1>1, <2>2 DEF Rests
<1> QED  BY <1>2, <1>3, ApprovalPayout

LEMMA ApprovalWallet ==
  ASSUME NEW a \in Admins, Process(a) \/ Fault(a)
  PROVE  UNCHANGED wallet \/ Debit(a) \/ Refund(a)
<1>1. CASE Passes(a)
  BY <1>1, PassesLeave
<1>2. CASE BacksOut(a) \/ GivesUp(a)
  BY <1>2, BackedOut, GaveUp
<1>3. CASE Takes(a) \/ Complete(a) \/ CountWithdrawn(a) \/ Reject(a) \/ SendPayout(a)
  BY <1>3 DEF Takes, Claim, Complete, CountWithdrawn, Reject, SendPayout, user
<1>4. CASE WithdrawDeposit(a) \/ LowerStake(a) \/ RaiseStake(a)
  BY <1>4 DEF WithdrawDeposit, LowerStake, RaiseStake, user
<1> QED  BY <1>1, <1>2, <1>3, <1>4, ApprovalKinds

(* What is held after a step was held before, or has just been taken. *)
LEMMA StillDebited ==
  ASSUME TypeInv, AdminsFit, NEW a \in Admins, Process(a) \/ Fault(a), NEW w \in Wallets,
         Debited(admin[a], w)'
  PROVE  /\ Of(a).source = w /\ Of(a)'.amount = Of(a).amount
         /\ Debit(a) \/ (Debited(admin[a], w) /\ admin[a].pc \in {"pay", "wait"} /\ ~Refund(a))
<1>0. admin[a].pc # "idle" /\ admin'[a].request = admin[a].request /\ AdminTypes
  BY ApprovalMoves DEF Debited, TypeInv
<1>1. SameRow(request'[admin[a].request], request[admin[a].request])
  BY <1>0, ApprovalTypes, RowOf DEF KeepsRows
<1>2. Of(a).source = w /\ Of(a)'.amount = Of(a).amount
  BY <1>0, <1>1 DEF Debited, SameRow, Of
<1>3. Of(a).source # "deposit"
  BY <1>2 DEF Wallets
<1>4. CASE Passes(a)
  <2>1. PICK to \in AdminPcs : Go(a, to) /\ Passage(a, to)
    BY <1>4, PassesGoOn
  <2>2. admin'[a].pc = to
    BY <1>0, <2>1, Moved
  <2>3. to \in {"pay", "refund"}
    BY <2>1, <2>2 DEF Debited, Passage
  <2>4. admin[a].pc # "readDeposit"
    BY <1>3 DEF AdminsFit, Fits, Redeeming, Of
  <2>5. admin[a].pc \in {"pay", "wait"}
    BY <2>1, <2>3, <2>4 DEF Passage, At
  <2> QED  BY <1>2, <2>5 DEF Debited, Refund, At, Of
<1>5. CASE BacksOut(a) \/ GivesUp(a) \/ CountWithdrawn(a) \/ Reject(a)
  <2>1. Return(a)
    BY <1>5, BackedOut, GaveUp DEF PutsBack, EndsCall, CountWithdrawn, Reject
  <2> QED  BY <1>0, <2>1, Returned DEF NoReview, Debited
<1>6. CASE Takes(a) \/ WithdrawDeposit(a) \/ Refund(a) \/ RaiseStake(a) \/ Complete(a)
  <2>1. \E to : Go(a, to) /\ to \notin {"pay", "wait", "refund"}
    BY <1>6 DEF Takes, Claim, WithdrawDeposit, Refund, RaiseStake, Complete
  <2> QED  BY <1>0, <2>1, Moved DEF Debited
<1>7. CASE LowerStake(a)
  <2>1. admin[a].pc = "lowerStake"
    BY <1>7 DEF LowerStake, At
  <2> QED  BY <1>3, <2>1 DEF AdminsFit, Fits, Redeeming, Of
<1>8. CASE SendPayout(a)
  BY <1>2, <1>8 DEF SendPayout, At, Debited, Of, Refund
<1> QED  BY <1>2, <1>4, <1>5, <1>6, <1>7, <1>8, ApprovalKinds

(* A debit moves an amount from the wallet to what is held, a refund moves *)
(* it back at most.                                                        *)
LEMMA DebitMoves ==
  ASSUME TypeInv, AdminsFit, NEW a \in Admins, Debit(a), NEW w \in Wallets
  PROVE  /\ Held(w)[a] = 0 /\ Due(w)[a] = 0
         /\ wallet'[w] = wallet[w] - (IF Of(a).source = w THEN Of(a).amount ELSE 0)
<1>1. admin[a].pc = "debit" /\ wallet' = [wallet EXCEPT ![Of(a).source] = wallet[Of(a).source] - Of(a).amount]
  BY DEF Debit, At
<1>2. Held(w)[a] = 0 /\ Due(w)[a] = 0
  BY <1>1 DEF Held, Due, Debited
<1>3. wallet[w] \in Int /\ wallet \in [Wallets -> Int]
  BY DEF TypeInv, MoneyTypes
<1> QED  BY <1>1, <1>2, <1>3

LEMMA RefundMoves ==
  ASSUME TypeInv, AdminsFit, NEW a \in Admins, Refund(a), NEW w \in Wallets
  PROVE  /\ Held(w)[a] = (IF Of(a).source = w THEN Of(a).amount ELSE 0)
         /\ Due(w)[a] = Held(w)[a]
         /\ \/ wallet'[w] = wallet[w] + (IF Of(a).source = w THEN Of(a).amount ELSE 0)
            \/ wallet'[w] = wallet[w]
<1>1. admin[a].pc = "refund"
  BY DEF Refund, At
<1>2. /\ Held(w)[a] = (IF Of(a).source = w THEN Of(a).amount ELSE 0)
      /\ Due(w)[a] = Held(w)[a]
  BY <1>1 DEF Held, Due, Debited, Of, Unsent, Undoing
<1>3. wallet[w] \in Int /\ wallet \in [Wallets -> Int] /\ Of(a).amount \in Nat
  BY <1>1, RowOf DEF TypeInv, MoneyTypes
<1>4. \/ UNCHANGED wallet
      \/ wallet' = [wallet EXCEPT ![Of(a).source] = wallet[Of(a).source] + Of(a).amount]
  BY DEF Refund
<1> QED  BY <1>2, <1>3, <1>4

LEMMA ApprovalHolds ==
  ASSUME TypeInv, AdminsFit, NEW a \in Admins, Process(a) \/ Fault(a), NEW w \in Wallets
  PROVE  wallet'[w] + Held(w)'[a] <= wallet[w] + Held(w)[a]
<1>1. /\ Held(w)'[a] = IF Debited(admin[a], w)' THEN Of(a)'.amount ELSE 0
      /\ Held(w)[a] = IF Debited(admin[a], w) THEN Of(a).amount ELSE 0
  BY DEF Held
<1>2. wallet[w] \in Int /\ Of(a).amount \in Nat
  <2>1. admin[a].pc # "idle"
    BY ApprovalMoves
  <2> QED  BY <2>1, RowOf DEF TypeInv, MoneyTypes
<1>3. CASE Debit(a)
  <2>1. Debited(admin[a], w)' => Of(a).source = w /\ Of(a)'.amount = Of(a).amount
    BY StillDebited
  <2> QED  BY <1>1, <1>2, <1>3, <2>1, DebitMoves
<1>4. CASE Refund(a)
  <2>1. ~Debited(admin[a], w)'
    BY <1>4, StillDebited DEF Debit, Refund, At
  <2> QED  BY <1>1, <1>2, <1>4, <2>1, RefundMoves
<1>5. CASE UNCHANGED wallet /\ ~Debit(a)
  <2>1. Debited(admin[a], w)' => Debited(admin[a], w) /\ Of(a)'.amount = Of(a).amount
    BY <1>5, StillDebited
  <2> QED  BY <1>1, <1>2, <1>5, <2>1
<1> QED  BY <1>3, <1>4, <1>5, ApprovalWallet

LEMMA ApprovalCovers ==
  ASSUME Structure, Structure', KeepsRows, Covered, NEW a \in Admins, Process(a) \/ Fault(a)
  PROVE  Covered'
<1> USE DEF Structure
<1> SUFFICES ASSUME NEW w \in Wallets
             PROVE  wallet'[w] + SumOver(Admins, Held(w)') <= earned'[w]
  BY DEF Covered, SumOver
<1>1. SumOver(Admins, Held(w)') = SumOver(Admins, Held(w)) - Held(w)[a] + Held(w)'[a]
  BY OthersRest, HeldMoves
<1>2. wallet'[w] + Held(w)'[a] <= wallet[w] + Held(w)[a]
  BY ApprovalHolds
<1>3. earned'[w] = earned[w]
  BY ApprovalLeaves
<1>4. wallet[w] + SumOver(Admins, Held(w)) <= earned[w]
  BY DEF Covered
<1>5. /\ wallet[w] \in Int /\ wallet'[w] \in Int /\ earned[w] \in Int
      /\ Held(w)[a] \in Nat /\ SumOver(Admins, Held(w)) \in Nat
  BY HeldFacts DEF TypeInv, MoneyTypes
<1>6. Held(w)'[a] \in Int
  <2>1. Held(w)'[a] = IF Debited(admin[a], w)' THEN Of(a)'.amount ELSE 0
    BY DEF Held
  <2>2. Debited(admin[a], w)' => Of(a)'.amount = Of(a).amount
    BY StillDebited
  <2>3. Of(a).amount \in Nat
    BY ApprovalMoves, RowOf
  <2> QED  BY <2>1, <2>2, <2>3
<1> QED  BY <1>1, <1>2, <1>3, <1>4, <1>5, <1>6

LEMMA HeldStays ==
  ASSUME TypeInv, AdminsFit, KeepsRows, UNCHANGED admin, NEW w
  PROVE  SumOver(Admins, Held(w)') = SumOver(Admins, Held(w))
<1> SUFFICES ASSUME NEW a \in Admins PROVE Held(w)'[a] = Held(w)[a]
  BY SumAgrees
<1>1. CASE admin[a].pc = "idle"
  BY <1>1 DEF Held, Debited
<1>2. CASE admin[a].pc # "idle"
  <2>1. SameRow(request'[admin[a].request], request[admin[a].request])
    BY <1>2 DEF KeepsRows, AdminsFit, Fits
  <2>2. Debited(admin[a], w)' = Debited(admin[a], w) /\ Of(a)'.amount = Of(a).amount
    BY <2>1 DEF Debited, SameRow, Of
  <2> QED  BY <2>2 DEF Held
<1> QED  BY <1>1, <1>2

(* A look takes nothing. *)
LEMMA LooksHold ==
  ASSUME Structure, Structure', KeepsRows, NEW a \in Admins, Looks(a), NEW w
  PROVE  /\ SumOver(Admins, Held(w)') = SumOver(Admins, Held(w))
         /\ SumOver(Admins, Due(w)') = SumOver(Admins, Due(w))
<1> USE DEF Structure
<1>1. /\ UNCHANGED payout /\ \A b \in Admins \ {a} : admin'[b] = admin[b]
      /\ admin[a].pc = "idle" /\ admin'[a].pc \in {"approve", "reject"}
  BY LooksKeep
<1>2. \A b \in Admins \ {a} : Rests(b)
  BY <1>1, UnsentSame DEF Rests
<1>3. Held(w)[a] = 0 /\ Held(w)'[a] = 0 /\ Due(w)[a] = 0 /\ Due(w)'[a] = 0
  BY <1>1 DEF Held, Due, Debited
<1>4. SumOver(Admins, Held(w)) \in Nat /\ SumOver(Admins, Due(w)) \in Nat
  BY HeldFacts
<1>5. /\ SumOver(Admins, Held(w)') = SumOver(Admins, Held(w)) - Held(w)[a] + Held(w)'[a]
      /\ SumOver(Admins, Due(w)') = SumOver(Admins, Due(w)) - Due(w)[a] + Due(w)'[a]
  BY <1>2, HeldMoves
<1> QED  BY <1>3, <1>4, <1>5

(* After a restart nothing is held. *)
LEMMA CrashHolds ==
  ASSUME Crash, NEW w
  PROVE  SumOver(Admins, Held(w)') = 0 /\ SumOver(Admins, Due(w)') = 0
<1>1. \A a \in Admins : admin'[a] = NoReview
  BY DEF Crash
<1>2. \A a \in Admins : Held(w)'[a] = 0 /\ Due(w)'[a] = 0
  BY <1>1 DEF Held, Due, Debited, NoReview
<1> QED  BY <1>2, SumOfNothing

LEMMA EarnMoves ==
  ASSUME TypeInv, NEW x \in Wallets, Earn(x), NEW w \in Wallets
  PROVE  wallet'[w] - wallet[w] = earned'[w] - earned[w] /\ UNCHANGED <<admin, payout, budget>>
<1>1. wallet[w] \in Int /\ earned[w] \in Int
  BY DEF TypeInv, MoneyTypes
<1> QED  BY <1>1 DEF TypeInv, MoneyTypes, Earn, calls

LEMMA CoveredKept ==
  ASSUME Structure, Covered, [Next]_vars
  PROVE  Covered'
<1> USE DEF Structure
<1>0. Structure' /\ KeepsRows
  BY StructureKept
<1>a. \A w \in Wallets : /\ wallet[w] \in Int /\ earned[w] \in Int /\ SumOver(Admins, Held(w)) \in Nat
                         /\ wallet'[w] \in Int /\ earned'[w] \in Int
                         /\ wallet[w] + SumOver(Admins, Held(w)) <= earned[w]
  BY <1>0, HeldFacts DEF Covered, TypeInv, MoneyTypes
<1>b. ASSUME \A w \in Wallets : wallet'[w] + SumOver(Admins, Held(w)') <= earned'[w]
      PROVE  Covered'
  BY <1>b DEF Covered, SumOver
<1>c. ASSUME UNCHANGED <<wallet, earned, admin>> PROVE Covered'
  BY <1>0, <1>a, <1>b, <1>c, HeldStays
<1>1. ASSUME NEW c \in Clients, Prepares(c) PROVE Covered'
  BY <1>1, <1>c, PreparesLeaves DEF AllButClients, user
<1>2. ASSUME NEW c \in Clients, FileRequest(c) PROVE Covered'
  BY <1>2, <1>c DEF FileRequest, user
<1>3. ASSUME NEW a \in Admins, Process(a) \/ Fault(a) PROVE Covered'
  BY <1>0, <1>3, ApprovalCovers
<1>4. ASSUME NEW a \in Admins, Looks(a) PROVE Covered'
  <2>1. UNCHANGED <<wallet, earned>>
    BY <1>4, LooksKeep
  <2> QED  BY <1>0, <1>a, <1>b, <1>4, <2>1, LooksHold
<1>5. CASE Around
  <2>1. ASSUME NEW x \in Wallets, Earn(x) PROVE Covered'
    <3>1. ASSUME NEW w \in Wallets PROVE wallet'[w] + SumOver(Admins, Held(w)') <= earned'[w]
      <4>1. wallet'[w] - wallet[w] = earned'[w] - earned[w] /\ UNCHANGED admin
        BY <2>1, EarnMoves
      <4>2. SumOver(Admins, Held(w)') = SumOver(Admins, Held(w))
        BY <1>0, <4>1, HeldStays
      <4> QED  BY <1>a, <4>1, <4>2
    <3> QED  BY <1>b, <3>1
  <2>2. CASE Crash
    <3>1. UNCHANGED <<wallet, earned>>
      BY <2>2 DEF Crash, user
    <3> QED  BY <1>a, <1>b, <2>2, <3>1, CrashHolds
  <2>3. CASE Unlink \/ \E i \in DOMAIN payout : Mine(i) \/ Revert(i)
    BY <2>3, <1>c DEF Unlink, Mine, Revert, user, calls
  <2> QED  BY <1>5, <2>1, <2>2, <2>3 DEF Around
<1>6. CASE UNCHANGED vars
  BY <1>6, <1>c DEF vars, user, calls
<1> QED  BY <1>1, <1>2, <1>3, <1>4, <1>5, <1>6, Steps

-----------------------------------------------------------------------------
(* What was paid from a wallet *)

Amounts == [k \in DOMAIN payout |-> request[payout[k].request].amount]

LEMMA PaidFacts ==
  ASSUME TypeInv, NEW s
  PROVE  /\ IsFiniteSet(Paid(s)) /\ \A k \in DOMAIN payout : Amounts[k] \in Nat
         /\ PaidTo(s) = SumOver(Paid(s), Amounts) /\ PaidTo(s) \in Nat
         /\ Paid(s) \subseteq DOMAIN payout
<1>1. Paid(s) \subseteq DOMAIN payout
  BY DEF Paid
<1>2. IsFiniteSet(Paid(s))
  <2>1. IsFiniteSet(DOMAIN payout)
    BY PayoutFacts, FS_Interval DEF TypeInv
  <2> QED  BY <1>1, <2>1, FS_Subset
<1>3. \A k \in DOMAIN payout : Amounts[k] \in Nat
  BY PayoutFacts, RowFacts DEF TypeInv, Amounts, Payouts, Row
<1>4. PaidTo(s) = SumOver(Paid(s), Amounts)
  BY DEF PaidTo, Amounts
<1> QED  BY <1>1, <1>2, <1>3, <1>4, BlocksFinite

(* Rows and payouts keep what they say. *)
LEMMA AmountsStay ==
  ASSUME TypeInv, KeepsRows, KeepsPayouts
  PROVE  \A k \in DOMAIN payout :
           /\ k \in DOMAIN payout' /\ Amounts'[k] = Amounts[k]
           /\ request'[payout'[k].request].source = request[payout[k].request].source
<1> SUFFICES ASSUME NEW k \in DOMAIN payout
             PROVE  /\ k \in DOMAIN payout' /\ Amounts'[k] = Amounts[k]
                    /\ request'[payout'[k].request].source = request[payout[k].request].source
  OBVIOUS
<1>1. k \in DOMAIN payout' /\ payout'[k].request = payout[k].request
  BY DEF KeepsPayouts
<1>2. payout[k].request \in DOMAIN request
  BY PayoutFacts DEF TypeInv, Payouts
<1>3. SameRow(request'[payout[k].request], request[payout[k].request])
  BY <1>2 DEF KeepsRows
<1> QED  BY <1>1, <1>3 DEF Amounts, SameRow

LEMMA PaidToSame ==
  ASSUME TypeInv, TypeInv', KeepsRows, KeepsPayouts, NEW s, Paid(s)' = Paid(s)
  PROVE  PaidTo(s)' = PaidTo(s)
<1>1. \A k \in Paid(s) : Amounts'[k] = Amounts[k]
  BY AmountsStay, PaidFacts
<1>2. SumOver(Paid(s), Amounts') = SumOver(Paid(s), Amounts)
  BY <1>1, SumAgrees
<1>3. PaidTo(s)' = SumOver(Paid(s)', Amounts')
  BY DEF PaidTo, Amounts, SumOver
<1> QED  BY <1>2, <1>3, PaidFacts

LEMMA PaidToStays ==
  ASSUME TypeInv, TypeInv', KeepsRows, KeepsPayouts, UNCHANGED payout, NEW s
  PROVE  PaidTo(s)' = PaidTo(s)
<1>1. Paid(s)' = Paid(s)
  BY AmountsStay DEF Paid, Out
<1> QED  BY <1>1, PaidToSame

(* A payout that is sent adds its amount. *)
LEMMA SendPaid ==
  ASSUME TypeInv, TypeInv', AdminsFit, KeepsRows, KeepsPayouts, NEW a \in Admins, SendPayout(a), NEW s
  PROVE  PaidTo(s)' = PaidTo(s) + (IF Of(a).source = s THEN Of(a).amount ELSE 0)
<1>0. PICK r, n : r = admin[a].request /\ n = Len(payout) + 1
  OBVIOUS
<1>1. /\ r \in DOMAIN request /\ UNCHANGED request /\ Of(a) = request[r] /\ Of(a).amount \in Nat
      /\ payout' = Append(payout, [request |-> r, status |-> "pending"])
  BY <1>0, RowOf DEF SendPayout, At, Of
<1>2. /\ DOMAIN payout' = DOMAIN payout \union {n} /\ n \notin DOMAIN payout
      /\ \A k \in DOMAIN payout : payout'[k] = payout[k]
      /\ payout'[n] = [request |-> r, status |-> "pending"]
  BY <1>0, <1>1, PayoutSent, PayoutFacts DEF TypeInv
<1>3. Paid(s)' = IF Of(a).source = s THEN Paid(s) \union {n} ELSE Paid(s)
  <2>1. \A k \in DOMAIN payout : (k \in Paid(s)') <=> (k \in Paid(s))
    BY <1>1, <1>2 DEF Paid, Out
  <2>2. n \in Paid(s)' <=> Of(a).source = s
    BY <1>1, <1>2 DEF Paid, Out
  <2>3. Paid(s)' \subseteq DOMAIN payout \union {n} /\ Paid(s) \subseteq DOMAIN payout
    BY <1>2 DEF Paid
  <2> QED  BY <1>2, <2>1, <2>2, <2>3
<1>4. CASE Of(a).source # s
  BY <1>3, <1>4, PaidToSame, PaidFacts
<1>5. CASE Of(a).source = s
  <2>1. PaidTo(s)' = SumOver(Paid(s)', Amounts')
    BY DEF PaidTo, Amounts, SumOver
  <2>2. IsFiniteSet(Paid(s)') /\ \A k \in Paid(s)' : Amounts'[k] \in Nat
    <3>1. IsFiniteSet(Paid(s) \union {n})
      BY PaidFacts, FS_AddElement
    <3>2. \A k \in Paid(s) : Amounts'[k] \in Nat
      BY AmountsStay, PaidFacts
    <3>3. Amounts'[n] = Of(a).amount
      BY <1>1, <1>2 DEF Amounts
    <3> QED  BY <1>1, <1>3, <1>5, <3>1, <3>2, <3>3
  <2>3. SumOver(Paid(s)', Amounts') = SumOver(Paid(s)' \ {n}, Amounts') + Amounts'[n]
    BY <1>3, <1>5, <2>2, SumSplits
  <2>4. Paid(s)' \ {n} = Paid(s)
    BY <1>2, <1>3, <1>5 DEF Paid
  <2>5. SumOver(Paid(s), Amounts') = SumOver(Paid(s), Amounts)
    BY AmountsStay, PaidFacts, SumAgrees
  <2>6. Amounts'[n] = Of(a).amount
    BY <1>1, <1>2 DEF Amounts
  <2> QED  BY <1>5, <2>1, <2>3, <2>4, <2>5, <2>6, PaidFacts
<1> QED  BY <1>4, <1>5

(* One that reverts takes its amount away. *)
LEMMA RevertPaid ==
  ASSUME TypeInv, TypeInv', KeepsRows, KeepsPayouts, NEW k \in DOMAIN payout, NEW st \in {"mined", "reverted"},
         payout[k].status = "pending", payout' = [payout EXCEPT ![k].status = st],
         UNCHANGED request, NEW s
  PROVE  PaidTo(s)' = PaidTo(s) - (IF st = "reverted" /\ request[payout[k].request].source = s
                                     THEN Amounts[k] ELSE 0)
<1>1. /\ DOMAIN payout' = DOMAIN payout
      /\ \A j \in DOMAIN payout : payout'[j].status = IF j = k THEN st ELSE payout[j].status
  BY PayoutMarks DEF TypeInv
<1>2. Paid(s)' = IF st = "reverted" THEN Paid(s) \ {k} ELSE Paid(s)
  BY <1>1, AmountsStay DEF Paid, Out
<1>3. k \in Paid(s) <=> request[payout[k].request].source = s
  BY DEF Paid, Out
<1>4. CASE ~(st = "reverted" /\ request[payout[k].request].source = s)
  <2>1. Paid(s)' = Paid(s)
    BY <1>2, <1>3, <1>4
  <2> QED  BY <1>4, <2>1, PaidToSame, PaidFacts
<1>5. CASE st = "reverted" /\ request[payout[k].request].source = s
  <2>1. SumOver(Paid(s), Amounts) = SumOver(Paid(s) \ {k}, Amounts) + Amounts[k]
    BY <1>3, <1>5, PaidFacts, SumSplits
  <2>2. SumOver(Paid(s) \ {k}, Amounts') = SumOver(Paid(s) \ {k}, Amounts)
    BY AmountsStay, PaidFacts, SumAgrees
  <2>3. PaidTo(s)' = SumOver(Paid(s) \ {k}, Amounts')
    BY <1>2, <1>5 DEF PaidTo, Amounts, SumOver
  <2>4. PaidTo(s)' \in Nat /\ Amounts[k] \in Nat
    <3>1. IsFiniteSet(Paid(s) \ {k}) /\ \A j \in Paid(s) \ {k} : Amounts[j] \in Nat
      BY PaidFacts, FS_RemoveElement
    <3> QED  BY <2>2, <2>3, <3>1, PaidFacts, BlocksFinite
  <2> QED  BY <1>5, <2>1, <2>2, <2>3, <2>4, PaidFacts
<1> QED  BY <1>4, <1>5

-----------------------------------------------------------------------------
(* What is out or due comes from the wallet *)

LEMMA DueBefore ==
  ASSUME TypeInv, AdminsFit, NEW a \in Admins, Process(a) \/ Fault(a), NEW w \in Wallets,
         Debited(admin[a], w)', Unsent(admin[a])', ~Debit(a)
  PROVE  /\ Debited(admin[a], w) /\ ~SendPayout(a)
         /\ Unsent(admin[a]) \/ budget'.timeouts = budget.timeouts + 1
<1>1. Debited(admin[a], w) /\ admin[a].pc \in {"pay", "wait"} /\ ~Refund(a)
  BY StillDebited
<1>2. ~SendPayout(a)
  <2> SUFFICES ASSUME SendPayout(a) PROVE FALSE
    OBVIOUS
  <2>1. admin[a].request \in DOMAIN request /\ UNCHANGED request
        /\ payout' = Append(payout, [request |-> admin[a].request, status |-> "pending"])
    BY RowOf DEF SendPayout, At
  <2>2. payout'[Len(payout) + 1].status = "pending"
    BY <2>1, PayoutSent DEF TypeInv
  <2>3. admin'[a].pc = "wait" /\ admin'[a].payout = Len(payout) + 1
    BY MovedToWait DEF TypeInv
  <2> QED  BY <2>2, <2>3 DEF Unsent, Out, Redeeming, Debiting, Undoing
<1>3. CASE admin[a].pc = "pay"
  BY <1>1, <1>2, <1>3 DEF Unsent
<1>4. CASE admin[a].pc = "wait"
  <2>1. Passes(a)
    <3>1. ~(BacksOut(a) \/ GivesUp(a))
      BY <1>4, BackedOut, GaveUp
    <3>2. ~(Takes(a) \/ WithdrawDeposit(a) \/ LowerStake(a) \/ RaiseStake(a) \/ Complete(a)
              \/ CountWithdrawn(a) \/ Reject(a))
      BY <1>4 DEF Takes, Claim, WithdrawDeposit, LowerStake, RaiseStake, Complete, CountWithdrawn,
         Reject, At
    <3> QED  BY <1>1, <1>2, <3>1, <3>2, ApprovalKinds
  <2>2. PICK to \in AdminPcs : Go(a, to) /\ Passage(a, to)
    BY <2>1, PassesGoOn
  <2>3. admin'[a].pc = to
    BY <2>2, Moved DEF TypeInv
  <2>4. to # "complete"
    BY <2>3 DEF Debited
  <2>5. ~Out(admin[a].payout) \/ Spend("timeouts")
    BY <1>4, <2>2, <2>4 DEF Passage, At, Undoing
  <2> QED  BY <1>1, <1>2, <1>4, <2>5, SpendTypes DEF Unsent, TypeInv
<1> QED  BY <1>1, <1>3, <1>4

LEMMA ApprovalOwes ==
  ASSUME TypeInv, AdminsFit, RowsAsk, NEW a \in Admins, Process(a) \/ Fault(a), NEW w \in Wallets
  PROVE  /\ Due(w)'[a] \in Nat
         /\ wallet'[w] + Due(w)'[a] + (IF SendPayout(a) /\ Of(a).source = w THEN Of(a).amount ELSE 0)
              <= wallet[w] + Due(w)[a]
                   + (IF budget'.timeouts = budget.timeouts + 1 THEN MaxEarned ELSE 0)
<1>1. /\ Due(w)'[a] = IF Debited(admin[a], w)' /\ Unsent(admin[a])' THEN Of(a)'.amount ELSE 0
      /\ Due(w)[a] = IF Debited(admin[a], w) /\ Unsent(admin[a]) THEN Of(a).amount ELSE 0
  BY DEF Due
<1>2. /\ wallet[w] \in Int /\ Of(a).amount \in Nat /\ MaxEarned \in Nat
      /\ Of(a).source = w => Of(a).amount <= MaxEarned
  <2>1. admin[a].pc # "idle"
    BY ApprovalMoves
  <2>2. Of(a).source # "deposit" => Of(a).amount <= MaxEarned
    BY <2>1, RowOf DEF RowsAsk, Asks, Of
  <2> QED  BY <2>1, <2>2, RowOf, WithdrawalsAssumption DEF TypeInv, MoneyTypes, Wallets
<1>3. Debited(admin[a], w)' => Of(a).source = w /\ Of(a)'.amount = Of(a).amount
  BY StillDebited
<1>a. Due(w)'[a] \in Nat
  BY <1>1, <1>2, <1>3
<1>4. CASE Debit(a)
  <2>1. ~SendPayout(a)
    BY <1>4 DEF Debit, SendPayout, At
  <2> QED  BY <1>1, <1>2, <1>3, <1>4, <1>a, <2>1, DebitMoves
<1>5. CASE Refund(a)
  <2>1. ~Debited(admin[a], w)' /\ ~SendPayout(a)
    BY <1>5, StillDebited DEF Debit, Refund, SendPayout, At
  <2>2. Due(w)'[a] = 0
    BY <1>1, <2>1
  <2> QED  BY <1>1, <1>2, <1>5, <2>1, <2>2, RefundMoves
<1>6. CASE SendPayout(a)
  <2>1. UNCHANGED wallet /\ ~Debit(a)
    BY <1>6 DEF SendPayout, Debit, At, user
  <2>2. Due(w)'[a] = 0
    BY <1>1, <1>6, <2>1, DueBefore
  <2>3. Of(a).source = w => Due(w)[a] = Of(a).amount
    BY <1>1, <1>6 DEF SendPayout, At, Debited, Unsent, Of
  <2>4. Due(w)[a] \in Nat
    BY HeldFacts
  <2> QED  BY <1>2, <2>1, <2>2, <2>3, <2>4
<1>7. CASE UNCHANGED wallet /\ ~Debit(a) /\ ~SendPayout(a)
  <2>1. Due(w)'[a] <= Due(w)[a] + (IF budget'.timeouts = budget.timeouts + 1 THEN MaxEarned ELSE 0)
    BY <1>1, <1>2, <1>3, <1>7, DueBefore
  <2>2. Due(w)[a] \in Nat
    BY HeldFacts
  <2> QED  BY <1>2, <1>7, <1>a, <2>1, <2>2
<1> QED  BY <1>4, <1>5, <1>6, <1>7, <1>a, ApprovalWallet

LEMMA BackedFacts ==
  ASSUME TypeInv, AdminsFit, Backed, NEW w \in Wallets
  PROVE  /\ wallet[w] \in Int /\ earned[w] \in Int /\ PaidTo(w) \in Nat
         /\ SumOver(Admins, Due(w)) \in Nat /\ budget.timeouts * MaxEarned \in Nat
         /\ (budget.timeouts + 1) * MaxEarned = budget.timeouts * MaxEarned + MaxEarned
         /\ MaxEarned \in Nat /\ budget.timeouts \in Nat
         /\ PaidTo(w) + wallet[w] + SumOver(Admins, Due(w)) <= earned[w] + budget.timeouts * MaxEarned
<1>1. budget.timeouts \in Nat /\ MaxEarned \in Nat
  BY WithdrawalsAssumption DEF TypeInv, OtherTypes
<1>2. wallet[w] \in Int /\ earned[w] \in Int
  BY DEF TypeInv, MoneyTypes
<1>3. \A m, n \in Nat : m * n \in Nat /\ (m + 1) * n = m * n + n
  OBVIOUS
<1> QED  BY <1>1, <1>2, <1>3, PaidFacts, HeldFacts DEF Backed

LEMMA ApprovalBacks ==
  ASSUME Structure, Structure', KeepsRows, KeepsPayouts, Backed, NEW a \in Admins, Process(a) \/ Fault(a)
  PROVE  Backed'
<1> USE DEF Structure
<1> SUFFICES ASSUME NEW w \in Wallets
             PROVE  PaidTo(w)' + wallet'[w] + SumOver(Admins, Due(w)')
                      <= earned'[w] + budget'.timeouts * MaxEarned
  BY DEF Backed, SumOver
<1> DEFINE sent == IF SendPayout(a) /\ Of(a).source = w THEN Of(a).amount ELSE 0
           late == IF budget'.timeouts = budget.timeouts + 1 THEN MaxEarned ELSE 0
<1>1. SumOver(Admins, Due(w)') = SumOver(Admins, Due(w)) - Due(w)[a] + Due(w)'[a]
  BY OthersRest, HeldMoves
<1>2. Due(w)'[a] \in Nat /\ wallet'[w] + Due(w)'[a] + sent <= wallet[w] + Due(w)[a] + late
  BY ApprovalOwes
<1>3. PaidTo(w)' = PaidTo(w) + sent
  <2>1. CASE SendPayout(a)
    BY <2>1, SendPaid
  <2>2. CASE ~SendPayout(a)
    BY <2>2, ApprovalPayout, PaidToStays, PaidFacts
  <2> QED  BY <2>1, <2>2
<1>4. earned'[w] = earned[w]
  BY ApprovalLeaves
<1>5. sent \in Nat
  BY ApprovalMoves, RowOf
<1>6. budget'.timeouts = budget.timeouts \/ budget'.timeouts = budget.timeouts + 1
  BY ApprovalSpends, SpendTypes DEF TypeInv
<1>7. budget'.timeouts * MaxEarned = budget.timeouts * MaxEarned + late
  BY <1>6, BackedFacts
<1>8. late \in Nat
  BY BackedFacts
<1>9. wallet'[w] \in Int /\ Due(w)[a] \in Nat
  BY HeldFacts DEF TypeInv, MoneyTypes
<1> HIDE DEF sent, late
<1> QED  BY <1>1, <1>2, <1>3, <1>4, <1>5, <1>7, <1>8, <1>9, BackedFacts

(* An approval that waits for the payout that reverts is the only one. *)
LEMMA SettleBacks ==
  ASSUME Structure, Structure', KeepsRows, KeepsPayouts, Backed, NEW k \in DOMAIN payout, Mine(k) \/ Revert(k)
  PROVE  Backed'
<1> USE DEF Structure
<1>1. /\ payout[k].status = "pending" /\ UNCHANGED <<request, admin, wallet, earned>>
      /\ budget'.timeouts = budget.timeouts
  BY SpendTypes DEF Mine, Revert, calls, user, TypeInv
<1>2. PICK st \in {"mined", "reverted"} : payout' = [payout EXCEPT ![k].status = st]
  BY DEF Mine, Revert
<1>3. /\ DOMAIN payout' = DOMAIN payout
      /\ \A j \in DOMAIN payout : payout'[j].status = IF j = k THEN st ELSE payout[j].status
  BY <1>1, <1>2, PayoutMarks DEF TypeInv
<1>4. \A j \in DOMAIN payout : Out(j)' = IF j = k THEN st = "mined" ELSE Out(j)
  BY <1>3 DEF Out
<1>5. Out(k)
  BY <1>1 DEF Out
<1> DEFINE Waits(b) == admin[b].pc = "wait" /\ admin[b].payout = k
<1>6. \A b \in Admins : ~Waits(b) \/ st = "mined" => Rests(b)
  <2> SUFFICES ASSUME NEW b \in Admins, ~Waits(b) \/ st = "mined" PROVE Rests(b)
    OBVIOUS
  <2>1. admin[b].pc = "wait" => admin[b].payout \in DOMAIN payout
    BY DEF AdminsFit, Fits
  <2>2. admin[b].pc = "wait" => (Out(admin[b].payout)' <=> Out(admin[b].payout))
    BY <1>1, <1>4, <1>5, <2>1
  <2> QED  BY <1>1, <2>2 DEF Rests, Unsent
<1> SUFFICES ASSUME NEW w \in Wallets
             PROVE  PaidTo(w)' + wallet'[w] + SumOver(Admins, Due(w)')
                      <= earned'[w] + budget'.timeouts * MaxEarned
  BY DEF Backed, SumOver
<1> DEFINE back == IF st = "reverted" /\ request[payout[k].request].source = w THEN Amounts[k] ELSE 0
<1>7. PaidTo(w)' = PaidTo(w) - back /\ back \in Nat
  <2>1. PaidTo(w)' = PaidTo(w) - back
    BY <1>1, <1>2, RevertPaid
  <2> QED  BY <2>1, PaidFacts
<1>8. SumOver(Admins, Due(w)') <= SumOver(Admins, Due(w)) + back
  <2>1. CASE \A b \in Admins : Rests(b)
    <3>1. SumOver(Admins, Due(w)') = SumOver(Admins, Due(w))
      BY <2>1, AllRest
    <3> QED  BY <1>7, <3>1, BackedFacts
  <2>2. ASSUME NEW b \in Admins, ~Rests(b)
        PROVE  SumOver(Admins, Due(w)') <= SumOver(Admins, Due(w)) + back
    <3>1. Waits(b) /\ st = "reverted"
      BY <1>6, <2>2
    <3>2. \A c \in Admins : Waits(c) => admin[c].request = payout[k].request /\ Claimed(admin[c])
      BY DEF AdminsFit, Fits, Claimed
    <3>3. \A c \in Admins \ {b} : ~Waits(c)
      BY <3>1, <3>2 DEF Claims, Apart
    <3>4. SumOver(Admins, Due(w)') = SumOver(Admins, Due(w)) - Due(w)[b] + Due(w)'[b]
      BY <1>6, <3>3, HeldMoves
    <3>5. Due(w)'[b] <= back /\ Due(w)'[b] \in Nat
      <4>1. Due(w)'[b] = IF Debited(admin[b], w)' /\ Unsent(admin[b])' THEN Of(b)'.amount ELSE 0
        BY DEF Due
      <4>2. Of(b)' = request[payout[k].request]
        BY <1>1, <3>1, <3>2 DEF Of
      <4>3. Debited(admin[b], w)' => request[payout[k].request].source = w
        BY <1>1, <3>1, <3>2 DEF Debited
      <4>4. Amounts[k] = request[payout[k].request].amount /\ Amounts[k] \in Nat
        BY PaidFacts DEF Amounts
      <4> QED  BY <3>1, <4>1, <4>2, <4>3, <4>4
    <3> QED  BY <1>7, <3>4, <3>5, HeldFacts
  <2> QED  BY <2>1, <2>2
<1>9. SumOver(Admins, Due(w)') \in Int
  <2>1. TypeInv' /\ AdminsFit'
    OBVIOUS
  <2>2. \A x \in Admins : Due(w)'[x] \in Nat
    <3>1. \A x \in Admins : Debited(admin[x], w)' => admin'[x].request \in DOMAIN request'
      BY <2>1 DEF AdminsFit, Fits, Debited
    <3>2. \A i \in DOMAIN request' : request'[i] \in Row
      BY <1>1, RowFacts DEF TypeInv
    <3>3. \A x \in Admins : Debited(admin[x], w)' => Of(x)'.amount \in Nat
      BY <3>1, <3>2 DEF Of, Row
    <3> QED  BY <3>3 DEF Due
  <2>3. SumOver(Admins, Due(w)') \in Nat
    BY <2>2, BlocksFinite, WithdrawalsAssumption
  <2> QED  BY <2>3
<1> HIDE DEF back
<1> QED  BY <1>1, <1>7, <1>8, <1>9, BackedFacts

LEMMA BackedKept ==
  ASSUME Structure, Covered, Backed, [Next]_vars
  PROVE  Backed'
<1> USE DEF Structure
<1>0. Structure' /\ KeepsRows /\ KeepsPayouts
  BY StructureKept
<1>a. ASSUME \A w \in Wallets : PaidTo(w)' + wallet'[w] + SumOver(Admins, Due(w)')
                                  <= earned'[w] + budget'.timeouts * MaxEarned
      PROVE  Backed'
  BY <1>a DEF Backed, SumOver
(* Nothing is sent, no wait throws, and what is due does not grow. *)
<1>b. ASSUME UNCHANGED payout, budget'.timeouts = budget.timeouts,
             \A w \in Wallets : /\ wallet'[w] - wallet[w] = earned'[w] - earned[w]
                                /\ SumOver(Admins, Due(w)') \in Nat
                                /\ SumOver(Admins, Due(w)') <= SumOver(Admins, Due(w))
      PROVE  Backed'
  <2> SUFFICES ASSUME NEW w \in Wallets
               PROVE  PaidTo(w)' + wallet'[w] + SumOver(Admins, Due(w)')
                        <= earned'[w] + budget'.timeouts * MaxEarned
    BY <1>a
  <2>1. PaidTo(w)' = PaidTo(w)
    BY <1>0, <1>b, PaidToStays
  <2>2. wallet'[w] \in Int /\ earned'[w] \in Int
    BY <1>0 DEF TypeInv, MoneyTypes
  <2> QED  BY <1>b, <2>1, <2>2, BackedFacts
<1>c. ASSUME UNCHANGED <<wallet, earned, admin, payout>>, budget'.timeouts = budget.timeouts PROVE Backed'
  <2>1. \A b \in Admins : Rests(b)
    BY <1>c, UnsentSame DEF Rests
  <2>2. \A w \in Wallets : SumOver(Admins, Due(w)') = SumOver(Admins, Due(w))
    BY <1>0, <2>1, AllRest
  <2>3. \A w \in Wallets : SumOver(Admins, Due(w)) \in Nat /\ wallet[w] \in Int /\ earned[w] \in Int
    BY BackedFacts
  <2> QED  BY <1>b, <1>c, <2>2, <2>3
<1>1. ASSUME NEW c \in Clients, Prepares(c) PROVE Backed'
  BY <1>1, <1>c, PreparesLeaves DEF AllButClients, user
<1>2. ASSUME NEW c \in Clients, FileRequest(c) PROVE Backed'
  BY <1>2, <1>c DEF FileRequest, user
<1>3. ASSUME NEW a \in Admins, Process(a) \/ Fault(a) PROVE Backed'
  BY <1>0, <1>3, ApprovalBacks
<1>4. ASSUME NEW a \in Admins, Looks(a) PROVE Backed'
  <2>1. UNCHANGED <<wallet, earned, payout, budget>>
    BY <1>4, LooksKeep
  <2>2. \A w \in Wallets : SumOver(Admins, Due(w)') = SumOver(Admins, Due(w))
    BY <1>0, <1>4, LooksHold
  <2>3. \A w \in Wallets : SumOver(Admins, Due(w)) \in Nat /\ wallet[w] \in Int /\ earned[w] \in Int
    BY BackedFacts
  <2> QED  BY <1>b, <2>1, <2>2, <2>3
<1>5. CASE Around
  <2>1. ASSUME NEW x \in Wallets, Earn(x) PROVE Backed'
    <3>1. UNCHANGED <<admin, payout, budget>>
          /\ \A w \in Wallets : wallet'[w] - wallet[w] = earned'[w] - earned[w]
      BY <2>1, EarnMoves DEF Earn, calls
    <3>2. \A b \in Admins : Rests(b)
      BY <3>1, UnsentSame DEF Rests
    <3>3. \A w \in Wallets : SumOver(Admins, Due(w)') = SumOver(Admins, Due(w))
      BY <1>0, <3>2, AllRest
    <3>4. \A w \in Wallets : SumOver(Admins, Due(w)) \in Nat
      BY BackedFacts
    <3> QED  BY <1>b, <3>1, <3>3, <3>4
  <2>2. CASE Crash
    <3>1. UNCHANGED <<wallet, earned, payout>> /\ budget'.timeouts = budget.timeouts
      BY <2>2, SpendTypes DEF Crash, user, TypeInv
    <3>2. \A w \in Wallets : SumOver(Admins, Due(w)') = 0
      BY <2>2, CrashHolds
    <3>3. \A w \in Wallets : SumOver(Admins, Due(w)) \in Nat /\ wallet[w] \in Int /\ earned[w] \in Int
      BY BackedFacts
    <3> QED  BY <1>b, <3>1, <3>2, <3>3
  <2>3. CASE Unlink
    BY <2>3, <1>c DEF Unlink, user, calls
  <2>4. ASSUME NEW k \in DOMAIN payout, Mine(k) \/ Revert(k) PROVE Backed'
    BY <1>0, <2>4, SettleBacks
  <2> QED  BY <1>5, <2>1, <2>2, <2>3, <2>4 DEF Around
<1>6. CASE UNCHANGED vars
  BY <1>6, <1>c DEF vars, user, calls
<1> QED  BY <1>1, <1>2, <1>3, <1>4, <1>5, <1>6, Steps

-----------------------------------------------------------------------------
(* One admin: the state of the request it is at *)

LEMMA SoloActs ==
  ASSUME Structure, NEW s \in Admins, load.admins = {s}, NEW a \in Admins,
         Process(a) \/ Fault(a) \/ Looks(a)
  PROVE  a = s
BY ApprovalMoves, LooksKeep DEF Structure, AtWork

(* Where an approval stands after a step that does not end it. *)
LEMMA SoloMoves ==
  ASSUME TypeInv, AdminsFit, NEW s \in Admins, Process(s) \/ Fault(s), admin'[s].pc # "idle"
  PROVE  /\ admin[s].pc # "idle" /\ admin'[s].request = admin[s].request
         /\ SameRow(Of(s)', Of(s)) /\ Of(s) \in Row
         /\ admin[s].request \in DOMAIN request
         /\ \/ Passes(s) \/ Takes(s) \/ WithdrawDeposit(s) \/ LowerStake(s) \/ Debit(s)
            \/ SendPayout(s) \/ Refund(s) \/ RaiseStake(s) \/ Complete(s)
<1>1. admin[s].pc # "idle" /\ admin'[s].request = admin[s].request
  BY ApprovalMoves
<1>2. admin[s].request \in DOMAIN request /\ Of(s) \in Row
  BY <1>1, RowOf
<1>3. SameRow(Of(s)', Of(s))
  BY <1>1, <1>2, ApprovalTypes DEF KeepsRows, Of
<1>4. ~(BacksOut(s) \/ GivesUp(s) \/ CountWithdrawn(s) \/ Reject(s))
  <2> SUFFICES ASSUME BacksOut(s) \/ GivesUp(s) \/ CountWithdrawn(s) \/ Reject(s) PROVE FALSE
    OBVIOUS
  <2>1. Return(s)
    BY BackedOut, GaveUp DEF PutsBack, EndsCall, CountWithdrawn, Reject
  <2> QED  BY <2>1, Returned DEF NoReview, TypeInv
<1> QED  BY <1>1, <1>2, <1>3, <1>4, ApprovalKinds

LEMMA SoloPc ==
  ASSUME TypeInv, AdminsFit, NEW s \in Admins
  PROVE  /\ WithdrawDeposit(s) => admin[s].pc = "withdraw" /\ admin'[s].pc = "lowerStake"
         /\ LowerStake(s) => admin[s].pc = "lowerStake" /\ admin'[s].pc = "pay"
         /\ Debit(s) => admin[s].pc = "debit" /\ admin'[s].pc = "pay"
         /\ SendPayout(s) => admin[s].pc = "pay" /\ admin'[s].pc = "wait" /\ admin'[s].undo = admin[s].undo
         /\ Refund(s) => /\ admin[s].pc = "refund"
                         /\ admin'[s].pc = IF Of(s).source = "deposit" THEN "raiseStake" ELSE "requeue"
         /\ RaiseStake(s) => admin[s].pc = "raiseStake" /\ admin'[s].pc = "requeue"
         /\ Complete(s) => admin[s].pc = "complete" /\ admin'[s].pc = "total"
         /\ Takes(s) => admin[s].pc = "approve" /\ admin'[s].pc = "payee"
<1>0. AdminTypes
  BY DEF TypeInv
<1> USE DEF At
<1>1. WithdrawDeposit(s) => admin[s].pc = "withdraw" /\ admin'[s].pc = "lowerStake"
  BY <1>0, Moved DEF WithdrawDeposit
<1>2. LowerStake(s) => admin[s].pc = "lowerStake" /\ admin'[s].pc = "pay"
  BY <1>0, MovedWithUndo DEF LowerStake
<1>3. Debit(s) => admin[s].pc = "debit" /\ admin'[s].pc = "pay"
  BY <1>0, MovedWithUndo DEF Debit
<1>4. SendPayout(s) => admin[s].pc = "pay" /\ admin'[s].pc = "wait" /\ admin'[s].undo = admin[s].undo
  BY <1>0, MovedToWait DEF SendPayout
<1>5. Refund(s) => /\ admin[s].pc = "refund"
                   /\ admin'[s].pc = IF Of(s).source = "deposit" THEN "raiseStake" ELSE "requeue"
  BY <1>0, Moved DEF Refund
<1>6. RaiseStake(s) => admin[s].pc = "raiseStake" /\ admin'[s].pc = "requeue"
  BY <1>0, Moved DEF RaiseStake
<1>7. Complete(s) => admin[s].pc = "complete" /\ admin'[s].pc = "total"
  BY <1>0, Moved DEF Complete
<1>8. Takes(s) => admin[s].pc = "approve" /\ admin'[s].pc = "payee"
  BY <1>0, Moved DEF Takes, Claim
<1> QED  BY <1>1, <1>2, <1>3, <1>4, <1>5, <1>6, <1>7, <1>8

(* A passage in the terms of the two points it joins. *)
LEMMA SoloPasses ==
  ASSUME TypeInv, AdminsFit, NEW s \in Admins, Passes(s)
  PROVE  /\ Passage(s, admin'[s].pc) /\ admin'[s].undo = admin[s].undo
         /\ Claimed(admin[s]) /\ admin[s].pc # "total"
         /\ admin'[s].pc \notin {"idle", "approve", "reject", "total", "lowerStake", "raiseStake", "payee", "wait"}
<1>1. PICK to \in AdminPcs : Go(s, to) /\ Passage(s, to)
  BY PassesGoOn
<1>2. admin'[s].pc = to /\ admin'[s].undo = admin[s].undo
  BY <1>1, Moved DEF TypeInv
<1>3. Claimed(admin[s]) /\ admin[s].pc # "total"
  BY <1>1 DEF Passage, Claimed, At, Undoing
<1>4. to \notin {"idle", "approve", "reject", "total", "lowerStake", "raiseStake", "payee", "wait"}
  BY <1>1 DEF Passage, At, Undoing
<1> QED  BY <1>1, <1>2, <1>3, <1>4

LEMMA SoloStatusKept ==
  ASSUME TypeInv, AdminsFit, NEW s \in Admins, SoloStatus(s), Process(s) \/ Fault(s)
  PROVE  SoloStatus(s)'
<1>0. CASE admin'[s].pc = "idle"
  BY <1>0 DEF SoloStatus, Claimed
<1>a. CASE admin'[s].pc # "idle"
  <2>0. /\ admin'[s].request = admin[s].request /\ Of(s)' = request'[admin[s].request]
        /\ \/ Passes(s) \/ Takes(s) \/ WithdrawDeposit(s) \/ LowerStake(s) \/ Debit(s)
           \/ SendPayout(s) \/ Refund(s) \/ RaiseStake(s) \/ Complete(s)
        /\ admin[s].request \in DOMAIN request /\ admin[s].pc # "idle"
    BY <1>a, SoloMoves DEF Of
  <2>1. CASE Passes(s)
    <3>1. UNCHANGED request
      BY <2>1, PassesLeave
    <3> QED  BY <2>0, <2>1, <3>1, SoloPasses DEF SoloStatus, Claimed, Of
  <2>2. CASE Takes(s)
    <3>1. request'[admin[s].request].status = "approved"
      BY <2>0, <2>2, MarkedStatus DEF Takes, Claim, Statuses
    <3> QED  BY <2>0, <2>2, <3>1, SoloPc DEF SoloStatus
  <2>3. CASE WithdrawDeposit(s) \/ LowerStake(s) \/ Debit(s) \/ SendPayout(s) \/ Refund(s) \/ RaiseStake(s)
    <3>1. UNCHANGED request
      BY <2>3 DEF WithdrawDeposit, LowerStake, Debit, SendPayout, Refund, RaiseStake
    <3>2. Claimed(admin[s]) /\ admin[s].pc # "total" /\ admin'[s].pc \notin {"approve", "reject", "total"}
      BY <2>3, SoloPc DEF Claimed
    <3> QED  BY <2>0, <3>1, <3>2 DEF SoloStatus, Of
  <2>4. CASE Complete(s)
    <3>1. request'[admin[s].request].status = "completed"
      BY <2>0, <2>4, MarkedStatus DEF Complete, Statuses
    <3> QED  BY <2>0, <2>4, <3>1, SoloPc DEF SoloStatus
  <2> QED  BY <2>0, <2>1, <2>2, <2>3, <2>4
<1> QED  BY <1>0, <1>a

LEMMA SoloWalletKept ==
  ASSUME TypeInv, AdminsFit, NEW s \in Admins, SoloWallet(s), Process(s) \/ Fault(s)
  PROVE  SoloWallet(s)'
<1>0. admin[s].pc # "idle"
  BY ApprovalMoves
<1>1. Of(s).amount \in Nat /\ Of(s).source \in Sources
  BY <1>0, RowOf
<1>2. \A w \in Wallets : wallet[w] \in Int /\ wallet[w] >= 0
  BY DEF SoloWallet, TypeInv, MoneyTypes
<1>3. \A w \in Wallets : wallet'[w] >= 0
  <2>1. CASE Debit(s)
    <3>1. wallet[Of(s).source] >= Of(s).amount
      BY <2>1, SoloPc DEF SoloWallet
    <3> QED  BY <1>1, <1>2, <2>1, <3>1, DebitMoves
  <2>2. CASE Refund(s)
    BY <1>1, <1>2, <2>2, RefundMoves
  <2> QED  BY <1>2, <2>1, <2>2, ApprovalWallet
<1>4. ASSUME admin'[s].pc = "debit" PROVE wallet'[Of(s)'.source] >= Of(s)'.amount
  <2>0. SameRow(Of(s)', Of(s))
    BY <1>4, SoloMoves
  <2>1. Passes(s)
    BY <1>4, SoloMoves, SoloPc
  <2>2. admin[s].pc = "guard" /\ NonNegativeAfter(Of(s).source, -Of(s).amount)
    BY <1>4, <2>1, SoloPasses DEF Passage, At
  <2>3. Of(s).source \in Wallets
    BY <1>1, <2>2 DEF AdminsFit, Fits, Debiting, Of, Sources, Wallets
  <2>4. UNCHANGED wallet
    BY <2>1, PassesLeave
  <2> QED  BY <1>1, <1>2, <2>0, <2>2, <2>3, <2>4 DEF NonNegativeAfter, SameRow
<1> QED  BY <1>3, <1>4 DEF SoloWallet

LEMMA SoloDepositKept ==
  ASSUME TypeInv, AdminsFit, RowsAsk, NEW s \in Admins, SoloDeposit(s), Process(s) \/ Fault(s)
  PROVE  SoloDeposit(s)'
<1> SUFFICES ASSUME admin'[s].pc # "idle", Of(s)'.source = "deposit"
             PROVE  /\ admin'[s].pc = "withdraw" => deposit'[Of(s)'.deposit] = "active"
                    /\ admin'[s].pc \in {"lowerStake", "refund"} => deposit'[Of(s)'.deposit] = "withdrawn"
                    /\ admin'[s].pc \in {"pay", "wait"} /\ admin'[s].undo
                         => deposit'[Of(s)'.deposit] = "withdrawn"
  BY DEF SoloDeposit
<1>0. PICK d : d = Of(s).deposit
  OBVIOUS
<1>1. /\ admin[s].pc # "idle" /\ Of(s).source = "deposit" /\ Of(s)'.deposit = d
      /\ \/ Passes(s) \/ Takes(s) \/ WithdrawDeposit(s) \/ LowerStake(s) \/ Debit(s)
         \/ SendPayout(s) \/ Refund(s) \/ RaiseStake(s) \/ Complete(s)
  BY <1>0, SoloMoves DEF SameRow
<1>2. d \in Deposits /\ deposit[d] \in {"active", "withdrawn"}
  BY <1>0, <1>1, RowOf DEF RowsAsk, Asks, Of, TypeInv, MoneyTypes
<1>3. /\ admin[s].pc = "withdraw" => deposit[d] = "active"
      /\ admin[s].pc \in {"lowerStake", "refund"} => deposit[d] = "withdrawn"
      /\ admin[s].pc \in {"pay", "wait"} /\ admin[s].undo => deposit[d] = "withdrawn"
  BY <1>0, <1>1 DEF SoloDeposit
<1>4. CASE Passes(s)
  <2>1. UNCHANGED deposit
    BY <1>4, PassesLeave
  <2>2. Passage(s, admin'[s].pc) /\ admin'[s].undo = admin[s].undo
        /\ admin'[s].pc \notin {"lowerStake", "wait"}
    BY <1>4, SoloPasses
  <2>3. admin'[s].pc = "withdraw" => deposit[d] = "active"
    BY <1>0, <2>2 DEF Passage, At
  <2>4. admin'[s].pc = "refund" => deposit[d] = "withdrawn"
    BY <1>3, <2>2 DEF Passage, At
  <2>5. admin'[s].pc = "pay" => deposit[d] = "withdrawn"
    BY <1>0, <1>2, <2>2 DEF Passage, At
  <2> QED  BY <1>1, <2>1, <2>2, <2>3, <2>4, <2>5
<1>5. CASE WithdrawDeposit(s)
  <2>1. deposit'[d] = "withdrawn"
    BY <1>0, <1>2, <1>5 DEF WithdrawDeposit, TypeInv, MoneyTypes
  <2> QED  BY <1>1, <1>5, <2>1, SoloPc
<1>6. CASE LowerStake(s) \/ SendPayout(s)
  <2>1. UNCHANGED deposit
    BY <1>6 DEF LowerStake, SendPayout
  <2> QED  BY <1>1, <1>3, <1>6, <2>1, SoloPc
<1>7. CASE Debit(s)
  <2>1. admin[s].pc = "debit"
    BY <1>7, SoloPc
  <2> QED  BY <1>1, <2>1 DEF AdminsFit, Fits, Debiting, Of
<1>8. CASE Takes(s) \/ Refund(s) \/ RaiseStake(s) \/ Complete(s)
  <2>1. admin'[s].pc \in {"payee", "raiseStake", "requeue", "total"}
    BY <1>8, SoloPc
  <2> QED  BY <2>1
<1> QED  BY <1>1, <1>4, <1>5, <1>6, <1>7, <1>8

-----------------------------------------------------------------------------
(* One admin: the books *)

Asked == [i \in DOMAIN request |-> request[i].amount]

LEMMA CompletedFacts ==
  ASSUME TypeInv, NEW x
  PROVE  /\ IsFiniteSet(Done(x)) /\ Done(x) \subseteq DOMAIN request
         /\ \A i \in DOMAIN request : Asked[i] \in Nat
         /\ Completed(x) = SumOver(Done(x), Asked) /\ Completed(x) \in Nat
<1>1. IsFiniteSet(DOMAIN request)
  BY RowFacts, FS_Interval DEF TypeInv
<1>2. Done(x) \subseteq DOMAIN request
  BY DEF Done
<1>3. IsFiniteSet(Done(x))
  BY <1>1, <1>2, FS_Subset
<1>4. \A i \in DOMAIN request : Asked[i] \in Nat
  BY RowFacts DEF TypeInv, Asked, Row
<1>5. Completed(x) = SumOver(Done(x), Asked)
  BY DEF Completed, Asked
<1> QED  BY <1>2, <1>3, <1>4, <1>5, BlocksFinite

LEMMA AskedStays ==
  ASSUME KeepsRows
  PROVE  \A i \in DOMAIN request : /\ i \in DOMAIN request' /\ Asked'[i] = Asked[i]
                                   /\ request'[i].source = request[i].source
BY DEF KeepsRows, SameRow, Asked

LEMMA CompletedStays ==
  ASSUME TypeInv, KeepsRows, NEW x, Done(x)' = Done(x)
  PROVE  Completed(x)' = Completed(x)
<1>1. SumOver(Done(x), Asked') = SumOver(Done(x), Asked)
  BY AskedStays, CompletedFacts, SumAgrees
<1>2. Completed(x)' = SumOver(Done(x)', Asked')
  BY DEF Completed, Asked, SumOver
<1> QED  BY <1>1, <1>2, CompletedFacts

(* No row becomes completed or stops being so. *)
LEMMA DoneStays ==
  ASSUME KeepsRows, NEW x,
         \A i \in DOMAIN request' \ DOMAIN request : request'[i].status # "completed",
         \A i \in DOMAIN request : (request'[i].status = "completed") <=> (request[i].status = "completed")
  PROVE  Done(x)' = Done(x)
<1>1. \A i \in DOMAIN request : i \in DOMAIN request' /\ request'[i].source = request[i].source
  BY DEF KeepsRows, SameRow
<1> QED  BY <1>1 DEF Done

LEMMA CompletedGrows ==
  ASSUME TypeInv, AdminsFit, KeepsRows, NEW s \in Admins, Complete(s), Of(s).status # "completed", NEW x
  PROVE  Completed(x)' = Completed(x) + (IF Of(s).source = x THEN Of(s).amount ELSE 0)
<1>0. PICK r : r = admin[s].request
  OBVIOUS
<1>1. r \in DOMAIN request /\ Of(s) = request[r] /\ Of(s).amount \in Nat
  BY <1>0, RowOf DEF Complete, At, Of
<1>2. /\ DOMAIN request' = DOMAIN request
      /\ \A i \in DOMAIN request :
           request'[i].status = IF i = r THEN "completed" ELSE request[i].status
  BY <1>0, <1>1, Marks DEF Complete, Mark, Statuses, TypeInv
<1>3. \A i \in DOMAIN request : request'[i].source = request[i].source /\ Asked'[i] = Asked[i]
  BY AskedStays
<1>4. Done(x)' = (IF Of(s).source = x THEN Done(x) \union {r} ELSE Done(x)) /\ r \notin Done(x)
  BY <1>1, <1>2, <1>3 DEF Done
<1>5. CASE Of(s).source # x
  BY <1>4, <1>5, CompletedStays, CompletedFacts
<1>6. CASE Of(s).source = x
  <2>1. Completed(x)' = SumOver(Done(x)', Asked')
    BY DEF Completed, Asked, SumOver
  <2>2. IsFiniteSet(Done(x)') /\ \A i \in Done(x)' : Asked'[i] \in Nat
    <3>1. IsFiniteSet(Done(x) \union {r})
      BY CompletedFacts, FS_AddElement
    <3>2. \A i \in Done(x) \union {r} : Asked'[i] \in Nat
      BY <1>1, <1>3, CompletedFacts
    <3> QED  BY <1>4, <1>6, <3>1, <3>2
  <2>3. SumOver(Done(x)', Asked') = SumOver(Done(x)' \ {r}, Asked') + Asked'[r]
    BY <1>4, <1>6, <2>2, SumSplits
  <2>4. Done(x)' \ {r} = Done(x)
    BY <1>4, <1>6
  <2>5. SumOver(Done(x), Asked') = SumOver(Done(x), Asked)
    BY <1>3, CompletedFacts, SumAgrees
  <2>6. Asked'[r] = Of(s).amount
    BY <1>1, <1>3 DEF Asked
  <2> QED  BY <1>6, <2>1, <2>3, <2>4, <2>5, <2>6, CompletedFacts
<1> QED  BY <1>5, <1>6

LEMMA ActiveFacts ==
  IsFiniteSet(Active) /\ Cardinality(Active) \in Nat
<1>1. Active \subseteq Deposits
  BY DEF Active
<1> QED  BY <1>1, WithdrawalsAssumption, FS_Subset, FS_CardinalityType

(* What is under way is one request at most. *)
LEMMA LooseFacts ==
  ASSUME TypeInv, AdminsFit, RowsAsk, NEW s \in Admins
  PROVE  /\ \A w \in Wallets : InFlight(admin[s], w) \in 0..MaxEarned
         /\ Lag(admin[s]) \in -1..1
         /\ Uncounted(admin[s]) \in 0..Larger(1, MaxEarned)
         /\ MaxEarned \in Nat /\ Larger(1, MaxEarned) \in Nat
<1>1. MaxEarned \in Nat
  BY WithdrawalsAssumption
<1>2. Larger(1, MaxEarned) \in Nat /\ Larger(1, MaxEarned) >= MaxEarned /\ Larger(1, MaxEarned) >= 1
  BY <1>1 DEF Larger
<1>3. Lag(admin[s]) \in -1..1
  BY DEF Lag
<1>4. CASE admin[s].pc = "idle"
  BY <1>1, <1>2, <1>3, <1>4 DEF InFlight, Uncounted
<1>5. CASE admin[s].pc # "idle"
  <2>1. /\ Of(s).amount \in Nat /\ RowAt(admin[s]) = Of(s) /\ admin[s].request \in DOMAIN request
    BY <1>5, RowOf DEF RowAt, Of
  <2>2. Of(s).source = "deposit" => Of(s).amount = 1
    BY <2>1 DEF RowsAsk, Asks, Of
  <2>3. Of(s).source # "deposit" => Of(s).amount <= MaxEarned
    BY <2>1 DEF RowsAsk, Asks, Of
  <2>4. \A w \in Wallets : InFlight(admin[s], w) \in 0..MaxEarned
    BY <1>1, <2>1, <2>3 DEF InFlight, Wallets
  <2>5. Uncounted(admin[s]) \in 0..Larger(1, MaxEarned)
    BY <1>1, <1>2, <2>1, <2>2, <2>3 DEF Uncounted
  <2> QED  BY <1>1, <1>2, <1>3, <2>4, <2>5
<1> QED  BY <1>4, <1>5

LEMMA SlackFacts ==
  ASSUME TypeInv, AdminsFit, RowsAsk, NEW s \in Admins
  PROVE  /\ \A w \in Wallets : /\ Slack(s, w) \in Int /\ wallet[w] \in Int /\ earned[w] \in Int
                               /\ InFlight(admin[s], w) \in 0..MaxEarned
         /\ StakeSlack(s) \in Int /\ TotalSlack(s) \in Int
         /\ staked \in Int /\ totalWithdrawn \in Int /\ AllCompleted \in Int
         /\ Cut \in Nat /\ MaxEarned \in Nat /\ Larger(1, MaxEarned) \in Nat
         /\ Lag(admin[s]) \in -1..1 /\ Uncounted(admin[s]) \in 0..Larger(1, MaxEarned)
<1>1. AllCompleted \in Int
  BY CompletedFacts DEF AllCompleted
<1>2. Cut \in Nat
  BY DEF Cut, TypeInv, OtherTypes
<1>3. /\ staked \in Int /\ totalWithdrawn \in Int
      /\ \A w \in Wallets : wallet[w] \in Int /\ earned[w] \in Int
  BY DEF TypeInv, MoneyTypes
<1>4. \A w \in Wallets : Slack(s, w) \in Int
  BY <1>3, LooseFacts, CompletedFacts DEF Slack
<1>5. StakeSlack(s) \in Int
  BY <1>3, LooseFacts, ActiveFacts DEF StakeSlack
<1>6. TotalSlack(s) \in Int
  BY <1>1, <1>3, LooseFacts DEF TotalSlack
<1> QED  BY <1>1, <1>2, <1>3, <1>4, <1>5, <1>6, LooseFacts

(* A step that keeps a slack, or a failed update or a restart that moves   *)
(* it by d at most.                                                        *)
Drifts(x, y, d) == (Cut' = Cut /\ y = x) \/ (Cut' = Cut + 1 /\ \E e \in -d..d : y = x + e)

LEMMA DriftBounded ==
  ASSUME Cut \in Nat, NEW d \in Nat, NEW x \in -(Cut * d)..(Cut * d), NEW y, Drifts(x, y, d)
  PROVE  y \in -(Cut' * d)..(Cut' * d)
<1>1. \A m, n \in Nat : m * n \in Nat /\ (m + 1) * n = m * n + n
  OBVIOUS
<1>2. CASE Cut' = Cut /\ y = x
  BY <1>2
<1>3. CASE Cut' = Cut + 1 /\ \E e \in -d..d : y = x + e
  <2>1. Cut' * d = Cut * d + d /\ Cut * d \in Nat
    BY <1>1, <1>3
  <2>2. PICK p : p = Cut * d
    OBVIOUS
  <2>3. p \in Nat /\ x \in -p..p /\ Cut' * d = p + d
    BY <2>1, <2>2
  <2>4. y \in -(p + d)..(p + d)
    BY <1>3, <2>3
  <2> QED  BY <2>3, <2>4
<1> QED  BY <1>2, <1>3 DEF Drifts

LEMMA BooksDrift ==
  ASSUME Structure, NEW s \in Admins, SoloBooks(s),
         \A w \in Wallets : Drifts(Slack(s, w), Slack(s, w)', MaxEarned),
         Drifts(StakeSlack(s), StakeSlack(s)', 1),
         Drifts(TotalSlack(s), TotalSlack(s)', Larger(1, MaxEarned))
  PROVE  SoloBooks(s)'
<1>1. /\ Cut \in Nat /\ MaxEarned \in Nat /\ Larger(1, MaxEarned) \in Nat
  BY SlackFacts DEF Structure
<1>3. \A w \in Wallets : Slack(s, w)' \in -(Cut' * MaxEarned)..(Cut' * MaxEarned)
  BY <1>1, DriftBounded DEF SoloBooks
<1>4. StakeSlack(s)' \in -Cut'..Cut'
  <2>1. StakeSlack(s) \in -(Cut * 1)..(Cut * 1)
    BY <1>1 DEF SoloBooks
  <2>2. StakeSlack(s)' \in -(Cut' * 1)..(Cut' * 1)
    BY <1>1, <2>1, DriftBounded
  <2>3. Cut' \in Nat
    BY <1>1 DEF Drifts
  <2> QED  BY <2>2, <2>3
<1>5. TotalSlack(s)' \in -(Cut' * Larger(1, MaxEarned))..(Cut' * Larger(1, MaxEarned))
  BY <1>1, DriftBounded DEF SoloBooks
<1>6. Larger(1, MaxEarned)' = Larger(1, MaxEarned)
  BY DEF Larger
<1> QED  BY <1>3, <1>4, <1>5, <1>6 DEF SoloBooks

(* The parts of the slacks of one admin that a step keeps. *)
SameDone == \A x : Completed(x)' = Completed(x)
SameLoose(s) ==
  /\ \A w \in Wallets : InFlight(admin[s], w)' = InFlight(admin[s], w)
  /\ Lag(admin[s])' = Lag(admin[s]) /\ Uncounted(admin[s])' = Uncounted(admin[s])
SameMoney == UNCHANGED <<wallet, earned, staked, deposit, totalWithdrawn>>

LEMMA SlackMoves ==
  ASSUME Structure, NEW s \in Admins, SameDone, SameMoney,
         \/ Cut' = Cut /\ SameLoose(s)
         \/ Cut' = Cut + 1 /\ /\ \A w \in Wallets : InFlight(admin[s], w)' = 0
                              /\ Lag(admin[s])' = 0 /\ Uncounted(admin[s])' = 0
  PROVE  /\ \A w \in Wallets : Drifts(Slack(s, w), Slack(s, w)', MaxEarned)
         /\ Drifts(StakeSlack(s), StakeSlack(s)', 1)
         /\ Drifts(TotalSlack(s), TotalSlack(s)', Larger(1, MaxEarned))
<1> USE DEF Structure
<1>0. UNCHANGED <<Cardinality(Active), AllCompleted>>
  <2>1. Active' = Active
    BY DEF Active, SameMoney
  <2> QED  BY <2>1 DEF AllCompleted, SameDone
<1>a. ASSUME NEW w \in Wallets
      PROVE  /\ Slack(s, w) = wallet[w] + InFlight(admin[s], w) + Completed(w) - earned[w]
             /\ Slack(s, w)' = wallet[w] + InFlight(admin[s], w)' + Completed(w) - earned[w]
             /\ wallet[w] \in Int /\ earned[w] \in Int /\ Completed(w) \in Int
             /\ InFlight(admin[s], w) \in 0..MaxEarned /\ MaxEarned \in Nat
  BY SlackFacts, CompletedFacts DEF Slack, SameMoney, SameDone
<1>b. /\ StakeSlack(s) = staked + Lag(admin[s]) - Cardinality(Active)
      /\ StakeSlack(s)' = staked + Lag(admin[s])' - Cardinality(Active)
      /\ staked \in Int /\ Cardinality(Active) \in Int /\ Lag(admin[s]) \in -1..1
  BY <1>0, SlackFacts, ActiveFacts DEF StakeSlack, SameMoney
<1>c. /\ TotalSlack(s) = totalWithdrawn + Uncounted(admin[s]) - AllCompleted
      /\ TotalSlack(s)' = totalWithdrawn + Uncounted(admin[s])' - AllCompleted
      /\ totalWithdrawn \in Int /\ AllCompleted \in Int
      /\ Uncounted(admin[s]) \in 0..Larger(1, MaxEarned) /\ Larger(1, MaxEarned) \in Nat
  BY <1>0, SlackFacts DEF TotalSlack, SameMoney
<1>1. CASE Cut' = Cut /\ SameLoose(s)
  <2>1. \A w \in Wallets : Slack(s, w)' = Slack(s, w)
    BY <1>1, <1>a DEF SameLoose
  <2>2. StakeSlack(s)' = StakeSlack(s) /\ TotalSlack(s)' = TotalSlack(s)
    BY <1>1, <1>b, <1>c DEF SameLoose
  <2> QED  BY <1>1, <2>1, <2>2 DEF Drifts
<1>2. CASE Cut' = Cut + 1 /\ /\ \A w \in Wallets : InFlight(admin[s], w)' = 0
                             /\ Lag(admin[s])' = 0 /\ Uncounted(admin[s])' = 0
  <2>1. ASSUME NEW w \in Wallets PROVE \E e \in -MaxEarned..MaxEarned : Slack(s, w)' = Slack(s, w) + e
    <3>1. -InFlight(admin[s], w) \in -MaxEarned..MaxEarned
      BY <1>a
    <3>2. Slack(s, w)' = Slack(s, w) + (-InFlight(admin[s], w))
      BY <1>2, <1>a
    <3> QED  BY <3>1, <3>2
  <2>2. \E e \in -1..1 : StakeSlack(s)' = StakeSlack(s) + e
    <3>1. -Lag(admin[s]) \in -1..1 /\ StakeSlack(s)' = StakeSlack(s) + (-Lag(admin[s]))
      BY <1>2, <1>b
    <3> QED  BY <3>1
  <2>3. \E e \in -Larger(1, MaxEarned)..Larger(1, MaxEarned) : TotalSlack(s)' = TotalSlack(s) + e
    <3>1. -Uncounted(admin[s]) \in -Larger(1, MaxEarned)..Larger(1, MaxEarned)
      BY <1>c
    <3>2. TotalSlack(s)' = TotalSlack(s) + (-Uncounted(admin[s]))
      BY <1>2, <1>c
    <3> QED  BY <3>1, <3>2
  <2> QED  BY <1>2, <2>1, <2>2, <2>3 DEF Drifts
<1> QED  BY <1>1, <1>2

(* An approval that ends has nothing under way. *)
LEMMA EndedIsEmpty ==
  ASSUME NEW s \in Admins, admin'[s].pc \in {"idle", "approve", "reject", "payee", "requeue", "readDeposit",
                                             "withdraw", "guard", "debit"}
  PROVE  /\ \A w \in Wallets : InFlight(admin[s], w)' = 0
         /\ Lag(admin[s])' = 0 /\ Uncounted(admin[s])' = 0
BY DEF InFlight, Lag, Uncounted

LEMMA BeforeIsEmpty ==
  ASSUME NEW s \in Admins, admin[s].pc \in {"idle", "approve", "reject", "payee", "requeue", "readDeposit",
                                            "withdraw", "guard", "debit"}
  PROVE  /\ \A w \in Wallets : InFlight(admin[s], w) = 0
         /\ Lag(admin[s]) = 0 /\ Uncounted(admin[s]) = 0
BY DEF InFlight, Lag, Uncounted

(* A mark that completes no request and undoes no completion. *)
LEMMA MarkCompletes ==
  ASSUME TypeInv, AdminsFit, KeepsRows, NEW s \in Admins, admin[s].pc # "idle",
         Of(s).status # "completed", NEW st \in Statuses \ {"completed"}, Mark(s, st)
  PROVE  SameDone
<1>1. /\ DOMAIN request' = DOMAIN request
      /\ \A i \in DOMAIN request :
           request'[i].status = IF i = admin[s].request THEN st ELSE request[i].status
  BY RowOf, Marks DEF Mark, TypeInv
<1>2. \A x : Done(x)' = Done(x)
  BY <1>1, DoneStays DEF Of
<1> QED  BY <1>2, CompletedStays DEF SameDone

LEMMA RowsDone ==
  ASSUME TypeInv, KeepsRows, UNCHANGED request
  PROVE  SameDone
<1>1. \A x : Done(x)' = Done(x)
  BY DEF Done
<1> QED  BY <1>1, CompletedStays DEF SameDone

LEMMA CutMoves ==
  ASSUME TypeInv
  PROVE  /\ UNCHANGED budget \/ Spend("payErrors") \/ Spend("timeouts") => Cut' = Cut
         /\ Spend("errors") \/ Spend("crashes") => Cut' = Cut + 1
<1>1. budget.errors \in Nat /\ budget.crashes \in Nat
  BY DEF TypeInv, OtherTypes
<1>2. UNCHANGED budget => Cut' = Cut
  BY DEF Cut
<1>3. Spend("payErrors") \/ Spend("timeouts") => Cut' = Cut
  BY SpendTypes DEF Cut, TypeInv
<1>4. Spend("errors") \/ Spend("crashes") => Cut' = Cut + 1
  BY <1>1, SpendTypes DEF Cut, TypeInv
<1> QED  BY <1>2, <1>3, <1>4

(* The slacks of the same call on the same row. *)
LEMMA SameCall ==
  ASSUME TypeInv, AdminsFit, KeepsRows, NEW s \in Admins, admin'[s] = admin[s]
  PROVE  SameLoose(s)
<1>1. CASE admin[s].pc = "idle"
  BY <1>1 DEF SameLoose, InFlight, Lag, Uncounted
<1>2. CASE admin[s].pc # "idle"
  <2>1. SameRow(request'[admin[s].request], request[admin[s].request])
    BY <1>2 DEF KeepsRows, AdminsFit, Fits
  <2> QED  BY <2>1 DEF SameLoose, InFlight, Lag, Uncounted, RowAt, SameRow
<1> QED  BY <1>1, <1>2

(* What a step of each kind does to the books of one admin. *)
BooksMove(s) ==
  /\ \A w \in Wallets : Drifts(Slack(s, w), Slack(s, w)', MaxEarned)
  /\ Drifts(StakeSlack(s), StakeSlack(s)', 1)
  /\ Drifts(TotalSlack(s), TotalSlack(s)', Larger(1, MaxEarned))

LEMMA PassesBook ==
  ASSUME Structure, KeepsRows, NEW s \in Admins, Passes(s)
  PROVE  BooksMove(s)
<1> USE DEF Structure
<1>1. SameMoney /\ UNCHANGED request
  BY PassesLeave DEF SameMoney
<1>2. SameDone
  BY <1>1, RowsDone
<1>3. Passage(s, admin'[s].pc)
      /\ admin'[s].pc \notin {"idle", "approve", "reject", "total", "lowerStake", "raiseStake", "payee", "wait"}
      /\ admin[s].pc # "total" /\ admin[s].pc # "idle"
  BY SoloPasses DEF Claimed
<1>4. admin'[s].request = admin[s].request
  BY <1>3, ApprovalMoves DEF Passes, Process, Fault
<1>5. CASE admin[s].pc \in Undoing /\ admin'[s].pc = "requeue" /\ Spend("errors")
  BY <1>1, <1>2, <1>5, EndedIsEmpty, CutMoves, SlackMoves DEF BooksMove
<1>6. CASE ~(admin[s].pc \in Undoing /\ admin'[s].pc = "requeue" /\ Spend("errors"))
  <2>1. UNCHANGED budget \/ Spend("payErrors") \/ Spend("timeouts")
    BY <1>3, <1>6 DEF Passage
  <2>2. /\ admin[s].pc \notin {"lowerStake", "raiseStake"}
        /\ Of(s).source # "deposit" =>
             (admin[s].pc \in {"pay", "wait", "refund", "complete"}
                <=> admin'[s].pc \in {"pay", "wait", "refund", "complete"})
    <3>1. Fits(admin[s])
      BY DEF AdminsFit
    <3> QED  BY <1>3, <1>6, <3>1 DEF Passage, At, Fits, Of, Redeeming, Debiting
  <2>3. SameLoose(s)
    <3>1. RowAt(admin[s])' = Of(s) /\ RowAt(admin[s]) = Of(s)
      BY <1>1, <1>4 DEF RowAt, Of
    <3>2. \A w \in Wallets : InFlight(admin[s], w)' = InFlight(admin[s], w)
      BY <2>2, <3>1 DEF InFlight, Wallets
    <3>3. Lag(admin[s])' = Lag(admin[s]) /\ Uncounted(admin[s])' = Uncounted(admin[s])
      BY <1>3, <2>2 DEF Lag, Uncounted
    <3> QED  BY <3>2, <3>3 DEF SameLoose
  <2> QED  BY <1>1, <1>2, <2>1, <2>3, CutMoves, SlackMoves DEF BooksMove
<1> QED  BY <1>5, <1>6

LEMMA EndsBook ==
  ASSUME Structure, KeepsRows, NEW s \in Admins, SoloStatus(s),
         BacksOut(s) \/ GivesUp(s) \/ Takes(s) \/ Reject(s)
  PROVE  BooksMove(s)
<1> USE DEF Structure
<1>a. AdminTypes
  BY DEF TypeInv
<1>1. CASE BacksOut(s)
  <2>1. /\ PutsBack(s) /\ SameMoney
        /\ admin[s].pc \in {"payee", "guard", "requeue", "readDeposit", "withdraw", "lowerStake", "debit"}
        /\ (UNCHANGED budget /\ admin[s].pc # "lowerStake") \/ Spend("errors")
    BY <1>1, BackedOut DEF SameMoney
  <2>2. Of(s).status = "approved"
    BY <2>1 DEF SoloStatus, Claimed
  <2>3. SameDone
    BY <2>1, <2>2, MarkCompletes DEF PutsBack, Statuses
  <2>4. admin'[s].pc = "idle"
    BY <1>a, <2>1, Returned DEF PutsBack, NoReview
  <2>5. (UNCHANGED budget /\ admin[s].pc # "lowerStake") => SameLoose(s)
    BY <2>1, <2>4, EndedIsEmpty, BeforeIsEmpty DEF SameLoose
  <2> QED  BY <2>1, <2>3, <2>4, <2>5, EndedIsEmpty, CutMoves, SlackMoves DEF BooksMove
<1>2. CASE GivesUp(s)
  <2>1. /\ EndsCall(s) /\ SameMoney
        /\ (UNCHANGED budget /\ At(s, "approve")) \/ Spend("errors")
    BY <1>2, GaveUp DEF SameMoney
  <2>2. SameDone
    BY <2>1, RowsDone DEF EndsCall
  <2>3. admin'[s].pc = "idle"
    BY <1>a, <2>1, Returned DEF EndsCall, NoReview
  <2>4. (UNCHANGED budget /\ At(s, "approve")) => SameLoose(s)
    BY <2>3, EndedIsEmpty, BeforeIsEmpty DEF SameLoose, At
  <2> QED  BY <2>1, <2>2, <2>3, <2>4, EndedIsEmpty, CutMoves, SlackMoves DEF BooksMove
<1>3. CASE Takes(s) \/ Reject(s)
  <2>1. /\ SameMoney /\ UNCHANGED budget
        /\ (admin[s].pc = "approve" /\ Mark(s, "approved")) \/ (admin[s].pc = "reject" /\ Mark(s, "rejected"))
    BY <1>3 DEF Takes, Claim, Reject, SameMoney, user, At
  <2>2. Of(s).status = "pending"
    BY <2>1 DEF SoloStatus
  <2>3. SameDone
    BY <2>1, <2>2, MarkCompletes DEF Statuses
  <2>4. admin'[s].pc \in {"payee", "idle"}
    <3>1. Takes(s) => admin'[s].pc = "payee"
      BY SoloPc
    <3>2. Reject(s) => admin'[s].pc = "idle"
      BY <1>a, Returned DEF Reject, NoReview
    <3> QED  BY <1>3, <3>1, <3>2
  <2>5. SameLoose(s)
    BY <2>1, <2>4, EndedIsEmpty, BeforeIsEmpty DEF SameLoose
  <2> QED  BY <2>1, <2>3, <2>5, CutMoves, SlackMoves DEF BooksMove
<1> QED  BY <1>1, <1>2, <1>3

(* The slacks of an admin at work on a row. *)
LEMMA AtRow ==
  ASSUME TypeInv, AdminsFit, KeepsRows, NEW s \in Admins, admin[s].pc # "idle",
         admin'[s].request = admin[s].request
  PROVE  /\ RowAt(admin[s]) = Of(s) /\ Of(s).amount \in Nat
         /\ RowAt(admin[s])'.source = Of(s).source /\ RowAt(admin[s])'.amount = Of(s).amount
         /\ \A w \in Wallets :
              InFlight(admin[s], w)' =
                IF admin'[s].pc \in {"pay", "wait", "refund", "complete"} /\ Of(s).source = w
                  THEN Of(s).amount ELSE 0
         /\ \A w \in Wallets :
              InFlight(admin[s], w) =
                IF admin[s].pc \in {"pay", "wait", "refund", "complete"} /\ Of(s).source = w
                  THEN Of(s).amount ELSE 0
<1>1. RowAt(admin[s]) = Of(s) /\ Of(s).amount \in Nat /\ admin[s].request \in DOMAIN request
  BY RowOf DEF RowAt, Of
<1>2. SameRow(RowAt(admin[s])', Of(s))
  BY <1>1 DEF KeepsRows, RowAt, Of
<1> QED  BY <1>1, <1>2 DEF SameRow, InFlight

LEMMA NoDrift ==
  ASSUME TypeInv, UNCHANGED budget, NEW s \in Admins,
         \A w \in Wallets : Slack(s, w)' = Slack(s, w),
         StakeSlack(s)' = StakeSlack(s), TotalSlack(s)' = TotalSlack(s)
  PROVE  BooksMove(s)
<1>1. Cut' = Cut
  BY CutMoves
<1> QED  BY <1>1 DEF BooksMove, Drifts

LEMMA RedeemsBook ==
  ASSUME Structure, KeepsRows, NEW s \in Admins, SoloDeposit(s), WithdrawDeposit(s) \/ LowerStake(s) \/ RaiseStake(s)
  PROVE  BooksMove(s)
<1> USE DEF Structure
<1>0. /\ UNCHANGED <<request, wallet, earned, totalWithdrawn, budget>>
      /\ admin[s].pc \in {"withdraw", "lowerStake", "raiseStake"}
  BY SoloPc DEF WithdrawDeposit, LowerStake, RaiseStake, user
<1>1. Of(s).source = "deposit" /\ Of(s).deposit \in Deposits
  BY <1>0, RowOf DEF AdminsFit, Fits, Of, Redeeming, RowsAsk, Asks
<1>2. SameDone
  BY <1>0, RowsDone
<1>3. admin'[s].pc # "idle" /\ admin'[s].pc # "total"
  BY SoloPc
<1>4. admin'[s].request = admin[s].request
  BY <1>3, SoloMoves DEF Process
<1>5. \A w \in Wallets : InFlight(admin[s], w)' = 0 /\ InFlight(admin[s], w) = 0
  BY <1>0, <1>1, <1>4, AtRow DEF Wallets
<1>6. \A w \in Wallets : Slack(s, w)' = Slack(s, w)
  BY <1>0, <1>2, <1>5 DEF Slack, SameDone
<1>7. TotalSlack(s)' = TotalSlack(s)
  <2>1. Uncounted(admin[s])' = 0 /\ Uncounted(admin[s]) = 0
    BY <1>0, <1>3 DEF Uncounted
  <2> QED  BY <1>0, <1>2, <2>1 DEF TotalSlack, AllCompleted, SameDone
<1>8. StakeSlack(s)' = StakeSlack(s)
  <2>1. CASE WithdrawDeposit(s)
    <3>1. /\ deposit' = [deposit EXCEPT ![Of(s).deposit] = "withdrawn"] /\ UNCHANGED staked
          /\ deposit[Of(s).deposit] = "active"
          /\ Lag(admin[s])' = -1 /\ Lag(admin[s]) = 0
      BY <1>1, <2>1, SoloPc DEF WithdrawDeposit, SoloDeposit, Lag
    <3>2. Active' = Active \ {Of(s).deposit} /\ Of(s).deposit \in Active
      BY <1>1, <3>1 DEF Active, TypeInv, MoneyTypes
    <3>3. Cardinality(Active') = Cardinality(Active) - 1
      BY <3>2, ActiveFacts, FS_RemoveElement
    <3> QED  BY <3>1, <3>3, ActiveFacts DEF StakeSlack, TypeInv, MoneyTypes
  <2>2. CASE LowerStake(s)
    <3>1. /\ staked' = staked - 1 /\ UNCHANGED deposit /\ Lag(admin[s])' = 0 /\ Lag(admin[s]) = -1
      BY <2>2, SoloPc DEF LowerStake, Lag
    <3>2. Active' = Active
      BY <3>1 DEF Active
    <3> QED  BY <3>1, <3>2, ActiveFacts DEF StakeSlack, TypeInv, MoneyTypes
  <2>3. CASE RaiseStake(s)
    <3>1. /\ staked' = staked + 1 /\ UNCHANGED deposit /\ Lag(admin[s])' = 0 /\ Lag(admin[s]) = 1
      BY <2>3, SoloPc DEF RaiseStake, Lag
    <3>2. Active' = Active
      BY <3>1 DEF Active
    <3> QED  BY <3>1, <3>2, ActiveFacts DEF StakeSlack, TypeInv, MoneyTypes
  <2> QED  BY <2>1, <2>2, <2>3
<1> QED  BY <1>0, <1>6, <1>7, <1>8, NoDrift

LEMMA DebitsBook ==
  ASSUME Structure, KeepsRows, NEW s \in Admins, Debit(s) \/ SendPayout(s)
  PROVE  BooksMove(s)
<1> USE DEF Structure
<1>0. /\ UNCHANGED <<request, earned, totalWithdrawn, deposit, staked, budget>>
      /\ (Debit(s) /\ admin[s].pc = "debit" /\ admin'[s].pc = "pay")
           \/ (SendPayout(s) /\ admin[s].pc = "pay" /\ admin'[s].pc = "wait" /\ UNCHANGED wallet)
  BY SoloPc DEF Debit, SendPayout, user
<1>1. SameDone
  BY <1>0, RowsDone
<1>2. admin'[s].request = admin[s].request /\ admin[s].pc # "idle"
  BY <1>0, SoloMoves DEF Process
<1>3. ASSUME NEW w \in Wallets PROVE Slack(s, w)' = Slack(s, w)
  <2>1. wallet'[w] + InFlight(admin[s], w)' = wallet[w] + InFlight(admin[s], w)
    <3>1. wallet[w] \in Int /\ Of(s).amount \in Nat
      BY <1>2, AtRow DEF TypeInv, MoneyTypes
    <3>2. CASE Debit(s)
      BY <1>0, <1>2, <3>1, <3>2, AtRow, DebitMoves
    <3>3. CASE SendPayout(s) /\ UNCHANGED wallet
      <4>1. InFlight(admin[s], w)' = InFlight(admin[s], w)
        BY <1>0, <1>2, <3>3, AtRow, SoloPc
      <4> QED  BY <3>3, <4>1
    <3> QED  BY <1>0, <3>2, <3>3
  <2> QED  BY <1>0, <1>1, <2>1 DEF Slack, SameDone
<1>4. /\ Lag(admin[s])' = 0 /\ Lag(admin[s]) = 0
      /\ Uncounted(admin[s])' = 0 /\ Uncounted(admin[s]) = 0
  BY <1>0 DEF Lag, Uncounted
<1>5. StakeSlack(s)' = StakeSlack(s)
  <2>1. Active' = Active
    BY <1>0 DEF Active
  <2> QED  BY <1>0, <1>4, <2>1 DEF StakeSlack
<1>6. TotalSlack(s)' = TotalSlack(s)
  BY <1>0, <1>1, <1>4 DEF TotalSlack, AllCompleted, SameDone
<1> QED  BY <1>0, <1>3, <1>5, <1>6, NoDrift

(* With no balance negative the hook lets the refund of a wallet through.  *)
LEMMA RefundsBook ==
  ASSUME Structure, KeepsRows, NEW s \in Admins, SoloWallet(s), SoloDeposit(s), Refund(s)
  PROVE  BooksMove(s)
<1> USE DEF Structure
<1>0. /\ UNCHANGED <<request, earned, totalWithdrawn, staked, budget>>
      /\ admin[s].pc = "refund"
      /\ admin'[s].pc = IF Of(s).source = "deposit" THEN "raiseStake" ELSE "requeue"
  BY SoloPc DEF Refund
<1>1. SameDone
  BY <1>0, RowsDone
<1>2. admin'[s].request = admin[s].request /\ admin[s].pc # "idle"
  BY <1>0, SoloMoves DEF Process
<1>a. Of(s).amount \in Nat /\ Of(s) \in Row /\ Of(s).source \in Sources
  BY <1>2, RowOf
<1>3. ASSUME NEW w \in Wallets PROVE Slack(s, w)' = Slack(s, w)
  <2>1. wallet[w] \in Int /\ \A x \in Wallets : wallet[x] >= 0 /\ wallet[x] \in Int
    BY DEF TypeInv, MoneyTypes, SoloWallet
  <2>2. InFlight(admin[s], w) = (IF Of(s).source = w THEN Of(s).amount ELSE 0)
        /\ InFlight(admin[s], w)' = 0
    BY <1>0, <1>2, AtRow
  <2>3. wallet'[w] = wallet[w] + (IF Of(s).source = w THEN Of(s).amount ELSE 0)
    <3>1. CASE Of(s).source = "deposit"
      BY <2>1, <3>1 DEF Refund, Wallets
    <3>2. CASE Of(s).source # "deposit"
      <4>1. Of(s).source \in Wallets
        BY <1>a, <3>2 DEF Sources, Wallets
      <4>2. NonNegativeAfter(Of(s).source, Of(s).amount)
        BY <1>a, <2>1, <4>1 DEF NonNegativeAfter
      <4>3. wallet' = [wallet EXCEPT ![Of(s).source] = wallet[Of(s).source] + Of(s).amount]
        BY <3>2, <4>2 DEF Refund
      <4> QED  BY <2>1, <4>1, <4>3 DEF TypeInv, MoneyTypes
    <3> QED  BY <3>1, <3>2
  <2> QED  BY <1>0, <1>1, <1>a, <2>1, <2>2, <2>3 DEF Slack, SameDone
<1>4. Uncounted(admin[s])' = 0 /\ Uncounted(admin[s]) = 0
  BY <1>0 DEF Uncounted
<1>5. TotalSlack(s)' = TotalSlack(s)
  BY <1>0, <1>1, <1>4 DEF TotalSlack, AllCompleted, SameDone
<1>6. StakeSlack(s)' = StakeSlack(s)
  <2>1. CASE Of(s).source = "deposit"
    <3>1. /\ deposit' = [deposit EXCEPT ![Of(s).deposit] = "active"]
          /\ deposit[Of(s).deposit] = "withdrawn" /\ Of(s).deposit \in Deposits
          /\ Lag(admin[s])' = 1 /\ Lag(admin[s]) = 0
      BY <1>0, <1>2, <2>1, RowOf DEF Refund, SoloDeposit, Lag, RowsAsk, Asks, Of
    <3>2. Active' = Active \union {Of(s).deposit} /\ Of(s).deposit \notin Active
      BY <3>1 DEF Active, TypeInv, MoneyTypes
    <3>3. Cardinality(Active') = Cardinality(Active) + 1
      BY <3>2, ActiveFacts, FS_AddElement
    <3> QED  BY <1>0, <3>1, <3>3, ActiveFacts DEF StakeSlack, TypeInv, MoneyTypes
  <2>2. CASE Of(s).source # "deposit"
    <3>1. UNCHANGED deposit /\ Lag(admin[s])' = 0 /\ Lag(admin[s]) = 0
      BY <1>0, <2>2 DEF Refund, Lag
    <3>2. Active' = Active
      BY <3>1 DEF Active
    <3> QED  BY <1>0, <3>1, <3>2 DEF StakeSlack
  <2> QED  BY <2>1, <2>2
<1> QED  BY <1>0, <1>3, <1>5, <1>6, NoDrift

LEMMA CompletesBook ==
  ASSUME Structure, KeepsRows, NEW s \in Admins, SoloStatus(s), Complete(s)
  PROVE  BooksMove(s)
<1> USE DEF Structure
<1>0. /\ UNCHANGED <<wallet, earned, totalWithdrawn, staked, deposit, budget>>
      /\ admin[s].pc = "complete" /\ admin'[s].pc = "total"
  BY SoloPc DEF Complete, user
<1>1. Of(s).status = "approved"
  BY <1>0 DEF SoloStatus, Claimed
<1>2. \A x : Completed(x)' = Completed(x) + (IF Of(s).source = x THEN Of(s).amount ELSE 0)
  BY <1>1, CompletedGrows
<1>3. admin'[s].request = admin[s].request /\ admin[s].pc # "idle"
  BY <1>0, SoloMoves DEF Process
<1>a. /\ Of(s).amount \in Nat /\ Of(s).source \in Sources
      /\ \A x : Completed(x) \in Nat
  BY <1>3, RowOf, CompletedFacts
<1>4. ASSUME NEW w \in Wallets PROVE Slack(s, w)' = Slack(s, w)
  <2>1. InFlight(admin[s], w) = (IF Of(s).source = w THEN Of(s).amount ELSE 0)
        /\ InFlight(admin[s], w)' = 0
    BY <1>0, <1>3, AtRow
  <2>2. wallet[w] \in Int /\ earned[w] \in Int
    BY DEF TypeInv, MoneyTypes
  <2> QED  BY <1>0, <1>2, <1>a, <2>1, <2>2 DEF Slack
<1>5. TotalSlack(s)' = TotalSlack(s)
  <2>1. Uncounted(admin[s]) = 0 /\ Uncounted(admin[s])' = Of(s).amount
    BY <1>0, <1>3, AtRow DEF Uncounted
  <2>2. AllCompleted' = AllCompleted + Of(s).amount
    <3>1. Of(s).source \in {"yield", "referral", "deposit"}
      BY <1>a DEF Sources
    <3> QED  BY <1>2, <1>a, <3>1 DEF AllCompleted
  <2>3. AllCompleted \in Int /\ totalWithdrawn \in Int
    BY SlackFacts
  <2> QED  BY <1>0, <1>a, <2>1, <2>2, <2>3 DEF TotalSlack
<1>6. StakeSlack(s)' = StakeSlack(s)
  <2>1. Active' = Active /\ Lag(admin[s])' = Lag(admin[s])
    BY <1>0 DEF Active, Lag
  <2> QED  BY <1>0, <2>1 DEF StakeSlack
<1> QED  BY <1>0, <1>4, <1>5, <1>6, NoDrift

LEMMA CountsBook ==
  ASSUME Structure, KeepsRows, NEW s \in Admins, SoloWallet(s), CountWithdrawn(s)
  PROVE  BooksMove(s)
<1> USE DEF Structure
<1>0. /\ UNCHANGED <<request, wallet, earned, staked, deposit, budget>>
      /\ admin[s].pc = "total" /\ Return(s)
      /\ totalWithdrawn' = totalWithdrawn + Of(s).amount
  BY DEF CountWithdrawn, At, SoloWallet
<1>1. admin'[s].pc = "idle"
  BY <1>0, Returned DEF NoReview, TypeInv
<1>2. SameDone
  BY <1>0, RowsDone
<1>3. \A w \in Wallets : InFlight(admin[s], w) = 0 /\ InFlight(admin[s], w)' = 0
  BY <1>0, <1>1 DEF InFlight
<1>4. \A w \in Wallets : Slack(s, w)' = Slack(s, w)
  BY <1>0, <1>2, <1>3 DEF Slack, SameDone
<1>5. TotalSlack(s)' = TotalSlack(s)
  <2>1. Uncounted(admin[s]) = Of(s).amount /\ Uncounted(admin[s])' = 0
    BY <1>0, <1>1 DEF Uncounted, RowAt, Of
  <2>2. AllCompleted' = AllCompleted
    BY <1>2 DEF AllCompleted, SameDone
  <2>3. AllCompleted \in Int /\ totalWithdrawn \in Int /\ Of(s).amount \in Nat
    BY <1>0, SlackFacts, RowOf
  <2> QED  BY <1>0, <2>1, <2>2, <2>3 DEF TotalSlack
<1>6. StakeSlack(s)' = StakeSlack(s)
  <2>1. Active' = Active /\ Lag(admin[s])' = Lag(admin[s])
    BY <1>0, <1>1 DEF Active, Lag
  <2> QED  BY <1>0, <2>1 DEF StakeSlack
<1> QED  BY <1>0, <1>4, <1>5, <1>6, NoDrift

SoloHolds(s) == SoloStatus(s) /\ SoloWallet(s) /\ SoloDeposit(s) /\ SoloBooks(s)

LEMMA ApprovalBooks ==
  ASSUME Structure, KeepsRows, NEW s \in Admins, SoloHolds(s), Process(s) \/ Fault(s)
  PROVE  SoloHolds(s)'
<1> USE DEF Structure, SoloHolds
<1>1. SoloStatus(s)' /\ SoloWallet(s)' /\ SoloDeposit(s)'
  BY SoloStatusKept, SoloWalletKept, SoloDepositKept
<1>2. BooksMove(s)
  BY ApprovalKinds, PassesBook, EndsBook, RedeemsBook, DebitsBook, RefundsBook, CompletesBook,
       CountsBook
<1>3. SoloBooks(s)'
  BY <1>2, BooksDrift DEF BooksMove
<1> QED  BY <1>1, <1>3

(* A step of somebody else: no row is completed, what is earned is added.  *)
LEMMA SoloStays ==
  ASSUME Structure, Structure', KeepsRows, NEW s \in Admins, SoloHolds(s), admin'[s] = admin[s],
         UNCHANGED <<staked, deposit, totalWithdrawn>>, Cut' = Cut,
         \A w \in Wallets : wallet'[w] >= wallet[w] /\ wallet'[w] - wallet[w] = earned'[w] - earned[w],
         \A i \in DOMAIN request : request'[i] = request[i],
         \A i \in DOMAIN request' \ DOMAIN request : request'[i].status # "completed"
  PROVE  SoloHolds(s)'
<1> USE DEF Structure, SoloHolds
<1>1. admin[s].pc # "idle" => Of(s)' = Of(s) /\ Of(s).source \in Sources
                                /\ (admin[s].pc = "debit" => Of(s).source # "deposit")
  BY RowOf DEF AdminsFit, Fits, Of, Debiting
<1>2. SoloStatus(s)'
  BY <1>1 DEF SoloStatus, Claimed
<1>3. SoloWallet(s)'
  <2>1. \A w \in Wallets : wallet'[w] \in Int /\ wallet[w] \in Int
    BY DEF TypeInv, MoneyTypes
  <2>2. \A w \in Wallets : wallet'[w] >= 0
    BY <2>1 DEF SoloWallet
  <2>3. ASSUME admin[s].pc = "debit" PROVE wallet'[Of(s)'.source] >= Of(s)'.amount
    <3>1. Of(s).source \in Wallets /\ Of(s)' = Of(s) /\ wallet[Of(s).source] >= Of(s).amount
      BY <1>1, <2>3 DEF Sources, Wallets, SoloWallet
    <3>2. Of(s).amount \in Nat
      BY <2>3, RowOf
    <3> QED  BY <2>1, <3>1, <3>2
  <2> QED  BY <2>2, <2>3 DEF SoloWallet
<1>4. SoloDeposit(s)'
  BY <1>1 DEF SoloDeposit
<1>5. SameDone
  <2>1. \A x : Done(x)' = Done(x)
    BY DoneStays
  <2> QED  BY <2>1, CompletedStays DEF SameDone
<1>6. SameLoose(s)
  BY SameCall
<1>7. \A w \in Wallets : Slack(s, w)' = Slack(s, w)
  <2> SUFFICES ASSUME NEW w \in Wallets PROVE Slack(s, w)' = Slack(s, w)
    OBVIOUS
  <2>1. /\ wallet[w] \in Int /\ wallet'[w] \in Int /\ earned[w] \in Int /\ earned'[w] \in Int
        /\ Completed(w) \in Int /\ InFlight(admin[s], w) \in Int
    BY SlackFacts, CompletedFacts DEF TypeInv, MoneyTypes
  <2>2. /\ Slack(s, w) = wallet[w] + InFlight(admin[s], w) + Completed(w) - earned[w]
        /\ Slack(s, w)' = wallet'[w] + InFlight(admin[s], w) + Completed(w) - earned'[w]
    BY <1>5, <1>6 DEF Slack, SameDone, SameLoose
  <2>3. wallet'[w] - wallet[w] = earned'[w] - earned[w]
    OBVIOUS
  <2> QED  BY <2>1, <2>2, <2>3
<1>8. StakeSlack(s)' = StakeSlack(s) /\ TotalSlack(s)' = TotalSlack(s)
  <2>1. Active' = Active
    BY DEF Active
  <2> QED  BY <1>5, <1>6, <2>1 DEF StakeSlack, TotalSlack, AllCompleted, SameDone, SameLoose
<1>9. SoloBooks(s)'
  BY <1>7, <1>8, BooksDrift DEF Drifts
<1> QED  BY <1>2, <1>3, <1>4, <1>9

LEMMA LooksBook ==
  ASSUME Structure, KeepsRows, NEW s \in Admins, SoloHolds(s), Looks(s)
  PROVE  SoloHolds(s)'
<1> USE DEF Structure, SoloHolds
<1>1. /\ SameMoney /\ UNCHANGED <<request, wallet, budget>>
      /\ admin[s].pc = "idle" /\ admin'[s].pc \in {"approve", "reject"}
      /\ request[admin'[s].request].status = "pending"
  BY LooksKeep DEF SameMoney
<1>2. SoloStatus(s)' /\ SoloWallet(s)' /\ SoloDeposit(s)'
  BY <1>1 DEF SoloStatus, SoloWallet, SoloDeposit, Claimed, Of
<1>3. SameDone /\ SameLoose(s)
  BY <1>1, RowsDone, EndedIsEmpty, BeforeIsEmpty DEF SameLoose
<1>4. SoloBooks(s)'
  BY <1>1, <1>3, CutMoves, SlackMoves, BooksDrift
<1> QED  BY <1>2, <1>4

LEMMA CrashBook ==
  ASSUME Structure, KeepsRows, NEW s \in Admins, SoloHolds(s), Crash
  PROVE  SoloHolds(s)'
<1> USE DEF Structure, SoloHolds
<1>1. SameMoney /\ UNCHANGED <<request, wallet>> /\ Spend("crashes") /\ admin'[s].pc = "idle"
  BY DEF Crash, SameMoney, user, NoReview
<1>2. SoloStatus(s)' /\ SoloWallet(s)' /\ SoloDeposit(s)'
  BY <1>1 DEF SoloStatus, SoloWallet, SoloDeposit, Claimed
<1>3. SameDone
  BY <1>1, RowsDone
<1>4. SoloBooks(s)'
  BY <1>1, <1>3, EndedIsEmpty, CutMoves, SlackMoves, BooksDrift
<1> QED  BY <1>2, <1>4

LEMMA SoloKept ==
  ASSUME Structure, Covered, Solo, [Next]_vars
  PROVE  Solo'
<1>0. Structure' /\ KeepsRows
  BY StructureKept
<1> USE DEF Structure
<1>a. UNCHANGED load
  <2>1. [\E c \in Clients : Prepares(c) \/ FileRequest(c)]_vars => UNCHANGED load
    BY PreparesLeaves DEF AllButClients, FileRequest, vars
  <2>2. \A a \in Admins : Process(a) \/ Fault(a) \/ Looks(a) => UNCHANGED load
    BY ApprovalLeaves DEF Looks, Review
  <2>3. Around => UNCHANGED load
    BY DEF Around, Unlink, Crash, Mine, Revert, Earn
  <2> QED  BY <2>1, <2>2, <2>3, Steps
<1> SUFFICES ASSUME NEW s \in Admins, load.admins = {s} PROVE SoloHolds(s)'
  BY <1>a DEF Solo, SoloHolds
<1>b. SoloHolds(s)
  BY DEF Solo, SoloHolds
<1>c. ASSUME UNCHANGED <<request, wallet, earned, staked, deposit, totalWithdrawn, admin>>, Cut' = Cut
      PROVE  SoloHolds(s)'
  <2>1. \A w \in Wallets : wallet'[w] >= wallet[w] /\ wallet'[w] - wallet[w] = earned'[w] - earned[w]
    BY <1>c DEF TypeInv, MoneyTypes
  <2> QED  BY <1>0, <1>b, <1>c, <2>1, SoloStays
<1>1. ASSUME NEW c \in Clients, Prepares(c) PROVE SoloHolds(s)'
  BY <1>1, <1>c, PreparesLeaves DEF AllButClients, user, Cut
<1>2. ASSUME NEW c \in Clients, FileRequest(c) PROVE SoloHolds(s)'
  <2>1. /\ DOMAIN request' = DOMAIN request \union {Len(request) + 1}
        /\ \A i \in DOMAIN request : request'[i] = request[i]
        /\ request'[Len(request) + 1] = NewRow(c)
        /\ UNCHANGED <<wallet, earned, staked, deposit, totalWithdrawn, admin, budget>>
    BY <1>2, FilesKeep
  <2>2. \A i \in DOMAIN request' \ DOMAIN request : request'[i].status # "completed"
    BY <2>1 DEF NewRow
  <2>3. \A w \in Wallets : wallet'[w] >= wallet[w] /\ wallet'[w] - wallet[w] = earned'[w] - earned[w]
    BY <2>1 DEF TypeInv, MoneyTypes
  <2>4. Cut' = Cut
    BY <2>1 DEF Cut
  <2> QED  BY <1>0, <1>b, <2>1, <2>2, <2>3, <2>4, SoloStays
<1>3. ASSUME NEW a \in Admins, Process(a) \/ Fault(a) PROVE SoloHolds(s)'
  <2>1. a = s
    BY <1>3, SoloActs
  <2> QED  BY <1>0, <1>b, <1>3, <2>1, ApprovalBooks
<1>4. ASSUME NEW a \in Admins, Looks(a) PROVE SoloHolds(s)'
  <2>1. a = s
    BY <1>4, SoloActs
  <2> QED  BY <1>0, <1>b, <1>4, <2>1, LooksBook
<1>5. CASE Around
  <2>1. ASSUME NEW x \in Wallets, Earn(x) PROVE SoloHolds(s)'
    <3>1. /\ UNCHANGED <<request, staked, deposit, totalWithdrawn, admin, budget>>
          /\ \A w \in Wallets : wallet'[w] - wallet[w] = earned'[w] - earned[w]
      BY <2>1, EarnMoves DEF Earn
    <3>2. \A w \in Wallets : wallet'[w] >= wallet[w]
      BY <2>1 DEF Earn, TypeInv, MoneyTypes
    <3>3. Cut' = Cut
      BY <3>1 DEF Cut
    <3> QED  BY <1>0, <1>b, <3>1, <3>2, <3>3, SoloStays
  <2>2. CASE Crash
    BY <1>0, <1>b, <2>2, CrashBook
  <2>3. CASE Unlink
    BY <1>c, <2>3 DEF Unlink, user, calls, Cut
  <2>4. ASSUME NEW k \in DOMAIN payout, Mine(k) \/ Revert(k) PROVE SoloHolds(s)'
    <3>1. /\ UNCHANGED <<request, wallet, earned, staked, deposit, totalWithdrawn, admin>>
          /\ UNCHANGED budget \/ Spend("payErrors")
      BY <2>4 DEF Mine, Revert, user, calls
    <3> QED  BY <1>c, <3>1, CutMoves
  <2> QED  BY <1>5, <2>1, <2>2, <2>3, <2>4 DEF Around
<1>6. CASE UNCHANGED vars
  BY <1>c, <1>6 DEF vars, user, calls, Cut
<1> QED  BY <1>1, <1>2, <1>3, <1>4, <1>5, <1>6, Steps

-----------------------------------------------------------------------------
(* The invariant *)

LEMMA InvInit ==
  ASSUME Init
  PROVE  IInv
<1>0. Structure
  BY StructureInit
<1> USE DEF Init
<1>1. DOMAIN request = {} /\ DOMAIN payout = {}
  OBVIOUS
<1>2. PaidCount
  BY <1>1 DEF PaidCount
<1>3. \A a \in Admins : admin[a].pc = "idle"
  BY DEF NoReview
<1>4. \A w : SumOver(Admins, Held(w)) = 0 /\ SumOver(Admins, Due(w)) = 0
  <2>1. \A w : \A a \in Admins : Held(w)[a] = 0 /\ Due(w)[a] = 0
    BY <1>3 DEF Held, Due, Debited
  <2> QED  BY <2>1, SumOfNothing
<1>5. \A x : PaidTo(x) = 0 /\ Completed(x) = 0
  <2>1. \A x : Paid(x) = {} /\ Done(x) = {}
    BY <1>1 DEF Paid, Done
  <2>2. \A x : (\A y \in Paid(x) : Amounts[y] = 0) /\ (\A y \in Done(x) : Asked[y] = 0)
    BY <2>1
  <2> QED  BY <2>2, SumOfNothing DEF PaidTo, Completed, Amounts, Asked
<1>6. \A w \in Wallets : wallet[w] = 0 /\ earned[w] = 0
  OBVIOUS
<1>7. budget.timeouts = 0 /\ Cut = 0 /\ MaxEarned \in Nat /\ Larger(1, MaxEarned) \in Nat
  BY WithdrawalsAssumption DEF Cut, Larger
<1>8. Covered
  BY <1>4, <1>6 DEF Covered
<1>9. Backed
  BY <1>4, <1>5, <1>6, <1>7 DEF Backed
<1>10. ASSUME NEW s \in Admins PROVE SoloStatus(s) /\ SoloWallet(s) /\ SoloDeposit(s) /\ SoloBooks(s)
  <2>1. SoloStatus(s) /\ SoloWallet(s) /\ SoloDeposit(s)
    BY <1>3, <1>6 DEF SoloStatus, SoloWallet, SoloDeposit, Claimed
  <2>2. /\ \A w \in Wallets : InFlight(admin[s], w) = 0
        /\ Lag(admin[s]) = 0 /\ Uncounted(admin[s]) = 0
    BY <1>3, BeforeIsEmpty
  <2>3. \A w \in Wallets : Slack(s, w) = 0
    BY <1>5, <1>6, <2>2 DEF Slack
  <2>4. StakeSlack(s) = 0
    <3>1. Active = Deposits
      BY DEF Active
    <3> QED  BY <2>2, <3>1, ActiveFacts DEF StakeSlack
  <2>5. TotalSlack(s) = 0
    BY <1>5, <2>2 DEF TotalSlack, AllCompleted
  <2>6. SoloBooks(s)
    BY <1>7, <2>3, <2>4, <2>5 DEF SoloBooks
  <2> QED  BY <2>1, <2>6
<1> QED  BY <1>0, <1>2, <1>8, <1>9, <1>10 DEF IInv, Solo

LEMMA InvNext ==
  ASSUME IInv, [Next]_vars
  PROVE  IInv'
BY StructureKept, PaidCountKept, CoveredKept, BackedKept, SoloKept DEF IInv

LEMMA InvTypes ==
  ASSUME TypeInv
  PROVE  TypeOK
<1>1. RequestTypes /\ MoneyTypes /\ PayoutTypes /\ ClientTypes /\ AdminTypes /\ OtherTypes
  BY DEF TypeInv
<1> QED  BY <1>1 DEF TypeOK, RequestTypes, MoneyTypes, PayoutTypes, ClientTypes, AdminTypes,
     OtherTypes,
              Row, Statuses, Payouts, ClientCalls, Reviews, AdminPcs, Redeeming, Debiting, Undoing

LEMMA InvPaid ==
  ASSUME IInv
  PROVE  PaidOnce
<1> USE DEF IInv, Structure
<1>1. budget.timeouts \in Nat /\ \A i \in DOMAIN request : Cardinality(OutFor(i)) \in Nat
  BY OutForFinite DEF TypeInv, OtherTypes
<1>2. \A i \in DOMAIN request : Cardinality(OutFor(i)) <= 1 + budget.timeouts
  BY <1>1 DEF PaidCount
<1>3. \A w \in Wallets : PaidTo(w) + wallet[w] <= earned[w] + budget.timeouts * MaxEarned
  BY BackedFacts
<1> QED  BY <1>2, <1>3 DEF PaidOnce, OutFor

LEMMA InvBooks ==
  ASSUME IInv
  PROVE  BooksBalance
<1> USE DEF IInv, Structure
<1> SUFFICES ASSUME Cardinality(load.admins) = 1, \A a \in Admins : admin[a].pc = "idle"
             PROVE  /\ \A w \in Wallets : Within(wallet[w], earned[w] - Completed(w), Cut * MaxEarned)
                    /\ Within(staked, Cardinality({d \in Deposits : deposit[d] = "active"}), Cut)
                    /\ Within(totalWithdrawn,
                              Completed("yield") + Completed("referral") + Completed("deposit"),
                              Cut * Larger(1, MaxEarned))
  BY DEF BooksBalance, Cut
<1>1. PICK s \in Admins : load.admins = {s}
  <2>1. load.admins \subseteq Admins /\ IsFiniteSet(load.admins)
    BY LoadFacts, WithdrawalsAssumption, FS_Subset DEF TypeInv
  <2> QED  BY <2>1, FS_Singleton
<1>2. SoloBooks(s)
  BY <1>1 DEF Solo
<1>3. /\ \A w \in Wallets : InFlight(admin[s], w) = 0
      /\ Lag(admin[s]) = 0 /\ Uncounted(admin[s]) = 0
  BY BeforeIsEmpty
<1>4. ASSUME NEW w \in Wallets PROVE wallet[w] - (earned[w] - Completed(w)) = Slack(s, w)
  BY <1>3, SlackFacts, CompletedFacts DEF Slack
<1>5. staked - Cardinality(Active) = StakeSlack(s)
  BY <1>3, SlackFacts, ActiveFacts DEF StakeSlack
<1>6. totalWithdrawn - AllCompleted = TotalSlack(s)
  BY <1>3, SlackFacts DEF TotalSlack
<1> QED  BY <1>2, <1>4, <1>5, <1>6 DEF SoloBooks, Within, Active, AllCompleted

LEMMA InvAlways == Spec => []IInv
BY InvInit, InvNext, PTL DEF Spec

(* Every value has its type, in whatever order requests, approvals, faults *)
(* and restarts come.                                                      *)
THEOREM TypeCorrect == Spec => []TypeOK
<1>1. IInv => TypeOK
  BY InvTypes DEF IInv, Structure
<1> QED  BY <1>1, InvAlways, PTL

(* processWithdrawal claims a request atomically and debits first: no      *)
(* request has two payouts out, and no wallet pays more than it earned,    *)
(* but for one payout for each wait that threw while its payout was out.   *)
THEOREM PaidAtMostOnce == Spec => []PaidOnce
BY InvPaid, InvAlways, PTL

(* With one admin, wallets, vault and the user's total agree with the      *)
(* requests at rest, up to one request for each failed update or restart.  *)
THEOREM BooksMatch == Spec => []BooksBalance
BY InvBooks, InvAlways, PTL

-----------------------------------------------------------------------------
(* One admin: what is rejected was never paid *)

RejectedClean == \A s \in Admins : load.admins = {s} /\ budget.timeouts = 0 =>
  \A i \in DOMAIN request : request[i].status = "rejected" => OutFor(i) = {}

(* Before a wait throws, a row that is still to be paid has no payout out. *)
LEMMA UnpaidIsClean ==
  ASSUME TypeInv, PaidCount, budget.timeouts = 0, NEW i \in DOMAIN request, Unpaid(i)
  PROVE  OutFor(i) = {}
<1>1. Cardinality(OutFor(i)) \in Nat /\ IsFiniteSet(OutFor(i))
  BY OutForFinite DEF TypeInv
<1>2. Cardinality(OutFor(i)) = 0
  BY <1>1 DEF PaidCount
<1> QED  BY <1>1, <1>2, FS_EmptySet

(* The admin rejects a row that is pending, and pays no rejected one. *)
LEMMA ApprovalClean ==
  ASSUME Structure, PaidCount, NEW s \in Admins, SoloStatus(s), Process(s) \/ Fault(s),
         budget.timeouts = 0,
         \A i \in DOMAIN request : request[i].status = "rejected" => OutFor(i) = {}
  PROVE  \A i \in DOMAIN request' : request'[i].status = "rejected" => OutFor(i)' = {}
<1> USE DEF Structure
<1>0. admin[s].pc # "idle" /\ admin[s].request \in DOMAIN request /\ DOMAIN request' = DOMAIN request
  BY ApprovalMoves, ApprovalRows, RowOf
<1>1. CASE SendPayout(s)
  <2>1. PICK r, n : r = admin[s].request /\ n = Len(payout) + 1
    OBVIOUS
  <2>2. /\ At(s, "pay") /\ UNCHANGED request
        /\ payout' = Append(payout, [request |-> r, status |-> "pending"])
    BY <1>1, <2>1 DEF SendPayout
  <2>3. /\ DOMAIN payout' = DOMAIN payout \union {n}
        /\ \A k \in DOMAIN payout : payout'[k] = payout[k]
        /\ payout'[n] = [request |-> r, status |-> "pending"]
    BY <1>0, <2>1, <2>2, PayoutSent DEF TypeInv
  <2>4. request[r].status = "approved"
    BY <2>1, <2>2 DEF SoloStatus, Claimed, Of, At
  <2>5. \A i \in DOMAIN request : i # r => OutFor(i)' = OutFor(i)
    BY <2>3 DEF OutFor, Out
  <2> QED  BY <2>2, <2>4, <2>5
<1>2. CASE ~SendPayout(s)
  <2>1. \A i : OutFor(i)' = OutFor(i)
    BY <1>2, ApprovalPayout, OutForSame
  <2>2. CASE UNCHANGED request
    BY <2>1, <2>2
  <2>3. CASE Reject(s) /\ Mark(s, "rejected")
    <3>1. Unpaid(admin[s].request)
      BY <2>3 DEF Reject, At, SoloStatus, Of, Unpaid
    <3>2. OutFor(admin[s].request) = {}
      BY <1>0, <3>1, UnpaidIsClean
    <3>3. \A i \in DOMAIN request :
            request'[i].status = "rejected" => i = admin[s].request \/ request[i].status = "rejected"
      BY <1>0, <2>3, MarkedStatus DEF Statuses
    <3> QED  BY <1>0, <2>1, <3>2, <3>3
  <2>4. ASSUME NEW st \in Statuses \ {"rejected"}, Mark(s, st)
        PROVE  \A i \in DOMAIN request' : request'[i].status = "rejected" => OutFor(i)' = {}
    <3>1. \A i \in DOMAIN request : request'[i].status = "rejected" => request[i].status = "rejected"
      BY <1>0, <2>4, MarkedStatus
    <3> QED  BY <1>0, <2>1, <3>1
  <2> QED  BY <2>2, <2>3, <2>4, ApprovalMarks DEF Statuses
<1> QED  BY <1>1, <1>2

LEMMA CleanKept ==
  ASSUME IInv, RejectedClean, [Next]_vars
  PROVE  RejectedClean'
<1> USE DEF IInv, Structure
<1>0. UNCHANGED load /\ (budget'.timeouts = 0 => budget.timeouts = 0)
  <2>a. budget.timeouts \in Nat
    BY DEF TypeInv, OtherTypes
  <2>1. ASSUME NEW c \in Clients, Prepares(c) \/ FileRequest(c)
        PROVE  UNCHANGED <<load, budget>>
    BY <2>1, PreparesLeaves DEF AllButClients, FileRequest
  <2>2. ASSUME NEW a \in Admins, Process(a) \/ Fault(a) PROVE UNCHANGED load /\ (budget'.timeouts = 0 => budget.timeouts = 0)
    <3>1. UNCHANGED load
      BY <2>2, ApprovalLeaves
    <3>2. budget'.timeouts = budget.timeouts \/ budget'.timeouts = budget.timeouts + 1
      BY <2>2, ApprovalSpends, SpendTypes DEF TypeInv
    <3> QED  BY <2>a, <3>1, <3>2
  <2>3. ASSUME NEW a \in Admins, Looks(a) PROVE UNCHANGED <<load, budget>>
    BY <2>3, LooksKeep
  <2>4. Around => UNCHANGED load /\ budget'.timeouts = budget.timeouts
    BY SpendTypes DEF Around, Unlink, Crash, Mine, Revert, Earn, TypeInv
  <2> QED  BY <2>1, <2>2, <2>3, <2>4, Steps DEF vars
<1> SUFFICES ASSUME NEW s \in Admins, load.admins = {s}, budget.timeouts = 0
             PROVE  \A i \in DOMAIN request' : request'[i].status = "rejected" => OutFor(i)' = {}
  BY <1>0 DEF RejectedClean
<1>a. \A i \in DOMAIN request : request[i].status = "rejected" => OutFor(i) = {}
  BY DEF RejectedClean
<1>b. ASSUME UNCHANGED <<request, payout>>
      PROVE  \A i \in DOMAIN request' : request'[i].status = "rejected" => OutFor(i)' = {}
  BY <1>a, <1>b, OutForSame
<1>1. ASSUME NEW c \in Clients, Prepares(c)
      PROVE  \A i \in DOMAIN request' : request'[i].status = "rejected" => OutFor(i)' = {}
  BY <1>1, <1>b, PreparesLeaves DEF AllButClients
<1>2. ASSUME NEW c \in Clients, FileRequest(c)
      PROVE  \A i \in DOMAIN request' : request'[i].status = "rejected" => OutFor(i)' = {}
  <2>1. /\ DOMAIN request' = DOMAIN request \union {Len(request) + 1}
        /\ \A i \in DOMAIN request : request'[i] = request[i]
        /\ request'[Len(request) + 1] = NewRow(c) /\ UNCHANGED payout
    BY <1>2, FilesKeep
  <2>2. \A i \in DOMAIN request' : request'[i].status = "rejected" =>
          i \in DOMAIN request /\ request[i].status = "rejected"
    BY <2>1 DEF NewRow
  <2> QED  BY <1>a, <2>1, <2>2, OutForSame
<1>3. ASSUME NEW a \in Admins, Process(a) \/ Fault(a)
      PROVE  \A i \in DOMAIN request' : request'[i].status = "rejected" => OutFor(i)' = {}
  <2>1. a = s /\ SoloStatus(s)
    BY <1>3, SoloActs DEF Solo
  <2> QED  BY <1>3, <1>a, <2>1, ApprovalClean
<1>4. ASSUME NEW a \in Admins, Looks(a)
      PROVE  \A i \in DOMAIN request' : request'[i].status = "rejected" => OutFor(i)' = {}
  BY <1>4, <1>b, LooksKeep
<1>5. CASE Around
  <2>1. ASSUME NEW k \in DOMAIN payout, Mine(k) \/ Revert(k)
        PROVE  \A i \in DOMAIN request' : request'[i].status = "rejected" => OutFor(i)' = {}
    <3>1. PICK st \in {"mined", "reverted"} : payout' = [payout EXCEPT ![k].status = st]
      BY <2>1 DEF Mine, Revert
    <3>2. UNCHANGED request /\ payout[k].status = "pending"
      BY <2>1 DEF Mine, Revert
    <3>3. /\ DOMAIN payout' = DOMAIN payout
          /\ \A j \in DOMAIN payout : payout'[j].status = IF j = k THEN st ELSE payout[j].status
          /\ \A j \in DOMAIN payout : payout'[j].request = payout[j].request
      BY <3>1, <3>2, PayoutMarks DEF TypeInv, KeepsPayouts
    <3>4. \A i : OutFor(i)' \subseteq OutFor(i)
      BY <3>2, <3>3 DEF OutFor, Out
    <3> QED  BY <1>a, <3>2, <3>4
  <2>2. CASE (\E w \in Wallets : Earn(w)) \/ Unlink \/ Crash
    BY <1>b, <2>2 DEF Earn, Unlink, Crash
  <2> QED  BY <1>5, <2>1, <2>2 DEF Around
<1>6. CASE UNCHANGED vars
  BY <1>b, <1>6 DEF vars
<1> QED  BY <1>1, <1>2, <1>3, <1>4, <1>5, <1>6, Steps

LEMMA InvOneAdmin ==
  ASSUME IInv, RejectedClean
  PROVE  OneAdminIsSafe
<1> USE DEF IInv, Structure
<1> SUFFICES ASSUME Cardinality(load.admins) = 1
             PROVE  /\ NoNegativeBalance
                    /\ budget.timeouts = 0 => NeverOverpaid /\ RejectedIsUnpaid
  BY DEF OneAdminIsSafe
<1>1. PICK s \in Admins : load.admins = {s}
  <2>1. load.admins \subseteq Admins /\ IsFiniteSet(load.admins)
    BY LoadFacts, WithdrawalsAssumption, FS_Subset DEF TypeInv
  <2> QED  BY <2>1, FS_Singleton
<1>2. \A w \in Wallets : wallet[w] >= 0
  BY <1>1 DEF Solo, SoloWallet
<1>3. ASSUME budget.timeouts = 0, NEW w \in Wallets PROVE PaidTo(w) <= earned[w]
  <2>1. MaxEarned \in Nat /\ budget.timeouts * MaxEarned = 0
    BY <1>3, WithdrawalsAssumption
  <2>2. /\ wallet[w] \in Int /\ earned[w] \in Int /\ PaidTo(w) \in Nat
        /\ SumOver(Admins, Due(w)) \in Nat
        /\ PaidTo(w) + wallet[w] + SumOver(Admins, Due(w)) <= earned[w] + budget.timeouts * MaxEarned
    BY BackedFacts
  <2>3. wallet[w] >= 0
    BY <1>2
  <2> QED  BY <2>1, <2>2, <2>3
<1>4. ASSUME budget.timeouts = 0 PROVE RejectedIsUnpaid
  <2>1. \A k \in DOMAIN payout : payout[k].request \in DOMAIN request
    BY PayoutFacts DEF TypeInv, Payouts
  <2> QED  BY <1>1, <1>4, <2>1 DEF RejectedClean, RejectedIsUnpaid, OutFor
<1> QED  BY <1>2, <1>3, <1>4 DEF NoNegativeBalance, NeverOverpaid

(* With one admin at work no balance turns negative, although the hook of  *)
(* user.model.ts reads the row before the update is sent; and as long as   *)
(* no wait threw while its payout was out, nothing beyond what was earned  *)
(* is paid and no rejected request was.                                    *)
THEOREM OneAdminSafe == Spec => []OneAdminIsSafe
<1>1. Init => RejectedClean
  BY DEF Init, RejectedClean
<1>2. IInv /\ RejectedClean /\ [Next]_vars => RejectedClean'
  BY CleanKept
<1>3. IInv /\ RejectedClean => OneAdminIsSafe
  BY InvOneAdmin
<1> QED  BY <1>1, <1>2, <1>3, InvAlways, PTL DEF Spec

-----------------------------------------------------------------------------
(* The chain outbox *)

JobStatuses == {"pending", "processing", "failed"}
Jobs == [user : Users, principal : 0..MaxPrincipal, status : JobStatuses, attempts : 0..MaxAttempts]

QueueTypes ==
  /\ DOMAIN job \subseteq 1..MaxJobs /\ job \in [DOMAIN job -> Jobs]
  /\ \A j \in DOMAIN job : Live(j) => job[j].attempts < MaxAttempts

OneLive ==
  \A j, k \in DOMAIN job : Live(j) /\ Live(k) /\ job[j].user = job[k].user => j = k

Sending == {"send", "markDone", "markFailed"}

WorkerHolds ==
  /\ worker \in [pc : {"idle", "claim"} \union Sending, job : Nat, principal : 0..MaxPrincipal,
                 attempts : 0..MaxAttempts, left : 0..Batch]
  /\ worker.pc \notin Sending => worker.job = 0
  /\ worker.pc \in Sending =>
       worker.job \in DOMAIN job /\ Live(worker.job) /\ worker.attempts < MaxAttempts

(* A row the worker sends still carries what was claimed, or was refreshed. *)
Attested ==
  worker.pc \in Sending =>
    /\ job[worker.job].status = "processing" => job[worker.job].principal = worker.principal
    /\ worker.pc = "markDone" => chain[job[worker.job].user] = worker.principal

EnqueueTypes ==
  enqueue \in [Enqueuers -> [pc : {"idle", "compute", "upsert"}, user : Users,
                             principal : 0..MaxPrincipal]]

Snapshots ==
  /\ principal \in [Users -> 0..MaxPrincipal] /\ chain \in [Users -> 0..MaxPrincipal]
  /\ todo \in [users : SUBSET Users, principal : [Users -> 0..MaxPrincipal]]

OutboxInv == QueueTypes /\ OneLive /\ WorkerHolds /\ Attested /\ EnqueueTypes /\ Snapshots

-----------------------------------------------------------------------------
(* The rows *)

LEMMA OutboxDefaults ==
  /\ NoEnqueue \in [pc : {"idle", "compute", "upsert"}, user : Users, principal : 0..MaxPrincipal]
  /\ NoRows \in [users : SUBSET Users, principal : [Users -> 0..MaxPrincipal]]
  /\ Idle \in [pc : {"idle", "claim"} \union Sending, job : Nat, principal : 0..MaxPrincipal,
               attempts : 0..MaxAttempts, left : 0..Batch]
  /\ MaxAttempts \in Nat \ {0} /\ Batch \in Nat \ {0} /\ MaxPrincipal \in Nat /\ MaxJobs \in Nat
<1>1. MaxAttempts \in Nat \ {0} /\ Batch \in Nat \ {0} /\ MaxPrincipal \in Nat /\ MaxJobs \in Nat
  BY OutboxAssumption
<1>2. (CHOOSE u \in Users : TRUE) \in Users
  BY OutboxAssumption
<1>3. NoRows \in [users : SUBSET Users, principal : [Users -> 0..MaxPrincipal]]
  BY <1>1 DEF NoRows
<1> QED  BY <1>1, <1>2, <1>3 DEF NoEnqueue, Idle

(* The rows of a queue keep their parts apart: a row is live or failed, and *)
(* a live one has attempts left.                                           *)
LEMMA JobOf ==
  ASSUME QueueTypes, NEW j \in DOMAIN job
  PROVE  /\ job[j] \in Jobs /\ job[j].user \in Users /\ job[j].principal \in 0..MaxPrincipal
         /\ job[j].attempts \in 0..MaxAttempts /\ (Live(j) => job[j].attempts < MaxAttempts)
         /\ (~Live(j) => job[j].status = "failed")
  BY DEF QueueTypes, Jobs, JobStatuses, Live

LEMMA AtMostOneLive ==
  ASSUME QueueTypes, OneLive, NEW u
  PROVE  Cardinality(LiveJobs(u)) <= 1
<1>1. CASE LiveJobs(u) = {}
  BY <1>1, FS_EmptySet
<1>2. ASSUME NEW j \in LiveJobs(u) PROVE Cardinality(LiveJobs(u)) <= 1
  <2>1. \A k \in LiveJobs(u) : k = j
    BY <1>2 DEF OneLive, LiveJobs
  <2>2. LiveJobs(u) = {j}
    BY <1>2, <2>1
  <2>3. Cardinality({j}) = 1
    BY FS_Singleton
  <2> QED  BY <2>2, <2>3
<1> QED  BY <1>1, <1>2

LEMMA OutboxInvMeans == OutboxInv => OutboxTypeOK
<1> SUFFICES ASSUME OutboxInv PROVE OutboxTypeOK
  OBVIOUS
<1>1. QueueTypes /\ OneLive /\ WorkerHolds /\ EnqueueTypes /\ Snapshots
  BY DEF OutboxInv
<1>2. \A u \in Users : Cardinality(LiveJobs(u)) <= 1
  BY <1>1, AtMostOneLive
<1>3. worker.job \in {0} \union DOMAIN job
  BY <1>1 DEF WorkerHolds
<1>4. worker \in [pc : {"idle", "claim", "send", "markDone", "markFailed"},
                  job : {0} \union DOMAIN job, principal : 0..MaxPrincipal,
                  attempts : 0..MaxAttempts, left : 0..Batch]
  BY <1>1, <1>3 DEF WorkerHolds, Sending
<1>5. \A j \in DOMAIN job :
        job[j] \in [user : Users, principal : 0..MaxPrincipal,
                    status : {"pending", "processing", "failed"}, attempts : 0..MaxAttempts]
  BY <1>1, JobOf DEF Jobs, JobStatuses
<1> QED  BY <1>1, <1>2, <1>4, <1>5 DEF OutboxTypeOK, QueueTypes, EnqueueTypes, Snapshots

LEMMA NewJob ==
  ASSUME NEW u \in Users, NEW n \in 0..MaxPrincipal, NEW row,
         row = [NoJob EXCEPT !.user = u, !.principal = n]
  PROVE  row \in Jobs /\ row.user = u /\ row.status = "pending" /\ row.attempts < MaxAttempts
<1> DEFINE w == CHOOSE v \in Users : TRUE
<1>1. NoJob = [user |-> w, principal |-> 0, status |-> "pending", attempts |-> 0]
  BY DEF NoJob
<1>2. w \in Users
  BY OutboxAssumption
<1>3. 0 \in 0..MaxPrincipal /\ 0 \in 0..MaxAttempts /\ 0 < MaxAttempts
  BY OutboxDefaults
<1> HIDE DEF w
<1>4. NoJob \in Jobs /\ NoJob.status = "pending" /\ NoJob.attempts = 0
  BY <1>1, <1>2, <1>3 DEF Jobs, JobStatuses
<1> QED  BY <1>3, <1>4 DEF Jobs, JobStatuses

(* A new row has a number of its own: there is one while rows are left.    *)
LEMMA InsertKeeps ==
  ASSUME QueueTypes, OneLive, NEW u \in Users, NEW n \in 0..MaxPrincipal,
         LiveJobs(u) = {}, Cardinality(DOMAIN job) < MaxJobs, job' = Inserted(u, n)
  PROVE  /\ QueueTypes' /\ OneLive'
         /\ \A j \in DOMAIN job : j \in DOMAIN job' /\ job'[j] = job[j]
<1> DEFINE new == CHOOSE j \in 1..MaxJobs : j \notin DOMAIN job
           row == [NoJob EXCEPT !.user = u, !.principal = n]
<1>1. MaxJobs \in Nat /\ MaxAttempts \in Nat \ {0}
  BY OutboxDefaults
<1>2. \E j \in 1..MaxJobs : j \notin DOMAIN job
  <2>1. IsFiniteSet(1..MaxJobs) /\ Cardinality(1..MaxJobs) = MaxJobs
    BY <1>1, FS_Interval
  <2>2. DOMAIN job \subseteq 1..MaxJobs
    BY DEF QueueTypes
  <2> SUFFICES ASSUME 1..MaxJobs \subseteq DOMAIN job PROVE FALSE
    OBVIOUS
  <2>3. DOMAIN job = 1..MaxJobs
    BY <2>2
  <2> QED  BY <1>1, <2>1, <2>3
<1>3. new \in 1..MaxJobs /\ new \notin DOMAIN job
  BY <1>2
<1>5. row \in Jobs /\ row.user = u /\ row.status = "pending" /\ row.attempts < MaxAttempts
  BY NewJob
<1>6. job' = [j \in DOMAIN job \union {new} |-> IF j = new THEN row ELSE job[j]]
  BY DEF Inserted
<1> HIDE DEF new, row
<1>7. DOMAIN job' = DOMAIN job \union {new} /\ job'[new] = row
  BY <1>6
<1>8. \A j \in DOMAIN job : j \in DOMAIN job' /\ job'[j] = job[j]
  BY <1>3, <1>6
<1>9. QueueTypes'
  <2>1. DOMAIN job' \subseteq 1..MaxJobs
    BY <1>3, <1>7 DEF QueueTypes
  <2>2. ASSUME NEW j \in DOMAIN job'
        PROVE  job'[j] \in Jobs /\ (Live(j)' => job'[j].attempts < MaxAttempts)
    <3>1. CASE j = new
      BY <1>5, <1>7, <3>1
    <3>2. CASE j \in DOMAIN job
      BY <1>8, <3>2, JobOf DEF Live
    <3> QED  BY <1>7, <3>1, <3>2
  <2>3. job' \in [DOMAIN job' -> Jobs]
    BY <1>6, <2>2
  <2> QED  BY <2>1, <2>2, <2>3 DEF QueueTypes
<1>10. OneLive'
  <2>1. \A j \in DOMAIN job : Live(j) => job[j].user # u
    BY DEF LiveJobs
  <2>2. \A j \in DOMAIN job : Live(j)' = Live(j)
    BY <1>8 DEF Live
  <2> QED  BY <1>5, <1>7, <1>8, <2>1, <2>2 DEF OneLive
<1> QED  BY <1>8, <1>9, <1>10

(* Steps that make no row live and leave the others their user.            *)
LEMMA JobsChange ==
  ASSUME QueueTypes, OneLive, job' \in [DOMAIN job -> Jobs],
         \A j \in DOMAIN job : /\ job'[j].user = job[j].user /\ (Live(j)' => Live(j))
                               /\ (Live(j)' => job'[j].attempts < MaxAttempts)
  PROVE  QueueTypes' /\ OneLive'
<1>1. DOMAIN job' = DOMAIN job
  OBVIOUS
<1> QED  BY <1>1 DEF QueueTypes, OneLive

LEMMA JobsLeft ==
  ASSUME QueueTypes, OneLive, NEW S \in SUBSET DOMAIN job, job' = [j \in S |-> job[j]]
  PROVE  QueueTypes' /\ OneLive'
<1>1. DOMAIN job' = S /\ \A j \in S : job'[j] = job[j] /\ Live(j)' = Live(j)
  BY DEF Live
<1>2. \A j \in S : job[j] \in Jobs
  BY JobOf
<1> QED  BY <1>1, <1>2 DEF QueueTypes, OneLive

(* The admin's rows are of wallets without a live job, one of each wallet. *)
LEMMA RetryKeeps ==
  ASSUME QueueTypes, OneLive, RetryFailed
  PROVE  /\ QueueTypes' /\ OneLive'
         /\ \A j \in DOMAIN job : j \in DOMAIN job' /\ (Live(j) => job'[j] = job[j] /\ Live(j)')
<1>0. PICK S \in SUBSET Failed :
      /\ Requeueable(S)
      /\ job' = [j \in DOMAIN job |->
                   IF j \in S THEN [job[j] EXCEPT !.status = "pending", !.attempts = 0]
                   ELSE job[j]]
  BY DEF RetryFailed
<1>1. DOMAIN job' = DOMAIN job
  BY <1>0
<1>2. 0 \in 0..MaxAttempts /\ 0 < MaxAttempts
  <2>1. MaxAttempts \in Nat \ {0}
    BY OutboxDefaults
  <2> QED  BY <2>1
<1>3. ASSUME NEW j \in DOMAIN job
      PROVE  /\ job'[j] \in Jobs /\ job'[j].user = job[j].user
             /\ (Live(j)' => job'[j].attempts < MaxAttempts)
             /\ (j \notin S => job'[j] = job[j] /\ Live(j)' = Live(j))
  <2>1. CASE j \in S
    <3>1. job'[j] = [job[j] EXCEPT !.status = "pending", !.attempts = 0]
      BY <1>0, <2>1
    <3> QED  BY <1>2, <2>1, <3>1, JobOf DEF Jobs, JobStatuses
  <2>2. CASE j \notin S
    <3>1. job'[j] = job[j]
      BY <1>0, <2>2
    <3> QED  BY <3>1, JobOf DEF Live
  <2> QED  BY <2>1, <2>2
<1>4. \A j \in S : j \in DOMAIN job /\ ~Live(j)
  BY DEF Failed, Live
<1>5. ASSUME NEW j \in DOMAIN job, NEW k \in DOMAIN job, Live(j)', Live(k)',
             job'[j].user = job'[k].user
      PROVE  j = k
  <2>1. job[j].user = job[k].user
    BY <1>3, <1>5
  <2>2. CASE j \in S
    BY <1>0, <1>3, <1>5, <2>1, <2>2 DEF Requeueable, LiveJobs
  <2>3. CASE k \in S
    BY <1>0, <1>3, <1>5, <2>1, <2>3 DEF Requeueable, LiveJobs
  <2>4. CASE j \notin S /\ k \notin S
    BY <1>3, <1>5, <2>1, <2>4 DEF OneLive
  <2> QED  BY <2>2, <2>3, <2>4
<1>6. QueueTypes'
  BY <1>0, <1>1, <1>3 DEF QueueTypes
<1> QED  BY <1>1, <1>3, <1>4, <1>5, <1>6 DEF OneLive

(* Every step keeps the rows typed and one live job per wallet.            *)
LEMMA QueueStep ==
  ASSUME OutboxInv, [OutboxNext]_outboxVars
  PROVE  QueueTypes' /\ OneLive'
<1>1. QueueTypes /\ OneLive /\ WorkerHolds /\ EnqueueTypes
  BY DEF OutboxInv
<1>2. CASE UNCHANGED job
  BY <1>1, <1>2 DEF QueueTypes, OneLive, Live
<1>3. ASSUME NEW c \in Enqueuers, Upsert(c) PROVE QueueTypes' /\ OneLive'
  <2>1. enqueue[c].user \in Users /\ enqueue[c].principal \in 0..MaxPrincipal
    BY <1>1 DEF EnqueueTypes
  <2>2. CASE LiveJobs(enqueue[c].user) = {} /\ Cardinality(DOMAIN job) < MaxJobs
             /\ job' = Inserted(enqueue[c].user, enqueue[c].principal)
    BY <1>1, <2>1, <2>2, InsertKeeps
  <2>3. ASSUME NEW j \in LiveJobs(enqueue[c].user),
               job' = [job EXCEPT ![j].principal = enqueue[c].principal, ![j].status = "pending"]
        PROVE  QueueTypes' /\ OneLive'
    <3>1. j \in DOMAIN job /\ Live(j)
      BY <2>3 DEF LiveJobs
    <3>2. job' = [job EXCEPT ![j] = [@ EXCEPT !.principal = enqueue[c].principal,
                                             !.status = "pending"]]
      BY <2>3, <3>1
    <3>3. ASSUME NEW k \in DOMAIN job
          PROVE  /\ job'[k] \in Jobs /\ job'[k].user = job[k].user
                 /\ (Live(k)' => Live(k)) /\ (Live(k)' => job'[k].attempts < MaxAttempts)
      <4>1. CASE k = j
        BY <1>1, <2>1, <3>1, <3>2, <4>1, JobOf DEF Jobs, JobStatuses
      <4>2. CASE k # j
        BY <1>1, <3>2, <4>2, JobOf DEF Live
      <4> QED  BY <4>1, <4>2
    <3>4. job' \in [DOMAIN job -> Jobs]
      BY <3>2, <3>3
    <3> QED  BY <1>1, <3>3, <3>4, JobsChange
  <2> QED  BY <1>3, <2>2, <2>3 DEF Upsert
<1>4. CASE StartTick
  <2>1. job' = [j \in DOMAIN job |->
                  IF job[j].status = "processing" THEN [job[j] EXCEPT !.status = "pending"]
                  ELSE job[j]]
    BY <1>4 DEF StartTick
  <2>2. ASSUME NEW k \in DOMAIN job
        PROVE  /\ job'[k] \in Jobs /\ job'[k].user = job[k].user
               /\ (Live(k)' => Live(k)) /\ (Live(k)' => job'[k].attempts < MaxAttempts)
    <3>1. CASE job[k].status = "processing"
      <4>1. job'[k] = [job[k] EXCEPT !.status = "pending"] /\ Live(k)
        BY <2>1, <3>1 DEF Live
      <4> QED  BY <1>1, <4>1, JobOf DEF Jobs, JobStatuses
    <3>2. CASE job[k].status # "processing"
      <4>1. job'[k] = job[k]
        BY <2>1, <3>2
      <4> QED  BY <1>1, <4>1, JobOf DEF Live
    <3> QED  BY <3>1, <3>2
  <2>3. job' \in [DOMAIN job -> Jobs]
    BY <2>1, <2>2
  <2> QED  BY <1>1, <2>2, <2>3, JobsChange
<1>5. ASSUME NEW j \in DOMAIN job, ClaimJob(j) PROVE QueueTypes' /\ OneLive'
  <2>1. job' = [job EXCEPT ![j] = [@ EXCEPT !.status = "processing"]] /\ Live(j)
    BY <1>5 DEF ClaimJob, Live
  <2>2. ASSUME NEW k \in DOMAIN job
        PROVE  /\ job'[k] \in Jobs /\ job'[k].user = job[k].user
               /\ (Live(k)' => Live(k)) /\ (Live(k)' => job'[k].attempts < MaxAttempts)
    <3>1. CASE k = j
      BY <1>1, <2>1, <3>1, JobOf DEF Jobs, JobStatuses
    <3>2. CASE k # j
      BY <1>1, <2>1, <3>2, JobOf DEF Live
    <3> QED  BY <3>1, <3>2
  <2>3. job' \in [DOMAIN job -> Jobs]
    BY <2>1, <2>2
  <2> QED  BY <1>1, <2>2, <2>3, JobsChange
<1>6. CASE MarkDone
  <2>1. job' = [j \in DOMAIN job \ {worker.job} |-> job[j]]
    BY <1>6 DEF MarkDone, Restrict
  <2> QED  BY <1>1, <2>1, JobsLeft
<1>7. CASE MarkFailed
  <2> DEFINE j == worker.job
             over == worker.attempts + 1 >= MaxAttempts
  <2>1. j \in DOMAIN job /\ Live(j) /\ worker.attempts < MaxAttempts /\ worker.attempts \in 0..MaxAttempts
    BY <1>1, <1>7 DEF MarkFailed, WorkerHolds, Sending
  <2>2. MaxAttempts \in Nat
    BY OutboxDefaults
  <2>3. worker.attempts + 1 \in 0..MaxAttempts /\ (~over => worker.attempts + 1 < MaxAttempts)
    BY <2>1, <2>2
  <2> HIDE DEF over
  <2>4. job' = [job EXCEPT ![j] = [@ EXCEPT !.status = IF over THEN "failed" ELSE "pending",
                                          !.attempts = worker.attempts + 1]]
    BY <1>7, <2>1 DEF MarkFailed, over
  <2>5. ASSUME NEW k \in DOMAIN job
        PROVE  /\ job'[k] \in Jobs /\ job'[k].user = job[k].user
               /\ (Live(k)' => Live(k)) /\ (Live(k)' => job'[k].attempts < MaxAttempts)
    <3>1. CASE k = j
      <4>1. job[k] \in Jobs
        BY <1>1, JobOf
      <4>2. job'[k] = [job[k] EXCEPT !.status = IF over THEN "failed" ELSE "pending",
                                    !.attempts = worker.attempts + 1]
        BY <2>4, <3>1
      <4>3. Live(k)' => ~over
        BY <4>1, <4>2 DEF Live, Jobs
      <4>4. job'[k] \in Jobs /\ job'[k].user = job[k].user /\ job'[k].attempts = worker.attempts + 1
        BY <2>3, <4>1, <4>2 DEF Jobs, JobStatuses
      <4> QED  BY <2>1, <2>3, <3>1, <4>3, <4>4
    <3>2. CASE k # j
      BY <1>1, <2>4, <3>2, JobOf DEF Live
    <3> QED  BY <3>1, <3>2
  <2>6. job' \in [DOMAIN job -> Jobs]
    BY <2>4, <2>5
  <2> QED  BY <1>1, <2>5, <2>6, JobsChange
<1>8. CASE RetryFailed
  BY <1>1, <1>8, RetryKeeps
<1>9. ASSUME NEW c \in Enqueuers, ComputePosition(c) \/ EnqueueThrows(c) PROVE UNCHANGED job
  BY <1>9 DEF ComputePosition, EnqueueThrows
<1>10. ASSUME NEW u \in Users, ReconcileUser(u) \/ ReconcileUnread(u) PROVE UNCHANGED job
  BY <1>10 DEF ReconcileUser, ReconcileUnread
<1>11. ASSUME NEW c \in Callers, NEW u \in Users, NEW delta, ChangePosition(c, u, delta)
       PROVE  UNCHANGED job
  BY <1>11 DEF ChangePosition
<1>12. CASE EndTick \/ Attest \/ AttestThrows \/ StartReconcile \/ OutboxCrash \/ UNCHANGED outboxVars
  BY <1>2, <1>12 DEF EndTick, Attest, AttestThrows, StartReconcile, OutboxCrash, outboxVars
<1> QED
  BY <1>2, <1>3, <1>4, <1>5, <1>6, <1>7, <1>8, <1>9, <1>10, <1>11, <1>12
  DEF OutboxNext, Enqueue, Worker, Reconcile

(* The row the worker has claimed stays in the queue and live until the     *)
(* worker marks it: only he removes rows or gives up on them.              *)
Stays(j) ==
  /\ j \in DOMAIN job' /\ Live(j)' /\ job'[j].user = job[j].user
  /\ job'[j].status = "processing" => job'[j] = job[j]

LEMMA ClaimedRowStays ==
  ASSUME OutboxInv, [OutboxNext]_outboxVars, UNCHANGED worker,
         NEW j \in DOMAIN job, Live(j), worker.job = j, worker.pc \in Sending
  PROVE  Stays(j)
<1>1. QueueTypes /\ OneLive /\ EnqueueTypes
  BY DEF OutboxInv
<1>2. CASE UNCHANGED job
  BY <1>2 DEF Live, Stays
<1>3. ASSUME NEW c \in Enqueuers, Upsert(c) PROVE Stays(j)
  <2>1. enqueue[c].user \in Users /\ enqueue[c].principal \in 0..MaxPrincipal
    BY <1>1 DEF EnqueueTypes
  <2>2. CASE LiveJobs(enqueue[c].user) = {} /\ Cardinality(DOMAIN job) < MaxJobs
             /\ job' = Inserted(enqueue[c].user, enqueue[c].principal)
    BY <1>1, <2>1, <2>2, InsertKeeps DEF Live, Stays
  <2>3. ASSUME NEW k \in LiveJobs(enqueue[c].user),
               job' = [job EXCEPT ![k].principal = enqueue[c].principal, ![k].status = "pending"]
        PROVE  Stays(j)
    <3>1. k \in DOMAIN job
      BY <2>3 DEF LiveJobs
    <3>2. job' = [job EXCEPT ![k] = [@ EXCEPT !.principal = enqueue[c].principal,
                                             !.status = "pending"]]
      BY <2>3, <3>1
    <3>3. CASE k = j
      BY <1>1, <3>1, <3>2, <3>3, JobOf DEF Live, Jobs, Stays
    <3>4. CASE k # j
      BY <3>2, <3>4 DEF Live, Stays
    <3> QED  BY <3>3, <3>4
  <2> QED  BY <1>3, <2>2, <2>3 DEF Upsert
<1>4. CASE RetryFailed
  BY <1>1, <1>4, RetryKeeps DEF Stays
<1>5. ASSUME NEW c \in Enqueuers, ComputePosition(c) \/ EnqueueThrows(c) PROVE UNCHANGED job
  BY <1>5 DEF ComputePosition, EnqueueThrows
<1>6. ASSUME NEW u \in Users, ReconcileUser(u) \/ ReconcileUnread(u) PROVE UNCHANGED job
  BY <1>6 DEF ReconcileUser, ReconcileUnread
<1>7. ASSUME NEW c \in Callers, NEW u \in Users, NEW delta, ChangePosition(c, u, delta)
      PROVE  UNCHANGED job
  BY <1>7 DEF ChangePosition
<1>8. CASE StartReconcile \/ OutboxCrash \/ UNCHANGED outboxVars \/ EndTick \/ Attest \/ AttestThrows
  <2>1. UNCHANGED job
    BY <1>8 DEF StartReconcile, OutboxCrash, outboxVars, EndTick, Attest, AttestThrows
  <2> QED  BY <1>2, <2>1
<1>9. WorkerHolds
  BY DEF OutboxInv
<1>10. ~StartTick
  BY DEF StartTick, Sending
<1>11. \A k \in DOMAIN job : ~ClaimJob(k)
  BY DEF ClaimJob, Sending
<1>12. ~MarkDone /\ ~MarkFailed
  <2>2. ASSUME MarkDone \/ MarkFailed PROVE FALSE
    <3>1. worker'.pc = "claim"
      BY <2>2 DEF MarkDone, MarkFailed, Idle
    <3> QED  BY <3>1 DEF Sending
  <2> QED  BY <2>2
<1> QED
  BY <1>2, <1>3, <1>4, <1>5, <1>6, <1>7, <1>8, <1>10, <1>11, <1>12
  DEF OutboxNext, Enqueue, Worker, Reconcile

LEMMA WorkerStep ==
  ASSUME OutboxInv, [OutboxNext]_outboxVars
  PROVE  WorkerHolds'
<1>0. QueueTypes /\ WorkerHolds
  BY DEF OutboxInv
<1>1. CASE UNCHANGED worker
  <2>1. ASSUME worker.pc \in Sending
        PROVE  worker.job \in DOMAIN job' /\ Live(worker.job)'
    BY <1>0, <1>1, <2>1, ClaimedRowStays DEF WorkerHolds, Stays
  <2> QED  BY <1>0, <1>1, <2>1 DEF WorkerHolds, Live
<1>2. CASE StartTick \/ EndTick \/ MarkDone \/ MarkFailed \/ OutboxCrash
  <2>1. worker.left \in 0..Batch /\ Batch \in 0..Batch
    BY <1>0, OutboxDefaults DEF WorkerHolds
  <2>2. CASE EndTick \/ OutboxCrash
    <3>1. worker' = Idle /\ Idle.pc = "idle" /\ Idle.job = 0
      BY <2>2 DEF EndTick, OutboxCrash, Idle
    <3> QED  BY <3>1, OutboxDefaults DEF WorkerHolds, Sending
  <2>3. CASE StartTick \/ MarkDone \/ MarkFailed
    <3>1. PICK n \in 0..Batch : worker' = [Idle EXCEPT !.pc = "claim", !.left = n]
      BY <2>1, <2>3 DEF StartTick, MarkDone, MarkFailed
    <3>2. worker'.pc = "claim" /\ worker'.job = 0
      BY <3>1 DEF Idle
    <3> QED  BY <3>1, <3>2, OutboxDefaults DEF WorkerHolds, Sending
  <2> QED  BY <1>2, <2>2, <2>3
<1>3. CASE Attest \/ AttestThrows
  <2>1. UNCHANGED job /\ worker.pc = "send"
        /\ (worker' = [worker EXCEPT !.pc = "markDone"] \/ worker' = [worker EXCEPT !.pc = "markFailed"])
    BY <1>3 DEF Attest, AttestThrows
  <2> QED  BY <1>0, <2>1 DEF WorkerHolds, Sending, Live
<1>4. ASSUME NEW j \in DOMAIN job, ClaimJob(j) PROVE WorkerHolds'
  <2>1. job[j].principal \in 0..MaxPrincipal /\ job[j].attempts \in 0..MaxAttempts
        /\ job[j].attempts < MaxAttempts
    BY <1>0, <1>4, JobOf DEF ClaimJob, Live
  <2>2. worker.left - 1 \in 0..Batch
    BY <1>0, <1>4, OutboxDefaults DEF ClaimJob, WorkerHolds
  <2>3. worker' = [pc |-> "send", job |-> j, principal |-> job[j].principal,
                   attempts |-> job[j].attempts, left |-> worker.left - 1]
    BY <1>4 DEF ClaimJob
  <2>4. j \in Nat
    BY <1>0, OutboxDefaults DEF QueueTypes
  <2>5. j \in DOMAIN job' /\ Live(j)'
    BY <1>0, <1>4, JobOf DEF ClaimJob, Live, Jobs
  <2> QED  BY <2>1, <2>2, <2>3, <2>4, <2>5 DEF WorkerHolds, Sending
<1>5. ASSUME NEW c \in Enqueuers, ComputePosition(c) \/ Upsert(c) \/ EnqueueThrows(c)
      PROVE  UNCHANGED worker
  BY <1>5 DEF ComputePosition, Upsert, EnqueueThrows
<1>6. ASSUME NEW u \in Users, ReconcileUser(u) \/ ReconcileUnread(u) PROVE UNCHANGED worker
  BY <1>6 DEF ReconcileUser, ReconcileUnread
<1>7. ASSUME NEW c \in Callers, NEW u \in Users, NEW delta, ChangePosition(c, u, delta)
      PROVE  UNCHANGED worker
  BY <1>7 DEF ChangePosition
<1>8. CASE StartReconcile \/ RetryFailed \/ UNCHANGED outboxVars
  BY <1>1, <1>8 DEF StartReconcile, RetryFailed, outboxVars
<1> QED
  BY <1>1, <1>2, <1>3, <1>4, <1>5, <1>6, <1>7, <1>8 DEF OutboxNext, Enqueue, Worker, Reconcile

LEMMA AttestedStep ==
  ASSUME OutboxInv, [OutboxNext]_outboxVars
  PROVE  Attested'
<1>0. QueueTypes /\ WorkerHolds /\ Attested /\ Snapshots
  BY DEF OutboxInv
<1>1. CASE UNCHANGED <<worker, chain>>
  <2>1. ASSUME worker.pc \in Sending PROVE Stays(worker.job)
    BY <1>0, <1>1, <2>1, ClaimedRowStays DEF WorkerHolds
  <2>2. ASSUME worker.pc \in Sending, Stays(worker.job) PROVE Attested'
    BY <1>0, <1>1, <2>2 DEF Attested, Stays
  <2>3. CASE worker.pc \notin Sending
    BY <1>1, <2>3 DEF Attested
  <2> QED  BY <2>1, <2>2, <2>3
<1>2. CASE StartTick \/ EndTick \/ MarkDone \/ MarkFailed \/ OutboxCrash
  <2>1. CASE EndTick \/ OutboxCrash
    <3>1. worker'.pc = "idle"
      BY <2>1 DEF EndTick, OutboxCrash, Idle
    <3> QED  BY <3>1 DEF Attested, Sending
  <2>2. CASE StartTick \/ MarkDone \/ MarkFailed
    <3>1. \E n : worker' = [Idle EXCEPT !.pc = "claim", !.left = n]
      BY <2>2 DEF StartTick, MarkDone, MarkFailed
    <3>2. worker'.pc = "claim"
      BY <3>1 DEF Idle
    <3> QED  BY <3>2 DEF Attested, Sending
  <2> QED  BY <1>2, <2>1, <2>2
<1>3. CASE Attest
  <2>1. job[worker.job].user \in Users /\ worker.pc = "send"
    BY <1>0, <1>3, JobOf DEF Attest, WorkerHolds, Sending
  <2>2. /\ UNCHANGED job /\ worker' = [worker EXCEPT !.pc = "markDone"]
        /\ chain' = [chain EXCEPT ![job[worker.job].user] = worker.principal]
    BY <1>3 DEF Attest
  <2>3. worker'.job = worker.job /\ worker'.principal = worker.principal
    BY <1>0, <2>2 DEF WorkerHolds
  <2>4. chain'[job[worker.job].user] = worker.principal
    BY <1>0, <2>1, <2>2 DEF Snapshots
  <2> QED  BY <1>0, <2>1, <2>2, <2>3, <2>4 DEF Attested, Sending
<1>4. CASE AttestThrows
  <2>1. worker.pc = "send" /\ UNCHANGED job /\ worker' = [worker EXCEPT !.pc = "markFailed"]
    BY <1>4 DEF AttestThrows
  <2>2. worker'.job = worker.job /\ worker'.principal = worker.principal
        /\ worker'.pc = "markFailed"
    BY <1>0, <2>1 DEF WorkerHolds
  <2> QED  BY <1>0, <2>1, <2>2 DEF Attested, Sending
<1>5. ASSUME NEW j \in DOMAIN job, ClaimJob(j) PROVE Attested'
  <2>1. worker'.job = j /\ worker'.principal = job[j].principal /\ worker'.pc = "send"
    BY <1>5 DEF ClaimJob
  <2>2. job'[j].principal = job[j].principal
    BY <1>0, <1>5, JobOf DEF ClaimJob, Jobs
  <2> QED  BY <2>1, <2>2 DEF Attested
<1>6. ASSUME NEW c \in Enqueuers, ComputePosition(c) \/ Upsert(c) \/ EnqueueThrows(c)
      PROVE  UNCHANGED <<worker, chain>>
  BY <1>6 DEF ComputePosition, Upsert, EnqueueThrows
<1>7. ASSUME NEW u \in Users, ReconcileUser(u) \/ ReconcileUnread(u) PROVE UNCHANGED <<worker, chain>>
  BY <1>7 DEF ReconcileUser, ReconcileUnread
<1>8. ASSUME NEW c \in Callers, NEW u \in Users, NEW delta, ChangePosition(c, u, delta)
      PROVE  UNCHANGED <<worker, chain>>
  BY <1>8 DEF ChangePosition
<1>9. CASE StartReconcile \/ RetryFailed \/ UNCHANGED outboxVars
  <2>1. UNCHANGED <<worker, chain>>
    BY <1>9 DEF StartReconcile, RetryFailed, outboxVars
  <2> QED  BY <1>1, <2>1
<1> QED
  BY <1>1, <1>2, <1>3, <1>4, <1>5, <1>6, <1>7, <1>8, <1>9 DEF OutboxNext, Enqueue, Worker, Reconcile

(* Only the worker's mark removes a row.                                   *)
LEMMA JobsLeaveDone ==
  ASSUME OutboxInv, [OutboxNext]_outboxVars, NEW j \in DOMAIN job, j \notin DOMAIN job'
  PROVE  MarkDone /\ j = worker.job
<1>0. QueueTypes /\ OneLive /\ EnqueueTypes
  BY DEF OutboxInv
<1>1. ASSUME UNCHANGED job PROVE FALSE
  BY <1>1
<1>2. ASSUME NEW c \in Enqueuers, Upsert(c) PROVE FALSE
  <2>1. enqueue[c].user \in Users /\ enqueue[c].principal \in 0..MaxPrincipal
    BY <1>0 DEF EnqueueTypes
  <2>2. CASE LiveJobs(enqueue[c].user) = {} /\ Cardinality(DOMAIN job) < MaxJobs
             /\ job' = Inserted(enqueue[c].user, enqueue[c].principal)
    BY <1>0, <2>1, <2>2, InsertKeeps
  <2>3. ASSUME NEW k \in LiveJobs(enqueue[c].user),
               job' = [job EXCEPT ![k].principal = enqueue[c].principal, ![k].status = "pending"]
        PROVE  FALSE
    <3>1. DOMAIN job' = DOMAIN job
      BY <2>3
    <3> QED  BY <3>1
  <2> QED  BY <1>2, <2>2, <2>3 DEF Upsert
<1>3. CASE RetryFailed
  BY <1>0, <1>3, RetryKeeps
<1>4. ASSUME StartTick \/ MarkFailed PROVE FALSE
  <2>1. DOMAIN job' = DOMAIN job
    BY <1>4 DEF StartTick, MarkFailed
  <2> QED  BY <2>1
<1>5. ASSUME NEW k \in DOMAIN job, ClaimJob(k) PROVE FALSE
  <2>1. DOMAIN job' = DOMAIN job
    BY <1>5 DEF ClaimJob
  <2> QED  BY <2>1
<1>6. CASE MarkDone
  BY <1>6 DEF MarkDone, Restrict
<1>7. ASSUME NEW c \in Enqueuers, ComputePosition(c) \/ EnqueueThrows(c) PROVE UNCHANGED job
  BY <1>7 DEF ComputePosition, EnqueueThrows
<1>8. ASSUME NEW u \in Users, ReconcileUser(u) \/ ReconcileUnread(u) PROVE UNCHANGED job
  BY <1>8 DEF ReconcileUser, ReconcileUnread
<1>9. ASSUME NEW c \in Callers, NEW u \in Users, NEW delta, ChangePosition(c, u, delta)
      PROVE  UNCHANGED job
  BY <1>9 DEF ChangePosition
<1>10. CASE EndTick \/ Attest \/ AttestThrows \/ StartReconcile \/ OutboxCrash \/ UNCHANGED outboxVars
  <2>1. UNCHANGED job
    BY <1>10 DEF EndTick, Attest, AttestThrows, StartReconcile, OutboxCrash, outboxVars
  <2> QED  BY <1>1, <2>1
<1> QED
  BY <1>1, <1>2, <1>3, <1>4, <1>5, <1>6, <1>7, <1>8, <1>9, <1>10
  DEF OutboxNext, Enqueue, Worker, Reconcile

LEMMA DoneStep ==
  ASSUME OutboxInv, [OutboxNext]_outboxVars, NEW j \in DOMAIN job, j \notin DOMAIN job',
         job[j].status = "processing"
  PROVE  chain'[job[j].user] = job[j].principal
<1>1. MarkDone /\ j = worker.job
  BY JobsLeaveDone
<1>2. worker.pc = "markDone" /\ UNCHANGED chain
  BY <1>1 DEF MarkDone
<1> QED  BY <1>1, <1>2 DEF OutboxInv, Attested, Sending

-----------------------------------------------------------------------------
(* What is copied about: positions, snapshots, attestations *)

LEMMA SnapshotStep ==
  ASSUME OutboxInv, [OutboxNext]_outboxVars
  PROVE  EnqueueTypes' /\ Snapshots'
<1>0. QueueTypes /\ WorkerHolds /\ EnqueueTypes /\ Snapshots
  BY DEF OutboxInv
<1> DEFINE Calls == [pc : {"idle", "compute", "upsert"}, user : Users, principal : 0..MaxPrincipal]
<1>1. NoEnqueue \in Calls /\ NoRows \in [users : SUBSET Users, principal : [Users -> 0..MaxPrincipal]]
      /\ 0 \in 0..MaxPrincipal /\ "reconcile" \in Enqueuers /\ Callers \subseteq Enqueuers
  BY OutboxDefaults DEF Enqueuers
<1>2. \A u \in Users : [pc |-> "compute", user |-> u, principal |-> 0] \in Calls
  BY <1>1
<1>3. ASSUME NEW c \in Callers, NEW u \in Users, NEW delta, ChangePosition(c, u, delta)
      PROVE  EnqueueTypes' /\ Snapshots'
  <2>1. UNCHANGED <<chain, todo>> /\ principal' \in [Users -> 0..MaxPrincipal]
    BY <1>0, <1>3 DEF ChangePosition, Snapshots
  <2>2. EnqueueTypes'
    BY <1>0, <1>1, <1>2, <1>3 DEF ChangePosition, EnqueueTypes
  <2> QED  BY <1>0, <2>1, <2>2 DEF Snapshots
<1>4. ASSUME NEW c \in Enqueuers, ComputePosition(c) PROVE EnqueueTypes' /\ Snapshots'
  <2>1. principal[enqueue[c].user] \in 0..MaxPrincipal
    BY <1>0 DEF EnqueueTypes, Snapshots
  <2>2. enqueue' = [enqueue EXCEPT ![c] = [@ EXCEPT !.pc = "upsert", !.principal = principal[enqueue[c].user]]]
    BY <1>0, <1>4 DEF ComputePosition, EnqueueTypes
  <2>3. EnqueueTypes'
    BY <1>0, <2>1, <2>2 DEF EnqueueTypes
  <2> QED  BY <1>0, <1>4, <2>3 DEF ComputePosition, Snapshots
<1>5. ASSUME NEW c \in Enqueuers, Upsert(c) \/ EnqueueThrows(c) PROVE EnqueueTypes' /\ Snapshots'
  <2>1. enqueue' = [enqueue EXCEPT ![c] = NoEnqueue] /\ UNCHANGED <<principal, chain, todo>>
    BY <1>5 DEF Upsert, EnqueueThrows
  <2> QED  BY <1>0, <1>1, <2>1 DEF EnqueueTypes, Snapshots
<1>6. ASSUME Attest \/ AttestThrows PROVE EnqueueTypes' /\ Snapshots'
  <2>1. job[worker.job].user \in Users /\ worker.principal \in 0..MaxPrincipal
    BY <1>0, <1>6, JobOf DEF Attest, AttestThrows, WorkerHolds, Sending
  <2>2. UNCHANGED <<principal, enqueue, todo>>
        /\ (chain' = [chain EXCEPT ![job[worker.job].user] = worker.principal] \/ UNCHANGED chain)
    BY <1>6 DEF Attest, AttestThrows
  <2> QED  BY <1>0, <2>1, <2>2 DEF EnqueueTypes, Snapshots
<1>7. ASSUME NEW u \in Users, ReconcileUser(u) \/ ReconcileUnread(u)
      PROVE  EnqueueTypes' /\ Snapshots'
  <2>1. /\ UNCHANGED <<principal, chain>>
        /\ \/ UNCHANGED enqueue
           \/ enqueue' = [enqueue EXCEPT !["reconcile"] = [pc |-> "compute", user |-> u, principal |-> 0]]
    BY <1>7 DEF ReconcileUser, ReconcileUnread
  <2>2. EnqueueTypes'
    BY <1>0, <1>1, <1>2, <2>1 DEF EnqueueTypes
  <2>3. todo' = [todo EXCEPT !.users = @ \ {u},
                             !.principal = IF todo.users = {u} THEN NoRows.principal ELSE @]
    BY <1>7 DEF ReconcileUser, ReconcileUnread
  <2>4. NoRows.principal \in [Users -> 0..MaxPrincipal]
    BY <1>1
  <2>5. todo' \in [users : SUBSET Users, principal : [Users -> 0..MaxPrincipal]]
    BY <1>0, <2>3, <2>4 DEF Snapshots
  <2> QED  BY <1>0, <2>1, <2>2, <2>5 DEF Snapshots
<1>8. CASE StartReconcile
  <2>1. todo' \in [users : SUBSET Users, principal : [Users -> 0..MaxPrincipal]]
    BY <1>0, <1>8 DEF StartReconcile, Snapshots
  <2> QED  BY <1>0, <1>8, <2>1 DEF StartReconcile, EnqueueTypes, Snapshots
<1>9. CASE OutboxCrash
  BY <1>0, <1>1, <1>9 DEF OutboxCrash, EnqueueTypes, Snapshots
<1>10. CASE UNCHANGED <<principal, chain, enqueue, todo>>
  BY <1>0, <1>10 DEF EnqueueTypes, Snapshots
<1>11. ASSUME NEW j \in DOMAIN job, ClaimJob(j) PROVE UNCHANGED <<principal, chain, enqueue, todo>>
  BY <1>11 DEF ClaimJob
<1>12. CASE StartTick \/ EndTick \/ MarkDone \/ MarkFailed \/ RetryFailed \/ UNCHANGED outboxVars
  BY <1>10, <1>12 DEF StartTick, EndTick, MarkDone, MarkFailed, RetryFailed, outboxVars
<1> QED
  BY <1>3, <1>4, <1>5, <1>6, <1>7, <1>8, <1>9, <1>10, <1>11, <1>12
  DEF OutboxNext, Enqueue, Worker, Reconcile

LEMMA OutboxStep == OutboxInv /\ [OutboxNext]_outboxVars => OutboxInv'
  BY QueueStep, WorkerStep, AttestedStep, SnapshotStep DEF OutboxInv

LEMMA OutboxStart == OutboxInit => OutboxInv
<1> SUFFICES ASSUME OutboxInit PROVE OutboxInv
  OBVIOUS
<1> USE DEF OutboxInit
<1>0. 0 \in 0..MaxPrincipal
  BY OutboxDefaults
<1>1. QueueTypes /\ OneLive
  BY DEF QueueTypes, OneLive
<1>2. worker = Idle /\ Idle.pc = "idle" /\ Idle.job = 0
  BY DEF Idle
<1>3. WorkerHolds
  BY <1>2, OutboxDefaults DEF WorkerHolds, Sending
<1>4. EnqueueTypes
  BY OutboxDefaults DEF EnqueueTypes
<1>5. Snapshots
  BY <1>0, OutboxDefaults DEF Snapshots
<1>6. Attested
  BY <1>2 DEF Attested, Sending
<1> QED  BY <1>1, <1>3, <1>4, <1>5, <1>6 DEF OutboxInv

(* One live job per wallet, and the types of the queue and of the copies    *)
(* that enqueues, the worker and the comparison hold, for any number of    *)
(* wallets, callers, rows, faults and restarts (the partial unique index   *)
(* of chainOutbox.model.ts with the writers of chainSync.worker.ts and the *)
(* admin's retry).                                                         *)
THEOREM OneLiveJobPerWallet == OutboxSpec => []OutboxTypeOK
<1>1. OutboxInit => OutboxInv
  BY OutboxStart
<1>2. OutboxInv /\ [OutboxNext]_outboxVars => OutboxInv'
  BY OutboxStep
<1>3. OutboxInv => OutboxTypeOK
  BY OutboxInvMeans
<1> QED  BY <1>1, <1>2, <1>3, PTL DEF OutboxSpec

(* A job leaves the queue as done only when the registry attests what its  *)
(* row carries, unless an enqueue refreshed the row while it was sent      *)
(* (processOne of chainSync.worker.ts marks by id).                        *)
THEOREM DoneIsAttestedUnlessRefreshed == OutboxSpec => DoneUnlessRefreshed
<1>1. OutboxInit => OutboxInv
  BY OutboxStart
<1>2. OutboxInv /\ [OutboxNext]_outboxVars => OutboxInv'
  BY OutboxStep
<1>3. OutboxInv /\ [OutboxNext]_outboxVars =>
        [\A j \in DOMAIN job : j \notin DOMAIN job' /\ job[j].status = "processing"
                               => chain'[job[j].user] = job[j].principal]_outboxVars
  BY DoneStep
<1> QED  BY <1>1, <1>2, <1>3, PTL DEF OutboxSpec, DoneUnlessRefreshed
=============================================================================
