----------------------------- MODULE Trc20Scanner -----------------------------
(***************************************************************************)
(* The TRC-20 scanner of depositScannerTrc20.service.ts: a tick lists the  *)
(* addresses that are due and scans them one after another.  A scan reads  *)
(* one page of the address's history from an overlap before its cursor,    *)
(* applies the rows, and moves the cursor to the newest of them if all     *)
(* went well.  A rescan does the same from the beginning, beside a tick.   *)
(* TronGrid shows a transaction only some time after its block.            *)
(*                                                                         *)
(* The addresses are those of AddressAllocation, and users pay what they   *)
(* were shown; a restart of the service ends requests and scans alike.     *)
(*                                                                         *)
(* applyCredit is DepositCredit; here it leaves a row of deposit_credits   *)
(* under its unique key, or throws.                                        *)
(***************************************************************************)
EXTENDS AddressAllocation, Integers, Sequences, Functions

CONSTANTS
  Transfers,      \* numbered in the order of the chain
  To,             \* To[t]: the user whose deposit address t pays
  Tx,             \* Tx[t]: its transaction
  Page,           \* rows in one answer of TronGrid: limit=200
  Overlap,        \* TRON_SCAN_OVERLAP_MS
  Lag,            \* how long TronGrid may take to show a block
  WarmEvery, ColdEvery,    \* WARM_INTERVAL_MS, COLD_INTERVAL_MS
  Loads           \* bounds: what may happen, and how often, in one behaviour

Txs == {Tx[t] : t \in Transfers}

ASSUME ScannerAssumption ==
  /\ Users # {} /\ Environments # {}
  /\ Transfers \subseteq Nat /\ IsFiniteSet(Transfers)
  /\ To \in [Transfers -> Users]
  /\ Page \in Nat \ {0} /\ Lag \in Nat /\ Lag <= Overlap
  /\ \A n \in {Overlap, WarmEvery, ColdEvery} : n \in Nat
  /\ WarmEvery <= ColdEvery
  /\ Loads \subseteq [made : SUBSET Users, callers : SUBSET (Requests \union Scripts),
                      transfers : SUBSET Transfers, last : Nat \ {0},
                      faults : Nat, rescans : Nat, restarts : Nat]
  /\ \A l \in Loads : IsFiniteSet(l.made)

VARIABLES
  now,            \* the time
  time,           \* time[t]: the timestamp of its block, 0 if it is in none
  visible,        \* transfers that TronGrid shows
  cursor,         \* cursor[u]: lastScannedTimestampMs
  age,            \* age[u]: time since lastScanAt, up to ColdEvery
  credit,         \* deposit_credits
  scan,           \* scan["tick"], scan["rescan"]
  budget,         \* faults and rescans so far
  load

chain == <<now, time, visible>>
stored == <<cursor, age, credit>>
vars == <<allocVars, chain, stored, scan, budget, load>>

address == {r.user : r \in row}

Larger(m, n) == IF m > n THEN m ELSE n
Smaller(m, n) == IF m < n THEN m ELSE n
Spend(k) == budget[k] < load[k] /\ budget' = [budget EXCEPT ![k] = @ + 1]

Scanners == {"tick", "rescan"}
NoCopies == [u \in {} |-> 0]
Idle == [pc |-> "idle", due |-> NoCopies, user |-> CHOOSE u \in Users : TRUE, copy |-> 0,
         page |-> <<>>, pos |-> 0, maxTs |-> 0]
Credits == [tx : Txs, index : Nat, transfer : Transfers]

Anyone == CHOOSE u \in Users : TRUE
Anywhere == CHOOSE env \in Environments : TRUE

(* The users of U got their addresses some time ago. *)
Made(U) ==
  /\ config = Anywhere /\ counter = Cardinality(U) /\ restarts = 0
  /\ LET n == CHOOSE b \in Bijection(U, 1..Cardinality(U)) : TRUE IN
       row = {NewRow(u, KeyFor(config, n[u]), Stored(config)) : u \in U}
  /\ shown = {[user |-> r.user, key |-> r.key] : r \in row}
  /\ request \in [Requests -> {Asking(u) : u \in U}]
  /\ script = [s \in Scripts |-> Script("done", {}, Anywhere)]

Init ==
  /\ load \in Loads
  /\ IF load.made = {} THEN AllocInit ELSE Made(load.made)
  /\ \A c \in Requests \ load.callers : request[c].user = Anyone
  /\ \A s \in Scripts \ load.callers : script[s].todo = {} /\ script[s].env = Anywhere
  /\ now = 1 /\ time = [t \in Transfers |-> 0] /\ visible = {}
  /\ cursor = [u \in Users |-> 0] /\ age = [u \in Users |-> ColdEvery] /\ credit = {}
  /\ scan = [p \in Scanners |-> Idle]
  /\ budget = [faults |-> 0, rescans |-> 0]

-----------------------------------------------------------------------------
(* The chain and TronGrid *)

Clock ==
  /\ \A t \in Transfers \ visible : time[t] # 0 => now < time[t] + Lag
  /\ now' = Smaller(now + 1, load.last)
  /\ age' = [u \in Users |-> Smaller(age[u] + 1, ColdEvery)]
  /\ UNCHANGED <<allocVars, load, time, visible, cursor, credit, scan, budget>>

OfTx(x) == {t \in Transfers : Tx[t] = x}

(* A user pays an address he was shown. *)
Send(x) ==
  /\ OfTx(x) \subseteq load.transfers
  /\ \A t \in OfTx(x) : time[t] = 0 /\ \E y \in shown : y.user = To[t]
  /\ time' = [t \in Transfers |-> IF Tx[t] = x THEN now ELSE time[t]]
  /\ UNCHANGED <<allocVars, load, now, visible, stored, scan, budget>>

Show(x) ==
  /\ \A t \in OfTx(x) : time[t] # 0 /\ t \notin visible
  /\ visible' = visible \union OfTx(x)
  /\ UNCHANGED <<allocVars, load, now, time, stored, scan, budget>>

-----------------------------------------------------------------------------
(* tick: which addresses are due *)

(* A mistake to find: a cold address is forgotten. *)
IsDueOnlyActive(u, tier) == tier = "hot" \/ (tier = "warm" /\ age[u] >= WarmEvery)

(* isDue.  The activity that makes an address hot or warm is not modelled: *)
(* it may be in any tier.                                                  *)
IsDue(u, tier) ==
  CASE tier = "hot" -> TRUE
    [] tier = "warm" -> age[u] >= WarmEvery
    [] tier = "cold" -> age[u] >= ColdEvery

List(tier) ==
  LET due == {u \in address : IsDue(u, tier[u])} IN
    /\ scan["tick"].pc = "idle" /\ load.transfers # {}
    /\ due # {}
    /\ scan' = [scan EXCEPT !["tick"].pc = "next",
                            !["tick"].due = [u \in due |-> cursor[u]]]
    /\ UNCHANGED <<allocVars, load, chain, stored, budget>>

Scan(p, u, copy) ==
  scan' = [scan EXCEPT ![p].pc = "fetch", ![p].user = u, ![p].copy = copy,
             ![p].due = [v \in DOMAIN @ \ {u} |-> @[v]]]

NextAddress ==
  /\ scan["tick"].pc = "next"
  /\ \E u \in DOMAIN scan["tick"].due : Scan("tick", u, scan["tick"].due[u])
  /\ UNCHANGED <<allocVars, load, chain, stored, budget>>

EndTick ==
  /\ scan["tick"].pc = "next" /\ scan["tick"].due = NoCopies
  /\ scan' = [scan EXCEPT !["tick"] = Idle]
  /\ UNCHANGED <<allocVars, load, chain, stored, budget>>

(* rescanTrc20Address: the row is read and its cursor replaced by 0. *)
Rescan(u) ==
  /\ scan["rescan"].pc = "idle" /\ u \in address
  /\ Spend("rescans")
  /\ Scan("rescan", u, 0)
  /\ UNCHANGED <<allocVars, load, chain, stored>>

-----------------------------------------------------------------------------
(* scanOne *)

(* A tick goes on with the next address, a rescan ends. *)
Finish(p) ==
  scan' = [scan EXCEPT ![p] =
    IF p = "rescan" THEN Idle ELSE [Idle EXCEPT !.pc = "next", !.due = scan[p].due]]

Before(s, t) == time[s] < time[t] \/ (time[s] = time[t] /\ s < t)

(* fetchInbound: one page of the address's rows, the oldest first. *)
Place(rows, t) == 1 + Cardinality({s \in rows : Before(s, t)})

History(u, since) ==
  LET rows == {t \in visible : To[t] = u /\ time[t] >= since}
  IN  [k \in 1..Smaller(Cardinality(rows), Page) |-> CHOOSE t \in rows : Place(rows, t) = k]

Fetch(p) ==
  /\ scan[p].pc = "fetch"
  /\ scan' = [scan EXCEPT ![p].pc = "apply", ![p].pos = 1, ![p].maxTs = scan[p].copy,
       ![p].page = History(scan[p].user, Larger(0, scan[p].copy - Overlap))]
  /\ UNCHANGED <<allocVars, load, chain, stored, budget>>

(* A rate limit or an error: the scan returns and the cursor stays. *)
FetchFails(p) ==
  /\ scan[p].pc = "fetch"
  /\ Spend("faults")
  /\ Finish(p)
  /\ UNCHANGED <<allocVars, load, chain, stored>>

(* A mistake to find: the position in the page for an index. *)
IndexInPage(page, k) == k - 1

(* perTxCounter: the rows of the same transaction before this one. *)
IndexOf(page, k) == Cardinality({j \in 1..(k - 1) : Tx[page[j]] = Tx[page[k]]})

RowFor(p) ==
  LET s == scan[p] IN
    [tx |-> Tx[s.page[s.pos]], index |-> IndexOf(s.page, s.pos), transfer |-> s.page[s.pos]]

(* The unique index {network, txHash, logIndex}: the row, or E11000. *)
Claimed(r) ==
  IF \E c \in credit : c.tx = r.tx /\ c.index = r.index THEN credit ELSE credit \union {r}

More(p) == scan[p].pc = "apply" /\ scan[p].pos <= Len(scan[p].page)

Apply(p) ==
  /\ More(p)
  /\ credit' = Claimed(RowFor(p))
  /\ scan' = [scan EXCEPT ![p].pos = @ + 1,
                ![p].maxTs = Larger(@, time[scan[p].page[scan[p].pos]])]
  /\ UNCHANGED <<allocVars, load, chain, cursor, age, budget>>

(* A mistake to find: the row that failed is skipped. *)
ApplyThrowsGoesOn(p) ==
  /\ More(p)
  /\ Spend("faults")
  /\ credit' \in {credit, Claimed(RowFor(p))}
  /\ scan' = [scan EXCEPT ![p].pos = @ + 1,
                ![p].maxTs = Larger(@, time[scan[p].page[scan[p].pos]])]
  /\ UNCHANGED <<allocVars, load, chain, cursor, age>>

(* applyCredit throws before or after the claim: "Do not advance". *)
ApplyThrows(p) ==
  /\ More(p)
  /\ Spend("faults")
  /\ credit' \in {credit, Claimed(RowFor(p))}
  /\ Finish(p)
  /\ UNCHANGED <<allocVars, load, chain, cursor, age>>

(* A mistake to find: the cursor is put past the newest row. *)
SaveCursorPast(p) ==
  LET s == scan[p] IN
    /\ s.pc = "apply" /\ s.pos > Len(s.page)
    /\ age' = [age EXCEPT ![s.user] = 0]
    /\ cursor' = [cursor EXCEPT ![s.user] = IF s.maxTs > s.copy THEN s.maxTs + 1 ELSE @]
    /\ Finish(p)
    /\ UNCHANGED <<allocVars, load, chain, credit, budget>>

SaveCursor(p) ==
  LET s == scan[p] IN
    /\ s.pc = "apply" /\ s.pos > Len(s.page)
    /\ age' = [age EXCEPT ![s.user] = 0]
    /\ cursor' = [cursor EXCEPT ![s.user] = IF s.maxTs > s.copy THEN s.maxTs ELSE @]
    /\ Finish(p)
    /\ UNCHANGED <<allocVars, load, chain, credit, budget>>

(* The write throws out of the loop: the tick is over. *)
SaveThrows(p) ==
  /\ scan[p].pc = "apply" /\ scan[p].pos > Len(scan[p].page)
  /\ Spend("faults")
  /\ scan' = [scan EXCEPT ![p] = Idle]
  /\ UNCHANGED <<allocVars, load, chain, stored>>

(* The process dies with its scans; the rows stay. *)
Restart(env) ==
  /\ restarts < load.restarts /\ Reconfigure(env)
  /\ scan' = [p \in Scanners |-> Idle]
  /\ UNCHANGED <<load, chain, stored, budget>>

-----------------------------------------------------------------------------
TickStep ==
  \/ NextAddress \/ EndTick
  \/ Fetch("tick") \/ Apply("tick") \/ SaveCursor("tick")

Next ==
  \/ /\ \/ \E c \in Requests \intersect load.callers : RequestStep(c)
        \/ \E s \in Scripts \intersect load.callers : ScriptStep(s)
     /\ UNCHANGED <<chain, stored, scan, budget, load>>
  \/ \E tier \in [address -> {"hot", "warm", "cold"}] : List(tier)
  \/ TickStep
  \/ \E u \in Users : Rescan(u)
  \/ Fetch("rescan") \/ Apply("rescan") \/ SaveCursor("rescan")
  \/ \E p \in Scanners : FetchFails(p) \/ ApplyThrows(p) \/ SaveThrows(p)
  \/ Clock
  \/ \E x \in Txs : Send(x) \/ Show(x)
  \/ \E env \in Environments : Restart(env)

Spec == Init /\ [][Next]_vars

(* The timer starts ticks, which owe a cold address no more than its turn; *)
(* a tick goes on, time passes, and TronGrid shows a block in the end.     *)
Fairness ==
  /\ WF_vars(List([u \in address |-> "cold"])) /\ WF_vars(TickStep)
  /\ WF_vars(Clock) /\ \A x \in Txs : WF_vars(Show(x))

FairSpec == Spec /\ Fairness

-----------------------------------------------------------------------------
(* Properties *)

(* The type invariant. *)
TypeOK ==
  /\ AllocTypeOK /\ load \in Loads
  /\ now \in 1..load.last
  /\ time \in [Transfers -> 0..load.last] /\ visible \subseteq Transfers
  /\ cursor \in [Users -> 0..now] /\ age \in [Users -> 0..ColdEvery]
  /\ credit \subseteq Credits
  /\ \A p \in Scanners :
       /\ scan[p].pc \in {"idle", "next", "fetch", "apply"}
       /\ DOMAIN scan[p].due \subseteq Users /\ scan[p].user \in Users
       /\ Range(scan[p].page) \subseteq Transfers
  /\ budget \in [{"faults", "rescans"} -> Nat]

Credited(t) == \E c \in credit : c.transfer = t

(* The key has no address: a transaction that pays two users' addresses    *)
(* gives both the same keys.                                               *)
PaysAnotherUser(t) == \E s \in OfTx(Tx[t]) : To[s] # To[t]

(* A page of transfers in one overlap: the next page is the same again.    *)
Crowded(u) ==
  \E n \in 0..load.last :
    Cardinality({t \in Transfers : To[t] = u /\ time[t] # 0 /\ time[t] \in n..(n + Overlap)})
      >= Page

(* "Re-reading a transfer is free", and "do not advance past a row we      *)
(* failed to handle": however often, from where and by whom a history is   *)
(* read, a transfer has one row, a row is a transfer that was made, and a  *)
(* transfer older than the overlap before its address's cursor, which no   *)
(* tick reads again, has its row.  Only a transaction that pays another    *)
(* user too may lack one.                                                  *)
CreditsExact ==
  /\ \A c, d \in credit : c.transfer = d.transfer => c = d
  /\ \A c \in credit : time[c.transfer] # 0
  /\ \A t \in Transfers :
       time[t] # 0 /\ time[t] < cursor[To[t]] - Overlap => Credited(t) \/ PaysAnotherUser(t)

(* "An address is NEVER stopped being watched": every transfer to an       *)
(* address a user was shown gets its row in the end, in whatever tier the  *)
(* address is, unless the address gets a page of transfers in one overlap  *)
(* or the transaction pays another user too.                               *)
EverySeen ==
  \A t \in Transfers :
    (time[t] # 0) ~> (Credited(t) \/ PaysAnotherUser(t) \/ Crowded(To[t]))
=============================================================================
