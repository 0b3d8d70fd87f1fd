---------------------------- MODULE Bep20Scanner ----------------------------
(***************************************************************************)
(* The BEP-20 scanner of depositScannerBep20.service.ts: each tick lists   *)
(* the deposit addresses, reads the head of the chain, and for each token  *)
(* reads the Transfer logs of the next range below the safe head in        *)
(* chunks, applies them, and moves the token's cursor if all of it went    *)
(* well.  An admin may rescan any range.  Blocks are mined, reorganised    *)
(* and filled with transfers meanwhile.                                    *)
(*                                                                         *)
(* applyCredit is DepositCredit; here it leaves a credit row, or throws.   *)
(* A chunk's logs are read for all addresses at once.                      *)
(***************************************************************************)
EXTENDS Integers, Sequences, FiniteSets

CONSTANTS
  Transfers,
  To,             \* To[t]: the user whose deposit address t pays
  Token,          \* Token[t]: the stablecoin it moves
  Tokens,         \* tokensToScan, in order
  Confirmations,  \* DEPOSIT_SCAN_CONFIRMATIONS
  Span,           \* DEPOSIT_SCAN_MAX_SPAN
  Chunk,          \* DEPOSIT_SCAN_CHUNK_BLOCKS
  Fresh,          \* TRUE: the cursors may not exist yet
  MaxStall,       \* blocks mined while a tick waits for the head
  MaxReorg,       \* blocks a reorganisation replaces
  MaxHead,        \* bound: blocks
  MaxReorgs, MaxFaults, MaxRescans   \* bounds: how often

Users == {To[t] : t \in Transfers}

ASSUME ScannerAssumption ==
  /\ IsFiniteSet(Transfers)
  /\ Tokens \in Seq({Tokens[k] : k \in DOMAIN Tokens}) /\ Tokens # <<>>
  /\ \A t \in Transfers : \E k \in DOMAIN Tokens : Token[t] = Tokens[k]
  /\ Span \in Nat \ {0} /\ Chunk \in Nat \ {0} /\ Fresh \in BOOLEAN
  /\ \A n \in {Confirmations, MaxStall, MaxReorg, MaxHead, MaxReorgs, MaxFaults,
              MaxRescans} : n \in Nat

VARIABLES
  head,           \* the newest block
  block,          \* block[t]: the block that holds t, 0 if none does
  address,        \* users who have a deposit address
  cursor,         \* cursor[k]: lastScannedBlock of Tokens[k], 0 if unset
  row,            \* transfers with a deposit_credits row
  pc, watch, listed, seenHead, step, from, to, start, allOk,    \* the tick
  budget          \* faults of each kind, and first runs, so far

chain == <<head, block, address>>
tick == <<watch, listed, seenHead, step, from, to, start, allOk>>
vars == <<chain, cursor, row, pc, tick, budget>>

Larger(m, n) == IF m > n THEN m ELSE n
Smaller(m, n) == IF m < n THEN m ELSE n
Spend(k, bound) == budget[k] < bound /\ budget' = [budget EXCEPT ![k] = @ + 1]

Init ==
  /\ head = Confirmations + 1
  /\ block = [t \in Transfers |-> 0]
  /\ address = {}
  /\ \E c \in IF Fresh THEN {0, 1} ELSE {1} : cursor = [k \in DOMAIN Tokens |-> c]
  /\ row = {}
  /\ pc = "idle" /\ watch = {} /\ listed = 0 /\ seenHead = 0 /\ step = 1
  /\ from = 0 /\ to = 0 /\ start = 0 /\ allOk = TRUE
  /\ budget = [reorgs |-> 0, faults |-> 0, rescans |-> 0, firstRuns |-> 0]

-----------------------------------------------------------------------------
(* Users and the chain *)

CreateAddress(u) ==
  /\ u \notin address
  /\ address' = address \union {u}
  /\ UNCHANGED <<head, block, cursor, row, pc, tick, budget>>

(* A block with the transfers in S; a user pays only an address he has.    *)
NewBlock(S) ==
  /\ head < MaxHead
  /\ pc = "readHead" => head < listed + MaxStall
  /\ \A t \in S : block[t] = 0 /\ To[t] \in address
  /\ head' = head + 1
  /\ block' = [t \in Transfers |-> IF t \in S THEN head + 1 ELSE block[t]]
  /\ UNCHANGED <<address, cursor, row, pc, tick, budget>>

(* The last n blocks are replaced; their transfers may be mined again.     *)
Reorg(n) ==
  /\ n <= head /\ Spend("reorgs", MaxReorgs)
  /\ block' = [t \in Transfers |-> IF block[t] > head - n THEN 0 ELSE block[t]]
  /\ UNCHANGED <<head, address, cursor, row, pc, tick>>

-----------------------------------------------------------------------------
(* tick *)

Idle ==
  /\ pc' = "idle"
  /\ watch' = {} /\ listed' = 0 /\ seenHead' = 0 /\ step' = 1
  /\ from' = 0 /\ to' = 0 /\ start' = 0 /\ allOk' = TRUE

(* Without any address the tick is over, and no cursor is made. *)
ListAddresses ==
  /\ pc = "idle" /\ address # {}
  /\ watch' = address /\ listed' = head
  /\ pc' = "readHead"
  /\ UNCHANGED <<chain, cursor, row, seenHead, step, from, to, start, allOk, budget>>

ReadHead ==
  /\ pc = "readHead"
  /\ seenHead' = head
  /\ pc' = "token"
  /\ UNCHANGED <<chain, cursor, row, watch, listed, step, from, to, start, allOk, budget>>

(* A mistake to find: the head is taken to be final. *)
UnsafeHead == seenHead

SafeHead == seenHead - Confirmations

(* On to the next token, with the same addresses and head. *)
NextToken ==
  \/ /\ step = Len(Tokens)
     /\ Idle
  \/ /\ step < Len(Tokens)
     /\ step' = step + 1 /\ pc' = "token"
     /\ from' = 0 /\ to' = 0 /\ start' = 0 /\ allOk' = TRUE
     /\ UNCHANGED <<watch, listed, seenHead>>

(* getCursor: a first run starts at the safe head, so finds nothing to do. *)
FirstRun ==
  /\ pc = "token" /\ cursor[step] = 0
  /\ cursor' = [cursor EXCEPT ![step] = Larger(1, SafeHead)]
  /\ budget' = [budget EXCEPT !.firstRuns = @ + 1]
  /\ NextToken
  /\ UNCHANGED <<chain, row>>

UpToDate ==
  /\ pc = "token" /\ cursor[step] > 0 /\ SafeHead <= cursor[step]
  /\ NextToken
  /\ UNCHANGED <<chain, cursor, row, budget>>

(* A mistake to find: the range is not capped at the safe head. *)
BeginRangeUncapped ==
  /\ pc = "token" /\ cursor[step] > 0 /\ SafeHead > cursor[step]
  /\ from' = cursor[step] + 1 /\ to' = cursor[step] + Span
  /\ start' = cursor[step] + 1
  /\ pc' = "range"
  /\ UNCHANGED <<chain, cursor, row, watch, listed, seenHead, step, allOk, budget>>

BeginRange ==
  /\ pc = "token" /\ cursor[step] > 0 /\ SafeHead > cursor[step]
  /\ from' = cursor[step] + 1
  /\ to' = Smaller(SafeHead, cursor[step] + Span)
  /\ start' = cursor[step] + 1
  /\ pc' = "range"
  /\ UNCHANGED <<chain, cursor, row, watch, listed, seenHead, step, allOk, budget>>

(* A mistake to find: a chunk leaves its first block out. *)
LogsAfter(k, first, last, users) ==
  {t \in Transfers : block[t] \in (first + 1)..last /\ Token[t] = Tokens[k] /\ To[t] \in users}

LogsBetween(k, first, last, users) ==
  {t \in Transfers : block[t] \in first..last /\ Token[t] = Tokens[k] /\ To[t] \in users}

ChunkEnd == Smaller(start + Chunk - 1, to)

(* The chunk's logs are read and applied, each of them a row afterwards. *)
ScanChunk ==
  /\ pc = "range" /\ start <= to
  /\ row' = row \union LogsBetween(step, start, ChunkEnd, watch)
  /\ start' = start + Chunk
  /\ UNCHANGED <<chain, cursor, pc, watch, listed, seenHead, step, from, to, allOk, budget>>

(* A mistake to find: a failed chunk is left for good. *)
ChunkFailsQuietly ==
  /\ pc = "range" /\ start <= to
  /\ Spend("faults", MaxFaults)
  /\ start' = start + Chunk
  /\ UNCHANGED <<chain, cursor, row, pc, watch, listed, seenHead, step, from, to, allOk>>

(* getLogs fails on every endpoint, or applying some of the logs throws:   *)
(* the rest is done all the same.                                          *)
ChunkFails ==
  /\ pc = "range" /\ start <= to
  /\ Spend("faults", MaxFaults)
  /\ \E applied \in SUBSET LogsBetween(step, start, ChunkEnd, watch) : row' = row \union applied
  /\ allOk' = FALSE
  /\ start' = start + Chunk
  /\ UNCHANGED <<chain, cursor, pc, watch, listed, seenHead, step, from, to>>

(* Advance only on a clean pass. *)
AdvanceCursor ==
  /\ pc = "range" /\ start > to /\ allOk
  /\ cursor' = [cursor EXCEPT ![step] = to]
  /\ NextToken
  /\ UNCHANGED <<chain, row, budget>>

HoldCursor ==
  /\ pc = "range" /\ start > to /\ ~allOk
  /\ NextToken
  /\ UNCHANGED <<chain, cursor, row, budget>>

(* The head cannot be read, a database call throws, or the process         *)
(* restarts: the tick ends.                                                *)
TickEnds ==
  /\ pc # "idle" /\ Spend("faults", MaxFaults)
  /\ Idle
  /\ UNCHANGED <<chain, cursor, row>>

(* rescanBep20Range: any range up to the head, for the addresses there are. *)
Rescan(first, last) ==
  /\ first <= last /\ last <= head
  /\ Spend("rescans", MaxRescans)
  /\ row' = row \union UNION {LogsBetween(k, first, last, address) : k \in DOMAIN Tokens}
  /\ UNCHANGED <<chain, cursor, pc, tick>>

-----------------------------------------------------------------------------
Scan ==
  \/ ListAddresses \/ ReadHead \/ FirstRun \/ UpToDate \/ BeginRange
  \/ ScanChunk \/ AdvanceCursor \/ HoldCursor

Next ==
  \/ \E u \in Users : CreateAddress(u)
  \/ \E S \in SUBSET Transfers : NewBlock(S)
  \/ \E n \in 1..MaxReorg : Reorg(n)
  \/ Scan \/ ChunkFails \/ TickEnds
  \/ \E first, last \in 1..MaxHead : Rescan(first, last)

Spec == Init /\ [][Next]_vars

(* The timer fires and its awaits return; blocks are mined.  Nobody owes a *)
(* transfer, a fault or a rescan.                                          *)
Fairness == WF_vars(Scan) /\ WF_vars(\E S \in SUBSET Transfers : NewBlock(S))

FairSpec == Spec /\ Fairness

-----------------------------------------------------------------------------
(* Properties *)

(* The type invariant. *)
TypeOK ==
  /\ head \in Nat /\ block \in [Transfers -> 0..head]
  /\ address \subseteq Users /\ row \subseteq Transfers
  /\ cursor \in [DOMAIN Tokens -> 0..head]
  /\ pc \in {"idle", "readHead", "token", "range"}
  /\ watch \subseteq address /\ listed \in 0..head /\ seenHead \in 0..head /\ start \in Nat
  /\ step \in DOMAIN Tokens /\ allOk \in BOOLEAN
  /\ pc = "range" => from = cursor[step] + 1 /\ start >= from
                     /\ to \in from..(from + Span - 1) /\ to <= SafeHead

Passed(t) == \E k \in DOMAIN Tokens :
  block[t] > 0 /\ Token[t] = Tokens[k] /\ block[t] <= cursor[k]

(* "Skipping a range (...) would lose a deposit permanently": no cursor    *)
(* that existed passes a transfer to a deposit address that has no credit  *)
(* row, whatever failed, restarted, reorganised or was added meanwhile.    *)
(* (A first run starts at the safe head, and passes all below it.)         *)
NoDepositSkipped ==
  budget.firstRuns = 0 => \A t \in Transfers : Passed(t) => t \in row

(* Unless an admin rescanned blocks that were not final, a credit row      *)
(* stands for a transfer the chain holds and will not drop.                *)
NoPhantomCredit == budget.rescans = 0 => \A t \in row : block[t] > 0

(* A confirmed transfer beyond its token's cursor comes to have its row,   *)
(* or a reorganisation takes it out of its block.                          *)
EveryDepositSeen ==
  \A t \in Transfers, n \in 1..MaxHead :
    (block[t] = n /\ n <= head - Confirmations /\ \E k \in DOMAIN Tokens :
       Token[t] = Tokens[k] /\ cursor[k] \in 1..(n - 1))
      ~> (t \in row \/ block[t] # n)
=============================================================================
