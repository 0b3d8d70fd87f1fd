------------------------- MODULE Bep20ScannerProofs -------------------------
(***************************************************************************)
(* That the BEP-20 scanner skips no deposit and credits nothing the chain  *)
(* drops, for any number of transfers, tokens, faults, rescans and         *)
(* reorganisations, and any span and chunk, as long as the confirmations   *)
(* cover what they are there for: the depth of a reorganisation, and the   *)
(* blocks mined between listing the addresses and reading the head.        *)
(*                                                                         *)
(* What must be added to the properties to make them inductive is how far  *)
(* the tick's copies are behind: who is not watched was paid only above    *)
(* the safe head, and what a clean range has passed has its rows.          *)
(***************************************************************************)
EXTENDS Bep20Scanner, SequenceTheorems, TLAPS

BudgetType == budget \in [{"reorgs", "faults", "rescans", "firstRuns"} -> Nat]

(* The heads that a tick holds, and the cursors, are old enough. *)
Heads ==
  /\ head >= Confirmations + 1
  /\ \A k \in DOMAIN Tokens : cursor[k] <= head - Confirmations
  /\ pc = "readHead" => head <= listed + MaxStall
  /\ pc \in {"token", "range"} => seenHead <= listed + MaxStall

(* Only addresses are paid; who is not watched was paid after the listing. *)
Unwatched ==
  /\ \A t \in Transfers : block[t] > 0 => To[t] \in address
  /\ pc # "idle" =>
       \A t \in Transfers : To[t] \notin watch /\ block[t] > 0 => block[t] > listed

(* A range without a failure has the rows of the blocks it passed. *)
Scanned ==
  pc = "range" /\ allOk =>
    \A t \in Transfers :
      Token[t] = Tokens[step] /\ block[t] >= from /\ block[t] < start /\ block[t] <= to
        => t \in row

FinalRows ==
  budget.rescans = 0 => \A t \in row : block[t] > 0 /\ block[t] <= head - Confirmations

Shape == TypeOK /\ BudgetType

(* With MaxStall <= Confirmations: nothing is skipped. *)
SkipInv == Shape /\ Heads /\ Unwatched /\ Scanned /\ NoDepositSkipped

(* With MaxReorg <= Confirmations: nothing is credited that goes away. *)
PhantomInv == Shape /\ Heads /\ FinalRows

(* The types of the constants that the steps use. *)
LEMMA Constants ==
  /\ Len(Tokens) \in Nat \ {0} /\ DOMAIN Tokens = 1..Len(Tokens)
  /\ Span \in Nat \ {0} /\ Chunk \in Nat \ {0}
  /\ Confirmations \in Nat /\ MaxStall \in Nat /\ MaxReorg \in Nat
<1>1. Len(Tokens) \in Nat \ {0} /\ DOMAIN Tokens = 1..Len(Tokens)
  <2>1. PICK S : Tokens \in Seq(S) /\ Tokens # <<>>
    BY ScannerAssumption
  <2> QED BY <2>1, EmptySeq
<1>2. /\ Span \in Nat \ {0} /\ Chunk \in Nat \ {0}
      /\ Confirmations \in Nat /\ MaxStall \in Nat /\ MaxReorg \in Nat
  BY ScannerAssumption
<1> QED BY <1>1, <1>2

-----------------------------------------------------------------------------
(* The initial states. *)
LEMMA InitHolds == Init => SkipInv /\ PhantomInv
<1> SUFFICES ASSUME Init PROVE SkipInv /\ PhantomInv
  OBVIOUS
<1>1. PICK c \in {0, 1} : cursor = [k \in DOMAIN Tokens |-> c]
  BY DEF Init
<1>2. TypeOK
  BY <1>1, Constants DEF Init, TypeOK
<1>3. BudgetType
  BY DEF Init, BudgetType
<1>4. Heads
  BY <1>1, Constants DEF Init, Heads
<1>5. Unwatched /\ Scanned /\ FinalRows
  BY DEF Init, Unwatched, Scanned, FinalRows
<1>6. NoDepositSkipped
  BY DEF Init, NoDepositSkipped, Passed
<1> QED BY <1>2, <1>3, <1>4, <1>5, <1>6 DEF SkipInv, PhantomInv, Shape

-----------------------------------------------------------------------------
(* Types, and the age of what the tick holds *)

(* A range is above the cursor and below the safe head. *)
LEMMA RangeType ==
  ASSUME TypeOK, pc = "range"
  PROVE  /\ cursor[step] \in Nat /\ SafeHead \in Int /\ head \in Nat
         /\ from = cursor[step] + 1 /\ from \in Nat
         /\ start \in Nat /\ start >= from /\ start + Chunk >= from /\ Chunk \in Nat \ {0}
         /\ to \in from..(from + Span - 1) /\ to \in Nat /\ to <= SafeHead
         /\ SafeHead <= head - Confirmations
BY Constants DEF TypeOK, SafeHead

(* The end of a token's turn: the next one's, or the end of the tick. *)
LEMMA NextTokenShape ==
  ASSUME Shape, Heads, pc \in {"token", "range"}, NextToken,
         UNCHANGED chain, cursor' \in [DOMAIN Tokens -> 0..head], row' \subseteq Transfers,
         \A k \in DOMAIN Tokens : cursor'[k] <= head - Confirmations,
         BudgetType'
  PROVE  Shape' /\ Heads'
<1>1. /\ head' = head /\ block' = block /\ address' = address
      /\ Confirmations \in Nat /\ step \in 1..Len(Tokens) /\ DOMAIN Tokens = 1..Len(Tokens)
      /\ Len(Tokens) \in Nat \ {0}
  BY Constants DEF chain, Shape, TypeOK
<1>2. CASE Idle
  <2>1. TypeOK'
    BY <1>1, <1>2 DEF Shape, TypeOK, Idle
  <2>2. Heads'
    BY <1>1, <1>2 DEF Idle, Heads
  <2> QED BY <2>1, <2>2 DEF Shape
<1>3. CASE /\ step < Len(Tokens)
           /\ step' = step + 1 /\ pc' = "token"
           /\ from' = 0 /\ to' = 0 /\ start' = 0 /\ allOk' = TRUE
           /\ UNCHANGED <<watch, listed, seenHead>>
  <2>1. TypeOK'
    BY <1>1, <1>3 DEF Shape, TypeOK
  <2>2. Heads'
    BY <1>1, <1>3 DEF Heads
  <2> QED BY <2>1, <2>2 DEF Shape
<1> QED BY <1>2, <1>3 DEF NextToken

(* A step within a range, or into one. *)
LEMMA RangeShape ==
  ASSUME Shape, Heads, pc \in {"token", "range"}, pc' = "range",
         UNCHANGED <<chain, cursor, watch, listed, seenHead, step>>,
         allOk' \in BOOLEAN, row' \subseteq Transfers, BudgetType',
         from' = cursor[step] + 1, start' \in Nat, start' >= from',
         to' \in from'..(from' + Span - 1), to' <= SafeHead
  PROVE  Shape' /\ Heads'
<1>1. /\ head' = head /\ block' = block /\ address' = address /\ cursor' = cursor
      /\ watch' = watch /\ listed' = listed /\ seenHead' = seenHead /\ step' = step
  BY DEF chain
<1>2. SafeHead' = SafeHead
  BY <1>1 DEF SafeHead
<1>3. TypeOK'
  BY <1>1, <1>2 DEF Shape, TypeOK
<1>4. Heads'
  BY <1>1 DEF Heads
<1> QED BY <1>3, <1>4 DEF Shape

(* Every step keeps the types and the ages. *)
LEMMA ShapeHolds == Shape /\ Heads /\ [Next]_vars => Shape' /\ Heads'
<1> SUFFICES ASSUME Shape, Heads, [Next]_vars PROVE Shape' /\ Heads'
  OBVIOUS
<1> USE Constants DEF Shape
<1>1. ASSUME NEW u \in Users, CreateAddress(u) PROVE Shape' /\ Heads'
  BY <1>1 DEF CreateAddress, TypeOK, BudgetType, Heads, SafeHead, tick
<1>2. ASSUME NEW S \in SUBSET Transfers, NewBlock(S) PROVE Shape' /\ Heads'
  BY <1>2 DEF NewBlock, TypeOK, BudgetType, Heads, SafeHead, tick
<1>3. ASSUME NEW n \in 1..MaxReorg, Reorg(n) PROVE Shape' /\ Heads'
  BY <1>3 DEF Reorg, Spend, TypeOK, BudgetType, Heads, SafeHead, tick
<1>4. CASE ListAddresses
  BY <1>4 DEF ListAddresses, TypeOK, BudgetType, Heads, chain
<1>5. CASE ReadHead
  BY <1>5 DEF ReadHead, TypeOK, BudgetType, Heads, chain
<1>6. CASE FirstRun
  <2>1. step \in DOMAIN Tokens /\ seenHead \in 0..head /\ pc = "token"
    BY <1>6 DEF FirstRun, TypeOK
  <2>2. /\ Larger(1, SafeHead) \in 0..head
        /\ Larger(1, SafeHead) <= head - Confirmations
    BY <2>1 DEF Larger, SafeHead, Heads, TypeOK
  <2>3. cursor' = [cursor EXCEPT ![step] = Larger(1, SafeHead)] /\ NextToken
    BY <1>6 DEF FirstRun
  <2>4. BudgetType'
    BY <1>6 DEF FirstRun, BudgetType
  <2>5. /\ cursor' \in [DOMAIN Tokens -> 0..head]
        /\ \A k \in DOMAIN Tokens : cursor'[k] <= head - Confirmations
    BY <2>1, <2>2, <2>3 DEF TypeOK, Heads
  <2>6. UNCHANGED chain /\ row' \subseteq Transfers
    BY <1>6 DEF FirstRun, TypeOK
  <2> QED BY <2>1, <2>3, <2>4, <2>5, <2>6, NextTokenShape
<1>7. CASE UpToDate \/ HoldCursor
  <2>1. pc \in {"token", "range"} /\ NextToken /\ UNCHANGED <<chain, cursor, row, budget>>
    BY <1>7 DEF UpToDate, HoldCursor
  <2> QED BY <2>1, NextTokenShape DEF TypeOK, BudgetType, Heads
<1>8. CASE BeginRange
  <2>1. /\ cursor[step] \in Nat /\ SafeHead \in Int /\ SafeHead > cursor[step]
        /\ from' = cursor[step] + 1 /\ start' = from'
        /\ to' = Smaller(SafeHead, cursor[step] + Span)
    BY <1>8 DEF BeginRange, TypeOK, SafeHead
  <2>2. to' \in from'..(from' + Span - 1) /\ to' <= SafeHead
    BY <2>1 DEF Smaller
  <2>3. /\ pc = "token" /\ pc' = "range"
        /\ UNCHANGED <<chain, cursor, watch, listed, seenHead, step, allOk, row, budget>>
    BY <1>8 DEF BeginRange
  <2>4. allOk' \in BOOLEAN /\ row' \subseteq Transfers /\ BudgetType'
    BY <2>1, <2>3 DEF TypeOK, BudgetType
  <2>5. start' \in Nat /\ start' >= from'
    BY <2>1
  <2> QED BY <2>1, <2>2, <2>3, <2>4, <2>5, RangeShape
<1>9. CASE ScanChunk
  <2>1. row' \subseteq Transfers
    BY <1>9 DEF ScanChunk, LogsBetween, TypeOK
  <2>2. /\ pc = "range" /\ pc' = "range" /\ start' = start + Chunk
        /\ UNCHANGED <<chain, cursor, watch, listed, seenHead, step, from, to, allOk, budget>>
    BY <1>9 DEF ScanChunk
  <2>3. /\ from' = cursor[step] + 1 /\ start' \in Nat /\ start' >= from'
        /\ to' \in from'..(from' + Span - 1) /\ to' <= SafeHead
    BY <2>2, RangeType
  <2>4. allOk' \in BOOLEAN /\ BudgetType'
    BY <2>2 DEF TypeOK, BudgetType
  <2> QED BY <2>1, <2>2, <2>3, <2>4, RangeShape
<1>10. CASE ChunkFails
  <2>1. row' \subseteq Transfers
    BY <1>10 DEF ChunkFails, LogsBetween, TypeOK
  <2>2. BudgetType'
    BY <1>10 DEF ChunkFails, Spend, BudgetType
  <2>3. /\ pc = "range" /\ pc' = "range" /\ start' = start + Chunk /\ allOk' = FALSE
        /\ UNCHANGED <<chain, cursor, watch, listed, seenHead, step, from, to>>
    BY <1>10 DEF ChunkFails
  <2>4. /\ from' = cursor[step] + 1 /\ start' \in Nat /\ start' >= from'
        /\ to' \in from'..(from' + Span - 1) /\ to' <= SafeHead
    BY <2>3, RangeType
  <2> QED BY <2>1, <2>2, <2>3, <2>4, RangeShape
<1>11. CASE AdvanceCursor
  <2>1. /\ pc = "range" /\ NextToken
        /\ step \in DOMAIN Tokens /\ to \in 0..head /\ to <= head - Confirmations
    BY <1>11 DEF AdvanceCursor, TypeOK, SafeHead
  <2>2. /\ cursor' \in [DOMAIN Tokens -> 0..head]
        /\ \A k \in DOMAIN Tokens : cursor'[k] <= head - Confirmations
    BY <1>11, <2>1 DEF AdvanceCursor, TypeOK, Heads
  <2>3. UNCHANGED chain /\ row' \subseteq Transfers /\ BudgetType'
    BY <1>11 DEF AdvanceCursor, TypeOK, BudgetType
  <2> QED BY <2>1, <2>2, <2>3, NextTokenShape
<1>12. CASE TickEnds
  BY <1>12 DEF TickEnds, Idle, Spend, TypeOK, BudgetType, Heads, chain
<1>13. ASSUME NEW first \in 1..MaxHead, NEW last \in 1..MaxHead, Rescan(first, last)
       PROVE  Shape' /\ Heads'
  <2>1. row' \subseteq Transfers
    BY <1>13 DEF Rescan, LogsBetween, TypeOK
  <2>2. BudgetType'
    BY <1>13 DEF Rescan, Spend, BudgetType
  <2> QED BY <1>13, <2>1, <2>2 DEF Rescan, TypeOK, Heads, SafeHead, chain, tick
<1>14. CASE UNCHANGED vars
  BY <1>14 DEF vars, chain, tick, TypeOK, BudgetType, Heads, SafeHead
<1> QED
  BY <1>1, <1>2, <1>3, <1>4, <1>5, <1>6, <1>7, <1>8, <1>9, <1>10, <1>11, <1>12, <1>13, <1>14
  DEF Next, Scan

-----------------------------------------------------------------------------
(* Nothing is skipped *)

(* A transfer nobody watches is above the safe head. *)
LEMMA WatchedBelow ==
  ASSUME MaxStall <= Confirmations, Shape, Heads, Unwatched, pc \in {"token", "range"},
         NEW t \in Transfers, block[t] > 0, block[t] <= SafeHead
  PROVE  To[t] \in watch
BY Constants DEF Shape, TypeOK, Heads, Unwatched, SafeHead

(* The end of a token's turn. *)
LEMMA NextTokenSkips ==
  ASSUME Unwatched, pc \in {"token", "range"}, NextToken, UNCHANGED chain
  PROVE  Unwatched' /\ Scanned'
<1>1. block' = block
  BY DEF chain
<1>2. CASE Idle
  BY <1>1, <1>2 DEF Idle, Unwatched, Scanned, chain
<1>3. CASE pc' = "token" /\ UNCHANGED <<watch, listed, seenHead>>
  BY <1>1, <1>3 DEF Unwatched, Scanned, chain
<1> QED BY <1>2, <1>3 DEF NextToken

(* Every step, if the confirmations cover the wait for the head. *)
LEMMA SkipHolds ==
  ASSUME MaxStall <= Confirmations
  PROVE  SkipInv /\ [Next]_vars => SkipInv'
<1> SUFFICES ASSUME SkipInv, [Next]_vars PROVE SkipInv'
  OBVIOUS
<1>1. Shape /\ Heads /\ Unwatched /\ Scanned /\ NoDepositSkipped /\ TypeOK
  BY DEF SkipInv, Shape
<1>2. Shape' /\ Heads'
  BY <1>1, ShapeHolds
<1> SUFFICES (Unwatched /\ Scanned /\ NoDepositSkipped)'
  BY <1>2 DEF SkipInv
<1>3. ASSUME UNCHANGED <<block, cursor>>, row \subseteq row', budget'.firstRuns >= budget.firstRuns,
             Unwatched', Scanned'
      PROVE  (Unwatched /\ Scanned /\ NoDepositSkipped)'
  BY <1>1, <1>2, <1>3 DEF NoDepositSkipped, Passed, Shape, BudgetType
<1>4. \A k \in {"reorgs", "faults", "rescans"}, bound \in Nat :
        Spend(k, bound) => budget'.firstRuns = budget.firstRuns
  BY <1>1 DEF Spend, Shape, BudgetType
<1>5. /\ budget.firstRuns \in Nat /\ head \in Nat /\ listed \in 0..head
      /\ \A t \in Transfers : block[t] \in 0..head
      /\ MaxReorgs \in Nat /\ MaxFaults \in Nat /\ MaxRescans \in Nat
  BY <1>1, ScannerAssumption DEF Shape, BudgetType, TypeOK
<1>6. ASSUME NEW u \in Users, CreateAddress(u) PROVE (Unwatched /\ Scanned /\ NoDepositSkipped)'
  BY <1>1, <1>3, <1>5, <1>6 DEF CreateAddress, Unwatched, Scanned, tick
<1>7. ASSUME NEW S \in SUBSET Transfers, NewBlock(S)
      PROVE  (Unwatched /\ Scanned /\ NoDepositSkipped)'
  <2>1. /\ block' = [t \in Transfers |-> IF t \in S THEN head + 1 ELSE block[t]]
        /\ UNCHANGED <<address, cursor, row, pc, tick, budget>>
    BY <1>7 DEF NewBlock
  <2>2. Unwatched'
    BY <1>1, <1>5, <1>7, <2>1 DEF Unwatched, tick, NewBlock
  <2>3. Scanned'
    <3>1. ASSUME pc = "range", NEW t \in Transfers, block'[t] <= to, block'[t] >= from
          PROVE  block'[t] = block[t]
      <4>1. to \in Nat /\ to <= head - Confirmations /\ Confirmations \in Nat
        BY <1>1, <3>1, RangeType, Constants
      <4> QED BY <1>5, <2>1, <3>1, <4>1
    <3> QED BY <1>1, <2>1, <3>1 DEF Scanned, tick
  <2>4. \A k \in DOMAIN Tokens : cursor[k] \in 0..head
    BY <1>1 DEF TypeOK
  <2>5. NoDepositSkipped'
    BY <1>1, <1>5, <2>1, <2>4 DEF NoDepositSkipped, Passed
  <2> QED BY <2>2, <2>3, <2>5
<1>8. ASSUME NEW n \in 1..MaxReorg, Reorg(n) PROVE (Unwatched /\ Scanned /\ NoDepositSkipped)'
  <2>1. /\ \A t \in Transfers : block'[t] \in {0, block[t]}
        /\ UNCHANGED <<head, address, cursor, row, pc, tick>>
        /\ budget'.firstRuns = budget.firstRuns
    BY <1>4, <1>5, <1>8 DEF Reorg
  <2>2. Unwatched'
    BY <1>1, <1>5, <2>1 DEF Unwatched, tick
  <2>3. Scanned'
    BY <1>1, <1>5, <2>1, RangeType DEF Scanned, tick
  <2>4. NoDepositSkipped'
    BY <1>1, <1>5, <2>1 DEF NoDepositSkipped, Passed
  <2> QED BY <2>2, <2>3, <2>4
<1>9. CASE ListAddresses
  <2>1. Unwatched'
    BY <1>1, <1>9 DEF ListAddresses, Unwatched, chain
  <2>2. Scanned'
    BY <1>9 DEF ListAddresses, Scanned
  <2> QED BY <1>3, <1>5, <1>9, <2>1, <2>2 DEF ListAddresses, chain
<1>10. CASE ReadHead
  <2>1. Unwatched' /\ Scanned'
    BY <1>1, <1>10 DEF ReadHead, Unwatched, Scanned, chain
  <2> QED BY <1>3, <1>5, <1>10, <2>1 DEF ReadHead, chain
<1>11. CASE FirstRun
  <2>1. Unwatched' /\ Scanned'
    BY <1>1, <1>11, NextTokenSkips DEF FirstRun
  <2>2. budget'.firstRuns = budget.firstRuns + 1
    BY <1>1, <1>11 DEF FirstRun, Shape, BudgetType
  <2>3. NoDepositSkipped'
    BY <1>5, <2>2 DEF NoDepositSkipped
  <2> QED BY <2>1, <2>3
<1>12. CASE UpToDate \/ HoldCursor
  <2>1. /\ pc \in {"token", "range"} /\ NextToken
        /\ UNCHANGED <<chain, cursor, row, budget>>
    BY <1>12 DEF UpToDate, HoldCursor
  <2>2. Unwatched' /\ Scanned'
    BY <1>1, <2>1, NextTokenSkips
  <2> QED BY <1>3, <1>5, <2>1, <2>2 DEF chain
<1>13. CASE BeginRange
  <2>1. Unwatched'
    BY <1>1, <1>13 DEF BeginRange, Unwatched, chain
  <2>2. from' = start'
    BY <1>13 DEF BeginRange
  <2>3. from' \in Nat
    BY <1>2, <1>13, <2>2 DEF Shape, TypeOK
  <2>4. Scanned'
    <3>1. block' = block
      BY <1>13 DEF BeginRange, chain
    <3>2. \A t \in Transfers : block'[t] >= from' => ~(block'[t] < start')
      BY <1>5, <2>2, <2>3, <3>1
    <3> QED BY <3>2 DEF Scanned
  <2> QED BY <1>3, <1>5, <1>13, <2>1, <2>4 DEF BeginRange, chain
<1>14. CASE ScanChunk
  <2>1. /\ pc = "range" /\ pc' = "range" /\ start <= to /\ start' = start + Chunk
        /\ row' = row \union LogsBetween(step, start, ChunkEnd, watch)
        /\ UNCHANGED <<chain, cursor, watch, listed, seenHead, step, from, to, allOk, budget>>
    BY <1>14 DEF ScanChunk
  <2>2. Unwatched'
    BY <1>1, <2>1 DEF Unwatched, chain
  <2>3. ASSUME allOk, NEW t \in Transfers, Token[t] = Tokens[step],
               block[t] >= from, block[t] < start + Chunk, block[t] <= to
        PROVE  t \in row'
    <3>1. CASE block[t] < start
      BY <1>1, <2>1, <2>3, <3>1 DEF Scanned
    <3>2. CASE block[t] >= start
      <4>1. block[t] \in start..ChunkEnd
        BY <1>1, <1>5, <2>1, <2>3, <3>2, RangeType DEF ChunkEnd, Smaller
      <4>2. block[t] > 0 /\ block[t] <= SafeHead
        BY <1>1, <1>5, <2>1, <2>3, RangeType
      <4>3. To[t] \in watch
        BY <1>1, <2>1, <4>2, WatchedBelow
      <4> QED BY <2>1, <2>3, <4>1, <4>3 DEF LogsBetween
    <3>3. block[t] \in Nat /\ start \in Nat
      BY <1>1, <1>5, <2>1, RangeType
    <3> QED BY <3>1, <3>2, <3>3
  <2>4. Scanned'
    <3>1. /\ block' = block /\ step' = step /\ from' = from /\ to' = to /\ allOk' = allOk
          /\ start' = start + Chunk
      BY <2>1 DEF chain
    <3> QED BY <2>3, <3>1 DEF Scanned
  <2> QED BY <1>3, <1>5, <2>1, <2>2, <2>4 DEF chain
<1>15. CASE ChunkFails
  <2>1. Unwatched' /\ Scanned'
    BY <1>1, <1>15 DEF ChunkFails, Unwatched, Scanned, chain
  <2>2. row \subseteq row' /\ UNCHANGED <<chain, cursor>>
    BY <1>15 DEF ChunkFails
  <2>3. budget'.firstRuns = budget.firstRuns
    BY <1>4, <1>5, <1>15 DEF ChunkFails
  <2> QED BY <1>3, <1>5, <2>1, <2>2, <2>3 DEF chain
<1>16. CASE AdvanceCursor
  <2>1. /\ pc = "range" /\ start > to /\ allOk /\ NextToken
        /\ cursor' = [cursor EXCEPT ![step] = to] /\ UNCHANGED <<chain, row, budget>>
    BY <1>16 DEF AdvanceCursor
  <2>2. Unwatched' /\ Scanned'
    BY <1>1, <2>1, NextTokenSkips
  <2>3. ASSUME budget'.firstRuns = 0, NEW t \in Transfers, Passed(t)'
        PROVE  t \in row
    <3>1. PICK k \in DOMAIN Tokens :
            block[t] > 0 /\ Token[t] = Tokens[k] /\ block[t] <= cursor'[k]
      BY <2>1, <2>3 DEF Passed, chain
    <3>2. CASE block[t] <= cursor[k]
      BY <1>1, <2>1, <2>3, <3>1, <3>2 DEF NoDepositSkipped, Passed
    <3>3. CASE k = step /\ block[t] > cursor[step]
      <4>1. cursor'[step] = to
        BY <1>1, <2>1 DEF TypeOK
      <4>2. block[t] >= from /\ block[t] < start /\ block[t] <= to
        BY <1>1, <1>5, <2>1, <3>1, <3>3, <4>1, RangeType
      <4> QED BY <1>1, <2>1, <3>1, <3>3, <4>2 DEF Scanned
    <3>4. /\ k # step => cursor'[k] = cursor[k]
          /\ cursor[k] \in Nat /\ cursor[step] \in Nat /\ block[t] \in Nat
      BY <1>1, <1>5, <2>1 DEF TypeOK
    <3> QED BY <3>1, <3>2, <3>3, <3>4
  <2>4. NoDepositSkipped'
    BY <2>1, <2>3 DEF NoDepositSkipped
  <2> QED BY <2>2, <2>4
<1>17. CASE TickEnds
  <2>1. Unwatched' /\ Scanned'
    BY <1>1, <1>17 DEF TickEnds, Idle, Unwatched, Scanned, chain
  <2>2. budget'.firstRuns = budget.firstRuns
    BY <1>4, <1>5, <1>17 DEF TickEnds
  <2> QED BY <1>3, <1>5, <1>17, <2>1, <2>2 DEF TickEnds, chain
<1>18. ASSUME NEW first \in 1..MaxHead, NEW last \in 1..MaxHead, Rescan(first, last)
       PROVE  (Unwatched /\ Scanned /\ NoDepositSkipped)'
  <2>1. /\ row \subseteq row' /\ UNCHANGED <<chain, cursor, pc, tick>>
        /\ budget'.firstRuns = budget.firstRuns
    BY <1>4, <1>5, <1>18 DEF Rescan
  <2>2. Unwatched' /\ Scanned'
    BY <1>1, <2>1 DEF Unwatched, Scanned, chain, tick
  <2> QED BY <1>3, <1>5, <2>1, <2>2 DEF chain
<1>19. CASE UNCHANGED vars
  BY <1>1, <1>19 DEF vars, chain, tick, Unwatched, Scanned, NoDepositSkipped, Passed
<1> QED
  BY <1>6, <1>7, <1>8, <1>9, <1>10, <1>11, <1>12, <1>13, <1>14, <1>15, <1>16, <1>17, <1>18, <1>19
  DEF Next, Scan

-----------------------------------------------------------------------------
(* Nothing is credited that goes away *)

(* Every step, if the confirmations cover the depth of a reorganisation. *)
LEMMA PhantomHolds ==
  ASSUME MaxReorg <= Confirmations
  PROVE  PhantomInv /\ [Next]_vars => PhantomInv'
<1> SUFFICES ASSUME PhantomInv, [Next]_vars PROVE PhantomInv'
  OBVIOUS
<1>1. Shape /\ Heads /\ FinalRows /\ TypeOK
  BY DEF PhantomInv, Shape
<1>2. Shape' /\ Heads'
  BY <1>1, ShapeHolds
<1> SUFFICES FinalRows'
  BY <1>2 DEF PhantomInv
<1>3. /\ budget.rescans \in Nat /\ head \in Nat /\ row \subseteq Transfers
      /\ \A t \in Transfers : block[t] \in 0..head
      /\ MaxReorgs \in Nat /\ MaxFaults \in Nat /\ MaxRescans \in Nat
      /\ Confirmations \in Nat /\ MaxReorg \in Nat
  BY <1>1, ScannerAssumption DEF Shape, BudgetType, TypeOK
<1>4. \A k \in {"reorgs", "faults"}, bound \in Nat :
        Spend(k, bound) => budget'.rescans = budget.rescans
  BY <1>1 DEF Spend, Shape, BudgetType
<1>5. ASSUME UNCHANGED <<head, block>>, budget'.rescans = budget.rescans,
             \A t \in row' \ row : block[t] > 0 /\ block[t] <= head - Confirmations
      PROVE  FinalRows'
  BY <1>1, <1>5 DEF FinalRows
<1>6. ASSUME pc = "range", start <= to
      PROVE  \A t \in LogsBetween(step, start, ChunkEnd, watch) :
               block[t] > 0 /\ block[t] <= head - Confirmations
  <2>1. /\ start \in Nat /\ start > 0 /\ to \in Nat /\ to <= head - Confirmations
        /\ Chunk \in Nat
    BY <1>1, <1>6, RangeType, <1>3
  <2>2. ChunkEnd \in Int /\ ChunkEnd <= to
    BY <2>1 DEF ChunkEnd, Smaller
  <2> QED BY <1>3, <2>1, <2>2 DEF LogsBetween
<1>7. ASSUME NEW S \in SUBSET Transfers, NewBlock(S) PROVE FinalRows'
  <2>1. /\ head' = head + 1 /\ row' = row /\ budget' = budget
        /\ \A t \in Transfers : block[t] > 0 => block'[t] = block[t]
    BY <1>3, <1>7 DEF NewBlock
  <2> QED BY <1>1, <1>3, <2>1 DEF FinalRows
<1>8. ASSUME NEW n \in 1..MaxReorg, Reorg(n) PROVE FinalRows'
  <2>1. /\ head' = head /\ row' = row /\ budget'.rescans = budget.rescans
        /\ \A t \in Transfers : block[t] <= head - n => block'[t] = block[t]
    BY <1>3, <1>4, <1>8 DEF Reorg
  <2> QED BY <1>1, <1>3, <2>1 DEF FinalRows
<1>9. CASE \/ \E u \in Users : CreateAddress(u)
           \/ ListAddresses \/ ReadHead \/ UpToDate \/ BeginRange \/ AdvanceCursor \/ HoldCursor
           \/ UNCHANGED vars
  <2>1. UNCHANGED <<head, block, row, budget>>
    BY <1>9 DEF CreateAddress, ListAddresses, ReadHead, UpToDate, BeginRange, AdvanceCursor,
                HoldCursor, vars, chain
  <2> QED BY <1>5, <2>1
<1>10. CASE FirstRun
  <2>1. UNCHANGED <<head, block, row>> /\ budget'.rescans = budget.rescans
    BY <1>1, <1>10 DEF FirstRun, chain, Shape, BudgetType
  <2> QED BY <1>5, <2>1
<1>11. CASE ScanChunk
  <2>1. /\ pc = "range" /\ start <= to
        /\ row' = row \union LogsBetween(step, start, ChunkEnd, watch)
        /\ UNCHANGED <<head, block, budget>>
    BY <1>11 DEF ScanChunk, chain
  <2> QED BY <1>5, <1>6, <2>1
<1>12. CASE ChunkFails
  <2>1. /\ pc = "range" /\ start <= to /\ UNCHANGED <<head, block>>
        /\ budget'.rescans = budget.rescans
    BY <1>3, <1>4, <1>12 DEF ChunkFails, chain
  <2>2. row' \ row \subseteq LogsBetween(step, start, ChunkEnd, watch)
    BY <1>12 DEF ChunkFails
  <2> QED BY <1>5, <1>6, <2>1, <2>2
<1>13. CASE TickEnds
  <2>1. UNCHANGED <<head, block, row>> /\ budget'.rescans = budget.rescans
    BY <1>3, <1>4, <1>13 DEF TickEnds, chain
  <2> QED BY <1>5, <2>1
<1>14. ASSUME NEW first \in 1..MaxHead, NEW last \in 1..MaxHead, Rescan(first, last)
       PROVE  FinalRows'
  <2>1. budget'.rescans = budget.rescans + 1
    BY <1>1, <1>14 DEF Rescan, Spend, Shape, BudgetType
  <2> QED BY <1>3, <2>1 DEF FinalRows
<1> QED BY <1>7, <1>8, <1>9, <1>10, <1>11, <1>12, <1>13, <1>14 DEF Next, Scan

-----------------------------------------------------------------------------
(* The types of the scanner, for every value of its constants. *)
THEOREM TypeCorrect == Spec => []TypeOK
<1>1. Init => Shape /\ Heads
  BY InitHolds DEF SkipInv
<1>2. Shape /\ Heads /\ [Next]_vars => (Shape /\ Heads)'
  BY ShapeHolds
<1>3. Shape => TypeOK
  BY DEF Shape
<1> QED BY <1>1, <1>2, <1>3, PTL DEF Spec

(* "Skipping a range (...) would lose a deposit permanently": the cursors  *)
(* pass no deposit without its row, with any span, chunks, failures,       *)
(* restarts, rescans and reorganisations, even deep ones, if no more       *)
(* blocks than the confirmations are mined while a tick waits for the      *)
(* head.                                                                   *)
THEOREM NothingSkipped ==
  ASSUME MaxStall <= Confirmations
  PROVE  Spec => []NoDepositSkipped
<1>1. Init => SkipInv
  BY InitHolds
<1>2. SkipInv /\ [Next]_vars => SkipInv'
  BY SkipHolds
<1>3. SkipInv => NoDepositSkipped
  BY DEF SkipInv
<1> QED BY <1>1, <1>2, <1>3, PTL DEF Spec

(* The confirmations do what they are for: unless an admin rescanned       *)
(* blocks that were not final, no credit row stands for a transfer that a  *)
(* reorganisation no deeper than them takes away.                          *)
THEOREM NothingPhantom ==
  ASSUME MaxReorg <= Confirmations
  PROVE  Spec => []NoPhantomCredit
<1>1. Init => PhantomInv
  BY InitHolds
<1>2. PhantomInv /\ [Next]_vars => PhantomInv'
  BY PhantomHolds
<1>3. PhantomInv => NoPhantomCredit
  BY DEF PhantomInv, FinalRows, NoPhantomCredit
<1> QED BY <1>1, <1>2, <1>3, PTL DEF Spec
=============================================================================
