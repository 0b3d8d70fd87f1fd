-------------------------- MODULE Trc20ScannerProofs --------------------------
(***************************************************************************)
(* That every user has one address of his own, and that the scanner gives  *)
(* each transfer to it one row and passes none, for any number of users,   *)
(* requests, scripts, mnemonics, restarts, transfers, faults and rescans.  *)
(*                                                                         *)
(* OneAddressEach is not inductive: it says nothing of rows that were not  *)
(* shown yet, nor of the keys that calls hold.  The argument is that a row *)
(* is made only where no other has its user or its key, that rows stay,    *)
(* and that what is shown is in a row.  That a loser finds the winner's    *)
(* row needs more: an index is drawn once, so it lost by its user.         *)
(*                                                                         *)
(* The same makes the rows an AddressBook: what a step inserts, or shows,  *)
(* is an entry of it, and no step takes one away.                          *)
(*                                                                         *)
(* CreditsExact is about cursors, and a scan moves one by what it read     *)
(* before: see ScanInv.                                                    *)
(***************************************************************************)
EXTENDS Trc20Scanner, FiniteSetTheorems, FunctionTheorems, SequenceTheorems, TLAPS

-----------------------------------------------------------------------------
(* The addresses *)

(* The two unique indexes hold. *)
RowsUnique == \A r, q \in row : (r.user = q.user \/ r.key = q.key) => r = q

ShownInRows == \A x \in shown : \E r \in row : r.user = x.user /\ r.key = x.key

LosersHaveRows ==
  \A c \in Requests : request[c].pc = "reread" => \E r \in row : r.user = request[c].user

(* A key that was drawn, when n indices were, and is in no row of R. *)
Unused(k, n, R) == k.index <= n /\ \A r \in R : r.key.index # k.index

(* An index is held by one call, or used in rows, or still to be drawn. *)
DrawnOnce ==
  /\ \A r \in row : r.key.index <= counter
  /\ \A c \in Requests : request[c].pc = "create" => Unused(request[c].key, counter, row)
  /\ \A s \in Scripts : script[s].pc = "insert" => Unused(script[s].key, counter, row)
  /\ \A c, d \in Requests :
       c # d /\ request[c].pc = "create" /\ request[d].pc = "create"
         => request[c].key.index # request[d].key.index
  /\ \A s, t \in Scripts :
       s # t /\ script[s].pc = "insert" /\ script[t].pc = "insert"
         => script[s].key.index # script[t].key.index
  /\ \A c \in Requests, s \in Scripts :
       request[c].pc = "create" /\ script[s].pc = "insert"
         => request[c].key.index # script[s].key.index

AllocInv == AllocTypeOK /\ RowsUnique /\ ShownInRows /\ LosersHaveRows /\ DrawnOnce

-----------------------------------------------------------------------------
(* The keys that an environment makes are keys. *)
LEMMA KeyType ==
  ASSUME NEW env \in Environments, NEW n \in Nat
  PROVE  /\ KeyFor(env, n) \in Keys /\ KeyFor(env, n).index = n
         /\ Stored(env) \in BOOLEAN
BY AllocationAssumption DEF KeyFor, Keys, Stored

(* A call that is reset holds nothing. *)
LEMMA AskingType ==
  ASSUME NEW u \in Users
  PROVE  /\ Asking(u) \in RequestStates
         /\ Asking(u).pc = "idle" /\ Asking(u).user = u
BY DEF Asking, RequestStates, Keys, NoKey

(* The next target of a script is one of its users. *)
LEMMA TargetType ==
  ASSUME NEW S \in SUBSET Users, S # {}
  PROVE  (CHOOSE v \in S : TRUE) \in S
OBVIOUS

-----------------------------------------------------------------------------
(* The initial states have no rows, and no call has drawn anything. *)
LEMMA AllocInitHolds == AllocInit => AllocInv
<1> SUFFICES ASSUME AllocInit PROVE AllocInv
  OBVIOUS
<1>1. /\ row = {} /\ counter = 0 /\ shown = {} /\ restarts = 0 /\ config \in Environments
  BY DEF AllocInit
<1>2. /\ request \in [Requests -> RequestStates]
      /\ \A c \in Requests : request[c].pc = "idle"
  BY AskingType DEF AllocInit
<1>3. /\ script \in [Scripts -> ScriptStates]
      /\ \A s \in Scripts : script[s].pc = "ready"
  <2>1. \A todo \in SUBSET Users, env \in Environments :
          /\ Script("ready", todo, env) \in ScriptStates
          /\ Script("ready", todo, env).pc = "ready"
    BY DEF Script, ScriptStates, Keys, NoKey
  <2> QED BY <2>1 DEF AllocInit
<1>4. AllocTypeOK
  BY <1>1, <1>2, <1>3 DEF AllocTypeOK
<1>5. RowsUnique /\ ShownInRows
  BY <1>1 DEF RowsUnique, ShownInRows
<1>6. LosersHaveRows
  BY <1>2 DEF LosersHaveRows
<1>7. DrawnOnce
  BY <1>1, <1>2, <1>3 DEF DrawnOnce
<1> QED BY <1>4, <1>5, <1>6, <1>7 DEF AllocInv

-----------------------------------------------------------------------------
(* A request that ends shows nothing, or an address that is in a row. *)
LEMMA ReturnHolds ==
  ASSUME AllocInv, NEW c \in Requests, NEW r \in row, r.user = request[c].user,
         Return(c, r.user, r.key),
         UNCHANGED <<row, counter, config, script, restarts>>
  PROVE  AllocInv'
<1> USE DEF AllocInv
<1>1. r \in Rows /\ request[c] \in RequestStates /\ request[c].user \in Users
  BY DEF AllocTypeOK, RequestStates
<1>2. /\ request' = [request EXCEPT ![c] = Asking(request[c].user)]
      /\ shown' = shown \union {[user |-> r.user, key |-> r.key]}
  BY DEF Return, AllocTypeOK
<1>3. AllocTypeOK'
  BY <1>1, <1>2, AskingType DEF AllocTypeOK, Rows, Shown
<1>4. \A d \in Requests : /\ d # c => request'[d] = request[d]
                          /\ request'[c].pc = "idle"
  BY <1>1, <1>2, AskingType DEF AllocTypeOK
<1>5. (RowsUnique /\ ShownInRows)'
  BY <1>2 DEF RowsUnique, ShownInRows
<1>6. LosersHaveRows'
  BY <1>4 DEF LosersHaveRows
<1>7. DrawnOnce'
  BY <1>4 DEF DrawnOnce, Unused
<1> QED BY <1>3, <1>5, <1>6, <1>7

(* A request that fails leaves everything as it was. *)
LEMMA FailHolds ==
  ASSUME AllocInv, NEW c \in Requests, Fail(c),
         UNCHANGED <<row, counter, config, script, restarts>>
  PROVE  AllocInv'
<1> USE DEF AllocInv
<1>1. request[c].user \in Users
  BY DEF AllocTypeOK, RequestStates
<1>2. request' = [request EXCEPT ![c] = Asking(request[c].user)] /\ UNCHANGED shown
  BY DEF Fail, AllocTypeOK
<1>3. AllocTypeOK'
  BY <1>1, <1>2, AskingType DEF AllocTypeOK
<1>4. \A d \in Requests : /\ d # c => request'[d] = request[d]
                          /\ request'[c].pc = "idle"
  BY <1>1, <1>2, AskingType DEF AllocTypeOK
<1>5. (RowsUnique /\ ShownInRows)'
  BY <1>2 DEF RowsUnique, ShownInRows
<1>6. LosersHaveRows'
  BY <1>4 DEF LosersHaveRows
<1>7. DrawnOnce'
  BY <1>4 DEF DrawnOnce, Unused
<1> QED BY <1>3, <1>5, <1>6, <1>7

(* A request without a row goes on to draw an index. *)
LEMMA FindNoneHolds ==
  ASSUME AllocInv, NEW c \in Requests, FindNone(c)
  PROVE  AllocInv'
<1> USE DEF AllocInv
<1>1. /\ request' = [request EXCEPT ![c].pc = "index"]
      /\ UNCHANGED <<row, counter, config, script, shown, restarts>>
  BY DEF FindNone
<1>2. AllocTypeOK'
  BY <1>1 DEF AllocTypeOK, RequestStates
<1>3. \A d \in Requests : d # c => request'[d] = request[d]
  BY <1>1 DEF AllocTypeOK
<1>4. request'[c].pc = "index"
  BY <1>1 DEF AllocTypeOK, RequestStates
<1>5. (RowsUnique /\ ShownInRows)'
  BY <1>1 DEF RowsUnique, ShownInRows
<1>6. LosersHaveRows'
  BY <1>1, <1>3, <1>4 DEF LosersHaveRows
<1>7. DrawnOnce'
  BY <1>1, <1>3, <1>4 DEF DrawnOnce, Unused
<1> QED BY <1>2, <1>5, <1>6, <1>7

(* A key stays unused while indices are drawn and no row is made. *)
LEMMA LaterUnused ==
  ASSUME counter \in Nat, counter' = counter + 1, row' = row,
         NEW k, k.index \in Nat, Unused(k, counter, row)
  PROVE  Unused(k, counter', row')
BY DEF Unused

(* The index a request draws is one that nobody holds and no row has. *)
LEMMA NextIndexHolds ==
  ASSUME AllocInv, NEW c \in Requests, NextIndex(c)
  PROVE  AllocInv'
<1> USE DEF AllocInv
<1> DEFINE k == KeyFor(config, counter + 1)
<1>1. k \in Keys /\ k.index = counter + 1 /\ Stored(config) \in BOOLEAN
  BY KeyType DEF AllocTypeOK
<1> HIDE DEF k
<1>2. /\ counter' = counter + 1
      /\ request' = [request EXCEPT ![c].pc = "create", ![c].key = k,
                                    ![c].cipher = Stored(config)]
      /\ UNCHANGED <<row, config, script, shown, restarts>>
  BY DEF NextIndex, k
<1>3. AllocTypeOK'
  <2>1. [request[c] EXCEPT !.pc = "create", !.key = k, !.cipher = Stored(config)]
          \in RequestStates
    BY <1>1 DEF AllocTypeOK, RequestStates
  <2>2. request' \in [Requests -> RequestStates]
    BY <1>2, <2>1 DEF AllocTypeOK
  <2>3. counter' \in Nat
    BY <1>2 DEF AllocTypeOK
  <2> QED BY <1>2, <2>2, <2>3 DEF AllocTypeOK
<1>4. \A d \in Requests : d # c => request'[d] = request[d]
  BY <1>2 DEF AllocTypeOK
<1>5. request'[c].pc = "create" /\ request'[c].key = k
  BY <1>2 DEF AllocTypeOK, RequestStates
<1>6. (RowsUnique /\ ShownInRows)'
  BY <1>2 DEF RowsUnique, ShownInRows
<1>7. LosersHaveRows'
  BY <1>2, <1>4, <1>5 DEF LosersHaveRows
<1>8. DrawnOnce'
  <2>1. counter \in Nat
    BY DEF AllocTypeOK
  <2>2. /\ \A r \in row : r.key.index \in Nat
        /\ \A d \in Requests : request[d].key.index \in Nat
        /\ \A s \in Scripts : script[s].key.index \in Nat
    BY DEF AllocTypeOK, Rows, Keys, RequestStates, ScriptStates
  <2>3. \A r \in row' : r.key.index <= counter' /\ r.key.index # k.index
    BY <1>1, <1>2, <2>1, <2>2 DEF DrawnOnce
  <2>4. \A d \in Requests : request'[d].pc = "create" => Unused(request'[d].key, counter', row')
    <3>1. Unused(k, counter', row')
      BY <1>1, <1>2, <2>1, <2>3 DEF Unused
    <3>2. \A d \in Requests : d # c /\ request[d].pc = "create"
                               => Unused(request[d].key, counter', row')
      BY <1>2, <2>1, <2>2, LaterUnused DEF DrawnOnce
    <3> QED BY <1>4, <1>5, <3>1, <3>2
  <2>5. \A s \in Scripts : script'[s].pc = "insert" => Unused(script'[s].key, counter', row')
    BY <1>2, <2>1, <2>2, LaterUnused DEF DrawnOnce
  <2>6. \A d \in Requests : d # c /\ request[d].pc = "create"
                             => request[d].key.index # k.index
    BY <1>1, <2>1, <2>2 DEF DrawnOnce, Unused
  <2>7. \A s \in Scripts : script[s].pc = "insert" => script[s].key.index # k.index
    BY <1>1, <2>1, <2>2 DEF DrawnOnce, Unused
  <2>8. \A d, e \in Requests :
          d # e /\ request'[d].pc = "create" /\ request'[e].pc = "create"
            => request'[d].key.index # request'[e].key.index
    BY <1>4, <1>5, <2>6 DEF DrawnOnce
  <2>9. \A d \in Requests, s \in Scripts :
          request'[d].pc = "create" /\ script'[s].pc = "insert"
            => request'[d].key.index # script'[s].key.index
    <3>1. script' = script
      BY <1>2
    <3> QED BY <1>4, <1>5, <2>7, <3>1 DEF DrawnOnce
  <2> QED BY <1>2, <2>3, <2>4, <2>5, <2>8, <2>9 DEF DrawnOnce
<1> QED BY <1>3, <1>6, <1>7, <1>8

(* A new row of a user who had none, under an index no other call holds. *)
LEMMA RowAdded ==
  ASSUME AllocInv, NEW u \in Users, NEW k \in Keys, NEW cipher \in BOOLEAN,
         ~Clashes(u, k), Unused(k, counter, row),
         row' = row \union {NewRow(u, k, cipher)}, counter' = counter
  PROVE  /\ row' \subseteq Rows
         /\ RowsUnique'
         /\ \E r \in row' : r.user = u /\ r.key = k
         /\ \A r \in row' : r.key.index <= counter'
         /\ \A j : Unused(j, counter, row) /\ j.index # k.index => Unused(j, counter', row')
<1> DEFINE new == NewRow(u, k, cipher)
<1>1. new \in Rows /\ new.user = u /\ new.key = k
  BY DEF NewRow, Rows
<1>2. row' = row \union {new}
  OBVIOUS
<1> HIDE DEF new
<1>3. \A r \in row : r.user # u /\ r.key # k
  BY DEF Clashes
<1>4. row' \subseteq Rows
  BY <1>1, <1>2 DEF AllocInv, AllocTypeOK
<1>5. RowsUnique'
  BY <1>1, <1>2, <1>3 DEF AllocInv, RowsUnique
<1>6. \A r \in row' : r.key.index <= counter'
  BY <1>1, <1>2 DEF AllocInv, DrawnOnce, Unused
<1>7. ASSUME NEW j, Unused(j, counter, row), j.index # k.index
      PROVE  Unused(j, counter', row')
  BY <1>1, <1>2, <1>7 DEF Unused
<1> QED BY <1>1, <1>2, <1>4, <1>5, <1>6, <1>7

(* The insert of a request: a row of its own, or a loss to another row of  *)
(* the same user, for the key it holds is in no row.                       *)
LEMMA CreateRowHolds ==
  ASSUME AllocInv, NEW c \in Requests, CreateRow(c)
  PROVE  AllocInv'
<1> USE DEF AllocInv
<1> DEFINE u == request[c].user
           k == request[c].key
<1>1. /\ request[c].pc = "create"
      /\ u \in Users /\ k \in Keys /\ request[c].cipher \in BOOLEAN
  BY DEF CreateRow, AllocTypeOK, RequestStates
<1>2. Unused(k, counter, row)
  BY <1>1 DEF DrawnOnce
<1>3. UNCHANGED <<counter, config, script, restarts>>
  BY DEF CreateRow
<1>4. CASE Clashes(u, k)
  <2>1. /\ request' = [request EXCEPT ![c].pc = "reread"]
        /\ UNCHANGED <<row, shown>>
    BY <1>4 DEF CreateRow
  <2>2. AllocTypeOK'
    BY <1>3, <2>1 DEF AllocTypeOK, RequestStates
  <2>3. \A d \in Requests : d # c => request'[d] = request[d]
    BY <2>1 DEF AllocTypeOK
  <2>4. request'[c].pc = "reread" /\ request'[c].user = u
    BY <2>1 DEF AllocTypeOK, RequestStates
  <2>5. \E r \in row : r.user = u
    BY <1>2, <1>4 DEF Clashes, Unused
  <2>6. (RowsUnique /\ ShownInRows)'
    BY <2>1 DEF RowsUnique, ShownInRows
  <2>7. LosersHaveRows'
    BY <2>1, <2>3, <2>4, <2>5 DEF LosersHaveRows
  <2>8. DrawnOnce'
    BY <1>3, <2>1, <2>3, <2>4 DEF DrawnOnce, Unused
  <2> QED BY <2>2, <2>6, <2>7, <2>8
<1>5. CASE ~Clashes(u, k)
  <2>1. /\ row' = row \union {NewRow(u, k, request[c].cipher)}
        /\ Return(c, u, k)
    BY <1>5 DEF CreateRow
  <2>2. /\ request' = [request EXCEPT ![c] = Asking(u)]
        /\ shown' = shown \union {[user |-> u, key |-> k]}
    BY <2>1 DEF Return, AllocTypeOK
  <2>3. /\ row' \subseteq Rows
        /\ RowsUnique'
        /\ \E r \in row' : r.user = u /\ r.key = k
        /\ \A r \in row' : r.key.index <= counter'
        /\ \A j : Unused(j, counter, row) /\ j.index # k.index => Unused(j, counter', row')
    <3>1. counter' = counter /\ row' = row \union {NewRow(u, k, request[c].cipher)}
      BY <1>3, <2>1
    <3> HIDE DEF u, k, AllocInv
    <3>2. AllocInv /\ u \in Users /\ k \in Keys /\ request[c].cipher \in BOOLEAN
      BY <1>1
    <3> QED BY <1>2, <1>5, <3>1, <3>2, RowAdded, ZenonT(30)
  <2>4. \A d \in Requests : /\ d # c => request'[d] = request[d]
                            /\ request'[c].pc = "idle"
    BY <1>1, <2>2, AskingType DEF AllocTypeOK
  <2>5. AllocTypeOK'
    BY <1>1, <1>3, <2>2, <2>3, AskingType DEF AllocTypeOK, Shown
  <2>6. ShownInRows'
    BY <2>1, <2>2, <2>3 DEF ShownInRows
  <2>7. LosersHaveRows'
    BY <2>1, <2>4 DEF LosersHaveRows
  <2>8. DrawnOnce'
    <3>1. \A d \in Requests : request'[d].pc = "create" => Unused(request'[d].key, counter', row')
      BY <1>1, <2>3, <2>4 DEF DrawnOnce
    <3>2. \A s \in Scripts : script'[s].pc = "insert" => Unused(script'[s].key, counter', row')
      BY <1>1, <1>3, <2>3 DEF DrawnOnce
    <3> QED BY <1>3, <2>3, <2>4, <3>1, <3>2 DEF DrawnOnce
  <2> QED BY <2>3, <2>5, <2>6, <2>7, <2>8
<1> QED BY <1>4, <1>5

-----------------------------------------------------------------------------
(* A script that only moves on draws and inserts nothing. *)
LEMMA ScriptMoves ==
  ASSUME AllocInv, NEW s \in Scripts, NEW S \in ScriptStates,
         S.pc # "insert", S.pc = "index" => S.todo # {},
         script' = [script EXCEPT ![s] = S],
         UNCHANGED <<row, counter, config, request, shown, restarts>>
  PROVE  AllocInv'
<1> USE DEF AllocInv
<1>1. AllocTypeOK'
  BY DEF AllocTypeOK
<1>2. script'[s].pc # "insert" /\ \A t \in Scripts : t # s => script'[t] = script[t]
  BY DEF AllocTypeOK
<1>3. (RowsUnique /\ ShownInRows /\ LosersHaveRows)'
  BY DEF RowsUnique, ShownInRows, LosersHaveRows
<1>4. DrawnOnce'
  BY <1>2 DEF DrawnOnce, Unused
<1> QED BY <1>1, <1>3, <1>4

(* A script that starts, and one that looks at its next target. *)
LEMMA FindHolds ==
  ASSUME AllocInv, NEW s \in Scripts, RunScript(s) \/ ScriptFind(s)
  PROVE  AllocInv'
<1> DEFINE todo == script[s].todo
           u == CHOOSE v \in todo : TRUE
<1>1. script[s] \in ScriptStates /\ script \in [Scripts -> ScriptStates]
  BY DEF AllocInv, AllocTypeOK
<1>2. UNCHANGED <<row, counter, config, request, shown, restarts>>
  BY DEF RunScript, ScriptFind
<1>3. CASE RunScript(s)
  <2>1. [script[s] EXCEPT !.pc = "find"] \in ScriptStates
    BY <1>1 DEF ScriptStates
  <2>2. script' = [script EXCEPT ![s] = [script[s] EXCEPT !.pc = "find"]]
    BY <1>3 DEF RunScript
  <2> QED BY <1>1, <1>2, <2>1, <2>2, ScriptMoves DEF ScriptStates
<1>4. CASE ScriptFind(s) /\ todo = {}
  <2>1. [script[s] EXCEPT !.pc = "done"] \in ScriptStates
    BY <1>1 DEF ScriptStates
  <2>2. script' = [script EXCEPT ![s] = [script[s] EXCEPT !.pc = "done"]]
    BY <1>4 DEF ScriptFind
  <2> QED BY <1>1, <1>2, <2>1, <2>2, ScriptMoves DEF ScriptStates
<1>5. CASE ScriptFind(s) /\ todo # {} /\ RowsOf(u) # {}
  <2>1. /\ [script[s] EXCEPT !.todo = @ \ {u}] \in ScriptStates
        /\ [script[s] EXCEPT !.todo = @ \ {u}].pc = "find"
    BY <1>1, <1>5 DEF ScriptStates, ScriptFind
  <2>2. script' = [script EXCEPT ![s] = [script[s] EXCEPT !.todo = @ \ {u}]]
    BY <1>5 DEF ScriptFind
  <2> QED BY <1>1, <1>2, <2>1, <2>2, ScriptMoves
<1>6. CASE ScriptFind(s) /\ todo # {} /\ RowsOf(u) = {}
  <2>1. /\ [script[s] EXCEPT !.pc = "index"] \in ScriptStates
        /\ [script[s] EXCEPT !.pc = "index"].pc # "insert"
        /\ [script[s] EXCEPT !.pc = "index"].todo # {}
    BY <1>1, <1>6 DEF ScriptStates
  <2>2. script' = [script EXCEPT ![s] = [script[s] EXCEPT !.pc = "index"]]
    BY <1>6 DEF ScriptFind
  <2> QED BY <1>1, <1>2, <2>1, <2>2, ScriptMoves
<1> QED BY <1>3, <1>4, <1>5, <1>6

(* The index a script draws is one that nobody holds and no row has. *)
LEMMA ScriptIndexHolds ==
  ASSUME AllocInv, NEW s \in Scripts, ScriptIndex(s)
  PROVE  AllocInv'
<1> USE DEF AllocInv
<1> DEFINE k == KeyFor(script[s].env, counter + 1)
<1>1. /\ counter \in Nat
      /\ script \in [Scripts -> ScriptStates] /\ script[s].pc = "index"
      /\ script[s].todo # {} /\ script[s].env \in Environments
  BY DEF AllocTypeOK, ScriptIndex, ScriptStates
<1>2. k \in Keys /\ k.index = counter + 1
  BY <1>1, KeyType
<1> HIDE DEF k
<1>3. /\ counter' = counter + 1
      /\ script' = [script EXCEPT ![s] = [script[s] EXCEPT !.pc = "insert", !.key = k]]
      /\ row' = row /\ config' = config /\ request' = request
      /\ shown' = shown /\ restarts' = restarts
  <2>1. script' = [script EXCEPT ![s].pc = "insert", ![s].key = k]
    BY DEF ScriptIndex, k
  <2> QED BY <1>1, <2>1 DEF ScriptIndex
<1>4. /\ [script[s] EXCEPT !.pc = "insert", !.key = k] \in ScriptStates
      /\ [script[s] EXCEPT !.pc = "insert", !.key = k].todo # {}
  BY <1>1, <1>2 DEF ScriptStates
<1>5. /\ script'[s].pc = "insert" /\ script'[s].key = k
      /\ \A t \in Scripts : t # s => script'[t] = script[t]
  BY <1>1, <1>3 DEF ScriptStates
<1>6. AllocTypeOK'
  BY <1>1, <1>3, <1>4 DEF AllocTypeOK
<1>7. (RowsUnique /\ ShownInRows /\ LosersHaveRows)'
  BY <1>3 DEF RowsUnique, ShownInRows, LosersHaveRows
<1>8. DrawnOnce'
  <2>1. /\ \A r \in row : r.key.index \in Nat
        /\ \A c \in Requests : request[c].key.index \in Nat
        /\ \A t \in Scripts : script[t].key.index \in Nat
    BY DEF AllocTypeOK, Rows, Keys, RequestStates, ScriptStates
  <2>2. \A r \in row' : r.key.index <= counter' /\ r.key.index # k.index
    BY <1>1, <1>2, <1>3, <2>1 DEF DrawnOnce
  <2>3. \A c \in Requests : request'[c].pc = "create" => Unused(request'[c].key, counter', row')
    BY <1>1, <1>3, <2>1, LaterUnused DEF DrawnOnce
  <2>4. \A t \in Scripts : script'[t].pc = "insert" => Unused(script'[t].key, counter', row')
    <3>1. Unused(k, counter', row')
      BY <1>1, <1>2, <1>3, <2>2 DEF Unused
    <3>2. \A t \in Scripts : t # s /\ script[t].pc = "insert"
                             => Unused(script[t].key, counter', row')
      BY <1>1, <1>3, <2>1, LaterUnused DEF DrawnOnce
    <3> QED BY <1>5, <3>1, <3>2
  <2>5. \A t \in Scripts : t # s /\ script[t].pc = "insert"
                           => script[t].key.index # k.index
    BY <1>1, <1>2, <2>1 DEF DrawnOnce, Unused
  <2>6. \A c \in Requests : request[c].pc = "create" => request[c].key.index # k.index
    BY <1>1, <1>2, <2>1 DEF DrawnOnce, Unused
  <2>7. \A t, v \in Scripts :
          t # v /\ script'[t].pc = "insert" /\ script'[v].pc = "insert"
            => script'[t].key.index # script'[v].key.index
    BY <1>5, <2>5 DEF DrawnOnce
  <2>8. \A c \in Requests, t \in Scripts :
          request'[c].pc = "create" /\ script'[t].pc = "insert"
            => request'[c].key.index # script'[t].key.index
    <3>1. request' = request
      BY <1>3
    <3> QED BY <1>5, <2>6, <3>1 DEF DrawnOnce
  <2>9. \A c, d \in Requests :
          c # d /\ request'[c].pc = "create" /\ request'[d].pc = "create"
            => request'[c].key.index # request'[d].key.index
    BY <1>3 DEF DrawnOnce
  <2> QED BY <2>2, <2>3, <2>4, <2>7, <2>8, <2>9 DEF DrawnOnce
<1> QED BY <1>6, <1>7, <1>8

(* The insert of a script: its target's row, or the end of the run. *)
LEMMA ScriptInsertHolds ==
  ASSUME AllocInv, NEW s \in Scripts, ScriptInsert(s)
  PROVE  AllocInv'
<1> DEFINE todo == script[s].todo
           u == CHOOSE v \in todo : TRUE
           k == script[s].key
           cipher == Stored(script[s].env)
<1>1. /\ script \in [Scripts -> ScriptStates] /\ script[s] \in ScriptStates
      /\ script[s].pc = "insert"
  BY DEF AllocInv, AllocTypeOK, ScriptInsert
<1>2. todo # {} /\ todo \subseteq Users /\ k \in Keys
  BY <1>1 DEF AllocInv, AllocTypeOK, ScriptStates
<1>3. u \in Users /\ cipher \in BOOLEAN
  BY <1>2, AllocationAssumption DEF Stored
<1>4. Unused(k, counter, row)
  BY <1>1 DEF AllocInv, DrawnOnce
<1>5. /\ counter' = counter /\ config' = config /\ request' = request
      /\ shown' = shown /\ restarts' = restarts
  BY DEF ScriptInsert
<1>6. CASE Clashes(u, k)
  <2>1. /\ script' = [script EXCEPT ![s] = [script[s] EXCEPT !.pc = "done", !.key = NoKey]]
        /\ row' = row
    BY <1>1, <1>6 DEF ScriptInsert
  <2>2. /\ [script[s] EXCEPT !.pc = "done", !.key = NoKey] \in ScriptStates
        /\ [script[s] EXCEPT !.pc = "done", !.key = NoKey].pc = "done"
    BY <1>1 DEF ScriptStates, NoKey, Keys
  <2> QED BY <1>5, <2>1, <2>2, ScriptMoves
<1>7. CASE ~Clashes(u, k)
  <2> DEFINE S == [script[s] EXCEPT !.pc = "find", !.key = NoKey, !.todo = @ \ {u}]
  <2>1. /\ script' = [script EXCEPT ![s] = S]
        /\ row' = row \union {NewRow(u, k, cipher)}
    BY <1>1, <1>7 DEF ScriptInsert
  <2>2. S \in ScriptStates /\ S.pc = "find"
    BY <1>1 DEF ScriptStates, NoKey, Keys
  <2> HIDE DEF S, u, k, cipher
  <2>3. /\ row' \subseteq Rows
        /\ RowsUnique'
        /\ \A r \in row' : r.key.index <= counter'
        /\ \A j : Unused(j, counter, row) /\ j.index # k.index => Unused(j, counter', row')
    BY <1>2, <1>3, <1>4, <1>5, <1>7, <2>1, RowAdded, ZenonT(30)
  <2>4. /\ script'[s].pc = "find"
        /\ \A t \in Scripts : t # s => script'[t] = script[t]
    BY <1>1, <2>1, <2>2
  <2>5. AllocTypeOK'
    BY <1>1, <1>5, <2>1, <2>2, <2>3 DEF AllocInv, AllocTypeOK
  <2>6. (ShownInRows /\ LosersHaveRows)'
    BY <1>5, <2>1 DEF AllocInv, ShownInRows, LosersHaveRows
  <2>7. DrawnOnce'
    <3>1. \A c \in Requests : request'[c].pc = "create" => Unused(request'[c].key, counter', row')
      BY <1>1, <1>5, <2>3 DEF AllocInv, DrawnOnce, k
    <3>2. \A t \in Scripts : script'[t].pc = "insert" => Unused(script'[t].key, counter', row')
      BY <1>1, <2>3, <2>4 DEF AllocInv, DrawnOnce, k
    <3> QED BY <1>5, <2>3, <2>4, <3>1, <3>2 DEF AllocInv, DrawnOnce
  <2> QED BY <2>3, <2>5, <2>6, <2>7 DEF AllocInv
<1> QED BY <1>6, <1>7

-----------------------------------------------------------------------------
(* A restart loses the requests under way, and what they had drawn. *)
LEMMA ReconfigureHolds ==
  ASSUME AllocInv, NEW env \in Environments, Reconfigure(env)
  PROVE  AllocInv'
<1> USE DEF AllocInv
<1>1. /\ restarts' = restarts + 1 /\ config' = env
      /\ request' = [c \in Requests |-> Asking(request[c].user)]
      /\ UNCHANGED <<row, counter, script, shown>>
  BY DEF Reconfigure
<1>2. \A c \in Requests : request[c].user \in Users
  BY DEF AllocTypeOK, RequestStates
<1>3. /\ request' \in [Requests -> RequestStates]
      /\ \A c \in Requests : request'[c].pc = "idle"
  BY <1>1, <1>2, AskingType
<1>4. AllocTypeOK'
  BY <1>1, <1>3 DEF AllocTypeOK
<1>5. (RowsUnique /\ ShownInRows)'
  BY <1>1 DEF RowsUnique, ShownInRows
<1>6. LosersHaveRows'
  BY <1>3 DEF LosersHaveRows
<1>7. DrawnOnce'
  BY <1>1, <1>3 DEF DrawnOnce
<1> QED BY <1>4, <1>5, <1>6, <1>7

(* Every step keeps the invariant. *)
LEMMA AllocStepHolds == AllocInv /\ [AllocNext]_allocVars => AllocInv'
<1> SUFFICES ASSUME AllocInv, [AllocNext]_allocVars PROVE AllocInv'
  OBVIOUS
<1>1. ASSUME NEW c \in Requests, FindExisting(c) PROVE AllocInv'
  BY <1>1, ReturnHolds DEF FindExisting, RowsOf
<1>2. ASSUME NEW c \in Requests, Reread(c) PROVE AllocInv'
  <2>1. UNCHANGED <<row, counter, config, script, restarts>>
    BY <1>2 DEF Reread
  <2>2. CASE RowsOf(request[c].user) # {}
    BY <1>2, <2>1, <2>2, ReturnHolds DEF Reread, RowsOf
  <2>3. CASE RowsOf(request[c].user) = {}
    BY <1>2, <2>3 DEF Reread, RowsOf, AllocInv, LosersHaveRows
  <2> QED BY <2>2, <2>3
<1>3. ASSUME NEW c \in Requests, RequestThrows(c) PROVE AllocInv'
  BY <1>3, FailHolds DEF RequestThrows
<1>4. ASSUME NEW c \in Requests, RequestStep(c) PROVE AllocInv'
  BY <1>1, <1>2, <1>3, <1>4, FindNoneHolds, NextIndexHolds, CreateRowHolds DEF RequestStep
<1>5. ASSUME NEW s \in Scripts, ScriptStep(s) PROVE AllocInv'
  BY <1>5, FindHolds, ScriptIndexHolds, ScriptInsertHolds DEF ScriptStep
<1>6. CASE UNCHANGED allocVars
  BY <1>6 DEF allocVars, AllocInv, AllocTypeOK, RowsUnique, ShownInRows, LosersHaveRows,
              DrawnOnce
<1> QED BY <1>4, <1>5, <1>6, ReconfigureHolds DEF AllocNext

-----------------------------------------------------------------------------
(* AllocInv holds in every reachable state: the indexes of the collection  *)
(* hold, what is shown is in a row, and an index is never used twice.      *)
THEOREM AllocInvariant == AllocSpec => []AllocInv
<1>1. AllocInit => AllocInv
  BY AllocInitHolds
<1>2. AllocInv /\ [AllocNext]_allocVars => AllocInv'
  BY AllocStepHolds
<1> QED BY <1>1, <1>2, PTL DEF AllocSpec

(* The types of the allocation, for every value of its constants. *)
THEOREM AllocTypeCorrect == AllocSpec => []AllocTypeOK
<1>1. AllocInv => AllocTypeOK
  BY DEF AllocInv
<1> QED BY <1>1, AllocInvariant, PTL

(* What is shown is in a row, and rows are unique. *)
LEMMA AddressesFollow == AllocInv => OneAddressEach
<1> SUFFICES ASSUME AllocInv PROVE OneAddressEach
  OBVIOUS
<1>1. \A x \in shown : \E r \in row : r.user = x.user /\ r.key = x.key
  BY DEF AllocInv, ShownInRows
<1>2. \A x, y \in shown : x.user = y.user <=> x.key = y.key
  BY <1>1 DEF AllocInv, RowsUnique
<1>3. \A c \in Requests : request[c].pc = "reread" => RowsOf(request[c].user) # {}
  BY DEF AllocInv, LosersHaveRows, RowsOf
<1> QED BY <1>1, <1>2, <1>3 DEF OneAddressEach

(* Whatever requests and scripts race, lose and die, under whatever        *)
(* mnemonics, a user is shown one address, and it is in his row and in no  *)
(* other's; and who loses an insert always finds the winner's row, so the  *)
(* loop of getOrCreateDepositAddress never goes round.                     *)
THEOREM AddressesCorrect == AllocSpec => []OneAddressEach
BY AllocInvariant, AddressesFollow, PTL

-----------------------------------------------------------------------------
(* The rows are a book *)

EntryOf(r) == [user |-> r.user, key |-> r.key]
EntriesOf(R) == {EntryOf(r) : r \in R}

(* A row that differs from all others differs from them in user and key. *)
LEMMA EntriesUnique ==
  ASSUME AllocInv
  PROVE  /\ EntriesOf(row) \subseteq Book!Entries
         /\ \A e, f \in EntriesOf(row) : (e.user = f.user \/ e.key = f.key) => e = f
         /\ shown \subseteq EntriesOf(row)
<1>1. EntriesOf(row) \subseteq Book!Entries
  BY DEF AllocInv, AllocTypeOK, Rows, Book!Entries, EntriesOf, EntryOf
<1>2. ASSUME NEW e \in EntriesOf(row), NEW f \in EntriesOf(row), e.user = f.user \/ e.key = f.key
      PROVE  e = f
  <2>1. PICK r \in row : e = EntryOf(r)
    BY DEF EntriesOf
  <2>2. PICK q \in row : f = EntryOf(q)
    BY DEF EntriesOf
  <2>3. r = q
    BY <1>2, <2>1, <2>2 DEF EntryOf, AllocInv, RowsUnique
  <2> QED BY <2>1, <2>2, <2>3
<1>3. ASSUME NEW x \in shown PROVE x \in EntriesOf(row)
  <2>1. PICK r \in row : r.user = x.user /\ r.key = x.key
    BY DEF AllocInv, ShownInRows
  <2>2. x = EntryOf(r)
    BY <2>1 DEF AllocInv, AllocTypeOK, Shown, EntryOf
  <2> QED BY <2>2 DEF EntriesOf
<1> QED BY <1>1, <1>2, <1>3

(* A step that makes no row and shows nothing is a stutter of the book. *)
LEMMA BookRests ==
  ASSUME UNCHANGED <<row, shown>>
  PROVE  [Book!Next]_Book!vars
BY DEF Book!vars

(* To show the address of a row is to tell its entry. *)
LEMMA ReturnTells ==
  ASSUME AllocInv, NEW c \in Requests, NEW r \in row, Return(c, r.user, r.key),
         UNCHANGED row
  PROVE  [Book!Next]_Book!vars
<1> DEFINE e == EntryOf(r)
<1>1. e \in EntriesOf(row) /\ e \in Book!Entries
  BY EntriesUnique DEF EntriesOf
<1>2. shown' = shown \union {e} /\ EntriesOf(row)' = EntriesOf(row)
  BY DEF Return, EntriesOf, EntryOf
<1> HIDE DEF e
<1>3. Book!Tell(e)
  BY <1>1, <1>2 DEF Book!Tell, EntriesOf, EntryOf
<1> QED BY <1>1, <1>3 DEF Book!Next

(* To insert a row that clashes with none is to enter it. *)
LEMMA InsertEnters ==
  ASSUME AllocInv, NEW u \in Users, NEW k \in Keys, NEW cipher \in BOOLEAN,
         ~Clashes(u, k), row' = row \union {NewRow(u, k, cipher)},
         shown' \in {shown, shown \union {[user |-> u, key |-> k]}}
  PROVE  [Book!Next]_Book!vars
<1> DEFINE e == [user |-> u, key |-> k]
<1>1. e \in Book!Entries /\ e.user = u /\ e.key = k
  BY DEF Book!Entries
<1>2. \A f \in EntriesOf(row) : f.user # u /\ f.key # k
  BY DEF Clashes, EntriesOf, EntryOf
<1>3. EntryOf(NewRow(u, k, cipher)) = e
  BY DEF EntryOf, NewRow
<1>4. EntriesOf(row') = EntriesOf(row) \union {e}
  BY <1>3 DEF EntriesOf
<1> HIDE DEF e
<1>5. Book!Enter(e)
  <2>1. shown' \in {shown, shown \union {e}}
    BY DEF e
  <2> QED BY <1>1, <1>2, <1>4, <2>1 DEF Book!Enter, EntriesOf, EntryOf
<1> QED BY <1>1, <1>5 DEF Book!Next

(* Every step of the allocation is an entry, a showing or a stutter. *)
LEMMA AllocKeepsBook ==
  ASSUME AllocInv, [AllocNext]_allocVars
  PROVE  [Book!Next]_Book!vars
<1>1. ASSUME NEW c \in Requests, FindExisting(c) PROVE [Book!Next]_Book!vars
  BY <1>1, ReturnTells DEF FindExisting, RowsOf
<1>2. ASSUME NEW c \in Requests, Reread(c) PROVE [Book!Next]_Book!vars
  <2>1. UNCHANGED row
    BY <1>2 DEF Reread
  <2>2. CASE RowsOf(request[c].user) # {}
    BY <1>2, <2>1, <2>2, ReturnTells DEF Reread, RowsOf
  <2>3. CASE RowsOf(request[c].user) = {}
    BY <1>2, <2>1, <2>3, BookRests DEF Reread, Fail
  <2> QED BY <2>2, <2>3
<1>3. ASSUME NEW c \in Requests, CreateRow(c) PROVE [Book!Next]_Book!vars
  <2> DEFINE r == request[c]
  <2>1. r.user \in Users /\ r.key \in Keys /\ r.cipher \in BOOLEAN
    BY DEF AllocInv, AllocTypeOK, RequestStates
  <2>2. CASE Clashes(r.user, r.key)
    BY <1>3, <2>2, BookRests DEF CreateRow
  <2>3. CASE ~Clashes(r.user, r.key)
    <3>1. /\ row' = row \union {NewRow(r.user, r.key, r.cipher)}
          /\ shown' = shown \union {[user |-> r.user, key |-> r.key]}
      BY <1>3, <2>3 DEF CreateRow, Return
    <3> HIDE DEF r
    <3> QED BY <2>1, <2>3, <3>1, InsertEnters
  <2> QED BY <2>2, <2>3
<1>4. ASSUME NEW c \in Requests, FindNone(c) \/ NextIndex(c) \/ RequestThrows(c)
      PROVE  [Book!Next]_Book!vars
  BY <1>4, BookRests DEF FindNone, NextIndex, RequestThrows, Fail
<1>5. ASSUME NEW s \in Scripts, ScriptInsert(s) PROVE [Book!Next]_Book!vars
  <2> DEFINE u == CHOOSE v \in script[s].todo : TRUE
             k == script[s].key
             cipher == Stored(script[s].env)
  <2>1. u \in Users /\ k \in Keys /\ cipher \in BOOLEAN
    <3>1. script[s] \in ScriptStates /\ script[s].todo # {}
      BY <1>5 DEF AllocInv, AllocTypeOK, ScriptInsert
    <3>2. u \in script[s].todo
      BY <3>1, TargetType DEF ScriptStates
    <3>3. cipher \in BOOLEAN
      BY <3>1, AllocationAssumption DEF Stored, ScriptStates
    <3> QED BY <3>1, <3>2, <3>3 DEF ScriptStates
  <2>2. CASE Clashes(u, k)
    BY <1>5, <2>2, BookRests DEF ScriptInsert
  <2>3. CASE ~Clashes(u, k)
    <3>1. row' = row \union {NewRow(u, k, cipher)} /\ shown' = shown
      BY <1>5, <2>3 DEF ScriptInsert
    <3> HIDE DEF u, k, cipher
    <3> QED BY <2>1, <2>3, <3>1, InsertEnters
  <2> QED BY <2>2, <2>3
<1>6. ASSUME NEW s \in Scripts, RunScript(s) \/ ScriptFind(s) \/ ScriptIndex(s)
      PROVE  [Book!Next]_Book!vars
  BY <1>6, BookRests DEF RunScript, ScriptFind, ScriptIndex
<1>7. ASSUME NEW env \in Environments, Reconfigure(env) PROVE [Book!Next]_Book!vars
  BY <1>7, BookRests DEF Reconfigure
<1>8. CASE UNCHANGED allocVars
  BY <1>8, BookRests DEF allocVars
<1> QED BY <1>1, <1>2, <1>3, <1>4, <1>5, <1>6, <1>7, <1>8
        DEF AllocNext, RequestStep, ScriptStep

(* A state of the allocation is a book that may be found. *)
LEMMA BookInitHolds == AllocInv => Book!Init
BY EntriesUnique DEF Book!Init, EntriesOf, EntryOf

(* The requests and the scripts implement an AddressBook: however they     *)
(* race, fail and restart, a row once inserted is never struck out or      *)
(* changed, nobody gets a second one, no key a second user, and what       *)
(* getOrCreateDepositAddress returns is its user's row.                    *)
THEOREM AddressesForLife == AllocSpec => ImplementsBook
<1>1. AllocInit => Book!Init
  BY AllocInitHolds, BookInitHolds
<1>2. AllocInv /\ [AllocNext]_allocVars => [Book!Next]_Book!vars
  BY AllocKeepsBook
<1> QED BY <1>1, <1>2, AllocInvariant, PTL DEF AllocSpec, ImplementsBook, Book!Spec

-----------------------------------------------------------------------------
(* The scanner's invariant *)

ScanStates ==
  [pc : {"idle", "next", "fetch", "apply"}, due : UNION {[S -> Nat] : S \in SUBSET Users},
   user : Users, copy : Nat, page : Seq(Transfers), pos : Nat, maxTs : Nat]

ScannerTypes ==
  /\ load \in Loads /\ now \in 1..load.last
  /\ time \in [Transfers -> 0..load.last] /\ visible \subseteq Transfers
  /\ cursor \in [Users -> 0..now] /\ age \in [Users -> 0..ColdEvery]
  /\ credit \subseteq Credits
  /\ scan \in [Scanners -> ScanStates]
  /\ budget \in [{"faults", "rescans"} -> Nat]

(* A transaction is in one block and is shown whole, no later than Lag. *)
ChainInv ==
  /\ \A s, t \in Transfers : Tx[s] = Tx[t] =>
       time[s] = time[t] /\ (s \in visible <=> t \in visible)
  /\ \A t \in visible : time[t] # 0
  /\ \A t \in Transfers : time[t] <= now
  /\ \A t \in Transfers \ visible : time[t] # 0 => now <= time[t] + Lag

(* The rows of its transaction to its address that come before t, however  *)
(* much of the history a page has.                                         *)
RowsBefore(t) == {s \in OfTx(Tx[t]) : To[s] = To[t] /\ s < t}
Index(t) == Cardinality(RowsBefore(t))

CreditInv ==
  \A c \in credit :
    c.tx = Tx[c.transfer] /\ c.index = Index(c.transfer) /\ time[c.transfer] # 0

(* Everything to u from before the overlap at n was seen to. *)
Done(t) == Credited(t) \/ PaysAnotherUser(t)
Settled(u, n) ==
  \A t \in Transfers : To[t] = u /\ time[t] # 0 /\ time[t] < n - Overlap => Done(t)

CursorInv == \A u \in Users : Settled(u, cursor[u])

(* A page, read from an overlap before n: ordered, and with all the rows   *)
(* before any of its rows that the scan will answer for.                   *)
PageFits(u, page, n) ==
  /\ \A k \in DOMAIN page : To[page[k]] = u /\ time[page[k]] # 0
  /\ \A j, k \in DOMAIN page : j < k => Before(page[j], page[k])
  /\ \A k \in DOMAIN page, t \in Transfers :
       To[t] = u /\ Tx[t] = Tx[page[k]] /\ t < page[k] => \E j \in 1..(k - 1) : page[j] = t
  /\ \A k \in DOMAIN page, t \in Transfers :
       To[t] = u /\ time[t] # 0 /\ n - Overlap <= time[t] /\ time[t] < time[page[k]] - Overlap
         => \E j \in 1..(k - 1) : page[j] = t

(* A scan that is past some rows of its page has seen to them, and the     *)
(* cursor it will save is that of its copy or of one of them.              *)
Applied(page, pos, n, maxTs) ==
  /\ pos \in 1..(Len(page) + 1)
  /\ \A j \in 1..(pos - 1) : Done(page[j])
  /\ maxTs = n \/ \E j \in 1..(pos - 1) : maxTs = time[page[j]]

ScanFits(s) ==
  /\ \A u \in DOMAIN s.due : s.due[u] <= now /\ Settled(u, s.due[u])
  /\ s.pc \in {"fetch", "apply"} => s.copy <= now /\ Settled(s.user, s.copy)
  /\ s.pc = "apply" =>
       PageFits(s.user, s.page, s.copy) /\ Applied(s.page, s.pos, s.copy, s.maxTs)

ScanInv == \A p \in Scanners : ScanFits(scan[p])

CreditsInv == ScannerTypes /\ ChainInv /\ CreditInv /\ CursorInv /\ ScanInv

(* The index of a row is smaller than that of the rows after it. *)
LEMMA IndexType ==
  ASSUME NEW t \in Transfers
  PROVE  RowsBefore(t) \in SUBSET Transfers /\ IsFiniteSet(RowsBefore(t)) /\ Index(t) \in Nat
<1>1. RowsBefore(t) \in SUBSET Transfers /\ IsFiniteSet(Transfers)
  BY ScannerAssumption DEF RowsBefore, OfTx
<1> QED BY <1>1, FS_Subset, FS_CardinalityType DEF Index

LEMMA IndexGrows ==
  ASSUME NEW s \in Transfers, NEW t \in Transfers, Tx[s] = Tx[t], To[s] = To[t], s < t
  PROVE  Index(s) < Index(t)
<1>1. s \in Nat /\ t \in Nat /\ Transfers \subseteq Nat
  BY ScannerAssumption
<1>2. s \notin RowsBefore(s)
  BY <1>1 DEF RowsBefore, OfTx
<1>3. RowsBefore(s) \union {s} \in SUBSET RowsBefore(t)
  <2>1. ASSUME NEW x \in RowsBefore(s) PROVE x \in RowsBefore(t)
    <3>1. x \in Transfers /\ Tx[x] = Tx[s] /\ To[x] = To[s] /\ x < s
      BY DEF RowsBefore, OfTx
    <3>2. x < t
      BY <1>1, <3>1
    <3> QED BY <3>1, <3>2 DEF RowsBefore, OfTx
  <2>2. s \in RowsBefore(t)
    BY DEF RowsBefore, OfTx
  <2> QED BY <2>1, <2>2
<1>4. Cardinality(RowsBefore(s) \union {s}) = Index(s) + 1
  BY <1>2, IndexType, FS_AddElement DEF Index
<1>5. Cardinality(RowsBefore(s) \union {s}) <= Index(t)
  BY <1>3, IndexType, FS_Subset DEF Index
<1> QED BY <1>4, <1>5, IndexType

LEMMA IndexUnique ==
  ASSUME NEW s \in Transfers, NEW t \in Transfers, Tx[s] = Tx[t], To[s] = To[t],
         Index(s) = Index(t)
  PROVE  s = t
<1>1. s \in Nat /\ t \in Nat /\ Index(s) \in Nat /\ Index(t) \in Nat
  BY IndexType, ScannerAssumption
<1>2. ~(s < t) /\ ~(t < s)
  BY <1>1, IndexGrows
<1> QED BY <1>1, <1>2

(* What perTxCounter counts in a page is the index, wherever the page      *)
(* begins and ends.                                                        *)
LEMMA IndexInHistory ==
  ASSUME ScannerTypes, ChainInv, NEW page \in Seq(Transfers), NEW u, NEW n,
         PageFits(u, page, n), NEW k \in DOMAIN page
  PROVE  IndexOf(page, k) = Index(page[k])
<1> DEFINE t == page[k]
           J == {j \in 1..(k - 1) : Tx[page[j]] = Tx[page[k]]}
           R == RowsBefore(t)
           g == [j \in J |-> page[j]]
<1>1. /\ DOMAIN page = 1..Len(page) /\ Len(page) \in Nat /\ k \in Nat
      /\ \A j \in DOMAIN page : page[j] \in Transfers
  BY LenProperties, ElementOfSeq
<1>2. \A j \in J : j \in DOMAIN page /\ j < k /\ Tx[page[j]] = Tx[t]
  BY <1>1
<1>3. /\ \A s \in Transfers : time[s] \in Nat /\ s \in Nat
      /\ \A s \in Transfers : Tx[s] = Tx[t] => time[s] = time[t]
  <2>1. \A s \in Transfers : time[s] \in Nat /\ s \in Nat
    BY ScannerAssumption DEF ScannerTypes
  <2>2. t \in Transfers
    BY <1>1
  <2> QED BY <2>1, <2>2 DEF ChainInv
<1>4. \A i, j \in DOMAIN page : i < j => Before(page[i], page[j])
  BY DEF PageFits
<1>5. \A j \in J : page[j] \in R
  <2> SUFFICES ASSUME NEW j \in J PROVE page[j] \in R
    OBVIOUS
  <2>1. j \in DOMAIN page /\ Before(page[j], t) /\ Tx[page[j]] = Tx[t]
    BY <1>2, <1>4
  <2>2. page[j] \in Transfers /\ t \in Transfers
    BY <1>1, <2>1
  <2> HIDE DEF t, J
  <2>3. page[j] < t
    BY <1>3, <2>1, <2>2 DEF Before
  <2>4. To[page[j]] = To[t]
    BY <2>1 DEF PageFits, t
  <2> QED BY <2>1, <2>2, <2>3, <2>4 DEF RowsBefore, OfTx
<1>6. \A i, j \in J : page[i] = page[j] => i = j
  <2> SUFFICES ASSUME NEW i \in J, NEW j \in J, i < j PROVE page[i] # page[j]
    BY <1>1
  <2>1. Before(page[i], page[j]) /\ page[i] \in Transfers
    BY <1>1, <1>2, <1>4
  <2> QED BY <1>3, <2>1 DEF Before
<1>7. \A s \in R : \E j \in J : page[j] = s
  <2> SUFFICES ASSUME NEW s \in R PROVE \E j \in J : page[j] = s
    OBVIOUS
  <2>1. s \in Transfers /\ Tx[s] = Tx[page[k]] /\ To[s] = To[page[k]] /\ s < page[k]
    BY DEF RowsBefore, OfTx
  <2>2. To[page[k]] = u
    BY DEF PageFits
  <2>3. \E j \in 1..(k - 1) : page[j] = s
    BY <2>1, <2>2 DEF PageFits
  <2> QED BY <2>1, <2>3
<1>8. g \in Bijection(J, R)
  <2> HIDE DEF J, R
  <2>1. g \in [J -> R]
    BY <1>5
  <2>2. g \in Injection(J, R)
    BY <1>6, <2>1 DEF Injection, IsInjective
  <2>3. g \in Surjection(J, R)
    BY <1>7, <2>1 DEF Surjection
  <2> HIDE DEF g
  <2> QED BY <2>2, <2>3 DEF Bijection
<1>9. IsFiniteSet(J)
  <2>1. IsFiniteSet(1..(k - 1))
    BY <1>1, FS_Interval
  <2>2. J \in SUBSET (1..(k - 1))
    OBVIOUS
  <2> HIDE DEF J
  <2> QED BY <2>1, <2>2, FS_Subset
<1>10. Cardinality(R) = Cardinality(J)
  <2> HIDE DEF J, R, g
  <2>1. ExistsBijection(J, R)
    BY <1>8 DEF ExistsBijection
  <2> QED BY <1>9, <2>1, FS_Bijection
<1> QED BY <1>10 DEF IndexOf, Index


-----------------------------------------------------------------------------
(* A page of the history *)

(* Transfers are ordered, by their block and then in it. *)
LEMMA BeforeOrders ==
  ASSUME ScannerTypes, NEW s \in Transfers, NEW t \in Transfers
  PROVE  /\ s # t => Before(s, t) \/ Before(t, s)
         /\ ~(Before(s, t) /\ Before(t, s))
         /\ \A r \in Transfers : Before(r, s) /\ Before(s, t) => Before(r, t)
<1>1. \A r \in Transfers : r \in Nat /\ time[r] \in Nat
  BY ScannerAssumption DEF ScannerTypes
<1>2. s \in Nat /\ t \in Nat /\ time[s] \in Nat /\ time[t] \in Nat
  BY <1>1
<1>3. ASSUME NEW r \in Transfers, Before(r, s), Before(s, t) PROVE Before(r, t)
  BY <1>1, <1>2, <1>3 DEF Before
<1> QED BY <1>2, <1>3 DEF Before

(* The rows of a set are put at the places from 1 on. *)
LEMMA PlaceType ==
  ASSUME ScannerTypes, NEW rows \in SUBSET Transfers, NEW t \in rows
  PROVE  Place(rows, t) \in 1..Cardinality(rows)
<1> DEFINE B == {s \in rows : Before(s, t)}
<1>1. IsFiniteSet(rows) /\ Cardinality(rows) \in Nat
  BY ScannerAssumption, FS_Subset, FS_CardinalityType
<1>2. ~Before(t, t)
  BY BeforeOrders
<1>3. B \in SUBSET (rows \ {t})
  BY <1>2
<1> HIDE DEF B
<1>4. IsFiniteSet(rows \ {t}) /\ Cardinality(rows \ {t}) = Cardinality(rows) - 1
  BY <1>1, FS_RemoveElement
<1>5. Cardinality(B) \in Nat /\ Cardinality(B) <= Cardinality(rows) - 1
  BY <1>3, <1>4, FS_Subset, FS_CardinalityType
<1>6. Place(rows, t) = 1 + Cardinality(B)
  BY DEF Place, B
<1> QED BY <1>1, <1>5, <1>6

LEMMA PlaceGrows ==
  ASSUME ScannerTypes, NEW rows \in SUBSET Transfers, NEW s \in rows, NEW t \in rows,
         Before(s, t)
  PROVE  Place(rows, s) < Place(rows, t)
<1> DEFINE A == {r \in rows : Before(r, s)}
           B == {r \in rows : Before(r, t)}
<1>1. IsFiniteSet(A) /\ IsFiniteSet(B)
  <2>1. A \in SUBSET Transfers /\ B \in SUBSET Transfers
    OBVIOUS
  <2> HIDE DEF A, B
  <2> QED BY <2>1, ScannerAssumption, FS_Subset
<1>2. s \notin A
  BY BeforeOrders
<1>3. A \union {s} \in SUBSET B
  <2>1. \A r \in A : r \in B
    BY BeforeOrders
  <2> QED BY <2>1
<1> HIDE DEF A, B
<1>4. Cardinality(A \union {s}) = Cardinality(A) + 1
  BY <1>1, <1>2, FS_AddElement
<1>5. Cardinality(A \union {s}) <= Cardinality(B)
  BY <1>1, <1>3, FS_Subset
<1>6. Cardinality(A) \in Nat /\ Cardinality(B) \in Nat
  BY <1>1, FS_CardinalityType
<1>7. Cardinality(A) < Cardinality(B)
  BY <1>4, <1>5, <1>6
<1>8. Place(rows, s) = 1 + Cardinality(A) /\ Place(rows, t) = 1 + Cardinality(B)
  BY DEF Place, A, B
<1> QED BY <1>6, <1>7, <1>8

(* The place tells the order. *)
LEMMA PlaceOrders ==
  ASSUME ScannerTypes, NEW rows \in SUBSET Transfers, NEW s \in rows, NEW t \in rows
  PROVE  /\ Place(rows, s) < Place(rows, t) => Before(s, t)
         /\ Place(rows, s) = Place(rows, t) => s = t
<1>1. Place(rows, s) \in Nat /\ Place(rows, t) \in Nat
  <2>1. Cardinality(rows) \in Nat
    BY ScannerAssumption, FS_Subset, FS_CardinalityType
  <2> QED BY <2>1, PlaceType
<1>2. Before(t, s) => Place(rows, t) < Place(rows, s)
  BY PlaceGrows
<1>3. Before(s, t) => Place(rows, s) < Place(rows, t)
  BY PlaceGrows
<1>4. s = t \/ Before(s, t) \/ Before(t, s)
  BY BeforeOrders
<1> QED BY <1>1, <1>2, <1>3, <1>4

(* No place is left empty. *)
LEMMA PlaceTaken ==
  ASSUME ScannerTypes, NEW rows \in SUBSET Transfers, NEW k \in 1..Cardinality(rows)
  PROVE  \E t \in rows : Place(rows, t) = k
<1> DEFINE n == Cardinality(rows)
           f == [t \in rows |-> Place(rows, t)]
<1>1. IsFiniteSet(rows) /\ n \in Nat
  BY ScannerAssumption, FS_Subset, FS_CardinalityType
<1>2. f \in [rows -> 1..n]
  BY PlaceType
<1>3. f \in Injection(rows, 1..n)
  BY <1>2, PlaceOrders DEF Injection, IsInjective
<1>4. \A t \in rows : f[t] = Place(rows, t)
  OBVIOUS
<1>5. IsFiniteSet(1..n) /\ Cardinality(1..n) = n
  BY <1>1, FS_Interval
<1> HIDE DEF f
<1>6. f \in Surjection(rows, 1..n)
  BY <1>3, <1>5, FS_Injection
<1> QED BY <1>4, <1>6 DEF Surjection

RowsSince(u, since) == {t \in visible : To[t] = u /\ time[t] >= since}

(* What TronGrid answers: shown rows, in order, the one at each place, and *)
(* with each row all that come before it.                                  *)
LEMMA HistoryOrders ==
  ASSUME ScannerTypes, NEW u, NEW since, NEW rows, rows = RowsSince(u, since),
         NEW page, page = History(u, since)
  PROVE  /\ page \in Seq(Transfers)
         /\ \A k \in DOMAIN page : page[k] \in rows /\ Place(rows, page[k]) = k
         /\ \A k \in DOMAIN page, t \in rows :
              Before(t, page[k]) => \E j \in 1..(k - 1) : page[j] = t
<1> DEFINE n == Smaller(Cardinality(rows), Page)
<1>1. rows \in SUBSET Transfers
  BY DEF ScannerTypes, RowsSince
<1>2. Cardinality(rows) \in Nat /\ Page \in Nat
  BY <1>1, ScannerAssumption, FS_Subset, FS_CardinalityType
<1>3. n \in Nat /\ n <= Cardinality(rows)
  BY <1>2 DEF Smaller
<1>4. page = [k \in 1..n |-> CHOOSE t \in rows : Place(rows, t) = k]
  BY DEF History, RowsSince
<1> HIDE DEF n
<1>5. \A k \in 1..n : page[k] \in rows /\ Place(rows, page[k]) = k
  <2> SUFFICES ASSUME NEW k \in 1..n PROVE page[k] \in rows /\ Place(rows, page[k]) = k
    OBVIOUS
  <2>1. k \in 1..Cardinality(rows)
    BY <1>2, <1>3
  <2>2. \E t \in rows : Place(rows, t) = k
    BY <1>1, <2>1, PlaceTaken
  <2>3. page[k] = CHOOSE t \in rows : Place(rows, t) = k
    BY <1>4
  <2> QED BY <2>2, <2>3
<1>6. page \in Seq(Transfers)
  <2>1. page \in [1..n -> Transfers]
    BY <1>1, <1>4, <1>5
  <2> QED BY <1>3, <2>1, SeqDef
<1>7. DOMAIN page = 1..n
  BY <1>4
<1>8. ASSUME NEW k \in 1..n, NEW t \in rows, Before(t, page[k])
      PROVE  \E j \in 1..(k - 1) : page[j] = t
  <2> DEFINE j == Place(rows, t)
  <2>1. j \in 1..Cardinality(rows) /\ j < k
    BY <1>1, <1>5, <1>8, PlaceType, PlaceGrows
  <2> HIDE DEF j
  <2>2. j \in 1..(k - 1) /\ j \in 1..n
    BY <1>2, <1>3, <2>1
  <2>3. page[j] \in rows /\ Place(rows, page[j]) = j
    BY <1>5, <2>2
  <2>4. page[j] = t
    BY <1>1, <2>3, PlaceOrders DEF j
  <2> QED BY <2>2, <2>4
<1> QED BY <1>5, <1>6, <1>7, <1>8

(* A page that is read from an overlap before n answers for all that is    *)
(* older than an overlap before one of its rows: TronGrid shows it by now. *)
LEMMA HistoryFits ==
  ASSUME ScannerTypes, ChainInv, NEW u \in Users, NEW n \in Nat,
         NEW page, page = History(u, Larger(0, n - Overlap))
  PROVE  page \in Seq(Transfers) /\ PageFits(u, page, n)
<1> DEFINE since == Larger(0, n - Overlap)
           rows == RowsSince(u, since)
<1>1. /\ since \in Nat
      /\ \A x \in Nat : x >= n - Overlap => x >= since
  <2>1. Overlap \in Nat
    BY ScannerAssumption
  <2>2. since = IF 0 > n - Overlap THEN 0 ELSE n - Overlap
    BY DEF Larger
  <2> HIDE DEF since
  <2> QED BY <2>1, <2>2
<1> HIDE DEF since
<1>2. /\ page \in Seq(Transfers)
      /\ \A k \in DOMAIN page : page[k] \in rows /\ Place(rows, page[k]) = k
      /\ \A k \in DOMAIN page, t \in rows :
           Before(t, page[k]) => \E j \in 1..(k - 1) : page[j] = t
  <2>1. page = History(u, since)
    BY DEF since
  <2> HIDE DEF rows
  <2>2. \A R : R = RowsSince(u, since) => R = rows
    BY DEF rows
  <2> QED BY <2>1, <2>2, HistoryOrders
<1>3. /\ visible \subseteq Transfers /\ now \in Nat
      /\ \A t \in Transfers : time[t] \in Nat /\ t \in Nat
  BY ScannerAssumption DEF ScannerTypes
<1>4. rows \in SUBSET Transfers
  BY <1>3 DEF RowsSince
<1>5. \A k \in DOMAIN page :
        /\ page[k] \in Transfers /\ page[k] \in visible
        /\ To[page[k]] = u /\ time[page[k]] # 0 /\ time[page[k]] >= since
  BY <1>2, <1>3 DEF ChainInv, RowsSince
<1>6. \A j, k \in DOMAIN page : j < k => Before(page[j], page[k])
  <2> HIDE DEF rows
  <2> QED BY <1>2, <1>4, PlaceOrders
<1>7. ASSUME NEW k \in DOMAIN page, NEW t \in Transfers,
             To[t] = u, Tx[t] = Tx[page[k]], t < page[k]
      PROVE  \E j \in 1..(k - 1) : page[j] = t
  <2>1. time[t] = time[page[k]] /\ t \in visible
    BY <1>5, <1>7 DEF ChainInv
  <2>2. t \in rows /\ Before(t, page[k])
    BY <1>5, <1>7, <2>1 DEF Before, RowsSince
  <2> QED BY <1>2, <2>2
<1>8. ASSUME NEW k \in DOMAIN page, NEW t \in Transfers, To[t] = u, time[t] # 0,
             n - Overlap <= time[t], time[t] < time[page[k]] - Overlap
      PROVE  \E j \in 1..(k - 1) : page[j] = t
  <2>1. /\ time[page[k]] <= now /\ time[page[k]] \in Nat /\ time[t] \in Nat
        /\ Overlap \in Nat /\ Lag \in Nat /\ Lag <= Overlap
    BY <1>3, <1>5, ScannerAssumption DEF ChainInv
  <2>2. ~(now <= time[t] + Lag)
    BY <1>3, <1>8, <2>1
  <2>3. t \in visible
    BY <1>8, <2>2 DEF ChainInv
  <2>4. time[t] >= since /\ time[t] < time[page[k]]
    BY <1>1, <1>8, <2>1
  <2>5. t \in rows /\ Before(t, page[k])
    BY <1>8, <2>3, <2>4 DEF Before, RowsSince
  <2> QED BY <1>2, <2>5
<1> QED BY <1>2, <1>5, <1>6, <1>7, <1>8 DEF PageFits

-----------------------------------------------------------------------------
(* The initial states *)

(* Addresses made some time ago keep the allocation's invariant. *)
LEMMA MadeHolds ==
  ASSUME NEW U \in SUBSET Users, IsFiniteSet(U), Made(U)
  PROVE  AllocInv
<1> DEFINE m == Cardinality(U)
           n == CHOOSE b \in Bijection(U, 1..m) : TRUE
<1>1. m \in Nat /\ n \in Bijection(U, 1..m)
  <2>1. m \in Nat /\ ExistsBijection(U, 1..m)
    BY FS_CardinalityType, Fun_ExistsBijSymmetric
  <2>2. Bijection(U, 1..m) # {}
    BY <2>1 DEF ExistsBijection
  <2> QED BY <2>1, <2>2
<1>2. /\ config = Anywhere /\ counter = m /\ restarts = 0
      /\ row = {NewRow(u, KeyFor(config, n[u]), Stored(config)) : u \in U}
      /\ shown = {[user |-> r.user, key |-> r.key] : r \in row}
      /\ request \in [Requests -> {Asking(u) : u \in U}]
      /\ script = [s \in Scripts |-> Script("done", {}, Anywhere)]
  BY DEF Made
<1> HIDE DEF m, n
<1>3. \A u \in U : n[u] \in 1..m
  BY <1>1 DEF Bijection, Injection
<1>4. \A u, v \in U : n[u] = n[v] => u = v
  BY <1>1 DEF Bijection, Injection, IsInjective
<1>5. config \in Environments
  BY <1>2, ScannerAssumption DEF Anywhere
<1>6. \A u \in U : /\ KeyFor(config, n[u]) \in Keys
                   /\ KeyFor(config, n[u]).index = n[u]
                   /\ Stored(config) \in BOOLEAN
  BY <1>1, <1>3, <1>5, KeyType
<1>7. \A u \in U : /\ NewRow(u, KeyFor(config, n[u]), Stored(config)) \in Rows
                   /\ NewRow(u, KeyFor(config, n[u]), Stored(config)).user = u
                   /\ NewRow(u, KeyFor(config, n[u]), Stored(config)).key.index = n[u]
  BY <1>6 DEF NewRow, Rows
<1>8. \A r \in row : \E u \in U :
        r = NewRow(u, KeyFor(config, n[u]), Stored(config))
  BY <1>2
<1>9. \A r \in row : /\ r \in Rows /\ r.user \in U
                     /\ r = NewRow(r.user, KeyFor(config, n[r.user]), Stored(config))
                     /\ r.key.index = n[r.user]
  BY <1>7, <1>8
<1>10. RowsUnique
  BY <1>4, <1>9 DEF RowsUnique
<1>11. ShownInRows
  BY <1>2 DEF ShownInRows
<1>12. /\ request \in [Requests -> RequestStates]
       /\ \A c \in Requests : request[c].pc = "idle"
  <2>1. \A c \in Requests : \E u \in U : request[c] = Asking(u)
    BY <1>2
  <2>2. \A c \in Requests : request[c] \in RequestStates /\ request[c].pc = "idle"
    BY <2>1, AskingType
  <2> QED BY <1>2, <2>2
<1>13. /\ script \in [Scripts -> ScriptStates]
       /\ \A s \in Scripts : script[s].pc = "done"
  <2>1. Anywhere \in Environments
    BY <1>2, <1>5
  <2>2. /\ Script("done", {}, Anywhere) \in ScriptStates
        /\ Script("done", {}, Anywhere).pc = "done"
    BY <2>1 DEF Script, ScriptStates, Keys, NoKey
  <2> QED BY <1>2, <2>2
<1>14. AllocTypeOK
  <2>1. row \subseteq Rows
    BY <1>9
  <2>2. shown \subseteq Shown
    BY <1>2, <2>1 DEF Shown, Rows
  <2> QED BY <1>1, <1>2, <1>5, <1>12, <1>13, <2>1, <2>2 DEF AllocTypeOK
<1>15. LosersHaveRows
  BY <1>12 DEF LosersHaveRows
<1>16. DrawnOnce
  <2>1. \A r \in row : r.key.index <= counter
    BY <1>1, <1>2, <1>3, <1>9
  <2> QED BY <1>12, <1>13, <2>1 DEF DrawnOnce
<1> QED BY <1>10, <1>11, <1>14, <1>15, <1>16 DEF AllocInv

(* A scanner that is idle holds nothing. *)
LEMMA IdleFits ==
  /\ Idle \in ScanStates
  /\ Idle.pc = "idle" /\ DOMAIN Idle.due = {}
  /\ ScanFits(Idle) /\ ScanFits(Idle)'
<1>1. NoCopies \in [{} -> Nat] /\ DOMAIN NoCopies = {}
  BY DEF NoCopies
<1>2. (CHOOSE u \in Users : TRUE) \in Users
  BY ScannerAssumption
<1>3. <<>> \in Seq(Transfers)
  BY EmptySeq
<1>4. Idle \in ScanStates
  <2>1. NoCopies \in UNION {[S -> Nat] : S \in SUBSET Users}
    BY <1>1
  <2> QED BY <1>2, <1>3, <2>1 DEF Idle, ScanStates
<1>5. Idle.pc = "idle" /\ DOMAIN Idle.due = {}
  BY <1>1 DEF Idle
<1>6. ScanFits(Idle)
  BY <1>5 DEF ScanFits
<1>7. ScanFits(Idle)'
  BY <1>5 DEF ScanFits
<1> QED BY <1>4, <1>5, <1>6, <1>7

LEMMA ScannerInitHolds == Init => AllocInv /\ CreditsInv
<1> SUFFICES ASSUME Init PROVE AllocInv /\ CreditsInv
  OBVIOUS
<1>1. /\ load \in Loads /\ load.made \in SUBSET Users /\ IsFiniteSet(load.made)
      /\ load.last \in Nat \ {0}
  BY ScannerAssumption DEF Init
<1>2. AllocInv
  <2>1. CASE load.made = {}
    BY <2>1, AllocInitHolds DEF Init
  <2>2. CASE load.made # {}
    BY <1>1, <2>2, MadeHolds DEF Init
  <2> QED BY <2>1, <2>2
<1>3. /\ now = 1 /\ time = [t \in Transfers |-> 0] /\ visible = {}
      /\ cursor = [u \in Users |-> 0] /\ age = [u \in Users |-> ColdEvery] /\ credit = {}
      /\ scan = [p \in Scanners |-> Idle]
      /\ budget = [faults |-> 0, rescans |-> 0]
  BY DEF Init
<1>4. ScannerTypes
  <2>1. 0 \in 0..load.last /\ 0 \in 0..now /\ now \in 1..load.last
    BY <1>1, <1>3
  <2>2. ColdEvery \in 0..ColdEvery
    BY ScannerAssumption
  <2>3. scan \in [Scanners -> ScanStates]
    BY <1>3, IdleFits
  <2>4. budget \in [{"faults", "rescans"} -> Nat]
    BY <1>3
  <2> QED BY <1>1, <1>3, <2>1, <2>2, <2>3, <2>4 DEF ScannerTypes
<1>5. \A t \in Transfers : time[t] = 0 /\ t \notin visible
  BY <1>3
<1>6. ChainInv
  BY <1>3, <1>5 DEF ChainInv
<1>7. CreditInv
  BY <1>3 DEF CreditInv
<1>8. CursorInv
  BY <1>5 DEF CursorInv, Settled
<1>9. ScanInv
  BY <1>3, IdleFits DEF ScanInv
<1> QED BY <1>2, <1>4, <1>6, <1>7, <1>8, <1>9 DEF CreditsInv

-----------------------------------------------------------------------------
(* What a step leaves standing *)

(* A transfer gets its time once, and it is the time of then. *)
TimesStay == \A t \in Transfers : time'[t] = time[t] \/ (time[t] = 0 /\ time'[t] = now)

(* Rows stay, and time goes on. *)
Onward == TimesStay /\ now' \in Nat /\ now <= now' /\ credit \subseteq credit'

LEMMA DoneStays ==
  ASSUME credit \subseteq credit', NEW t, Done(t)
  PROVE  Done(t)'
BY DEF Done, Credited, PaysAnotherUser, OfTx

LEMMA SettledStays ==
  ASSUME ScannerTypes, Onward, NEW u, NEW n \in Nat, n <= now, Settled(u, n)
  PROVE  Settled(u, n)'
<1>1. now \in Nat /\ Overlap \in Nat /\ \A t \in Transfers : time[t] \in Nat
  <2>1. Overlap \in Nat
    BY ScannerAssumption
  <2> QED BY <2>1 DEF ScannerTypes
<1> SUFFICES ASSUME NEW t \in Transfers, To[t] = u, time'[t] # 0, time'[t] < n - Overlap
             PROVE  Done(t)'
  BY DEF Settled
<1>2. time'[t] = time[t]
  BY <1>1 DEF Onward, TimesStay
<1>3. Done(t)
  BY <1>2 DEF Settled
<1> QED BY <1>3, DoneStays DEF Onward

LEMMA PageStays ==
  ASSUME ScannerTypes, ChainInv, Onward, NEW u, NEW n \in Nat,
         NEW page \in Seq(Transfers), PageFits(u, page, n)
  PROVE  /\ PageFits(u, page, n)'
         /\ \A k \in DOMAIN page : time'[page[k]] = time[page[k]]
<1>1. /\ now \in Nat /\ Overlap \in Nat
      /\ \A t \in Transfers : time[t] \in Nat /\ time[t] <= now
  <2>1. Overlap \in Nat
    BY ScannerAssumption
  <2> QED BY <2>1 DEF ScannerTypes, ChainInv
<1>2. \A k \in DOMAIN page : page[k] \in Transfers
  BY ElementOfSeq, LenProperties
<1>3. \A k \in DOMAIN page : time'[page[k]] = time[page[k]] /\ time[page[k]] # 0
  BY <1>2 DEF Onward, TimesStay, PageFits
<1>4. \A k \in DOMAIN page : To[page[k]] = u /\ time'[page[k]] # 0
  BY <1>3 DEF PageFits
<1>5. \A j, k \in DOMAIN page : j < k => Before(page[j], page[k])'
  BY <1>3 DEF PageFits, Before
<1>6. \A k \in DOMAIN page, t \in Transfers :
        To[t] = u /\ Tx[t] = Tx[page[k]] /\ t < page[k] => \E j \in 1..(k - 1) : page[j] = t
  BY DEF PageFits
<1>7. ASSUME NEW k \in DOMAIN page, NEW t \in Transfers, To[t] = u, time'[t] # 0,
             n - Overlap <= time'[t], time'[t] < time'[page[k]] - Overlap
      PROVE  \E j \in 1..(k - 1) : page[j] = t
  <2>1. time[page[k]] <= now /\ time[page[k]] \in Nat
    BY <1>1, <1>2
  <2>2. time'[t] # now
    BY <1>1, <1>3, <1>7, <2>1
  <2>3. time'[t] = time[t]
    BY <2>2 DEF Onward, TimesStay
  <2> QED BY <1>3, <1>7, <2>3 DEF PageFits
<1> QED BY <1>3, <1>4, <1>5, <1>6, <1>7 DEF PageFits

(* A scan that does not move is as right as it was. *)
LEMMA ScanStays ==
  ASSUME ScannerTypes, ChainInv, Onward, NEW r \in ScanStates, ScanFits(r)
  PROVE  ScanFits(r)'
<1>1. now \in Nat /\ \A u \in DOMAIN r.due : r.due[u] \in Nat
  BY DEF ScannerTypes, ScanStates
<1>2. r.copy \in Nat /\ r.page \in Seq(Transfers) /\ r.pos \in Nat
  BY DEF ScanStates
<1>3. ASSUME NEW u \in DOMAIN r.due PROVE r.due[u] <= now' /\ Settled(u, r.due[u])'
  <2>1. r.due[u] <= now /\ Settled(u, r.due[u])
    BY DEF ScanFits
  <2>2. Settled(u, r.due[u])'
    BY <1>1, <2>1, SettledStays
  <2> QED BY <1>1, <2>1, <2>2 DEF Onward
<1>4. ASSUME r.pc \in {"fetch", "apply"} PROVE r.copy <= now' /\ Settled(r.user, r.copy)'
  <2>1. r.copy <= now /\ Settled(r.user, r.copy)
    BY <1>4 DEF ScanFits
  <2>2. Settled(r.user, r.copy)'
    BY <1>2, <2>1, SettledStays
  <2> QED BY <1>1, <1>2, <2>1, <2>2 DEF Onward
<1>5. ASSUME r.pc = "apply"
      PROVE  PageFits(r.user, r.page, r.copy)' /\ Applied(r.page, r.pos, r.copy, r.maxTs)'
  <2>1. PageFits(r.user, r.page, r.copy) /\ Applied(r.page, r.pos, r.copy, r.maxTs)
    BY <1>5 DEF ScanFits
  <2>2. /\ PageFits(r.user, r.page, r.copy)'
        /\ \A k \in DOMAIN r.page : time'[r.page[k]] = time[r.page[k]]
    BY <1>2, <2>1, PageStays
  <2>3. \A j \in 1..(r.pos - 1) : j \in DOMAIN r.page
    BY <1>2, <2>1, LenProperties DEF Applied
  <2>4. \A j \in 1..(r.pos - 1) : Done(r.page[j])'
    BY <2>1, DoneStays DEF Applied, Onward
  <2>5. Applied(r.page, r.pos, r.copy, r.maxTs)'
    BY <2>1, <2>2, <2>3, <2>4 DEF Applied
  <2> QED BY <2>2, <2>5
<1> QED BY <1>3, <1>4, <1>5 DEF ScanFits

(* What is stored, when the cursors stay. *)
LEMMA StoredStays ==
  ASSUME CreditsInv, Onward, UNCHANGED cursor
  PROVE  CursorInv'
<1> SUFFICES ASSUME NEW u \in Users PROVE Settled(u, cursor[u])'
  BY DEF CursorInv
<1>1. cursor[u] \in Nat /\ cursor[u] <= now /\ now \in Nat
  BY DEF CreditsInv, ScannerTypes
<1>2. PICK n : n = cursor[u]
  OBVIOUS
<1>3. Settled(u, n)
  BY <1>2 DEF CreditsInv, CursorInv
<1>4. Settled(u, n)'
  BY <1>1, <1>2, <1>3, SettledStays DEF CreditsInv
<1>5. n = cursor'[u]
  BY <1>2
<1> QED BY <1>4, <1>5 DEF Settled

LEMMA CreditStays ==
  ASSUME CreditsInv, Onward, UNCHANGED credit
  PROVE  CreditInv'
<1>1. ASSUME NEW c \in credit
      PROVE  c.tx = Tx[c.transfer] /\ c.index = Index(c.transfer)' /\ time'[c.transfer] # 0
  <2>1. c.transfer \in Transfers
    BY DEF CreditsInv, ScannerTypes, Credits
  <2>2. c.tx = Tx[c.transfer] /\ c.index = Index(c.transfer) /\ time[c.transfer] # 0
    BY DEF CreditsInv, CreditInv
  <2>3. Index(c.transfer)' = Index(c.transfer)
    BY DEF Index, RowsBefore, OfTx
  <2> QED BY <2>1, <2>2, <2>3 DEF Onward, TimesStay
<1> QED BY <1>1 DEF CreditInv

(* A scan that does not move stays right; the others have to be shown so. *)
LEMMA ScansStay ==
  ASSUME CreditsInv, Onward, NEW p \in Scanners, scan'[p] = scan[p]
  PROVE  ScanFits(scan[p])'
<1>1. PICK r \in ScanStates : r = scan[p]
  BY DEF CreditsInv, ScannerTypes
<1>2. ScanFits(r)
  BY <1>1 DEF CreditsInv, ScanInv
<1>3. ScanFits(r)'
  BY <1>2, ScanStays DEF CreditsInv
<1>4. r = scan'[p]
  BY <1>1
<1> QED BY <1>3, <1>4

-----------------------------------------------------------------------------
(* The chain's steps *)

(* The scans do not move while the chain does. *)
LEMMA ChainMoves ==
  ASSUME CreditsInv, Onward, ChainInv', UNCHANGED <<load, cursor, credit, scan, budget>>,
         now' \in 1..load.last, time' \in [Transfers -> 0..load.last],
         visible' \subseteq Transfers, age' \in [Users -> 0..ColdEvery]
  PROVE  CreditsInv'
<1>1. ScannerTypes'
  <2>1. \A u \in Users : cursor'[u] \in 0..now'
    <3>1. now \in Nat /\ \A u \in Users : cursor[u] \in 0..now
      BY DEF CreditsInv, ScannerTypes
    <3> QED BY <3>1 DEF Onward
  <2>2. cursor' \in [Users -> 0..now']
    BY <2>1 DEF CreditsInv, ScannerTypes
  <2> QED BY <2>2 DEF CreditsInv, ScannerTypes
<1>2. CreditInv' /\ CursorInv'
  BY CreditStays, StoredStays
<1>3. ScanInv'
  BY ScansStay DEF ScanInv
<1> QED BY <1>1, <1>2, <1>3 DEF CreditsInv

LEMMA ClockHolds == ASSUME CreditsInv, Clock PROVE CreditsInv'
<1>1. /\ now \in 1..load.last /\ now \in Nat /\ load.last \in Nat
      /\ \A t \in Transfers : time[t] \in Nat /\ time[t] <= now
      /\ age \in [Users -> 0..ColdEvery]
  <2>1. load.last \in Nat
    BY ScannerAssumption DEF CreditsInv, ScannerTypes
  <2> QED BY <2>1 DEF CreditsInv, ScannerTypes, ChainInv
<1>2. /\ now' = Smaller(now + 1, load.last)
      /\ age' = [u \in Users |-> Smaller(age[u] + 1, ColdEvery)]
      /\ UNCHANGED <<load, time, visible, cursor, credit, scan, budget>>
      /\ \A t \in Transfers \ visible : time[t] # 0 => now < time[t] + Lag
  BY DEF Clock
<1>3. now' \in 1..load.last /\ now <= now' /\ now' <= now + 1
  BY <1>1, <1>2 DEF Smaller
<1>4. age' \in [Users -> 0..ColdEvery]
  <2>1. ColdEvery \in Nat
    BY ScannerAssumption
  <2>2. \A n \in 0..ColdEvery : Smaller(n + 1, ColdEvery) \in 0..ColdEvery
    BY <2>1 DEF Smaller
  <2> QED BY <1>1, <1>2, <2>2
<1>5. Onward
  BY <1>1, <1>2, <1>3 DEF Onward, TimesStay
<1>6. ChainInv'
  <2>1. Lag \in Nat
    BY ScannerAssumption
  <2>2. \A t \in Transfers : time[t] <= now'
    BY <1>1, <1>3
  <2>3. \A t \in Transfers \ visible : time[t] # 0 => now' <= time[t] + Lag
    BY <1>1, <1>2, <1>3, <2>1
  <2> QED BY <1>2, <2>2, <2>3 DEF CreditsInv, ChainInv
<1>7. time' \in [Transfers -> 0..load.last] /\ visible' \subseteq Transfers
  BY <1>2 DEF CreditsInv, ScannerTypes
<1> QED BY <1>2, <1>3, <1>4, <1>5, <1>6, <1>7, ChainMoves

LEMMA SendHolds == ASSUME CreditsInv, NEW x \in Txs, Send(x) PROVE CreditsInv'
<1>1. /\ now \in 1..load.last /\ now \in Nat /\ now # 0
      /\ time \in [Transfers -> 0..load.last]
      /\ \A t \in Transfers : time[t] \in Nat /\ time[t] <= now
  BY DEF CreditsInv, ScannerTypes, ChainInv
<1>2. /\ time' = [t \in Transfers |-> IF Tx[t] = x THEN now ELSE time[t]]
      /\ UNCHANGED <<load, now, visible, cursor, age, credit, scan, budget>>
  BY DEF Send, stored
<1>3. \A t \in Transfers : Tx[t] = x => time[t] = 0
  BY DEF Send, OfTx
<1>4. Onward
  BY <1>1, <1>2, <1>3 DEF Onward, TimesStay
<1>5. time' \in [Transfers -> 0..load.last]
  <2>1. now \in 0..load.last
    BY <1>1
  <2> QED BY <1>1, <1>2, <2>1
<1>6. ChainInv'
  <2>1. Lag \in Nat
    BY ScannerAssumption
  <2>2. \A s, t \in Transfers : Tx[s] = Tx[t] => time'[s] = time'[t]
    BY <1>2 DEF CreditsInv, ChainInv
  <2>3. \A s, t \in Transfers : Tx[s] = Tx[t] => (s \in visible <=> t \in visible)
    BY DEF CreditsInv, ChainInv
  <2>4. \A t \in visible : time'[t] # 0
    <3>1. \A t \in visible : t \in Transfers /\ time[t] # 0
      BY DEF CreditsInv, ChainInv, ScannerTypes
    <3> QED BY <1>1, <1>2, <3>1
  <2>5. \A t \in Transfers : time'[t] <= now
    BY <1>1, <1>2
  <2>6. \A t \in Transfers \ visible : time'[t] # 0 => now <= time'[t] + Lag
    <3>1. \A t \in Transfers \ visible : time[t] # 0 => now <= time[t] + Lag
      BY DEF CreditsInv, ChainInv
    <3> QED BY <1>1, <1>2, <2>1, <3>1
  <2> QED BY <1>2, <2>2, <2>3, <2>4, <2>5, <2>6 DEF ChainInv
<1>7. visible' \subseteq Transfers /\ age' \in [Users -> 0..ColdEvery]
  BY <1>2 DEF CreditsInv, ScannerTypes
<1> QED BY <1>1, <1>2, <1>4, <1>5, <1>6, <1>7, ChainMoves

LEMMA ShowHolds == ASSUME CreditsInv, NEW x \in Txs, Show(x) PROVE CreditsInv'
<1>1. /\ visible' = visible \union {t \in Transfers : Tx[t] = x}
      /\ UNCHANGED <<load, now, time, cursor, age, credit, scan, budget>>
      /\ \A t \in Transfers : Tx[t] = x => time[t] # 0
  BY DEF Show, OfTx, stored
<1>2. now \in Nat /\ now <= now
  BY DEF CreditsInv, ScannerTypes
<1>3. Onward
  BY <1>1, <1>2 DEF Onward, TimesStay
<1>4. visible' \subseteq Transfers
  BY <1>1 DEF CreditsInv, ScannerTypes
<1>5. ChainInv'
  <2>1. \A s, t \in Transfers : Tx[s] = Tx[t] =>
          time[s] = time[t] /\ (s \in visible' <=> t \in visible')
    BY <1>1 DEF CreditsInv, ChainInv
  <2>2. \A t \in visible' : time[t] # 0
    BY <1>1 DEF CreditsInv, ChainInv
  <2>3. \A t \in Transfers \ visible' : t \in Transfers \ visible
    BY <1>1
  <2> QED BY <1>1, <2>1, <2>2, <2>3 DEF CreditsInv, ChainInv
<1>6. /\ now' \in 1..load.last /\ time' \in [Transfers -> 0..load.last]
      /\ age' \in [Users -> 0..ColdEvery]
  BY <1>1 DEF CreditsInv, ScannerTypes
<1> QED BY <1>1, <1>3, <1>4, <1>5, <1>6, ChainMoves

-----------------------------------------------------------------------------
(* The scans' steps *)

(* One scanner moves, to a state that fits. *)
LEMMA ScanMoves ==
  ASSUME CreditsInv, UNCHANGED <<load, now, time, visible>>, credit \subseteq credit',
         credit' \subseteq Credits, CreditInv', CursorInv',
         cursor' \in [Users -> 0..now], age' \in [Users -> 0..ColdEvery],
         budget' \in [{"faults", "rescans"} -> Nat],
         NEW p \in Scanners, NEW r \in ScanStates, ScanFits(r)',
         scan' = [scan EXCEPT ![p] = r]
  PROVE  CreditsInv'
<1>1. now \in Nat /\ now <= now
  BY DEF CreditsInv, ScannerTypes
<1>2. Onward
  BY <1>1 DEF Onward, TimesStay
<1>3. scan \in [Scanners -> ScanStates]
  BY DEF CreditsInv, ScannerTypes
<1>4. ScannerTypes'
  <2>1. scan' \in [Scanners -> ScanStates]
    BY <1>3
  <2> QED BY <2>1 DEF CreditsInv, ScannerTypes
<1>5. ChainInv'
  BY DEF CreditsInv, ChainInv
<1>6. ScanInv'
  <2>1. ASSUME NEW q \in Scanners PROVE ScanFits(scan[q])'
    <3>1. CASE q = p
      <4>1. scan'[q] = r
        BY <1>3, <3>1
      <4> QED BY <4>1
    <3>2. CASE q # p
      <4>1. scan'[q] = scan[q]
        BY <3>2
      <4> QED BY <1>2, <4>1, ScansStay
    <3> QED BY <3>1, <3>2
  <2> QED BY <2>1 DEF ScanInv
<1> QED BY <1>4, <1>5, <1>6 DEF CreditsInv

(* One scanner moves, and nothing is stored. *)
LEMMA OnlyScanMoves ==
  ASSUME CreditsInv, UNCHANGED <<load, chain, stored>>,
         budget' \in [{"faults", "rescans"} -> Nat],
         NEW p \in Scanners, NEW r \in ScanStates, ScanFits(r),
         scan' = [scan EXCEPT ![p] = r]
  PROVE  CreditsInv'
<1>1. UNCHANGED <<load, now, time, visible, cursor, age, credit>>
  BY DEF chain, stored
<1>2. now \in Nat /\ now <= now
  BY DEF CreditsInv, ScannerTypes
<1>3. Onward
  BY <1>1, <1>2 DEF Onward, TimesStay
<1>4. ScanFits(r)'
  BY <1>3, ScanStays DEF CreditsInv
<1>5. CreditInv' /\ CursorInv'
  BY <1>1, <1>3, CreditStays, StoredStays
<1>6. /\ credit \subseteq credit' /\ credit' \subseteq Credits
      /\ cursor' \in [Users -> 0..now] /\ age' \in [Users -> 0..ColdEvery]
  BY <1>1 DEF CreditsInv, ScannerTypes
<1> QED BY <1>1, <1>4, <1>5, <1>6, ScanMoves

LEMMA SpendType ==
  ASSUME CreditsInv, NEW k \in {"faults", "rescans"}, Spend(k)
  PROVE  budget' \in [{"faults", "rescans"} -> Nat]
<1>1. budget \in [{"faults", "rescans"} -> Nat] /\ budget' = [budget EXCEPT ![k] = @ + 1]
  BY DEF CreditsInv, ScannerTypes, Spend
<1> QED BY <1>1

(* A scan that ends goes on with the addresses that are left, or is idle. *)
LEMMA FinishFits ==
  ASSUME CreditsInv, NEW p \in Scanners, Finish(p)
  PROVE  \E r \in ScanStates : ScanFits(r) /\ scan' = [scan EXCEPT ![p] = r]
<1>1. scan[p] \in ScanStates /\ ScanFits(scan[p])
  BY DEF CreditsInv, ScannerTypes, ScanInv
<1> DEFINE r == IF p = "rescan" THEN Idle ELSE [Idle EXCEPT !.pc = "next", !.due = scan[p].due]
<1>2. r \in ScanStates /\ ScanFits(r)
  <2>1. CASE p = "rescan"
    BY <2>1, IdleFits
  <2>2. CASE p # "rescan"
    <3>1. r = [Idle EXCEPT !.pc = "next", !.due = scan[p].due]
      BY <2>2
    <3>2. r \in ScanStates /\ r.pc = "next" /\ r.due = scan[p].due
      BY <1>1, <3>1, IdleFits DEF ScanStates
    <3> HIDE DEF r
    <3>3. ScanFits(r)
      BY <1>1, <3>2 DEF ScanFits
    <3> QED BY <3>2, <3>3
  <2> QED BY <2>1, <2>2
<1>3. scan' = [scan EXCEPT ![p] = r]
  BY DEF Finish
<1> HIDE DEF r
<1> QED BY <1>2, <1>3

(* A tick takes the cursors as they are. *)
LEMMA ListHolds ==
  ASSUME AllocInv, CreditsInv, NEW tier, List(tier)
  PROVE  CreditsInv'
<1> DEFINE due == {u \in address : IsDue(u, tier[u])}
           d == [u \in due |-> cursor[u]]
           r == [scan["tick"] EXCEPT !.pc = "next", !.due = d]
<1>1. due \in SUBSET Users
  BY DEF AllocInv, AllocTypeOK, Rows, address
<1>2. /\ scan' = [scan EXCEPT !["tick"].pc = "next", !["tick"].due = d]
      /\ UNCHANGED <<load, chain, stored, budget>>
  BY DEF List
<1> HIDE DEF due
<1>3. \A u \in due : cursor[u] \in Nat /\ cursor[u] <= now /\ Settled(u, cursor[u])
  BY <1>1 DEF CreditsInv, ScannerTypes, CursorInv
<1>4. d \in [due -> Nat] /\ DOMAIN d = due /\ \A u \in due : d[u] = cursor[u]
  BY <1>3
<1> HIDE DEF d
<1>5. scan \in [Scanners -> ScanStates] /\ "tick" \in Scanners
  BY DEF CreditsInv, ScannerTypes, Scanners
<1>6. scan["tick"] \in ScanStates
  BY <1>5
<1>7. d \in UNION {[S -> Nat] : S \in SUBSET Users}
  BY <1>1, <1>4
<1>8. r \in ScanStates /\ r.pc = "next" /\ r.due = d
  BY <1>6, <1>7 DEF ScanStates
<1>9. scan' = [scan EXCEPT !["tick"] = r]
  BY <1>2, <1>5, <1>6 DEF ScanStates
<1> HIDE DEF r
<1>10. ScanFits(r)
  BY <1>3, <1>4, <1>8 DEF ScanFits
<1>11. budget' \in [{"faults", "rescans"} -> Nat]
  BY <1>2 DEF CreditsInv, ScannerTypes
<1> QED BY <1>2, <1>5, <1>8, <1>9, <1>10, <1>11, OnlyScanMoves

(* A scan begins from the copy of a cursor, or from 0. *)
LEMMA ScanHolds ==
  ASSUME CreditsInv, NEW p \in Scanners, NEW u \in Users, NEW n \in Nat,
         n <= now, Settled(u, n), Scan(p, u, n), UNCHANGED <<load, chain, stored>>,
         budget' \in [{"faults", "rescans"} -> Nat]
  PROVE  CreditsInv'
<1> DEFINE d == [v \in DOMAIN scan[p].due \ {u} |-> scan[p].due[v]]
           r == [scan[p] EXCEPT !.pc = "fetch", !.user = u, !.copy = n, !.due = d]
<1>1. scan \in [Scanners -> ScanStates] /\ scan[p] \in ScanStates /\ ScanFits(scan[p])
  BY DEF CreditsInv, ScannerTypes, ScanInv
<1>2. d \in UNION {[S -> Nat] : S \in SUBSET Users}
  <2>1. PICK S \in SUBSET Users : scan[p].due \in [S -> Nat]
    BY <1>1 DEF ScanStates
  <2>2. d \in [S \ {u} -> Nat] /\ S \ {u} \in SUBSET Users
    BY <2>1
  <2> QED BY <2>2
<1>3. \A v \in DOMAIN d : v \in DOMAIN scan[p].due /\ d[v] = scan[p].due[v]
  OBVIOUS
<1> HIDE DEF d
<1>4. r \in ScanStates /\ r.pc = "fetch" /\ r.user = u /\ r.copy = n /\ r.due = d
  BY <1>1, <1>2 DEF ScanStates
<1>5. scan' = [scan EXCEPT ![p] = r]
  BY <1>1 DEF Scan, ScanStates, d
<1> HIDE DEF r
<1>6. ScanFits(r)
  BY <1>1, <1>3, <1>4 DEF ScanFits
<1> QED BY <1>4, <1>5, <1>6, OnlyScanMoves

LEMMA NextAddressHolds == ASSUME CreditsInv, NextAddress PROVE CreditsInv'
<1>1. PICK u \in DOMAIN scan["tick"].due : Scan("tick", u, scan["tick"].due[u])
  BY DEF NextAddress
<1>2. "tick" \in Scanners
  BY DEF Scanners
<1>3. scan["tick"] \in ScanStates /\ ScanFits(scan["tick"])
  BY <1>2 DEF CreditsInv, ScannerTypes, ScanInv
<1>4. u \in Users /\ scan["tick"].due[u] \in Nat
  BY <1>1, <1>3 DEF ScanStates
<1>5. scan["tick"].due[u] <= now /\ Settled(u, scan["tick"].due[u])
  BY <1>1, <1>3 DEF ScanFits
<1>6. UNCHANGED <<load, chain, stored, budget>>
  BY DEF NextAddress
<1>7. budget' \in [{"faults", "rescans"} -> Nat]
  BY <1>6 DEF CreditsInv, ScannerTypes
<1> QED BY <1>1, <1>2, <1>4, <1>5, <1>6, <1>7, ScanHolds

LEMMA EndTickHolds == ASSUME CreditsInv, EndTick PROVE CreditsInv'
<1>1. /\ UNCHANGED <<load, chain, stored, budget>>
      /\ scan' = [scan EXCEPT !["tick"] = Idle]
  BY DEF EndTick
<1>2. budget' \in [{"faults", "rescans"} -> Nat]
  BY <1>1 DEF CreditsInv, ScannerTypes
<1>3. "tick" \in Scanners
  BY DEF Scanners
<1> QED BY <1>1, <1>2, <1>3, IdleFits, OnlyScanMoves

(* From 0 there is nothing before the overlap. *)
LEMMA RescanHolds == ASSUME CreditsInv, NEW u \in Users, Rescan(u) PROVE CreditsInv'
<1>1. Scan("rescan", u, 0) /\ Spend("rescans") /\ UNCHANGED <<load, chain, stored>>
  BY DEF Rescan
<1>2. budget' \in [{"faults", "rescans"} -> Nat]
  BY <1>1, SpendType
<1>3. Overlap \in Nat
  BY ScannerAssumption
<1>4. 0 <= now /\ \A t \in Transfers : time[t] \in Nat
  BY DEF CreditsInv, ScannerTypes
<1>5. Settled(u, 0)
  BY <1>3, <1>4 DEF Settled
<1>6. "rescan" \in Scanners
  BY DEF Scanners
<1> QED BY <1>1, <1>2, <1>4, <1>5, <1>6, ScanHolds

LEMMA FetchHolds == ASSUME CreditsInv, NEW p \in Scanners, Fetch(p) PROVE CreditsInv'
<1> DEFINE n == scan[p].copy
           u == scan[p].user
           page == History(u, Larger(0, n - Overlap))
           r == [scan[p] EXCEPT !.pc = "apply", !.pos = 1, !.maxTs = n, !.page = page]
<1>1. scan \in [Scanners -> ScanStates] /\ scan[p] \in ScanStates /\ ScanFits(scan[p])
  BY DEF CreditsInv, ScannerTypes, ScanInv
<1>2. n \in Nat /\ u \in Users
  BY <1>1 DEF ScanStates
<1>3. /\ scan' = [scan EXCEPT ![p].pc = "apply", ![p].pos = 1, ![p].maxTs = n, ![p].page = page]
      /\ scan[p].pc = "fetch"
      /\ UNCHANGED <<load, chain, stored, budget>>
  BY DEF Fetch
<1>4. page \in Seq(Transfers) /\ PageFits(u, page, n)
  BY <1>2, HistoryFits DEF CreditsInv
<1> HIDE DEF page
<1>5. /\ r \in ScanStates /\ r.pc = "apply" /\ r.pos = 1 /\ r.maxTs = n /\ r.page = page
      /\ r.user = u /\ r.copy = n /\ r.due = scan[p].due
  BY <1>1, <1>2, <1>4 DEF ScanStates
<1>6. scan' = [scan EXCEPT ![p] = r]
  BY <1>1, <1>3 DEF ScanStates
<1> HIDE DEF r
<1>7. Applied(page, 1, n, n)
  <2>1. Len(page) \in Nat
    BY <1>4, LenProperties
  <2> QED BY <2>1 DEF Applied
<1>8. ScanFits(r)
  BY <1>1, <1>3, <1>4, <1>5, <1>7 DEF ScanFits
<1>9. budget' \in [{"faults", "rescans"} -> Nat]
  BY <1>3 DEF CreditsInv, ScannerTypes
<1> QED BY <1>3, <1>5, <1>6, <1>8, <1>9, OnlyScanMoves

LEMMA FetchFailsHolds == ASSUME CreditsInv, NEW p \in Scanners, FetchFails(p) PROVE CreditsInv'
<1>1. Finish(p) /\ Spend("faults") /\ UNCHANGED <<load, chain, stored>>
  BY DEF FetchFails
<1>2. budget' \in [{"faults", "rescans"} -> Nat]
  BY <1>1, SpendType
<1> QED BY <1>1, <1>2, FinishFits, OnlyScanMoves

LEMMA SaveThrowsHolds == ASSUME CreditsInv, NEW p \in Scanners, SaveThrows(p) PROVE CreditsInv'
<1>1. scan' = [scan EXCEPT ![p] = Idle] /\ Spend("faults") /\ UNCHANGED <<load, chain, stored>>
  BY DEF SaveThrows
<1>2. budget' \in [{"faults", "rescans"} -> Nat]
  BY <1>1, SpendType
<1> QED BY <1>1, <1>2, IdleFits, OnlyScanMoves

-----------------------------------------------------------------------------
(* Rows and cursors *)

(* What the scan holds while it applies a page. *)
LEMMA ApplyingFits ==
  ASSUME CreditsInv, NEW p \in Scanners, scan[p].pc = "apply"
  PROVE  /\ scan[p] \in ScanStates /\ scan[p].page \in Seq(Transfers)
         /\ scan[p].copy \in Nat /\ scan[p].pos \in Nat /\ scan[p].user \in Users
         /\ scan[p].copy <= now /\ Settled(scan[p].user, scan[p].copy)
         /\ PageFits(scan[p].user, scan[p].page, scan[p].copy)
         /\ Applied(scan[p].page, scan[p].pos, scan[p].copy, scan[p].maxTs)
         /\ DOMAIN scan[p].page = 1..Len(scan[p].page) /\ Len(scan[p].page) \in Nat
<1>1. scan[p] \in ScanStates /\ ScanFits(scan[p])
  BY DEF CreditsInv, ScannerTypes, ScanInv
<1>2. /\ scan[p].page \in Seq(Transfers)
      /\ scan[p].copy \in Nat /\ scan[p].pos \in Nat /\ scan[p].user \in Users
  BY <1>1 DEF ScanStates
<1>3. DOMAIN scan[p].page = 1..Len(scan[p].page) /\ Len(scan[p].page) \in Nat
  BY <1>2, LenProperties
<1> QED BY <1>1, <1>2, <1>3 DEF ScanFits

(* A row is claimed under the key it has in every scan; if the key is      *)
(* taken, it is by the row itself or by one of another user's.             *)
LEMMA ClaimedFits ==
  ASSUME CreditsInv, NEW p \in Scanners, More(p), UNCHANGED time,
         credit' = credit \/ credit' = Claimed(RowFor(p)),
         NEW t, t = scan[p].page[scan[p].pos]
  PROVE  /\ credit \subseteq credit' /\ credit' \subseteq Credits /\ CreditInv'
         /\ credit' = Claimed(RowFor(p)) => Done(t)'
<1> DEFINE k == scan[p].pos
           r == RowFor(p)
<1>1. /\ scan[p].pc = "apply" /\ k <= Len(scan[p].page)
      /\ scan[p].page \in Seq(Transfers)
      /\ PageFits(scan[p].user, scan[p].page, scan[p].copy)
      /\ k \in DOMAIN scan[p].page
  <2>1. scan[p].pc = "apply" /\ k <= Len(scan[p].page)
    BY DEF More
  <2>2. k \in 1..(Len(scan[p].page) + 1)
    BY <2>1, ApplyingFits DEF Applied
  <2>3. k \in 1..Len(scan[p].page)
    BY <2>1, <2>2, ApplyingFits
  <2> QED BY <2>1, <2>3, ApplyingFits
<1>2. t \in Transfers /\ time[t] # 0
  <2>1. t \in Transfers
    BY <1>1, ElementOfSeq, LenProperties
  <2> QED BY <1>1, <2>1 DEF PageFits
<1>3. r = [tx |-> Tx[t], index |-> Index(t), transfer |-> t]
  <2>1. IndexOf(scan[p].page, k) = Index(t)
    BY <1>1, IndexInHistory DEF CreditsInv
  <2>2. r = [tx |-> Tx[t], index |-> IndexOf(scan[p].page, k), transfer |-> t]
    BY DEF RowFor
  <2> QED BY <2>1, <2>2
<1> HIDE DEF r, k
<1>4. r \in Credits /\ r.tx = Tx[t] /\ r.index = Index(t) /\ r.transfer = t
  BY <1>2, <1>3, IndexType DEF Credits, Txs
<1>5. /\ credit' = credit \/ credit' = credit \union {r}
      /\ credit' = Claimed(r) =>
           r \in credit' \/ \E c \in credit' : c.tx = r.tx /\ c.index = r.index
  BY DEF Claimed, r
<1>6. credit \subseteq credit' /\ credit' \subseteq Credits
  BY <1>4, <1>5 DEF CreditsInv, ScannerTypes
<1>7. ASSUME NEW c \in credit'
      PROVE  /\ c.transfer \in Transfers /\ c.tx = Tx[c.transfer]
             /\ c.index = Index(c.transfer) /\ time[c.transfer] # 0
  <2>1. CASE c \in credit
    <3>1. c \in Credits
      BY <2>1 DEF CreditsInv, ScannerTypes
    <3> QED BY <2>1, <3>1 DEF CreditsInv, CreditInv, Credits
  <2>2. CASE c = r
    BY <1>2, <1>4, <2>2
  <2> QED BY <1>5, <2>1, <2>2
<1>8. CreditInv'
  <2>1. \A s : Index(s)' = Index(s)
    BY DEF Index, RowsBefore, OfTx
  <2> QED BY <1>7, <2>1 DEF CreditInv
<1>9. ASSUME credit' = Claimed(r) PROVE Done(t)'
  <2>1. CASE r \in credit'
    BY <1>4, <2>1 DEF Done, Credited
  <2>2. CASE \E c \in credit' : c.tx = r.tx /\ c.index = r.index
    <3>1. PICK c \in credit' : c.tx = r.tx /\ c.index = r.index
      BY <2>2
    <3>2. PICK s \in Transfers : s = c.transfer
      BY <1>7
    <3>3. Tx[s] = Tx[t] /\ Index(s) = Index(t)
      BY <1>4, <1>7, <3>1, <3>2
    <3>4. CASE To[s] = To[t]
      <4>1. s = t
        BY <1>2, <3>3, <3>4, IndexUnique
      <4> QED BY <3>2, <4>1 DEF Done, Credited
    <3>5. CASE To[s] # To[t]
      <4>1. PaysAnotherUser(t)
        BY <3>3, <3>5 DEF PaysAnotherUser, OfTx
      <4> QED BY <4>1 DEF Done, PaysAnotherUser, OfTx
    <3> QED BY <3>4, <3>5
  <2> QED BY <1>5, <1>9, <2>1, <2>2
<1> QED BY <1>6, <1>8, <1>9 DEF r, k

LEMMA ApplyHolds == ASSUME CreditsInv, NEW p \in Scanners, Apply(p) PROVE CreditsInv'
<1> DEFINE s == scan[p]
           r == [scan[p] EXCEPT !.pos = @ + 1,
                                !.maxTs = Larger(@, time[scan[p].page[scan[p].pos]])]
<1> PICK t : t = scan[p].page[scan[p].pos]
  OBVIOUS
<1>1. /\ More(p) /\ credit' = Claimed(RowFor(p)) /\ scan[p].pc = "apply"
      /\ scan' = [scan EXCEPT ![p].pos = @ + 1, ![p].maxTs = Larger(@, time[t])]
      /\ UNCHANGED <<load, now, time, visible, cursor, age, budget>>
  BY DEF Apply, More, chain
<1>2. /\ s \in ScanStates /\ s.page \in Seq(Transfers)
      /\ s.copy \in Nat /\ s.pos \in Nat /\ s.user \in Users
      /\ s.copy <= now /\ Settled(s.user, s.copy)
      /\ PageFits(s.user, s.page, s.copy)
      /\ Applied(s.page, s.pos, s.copy, s.maxTs)
      /\ DOMAIN s.page = 1..Len(s.page) /\ Len(s.page) \in Nat
  BY <1>1, ApplyingFits
<1>3. /\ credit \subseteq credit' /\ credit' \subseteq Credits /\ CreditInv'
      /\ Done(t)'
  BY <1>1, ClaimedFits
<1>4. now \in Nat /\ now <= now
  BY DEF CreditsInv, ScannerTypes
<1>5. Onward
  BY <1>1, <1>3, <1>4 DEF Onward, TimesStay
<1>6. s.pos <= Len(s.page) /\ s.pos \in 1..Len(s.page)
  BY <1>1, <1>2 DEF More, Applied
<1>7. t \in Transfers /\ time[t] \in Nat /\ s.maxTs \in Nat
  <2>1. t \in Transfers
    BY <1>2, <1>6, ElementOfSeq
  <2> QED BY <1>2, <2>1 DEF CreditsInv, ScannerTypes, ScanStates
<1>8. Larger(s.maxTs, time[t]) \in {s.maxTs, time[t]} /\ Larger(s.maxTs, time[t]) \in Nat
  BY <1>7 DEF Larger
<1>9. /\ r \in ScanStates /\ r.pc = "apply" /\ r.pos = s.pos + 1
      /\ r.maxTs = Larger(s.maxTs, time[t]) /\ r.page = s.page /\ r.user = s.user
      /\ r.copy = s.copy /\ r.due = s.due
  <2>1. r = [scan[p] EXCEPT !.pos = @ + 1, !.maxTs = Larger(@, time[t])]
    OBVIOUS
  <2>2. s.pos + 1 \in Nat
    BY <1>2
  <2> HIDE DEF r
  <2> QED BY <1>1, <1>2, <1>8, <2>1, <2>2 DEF ScanStates
<1>10. scan' = [scan EXCEPT ![p] = r]
  <2>1. scan \in [Scanners -> ScanStates]
    BY DEF CreditsInv, ScannerTypes
  <2> QED BY <1>1, <2>1 DEF ScanStates
<1> HIDE DEF r
<1>11. PICK q \in ScanStates : q = r
  BY <1>9
<1>12. PICK o \in ScanStates : o = s
  BY <1>2
<1>13. ScanFits(o)'
  <2>1. ScanFits(o)
    BY <1>12 DEF CreditsInv, ScanInv
  <2> QED BY <1>5, <2>1, ScanStays DEF CreditsInv
<1>14. ScanFits(q)'
  <2>1. /\ q.pc = "apply" /\ q.pos = o.pos + 1 /\ q.page = o.page /\ q.user = o.user
        /\ q.copy = o.copy /\ q.due = o.due /\ o.pc = "apply"
        /\ q.maxTs \in {o.maxTs, time[o.page[o.pos]]}
        /\ o.pos \in 1..Len(o.page) /\ Len(o.page) \in Nat
    BY <1>1, <1>2, <1>6, <1>8, <1>9, <1>11, <1>12
  <2>2. Done(o.page[o.pos])'
    <3>1. t = o.page[o.pos]
      BY <1>12
    <3> QED BY <1>3, <3>1
  <2>3. Applied(o.page, o.pos, o.copy, o.maxTs)'
    BY <1>13, <2>1 DEF ScanFits
  <2>4. Applied(q.page, q.pos, q.copy, q.maxTs)'
    <3>1. q.pos \in 1..(Len(q.page) + 1)
      BY <2>1
    <3>2. \A j \in 1..(q.pos - 1) : j \in 1..(o.pos - 1) \/ j = o.pos
      BY <2>1
    <3>3. \A j \in 1..(q.pos - 1) : Done(q.page[j])'
      BY <2>1, <2>2, <2>3, <3>2 DEF Applied
    <3>4. /\ o.pos \in 1..(q.pos - 1)
          /\ \A j \in 1..(o.pos - 1) : j \in 1..(q.pos - 1)
      BY <2>1
    <3>5. q.maxTs = q.copy \/ \E j \in 1..(q.pos - 1) : q.maxTs = time'[q.page[j]]
      BY <1>1, <2>1, <2>3, <3>4 DEF Applied
    <3> QED BY <3>1, <3>3, <3>5 DEF Applied
  <2> QED BY <1>13, <2>1, <2>4 DEF ScanFits
<1>15. CursorInv'
  BY <1>1, <1>5, StoredStays
<1>16. /\ cursor' \in [Users -> 0..now] /\ age' \in [Users -> 0..ColdEvery]
       /\ budget' \in [{"faults", "rescans"} -> Nat]
  BY <1>1 DEF CreditsInv, ScannerTypes
<1>17. scan' = [scan EXCEPT ![p] = q]
  BY <1>10, <1>11
<1> QED BY <1>1, <1>3, <1>14, <1>15, <1>16, <1>17, ScanMoves

LEMMA ApplyThrowsHolds == ASSUME CreditsInv, NEW p \in Scanners, ApplyThrows(p) PROVE CreditsInv'
<1>1. /\ More(p) /\ Spend("faults") /\ Finish(p)
      /\ credit' = credit \/ credit' = Claimed(RowFor(p))
      /\ UNCHANGED <<load, now, time, visible, cursor, age>>
  BY DEF ApplyThrows, chain
<1>2. credit \subseteq credit' /\ credit' \subseteq Credits /\ CreditInv'
  BY <1>1, ClaimedFits
<1>3. now \in Nat /\ now <= now
  BY DEF CreditsInv, ScannerTypes
<1>4. Onward
  BY <1>1, <1>2, <1>3 DEF Onward, TimesStay
<1>5. PICK r \in ScanStates : ScanFits(r) /\ scan' = [scan EXCEPT ![p] = r]
  BY <1>1, FinishFits
<1>6. ScanFits(r)'
  BY <1>4, <1>5, ScanStays DEF CreditsInv
<1>7. CursorInv'
  BY <1>1, <1>4, StoredStays
<1>8. cursor' \in [Users -> 0..now] /\ age' \in [Users -> 0..ColdEvery]
  BY <1>1 DEF CreditsInv, ScannerTypes
<1>9. budget' \in [{"faults", "rescans"} -> Nat]
  BY <1>1, SpendType
<1> QED BY <1>1, <1>2, <1>5, <1>6, <1>7, <1>8, <1>9, ScanMoves

(* The newest row of a page that was applied to its end: what is older     *)
(* than the overlap before it was in the page, or before it.               *)
LEMMA NewestSettles ==
  ASSUME ScannerTypes, NEW u, NEW page, NEW pos, NEW n, NEW maxTs,
         Settled(u, n), PageFits(u, page, n), Applied(page, pos, n, maxTs),
         DOMAIN page = 1..Len(page), Len(page) \in Nat, n \in Nat
  PROVE  Settled(u, maxTs)
<1>1. CASE maxTs = n
  BY <1>1
<1>2. CASE \E j \in 1..(pos - 1) : maxTs = time[page[j]]
  <2>1. PICK j \in 1..(pos - 1) : maxTs = time[page[j]]
    BY <1>2
  <2>2. pos \in 1..(Len(page) + 1) /\ \A i \in 1..(pos - 1) : Done(page[i])
    BY DEF Applied
  <2>3. j \in DOMAIN page
    BY <2>1, <2>2
  <2> SUFFICES ASSUME NEW t \in Transfers, To[t] = u, time[t] # 0, time[t] < maxTs - Overlap
               PROVE  Done(t)
    BY DEF Settled
  <2>4. time[t] \in Nat /\ Overlap \in Nat
    <3>1. Overlap \in Nat
      BY ScannerAssumption
    <3> QED BY <3>1 DEF ScannerTypes
  <2>5. CASE time[t] < n - Overlap
    BY <2>5 DEF Settled
  <2>6. CASE n - Overlap <= time[t]
    <3>1. PICK i \in 1..(j - 1) : page[i] = t
      BY <2>1, <2>3, <2>6 DEF PageFits
    <3>2. i \in 1..(pos - 1)
      BY <2>1, <2>2, <3>1
    <3> QED BY <2>2, <3>1, <3>2
  <2> QED BY <2>4, <2>5, <2>6
<1> QED BY <1>1, <1>2 DEF Applied

LEMMA SaveCursorHolds == ASSUME CreditsInv, NEW p \in Scanners, SaveCursor(p) PROVE CreditsInv'
<1> DEFINE s == scan[p]
<1>1. /\ s.pc = "apply" /\ Finish(p)
      /\ age' = [age EXCEPT ![s.user] = 0]
      /\ cursor' = [cursor EXCEPT ![s.user] = IF s.maxTs > s.copy THEN s.maxTs ELSE @]
      /\ UNCHANGED <<load, now, time, visible, credit, budget>>
  BY DEF SaveCursor, chain
<1>2. /\ s \in ScanStates /\ s.page \in Seq(Transfers)
      /\ s.copy \in Nat /\ s.pos \in Nat /\ s.user \in Users
      /\ s.copy <= now /\ Settled(s.user, s.copy)
      /\ PageFits(s.user, s.page, s.copy)
      /\ Applied(s.page, s.pos, s.copy, s.maxTs)
      /\ DOMAIN s.page = 1..Len(s.page) /\ Len(s.page) \in Nat
  BY <1>1, ApplyingFits
<1>3. now \in Nat /\ now <= now
  BY DEF CreditsInv, ScannerTypes
<1>4. Onward
  BY <1>1, <1>3 DEF Onward, TimesStay
<1>5. PICK r \in ScanStates : ScanFits(r) /\ scan' = [scan EXCEPT ![p] = r]
  BY <1>1, FinishFits
<1>6. ScanFits(r)'
  BY <1>4, <1>5, ScanStays DEF CreditsInv
<1>7. PICK m \in Nat : m = s.maxTs
  BY <1>2 DEF ScanStates
<1>8. Settled(s.user, m)
  BY <1>2, <1>7, NewestSettles DEF CreditsInv
<1>9. m <= now
  <2>1. CASE m = s.copy
    BY <1>2, <2>1
  <2>2. CASE \E j \in 1..(s.pos - 1) : m = time[s.page[j]]
    <3>1. PICK j \in 1..(s.pos - 1) : m = time[s.page[j]]
      BY <2>2
    <3>2. j \in 1..Len(s.page)
      BY <1>2, <3>1 DEF Applied
    <3>3. s.page[j] \in Transfers
      BY <1>2, <3>2, ElementOfSeq
    <3> QED BY <3>1, <3>3 DEF CreditsInv, ChainInv
  <2> QED BY <1>2, <1>7, <2>1, <2>2 DEF Applied
<1>10. cursor' \in [Users -> 0..now] /\ age' \in [Users -> 0..ColdEvery]
  <2>1. 0 \in 0..ColdEvery
    BY ScannerAssumption
  <2>2. m \in 0..now /\ cursor \in [Users -> 0..now] /\ age \in [Users -> 0..ColdEvery]
    BY <1>3, <1>7, <1>9 DEF CreditsInv, ScannerTypes
  <2> QED BY <1>1, <1>2, <1>7, <2>1, <2>2
<1>11. CursorInv'
  <2> SUFFICES ASSUME NEW u \in Users PROVE Settled(u, cursor[u])'
    BY DEF CursorInv
  <2>1. cursor'[u] = cursor[u] \/ (u = s.user /\ cursor'[u] = m)
    <3>1. cursor \in [Users -> 0..now]
      BY DEF CreditsInv, ScannerTypes
    <3> QED BY <1>1, <1>2, <1>7, <3>1
  <2>2. Settled(u, cursor[u])
    BY DEF CreditsInv, CursorInv
  <2>3. PICK n : n = cursor'[u]
    OBVIOUS
  <2>4. Settled(u, n)
    BY <1>8, <2>1, <2>2, <2>3
  <2>5. \A t \in Transfers : time'[t] = time[t] /\ (Done(t) => Done(t)')
    BY <1>1, DoneStays
  <2>6. Settled(u, n)'
    BY <2>4, <2>5 DEF Settled
  <2> QED BY <2>3, <2>6 DEF Settled
<1>12. CreditInv'
  BY <1>1, <1>4, CreditStays
<1>13. /\ credit \subseteq credit' /\ credit' \subseteq Credits
       /\ budget' \in [{"faults", "rescans"} -> Nat]
  BY <1>1 DEF CreditsInv, ScannerTypes
<1> QED BY <1>1, <1>5, <1>6, <1>10, <1>11, <1>12, <1>13, ScanMoves

-----------------------------------------------------------------------------
(* Nothing of the scanner moves, or its scans die. *)
LEMMA ScannerRests ==
  ASSUME CreditsInv, UNCHANGED <<chain, stored, budget, load>>,
         scan' = scan \/ scan' = [p \in Scanners |-> Idle]
  PROVE  CreditsInv'
<1>1. UNCHANGED <<now, time, visible, cursor, age, credit, budget, load>>
  BY DEF chain, stored
<1>2. now \in Nat /\ now <= now
  BY DEF CreditsInv, ScannerTypes
<1>3. Onward
  BY <1>1, <1>2 DEF Onward, TimesStay
<1>4. CreditInv' /\ CursorInv'
  BY <1>1, <1>3, CreditStays, StoredStays
<1>5. ScannerTypes'
  <2>1. scan' \in [Scanners -> ScanStates]
    BY IdleFits DEF CreditsInv, ScannerTypes
  <2> QED BY <1>1, <2>1 DEF CreditsInv, ScannerTypes
<1>6. ChainInv'
  BY <1>1 DEF CreditsInv, ChainInv
<1>7. ASSUME NEW p \in Scanners PROVE ScanFits(scan[p])'
  <2>1. CASE scan'[p] = scan[p]
    BY <1>3, <2>1, ScansStay
  <2>2. CASE scan'[p] = Idle
    BY <2>2, IdleFits
  <2> QED BY <2>1, <2>2
<1>8. ScanInv'
  BY <1>7 DEF ScanInv
<1> QED BY <1>4, <1>5, <1>6, <1>8 DEF CreditsInv

(* The addresses change by the allocation's steps only. *)
LEMMA NextAllocates == [Next]_vars => [AllocNext]_allocVars
<1> SUFFICES ASSUME [Next]_vars PROVE [AllocNext]_allocVars
  OBVIOUS
<1>1. ASSUME NEW c \in Requests, RequestStep(c) PROVE AllocNext
  BY <1>1 DEF AllocNext
<1>2. ASSUME NEW s \in Scripts, ScriptStep(s) PROVE AllocNext
  BY <1>2 DEF AllocNext
<1>3. ASSUME NEW env \in Environments, Restart(env) PROVE AllocNext
  BY <1>3 DEF Restart, AllocNext
<1>4. ASSUME NEW tier, List(tier) PROVE UNCHANGED allocVars
  BY <1>4 DEF List
<1>5. ASSUME NextAddress \/ EndTick PROVE UNCHANGED allocVars
  BY <1>5 DEF NextAddress, EndTick
<1>6. ASSUME NEW u, Rescan(u) PROVE UNCHANGED allocVars
  BY <1>6 DEF Rescan
<1>7. ASSUME NEW p, Fetch(p) \/ FetchFails(p) \/ SaveThrows(p) PROVE UNCHANGED allocVars
  BY <1>7 DEF Fetch, FetchFails, SaveThrows
<1>8. ASSUME NEW p, Apply(p) \/ ApplyThrows(p) \/ SaveCursor(p) PROVE UNCHANGED allocVars
  BY <1>8 DEF Apply, ApplyThrows, SaveCursor
<1>9. ASSUME Clock PROVE UNCHANGED allocVars
  BY <1>9 DEF Clock
<1>10. ASSUME NEW x, Send(x) \/ Show(x) PROVE UNCHANGED allocVars
  BY <1>10 DEF Send, Show
<1>11. ASSUME UNCHANGED vars PROVE UNCHANGED allocVars
  BY <1>11 DEF vars
<1>12. ASSUME TickStep PROVE UNCHANGED allocVars
  BY <1>5, <1>7, <1>8, <1>12 DEF TickStep
<1> QED BY <1>1, <1>2, <1>3, <1>4, <1>6, <1>7, <1>8, <1>9, <1>10, <1>11, <1>12 DEF Next

(* Every step keeps the scanner's invariant. *)
LEMMA CreditsStepHolds == AllocInv /\ CreditsInv /\ [Next]_vars => CreditsInv'
<1> SUFFICES ASSUME AllocInv, CreditsInv, [Next]_vars PROVE CreditsInv'
  OBVIOUS
<1>1. ASSUME UNCHANGED <<chain, stored, scan, budget, load>> PROVE CreditsInv'
  BY <1>1, ScannerRests
<1>2. ASSUME NEW env \in Environments, Restart(env) PROVE CreditsInv'
  BY <1>2, ScannerRests DEF Restart
<1>3. "tick" \in Scanners /\ "rescan" \in Scanners
  BY DEF Scanners
<1>4. ASSUME NEW p \in Scanners, Fetch(p) \/ Apply(p) \/ SaveCursor(p) PROVE CreditsInv'
  BY <1>4, FetchHolds, ApplyHolds, SaveCursorHolds
<1>5. ASSUME NEW p \in Scanners, FetchFails(p) \/ ApplyThrows(p) \/ SaveThrows(p)
      PROVE  CreditsInv'
  BY <1>5, FetchFailsHolds, ApplyThrowsHolds, SaveThrowsHolds
<1>6. ASSUME TickStep PROVE CreditsInv'
  BY <1>3, <1>4, <1>6, NextAddressHolds, EndTickHolds DEF TickStep
<1>7. ASSUME NEW x \in Txs, Send(x) \/ Show(x) PROVE CreditsInv'
  BY <1>7, SendHolds, ShowHolds
<1>8. ASSUME UNCHANGED vars PROVE CreditsInv'
  BY <1>1, <1>8 DEF vars
<1> QED BY <1>1, <1>2, <1>3, <1>4, <1>5, <1>6, <1>7, <1>8, ListHolds, RescanHolds, ClockHolds
        DEF Next

(* AllocInv and CreditsInv hold in every reachable state of the scanner. *)
THEOREM ScannerInvariant == Spec => [](AllocInv /\ CreditsInv)
<1>1. Init => AllocInv /\ CreditsInv
  BY ScannerInitHolds
<1>2. (AllocInv /\ CreditsInv) /\ [Next]_vars => (AllocInv /\ CreditsInv)'
  BY AllocStepHolds, NextAllocates, CreditsStepHolds
<1> QED BY <1>1, <1>2, PTL DEF Spec

(* The types of the scanner and of the addresses it watches. *)
THEOREM ScannerTypeCorrect == Spec => []TypeOK
<1>1. AllocInv /\ CreditsInv => TypeOK
  <2> SUFFICES ASSUME AllocInv, CreditsInv PROVE TypeOK
    OBVIOUS
  <2>1. ASSUME NEW p \in Scanners
        PROVE  /\ scan[p].pc \in {"idle", "next", "fetch", "apply"}
               /\ DOMAIN scan[p].due \subseteq Users /\ scan[p].user \in Users
               /\ Range(scan[p].page) \subseteq Transfers
    <3>1. scan[p] \in ScanStates
      BY DEF CreditsInv, ScannerTypes
    <3>2. scan[p].page \in Seq(Transfers)
      BY <3>1 DEF ScanStates
    <3>3. \A k \in DOMAIN scan[p].page : scan[p].page[k] \in Transfers
      BY <3>2, LenProperties, ElementOfSeq
    <3> QED BY <3>1, <3>3 DEF ScanStates, Range
  <2> QED BY <2>1 DEF AllocInv, CreditsInv, ScannerTypes, TypeOK
<1> QED BY <1>1, ScannerInvariant, PTL

(* Users who pay while requests, scripts, restarts and scans race are      *)
(* shown one address each, in their row and in no other's.                 *)
THEOREM WatchedAddressesCorrect == Spec => []OneAddressEach
<1>1. AllocInv => OneAddressEach
  BY AddressesFollow
<1> QED BY <1>1, ScannerInvariant, PTL

(* So do they beside the scanner and the users who pay: the scanner        *)
(* neither makes nor changes an address, and a restart takes none.         *)
THEOREM WatchedForLife == Spec => ImplementsBook
<1>1. Init => Book!Init
  BY ScannerInitHolds, BookInitHolds
<1>2. AllocInv /\ [AllocNext]_allocVars => [Book!Next]_Book!vars
  BY AllocKeepsBook
<1>3. AllocInv /\ CreditsInv /\ [Next]_vars => [AllocNext]_allocVars
  BY NextAllocates
<1> QED BY <1>1, <1>2, <1>3, ScannerInvariant, PTL DEF Spec, ImplementsBook, Book!Spec

(* However pages, faults, rescans and restarts fall, a transfer has at     *)
(* most one row, a row is a transfer that was made, and a transfer that no *)
(* tick will read again has its row, unless its transaction pays another   *)
(* user too.                                                               *)
THEOREM CreditsAreExact == Spec => []CreditsExact
<1>1. AllocInv /\ CreditsInv => CreditsExact
  <2> SUFFICES ASSUME CreditsInv PROVE CreditsExact
    OBVIOUS
  <2>1. ASSUME NEW c \in credit, NEW d \in credit, c.transfer = d.transfer PROVE c = d
    <3>1. c \in Credits /\ d \in Credits
      BY DEF CreditsInv, ScannerTypes
    <3>2. c.tx = d.tx /\ c.index = d.index
      BY <2>1 DEF CreditsInv, CreditInv
    <3> QED BY <2>1, <3>1, <3>2 DEF Credits
  <2>2. \A c \in credit : time[c.transfer] # 0
    BY DEF CreditsInv, CreditInv
  <2>3. ASSUME NEW t \in Transfers, time[t] # 0, time[t] < cursor[To[t]] - Overlap
        PROVE  Credited(t) \/ PaysAnotherUser(t)
    <3>1. To[t] \in Users
      BY ScannerAssumption
    <3>2. Settled(To[t], cursor[To[t]])
      BY <3>1 DEF CreditsInv, CursorInv
    <3> QED BY <2>3, <3>2 DEF Settled, Done
  <2> QED BY <2>1, <2>2, <2>3 DEF CreditsExact
<1> QED BY <1>1, ScannerInvariant, PTL
=============================================================================
