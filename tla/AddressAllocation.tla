-------------------------- MODULE AddressAllocation --------------------------
(***************************************************************************)
(* The permanent deposit addresses of one network.  A request asks for its *)
(* user's address (getOrCreateDepositAddress of depositAddress.service.ts) *)
(* and makes it if there is none; the migration script makes addresses in  *)
(* advance, in a process and with an environment of its own.  All of them  *)
(* draw indices from one counter and insert under the unique indexes of    *)
(* depositAddress.model.ts.  The service may be restarted with another     *)
(* mnemonic, or without one.                                               *)
(*                                                                         *)
(* A key is what it is derived from: a mnemonic and an index.  A random    *)
(* key has no mnemonic and is named by the index that was drawn for it.    *)
(***************************************************************************)
EXTENDS Naturals, FiniteSets

CONSTANTS
  Users,
  Requests,       \* concurrent getOrCreateDepositAddress calls
  Scripts,        \* runs of migrate-persistent-addresses.js
  Phrases,        \* mnemonics an operator may configure
  NoPhrase,       \* none is configured
  Environments,   \* settings of DEPOSIT_HD_MNEMONIC and DEPOSIT_KEY_BACKUP
  MaxAttempts,    \* the loop of getOrCreateDepositAddress: 5
  MaxIndex,       \* bound: indices drawn
  MaxRestarts     \* bound: restarts of the service

ASSUME AllocationAssumption ==
  /\ NoPhrase \notin Phrases
  /\ Environments \subseteq [phrase : Phrases \union {NoPhrase}, backup : BOOLEAN]
  /\ MaxAttempts \in Nat \ {0} /\ MaxIndex \in Nat /\ MaxRestarts \in Nat

VARIABLES
  row,            \* deposit_addresses: who owns which key, and is it also stored
  counter,        \* scanner_state, "hd-index:<network>"
  config,         \* DEPOSIT_HD_MNEMONIC and DEPOSIT_KEY_BACKUP of the service
  request, script,
  shown,          \* the addresses that were handed to users
  restarts

allocVars == <<row, counter, config, request, script, shown, restarts>>

Keys == [phrase : Phrases \union {NoPhrase}, index : Nat]
Rows == [user : Users, key : Keys, cipher : BOOLEAN]
Shown == [user : Users, key : Keys]

NoKey == [phrase |-> NoPhrase, index |-> 0]
RequestStates == [pc : {"idle", "index", "create", "reread"}, user : Users, key : Keys,
                  cipher : BOOLEAN, attempt : Nat]
ScriptStates == [pc : {"ready", "find", "index", "insert", "done"}, todo : SUBSET Users,
                 env : Environments, key : Keys]

Asking(u) ==
  [pc |-> "idle", user |-> u, key |-> NoKey, cipher |-> FALSE, attempt |-> 0]
Script(pc, todo, env) == [pc |-> pc, todo |-> todo, env |-> env, key |-> NoKey]

AllocInit ==
  /\ row = {} /\ counter = 0 /\ shown = {} /\ restarts = 0
  /\ config \in Environments
  /\ request \in [Requests -> {Asking(u) : u \in Users}]
  /\ script \in [Scripts -> {Script("ready", todo, env) : todo \in SUBSET Users,
                                                         env \in Environments}]

RowsOf(u) == {r \in row : r.user = u}

(* The two unique indexes: {userId, network} and {network, addressLookup}. *)
Clashes(u, k) == \E r \in row : r.user = u \/ r.key = k

(* createDepositKey: from the mnemonic and the index if there is one, else *)
(* random; stored encrypted if it is random or a backup is wanted.         *)
KeyFor(env, n) == [phrase |-> env.phrase, index |-> n]
Stored(env) == env.phrase = NoPhrase \/ env.backup
NewRow(u, k, cipher) == [user |-> u, key |-> k, cipher |-> cipher]

-----------------------------------------------------------------------------
(* getOrCreateDepositAddress *)

Return(c, u, k) ==
  /\ request' = [request EXCEPT ![c] = Asking(@.user)]
  /\ shown' = shown \union {[user |-> u, key |-> k]}

Fail(c) ==
  /\ request' = [request EXCEPT ![c] = Asking(@.user)]
  /\ UNCHANGED shown

FindExisting(c) ==
  /\ request[c].pc = "idle"
  /\ \E r \in RowsOf(request[c].user) : Return(c, r.user, r.key)
  /\ UNCHANGED <<row, counter, config, script, restarts>>

FindNone(c) ==
  /\ request[c].pc = "idle" /\ RowsOf(request[c].user) = {}
  /\ request' = [request EXCEPT ![c].pc = "index"]
  /\ UNCHANGED <<row, counter, config, script, shown, restarts>>

(* nextHdIndex ($inc), and the key made from what it returns. *)
NextIndex(c) ==
  /\ request[c].pc = "index" /\ counter < MaxIndex
  /\ counter' = counter + 1
  /\ request' = [request EXCEPT ![c].pc = "create", ![c].key = KeyFor(config, counter + 1),
                                ![c].cipher = Stored(config)]
  /\ UNCHANGED <<row, config, script, shown, restarts>>

(* A mistake to find: the loser of the race shows the address it made. *)
CreateRowAnyway(c) ==
  LET r == request[c] IN
    /\ r.pc = "create"
    /\ row' = IF Clashes(r.user, r.key) THEN row
              ELSE row \union {NewRow(r.user, r.key, r.cipher)}
    /\ Return(c, r.user, r.key)
    /\ UNCHANGED <<counter, config, script, restarts>>

(* create, or E11000. *)
CreateRow(c) ==
  LET r == request[c] IN
    /\ r.pc = "create"
    /\ IF Clashes(r.user, r.key)
         THEN /\ request' = [request EXCEPT ![c].pc = "reread"]
              /\ UNCHANGED <<row, shown>>
         ELSE /\ row' = row \union {NewRow(r.user, r.key, r.cipher)}
              /\ Return(c, r.user, r.key)
    /\ UNCHANGED <<counter, config, script, restarts>>

(* The winner's row; without one the loop goes round, up to its limit.     *)
Reread(c) ==
  /\ request[c].pc = "reread"
  /\ IF RowsOf(request[c].user) # {}
       THEN \E r \in RowsOf(request[c].user) : Return(c, r.user, r.key)
       ELSE IF request[c].attempt + 1 < MaxAttempts
         THEN /\ request' = [request EXCEPT ![c].pc = "index", ![c].attempt = @ + 1]
              /\ UNCHANGED shown
         ELSE Fail(c)
  /\ UNCHANGED <<row, counter, config, script, restarts>>

(* Any of the calls throws; the request ends with an error. *)
RequestThrows(c) ==
  /\ request[c].pc # "idle"
  /\ Fail(c)
  /\ UNCHANGED <<row, counter, config, script, restarts>>

-----------------------------------------------------------------------------
(* migrate-persistent-addresses.js with APPLY=true *)

RunScript(s) ==
  /\ script[s].pc = "ready"
  /\ script' = [script EXCEPT ![s].pc = "find"]
  /\ UNCHANGED <<row, counter, config, request, shown, restarts>>

(* The targets are taken in turn; who has an address is skipped. *)
ScriptFind(s) ==
  /\ script[s].pc = "find"
  /\ IF script[s].todo = {} THEN script' = [script EXCEPT ![s].pc = "done"]
     ELSE LET u == CHOOSE v \in script[s].todo : TRUE IN
       script' = IF RowsOf(u) # {} THEN [script EXCEPT ![s].todo = @ \ {u}]
                 ELSE [script EXCEPT ![s].pc = "index"]
  /\ UNCHANGED <<row, counter, config, request, shown, restarts>>

ScriptIndex(s) ==
  /\ script[s].pc = "index" /\ counter < MaxIndex
  /\ counter' = counter + 1
  /\ script' = [script EXCEPT ![s].pc = "insert", ![s].key = KeyFor(script[s].env, counter + 1)]
  /\ UNCHANGED <<row, config, request, shown, restarts>>

(* insertOne; a duplicate ends the whole run. *)
ScriptInsert(s) ==
  LET u == CHOOSE v \in script[s].todo : TRUE IN
    /\ script[s].pc = "insert"
    /\ IF Clashes(u, script[s].key)
         THEN /\ script' = [script EXCEPT ![s].pc = "done", ![s].key = NoKey]
              /\ UNCHANGED row
         ELSE /\ row' = row \union {NewRow(u, script[s].key, Stored(script[s].env))}
              /\ script' = [script EXCEPT ![s].pc = "find", ![s].key = NoKey, ![s].todo = @ \ {u}]
    /\ UNCHANGED <<counter, config, request, shown, restarts>>

-----------------------------------------------------------------------------
(* The requests under way are lost; the environment may be another one. *)
Reconfigure(env) ==
  /\ restarts < MaxRestarts /\ restarts' = restarts + 1
  /\ config' = env
  /\ request' = [c \in Requests |-> Asking(request[c].user)]
  /\ UNCHANGED <<row, counter, script, shown>>

RequestStep(c) ==
  FindExisting(c) \/ FindNone(c) \/ NextIndex(c) \/ CreateRow(c) \/ Reread(c) \/ RequestThrows(c)

ScriptStep(s) == RunScript(s) \/ ScriptFind(s) \/ ScriptIndex(s) \/ ScriptInsert(s)

AllocNext ==
  \/ \E c \in Requests : RequestStep(c)
  \/ \E s \in Scripts : ScriptStep(s)
  \/ \E env \in Environments : Reconfigure(env)

AllocSpec == AllocInit /\ [][AllocNext]_allocVars

-----------------------------------------------------------------------------
(* Properties *)

(* The type invariant. *)
AllocTypeOK ==
  /\ row \subseteq Rows /\ counter \in Nat /\ config \in Environments
  /\ request \in [Requests -> RequestStates]
  /\ script \in [Scripts -> ScriptStates]
  /\ \A s \in Scripts : script[s].pc \in {"index", "insert"} => script[s].todo # {}
  /\ shown \subseteq Shown /\ restarts \in Nat

(* "Concurrent calls converge on the same address", and an address is one  *)
(* user's: whatever requests and scripts race, lose and die, all that was  *)
(* ever shown to a user is one address, in his row, and in no other's; and *)
(* a request that lost finds the winner's row when it reads again.         *)
OneAddressEach ==
  /\ \A x, y \in shown : x.user = y.user <=> x.key = y.key
  /\ \A x \in shown : \E r \in row : r.user = x.user /\ r.key = x.key
  /\ \A c \in Requests : request[c].pc = "reread" => RowsOf(request[c].user) # {}

(* "ONE permanent deposit address per (user, network)"                     *)
(* (depositAddress.model.ts): the rows are an AddressBook, in which no     *)
(* entry is ever struck out or changed, and a user is shown only his own.  *)
Book == INSTANCE AddressBook WITH
  entries <- {[user |-> r.user, key |-> r.key] : r \in row},
  told <- shown

ImplementsBook == Book!Spec
=============================================================================
