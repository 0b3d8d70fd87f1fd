------------------------- MODULE VaultListenerProofs -------------------------
(***************************************************************************)
(* That the listener and the calls that link wallets keep their types and  *)
(* do not undo each other, and that the totals follow the deposits, for    *)
(* any number of events, intents, polls, users and calls.                  *)
(*                                                                         *)
(* LinkedStays is a property of steps, and a save drops whatever its copy  *)
(* of the list lacks.  The invariant is about the copies: a copy whose     *)
(* version is still the document's lacks only what the accounting added.   *)
(* BooksFollow counts deposits; its invariant, BooksInv, is further below.  *)
(***************************************************************************)
EXTENDS VaultListener, FiniteSetTheorems, SequenceTheorems, TLAPS

UsersTypeOK ==
  /\ registered \subseteq Users
  /\ primary \in [Users -> Wallets \union {NoWallet}]
  /\ wallets \in [Users -> SUBSET Wallets] /\ added \in [Users -> SUBSET Wallets]
  /\ version \in [Users -> Nat]

(* Who is not registered yet has no wallet that a registration could drop. *)
Unlisted == \A u \in Users \ registered : wallets[u] = {}

UsersInv == UsersTypeOK /\ Unlisted

(* A copy against the document's version v, list W and additions A. *)
Fits(copy, v, W, A) == copy.version <= v /\ (copy.version = v => W \ copy.list \subseteq A)

FitsUser(copy, u) ==
  u \in registered /\ Fits(copy, version[u], wallets[u], added[u])

CallCopies ==
  \A c \in Calls : call[c].pc \in {"check", "write"} => FitsUser(call[c].copy, call[c].user)

PollCopies ==
  \A p \in Polls : poll[p].pc \in {"check", "link"} => FitsUser(poll[p].copy, UserOf(p))

OwnersRegistered == \A i \in Intents : Owner[i] \in registered

LinkInv == TypeOK /\ Unlisted /\ CallCopies /\ PollCopies /\ OwnersRegistered

(* What a step may do to the users, for copies to go on fitting: it raises *)
(* the version, or lists only what it counts as added.                     *)
UsersStep ==
  /\ registered \subseteq registered'
  /\ \A u \in registered :
       \/ version'[u] > version[u]
       \/ /\ version'[u] = version[u]
          /\ added[u] \subseteq added'[u] /\ wallets'[u] \ wallets[u] \subseteq added'[u]

LinkedStep == \A u \in Users : wallets[u] \ wallets'[u] \subseteq added[u]

-----------------------------------------------------------------------------
(* A copy that fits still does after a step of the users. *)
LEMMA FitsStay ==
  ASSUME UsersTypeOK, UsersTypeOK', UsersStep, NEW u, NEW copy, copy.version \in Nat,
         u \in registered, Fits(copy, version[u], wallets[u], added[u])
  PROVE  u \in registered' /\ Fits(copy, version'[u], wallets'[u], added'[u])
<1>1. u \in Users /\ u \in registered'
  BY DEF UsersTypeOK, UsersStep
<1>2. version[u] \in Nat /\ version'[u] \in Nat
  BY <1>1 DEF UsersTypeOK
<1>3. CASE version'[u] > version[u]
  BY <1>1, <1>2, <1>3 DEF Fits
<1>4. CASE /\ version'[u] = version[u]
           /\ added[u] \subseteq added'[u] /\ wallets'[u] \ wallets[u] \subseteq added'[u]
  BY <1>1, <1>4 DEF Fits
<1> QED BY <1>3, <1>4 DEF UsersStep

(* A copy that was just read fits. *)
LEMMA CopyFits ==
  ASSUME UsersTypeOK, NEW u \in Users
  PROVE  /\ CopyOf(u) \in Copies
         /\ Fits(CopyOf(u), version[u], wallets[u], added[u])
BY DEF UsersTypeOK, CopyOf, Copies, Fits

(* Nothing happens to the users. *)
LEMMA UsersStay ==
  ASSUME UsersInv, UNCHANGED users
  PROVE  UsersInv' /\ UsersStep /\ LinkedStep
BY DEF UsersInv, UsersTypeOK, Unlisted, UsersStep, LinkedStep, users

(* A save drops nothing that its copy of the same version does not lack. *)
LEMMA SaveKeeps ==
  ASSUME UsersInv, NEW u \in registered, NEW w \in Wallets, NEW copy \in Copies,
         Fits(copy, version[u], wallets[u], added[u]), Saves(u, copy, w), Save(u, copy, w)
  PROVE  UsersInv' /\ UsersStep /\ LinkedStep
<1>1. u \in Users /\ copy.list \subseteq Wallets /\ copy.unset \in BOOLEAN
  BY DEF UsersInv, UsersTypeOK, Copies
<1>2. /\ wallets' = [wallets EXCEPT ![u] = copy.list \union {w}]
      /\ primary' = [primary EXCEPT ![u] = IF copy.unset THEN w ELSE primary[u]]
      /\ version' = [version EXCEPT ![u] = version[u] + 1]
      /\ registered' = registered /\ added' = added
  BY DEF Save, SetPrimary
<1>3. UsersTypeOK'
  BY <1>1, <1>2 DEF UsersInv, UsersTypeOK
<1>4. wallets[u] \ copy.list \subseteq added[u]
  BY DEF Saves, Fits
<1>5. Unlisted'
  BY <1>1, <1>2 DEF UsersInv, UsersTypeOK, Unlisted
<1>6. UsersStep
  BY <1>1, <1>2 DEF UsersInv, UsersTypeOK, UsersStep
<1>7. LinkedStep
  BY <1>1, <1>2, <1>4 DEF UsersInv, UsersTypeOK, LinkedStep
<1> QED BY <1>3, <1>5, <1>6, <1>7 DEF UsersInv

(* The accounting only adds, and what it adds counts as added. *)
LEMMA AddKeeps ==
  ASSUME UsersInv, NEW u \in registered, NEW w \in Wallets, NEW copy, AddToSet(u, copy, w)
  PROVE  UsersInv' /\ UsersStep /\ LinkedStep
<1>1. u \in Users
  BY DEF UsersInv, UsersTypeOK
<1>2. /\ wallets' = [wallets EXCEPT ![u] = wallets[u] \union {w}]
      /\ primary' = [primary EXCEPT ![u] = IF copy.unset THEN w ELSE primary[u]]
      /\ added' = [added EXCEPT ![u] = added[u] \union {w}]
      /\ registered' = registered /\ version' = version
  BY DEF AddToSet, SetPrimary
<1>3. UsersTypeOK'
  BY <1>1, <1>2 DEF UsersInv, UsersTypeOK
<1>4. Unlisted'
  BY <1>1, <1>2 DEF UsersInv, UsersTypeOK, Unlisted
<1>5. UsersStep
  BY <1>1, <1>2 DEF UsersInv, UsersTypeOK, UsersStep
<1>6. LinkedStep
  BY <1>1, <1>2 DEF UsersInv, UsersTypeOK, LinkedStep
<1> QED BY <1>3, <1>4, <1>5, <1>6 DEF UsersInv

(* A registration writes a user nobody has a copy of. *)
LEMMA RegisterKeeps ==
  ASSUME UsersInv, NEW u \in Users, NEW w \in Wallets \union {NoWallet}, Register(u, w)
  PROVE  UsersInv' /\ UsersStep /\ LinkedStep
<1>1. /\ u \notin registered /\ wallets[u] = {}
      /\ registered' = registered \union {u}
      /\ primary' = [primary EXCEPT ![u] = w]
      /\ wallets' = [wallets EXCEPT ![u] = {w} \ {NoWallet}]
      /\ version' = version /\ added' = added
  BY DEF Register, UsersInv, Unlisted
<1>2. UsersTypeOK'
  BY <1>1 DEF UsersInv, UsersTypeOK
<1>3. Unlisted'
  BY <1>1 DEF UsersInv, UsersTypeOK, Unlisted
<1>4. UsersStep
  BY <1>1 DEF UsersInv, UsersTypeOK, UsersStep
<1>5. LinkedStep
  BY <1>1 DEF UsersInv, UsersTypeOK, LinkedStep
<1> QED BY <1>2, <1>3, <1>4, <1>5 DEF UsersInv

-----------------------------------------------------------------------------
(* What a call that links does: to the users, and to the calls' copies. *)
LEMMA CallKeeps ==
  ASSUME UsersInv, call \in [Calls -> CallStates], CallCopies,
         NEW c \in Calls, WalletCall(c)
  PROVE  /\ UsersInv' /\ UsersStep /\ LinkedStep
         /\ call' \in [Calls -> CallStates] /\ CallCopies'
<1> DEFINE r == call[c]
<1>1. /\ r \in CallStates /\ r.user \in Users /\ r.wallet \in Wallets
      /\ r.copy \in Copies
  BY DEF CallStates
<1>2. ASSUME UsersInv' /\ UsersStep /\ LinkedStep,
             NEW pc \in {"new", "check", "write", "done"},
             call' = [call EXCEPT ![c].pc = pc],
             pc \in {"check", "write"} => r.pc \in {"check", "write"}
      PROVE  call' \in [Calls -> CallStates] /\ CallCopies'
  <2>1. call' \in [Calls -> CallStates]
    BY <1>2 DEF CallStates
  <2>2. \A d \in Calls : /\ call'[d].copy = call[d].copy /\ call'[d].user = call[d].user
                         /\ call'[d].pc \in {"check", "write"} => call[d].pc \in {"check", "write"}
    BY <1>2 DEF CallStates
  <2>3. ASSUME NEW d \in Calls, call'[d].pc \in {"check", "write"}
        PROVE  /\ call'[d].user \in registered'
               /\ Fits(call'[d].copy, version'[call'[d].user], wallets'[call'[d].user],
                       added'[call'[d].user])
    <3>1. FitsUser(call[d].copy, call[d].user)
      BY <2>2, <2>3 DEF CallCopies
    <3>2. call[d].copy.version \in Nat
      BY DEF CallStates, Copies
    <3> DEFINE u == call[d].user
               copy == call[d].copy
    <3>3. u \in registered /\ Fits(copy, version[u], wallets[u], added[u])
      BY <3>1 DEF FitsUser
    <3>4. UsersTypeOK /\ UsersTypeOK' /\ UsersStep
      BY <1>2 DEF UsersInv
    <3> HIDE DEF u, copy
    <3>5. u \in registered' /\ Fits(copy, version'[u], wallets'[u], added'[u])
      BY <3>2, <3>3, <3>4, FitsStay DEF copy
    <3> QED BY <2>2, <3>5 DEF u, copy
  <2> QED BY <2>1, <2>3 DEF CallCopies, FitsUser
<1>3. CASE ReadUser(c)
  <2>1. UNCHANGED users
    BY <1>3 DEF ReadUser
  <2>2. UsersInv' /\ UsersStep /\ LinkedStep
    BY <2>1, UsersStay
  <2>3. PICK pc \in {"done", "write", "check"} :
          call' = [call EXCEPT ![c].pc = pc, ![c].copy = CopyOf(r.user)]
    BY <1>3 DEF ReadUser
  <2>4. r.user \in registered
    BY <1>3 DEF ReadUser
  <2>5. /\ CopyOf(r.user) \in Copies
        /\ Fits(CopyOf(r.user), version[r.user], wallets[r.user], added[r.user])
    BY <1>1, CopyFits DEF UsersInv
  <2>6. call' \in [Calls -> CallStates]
    BY <1>1, <2>3, <2>5 DEF CallStates
  <2>7. /\ call'[c].copy = CopyOf(r.user) /\ call'[c].user = r.user
        /\ \A d \in Calls : d # c => call'[d] = call[d]
    BY <2>3 DEF CallStates
  <2>8. CallCopies'
    BY <2>1, <2>4, <2>5, <2>7 DEF CallCopies, FitsUser, users
  <2> QED BY <2>2, <2>6, <2>8
<1>4. CASE CheckConflict(c)
  <2>1. UNCHANGED users /\ r.pc = "check"
    BY <1>4 DEF CheckConflict
  <2>2. UsersInv' /\ UsersStep /\ LinkedStep
    BY <2>1, UsersStay
  <2>3. PICK pc \in {"done", "write"} : call' = [call EXCEPT ![c].pc = pc]
    BY <1>4 DEF CheckConflict, Move
  <2> QED BY <1>2, <2>1, <2>2, <2>3
<1>5. CASE SaveUser(c)
  <2>1. r.pc = "write" /\ call' = [call EXCEPT ![c].pc = "done"]
    BY <1>5 DEF SaveUser, Move
  <2>2. r.user \in registered /\ Fits(r.copy, version[r.user], wallets[r.user], added[r.user])
    BY <2>1 DEF CallCopies, FitsUser
  <2>3. UsersInv' /\ UsersStep /\ LinkedStep
    <3>1. CASE Saves(r.user, r.copy, r.wallet)
      BY <1>1, <1>5, <2>2, <3>1, SaveKeeps DEF SaveUser
    <3>2. CASE ~Saves(r.user, r.copy, r.wallet)
      BY <1>5, <3>2, UsersStay DEF SaveUser
    <3> QED BY <3>1, <3>2
  <2> QED BY <1>2, <2>1, <2>3
<1>6. CASE AddWallet(c)
  <2>1. r.pc = "write" /\ call' = [call EXCEPT ![c].pc = "done"]
    BY <1>6 DEF AddWallet, Move
  <2>2. r.user \in registered
    BY <2>1 DEF CallCopies, FitsUser
  <2>3. UsersInv' /\ UsersStep /\ LinkedStep
    <3>1. CASE Unique(r.user, r.copy, r.wallet)
      BY <1>1, <1>6, <2>2, <3>1, AddKeeps DEF AddWallet
    <3>2. CASE ~Unique(r.user, r.copy, r.wallet)
      BY <1>6, <3>2, UsersStay DEF AddWallet
    <3> QED BY <3>1, <3>2
  <2> QED BY <1>2, <2>1, <2>3
<1>7. CASE CallThrows(c)
  <2>1. UNCHANGED users /\ call' = [call EXCEPT ![c].pc = "done"]
    BY <1>7 DEF CallThrows, Move
  <2>2. UsersInv' /\ UsersStep /\ LinkedStep
    BY <2>1, UsersStay
  <2> QED BY <1>2, <2>1, <2>2
<1> QED BY <1>3, <1>4, <1>5, <1>6, <1>7 DEF WalletCall

-----------------------------------------------------------------------------
(* The parts of TypeOK: the polls, and all that is not users and polls. *)

PollPcs == {"idle", "next", "intent", "user", "check", "link", "match", "create", "vault",
            "balance"}
PollStates == [pc : PollPcs, queue : Seq(Events), current : 0..load.last, copy : Copies]

PollTypes ==
  /\ poll \in [Polls -> PollStates]
  /\ \A p \in Polls : Handling(p) => poll[p].queue # <<>>

OtherTypes ==
  /\ load \in Loads /\ head \in 1..load.last /\ block \in [Events -> 0..load.last]
  /\ status \in [Intents -> {"pending", "credited", "matched", "expired"}]
  /\ service \in {"down", "first", "up", "failed"} /\ lastBlock \in 0..(load.last + 1)
  /\ deposits \in [Events -> Nat] /\ tvl \in Nat /\ balance \in Nat /\ lost \subseteq Events
  /\ budget \in [{"faults", "crashes", "overlaps"} -> Nat]

(* TypeOK is the conjunction of its parts. *)
LEMMA Parts ==
  TypeOK <=> /\ UsersTypeOK /\ call \in [Calls -> CallStates] /\ PollTypes /\ OtherTypes
BY DEF TypeOK, WalletsTypeOK, UsersTypeOK, PollTypes, PollStates, PollPcs, OtherTypes

(* The same after a step. *)
LEMMA PartsNext ==
  TypeOK' <=> /\ UsersTypeOK' /\ call' \in [Calls -> CallStates] /\ PollTypes' /\ OtherTypes'
BY DEF TypeOK, WalletsTypeOK, UsersTypeOK, PollTypes, PollStates, PollPcs, OtherTypes

(* The parts that a step has to re-establish. *)
LEMMA Assemble ==
  ASSUME LinkInv, UsersInv', UsersStep, call' \in [Calls -> CallStates], CallCopies',
         PollTypes', PollCopies', OtherTypes'
  PROVE  LinkInv'
<1>1. TypeOK' /\ Unlisted'
  BY PartsNext DEF UsersInv
<1>2. OwnersRegistered'
  BY DEF LinkInv, OwnersRegistered, UsersStep
<1> QED BY <1>1, <1>2 DEF LinkInv

(* What a load is. *)
LEMMA LoadType ==
  ASSUME load \in Loads
  PROVE  /\ load.last \in Nat \ {0} /\ load.intent \in [Events -> Intents]
         /\ load.polls \subseteq Polls /\ load.calls \subseteq Calls
BY ListenerAssumption

(* The event in hand names an intent of a registered user. *)
LEMMA EventType ==
  ASSUME LinkInv, NEW p \in Polls, poll[p].queue # <<>>
  PROVE  /\ Event(p) \in Events /\ IntentOf(Event(p)) \in Intents
         /\ UserOf(p) \in registered /\ UserOf(p) \in Users
         /\ Payer[Event(p)] \in Wallets
         /\ Tail(poll[p].queue) \in Seq(Events)
<1>1. poll[p].queue \in Seq(Events) /\ load \in Loads /\ registered \subseteq Users
  BY Parts DEF LinkInv, PollTypes, PollStates, OtherTypes, UsersTypeOK
<1>2. Event(p) \in Events /\ Tail(poll[p].queue) \in Seq(Events)
  BY <1>1, HeadTailProperties DEF Event
<1>3. IntentOf(Event(p)) \in Intents
  BY <1>1, <1>2, LoadType DEF IntentOf
<1>4. UserOf(p) \in registered
  BY <1>3 DEF LinkInv, OwnersRegistered, UserOf
<1>5. Payer[Event(p)] \in Wallets
  BY <1>2, ListenerAssumption
<1> QED BY <1>1, <1>2, <1>3, <1>4, <1>5

(* Calls that did nothing keep fitting copies. *)
LEMMA CallsStay ==
  ASSUME LinkInv, UsersInv', UsersStep, call' = call
  PROVE  call' \in [Calls -> CallStates] /\ CallCopies'
<1>1. call \in [Calls -> CallStates] /\ UsersTypeOK /\ UsersTypeOK' /\ CallCopies
  BY Parts DEF LinkInv, UsersInv
<1>2. ASSUME NEW c \in Calls, call[c].pc \in {"check", "write"}
      PROVE  /\ call[c].user \in registered'
             /\ Fits(call[c].copy, version'[call[c].user], wallets'[call[c].user],
                     added'[call[c].user])
  <2>1. FitsUser(call[c].copy, call[c].user) /\ call[c].copy.version \in Nat
    BY <1>1, <1>2 DEF CallCopies, CallStates, Copies
  <2> QED BY <1>1, <2>1, FitsStay DEF FitsUser
<1> QED BY <1>1, <1>2 DEF CallCopies, FitsUser

(* The copies of the polls that a step leaves alone go on fitting. *)
LEMMA OldCopies ==
  ASSUME LinkInv, UsersInv', UsersStep, NEW p \in Polls, poll[p].pc \in {"check", "link"}
  PROVE  LET u == UserOf(p) IN
           u \in registered' /\ Fits(poll[p].copy, version'[u], wallets'[u], added'[u])
<1>1. FitsUser(poll[p].copy, UserOf(p)) /\ poll[p].copy.version \in Nat
  BY Parts DEF LinkInv, PollCopies, PollTypes, PollStates, Copies
<1>2. UsersTypeOK /\ UsersTypeOK'
  BY Parts DEF LinkInv, UsersInv
<1> DEFINE u == UserOf(p)
<1>3. u \in registered /\ Fits(poll[p].copy, version[u], wallets[u], added[u])
  BY <1>1 DEF FitsUser
<1> HIDE DEF u
<1>4. u \in registered' /\ Fits(poll[p].copy, version'[u], wallets'[u], added'[u])
  BY <1>1, <1>2, <1>3, FitsStay
<1> QED BY <1>4 DEF u

(* No poll moves. *)
LEMMA PollsStay ==
  ASSUME LinkInv, UsersInv', UsersStep, poll' = poll, load' = load
  PROVE  PollTypes' /\ PollCopies'
<1>1. PollTypes'
  BY Parts DEF LinkInv, PollTypes, PollStates, Handling
<1>2. PollCopies'
  BY OldCopies DEF PollCopies, FitsUser, UserOf, IntentOf, Event
<1> QED BY <1>1, <1>2

(* One poll moves. *)
LEMMA PollMoves ==
  ASSUME LinkInv, UsersInv', UsersStep, load' = load,
         NEW p \in Polls, NEW r \in PollStates, poll' = [poll EXCEPT ![p] = r],
         r.pc \notin {"idle", "next"} => r.queue # <<>>,
         r.pc \in {"check", "link"} =>
           LET u == Owner[load.intent[Head(r.queue)]] IN
             u \in registered' /\ Fits(r.copy, version'[u], wallets'[u], added'[u])
  PROVE  PollTypes' /\ PollCopies'
<1>1. poll \in [Polls -> PollStates] /\ \A q \in Polls : Handling(q) => poll[q].queue # <<>>
  BY Parts DEF LinkInv, PollTypes
<1>2. poll'[p] = r /\ \A q \in Polls : q # p => poll'[q] = poll[q]
  BY <1>1
<1>3. PollStates' = PollStates
  BY DEF PollStates
<1>4. PollTypes'
  BY <1>1, <1>2, <1>3 DEF PollTypes, Handling
<1>5. PollCopies'
  BY <1>2, OldCopies DEF PollCopies, FitsUser, UserOf, IntentOf, Event
<1> QED BY <1>4, <1>5

-----------------------------------------------------------------------------
(* The initial states. *)
LEMMA InitHolds == Init => LinkInv
<1> SUFFICES ASSUME Init PROVE LinkInv
  OBVIOUS
<1>1. load \in Loads /\ load.last \in Nat \ {0}
  BY LoadType DEF Init
<1>2. UsersTypeOK
  BY DEF Init, WalletsInit, UsersTypeOK
<1>3. Unlisted
  BY DEF Init, WalletsInit, Unlisted
<1>4. /\ call \in [Calls -> CallStates]
      /\ \A c \in Calls : call[c].pc = "new"
  <2>1. ASSUME NEW o \in Operations, NEW u \in Users, NEW w \in Wallets,
               NEW r, r = [op |-> o, pc |-> "new", user |-> u, wallet |-> w, copy |-> NoCopy]
        PROVE  r \in CallStates /\ r.pc = "new"
    BY <2>1 DEF CallStates, NoCopy, Copies
  <2>3. \A r \in Fresh : r \in CallStates /\ r.pc = "new"
    BY <2>1 DEF Fresh
  <2>2. call \in [Calls -> Fresh]
    BY DEF Init, WalletsInit
  <2> QED BY <2>2, <2>3
<1>5. /\ poll \in [Polls -> PollStates]
      /\ \A p \in Polls : poll[p].pc = "idle"
  <2>1. Idle \in PollStates /\ Idle.pc = "idle"
    <3>1. <<>> \in Seq(Events)
      OBVIOUS
    <3> QED BY <1>1, <3>1 DEF Idle, PollStates, PollPcs, NoCopy, Copies
  <2> QED BY <2>1 DEF Init
<1>6. PollTypes
  BY <1>5 DEF PollTypes, Handling
<1>7. OtherTypes
  BY <1>1 DEF Init, OtherTypes
<1>8. OwnersRegistered
  BY ListenerAssumption DEF Init, OwnersRegistered, Range
<1>9. CallCopies /\ PollCopies
  BY <1>4, <1>5 DEF CallCopies, PollCopies
<1> QED BY <1>2, <1>3, <1>4, <1>6, <1>7, <1>8, <1>9, Parts DEF LinkInv

(* What holds after a step that leaves the users and the calls alone. *)
LEMMA Quiet ==
  ASSUME LinkInv, UNCHANGED walletVars
  PROVE  /\ UsersInv' /\ UsersStep /\ LinkedStep
         /\ call' \in [Calls -> CallStates] /\ CallCopies'
<1>1. UsersInv
  BY Parts DEF LinkInv, UsersInv
<1>2. UNCHANGED users /\ call' = call
  BY DEF walletVars
<1>3. UsersInv' /\ UsersStep /\ LinkedStep
  BY <1>1, <1>2, UsersStay
<1> QED BY <1>2, <1>3, CallsStay

(* The steps of the chain and of the service that move no poll. *)
LEMMA OutsideHolds ==
  ASSUME LinkInv,
         \/ \E S \in SUBSET Events : Mine(S)
         \/ \E i \in Intents : CloseIntent(i)
         \/ Start \/ StartFails
  PROVE  LinkInv' /\ LinkedStep
<1>1. UNCHANGED walletVars /\ poll' = poll /\ load' = load
  BY DEF Mine, CloseIntent, Start, StartFails
<1>2. PollTypes' /\ PollCopies'
  BY <1>1, Quiet, PollsStay
<1>3. OtherTypes /\ load.last \in Nat \ {0}
  BY Parts, LoadType DEF LinkInv, OtherTypes
<1>4. OtherTypes'
  <2>1. ASSUME NEW S \in SUBSET Events, Mine(S) PROVE OtherTypes'
    BY <1>3, <2>1 DEF Mine, OtherTypes, books
  <2>2. ASSUME NEW i \in Intents, CloseIntent(i) PROVE OtherTypes'
    <3>1. PICK st \in {"expired", "credited"} : status' = [status EXCEPT ![i] = st]
      BY <2>2 DEF CloseIntent
    <3> QED BY <1>3, <2>2, <3>1 DEF CloseIntent, OtherTypes, chain
  <2>3. CASE Start
    BY <1>3, <2>3 DEF Start, OtherTypes, chain, books
  <2>4. CASE StartFails
    BY <1>3, <2>4 DEF StartFails, OtherTypes, chain, books, Spend
  <2> QED BY <2>1, <2>2, <2>3, <2>4
<1> QED BY <1>1, <1>2, <1>4, Quiet, Assemble

(* A restart of the process ends its polls. *)
LEMMA CrashHolds ==
  ASSUME LinkInv, Crash
  PROVE  LinkInv' /\ LinkedStep
<1>1. UNCHANGED walletVars /\ load' = load /\ poll' = [p \in Polls |-> Idle]
  BY DEF Crash
<1>2. OtherTypes /\ load.last \in Nat \ {0}
  BY Parts, LoadType DEF LinkInv, OtherTypes
<1>3. Idle \in PollStates /\ Idle.pc = "idle"
  <2>1. <<>> \in Seq(Events)
    OBVIOUS
  <2> QED BY <1>2, <2>1 DEF Idle, PollStates, PollPcs, NoCopy, Copies
<1>4. PollTypes'
  BY <1>1, <1>3 DEF PollTypes, PollStates, Handling
<1>5. PollCopies'
  BY <1>1, <1>3 DEF PollCopies
<1>6. OtherTypes'
  BY <1>2 DEF Crash, OtherTypes, chain, books, Spend
<1> QED BY <1>1, <1>4, <1>5, <1>6, Quiet, Assemble

-----------------------------------------------------------------------------
(* A poll reads the events of its blocks, in their order. *)
LEMMA BeginHolds ==
  ASSUME LinkInv, NEW p \in Polls, NEW current \in {head - 1, head}, BeginPoll(p, current)
  PROVE  LinkInv' /\ LinkedStep
<1>1. OtherTypes /\ load.last \in Nat \ {0} /\ poll \in [Polls -> PollStates]
  BY Parts, LoadType DEF LinkInv, OtherTypes, PollTypes
<1>2. PICK queue \in SetToSeqs(EventsIn(lastBlock, current)) :
        poll' = [poll EXCEPT ![p].pc = "next", ![p].current = current, ![p].queue = queue]
  BY DEF BeginPoll
<1>3. queue \in Seq(Events)
  <2>1. EventsIn(lastBlock, current) \in SUBSET Events
    BY DEF EventsIn
  <2>2. IsFiniteSet(EventsIn(lastBlock, current))
    BY <2>1, FS_Subset, ListenerAssumption
  <2>3. Cardinality(EventsIn(lastBlock, current)) \in Nat
    BY <2>2, FS_CardinalityType
  <2>4. queue \in [1..Cardinality(EventsIn(lastBlock, current)) -> Events]
    BY <2>1 DEF SetToSeqs
  <2> QED BY <2>3, <2>4
<1>4. current \in 0..load.last
  BY <1>1 DEF OtherTypes
<1> DEFINE r == [poll[p] EXCEPT !.pc = "next", !.current = current, !.queue = queue]
<1>5. r \in PollStates /\ r.pc = "next"
  BY <1>1, <1>3, <1>4 DEF PollStates, PollPcs
<1>6. poll' = [poll EXCEPT ![p] = r]
  BY <1>2
<1>7. UNCHANGED walletVars /\ load' = load
  BY DEF BeginPoll
<1> HIDE DEF r
<1>8. PollTypes' /\ PollCopies'
  BY <1>5, <1>6, <1>7, Quiet, PollMoves
<1>9. OtherTypes'
  BY <1>1 DEF BeginPoll, OtherTypes, chain, books
<1> QED BY <1>7, <1>8, <1>9, Quiet, Assemble

(* A step of a poll that moves it, drops its event or ends it, and leaves *)
(* users and calls alone.                                                  *)
LEMMA PollGoesOn ==
  ASSUME LinkInv, NEW p \in Polls, UNCHANGED walletVars, load' = load, OtherTypes',
         \/ /\ poll[p].queue # <<>>
            /\ \E pc \in PollPcs \ {"check", "link"} : Goto(p, pc)
         \/ poll[p].pc = "check" /\ Goto(p, "link")
         \/ Drop(p) /\ poll[p].queue # <<>>
         \/ poll' = [poll EXCEPT ![p] = Idle]
  PROVE  LinkInv' /\ LinkedStep
<1>1. OtherTypes /\ load.last \in Nat \ {0} /\ poll \in [Polls -> PollStates]
  BY Parts, LoadType DEF LinkInv, OtherTypes, PollTypes
<1>2. UsersInv' /\ UsersStep
  BY Quiet
<1>3. CASE poll[p].queue # <<>> /\ \E pc \in PollPcs \ {"check", "link"} : Goto(p, pc)
  <2>1. PICK pc \in PollPcs \ {"check", "link"} : poll' = [poll EXCEPT ![p].pc = pc]
    BY <1>3 DEF Goto
  <2> DEFINE r == [poll[p] EXCEPT !.pc = pc]
  <2>2. r \in PollStates /\ r.pc = pc /\ r.queue = poll[p].queue
    BY <1>1 DEF PollStates
  <2>3. poll' = [poll EXCEPT ![p] = r]
    BY <2>1
  <2> HIDE DEF r
  <2>4. PollTypes' /\ PollCopies'
    BY <1>2, <1>3, <2>2, <2>3, PollMoves
  <2> QED BY <2>4, Quiet, Assemble
<1>4. CASE poll[p].pc = "check" /\ Goto(p, "link")
  <2> DEFINE r == [poll[p] EXCEPT !.pc = "link"]
  <2>1. /\ r \in PollStates /\ r.pc = "link"
        /\ r.queue = poll[p].queue /\ r.copy = poll[p].copy
    BY <1>1 DEF PollStates, PollPcs
  <2>2. poll' = [poll EXCEPT ![p] = r]
    BY <1>4 DEF Goto
  <2>3. poll[p].queue # <<>>
    BY <1>4, Parts DEF LinkInv, PollTypes, Handling
  <2>4. LET u == Owner[load.intent[Head(r.queue)]] IN
          u \in registered' /\ Fits(r.copy, version'[u], wallets'[u], added'[u])
    BY <1>2, <1>4, <2>1, OldCopies DEF UserOf, IntentOf, Event
  <2> HIDE DEF r
  <2>5. PollTypes' /\ PollCopies'
    BY <1>2, <2>1, <2>2, <2>3, <2>4, PollMoves
  <2> QED BY <2>5, Quiet, Assemble
<1>5. CASE Drop(p) /\ poll[p].queue # <<>>
  <2> DEFINE r == [poll[p] EXCEPT !.pc = "next", !.queue = Tail(poll[p].queue), !.copy = NoCopy]
  <2>1. NoCopy \in Copies
    BY DEF NoCopy, Copies
  <2>2. Tail(poll[p].queue) \in Seq(Events)
    BY <1>5, EventType
  <2>3. r \in PollStates /\ r.pc = "next"
    BY <1>1, <2>1, <2>2 DEF PollStates, PollPcs
  <2>4. poll' = [poll EXCEPT ![p] = r]
    BY <1>1, <1>5 DEF Drop, PollStates
  <2> HIDE DEF r
  <2>5. PollTypes' /\ PollCopies'
    BY <1>2, <2>3, <2>4, PollMoves
  <2> QED BY <2>5, Quiet, Assemble
<1>6. CASE poll' = [poll EXCEPT ![p] = Idle]
  <2>1. Idle \in PollStates /\ Idle.pc = "idle"
    <3>1. <<>> \in Seq(Events)
      OBVIOUS
    <3> QED BY <1>1, <3>1 DEF Idle, PollStates, PollPcs, NoCopy, Copies
  <2>2. PollTypes' /\ PollCopies'
    BY <1>2, <1>6, <2>1, PollMoves
  <2> QED BY <2>2, Quiet, Assemble
<1> QED BY <1>3, <1>4, <1>5, <1>6

(* A poll reads the user's document. *)
LEMMA LoadUserHolds ==
  ASSUME LinkInv, NEW p \in Polls, LoadUser(p)
  PROVE  LinkInv' /\ LinkedStep
<1>1. UNCHANGED walletVars /\ load' = load /\ poll[p].pc = "user"
  BY DEF LoadUser
<1>2. OtherTypes'
  BY Parts DEF LinkInv, LoadUser, OtherTypes, chain, books
<1>3. poll[p].queue # <<>> /\ poll \in [Polls -> PollStates]
  BY <1>1, Parts DEF LinkInv, PollTypes, Handling
<1>4. CASE Event(p) \in load.wrong
  BY <1>1, <1>2, <1>3, <1>4, PollGoesOn DEF LoadUser
<1>5. CASE Event(p) \notin load.wrong
  <2> DEFINE u == UserOf(p)
             pc == IF Payer[Event(p)] \in wallets[u] THEN "match" ELSE "check"
             r == [poll[p] EXCEPT !.copy = CopyOf(u), !.pc = pc]
  <2>1. u \in registered /\ u \in Users
    BY <1>3, EventType
  <2>2. UsersTypeOK
    BY Parts DEF LinkInv
  <2>3. CopyOf(u) \in Copies /\ Fits(CopyOf(u), version[u], wallets[u], added[u])
    BY <2>1, <2>2, CopyFits
  <2>4. poll' = [poll EXCEPT ![p] = r]
    BY <1>5 DEF LoadUser
  <2>5. /\ r \in PollStates
        /\ r.pc \in {"match", "check"} /\ r.queue = poll[p].queue /\ r.copy = CopyOf(u)
    BY <1>3, <2>3 DEF PollStates, PollPcs
  <2>6. /\ registered' = registered /\ version' = version
        /\ wallets' = wallets /\ added' = added
    BY <1>1 DEF walletVars, users
  <2>7. LET v == Owner[load.intent[Head(r.queue)]] IN
          v \in registered' /\ Fits(r.copy, version'[v], wallets'[v], added'[v])
    <3> HIDE DEF r
    <3>1. Owner[load.intent[Head(r.queue)]] = u
      BY <2>5 DEF UserOf, IntentOf, Event
    <3> HIDE DEF u
    <3> QED BY <2>1, <2>3, <2>5, <2>6, <3>1
  <2> HIDE DEF r, u
  <2>8. PollTypes' /\ PollCopies'
    BY <1>1, <1>3, <2>4, <2>5, <2>7, Quiet, PollMoves
  <2> QED BY <1>1, <1>2, <2>8, Quiet, Assemble
<1> QED BY <1>4, <1>5

(* A poll links the payer's wallet: a save of its copy, or nothing. *)
LEMMA LinkPayerHolds ==
  ASSUME LinkInv, NEW p \in Polls, LinkPayer(p)
  PROVE  LinkInv' /\ LinkedStep
<1> DEFINE u == UserOf(p)
           w == Payer[Event(p)]
           copy == poll[p].copy
<1>1. call' = call /\ load' = load /\ poll[p].pc = "link"
  BY DEF LinkPayer
<1>2. /\ poll[p].queue # <<>> /\ poll \in [Polls -> PollStates] /\ copy \in Copies
  BY <1>1, Parts DEF LinkInv, PollTypes, PollStates, Handling
<1>3. /\ u \in registered /\ w \in Wallets /\ Event(p) \in Events
      /\ Tail(poll[p].queue) \in Seq(Events)
  BY <1>2, EventType
<1>4. Fits(copy, version[u], wallets[u], added[u])
  BY <1>1 DEF LinkInv, PollCopies, FitsUser
<1>5. UsersInv
  BY Parts DEF LinkInv, UsersInv
<1>6. OtherTypes'
  <2>1. lost' \subseteq Events
    BY <1>3, Parts DEF LinkPayer, LinkInv, OtherTypes
  <2> QED BY <2>1, Parts DEF LinkPayer, LinkInv, OtherTypes, chain, books
<1>7. CASE Saves(u, copy, w)
  <2>1. Save(u, copy, w) /\ Goto(p, "match")
    BY <1>7 DEF LinkPayer
  <2> HIDE DEF u, w, copy
  <2>2. UsersInv' /\ UsersStep /\ LinkedStep
    BY <1>2, <1>3, <1>4, <1>5, <1>7, <2>1, SaveKeeps
  <2>3. call' \in [Calls -> CallStates] /\ CallCopies'
    BY <1>1, <2>2, CallsStay
  <2> DEFINE r == [poll[p] EXCEPT !.pc = "match"]
  <2>4. r \in PollStates /\ r.pc = "match" /\ r.queue = poll[p].queue
    BY <1>2 DEF PollStates, PollPcs
  <2>5. poll' = [poll EXCEPT ![p] = r]
    BY <2>1 DEF Goto
  <2> HIDE DEF r
  <2>6. PollTypes' /\ PollCopies'
    BY <1>1, <1>2, <2>2, <2>4, <2>5, PollMoves
  <2> QED BY <1>6, <2>2, <2>3, <2>6, Assemble
<1>8. CASE ~Saves(u, copy, w)
  <2>1. UNCHANGED walletVars /\ Drop(p)
    BY <1>1, <1>8 DEF LinkPayer, walletVars
  <2> QED BY <1>1, <1>2, <1>6, <2>1, PollGoesOn
<1> QED BY <1>7, <1>8

(* The other steps of a poll. *)
LEMMA HandlerHolds ==
  ASSUME LinkInv, NEW p \in Polls,
         \/ FindDeposit(p) \/ FindIntent(p) \/ CheckPayer(p) \/ Match(p) \/ CreateDeposit(p)
         \/ IncVault(p) \/ IncUser(p) \/ EndPoll(p) \/ HandlerThrows(p)
  PROVE  LinkInv' /\ LinkedStep
<1>1. UNCHANGED walletVars /\ load' = load
  BY DEF FindDeposit, FindIntent, CheckPayer, Match, CreateDeposit, IncVault, IncUser, EndPoll,
         HandlerThrows
<1>2. OtherTypes /\ load.last \in Nat \ {0} /\ poll \in [Polls -> PollStates]
  BY Parts, LoadType DEF LinkInv, OtherTypes, PollTypes
<1>3. poll[p].pc \notin {"idle", "next"} => poll[p].queue # <<>>
  BY Parts DEF LinkInv, PollTypes, Handling
<1>4. poll[p].queue # <<>> => Event(p) \in Events /\ IntentOf(Event(p)) \in Intents
  BY EventType
<1>5. CASE FindDeposit(p)
  <2>1. OtherTypes' /\ poll[p].queue # <<>>
    BY <1>2, <1>5 DEF FindDeposit, OtherTypes, chain, books
  <2>2. Drop(p) \/ Goto(p, "intent")
    BY <1>5 DEF FindDeposit
  <2> QED BY <1>1, <2>1, <2>2, PollGoesOn DEF PollPcs
<1>6. CASE FindIntent(p)
  <2>1. OtherTypes' /\ poll[p].queue # <<>>
    BY <1>2, <1>3, <1>6 DEF FindIntent, OtherTypes, chain, books
  <2>2. Drop(p) \/ Goto(p, "user")
    BY <1>6 DEF FindIntent
  <2> QED BY <1>1, <2>1, <2>2, PollGoesOn DEF PollPcs
<1>7. CASE CheckPayer(p)
  <2>1. OtherTypes' /\ poll[p].queue # <<>>
    BY <1>2, <1>3, <1>7 DEF CheckPayer, OtherTypes, chain, books
  <2>2. Goto(p, "match") \/ (poll[p].pc = "check" /\ Goto(p, "link"))
    BY <1>7 DEF CheckPayer
  <2> QED BY <1>1, <2>1, <2>2, PollGoesOn DEF PollPcs
<1>8. CASE Match(p)
  <2>1. poll[p].queue # <<>> /\ Goto(p, "create")
    BY <1>3, <1>8 DEF Match
  <2>2. OtherTypes'
    BY <1>2, <1>4, <1>8, <2>1 DEF Match, OtherTypes, chain
  <2> QED BY <1>1, <2>1, <2>2, PollGoesOn DEF PollPcs
<1>9. CASE CreateDeposit(p)
  <2>1. poll[p].queue # <<>> /\ Goto(p, "vault")
    BY <1>3, <1>9 DEF CreateDeposit
  <2>2. deposits' \in [Events -> Nat]
    BY <1>2, <1>4, <1>9, <2>1 DEF CreateDeposit, OtherTypes
  <2>3. OtherTypes'
    BY <1>2, <1>9, <2>2 DEF CreateDeposit, OtherTypes, chain
  <2> QED BY <1>1, <2>1, <2>3, PollGoesOn DEF PollPcs
<1>10. CASE IncVault(p)
  <2>1. poll[p].queue # <<>> /\ Goto(p, "balance")
    BY <1>3, <1>10 DEF IncVault
  <2>2. OtherTypes'
    BY <1>2, <1>10 DEF IncVault, OtherTypes, chain
  <2> QED BY <1>1, <2>1, <2>2, PollGoesOn DEF PollPcs
<1>11. CASE IncUser(p)
  <2>1. poll[p].queue # <<>> /\ Drop(p)
    BY <1>3, <1>11 DEF IncUser
  <2>2. OtherTypes'
    BY <1>2, <1>11 DEF IncUser, OtherTypes, chain
  <2> QED BY <1>1, <2>1, <2>2, PollGoesOn
<1>12. CASE EndPoll(p)
  <2>1. poll' = [poll EXCEPT ![p] = Idle]
    BY <1>12 DEF EndPoll
  <2>2. lastBlock' \in 0..(load.last + 1)
    BY <1>2, <1>12 DEF EndPoll, After, PollStates
  <2>3. OtherTypes'
    BY <1>2, <1>12, <2>2 DEF EndPoll, OtherTypes, chain, books
  <2> QED BY <1>1, <2>1, <2>3, PollGoesOn
<1>13. CASE HandlerThrows(p)
  <2>1. poll[p].queue # <<>> /\ Drop(p)
    BY <1>13, Parts DEF HandlerThrows, LinkInv, PollTypes
  <2>2. lost' \subseteq Events /\ budget' \in [{"faults", "crashes", "overlaps"} -> Nat]
    BY <1>2, <1>4, <1>13, <2>1 DEF HandlerThrows, OtherTypes, Spend
  <2>3. OtherTypes'
    BY <1>2, <1>13, <2>2 DEF HandlerThrows, OtherTypes, chain, books
  <2> QED BY <1>1, <2>1, <2>3, PollGoesOn
<1> QED BY <1>5, <1>6, <1>7, <1>8, <1>9, <1>10, <1>11, <1>12, <1>13

(* The calls that link, and registrations. *)
LEMMA RequestHolds ==
  ASSUME LinkInv,
         \/ \E c \in load.calls : WalletCall(c)
         \/ \E u \in Users, w \in Wallets \union {NoWallet} : Register(u, w),
         UNCHANGED <<chain, books, service, lastBlock, poll, lost, budget, load>>
  PROVE  LinkInv' /\ LinkedStep
<1>1. /\ UsersInv /\ call \in [Calls -> CallStates] /\ CallCopies
      /\ load.calls \subseteq Calls
  BY Parts, LoadType DEF LinkInv, UsersInv, OtherTypes
<1>2. /\ UsersInv' /\ UsersStep /\ LinkedStep
      /\ call' \in [Calls -> CallStates] /\ CallCopies'
  <2>1. CASE \E c \in load.calls : WalletCall(c)
    BY <1>1, <2>1, CallKeeps
  <2>2. ASSUME NEW u \in Users, NEW w \in Wallets \union {NoWallet}, Register(u, w)
        PROVE  /\ UsersInv' /\ UsersStep /\ LinkedStep /\ call' = call
    BY <1>1, <2>2, RegisterKeeps DEF Register
  <2> QED BY <2>1, <2>2, CallsStay
<1>3. PollTypes' /\ PollCopies'
  BY <1>2, PollsStay
<1>4. OtherTypes'
  BY Parts DEF LinkInv, OtherTypes, chain, books
<1> QED BY <1>2, <1>3, <1>4, Assemble

-----------------------------------------------------------------------------
(* Every step keeps the invariant and drops only what was added. *)
LEMMA StepHolds == LinkInv /\ [Next]_vars => LinkInv' /\ LinkedStep
<1> SUFFICES ASSUME LinkInv, [Next]_vars PROVE LinkInv' /\ LinkedStep
  OBVIOUS
<1>1. ASSUME NEW p \in Polls, PollStep(p) PROVE LinkInv' /\ LinkedStep
  BY <1>1, LoadUserHolds, LinkPayerHolds, HandlerHolds DEF PollStep
<1>2. CASE UNCHANGED vars
  <2>1. /\ UNCHANGED walletVars /\ poll' = poll /\ load' = load
    BY <1>2 DEF vars
  <2>2. OtherTypes'
    BY <1>2, Parts DEF LinkInv, OtherTypes, vars, chain, books
  <2> QED BY <2>1, <2>2, Quiet, PollsStay, Assemble
<1>3. CASE Next
  BY <1>1, <1>3, OutsideHolds, CrashHolds, BeginHolds, HandlerHolds, RequestHolds DEF Next
<1> QED BY <1>2, <1>3

(* The types, and which copies still fit, in every reachable state. *)
THEOREM LinkInvariant == Spec => []LinkInv
<1>1. Init => LinkInv
  BY InitHolds
<1>2. LinkInv /\ [Next]_vars => LinkInv'
  BY StepHolds
<1> QED BY <1>1, <1>2, PTL DEF Spec

(* The types of the listener and of the wallets, for every value of the    *)
(* constants.                                                              *)
THEOREM TypeCorrect == Spec => []TypeOK
<1>1. LinkInv => TypeOK
  BY DEF LinkInv
<1> QED BY <1>1, LinkInvariant, PTL

(* However many requests, deposits and polls of the listener link wallets  *)
(* of the same users at once, none drops a wallet but one that the         *)
(* accounting had added: the version of the document is what protects it.  *)
THEOREM LinkedWalletsStay == Spec => LinkedStays
<1>1. LinkInv /\ [Next]_vars =>
        [\A u \in Users : wallets[u] \ wallets'[u] \subseteq added[u]]_users
  BY StepHolds DEF LinkedStep
<1> QED BY <1>1, LinkInvariant, PTL DEF Spec, LinkedStays
-----------------------------------------------------------------------------
(* The sum of the deposits, which grows by one event at a time *)

LEMMA PairsFinite ==
  ASSUME NEW f \in [Events -> Nat], NEW S \in SUBSET Events
  PROVE  IsFiniteSet(UNION {{x} \X (1..f[x]) : x \in S}) /\ SumOver(S, f) \in Nat
<1> DEFINE B == {{x} \X (1..f[x]) : x \in S}
           g == [x \in S |-> {x} \X (1..f[x])]
<1>1. g \in Surjection(S, B)
  BY DEF Surjection
<1>2. IsFiniteSet(S)
  BY FS_Subset, ListenerAssumption
<1>3. IsFiniteSet(B)
  <2> HIDE DEF B, g
  <2> QED BY <1>1, <1>2, FS_Surjection
<1>4. ASSUME NEW x \in S PROVE IsFiniteSet({x} \X (1..f[x]))
  <2>1. IsFiniteSet({x})
    BY FS_Singleton
  <2>2. IsFiniteSet(1..f[x])
    BY FS_Interval
  <2> QED BY <2>1, <2>2, FS_Product, Zenon
<1>5. \A T \in B : IsFiniteSet(T)
  BY <1>4
<1>6. IsFiniteSet(UNION B)
  <2> HIDE DEF B
  <2> QED BY <1>3, <1>5, FS_UNION
<1> QED BY <1>6, FS_CardinalityType DEF SumOver

(* One more at a point of S is one more in the sum. *)
LEMMA SumGrows ==
  ASSUME NEW f \in [Events -> Nat], NEW S \in SUBSET Events, NEW e \in S
  PROVE  SumOver(S, [f EXCEPT ![e] = @ + 1]) = SumOver(S, f) + 1
<1> DEFINE g == [f EXCEPT ![e] = @ + 1]
           F == UNION {{x} \X (1..f[x]) : x \in S}
           G == UNION {{x} \X (1..g[x]) : x \in S}
           new == <<e, f[e] + 1>>
<1>1. f[e] \in Nat /\ g[e] = f[e] + 1 /\ \A x \in S \ {e} : g[x] = f[x]
  OBVIOUS
<1>2. G = F \union {new}
  <2>1. \A x, n : <<x, n>> \in F <=> x \in S /\ n \in 1..f[x]
    OBVIOUS
  <2>2. \A x, n : <<x, n>> \in G <=> x \in S /\ n \in 1..g[x]
    OBVIOUS
  <2>3. \A n : n \in 1..(f[e] + 1) <=> n \in 1..f[e] \/ n = f[e] + 1
    BY <1>1
  <2>4. (\A z \in F : \E x, n : z = <<x, n>>) /\ (\A z \in G : \E x, n : z = <<x, n>>)
    OBVIOUS
  <2> HIDE DEF F, G, g
  <2>5. \A x, n : <<x, n>> \in G <=> <<x, n>> \in F \/ (x = e /\ n = f[e] + 1)
    BY <1>1, <2>1, <2>2, <2>3
  <2> QED BY <2>4, <2>5
<1>3. new \notin F
  BY <1>1
<1>4. IsFiniteSet(F)
  BY PairsFinite
<1> HIDE DEF F, new
<1>5. Cardinality(F \union {new}) = Cardinality(F) + 1
  BY <1>3, <1>4, FS_AddElement
<1> QED BY <1>2, <1>5 DEF SumOver, F

(* One more elsewhere is none. *)
LEMMA SumElsewhere ==
  ASSUME NEW f \in [Events -> Nat], NEW S \in SUBSET Events, NEW e \in Events \ S
  PROVE  SumOver(S, [f EXCEPT ![e] = @ + 1]) = SumOver(S, f)
<1> DEFINE g == [f EXCEPT ![e] = @ + 1]
<1>1. \A x \in S : g[x] = f[x]
  OBVIOUS
<1> HIDE DEF g
<1>2. {{x} \X (1..g[x]) : x \in S} = {{x} \X (1..f[x]) : x \in S}
  BY <1>1
<1> QED BY <1>2 DEF SumOver, g

(* What two sets of polls that differ at most in p have to do with each other. *)
One(p, A) == IF p \in A THEN 1 ELSE 0

LEMMA CountMoves ==
  ASSUME NEW A \in SUBSET Polls, NEW B \in SUBSET Polls, NEW p \in Polls,
         \A q \in Polls \ {p} : q \in A <=> q \in B
  PROVE  /\ Cardinality(A) \in Nat /\ Cardinality(B) \in Nat
         /\ Cardinality(B) + One(p, A) = Cardinality(A) + One(p, B)
<1>1. IsFiniteSet(A) /\ IsFiniteSet(B)
  BY FS_Subset, ListenerAssumption
<1>2. Cardinality(A) \in Nat /\ Cardinality(B) \in Nat
  BY <1>1, FS_CardinalityType
<1>3. CASE p \in A <=> p \in B
  <2>1. A = B
    BY <1>3
  <2> QED BY <1>2, <2>1 DEF One
<1>4. CASE p \in A /\ p \notin B
  <2>1. A = B \union {p}
    BY <1>4
  <2>2. Cardinality(A) = Cardinality(B) + 1
    BY <1>1, <1>4, <2>1, FS_AddElement
  <2> QED BY <1>2, <1>4, <2>2 DEF One
<1>5. CASE p \notin A /\ p \in B
  <2>1. B = A \union {p}
    BY <1>5
  <2>2. Cardinality(B) = Cardinality(A) + 1
    BY <1>1, <1>5, <2>1, FS_AddElement
  <2> QED BY <1>2, <1>5, <2>2 DEF One
<1> QED BY <1>3, <1>4, <1>5

LEMMA CountPart ==
  ASSUME NEW B \in SUBSET Polls, NEW A \in SUBSET B
  PROVE  Cardinality(A) \in Nat /\ Cardinality(B) \in Nat /\ Cardinality(A) <= Cardinality(B)
<1>1. IsFiniteSet(B) /\ IsFiniteSet(A)
  BY FS_Subset, ListenerAssumption
<1> QED BY <1>1, FS_Subset, FS_CardinalityType

-----------------------------------------------------------------------------
(* The books: who is about to book an intent, and who is about to raise    *)
(* what total.                                                             *)

Busy == {p \in Polls : poll[p].pc # "idle"}
At(pc) == {p \in Polls : poll[p].pc = pc}
Booking(i) ==
  {p \in Polls : /\ poll[p].pc \in {"user", "check", "link", "match", "create"}
                 /\ IntentOf(Event(p)) = i}

(* Only a pending intent is taken up, and by one of the polls that run; it *)
(* is not pending when it is booked.                                       *)
OncePerPoll ==
  /\ Cardinality(Busy) <= 1 + budget.overlaps
  /\ \A i \in Intents :
       /\ status[i] = "pending" => DepositsOf(i) = 0
       /\ DepositsOf(i) + Cardinality(Booking(i)) <= 1 + budget.overlaps
  /\ \A p \in Polls : poll[p].pc = "create" => status[IntentOf(Event(p))] # "pending"

(* Each total is behind the next by what polls at the await between carry, *)
(* and by what faults and restarts cut off.                                *)
Totals ==
  /\ balance + Cardinality(At("balance")) <= tvl
  /\ tvl + Cardinality(At("vault")) <= TotalDeposits
  /\ TotalDeposits <= balance + Cardinality(At("vault")) + Cardinality(At("balance"))
                        + budget.faults + Cardinality(Polls) * budget.crashes

BooksInv == OncePerPoll /\ Totals

(* The numbers of which the invariant speaks. *)
LEMMA Numbers ==
  ASSUME OtherTypes
  PROVE  /\ tvl \in Nat /\ balance \in Nat /\ TotalDeposits \in Nat
         /\ \A i \in Intents : DepositsOf(i) \in Nat
         /\ budget.faults \in Nat /\ budget.crashes \in Nat /\ budget.overlaps \in Nat
         /\ Cardinality(Busy) \in Nat /\ Cardinality(Polls) \in Nat
         /\ Cardinality(At("vault")) \in Nat /\ Cardinality(At("balance")) \in Nat
         /\ \A i : Cardinality(Booking(i)) \in Nat
<1>1. tvl \in Nat /\ balance \in Nat /\ deposits \in [Events -> Nat]
      /\ budget \in [{"faults", "crashes", "overlaps"} -> Nat]
  BY DEF OtherTypes
<1>2. TotalDeposits \in Nat
  BY <1>1, PairsFinite DEF TotalDeposits
<1>3. \A i \in Intents : DepositsOf(i) \in Nat
  BY <1>1, PairsFinite DEF DepositsOf
<1>4. Cardinality(Busy) \in Nat /\ Cardinality(Polls) \in Nat
  BY CountPart DEF Busy
<1>5. Cardinality(At("vault")) \in Nat /\ Cardinality(At("balance")) \in Nat
  BY CountPart DEF At
<1>6. \A i : Cardinality(Booking(i)) \in Nat
  BY CountPart DEF Booking
<1> QED BY <1>1, <1>2, <1>3, <1>4, <1>5, <1>6

(* A poll's step leaves the others where they were, and moves what is      *)
(* counted of it.                                                          *)
LEMMA Counts ==
  ASSUME poll \in [Polls -> PollStates], load' = load, NEW p \in Polls, NEW r,
         poll' = [poll EXCEPT ![p] = r]
  PROVE  /\ Cardinality(Busy') + One(p, Busy) = Cardinality(Busy) + One(p, Busy')
         /\ \A i : Cardinality(Booking(i)') + One(p, Booking(i))
                     = Cardinality(Booking(i)) + One(p, Booking(i)')
         /\ \A pc : Cardinality(At(pc)') + One(p, At(pc))
                     = Cardinality(At(pc)) + One(p, At(pc)')
<1>1. \A q \in Polls \ {p} : poll'[q] = poll[q]
  OBVIOUS
<1>2. Cardinality(Busy') + One(p, Busy) = Cardinality(Busy) + One(p, Busy')
  <2>1. \A q \in Polls \ {p} : q \in Busy <=> q \in Busy'
    BY <1>1 DEF Busy
  <2>2. Busy \in SUBSET Polls /\ Busy' \in SUBSET Polls
    BY DEF Busy
  <2> QED BY <2>1, <2>2, CountMoves
<1>3. ASSUME NEW i
      PROVE  Cardinality(Booking(i)') + One(p, Booking(i))
               = Cardinality(Booking(i)) + One(p, Booking(i)')
  <2>1. \A q \in Polls \ {p} : q \in Booking(i) <=> q \in Booking(i)'
    BY <1>1 DEF Booking, IntentOf, Event
  <2>2. Booking(i) \in SUBSET Polls /\ Booking(i)' \in SUBSET Polls
    BY DEF Booking
  <2> QED BY <2>1, <2>2, CountMoves
<1>4. ASSUME NEW pc
      PROVE  Cardinality(At(pc)') + One(p, At(pc)) = Cardinality(At(pc)) + One(p, At(pc)')
  <2>1. \A q \in Polls \ {p} : q \in At(pc) <=> q \in At(pc)'
    BY <1>1 DEF At
  <2>2. At(pc) \in SUBSET Polls /\ At(pc)' \in SUBSET Polls
    BY DEF At
  <2> QED BY <2>1, <2>2, CountMoves
<1> QED BY <1>2, <1>3, <1>4

(* Nothing moves that the books are about. *)
LEMMA BooksStay ==
  ASSUME BooksInv, UNCHANGED <<poll, deposits, tvl, balance, status, load>>,
         OtherTypes, OtherTypes', budget'.overlaps = budget.overlaps,
         budget'.crashes = budget.crashes, budget'.faults >= budget.faults
  PROVE  BooksInv'
<1>1. OncePerPoll'
  BY DEF BooksInv, OncePerPoll, Busy, Booking, DepositsOf, IntentOf, Event
<1>2. /\ At("vault")' = At("vault") /\ At("balance")' = At("balance")
      /\ TotalDeposits' = TotalDeposits
  BY DEF At, TotalDeposits
<1>3. budget.faults \in Nat /\ budget'.faults \in Nat
  BY DEF OtherTypes
<1>4. TotalDeposits' <= balance' + Cardinality(At("vault")') + Cardinality(At("balance")')
                          + budget'.faults + Cardinality(Polls) * budget'.crashes
  <2> DEFINE rest == Cardinality(Polls) * budget.crashes
  <2>1. rest \in Nat
    BY Numbers
  <2>2. TotalDeposits <= balance + Cardinality(At("vault")) + Cardinality(At("balance"))
                           + budget.faults + rest
    BY DEF BooksInv, Totals
  <2>3. Cardinality(Polls) * budget'.crashes = rest
    OBVIOUS
  <2> HIDE DEF rest
  <2> QED BY <1>2, <1>3, <2>1, <2>2, <2>3, Numbers
<1>5. Totals'
  BY <1>2, <1>4 DEF BooksInv, Totals
<1> QED BY <1>1, <1>5 DEF BooksInv

(* An intent that others close is not pending any more. *)
LEMMA CloseKeepsBooks ==
  ASSUME BooksInv, OtherTypes, NEW i \in Intents, CloseIntent(i)
  PROVE  BooksInv'
<1>1. UNCHANGED <<poll, deposits, tvl, balance, budget, load>>
  BY DEF CloseIntent
<1>2. \A j \in Intents : status'[j] = "pending" => status[j] = "pending"
  BY DEF CloseIntent, OtherTypes
<1>3. \A j : (status[j] # "pending" => status'[j] # "pending")
  BY DEF CloseIntent, OtherTypes
<1>4. /\ Busy' = Busy
      /\ \A j : Booking(j)' = Booking(j)
      /\ \A j \in Intents : DepositsOf(j)' = DepositsOf(j)
      /\ \A p : IntentOf(Event(p))' = IntentOf(Event(p))
      /\ \A pc : At(pc)' = At(pc)
      /\ TotalDeposits' = TotalDeposits
  BY <1>1 DEF Busy, Booking, DepositsOf, IntentOf, Event, At, TotalDeposits
<1>5. OncePerPoll'
  BY <1>1, <1>2, <1>3, <1>4 DEF BooksInv, OncePerPoll
<1>6. Totals'
  BY <1>1, <1>4 DEF BooksInv, Totals
<1> QED BY <1>5, <1>6 DEF BooksInv

(* A restart cuts off at most one event for each poll. *)
LEMMA CrashKeepsBooks ==
  ASSUME BooksInv, OtherTypes, OtherTypes', Crash
  PROVE  BooksInv'
<1>1. /\ \A p \in Polls : poll'[p].pc = "idle"
      /\ UNCHANGED <<deposits, tvl, balance, status, load>>
      /\ budget'.crashes = budget.crashes + 1
      /\ budget'.faults = budget.faults /\ budget'.overlaps = budget.overlaps
  BY DEF Crash, books, Spend, Idle, OtherTypes
<1>2. /\ Busy' = {} /\ At("vault")' = {} /\ At("balance")' = {}
      /\ \A i : Booking(i)' = {}
  BY <1>1 DEF Busy, At, Booking
<1>3. Cardinality({}) = 0
  BY FS_EmptySet
<1>4. /\ TotalDeposits' = TotalDeposits
      /\ \A i \in Intents : DepositsOf(i)' = DepositsOf(i)
  BY <1>1 DEF TotalDeposits, DepositsOf, IntentOf
<1>5. OncePerPoll'
  <2>1. \A i \in Intents : DepositsOf(i) <= 1 + budget.overlaps
    BY Numbers DEF BooksInv, OncePerPoll
  <2>2. Cardinality(Busy)' <= 1 + budget'.overlaps
    BY <1>1, <1>2, <1>3, Numbers
  <2>3. \A i \in Intents : DepositsOf(i)' + Cardinality(Booking(i)') <= 1 + budget'.overlaps
    BY <1>1, <1>2, <1>3, <1>4, <2>1, Numbers
  <2> QED BY <1>1, <1>4, <2>2, <2>3 DEF BooksInv, OncePerPoll
<1>6. Cardinality(At("vault")) + Cardinality(At("balance")) <= Cardinality(Polls)
  <2> DEFINE V == At("vault")
             B == At("balance")
  <2>1. IsFiniteSet(V) /\ IsFiniteSet(B)
    BY FS_Subset, ListenerAssumption DEF At
  <2>2. V \cap B = {} /\ V \union B \in SUBSET Polls
    BY DEF At
  <2> HIDE DEF V, B
  <2>3. Cardinality(V \union B) = Cardinality(V) + Cardinality(B) - Cardinality(V \cap B)
    BY <2>1, FS_Union
  <2>4. Cardinality(V \cap B) = 0
    BY <1>3, <2>2
  <2>5. Cardinality(V \union B) <= Cardinality(Polls)
    BY <2>2, CountPart
  <2>6. Cardinality(V) \in Nat /\ Cardinality(B) \in Nat
    BY <2>1, FS_CardinalityType
  <2>7. Cardinality(V) + Cardinality(B) <= Cardinality(Polls)
    BY <2>3, <2>4, <2>5, <2>6
  <2> QED BY <2>7 DEF V, B
<1>7. Cardinality(Polls) * budget'.crashes
        = Cardinality(Polls) * budget.crashes + Cardinality(Polls)
  <2>1. \A m, n \in Nat : m * (n + 1) = m * n + m
    OBVIOUS
  <2> QED BY <1>1, <2>1, Numbers
<1>8. Totals'
  <2> DEFINE rest == Cardinality(Polls) * budget.crashes
  <2>1. rest \in Nat
    BY Numbers
  <2>2. /\ balance + Cardinality(At("balance")) <= tvl
        /\ tvl + Cardinality(At("vault")) <= TotalDeposits
        /\ TotalDeposits <= balance + Cardinality(At("vault")) + Cardinality(At("balance"))
                              + budget.faults + rest
    BY DEF BooksInv, Totals
  <2>3. Cardinality(Polls) * budget'.crashes = rest + Cardinality(Polls)
    BY <1>7
  <2> HIDE DEF rest
  <2>4. balance' + 0 <= tvl' /\ tvl' + 0 <= TotalDeposits'
    BY <1>1, <1>4, <2>2, Numbers
  <2>5. TotalDeposits' <= balance' + 0 + 0 + budget'.faults
                            + Cardinality(Polls) * budget'.crashes
    BY <1>1, <1>4, <1>6, <2>1, <2>2, <2>3, Numbers
  <2> QED BY <1>2, <1>3, <2>4, <2>5 DEF Totals
<1> QED BY <1>5, <1>8 DEF BooksInv

(* A poll that begins beside others is one more that may book. *)
LEMMA BeginKeepsBooks ==
  ASSUME BooksInv, OtherTypes, OtherTypes', poll \in [Polls -> PollStates],
         NEW p \in Polls, NEW current \in {head - 1, head}, BeginPoll(p, current)
  PROVE  BooksInv'
<1> DEFINE beside == \E q \in Polls : poll[q].pc # "idle"
<1>1. /\ poll[p].pc = "idle" /\ UNCHANGED <<deposits, tvl, balance, status, load>>
      /\ budget'.crashes = budget.crashes /\ budget'.faults = budget.faults
      /\ budget'.overlaps = budget.overlaps + (IF beside THEN 1 ELSE 0)
  BY DEF BeginPoll, books, OtherTypes
<1>2. PICK r : poll' = [poll EXCEPT ![p] = r] /\ r.pc = "next"
  <2>1. PICK queue : poll' = [poll EXCEPT ![p].pc = "next", ![p].current = current,
                                          ![p].queue = queue]
    BY DEF BeginPoll
  <2> DEFINE r == [poll[p] EXCEPT !.pc = "next", !.current = current, !.queue = queue]
  <2>2. poll' = [poll EXCEPT ![p] = r]
    BY <2>1
  <2>3. r.pc = "next"
    BY DEF PollStates
  <2> HIDE DEF r
  <2> QED BY <2>2, <2>3
<1>3. poll'[p] = r /\ \A q \in Polls \ {p} : poll'[q] = poll[q]
  BY <1>2
<1>4. /\ p \notin Busy /\ p \in Busy'
      /\ At("vault")' = At("vault") /\ At("balance")' = At("balance")
      /\ \A i : Booking(i)' = Booking(i)
  BY <1>1, <1>2, <1>3 DEF Busy, At, Booking, IntentOf, Event
<1>5. /\ TotalDeposits' = TotalDeposits
      /\ \A i \in Intents : DepositsOf(i)' = DepositsOf(i)
  BY <1>1 DEF TotalDeposits, DepositsOf, IntentOf
<1>6. Cardinality(Busy') = Cardinality(Busy) + 1
  <2>1. Cardinality(Busy') + One(p, Busy) = Cardinality(Busy) + One(p, Busy')
    BY <1>1, <1>2, Counts
  <2>2. Cardinality(Busy') \in Nat
    BY Numbers, CountPart DEF Busy
  <2> QED BY <1>4, <2>1, <2>2, Numbers DEF One
<1>7. Cardinality(Busy') <= 1 + budget'.overlaps
  <2>1. CASE beside
    <3>1. budget'.overlaps = budget.overlaps + 1
      BY <1>1, <2>1
    <3>2. Cardinality(Busy) <= 1 + budget.overlaps
      BY DEF BooksInv, OncePerPoll
    <3> HIDE DEF beside
    <3> QED BY <1>6, <3>1, <3>2, Numbers
  <2>2. CASE ~beside
    <3>1. Busy = {} /\ budget'.overlaps = budget.overlaps + 0
      BY <1>1, <2>2 DEF Busy
    <3> HIDE DEF beside
    <3>2. Cardinality(Busy) = 0
      BY <3>1, FS_EmptySet
    <3> QED BY <1>6, <3>1, <3>2, Numbers
  <2> QED BY <2>1, <2>2
<1>8. budget'.overlaps >= budget.overlaps /\ budget'.overlaps \in Nat
  <2> HIDE DEF beside
  <2> QED BY <1>1, Numbers
<1>9. OncePerPoll'
  <2>1. \A i \in Intents : DepositsOf(i)' + Cardinality(Booking(i)') <= 1 + budget'.overlaps
    <3>1. \A i \in Intents : DepositsOf(i) + Cardinality(Booking(i)) <= 1 + budget.overlaps
      BY DEF BooksInv, OncePerPoll
    <3>2. \A d, b, n, m \in Nat : d + b <= 1 + n /\ m >= n => d + b <= 1 + m
      OBVIOUS
    <3>3. \A i \in Intents : DepositsOf(i) + Cardinality(Booking(i)) <= 1 + budget'.overlaps
      BY <1>8, <3>1, <3>2, Numbers
    <3> QED BY <1>4, <1>5, <3>3
  <2>2. \A q \in Polls : poll'[q].pc = "create" => status'[IntentOf(Event(q))'] # "pending"
    BY <1>1, <1>2, <1>3 DEF BooksInv, OncePerPoll, IntentOf, Event
  <2> QED BY <1>1, <1>5, <1>7, <2>1, <2>2 DEF BooksInv, OncePerPoll
<1>10. Totals'
  BY <1>1, <1>4, <1>5 DEF BooksInv, Totals
<1> QED BY <1>9, <1>10 DEF BooksInv

(* What a poll is after it moved on, or dropped its event. *)
LEMMA MovedPoll ==
  ASSUME poll \in [Polls -> PollStates], NEW p \in Polls
  PROVE  /\ \A pc \in PollPcs : Goto(p, pc) =>
              \E r : poll' = [poll EXCEPT ![p] = r] /\ r.pc = pc /\ r.queue = poll[p].queue
         /\ Drop(p) => \E r : poll' = [poll EXCEPT ![p] = r] /\ r.pc = "next"
<1>1. ASSUME NEW pc \in PollPcs, Goto(p, pc)
      PROVE  \E r : poll' = [poll EXCEPT ![p] = r] /\ r.pc = pc /\ r.queue = poll[p].queue
  <2> DEFINE r == [poll[p] EXCEPT !.pc = pc]
  <2>1. poll' = [poll EXCEPT ![p] = r]
    BY <1>1 DEF Goto
  <2>2. r.pc = pc /\ r.queue = poll[p].queue
    BY DEF PollStates
  <2> HIDE DEF r
  <2> QED BY <2>1, <2>2
<1>2. ASSUME Drop(p) PROVE \E r : poll' = [poll EXCEPT ![p] = r] /\ r.pc = "next"
  <2> DEFINE r == [poll[p] EXCEPT !.pc = "next", !.queue = Tail(poll[p].queue), !.copy = NoCopy]
  <2>1. poll' = [poll EXCEPT ![p] = r]
    BY <1>2 DEF Drop, PollStates
  <2>2. r.pc = "next"
    BY DEF PollStates
  <2> HIDE DEF r
  <2> QED BY <2>1, <2>2
<1> QED BY <1>1, <1>2

Bookers == {"user", "check", "link", "match", "create"}

(* A poll goes on with an event it has taken up, or leaves it before it    *)
(* raised a total.                                                         *)
LEMMA QuietKeepsBooks ==
  ASSUME BooksInv, OtherTypes, poll \in [Polls -> PollStates],
         UNCHANGED <<deposits, tvl, balance, status, budget, load>>,
         NEW p \in Polls, NEW r, poll' = [poll EXCEPT ![p] = r],
         poll[p].pc \notin {"idle", "vault", "balance"},
         \/ r.pc \in {"idle", "next", "intent"}
         \/ /\ r.pc \in {"check", "link", "match"} /\ poll[p].pc \in Bookers
            /\ r.queue = poll[p].queue
  PROVE  BooksInv'
<1>1. poll'[p] = r /\ \A q \in Polls \ {p} : poll'[q] = poll[q]
  OBVIOUS
<1>2. /\ Busy' \subseteq Busy
      /\ \A i : Booking(i)' \subseteq Booking(i)
      /\ At("vault")' = At("vault") /\ At("balance")' = At("balance")
  <2>1. Busy' \subseteq Busy
    BY <1>1 DEF Busy
  <2>2. ASSUME NEW i PROVE Booking(i)' \subseteq Booking(i)
    BY <1>1 DEF Booking, IntentOf, Event, Bookers
  <2>3. At("vault")' = At("vault") /\ At("balance")' = At("balance")
    BY <1>1 DEF At
  <2> QED BY <2>1, <2>2, <2>3
<1>3. /\ TotalDeposits' = TotalDeposits
      /\ \A i \in Intents : DepositsOf(i)' = DepositsOf(i)
  BY DEF TotalDeposits, DepositsOf, IntentOf
<1>4. Cardinality(Busy') <= Cardinality(Busy) /\ Cardinality(Busy') \in Nat
  <2>1. Busy \in SUBSET Polls /\ Busy' \in SUBSET Busy
    BY <1>2 DEF Busy
  <2> QED BY <2>1, CountPart
<1>5. \A i : Cardinality(Booking(i)') <= Cardinality(Booking(i)) /\ Cardinality(Booking(i)') \in Nat
  <2>1. \A i : Booking(i) \in SUBSET Polls /\ Booking(i)' \in SUBSET Booking(i)
    BY <1>2 DEF Booking
  <2> QED BY <2>1, CountPart
<1>6. OncePerPoll'
  <2>1. Cardinality(Busy') <= 1 + budget.overlaps
    BY <1>4, Numbers DEF BooksInv, OncePerPoll
  <2>2. \A i \in Intents : DepositsOf(i) + Cardinality(Booking(i)') <= 1 + budget.overlaps
    <3>1. \A i \in Intents : DepositsOf(i) + Cardinality(Booking(i)) <= 1 + budget.overlaps
      BY DEF BooksInv, OncePerPoll
    <3>2. \A d, b, c, n \in Nat : d + b <= 1 + n /\ c <= b => d + c <= 1 + n
      OBVIOUS
    <3> QED BY <1>5, <3>1, <3>2, Numbers
  <2>3. \A q \in Polls : poll'[q].pc = "create" => status[IntentOf(Event(q))'] # "pending"
    BY <1>1 DEF BooksInv, OncePerPoll, IntentOf, Event
  <2> QED BY <1>3, <2>1, <2>2, <2>3 DEF BooksInv, OncePerPoll
<1>7. Totals'
  BY <1>2, <1>3 DEF BooksInv, Totals
<1> QED BY <1>6, <1>7 DEF BooksInv

(* A pending intent is taken up: it has no deposit, and no more polls than *)
(* run at once are at it.                                                  *)
LEMMA TakeUpKeepsBooks ==
  ASSUME BooksInv, OtherTypes, poll \in [Polls -> PollStates],
         NEW p \in Polls, poll[p].pc = "intent", Event(p) \in Events,
         IntentOf(Event(p)) \in Intents, FindIntent(p)
  PROVE  BooksInv'
<1>1. UNCHANGED <<deposits, tvl, balance, status, budget, load>>
  BY DEF FindIntent, books
<1>2. CASE ~IsOpen(IntentOf(Event(p)))
  <2>1. Drop(p)
    BY <1>2 DEF FindIntent
  <2> QED BY <1>1, <2>1, MovedPoll, QuietKeepsBooks
<1>3. CASE IsOpen(IntentOf(Event(p)))
  <2>0. PICK j \in Intents : j = IntentOf(Event(p))
    OBVIOUS
  <2>1. status[j] = "pending" /\ Goto(p, "user")
    BY <1>3, <2>0 DEF FindIntent, IsOpen
  <2>2. PICK r : poll' = [poll EXCEPT ![p] = r] /\ r.pc = "user" /\ r.queue = poll[p].queue
    BY <2>1, MovedPoll DEF PollPcs
  <2>3. poll'[p] = r /\ \A q \in Polls \ {p} : poll'[q] = poll[q]
    BY <2>2
  <2>4. /\ Busy' = Busy
        /\ At("vault")' = At("vault") /\ At("balance")' = At("balance")
        /\ \A i : i # j => Booking(i)' = Booking(i)
        /\ \A i : Booking(i)' \subseteq Busy
    <3>1. Busy' = Busy
      BY <2>2, <2>3 DEF Busy
    <3>2. At("vault")' = At("vault") /\ At("balance")' = At("balance")
      BY <2>2, <2>3 DEF At
    <3>3. ASSUME NEW i, i # j PROVE Booking(i)' = Booking(i)
      BY <1>1, <2>0, <2>2, <2>3, <3>3 DEF Booking, IntentOf, Event
    <3>4. ASSUME NEW i PROVE Booking(i)' \subseteq Busy
      BY <2>2, <2>3 DEF Booking, Busy
    <3> QED BY <3>1, <3>2, <3>3, <3>4
  <2>5. /\ TotalDeposits' = TotalDeposits
        /\ \A i \in Intents : DepositsOf(i)' = DepositsOf(i)
    BY <1>1 DEF TotalDeposits, DepositsOf, IntentOf
  <2>6. Cardinality(Booking(j)') <= 1 + budget.overlaps
    <3>1. Busy \in SUBSET Polls /\ Booking(j)' \in SUBSET Busy
      BY <2>4 DEF Busy
    <3>2. Cardinality(Booking(j)') <= Cardinality(Busy) /\ Cardinality(Booking(j)') \in Nat
      BY <3>1, CountPart
    <3> QED BY <3>2, Numbers DEF BooksInv, OncePerPoll
  <2>7. OncePerPoll'
    <3>1. DepositsOf(j) = 0 /\ j \in Intents
      BY <2>1 DEF BooksInv, OncePerPoll
    <3>2. DepositsOf(j) + Cardinality(Booking(j)') <= 1 + budget.overlaps
      <4>1. Cardinality(Booking(j)') \in Nat
        BY CountPart DEF Booking
      <4> QED BY <2>6, <3>1, <4>1, Numbers
    <3>3. ASSUME NEW i \in Intents
          PROVE  DepositsOf(i) + Cardinality(Booking(i)') <= 1 + budget.overlaps
      <4>1. CASE i = j
        BY <3>2, <4>1
      <4>2. CASE i # j
        <5>1. Booking(i)' = Booking(i)
          BY <2>4, <4>2
        <5>2. DepositsOf(i) + Cardinality(Booking(i)) <= 1 + budget.overlaps
          BY DEF BooksInv, OncePerPoll
        <5> QED BY <5>1, <5>2
      <4> QED BY <4>1, <4>2
    <3>4. \A q \in Polls : poll'[q].pc = "create" => status[IntentOf(Event(q))'] # "pending"
      BY <1>1, <2>2, <2>3 DEF BooksInv, OncePerPoll, IntentOf, Event
    <3>5. Cardinality(Busy') <= 1 + budget.overlaps
      BY <2>4 DEF BooksInv, OncePerPoll
    <3> QED BY <1>1, <2>5, <3>3, <3>4, <3>5 DEF BooksInv, OncePerPoll
  <2>8. Totals'
    BY <1>1, <2>4, <2>5 DEF BooksInv, Totals
  <2> QED BY <2>7, <2>8 DEF BooksInv
<1> QED BY <1>2, <1>3

(* The intent is marked: it is not pending when its deposit is made. *)
LEMMA MatchKeepsBooks ==
  ASSUME BooksInv, OtherTypes, poll \in [Polls -> PollStates],
         NEW p \in Polls, IntentOf(Event(p)) \in Intents, Match(p)
  PROVE  BooksInv'
<1>1. /\ UNCHANGED <<deposits, tvl, balance, budget, load>> /\ poll[p].pc = "match"
      /\ Goto(p, "create") /\ status' = [status EXCEPT ![IntentOf(Event(p))] = "matched"]
  BY DEF Match
<1>2. PICK r : poll' = [poll EXCEPT ![p] = r] /\ r.pc = "create" /\ r.queue = poll[p].queue
  BY <1>1, MovedPoll DEF PollPcs
<1>3. poll'[p] = r /\ \A q \in Polls \ {p} : poll'[q] = poll[q]
  BY <1>2
<1>4. /\ Busy' = Busy /\ At("vault")' = At("vault") /\ At("balance")' = At("balance")
      /\ \A i : Booking(i)' = Booking(i)
  <2>1. Busy' = Busy
    BY <1>1, <1>2, <1>3 DEF Busy
  <2>2. At("vault")' = At("vault") /\ At("balance")' = At("balance")
    BY <1>1, <1>2, <1>3 DEF At
  <2>3. ASSUME NEW i PROVE Booking(i)' = Booking(i)
    BY <1>1, <1>2, <1>3 DEF Booking, IntentOf, Event
  <2> QED BY <2>1, <2>2, <2>3
<1>5. /\ TotalDeposits' = TotalDeposits
      /\ \A i \in Intents : DepositsOf(i)' = DepositsOf(i)
  BY <1>1 DEF TotalDeposits, DepositsOf, IntentOf
<1>6. /\ \A q \in Polls : IntentOf(Event(q))' = IntentOf(Event(q))
      /\ \A i : status[i] # "pending" => status'[i] # "pending"
      /\ status'[IntentOf(Event(p))] # "pending"
  <2>1. \A q \in Polls : IntentOf(Event(q))' = IntentOf(Event(q))
    BY <1>1, <1>2, <1>3 DEF IntentOf, Event
  <2> QED BY <1>1, <2>1 DEF OtherTypes
<1>7. \A q \in Polls : poll'[q].pc = "create" => status'[IntentOf(Event(q))'] # "pending"
  BY <1>3, <1>6 DEF BooksInv, OncePerPoll
<1>8. OncePerPoll'
  BY <1>1, <1>4, <1>5, <1>6, <1>7 DEF BooksInv, OncePerPoll
<1>9. Totals'
  BY <1>1, <1>4, <1>5 DEF BooksInv, Totals
<1> QED BY <1>8, <1>9 DEF BooksInv

(* A deposit is made: one booking less of its intent, and one increment of *)
(* the vault to come.                                                      *)
LEMMA CreateKeepsBooks ==
  ASSUME BooksInv, OtherTypes, OtherTypes', poll \in [Polls -> PollStates],
         NEW p \in Polls, Event(p) \in Events, IntentOf(Event(p)) \in Intents, CreateDeposit(p)
  PROVE  BooksInv'
<1>0. PICK e \in Events, j \in Intents : e = Event(p) /\ j = IntentOf(e)
  OBVIOUS
<1>1. /\ UNCHANGED <<status, tvl, balance, budget, load>> /\ poll[p].pc = "create"
      /\ Goto(p, "vault") /\ deposits' = [deposits EXCEPT ![e] = @ + 1]
  BY <1>0 DEF CreateDeposit
<1>2. PICK r : poll' = [poll EXCEPT ![p] = r] /\ r.pc = "vault" /\ r.queue = poll[p].queue
  BY <1>1, MovedPoll DEF PollPcs
<1>3. poll'[p] = r /\ \A q \in Polls \ {p} : poll'[q] = poll[q]
  BY <1>2
<1>4. deposits \in [Events -> Nat] /\ e \in Events
  BY DEF OtherTypes
<1>5. TotalDeposits' = TotalDeposits + 1
  <2>1. SumOver(Events, [deposits EXCEPT ![e] = @ + 1]) = SumOver(Events, deposits) + 1
    BY <1>4, SumGrows
  <2> QED BY <1>1, <2>1 DEF TotalDeposits
<1>6. DepositsOf(j)' = DepositsOf(j) + 1
  <2> DEFINE S == {d \in Events : IntentOf(d) = j}
  <2>1. e \in S /\ S \in SUBSET Events
    BY <1>0
  <2>2. SumOver(S, [deposits EXCEPT ![e] = @ + 1]) = SumOver(S, deposits) + 1
    <3> HIDE DEF S
    <3> QED BY <1>4, <2>1, SumGrows
  <2>3. DepositsOf(j)' = SumOver(S, deposits')
    BY <1>1 DEF DepositsOf, IntentOf
  <2> QED BY <1>1, <2>2, <2>3 DEF DepositsOf
<1>7. ASSUME NEW i \in Intents, i # j PROVE DepositsOf(i)' = DepositsOf(i)
  <2> DEFINE S == {d \in Events : IntentOf(d) = i}
  <2>1. e \in Events \ S /\ S \in SUBSET Events
    BY <1>0, <1>7
  <2>2. SumOver(S, [deposits EXCEPT ![e] = @ + 1]) = SumOver(S, deposits)
    <3> HIDE DEF S
    <3> QED BY <1>4, <2>1, SumElsewhere
  <2>3. DepositsOf(i)' = SumOver(S, deposits')
    BY <1>1 DEF DepositsOf, IntentOf
  <2> QED BY <1>1, <2>2, <2>3 DEF DepositsOf
<1>8. /\ Busy' = Busy /\ At("balance")' = At("balance")
      /\ p \notin At("vault") /\ p \in At("vault")'
      /\ \A i : i # j => Booking(i)' = Booking(i)
      /\ p \in Booking(j) /\ p \notin Booking(j)'
  <2>1. Busy' = Busy
    BY <1>1, <1>2, <1>3 DEF Busy
  <2>2. At("balance")' = At("balance") /\ p \notin At("vault") /\ p \in At("vault")'
    BY <1>1, <1>2, <1>3 DEF At
  <2>3. ASSUME NEW i, i # j PROVE Booking(i)' = Booking(i)
    BY <1>0, <1>1, <1>2, <1>3, <2>3 DEF Booking, IntentOf, Event
  <2>4. p \in Booking(j) /\ p \notin Booking(j)'
    BY <1>0, <1>1, <1>2, <1>3 DEF Booking
  <2> QED BY <2>1, <2>2, <2>3, <2>4
<1>9. Cardinality(At("vault")') = Cardinality(At("vault")) + 1
  <2>1. Cardinality(At("vault")') + One(p, At("vault"))
          = Cardinality(At("vault")) + One(p, At("vault")')
    BY <1>1, <1>2, Counts
  <2>2. Cardinality(At("vault")') \in Nat
    BY Numbers, CountPart DEF At
  <2> QED BY <1>8, <2>1, <2>2, Numbers DEF One
<1>10. Cardinality(Booking(j)') + 1 = Cardinality(Booking(j))
  <2>1. Cardinality(Booking(j)') + One(p, Booking(j))
          = Cardinality(Booking(j)) + One(p, Booking(j)')
    BY <1>1, <1>2, Counts
  <2>2. Cardinality(Booking(j)') \in Nat
    BY CountPart DEF Booking
  <2> QED BY <1>8, <2>1, <2>2, Numbers DEF One
<1>11. OncePerPoll'
  <2>1. status[j] # "pending"
    BY <1>0, <1>1 DEF BooksInv, OncePerPoll
  <2>2. DepositsOf(j) + Cardinality(Booking(j)) <= 1 + budget.overlaps
    BY DEF BooksInv, OncePerPoll
  <2>3. DepositsOf(j)' + Cardinality(Booking(j)') <= 1 + budget.overlaps
    <3>1. DepositsOf(j) \in Nat /\ Cardinality(Booking(j)') \in Nat
      <4>1. Booking(j)' \in SUBSET Polls
        BY DEF Booking
      <4> QED BY <4>1, Numbers, CountPart
    <3> QED BY <1>6, <1>10, <2>2, <3>1, Numbers
  <2>4. ASSUME NEW i \in Intents
        PROVE  /\ status'[i] = "pending" => DepositsOf(i)' = 0
               /\ DepositsOf(i)' + Cardinality(Booking(i)') <= 1 + budget'.overlaps
    <3>1. CASE i = j
      BY <1>1, <2>1, <2>3, <3>1
    <3>2. CASE i # j
      <4>1. DepositsOf(i)' = DepositsOf(i) /\ Booking(i)' = Booking(i)
        BY <1>7, <1>8, <3>2
      <4>2. /\ status[i] = "pending" => DepositsOf(i) = 0
            /\ DepositsOf(i) + Cardinality(Booking(i)) <= 1 + budget.overlaps
        BY DEF BooksInv, OncePerPoll
      <4> QED BY <1>1, <4>1, <4>2
    <3> QED BY <3>1, <3>2
  <2>5. \A q \in Polls : poll'[q].pc = "create" => status'[IntentOf(Event(q))'] # "pending"
    BY <1>1, <1>2, <1>3 DEF BooksInv, OncePerPoll, IntentOf, Event
  <2>6. Cardinality(Busy') <= 1 + budget'.overlaps
    BY <1>1, <1>8 DEF BooksInv, OncePerPoll
  <2> QED BY <2>4, <2>5, <2>6 DEF OncePerPoll
<1>12. Totals'
  <2> DEFINE rest == Cardinality(Polls) * budget.crashes
  <2>1. rest \in Nat
    BY Numbers
  <2>2. /\ balance + Cardinality(At("balance")) <= tvl
        /\ tvl + Cardinality(At("vault")) <= TotalDeposits
        /\ TotalDeposits <= balance + Cardinality(At("vault")) + Cardinality(At("balance"))
                              + budget.faults + rest
    BY DEF BooksInv, Totals
  <2>3. Cardinality(Polls) * budget'.crashes = rest
    BY <1>1
  <2> HIDE DEF rest
  <2>4. balance' + Cardinality(At("balance")') <= tvl'
    BY <1>1, <1>8, <2>2
  <2>5. tvl' + Cardinality(At("vault")') <= TotalDeposits'
    BY <1>1, <1>5, <1>9, <2>2, Numbers
  <2>6. TotalDeposits' <= balance' + Cardinality(At("vault")') + Cardinality(At("balance")')
                            + budget'.faults + Cardinality(Polls) * budget'.crashes
    <3>1. budget' = budget /\ balance' = balance
            /\ Cardinality(At("balance")') = Cardinality(At("balance"))
      BY <1>1, <1>8
    <3> QED BY <1>5, <1>9, <2>1, <2>2, <2>3, <3>1, Numbers
  <2> QED BY <2>4, <2>5, <2>6 DEF Totals
<1> QED BY <1>11, <1>12 DEF BooksInv

(* A poll that is past its deposit, or gives its event up, books nothing   *)
(* more.                                                                   *)
LEMMA PastKeepsOnce ==
  ASSUME BooksInv, OtherTypes, poll \in [Polls -> PollStates],
         UNCHANGED <<deposits, status, load>>, budget'.overlaps = budget.overlaps,
         NEW p \in Polls, poll[p].pc # "idle",
         NEW r, poll' = [poll EXCEPT ![p] = r], r.pc \in {"next", "balance"}
  PROVE  OncePerPoll' /\ TotalDeposits' = TotalDeposits
<1>1. poll'[p] = r /\ \A q \in Polls \ {p} : poll'[q] = poll[q]
  OBVIOUS
<1>2. Busy' = Busy
  BY <1>1 DEF Busy
<1>3. ASSUME NEW i \in Intents
      PROVE  /\ DepositsOf(i)' = DepositsOf(i)
             /\ DepositsOf(i) + Cardinality(Booking(i)') <= 1 + budget.overlaps
  <2>1. DepositsOf(i)' = DepositsOf(i)
    BY DEF DepositsOf, IntentOf
  <2>2. Booking(i)' \in SUBSET Booking(i) /\ Booking(i) \in SUBSET Polls
    BY <1>1 DEF Booking, IntentOf, Event
  <2>3. Cardinality(Booking(i)') <= Cardinality(Booking(i)) /\ Cardinality(Booking(i)') \in Nat
    BY <2>2, CountPart
  <2>4. DepositsOf(i) + Cardinality(Booking(i)) <= 1 + budget.overlaps
    BY DEF BooksInv, OncePerPoll
  <2> QED BY <2>1, <2>3, <2>4, Numbers
<1>4. \A q \in Polls : poll'[q].pc = "create" => status[IntentOf(Event(q))'] # "pending"
  BY <1>1 DEF BooksInv, OncePerPoll, IntentOf, Event
<1>5. OncePerPoll'
  BY <1>2, <1>3, <1>4 DEF BooksInv, OncePerPoll
<1>6. TotalDeposits' = TotalDeposits
  BY DEF TotalDeposits
<1> QED BY <1>5, <1>6

(* The vault's total is raised. *)
LEMMA VaultKeepsBooks ==
  ASSUME BooksInv, OtherTypes, poll \in [Polls -> PollStates], NEW p \in Polls, IncVault(p)
  PROVE  BooksInv'
<1>1. /\ UNCHANGED <<deposits, status, balance, budget, load>> /\ poll[p].pc = "vault"
      /\ Goto(p, "balance") /\ tvl' = tvl + 1
  BY DEF IncVault
<1>2. PICK r : poll' = [poll EXCEPT ![p] = r] /\ r.pc = "balance"
  BY <1>1, MovedPoll DEF PollPcs
<1>3. OncePerPoll' /\ TotalDeposits' = TotalDeposits
  BY <1>1, <1>2, PastKeepsOnce
<1>4. /\ Cardinality(At("vault")') + 1 = Cardinality(At("vault"))
      /\ Cardinality(At("balance")') = Cardinality(At("balance")) + 1
  <2>1. /\ p \in At("vault") /\ p \notin At("vault")'
        /\ p \notin At("balance") /\ p \in At("balance")'
    BY <1>1, <1>2 DEF At
  <2>2. /\ Cardinality(At("vault")') + One(p, At("vault"))
             = Cardinality(At("vault")) + One(p, At("vault")')
        /\ Cardinality(At("balance")') + One(p, At("balance"))
             = Cardinality(At("balance")) + One(p, At("balance")')
    BY <1>1, <1>2, Counts
  <2>3. Cardinality(At("vault")') \in Nat /\ Cardinality(At("balance")') \in Nat
    BY CountPart DEF At
  <2> QED BY <2>1, <2>2, <2>3, Numbers DEF One
<1>5. Totals'
  <2> DEFINE rest == Cardinality(Polls) * budget.crashes
  <2>1. rest \in Nat /\ rest' = rest
    BY <1>1, Numbers
  <2>2. /\ balance + Cardinality(At("balance")) <= tvl
        /\ tvl + Cardinality(At("vault")) <= TotalDeposits
        /\ TotalDeposits <= balance + Cardinality(At("vault")) + Cardinality(At("balance"))
                              + budget.faults + rest
    BY DEF BooksInv, Totals
  <2> HIDE DEF rest
  <2>3. Cardinality(At("vault")') \in Nat
    BY CountPart DEF At
  <2>4. balance + Cardinality(At("balance")') <= tvl'
    BY <1>1, <1>4, <2>2, Numbers
  <2>5. tvl' + Cardinality(At("vault")') <= TotalDeposits
    BY <1>1, <1>4, <2>2, <2>3, Numbers
  <2>6. TotalDeposits <= balance + Cardinality(At("vault")') + Cardinality(At("balance")')
                           + budget.faults + rest
    BY <1>4, <2>1, <2>2, <2>3, Numbers
  <2> QED BY <1>1, <1>3, <2>1, <2>4, <2>5, <2>6 DEF Totals, rest
<1> QED BY <1>3, <1>5 DEF BooksInv

(* The user's total is raised. *)
LEMMA UserKeepsBooks ==
  ASSUME BooksInv, OtherTypes, poll \in [Polls -> PollStates], NEW p \in Polls, IncUser(p)
  PROVE  BooksInv'
<1>1. /\ UNCHANGED <<deposits, status, tvl, budget, load>> /\ poll[p].pc = "balance"
      /\ Drop(p) /\ balance' = balance + 1
  BY DEF IncUser
<1>2. PICK r : poll' = [poll EXCEPT ![p] = r] /\ r.pc = "next"
  BY <1>1, MovedPoll
<1>3. OncePerPoll' /\ TotalDeposits' = TotalDeposits
  BY <1>1, <1>2, PastKeepsOnce
<1>4. /\ At("vault")' = At("vault")
      /\ Cardinality(At("balance")') + 1 = Cardinality(At("balance"))
  <2>1. p \in At("balance") /\ p \notin At("balance")' /\ At("vault")' = At("vault")
    BY <1>1, <1>2 DEF At
  <2>2. Cardinality(At("balance")') + One(p, At("balance"))
          = Cardinality(At("balance")) + One(p, At("balance")')
    BY <1>1, <1>2, Counts
  <2>3. Cardinality(At("balance")') \in Nat
    BY CountPart DEF At
  <2> QED BY <2>1, <2>2, <2>3, Numbers DEF One
<1>5. Totals'
  <2> DEFINE rest == Cardinality(Polls) * budget.crashes
  <2>1. rest \in Nat /\ rest' = rest
    BY <1>1, Numbers
  <2>2. /\ balance + Cardinality(At("balance")) <= tvl
        /\ tvl + Cardinality(At("vault")) <= TotalDeposits
        /\ TotalDeposits <= balance + Cardinality(At("vault")) + Cardinality(At("balance"))
                              + budget.faults + rest
    BY DEF BooksInv, Totals
  <2> HIDE DEF rest
  <2>3. Cardinality(At("balance")') \in Nat
    BY CountPart DEF At
  <2>4. balance' + Cardinality(At("balance")') <= tvl
    BY <1>1, <1>4, <2>2, <2>3, Numbers
  <2>5. TotalDeposits <= balance' + Cardinality(At("vault")) + Cardinality(At("balance")')
                           + budget.faults + rest
    BY <1>1, <1>4, <2>1, <2>2, <2>3, Numbers
  <2> QED BY <1>1, <1>3, <1>4, <2>1, <2>2, <2>4, <2>5 DEF Totals, rest
<1> QED BY <1>3, <1>5 DEF BooksInv

(* An event is given up: what it has not raised stays behind by one. *)
LEMMA ThrowKeepsBooks ==
  ASSUME BooksInv, OtherTypes, poll \in [Polls -> PollStates], NEW p \in Polls,
         HandlerThrows(p)
  PROVE  BooksInv'
<1>1. /\ UNCHANGED <<deposits, status, tvl, balance, load>> /\ poll[p].pc # "idle"
      /\ Drop(p) /\ budget'.faults = budget.faults + 1
      /\ budget'.crashes = budget.crashes /\ budget'.overlaps = budget.overlaps
  BY DEF HandlerThrows, Handling, books, Spend, OtherTypes
<1>2. PICK r : poll' = [poll EXCEPT ![p] = r] /\ r.pc = "next"
  BY <1>1, MovedPoll
<1>3. OncePerPoll' /\ TotalDeposits' = TotalDeposits
  BY <1>1, <1>2, PastKeepsOnce
<1>4. /\ Cardinality(At("vault")') <= Cardinality(At("vault"))
      /\ Cardinality(At("balance")') <= Cardinality(At("balance"))
      /\ Cardinality(At("vault")) + Cardinality(At("balance"))
           <= Cardinality(At("vault")') + Cardinality(At("balance")') + 1
      /\ Cardinality(At("vault")') \in Nat /\ Cardinality(At("balance")') \in Nat
  <2>1. /\ p \notin At("vault")' /\ p \notin At("balance")'
        /\ ~(p \in At("vault") /\ p \in At("balance"))
    BY <1>1, <1>2 DEF At
  <2>2. /\ Cardinality(At("vault")') + One(p, At("vault"))
             = Cardinality(At("vault")) + One(p, At("vault")')
        /\ Cardinality(At("balance")') + One(p, At("balance"))
             = Cardinality(At("balance")) + One(p, At("balance")')
    BY <1>1, <1>2, Counts
  <2>3. Cardinality(At("vault")') \in Nat /\ Cardinality(At("balance")') \in Nat
    BY CountPart DEF At
  <2>4. /\ One(p, At("vault")') = 0 /\ One(p, At("balance")') = 0
        /\ One(p, At("vault")) \in Nat /\ One(p, At("balance")) \in Nat
        /\ One(p, At("vault")) + One(p, At("balance")) <= 1
    BY <2>1 DEF One
  <2> QED BY <2>2, <2>3, <2>4, Numbers
<1>5. Totals'
  <2> DEFINE rest == Cardinality(Polls) * budget.crashes
  <2>1. rest \in Nat /\ rest' = rest
    BY <1>1, Numbers
  <2>2. /\ balance + Cardinality(At("balance")) <= tvl
        /\ tvl + Cardinality(At("vault")) <= TotalDeposits
        /\ TotalDeposits <= balance + Cardinality(At("vault")) + Cardinality(At("balance"))
                              + budget.faults + rest
    BY DEF BooksInv, Totals
  <2> HIDE DEF rest
  <2>3. balance + Cardinality(At("balance")') <= tvl
    BY <1>4, <2>2, Numbers
  <2>4. tvl + Cardinality(At("vault")') <= TotalDeposits
    BY <1>4, <2>2, Numbers
  <2>5. TotalDeposits <= balance + Cardinality(At("vault")') + Cardinality(At("balance")')
                           + budget'.faults + rest
    BY <1>1, <1>4, <2>1, <2>2, Numbers
  <2> QED BY <1>1, <1>3, <2>1, <2>3, <2>4, <2>5 DEF Totals, rest
<1> QED BY <1>3, <1>5 DEF BooksInv

(* The steps of a poll, one by one. *)
LEMMA PollKeepsBooks ==
  ASSUME LinkInv, LinkInv', BooksInv, NEW p \in Polls, PollStep(p) \/ HandlerThrows(p)
  PROVE  BooksInv'
<1>1. OtherTypes /\ OtherTypes' /\ poll \in [Polls -> PollStates]
  BY Parts, PartsNext DEF LinkInv, PollTypes
<1>2. poll[p].pc \notin {"idle", "next"} =>
        Event(p) \in Events /\ IntentOf(Event(p)) \in Intents
  <2>1. poll[p].pc \notin {"idle", "next"} => poll[p].queue # <<>>
    BY Parts DEF LinkInv, PollTypes, Handling
  <2> QED BY <2>1, EventType
<1>3. CASE FindDeposit(p)
  <2>1. /\ UNCHANGED <<deposits, tvl, balance, status, budget, load>> /\ poll[p].pc = "next"
        /\ Drop(p) \/ Goto(p, "intent")
    BY <1>3 DEF FindDeposit, books
  <2>2. PICK r : poll' = [poll EXCEPT ![p] = r] /\ r.pc \in {"next", "intent"}
    BY <1>1, <2>1, MovedPoll DEF PollPcs
  <2> QED BY <1>1, <2>1, <2>2, QuietKeepsBooks
<1>4. CASE FindIntent(p)
  BY <1>1, <1>2, <1>4, TakeUpKeepsBooks DEF FindIntent
<1>5. CASE LoadUser(p)
  <2>1. /\ UNCHANGED <<deposits, tvl, balance, status, budget, load>> /\ poll[p].pc = "user"
    BY <1>5 DEF LoadUser, books
  <2>2. CASE Drop(p)
    BY <1>1, <2>1, <2>2, MovedPoll, QuietKeepsBooks
  <2>3. CASE ~Drop(p)
    <3> DEFINE pc == IF Payer[Event(p)] \in wallets[UserOf(p)] THEN "match" ELSE "check"
               r == [poll[p] EXCEPT !.copy = CopyOf(UserOf(p)), !.pc = pc]
    <3>1. poll' = [poll EXCEPT ![p] = r]
      BY <1>5, <2>3 DEF LoadUser
    <3>2. r.pc \in {"check", "match"} /\ r.queue = poll[p].queue
      BY <1>1 DEF PollStates
    <3> HIDE DEF r
    <3> QED BY <1>1, <2>1, <3>1, <3>2, QuietKeepsBooks DEF Bookers
  <2> QED BY <2>2, <2>3
<1>6. CASE CheckPayer(p)
  <2>1. /\ UNCHANGED <<deposits, tvl, balance, status, budget, load>> /\ poll[p].pc = "check"
        /\ Goto(p, "match") \/ Goto(p, "link")
    BY <1>6 DEF CheckPayer, books
  <2>2. PICK r : /\ poll' = [poll EXCEPT ![p] = r] /\ r.pc \in {"match", "link"}
                 /\ r.queue = poll[p].queue
    BY <1>1, <2>1, MovedPoll DEF PollPcs
  <2> QED BY <1>1, <2>1, <2>2, QuietKeepsBooks DEF Bookers
<1>7. CASE LinkPayer(p)
  <2>1. /\ UNCHANGED <<deposits, tvl, balance, status, budget, load>> /\ poll[p].pc = "link"
        /\ Goto(p, "match") \/ Drop(p)
    BY <1>7 DEF LinkPayer, books
  <2>2. PICK r : /\ poll' = [poll EXCEPT ![p] = r]
                 /\ r.pc = "next" \/ (r.pc = "match" /\ r.queue = poll[p].queue)
    BY <1>1, <2>1, MovedPoll DEF PollPcs
  <2> QED BY <1>1, <2>1, <2>2, QuietKeepsBooks DEF Bookers
<1>8. CASE Match(p)
  BY <1>1, <1>2, <1>8, MatchKeepsBooks DEF Match
<1>9. CASE CreateDeposit(p)
  BY <1>1, <1>2, <1>9, CreateKeepsBooks DEF CreateDeposit
<1>10. CASE IncVault(p)
  BY <1>1, <1>10, VaultKeepsBooks
<1>11. CASE IncUser(p)
  BY <1>1, <1>11, UserKeepsBooks
<1>12. CASE EndPoll(p)
  <2>1. /\ UNCHANGED <<deposits, tvl, balance, status, budget, load>> /\ poll[p].pc = "next"
        /\ poll' = [poll EXCEPT ![p] = Idle] /\ Idle.pc = "idle"
    BY <1>12 DEF EndPoll, books, Idle
  <2> QED BY <1>1, <2>1, QuietKeepsBooks
<1>13. CASE HandlerThrows(p)
  BY <1>1, <1>13, ThrowKeepsBooks
<1> QED BY <1>3, <1>4, <1>5, <1>6, <1>7, <1>8, <1>9, <1>10, <1>11, <1>12, <1>13 DEF PollStep

(* Every step keeps the books. *)
LEMMA BooksStep == LinkInv /\ BooksInv /\ [Next]_vars => BooksInv'
<1> SUFFICES ASSUME LinkInv, BooksInv, [Next]_vars PROVE BooksInv'
  OBVIOUS
<1>1. LinkInv'
  BY StepHolds
<1>2. OtherTypes /\ OtherTypes' /\ poll \in [Polls -> PollStates]
  BY <1>1, Parts, PartsNext DEF LinkInv, PollTypes
<1>3. budget.faults \in Nat
  BY <1>2, Numbers
<1>4. ASSUME UNCHANGED <<books, poll, budget, load>> PROVE BooksInv'
  BY <1>2, <1>3, <1>4, BooksStay DEF books
<1>5. ASSUME NEW S \in SUBSET Events, Mine(S) PROVE BooksInv'
  BY <1>4, <1>5 DEF Mine
<1>6. CASE Start
  BY <1>4, <1>6 DEF Start
<1>7. CASE StartFails
  <2>1. UNCHANGED <<poll, deposits, tvl, balance, status, load>>
    BY <1>7 DEF StartFails, books
  <2>2. /\ budget'.faults = budget.faults + 1
        /\ budget'.crashes = budget.crashes /\ budget'.overlaps = budget.overlaps
    BY <1>2, <1>7 DEF StartFails, Spend, OtherTypes
  <2> QED BY <1>2, <1>3, <2>1, <2>2, BooksStay
<1>8. CASE UNCHANGED vars
  BY <1>4, <1>8 DEF vars
<1>9. CASE Next
  BY <1>1, <1>2, <1>4, <1>5, <1>6, <1>7, <1>9, CloseKeepsBooks, CrashKeepsBooks,
     BeginKeepsBooks, PollKeepsBooks DEF Next
<1> QED BY <1>8, <1>9

LEMMA BooksInit == Init => BooksInv
<1> SUFFICES ASSUME Init PROVE BooksInv
  OBVIOUS
<1>1. OtherTypes
  BY InitHolds, Parts DEF LinkInv
<1>2. /\ \A p \in Polls : poll[p].pc = "idle"
      /\ \A e \in Events : deposits[e] = 0
      /\ tvl = 0 /\ balance = 0 /\ budget.overlaps = 0
  BY DEF Init, Idle
<1>3. /\ Busy = {} /\ At("vault") = {} /\ At("balance") = {}
      /\ \A i : Booking(i) = {}
  BY <1>2 DEF Busy, At, Booking
<1>4. Cardinality({}) = 0
  BY FS_EmptySet
<1>5. \A S \in SUBSET Events : SumOver(S, deposits) = 0
  <2>1. ASSUME NEW S \in SUBSET Events PROVE UNION {{x} \X (1..deposits[x]) : x \in S} = {}
    BY <1>2
  <2> QED BY <1>4, <2>1 DEF SumOver
<1>6. TotalDeposits = 0 /\ \A i : DepositsOf(i) = 0
  BY <1>5 DEF TotalDeposits, DepositsOf
<1>7. OncePerPoll
  BY <1>2, <1>3, <1>4, <1>6 DEF OncePerPoll
<1>8. Totals
  <2>1. Cardinality(Polls) * budget.crashes \in Nat /\ budget.faults \in Nat
    BY <1>1, Numbers
  <2> DEFINE rest == Cardinality(Polls) * budget.crashes
  <2> HIDE DEF rest
  <2>2. 0 <= 0 + 0 + 0 + budget.faults + rest
    BY <2>1 DEF rest
  <2> QED BY <1>2, <1>3, <1>4, <1>6, <2>2 DEF Totals, rest
<1> QED BY <1>7, <1>8 DEF BooksInv

(* The books of the listener, whatever events, polls, faults and restarts: *)
(* no intent has more deposits than polls ran at once, the user's total is *)
(* never ahead of the vault's nor that of the deposits, and at rest they   *)
(* are behind by no more than what threw or was cut off.                   *)
THEOREM BooksFollowDeposits == Spec => []BooksFollow
<1>1. Init => LinkInv /\ BooksInv
  BY InitHolds, BooksInit
<1>2. (LinkInv /\ BooksInv) /\ [Next]_vars => (LinkInv /\ BooksInv)'
  BY StepHolds, BooksStep
<1>3. LinkInv /\ BooksInv => BooksFollow
  <2> SUFFICES ASSUME LinkInv, BooksInv PROVE BooksFollow
    OBVIOUS
  <2>1. OtherTypes
    BY Parts DEF LinkInv
  <2>2. \A i \in Intents : DepositsOf(i) <= 1 + budget.overlaps
    <3>1. \A i \in Intents : DepositsOf(i) + Cardinality(Booking(i)) <= 1 + budget.overlaps
      BY DEF BooksInv, OncePerPoll
    <3>2. \A d, b, n \in Nat : d + b <= 1 + n => d <= 1 + n
      OBVIOUS
    <3> QED BY <2>1, <3>1, <3>2, Numbers
  <2>3. balance <= tvl /\ tvl <= TotalDeposits
    BY <2>1, Numbers DEF BooksInv, Totals
  <2>4. ASSUME \A p \in Polls : ~Handling(p)
        PROVE  TotalDeposits - balance <= budget.faults + Cardinality(Polls) * budget.crashes
    <3>1. At("vault") = {} /\ At("balance") = {}
      BY <2>4 DEF At, Handling
    <3>2. Cardinality(At("vault")) = 0 /\ Cardinality(At("balance")) = 0
      BY <3>1, FS_EmptySet
    <3> DEFINE rest == Cardinality(Polls) * budget.crashes
    <3>3. rest \in Nat
      BY <2>1, Numbers
    <3>4. TotalDeposits <= balance + Cardinality(At("vault")) + Cardinality(At("balance"))
                             + budget.faults + rest
      BY DEF BooksInv, Totals
    <3> HIDE DEF rest
    <3>5. TotalDeposits - balance <= budget.faults + rest
      BY <2>1, <3>2, <3>3, <3>4, Numbers
    <3> QED BY <3>5 DEF rest
  <2> QED BY <2>2, <2>3, <2>4 DEF BooksFollow
<1> QED BY <1>1, <1>2, <1>3, PTL DEF Spec
=============================================================================
