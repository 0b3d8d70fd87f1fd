----------------------------- MODULE UserWallets -----------------------------
(***************************************************************************)
(* The wallets of the users (user.model.ts): a primary wallet under a      *)
(* unique index, and the list of linked wallets.  sendOTP and linkWallet   *)
(* (user.controller.ts) link a wallet, applyDepositAccounting links the    *)
(* wallet a deposit came from, and so does VaultListener.                  *)
(*                                                                         *)
(* Each reads the user's document, searches the other users for the        *)
(* wallet, and writes.  The requests and the listener save the document    *)
(* with a new list, on condition that its version (mongoose's __v) is the  *)
(* one they read; the accounting adds to the list and leaves the version.  *)
(***************************************************************************)
EXTENDS Naturals, FiniteSets

CONSTANTS
  Users, Wallets,
  NoWallet,       \* null
  Calls           \* calls that link a wallet, each made once

ASSUME WalletAssumption == NoWallet \notin Wallets /\ IsFiniteSet(Users)

VARIABLES
  registered,     \* users that exist
  primary,        \* primary[u]: walletAddress
  wallets,        \* wallets[u]: walletAddresses
  version,        \* version[u]: __v
  call,
  added           \* added[u]: the wallets that the accounting added

users == <<registered, primary, wallets, version, added>>
walletVars == <<users, call>>

Operations == {"sendOTP", "linkWallet", "accounting"}

(* What a caller read of a user: the list, the version, and whether there  *)
(* was no primary wallet.                                                  *)
Copies == [list : SUBSET Wallets, version : Nat, unset : BOOLEAN]
NoCopy == [list |-> {}, version |-> 0, unset |-> FALSE]
CopyOf(u) == [list |-> wallets[u], version |-> version[u], unset |-> primary[u] = NoWallet]

CallStates == [op : Operations, pc : {"new", "check", "write", "done"}, user : Users,
               wallet : Wallets, copy : Copies]

Fresh == {[op |-> o, pc |-> "new", user |-> u, wallet |-> w, copy |-> NoCopy] :
           o \in Operations, u \in Users, w \in Wallets}

(* Older documents may have a primary wallet that is not in the list.      *)
WalletsInit ==
  /\ registered \in SUBSET Users
  /\ primary \in {f \in [Users -> Wallets \union {NoWallet}] :
                   /\ \A u \in Users \ registered : f[u] = NoWallet
                   /\ \A u, v \in registered : u # v => f[u] # f[v]}
  /\ \E old \in SUBSET registered :
       wallets = [u \in Users |-> IF u \in old THEN {} ELSE {primary[u]} \ {NoWallet}]
  /\ version = [u \in Users |-> 0] /\ added = [u \in Users |-> {}]
  /\ call \in [Calls -> Fresh]

-----------------------------------------------------------------------------
(* The search for another user of the wallet. *)
OfAnother(u, w) == \E v \in registered \ {u} : primary[v] = w \/ w \in wallets[v]

(* The unique index of walletAddress, if it is written. *)
Unique(u, copy, w) == copy.unset => \A v \in registered \ {u} : primary[v] # w

(* A mistake to find: the save does not look at the version. *)
SavesAnyway(u, copy, w) == Unique(u, copy, w)

(* save() goes through, else it throws VersionError or E11000. *)
Saves(u, copy, w) == version[u] = copy.version /\ Unique(u, copy, w)

SetPrimary(u, copy, w) == primary' = [primary EXCEPT ![u] = IF copy.unset THEN w ELSE @]

Save(u, copy, w) ==
  /\ wallets' = [wallets EXCEPT ![u] = copy.list \union {w}]
  /\ SetPrimary(u, copy, w)
  /\ version' = [version EXCEPT ![u] = @ + 1]
  /\ UNCHANGED <<registered, added>>

(* $addToSet: the list grows, the version stays. *)
AddToSet(u, copy, w) ==
  /\ wallets' = [wallets EXCEPT ![u] = @ \union {w}]
  /\ SetPrimary(u, copy, w)
  /\ added' = [added EXCEPT ![u] = @ \union {w}]
  /\ UNCHANGED <<registered, version>>

-----------------------------------------------------------------------------
(* sendOTP of an unknown email: create, with no search for the wallet, or  *)
(* E11000 on walletAddress.                                                *)
Register(u, w) ==
  /\ u \notin registered
  /\ \A v \in registered : primary[v] # w
  /\ registered' = registered \union {u}
  /\ primary' = [primary EXCEPT ![u] = w]
  /\ wallets' = [wallets EXCEPT ![u] = {w} \ {NoWallet}]
  /\ UNCHANGED <<version, call, added>>

Move(c, pc) == call' = [call EXCEPT ![c].pc = pc]

(* The document is read; a wallet that is listed is nothing to do.         *)
(* linkWallet lists a primary wallet without the search.                   *)
ReadUser(c) ==
  LET r == call[c]
      next == IF r.wallet \in wallets[r.user] THEN "done"
              ELSE IF r.op = "linkWallet" /\ r.wallet = primary[r.user] THEN "write"
              ELSE "check"
  IN
    /\ r.pc = "new" /\ r.user \in registered
    /\ call' = [call EXCEPT ![c].pc = next, ![c].copy = CopyOf(r.user)]
    /\ UNCHANGED users

CheckConflict(c) ==
  /\ call[c].pc = "check"
  /\ Move(c, IF OfAnother(call[c].user, call[c].wallet) THEN "done" ELSE "write")
  /\ UNCHANGED users

SaveUser(c) ==
  LET r == call[c] IN
    /\ r.pc = "write" /\ r.op # "accounting"
    /\ Move(c, "done")
    /\ IF Saves(r.user, r.copy, r.wallet) THEN Save(r.user, r.copy, r.wallet)
       ELSE UNCHANGED users

AddWallet(c) ==
  LET r == call[c] IN
    /\ r.pc = "write" /\ r.op = "accounting"
    /\ Move(c, "done")
    /\ IF Unique(r.user, r.copy, r.wallet) THEN AddToSet(r.user, r.copy, r.wallet)
       ELSE UNCHANGED users

(* Any of its calls throws. *)
CallThrows(c) ==
  /\ call[c].pc \in {"check", "write"}
  /\ Move(c, "done")
  /\ UNCHANGED users

WalletCall(c) ==
  ReadUser(c) \/ CheckConflict(c) \/ SaveUser(c) \/ AddWallet(c) \/ CallThrows(c)

-----------------------------------------------------------------------------
(* The type invariant of this module's variables. *)
WalletsTypeOK ==
  /\ registered \subseteq Users
  /\ primary \in [Users -> Wallets \union {NoWallet}]
  /\ wallets \in [Users -> SUBSET Wallets] /\ added \in [Users -> SUBSET Wallets]
  /\ version \in [Users -> Nat] /\ call \in [Calls -> CallStates]

(* Requests and deposits that link wallets of one user at the same time do *)
(* not undo each other: a wallet that was linked stays linked and routes   *)
(* its deposits to the user, except one that the accounting had added,     *)
(* which a save that read the list before may drop.                        *)
LinkedStays ==
  [][\A u \in Users : wallets[u] \ wallets'[u] \subseteq added[u]]_users
=============================================================================
