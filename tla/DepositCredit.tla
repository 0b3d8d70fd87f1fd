---------------------------- MODULE DepositCredit ----------------------------
(***************************************************************************)
(* One permanent deposit address and the code that books what arrives on   *)
(* it: applyCredit, finalizeCredit and retryPendingCredits of              *)
(* depositAddress.service.ts with applyDepositAccounting of                *)
(* ephemeralDepositSweep.service.ts.  Several async flows of one Node      *)
(* process reach the same rows: the two scanners, each ending its tick in  *)
(* retryPendingCredits, and the direct callers (admin rescans and the      *)
(* balance fallback of the sweeper).  They interleave at every await, so   *)
(* one action here is one awaited database call; a call may throw, and the *)
(* process may crash between two of them.                                  *)
(*                                                                         *)
(* Amounts are abstracted to counts per transfer: vaultIncs[t] is how many *)
(* times the amount of t was added to a vault's totalStaked.               *)
(***************************************************************************)
EXTENDS Naturals, Sequences, FiniteSets

CONSTANTS
  Transfers,      \* on-chain transfers to this address
  Scanners,       \* periodic scanners: a scan, then retryPendingCredits
  Directs,        \* callers of applyCredit / creditFromBalance with no retry pass
  QrCalls,        \* getDepositQR requests of the owner, each served once
  Vaults,
  VaultAsset,     \* VaultAsset[v]: the stablecoin vault v takes
  Asset,          \* Asset[t]: the stablecoin transfer t moves
  MaxAttempts,    \* MAX_CREDIT_ATTEMPTS
  MaxFaults,      \* bound: how many awaited calls may throw
  MaxCrashes,     \* bound: how many times the process may restart
  MaxToggles,     \* bound: how many times an admin may (de)activate a vault
  NoTransfer, NoVault

Callers == Scanners \union Directs

ASSUME AttemptsAssumption == MaxAttempts \in Nat \ {0}
ASSUME BoundsAssumption == MaxFaults \in Nat /\ MaxCrashes \in Nat /\ MaxToggles \in Nat
ASSUME NamesAssumption == NoTransfer \notin Transfers /\ NoVault \notin Vaults

VARIABLES
  row,          \* row[t]: status of the deposit_credits row of t, or "none"
  attempts,     \* attempts[t]: its stored attempts
  rowVault,     \* rowVault[t]: its vaultId
  deposit,      \* deposit[t]: vault of the deposits row with t's requestId, or NoVault
  vaultIncs, userIncs,  \* times t was added to the vault's TVL and to the user's balance
  totalIncs,    \* times t was added to the address's creditedTotal
  sessions,     \* pending_deposits rows of this address, by createdAt
  activeVault, lastCredited,  \* the address row's activeVaultId and lastCreditedVaultId
  lastDeposit,  \* lastDeposit[a]: vault of the user's latest deposit of asset a
  active,       \* vaults whose status is "active"
  pc,           \* pc[c]: the call caller c awaits
  mode,         \* mode[c]: "scan" or "retry", the loop c is in
  todo,         \* todo[c]: transfers its scan returned and it has not handled
  queue,        \* queue[c]: snapshots of the rows its retry loaded
  job,          \* job[c]: its local variables
  qr,           \* qr[q]: progress of QR request q
  qrVault,      \* qrVault[q]: the vault it asks for
  budget        \* faults, crashes and toggles used so far

ledger   == <<row, attempts, rowVault, deposit, vaultIncs, userIncs, totalIncs>>
address  == <<activeVault, lastCredited, lastDeposit, active>>
caller   == <<pc, mode, todo, queue, job>>
frontend == <<qr, qrVault>>
vars == <<ledger, sessions, address, caller, frontend, budget>>

Assets == {VaultAsset[v] : v \in Vaults} \union {Asset[t] : t \in Transfers}

NoJob == [t |-> NoTransfer, attempts |-> 0, active |-> NoVault, last |-> NoVault,
          vault |-> NoVault, session |-> 0]

Init ==
  /\ row       = [t \in Transfers |-> "none"]
  /\ attempts  = [t \in Transfers |-> 0]
  /\ rowVault  = [t \in Transfers |-> NoVault]
  /\ deposit   = [t \in Transfers |-> NoVault]
  /\ vaultIncs = [t \in Transfers |-> 0]
  /\ userIncs  = [t \in Transfers |-> 0]
  /\ totalIncs = [t \in Transfers |-> 0]
  /\ sessions  = << >>
  /\ activeVault = NoVault
  /\ lastCredited = NoVault
  /\ lastDeposit = [a \in Assets |-> NoVault]
  /\ active = Vaults
  /\ pc    = [c \in Callers |-> "idle"]
  /\ mode  = [c \in Callers |-> "scan"]
  /\ todo  = [c \in Callers |-> {}]
  /\ queue = [c \in Callers |-> {}]
  /\ job   = [c \in Callers |-> NoJob]
  /\ qr      = [q \in QrCalls |-> "start"]
  /\ qrVault = [q \in QrCalls |-> NoVault]
  /\ budget = [faults |-> 0, crashes |-> 0, toggles |-> 0]

-----------------------------------------------------------------------------
(* Control of one caller *)

Goto(c, from, to) == pc[c] = from /\ pc' = [pc EXCEPT ![c] = to]

(* Keep the job, change nothing but the program counter. *)
Stay == UNCHANGED <<mode, todo, queue, job>>

(* Leave finalizeCredit: back to the loop that called it. *)
Return(c) ==
  /\ pc'  = [pc EXCEPT ![c] = mode[c]]
  /\ job' = [job EXCEPT ![c] = NoJob]
  /\ UNCHANGED <<mode, todo, queue>>

(* A tick of a scanner, or one direct call: some transfers were read from  *)
(* the chain.  Re-reading transfers already handled is normal.             *)
StartTick(c) ==
  \E seen \in SUBSET Transfers :
    /\ c \in Directs => Cardinality(seen) = 1
    /\ Goto(c, "idle", "scan")
    /\ mode' = [mode EXCEPT ![c] = "scan"]
    /\ todo' = [todo EXCEPT ![c] = seen]
    /\ UNCHANGED <<ledger, sessions, address, queue, job, frontend, budget>>

(* applyCredit: findAddressByOnChain reads the address row. *)
ApplyCredit(c) ==
  \E t \in todo[c] :
    /\ Goto(c, "scan", "claim")
    /\ todo' = [todo EXCEPT ![c] = @ \ {t}]
    /\ job' = [job EXCEPT ![c] =
                [NoJob EXCEPT !.t = t, !.active = activeVault, !.last = lastCredited]]
    /\ UNCHANGED <<ledger, sessions, address, mode, queue, frontend, budget>>

(* The insert under the unique (network, txHash, logIndex) index. *)
ClaimRow(c) ==
  LET t == job[c].t IN
    /\ Goto(c, "claim", "intent")
    /\ row[t] = "none"
    /\ row' = [row EXCEPT ![t] = "detected"]
    /\ Stay
    /\ UNCHANGED <<attempts, rowVault, deposit, vaultIncs, userIncs, totalIncs,
                   sessions, address, frontend, budget>>

(* E11000: somebody else owns the transfer. *)
Duplicate(c) ==
  /\ pc[c] = "claim"
  /\ row[job[c].t] # "none"
  /\ Return(c)
  /\ UNCHANGED <<ledger, sessions, address, frontend, budget>>

(* retryPendingCredits loads the rows that are still "detected", attempts  *)
(* included; it works on these snapshots from here on.                     *)
LoadRetry(c) ==
  /\ c \in Scanners
  /\ todo[c] = {}
  /\ Goto(c, "scan", "retry")
  /\ mode' = [mode EXCEPT ![c] = "retry"]
  /\ queue' = [queue EXCEPT ![c] =
                {[t |-> t, attempts |-> attempts[t]] :
                   t \in {u \in Transfers : row[u] = "detected"}}]
  /\ UNCHANGED <<ledger, sessions, address, todo, job, frontend, budget>>

(* finalizeCredit without an address document reads it by id. *)
RetryNext(c) ==
  \E s \in queue[c] :
    /\ Goto(c, "retry", "intent")
    /\ queue' = [queue EXCEPT ![c] = @ \ {s}]
    /\ job' = [job EXCEPT ![c] =
                [NoJob EXCEPT !.t = s.t, !.attempts = s.attempts,
                              !.active = activeVault, !.last = lastCredited]]
    /\ UNCHANGED <<ledger, sessions, address, mode, todo, frontend, budget>>

EndTick(c) ==
  /\ \/ Goto(c, "retry", "idle") /\ queue[c] = {}
     \/ Goto(c, "scan", "idle") /\ todo[c] = {} /\ c \in Directs
  /\ mode' = [mode EXCEPT ![c] = "scan"]
  /\ UNCHANGED <<ledger, sessions, address, todo, queue, job, frontend, budget>>

-----------------------------------------------------------------------------
(* resolveVaultForCredit *)

PendingSessions == {i \in DOMAIN sessions : sessions[i].status = "pending"}

(* The user's most recent open session for this address, or none (0). *)
ReadIntent(c) ==
  /\ Goto(c, "intent", "vault")
  /\ \/ PendingSessions = {} /\ job' = [job EXCEPT ![c].session = 0]
     \/ \E i \in PendingSessions :
          /\ \A j \in PendingSessions : j <= i
          /\ job' = [job EXCEPT ![c].session = i]
  /\ UNCHANGED <<ledger, sessions, address, mode, todo, queue, frontend, budget>>

Usable(a) == {v \in active : VaultAsset[v] = a}

(* The vault and the session a credit is booked to.  The vault of an open  *)
(* session needs no active status; the later candidates do.  The session   *)
(* is kept when the address's active vault is used instead of its own.     *)
Resolutions(j) ==
  LET a == Asset[j.t]
      candidates == << [vault |-> j.active, session |-> j.session],
                       [vault |-> j.last, session |-> 0],
                       [vault |-> lastDeposit[a], session |-> 0] >>
      usable == {k \in 1..3 : candidates[k].vault \in Usable(a)}
  IN IF j.session # 0 /\ VaultAsset[sessions[j.session].vault] = a
       THEN {[vault |-> sessions[j.session].vault, session |-> j.session]}
     ELSE IF usable # {}
       THEN {candidates[k] : k \in {m \in usable : \A n \in usable : m <= n}}
     ELSE {[vault |-> v, session |-> 0] : v \in Usable(a)}

(* Variant: the resolved vault is not recorded. *)
ChooseVaultLost(c) ==
  /\ Goto(c, "vault", "dup")
  /\ Resolutions(job[c]) # {}
  /\ Stay
  /\ UNCHANGED <<ledger, sessions, address, frontend, budget>>

ChooseVault(c) ==
  /\ Goto(c, "vault", "dup")
  /\ \E r \in Resolutions(job[c]) :
       job' = [job EXCEPT ![c].vault = r.vault, ![c].session = r.session]
  /\ UNCHANGED <<ledger, sessions, address, mode, todo, queue, frontend, budget>>

(* "No active vault to credit into" is thrown. *)
NoVaultForAsset(c) ==
  /\ Goto(c, "vault", "catch")
  /\ Resolutions(job[c]) = {}
  /\ Stay
  /\ UNCHANGED <<ledger, sessions, address, frontend, budget>>

-----------------------------------------------------------------------------
(* applyDepositAccounting *)

(* Variant: a row that was tried before is taken for booked. *)
FindDepositByAttempts(c) ==
  /\ pc[c] = "dup"
  /\ pc' = [pc EXCEPT ![c] = IF attempts[job[c].t] > 0 THEN "flip" ELSE "create"]
  /\ Stay
  /\ UNCHANGED <<ledger, sessions, address, frontend, budget>>

(* The look-up by pendingRequestId: booked already, nothing to do. *)
FindDeposit(c) ==
  /\ pc[c] = "dup"
  /\ pc' = [pc EXCEPT ![c] = IF deposit[job[c].t] # NoVault THEN "flip" ELSE "create"]
  /\ Stay
  /\ UNCHANGED <<ledger, sessions, address, frontend, budget>>

(* Variant: no unique index on pendingRequestId. *)
CreateDepositNoIndex(c) ==
  LET t == job[c].t IN
    /\ Goto(c, "create", "incVault")
    /\ deposit' = [deposit EXCEPT ![t] = job[c].vault]
    /\ lastDeposit' = [lastDeposit EXCEPT ![Asset[t]] = job[c].vault]
    /\ Stay
    /\ UNCHANGED <<row, attempts, rowVault, vaultIncs, userIncs, totalIncs, sessions,
                   activeVault, lastCredited, active, frontend, budget>>

(* The insert under the unique pendingRequestId index; E11000 returns. *)
CreateDeposit(c) ==
  LET t == job[c].t IN
    /\ pc[c] = "create"
    /\ IF deposit[t] # NoVault
         THEN /\ pc' = [pc EXCEPT ![c] = "flip"]
              /\ UNCHANGED <<deposit, lastDeposit>>
         ELSE /\ pc' = [pc EXCEPT ![c] = "incVault"]
              /\ deposit' = [deposit EXCEPT ![t] = job[c].vault]
              /\ lastDeposit' = [lastDeposit EXCEPT ![Asset[t]] = job[c].vault]
    /\ Stay
    /\ UNCHANGED <<row, attempts, rowVault, vaultIncs, userIncs, totalIncs, sessions,
                   activeVault, lastCredited, active, frontend, budget>>

(* Variants: the user's half of the booking is left out, or comes first. *)
IncVaultOnly(c) ==
  /\ Goto(c, "incVault", "flip")
  /\ vaultIncs' = [vaultIncs EXCEPT ![job[c].t] = @ + 1]
  /\ Stay
  /\ UNCHANGED <<row, attempts, rowVault, deposit, userIncs, totalIncs, sessions,
                 address, frontend, budget>>

IncUserFirst(c) ==
  /\ Goto(c, "incVault", "incUser")
  /\ userIncs' = [userIncs EXCEPT ![job[c].t] = @ + 1]
  /\ Stay
  /\ UNCHANGED <<row, attempts, rowVault, deposit, vaultIncs, totalIncs, sessions,
                 address, frontend, budget>>

IncVault(c) ==
  /\ Goto(c, "incVault", "incUser")
  /\ vaultIncs' = [vaultIncs EXCEPT ![job[c].t] = @ + 1]
  /\ Stay
  /\ UNCHANGED <<row, attempts, rowVault, deposit, userIncs, totalIncs, sessions,
                 address, frontend, budget>>

(* After this the wallet links, the activity row and the e-mail follow;    *)
(* they touch no ledger state, and one that throws fails as "flip" does.   *)
IncUser(c) ==
  /\ Goto(c, "incUser", "flip")
  /\ userIncs' = [userIncs EXCEPT ![job[c].t] = @ + 1]
  /\ Stay
  /\ UNCHANGED <<row, attempts, rowVault, deposit, vaultIncs, totalIncs, sessions,
                 address, frontend, budget>>

-----------------------------------------------------------------------------
(* The rest of finalizeCredit *)

(* Variant: findByIdAndUpdate, with no status in the filter. *)
FlipCreditUnconditional(c) ==
  LET t == job[c].t IN
    /\ Goto(c, "flip", "totals")
    /\ row' = [row EXCEPT ![t] = "credited"]
    /\ rowVault' = [rowVault EXCEPT ![t] = job[c].vault]
    /\ Stay
    /\ UNCHANGED <<attempts, deposit, vaultIncs, userIncs, totalIncs, sessions,
                   address, frontend, budget>>

(* findOneAndUpdate {_id, status: "detected"} -> "credited". *)
FlipCredit(c) ==
  LET t == job[c].t IN
    /\ Goto(c, "flip", "totals")
    /\ row[t] = "detected"
    /\ row' = [row EXCEPT ![t] = "credited"]
    /\ rowVault' = [rowVault EXCEPT ![t] = job[c].vault]
    /\ Stay
    /\ UNCHANGED <<attempts, deposit, vaultIncs, userIncs, totalIncs, sessions,
                   address, frontend, budget>>

(* Not claimed: another caller finalised this credit; the totals are its. *)
AlreadyFinal(c) ==
  /\ pc[c] = "flip"
  /\ row[job[c].t] # "detected"
  /\ Return(c)
  /\ UNCHANGED <<ledger, sessions, address, frontend, budget>>

IncTotals(c) ==
  /\ pc[c] = "totals"
  /\ totalIncs' = [totalIncs EXCEPT ![job[c].t] = @ + 1]
  /\ lastCredited' = job[c].vault
  /\ IF job[c].session = 0 THEN Return(c) ELSE Goto(c, "totals", "session") /\ Stay
  /\ UNCHANGED <<row, attempts, rowVault, deposit, vaultIncs, userIncs, sessions,
                 activeVault, lastDeposit, active, frontend, budget>>

(* findOneAndUpdate {_id, userCreditedAt: null} closes the QR session. *)
ResolveSession(c) ==
  LET i == job[c].session IN
    /\ pc[c] = "session"
    /\ sessions' = IF sessions[i].by # NoTransfer THEN sessions
                   ELSE [sessions EXCEPT ![i].status = "credited", ![i].by = job[c].t]
    /\ Return(c)
    /\ UNCHANGED <<ledger, address, frontend, budget>>

(* Variant: the failure is logged and not counted. *)
CatchWriteUncounted(c) ==
  /\ pc[c] = "catch"
  /\ Return(c)
  /\ UNCHANGED <<ledger, sessions, address, frontend, budget>>

(* The catch block: attempts is computed from the caller's own snapshot,   *)
(* and giving up writes "failed" whatever the row has become meanwhile.    *)
CatchWrite(c) ==
  LET t == job[c].t
      n == job[c].attempts + 1
  IN /\ pc[c] = "catch"
     /\ attempts' = [attempts EXCEPT ![t] = n]
     /\ row' = IF n >= MaxAttempts THEN [row EXCEPT ![t] = "failed"] ELSE row
     /\ Return(c)
     /\ UNCHANGED <<rowVault, deposit, vaultIncs, userIncs, totalIncs, sessions, address,
                    frontend, budget>>

-----------------------------------------------------------------------------
(* Faults *)

InTry == {"intent", "vault", "dup", "create", "incVault", "incUser", "flip", "totals",
          "session"}

(* An awaited call inside finalizeCredit's try block throws. *)
Throw(c) ==
  /\ budget.faults < MaxFaults
  /\ pc[c] \in InTry
  /\ pc' = [pc EXCEPT ![c] = "catch"]
  /\ budget' = [budget EXCEPT !.faults = @ + 1]
  /\ Stay
  /\ UNCHANGED <<ledger, sessions, address, frontend>>

(* A call outside the try block throws: the insert, a load, or the catch   *)
(* block's own write.  The BEP-20 scanner goes on with its next log; a     *)
(* retry pass, a TRC-20 scan and the direct callers end.                   *)
ThrowOut(c) ==
  /\ budget.faults < MaxFaults
  /\ pc[c] \in {"claim", "catch", "scan", "retry"}
  /\ budget' = [budget EXCEPT !.faults = @ + 1]
  /\ job' = [job EXCEPT ![c] = NoJob]
  /\ \/ /\ mode[c] = "scan"
        /\ pc' = [pc EXCEPT ![c] = "scan"]
        /\ UNCHANGED <<mode, todo, queue>>
     \/ /\ pc' = [pc EXCEPT ![c] = "idle"]
        /\ mode' = [mode EXCEPT ![c] = "scan"]
        /\ todo' = [todo EXCEPT ![c] = {}]
        /\ queue' = [queue EXCEPT ![c] = {}]
  /\ UNCHANGED <<ledger, sessions, address, frontend>>

(* The process restarts: everything in memory is gone, MongoDB is not. *)
Crash ==
  /\ budget.crashes < MaxCrashes
  /\ budget' = [budget EXCEPT !.crashes = @ + 1]
  /\ pc'    = [c \in Callers |-> "idle"]
  /\ mode'  = [c \in Callers |-> "scan"]
  /\ todo'  = [c \in Callers |-> {}]
  /\ queue' = [c \in Callers |-> {}]
  /\ job'   = [c \in Callers |-> NoJob]
  /\ qr' = [q \in QrCalls |-> IF qr[q] = "start" THEN "start" ELSE "done"]
  /\ UNCHANGED <<ledger, sessions, address, qrVault>>

-----------------------------------------------------------------------------
(* getDepositQR with persistent addresses, and the admin's vault switch *)

QrSetActiveVault(q) ==
  \E v \in active :
    /\ qr[q] = "start"
    /\ qr' = [qr EXCEPT ![q] = "expire"]
    /\ qrVault' = [qrVault EXCEPT ![q] = v]
    /\ activeVault' = v
    /\ UNCHANGED <<ledger, sessions, lastCredited, lastDeposit, active, caller, budget>>

QrExpireOthers(q) ==
  /\ qr[q] = "expire"
  /\ qr' = [qr EXCEPT ![q] = "open"]
  /\ sessions' = [i \in DOMAIN sessions |->
                   IF i \in PendingSessions
                     THEN [sessions[i] EXCEPT !.status = "expired"] ELSE sessions[i]]
  /\ UNCHANGED <<ledger, address, caller, qrVault, budget>>

QrOpenSession(q) ==
  /\ qr[q] = "open"
  /\ qr' = [qr EXCEPT ![q] = "done"]
  /\ sessions' = Append(sessions,
                   [vault |-> qrVault[q], status |-> "pending", by |-> NoTransfer])
  /\ UNCHANGED <<ledger, address, caller, qrVault, budget>>

(* updateVault: an admin changes a vault's status. *)
ToggleVault(v) ==
  /\ budget.toggles < MaxToggles
  /\ budget' = [budget EXCEPT !.toggles = @ + 1]
  /\ active' = IF v \in active THEN active \ {v} ELSE active \union {v}
  /\ UNCHANGED <<ledger, sessions, activeVault, lastCredited, lastDeposit, caller, frontend>>

-----------------------------------------------------------------------------
(* What a caller does by itself once its calls return *)
Progress(c) ==
  \/ StartTick(c) \/ ApplyCredit(c) \/ ClaimRow(c) \/ Duplicate(c)
  \/ LoadRetry(c) \/ RetryNext(c) \/ EndTick(c)
  \/ ReadIntent(c) \/ ChooseVault(c) \/ NoVaultForAsset(c)
  \/ FindDeposit(c) \/ CreateDeposit(c) \/ IncVault(c) \/ IncUser(c)
  \/ FlipCredit(c) \/ AlreadyFinal(c) \/ IncTotals(c) \/ ResolveSession(c)
  \/ CatchWrite(c)

Next ==
  \/ \E c \in Callers : Progress(c) \/ Throw(c) \/ ThrowOut(c)
  \/ \E q \in QrCalls : QrSetActiveVault(q) \/ QrExpireOthers(q) \/ QrOpenSession(q)
  \/ \E v \in Vaults : ToggleVault(v)
  \/ Crash

Spec == Init /\ [][Next]_vars

(* The scanners' timers keep firing and an awaited call returns or throws; *)
(* nobody owes the system a QR request, a fault or a restart.              *)
Fairness == \A c \in Scanners : WF_vars(Progress(c))

FairSpec == Spec /\ Fairness

-----------------------------------------------------------------------------
(* Properties *)

Statuses == {"none", "detected", "credited", "failed"}
AfterChoice == {"dup", "create", "incVault", "incUser", "flip", "totals", "session"}

Jobs == [t : Transfers \union {NoTransfer}, attempts : Nat,
         active : Vaults \union {NoVault}, last : Vaults \union {NoVault},
         vault : Vaults \union {NoVault}, session : Nat]

Sessions == [vault : Vaults, status : {"pending", "expired", "credited"},
             by : Transfers \union {NoTransfer}]

(* A caller holds a transfer exactly while it works on one, a vault from   *)
(* the moment it chose one, and a session that exists.                     *)
JobOK(c) ==
  /\ job[c].t \in Transfers <=> pc[c] \in InTry \union {"claim", "catch"}
  /\ pc[c] \in AfterChoice => job[c].vault \in Vaults
  /\ job[c].session <= Len(sessions)
  /\ pc[c] = "session" => job[c].session # 0

RowsOK ==
  /\ row \in [Transfers -> Statuses]
  /\ attempts \in [Transfers -> Nat]
  /\ rowVault \in [Transfers -> Vaults \union {NoVault}]
  /\ deposit \in [Transfers -> Vaults \union {NoVault}]
  /\ vaultIncs \in [Transfers -> Nat]
  /\ userIncs \in [Transfers -> Nat]
  /\ totalIncs \in [Transfers -> Nat]

AddressOK ==
  /\ activeVault \in Vaults \union {NoVault}
  /\ lastCredited \in Vaults \union {NoVault}
  /\ lastDeposit \in [Assets -> Vaults \union {NoVault}]
  /\ active \in SUBSET Vaults

CallersOK ==
  /\ pc \in [Callers -> {"idle", "scan", "retry", "claim", "catch"} \union InTry]
  /\ mode \in [Callers -> {"scan", "retry"}]
  /\ todo \in [Callers -> SUBSET Transfers]
  /\ queue \in [Callers -> SUBSET [t : Transfers, attempts : Nat]]
  /\ job \in [Callers -> Jobs]

FrontendOK ==
  /\ sessions \in Seq(Sessions)
  /\ qr \in [QrCalls -> {"start", "expire", "open", "done"}]
  /\ qrVault \in [QrCalls -> Vaults \union {NoVault}]
  /\ \A q \in QrCalls : qr[q] \in {"expire", "open"} => qrVault[q] \in Vaults
  /\ budget \in [faults : Nat, crashes : Nat, toggles : Nat]

(* The type invariant of the rows, the callers and the front end. *)
TypeOK ==
  RowsOK /\ AddressOK /\ CallersOK /\ FrontendOK /\ \A c \in Callers : JobOK(c)

(* Money: whatever the scanners, the retries, the faults and the restarts  *)
(* do, the amount of a transfer reaches the vault's TVL and the user's     *)
(* balance at most once each (the unique index on pendingRequestId).       *)
BookedOnce == \A t \in Transfers : vaultIncs[t] <= 1 /\ userIncs[t] <= 1

(* creditedTotal, the ceiling of what the sweeper may move, counts a       *)
(* transfer at most once although two callers may finalise it at the same  *)
(* time (the conditional detected -> credited update).                     *)
CountedOnce == \A t \in Transfers : totalIncs[t] <= 1

(* A credit is marked final, and counted as sweepable, only once the       *)
(* user's deposits row for it exists.                                      *)
FinalHasDeposit ==
  \A t \in Transfers :
    row[t] = "credited" \/ totalIncs[t] > 0 => deposit[t] # NoVault

(* The credit path implements the ledger it promises. *)
Ledger == INSTANCE CreditLedger WITH
  claimed <- {t \in Transfers : row[t] # "none"},
  tvl <- vaultIncs,
  paid <- userIncs

ImplementsLedger == Ledger!Spec

Settled(t) == \A c \in Callers : job[c].t # t

(* The lifecycle of depositCredit.model.ts: "credited" means the user's    *)
(* balance and the vault's TVL were updated, both of them, when nobody     *)
(* works on the transfer any more.  (If no call failed and no restart came *)
(* between: the deposits row is written first, and a retry that finds it   *)
(* takes the transfer for booked.)                                         *)
CreditedMeansBooked ==
  budget.faults = 0 /\ budget.crashes = 0 =>
    \A t \in Transfers :
      row[t] = "credited" /\ Settled(t) => vaultIncs[t] = 1 /\ userIncs[t] = 1

(* A claimed transfer does not stay in limbo: the retry passes book it or  *)
(* give it up for manual review.                                           *)
EventuallySettled ==
  \A t \in Transfers : row[t] = "detected" ~> row[t] \in {"credited", "failed"}

-----------------------------------------------------------------------------
(* Promises the code does not keep; the README says how each is broken *)

(* The credit row and the deposit it points to name the same vault: "both  *)
(* layers must agree before the credit is marked final" (applyCredit).     *)
LayersAgree ==
  \A t \in Transfers : row[t] = "credited" => rowVault[t] = deposit[t]

(* A credit once final stays final: a slower caller working from an older  *)
(* snapshot of the row must not take it back.                              *)
CreditIsFinal ==
  [][\A t \in Transfers : row[t] = "credited" => row'[t] = "credited"]_vars
=============================================================================
