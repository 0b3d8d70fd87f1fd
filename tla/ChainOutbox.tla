----------------------------- MODULE ChainOutbox -----------------------------
(***************************************************************************)
(* The durable queue of on-chain attestations: enqueueAttest and the       *)
(* worker of chainSync.worker.ts, the nightly comparison of                *)
(* chainReconcile.service.ts, and the admin's retry of failed jobs.        *)
(* Every user has a wallet; a position is counted in deposits of one unit. *)
(*                                                                         *)
(* Jobs are the rows of the chain_outbox collection, by a number.  A row   *)
(* that is "done" is never read again: it is dropped.  Names that other    *)
(* modules have too carry the prefix, for modules that extend both.        *)
(***************************************************************************)
EXTENDS Integers, Sequences, FiniteSets, Functions

CONSTANTS
  Users,
  Callers,        \* deposits, withdrawals and wallet links in progress
  MaxAttempts,    \* maxAttempts of a job, 8 in the code
  Batch,          \* BATCH, 5 in the code
  MaxPrincipal,   \* bound: deposits of a user
  MaxChanges,     \* bound: deposits and withdrawals
  MaxJobs,        \* bound: rows at a time
  MaxFaults,      \* bound: sends, enqueues and reads of a position that fail
  MaxCrashes      \* bound: restarts of the process

ASSUME OutboxAssumption ==
  /\ Users # {} /\ MaxAttempts \in Nat \ {0} /\ Batch \in Nat \ {0}
  /\ \A n \in {MaxPrincipal, MaxChanges, MaxJobs, MaxFaults, MaxCrashes} : n \in Nat
ASSUME CallersAssumption == "reconcile" \notin Callers

VARIABLES
  principal,      \* principal[u]: the active deposits of u
  chain,          \* chain[u]: what the registry attests
  job,            \* rows: [user, principal, status, attempts]
  enqueue,        \* enqueue[c]: the enqueueAttest call c is making
  worker,         \* [pc, job, principal, attempts, left]: the copy it works on
  todo,           \* [users, principal]: what is left of the nightly comparison
  outboxBudget

outboxVars == <<principal, chain, job, enqueue, worker, todo, outboxBudget>>

Enqueuers == Callers \union {"reconcile"}
NoEnqueue == [pc |-> "idle", user |-> CHOOSE u \in Users : TRUE, principal |-> 0]
Idle == [pc |-> "idle", job |-> 0, principal |-> 0, attempts |-> 0, left |-> 0]
NoJob == [user |-> CHOOSE u \in Users : TRUE, principal |-> 0,
          status |-> "pending", attempts |-> 0]
NoRows == [users |-> {}, principal |-> [u \in Users |-> 0]]

OutboxInit ==
  /\ principal = [u \in Users |-> 0]
  /\ chain = [u \in Users |-> 0]
  /\ job = [j \in {} |-> NoJob]
  /\ enqueue = [c \in Enqueuers |-> NoEnqueue]
  /\ worker = Idle
  /\ todo = NoRows
  /\ outboxBudget = [changes |-> 0, faults |-> 0, crashes |-> 0]

Charge(k, bound) == outboxBudget[k] < bound /\ outboxBudget' = [outboxBudget EXCEPT ![k] = @ + 1]

Live(j) == job[j].status \in {"pending", "processing"}
LiveJobs(u) == {j \in DOMAIN job : job[j].user = u /\ Live(j)}

(* The collection with a new pending row. *)
Inserted(u, n) ==
  LET new == CHOOSE j \in 1..MaxJobs : j \notin DOMAIN job
  IN [j \in DOMAIN job \union {new} |->
        IF j = new THEN [NoJob EXCEPT !.user = u, !.principal = n] ELSE job[j]]

-----------------------------------------------------------------------------
(* enqueueAttest *)

(* A deposit is booked or redeemed; its caller starts an enqueue and does  *)
(* not wait for it.                                                        *)
ChangePosition(c, u, delta) ==
  /\ enqueue[c].pc = "idle"
  /\ principal[u] + delta \in 0..MaxPrincipal
  /\ Charge("changes", MaxChanges)
  /\ principal' = [principal EXCEPT ![u] = @ + delta]
  /\ enqueue' = [enqueue EXCEPT ![c] = [pc |-> "compute", user |-> u, principal |-> 0]]
  /\ UNCHANGED <<chain, job, worker, todo>>

ComputePosition(c) ==
  /\ enqueue[c].pc = "compute"
  /\ enqueue' = [enqueue EXCEPT ![c].pc = "upsert", ![c].principal = principal[enqueue[c].user]]
  /\ UNCHANGED <<principal, chain, job, worker, todo, outboxBudget>>

(* A mistake to find: every enqueue makes a row of its own. *)
UpsertAlways(c) ==
  LET u == enqueue[c].user IN
    /\ enqueue[c].pc = "upsert" /\ Cardinality(DOMAIN job) < MaxJobs
    /\ job' = Inserted(u, enqueue[c].principal)
    /\ enqueue' = [enqueue EXCEPT ![c] = NoEnqueue]
    /\ UNCHANGED <<principal, chain, worker, todo, outboxBudget>>

(* The live job of the wallet takes the snapshot and becomes pending, its  *)
(* attempts kept; or there is none and a row is inserted.                  *)
Upsert(c) ==
  LET u == enqueue[c].user IN
    /\ enqueue[c].pc = "upsert"
    /\ \/ /\ LiveJobs(u) = {} /\ Cardinality(DOMAIN job) < MaxJobs
          /\ job' = Inserted(u, enqueue[c].principal)
       \/ \E j \in LiveJobs(u) :
            job' = [job EXCEPT ![j].principal = enqueue[c].principal, ![j].status = "pending"]
    /\ enqueue' = [enqueue EXCEPT ![c] = NoEnqueue]
    /\ UNCHANGED <<principal, chain, worker, todo, outboxBudget>>

(* An error of enqueueAttest is logged and swallowed. *)
EnqueueThrows(c) ==
  /\ enqueue[c].pc \in {"compute", "upsert"}
  /\ Charge("faults", MaxFaults)
  /\ enqueue' = [enqueue EXCEPT ![c] = NoEnqueue]
  /\ UNCHANGED <<principal, chain, job, worker, todo>>

-----------------------------------------------------------------------------
(* The worker *)

(* A mistake to find: jobs a crash left "processing" are not taken back. *)
StartTickOnly ==
  /\ worker.pc = "idle"
  /\ worker' = [Idle EXCEPT !.pc = "claim", !.left = Batch]
  /\ UNCHANGED <<principal, chain, job, enqueue, todo, outboxBudget>>

(* One loop ticks, so a job "processing" at this point is an orphan; it is *)
(* taken back once it is five minutes old.                                 *)
StartTick ==
  /\ worker.pc = "idle"
  /\ job' = [j \in DOMAIN job |->
               IF job[j].status = "processing" THEN [job[j] EXCEPT !.status = "pending"]
               ELSE job[j]]
  /\ worker' = [Idle EXCEPT !.pc = "claim", !.left = Batch]
  /\ UNCHANGED <<principal, chain, enqueue, todo, outboxBudget>>

(* Any pending job may be the one that is due first. *)
ClaimJob(j) ==
  /\ worker.pc = "claim" /\ worker.left > 0
  /\ job[j].status = "pending"
  /\ job' = [job EXCEPT ![j].status = "processing"]
  /\ worker' = [pc |-> "send", job |-> j, principal |-> job[j].principal,
                attempts |-> job[j].attempts, left |-> worker.left - 1]
  /\ UNCHANGED <<principal, chain, enqueue, todo, outboxBudget>>

EndTick ==
  /\ worker.pc = "claim"
  /\ worker.left = 0 \/ \A j \in DOMAIN job : job[j].status # "pending"
  /\ worker' = Idle
  /\ UNCHANGED <<principal, chain, job, enqueue, todo, outboxBudget>>

(* attestOnChain sends the snapshot the worker claimed, and waits. *)
Attest ==
  /\ worker.pc = "send"
  /\ chain' = [chain EXCEPT ![job[worker.job].user] = worker.principal]
  /\ worker' = [worker EXCEPT !.pc = "markDone"]
  /\ UNCHANGED <<principal, job, enqueue, todo, outboxBudget>>

(* It throws: nothing was sent, or the transaction is out all the same. *)
AttestThrows ==
  /\ worker.pc = "send"
  /\ Charge("faults", MaxFaults)
  /\ \/ UNCHANGED chain
     \/ chain' = [chain EXCEPT ![job[worker.job].user] = worker.principal]
  /\ worker' = [worker EXCEPT !.pc = "markFailed"]
  /\ UNCHANGED <<principal, job, enqueue, todo>>

(* Both marks write the row whatever became of it meanwhile. *)
MarkDone ==
  /\ worker.pc = "markDone"
  /\ job' = Restrict(job, DOMAIN job \ {worker.job})
  /\ worker' = [Idle EXCEPT !.pc = "claim", !.left = worker.left]
  /\ UNCHANGED <<principal, chain, enqueue, todo, outboxBudget>>

MarkFailed ==
  /\ worker.pc = "markFailed"
  /\ job' = [job EXCEPT
       ![worker.job].status = IF worker.attempts + 1 >= MaxAttempts THEN "failed" ELSE "pending",
       ![worker.job].attempts = worker.attempts + 1]
  /\ worker' = [Idle EXCEPT !.pc = "claim", !.left = worker.left]
  /\ UNCHANGED <<principal, chain, enqueue, todo, outboxBudget>>

-----------------------------------------------------------------------------
(* reconcileChain *)

StartReconcile ==
  /\ todo.users = {} /\ enqueue["reconcile"].pc = "idle"
  /\ \E u \in Users : principal[u] > 0
  /\ todo' = [users |-> {u \in Users : principal[u] > 0}, principal |-> principal]
  /\ UNCHANGED <<principal, chain, job, enqueue, worker, outboxBudget>>

(* A mistake to find: only wallets with an attestation are compared. *)
ReconcileAttested(u) ==
  /\ u \in todo.users /\ enqueue["reconcile"].pc = "idle"
  /\ todo' = [todo EXCEPT !.users = @ \ {u},
                          !.principal = IF todo.users = {u} THEN NoRows.principal ELSE @]
  /\ enqueue' = IF chain[u] \in {0, todo.principal[u]} THEN enqueue
                ELSE [enqueue EXCEPT !["reconcile"] =
                        [pc |-> "compute", user |-> u, principal |-> 0]]
  /\ UNCHANGED <<principal, chain, job, worker, outboxBudget>>

(* The rows were read at the start, the chain is read now. *)
ReconcileUser(u) ==
  /\ u \in todo.users /\ enqueue["reconcile"].pc = "idle"
  /\ todo' = [todo EXCEPT !.users = @ \ {u},
                          !.principal = IF todo.users = {u} THEN NoRows.principal ELSE @]
  /\ enqueue' = IF chain[u] = todo.principal[u] THEN enqueue
                ELSE [enqueue EXCEPT !["reconcile"] =
                        [pc |-> "compute", user |-> u, principal |-> 0]]
  /\ UNCHANGED <<principal, chain, job, worker, outboxBudget>>

(* A position that cannot be read counts as zero. *)
ReconcileUnread(u) ==
  /\ u \in todo.users /\ enqueue["reconcile"].pc = "idle"
  /\ Charge("faults", MaxFaults)
  /\ todo' = [todo EXCEPT !.users = @ \ {u},
                          !.principal = IF todo.users = {u} THEN NoRows.principal ELSE @]
  /\ enqueue' = [enqueue EXCEPT !["reconcile"] = [pc |-> "compute", user |-> u, principal |-> 0]]
  /\ UNCHANGED <<principal, chain, job, worker>>

-----------------------------------------------------------------------------
(* The admin's retry, and restarts *)

Failed == {j \in DOMAIN job : job[j].status = "failed"}

(* updateMany stops at the first row that would be a second live job of    *)
(* its wallet (E11000); until then it has taken some of the others.        *)
Requeueable(S) ==
  /\ S \subseteq Failed
  /\ \A j \in S : LiveJobs(job[j].user) = {} /\ \A k \in S \ {j} : job[k].user # job[j].user

RetryFailed ==
  \E S \in SUBSET Failed :
    /\ S # {} /\ Requeueable(S)
    /\ S # Failed => ~Requeueable(Failed)
    /\ job' = [j \in DOMAIN job |->
                 IF j \in S THEN [job[j] EXCEPT !.status = "pending", !.attempts = 0]
                 ELSE job[j]]
    /\ UNCHANGED <<principal, chain, enqueue, worker, todo, outboxBudget>>

OutboxCrash ==
  /\ Charge("crashes", MaxCrashes)
  /\ enqueue' = [c \in Enqueuers |-> NoEnqueue]
  /\ worker' = Idle
  /\ todo' = NoRows
  /\ UNCHANGED <<principal, chain, job>>

-----------------------------------------------------------------------------
Enqueue(c) == ComputePosition(c) \/ Upsert(c)

Worker ==
  \/ StartTick \/ EndTick \/ Attest \/ MarkDone \/ MarkFailed
  \/ \E j \in DOMAIN job : ClaimJob(j)

Reconcile == StartReconcile \/ \E u \in Users : ReconcileUser(u)

OutboxNext ==
  \/ \E c \in Callers, u \in Users, delta \in {-1, 1} : ChangePosition(c, u, delta)
  \/ \E c \in Enqueuers : Enqueue(c) \/ EnqueueThrows(c)
  \/ Worker \/ AttestThrows
  \/ Reconcile \/ \E u \in Users : ReconcileUnread(u)
  \/ RetryFailed \/ OutboxCrash

OutboxSpec == OutboxInit /\ [][OutboxNext]_outboxVars

(* The worker's loop rearms itself, a started enqueue goes on, and the     *)
(* comparison runs every night.                                            *)
OutboxFairness ==
  /\ WF_outboxVars(Worker)
  /\ \A c \in Enqueuers : WF_outboxVars(Enqueue(c))
  /\ WF_outboxVars(Reconcile)

OutboxFairSpec == OutboxSpec /\ OutboxFairness

-----------------------------------------------------------------------------
(* Properties *)

(* The type invariant, with the unique index: one live job per wallet. *)
OutboxTypeOK ==
  /\ principal \in [Users -> 0..MaxPrincipal] /\ chain \in [Users -> 0..MaxPrincipal]
  /\ DOMAIN job \subseteq 1..MaxJobs
  /\ \A j \in DOMAIN job :
       job[j] \in [user : Users, principal : 0..MaxPrincipal,
                  status : {"pending", "processing", "failed"}, attempts : 0..MaxAttempts]
  /\ \A u \in Users : Cardinality(LiveJobs(u)) <= 1
  /\ enqueue \in [Enqueuers -> [pc : {"idle", "compute", "upsert"}, user : Users,
                                principal : 0..MaxPrincipal]]
  /\ worker \in [pc : {"idle", "claim", "send", "markDone", "markFailed"},
                 job : {0} \union DOMAIN job, principal : 0..MaxPrincipal,
                 attempts : 0..MaxAttempts, left : 0..Batch]
  /\ todo \in [users : SUBSET Users, principal : [Users -> 0..MaxPrincipal]]

(* Whatever was lost, overwritten or given up, the registry comes to agree *)
(* with the positions users hold, and stays so once they no longer change. *)
HoldersCatchUp == <>[](\A u \in Users : principal[u] > 0 => chain[u] = principal[u])

(* No job stays in the queue for ever, across crashes and failures. *)
QueueDrains == \A u \in Users : []<>(LiveJobs(u) = {})

(* What is left of DoneIsAttested below: a job leaves the queue as done    *)
(* only when the registry attests what its row carries, unless an enqueue  *)
(* refreshed the row (and made it pending again) while it was being sent.  *)
DoneUnlessRefreshed ==
  [][\A j \in DOMAIN job :
       j \notin DOMAIN job' /\ job[j].status = "processing"
         => chain'[job[j].user] = job[j].principal]_outboxVars

-----------------------------------------------------------------------------
(* Promises the code does not keep; the README says how each is broken *)

(* "The worker picks it up even if a previous attempt had failed": a job   *)
(* leaves the queue as done only when the registry attests what the row    *)
(* carries.                                                                *)
DoneIsAttested ==
  [][\A j \in DOMAIN job :
       j \notin DOMAIN job' => chain'[job[j].user] = job[j].principal]_outboxVars

(* "Retry all failed outbox jobs": none stays failed. *)
RetryRequeuesAll ==
  [][RetryFailed => \A j \in DOMAIN job : job'[j].status # "failed"]_outboxVars

(* "A safety net that catches anything the live attest path missed":       *)
(* whatever was lost, overwritten or given up, the registry comes to agree *)
(* with the positions and stays so once they no longer change.             *)
ChainCatchesUp == <>[](\A u \in Users : chain[u] = principal[u])
=============================================================================
