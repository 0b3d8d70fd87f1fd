------------------------- MODULE DepositCreditProofs -------------------------
(***************************************************************************)
(* Proofs about DepositCredit, for every set of transfers, callers and     *)
(* vaults, and without the bounds TLC needs.                               *)
(***************************************************************************)
EXTENDS DepositCredit, TLAPS

(* The order vaults are tried in always ends at a vault that exists, and   *)
(* a session that is kept is the one that was read.                        *)
LEMMA ResolutionsOK ==
  ASSUME TypeOK, NEW c \in Callers, pc[c] = "vault",
         NEW r \in Resolutions(job[c])
  PROVE  r.vault \in Vaults /\ r.session \in Nat /\ r.session <= Len(sessions)
<1> DEFINE j == job[c]
           a == Asset[j.t]
           candidates == << [vault |-> j.active, session |-> j.session],
                            [vault |-> j.last, session |-> 0],
                            [vault |-> lastDeposit[a], session |-> 0] >>
<1>1. /\ j \in Jobs /\ j.session <= Len(sessions) /\ Len(sessions) \in Nat
      /\ Usable(a) \subseteq Vaults
  BY DEF TypeOK, AddressOK, FrontendOK, CallersOK, JobOK, Usable
<1>2. CASE r = [vault |-> sessions[j.session].vault, session |-> j.session] /\ j.session # 0
  <2>1. sessions[j.session] \in Sessions
    BY <1>1, <1>2 DEF TypeOK, FrontendOK, Jobs
  <2> QED BY <1>1, <1>2, <2>1 DEF Jobs, Sessions
<1>3. CASE \E k \in 1..3 : r = candidates[k] /\ candidates[k].vault \in Usable(a)
  BY <1>1, <1>3 DEF Jobs
<1>4. CASE \E v \in Usable(a) : r = [vault |-> v, session |-> 0]
  BY <1>1, <1>4
<1> QED BY <1>2, <1>3, <1>4 DEF Resolutions

LEMMA TypeInit == Init => TypeOK
BY NamesAssumption DEF Init, TypeOK, RowsOK, AddressOK, CallersOK, FrontendOK, Sessions, JobOK, Jobs, NoJob, InTry, AfterChoice, Statuses, Assets

(* What the type invariant says of the caller about to move. *)
LEMMA CallerFacts ==
  ASSUME TypeOK, NEW c \in Callers
  PROVE  /\ job[c] \in Jobs /\ NoJob \in Jobs
         /\ NoJob.t \notin Transfers /\ NoJob.session = 0
         /\ Len(sessions) \in Nat
         /\ pc[c] \in InTry \union {"claim", "catch"} <=> job[c].t \in Transfers
         /\ pc[c] \in AfterChoice => job[c].vault \in Vaults
<1>1. job[c] \in Jobs BY DEF TypeOK, CallersOK
<1>2. NoJob \in Jobs /\ NoJob.t \notin Transfers /\ NoJob.session = 0
  BY NamesAssumption DEF Jobs, NoJob
<1>3. Len(sessions) \in Nat BY DEF TypeOK, FrontendOK
<1>4. JobOK(c) BY DEF TypeOK
<1> QED BY <1>1, <1>2, <1>3, <1>4 DEF JobOK

(* Leaving finalizeCredit keeps the callers well formed. *)
LEMMA ReturnOK ==
  ASSUME TypeOK, NEW c \in Callers, Return(c), Len(sessions') = Len(sessions)
  PROVE  CallersOK' /\ \A d \in Callers : JobOK(d)'
<1>0. CallersOK /\ \A d \in Callers : JobOK(d) BY DEF TypeOK
<1>1. mode[c] \in {"scan", "retry"} BY <1>0 DEF CallersOK
<1>2. CallersOK' BY <1>0, <1>1, CallerFacts DEF CallersOK, Return
<1>3. ASSUME NEW d \in Callers PROVE JobOK(d)'
  <2>1. CASE d = c
    <3>1. pc'[c] = mode[c] /\ job'[c] = NoJob BY <1>0 DEF CallersOK, Return
    <3> QED BY <1>1, <2>1, <3>1, CallerFacts DEF JobOK, InTry, AfterChoice
  <2>2. CASE d # c
    <3>1. pc'[d] = pc[d] /\ job'[d] = job[d] BY <1>0, <2>2 DEF CallersOK, Return
    <3> QED BY <1>0, <3>1 DEF JobOK
  <2> QED BY <2>1, <2>2
<1> QED BY <1>2, <1>3

(* So does going on to another await with the same local variables, when   *)
(* the locals that the next await relies on are there.                     *)
LEMMA StayOK ==
  ASSUME TypeOK, NEW c \in Callers, NEW to \in InTry \union {"catch"},
         pc[c] \in InTry \union {"claim", "catch"},
         pc' = [pc EXCEPT ![c] = to], Stay, Len(sessions') = Len(sessions),
         to \in AfterChoice => pc[c] \in AfterChoice,
         to = "session" => job[c].session # 0
  PROVE  CallersOK' /\ \A d \in Callers : JobOK(d)'
<1>0. CallersOK /\ \A d \in Callers : JobOK(d) BY DEF TypeOK
<1>1. CallersOK' BY <1>0 DEF CallersOK, Stay
<1>2. ASSUME NEW d \in Callers PROVE JobOK(d)'
  <2>1. CASE d = c
    <3>1. pc'[c] = to /\ job'[c] = job[c] BY <1>0 DEF CallersOK, Stay
    <3> QED BY <1>0, <2>1, <3>1, CallerFacts DEF JobOK, InTry
  <2>2. CASE d # c
    <3>1. pc'[d] = pc[d] /\ job'[d] = job[d] BY <1>0, <2>2 DEF CallersOK, Stay
    <3> QED BY <1>0, <3>1 DEF JobOK
  <2> QED BY <2>1, <2>2
<1> QED BY <1>1, <1>2

(* And so does taking new local variables that fit the await. *)
LEMMA NewJobOK ==
  ASSUME TypeOK, NEW c \in Callers, NEW to, NEW j \in Jobs,
         pc' = [pc EXCEPT ![c] = to], job' = [job EXCEPT ![c] = j],
         to \in InTry \union {"claim"}, j.t \in Transfers,
         to \in AfterChoice => j.vault \in Vaults, to # "session",
         j.session <= Len(sessions), UNCHANGED sessions
  PROVE  job' \in [Callers -> Jobs] /\ \A d \in Callers : JobOK(d)'
<1>0. CallersOK /\ \A d \in Callers : JobOK(d) BY DEF TypeOK
<1>1. job' \in [Callers -> Jobs] BY <1>0 DEF CallersOK
<1>2. ASSUME NEW d \in Callers PROVE JobOK(d)'
  <2>1. CASE d = c
    <3>1. pc'[c] = to /\ job'[c] = j BY <1>0 DEF CallersOK
    <3> QED BY <2>1, <3>1 DEF JobOK, InTry
  <2>2. CASE d # c
    <3>1. pc'[d] = pc[d] /\ job'[d] = job[d] BY <1>0, <2>2 DEF CallersOK
    <3> QED BY <1>0, <3>1 DEF JobOK
  <2> QED BY <2>1, <2>2
<1> QED BY <1>1, <1>2

(* A caller that goes on by itself keeps the types. *)
LEMMA TypeStep ==
  ASSUME TypeOK, NEW c \in Callers, Progress(c)
  PROVE  TypeOK'
<1> USE NamesAssumption
        DEF TypeOK, Goto, Stay, ledger, address, frontend
<1>1. CASE StartTick(c)
  <2>1. RowsOK' BY <1>1 DEF StartTick, RowsOK, Statuses
  <2>2. AddressOK' BY <1>1 DEF StartTick, AddressOK
  <2>3. FrontendOK' BY <1>1 DEF StartTick, FrontendOK
  <2>4. CallersOK' /\ \A d \in Callers : JobOK(d)'
    <3>1. CallersOK' BY <1>1 DEF StartTick, CallersOK
    <3>2. ASSUME NEW d \in Callers PROVE JobOK(d)'
      BY <1>1 DEF StartTick, CallersOK, JobOK, InTry, AfterChoice
    <3> QED BY <3>1, <3>2
  <2> QED BY <2>1, <2>2, <2>3, <2>4
<1>2. CASE ApplyCredit(c)
  <2>1. RowsOK' BY <1>2 DEF ApplyCredit, RowsOK, Statuses
  <2>2. AddressOK' BY <1>2 DEF ApplyCredit, AddressOK
  <2>3. FrontendOK' BY <1>2 DEF ApplyCredit, FrontendOK
  <2>4. CallersOK' /\ \A d \in Callers : JobOK(d)'
    <3>1. PICK t \in todo[c] :
            /\ pc' = [pc EXCEPT ![c] = "claim"]
            /\ todo' = [todo EXCEPT ![c] = @ \ {t}]
            /\ job' = [job EXCEPT ![c] =
                 [NoJob EXCEPT !.t = t, !.active = activeVault, !.last = lastCredited]]
      BY <1>2 DEF ApplyCredit
    <3> DEFINE j == [NoJob EXCEPT !.t = t, !.active = activeVault, !.last = lastCredited]
    <3>2. t \in Transfers BY <3>1 DEF CallersOK
    <3>3. j \in Jobs /\ j.t = t /\ j.session = 0
      BY <3>2 DEF NoJob, Jobs, AddressOK
    <3>4. job' \in [Callers -> Jobs] /\ \A d \in Callers : JobOK(d)'
      <4>1. job' = [job EXCEPT ![c] = j] BY <3>1
      <4>2. "claim" \in InTry \union {"claim"} /\ "claim" \notin AfterChoice
        BY DEF InTry, AfterChoice
      <4>3. j.session <= Len(sessions) /\ UNCHANGED sessions
        BY <1>2, <3>3, CallerFacts DEF ApplyCredit
      <4> HIDE DEF j, TypeOK
      <4> QED BY <3>1, <4>1, <4>2, <4>3, <3>2, <3>3, NewJobOK
    <3>5. CallersOK' BY <1>2, <3>1, <3>4 DEF ApplyCredit, CallersOK
    <3> QED BY <3>4, <3>5
  <2> QED BY <2>1, <2>2, <2>3, <2>4
<1>3. CASE ClaimRow(c)
  <2>1. RowsOK' BY <1>3, CallerFacts DEF ClaimRow, RowsOK, Statuses, InTry, AfterChoice
  <2>2. AddressOK' BY <1>3 DEF ClaimRow, AddressOK
  <2>3. FrontendOK' BY <1>3 DEF ClaimRow, FrontendOK
  <2>4. CallersOK' /\ \A d \in Callers : JobOK(d)' BY <1>3, StayOK, CallerFacts DEF ClaimRow, InTry, AfterChoice
  <2> QED BY <2>1, <2>2, <2>3, <2>4
<1>4. CASE Duplicate(c)
  <2>1. RowsOK' BY <1>4 DEF Duplicate, RowsOK, Statuses
  <2>2. AddressOK' BY <1>4 DEF Duplicate, AddressOK
  <2>3. FrontendOK' BY <1>4 DEF Duplicate, FrontendOK
  <2>4. CallersOK' /\ \A d \in Callers : JobOK(d)' BY <1>4, ReturnOK DEF Duplicate
  <2> QED BY <2>1, <2>2, <2>3, <2>4
<1>5. CASE LoadRetry(c)
  <2>1. RowsOK' BY <1>5 DEF LoadRetry, RowsOK, Statuses
  <2>2. AddressOK' BY <1>5 DEF LoadRetry, AddressOK
  <2>3. FrontendOK' BY <1>5 DEF LoadRetry, FrontendOK
  <2>4. CallersOK' /\ \A d \in Callers : JobOK(d)'
    <3>1. {[t |-> t, attempts |-> attempts[t]] : t \in {u \in Transfers : row[u] = "detected"}}
            \in SUBSET [t : Transfers, attempts : Nat]
      BY DEF RowsOK
    <3>2. CallersOK' BY <1>5, <3>1 DEF LoadRetry, CallersOK
    <3>3. ASSUME NEW d \in Callers PROVE JobOK(d)'
      BY <1>5 DEF LoadRetry, CallersOK, JobOK, InTry, AfterChoice
    <3> QED BY <3>2, <3>3
  <2> QED BY <2>1, <2>2, <2>3, <2>4
<1>6. CASE RetryNext(c)
  <2>1. RowsOK' BY <1>6 DEF RetryNext, RowsOK, Statuses
  <2>2. AddressOK' BY <1>6 DEF RetryNext, AddressOK
  <2>3. FrontendOK' BY <1>6 DEF RetryNext, FrontendOK
  <2>4. CallersOK' /\ \A d \in Callers : JobOK(d)'
    <3>1. PICK s \in queue[c] :
            /\ pc' = [pc EXCEPT ![c] = "intent"]
            /\ queue' = [queue EXCEPT ![c] = @ \ {s}]
            /\ job' = [job EXCEPT ![c] =
                 [NoJob EXCEPT !.t = s.t, !.attempts = s.attempts,
                               !.active = activeVault, !.last = lastCredited]]
      BY <1>6 DEF RetryNext
    <3> DEFINE j == [NoJob EXCEPT !.t = s.t, !.attempts = s.attempts,
                                  !.active = activeVault, !.last = lastCredited]
    <3>2. s.t \in Transfers /\ s.attempts \in Nat BY <3>1 DEF CallersOK
    <3>3. j \in Jobs /\ j.t = s.t /\ j.session = 0
      BY <3>2 DEF NoJob, Jobs, AddressOK
    <3>4. job' \in [Callers -> Jobs] /\ \A d \in Callers : JobOK(d)'
      <4>1. job' = [job EXCEPT ![c] = j] BY <3>1
      <4>2. "intent" \in InTry \union {"claim"} /\ "intent" \notin AfterChoice
        BY DEF InTry, AfterChoice
      <4>3. j.session <= Len(sessions) /\ UNCHANGED sessions
        BY <1>6, <3>3, CallerFacts DEF RetryNext
      <4> HIDE DEF j, TypeOK
      <4> QED BY <3>1, <4>1, <4>2, <4>3, <3>2, <3>3, NewJobOK
    <3>5. CallersOK' BY <1>6, <3>1, <3>4 DEF RetryNext, CallersOK, InTry
    <3> QED BY <3>4, <3>5
  <2> QED BY <2>1, <2>2, <2>3, <2>4
<1>7. CASE EndTick(c)
  <2>1. RowsOK' BY <1>7 DEF EndTick, RowsOK, Statuses
  <2>2. AddressOK' BY <1>7 DEF EndTick, AddressOK
  <2>3. FrontendOK' BY <1>7 DEF EndTick, FrontendOK
  <2>4. CallersOK' /\ \A d \in Callers : JobOK(d)'
    <3>1. CallersOK' BY <1>7 DEF EndTick, CallersOK
    <3>2. ASSUME NEW d \in Callers PROVE JobOK(d)'
      BY <1>7 DEF EndTick, CallersOK, JobOK, InTry, AfterChoice
    <3> QED BY <3>1, <3>2
  <2> QED BY <2>1, <2>2, <2>3, <2>4
<1>8. CASE ReadIntent(c)
  <2>1. RowsOK' BY <1>8 DEF ReadIntent, RowsOK, Statuses
  <2>2. AddressOK' BY <1>8 DEF ReadIntent, AddressOK
  <2>3. FrontendOK' BY <1>8 DEF ReadIntent, FrontendOK
  <2>4. CallersOK' /\ \A d \in Callers : JobOK(d)'
    <3>1. \E i \in Nat : i <= Len(sessions) /\ job' = [job EXCEPT ![c].session = i]
      <4>1. CASE PendingSessions = {} /\ job' = [job EXCEPT ![c].session = 0]
        BY <4>1, CallerFacts, 0 <= Len(sessions)
      <4>2. CASE \E i \in PendingSessions : job' = [job EXCEPT ![c].session = i]
        <5>1. PendingSessions \subseteq 1..Len(sessions)
          BY DEF PendingSessions, FrontendOK
        <5>2. \A i \in PendingSessions : i \in Nat /\ i <= Len(sessions)
          BY <5>1, CallerFacts
        <5> QED BY <4>2, <5>2
      <4> QED BY <1>8, <4>1, <4>2 DEF ReadIntent
    <3>1a. PICK i \in Nat : i <= Len(sessions) /\ job' = [job EXCEPT ![c].session = i]
      BY <3>1
    <3> DEFINE j == [job[c] EXCEPT !.session = i]
    <3>2. j \in Jobs /\ j.t = job[c].t /\ j.session = i BY CallerFacts DEF Jobs
    <3>3. j.t \in Transfers BY <1>8, <3>2, CallerFacts DEF ReadIntent, InTry
    <3>4. job' = [job EXCEPT ![c] = j] BY <3>1a DEF CallersOK
    <3>5. job' \in [Callers -> Jobs] /\ \A d \in Callers : JobOK(d)'
      <4> HIDE DEF j
      <4> QED BY <1>8, <3>1a, <3>2, <3>3, <3>4, NewJobOK DEF ReadIntent, InTry, AfterChoice
    <3>6. CallersOK' BY <1>8, <3>5 DEF ReadIntent, CallersOK, InTry
    <3> QED BY <3>5, <3>6
  <2> QED BY <2>1, <2>2, <2>3, <2>4
<1>9. CASE ChooseVault(c)
  <2>1. RowsOK' BY <1>9 DEF ChooseVault, RowsOK, Statuses
  <2>2. AddressOK' BY <1>9 DEF ChooseVault, AddressOK
  <2>3. FrontendOK' BY <1>9 DEF ChooseVault, FrontendOK
  <2>4. CallersOK' /\ \A d \in Callers : JobOK(d)'
    <3>1. PICK r \in Resolutions(job[c]) :
            job' = [job EXCEPT ![c].vault = r.vault, ![c].session = r.session]
      BY <1>9 DEF ChooseVault
    <3>2. r.vault \in Vaults /\ r.session \in Nat /\ r.session <= Len(sessions)
      BY <1>9, <3>1, ResolutionsOK DEF ChooseVault
    <3> DEFINE j == [job[c] EXCEPT !.vault = r.vault, !.session = r.session]
    <3>3. j \in Jobs /\ j.t = job[c].t /\ j.session = r.session /\ j.vault = r.vault
      BY <3>2, CallerFacts DEF Jobs
    <3>4. j.t \in Transfers BY <1>9, <3>3, CallerFacts DEF ChooseVault, InTry
    <3>5. job' = [job EXCEPT ![c] = j] BY <3>1 DEF CallersOK
    <3>6. job' \in [Callers -> Jobs] /\ \A d \in Callers : JobOK(d)'
      <4> HIDE DEF j
      <4> QED BY <1>9, <3>2, <3>3, <3>4, <3>5, NewJobOK DEF ChooseVault, InTry
    <3>7. CallersOK' BY <1>9, <3>6 DEF ChooseVault, CallersOK, InTry
    <3> QED BY <3>6, <3>7
  <2> QED BY <2>1, <2>2, <2>3, <2>4
<1>10. CASE NoVaultForAsset(c)
  <2>1. RowsOK' BY <1>10 DEF NoVaultForAsset, RowsOK, Statuses
  <2>2. AddressOK' BY <1>10 DEF NoVaultForAsset, AddressOK
  <2>3. FrontendOK' BY <1>10 DEF NoVaultForAsset, FrontendOK
  <2>4. CallersOK' /\ \A d \in Callers : JobOK(d)' BY <1>10, StayOK, CallerFacts DEF NoVaultForAsset, InTry, AfterChoice
  <2> QED BY <2>1, <2>2, <2>3, <2>4
<1>11. CASE FindDeposit(c)
  <2>1. RowsOK' BY <1>11 DEF FindDeposit, RowsOK, Statuses
  <2>2. AddressOK' BY <1>11 DEF FindDeposit, AddressOK
  <2>3. FrontendOK' BY <1>11 DEF FindDeposit, FrontendOK
  <2>4. CallersOK' /\ \A d \in Callers : JobOK(d)' BY <1>11, StayOK, CallerFacts DEF FindDeposit, InTry, AfterChoice
  <2> QED BY <2>1, <2>2, <2>3, <2>4
<1>12. CASE CreateDeposit(c)
  <2>1. RowsOK' BY <1>12, CallerFacts DEF CreateDeposit, RowsOK, Statuses, InTry, AfterChoice
  <2>2. AddressOK' BY <1>12, CallerFacts DEF CreateDeposit, AddressOK, Assets, AfterChoice, InTry
  <2>3. FrontendOK' BY <1>12 DEF CreateDeposit, FrontendOK
  <2>4. CallersOK' /\ \A d \in Callers : JobOK(d)' BY <1>12, StayOK, CallerFacts DEF CreateDeposit, InTry, AfterChoice
  <2> QED BY <2>1, <2>2, <2>3, <2>4
<1>13. CASE IncVault(c)
  <2>1. RowsOK' BY <1>13, CallerFacts DEF IncVault, RowsOK, Statuses, InTry, AfterChoice
  <2>2. AddressOK' BY <1>13 DEF IncVault, AddressOK
  <2>3. FrontendOK' BY <1>13 DEF IncVault, FrontendOK
  <2>4. CallersOK' /\ \A d \in Callers : JobOK(d)' BY <1>13, StayOK, CallerFacts DEF IncVault, InTry, AfterChoice
  <2> QED BY <2>1, <2>2, <2>3, <2>4
<1>14. CASE IncUser(c)
  <2>1. RowsOK' BY <1>14, CallerFacts DEF IncUser, RowsOK, Statuses, InTry, AfterChoice
  <2>2. AddressOK' BY <1>14 DEF IncUser, AddressOK
  <2>3. FrontendOK' BY <1>14 DEF IncUser, FrontendOK
  <2>4. CallersOK' /\ \A d \in Callers : JobOK(d)' BY <1>14, StayOK, CallerFacts DEF IncUser, InTry, AfterChoice
  <2> QED BY <2>1, <2>2, <2>3, <2>4
<1>15. CASE FlipCredit(c)
  <2>1. RowsOK' BY <1>15, CallerFacts DEF FlipCredit, RowsOK, Statuses, InTry, AfterChoice
  <2>2. AddressOK' BY <1>15 DEF FlipCredit, AddressOK
  <2>3. FrontendOK' BY <1>15 DEF FlipCredit, FrontendOK
  <2>4. CallersOK' /\ \A d \in Callers : JobOK(d)' BY <1>15, StayOK, CallerFacts DEF FlipCredit, InTry, AfterChoice
  <2> QED BY <2>1, <2>2, <2>3, <2>4
<1>16. CASE AlreadyFinal(c)
  <2>1. RowsOK' BY <1>16 DEF AlreadyFinal, RowsOK, Statuses
  <2>2. AddressOK' BY <1>16 DEF AlreadyFinal, AddressOK
  <2>3. FrontendOK' BY <1>16 DEF AlreadyFinal, FrontendOK
  <2>4. CallersOK' /\ \A d \in Callers : JobOK(d)' BY <1>16, ReturnOK DEF AlreadyFinal
  <2> QED BY <2>1, <2>2, <2>3, <2>4
<1>17. CASE IncTotals(c)
  <2>1. RowsOK' BY <1>17, CallerFacts DEF IncTotals, RowsOK, Statuses, InTry, AfterChoice
  <2>2. AddressOK' BY <1>17, CallerFacts DEF IncTotals, AddressOK, Assets, AfterChoice, InTry
  <2>3. FrontendOK' BY <1>17 DEF IncTotals, FrontendOK
  <2>4. CallersOK' /\ \A d \in Callers : JobOK(d)'
    <3>1. CASE job[c].session = 0 BY <1>17, <3>1, ReturnOK DEF IncTotals
    <3>2. CASE job[c].session # 0
      BY <1>17, <3>2, StayOK, CallerFacts DEF IncTotals, InTry, AfterChoice
    <3> QED BY <3>1, <3>2
  <2> QED BY <2>1, <2>2, <2>3, <2>4
<1>18. CASE ResolveSession(c)
  <2>1. RowsOK' BY <1>18 DEF ResolveSession, RowsOK, Statuses
  <2>2. AddressOK' BY <1>18 DEF ResolveSession, AddressOK
  <2>3. FrontendOK' /\ Len(sessions') = Len(sessions)
    <3>1. /\ job[c].session \in DOMAIN sessions /\ job[c].t \in Transfers
      BY <1>18, CallerFacts DEF ResolveSession, JobOK, FrontendOK, Jobs, InTry
    <3>2. sessions[job[c].session] \in Sessions BY <3>1 DEF FrontendOK
    <3> QED BY <1>18, <3>1, <3>2 DEF ResolveSession, FrontendOK, Sessions
  <2>4. CallersOK' /\ \A d \in Callers : JobOK(d)' BY <1>18, <2>3, ReturnOK DEF ResolveSession
  <2> QED BY <2>1, <2>2, <2>3, <2>4
<1>19. CASE CatchWrite(c)
  <2>1. RowsOK'
    <3>1. job[c].t \in Transfers /\ job[c].attempts + 1 \in Nat
      BY <1>19, CallerFacts DEF CatchWrite, Jobs
    <3>2. attempts' \in [Transfers -> Nat] BY <1>19, <3>1 DEF CatchWrite, RowsOK
    <3>3. row' \in [Transfers -> Statuses] BY <1>19, <3>1 DEF CatchWrite, RowsOK, Statuses
    <3> QED BY <1>19, <3>2, <3>3 DEF CatchWrite, RowsOK
  <2>2. AddressOK' BY <1>19 DEF CatchWrite, AddressOK
  <2>3. FrontendOK' BY <1>19 DEF CatchWrite, FrontendOK
  <2>4. CallersOK' /\ \A d \in Callers : JobOK(d)' BY <1>19, ReturnOK DEF CatchWrite
  <2> QED BY <2>1, <2>2, <2>3, <2>4
<1> QED
  BY <1>1, <1>2, <1>3, <1>4, <1>5, <1>6, <1>7, <1>8, <1>9, <1>10, <1>11, <1>12, <1>13,
     <1>14, <1>15, <1>16, <1>17, <1>18, <1>19 DEF Progress

(* Spending from the budget keeps its type. *)
LEMMA BudgetOK ==
  ASSUME budget \in [faults : Nat, crashes : Nat, toggles : Nat]
  PROVE  /\ [budget EXCEPT !.faults = @ + 1] \in [faults : Nat, crashes : Nat, toggles : Nat]
         /\ [budget EXCEPT !.crashes = @ + 1] \in [faults : Nat, crashes : Nat, toggles : Nat]
         /\ [budget EXCEPT !.toggles = @ + 1] \in [faults : Nat, crashes : Nat, toggles : Nat]
OBVIOUS

(* So does everything that happens around the callers. *)
LEMMA TypeEnvironment ==
  ASSUME TypeOK,
         \/ \E c \in Callers : Throw(c) \/ ThrowOut(c)
         \/ \E q \in QrCalls : QrSetActiveVault(q) \/ QrExpireOthers(q) \/ QrOpenSession(q)
         \/ \E v \in Vaults : ToggleVault(v)
         \/ Crash
  PROVE  TypeOK'
<1> USE DEF TypeOK, ledger, address, caller, frontend
<1>1. ASSUME NEW c \in Callers, Throw(c) PROVE TypeOK'
  <2>0. budget' \in [faults : Nat, crashes : Nat, toggles : Nat]
    BY <1>1, BudgetOK DEF Throw, FrontendOK
  <2>1. RowsOK' /\ AddressOK' /\ FrontendOK'
    BY <1>1, <2>0 DEF Throw, RowsOK, AddressOK, FrontendOK
  <2>2. CallersOK' /\ \A d \in Callers : JobOK(d)'
    BY <1>1, StayOK DEF Throw, InTry, AfterChoice
  <2> QED BY <2>1, <2>2
<1>2. ASSUME NEW c \in Callers, ThrowOut(c) PROVE TypeOK'
  <2>0. budget' \in [faults : Nat, crashes : Nat, toggles : Nat]
    BY <1>2, BudgetOK DEF ThrowOut, FrontendOK
  <2>1. RowsOK' /\ AddressOK' /\ FrontendOK'
    BY <1>2, <2>0 DEF ThrowOut, RowsOK, AddressOK, FrontendOK
  <2>2. CallersOK' BY <1>2, CallerFacts DEF ThrowOut, CallersOK
  <2>3. ASSUME NEW d \in Callers PROVE JobOK(d)'
    <3>1. CASE d = c
      <4>1. job'[c] = NoJob /\ pc'[c] \in {"scan", "idle"} BY <1>2 DEF ThrowOut, CallersOK
      <4>2. sessions' = sessions BY <1>2 DEF ThrowOut
      <4> QED BY <3>1, <4>1, <4>2, CallerFacts DEF JobOK, InTry, AfterChoice
    <3>2. CASE d # c
      BY <1>2, <3>2 DEF ThrowOut, CallersOK, JobOK
    <3> QED BY <3>1, <3>2
  <2> QED BY <2>1, <2>2, <2>3
<1>3. ASSUME NEW q \in QrCalls, QrSetActiveVault(q) PROVE TypeOK'
  <2>1. RowsOK' /\ CallersOK' /\ \A d \in Callers : JobOK(d)'
    BY <1>3 DEF QrSetActiveVault, RowsOK, CallersOK, JobOK
  <2>2. AddressOK' /\ FrontendOK'
    BY <1>3 DEF QrSetActiveVault, AddressOK, FrontendOK
  <2> QED BY <2>1, <2>2
<1>4. ASSUME NEW q \in QrCalls, QrExpireOthers(q) PROVE TypeOK'
  <2>1. sessions' \in Seq(Sessions) /\ Len(sessions') = Len(sessions)
    <3>1. DOMAIN sessions = 1..Len(sessions) /\ Len(sessions) \in Nat
          /\ \A i \in DOMAIN sessions : sessions[i] \in Sessions
      BY DEF FrontendOK
    <3>2. \A i \in DOMAIN sessions : sessions'[i] \in Sessions
      BY <1>4, <3>1 DEF QrExpireOthers, Sessions
    <3>3. sessions' \in [1..Len(sessions) -> Sessions]
      BY <1>4, <3>1, <3>2 DEF QrExpireOthers
    <3> QED BY <3>1, <3>3
  <2>2. RowsOK' /\ AddressOK' /\ CallersOK' /\ \A d \in Callers : JobOK(d)'
    BY <1>4, <2>1 DEF QrExpireOthers, RowsOK, AddressOK, CallersOK, JobOK
  <2>3. FrontendOK'
    BY <1>4, <2>1 DEF QrExpireOthers, FrontendOK
  <2> QED BY <2>2, <2>3
<1>5. ASSUME NEW q \in QrCalls, QrOpenSession(q) PROVE TypeOK'
  <2>1. [vault |-> qrVault[q], status |-> "pending", by |-> NoTransfer] \in Sessions
    BY <1>5 DEF QrOpenSession, FrontendOK, Sessions
  <2>2. sessions' \in Seq(Sessions) /\ Len(sessions') = Len(sessions) + 1
        /\ Len(sessions) \in Nat
    BY <1>5, <2>1 DEF QrOpenSession, FrontendOK
  <2>3. RowsOK' /\ AddressOK' /\ CallersOK'
    BY <1>5 DEF QrOpenSession, RowsOK, AddressOK, CallersOK
  <2>4. ASSUME NEW d \in Callers PROVE JobOK(d)'
    BY <1>5, <2>2 DEF QrOpenSession, CallersOK, JobOK, Jobs
  <2>5. FrontendOK'
    BY <1>5, <2>2 DEF QrOpenSession, FrontendOK
  <2> QED BY <2>3, <2>4, <2>5
<1>6. ASSUME NEW v \in Vaults, ToggleVault(v) PROVE TypeOK'
  <2>0. budget' \in [faults : Nat, crashes : Nat, toggles : Nat]
    BY <1>6, BudgetOK DEF ToggleVault, FrontendOK
  <2>1. RowsOK' /\ CallersOK' /\ \A d \in Callers : JobOK(d)'
    BY <1>6 DEF ToggleVault, RowsOK, CallersOK, JobOK
  <2>2. AddressOK' /\ FrontendOK'
    BY <1>6, <2>0 DEF ToggleVault, AddressOK, FrontendOK
  <2> QED BY <2>1, <2>2
<1>7. ASSUME Crash PROVE TypeOK'
  <2>0. budget' \in [faults : Nat, crashes : Nat, toggles : Nat]
    BY <1>7, BudgetOK DEF Crash, FrontendOK
  <2>1. RowsOK' /\ AddressOK' /\ FrontendOK'
    BY <1>7, <2>0 DEF Crash, RowsOK, AddressOK, FrontendOK
  <2>2. NoJob \in Jobs /\ NoJob.t \notin Transfers /\ NoJob.session = 0
    BY NamesAssumption DEF Jobs, NoJob
  <2>3. CallersOK' BY <1>7, <2>2 DEF Crash, CallersOK
  <2>4. ASSUME NEW d \in Callers PROVE JobOK(d)'
    <3>1. pc'[d] = "idle" /\ job'[d] = NoJob /\ sessions' = sessions BY <1>7 DEF Crash
    <3>2. 0 <= Len(sessions) BY DEF FrontendOK
    <3> QED BY <2>2, <3>1, <3>2 DEF JobOK, InTry, AfterChoice
  <2> QED BY <2>1, <2>3, <2>4
<1> QED BY <1>1, <1>2, <1>3, <1>4, <1>5, <1>6, <1>7

LEMMA TypeNext == TypeOK /\ [Next]_vars => TypeOK'
<1> SUFFICES ASSUME TypeOK, [Next]_vars PROVE TypeOK'
  OBVIOUS
<1>1. CASE \E c \in Callers : Progress(c) BY <1>1, TypeStep
<1>2. CASE UNCHANGED vars
  BY <1>2 DEF vars, ledger, address, caller, frontend, TypeOK, RowsOK, AddressOK,
              CallersOK, FrontendOK, JobOK
<1> QED BY <1>1, <1>2, TypeEnvironment DEF Next

(* The type invariant holds in every behaviour: faults, crashes and QR     *)
(* requests included.                                                      *)
THEOREM TypeCorrect == Spec => []TypeOK
BY TypeInit, TypeNext, PTL DEF Spec

-----------------------------------------------------------------------------
(* The inductive invariant.  BookedOnce alone is not inductive: it does    *)
(* not say who may still increment.  Only the caller whose insert created  *)
(* the deposit does, it is alone, and it has not done so yet.              *)

OwesBooking(c) == pc[c] \in {"incVault", "incUser"}

Booking ==
  /\ \A t \in Transfers :
       /\ vaultIncs[t] \in {0, 1} /\ userIncs[t] \in {0, 1}
       /\ userIncs[t] <= vaultIncs[t]
       /\ deposit[t] = NoVault => vaultIncs[t] = 0
  /\ \A c \in Callers :
       OwesBooking(c) => /\ deposit[job[c].t] # NoVault
                         /\ userIncs[job[c].t] = 0
                         /\ vaultIncs[job[c].t] = IF pc[c] = "incUser" THEN 1 ELSE 0
  /\ \A c, d \in Callers :
       OwesBooking(c) /\ OwesBooking(d) /\ job[c].t = job[d].t => c = d

(* The same for creditedTotal: only the caller that flipped the row owes   *)
(* the increment.  The row may have become "failed" since.                 *)
Totals ==
  /\ \A t \in Transfers :
       totalIncs[t] # 0 => totalIncs[t] = 1 /\ row[t] \in {"credited", "failed"}
  /\ \A c \in Callers :
       pc[c] = "totals" => /\ totalIncs[job[c].t] = 0
                           /\ row[job[c].t] \in {"credited", "failed"}
  /\ \A c, d \in Callers :
       pc[c] = "totals" /\ pc[d] = "totals" /\ job[c].t = job[d].t => c = d

(* Whoever got past applyDepositAccounting saw or made the deposit. *)
Finality ==
  /\ FinalHasDeposit
  /\ \A c \in Callers :
       pc[c] \in {"flip", "totals", "session"} => deposit[job[c].t] # NoVault

(* Work is done only on transfers whose row was claimed. *)
Claimed ==
  \A c \in Callers :
    /\ pc[c] \in InTry \union {"catch"} => row[job[c].t] # "none"
    /\ \A s \in queue[c] : row[s.t] # "none"

IInv == TypeOK /\ Booking /\ Totals /\ Finality /\ Claimed

LEMMA IInvInit == Init => IInv
<1> SUFFICES ASSUME Init PROVE IInv OBVIOUS
<1>1. TypeOK BY TypeInit
<1>2. \A c \in Callers : pc[c] = "idle" /\ queue[c] = {} BY DEF Init
<1>3. Booking BY <1>2 DEF Init, Booking, OwesBooking
<1>4. Totals BY <1>2 DEF Init, Totals
<1>5. Finality BY <1>2 DEF Init, Finality, FinalHasDeposit
<1>6. Claimed BY <1>2 DEF Claimed, InTry
<1> QED BY <1>1, <1>3, <1>4, <1>5, <1>6 DEF IInv

(* A step that leaves the deposits and the increments alone, and makes no  *)
(* caller owe a booking that did not owe it.                               *)
LEMMA QuietBooking ==
  ASSUME Booking, UNCHANGED <<deposit, vaultIncs, userIncs>>,
         \A c \in Callers : OwesBooking(c)' => pc'[c] = pc[c] /\ job'[c] = job[c]
  PROVE  Booking'
BY DEF Booking, OwesBooking

LEMMA QuietTotals ==
  ASSUME Totals, UNCHANGED totalIncs,
         \A t \in Transfers : row[t] \in {"credited", "failed"}
                               => row'[t] \in {"credited", "failed"},
         \A c \in Callers : pc[c] = "totals" => job[c].t \in Transfers,
         \A c \in Callers : pc'[c] = "totals" => pc[c] = "totals" /\ job'[c] = job[c]
  PROVE  Totals'
BY DEF Totals

LEMMA QuietFinality ==
  ASSUME Finality, UNCHANGED <<deposit, totalIncs>>,
         \A t \in Transfers : row'[t] = "credited" => row[t] = "credited",
         \A c \in Callers : pc'[c] \in {"flip", "totals", "session"} =>
            /\ pc[c] \in {"flip", "totals", "session"}
            /\ job'[c] = job[c]
  PROVE  Finality'
BY DEF Finality, FinalHasDeposit

LEMMA QuietClaimed ==
  ASSUME Claimed,
         \A t \in Transfers : row[t] # "none" => row'[t] # "none",
         \A c \in Callers : pc[c] \in InTry \union {"catch"} => job[c].t \in Transfers,
         \A c \in Callers : \A s \in queue[c] : s.t \in Transfers,
         \A c \in Callers :
           /\ pc'[c] \in InTry \union {"catch"} =>
                pc[c] \in InTry \union {"catch"} /\ job'[c].t = job[c].t
           /\ queue'[c] \subseteq queue[c]
  PROVE  Claimed'
BY DEF Claimed

(* One caller's step and the invariant: an action that the part does not  *)
(* speak of is quiet; the others are argued one by one.                    *)

LEMMA BookingStep ==
  ASSUME IInv, [Next]_vars
  PROVE  Booking'
<1> USE DEF OwesBooking, Goto, Stay, Return, ledger, address, caller, frontend, InTry
<1>a. Booking /\ CallersOK /\ RowsOK /\ \A d \in Callers : JobOK(d)
  BY DEF IInv, TypeOK
<1>b. \A d \in Callers : pc[d] \in InTry \union {"claim", "catch"} => job[d].t \in Transfers
  BY <1>a DEF JobOK
<1>c. pc \in [Callers -> {"idle", "scan", "retry", "claim", "catch"} \union InTry] /\ job \in [Callers -> Jobs]
      /\ mode \in [Callers -> {"scan", "retry"}] /\ queue \in [Callers -> SUBSET [t : Transfers, attempts : Nat]]
  BY <1>a DEF CallersOK
<1>1. ASSUME NEW c \in Callers, StartTick(c) PROVE Booking'
  BY <1>a, <1>b, <1>c, <1>1, QuietBooking DEF StartTick
<1>2. ASSUME NEW c \in Callers, ApplyCredit(c) PROVE Booking'
  BY <1>a, <1>b, <1>c, <1>2, QuietBooking DEF ApplyCredit
<1>3. ASSUME NEW c \in Callers, ClaimRow(c) PROVE Booking'
  BY <1>a, <1>b, <1>c, <1>3, QuietBooking DEF ClaimRow
<1>4. ASSUME NEW c \in Callers, Duplicate(c) PROVE Booking'
  BY <1>a, <1>b, <1>c, <1>4, QuietBooking DEF Duplicate
<1>5. ASSUME NEW c \in Callers, LoadRetry(c) PROVE Booking'
  BY <1>a, <1>b, <1>c, <1>5, QuietBooking DEF LoadRetry
<1>6. ASSUME NEW c \in Callers, RetryNext(c) PROVE Booking'
  BY <1>a, <1>b, <1>c, <1>6, QuietBooking DEF RetryNext
<1>7. ASSUME NEW c \in Callers, EndTick(c) PROVE Booking'
  BY <1>a, <1>b, <1>c, <1>7, QuietBooking DEF EndTick
<1>8. ASSUME NEW c \in Callers, ReadIntent(c) PROVE Booking'
  BY <1>a, <1>b, <1>c, <1>8, QuietBooking DEF ReadIntent
<1>9. ASSUME NEW c \in Callers, ChooseVault(c) PROVE Booking'
  BY <1>a, <1>b, <1>c, <1>9, QuietBooking DEF ChooseVault
<1>10. ASSUME NEW c \in Callers, NoVaultForAsset(c) PROVE Booking'
  BY <1>a, <1>b, <1>c, <1>10, QuietBooking DEF NoVaultForAsset
<1>11. ASSUME NEW c \in Callers, FindDeposit(c) PROVE Booking'
  BY <1>a, <1>b, <1>c, <1>11, QuietBooking DEF FindDeposit
<1>12. ASSUME NEW c \in Callers, CreateDeposit(c) PROVE Booking'
  <2>1. CASE deposit[job[c].t] # NoVault
    BY <1>a, <1>b, <1>c, <1>12, <2>1, QuietBooking DEF CreateDeposit
  <2>2. CASE deposit[job[c].t] = NoVault
    <3>1. job[c].t \in Transfers /\ job[c].vault \in Vaults
      BY <1>a, <1>12 DEF CreateDeposit, JobOK, AfterChoice
    <3>2. /\ deposit' = [deposit EXCEPT ![job[c].t] = job[c].vault]
          /\ pc' = [pc EXCEPT ![c] = "incVault"] /\ job' = job
          /\ UNCHANGED <<vaultIncs, userIncs>>
      BY <1>12, <2>2 DEF CreateDeposit
    <3>3. deposit'[job[c].t] # NoVault /\ vaultIncs[job[c].t] = 0 /\ userIncs[job[c].t] = 0
      BY <1>a, <2>2, <3>1, <3>2, NamesAssumption DEF Booking, RowsOK
    <3>4. \A d \in Callers : OwesBooking(d) => job[d].t # job[c].t
      BY <1>a, <2>2 DEF Booking
    <3>5. \A t \in Transfers : t # job[c].t => deposit'[t] = deposit[t]
      BY <1>a, <3>2 DEF RowsOK
    <3>6. pc'[c] = "incVault" /\ \A d \in Callers : d # c => pc'[d] = pc[d]
      BY <1>c, <3>2
    <3> QED BY <1>a, <1>b, <3>1, <3>2, <3>3, <3>4, <3>5, <3>6 DEF Booking
  <2> QED BY <2>1, <2>2
<1>13. ASSUME NEW c \in Callers, IncVault(c) PROVE Booking'
  <2>1. job[c].t \in Transfers /\ OwesBooking(c) BY <1>b, <1>13 DEF IncVault
  <2>2. /\ vaultIncs[job[c].t] = 0 /\ userIncs[job[c].t] = 0 /\ deposit[job[c].t] # NoVault
        /\ \A d \in Callers : OwesBooking(d) /\ d # c => job[d].t # job[c].t
    BY <1>a, <1>13, <2>1 DEF IncVault, Booking
  <2>3. /\ vaultIncs'[job[c].t] = 1
        /\ \A t \in Transfers : t # job[c].t => vaultIncs'[t] = vaultIncs[t]
        /\ pc'[c] = "incUser" /\ \A d \in Callers : d # c => pc'[d] = pc[d]
        /\ UNCHANGED <<deposit, userIncs, job>>
    BY <1>a, <1>c, <1>13, <2>1, <2>2 DEF IncVault, RowsOK
  <2> QED BY <1>a, <1>b, <2>1, <2>2, <2>3 DEF Booking
<1>14. ASSUME NEW c \in Callers, IncUser(c) PROVE Booking'
  <2>1. job[c].t \in Transfers /\ OwesBooking(c) BY <1>b, <1>14 DEF IncUser
  <2>2. /\ vaultIncs[job[c].t] = 1 /\ userIncs[job[c].t] = 0 /\ deposit[job[c].t] # NoVault
        /\ \A d \in Callers : OwesBooking(d) /\ d # c => job[d].t # job[c].t
    BY <1>a, <1>14, <2>1 DEF IncUser, Booking
  <2>3. /\ userIncs'[job[c].t] = 1
        /\ \A t \in Transfers : t # job[c].t => userIncs'[t] = userIncs[t]
        /\ pc'[c] = "flip" /\ \A d \in Callers : d # c => pc'[d] = pc[d]
        /\ UNCHANGED <<deposit, vaultIncs, job>>
    BY <1>a, <1>c, <1>14, <2>1, <2>2 DEF IncUser, RowsOK
  <2> QED BY <1>a, <1>b, <2>1, <2>2, <2>3 DEF Booking
<1>15. ASSUME NEW c \in Callers, FlipCredit(c) PROVE Booking'
  BY <1>a, <1>b, <1>c, <1>15, QuietBooking DEF FlipCredit
<1>16. ASSUME NEW c \in Callers, AlreadyFinal(c) PROVE Booking'
  BY <1>a, <1>b, <1>c, <1>16, QuietBooking DEF AlreadyFinal
<1>17. ASSUME NEW c \in Callers, IncTotals(c) PROVE Booking'
  BY <1>a, <1>b, <1>c, <1>17, QuietBooking DEF IncTotals
<1>18. ASSUME NEW c \in Callers, ResolveSession(c) PROVE Booking'
  BY <1>a, <1>b, <1>c, <1>18, QuietBooking DEF ResolveSession
<1>19. ASSUME NEW c \in Callers, CatchWrite(c) PROVE Booking'
  BY <1>a, <1>b, <1>c, <1>19, QuietBooking DEF CatchWrite
<1>20. ASSUME NEW c \in Callers, Throw(c) PROVE Booking'
  BY <1>a, <1>b, <1>c, <1>20, QuietBooking DEF Throw
<1>21. ASSUME NEW c \in Callers, ThrowOut(c) PROVE Booking'
  BY <1>a, <1>b, <1>c, <1>21, QuietBooking DEF ThrowOut
<1>22. ASSUME NEW q \in QrCalls, QrSetActiveVault(q) PROVE Booking'
  BY <1>a, <1>b, <1>c, <1>22, QuietBooking DEF QrSetActiveVault
<1>23. ASSUME NEW q \in QrCalls, QrExpireOthers(q) PROVE Booking'
  BY <1>a, <1>b, <1>c, <1>23, QuietBooking DEF QrExpireOthers
<1>24. ASSUME NEW q \in QrCalls, QrOpenSession(q) PROVE Booking'
  BY <1>a, <1>b, <1>c, <1>24, QuietBooking DEF QrOpenSession
<1>25. ASSUME NEW v \in Vaults, ToggleVault(v) PROVE Booking'
  BY <1>a, <1>b, <1>c, <1>25, QuietBooking DEF ToggleVault
<1>26. ASSUME Crash PROVE Booking'
  BY <1>a, <1>b, <1>c, <1>26, QuietBooking DEF Crash
<1>27. ASSUME UNCHANGED vars PROVE Booking'
  BY <1>a, <1>b, <1>c, <1>27, QuietBooking DEF vars
<1> QED
  BY <1>1, <1>2, <1>3, <1>4, <1>5, <1>6, <1>7, <1>8, <1>9, <1>10, <1>11, <1>12,
     <1>13, <1>14, <1>15, <1>16, <1>17, <1>18, <1>19, <1>20, <1>21, <1>22,
     <1>23, <1>24, <1>25, <1>26, <1>27 DEF Next, Progress


LEMMA TotalsStep ==
  ASSUME IInv, [Next]_vars
  PROVE  Totals'
<1> USE DEF OwesBooking, Goto, Stay, Return, ledger, address, caller, frontend, InTry
<1>a. Totals /\ CallersOK /\ RowsOK /\ \A d \in Callers : JobOK(d)
  BY DEF IInv, TypeOK
<1>b. \A d \in Callers : pc[d] \in InTry \union {"claim", "catch"} => job[d].t \in Transfers
  BY <1>a DEF JobOK
<1>c. pc \in [Callers -> {"idle", "scan", "retry", "claim", "catch"} \union InTry] /\ job \in [Callers -> Jobs]
      /\ mode \in [Callers -> {"scan", "retry"}] /\ queue \in [Callers -> SUBSET [t : Transfers, attempts : Nat]]
  BY <1>a DEF CallersOK
<1>1. ASSUME NEW c \in Callers, StartTick(c) PROVE Totals'
  BY <1>a, <1>b, <1>c, <1>1, QuietTotals DEF StartTick, RowsOK
<1>2. ASSUME NEW c \in Callers, ApplyCredit(c) PROVE Totals'
  BY <1>a, <1>b, <1>c, <1>2, QuietTotals DEF ApplyCredit, RowsOK
<1>3. ASSUME NEW c \in Callers, ClaimRow(c) PROVE Totals'
  BY <1>a, <1>b, <1>c, <1>3, QuietTotals DEF ClaimRow, RowsOK
<1>4. ASSUME NEW c \in Callers, Duplicate(c) PROVE Totals'
  BY <1>a, <1>b, <1>c, <1>4, QuietTotals DEF Duplicate, RowsOK
<1>5. ASSUME NEW c \in Callers, LoadRetry(c) PROVE Totals'
  BY <1>a, <1>b, <1>c, <1>5, QuietTotals DEF LoadRetry, RowsOK
<1>6. ASSUME NEW c \in Callers, RetryNext(c) PROVE Totals'
  BY <1>a, <1>b, <1>c, <1>6, QuietTotals DEF RetryNext, RowsOK
<1>7. ASSUME NEW c \in Callers, EndTick(c) PROVE Totals'
  BY <1>a, <1>b, <1>c, <1>7, QuietTotals DEF EndTick, RowsOK
<1>8. ASSUME NEW c \in Callers, ReadIntent(c) PROVE Totals'
  BY <1>a, <1>b, <1>c, <1>8, QuietTotals DEF ReadIntent, RowsOK
<1>9. ASSUME NEW c \in Callers, ChooseVault(c) PROVE Totals'
  BY <1>a, <1>b, <1>c, <1>9, QuietTotals DEF ChooseVault, RowsOK
<1>10. ASSUME NEW c \in Callers, NoVaultForAsset(c) PROVE Totals'
  BY <1>a, <1>b, <1>c, <1>10, QuietTotals DEF NoVaultForAsset, RowsOK
<1>11. ASSUME NEW c \in Callers, FindDeposit(c) PROVE Totals'
  BY <1>a, <1>b, <1>c, <1>11, QuietTotals DEF FindDeposit, RowsOK
<1>12. ASSUME NEW c \in Callers, CreateDeposit(c) PROVE Totals'
  BY <1>a, <1>b, <1>c, <1>12, QuietTotals DEF CreateDeposit, RowsOK
<1>13. ASSUME NEW c \in Callers, IncVault(c) PROVE Totals'
  BY <1>a, <1>b, <1>c, <1>13, QuietTotals DEF IncVault, RowsOK
<1>14. ASSUME NEW c \in Callers, IncUser(c) PROVE Totals'
  BY <1>a, <1>b, <1>c, <1>14, QuietTotals DEF IncUser, RowsOK
<1>15. ASSUME NEW c \in Callers, FlipCredit(c) PROVE Totals'
  <2>1. job[c].t \in Transfers /\ row[job[c].t] = "detected" BY <1>b, <1>15 DEF FlipCredit
  <2>2. /\ row'[job[c].t] = "credited"
        /\ \A t \in Transfers : t # job[c].t => row'[t] = row[t]
        /\ pc'[c] = "totals" /\ \A d \in Callers : d # c => pc'[d] = pc[d]
        /\ UNCHANGED <<totalIncs, job>>
    BY <1>a, <1>c, <1>15, <2>1 DEF FlipCredit, RowsOK
  <2>3. /\ totalIncs[job[c].t] = 0
        /\ \A d \in Callers : pc[d] = "totals" => job[d].t # job[c].t
    BY <1>a, <2>1 DEF Totals
  <2> QED BY <1>a, <1>b, <2>1, <2>2, <2>3 DEF Totals
<1>16. ASSUME NEW c \in Callers, AlreadyFinal(c) PROVE Totals'
  BY <1>a, <1>b, <1>c, <1>16, QuietTotals DEF AlreadyFinal, RowsOK
<1>17. ASSUME NEW c \in Callers, IncTotals(c) PROVE Totals'
  <2>1. job[c].t \in Transfers /\ pc[c] = "totals" BY <1>b, <1>17 DEF IncTotals
  <2>2. /\ totalIncs[job[c].t] = 0 /\ row[job[c].t] \in {"credited", "failed"}
        /\ \A d \in Callers : pc[d] = "totals" /\ d # c => job[d].t # job[c].t
    BY <1>a, <2>1 DEF Totals
  <2>3. /\ totalIncs'[job[c].t] = 1
        /\ \A t \in Transfers : t # job[c].t => totalIncs'[t] = totalIncs[t]
        /\ UNCHANGED row
    BY <1>a, <1>17, <2>1, <2>2 DEF IncTotals, RowsOK
  <2>4. /\ pc'[c] # "totals"
        /\ \A d \in Callers : d # c => pc'[d] = pc[d] /\ job'[d] = job[d]
    BY <1>c, <1>17 DEF IncTotals
  <2> QED BY <1>a, <1>b, <2>1, <2>2, <2>3, <2>4 DEF Totals
<1>18. ASSUME NEW c \in Callers, ResolveSession(c) PROVE Totals'
  BY <1>a, <1>b, <1>c, <1>18, QuietTotals DEF ResolveSession, RowsOK
<1>19. ASSUME NEW c \in Callers, CatchWrite(c) PROVE Totals'
  BY <1>a, <1>b, <1>c, <1>19, QuietTotals DEF CatchWrite, RowsOK
<1>20. ASSUME NEW c \in Callers, Throw(c) PROVE Totals'
  BY <1>a, <1>b, <1>c, <1>20, QuietTotals DEF Throw, RowsOK
<1>21. ASSUME NEW c \in Callers, ThrowOut(c) PROVE Totals'
  BY <1>a, <1>b, <1>c, <1>21, QuietTotals DEF ThrowOut, RowsOK
<1>22. ASSUME NEW q \in QrCalls, QrSetActiveVault(q) PROVE Totals'
  BY <1>a, <1>b, <1>c, <1>22, QuietTotals DEF QrSetActiveVault, RowsOK
<1>23. ASSUME NEW q \in QrCalls, QrExpireOthers(q) PROVE Totals'
  BY <1>a, <1>b, <1>c, <1>23, QuietTotals DEF QrExpireOthers, RowsOK
<1>24. ASSUME NEW q \in QrCalls, QrOpenSession(q) PROVE Totals'
  BY <1>a, <1>b, <1>c, <1>24, QuietTotals DEF QrOpenSession, RowsOK
<1>25. ASSUME NEW v \in Vaults, ToggleVault(v) PROVE Totals'
  BY <1>a, <1>b, <1>c, <1>25, QuietTotals DEF ToggleVault, RowsOK
<1>26. ASSUME Crash PROVE Totals'
  BY <1>a, <1>b, <1>c, <1>26, QuietTotals DEF Crash, RowsOK
<1>27. ASSUME UNCHANGED vars PROVE Totals'
  BY <1>a, <1>b, <1>c, <1>27, QuietTotals DEF vars, RowsOK
<1> QED
  BY <1>1, <1>2, <1>3, <1>4, <1>5, <1>6, <1>7, <1>8, <1>9, <1>10, <1>11, <1>12,
     <1>13, <1>14, <1>15, <1>16, <1>17, <1>18, <1>19, <1>20, <1>21, <1>22,
     <1>23, <1>24, <1>25, <1>26, <1>27 DEF Next, Progress


LEMMA FinalityStep ==
  ASSUME IInv, [Next]_vars
  PROVE  Finality'
<1> USE DEF OwesBooking, Goto, Stay, Return, ledger, address, caller, frontend, InTry
<1>a. Finality /\ CallersOK /\ RowsOK /\ \A d \in Callers : JobOK(d)
  BY DEF IInv, TypeOK
<1>b. \A d \in Callers : pc[d] \in InTry \union {"claim", "catch"} => job[d].t \in Transfers
  BY <1>a DEF JobOK
<1>c. pc \in [Callers -> {"idle", "scan", "retry", "claim", "catch"} \union InTry] /\ job \in [Callers -> Jobs]
      /\ mode \in [Callers -> {"scan", "retry"}] /\ queue \in [Callers -> SUBSET [t : Transfers, attempts : Nat]]
  BY <1>a DEF CallersOK
<1>1. ASSUME NEW c \in Callers, StartTick(c) PROVE Finality'
  BY <1>a, <1>b, <1>c, <1>1, QuietFinality DEF StartTick, RowsOK
<1>2. ASSUME NEW c \in Callers, ApplyCredit(c) PROVE Finality'
  BY <1>a, <1>b, <1>c, <1>2, QuietFinality DEF ApplyCredit, RowsOK
<1>3. ASSUME NEW c \in Callers, ClaimRow(c) PROVE Finality'
  BY <1>a, <1>b, <1>c, <1>3, QuietFinality DEF ClaimRow, RowsOK
<1>4. ASSUME NEW c \in Callers, Duplicate(c) PROVE Finality'
  BY <1>a, <1>b, <1>c, <1>4, QuietFinality DEF Duplicate, RowsOK
<1>5. ASSUME NEW c \in Callers, LoadRetry(c) PROVE Finality'
  BY <1>a, <1>b, <1>c, <1>5, QuietFinality DEF LoadRetry, RowsOK
<1>6. ASSUME NEW c \in Callers, RetryNext(c) PROVE Finality'
  BY <1>a, <1>b, <1>c, <1>6, QuietFinality DEF RetryNext, RowsOK
<1>7. ASSUME NEW c \in Callers, EndTick(c) PROVE Finality'
  BY <1>a, <1>b, <1>c, <1>7, QuietFinality DEF EndTick, RowsOK
<1>8. ASSUME NEW c \in Callers, ReadIntent(c) PROVE Finality'
  BY <1>a, <1>b, <1>c, <1>8, QuietFinality DEF ReadIntent, RowsOK
<1>9. ASSUME NEW c \in Callers, ChooseVault(c) PROVE Finality'
  BY <1>a, <1>b, <1>c, <1>9, QuietFinality DEF ChooseVault, RowsOK
<1>10. ASSUME NEW c \in Callers, NoVaultForAsset(c) PROVE Finality'
  BY <1>a, <1>b, <1>c, <1>10, QuietFinality DEF NoVaultForAsset, RowsOK
<1>11. ASSUME NEW c \in Callers, FindDeposit(c) PROVE Finality'
  <2>1. /\ pc'[c] = "flip" => deposit[job[c].t] # NoVault
        /\ pc'[c] \in {"flip", "create"} /\ \A d \in Callers : d # c => pc'[d] = pc[d]
        /\ UNCHANGED <<row, deposit, totalIncs, job>>
    BY <1>c, <1>11 DEF FindDeposit
  <2> QED BY <1>a, <2>1 DEF Finality, FinalHasDeposit
<1>12. ASSUME NEW c \in Callers, CreateDeposit(c) PROVE Finality'
  <2>1. job[c].t \in Transfers /\ job[c].vault \in Vaults
    BY <1>a, <1>12 DEF CreateDeposit, JobOK, AfterChoice
  <2>2. /\ pc'[c] = "flip" => deposit[job[c].t] # NoVault
        /\ pc'[c] \in {"flip", "incVault"} /\ \A d \in Callers : d # c => pc'[d] = pc[d]
        /\ UNCHANGED <<row, totalIncs, job>>
    BY <1>c, <1>12 DEF CreateDeposit
  <2>3. \A t \in Transfers : deposit[t] # NoVault => deposit'[t] # NoVault
    BY <1>a, <1>12, <2>1, NamesAssumption DEF CreateDeposit, RowsOK
  <2> QED BY <1>a, <1>b, <2>1, <2>2, <2>3 DEF Finality, FinalHasDeposit
<1>13. ASSUME NEW c \in Callers, IncVault(c) PROVE Finality'
  BY <1>a, <1>b, <1>c, <1>13, QuietFinality DEF IncVault, RowsOK
<1>14. ASSUME NEW c \in Callers, IncUser(c) PROVE Finality'
  <2>1. deposit[job[c].t] # NoVault
    BY <1>14 DEF IInv, Booking, IncUser
  <2>2. /\ pc'[c] = "flip" /\ \A d \in Callers : d # c => pc'[d] = pc[d]
        /\ UNCHANGED <<row, deposit, totalIncs, job>>
    BY <1>c, <1>14 DEF IncUser
  <2> QED BY <1>a, <2>1, <2>2 DEF Finality, FinalHasDeposit
<1>15. ASSUME NEW c \in Callers, FlipCredit(c) PROVE Finality'
  <2>1. job[c].t \in Transfers /\ deposit[job[c].t] # NoVault
    BY <1>a, <1>b, <1>15 DEF FlipCredit, Finality
  <2>2. /\ pc'[c] = "totals" /\ \A d \in Callers : d # c => pc'[d] = pc[d]
        /\ \A t \in Transfers : t # job[c].t => row'[t] = row[t]
        /\ UNCHANGED <<deposit, totalIncs, job>>
    BY <1>a, <1>c, <1>15 DEF FlipCredit, RowsOK
  <2> QED BY <1>a, <2>1, <2>2 DEF Finality, FinalHasDeposit, FlipCredit
<1>16. ASSUME NEW c \in Callers, AlreadyFinal(c) PROVE Finality'
  BY <1>a, <1>b, <1>c, <1>16, QuietFinality DEF AlreadyFinal, RowsOK
<1>17. ASSUME NEW c \in Callers, IncTotals(c) PROVE Finality'
  <2>1. job[c].t \in Transfers /\ deposit[job[c].t] # NoVault
    BY <1>a, <1>b, <1>17 DEF IncTotals, Finality
  <2>2. /\ \A t \in Transfers : t # job[c].t => totalIncs'[t] = totalIncs[t]
        /\ UNCHANGED <<row, deposit>>
    BY <1>a, <1>17 DEF IncTotals, RowsOK
  <2>3. /\ \A d \in Callers : d # c => pc'[d] = pc[d] /\ job'[d] = job[d]
        /\ pc'[c] = "session" => job'[c] = job[c]
    BY <1>c, <1>17 DEF IncTotals
  <2>4. pc'[c] \in {"session", "scan", "retry"}
    BY <1>c, <1>17 DEF IncTotals
  <2> QED BY <1>a, <2>1, <2>2, <2>3, <2>4 DEF Finality, FinalHasDeposit
<1>18. ASSUME NEW c \in Callers, ResolveSession(c) PROVE Finality'
  BY <1>a, <1>b, <1>c, <1>18, QuietFinality DEF ResolveSession, RowsOK
<1>19. ASSUME NEW c \in Callers, CatchWrite(c) PROVE Finality'
  BY <1>a, <1>b, <1>c, <1>19, QuietFinality DEF CatchWrite, RowsOK
<1>20. ASSUME NEW c \in Callers, Throw(c) PROVE Finality'
  BY <1>a, <1>b, <1>c, <1>20, QuietFinality DEF Throw, RowsOK
<1>21. ASSUME NEW c \in Callers, ThrowOut(c) PROVE Finality'
  BY <1>a, <1>b, <1>c, <1>21, QuietFinality DEF ThrowOut, RowsOK
<1>22. ASSUME NEW q \in QrCalls, QrSetActiveVault(q) PROVE Finality'
  BY <1>a, <1>b, <1>c, <1>22, QuietFinality DEF QrSetActiveVault, RowsOK
<1>23. ASSUME NEW q \in QrCalls, QrExpireOthers(q) PROVE Finality'
  BY <1>a, <1>b, <1>c, <1>23, QuietFinality DEF QrExpireOthers, RowsOK
<1>24. ASSUME NEW q \in QrCalls, QrOpenSession(q) PROVE Finality'
  BY <1>a, <1>b, <1>c, <1>24, QuietFinality DEF QrOpenSession, RowsOK
<1>25. ASSUME NEW v \in Vaults, ToggleVault(v) PROVE Finality'
  BY <1>a, <1>b, <1>c, <1>25, QuietFinality DEF ToggleVault, RowsOK
<1>26. ASSUME Crash PROVE Finality'
  BY <1>a, <1>b, <1>c, <1>26, QuietFinality DEF Crash, RowsOK
<1>27. ASSUME UNCHANGED vars PROVE Finality'
  BY <1>a, <1>b, <1>c, <1>27, QuietFinality DEF vars, RowsOK
<1> QED
  BY <1>1, <1>2, <1>3, <1>4, <1>5, <1>6, <1>7, <1>8, <1>9, <1>10, <1>11, <1>12,
     <1>13, <1>14, <1>15, <1>16, <1>17, <1>18, <1>19, <1>20, <1>21, <1>22,
     <1>23, <1>24, <1>25, <1>26, <1>27 DEF Next, Progress


LEMMA ClaimedStep ==
  ASSUME IInv, [Next]_vars
  PROVE  Claimed'
<1> USE DEF OwesBooking, Goto, Stay, Return, ledger, address, caller, frontend, InTry
<1>a. Claimed /\ CallersOK /\ RowsOK /\ \A d \in Callers : JobOK(d)
  BY DEF IInv, TypeOK
<1>b. \A d \in Callers : pc[d] \in InTry \union {"claim", "catch"} => job[d].t \in Transfers
  BY <1>a DEF JobOK
<1>c. pc \in [Callers -> {"idle", "scan", "retry", "claim", "catch"} \union InTry] /\ job \in [Callers -> Jobs]
      /\ mode \in [Callers -> {"scan", "retry"}] /\ queue \in [Callers -> SUBSET [t : Transfers, attempts : Nat]]
  BY <1>a DEF CallersOK
<1>1. ASSUME NEW c \in Callers, StartTick(c) PROVE Claimed'
  BY <1>a, <1>b, <1>c, <1>1, QuietClaimed DEF StartTick, RowsOK
<1>2. ASSUME NEW c \in Callers, ApplyCredit(c) PROVE Claimed'
  BY <1>a, <1>b, <1>c, <1>2, QuietClaimed DEF ApplyCredit, RowsOK
<1>3. ASSUME NEW c \in Callers, ClaimRow(c) PROVE Claimed'
  <2>1. job[c].t \in Transfers BY <1>b, <1>3 DEF ClaimRow
  <2>2. /\ row'[job[c].t] # "none" /\ \A t \in Transfers : row[t] # "none" => row'[t] # "none"
        /\ \A d \in Callers : d # c => pc'[d] = pc[d]
        /\ UNCHANGED <<queue, job>>
    BY <1>a, <1>c, <1>3, <2>1 DEF ClaimRow, RowsOK
  <2> QED BY <1>a, <1>b, <1>c, <2>1, <2>2 DEF Claimed
<1>4. ASSUME NEW c \in Callers, Duplicate(c) PROVE Claimed'
  BY <1>a, <1>b, <1>c, <1>4, QuietClaimed DEF Duplicate, RowsOK
<1>5. ASSUME NEW c \in Callers, LoadRetry(c) PROVE Claimed'
  <2>1. /\ \A d \in Callers : d # c => queue'[d] = queue[d] /\ pc'[d] = pc[d]
        /\ pc'[c] = "retry" /\ UNCHANGED <<row, job>>
        /\ \A s \in queue'[c] : row[s.t] # "none"
    BY <1>a, <1>c, <1>5 DEF LoadRetry
  <2> QED BY <1>a, <2>1 DEF Claimed
<1>6. ASSUME NEW c \in Callers, RetryNext(c) PROVE Claimed'
  <2>1. PICK s \in queue[c] : /\ queue'[c] = queue[c] \ {s}
                              /\ job'[c].t = s.t
    BY <1>a, <1>c, <1>6 DEF RetryNext, NoJob
  <2>2. /\ \A d \in Callers : d # c => queue'[d] = queue[d] /\ pc'[d] = pc[d] /\ job'[d] = job[d]
        /\ UNCHANGED row
    BY <1>a, <1>c, <1>6 DEF RetryNext
  <2> QED BY <1>a, <2>1, <2>2 DEF Claimed
<1>7. ASSUME NEW c \in Callers, EndTick(c) PROVE Claimed'
  BY <1>a, <1>b, <1>c, <1>7, QuietClaimed DEF EndTick, RowsOK
<1>8. ASSUME NEW c \in Callers, ReadIntent(c) PROVE Claimed'
  <2>1. \A d \in Callers : job'[d].t = job[d].t BY <1>c, <1>8 DEF ReadIntent, Jobs
  <2> QED BY <1>a, <1>b, <1>c, <1>8, <2>1, QuietClaimed DEF ReadIntent
<1>9. ASSUME NEW c \in Callers, ChooseVault(c) PROVE Claimed'
  BY <1>a, <1>b, <1>c, <1>9, QuietClaimed DEF ChooseVault, RowsOK
<1>10. ASSUME NEW c \in Callers, NoVaultForAsset(c) PROVE Claimed'
  BY <1>a, <1>b, <1>c, <1>10, QuietClaimed DEF NoVaultForAsset, RowsOK
<1>11. ASSUME NEW c \in Callers, FindDeposit(c) PROVE Claimed'
  BY <1>a, <1>b, <1>c, <1>11, QuietClaimed DEF FindDeposit, RowsOK
<1>12. ASSUME NEW c \in Callers, CreateDeposit(c) PROVE Claimed'
  BY <1>a, <1>b, <1>c, <1>12, QuietClaimed DEF CreateDeposit, RowsOK
<1>13. ASSUME NEW c \in Callers, IncVault(c) PROVE Claimed'
  BY <1>a, <1>b, <1>c, <1>13, QuietClaimed DEF IncVault, RowsOK
<1>14. ASSUME NEW c \in Callers, IncUser(c) PROVE Claimed'
  BY <1>a, <1>b, <1>c, <1>14, QuietClaimed DEF IncUser, RowsOK
<1>15. ASSUME NEW c \in Callers, FlipCredit(c) PROVE Claimed'
  BY <1>a, <1>b, <1>c, <1>15, QuietClaimed DEF FlipCredit, RowsOK
<1>16. ASSUME NEW c \in Callers, AlreadyFinal(c) PROVE Claimed'
  BY <1>a, <1>b, <1>c, <1>16, QuietClaimed DEF AlreadyFinal, RowsOK
<1>17. ASSUME NEW c \in Callers, IncTotals(c) PROVE Claimed'
  BY <1>a, <1>b, <1>c, <1>17, QuietClaimed DEF IncTotals, RowsOK
<1>18. ASSUME NEW c \in Callers, ResolveSession(c) PROVE Claimed'
  BY <1>a, <1>b, <1>c, <1>18, QuietClaimed DEF ResolveSession, RowsOK
<1>19. ASSUME NEW c \in Callers, CatchWrite(c) PROVE Claimed'
  BY <1>a, <1>b, <1>c, <1>19, QuietClaimed DEF CatchWrite, RowsOK
<1>20. ASSUME NEW c \in Callers, Throw(c) PROVE Claimed'
  BY <1>a, <1>b, <1>c, <1>20, QuietClaimed DEF Throw, RowsOK
<1>21. ASSUME NEW c \in Callers, ThrowOut(c) PROVE Claimed'
  BY <1>a, <1>b, <1>c, <1>21, QuietClaimed DEF ThrowOut, RowsOK
<1>22. ASSUME NEW q \in QrCalls, QrSetActiveVault(q) PROVE Claimed'
  BY <1>a, <1>b, <1>c, <1>22, QuietClaimed DEF QrSetActiveVault, RowsOK
<1>23. ASSUME NEW q \in QrCalls, QrExpireOthers(q) PROVE Claimed'
  BY <1>a, <1>b, <1>c, <1>23, QuietClaimed DEF QrExpireOthers, RowsOK
<1>24. ASSUME NEW q \in QrCalls, QrOpenSession(q) PROVE Claimed'
  BY <1>a, <1>b, <1>c, <1>24, QuietClaimed DEF QrOpenSession, RowsOK
<1>25. ASSUME NEW v \in Vaults, ToggleVault(v) PROVE Claimed'
  BY <1>a, <1>b, <1>c, <1>25, QuietClaimed DEF ToggleVault, RowsOK
<1>26. ASSUME Crash PROVE Claimed'
  BY <1>a, <1>b, <1>c, <1>26, QuietClaimed DEF Crash, RowsOK
<1>27. ASSUME UNCHANGED vars PROVE Claimed'
  BY <1>a, <1>b, <1>c, <1>27, QuietClaimed DEF vars, RowsOK
<1> QED
  BY <1>1, <1>2, <1>3, <1>4, <1>5, <1>6, <1>7, <1>8, <1>9, <1>10, <1>11, <1>12,
     <1>13, <1>14, <1>15, <1>16, <1>17, <1>18, <1>19, <1>20, <1>21, <1>22,
     <1>23, <1>24, <1>25, <1>26, <1>27 DEF Next, Progress

LEMMA IInvStep == IInv /\ [Next]_vars => IInv'
<1> SUFFICES ASSUME IInv, [Next]_vars PROVE IInv' OBVIOUS
<1>1. TypeOK' BY TypeNext DEF IInv
<1> QED BY <1>1, BookingStep, TotalsStep, FinalityStep, ClaimedStep DEF IInv

LEMMA IInvCorrect == Spec => []IInv
BY IInvInit, IInvStep, PTL DEF Spec

(* No amount is booked twice, by any number of scanners, retries, rescans, *)
(* faults and restarts.                                                    *)
THEOREM NeverBookedTwice == Spec => []BookedOnce
<1>1. IInv => BookedOnce BY DEF IInv, Booking, BookedOnce
<1> QED BY <1>1, IInvCorrect, PTL

(* Nor is it counted twice into what the sweeper may move. *)
THEOREM NeverCountedTwice == Spec => []CountedOnce
<1>1. IInv => CountedOnce BY DEF IInv, TypeOK, RowsOK, Totals, CountedOnce
<1> QED BY <1>1, IInvCorrect, PTL

(* A final credit always has the user's deposits row behind it. *)
THEOREM FinalCreditsHaveDeposits == Spec => []FinalHasDeposit
<1>1. IInv => FinalHasDeposit BY DEF IInv, Finality
<1> QED BY <1>1, IInvCorrect, PTL

-----------------------------------------------------------------------------
(* Where nothing failed, an increment that a deposit still lacks is owed   *)
(* by the caller that created it: it goes from its insert to both          *)
(* increments and is never cut off.                                        *)
Whole == budget.faults = 0 /\ budget.crashes = 0
Owed ==
  \A t \in Transfers : deposit[t] # NoVault =>
    /\ vaultIncs[t] = 0 => \E c \in Callers : pc[c] = "incVault" /\ job[c].t = t
    /\ userIncs[t] = 0 => \E c \in Callers : OwesBooking(c) /\ job[c].t = t

LEMMA QuietOwed ==
  ASSUME Owed, UNCHANGED <<deposit, vaultIncs, userIncs>>,
         \A c \in Callers : OwesBooking(c) => pc'[c] = pc[c] /\ job'[c] = job[c]
  PROVE  Owed'
<1> SUFFICES ASSUME NEW t \in Transfers, deposit[t] # NoVault
             PROVE  /\ vaultIncs[t] = 0 => \E c \in Callers : pc'[c] = "incVault" /\ job'[c].t = t
                    /\ userIncs[t] = 0 => \E c \in Callers : OwesBooking(c)' /\ job'[c].t = t
  BY DEF Owed
<1>1. ASSUME vaultIncs[t] = 0 PROVE \E c \in Callers : pc'[c] = "incVault" /\ job'[c].t = t
  <2>1. PICK c \in Callers : pc[c] = "incVault" /\ job[c].t = t BY <1>1 DEF Owed
  <2> QED BY <2>1 DEF OwesBooking
<1>2. ASSUME userIncs[t] = 0 PROVE \E c \in Callers : OwesBooking(c)' /\ job'[c].t = t
  <2>1. PICK c \in Callers : OwesBooking(c) /\ job[c].t = t BY <1>2 DEF Owed
  <2> QED BY <2>1 DEF OwesBooking
<1> QED BY <1>1, <1>2

LEMMA OwedStep ==
  ASSUME IInv, Whole => Owed, [Next]_vars, Whole'
  PROVE  Owed'
<1> USE DEF Goto, Stay, Return, ledger, address, caller, frontend
<1>a. CallersOK /\ RowsOK /\ \A d \in Callers : JobOK(d)
  BY DEF IInv, TypeOK
<1>b. \A d \in Callers : pc[d] \in InTry \union {"claim", "catch"} => job[d].t \in Transfers
  BY <1>a DEF JobOK
<1>c. pc \in [Callers -> {"idle", "scan", "retry", "claim", "catch"} \union InTry] /\ job \in [Callers -> Jobs]
  BY <1>a DEF CallersOK
<1>d. budget.faults \in Nat /\ budget.crashes \in Nat /\ budget \in [faults : Nat, crashes : Nat, toggles : Nat]
  BY DEF IInv, TypeOK, FrontendOK
<1>1. ASSUME NEW c \in Callers, UNCHANGED <<budget, deposit, vaultIncs, userIncs>>,
             \/ StartTick(c) \/ ApplyCredit(c) \/ ClaimRow(c) \/ Duplicate(c) \/ LoadRetry(c)
             \/ RetryNext(c) \/ EndTick(c) \/ ReadIntent(c) \/ ChooseVault(c)
             \/ NoVaultForAsset(c) \/ FindDeposit(c) \/ FlipCredit(c)
             \/ AlreadyFinal(c) \/ IncTotals(c) \/ ResolveSession(c) \/ CatchWrite(c)
      PROVE  Owed'
  <2>1. /\ pc[c] \notin {"incVault", "incUser"}
        /\ \A d \in Callers : d # c => pc'[d] = pc[d] /\ job'[d] = job[d]
    BY <1>1, <1>c DEF StartTick, ApplyCredit, ClaimRow, Duplicate, LoadRetry, RetryNext, EndTick,
       ReadIntent, ChooseVault, NoVaultForAsset, FindDeposit, FlipCredit, AlreadyFinal, IncTotals,
       ResolveSession, CatchWrite
  <2>2. Owed BY <1>1 DEF Whole
  <2> QED BY <1>1, <2>1, <2>2, QuietOwed DEF OwesBooking
<1>2. ASSUME NEW c \in Callers,
             \/ StartTick(c) \/ ApplyCredit(c) \/ ClaimRow(c) \/ Duplicate(c) \/ LoadRetry(c)
             \/ RetryNext(c) \/ EndTick(c) \/ ReadIntent(c) \/ ChooseVault(c)
             \/ NoVaultForAsset(c) \/ FindDeposit(c) \/ FlipCredit(c)
             \/ AlreadyFinal(c) \/ IncTotals(c) \/ ResolveSession(c) \/ CatchWrite(c)
      PROVE  UNCHANGED <<budget, deposit, vaultIncs, userIncs>>
  BY <1>2 DEF StartTick, ApplyCredit, ClaimRow, Duplicate, LoadRetry, RetryNext, EndTick,
     ReadIntent, ChooseVault, NoVaultForAsset, FindDeposit, FlipCredit, AlreadyFinal, IncTotals,
     ResolveSession, CatchWrite
<1>3. ASSUME NEW c \in Callers, CreateDeposit(c) PROVE Owed'
  <2>0. Owed /\ UNCHANGED <<vaultIncs, userIncs, job>>
        /\ pc[c] = "create" /\ job[c].t \in Transfers
    BY <1>3, <1>b DEF CreateDeposit, Whole, InTry
  <2>1. CASE deposit[job[c].t] # NoVault
    <3>1. UNCHANGED deposit /\ \A d \in Callers : d # c => pc'[d] = pc[d]
      BY <1>3, <1>c, <2>1 DEF CreateDeposit
    <3> QED BY <2>0, <3>1, QuietOwed DEF OwesBooking
  <2>2. CASE deposit[job[c].t] = NoVault
    <3>1. /\ pc'[c] = "incVault" /\ \A d \in Callers : d # c => pc'[d] = pc[d]
          /\ \A t \in Transfers : t # job[c].t => deposit'[t] = deposit[t]
      BY <1>3, <1>a, <1>c, <2>2 DEF CreateDeposit, RowsOK
    <3>2. \A d \in Callers : OwesBooking(d) => OwesBooking(d)' /\ (pc[d] = "incVault" => pc'[d] = "incVault")
      BY <2>0, <3>1 DEF OwesBooking
    <3>3. OwesBooking(c)' BY <3>1 DEF OwesBooking
    <3>4. ASSUME NEW t \in Transfers, deposit'[t] # NoVault
          PROVE  /\ vaultIncs[t] = 0 => \E d \in Callers : pc'[d] = "incVault" /\ job[d].t = t
                 /\ userIncs[t] = 0 => \E d \in Callers : OwesBooking(d)' /\ job[d].t = t
      <4>1. CASE t = job[c].t BY <3>1, <3>3, <4>1
      <4>2. CASE t # job[c].t
        <5>1. deposit[t] # NoVault BY <3>1, <3>4, <4>2
        <5>2. \A d \in Callers : pc[d] = "incVault" => pc'[d] = "incVault" BY <3>2 DEF OwesBooking
        <5> QED BY <2>0, <3>2, <5>1, <5>2 DEF Owed
      <4> QED BY <4>1, <4>2
    <3> QED BY <2>0, <3>4 DEF Owed
  <2> QED BY <2>1, <2>2
<1>4. ASSUME NEW c \in Callers, IncVault(c) PROVE Owed'
  <2>0. Owed /\ UNCHANGED <<deposit, userIncs, job>>
        /\ pc[c] = "incVault" /\ job[c].t \in Transfers
    BY <1>4, <1>b DEF IncVault, Whole, InTry
  <2>1. /\ pc'[c] = "incUser" /\ \A d \in Callers : d # c => pc'[d] = pc[d]
        /\ vaultIncs'[job[c].t] # 0
        /\ \A t \in Transfers : t # job[c].t => vaultIncs'[t] = vaultIncs[t]
    BY <1>4, <1>a, <1>c, <2>0 DEF IncVault, RowsOK
  <2>2. \A d \in Callers : OwesBooking(d) => OwesBooking(d)' BY <2>1 DEF OwesBooking
  <2>3. ASSUME NEW t \in Transfers, deposit[t] # NoVault
        PROVE  /\ vaultIncs'[t] = 0 => \E d \in Callers : pc'[d] = "incVault" /\ job[d].t = t
               /\ userIncs[t] = 0 => \E d \in Callers : OwesBooking(d)' /\ job[d].t = t
    <3>1. userIncs[t] = 0 => \E d \in Callers : OwesBooking(d)' /\ job[d].t = t
      BY <2>0, <2>2, <2>3 DEF Owed
    <3>2. ASSUME vaultIncs'[t] = 0 PROVE \E d \in Callers : pc'[d] = "incVault" /\ job[d].t = t
      <4>1. t # job[c].t /\ vaultIncs[t] = 0 BY <2>1, <3>2
      <4>2. PICK d \in Callers : pc[d] = "incVault" /\ job[d].t = t BY <2>0, <2>3, <4>1 DEF Owed
      <4> QED BY <2>1, <4>1, <4>2
    <3> QED BY <3>1, <3>2
  <2> QED BY <2>0, <2>3 DEF Owed
<1>5. ASSUME NEW c \in Callers, IncUser(c) PROVE Owed'
  <2>0. Owed /\ UNCHANGED <<deposit, vaultIncs, job>>
        /\ pc[c] = "incUser" /\ job[c].t \in Transfers
    BY <1>5, <1>b DEF IncUser, Whole, InTry
  <2>1. /\ \A d \in Callers : d # c => pc'[d] = pc[d]
        /\ userIncs'[job[c].t] # 0
        /\ \A t \in Transfers : t # job[c].t => userIncs'[t] = userIncs[t]
    BY <1>5, <1>a, <1>c, <2>0 DEF IncUser, RowsOK
  <2>2. ASSUME NEW t \in Transfers, deposit[t] # NoVault
        PROVE  /\ vaultIncs[t] = 0 => \E d \in Callers : pc'[d] = "incVault" /\ job[d].t = t
               /\ userIncs'[t] = 0 => \E d \in Callers : OwesBooking(d)' /\ job[d].t = t
    <3>1. ASSUME vaultIncs[t] = 0 PROVE \E d \in Callers : pc'[d] = "incVault" /\ job[d].t = t
      <4>1. PICK d \in Callers : pc[d] = "incVault" /\ job[d].t = t BY <2>0, <2>2, <3>1 DEF Owed
      <4>2. d # c BY <2>0, <4>1
      <4> QED BY <2>1, <4>1, <4>2
    <3>2. ASSUME userIncs'[t] = 0 PROVE \E d \in Callers : OwesBooking(d)' /\ job[d].t = t
      <4>1. t # job[c].t /\ userIncs[t] = 0 BY <2>1, <3>2
      <4>2. PICK d \in Callers : OwesBooking(d) /\ job[d].t = t BY <2>0, <2>2, <4>1 DEF Owed
      <4>3. d # c BY <4>1, <4>2
      <4> QED BY <2>1, <4>2, <4>3 DEF OwesBooking
    <3> QED BY <3>1, <3>2
  <2> QED BY <2>0, <2>2 DEF Owed
<1>6. ASSUME NEW c \in Callers, Throw(c) \/ ThrowOut(c) PROVE FALSE
  <2>1. budget'.faults = budget.faults + 1 BY <1>6, <1>d DEF Throw, ThrowOut
  <2> QED BY <1>d, <2>1 DEF Whole
<1>7. ASSUME Crash PROVE FALSE
  <2>1. budget'.crashes = budget.crashes + 1 BY <1>7, <1>d DEF Crash
  <2> QED BY <1>d, <2>1 DEF Whole
<1>8. ASSUME \/ \E q \in QrCalls : QrSetActiveVault(q) \/ QrExpireOthers(q) \/ QrOpenSession(q)
             \/ \E v \in Vaults : ToggleVault(v)
             \/ UNCHANGED vars
      PROVE  Owed'
  <2>1. /\ UNCHANGED <<deposit, vaultIncs, userIncs, pc, job>>
        /\ budget'.faults = budget.faults /\ budget'.crashes = budget.crashes
    BY <1>8, <1>d DEF QrSetActiveVault, QrExpireOthers, QrOpenSession, ToggleVault, vars
  <2>2. Owed BY <2>1 DEF Whole
  <2> QED BY <2>1, <2>2, QuietOwed
<1> QED
  BY <1>1, <1>2, <1>3, <1>4, <1>5, <1>6, <1>7, <1>8 DEF Next, Progress

(* A credit that is final, and that nobody works on, is in the vault's     *)
(* total and in the user's exactly once, where no call failed and the      *)
(* process was not restarted.                                              *)
THEOREM CreditsAreBooked == Spec => []CreditedMeansBooked
<1> DEFINE Inv == IInv /\ (Whole => Owed)
<1>1. Init => Inv
  <2>1. Init => Owed BY DEF Init, Owed
  <2> QED BY <2>1, IInvInit
<1>2. Inv /\ [Next]_vars => Inv' BY IInvStep, OwedStep
<1>3. Inv => CreditedMeansBooked
  <2> SUFFICES ASSUME IInv, Whole => Owed, Whole, NEW t \in Transfers,
                      row[t] = "credited", Settled(t)
               PROVE  vaultIncs[t] = 1 /\ userIncs[t] = 1
    BY DEF Whole, CreditedMeansBooked
  <2>1. deposit[t] # NoVault /\ vaultIncs[t] \in {0, 1} /\ userIncs[t] \in {0, 1}
    BY DEF IInv, Finality, FinalHasDeposit, Booking
  <2> QED BY <2>1 DEF Owed, Settled
<1> QED BY <1>1, <1>2, <1>3, IInvCorrect, PTL DEF Spec

-----------------------------------------------------------------------------
(* Refinement: under the mapping of Ledger every step is a step of the     *)
(* abstract ledger or leaves it alone.                                     *)

LEMMA RefinementInit == Init => Ledger!Init
BY DEF Init, Ledger!Init

LEMMA RefinementStep == IInv /\ [Next]_vars => [Ledger!Next]_(Ledger!vars)
<1> SUFFICES ASSUME IInv, [Next]_vars PROVE [Ledger!Next]_(Ledger!vars)
  OBVIOUS
<1> DEFINE rows == {t \in Transfers : row[t] # "none"}
<1> USE DEF ledger, Goto, Stay, Return
<1>a. /\ RowsOK
      /\ \A d \in Callers : pc[d] \in InTry \union {"claim", "catch"} => job[d].t \in Transfers
  BY DEF IInv, TypeOK, JobOK
<1>b. UNCHANGED <<rows, vaultIncs, userIncs>> => UNCHANGED Ledger!vars
  BY DEF Ledger!vars
<1>1. ASSUME NEW c \in Callers, ClaimRow(c) PROVE Ledger!Next
  <2>1. job[c].t \in Transfers BY <1>1, <1>a DEF ClaimRow
  <2>2. rows' = rows \union {job[c].t} /\ job[c].t \notin rows
    BY <1>1, <1>a, <2>1 DEF ClaimRow, RowsOK
  <2>3. Ledger!Claim(job[c].t)
    BY <1>1, <2>2 DEF ClaimRow, Ledger!Claim
  <2> QED BY <2>1, <2>3, SMT DEF Ledger!Next, Ledger!Claim
<1>2. ASSUME NEW c \in Callers, IncVault(c) PROVE Ledger!Next
  <2>1. job[c].t \in Transfers /\ job[c].t \in rows /\ vaultIncs[job[c].t] = 0
    BY <1>2, <1>a DEF IncVault, InTry, IInv, Claimed, Booking, OwesBooking
  <2>2. Ledger!RaiseVault(job[c].t)
    BY <1>2, <2>1 DEF IncVault, Ledger!RaiseVault
  <2> QED BY <2>1, <2>2 DEF Ledger!Next
<1>3. ASSUME NEW c \in Callers, IncUser(c) PROVE Ledger!Next
  <2>1. job[c].t \in Transfers /\ vaultIncs[job[c].t] = 1 /\ userIncs[job[c].t] = 0
    BY <1>3, <1>a DEF IncUser, InTry, IInv, Booking, OwesBooking
  <2>2. Ledger!PayUser(job[c].t)
    BY <1>3, <2>1 DEF IncUser, Ledger!PayUser
  <2> QED BY <2>1, <2>2 DEF Ledger!Next
<1>4. ASSUME NEW c \in Callers, FlipCredit(c) PROVE UNCHANGED Ledger!vars
  <2>1. rows' = rows BY <1>4, <1>a DEF FlipCredit, RowsOK, InTry
  <2> QED BY <1>4, <1>b, <2>1 DEF FlipCredit
<1>5. ASSUME NEW c \in Callers, CatchWrite(c) PROVE UNCHANGED Ledger!vars
  <2>1. row[job[c].t] # "none" BY <1>5 DEF CatchWrite, IInv, Claimed
  <2>2. rows' = rows BY <1>5, <1>a, <2>1 DEF CatchWrite, RowsOK
  <2> QED BY <1>5, <1>b, <2>2 DEF CatchWrite
<1>6. ASSUME NEW c \in Callers,
             \/ StartTick(c) \/ ApplyCredit(c) \/ Duplicate(c) \/ LoadRetry(c)
             \/ RetryNext(c) \/ EndTick(c) \/ ReadIntent(c) \/ ChooseVault(c)
             \/ NoVaultForAsset(c) \/ FindDeposit(c) \/ CreateDeposit(c)
             \/ AlreadyFinal(c) \/ IncTotals(c) \/ ResolveSession(c)
             \/ Throw(c) \/ ThrowOut(c)
      PROVE  UNCHANGED <<rows, vaultIncs, userIncs>>
  BY <1>6 DEF StartTick, ApplyCredit, Duplicate, LoadRetry, RetryNext, EndTick, ReadIntent,
     ChooseVault, NoVaultForAsset, FindDeposit, CreateDeposit, AlreadyFinal, IncTotals,
     ResolveSession, Throw, ThrowOut
<1>7. ASSUME \/ \E q \in QrCalls : QrSetActiveVault(q) \/ QrExpireOthers(q) \/ QrOpenSession(q)
             \/ \E v \in Vaults : ToggleVault(v)
             \/ Crash
             \/ UNCHANGED vars
      PROVE  UNCHANGED <<rows, vaultIncs, userIncs>>
  BY <1>7 DEF QrSetActiveVault, QrExpireOthers, QrOpenSession, ToggleVault, Crash, vars
<1> QED
  BY <1>1, <1>2, <1>3, <1>4, <1>5, <1>6, <1>7, <1>b DEF Next, Progress

(* The whole credit path, faults and restarts included, implements the     *)
(* ledger: claimed once, vault raised once, user paid once and after it.   *)
THEOREM Refinement == Spec => ImplementsLedger
BY RefinementInit, RefinementStep, IInvCorrect, PTL DEF Spec, ImplementsLedger, Ledger!Spec
=============================================================================
