--------------------------- MODULE AiCreditsProofs ----------------------------
(* What AiCredits guarantees for every set of users, orders, requests, calls   *)
(* and workers, every cost scale and every bound on faults.                    *)
EXTENDS AiCredits, FiniteSetTheorems, WellFoundedInduction, TLAPS

-------------------------------------------------------------------------------
(* Costs *)

(* A reservation holds a whole, positive number of rupees.                     *)
LEMMA WholeIsPositive ==
  ASSUME NEW est \in Nat
  PROVE  Whole(est) \in Nat \ {0}
  <1>1. Ceil(est) \in Int
    BY CreditsAssumption DEF Ceil
  <1> QED
    BY <1>1 DEF Whole, Greatest

(* A charge is a whole number of rupees that the reservation covers.           *)
LEMMA ChargeIsCovered ==
  ASSUME NEW est \in Nat, NEW actual \in Nat
  PROVE  /\ Charge(est, actual) \in Nat
         /\ Charge(est, actual) <= Whole(est)
  <1>1. Least(actual, est) \in Nat
    BY DEF Least
  <1>2. \A x \in Nat : Round(x) \in Int
    BY CreditsAssumption DEF Round
  <1> QED
    BY <1>1, <1>2, WholeIsPositive DEF Charge, Least, Greatest

(* Recomputing a charge from the recorded, clamped cost gives the same charge. *)
LEMMA ChargeFromRecord ==
  ASSUME NEW est \in Nat, NEW actual \in Nat
  PROVE  Charge(est, Least(actual, est)) = Charge(est, actual)
  <1>1. Least(Least(actual, est), est) = Least(actual, est)
    BY DEF Least
  <1> QED
    BY <1>1 DEF Charge

-------------------------------------------------------------------------------
(* Type correctness *)

LEMMA TypeInit == Init => TypeOK
  BY CreditsAssumption
  DEF Init, TypeOK, Rows, NoRow, Status, PC, WorkerStates, Idle

(* Crediting or debiting a user by whole rupees leaves whole balances.         *)
LEMMA CreditType ==
  ASSUME TypeOK, NEW u \in Users, NEW n \in Int,
         balance' = [balance EXCEPT ![u] = @ + n]
  PROVE  balance' \in [Users -> Int]
  BY DEF TypeOK

LEMMA OwnerType == \A r \in Requests : Owner[r] \in Users
  BY CreditsAssumption

(* The shared halves of the actions keep the columns they write well typed.    *)
LEMMA BookTopUpType ==
  ASSUME TypeOK, NEW o \in Orders, BookTopUp(o)
  PROVE  /\ topup' \in [Orders -> Nat]
         /\ balance' \in [Users -> Int]
  BY CreditsAssumption DEF TypeOK, BookTopUp

LEMMA SettleCommitType ==
  ASSUME TypeOK, NEW r \in Requests, NEW actual \in Nat, SettleCommit(r, actual)
  PROVE  /\ rsv' \in [Requests -> Rows]
         /\ \A q \in Requests : rsv'[q].actual <= rsv'[q].est
         /\ balance' \in [Users -> Int]
  <1>1. CASE rsv[r].status # "RESERVED"
    BY <1>1 DEF TypeOK, SettleCommit
  <1>2. CASE rsv[r].status = "RESERVED"
    <2> DEFINE clamped == Least(actual, rsv[r].est)
    <2>1. rsv[r] \in Rows
      BY DEF TypeOK
    <2>2. clamped \in Nat /\ clamped <= rsv[r].est
      BY <2>1 DEF Least, Rows
    <2>3. rsv' = [rsv EXCEPT ![r] = [status |-> "SETTLED", est |-> rsv[r].est,
                                     actual |-> clamped]]
      BY <1>2 DEF SettleCommit
    <2> DEFINE back == Whole(rsv[r].est) - Charge(rsv[r].est, actual)
    <2>4. back \in Int
      <3>1. rsv[r].est \in Nat
        BY <2>1 DEF Rows
      <3>2. Whole(rsv[r].est) \in Nat /\ Charge(rsv[r].est, actual) \in Nat
        BY <3>1, WholeIsPositive, ChargeIsCovered
      <3> QED
        BY <3>2
    <2>5. balance' = [balance EXCEPT ![Owner[r]] = @ + back]
      BY <1>2 DEF SettleCommit
    <2>6. rsv' \in [Requests -> Rows] /\ \A q \in Requests : rsv'[q].actual <= rsv'[q].est
      BY <2>1, <2>2, <2>3 DEF TypeOK, Rows, Status
    <2>7. balance' \in [Users -> Int]
      <3> HIDE DEF back
      <3> QED
        BY <2>4, <2>5, CreditType, OwnerType
    <2> QED
      BY <2>6, <2>7
  <1> QED
    BY <1>1, <1>2

LEMMA RefundCommitType ==
  ASSUME TypeOK, NEW r \in Requests, RefundCommit(r)
  PROVE  /\ rsv' \in [Requests -> Rows]
         /\ \A q \in Requests : rsv'[q].actual <= rsv'[q].est
         /\ balance' \in [Users -> Int]
  <1>1. CASE rsv[r].status # "RESERVED"
    BY <1>1 DEF TypeOK, RefundCommit
  <1>2. CASE rsv[r].status = "RESERVED"
    <2>1. rsv[r] \in Rows
      BY DEF TypeOK
    <2>2. Whole(rsv[r].est) \in Int
      BY <2>1, WholeIsPositive DEF Rows
    <2>3. /\ rsv' = [rsv EXCEPT ![r].status = "REFUNDED"]
          /\ balance' = [balance EXCEPT ![Owner[r]] = @ + Whole(rsv[r].est)]
      BY <1>2 DEF RefundCommit
    <2>4. balance' \in [Users -> Int]
      BY <2>2, <2>3, CreditType, OwnerType
    <2> QED
      BY <2>1, <2>3, <2>4 DEF TypeOK, Rows, Status
  <1> QED
    BY <1>1, <1>2

(* A call's step moves its own program counter to one of the known places.     *)
LEMMA AfterFailureType ==
  \A s \in PC : AfterFailure(s) \in PC
  BY DEF AfterFailure, PC, Ended

LEMMA FaultType ==
  ASSUME TypeOK, Fault \/ NoFault
  PROVE  faults' \in 0..MaxFaults
  BY CreditsAssumption DEF TypeOK, Fault, NoFault

LEMMA CommitType ==
  ASSUME TypeOK, NEW c \in Calls, NEW s \in PC, Commit(c, s)
  PROVE  pc' \in [Calls -> PC] /\ faults' \in 0..MaxFaults
  <1>1. pc \in [Calls -> PC] /\ AfterFailure(pc[c]) \in PC
    BY AfterFailureType DEF TypeOK
  <1>2. PICK t \in PC : pc' = [pc EXCEPT ![c] = t]
    BY <1>1 DEF Commit, Goto
  <1>3. faults' \in 0..MaxFaults
    BY FaultType DEF Commit
  <1> QED
    BY <1>1, <1>2, <1>3

LEMMA WorkerDoneType ==
  ASSUME TypeOK, NEW w \in Workers, NEW r \in Requests, WorkerDone(w, r)
  PROVE  /\ worker' \in [Workers -> WorkerStates]
         /\ job' \in [Requests -> {"absent", "delayed", "active", "finished"}]
  <1>1. worker[w] \in WorkerStates
    BY DEF TypeOK
  <1>2. Idle \in WorkerStates
    BY DEF Idle, WorkerStates
  <1>3. [task |-> worker[w].task, todo |-> worker[w].todo \ {r}, cur |-> NoRequest]
          \in WorkerStates
    BY <1>1 DEF WorkerStates
  <1> QED
    BY <1>2, <1>3 DEF TypeOK, WorkerDone

LEMMA LimitsType == 0 \in 0..SweepAge /\ 0 \in 0..ReleaseDelay
  BY CreditsAssumption

LEMMA CallStepType ==
  ASSUME TypeOK, NEW c \in Calls, CallStep(c)
  PROVE  TypeOK'
  <1> DEFINE r == ReqOf[c]
  <1>r. r \in Requests /\ EstOf[c] \in Nat
    BY CreditsAssumption
  <1> HIDE DEF r
  <1>1. CASE StartCall(c)
    BY <1>1 DEF StartCall, TypeOK, Goto, PC, jobs
  <1>2. CASE LookupReservation(c)
    BY <1>2 DEF LookupReservation, TypeOK, Goto, PC, jobs, rows
  <1>3. CASE ReserveRefused(c)
    BY <1>3 DEF ReserveRefused, TypeOK, Goto, PC, Ended, jobs, rows
  <1>4. CASE ReserveDuplicate(c)
    BY <1>4 DEF ReserveDuplicate, TypeOK, Goto, PC, jobs, rows
  <1>5. CASE ReserveCreated(c)
    <2> DEFINE back == -Whole(EstOf[c])
    <2>1. CreateReservation(r, EstOf[c]) /\ Commit(c, "enqueue")
      BY <1>5 DEF ReserveCreated, r
    <2>2. back \in Int
      BY <1>r, WholeIsPositive
    <2>3. balance' = [balance EXCEPT ![Owner[r]] = @ + back]
      <3>1. balance[Owner[r]] \in Int /\ Whole(EstOf[c]) \in Int
        BY <1>r, OwnerType, WholeIsPositive DEF TypeOK
      <3>2. balance[Owner[r]] - Whole(EstOf[c]) = balance[Owner[r]] + back
        BY <3>1
      <3> QED
        BY <2>1, <3>2 DEF CreateReservation
    <2>4. balance' \in [Users -> Int]
      <3> HIDE DEF back
      <3> QED
        BY <1>r, <2>2, <2>3, CreditType, OwnerType
    <2>5. /\ rsv' \in [Requests -> Rows]
          /\ \A q \in Requests : rsv'[q].actual <= rsv'[q].est
      BY <1>r, <2>1 DEF CreateReservation, TypeOK, Rows, Status
    <2>6. age' \in [Requests -> 0..SweepAge]
      BY <2>1, LimitsType DEF CreateReservation, TypeOK
    <2>7. pc' \in [Calls -> PC] /\ faults' \in 0..MaxFaults
      BY <2>1, CommitType DEF PC
    <2> QED
      BY <1>5, <2>4, <2>5, <2>6, <2>7 DEF ReserveCreated, TypeOK, jobs
  <1>6. CASE RefetchWinner(c)
    BY <1>6 DEF RefetchWinner, TypeOK, Goto, PC, jobs, rows
  <1>7. CASE EnqueueRelease(c)
    <2>1. /\ job' \in [Requests -> {"absent", "delayed", "active", "finished"}]
          /\ jobAge' \in [Requests -> 0..ReleaseDelay]
      BY <1>7, LimitsType DEF EnqueueRelease, TypeOK, jobs
    <2>2. pc' \in [Calls -> PC]
      BY <1>7 DEF EnqueueRelease, TypeOK, Goto, PC
    <2> QED
      BY <1>7, <2>1, <2>2 DEF EnqueueRelease, TypeOK, rows
  <1>8. CASE AgentAnswers(c)
    BY <1>8, CreditsAssumption DEF AgentAnswers, TypeOK, Goto, PC, jobs, rows
  <1>9. CASE AgentFails(c)
    BY <1>9 DEF AgentFails, TypeOK, Goto, PC, jobs, rows
  <1>10. CASE SettleRead(c)
    BY <1>10 DEF SettleRead, TypeOK, Goto, PC, jobs, rows
  <1>11. CASE SettleWrite(c)
    <2>1. /\ rsv' \in [Requests -> Rows]
          /\ \A q \in Requests : rsv'[q].actual <= rsv'[q].est
          /\ balance' \in [Users -> Int]
      <3>1. SettleCommit(r, cost[c]) /\ cost[c] \in Nat
        BY <1>11 DEF SettleWrite, TypeOK, r
      <3> QED
        BY <1>r, <3>1, SettleCommitType
    <2>2. pc' \in [Calls -> PC] /\ faults' \in 0..MaxFaults
      BY <1>11, CommitType DEF SettleWrite, PC
    <2> QED
      BY <1>11, <2>1, <2>2 DEF SettleWrite, TypeOK, jobs
  <1>12. CASE RefundRead(c)
    BY <1>12 DEF RefundRead, TypeOK, Goto, PC, jobs, rows
  <1>13. CASE RefundWrite(c)
    <2>1. /\ rsv' \in [Requests -> Rows]
          /\ \A q \in Requests : rsv'[q].actual <= rsv'[q].est
          /\ balance' \in [Users -> Int]
      BY <1>13, <1>r, RefundCommitType DEF RefundWrite, r
    <2>2. pc' \in [Calls -> PC] /\ faults' \in 0..MaxFaults
      BY <1>13, CommitType DEF RefundWrite, PC
    <2> QED
      BY <1>13, <2>1, <2>2 DEF RefundWrite, TypeOK, jobs
  <1>14. CASE FinishCall(c)
    <2>1. /\ job' \in [Requests -> {"absent", "delayed", "active", "finished"}]
          /\ jobAge' \in [Requests -> 0..ReleaseDelay]
      BY <1>14, LimitsType DEF FinishCall, TypeOK, jobs
    <2>2. pc' \in [Calls -> PC]
      BY <1>14 DEF FinishCall, TypeOK, Goto, PC, Ended
    <2> QED
      BY <1>14, <2>1, <2>2 DEF FinishCall, TypeOK, rows
  <1>15. CASE StepFails(c)
    <2>1. pc' \in [Calls -> PC]
      BY <1>15, AfterFailureType DEF StepFails, Goto, TypeOK
    <2>2. faults' \in 0..MaxFaults
      BY <1>15, FaultType DEF StepFails
    <2> QED
      BY <1>15, <2>1, <2>2 DEF StepFails, TypeOK, jobs, rows
  <1> QED
    BY <1>1, <1>2, <1>3, <1>4, <1>5, <1>6, <1>7, <1>8, <1>9, <1>10, <1>11, <1>12, <1>13,
       <1>14, <1>15 DEF CallStep

LEMMA WorkerStepType ==
  ASSUME TypeOK, NEW w \in Workers, WorkerStep(w)
  PROVE  TypeOK'
  <1>w. /\ worker[w] \in WorkerStates
        /\ Idle \in WorkerStates
    BY DEF TypeOK, Idle, WorkerStates
  <1>1. ASSUME NEW r \in Requests, TakeReleaseJob(w, r)
        PROVE  TypeOK'
    BY <1>1 DEF TakeReleaseJob, TypeOK, WorkerStates, rows
  <1>2. ASSUME NEW r \in Requests, WorkerRead(w, r)
        PROVE  TypeOK'
    <2>1. /\ worker' \in [Workers -> WorkerStates]
          /\ job' \in [Requests -> {"absent", "delayed", "active", "finished"}]
      <3>1. CASE rsv[r].status = "RESERVED"
        <4>1. [worker[w] EXCEPT !.cur = r] \in WorkerStates
          BY <1>w DEF WorkerStates
        <4>2. worker' = [worker EXCEPT ![w] = [worker[w] EXCEPT !.cur = r]] /\ UNCHANGED job
          BY <1>2, <3>1 DEF WorkerRead
        <4> QED
          BY <4>1, <4>2 DEF TypeOK
      <3>2. CASE rsv[r].status # "RESERVED"
        BY <1>2, <3>2, WorkerDoneType DEF WorkerRead
      <3> QED
        BY <3>1, <3>2
    <2> QED
      BY <1>2, <2>1 DEF WorkerRead, TypeOK, rows
  <1>3. CASE StartSweep(w)
    BY <1>3 DEF StartSweep, Stale, TypeOK, WorkerStates, rows, jobs
  <1>4. CASE WorkerWrite(w)
    <2>1. worker[w].cur \in Requests
      BY <1>w, <1>4 DEF WorkerWrite, WorkerStates
    <2>2. RefundCommit(worker[w].cur) /\ WorkerDone(w, worker[w].cur)
      BY <1>4 DEF WorkerWrite
    <2> QED
      BY <1>4, <2>1, <2>2, RefundCommitType, WorkerDoneType DEF WorkerWrite, TypeOK
  <1>5. CASE WorkerFails(w)
    <2>1. /\ rsv' \in [Requests -> Rows]
          /\ \A q \in Requests : rsv'[q].actual <= rsv'[q].est
          /\ balance' \in [Users -> Int]
      <3>1. CASE UNCHANGED <<rsv, balance>>
        BY <3>1 DEF TypeOK
      <3>2. CASE worker[w].cur # NoRequest /\ RefundCommit(worker[w].cur)
        <4>1. worker[w].cur \in Requests
          BY <1>w, <3>2 DEF WorkerStates
        <4> QED
          BY <3>2, <4>1, RefundCommitType
      <3> QED
        BY <1>5, <3>1, <3>2 DEF WorkerFails
    <2>2. faults' \in 0..MaxFaults
      BY <1>5, FaultType DEF WorkerFails
    <2>3. worker' \in [Workers -> WorkerStates]
      BY <1>w, <1>5 DEF WorkerFails, TypeOK
    <2>4. job' \in [Requests -> {"absent", "delayed", "active", "finished"}]
      BY <1>5 DEF WorkerFails, TypeOK
    <2> QED
      BY <1>5, <2>1, <2>2, <2>3, <2>4 DEF WorkerFails, TypeOK
  <1> QED
    BY <1>1, <1>2, <1>3, <1>4, <1>5 DEF WorkerStep

LEMMA TopUpStepType ==
  ASSUME TypeOK, NEW o \in Orders,
         CreateOrder(o) \/ CapturePayment(o) \/ HandlePaymentCaptured(o)
  PROVE  TypeOK'
  <1>1. CASE CreateOrder(o)
    BY <1>1, CreditsAssumption DEF CreateOrder, TypeOK, jobs
  <1>2. CASE CapturePayment(o)
    BY <1>2 DEF CapturePayment, TypeOK, jobs
  <1>3. CASE HandlePaymentCaptured(o)
    <2>1. topup' \in [Orders -> Nat] /\ balance' \in [Users -> Int]
      BY <1>3, BookTopUpType DEF HandlePaymentCaptured
    <2>2. faults' \in 0..MaxFaults
      BY <1>3, FaultType DEF HandlePaymentCaptured
    <2> QED
      BY <1>3, <2>1, <2>2 DEF HandlePaymentCaptured, TypeOK, jobs
  <1> QED
    BY <1>1, <1>2, <1>3

LEMMA EnvironmentStepType ==
  ASSUME TypeOK, Crash \/ Tick
  PROVE  TypeOK'
  <1>1. CASE Crash
    <2>1. faults' \in 0..MaxFaults
      BY <1>1, FaultType DEF Crash
    <2>2. pc' \in [Calls -> PC] /\ worker' \in [Workers -> WorkerStates]
      BY <1>1 DEF Crash, TypeOK, PC, Ended, Idle, WorkerStates
    <2>3. job' \in [Requests -> {"absent", "delayed", "active", "finished"}]
      BY <1>1 DEF Crash, TypeOK
    <2> QED
      BY <1>1, <2>1, <2>2, <2>3 DEF Crash, TypeOK, rows
  <1>2. CASE Tick
    <2>1. age' \in [Requests -> 0..SweepAge] /\ jobAge' \in [Requests -> 0..ReleaseDelay]
      BY <1>2, CreditsAssumption DEF Tick, Older, Least, TypeOK
    <2> QED
      BY <1>2, <2>1 DEF Tick, TypeOK, rows
  <1> QED
    BY <1>1, <1>2

LEMMA TypeStep == TypeOK /\ [Next]_vars => TypeOK'
  <1> SUFFICES ASSUME TypeOK, [Next]_vars
               PROVE  TypeOK'
    OBVIOUS
  <1>1. CASE UNCHANGED vars
    BY <1>1 DEF vars, TypeOK
  <1>2. CASE Next
    BY <1>2, TopUpStepType, CallStepType, WorkerStepType, EnvironmentStepType DEF Next
  <1> QED
    BY <1>1, <1>2

(* Every reachable state is well typed.                                        *)
THEOREM TypeCorrect == Spec => []TypeOK
  BY TypeInit, TypeStep, PTL DEF Spec

-------------------------------------------------------------------------------
(* The ledger.  Every step moves a balance exactly by what one row changes.    *)

(* An order that left the state "none" is worth at least the minimum top-up.   *)
OrdersInv == \A o \in Orders : order[o].state # "none" => order[o].rupees \in Nat \ {0}

LEMMA OrdersInit == Init => OrdersInv
  BY DEF Init, OrdersInv

LEMMA OrdersStep == TypeOK /\ OrdersInv /\ [Next]_vars => OrdersInv'
  <1> SUFFICES ASSUME TypeOK, OrdersInv, [Next]_vars
               PROVE  OrdersInv'
    OBVIOUS
  <1>1. ASSUME NEW o \in Orders, CreateOrder(o)
        PROVE  OrdersInv'
    BY <1>1, CreditsAssumption DEF CreateOrder, OrdersInv, TypeOK
  <1>2. ASSUME NEW o \in Orders, CapturePayment(o)
        PROVE  OrdersInv'
    BY <1>2 DEF CapturePayment, OrdersInv, TypeOK
  <1>3. ASSUME NEW o \in Orders, HandlePaymentCaptured(o)
        PROVE  OrdersInv'
    BY <1>3 DEF HandlePaymentCaptured, OrdersInv, TypeOK
  <1>4. ASSUME NEW c \in Calls, CallStep(c)
        PROVE  UNCHANGED order
    BY <1>4 DEF CallStep, StartCall, LookupReservation, ReserveRefused, ReserveDuplicate,
                ReserveCreated, RefetchWinner, EnqueueRelease, AgentAnswers, AgentFails,
                SettleRead, SettleWrite, RefundRead, RefundWrite, FinishCall, StepFails
  <1>5. ASSUME NEW w \in Workers, WorkerStep(w)
        PROVE  UNCHANGED order
    BY <1>5 DEF WorkerStep, TakeReleaseJob, WorkerRead, StartSweep, WorkerWrite, WorkerFails
  <1>6. CASE Crash \/ Tick \/ UNCHANGED vars
    BY <1>6 DEF Crash, Tick, vars, OrdersInv
  <1> QED
    BY <1>1, <1>2, <1>3, <1>4, <1>5, <1>6 DEF Next, OrdersInv

LEMMA BookTopUpRefines ==
  ASSUME TypeOK, OrdersInv, NEW o \in Orders, order[o].state # "none",
         BookTopUp(o), UNCHANGED rsv
  PROVE  Ledger!TopUp(o) \/ UNCHANGED rows
  <1>1. CASE topup[o] # 0
    BY <1>1 DEF BookTopUp, rows
  <1>2. CASE topup[o] = 0
    <2>1. /\ topup' = [topup EXCEPT ![o] = order[o].rupees]
          /\ balance' = [balance EXCEPT ![Payer[o]] = @ + order[o].rupees]
      BY <1>2 DEF BookTopUp
    <2>2. topup'[o] = order[o].rupees /\ order[o].rupees \in Nat \ {0}
      BY <2>1 DEF TypeOK, OrdersInv
    <2> QED
      BY <1>2, <2>1, <2>2 DEF Ledger!TopUp
  <1> QED
    BY <1>1, <1>2

LEMMA CreateReservationRefines ==
  ASSUME TypeOK, NEW r \in Requests, NEW est \in Nat, rsv[r] = NoRow,
         balance[Owner[r]] >= Whole(est), CreateReservation(r, est), UNCHANGED topup
  PROVE  Ledger!Reserve(r)
  <1> DEFINE H == [q \in Requests |-> Holding(rsv[q])]
             row == [status |-> "RESERVED", est |-> est, actual |-> 0]
  <1>1. Whole(est) \in Nat \ {0}
    BY WholeIsPositive
  <1>2. balance[Owner[r]] \in Int
    BY OwnerType DEF TypeOK
  <1>3. H[r].status = "NONE"
    BY DEF Holding, NoRow
  <1>4. Holding(row) = [status |-> "RESERVED", amount |-> Whole(est), charge |-> 0]
    BY DEF Holding
  <1>5. rsv' = [rsv EXCEPT ![r] = row] /\ rsv \in [Requests -> Rows]
    BY DEF CreateReservation, TypeOK
  <1>6. H' = [H EXCEPT ![r] = Holding(row)]
    BY <1>5
  <1>7. H'[r] = Holding(row) /\ H'[r].amount = Whole(est)
    BY <1>4, <1>6
  <1>8. Whole(est) \in 1..balance[Owner[r]]
    BY <1>1, <1>2
  <1>9. balance' = [balance EXCEPT ![Owner[r]] = @ - Whole(est)]
    BY DEF CreateReservation
  <1> QED
    BY <1>3, <1>4, <1>6, <1>7, <1>8, <1>9 DEF Ledger!Reserve

LEMMA SettleCommitRefines ==
  ASSUME TypeOK, NEW r \in Requests, NEW actual \in Nat, SettleCommit(r, actual),
         UNCHANGED topup
  PROVE  Ledger!Settle(r) \/ UNCHANGED rows
  <1> DEFINE H == [q \in Requests |-> Holding(rsv[q])]
             est == rsv[r].est
             row == [status |-> "SETTLED", est |-> est, actual |-> Least(actual, est)]
  <1>1. CASE rsv[r].status # "RESERVED"
    BY <1>1 DEF SettleCommit, rows
  <1>2. CASE rsv[r].status = "RESERVED"
    <2>1. est \in Nat
      BY DEF TypeOK, Rows
    <2>2. H[r] = [status |-> "RESERVED", amount |-> Whole(est), charge |-> 0]
      BY <1>2 DEF Holding
    <2>3. rsv' = [rsv EXCEPT ![r] = row] /\ rsv \in [Requests -> Rows]
      BY <1>2 DEF SettleCommit, TypeOK
    <2>4. Holding(row) = [status |-> "SETTLED", amount |-> Whole(est),
                          charge |-> Charge(est, actual)]
      BY <2>1, ChargeFromRecord DEF Holding
    <2>5. H' = [H EXCEPT ![r] = Holding(row)]
      BY <2>3
    <2>6. Charge(est, actual) \in 0..Whole(est)
      <3>1. Charge(est, actual) \in Nat /\ Charge(est, actual) <= Whole(est)
        BY <2>1, ChargeIsCovered
      <3>2. Whole(est) \in Nat
        BY <2>1, WholeIsPositive
      <3> QED
        BY <3>1, <3>2
    <2>7. balance' = [balance EXCEPT ![Owner[r]] = @ + (Whole(est) - Charge(est, actual))]
      BY <1>2 DEF SettleCommit
    <2>8. Ledger!Decide(r, "SETTLED", Charge(est, actual))
      <3>1. H[r].status = "RESERVED" /\ H[r].amount = Whole(est)
        BY <2>2
      <3>2. H' = [H EXCEPT ![r] = [status |-> "SETTLED", amount |-> H[r].amount,
                                   charge |-> Charge(est, actual)]]
        BY <2>4, <2>5, <3>1
      <3>3. balance' = [balance EXCEPT ![Owner[r]] =
                          @ + (H[r].amount - Charge(est, actual))]
        BY <2>7, <3>1
      <3>4. Charge(est, actual) \in 0..H[r].amount
        BY <2>6, <3>1
      <3> QED
        BY <3>1, <3>2, <3>3, <3>4 DEF Ledger!Decide
    <2>9. Charge(est, actual) \in 0..H[r].amount
      BY <2>2, <2>6
    <2> QED
      BY <2>8, <2>9 DEF Ledger!Settle
  <1> QED
    BY <1>1, <1>2

LEMMA RefundCommitRefines ==
  ASSUME TypeOK, NEW r \in Requests, RefundCommit(r), UNCHANGED topup
  PROVE  Ledger!Refund(r) \/ UNCHANGED rows
  <1> DEFINE H == [q \in Requests |-> Holding(rsv[q])]
             est == rsv[r].est
             row == [rsv[r] EXCEPT !.status = "REFUNDED"]
  <1>1. CASE rsv[r].status # "RESERVED"
    BY <1>1 DEF RefundCommit, rows
  <1>2. CASE rsv[r].status = "RESERVED"
    <2>1. rsv[r] \in Rows
      BY DEF TypeOK
    <2>2. H[r] = [status |-> "RESERVED", amount |-> Whole(est), charge |-> 0]
      BY <1>2 DEF Holding
    <2>3. rsv' = [rsv EXCEPT ![r] = row] /\ rsv \in [Requests -> Rows]
      BY <1>2 DEF RefundCommit, TypeOK
    <2>4. row.status = "REFUNDED" /\ row.est = est
      BY <2>1 DEF Rows
    <2>5. Holding(row) = [status |-> "REFUNDED", amount |-> Whole(est), charge |-> 0]
      BY <2>4 DEF Holding
    <2>6. H' = [H EXCEPT ![r] = Holding(row)]
      BY <2>3
    <2>7. 0 \in 0..Whole(est) /\ Whole(est) - 0 = Whole(est)
      BY <2>1, WholeIsPositive DEF Rows
    <2>8. balance' = [balance EXCEPT ![Owner[r]] = @ + (Whole(est) - 0)]
      BY <1>2, <2>7 DEF RefundCommit
    <2> QED
      <3>1. H[r].status = "RESERVED" /\ H[r].amount = Whole(est)
        BY <2>2
      <3>2. H' = [H EXCEPT ![r] = [status |-> "REFUNDED", amount |-> H[r].amount,
                                   charge |-> 0]]
        BY <2>5, <2>6, <3>1
      <3>3. balance' = [balance EXCEPT ![Owner[r]] = @ + (H[r].amount - 0)]
        BY <2>8, <3>1
      <3>4. 0 \in 0..H[r].amount
        BY <2>7, <3>1
      <3> QED
        BY <3>1, <3>2, <3>3, <3>4 DEF Ledger!Refund, Ledger!Decide
  <1> QED
    BY <1>1, <1>2

LEMMA SameRowsSameLedger ==
  ASSUME UNCHANGED rows
  PROVE  UNCHANGED Ledger!vars
  BY DEF rows, Ledger!vars

LEMMA CallStepRefines ==
  ASSUME TypeOK, NEW c \in Calls, CallStep(c)
  PROVE  [Ledger!Next]_(Ledger!vars)
  <1> DEFINE r == ReqOf[c]
  <1>r. r \in Requests /\ EstOf[c] \in Nat
    BY CreditsAssumption
  <1>1. CASE ReserveCreated(c)
    <2>1. /\ balance[Owner[r]] >= Whole(EstOf[c]) /\ rsv[r] = NoRow
          /\ CreateReservation(r, EstOf[c]) /\ UNCHANGED topup
      BY <1>1 DEF ReserveCreated
    <2> QED
      BY <1>r, <2>1, CreateReservationRefines DEF Ledger!Next
  <1>2. CASE SettleWrite(c)
    <2>1. SettleCommit(r, cost[c]) /\ UNCHANGED topup /\ cost[c] \in Nat
      BY <1>2 DEF SettleWrite, TypeOK
    <2>2. Ledger!Settle(r) \/ UNCHANGED rows
      BY <1>r, <2>1, SettleCommitRefines
    <2> QED
      BY <1>r, <2>2, SameRowsSameLedger DEF Ledger!Next
  <1>3. CASE RefundWrite(c)
    <2>1. RefundCommit(r) /\ UNCHANGED topup
      BY <1>3 DEF RefundWrite
    <2>2. Ledger!Refund(r) \/ UNCHANGED rows
      BY <1>r, <2>1, RefundCommitRefines
    <2> QED
      BY <1>r, <2>2, SameRowsSameLedger DEF Ledger!Next
  <1>4. CASE \/ StartCall(c) \/ LookupReservation(c)
             \/ ReserveRefused(c) \/ ReserveDuplicate(c) \/ RefetchWinner(c)
             \/ EnqueueRelease(c) \/ AgentAnswers(c) \/ AgentFails(c)
             \/ SettleRead(c) \/ RefundRead(c) \/ FinishCall(c) \/ StepFails(c)
    <2>1. UNCHANGED rows
      BY <1>4 DEF StartCall, LookupReservation, ReserveRefused, ReserveDuplicate,
                  RefetchWinner, EnqueueRelease, AgentAnswers, AgentFails, SettleRead,
                  RefundRead, FinishCall, StepFails, rows
    <2> QED
      BY <2>1, SameRowsSameLedger
  <1> QED
    BY <1>1, <1>2, <1>3, <1>4 DEF CallStep

LEMMA WorkerStepRefines ==
  ASSUME TypeOK, NEW w \in Workers, WorkerStep(w)
  PROVE  [Ledger!Next]_(Ledger!vars)
  <1>w. worker[w].cur # NoRequest => worker[w].cur \in Requests
    BY DEF TypeOK, WorkerStates
  <1>1. CASE \/ \E r \in Requests : TakeReleaseJob(w, r) \/ WorkerRead(w, r)
             \/ StartSweep(w)
    <2>1. UNCHANGED rows
      BY <1>1 DEF TakeReleaseJob, WorkerRead, StartSweep
    <2> QED
      BY <2>1, SameRowsSameLedger
  <1>2. CASE WorkerWrite(w) \/ WorkerFails(w)
    <2>1. CASE worker[w].cur # NoRequest /\ RefundCommit(worker[w].cur)
      <3>1. UNCHANGED topup
        BY <1>2 DEF WorkerWrite, WorkerFails
      <3>2. Ledger!Refund(worker[w].cur) \/ UNCHANGED rows
        BY <1>w, <2>1, <3>1, RefundCommitRefines
      <3> QED
        BY <1>w, <2>1, <3>2, SameRowsSameLedger DEF Ledger!Next
    <2>2. CASE UNCHANGED <<rsv, balance>>
      <3>1. UNCHANGED rows
        BY <1>2, <2>2 DEF WorkerWrite, WorkerFails, rows
      <3> QED
        BY <3>1, SameRowsSameLedger
    <2> QED
      BY <1>2, <2>1, <2>2 DEF WorkerWrite, WorkerFails
  <1> QED
    BY <1>1, <1>2 DEF WorkerStep

LEMMA StepRefines ==
  TypeOK /\ OrdersInv /\ [Next]_vars => [Ledger!Next]_(Ledger!vars)
  <1> SUFFICES ASSUME TypeOK, OrdersInv, [Next]_vars
               PROVE  [Ledger!Next]_(Ledger!vars)
    OBVIOUS
  <1>1. ASSUME NEW o \in Orders, HandlePaymentCaptured(o)
        PROVE  [Ledger!Next]_(Ledger!vars)
    <2>1. order[o].state # "none" /\ BookTopUp(o) /\ UNCHANGED rsv
      BY <1>1 DEF HandlePaymentCaptured
    <2>2. Ledger!TopUp(o) \/ UNCHANGED rows
      BY <2>1, BookTopUpRefines
    <2> QED
      BY <2>2, SameRowsSameLedger DEF Ledger!Next
  <1>2. ASSUME NEW o \in Orders, CreateOrder(o) \/ CapturePayment(o)
        PROVE  UNCHANGED rows
    BY <1>2 DEF CreateOrder, CapturePayment, rows
  <1>3. CASE Crash \/ Tick \/ UNCHANGED vars
    BY <1>3, SameRowsSameLedger DEF Crash, Tick, vars, rows
  <1> QED
    BY <1>1, <1>2, <1>3, CallStepRefines, WorkerStepRefines, SameRowsSameLedger DEF Next

LEMMA InitRefines == Init => Ledger!Init
  BY DEF Init, Ledger!Init, Ledger!NoHold, Holding, NoRow

(* CreditsService, under redelivery, retries, crashes and two kinds of         *)
(* background refund, implements the abstract ledger.                          *)
THEOREM CreditsImplementLedger == Spec => ImplementsLedger
  <1>1. Init /\ [][Next]_vars => [](TypeOK /\ OrdersInv)
    BY TypeInit, TypeStep, OrdersInit, OrdersStep, PTL
  <1>2. Init => Ledger!Init
    BY InitRefines
  <1>3. TypeOK /\ OrdersInv /\ [Next]_vars => [Ledger!Next]_(Ledger!vars)
    BY StepRefines
  <1> QED
    BY <1>1, <1>2, <1>3, PTL DEF Spec, ImplementsLedger, Ledger!Spec

-------------------------------------------------------------------------------
(* No overdraft.  It is inductive over the ledger's steps: only Reserve takes  *)
(* from a balance, and it takes no more than it finds.                         *)

LEMMA LedgerStepNoOverdraft ==
  ASSUME TypeOK, TypeOK', NoOverdraft, [Ledger!Next]_(Ledger!vars)
  PROVE  NoOverdraft'
  <1>1. ASSUME NEW o \in Orders, Ledger!TopUp(o)
        PROVE  NoOverdraft'
    BY <1>1, CreditsAssumption DEF Ledger!TopUp, NoOverdraft, TypeOK
  <1>2. ASSUME NEW r \in Requests, Ledger!Reserve(r)
        PROVE  NoOverdraft'
    BY <1>2, OwnerType DEF Ledger!Reserve, NoOverdraft, TypeOK
  <1>3. ASSUME NEW r \in Requests, Ledger!Settle(r) \/ Ledger!Refund(r)
        PROVE  NoOverdraft'
    <2> DEFINE amount == Holding(rsv[r]).amount
    <2>1. amount \in Nat
      <3>1. rsv[r].est \in Nat
        BY DEF TypeOK, Rows
      <3>2. Whole(rsv[r].est) \in Nat
        BY <3>1, WholeIsPositive
      <3> QED
        BY <3>2 DEF Holding
    <2>2. \E c \in 0..amount : balance' = [balance EXCEPT ![Owner[r]] = @ + (amount - c)]
      BY <1>3, <2>1 DEF Ledger!Settle, Ledger!Refund, Ledger!Decide
    <2> HIDE DEF amount
    <2> QED
      BY <2>1, <2>2, OwnerType DEF NoOverdraft, TypeOK
  <1>4. CASE UNCHANGED Ledger!vars
    BY <1>4 DEF Ledger!vars, NoOverdraft
  <1> QED
    BY <1>1, <1>2, <1>3, <1>4 DEF Ledger!Next

(* No interleaving overdraws a balance.                                        *)
THEOREM BalancesNeverNegative == Spec => []NoOverdraft
  <1> DEFINE Inv == TypeOK /\ OrdersInv /\ NoOverdraft
  <1>1. Init => Inv
    BY TypeInit, OrdersInit DEF Init, NoOverdraft
  <1>2. Inv /\ [Next]_vars => Inv'
    BY TypeStep, OrdersStep, StepRefines, LedgerStepNoOverdraft
  <1> QED
    BY <1>1, <1>2, PTL DEF Spec

-------------------------------------------------------------------------------
(* Sums.  Total picks the rows of a table one after the other, so what it      *)
(* gives is a value of a function g that adds up the parts of the table.       *)

One(T) == CHOOSE x \in T : TRUE
Adds(f, g, P) == g = [T \in P |-> IF T = {} THEN 0 ELSE f[One(T)] + g[T \ {One(T)}]]

LEMMA Smallest ==
  ASSUME NEW S, S \subseteq Nat, S # {}
  PROVE  \E n \in S : \A m \in S : m >= n
  <1> DEFINE Less == OpToRel(<, Nat)
  <1>1. \A k, m \in Nat : k < m => <<k, m>> \in Less
    BY DEF OpToRel
  <1>2. PICK n \in S : \A m \in S : ~ (<<m, n>> \in Less)
    BY NatLessThanWellFounded, WFMin
  <1> HIDE DEF Less
  <1>3. \A m \in S : ~ (m < n)
    BY <1>1, <1>2, Zenon
  <1> QED
    BY <1>3

LEMMA WithoutOne ==
  ASSUME NEW S, IsFiniteSet(S), NEW T \in SUBSET S, T # {}
  PROVE  /\ One(T) \in T /\ IsFiniteSet(T) /\ T \ {One(T)} \in SUBSET S
         /\ Cardinality(T) \in Nat \ {0} /\ Cardinality(T \ {One(T)}) = Cardinality(T) - 1
  <1>1. IsFiniteSet(T) /\ One(T) \in T
    BY FS_Subset DEF One
  <1>2. Cardinality(T) \in Nat /\ Cardinality(T \ {One(T)}) = Cardinality(T) - 1
    BY <1>1, FS_CardinalityType, FS_RemoveElement
  <1>3. Cardinality(T) # 0
    BY <1>1, FS_EmptySet
  <1> QED
    BY <1>1, <1>2, <1>3

(* The function is there: for parts of n rows, then of n + 1.                  *)
LEMMA AddsExists ==
  ASSUME NEW S, IsFiniteSet(S), NEW f
  PROVE  \E g : Adds(f, g, SUBSET S)
  <1> DEFINE Parts(n) == {T \in SUBSET S : Cardinality(T) <= n}
             Short    == {n \in Nat : ~ \E g : Adds(f, g, Parts(n))}
  <1>1. Parts(0) = {{}}
    <2>1. ASSUME NEW T \in SUBSET S, Cardinality(T) <= 0, T # {} PROVE FALSE
      <3>1. Cardinality(T) \in Nat \ {0}
        BY <2>1, WithoutOne
      <3> QED
        BY <2>1, <3>1
    <2>2. Cardinality({}) = 0
      BY FS_EmptySet
    <2>3. {} \in Parts(0)
      BY <2>2
    <2> QED
      BY <2>1, <2>3
  <1>2. 0 \notin Short
    <2> HIDE DEF Parts
    <2>0. \A T \in Parts(0) : T = {}
      BY <1>1
    <2>1. Adds(f, [T \in Parts(0) |-> 0], Parts(0))
      BY <2>0 DEF Adds
    <2> QED
      BY <2>1
  <1>3. ASSUME NEW n \in Nat, n \notin Short PROVE n + 1 \notin Short
    <2>1. PICK g : Adds(f, g, Parts(n))
      BY <1>3
    <2> DEFINE h == [T \in Parts(n + 1) |-> IF T = {} THEN 0 ELSE f[One(T)] + g[T \ {One(T)}]]
    <2>2. \A T \in Parts(n + 1) : T # {} => T \ {One(T)} \in Parts(n) /\ T \ {One(T)} \in Parts(n + 1)
      <3> SUFFICES ASSUME NEW T \in Parts(n + 1), T # {}
                   PROVE  T \ {One(T)} \in Parts(n) /\ T \ {One(T)} \in Parts(n + 1)
        OBVIOUS
      <3>1. T \ {One(T)} \in SUBSET S /\ Cardinality(T \ {One(T)}) = Cardinality(T) - 1
            /\ Cardinality(T) \in Nat
        BY WithoutOne
      <3> QED
        BY <3>1
    <2>3. ASSUME NEW T \in Parts(n), T \in Parts(n + 1) PROVE h[T] = g[T]
      <3>1. g[T] = IF T = {} THEN 0 ELSE f[One(T)] + g[T \ {One(T)}]
        BY <2>1 DEF Adds
      <3> QED
        BY <3>1, <2>3
    <2> HIDE DEF Parts
    <2>4. \A T \in Parts(n + 1) : h[T] = IF T = {} THEN 0 ELSE f[One(T)] + h[T \ {One(T)}]
      BY <2>2, <2>3
    <2>5. Adds(f, h, Parts(n + 1))
      BY <2>4 DEF Adds
    <2> QED
      BY <2>5
  <1>4. Short = {}
    <2> HIDE DEF Short
    <2> SUFFICES ASSUME Short # {} PROVE FALSE
      OBVIOUS
    <2>0. Short \subseteq Nat
      BY DEF Short
    <2>1. PICK n \in Short : \A m \in Short : m >= n
      BY <2>0, Smallest
    <2>2. n \in Nat /\ n # 0
      BY <2>0, <1>2
    <2>3. n - 1 \in Nat /\ n - 1 \notin Short
      BY <2>0, <2>1, <2>2
    <2>4. (n - 1) + 1 \notin Short
      BY <2>3, <1>3
    <2> QED
      BY <2>2, <2>4
  <1>5. \A T \in SUBSET S : Cardinality(T) <= Cardinality(S)
    BY FS_Subset
  <1>6. Cardinality(S) \in Nat /\ Parts(Cardinality(S)) = SUBSET S
    BY <1>5, FS_CardinalityType
  <1> QED
    BY <1>4, <1>6

LEMMA TotalIs ==
  ASSUME NEW S, IsFiniteSet(S), NEW f
  PROVE  \E g : Adds(f, g, SUBSET S) /\ Ledger!Total(f, S) = g[S]
  <1> DEFINE g == CHOOSE g : Adds(f, g, SUBSET S)
  <1>1. Adds(f, g, SUBSET S)
    <2>1. \E k : Adds(f, k, SUBSET S)
      BY AddsExists
    <2> QED
      BY <2>1, Zenon
  <1>2. Ledger!Total(f, S) = g[S]
    BY DEF Ledger!Total, Ledger!MapThenFoldSet, Adds, One
  <1> QED
    BY <1>1, <1>2

(* What holds of every part of a set if it does without One(T) holds of all.   *)
LEMMA PartByPart ==
  ASSUME NEW S, IsFiniteSet(S), NEW Fit,
         \A T \in SUBSET S : (T # {} => T \ {One(T)} \in Fit) => T \in Fit
  PROVE  \A T \in SUBSET S : T \in Fit
  <1> DEFINE Sizes == {n \in Nat : \E T \in SUBSET S : Cardinality(T) = n /\ T \notin Fit}
  <1>1. Sizes = {}
    <2> SUFFICES ASSUME Sizes # {} PROVE FALSE
      OBVIOUS
    <2>1. PICK n \in Sizes : \A m \in Sizes : m >= n
      BY Smallest
    <2>2. PICK T \in SUBSET S : Cardinality(T) = n /\ T \notin Fit
      BY <2>1
    <2>3. T # {} /\ T \ {One(T)} \notin Fit
      BY <2>2
    <2>4. T \ {One(T)} \in SUBSET S /\ n \in Nat \ {0} /\ Cardinality(T \ {One(T)}) = n - 1
      BY <2>2, <2>3, WithoutOne
    <2>5. n - 1 \in Sizes
      BY <2>3, <2>4
    <2> HIDE DEF Sizes
    <2> QED
      BY <2>1, <2>4, <2>5
  <1>2. \A T \in SUBSET S : Cardinality(T) \in Nat
    BY FS_Subset, FS_CardinalityType
  <1> QED
    BY <1>1, <1>2

LEMMA TotalOfNothing ==
  ASSUME NEW S, IsFiniteSet(S), NEW f, \A y \in S : f[y] = 0
  PROVE  Ledger!Total(f, S) = 0
  <1>1. PICK g : Adds(f, g, SUBSET S) /\ Ledger!Total(f, S) = g[S]
    BY TotalIs
  <1> DEFINE Fit == {T \in SUBSET S : g[T] = 0}
  <1>2. ASSUME NEW T \in SUBSET S, T # {} => T \ {One(T)} \in Fit PROVE T \in Fit
    <2>1. g[T] = IF T = {} THEN 0 ELSE f[One(T)] + g[T \ {One(T)}]
      BY <1>1 DEF Adds
    <2>2. T # {} => One(T) \in S
      BY WithoutOne
    <2> QED
      BY <1>2, <2>1, <2>2
  <1> HIDE DEF Fit
  <1>3. \A T \in SUBSET S : T \in Fit
    BY <1>2, PartByPart
  <1> QED
    BY <1>1, <1>3 DEF Fit

(* Two tables that differ in one row at most.                                  *)
LEMMA PartsDiffer ==
  ASSUME NEW S, IsFiniteSet(S), NEW f, NEW h, NEW g, NEW k, NEW x,
         Adds(f, g, SUBSET S), Adds(h, k, SUBSET S),
         \A y \in S : f[y] \in Int /\ h[y] \in Int /\ (y # x => h[y] = f[y])
  PROVE  \A T \in SUBSET S : g[T] \in Int /\ k[T] = g[T] + (IF x \in T THEN h[x] - f[x] ELSE 0)
  <1> DEFINE Right(T) == g[T] \in Int /\ k[T] = g[T] + (IF x \in T THEN h[x] - f[x] ELSE 0)
             Fit      == {T \in SUBSET S : Right(T)}
  <1>1. ASSUME NEW T \in SUBSET S, T # {} => Right(T \ {One(T)}) PROVE Right(T)
    <2>1. /\ g[T] = IF T = {} THEN 0 ELSE f[One(T)] + g[T \ {One(T)}]
          /\ k[T] = IF T = {} THEN 0 ELSE h[One(T)] + k[T \ {One(T)}]
      BY DEF Adds
    <2>2. CASE T = {}
      BY <2>1, <2>2
    <2>3. CASE T # {} /\ One(T) = x
      <3>1. x \in T /\ x \in S
        BY <2>3, WithoutOne
      <3> QED
        BY <1>1, <2>1, <2>3, <3>1
    <2>4. CASE T # {} /\ One(T) # x
      <3>1. One(T) \in S /\ (x \in T <=> x \in T \ {One(T)}) /\ (x \in T => x \in S)
        BY <2>4, WithoutOne
      <3> QED
        BY <1>1, <2>1, <2>4, <3>1
    <2> QED
      BY <2>2, <2>3, <2>4
  <1> HIDE DEF Right
  <1>2. \A T \in SUBSET S : (T # {} => T \ {One(T)} \in Fit) => T \in Fit
    BY <1>1
  <1> HIDE DEF Fit
  <1>3. \A T \in SUBSET S : T \in Fit
    BY <1>2, PartByPart
  <1> QED
    BY <1>3 DEF Fit, Right

LEMMA TotalMoves ==
  ASSUME NEW S, IsFiniteSet(S), NEW f, NEW h, NEW x,
         \A y \in S : f[y] \in Int /\ h[y] \in Int /\ (y # x => h[y] = f[y])
  PROVE  /\ Ledger!Total(f, S) \in Int
         /\ Ledger!Total(h, S) = Ledger!Total(f, S) + (IF x \in S THEN h[x] - f[x] ELSE 0)
  <1>1. PICK g : Adds(f, g, SUBSET S) /\ Ledger!Total(f, S) = g[S]
    BY TotalIs
  <1>2. PICK k : Adds(h, k, SUBSET S) /\ Ledger!Total(h, S) = k[S]
    BY TotalIs
  <1> QED
    BY <1>1, <1>2, PartsDiffer

-------------------------------------------------------------------------------
(* The books.  Of a request its row has taken Drawn(r) from a balance.         *)

Drawn  == [r \in Requests |-> Ledger!Taken(Holding(rsv[r]))]
Booked(u) == {o \in Orders : Payer[o] = u}
Owned(u)  == {r \in Requests : Owner[r] = u}
Books(u)  == balance[u] = Ledger!Total(topup, Booked(u)) - Ledger!Total(Drawn, Owned(u))
Balanced  == \A u \in Users : Books(u)

LEMMA BalancedReconciles == Balanced => Reconciles
  <1> DEFINE Holds == [r \in Requests |-> Holding(rsv[r])]
  <1>1. [r \in Requests |-> Ledger!Taken(Holds[r])] = Drawn
    BY DEF Drawn
  <1> QED
    BY <1>1 DEF Balanced, Reconciles, Ledger!Reconciled, Books, Booked, Owned

LEMMA DrawnType == TypeOK => Drawn \in [Requests -> Nat]
  <1> SUFFICES ASSUME TypeOK, NEW r \in Requests PROVE Ledger!Taken(Holding(rsv[r])) \in Nat
    BY DEF Drawn
  <1>1. rsv[r].est \in Nat /\ rsv[r].actual \in Nat
    BY DEF TypeOK, Rows
  <1>2. Whole(rsv[r].est) \in Nat /\ Charge(rsv[r].est, rsv[r].actual) \in Nat
    BY <1>1, WholeIsPositive, ChargeIsCovered
  <1> QED
    BY <1>2 DEF Ledger!Taken, Holding

(* The totals of a user follow one row of hers: a table f becomes h by it.     *)
LEMMA TotalsOf ==
  ASSUME NEW u \in Users, TypeOK
  PROVE  /\ Ledger!Total(topup, Booked(u)) \in Int /\ Ledger!Total(Drawn, Owned(u)) \in Int
         /\ \A o \in Orders, n \in Int :
              Ledger!Total([topup EXCEPT ![o] = n], Booked(u))
                = Ledger!Total(topup, Booked(u)) + (IF Payer[o] = u THEN n - topup[o] ELSE 0)
         /\ \A r \in Requests, n \in Int :
              Ledger!Total([Drawn EXCEPT ![r] = n], Owned(u))
                = Ledger!Total(Drawn, Owned(u)) + (IF Owner[r] = u THEN n - Drawn[r] ELSE 0)
  <1>1. IsFiniteSet(Booked(u)) /\ IsFiniteSet(Owned(u))
    BY TablesAssumption, FS_Subset DEF Booked, Owned
  <1>2. topup \in [Orders -> Int] /\ Drawn \in [Requests -> Int]
    BY DrawnType DEF TypeOK
  <1>3. ASSUME NEW o \in Orders, NEW n \in Int
        PROVE  /\ Ledger!Total(topup, Booked(u)) \in Int
               /\ Ledger!Total([topup EXCEPT ![o] = n], Booked(u))
                    = Ledger!Total(topup, Booked(u)) + (IF Payer[o] = u THEN n - topup[o] ELSE 0)
    <2> DEFINE h == [topup EXCEPT ![o] = n]
    <2>1. \A y \in Booked(u) : topup[y] \in Int /\ h[y] \in Int /\ (y # o => h[y] = topup[y])
      BY <1>2, <1>3 DEF Booked
    <2>2. h[o] = n /\ (o \in Booked(u) <=> Payer[o] = u)
      BY <1>2, <1>3 DEF Booked
    <2> HIDE DEF h
    <2>3. /\ Ledger!Total(topup, Booked(u)) \in Int
          /\ Ledger!Total(h, Booked(u))
               = Ledger!Total(topup, Booked(u)) + (IF o \in Booked(u) THEN h[o] - topup[o] ELSE 0)
      BY <1>1, <2>1, TotalMoves
    <2> QED
      BY <2>2, <2>3 DEF h
  <1>4. ASSUME NEW r \in Requests, NEW n \in Int
        PROVE  /\ Ledger!Total(Drawn, Owned(u)) \in Int
               /\ Ledger!Total([Drawn EXCEPT ![r] = n], Owned(u))
                    = Ledger!Total(Drawn, Owned(u)) + (IF Owner[r] = u THEN n - Drawn[r] ELSE 0)
    <2> DEFINE h == [Drawn EXCEPT ![r] = n]
    <2>1. \A y \in Owned(u) : Drawn[y] \in Int /\ h[y] \in Int /\ (y # r => h[y] = Drawn[y])
      BY <1>2, <1>4 DEF Owned
    <2>2. h[r] = n /\ (r \in Owned(u) <=> Owner[r] = u)
      BY <1>2, <1>4 DEF Owned
    <2> HIDE DEF h
    <2>3. /\ Ledger!Total(Drawn, Owned(u)) \in Int
          /\ Ledger!Total(h, Owned(u))
               = Ledger!Total(Drawn, Owned(u)) + (IF r \in Owned(u) THEN h[r] - Drawn[r] ELSE 0)
      BY <1>1, <2>1, TotalMoves
    <2> QED
      BY <2>2, <2>3 DEF h
  <1>5. Ledger!Total(topup, Booked(u)) \in Int /\ Ledger!Total(Drawn, Owned(u)) \in Int
    BY <1>1, <1>2, TotalMoves DEF Booked, Owned
  <1> QED
    BY <1>3, <1>4, <1>5

(* An order is booked.                                                         *)
LEMMA TopUpBalances ==
  ASSUME TypeOK, Balanced, NEW o \in Orders, Ledger!TopUp(o)
  PROVE  Balanced'
  <1> SUFFICES ASSUME NEW u \in Users PROVE Books(u)'
    BY DEF Balanced
  <1>1. PICK n \in Int : /\ topup[o] = 0 /\ topup' = [topup EXCEPT ![o] = n]
                         /\ balance' = [balance EXCEPT ![Payer[o]] = @ + n]
    <2>1. /\ topup[o] = 0 /\ topup'[o] \in Int /\ topup' = [topup EXCEPT ![o] = topup'[o]]
          /\ balance' = [balance EXCEPT ![Payer[o]] = @ + topup'[o]]
      BY DEF Ledger!TopUp
    <2> QED
      BY <2>1, Zenon
  <1>2. Drawn' = Drawn
    BY DEF Ledger!TopUp, Drawn, Holding, Ledger!Taken
  <1>3. balance'[u] = balance[u] + (IF Payer[o] = u THEN n ELSE 0) /\ balance[u] \in Int
    BY <1>1, CreditsAssumption DEF TypeOK
  <1>4. Books(u)
    BY DEF Balanced
  <1>5. Ledger!Total(topup', Booked(u))
          = Ledger!Total(topup, Booked(u)) + (IF Payer[o] = u THEN n ELSE 0)
    <2>1. Ledger!Total([topup EXCEPT ![o] = n], Booked(u))
            = Ledger!Total(topup, Booked(u)) + (IF Payer[o] = u THEN n - topup[o] ELSE 0)
      BY <1>1, TotalsOf
    <2> QED
      BY <1>1, <2>1
  <1> QED
    BY <1>1, <1>2, <1>3, <1>4, <1>5, TotalsOf DEF Books, Booked, Owned

(* A row draws more, or less, and the balance of its owner moves against it.   *)
LEMMA DrawBalances ==
  ASSUME TypeOK, Balanced, NEW r \in Requests, NEW n \in Int, UNCHANGED topup,
         Drawn' = [Drawn EXCEPT ![r] = n],
         balance' = [balance EXCEPT ![Owner[r]] = @ - (n - Drawn[r])]
  PROVE  Balanced'
  <1> SUFFICES ASSUME NEW u \in Users PROVE Books(u)'
    BY DEF Balanced
  <1>1. Drawn[r] \in Int
    BY DrawnType
  <1>2. balance'[u] = balance[u] - (IF Owner[r] = u THEN n - Drawn[r] ELSE 0) /\ balance[u] \in Int
    BY <1>1, CreditsAssumption DEF TypeOK
  <1>3. Books(u)
    BY DEF Balanced
  <1>4. Ledger!Total(Drawn', Owned(u))
          = Ledger!Total(Drawn, Owned(u)) + (IF Owner[r] = u THEN n - Drawn[r] ELSE 0)
    BY TotalsOf
  <1> QED
    BY <1>1, <1>2, <1>3, <1>4, TotalsOf DEF Books, Booked, Owned

LEMMA LedgerStepBalances ==
  ASSUME TypeOK, Balanced, [Ledger!Next]_(Ledger!vars)
  PROVE  Balanced'
  <1> DEFINE Hold(r) == Holding(rsv[r])
             Holds   == [r \in Requests |-> Hold(r)]
  <1>0. \A r \in Requests : Hold(r).amount \in Int /\ Hold(r).charge \in Int
    <2> SUFFICES ASSUME NEW r \in Requests PROVE Hold(r).amount \in Int /\ Hold(r).charge \in Int
      OBVIOUS
    <2>1. rsv[r].est \in Nat /\ rsv[r].actual \in Nat
      BY DEF TypeOK, Rows
    <2>2. Whole(rsv[r].est) \in Nat /\ Charge(rsv[r].est, rsv[r].actual) \in Nat
      BY <2>1, WholeIsPositive, ChargeIsCovered
    <2> QED
      BY <2>2 DEF Holding
  <1>1. ASSUME NEW r \in Requests, NEW h, Holds' = [Holds EXCEPT ![r] = h]
        PROVE  Drawn' = [Drawn EXCEPT ![r] = Ledger!Taken(h)]
    <2>1. \A s \in Requests : Holding(rsv'[s]) = IF s = r THEN h ELSE Holding(rsv[s])
      BY <1>1
    <2> QED
      BY <2>1 DEF Drawn
  <1>2. ASSUME NEW r \in Requests, Ledger!Reserve(r) PROVE Balanced'
    <2> DEFINE n == Holds'[r].amount
    <2>1. /\ Hold(r).status = "NONE" /\ n \in Int /\ UNCHANGED topup
          /\ Holds' = [Holds EXCEPT ![r] = [status |-> "RESERVED", amount |-> n, charge |-> 0]]
          /\ balance' = [balance EXCEPT ![Owner[r]] = @ - n]
      BY <1>2, CreditsAssumption DEF Ledger!Reserve, TypeOK
    <2>2. Drawn[r] = 0
      BY <2>1 DEF Drawn, Ledger!Taken, Holding
    <2> HIDE DEF n
    <2>3. Drawn' = [Drawn EXCEPT ![r] = n]
      BY <1>1, <2>1 DEF Ledger!Taken
    <2>4. balance' = [balance EXCEPT ![Owner[r]] = @ - (n - Drawn[r])]
      <3>1. n - Drawn[r] = n
        BY <2>1, <2>2
      <3> QED
        BY <2>1, <3>1
    <2> QED
      BY <2>1, <2>3, <2>4, DrawBalances
  <1>3. ASSUME NEW r \in Requests, NEW out \in {"SETTLED", "REFUNDED"},
               NEW c \in Int, Ledger!Decide(r, out, c)
        PROVE  Balanced'
    <2>1. /\ Hold(r).status = "RESERVED" /\ UNCHANGED topup
          /\ Holds' = [Holds EXCEPT ![r] = [status |-> out, amount |-> Hold(r).amount, charge |-> c]]
          /\ balance' = [balance EXCEPT ![Owner[r]] = @ + (Hold(r).amount - c)]
      BY <1>3 DEF Ledger!Decide
    <2>2. Drawn[r] = Hold(r).amount
      BY <2>1 DEF Drawn, Ledger!Taken
    <2>3. Drawn' = [Drawn EXCEPT ![r] = c]
      BY <1>1, <2>1 DEF Ledger!Taken
    <2>4. balance' = [balance EXCEPT ![Owner[r]] = @ - (c - Drawn[r])]
      <3>1. balance[Owner[r]] \in Int /\ Hold(r).amount \in Int
        BY <1>0, CreditsAssumption DEF TypeOK
      <3>2. balance[Owner[r]] + (Hold(r).amount - c) = balance[Owner[r]] - (c - Drawn[r])
        BY <1>3, <2>2, <3>1
      <3> QED
        BY <2>1, <3>2
    <2> QED
      BY <2>1, <2>3, <2>4, DrawBalances
  <1>4. ASSUME NEW r \in Requests, Ledger!Settle(r) \/ Ledger!Refund(r) PROVE Balanced'
    <2>1. \E out \in {"SETTLED", "REFUNDED"}, c \in Int : Ledger!Decide(r, out, c)
      BY <1>0, <1>4 DEF Ledger!Settle, Ledger!Refund
    <2> QED
      BY <1>3, <2>1
  <1>5. CASE UNCHANGED Ledger!vars
    <2>1. UNCHANGED <<balance, topup, Drawn>>
      BY <1>5 DEF Ledger!vars, Drawn
    <2> QED
      BY <2>1 DEF Balanced, Books, Booked, Owned
  <1> QED
    BY <1>2, <1>4, <1>5, TopUpBalances DEF Ledger!Next

LEMMA BalancedInit == Init => Balanced
  <1> SUFFICES ASSUME Init, NEW u \in Users PROVE Books(u)
    BY DEF Balanced
  <1>1. \A o \in Orders : topup[o] = 0
    BY DEF Init
  <1>2. \A r \in Requests : Drawn[r] = 0
    BY DEF Init, Drawn, Ledger!Taken, Holding, NoRow
  <1>3. Ledger!Total(topup, Booked(u)) = 0
    BY <1>1, FS_Subset, TablesAssumption, TotalOfNothing DEF Booked
  <1>4. Ledger!Total(Drawn, Owned(u)) = 0
    BY <1>2, FS_Subset, TablesAssumption, TotalOfNothing DEF Owned
  <1> QED
    BY <1>3, <1>4 DEF Books, Init

(* However reservations, settlements, refunds and bookings interleave, fail or *)
(* repeat, a balance is what its user's rows add up to.                        *)
THEOREM RowsAndBalancesAgree == Spec => []Reconciles
  <1> DEFINE Inv == TypeOK /\ OrdersInv /\ Balanced
  <1>1. Init => Inv
    BY TypeInit, OrdersInit, BalancedInit
  <1>2. Inv /\ [Next]_vars => Inv'
    BY TypeStep, OrdersStep, StepRefines, LedgerStepBalances
  <1>3. Inv => Reconciles
    BY BalancedReconciles
  <1> QED
    BY <1>1, <1>2, <1>3, PTL DEF Spec
===============================================================================
