--------------------------- MODULE ReservationProofs --------------------------
(* The life of a reservation in AiCredits, for every value of the constants:   *)
(* it is decided once, no background refund comes early, and a diagram that    *)
(* was delivered leaves nothing held.                                          *)
EXTENDS AiCreditsProofs

-------------------------------------------------------------------------------
(* What one step can do to one row.                                            *)

RefundedByWorker(r) == \E w \in Workers : worker[w].cur = r
RefundedByCall(r)   == \E c \in Calls : /\ ReqOf[c] = r
                                        /\ pc[c] = "refundWrite" /\ pc'[c] = "finishErr"

RowMove(r) ==
  \/ rsv'[r] = rsv[r]
  \/ rsv[r].status = "NONE" /\ rsv'[r].status = "RESERVED"
  \/ /\ rsv[r].status = "RESERVED" /\ rsv'[r].est = rsv[r].est
     /\ \/ rsv'[r].status = "SETTLED"
        \/ rsv'[r].status = "REFUNDED" /\ (RefundedByWorker(r) \/ RefundedByCall(r))

LEMMA RefundMovesRow ==
  ASSUME TypeOK, NEW r \in Requests, RefundCommit(r),
         RefundedByWorker(r) \/ RefundedByCall(r)
  PROVE  \A q \in Requests : RowMove(q)
  <1>1. CASE rsv[r].status # "RESERVED"
    BY <1>1 DEF RefundCommit, RowMove
  <1>2. CASE rsv[r].status = "RESERVED"
    <2>1. rsv' = [rsv EXCEPT ![r].status = "REFUNDED"]
      BY <1>2 DEF RefundCommit
    <2>2. rsv'[r].status = "REFUNDED" /\ rsv'[r].est = rsv[r].est
      BY <2>1 DEF TypeOK, Rows
    <2>3. \A q \in Requests \ {r} : rsv'[q] = rsv[q]
      BY <2>1 DEF TypeOK
    <2> QED
      BY <1>2, <2>2, <2>3 DEF RowMove
  <1> QED
    BY <1>1, <1>2

LEMMA SettleMovesRow ==
  ASSUME TypeOK, NEW r \in Requests, NEW actual, SettleCommit(r, actual)
  PROVE  \A q \in Requests : RowMove(q)
  BY DEF SettleCommit, RowMove, TypeOK, Rows

LEMMA CallStepMovesRows ==
  ASSUME TypeOK, NEW c \in Calls, CallStep(c)
  PROVE  \A q \in Requests : RowMove(q)
  <1>r. ReqOf[c] \in Requests
    BY CreditsAssumption
  <1>1. CASE ReserveCreated(c)
    BY <1>1, <1>r DEF ReserveCreated, CreateReservation, RowMove, NoRow, TypeOK, Rows
  <1>2. CASE SettleWrite(c)
    BY <1>2, <1>r, SettleMovesRow DEF SettleWrite
  <1>3. CASE RefundWrite(c)
    <2>1. pc[c] = "refundWrite" /\ pc'[c] = "finishErr" /\ RefundCommit(ReqOf[c])
      BY <1>3 DEF RefundWrite, Commit, Goto, AfterFailure, TypeOK
    <2> QED
      BY <1>r, <2>1, RefundMovesRow DEF RefundedByCall
  <1>4. CASE \/ StartCall(c) \/ LookupReservation(c)
             \/ ReserveRefused(c) \/ ReserveDuplicate(c) \/ RefetchWinner(c)
             \/ EnqueueRelease(c) \/ AgentAnswers(c) \/ AgentFails(c)
             \/ SettleRead(c) \/ RefundRead(c) \/ FinishCall(c) \/ StepFails(c)
    BY <1>4 DEF StartCall, LookupReservation, ReserveRefused, ReserveDuplicate,
                RefetchWinner, EnqueueRelease, AgentAnswers, AgentFails, SettleRead,
                RefundRead, FinishCall, StepFails, rows, RowMove
  <1> QED
    BY <1>1, <1>2, <1>3, <1>4 DEF CallStep

LEMMA WorkerStepMovesRows ==
  ASSUME TypeOK, NEW w \in Workers, WorkerStep(w)
  PROVE  \A q \in Requests : RowMove(q)
  <1>1. CASE worker[w].cur \in Requests /\ RefundCommit(worker[w].cur)
    BY <1>1, RefundMovesRow DEF RefundedByWorker
  <1>2. CASE UNCHANGED rsv
    BY <1>2 DEF RowMove
  <1>3. \/ worker[w].cur \in Requests /\ RefundCommit(worker[w].cur)
        \/ UNCHANGED rsv
    BY DEF WorkerStep, TakeReleaseJob, WorkerRead, StartSweep, WorkerWrite, WorkerFails,
           rows, TypeOK, WorkerStates
  <1> QED
    BY <1>1, <1>2, <1>3

LEMMA StepMovesRows ==
  TypeOK /\ [Next]_vars => \A q \in Requests : RowMove(q)
  <1> SUFFICES ASSUME TypeOK, [Next]_vars
               PROVE  \A q \in Requests : RowMove(q)
    OBVIOUS
  <1>1. CASE \/ \E o \in Orders : CreateOrder(o) \/ CapturePayment(o)
                                  \/ HandlePaymentCaptured(o)
             \/ Crash \/ Tick \/ UNCHANGED vars
    BY <1>1 DEF CreateOrder, CapturePayment, HandlePaymentCaptured, Crash, Tick, vars, rows,
                RowMove
  <1> QED
    BY <1>1, CallStepMovesRows, WorkerStepMovesRows DEF Next

(* Settle, refund, release job and sweep: one of them decides a row, for good. *)
THEOREM RowsDecidedOnce == Spec => DecidedOnce
  <1>1. TypeOK /\ [Next]_vars =>
          [\A r \in Requests :
             /\ rsv[r].status \in {"SETTLED", "REFUNDED"} => rsv'[r] = rsv[r]
             /\ rsv[r].status = "RESERVED" => /\ rsv'[r].status # "NONE"
                                              /\ rsv'[r].est = rsv[r].est]_vars
    BY StepMovesRows DEF RowMove
  <1> QED
    BY <1>1, TypeCorrect, PTL DEF Spec, DecidedOnce

-------------------------------------------------------------------------------
(* A call that got past its reservation has a row, and one that got as far as  *)
(* returning has a decided one.                                                *)

Reserved == {"refetch", "enqueue", "agent", "settleRead", "settleWrite", "refundRead",
             "refundWrite", "finishOk", "finishErr", "answered"}

CallsHaveRows == \A c \in Calls : pc[c] \in Reserved => rsv[ReqOf[c]].status # "NONE"

EmptyRows == \A r \in Requests : rsv[r].status = "NONE" => rsv[r] = NoRow

RowsInv == EmptyRows /\ CallsHaveRows /\ DeliveredIsDecided

(* What the calls that do not move rely on stays so. *)
LEMMA OthersKeepRows ==
  ASSUME TypeOK, RowsInv, [Next]_vars, NEW d \in Calls,
         pc'[d] = pc[d] \/ pc'[d] \in PC \ Reserved
  PROVE  /\ pc'[d] \in Reserved => rsv'[ReqOf[d]].status # "NONE"
         /\ pc'[d] \in {"finishOk", "answered"} =>
              rsv'[ReqOf[d]].status \in {"SETTLED", "REFUNDED"}
  <1>1. ReqOf[d] \in Requests
    BY CreditsAssumption
  <1>2. RowMove(ReqOf[d])
    BY <1>1, StepMovesRows
  <1> QED
    BY <1>1, <1>2 DEF RowMove, RowsInv, CallsHaveRows, DeliveredIsDecided, Reserved

(* Where the steps of a call take it, and what they leave behind.              *)
LEMMA CallKeepsRows ==
  ASSUME TypeOK, RowsInv, NEW c \in Calls, CallStep(c)
  PROVE  /\ pc'[c] \in Reserved => rsv'[ReqOf[c]].status # "NONE"
         /\ pc'[c] \in {"finishOk", "answered"} =>
              rsv'[ReqOf[c]].status \in {"SETTLED", "REFUNDED"}
         /\ \A d \in Calls \ {c} : pc'[d] = pc[d]
  <1> DEFINE r == ReqOf[c]
             Keeps == /\ pc'[c] \in Reserved => rsv'[r].status # "NONE"
                      /\ pc'[c] \in {"finishOk", "answered"} =>
                           rsv'[r].status \in {"SETTLED", "REFUNDED"}
  <1>r. /\ r \in Requests /\ rsv \in [Requests -> Rows] /\ pc \in [Calls -> PC]
        /\ rsv[r].status \in Status
    BY CreditsAssumption DEF TypeOK, Rows
  <1>i. /\ pc[c] \in Reserved => rsv[r].status # "NONE"
        /\ pc[c] \in {"finishOk", "answered"} => rsv[r].status \in {"SETTLED", "REFUNDED"}
    BY DEF RowsInv, CallsHaveRows, DeliveredIsDecided
  <1>o. \A d \in Calls \ {c} : pc'[d] = pc[d]
    BY <1>r DEF CallStep, StartCall, LookupReservation, ReserveRefused, ReserveDuplicate,
                ReserveCreated, RefetchWinner, EnqueueRelease, AgentAnswers, AgentFails,
                SettleRead, SettleWrite, RefundRead, RefundWrite, FinishCall, StepFails,
                Goto, Commit
  <1> SUFFICES Keeps
    BY <1>o
  <1> HIDE DEF r
  <1>1. CASE StartCall(c) \/ ReserveRefused(c)
    BY <1>1, <1>r DEF StartCall, ReserveRefused, Goto, Reserved
  <1>2. CASE LookupReservation(c) \/ ReserveDuplicate(c)
    <2>1. rsv[r] # NoRow => rsv[r].status # "NONE"
      BY <1>r DEF RowsInv, EmptyRows
    <2> QED
      BY <1>2, <1>r, <2>1 DEF LookupReservation, ReserveDuplicate, Goto, Reserved, rows, r
  <1>3. CASE ReserveCreated(c)
    BY <1>3, <1>r DEF ReserveCreated, CreateReservation, Commit, Goto, AfterFailure, Reserved, r
  <1>4. CASE RefetchWinner(c) \/ EnqueueRelease(c) \/ AgentAnswers(c) \/ AgentFails(c)
             \/ RefundRead(c)
    BY <1>4, <1>r, <1>i DEF RefetchWinner, EnqueueRelease, AgentAnswers, AgentFails,
       RefundRead, Goto, Reserved, rows
  <1>5. CASE SettleRead(c)
    BY <1>5, <1>r, <1>i DEF SettleRead, Goto, Reserved, rows, r, Status
  <1>6. CASE SettleWrite(c)
    BY <1>6, <1>r, <1>i DEF SettleWrite, SettleCommit, Commit, Goto, AfterFailure, Reserved, r,
       Status
  <1>7. CASE RefundWrite(c)
    <2>1. pc[c] = "refundWrite" /\ pc'[c] = "finishErr" /\ RefundCommit(r)
      BY <1>7, <1>r DEF RefundWrite, Commit, Goto, AfterFailure, r
    <2>2. RowMove(r)
      BY <1>r, <1>7, CallStepMovesRows
    <2> QED
      BY <1>i, <2>1, <2>2 DEF RowMove, Reserved
  <1>8. CASE FinishCall(c)
    BY <1>8, <1>r, <1>i DEF FinishCall, Goto, Reserved, rows
  <1>9. CASE StepFails(c)
    BY <1>9, <1>r, <1>i DEF StepFails, Goto, AfterFailure, Reserved, rows, PC, Ended
  <1> QED
    BY <1>1, <1>2, <1>3, <1>4, <1>5, <1>6, <1>7, <1>8, <1>9 DEF CallStep

LEMMA RowsStep == TypeOK /\ RowsInv /\ [Next]_vars => RowsInv'
  <1> SUFFICES ASSUME TypeOK, RowsInv, [Next]_vars
               PROVE  RowsInv'
    OBVIOUS
  <1>1. EmptyRows'
    BY StepMovesRows DEF RowMove, RowsInv, EmptyRows
  <1>2. ASSUME NEW d \in Calls
        PROVE  /\ pc'[d] \in Reserved => rsv'[ReqOf[d]].status # "NONE"
               /\ pc'[d] \in {"finishOk", "answered"} =>
                    rsv'[ReqOf[d]].status \in {"SETTLED", "REFUNDED"}
    <2>1. CASE \E c \in Calls : CallStep(c)
      BY <2>1, CallKeepsRows, OthersKeepRows
    <2>2. CASE ~\E c \in Calls : CallStep(c)
      <3>1. pc'[d] = pc[d] \/ pc'[d] = "dead"
        BY <2>2 DEF Next, CreateOrder, CapturePayment, HandlePaymentCaptured, WorkerStep,
                    TakeReleaseJob, WorkerRead, StartSweep, WorkerWrite, WorkerFails, Crash,
                    Tick, vars, TypeOK
      <3> QED
        BY <3>1, OthersKeepRows DEF PC, Ended, Reserved
    <2> QED
      BY <2>1, <2>2
  <1> QED
    BY <1>1, <1>2 DEF RowsInv, CallsHaveRows, DeliveredIsDecided

LEMMA RowsInit == Init => RowsInv
  BY CreditsAssumption
  DEF Init, RowsInv, EmptyRows, CallsHaveRows, DeliveredIsDecided, Reserved, NoRow

(* No call returns a diagram and leaves its reservation open, not when the     *)
(* release job, the sweep or a duplicate of the request refunded it first, and *)
(* not when the finally fails.                                                 *)
THEOREM DeliveredLeavesNothingHeld == Spec => []DeliveredIsDecided
  <1>1. RowsInv => DeliveredIsDecided
    BY DEF RowsInv
  <1> QED
    BY <1>1, RowsInit, RowsStep, TypeCorrect, PTL DEF Spec

-------------------------------------------------------------------------------
(* Ages.  A release job is added after its row, so while the row is open the   *)
(* job is no older; what a worker has in hand has outlived the release delay.  *)

JobsAreYounger ==
  \A r \in Requests : /\ rsv[r].status = "RESERVED" => jobAge[r] <= age[r]
                      /\ rsv[r].status = "NONE" => job[r] = "absent"
                      /\ job[r] = "absent" => jobAge[r] = 0

Ripe(r) == /\ rsv[r].status # "NONE"
           /\ rsv[r].status = "RESERVED" => age[r] >= ReleaseDelay

InHand(w) == worker[w].todo \cup ({worker[w].cur} \ {NoRequest})

WorkIsRipe == \A w \in Workers : \A r \in InHand(w) : Ripe(r)

AgesInv == JobsAreYounger /\ WorkIsRipe

LEMMA AgesInit == Init => AgesInv
  BY CreditsAssumption
  DEF Init, AgesInv, JobsAreYounger, WorkIsRipe, Ripe, InHand, Idle, NoRow

(* The age of a row never goes back. *)
LEMMA RowsGrowOld ==
  ASSUME TypeOK, [Next]_vars, NEW r \in Requests, rsv[r].status # "NONE"
  PROVE  age'[r] >= age[r]
  <1>1. CASE \E c \in Calls : ReserveCreated(c)
    BY <1>1, CreditsAssumption DEF ReserveCreated, CreateReservation, NoRow, TypeOK
  <1>2. CASE Tick
    BY <1>2, CreditsAssumption DEF Tick, Older, Least, TypeOK
  <1>3. CASE UNCHANGED age
    BY <1>3 DEF TypeOK
  <1>4. \/ \E c \in Calls : ReserveCreated(c)
        \/ Tick
        \/ UNCHANGED age
    BY DEF Next, CreateOrder, CapturePayment, HandlePaymentCaptured, WorkerStep,
           TakeReleaseJob, WorkerRead, StartSweep, WorkerWrite, WorkerFails, Crash, vars,
           CallStep, StartCall, LookupReservation, ReserveRefused, ReserveDuplicate,
           RefetchWinner, EnqueueRelease, AgentAnswers, AgentFails, SettleRead, SettleWrite,
           RefundRead, RefundWrite, FinishCall, StepFails
  <1> QED
    BY <1>1, <1>2, <1>3, <1>4

LEMMA RipeStaysRipe ==
  ASSUME TypeOK, TypeOK', [Next]_vars, NEW r \in Requests, Ripe(r)
  PROVE  Ripe(r)'
  <1>1. RowMove(r)
    BY StepMovesRows
  <1>2. age'[r] >= age[r] /\ age[r] \in Int /\ age'[r] \in Int /\ ReleaseDelay \in Int
    BY RowsGrowOld, CreditsAssumption DEF Ripe, TypeOK
  <1>3. rsv'[r].status = "RESERVED" => rsv[r].status = "RESERVED"
    BY <1>1 DEF RowMove, Ripe
  <1>4. rsv'[r].status # "NONE"
    BY <1>1 DEF RowMove, Ripe
  <1> QED
    BY <1>2, <1>3, <1>4 DEF Ripe

(* A worker takes in hand only what is ripe. *)
LEMMA WorkersTakeRipe ==
  ASSUME TypeOK, AgesInv, [Next]_vars, NEW w \in Workers, NEW r \in InHand(w)'
  PROVE  r \in Requests /\ Ripe(r)
  <1>t. /\ worker \in [Workers -> WorkerStates]
        /\ \A q \in InHand(w) : q \in Requests /\ Ripe(q)
    BY DEF AgesInv, WorkIsRipe, TypeOK, InHand, WorkerStates
  <1>1. ASSUME NEW v \in Workers, NEW q \in Requests, TakeReleaseJob(v, q)
        PROVE  r \in Requests /\ Ripe(r)
    <2>1. Ripe(q)
      BY <1>1, CreditsAssumption DEF TakeReleaseJob, AgesInv, JobsAreYounger, Ripe, TypeOK
    <2>2. r \in InHand(w) \/ r = q
      BY <1>1 DEF TakeReleaseJob, InHand, TypeOK
    <2> QED
      BY <1>t, <2>1, <2>2
  <1>2. ASSUME NEW v \in Workers, StartSweep(v)
        PROVE  r \in Requests /\ Ripe(r)
    <2>1. \A q \in Stale : q \in Requests /\ Ripe(q)
      BY CreditsAssumption DEF Stale, Ripe, TypeOK
    <2>2. r \in InHand(w) \/ r \in Stale
      BY <1>2 DEF StartSweep, InHand, TypeOK
    <2> QED
      BY <1>t, <2>1, <2>2
  <1>3. ASSUME NEW v \in Workers, NEW q \in Requests, WorkerRead(v, q)
        PROVE  r \in InHand(w)
    BY <1>3, <1>t DEF WorkerRead, WorkerDone, InHand, Idle, WorkerStates
  <1>4. ASSUME NEW v \in Workers, WorkerWrite(v) \/ WorkerFails(v)
        PROVE  r \in InHand(w)
    BY <1>4, <1>t DEF WorkerWrite, WorkerFails, WorkerDone, InHand, Idle, WorkerStates
  <1>5. CASE Crash
    BY <1>5 DEF Crash, InHand, Idle
  <1>6. CASE UNCHANGED worker
    BY <1>6, <1>t DEF InHand
  <1>7. UNCHANGED worker \/ Crash \/ \E v \in Workers : WorkerStep(v)
    BY DEF Next, CreateOrder, CapturePayment, HandlePaymentCaptured, Tick, vars,
           CallStep, StartCall, LookupReservation, ReserveRefused, ReserveDuplicate,
           ReserveCreated, RefetchWinner, EnqueueRelease, AgentAnswers, AgentFails, SettleRead,
           SettleWrite, RefundRead, RefundWrite, FinishCall, StepFails
  <1> QED
    BY <1>t, <1>1, <1>2, <1>3, <1>4, <1>5, <1>6, <1>7 DEF WorkerStep

(* Steps that leave the ages alone, create no row, and add a job to none but   *)
(* an existing row.                                                            *)
LEMMA JobsStayYoungerOtherwise ==
  ASSUME TypeOK, AgesInv, [Next]_vars, UNCHANGED <<age, jobAge>>,
         \A r \in Requests : rsv[r].status = "NONE" => rsv'[r] = rsv[r],
         \A r \in Requests : /\ job'[r] = "absent" => job[r] = "absent"
                             /\ job'[r] # job[r] => rsv[r].status # "NONE"
  PROVE  JobsAreYounger'
  <1>1. \A r \in Requests : RowMove(r)
    BY StepMovesRows
  <1> QED
    BY <1>1 DEF AgesInv, JobsAreYounger, RowMove

LEMMA CallsKeepJobsYounger ==
  ASSUME TypeOK, TypeOK', RowsInv, AgesInv, NEW c \in Calls, CallStep(c)
  PROVE  JobsAreYounger'
  <1>n. [Next]_vars
    BY DEF Next
  <1>t. /\ job \in [Requests -> {"absent", "delayed", "active", "finished"}]
        /\ age \in [Requests -> 0..SweepAge] /\ jobAge \in [Requests -> 0..ReleaseDelay]
        /\ rsv \in [Requests -> Rows] /\ ReqOf[c] \in Requests
    BY CreditsAssumption DEF TypeOK
  <1>1. CASE ReserveCreated(c)
    <2>1. rsv[ReqOf[c]].status = "NONE"
      BY <1>1 DEF ReserveCreated, NoRow
    <2>2. /\ UNCHANGED <<job, jobAge>>
          /\ \A r \in Requests \ {ReqOf[c]} : age'[r] = age[r] /\ rsv'[r] = rsv[r]
          /\ rsv'[ReqOf[c]].status # "NONE"
      BY <1>1, <1>t DEF ReserveCreated, CreateReservation, jobs
    <2>3. age'[ReqOf[c]] = 0 /\ jobAge[ReqOf[c]] = 0
      BY <1>1, <1>t, <2>1 DEF ReserveCreated, CreateReservation, AgesInv, JobsAreYounger
    <2> QED
      BY <1>t, <2>1, <2>2, <2>3 DEF AgesInv, JobsAreYounger
  <1>2. CASE EnqueueRelease(c) \/ FinishCall(c)
    <2>1. rsv[ReqOf[c]].status # "NONE"
      BY <1>2 DEF RowsInv, CallsHaveRows, Reserved, EnqueueRelease, FinishCall
    <2>2. UNCHANGED <<rsv, age>>
      BY <1>2 DEF EnqueueRelease, FinishCall, rows
    <2>3. \A r \in Requests : \/ jobAge'[r] = jobAge[r] /\ job'[r] = job[r]
                              \/ jobAge'[r] = 0 /\ r = ReqOf[c]
      BY <1>2, <1>t DEF EnqueueRelease, FinishCall, jobs
    <2> QED
      BY <1>t, <2>1, <2>2, <2>3 DEF AgesInv, JobsAreYounger
  <1>3. CASE ~(ReserveCreated(c) \/ EnqueueRelease(c) \/ FinishCall(c))
    <2>1. UNCHANGED <<age, job, jobAge>>
      BY <1>3 DEF CallStep, StartCall, LookupReservation, ReserveRefused, ReserveDuplicate,
                  RefetchWinner, AgentAnswers, AgentFails, SettleRead, SettleWrite, RefundRead,
                  RefundWrite, StepFails, jobs
    <2>2. \A r \in Requests : rsv[r].status = "NONE" => rsv'[r] = rsv[r]
      BY <1>3, <1>t DEF CallStep, StartCall, LookupReservation, ReserveRefused,
         ReserveDuplicate, RefetchWinner, AgentAnswers, AgentFails, SettleRead, SettleWrite,
         RefundRead, RefundWrite, StepFails, SettleCommit, RefundCommit, rows
    <2> QED
      BY <1>n, <2>1, <2>2, JobsStayYoungerOtherwise
  <1> QED
    BY <1>1, <1>2, <1>3

LEMMA WorkersKeepJobsYounger ==
  ASSUME TypeOK, AgesInv, NEW w \in Workers, WorkerStep(w)
  PROVE  JobsAreYounger'
  <1>n. [Next]_vars
    BY DEF Next
  <1>t. /\ job \in [Requests -> {"absent", "delayed", "active", "finished"}]
        /\ \A q \in InHand(w) : rsv[q].status # "NONE"
        /\ worker[w] \in WorkerStates
    BY DEF TypeOK, AgesInv, WorkIsRipe, Ripe
  <1>1. UNCHANGED <<age, jobAge>>
    BY DEF WorkerStep, TakeReleaseJob, WorkerRead, StartSweep, WorkerWrite, WorkerFails, jobs
  <1>2. \A r \in Requests : rsv[r].status = "NONE" => rsv'[r] = rsv[r]
    BY DEF WorkerStep, TakeReleaseJob, WorkerRead, StartSweep, WorkerWrite, WorkerFails,
           RefundCommit, rows, TypeOK, Rows
  <1>3. \A r \in Requests : job'[r] # job[r] =>
          job'[r] # "absent" /\ (r \in InHand(w) \/ job[r] = "delayed")
    <2>1. ASSUME NEW q \in InHand(w), WorkerDone(w, q)
          PROVE  \A r \in Requests : job'[r] # job[r] => job'[r] = "finished" /\ r = q
      BY <1>t, <2>1 DEF WorkerDone
    <2>2. CASE \E q \in Requests : TakeReleaseJob(w, q)
      BY <1>t, <2>2 DEF TakeReleaseJob
    <2>3. CASE \E q \in Requests : WorkerRead(w, q)
      BY <2>1, <2>3 DEF WorkerRead, InHand
    <2>4. CASE StartSweep(w)
      BY <2>4 DEF StartSweep, jobs
    <2>5. CASE WorkerWrite(w)
      BY <2>1, <2>5 DEF WorkerWrite, InHand
    <2>6. CASE WorkerFails(w)
      BY <1>t, <2>6 DEF WorkerFails, InHand
    <2> QED
      BY <2>2, <2>3, <2>4, <2>5, <2>6 DEF WorkerStep
  <1>4. \A r \in Requests : job[r] = "delayed" => rsv[r].status # "NONE"
    BY DEF AgesInv, JobsAreYounger
  <1> QED
    BY <1>n, <1>t, <1>1, <1>2, <1>3, <1>4, JobsStayYoungerOtherwise

LEMMA AgesStep == TypeOK /\ TypeOK' /\ RowsInv /\ AgesInv /\ [Next]_vars => AgesInv'
  <1> SUFFICES ASSUME TypeOK, TypeOK', RowsInv, AgesInv, [Next]_vars
               PROVE  AgesInv'
    OBVIOUS
  <1>1. WorkIsRipe'
    <2>1. ASSUME NEW w \in Workers, NEW r \in InHand(w)'
          PROVE  Ripe(r)'
      BY <2>1, WorkersTakeRipe, RipeStaysRipe
    <2> QED
      BY <2>1 DEF WorkIsRipe
  <1>2. JobsAreYounger'
    <2>1. CASE Tick
      BY <2>1, CreditsAssumption
      DEF Tick, Older, Least, rows, AgesInv, JobsAreYounger, TypeOK
    <2>2. CASE Crash
      <3>1. UNCHANGED <<age, jobAge, rsv>>
        BY <2>2 DEF Crash, rows
      <3>2. \A r \in Requests : job'[r] # job[r] => job[r] = "active" /\ job'[r] # "absent"
        BY <2>2 DEF Crash, TypeOK
      <3> QED
        BY <3>1, <3>2, JobsStayYoungerOtherwise DEF AgesInv, JobsAreYounger
    <2>3. CASE \/ \E o \in Orders : CreateOrder(o) \/ CapturePayment(o)
                                    \/ HandlePaymentCaptured(o)
               \/ UNCHANGED vars
      <3>1. UNCHANGED <<age, jobAge, job, rsv>>
        BY <2>3 DEF CreateOrder, CapturePayment, HandlePaymentCaptured, vars, rows, jobs
      <3> QED
        BY <3>1 DEF AgesInv, JobsAreYounger
    <2> QED
      BY <2>1, <2>2, <2>3, CallsKeepJobsYounger, WorkersKeepJobsYounger DEF Next
  <1> QED
    BY <1>1, <1>2 DEF AgesInv

LEMMA AgesHold == Spec => [](TypeOK /\ RowsInv /\ AgesInv)
  <1>1. Init => TypeOK /\ RowsInv /\ AgesInv
    BY TypeInit, RowsInit, AgesInit
  <1>2. TypeOK /\ RowsInv /\ AgesInv /\ [Next]_vars => (TypeOK /\ RowsInv /\ AgesInv)'
    BY TypeStep, RowsStep, AgesStep
  <1> QED
    BY <1>1, <1>2, PTL DEF Spec

(* A row turns REFUNDED by a failing call of its own request, or once it has   *)
(* outlived the release delay: no worker gives credits back while the agent    *)
(* may still be in time.                                                       *)
THEOREM NothingReleasedEarly == Spec => NoEarlyRelease
  <1>1. TypeOK /\ RowsInv /\ AgesInv /\ [Next]_vars =>
          [\A r \in Requests :
             rsv[r].status = "RESERVED" /\ rsv'[r].status = "REFUNDED" =>
               \/ age[r] >= ReleaseDelay
               \/ \E c \in Calls : ReqOf[c] = r /\ pc[c] = "refundWrite"]_vars
    <2> SUFFICES ASSUME TypeOK, AgesInv, [Next]_vars, NEW r \in Requests,
                        rsv[r].status = "RESERVED", rsv'[r].status = "REFUNDED",
                        ~\E c \in Calls : ReqOf[c] = r /\ pc[c] = "refundWrite"
                 PROVE  age[r] >= ReleaseDelay
      OBVIOUS
    <2>1. RefundedByWorker(r)
      BY StepMovesRows DEF RowMove, RefundedByCall
    <2>2. Ripe(r)
      BY <2>1, CreditsAssumption DEF RefundedByWorker, AgesInv, WorkIsRipe, InHand
    <2> QED
      BY <2>2 DEF Ripe
  <1> QED
    BY <1>1, AgesHold, PTL DEF Spec, NoEarlyRelease

-------------------------------------------------------------------------------
(* Free diagrams.  A refunded row was late, or a call of its request gave up.  *)

GaveUp(r) == \E d \in Calls : ReqOf[d] = r /\ pc[d] \in {"finishErr", "failed", "dead"}

RefundsHaveReasons ==
  \A r \in Requests : rsv[r].status = "REFUNDED" => age[r] >= ReleaseDelay \/ GaveUp(r)

LEMMA CallsStayGivenUp ==
  ASSUME TypeOK, [Next]_vars, NEW r \in Requests, GaveUp(r)
  PROVE  GaveUp(r)'
  <1>1. ASSUME NEW d \in Calls, pc[d] \in {"finishErr", "failed", "dead"}
        PROVE  pc'[d] \in {"finishErr", "failed", "dead"}
    <2>1. ASSUME NEW c \in Calls, CallStep(c)
          PROVE  pc'[d] \in {"finishErr", "failed", "dead"}
      BY <1>1, <2>1 DEF TypeOK, CallStep, StartCall, LookupReservation, ReserveRefused,
         ReserveDuplicate, ReserveCreated, RefetchWinner, EnqueueRelease, AgentAnswers,
         AgentFails, SettleRead, SettleWrite, RefundRead, RefundWrite, FinishCall, StepFails,
         Goto, Commit, AfterFailure, Ended
    <2>2. CASE ~\E c \in Calls : CallStep(c)
      BY <1>1, <2>2 DEF Next, CreateOrder, CapturePayment, HandlePaymentCaptured, WorkerStep,
         TakeReleaseJob, WorkerRead, StartSweep, WorkerWrite, WorkerFails, Crash, Tick, vars,
         TypeOK
    <2> QED
      BY <2>1, <2>2
  <1> QED
    BY <1>1 DEF GaveUp

LEMMA ReasonsStep ==
  TypeOK /\ TypeOK' /\ AgesInv /\ RefundsHaveReasons /\ [Next]_vars => RefundsHaveReasons'
  <1> SUFFICES ASSUME TypeOK, TypeOK', AgesInv, RefundsHaveReasons, [Next]_vars,
                      NEW r \in Requests, rsv'[r].status = "REFUNDED"
               PROVE  (age[r] >= ReleaseDelay \/ GaveUp(r))'
    BY DEF RefundsHaveReasons
  <1>1. rsv[r].status # "NONE" /\ RowMove(r)
    BY StepMovesRows DEF RowMove
  <1>2. age[r] >= ReleaseDelay => age'[r] >= ReleaseDelay
    BY <1>1, RowsGrowOld, CreditsAssumption DEF TypeOK
  <1>3. CASE rsv[r].status = "REFUNDED"
    BY <1>2, <1>3, CallsStayGivenUp DEF RefundsHaveReasons
  <1>4. CASE RefundedByCall(r)
    BY <1>4 DEF RefundedByCall, GaveUp
  <1>5. CASE RefundedByWorker(r) /\ rsv[r].status = "RESERVED"
    BY <1>2, <1>5, CreditsAssumption DEF RefundedByWorker, AgesInv, WorkIsRipe, InHand, Ripe
  <1> QED
    BY <1>1, <1>3, <1>4, <1>5 DEF RowMove

(* A diagram is free only for a reservation that was late, or one that another *)
(* call with the same requestId has given up.                                  *)
THEOREM FreeOnlyForAReason == Spec => []FreeOnlyIfLateOrShared
  <1>1. Init => RefundsHaveReasons
    BY DEF Init, RefundsHaveReasons, NoRow
  <1>2. RefundsHaveReasons => FreeOnlyIfLateOrShared
    BY CreditsAssumption DEF RefundsHaveReasons, GaveUp, FreeOnlyIfLateOrShared
  <1> QED
    BY <1>1, <1>2, AgesHold, ReasonsStep, PTL DEF Spec
===============================================================================
