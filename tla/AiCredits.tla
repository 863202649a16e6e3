------------------------------- MODULE AiCredits ------------------------------
(* Prepaid credits and the AI diagram calls that spend them: CreditsService,   *)
(* AiDiagramService.run, AiUsageProcessor and the Razorpay webhook, over one   *)
(* Postgres database and one BullMQ queue.                                     *)
(*                                                                             *)
(* Grain of atomicity: a database transaction whose first effective statement  *)
(* is a guarded UPDATE is one step; a read, also one made inside the same READ *)
(* COMMITTED transaction, is a step of its own, because other transactions     *)
(* commit between it and the UPDATE; every other await is a step boundary.     *)
EXTENDS Integers, FiniteSets

CONSTANTS Users, Orders, Requests,
          Calls,         \* POST /files/:id/ai-diagram/* requests, retries included
          Workers,       \* BullMQ workers of the ai-usage queue
          NoRequest,     \* no reservation in hand
          Payer,         \* Payer[o]: the notes.userId of order o
          Owner,         \* Owner[r]: the user whose client minted request id r
          ReqOf,         \* ReqOf[c]: the requestId in the body of call c
          EstOf,         \* EstOf[c]: estimateCostRupees of c's prompt, in units
          Costs,         \* actual costs an agent response can report, in units
          Scale,         \* units per rupee: costs are Decimals, balances whole rupees
          TopUpAmounts,  \* rupee amounts clients ask to top up
          MinTopUp,      \* MIN_TOPUP_RUPEES
          ReleaseDelay,  \* RESERVATION_RELEASE_DELAY_MS, in ticks
          SweepAge,      \* SWEEP_INTERVAL_MS, in ticks: the age the sweep looks for
          MaxFaults      \* bound on crashes and failed database or Redis calls

ASSUME CreditsAssumption ==
  /\ NoRequest \notin Requests
  /\ Payer \in [Orders -> Users]
  /\ Owner \in [Requests -> Users]
  /\ ReqOf \in [Calls -> Requests]
  /\ EstOf \in [Calls -> Nat]
  /\ Costs \subseteq Nat
  /\ Scale \in Nat \ {0}
  /\ TopUpAmounts \subseteq Nat
  /\ MinTopUp \in Nat \ {0}
  /\ ReleaseDelay \in Nat \ {0}
  /\ SweepAge \in Nat
  /\ ReleaseDelay <= SweepAge
  /\ MaxFaults \in Nat

(* Tables are finite. *)
ASSUME TablesAssumption == IsFiniteSet(Orders) /\ IsFiniteSet(Requests)

VARIABLES balance,  \* User.creditBalance
          order,    \* Razorpay's side of an order: state and rupees
          topup,    \* CreditTopup.amountRupees of an order, 0 without a row
          rsv,      \* the AiUsageReservation row of a request id
          age,      \* ticks since the row was created, while it is RESERVED
          job,      \* the BullMQ job release-<reservation>
          jobAge,   \* ticks since that job was added, while it is delayed
          pc,       \* where each call stands in AiDiagramService.run
          cost,     \* the actual cost a call is about to settle
          worker,   \* what each queue worker is doing
          faults    \* failures injected so far

rows  == <<balance, topup, rsv>>
jobs  == <<job, jobAge>>
vars  == <<balance, order, topup, rsv, age, job, jobAge, pc, cost, worker, faults>>

-------------------------------------------------------------------------------
(* Costs.  A Decimal of rupees is a natural number of units, Scale to a rupee. *)

Least(x, y)    == IF x <= y THEN x ELSE y
Greatest(x, y) == IF x >= y THEN x ELSE y

Ceil(x)  == (x + (Scale - 1)) \div Scale         \* Math.ceil
Round(x) == (2 * x + Scale) \div (2 * Scale)     \* Math.round, halves up

(* What a reservation holds: the estimate in whole rupees, one at least. *)
Whole(est) == Greatest(1, Ceil(est))

(* What a settled reservation keeps of it, from the recorded actual cost. *)
Charge(est, actual) == Least(Whole(est), Greatest(0, Round(Least(actual, est))))

-------------------------------------------------------------------------------
(* States *)

Status == {"NONE", "RESERVED", "SETTLED", "REFUNDED"}
NoRow  == [status |-> "NONE", est |-> 0, actual |-> 0]
Idle   == [task |-> "idle", todo |-> {}, cur |-> NoRequest]

Ended == {"answered", "failed", "refused", "dead"}
PC == {"idle", "lookup", "reserve", "refetch", "enqueue", "agent", "settleRead",
       "settleWrite", "refundRead", "refundWrite", "finishOk", "finishErr"} \cup Ended

Init == /\ balance = [u \in Users |-> 0]
        /\ order = [o \in Orders |-> [state |-> "none", rupees |-> 0]]
        /\ topup = [o \in Orders |-> 0]
        /\ rsv = [r \in Requests |-> NoRow]
        /\ age = [r \in Requests |-> 0]
        /\ job = [r \in Requests |-> "absent"]
        /\ jobAge = [r \in Requests |-> 0]
        /\ pc = [c \in Calls |-> "idle"]
        /\ cost = [c \in Calls |-> 0]
        /\ worker = [w \in Workers |-> Idle]
        /\ faults = 0

(* A fault happens, and is counted. *)
Fault == /\ faults < MaxFaults
         /\ faults' = faults + 1

NoFault == UNCHANGED faults

-------------------------------------------------------------------------------
(* Top-ups *)

(* createRazorpayOrder: smaller amounts are answered 400 and change nothing. *)
CreateOrder(o) ==
  /\ order[o].state = "none"
  /\ \E n \in TopUpAmounts :
       /\ n >= MinTopUp
       /\ order' = [order EXCEPT ![o] = [state |-> "open", rupees |-> n]]
  /\ UNCHANGED <<balance, topup, rsv, age, jobs, pc, cost, worker, faults>>

(* Razorpay captures the payment and from then on delivers payment.captured.  *)
CapturePayment(o) ==
  /\ order[o].state = "open"
  /\ order' = [order EXCEPT ![o].state = "captured"]
  /\ UNCHANGED <<balance, topup, rsv, age, jobs, pc, cost, worker, faults>>

(* The transaction of handlePaymentCaptured: the unique razorpayOrderId rolls  *)
(* a second booking back (P2002).                                              *)
MutBookTopUp(o) ==
  /\ topup' = [topup EXCEPT ![o] = order[o].rupees]
  /\ balance' = [balance EXCEPT ![Payer[o]] = @ + order[o].rupees]
MutBookNothing(o) == UNCHANGED <<topup, balance>>
BookTopUp(o) ==
  IF topup[o] # 0 THEN UNCHANGED <<topup, balance>>
  ELSE /\ topup' = [topup EXCEPT ![o] = order[o].rupees]
       /\ balance' = [balance EXCEPT ![Payer[o]] = @ + order[o].rupees]

(* A delivery of payment.captured.  Razorpay repeats an unacknowledged one and *)
(* may repeat an acknowledged one; the acknowledgement itself can be lost.     *)
HandlePaymentCaptured(o) ==
  /\ order[o].state \in {"captured", "acked"}
  /\ BookTopUp(o)
  /\ \/ /\ order' = [order EXCEPT ![o].state = "acked"]
        /\ NoFault
     \/ /\ UNCHANGED order
        /\ Fault
  /\ UNCHANGED <<rsv, age, jobs, pc, cost, worker>>

-------------------------------------------------------------------------------
(* Reservations *)

(* reserveUsage's transaction once it goes through: decrement, then insert. *)
CreateReservation(r, est) ==
  /\ rsv' = [rsv EXCEPT ![r] = [status |-> "RESERVED", est |-> est, actual |-> 0]]
  /\ balance' = [balance EXCEPT ![Owner[r]] = @ - Whole(est)]
  /\ age' = [age EXCEPT ![r] = 0]

(* settleUsage from its guarded updateMany on. *)
MutSettle(r, actual) ==
  IF rsv[r].status # "RESERVED" THEN UNCHANGED <<rsv, balance>>
  ELSE /\ rsv' = [rsv EXCEPT ![r] = [status |-> "SETTLED", est |-> @.est,
                                     actual |-> actual]]
       /\ balance' = [balance EXCEPT ![Owner[r]] =
                        @ + (Whole(rsv[r].est) - Greatest(0, Round(actual)))]
SettleCommit(r, actual) ==
  IF rsv[r].status # "RESERVED" THEN UNCHANGED <<rsv, balance>>
  ELSE LET clamped == Least(actual, rsv[r].est) IN
       /\ rsv' = [rsv EXCEPT ![r] = [status |-> "SETTLED", est |-> @.est,
                                     actual |-> clamped]]
       /\ balance' = [balance EXCEPT ![Owner[r]] =
                        @ + (Whole(rsv[r].est) - Charge(rsv[r].est, actual))]

(* refundUsage from its guarded updateMany on. *)
MutRefund(r) ==
  /\ rsv' = [rsv EXCEPT ![r].status = "REFUNDED"]
  /\ balance' = [balance EXCEPT ![Owner[r]] = @ + Whole(rsv[r].est)]
RefundCommit(r) ==
  IF rsv[r].status # "RESERVED" THEN UNCHANGED <<rsv, balance>>
  ELSE /\ rsv' = [rsv EXCEPT ![r].status = "REFUNDED"]
       /\ balance' = [balance EXCEPT ![Owner[r]] = @ + Whole(rsv[r].est)]

-------------------------------------------------------------------------------
(* AiDiagramService.run *)

Goto(c, s) == pc' = [pc EXCEPT ![c] = s]

(* Where an exception at step s takes the call: before the try it surfaces, in *)
(* the try it reaches the catch, in the catch or the finally it ends the call. *)
AfterFailure(s) ==
  CASE s \in {"lookup", "reserve", "refetch"}         -> "failed"
    [] s \in {"enqueue", "settleRead", "settleWrite"} -> "refundRead"
    [] s \in {"refundRead", "refundWrite"}            -> "finishErr"
    [] OTHER                                          -> "failed"

(* A commit is acknowledged, or it is made and its acknowledgement is lost. *)
Commit(c, next) == \/ Goto(c, next) /\ NoFault
                   \/ Goto(c, AfterFailure(pc[c])) /\ Fault

StartCall(c) ==
  /\ pc[c] = "idle"
  /\ Goto(c, "lookup")
  /\ UNCHANGED <<balance, order, topup, rsv, age, jobs, cost, worker, faults>>

(* The read that makes a retried requestId find its reservation. *)
LookupReservation(c) ==
  /\ pc[c] = "lookup"
  /\ Goto(c, IF rsv[ReqOf[c]] = NoRow THEN "reserve" ELSE "enqueue")
  /\ UNCHANGED <<rows, order, age, jobs, cost, worker, faults>>

(* The conditional decrement matches no row: 402. *)
ReserveRefused(c) ==
  /\ pc[c] = "reserve"
  /\ balance[Owner[ReqOf[c]]] < Whole(EstOf[c])
  /\ Goto(c, "refused")
  /\ UNCHANGED <<rows, order, age, jobs, cost, worker, faults>>

(* The decrement matched, the insert hits the unique requestId: rolled back. *)
ReserveDuplicate(c) ==
  /\ pc[c] = "reserve"
  /\ balance[Owner[ReqOf[c]]] >= Whole(EstOf[c])
  /\ rsv[ReqOf[c]] # NoRow
  /\ Goto(c, "refetch")
  /\ UNCHANGED <<rows, order, age, jobs, cost, worker, faults>>

MutReserveCreated(c) ==
  /\ pc[c] = "reserve"
  /\ rsv[ReqOf[c]] = NoRow
  /\ CreateReservation(ReqOf[c], EstOf[c])
  /\ Commit(c, "enqueue")
  /\ UNCHANGED <<order, topup, jobs, cost, worker>>
ReserveCreated(c) ==
  /\ pc[c] = "reserve"
  /\ balance[Owner[ReqOf[c]]] >= Whole(EstOf[c])
  /\ rsv[ReqOf[c]] = NoRow
  /\ CreateReservation(ReqOf[c], EstOf[c])
  /\ Commit(c, "enqueue")
  /\ UNCHANGED <<order, topup, jobs, cost, worker>>

(* The loser of a race takes the winner's reservation. *)
RefetchWinner(c) ==
  /\ pc[c] = "refetch"
  /\ Goto(c, "enqueue")
  /\ UNCHANGED <<rows, order, age, jobs, cost, worker, faults>>

(* queue.add with a jobId the queue still knows, finished or not, adds nothing. *)
EnqueueRelease(c) ==
  /\ pc[c] = "enqueue"
  /\ LET r == ReqOf[c] IN
       IF job[r] = "absent"
       THEN /\ job' = [job EXCEPT ![r] = "delayed"]
            /\ jobAge' = [jobAge EXCEPT ![r] = 0]
       ELSE UNCHANGED jobs
  /\ Goto(c, "agent")
  /\ UNCHANGED <<rows, order, age, cost, worker, faults>>

(* The model answers with a Mermaid fence, at some cost. *)
AgentAnswers(c) ==
  /\ pc[c] = "agent"
  /\ \E a \in Costs : cost' = [cost EXCEPT ![c] = a]
  /\ Goto(c, "settleRead")
  /\ UNCHANGED <<rows, order, age, jobs, worker, faults>>

(* The provider fails, or the answer has no fence. *)
AgentFails(c) ==
  /\ pc[c] = "agent"
  /\ Goto(c, "refundRead")
  /\ UNCHANGED <<rows, order, age, jobs, cost, worker, faults>>

SettleRead(c) ==
  /\ pc[c] = "settleRead"
  /\ Goto(c, IF rsv[ReqOf[c]].status = "RESERVED" THEN "settleWrite" ELSE "finishOk")
  /\ UNCHANGED <<rows, order, age, jobs, cost, worker, faults>>

MutSettleWrite(c) ==
  /\ pc[c] = "settleWrite"
  /\ Goto(c, "finishOk")
  /\ UNCHANGED <<rows, order, age, jobs, cost, worker, faults>>
SettleWrite(c) ==
  /\ pc[c] = "settleWrite"
  /\ SettleCommit(ReqOf[c], cost[c])
  /\ Commit(c, "finishOk")
  /\ UNCHANGED <<order, topup, age, jobs, cost, worker>>

RefundRead(c) ==
  /\ pc[c] = "refundRead"
  /\ Goto(c, IF rsv[ReqOf[c]].status = "RESERVED" THEN "refundWrite" ELSE "finishErr")
  /\ UNCHANGED <<rows, order, age, jobs, cost, worker, faults>>

RefundWrite(c) ==
  /\ pc[c] = "refundWrite"
  /\ RefundCommit(ReqOf[c])
  /\ Commit(c, "finishErr")
  /\ UNCHANGED <<order, topup, age, jobs, cost, worker>>

(* The finally: BullMQ removes the job in any state but an active one, whose   *)
(* lock makes remove() throw and the call end in an error.                     *)
FinishCall(c) ==
  /\ pc[c] \in {"finishOk", "finishErr"}
  /\ LET r == ReqOf[c] IN
       IF job[r] = "active"
       THEN Goto(c, "failed") /\ UNCHANGED jobs
       ELSE /\ Goto(c, IF pc[c] = "finishOk" THEN "answered" ELSE "failed")
            /\ job' = [job EXCEPT ![r] = "absent"]
            /\ jobAge' = [jobAge EXCEPT ![r] = 0]
  /\ UNCHANGED <<rows, order, age, cost, worker, faults>>

(* The database or Redis fails an await of the call, which had no effect. *)
StepFails(c) ==
  /\ pc[c] \notin Ended \cup {"idle", "agent"}
  /\ Goto(c, AfterFailure(pc[c]))
  /\ Fault
  /\ UNCHANGED <<rows, order, age, jobs, cost, worker>>

CallStep(c) ==
  \/ StartCall(c) \/ LookupReservation(c)
  \/ ReserveRefused(c) \/ ReserveDuplicate(c) \/ ReserveCreated(c) \/ RefetchWinner(c)
  \/ EnqueueRelease(c) \/ AgentAnswers(c) \/ AgentFails(c)
  \/ SettleRead(c) \/ SettleWrite(c) \/ RefundRead(c) \/ RefundWrite(c)
  \/ FinishCall(c) \/ StepFails(c)

-------------------------------------------------------------------------------
(* AiUsageProcessor *)

(* A release job whose delay has passed is handed to a worker. *)
MutTakeReleaseJob(w, r) ==
  /\ worker[w] = Idle
  /\ job[r] = "delayed"
  /\ job' = [job EXCEPT ![r] = "active"]
  /\ worker' = [worker EXCEPT ![w] = [task |-> "release", todo |-> {r}, cur |-> NoRequest]]
  /\ UNCHANGED <<rows, order, age, jobAge, pc, cost, faults>>
TakeReleaseJob(w, r) ==
  /\ worker[w] = Idle
  /\ job[r] = "delayed" /\ jobAge[r] >= ReleaseDelay
  /\ job' = [job EXCEPT ![r] = "active"]
  /\ worker' = [worker EXCEPT ![w] = [task |-> "release", todo |-> {r}, cur |-> NoRequest]]
  /\ UNCHANGED <<rows, order, age, jobAge, pc, cost, faults>>

(* sweepStaleReservations lists the stale rows; an empty list changes nothing. *)
MutStale == {r \in Requests : rsv[r].status = "RESERVED" /\ age[r] >= SweepAge
                              /\ job[r] # "absent"}
Stale == {r \in Requests : rsv[r].status = "RESERVED" /\ age[r] >= SweepAge}

StartSweep(w) ==
  /\ worker[w] = Idle
  /\ Stale # {}
  /\ worker' = [worker EXCEPT ![w] = [task |-> "sweep", todo |-> Stale, cur |-> NoRequest]]
  /\ UNCHANGED <<rows, order, age, jobs, pc, cost, faults>>

(* The worker is through with r: a release job is done, a sweep goes on. *)
WorkerDone(w, r) ==
  LET left == worker[w].todo \ {r} IN
  /\ worker' = [worker EXCEPT ![w] =
                   IF left = {} THEN Idle
                   ELSE [task |-> worker[w].task, todo |-> left, cur |-> NoRequest]]
  /\ job' = IF worker[w].task = "release" THEN [job EXCEPT ![r] = "finished"] ELSE job

(* refundUsage(r) begins: the read of the row inside the transaction. *)
WorkerRead(w, r) ==
  /\ worker[w].cur = NoRequest
  /\ r \in worker[w].todo
  /\ IF rsv[r].status = "RESERVED"
     THEN worker' = [worker EXCEPT ![w].cur = r] /\ UNCHANGED job
     ELSE WorkerDone(w, r)
  /\ UNCHANGED <<rows, order, age, jobAge, pc, cost, faults>>

WorkerWrite(w) ==
  LET r == worker[w].cur IN
  /\ r # NoRequest
  /\ RefundCommit(r)
  /\ WorkerDone(w, r)
  /\ UNCHANGED <<order, topup, age, jobAge, pc, cost, faults>>

(* refundUsage throws, before or after its commit: the job fails, and a sweep  *)
(* leaves the rest of its list alone.  Jobs have one attempt.                  *)
WorkerFails(w) ==
  /\ worker[w] # Idle
  /\ \/ UNCHANGED <<rsv, balance>>
     \/ worker[w].cur # NoRequest /\ RefundCommit(worker[w].cur)
  /\ worker' = [worker EXCEPT ![w] = Idle]
  /\ job' = [r \in Requests |-> IF worker[w].task = "release" /\ r \in worker[w].todo
                                THEN "finished" ELSE job[r]]
  /\ Fault
  /\ UNCHANGED <<order, topup, age, jobAge, pc, cost>>

WorkerStep(w) ==
  \/ \E r \in Requests : TakeReleaseJob(w, r) \/ WorkerRead(w, r)
  \/ StartSweep(w) \/ WorkerWrite(w) \/ WorkerFails(w)

-------------------------------------------------------------------------------
(* Environment *)

(* The process dies with every call and worker in it.  BullMQ finds the job of *)
(* a dead worker stalled: it becomes due again, or fails at the stall limit.   *)
Crash ==
  /\ pc' = [c \in Calls |-> IF pc[c] \in Ended \cup {"idle"} THEN pc[c] ELSE "dead"]
  /\ worker' = [w \in Workers |-> Idle]
  /\ \E stalled \in {"delayed", "finished"} :
       job' = [r \in Requests |-> IF job[r] = "active" THEN stalled ELSE job[r]]
  /\ Fault
  /\ UNCHANGED <<rows, order, age, jobAge, cost>>

Older(x, limit) == Least(x + 1, limit)

(* Time passes; ages stop counting at the limit the code compares them with. *)
Tick ==
  /\ age' = [r \in Requests |-> IF rsv[r].status = "RESERVED"
                                THEN Older(age[r], SweepAge) ELSE age[r]]
  /\ jobAge' = [r \in Requests |-> IF job[r] = "delayed"
                                   THEN Older(jobAge[r], ReleaseDelay) ELSE jobAge[r]]
  /\ <<age, jobAge>> # <<age', jobAge'>>
  /\ UNCHANGED <<rows, order, job, pc, cost, worker, faults>>

Next ==
  \/ \E o \in Orders : CreateOrder(o) \/ CapturePayment(o) \/ HandlePaymentCaptured(o)
  \/ \E c \in Calls : CallStep(c)
  \/ \E w \in Workers : WorkerStep(w)
  \/ Crash
  \/ Tick

Spec == Init /\ [][Next]_vars

(* The clock moves, Razorpay redelivers what is not acknowledged, and an idle  *)
(* worker serves the queue.  Nothing is assumed of a call: the agent may never *)
(* answer, for the code gives it no time limit.                                *)
Fairness ==
  /\ WF_vars(Tick)
  /\ \A o \in Orders : WF_vars(HandlePaymentCaptured(o))
  /\ \A w \in Workers : /\ WF_vars(StartSweep(w))
                        /\ WF_vars(WorkerWrite(w))
                        /\ \A r \in Requests : WF_vars(WorkerRead(w, r))

FairSpec == Spec /\ Fairness

-------------------------------------------------------------------------------
(* Properties *)

Rows == [status : Status, est : Nat, actual : Nat]
WorkerStates == [task : {"idle", "release", "sweep"},
                 todo : SUBSET Requests,
                 cur  : Requests \cup {NoRequest}]

(* Every variable keeps the shape its column, job or local variable has, and a *)
(* recorded actual cost never exceeds the estimate it was reserved under.      *)
TypeOK ==
  /\ balance \in [Users -> Int]
  /\ order \in [Orders -> [state : {"none", "open", "captured", "acked"}, rupees : Nat]]
  /\ topup \in [Orders -> Nat]
  /\ rsv \in [Requests -> Rows]
  /\ \A r \in Requests : rsv[r].actual <= rsv[r].est
  /\ age \in [Requests -> 0..SweepAge]
  /\ job \in [Requests -> {"absent", "delayed", "active", "finished"}]
  /\ jobAge \in [Requests -> 0..ReleaseDelay]
  /\ pc \in [Calls -> PC]
  /\ cost \in [Calls -> Nat]
  /\ worker \in [Workers -> WorkerStates]
  /\ faults \in 0..MaxFaults

(* No interleaving of concurrent reservations takes a balance below zero: the  *)
(* decrement is conditional on the balance it finds, not on one read earlier.  *)
NoOverdraft == \A u \in Users : balance[u] >= 0

(* A call that got as far as returning its diagram leaves nothing held: the    *)
(* row it ran on has been settled, or some other path refunded it.             *)
DeliveredIsDecided ==
  \A c \in Calls : pc[c] \in {"finishOk", "answered"} =>
    rsv[ReqOf[c]].status \in {"SETTLED", "REFUNDED"}

(* A diagram is delivered uncharged only when its reservation outlived the     *)
(* release delay or another call ran with the same requestId.                  *)
FreeOnlyIfLateOrShared ==
  \A c \in Calls :
    /\ pc[c] \in {"finishOk", "answered"}
    /\ rsv[ReqOf[c]].status = "REFUNDED"
    => \/ age[ReqOf[c]] >= ReleaseDelay
       \/ \E d \in Calls \ {c} : ReqOf[d] = ReqOf[c] /\ pc[d] # "idle"

(* Of settle, refund, release job and sweep racing for one row one decides it: *)
(* a decided row never changes, and an open one keeps its estimate.            *)
DecidedOnce ==
  [][\A r \in Requests :
       /\ rsv[r].status \in {"SETTLED", "REFUNDED"} => rsv'[r] = rsv[r]
       /\ rsv[r].status = "RESERVED" => /\ rsv'[r].status # "NONE"
                                        /\ rsv'[r].est = rsv[r].est]_vars

(* No background refund comes early: a reservation turns REFUNDED by a failing *)
(* call of its own request, or after the release delay has passed over it.     *)
NoEarlyRelease ==
  [][\A r \in Requests :
       rsv[r].status = "RESERVED" /\ rsv'[r].status = "REFUNDED" =>
         \/ age[r] >= ReleaseDelay
         \/ \E c \in Calls : ReqOf[c] = r /\ pc[c] = "refundWrite"]_vars

(* The credits of this module implement the abstract ledger.                   *)
Holding(row) == [status |-> row.status,
                 amount |-> IF row.status = "NONE" THEN 0 ELSE Whole(row.est),
                 charge |-> IF row.status = "SETTLED" THEN Charge(row.est, row.actual) ELSE 0]

Ledger == INSTANCE CreditLedger WITH hold <- [r \in Requests |-> Holding(rsv[r])]

ImplementsLedger == Ledger!Spec

(* Rows and balances agree: each balance is what its user's booked orders sum  *)
(* up to, less what her open reservations hold and her settled ones charged,   *)
(* whatever was repeated, raced or failed on the way.                          *)
Reconciles == Ledger!Reconciled

(* Credits are held for ever by no crash, failed refund or removed release job:*)
(* the sweep reaches every reservation that stays open.                        *)
EveryReservationDecided ==
  \A r \in Requests : rsv[r].status = "RESERVED" ~> rsv[r].status # "RESERVED"

(* A captured payment is booked, whatever deliveries or acknowledgements fail. *)
CapturedIsBooked ==
  \A o \in Orders : order[o].state = "captured" ~>
    topup[o] # 0 /\ order[o].state = "acked"

(* reserveUsage's comment: the same requestId always returns the same result.  *)
(* Turning a call away for lack of credits while its request already holds     *)
(* a reservation breaks that.                                                  *)
SameRequestSameResult ==
  [][\A c \in Calls : pc[c] # "refused" /\ pc'[c] = "refused" =>
       rsv[ReqOf[c]].status = "NONE"]_vars
===============================================================================
