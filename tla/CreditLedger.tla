----------------------------- MODULE CreditLedger -----------------------------
(* What the credits component promises, without saying how: a prepaid balance  *)
(* per user that moves only when a top-up is booked, a reservation is taken,   *)
(* or an open reservation is decided, each of them once.  Webhook redelivery,  *)
(* retried requests, jobs, crashes and transactions do not appear here.        *)
EXTENDS Integers, Folds

CONSTANTS Users,     \* local User rows
          Orders,    \* Razorpay orders
          Requests,  \* client-minted request ids; one reservation each at most
          Payer,     \* the user an order was created for
          Owner      \* the user a request id belongs to

VARIABLES balance,   \* User.creditBalance
          topup,     \* rupees booked for an order, 0 while it is not booked
          hold       \* the reservation of a request

vars == <<balance, topup, hold>>

NoHold == [status |-> "NONE", amount |-> 0, charge |-> 0]

Init == /\ balance = [u \in Users |-> 0]
        /\ topup = [o \in Orders |-> 0]
        /\ hold = [r \in Requests |-> NoHold]

(* A top-up is booked and paid into the payer's balance in one step. *)
TopUp(o) == LET rupees == topup'[o] IN
            /\ topup[o] = 0
            /\ rupees \in Nat \ {0}
            /\ topup' = [topup EXCEPT ![o] = rupees]
            /\ balance' = [balance EXCEPT ![Payer[o]] = @ + rupees]
            /\ UNCHANGED hold

(* A reservation takes its whole amount out of a balance that covers it. *)
Reserve(r) == LET rupees == hold'[r].amount IN
              /\ hold[r].status = "NONE"
              /\ rupees \in 1..balance[Owner[r]]
              /\ hold' = [hold EXCEPT ![r] = [status |-> "RESERVED", amount |-> rupees,
                                              charge |-> 0]]
              /\ balance' = [balance EXCEPT ![Owner[r]] = @ - rupees]
              /\ UNCHANGED topup

(* An open reservation is decided: c stays charged, the rest returns. *)
Decide(r, outcome, c) ==
  /\ hold[r].status = "RESERVED"
  /\ c \in 0..hold[r].amount
  /\ hold' = [hold EXCEPT ![r] = [status |-> outcome, amount |-> @.amount, charge |-> c]]
  /\ balance' = [balance EXCEPT ![Owner[r]] = @ + (hold[r].amount - c)]
  /\ UNCHANGED topup

Settle(r) == \E c \in 0..hold[r].amount : Decide(r, "SETTLED", c)

Refund(r) == Decide(r, "REFUNDED", 0)

Next == \/ \E o \in Orders : TopUp(o)
        \/ \E r \in Requests : Reserve(r) \/ Settle(r) \/ Refund(r)

Spec == Init /\ [][Next]_vars

(* Rupees in the rows of a table. *)
Total(rupees, table) ==
  MapThenFoldSet(+, 0, LAMBDA row : rupees[row], LAMBDA some : CHOOSE row \in some : TRUE, table)

(* What a reservation has taken from the balance for now, or for good. *)
Taken(h) == IF h.status = "RESERVED" THEN h.amount ELSE h.charge

(* Each balance can be recomputed from the rows alone: what its user topped    *)
(* up, less what her open reservations hold, less what settled ones charged.   *)
Reconciled ==
  \A u \in Users :
    balance[u] = Total(topup, {o \in Orders : Payer[o] = u})
                 - Total([r \in Requests |-> Taken(hold[r])], {r \in Requests : Owner[r] = u})
===============================================================================
