------------------------------- MODULE Checkout -------------------------------
(***************************************************************************)
(* Orders of customers with accounts: createPayOrder (wallet/schema.py)    *)
(* and create_order (provider/wechat.py) make an order for the openid of   *)
(* an authorisation code, WeChat collects it, and order_updated looks for  *)
(* the user who has bound this openid, gets the funds and credits them.    *)
(* Cash back depends on a SystemQuota that an administrator may edit       *)
(* meanwhile.                                                              *)
(*                                                                         *)
(* An order has the name of the call that makes it.  Duplicate deliveries  *)
(* and the locks against them are in module Orders, the transaction of the *)
(* credit in module Wallet; here a delivery is the lookup of the payer,    *)
(* the reads of the funds and of the quota, and the commit.                *)
(***************************************************************************)
EXTENDS Accounts, Money

CONSTANTS
  DefaultThreshold,  \* of the cash back, while no quota is set
  NewThreshold       \* what administrators set it to

ASSUME ThresholdAssumption == DefaultThreshold \in Nat /\ NewThreshold \in Nat

VARIABLES
  order,     \* the UnifiedOrder row of the call, and WeChat's state of it
  delivery,  \* where order_updated is with the order
  payer,     \* the user it has found
  due,       \* the cash back its transaction has written
  quotas,    \* history: what the quota has been since it looked for the payer
  credited,  \* who was credited, and how much
  back,      \* the cash back of the order
  quota      \* the SystemQuota row of the threshold, or None

orderVars == <<order, delivery, payer, due, quotas, credited, back>>
vars == <<accountVars, orderVars, quota>>

NotCredited == [to |-> None, amount |-> 0]

CheckoutInit ==
  /\ Init
  /\ order = [c \in Calls |-> "none"]
  /\ delivery = [c \in Calls |-> "idle"] /\ payer = [c \in Calls |-> None]
  /\ due = [c \in Calls |-> 0] /\ quotas = [c \in Calls |-> {}]
  /\ credited = [c \in Calls |-> NotCredited]
  /\ back = [c \in Calls |-> 0]
  /\ quota = None

\* Mutant of Fee: the amount is rounded up.
FeeUp(c) == Yuan2Fen(req[c].amount + Fen - 1)

\* total_fee, in fen.
Fee(c) == Yuan2Fen(req[c].amount)
-----------------------------------------------------------------------------
(* The order.                                                              *)

CreateOrder(c) ==
  /\ At(c, "order")
  /\ order' = [order EXCEPT ![c] = "created"]
  /\ Goto(c, "prepay")
  /\ UNCHANGED <<users_, row, funds, keys, req, me, made, history, faults, delivery, payer, due,
                 quotas, credited, back, quota>>

\* WeChat takes no order of nothing, and may refuse any.
Prepay(c) ==
  /\ At(c, "prepay")
  /\ \/ Fee(c) > 0 /\ order' = [order EXCEPT ![c] = "open"] /\ Goto(c, "done")
     \/ Fail(c) /\ UNCHANGED order
  /\ UNCHANGED <<users_, row, funds, keys, req, me, made, history, faults, delivery, payer, due,
                 quotas, credited, back, quota>>

Pay(c) ==
  /\ order[c] = "open"
  /\ order' = [order EXCEPT ![c] = "paid"]
  /\ UNCHANGED <<accountVars, delivery, payer, due, quotas, credited, back, quota>>
-----------------------------------------------------------------------------
(* order_updated.                                                          *)

HasOpenid(p, c) == p \in shopUsers /\ row[p].openid = req[c].openid

\* A delivery goes to the funds of the payer it has found.
Found(c, p) ==
  /\ payer' = [payer EXCEPT ![c] = p]
  /\ delivery' = [delivery EXCEPT ![c] = "funds"]
  /\ quotas' = [quotas EXCEPT ![c] = {quota}]
  /\ UNCHANGED <<accountVars, order, due, credited, back, quota>>

\* Mutant of Lookup: the payer is the user whose request made the order.
LookupCaller(c) ==
  /\ order[c] = "paid" /\ delivery[c] = "idle" /\ credited[c] = NotCredited
  /\ Found(c, Phone(c))

\* The row with the order's openid; with none, ShopUser.DoesNotExist ends the delivery.
Lookup(c) ==
  /\ order[c] = "paid" /\ delivery[c] = "idle" /\ credited[c] = NotCredited
  /\ \E p \in Phones : HasOpenid(p, c) /\ Found(c, p)

\* get_user_fund: of the payer in do_deposit, and of payer and payee in do_transfer.
GetFunds(c) ==
  /\ delivery[c] \in {"funds", "transfer", "payee"}
  /\ LET p == IF delivery[c] = "payee" THEN req[c].to ELSE payer[c]
         next == IF delivery[c] = "transfer" THEN "payee"
                 ELSE IF delivery[c] = "funds" /\ req[c].to # None THEN "transfer"
                 ELSE "cash_back"
     IN \/ GetFund(c, p) /\ delivery' = [delivery EXCEPT ![c] = next]
        \/ TwoFunds(c, p) /\ delivery' = [delivery EXCEPT ![c] = "idle"]
  /\ UNCHANGED <<users_, row, funds, keys, req, pc, me, chosen, wrong, held, faults, order, payer,
                 due, quotas, credited, back, quota>>

\* get_quota
Quota(default) == IF quota = None THEN default ELSE quota

\* Mutant of Threshold: a quota that is not set is zero.
ThresholdUnset == Quota(0)

\* CashBackSettings.threshold
Threshold == Quota(DefaultThreshold)

\* What is credited, in fen.
Amount(c) == Fen2Yuan(Fee(c))

\* do_cash_back reads the threshold, and gets the payer's fund, which is there by now, if it
\* is reached.
CashBack(c) ==
  /\ delivery[c] = "cash_back"
  /\ \/ /\ Amount(c) < Threshold
        /\ delivery' = [delivery EXCEPT ![c] = "commit"]
        /\ UNCHANGED <<made, raced, due>>
     \/ /\ Amount(c) >= Threshold
        /\ \/ /\ Seen(c, payer[c]) = 1 /\ UNCHANGED <<made, raced>>
              /\ delivery' = [delivery EXCEPT ![c] = "commit"]
              /\ due' = [due EXCEPT ![c] = Amount(c)]
           \/ /\ TwoFunds(c, payer[c]) /\ delivery' = [delivery EXCEPT ![c] = "idle"]
              /\ UNCHANGED due
  /\ UNCHANGED <<users_, row, funds, keys, req, pc, me, chosen, wrong, held, faults, order, payer,
                 quotas, credited, back, quota>>

\* The commit of do_deposit (and do_transfer) and do_cash_back, in one transaction.
Credit(c) ==
  /\ delivery[c] = "commit"
  /\ CommitFunds(c)
  /\ credited' = [credited EXCEPT ![c] = [to |-> payer[c], amount |-> Amount(c)]]
  /\ back' = [back EXCEPT ![c] = due[c]] /\ due' = [due EXCEPT ![c] = 0]
  /\ delivery' = [delivery EXCEPT ![c] = "idle"]
  /\ UNCHANGED <<users_, row, keys, req, pc, me, history, faults, order, payer, quotas, quota>>

\* The transaction fails, or the process dies; the order may be delivered again.
Interrupt(c) ==
  /\ delivery[c] # "idle" /\ faults < MaxFaults
  /\ faults' = faults + 1
  /\ made' = [made EXCEPT ![c] = {}] /\ due' = [due EXCEPT ![c] = 0]
  /\ delivery' = [delivery EXCEPT ![c] = "idle"]
  /\ UNCHANGED <<users_, row, funds, keys, req, pc, me, history, order, payer, quotas, credited,
                 back, quota>>
-----------------------------------------------------------------------------
\* SystemQuotaAdmin: an administrator saves the row of the threshold, or deletes it.
EditQuota(c) ==
  /\ At(c, "start") /\ Kind(c) = "editQuota"
  /\ quota' \in {NewThreshold, None} /\ quota' # quota
  /\ quotas' = [d \in Calls |-> IF delivery[d] = "idle" THEN quotas[d]
                                ELSE quotas[d] \cup {quota'}]
  /\ Goto(c, "done")
  /\ UNCHANGED <<users_, row, funds, keys, req, me, made, history, faults, order, delivery, payer,
                 due, credited, back>>
-----------------------------------------------------------------------------
Next ==
  \/ AccountNext /\ UNCHANGED <<orderVars, quota>>
  \/ \E c \in Calls :
       \/ CreateOrder(c) \/ Prepay(c) \/ Pay(c) \/ EditQuota(c)
       \/ Lookup(c) \/ GetFunds(c) \/ CashBack(c) \/ Credit(c) \/ Interrupt(c)

Spec == CheckoutInit /\ [][Next]_vars

\* A call that has begun is worked on to its end.  Nothing is said of deliveries: WeChat gives
\* up some time, and the synchronisation leaves out orders it has stored as paid.
Work(c) == \/ Step(c) /\ UNCHANGED <<orderVars, quota>>
           \/ CreateOrder(c) \/ Prepay(c)

FairSpec == Spec /\ \A c \in Calls : WF_vars(Work(c))
-----------------------------------------------------------------------------
(* Properties.                                                             *)

\* Every variable has its type.
CheckoutTypeOK ==
  /\ TypeOK
  /\ order \in [Calls -> {"none", "created", "open", "paid"}]
  /\ delivery \in [Calls -> {"idle", "funds", "transfer", "payee", "cash_back", "commit"}]
  /\ payer \in [Calls -> Phones \cup {None}]
  /\ due \in [Calls -> Int] /\ quotas \in [Calls -> SUBSET (Nat \cup {None})]
  /\ credited \in [Calls -> [to : Phones \cup {None}, amount : Int]]
  /\ back \in [Calls -> Int]
  /\ quota \in Nat \cup {None}

\* A user is credited with what WeChat collected, which is the amount asked for but for
\* less than a fen (yuan2fen, order_updated).
CreditedAsAsked ==
  \A c \in Calls : credited[c] # NotCredited =>
    /\ credited[c].amount <= req[c].amount /\ req[c].amount < credited[c].amount + Fen

\* An order is credited to a user who has bound its openid, whoever made the order and
\* whoever binds what between the lookup and the commit (order_updated).
CreditedToHolder ==
  \A c \in Calls : credited[c] # NotCredited => <<credited[c].to, req[c].openid>> \in held

\* An order that is credited has cash back if its amount reaches a threshold that was in
\* force at some time between the lookup of the payer and the commit, the default one if
\* there was no quota, and has none if it is below such a threshold: edits meanwhile do not
\* mix (do_cash_back, get_quota).
InForce(c) == {IF q = None THEN DefaultThreshold ELSE q : q \in quotas[c]}

ThresholdHonoured ==
  [][\A c \in Calls : credited'[c] # credited[c] =>
       \E t \in InForce(c) : back'[c] = IF credited'[c].amount < t THEN 0
                                       ELSE credited'[c].amount]_vars

\* A call that has begun comes to an end, whatever becomes of the others: in the end none is
\* halfway (they begin once).
CallsEnd == <>[](\A c \in Calls : pc[c] \in {"start"} \cup Finished)
=============================================================================
