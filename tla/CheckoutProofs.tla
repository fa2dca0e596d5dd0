----------------------------- MODULE CheckoutProofs -----------------------------
(***************************************************************************)
(* Accounts and their orders, proved for any phones, openids, calls,       *)
(* requests, thresholds and faults.  The invariant says of each call what  *)
(* its place in the code has made sure of, and of each row where its       *)
(* values come from; what users have been told only grows.                 *)
(***************************************************************************)
EXTENDS Checkout, FiniteSetTheorems, TLAPS

\* Which requests get to which place.
Allowed(kind, l) ==
  /\ kind = "transfer" => l \in Finished \cup
       {"start", "get_key", "set_key", "check_password", "save_retries", "find_payee",
        "from_fund", "to_fund", "commit"}
  /\ l \in {"get_key", "set_key", "find_payee"} => kind \in {"transfer", "createPayOrder"}
  /\ l \in {"check_password", "save_retries", "to_fund"} => kind = "transfer"
  /\ l \in {"from_fund", "commit"} => kind \in {"transfer", "ledgerList"}
  /\ l = "save_password" => kind = "setPaymentPassword"
  /\ l \in {"order", "prepay"} => kind = "createPayOrder"

\* Here the call has an account, and there a transfer has given the password.
InAccount == {"bind", "save_info", "save_password", "get_key", "set_key", "check_password",
              "save_retries"}
Authorised == {"find_payee", "from_fund", "to_fund", "commit", "done"}

CallOK ==
  \A c \in Calls :
    /\ Allowed(Kind(c), pc[c])
    /\ pc[c] \in InAccount => Phone(c) \in shopUsers
    /\ Kind(c) = "transfer" /\ pc[c] \in Authorised => req[c].password \in chosen[Phone(c)]

\* What a call has loaded was true once.
LoadedOK ==
  \A c \in Calls :
    /\ me[c].password # None => me[c].password \in chosen[Phone(c)]
    /\ me[c].retries <= wrong[Phone(c)]

RowOK ==
  \A p \in Phones :
    /\ p \notin shopUsers => row[p] = NewRow
    /\ row[p].openid # None => <<p, row[p].openid>> \in held
    /\ row[p].password # None => row[p].password \in chosen[p]

\* OneFund without counting: who makes a row is the only one, and there is none yet.
FundOK ==
  \A p \in Phones \ raced :
    /\ funds[p] <= 1
    /\ \A c, d \in Calls : p \in made[c] => /\ funds[p] = 0
                                            /\ p \in made[d] => c = d

\* WeChat takes orders of something, and delivers the payments of what is paid.
DeliveryOK ==
  \A c \in Calls :
    /\ order[c] # "none" => Kind(c) = "createPayOrder"
    /\ order[c] \in {"open", "paid"} => Fee(c) > 0
    /\ delivery[c] # "idle" => /\ Fee(c) > 0 /\ payer[c] \in Phones
                               /\ <<payer[c], req[c].openid>> \in held
    /\ delivery[c] \in {"transfer", "payee"} => req[c].to # None

CreditOK == CreditedAsAsked /\ CreditedToHolder

\* The requests are as the clients' programs send them.
RequestsOK == req \in Scenarios

IInv == /\ CheckoutTypeOK /\ RequestsOK /\ RegistrationWhole
        /\ CallOK /\ LoadedOK /\ RowOK /\ RetriesCounted /\ ColumnsUnique
        /\ FundOK /\ DeliveryOK /\ CreditOK
-----------------------------------------------------------------------------
(* The frames of the invariant's parts.                                    *)

LEMMA RequestFacts ==
  ASSUME CheckoutTypeOK, RequestsOK, NEW c \in Calls
  PROVE  /\ Kind(c) \in Kinds /\ Phone(c) \in Phones /\ req[c].amount \in Int
         /\ req[c].openid \in Openids \cup {None} /\ req[c].name \in Names \cup {None}
         /\ req[c].password \in Passwords \cup {None} /\ req[c].to \in Phones \cup {None}
         /\ Kind(c) \in {"setPaymentPassword", "transfer"} => req[c].password # None
         /\ Kind(c) = "transfer" => req[c].to # None
         /\ Kind(c) = "createPayOrder" => req[c].openid # None
<1>1. req[c] \in Request
  BY ConstantsAssumption DEF RequestsOK
<1> QED
  BY <1>1, ConstantsAssumption DEF RequestsOK, Request, Kind, Phone

LEMMA RowFacts ==
  ASSUME NEW r \in Row
  PROVE  /\ r.openid \in Openids \cup {None} /\ r.name \in Names \cup {None}
         /\ r.password \in Passwords \cup {None} /\ r.retries \in Nat
BY DEF Row

LEMMA NewRowFacts ==
  /\ NewRow \in Row
  /\ NewRow.openid = None /\ NewRow.name = None /\ NewRow.password = None /\ NewRow.retries = 0
BY DEF Row, NewRow

\* Rows and what is told of them.
RowsOK == RegistrationWhole /\ RowOK /\ RetriesCounted /\ ColumnsUnique

LEMMA RowsFrame ==
  ASSUME RowsOK, UNCHANGED <<users, shopUsers, row, chosen, wrong, held>>
  PROVE  RowsOK'
BY DEF RowsOK, RegistrationWhole, RowOK, RetriesCounted, ColumnsUnique

\* The quota and the cash back.
CashBackType ==
  /\ quota \in Nat \cup {None} /\ quotas \in [Calls -> SUBSET (Nat \cup {None})]
  /\ due \in [Calls -> Int] /\ back \in [Calls -> Int]

LEMMA CashBackFrame ==
  ASSUME CheckoutTypeOK, UNCHANGED <<due, quotas, back, quota>>
  PROVE  CashBackType'
BY DEF CheckoutTypeOK, CashBackType

LEMMA FundFrame ==
  ASSUME FundOK, UNCHANGED <<funds, made, raced>>
  PROVE  FundOK'
BY DEF FundOK

Orders == [Calls -> {"none", "created", "open", "paid"}]

\* Orders may be made by calls of createPayOrder, ...
OrdersMove ==
  /\ order' \in Orders
  /\ \A c \in Calls : /\ order'[c] # "none" => Kind(c) = "createPayOrder"
                      /\ order'[c] \in {"open", "paid"} => Fee(c) > 0

LEMMA OrdersStay ==
  ASSUME CheckoutTypeOK, DeliveryOK, UNCHANGED order
  PROVE  OrdersMove
BY DEF OrdersMove, Orders, CheckoutTypeOK, DeliveryOK

\* ... and openids be bound.
LEMMA DeliveryFrame ==
  ASSUME DeliveryOK, CreditOK, UNCHANGED <<req, delivery, payer, credited>>,
         held \subseteq held', OrdersMove
  PROVE  DeliveryOK' /\ CreditOK'
<1>1. DeliveryOK'
  BY DEF DeliveryOK, OrdersMove, Kind, Fee
<1>2. CreditedAsAsked'
  BY DEF CreditOK, CreditedAsAsked
<1>3. CreditedToHolder'
  BY DEF CreditOK, CreditedToHolder
<1> QED
  BY <1>1, <1>2, <1>3 DEF CreditOK

\* Passwords may be set, and wrong ones counted.
LEMMA LoadedFrame ==
  ASSUME CheckoutTypeOK, RequestsOK, LoadedOK, UNCHANGED <<req, me>>,
         wrong' \in [Phones -> Nat],
         \A p \in Phones : chosen[p] \subseteq chosen'[p] /\ wrong[p] <= wrong'[p]
  PROVE  LoadedOK'
<1> SUFFICES ASSUME NEW c \in Calls
             PROVE  /\ me[c].password # None => me[c].password \in chosen'[Phone(c)]
                    /\ me[c].retries <= wrong'[Phone(c)]
  BY DEF LoadedOK, Phone
<1>1. Phone(c) \in Phones
  BY RequestFacts
<1>2. me[c].retries \in Nat /\ wrong[Phone(c)] \in Nat /\ wrong'[Phone(c)] \in Nat
  BY <1>1, RowFacts DEF CheckoutTypeOK, TypeOK
<1> QED
  BY <1>1, <1>2 DEF LoadedOK

\* A call goes somewhere.
LEMMA CallStep ==
  ASSUME CheckoutTypeOK, RequestsOK, CallOK, UNCHANGED req,
         shopUsers \subseteq shopUsers',
         \A p \in Phones : chosen[p] \subseteq chosen'[p],
         NEW c \in Calls, NEW l, Goto(c, l), Allowed(Kind(c), l),
         l \in InAccount => Phone(c) \in shopUsers',
         Kind(c) = "transfer" /\ l \in Authorised => req[c].password \in chosen'[Phone(c)]
  PROVE  CallOK'
<1> SUFFICES ASSUME NEW d \in Calls
             PROVE  /\ Allowed(Kind(d), pc'[d])
                    /\ pc'[d] \in InAccount => Phone(d) \in shopUsers'
                    /\ Kind(d) = "transfer" /\ pc'[d] \in Authorised
                         => req[d].password \in chosen'[Phone(d)]
  BY DEF CallOK, Kind, Phone, Allowed
<1>1. Phone(d) \in Phones
  BY RequestFacts
<1>2. CASE d = c
  <2>1. pc'[c] = l
    BY DEF Goto, CheckoutTypeOK, TypeOK
  <2> QED
    BY <1>2, <2>1
<1>3. CASE d # c
  <2>1. pc'[d] = pc[d]
    BY <1>3 DEF Goto, CheckoutTypeOK, TypeOK
  <2> QED
    BY <1>1, <2>1 DEF CallOK
<1> QED
  BY <1>2, <1>3
-----------------------------------------------------------------------------
(* Fund rows.                                                              *)

MadeType == made \in [Calls -> SUBSET Phones] /\ raced \subseteq Phones

LEMMA SeenType ==
  ASSUME CheckoutTypeOK, NEW c \in Calls, NEW p \in Phones
  PROVE  /\ Seen(c, p) \in Nat
         /\ p \in made[c] => Seen(c, p) = funds[p] + 1
         /\ p \notin made[c] => Seen(c, p) = funds[p]
<1>1. funds[p] \in Nat
  BY DEF CheckoutTypeOK, TypeOK
<1>2. CASE p \in made[c]
  <2>1. {p} \cap made[c] = {p}
    BY <1>2
  <2>2. Cardinality({p}) = 1
    BY FS_Singleton
  <2> QED
    BY <1>1, <1>2, <2>1, <2>2 DEF Seen
<1>3. CASE p \notin made[c]
  <2>1. {p} \cap made[c] = {}
    BY <1>3
  <2>2. Cardinality({}) = 0
    BY FS_EmptySet
  <2> QED
    BY <1>1, <1>3, <2>1, <2>2 DEF Seen
<1> QED
  BY <1>2, <1>3

LEMMA GetFundOK ==
  ASSUME CheckoutTypeOK, FundOK, NEW c \in Calls, NEW p \in Phones, GetFund(c, p),
         UNCHANGED funds
  PROVE  FundOK' /\ MadeType'
<1>1. made \in [Calls -> SUBSET Phones] /\ raced \subseteq Phones
  BY DEF CheckoutTypeOK, TypeOK
<1>2. CASE UNCHANGED <<made, raced>>
  BY <1>1, <1>2, FundFrame DEF MadeType
<1>3. CASE /\ Seen(c, p) = 0 /\ made' = [made EXCEPT ![c] = @ \cup {p}]
           /\ raced' = IF \E d \in Calls \ {c} : p \in made[d] THEN raced \cup {p} ELSE raced
  <2>1. funds[p] = 0
    BY <1>3, SeenType DEF CheckoutTypeOK, TypeOK
  <2>2. /\ made'[c] = made[c] \cup {p}
        /\ \A d \in Calls \ {c} : made'[d] = made[d]
    BY <1>1, <1>3
  <2>3. MadeType'
    BY <1>1, <1>3 DEF MadeType
  <2>4. FundOK'
    <3> SUFFICES ASSUME NEW q \in Phones \ raced', NEW d \in Calls, NEW e \in Calls
                 PROVE  /\ funds[q] <= 1
                        /\ q \in made'[d] => /\ funds[q] = 0
                                             /\ q \in made'[e] => d = e
      BY DEF FundOK
    <3>1. q \in Phones \ raced
      BY <1>3
    <3>2. CASE q = p
      <4>1. \A f \in Calls \ {c} : p \notin made[f]
        BY <1>3, <3>2
      <4> QED
        BY <2>1, <2>2, <3>1, <3>2, <4>1 DEF FundOK
    <3>3. CASE q # p
      BY <2>2, <3>1, <3>3 DEF FundOK
    <3> QED
      BY <3>2, <3>3
  <2> QED
    BY <2>3, <2>4
<1> QED
  BY <1>2, <1>3 DEF GetFund

\* The transaction is over, and nothing of it stays.
LEMMA DropOK ==
  ASSUME CheckoutTypeOK, FundOK, NEW c \in Calls, made' = [made EXCEPT ![c] = {}],
         UNCHANGED <<funds, raced>>
  PROVE  FundOK' /\ MadeType'
<1>1. made \in [Calls -> SUBSET Phones] /\ raced \subseteq Phones
  BY DEF CheckoutTypeOK, TypeOK
<1>2. \A d \in Calls : made'[d] \subseteq made[d]
  BY <1>1
<1>3. MadeType'
  BY <1>1 DEF MadeType
<1> QED
  BY <1>2, <1>3 DEF FundOK

LEMMA CommitOK ==
  ASSUME CheckoutTypeOK, FundOK, NEW c \in Calls, CommitFunds(c), UNCHANGED raced
  PROVE  FundOK' /\ MadeType' /\ funds' \in [Phones -> Nat]
<1>1. made \in [Calls -> SUBSET Phones] /\ raced \subseteq Phones
  BY DEF CheckoutTypeOK, TypeOK
<1>2. \A p \in Phones : funds[p] \in Nat /\ funds'[p] = Seen(c, p)
  BY DEF CommitFunds, CheckoutTypeOK, TypeOK
<1>3. funds' \in [Phones -> Nat]
  BY SeenType DEF CommitFunds
<1>4. made'[c] = {} /\ \A d \in Calls \ {c} : made'[d] = made[d]
  BY <1>1 DEF CommitFunds
<1>5. MadeType'
  BY <1>1 DEF MadeType, CommitFunds
<1>6. FundOK'
  <2> SUFFICES ASSUME NEW q \in Phones \ raced, NEW d \in Calls, NEW e \in Calls
               PROVE  /\ funds'[q] <= 1
                      /\ q \in made'[d] => /\ funds'[q] = 0
                                           /\ q \in made'[e] => d = e
    BY DEF FundOK
  <2>1. /\ q \in made[c] => funds[q] = 0 /\ q \notin made'[d]
        /\ q \in made[d] => funds[q] = 0
        /\ funds[q] <= 1
    BY <1>4 DEF FundOK
  <2>2. CASE q \in made[c]
    BY <1>2, <2>1, <2>2, SeenType
  <2>3. CASE q \notin made[c]
    <3>1. funds'[q] = funds[q]
      BY <1>2, <2>3, SeenType
    <3> QED
      BY <1>4, <2>1, <3>1 DEF FundOK
  <2> QED
    BY <2>2, <2>3
<1> QED
  BY <1>3, <1>5, <1>6
-----------------------------------------------------------------------------
(* Steps of calls.                                                         *)

InsertingOK ==
  /\ inserting \in [Phones -> Calls \cup {None}]
  /\ \A p \in Phones, c \in Calls :
       inserting[p] = c <=> At(c, "insert_shop_user") /\ Phone(c) = p

LEMMA InsertingFrame ==
  ASSUME CheckoutTypeOK, NEW c \in Calls, NEW l, Goto(c, l), UNCHANGED <<req, inserting>>,
         ~At(c, "insert_shop_user"), l # "insert_shop_user"
  PROVE  InsertingOK'
BY DEF CheckoutTypeOK, TypeOK, InsertingOK, Goto, At, Phone

\* A step of a call, or a crash of it, that leaves rows and deliveries alone.
LEMMA MoveIInv ==
  ASSUME IInv, NEW c \in Calls, NEW l \in Labels, Goto(c, l), Allowed(Kind(c), l),
         l \in InAccount => Phone(c) \in shopUsers,
         Kind(c) = "transfer" /\ l \in Authorised => req[c].password \in chosen[Phone(c)],
         InsertingOK', FundOK', MadeType', funds' \in [Phones -> Nat],
         keys' \subseteq Kinds \X Phones \X (RequestIds \cup {None}),
         faults' \in 0..MaxFaults, CashBackType', OrdersMove,
         UNCHANGED <<users, shopUsers, row, req, me, chosen, wrong, held,
                     delivery, payer, credited>>
  PROVE  IInv'
<1> USE DEF IInv
<1>1. pc' \in [Calls -> Labels]
  BY DEF Goto, CheckoutTypeOK, TypeOK
<1>2. CheckoutTypeOK'
  BY <1>1 DEF CheckoutTypeOK, TypeOK, InsertingOK, MadeType, OrdersMove, Orders, CashBackType
<1>3. RequestsOK'
  BY DEF RequestsOK
<1>4. RowsOK'
  BY RowsFrame DEF RowsOK
<1>5. CallOK'
  BY CallStep
<1>6. LoadedOK'
  BY DEF LoadedOK, Phone
<1>7. DeliveryOK' /\ CreditOK'
  BY DeliveryFrame
<1> QED
  BY <1>2, <1>3, <1>4, <1>5, <1>6, <1>7 DEF RowsOK

\* A call that only goes on, and may set a key, a quota or its order.
LEMMA PureMoveIInv ==
  ASSUME IInv, NEW c \in Calls, NEW l \in Labels, Goto(c, l), Allowed(Kind(c), l),
         l \in InAccount => Phone(c) \in shopUsers,
         Kind(c) = "transfer" /\ l \in Authorised => req[c].password \in chosen[Phone(c)],
         ~At(c, "insert_shop_user"), l # "insert_shop_user",
         keys' \subseteq Kinds \X Phones \X (RequestIds \cup {None}),
         CashBackType', OrdersMove,
         UNCHANGED <<users_, row, funds, req, me, made, history, faults,
                     delivery, payer, credited>>
  PROVE  IInv'
<1> USE DEF IInv
<1>1. UNCHANGED <<users, shopUsers, inserting, chosen, wrong, held, raced>>
  BY DEF users_, history
<1>2. InsertingOK'
  BY <1>1, InsertingFrame
<1>3. FundOK'
  BY <1>1, FundFrame
<1>4. MadeType' /\ funds' \in [Phones -> Nat] /\ faults' \in 0..MaxFaults
  BY <1>1 DEF MadeType, CheckoutTypeOK, TypeOK
<1> QED
  BY <1>1, <1>2, <1>3, <1>4, MoveIInv

\* The same, with nothing set: the places that a request may go on to, or fail.
LEMMA GoIInv ==
  ASSUME IInv, NEW c \in Calls, NEW l \in Labels, Goto(c, l), Allowed(Kind(c), l),
         l \in InAccount => Phone(c) \in shopUsers,
         Kind(c) = "transfer" /\ l \in Authorised => req[c].password \in chosen[Phone(c)],
         ~At(c, "insert_shop_user"), l # "insert_shop_user",
         UNCHANGED <<users_, row, funds, keys, req, me, made, history, faults, orderVars, quota>>
  PROVE  IInv'
<1>1. /\ keys' \subseteq Kinds \X Phones \X (RequestIds \cup {None})
      /\ UNCHANGED <<delivery, payer, credited>>
  BY DEF IInv, CheckoutTypeOK, TypeOK, orderVars
<1>2. OrdersMove /\ CashBackType'
  BY OrdersStay, CashBackFrame DEF IInv, orderVars
<1> QED
  BY <1>1, <1>2, PureMoveIInv

LEMMA FailIInv ==
  ASSUME IInv, NEW c \in Calls, Fail(c), ~At(c, "insert_shop_user"),
         UNCHANGED <<users_, row, funds, keys, req, me, made, history, faults, orderVars, quota>>
  PROVE  IInv'
<1>1. Goto(c, "failed") /\ "failed" \in Labels /\ Allowed(Kind(c), "failed")
  BY DEF Fail, Labels, Allowed, Finished
<1>2. "failed" \notin InAccount /\ "failed" \notin Authorised
  BY DEF InAccount, Authorised
<1> QED
  BY <1>1, <1>2, GoIInv

LEMMA SignInIInv ==
  ASSUME IInv, NEW c \in Calls, SignIn(c) \/ ProviderFails(c), UNCHANGED <<orderVars, quota>>
  PROVE  IInv'
<1>1. UNCHANGED <<users_, row, funds, keys, req, me, made, history, faults>>
  BY DEF SignIn, ProviderFails
<1>2. ~At(c, "insert_shop_user")
  BY DEF SignIn, ProviderFails, At
<1>3. CASE Fail(c)
  BY <1>1, <1>2, <1>3, FailIInv
<1>4. CASE SignIn(c) /\ Goto(c, "done")
  <2>1. "done" \in Labels /\ Kind(c) # "transfer" /\ Allowed(Kind(c), "done")
    BY <1>4 DEF Labels, Finished, Allowed, SignIn
  <2> QED
    BY <1>1, <1>2, <1>4, <2>1, GoIInv DEF InAccount
<1> QED
  BY <1>3, <1>4 DEF SignIn, ProviderFails, Fail

LEMMA CheckPasswordIInv ==
  ASSUME IInv, NEW c \in Calls, CheckPassword(c), UNCHANGED <<orderVars, quota>>
  PROVE  IInv'
<1>1. /\ UNCHANGED <<users_, row, funds, keys, req, me, made, history, faults>>
      /\ At(c, "check_password")
  BY DEF CheckPassword
<1>2. /\ Kind(c) = "transfer" /\ Phone(c) \in shopUsers /\ req[c].password # None
      /\ ~At(c, "insert_shop_user")
  BY <1>1, RequestFacts DEF IInv, CallOK, Allowed, At, InAccount
<1>3. CASE Fail(c)
  BY <1>1, <1>2, <1>3, FailIInv
<1>4. CASE me[c].password = req[c].password /\ Goto(c, "find_payee")
  <2>1. "find_payee" \in Labels /\ Allowed(Kind(c), "find_payee")
    BY <1>2 DEF Labels, Allowed
  <2>2. req[c].password \in chosen[Phone(c)]
    BY <1>2, <1>4 DEF IInv, LoadedOK
  <2> QED
    BY <1>1, <1>2, <1>4, <2>1, <2>2, GoIInv DEF InAccount
<1>5. CASE Goto(c, "save_retries")
  <2>1. "save_retries" \in Labels /\ Allowed(Kind(c), "save_retries")
    BY <1>2 DEF Labels, Allowed
  <2> QED
    BY <1>1, <1>2, <1>5, <2>1, GoIInv DEF Authorised
<1> QED
  BY <1>3, <1>4, <1>5 DEF CheckPassword

LEMMA GetKeyIInv ==
  ASSUME IInv, NEW c \in Calls, GetKey(c), UNCHANGED <<orderVars, quota>>
  PROVE  IInv'
<1>1. /\ UNCHANGED <<users_, row, funds, keys, req, me, made, history, faults>>
      /\ At(c, "get_key")
      /\ \/ Fail(c)
         \/ Goto(c, "set_key")
  BY DEF GetKey, Fail
<1>2. /\ Kind(c) \in {"transfer", "createPayOrder"} /\ Phone(c) \in shopUsers
      /\ ~At(c, "insert_shop_user")
  BY <1>1 DEF IInv, CallOK, Allowed, At, InAccount
<1>3. "set_key" \in Labels /\ Allowed(Kind(c), "set_key")
  BY <1>2 DEF Labels, Allowed
<1> QED
  BY <1>1, <1>2, <1>3, FailIInv, GoIInv DEF Authorised

LEMMA SetKeyIInv ==
  ASSUME IInv, NEW c \in Calls, SetKey(c), UNCHANGED <<orderVars, quota>>
  PROVE  IInv'
<1> DEFINE l == IF Kind(c) = "transfer" THEN "check_password" ELSE "find_payee"
<1>1. /\ UNCHANGED <<users_, row, funds, req, me, made, history, faults>>
      /\ UNCHANGED <<order, delivery, payer, due, quotas, credited, back, quota>>
      /\ At(c, "set_key") /\ keys' = keys \cup {Key(c)} /\ Goto(c, l)
  BY DEF SetKey, orderVars
<1>2. /\ Kind(c) \in {"transfer", "createPayOrder"} /\ Phone(c) \in shopUsers
      /\ ~At(c, "insert_shop_user")
  BY <1>1 DEF IInv, CallOK, Allowed, At, InAccount
<1>3. /\ l \in Labels /\ Allowed(Kind(c), l) /\ l # "insert_shop_user"
      /\ Kind(c) = "transfer" => l \notin Authorised
  BY <1>2 DEF Labels, Allowed, Authorised
<1>4. Key(c) \in Kinds \X Phones \X (RequestIds \cup {None})
  BY DEF Key, Kind, Phone, IInv, CheckoutTypeOK, TypeOK, Request
<1>5. keys' \subseteq Kinds \X Phones \X (RequestIds \cup {None})
  BY <1>1, <1>4 DEF IInv, CheckoutTypeOK, TypeOK
<1>6. CashBackType'
  BY <1>1, CashBackFrame DEF IInv
<1>7. OrdersMove
  BY <1>1, OrdersStay DEF IInv
<1> HIDE DEF l
<1> QED
  BY <1>1, <1>2, <1>3, <1>5, <1>6, <1>7, PureMoveIInv

LEMMA FindPayeeIInv ==
  ASSUME IInv, NEW c \in Calls, FindPayee(c), UNCHANGED <<orderVars, quota>>
  PROVE  IInv'
<1>1. /\ UNCHANGED <<users_, row, funds, keys, req, me, made, history, faults>>
      /\ At(c, "find_payee")
      /\ \/ Fail(c)
         \/ Kind(c) = "transfer" /\ Goto(c, "from_fund")
         \/ Kind(c) # "transfer" /\ Goto(c, "order")
  BY DEF FindPayee, Fail
<1>2. /\ Kind(c) \in {"transfer", "createPayOrder"} /\ ~At(c, "insert_shop_user")
      /\ Kind(c) = "transfer" => req[c].password \in chosen[Phone(c)]
  BY <1>1 DEF IInv, CallOK, Allowed, At, Authorised
<1>3. /\ "from_fund" \in Labels /\ "order" \in Labels
      /\ Kind(c) = "transfer" => Allowed(Kind(c), "from_fund")
      /\ Kind(c) # "transfer" => Allowed(Kind(c), "order")
      /\ "from_fund" \notin InAccount /\ "order" \notin InAccount
  BY <1>2 DEF Labels, Allowed, InAccount
<1> QED
  BY <1>1, <1>2, <1>3, FailIInv, GoIInv

LEMMA ReadFundIInv ==
  ASSUME IInv, NEW c \in Calls, ReadFund(c), UNCHANGED <<orderVars, quota>>
  PROVE  IInv'
<1>1. /\ UNCHANGED <<users_, row, funds, keys, req, me, made, history, faults>>
      /\ At(c, "read_fund")
      /\ \/ Fail(c)
         \/ Goto(c, "done")
  BY DEF ReadFund, Fail
<1>2. Kind(c) # "transfer" /\ ~At(c, "insert_shop_user")
  BY <1>1 DEF IInv, CallOK, Allowed, At, Finished
<1>3. "done" \in Labels /\ Allowed(Kind(c), "done") /\ "done" \notin InAccount
  BY <1>2 DEF Labels, Finished, Allowed, InAccount
<1> QED
  BY <1>1, <1>2, <1>3, FailIInv, GoIInv

LEMMA KeyExpiresIInv ==
  ASSUME IInv, NEW k \in keys, KeyExpires(k), UNCHANGED <<orderVars, quota>>
  PROVE  IInv'
<1>1. /\ UNCHANGED <<users, shopUsers, inserting, row, funds, req, pc, me, made>>
      /\ UNCHANGED <<chosen, wrong, held, raced, faults>>
      /\ UNCHANGED <<order, delivery, payer, due, quotas, credited, back, quota>>
      /\ keys' \subseteq keys
  BY DEF KeyExpires, users_, history, orderVars
<1>2. CheckoutTypeOK'
  BY <1>1 DEF IInv, CheckoutTypeOK, TypeOK, At, Phone
<1>3. RowsOK' /\ RequestsOK' /\ FundOK'
  BY <1>1, RowsFrame, FundFrame DEF IInv, RowsOK, RequestsOK
<1>4. CallOK' /\ LoadedOK'
  BY <1>1 DEF IInv, CallOK, LoadedOK, Kind, Phone
<1>5. DeliveryOK' /\ CreditOK'
  BY <1>1, OrdersStay, DeliveryFrame DEF IInv
<1> QED
  BY <1>2, <1>3, <1>4, <1>5 DEF IInv, RowsOK
-----------------------------------------------------------------------------
(* The order and the quota.                                                *)

\* The order of the call becomes s.
LEMMA OrderBecomes ==
  ASSUME CheckoutTypeOK, DeliveryOK, NEW c \in Calls, NEW s \in {"created", "open", "paid"},
         order' = [order EXCEPT ![c] = s], Kind(c) = "createPayOrder",
         s # "created" => Fee(c) > 0
  PROVE  OrdersMove
BY DEF OrdersMove, Orders, CheckoutTypeOK, DeliveryOK

LEMMA CreateOrderIInv ==
  ASSUME IInv, NEW c \in Calls, CreateOrder(c)
  PROVE  IInv'
<1>1. /\ UNCHANGED <<users_, row, funds, keys, req, me, made, history, faults>>
      /\ UNCHANGED <<delivery, payer, due, quotas, credited, back, quota>>
      /\ At(c, "order") /\ Goto(c, "prepay") /\ order' = [order EXCEPT ![c] = "created"]
  BY DEF CreateOrder
<1>2. Kind(c) = "createPayOrder" /\ ~At(c, "insert_shop_user")
  BY <1>1 DEF IInv, CallOK, Allowed, At, Finished
<1>3. OrdersMove
  BY <1>1, <1>2, OrderBecomes DEF IInv
<1>4. keys' \subseteq Kinds \X Phones \X (RequestIds \cup {None}) /\ CashBackType'
  BY <1>1, CashBackFrame DEF IInv, CheckoutTypeOK, TypeOK
<1>5. "prepay" \in Labels /\ Allowed(Kind(c), "prepay") /\ "prepay" \notin InAccount
  BY <1>2 DEF Labels, Allowed, InAccount
<1> QED
  BY <1>1, <1>2, <1>3, <1>4, <1>5, PureMoveIInv

LEMMA EditQuotaIInv ==
  ASSUME IInv, NEW c \in Calls, EditQuota(c)
  PROVE  IInv'
<1>1. /\ UNCHANGED <<users_, row, funds, keys, req, me, made, history, faults>>
      /\ UNCHANGED <<order, delivery, payer, due, credited, back>>
      /\ At(c, "start") /\ Kind(c) = "editQuota" /\ Goto(c, "done")
  BY DEF EditQuota
<1>2. CashBackType'
  <2>1. quota' \in Nat \cup {None}
    BY ThresholdAssumption DEF EditQuota
  <2>2. quotas' = [d \in Calls |-> IF delivery[d] = "idle" THEN quotas[d]
                                 ELSE quotas[d] \cup {quota'}]
    BY DEF EditQuota
  <2> QED
    BY <1>1, <2>1, <2>2 DEF CashBackType, IInv, CheckoutTypeOK
<1>3. OrdersMove
  BY <1>1, OrdersStay DEF IInv
<1>4. keys' \subseteq Kinds \X Phones \X (RequestIds \cup {None})
  BY <1>1 DEF IInv, CheckoutTypeOK, TypeOK
<1>5. /\ "done" \in Labels /\ Allowed(Kind(c), "done") /\ "done" \notin InAccount
      /\ Kind(c) # "transfer" /\ ~At(c, "insert_shop_user")
  BY <1>1 DEF Labels, Finished, Allowed, InAccount, At
<1> QED
  BY <1>1, <1>2, <1>3, <1>4, <1>5, PureMoveIInv

LEMMA PrepayIInv ==
  ASSUME IInv, NEW c \in Calls, Prepay(c)
  PROVE  IInv'
<1>1. /\ UNCHANGED <<users_, row, funds, keys, req, me, made, history, faults>>
      /\ UNCHANGED <<delivery, payer, due, quotas, credited, back, quota>>
      /\ At(c, "prepay")
  BY DEF Prepay
<1>2. Kind(c) = "createPayOrder" /\ ~At(c, "insert_shop_user")
  BY <1>1 DEF IInv, CallOK, Allowed, At, Finished
<1>3. CASE Fee(c) > 0 /\ order' = [order EXCEPT ![c] = "open"] /\ Goto(c, "done")
  <2>1. OrdersMove
    BY <1>2, <1>3, OrderBecomes DEF IInv
  <2>2. keys' \subseteq Kinds \X Phones \X (RequestIds \cup {None}) /\ CashBackType'
    BY <1>1, CashBackFrame DEF IInv, CheckoutTypeOK, TypeOK
  <2>3. "done" \in Labels /\ Allowed(Kind(c), "done") /\ "done" \notin InAccount
    BY <1>2 DEF Labels, Finished, Allowed, InAccount
  <2> QED
    BY <1>1, <1>2, <1>3, <2>1, <2>2, <2>3, PureMoveIInv
<1>4. CASE Fail(c) /\ UNCHANGED order
  BY <1>1, <1>2, <1>4, FailIInv DEF orderVars
<1> QED
  BY <1>3, <1>4 DEF Prepay

-----------------------------------------------------------------------------
(* Payments and deliveries: no call goes on, and no user changes.          *)

Places == {"idle", "funds", "transfer", "payee", "cash_back", "commit"}

LEMMA DeliverIInv ==
  ASSUME IInv, UNCHANGED <<users_, row, keys, req, pc, me, chosen, wrong, held>>,
         FundOK', MadeType', funds' \in [Phones -> Nat], faults' \in 0..MaxFaults,
         DeliveryOK', CreditOK', CashBackType', order' \in Orders,
         delivery' \in [Calls -> Places],
         payer' \in [Calls -> Phones \cup {None}],
         credited' \in [Calls -> [to : Phones \cup {None}, amount : Int]]
  PROVE  IInv'
<1>1. UNCHANGED <<users, shopUsers, inserting>>
  BY DEF users_
<1>2. RowsOK' /\ RequestsOK'
  BY <1>1, RowsFrame DEF IInv, RowsOK, RequestsOK
<1>3. CallOK' /\ LoadedOK'
  BY <1>1 DEF IInv, CallOK, LoadedOK, Kind, Phone
<1>4. CheckoutTypeOK'
  BY <1>1 DEF IInv, CheckoutTypeOK, TypeOK, MadeType, Orders, CashBackType, Places, At, Phone
<1> QED
  BY <1>2, <1>3, <1>4 DEF IInv, RowsOK

LEMMA PayIInv ==
  ASSUME IInv, NEW c \in Calls, Pay(c)
  PROVE  IInv'
<1>1. /\ UNCHANGED <<users_, row, funds, keys, req, pc, me, made, chosen, wrong, held>>
      /\ UNCHANGED <<raced, faults, delivery, payer, due, quotas, credited, back, quota>>
      /\ order[c] = "open" /\ order' = [order EXCEPT ![c] = "paid"]
  BY DEF Pay, accountVars, history
<1>2. OrdersMove
  BY <1>1, OrderBecomes DEF IInv, DeliveryOK
<1>3. DeliveryOK' /\ CreditOK'
  BY <1>1, <1>2, DeliveryFrame DEF IInv
<1>4. FundOK' /\ MadeType' /\ CashBackType'
  BY <1>1, FundFrame, CashBackFrame DEF IInv, MadeType, CheckoutTypeOK, TypeOK
<1> QED
  BY <1>1, <1>2, <1>3, <1>4, DeliverIInv DEF IInv, CheckoutTypeOK, TypeOK, OrdersMove, Places

LEMMA LookupIInv ==
  ASSUME IInv, NEW c \in Calls, Lookup(c)
  PROVE  IInv'
<1>1. PICK p \in Phones : HasOpenid(p, c) /\ Found(c, p)
  BY DEF Lookup
<1>2. /\ UNCHANGED <<users_, row, funds, keys, req, pc, me, made, chosen, wrong, held>>
      /\ UNCHANGED <<raced, faults, order, due, credited, back, quota>>
      /\ order[c] = "paid" /\ delivery' = [delivery EXCEPT ![c] = "funds"]
      /\ payer' = [payer EXCEPT ![c] = p] /\ quotas' = [quotas EXCEPT ![c] = {quota}]
  BY <1>1 DEF Lookup, Found, accountVars, history
<1>3. Fee(c) > 0 /\ req[c].openid # None
  BY <1>2, RequestFacts DEF IInv, DeliveryOK
<1>4. <<p, req[c].openid>> \in held
  BY <1>1, <1>3 DEF IInv, RowOK, HasOpenid
<1>5. DeliveryOK'
  BY <1>2, <1>3, <1>4 DEF IInv, DeliveryOK, CheckoutTypeOK, Kind, Fee
<1>6. CreditOK'
  BY <1>2 DEF IInv, CreditOK, CreditedAsAsked, CreditedToHolder
<1>7. FundOK' /\ MadeType'
  BY <1>2, FundFrame DEF IInv, MadeType, CheckoutTypeOK, TypeOK
<1>8. CashBackType'
  BY <1>2 DEF IInv, CheckoutTypeOK, CashBackType
<1> QED
  BY <1>2, <1>5, <1>6, <1>7, <1>8, DeliverIInv DEF IInv, CheckoutTypeOK, TypeOK, Orders, Places

\* The delivery of c gets to l, and the order is not credited yet.
LEMMA DeliveryStep ==
  ASSUME IInv, NEW c \in Calls, NEW l \in Places,
         delivery' = [delivery EXCEPT ![c] = l],
         l # "idle" => delivery[c] # "idle", l \in {"transfer", "payee"} => req[c].to # None,
         FundOK', MadeType', funds' \in [Phones -> Nat], faults' \in 0..MaxFaults,
         CashBackType',
         UNCHANGED <<users_, row, keys, req, pc, me, chosen, wrong, held,
                     order, payer, credited>>
  PROVE  IInv'
<1>1. DeliveryOK'
  BY DEF IInv, DeliveryOK, CheckoutTypeOK, Kind, Fee
<1>2. CreditOK'
  BY DEF IInv, CreditOK, CreditedAsAsked, CreditedToHolder
<1>3. delivery' \in [Calls -> Places]
  BY DEF IInv, CheckoutTypeOK, Places
<1> QED
  BY <1>1, <1>2, <1>3, DeliverIInv DEF IInv, CheckoutTypeOK, Orders

LEMMA GetFundsIInv ==
  ASSUME IInv, NEW c \in Calls, GetFunds(c)
  PROVE  IInv'
<1> DEFINE p == IF delivery[c] = "payee" THEN req[c].to ELSE payer[c]
           next == IF delivery[c] = "transfer" THEN "payee"
                   ELSE IF delivery[c] = "funds" /\ req[c].to # None THEN "transfer"
                   ELSE "cash_back"
<1>1. /\ UNCHANGED <<users_, row, funds, keys, req, pc, me, chosen, wrong, held, faults>>
      /\ UNCHANGED <<order, payer, due, quotas, credited, back, quota>>
      /\ delivery[c] # "idle"
      /\ \/ GetFund(c, p) /\ delivery' = [delivery EXCEPT ![c] = next]
         \/ TwoFunds(c, p) /\ delivery' = [delivery EXCEPT ![c] = "idle"]
  BY DEF GetFunds
<1>2. p \in Phones
  BY <1>1, RequestFacts DEF IInv, DeliveryOK
<1>3. /\ next \in Places
      /\ next \in {"transfer", "payee"} => req[c].to # None
  BY DEF Places, IInv, DeliveryOK
<1>4. funds' \in [Phones -> Nat] /\ faults' \in 0..MaxFaults /\ CashBackType'
  BY <1>1, CashBackFrame DEF IInv, CheckoutTypeOK, TypeOK
<1> HIDE DEF p, next
<1>5. CASE GetFund(c, p) /\ delivery' = [delivery EXCEPT ![c] = next]
  <2>1. FundOK' /\ MadeType'
    BY <1>1, <1>2, <1>5, GetFundOK DEF IInv
  <2> QED
    BY <1>1, <1>3, <1>4, <1>5, <2>1, DeliveryStep
<1>6. CASE TwoFunds(c, p) /\ delivery' = [delivery EXCEPT ![c] = "idle"]
  <2>1. FundOK' /\ MadeType'
    BY <1>1, <1>6, DropOK DEF TwoFunds, IInv
  <2>2. "idle" \in Places
    BY DEF Places
  <2> QED
    BY <1>1, <1>4, <1>6, <2>1, <2>2, DeliveryStep
<1> QED
  BY <1>1, <1>5, <1>6

\* What is collected for an amount, and credited, falls short of it by less than a fen.
LEMMA RoundedDown ==
  ASSUME NEW d \in Int, Yuan2Fen(d) > 0
  PROVE  /\ Fen2Yuan(Yuan2Fen(d)) \in Int
         /\ Fen2Yuan(Yuan2Fen(d)) <= d /\ d < Fen2Yuan(Yuan2Fen(d)) + Fen
<1>1. CASE d >= 0
  BY <1>1 DEF Yuan2Fen, Fen2Yuan, Fen
<1>2. CASE ~(d >= 0)
  BY <1>2 DEF Yuan2Fen, Fen
<1> QED
  BY <1>1, <1>2

LEMMA AmountFacts ==
  ASSUME IInv, NEW c \in Calls, delivery[c] # "idle"
  PROVE  /\ Amount(c) \in Int
         /\ Amount(c) <= req[c].amount /\ req[c].amount < Amount(c) + Fen
<1>1. Fee(c) > 0 /\ req[c].amount \in Int
  BY RequestFacts DEF IInv, DeliveryOK
<1> QED
  BY <1>1, RoundedDown DEF Amount, Fee

LEMMA CashBackIInv ==
  ASSUME IInv, NEW c \in Calls, CashBack(c)
  PROVE  IInv'
<1>1. /\ UNCHANGED <<users_, row, funds, keys, req, pc, me, chosen, wrong, held, faults>>
      /\ UNCHANGED <<order, payer, quotas, credited, back, quota>>
      /\ delivery[c] = "cash_back"
  BY DEF CashBack
<1>2. due' = due \/ due' = [due EXCEPT ![c] = Amount(c)]
  BY DEF CashBack
<1>3. Amount(c) \in Int
  BY <1>1, AmountFacts
<1>4. CashBackType'
  BY <1>1, <1>2, <1>3 DEF CashBackType, IInv, CheckoutTypeOK
<1>5. funds' \in [Phones -> Nat] /\ faults' \in 0..MaxFaults
  BY <1>1 DEF IInv, CheckoutTypeOK, TypeOK
<1>6. CASE UNCHANGED <<made, raced>> /\ delivery' = [delivery EXCEPT ![c] = "commit"]
  <2>1. FundOK' /\ MadeType' /\ "commit" \in Places
    BY <1>1, <1>6, FundFrame DEF IInv, MadeType, CheckoutTypeOK, TypeOK, Places
  <2> QED
    BY <1>1, <1>4, <1>5, <1>6, <2>1, DeliveryStep
<1>7. CASE TwoFunds(c, payer[c]) /\ delivery' = [delivery EXCEPT ![c] = "idle"]
  <2>1. FundOK' /\ MadeType' /\ "idle" \in Places
    BY <1>1, <1>7, DropOK DEF TwoFunds, IInv, Places
  <2> QED
    BY <1>1, <1>4, <1>5, <1>7, <2>1, DeliveryStep
<1> QED
  BY <1>6, <1>7 DEF CashBack

LEMMA CreditIInv ==
  ASSUME IInv, NEW c \in Calls, Credit(c)
  PROVE  IInv'
<1>1. /\ UNCHANGED <<users_, row, keys, req, pc, me, chosen, wrong, held, raced, faults>>
      /\ UNCHANGED <<order, payer, quotas, quota>>
      /\ delivery[c] = "commit" /\ CommitFunds(c)
      /\ credited' = [credited EXCEPT ![c] = [to |-> payer[c], amount |-> Amount(c)]]
      /\ back' = [back EXCEPT ![c] = due[c]] /\ due' = [due EXCEPT ![c] = 0]
      /\ delivery' = [delivery EXCEPT ![c] = "idle"]
  BY DEF Credit, history
<1>2. payer[c] \in Phones /\ <<payer[c], req[c].openid>> \in held
  BY <1>1 DEF IInv, DeliveryOK
<1>3. /\ Amount(c) \in Int
      /\ Amount(c) <= req[c].amount /\ req[c].amount < Amount(c) + Fen
  BY <1>1, AmountFacts
<1>4. /\ credited'[c] = [to |-> payer[c], amount |-> Amount(c)]
      /\ \A d \in Calls \ {c} : credited'[d] = credited[d]
      /\ credited' \in [Calls -> [to : Phones \cup {None}, amount : Int]]
  BY <1>1, <1>2, <1>3 DEF IInv, CheckoutTypeOK
<1>5. DeliveryOK'
  BY <1>1 DEF IInv, DeliveryOK, CheckoutTypeOK, Kind, Fee
<1>6. CreditedAsAsked'
  BY <1>1, <1>3, <1>4 DEF IInv, CreditOK, CreditedAsAsked
<1>7. CreditedToHolder'
  BY <1>1, <1>2, <1>4 DEF IInv, CreditOK, CreditedToHolder
<1>8. FundOK' /\ MadeType' /\ funds' \in [Phones -> Nat]
  BY <1>1, CommitOK DEF IInv
<1>9. CashBackType' /\ delivery' \in [Calls -> Places]
  BY <1>1 DEF IInv, CheckoutTypeOK, CashBackType, Places
<1>10. CreditOK'
  BY <1>6, <1>7 DEF CreditOK
<1>11. faults' \in 0..MaxFaults /\ order' \in Orders /\ payer' \in [Calls -> Phones \cup {None}]
  BY <1>1 DEF IInv, CheckoutTypeOK, TypeOK, Orders
<1> QED
  BY <1>1, <1>4, <1>5, <1>8, <1>9, <1>10, <1>11, DeliverIInv

LEMMA InterruptIInv ==
  ASSUME IInv, NEW c \in Calls, Interrupt(c)
  PROVE  IInv'
<1>1. /\ UNCHANGED <<users_, row, funds, keys, req, pc, me, chosen, wrong, held, raced>>
      /\ UNCHANGED <<order, payer, quotas, credited, back, quota>>
      /\ faults < MaxFaults /\ faults' = faults + 1
      /\ made' = [made EXCEPT ![c] = {}] /\ due' = [due EXCEPT ![c] = 0]
      /\ delivery' = [delivery EXCEPT ![c] = "idle"]
  BY DEF Interrupt, history
<1>2. FundOK' /\ MadeType'
  BY <1>1, DropOK DEF IInv
<1>3. funds' \in [Phones -> Nat] /\ faults' \in 0..MaxFaults
  BY <1>1, ConstantsAssumption DEF IInv, CheckoutTypeOK, TypeOK
<1>4. CashBackType' /\ "idle" \in Places
  BY <1>1 DEF IInv, CheckoutTypeOK, CashBackType, Places
<1> QED
  BY <1>1, <1>2, <1>3, <1>4, DeliveryStep
-----------------------------------------------------------------------------
(* Funds of calls.                                                         *)

LEMMA FundStep ==
  ASSUME IInv, NEW c \in Calls, NEW l \in Labels, Goto(c, l), Allowed(Kind(c), l),
         l \notin InAccount, l # "insert_shop_user", ~At(c, "insert_shop_user"),
         Kind(c) = "transfer" /\ l \in Authorised => req[c].password \in chosen[Phone(c)],
         FundOK', MadeType', funds' \in [Phones -> Nat],
         UNCHANGED <<users_, row, keys, req, me, chosen, wrong, held, faults, orderVars, quota>>
  PROVE  IInv'
<1>1. /\ UNCHANGED <<users, shopUsers, inserting>>
      /\ UNCHANGED <<order, delivery, payer, due, quotas, credited, back>>
  BY DEF users_, orderVars
<1>2. InsertingOK' /\ OrdersMove /\ CashBackType'
  BY <1>1, InsertingFrame, OrdersStay, CashBackFrame DEF IInv
<1> QED
  BY <1>1, <1>2, MoveIInv DEF IInv, CheckoutTypeOK, TypeOK

\* GetFund or TwoFunds for the user p, on the way to l.
LEMMA CallFundStep ==
  ASSUME IInv, NEW c \in Calls, NEW p \in Phones, NEW l \in {"to_fund", "commit"},
         \/ GetFund(c, p) /\ Goto(c, l)
         \/ TwoFunds(c, p) /\ Fail(c),
         At(c, "from_fund") \/ At(c, "to_fund"), Allowed(Kind(c), l),
         UNCHANGED <<users_, row, funds, keys, req, me, chosen, wrong, held, faults>>,
         UNCHANGED <<orderVars, quota>>
  PROVE  IInv'
<1>1. /\ Kind(c) = "transfer" => req[c].password \in chosen[Phone(c)]
      /\ ~At(c, "insert_shop_user") /\ funds' \in [Phones -> Nat]
  BY DEF IInv, CallOK, Authorised, At, CheckoutTypeOK, TypeOK
<1>2. l \in Labels /\ l \notin InAccount /\ l # "insert_shop_user"
  BY DEF Labels, InAccount
<1>3. /\ "failed" \in Labels /\ Allowed(Kind(c), "failed")
      /\ "failed" \notin InAccount /\ "failed" \notin Authorised
  BY DEF Labels, Finished, Allowed, InAccount, Authorised
<1>4. CASE GetFund(c, p) /\ Goto(c, l)
  BY <1>1, <1>2, <1>4, GetFundOK, FundStep DEF IInv
<1>5. CASE TwoFunds(c, p) /\ Fail(c)
  BY <1>1, <1>3, <1>5, DropOK, FundStep DEF IInv, TwoFunds, Fail
<1> QED
  BY <1>4, <1>5

LEMMA FundsIInv ==
  ASSUME IInv, NEW c \in Calls, FromFund(c) \/ ToFund(c), UNCHANGED <<orderVars, quota>>
  PROVE  IInv'
<1>1. UNCHANGED <<users_, row, funds, keys, req, me, chosen, wrong, held, faults>>
  BY DEF FromFund, ToFund
<1>2. CASE FromFund(c)
  <2> DEFINE l == IF Kind(c) = "transfer" THEN "to_fund" ELSE "commit"
  <2>1. /\ At(c, "from_fund")
        /\ \/ GetFund(c, Phone(c)) /\ Goto(c, l)
           \/ TwoFunds(c, Phone(c)) /\ Fail(c)
    BY <1>2 DEF FromFund
  <2>2. Kind(c) \in {"transfer", "ledgerList"} /\ Phone(c) \in Phones
    BY <2>1, RequestFacts DEF IInv, CallOK, Allowed, At, Finished
  <2>3. l \in {"to_fund", "commit"} /\ Allowed(Kind(c), l)
    BY <2>2 DEF Allowed
  <2> HIDE DEF l
  <2> QED
    BY <1>1, <2>1, <2>2, <2>3, CallFundStep
<1>3. CASE ToFund(c)
  <2>1. /\ At(c, "to_fund")
        /\ \/ GetFund(c, req[c].to) /\ Goto(c, "commit")
           \/ TwoFunds(c, req[c].to) /\ Fail(c)
    BY <1>3 DEF ToFund
  <2>2. Kind(c) = "transfer"
    BY <2>1 DEF IInv, CallOK, Allowed, At
  <2>3. req[c].to \in Phones /\ Allowed(Kind(c), "commit")
    BY <2>2, RequestFacts DEF IInv, Allowed
  <2> QED
    BY <1>1, <2>1, <2>3, CallFundStep
<1> QED
  BY <1>2, <1>3

LEMMA CommitIInv ==
  ASSUME IInv, NEW c \in Calls, Commit(c) \/ Rollback(c), UNCHANGED <<orderVars, quota>>
  PROVE  IInv'
<1>1. /\ UNCHANGED <<users_, row, keys, req, me, chosen, wrong, held, raced, faults>>
      /\ At(c, "commit")
  BY DEF Commit, Rollback, history
<1>2. /\ Kind(c) \in {"transfer", "ledgerList"} /\ ~At(c, "insert_shop_user")
      /\ Kind(c) = "transfer" => req[c].password \in chosen[Phone(c)]
  BY <1>1 DEF IInv, CallOK, Allowed, Authorised, At, Finished
<1>3. \A l \in Finished : l \in Labels /\ Allowed(Kind(c), l) /\ l \notin InAccount
                          /\ l # "insert_shop_user"
  BY <1>2 DEF Labels, Finished, Allowed, InAccount
<1>4. CASE Commit(c)
  <2>1. FundOK' /\ MadeType' /\ funds' \in [Phones -> Nat] /\ Goto(c, "done")
    BY <1>1, <1>4, CommitOK DEF IInv, Commit
  <2> QED
    BY <1>1, <1>2, <1>3, <2>1, FundStep DEF Finished
<1>5. CASE Rollback(c)
  <2>1. FundOK' /\ MadeType' /\ UNCHANGED funds /\ Goto(c, "failed")
    BY <1>1, <1>5, DropOK DEF IInv, Rollback, Fail
  <2>2. funds' \in [Phones -> Nat]
    BY <2>1 DEF IInv, CheckoutTypeOK, TypeOK
  <2> QED
    BY <1>1, <1>2, <1>3, <2>1, <2>2, FundStep DEF Finished
<1> QED
  BY <1>4, <1>5

LEMMA CrashIInv ==
  ASSUME IInv, NEW c \in Calls, Crash(c), UNCHANGED <<orderVars, quota>>
  PROVE  IInv'
<1>1. /\ UNCHANGED <<users, shopUsers, row, funds, keys, req, me>>
      /\ UNCHANGED <<chosen, wrong, held, raced, quota>>
      /\ UNCHANGED <<order, delivery, payer, due, quotas, credited, back>>
      /\ faults < MaxFaults /\ faults' = faults + 1
      /\ inserting' = [p \in Phones |-> IF inserting[p] = c THEN None ELSE inserting[p]]
      /\ made' = [made EXCEPT ![c] = {}] /\ Goto(c, "failed")
  BY DEF Crash, Fail, history, orderVars
<1>2. FundOK' /\ MadeType'
  BY <1>1, DropOK DEF IInv
<1>3. InsertingOK'
  <2>1. /\ inserting \in [Phones -> Calls \cup {None}] /\ pc' = [pc EXCEPT ![c] = "failed"]
        /\ pc \in [Calls -> Labels]
        /\ \A p \in Phones, d \in Calls :
             inserting[p] = d <=> pc[d] = "insert_shop_user" /\ Phone(d) = p
    BY <1>1 DEF IInv, CheckoutTypeOK, TypeOK, Goto, At
  <2>2. inserting' \in [Phones -> Calls \cup {None}]
    BY <1>1, <2>1
  <2>3. \A d \in Calls : Phone(d)' = Phone(d)
    BY <1>1 DEF Phone
  <2>4. ASSUME NEW p \in Phones, NEW d \in Calls
        PROVE  inserting'[p] = d <=> pc'[d] = "insert_shop_user" /\ Phone(d) = p
    <3>1. None \notin Calls /\ inserting'[p] = IF inserting[p] = c THEN None ELSE inserting[p]
      BY <1>1, ConstantsAssumption
    <3>2. CASE d = c
      BY <2>1, <3>1, <3>2
    <3>3. CASE d # c
      BY <2>1, <3>1, <3>3
    <3> QED
      BY <3>2, <3>3
  <2> QED
    BY <2>2, <2>3, <2>4 DEF InsertingOK, At
<1>4. /\ faults' \in 0..MaxFaults /\ funds' \in [Phones -> Nat]
      /\ keys' \subseteq Kinds \X Phones \X (RequestIds \cup {None})
      /\ CashBackType' /\ OrdersMove
  BY <1>1, OrdersStay, CashBackFrame, ConstantsAssumption DEF IInv, CheckoutTypeOK, TypeOK
<1>5. /\ "failed" \in Labels /\ Allowed(Kind(c), "failed")
      /\ "failed" \notin InAccount /\ "failed" \notin Authorised
  BY DEF Labels, Finished, Allowed, InAccount, Authorised
<1> QED
  BY <1>1, <1>2, <1>3, <1>4, <1>5, MoveIInv
-----------------------------------------------------------------------------
(* Users and their rows.                                                   *)

\* A step of a call on its user: what it is to keep of rows, and of what is told of them.
LEMMA UserStep ==
  ASSUME IInv, NEW c \in Calls, NEW l \in Labels, Goto(c, l), Allowed(Kind(c), l),
         l \in InAccount => Phone(c) \in shopUsers',
         Kind(c) # "transfer" \/ l \notin Authorised,
         InsertingOK', RowsOK', LoadedOK',
         shopUsers \subseteq shopUsers', shopUsers' \subseteq Phones,
         \A p \in Phones : chosen[p] \subseteq chosen'[p],
         held \subseteq held', held' \subseteq Phones \X Openids,
         row' \in [Phones -> Row], me' \in [Calls -> Row],
         chosen' \in [Phones -> SUBSET Passwords], wrong' \in [Phones -> Nat],
         UNCHANGED <<funds, keys, req, made, raced, faults, orderVars, quota>>
  PROVE  IInv'
<1>1. UNCHANGED <<order, delivery, payer, due, quotas, credited, back>>
  BY DEF orderVars
<1>2. pc' \in [Calls -> Labels]
  BY DEF Goto, IInv, CheckoutTypeOK, TypeOK
<1>3. RequestsOK'
  BY DEF IInv, RequestsOK
<1>4. CheckoutTypeOK'
  BY <1>1, <1>2 DEF IInv, CheckoutTypeOK, TypeOK, InsertingOK, RowsOK, RegistrationWhole
<1>5. CallOK'
  BY CallStep DEF IInv
<1>6. FundOK'
  BY FundFrame DEF IInv
<1>7. DeliveryOK' /\ CreditOK'
  BY <1>1, OrdersStay, DeliveryFrame DEF IInv
<1> QED
  BY <1>3, <1>4, <1>5, <1>6, <1>7 DEF IInv, RowsOK

LEMMA LoadedRow ==
  ASSUME IInv, NEW c \in Calls, NEW r \in Row,
         r.password # None => r.password \in chosen[Phone(c)], r.retries <= wrong[Phone(c)],
         me' = [me EXCEPT ![c] = r], UNCHANGED <<req, chosen, wrong>>
  PROVE  LoadedOK' /\ me' \in [Calls -> Row]
BY DEF IInv, LoadedOK, CheckoutTypeOK, TypeOK, Phone

LEMMA InsertUserIInv ==
  ASSUME IInv, NEW c \in Calls, InsertUser(c), UNCHANGED <<orderVars, quota>>
  PROVE  IInv'
<1>1. /\ UNCHANGED <<users, shopUsers, row, funds, keys, req, me, made>>
      /\ UNCHANGED <<chosen, wrong, held, raced, faults, history>>
      /\ At(c, "insert_user") /\ inserting[Phone(c)] = None
  BY DEF InsertUser, history
<1>2. Kind(c) # "transfer" /\ ~At(c, "insert_shop_user")
  BY <1>1 DEF IInv, CallOK, Allowed, At, Finished
<1>3. CASE Fail(c) /\ UNCHANGED inserting
  BY <1>1, <1>2, <1>3, FailIInv DEF users_
<1>4. CASE /\ inserting' = [inserting EXCEPT ![Phone(c)] = c]
           /\ Goto(c, "insert_shop_user")
  <2>1. /\ inserting \in [Phones -> Calls \cup {None}] /\ pc \in [Calls -> Labels]
        /\ pc' = [pc EXCEPT ![c] = "insert_shop_user"] /\ Phone(c) \in Phones
        /\ \A p \in Phones, d \in Calls :
             inserting[p] = d <=> pc[d] = "insert_shop_user" /\ Phone(d) = p
    BY <1>4, RequestFacts DEF IInv, CheckoutTypeOK, TypeOK, Goto, At
  <2>2. inserting' \in [Phones -> Calls \cup {None}] /\ None \notin Calls
    BY <1>4, <2>1, ConstantsAssumption
  <2>3. ASSUME NEW p \in Phones, NEW d \in Calls
        PROVE  inserting'[p] = d <=> pc'[d] = "insert_shop_user" /\ Phone(d) = p
    BY <1>1, <1>2, <1>4, <2>1, <2>2 DEF At
  <2>4. InsertingOK'
    BY <1>1, <2>2, <2>3 DEF InsertingOK, At, Phone
  <2>5. RowsOK' /\ LoadedOK'
    BY <1>1, RowsFrame DEF IInv, RowsOK, LoadedOK, Phone
  <2>6. /\ "insert_shop_user" \in Labels /\ "insert_shop_user" \notin InAccount
        /\ Allowed(Kind(c), "insert_shop_user")
    BY <1>2 DEF Labels, Allowed, InAccount
  <2> QED
    BY <1>1, <1>2, <1>4, <2>4, <2>5, <2>6, UserStep DEF IInv, CheckoutTypeOK, TypeOK
<1> QED
  BY <1>3, <1>4 DEF InsertUser

LEMMA CreateUserIInv ==
  ASSUME IInv, NEW c \in Calls, CreateUser(c), UNCHANGED <<orderVars, quota>>
  PROVE  IInv'
<1> DEFINE p == Phone(c)
<1>1. /\ UNCHANGED <<row, funds, keys, req, made, chosen, wrong, held, raced, faults>>
      /\ At(c, "insert_shop_user") /\ Goto(c, "bind")
      /\ users' = users \cup {p} /\ shopUsers' = shopUsers \cup {p}
      /\ inserting' = [inserting EXCEPT ![p] = None] /\ me' = [me EXCEPT ![c] = NewRow]
  BY DEF CreateUser, history
<1>2. Kind(c) # "transfer" /\ p \in Phones
  BY <1>1, RequestFacts DEF IInv, CallOK, Allowed, At, Finished
<1>3. RowsOK'
  <2>1. p \notin shopUsers => row[p] = NewRow
    BY <1>2 DEF IInv, RowOK
  <2>2. ColumnsUnique'
    BY <1>1, <2>1, NewRowFacts DEF IInv, ColumnsUnique
  <2>3. RowOK'
    BY <1>1 DEF IInv, RowOK
  <2> QED
    BY <1>1, <2>2, <2>3 DEF IInv, RowsOK, RegistrationWhole, RetriesCounted
<1>4. LoadedOK' /\ me' \in [Calls -> Row]
  <2>1. 0 <= wrong[p]
    BY <1>2 DEF IInv, CheckoutTypeOK, TypeOK
  <2> QED
    BY <1>1, <2>1, NewRowFacts, LoadedRow
<1>5. InsertingOK'
  <2>1. /\ inserting \in [Phones -> Calls \cup {None}] /\ pc \in [Calls -> Labels]
        /\ pc' = [pc EXCEPT ![c] = "bind"]
        /\ \A q \in Phones, d \in Calls :
             inserting[q] = d <=> pc[d] = "insert_shop_user" /\ Phone(d) = q
    BY <1>1 DEF IInv, CheckoutTypeOK, TypeOK, Goto, At
  <2>2. inserting' \in [Phones -> Calls \cup {None}] /\ None \notin Calls
    BY <1>1, <2>1, ConstantsAssumption
  <2>3. inserting[p] = c
    BY <1>1, <1>2, <2>1 DEF At
  <2>4. ASSUME NEW q \in Phones, NEW d \in Calls
        PROVE  inserting'[q] = d <=> pc'[d] = "insert_shop_user" /\ Phone(d) = q
    BY <1>1, <2>1, <2>2, <2>3
  <2> QED
    BY <1>1, <2>2, <2>4 DEF InsertingOK, At, Phone
<1>6. "bind" \in Labels /\ Allowed(Kind(c), "bind") /\ "bind" \notin Authorised
  BY <1>2 DEF Labels, Allowed, Authorised, Finished
<1>7. /\ shopUsers \subseteq shopUsers' /\ shopUsers' \subseteq Phones /\ p \in shopUsers'
      /\ held' \subseteq Phones \X Openids /\ row' \in [Phones -> Row]
      /\ chosen' \in [Phones -> SUBSET Passwords] /\ wrong' \in [Phones -> Nat]
  BY <1>1, <1>2 DEF IInv, CheckoutTypeOK, TypeOK
<1> QED
  BY <1>1, <1>2, <1>3, <1>4, <1>5, <1>6, <1>7, UserStep

\* The row is loaded, and the call goes on with it.
LEMMA LoadStep ==
  ASSUME IInv, NEW c \in Calls, NEW l \in Labels, Goto(c, l), Allowed(Kind(c), l),
         Phone(c) \in shopUsers, Kind(c) # "transfer" \/ l \notin Authorised,
         ~At(c, "insert_shop_user"), l # "insert_shop_user",
         me' = [me EXCEPT ![c] = row[Phone(c)]],
         UNCHANGED <<users_, row, funds, keys, req, made, history, faults, orderVars, quota>>
  PROVE  IInv'
<1> DEFINE r == row[Phone(c)]
<1>1. UNCHANGED <<users, shopUsers, inserting, chosen, wrong, held, raced>>
  BY DEF users_, history
<1>2. Phone(c) \in Phones
  BY RequestFacts DEF IInv
<1>3. /\ r \in Row /\ r.retries <= wrong[Phone(c)]
      /\ r.password # None => r.password \in chosen[Phone(c)]
  BY <1>2 DEF IInv, RowOK, RetriesCounted, CheckoutTypeOK, TypeOK
<1>4. LoadedOK' /\ me' \in [Calls -> Row]
  BY <1>1, <1>3, LoadedRow
<1>5. RowsOK' /\ InsertingOK'
  BY <1>1, RowsFrame, InsertingFrame DEF IInv, RowsOK
<1> QED
  BY <1>1, <1>4, <1>5, UserStep DEF IInv, CheckoutTypeOK, TypeOK

LEMMA GetUserIInv ==
  ASSUME IInv, NEW c \in Calls, GetUser(c), UNCHANGED <<orderVars, quota>>
  PROVE  IInv'
<1>1. /\ UNCHANGED <<users_, row, funds, keys, req, made, history, faults>>
      /\ ~At(c, "insert_shop_user") /\ Kind(c) = "signUp"
  BY DEF GetUser, At
<1>2. CASE Phone(c) \in shopUsers
  <2>1. Goto(c, "bind") /\ me' = [me EXCEPT ![c] = row[Phone(c)]]
    BY <1>2 DEF GetUser
  <2>2. "bind" \in Labels /\ Allowed(Kind(c), "bind")
    BY <1>1 DEF Labels, Allowed, Finished
  <2> QED
    BY <1>1, <1>2, <2>1, <2>2, LoadStep
<1>3. CASE Phone(c) \notin shopUsers
  <2>1. Goto(c, "insert_user") /\ UNCHANGED me
    BY <1>3 DEF GetUser
  <2>2. /\ "insert_user" \in Labels /\ Allowed(Kind(c), "insert_user")
        /\ "insert_user" \notin InAccount
    BY <1>1 DEF Labels, Allowed, Finished, InAccount
  <2> QED
    BY <1>1, <2>1, <2>2, GoIInv
<1> QED
  BY <1>2, <1>3

LEMMA LoadIInv ==
  ASSUME IInv, NEW c \in Calls, Load(c), UNCHANGED <<orderVars, quota>>
  PROVE  IInv'
<1> DEFINE l == FirstStep[Kind(c)]
<1>1. /\ UNCHANGED <<users_, row, funds, keys, req, made, history, faults>>
      /\ ~At(c, "insert_shop_user") /\ Phone(c) \in shopUsers /\ Goto(c, l)
      /\ me' = [me EXCEPT ![c] = row[Phone(c)]]
  BY DEF Load, At
<1>2. Kind(c) \in {"bindThirdAccount", "updateUserInfo", "setPaymentPassword", "transfer",
                   "createPayOrder", "fund", "ledgerList"}
  BY DEF Load, FirstStep
<1>3. /\ l \in Labels /\ l \notin {"insert_shop_user"} /\ Allowed(Kind(c), l)
      /\ Kind(c) # "transfer" \/ l \notin Authorised
  BY <1>2 DEF FirstStep, Labels, Allowed, Authorised, Finished
<1> HIDE DEF l
<1> QED
  BY <1>1, <1>3, LoadStep

\* A step that saves a column of the row.
LEMMA SaveStep ==
  ASSUME IInv, NEW c \in Calls, NEW l \in {"save_info", "done", "failed"}, Goto(c, l),
         Kind(c) # "transfer" \/ l = "failed", Phone(c) \in shopUsers,
         ~At(c, "insert_shop_user"), RowsOK', row' \in [Phones -> Row],
         chosen' \in [Phones -> SUBSET Passwords], wrong' \in [Phones -> Nat],
         \A p \in Phones : chosen[p] \subseteq chosen'[p] /\ wrong[p] <= wrong'[p],
         held \subseteq held', held' \subseteq Phones \X Openids,
         UNCHANGED <<users_, funds, keys, req, me, made, raced, faults, orderVars, quota>>
  PROVE  IInv'
<1>1. UNCHANGED <<users, shopUsers, inserting>>
  BY DEF users_
<1>2. LoadedOK' /\ InsertingOK'
  BY <1>1, LoadedFrame, InsertingFrame DEF IInv
<1>3. /\ l \in Labels /\ Allowed(Kind(c), l)
      /\ Kind(c) # "transfer" \/ l \notin Authorised
  BY DEF Labels, Allowed, Authorised, Finished
<1> QED
  BY <1>1, <1>2, <1>3, UserStep DEF IInv, CheckoutTypeOK, TypeOK

LEMMA BindIInv ==
  ASSUME IInv, NEW c \in Calls, Bind(c), UNCHANGED <<orderVars, quota>>
  PROVE  IInv'
<1> DEFINE p == Phone(c)
           o == req[c].openid
           l == IF Kind(c) = "signUp" THEN "save_info" ELSE "done"
<1>1. /\ UNCHANGED <<users_, funds, keys, req, me, made, chosen, wrong, raced, faults>>
      /\ At(c, "bind")
      /\ \/ Goto(c, l) /\ UNCHANGED <<row, held>>
         \/ Fail(c) /\ UNCHANGED <<row, held>>
         \/ /\ o # None /\ ~Taken(p, "openid", o)
            /\ row' = [row EXCEPT ![p].openid = o] /\ held' = held \cup {<<p, o>>}
            /\ Goto(c, l)
  BY DEF Bind
<1>2. /\ Kind(c) # "transfer" /\ p \in shopUsers /\ p \in Phones
      /\ o \in Openids \cup {None} /\ ~At(c, "insert_shop_user") /\ Phone(c) \in shopUsers
  BY <1>1, RequestFacts DEF IInv, CallOK, Allowed, InAccount, At, Finished
<1>3. l \in {"save_info", "done"}
  OBVIOUS
<1>4. /\ row \in [Phones -> Row] /\ held \subseteq Phones \X Openids
      /\ chosen' \in [Phones -> SUBSET Passwords] /\ wrong' \in [Phones -> Nat]
      /\ \A q \in Phones : chosen[q] \subseteq chosen'[q] /\ wrong[q] <= wrong'[q]
      /\ UNCHANGED <<users, shopUsers>>
  BY <1>1 DEF IInv, CheckoutTypeOK, TypeOK, users_
<1>5. CASE UNCHANGED <<row, held>>
  <2>1. RowsOK'
    BY <1>1, <1>4, <1>5, RowsFrame DEF IInv, RowsOK
  <2>2. /\ row' \in [Phones -> Row]
        /\ held \subseteq held' /\ held' \subseteq Phones \X Openids
    BY <1>4, <1>5
  <2>3. PICK n \in {"save_info", "done", "failed"} : Goto(c, n)
    BY <1>1 DEF Fail
  <2> HIDE DEF l
  <2> QED
    BY <1>1, <1>2, <1>4, <2>1, <2>2, <2>3, SaveStep
<1>6. CASE /\ o # None /\ ~Taken(p, "openid", o)
           /\ row' = [row EXCEPT ![p].openid = o] /\ held' = held \cup {<<p, o>>}
           /\ Goto(c, l)
  <2> HIDE DEF l, o, p
  <2>1. /\ row'[p] = [row[p] EXCEPT !.openid = o]
        /\ \A q \in Phones \ {p} : row'[q] = row[q]
    BY <1>2, <1>4, <1>6
  <2>2. /\ row'[p] \in Row /\ row'[p].openid = o /\ row'[p].name = row[p].name
        /\ row'[p].password = row[p].password /\ row'[p].retries = row[p].retries
    BY <1>2, <1>4, <2>1 DEF Row
  <2>3. row' \in [Phones -> Row]
    BY <1>4, <1>6, <2>1, <2>2
  <2>4. RowOK'
    BY <1>1, <1>2, <1>4, <1>6, <2>1, <2>2 DEF IInv, RowOK
  <2>5. RetriesCounted'
    BY <1>1, <2>1, <2>2 DEF IInv, RetriesCounted
  <2>6. ColumnsUnique'
    <3>1. \A q \in shopUsers \ {p} : row[q].openid # o /\ q \in Phones
      BY <1>6 DEF Taken, IInv, CheckoutTypeOK, TypeOK
    <3> QED
      BY <1>2, <1>4, <1>6, <2>1, <2>2, <3>1 DEF IInv, ColumnsUnique
  <2>7. RowsOK'
    BY <1>4, <2>4, <2>5, <2>6 DEF IInv, RowsOK, RegistrationWhole
  <2>8. held' \subseteq Phones \X Openids /\ held \subseteq held'
    BY <1>2, <1>4, <1>6
  <2> QED
    BY <1>1, <1>2, <1>3, <1>4, <1>6, <2>3, <2>7, <2>8, SaveStep
<1> QED
  BY <1>1, <1>5, <1>6

\* The nickname, the password and the count of wrong ones do not touch the openid.
LEMMA SaveInfoIInv ==
  ASSUME IInv, NEW c \in Calls, SaveInfo(c), UNCHANGED <<orderVars, quota>>
  PROVE  IInv'
<1> DEFINE p == Phone(c)
           n == req[c].name
<1>1. /\ UNCHANGED <<users_, funds, keys, req, me, made, faults>>
      /\ UNCHANGED <<chosen, wrong, held, raced>>
      /\ At(c, "save_info")
      /\ \/ Goto(c, "done") /\ UNCHANGED row
         \/ Fail(c) /\ UNCHANGED row
         \/ /\ n # None /\ ~Taken(p, "name", n)
            /\ row' = [row EXCEPT ![p].name = n]
            /\ Goto(c, "done")
  BY DEF SaveInfo, history
<1>2. /\ Kind(c) # "transfer" /\ Phone(c) \in shopUsers /\ p \in Phones
      /\ n \in Names \cup {None} /\ ~At(c, "insert_shop_user")
  BY <1>1, RequestFacts DEF IInv, CallOK, Allowed, InAccount, At, Finished
<1>3. /\ row \in [Phones -> Row] /\ held' \subseteq Phones \X Openids
      /\ chosen' \in [Phones -> SUBSET Passwords] /\ wrong' \in [Phones -> Nat]
      /\ \A q \in Phones : chosen[q] \subseteq chosen'[q] /\ wrong[q] <= wrong'[q]
      /\ UNCHANGED <<users, shopUsers>>
  BY <1>1 DEF IInv, CheckoutTypeOK, TypeOK, users_
<1>4. PICK l \in {"save_info", "done", "failed"} : Goto(c, l)
  BY <1>1 DEF Fail
<1>5. CASE UNCHANGED row
  <2>1. RowsOK'
    BY <1>1, <1>3, <1>5, RowsFrame DEF IInv, RowsOK
  <2> QED
    BY <1>1, <1>2, <1>3, <1>4, <1>5, <2>1, SaveStep
<1>6. CASE /\ n # None /\ ~Taken(p, "name", n)
           /\ row' = [row EXCEPT ![p].name = n]
  <2> HIDE DEF n, p
  <2>1. /\ row'[p] = [row[p] EXCEPT !.name = n]
        /\ \A q \in Phones \ {p} : row'[q] = row[q]
    BY <1>2, <1>3, <1>6
  <2>2. /\ row'[p] \in Row /\ row'[p].name = n /\ row'[p].openid = row[p].openid
        /\ row'[p].password = row[p].password /\ row'[p].retries = row[p].retries
    BY <1>2, <1>3, <2>1 DEF Row
  <2>3. row' \in [Phones -> Row]
    BY <1>3, <1>6, <2>1, <2>2
  <2>4. RowOK' /\ RetriesCounted'
    <3>1. p \in shopUsers
      BY <1>2 DEF p
    <3> QED
      BY <1>1, <1>2, <1>3, <2>1, <2>2, <3>1 DEF IInv, RowOK, RetriesCounted
  <2>5. ColumnsUnique'
    <3>1. \A q \in shopUsers \ {p} : row[q].name # n /\ q \in Phones
      BY <1>6 DEF Taken, IInv, CheckoutTypeOK, TypeOK
    <3> QED
      BY <1>2, <1>3, <1>6, <2>1, <2>2, <3>1 DEF IInv, ColumnsUnique
  <2>6. RowsOK'
    BY <1>3, <2>4, <2>5 DEF IInv, RowsOK, RegistrationWhole
  <2> QED
    BY <1>1, <1>2, <1>3, <1>4, <2>3, <2>6, SaveStep
<1> QED
  BY <1>1, <1>5, <1>6

\* The columns without a constraint: the password, or the count.
LEMMA SecretsStep ==
  ASSUME IInv, NEW c \in Calls, NEW l \in {"done", "failed"}, Goto(c, l),
         Kind(c) # "transfer" \/ l = "failed", Phone(c) \in shopUsers,
         ~At(c, "insert_shop_user"), NEW r \in Row,
         row' = [row EXCEPT ![Phone(c)] = r],
         r.openid = row[Phone(c)].openid, r.name = row[Phone(c)].name,
         r.password # None => r.password \in chosen'[Phone(c)],
         r.retries <= wrong'[Phone(c)], wrong'[Phone(c)] > 0 => r.retries > 0,
         \A q \in Phones \ {Phone(c)} : wrong'[q] = wrong[q],
         chosen' \in [Phones -> SUBSET Passwords], wrong' \in [Phones -> Nat],
         \A p \in Phones : chosen[p] \subseteq chosen'[p] /\ wrong[p] <= wrong'[p],
         UNCHANGED <<users_, funds, keys, req, me, made, held, raced, faults, orderVars, quota>>
  PROVE  IInv'
<1> DEFINE p == Phone(c)
<1>1. /\ p \in Phones /\ row \in [Phones -> Row] /\ held' \subseteq Phones \X Openids
      /\ UNCHANGED <<users, shopUsers>>
  BY RequestFacts DEF IInv, CheckoutTypeOK, TypeOK, users_
<1>2. row'[p] = r /\ row' \in [Phones -> Row] /\ \A q \in Phones \ {p} : row'[q] = row[q]
  BY <1>1
<1>3. RowOK' /\ RetriesCounted'
  BY <1>1, <1>2 DEF IInv, RowOK, RetriesCounted
<1>4. ColumnsUnique'
  <2>1. \A q \in shopUsers : row'[q].openid = row[q].openid /\ row'[q].name = row[q].name
    BY <1>1, <1>2 DEF IInv, CheckoutTypeOK, TypeOK
  <2> QED
    BY <1>1, <2>1 DEF IInv, ColumnsUnique
<1>5. RowsOK'
  BY <1>1, <1>3, <1>4 DEF IInv, RowsOK, RegistrationWhole
<1> QED
  BY <1>1, <1>2, <1>5, SaveStep

LEMMA SetPasswordIInv ==
  ASSUME IInv, NEW c \in Calls, SetPassword(c), UNCHANGED <<orderVars, quota>>
  PROVE  IInv'
<1> DEFINE p == Phone(c)
           w == req[c].password
<1>1. /\ UNCHANGED <<users_, funds, keys, req, me, made, wrong, held, raced, faults>>
      /\ At(c, "save_password")
      /\ \/ Fail(c) /\ UNCHANGED <<row, chosen>>
         \/ /\ row' = [row EXCEPT ![p].password = w]
            /\ chosen' = [chosen EXCEPT ![p] = @ \cup {w}]
            /\ Goto(c, "done")
  BY DEF SetPassword
<1>2. /\ Kind(c) = "setPaymentPassword" /\ Phone(c) \in shopUsers /\ Phone(c) \in Phones
      /\ w \in Passwords /\ ~At(c, "insert_shop_user")
  BY <1>1, RequestFacts DEF IInv, CallOK, Allowed, InAccount, At
<1>3. CASE Fail(c) /\ UNCHANGED <<row, chosen>>
  BY <1>1, <1>2, <1>3, FailIInv DEF history
<1>4. CASE /\ row' = [row EXCEPT ![p].password = w]
           /\ chosen' = [chosen EXCEPT ![p] = @ \cup {w}]
           /\ Goto(c, "done")
  <2> DEFINE r == [row[p] EXCEPT !.password = w]
  <2>1. /\ row \in [Phones -> Row] /\ row[p] \in Row
        /\ chosen \in [Phones -> SUBSET Passwords] /\ wrong \in [Phones -> Nat]
    BY <1>2 DEF IInv, CheckoutTypeOK, TypeOK
  <2>2. /\ r \in Row /\ r.password = w /\ r.openid = row[p].openid /\ r.name = row[p].name
        /\ r.retries = row[p].retries
    BY <1>2, <2>1 DEF Row
  <2>3. row' = [row EXCEPT ![Phone(c)] = r]
    BY <1>4, <2>1
  <2>4. /\ w \in chosen'[p] /\ chosen' \in [Phones -> SUBSET Passwords]
        /\ \A q \in Phones : chosen[q] \subseteq chosen'[q]
    BY <1>2, <1>4, <2>1
  <2>5. /\ row[p].retries <= wrong[p] /\ (wrong[p] > 0 => row[p].retries > 0)
        /\ \A q \in Phones : wrong[q] <= wrong'[q] /\ wrong'[q] = wrong[q]
    BY <1>1, <1>2, <2>1 DEF IInv, RetriesCounted
  <2> HIDE DEF r, w
  <2> QED
    BY <1>1, <1>2, <1>4, <2>1, <2>2, <2>3, <2>4, <2>5, SecretsStep
<1> QED
  BY <1>1, <1>3, <1>4

LEMMA SaveRetriesIInv ==
  ASSUME IInv, NEW c \in Calls, SaveRetries(c), UNCHANGED <<orderVars, quota>>
  PROVE  IInv'
<1> DEFINE p == Phone(c)
           n == me[c].retries + 1
           r == [row[p] EXCEPT !.retries = n]
<1>1. /\ UNCHANGED <<users_, funds, keys, req, me, made, chosen, held, raced, faults>>
      /\ At(c, "save_retries") /\ Goto(c, "failed")
      /\ row' = [row EXCEPT ![p].retries = n] /\ wrong' = [wrong EXCEPT ![p] = @ + 1]
  BY DEF SaveRetries, Fail
<1>2. Phone(c) \in shopUsers /\ Phone(c) \in Phones /\ ~At(c, "insert_shop_user")
  BY <1>1, RequestFacts DEF IInv, CallOK, InAccount, At
<1>3. /\ row \in [Phones -> Row] /\ row[p] \in Row /\ n \in Nat
      /\ chosen \in [Phones -> SUBSET Passwords] /\ wrong \in [Phones -> Nat]
  BY <1>2, RowFacts DEF IInv, CheckoutTypeOK, TypeOK
<1>4. me[c].retries \in Nat /\ me[c].retries <= wrong[p]
  BY RowFacts DEF IInv, LoadedOK, CheckoutTypeOK, TypeOK
<1>5. /\ r \in Row /\ r.retries = n /\ r.openid = row[p].openid /\ r.name = row[p].name
      /\ r.password = row[p].password
  BY <1>3 DEF Row
<1>6. row' = [row EXCEPT ![Phone(c)] = r]
  BY <1>1, <1>3
<1>7. /\ wrong'[p] = wrong[p] + 1 /\ wrong' \in [Phones -> Nat]
      /\ \A q \in Phones \ {p} : wrong'[q] = wrong[q]
      /\ \A q \in Phones : wrong[q] <= wrong'[q]
  BY <1>1, <1>2, <1>3
<1>8. /\ r.retries <= wrong'[p] /\ r.retries > 0
      /\ r.password # None => r.password \in chosen'[p]
  <2>1. wrong[p] \in Nat
    BY <1>2, <1>3
  <2>2. r.password # None => r.password \in chosen[p]
    BY <1>2, <1>5 DEF IInv, RowOK
  <2> QED
    BY <1>1, <1>4, <1>5, <1>7, <2>1, <2>2
<1> HIDE DEF r, n
<1> QED
  BY <1>1, <1>2, <1>3, <1>5, <1>6, <1>7, <1>8, SecretsStep
-----------------------------------------------------------------------------
(* The invariant.                                                          *)

LEMMA InitIInv == CheckoutInit => IInv
<1> SUFFICES ASSUME CheckoutInit
             PROVE  IInv
  OBVIOUS
<1>1. RequestsOK /\ req \in [Calls -> Request]
  BY ConstantsAssumption DEF RequestsOK, CheckoutInit, Init
<1>2. CheckoutTypeOK
  BY <1>1, ConstantsAssumption, NewRowFacts
     DEF CheckoutTypeOK, TypeOK, CheckoutInit, Init, Labels, At, NotCredited
<1>3. RowOK /\ RetriesCounted /\ ColumnsUnique /\ RegistrationWhole
  BY ConstantsAssumption, NewRowFacts
     DEF RowOK, RetriesCounted, ColumnsUnique, RegistrationWhole, CheckoutInit, Init
<1>4. LoadedOK /\ CallOK
  <2>1. \A c \in Calls : Phone(c) \in Phones /\ 0 <= wrong[Phone(c)]
    BY <1>1, <1>2, RequestFacts DEF CheckoutInit, Init
  <2> QED
    BY <2>1, NewRowFacts
       DEF LoadedOK, CallOK, Allowed, InAccount, Authorised, Finished, CheckoutInit, Init
<1>5. FundOK /\ DeliveryOK
  BY DEF FundOK, DeliveryOK, CheckoutInit, Init
<1>6. CreditOK
  BY DEF CreditOK, CreditedAsAsked, CreditedToHolder, CheckoutInit
<1> QED
  BY <1>1, <1>2, <1>3, <1>4, <1>5, <1>6 DEF IInv

LEMMA StepIInv ==
  ASSUME IInv, NEW c \in Calls, Step(c), UNCHANGED <<orderVars, quota>>
  PROVE  IInv'
BY InsertUserIInv, CreateUserIInv, BindIInv, SaveInfoIInv, SetPasswordIInv,
   CheckPasswordIInv, SaveRetriesIInv, GetKeyIInv, SetKeyIInv, FindPayeeIInv, FundsIInv,
   CommitIInv, ReadFundIInv
   DEF Step

LEMMA NextIInv == IInv /\ [Next]_vars => IInv'
<1> SUFFICES ASSUME IInv, [Next]_vars
             PROVE  IInv'
  OBVIOUS
<1>1. CASE AccountNext /\ UNCHANGED <<orderVars, quota>>
  <2>1. CASE \E k \in keys : KeyExpires(k)
    BY <1>1, <2>1, KeyExpiresIInv
  <2>2. ASSUME NEW c \in Calls,
               \/ GetUser(c) \/ Load(c) \/ SignIn(c) \/ Step(c)
               \/ ProviderFails(c) \/ Rollback(c) \/ Crash(c)
        PROVE  IInv'
    BY <1>1, <2>2, GetUserIInv, LoadIInv, SignInIInv, StepIInv, CommitIInv, CrashIInv
  <2> QED
    BY <1>1, <2>1, <2>2 DEF AccountNext
<1>2. ASSUME NEW c \in Calls,
             \/ CreateOrder(c) \/ Prepay(c) \/ Pay(c) \/ EditQuota(c)
             \/ Lookup(c) \/ GetFunds(c) \/ CashBack(c) \/ Credit(c) \/ Interrupt(c)
      PROVE  IInv'
  BY <1>2, CreateOrderIInv, PrepayIInv, PayIInv, EditQuotaIInv, LookupIInv, GetFundsIInv,
     CashBackIInv, CreditIInv, InterruptIInv
<1>3. CASE UNCHANGED vars
  <2>1. /\ UNCHANGED <<accountVars, orderVars, quota>>
        /\ UNCHANGED <<users, shopUsers, inserting, row, funds, keys, req, pc, me, made>>
        /\ UNCHANGED <<chosen, wrong, held, raced, faults>>
        /\ UNCHANGED <<order, delivery, payer, due, quotas, credited, back>>
    BY <1>3 DEF vars, accountVars, users_, history, orderVars
  <2>2. FundOK' /\ MadeType' /\ DeliveryOK' /\ CreditOK' /\ CashBackType'
    BY <2>1, FundFrame, OrdersStay, DeliveryFrame, CashBackFrame
       DEF IInv, MadeType, CheckoutTypeOK, TypeOK
  <2> QED
    BY <2>1, <2>2, DeliverIInv DEF IInv, CheckoutTypeOK, TypeOK, Orders, Places, users_
<1> QED
  BY <1>1, <1>2, <1>3 DEF Next

\* What holds of accounts, calls, funds and orders whatever runs at the same time.
THEOREM Invariance == Spec => []IInv
<1> QED
  BY InitIInv, NextIInv, PTL DEF Spec

\* Every variable has its type, and an uncommitted username is that of its call.
THEOREM TypeCorrect == Spec => []CheckoutTypeOK
<1>1. IInv => CheckoutTypeOK
  BY DEF IInv
<1> QED
  BY <1>1, Invariance, PTL

\* A phone has a username and an account, or neither: the two rows are committed together.
THEOREM WholeRegistrations == Spec => []RegistrationWhole
<1>1. IInv => RegistrationWhole
  BY DEF IInv
<1> QED
  BY <1>1, Invariance, PTL

\* An openid or a nickname is that of one user: bindings and updates test and save at once.
THEOREM UniqueColumns == Spec => []ColumnsUnique
<1>1. IInv => ColumnsUnique
  BY DEF IInv
<1> QED
  BY <1>1, Invariance, PTL

\* A transfer that gets to the funds gave a password that the payer was told is set.
THEOREM AuthorisedTransfers == Spec => []TransferAuthorised
<1>1. IInv => TransferAuthorised
  BY DEF IInv, CallOK, TransferAuthorised, Authorised
<1> QED
  BY <1>1, Invariance, PTL

\* Wrong passwords that overlap may be counted as one, and never as none or as more.
THEOREM CountedRetries == Spec => []RetriesCounted
<1>1. IInv => RetriesCounted
  BY DEF IInv
<1> QED
  BY <1>1, Invariance, PTL

\* Only users whose first fund was made by two transactions at once have two.
THEOREM AtMostOneFund == Spec => []OneFund
<1>1. ASSUME IInv
      PROVE  OneFund
  <2> SUFFICES ASSUME NEW p \in Phones \ raced
               PROVE  funds[p] + Cardinality(Making(p)) <= 1
    BY DEF OneFund
  <2>1. funds[p] \in Nat /\ funds[p] <= 1
    BY <1>1 DEF IInv, FundOK, CheckoutTypeOK, TypeOK
  <2>2. CASE Making(p) = {}
    <3>1. Cardinality(Making(p)) = 0
      BY <2>2, FS_EmptySet
    <3> QED
      BY <2>1, <3>1
  <2>3. CASE Making(p) # {}
    <3>1. PICK c \in Calls : p \in made[c]
      BY <2>3 DEF Making
    <3>2. Making(p) = {c} /\ funds[p] = 0
      BY <1>1, <3>1 DEF IInv, FundOK, Making
    <3>3. Cardinality({c}) = 1
      BY FS_Singleton
    <3> QED
      BY <3>2, <3>3
  <2> QED
    BY <2>2, <2>3
<1> QED
  BY <1>1, Invariance, PTL

\* A credit is of the amount asked for, cut off to whole fens.
THEOREM AskedIsCredited == Spec => []CreditedAsAsked
<1>1. IInv => CreditedAsAsked
  BY DEF IInv, CreditOK
<1> QED
  BY <1>1, Invariance, PTL

\* A credit goes to a user who has bound the order's openid.
THEOREM HolderIsCredited == Spec => []CreditedToHolder
<1>1. IInv => CreditedToHolder
  BY DEF IInv, CreditOK
<1> QED
  BY <1>1, Invariance, PTL
-----------------------------------------------------------------------------
(* Cash back.  A second invariant: of a delivery under way, the quota that *)
(* is there has been seen by it, and what it has written agrees with one   *)
(* of those it has seen.                                                   *)

\* The amount is all paid back if it reaches t.
Agrees(amount, t, paid) == paid = IF amount < t THEN 0 ELSE amount

DueOK ==
  \A c \in Calls :
    /\ delivery[c] # "idle" => quota \in quotas[c]
    /\ delivery[c] # "commit" => due[c] = 0
    /\ delivery[c] = "commit" => \E t \in InForce(c) : Agrees(Amount(c), t, due[c])

CashBackInv == IInv /\ DueOK

\* The delivery of c moves to l, and the others stay.
LEMMA DueStep ==
  ASSUME IInv, DueOK, NEW c \in Calls, NEW l, delivery' = [delivery EXCEPT ![c] = l],
         UNCHANGED <<req, quota>>,
         \A d \in Calls \ {c} : quotas'[d] = quotas[d] /\ due'[d] = due[d],
         l # "idle" => quota \in quotas'[c],
         l # "commit" => due'[c] = 0,
         l = "commit" => \E t \in InForce(c)' : Agrees(Amount(c), t, due'[c])
  PROVE  DueOK'
<1>1. /\ delivery'[c] = l /\ \A d \in Calls \ {c} : delivery'[d] = delivery[d]
      /\ \A d \in Calls : Amount(d)' = Amount(d)
      /\ \A d \in Calls \ {c} : InForce(d)' = InForce(d)
  BY DEF IInv, CheckoutTypeOK, Amount, Fee, InForce
<1> SUFFICES ASSUME NEW d \in Calls
             PROVE  /\ delivery'[d] # "idle" => quota' \in quotas'[d]
                    /\ delivery'[d] # "commit" => due'[d] = 0
                    /\ delivery'[d] = "commit"
                         => \E t \in InForce(d)' : Agrees(Amount(d)', t, due'[d])
  BY DEF DueOK, Agrees
<1>2. CASE d = c
  BY <1>1, <1>2
<1>3. CASE d # c
  BY <1>1, <1>3 DEF DueOK
<1> QED
  BY <1>2, <1>3

LEMMA DueFrame ==
  ASSUME DueOK, UNCHANGED <<req, delivery, due, quotas, quota>>
  PROVE  DueOK'
BY DEF DueOK, InForce, Amount, Fee, Agrees

\* A threshold is that of the quota, which the delivery has seen.
LEMMA ThresholdSeen ==
  ASSUME NEW c \in Calls, quota \in quotas[c]
  PROVE  Threshold \in InForce(c)
BY DEF Threshold, Quota, InForce

LEMMA LookupDue ==
  ASSUME IInv, DueOK, NEW c \in Calls, Lookup(c)
  PROVE  DueOK'
<1>1. PICK p \in Phones : Found(c, p)
  BY DEF Lookup
<1>2. /\ delivery[c] = "idle" /\ delivery' = [delivery EXCEPT ![c] = "funds"]
      /\ quotas' = [quotas EXCEPT ![c] = {quota}] /\ UNCHANGED <<req, due, quota>>
  BY <1>1 DEF Lookup, Found, accountVars
<1>3. quota \in quotas'[c] /\ \A d \in Calls \ {c} : quotas'[d] = quotas[d]
  BY <1>2 DEF IInv, CheckoutTypeOK
<1>4. due'[c] = 0
  BY <1>2 DEF DueOK
<1> QED
  BY <1>2, <1>3, <1>4, DueStep

LEMMA GetFundsDue ==
  ASSUME IInv, DueOK, NEW c \in Calls, GetFunds(c)
  PROVE  DueOK'
<1>1. delivery[c] \in {"funds", "transfer", "payee"} /\ UNCHANGED <<req, due, quotas, quota>>
  BY DEF GetFunds
<1>2. PICK l \in {"idle", "transfer", "payee", "cash_back"} :
        delivery' = [delivery EXCEPT ![c] = l]
  BY DEF GetFunds
<1>3. due'[c] = 0 /\ quota \in quotas'[c]
  BY <1>1 DEF DueOK
<1> QED
  BY <1>1, <1>2, <1>3, DueStep

LEMMA CashBackDue ==
  ASSUME IInv, DueOK, NEW c \in Calls, CashBack(c)
  PROVE  DueOK'
<1>1. delivery[c] = "cash_back" /\ UNCHANGED <<req, quotas, quota>>
  BY DEF CashBack
<1>2. due[c] = 0 /\ quota \in quotas[c]
  BY <1>1 DEF DueOK
<1>3. Threshold \in InForce(c)' /\ Threshold \in Int /\ Amount(c) \in Int
  <2>1. Threshold \in InForce(c) /\ InForce(c)' = InForce(c)
    BY <1>1, <1>2, ThresholdSeen DEF InForce
  <2>2. Threshold \in Int
    BY ThresholdAssumption DEF Threshold, Quota, IInv, CheckoutTypeOK
  <2> QED
    BY <1>1, <2>1, <2>2, AmountFacts
<1>4. CASE /\ Amount(c) < Threshold /\ UNCHANGED due
           /\ delivery' = [delivery EXCEPT ![c] = "commit"]
  <2>1. Agrees(Amount(c), Threshold, due'[c])
    BY <1>2, <1>4 DEF Agrees
  <2> QED
    BY <1>1, <1>2, <1>3, <1>4, <2>1, DueStep
<1>5. CASE /\ Amount(c) >= Threshold /\ due' = [due EXCEPT ![c] = Amount(c)]
           /\ delivery' = [delivery EXCEPT ![c] = "commit"]
  <2>1. due'[c] = Amount(c) /\ \A d \in Calls \ {c} : due'[d] = due[d]
    BY <1>5 DEF IInv, CheckoutTypeOK
  <2>2. Agrees(Amount(c), Threshold, due'[c])
    BY <1>3, <1>5, <2>1 DEF Agrees
  <2> QED
    BY <1>1, <1>2, <1>3, <1>5, <2>1, <2>2, DueStep
<1>6. CASE UNCHANGED due /\ delivery' = [delivery EXCEPT ![c] = "idle"]
  BY <1>1, <1>2, <1>6, DueStep
<1> QED
  BY <1>4, <1>5, <1>6 DEF CashBack

LEMMA EndDue ==
  ASSUME IInv, DueOK, NEW c \in Calls, Credit(c) \/ Interrupt(c)
  PROVE  DueOK'
<1>1. /\ delivery' = [delivery EXCEPT ![c] = "idle"] /\ due' = [due EXCEPT ![c] = 0]
      /\ UNCHANGED <<req, quotas, quota>>
  BY DEF Credit, Interrupt
<1>2. due'[c] = 0 /\ \A d \in Calls \ {c} : due'[d] = due[d]
  BY <1>1 DEF IInv, CheckoutTypeOK
<1> QED
  BY <1>1, <1>2, DueStep

LEMMA EditQuotaDue ==
  ASSUME IInv, DueOK, NEW c \in Calls, EditQuota(c)
  PROVE  DueOK'
<1>1. /\ UNCHANGED <<req, delivery, due>>
      /\ \A d \in Calls : quotas'[d] = IF delivery[d] = "idle" THEN quotas[d]
                                      ELSE quotas[d] \cup {quota'}
  BY DEF EditQuota
<1>2. \A d \in Calls : InForce(d) \subseteq InForce(d)' /\ Amount(d)' = Amount(d)
  BY <1>1 DEF InForce, Amount, Fee
<1> QED
  BY <1>1, <1>2 DEF DueOK, Agrees

LEMMA CashBackInitInv == CheckoutInit => CashBackInv
<1>1. CheckoutInit => DueOK
  BY DEF CheckoutInit, DueOK
<1> QED
  BY <1>1, InitIInv DEF CashBackInv

\* No step of an account changes a request.
LEMMA RequestsStay ==
  ASSUME AccountNext
  PROVE  UNCHANGED req
<1>1. ASSUME NEW c \in Calls, Step(c)
      PROVE  UNCHANGED req
  <2>1. CASE InsertUser(c) \/ CreateUser(c) \/ Bind(c) \/ SaveInfo(c) \/ SetPassword(c)
    BY <2>1 DEF InsertUser, CreateUser, Bind, SaveInfo, SetPassword
  <2>2. CASE CheckPassword(c) \/ SaveRetries(c) \/ GetKey(c) \/ SetKey(c) \/ FindPayee(c)
    BY <2>2 DEF CheckPassword, SaveRetries, GetKey, SetKey, FindPayee
  <2>3. CASE FromFund(c) \/ ToFund(c) \/ Commit(c) \/ ReadFund(c)
    BY <2>3 DEF FromFund, ToFund, Commit, ReadFund
  <2> QED
    BY <1>1, <2>1, <2>2, <2>3 DEF Step
<1> QED
  BY <1>1 DEF AccountNext, KeyExpires, GetUser, Load, SignIn, ProviderFails, Rollback, Crash

LEMMA CashBackNext == CashBackInv /\ [Next]_vars => CashBackInv'
<1> SUFFICES ASSUME IInv, DueOK, [Next]_vars
             PROVE  DueOK'
  BY NextIInv DEF CashBackInv
<1>1. CASE AccountNext /\ UNCHANGED <<orderVars, quota>>
  BY <1>1, RequestsStay, DueFrame DEF orderVars
<1>2. ASSUME NEW c \in Calls, CreateOrder(c) \/ Prepay(c) \/ Pay(c)
      PROVE  DueOK'
  <2>1. UNCHANGED <<req, delivery, due, quotas, quota>>
    BY <1>2 DEF CreateOrder, Prepay, Pay, accountVars
  <2> QED
    BY <2>1, DueFrame
<1>3. ASSUME NEW c \in Calls, \/ Lookup(c) \/ GetFunds(c) \/ CashBack(c) \/ Credit(c)
                              \/ Interrupt(c) \/ EditQuota(c)
      PROVE  DueOK'
  BY <1>3, LookupDue, GetFundsDue, CashBackDue, EndDue, EditQuotaDue
<1>4. CASE UNCHANGED vars
  BY <1>4, DueFrame DEF vars, accountVars, orderVars
<1> QED
  BY <1>1, <1>2, <1>3, <1>4 DEF Next

\* What holds of quotas and of the cash back of deliveries under way.
THEOREM CashBackInvariance == Spec => []CashBackInv
<1> QED
  BY CashBackInitInv, CashBackNext, PTL DEF Spec

LEMMA CreditHonours ==
  ASSUME CashBackInv, NEW c \in Calls, NEW d \in Calls, Credit(c), credited'[d] # credited[d]
  PROVE  \E t \in InForce(d) : Agrees(credited'[d].amount, t, back'[d])
<1>1. d = c
  BY DEF Credit, CashBackInv, IInv, CheckoutTypeOK
<1>2. credited'[c].amount = Amount(c) /\ back'[c] = due[c] /\ delivery[c] = "commit"
  BY DEF Credit, CashBackInv, IInv, CheckoutTypeOK
<1> QED
  BY <1>1, <1>2 DEF CashBackInv, DueOK

\* The cash back of an order is that of one threshold, the default one or a quota that was
\* there between the lookup of its payer and the commit, whatever administrators edit.
THEOREM HonouredThreshold == Spec => ThresholdHonoured
<1> DEFINE Honoured ==
      \A c \in Calls : credited'[c] # credited[c] =>
        \E t \in InForce(c) : back'[c] = IF credited'[c].amount < t THEN 0
                                        ELSE credited'[c].amount
<1>1. CashBackInv /\ [Next]_vars => [Honoured]_vars
  <2> SUFFICES ASSUME CashBackInv, [Next]_vars, NEW c \in Calls, credited'[c] # credited[c]
               PROVE  \E t \in InForce(c) : Agrees(credited'[c].amount, t, back'[c])
    BY DEF Agrees
  <2>1. ~UNCHANGED credited
    OBVIOUS
  <2>2. PICK d \in Calls : Credit(d)
    BY <2>1 DEF Next, vars, orderVars, CreateOrder, Prepay, Pay, EditQuota, Lookup, Found,
                GetFunds, CashBack, Interrupt
  <2> QED
    BY <2>2, CreditHonours
<1> QED
  BY <1>1, CashBackInvariance, PTL DEF Spec, ThresholdHonoured
=============================================================================
