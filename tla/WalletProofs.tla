---------------------------- MODULE WalletProofs ----------------------------
(***************************************************************************)
(* The wallet, proved for any funds, jobs, holds, requests and settings.   *)
(*                                                                         *)
(* First TypeOK and NoOverdraft.  Neither is inductive alone: a hold stays *)
(* non-empty and cash non-negative because an amount that is taken or      *)
(* added has passed its guard, which ControlOK remembers.                  *)
(*                                                                         *)
(* Then the callbacks.  An order is credited once, whoever its payer is    *)
(* found to be, as an insert waits for another of its key.  The purchase   *)
(* of a customer who has paid is funded: a callback locks the payer's Fund *)
(* row with its first statement and keeps the lock to its end.             *)
(***************************************************************************)
EXTENDS Wallet, TotalsTheorems

TransferLabels == {"read_cash", "check_total", "select_holds", "lock_holds",
                   "decr_cash", "read_from", "incr_to", "transfer_row"}

\* What a job's place in the code says of its request.
ControlOK ==
  \A j \in Jobs :
    /\ pc[j] \in {"deposit", "deposit_row", "cash_back"} => req[j].kind = "callback"
    /\ pc[j] \in TransferLabels => req[j].to \in Funds
    /\ pc[j] \in {"lock_holds", "decr_cash", "read_from", "incr_to"} => Amount(j) > 0

IInv == TypeOK /\ NoOverdraft /\ ControlOK

\* What the assumptions say of the request of a job.
LEMMA RequestFacts ==
  ASSUME NEW r \in Requests
  PROVE  /\ r \in Request
         /\ r.kind \in {"callback", "transfer", "withdraw", "expired_unhold"}
         /\ r.user \in Funds /\ r.to \in Funds \cup {None} /\ r.amount \in Int
         /\ r.kind = "transfer" => r.to \in Funds
         /\ r.kind = "callback" => r.amount > 0
BY RequestsAssumption DEF Request

LEMMA HoldIdsFinite == IsFiniteSet(HoldIds)
BY SetsAssumption, FS_Union DEF HoldIds

\* A row, or no row, has an amount and an expiry.
LEMMA HoldFacts ==
  ASSUME NEW r \in HoldRow \cup {NoHold}
  PROVE  /\ r.amount \in Nat /\ r.expired_at \in Int
         /\ r # NoHold => r.fund \in Funds /\ r.amount > 0
BY DEF HoldRow, NoHold

LEMMA TotalHoldType ==
  ASSUME TypeOK, NEW j \in Jobs, NEW f
  PROVE  TotalHold(j, f) \in Nat
<1> DEFINE amount == [h \in HoldIds |-> Hold(j, h).amount]
<1>1. HoldsOf(j, f) \subseteq HoldIds
  BY DEF HoldsOf
<1>2. IsFiniteSet(HoldsOf(j, f))
  BY <1>1, HoldIdsFinite, FS_Subset
<1>3. ASSUME NEW h \in HoldIds
      PROVE  Hold(j, h) \in HoldRow \cup {NoHold}
  BY DEF Hold, TypeOK
<1>4. \A h \in HoldsOf(j, f) : amount[h] \in Int
  BY <1>1, <1>3, HoldFacts
<1>5. Total(HoldsOf(j, f), amount) \in Nat
  BY <1>2, <1>4, TotalType
<1> QED
  BY <1>5 DEF TotalHold

LEMMA InitIInv == Init => IInv
<1> SUFFICES ASSUME Init PROVE IInv
  OBVIOUS
<1>1. TypeOK
  BY InitialAssumption, SettingsAssumption
  DEF Init, TypeOK, HoldIds, Labels
<1>2. NoOverdraft
  BY InitialAssumption DEF Init, NoOverdraft
<1>3. ControlOK
  BY DEF Init, ControlOK, TransferLabels
<1> QED
  BY <1>1, <1>2, <1>3 DEF IInv

\* Undoing a job's writes keeps the invariant.
LEMMA RollbackIInv ==
  ASSUME IInv, NEW j \in Jobs, Rollback(j)
  PROVE  IInv'
<1> USE DEF IInv, Rollback, UnlockAll, Goto, committedRows
<1>1. TypeOK'
  BY DEF TypeOK, Labels, Finished
<1>2. NoOverdraft'
  BY DEF TypeOK, NoOverdraft
<1>3. ControlOK'
  BY DEF TypeOK, ControlOK, TransferLabels, Amount
<1> QED
  BY <1>1, <1>2, <1>3

\* The same for the rows a job inserts.
LEMMA RecordIInv ==
  ASSUME IInv, NEW j \in Jobs, NEW type \in Types,
         NEW entries \in SUBSET [fund : Funds, type : Types, cash : Int, hold : Int],
         NEW label \in Labels, Record(j, type, entries, label),
         label = "cash_back" => req[j].kind = "callback",
         label \in TransferLabels => label = "read_cash" /\ req[j].to \in Funds,
         label # "deposit" /\ label # "deposit_row"
  PROVE  IInv'
<1>1. CASE Rollback(j)
  BY <1>1, RollbackIInv
<1>2. CASE ~Rollback(j)
  <2> USE <1>2 DEF IInv, Record, Insert, Goto, committedRows, workingCash, workingHold, locals
  <2>1. TypeOK'
    BY DEF TypeOK
  <2>2. NoOverdraft'
    BY DEF NoOverdraft
  <2>3. ControlOK'
    BY DEF TypeOK, ControlOK, TransferLabels, Amount
  <2> QED
    BY <2>1, <2>2, <2>3
<1> QED
  BY <1>1, <1>2

\* A balance that is recorded has the type of a FundAction row.
LEMMA BalanceType ==
  ASSUME TypeOK, NEW j \in Jobs, NEW f \in Funds, NEW value \in Int, NEW type \in Types
  PROVE  Balance(j, f, value, type) \in [fund : Funds, type : Types, cash : Int, hold : Int]
BY TotalHoldType DEF Balance

\* What a job reads of a fund is an integer, and not negative.
LEMMA CashType ==
  ASSUME IInv, NEW j \in Jobs, NEW f \in Funds
  PROVE  Cash(j, f) \in Nat
BY DEF IInv, TypeOK, NoOverdraft, Cash

\* Writing a non-negative value to a fund.
LEMMA SetCashIInv ==
  ASSUME IInv, NEW j \in Jobs, NEW f \in Funds, NEW value \in Nat,
         SetCash(j, f, value), NEW label \in Labels, Goto(j, label),
         UNCHANGED <<committedRows, workingHold, req, locals, inserted>>,
         label = "deposit_row" => req[j].kind = "callback",
         label # "deposit" /\ label # "cash_back",
         label \in TransferLabels =>
           label \in {"read_from", "transfer_row"} /\ pc[j] \in {"decr_cash", "incr_to"}
  PROVE  IInv'
<1> USE DEF IInv, SetCash, Goto, committedRows, workingHold, locals, inserted
<1>1. TypeOK'
  BY DEF TypeOK
<1>2. NoOverdraft'
  BY DEF TypeOK, NoOverdraft
<1>3. ControlOK'
  BY DEF TypeOK, ControlOK, TransferLabels, Amount
<1> QED
  BY <1>1, <1>2, <1>3

LEMMA DecrCashIInv ==
  ASSUME IInv, NEW j \in Jobs, NEW amount \in Int, NEW label \in Labels,
         DecrCash(j, User(j), amount, label),
         label = "withdraw_row" \/ (label = "read_from" /\ pc[j] = "decr_cash")
  PROVE  IInv'
<1>1. User(j) \in Funds
  BY RequestFacts DEF IInv, TypeOK, User
<1>2. CASE Rollback(j)
  BY <1>2, RollbackIInv
<1>3. CASE ~Rollback(j)
  <2>1. Cash(j, User(j)) \in Nat
    BY <1>1, CashType
  <2>2. Cash(j, User(j)) - amount \in Nat
    BY <1>3, <2>1 DEF DecrCash
  <2>3. /\ SetCash(j, User(j), Cash(j, User(j)) - amount)
        /\ Goto(j, label)
        /\ UNCHANGED <<committedRows, workingHold, req, locals, inserted>>
    BY <1>3 DEF DecrCash
  <2> QED
    BY <1>1, <2>2, <2>3, SetCashIInv DEF TransferLabels
<1> QED
  BY <1>2, <1>3

\* One lemma per kind of statement: control, deposits, transfers, withdrawals, cash
\* backs, releases.
LEMMA ControlStep ==
  ASSUME IInv, NEW j \in Jobs,
         \/ Begin(j) \/ ReadCash(j) \/ CheckTotal(j) \/ SelectHolds(j) \/ ReadFrom(j)
         \/ NoCashBack(j) \/ SelectExpired(j) \/ UnholdDone(j) \/ Commit(j)
  PROVE  IInv'
<1> DEFINE quiet == UNCHANGED <<committedRows, workingCash, workingHold, req, inserted>>
<1> USE DEF At, Goto
<1>r. req[j] \in Requests /\ User(j) \in Funds
  BY RequestFacts DEF IInv, TypeOK, User
<1>0. ASSUME quiet,
             seen' \in [Jobs -> Int], want' \in [Jobs -> SUBSET HoldIds],
             due' \in [Jobs -> Int],
             NEW label \in Labels, Goto(j, label), label # "deposit_row",
             label \in {"deposit", "cash_back"} => req[j].kind = "callback",
             label \in TransferLabels => req[j].to \in Funds,
             label \in {"lock_holds", "decr_cash", "read_from", "incr_to"} => Amount(j) > 0
      PROVE  IInv'
  <2> USE <1>0 DEF IInv, committedRows, workingCash, workingHold, inserted
  <2>1. TypeOK'
    BY DEF TypeOK
  <2>2. NoOverdraft'
    BY DEF NoOverdraft
  <2>3. ControlOK'
    BY DEF TypeOK, ControlOK, TransferLabels, Amount
  <2> QED
    BY <2>1, <2>2, <2>3
<1>1. CASE Begin(j)
  <2>1. /\ Entry[req[j].kind] \in {"deposit", "read_cash", "withdraw", "select_expired"}
        /\ Entry[req[j].kind] = "deposit" => req[j].kind = "callback"
        /\ Entry[req[j].kind] = "read_cash" => req[j].to \in Funds
    BY <1>r, RequestFacts DEF Entry
  <2> QED
    BY <1>0, <1>1, <2>1 DEF Begin, locals, IInv, TypeOK, Labels, TransferLabels
<1>2. CASE ReadCash(j)
  <2>1. Cash(j, User(j)) \in Int
    BY <1>r, CashType
  <2> QED
    BY <1>0, <1>2, <2>1
    DEF ReadCash, IInv, TypeOK, ControlOK, Labels, TransferLabels
<1>3. CASE CheckTotal(j)
  <2>1. CASE Rollback(j)
    BY <2>1, RollbackIInv
  <2>2. CASE ~Rollback(j)
    BY <1>0, <1>3, <2>2
    DEF CheckTotal, locals, IInv, TypeOK, ControlOK, Labels, TransferLabels
  <2> QED
    BY <2>1, <2>2
<1>4. CASE SelectHolds(j)
  <2>1. CASE Rollback(j)
    BY <2>1, RollbackIInv
  <2>2. CASE ~Rollback(j)
    BY <1>0, <1>4, <2>2
    DEF SelectHolds, HoldsOf, IInv, TypeOK, ControlOK, Labels, TransferLabels
  <2> QED
    BY <2>1, <2>2
<1>5. CASE ReadFrom(j)
  <2>1. Cash(j, User(j)) \in Int
    BY <1>r, CashType
  <2> QED
    BY <1>0, <1>5, <2>1
    DEF ReadFrom, IInv, TypeOK, ControlOK, Labels, TransferLabels
<1>6. CASE NoCashBack(j)
  BY <1>0, <1>6 DEF NoCashBack, locals, IInv, TypeOK, Labels, TransferLabels
<1>7. CASE SelectExpired(j)
  BY <1>0, <1>7 DEF SelectExpired, locals, IInv, TypeOK, Labels, TransferLabels
<1>8. CASE UnholdDone(j)
  BY <1>0, <1>8 DEF UnholdDone, locals, IInv, TypeOK, Labels, TransferLabels
<1>9. CASE Commit(j)
  <2> USE <1>9 DEF Commit, UnlockAll, IInv, inserted
  <2>1. /\ \A f \in Funds : Cash(j, f) \in Nat
        /\ \A h \in HoldIds : Hold(j, h) \in HoldRow \cup {NoHold}
    BY DEF Cash, Hold, TypeOK, NoOverdraft
  <2>2. TypeOK'
    BY <2>1 DEF TypeOK, Labels, Finished
  <2>3. NoOverdraft'
    BY <2>1 DEF NoOverdraft
  <2>4. ControlOK'
    BY DEF TypeOK, ControlOK, TransferLabels, Amount
  <2> QED
    BY <2>2, <2>3, <2>4
<1> QED
  BY <1>1, <1>2, <1>3, <1>4, <1>5, <1>6, <1>7, <1>8, <1>9

LEMMA DepositStep ==
  ASSUME IInv, NEW j \in Jobs, Deposit(j) \/ RecordDeposit(j)
  PROVE  IInv'
<1>r. /\ req[j] \in Requests /\ User(j) \in Funds
      /\ req[j].kind = "callback" /\ Amount(j) > 0 /\ Amount(j) \in Int
      /\ req[j].to \in Funds \cup {None}
  BY RequestFacts DEF IInv, TypeOK, ControlOK, User, Amount, Deposit, RecordDeposit, At
<1>c. Cash(j, User(j)) \in Nat
  BY <1>r, CashType
<1>1. CASE Deposit(j)
  <2>1. Cash(j, User(j)) + Amount(j) \in Nat
    BY <1>r, <1>c
  <2> QED
    BY <1>1, <1>r, <2>1, SetCashIInv DEF Deposit, IncrCash, Labels, TransferLabels
<1>2. CASE RecordDeposit(j)
  <2>1. Balance(j, User(j), Cash(j, User(j)), "DEPOSIT")
          \in [fund : Funds, type : Types, cash : Int, hold : Int]
    BY <1>r, <1>c, BalanceType DEF Types, IInv
  <2> QED
    BY <1>2, <1>r, <2>1, RecordIInv, SetsAssumption
    DEF RecordDeposit, Types, Labels, TransferLabels
<1> QED
  BY <1>1, <1>2

LEMMA LockStep ==
  ASSUME IInv, NEW j \in Jobs, LockHold(j)
  PROVE  IInv'
<1> USE DEF IInv, LockHold, committedRows, workingCash, inserted
<1>1. TypeOK'
  <2>1. PICK h \in NextToLock(j) :
          /\ want' = [want EXCEPT ![j] = @ \ {h}]
          /\ holdLock' = [holdLock EXCEPT ![h] = IF hold[h] = NoHold THEN @ ELSE j]
    OBVIOUS
  <2>2. holdLock' \in [HoldIds -> Jobs \cup {None}]
    BY <2>1 DEF TypeOK
  <2>3. want' \in [Jobs -> SUBSET HoldIds]
    BY <2>1 DEF TypeOK
  <2> QED
    BY <2>2, <2>3 DEF TypeOK
<1>2. NoOverdraft'
  BY DEF NoOverdraft
<1>3. ControlOK'
  BY DEF TypeOK, ControlOK, TransferLabels, Amount
<1> QED
  BY <1>1, <1>2, <1>3

LEMMA DeductStep ==
  ASSUME IInv, NEW j \in Jobs, Deduct(j)
  PROVE  IInv'
<1> USE DEF IInv, At, Goto, committedRows, workingCash, inserted
<1>a. Amount(j) > 0 /\ Amount(j) \in Int /\ pc[j] = "lock_holds"
  BY RequestFacts DEF Deduct, TypeOK, ControlOK, Amount
<1>1. /\ holdW' \in [HoldIds -> HoldRow \cup {NoHold}]
      /\ due' \in [Jobs -> Int]
      /\ \E label \in {"read_from", "decr_cash"} : Goto(j, label)
  <2>1. CASE Enough(j) = {}
    BY <1>a, <2>1 DEF Deduct, TypeOK
  <2>2. CASE Enough(j) # {}
    <3>1. PICK h \in Enough(j), emptied \in SUBSET (Locked(j) \ Enough(j)) :
            /\ holdW' = [g \in HoldIds |->
                 IF g \in emptied \/ (g = h /\ holdW[g].amount = Amount(j)) THEN NoHold
                 ELSE IF g = h THEN [holdW[g] EXCEPT !.amount = @ - Amount(j)]
                 ELSE holdW[g]]
            /\ Goto(j, "read_from")
            /\ UNCHANGED due
      BY <2>2 DEF Deduct
    <3>2. /\ h \in HoldIds /\ holdW[h] \in HoldRow
          /\ holdW[h].amount >= Amount(j)
      BY DEF Enough, Locked, TypeOK
    <3>3. holdW[h].amount # Amount(j) =>
            [holdW[h] EXCEPT !.amount = @ - Amount(j)] \in HoldRow
      BY <1>a, <3>2 DEF HoldRow
    <3> QED
      BY <3>1, <3>3 DEF TypeOK
  <2> QED
    BY <2>1, <2>2
<1> USE DEF Deduct
<1>2. TypeOK'
  BY <1>1 DEF TypeOK, Labels
<1>3. NoOverdraft'
  BY DEF NoOverdraft
<1>4. ControlOK'
  BY <1>1, <1>a DEF TypeOK, ControlOK, TransferLabels, Amount
<1> QED
  BY <1>2, <1>3, <1>4

LEMMA TransferStep ==
  ASSUME IInv, NEW j \in Jobs, DecrRemain(j) \/ IncrTo(j) \/ RecordTransfer(j)
  PROVE  IInv'
<1>r. /\ req[j] \in Requests /\ User(j) \in Funds
      /\ req[j].to \in Funds /\ Amount(j) \in Int
  BY RequestFacts
  DEF IInv, TypeOK, ControlOK, User, Amount, DecrRemain, IncrTo, RecordTransfer, At,
      TransferLabels
<1>c. Cash(j, req[j].to) \in Nat
  BY <1>r, CashType
<1>1. CASE DecrRemain(j)
  BY <1>1, <1>r, DecrCashIInv DEF DecrRemain, At, IInv, TypeOK, Labels
<1>2. CASE IncrTo(j)
  <2>1. Amount(j) > 0
    BY <1>2 DEF IncrTo, At, IInv, ControlOK
  <2>2. Cash(j, req[j].to) + Amount(j) \in Nat
    BY <1>r, <1>c, <2>1
  <2> QED
    BY <1>2, <1>r, <2>2, SetCashIInv DEF IncrTo, IncrCash, At, Labels, TransferLabels
<1>3. CASE RecordTransfer(j)
  <2>1. TypeOK /\ seen[j] \in Int /\ Cash(j, req[j].to) \in Int /\ "TRANSFER" \in Types
    BY <1>c DEF IInv, TypeOK, Types
  <2>2. Balance(j, req[j].to, Cash(j, req[j].to), "TRANSFER")
          \in [fund : Funds, type : Types, cash : Int, hold : Int]
    BY <1>r, <2>1, BalanceType
  <2>3. Balance(j, User(j), seen[j], "TRANSFER")
          \in [fund : Funds, type : Types, cash : Int, hold : Int]
    BY <1>r, <2>1, BalanceType
  <2> QED
    BY <1>3, <1>r, <2>2, <2>3, RecordIInv
    DEF RecordTransfer, Types, Labels, TransferLabels
<1> QED
  BY <1>1, <1>2, <1>3

LEMMA WithdrawStep ==
  ASSUME IInv, NEW j \in Jobs, Withdraw(j) \/ RecordWithdraw(j)
  PROVE  IInv'
<1>r. req[j] \in Requests /\ User(j) \in Funds /\ Amount(j) \in Int
  BY RequestFacts DEF IInv, TypeOK, User, Amount
<1>c. Cash(j, User(j)) \in Nat
  BY <1>r, CashType
<1>1. CASE Withdraw(j)
  BY <1>1, <1>r, RollbackIInv, DecrCashIInv DEF Withdraw, Labels
<1>2. CASE RecordWithdraw(j)
  <2>1. Balance(j, User(j), Cash(j, User(j)), "WITHDRAW")
          \in [fund : Funds, type : Types, cash : Int, hold : Int]
    BY <1>r, <1>c, BalanceType DEF Types, IInv
  <2> QED
    BY <1>2, <2>1, RecordIInv DEF RecordWithdraw, Types, Labels, TransferLabels
<1> QED
  BY <1>1, <1>2

LEMMA CashBackStep ==
  ASSUME IInv, NEW j \in Jobs, CashBack(j)
  PROVE  IInv'
<1>r. /\ req[j] \in Requests /\ User(j) \in Funds
      /\ Amount(j) > 0 /\ Amount(j) \in Int
  BY RequestFacts DEF IInv, TypeOK, ControlOK, User, Amount, CashBack, At
<1>1. CASE Rollback(j)
  BY <1>1, RollbackIInv
<1>2. CASE ~Rollback(j)
  <2> USE <1>2 DEF IInv, CashBack, Insert, At, Goto, committedRows, workingCash, locals
  <2> DEFINE row == [fund |-> User(j), amount |-> Amount(j), expired_at |-> now + ExpiredDays]
             entry == [Balance(j, User(j), Cash(j, User(j)), "CASHBACK")
                         EXCEPT !.hold = @ + Amount(j)]
  <2>1. row \in HoldRow
    BY <1>r, SettingsAssumption DEF HoldRow, TypeOK
  <2>2. /\ Cash(j, User(j)) \in Nat
        /\ TotalHold(j, User(j)) \in Nat
    BY <1>r, CashType, TotalHoldType
  <2>3. entry \in [fund : Funds, type : Types, cash : Int, hold : Int]
    BY <1>r, <2>2 DEF Balance, Types
  <2>4. holdW' \in [HoldIds -> HoldRow \cup {NoHold}]
    BY <2>1 DEF TypeOK
  <2>5. audit' \in [Jobs -> SUBSET [fund : Funds, type : Types, cash : Int, hold : Int]]
    BY <2>3 DEF TypeOK
  <2>6. /\ holdLock' \in [HoldIds -> Jobs \cup {None}]
        /\ rows' \in [Jobs -> SUBSET Types]
        /\ pc' \in [Jobs -> Labels]
    BY SMTT(30) DEF TypeOK, Labels, Types
  <2>9. TypeOK'
    BY <2>4, <2>5, <2>6 DEF TypeOK
  <2>7. NoOverdraft'
    BY DEF NoOverdraft
  <2>8. ControlOK'
    BY DEF TypeOK, ControlOK, TransferLabels, Amount
  <2> QED
    BY <2>7, <2>8, <2>9
<1> QED
  BY <1>1, <1>2

LEMMA UnholdStep ==
  ASSUME IInv, NEW j \in Jobs, Unhold(j)
  PROVE  IInv'
<1> USE DEF IInv, committedRows, locals, inserted
<1>1. PICK h \in Locked(j) :
        /\ IncrCash(j, holdW[h].fund, holdW[h].amount)
        /\ holdW' = [holdW EXCEPT ![h] = NoHold]
  BY DEF Unhold
<1>2. /\ h \in HoldIds /\ holdW[h] \in HoldRow
      /\ holdW[h].fund \in Funds /\ holdW[h].amount \in Nat
  BY HoldFacts DEF Locked, TypeOK
<1>3. Cash(j, holdW[h].fund) + holdW[h].amount \in Nat
  BY <1>2, CashType
<1> USE DEF Unhold
<1> DEFINE f == holdW[h].fund
           value == Cash(j, f) + holdW[h].amount
<1>4. /\ cashW' = [cashW EXCEPT ![f] = value]
      /\ cashLock' = [cashLock EXCEPT ![f] = j]
      /\ f \in Funds /\ value \in Nat
  BY <1>1, <1>2, <1>3 DEF IncrCash, SetCash
<1> HIDE DEF f, value
<1>8. holdW' \in [HoldIds -> HoldRow \cup {NoHold}]
  BY <1>1, <1>2 DEF TypeOK
<1>9. cashW' \in [Funds -> Int] /\ cashLock' \in [Funds -> Jobs \cup {None}]
  BY <1>4 DEF TypeOK
<1>5. TypeOK'
  BY <1>8, <1>9 DEF TypeOK
<1>6. NoOverdraft'
  BY <1>4 DEF TypeOK, NoOverdraft
<1>7. ControlOK'
  BY DEF TypeOK, ControlOK, TransferLabels, Amount
<1> QED
  BY <1>5, <1>6, <1>7

LEMMA TickStep ==
  ASSUME IInv, Tick
  PROVE  IInv'
<1> USE DEF IInv, Tick, workingCash, workingHold, locals, inserted
<1>1. TypeOK'
  BY DEF TypeOK
<1>2. NoOverdraft'
  BY DEF NoOverdraft
<1>3. ControlOK'
  BY DEF ControlOK, Amount
<1> QED
  BY <1>1, <1>2, <1>3

LEMMA StutterStep ==
  ASSUME IInv, UNCHANGED vars
  PROVE  IInv'
<1> USE DEF IInv, vars
<1>1. TypeOK'
  BY DEF TypeOK
<1>2. NoOverdraft'
  BY DEF NoOverdraft
<1>3. ControlOK'
  BY DEF ControlOK, Amount
<1> QED
  BY <1>1, <1>2, <1>3

\* IInv is inductive.
THEOREM Invariance == Spec => []IInv
<1>1. IInv /\ [Next]_vars => IInv'
  <2> SUFFICES ASSUME IInv, [Next]_vars PROVE IInv'
    OBVIOUS
  <2>1. CASE UNCHANGED vars
    BY <2>1, StutterStep
  <2>2. CASE Tick
    BY <2>2, TickStep
  <2>3. ASSUME NEW j \in Jobs, Begin(j) \/ Step(j) \/ Crash(j)
        PROVE  IInv'
    <3>1. CASE Rollback(j)
      BY <3>1, RollbackIInv
    <3>2. CASE ~Rollback(j)
      BY <2>3, <3>2, ControlStep, DepositStep, LockStep, DeductStep, TransferStep,
         WithdrawStep, CashBackStep, UnholdStep
      DEF Step, Crash, DeadlockVictim
    <3> QED
      BY <3>1, <3>2
  <2> QED
    BY <2>1, <2>2, <2>3 DEF Next, Terminating
<1> QED
  BY <1>1, InitIInv, PTL DEF Spec

\* Whatever the number of funds, holds and concurrent transactions, every variable keeps
\* its type and no hold is left empty.
THEOREM TypeCorrect == Spec => []TypeOK
<1>1. IInv => TypeOK
  BY DEF IInv
<1> QED
  BY <1>1, Invariance, PTL

\* No interleaving of any number of transactions overdraws a fund.
THEOREM NeverOverdrawn == Spec => []NoOverdraft
<1>1. IInv => NoOverdraft
  BY DEF IInv
<1> QED
  BY <1>1, Invariance, PTL
-----------------------------------------------------------------------------
(* The callbacks.                                                          *)

Deposited(j) == req[j].kind = "callback" /\ Active(j) /\ pc[j] # "deposit"

\* Where the deposit has not been spent yet.
Unspent == {"deposit_row", "read_cash", "check_total", "select_holds", "lock_holds",
            "decr_cash"}

CallbackJob(j) ==
  /\ pc[j] \in {"idle", "deposit", "aborted"} => rows[j] = {}
  /\ "DEPOSIT" \in rows[j] => req[j].kind = "callback"
  /\ Deposited(j) => cashLock[User(j)] = j
  /\ Deposited(j) /\ pc[j] \in Unspent => cashW[User(j)] >= Amount(j)
  /\ Deposited(j) /\ pc[j] = "check_total" => seen[j] >= Amount(j)
  /\ pc[j] = "decr_cash" => due[j] = Amount(j)

\* No two jobs have inserted the deposit of one order, whether they have committed or not.
DepositsUnique ==
  \A j, k \in Jobs :
    j # k /\ "DEPOSIT" \in rows[j] /\ "DEPOSIT" \in rows[k] => req[j].order # req[k].order

CallbackInv == IInv /\ (\A j \in Jobs : CallbackJob(j)) /\ DepositsUnique

\* A job leaves the others and the funds they have locked alone.
LeavesOthers(j) ==
  /\ UNCHANGED req
  /\ \A k \in Jobs \ {j} :
       /\ pc'[k] = pc[k] /\ rows'[k] = rows[k] /\ seen'[k] = seen[k] /\ due'[k] = due[k]
       /\ \A f \in Funds : cashLock[f] = k => cashLock'[f] = k /\ cashW'[f] = cashW[f]

LEMMA OthersFrame ==
  ASSUME IInv, NEW j \in Jobs, LeavesOthers(j), NEW k \in Jobs \ {j}, CallbackJob(k)
  PROVE  CallbackJob(k)'
<1>1. User(k) \in Funds /\ User(k)' = User(k) /\ Amount(k)' = Amount(k)
  BY RequestFacts DEF IInv, TypeOK, User, Amount, LeavesOthers
<1>2. Deposited(k)' => Deposited(k)
  BY DEF Deposited, Active, LeavesOthers
<1> QED
  BY <1>1, <1>2 DEF CallbackJob, LeavesOthers

LEMMA RollbackLeaves ==
  ASSUME IInv, NEW j \in Jobs, Rollback(j)
  PROVE  LeavesOthers(j)
BY SetsAssumption DEF IInv, TypeOK, LeavesOthers, Rollback, UnlockAll, Goto, inserted

\* Past the statements that lock nothing and those that lock a fund that is free.
LEMMA QuietLeaves ==
  ASSUME IInv, NEW j \in Jobs, UNCHANGED <<workingCash, req, inserted>>,
         \/ UNCHANGED pc
         \/ \E l \in Labels : Goto(j, l),
         \/ UNCHANGED <<seen, due>>
         \/ \E v \in Int : seen' = [seen EXCEPT ![j] = v] /\ UNCHANGED due
         \/ \E v \in Int : due' = [due EXCEPT ![j] = v] /\ UNCHANGED seen
  PROVE  LeavesOthers(j)
BY DEF IInv, TypeOK, LeavesOthers, Goto, workingCash, inserted

LEMMA SetCashLeaves ==
  ASSUME IInv, NEW j \in Jobs, NEW f \in Funds, NEW v, CashFree(j, f), SetCash(j, f, v),
         UNCHANGED <<req, inserted, seen, due>>,
         \/ UNCHANGED pc
         \/ \E l \in Labels : Goto(j, l)
  PROVE  LeavesOthers(j)
BY SetsAssumption DEF IInv, TypeOK, LeavesOthers, Goto, CashFree, SetCash, inserted

LEMMA RecordLeaves ==
  ASSUME IInv, NEW j \in Jobs, NEW type, NEW entries, NEW l \in Labels,
         Record(j, type, entries, l)
  PROVE  LeavesOthers(j)
<1>1. CASE Rollback(j)
  BY <1>1, RollbackLeaves
<1>2. CASE ~Rollback(j)
  BY <1>2 DEF Record, Insert, IInv, TypeOK, LeavesOthers, Goto, workingCash, locals
<1> QED
  BY <1>1, <1>2

-----------------------------------------------------------------------------
(* What a step does to the job itself.                                     *)

\* A step of j that inserts no deposit keeps the invariant if it keeps what is said of j.
Own(j) == /\ LeavesOthers(j) /\ CallbackJob(j)'
          /\ "DEPOSIT" \in rows'[j] => "DEPOSIT" \in rows[j]

LEMMA OwnKeeps ==
  ASSUME CallbackInv, NEW j \in Jobs, Own(j)
  PROVE  (\A k \in Jobs : CallbackJob(k)') /\ DepositsUnique'
<1>1. ASSUME NEW k \in Jobs \ {j}
      PROVE  CallbackJob(k)'
  BY <1>1, OthersFrame DEF CallbackInv, Own
<1>2. CallbackJob(j)'
  BY DEF Own
<1>3. \A k \in Jobs : "DEPOSIT" \in rows'[k] => "DEPOSIT" \in rows[k]
  BY DEF Own, LeavesOthers
<1>4. DepositsUnique'
  BY <1>3 DEF CallbackInv, DepositsUnique, Own, LeavesOthers
<1> QED
  BY <1>1, <1>2, <1>4

LEMMA RollbackOwn ==
  ASSUME CallbackInv, NEW j \in Jobs, Rollback(j)
  PROVE  Own(j)
<1>1. pc'[j] = "aborted" /\ rows'[j] = {} /\ UNCHANGED req
  BY DEF Rollback, Goto, CallbackInv, IInv, TypeOK
<1>2. ~Deposited(j)'
  BY <1>1 DEF Deposited, Active, Finished
<1> QED
  BY <1>1, <1>2, RollbackLeaves DEF Own, CallbackJob, CallbackInv

\* The job goes on from where it is to l and touches no fund and no FundTransfer row.
LEMMA QuietOwn ==
  ASSUME CallbackInv, NEW j \in Jobs, UNCHANGED <<workingCash, req, inserted, seen>>,
         NEW l \in Labels, Goto(j, l),
         UNCHANGED due \/ due' = [due EXCEPT ![j] = Amount(j)],
         l = "decr_cash" => due' = [due EXCEPT ![j] = Amount(j)],
         l \notin {"idle", "deposit", "aborted", "deposit_row", "check_total"},
         pc[j] \notin {"idle", "deposit"} \cup Finished,
         l \in Unspent => pc[j] \in Unspent
  PROVE  Own(j)
<1>1. /\ pc'[j] = l /\ rows'[j] = rows[j]
      /\ due' = [due EXCEPT ![j] = Amount(j)] => due'[j] = Amount(j)
  BY DEF CallbackInv, IInv, TypeOK, Goto, inserted
<1>2. Amount(j) \in Int
  BY RequestFacts DEF CallbackInv, IInv, TypeOK, Amount
<1>3. LeavesOthers(j)
  BY <1>2, QuietLeaves DEF CallbackInv
<1>4. Deposited(j)' => Deposited(j)
  BY DEF Deposited, Active, Finished
<1> QED
  BY <1>1, <1>3, <1>4 DEF Own, CallbackInv, CallbackJob, User, Amount, workingCash

LEMMA BeginOwn ==
  ASSUME CallbackInv, NEW j \in Jobs, Begin(j)
  PROVE  Own(j)
<1> DEFINE l == Entry[req[j].kind]
<1>1. UNCHANGED <<workingCash, req, inserted, seen, due>> /\ pc[j] = "idle" /\ Goto(j, l)
  BY DEF Begin, locals, At
<1>2. /\ req[j].kind \in {"callback", "transfer", "withdraw", "expired_unhold"}
      /\ req[j].kind = "callback" => l = "deposit"
      /\ l \in Labels /\ l \notin {"decr_cash"} \cup Finished
  BY RequestFacts DEF CallbackInv, IInv, TypeOK, Entry, Labels, Finished
<1> HIDE DEF l
<1>3. pc'[j] = l /\ rows'[j] = {}
  BY <1>1 DEF CallbackInv, CallbackJob, IInv, TypeOK, Goto, inserted
<1>4. LeavesOthers(j)
  BY <1>1, <1>2, QuietLeaves DEF CallbackInv
<1>5. ~Deposited(j)'
  BY <1>1, <1>2, <1>3 DEF Deposited
<1> QED
  BY <1>2, <1>3, <1>4, <1>5 DEF Own, CallbackJob

LEMMA DepositOwn ==
  ASSUME CallbackInv, NEW j \in Jobs, Deposit(j)
  PROVE  Own(j)
<1>1. /\ User(j) \in Funds /\ Cash(j, User(j)) \in Nat /\ Amount(j) \in Int
      /\ pc[j] = "deposit"
  BY RequestFacts, CashType DEF CallbackInv, IInv, TypeOK, User, Amount, Deposit, At
<1>2. /\ CashFree(j, User(j)) /\ SetCash(j, User(j), Cash(j, User(j)) + Amount(j))
      /\ UNCHANGED <<req, inserted, seen, due, rows>> /\ Goto(j, "deposit_row")
  BY DEF Deposit, IncrCash, locals, inserted
<1>3. "deposit_row" \in Labels
  BY DEF Labels
<1>4. LeavesOthers(j)
  BY <1>1, <1>2, <1>3, SetCashLeaves DEF CallbackInv
<1>5. /\ cashLock'[User(j)] = j /\ cashW'[User(j)] >= Amount(j)
      /\ pc'[j] = "deposit_row" /\ rows'[j] = {}
  BY <1>1, <1>2 DEF SetCash, Goto, CallbackInv, CallbackJob, IInv, TypeOK
<1> QED
  BY <1>2, <1>4, <1>5 DEF Own, CallbackJob, User, Amount

\* Cash is read, or is written and its fund locked, elsewhere.
LEMMA ReadOwn ==
  ASSUME CallbackInv, NEW j \in Jobs, ReadCash(j) \/ ReadFrom(j)
  PROVE  Own(j)
<1>1. /\ User(j) \in Funds /\ Cash(j, User(j)) \in Int
  BY RequestFacts, CashType DEF CallbackInv, IInv, TypeOK, User
<1>2. /\ UNCHANGED <<workingCash, req, inserted, due, rows, cashLock, cashW>>
      /\ seen' = [seen EXCEPT ![j] = Cash(j, User(j))]
      /\ \/ pc[j] = "read_cash" /\ Goto(j, "check_total")
         \/ pc[j] = "read_from" /\ Goto(j, "incr_to")
  BY DEF ReadCash, ReadFrom, At, inserted, workingCash
<1>3. "check_total" \in Labels /\ "incr_to" \in Labels
  BY DEF Labels
<1>4. LeavesOthers(j)
  BY <1>1, <1>2, <1>3, QuietLeaves DEF CallbackInv
<1>5. /\ seen'[j] = Cash(j, User(j))
      /\ \/ pc[j] = "read_cash" /\ pc'[j] = "check_total"
         \/ pc[j] = "read_from" /\ pc'[j] = "incr_to"
  BY <1>2 DEF CallbackInv, IInv, TypeOK, Goto
<1>6. Deposited(j)' => Deposited(j)
  BY <1>2, <1>5 DEF Deposited, Active, Finished
<1> QED
  BY <1>2, <1>4, <1>5, <1>6
     DEF Own, CallbackInv, CallbackJob, User, Amount, Cash, Unspent

LEMMA GoOwn ==
  ASSUME CallbackInv, NEW j \in Jobs, ~Rollback(j),
         \/ CheckTotal(j) \/ SelectHolds(j) \/ Deduct(j) \/ NoCashBack(j)
         \/ SelectExpired(j) \/ UnholdDone(j)
  PROVE  Own(j)
<1> USE DEF At, Labels, Finished, Unspent, inserted, locals
<1>1. CASE CheckTotal(j)
  BY <1>1, QuietOwn DEF CheckTotal
<1>2. CASE SelectHolds(j)
  BY <1>2, QuietOwn DEF SelectHolds
<1>3. CASE Deduct(j)
  <2>1. /\ UNCHANGED <<workingCash, req, inserted, seen>> /\ pc[j] = "lock_holds"
        /\ \/ Goto(j, "read_from") /\ UNCHANGED due
           \/ Goto(j, "decr_cash") /\ due' = [due EXCEPT ![j] = Amount(j)]
    BY <1>3 DEF Deduct
  <2> QED
    BY <2>1, QuietOwn
<1>4. CASE NoCashBack(j)
  BY <1>4, QuietOwn DEF NoCashBack
<1>5. CASE SelectExpired(j)
  BY <1>5, QuietOwn DEF SelectExpired
<1>6. CASE UnholdDone(j)
  BY <1>6, QuietOwn DEF UnholdDone
<1> QED
  BY <1>1, <1>2, <1>3, <1>4, <1>5, <1>6

LEMMA LockOwn ==
  ASSUME CallbackInv, NEW j \in Jobs, LockHold(j)
  PROVE  Own(j)
<1>1. UNCHANGED <<workingCash, pc, req, inserted, seen, due, rows, cashW, cashLock>>
  BY DEF LockHold, inserted, workingCash
<1>2. LeavesOthers(j)
  BY <1>1, QuietLeaves DEF CallbackInv
<1> QED
  BY <1>1, <1>2 DEF Own, CallbackInv, CallbackJob, Deposited, Active, User, Amount

\* Spending, and what the payee or the release of a hold gets.
LEMMA WriteOwn ==
  ASSUME CallbackInv, NEW j \in Jobs, NEW f \in Funds, NEW v,
         CashFree(j, f), SetCash(j, f, v), UNCHANGED <<req, inserted, seen, due>>,
         NEW l \in Labels,
         \/ Goto(j, l) /\ pc[j] \notin {"idle", "deposit"} \cup Finished
         \/ UNCHANGED pc /\ l = pc[j] /\ pc[j] = "lock_expired"
         \/ Goto(j, l) /\ pc[j] = "withdraw",
         l \notin Unspent \cup Finished \cup {"idle", "deposit"}
  PROVE  Own(j)
<1>1. LeavesOthers(j)
  BY SetCashLeaves DEF CallbackInv
<1>2. /\ pc'[j] = l /\ pc[j] \notin {"idle", "deposit"} \cup Finished
      /\ rows'[j] = rows[j] /\ UNCHANGED req
      /\ \A g \in Funds : cashLock[g] = j => cashLock'[g] = j
  BY DEF CallbackInv, IInv, TypeOK, Goto, SetCash, inserted, Finished
<1>3. Deposited(j)' => Deposited(j)
  BY <1>2 DEF Deposited, Active
<1>4. User(j) \in Funds
  BY RequestFacts DEF CallbackInv, IInv, TypeOK, User
<1>5. /\ pc'[j] \notin Unspent /\ pc'[j] \notin {"idle", "deposit", "aborted"}
      /\ pc'[j] # "check_total" /\ pc'[j] # "decr_cash"
  BY <1>2 DEF Unspent, Finished
<1> QED
  BY <1>1, <1>2, <1>3, <1>4, <1>5 DEF Own, CallbackInv, CallbackJob, User

LEMMA SpendOwn ==
  ASSUME CallbackInv, NEW j \in Jobs, ~Rollback(j),
         DecrRemain(j) \/ IncrTo(j) \/ Withdraw(j) \/ Unhold(j)
  PROVE  Own(j)
<1>r. User(j) \in Funds
  BY RequestFacts DEF CallbackInv, IInv, TypeOK, User
<1> USE DEF At, Labels, Finished, Unspent, inserted, locals
<1>1. CASE DecrRemain(j)
  BY <1>1, <1>r, WriteOwn DEF DecrRemain, DecrCash
<1>2. CASE IncrTo(j)
  <2>1. req[j].to \in Funds
    BY <1>2 DEF IncrTo, CallbackInv, IInv, ControlOK, TransferLabels
  <2> QED
    BY <1>2, <2>1, WriteOwn DEF IncrTo, IncrCash
<1>3. CASE Withdraw(j)
  BY <1>3, <1>r, WriteOwn DEF Withdraw, DecrCash
<1>4. CASE Unhold(j)
  <2>1. PICK h \in Locked(j) : IncrCash(j, holdW[h].fund, holdW[h].amount)
    BY <1>4 DEF Unhold
  <2>2. holdW[h].fund \in Funds
    BY HoldFacts DEF Locked, CallbackInv, IInv, TypeOK
  <2> QED
    BY <1>4, <2>1, <2>2, WriteOwn DEF Unhold, IncrCash
<1> QED
  BY <1>1, <1>2, <1>3, <1>4

LEMMA CommitOwn ==
  ASSUME CallbackInv, NEW j \in Jobs, Commit(j)
  PROVE  Own(j)
<1>1. /\ pc'[j] = "committed" /\ UNCHANGED <<req, rows>> /\ pc[j] = "commit"
  BY DEF Commit, Goto, CallbackInv, IInv, TypeOK, inserted
<1>2. LeavesOthers(j)
  BY SetsAssumption
     DEF Commit, UnlockAll, Goto, LeavesOthers, CallbackInv, IInv, TypeOK, inserted
<1>3. ~Deposited(j)'
  BY <1>1 DEF Deposited, Active, Finished
<1> QED
  BY <1>1, <1>2, <1>3 DEF Own, CallbackInv, CallbackJob

\* A FundTransfer row of another type, behind the deposit.
LEMMA RowOwn ==
  ASSUME CallbackInv, NEW j \in Jobs, NEW type \in Types \ {"DEPOSIT"},
         UNCHANGED <<workingCash, req, seen, due>>,
         rows' = [rows EXCEPT ![j] = @ \cup {type}],
         NEW l \in {"cash_back", "commit"}, Goto(j, l),
         pc[j] \in {"transfer_row", "withdraw_row", "cash_back"}
  PROVE  Own(j)
<1>1. /\ pc'[j] = l /\ rows'[j] = rows[j] \cup {type}
      /\ \A k \in Jobs \ {j} : rows'[k] = rows[k] /\ pc'[k] = pc[k]
  BY DEF CallbackInv, IInv, TypeOK, Goto
<1>2. LeavesOthers(j)
  BY <1>1 DEF LeavesOthers, workingCash
<1>3. Deposited(j)' => Deposited(j)
  BY DEF Deposited, Active, Finished
<1> QED
  BY <1>1, <1>2, <1>3 DEF Own, CallbackInv, CallbackJob, User, Unspent, workingCash

LEMMA RowsOwn ==
  ASSUME CallbackInv, NEW j \in Jobs, ~Rollback(j),
         RecordTransfer(j) \/ RecordWithdraw(j) \/ CashBack(j)
  PROVE  Own(j)
<1> USE DEF At, Types, locals
<1>1. CASE RecordTransfer(j)
  BY <1>1, RowOwn DEF RecordTransfer, Record, Insert
<1>2. CASE RecordWithdraw(j)
  BY <1>2, RowOwn DEF RecordWithdraw, Record, Insert
<1>3. CASE CashBack(j)
  BY <1>3, RowOwn DEF CashBack, Insert
<1> QED
  BY <1>1, <1>2, <1>3

\* The deposit's row.  One that has committed would be a Duplicate, and one that may still
\* roll back would be waited for.
LEMMA RecordDepositKeeps ==
  ASSUME CallbackInv, NEW j \in Jobs, ~Rollback(j), RecordDeposit(j)
  PROVE  (\A k \in Jobs : CallbackJob(k)') /\ DepositsUnique'
<1> DEFINE l == IF req[j].to = None THEN "cash_back" ELSE "read_cash"
<1>1. /\ pc[j] = "deposit_row" /\ Goto(j, l)
      /\ ~Duplicate(j, "DEPOSIT") /\ Inserters(j, "DEPOSIT") = {}
      /\ rows' = [rows EXCEPT ![j] = @ \cup {"DEPOSIT"}]
      /\ UNCHANGED <<workingCash, req, seen, due, cashW, cashLock>>
  BY DEF RecordDeposit, Record, Insert, At, locals, workingCash
<1>2. /\ pc'[j] = l /\ rows'[j] = rows[j] \cup {"DEPOSIT"}
      /\ \A k \in Jobs \ {j} : rows'[k] = rows[k] /\ pc'[k] = pc[k]
  BY <1>1 DEF CallbackInv, IInv, TypeOK, Goto
<1>3. LeavesOthers(j)
  BY <1>1, <1>2 DEF LeavesOthers
<1>4. req[j].kind = "callback" /\ Deposited(j)
  BY <1>1 DEF CallbackInv, IInv, ControlOK, Deposited, Active, Finished
<1>5. CallbackJob(j)'
  BY <1>1, <1>2, <1>4 DEF CallbackInv, CallbackJob, User, Amount, Unspent
<1>6. ASSUME NEW k \in Jobs \ {j}
      PROVE  CallbackJob(k)'
  BY <1>3, OthersFrame DEF CallbackInv
<1>7. ASSUME NEW k \in Jobs \ {j}, "DEPOSIT" \in rows[k]
      PROVE  req[k].order # req[j].order
  <2>1. /\ req[k].kind = "callback" /\ pc[k] \notin {"idle", "deposit", "aborted"}
        /\ req[k].order # None /\ req[k] \in Requests /\ req[j] \in Requests
    BY <1>7, RequestsAssumption DEF CallbackInv, CallbackJob, IInv, TypeOK
  <2>2. CASE pc[k] = "committed"
    BY <1>1, <1>7, <2>1, <2>2 DEF Duplicate
  <2>3. CASE pc[k] # "committed"
    BY <1>1, <1>7, <2>1, <2>3 DEF Inserters, Active, Finished
  <2> QED
    BY <2>2, <2>3
<1>8. DepositsUnique'
  BY <1>1, <1>2, <1>7 DEF CallbackInv, DepositsUnique
<1> QED
  BY <1>5, <1>6, <1>8
-----------------------------------------------------------------------------
(* The invariant, and what follows.                                        *)

LEMMA CallbackInit == Init => CallbackInv
<1> SUFFICES ASSUME Init
             PROVE  CallbackInv
  OBVIOUS
<1>1. \A j \in Jobs : CallbackJob(j)
  BY DEF Init, CallbackJob, Deposited, Active
<1>2. DepositsUnique
  BY DEF Init, DepositsUnique
<1> QED
  BY <1>1, <1>2, InitIInv DEF CallbackInv

LEMMA CallbackStill ==
  ASSUME CallbackInv, UNCHANGED <<pc, req, rows, seen, due, cashW, cashLock>>
  PROVE  (\A k \in Jobs : CallbackJob(k)') /\ DepositsUnique'
BY DEF CallbackInv, CallbackJob, Deposited, Active, DepositsUnique, User, Amount

LEMMA CallbackNext ==
  ASSUME CallbackInv, [Next]_vars
  PROVE  (\A k \in Jobs : CallbackJob(k)') /\ DepositsUnique'
<1>1. CASE Tick \/ UNCHANGED vars
  BY <1>1, CallbackStill DEF Tick, vars, workingCash, inserted, locals
<1>2. ASSUME NEW j \in Jobs, Begin(j) \/ Step(j) \/ Crash(j)
      PROVE  (\A k \in Jobs : CallbackJob(k)') /\ DepositsUnique'
  <2>1. CASE Rollback(j)
    BY <2>1, RollbackOwn, OwnKeeps
  <2>2. CASE RecordDeposit(j) /\ ~Rollback(j)
    BY <2>2, RecordDepositKeeps
  <2>3. CASE ~RecordDeposit(j) /\ ~Rollback(j)
    BY <1>2, <2>3, BeginOwn, DepositOwn, ReadOwn, GoOwn, LockOwn, SpendOwn, RowsOwn,
       CommitOwn, OwnKeeps
       DEF Step, Crash, DeadlockVictim
  <2> QED
    BY <2>1, <2>2, <2>3
<1> QED
  BY <1>1, <1>2 DEF Next, Terminating

\* CallbackInv is inductive, together with the wallet's own invariant.
THEOREM CallbackInvariance == Spec => []CallbackInv
<1>1. CallbackInv /\ [Next]_vars /\ IInv' => CallbackInv'
  BY CallbackNext DEF CallbackInv
<1> QED
  BY <1>1, CallbackInit, Invariance, PTL DEF Spec

\* Two deliveries of an order never both commit a deposit.
THEOREM CreditedOnce == Spec => []OrderCreditedOnce
<1>1. CallbackInv => OrderCreditedOnce
  BY DEF CallbackInv, DepositsUnique, OrderCreditedOnce, Committed
<1> QED
  BY <1>1, CallbackInvariance, PTL

\* The purchase of a customer who has paid for it is never short of money.
THEOREM FundedPurchases == Spec => []PurchaseFunded
<1>1. ASSUME CallbackInv, NEW j \in Jobs, req[j].kind = "callback"
      PROVE  /\ At(j, "check_total") => seen[j] + TotalHold(j, User(j)) >= Amount(j)
             /\ At(j, "decr_cash") => Cash(j, User(j)) >= due[j]
  <2>1. TotalHold(j, User(j)) \in Nat
    BY <1>1, TotalHoldType DEF CallbackInv, IInv
  <2>4. seen[j] \in Int /\ Amount(j) \in Int
    BY <1>1, RequestFacts DEF CallbackInv, IInv, TypeOK, Amount
  <2>2. At(j, "check_total") => seen[j] >= Amount(j)
    BY <1>1 DEF At, CallbackInv, CallbackJob, Deposited, Active, Finished
  <2>3. At(j, "decr_cash") => Cash(j, User(j)) >= due[j]
    BY <1>1 DEF At, CallbackInv, CallbackJob, Deposited, Active, Finished, Unspent, Cash
  <2> QED
    BY <2>1, <2>2, <2>3, <2>4
<1>2. CallbackInv => PurchaseFunded
  BY <1>1 DEF PurchaseFunded
<1> QED
  BY <1>2, CallbackInvariance, PTL
=============================================================================
