---------------------------- MODULE LedgerProofs ----------------------------
(***************************************************************************)
(* The interleaved transactions implement Ledger, which serves every       *)
(* request in one step, for any number of jobs, funds and holds.           *)
(*                                                                         *)
(* The invariant says of each running job what it has done by now, as the  *)
(* difference between what it sees and what is committed, row by row.  A   *)
(* row in which the two differ is locked by the job, and so nobody else    *)
(* changes its committed version; any other row differs in nothing before  *)
(* and after somebody commits.  Hence a job's difference is its own, and   *)
(* when it commits, it is the whole of what the ledger's step does.        *)
(***************************************************************************)
EXTENDS SupplyProofs

\* The job pays somebody, if it comes to that.
IsPayment(j) == req[j].kind \in {"callback", "transfer"} /\ req[j].to # None

\* The payee has been given the amount, as the job sees it; the payer has spent it; and the
\* fund has been debited for a withdrawal.
Given(j) == pc[j] = "transfer_row" \/ (pc[j] \in {"cash_back", "commit"} /\ IsPayment(j))
Spent(j) == pc[j] \in {"read_from", "incr_to"} \/ Given(j)
Withdrawn(j) == req[j].kind = "withdraw" /\ pc[j] \in {"withdraw_row", "commit"}

\* Where the holds may differ from the committed ones.
Touches(j) == pc[j] = "decr_cash" \/ Spent(j) \/ req[j].kind = "expired_unhold"

KindOK(j) ==
  /\ pc[j] \in TransferLabels => IsPayment(j)
  /\ pc[j] \in {"withdraw", "withdraw_row"} => req[j].kind = "withdraw"
  /\ pc[j] \in {"select_expired", "lock_expired"} => req[j].kind = "expired_unhold"
  /\ Spent(j) \/ Withdrawn(j) => Amount(j) > 0

\* The holds that the job is after.
Eligible(j, h) ==
  IF req[j].kind = "expired_unhold" THEN hold[h].expired_at <= now
                                    ELSE hold[h].fund = User(j)

WantOK(j) ==
  pc[j] \in {"lock_holds", "lock_expired"} =>
    \A h \in want[j] : /\ h \in Jobs => pc[h] = "committed"
                       /\ hold[h] = NoHold \/ Eligible(j, h)

\* A hold that the job sees is as committed, deleted or, by a payment, reduced.
Reduced(row) == {[row EXCEPT !.amount = m] : m \in 1..row.amount}

HoldOK(j, h) ==
  /\ holdLock[h] = j => hold[h] # NoHold /\ Eligible(j, h)
  /\ \/ Hold(j, h) \in {hold[h], NoHold}
     \/ req[j].kind # "expired_unhold" /\ Hold(j, h) \in Reduced(hold[h])
  /\ Touches(j) \/ Hold(j, h) = hold[h]

\* The job's cash back: the hold that has the job's name.
BackRow(j, t) == [fund |-> User(j), amount |-> Amount(j), expired_at |-> t + ExpiredDays]

BackOK(j) ==
  IF "CASHBACK" \in rows[j]
  THEN Amount(j) >= Threshold /\ \E t \in 0..now : Hold(j, j) = BackRow(j, t)
  ELSE /\ holdLock[j] # j
       /\ pc[j] = "commit" /\ req[j].kind = "callback" => Amount(j) < Threshold

\* One hold has paid for all of it.
HoldPaid(j) ==
  \E h \in HoldIds : hold[h].fund = User(j) /\ Hold(j, h).amount + Amount(j) <= hold[h].amount

\* What a payment or a withdrawal has added up to in a fund: the amount that came in and was
\* passed on, less what was paid out of cash.
Moves(j, f, paid) ==
  If(f = User(j) /\ Deposited(j), Amount(j))
  + If(f = req[j].to /\ Given(j), Amount(j)) - If(f = User(j), paid)

CashMoved(j, paid) == \A f \in Funds : Cash(j, f) = cash[f] + Moves(j, f, paid)

PaymentOK(j) ==
  \E paid \in {0, Amount(j)} :
    /\ CashMoved(j, paid)
    /\ Spent(j) \/ Withdrawn(j) \/ paid = 0
    /\ Withdrawn(j) => paid = Amount(j)
    /\ Spent(j) => paid = Amount(j) \/ HoldPaid(j)

\* The holds of f that the job has released.
Freed(j, f) ==
  [h \in HoldIds |-> If(hold[h].fund = f /\ Hold(j, h) = NoHold, hold[h].amount)]

ReleaseOK(j) == \A f \in Funds : Cash(j, f) = cash[f] + Total(HoldIds, Freed(j, f))

LedgerJob(j) ==
  Active(j) =>
    /\ KindOK(j) /\ WantOK(j) /\ BackOK(j)
    /\ \A h \in HoldIds \ {j} : HoldOK(j, h)
    /\ IF req[j].kind = "expired_unhold" THEN ReleaseOK(j) ELSE PaymentOK(j)

LedgerInv == SupplyInv /\ \A j \in Jobs : LedgerJob(j)
-----------------------------------------------------------------------------
(* What the steps of others do to what is said of a job.                   *)

LEMMA NoHoldFacts ==
  /\ NoHold.fund = None /\ NoHold.amount = 0 /\ NoHold.expired_at = 0
  /\ None \notin Funds /\ \A r \in HoldRow : r.fund \in Funds
BY SetsAssumption DEF NoHold, HoldRow

\* A reduced row differs from the row in its amount.
LEMMA ReducedFacts ==
  ASSUME NEW row \in HoldRow \cup {NoHold}, NEW r \in Reduced(row)
  PROVE  /\ r.fund = row.fund /\ r.expired_at = row.expired_at
         /\ r.amount \in 1..row.amount /\ row # NoHold /\ r # NoHold
<1>1. PICK m \in 1..row.amount : r = [row EXCEPT !.amount = m]
  BY DEF Reduced
<1>2. row.amount \in Nat /\ row.amount >= 1
  BY HoldFacts
<1>3. row # NoHold /\ row \in HoldRow
  BY <1>2, NoHoldFacts
<1>4. r.fund = row.fund /\ r.expired_at = row.expired_at /\ r.amount = m
  BY <1>1, <1>3 DEF HoldRow
<1>5. row.fund # None
  BY <1>3, NoHoldFacts
<1> QED
  BY <1>3, <1>4, <1>5, NoHoldFacts

\* Two versions of a ledger's rows, of which the job sees the same difference.
Alike(k) ==
  /\ \A f \in Funds : \/ Cash(k, f)' = Cash(k, f) /\ cash'[f] = cash[f]
                      \/ Cash(k, f)' = cash'[f] /\ Cash(k, f) = cash[f]
  /\ \A h \in HoldIds : \/ Hold(k, h)' = Hold(k, h) /\ hold'[h] = hold[h]
                        \/ Hold(k, h)' = hold'[h] /\ Hold(k, h) = hold[h]
  /\ \A h \in HoldIds : holdLock'[h] = k => holdLock[h] = k /\ hold'[h] = hold[h]

\* The step of another job leaves this one alone, and changes holds as a step of the
\* ledger may.
Beside(k) ==
  /\ pc'[k] = pc[k] /\ rows'[k] = rows[k] /\ want'[k] = want[k] /\ UNCHANGED req
  /\ now' \in Nat /\ now' >= now
  /\ \A i \in Jobs : pc[i] = "committed" => pc'[i] = "committed"
  /\ \A h \in HoldIds : (h \in Jobs => pc[h] = "committed") =>
       hold'[h] \in {hold[h], NoHold} \cup Reduced(hold[h])

LEMMA SameOf ==
  ASSUME NEW k \in Jobs, Beside(k)
  PROVE  /\ Active(k)' = Active(k) /\ Deposited(k)' = Deposited(k)
         /\ Given(k)' = Given(k) /\ Spent(k)' = Spent(k) /\ Withdrawn(k)' = Withdrawn(k)
         /\ Touches(k)' = Touches(k) /\ User(k)' = User(k) /\ Amount(k)' = Amount(k)
         /\ KindOK(k) => KindOK(k)'
BY DEF Beside, Active, Deposited, Given, Spent, Withdrawn, Touches, User, Amount, IsPayment,
   KindOK

LEMMA HoldTypes ==
  ASSUME IInv
  PROVE  /\ \A h \in HoldIds : hold[h] \in HoldRow \cup {NoHold}
         /\ \A j \in Jobs, h \in HoldIds : Hold(j, h) \in HoldRow \cup {NoHold}
         /\ now \in Nat
BY DEF IInv, TypeOK, Hold

LEMMA EligibleStays ==
  ASSUME IInv, NEW k \in Jobs, Beside(k), NEW h \in HoldIds, Eligible(k, h),
         hold'[h] \in {hold[h]} \cup Reduced(hold[h])
  PROVE  Eligible(k, h)'
<1>1. hold[h] \in HoldRow \cup {NoHold} /\ now \in Nat
  BY HoldTypes
<1>2. hold'[h].fund = hold[h].fund /\ hold'[h].expired_at = hold[h].expired_at
  BY <1>1, ReducedFacts
<1>3. hold[h].expired_at \in Int
  BY <1>1, HoldFacts
<1> QED
  BY <1>1, <1>2, <1>3, SameOf DEF Eligible, Beside

LEMMA WantFrame ==
  ASSUME IInv, NEW k \in Jobs, WantOK(k), Beside(k)
  PROVE  WantOK(k)'
<1> SUFFICES ASSUME pc[k] \in {"lock_holds", "lock_expired"}, NEW h \in want[k]
             PROVE  /\ h \in Jobs => pc'[h] = "committed"
                    /\ hold'[h] = NoHold \/ Eligible(k, h)'
  BY DEF WantOK, Beside
<1>1. h \in HoldIds
  BY DEF IInv, TypeOK
<1>2. (h \in Jobs => pc[h] = "committed") /\ (hold[h] = NoHold \/ Eligible(k, h))
  BY DEF WantOK
<1>3. hold'[h] \in {hold[h], NoHold} \cup Reduced(hold[h])
  BY <1>1, <1>2 DEF Beside
<1>4. CASE hold[h] = NoHold
  BY <1>2, <1>3, <1>4, ReducedFacts DEF Beside
<1>5. CASE Eligible(k, h) /\ hold'[h] # NoHold
  BY <1>1, <1>2, <1>3, <1>5, EligibleStays DEF Beside
<1> QED
  BY <1>2, <1>4, <1>5 DEF Beside

LEMMA HoldFrame ==
  ASSUME IInv, NEW k \in Jobs, Beside(k), Alike(k), NEW h \in HoldIds, HoldOK(k, h)
  PROVE  HoldOK(k, h)'
<1>1. holdLock'[h] = k => hold'[h] # NoHold /\ Eligible(k, h)'
  BY EligibleStays DEF HoldOK, Alike
<1>2. CASE Hold(k, h)' = Hold(k, h) /\ hold'[h] = hold[h]
  BY <1>1, <1>2, SameOf DEF HoldOK, Beside, Reduced
<1>3. CASE Hold(k, h)' = hold'[h]
  BY <1>1, <1>3 DEF HoldOK
<1> QED
  BY <1>2, <1>3 DEF Alike

LEMMA BackFrame ==
  ASSUME SupplyInv, NEW k \in Jobs, Active(k), Beside(k), Alike(k), BackOK(k)
  PROVE  BackOK(k)'
<1>1. CASE "CASHBACK" \in rows[k]
  <2>1. PICK t \in 0..now : Hold(k, k) = BackRow(k, t)
    BY <1>1 DEF BackOK
  <2>2. k \in HoldIds /\ hold[k] = NoHold
    BY DEF SupplyInv, LocksOK, Active, Finished, HoldIds
  <2>3. Hold(k, k) # hold[k]
    BY <2>1, <2>2, NoHoldFacts, AmountType DEF BackRow, SupplyInv, CallbackInv
  <2>4. Hold(k, k)' = Hold(k, k)
    BY <2>2, <2>3 DEF Alike
  <2>5. Hold(k, k)' = BackRow(k, t)' /\ t \in 0..now'
    BY <2>1, <2>4, SameOf, HoldTypes DEF BackRow, Beside, SupplyInv, CallbackInv
  <2> QED
    BY <1>1, <2>5, SameOf DEF BackOK, Beside
<1>2. CASE "CASHBACK" \notin rows[k]
  BY <1>2, SameOf DEF BackOK, Beside, Alike, HoldIds
<1> QED
  BY <1>1, <1>2

\* The difference that a job sees in a fund stays what it is.
LEMMA CashFrame ==
  ASSUME IInv, IInv', NEW k \in Jobs, Alike(k), NEW f \in Funds, NEW d \in Int,
         Cash(k, f) = cash[f] + d
  PROVE  Cash(k, f)' = cash'[f] + d
<1>1. Cash(k, f) \in Int /\ cash[f] \in Int
  BY CashType, SupplyType
<1>2. Cash(k, f)' \in Int
  BY SeenNext DEF SeenOK
<1>3. cash'[f] \in Int
  BY DEF IInv, TypeOK
<1>4. CASE Cash(k, f)' = Cash(k, f) /\ cash'[f] = cash[f]
  BY <1>4
<1>5. CASE Cash(k, f)' = cash'[f] /\ Cash(k, f) = cash[f]
  <2>1. d = 0
    BY <1>1, <1>5
  <2> QED
    BY <1>3, <1>5, <2>1
<1> QED
  BY <1>4, <1>5 DEF Alike

LEMMA MovesType ==
  ASSUME IInv, NEW j \in Jobs, NEW f, NEW paid \in {0, Amount(j)}
  PROVE  Moves(j, f, paid) \in Int
<1>1. Amount(j) \in Int /\ paid \in Int
  BY AmountType
<1> QED
  BY <1>1 DEF Moves, If

LEMMA PaymentFrame ==
  ASSUME IInv, IInv', NEW k \in Jobs, Beside(k), Alike(k), KindOK(k), PaymentOK(k)
  PROVE  PaymentOK(k)'
<1>1. PICK paid \in {0, Amount(k)} :
        /\ CashMoved(k, paid)
        /\ Spent(k) \/ Withdrawn(k) \/ paid = 0
        /\ Withdrawn(k) => paid = Amount(k)
        /\ Spent(k) => paid = Amount(k) \/ HoldPaid(k)
  BY DEF PaymentOK
<1>2. paid \in {0, Amount(k)'} /\ Amount(k) \in Int
  BY SameOf, AmountType
<1>3. CashMoved(k, paid)'
  <2>1. \A f \in Funds : Moves(k, f, paid)' = Moves(k, f, paid)
    BY SameOf DEF Moves, If, Beside
  <2> QED
    BY <1>1, <2>1, CashFrame, MovesType DEF CashMoved
<1>4. ASSUME Spent(k), HoldPaid(k)
      PROVE  HoldPaid(k)'
  <2>1. PICK h \in HoldIds :
          hold[h].fund = User(k) /\ Hold(k, h).amount + Amount(k) <= hold[h].amount
    BY <1>4 DEF HoldPaid
  <2>2. Amount(k) > 0 /\ hold[h].amount \in Int
    BY <1>4, HoldTypes, HoldFacts DEF KindOK
  <2>3. Hold(k, h)' = Hold(k, h) /\ hold'[h] = hold[h]
    BY <1>2, <2>1, <2>2 DEF Alike
  <2> QED
    BY <2>1, <2>3, SameOf DEF HoldPaid
<1> QED
  BY <1>1, <1>2, <1>3, <1>4, SameOf DEF PaymentOK

\* What a job has released is what others leave alone.
LEMMA ReleaseFrame ==
  ASSUME IInv, IInv', NEW k \in Jobs, Alike(k), ReleaseOK(k)
  PROVE  ReleaseOK(k)'
<1> SUFFICES ASSUME NEW f \in Funds
             PROVE  Cash(k, f)' = cash'[f] + Total(HoldIds, Freed(k, f)')
  BY DEF ReleaseOK
<1>1. Freed(k, f)' = Freed(k, f)
  <2>1. ASSUME NEW h \in HoldIds
        PROVE  If(hold'[h].fund = f /\ Hold(k, h)' = NoHold, hold'[h].amount)
                 = If(hold[h].fund = f /\ Hold(k, h) = NoHold, hold[h].amount)
    BY NoHoldFacts DEF Alike, If
  <2> QED
    BY <2>1 DEF Freed
<1>2. \A h \in HoldIds : Freed(k, f)[h] \in Int
  BY HoldTypes, HoldFacts DEF Freed, If
<1>3. Total(HoldIds, Freed(k, f)) \in Int
  BY <1>2, HoldIdsFinite, TotalType
<1> QED
  BY <1>1, <1>3, CashFrame DEF ReleaseOK

\* What is said of a job stays true when others take steps.
LEMMA JobFrame ==
  ASSUME SupplyInv, IInv', NEW k \in Jobs, Beside(k), Alike(k), LedgerJob(k)
  PROVE  LedgerJob(k)'
<1> SUFFICES ASSUME Active(k)
             PROVE  LedgerJob(k)'
  BY SameOf DEF LedgerJob
<1>1. KindOK(k)' /\ WantOK(k)' /\ BackOK(k)'
  BY SameOf, WantFrame, BackFrame DEF LedgerJob, SupplyInv, CallbackInv
<1>2. \A h \in HoldIds \ {k} : HoldOK(k, h)'
  BY HoldFrame DEF LedgerJob, SupplyInv, CallbackInv
<1>3. req'[k].kind = req[k].kind
  BY DEF Beside
<1>4. IF req[k].kind = "expired_unhold" THEN ReleaseOK(k)' ELSE PaymentOK(k)'
  BY PaymentFrame, ReleaseFrame DEF LedgerJob, SupplyInv, CallbackInv
<1> QED
  BY <1>1, <1>2, <1>3, <1>4 DEF LedgerJob
-----------------------------------------------------------------------------
(* What a job's steps show to the others.                                  *)

\* A step that others do not see: it publishes nothing, and what it writes or locks is the
\* job's own.
Hidden(j) ==
  /\ UNCHANGED <<now, cash, hold, req>>
  /\ \A k \in Jobs \ {j} :
       /\ pc'[k] = pc[k] /\ rows'[k] = rows[k] /\ want'[k] = want[k]
       /\ \A f \in Funds : Cash(k, f)' = Cash(k, f)
       /\ \A h \in HoldIds : /\ Hold(k, h)' = Hold(k, h)
                             /\ holdLock'[h] = k => holdLock[h] = k

LEMMA HiddenBeside ==
  ASSUME IInv, NEW j \in Jobs, Hidden(j), pc[j] # "committed", NEW k \in Jobs \ {j}
  PROVE  Beside(k) /\ Alike(k)
BY HoldTypes DEF Hidden, Beside, Alike

LEMMA RollbackHidden ==
  ASSUME IInv, NEW j \in Jobs, Rollback(j)
  PROVE  Hidden(j)
BY SetsAssumption
   DEF IInv, TypeOK, Hidden, Rollback, UnlockAll, Goto, Cash, Hold, committedRows

\* Steps that write neither funds nor holds and take no locks.
LEMMA QuietHidden ==
  ASSUME IInv, NEW j \in Jobs,
         UNCHANGED <<committedRows, workingCash, workingHold, req>>,
         NEW l, Goto(j, l),
         UNCHANGED rows \/ \E v : rows' = [rows EXCEPT ![j] = v],
         UNCHANGED want \/ \E v : want' = [want EXCEPT ![j] = v]
  PROVE  Hidden(j)
BY DEF IInv, TypeOK, Hidden, Goto, Cash, Hold, committedRows, workingCash, workingHold

\* Steps that write a fund which is free.
LEMMA SetCashHidden ==
  ASSUME IInv, NEW j \in Jobs, NEW f, NEW v,
         CashFree(j, f), SetCash(j, f, v),
         UNCHANGED <<committedRows, workingHold, req, want, rows>>,
         NEW l, Goto(j, l)
  PROVE  Hidden(j)
BY SetsAssumption
   DEF IInv, TypeOK, Hidden, Goto, Cash, Hold, CashFree, SetCash, committedRows, workingHold

LEMMA StepHidden ==
  ASSUME SupplyInv, NEW j \in Jobs, Begin(j) \/ Step(j) \/ Crash(j), ~Commit(j)
  PROVE  Hidden(j)
<1> USE DEF locals, inserted
<1>1. CASE Rollback(j)
  BY <1>1, RollbackHidden DEF SupplyInv, CallbackInv
<1>2. CASE Begin(j) \/ NoCashBack(j) \/ UnholdDone(j)
  BY <1>2, QuietHidden DEF SupplyInv, CallbackInv, Begin, NoCashBack, UnholdDone
<1>3. CASE ReadCash(j) \/ ReadFrom(j)
  BY <1>3, QuietHidden DEF SupplyInv, CallbackInv, ReadCash, ReadFrom
<1>4. CASE ~Rollback(j) /\ (CheckTotal(j) \/ SelectHolds(j) \/ SelectExpired(j))
  BY <1>4, QuietHidden DEF SupplyInv, CallbackInv, CheckTotal, SelectHolds, SelectExpired
<1>5. CASE ~Rollback(j) /\ (RecordDeposit(j) \/ RecordTransfer(j) \/ RecordWithdraw(j))
  BY <1>5, QuietHidden
     DEF SupplyInv, CallbackInv, RecordDeposit, RecordTransfer, RecordWithdraw, Record, Insert
<1>6. CASE Deposit(j) \/ IncrTo(j)
  BY <1>6, SetCashHidden DEF SupplyInv, CallbackInv, Deposit, IncrTo, IncrCash
<1>7. CASE ~Rollback(j) /\ (DecrRemain(j) \/ Withdraw(j))
  BY <1>7, SetCashHidden DEF SupplyInv, CallbackInv, DecrRemain, Withdraw, DecrCash
<1>8. CASE LockHold(j)
  <2>1. PICK h \in NextToLock(j) :
          /\ HoldFree(j, h)
          /\ want' = [want EXCEPT ![j] = @ \ {h}]
          /\ holdLock' = [holdLock EXCEPT ![h] = IF hold[h] = NoHold THEN @ ELSE j]
    BY <1>8 DEF LockHold
  <2> QED
    BY <1>8, <2>1, SetsAssumption
       DEF LockHold, HoldFree, Hidden, SupplyInv, CallbackInv, IInv, TypeOK, Cash, Hold,
           committedRows, workingCash
<1>9. CASE Deduct(j)
  <2>1. /\ UNCHANGED <<now, cash, hold, cashW, cashLock, holdLock, req, want, rows>>
        /\ \A k \in Jobs \ {j} : pc'[k] = pc[k]
    BY <1>9
       DEF Deduct, committedRows, workingCash, Goto, SupplyInv, CallbackInv, IInv, TypeOK
  <2>2. \A h \in HoldIds : holdW'[h] = holdW[h] \/ holdLock[h] = j
    BY <1>9 DEF Deduct, Locked, Enough
  <2> QED
    BY <2>1, <2>2 DEF Hidden, Cash, Hold
<1>10. CASE ~Rollback(j) /\ CashBack(j)
  <2>1. /\ UNCHANGED <<now, cash, hold, cashW, cashLock, req, want>>
        /\ \A k \in Jobs \ {j} : pc'[k] = pc[k] /\ rows'[k] = rows[k]
        /\ \A h \in HoldIds \ {j} : holdW'[h] = holdW[h] /\ holdLock'[h] = holdLock[h]
        /\ holdLock'[j] = j /\ pc[j] = "cash_back"
    BY <1>10
       DEF CashBack, Insert, At, committedRows, workingCash, Goto, SupplyInv, CallbackInv, IInv,
           TypeOK, HoldIds
  <2>2. holdLock[j] \in {None, j}
    BY <2>1 DEF SupplyInv, LocksOK
  <2> QED
    BY <2>1, <2>2, SetsAssumption DEF Hidden, Cash, Hold
<1>11. CASE Unhold(j)
  <2>1. PICK h \in Locked(j) : /\ IncrCash(j, holdW[h].fund, holdW[h].amount)
                               /\ holdW' = [holdW EXCEPT ![h] = NoHold]
    BY <1>11 DEF Unhold
  <2>2. UNCHANGED <<now, cash, hold, holdLock, req, want, rows, pc>>
    BY <1>11 DEF Unhold, committedRows
  <2>3. h \in HoldIds /\ holdLock[h] = j
    BY DEF Locked
  <2> QED
    BY <2>1, <2>2, <2>3, SetsAssumption
       DEF Hidden, Cash, Hold, IncrCash, CashFree, SetCash, SupplyInv, CallbackInv, IInv,
           TypeOK
<1> QED
  BY <1>1, <1>2, <1>3, <1>4, <1>5, <1>6, <1>7, <1>8, <1>9, <1>10, <1>11
     DEF Step, Crash, DeadlockVictim

LEMMA CommitBeside ==
  ASSUME SupplyInv, NEW j \in Jobs, Commit(j), LedgerJob(j), NEW k \in Jobs \ {j}
  PROVE  Beside(k) /\ Alike(k)
<1>1. /\ cash' = [f \in Funds |-> Cash(j, f)] /\ hold' = [h \in HoldIds |-> Hold(j, h)]
      /\ UNCHANGED <<now, cashW, holdW, req, rows>> /\ pc[j] = "commit"
      /\ \A f \in Funds : cashLock'[f] = IF cashLock[f] = j THEN None ELSE cashLock[f]
      /\ \A h \in HoldIds : holdLock'[h] = IF holdLock[h] = j THEN None ELSE holdLock[h]
      /\ pc'[k] = pc[k] /\ want'[k] = want[k]
      /\ \A i \in Jobs : pc[i] = "committed" => pc'[i] = "committed"
  BY DEF Commit, UnlockAll, Goto, inserted, SupplyInv, CallbackInv, IInv, TypeOK
<1>2. Alike(k)
  BY <1>1, SetsAssumption DEF Alike, Cash, Hold
<1>3. Active(j)
  BY <1>1 DEF Active, Finished
<1>4. ASSUME NEW h \in HoldIds, h \in Jobs => pc[h] = "committed"
      PROVE  hold'[h] \in {hold[h], NoHold} \cup Reduced(hold[h])
  BY <1>1, <1>3, <1>4 DEF LedgerJob, HoldOK
<1>5. now' \in Nat /\ now' >= now
  BY <1>1, HoldTypes DEF SupplyInv, CallbackInv
<1> QED
  BY <1>1, <1>2, <1>4, <1>5 DEF Beside

LEMMA TickBeside ==
  ASSUME SupplyInv, Tick \/ UNCHANGED vars, NEW k \in Jobs
  PROVE  Beside(k) /\ Alike(k)
<1>1. now' \in Nat /\ now' >= now
  BY HoldTypes DEF SupplyInv, CallbackInv, Tick, vars
<1>2. UNCHANGED <<cash, hold, cashW, cashLock, holdW, holdLock, pc, req, rows, want>>
  BY DEF Tick, vars, workingCash, workingHold, locals, inserted
<1> QED
  BY <1>1, <1>2 DEF Beside, Alike, Cash, Hold
-----------------------------------------------------------------------------
(* What a job's steps do to what is said of the job itself.                *)

\* The job sees what it saw, and goes on to where the same has been done.
LEMMA OwnSame ==
  ASSUME SupplyInv, NEW j \in Jobs, Active(j), LedgerJob(j),
         UNCHANGED <<now, cash, hold, req>>,
         \A f \in Funds : Cash(j, f)' = Cash(j, f),
         \A h \in HoldIds : Hold(j, h)' = Hold(j, h),
         \A h \in HoldIds \ {j} :
           holdLock'[h] = j => holdLock[h] = j \/ (hold[h] # NoHold /\ Eligible(j, h)),
         (Deposited(j)' <=> Deposited(j)), (Given(j)' <=> Given(j)), (Spent(j)' <=> Spent(j)),
         (Withdrawn(j)' <=> Withdrawn(j)), Touches(j) => Touches(j)',
         KindOK(j)', WantOK(j)', BackOK(j)'
  PROVE  LedgerJob(j)'
<1>1. User(j)' = User(j) /\ Amount(j)' = Amount(j)
  BY DEF User, Amount
<1>2. ASSUME NEW h \in HoldIds \ {j}
      PROVE  HoldOK(j, h)'
  <2>1. HoldOK(j, h)
    BY DEF LedgerJob
  <2>2. Eligible(j, h)' <=> Eligible(j, h)
    BY <1>1 DEF Eligible
  <2>3. Reduced(hold'[h]) = Reduced(hold[h])
    BY DEF Reduced
  <2> QED
    BY <2>1, <2>2, <2>3 DEF HoldOK
<1>3. CASE req[j].kind = "expired_unhold"
  <2>1. \A f \in Funds : Freed(j, f)' = Freed(j, f)
    BY DEF Freed
  <2>2. ReleaseOK(j)'
    BY <1>3, <2>1 DEF LedgerJob, ReleaseOK
  <2> QED
    BY <1>2, <1>3, <2>2 DEF LedgerJob
<1>4. CASE req[j].kind # "expired_unhold"
  <2>1. PICK paid \in {0, Amount(j)} :
          /\ CashMoved(j, paid)
          /\ Spent(j) \/ Withdrawn(j) \/ paid = 0
          /\ Withdrawn(j) => paid = Amount(j)
          /\ Spent(j) => paid = Amount(j) \/ HoldPaid(j)
    BY <1>4 DEF LedgerJob, PaymentOK
  <2>2. CashMoved(j, paid)'
    BY <1>1, <2>1 DEF CashMoved, Moves
  <2>3. HoldPaid(j) => HoldPaid(j)'
    BY <1>1 DEF HoldPaid
  <2>4. PaymentOK(j)'
    BY <1>1, <2>1, <2>2, <2>3 DEF PaymentOK
  <2> QED
    BY <1>2, <1>4, <2>4 DEF LedgerJob
<1> QED
  BY <1>3, <1>4

\* Statements that only read or insert, and what follows what.
LEMMA OwnGoes ==
  ASSUME SupplyInv, NEW j \in Jobs, LedgerJob(j),
         UNCHANGED <<committedRows, workingCash, workingHold, req>>,
         NEW l, Goto(j, l),
         "CASHBACK" \in rows'[j] <=> "CASHBACK" \in rows[j],
         \/ /\ pc[j] = "deposit_row"
            /\ l = IF req[j].to = None THEN "cash_back" ELSE "read_cash"
         \/ pc[j] = "read_cash" /\ l = "check_total"
         \/ pc[j] = "check_total" /\ l = "select_holds"
         \/ pc[j] = "select_holds" /\ l = "lock_holds"
         \/ pc[j] = "read_from" /\ l = "incr_to"
         \/ /\ pc[j] = "transfer_row"
            /\ l = IF req[j].kind = "callback" THEN "cash_back" ELSE "commit"
         \/ pc[j] = "withdraw_row" /\ l = "commit"
         \/ pc[j] = "cash_back" /\ l = "commit" /\ Amount(j) < Threshold
         \/ pc[j] = "select_expired" /\ l = "lock_expired"
         \/ pc[j] = "lock_expired" /\ l = "commit",
         l \in {"lock_holds", "lock_expired"} => WantOK(j)'
  PROVE  LedgerJob(j)'
<1>1. /\ UNCHANGED <<now, cash, hold, cashW, holdW, cashLock, holdLock, req>>
      /\ pc'[j] = l
  BY DEF committedRows, workingCash, workingHold, Goto, SupplyInv, CallbackInv, IInv, TypeOK
<1>2. Active(j) /\ KindOK(j) /\ BackOK(j)
  BY DEF Active, Finished, LedgerJob
<1>3. /\ pc[j] \in {"deposit_row", "cash_back"} => req[j].kind = "callback"
      /\ pc[j] \in {"read_cash", "check_total", "select_holds", "read_from", "transfer_row"} =>
           IsPayment(j) /\ req[j].kind # "withdraw"
      /\ pc[j] = "withdraw_row" => req[j].kind = "withdraw"
      /\ pc[j] \in {"select_expired", "lock_expired"} => req[j].kind = "expired_unhold"
  BY <1>2
     DEF SupplyInv, CallbackInv, IInv, ControlOK, KindOK, TransferLabels, IsPayment
<1>4. /\ Deposited(j)' <=> Deposited(j)
      /\ Given(j)' <=> Given(j)
      /\ Spent(j)' <=> Spent(j)
      /\ Withdrawn(j)' <=> Withdrawn(j)
      /\ Touches(j) => Touches(j)'
  <2>1. Deposited(j)' <=> Deposited(j)
    BY <1>1 DEF Deposited, Active, Finished
  <2>2. Given(j)' <=> Given(j)
    BY <1>1, <1>2, <1>3 DEF Given, IsPayment, KindOK, TransferLabels
  <2>3. (Spent(j)' <=> Spent(j)) /\ (Touches(j) => Touches(j)')
    BY <1>1, <2>2 DEF Spent, Touches
  <2>4. Withdrawn(j)' <=> Withdrawn(j)
    BY <1>1, <1>3 DEF Withdrawn
  <2> QED
    BY <2>1, <2>2, <2>3, <2>4
<1>5. KindOK(j)'
  <2>1. (IsPayment(j)' <=> IsPayment(j)) /\ Amount(j)' = Amount(j)
    BY <1>1 DEF IsPayment, Amount
  <2>2. l \in TransferLabels => IsPayment(j)
    BY <1>3 DEF TransferLabels, IsPayment
  <2>3. /\ l \notin {"withdraw", "withdraw_row", "select_expired"}
        /\ l = "lock_expired" => req[j].kind = "expired_unhold"
    BY <1>3
  <2>4. Spent(j)' \/ Withdrawn(j)' => Amount(j) > 0
    BY <1>2, <1>4 DEF KindOK
  <2> QED
    BY <1>1, <2>1, <2>2, <2>3, <2>4 DEF KindOK
<1>6. WantOK(j)'
  BY <1>1 DEF WantOK
<1>7. BackOK(j)'
  <2>1. Hold(j, j)' = Hold(j, j) /\ \A t : BackRow(j, t)' = BackRow(j, t)
    BY <1>1 DEF Hold, BackRow, User, Amount
  <2>2. l = "commit" /\ req[j].kind = "callback" => Amount(j) < Threshold
    BY <1>2 DEF KindOK
  <2> QED
    BY <1>1, <1>2, <2>1, <2>2 DEF BackOK, Amount
<1>8. /\ \A f \in Funds : Cash(j, f)' = Cash(j, f)
      /\ \A h \in HoldIds : Hold(j, h)' = Hold(j, h) /\ holdLock'[h] = holdLock[h]
  BY <1>1 DEF Cash, Hold
<1>9. UNCHANGED <<now, cash, hold, req>>
  BY <1>1
<1>10. \A h \in HoldIds \ {j} :
         holdLock'[h] = j => holdLock[h] = j \/ (hold[h] # NoHold /\ Eligible(j, h))
  BY <1>8
<1> QED
  BY <1>2, <1>4, <1>5, <1>6, <1>7, <1>8, <1>9, <1>10, OwnSame

\* The holds that a payment sees before it takes anything.
LEMMA Untouched ==
  ASSUME SupplyInv, NEW j \in Jobs, Active(j), LedgerJob(j), ~Touches(j),
         "CASHBACK" \notin rows[j]
  PROVE  \A h \in HoldIds : Hold(j, h) = hold[h]
<1>1. \A h \in HoldIds \ {j} : Hold(j, h) = hold[h]
  BY DEF LedgerJob, HoldOK
<1>2. Hold(j, j) = hold[j]
  BY DEF LedgerJob, BackOK, Hold
<1> QED
  BY <1>1, <1>2

\* A hold that is there is not one that a running job may still insert.
LEMMA HeldIsCommitted ==
  ASSUME SupplyInv, NEW h \in HoldIds, hold[h] # NoHold, h \in Jobs
  PROVE  pc[h] = "committed"
BY DEF SupplyInv, LocksOK

LEMMA QuietLedger ==
  ASSUME SupplyInv, NEW j \in Jobs, LedgerJob(j), ~Rollback(j),
         \/ RecordDeposit(j) \/ ReadCash(j) \/ CheckTotal(j) \/ SelectHolds(j)
         \/ ReadFrom(j) \/ RecordTransfer(j) \/ RecordWithdraw(j) \/ NoCashBack(j)
         \/ SelectExpired(j) \/ UnholdDone(j)
  PROVE  LedgerJob(j)'
<1> USE DEF At, inserted
<1>t. rows \in [Jobs -> SUBSET Types] /\ want \in [Jobs -> SUBSET HoldIds]
  BY DEF SupplyInv, CallbackInv, IInv, TypeOK
<1>1. CASE RecordDeposit(j) \/ RecordTransfer(j) \/ RecordWithdraw(j)
  BY <1>1, <1>t, OwnGoes DEF RecordDeposit, RecordTransfer, RecordWithdraw, Record, Insert
<1>2. CASE ReadCash(j) \/ ReadFrom(j)
  BY <1>2, OwnGoes DEF ReadCash, ReadFrom
<1>3. CASE CheckTotal(j) \/ NoCashBack(j) \/ UnholdDone(j)
  BY <1>3, OwnGoes DEF CheckTotal, NoCashBack, UnholdDone
<1>4. CASE SelectHolds(j)
  <2>1. /\ UNCHANGED <<committedRows, workingCash, workingHold, req, rows, hold>>
        /\ pc[j] = "select_holds" /\ Goto(j, "lock_holds")
        /\ want'[j] = HoldsOf(j, User(j))
    BY <1>4, <1>t DEF SelectHolds, committedRows
  <2>2. Active(j) /\ req[j].kind # "expired_unhold" /\ ~Touches(j) /\ User(j) \in Funds
    BY <2>1, AmountType
       DEF Active, Finished, LedgerJob, KindOK, TransferLabels, IsPayment, Touches, Spent,
           Given, SupplyInv, CallbackInv
  <2>3. "CASHBACK" \notin rows[j]
    BY <2>1 DEF SupplyInv, JobRows
  <2>4. \A h \in HoldIds : Hold(j, h) = hold[h]
    BY <2>2, <2>3, Untouched
  <2>5. ASSUME NEW h \in want'[j]
        PROVE  /\ h \in Jobs => pc'[h] = "committed"
               /\ Eligible(j, h)'
    <3>1. h \in HoldIds /\ hold[h].fund = User(j)
      BY <2>1, <2>4, <2>5 DEF HoldsOf
    <3>2. hold[h] # NoHold
      BY <2>2, <3>1, NoHoldFacts
    <3>3. h \in Jobs => pc[h] = "committed"
      BY <3>1, <3>2, HeldIsCommitted
    <3>4. h \in Jobs => pc'[h] = "committed"
      BY <2>1, <3>3 DEF Goto, SupplyInv, CallbackInv, IInv, TypeOK
    <3> QED
      BY <2>1, <2>2, <3>1, <3>4 DEF Eligible, User
  <2>6. WantOK(j)'
    BY <2>5 DEF WantOK
  <2> QED
    BY <2>1, <2>6, OwnGoes
<1>5. CASE SelectExpired(j)
  <2>1. /\ UNCHANGED <<committedRows, workingCash, workingHold, req, rows, hold, now>>
        /\ pc[j] = "select_expired" /\ Goto(j, "lock_expired")
        /\ want'[j] = {h \in HoldIds : hold[h] # NoHold /\ hold[h].expired_at <= now}
    BY <1>5, <1>t DEF SelectExpired, committedRows
  <2>2. req[j].kind = "expired_unhold"
    BY <2>1 DEF Active, Finished, LedgerJob, KindOK
  <2>3. ASSUME NEW h \in want'[j]
        PROVE  /\ h \in Jobs => pc'[h] = "committed"
               /\ Eligible(j, h)'
    <3>1. h \in HoldIds /\ hold[h] # NoHold /\ hold[h].expired_at <= now
      BY <2>1, <2>3
    <3>2. h \in Jobs => pc[h] = "committed"
      BY <3>1, HeldIsCommitted
    <3>3. h \in Jobs => pc'[h] = "committed"
      BY <2>1, <3>2 DEF Goto, SupplyInv, CallbackInv, IInv, TypeOK
    <3> QED
      BY <2>1, <2>2, <3>1, <3>3 DEF Eligible
  <2>4. WantOK(j)'
    BY <2>3 DEF WantOK
  <2> QED
    BY <2>1, <2>4, OwnGoes
<1> QED
  BY <1>1, <1>2, <1>3, <1>4, <1>5

\* The hold that is locked is one that the job is after.
LEMMA LockLedger ==
  ASSUME SupplyInv, NEW j \in Jobs, LedgerJob(j), LockHold(j)
  PROVE  LedgerJob(j)'
<1>1. PICK h \in NextToLock(j) :
        /\ HoldFree(j, h)
        /\ want' = [want EXCEPT ![j] = @ \ {h}]
        /\ holdLock' = [holdLock EXCEPT ![h] = IF hold[h] = NoHold THEN @ ELSE j]
  BY DEF LockHold
<1>2. /\ UNCHANGED <<now, cash, hold, cashW, cashLock, holdW, pc, req, rows>>
      /\ pc[j] \in {"lock_holds", "lock_expired"}
  BY DEF LockHold, committedRows, workingCash, inserted
<1>3. /\ h \in want[j] /\ h \in HoldIds /\ holdLock \in [HoldIds -> Jobs \cup {None}]
      /\ want \in [Jobs -> SUBSET HoldIds]
  BY <1>1 DEF NextToLock, SupplyInv, CallbackInv, IInv, TypeOK
<1>4. Active(j) /\ WantOK(j) /\ KindOK(j) /\ BackOK(j)
  BY <1>2 DEF Active, Finished, LedgerJob
<1>5. h # j /\ (hold[h] = NoHold \/ Eligible(j, h))
  BY <1>2, <1>3, <1>4 DEF WantOK
<1>6. \A g \in HoldIds : Hold(j, g)' = Hold(j, g)
  BY <1>1, <1>2, <1>3 DEF Hold, HoldFree, SupplyInv, LocksOK
<1>7. \A g \in HoldIds \ {j} :
        holdLock'[g] = j => holdLock[g] = j \/ (hold[g] # NoHold /\ Eligible(j, g))
  BY <1>1, <1>3, <1>5
<1>8. \A f \in Funds : Cash(j, f)' = Cash(j, f)
  BY <1>2 DEF Cash
<1>9. /\ Deposited(j)' <=> Deposited(j)
      /\ Given(j)' <=> Given(j)
      /\ Spent(j)' <=> Spent(j)
      /\ Withdrawn(j)' <=> Withdrawn(j)
      /\ Touches(j) => Touches(j)'
      /\ KindOK(j)'
  BY <1>2, <1>4
     DEF Deposited, Active, Given, Spent, Withdrawn, Touches, KindOK, IsPayment, Amount
<1>10. WantOK(j)'
  <2>1. want'[j] \subseteq want[j] /\ \A g : Eligible(j, g)' <=> Eligible(j, g)
    BY <1>1, <1>2, <1>3 DEF Eligible, User
  <2> QED
    BY <1>2, <1>4, <2>1 DEF WantOK
<1>11. BackOK(j)'
  <2>1. Hold(j, j)' = Hold(j, j) /\ \A t : BackRow(j, t)' = BackRow(j, t)
    BY <1>2, <1>6 DEF HoldIds, BackRow, User, Amount
  <2>2. holdLock'[j] = holdLock[j]
    BY <1>1, <1>5
  <2> QED
    BY <1>2, <1>4, <2>1, <2>2 DEF BackOK, Amount
<1> QED
  BY <1>2, <1>4, <1>6, <1>7, <1>8, <1>9, <1>10, <1>11, OwnSame

\* A fund is given or debited d, and this is what the job's account says of it.
LEMMA OwnPays ==
  ASSUME SupplyInv, NEW j \in Jobs, Active(j), LedgerJob(j),
         req[j].kind # "expired_unhold",
         NEW f \in Funds, NEW d \in Int, SetCash(j, f, Cash(j, f) + d),
         UNCHANGED <<committedRows, workingHold, req, rows, want>>,
         NEW l \in {"deposit_row", "read_from", "transfer_row", "withdraw_row"}, Goto(j, l),
         Touches(j) => Touches(j)', KindOK(j)',
         NEW paid \in {0, Amount(j)}, CashMoved(j, paid),
         NEW next \in {0, Amount(j)},
         \A g \in Funds : Moves(j, g, next)' = Moves(j, g, paid) + If(g = f, d),
         Spent(j)' \/ Withdrawn(j)' \/ next = 0,
         Withdrawn(j)' => next = Amount(j),
         Spent(j)' => next = Amount(j) \/ HoldPaid(j)
  PROVE  LedgerJob(j)'
<1>1. /\ UNCHANGED <<now, cash, hold, holdW, holdLock, req, rows>> /\ pc'[j] = l
      /\ \A h \in HoldIds : Hold(j, h)' = Hold(j, h)
      /\ User(j)' = User(j) /\ Amount(j)' = Amount(j)
  BY DEF committedRows, workingHold, Goto, SupplyInv, CallbackInv, IInv, TypeOK, Hold,
     User, Amount
<1>2. ASSUME NEW h \in HoldIds \ {j}
      PROVE  HoldOK(j, h)'
  <2>1. HoldOK(j, h)
    BY DEF LedgerJob
  <2>2. Eligible(j, h)' <=> Eligible(j, h)
    BY <1>1 DEF Eligible
  <2>3. Reduced(hold'[h]) = Reduced(hold[h])
    BY <1>1 DEF Reduced
  <2> QED
    BY <1>1, <2>1, <2>2, <2>3 DEF HoldOK
<1>3. WantOK(j)'
  BY <1>1 DEF WantOK
<1>4. BackOK(j)'
  <2>1. Hold(j, j)' = Hold(j, j) /\ \A t : BackRow(j, t)' = BackRow(j, t)
    BY <1>1 DEF HoldIds, BackRow
  <2> QED
    BY <1>1, <2>1 DEF LedgerJob, BackOK
<1>5. CashMoved(j, next)'
  <2> SUFFICES ASSUME NEW g \in Funds
               PROVE  Cash(j, g)' = cash'[g] + Moves(j, g, next)'
    BY DEF CashMoved
  <2>1. Cash(j, g) \in Int
    BY CashType DEF SupplyInv, CallbackInv
  <2>2. Cash(j, g)' = Cash(j, g) + If(g = f, d)
    <3>1. cashW \in [Funds -> Int] /\ cashLock \in [Funds -> Jobs \cup {None}]
      BY DEF SupplyInv, CallbackInv, IInv, TypeOK
    <3>2. CASE g = f
      BY <3>1, <3>2 DEF Cash, SetCash, If
    <3>3. CASE g # f
      <4>1. Cash(j, g)' = Cash(j, g)
        BY <1>1, <3>1, <3>3 DEF Cash, SetCash
      <4> QED
        BY <2>1, <3>3, <4>1 DEF If
    <3> QED
      BY <3>2, <3>3
  <2>3. cash'[g] \in Int /\ cash'[g] = cash[g] /\ Moves(j, g, paid) \in Int
    BY <1>1, SupplyType, MovesType DEF SupplyInv, CallbackInv
  <2>4. Cash(j, g) = cash[g] + Moves(j, g, paid)
    BY DEF CashMoved
  <2>5. Moves(j, g, next)' = Moves(j, g, paid) + If(g = f, d) /\ If(g = f, d) \in Int
    BY DEF If
  <2> QED
    BY <2>1, <2>2, <2>3, <2>4, <2>5
<1>6. HoldPaid(j) => HoldPaid(j)'
  BY <1>1 DEF HoldPaid
<1>7. PaymentOK(j)'
  BY <1>1, <1>5, <1>6 DEF PaymentOK
<1> QED
  BY <1>1, <1>2, <1>3, <1>4, <1>7 DEF LedgerJob

LEMMA PayLedger ==
  ASSUME SupplyInv, NEW j \in Jobs, LedgerJob(j), ~Rollback(j),
         Deposit(j) \/ DecrRemain(j) \/ IncrTo(j) \/ Withdraw(j)
  PROVE  LedgerJob(j)'
<1> USE DEF At, locals, inserted
<1>t. /\ pc \in [Jobs -> Labels] /\ Amount(j) \in Int /\ User(j) \in Funds
      /\ \A f \in Funds : Cash(j, f) \in Int
  BY AmountType, CashType DEF SupplyInv, CallbackInv, IInv, TypeOK
<1>1. PICK l \in {"deposit_row", "read_from", "transfer_row", "withdraw_row"} :
        /\ pc[j] = CASE l = "deposit_row" -> "deposit" [] l = "read_from" -> "decr_cash"
                     [] l = "transfer_row" -> "incr_to" [] l = "withdraw_row" -> "withdraw"
        /\ pc'[j] = l /\ Goto(j, l)
        /\ UNCHANGED <<committedRows, workingHold, req, rows, want>>
        /\ l = "deposit_row" => SetCash(j, User(j), Cash(j, User(j)) + Amount(j))
        /\ l = "read_from" => SetCash(j, User(j), Cash(j, User(j)) - due[j])
        /\ l = "transfer_row" => SetCash(j, req[j].to, Cash(j, req[j].to) + Amount(j))
        /\ l = "withdraw_row" =>
             Amount(j) > 0 /\ SetCash(j, User(j), Cash(j, User(j)) - Amount(j))
  BY <1>t DEF Deposit, DecrRemain, IncrTo, Withdraw, DecrCash, IncrCash, Goto
<1>2. Active(j) /\ Active(j)' /\ KindOK(j)
  BY <1>1 DEF Active, Finished, LedgerJob
<1>3. /\ l = "deposit_row" => req[j].kind = "callback"
      /\ l \in {"read_from", "transfer_row"} => IsPayment(j) /\ req[j].to \in Funds
      /\ l = "withdraw_row" => req[j].kind = "withdraw"
  BY <1>1, <1>2
     DEF KindOK, TransferLabels, SupplyInv, CallbackInv, IInv, ControlOK
<1>4. l \in {"read_from", "transfer_row"} => Amount(j) > 0
  BY <1>1 DEF SupplyInv, CallbackInv, IInv, ControlOK
<1>5. UNCHANGED req /\ Amount(j)' = Amount(j) /\ User(j)' = User(j)
      /\ (IsPayment(j)' <=> IsPayment(j))
  BY <1>1 DEF Amount, User, IsPayment
<1>6. req[j].kind # "expired_unhold" /\ PaymentOK(j)
  BY <1>2, <1>3 DEF IsPayment, LedgerJob
<1>7. PICK paid \in {0, Amount(j)} :
        /\ CashMoved(j, paid)
        /\ Spent(j) \/ Withdrawn(j) \/ paid = 0
        /\ Spent(j) => paid = Amount(j) \/ HoldPaid(j)
  BY <1>6 DEF PaymentOK
<1>8. /\ Deposited(j)' <=> Deposited(j) \/ l = "deposit_row"
      /\ Deposited(j) => l # "deposit_row"
  BY <1>1, <1>2, <1>3, <1>5 DEF Deposited
<1>9. /\ Given(j)' <=> l = "transfer_row"
      /\ ~Given(j)
  BY <1>1, <1>5 DEF Given
<1>10. /\ Spent(j)' <=> l \in {"read_from", "transfer_row"}
       /\ Spent(j) <=> l = "transfer_row"
  BY <1>1, <1>9 DEF Spent
<1>11. /\ Withdrawn(j)' <=> l = "withdraw_row"
       /\ ~Withdrawn(j)
  BY <1>1, <1>3, <1>5 DEF Withdrawn, IsPayment
<1>12. Touches(j) => Touches(j)'
  BY <1>1, <1>6, <1>10 DEF Touches
<1>13. KindOK(j)'
  BY <1>1, <1>3, <1>4, <1>5, <1>10, <1>11 DEF KindOK, TransferLabels
<1>p. PICK f \in Funds, d \in Int, next \in {0, Amount(j)} :
        /\ f = IF l = "transfer_row" THEN req[j].to ELSE User(j)
        /\ d = IF l \in {"deposit_row", "transfer_row"} THEN Amount(j) ELSE -Amount(j)
        /\ next = IF l \in {"read_from", "withdraw_row"} THEN Amount(j) ELSE paid
  BY <1>t, <1>3
<1>14. SetCash(j, f, Cash(j, f) + d)
  <2>1. l = "read_from" => due[j] = Amount(j)
    BY <1>1 DEF SupplyInv, CallbackInv, CallbackJob
  <2>2. \A g \in Funds : Cash(j, g) - Amount(j) = Cash(j, g) + (-Amount(j))
    BY <1>t
  <2> QED
    BY <1>t, <1>1, <1>p, <2>1, <2>2
<1>15. ASSUME NEW g \in Funds
       PROVE  Moves(j, g, next)' = Moves(j, g, paid) + If(g = f, d)
  <2>1. paid \in Int /\ (l # "transfer_row" => paid = 0)
    BY <1>t, <1>7, <1>10, <1>11
  <2>2. Moves(j, g, next)' = If(g = User(j) /\ Deposited(j)', Amount(j))
                           + If(g = req[j].to /\ Given(j)', Amount(j)) - If(g = User(j), next)
    BY <1>5 DEF Moves, If
  <2>3. Moves(j, g, paid) = If(g = User(j) /\ Deposited(j), Amount(j)) - If(g = User(j), paid)
    BY <1>t, <1>9, <2>1 DEF Moves, If
  <2>4. CASE l = "deposit_row"
    <3>1. /\ Moves(j, g, next)' = If(g = User(j), Amount(j))
          /\ Moves(j, g, paid) = 0
      BY <1>t, <1>p, <1>8, <1>9, <2>1, <2>2, <2>3, <2>4 DEF If
    <3>2. f = User(j) /\ d = Amount(j)
      BY <1>p, <2>4
    <3> QED
      BY <1>t, <3>1, <3>2 DEF If
  <2>5. CASE l = "transfer_row"
    <3>1. Moves(j, g, next)' = If(g = User(j) /\ Deposited(j), Amount(j))
                                 + If(g = req[j].to, Amount(j)) - If(g = User(j), paid)
      BY <1>p, <1>8, <1>9, <2>2, <2>5
    <3> QED
      BY <1>t, <1>p, <2>1, <2>3, <2>5, <3>1 DEF If
  <2>6. CASE l \in {"read_from", "withdraw_row"}
    <3>1. /\ Moves(j, g, next)' = If(g = User(j) /\ Deposited(j), Amount(j))
                                    - If(g = User(j), Amount(j))
          /\ Moves(j, g, paid) = If(g = User(j) /\ Deposited(j), Amount(j))
      BY <1>t, <1>p, <1>8, <1>9, <2>1, <2>2, <2>3, <2>6 DEF If
    <3> QED
      BY <1>t, <1>p, <2>6, <3>1 DEF If
  <2> QED
    BY <2>4, <2>5, <2>6
<1>16. /\ Spent(j)' \/ Withdrawn(j)' \/ next = 0
       /\ Withdrawn(j)' => next = Amount(j)
       /\ Spent(j)' => next = Amount(j) \/ HoldPaid(j)
  BY <1>7, <1>10, <1>11, <1>p
<1> QED
  BY <1>1, <1>2, <1>6, <1>7, <1>12, <1>13, <1>14, <1>15, <1>16, OwnPays

LEMMA BeginLedger ==
  ASSUME SupplyInv, IInv', NEW j \in Jobs, Begin(j)
  PROVE  LedgerJob(j)'
<1>1. /\ UNCHANGED <<now, cash, hold, cashW, cashLock, holdW, holdLock, req, rows>>
      /\ pc[j] = "idle" /\ pc'[j] = Entry[req[j].kind]
  BY DEF Begin, At, committedRows, workingCash, workingHold, inserted, Goto, SupplyInv,
     CallbackInv, IInv, TypeOK
<1>2. /\ rows[j] = {} /\ \A f \in Funds : cashLock[f] # j
      /\ \A h \in HoldIds : holdLock[h] # j
  BY <1>1 DEF SupplyInv, LocksOK, CallbackInv, CallbackJob, Active
<1>3. /\ \A f \in Funds : Cash(j, f)' = cash'[f] /\ cash'[f] \in Int
      /\ \A h \in HoldIds : Hold(j, h)' = hold'[h] /\ holdLock'[h] # j
  BY <1>1, <1>2 DEF Cash, Hold, SupplyInv, CallbackInv, IInv, TypeOK
<1>4. /\ req[j].kind \in {"callback", "transfer", "withdraw", "expired_unhold"}
      /\ req[j].kind = "transfer" => req[j].to # None
  BY RequestFacts, RequestsAssumption DEF SupplyInv, CallbackInv, IInv, TypeOK
<1>5. \/ req[j].kind = "callback" /\ pc'[j] = "deposit"
      \/ req[j].kind = "transfer" /\ pc'[j] = "read_cash"
      \/ req[j].kind = "withdraw" /\ pc'[j] = "withdraw"
      \/ req[j].kind = "expired_unhold" /\ pc'[j] = "select_expired"
  BY <1>1, <1>4 DEF Entry
<1>6. ~Deposited(j)' /\ ~Given(j)' /\ ~Spent(j)' /\ ~Withdrawn(j)'
  BY <1>1, <1>5 DEF Deposited, Given, Spent, Withdrawn
<1>7. KindOK(j)'
  BY <1>1, <1>4, <1>5, <1>6 DEF KindOK, TransferLabels, IsPayment
<1>8. WantOK(j)' /\ BackOK(j)' /\ \A h \in HoldIds \ {j} : HoldOK(j, h)'
  BY <1>1, <1>2, <1>3, <1>5 DEF WantOK, BackOK, HoldOK, HoldIds
<1>9. ReleaseOK(j)'
  <2>1. ASSUME NEW f \in Funds
        PROVE  Total(HoldIds, Freed(j, f)') = 0
    <3>1. \A h \in HoldIds : Freed(j, f)'[h] = 0
      BY <1>3, NoHoldFacts DEF Freed, If
    <3>2. Units(HoldIds, Freed(j, f)') = {}
      BY <3>1 DEF Units
    <3> QED
      BY <3>2, FS_EmptySet DEF Total
  <2> QED
    BY <1>3, <2>1 DEF ReleaseOK
<1>10. PaymentOK(j)'
  <2>1. \A f \in Funds : Moves(j, f, 0)' = 0
    BY <1>6 DEF Moves, If
  <2>2. CashMoved(j, 0)'
    BY <1>3, <2>1 DEF CashMoved
  <2> QED
    BY <1>6, <2>2 DEF PaymentOK
<1> QED
  BY <1>7, <1>8, <1>9, <1>10 DEF LedgerJob

\* Holds change and cash does not.
LEMMA OwnHolds ==
  ASSUME SupplyInv, NEW j \in Jobs, LedgerJob(j), Active(j),
         req[j].kind # "expired_unhold",
         UNCHANGED <<now, cash, hold, cashW, cashLock, req>>,
         Deposited(j)' <=> Deposited(j), Given(j)' <=> Given(j),
         Withdrawn(j)' <=> Withdrawn(j),
         Spent(j)' => HoldPaid(j)' \/ (Spent(j) /\ ~HoldPaid(j)),
         Spent(j) => Spent(j)',
         KindOK(j)', WantOK(j)', BackOK(j)', \A h \in HoldIds \ {j} : HoldOK(j, h)'
  PROVE  LedgerJob(j)'
<1>1. PICK paid \in {0, Amount(j)} :
        /\ CashMoved(j, paid)
        /\ Spent(j) \/ Withdrawn(j) \/ paid = 0
        /\ Withdrawn(j) => paid = Amount(j)
        /\ Spent(j) => paid = Amount(j) \/ HoldPaid(j)
  BY DEF LedgerJob, PaymentOK
<1>2. Amount(j)' = Amount(j) /\ User(j)' = User(j)
  BY DEF Amount, User
<1>3. CashMoved(j, paid)'
  BY <1>1, <1>2 DEF CashMoved, Moves, Cash
<1>4. PaymentOK(j)'
  BY <1>1, <1>2, <1>3 DEF PaymentOK
<1> QED
  BY <1>4 DEF LedgerJob

\* One hold pays for all of it, or every hold that is locked is emptied.
LEMMA DeductLedger ==
  ASSUME SupplyInv, NEW j \in Jobs, LedgerJob(j), Deduct(j)
  PROVE  LedgerJob(j)'
<1>1. /\ UNCHANGED <<now, cash, hold, cashW, cashLock, holdLock, req, rows>>
      /\ pc[j] = "lock_holds" /\ pc'[j] \in {"read_from", "decr_cash"}
  BY DEF Deduct, At, committedRows, workingCash, inserted, Goto, SupplyInv, CallbackInv, IInv,
     TypeOK
<1>2. /\ Active(j) /\ KindOK(j) /\ BackOK(j) /\ Amount(j) \in Int /\ Amount(j) > 0
      /\ Amount(j)' = Amount(j) /\ User(j)' = User(j)
      /\ holdW \in [HoldIds -> HoldRow \cup {NoHold}]
  BY <1>1, AmountType
     DEF Active, Finished, LedgerJob, SupplyInv, CallbackInv, IInv, TypeOK, ControlOK, Amount,
         User
<1>3. IsPayment(j) /\ req[j].kind # "expired_unhold" /\ req[j].kind # "withdraw"
  BY <1>1, <1>2 DEF KindOK, TransferLabels, IsPayment
<1>4. /\ Deposited(j)' <=> Deposited(j)
      /\ ~Given(j) /\ ~Given(j)'
      /\ ~Spent(j) /\ (Spent(j)' <=> pc'[j] = "read_from")
      /\ ~Withdrawn(j) /\ ~Withdrawn(j)'
      /\ ~Touches(j) /\ Touches(j)'
  BY <1>1, <1>3 DEF Deposited, Active, Finished, Given, Spent, Withdrawn, Touches
<1>5. "CASHBACK" \notin rows[j] /\ holdLock[j] # j
  BY <1>1, <1>2 DEF SupplyInv, JobRows, BackOK
<1>6. /\ \A h \in HoldIds : Hold(j, h) = hold[h]
      /\ \A h \in HoldIds \ {j} : holdLock[h] = j => hold[h] # NoHold /\ hold[h].fund = User(j)
  BY <1>2, <1>3, <1>4, <1>5, Untouched DEF LedgerJob, HoldOK, Eligible
<1>7. KindOK(j)' /\ WantOK(j)'
  BY <1>1, <1>2, <1>3, <1>4 DEF KindOK, TransferLabels, IsPayment, WantOK
<1>8. BackOK(j)'
  BY <1>1, <1>5 DEF BackOK
<1>9. ASSUME NEW h \in HoldIds \ {j},
             Hold(j, h)' \in {hold[h], NoHold} \cup Reduced(hold[h])
      PROVE  HoldOK(j, h)'
  <2>1. holdLock'[h] = j => hold'[h] # NoHold /\ Eligible(j, h)'
    BY <1>1, <1>2, <1>3, <1>6 DEF Eligible
  <2>2. Reduced(hold'[h]) = Reduced(hold[h])
    BY <1>1 DEF Reduced
  <2> QED
    BY <1>1, <1>3, <1>4, <1>9, <2>1, <2>2 DEF HoldOK
<1>10. CASE \E h \in Enough(j), emptied \in SUBSET (Locked(j) \ Enough(j)) :
              /\ holdW' = [g \in HoldIds |->
                   IF g \in emptied \/ (g = h /\ holdW[g].amount = Amount(j)) THEN NoHold
                   ELSE IF g = h THEN [holdW[g] EXCEPT !.amount = @ - Amount(j)]
                   ELSE holdW[g]]
              /\ Goto(j, "read_from")
  <2>1. PICK h \in Enough(j), emptied \in SUBSET (Locked(j) \ Enough(j)) :
              /\ holdW' = [g \in HoldIds |->
                   IF g \in emptied \/ (g = h /\ holdW[g].amount = Amount(j)) THEN NoHold
                   ELSE IF g = h THEN [holdW[g] EXCEPT !.amount = @ - Amount(j)]
                   ELSE holdW[g]]
    BY <1>10
  <2> DEFINE m == holdW[h].amount - Amount(j)
  <2>2. /\ h \in HoldIds \ {j} /\ holdLock[h] = j /\ h \notin emptied
        /\ hold[h] = holdW[h] /\ hold[h] \in HoldRow
        /\ hold[h].amount \in Nat /\ hold[h].amount >= Amount(j) /\ hold[h].fund = User(j)
    BY <1>2, <1>5, <1>6, HoldFacts DEF Enough, Locked, Hold
  <2>3. \/ Hold(j, h)' = NoHold /\ hold[h].amount = Amount(j)
        \/ Hold(j, h)' = [hold[h] EXCEPT !.amount = m] /\ m \in 1..hold[h].amount
    <3>1. CASE holdW[h].amount = Amount(j)
      <4>1. holdW'[h] = NoHold
        BY <2>1, <2>2, <3>1
      <4> QED
        BY <1>1, <2>2, <3>1, <4>1 DEF Hold
    <3>2. CASE holdW[h].amount # Amount(j)
      <4>1. Hold(j, h)' = [hold[h] EXCEPT !.amount = m]
        BY <1>1, <2>1, <2>2, <3>2 DEF Hold
      <4>2. m \in 1..hold[h].amount
        BY <1>2, <2>2, <3>2
      <4> QED
        BY <4>1, <4>2
    <3> QED
      BY <3>1, <3>2
  <2>4. Hold(j, h)'.amount + Amount(j) <= hold[h].amount
    BY <1>2, <2>2, <2>3, NoHoldFacts DEF HoldRow
  <2>5. HoldPaid(j)'
    BY <1>1, <1>2, <2>2, <2>4 DEF HoldPaid
  <2>6. ASSUME NEW g \in HoldIds \ {j}
        PROVE  HoldOK(j, g)'
    <3>1. CASE g = h
      BY <1>9, <2>2, <2>3, <3>1 DEF Reduced
    <3>2. CASE g # h
      <4>1. holdW'[g] \in {holdW[g], NoHold} /\ (g \in emptied => holdLock[g] = j)
            /\ (g \notin emptied => holdW'[g] = holdW[g])
        BY <2>1, <3>2 DEF Locked
      <4>2. Hold(j, g)' \in {hold[g], NoHold}
        BY <1>1, <1>6, <4>1 DEF Hold
      <4> QED
        BY <1>9, <4>2
    <3> QED
      BY <3>1, <3>2
  <2> QED
    BY <1>1, <1>2, <1>3, <1>4, <1>7, <1>8, <2>5, <2>6, OwnHolds
<1>11. CASE /\ holdW' = [g \in HoldIds |-> IF g \in Locked(j) THEN NoHold ELSE holdW[g]]
            /\ Goto(j, "decr_cash")
  <2>1. pc'[j] = "decr_cash"
    BY <1>11 DEF Goto, SupplyInv, CallbackInv, IInv, TypeOK
  <2>2. ASSUME NEW g \in HoldIds \ {j}
        PROVE  HoldOK(j, g)'
    <3>1. Hold(j, g)' \in {hold[g], NoHold}
      BY <1>1, <1>6, <1>11 DEF Hold, Locked
    <3> QED
      BY <1>9, <3>1
  <2> QED
    BY <1>1, <1>2, <1>3, <1>4, <1>7, <1>8, <2>1, <2>2, OwnHolds
<1> QED
  BY <1>10, <1>11 DEF Deduct

LEMMA CashBackLedger ==
  ASSUME SupplyInv, NEW j \in Jobs, LedgerJob(j), CashBack(j), ~Rollback(j)
  PROVE  LedgerJob(j)'
<1>1. /\ UNCHANGED <<now, cash, hold, cashW, cashLock, req>>
      /\ pc[j] = "cash_back" /\ pc'[j] = "commit" /\ Amount(j) >= Threshold
      /\ "CASHBACK" \in rows'[j] /\ j \in HoldIds
      /\ holdLock'[j] = j /\ holdW'[j] = BackRow(j, now)
      /\ \A h \in HoldIds \ {j} : holdW'[h] = holdW[h] /\ holdLock'[h] = holdLock[h]
  BY DEF CashBack, Insert, At, committedRows, workingCash, Goto, BackRow, HoldIds, SupplyInv,
     CallbackInv, IInv, TypeOK
<1>2. /\ Active(j) /\ req[j].kind = "callback" /\ KindOK(j)
      /\ Amount(j)' = Amount(j) /\ User(j)' = User(j) /\ User(j) \in Funds
      /\ IsPayment(j)' <=> IsPayment(j)
  BY <1>1, AmountType
     DEF Active, Finished, SupplyInv, CallbackInv, IInv, ControlOK, LedgerJob, Amount, User,
         IsPayment
<1>3. /\ Deposited(j)' <=> Deposited(j)
      /\ Given(j)' <=> Given(j)
      /\ Spent(j)' <=> Spent(j)
      /\ Withdrawn(j)' <=> Withdrawn(j)
      /\ Touches(j)' <=> Touches(j)
  BY <1>1, <1>2 DEF Deposited, Active, Finished, Given, Spent, Withdrawn, Touches
<1>4. KindOK(j)' /\ WantOK(j)'
  BY <1>1, <1>2, <1>3 DEF KindOK, TransferLabels, WantOK
<1>5. BackOK(j)'
  <2>1. Hold(j, j)' = BackRow(j, now)
    BY <1>1 DEF Hold
  <2>2. now \in 0..now' /\ \A t : BackRow(j, t)' = BackRow(j, t)
    BY <1>1, <1>2, HoldTypes DEF BackRow, SupplyInv, CallbackInv
  <2>3. \E t \in 0..now' : Hold(j, j)' = BackRow(j, t)'
    BY <2>1, <2>2
  <2> QED
    BY <1>1, <1>2, <2>3 DEF BackOK
<1>6. \A h \in HoldIds \ {j} : Hold(j, h)' = Hold(j, h) /\ holdLock'[h] = holdLock[h]
  BY <1>1 DEF Hold
<1>7. ASSUME NEW h \in HoldIds \ {j}
      PROVE  HoldOK(j, h)'
  <2>1. HoldOK(j, h)
    BY <1>2 DEF LedgerJob
  <2>2. Eligible(j, h)' <=> Eligible(j, h)
    BY <1>1, <1>2 DEF Eligible
  <2>3. Reduced(hold'[h]) = Reduced(hold[h])
    BY <1>1 DEF Reduced
  <2> QED
    BY <1>1, <1>3, <1>6, <2>1, <2>2, <2>3 DEF HoldOK
<1>8. HoldPaid(j) => HoldPaid(j)'
  <2>1. hold[j].fund # User(j)
    BY <1>1, <1>2, NoHoldFacts DEF SupplyInv, LocksOK
  <2> QED
    BY <1>1, <1>2, <1>6, <2>1 DEF HoldPaid
<1> QED
  BY <1>1, <1>2, <1>3, <1>4, <1>5, <1>7, <1>8, OwnHolds

\* What is released goes to the hold's own fund.
LEMMA UnholdLedger ==
  ASSUME SupplyInv, IInv', NEW j \in Jobs, LedgerJob(j), Unhold(j)
  PROVE  LedgerJob(j)'
<1>1. PICK h \in Locked(j) : /\ IncrCash(j, holdW[h].fund, holdW[h].amount)
                             /\ holdW' = [holdW EXCEPT ![h] = NoHold]
  BY DEF Unhold
<1>2. /\ UNCHANGED <<now, cash, hold, holdLock, pc, req, rows, want>>
      /\ pc[j] = "lock_expired"
  BY DEF Unhold, At, committedRows, inserted, locals
<1>3. /\ holdW \in [HoldIds -> HoldRow \cup {NoHold}]
      /\ h \in HoldIds /\ holdLock[h] = j /\ holdW[h] # NoHold
  BY <1>1 DEF Locked, SupplyInv, CallbackInv, IInv, TypeOK
<1>4. /\ Active(j) /\ KindOK(j) /\ BackOK(j) /\ WantOK(j)
      /\ req[j].kind = "expired_unhold"
  BY <1>2 DEF Active, Finished, LedgerJob, KindOK
<1>5. "CASHBACK" \notin rows[j] /\ holdLock[j] # j
  BY <1>2, <1>4 DEF SupplyInv, JobRows, BackOK
<1>6. /\ h # j /\ Hold(j, h) = hold[h] /\ hold[h] = holdW[h]
  BY <1>3, <1>4, <1>5 DEF LedgerJob, HoldOK, Hold
<1>7. Hold(j, h)' = NoHold /\ \A g \in HoldIds \ {h} : Hold(j, g)' = Hold(j, g)
  BY <1>1, <1>2, <1>3 DEF Hold
<1>8. /\ KindOK(j)' /\ WantOK(j)' /\ BackOK(j)'
  BY <1>2, <1>4, <1>5
     DEF KindOK, IsPayment, Spent, Given, Withdrawn, Amount, WantOK, Eligible, User, BackOK
<1>9. ASSUME NEW g \in HoldIds \ {j}
      PROVE  HoldOK(j, g)'
  <2>1. HoldOK(j, g)
    BY <1>4 DEF LedgerJob
  <2>2. Touches(j)' /\ (Eligible(j, g)' <=> Eligible(j, g))
    BY <1>2, <1>4 DEF Touches, Eligible
  <2> QED
    BY <1>2, <1>4, <1>7, <2>1, <2>2 DEF HoldOK
<1>10. ASSUME NEW f \in Funds
       PROVE  Cash(j, f)' = cash'[f] + Total(HoldIds, Freed(j, f)')
  <2>1. PICK a : a = Freed(j, f)
    OBVIOUS
  <2>2. PICK b : b = Freed(j, f)'
    OBVIOUS
  <2>3. /\ a[h] = 0 /\ b[h] = If(hold[h].fund = f, hold[h].amount)
        /\ \A g \in HoldIds \ {h} : a[g] = b[g]
    BY <1>2, <1>3, <1>6, <1>7, <2>1, <2>2 DEF Freed, If
  <2>4. \A g \in HoldIds : a[g] \in Nat /\ b[g] \in Nat
    <3>1. \A g \in HoldIds : hold[g].amount \in Nat
      BY HoldTypes, HoldFacts DEF SupplyInv, CallbackInv
    <3> QED
      BY <1>2, <2>1, <2>2, <3>1 DEF Freed, If
  <2>5. Total(HoldIds, b) + a[h] = Total(HoldIds, a) + b[h]
    BY <1>3, <2>3, <2>4, HoldIdsFinite, TotalChange
  <2>6. Total(HoldIds, a) \in Nat /\ Total(HoldIds, b) \in Nat
    BY <2>4, HoldIdsFinite, TotalType
  <2>7. /\ Cash(j, f) = cash[f] + Total(HoldIds, a) /\ Cash(j, f) \in Nat
        /\ cash[f] \in Nat /\ hold[h].amount \in Nat
    BY <1>3, <1>4, <2>1, CashType, SupplyType DEF LedgerJob, ReleaseOK, SupplyInv, CallbackInv
  <2>8. Cash(j, f)' = Cash(j, f) + If(hold[h].fund = f, hold[h].amount)
    <3>1. /\ cashW \in [Funds -> Int] /\ cashLock \in [Funds -> Jobs \cup {None}]
          /\ SetCash(j, hold[h].fund, Cash(j, hold[h].fund) + hold[h].amount)
      BY <1>1, <1>6 DEF IncrCash, SupplyInv, CallbackInv, IInv, TypeOK
    <3>2. CASE hold[h].fund = f
      BY <3>1, <3>2 DEF Cash, SetCash, If
    <3>3. CASE hold[h].fund # f
      <4>1. Cash(j, f)' = Cash(j, f)
        BY <1>2, <3>1, <3>3 DEF Cash, SetCash
      <4> QED
        BY <2>7, <3>3, <4>1 DEF If
    <3> QED
      BY <3>2, <3>3
  <2>9. cash'[f] = cash[f]
    BY <1>2
  <2>10. Cash(j, f)' = cash'[f] + Total(HoldIds, b)
    <3>1. Total(HoldIds, b) = Total(HoldIds, a) + b[h]
      BY <2>3, <2>5, <2>6
    <3>2. b[h] \in Nat /\ Cash(j, f)' = Cash(j, f) + b[h]
      BY <1>3, <2>3, <2>4, <2>8
    <3> QED
      BY <2>6, <2>7, <2>9, <3>1, <3>2
  <2> QED
    BY <2>2, <2>10
<1>11. ReleaseOK(j)'
  BY <1>10 DEF ReleaseOK
<1> QED
  BY <1>2, <1>4, <1>8, <1>9, <1>11 DEF LedgerJob

LEMMA OverLedger ==
  ASSUME SupplyInv, NEW j \in Jobs, Rollback(j) \/ Commit(j)
  PROVE  LedgerJob(j)'
<1>1. pc'[j] \in Finished
  BY DEF Rollback, Commit, Goto, Finished, SupplyInv, CallbackInv, IInv, TypeOK
<1> QED
  BY <1>1 DEF LedgerJob, Active
-----------------------------------------------------------------------------
(* The invariant.                                                          *)

LEMMA LedgerInit == Init => LedgerInv
<1>1. Init => \A j \in Jobs : LedgerJob(j)
  BY DEF Init, LedgerJob, Active
<1> QED
  BY <1>1, SupplyInit DEF LedgerInv

LEMMA LedgerNext ==
  ASSUME LedgerInv, [Next]_vars, IInv', NEW k \in Jobs
  PROVE  LedgerJob(k)'
<1>1. SupplyInv /\ IInv /\ LedgerJob(k)
  BY DEF LedgerInv, SupplyInv, CallbackInv
<1>2. CASE Tick \/ UNCHANGED vars
  BY <1>1, <1>2, TickBeside, JobFrame
<1>3. ASSUME NEW j \in Jobs, Begin(j) \/ Step(j) \/ Crash(j)
      PROVE  LedgerJob(k)'
  <2>1. LedgerJob(j)
    BY DEF LedgerInv
  <2>2. CASE j = k
    <3>1. CASE Rollback(j) \/ Commit(j)
      BY <1>1, <2>2, <3>1, OverLedger
    <3>2. CASE ~Rollback(j) /\ ~Commit(j)
      BY <1>1, <1>3, <2>1, <2>2, <3>2, BeginLedger, QuietLedger, LockLedger, PayLedger,
         DeductLedger, CashBackLedger, UnholdLedger
         DEF Step, Crash, DeadlockVictim
    <3> QED
      BY <3>1, <3>2
  <2>3. CASE j # k
    <3>1. pc[j] # "committed"
      BY <1>3, StepsOfRunning DEF Finished
    <3>2. Beside(k) /\ Alike(k)
      BY <1>1, <1>3, <2>1, <2>3, <3>1, StepHidden, HiddenBeside, CommitBeside
    <3> QED
      BY <1>1, <3>2, JobFrame
  <2> QED
    BY <2>2, <2>3
<1> QED
  BY <1>2, <1>3 DEF Next, Terminating

\* What every running job has done to the rows is an invariant.
THEOREM LedgerInvariance == Spec => []LedgerInv
<1>1. LedgerInv /\ [Next]_vars /\ SupplyInv' => LedgerInv'
  BY LedgerNext DEF LedgerInv, SupplyInv, CallbackInv
<1> QED
  BY <1>1, LedgerInit, SupplyInvariance, PTL DEF Spec
-----------------------------------------------------------------------------
(* The refinement: what the ledger's operators say here.                   *)

\* Ledger has the sums by an instance of its own.
LEMMA LedgerTotal ==
  ASSUME NEW S, NEW amount
  PROVE  L!Total(S, amount) = Total(S, amount)
BY DEF L!Total, L!Units, L!Cardinality, Total, Units, Cardinality

\* The holds of f, with nothing in those of others.
Owned(holds, f) == [h \in HoldIds |-> If(holds[h].fund = f, holds[h].amount)]

LEMMA LedgerWealth ==
  ASSUME NEW c, NEW holds, NEW f
  PROVE  L!Wealth(c, holds, f) = c[f] + Total(HoldIds, Owned(holds, f))
<1> DEFINE T == {h \in HoldIds : holds[h].fund = f}
           a == [h \in HoldIds |-> holds[h].amount]
<1>1. /\ \A h \in T : Owned(holds, f)[h] = a[h]
      /\ \A h \in HoldIds \ T : Owned(holds, f)[h] = 0
  BY DEF Owned, If
<1>2. L!Wealth(c, holds, f) = c[f] + L!Total(T, a)
  BY DEF L!Wealth, L!HoldsOf
<1>3. T \in SUBSET HoldIds
  OBVIOUS
<1> HIDE DEF T, a
<1>4. Total(T, a) = Total(HoldIds, Owned(holds, f))
  BY <1>1, <1>3, TotalPart
<1>5. L!Total(T, a) = Total(T, a)
  BY LedgerTotal
<1> QED
  BY <1>2, <1>4, <1>5

\* What is known when a job commits.
LEMMA Committing ==
  ASSUME LedgerInv, NEW j \in Jobs, Commit(j)
  PROVE  /\ SupplyInv /\ CallbackInv /\ IInv /\ Active(j) /\ LedgerJob(j)
         /\ pc[j] = "commit" /\ pc'[j] = "committed"
         /\ \A k \in Jobs \ {j} : pc'[k] = pc[k]
         /\ UNCHANGED <<now, req, rows>>
         /\ cash' = [f \in Funds |-> Cash(j, f)] /\ hold' = [h \in HoldIds |-> Hold(j, h)]
         /\ j \in HoldIds /\ hold[j] = NoHold
         /\ Deposited(j) <=> req[j].kind = "callback"
         /\ Given(j) <=> IsPayment(j)
         /\ Spent(j) <=> IsPayment(j)
         /\ Withdrawn(j) <=> req[j].kind = "withdraw"
         /\ "DEPOSIT" \in rows[j] <=> req[j].kind = "callback"
<1>1. SupplyInv /\ CallbackInv /\ IInv /\ LedgerJob(j)
  BY DEF LedgerInv, SupplyInv, CallbackInv
<1>2. /\ pc[j] = "commit" /\ pc'[j] = "committed"
      /\ \A k \in Jobs \ {j} : pc'[k] = pc[k]
      /\ UNCHANGED <<now, req, rows>>
      /\ cash' = [f \in Funds |-> Cash(j, f)] /\ hold' = [h \in HoldIds |-> Hold(j, h)]
  BY <1>1 DEF Commit, Goto, inserted, IInv, TypeOK
<1>3. Active(j) /\ j \in HoldIds /\ hold[j] = NoHold
  BY <1>1, <1>2 DEF Active, Finished, HoldIds, SupplyInv, LocksOK
<1>4. /\ Deposited(j) <=> req[j].kind = "callback"
      /\ Given(j) <=> IsPayment(j)
      /\ Spent(j) <=> IsPayment(j)
      /\ Withdrawn(j) <=> req[j].kind = "withdraw"
  BY <1>2, <1>3 DEF Deposited, Given, Spent, Withdrawn
<1>5. "DEPOSIT" \in rows[j] <=> req[j].kind = "callback"
  BY <1>1, <1>2, <1>4 DEF SupplyInv, JobRows, CallbackInv, CallbackJob
<1> QED
  BY <1>1, <1>2, <1>3, <1>4, <1>5

Back(j) == If("CASHBACK" \in rows[j], Amount(j))

\* What the payer owns falls by the amount, given what comes in for the payer.
LEMMA PayerOwns ==
  ASSUME LedgerInv, NEW j \in Jobs, Commit(j), IsPayment(j),
         NEW m \in {0, Amount(j)}, m = 0 \/ HoldPaid(j)
  PROVE  /\ Total(HoldIds, Owned(hold, User(j))) \in Nat
         /\ Total(HoldIds, Owned(hold', User(j))) \in Nat
         /\ Total(HoldIds, Owned(hold', User(j))) + m
              <= Total(HoldIds, Owned(hold, User(j))) + Back(j)
<1>1. /\ SupplyInv /\ IInv /\ LedgerJob(j) /\ Active(j)
      /\ \A h \in HoldIds : hold'[h] = Hold(j, h)
      /\ j \in HoldIds /\ hold[j] = NoHold /\ Spent(j)
  BY Committing
<1>2. /\ Amount(j) \in Nat /\ Amount(j) > 0 /\ User(j) \in Funds
      /\ req[j].kind # "expired_unhold"
  BY <1>1, AmountType DEF LedgerJob, KindOK, IsPayment
<1>3. \A h \in HoldIds : /\ hold[h] \in HoldRow \cup {NoHold} /\ hold[h].amount \in Nat
                          /\ Hold(j, h) \in HoldRow \cup {NoHold} /\ Hold(j, h).amount \in Nat
  BY <1>1, HoldTypes, HoldFacts
<1>4. PICK a : a = Owned(hold, User(j))
  OBVIOUS
<1>5. PICK b : b = Owned(hold', User(j))
  OBVIOUS
<1>6. PICK c : c = [a EXCEPT ![j] = Back(j)]
  OBVIOUS
<1>7. Back(j) \in Nat
  BY <1>2 DEF Back, If
<1>8. \A h \in HoldIds : /\ a[h] = If(hold[h].fund = User(j), hold[h].amount)
                          /\ b[h] = If(Hold(j, h).fund = User(j), Hold(j, h).amount)
                          /\ c[h] = IF h = j THEN Back(j) ELSE a[h]
  BY <1>1, <1>4, <1>5, <1>6 DEF Owned
<1>9. \A h \in HoldIds : a[h] \in Nat /\ b[h] \in Nat /\ c[h] \in Nat
  BY <1>3, <1>7, <1>8 DEF If
<1>10. a[j] = 0 /\ c[j] = Back(j)
  BY <1>1, <1>8, NoHoldFacts DEF If
<1>11. ASSUME NEW h \in HoldIds
       PROVE  b[h] <= c[h]
  <2>1. CASE h = j
    <3>1. CASE "CASHBACK" \in rows[j]
      <4>1. Hold(j, j).amount = Amount(j)
        BY <1>1, <3>1 DEF LedgerJob, BackOK, BackRow
      <4> QED
        BY <1>2, <1>8, <1>10, <2>1, <3>1, <4>1 DEF Back, If
    <3>2. CASE "CASHBACK" \notin rows[j]
      <4>1. Hold(j, j) = NoHold
        BY <1>1, <3>2 DEF LedgerJob, BackOK, Hold
      <4>2. b[j] = 0
        BY <1>1, <1>8, <4>1, NoHoldFacts DEF If
      <4> QED
        BY <1>7, <1>10, <2>1, <4>2
    <3> QED
      BY <3>1, <3>2
  <2>2. CASE h # j
    <3>1. Hold(j, h) = hold[h] \/ Hold(j, h) = NoHold \/ Hold(j, h) \in Reduced(hold[h])
      BY <1>1, <2>2 DEF LedgerJob, HoldOK
    <3>2. c[h] = a[h]
      BY <1>8, <2>2
    <3>3. CASE Hold(j, h) = hold[h]
      BY <1>8, <1>9, <3>2, <3>3
    <3>4. CASE Hold(j, h) = NoHold
      <4>1. b[h] = 0
        BY <1>8, <3>4, NoHoldFacts DEF If
      <4> QED
        BY <1>9, <4>1
    <3>5. CASE Hold(j, h) \in Reduced(hold[h])
      <4>1. Hold(j, h).fund = hold[h].fund /\ Hold(j, h).amount \in 1..hold[h].amount
        BY <1>3, <3>5, ReducedFacts
      <4> QED
        BY <1>3, <1>8, <3>2, <4>1 DEF If
    <3> QED
      BY <3>1, <3>3, <3>4, <3>5
  <2> QED
    BY <2>1, <2>2
<1>12. \A h \in HoldIds \ {j} : a[h] = c[h]
  BY <1>8
<1>13. Total(HoldIds, c) + a[j] = Total(HoldIds, a) + c[j]
  BY <1>1, <1>9, <1>12, HoldIdsFinite, TotalChange
<1>14. /\ Total(HoldIds, a) \in Nat /\ Total(HoldIds, b) \in Nat
       /\ Total(HoldIds, c) \in Nat
  BY <1>9, HoldIdsFinite, TotalType
<1>15. Total(HoldIds, c) = Total(HoldIds, a) + Back(j)
  BY <1>7, <1>10, <1>13, <1>14
<1>16. Total(HoldIds, b) + m <= Total(HoldIds, c)
  <2>1. CASE m = 0
    <3>1. Total(HoldIds, b) <= Total(HoldIds, c)
      BY <1>9, <1>11, HoldIdsFinite, TotalAtMost
    <3> QED
      BY <1>14, <2>1, <3>1
  <2>2. CASE m = Amount(j) /\ HoldPaid(j)
    <3>1. PICK h \in HoldIds :
            hold[h].fund = User(j) /\ Hold(j, h).amount + Amount(j) <= hold[h].amount
      BY <2>2 DEF HoldPaid
    <3>2. h # j
      BY <1>1, <1>2, <3>1, NoHoldFacts
    <3>3. b[h] + m <= c[h]
      BY <1>2, <1>3, <1>8, <2>2, <3>1, <3>2 DEF If
    <3> QED
      BY <1>2, <1>9, <1>11, <2>2, <3>3, HoldIdsFinite, TotalLess
  <2> QED
    BY <2>1, <2>2
<1> QED
  BY <1>4, <1>5, <1>14, <1>15, <1>16

\* The funds when a job commits that is no release.
LEMMA CommitCash ==
  ASSUME LedgerInv, NEW j \in Jobs, Commit(j), req[j].kind # "expired_unhold"
  PROVE  \E paid \in {0, Amount(j)} :
           /\ \A f \in Funds : /\ cash'[f] = cash[f] + Moves(j, f, paid)
                               /\ Moves(j, f, paid) \in Int /\ cash'[f] \in Nat
           /\ IsPayment(j) \/ req[j].kind = "withdraw" \/ paid = 0
           /\ req[j].kind = "withdraw" => paid = Amount(j)
           /\ IsPayment(j) => paid = Amount(j) \/ HoldPaid(j)
<1>1. /\ IInv /\ PaymentOK(j) /\ \A f \in Funds : cash'[f] = Cash(j, f)
      /\ Spent(j) <=> IsPayment(j)
      /\ Withdrawn(j) <=> req[j].kind = "withdraw"
  BY Committing DEF LedgerJob
<1>2. PICK paid \in {0, Amount(j)} :
        /\ CashMoved(j, paid)
        /\ Spent(j) \/ Withdrawn(j) \/ paid = 0
        /\ Withdrawn(j) => paid = Amount(j)
        /\ Spent(j) => paid = Amount(j) \/ HoldPaid(j)
  BY <1>1 DEF PaymentOK
<1>3. \A f \in Funds : /\ cash'[f] = cash[f] + Moves(j, f, paid)
                      /\ Moves(j, f, paid) \in Int /\ cash'[f] \in Nat
  BY <1>1, <1>2, MovesType, CashType DEF CashMoved
<1> QED
  BY <1>1, <1>2, <1>3

LEMMA CommitPays ==
  ASSUME LedgerInv, NEW j \in Jobs, Commit(j), IsPayment(j),
         NEW gained, gained = If(Deposited(j), Amount(j)) + Back(j),
         NEW before, before = [f \in Funds |-> If(f = User(j) /\ Deposited(j), Amount(j))]
  PROVE  L!Pay(User(j), req[j].to, Amount(j), gained, before)
<1>1. /\ IInv /\ Given(j) /\ req[j].kind # "expired_unhold"
      /\ cash' = [f \in Funds |-> Cash(j, f)]
  BY Committing DEF IsPayment
<1>2. /\ Amount(j) \in Int /\ User(j) \in Funds
      /\ \A f \in Funds : cash[f] \in Nat
  BY <1>1, AmountType, SupplyType
<1>3. PICK paid \in {0, Amount(j)} :
        /\ \A f \in Funds : cash'[f] = cash[f] + Moves(j, f, paid)
        /\ paid = Amount(j) \/ HoldPaid(j)
  BY <1>1, CommitCash
<1>4. ASSUME NEW f \in Funds
      PROVE  Moves(j, f, paid)
               = before[f] + L!Change(req[j].to, Amount(j))[f] - L!Change(User(j), paid)[f]
  BY <1>1 DEF Moves, If, L!Change
<1>5. L!CashMoves([f \in Funds |-> before[f] + L!Change(req[j].to, Amount(j))[f]
                                   - L!Change(User(j), paid)[f]])
  BY <1>1, <1>3, <1>4 DEF L!CashMoves
<1>6. L!Wealth(cash', hold', User(j)) <=
        L!Wealth(cash, hold, User(j)) + gained
          - (IF User(j) = req[j].to THEN 0 ELSE Amount(j))
  <2>1. PICK m \in {0, Amount(j)} : m = IF paid = Amount(j) THEN 0 ELSE Amount(j)
    OBVIOUS
  <2>2. PICK t : t = Total(HoldIds, Owned(hold, User(j)))
    OBVIOUS
  <2>3. PICK u : u = Total(HoldIds, Owned(hold', User(j)))
    OBVIOUS
  <2>4. t \in Nat /\ u \in Nat /\ u + m <= t + Back(j)
    BY <1>3, <2>1, <2>2, <2>3, PayerOwns
  <2>5. /\ L!Wealth(cash', hold', User(j)) = cash'[User(j)] + u
        /\ L!Wealth(cash, hold, User(j)) = cash[User(j)] + t
    BY <2>2, <2>3, LedgerWealth
  <2>6. cash'[User(j)] = cash[User(j)] + Moves(j, User(j), paid)
    BY <1>2, <1>3
  <2>7. /\ Moves(j, User(j), paid) = If(Deposited(j), Amount(j))
                                      + If(User(j) = req[j].to, Amount(j)) - paid
        /\ If(Deposited(j), Amount(j)) \in Int /\ Back(j) \in Int
    BY <1>1, <1>2 DEF Moves, If, Back
  <2>8. PICK d \in Int, b \in Int, c \in Nat :
          /\ d = If(Deposited(j), Amount(j)) /\ b = Back(j) /\ c = cash[User(j)]
    BY <1>2, <2>7
  <2>9. cash'[User(j)] = c + (d + If(User(j) = req[j].to, Amount(j)) - paid)
    BY <2>6, <2>7, <2>8
  <2>10. c + (d + If(User(j) = req[j].to, Amount(j)) - paid) + u
           <= c + t + (d + b) - (IF User(j) = req[j].to THEN 0 ELSE Amount(j))
    BY <1>2, <2>1, <2>4, <2>8 DEF If
  <2> QED
    BY <2>5, <2>8, <2>9, <2>10
<1> QED
  BY <1>5, <1>6 DEF L!Pay

\* The payer's holds shrink, and no other changes but for the cash back.
LEMMA CommitShrinks ==
  ASSUME LedgerInv, NEW j \in Jobs, Commit(j), IsPayment(j)
  PROVE  /\ L!HoldsShrink(User(j), {j})
         /\ req[j].kind = "transfer" => L!HoldsShrink(User(j), {})
<1>1. /\ SupplyInv /\ IInv /\ LedgerJob(j) /\ Active(j)
      /\ \A h \in HoldIds : hold'[h] = Hold(j, h)
  BY Committing
<1>2. req[j].kind # "expired_unhold"
  BY DEF IsPayment
<1>3. ASSUME NEW h \in HoldIds \ {j}
      PROVE  \/ hold'[h] = hold[h]
             \/ /\ hold[h].fund = User(j)
                /\ \/ hold'[h] = NoHold
                   \/ \E m \in 1..hold[h].amount : hold'[h] = [hold[h] EXCEPT !.amount = m]
  <2>1. HoldOK(j, h)
    BY <1>1 DEF LedgerJob
  <2>2. CASE holdLock[h] = j
    BY <1>1, <1>2, <2>1, <2>2 DEF HoldOK, Eligible, Reduced
  <2>3. CASE holdLock[h] # j
    BY <1>1, <2>3 DEF Hold
  <2> QED
    BY <2>2, <2>3
<1>4. L!HoldsShrink(User(j), {j})
  BY <1>3 DEF L!HoldsShrink
<1>5. ASSUME req[j].kind = "transfer"
      PROVE  hold'[j] = hold[j]
  <2>1. "CASHBACK" \notin rows[j] /\ j \in HoldIds
    BY <1>1, <1>5 DEF SupplyInv, JobRows, HoldIds
  <2> QED
    BY <1>1, <2>1 DEF LedgerJob, BackOK, Hold
<1>6. req[j].kind = "transfer" => L!HoldsShrink(User(j), {})
  BY <1>3, <1>5 DEF L!HoldsShrink
<1> QED
  BY <1>4, <1>6
-----------------------------------------------------------------------------
(* The refinement: what each step is for the ledger.                       *)

\* Only a callback that commits credits an order, and one that nobody was credited for.
LEMMA CommitCredits ==
  ASSUME LedgerInv, NEW j \in Jobs, Commit(j)
  PROVE  IF req[j].kind = "callback"
         THEN /\ CreditedOrders' = CreditedOrders \cup {req[j].order}
              /\ req[j].order \notin CreditedOrders
         ELSE CreditedOrders' = CreditedOrders
<1>1. /\ CallbackInv /\ pc[j] = "commit" /\ pc'[j] = "committed"
      /\ \A k \in Jobs \ {j} : pc'[k] = pc[k]
      /\ UNCHANGED <<req, rows>>
      /\ "DEPOSIT" \in rows[j] <=> req[j].kind = "callback"
  BY Committing
<1>2. \A k \in Jobs : Committed(k, "DEPOSIT")' <=>
                        Committed(k, "DEPOSIT") \/ (k = j /\ req[j].kind = "callback")
  BY <1>1 DEF Committed
<1>3. CASE req[j].kind = "callback"
  <2>1. CreditedOrders' = CreditedOrders \cup {req[j].order}
    BY <1>1, <1>2, <1>3 DEF CreditedOrders
  <2>2. ASSUME NEW k \in Jobs, Committed(k, "DEPOSIT")
        PROVE  req[k].order # req[j].order
    BY <1>1, <1>3, <2>2 DEF Committed, CallbackInv, DepositsUnique
  <2> QED
    BY <1>3, <2>1, <2>2 DEF CreditedOrders
<1>4. CASE req[j].kind # "callback"
  BY <1>1, <1>2, <1>4 DEF CreditedOrders
<1> QED
  BY <1>3, <1>4

LEMMA CommitCallback ==
  ASSUME LedgerInv, NEW j \in Jobs, Commit(j), req[j].kind = "callback"
  PROVE  L!Callback(req[j])
<1>1. /\ SupplyInv /\ IInv /\ Active(j) /\ LedgerJob(j) /\ Deposited(j)
      /\ cash' = [f \in Funds |-> Cash(j, f)]
      /\ \A h \in HoldIds : hold'[h] = Hold(j, h)
      /\ j \in HoldIds /\ hold[j] = NoHold /\ UNCHANGED now
      /\ Given(j) <=> IsPayment(j)
      /\ Spent(j) <=> IsPayment(j)
      /\ pc[j] = "commit"
  BY Committing
<1>2. Amount(j) \in Int /\ Amount(j) > 0 /\ User(j) \in Funds
  BY <1>1, AmountType
<1>3. /\ req[j].order \notin CreditedOrders
      /\ CreditedOrders' = CreditedOrders \cup {req[j].order}
  BY CommitCredits
<1>4. "CASHBACK" \in rows[j] <=> Amount(j) >= Threshold
  BY <1>1, <1>2, SettingsAssumption DEF LedgerJob, BackOK
<1>5. L!CashBackAt(j, req[j])
  <2>1. CASE Amount(j) >= Threshold
    <3>1. \E t \in 0..now : Hold(j, j) = BackRow(j, t)
      BY <1>1, <1>4, <2>1 DEF LedgerJob, BackOK
    <3> QED
      BY <1>1, <2>1, <3>1 DEF L!CashBackAt, BackRow, User, Amount
  <2>2. CASE ~(Amount(j) >= Threshold)
    <3>1. Hold(j, j) = hold[j]
      BY <1>1, <1>4, <2>2 DEF LedgerJob, BackOK, Hold
    <3> QED
      BY <1>1, <2>2, <3>1 DEF L!CashBackAt, Amount
  <2> QED
    BY <2>1, <2>2
<1>6. CASE req[j].to = None
  <2>1. ~IsPayment(j) /\ ~Touches(j)
    BY <1>1, <1>6 DEF IsPayment, Touches
  <2>2. \A h \in HoldIds \ {j} : hold'[h] = hold[h]
    BY <1>1, <2>1 DEF LedgerJob, HoldOK
  <2>3. \A f \in Funds : cash'[f] = cash[f] + Moves(j, f, 0)
    BY <2>1, CommitCash
  <2>4. ASSUME NEW f \in Funds
        PROVE  Moves(j, f, 0) = L!Change(User(j), Amount(j))[f]
    BY <1>1, <1>2, <2>1 DEF Moves, If, L!Change
  <2>5. L!CashMoves(L!Change(User(j), Amount(j)))
    BY <1>1, <2>3, <2>4 DEF L!CashMoves
  <2> QED
    BY <1>1, <1>2, <1>3, <1>5, <1>6, <2>2, <2>5 DEF L!Callback, User, Amount
<1>7. CASE req[j].to # None
  <2>1. IsPayment(j)
    BY <1>7 DEF IsPayment
  <2>2. L!HoldsShrink(User(j), {j})
    BY <2>1, CommitShrinks
  <2>3. PICK gained : gained = If(Deposited(j), Amount(j)) + Back(j)
    OBVIOUS
  <2>4. PICK before : before = [f \in Funds |-> If(f = User(j) /\ Deposited(j), Amount(j))]
    OBVIOUS
  <2>5. L!Pay(User(j), req[j].to, Amount(j), gained, before)
    BY <2>1, <2>3, <2>4, CommitPays
  <2>6. gained = L!Gained(req[j])
    BY <1>1, <1>4, <2>3 DEF L!Gained, Back, If, Amount
  <2>7. before = L!Change(User(j), Amount(j))
    BY <1>1, <2>4 DEF L!Change, If
  <2> QED
    BY <1>1, <1>2, <1>3, <1>5, <1>7, <2>2, <2>5, <2>6, <2>7 DEF L!Callback, User, Amount
<1> QED
  BY <1>6, <1>7

LEMMA CommitTransfer ==
  ASSUME LedgerInv, NEW j \in Jobs, Commit(j), req[j].kind = "transfer"
  PROVE  L!Transfer(req[j])
<1>1. /\ SupplyInv /\ IInv /\ Active(j) /\ LedgerJob(j) /\ ~Deposited(j)
      /\ UNCHANGED now
      /\ Spent(j) <=> IsPayment(j)
  BY Committing
<1>2. IsPayment(j)
  BY <1>1, RequestsAssumption DEF IsPayment, IInv, TypeOK
<1>3. Amount(j) \in Int /\ Amount(j) > 0
  BY <1>1, <1>2, AmountType DEF LedgerJob, KindOK
<1>4. "CASHBACK" \notin rows[j]
  BY <1>1 DEF SupplyInv, JobRows
<1>5. L!HoldsShrink(User(j), {})
  BY <1>2, CommitShrinks
<1>6. PICK gained : gained = If(Deposited(j), Amount(j)) + Back(j)
  OBVIOUS
<1>7. PICK before : before = [f \in Funds |-> If(f = User(j) /\ Deposited(j), Amount(j))]
  OBVIOUS
<1>8. L!Pay(User(j), req[j].to, Amount(j), gained, before)
  BY <1>2, <1>6, <1>7, CommitPays
<1>9. gained = 0
  BY <1>1, <1>4, <1>6 DEF Back, If
<1>10. before = [f \in Funds |-> 0]
  BY <1>1, <1>7 DEF If
<1>11. CreditedOrders' = CreditedOrders
  BY CommitCredits
<1> QED
  BY <1>1, <1>3, <1>5, <1>8, <1>9, <1>10, <1>11 DEF L!Transfer, User, Amount

LEMMA CommitWithdraw ==
  ASSUME LedgerInv, NEW j \in Jobs, Commit(j), req[j].kind = "withdraw"
  PROVE  L!Withdraw(req[j])
<1>1. /\ SupplyInv /\ IInv /\ Active(j) /\ LedgerJob(j) /\ ~Deposited(j)
      /\ cash' = [f \in Funds |-> Cash(j, f)]
      /\ hold' = [h \in HoldIds |-> Hold(j, h)]
      /\ UNCHANGED now /\ Withdrawn(j)
      /\ Given(j) <=> IsPayment(j)
      /\ Spent(j) <=> IsPayment(j)
      /\ pc[j] = "commit"
  BY Committing
<1>2. ~IsPayment(j) /\ ~Given(j) /\ ~Touches(j)
  BY <1>1 DEF IsPayment, Touches
<1>3. /\ Amount(j) \in Int /\ Amount(j) > 0 /\ User(j) \in Funds
      /\ \A f \in Funds : cash[f] \in Nat
  BY <1>1, AmountType, SupplyType DEF LedgerJob, KindOK
<1>4. \A f \in Funds : /\ cash'[f] = cash[f] + Moves(j, f, Amount(j))
                      /\ cash'[f] \in Nat
  BY CommitCash
<1>5. ASSUME NEW f \in Funds
      PROVE  Moves(j, f, Amount(j)) = L!Change(User(j), -Amount(j))[f]
  BY <1>1, <1>2, <1>3 DEF Moves, If, L!Change
<1>6. L!CashMoves(L!Change(User(j), -Amount(j)))
  BY <1>1, <1>4, <1>5 DEF L!CashMoves
<1>7. Amount(j) <= cash[User(j)]
  BY <1>3, <1>4, <1>5 DEF L!Change
<1>8. "CASHBACK" \notin rows[j]
  BY <1>1 DEF SupplyInv, JobRows
<1>9. \A h \in HoldIds : Hold(j, h) = hold[h]
  BY <1>1, <1>2, <1>8 DEF LedgerJob, HoldOK, BackOK, Hold
<1>10. hold' = hold
  BY <1>1, <1>9 DEF IInv, TypeOK
<1>11. CreditedOrders' = CreditedOrders
  BY CommitCredits
<1> QED
  BY <1>1, <1>3, <1>6, <1>7, <1>10, <1>11 DEF L!Withdraw, User, Amount

LEMMA CommitRelease ==
  ASSUME LedgerInv, NEW j \in Jobs, Commit(j), req[j].kind = "expired_unhold"
  PROVE  L!ExpiredUnhold
<1>1. /\ SupplyInv /\ IInv /\ Active(j) /\ LedgerJob(j)
      /\ cash' = [f \in Funds |-> Cash(j, f)]
      /\ hold' = [h \in HoldIds |-> Hold(j, h)]
      /\ j \in HoldIds /\ hold[j] = NoHold /\ UNCHANGED now
  BY Committing
<1>2. PICK S : S = {h \in HoldIds : hold[h] # NoHold /\ Hold(j, h) = NoHold}
  OBVIOUS
<1>3. PICK a : a = [h \in HoldIds |-> hold[h].amount]
  OBVIOUS
<1>4. "CASHBACK" \notin rows[j]
  BY <1>1 DEF SupplyInv, JobRows
<1>5. ASSUME NEW h \in HoldIds
      PROVE  /\ Hold(j, h) = IF h \in S THEN NoHold ELSE hold[h]
             /\ h \in S => hold[h].expired_at <= now
  <2>1. CASE h = j
    BY <1>1, <1>2, <1>4, <2>1 DEF LedgerJob, BackOK, Hold
  <2>2. CASE h # j
    BY <1>1, <1>2, <2>2 DEF LedgerJob, HoldOK, Eligible, Hold
  <2> QED
    BY <2>1, <2>2
<1>6. hold' = [h \in HoldIds |-> IF h \in S THEN NoHold ELSE hold[h]]
  BY <1>1, <1>5
<1>7. ASSUME NEW f \in Funds
      PROVE  Cash(j, f) = cash[f] + L!Total({h \in S : hold[h].fund = f}, a)
  <2>1. PICK T : T = {h \in S : hold[h].fund = f}
    OBVIOUS
  <2>2. T \in SUBSET HoldIds
    BY <1>2, <2>1
  <2>3. \A h \in T : Freed(j, f)[h] = a[h]
    BY <1>2, <1>3, <2>1 DEF Freed, If
  <2>4. \A h \in HoldIds \ T : Freed(j, f)[h] = 0
    BY <1>2, <2>1, NoHoldFacts DEF Freed, If
  <2>5. Total(T, a) = Total(HoldIds, Freed(j, f))
    BY <2>2, <2>3, <2>4, TotalPart
  <2>6. Cash(j, f) = cash[f] + Total(HoldIds, Freed(j, f))
    BY <1>1 DEF LedgerJob, ReleaseOK
  <2> QED
    BY <2>1, <2>5, <2>6, LedgerTotal
<1>8. L!CashMoves([f \in Funds |-> L!Total({h \in S : hold[h].fund = f}, a)])
  BY <1>1, <1>7 DEF L!CashMoves
<1>9. S \in SUBSET {h \in HoldIds : hold[h] # NoHold /\ hold[h].expired_at <= now}
  BY <1>2, <1>5
<1>10. CreditedOrders' = CreditedOrders
  BY CommitCredits
<1> QED
  BY <1>1, <1>3, <1>6, <1>8, <1>9, <1>10 DEF L!ExpiredUnhold

\* Nothing but a commit changes what the ledger is about.
LEMMA StepStutters ==
  ASSUME LedgerInv, NEW j \in Jobs, Begin(j) \/ Step(j) \/ Crash(j), ~Commit(j)
  PROVE  UNCHANGED <<now, cash, hold, CreditedOrders>>
<1>1. SupplyInv /\ Hidden(j) /\ pc[j] # "committed"
  BY StepHidden, StepsOfRunning DEF LedgerInv, Finished
<1>2. pc'[j] # "committed"
  <2>1. \A l : Goto(j, l) => pc'[j] = l
    BY <1>1 DEF Goto, SupplyInv, CallbackInv, IInv, TypeOK
  <2>2. Rollback(j) => pc'[j] # "committed"
    BY <2>1 DEF Rollback
  <2>3. CASE Begin(j)
    <3>1. req[j].kind \in {"callback", "transfer", "withdraw", "expired_unhold"}
      BY <1>1, RequestFacts DEF SupplyInv, CallbackInv, IInv, TypeOK
    <3> QED
      BY <2>1, <2>3, <3>1 DEF Begin, Entry
  <2>4. CASE Unhold(j) \/ LockHold(j)
    BY <1>1, <2>4 DEF Unhold, LockHold
  <2>5. CASE Deposit(j) \/ ReadCash(j) \/ ReadFrom(j) \/ IncrTo(j) \/ NoCashBack(j)
               \/ SelectExpired(j) \/ UnholdDone(j)
    BY <2>1, <2>5 DEF Deposit, ReadCash, ReadFrom, IncrTo, NoCashBack, SelectExpired,
                      UnholdDone
  <2>6. CASE CheckTotal(j) \/ SelectHolds(j) \/ Deduct(j) \/ CashBack(j)
    BY <2>1, <2>2, <2>6 DEF CheckTotal, SelectHolds, Deduct, CashBack
  <2>7. CASE DecrRemain(j) \/ Withdraw(j)
    BY <2>1, <2>2, <2>7 DEF DecrRemain, Withdraw, DecrCash
  <2>8. CASE RecordDeposit(j) \/ RecordTransfer(j) \/ RecordWithdraw(j)
    BY <2>1, <2>2, <2>8 DEF RecordDeposit, RecordTransfer, RecordWithdraw, Record, Insert
  <2> QED
    BY <2>2, <2>3, <2>4, <2>5, <2>6, <2>7, <2>8 DEF Step, Crash, DeadlockVictim
<1>3. \A k \in Jobs : Committed(k, "DEPOSIT")' <=> Committed(k, "DEPOSIT")
  BY <1>1, <1>2 DEF Hidden, Committed
<1>4. CreditedOrders' = CreditedOrders
  BY <1>1, <1>3 DEF Hidden, CreditedOrders
<1> QED
  BY <1>1, <1>4 DEF Hidden

LEMMA LedgerStarts == Init => L!Init
BY SetsAssumption, InitialAssumption DEF Init, L!Init, CreditedOrders, Committed, HoldIds

LEMMA LedgerStep ==
  ASSUME LedgerInv, [Next]_vars
  PROVE  [L!Next]_<<now, cash, hold, CreditedOrders>>
<1>1. CASE Tick
  BY <1>1 DEF Tick, L!Next, L!Tick, CreditedOrders, Committed, inserted
<1>2. CASE UNCHANGED vars
  BY <1>2 DEF vars, CreditedOrders, Committed
<1>3. ASSUME NEW j \in Jobs, Begin(j) \/ Step(j) \/ Crash(j)
      PROVE  [L!Next]_<<now, cash, hold, CreditedOrders>>
  <2>1. CASE Commit(j)
    <3>1. /\ req[j] \in Requests
          /\ req[j].kind \in {"callback", "transfer", "withdraw", "expired_unhold"}
      BY RequestFacts DEF LedgerInv, SupplyInv, CallbackInv, IInv, TypeOK
    <3>2. CASE req[j].kind = "callback"
      BY <2>1, <3>1, <3>2, CommitCallback DEF L!Next
    <3>3. CASE req[j].kind = "transfer"
      BY <2>1, <3>1, <3>3, CommitTransfer DEF L!Next
    <3>4. CASE req[j].kind = "withdraw"
      BY <2>1, <3>1, <3>4, CommitWithdraw DEF L!Next
    <3>5. CASE req[j].kind = "expired_unhold"
      BY <2>1, <3>5, CommitRelease DEF L!Next
    <3> QED
      BY <3>1, <3>2, <3>3, <3>4, <3>5
  <2>2. CASE ~Commit(j)
    BY <1>3, <2>2, StepStutters
  <2> QED
    BY <2>1, <2>2
<1> QED
  BY <1>1, <1>2, <1>3 DEF Next, Terminating

\* The interleaved transactions, with all their crashes and deadlocks, implement the ledger
\* that serves every request in one step: each commit is one of its steps, and no other step
\* changes the funds, the holds or the credited orders that others read.
THEOREM LedgerImplemented == Spec => ImplementsLedger
BY LedgerStarts, LedgerStep, LedgerInvariance, PTL DEF Spec, ImplementsLedger, L!Spec
=============================================================================
