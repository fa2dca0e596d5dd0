------------------------------- MODULE Wallet -------------------------------
(***************************************************************************)
(* The money-moving code of bshop-server: wallet/models.py and             *)
(* wallet/action.py, run by concurrent gunicorn and Celery processes       *)
(* against one PostgreSQL database at READ COMMITTED.                      *)
(*                                                                         *)
(* A job is one database transaction: a payment callback (deposit, then    *)
(* for a purchase the transfer to the vendor, then the cash back), a       *)
(* transfer, a withdrawal, or the release of expired holds.  Every         *)
(* statement that reads or writes a shared row is an action of its own, so *)
(* that the jobs interleave as they do in the database.                    *)
(*                                                                         *)
(* A row of Fund or HoldFund has a committed version (cash, hold), which   *)
(* every job reads, and a working version (cashW, holdW), which only the   *)
(* job that owns the row's lock reads and writes, until it commits or      *)
(* rolls back.  FundTransfer and FundAction rows are only inserted; they   *)
(* are kept with the job that inserts them and count when it commits.      *)
(***************************************************************************)
EXTENDS Totals

CONSTANTS
  Funds,        \* the funds, one per shop user
  Jobs,         \* transactions that may run, each once
  OldHolds,     \* HoldFund rows there at the start
  Orders,       \* ids of WeChat orders
  None,         \* NULL
  Requests,     \* what a job may be asked to do
  InitialCash,  \* Fund.cash at the start
  InitialHold,  \* the rows of OldHolds at the start
  Threshold,    \* CashBackSettings.threshold
  ExpiredDays,  \* CashBackSettings.expired_days
  MaxTime       \* bound: the clock stops here

\* Only one hold is created by a job, so the new row takes the job's name.
HoldIds == OldHolds \cup Jobs

Request ==
  [kind : {"callback", "transfer", "withdraw", "expired_unhold"},
   user : Funds, to : Funds \cup {None}, amount : Int,
   order : Orders \cup {None}]

HoldRow == [fund : Funds, amount : Nat \ {0}, expired_at : Int]

\* The id has no row: not yet inserted, or deleted.
NoHold == [fund |-> None, amount |-> 0, expired_at |-> 0]

ASSUME SetsAssumption ==
  /\ None \notin Funds \cup Jobs \cup Orders
  /\ OldHolds \cap Jobs = {}
  /\ IsFiniteSet(Funds) /\ IsFiniteSet(Jobs) /\ IsFiniteSet(OldHolds)

ASSUME SettingsAssumption ==
  Threshold \in Int /\ ExpiredDays \in Nat /\ MaxTime \in Nat

ASSUME InitialAssumption ==
  /\ InitialCash \in [Funds -> Nat]
  /\ InitialHold \in [OldHolds -> HoldRow]

\* A transfer names its payee; an order has an amount and a payee, and its payer is whoever
\* has the openid when it is delivered.  WeChat takes no payment below one fen.
ASSUME RequestsAssumption ==
  /\ Requests \subseteq Request
  /\ \A r \in Requests : r.kind = "transfer" => r.to # None
  /\ \A r \in Requests : r.kind = "callback" <=> r.order # None
  /\ \A r \in Requests : r.kind = "callback" => r.amount > 0
  /\ \A r, s \in Requests :
       r.order = s.order /\ r.order # None => r.amount = s.amount /\ r.to = s.to

VARIABLES
  now,       \* utc_now()
  cash,      \* Fund.cash, committed
  hold,      \* HoldFund rows, committed
  cashW,     \* Fund.cash, as the owner of the row's lock sees it
  holdW,     \* HoldFund rows, as the owner of the row's lock sees them
  cashLock,  \* the job whose transaction has locked the Fund row, or None
  holdLock,  \* the job whose transaction has locked the HoldFund row, or None
  pc,        \* what the job does next
  req,       \* the request the job serves
  seen,      \* the cash read by the job into a Python object
  want,      \* HoldFund rows a SELECT ... FOR UPDATE has yet to lock
  due,       \* remain_amount of do_transfer
  rows,      \* types of the FundTransfer rows the job has inserted
  audit      \* FundAction rows the job has inserted

vars == <<now, cash, hold, cashW, holdW, cashLock, holdLock,
          pc, req, seen, want, due, rows, audit>>

committedRows == <<now, cash, hold>>
workingCash == <<cashW, cashLock>>
workingHold == <<holdW, holdLock>>
inserted == <<rows, audit>>
locals == <<seen, want, due>>

Init ==
  /\ now = 0
  /\ cash = InitialCash /\ cashW = InitialCash
  /\ hold = [h \in HoldIds |-> IF h \in OldHolds THEN InitialHold[h] ELSE NoHold]
  /\ holdW = hold
  /\ cashLock = [f \in Funds |-> None]
  /\ holdLock = [h \in HoldIds |-> None]
  /\ pc = [j \in Jobs |-> "idle"]
  /\ req \in [Jobs -> Requests]
  /\ seen = [j \in Jobs |-> 0]
  /\ want = [j \in Jobs |-> {}]
  /\ due = [j \in Jobs |-> 0]
  /\ rows = [j \in Jobs |-> {}]
  /\ audit = [j \in Jobs |-> {}]
-----------------------------------------------------------------------------
(* What a job reads, and the row locks.                                    *)

User(j) == req[j].user
Amount(j) == req[j].amount

Goto(j, label) == pc' = [pc EXCEPT ![j] = label]

\* A read sees the job's own writes and otherwise what is committed.
Cash(j, f) == IF cashLock[f] = j THEN cashW[f] ELSE cash[f]
Hold(j, h) == IF holdLock[h] = j THEN holdW[h] ELSE hold[h]

HoldsOf(j, f) == {h \in HoldIds : Hold(j, h).fund = f}

\* HoldFundManager.total_amount
TotalHold(j, f) == Total(HoldsOf(j, f), [h \in HoldIds |-> Hold(j, h).amount])

\* Mutant of HoldFree: the rows are selected without FOR UPDATE.
HoldNotLocked(j, h) == h \in HoldIds

CashFree(j, f) == cashLock[f] \in {None, j}
HoldFree(j, h) == holdLock[h] \in {None, j}

\* The rows a job has locked and not deleted.
Locked(j) == {h \in HoldIds : holdLock[h] = j /\ holdW[h] # NoHold}

SetCash(j, f, value) ==
  /\ cashW' = [cashW EXCEPT ![f] = value]
  /\ cashLock' = [cashLock EXCEPT ![f] = j]

UnlockAll(j) ==
  /\ cashLock' = [f \in Funds |-> IF cashLock[f] = j THEN None ELSE cashLock[f]]
  /\ holdLock' = [h \in HoldIds |-> IF holdLock[h] = j THEN None ELSE holdLock[h]]
  /\ seen' = [seen EXCEPT ![j] = 0]
  /\ want' = [want EXCEPT ![j] = {}]
  /\ due' = [due EXCEPT ![j] = 0]

\* An exception leaves transaction.atomic: all of the job's writes are undone.
Rollback(j) ==
  /\ cashW' = [f \in Funds |-> IF cashLock[f] = j THEN cash[f] ELSE cashW[f]]
  /\ holdW' = [h \in HoldIds |-> IF holdLock[h] = j THEN hold[h] ELSE holdW[h]]
  /\ UnlockAll(j)
  /\ rows' = [rows EXCEPT ![j] = {}]
  /\ audit' = [audit EXCEPT ![j] = {}]
  /\ Goto(j, "aborted")
  /\ UNCHANGED <<committedRows, req>>

Commit(j) ==
  /\ pc[j] = "commit"
  /\ cash' = [f \in Funds |-> Cash(j, f)]
  /\ hold' = [h \in HoldIds |-> Hold(j, h)]
  /\ UnlockAll(j)
  /\ Goto(j, "committed")
  /\ UNCHANGED <<now, cashW, holdW, req, inserted>>

-----------------------------------------------------------------------------
(* do_deposit, do_transfer, do_withdraw and do_cash_back, one action per   *)
(* statement that touches a row another job may touch.                     *)

At(j, label) == pc[j] = label

Entry == [callback |-> "deposit", transfer |-> "read_cash",
          withdraw |-> "withdraw", expired_unhold |-> "select_expired"]

Finished == {"committed", "aborted"}
Active(j) == pc[j] \notin Finished \cup {"idle"}

Begin(j) ==
  /\ At(j, "idle")
  /\ Goto(j, Entry[req[j].kind])
  /\ UNCHANGED <<committedRows, workingCash, workingHold, req, locals, inserted>>

\* Mutant of Duplicate: no unique_together on FundTransfer.
NotUnique(j, type) == FALSE

\* FundTransfer is unique on (type, order_id); NULLs are distinct.
Duplicate(j, type) ==
  /\ req[j].order # None
  /\ \E k \in Jobs \ {j} :
       /\ pc[k] = "committed"
       /\ req[k].order = req[j].order
       /\ type \in rows[k]

\* The transactions that have inserted the row and may still roll it back.
Inserters(j, type) ==
  {k \in Jobs \ {j} : /\ Active(k) /\ type \in rows[k]
                      /\ req[k].order # None /\ req[k].order = req[j].order}

\* The insert waits for whoever has inserted the same key, and fails if that commits.
Insert(j, type) ==
  /\ ~Duplicate(j, type) /\ Inserters(j, type) = {}
  /\ rows' = [rows EXCEPT ![j] = @ \cup {type}]

\* FundTransfer.create; add_action for each fund the transfer touches.
Record(j, type, entries, label) ==
  \/ Duplicate(j, type) /\ Rollback(j)
  \/ /\ Insert(j, type)
     /\ audit' = [audit EXCEPT ![j] = @ \cup entries]
     /\ Goto(j, label)
     /\ UNCHANGED <<committedRows, workingCash, workingHold, req, locals>>

\* Fund.amount_d: cash as read earlier, hold read now.
Balance(j, f, value, type) ==
  [fund |-> f, type |-> type, cash |-> value, hold |-> TotalHold(j, f)]

\* Mutant of IncrCash: cash is read, added to and saved, with no row lock.
IncrCashUnlocked(j, f, amount) == SetCash(j, f, cash[f] + amount)

\* Fund.objects.incr_cash, past its guard: waits for the row, then adds.
IncrCash(j, f, amount) == CashFree(j, f) /\ SetCash(j, f, Cash(j, f) + amount)

\* Mutant of DecrCash: the UPDATE does not filter on cash__gte.
DecrCashUnfiltered(j, f, amount, label) ==
  /\ CashFree(j, f)
  /\ SetCash(j, f, Cash(j, f) - amount)
  /\ Goto(j, label)
  /\ UNCHANGED <<committedRows, workingHold, req, locals, inserted>>

\* Mutant of DecrCash: a short balance is tried again instead of refused.
DecrCashAwaited(j, f, amount, label) ==
  /\ Cash(j, f) >= amount /\ CashFree(j, f)
  /\ SetCash(j, f, Cash(j, f) - amount)
  /\ Goto(j, label)
  /\ UNCHANGED <<committedRows, workingHold, req, locals, inserted>>

\* Fund.objects.decr_cash, past its guard.  A row whose visible version is short
\* is not matched by the UPDATE and not waited for.
DecrCash(j, f, amount, label) ==
  \/ Cash(j, f) < amount /\ Rollback(j)
  \/ /\ Cash(j, f) >= amount
     /\ CashFree(j, f)
     /\ SetCash(j, f, Cash(j, f) - amount)
     /\ Goto(j, label)
     /\ UNCHANGED <<committedRows, workingHold, req, locals, inserted>>

\* What was paid for an order is positive, so incr_cash's own guard passes.
Deposit(j) ==
  /\ At(j, "deposit")
  /\ IncrCash(j, User(j), Amount(j))
  /\ Goto(j, "deposit_row")
  /\ UNCHANGED <<committedRows, workingHold, req, locals, inserted>>

RecordDeposit(j) ==
  /\ At(j, "deposit_row")
  /\ Record(j, "DEPOSIT", {Balance(j, User(j), Cash(j, User(j)), "DEPOSIT")},
            IF req[j].to = None THEN "cash_back" ELSE "read_cash")

\* Mutant of ReadCash: the payer's fund is read outside of the transaction.
ReadCashOutside(j) ==
  /\ At(j, "read_cash")
  /\ seen' = [seen EXCEPT ![j] = cash[User(j)]]
  /\ Goto(j, "check_total")
  /\ UNCHANGED <<committedRows, workingCash, workingHold, req, want, due, inserted>>

\* from_user.get_user_fund(): the payer's cash, read once.
ReadCash(j) ==
  /\ At(j, "read_cash")
  /\ seen' = [seen EXCEPT ![j] = Cash(j, User(j))]
  /\ Goto(j, "check_total")
  /\ UNCHANGED <<committedRows, workingCash, workingHold, req, want, due, inserted>>

\* from_fund.total < amount: the cash read before, the holds read now.
CheckTotal(j) ==
  /\ At(j, "check_total")
  /\ LET short == seen[j] + TotalHold(j, User(j)) < Amount(j)
     IN \/ short /\ Rollback(j)
        \/ /\ ~short
           /\ Goto(j, "select_holds")
           /\ UNCHANGED <<committedRows, workingCash, workingHold, req, locals, inserted>>

\* HoldFundManager.decr_hold: its guard and the snapshot of its SELECT FOR UPDATE.
SelectHolds(j) ==
  /\ At(j, "select_holds")
  /\ \/ Amount(j) <= 0 /\ Rollback(j)
     \/ /\ Amount(j) > 0
        /\ want' = [want EXCEPT ![j] = HoldsOf(j, User(j))]
        /\ Goto(j, "lock_holds")
        /\ UNCHANGED <<committedRows, workingCash, workingHold, req, seen, due, inserted>>

Later(j, g, h) == Hold(j, g).expired_at > Hold(j, h).expired_at

\* The rows the SELECT may lock next: decr_hold orders them by -expired_at (rows
\* that expire together in any order), expired_unhold does not order them.
NextToLock(j) ==
  IF At(j, "lock_holds")
  THEN {h \in want[j] : \A g \in want[j] : ~Later(j, g, h)}
  ELSE want[j]

\* A row deleted by another job since the snapshot is skipped.
LockHold(j) ==
  /\ pc[j] \in {"lock_holds", "lock_expired"}
  /\ \E h \in NextToLock(j) :
       /\ HoldFree(j, h)
       /\ want' = [want EXCEPT ![j] = @ \ {h}]
       /\ holdLock' = [holdLock EXCEPT ![h] = IF hold[h] = NoHold THEN @ ELSE j]
  /\ UNCHANGED <<committedRows, workingCash, holdW, pc, req, seen, due, inserted>>

\* Mutant of Enough: any hold is reduced, whatever is in it.
EnoughAnyRow(j) == Locked(j)

Enough(j) == {h \in Locked(j) : holdW[h].amount >= Amount(j)}

\* The loop of decr_hold, over the locked rows, latest first.  A row that covers the
\* amount is reduced and ends the loop.  Any row before it is deleted, and the
\* amount still to find stays what it was (the row's amount is zeroed first).
Deduct(j) ==
  /\ At(j, "lock_holds") /\ want[j] = {}
  /\ \/ \E h \in Enough(j), emptied \in SUBSET (Locked(j) \ Enough(j)) :
          /\ \A g \in Locked(j) : Later(j, g, h) => g \in emptied
          /\ \A g \in emptied : ~Later(j, h, g)
          /\ holdW' = [g \in HoldIds |->
               IF g \in emptied \/ (g = h /\ holdW[g].amount = Amount(j)) THEN NoHold
               ELSE IF g = h THEN [holdW[g] EXCEPT !.amount = @ - Amount(j)]
               ELSE holdW[g]]
          /\ Goto(j, "read_from")
          /\ UNCHANGED due
     \/ /\ Enough(j) = {}
        /\ holdW' = [g \in HoldIds |-> IF g \in Locked(j) THEN NoHold ELSE holdW[g]]
        /\ due' = [due EXCEPT ![j] = Amount(j)]
        /\ Goto(j, "decr_cash")
  /\ UNCHANGED <<committedRows, workingCash, holdLock, req, seen, want, inserted>>

DecrRemain(j) ==
  /\ At(j, "decr_cash")
  /\ DecrCash(j, User(j), due[j], "read_from")

\* new_from_fund = Fund.objects.get(id=from_fund.id)
ReadFrom(j) ==
  /\ At(j, "read_from")
  /\ seen' = [seen EXCEPT ![j] = Cash(j, User(j))]
  /\ Goto(j, "incr_to")
  /\ UNCHANGED <<committedRows, workingCash, workingHold, req, want, due, inserted>>

IncrTo(j) ==
  /\ At(j, "incr_to")
  /\ IncrCash(j, req[j].to, Amount(j))
  /\ Goto(j, "transfer_row")
  /\ UNCHANGED <<committedRows, workingHold, req, locals, inserted>>

\* add_action updates the payer's row when the payer is also the payee.
RecordTransfer(j) ==
  LET to == req[j].to
      paid == {Balance(j, to, Cash(j, to), "TRANSFER")}
  IN /\ At(j, "transfer_row")
     /\ Record(j, "TRANSFER",
               IF to = User(j) THEN paid
               ELSE paid \cup {Balance(j, User(j), seen[j], "TRANSFER")},
               IF req[j].kind = "callback" THEN "cash_back" ELSE "commit")

Withdraw(j) ==
  /\ At(j, "withdraw")
  /\ \/ Amount(j) <= 0 /\ Rollback(j)
     \/ Amount(j) > 0 /\ DecrCash(j, User(j), Amount(j), "withdraw_row")

RecordWithdraw(j) ==
  /\ At(j, "withdraw_row")
  /\ Record(j, "WITHDRAW", {Balance(j, User(j), Cash(j, User(j)), "WITHDRAW")}, "commit")

NoCashBack(j) ==
  /\ At(j, "cash_back") /\ Amount(j) < Threshold
  /\ Goto(j, "commit")
  /\ UNCHANGED <<committedRows, workingCash, workingHold, req, locals, inserted>>

\* The CASHBACK row, the new hold and then the audit row, which counts that hold.
CashBack(j) ==
  /\ At(j, "cash_back") /\ Amount(j) >= Threshold
  /\ \/ Duplicate(j, "CASHBACK") /\ Rollback(j)
     \/ /\ Insert(j, "CASHBACK")
        /\ holdW' = [holdW EXCEPT ![j] =
             [fund |-> User(j), amount |-> Amount(j), expired_at |-> now + ExpiredDays]]
        /\ holdLock' = [holdLock EXCEPT ![j] = j]
        /\ audit' = [audit EXCEPT ![j] = @ \cup
             {[Balance(j, User(j), Cash(j, User(j)), "CASHBACK")
                 EXCEPT !.hold = @ + Amount(j)]}]
        /\ Goto(j, "commit")
        /\ UNCHANGED <<committedRows, workingCash, req, locals>>
-----------------------------------------------------------------------------
(* expired_unhold, failures, and the next-state relation.                  *)

SelectExpired(j) ==
  /\ At(j, "select_expired")
  /\ want' = [want EXCEPT ![j] = {h \in HoldIds : /\ hold[h] # NoHold
                                                 /\ hold[h].expired_at <= now}]
  /\ Goto(j, "lock_expired")
  /\ UNCHANGED <<committedRows, workingCash, workingHold, req, seen, due, inserted>>

\* HoldFund.unhold: delete the row, then incr_cash its fund.
Unhold(j) ==
  /\ At(j, "lock_expired") /\ want[j] = {}
  /\ \E h \in Locked(j) :
       /\ IncrCash(j, holdW[h].fund, holdW[h].amount)
       /\ holdW' = [holdW EXCEPT ![h] = NoHold]
  /\ UNCHANGED <<committedRows, holdLock, pc, req, locals, inserted>>

UnholdDone(j) ==
  /\ At(j, "lock_expired") /\ want[j] = {} /\ Locked(j) = {}
  /\ Goto(j, "commit")
  /\ UNCHANGED <<committedRows, workingCash, workingHold, req, locals, inserted>>

\* The process dies or loses its connection: the server rolls back.
Crash(j) == Active(j) /\ Rollback(j)

\* The owners of the rows one of which the job's next statement locks, and of the row with
\* the key it inserts.
Owners(j) ==
  CASE At(j, "deposit") -> {cashLock[User(j)]}
    [] At(j, "withdraw") /\ Amount(j) > 0 /\ Cash(j, User(j)) >= Amount(j) ->
         {cashLock[User(j)]}
    [] At(j, "decr_cash") /\ Cash(j, User(j)) >= due[j] -> {cashLock[User(j)]}
    [] At(j, "incr_to") -> {cashLock[req[j].to]}
    [] At(j, "deposit_row") -> Inserters(j, "DEPOSIT")
    [] At(j, "transfer_row") -> Inserters(j, "TRANSFER")
    [] At(j, "cash_back") /\ Amount(j) >= Threshold -> Inserters(j, "CASHBACK")
    [] pc[j] \in {"lock_holds", "lock_expired"} /\ want[j] # {} ->
         {holdLock[h] : h \in NextToLock(j)}
    [] At(j, "lock_expired") /\ want[j] = {} ->
         {cashLock[holdW[h].fund] : h \in Locked(j)}
    [] OTHER -> {}

Blocked(j) == Owners(j) # {} /\ Owners(j) \cap {None, j} = {}

\* PostgreSQL finds a cycle of waiting transactions and fails one of them.
DeadlockVictim(j) ==
  /\ \E cycle \in SUBSET Jobs :
       /\ j \in cycle
       /\ \A k \in cycle : Blocked(k) /\ Owners(k) \subseteq cycle
       /\ \A k \in cycle : \E i \in cycle : k \in Owners(i)
  /\ Rollback(j)

Tick ==
  /\ now < MaxTime
  /\ now' = now + 1
  /\ UNCHANGED <<cash, hold, workingCash, workingHold, pc, req, locals, inserted>>

Step(j) ==
  \/ Deposit(j) \/ RecordDeposit(j)
  \/ ReadCash(j) \/ CheckTotal(j) \/ SelectHolds(j) \/ LockHold(j) \/ Deduct(j)
  \/ DecrRemain(j) \/ ReadFrom(j) \/ IncrTo(j) \/ RecordTransfer(j)
  \/ Withdraw(j) \/ RecordWithdraw(j)
  \/ NoCashBack(j) \/ CashBack(j)
  \/ SelectExpired(j) \/ Unhold(j) \/ UnholdDone(j)
  \/ Commit(j)
  \/ DeadlockVictim(j)

Terminating == (\A j \in Jobs : pc[j] \in Finished) /\ UNCHANGED vars

Next == Tick \/ Terminating \/ \E j \in Jobs : Begin(j) \/ Step(j) \/ Crash(j)

Spec == Init /\ [][Next]_vars

\* A transaction that has begun is run to its end by its process, and the deadlock
\* detector always runs; requests need not arrive and nothing needs to crash.
FairSpec == Spec /\ \A j \in Jobs : WF_vars(Step(j))
-----------------------------------------------------------------------------
(* Properties.                                                             *)

Labels == {"idle", "deposit", "deposit_row", "read_cash", "check_total", "select_holds",
           "lock_holds", "decr_cash", "read_from", "incr_to", "transfer_row",
           "withdraw", "withdraw_row", "cash_back", "select_expired", "lock_expired",
           "commit"} \cup Finished

Types == {"DEPOSIT", "TRANSFER", "WITHDRAW", "CASHBACK"}

\* Every variable has its type; a hold that exists belongs to a fund and is not empty
\* (decr_hold deletes what it empties).
TypeOK ==
  /\ now \in Nat
  /\ cash \in [Funds -> Int] /\ cashW \in [Funds -> Int]
  /\ hold \in [HoldIds -> HoldRow \cup {NoHold}]
  /\ holdW \in [HoldIds -> HoldRow \cup {NoHold}]
  /\ cashLock \in [Funds -> Jobs \cup {None}]
  /\ holdLock \in [HoldIds -> Jobs \cup {None}]
  /\ pc \in [Jobs -> Labels]
  /\ req \in [Jobs -> Requests]
  /\ seen \in [Jobs -> Int]
  /\ want \in [Jobs -> SUBSET HoldIds]
  /\ due \in [Jobs -> Int]
  /\ rows \in [Jobs -> SUBSET Types]
  /\ audit \in [Jobs -> SUBSET [fund : Funds, type : Types, cash : Int, hold : Int]]

\* No interleaving of transfers, withdrawals, deposits and releases overdraws a fund,
\* even before it commits (Fund.cash is a plain decimal: no database constraint says so,
\* and the total is checked long before the cash is taken).
NoOverdraft == \A f \in Funds : cash[f] >= 0 /\ cashW[f] >= 0

Committed(j, type) == pc[j] = "committed" /\ type \in rows[j]

\* Sum, over the jobs that committed a row of the type, of the row's amount.
Moved(type) == Total({j \in Jobs : Committed(j, type)}, [j \in Jobs |-> Amount(j)])

Supply == Total(Funds, cash) + Total(HoldIds, [h \in HoldIds |-> hold[h].amount])

InitialSupply ==
  Total(Funds, InitialCash) + Total(OldHolds, [h \in OldHolds |-> InitialHold[h].amount])

\* What the funds own never exceeds what came in: deposits and cash backs, less
\* withdrawals.  An increment that is lost or applied twice, a hold spent by two
\* transfers or both spent and released, would show here.
NoMoneyCreated ==
  Supply + Moved("WITHDRAW") <= InitialSupply + Moved("DEPOSIT") + Moved("CASHBACK")

\* Money is only moved (wallet/tests.py:test_transfer: the payer's total falls by the
\* amount, the payee's rises by it).  The code violates it: see decr_hold.
MoneyConserved ==
  Supply + Moved("WITHDRAW") = InitialSupply + Moved("DEPOSIT") + Moved("CASHBACK")

\* However often a callback is delivered, though the check for earlier deliveries is made
\* before the transaction, and though they may find different payers, an order is credited
\* once (order_updated).
OrderCreditedOnce ==
  \A j, k \in Jobs :
    j # k /\ Committed(j, "DEPOSIT") /\ Committed(k, "DEPOSIT") => req[j].order # req[k].order

\* A customer who paid for a purchase is never told that the balance is short, whatever
\* else spends or releases the customer's funds meanwhile: the deposit and the purchase
\* are one transaction.
PurchaseFunded ==
  \A j \in Jobs : req[j].kind = "callback" =>
    /\ At(j, "check_total") => seen[j] + TotalHold(j, User(j)) >= Amount(j)
    /\ At(j, "decr_cash") => Cash(j, User(j)) >= due[j]

\* A recorded balance is one the fund has when its transfer commits (FundAction.balance
\* is the "Current Balance").  Violated: cash and holds are read at different times and
\* the payer's Fund row is not locked when holds pay.
BalanceIsCurrent ==
  [][\A j \in Jobs : Commit(j) =>
       \A a \in audit[j] : a.type = "TRANSFER" /\ req[j].kind = "transfer" =>
         a.cash = cash'[a.fund]]_vars

\* Every transaction that starts ends: lock waits are finite and deadlocks are broken, those
\* through the unique index of two deliveries to different payers too.
JobsFinish == \A j \in Jobs : Active(j) ~> pc[j] \in Finished

CreditedOrders == {req[j].order : j \in {k \in Jobs : Committed(k, "DEPOSIT")}}

\* The interleaved transactions implement the ledger that serves every request in one
\* step: each commit is one of its steps, and nothing else changes what others read.
L == INSTANCE Ledger WITH credited <- CreditedOrders
ImplementsLedger == L!Spec
=============================================================================
