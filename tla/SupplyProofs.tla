---------------------------- MODULE SupplyProofs ----------------------------
(***************************************************************************)
(* No interleaving of the wallet's transactions creates money, for any     *)
(* number of jobs, funds and holds.  The argument keeps an account of each *)
(* running job: what the funds and holds own as the job sees them, which   *)
(* is what they will own when it commits, is at most what they own now and *)
(* what the job has brought in or taken out so far (Gain).                 *)
(***************************************************************************)
EXTENDS WalletProofs

SeenCash(j) == [f \in Funds |-> Cash(j, f)]
SeenHold(j) == [h \in HoldIds |-> Hold(j, h).amount]
SeenSupply(j) == Total(Funds, SeenCash(j)) + Total(HoldIds, SeenHold(j))

If(condition, amount) == IF condition THEN amount ELSE 0

\* What came in and went out by the job, were it to end here; between the payer and the
\* payee the amount is nobody's.
Gain(j) ==
  If(Deposited(j), Amount(j)) + If("CASHBACK" \in rows[j], Amount(j))
  - If(pc[j] \in {"read_from", "incr_to"}, Amount(j))
  - If(pc[j] = "withdraw_row" \/ "WITHDRAW" \in rows[j], Amount(j))

JobBalanced(j) == Active(j) => SeenSupply(j) <= Supply + Gain(j)

\* Which rows a job has inserted by now.
JobRows(j) ==
  /\ Deposited(j) /\ pc[j] # "deposit_row" => "DEPOSIT" \in rows[j]
  /\ "CASHBACK" \in rows[j] => req[j].kind = "callback" /\ pc[j] \in {"commit", "committed"}
  /\ "WITHDRAW" \in rows[j] => Amount(j) > 0 /\ pc[j] \in {"commit", "committed"}
  /\ pc[j] = "withdraw_row" => Amount(j) > 0

\* Locks are those of running jobs; an unlocked hold is as committed; and nobody but the job
\* whose name it has gets at a hold that is not committed.
LocksOK ==
  /\ \A f \in Funds, j \in Jobs : cashLock[f] = j => Active(j)
  /\ \A h \in HoldIds, j \in Jobs : holdLock[h] = j => Active(j)
  /\ \A h \in HoldIds : holdLock[h] = None => holdW[h] = hold[h]
  /\ \A j \in Jobs : pc[j] # "committed" => hold[j] = NoHold /\ holdLock[j] \in {None, j}

SupplyInv ==
  /\ CallbackInv /\ NoMoneyCreated /\ LocksOK
  /\ \A j \in Jobs : JobRows(j) /\ JobBalanced(j)
-----------------------------------------------------------------------------
(* Types, and what others see of a job's step.                             *)

LEMMA AmountType ==
  ASSUME IInv, NEW j \in Jobs
  PROVE  /\ Amount(j) \in Int /\ User(j) \in Funds
         /\ req[j].kind = "callback" => Amount(j) > 0
BY RequestFacts DEF IInv, TypeOK, Amount, User

LEMMA SeenType ==
  ASSUME IInv, NEW j \in Jobs
  PROVE  /\ \A f \in Funds : SeenCash(j)[f] = Cash(j, f) /\ Cash(j, f) \in Nat
         /\ \A h \in HoldIds : SeenHold(j)[h] = Hold(j, h).amount /\ Hold(j, h).amount \in Nat
         /\ SeenSupply(j) \in Nat
<1>1. \A f \in Funds : SeenCash(j)[f] = Cash(j, f) /\ Cash(j, f) \in Nat
  BY CashType DEF SeenCash
<1>2. ASSUME NEW h \in HoldIds
      PROVE  SeenHold(j)[h] = Hold(j, h).amount /\ Hold(j, h).amount \in Nat
  <2>1. Hold(j, h) \in HoldRow \cup {NoHold}
    BY DEF IInv, TypeOK, Hold
  <2> QED
    BY <2>1, HoldFacts DEF SeenHold
<1>3. Total(Funds, SeenCash(j)) \in Nat
  BY <1>1, SetsAssumption, TotalType
<1>4. Total(HoldIds, SeenHold(j)) \in Nat
  BY <1>2, HoldIdsFinite, TotalType
<1> QED
  BY <1>1, <1>2, <1>3, <1>4 DEF SeenSupply

\* The same after a step, and with it the type of the account.
SeenOK ==
  \A j \in Jobs :
    /\ \A f \in Funds : SeenCash(j)[f] = Cash(j, f) /\ Cash(j, f) \in Nat
    /\ \A h \in HoldIds : SeenHold(j)[h] = Hold(j, h).amount /\ Hold(j, h).amount \in Nat
    /\ SeenSupply(j) \in Nat /\ Gain(j) \in Int

LEMMA SeenNow == IInv => SeenOK
BY SeenType, AmountType DEF SeenOK, Gain, If

LEMMA SeenNext == IInv' => SeenOK'
BY SeenNow, PTL

HoldAmounts == [h \in HoldIds |-> hold[h].amount]

LEMMA SupplyType ==
  ASSUME IInv
  PROVE  /\ \A f \in Funds : cash[f] \in Nat
         /\ \A h \in HoldIds : HoldAmounts[h] = hold[h].amount /\ hold[h].amount \in Nat
         /\ Supply = Total(Funds, cash) + Total(HoldIds, HoldAmounts)
         /\ Total(Funds, cash) \in Nat /\ Total(HoldIds, HoldAmounts) \in Nat
<1>1. \A f \in Funds : cash[f] \in Nat
  BY DEF IInv, TypeOK, NoOverdraft
<1>2. ASSUME NEW h \in HoldIds
      PROVE  HoldAmounts[h] = hold[h].amount /\ hold[h].amount \in Nat
  <2>1. hold[h] \in HoldRow \cup {NoHold}
    BY DEF IInv, TypeOK
  <2> QED
    BY <2>1, HoldFacts DEF HoldAmounts
<1>3. Total(Funds, cash) \in Nat
  BY <1>1, SetsAssumption, TotalType
<1>4. Total(HoldIds, HoldAmounts) \in Nat
  BY <1>2, HoldIdsFinite, TotalType
<1> QED
  BY <1>1, <1>2, <1>3, <1>4 DEF Supply, HoldAmounts

\* A job that has locked nothing sees what is committed.
LEMMA SeesCommitted ==
  ASSUME NEW j \in Jobs,
         \A f \in Funds : cashLock[f] # j, \A h \in HoldIds : holdLock[h] # j,
         IInv
  PROVE  SeenSupply(j) = Supply
<1>1. \A f \in Funds : SeenCash(j)[f] = cash[f]
  BY DEF SeenCash, Cash
<1>2. \A h \in HoldIds : SeenHold(j)[h] = HoldAmounts[h]
  BY DEF SeenHold, Hold, HoldAmounts
<1>3. Total(Funds, SeenCash(j)) = Total(Funds, cash)
  BY <1>1, TotalSame
<1>4. Total(HoldIds, SeenHold(j)) = Total(HoldIds, HoldAmounts)
  BY <1>2, TotalSame
<1> QED
  BY <1>3, <1>4, SupplyType DEF SeenSupply

\* Another job sees the same after a step.
OtherSees(k) == /\ \A f \in Funds : Cash(k, f)' = Cash(k, f)
                /\ \A h \in HoldIds : Hold(k, h)' = Hold(k, h)

LEMMA SameSeen ==
  ASSUME NEW k \in Jobs, OtherSees(k)
  PROVE  SeenSupply(k)' = SeenSupply(k)
<1>1. SeenCash(k)' = SeenCash(k)
  BY DEF SeenCash, OtherSees
<1>2. SeenHold(k)' = SeenHold(k)
  BY DEF SeenHold, OtherSees
<1> QED
  BY <1>1, <1>2 DEF SeenSupply

\* A step that publishes nothing: the others, what they see and what is committed stay.
Private(j) ==
  /\ UNCHANGED <<cash, hold, req>>
  /\ \A k \in Jobs \ {j} : pc'[k] = pc[k] /\ rows'[k] = rows[k] /\ OtherSees(k)

LEMMA GainSame ==
  ASSUME NEW k \in Jobs, pc'[k] = pc[k], rows'[k] = rows[k], UNCHANGED req
  PROVE  Gain(k)' = Gain(k) /\ (JobRows(k) => JobRows(k)') /\ Active(k)' = Active(k)
BY DEF Gain, If, JobRows, Deposited, Active, Amount

LEMMA PrivateKeeps ==
  ASSUME SupplyInv, NEW j \in Jobs, Private(j),
         pc[j] # "committed", pc'[j] # "committed", JobRows(j)', JobBalanced(j)'
  PROVE  NoMoneyCreated' /\ \A k \in Jobs : JobRows(k)' /\ JobBalanced(k)'
<1>1. Supply' = Supply
  BY DEF Private, Supply
<1>2. ASSUME NEW type
      PROVE  Moved(type)' = Moved(type)
  <2>1. \A k \in Jobs : Committed(k, type)' <=> Committed(k, type)
    BY DEF Private, Committed
  <2>2. \A k \in Jobs : Amount(k)' = Amount(k)
    BY DEF Private, Amount
  <2>3. {k \in Jobs : Committed(k, type)}' = {k \in Jobs : Committed(k, type)}
    BY <2>1
  <2>4. [k \in Jobs |-> Amount(k)]' = [k \in Jobs |-> Amount(k)]
    BY <2>2
  <2> QED
    BY <2>3, <2>4 DEF Moved
<1>3. NoMoneyCreated'
  <2>1. InitialSupply' = InitialSupply
    BY DEF InitialSupply
  <2> QED
    BY <1>1, <1>2, <2>1 DEF SupplyInv, NoMoneyCreated
<1>4. ASSUME NEW k \in Jobs \ {j}
      PROVE  JobRows(k)' /\ JobBalanced(k)'
  <2>1. SeenSupply(k)' = SeenSupply(k)
    BY SameSeen DEF Private
  <2>2. Gain(k)' = Gain(k) /\ JobRows(k)' /\ Active(k)' = Active(k)
    BY GainSame DEF Private, SupplyInv
  <2> QED
    BY <1>1, <2>1, <2>2 DEF SupplyInv, JobBalanced
<1> QED
  BY <1>3, <1>4

\* The job's account after a step that brings in at least d more than it gives away.
LEMMA StillBalanced ==
  ASSUME SupplyInv, NEW j \in Jobs, Private(j), NEW d \in Int,
         SeenSupply(j) <= Supply + Gain(j),
         SeenSupply(j)' \in Nat, SeenSupply(j)' <= SeenSupply(j) + d,
         Gain(j)' \in Int, Gain(j)' >= Gain(j) + d
  PROVE  JobBalanced(j)'
<1>1. Supply' = Supply
  BY DEF Private, Supply
<1>2. Supply \in Nat /\ SeenSupply(j) \in Nat
  BY SeenType, SupplyType DEF SupplyInv, CallbackInv
<1>3. Gain(j) \in Int
  BY AmountType DEF SupplyInv, CallbackInv, Gain, If
<1> QED
  BY <1>1, <1>2, <1>3 DEF JobBalanced

\* Locks are taken by running jobs, and of holds that are committed, or are their own.
LEMMA LocksKeep ==
  ASSUME SupplyInv, NEW j \in Jobs, Private(j), Active(j)', pc[j] # "committed",
         \A f \in Funds : cashLock'[f] \in {cashLock[f], j},
         \A h \in HoldIds :
           \/ holdLock'[h] = holdLock[h] /\ (holdW'[h] = holdW[h] \/ holdLock[h] = j)
           \/ holdLock'[h] = j /\ (hold[h] # NoHold \/ h = j)
  PROVE  LocksOK'
<1>1. \A k \in Jobs : Active(k) => Active(k)'
  BY DEF Private, Active
<1>2. \A f \in Funds, k \in Jobs : cashLock'[f] = k => Active(k)'
  BY <1>1 DEF SupplyInv, LocksOK
<1>3. \A h \in HoldIds, k \in Jobs : holdLock'[h] = k => Active(k)'
  BY <1>1 DEF SupplyInv, LocksOK
<1>4. \A h \in HoldIds : holdLock'[h] = None => holdW'[h] = hold'[h]
  BY SetsAssumption DEF SupplyInv, LocksOK, Private
<1>5. ASSUME NEW k \in Jobs, pc'[k] # "committed"
      PROVE  hold'[k] = NoHold /\ holdLock'[k] \in {None, k}
  <2>1. pc[k] # "committed" /\ k \in HoldIds
    BY <1>5 DEF Private, HoldIds
  <2>2. hold[k] = NoHold /\ holdLock[k] \in {None, k}
    BY <2>1 DEF SupplyInv, LocksOK
  <2> QED
    BY <2>1, <2>2 DEF Private
<1> QED
  BY <1>2, <1>3, <1>4, <1>5 DEF LocksOK

-----------------------------------------------------------------------------
(* The kinds of steps.                                                     *)

\* What is to be shown of a step, besides CallbackInv'.
Kept == LocksOK' /\ NoMoneyCreated' /\ \A k \in Jobs : JobRows(k)' /\ JobBalanced(k)'

\* Unlocking, and taking locks.
Locks(j) ==
  /\ \A f \in Funds : cashLock'[f] \in {cashLock[f], j}
  /\ \A h \in HoldIds :
       \/ holdLock'[h] = holdLock[h] /\ (holdW'[h] = holdW[h] \/ holdLock[h] = j)
       \/ /\ holdLock'[h] = j /\ holdLock[h] \in {None, j}
          /\ hold[h] # NoHold \/ h = j

LEMMA Started ==
  ASSUME SupplyInv, NEW j \in Jobs, pc[j] \notin Finished
  PROVE  SeenSupply(j) <= Supply + Gain(j)
<1>1. CASE Active(j)
  BY <1>1 DEF SupplyInv, JobBalanced
<1>2. CASE ~Active(j)
  <2>1. pc[j] = "idle"
    BY <1>2 DEF Active
  <2>2. SeenSupply(j) = Supply
    BY <1>2, SeesCommitted DEF SupplyInv, LocksOK, CallbackInv
  <2>3. rows[j] = {}
    BY <2>1 DEF SupplyInv, CallbackInv, CallbackJob
  <2>4. Gain(j) = 0
    BY <2>1, <2>3, AmountType DEF Gain, If, Deposited, Active
  <2>5. Supply \in Nat
    BY SupplyType DEF SupplyInv, CallbackInv
  <2> QED
    BY <2>2, <2>4, <2>5
<1> QED
  BY <1>1, <1>2

LEMMA Advance ==
  ASSUME SupplyInv, IInv', NEW j \in Jobs, Private(j), Locks(j),
         pc[j] \notin Finished, Active(j)', JobRows(j)',
         NEW d \in Int, SeenSupply(j)' <= SeenSupply(j) + d, Gain(j)' >= Gain(j) + d
  PROVE  Kept
<1>1. SeenSupply(j)' \in Nat
  BY SeenNext DEF SeenOK
<1>2. Gain(j)' \in Int
  BY SeenNext DEF SeenOK
<1>3. JobBalanced(j)'
  BY <1>1, <1>2, Started, StillBalanced
<1>4. pc[j] # "committed" /\ pc'[j] # "committed"
  BY DEF Active, Finished
<1>5. LocksOK'
  BY <1>4, LocksKeep DEF Locks
<1> QED
  BY <1>3, <1>4, <1>5, PrivateKeeps DEF Kept

\* Reads and inserts.
LEMMA QuietKept ==
  ASSUME SupplyInv, IInv', NEW j \in Jobs,
         UNCHANGED <<cash, hold, workingCash, workingHold, req>>,
         NEW l \in Labels \ (Finished \cup {"idle"}), Goto(j, l), pc[j] \notin Finished,
         \A k \in Jobs \ {j} : rows'[k] = rows[k],
         JobRows(j)', Gain(j)' >= Gain(j)
  PROVE  Kept
<1>1. pc'[j] = l /\ \A k \in Jobs \ {j} : pc'[k] = pc[k]
  BY DEF Goto, SupplyInv, CallbackInv, IInv, TypeOK
<1>2. \A k \in Jobs : OtherSees(k)
  BY DEF OtherSees, Cash, Hold, workingCash, workingHold
<1>3. Private(j) /\ Locks(j)
  BY <1>1, <1>2 DEF Private, Locks, workingCash, workingHold
<1>4. Active(j)'
  BY <1>1 DEF Active
<1>5. SeenSupply(j)' = SeenSupply(j) /\ SeenSupply(j) \in Nat
  BY <1>2, SameSeen, SeenType DEF SupplyInv, CallbackInv
<1>6. Gain(j) \in Int
  BY AmountType DEF Gain, If, SupplyInv, CallbackInv
<1>7. SeenSupply(j)' <= SeenSupply(j) + 0 /\ Gain(j)' >= Gain(j) + 0
  BY <1>5, <1>6
<1> QED
  BY <1>3, <1>4, <1>7, Advance

\* A fund is written: the job sees it change by d.
LEMMA SetCashSeen ==
  ASSUME SupplyInv, IInv', NEW j \in Jobs, NEW f \in Funds, NEW d \in Int,
         CashFree(j, f), SetCash(j, f, Cash(j, f) + d), UNCHANGED cash
  PROVE  /\ \A k \in Jobs \ {j}, g \in Funds : Cash(k, g)' = Cash(k, g)
         /\ \A g \in Funds : cashLock'[g] \in {cashLock[g], j}
         /\ Total(Funds, SeenCash(j)') = Total(Funds, SeenCash(j)) + d
<1>1. cashW \in [Funds -> Int] /\ cashLock \in [Funds -> Jobs \cup {None}]
  BY DEF SupplyInv, CallbackInv, IInv, TypeOK
<1>2. \A k \in Jobs \ {j}, g \in Funds : Cash(k, g)' = Cash(k, g)
  BY <1>1, SetsAssumption DEF Cash, CashFree, SetCash
<1>3. \A g \in Funds : cashLock'[g] \in {cashLock[g], j}
  BY <1>1 DEF SetCash
<1>4. Cash(j, f)' = Cash(j, f) + d /\ \A g \in Funds \ {f} : Cash(j, g)' = Cash(j, g)
  BY <1>1 DEF Cash, SetCash
<1>5. \A g \in Funds : SeenCash(j)[g] = Cash(j, g) /\ Cash(j, g) \in Nat
  BY SeenType DEF SupplyInv, CallbackInv
<1>6. \A g \in Funds : SeenCash(j)'[g] = Cash(j, g)' /\ Cash(j, g)' \in Nat
  BY SeenNext DEF SeenOK
<1> DEFINE a == SeenCash(j)
           b == SeenCash(j)'
<1>7. /\ \A g \in Funds : a[g] \in Nat /\ b[g] \in Nat
      /\ \A g \in Funds \ {f} : a[g] = b[g]
      /\ b[f] = a[f] + d /\ a[f] \in Nat
  BY <1>4, <1>5, <1>6
<1>8. Total(Funds, a) \in Nat /\ Total(Funds, b) \in Nat
  <2>1. \A g \in Funds : a[g] \in Int /\ b[g] \in Int
    BY <1>7
  <2> HIDE DEF a, b
  <2> QED
    BY <2>1, SetsAssumption, TotalType
<1>9. Total(Funds, b) + a[f] = Total(Funds, a) + b[f]
  <2> HIDE DEF a, b
  <2> QED
    BY <1>7, SetsAssumption, TotalChange
<1>10. Total(Funds, b) = Total(Funds, a) + d
  <2> HIDE DEF a, b
  <2> QED
    BY <1>7, <1>8, <1>9
<1> QED
  BY <1>2, <1>3, <1>10

LEMMA SetCashKept ==
  ASSUME SupplyInv, IInv', NEW j \in Jobs, NEW f \in Funds, NEW d \in Int,
         CashFree(j, f), SetCash(j, f, Cash(j, f) + d),
         UNCHANGED <<cash, hold, workingHold, req, rows>>,
         NEW l \in Labels \ (Finished \cup {"idle"}), Goto(j, l), pc[j] \notin Finished,
         JobRows(j)', Gain(j)' >= Gain(j) + d
  PROVE  Kept
<1>1. pc'[j] = l /\ \A k \in Jobs \ {j} : pc'[k] = pc[k]
  BY DEF Goto, SupplyInv, CallbackInv, IInv, TypeOK
<1>2. \A k \in Jobs, h \in HoldIds : Hold(k, h)' = Hold(k, h)
  BY DEF Hold, workingHold
<1>3. Private(j) /\ Locks(j)
  BY <1>1, <1>2, SetCashSeen DEF Private, Locks, OtherSees, workingHold
<1>4. Active(j)'
  BY <1>1 DEF Active
<1>5. SeenHold(j)' = SeenHold(j)
  BY <1>2 DEF SeenHold
<1>6. /\ \A g \in Funds : SeenCash(j)[g] \in Int
      /\ \A h \in HoldIds : SeenHold(j)[h] \in Int
  BY SeenType DEF SupplyInv, CallbackInv
<1>7. Total(Funds, SeenCash(j)) \in Nat /\ Total(HoldIds, SeenHold(j)) \in Nat
  BY <1>6, SetsAssumption, HoldIdsFinite, TotalType
<1>8. SeenSupply(j)' <= SeenSupply(j) + d
  BY <1>5, <1>7, SetCashSeen DEF SeenSupply
<1> QED
  BY <1>3, <1>4, <1>8, Advance

\* Holds are locked or written: the others see what they saw.
LEMMA HoldsOthers ==
  ASSUME IInv, NEW j \in Jobs, Locks(j), UNCHANGED hold
  PROVE  \A k \in Jobs \ {j}, h \in HoldIds : Hold(k, h)' = Hold(k, h)
BY SetsAssumption DEF IInv, TypeOK, Locks, Hold

\* The job and the others see no fund change, and the holds the job sees bring it d at most.
LEMMA HoldsKept ==
  ASSUME SupplyInv, IInv', NEW j \in Jobs, Locks(j), NEW d \in Int,
         UNCHANGED <<cash, hold, workingCash, req>>,
         \A k \in Jobs \ {j} : pc'[k] = pc[k] /\ rows'[k] = rows[k],
         pc[j] \notin Finished, Active(j)', JobRows(j)',
         Total(HoldIds, SeenHold(j)') <= Total(HoldIds, SeenHold(j)) + d,
         Gain(j)' >= Gain(j) + d
  PROVE  Kept
<1>1. \A k \in Jobs, f \in Funds : Cash(k, f)' = Cash(k, f)
  BY DEF Cash, workingCash
<1>2. Private(j)
  BY <1>1, HoldsOthers DEF Private, OtherSees, SupplyInv, CallbackInv
<1>3. SeenCash(j)' = SeenCash(j)
  BY <1>1 DEF SeenCash
<1>4. /\ \A f \in Funds : SeenCash(j)[f] \in Int
      /\ \A h \in HoldIds : SeenHold(j)[h] \in Int /\ SeenHold(j)'[h] \in Int
  BY SeenType, SeenNext DEF SupplyInv, CallbackInv, SeenOK
<1>5. Total(Funds, SeenCash(j)) \in Nat
  BY <1>4, SetsAssumption, TotalType
<1>6. Total(HoldIds, SeenHold(j)) \in Nat /\ Total(HoldIds, SeenHold(j)') \in Nat
  BY <1>4, HoldIdsFinite, TotalType
<1>7. SeenSupply(j)' <= SeenSupply(j) + d
  BY <1>3, <1>5, <1>6 DEF SeenSupply
<1> QED
  BY <1>2, <1>7, Advance

\* Of the holds the job sees one comes to v at most, and none of the others grows.
LEMMA SeenHoldsFall ==
  ASSUME IInv, IInv', NEW j \in Jobs, NEW h \in HoldIds, NEW v \in Nat,
         \A g \in HoldIds \ {h} : Hold(j, g)'.amount <= Hold(j, g).amount,
         Hold(j, h)'.amount <= v
  PROVE  Total(HoldIds, SeenHold(j)') <= Total(HoldIds, SeenHold(j)) + v - Hold(j, h).amount
<1> DEFINE a == SeenHold(j)
           b == [SeenHold(j) EXCEPT ![h] = v]
           c == SeenHold(j)'
<1>1. /\ \A g \in HoldIds : a[g] = Hold(j, g).amount /\ Hold(j, g).amount \in Nat
      /\ \A g \in HoldIds : c[g] = Hold(j, g)'.amount /\ Hold(j, g)'.amount \in Nat
  BY SeenNow, SeenNext DEF SeenOK
<1>2. b[h] = v /\ \A g \in HoldIds \ {h} : b[g] = a[g]
  BY DEF SeenHold
<1>3. /\ \A g \in HoldIds : a[g] \in Nat /\ b[g] \in Nat /\ c[g] \in Nat /\ c[g] <= b[g]
      /\ \A g \in HoldIds \ {h} : a[g] = b[g]
      /\ a[h] = Hold(j, h).amount
  BY <1>1, <1>2
<1> HIDE DEF a, b, c
<1>4. Total(HoldIds, b) + a[h] = Total(HoldIds, a) + b[h]
  BY <1>3, HoldIdsFinite, TotalChange
<1>5. Total(HoldIds, c) <= Total(HoldIds, b)
  BY <1>3, HoldIdsFinite, TotalAtMost
<1>6. /\ Total(HoldIds, a) \in Nat /\ Total(HoldIds, b) \in Nat
      /\ Total(HoldIds, c) \in Nat
  BY <1>3, HoldIdsFinite, TotalType
<1>7. Total(HoldIds, c) <= Total(HoldIds, a) + v - a[h]
  BY <1>2, <1>3, <1>4, <1>5, <1>6
<1> QED
  BY <1>3, <1>7 DEF a, c

-----------------------------------------------------------------------------
(* The actions.                                                            *)

Midway == Labels \ (Finished \cup {"idle", "deposit", "deposit_row", "withdraw_row"})

\* From one place to another, between which nothing is inserted.
LEMMA Going ==
  ASSUME SupplyInv, NEW j \in Jobs, UNCHANGED <<req, rows>>,
         pc[j] \in Midway \ {"commit"}, NEW l \in Midway, pc'[j] = l
  PROVE  /\ JobRows(j)' /\ Active(j)' /\ pc[j] \notin Finished
         /\ Gain(j)' = Gain(j) + If(pc[j] \in {"read_from", "incr_to"}, Amount(j))
                               - If(l \in {"read_from", "incr_to"}, Amount(j))
<1>1. Active(j) /\ Active(j)' /\ Deposited(j)' = Deposited(j)
  BY DEF Midway, Active, Deposited
<1>2. JobRows(j)'
  BY <1>1 DEF SupplyInv, JobRows, Midway, Finished, Amount
<1>3. Amount(j) \in Int /\ Amount(j)' = Amount(j)
  BY AmountType DEF SupplyInv, CallbackInv, Amount
<1>4. pc[j] # "withdraw_row" /\ l # "withdraw_row"
  BY DEF Midway
<1>5. Gain(j)' = Gain(j) + If(pc[j] \in {"read_from", "incr_to"}, Amount(j))
                         - If(l \in {"read_from", "incr_to"}, Amount(j))
  BY <1>1, <1>3, <1>4 DEF Gain, If
<1> QED
  BY <1>1, <1>2, <1>5 DEF Active, Midway

LEMMA LockKept ==
  ASSUME SupplyInv, IInv', NEW j \in Jobs, LockHold(j)
  PROVE  Kept
<1>1. PICK h \in NextToLock(j) :
        /\ HoldFree(j, h)
        /\ holdLock' = [holdLock EXCEPT ![h] = IF hold[h] = NoHold THEN @ ELSE j]
  BY DEF LockHold
<1>2. /\ UNCHANGED <<cash, hold, workingCash, holdW, pc, req, rows>>
      /\ pc[j] \in {"lock_holds", "lock_expired"}
  BY DEF LockHold, committedRows, inserted
<1>3. h \in HoldIds /\ holdLock \in [HoldIds -> Jobs \cup {None}]
  BY <1>1 DEF NextToLock, SupplyInv, CallbackInv, IInv, TypeOK
<1>4. Locks(j)
  BY <1>1, <1>2, <1>3 DEF Locks, HoldFree, workingCash
<1>5. \A g \in HoldIds : Hold(j, g)' = Hold(j, g)
  BY <1>1, <1>2, <1>3 DEF Hold, HoldFree, SupplyInv, LocksOK
<1>6. SeenHold(j)' = SeenHold(j)
  BY <1>5 DEF SeenHold
<1>7. \A g \in HoldIds : SeenHold(j)[g] \in Int
  BY SeenType DEF SupplyInv, CallbackInv
<1>8. Total(HoldIds, SeenHold(j)') <= Total(HoldIds, SeenHold(j)) + 0
  BY <1>6, <1>7, HoldIdsFinite, TotalType
<1>9. /\ JobRows(j)' /\ Active(j)' /\ pc[j] \notin Finished /\ Gain(j)' >= Gain(j) + 0
  <2>1. Gain(j)' = Gain(j) /\ Gain(j) \in Int
    BY <1>2, GainSame, SeenNow DEF SupplyInv, CallbackInv, SeenOK
  <2> QED
    BY <1>2, <2>1, GainSame DEF SupplyInv, Active, Finished
<1> QED
  BY <1>2, <1>4, <1>8, <1>9, HoldsKept

LEMMA DeductKept ==
  ASSUME SupplyInv, IInv', NEW j \in Jobs, Deduct(j)
  PROVE  Kept
<1>1. /\ UNCHANGED <<cash, hold, workingCash, holdLock, req, rows>>
      /\ pc[j] = "lock_holds"
  BY DEF Deduct, At, committedRows, inserted
<1>t. /\ holdW \in [HoldIds -> HoldRow \cup {NoHold}] /\ pc \in [Jobs -> Labels]
      /\ Amount(j) > 0 /\ Amount(j) \in Int
  BY <1>1, AmountType DEF SupplyInv, CallbackInv, IInv, TypeOK, ControlOK
<1>a. \A g \in HoldIds : holdW[g].amount \in Nat
  BY <1>t, HoldFacts
<1>2. CASE \E h \in Enough(j), emptied \in SUBSET (Locked(j) \ Enough(j)) :
             /\ holdW' = [g \in HoldIds |->
                  IF g \in emptied \/ (g = h /\ holdW[g].amount = Amount(j)) THEN NoHold
                  ELSE IF g = h THEN [holdW[g] EXCEPT !.amount = @ - Amount(j)]
                  ELSE holdW[g]]
             /\ Goto(j, "read_from")
  <2>1. PICK h \in Enough(j), emptied \in SUBSET (Locked(j) \ Enough(j)) :
             /\ holdW' = [g \in HoldIds |->
                  IF g \in emptied \/ (g = h /\ holdW[g].amount = Amount(j)) THEN NoHold
                  ELSE IF g = h THEN [holdW[g] EXCEPT !.amount = @ - Amount(j)]
                  ELSE holdW[g]]
             /\ Goto(j, "read_from")
    BY <1>2
  <2> DEFINE v == holdW[h].amount - Amount(j)
  <2>2. /\ h \in HoldIds /\ holdLock[h] = j /\ v \in Nat /\ h \notin emptied
        /\ holdW[h] \in HoldRow
        /\ \A g \in emptied : g \in HoldIds /\ holdLock[g] = j
    BY <1>t, <1>a DEF Enough, Locked
  <2>3. holdW'[h].amount <= v
    <3>1. CASE holdW[h].amount = Amount(j)
      BY <1>t, <2>1, <2>2, <3>1 DEF NoHold
    <3>2. CASE holdW[h].amount # Amount(j)
      <4>1. holdW'[h] = [holdW[h] EXCEPT !.amount = v]
        BY <2>1, <2>2, <3>2
      <4> QED
        BY <2>2, <4>1 DEF HoldRow
    <3> QED
      BY <3>1, <3>2
  <2>4. \A g \in HoldIds \ {h} : \/ holdW'[g] = holdW[g]
                                 \/ g \in emptied /\ holdW'[g] = NoHold
    BY <2>1
  <2>5. \A g \in HoldIds \ {h} : Hold(j, g)'.amount <= Hold(j, g).amount
    BY <1>1, <1>a, <2>2, <2>4, SeenNow DEF Hold, NoHold, SupplyInv, CallbackInv, SeenOK
  <2>6. Hold(j, h)'.amount <= v /\ Hold(j, h).amount = holdW[h].amount
    BY <1>1, <2>2, <2>3 DEF Hold
  <2>7. Total(HoldIds, SeenHold(j)') <= Total(HoldIds, SeenHold(j)) + v - holdW[h].amount
    BY <2>2, <2>5, <2>6, SeenHoldsFall DEF SupplyInv, CallbackInv
  <2>8. Total(HoldIds, SeenHold(j)) \in Int /\ holdW[h].amount \in Int
    BY <1>a, <2>2, SeenNow, HoldIdsFinite, TotalType DEF SupplyInv, CallbackInv, SeenOK
  <2>9. Total(HoldIds, SeenHold(j)') <= Total(HoldIds, SeenHold(j)) + (-Amount(j))
    BY <1>t, <2>7, <2>8
  <2>10. Locks(j)
    BY <1>1, <2>2, <2>4 DEF Locks, workingCash
  <2>11. pc'[j] = "read_from" /\ \A k \in Jobs \ {j} : pc'[k] = pc[k] /\ rows'[k] = rows[k]
    BY <1>1, <1>t, <2>1 DEF Goto
  <2>12. /\ JobRows(j)' /\ Active(j)' /\ pc[j] \notin Finished
         /\ Gain(j)' = Gain(j) - Amount(j)
    <3>1. "lock_holds" \in Midway \ {"commit"} /\ "read_from" \in Midway
      BY DEF Midway, Labels, Finished
    <3>2. Gain(j) \in Int
      BY SeenNow DEF SupplyInv, CallbackInv, SeenOK
    <3> QED
      BY <1>1, <1>t, <2>11, <3>1, <3>2, Going DEF If
  <2>13. Gain(j)' >= Gain(j) + (-Amount(j))
    BY <1>t, <2>12, SeenNow DEF SupplyInv, CallbackInv, SeenOK
  <2> QED
    BY <1>1, <1>t, <2>9, <2>10, <2>11, <2>12, <2>13, HoldsKept
<1>3. CASE /\ holdW' = [g \in HoldIds |-> IF g \in Locked(j) THEN NoHold ELSE holdW[g]]
           /\ Goto(j, "decr_cash")
  <2>1. \A g \in HoldIds : \/ holdW'[g] = holdW[g]
                           \/ holdLock[g] = j /\ holdW'[g] = NoHold
    BY <1>3 DEF Locked
  <2>2. \A g \in HoldIds : Hold(j, g)'.amount <= Hold(j, g).amount
    BY <1>1, <1>a, <2>1, SeenNow DEF Hold, NoHold, SupplyInv, CallbackInv, SeenOK
  <2>3. \A g \in HoldIds : /\ SeenHold(j)[g] \in Int /\ SeenHold(j)'[g] \in Int
                           /\ SeenHold(j)'[g] <= SeenHold(j)[g]
    BY <2>2, SeenNow, SeenNext DEF SupplyInv, CallbackInv, SeenOK
  <2>4. Total(HoldIds, SeenHold(j)') <= Total(HoldIds, SeenHold(j))
    BY <2>3, HoldIdsFinite, TotalAtMost
  <2>5. Total(HoldIds, SeenHold(j)') <= Total(HoldIds, SeenHold(j)) + 0
    BY <2>3, <2>4, HoldIdsFinite, TotalType
  <2>6. Locks(j)
    BY <1>1, <2>1 DEF Locks, workingCash
  <2>7. pc'[j] = "decr_cash" /\ \A k \in Jobs \ {j} : pc'[k] = pc[k] /\ rows'[k] = rows[k]
    BY <1>1, <1>t, <1>3 DEF Goto
  <2>8. /\ JobRows(j)' /\ Active(j)' /\ pc[j] \notin Finished
        /\ Gain(j)' >= Gain(j) + 0
    <3>1. "lock_holds" \in Midway \ {"commit"} /\ "decr_cash" \in Midway
      BY DEF Midway, Labels, Finished
    <3>2. Gain(j) \in Int
      BY SeenNow DEF SupplyInv, CallbackInv, SeenOK
    <3> QED
      BY <1>1, <1>t, <2>7, <3>1, <3>2, Going DEF If
  <2> QED
    BY <1>1, <2>5, <2>6, <2>7, <2>8, HoldsKept
<1> QED
  BY <1>2, <1>3 DEF Deduct

\* The sums a job sees, apart.
LEMMA SeenParts ==
  ASSUME IInv, NEW j \in Jobs
  PROVE  Total(Funds, SeenCash(j)) \in Nat /\ Total(HoldIds, SeenHold(j)) \in Nat
<1>1. /\ \A f \in Funds : SeenCash(j)[f] \in Int
      /\ \A h \in HoldIds : SeenHold(j)[h] \in Int
  BY SeenType
<1> QED
  BY <1>1, SetsAssumption, HoldIdsFinite, TotalType

\* A hold is deleted and its fund is given what was in it.
LEMMA UnholdKept ==
  ASSUME SupplyInv, IInv', NEW j \in Jobs, Unhold(j)
  PROVE  Kept
<1>1. PICK h \in Locked(j) : /\ IncrCash(j, holdW[h].fund, holdW[h].amount)
                             /\ holdW' = [holdW EXCEPT ![h] = NoHold]
  BY DEF Unhold
<1>2. /\ UNCHANGED <<cash, hold, holdLock, pc, req, rows>> /\ pc[j] = "lock_expired"
  BY DEF Unhold, At, committedRows, inserted
<1>3. /\ holdW \in [HoldIds -> HoldRow \cup {NoHold}]
      /\ h \in HoldIds /\ holdLock[h] = j /\ holdW[h] # NoHold
  BY <1>1 DEF Locked, SupplyInv, CallbackInv, IInv, TypeOK
<1> DEFINE f == holdW[h].fund
           d == holdW[h].amount
<1>4. f \in Funds /\ d \in Nat
  BY <1>3, HoldFacts
<1>5. CashFree(j, f) /\ SetCash(j, f, Cash(j, f) + d)
  BY <1>1 DEF IncrCash
<1>6. /\ \A g \in HoldIds \ {h} : holdW'[g] = holdW[g]
      /\ holdW'[h] = NoHold
  BY <1>1, <1>3
<1>7. /\ \A g \in HoldIds \ {h} : Hold(j, g)' = Hold(j, g)
      /\ Hold(j, h)'.amount <= 0 /\ Hold(j, h).amount = d
  BY <1>2, <1>3, <1>6 DEF Hold, NoHold
<1> HIDE DEF f, d
<1>8. Total(HoldIds, SeenHold(j)') <= Total(HoldIds, SeenHold(j)) + 0 - d
  <2>1. \A g \in HoldIds \ {h} : Hold(j, g)'.amount <= Hold(j, g).amount
    BY <1>7, SeenNow DEF SupplyInv, CallbackInv, SeenOK
  <2> QED
    BY <1>3, <1>7, <2>1, SeenHoldsFall DEF SupplyInv, CallbackInv
<1>9. /\ \A k \in Jobs \ {j}, g \in Funds : Cash(k, g)' = Cash(k, g)
      /\ \A g \in Funds : cashLock'[g] \in {cashLock[g], j}
      /\ Total(Funds, SeenCash(j)') = Total(Funds, SeenCash(j)) + d
  BY <1>2, <1>4, <1>5, SetCashSeen
<1>10. Locks(j)
  BY <1>2, <1>3, <1>6, <1>9 DEF Locks
<1>11. Private(j)
  BY <1>2, <1>9, <1>10, HoldsOthers DEF Private, OtherSees, SupplyInv, CallbackInv
<1>12. SeenSupply(j)' <= SeenSupply(j) + 0
  <2>1. Total(HoldIds, SeenHold(j)') \in Nat
    <3>1. \A g \in HoldIds : SeenHold(j)'[g] \in Int
      BY SeenNext DEF SeenOK
    <3> QED
      BY <3>1, HoldIdsFinite, TotalType
  <2> QED
    BY <1>4, <1>8, <1>9, <2>1, SeenParts DEF SeenSupply, SupplyInv, CallbackInv
<1>13. /\ JobRows(j)' /\ Active(j)' /\ pc[j] \notin Finished /\ Gain(j)' >= Gain(j) + 0
  <2>1. Gain(j)' = Gain(j) /\ Gain(j) \in Int
    BY <1>2, GainSame, SeenNow DEF SupplyInv, CallbackInv, SeenOK
  <2> QED
    BY <1>2, <2>1, GainSame DEF SupplyInv, Active, Finished
<1> QED
  BY <1>10, <1>11, <1>12, <1>13, Advance

\* The new hold is what the cash back brings in.
LEMMA CashBackKept ==
  ASSUME SupplyInv, IInv', NEW j \in Jobs, CashBack(j), ~Rollback(j)
  PROVE  Kept
<1>1. /\ rows' = [rows EXCEPT ![j] = @ \cup {"CASHBACK"}]
      /\ holdW' = [holdW EXCEPT ![j] =
           [fund |-> User(j), amount |-> Amount(j), expired_at |-> now + ExpiredDays]]
      /\ holdLock' = [holdLock EXCEPT ![j] = j]
      /\ Goto(j, "commit") /\ pc[j] = "cash_back"
      /\ UNCHANGED <<cash, hold, workingCash, req>>
  BY DEF CashBack, Insert, At, committedRows
<1>2. /\ j \in HoldIds /\ req[j].kind = "callback" /\ Amount(j) \in Nat
      /\ holdW \in [HoldIds -> HoldRow \cup {NoHold}]
      /\ holdLock \in [HoldIds -> Jobs \cup {None}]
      /\ rows \in [Jobs -> SUBSET Types] /\ pc \in [Jobs -> Labels]
  BY <1>1, AmountType DEF HoldIds, SupplyInv, CallbackInv, IInv, TypeOK, ControlOK
<1>3. holdLock[j] \in {None, j}
  BY <1>1 DEF SupplyInv, LocksOK
<1>4. /\ pc'[j] = "commit" /\ rows'[j] = rows[j] \cup {"CASHBACK"}
      /\ \A k \in Jobs \ {j} : pc'[k] = pc[k] /\ rows'[k] = rows[k]
  BY <1>1, <1>2 DEF Goto
<1>5. Locks(j)
  BY <1>1, <1>2, <1>3 DEF Locks, workingCash
<1>6. /\ \A g \in HoldIds \ {j} : Hold(j, g)' = Hold(j, g)
      /\ Hold(j, j)'.amount = Amount(j)
  BY <1>1, <1>2 DEF Hold
<1>7. /\ \A g \in HoldIds \ {j} : Hold(j, g)'.amount <= Hold(j, g).amount
      /\ Hold(j, j)'.amount <= Amount(j) /\ Hold(j, j).amount \in Nat
  BY <1>2, <1>6, SeenNow DEF SupplyInv, CallbackInv, SeenOK
<1>8. Total(HoldIds, SeenHold(j)') <= Total(HoldIds, SeenHold(j)) + Amount(j)
                                      - Hold(j, j).amount
  BY <1>2, <1>7, SeenHoldsFall DEF SupplyInv, CallbackInv
<1>9. Total(HoldIds, SeenHold(j)') \in Nat
  <2>1. \A g \in HoldIds : SeenHold(j)'[g] \in Int
    BY SeenNext DEF SeenOK
  <2> QED
    BY <2>1, HoldIdsFinite, TotalType
<1>10. Total(HoldIds, SeenHold(j)') <= Total(HoldIds, SeenHold(j)) + Amount(j)
  BY <1>2, <1>7, <1>8, <1>9, SeenParts DEF SupplyInv, CallbackInv
<1>11. Active(j) /\ Active(j)' /\ Deposited(j) /\ Deposited(j)' /\ pc[j] \notin Finished
  BY <1>1, <1>2, <1>4 DEF Active, Deposited, Finished
<1>12. "CASHBACK" \notin rows[j] /\ "WITHDRAW" \notin rows[j] /\ "DEPOSIT" \in rows[j]
  BY <1>1, <1>11 DEF SupplyInv, JobRows
<1>13. JobRows(j)'
  BY <1>1, <1>2, <1>4, <1>12 DEF JobRows, Amount
<1>14. Gain(j)' >= Gain(j) + Amount(j)
  BY <1>1, <1>2, <1>4, <1>11, <1>12 DEF Gain, If, Amount
<1> QED
  BY <1>1, <1>2, <1>4, <1>5, <1>10, <1>11, <1>13, <1>14, HoldsKept

LEMMA RollbackKept ==
  ASSUME SupplyInv, IInv', NEW j \in Jobs, pc[j] # "committed", Rollback(j)
  PROVE  Kept
<1>1. /\ cashW \in [Funds -> Int] /\ holdW \in [HoldIds -> HoldRow \cup {NoHold}]
      /\ cashLock \in [Funds -> Jobs \cup {None}] /\ holdLock \in [HoldIds -> Jobs \cup {None}]
      /\ rows \in [Jobs -> SUBSET Types] /\ pc \in [Jobs -> Labels]
  BY DEF SupplyInv, CallbackInv, IInv, TypeOK
<1>2. /\ UNCHANGED <<cash, hold, req>>
      /\ pc'[j] = "aborted" /\ rows'[j] = {}
      /\ \A k \in Jobs \ {j} : pc'[k] = pc[k] /\ rows'[k] = rows[k]
  BY <1>1 DEF Rollback, Goto, committedRows
<1>3. /\ \A f \in Funds : cashLock'[f] = IF cashLock[f] = j THEN None ELSE cashLock[f]
      /\ \A f \in Funds : cashLock[f] # j => cashW'[f] = cashW[f]
      /\ \A h \in HoldIds : holdLock'[h] = IF holdLock[h] = j THEN None ELSE holdLock[h]
      /\ \A h \in HoldIds : holdW'[h] = IF holdLock[h] = j THEN hold[h] ELSE holdW[h]
  BY DEF Rollback, UnlockAll
<1>4. \A k \in Jobs \ {j} : OtherSees(k)
  BY <1>2, <1>3, SetsAssumption DEF OtherSees, Cash, Hold
<1>5. Private(j)
  BY <1>2, <1>4 DEF Private
<1>6. JobRows(j)' /\ JobBalanced(j)'
  BY <1>2 DEF JobRows, JobBalanced, Active, Deposited, Finished
<1>7. \A k \in Jobs \ {j} : Active(k)' = Active(k)
  BY <1>2 DEF Active
<1>8. /\ \A f \in Funds, k \in Jobs : cashLock'[f] = k => Active(k)'
      /\ \A h \in HoldIds, k \in Jobs : holdLock'[h] = k => Active(k)'
  BY <1>3, <1>7, SetsAssumption DEF SupplyInv, LocksOK
<1>9. \A h \in HoldIds : holdLock'[h] = None => holdW'[h] = hold'[h]
  BY <1>2, <1>3 DEF SupplyInv, LocksOK
<1>10. ASSUME NEW k \in Jobs, pc'[k] # "committed"
       PROVE  hold'[k] = NoHold /\ holdLock'[k] \in {None, k}
  <2>1. pc[k] # "committed" /\ k \in HoldIds
    BY <1>2, <1>10 DEF HoldIds
  <2> QED
    BY <1>2, <1>3, <2>1 DEF SupplyInv, LocksOK
<1>11. LocksOK'
  BY <1>8, <1>9, <1>10 DEF LocksOK
<1>12. pc'[j] # "committed"
  BY <1>2
<1> QED
  BY <1>5, <1>6, <1>11, <1>12, PrivateKeeps DEF Kept

\* The sums of what has come in and gone out grow by what the job has inserted.
LEMMA MovedGrows ==
  ASSUME IInv, NEW j \in Jobs, NEW type, pc[j] # "committed", pc'[j] = "committed",
         \A k \in Jobs \ {j} : pc'[k] = pc[k], UNCHANGED <<req, rows>>,
         type \in rows[j] => Amount(j) \in Nat
  PROVE  /\ Moved(type) \in Nat
         /\ Moved(type)' = Moved(type) + If(type \in rows[j], Amount(j))
<1> DEFINE S == {k \in Jobs : Committed(k, type)}
           T == {k \in Jobs : Committed(k, type)'}
           a == [k \in Jobs |-> Amount(k)]
<1>1. IsFiniteSet(S) /\ IsFiniteSet(T)
  BY SetsAssumption, FS_Subset
<1>2. \A k \in S \cup T : a[k] = Amount(k) /\ a[k] \in Int
  BY AmountType
<1>3. Moved(type) = Total(S, a) /\ Moved(type)' = Total(T, a)
  <2>1. [k \in Jobs |-> Amount(k)]' = a
    BY DEF Amount
  <2> QED
    BY <2>1 DEF Moved
<1>4. Total(S, a) \in Nat
  <2> HIDE DEF S, a
  <2> QED
    BY <1>1, <1>2, TotalType
<1>5. T = IF type \in rows[j] THEN S \cup {j} ELSE S
  BY DEF Committed
<1>6. j \notin S
  BY DEF Committed
<1>7. CASE type \in rows[j]
  <2>1. T \ {j} = S /\ j \in T /\ a[j] = Amount(j) /\ a[j] \in Nat
    BY <1>5, <1>6, <1>7
  <2> HIDE DEF S, T, a
  <2>2. Total(T, a) = a[j] + Total(T \ {j}, a)
    BY <1>1, <1>2, <2>1, TotalSplit
  <2>3. Total(T, a) = Amount(j) + Total(S, a)
    BY <2>1, <2>2, Zenon
  <2>4. Moved(type)' = Amount(j) + Moved(type) /\ Moved(type) \in Nat
    BY <1>3, <1>4, <2>3, Zenon
  <2>5. If(type \in rows[j], Amount(j)) = Amount(j) /\ Amount(j) \in Nat
    BY <1>7 DEF If
  <2> QED
    BY <2>4, <2>5
<1>8. CASE type \notin rows[j]
  <2>1. T = S
    BY <1>5, <1>8
  <2> HIDE DEF S, T, a
  <2>2. Moved(type)' = Moved(type) /\ Moved(type) \in Nat
    BY <1>3, <1>4, <2>1, Zenon
  <2>3. If(type \in rows[j], Amount(j)) = 0
    BY <1>8 DEF If
  <2> QED
    BY <2>2, <2>3
<1> QED
  BY <1>7, <1>8

\* What the job saw is now what there is, and what others see has changed as much.
LEMMA CommitSeen ==
  ASSUME SupplyInv, IInv', NEW j \in Jobs, Commit(j)
  PROVE  /\ Supply' = SeenSupply(j)
         /\ \A k \in Jobs \ {j} : SeenSupply(k)' + Supply = SeenSupply(k) + Supply'
<1>1. /\ cash' = [f \in Funds |-> Cash(j, f)] /\ hold' = [h \in HoldIds |-> Hold(j, h)]
      /\ UNCHANGED <<cashW, holdW>>
      /\ \A f \in Funds : cashLock'[f] = IF cashLock[f] = j THEN None ELSE cashLock[f]
      /\ \A h \in HoldIds : holdLock'[h] = IF holdLock[h] = j THEN None ELSE holdLock[h]
  BY DEF Commit, UnlockAll
<1>2. cash' = SeenCash(j) /\ HoldAmounts' = SeenHold(j)
  BY <1>1 DEF SeenCash, SeenHold, HoldAmounts
<1>3. Supply' = SeenSupply(j)
  <2>1. Supply' = Total(Funds, cash') + Total(HoldIds, HoldAmounts')
    BY DEF Supply, HoldAmounts
  <2> QED
    BY <1>2, <2>1 DEF SeenSupply
<1>4. ASSUME NEW k \in Jobs \ {j}
      PROVE  SeenSupply(k)' + Supply = SeenSupply(k) + Supply'
  <2>1. \A f \in Funds : \/ SeenCash(k)'[f] = SeenCash(k)[f] /\ cash'[f] = cash[f]
                         \/ SeenCash(k)'[f] = cash'[f] /\ SeenCash(k)[f] = cash[f]
    BY <1>1, SetsAssumption DEF SeenCash, Cash
  <2>2. \A h \in HoldIds :
           \/ SeenHold(k)'[h] = SeenHold(k)[h] /\ HoldAmounts'[h] = HoldAmounts[h]
           \/ SeenHold(k)'[h] = HoldAmounts'[h] /\ SeenHold(k)[h] = HoldAmounts[h]
    BY <1>1, SetsAssumption DEF SeenHold, HoldAmounts, Hold
  <2>3. \A f \in Funds : /\ SeenCash(k)'[f] \in Nat /\ SeenCash(k)[f] \in Nat
                         /\ cash'[f] \in Nat /\ cash[f] \in Nat
    BY <1>2, SeenNow, SeenNext, SupplyType DEF SupplyInv, CallbackInv, SeenOK
  <2>4. \A h \in HoldIds : /\ SeenHold(k)'[h] \in Nat /\ SeenHold(k)[h] \in Nat
                           /\ HoldAmounts'[h] \in Nat /\ HoldAmounts[h] \in Nat
    BY <1>2, SeenNow, SeenNext, SupplyType DEF SupplyInv, CallbackInv, SeenOK
  <2>5. Total(Funds, SeenCash(k)') + Total(Funds, cash)
          = Total(Funds, SeenCash(k)) + Total(Funds, cash')
    BY <2>1, <2>3, SetsAssumption, TotalAlike
  <2>6. Total(HoldIds, SeenHold(k)') + Total(HoldIds, HoldAmounts)
          = Total(HoldIds, SeenHold(k)) + Total(HoldIds, HoldAmounts')
    BY <2>2, <2>4, HoldIdsFinite, TotalAlike
  <2>7. /\ Total(Funds, SeenCash(k)) \in Nat /\ Total(Funds, SeenCash(k)') \in Nat
        /\ Total(Funds, cash) \in Nat /\ Total(Funds, cash') \in Nat
    <3>1. \A f \in Funds : /\ SeenCash(k)'[f] \in Int /\ SeenCash(k)[f] \in Int
                           /\ cash'[f] \in Int /\ cash[f] \in Int
      BY <2>3
    <3> QED
      BY <3>1, SetsAssumption, TotalType
  <2>8. /\ Total(HoldIds, SeenHold(k)) \in Nat /\ Total(HoldIds, SeenHold(k)') \in Nat
        /\ Total(HoldIds, HoldAmounts) \in Nat /\ Total(HoldIds, HoldAmounts') \in Nat
    <3>1. \A h \in HoldIds : /\ SeenHold(k)'[h] \in Int /\ SeenHold(k)[h] \in Int
                             /\ HoldAmounts'[h] \in Int /\ HoldAmounts[h] \in Int
      BY <2>4
    <3> QED
      BY <3>1, HoldIdsFinite, TotalType
  <2> QED
    BY <2>5, <2>6, <2>7, <2>8 DEF SeenSupply, Supply, HoldAmounts
<1> QED
  BY <1>3, <1>4

LEMMA CommitKept ==
  ASSUME SupplyInv, IInv', NEW j \in Jobs, Commit(j)
  PROVE  Kept
<1>1. /\ UNCHANGED <<cashW, holdW, req, rows>> /\ pc[j] = "commit" /\ pc'[j] = "committed"
      /\ \A k \in Jobs \ {j} : pc'[k] = pc[k]
  BY DEF Commit, Goto, inserted, SupplyInv, CallbackInv, IInv, TypeOK
<1>2. /\ hold' = [h \in HoldIds |-> Hold(j, h)]
      /\ \A f \in Funds : cashLock'[f] = IF cashLock[f] = j THEN None ELSE cashLock[f]
      /\ \A h \in HoldIds : holdLock'[h] = IF holdLock[h] = j THEN None ELSE holdLock[h]
  BY DEF Commit, UnlockAll
<1>3. \A k \in Jobs \ {j} : JobRows(k)' /\ Gain(k)' = Gain(k) /\ Active(k)' = Active(k)
  BY <1>1, GainSame DEF SupplyInv
<1>4. ~Active(j)' /\ ~Deposited(j)' /\ Active(j)
  BY <1>1 DEF Active, Deposited, Finished
<1>5. JobRows(j)' /\ JobBalanced(j)'
  BY <1>1, <1>4 DEF SupplyInv, JobRows, JobBalanced, Amount
<1>6. Supply \in Nat /\ SeenSupply(j) \in Nat /\ Gain(j) \in Int /\ Amount(j) \in Int
  BY SeenNow, SupplyType, AmountType DEF SupplyInv, CallbackInv, SeenOK
<1>7. ASSUME NEW k \in Jobs \ {j}
      PROVE  JobBalanced(k)'
  <2>1. SeenSupply(k)' + Supply = SeenSupply(k) + Supply' /\ Supply' = SeenSupply(j)
    BY CommitSeen
  <2>2. SeenSupply(k)' \in Nat /\ SeenSupply(k) \in Nat /\ Gain(k) \in Int
    BY SeenNow, SeenNext DEF SupplyInv, CallbackInv, SeenOK
  <2>3. Active(k) => SeenSupply(k) <= Supply + Gain(k)
    BY DEF SupplyInv, JobBalanced
  <2> QED
    BY <1>3, <1>6, <2>1, <2>2, <2>3 DEF JobBalanced
<1>8. /\ "DEPOSIT" \in rows[j] => Amount(j) \in Nat
      /\ "CASHBACK" \in rows[j] => Amount(j) \in Nat
      /\ "WITHDRAW" \in rows[j] => Amount(j) \in Nat
  BY <1>6, AmountType DEF SupplyInv, CallbackInv, CallbackJob, JobRows
<1> DEFINE D == Moved("DEPOSIT")
           C == Moved("CASHBACK")
           W == Moved("WITHDRAW")
<1>9. /\ D \in Nat /\ D' = D + If("DEPOSIT" \in rows[j], Amount(j))
      /\ C \in Nat /\ C' = C + If("CASHBACK" \in rows[j], Amount(j))
      /\ W \in Nat /\ W' = W + If("WITHDRAW" \in rows[j], Amount(j))
  BY <1>1, <1>8, MovedGrows DEF SupplyInv, CallbackInv
<1>10. Gain(j) <= If("DEPOSIT" \in rows[j], Amount(j)) + If("CASHBACK" \in rows[j], Amount(j))
                  - If("WITHDRAW" \in rows[j], Amount(j))
  <2>1. Deposited(j) => "DEPOSIT" \in rows[j]
    BY <1>1 DEF SupplyInv, JobRows
  <2> QED
    BY <1>1, <1>6, <1>8, <2>1 DEF Gain, If
<1>11. Supply' <= Supply + Gain(j) /\ Supply' \in Nat
  BY <1>4, <1>6, CommitSeen DEF SupplyInv, JobBalanced
<1>12. NoMoneyCreated'
  <2>1. InitialSupply' = InitialSupply /\ InitialSupply \in Nat
    <3>1. \A f \in Funds : InitialCash[f] \in Int
      BY InitialAssumption
    <3>2. \A h \in OldHolds : [g \in OldHolds |-> InitialHold[g].amount][h] \in Int
      BY InitialAssumption, HoldFacts
    <3> QED
      BY <3>1, <3>2, SetsAssumption, TotalType DEF InitialSupply
  <2>2. Supply + W <= InitialSupply + D + C
    BY DEF SupplyInv, NoMoneyCreated
  <2>3. /\ If("DEPOSIT" \in rows[j], Amount(j)) \in Int
        /\ If("CASHBACK" \in rows[j], Amount(j)) \in Int
        /\ If("WITHDRAW" \in rows[j], Amount(j)) \in Int
    BY <1>6 DEF If
  <2> HIDE DEF D, C, W
  <2>4. Supply' + W' <= InitialSupply + D' + C'
    BY <1>6, <1>9, <1>10, <1>11, <2>1, <2>2, <2>3
  <2> QED
    BY <2>1, <2>4 DEF NoMoneyCreated, D, C, W
<1>13. /\ \A f \in Funds, k \in Jobs : cashLock'[f] = k => Active(k)'
       /\ \A h \in HoldIds, k \in Jobs : holdLock'[h] = k => Active(k)'
  BY <1>2, <1>3, SetsAssumption DEF SupplyInv, LocksOK
<1>14. \A h \in HoldIds : holdLock'[h] = None => holdW'[h] = hold'[h]
  BY <1>1, <1>2, SetsAssumption DEF SupplyInv, LocksOK, Hold
<1>15. ASSUME NEW k \in Jobs, pc'[k] # "committed"
       PROVE  hold'[k] = NoHold /\ holdLock'[k] \in {None, k}
  <2>1. pc[k] # "committed" /\ k \in HoldIds /\ k # j
    BY <1>1, <1>15 DEF HoldIds
  <2>2. hold[k] = NoHold /\ holdLock[k] \in {None, k}
    BY <2>1 DEF SupplyInv, LocksOK
  <2> QED
    BY <1>2, <2>1, <2>2, SetsAssumption DEF Hold
<1>16. LocksOK'
  BY <1>13, <1>14, <1>15 DEF LocksOK
<1> QED
  BY <1>3, <1>5, <1>7, <1>12, <1>16 DEF Kept

\* A job that is over takes no step.
LEMMA StepsOfRunning ==
  ASSUME NEW j \in Jobs, Begin(j) \/ Step(j) \/ Crash(j)
  PROVE  pc[j] \notin Finished
<1>1. CASE DeadlockVictim(j)
  <2>1. Owners(j) # {}
    BY <1>1 DEF DeadlockVictim, Blocked
  <2> QED
    BY <2>1 DEF Owners, At, Finished
<1>2. CASE ~DeadlockVictim(j)
  BY <1>2 DEF Step, Begin, Crash, Active, At, Finished,
     Deposit, RecordDeposit, ReadCash, CheckTotal, SelectHolds, LockHold, Deduct, DecrRemain,
     ReadFrom, IncrTo, RecordTransfer, Withdraw, RecordWithdraw, NoCashBack, CashBack,
     SelectExpired, Unhold, UnholdDone, Commit
<1> QED
  BY <1>1, <1>2

\* Reads, tests and ends of loops.
LEMMA GoKept ==
  ASSUME SupplyInv, IInv', NEW j \in Jobs, ~Rollback(j),
         \/ ReadCash(j) \/ CheckTotal(j) \/ SelectHolds(j) \/ ReadFrom(j) \/ NoCashBack(j)
         \/ SelectExpired(j) \/ UnholdDone(j)
  PROVE  Kept
<1>1. PICK l \in Midway :
        /\ pc[j] \in Midway \ {"commit"} /\ Goto(j, l)
        /\ UNCHANGED <<cash, hold, workingCash, workingHold, req, rows>>
        /\ pc[j] \in {"read_from", "incr_to"} <=> l \in {"read_from", "incr_to"}
  BY DEF ReadCash, CheckTotal, SelectHolds, ReadFrom, NoCashBack, SelectExpired, UnholdDone,
     At, Midway, Labels, Finished, committedRows, inserted
<1>2. pc'[j] = l
  BY <1>1 DEF Goto, SupplyInv, CallbackInv, IInv, TypeOK
<1>3. /\ JobRows(j)' /\ pc[j] \notin Finished
      /\ Gain(j)' = Gain(j) + If(pc[j] \in {"read_from", "incr_to"}, Amount(j))
                            - If(l \in {"read_from", "incr_to"}, Amount(j))
  BY <1>1, <1>2, Going
<1>4. Gain(j) \in Int /\ Amount(j) \in Int
  BY SeenNow, AmountType DEF SupplyInv, CallbackInv, SeenOK
<1>5. Gain(j)' >= Gain(j)
  BY <1>1, <1>3, <1>4 DEF If
<1>6. l \in Labels \ (Finished \cup {"idle"})
  BY <1>1 DEF Midway
<1> QED
  BY <1>1, <1>3, <1>5, <1>6, QuietKept

LEMMA BeginKept ==
  ASSUME SupplyInv, IInv', NEW j \in Jobs, Begin(j)
  PROVE  Kept
<1> DEFINE l == Entry[req[j].kind]
<1>1. /\ UNCHANGED <<cash, hold, workingCash, workingHold, req, rows>>
      /\ pc[j] = "idle" /\ Goto(j, l)
  BY DEF Begin, At, committedRows, inserted
<1>2. /\ l \in {"deposit", "read_cash", "withdraw", "select_expired"}
      /\ req[j].kind = "callback" => l = "deposit"
  BY RequestFacts DEF SupplyInv, CallbackInv, IInv, TypeOK, Entry
<1>3. l \in Labels \ (Finished \cup {"idle"}) /\ pc[j] \notin Finished
  BY <1>1, <1>2 DEF Labels, Finished
<1> HIDE DEF l
<1>4. pc'[j] = l /\ rows[j] = {}
  BY <1>1 DEF SupplyInv, CallbackInv, CallbackJob, IInv, TypeOK, Goto
<1>5. ~Deposited(j) /\ ~Deposited(j)'
  BY <1>1, <1>2, <1>4 DEF Deposited, Active
<1>6. JobRows(j)'
  BY <1>1, <1>2, <1>4, <1>5 DEF JobRows
<1>7. Gain(j) = 0 /\ Gain(j)' = 0
  BY <1>1, <1>2, <1>4, <1>5 DEF Gain, If
<1> QED
  BY <1>1, <1>3, <1>6, <1>7, QuietKept

\* Rows of FundTransfer; only the withdrawal's takes the place of what the job owed.
LEMMA RecordKept ==
  ASSUME SupplyInv, IInv', NEW j \in Jobs, ~Rollback(j),
         RecordDeposit(j) \/ RecordTransfer(j) \/ RecordWithdraw(j)
  PROVE  Kept
<1>1. PICK l \in {"read_cash", "cash_back", "commit"},
           type \in {"DEPOSIT", "TRANSFER", "WITHDRAW"} :
        /\ Goto(j, l)
        /\ rows' = [rows EXCEPT ![j] = @ \cup {type}]
        /\ UNCHANGED <<cash, hold, workingCash, workingHold, req>>
        /\ \/ pc[j] = "deposit_row" /\ type = "DEPOSIT"
           \/ pc[j] = "transfer_row" /\ type = "TRANSFER"
           \/ pc[j] = "withdraw_row" /\ type = "WITHDRAW" /\ l = "commit"
  BY DEF RecordDeposit, RecordTransfer, RecordWithdraw, Record, Insert, At, committedRows
<1>2. /\ pc'[j] = l /\ rows'[j] = rows[j] \cup {type}
      /\ \A k \in Jobs \ {j} : rows'[k] = rows[k]
  BY <1>1 DEF SupplyInv, CallbackInv, IInv, TypeOK, Goto
<1>3. /\ l \in Labels \ (Finished \cup {"idle"}) /\ pc[j] \notin Finished
      /\ "CASHBACK" \notin rows[j] /\ "WITHDRAW" \notin rows[j]
  BY <1>1 DEF Labels, Finished, SupplyInv, JobRows
<1>4. Deposited(j)' = Deposited(j)
  BY <1>1, <1>2, <1>3 DEF Deposited, Active, Finished
<1>5. JobRows(j)'
  BY <1>1, <1>2, <1>3, <1>4 DEF SupplyInv, JobRows, Amount
<1>6. Amount(j) \in Int /\ Amount(j)' = Amount(j)
  BY <1>1, AmountType DEF SupplyInv, CallbackInv, Amount
<1>7. Gain(j)' >= Gain(j)
  BY <1>1, <1>2, <1>3, <1>4, <1>6 DEF Gain, If
<1> QED
  BY <1>1, <1>2, <1>3, <1>5, <1>7, QuietKept

\* What is taken from a fund or given to one is the change of the job's account.
LEMMA CashKept ==
  ASSUME SupplyInv, IInv', NEW j \in Jobs, ~Rollback(j),
         Deposit(j) \/ DecrRemain(j) \/ IncrTo(j) \/ Withdraw(j)
  PROVE  Kept
<1>r. /\ User(j) \in Funds /\ Amount(j) \in Int /\ Amount(j)' = Amount(j)
      /\ \A f \in Funds : Cash(j, f) \in Int /\ Cash(j, f) - Amount(j) = Cash(j, f) + (-Amount(j))
  <2>1. UNCHANGED req
    BY DEF Deposit, DecrRemain, IncrTo, Withdraw, DecrCash
  <2> QED
    BY <2>1, AmountType, CashType DEF SupplyInv, CallbackInv, Amount
<1>g. Gain(j) \in Int
  BY SeenNow DEF SupplyInv, CallbackInv, SeenOK
<1>p. pc \in [Jobs -> Labels]
  BY DEF SupplyInv, CallbackInv, IInv, TypeOK
<1>1. CASE Deposit(j)
  <2>1. /\ CashFree(j, User(j)) /\ SetCash(j, User(j), Cash(j, User(j)) + Amount(j))
        /\ UNCHANGED <<cash, hold, workingHold, req, rows>>
        /\ Goto(j, "deposit_row") /\ pc[j] = "deposit"
    BY <1>1 DEF Deposit, IncrCash, At, committedRows, inserted
  <2>2. pc'[j] = "deposit_row" /\ rows[j] = {} /\ req[j].kind = "callback"
    BY <1>p, <2>1 DEF Goto, SupplyInv, CallbackInv, CallbackJob, IInv, ControlOK
  <2>3. ~Deposited(j) /\ Deposited(j)'
    BY <2>1, <2>2 DEF Deposited, Active, Finished
  <2>4. JobRows(j)'
    BY <2>1, <2>2 DEF JobRows
  <2>5. Gain(j)' >= Gain(j) + Amount(j)
    BY <1>r, <2>1, <2>2, <2>3 DEF Gain, If
  <2>6. "deposit_row" \in Labels \ (Finished \cup {"idle"}) /\ pc[j] \notin Finished
    BY <2>1 DEF Labels, Finished
  <2> QED
    BY <1>r, <2>1, <2>4, <2>5, <2>6, SetCashKept
<1>2. CASE DecrRemain(j)
  <2>1. /\ CashFree(j, User(j)) /\ SetCash(j, User(j), Cash(j, User(j)) - due[j])
        /\ UNCHANGED <<cash, hold, workingHold, req, rows>>
        /\ Goto(j, "read_from") /\ pc[j] = "decr_cash"
    BY <1>2 DEF DecrRemain, DecrCash, At, committedRows, inserted
  <2>2. due[j] = Amount(j) /\ pc'[j] = "read_from"
    BY <1>p, <2>1 DEF Goto, SupplyInv, CallbackInv, CallbackJob
  <2>3. "decr_cash" \in Midway \ {"commit"} /\ "read_from" \in Midway
    BY DEF Midway, Labels, Finished
  <2>4. /\ JobRows(j)' /\ pc[j] \notin Finished
        /\ Gain(j)' = Gain(j) + If(FALSE, Amount(j)) - If(TRUE, Amount(j))
    BY <2>1, <2>2, <2>3, Going DEF If
  <2>5. Gain(j)' >= Gain(j) + (-Amount(j))
    BY <1>r, <1>g, <2>4 DEF If
  <2>6. SetCash(j, User(j), Cash(j, User(j)) + (-Amount(j)))
    BY <1>r, <2>1, <2>2
  <2>7. "read_from" \in Labels \ (Finished \cup {"idle"}) /\ -Amount(j) \in Int
    BY <1>r DEF Labels, Finished
  <2> QED
    BY <1>r, <2>1, <2>4, <2>5, <2>6, <2>7, SetCashKept
<1>3. CASE IncrTo(j)
  <2>1. /\ CashFree(j, req[j].to) /\ SetCash(j, req[j].to, Cash(j, req[j].to) + Amount(j))
        /\ UNCHANGED <<cash, hold, workingHold, req, rows>>
        /\ Goto(j, "transfer_row") /\ pc[j] = "incr_to"
    BY <1>3 DEF IncrTo, IncrCash, At, committedRows, inserted
  <2>2. req[j].to \in Funds /\ pc'[j] = "transfer_row"
    BY <1>p, <2>1 DEF Goto, SupplyInv, CallbackInv, IInv, ControlOK, TransferLabels
  <2>3. "incr_to" \in Midway \ {"commit"} /\ "transfer_row" \in Midway
    BY DEF Midway, Labels, Finished
  <2>4. /\ JobRows(j)' /\ pc[j] \notin Finished
        /\ Gain(j)' = Gain(j) + If(TRUE, Amount(j)) - If(FALSE, Amount(j))
    BY <2>1, <2>2, <2>3, Going DEF If
  <2>5. Gain(j)' >= Gain(j) + Amount(j)
    BY <1>r, <1>g, <2>4 DEF If
  <2>6. "transfer_row" \in Labels \ (Finished \cup {"idle"})
    BY DEF Labels, Finished
  <2> QED
    BY <1>r, <2>1, <2>2, <2>4, <2>5, <2>6, SetCashKept
<1>4. CASE Withdraw(j)
  <2>1. /\ CashFree(j, User(j)) /\ SetCash(j, User(j), Cash(j, User(j)) - Amount(j))
        /\ UNCHANGED <<cash, hold, workingHold, req, rows>>
        /\ Goto(j, "withdraw_row") /\ pc[j] = "withdraw" /\ Amount(j) > 0
    BY <1>4 DEF Withdraw, DecrCash, At, committedRows, inserted
  <2>2. pc'[j] = "withdraw_row"
    BY <1>p, <2>1 DEF Goto
  <2>3. "CASHBACK" \notin rows[j] /\ "WITHDRAW" \notin rows[j]
    BY <2>1 DEF SupplyInv, JobRows
  <2>4. Deposited(j)' = Deposited(j)
    BY <2>1, <2>2 DEF Deposited, Active, Finished
  <2>5. JobRows(j)'
    BY <1>r, <2>1, <2>2, <2>3, <2>4 DEF SupplyInv, JobRows
  <2>6. Gain(j)' >= Gain(j) + (-Amount(j))
    BY <1>r, <2>1, <2>2, <2>3, <2>4 DEF Gain, If
  <2>7. SetCash(j, User(j), Cash(j, User(j)) + (-Amount(j)))
    BY <1>r, <2>1
  <2>8. /\ "withdraw_row" \in Labels \ (Finished \cup {"idle"}) /\ -Amount(j) \in Int
        /\ pc[j] \notin Finished
    BY <1>r, <2>1 DEF Labels, Finished
  <2> QED
    BY <1>r, <2>1, <2>5, <2>6, <2>7, <2>8, SetCashKept
<1> QED
  BY <1>1, <1>2, <1>3, <1>4

\* Time passes, or nothing happens.
LEMMA StillKept ==
  ASSUME SupplyInv,
         UNCHANGED <<cash, hold, cashW, holdW, cashLock, holdLock, pc, req, rows>>
  PROVE  Kept
<1>1. \A k \in Jobs : OtherSees(k)
  BY DEF OtherSees, Cash, Hold
<1>2. \A k \in Jobs : /\ SeenSupply(k)' = SeenSupply(k) /\ Gain(k)' = Gain(k)
                      /\ Active(k)' = Active(k) /\ JobRows(k)'
  BY <1>1, SameSeen, GainSame DEF SupplyInv
<1>3. Supply' = Supply /\ InitialSupply' = InitialSupply
  BY DEF Supply, InitialSupply
<1>4. \A type : Moved(type)' = Moved(type)
  BY DEF Moved, Committed, Amount
<1>5. NoMoneyCreated'
  BY <1>3, <1>4 DEF SupplyInv, NoMoneyCreated
<1>6. LocksOK'
  BY <1>2 DEF SupplyInv, LocksOK
<1> QED
  BY <1>2, <1>3, <1>5, <1>6 DEF Kept, SupplyInv, JobBalanced
-----------------------------------------------------------------------------
(* The invariant, and what follows.                                        *)

LEMMA SupplyInit == Init => SupplyInv
<1> SUFFICES ASSUME Init
             PROVE  SupplyInv
  OBVIOUS
<1>1. CallbackInv
  BY CallbackInit
<1>2. LocksOK
  <2>1. \A j \in Jobs : hold[j] = NoHold
    BY SetsAssumption DEF Init, HoldIds
  <2> QED
    BY <2>1, SetsAssumption DEF Init, LocksOK, HoldIds
<1>3. \A j \in Jobs : JobRows(j) /\ JobBalanced(j)
  BY DEF Init, JobRows, JobBalanced, Deposited, Active
<1>4. \A type : Moved(type) = 0
  <2>1. \A type : {j \in Jobs : Committed(j, type)} = {}
    BY DEF Init, Committed
  <2>2. \A amount : Units({}, amount) = {}
    BY DEF Units
  <2> QED
    BY <2>1, <2>2, FS_EmptySet DEF Moved, Total
<1>5. Supply = InitialSupply
  <2>1. HoldIds = OldHolds \cup Jobs /\ IsFiniteSet(OldHolds) /\ IsFiniteSet(Jobs)
        /\ OldHolds \cap Jobs = {}
    BY SetsAssumption DEF HoldIds
  <2>2. \A h \in HoldIds : HoldAmounts[h] \in Int /\ HoldAmounts[h] = hold[h].amount
    BY <1>1, SupplyType DEF CallbackInv
  <2>3. Total(HoldIds, HoldAmounts) = Total(OldHolds, HoldAmounts) + Total(Jobs, HoldAmounts)
    BY <2>1, <2>2, TotalUnion
  <2>4. Total(OldHolds, HoldAmounts) = Total(OldHolds, [h \in OldHolds |-> InitialHold[h].amount])
    <3>1. \A h \in OldHolds : HoldAmounts[h] = [g \in OldHolds |-> InitialHold[g].amount][h]
      BY <2>1, <2>2 DEF Init
    <3> QED
      BY <3>1, TotalSame
  <2>5. Total(Jobs, HoldAmounts) = 0
    <3>1. \A j \in Jobs : HoldAmounts[j] = 0
      BY <2>1, <2>2, SetsAssumption DEF Init, NoHold
    <3>2. Units(Jobs, HoldAmounts) = {}
      BY <3>1 DEF Units
    <3> QED
      BY <3>2, FS_EmptySet DEF Total
  <2>6. Total(OldHolds, HoldAmounts) \in Nat
    BY <2>1, <2>2, TotalType
  <2>7. cash = InitialCash
    BY DEF Init
  <2>8. Supply = Total(Funds, cash) + Total(HoldIds, HoldAmounts)
    BY <1>1, SupplyType DEF CallbackInv
  <2>9. Total(HoldIds, HoldAmounts) = Total(OldHolds, HoldAmounts)
    BY <2>3, <2>5, <2>6
  <2> QED
    BY <2>4, <2>7, <2>8, <2>9 DEF InitialSupply
<1>6. NoMoneyCreated
  <2>1. Supply \in Nat
    BY <1>1, SupplyType DEF CallbackInv
  <2> QED
    BY <1>4, <1>5, <2>1 DEF NoMoneyCreated
<1> QED
  BY <1>1, <1>2, <1>3, <1>6 DEF SupplyInv

LEMMA SupplyNext ==
  ASSUME SupplyInv, [Next]_vars, IInv'
  PROVE  Kept
<1>1. CASE Tick \/ UNCHANGED vars
  BY <1>1, StillKept DEF Tick, vars, workingCash, workingHold, inserted
<1>2. ASSUME NEW j \in Jobs, Begin(j) \/ Step(j) \/ Crash(j)
      PROVE  Kept
  <2>1. CASE Rollback(j)
    <3>1. pc[j] # "committed"
      BY <1>2, StepsOfRunning DEF Finished
    <3> QED
      BY <2>1, <3>1, RollbackKept
  <2>2. CASE ~Rollback(j)
    BY <1>2, <2>2, BeginKept, CashKept, RecordKept, GoKept, LockKept, DeductKept,
       CashBackKept, UnholdKept, CommitKept
       DEF Step, Crash, DeadlockVictim
  <2> QED
    BY <2>1, <2>2
<1> QED
  BY <1>1, <1>2 DEF Next, Terminating

\* The accounts of all running jobs, together with what is known of callbacks, are an
\* invariant.
THEOREM SupplyInvariance == Spec => []SupplyInv
<1>1. SupplyInv /\ [Next]_vars /\ CallbackInv' => SupplyInv'
  BY SupplyNext DEF SupplyInv, CallbackInv, Kept
<1> QED
  BY <1>1, SupplyInit, CallbackInvariance, PTL DEF Spec

\* What the funds own never exceeds what came in, less what went out: no increment is applied
\* twice, and no hold is spent twice or spent and released.
THEOREM MoneyNeverCreated == Spec => []NoMoneyCreated
<1>1. SupplyInv => NoMoneyCreated
  BY DEF SupplyInv
<1> QED
  BY <1>1, SupplyInvariance, PTL
=============================================================================
