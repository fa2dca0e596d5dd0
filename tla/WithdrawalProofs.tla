-------------------------- MODULE WithdrawalProofs --------------------------
(***************************************************************************)
(* Withdrawals, proved for any calls, requests, amounts, clocks and faults:*)
(* payouts are covered, what is debited is paid, and without a fault both  *)
(* agree.  The lock of the Fund row makes the call in its payout the only  *)
(* one; CallOK remembers what was tested before the row was locked.        *)
(***************************************************************************)
EXTENDS Withdrawal, TotalsTheorems

\* A call in its payout asks for a positive amount that the cash covers; only a call
\* that WeChat paid gets to save; and a paid call gets there, unless a fault ends it.
CallOK ==
  \A c \in Calls :
    /\ InPayout(c) => 0 < Amount(c) /\ Amount(c) <= cash
    /\ pc[c] \in {"save", "done"} => paid[c] /\ 0 < Amount(c)
    /\ paid[c] => \/ pc[c] \in {"answer", "save", "done"}
                  \/ pc[c] = "failed" /\ faults # 0

Done == {c \in Calls : At(c, "done")}

\* The cash that is gone went to calls that are done.
Balanced == cash \in Nat /\ cash + Sum(Done) = InitialCash

IInv == TypeOK /\ CallOK /\ Balanced

LEMMA AmountType ==
  ASSUME TypeOK, NEW c \in Calls
  PROVE  Amount(c) \in Int
BY ConstantsAssumption DEF TypeOK, Amount

\* A sum over no calls, over one, and over one more.
LEMMA SumEmpty == Sum({}) = 0
<1>1. Units({}, [c \in Calls |-> Amount(c)]) = {}
  BY DEF Units
<1> QED
  BY <1>1, FS_EmptySet DEF Sum, Total

LEMMA SumOne ==
  ASSUME NEW c \in Calls, Amount(c) \in Nat
  PROVE  Sum({c}) = Amount(c)
<1> DEFINE amount == [d \in Calls |-> Amount(d)]
<1>1. amount[c] \in Nat /\ amount[c] = Amount(c)
  OBVIOUS
<1> HIDE DEF amount
<1>2. Total({c}, amount) = amount[c]
  BY <1>1, TotalOne
<1> QED
  BY <1>1, <1>2 DEF Sum, amount

LEMMA SumAdd ==
  ASSUME TypeOK, NEW S \in SUBSET Calls, NEW c \in Calls, c \notin S, Amount(c) \in Nat
  PROVE  Sum(S \cup {c}) = Sum(S) + Amount(c)
<1> DEFINE amount == [d \in Calls |-> Amount(d)]
<1>1. \A d \in Calls : amount[d] \in Int
  BY AmountType
<1>2. amount[c] \in Nat /\ amount[c] = Amount(c)
  OBVIOUS
<1>3. IsFiniteSet(S \cup {c}) /\ IsFiniteSet(S)
  BY ConstantsAssumption, FS_Subset
<1> HIDE DEF amount
<1>4. Total(S \cup {c}, amount) = amount[c] + Total((S \cup {c}) \ {c}, amount)
  BY <1>1, <1>2, <1>3, TotalSplit
<1>5. (S \cup {c}) \ {c} = S
  OBVIOUS
<1>6. Total(S, amount) \in Nat
  BY <1>1, <1>3, TotalType
<1> QED
  BY <1>2, <1>4, <1>5, <1>6 DEF Sum, amount

LEMMA SumType ==
  ASSUME TypeOK, NEW S \in SUBSET Calls
  PROVE  Sum(S) \in Nat
<1>1. IsFiniteSet(S)
  BY ConstantsAssumption, FS_Subset
<1>2. \A c \in S : [d \in Calls |-> Amount(d)][c] \in Int
  BY AmountType
<1> QED
  BY <1>1, <1>2, TotalType DEF Sum

LEMMA InitIInv == Init => IInv
<1> SUFFICES ASSUME Init PROVE IInv
  OBVIOUS
<1>1. TypeOK
  BY ConstantsAssumption DEF Init, TypeOK, InPayout, Finished
<1>2. CallOK
  BY DEF Init, CallOK, InPayout
<1>3. Done = {}
  BY DEF Init, Done, At
<1>4. Balanced
  BY <1>3, SumEmpty, ConstantsAssumption DEF Init, Balanced
<1> QED
  BY <1>1, <1>2, <1>4 DEF IInv

\* A step that moves no cash and finishes no call as done keeps the balance.
LEMMA BalancedStays ==
  ASSUME Balanced, UNCHANGED <<cash, req>>, Done' = Done
  PROVE  Balanced'
<1>1. Sum(Done)' = Sum(Done)
  <2>1. Done \in SUBSET Calls
    BY DEF Done
  <2>2. [c \in Calls |-> Amount(c)]' = [c \in Calls |-> Amount(c)]
    BY DEF Amount
  <2> QED
    BY <2>2 DEF Sum
<1> QED
  BY <1>1 DEF Balanced

\* AvoidResubmit.
LEMMA KeyStep ==
  ASSUME IInv, NEW c \in Calls, GetKey(c) \/ SetKey(c)
  PROVE  IInv'
<1> USE DEF IInv, GetKey, SetKey, At, Goto, database
<1>1. /\ \E label \in {"failed", "set_key", "debit"} : pc' = [pc EXCEPT ![c] = label]
      /\ pc[c] \in {"get_key", "set_key"}
  OBVIOUS
<1>2. keyUntil' \in [RequestIds -> Nat]
  BY ConstantsAssumption DEF TypeOK
<1>3. acceptedAt' \in [Calls -> 0..MaxTime]
  BY DEF TypeOK
<1>4. TypeOK'
  BY <1>1, <1>2, <1>3 DEF TypeOK, InPayout, Finished
<1>5. CallOK'
  BY <1>1 DEF TypeOK, CallOK, InPayout, Amount
<1>6. Balanced'
  <2>1. Done' = Done
    BY <1>1 DEF TypeOK, Done
  <2> QED
    BY <2>1, BalancedStays
<1> QED
  BY <1>4, <1>5, <1>6

\* The debit is undone and the row released, with a fault or before WeChat has paid.
LEMMA RollbackIInv ==
  ASSUME IInv, NEW c \in Calls, Rollback(c), pc[c] \notin Finished,
         UNCHANGED paid,
         \/ UNCHANGED faults /\ ~paid[c]
         \/ faults' = faults + 1 /\ faults < MaxFaults
  PROVE  IInv'
<1> USE DEF IInv, Rollback, Goto, Finished
<1>1. faults' \in 0..MaxFaults /\ (faults' = 0 => faults = 0 /\ ~paid[c])
  BY ConstantsAssumption DEF TypeOK
<1>2. TypeOK'
  BY <1>1, ConstantsAssumption DEF TypeOK, InPayout
<1>3. CallOK'
  BY <1>1 DEF TypeOK, CallOK, InPayout, Amount
<1>4. Balanced'
  <2>1. Done' = Done
    BY DEF TypeOK, Done, At
  <2> QED
    BY <2>1, BalancedStays
<1> QED
  BY <1>2, <1>3, <1>4

LEMMA DebitStep ==
  ASSUME IInv, NEW c \in Calls, Debit(c)
  PROVE  IInv'
<1> USE DEF IInv, At
<1>a. Amount(c) \in Int /\ cash \in Int /\ pc[c] = "debit"
  BY AmountType DEF TypeOK, Debit
<1>1. CASE Amount(c) <= 0 \/ cash < Amount(c)
  <2>1. Rollback(c) /\ UNCHANGED <<paid, faults>>
    <3>1. ~(Amount(c) > 0 /\ cash >= Amount(c))
      BY <1>1, <1>a
    <3> QED
      BY <3>1 DEF Debit
  <2>2. ~paid[c]
    BY <1>a DEF CallOK
  <2> QED
    BY <1>a, <2>1, <2>2, RollbackIInv DEF Finished
<1>2. CASE ~(Amount(c) <= 0 \/ cash < Amount(c))
  <2>1. /\ fundLock = None /\ fundLock' = c
        /\ pc' = [pc EXCEPT ![c] = "payout"]
        /\ UNCHANGED <<now, keyUntil, cash, req, acceptedAt, paid, faults>>
    BY <1>2 DEF Debit, Goto
  <2>2. TypeOK'
    BY <1>a, <2>1, ConstantsAssumption DEF TypeOK, InPayout, Finished
  <2>3. CallOK'
    BY <1>a, <1>2, <2>1 DEF TypeOK, CallOK, InPayout, Amount
  <2>4. Done' = Done
    BY <1>a, <2>1 DEF TypeOK, Done
  <2> QED
    BY <2>1, <2>2, <2>3, <2>4, BalancedStays
<1> QED
  BY <1>1, <1>2

LEMMA PayoutStep ==
  ASSUME IInv, NEW c \in Calls, Payout(c)
  PROVE  IInv'
<1> USE DEF IInv, At
<1>1. /\ pc[c] = "payout" /\ pc' = [pc EXCEPT ![c] = "answer"]
      /\ \E decision \in BOOLEAN : paid' = [paid EXCEPT ![c] = decision]
      /\ UNCHANGED <<now, keyUntil, cash, fundLock, req, acceptedAt, faults>>
  BY DEF Payout, Goto, database
<1>2. TypeOK'
  BY <1>1 DEF TypeOK, InPayout, Finished
<1>3. CallOK'
  <2>1. /\ \A d \in Calls \ {c} : pc'[d] = pc[d] /\ paid'[d] = paid[d]
        /\ pc'[c] = "answer"
        /\ UNCHANGED <<cash, faults>> /\ \A d \in Calls : Amount(d)' = Amount(d)
    BY <1>1 DEF TypeOK, Amount
  <2>2. 0 < Amount(c) /\ Amount(c) <= cash
    BY <1>1 DEF CallOK, InPayout
  <2> SUFFICES ASSUME NEW d \in Calls
               PROVE  /\ InPayout(d)' => 0 < Amount(d) /\ Amount(d) <= cash
                      /\ pc'[d] \in {"save", "done"} => paid'[d] /\ 0 < Amount(d)
                      /\ paid'[d] => \/ pc'[d] \in {"answer", "save", "done"}
                                     \/ pc'[d] = "failed" /\ faults # 0
    BY <2>1 DEF CallOK
  <2>3. CASE d = c
    BY <2>1, <2>2, <2>3
  <2>4. CASE d # c
    BY <2>1, <2>4 DEF CallOK, InPayout
  <2> QED
    BY <2>3, <2>4
<1>4. Done' = Done
  BY <1>1 DEF TypeOK, Done
<1> QED
  BY <1>1, <1>2, <1>3, <1>4, BalancedStays

LEMMA AnswerStep ==
  ASSUME IInv, NEW c \in Calls, Answer(c) \/ AnswerLost(c) \/ Crash(c)
  PROVE  IInv'
<1> USE DEF IInv, At
<1>1. CASE Rollback(c)
  <2>1. pc[c] \notin Finished /\ UNCHANGED paid
    BY DEF Answer, AnswerLost, Crash, Finished
  <2>2. CASE AnswerLost(c) \/ Crash(c)
    BY <1>1, <2>1, <2>2, RollbackIInv DEF AnswerLost, Crash
  <2>3. CASE Answer(c)
    <3>1. UNCHANGED faults /\ (paid[c] => pc' = [pc EXCEPT ![c] = "save"])
      BY <2>3 DEF Answer, Goto
    <3>2. ~paid[c]
      BY <1>1, <2>3, <3>1 DEF Rollback, Goto, TypeOK
    <3> QED
      BY <1>1, <2>1, <3>1, <3>2, RollbackIInv
  <2> QED
    BY <2>2, <2>3
<1>2. CASE ~Rollback(c)
  <2>1. /\ pc[c] = "answer" /\ paid[c] /\ pc' = [pc EXCEPT ![c] = "save"]
        /\ UNCHANGED <<now, keyUntil, cash, fundLock, req, acceptedAt, paid, faults>>
    BY <1>2 DEF Answer, AnswerLost, Crash, Goto, database
  <2>2. TypeOK'
    BY <2>1 DEF TypeOK, InPayout, Finished
  <2>3. CallOK'
    BY <2>1 DEF TypeOK, CallOK, InPayout, Amount
  <2>4. Done' = Done
    BY <2>1 DEF TypeOK, Done
  <2> QED
    BY <2>1, <2>2, <2>3, <2>4, BalancedStays
<1> QED
  BY <1>1, <1>2

\* The only step that moves cash: the call joins those that are done.
LEMMA SaveStep ==
  ASSUME IInv, NEW c \in Calls, Save(c)
  PROVE  IInv'
<1> USE DEF IInv, At
<1>1. /\ pc[c] = "save" /\ pc' = [pc EXCEPT ![c] = "done"]
      /\ cash' = cash - Amount(c) /\ fundLock' = None
      /\ UNCHANGED <<now, keyUntil, req, acceptedAt, paid, faults>>
  BY DEF Save, Goto
<1>2. /\ Amount(c) \in Nat /\ 0 < Amount(c) /\ Amount(c) <= cash /\ paid[c]
      /\ cash \in Nat /\ InitialCash \in Nat
  BY <1>1, AmountType, ConstantsAssumption DEF CallOK, InPayout, Balanced
<1>3. \A d \in Calls : d # c => ~InPayout(d)
  BY <1>1 DEF TypeOK, InPayout
<1>4. TypeOK'
  BY <1>1, <1>2, <1>3, ConstantsAssumption DEF TypeOK, InPayout, Finished
<1>5. CallOK'
  BY <1>1, <1>2, <1>3 DEF TypeOK, CallOK, InPayout, Amount
<1>6. Balanced'
  <2>1. Done' = Done \cup {c} /\ c \notin Done /\ Done \in SUBSET Calls
    BY <1>1 DEF TypeOK, Done
  <2>2. Sum(Done \cup {c}) = Sum(Done) + Amount(c) /\ Sum(Done) \in Nat
    BY <1>2, <2>1, SumAdd, SumType
  <2>3. Sum(Done)' = Sum(Done \cup {c})
    <3>1. [d \in Calls |-> Amount(d)]' = [d \in Calls |-> Amount(d)]
      BY <1>1 DEF Amount
    <3> QED
      BY <2>1, <3>1 DEF Sum
  <2> QED
    BY <1>1, <1>2, <2>2, <2>3 DEF Balanced
<1> QED
  BY <1>4, <1>5, <1>6

LEMMA OtherStep ==
  ASSUME IInv, Tick \/ UNCHANGED vars
  PROVE  IInv'
<1> USE DEF IInv, Tick, vars, database
<1>1. now' \in 0..MaxTime
  BY ConstantsAssumption DEF TypeOK
<1>2. TypeOK'
  BY <1>1 DEF TypeOK, InPayout
<1>3. CallOK'
  BY DEF CallOK, InPayout, Amount
<1>4. Done' = Done
  BY DEF Done, At
<1> QED
  BY <1>2, <1>3, <1>4, BalancedStays

\* IInv is inductive.
THEOREM Invariance == Spec => []IInv
<1>1. IInv /\ [Next]_vars => IInv'
  <2> SUFFICES ASSUME IInv, [Next]_vars PROVE IInv'
    OBVIOUS
  <2>1. CASE Tick \/ UNCHANGED vars
    BY <2>1, OtherStep
  <2>2. ASSUME NEW c \in Calls, GetKey(c) \/ Step(c) \/ AnswerLost(c) \/ Crash(c)
        PROVE  IInv'
    BY <2>2, KeyStep, DebitStep, PayoutStep, AnswerStep, SaveStep DEF Step
  <2> QED
    BY <2>1, <2>2 DEF Next, Terminating
<1> QED
  BY <1>1, InitIInv, PTL DEF Spec

\* Whatever is being paid out for concurrent withdrawals is covered by the user's cash.
THEOREM AlwaysCovered == Spec => []PayoutsCovered
<1>1. IInv => PayoutsCovered
  <2> SUFFICES ASSUME IInv PROVE PayoutsCovered
    OBVIOUS
  <2> DEFINE S == {c \in Calls : InPayout(c)}
  <2>0. TypeOK /\ CallOK /\ cash \in Nat
    BY DEF IInv, Balanced
  <2>1. CASE S = {}
    BY <2>0, <2>1, SumEmpty DEF PayoutsCovered
  <2>2. ASSUME NEW c \in S
        PROVE  PayoutsCovered
    <3>1. S = {c}
      BY <2>0 DEF TypeOK
    <3>2. Amount(c) \in Nat /\ Amount(c) <= cash
      BY <2>0, AmountType DEF CallOK
    <3>3. Sum({c}) = Amount(c)
      BY <3>2, SumOne
    <3> QED
      BY <3>1, <3>2, <3>3 DEF PayoutsCovered
  <2> QED
    BY <2>1, <2>2
<1> QED
  BY <1>1, Invariance, PTL

\* No fund is debited for a withdrawal that WeChat did not pay.
THEOREM NeverDebitedUnpaid == Spec => []DebitedIsPaid
<1>1. IInv => DebitedIsPaid
  BY DEF IInv, CallOK, DebitedIsPaid, At
<1> QED
  BY <1>1, Invariance, PTL

\* Without faults, once all calls are over, the cash that is gone is what WeChat paid.
THEOREM SettledWithoutFaults == Spec => []Settled
<1>1. IInv => Settled
  <2> SUFFICES ASSUME IInv, faults = 0, \A c \in Calls : pc[c] \in Finished
               PROVE  cash + Sum({c \in Calls : paid[c]}) = InitialCash
    BY DEF Settled
  <2>1. {c \in Calls : paid[c]} = Done
    BY DEF IInv, CallOK, Done, At, Finished
  <2> QED
    BY <2>1 DEF IInv, Balanced
<1> QED
  BY <1>1, Invariance, PTL

\* Whatever the number of calls and the amounts, every variable has its type.
THEOREM TypeCorrect == Spec => []TypeOK
<1>1. IInv => TypeOK
  BY DEF IInv
<1> QED
  BY <1>1, Invariance, PTL
=============================================================================
