------------------------------- MODULE Ledger -------------------------------
(***************************************************************************)
(* What the wallet promises, with every request served in one step: how    *)
(* cash and holds may change, and that an order is credited at most once.  *)
(*                                                                         *)
(* The promise about a payer is an upper bound: a payment takes at least   *)
(* its amount out of what the payer owns.  It may take more, because       *)
(* decr_hold empties a hold that is too small without counting it.         *)
(***************************************************************************)
EXTENDS Totals

CONSTANTS Funds, HoldIds, None, NoHold, Requests, Threshold, ExpiredDays,
          InitialCash, InitialHold

VARIABLES now, cash, hold, credited

Init ==
  /\ now = 0
  /\ cash = InitialCash
  /\ hold = [h \in HoldIds |->
               IF h \in DOMAIN InitialHold THEN InitialHold[h] ELSE NoHold]
  /\ credited = {}

HoldsOf(holds, f) == {h \in HoldIds : holds[h].fund = f}

Wealth(c, holds, f) ==
  c[f] + Total(HoldsOf(holds, f), [h \in HoldIds |-> holds[h].amount])

\* The holds of f are reduced or deleted; no other hold changes, but for those in S.
HoldsShrink(f, S) ==
  \A h \in HoldIds \ S :
    \/ hold'[h] = hold[h]
    \/ /\ hold[h].fund = f
       /\ \/ hold'[h] = NoHold
          \/ \E m \in 1..hold[h].amount : hold'[h] = [hold[h] EXCEPT !.amount = m]

\* cash' is cash but for d[f] more in each fund f.
CashMoves(d) == cash' = [f \in Funds |-> cash[f] + d[f]]

Change(f, amount) == [g \in Funds |-> IF g = f THEN amount ELSE 0]

\* The payer p gives q the amount.  The cash of p pays for all of it or for none.
\* What p owns falls by the amount or more, given `gained` that p receives besides.
Pay(p, q, amount, gained, before) ==
  /\ \E paid \in {0, amount} :
       CashMoves([f \in Funds |-> before[f] + Change(q, amount)[f] - Change(p, paid)[f]])
  /\ Wealth(cash', hold', p) <=
       Wealth(cash, hold, p) + gained - (IF p = q THEN 0 ELSE amount)

\* The cash back of a payment, at the row h, or no change at h.  Its expiry counts from
\* a time at which the request was served.
CashBackAt(h, r) ==
  IF r.amount >= Threshold
  THEN /\ hold[h] = NoHold
       /\ \E t \in 0..now :
            hold'[h] = [fund |-> r.user, amount |-> r.amount, expired_at |-> t + ExpiredDays]
  ELSE hold'[h] = hold[h]

Gained(r) == r.amount + (IF r.amount >= Threshold THEN r.amount ELSE 0)

\* An order nobody was credited for yet: deposit, purchase if it names a payee, and
\* cash back.
Callback(r) ==
  /\ r.kind = "callback" /\ r.amount > 0
  /\ r.order \notin credited
  /\ credited' = credited \cup {r.order}
  /\ \E h \in HoldIds :
       /\ CashBackAt(h, r)
       /\ IF r.to = None
          THEN /\ CashMoves(Change(r.user, r.amount))
               /\ \A g \in HoldIds \ {h} : hold'[g] = hold[g]
          ELSE /\ HoldsShrink(r.user, {h})
               /\ Pay(r.user, r.to, r.amount, Gained(r), Change(r.user, r.amount))
  /\ UNCHANGED now

Transfer(r) ==
  /\ r.kind = "transfer" /\ r.amount > 0
  /\ HoldsShrink(r.user, {})
  /\ Pay(r.user, r.to, r.amount, 0, [f \in Funds |-> 0])
  /\ UNCHANGED <<now, credited>>

Withdraw(r) ==
  /\ r.kind = "withdraw" /\ 0 < r.amount /\ r.amount <= cash[r.user]
  /\ CashMoves(Change(r.user, -r.amount))
  /\ UNCHANGED <<now, hold, credited>>

\* Some expired holds turn into cash of their funds.
ExpiredUnhold ==
  /\ \E S \in SUBSET {h \in HoldIds : hold[h] # NoHold /\ hold[h].expired_at <= now} :
       /\ hold' = [h \in HoldIds |-> IF h \in S THEN NoHold ELSE hold[h]]
       /\ CashMoves([f \in Funds |-> Total({h \in S : hold[h].fund = f},
                                           [h \in HoldIds |-> hold[h].amount])])
  /\ UNCHANGED <<now, credited>>

Tick == now' = now + 1 /\ UNCHANGED <<cash, hold, credited>>

Next ==
  \/ \E r \in Requests : Callback(r) \/ Transfer(r) \/ Withdraw(r)
  \/ ExpiredUnhold
  \/ Tick

Spec == Init /\ [][Next]_<<now, cash, hold, credited>>
=============================================================================
