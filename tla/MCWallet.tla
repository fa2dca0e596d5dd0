------------------------------ MODULE MCWallet ------------------------------
(***************************************************************************)
(* Small instances of Wallet: two users; the first owns cash 3 and two     *)
(* holds, one expired at the start and one at time 1.                      *)
(***************************************************************************)
EXTENDS Wallet, TLC

CONSTANTS u1, u2, h1, h2, o1, o2

MCInitialCash == u1 :> 3 @@ u2 :> 1
MCInitialHold == h1 :> [fund |-> u1, amount |-> 1, expired_at |-> 0]
              @@ h2 :> [fund |-> u1, amount |-> 2, expired_at |-> 1]

Ask(kind, user, to, amount, order) ==
  [kind |-> kind, user |-> user, to |-> to, amount |-> amount, order |-> order]

Recharge == Ask("callback", u1, None, 1, o1)
Purchase == Ask("callback", u1, u2, 2, o2)

\* The same orders again, when their openid has gone from u1 to the vendor.
RechargeRebound == Ask("callback", u2, None, 1, o1)
PurchaseRebound == Ask("callback", u2, u2, 2, o2)
Release == Ask("expired_unhold", u1, None, 0, None)
Pays(p, q, amount) == Ask("transfer", p, q, amount, None)
Withdraws(p, amount) == Ask("withdraw", p, None, amount, None)

\* Every kind of request, amounts that one hold covers, that two do not, and none.
MCRequests == {Recharge, Purchase, RechargeRebound, PurchaseRebound, Release,
               Pays(u1, u2, 1), Pays(u2, u1, 1), Pays(u1, u1, 3), Pays(u2, u1, 0),
               Withdraws(u1, 3), Withdraws(u2, 0)}

\* A transfer that both holds together would pay for, and neither does alone.
TransferOnly == {Pays(u1, u2, 3)}

\* A transfer that a hold covers, beside a recharge of the payer.
TransferAndRecharge == {Pays(u1, u2, 2), Recharge}

Symmetry == Permutations(Jobs)
=============================================================================
