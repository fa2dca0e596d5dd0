------------------------------ MODULE MCCheckout ------------------------------
(* The instance of Accounts and Checkout that TLC checks: two phones, of   *)
(* which one has an account, and three calls in almost any combination.    *)
EXTENDS Checkout

CONSTANTS c1, c2, c3, p1, p2, o1, o2, n1, w1, w2, id1

Ask(kind, phone) ==
  [kind |-> kind, phone |-> phone, openid |-> None, name |-> None, password |-> None,
   to |-> None, requestId |-> None, amount |-> 0]

\* By number, so that combinations can be told from their permutations.
Asked == <<
  Ask("fund", p1),
  [Ask("signIn", p1) EXCEPT !.openid = o1],
  [Ask("updateUserInfo", p1) EXCEPT !.name = n1],
  Ask("signUp", p2),
  [Ask("createPayOrder", p1) EXCEPT !.openid = o1, !.requestId = id1, !.amount = 250],
  [Ask("createPayOrder", p1) EXCEPT !.openid = o1, !.requestId = id1, !.amount = 99],
  [Ask("signUp", p2) EXCEPT !.openid = o1, !.name = n1],
  [Ask("signUp", p2) EXCEPT !.openid = o2],
  [Ask("bindThirdAccount", p1) EXCEPT !.openid = o1],
  [Ask("setPaymentPassword", p1) EXCEPT !.password = w1],
  [Ask("setPaymentPassword", p1) EXCEPT !.password = w2],
  [Ask("transfer", p1) EXCEPT !.password = w1, !.to = p2, !.requestId = id1],
  [Ask("transfer", p1) EXCEPT !.password = w2, !.to = p1, !.requestId = id1],
  Ask("ledgerList", p1),
  [Ask("createPayOrder", p1) EXCEPT !.openid = o1, !.to = p2, !.requestId = id1, !.amount = 199],
  Ask("editQuota", p1) >>

\* The first six, which get in the way of few others, come once at most.
Scarce == 1..6

Combination(i, j, k) ==
  [c \in Calls |-> IF c = c1 THEN Asked[i] ELSE IF c = c2 THEN Asked[j] ELSE Asked[k]]

Ordered ==
  LET n == DOMAIN Asked
  IN {Combination(t[1], t[2], t[3]) :
        t \in {t \in n \X n \X n : t[1] <= t[2] /\ t[2] <= t[3] /\ t[2] \notin Scarce}}
=============================================================================
