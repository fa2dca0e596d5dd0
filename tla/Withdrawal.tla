----------------------------- MODULE Withdrawal -----------------------------
(***************************************************************************)
(* The withdraw mutation (wallet/schema.py) of one user, with AvoidResubmit*)
(* (common/utils.py), the debit (do_withdraw, whose inside is in module    *)
(* Wallet) and the payout (WeChatProvider.withdraw).  The payout is an     *)
(* HTTP call to WeChat made inside the database transaction of the debit:  *)
(* WeChat may pay and the answer be lost, or the process die before it     *)
(* commits.                                                                *)
(***************************************************************************)
EXTENDS Totals

CONSTANTS
  Calls,        \* HTTP requests, each handled once; a retry is another call
  RequestIds,   \* the request_id values clients send
  None,         \* no call
  AmountOf,     \* the amount asked for with a request id
  InitialCash,  \* Fund.cash at the start
  Timeout,      \* AvoidResubmit's timeout, in units of the model's clock
  KeyTTL,       \* what setex(key, 1, timeout) makes of it: one second
  MaxTime,      \* bound: the clock stops here
  MaxFaults     \* bound: crashes and lost answers

ASSUME ConstantsAssumption ==
  /\ None \notin Calls /\ IsFiniteSet(Calls)
  /\ AmountOf \in [RequestIds -> Int] /\ InitialCash \in Nat
  /\ Timeout \in Nat /\ KeyTTL \in Nat /\ MaxTime \in Nat /\ MaxFaults \in Nat

VARIABLES
  now,         \* seconds
  keyUntil,    \* when Redis drops the key of the request id
  cash,        \* Fund.cash, committed
  fundLock,    \* the call whose transaction has updated the Fund row, or None
  pc,          \* what the call does next
  req,         \* the call's request id
  acceptedAt,  \* when the call passed AvoidResubmit
  paid,        \* WeChat has paid the user for the call
  faults       \* so far

vars == <<now, keyUntil, cash, fundLock, pc, req, acceptedAt, paid, faults>>
database == <<cash, fundLock>>

Init ==
  /\ now = 0
  /\ keyUntil = [r \in RequestIds |-> 0]
  /\ cash = InitialCash /\ fundLock = None
  /\ pc = [c \in Calls |-> "get_key"]
  /\ req \in [Calls -> RequestIds]
  /\ acceptedAt = [c \in Calls |-> 0]
  /\ paid = [c \in Calls |-> FALSE]
  /\ faults = 0

Amount(c) == AmountOf[req[c]]
At(c, label) == pc[c] = label
Goto(c, label) == pc' = [pc EXCEPT ![c] = label]

\* An exception leaves transaction.atomic, or the connection is lost.
Rollback(c) ==
  /\ fundLock' = IF fundLock = c THEN None ELSE fundLock
  /\ Goto(c, "failed")
  /\ UNCHANGED <<now, keyUntil, cash, req, acceptedAt>>
-----------------------------------------------------------------------------
\* AvoidResubmit.__call__ reads the key ...
GetKey(c) ==
  /\ At(c, "get_key")
  /\ Goto(c, IF now < keyUntil[req[c]] THEN "failed" ELSE "set_key")
  /\ UNCHANGED <<now, keyUntil, database, req, acceptedAt, paid, faults>>

\* ... and sets it: con.setex(key, 1, timeout) takes the time first.
SetKey(c) ==
  /\ At(c, "set_key")
  /\ keyUntil' = [keyUntil EXCEPT ![req[c]] = now + KeyTTL]
  /\ acceptedAt' = [acceptedAt EXCEPT ![c] = now]
  /\ Goto(c, "debit")
  /\ UNCHANGED <<now, database, req, paid, faults>>

\* Mutant of Debit: the balance is checked, and the row is written after the payout.
DebitUnlocked(c) ==
  /\ At(c, "debit")
  /\ \/ (Amount(c) <= 0 \/ cash < Amount(c)) /\ Rollback(c)
     \/ /\ Amount(c) > 0 /\ cash >= Amount(c)
        /\ Goto(c, "payout")
        /\ UNCHANGED <<now, keyUntil, database, req, acceptedAt>>
  /\ UNCHANGED <<paid, faults>>

\* do_withdraw: the transaction holds the Fund row from here to its end.
Debit(c) ==
  /\ At(c, "debit")
  /\ \/ (Amount(c) <= 0 \/ cash < Amount(c)) /\ Rollback(c)
     \/ /\ Amount(c) > 0 /\ cash >= Amount(c)
        /\ fundLock = None
        /\ fundLock' = c
        /\ Goto(c, "payout")
        /\ UNCHANGED <<now, keyUntil, cash, req, acceptedAt>>
  /\ UNCHANGED <<paid, faults>>

\* The transfer call reaches WeChat, which pays or refuses.  No out_trade_no is sent, so
\* WeChat takes every call for a new payout.
Payout(c) ==
  /\ At(c, "payout")
  /\ \E decision \in BOOLEAN : paid' = [paid EXCEPT ![c] = decision]
  /\ Goto(c, "answer")
  /\ UNCHANGED <<now, keyUntil, database, req, acceptedAt, faults>>

\* Mutant of Answer: WithdrawError is logged and not raised.
AnswerIgnored(c) ==
  /\ At(c, "answer")
  /\ Goto(c, "save")
  /\ UNCHANGED <<now, keyUntil, database, req, acceptedAt, paid, faults>>

\* The answer: success, or WithdrawError.
Answer(c) ==
  /\ At(c, "answer")
  /\ \/ paid[c] /\ Goto(c, "save")
        /\ UNCHANGED <<now, keyUntil, database, req, acceptedAt>>
     \/ ~paid[c] /\ Rollback(c)
  /\ UNCHANGED <<paid, faults>>

\* WeChat's answer is an error though it pays (the transfer is queued), or is lost.
AnswerLost(c) ==
  /\ At(c, "answer") /\ paid[c] /\ faults < MaxFaults
  /\ faults' = faults + 1
  /\ Rollback(c)
  /\ UNCHANGED paid

\* Mutant of Save: the debit is computed from the cash read before the lock.
SaveStale(c) ==
  /\ At(c, "save")
  /\ cash' = InitialCash - Amount(c)
  /\ fundLock' = None
  /\ Goto(c, "done")
  /\ UNCHANGED <<now, keyUntil, req, acceptedAt, paid, faults>>

\* transfer.save() with payment_no, and the commit.
Save(c) ==
  /\ At(c, "save")
  /\ cash' = cash - Amount(c)
  /\ fundLock' = None
  /\ Goto(c, "done")
  /\ UNCHANGED <<now, keyUntil, req, acceptedAt, paid, faults>>

Finished == {"done", "failed"}

\* Mutant of Crash: the row of a lost connection stays locked.
CrashKeepsRow(c) ==
  /\ pc[c] \notin Finished /\ faults < MaxFaults
  /\ faults' = faults + 1
  /\ Goto(c, "failed")
  /\ UNCHANGED <<now, keyUntil, database, req, acceptedAt, paid>>

Crash(c) ==
  /\ pc[c] \notin Finished /\ faults < MaxFaults
  /\ faults' = faults + 1
  /\ Rollback(c)
  /\ UNCHANGED paid

Tick ==
  /\ now < MaxTime
  /\ now' = now + 1
  /\ UNCHANGED <<keyUntil, database, pc, req, acceptedAt, paid, faults>>

Step(c) == \/ SetKey(c) \/ Debit(c) \/ Payout(c) \/ Answer(c) \/ Save(c)

Terminating == (\A c \in Calls : pc[c] \in Finished) /\ UNCHANGED vars

Next ==
  \/ Tick \/ Terminating
  \/ \E c \in Calls : GetKey(c) \/ Step(c) \/ AnswerLost(c) \/ Crash(c)

Spec == Init /\ [][Next]_vars

\* A call that has come in is worked on by its process; WeChat answers.
FairSpec == Spec /\ \A c \in Calls : WF_vars(Step(c))
-----------------------------------------------------------------------------
(* Properties.                                                             *)

InPayout(c) == pc[c] \in {"payout", "answer", "save"}

\* Every variable has its type, and the calls in their payout are those that hold the row.
TypeOK ==
  /\ now \in 0..MaxTime
  /\ keyUntil \in [RequestIds -> Nat]
  /\ cash \in Int /\ fundLock \in Calls \cup {None}
  /\ pc \in [Calls -> {"get_key", "set_key", "debit", "payout", "answer", "save"}
                        \cup Finished]
  /\ req \in [Calls -> RequestIds]
  /\ acceptedAt \in [Calls -> 0..MaxTime]
  /\ paid \in [Calls -> BOOLEAN]
  /\ faults \in 0..MaxFaults
  /\ \A c \in Calls : fundLock = c <=> InPayout(c)

Sum(S) == Total(S, [c \in Calls |-> Amount(c)])

\* Concurrent withdrawals of a user never ask WeChat for more than the user's cash: what
\* is being paid out, taken together, is covered.
PayoutsCovered == Sum({c \in Calls : InPayout(c)}) <= cash

\* The fund is debited for a payout that WeChat made, and for no other.
DebitedIsPaid == \A c \in Calls : At(c, "done") => paid[c]

\* With no fault, what WeChat paid is what the fund lost once all calls are over.
Settled ==
  faults = 0 /\ (\A c \in Calls : pc[c] \in Finished)
    => cash + Sum({c \in Calls : paid[c]}) = InitialCash

\* A call in progress ends, whatever becomes of the others.
CallsEnd == \A c \in Calls : At(c, "set_key") ~> pc[c] \in Finished

\* A payout that WeChat made is debited.  Violated: an error, or a crash, rolls the debit
\* back even if WeChat has paid (schema.py: "FIXME: revert do_withdraw?").
PaidIsDebited == \A c \in Calls : paid[c] /\ pc[c] \in Finished => At(c, "done")

\* Within the timeout, one call of a request id passes AvoidResubmit.  Violated: the key
\* lives for one second, and is read before it is set.
ResubmitRefused ==
  \A c, d \in Calls :
    /\ c # d /\ req[c] = req[d]
    /\ InPayout(c) \/ At(c, "done")
    /\ InPayout(d) \/ At(d, "done")
    /\ acceptedAt[c] <= acceptedAt[d]
    => acceptedAt[d] >= acceptedAt[c] + Timeout
=============================================================================
