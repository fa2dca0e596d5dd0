------------------------------- MODULE Orders -------------------------------
(***************************************************************************)
(* From a payment at WeChat to the credit of the customer's fund:          *)
(* provider/wechat.py (order_info, order_updated) and wallet/tasks.py      *)
(* (sync_wechat_order).                                                    *)
(*                                                                         *)
(* WeChat notifies the server of a payment until the server answers        *)
(* success, or it has notified often enough; meanwhile the customer's      *)
(* client polls order_info, which queues a Celery task that asks WeChat    *)
(* for the order's state.  Either way wechat_django stores the result and  *)
(* then sends the order_updated signal, in the same process.  The receiver *)
(* checks for rows of the order, looks for the customer who has bound the  *)
(* order's openid just then, takes a Redis lock that expires after ten     *)
(* seconds, and credits the customer's fund in one transaction (whose      *)
(* inside is module Wallet).                                               *)
(***************************************************************************)
EXTENDS Integers, FiniteSets

CONSTANTS
  Orders,      \* ids of UnifiedOrder rows
  Customers,   \* ids of ShopUser rows
  TwoFunds,    \* those of them that have two Fund rows (module Accounts says how)
  Workers,     \* web and Celery processes
  None,        \* no worker, order or customer
  MaxRetries,  \* max_retries of sync_wechat_order
  MaxNotices,  \* how often WeChat notifies of a payment at most
  MaxTasks,    \* bound: tasks that polls may queue for an order
  MaxFaults    \* bound: crashes, failed transactions and lost notifications

ASSUME ConstantsAssumption ==
  /\ None \notin Orders \cup Workers \cup Customers /\ TwoFunds \subseteq Customers
  /\ MaxRetries \in Nat /\ MaxNotices \in Nat /\ MaxTasks \in Nat /\ MaxFaults \in Nat

VARIABLES
  wx,         \* WeChat's state of the order
  expired,    \* time_expire of the order has passed
  notices,    \* notifications that WeChat still sends
  acked,      \* WeChat has had the answer to a notification
  holder,     \* who has bound the order's openid; None: nobody, or the order's payee is gone
  result,     \* UnifiedOrderResult, the server's copy of WeChat's state
  credits,    \* committed credits of the order (its DEPOSIT rows)
  key,        \* the AvoidResubmit key of order_info is in Redis
  polls,      \* polls that have found no key
  queue,      \* sync tasks waiting, by the retries they have had
  redisLock,  \* the holder of order:<id>_update_signal
  fundLock,   \* the worker whose transaction has updated a customer's Fund row
  run,        \* what each worker is doing
  faults      \* so far

vars == <<wx, expired, notices, acked, holder, result, credits, key, polls, queue,
          redisLock, fundLock, run, faults>>

wechat == <<wx, expired, notices, acked, holder>>
client == <<key, polls>>
locks == <<redisLock, fundLock>>

Labels == {"idle", "add_task", "query", "check_exists", "lookup", "acquire", "deposit",
           "insert", "commit", "release"}

\* Where the worker is, the order and the event it works for (a notification, a poll or
\* a sync task), the retries of its task, the customer it has found, and whether the
\* receiver is raising.
Run == [pc : Labels, order : Orders \cup {None}, source : {"poll", "notify", "sync", "none"},
        retries : 0..MaxRetries, customer : Customers \cup {None}, raised : BOOLEAN]

Idle == [pc |-> "idle", order |-> None, source |-> "none", retries |-> 0, customer |-> None,
         raised |-> FALSE]

Init ==
  /\ wx = [o \in Orders |-> "NOTPAY"] /\ result = [o \in Orders |-> "NOTPAY"]
  /\ expired = [o \in Orders |-> FALSE] /\ acked = [o \in Orders |-> FALSE]
  /\ notices = [o \in Orders |-> MaxNotices]
  /\ holder \in [Orders -> Customers \cup {None}]
  /\ credits = [o \in Orders |-> 0]
  /\ key = [o \in Orders |-> FALSE] /\ polls = [o \in Orders |-> 0]
  /\ queue = [o \in Orders |-> [n \in 0..MaxRetries |-> 0]]
  /\ redisLock = [o \in Orders |-> None] /\ fundLock = [u \in Customers |-> None]
  /\ run = [w \in Workers |-> Idle]
  /\ faults = 0

At(w, label) == run[w].pc = label
Order(w) == run[w].order
Customer(w) == run[w].customer
Goto(w, label) == run' = [run EXCEPT ![w].pc = label]
Finish(w) == run' = [run EXCEPT ![w] = Idle]

Start(w, o, kind, n, label) ==
  /\ At(w, "idle")
  /\ run' = [run EXCEPT ![w] = [pc |-> label, order |-> o, source |-> kind, retries |-> n,
                                customer |-> None, raised |-> FALSE]]
-----------------------------------------------------------------------------
(* Outside the server.                                                     *)

Pay(o) ==
  /\ wx[o] = "NOTPAY" /\ ~expired[o]
  /\ wx' = [wx EXCEPT ![o] = "SUCCESS"]
  /\ UNCHANGED <<expired, notices, acked, holder, result, credits, client, queue, locks, run,
                 faults>>

Expire(o) ==
  /\ ~expired[o]
  /\ expired' = [expired EXCEPT ![o] = TRUE]
  /\ UNCHANGED <<wx, notices, acked, holder, result, credits, client, queue, locks, run,
                 faults>>

\* A customer binds the openid, or an overtaken call or an administrator unbinds it.
Rebind(o, u) ==
  /\ holder[o] # u
  /\ holder' = [holder EXCEPT ![o] = u]
  /\ UNCHANGED <<wx, expired, notices, acked, result, credits, client, queue, locks, run,
                 faults>>

\* A notification that WeChat sends and no process gets.
LoseNotice(o) ==
  /\ wx[o] = "SUCCESS" /\ ~acked[o] /\ notices[o] > 0 /\ faults < MaxFaults
  /\ notices' = [notices EXCEPT ![o] = @ - 1]
  /\ faults' = faults + 1
  /\ UNCHANGED <<wx, expired, acked, holder, result, credits, client, queue, locks, run>>

\* Redis drops the lock after timeout=10, whatever its holder does.
LockExpires(o) ==
  /\ redisLock[o] # None
  /\ redisLock' = [redisLock EXCEPT ![o] = None]
  /\ UNCHANGED <<wechat, result, credits, client, queue, fundLock, run, faults>>

KeyExpires(o) ==
  /\ key[o]
  /\ key' = [key EXCEPT ![o] = FALSE]
  /\ UNCHANGED <<wechat, result, credits, polls, queue, locks, run, faults>>

\* A task not started within expires=10 is dropped.
TaskExpires(o, n) ==
  /\ queue[o][n] > 0
  /\ queue' = [queue EXCEPT ![o][n] = @ - 1]
  /\ UNCHANGED <<wechat, result, credits, client, locks, run, faults>>
-----------------------------------------------------------------------------
(* order_info and sync_wechat_order.                                       *)

\* A poll that finds no key (one that does queues nothing) ...
Poll(w, o) ==
  /\ ~key[o] /\ polls[o] < MaxTasks
  /\ polls' = [polls EXCEPT ![o] = @ + 1]
  /\ Start(w, o, "poll", 0, "add_task")
  /\ UNCHANGED <<wechat, result, credits, key, queue, locks, faults>>

\* ... sets it and queues a task.
AddTask(w) ==
  LET o == Order(w)
  IN /\ At(w, "add_task")
     /\ key' = [key EXCEPT ![o] = TRUE]
     /\ queue' = [queue EXCEPT ![o][0] = @ + 1]
     /\ Finish(w)
     /\ UNCHANGED <<wechat, result, credits, polls, locks, faults>>

\* A task starts; it returns at once for an order known to be paid, or expired.
Sync(w, o, n) ==
  /\ queue[o][n] > 0
  /\ queue' = [queue EXCEPT ![o][n] = @ - 1]
  /\ \/ (result[o] = "SUCCESS" \/ expired[o]) /\ At(w, "idle") /\ UNCHANGED run
     \/ result[o] # "SUCCESS" /\ ~expired[o] /\ Start(w, o, "sync", n, "query")
  /\ UNCHANGED <<wechat, result, credits, client, locks, faults>>

\* order.sync(): store what WeChat says and signal it; NoSuccess retries the task.
Query(w) ==
  LET o == Order(w)
      n == run[w].retries
  IN /\ At(w, "query")
     /\ \/ /\ wx[o] = "SUCCESS"
           /\ result' = [result EXCEPT ![o] = "SUCCESS"]
           /\ run' = [run EXCEPT ![w].pc = "check_exists", ![w].retries = 0]
           /\ UNCHANGED queue
        \/ /\ wx[o] # "SUCCESS"
           /\ queue' = IF n < MaxRetries THEN [queue EXCEPT ![o][n + 1] = @ + 1] ELSE queue
           /\ Finish(w)
           /\ UNCHANGED result
     /\ UNCHANGED <<wechat, credits, client, locks, faults>>
-----------------------------------------------------------------------------
(* order_updated.                                                          *)


\* A notification arrives: the result is stored, and the signal sent.
Notify(w, o) ==
  /\ wx[o] = "SUCCESS" /\ ~acked[o] /\ notices[o] > 0
  /\ notices' = [notices EXCEPT ![o] = @ - 1]
  /\ Start(w, o, "notify", 0, "check_exists")
  /\ result' = [result EXCEPT ![o] = "SUCCESS"]
  /\ UNCHANGED <<wx, expired, acked, holder, credits, client, queue, locks, faults>>

\* Mutant of Return: the view answers success whatever the receiver raised.
ReturnSuccess(w, ok) ==
  /\ acked' = [acked EXCEPT ![Order(w)] = @ \/ run[w].source = "notify"]
  /\ Finish(w)

\* The receiver returns: the answer to a notification is success, unless it raised.
Return(w, ok) ==
  /\ acked' = [acked EXCEPT ![Order(w)] = @ \/ (ok /\ run[w].source = "notify")]
  /\ Finish(w)

\* "skip for duplicate trigger", before the lock is taken.
CheckExists(w) ==
  /\ At(w, "check_exists")
  /\ \/ credits[Order(w)] > 0 /\ Return(w, TRUE)
     \/ credits[Order(w)] = 0 /\ Goto(w, "lookup") /\ UNCHANGED acked
  /\ UNCHANGED <<wx, expired, notices, holder, result, credits, client, queue, locks, faults>>

\* The customer, by the order's openid, and the payee; the receiver raises DoesNotExist when
\* there is none.
Lookup(w) ==
  LET u == holder[Order(w)]
  IN /\ At(w, "lookup")
     /\ \/ u = None /\ Return(w, FALSE)
        \/ /\ u # None
           /\ run' = [run EXCEPT ![w].pc = "acquire", ![w].customer = u]
           /\ UNCHANGED acked
     /\ UNCHANGED <<wx, expired, notices, holder, result, credits, client, queue, locks,
                    faults>>

Acquire(w) ==
  /\ At(w, "acquire")
  /\ redisLock[Order(w)] = None
  /\ redisLock' = [redisLock EXCEPT ![Order(w)] = w]
  /\ Goto(w, "deposit")
  /\ UNCHANGED <<wechat, result, credits, client, queue, fundLock, faults>>

Raise(w) == run' = [run EXCEPT ![w].pc = "release", ![w].raised = TRUE]

\* The transaction's first write, which waits for the customer's Fund row, unless
\* get_user_fund raises MultipleObjectsReturned.
Deposit(w) ==
  /\ At(w, "deposit")
  /\ \/ Customer(w) \in TwoFunds /\ Raise(w) /\ UNCHANGED fundLock
     \/ /\ Customer(w) \notin TwoFunds
        /\ fundLock[Customer(w)] = None
        /\ fundLock' = [fundLock EXCEPT ![Customer(w)] = w]
        /\ Goto(w, "insert")
  /\ UNCHANGED <<wechat, result, credits, client, queue, redisLock, faults>>

Unlock(w) == fundLock' = [fundLock EXCEPT ![Customer(w)] = None]

\* Mutant of Insert: FundTransfer is not unique on (type, order_id).
InsertAgain(w) ==
  /\ At(w, "insert")
  /\ Goto(w, "commit")
  /\ UNCHANGED <<wechat, result, credits, client, queue, locks, faults>>

\* The DEPOSIT row.  One of the same order that another transaction has inserted is waited
\* for (both may be here: the openid may have changed hands between their lookups, so that
\* they lock different Fund rows); if it is committed, IntegrityError.
Insert(w) ==
  /\ At(w, "insert")
  /\ \A v \in Workers : ~(At(v, "commit") /\ Order(v) = Order(w))
  /\ \/ credits[Order(w)] > 0 /\ Unlock(w) /\ Raise(w)
     \/ credits[Order(w)] = 0 /\ Goto(w, "commit") /\ UNCHANGED fundLock
  /\ UNCHANGED <<wechat, result, credits, client, queue, redisLock, faults>>

\* The rest of the transaction, and its commit.
Commit(w) ==
  /\ At(w, "commit")
  /\ credits' = [credits EXCEPT ![Order(w)] = @ + 1]
  /\ Unlock(w)
  /\ Goto(w, "release")
  /\ UNCHANGED <<wechat, result, client, queue, redisLock, faults>>

\* A deadlock or a lost connection fails the transaction.
Fail(w) ==
  /\ At(w, "insert") \/ At(w, "commit")
  /\ faults < MaxFaults
  /\ faults' = faults + 1
  /\ Unlock(w)
  /\ Raise(w)
  /\ UNCHANGED <<wechat, result, credits, client, queue, redisLock>>

\* The end of the with block.  Releasing a lock that has expired raises, though the
\* transaction has committed.
Release(w) ==
  LET o == Order(w)
      owned == redisLock[o] = w
  IN /\ At(w, "release")
     /\ redisLock' = [redisLock EXCEPT ![o] = IF owned THEN None ELSE @]
     /\ Return(w, owned /\ ~run[w].raised)
     /\ UNCHANGED <<wx, expired, notices, holder, result, credits, client, queue, fundLock,
                    faults>>

\* Mutant of Crash: the server keeps the locks of a lost connection.
CrashKeepsRow(w) ==
  /\ ~At(w, "idle") /\ faults < MaxFaults
  /\ faults' = faults + 1
  /\ Finish(w)
  /\ UNCHANGED <<wechat, result, credits, client, queue, locks>>

\* The process dies: its transaction is rolled back, its Redis lock stays.
Crash(w) ==
  /\ ~At(w, "idle") /\ faults < MaxFaults
  /\ faults' = faults + 1
  /\ fundLock' = [u \in Customers |-> IF fundLock[u] = w THEN None ELSE fundLock[u]]
  /\ Finish(w)
  /\ UNCHANGED <<wechat, result, credits, client, queue, redisLock>>
-----------------------------------------------------------------------------
Work(w) == \/ AddTask(w) \/ Query(w)
           \/ CheckExists(w) \/ Lookup(w) \/ Acquire(w) \/ Deposit(w) \/ Insert(w)
           \/ Commit(w) \/ Release(w)

Next ==
  \/ \E o \in Orders :
       \/ Pay(o) \/ Expire(o) \/ LockExpires(o) \/ KeyExpires(o) \/ LoseNotice(o)
       \/ \E u \in Customers \cup {None} : Rebind(o, u)
       \/ \E n \in 0..MaxRetries : TaskExpires(o, n)
       \/ \E w \in Workers : \/ Poll(w, o) \/ Notify(w, o)
                             \/ \E n \in 0..MaxRetries : Sync(w, o, n)
  \/ \E w \in Workers : Work(w) \/ Fail(w) \/ Crash(w)

Spec == Init /\ [][Next]_vars

\* A process runs what it has begun and takes what it waits for once that stays free; Redis
\* drops an old lock.  WeChat sends the notifications it has left until one is answered, and
\* the server's listen queue gives each a free process in the end.
FairSpec ==
  /\ Spec
  /\ \A w \in Workers : WF_vars(Work(w))
  /\ \A o \in Orders : WF_vars(LockExpires(o)) /\ WF_vars(\E w \in Workers : Notify(w, o))
-----------------------------------------------------------------------------
(* Properties.                                                             *)

\* Every variable has its type, and a Fund row is locked by the worker, and just by the
\* worker, whose transaction has written it.
TypeOK ==
  /\ wx \in [Orders -> {"NOTPAY", "SUCCESS"}] /\ result \in [Orders -> {"NOTPAY", "SUCCESS"}]
  /\ expired \in [Orders -> BOOLEAN] /\ acked \in [Orders -> BOOLEAN]
  /\ notices \in [Orders -> 0..MaxNotices]
  /\ holder \in [Orders -> Customers \cup {None}]
  /\ credits \in [Orders -> Nat]
  /\ key \in [Orders -> BOOLEAN] /\ polls \in [Orders -> Nat]
  /\ queue \in [Orders -> [0..MaxRetries -> Nat]]
  /\ redisLock \in [Orders -> Workers \cup {None}]
  /\ fundLock \in [Customers -> Workers \cup {None}]
  /\ run \in [Workers -> Run]
  /\ \A w \in Workers, u \in Customers :
       fundLock[u] = w <=> run[w].pc \in {"insert", "commit"} /\ Customer(w) = u
  /\ faults \in 0..MaxFaults

\* An order is credited once, though notifications and tasks run at the same time, the
\* check for earlier credits is made before the lock, the lock may expire under its holder,
\* and each may find another customer for the order's openid.
CreditedOnce == \A o \in Orders : credits[o] <= 1

\* WeChat is told to stop notifying only when the order is credited: whatever fails or
\* crashes in between, another notification follows.
AckedIsCredited == \A o \in Orders : acked[o] => credits[o] = 1

\* A customer with one fund has bound the openid of the paid order.
Creditable(o) == wx[o] = "SUCCESS" /\ holder[o] \in Customers \ TwoFunds


\* A duplicate trigger is skipped (wechat.py: "skip for duplicate trigger"): one that
\* passes the check finds no row of the order when it inserts its own.  Violated: the
\* check is made before the lock and not again under it.
DuplicateSkipped == \A w \in Workers : At(w, "insert") => credits[Order(w)] = 0
=============================================================================
