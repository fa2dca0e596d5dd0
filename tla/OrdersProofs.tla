---------------------------- MODULE OrdersProofs ----------------------------
(***************************************************************************)
(* The crediting of orders, proved for any orders, workers, retries and    *)
(* faults: an order is credited once, and acknowledged only when it is     *)
(* credited.  What makes it inductive is WorkOK, what a worker's place in  *)
(* the receiver says of its order.                                         *)
(***************************************************************************)
EXTENDS Orders, TLAPS

\* A worker that is not idle has an order, and past the lookup a customer; one that has
\* inserted the order's row is alone with it, and the order is not credited yet; one that
\* leaves the transaction without an exception leaves the order credited.
WorkOK ==
  \A w \in Workers :
    /\ ~At(w, "idle") => Order(w) \in Orders
    /\ run[w].pc \in {"acquire", "deposit", "insert", "commit"} => Customer(w) \in Customers
    /\ At(w, "commit") => /\ credits[Order(w)] = 0
                          /\ \A v \in Workers : At(v, "commit") /\ Order(v) = Order(w) => v = w
    /\ At(w, "release") /\ ~run[w].raised => credits[Order(w)] = 1

\* A worker inside of the transaction, with the Fund row.
Inside(w) == run[w].pc \in {"insert", "commit"}

IInv == TypeOK /\ CreditedOnce /\ AckedIsCredited /\ WorkOK

\* A step that leaves credits and acknowledgements alone, and of the workers changes at most
\* what w does, outside of the transaction and of its end.
LEMMA ControlIInv ==
  ASSUME IInv, NEW w \in Workers, NEW r \in Run,
         run' = [run EXCEPT ![w] = r],
         ~Inside(w), r.pc \notin {"insert", "commit", "release"},
         r.pc # "idle" => r.order \in Orders,
         r.pc \in {"acquire", "deposit"} => r.customer \in Customers,
         notices' \in [Orders -> 0..MaxNotices],
         result' \in [Orders -> {"NOTPAY", "SUCCESS"}],
         key' \in [Orders -> BOOLEAN], polls' \in [Orders -> Nat],
         queue' \in [Orders -> [0..MaxRetries -> Nat]],
         redisLock' \in [Orders -> Workers \cup {None}],
         faults' \in 0..MaxFaults,
         UNCHANGED <<wx, expired, acked, holder, credits, fundLock>>
  PROVE  IInv'
<1> USE DEF IInv, Inside
<1>1. run' \in [Workers -> Run] /\ run'[w] = r /\ \A v \in Workers : v # w => run'[v] = run[v]
  BY DEF TypeOK
<1>2. \A v \in Workers, u \in Customers :
        fundLock'[u] = v <=> run'[v].pc \in {"insert", "commit"} /\ Customer(v)' = u
  BY <1>1 DEF TypeOK, Customer
<1>3. TypeOK'
  BY <1>1, <1>2 DEF TypeOK
<1>4. CreditedOnce' /\ AckedIsCredited'
  BY DEF CreditedOnce, AckedIsCredited
<1>5. WorkOK'
  BY <1>1 DEF WorkOK, At, Order, Customer
<1> QED
  BY <1>3, <1>4, <1>5

\* The steps outside of the server, and those that leave every worker where it is.
LEMMA OutsideIInv ==
  ASSUME IInv,
         wx' \in [Orders -> {"NOTPAY", "SUCCESS"}], expired' \in [Orders -> BOOLEAN],
         notices' \in [Orders -> 0..MaxNotices], holder' \in [Orders -> Customers \cup {None}],
         faults' \in 0..MaxFaults,
         key' \in [Orders -> BOOLEAN],
         queue' \in [Orders -> [0..MaxRetries -> Nat]],
         redisLock' \in [Orders -> Workers \cup {None}],
         UNCHANGED <<acked, result, credits, polls, fundLock, run>>
  PROVE  IInv'
BY DEF IInv, TypeOK, CreditedOnce, AckedIsCredited, WorkOK, At, Order, Customer

LEMMA InitIInv == Init => IInv
<1> SUFFICES ASSUME Init PROVE IInv
  OBVIOUS
<1>1. TypeOK
  BY ConstantsAssumption DEF Init, TypeOK, Run, Idle, Labels, At, Order, Customer
<1>2. CreditedOnce /\ AckedIsCredited /\ WorkOK
  BY DEF Init, CreditedOnce, AckedIsCredited, WorkOK, Idle, At
<1> QED
  BY <1>1, <1>2 DEF IInv

\* A function stays a function when it changes at one argument.
LEMMA ExceptType ==
  ASSUME NEW S, NEW T, NEW f \in [S -> T], NEW x \in S, NEW y \in T
  PROVE  [f EXCEPT ![x] = y] \in [S -> T]
OBVIOUS

\* A queue stays a queue when one of its counters changes.
LEMMA QueueType ==
  ASSUME NEW q \in [Orders -> [0..MaxRetries -> Nat]],
         NEW o \in Orders, NEW n \in 0..MaxRetries, NEW k \in Nat
  PROVE  [q EXCEPT ![o] = [q[o] EXCEPT ![n] = k]] \in [Orders -> [0..MaxRetries -> Nat]]
<1> DEFINE T == [0..MaxRetries -> Nat]
<1>1. q[o] \in T
  OBVIOUS
<1>2. [q[o] EXCEPT ![n] = k] \in T
  BY <1>1
<1>3. q \in [Orders -> T]
  OBVIOUS
<1> HIDE DEF T
<1>4. [q EXCEPT ![o] = [q[o] EXCEPT ![n] = k]] \in [Orders -> T]
  BY <1>2, <1>3, ExceptType
<1> QED
  BY <1>4 DEF T

\* A task leaves the queue.
LEMMA DequeueType ==
  ASSUME IInv, NEW o \in Orders, NEW n \in 0..MaxRetries, queue[o][n] > 0,
         queue' = [queue EXCEPT ![o][n] = @ - 1]
  PROVE  queue' \in [Orders -> [0..MaxRetries -> Nat]]
<1>1. queue \in [Orders -> [0..MaxRetries -> Nat]]
  BY DEF IInv, TypeOK
<1>4. queue[o] \in [0..MaxRetries -> Nat]
  BY <1>1
<1>5. queue[o][n] \in Nat
  BY <1>4
<1>2. queue[o][n] - 1 \in Nat
  BY <1>5
<1>3. queue' = [queue EXCEPT ![o] = [queue[o] EXCEPT ![n] = queue[o][n] - 1]]
  OBVIOUS
<1> QED
  BY <1>1, <1>2, <1>3, QueueType

LEMMA OutsideStep ==
  ASSUME IInv, NEW o \in Orders,
         \/ Pay(o) \/ Expire(o) \/ LockExpires(o) \/ KeyExpires(o) \/ LoseNotice(o)
         \/ \E u \in Customers \cup {None} : Rebind(o, u)
         \/ \E n \in 0..MaxRetries : TaskExpires(o, n)
  PROVE  IInv'
<1> USE DEF wechat, client, locks
<1>1. CASE Pay(o)
  BY <1>1, OutsideIInv DEF Pay, IInv, TypeOK
<1>2. CASE Expire(o)
  BY <1>2, OutsideIInv DEF Expire, IInv, TypeOK
<1>3. CASE LockExpires(o)
  BY <1>3, OutsideIInv DEF LockExpires, IInv, TypeOK
<1>4. CASE KeyExpires(o)
  BY <1>4, OutsideIInv DEF KeyExpires, IInv, TypeOK
<1>5. ASSUME NEW n \in 0..MaxRetries, TaskExpires(o, n)
      PROVE  IInv'
  <2>1. queue' \in [Orders -> [0..MaxRetries -> Nat]]
    BY <1>5, DequeueType DEF TaskExpires
  <2>2. UNCHANGED <<wx, expired, notices, acked, holder, result, credits, key, polls,
                    redisLock, fundLock, run, faults>>
    BY <1>5 DEF TaskExpires
  <2> QED
    BY <2>1, <2>2, OutsideIInv DEF IInv, TypeOK
<1>6. CASE LoseNotice(o)
  <2>1. notices[o] \in 0..MaxNotices /\ faults \in 0..MaxFaults
    BY DEF IInv, TypeOK
  <2>2. notices[o] - 1 \in 0..MaxNotices /\ faults' \in 0..MaxFaults
    BY <1>6, <2>1, ConstantsAssumption DEF LoseNotice
  <2>3. notices' \in [Orders -> 0..MaxNotices]
    BY <1>6, <2>2 DEF LoseNotice, IInv, TypeOK
  <2> QED
    BY <1>6, <2>2, <2>3, OutsideIInv DEF LoseNotice, IInv, TypeOK
<1>7. ASSUME NEW u \in Customers \cup {None}, Rebind(o, u)
      PROVE  IInv'
  BY <1>7, OutsideIInv DEF Rebind, IInv, TypeOK
<1> QED
  BY <1>1, <1>2, <1>3, <1>4, <1>5, <1>6, <1>7

\* Idle and a fresh start are values of run.
LEMMA RunFacts ==
  /\ Idle \in Run /\ Idle.pc = "idle"
  /\ \A o \in Orders, n \in 0..MaxRetries, label \in Labels,
        kind \in {"poll", "notify", "sync", "none"} :
       [pc |-> label, order |-> o, source |-> kind, retries |-> n, customer |-> None,
        raised |-> FALSE] \in Run
BY ConstantsAssumption DEF Idle, Run, Labels

LEMMA StartIInv ==
  ASSUME IInv, NEW w \in Workers, NEW o \in Orders, NEW n \in 0..MaxRetries,
         NEW label \in {"add_task", "query", "check_exists"},
         NEW kind \in {"poll", "notify", "sync"},
         Start(w, o, kind, n, label),
         notices' \in [Orders -> 0..MaxNotices],
         result' \in [Orders -> {"NOTPAY", "SUCCESS"}],
         polls' \in [Orders -> Nat], queue' \in [Orders -> [0..MaxRetries -> Nat]],
         UNCHANGED <<wx, expired, acked, holder, credits, key, locks, faults>>
  PROVE  IInv'
<1> DEFINE r == [pc |-> label, order |-> o, source |-> kind, retries |-> n, customer |-> None,
                 raised |-> FALSE]
<1>1. r \in Run /\ r.pc = label /\ r.order = o
  BY RunFacts DEF Labels
<1>2. run' = [run EXCEPT ![w] = r] /\ ~Inside(w)
  BY DEF Start, At, Inside
<1>3. r.pc \notin {"idle", "acquire", "deposit", "insert", "commit", "release"}
  BY <1>1
<1>4. key' \in [Orders -> BOOLEAN] /\ redisLock' \in [Orders -> Workers \cup {None}]
      /\ faults' \in 0..MaxFaults
  BY DEF locks, IInv, TypeOK
<1> HIDE DEF r
<1> QED
  BY <1>1, <1>2, <1>3, <1>4, ControlIInv DEF locks

LEMMA BeginStep ==
  ASSUME IInv, NEW w \in Workers, NEW o \in Orders,
         Poll(w, o) \/ Notify(w, o) \/ \E n \in 0..MaxRetries : Sync(w, o, n)
  PROVE  IInv'
<1>0. 0 \in 0..MaxRetries
  BY ConstantsAssumption
<1> USE DEF wechat, client
<1>1. CASE Poll(w, o)
  <2>1. polls' \in [Orders -> Nat]
    BY <1>1 DEF Poll, IInv, TypeOK
  <2> QED
    BY <1>0, <1>1, <2>1, StartIInv DEF Poll, IInv, TypeOK
<1>2. CASE Notify(w, o)
  <2>1. result' \in [Orders -> {"NOTPAY", "SUCCESS"}]
    BY <1>2 DEF Notify, IInv, TypeOK
  <2>2. notices[o] \in 0..MaxNotices
    BY DEF IInv, TypeOK
  <2>3. notices[o] - 1 \in 0..MaxNotices
    BY <1>2, <2>2, ConstantsAssumption DEF Notify
  <2>4. notices' \in [Orders -> 0..MaxNotices]
    BY <1>2, <2>3 DEF Notify, IInv, TypeOK
  <2> QED
    BY <1>0, <1>2, <2>1, <2>4, StartIInv DEF Notify, IInv, TypeOK
<1>3. ASSUME NEW n \in 0..MaxRetries, Sync(w, o, n)
      PROVE  IInv'
  <2>1. queue' \in [Orders -> [0..MaxRetries -> Nat]]
    BY <1>3, DequeueType DEF Sync
  <2>2. CASE UNCHANGED run
    <3>1. UNCHANGED <<wx, expired, notices, acked, holder, result, credits, key, polls,
                      redisLock, fundLock, faults>>
      BY <1>3 DEF Sync, locks
    <3> QED
      BY <2>1, <2>2, <3>1, OutsideIInv DEF IInv, TypeOK
  <2>3. CASE Start(w, o, "sync", n, "query")
    BY <1>3, <2>1, <2>3, StartIInv DEF Sync, IInv, TypeOK
  <2> QED
    BY <1>3, <2>2, <2>3 DEF Sync
<1> QED
  BY <1>1, <1>2, <1>3

\* order_info and the sync task: no credit, no acknowledgement.
LEMMA SyncStep ==
  ASSUME IInv, NEW w \in Workers, AddTask(w) \/ Query(w)
  PROVE  IInv'
<1> USE DEF wechat, client, locks, IInv
<1>o. Order(w) \in Orders /\ run[w] \in Run /\ ~Inside(w)
  BY DEF AddTask, Query, WorkOK, At, Inside, TypeOK
<1>n. run[w].retries \in 0..MaxRetries
  BY <1>o DEF Run
<1>1. CASE AddTask(w)
  <2>1. /\ key' \in [Orders -> BOOLEAN]
        /\ queue' \in [Orders -> [0..MaxRetries -> Nat]]
    BY <1>1, <1>o, ConstantsAssumption, SMTT(30) DEF AddTask, TypeOK
  <2> QED
    BY <1>1, <1>o, <2>1, RunFacts, ControlIInv DEF AddTask, Finish, TypeOK
<1>2. CASE Query(w)
  <2>1. CASE wx[Order(w)] = "SUCCESS"
    <3> DEFINE r == [run[w] EXCEPT !.pc = "check_exists", !.retries = 0]
    <3>1. r \in Run /\ r.pc = "check_exists" /\ r.order \in Orders
      <4>1. 0 \in 0..MaxRetries /\ "check_exists" \in Labels
        BY ConstantsAssumption DEF Labels
      <4> QED
        BY <1>o, <4>1 DEF Run, Order
    <3>4. /\ run' = [run EXCEPT ![w].pc = "check_exists", ![w].retries = 0]
          /\ UNCHANGED queue
      BY <1>2, <2>1 DEF Query
    <3>2. run' = [run EXCEPT ![w] = r] /\ UNCHANGED queue
      BY <3>4 DEF TypeOK
    <3>3. result' \in [Orders -> {"NOTPAY", "SUCCESS"}]
      BY <1>2 DEF Query, TypeOK
    <3> HIDE DEF r
    <3> QED
      BY <1>2, <1>o, <3>1, <3>2, <3>3, ControlIInv DEF Query, TypeOK
  <2>2. CASE wx[Order(w)] # "SUCCESS"
    <3>1. queue' \in [Orders -> [0..MaxRetries -> Nat]]
      <4>1. CASE run[w].retries < MaxRetries
        <5>1. run[w].retries + 1 \in 0..MaxRetries
          BY <4>1, <1>n, ConstantsAssumption
        <5> DEFINE n == run[w].retries + 1
        <5>0. n \in 0..MaxRetries
          BY <5>1
        <5>2. queue' = [queue EXCEPT ![Order(w)][n] = @ + 1]
          BY <1>2, <2>2, <4>1 DEF Query
        <5>3. queue' = [queue EXCEPT ![Order(w)] =
                          [queue[Order(w)] EXCEPT ![n] = queue[Order(w)][n] + 1]]
          BY <5>2
        <5>4. queue \in [Orders -> [0..MaxRetries -> Nat]]
          BY DEF TypeOK
        <5>6. queue[Order(w)] \in [0..MaxRetries -> Nat]
          BY <1>o, <5>4
        <5> HIDE DEF n
        <5>7. queue[Order(w)][n] \in Nat
          BY <5>0, <5>6
        <5>5. queue[Order(w)][n] + 1 \in Nat
          BY <5>7
        <5> QED
          BY <1>o, <5>0, <5>3, <5>4, <5>5, QueueType
      <4>2. CASE ~(run[w].retries < MaxRetries)
        BY <1>2, <2>2, <4>2 DEF Query, TypeOK
      <4> QED
        BY <4>1, <4>2
    <3>2. Finish(w) /\ UNCHANGED result
      BY <1>2, <2>2 DEF Query
    <3> QED
      BY <1>2, <1>o, <3>1, <3>2, RunFacts, ControlIInv DEF Query, Finish, TypeOK
  <2> QED
    BY <2>1, <2>2
<1> QED
  BY <1>1, <1>2

\* The receiver returns, with an exception or with the order credited.
LEMMA ReturnIInv ==
  ASSUME IInv, NEW w \in Workers, NEW ok \in BOOLEAN,
         Return(w, ok), ~Inside(w), ~At(w, "idle"),
         ok => credits[Order(w)] = 1,
         redisLock' \in [Orders -> Workers \cup {None}],
         UNCHANGED <<wx, expired, notices, holder, result, credits, client, queue, fundLock,
                     faults>>
  PROVE  IInv'
<1> USE DEF IInv, Return, Finish, client, Inside
<1>0. /\ run' = [run EXCEPT ![w] = Idle] /\ run' \in [Workers -> Run]
      /\ run'[w].pc = "idle" /\ \A v \in Workers : v # w => run'[v] = run[v]
  BY RunFacts DEF TypeOK
<1>1. /\ Order(w) \in Orders
      /\ acked' = [acked EXCEPT ![Order(w)] = @ \/ (ok /\ run[w].source = "notify")]
  BY DEF WorkOK
<1>2. acked' \in [Orders -> BOOLEAN]
  BY <1>1 DEF TypeOK
<1>3. \A v \in Workers, u \in Customers :
        fundLock'[u] = v <=> run'[v].pc \in {"insert", "commit"} /\ Customer(v)' = u
  BY <1>0 DEF TypeOK, Customer
<1>4. TypeOK'
  BY <1>0, <1>2, <1>3 DEF TypeOK
<1>5. CreditedOnce' /\ AckedIsCredited'
  BY <1>1 DEF CreditedOnce, AckedIsCredited, TypeOK
<1>6. WorkOK'
  BY <1>0 DEF WorkOK, At, Order, Customer
<1> QED
  BY <1>4, <1>5, <1>6

\* A worker changes its label on the way through the receiver.
LEMMA GotoFacts ==
  ASSUME IInv, NEW w \in Workers, NEW r, run' = [run EXCEPT ![w] = r], r \in Run
  PROVE  /\ run' \in [Workers -> Run] /\ run'[w] = r
         /\ \A v \in Workers : v # w => run'[v] = run[v]
BY DEF IInv, TypeOK

LEMMA LabelFacts ==
  ASSUME NEW r \in Run, NEW label \in Labels
  PROVE  /\ [r EXCEPT !.pc = label] \in Run /\ [r EXCEPT !.pc = label].pc = label
         /\ [r EXCEPT !.pc = label].order = r.order
         /\ [r EXCEPT !.pc = label].customer = r.customer
         /\ [r EXCEPT !.pc = label].raised = r.raised
         /\ [r EXCEPT !.pc = label, !.raised = TRUE] \in Run
         /\ [r EXCEPT !.pc = label, !.raised = TRUE].pc = label
         /\ [r EXCEPT !.pc = label, !.raised = TRUE].order = r.order
         /\ [r EXCEPT !.pc = label, !.raised = TRUE].raised
BY DEF Run

\* A worker leaves the transaction, with an exception or with the order credited, and the
\* Fund row is free again.
LEMMA EndIInv ==
  ASSUME IInv, NEW w \in Workers, NEW r \in Run,
         Inside(w), Unlock(w),
         run' = [run EXCEPT ![w] = r], r.pc = "release", r.order = Order(w),
         \/ UNCHANGED credits /\ r.raised
         \/ /\ At(w, "commit")
            /\ credits' = [credits EXCEPT ![Order(w)] = @ + 1],
         faults' \in 0..MaxFaults,
         UNCHANGED <<wechat, result, client, queue, redisLock>>
  PROVE  IInv'
<1> USE DEF IInv, wechat, client, Inside
<1>o. Order(w) \in Orders /\ Customer(w) \in Customers
  BY DEF WorkOK, At, TypeOK
<1>2. /\ run' \in [Workers -> Run] /\ run'[w] = r
      /\ \A v \in Workers : v # w => run'[v] = run[v]
  BY GotoFacts
<1>3. fundLock' = [fundLock EXCEPT ![Customer(w)] = None]
  BY DEF Unlock
<1>4. /\ credits' \in [Orders -> Nat]
      /\ \A o \in Orders : o # Order(w) => credits'[o] = credits[o]
      /\ ~r.raised => credits'[Order(w)] = 1
      /\ credits'[Order(w)] = credits[Order(w)] \/ credits[Order(w)] = 0
      /\ credits'[Order(w)] = credits[Order(w)] \/ credits'[Order(w)] = 1
  <2>1. CASE UNCHANGED credits /\ r.raised
    BY <1>o, <2>1 DEF TypeOK
  <2>2. CASE At(w, "commit") /\ credits' = [credits EXCEPT ![Order(w)] = @ + 1]
    <3>1. credits[Order(w)] = 0
      BY <2>2 DEF WorkOK
    <3> QED
      BY <1>o, <2>2, <3>1 DEF TypeOK
  <2> QED
    BY <2>1, <2>2
<1>5. \A v \in Workers, u \in Customers :
        fundLock'[u] = v <=> run'[v].pc \in {"insert", "commit"} /\ Customer(v)' = u
  <2> SUFFICES ASSUME NEW v \in Workers, NEW u \in Customers
               PROVE  fundLock'[u] = v <=> run'[v].pc \in {"insert", "commit"} /\ Customer(v)' = u
    OBVIOUS
  <2>1. fundLock[u] = v <=> run[v].pc \in {"insert", "commit"} /\ Customer(v) = u
    BY DEF TypeOK
  <2>2. fundLock[Customer(w)] = w
    BY <1>o DEF TypeOK
  <2>5. fundLock'[u] = IF u = Customer(w) THEN None ELSE fundLock[u]
    BY <1>o, <1>3 DEF TypeOK
  <2>6. None # v
    BY ConstantsAssumption
  <2> QED
    BY <1>2, <2>1, <2>2, <2>5, <2>6 DEF Customer
<1>6. TypeOK'
  BY <1>2, <1>3, <1>4, <1>5 DEF TypeOK
<1>7. CreditedOnce'
  BY <1>o, <1>4 DEF CreditedOnce, TypeOK
<1>8. AckedIsCredited'
  BY <1>o, <1>4 DEF AckedIsCredited, TypeOK
<1>9. WorkOK'
  <2> SUFFICES ASSUME NEW v \in Workers
               PROVE  /\ ~At(v, "idle")' => Order(v)' \in Orders
                      /\ run'[v].pc \in {"acquire", "deposit", "insert", "commit"}
                           => Customer(v)' \in Customers
                      /\ At(v, "commit")' =>
                           /\ credits'[Order(v)'] = 0
                           /\ \A x \in Workers : At(x, "commit")' /\ Order(x)' = Order(v)' => x = v
                      /\ At(v, "release")' /\ ~run'[v].raised => credits'[Order(v)'] = 1
    BY DEF WorkOK
  <2>1. CASE v = w
    BY <1>o, <1>2, <1>4, <2>1 DEF At, Order
  <2>2. CASE v # w
    <3>1. run'[v] = run[v]
      BY <1>2, <2>2
    <3>2. /\ ~At(v, "idle") => Order(v) \in Orders
          /\ run[v].pc \in {"acquire", "deposit", "insert", "commit"} => Customer(v) \in Customers
          /\ At(v, "commit") =>
               /\ credits[Order(v)] = 0
               /\ \A x \in Workers : At(x, "commit") /\ Order(x) = Order(v) => x = v
          /\ At(v, "release") /\ ~run[v].raised => credits[Order(v)] = 1
      BY DEF WorkOK
    <3>3. ASSUME At(v, "commit")
          PROVE  credits'[Order(v)] = 0
      <4>1. CASE UNCHANGED credits
        BY <3>2, <3>3, <4>1
      <4>2. CASE At(w, "commit")
        <5>1. Order(v) # Order(w)
          BY <2>2, <3>2, <3>3, <4>2
        <5> QED
          BY <1>4, <3>2, <3>3, <5>1 DEF At
      <4> QED
        BY <4>1, <4>2
    <3>4. ASSUME At(v, "commit"), NEW x \in Workers, At(x, "commit")', Order(x)' = Order(v)
          PROVE  x = v
      <4>1. x # w /\ run'[x] = run[x]
        BY <1>2, <3>4 DEF At
      <4> QED
        BY <3>2, <3>4, <4>1 DEF At, Order
    <3>5. At(v, "release") /\ ~run[v].raised => credits'[Order(v)] = 1
      BY <1>4, <3>2 DEF At
    <3> QED
      BY <3>1, <3>2, <3>3, <3>4, <3>5 DEF At, Order, Customer
  <2> QED
    BY <2>1, <2>2
<1> QED
  BY <1>6, <1>7, <1>8, <1>9

LEMMA DepositStep ==
  ASSUME IInv, NEW w \in Workers, Deposit(w)
  PROVE  IInv'
<1> USE DEF IInv, Deposit, wechat, client, Inside
<1>o. /\ Order(w) \in Orders /\ Customer(w) \in Customers /\ run[w] \in Run
      /\ run[w].pc = "deposit"
  BY DEF WorkOK, At, TypeOK
<1>1. CASE Customer(w) \in TwoFunds
  <2> DEFINE r == [run[w] EXCEPT !.pc = "release", !.raised = TRUE]
  <2>1. r \in Run /\ r.pc = "release" /\ r.order = Order(w) /\ r.raised
    BY <1>o, LabelFacts DEF Labels, Order
  <2>2. run' = [run EXCEPT ![w] = r] /\ UNCHANGED fundLock
    BY <1>1 DEF Raise, TypeOK
  <2> HIDE DEF r
  <2>3. /\ run' \in [Workers -> Run] /\ run'[w] = r
        /\ \A v \in Workers : v # w => run'[v] = run[v]
    BY <2>1, <2>2, GotoFacts
  <2>4. \A v \in Workers, u \in Customers :
          fundLock'[u] = v <=> run'[v].pc \in {"insert", "commit"} /\ Customer(v)' = u
    BY <1>o, <2>1, <2>2, <2>3 DEF TypeOK, Customer
  <2>5. TypeOK'
    BY <2>2, <2>3, <2>4 DEF TypeOK
  <2>6. CreditedOnce' /\ AckedIsCredited'
    BY DEF CreditedOnce, AckedIsCredited
  <2>7. WorkOK'
    BY <1>o, <2>1, <2>3 DEF WorkOK, At, Order, Customer
  <2> QED
    BY <2>5, <2>6, <2>7
<1>2. CASE Customer(w) \notin TwoFunds
  <2> DEFINE r == [run[w] EXCEPT !.pc = "insert"]
  <2>1. r \in Run /\ r.pc = "insert" /\ r.order = Order(w) /\ r.customer = Customer(w)
    BY <1>o, LabelFacts DEF Labels, Order, Customer
  <2>2. /\ run' = [run EXCEPT ![w] = r]
        /\ fundLock[Customer(w)] = None
        /\ fundLock' = [fundLock EXCEPT ![Customer(w)] = w]
    BY <1>2 DEF Goto, TypeOK
  <2> HIDE DEF r
  <2>3. /\ run' \in [Workers -> Run] /\ run'[w] = r
        /\ \A v \in Workers : v # w => run'[v] = run[v]
    BY <2>1, <2>2, GotoFacts
  <2>4. \A v \in Workers, u \in Customers :
          fundLock'[u] = v <=> run'[v].pc \in {"insert", "commit"} /\ Customer(v)' = u
    <3> SUFFICES ASSUME NEW v \in Workers, NEW u \in Customers
                 PROVE  fundLock'[u] = v
                          <=> run'[v].pc \in {"insert", "commit"} /\ Customer(v)' = u
      OBVIOUS
    <3>1. fundLock[u] = v <=> run[v].pc \in {"insert", "commit"} /\ Customer(v) = u
      BY DEF TypeOK
    <3>2. fundLock'[u] = IF u = Customer(w) THEN w ELSE fundLock[u]
      BY <1>o, <2>2 DEF TypeOK
    <3>3. None # v
      BY ConstantsAssumption
    <3> QED
      BY <1>o, <2>1, <2>2, <2>3, <3>1, <3>2, <3>3 DEF Customer
  <2>5. TypeOK'
    BY <1>o, <2>2, <2>3, <2>4 DEF TypeOK
  <2>6. CreditedOnce' /\ AckedIsCredited'
    BY DEF CreditedOnce, AckedIsCredited
  <2>7. WorkOK'
    BY <1>o, <2>1, <2>3 DEF WorkOK, At, Order, Customer
  <2> QED
    BY <2>5, <2>6, <2>7
<1> QED
  BY <1>1, <1>2

LEMMA InsertStep ==
  ASSUME IInv, NEW w \in Workers, Insert(w)
  PROVE  IInv'
<1> USE DEF IInv, Insert, wechat, client, Inside
<1>o. /\ Order(w) \in Orders /\ Customer(w) \in Customers /\ run[w] \in Run
      /\ run[w].pc = "insert" /\ credits[Order(w)] \in Nat
  BY DEF WorkOK, At, TypeOK
<1>1. CASE credits[Order(w)] > 0
  <2> DEFINE r == [run[w] EXCEPT !.pc = "release", !.raised = TRUE]
  <2>1. r \in Run /\ r.pc = "release" /\ r.order = Order(w) /\ r.raised
    BY <1>o, LabelFacts DEF Labels, Order
  <2>0. credits[Order(w)] # 0
    BY <1>o, <1>1
  <2>4. Unlock(w) /\ Raise(w)
    BY <2>0
  <2>2. run' = [run EXCEPT ![w] = r] /\ Unlock(w)
    BY <2>4 DEF Raise, TypeOK
  <2> HIDE DEF r
  <2>3. UNCHANGED credits /\ faults' \in 0..MaxFaults
    BY DEF TypeOK
  <2> QED
    BY <1>o, <2>1, <2>2, <2>3, EndIInv
<1>2. CASE ~(credits[Order(w)] > 0)
  <2> DEFINE r == [run[w] EXCEPT !.pc = "commit"]
  <2>1. r \in Run /\ r.pc = "commit" /\ r.order = Order(w) /\ r.customer = Customer(w)
    BY <1>o, LabelFacts DEF Labels, Order, Customer
  <2>2. run' = [run EXCEPT ![w] = r] /\ UNCHANGED fundLock /\ credits[Order(w)] = 0
    BY <1>o, <1>2 DEF Goto, TypeOK
  <2> HIDE DEF r
  <2>3. /\ run' \in [Workers -> Run] /\ run'[w] = r
        /\ \A v \in Workers : v # w => run'[v] = run[v]
    BY <2>1, <2>2, GotoFacts
  <2>4. \A v \in Workers, u \in Customers :
          fundLock'[u] = v <=> run'[v].pc \in {"insert", "commit"} /\ Customer(v)' = u
    BY <1>o, <2>1, <2>2, <2>3 DEF TypeOK, Customer
  <2>5. TypeOK'
    BY <2>2, <2>3, <2>4 DEF TypeOK
  <2>6. CreditedOnce' /\ AckedIsCredited'
    BY DEF CreditedOnce, AckedIsCredited
  <2>7. WorkOK'
    BY <1>o, <2>1, <2>2, <2>3 DEF WorkOK, At, Order, Customer
  <2> QED
    BY <2>5, <2>6, <2>7
<1> QED
  BY <1>1, <1>2

LEMMA CommitStep ==
  ASSUME IInv, NEW w \in Workers, Commit(w)
  PROVE  IInv'
<1> USE DEF IInv, Commit, Inside
<1> DEFINE r == [run[w] EXCEPT !.pc = "release"]
<1>1. run[w] \in Run /\ Inside(w)
  BY DEF At, TypeOK
<1>2. r \in Run /\ r.pc = "release" /\ r.order = Order(w)
  BY <1>1, LabelFacts DEF Labels, Order
<1>3. run' = [run EXCEPT ![w] = r] /\ Unlock(w) /\ faults' \in 0..MaxFaults
  BY DEF Goto, TypeOK
<1> HIDE DEF r
<1> QED
  BY <1>1, <1>2, <1>3, EndIInv

LEMMA FailStep ==
  ASSUME IInv, NEW w \in Workers, Fail(w)
  PROVE  IInv'
<1> USE DEF IInv, Fail, Inside
<1> DEFINE r == [run[w] EXCEPT !.pc = "release", !.raised = TRUE]
<1>1. run[w] \in Run /\ Inside(w)
  BY DEF At, TypeOK
<1>2. r \in Run /\ r.pc = "release" /\ r.order = Order(w) /\ r.raised
  BY <1>1, LabelFacts DEF Labels, Order
<1>3. run' = [run EXCEPT ![w] = r] /\ Unlock(w)
  BY DEF Raise, TypeOK
<1>4. faults' \in 0..MaxFaults
  BY ConstantsAssumption DEF TypeOK
<1> HIDE DEF r
<1> QED
  BY <1>1, <1>2, <1>3, <1>4, EndIInv

\* The receiver up to the transaction.
LEMMA CheckStep ==
  ASSUME IInv, NEW w \in Workers, CheckExists(w) \/ Lookup(w) \/ Acquire(w)
  PROVE  IInv'
<1> USE DEF IInv, wechat, client, locks
<1>o. Order(w) \in Orders /\ run[w] \in Run /\ ~At(w, "idle") /\ ~Inside(w)
  BY DEF CheckExists, Lookup, Acquire, WorkOK, At, Inside, TypeOK
<1>c. credits[Order(w)] \in {0, 1}
  BY <1>o DEF TypeOK, CreditedOnce
<1>t. /\ notices \in [Orders -> 0..MaxNotices]
      /\ result \in [Orders -> {"NOTPAY", "SUCCESS"}]
      /\ key \in [Orders -> BOOLEAN] /\ polls \in [Orders -> Nat]
      /\ queue \in [Orders -> [0..MaxRetries -> Nat]]
      /\ redisLock \in [Orders -> Workers \cup {None}]
      /\ faults \in 0..MaxFaults
  BY DEF TypeOK
<1>1. CASE CheckExists(w)
  <2>2. UNCHANGED <<wx, expired, notices, holder, result, credits, client, queue, fundLock,
                    faults, redisLock>>
    BY <1>1 DEF CheckExists
  <2>1. CASE credits[Order(w)] > 0
    <3>0. credits[Order(w)] = 1
      BY <1>c, <2>1
    <3>2. credits[Order(w)] # 0
      BY <3>0
    <3>1. Return(w, TRUE)
      BY <1>1, <3>2 DEF CheckExists
    <3> QED
      BY <1>o, <1>t, <2>2, <3>0, <3>1, ReturnIInv
  <2>3. CASE ~(credits[Order(w)] > 0)
    <3> DEFINE r == [run[w] EXCEPT !.pc = "lookup"]
    <3>1. r \in Run /\ r.pc = "lookup" /\ r.order = Order(w)
      BY <1>o, LabelFacts DEF Labels, Order
    <3>2. run' = [run EXCEPT ![w] = r] /\ UNCHANGED acked
      BY <1>1, <2>3 DEF CheckExists, Goto, TypeOK
    <3> HIDE DEF r
    <3> QED
      BY <1>o, <1>t, <2>2, <3>1, <3>2, ControlIInv
  <2> QED
    BY <2>1, <2>3
<1>2. CASE Lookup(w)
  <2>2. UNCHANGED <<wx, expired, notices, holder, result, credits, client, queue, fundLock,
                    faults, redisLock>>
    BY <1>2 DEF Lookup
  <2> DEFINE u == holder[Order(w)]
  <2>1. CASE u = None
    <3>1. Return(w, FALSE)
      BY <1>2, <2>1 DEF Lookup
    <3> QED
      BY <1>o, <1>t, <2>2, <3>1, ReturnIInv
  <2>3. CASE u # None
    <3> DEFINE r == [run[w] EXCEPT !.pc = "acquire", !.customer = u]
    <3>0. u \in Customers
      BY <1>o, <2>3 DEF TypeOK
    <3>1. r \in Run /\ r.pc = "acquire" /\ r.order = Order(w) /\ r.customer \in Customers
      BY <1>o, <3>0 DEF Run, Labels, Order
    <3>3. run' = [run EXCEPT ![w].pc = "acquire", ![w].customer = u] /\ UNCHANGED acked
      BY <1>2, <2>3 DEF Lookup
    <3>2. run' = [run EXCEPT ![w] = r] /\ UNCHANGED acked
      BY <3>3 DEF TypeOK
    <3> HIDE DEF r
    <3> QED
      BY <1>o, <1>t, <2>2, <3>1, <3>2, ControlIInv
  <2> QED
    BY <2>1, <2>3
<1>3. CASE Acquire(w)
  <2> DEFINE r == [run[w] EXCEPT !.pc = "deposit"]
  <2>1. r \in Run /\ r.pc = "deposit" /\ r.order = Order(w) /\ r.customer = Customer(w)
    BY <1>o, LabelFacts DEF Labels, Order, Customer
  <2>2. run' = [run EXCEPT ![w] = r] /\ redisLock' \in [Orders -> Workers \cup {None}]
    BY <1>3 DEF Acquire, Goto, TypeOK
  <2>3. Customer(w) \in Customers
    BY <1>3 DEF Acquire, At, WorkOK
  <2>4. UNCHANGED <<wx, expired, notices, acked, holder, result, credits, key, polls, queue,
                    fundLock, faults>>
    BY <1>3 DEF Acquire
  <2> HIDE DEF r
  <2> QED
    BY <1>o, <1>t, <2>1, <2>2, <2>3, <2>4, ControlIInv
<1> QED
  BY <1>1, <1>2, <1>3

LEMMA ReleaseStep ==
  ASSUME IInv, NEW w \in Workers, Release(w)
  PROVE  IInv'
<1> USE DEF IInv, Release
<1>1. redisLock' \in [Orders -> Workers \cup {None}]
  BY DEF TypeOK
<1> DEFINE ok == redisLock[Order(w)] = w /\ ~run[w].raised
<1>2. ok \in BOOLEAN /\ (ok => credits[Order(w)] = 1)
  BY DEF WorkOK
<1>3. Return(w, ok) /\ ~Inside(w) /\ ~At(w, "idle")
  BY DEF At, Inside
<1>4. UNCHANGED <<wx, expired, notices, holder, result, credits, client, queue, fundLock,
                  faults>>
  OBVIOUS
<1> HIDE DEF ok
<1> QED
  BY <1>1, <1>2, <1>3, <1>4, ReturnIInv

LEMMA CrashStep ==
  ASSUME IInv, NEW w \in Workers, Crash(w)
  PROVE  IInv'
<1> USE DEF IInv, Crash, Finish, wechat, client
<1>1. /\ run' = [run EXCEPT ![w] = Idle] /\ run' \in [Workers -> Run]
      /\ run'[w].pc = "idle" /\ \A v \in Workers : v # w => run'[v] = run[v]
  BY RunFacts DEF TypeOK
<1>2. /\ faults' \in 0..MaxFaults
      /\ fundLock' \in [Customers -> Workers \cup {None}]
  BY ConstantsAssumption DEF TypeOK
<1>3. \A v \in Workers, u \in Customers :
        fundLock'[u] = v <=> run'[v].pc \in {"insert", "commit"} /\ Customer(v)' = u
  <2> SUFFICES ASSUME NEW v \in Workers, NEW u \in Customers
               PROVE  fundLock'[u] = v <=> run'[v].pc \in {"insert", "commit"} /\ Customer(v)' = u
    OBVIOUS
  <2>1. fundLock[u] = v <=> run[v].pc \in {"insert", "commit"} /\ Customer(v) = u
    BY DEF TypeOK
  <2>4. fundLock'[u] = IF fundLock[u] = w THEN None ELSE fundLock[u]
    BY DEF TypeOK
  <2>5. None # v
    BY ConstantsAssumption
  <2> QED
    BY <1>1, <2>1, <2>4, <2>5 DEF Customer
<1>4. TypeOK'
  BY <1>1, <1>2, <1>3 DEF TypeOK
<1>5. CreditedOnce' /\ AckedIsCredited'
  BY DEF CreditedOnce, AckedIsCredited
<1>6. WorkOK'
  BY <1>1 DEF WorkOK, At, Order, Customer
<1> QED
  BY <1>4, <1>5, <1>6

\* IInv is inductive: the types, CreditedOnce, AckedIsCredited and WorkOK together.
THEOREM Invariance == Spec => []IInv
<1>1. IInv /\ [Next]_vars => IInv'
  <2> SUFFICES ASSUME IInv, [Next]_vars PROVE IInv'
    OBVIOUS
  <2>1. CASE UNCHANGED vars
    BY <2>1 DEF vars, IInv, TypeOK, CreditedOnce, AckedIsCredited, WorkOK, At, Order, Customer
  <2>2. ASSUME NEW o \in Orders, NEW w \in Workers,
               Poll(w, o) \/ Notify(w, o) \/ \E n \in 0..MaxRetries : Sync(w, o, n)
        PROVE  IInv'
    BY <2>2, BeginStep
  <2>3. ASSUME NEW o \in Orders,
               \/ Pay(o) \/ Expire(o) \/ LockExpires(o) \/ KeyExpires(o) \/ LoseNotice(o)
               \/ \E u \in Customers \cup {None} : Rebind(o, u)
               \/ \E n \in 0..MaxRetries : TaskExpires(o, n)
        PROVE  IInv'
    BY <2>3, OutsideStep
  <2>4. ASSUME NEW w \in Workers, Work(w) \/ Fail(w) \/ Crash(w)
        PROVE  IInv'
    BY <2>4, SyncStep, CheckStep, DepositStep, InsertStep, CommitStep, FailStep, ReleaseStep,
       CrashStep DEF Work
  <2> QED
    BY <2>1, <2>2, <2>3, <2>4 DEF Next
<1> QED
  BY <1>1, InitIInv, PTL DEF Spec

\* Whatever notifications, polls, tasks, expiring locks and crashes do to each other, no
\* order is credited twice.
THEOREM NeverCreditedTwice == Spec => []CreditedOnce
<1>1. IInv => CreditedOnce
  BY DEF IInv
<1> QED
  BY <1>1, Invariance, PTL

\* WeChat is never told to stop notifying of an order that is not credited.
THEOREM NeverAckedUncredited == Spec => []AckedIsCredited
<1>1. IInv => AckedIsCredited
  BY DEF IInv
<1> QED
  BY <1>1, Invariance, PTL

\* Whatever the number of orders, workers and retries, every variable has its type.
THEOREM TypeCorrect == Spec => []TypeOK
<1>1. IInv => TypeOK
  BY DEF IInv
<1> QED
  BY <1>1, Invariance, PTL
=============================================================================
