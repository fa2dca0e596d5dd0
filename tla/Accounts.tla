------------------------------- MODULE Accounts -------------------------------
(***************************************************************************)
(* The accounts of customers: user_center/models.py, the mutations of      *)
(* user_center/schema, and the transfer mutation (wallet/schema.py) up to  *)
(* the transfer itself, which is in module Wallet.                         *)
(*                                                                         *)
(* A call is one request that runs in autocommit, a statement at a time.   *)
(* It loads the user's row once (me) and decides by that copy; save with   *)
(* update_fields writes one column of the row.  The phone has been         *)
(* verified (module PhoneVerification); avatars and other columns without  *)
(* a constraint are left out.                                              *)
(***************************************************************************)
EXTENDS Integers, FiniteSets

CONSTANTS
  Phones,      \* phone numbers, that is, usernames
  Openids, Names, Passwords, RequestIds,
  None,
  Calls,
  Scenarios,   \* the requests that come together, by call
  Registered,  \* phones with an account at the start
  MaxFaults    \* bound: crashes

Kinds == {"signUp", "signIn", "bindThirdAccount", "updateUserInfo", "setPaymentPassword",
          "transfer", "fund", "ledgerList", "createPayOrder", "editQuota"}

Request == [kind : Kinds, phone : Phones, openid : Openids \cup {None},
            name : Names \cup {None}, password : Passwords \cup {None},
            to : Phones \cup {None}, requestId : RequestIds \cup {None}, amount : Int]

ASSUME ConstantsAssumption ==
  /\ None \notin Phones \cup Openids \cup Names \cup Passwords \cup RequestIds \cup Calls
  /\ IsFiniteSet(Calls)
  /\ Scenarios \subseteq [Calls -> Request]
  /\ \A s \in Scenarios, c \in Calls :
       /\ s[c].kind \in {"setPaymentPassword", "transfer"} => s[c].password # None
       /\ s[c].kind = "transfer" => s[c].to # None
       /\ s[c].kind = "createPayOrder" => s[c].openid # None
  /\ Registered \subseteq Phones /\ MaxFaults \in Nat

VARIABLES
  users,      \* usernames of committed User rows
  shopUsers,  \* phones of committed ShopUser rows
  inserting,  \* the call that has inserted the username and not committed
  row,        \* ShopUser rows
  funds,      \* how many Fund rows the user has
  keys,       \* AvoidResubmit keys in Redis
  req,        \* the call's request
  pc,         \* what it does next
  me,         \* the ShopUser instance it works with
  made,       \* whose Fund rows its transaction has inserted
  chosen,     \* history: passwords the user has been told are set
  wrong,      \* history: wrong passwords given, as far as they were counted
  held,       \* history: users and the openids they have bound
  raced,      \* history: users whose first fund two transactions set out to make
  faults      \* so far

users_ == <<users, shopUsers, inserting>>
history == <<chosen, wrong, held, raced>>
accountVars == <<users_, row, funds, keys, req, pc, me, made, history, faults>>

Row == [openid : Openids \cup {None}, name : Names \cup {None},
        password : Passwords \cup {None}, retries : Nat]
NewRow == [openid |-> None, name |-> None, password |-> None, retries |-> 0]

Init ==
  /\ users = Registered /\ shopUsers = Registered
  /\ inserting = [p \in Phones |-> None]
  /\ row = [p \in Phones |-> NewRow]
  /\ funds = [p \in Phones |-> 0] /\ keys = {}
  /\ req \in Scenarios
  /\ pc = [c \in Calls |-> "start"]
  /\ me = [c \in Calls |-> NewRow] /\ made = [c \in Calls |-> {}]
  /\ chosen = [p \in Phones |-> {}] /\ wrong = [p \in Phones |-> 0]
  /\ held = {} /\ raced = {}
  /\ faults = 0

Kind(c) == req[c].kind
Phone(c) == req[c].phone
At(c, label) == pc[c] = label
Goto(c, label) == pc' = [pc EXCEPT ![c] = label]
Fail(c) == Goto(c, "failed")
Finished == {"done", "failed"}

\* Mutant of Taken: the columns are not unique.
NeverTaken(p, field, v) == FALSE

\* Another user has the value in a unique column.
Taken(p, field, v) == \E q \in shopUsers \ {p} : row[q][field] = v
-----------------------------------------------------------------------------
(* Sign-up and the user's columns.                                         *)

GetUser(c) ==
  /\ At(c, "start") /\ Kind(c) = "signUp"
  /\ IF Phone(c) \in shopUsers
     THEN Goto(c, "bind") /\ me' = [me EXCEPT ![c] = row[Phone(c)]]
     ELSE Goto(c, "insert_user") /\ UNCHANGED me
  /\ UNCHANGED <<users_, row, funds, keys, req, made, history, faults>>

\* Mutant of InsertUser: create_user is not atomic.
InsertUserAutocommit(c) ==
  /\ At(c, "insert_user") /\ inserting[Phone(c)] = None
  /\ \/ Phone(c) \in users /\ Fail(c) /\ UNCHANGED <<users, inserting>>
     \/ /\ Phone(c) \notin users
        /\ users' = users \cup {Phone(c)}
        /\ inserting' = [inserting EXCEPT ![Phone(c)] = c]
        /\ Goto(c, "insert_shop_user")
  /\ UNCHANGED <<shopUsers, row, funds, keys, req, me, made, history, faults>>

\* create_user: the insert waits for one of the same username, and fails if that commits.
InsertUser(c) ==
  /\ At(c, "insert_user") /\ inserting[Phone(c)] = None
  /\ \/ Phone(c) \in users /\ Fail(c) /\ UNCHANGED inserting
     \/ /\ Phone(c) \notin users
        /\ inserting' = [inserting EXCEPT ![Phone(c)] = c]
        /\ Goto(c, "insert_shop_user")
  /\ UNCHANGED <<users, shopUsers, row, funds, keys, req, me, made, history, faults>>

\* The ShopUser row, and the commit.
CreateUser(c) ==
  /\ At(c, "insert_shop_user")
  /\ users' = users \cup {Phone(c)} /\ shopUsers' = shopUsers \cup {Phone(c)}
  /\ inserting' = [inserting EXCEPT ![Phone(c)] = None]
  /\ me' = [me EXCEPT ![c] = NewRow]
  /\ Goto(c, "bind")
  /\ UNCHANGED <<row, funds, keys, req, made, history, faults>>

FirstStep == [bindThirdAccount |-> "bind", updateUserInfo |-> "save_info",
              setPaymentPassword |-> "save_password", transfer |-> "get_key",
              createPayOrder |-> "get_key", fund |-> "read_fund", ledgerList |-> "from_fund"]

\* login_required, and info.context.user.shop_user.
Load(c) ==
  /\ At(c, "start") /\ Kind(c) \in DOMAIN FirstStep
  /\ Phone(c) \in shopUsers
  /\ me' = [me EXCEPT ![c] = row[Phone(c)]]
  /\ Goto(c, FirstStep[Kind(c)])
  /\ UNCHANGED <<users_, row, funds, keys, req, made, history, faults>>

\* By the openid of an authorisation code; signIn by phone is PhoneVerification's MayEnter.
SignIn(c) ==
  /\ At(c, "start") /\ Kind(c) = "signIn"
  /\ Goto(c, IF \E p \in shopUsers : row[p].openid = req[c].openid THEN "done" ELSE "failed")
  /\ UNCHANGED <<users_, row, funds, keys, req, me, made, history, faults>>

\* bind_third_account: AlreadyBinded by the loaded row, or another user has the openid.
Bind(c) ==
  LET o == req[c].openid
      refused == me[c].openid \notin {None, o} \/ Taken(Phone(c), "openid", o)
      next == IF Kind(c) = "signUp" THEN "save_info" ELSE "done"
  IN /\ At(c, "bind")
     /\ \/ o = None /\ Goto(c, next) /\ UNCHANGED <<row, held>>
        \/ o # None /\ refused /\ Fail(c) /\ UNCHANGED <<row, held>>
        \/ /\ o # None /\ ~refused
           /\ row' = [row EXCEPT ![Phone(c)].openid = o]
           /\ held' = held \cup {<<Phone(c), o>>}
           /\ Goto(c, next)
     /\ UNCHANGED <<users_, funds, keys, req, me, made, chosen, wrong, raced, faults>>

\* get_openid raises: the provider is not supported, or its answer is an error.
ProviderFails(c) ==
  /\ \/ At(c, "bind") /\ req[c].openid # None
     \/ At(c, "order")
     \/ At(c, "start") /\ Kind(c) = "signIn"
  /\ Fail(c)
  /\ UNCHANGED <<users_, row, funds, keys, req, me, made, history, faults>>

\* user_info, or updateUserInfo: a value that another user has is an IntegrityError.
SaveInfo(c) ==
  LET n == req[c].name
  IN /\ At(c, "save_info")
     /\ \/ n = None /\ Goto(c, "done") /\ UNCHANGED row
        \/ n # None /\ Taken(Phone(c), "name", n) /\ Fail(c) /\ UNCHANGED row
        \/ /\ n # None /\ ~Taken(Phone(c), "name", n)
           /\ row' = [row EXCEPT ![Phone(c)].name = n]
           /\ Goto(c, "done")
     /\ UNCHANGED <<users_, funds, keys, req, me, made, history, faults>>
-----------------------------------------------------------------------------
(* The payment password.                                                   *)

SetPassword(c) ==
  LET p == Phone(c)
  IN /\ At(c, "save_password")
     /\ \/ me[c].password # None /\ Fail(c) /\ UNCHANGED <<row, chosen>>
        \/ /\ me[c].password = None
           /\ row' = [row EXCEPT ![p].password = req[c].password]
           /\ chosen' = [chosen EXCEPT ![p] = @ \cup {req[c].password}]
           /\ Goto(c, "done")
     /\ UNCHANGED <<users_, funds, keys, req, me, made, wrong, held, raced, faults>>

\* Mutant of CheckPassword: the answer of check_payemnt_password is not used.
CheckPasswordIgnored(c) ==
  /\ At(c, "check_password")
  /\ \/ me[c].password = None /\ Fail(c)
     \/ me[c].password # None /\ Goto(c, "find_payee")
  /\ UNCHANGED <<users_, row, funds, keys, req, me, made, history, faults>>

CheckPassword(c) ==
  /\ At(c, "check_password")
  /\ \/ me[c].password = None /\ Fail(c)
     \/ me[c].password = req[c].password /\ Goto(c, "find_payee")
     \/ me[c].password \notin {None, req[c].password} /\ Goto(c, "save_retries")
  /\ UNCHANGED <<users_, row, funds, keys, req, me, made, history, faults>>

\* Mutant of SaveRetries: the count begins anew.
SaveRetriesReset(c) ==
  /\ At(c, "save_retries")
  /\ row' = [row EXCEPT ![Phone(c)].retries = me[c].retries]
  /\ wrong' = [wrong EXCEPT ![Phone(c)] = @ + 1]
  /\ Fail(c)
  /\ UNCHANGED <<users_, funds, keys, req, me, made, chosen, held, raced, faults>>

\* The count read with the row, plus one; then WrongPassword.
SaveRetries(c) ==
  /\ At(c, "save_retries")
  /\ row' = [row EXCEPT ![Phone(c)].retries = me[c].retries + 1]
  /\ wrong' = [wrong EXCEPT ![Phone(c)] = @ + 1]
  /\ Fail(c)
  /\ UNCHANGED <<users_, funds, keys, req, me, made, chosen, held, raced, faults>>
-----------------------------------------------------------------------------
(* AvoidResubmit, the payee, and the funds.                                *)

Key(c) == <<Kind(c), Phone(c), req[c].requestId>>

GetKey(c) ==
  /\ At(c, "get_key")
  /\ Goto(c, IF Key(c) \in keys THEN "failed" ELSE "set_key")
  /\ UNCHANGED <<users_, row, funds, keys, req, me, made, history, faults>>

SetKey(c) ==
  /\ At(c, "set_key")
  /\ keys' = keys \cup {Key(c)}
  /\ Goto(c, IF Kind(c) = "transfer" THEN "check_password" ELSE "find_payee")
  /\ UNCHANGED <<users_, row, funds, req, me, made, history, faults>>

KeyExpires(k) ==
  /\ k \in keys
  /\ keys' = keys \ {k}
  /\ UNCHANGED <<users_, row, funds, req, pc, me, made, history, faults>>

FindPayee(c) ==
  /\ At(c, "find_payee")
  /\ Goto(c, IF req[c].to \notin shopUsers \cup {None} THEN "failed"
             ELSE IF Kind(c) = "transfer" THEN "from_fund" ELSE "order")
  /\ UNCHANGED <<users_, row, funds, keys, req, me, made, history, faults>>

\* get_user_fund in a transaction that has made some rows: one row is returned, none is
\* made, and several raise MultipleObjectsReturned.
Seen(c, p) == funds[p] + Cardinality({p} \cap made[c])

\* Mutant of GetFund: get_or_create creates when there is one.
GetFundOrAnother(c, p) ==
  /\ Seen(c, p) <= 1
  /\ made' = [made EXCEPT ![c] = @ \cup {p}]
  /\ raced' = IF \E d \in Calls \ {c} : p \in made[d] THEN raced \cup {p} ELSE raced

GetFund(c, p) ==
  \/ Seen(c, p) = 1 /\ UNCHANGED <<made, raced>>
  \/ /\ Seen(c, p) = 0
     /\ made' = [made EXCEPT ![c] = @ \cup {p}]
     /\ raced' = IF \E d \in Calls \ {c} : p \in made[d] THEN raced \cup {p} ELSE raced

TwoFunds(c, p) == Seen(c, p) > 1 /\ made' = [made EXCEPT ![c] = {}] /\ UNCHANGED raced

FromFund(c) ==
  /\ At(c, "from_fund")
  /\ \/ GetFund(c, Phone(c)) /\ Goto(c, IF Kind(c) = "transfer" THEN "to_fund" ELSE "commit")
     \/ TwoFunds(c, Phone(c)) /\ Fail(c)
  /\ UNCHANGED <<users_, row, funds, keys, req, me, chosen, wrong, held, faults>>

ToFund(c) ==
  /\ At(c, "to_fund")
  /\ \/ GetFund(c, req[c].to) /\ Goto(c, "commit")
     \/ TwoFunds(c, req[c].to) /\ Fail(c)
  /\ UNCHANGED <<users_, row, funds, keys, req, me, chosen, wrong, held, faults>>

CommitFunds(c) ==
  /\ funds' = [p \in Phones |-> Seen(c, p)]
  /\ made' = [made EXCEPT ![c] = {}]

\* The rest of the transfer, or the answer to ledgerList: the Fund rows are there for all.
Commit(c) ==
  /\ At(c, "commit")
  /\ CommitFunds(c)
  /\ Goto(c, "done")
  /\ UNCHANGED <<users_, row, keys, req, me, history, faults>>

\* NotEnoughBalance, or a failure of the transaction.
Rollback(c) ==
  /\ At(c, "commit") /\ Kind(c) = "transfer"
  /\ made' = [made EXCEPT ![c] = {}]
  /\ Fail(c)
  /\ UNCHANGED <<users_, row, funds, keys, req, me, history, faults>>

\* resolve_fund gets and does not create.
ReadFund(c) ==
  /\ At(c, "read_fund")
  /\ Goto(c, IF funds[Phone(c)] > 1 THEN "failed" ELSE "done")
  /\ UNCHANGED <<users_, row, funds, keys, req, me, made, history, faults>>

\* Mutant of Crash: the username of a lost connection stays locked.
CrashKeepsName(c) ==
  /\ pc[c] \notin Finished \cup {"start"} /\ faults < MaxFaults
  /\ faults' = faults + 1
  /\ made' = [made EXCEPT ![c] = {}]
  /\ Fail(c)
  /\ UNCHANGED <<users_, row, funds, keys, req, me, history>>

\* The process dies: its transaction is rolled back, what it has committed stays.
Crash(c) ==
  /\ pc[c] \notin Finished \cup {"start"} /\ faults < MaxFaults
  /\ faults' = faults + 1
  /\ inserting' = [p \in Phones |-> IF inserting[p] = c THEN None ELSE inserting[p]]
  /\ made' = [made EXCEPT ![c] = {}]
  /\ Fail(c)
  /\ UNCHANGED <<users, shopUsers, row, funds, keys, req, me, history>>

Step(c) ==
  \/ InsertUser(c) \/ CreateUser(c) \/ Bind(c) \/ SaveInfo(c)
  \/ SetPassword(c) \/ CheckPassword(c) \/ SaveRetries(c)
  \/ GetKey(c) \/ SetKey(c) \/ FindPayee(c) \/ FromFund(c) \/ ToFund(c) \/ Commit(c)
  \/ ReadFund(c)

AccountNext ==
  \/ \E k \in keys : KeyExpires(k)
  \/ \E c \in Calls : \/ GetUser(c) \/ Load(c) \/ SignIn(c) \/ Step(c)
                      \/ ProviderFails(c) \/ Rollback(c) \/ Crash(c)
-----------------------------------------------------------------------------
(* Properties.                                                             *)

Labels == {"start", "insert_user", "insert_shop_user", "bind", "save_info", "save_password",
           "get_key", "set_key", "check_password", "save_retries", "find_payee", "from_fund",
           "to_fund", "commit", "read_fund", "order", "prepay"} \cup Finished

\* Every variable has its type, and an uncommitted username is that of the call that
\* inserts it.
TypeOK ==
  /\ users \subseteq Phones /\ shopUsers \subseteq Phones
  /\ inserting \in [Phones -> Calls \cup {None}]
  /\ row \in [Phones -> Row] /\ funds \in [Phones -> Nat]
  /\ keys \subseteq Kinds \X Phones \X (RequestIds \cup {None})
  /\ req \in [Calls -> Request] /\ pc \in [Calls -> Labels]
  /\ me \in [Calls -> Row] /\ made \in [Calls -> SUBSET Phones]
  /\ chosen \in [Phones -> SUBSET Passwords] /\ wrong \in [Phones -> Nat]
  /\ held \subseteq Phones \X Openids /\ raced \subseteq Phones
  /\ faults \in 0..MaxFaults
  /\ \A p \in Phones, c \in Calls :
       inserting[p] = c <=> At(c, "insert_shop_user") /\ Phone(c) = p

\* Whatever sign-ups race, fail or crash, a phone has a username and an account or has
\* neither, so that it can sign up or in (create_user).
RegistrationWhole == users = shopUsers

\* An openid or a nickname is that of one user (bind_third_account, updateUserInfo).
ColumnsUnique ==
  \A p, q \in shopUsers : p # q =>
    /\ row[p].openid # None => row[p].openid # row[q].openid
    /\ row[p].name # None => row[p].name # row[q].name

\* A transfer that gets to the funds gave a password the payer has been told is set,
\* also when two calls set one at the same time (Transfer, SetPaymentPassword).
TransferAuthorised ==
  \A c \in Calls : Kind(c) = "transfer" /\ pc[c] \in {"from_fund", "to_fund", "commit", "done"}
    => req[c].password \in chosen[Phone(c)]

\* The retry count may lose wrong tries that overlap; it never loses all of them, and
\* never counts more than there were (check_payemnt_password).
RetriesCounted ==
  \A p \in Phones : row[p].retries <= wrong[p] /\ (wrong[p] > 0 => row[p].retries > 0)

\* A user has one Fund row and at most one on the way, unless two transactions found none
\* at the same time: get_or_create alone does not see to it (get_user_fund).
Making(p) == {c \in Calls : p \in made[c]}

OneFund == \A p \in Phones \ raced : funds[p] + Cardinality(Making(p)) <= 1
=============================================================================
