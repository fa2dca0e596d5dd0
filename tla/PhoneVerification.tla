--------------------------- MODULE PhoneVerification ---------------------------
(***************************************************************************)
(* The verification of phone numbers: user_center/auth.py and the          *)
(* mutations in user_center/schema/auth.py that use it, with the rate      *)
(* limits of common/ratelimit.py.                                          *)
(*                                                                         *)
(* All that the server knows of a client is in one row of django_session.  *)
(* A request is counted by the rate limits, loads the row when it first    *)
(* needs it, works on its copy, and saves the copy as a whole when its     *)
(* response leaves, if a key of the session was assigned.  Requests of one *)
(* client run beside each other.  A change inside a value of the session,  *)
(* like the count of retries, is no assignment.                            *)
(*                                                                         *)
(* A code is the number of the message that carried it: two codes are      *)
(* never equal.  The result of validate_session_code is not used; that it  *)
(* assigns a key of the session is what makes the session saved although   *)
(* the message could not be sent (SendFails).                              *)
(***************************************************************************)
EXTENDS Integers, Sequences, FiniteSets

CONSTANTS
  Phones,      \* phone numbers in E.164 format
  Spellings,   \* what clients send as phone
  PhoneOf,     \* the number phonenumbers reads in a spelling, or None
  None,        \* no phone
  Requests,    \* requests of the client that may run at the same time
  Ip,          \* the client's address
  IpRate,      \* requests of an address in a window, 10
  PhoneRate,   \* requests for a phone as spelled in a window, 5
  MaxRetry,    \* MAX_RETRY_VERIFY
  Expiration,  \* SMS_EXPIRATION, in windows of the rate limits
  MaxCodes,    \* bound: messages sent
  MaxTime      \* bound: the clock stops here

ASSUME ConstantsAssumption ==
  /\ Phones \subseteq Spellings /\ None \notin Spellings /\ Ip \notin Spellings
  /\ IsFiniteSet(Spellings) /\ IsFiniteSet(Requests)
  /\ PhoneOf \in [Spellings -> Phones \cup {None}]
  /\ \A p \in Phones : PhoneOf[p] = p
  /\ IpRate \in Nat /\ PhoneRate \in Nat /\ MaxRetry \in Nat /\ Expiration \in Nat
  /\ MaxCodes \in Nat /\ MaxTime \in Nat

VARIABLES
  now,       \* in windows
  hits,      \* the rate limits' counters of this window
  sms,       \* the messages: to whom and when
  session,   \* the row of django_session
  run,       \* where a request is, and the phone it is for
  copy,      \* the session as the request has loaded and changed it, or NoCopy
  tries,     \* how often a code was compared while it was good
  given      \* when a code was given back and accepted last, or -1

vars == <<now, hits, sms, session, run, copy, tries, given>>

Codes == 1..MaxCodes
Mutations == {"requestVerificationCode", "verifyCode"}
Labels == Mutations \cup {"idle", "generate", "compare", "save"}

\* verify_code, of which phone and expired_at are those of the message, and verified_phone.
Session == [code : 0..MaxCodes, retry : Nat, used : BOOLEAN,
            phone : Phones \cup {None}, until : Nat]
NoCopy == [code |-> -1]
Idle == [pc |-> "idle", phone |-> None]

Init ==
  /\ now = 0
  /\ hits = [m \in Mutations |-> [k \in Spellings \cup {Ip} |-> 0]]
  /\ sms = <<>>
  /\ session = [code |-> 0, retry |-> 0, used |-> FALSE, phone |-> None, until |-> 0]
  /\ run = [r \in Requests |-> Idle] /\ copy = [r \in Requests |-> NoCopy]
  /\ tries = [k \in Codes |-> 0] /\ given = [k \in Codes |-> -1]

At(r, label) == run[r].pc = label
Phone(r) == run[r].phone
Goto(r, label) == run' = [run EXCEPT ![r].pc = label]
End(r) ==
  /\ run' = [run EXCEPT ![r] = Idle]
  /\ copy' = [copy EXCEPT ![r] = NoCopy]
-----------------------------------------------------------------------------
\* Mutant of Count: the outer decorator alone counts.
CountAddress(m, s) == hits' = [hits EXCEPT ![m][Ip] = @ + 1]

\* The decorator counts the address, and then the phone as it is spelled.
Count(m, s) ==
  hits' = [hits EXCEPT ![m] = [k \in DOMAIN @ |-> IF k \in {Ip, s} THEN @[k] + 1 ELSE @[k]]]

Passes(m, s) == hits[m][Ip] < IpRate /\ hits[m][s] < PhoneRate

\* A phone over its limit costs the address a request; nothing else happens.
RateLimited(m, s) ==
  /\ hits[m][Ip] < IpRate /\ hits[m][s] >= PhoneRate
  /\ hits' = [hits EXCEPT ![m][Ip] = @ + 1]
  /\ UNCHANGED <<now, sms, session, run, copy, tries, given>>

\* A request that passes is counted; nothing comes of one whose phone is no number.
Begin(r, m, s) ==
  /\ At(r, "idle") /\ Passes(m, s)
  /\ Count(m, s)
  /\ run' = IF PhoneOf[s] = None THEN run
            ELSE [run EXCEPT ![r] = [pc |-> m, phone |-> PhoneOf[s]]]
  /\ UNCHANGED <<now, sms, session, copy, tries, given>>

\* The first use of request.session reads the row; later ones use what was read.
Load(r) ==
  /\ run[r].pc \in Mutations
  /\ copy' = [copy EXCEPT ![r] = session]
  /\ Goto(r, IF At(r, "verifyCode") THEN "compare" ELSE "generate")
  /\ UNCHANGED <<now, hits, sms, session, tries, given>>
-----------------------------------------------------------------------------
(* request_verify_code.                                                    *)

\* Mutant of Send: the message is lost, and nobody is told.
Unsent(p) == UNCHANGED sms

\* send_verify_code
Send(p) == sms' = Append(sms, [to |-> p, at |-> now])

SendCode(r) ==
  /\ At(r, "generate") /\ Len(sms) < MaxCodes
  /\ Send(Phone(r))
  /\ copy' = [copy EXCEPT ![r].code = Len(sms) + 1, ![r].retry = 0, ![r].used = FALSE]
  /\ Goto(r, "save")
  /\ UNCHANGED <<now, hits, session, tries, given>>

\* The message cannot be queued: the mutation answers system_error, and what was loaded is
\* saved, because verify_code_last_send was assigned before.
SendFails(r) ==
  /\ At(r, "generate")
  /\ Goto(r, "save")
  /\ UNCHANGED <<now, hits, sms, session, copy, tries, given>>
-----------------------------------------------------------------------------
(* verify_code.                                                            *)

\* Mutant of Asked: the phone is not compared with that of the code.
AskedForAny(r) == copy[r].code # 0

\* The session holds a code for the phone.
Asked(r) == copy[r].code # 0 /\ sms[copy[r].code].to = Phone(r)

\* The code in the session, as it was loaded, is good: a try is a comparison with it.
Good(r) == copy[r].retry <= MaxRetry /\ ~copy[r].used
           /\ now <= sms[copy[r].code].at + Expiration

\* A good code, given back: the session is changed by an assignment.
Verify(r, code) ==
  /\ Asked(r) /\ Good(r) /\ code = copy[r].code
  /\ copy' = [copy EXCEPT ![r].retry = @ + 1, ![r].used = TRUE, ![r].phone = Phone(r),
                          ![r].until = now + Expiration]
  /\ Goto(r, "save")
  /\ tries' = [tries EXCEPT ![code] = @ + 1]
  /\ given' = [given EXCEPT ![code] = now]

\* WrongVerifyCode: the count in the copy is not saved.
Refuse(r, code) ==
  /\ ~(Asked(r) /\ Good(r) /\ code = copy[r].code)
  /\ End(r)
  /\ tries' = IF Asked(r) /\ Good(r) THEN [tries EXCEPT ![copy[r].code] = @ + 1] ELSE tries
  /\ UNCHANGED given

Compare(r, code) ==
  /\ At(r, "compare")
  /\ Verify(r, code) \/ Refuse(r, code)
  /\ UNCHANGED <<now, hits, sms, session>>
-----------------------------------------------------------------------------
\* has_verified_phone, asked by SignUp and SignIn: the phone is compared as it is spelled.
MayEnter(s) == session.phone = s /\ now <= session.until

\* The response leaves, and the copy is saved over the row, whatever that holds by now.
Save(r) ==
  /\ At(r, "save")
  /\ session' = copy[r]
  /\ End(r)
  /\ UNCHANGED <<now, hits, sms, tries, given>>

\* The process dies before it saves.
Crash(r) ==
  /\ ~At(r, "idle")
  /\ End(r)
  /\ UNCHANGED <<now, hits, sms, session, tries, given>>

\* A window ends: counters begin anew.
Tick ==
  /\ now < MaxTime
  /\ now' = now + 1
  /\ hits' = [m \in Mutations |-> [k \in Spellings \cup {Ip} |-> 0]]
  /\ UNCHANGED <<sms, session, run, copy, tries, given>>

Next ==
  \/ Tick
  \/ \E m \in Mutations, s \in Spellings :
       RateLimited(m, s) \/ \E r \in Requests : Begin(r, m, s)
  \/ \E r \in Requests :
       \/ Load(r) \/ SendCode(r) \/ SendFails(r) \/ Save(r) \/ Crash(r)
       \/ \E k \in 0..Len(sms) : Compare(r, k)

Spec == Init /\ [][Next]_vars
-----------------------------------------------------------------------------
(* Properties.                                                             *)

\* Every variable has its type; a session, saved or not, holds codes that were sent, and a
\* request past its load has one.
SessionOK(s) == s \in Session /\ s.code <= Len(sms)

TypeOK ==
  /\ now \in 0..MaxTime
  /\ hits \in [Mutations -> [Spellings \cup {Ip} -> Nat]]
  /\ sms \in Seq([to : Phones, at : 0..MaxTime]) /\ Len(sms) <= MaxCodes
  /\ SessionOK(session)
  /\ run \in [Requests -> [pc : Labels, phone : Phones \cup {None}]]
  /\ copy \in [Requests -> Session \cup {NoCopy}]
  /\ \A r \in Requests :
       /\ IF run[r].pc \in {"generate", "compare", "save"} THEN SessionOK(copy[r])
                                                         ELSE copy[r] = NoCopy
       /\ At(r, "idle") \/ Phone(r) \in Phones
  /\ tries \in [Codes -> Nat] /\ given \in [Codes -> Nat \cup {-1}]

\* Whoever may sign up or in with a phone has given back a code that was sent there: while
\* the code lived, and not longer ago than a verification lives, however requests of the
\* session overwrote each other (has_verified_phone, verify_code).
EntrantGaveCode ==
  \A s \in Spellings : MayEnter(s) =>
    \E k \in 1..Len(sms) :
      /\ sms[k].to = s
      /\ sms[k].at <= given[k] /\ given[k] <= sms[k].at + Expiration
      /\ now <= given[k] + Expiration

\* How often a code can be tried is bounded by the rate limit and the life of the code, and
\* by the requests that were counted before it was sent and compare after: requests that
\* overlap, a lost count of retries and restored sessions add no more.
Spelled(p) == {s \in Spellings : PhoneOf[s] = p}

TriesBounded ==
  \A k \in 1..Len(sms) :
    tries[k] <= PhoneRate * (Expiration + 1) * Cardinality(Spelled(sms[k].to))
                  + Cardinality(Requests) - 1

\* A code is compared MAX_RETRY_VERIFY + 1 times at most.  Violated: the count is kept in a
\* dict inside the session, which is saved only when a code is accepted.
RetriesBounded == \A k \in Codes : tries[k] <= MaxRetry + 1
=============================================================================
