------------------------------ MODULE PhoneProofs ------------------------------
(***************************************************************************)
(* The verification of phones, proved for any phones, spellings, requests, *)
(* rates and times: who may enter has given back a code that was sent to   *)
(* the phone.  It rests on what can be said of every session that is or    *)
(* may yet be saved.  The last section bounds the tries of a code.         *)
(***************************************************************************)
EXTENDS PhoneVerification, TotalsTheorems

Message == [to : Phones, at : 0..MaxTime]
Place == [pc : Labels, phone : Phones \cup {None}]
Holding == {"generate", "compare", "save"}

\* The phone that a session has verified was sent a code, which was given back in time, and
\* not long before the verification ends.
Traced(s, msgs, back) ==
  s.phone # None =>
    \E k \in 1..Len(msgs) :
      /\ msgs[k].to = s.phone
      /\ msgs[k].at <= back[k] /\ back[k] <= msgs[k].at + Expiration
      /\ s.until <= back[k] + Expiration

\* What holds of every session, in the row or loaded.
Sound(s, msgs, back) == s \in Session /\ s.code <= Len(msgs) /\ Traced(s, msgs, back)

\* A request at place x has the copy c.
Fits(x, c, msgs, back) ==
  /\ IF x.pc \in Holding THEN Sound(c, msgs, back) ELSE c = NoCopy
  /\ x.pc = "idle" \/ x.phone \in Phones

Ground ==
  /\ now \in 0..MaxTime
  /\ hits \in [Mutations -> [Spellings \cup {Ip} -> Nat]]
  /\ sms \in Seq(Message) /\ Len(sms) <= MaxCodes
  /\ tries \in [Codes -> Nat] /\ given \in [Codes -> Nat \cup {-1}]

\* Messages were sent, and codes given back, by now.
Past ==
  /\ \A k \in 1..Len(sms) : sms[k].at <= now
  /\ \A k \in Codes : given[k] <= now

Places == run \in [Requests -> Place] /\ copy \in [Requests -> Session \cup {NoCopy}]

IInv ==
  /\ Ground /\ Past /\ Places
  /\ Sound(session, sms, given)
  /\ \A r \in Requests : Fits(run[r], copy[r], sms, given)

LEMMA IInvType == IInv => TypeOK
<1> SUFFICES ASSUME IInv PROVE TypeOK
  OBVIOUS
<1>1. SessionOK(session)
  BY DEF IInv, Sound, SessionOK
<1>2. ASSUME NEW r \in Requests
      PROVE  /\ IF run[r].pc \in {"generate", "compare", "save"} THEN SessionOK(copy[r])
                                                               ELSE copy[r] = NoCopy
             /\ At(r, "idle") \/ Phone(r) \in Phones
  BY DEF IInv, Fits, Sound, SessionOK, Holding, At, Phone
<1> QED
  BY <1>1, <1>2 DEF IInv, Ground, Places, Place, Message, TypeOK

LEMMA ElementType ==
  ASSUME NEW S, NEW s \in Seq(S), NEW k \in 1..Len(s)
  PROVE  s[k] \in S
OBVIOUS

\* What the proofs say of a message.
LEMMA SentType ==
  ASSUME Ground, NEW k \in 1..Len(sms)
  PROVE  /\ sms[k] \in Message /\ sms[k].to \in Phones /\ sms[k].at \in Nat
         /\ k \in Codes /\ given[k] \in Int /\ now \in Nat /\ Expiration \in Nat
<1>1. sms[k] \in Message /\ Len(sms) \in Nat
  BY ElementType DEF Ground
<1>2. k \in Codes
  BY <1>1, ConstantsAssumption DEF Ground, Codes
<1> QED
  BY <1>1, <1>2, ConstantsAssumption DEF Ground, Message

LEMMA InitIInv == Init => IInv
<1> SUFFICES ASSUME Init PROVE IInv
  OBVIOUS
<1>1. /\ session \in Session /\ session.phone = None /\ session.code = 0
  BY ConstantsAssumption DEF Init, Session
<1>2. Len(sms) = 0 /\ sms \in Seq(Message)
  BY DEF Init
<1>3. Sound(session, sms, given)
  BY <1>1, <1>2 DEF Sound, Traced
<1>4. Ground
  BY <1>2, ConstantsAssumption DEF Init, Ground
<1>5. Past
  BY <1>2 DEF Init, Past
<1>6. Idle \in Place /\ Idle.pc = "idle" /\ "idle" \notin Holding
  BY DEF Idle, Place, Labels, Holding
<1>7. Places /\ \A r \in Requests : Fits(run[r], copy[r], sms, given)
  BY <1>6 DEF Init, Places, Fits
<1> QED
  BY <1>3, <1>4, <1>5, <1>7 DEF IInv

-----------------------------------------------------------------------------
(* Steps.                                                                  *)

\* Messages are only added, and a code is given back again while it lives.
Grown ==
  /\ Len(sms) <= Len(sms')
  /\ \A k \in 1..Len(sms) :
       /\ sms'[k] = sms[k]
       /\ given'[k] # given[k] => /\ given[k] <= given'[k] /\ sms[k].at <= given'[k]
                                  /\ given'[k] <= sms[k].at + Expiration

LEMMA SoundStays ==
  ASSUME Ground, Ground', Grown, NEW s, Sound(s, sms, given)
  PROVE  Sound(s, sms', given')
<1>1. Len(sms) \in Nat /\ Len(sms') \in Nat /\ Len(sms) <= Len(sms')
  BY DEF Ground, Grown
<1>2. s \in Session /\ s.code \in Int /\ s.until \in Int
  BY ConstantsAssumption DEF Sound, Session
<1>3. ASSUME NEW k \in 1..Len(sms), sms[k].to = s.phone,
             sms[k].at <= given[k], given[k] <= sms[k].at + Expiration,
             s.until <= given[k] + Expiration
      PROVE  Traced(s, sms', given')
  <2>1. k \in 1..Len(sms') /\ sms'[k] = sms[k]
    BY <1>1 DEF Grown
  <2>2. sms[k].at \in Nat /\ given[k] \in Int /\ Expiration \in Nat /\ k \in Codes
    BY SentType
  <2>3. given'[k] \in Int
    BY <2>2 DEF Ground
  <2>4. /\ sms[k].at <= given'[k] /\ given'[k] <= sms[k].at + Expiration
        /\ s.until <= given'[k] + Expiration
    <3>1. CASE given'[k] = given[k]
      BY <1>3, <3>1
    <3>2. CASE given'[k] # given[k]
      <4>1. /\ given[k] <= given'[k] /\ sms[k].at <= given'[k]
            /\ given'[k] <= sms[k].at + Expiration
        BY <3>2 DEF Grown
      <4> QED
        BY <1>2, <1>3, <2>2, <2>3, <4>1
    <3> QED
      BY <3>1, <3>2
  <2> QED
    BY <1>3, <2>1, <2>4 DEF Traced
<1>4. Traced(s, sms', given')
  <2>1. CASE s.phone = None
    BY <2>1 DEF Traced
  <2>2. CASE s.phone # None
    BY <2>2, <1>3 DEF Sound, Traced
  <2> QED
    BY <2>1, <2>2
<1>5. s.code <= Len(sms')
  BY <1>1, <1>2 DEF Sound
<1> QED
  BY <1>2, <1>4, <1>5 DEF Sound

\* A step that keeps requests where they are, or puts one to a place that fits.
LEMMA StepIInv ==
  ASSUME IInv, Ground', Past', Grown, Places', Sound(session', sms', given'),
         \A r \in Requests : \/ run'[r] = run[r] /\ copy'[r] = copy[r]
                             \/ Fits(run'[r], copy'[r], sms', given')
  PROVE  IInv'
<1>1. ASSUME NEW r \in Requests, run'[r] = run[r], copy'[r] = copy[r]
      PROVE  Fits(run'[r], copy'[r], sms', given')
  <2>1. Fits(run[r], copy[r], sms, given) /\ Ground
    BY DEF IInv
  <2>2. Sound(copy[r], sms, given) => Sound(copy[r], sms', given')
    BY <2>1, SoundStays
  <2> QED
    BY <1>1, <2>1, <2>2 DEF Fits
<1> QED
  BY <1>1 DEF IInv

\* The same, when the messages and the codes given back are left alone.
LEMMA StillIInv ==
  ASSUME IInv, UNCHANGED <<sms, given>>, now' \in 0..MaxTime, now <= now',
         hits' \in [Mutations -> [Spellings \cup {Ip} -> Nat]], tries' \in [Codes -> Nat],
         Places', Sound(session', sms, given),
         \A r \in Requests : \/ run'[r] = run[r] /\ copy'[r] = copy[r]
                             \/ Fits(run'[r], copy'[r], sms, given)
  PROVE  IInv'
<1>1. Ground' /\ Grown
  <2>1. Len(sms) \in Nat
    BY DEF IInv, Ground
  <2>2. Grown
    BY <2>1 DEF Grown
  <2> QED
    BY <2>2 DEF IInv, Ground
<1>2. ASSUME NEW k \in 1..Len(sms)
      PROVE  sms[k].at <= now'
  <2>1. sms[k].at \in Nat /\ now \in Nat /\ sms[k].at <= now /\ now' \in Int
    BY SentType DEF IInv, Past
  <2> QED
    BY <2>1
<1>3. ASSUME NEW k \in Codes
      PROVE  given[k] <= now'
  <2>1. given[k] \in Int /\ now \in Int /\ now' \in Int /\ given[k] <= now
    BY DEF IInv, Past, Ground
  <2> QED
    BY <2>1
<1>4. Past'
  BY <1>2, <1>3 DEF Past
<1> QED
  BY <1>1, <1>4, StepIInv

\* One request moves to place x with copy c.
LEMMA MovedPlaces ==
  ASSUME IInv, NEW r \in Requests, NEW x \in Place, NEW c \in Session \cup {NoCopy},
         run' = [run EXCEPT ![r] = x], copy' = [copy EXCEPT ![r] = c]
  PROVE  /\ Places' /\ run'[r] = x /\ copy'[r] = c
         /\ \A q \in Requests : q # r => run'[q] = run[q] /\ copy'[q] = copy[q]
BY DEF IInv, Places

\* Where a request goes on.
LEMMA GotoPlace ==
  ASSUME IInv, NEW r \in Requests, ~At(r, "idle"), NEW label \in Labels
  PROVE  /\ [run[r] EXCEPT !.pc = label] \in Place
         /\ [run[r] EXCEPT !.pc = label].pc = label
         /\ [run[r] EXCEPT !.pc = label].phone = Phone(r)
         /\ Phone(r) \in Phones
         /\ Goto(r, label) => run' = [run EXCEPT ![r] = [run[r] EXCEPT !.pc = label]]
<1>1. run \in [Requests -> Place] /\ run[r] \in Place /\ Fits(run[r], copy[r], sms, given)
  BY DEF IInv, Places
<1>2. Phone(r) \in Phones
  BY <1>1 DEF Fits, At, Phone
<1>3. Goto(r, label) => run' = [run EXCEPT ![r] = [run[r] EXCEPT !.pc = label]]
  BY <1>1 DEF Goto
<1> QED
  BY <1>1, <1>2, <1>3 DEF Place, Phone

LEMMA BumpType ==
  ASSUME NEW M, NEW K, NEW h \in [M -> [K -> Nat]], NEW m \in M, NEW k \in K
  PROVE  [h EXCEPT ![m][k] = @ + 1] \in [M -> [K -> Nat]]
<1> DEFINE row == [h[m] EXCEPT ![k] = @ + 1]
<1>1. h[m] \in [K -> Nat] /\ h[m][k] \in Nat
  OBVIOUS
<1>2. row \in [K -> Nat]
  BY <1>1
<1>3. [h EXCEPT ![m][k] = @ + 1] = [h EXCEPT ![m] = row]
  OBVIOUS
<1> HIDE DEF row
<1> QED
  BY <1>2, <1>3

LEMMA HitsType ==
  ASSUME Ground, NEW m \in Mutations, NEW s \in Spellings,
         \/ Count(m, s)
         \/ hits' = [hits EXCEPT ![m][Ip] = @ + 1]
  PROVE  hits' \in [Mutations -> [Spellings \cup {Ip} -> Nat]]
<1>1. hits[m] \in [Spellings \cup {Ip} -> Nat]
  BY DEF Ground
<1>2. CASE Count(m, s)
  <2> DEFINE row == [k \in DOMAIN hits[m] |-> IF k \in {Ip, s} THEN hits[m][k] + 1 ELSE hits[m][k]]
  <2>1. row \in [Spellings \cup {Ip} -> Nat]
    BY <1>1
  <2>2. hits' = [hits EXCEPT ![m] = row]
    BY <1>2 DEF Count
  <2> HIDE DEF row
  <2> QED
    BY <2>1, <2>2 DEF Ground
<1>3. CASE hits' = [hits EXCEPT ![m][Ip] = @ + 1]
  <2>1. /\ hits \in [Mutations -> [Spellings \cup {Ip} -> Nat]]
        /\ Ip \in Spellings \cup {Ip}
    BY DEF Ground
  <2>2. [hits EXCEPT ![m][Ip] = @ + 1] \in [Mutations -> [Spellings \cup {Ip} -> Nat]]
    BY <2>1, BumpType
  <2> QED
    BY <1>3, <2>2
<1> QED
  BY <1>2, <1>3

\* Steps that move no request.
LEMMA StandIInv ==
  ASSUME IInv,
         \/ Tick
         \/ \E m \in Mutations, s \in Spellings : RateLimited(m, s)
         \/ UNCHANGED vars
  PROVE  IInv'
<1>1. Ground /\ Places /\ Sound(session, sms, given)
  BY DEF IInv
<1>2. ASSUME UNCHANGED <<sms, session, run, copy, tries, given>>,
             now' \in 0..MaxTime, now <= now',
             hits' \in [Mutations -> [Spellings \cup {Ip} -> Nat]]
      PROVE  IInv'
  <2>1. Places' /\ Sound(session', sms, given) /\ tries' \in [Codes -> Nat]
    BY <1>1, <1>2 DEF Places, Ground
  <2> QED
    BY <1>2, <2>1, StillIInv
<1>3. CASE Tick
  <2>1. hits' \in [Mutations -> [Spellings \cup {Ip} -> Nat]]
    BY <1>3 DEF Tick
  <2>2. now' \in 0..MaxTime /\ now <= now'
    BY <1>1, <1>3, ConstantsAssumption DEF Tick, Ground
  <2> QED
    BY <1>2, <1>3, <2>1, <2>2 DEF Tick
<1>4. CASE \E m \in Mutations, s \in Spellings : RateLimited(m, s)
  <2>1. PICK m \in Mutations, s \in Spellings : RateLimited(m, s)
    BY <1>4
  <2>2. hits' \in [Mutations -> [Spellings \cup {Ip} -> Nat]]
    BY <1>1, <2>1, HitsType DEF RateLimited
  <2>3. now' \in 0..MaxTime /\ now <= now'
    BY <1>1, <2>1, ConstantsAssumption DEF RateLimited, Ground
  <2> QED
    BY <1>2, <2>1, <2>2, <2>3 DEF RateLimited
<1>5. CASE UNCHANGED vars
  <2>1. now' \in 0..MaxTime /\ now <= now'
    BY <1>1, <1>5, ConstantsAssumption DEF vars, Ground
  <2> QED
    BY <1>1, <1>2, <1>5, <2>1 DEF vars, Ground
<1> QED
  BY <1>3, <1>4, <1>5

LEMMA BeginIInv ==
  ASSUME IInv, NEW r \in Requests, NEW m \in Mutations, NEW s \in Spellings, Begin(r, m, s)
  PROVE  IInv'
<1>1. /\ At(r, "idle") /\ UNCHANGED <<now, sms, session, copy, tries, given>>
      /\ Count(m, s)
      /\ \/ UNCHANGED run
         \/ /\ PhoneOf[s] # None
            /\ run' = [run EXCEPT ![r] = [pc |-> m, phone |-> PhoneOf[s]]]
  BY DEF Begin
<1>2. Ground /\ Places /\ Sound(session, sms, given) /\ Fits(run[r], copy[r], sms, given)
  BY DEF IInv
<1>3. hits' \in [Mutations -> [Spellings \cup {Ip} -> Nat]] /\ tries' \in [Codes -> Nat]
  BY <1>1, <1>2, HitsType DEF Ground
<1>4. now' \in 0..MaxTime /\ now <= now'
  BY <1>1, <1>2, ConstantsAssumption DEF Ground
<1>5. CASE UNCHANGED run
  BY <1>1, <1>2, <1>3, <1>4, <1>5, StillIInv DEF Places
<1>6. CASE PhoneOf[s] # None /\ run' = [run EXCEPT ![r] = [pc |-> m, phone |-> PhoneOf[s]]]
  <2> DEFINE x == [pc |-> m, phone |-> PhoneOf[s]]
  <2>1. /\ x \in Place /\ x.pc \in Mutations /\ x.phone \in Phones
    BY <1>6, ConstantsAssumption DEF Place, Labels
  <2>2. x.pc \notin Holding
    BY <2>1 DEF Mutations, Holding
  <2>3. copy[r] = NoCopy
    BY <1>1, <1>2 DEF Fits, At, Holding
  <2> HIDE DEF x
  <2>4. copy' = [copy EXCEPT ![r] = NoCopy]
    BY <1>1, <1>2, <2>3 DEF Places
  <2>5. run' = [run EXCEPT ![r] = x]
    BY <1>6 DEF x
  <2>6. /\ Places' /\ run'[r] = x /\ copy'[r] = NoCopy
        /\ \A q \in Requests : q # r => run'[q] = run[q] /\ copy'[q] = copy[q]
    BY <2>1, <2>4, <2>5, MovedPlaces
  <2>7. Fits(run'[r], copy'[r], sms, given)
    BY <2>1, <2>2, <2>6 DEF Fits
  <2> QED
    BY <1>1, <1>2, <1>3, <1>4, <2>6, <2>7, StillIInv
<1> QED
  BY <1>1, <1>5, <1>6

\* Steps that take a request on or end it, and at most save a sound session.
LEMMA MoveIInv ==
  ASSUME IInv, NEW r \in Requests, NEW x \in Place, NEW c \in Session \cup {NoCopy},
         run' = [run EXCEPT ![r] = x], copy' = [copy EXCEPT ![r] = c],
         UNCHANGED <<now, hits, sms, given>>, tries' \in [Codes -> Nat],
         Sound(session', sms, given), Fits(x, c, sms, given)
  PROVE  IInv'
<1>1. /\ Places' /\ run'[r] = x /\ copy'[r] = c
      /\ \A q \in Requests : q # r => run'[q] = run[q] /\ copy'[q] = copy[q]
  BY MovedPlaces
<1>2. /\ now' \in 0..MaxTime /\ now <= now'
      /\ hits' \in [Mutations -> [Spellings \cup {Ip} -> Nat]]
  <2>1. /\ now \in 0..MaxTime
        /\ hits \in [Mutations -> [Spellings \cup {Ip} -> Nat]]
    BY Zenon DEF IInv, Ground
  <2>2. now' = now /\ hits' = hits
    OBVIOUS
  <2>3. now' <= now /\ now <= now'
    BY <2>1, <2>2
  <2> QED
    BY <2>1, <2>2, <2>3, Zenon
<1> QED
  BY <1>1, <1>2, StillIInv

LEMMA LoadIInv ==
  ASSUME IInv, NEW r \in Requests, Load(r)
  PROVE  IInv'
<1> DEFINE label == IF At(r, "verifyCode") THEN "compare" ELSE "generate"
           x == [run[r] EXCEPT !.pc = label]
<1>1. /\ ~At(r, "idle") /\ copy' = [copy EXCEPT ![r] = session] /\ Goto(r, label)
      /\ UNCHANGED <<now, hits, sms, session, tries, given>>
  BY DEF Load, At, Mutations
<1>2. label \in Labels /\ label \in Holding
  BY DEF Labels, Holding
<1> HIDE DEF label
<1>3. x \in Place /\ x.pc = label /\ x.phone \in Phones /\ run' = [run EXCEPT ![r] = x]
  BY <1>1, <1>2, GotoPlace
<1> HIDE DEF x
<1>4. Sound(session, sms, given) /\ tries' \in [Codes -> Nat]
  BY <1>1 DEF IInv, Ground
<1>5. Fits(x, session, sms, given) /\ session \in Session
  BY <1>2, <1>3, <1>4 DEF Fits, Sound
<1> QED
  BY <1>1, <1>3, <1>4, <1>5, MoveIInv

LEMMA SendFailsIInv ==
  ASSUME IInv, NEW r \in Requests, SendFails(r)
  PROVE  IInv'
<1> DEFINE x == [run[r] EXCEPT !.pc = "save"]
<1>1. /\ At(r, "generate") /\ Goto(r, "save")
      /\ UNCHANGED <<now, hits, sms, session, copy, tries, given>>
  BY DEF SendFails
<1>2. "save" \in Labels /\ "save" \in Holding /\ ~At(r, "idle")
  BY <1>1 DEF Labels, Holding, At
<1>3. x \in Place /\ x.pc = "save" /\ x.phone \in Phones /\ run' = [run EXCEPT ![r] = x]
  BY <1>1, <1>2, GotoPlace
<1> HIDE DEF x
<1>4. /\ Sound(session, sms, given) /\ tries' \in [Codes -> Nat]
      /\ Places /\ Fits(run[r], copy[r], sms, given)
  BY <1>1 DEF IInv, Ground
<1>5. Sound(copy[r], sms, given)
  BY <1>1, <1>4 DEF Fits, At, Holding
<1>6. Fits(x, copy[r], sms, given) /\ copy[r] \in Session
  BY <1>2, <1>3, <1>5 DEF Fits, Sound
<1>7. copy' = [copy EXCEPT ![r] = copy[r]]
  BY <1>1, <1>4 DEF Places
<1> QED
  BY <1>1, <1>3, <1>4, <1>6, <1>7, MoveIInv

\* A request ends, and its copy is what the session becomes, or nothing.
LEMMA EndIInv ==
  ASSUME IInv, NEW r \in Requests, End(r), UNCHANGED <<now, hits, sms, given>>,
         tries' \in [Codes -> Nat], Sound(session', sms, given)
  PROVE  IInv'
<1>1. /\ run' = [run EXCEPT ![r] = Idle] /\ copy' = [copy EXCEPT ![r] = NoCopy]
  BY DEF End
<1>2. Idle \in Place /\ Fits(Idle, NoCopy, sms, given)
  BY DEF Idle, Place, Labels, Fits, Holding
<1> QED
  BY <1>1, <1>2, MoveIInv

LEMMA LeaveIInv ==
  ASSUME IInv, NEW r \in Requests, Save(r) \/ Crash(r)
  PROVE  IInv'
<1>1. /\ End(r) /\ UNCHANGED <<now, hits, sms, tries, given>>
      /\ \/ At(r, "save") /\ session' = copy[r]
         \/ session' = session
  BY DEF Save, Crash
<1>2. /\ Sound(session, sms, given) /\ tries' \in [Codes -> Nat]
      /\ Fits(run[r], copy[r], sms, given)
  BY <1>1 DEF IInv, Ground
<1>3. Sound(session', sms, given)
  BY <1>1, <1>2 DEF Fits, At, Holding
<1> QED
  BY <1>1, <1>2, <1>3, EndIInv

\* The sessions that SendCode and Verify make.
WithCode(s, c) == [s EXCEPT !.code = c, !.retry = 0, !.used = FALSE]

WithPhone(s, p, u) == [s EXCEPT !.retry = @ + 1, !.used = TRUE, !.phone = p, !.until = u]

LEMMA WithCodeType ==
  ASSUME NEW s \in Session, NEW c \in 0..MaxCodes
  PROVE  /\ WithCode(s, c) \in Session /\ WithCode(s, c).code = c
         /\ WithCode(s, c).phone = s.phone /\ WithCode(s, c).until = s.until
BY ConstantsAssumption DEF Session, WithCode

LEMMA WithPhoneType ==
  ASSUME NEW s \in Session, NEW p \in Phones, NEW u \in Nat
  PROVE  /\ WithPhone(s, p, u) \in Session /\ WithPhone(s, p, u).code = s.code
         /\ WithPhone(s, p, u).phone = p /\ WithPhone(s, p, u).until = u
<1>1. s.retry + 1 \in Nat
  BY DEF Session
<1>2. WithPhone(s, p, u) \in Session
  BY <1>1 DEF Session, WithPhone
<1> QED
  BY <1>2 DEF Session, WithPhone

LEMMA SendCodeIInv ==
  ASSUME IInv, NEW r \in Requests, SendCode(r)
  PROVE  IInv'
<1> DEFINE m == [to |-> Phone(r), at |-> now]
           c == WithCode(copy[r], Len(sms) + 1)
           x == [run[r] EXCEPT !.pc = "save"]
<1>1. /\ At(r, "generate") /\ Len(sms) < MaxCodes /\ sms' = Append(sms, m)
      /\ copy' = [copy EXCEPT ![r].code = Len(sms) + 1, ![r].retry = 0, ![r].used = FALSE]
      /\ Goto(r, "save") /\ UNCHANGED <<now, hits, session, tries, given>>
  BY DEF SendCode, Send
<1>2. "save" \in Labels /\ "save" \in Holding /\ ~At(r, "idle")
  BY <1>1 DEF Labels, Holding, At
<1>3. /\ x \in Place /\ x.pc = "save" /\ x.phone \in Phones /\ run' = [run EXCEPT ![r] = x]
      /\ Phone(r) \in Phones
  BY <1>1, <1>2, GotoPlace
<1>4. /\ Ground /\ Past /\ Places /\ Sound(session, sms, given)
      /\ Fits(run[r], copy[r], sms, given)
  BY DEF IInv
<1>5. Sound(copy[r], sms, given)
  BY <1>1, <1>4 DEF Fits, At, Holding
<1>6. /\ sms \in Seq(Message) /\ Len(sms) \in Nat /\ m \in Message /\ now \in Nat
  BY <1>3, <1>4 DEF Ground, Message
<1> HIDE DEF x, m
<1>7. /\ Len(sms') = Len(sms) + 1 /\ sms' \in Seq(Message) /\ sms'[Len(sms) + 1] = m
      /\ \A k \in 1..Len(sms) : sms'[k] = sms[k]
  BY <1>1, <1>6
<1>8. Ground' /\ Grown
  <2>1. Len(sms') <= MaxCodes /\ Len(sms) <= Len(sms')
    BY <1>1, <1>6, <1>7, ConstantsAssumption
  <2>2. Grown
    BY <1>1, <1>7, <2>1 DEF Grown
  <2> QED
    BY <1>1, <1>4, <1>7, <2>1, <2>2 DEF Ground
<1>9. Past'
  <2>1. m.at = now
    BY DEF m
  <2>2. \A k \in 1..Len(sms') : sms'[k].at <= now
    BY <1>4, <1>6, <1>7, <2>1 DEF Past
  <2> QED
    BY <1>1, <1>4, <2>2 DEF Past
<1>10. /\ c \in Session /\ c.code = Len(sms) + 1 /\ c.phone = copy[r].phone
       /\ c.until = copy[r].until
  <2>1. Len(sms) + 1 \in 0..MaxCodes
    BY <1>1, <1>6, ConstantsAssumption
  <2> QED
    BY <1>5, <2>1, WithCodeType DEF Sound
<1>11. copy' = [copy EXCEPT ![r] = c]
  BY <1>1, <1>4 DEF WithCode, Places
<1> HIDE DEF c
<1>12. Sound(session', sms', given') /\ Sound(copy[r], sms', given')
  BY <1>1, <1>4, <1>5, <1>8, SoundStays
<1>13. Sound(c, sms', given')
  BY <1>6, <1>7, <1>10, <1>12 DEF Sound, Traced
<1>14. /\ Places' /\ run'[r] = x /\ copy'[r] = c
       /\ \A q \in Requests : q # r => run'[q] = run[q] /\ copy'[q] = copy[q]
  BY <1>3, <1>10, <1>11, MovedPlaces
<1>15. Fits(run'[r], copy'[r], sms', given')
  BY <1>2, <1>3, <1>13, <1>14 DEF Fits
<1> QED
  BY <1>8, <1>9, <1>12, <1>14, <1>15, StepIInv

\* A good code: the copy has the phone verified, and the code was given back now.
LEMMA VerifyIInv ==
  ASSUME IInv, NEW r \in Requests, NEW k \in Int, At(r, "compare"), Verify(r, k),
         UNCHANGED <<now, hits, sms, session>>
  PROVE  IInv'
<1> DEFINE u == now + Expiration
           c == WithPhone(copy[r], Phone(r), u)
           x == [run[r] EXCEPT !.pc = "save"]
<1>1. /\ Asked(r) /\ Good(r) /\ k = copy[r].code
      /\ copy' = [copy EXCEPT ![r].retry = @ + 1, ![r].used = TRUE, ![r].phone = Phone(r),
                              ![r].until = now + Expiration]
      /\ Goto(r, "save") /\ tries' = [tries EXCEPT ![k] = @ + 1]
      /\ given' = [given EXCEPT ![k] = now]
  BY DEF Verify
<1>2. "save" \in Labels /\ "save" \in Holding /\ ~At(r, "idle")
  BY <1>1 DEF Labels, Holding, At
<1>3. /\ x \in Place /\ x.pc = "save" /\ x.phone \in Phones /\ run' = [run EXCEPT ![r] = x]
      /\ Phone(r) \in Phones
  BY <1>1, <1>2, GotoPlace
<1>4. /\ Ground /\ Past /\ Places /\ Sound(session, sms, given)
      /\ Fits(run[r], copy[r], sms, given)
  BY DEF IInv
<1>5. Sound(copy[r], sms, given)
  BY <1>4 DEF Fits, At, Holding
<1>6. /\ k \in 1..Len(sms) /\ sms[k].to = Phone(r) /\ now <= sms[k].at + Expiration
  <2>1. copy[r].code \in 0..MaxCodes /\ copy[r].code <= Len(sms) /\ Len(sms) \in Nat
    BY <1>4, <1>5 DEF Sound, Session, Ground
  <2> QED
    BY <1>1, <2>1, ConstantsAssumption DEF Asked, Good
<1>7. /\ k \in Codes /\ sms[k].at \in Nat /\ now \in Nat /\ Expiration \in Nat
      /\ given[k] \in Int /\ given[k] <= now /\ sms[k].at <= now
  BY <1>4, <1>6, SentType DEF Past
<1>8. /\ given' \in [Codes -> Nat \cup {-1}] /\ given'[k] = now
      /\ \A j \in Codes : j # k => given'[j] = given[j]
  BY <1>1, <1>4, <1>7 DEF Ground
<1>9. Ground'
  <2>1. tries' \in [Codes -> Nat]
    BY <1>1, <1>4, <1>7 DEF Ground
  <2> QED
    BY <1>4, <1>8, <2>1 DEF Ground
<1>10. Grown
  <2>1. \A j \in 1..Len(sms) : j \in Codes
    BY <1>4, SentType
  <2> QED
    BY <1>4, <1>6, <1>7, <1>8, <2>1 DEF Grown, Ground
<1>11. Past'
  <2>1. \A j \in Codes : given'[j] <= now
    BY <1>4, <1>7, <1>8 DEF Past
  <2> QED
    BY <1>4, <2>1 DEF Past
<1>12. copy[r] \in Session /\ u \in Nat
  BY <1>5, <1>7 DEF Sound
<1>13. copy' = [copy EXCEPT ![r] = c]
  BY <1>1, <1>4 DEF WithPhone, Places
<1> HIDE DEF x, u
<1>14. c \in Session /\ c.code = copy[r].code /\ c.phone = Phone(r) /\ c.until = u
  BY <1>3, <1>12, WithPhoneType
<1> HIDE DEF c
<1>15. Sound(session', sms', given')
  BY <1>4, <1>9, <1>10, SoundStays
<1>16. Sound(c, sms', given')
  <2>1. /\ sms'[k].to = c.phone /\ sms'[k].at <= given'[k]
        /\ given'[k] <= sms'[k].at + Expiration /\ c.until <= given'[k] + Expiration
    BY <1>6, <1>7, <1>8, <1>14 DEF u
  <2>2. c.code <= Len(sms') /\ k \in 1..Len(sms')
    BY <1>5, <1>6, <1>14 DEF Sound
  <2> QED
    BY <1>14, <2>1, <2>2 DEF Sound, Traced
<1>17. /\ Places' /\ run'[r] = x /\ copy'[r] = c
       /\ \A q \in Requests : q # r => run'[q] = run[q] /\ copy'[q] = copy[q]
  BY <1>3, <1>13, <1>14, MovedPlaces
<1>18. Fits(run'[r], copy'[r], sms', given')
  BY <1>2, <1>3, <1>16, <1>17 DEF Fits
<1> QED
  BY <1>9, <1>10, <1>11, <1>15, <1>17, <1>18, StepIInv

LEMMA CompareIInv ==
  ASSUME IInv, NEW r \in Requests, NEW k \in Int, Compare(r, k)
  PROVE  IInv'
<1>1. /\ At(r, "compare") /\ (Verify(r, k) \/ Refuse(r, k))
      /\ UNCHANGED <<now, hits, sms, session>>
  BY DEF Compare
<1>2. CASE Verify(r, k)
  BY <1>1, <1>2, VerifyIInv
<1>3. CASE Refuse(r, k)
  <2>1. tries' \in [Codes -> Nat]
    <3>1. tries \in [Codes -> Nat]
      BY DEF IInv, Ground
    <3>2. tries' = tries \/ tries' = [tries EXCEPT ![copy[r].code] = @ + 1]
      BY <1>3 DEF Refuse
    <3> QED
      BY <3>1, <3>2
  <2>2. End(r) /\ UNCHANGED given /\ Sound(session', sms, given)
    BY <1>1, <1>3 DEF Refuse, IInv
  <2> QED
    BY <1>1, <2>1, <2>2, EndIInv
<1> QED
  BY <1>1, <1>2, <1>3

LEMMA NextIInv == IInv /\ [Next]_vars => IInv'
<1> SUFFICES ASSUME IInv, [Next]_vars PROVE IInv'
  OBVIOUS
<1>1. CASE \/ Tick \/ UNCHANGED vars
           \/ \E m \in Mutations, s \in Spellings : RateLimited(m, s)
  BY <1>1, StandIInv
<1>2. CASE \E r \in Requests, m \in Mutations, s \in Spellings : Begin(r, m, s)
  BY <1>2, BeginIInv
<1>3. ASSUME NEW r \in Requests,
             Load(r) \/ SendCode(r) \/ SendFails(r) \/ Save(r) \/ Crash(r)
      PROVE  IInv'
  BY <1>3, LoadIInv, SendCodeIInv, SendFailsIInv, LeaveIInv
<1>4. ASSUME NEW r \in Requests, NEW k \in 0..Len(sms), Compare(r, k)
      PROVE  IInv'
  BY <1>4, CompareIInv
<1> QED
  BY <1>1, <1>2, <1>3, <1>4 DEF Next

\* What is said of sessions, saved or not, is an invariant.
THEOREM Invariance == Spec => []IInv
<1>1. Init => IInv
  BY InitIInv
<1>2. IInv /\ [Next]_vars => IInv'
  BY NextIInv
<1> QED
  BY <1>1, <1>2, PTL DEF Spec

\* Every variable keeps its type, and sessions have codes that were sent.
THEOREM TypeCorrect == Spec => []TypeOK
<1>1. IInv => TypeOK
  BY IInvType
<1> QED
  BY <1>1, Invariance, PTL

\* Whoever may sign up or in has given back, in time, a code that was sent to the phone,
\* whatever copies of the session were saved over each other (has_verified_phone,
\* verify_code).
THEOREM EntrantsGaveCodes == Spec => []EntrantGaveCode
<1>1. IInv => EntrantGaveCode
  <2> SUFFICES ASSUME IInv, NEW s \in Spellings, MayEnter(s)
               PROVE  \E k \in 1..Len(sms) :
                        /\ sms[k].to = s
                        /\ sms[k].at <= given[k] /\ given[k] <= sms[k].at + Expiration
                        /\ now <= given[k] + Expiration
    BY DEF EntrantGaveCode
  <2>1. session.phone = s /\ s # None /\ now <= session.until
    BY ConstantsAssumption DEF MayEnter
  <2>2. Sound(session, sms, given) /\ Ground
    BY DEF IInv
  <2>3. PICK k \in 1..Len(sms) :
          /\ sms[k].to = s
          /\ sms[k].at <= given[k] /\ given[k] <= sms[k].at + Expiration
          /\ session.until <= given[k] + Expiration
    BY <2>1, <2>2 DEF Sound, Traced
  <2>4. now \in Int /\ session.until \in Int /\ given[k] \in Int /\ Expiration \in Int
    BY <2>2, SentType DEF Sound, Session
  <2> QED
    BY <2>1, <2>3, <2>4
<1> QED
  BY <1>1, Invariance, PTL
-----------------------------------------------------------------------------
(* Tries of a code.  Each try was counted against a spelling of the phone  *)
(* the code was sent to, so the tries of a window, with those that are     *)
(* still to come, grow by at most what the window counts for the spellings *)
(* together; a code is good in as many windows as it lives, and in the one *)
(* it was sent in; and when it was sent, all requests but the one that     *)
(* sent it may have been counted already.                                  *)

Compared == hits["verifyCode"]

\* What this window has counted for a phone, and what it may count.
Counted(p) == Total(Spelled(p), Compared)
Allowed(p) == PhoneRate * Cardinality(Spelled(p))

RateKept == \A s \in Spellings : Compared[s] <= PhoneRate

\* The requests that were counted for a phone and have not compared yet.
MayTry == {"verifyCode", "compare"}
Trying(p) == {r \in Requests : run[r].pc \in MayTry /\ run[r].phone = p}
Pending(p) == Cardinality(Trying(p))

\* The requests that were counted before the code was sent.
Early == Cardinality(Requests) - 1

\* The tries of a message's code by now.
CodeTries(k) ==
  LET sent == sms[k] IN
    /\ sent.at <= now
    /\ now <= sent.at + Expiration =>
         tries[k] + Pending(sent.to)
           <= Allowed(sent.to) * (now - sent.at) + Counted(sent.to) + Early
    /\ now > sent.at + Expiration => tries[k] <= Allowed(sent.to) * (Expiration + 1) + Early

TriesInv ==
  /\ TypeOK /\ RateKept
  /\ \A k \in 1..Len(sms) : CodeTries(k)
  /\ \A k \in Codes : k > Len(sms) => tries[k] = 0

LEMMA SpelledFinite ==
  ASSUME NEW p
  PROVE  /\ IsFiniteSet(Spelled(p)) /\ Spelled(p) \subseteq Spellings
         /\ Cardinality(Spelled(p)) \in Nat /\ Allowed(p) \in Nat
<1>1. Spelled(p) \subseteq Spellings
  BY DEF Spelled
<1>2. IsFiniteSet(Spelled(p))
  BY <1>1, ConstantsAssumption, FS_Subset
<1>3. Cardinality(Spelled(p)) \in Nat
  BY <1>2, FS_CardinalityType
<1> QED
  BY <1>1, <1>2, <1>3, ConstantsAssumption DEF Allowed

LEMMA CountedType ==
  ASSUME TypeOK, NEW p
  PROVE  /\ \A s \in Spellings : Compared[s] \in Nat
         /\ Counted(p) \in Nat
         /\ RateKept => Counted(p) <= Allowed(p)
<1>1. \A s \in Spellings : Compared[s] \in Nat
  BY DEF TypeOK, Mutations, Compared
<1>2. \A s \in Spelled(p) : Compared[s] \in Int
  BY <1>1, SpelledFinite
<1>3. Counted(p) \in Nat
  BY <1>2, SpelledFinite, TotalType DEF Counted
<1>4. ASSUME RateKept
      PROVE  Counted(p) <= Allowed(p)
  <2>1. PhoneRate \in Nat /\ \A s \in Spelled(p) : Compared[s] <= PhoneRate
    BY <1>4, SpelledFinite, ConstantsAssumption DEF RateKept
  <2>2. Total(Spelled(p), Compared) <= PhoneRate * Cardinality(Spelled(p))
    BY <1>2, <2>1, SpelledFinite, TotalBounded
  <2> QED
    BY <2>2 DEF Counted, Allowed
<1> QED
  BY <1>1, <1>3, <1>4

\* The same for every phone, now and after a step.
CountedOK ==
  /\ \A s \in Spellings : Compared[s] \in Nat
  /\ \A p \in Phones : Counted(p) \in Nat /\ (RateKept => Counted(p) <= Allowed(p))

LEMMA CountedNow == TypeOK => CountedOK
BY CountedType DEF CountedOK

LEMMA CountedNext == TypeOK' => CountedOK'
BY CountedNow, PTL

\* What CodeTries speaks of.
LEMMA MessageType ==
  ASSUME TypeOK, NEW k \in 1..Len(sms)
  PROVE  /\ sms[k].to \in Phones /\ sms[k].at \in Nat /\ now \in Nat /\ tries[k] \in Nat
         /\ k \in Codes /\ Allowed(sms[k].to) \in Nat
         /\ Counted(sms[k].to) \in Nat /\ Len(sms) \in Nat /\ Expiration \in Nat
<1>1. sms[k] \in [to : Phones, at : 0..MaxTime]
  BY ElementType DEF TypeOK
<1>2. Len(sms) \in Nat /\ k \in Codes
  BY ConstantsAssumption DEF TypeOK, Codes
<1>3. sms[k].to \in Phones /\ Counted(sms[k].to) \in Nat
  BY <1>1, CountedNow DEF CountedOK
<1> QED
  BY <1>1, <1>2, <1>3, SpelledFinite, ConstantsAssumption DEF TypeOK

LEMMA PendingType ==
  ASSUME NEW p
  PROVE  /\ IsFiniteSet(Trying(p)) /\ Trying(p) \subseteq Requests
         /\ Pending(p) \in Nat /\ Pending(p)' \in Nat /\ Early \in Int
<1>1. Trying(p) \subseteq Requests /\ Trying(p)' \subseteq Requests
  BY DEF Trying
<1>2. IsFiniteSet(Trying(p)) /\ IsFiniteSet(Trying(p)')
  BY <1>1, ConstantsAssumption, FS_Subset
<1> QED
  BY <1>1, <1>2, FS_CardinalityType, ConstantsAssumption DEF Pending, Early

\* A request that moves joins or leaves those that may try.
LEMMA PendingMoves ==
  ASSUME TypeOK, NEW r \in Requests, NEW x, run' = [run EXCEPT ![r] = x], NEW p
  PROVE  /\ Pending(p)' \in Nat /\ Pending(p)' <= Pending(p) + 1
         /\ ~(x.pc \in MayTry /\ x.phone = p) \/ r \in Trying(p) =>
              Pending(p)' <= Pending(p)
         /\ r \in Trying(p) /\ ~(x.pc \in MayTry /\ x.phone = p) =>
              Pending(p)' = Pending(p) - 1
<1> DEFINE T == Trying(p)
<1>1. IsFiniteSet(T) /\ Pending(p) = Cardinality(T) /\ Pending(p) \in Nat
  BY PendingType DEF Pending
<1>2. run'[r] = x /\ \A q \in Requests : q # r => run'[q] = run[q]
  BY DEF TypeOK
<1>3. Trying(p)' = IF x.pc \in MayTry /\ x.phone = p THEN T \cup {r} ELSE T \ {r}
  BY <1>2 DEF Trying
<1>4. Pending(p)' = Cardinality(Trying(p)')
  BY DEF Pending
<1> HIDE DEF T
<1>5. CASE x.pc \in MayTry /\ x.phone = p
  <2>1. Cardinality(T \cup {r}) = IF r \in T THEN Cardinality(T) ELSE Cardinality(T) + 1
    BY <1>1, FS_AddElement
  <2> QED
    BY <1>1, <1>3, <1>4, <1>5, <2>1 DEF T
<1>6. CASE ~(x.pc \in MayTry /\ x.phone = p)
  <2>1. Cardinality(T \ {r}) = IF r \in T THEN Cardinality(T) - 1 ELSE Cardinality(T)
    BY <1>1, FS_RemoveElement
  <2>2. Pending(p)' = IF r \in T THEN Pending(p) - 1 ELSE Pending(p)
    BY <1>1, <1>3, <1>4, <1>6, <2>1
  <2>3. Cardinality(T \ {r}) \in Nat
    BY <1>1, FS_RemoveElement, FS_CardinalityType
  <2> QED
    BY <1>1, <1>3, <1>4, <1>6, <2>2, <2>3 DEF T
<1> QED
  BY <1>5, <1>6

\* A step within a window that counts at least as many as it tries or leaves to try.
LEMMA WithinWindow ==
  ASSUME TriesInv, TypeOK', RateKept', UNCHANGED <<now, sms>>,
         \A k \in 1..Len(sms), p \in Phones : sms[k].to = p =>
           /\ tries'[k] + Pending(p)' + Counted(p) <= tries[k] + Pending(p) + Counted(p)'
           /\ tries'[k] = tries[k] \/ now <= sms[k].at + Expiration,
         \A k \in Codes : k > Len(sms) => tries'[k] = tries[k]
  PROVE  TriesInv'
<1>1. ASSUME NEW k \in 1..Len(sms)
      PROVE  CodeTries(k)'
  <2> DEFINE p == sms[k].to
             at == sms[k].at
             A == Allowed(p)
             C == Counted(p)
             W == Pending(p)
             X == A * (now - at)
             Y == A * (Expiration + 1)
             D == Counted(p)'
             V == Pending(p)'
  <2>1. /\ at \in Nat /\ now \in Nat /\ tries[k] \in Nat /\ p \in Phones
        /\ A \in Nat /\ C \in Nat /\ k \in Codes /\ Expiration \in Nat
    BY MessageType DEF TriesInv
  <2>2. W \in Nat /\ Early \in Int
    BY PendingType
  <2>3. tries'[k] \in Nat
    BY <2>1 DEF TypeOK
  <2>4. X \in Int /\ Y \in Int
    BY <2>1
  <2>5. \A q \in Phones : Counted(q)' \in Nat /\ Pending(q)' \in Nat
    BY PendingType, CountedNext DEF CountedOK
  <2>6. p' = p /\ at' = at /\ A' = A /\ now' = now /\ Early' = Early
    BY DEF Allowed, Spelled, Early
  <2>7. D \in Nat /\ V \in Nat
    <3>1. sms'[k].to \in Phones
      BY <2>1, <2>6
    <3> QED
      BY <2>5, <3>1
  <2>8. /\ tries'[k] + V + C <= tries[k] + W + D
        /\ tries'[k] = tries[k] \/ now <= at + Expiration
    BY <2>1, <2>6
  <2>9. /\ at <= now
        /\ now <= at + Expiration => tries[k] + W <= X + C + Early
        /\ now > at + Expiration => tries[k] <= Y + Early
    BY DEF TriesInv, CodeTries
  <2> HIDE DEF p, at, A, C, W, X, Y, D, V
  <2>10. now <= at + Expiration => tries'[k] + V <= X + D + Early
    <3>1. /\ tries'[k] \in Int /\ tries[k] \in Int /\ C \in Int /\ D \in Int
          /\ V \in Int /\ W \in Int
      BY <2>1, <2>2, <2>3, <2>7
    <3>2. /\ X \in Int /\ Early \in Int
          /\ tries'[k] + V + C <= tries[k] + W + D
      BY <2>2, <2>4, <2>8
    <3>3. CASE now <= at + Expiration
      <4>1. tries[k] + W <= X + C + Early
        BY <2>9, <3>3
      <4> QED
        BY <3>1, <3>2, <4>1
    <3> QED
      BY <3>3
  <2>11. now > at + Expiration => tries'[k] <= Y + Early
    BY <2>1, <2>2, <2>3, <2>4, <2>8, <2>9
  <2>12. /\ at' <= now'
         /\ now' <= at' + Expiration => tries'[k] + V <= A' * (now' - at') + D + Early'
         /\ now' > at' + Expiration => tries'[k] <= A' * (Expiration + 1) + Early'
    BY <2>6, <2>9, <2>10, <2>11 DEF X, Y
  <2> QED
    BY <2>12 DEF CodeTries, p, at, A, D, V
<1>2. \A k \in Codes : k > Len(sms)' => tries'[k] = 0
  BY DEF TriesInv
<1> QED
  BY <1>1, <1>2 DEF TriesInv

\* A request to verify counts once for the phone as spelled, if the rate allows.
LEMMA CountCompared ==
  ASSUME TriesInv, NEW s \in Spellings, Count("verifyCode", s), Passes("verifyCode", s)
  PROVE  /\ \A x \in Spellings \ {s} : Compared'[x] = Compared[x]
         /\ Compared'[s] = Compared[s] + 1
         /\ RateKept'
<1>1. hits \in [Mutations -> [Spellings \cup {Ip} -> Nat]] /\ "verifyCode" \in Mutations
  BY DEF TriesInv, TypeOK, Mutations
<1>2. DOMAIN Compared = Spellings \cup {Ip} /\ \A x \in Spellings : Compared[x] \in Nat
  BY <1>1 DEF Compared
<1>3. Compared' = [x \in DOMAIN Compared |-> IF x \in {Ip, s} THEN Compared[x] + 1 ELSE Compared[x]]
  BY <1>1 DEF Compared, Count
<1>4. \A x \in Spellings : Compared'[x] = IF x = s THEN Compared[x] + 1 ELSE Compared[x]
  BY <1>2, <1>3, ConstantsAssumption
<1>5. Compared[s] < PhoneRate
  BY DEF Passes, Compared
<1>6. RateKept'
  <2>1. \A x \in Spellings : Compared[x] <= PhoneRate
    BY DEF TriesInv, RateKept
  <2> QED
    BY <1>2, <1>4, <1>5, <2>1, ConstantsAssumption DEF RateKept
<1> QED
  BY <1>4, <1>6

LEMMA CountCounted ==
  ASSUME TriesInv, TypeOK', NEW s \in Spellings, Count("verifyCode", s), Passes("verifyCode", s),
         NEW p \in Phones
  PROVE  /\ Counted(p)' >= Counted(p)
         /\ PhoneOf[s] = p => Counted(p)' = Counted(p) + 1
<1>1. /\ \A x \in Spellings \ {s} : Compared'[x] = Compared[x]
      /\ Compared'[s] = Compared[s] + 1
  BY CountCompared
<1>2. /\ \A x \in Spellings : Compared[x] \in Nat /\ Compared'[x] \in Nat
      /\ Counted(p) \in Nat /\ Counted(p)' \in Nat
  BY CountedNow, CountedNext DEF CountedOK, TriesInv
<1>3. IsFiniteSet(Spelled(p)) /\ Spelled(p) \subseteq Spellings
  BY SpelledFinite
<1>4. Counted(p)' = Total(Spelled(p), Compared')
  BY DEF Counted, Spelled
<1>5. CASE s \in Spelled(p)
  <2>1. Total(Spelled(p), Compared') + Compared[s] = Total(Spelled(p), Compared) + Compared'[s]
    <3> DEFINE a == Compared
               b == Compared'
    <3>1. /\ \A x \in Spelled(p) : a[x] \in Nat /\ b[x] \in Nat
          /\ \A x \in Spelled(p) \ {s} : a[x] = b[x]
      BY <1>1, <1>2, <1>3
    <3> HIDE DEF a, b
    <3>2. Total(Spelled(p), b) + a[s] = Total(Spelled(p), a) + b[s]
      BY <1>3, <1>5, <3>1, TotalChange
    <3> QED
      BY <3>2 DEF a, b
  <2>2. Counted(p)' + Compared[s] = Counted(p) + Compared[s] + 1
    BY <1>1, <1>2, <1>4, <2>1 DEF Counted
  <2> QED
    BY <1>2, <2>2
<1>6. CASE s \notin Spelled(p)
  <2>1. \A x \in Spelled(p) : Compared'[x] = Compared[x]
    BY <1>1, <1>3, <1>6
  <2> DEFINE a == Compared
             b == Compared'
  <2>2. \A x \in Spelled(p) : b[x] = a[x]
    BY <2>1
  <2> HIDE DEF a, b
  <2>3. Total(Spelled(p), b) = Total(Spelled(p), a)
    BY <2>2, TotalSame
  <2>4. Counted(p)' = Counted(p)
    BY <1>4, <2>3 DEF Counted, a, b
  <2> QED
    BY <1>2, <1>6, <2>4 DEF Spelled
<1> QED
  BY <1>5, <1>6

\* A request to verify is counted when it begins.
LEMMA BeginTries ==
  ASSUME TriesInv, TypeOK', NEW r \in Requests, NEW s \in Spellings, Begin(r, "verifyCode", s)
  PROVE  TriesInv'
<1>1. /\ Count("verifyCode", s) /\ Passes("verifyCode", s) /\ UNCHANGED <<now, sms, tries>>
      /\ \/ UNCHANGED run
         \/ run' = [run EXCEPT ![r] = [pc |-> "verifyCode", phone |-> PhoneOf[s]]]
  BY DEF Begin
<1>2. RateKept'
  BY <1>1, CountCompared
<1>3. ASSUME NEW p \in Phones
      PROVE  Pending(p)' + Counted(p) <= Pending(p) + Counted(p)'
  <2>1. /\ Counted(p)' >= Counted(p)
        /\ PhoneOf[s] = p => Counted(p)' = Counted(p) + 1
    BY <1>1, CountCounted
  <2>2. /\ Counted(p) \in Nat /\ Counted(p)' \in Nat
        /\ Pending(p) \in Nat /\ Pending(p)' \in Nat
    BY PendingType, CountedNow, CountedNext DEF CountedOK, TriesInv
  <2>3. CASE UNCHANGED run
    <3>1. Pending(p)' = Pending(p)
      BY <2>3 DEF Pending, Trying
    <3> QED
      BY <2>1, <2>2, <3>1
  <2>4. CASE run' = [run EXCEPT ![r] = [pc |-> "verifyCode", phone |-> PhoneOf[s]]]
    <3> DEFINE x == [pc |-> "verifyCode", phone |-> PhoneOf[s]]
    <3>1. x.phone = PhoneOf[s] /\ run' = [run EXCEPT ![r] = x]
      BY <2>4
    <3> HIDE DEF x
    <3>2. /\ Pending(p)' <= Pending(p) + 1
          /\ x.phone # p => Pending(p)' <= Pending(p)
      BY <3>1, PendingMoves DEF TriesInv
    <3> QED
      BY <2>1, <2>2, <3>1, <3>2
  <2> QED
    BY <1>1, <2>3, <2>4
<1>4. ASSUME NEW k \in 1..Len(sms), NEW p \in Phones, sms[k].to = p
      PROVE  /\ tries'[k] + Pending(p)' + Counted(p) <= tries[k] + Pending(p) + Counted(p)'
             /\ tries'[k] = tries[k]
  <2>1. tries[k] \in Nat /\ tries'[k] = tries[k]
    BY <1>1, MessageType DEF TriesInv
  <2>2. /\ Counted(p) \in Nat /\ Counted(p)' \in Nat
        /\ Pending(p) \in Nat /\ Pending(p)' \in Nat
    BY PendingType, CountedNow, CountedNext DEF CountedOK, TriesInv
  <2> QED
    BY <1>3, <2>1, <2>2
<1> QED
  BY <1>1, <1>2, <1>4, WithinWindow

\* verify_code: a try is of the code in the copy, by a request for its phone.
LEMMA CompareTries ==
  ASSUME TriesInv, TypeOK', NEW r \in Requests, NEW c \in Int, Compare(r, c)
  PROVE  TriesInv'
<1>1. /\ At(r, "compare") /\ UNCHANGED <<now, hits, sms>>
      /\ \E x : x.pc \notin MayTry /\ run' = [run EXCEPT ![r] = x]
  <2>1. CASE Goto(r, "save")
    <3>1. run' = [run EXCEPT ![r] = [run[r] EXCEPT !.pc = "save"]]
      BY <2>1 DEF Goto, TriesInv, TypeOK
    <3>2. [run[r] EXCEPT !.pc = "save"].pc = "save"
      BY DEF TriesInv, TypeOK
    <3> QED
      BY <3>1, <3>2 DEF Compare, MayTry
  <2>2. CASE End(r)
    <3>1. Idle.pc = "idle" /\ run' = [run EXCEPT ![r] = Idle]
      BY <2>2 DEF End, Idle
    <3> QED
      BY <3>1 DEF Compare, MayTry
  <2> QED
    BY <2>1, <2>2 DEF Compare, Verify, Refuse
<1>2. PICK x : x.pc \notin MayTry /\ run' = [run EXCEPT ![r] = x]
  BY <1>1
<1>3. \A p \in Phones : Compared' = Compared /\ Counted(p)' = Counted(p)
  BY <1>1 DEF Counted, Spelled, Compared
<1>4. RateKept'
  BY <1>1 DEF TriesInv, RateKept, Compared
<1>5. \/ tries' = tries
      \/ tries' = [tries EXCEPT ![copy[r].code] = @ + 1] /\ Asked(r) /\ Good(r)
  BY DEF Compare, Verify, Refuse
<1>6. /\ tries \in [Codes -> Nat] /\ copy[r].code \in 0..Len(sms) /\ Len(sms) \in Nat
  <2>1. SessionOK(copy[r])
    BY <1>1 DEF TriesInv, TypeOK, At
  <2> QED
    BY <2>1 DEF TriesInv, TypeOK, SessionOK, Session
<1>7. ASSUME NEW k \in Codes, tries'[k] # tries[k]
      PROVE  /\ k \in 1..Len(sms) /\ tries'[k] = tries[k] + 1
             /\ sms[k].to = Phone(r) /\ now <= sms[k].at + Expiration
  <2>1. k = copy[r].code /\ Asked(r) /\ Good(r) /\ tries'[k] = tries[k] + 1
    BY <1>5, <1>6, <1>7
  <2> QED
    BY <1>6, <2>1 DEF Asked, Good
<1>8. ASSUME NEW k \in 1..Len(sms), NEW p \in Phones, sms[k].to = p
      PROVE  /\ tries'[k] + Pending(p)' + Counted(p) <= tries[k] + Pending(p) + Counted(p)'
             /\ tries'[k] = tries[k] \/ now <= sms[k].at + Expiration
  <2>1. tries[k] \in Nat /\ k \in Codes
    BY MessageType DEF TriesInv
  <2>2. /\ Counted(p) \in Nat /\ Counted(p)' = Counted(p)
        /\ Pending(p) \in Nat /\ Pending(p)' \in Nat
    BY <1>3, PendingType, CountedNow DEF CountedOK, TriesInv
  <2>3. /\ Pending(p)' <= Pending(p)
        /\ Phone(r) = p => Pending(p)' = Pending(p) - 1
    <3>1. Phone(r) = p => r \in Trying(p)
      BY <1>1 DEF At, Phone, Trying, MayTry
    <3> QED
      BY <1>2, <3>1, PendingMoves DEF TriesInv
  <2>4. CASE tries'[k] = tries[k]
    BY <2>1, <2>2, <2>3, <2>4
  <2>5. CASE tries'[k] # tries[k]
    <3>1. /\ tries'[k] = tries[k] + 1 /\ Phone(r) = p /\ now <= sms[k].at + Expiration
      BY <1>7, <1>8, <2>1, <2>5
    <3> QED
      BY <2>1, <2>2, <2>3, <3>1
  <2> QED
    BY <2>4, <2>5
<1>9. ASSUME NEW k \in Codes, k > Len(sms)
      PROVE  tries'[k] = tries[k]
  <2>1. k \in Int
    BY DEF Codes
  <2> QED
    BY <1>6, <1>7, <1>9, <2>1
<1> QED
  BY <1>1, <1>4, <1>8, <1>9, WithinWindow

\* Steps that count no request to verify, let none begin to, and send nothing.
LEMMA UncountedTries ==
  ASSUME TriesInv, TypeOK', UNCHANGED <<now, sms, tries>>,
         \A s \in Spellings : Compared'[s] = Compared[s],
         \A p \in Phones : Pending(p)' <= Pending(p)
  PROVE  TriesInv'
<1>1. RateKept'
  BY DEF TriesInv, RateKept
<1>2. ASSUME NEW p \in Phones
      PROVE  Counted(p)' = Counted(p)
  <2> DEFINE a == Compared
             b == Compared'
  <2>1. \A x \in Spelled(p) : b[x] = a[x]
    BY SpelledFinite
  <2> HIDE DEF a, b
  <2>2. Total(Spelled(p), b) = Total(Spelled(p), a)
    BY <2>1, TotalSame
  <2> QED
    BY <2>2 DEF Counted, Spelled, a, b
<1>3. ASSUME NEW k \in 1..Len(sms), NEW p \in Phones
      PROVE  tries'[k] + Pending(p)' + Counted(p) <= tries[k] + Pending(p) + Counted(p)'
  <2>1. tries[k] \in Nat /\ tries'[k] = tries[k]
    BY MessageType DEF TriesInv
  <2>2. /\ Counted(p) \in Nat /\ Pending(p) \in Nat /\ Pending(p)' \in Nat
        /\ Pending(p)' <= Pending(p)
    BY PendingType, CountedNow DEF CountedOK, TriesInv
  <2> QED
    BY <1>2, <2>1, <2>2
<1> QED
  BY <1>1, <1>3, WithinWindow

LEMMA RestTries ==
  ASSUME TriesInv, TypeOK',
         \/ \E m \in Mutations, s \in Spellings : RateLimited(m, s)
         \/ UNCHANGED vars
  PROVE  TriesInv'
<1>1. \A p \in Phones : Pending(p)' <= Pending(p)
  <2>1. \A p \in Phones : Pending(p)' = Pending(p)
    BY DEF RateLimited, vars, Pending, Trying
  <2> QED
    BY <2>1, PendingType
<1>2. CASE \E m \in Mutations, s \in Spellings : RateLimited(m, s)
  <2>1. PICK m \in Mutations, s \in Spellings : RateLimited(m, s)
    BY <1>2
  <2>2. UNCHANGED <<now, sms, tries>> /\ hits' = [hits EXCEPT ![m][Ip] = @ + 1]
    BY <2>1 DEF RateLimited
  <2>3. hits \in [Mutations -> [Spellings \cup {Ip} -> Nat]] /\ "verifyCode" \in Mutations
    BY DEF TriesInv, TypeOK, Mutations
  <2>4. \A x \in Spellings : Compared'[x] = Compared[x]
    BY <2>2, <2>3, ConstantsAssumption DEF Compared
  <2> QED
    BY <1>1, <2>2, <2>4, UncountedTries
<1>3. CASE UNCHANGED vars
  BY <1>1, <1>3, UncountedTries DEF vars, Compared
<1> QED
  BY <1>2, <1>3

\* Steps of a request that are not counted.
LEMMA MoveTries ==
  ASSUME TriesInv, TypeOK', NEW r \in Requests,
         \/ \E s \in Spellings : Begin(r, "requestVerificationCode", s)
         \/ Load(r) \/ SendFails(r) \/ Save(r) \/ Crash(r)
  PROVE  /\ Compared' = Compared /\ UNCHANGED <<now, sms, tries>>
         /\ \A p \in Phones : Pending(p)' <= Pending(p)
<1> USE DEF TriesInv
<1>1. Compared' = Compared /\ UNCHANGED <<now, sms, tries>>
  BY DEF Begin, Count, Load, SendFails, Save, Crash, Compared, TypeOK, Mutations
<1>2. ASSUME NEW x, run' = [run EXCEPT ![r] = x], NEW p \in Phones,
             \/ x.pc \notin MayTry
             \/ At(r, "verifyCode") /\ x.phone = Phone(r)
      PROVE  Pending(p)' <= Pending(p)
  <2>1. ~(x.pc \in MayTry /\ x.phone = p) \/ r \in Trying(p)
    BY <1>2 DEF At, Phone, Trying, MayTry
  <2> QED
    BY <1>2, <2>1, PendingMoves
<1>3. ASSUME NEW label, Goto(r, label), At(r, "verifyCode") \/ label \notin MayTry,
             NEW p \in Phones
      PROVE  Pending(p)' <= Pending(p)
  <2> DEFINE x == [run[r] EXCEPT !.pc = label]
  <2>1. x.pc = label /\ x.phone = run[r].phone /\ run' = [run EXCEPT ![r] = x]
    BY <1>3 DEF Goto, TypeOK
  <2> HIDE DEF x
  <2> QED
    BY <1>2, <1>3, <2>1 DEF Phone
<1>4. ASSUME NEW s \in Spellings, Begin(r, "requestVerificationCode", s), NEW p \in Phones
      PROVE  Pending(p)' <= Pending(p)
  <2> DEFINE x == [pc |-> "requestVerificationCode", phone |-> PhoneOf[s]]
  <2>1. x.pc \notin MayTry
    BY DEF MayTry
  <2>2. UNCHANGED run \/ run' = [run EXCEPT ![r] = x]
    BY <1>4 DEF Begin
  <2> HIDE DEF x
  <2>3. CASE UNCHANGED run
    <3>1. Pending(p)' = Pending(p)
      BY <2>3 DEF Pending, Trying
    <3> QED
      BY <3>1, PendingType
  <2> QED
    BY <1>2, <2>1, <2>2, <2>3
<1>5. ASSUME Load(r), NEW p \in Phones
      PROVE  Pending(p)' <= Pending(p)
  <2> DEFINE label == IF At(r, "verifyCode") THEN "compare" ELSE "generate"
  <2>1. Goto(r, label) /\ (At(r, "verifyCode") \/ label \notin MayTry)
    BY <1>5 DEF Load, MayTry
  <2> HIDE DEF label
  <2> QED
    BY <1>3, <2>1
<1>6. ASSUME SendFails(r), NEW p \in Phones
      PROVE  Pending(p)' <= Pending(p)
  BY <1>3, <1>6 DEF SendFails, MayTry
<1>7. ASSUME Save(r) \/ Crash(r), NEW p \in Phones
      PROVE  Pending(p)' <= Pending(p)
  <2>1. run' = [run EXCEPT ![r] = Idle] /\ Idle.pc \notin MayTry
    BY <1>7 DEF Save, Crash, End, Idle, MayTry
  <2> QED
    BY <1>2, <2>1
<1> QED
  BY <1>1, <1>4, <1>5, <1>6, <1>7

\* A code that is sent has not been tried.
LEMMA SendTries ==
  ASSUME TriesInv, TypeOK', NEW r \in Requests, SendCode(r)
  PROVE  TriesInv'
<1>0. /\ Send(Phone(r)) /\ UNCHANGED <<now, hits, tries>> /\ At(r, "generate")
      /\ Phone(r) \in Phones /\ Compared' = Compared
  BY DEF SendCode, At, TriesInv, TypeOK, Compared
<1>1. /\ sms \in Seq([to : Phones, at : 0..MaxTime]) /\ Len(sms) \in Nat /\ now \in Nat
      /\ tries \in [Codes -> Nat]
  BY ConstantsAssumption DEF TriesInv, TypeOK
<1>2. Phone(r) \in Phones /\ now \in 0..MaxTime
  BY <1>0, ConstantsAssumption DEF TriesInv, TypeOK
<1>3. /\ Len(sms') = Len(sms) + 1 /\ sms'[Len(sms) + 1] = [to |-> Phone(r), at |-> now]
      /\ \A k \in 1..Len(sms) : sms'[k] = sms[k]
  BY <1>0, <1>1, <1>2 DEF Send
<1>4. RateKept'
  BY <1>0 DEF TriesInv, RateKept
<1>5. \A p \in Phones : /\ Counted(p)' = Counted(p) /\ Allowed(p)' = Allowed(p)
                        /\ Pending(p) \in Nat /\ Pending(p)' \in Nat
                        /\ Pending(p)' <= Pending(p) /\ Pending(p)' <= Early
  <2>1. \A p \in Phones : Counted(p)' = Counted(p) /\ Allowed(p)' = Allowed(p)
    BY <1>0 DEF Counted, Allowed, Spelled
  <2>2. /\ run' = [run EXCEPT ![r] = [run[r] EXCEPT !.pc = "save"]]
        /\ [run[r] EXCEPT !.pc = "save"].pc = "save" /\ run'[r].pc = "save"
    BY DEF SendCode, Goto, TriesInv, TypeOK
  <2>3. ASSUME NEW p \in Phones
        PROVE  Pending(p)' <= Pending(p)
    BY <2>2, PendingMoves DEF TriesInv, MayTry
  <2>4. ASSUME NEW p \in Phones
        PROVE  Pending(p)' <= Early
    <3>1. Trying(p)' \subseteq Requests \ {r}
      BY <2>2 DEF Trying, MayTry
    <3>2. /\ IsFiniteSet(Requests \ {r}) /\ r \in Requests /\ IsFiniteSet(Requests)
          /\ Cardinality(Requests \ {r}) = Cardinality(Requests) - 1
      BY ConstantsAssumption, FS_RemoveElement
    <3>3. Cardinality(Trying(p)') <= Cardinality(Requests \ {r})
      BY <3>1, <3>2, FS_Subset
    <3> QED
      BY <3>2, <3>3 DEF Pending, Early
  <2> QED
    BY <2>1, <2>3, <2>4, PendingType
<1>6. ASSUME NEW k \in 1..Len(sms)
      PROVE  CodeTries(k)'
  <2>1. sms[k].to \in Phones /\ sms'[k] = sms[k]
    BY <1>3, MessageType DEF TriesInv
  <2> DEFINE p == sms[k].to
             at == sms[k].at
             A == Allowed(p)
             C == Counted(p)
             W == Pending(p)
             X == A * (now - at)
             D == Counted(p)'
             V == Pending(p)'
  <2>2. /\ at \in Nat /\ tries[k] \in Nat /\ A \in Nat /\ C \in Nat /\ W \in Nat
        /\ Expiration \in Nat /\ Early \in Int /\ X \in Int
    <3>1. /\ at \in Nat /\ tries[k] \in Nat /\ A \in Nat /\ C \in Nat /\ Expiration \in Nat
      BY MessageType DEF TriesInv
    <3>2. W \in Nat /\ Early \in Int
      BY PendingType
    <3>3. X \in Int
      BY <1>1, <3>1
    <3> QED
      BY <3>1, <3>2, <3>3
  <2>3. p' = p /\ at' = at /\ A' = A /\ now' = now /\ tries' = tries /\ Early' = Early
    BY <1>0, <2>1 DEF Allowed, Spelled, Early
  <2>4. D = C /\ V \in Nat /\ V <= W
    BY <1>5, <2>1, <2>3
  <2>5. /\ at <= now
        /\ now <= at + Expiration => tries[k] + W <= X + C + Early
        /\ now > at + Expiration => tries[k] <= A * (Expiration + 1) + Early
    BY DEF TriesInv, CodeTries
  <2> HIDE DEF p, at, A, C, W, X, D, V
  <2>6. now <= at + Expiration => tries[k] + V <= X + D + Early
    BY <1>1, <2>2, <2>4, <2>5
  <2>7. /\ at' <= now'
        /\ now' <= at' + Expiration => tries'[k] + V <= A' * (now' - at') + D + Early'
        /\ now' > at' + Expiration => tries'[k] <= A' * (Expiration + 1) + Early'
    BY <2>3, <2>5, <2>6 DEF X
  <2> QED
    BY <2>7 DEF CodeTries, p, at, A, D, V
<1>7. ASSUME NEW k \in 1..Len(sms'), k = Len(sms) + 1
      PROVE  CodeTries(k)'
  <2>0. PICK p \in Phones : p = Phone(r)
    BY <1>0
  <2>1. sms'[k].to = p /\ sms'[k].at = now /\ now' = now /\ p \in Phones
    BY <1>0, <1>3, <1>7, <2>0
  <2>2. k \in Codes /\ tries'[k] = 0
    BY <1>0, <1>1, <1>3, <1>7 DEF TriesInv, TypeOK, Codes
  <2>3. /\ Allowed(p)' = Allowed(p) /\ Allowed(p) \in Nat /\ Counted(p)' \in Nat
        /\ Pending(p)' \in Nat /\ Pending(p)' <= Early /\ Early \in Int /\ Early' = Early
    BY <1>5, <2>1, SpelledFinite, PendingType, CountedNow DEF CountedOK, TriesInv, Early
  <2>4. tries'[k] + Pending(p)' <= Allowed(p) * (now - now) + Counted(p)' + Early
    BY <1>1, <2>2, <2>3
  <2>5. now <= now + Expiration /\ ~(now > now + Expiration)
    BY <1>1, ConstantsAssumption
  <2> QED
    BY <1>1, <2>1, <2>3, <2>4, <2>5 DEF CodeTries
<1>8. \A k \in 1..Len(sms') : CodeTries(k)'
  BY <1>1, <1>3, <1>6, <1>7
<1>9. \A k \in Codes : k > Len(sms)' => tries'[k] = 0
  BY <1>0, <1>1, <1>3 DEF TriesInv, Codes
<1> QED
  BY <1>4, <1>8, <1>9 DEF TriesInv

LEMMA OneMore ==
  ASSUME NEW a \in Int, NEW d \in Int
  PROVE  a * (d + 1) = a * d + a
OBVIOUS

\* A window ends: what it counted is no more than it may count.
LEMMA TickTries ==
  ASSUME TriesInv, TypeOK', Tick
  PROVE  TriesInv'
<1>1. UNCHANGED <<sms, tries>> /\ now' = now + 1 /\ now \in Nat
  BY ConstantsAssumption DEF Tick, TriesInv, TypeOK
<1>2. \A s \in Spellings : Compared'[s] = 0
  BY DEF Tick, Compared, Mutations
<1>3. RateKept'
  BY <1>2, ConstantsAssumption DEF RateKept
<1>4. ASSUME NEW k \in 1..Len(sms)
      PROVE  CodeTries(k)'
  <2> DEFINE p == sms[k].to
             at == sms[k].at
             A == Allowed(p)
             C == Counted(p)
             W == Pending(p)
             X == A * (now - at)
             D == Counted(p)'
             V == Pending(p)'
  <2>1. /\ A \in Nat /\ C \in Nat /\ at \in Nat /\ tries[k] \in Nat /\ Expiration \in Nat
        /\ W \in Nat /\ Early \in Int /\ X \in Int
    <3>1. /\ A \in Nat /\ C \in Nat /\ at \in Nat /\ tries[k] \in Nat /\ Expiration \in Nat
      BY MessageType DEF TriesInv
    <3>2. W \in Nat /\ Early \in Int
      BY PendingType
    <3>3. X \in Int
      BY <1>1, <3>1
    <3> QED
      BY <3>1, <3>2, <3>3
  <2>2. C <= A
    BY MessageType, CountedNow DEF CountedOK, TriesInv
  <2>3. p' = p /\ at' = at /\ A' = A /\ tries' = tries /\ Early' = Early /\ p' \in Phones
    BY <1>1, MessageType DEF Allowed, Spelled, Early, TriesInv
  <2>4. D \in Nat /\ V = W
    <3>1. D \in Nat
      BY <2>3, CountedNext DEF CountedOK
    <3>2. V = W
      BY <1>1 DEF Tick, Pending, Trying
    <3> QED
      BY <3>1, <3>2
  <2>5. /\ at <= now
        /\ now <= at + Expiration => tries[k] + W <= X + C + Early
        /\ now > at + Expiration => tries[k] <= A * (Expiration + 1) + Early
    BY DEF TriesInv, CodeTries
  <2>6. A * (now + 1 - at) = X + A
    <3>1. now + 1 - at = (now - at) + 1 /\ now - at \in Int /\ A \in Int
      BY <1>1, <2>1
    <3> QED
      BY <3>1, OneMore
  <2>7. at + Expiration = now => X + A = A * (Expiration + 1)
    <3>1. CASE at + Expiration = now
      <4>1. now - at = Expiration
        BY <1>1, <2>1, <3>1
      <4>2. X + A = A * Expiration + A
        BY <4>1
      <4> QED
        BY <2>1, <4>2
    <3> QED
      BY <3>1
  <2> DEFINE Y == A * (Expiration + 1)
             Z == A * (now + 1 - at)
  <2>8. Y \in Int /\ Z = X + A
    BY <2>1, <2>6
  <2> HIDE DEF p, at, A, C, W, X, D, V, Y, Z
  <2>9. now <= at + Expiration => tries[k] + W <= X + A + Early
    BY <1>1, <2>1, <2>2, <2>5
  <2>10. now + 1 <= at + Expiration => tries[k] + V <= Z + D + Early
    BY <1>1, <2>1, <2>4, <2>8, <2>9
  <2>11. now + 1 > at + Expiration => tries[k] <= Y + Early
    <3>1. CASE now > at + Expiration
      BY <2>5, <3>1 DEF Y
    <3>2. CASE at + Expiration = now
      <4>1. X + A = Y
        BY <2>7, <3>2 DEF Y
      <4>2. now <= at + Expiration
        BY <1>1, <3>2
      <4> QED
        BY <2>1, <2>8, <2>9, <4>1, <4>2
    <3> QED
      BY <1>1, <2>1, <3>1, <3>2
  <2>12. /\ at' <= now'
         /\ now' <= at' + Expiration => tries'[k] + V <= A' * (now' - at') + D + Early'
         /\ now' > at' + Expiration => tries'[k] <= A' * (Expiration + 1) + Early'
    <3>1. at <= now + 1
      BY <1>1, <2>1, <2>5
    <3>2. A' * (now' - at') = Z /\ A' * (Expiration + 1) = Y
      <4>1. now' - at' = now + 1 - at
        BY <1>1, <2>1, <2>3
      <4> QED
        BY <2>3, <4>1, Zenon DEF Y, Z
    <3>3. at' = at /\ now' = now + 1 /\ tries'[k] = tries[k] /\ Early' = Early
      BY <1>1, <2>3
    <3> QED
      BY <2>10, <2>11, <3>1, <3>2, <3>3
  <2> QED
    BY <2>12 DEF CodeTries, p, at, A, D, V
<1> QED
  BY <1>1, <1>3, <1>4 DEF TriesInv

\* The account of the tries is an invariant.
THEOREM TriesInvariance == Spec => []TriesInv
<1>1. Init /\ TypeOK => TriesInv
  <2> SUFFICES ASSUME Init, TypeOK PROVE TriesInv
    OBVIOUS
  <2>1. \A s \in Spellings : Compared[s] = 0
    BY DEF Init, Compared, Mutations
  <2>2. RateKept
    BY <2>1, ConstantsAssumption DEF RateKept
  <2> QED
    BY <2>2 DEF Init, TriesInv
<1>2. TriesInv /\ TypeOK' /\ [Next]_vars => TriesInv'
  <2> SUFFICES ASSUME TriesInv, TypeOK', [Next]_vars PROVE TriesInv'
    OBVIOUS
  <2>1. ASSUME NEW r \in Requests, NEW m \in Mutations, NEW s \in Spellings, Begin(r, m, s)
        PROVE  TriesInv'
    <3>1. CASE m = "verifyCode"
      BY <2>1, <3>1, BeginTries
    <3>2. CASE m = "requestVerificationCode"
      BY <2>1, <3>2, MoveTries, UncountedTries
    <3> QED
      BY <3>1, <3>2 DEF Mutations
  <2>2. ASSUME NEW r \in Requests, Load(r) \/ SendFails(r) \/ Save(r) \/ Crash(r)
        PROVE  TriesInv'
    BY <2>2, MoveTries, UncountedTries
  <2>3. ASSUME NEW r \in Requests, SendCode(r)
        PROVE  TriesInv'
    BY <2>3, SendTries
  <2>4. ASSUME NEW r \in Requests, NEW k \in 0..Len(sms), Compare(r, k)
        PROVE  TriesInv'
    BY <2>4, CompareTries
  <2>5. CASE \/ \E m \in Mutations, s \in Spellings : RateLimited(m, s)
             \/ UNCHANGED vars
    BY <2>5, RestTries
  <2> QED
    BY <2>1, <2>2, <2>3, <2>4, <2>5, TickTries DEF Next
<1> QED
  BY <1>1, <1>2, TypeCorrect, PTL DEF Spec

\* However requests overlap and copies of the session are lost, a code is compared with no
\* more guesses than the rate limit lets through while it lives, and those of the requests
\* that were counted before it was sent (verify_code, ratelimit).
THEOREM BoundedTries == Spec => []TriesBounded
<1>1. TriesInv => TriesBounded
  <2> SUFFICES ASSUME TriesInv, NEW k \in 1..Len(sms)
               PROVE  tries[k] <= PhoneRate * (Expiration + 1) * Cardinality(Spelled(sms[k].to))
                                    + Cardinality(Requests) - 1
    BY DEF TriesBounded
  <2> DEFINE A == Allowed(sms[k].to)
             N == Cardinality(Spelled(sms[k].to))
             at == sms[k].at
             C == Counted(sms[k].to)
             W == Pending(sms[k].to)
             X == A * (now - at)
             Y == A * (Expiration + 1)
  <2>1. /\ A \in Nat /\ C \in Nat /\ at \in Nat /\ tries[k] \in Nat /\ Expiration \in Nat
        /\ now \in Nat /\ W \in Nat /\ Early \in Int /\ Cardinality(Requests) \in Nat
    BY MessageType, PendingType, FS_CardinalityType, ConstantsAssumption DEF TriesInv
  <2>2. C <= A /\ N \in Nat /\ A = PhoneRate * N /\ PhoneRate \in Nat
    BY MessageType, CountedNow, SpelledFinite, ConstantsAssumption DEF CountedOK, TriesInv, Allowed
  <2>3. /\ at <= now
        /\ now <= at + Expiration => tries[k] + W <= X + C + Early
        /\ now > at + Expiration => tries[k] <= Y + Early
    BY DEF TriesInv, CodeTries
  <2> HIDE DEF A, N, at, C, W
  <2>4. tries[k] <= Y + Early
    <3>1. CASE now <= at + Expiration
      <4> DEFINE d == Expiration - (now - at)
      <4>1. d \in Nat /\ A * d >= 0 /\ A * d \in Int /\ X \in Int
        BY <2>1, <2>3, <3>1
      <4>2. Y = X + A * d + A
        BY <2>1
      <4> DEFINE e == A * d
      <4> HIDE DEF d, e, X, Y
      <4> QED
        BY <2>1, <2>2, <2>3, <3>1, <4>1, <4>2 DEF e
    <3> QED
      BY <2>1, <2>3, <3>1
  <2>5. Y = PhoneRate * (Expiration + 1) * N
    BY <2>1, <2>2
  <2> HIDE DEF Y
  <2> QED
    BY <2>1, <2>4, <2>5 DEF N, Early
<1> QED
  BY <1>1, TriesInvariance, PTL
=============================================================================
