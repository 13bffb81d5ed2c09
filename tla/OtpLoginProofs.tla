-------------------------- MODULE OtpLoginProofs --------------------------
(***************************************************************************)
(* Theorems about OtpLogin, for any calls, codes, limits and clock: the    *)
(* inductive invariant Inv, and what follows from it.                      *)
(***************************************************************************)
EXTENDS OtpLogin, FiniteSetTheorems, TLAPS

\* What no step does to a row that exists.
Worn(i) ==
    otps[i] # NoOtp =>
        /\ otps'[i] # NoOtp
        /\ otps[i].isUsed => otps'[i].isUsed
        /\ otps'[i].attempts >= otps[i].attempts
        /\ otps'[i].code = otps[i].code
        /\ otps'[i].createdAt = otps[i].createdAt
        /\ otps'[i].expiresAt = otps[i].expiresAt

\* A step of one call leaves the others where they are.
LEMMA Frame ==
    ASSUME TypeOK, NEW c \in Call, Step(c), NEW d \in Call, d # c
    PROVE  /\ pc'[d] = pc[d] /\ outcome'[d] = outcome[d]
           /\ otp'[d] = otp[d] /\ channel'[d] = channel[d] /\ before'[d] = before[d]
BY DEF TypeOK, Step, StartSignup, CheckEmail, CreateUser, StartRenewal, Invalidate, CreateOtp,
       Deliver, StartVerify, LookUp, Check, Increment, MarkUsed, FindUser, StoreTokens, Fails,
       Goto, Return, ToChannel

\* The requests never change.
LEMMA RequestStays == ASSUME [Next]_vars PROVE request' = request
BY DEF Next, vars, Step, StartSignup, CheckEmail, CreateUser, StartRenewal, Invalidate, CreateOtp,
       Deliver, StartVerify, LookUp, Check, Increment, MarkUsed, FindUser, StoreTokens, Fails,
       DeleteMe, Tick

LEMMA RequestTypes ==
    ASSUME TypeOK, NEW c \in Call
    PROVE  /\ request[c].kind \in Kind
           /\ request[c].channel \in Channel
           /\ request[c].code \in Code
           /\ request[c].kind \in {"signup", "login"} => request[c].channel = "phone"
BY DEF TypeOK, Request

LEMMA InitInv == Init => Inv
<1> SUFFICES ASSUME Init PROVE Inv
  OBVIOUS
<1>1. TypeOK
  BY DEF Init, TypeOK, Label, Outcomes, Request
<1>2. \A c \in Call : /\ Running(c) /\ RowsToCome(c) /\ ReadARow(c)
                      /\ ~Passed(c) /\ ~Created(c)
                      /\ KindAt(c) /\ Renewed(c) /\ Judged(c)
  BY DEF Init, Running, RowsToCome, ReadARow, Passed, Created, OtpId, Request, KindAt, Renewed,
         Judged
<1>3. OneAccount
  BY <1>2 DEF OneAccount
<1>4. \A i \in OtpId : otps[i] = NoOtp
  BY DEF Init
<1> QED
  BY <1>1, <1>2, <1>3, <1>4 DEF Inv, WrongCounted

(***************************************************************************)
(* Types.                                                                  *)
(***************************************************************************)
LEMMA ReturnTypes ==
    ASSUME TypeOK, NEW c \in Call, NEW o \in Outcomes, Return(c, o)
    PROVE  pc' \in [Call -> Label] /\ outcome' \in [Call -> Outcomes]
BY DEF TypeOK, Return, Label

LEMMA GotoTypes ==
    ASSUME TypeOK, NEW c \in Call, NEW l \in Label, Goto(c, l)
    PROVE  pc' \in [Call -> Label] /\ outcome' \in [Call -> Outcomes]
BY DEF TypeOK, Goto

LEMMA StepPcTypes ==
    ASSUME TypeOK, NEW c \in Call, Step(c)
    PROVE  pc' \in [Call -> Label] /\ outcome' \in [Call -> Outcomes]
BY DEF TypeOK, Step, StartSignup, CheckEmail, CreateUser, StartRenewal, Invalidate, CreateOtp,
       Deliver, StartVerify, LookUp, Check, Increment, MarkUsed, FindUser, StoreTokens, Fails,
       Goto, Return, Label, Outcomes

LEMMA StepChannelTypes ==
    ASSUME TypeOK, NEW c \in Call, Step(c)
    PROVE  channel' \in [Call -> Channel]
<1>1. "phone" \in Channel /\ (HasEmail => "email" \in Channel)
  BY DEF Channel
<1>2. request[c].channel \in Channel
  BY RequestTypes
<1>3. ASSUME NEW ch \in Channel, ToChannel(c, ch) PROVE channel' \in [Call -> Channel]
  BY <1>3 DEF ToChannel, TypeOK
<1>4. CASE CreateUser(c)
  BY <1>1, <1>3, <1>4 DEF CreateUser, TypeOK
<1>5. CASE StartRenewal(c)
  <2>1. (IF Is(c, "login") THEN "phone" ELSE request[c].channel) \in Channel
    BY <1>1, <1>2
  <2> QED
    BY <1>3, <1>5, <2>1 DEF StartRenewal, TypeOK
<1>6. CASE CreateOtp(c)
  BY <1>1, <1>3, <1>6 DEF CreateOtp, TypeOK
<1> QED
  BY <1>4, <1>5, <1>6 DEF TypeOK, Step, StartSignup, CheckEmail, Invalidate,
       Deliver, StartVerify, LookUp, Check, Increment, MarkUsed, FindUser, StoreTokens, Fails

LEMMA CodesTypes == ASSUME NEW c \in Call PROVE CodesFor(c) \subseteq Code
BY CodeAssumption DEF CodesFor

LEMMA RecordTypes ==
    ASSUME NEW r \in Otp
    PROVE  /\ [r EXCEPT !.isUsed = TRUE] \in Otp
           /\ [r EXCEPT !.attempts = @ + 1] \in Otp
<1>1. r.attempts + 1 \in Nat /\ TRUE \in BOOLEAN
  BY DEF Otp
<1>2. [r EXCEPT !.isUsed = TRUE] \in Otp
  BY <1>1 DEF Otp
<1>3. ASSUME NEW n \in Nat PROVE [r EXCEPT !.attempts = n] \in Otp
  BY DEF Otp
<1> QED
  BY <1>1, <1>2, <1>3

\* The rows and the readings, for each action that touches them.
LEMMA StepOtpTypes ==
    ASSUME Inv, NEW c \in Call, Step(c)
    PROVE  /\ otps' \in [OtpId -> Otp \cup {NoOtp}]
           /\ otp' \in [Call -> [id : OtpId, row : Otp] \cup {NoRead}]
<1> USE DEF Inv
<1>1. CASE Invalidate(c)
  <2>1. \A i \in OtpId : otps'[i] \in Otp \cup {NoOtp}
    BY <1>1, RecordTypes DEF Invalidate, TypeOK
  <2> QED
    BY <1>1, <2>1 DEF Invalidate, TypeOK
<1>2. CASE CreateOtp(c)
  <2>1. PICK code \in CodesFor(c) :
          otps' = [otps EXCEPT ![<<c, channel[c]>>] =
                     [code |-> code, attempts |-> 0, isUsed |-> FALSE,
                      createdAt |-> now, expiresAt |-> expiresAt[c]]]
    BY <1>2 DEF CreateOtp
  <2>2. [code |-> code, attempts |-> 0, isUsed |-> FALSE,
         createdAt |-> now, expiresAt |-> expiresAt[c]] \in Otp
    BY CodesTypes DEF Otp, TypeOK
  <2> QED
    BY <1>2, <2>1, <2>2 DEF CreateOtp, TypeOK
<1>3. CASE LookUp(c)
  <2>1. \A i \in Latest(Candidates(request[c].channel)) : i \in OtpId /\ otps[i] \in Otp
    BY DEF Latest, Candidates, Unused, TypeOK
  <2> QED
    BY <1>3, <2>1 DEF LookUp, TypeOK
<1>4. CASE Increment(c) \/ MarkUsed(c)
  <2>1. otp[c].id \in OtpId /\ otps[otp[c].id] \in Otp
    BY <1>4 DEF Increment, MarkUsed, ReadARow, TypeOK
  <2>2. /\ [otps[otp[c].id] EXCEPT !.isUsed = TRUE] \in Otp
        /\ [otps[otp[c].id] EXCEPT !.attempts = @ + 1] \in Otp
    BY <2>1, RecordTypes
  <2> QED
    BY <1>4, <2>1, <2>2 DEF Increment, MarkUsed, TypeOK
<1> QED
  BY <1>1, <1>2, <1>3, <1>4 DEF TypeOK, Step, StartSignup, CheckEmail, CreateUser, StartRenewal,
       Deliver, StartVerify, Check, FindUser, StoreTokens, Fails

LEMMA StepBeforeTypes ==
    ASSUME TypeOK, NEW c \in Call, Step(c)
    PROVE  before' \in [Call -> SUBSET OtpId] /\ expiresAt' \in [Call -> Nat]
<1>0. now + Expiry \in Nat
  BY NumberAssumption DEF TypeOK
<1>3. CASE CreateUser(c)
  BY <1>0, <1>3 DEF CreateUser, SetExpiry, TypeOK
<1>1. CASE StartRenewal(c)
  BY <1>0, <1>1 DEF StartRenewal, SetExpiry, TypeOK
<1>2. CASE StartVerify(c)
  BY <1>2 DEF StartVerify, TypeOK
<1> QED
  BY <1>1, <1>2, <1>3 DEF TypeOK, Step, StartSignup, CheckEmail, Invalidate, CreateOtp,
       Deliver, LookUp, Check, Increment, MarkUsed, FindUser, StoreTokens, Fails

LEMMA TypesStep == Inv /\ [Next]_vars => TypeOK'
<1> SUFFICES ASSUME Inv, [Next]_vars PROVE TypeOK'
  OBVIOUS
<1>1. ASSUME NEW c \in Call, Step(c) PROVE TypeOK'
  <2>1. account' \in {"none", "active", "suspended", "deleted"} /\ now' \in Nat
    BY <1>1 DEF Inv, TypeOK, Step, StartSignup, CheckEmail, CreateUser, StartRenewal, Invalidate,
       CreateOtp, Deliver, StartVerify, LookUp, Check, Increment, MarkUsed, FindUser, StoreTokens,
       Fails
  <2> QED
    BY <1>1, <2>1, StepPcTypes, StepChannelTypes, StepOtpTypes, StepBeforeTypes, RequestStays
       DEF Inv, TypeOK
<1>2. CASE DeleteMe
  BY <1>2 DEF DeleteMe, Inv, TypeOK
<1>3. CASE Tick
  BY <1>3 DEF Tick, Inv, TypeOK
<1>4. CASE UNCHANGED vars
  BY <1>4 DEF vars, Inv, TypeOK
<1> QED
  BY <1>1, <1>2, <1>3, <1>4 DEF Next

(***************************************************************************)
(* Rows only wear.                                                         *)
(***************************************************************************)
LEMMA WearStep ==
    ASSUME Inv, [Next]_vars, NEW i \in OtpId
    PROVE  Worn(i)
<1> SUFFICES ASSUME otps[i] # NoOtp PROVE Worn(i)
  BY DEF Worn
<1>0. /\ otps[i] \in Otp /\ otps[i].attempts \in Nat
      /\ otps \in [OtpId -> Otp \cup {NoOtp}]
  BY DEF Inv, TypeOK, Otp
<1>1. CASE UNCHANGED otps
  BY <1>0, <1>1 DEF Worn
<1>2. ASSUME NEW c \in Call, Invalidate(c) PROVE Worn(i)
  <2>1. otps'[i] = otps[i] \/ otps'[i] = [otps[i] EXCEPT !.isUsed = TRUE]
    BY <1>2 DEF Invalidate
  <2>2. otps'[i] \in Otp
    BY <1>0, <2>1, RecordTypes
  <2> QED
    BY <1>0, <2>1, <2>2, NoOtpAssumption DEF Worn, Otp
<1>3. ASSUME NEW c \in Call, CreateOtp(c) PROVE Worn(i)
  <2>1. otps[<<c, channel[c]>>] = NoOtp
    BY <1>3 DEF Inv, RowsToCome, CreateOtp
  <2>2. otps'[i] = otps[i]
    BY <1>0, <1>3, <2>1 DEF CreateOtp
  <2> QED
    BY <1>0, <2>2 DEF Worn
<1>4. ASSUME NEW c \in Call, Increment(c) \/ MarkUsed(c) PROVE Worn(i)
  <2>1. \/ otps'[i] = otps[i]
        \/ otps'[i] = [otps[i] EXCEPT !.isUsed = TRUE]
        \/ otps'[i] = [otps[i] EXCEPT !.attempts = @ + 1]
    BY <1>0, <1>4 DEF Increment, MarkUsed
  <2>2. otps'[i] \in Otp
    BY <1>0, <2>1, RecordTypes
  <2> QED
    BY <1>0, <2>1, <2>2, NoOtpAssumption DEF Worn, Otp
<1>5. ASSUME NEW c \in Call, Step(c) PROVE Worn(i)
  BY <1>1, <1>2, <1>3, <1>4, <1>5 DEF Step, StartSignup, CheckEmail, CreateUser, StartRenewal,
       Deliver, StartVerify, LookUp, Check, FindUser, StoreTokens, Fails
<1> QED
  BY <1>1, <1>5 DEF Next, DeleteMe, Tick, vars

\* A row that a step inserts is one of the call that takes the step.
LEMMA NewRows ==
    ASSUME Inv, NEW c \in Call, Step(c), NEW i \in OtpId, otps[i] = NoOtp, otps'[i] # NoOtp
    PROVE  CreateOtp(c) /\ i = <<c, channel[c]>>
<1>0. otps \in [OtpId -> Otp \cup {NoOtp}]
  BY DEF Inv, TypeOK
<1>1. CASE Invalidate(c)
  BY <1>1 DEF Invalidate
<1>2. CASE CreateOtp(c)
  BY <1>0, <1>2 DEF CreateOtp
<1>3. CASE Increment(c) \/ MarkUsed(c)
  <2>1. otp[c].id \in OtpId /\ otps[otp[c].id] # NoOtp
    BY <1>3 DEF Inv, ReadARow, Increment, MarkUsed
  <2> QED
    BY <1>0, <1>3, <2>1 DEF Increment, MarkUsed
<1> QED
  BY <1>1, <1>2, <1>3 DEF Step, StartSignup, CheckEmail, CreateUser, StartRenewal,
       Deliver, StartVerify, LookUp, Check, FindUser, StoreTokens, Fails

(***************************************************************************)
(* The call that a step does not move.                                     *)
(***************************************************************************)
CallInv(c) ==
    /\ Running(c)
    /\ RowsToCome(c)
    /\ ReadARow(c)
    /\ Passed(c) => Bypass(c) \/ Spent(c)
    /\ Created(c) => account # "none"

\* A row that was spent for a call stays so.
LEMMA SpentStays ==
    ASSUME Inv, [Next]_vars, NEW d \in Call, Spent(d), otp'[d] = otp[d]
    PROVE  Spent(d)'
<1>1. PICK i \in OtpId : /\ otp[d].id = i
                         /\ otps[i] # NoOtp /\ otps[i].isUsed
                         /\ otps[i].code = request[d].code
                         /\ i[2] = request[d].channel
  BY DEF Spent
<1>2. Worn(i)
  BY WearStep
<1>3. /\ otp'[d].id = i
      /\ otps'[i] # NoOtp /\ otps'[i].isUsed
      /\ otps'[i].code = request'[d].code
      /\ i[2] = request'[d].channel
  BY <1>1, <1>2, RequestStays DEF Worn
<1> QED
  BY <1>3 DEF Spent

\* A sign-up that exists keeps its account.
LEMMA AccountStays ==
    ASSUME Inv, [Next]_vars, account # "none"
    PROVE  account' # "none"
BY DEF Next, vars, Step, StartSignup, CheckEmail, CreateUser, StartRenewal, Invalidate, CreateOtp,
       Deliver, StartVerify, LookUp, Check, Increment, MarkUsed, FindUser, StoreTokens, Fails,
       DeleteMe, Tick

LEMMA RestCallInv ==
    ASSUME Inv, [Next]_vars, NEW d \in Call,
           pc'[d] = pc[d], outcome'[d] = outcome[d], otp'[d] = otp[d], channel'[d] = channel[d],
           \A ch \in Channel : otps[<<d, ch>>] = NoOtp => otps'[<<d, ch>>] = NoOtp
    PROVE  CallInv(d)'
<1>0. request' = request /\ CallInv(d)
  BY RequestStays DEF Inv, CallInv
<1>1. Running(d)'
  BY <1>0 DEF CallInv, Running
<1>2. RowsToCome(d)'
  BY <1>0 DEF CallInv, RowsToCome, Inv, TypeOK
<1>3. ReadARow(d)'
  <2>1. CASE otp[d] = NoRead
    BY <1>0, <2>1 DEF CallInv, ReadARow
  <2>2. CASE otp[d] # NoRead
    <3>1. otp[d].id \in OtpId /\ otps[otp[d].id] # NoOtp
      BY <1>0, <2>2 DEF CallInv, ReadARow
    <3>2. Worn(otp[d].id)
      BY <3>1, WearStep
    <3> QED
      BY <1>0, <2>2, <3>1, <3>2 DEF CallInv, ReadARow, Worn
  <2> QED
    BY <2>1, <2>2
<1>4. (Passed(d) => Bypass(d) \/ Spent(d))'
  BY <1>0, SpentStays DEF CallInv, Passed, Bypass
<1>5. (Created(d) => account # "none")'
  BY <1>0, AccountStays DEF CallInv, Created, Is
<1> QED
  BY <1>1, <1>2, <1>3, <1>4, <1>5 DEF CallInv

LEMMA OtherCallInv ==
    ASSUME Inv, NEW c \in Call, Step(c), NEW d \in Call, d # c
    PROVE  CallInv(d)'
<1>1. \A ch \in Channel : otps[<<d, ch>>] = NoOtp => otps'[<<d, ch>>] = NoOtp
  BY NewRows DEF OtpId
<1>2. [Next]_vars
  BY DEF Next
<1>3. TypeOK
  BY DEF Inv
<1> QED
  BY <1>1, <1>2, <1>3, Frame, RestCallInv

(***************************************************************************)
(* The call that a step moves.                                             *)
(***************************************************************************)
\* A call that has read nothing, or ends with what it read, keeps ReadARow.
LEMMA ReadStays ==
    ASSUME Inv, [Next]_vars, NEW c \in Call, otp'[c] = otp[c], otp[c] # NoRead
    PROVE  /\ otp'[c].id \in OtpId
           /\ otps'[otp'[c].id] # NoOtp
           /\ otps'[otp'[c].id].code = otp'[c].row.code
           /\ otp'[c].id[2] = request'[c].channel
<1>1. /\ otp[c].id \in OtpId /\ otps[otp[c].id] # NoOtp
      /\ otps[otp[c].id].code = otp[c].row.code
      /\ otp[c].id[2] = request[c].channel
  BY DEF Inv, ReadARow
<1>2. Worn(otp[c].id)
  BY <1>1, WearStep
<1> QED
  BY <1>1, <1>2, RequestStays DEF Worn

\* A call that ends without tokens and without an account of its own.
LEMMA EndsInv ==
    ASSUME Inv, [Next]_vars, NEW c \in Call, NEW o \in Outcomes, Return(c, o), otp' = otp,
           o # "tokens", o = "sent" => ~Is(c, "signup")
    PROVE  CallInv(c)'
<1>0. pc'[c] = "done" /\ outcome'[c] = o /\ request' = request /\ otp'[c] = otp[c]
  BY RequestStays DEF Return, Inv, TypeOK
<1>1. Running(c)' /\ RowsToCome(c)' /\ ~Passed(c)' /\ ~Created(c)'
  BY <1>0 DEF Running, RowsToCome, Passed, Created, Is
<1>2. ReadARow(c)'
  BY <1>0, ReadStays DEF ReadARow
<1> QED
  BY <1>1, <1>2 DEF CallInv

\* A call that goes on before it has read a row or inserted an account.
LEMMA GoesOnInv ==
    ASSUME Inv, [Next]_vars, NEW c \in Call, NEW l \in Label, Goto(c, l), otp' = otp,
           l \in {"check_email", "create_user", "invalidate", "look_up"},
           pc[c] \in {"start", "check_email"},
           channel'[c] \in Channel, otps' = otps
    PROVE  CallInv(c)'
<1>0. /\ pc'[c] = l /\ outcome'[c] = outcome[c] /\ request' = request /\ otp'[c] = otp[c]
      /\ CallInv(c) /\ outcome[c] = "none" /\ otp[c] = NoRead
  BY RequestStays DEF Goto, Inv, TypeOK, CallInv, Running, ReadARow
<1>1. \A ch \in Channel : otps'[<<c, ch>>] = NoOtp
  BY <1>0 DEF CallInv, RowsToCome
<1>2. RowsToCome(c)'
  BY <1>0, <1>1 DEF RowsToCome
<1>3. Running(c)' /\ ReadARow(c)' /\ ~Passed(c)' /\ ~Created(c)'
  BY <1>0 DEF Running, ReadARow, Passed, Created, Is
<1> QED
  BY <1>2, <1>3 DEF CallInv

LEMMA ChannelFacts ==
    ASSUME TypeOK, NEW c \in Call
    PROVE  channel[c] \in Channel /\ "phone" \in Channel
BY DEF TypeOK, Channel

LEMMA SignupInv ==
    ASSUME Inv, NEW c \in Call, StartSignup(c) \/ CheckEmail(c) \/ CreateUser(c)
    PROVE  CallInv(c)'
<1>0. [Next]_vars /\ TypeOK /\ Running(c) /\ RowsToCome(c) /\ ReadARow(c)
  BY DEF Next, Step, Inv
<1>1. CASE StartSignup(c)
  BY <1>0, <1>1, EndsInv, GoesOnInv, ChannelFacts DEF StartSignup, Outcomes, Label
<1>2. CASE CheckEmail(c)
  BY <1>0, <1>2, EndsInv, GoesOnInv, ChannelFacts DEF CheckEmail, Outcomes, Label
<1>3. CASE CreateUser(c)
  <2>1. CASE account = "none"
    <3>1. /\ pc'[c] = "create" /\ outcome'[c] = "none" /\ request' = request
          /\ otp'[c] = NoRead /\ account' = "active" /\ otps' = otps /\ channel'[c] \in Channel
      BY <1>0, <1>3, <2>1, ChannelFacts
         DEF CreateUser, Goto, ToChannel, Running, ReadARow, TypeOK
    <3>2. \A ch \in Channel : otps'[<<c, ch>>] = NoOtp
      BY <1>0, <1>3, <3>1 DEF CreateUser, RowsToCome
    <3> QED
      BY <3>1, <3>2 DEF CallInv, Running, RowsToCome, ReadARow, Passed, Created
  <2>2. CASE account # "none"
    BY <1>0, <1>3, <2>2, EndsInv DEF CreateUser, Outcomes
  <2> QED
    BY <2>1, <2>2
<1> QED
  BY <1>1, <1>2, <1>3

LEMMA RenewalInv ==
    ASSUME Inv, NEW c \in Call, StartRenewal(c) \/ Invalidate(c) \/ Deliver(c)
    PROVE  CallInv(c)'
<1>0. [Next]_vars /\ TypeOK /\ CallInv(c) /\ KindAt(c)
  BY DEF Next, Step, Inv, CallInv
<1>1. CASE StartRenewal(c)
  <2>1. channel'[c] \in Channel
    BY <1>0, <1>1, StepChannelTypes DEF Step
  <2> QED
    BY <1>0, <1>1, <2>1, EndsInv, GoesOnInv DEF StartRenewal, Outcomes, Label
<1>2. CASE Invalidate(c)
  <2>1. /\ pc'[c] = "create" /\ outcome'[c] = "none" /\ request' = request
        /\ otp'[c] = NoRead /\ channel' = channel /\ ~Is(c, "signup")
    BY <1>0, <1>2 DEF Invalidate, Goto, TypeOK, CallInv, Running, ReadARow, KindAt, Is
  <2>2. ASSUME NEW ch \in Channel, otps[<<c, ch>>] = NoOtp PROVE otps'[<<c, ch>>] = NoOtp
    BY <1>2, <2>2 DEF Invalidate, OtpId
  <2>3. RowsToCome(c)'
    BY <1>0, <1>2, <2>1, <2>2, ChannelFacts DEF RowsToCome, CallInv, Invalidate
  <2> QED
    BY <2>1, <2>3 DEF CallInv, Running, ReadARow, Passed, Created, Is
<1>3. CASE Deliver(c)
  BY <1>0, <1>3, EndsInv DEF Deliver, Outcomes, KindAt, Is
<1> QED
  BY <1>1, <1>2, <1>3

LEMMA CreateOtpInv ==
    ASSUME Inv, NEW c \in Call, CreateOtp(c)
    PROVE  CallInv(c)'
<1>0. [Next]_vars /\ TypeOK /\ CallInv(c)
  BY DEF Next, Step, Inv, CallInv
<1>1. /\ pc[c] = "create" /\ outcome[c] = "none" /\ otp[c] = NoRead
      /\ request' = request /\ otp' = otp /\ account' = account
  BY <1>0 DEF CreateOtp, CallInv, Running, ReadARow
<1>2. CASE Return(c, "sent")
  <2>1. pc'[c] = "done" /\ outcome'[c] = "sent"
    BY <1>0, <1>2 DEF Return, TypeOK
  <2>2. (Created(c) => account # "none")'
    BY <1>0, <1>1, <2>1 DEF Created, Is, CallInv
  <2> QED
    BY <1>1, <2>1, <2>2 DEF CallInv, Running, RowsToCome, ReadARow, Passed, Is
<1>3. CASE Goto(c, "deliver")
  <2>1. pc'[c] = "deliver" /\ outcome'[c] = "none" /\ ~Is(c, "signup")
    BY <1>0, <1>1, <1>3 DEF CreateOtp, Goto, Return, TypeOK, Is
  <2> QED
    BY <1>1, <2>1 DEF CallInv, Running, RowsToCome, ReadARow, Passed, Created, Is
<1>4. CASE /\ ~Is(c, "resend") /\ channel[c] = "phone" /\ HasEmail /\ ToChannel(c, "email")
           /\ Goto(c, IF Is(c, "login") THEN "invalidate" ELSE "create")
  <2>1. /\ pc'[c] = IF Is(c, "login") THEN "invalidate" ELSE "create"
        /\ outcome'[c] = "none" /\ channel'[c] = "email"
    BY <1>0, <1>1, <1>4 DEF Goto, ToChannel, TypeOK
  <2>2. otps[<<c, "email">>] = NoOtp
    BY <1>0, <1>1, <1>4 DEF CallInv, RowsToCome, Channel
  <2>3. otps'[<<c, "email">>] = NoOtp
    BY <1>0, <1>4, <2>2, NewRows DEF CreateOtp, Step, Channel, OtpId
  <2>4. (Created(c) => account # "none")'
    BY <1>0, <1>1, <2>1 DEF Created, Is, CallInv
  <2>5. ~Is(c, "login") \/ ~Is(c, "signup")
    BY DEF Is
  <2> QED
    BY <1>1, <2>1, <2>3, <2>4, <2>5 DEF CallInv, Running, RowsToCome, ReadARow, Passed, Is
<1> QED
  BY <1>2, <1>3, <1>4 DEF CreateOtp

LEMMA StartVerifyInv ==
    ASSUME Inv, NEW c \in Call, StartVerify(c)
    PROVE  CallInv(c)'
<1>0. [Next]_vars /\ TypeOK /\ CallInv(c)
  BY DEF Next, Step, Inv, CallInv
<1>1. /\ pc[c] = "start" /\ outcome[c] = "none" /\ otp[c] = NoRead
      /\ request' = request /\ otp' = otp /\ account' = account /\ otps' = otps
      /\ channel'[c] \in Channel
  BY <1>0, ChannelFacts DEF StartVerify, CallInv, Running, ReadARow
<1>2. CASE Bypass(c)
  <2>1. pc'[c] = "find_user" /\ outcome'[c] = "none"
    BY <1>0, <1>1, <1>2 DEF StartVerify, Goto, TypeOK
  <2>2. Bypass(c)'
    BY <1>1, <1>2 DEF Bypass
  <2> QED
    BY <1>1, <2>1, <2>2 DEF CallInv, Running, RowsToCome, ReadARow, Created, Is
<1>3. CASE ~Bypass(c)
  BY <1>0, <1>1, <1>3, GoesOnInv DEF StartVerify, Label
<1> QED
  BY <1>2, <1>3

LEMMA LookUpInv ==
    ASSUME Inv, NEW c \in Call, LookUp(c)
    PROVE  CallInv(c)'
<1>0. [Next]_vars /\ TypeOK /\ CallInv(c)
  BY DEF Next, Step, Inv, CallInv
<1>1. CASE Return(c, "invalid") /\ UNCHANGED otp
  BY <1>0, <1>1, EndsInv DEF Outcomes
<1>2. CASE Goto(c, "check")
           /\ \E i \in Latest(Candidates(request[c].channel)) :
                 otp' = [otp EXCEPT ![c] = [id |-> i, row |-> otps[i]]]
  <2>1. PICK i \in Latest(Candidates(request[c].channel)) :
               otp' = [otp EXCEPT ![c] = [id |-> i, row |-> otps[i]]]
    BY <1>2
  <2>2. i \in OtpId /\ i[2] = request[c].channel /\ otps[i] # NoOtp
    BY DEF Latest, Candidates, Unused
  <2>3. /\ pc'[c] = "check" /\ outcome'[c] = "none" /\ request' = request /\ otps' = otps
        /\ otp'[c] = [id |-> i, row |-> otps[i]]
    BY <1>0, <1>2, <2>1 DEF LookUp, Goto, TypeOK, CallInv, Running
  <2>4. otp'[c] # NoRead
    BY <2>2, <2>3, NoOtpAssumption DEF NoRead
  <2>5. ReadARow(c)'
    BY <2>2, <2>3, <2>4 DEF ReadARow
  <2> QED
    BY <2>3, <2>5 DEF CallInv, Running, RowsToCome, Passed, Created, Is
<1> QED
  BY <1>1, <1>2 DEF LookUp

LEMMA CheckInv ==
    ASSUME Inv, NEW c \in Call, Check(c)
    PROVE  CallInv(c)'
<1>0. [Next]_vars /\ TypeOK /\ CallInv(c)
  BY DEF Next, Step, Inv, CallInv
<1>1. CASE Return(c, "expired") \/ Return(c, "max_attempts")
  BY <1>0, <1>1, EndsInv DEF Check, Outcomes
<1>2. CASE Goto(c, IF otp[c].row.code = request[c].code THEN "mark_used" ELSE "increment")
  <2>1. /\ pc'[c] = IF otp[c].row.code = request[c].code THEN "mark_used" ELSE "increment"
        /\ outcome'[c] = "none" /\ request' = request /\ otps' = otps /\ otp' = otp
        /\ otp[c] # NoRead
    BY <1>0, <1>2 DEF Check, Goto, TypeOK, CallInv, Running, ReadARow
  <2>2. ReadARow(c)'
    BY <1>0, <2>1 DEF CallInv, ReadARow
  <2> QED
    BY <2>1, <2>2 DEF CallInv, Running, RowsToCome, Passed, Created, Is
<1> QED
  BY <1>1, <1>2 DEF Check

LEMMA IncrementInv ==
    ASSUME Inv, NEW c \in Call, Increment(c)
    PROVE  CallInv(c)'
<1>0. [Next]_vars
  BY DEF Next, Step
<1> QED
  BY <1>0, EndsInv DEF Increment, Outcomes

LEMMA MarkUsedInv ==
    ASSUME Inv, NEW c \in Call, MarkUsed(c)
    PROVE  CallInv(c)'
<1>0. [Next]_vars /\ TypeOK /\ CallInv(c)
  BY DEF Next, Step, Inv, CallInv
<1>1. /\ otp[c] # NoRead /\ otp[c].id \in OtpId /\ otps[otp[c].id] # NoOtp
      /\ otps[otp[c].id].code = request[c].code
      /\ otp[c].id[2] = request[c].channel
  BY <1>0 DEF MarkUsed, CallInv, ReadARow
<1>2. /\ pc'[c] = "find_user" /\ outcome'[c] = "none" /\ request' = request /\ otp' = otp
      /\ otps' = [otps EXCEPT ![otp[c].id].isUsed = TRUE]
  BY <1>0 DEF MarkUsed, Goto, TypeOK, CallInv, Running
<1>3. otps[otp[c].id] \in Otp
  BY <1>0, <1>1 DEF TypeOK
<1>4. otps'[otp[c].id] = [otps[otp[c].id] EXCEPT !.isUsed = TRUE]
  BY <1>0, <1>1, <1>2 DEF TypeOK
<1>5. otps'[otp[c].id] \in Otp
  BY <1>3, <1>4, RecordTypes
<1>6. /\ otps'[otp[c].id] # NoOtp /\ otps'[otp[c].id].isUsed
      /\ otps'[otp[c].id].code = request[c].code
  BY <1>1, <1>3, <1>4, <1>5, NoOtpAssumption DEF Otp
<1>7. Spent(c)'
  BY <1>1, <1>2, <1>6 DEF Spent
<1>8. ReadARow(c)'
  BY <1>0, <1>1, <1>2, ReadStays DEF ReadARow
<1> QED
  BY <1>2, <1>7, <1>8 DEF CallInv, Running, RowsToCome, Created, Is

LEMMA FindUserInv ==
    ASSUME Inv, NEW c \in Call, FindUser(c) \/ StoreTokens(c)
    PROVE  CallInv(c)'
<1>0. [Next]_vars /\ TypeOK /\ CallInv(c)
  BY DEF Next, Step, Inv, CallInv
<1>1. CASE Return(c, "invalid")
  BY <1>0, <1>1, EndsInv DEF FindUser, StoreTokens, Outcomes
<1>2. CASE Goto(c, "store_tokens") \/ Return(c, "tokens")
  <2>1. /\ \/ pc'[c] = "store_tokens" /\ outcome'[c] = "none"
           \/ pc'[c] = "done" /\ outcome'[c] = "tokens"
        /\ request' = request /\ otps' = otps /\ otp' = otp
    BY <1>0, <1>2 DEF FindUser, StoreTokens, Goto, Return, TypeOK, CallInv, Running
  <2>2. Bypass(c) \/ Spent(c)
    BY <1>0 DEF FindUser, StoreTokens, CallInv, Passed
  <2>3. (Bypass(c) \/ Spent(c))'
    BY <1>0, <2>1, <2>2, SpentStays DEF Bypass
  <2>4. ReadARow(c)'
    BY <1>0, <2>1 DEF ReadARow, CallInv
  <2> QED
    BY <2>1, <2>3, <2>4 DEF CallInv, Running, RowsToCome, Created, Is
<1> QED
  BY <1>1, <1>2 DEF FindUser, StoreTokens

LEMMA FailsInv ==
    ASSUME Inv, NEW c \in Call, Fails(c)
    PROVE  CallInv(c)'
<1>0. [Next]_vars
  BY DEF Next, Step
<1> QED
  BY <1>0, EndsInv DEF Fails, Outcomes

(***************************************************************************)
(* The account and the attempts.                                           *)
(***************************************************************************)
LEMMA CreatedStep ==
    ASSUME Inv, NEW c \in Call, Step(c), Created(c)', ~Created(c)
    PROVE  account = "none"
<1>0. TypeOK /\ CallInv(c) /\ KindAt(c) /\ request' = request
  BY RequestStays DEF Inv, CallInv, Next
<1>1. Is(c, "signup") /\ pc[c] # "create" /\ outcome[c] # "sent"
  BY <1>0 DEF Created, Is
<1>2. pc'[c] = "create" \/ outcome'[c] = "sent"
  BY DEF Created
<1>3. CASE CreateUser(c)
  BY <1>0, <1>1, <1>2, <1>3 DEF CreateUser, Return, TypeOK
<1>4. CASE Invalidate(c) \/ Deliver(c) \/ CreateOtp(c)
  BY <1>0, <1>1, <1>4 DEF KindAt, Is, Invalidate, Deliver, CreateOtp
<1>5. CASE StartSignup(c) \/ CheckEmail(c) \/ StartRenewal(c) \/ Fails(c)
  BY <1>0, <1>1, <1>2, <1>5 DEF StartSignup, CheckEmail, StartRenewal, Fails, Return, Goto, TypeOK
<1>6. CASE StartVerify(c) \/ LookUp(c) \/ Check(c) \/ Increment(c) \/ MarkUsed(c)
           \/ FindUser(c) \/ StoreTokens(c)
  BY <1>0, <1>1, <1>2, <1>6 DEF StartVerify, LookUp, Check, Increment, MarkUsed, FindUser,
     StoreTokens, Return, Goto, TypeOK
<1> QED
  BY <1>3, <1>4, <1>5, <1>6 DEF Step

LEMMA OneAccountStep ==
    ASSUME Inv, NEW c \in Call, Step(c)
    PROVE  OneAccount'
<1>0. request' = request /\ TypeOK
  BY RequestStays DEF Next, Inv
<1>1. ASSUME NEW d \in Call, d # c, Created(d)' PROVE Created(d)
  BY <1>0, <1>1, Frame DEF Created, Is
<1>2. ASSUME NEW d \in Call, d # c, Created(c)', Created(d)' PROVE FALSE
  <2>1. Created(d) /\ account # "none"
    BY <1>1, <1>2 DEF Inv
  <2>2. Created(c)
    BY <1>2, <2>1, CreatedStep
  <2> QED
    BY <1>2, <2>1, <2>2 DEF Inv, OneAccount
<1>3. ASSUME NEW d \in Call, NEW e \in Call, Created(d)', Created(e)' PROVE d = e
  <2>1. CASE d # c /\ e # c
    BY <1>1, <1>3, <2>1 DEF Inv, OneAccount
  <2> QED
    BY <1>2, <1>3, <2>1
<1> QED
  BY <1>3 DEF OneAccount

\* A call joins Wrong(i) by the increment of row i, and none leaves.
LEMMA WrongStep ==
    ASSUME Inv, NEW c \in Call, Step(c), NEW i \in OtpId
    PROVE  \/ ~Increment(c) /\ Wrong(i)' = Wrong(i)
           \/ Increment(c) /\ i # otp[c].id /\ Wrong(i)' = Wrong(i)
           \/ Increment(c) /\ i = otp[c].id /\ Wrong(i)' = Wrong(i) \cup {c} /\ c \notin Wrong(i)
<1>0. TypeOK /\ CallInv(c)
  BY DEF Inv, CallInv
<1>1. \A d \in Call \ {c} : d \in Wrong(i)' <=> d \in Wrong(i)
  BY <1>0, Frame DEF Wrong
<1>2. c \notin Wrong(i)
  <2>1. CASE outcome[c] = "none"
    BY <2>1 DEF Wrong
  <2>2. CASE pc[c] = "done"
    BY <2>2 DEF Step, StartSignup, CheckEmail, CreateUser, StartRenewal, Invalidate, CreateOtp,
       Deliver, StartVerify, LookUp, Check, Increment, MarkUsed, FindUser, StoreTokens, Fails
  <2> QED
    BY <1>0, <2>1, <2>2 DEF CallInv, Running
<1>3. CASE Increment(c)
  <2>1. outcome'[c] = "wrong_code" /\ otp' = otp
    BY <1>0, <1>3 DEF Increment, Return, TypeOK
  <2>2. c \in Wrong(i)' <=> i = otp[c].id
    BY <2>1 DEF Wrong
  <2> QED
    BY <1>1, <1>2, <1>3, <2>2 DEF Wrong
<1>4. CASE ~Increment(c)
  <2>1. outcome'[c] # "wrong_code"
    <3>1. outcome[c] # "wrong_code"
      BY <1>0 DEF Step, CallInv, Running, StartSignup, CheckEmail, CreateUser, StartRenewal,
         Invalidate, CreateOtp, Deliver, StartVerify, LookUp, Check, Increment, MarkUsed, FindUser,
         StoreTokens, Fails
    <3> QED
      BY <1>0, <1>4, <3>1 DEF Step, StartSignup, CheckEmail, CreateUser, StartRenewal,
         Invalidate, CreateOtp, Deliver, StartVerify, LookUp, Check, MarkUsed, FindUser,
         StoreTokens, Fails, Goto, Return, TypeOK
  <2> QED
    BY <1>1, <1>2, <1>4, <2>1 DEF Wrong
<1> QED
  BY <1>3, <1>4

\* Nobody was told of a wrong code for a row that is not there.
LEMMA WrongOfNone ==
    ASSUME Inv, NEW i \in OtpId, otps[i] = NoOtp
    PROVE  Wrong(i) = {}
<1>1. ASSUME NEW d \in Call, otp[d].id = i PROVE FALSE
  <2>1. otp[d] # NoRead
    BY <1>1, NoOtpAssumption DEF NoRead
  <2> QED
    BY <1>1, <2>1 DEF Inv, ReadARow
<1> QED
  BY <1>1 DEF Wrong

LEMMA AttemptsStep ==
    ASSUME Inv, NEW c \in Call, Step(c), NEW i \in OtpId, otps'[i] # NoOtp
    PROVE  IsFiniteSet(Wrong(i)') /\ otps'[i].attempts = Cardinality(Wrong(i)')
<1>0. TypeOK /\ CallInv(c) /\ otps \in [OtpId -> Otp \cup {NoOtp}]
  BY DEF Inv, CallInv, TypeOK
<1>1. CASE otps[i] = NoOtp
  <2>1. CreateOtp(c) /\ i = <<c, channel[c]>>
    BY <1>1, NewRows
  <2>2. otps'[i].attempts = 0
    BY <1>0, <2>1 DEF CreateOtp
  <2>3. ~Increment(c)
    BY <2>1 DEF CreateOtp, Increment
  <2>4. Wrong(i)' = {}
    BY <1>1, <2>3, WrongStep, WrongOfNone
  <2> QED
    BY <2>2, <2>4, FS_EmptySet
<1>2. CASE otps[i] # NoOtp
  <2>0. /\ IsFiniteSet(Wrong(i)) /\ otps[i].attempts = Cardinality(Wrong(i))
        /\ otps[i] \in Otp
    BY <1>0, <1>2 DEF Inv, WrongCounted
  <2>1. CASE Increment(c) /\ i = otp[c].id
    <3>1. otps'[i] = [otps[i] EXCEPT !.attempts = otps[i].attempts + 1]
      BY <1>0, <2>1 DEF Increment
    <3>2. otps'[i].attempts = otps[i].attempts + 1
      BY <2>0, <3>1 DEF Otp
    <3>3. Wrong(i)' = Wrong(i) \cup {c} /\ c \notin Wrong(i)
      BY <2>1, WrongStep
    <3> QED
      BY <2>0, <3>2, <3>3, FS_AddElement
  <2>2. CASE ~(Increment(c) /\ i = otp[c].id)
    <3>1. Wrong(i)' = Wrong(i)
      BY <2>2, WrongStep
    <3>2. otps'[i].attempts = otps[i].attempts
      <4>1. CASE Invalidate(c)
        <5>1. otps'[i] = otps[i] \/ otps'[i] = [otps[i] EXCEPT !.isUsed = TRUE]
          BY <4>1 DEF Invalidate
        <5> QED
          BY <2>0, <5>1 DEF Otp
      <4>2. CASE CreateOtp(c)
        <5>1. otps[<<c, channel[c]>>] = NoOtp
          BY <1>0, <4>2 DEF CallInv, RowsToCome, CreateOtp
        <5> QED
          BY <1>0, <1>2, <4>2, <5>1 DEF CreateOtp
      <4>3. CASE Increment(c)
        BY <1>0, <2>2, <4>3 DEF Increment
      <4>4. CASE MarkUsed(c)
        <5>1. otps'[i] = otps[i] \/ otps'[i] = [otps[i] EXCEPT !.isUsed = TRUE]
          BY <1>0, <4>4 DEF MarkUsed
        <5> QED
          BY <2>0, <5>1 DEF Otp
      <4> QED
        BY <4>1, <4>2, <4>3, <4>4 DEF Step, StartSignup, CheckEmail, CreateUser, StartRenewal,
           Deliver, StartVerify, LookUp, Check, FindUser, StoreTokens, Fails
    <3> QED
      BY <2>0, <3>1, <3>2
  <2> QED
    BY <2>1, <2>2
<1> QED
  BY <1>1, <1>2

(***************************************************************************)
(* What a call found when it started.                                      *)
(***************************************************************************)
LEMMA KindStep ==
    ASSUME Inv, [Next]_vars, NEW d \in Call
    PROVE  KindAt(d)'
<1>0. TypeOK /\ KindAt(d) /\ Running(d) /\ request' = request
  BY RequestStays DEF Inv
<1>1. CASE pc'[d] = pc[d] /\ outcome'[d] = outcome[d]
  BY <1>0, <1>1 DEF KindAt, Passed, Is
<1>2. ASSUME NEW o \in Outcomes, Return(d, o), o = "sent" => ~Is(d, "verify"),
             o = "tokens" => Is(d, "verify")
      PROVE  KindAt(d)'
  <2>1. pc'[d] = "done" /\ outcome'[d] = o
    BY <1>0, <1>2 DEF Return, TypeOK
  <2> QED
    BY <1>0, <1>2, <2>1 DEF KindAt, Passed, Is
<1>3. ASSUME NEW l \in Label \ {"done"}, Goto(d, l), pc[d] # "done",
             l \in {"check_email", "create_user"} => Is(d, "signup"),
             l \in {"invalidate", "deliver"} => Is(d, "login") \/ Is(d, "resend"),
             l = "create" => ~Is(d, "verify"),
             l \in {"look_up", "check", "increment", "mark_used", "find_user", "store_tokens"}
                => Is(d, "verify")
      PROVE  KindAt(d)'
  <2>1. pc'[d] = l /\ outcome'[d] = "none"
    BY <1>0, <1>3 DEF Goto, TypeOK, Running
  <2> QED
    BY <1>0, <1>3, <2>1 DEF KindAt, Passed, Is
<1>4. ASSUME Step(d) PROVE KindAt(d)'
  <2>1. CASE StartSignup(d) \/ CheckEmail(d) \/ CreateUser(d)
    <3>1. Is(d, "signup")
      BY <1>0, <2>1 DEF StartSignup, CheckEmail, CreateUser, KindAt
    <3>2. pc[d] # "done" /\ ~Is(d, "verify")
      BY <2>1, <3>1 DEF StartSignup, CheckEmail, CreateUser, Is
    <3> QED
      BY <1>2, <1>3, <2>1, <3>1, <3>2 DEF StartSignup, CheckEmail, CreateUser, Outcomes, Label
  <2>2. CASE StartRenewal(d) \/ Invalidate(d) \/ Deliver(d) \/ Fails(d)
    BY <1>0, <1>2, <1>3, <2>2
       DEF StartRenewal, Invalidate, Deliver, Fails, KindAt, Outcomes, Label, Is
  <2>3. CASE CreateOtp(d)
    <3>1. pc[d] = "create" /\ ~Is(d, "verify")
      BY <1>0, <2>3 DEF CreateOtp, KindAt
    <3> QED
      BY <1>2, <1>3, <2>3, <3>1 DEF CreateOtp, Outcomes, Label
  <2>4. CASE StartVerify(d) \/ LookUp(d)
    BY <1>0, <1>2, <1>3, <2>4 DEF StartVerify, LookUp, KindAt, Outcomes, Label
  <2>5. CASE Check(d) \/ Increment(d) \/ MarkUsed(d)
    BY <1>0, <1>2, <1>3, <2>5 DEF Check, Increment, MarkUsed, KindAt, Outcomes, Label
  <2>6. CASE FindUser(d) \/ StoreTokens(d)
    BY <1>0, <1>2, <1>3, <2>6 DEF FindUser, StoreTokens, KindAt, Passed, Outcomes, Label
  <2> QED
    BY <1>4, <2>1, <2>2, <2>3, <2>4, <2>5, <2>6 DEF Step
<1>5. ASSUME NEW c \in Call, Step(c), c # d PROVE KindAt(d)'
  BY <1>0, <1>1, <1>5, Frame
<1> QED
  BY <1>1, <1>4, <1>5 DEF Next, DeleteMe, Tick, vars

LEMMA DeadStays ==
    ASSUME Inv, [Next]_vars, NEW i \in OtpId, otps[i] # NoOtp, Dead(i)
    PROVE  Dead(i)'
<1>1. Worn(i) /\ otps[i] \in Otp /\ now \in Nat
  BY WearStep DEF Inv, TypeOK
<1>2. otps'[i] \in Otp
  BY <1>1, TypesStep DEF Worn, TypeOK
<1>3. now' >= now
  <2>1. ASSUME NEW c \in Call, Step(c) PROVE now' = now
    BY <2>1 DEF Step, StartSignup, CheckEmail, CreateUser, StartRenewal, Invalidate, CreateOtp,
       Deliver, StartVerify, LookUp, Check, Increment, MarkUsed, FindUser, StoreTokens, Fails
  <2>2. now' = now \/ now' = now + 1
    BY <2>1 DEF Next, DeleteMe, Tick, vars
  <2> QED
    BY <1>1, <2>2
<1>4. now' \in Nat
  BY TypesStep DEF TypeOK
<1> QED
  BY <1>1, <1>2, <1>3, <1>4, NumberAssumption DEF Worn, Dead, Otp

\* The rows a call found are still there, and those that were used are.
LEMMA FoundStays ==
    ASSUME Inv, [Next]_vars, NEW c \in Call, before'[c] = before[c]
    PROVE  \A i \in before'[c] : /\ i \in OtpId
                                 /\ otps[i] # NoOtp
                                 /\ otps'[i] # NoOtp
                                 /\ otps[i].isUsed => otps'[i].isUsed
<1>1. \A i \in before[c] : i \in OtpId /\ otps[i] # NoOtp
  BY DEF Inv, TypeOK, Renewed
<1> QED
  BY <1>1, WearStep DEF Worn

LEMMA RestRenewed ==
    ASSUME Inv, [Next]_vars, NEW d \in Call, before'[d] = before[d],
           \/ /\ pc'[d] = pc[d] /\ outcome'[d] = outcome[d] /\ channel'[d] = channel[d]
           \/ Is(d, "signup") \/ Is(d, "verify")
           \/ pc'[d] = "done" /\ outcome'[d] # "sent"
    PROVE  Renewed(d)'
<1>0. Renewed(d) /\ request' = request
  BY RequestStays DEF Inv
<1> QED
  BY <1>0, FoundStays DEF Renewed, Is, Renews

LEMMA RenewedStep ==
    ASSUME Inv, NEW c \in Call, Step(c)
    PROVE  Renewed(c)'
<1>0. /\ [Next]_vars /\ TypeOK /\ Renewed(c) /\ KindAt(c) /\ Running(c) /\ request' = request
      /\ before[c] \subseteq OtpId
  BY RequestStays DEF Next, Inv, TypeOK
<1>1. CASE StartSignup(c) \/ CheckEmail(c) \/ CreateUser(c)
  BY <1>0, <1>1, RestRenewed DEF KindAt, StartSignup, CheckEmail, CreateUser
<1>2. CASE LookUp(c) \/ Check(c) \/ Increment(c) \/ MarkUsed(c) \/ FindUser(c) \/ StoreTokens(c)
  BY <1>0, <1>2, RestRenewed
     DEF KindAt, Passed, LookUp, Check, Increment, MarkUsed, FindUser, StoreTokens
<1>3. CASE StartVerify(c)
  <2>1. before'[c] = {i \in OtpId : otps[i] # NoOtp /\ Dead(i)} /\ otps' = otps
    BY <1>0, <1>3 DEF StartVerify, TypeOK
  <2>2. ~Is(c, "login")' /\ ~Is(c, "resend")'
    BY <1>0, <1>3 DEF StartVerify, Is
  <2> QED
    BY <1>0, <1>3, <2>1, <2>2 DEF Renewed, StartVerify, Is
<1>4. CASE StartRenewal(c)
  <2>1. before'[c] = {i \in OtpId : otps[i] # NoOtp /\ Renews(c, i)} /\ otps' = otps
    BY <1>0, <1>4 DEF StartRenewal, TypeOK
  <2>2. /\ outcome'[c] # "sent"
        /\ \/ pc'[c] = "done"
           \/ /\ pc'[c] = "invalidate"
              /\ channel'[c] = IF Is(c, "login") THEN "phone" ELSE request[c].channel
    BY <1>0, <1>4 DEF StartRenewal, TypeOK, Goto, Return, ToChannel, Running
  <2> QED
    BY <1>0, <1>4, <2>1, <2>2 DEF Renewed, Is, Renews, StartRenewal
<1>5. CASE Invalidate(c)
  <2>1. /\ pc'[c] = "create" /\ outcome'[c] = "none" /\ channel' = channel /\ before' = before
        /\ pc[c] = "invalidate"
    BY <1>0, <1>5 DEF Invalidate, Goto, TypeOK, Running
  <2>2. \A i \in before'[c] : i[2] = channel[c] => otps'[i].isUsed
    <3>1. ASSUME NEW i \in before[c], i[2] = channel[c] PROVE otps'[i].isUsed
      <4>1. i \in OtpId /\ otps[i] \in Otp
        BY <1>0 DEF Renewed, TypeOK
      <4>2. otps'[i] = [otps[i] EXCEPT !.isUsed = TRUE]
        BY <1>0, <1>5, <3>1, <4>1 DEF Invalidate, Renewed
      <4> QED
        BY <4>1, <4>2 DEF Otp
    <3> QED
      BY <2>1, <3>1
  <2> QED
    BY <1>0, <2>1, <2>2, FoundStays DEF Renewed, Is, Renews
<1>6. CASE CreateOtp(c)
  <2>1. pc[c] = "create" /\ before' = before /\ channel[c] \in Channel
    BY <1>0, <1>6 DEF CreateOtp, TypeOK
  <2>2. CASE Is(c, "signup")
    BY <1>0, <2>1, <2>2, RestRenewed
  <2>3. CASE Is(c, "resend")
    <3>1. pc'[c] \in {"deliver", "done"}
      BY <1>0, <1>6, <2>3 DEF CreateOtp, Goto, Return, TypeOK
    <3>2. \A i \in before[c] : otps[i].isUsed
      BY <1>0, <2>1, <2>3 DEF Renewed, Renews, Is
    <3> QED
      BY <1>0, <2>1, <3>1, <3>2, FoundStays DEF Renewed, Is, Renews
  <2>4. CASE Is(c, "login") /\ channel[c] = "phone" /\ HasEmail
    <3>1. pc'[c] = "invalidate" /\ channel'[c] = "email" /\ outcome'[c] = "none"
      BY <1>0, <1>6, <2>1, <2>4 DEF CreateOtp, Goto, Return, TypeOK, ToChannel, Running, Is
    <3> QED
      BY <1>0, <2>1, <2>4, <3>1, FoundStays DEF Renewed, Is, Renews
  <2>5. CASE Is(c, "login") /\ (channel[c] = "email" \/ ~HasEmail)
    <3>1. pc'[c] = "done"
      BY <1>0, <1>6, <2>1, <2>5 DEF CreateOtp, Return, TypeOK, Is
    <3>2. \A i \in before[c] : i[2] \in Channel
      BY <1>0 DEF OtpId
    <3>3. \A i \in before[c] : otps[i].isUsed
      BY <1>0, <2>1, <2>5, <3>2 DEF Renewed, Channel
    <3> QED
      BY <1>0, <2>1, <3>1, <3>3, FoundStays DEF Renewed, Is, Renews
  <2>6. Is(c, "signup") \/ Is(c, "resend") \/ Is(c, "login")
    BY <1>0, <2>1, RequestTypes DEF KindAt, Kind, Is
  <2> QED
    BY <2>1, <2>2, <2>3, <2>4, <2>5, <2>6 DEF Channel
<1>7. CASE Deliver(c)
  <2>1. pc[c] = "deliver" /\ pc'[c] = "done" /\ before' = before
    BY <1>0, <1>7 DEF Deliver, Return, TypeOK
  <2> QED
    BY <1>0, <2>1, FoundStays DEF Renewed, Is, Renews
<1>8. CASE Fails(c)
  BY <1>0, <1>8, RestRenewed DEF Fails, Return, TypeOK
<1> QED
  BY <1>1, <1>2, <1>3, <1>4, <1>5, <1>6, <1>7, <1>8 DEF Step

LEMMA DeadFound ==
    ASSUME Inv, [Next]_vars, NEW d \in Call, Is(d, "verify"), before'[d] = before[d]
    PROVE  \A i \in before'[d] : Dead(i)'
<1>1. \A i \in before[d] : i \in OtpId /\ otps[i] # NoOtp /\ Dead(i)
  BY DEF Inv, TypeOK, Renewed, Judged
<1>2. ASSUME NEW i \in before[d] PROVE Dead(i)'
  BY <1>1, DeadStays
<1> QED
  BY <1>2

LEMMA RestJudged ==
    ASSUME Inv, [Next]_vars, NEW d \in Call, before'[d] = before[d], otp'[d] = otp[d],
           \/ pc'[d] = pc[d] /\ outcome'[d] = outcome[d]
           \/ ~Is(d, "verify")
           \/ pc'[d] = "done" /\ outcome'[d] # "tokens"
    PROVE  Judged(d)'
<1>0. Judged(d) /\ request' = request
  BY RequestStays DEF Inv
<1>1. CASE ~Is(d, "verify")
  BY <1>0, <1>1 DEF Judged, Is
<1>2. CASE Is(d, "verify")
  <2>1. \A i \in before'[d] : Dead(i)'
    BY <1>2, DeadFound
  <2> QED
    BY <1>0, <1>2, <2>1 DEF Judged, Is, Passed
<1> QED
  BY <1>1, <1>2

LEMMA JudgedStep ==
    ASSUME Inv, NEW c \in Call, Step(c)
    PROVE  Judged(c)'
<1>0. /\ [Next]_vars /\ TypeOK /\ Judged(c) /\ KindAt(c) /\ Running(c) /\ ReadARow(c)
      /\ request' = request /\ before[c] \subseteq OtpId
  BY RequestStays DEF Next, Inv, TypeOK
<1> SUFFICES ASSUME Is(c, "verify") PROVE Judged(c)'
  BY <1>0 DEF Judged, Is
<1>1. CASE StartSignup(c) \/ CheckEmail(c) \/ CreateUser(c) \/ StartRenewal(c) \/ Invalidate(c)
           \/ CreateOtp(c) \/ Deliver(c)
  BY <1>0, <1>1 DEF KindAt, Is, StartSignup, CheckEmail, CreateUser, StartRenewal, Invalidate,
     CreateOtp, Deliver
<1>2. CASE Increment(c) \/ Fails(c)
  BY <1>0, <1>2, RestJudged DEF Increment, Fails, Return, TypeOK
<1>3. CASE StartVerify(c)
  <2>1. /\ before'[c] = {i \in OtpId : otps[i] # NoOtp /\ Dead(i)}
        /\ otps' = otps /\ now' = now /\ otp'[c] = NoRead
        /\ pc'[c] \in {"find_user", "look_up"}
    BY <1>0, <1>3 DEF StartVerify, TypeOK, ReadARow, Goto
  <2>2. otp'[c].id \notin before'[c]
    BY <2>1, NoOtpAssumption DEF NoRead
  <2>3. \A i \in before'[c] : Dead(i)'
    BY <2>1 DEF Dead
  <2> QED
    BY <2>1, <2>2, <2>3 DEF Judged
<1>4. ASSUME before'[c] = before[c] PROVE \A i \in before'[c] : Dead(i)'
  BY <1>0, <1>4, DeadFound
<1>5. CASE LookUp(c)
  <2>1. CASE Return(c, "invalid") /\ UNCHANGED otp
    BY <1>0, <1>5, <2>1, RestJudged DEF LookUp, Return, TypeOK
  <2>2. CASE Goto(c, "check")
             /\ \E i \in Latest(Candidates(request[c].channel)) :
                   otp' = [otp EXCEPT ![c] = [id |-> i, row |-> otps[i]]]
    <3>1. PICK i \in Latest(Candidates(request[c].channel)) :
                   otp' = [otp EXCEPT ![c] = [id |-> i, row |-> otps[i]]]
      BY <2>2
    <3>2. /\ i \in OtpId /\ otps[i] \in Otp /\ ~otps[i].isUsed /\ otps[i].expiresAt > now
          /\ now \in Nat
      BY <1>0 DEF Latest, Candidates, Unused, TypeOK
    <3>3. i \in before[c] => otps[i].attempts >= MaxAttempts
      BY <1>0, <3>2 DEF Judged, Dead, Otp
    <3>4. /\ pc'[c] = "check" /\ outcome'[c] = "none" /\ before' = before
          /\ otp'[c] = [id |-> i, row |-> otps[i]]
      BY <1>0, <1>5, <2>2, <3>1 DEF LookUp, Goto, TypeOK, Running
    <3> QED
      BY <1>4, <3>3, <3>4 DEF Judged, Passed
  <2> QED
    BY <1>5, <2>1, <2>2 DEF LookUp
<1>6. CASE Check(c)
  <2>1. CASE Return(c, "expired") \/ Return(c, "max_attempts")
    BY <1>0, <1>6, <2>1, RestJudged DEF Check, Return, TypeOK
  <2>2. CASE otp[c].row.attempts < MaxAttempts
             /\ Goto(c, IF otp[c].row.code = request[c].code THEN "mark_used" ELSE "increment")
    <3>1. otp[c].row.attempts \in Nat
      BY <1>0, <1>6 DEF Check, ReadARow, TypeOK, Otp
    <3>2. otp[c].id \notin before[c]
      BY <1>0, <1>6, <2>2, <3>1, NumberAssumption DEF Check, Judged
    <3>3. /\ pc'[c] \in {"mark_used", "increment"} /\ outcome'[c] = "none" /\ before' = before
          /\ otp' = otp
      BY <1>0, <1>6, <2>2 DEF Check, Goto, TypeOK, Running
    <3> QED
      BY <1>4, <3>2, <3>3 DEF Judged, Passed
  <2> QED
    BY <1>6, <2>1, <2>2 DEF Check
<1>7. CASE MarkUsed(c) \/ FindUser(c) \/ StoreTokens(c)
  <2>1. /\ otp[c].id \notin before[c] /\ before' = before /\ otp' = otp
        /\ pc'[c] # "check"
    BY <1>0, <1>7 DEF Judged, MarkUsed, FindUser, StoreTokens, Passed, Goto, Return, TypeOK
  <2> QED
    BY <1>4, <2>1 DEF Judged
<1> QED
  BY <1>1, <1>2, <1>3, <1>5, <1>6, <1>7 DEF Step

(***************************************************************************)
(* The invariant.                                                          *)
(***************************************************************************)
LEMMA CallStep ==
    ASSUME Inv, NEW c \in Call, Step(c)
    PROVE  \A d \in Call : CallInv(d)'
<1>1. CallInv(c)'
  BY SignupInv, RenewalInv, CreateOtpInv, StartVerifyInv, LookUpInv, CheckInv, IncrementInv,
     MarkUsedInv, FindUserInv, FailsInv DEF Step
<1> QED
  BY <1>1, OtherCallInv

LEMMA HistoryStep ==
    ASSUME Inv, NEW c \in Call, Step(c)
    PROVE  \A d \in Call : Renewed(d)' /\ Judged(d)'
<1>1. ASSUME NEW d \in Call, d # c PROVE Renewed(d)' /\ Judged(d)'
  BY <1>1, Frame, RestRenewed, RestJudged DEF Inv, Next
<1> QED
  BY <1>1, RenewedStep, JudgedStep

LEMMA InvStep == Inv /\ [Next]_vars => Inv'
<1> SUFFICES ASSUME Inv, [Next]_vars PROVE Inv'
  OBVIOUS
<1>0. TypeOK'
  BY TypesStep
<1>9. \A d \in Call : KindAt(d)'
  BY KindStep
<1>1. ASSUME NEW c \in Call, Step(c) PROVE Inv'
  <2>1. \A d \in Call : CallInv(d)'
    BY <1>1, CallStep
  <2>2. OneAccount'
    BY <1>1, OneAccountStep
  <2>3. \A i \in OtpId : otps'[i] # NoOtp =>
           IsFiniteSet(Wrong(i)') /\ otps'[i].attempts = Cardinality(Wrong(i)')
    BY <1>1, AttemptsStep
  <2>4. WrongCounted' /\ (\A i \in OtpId : otps[i] # NoOtp => IsFiniteSet(Wrong(i)))'
    BY <2>3 DEF WrongCounted
  <2>5. \A d \in Call : Renewed(d)' /\ Judged(d)'
    BY <1>1, HistoryStep
  <2> QED
    BY <1>0, <1>9, <2>1, <2>2, <2>4, <2>5 DEF Inv, CallInv
<1>2. ASSUME UNCHANGED <<otps, request, pc, channel, otp, outcome, before>> PROVE Inv'
  <2>1. \A d \in Call : CallInv(d)'
    BY <1>2, RestCallInv
  <2>2. OneAccount'
    BY <1>2 DEF Inv, OneAccount, Created, Is
  <2>3. \A i \in OtpId : Wrong(i)' = Wrong(i)
    BY <1>2 DEF Wrong
  <2>4. WrongCounted' /\ (\A i \in OtpId : otps[i] # NoOtp => IsFiniteSet(Wrong(i)))'
    BY <1>2, <2>3 DEF Inv, WrongCounted
  <2>5. \A d \in Call : Renewed(d)' /\ Judged(d)'
    BY <1>2, RestRenewed, RestJudged
  <2> QED
    BY <1>0, <1>9, <2>1, <2>2, <2>4, <2>5 DEF Inv, CallInv
<1> QED
  BY <1>1, <1>2 DEF Next, DeleteMe, Tick, vars

\* Inv holds in every reachable state of the four handlers.
THEOREM Invariance == Spec => []Inv
<1>1. Init => Inv
  BY InitInv
<1>2. Inv /\ [Next]_vars => Inv'
  BY InvStep
<1> QED
  BY <1>1, <1>2, PTL DEF Spec

\* The table, the account and the calls keep their types.
THEOREM TypeCorrect == Spec => []TypeOK
<1>1. Inv => TypeOK
  BY DEF Inv
<1> QED
  BY <1>1, Invariance, PTL

\* Of the sign-ups of a phone at most one inserts the account.
THEOREM SingleAccount == Spec => []OneAccount
<1>1. Inv => OneAccount
  BY DEF Inv
<1> QED
  BY <1>1, Invariance, PTL

\* The attempts of a row are the wrong codes that callers were told of.
THEOREM AttemptsCorrect == Spec => []WrongCounted
<1>1. Inv => WrongCounted
  BY DEF Inv
<1> QED
  BY <1>1, Invariance, PTL

\* Whoever gets tokens has spent the row it read, or came by the development bypass.
THEOREM TokensCorrect == Spec => []TokensSpendARow
<1>1. Inv => TokensSpendARow
  BY DEF Inv, TokensSpendARow, Passed
<1> QED
  BY <1>1, Invariance, PTL

\* A renewal that answered has used up the rows it found, whoever else was renewing.
THEOREM RenewalCorrect == Spec => []RenewalSupersedes
<1>1. Inv => RenewalSupersedes
  <2> SUFFICES ASSUME Inv, NEW c \in Call, outcome[c] = "sent", NEW i \in before[c]
               PROVE  otps[i].isUsed
    BY DEF RenewalSupersedes
  <2>1. Renewed(c) /\ KindAt(c) /\ Running(c)
    BY DEF Inv
  <2>2. CASE Is(c, "login") \/ Is(c, "resend")
    BY <2>1, <2>2 DEF Renewed
  <2>3. CASE Is(c, "signup")
    BY <2>1, <2>3 DEF Renewed
  <2> QED
    BY <2>1, <2>2, <2>3, RequestTypes DEF Inv, KindAt, Kind, Is
<1> QED
  BY <1>1, Invariance, PTL

\* No verification passes on a row that was dead when it started.
THEOREM SpentCorrect == Spec => []SpentStaysSpent
<1>1. Inv => SpentStaysSpent
  BY DEF Inv, SpentStaysSpent, KindAt, Judged, Passed
<1> QED
  BY <1>1, Invariance, PTL

\* No step of any interleaving revives a row.
THEOREM RowsWear == Spec => RowsOnlyWear
<1>1. ASSUME Inv, [Next]_vars PROVE \A i \in OtpId : Worn(i)
  BY <1>1, WearStep
<1>2. Inv /\ [Next]_vars =>
        [\A i \in OtpId : otps[i] # NoOtp =>
          /\ otps'[i] # NoOtp
          /\ otps[i].isUsed => otps'[i].isUsed
          /\ otps'[i].attempts >= otps[i].attempts
          /\ otps'[i].code = otps[i].code
          /\ otps'[i].createdAt = otps[i].createdAt
          /\ otps'[i].expiresAt = otps[i].expiresAt]_vars
  BY <1>1 DEF Worn
<1> QED
  BY <1>2, Invariance, PTL DEF Spec, RowsOnlyWear
=============================================================================
