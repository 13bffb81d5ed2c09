------------------------------ MODULE OtpLogin ------------------------------
(***************************************************************************)
(* AuthService.userSignup, userLogin, resendOtp and userVerifyOtp          *)
(* (src/src/modules/auth) over one account and the table otp_codes.        *)
(*                                                                         *)
(* No handler uses a transaction, so the queries of the calls interleave   *)
(* freely: the rows of otp_codes are read by one query and updated by      *)
(* another.  A row is named by the call and the channel that created it.   *)
(* The account has a phone and, if HasEmail, an email, which no other      *)
(* account has.  Columns of users other than status, and the erasure of an *)
(* account by an admin, are left out.                                      *)
(***************************************************************************)
EXTENDS Naturals, FiniteSets

CONSTANTS Call,         \* the requests
          Code,         \* the codes
          FixedCode,    \* the code sign-up and login put into a row
          DevCode,      \* OTP_DEV_CODE
          Production,   \* env.isProduction
          HasEmail,     \* whether the account has an email
          MaxAttempts,  \* max_attempts of a row
          Expiry,       \* OTP_EXPIRY_MINUTES
          MaxTime,      \* bound on the clock
          NoOtp         \* no row

Channel == IF HasEmail THEN {"phone", "email"} ELSE {"phone"}

Kind == {"signup", "login", "resend", "verify"}

ASSUME CodeAssumption == FixedCode \in Code /\ DevCode \in Code
ASSUME FlagAssumption == Production \in BOOLEAN /\ HasEmail \in BOOLEAN
ASSUME NumberAssumption ==
    /\ MaxAttempts \in Nat \ {0}
    /\ Expiry \in Nat \ {0}
    /\ MaxTime \in Nat

OtpId == Call \X Channel

Otp == [code : Code, attempts : Nat, isUsed : BOOLEAN, createdAt : Nat, expiresAt : Nat]

ASSUME NoOtpAssumption == NoOtp \notin Otp /\ NoOtp \notin OtpId

\* Only a verification carries a code.
Request == {r \in [kind : Kind, channel : Channel, code : Code] :
                /\ r.kind # "verify" => r.code = FixedCode
                /\ r.kind \in {"signup", "login"} => r.channel = "phone"}

VARIABLES
    now,              \* the clock
    account,          \* users.status, "none" before the sign-up
    otps,             \* the rows of otp_codes, by id
    request,          \* what each call carries
    pc,               \* the query each call waits for
    channel,          \* the channel a call is creating a row for
    expiresAt,        \* the expiry a call computed for its rows
    otp,              \* the row a verification read: its id and its values then
    outcome,          \* what each call answered
    before            \* history: the rows a call found when it started, for a renewal
                      \* those it has to supersede, for a verification the dead ones

vars == <<now, account, otps, request, pc, channel, expiresAt, otp, outcome, before>>

Outcomes == {"none", "sent", "tokens", "conflict", "not_found", "forbidden", "invalid",
             "wrong_code", "expired", "max_attempts", "error"}

Label == {"start", "check_email", "create_user", "invalidate", "create", "deliver",
          "look_up", "check", "increment", "mark_used", "find_user", "store_tokens", "done"}

NoRead == [id |-> NoOtp, row |-> NoOtp]

TypeOK ==
    /\ now \in Nat
    /\ account \in {"none", "active", "suspended", "deleted"}
    /\ otps \in [OtpId -> Otp \cup {NoOtp}]
    /\ request \in [Call -> Request]
    /\ pc \in [Call -> Label]
    /\ channel \in [Call -> Channel]
    /\ expiresAt \in [Call -> Nat]
    /\ otp \in [Call -> [id : OtpId, row : Otp] \cup {NoRead}]
    /\ outcome \in [Call -> Outcomes]
    /\ before \in [Call -> SUBSET OtpId]

Init ==
    /\ now = 1
    /\ account \in {"none", "active", "suspended", "deleted"}
    /\ otps = [i \in OtpId |-> NoOtp]
    /\ request \in [Call -> Request]
    /\ pc = [c \in Call |-> "start"]
    /\ channel = [c \in Call |-> request[c].channel]
    /\ expiresAt = [c \in Call |-> 0]
    /\ otp = [c \in Call |-> NoRead]
    /\ outcome = [c \in Call |-> "none"]
    /\ before = [c \in Call |-> {}]
-----------------------------------------------------------------------------
Goto(c, label) ==
    /\ pc' = [pc EXCEPT ![c] = label]
    /\ UNCHANGED outcome

Return(c, o) ==
    /\ pc' = [pc EXCEPT ![c] = "done"]
    /\ outcome' = [outcome EXCEPT ![c] = o]

Is(c, kind) == request[c].kind = kind

\* A deleted account keeps its phone and email.
Found == account # "none"

ToChannel(c, ch) == channel' = [channel EXCEPT ![c] = ch]

\* Computed once, for the rows of both channels.
SetExpiry(c) == expiresAt' = [expiresAt EXCEPT ![c] = now + Expiry]

(***************************************************************************)
(* userSignup: phoneExists, emailExists and createUser are three queries;  *)
(* the unique indexes of users decide between two sign-ups that race.      *)
(***************************************************************************)
StartSignup(c) ==
    /\ pc[c] = "start" /\ Is(c, "signup")
    /\ \/ Found /\ Return(c, "conflict")
       \/ ~Found /\ Goto(c, IF HasEmail THEN "check_email" ELSE "create_user")
    /\ UNCHANGED <<now, account, otps, request, channel, expiresAt, otp, before>>

CheckEmail(c) ==
    /\ pc[c] = "check_email"
    /\ \/ Found /\ Return(c, "conflict")
       \/ ~Found /\ Goto(c, "create_user")
    /\ UNCHANGED <<now, account, otps, request, channel, expiresAt, otp, before>>

CreateUser(c) ==
    /\ pc[c] = "create_user"
    /\ \/ /\ account = "none"
          /\ account' = "active"
          /\ ToChannel(c, "phone")
          /\ SetExpiry(c)
          /\ Goto(c, "create")
       \/ /\ account # "none"
          /\ Return(c, "error")
          /\ UNCHANGED <<account, channel, expiresAt>>
    /\ UNCHANGED <<now, otps, request, otp, before>>

(***************************************************************************)
(* userLogin renews the codes of both channels, resendOtp that of one: the *)
(* unused rows are marked used, then a new row is inserted.                *)
(***************************************************************************)
\* Call c renews the channel of row i.
Renews(c, i) == Is(c, "login") \/ (Is(c, "resend") /\ i[2] = request[c].channel)

StartRenewal(c) ==
    /\ pc[c] = "start" /\ (Is(c, "login") \/ Is(c, "resend"))
    /\ \/ ~Found /\ Return(c, "not_found") /\ UNCHANGED <<channel, expiresAt>>
       \/ /\ account \in {"suspended", "deleted"}
          /\ Return(c, "forbidden")
          /\ UNCHANGED <<channel, expiresAt>>
       \/ /\ account = "active"
          /\ SetExpiry(c)
          /\ ToChannel(c, IF Is(c, "login") THEN "phone" ELSE request[c].channel)
          /\ Goto(c, "invalidate")
    /\ before' = [before EXCEPT ![c] = {i \in OtpId : otps[i] # NoOtp /\ Renews(c, i)}]
    /\ UNCHANGED <<now, account, otps, request, otp>>

\* Faulty variant, for testing RenewalSupersedes: only the row created last is marked.
InvalidateLatest(c) ==
    /\ pc[c] = "invalidate"
    /\ otps' = [i \in OtpId |->
                   IF /\ i[2] = channel[c] /\ otps[i] # NoOtp
                      /\ \A j \in OtpId : /\ j[2] = i[2] /\ otps[j] # NoOtp
                                          => otps[j].createdAt <= otps[i].createdAt
                     THEN [otps[i] EXCEPT !.isUsed = TRUE] ELSE otps[i]]
    /\ Goto(c, "create")
    /\ UNCHANGED <<now, account, request, channel, expiresAt, otp, before>>

Invalidate(c) ==
    /\ pc[c] = "invalidate"
    /\ otps' = [i \in OtpId |->
                   IF i[2] = channel[c] /\ otps[i] # NoOtp
                     THEN [otps[i] EXCEPT !.isUsed = TRUE] ELSE otps[i]]
    /\ Goto(c, "create")
    /\ UNCHANGED <<now, account, request, channel, expiresAt, otp, before>>

\* Only resendOtp draws a code; outside production a phone always gets DevCode.
CodesFor(c) ==
    IF channel[c] = "phone" /\ ~Production THEN {DevCode}
    ELSE IF Is(c, "resend") THEN Code
    ELSE {FixedCode}

CreateOtp(c) ==
    /\ pc[c] = "create"
    /\ \E code \in CodesFor(c) :
         otps' = [otps EXCEPT ![<<c, channel[c]>>] =
                    [code |-> code, attempts |-> 0, isUsed |-> FALSE,
                     createdAt |-> now, expiresAt |-> expiresAt[c]]]
    /\ \/ /\ Is(c, "resend") /\ (channel[c] = "email" \/ Production)
          /\ Goto(c, "deliver")
          /\ UNCHANGED channel
       \/ /\ ~Is(c, "resend") /\ channel[c] = "phone" /\ HasEmail
          /\ ToChannel(c, "email")
          /\ Goto(c, IF Is(c, "login") THEN "invalidate" ELSE "create")
       \/ /\ IF Is(c, "resend") THEN channel[c] = "phone" /\ ~Production
                                ELSE channel[c] = "email" \/ ~HasEmail
          /\ Return(c, "sent")
          /\ UNCHANGED channel
    /\ UNCHANGED <<now, account, request, expiresAt, otp, before>>

\* The SMS or email service; that its provider may refuse is part of Fails.
Deliver(c) ==
    /\ pc[c] = "deliver"
    /\ Return(c, "sent")
    /\ UNCHANGED <<now, account, otps, request, channel, expiresAt, otp, before>>

(***************************************************************************)
(* userVerifyOtp reads the latest row that is neither used nor expired and *)
(* judges it by the values it read.                                        *)
(***************************************************************************)
\* Outside production the code DevCode passes for a phone without a row.
Bypass(c) == ~Production /\ request[c].channel = "phone" /\ request[c].code = DevCode

\* Row i is used, exhausted or expired.
Dead(i) == otps[i].isUsed \/ otps[i].attempts >= MaxAttempts \/ otps[i].expiresAt <= now

StartVerify(c) ==
    /\ pc[c] = "start" /\ Is(c, "verify")
    /\ Goto(c, IF Bypass(c) THEN "find_user" ELSE "look_up")
    /\ before' = [before EXCEPT ![c] = {i \in OtpId : otps[i] # NoOtp /\ Dead(i)}]
    /\ UNCHANGED <<now, account, otps, request, channel, expiresAt, otp>>

Unused(i) == otps[i] # NoOtp /\ ~otps[i].isUsed

Candidates(ch) == {i \in OtpId : i[2] = ch /\ Unused(i) /\ otps[i].expiresAt > now}

Latest(ids) == {i \in ids : \A j \in ids : otps[j].createdAt <= otps[i].createdAt}

LookUp(c) ==
    /\ pc[c] = "look_up"
    /\ \/ /\ Candidates(request[c].channel) = {}
          /\ Return(c, "invalid")
          /\ UNCHANGED otp
       \/ /\ \E i \in Latest(Candidates(request[c].channel)) :
               otp' = [otp EXCEPT ![c] = [id |-> i, row |-> otps[i]]]
          /\ Goto(c, "check")
    /\ UNCHANGED <<now, account, otps, request, channel, expiresAt, before>>

Check(c) ==
    /\ pc[c] = "check"
    /\ LET row == otp[c].row
       IN \/ now > row.expiresAt /\ Return(c, "expired")
          \/ /\ now <= row.expiresAt /\ row.attempts >= MaxAttempts
             /\ Return(c, "max_attempts")
          \/ /\ now <= row.expiresAt /\ row.attempts < MaxAttempts
             /\ Goto(c, IF row.code = request[c].code THEN "mark_used" ELSE "increment")
    /\ UNCHANGED <<now, account, otps, request, channel, expiresAt, otp, before>>

\* Faulty variant, for testing WrongCounted: the value read earlier plus one is written.
IncrementRead(c) ==
    /\ pc[c] = "increment"
    /\ otps' = [otps EXCEPT ![otp[c].id].attempts = otp[c].row.attempts + 1]
    /\ Return(c, "wrong_code")
    /\ UNCHANGED <<now, account, request, channel, expiresAt, otp, before>>

\* UPDATE otp_codes SET attempts = attempts + 1
Increment(c) ==
    /\ pc[c] = "increment"
    /\ otps' = [otps EXCEPT ![otp[c].id].attempts = @ + 1]
    /\ Return(c, "wrong_code")
    /\ UNCHANGED <<now, account, request, channel, expiresAt, otp, before>>

\* Faulty variant, for testing RowsOnlyWear: save() of the instance read earlier.
SaveUsed(c) ==
    /\ pc[c] = "mark_used"
    /\ otps' = [otps EXCEPT ![otp[c].id] = [otp[c].row EXCEPT !.isUsed = TRUE]]
    /\ Goto(c, "find_user")
    /\ UNCHANGED <<now, account, request, channel, expiresAt, otp, before>>

\* Faulty variant, for testing TokensSpendARow: the row that passed is left as it is.
SkipMark(c) ==
    /\ pc[c] = "mark_used"
    /\ Goto(c, "find_user")
    /\ UNCHANGED <<now, account, otps, request, channel, expiresAt, otp, before>>

MarkUsed(c) ==
    /\ pc[c] = "mark_used"
    /\ otps' = [otps EXCEPT ![otp[c].id].isUsed = TRUE]
    /\ Goto(c, "find_user")
    /\ UNCHANGED <<now, account, request, channel, expiresAt, otp, before>>

FindUser(c) ==
    /\ pc[c] = "find_user"
    /\ \/ ~Found /\ Return(c, "invalid")
       \/ Found /\ Goto(c, "store_tokens")
    /\ UNCHANGED <<now, account, otps, request, channel, expiresAt, otp, before>>

\* The updates of users by which a verification ends.
StoreTokens(c) ==
    /\ pc[c] = "store_tokens"
    /\ Return(c, "tokens")
    /\ UNCHANGED <<now, account, otps, request, channel, expiresAt, otp, before>>
-----------------------------------------------------------------------------
\* A query or a delivery fails, and with it the call; what was done stays done.
Fails(c) ==
    /\ pc[c] \notin {"check", "done"}
    /\ Return(c, "error")
    /\ UNCHANGED <<now, account, otps, request, channel, expiresAt, otp, before>>

\* DELETE /users/me
DeleteMe ==
    /\ account = "active"
    /\ account' = "deleted"
    /\ UNCHANGED <<now, otps, request, pc, channel, expiresAt, otp, outcome, before>>

Tick ==
    /\ now < MaxTime
    /\ now' = now + 1
    /\ UNCHANGED <<account, otps, request, pc, channel, expiresAt, otp, outcome, before>>

Step(c) ==
    \/ StartSignup(c) \/ CheckEmail(c) \/ CreateUser(c)
    \/ StartRenewal(c) \/ Invalidate(c) \/ CreateOtp(c) \/ Deliver(c)
    \/ StartVerify(c) \/ LookUp(c) \/ Check(c) \/ Increment(c) \/ MarkUsed(c)
    \/ FindUser(c) \/ StoreTokens(c) \/ Fails(c)

Next == (\E c \in Call : Step(c)) \/ DeleteMe \/ Tick

Spec == Init /\ [][Next]_vars
-----------------------------------------------------------------------------
\* Sign-up c has inserted the account.
Created(c) == Is(c, "signup") /\ (pc[c] = "create" \/ outcome[c] = "sent")

\* Of two sign-ups that both found the phone free, the unique index lets one through.
OneAccount == \A c, d \in Call : Created(c) /\ Created(d) => c = d

Wrong(i) == {c \in Call : outcome[c] = "wrong_code" /\ otp[c].id = i}

\* No wrong code goes uncounted, whatever verifications of the same row run at once: the
\* attempts of a row are the calls that were told their code is wrong for it.
WrongCounted ==
    \A i \in OtpId : otps[i] # NoOtp => otps[i].attempts = Cardinality(Wrong(i))

\* The row that call c read is used, and is for what c carries.
Spent(c) ==
    \E i \in OtpId : /\ otp[c].id = i
                     /\ otps[i] # NoOtp /\ otps[i].isUsed
                     /\ otps[i].code = request[c].code
                     /\ i[2] = request[c].channel

\* A verification that answers with tokens has spent a row, the one it read: the row is
\* used and holds the code sent, for the phone or email sent.  The development bypass
\* is the only other way to the tokens.
TokensSpendARow ==
    \A c \in Call : outcome[c] = "tokens" => Bypass(c) \/ Spent(c)

\* Updates that cross each other never revive a row: a used row stays used, attempts only
\* grow, and the code and its times never change.
RowsOnlyWear ==
    [][\A i \in OtpId : otps[i] # NoOtp =>
          /\ otps'[i] # NoOtp
          /\ otps[i].isUsed => otps'[i].isUsed
          /\ otps'[i].attempts >= otps[i].attempts
          /\ otps'[i].code = otps[i].code
          /\ otps'[i].createdAt = otps[i].createdAt
          /\ otps'[i].expiresAt = otps[i].expiresAt]_vars

\* A login, or a resend on its channel, that answers leaves no row unused that was there
\* when it started, however many earlier renewals that raced left behind.
RenewalSupersedes ==
    \A c \in Call : outcome[c] = "sent" => \A i \in before[c] : otps[i].isUsed

\* A row that is used, exhausted or expired when a verification starts never passes it,
\* though the verification judges a copy of the row.
SpentStaysSpent ==
    \A c \in Call : outcome[c] = "tokens" => otp[c].id \notin before[c]
-----------------------------------------------------------------------------
Running(c) == pc[c] # "done" => outcome[c] = "none"

\* No row of call c exists before it inserts one.
RowsToCome(c) ==
    /\ pc[c] \in {"start", "check_email", "create_user"} =>
          \A ch \in Channel : otps[<<c, ch>>] = NoOtp
    /\ pc[c] \in {"invalidate", "create"} =>
          /\ otps[<<c, channel[c]>>] = NoOtp
          /\ channel[c] = "phone" => \A ch \in Channel : otps[<<c, ch>>] = NoOtp

\* What a verification read is a row of its channel, with the code it still has.
ReadARow(c) ==
    /\ pc[c] \in {"start", "check_email", "create_user", "invalidate", "create", "deliver",
                  "look_up"} => otp[c] = NoRead
    /\ pc[c] \in {"check", "increment", "mark_used"} => otp[c] # NoRead
    /\ otp[c] # NoRead =>
          /\ otp[c].id \in OtpId
          /\ otps[otp[c].id] # NoOtp
          /\ otps[otp[c].id].code = otp[c].row.code
          /\ otp[c].id[2] = request[c].channel
    /\ pc[c] = "mark_used" => otp[c].row.code = request[c].code

Passed(c) == pc[c] \in {"find_user", "store_tokens"} \/ outcome[c] = "tokens"

\* What a renewal has marked used so far of the rows it found.
Renewed(c) ==
    /\ \A i \in before[c] : otps[i] # NoOtp
    /\ Is(c, "signup") => before[c] = {}
    /\ Is(c, "login") \/ Is(c, "resend") =>
          /\ \A i \in before[c] : Renews(c, i)
          /\ pc[c] = "create" => \A i \in before[c] : i[2] = channel[c] => otps[i].isUsed
          /\ pc[c] \in {"invalidate", "create"} /\ Is(c, "resend") => channel[c] = request[c].channel
          /\ pc[c] \in {"invalidate", "create"} /\ Is(c, "login") /\ channel[c] = "email"
                => \A i \in before[c] : i[2] = "phone" => otps[i].isUsed
          /\ pc[c] = "deliver" \/ outcome[c] = "sent" => \A i \in before[c] : otps[i].isUsed

\* The rows that were dead stay so, and none of them passed.
Judged(c) ==
    Is(c, "verify") =>
        /\ \A i \in before[c] : Dead(i)
        /\ pc[c] = "check" /\ otp[c].id \in before[c] => otp[c].row.attempts >= MaxAttempts
        /\ pc[c] = "mark_used" \/ Passed(c) => otp[c].id \notin before[c]

\* Which requests reach which awaits.
KindAt(c) ==
    /\ pc[c] \in {"check_email", "create_user"} => Is(c, "signup")
    /\ pc[c] \in {"invalidate", "deliver"} => Is(c, "login") \/ Is(c, "resend")
    /\ pc[c] = "create" => ~Is(c, "verify")
    /\ pc[c] \in {"look_up", "check", "increment", "mark_used"} \/ Passed(c) => Is(c, "verify")
    /\ outcome[c] = "sent" => ~Is(c, "verify")

\* The inductive invariant.
Inv ==
    /\ TypeOK
    /\ \A c \in Call : /\ Running(c)
                       /\ RowsToCome(c)
                       /\ ReadARow(c)
                       /\ Passed(c) => Bypass(c) \/ Spent(c)
                       /\ Created(c) => account # "none"
                       /\ KindAt(c)
                       /\ Renewed(c)
                       /\ Judged(c)
    /\ OneAccount
    /\ \A i \in OtpId : otps[i] # NoOtp => IsFiniteSet(Wrong(i))
    /\ WrongCounted
=============================================================================
