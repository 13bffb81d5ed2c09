--------------------------- MODULE AccountsProofs ---------------------------
(* Theorems about Accounts, for any calls, accounts, values and requests.  *)
EXTENDS Accounts, TLAPS

Asks == {"sign_in", "refresh", "logout", "become_tradie", "update_me", "update_avatar",
         "delete_me", "erase", "admin_login", "change_password"}

\* What a call may set, and to which values: only deleteMe and deleteUser set the status,
\* only becomeTradie the role.
LEMMA AskedType ==
  ASSUME TypeOK, NEW c \in Call, Is(c, Asks)
  PROVE  /\ DOMAIN Asked(c) \subseteq Column
         /\ \A col \in DOMAIN Asked(c) : Asked(c)[col] \in Held
         /\ "status" \in DOMAIN Asked(c) => Asked(c)["status"] = "deleted"
         /\ "isPhoneVerified" \in DOMAIN Asked(c) => Asked(c)["isPhoneVerified"] \in Flag
         /\ "refreshToken" \in DOMAIN Asked(c) => Asked(c)["refreshToken"] \in Call \cup {Null}
         /\ "role" \in DOMAIN Asked(c) => Is(c, {"become_tradie"}) /\ Asked(c)["role"] = "tradie"
         /\ Is(c, {"become_tradie"}) => DOMAIN Asked(c) = {"role", "refreshToken"}
         /\ Is(c, {"logout", "refresh", "admin_login"}) => DOMAIN Asked(c) = {"refreshToken"}
         /\ Is(c, {"sign_in"}) =>
              /\ "refreshToken" \in DOMAIN Asked(c)
              /\ DOMAIN Asked(c) \subseteq {"refreshToken", "isPhoneVerified"}
              /\ request[c].fields["phone"] = Null => "isPhoneVerified" \notin DOMAIN Asked(c)
              /\ "isPhoneVerified" \in DOMAIN Asked(c) => Asked(c)["isPhoneVerified"] = "yes"
<1> DEFINE f == request[c].fields
           given == [col \in {k \in DOMAIN f : f[k] # Null} |-> f[col]]
<1>1. IsRequest(request[c])
  BY RequestAssumption DEF TypeOK
<1>2. f \in [{"email", "phone", "avatar", "password"} -> Value \cup {Null}]
  BY <1>1 DEF IsRequest
<1>3. DOMAIN given \subseteq {"email", "phone", "avatar", "password"}
      /\ \A col \in DOMAIN given : given[col] \in Value
  BY <1>2
<1> HIDE DEF given
<1>4. CASE Is(c, {"update_me", "update_avatar", "change_password"})
  <2>1. Asked(c) = given
    BY <1>4 DEF Asked, Is, given
  <2> QED
    BY <1>3, <1>4, <2>1 DEF Column, Held, Is
<1>5. CASE Is(c, {"delete_me"})
  <2>1. Asked(c) = [col \in {"status"} |-> "deleted"]
    BY <1>5 DEF Asked, Is
  <2> QED
    BY <1>5, <2>1 DEF Column, Held, Status, Is
<1>6. CASE Is(c, {"erase"})
  <2>1. Asked(c) = [col \in Column \ {"role"} |->
                  CASE col = "status" -> "deleted"
                    [] col = "phone" -> DeletedPhone[request[c].account]
                    [] col = "isPhoneVerified" -> "no"
                    [] OTHER -> Null]
    BY <1>6 DEF Asked, Is
  <2>2. DeletedPhone[request[c].account] \in Value
    BY <1>1, <1>6, PhoneAssumption DEF IsRequest, Is
  <2> QED
    BY <1>6, <2>1, <2>2 DEF Column, Held, Status, Flag, Is
<1>7. CASE Is(c, {"logout"})
  <2>1. Asked(c) = [col \in {"refreshToken"} |-> Null]
    BY <1>7 DEF Asked, Is
  <2> QED
    BY <1>7, <2>1 DEF Column, Held, Is
<1>8. CASE Is(c, {"refresh", "admin_login"})
  <2>1. Asked(c) = [col \in {"refreshToken"} |-> c]
    BY <1>8 DEF Asked, Is
  <2> QED
    BY <1>8, <2>1 DEF Column, Held, Is
<1>9. CASE Is(c, {"become_tradie"})
  <2>1. Asked(c) = [col \in {"role", "refreshToken"} |-> IF col = "role" THEN "tradie" ELSE c]
    BY <1>9 DEF Asked, Is
  <2> QED
    BY <1>9, <2>1 DEF Column, Held, Role, Is
<1>10. CASE Is(c, {"sign_in"})
  <2>1. Asked(c) = [col \in {"refreshToken"} \cup
                       (IF f["phone"] # Null THEN {"isPhoneVerified"} ELSE {})
                      |-> IF col = "refreshToken" THEN c ELSE "yes"]
    BY <1>10 DEF Asked, Is
  <2> QED
    BY <1>10, <2>1 DEF Column, Held, Flag, Is
<1> QED
  BY <1>4, <1>5, <1>6, <1>7, <1>8, <1>9, <1>10 DEF Is, Asks


\* Before the first call arrives.
LEMMA Initially == Init => Inv
<1> SUFFICES ASSUME Init PROVE Inv
  OBVIOUS
<1> USE NullAssumption
<1>1. PICK t \in Table : accounts = t.accounts /\ profile = t.profile
  BY DEF Init
<1>2. /\ accounts \in [Account -> [Column -> Held]]
      /\ \A a \in Account : IsRow(accounts[a]) /\ accounts[a]["refreshToken"] = Null
      /\ Unique(accounts)
      /\ profile \in [User -> ProfileStatus]
      /\ \A a \in Admin : accounts[a]["role"] # "tradie"
  BY <1>1, TableAssumption
<1>3. \A c \in Call : IsRequest(request[c])
  BY RequestAssumption DEF Init
<1>4. target \in [Call -> Account \cup {Null}]
  <2>1. \A c \in Call : request[c].account \in Account
    BY <1>3 DEF IsRequest
  <2> QED
    BY <2>1 DEF Init
<1>5. TypeOK
  <2>1. request \in [Call -> Request] /\ pc \in [Call -> Label] /\ outcome \in [Call -> Outcomes]
    BY DEF Init, Label, Outcomes
  <2>2. instance \in [Call -> [Column -> Held \cup {NotLoaded}]]
    <3>1. [col \in Column |-> Null] \in [Column -> Held \cup {NotLoaded}]
      BY DEF Held
    <3> QED
      BY <3>1 DEF Init
  <2>4. \A c \in Call : instance[c]["role"] \in Role \cup {Null}
    BY DEF Init, Column
  <2>3. issued \in [Call -> Role \cup {Null}] /\ earned \in SUBSET User
        /\ before \in [Call -> SUBSET Call] /\ touched \in [Call -> SUBSET Column]
    BY DEF Init
  <2> QED
    BY <1>2, <1>4, <2>1, <2>2, <2>3, <2>4 DEF TypeOK
<1>6. ASSUME NEW c \in Call
      PROVE  Placed(c) /\ Copied(c) /\ Sticking(c) /\ Earned(c) /\ Following(c)
  <2>1. target[c] = IF request[c].kind = "sign_in" THEN Null ELSE request[c].account
    BY DEF Init
  <2> QED
    BY <2>1 DEF Init, Placed, Copied, Sticking, Earned, Following, Promoted, Answered, Is
<1>7. RoleEarned /\ \A u \in User : profile[u] = "approved" => u \in earned
  BY DEF Init, RoleEarned, Role
<1> QED
  BY <1>2, <1>5, <1>6, <1>7 DEF Inv, OneOwner

\* What the invariant says of one call.
Sound(c) ==
    /\ Placed(c) /\ Copied(c) /\ Sticking(c) /\ Earned(c) /\ Following(c)
    /\ issued[c] = "tradie" => target[c] \in earned

\* What it says of the rows.
Rows ==
    /\ OneOwner
    /\ \A u \in User : accounts[u]["role"] = "tradie" \/ profile[u] = "approved" => u \in earned
    /\ \A a \in Admin : accounts[a]["role"] # "tradie"

LEMMA InvIsSoundness == Inv <=> TypeOK /\ Rows /\ \A c \in Call : Sound(c)
BY DEF Inv, Sound, Rows, RoleEarned

LEMMA NextSoundness == TypeOK' /\ Rows' /\ (\A c \in Call : Sound(c)') => Inv'
BY DEF Inv, Sound, Rows, RoleEarned

\* A call stays sound while it waits and the history keeps track of its row.
LEMMA Undisturbed ==
  ASSUME Inv, NEW d \in Call, request' = request, pc'[d] = pc[d], target'[d] = target[d],
         instance'[d] = instance[d], issued'[d] = issued[d], outcome'[d] = outcome[d],
         before'[d] = before[d], touched[d] \subseteq touched'[d],
         target[d] \in Account =>
             /\ \A col \in Column : \/ accounts'[target[d]][col] = accounts[target[d]][col]
                                    \/ col \in touched'[d]
             /\ accounts[target[d]]["role"] = "tradie" => accounts'[target[d]]["role"] = "tradie",
         earned \subseteq earned',
         \A e \in Call : pc[e] = "done" =>
             pc'[e] = "done" /\ outcome'[e] = outcome[e] /\ target'[e] = target[e]
  PROVE  Sound(d)'
<1>1. Sound(d) /\ target[d] \in Account \cup {Null} /\ before[d] \subseteq Call
  BY InvIsSoundness DEF TypeOK
<1>2. \A e \in before[d] : pc[e] = "done"
  BY <1>1 DEF Sound, Placed
<1>3. Placed(d)'
  BY <1>1, <1>2 DEF Sound, Placed, Answered, Is
<1>4. pc[d] \notin {"start", "find", "done"} \/ Answered(d) => target[d] \in Account
  BY <1>1 DEF Sound, Placed
<1>5. Copied(d)'
  BY <1>1, <1>4 DEF Sound, Copied
<1>6. Asked(d)' = Asked(d)
  BY DEF Asked, Is
<1>7. Answered(d) \/ pc[d] \in {"store_token", "refetch"} => DOMAIN Asked(d) \subseteq Column
  BY <1>1, AskedType, InvIsSoundness DEF Sound, Placed, Answered, Is, Asks
<1>8. Sticking(d)'
  <2>1. ASSUME NEW col \in Column, target[d] \in Account, Holds(d, col) PROVE Holds(d, col)'
    BY <1>6, <2>1 DEF Holds
  <2>2. CASE Answered(d) \/ pc[d] \in {"store_token", "refetch"}
    <3> DEFINE asked == DOMAIN Asked(d)
    <3>1. asked' = asked /\ asked \subseteq Column /\ target[d] \in Account
      BY <1>4, <1>6, <1>7, <2>2
    <3>2. pc[d] = "store_token" => \A col \in asked \ {"refreshToken"} : Holds(d, col)
      BY <1>1 DEF Sound, Sticking
    <3>3. pc[d] = "refetch" \/ Answered(d) => \A col \in asked : Holds(d, col)
      BY <1>1 DEF Sound, Sticking
    <3>4. Answered(d)' <=> Answered(d)
      BY DEF Answered
    <3> HIDE DEF asked
    <3>5. pc[d] = "store_token" => \A col \in asked \ {"refreshToken"} : Holds(d, col)'
      BY <2>1, <3>1, <3>2
    <3>6. pc[d] = "refetch" \/ Answered(d) => \A col \in asked : Holds(d, col)'
      BY <2>1, <3>1, <3>3
    <3> QED
      BY <3>1, <3>4, <3>5, <3>6 DEF Sticking, asked
  <2>3. CASE ~Answered(d) /\ pc[d] \notin {"store_token", "refetch"}
    BY <2>3 DEF Sticking, Answered
  <2> QED
    BY <2>2, <2>3
<1>9. Earned(d)'
  BY <1>1 DEF Sound, Earned, Is
<1>10. Following(d)'
  <2>1. \A e \in before[d] : Promoted(e)' <=> Promoted(e)
    BY <1>1, <1>2 DEF Promoted, Is
  <2>2. Promoted(d)' <=> Promoted(d)
    BY DEF Promoted, Is
  <2>3. \A e \in before[d] : target'[e] = target[e]
    BY <1>1, <1>2
  <2>4. Is(d, {"become_tradie"})' <=> Is(d, {"become_tradie"})
    BY DEF Is
  <2>5. outcome[d] = "tokens" => target[d] \in Account
    BY <1>4 DEF Answered
  <2> QED
    BY <1>1, <1>4, <2>1, <2>2, <2>3, <2>4, <2>5 DEF Sound, Following
<1> QED
  BY <1>1, <1>3, <1>5, <1>8, <1>9, <1>10 DEF Sound

\* While call c runs, the others keep their places.
LEMMA Others ==
  ASSUME Inv, NEW c \in Call, pc[c] # "done", request' = request,
         earned \subseteq earned',
         \A d \in Call \ {c} :
             /\ pc'[d] = pc[d] /\ target'[d] = target[d] /\ instance'[d] = instance[d]
             /\ issued'[d] = issued[d] /\ outcome'[d] = outcome[d] /\ before'[d] = before[d]
             /\ touched[d] \subseteq touched'[d]
             /\ target[d] \in Account =>
                  /\ \A col \in Column :
                        \/ accounts'[target[d]][col] = accounts[target[d]][col]
                        \/ col \in touched'[d]
                  /\ accounts[target[d]]["role"] = "tradie"
                        => accounts'[target[d]]["role"] = "tradie"
  PROVE  \A d \in Call \ {c} : Sound(d)'
<1> SUFFICES ASSUME NEW d \in Call \ {c} PROVE Sound(d)'
  OBVIOUS
<1>1. \A e \in Call : pc[e] = "done" =>
         pc'[e] = "done" /\ outcome'[e] = outcome[e] /\ target'[e] = target[e]
  OBVIOUS
<1> QED
  BY <1>1, Undisturbed

\* A step that leaves the rows alone.
LEMMA Reading ==
  ASSUME Inv, NEW c \in Call, pc[c] # "done", TypeOK', Sound(c)',
         UNCHANGED <<accounts, profile, request, earned>>,
         \A d \in Call \ {c} :
             /\ pc'[d] = pc[d] /\ target'[d] = target[d] /\ instance'[d] = instance[d]
             /\ issued'[d] = issued[d] /\ outcome'[d] = outcome[d] /\ before'[d] = before[d]
             /\ touched'[d] = touched[d]
  PROVE  Inv'
<1>1. \A d \in Call \ {c} : Sound(d)'
  BY Others
<1>2. Rows'
  BY InvIsSoundness DEF Rows, OneOwner, Unique
<1> QED
  BY <1>1, <1>2, NextSoundness

\* A call that moves on, or answers without tokens and without having written.
LEMMA Moving ==
  ASSUME Inv, NEW c \in Call, pc[c] # "done", pc[c] # "refetch",
         UNCHANGED <<accounts, profile, request, target, instance, issued, earned, before, touched>>,
         \/ \E o \in Outcomes \ {"ok", "tokens", "none"} : Return(c, o)
         \/ \E l \in {"check_phone", "find"} :
              /\ Goto(c, l)
              /\ l = "check_phone" => Is(c, {"update_me"})
              /\ Is(c, {"update_me", "become_tradie"})
              /\ pc[c] # "start" /\ ~(Is(c, {"become_tradie"}) /\ target[c] \notin earned)
  PROVE  Inv'
<1>1. TypeOK /\ Sound(c)
  BY InvIsSoundness
<1>2. /\ \A d \in Call \ {c} : pc'[d] = pc[d] /\ outcome'[d] = outcome[d]
      /\ \/ /\ pc'[c] \in {"check_phone", "find"} /\ outcome'[c] = outcome[c]
            /\ pc'[c] = "check_phone" => Is(c, {"update_me"})
            /\ Is(c, {"update_me", "become_tradie"})
            /\ pc[c] # "start" /\ ~(Is(c, {"become_tradie"}) /\ target[c] \notin earned)
         \/ pc'[c] = "done" /\ outcome'[c] \in Outcomes \ {"ok", "tokens", "none"}
  BY <1>1 DEF Return, Goto, TypeOK
<1>3. TypeOK'
  <2>1. pc' \in [Call -> Label] /\ outcome' \in [Call -> Outcomes]
    <3>1. CASE \E o \in Outcomes \ {"ok", "tokens", "none"} : Return(c, o)
      BY <1>1, <3>1 DEF TypeOK, Return, Label
    <3>2. CASE \E l \in {"check_phone", "find"} : Goto(c, l)
      BY <1>1, <3>2 DEF TypeOK, Goto, Label
    <3> QED
      BY <3>1, <3>2
  <2> QED
    BY <1>1, <2>1 DEF TypeOK
<1>4. ASSUME NEW e \in Call PROVE pc[e] = "done" => pc'[e] = "done" /\ outcome'[e] = outcome[e]
  BY <1>2
<1>5. \A e \in before[c] : e \in Call /\ pc[e] = "done"
  BY <1>1 DEF Sound, Placed, TypeOK
<1>6. Placed(c)'
  <2>1. Placed(c)
    BY <1>1 DEF Sound
  <2>2. \A e \in before[c] : pc'[e] = "done"
    BY <1>4, <1>5
  <2>3. Is(c, {"update_me"}) => target[c] # Null
    <3>1. IsRequest(request[c])
      BY <1>1, RequestAssumption DEF TypeOK
    <3> QED
      BY <2>1, <3>1, NullAssumption DEF Placed, Is, IsRequest
  <2>4. /\ pc'[c] \notin {"find", "done"} => Is(c, {"update_me"})
        /\ pc'[c] = "find" => Is(c, {"update_me", "become_tradie"})
    BY <1>2
  <2>5. pc'[c] = "done" => outcome'[c] \notin {"ok", "tokens"}
    BY <1>2
  <2>6. outcome[c] = "none"
    BY <2>1 DEF Placed
  <2> QED
    BY <1>2, <2>1, <2>2, <2>3, <2>4, <2>5, <2>6 DEF Placed, Answered, Is
<1>7. outcome[c] = "none"
  BY <1>1 DEF Sound, Placed
<1>8. Copied(c)' /\ Sticking(c)'
  BY <1>2, <1>7 DEF Copied, Sticking, Answered
<1>9. Earned(c)'
  BY <1>1, <1>2 DEF Sound, Earned, Is
<1>10. Following(c)'
  BY <1>2, <1>7 DEF Following, Promoted
<1>11. Sound(c)'
  BY <1>1, <1>6, <1>8, <1>9, <1>10 DEF Sound
<1> QED
  BY <1>2, <1>3, <1>11, Reading

\* A query of a call that writes: its row becomes what the call asked in the columns
\* written, and the others learn of it.
LEMMA Writing ==
  ASSUME Inv, NEW c \in Call, Is(c, Asks), pc[c] \notin {"start", "find", "done"},
         NEW cols, cols \subseteq DOMAIN Asked(c), Write(c, cols), earned' = earned,
         UNCHANGED request,
         \A d \in Call \ {c} :
             /\ pc'[d] = pc[d] /\ target'[d] = target[d] /\ instance'[d] = instance[d]
             /\ issued'[d] = issued[d] /\ outcome'[d] = outcome[d] /\ before'[d] = before[d]
  PROVE  /\ target[c] \in Account
         /\ accounts' \in [Account -> [Column -> Held]] /\ \A a \in Account : IsRow(accounts'[a])
         /\ touched' \in [Call -> SUBSET Column] /\ touched'[c] = touched[c] \ cols
         /\ \A col \in Column : accounts'[target[c]][col] =
                IF col \in cols THEN Asked(c)[col] ELSE accounts[target[c]][col]
         /\ \A a \in Account \ {target[c]} : accounts'[a] = accounts[a]
         /\ \A d \in Call \ {c} : Sound(d)'
<1> DEFINE t == target[c]
           asked == Asked(c)
<1>1. TypeOK /\ Sound(c) /\ t \in Account
  BY InvIsSoundness DEF TypeOK, Sound, Placed
<1>2. /\ DOMAIN asked \subseteq Column /\ \A col \in DOMAIN asked : asked[col] \in Held
      /\ "status" \in DOMAIN asked => asked["status"] = "deleted"
      /\ "isPhoneVerified" \in DOMAIN asked => asked["isPhoneVerified"] \in Flag
      /\ "refreshToken" \in DOMAIN asked => asked["refreshToken"] \in Call \cup {Null}
      /\ "role" \in DOMAIN asked => asked["role"] = "tradie"
  BY <1>1, AskedType
<1>3. accounts \in [Account -> [Column -> Held]] /\ \A a \in Account : IsRow(accounts[a])
  BY <1>1 DEF TypeOK
<1> HIDE DEF asked
<1>4. accounts' = [accounts EXCEPT ![t] = Set(accounts[t], cols, asked)]
  BY <1>1, <1>3 DEF Write, asked
<1>5. Set(accounts[t], cols, asked)
         = [col \in Column |-> IF col \in cols THEN asked[col] ELSE accounts[t][col]]
  BY <1>1, <1>3 DEF Set
<1>6. /\ accounts'[t] = Set(accounts[t], cols, asked)
      /\ \A a \in Account \ {t} : accounts'[a] = accounts[a]
  BY <1>1, <1>3, <1>4
<1>7. \A col \in Column :
         accounts'[t][col] = IF col \in cols THEN asked[col] ELSE accounts[t][col]
  BY <1>5, <1>6
<1>8. cols \subseteq DOMAIN asked
  BY DEF asked
<1>9. Set(accounts[t], cols, asked) \in [Column -> Held]
  BY <1>1, <1>2, <1>3, <1>5, <1>8
<1>10. accounts' \in [Account -> [Column -> Held]]
  BY <1>1, <1>3, <1>4, <1>9
<1>11. IsRow(accounts'[t])
  <2>1. {"status", "role", "isPhoneVerified", "refreshToken"} \subseteq Column
    BY DEF Column
  <2>2. IsRow(accounts[t]) /\ accounts'[t] \in [Column -> Held]
    BY <1>1, <1>3, <1>6, <1>9
  <2> QED
    BY <1>2, <1>7, <1>8, <2>1, <2>2 DEF IsRow, Status, Role
<1>12. /\ touched' \in [Call -> SUBSET Column] /\ touched'[c] = touched[c] \ cols
       /\ \A d \in Call \ {c} : /\ touched[d] \subseteq touched'[d]
                                /\ target[d] = t => cols \subseteq touched'[d]
  <2>1. touched \in [Call -> SUBSET Column] /\ cols \subseteq Column
    BY <1>1, <1>2, <1>8 DEF TypeOK
  <2> QED
    BY <2>1 DEF Write, Touch
<1>13. \A d \in Call \ {c} : Sound(d)'
  <2>1. ASSUME NEW d \in Call \ {c}, target[d] \in Account
        PROVE  /\ \A col \in Column : \/ accounts'[target[d]][col] = accounts[target[d]][col]
                                      \/ col \in touched'[d]
               /\ accounts[target[d]]["role"] = "tradie" => accounts'[target[d]]["role"] = "tradie"
    <3>1. CASE target[d] = t
      <4>1. "role" \in Column
        BY DEF Column
      <4> QED
        BY <1>2, <1>7, <1>8, <1>12, <3>1, <4>1
    <3>2. CASE target[d] # t
      BY <1>6, <2>1, <3>2
    <3> QED
      BY <3>1, <3>2
  <2> QED
    BY <1>12, <2>1, Others
<1> QED
  BY <1>1, <1>3, <1>6, <1>7, <1>10, <1>11, <1>12, <1>13 DEF asked

\* What a write leaves of the rows' invariant.
LEMMA RowsKept ==
  ASSUME Inv, NEW c \in Call, target[c] \in Account, NEW cols, cols \subseteq DOMAIN Asked(c),
         \A col \in Column : accounts'[target[c]][col] =
                IF col \in cols THEN Asked(c)[col] ELSE accounts[target[c]][col],
         \A a \in Account \ {target[c]} : accounts'[a] = accounts[a],
         "role" \in cols => Asked(c)["role"] = "tradie" /\ target[c] \in User \cap earned,
         cols \cap {"phone", "email"} = {} \/ Unique(accounts'),
         \A u \in User : profile'[u] = "approved" => profile[u] = "approved",
         earned' = earned
  PROVE  Rows'
<1>1. Rows /\ {"role", "phone", "email"} \subseteq Column
  BY InvIsSoundness DEF Column
<1>2. OneOwner'
  <2>1. CASE Unique(accounts')
    BY <2>1 DEF OneOwner, Unique
  <2>2. CASE cols \cap {"phone", "email"} = {}
    <3>1. \A u \in User : accounts'[u]["phone"] = accounts[u]["phone"]
                          /\ accounts'[u]["email"] = accounts[u]["email"]
      BY <1>1, <2>2 DEF Account
    <3> QED
      BY <1>1, <3>1 DEF Rows, OneOwner, Unique
  <2> QED
    BY <2>1, <2>2
<1>3. \A a \in Account : accounts'[a]["role"] # accounts[a]["role"] =>
          accounts'[a]["role"] = "tradie" /\ a \in User \cap earned
  BY <1>1
<1> QED
  BY <1>1, <1>2, <1>3, AccountAssumption DEF Rows, Account

LEMMA Arriving == ASSUME Inv, NEW c \in Call, Arrive(c) PROVE Inv'
<1>1. TypeOK /\ Sound(c) /\ outcome[c] = "none" /\ pc[c] = "start"
  BY InvIsSoundness DEF Sound, Placed, Arrive
<1>2. IsRequest(request[c])
  BY <1>1, RequestAssumption DEF TypeOK
<1>3. /\ pc'[c] = CASE Is(c, {"logout"}) -> "clear_token"
                    [] Is(c, {"become_tradie"}) -> "read_profile"
                    [] Is(c, {"update_me"}) ->
                          IF request[c].fields["email"] # Null THEN "check_email"
                          ELSE IF request[c].fields["phone"] # Null THEN "check_phone"
                          ELSE "find"
                    [] Is(c, {"set_up", "approve", "reject"}) -> "profile"
                    [] OTHER -> "find"
      /\ \A d \in Call \ {c} : pc'[d] = pc[d] /\ before'[d] = before[d]
      /\ before'[c] = {d \in Call : pc[d] = "done"}
      /\ outcome' = outcome
  BY <1>1 DEF TypeOK, Arrive, Goto
<1>4. /\ pc'[c] \in {"clear_token", "read_profile", "check_email", "check_phone", "find", "profile"}
      /\ pc'[c] = "clear_token" => Is(c, {"logout"})
      /\ pc'[c] = "read_profile" => Is(c, {"become_tradie"})
      /\ pc'[c] \in {"check_email", "check_phone"} => Is(c, {"update_me"})
      /\ pc'[c] = "profile" => Is(c, {"set_up", "approve", "reject"})
      /\ pc'[c] = "find" => ~Is(c, {"become_tradie"})
  BY <1>3 DEF Is
<1>5. UNCHANGED <<accounts, profile, request, target, instance, issued, earned, touched>>
  BY DEF Arrive
<1>6. TypeOK'
  <2>1. pc' \in [Call -> Label] /\ before' \in [Call -> SUBSET Call]
    <3>1. pc' = [pc EXCEPT ![c] = pc'[c]] /\ pc'[c] \in Label
      BY <1>1, <1>4 DEF TypeOK, Arrive, Goto, Label
    <3>2. before' = [before EXCEPT ![c] = {d \in Call : pc[d] = "done"}]
      BY DEF Arrive
    <3> QED
      BY <1>1, <3>1, <3>2 DEF TypeOK
  <2> QED
    BY <1>1, <1>3, <1>5, <2>1 DEF TypeOK
<1>7. pc'[c] # "find" => target[c] # Null
  BY <1>1, <1>2, <1>4, NullAssumption DEF Sound, Placed, Is, IsRequest
<1>8. Placed(c)'
  <2>1. \A d \in before'[c] : pc'[d] = "done"
    BY <1>1, <1>3
  <2> QED
    BY <1>1, <1>3, <1>4, <1>5, <1>7, <2>1 DEF Sound, Placed, Answered, Is
<1>9. Copied(c)' /\ Sticking(c)' /\ Following(c)'
  BY <1>1, <1>3, <1>4 DEF Copied, Sticking, Following, Promoted, Answered
<1>10. Earned(c)'
  BY <1>1, <1>4, <1>5 DEF Earned, Is
<1>11. Sound(c)'
  BY <1>1, <1>5, <1>8, <1>9, <1>10 DEF Sound
<1> QED
  BY <1>1, <1>3, <1>5, <1>6, <1>11, Reading

LEMMA Checking ==
  ASSUME Inv, NEW c \in Call, CheckEmail(c) \/ CheckPhone(c) \/ ReadProfile(c) PROVE Inv'
<1>1. TypeOK /\ Sound(c)
  BY InvIsSoundness
<1>2. CASE CheckEmail(c)
  <2>1. Is(c, {"update_me"})
    BY <1>1, <1>2 DEF Sound, Placed, CheckEmail
  <2> QED
    BY <1>2, <2>1, Moving DEF CheckEmail, Is, Outcomes
<1>3. CASE CheckPhone(c)
  <2>1. Is(c, {"update_me"})
    BY <1>1, <1>3 DEF Sound, Placed, CheckPhone
  <2> QED
    BY <1>3, <2>1, Moving DEF CheckPhone, Is, Outcomes
<1>4. CASE ReadProfile(c)
  <2>1. Is(c, {"become_tradie"}) /\ target[c] \in User
    <3>1. Is(c, {"become_tradie"})
      BY <1>1, <1>4 DEF Sound, Placed, ReadProfile
    <3>2. IsRequest(request[c])
      BY <1>1, RequestAssumption DEF TypeOK
    <3> QED
      BY <1>1, <3>1, <3>2 DEF Sound, Placed, IsRequest, Is
  <2>2. profile[target[c]] = "approved" => target[c] \in earned
    BY <2>1, InvIsSoundness DEF Rows
  <2> QED
    BY <1>4, <2>1, <2>2, Moving DEF ReadProfile, Is, Outcomes
<1> QED
  BY <1>2, <1>3, <1>4

\* A call that fails answers nothing that another relies on.
LEMMA Failing == ASSUME Inv, NEW c \in Call, Fails(c) PROVE Inv'
<1>1. TypeOK /\ Sound(c) /\ outcome[c] = "none" /\ pc[c] \notin {"start", "done"}
  BY InvIsSoundness DEF Sound, Placed, Fails
<1>2. /\ pc'[c] = "done" /\ outcome'[c] \in {"unauthorized", "error"}
      /\ \A d \in Call \ {c} : pc'[d] = pc[d] /\ outcome'[d] = outcome[d]
      /\ UNCHANGED <<accounts, profile, request, target, instance, issued, earned, before, touched>>
  BY <1>1 DEF Fails, Return, TypeOK
<1>3. TypeOK'
  <2>1. pc' \in [Call -> Label] /\ outcome' \in [Call -> Outcomes]
    BY <1>1 DEF TypeOK, Fails, Return, Label, Outcomes
  <2> QED
    BY <1>1, <1>2, <2>1 DEF TypeOK
<1>4. \A e \in before[c] : pc'[e] = "done"
  BY <1>1, <1>2 DEF Sound, Placed, TypeOK
<1>5. Placed(c)'
  BY <1>1, <1>2, <1>4 DEF Sound, Placed, Answered, Is
<1>6. Copied(c)' /\ Sticking(c)' /\ Earned(c)' /\ Following(c)'
  BY <1>2 DEF Copied, Sticking, Earned, Following, Promoted, Answered
<1>7. Sound(c)'
  BY <1>1, <1>2, <1>5, <1>6 DEF Sound
<1> QED
  BY <1>1, <1>2, <1>3, <1>7, Reading

LEMMA Refetching == ASSUME Inv, NEW c \in Call, Refetch(c) PROVE Inv'
<1>1. TypeOK /\ Sound(c) /\ pc[c] = "refetch"
  BY InvIsSoundness DEF Refetch
<1>2. /\ pc'[c] = "done" /\ outcome'[c] = "tokens"
      /\ \A d \in Call \ {c} : pc'[d] = pc[d] /\ outcome'[d] = outcome[d]
      /\ UNCHANGED <<accounts, profile, request, target, instance, issued, earned, before, touched>>
  BY <1>1 DEF Refetch, Return, TypeOK
<1>3. TypeOK'
  <2>1. pc' \in [Call -> Label] /\ outcome' \in [Call -> Outcomes]
    BY <1>1 DEF TypeOK, Refetch, Return, Label, Outcomes
  <2> QED
    BY <1>1, <1>2, <2>1 DEF TypeOK
<1>4. \A e \in before[c] : e \in Call /\ e # c /\ pc[e] = "done" /\ pc'[e] = "done"
  BY <1>1, <1>2 DEF Sound, Placed, TypeOK
<1>5. Is(c, {"sign_in", "admin_login"})
  BY <1>1 DEF Sound, Placed
<1>6. Placed(c)'
  BY <1>1, <1>2, <1>4, <1>5 DEF Sound, Placed, Answered, Is
<1>7. Sticking(c)'
  <2>1. \A col \in DOMAIN Asked(c) : Holds(c, col)
    BY <1>1 DEF Sound, Sticking
  <2>2. Asked(c)' = Asked(c)
    BY <1>2 DEF Asked, Is
  <2>3. ASSUME NEW col PROVE Holds(c, col)' = Holds(c, col)
    BY <1>2, <2>2 DEF Holds
  <2> QED
    BY <1>2, <2>1, <2>2, <2>3 DEF Sticking
<1>8. Copied(c)' /\ Earned(c)'
  BY <1>2 DEF Copied, Earned
<1>9. Following(c)'
  <2>1. \A d \in before[c] : Promoted(d)' = Promoted(d)
    BY <1>2, <1>4 DEF Promoted, Is
  <2>2. ~Promoted(c)' /\ ~Is(c, {"become_tradie"})
    BY <1>2, <1>5 DEF Promoted, Is
  <2> QED
    BY <1>1, <1>2, <1>4, <2>1, <2>2 DEF Sound, Following, Is
<1>10. Sound(c)'
  BY <1>1, <1>2, <1>6, <1>7, <1>8, <1>9 DEF Sound
<1> QED
  BY <1>1, <1>2, <1>3, <1>10, Reading

\* The account is found, and the call copies what its row holds.
LEMMA Finding == ASSUME Inv, NEW c \in Call, Find(c) PROVE Inv'
<1>1. TypeOK /\ Sound(c) /\ Rows /\ outcome[c] = "none" /\ pc[c] = "find"
  BY InvIsSoundness DEF Sound, Placed, Find
<1>2. IsRequest(request[c])
  BY <1>1, RequestAssumption DEF TypeOK
<1>3. CASE \E o \in Outcomes \ {"ok", "tokens", "none"} :
              Return(c, o) /\ UNCHANGED <<target, instance, touched>>
  BY <1>1, <1>3, Moving DEF Find
<1>4. ASSUME NEW a \in Finds(c),
             target' = [target EXCEPT ![c] = a], instance' = [instance EXCEPT ![c] = Instance(a)],
             touched' = [touched EXCEPT ![c] = {}], Goto(c, AfterFind(c, a))
      PROVE  Inv'
  <2>1. a \in Account /\ (Is(c, {"sign_in"}) => a \in User)
        /\ (~Is(c, {"sign_in"}) => a = target[c])
    BY <1>1, <1>2 DEF Finds, Sound, Placed, IsRequest, Is, Account
  <2>2. /\ target'[c] = a /\ instance'[c] = Instance(a) /\ touched'[c] = {}
        /\ pc'[c] = AfterFind(c, a) /\ outcome' = outcome
        /\ \A d \in Call \ {c} : /\ target'[d] = target[d] /\ instance'[d] = instance[d]
                                 /\ touched'[d] = touched[d] /\ pc'[d] = pc[d]
        /\ UNCHANGED <<accounts, profile, request, issued, earned, before>>
    BY <1>1, <1>4 DEF TypeOK, Goto, Find
  <2>3. /\ pc'[c] \in {"store_token", "verify_phone", "promote", "update"}
        /\ pc'[c] = "store_token" =>
              Is(c, {"sign_in", "refresh", "become_tradie", "admin_login"})
        /\ pc'[c] = "verify_phone" => Is(c, {"sign_in"}) /\ request[c].fields["phone"] # Null
        /\ pc'[c] = "promote" => Is(c, {"become_tradie"})
        /\ pc'[c] = "store_token" /\ Is(c, {"become_tradie"}) => accounts[a]["role"] = "tradie"
        /\ pc'[c] = "store_token" /\ Is(c, {"sign_in"}) /\ request[c].fields["phone"] # Null
              => accounts[a]["isPhoneVerified"] # "no"
        /\ pc'[c] = "update" =>
              ~Is(c, {"sign_in", "refresh", "become_tradie", "admin_login"})
    BY <2>2 DEF AfterFind, Is
  <2>4. ~Is(c, {"logout", "set_up", "approve", "reject"})
    BY <1>1 DEF Sound, Placed
  <2>5. Is(c, Asks)
    BY <1>2, <2>4 DEF IsRequest, Is, Kind, Asks
  <2>6. /\ DOMAIN Instance(a) = Column /\ Instance(a)["role"] = accounts[a]["role"]
        /\ \A col \in Column : Instance(a)[col] = NotLoaded \/ Instance(a)[col] = accounts[a][col]
    BY DEF Instance, Column
  <2>7. TypeOK'
    <3>1. accounts[a] \in [Column -> Held]
      BY <1>1, <2>1 DEF TypeOK
    <3>2. Instance(a) \in [Column -> Held \cup {NotLoaded}]
      BY <3>1 DEF Instance
    <3>3. pc' = [pc EXCEPT ![c] = pc'[c]] /\ pc'[c] \in Label
      BY <1>1, <1>4, <2>2, <2>3 DEF Goto, Label
    <3>4. /\ target' \in [Call -> Account \cup {Null}] /\ pc' \in [Call -> Label]
          /\ touched' \in [Call -> SUBSET Column]
          /\ instance' \in [Call -> [Column -> Held \cup {NotLoaded}]]
      BY <1>1, <1>4, <2>1, <3>2, <3>3 DEF TypeOK
    <3>5. \A d \in Call : instance'[d]["role"] \in Role \cup {Null}
      BY <1>1, <2>1, <2>2, <2>6 DEF TypeOK, IsRow
    <3> QED
      BY <1>1, <2>2, <3>4, <3>5 DEF TypeOK
  <2>8. Placed(c)'
    <3>1. \A d \in before[c] : pc'[d] = "done"
      BY <1>1, <2>2 DEF Sound, Placed, TypeOK
    <3>2. a # Null
      BY <2>1, NullAssumption
    <3>3. pc'[c] = "update" =>
            Is(c, {"update_me", "update_avatar", "delete_me", "erase", "change_password"})
      BY <2>3, <2>4, <2>5 DEF Is, Asks
    <3>4. Is(c, {"sign_in"}) => a \in User
      BY <2>1
    <3> QED
      BY <1>1, <2>1, <2>2, <2>3, <3>1, <3>2, <3>3, <3>4 DEF Sound, Placed, Answered, Is
  <2>9. Copied(c)'
    BY <2>2, <2>6 DEF Copied
  <2>10. Sticking(c)'
    <3>1. Asked(c)' = Asked(c)
      BY <2>2 DEF Asked, Is
    <3>2. ASSUME pc'[c] = "store_token", NEW col \in DOMAIN Asked(c) \ {"refreshToken"}
          PROVE  accounts[a][col] = Asked(c)[col]
      <4>1. CASE Is(c, {"become_tradie"})
        <5>1. col = "role" /\ Asked(c)["role"] = "tradie"
          BY <1>1, <2>5, <3>2, <4>1, AskedType
        <5> QED
          BY <2>3, <3>2, <4>1, <5>1
      <4>2. CASE Is(c, {"sign_in"})
        <5>1. col = "isPhoneVerified" /\ Asked(c)[col] = "yes" /\ request[c].fields["phone"] # Null
          BY <1>1, <2>5, <3>2, <4>2, AskedType
        <5>2. accounts[a]["isPhoneVerified"] \in Flag
          BY <1>1, <2>1 DEF TypeOK, IsRow
        <5> QED
          BY <2>3, <3>2, <4>2, <5>1, <5>2 DEF Flag
      <4>3. CASE Is(c, {"refresh", "admin_login"})
        BY <1>1, <2>5, <3>2, <4>3, AskedType DEF Is
      <4> QED
        BY <2>3, <3>2, <4>1, <4>2, <4>3 DEF Is
    <3>3. pc'[c] # "refetch" /\ ~Answered(c)'
      BY <1>1, <2>2, <2>3 DEF Answered
    <3> QED
      BY <2>2, <3>1, <3>2, <3>3 DEF Sticking, Holds
  <2>11. accounts[a]["role"] = "tradie" => a \in earned
    BY <1>1, <2>1 DEF Rows, Account
  <2>12. Earned(c)'
    BY <1>1, <2>1, <2>2, <2>6, <2>11 DEF Sound, Earned, Is
  <2>13. Following(c)'
    <3>1. \A d \in before[c] : d \in Call /\ d # c
      BY <1>1 DEF Sound, Placed, TypeOK
    <3>2. \A d \in before[c] : /\ Promoted(d)' = Promoted(d) /\ target'[d] = target[d]
                               /\ Promoted(d) => accounts[target[d]]["role"] = "tradie"
      BY <2>2, <3>1, InvIsSoundness DEF Promoted, Sound, Following, Is
    <3>3. ~Promoted(c)' /\ outcome'[c] = "none" /\ pc'[c] # "refetch"
      BY <1>1, <2>2, <2>3 DEF Promoted
    <3>4. Is(c, {"become_tradie"})' = Is(c, {"become_tradie"})
      BY <2>2 DEF Is
    <3> QED
      BY <2>2, <2>3, <2>6, <3>2, <3>3, <3>4 DEF Following
  <2>14. issued[c] # "tradie"
    BY <1>1, NullAssumption DEF Sound, Placed, Role
  <2>15. Sound(c)'
    BY <1>1, <2>2, <2>8, <2>9, <2>10, <2>12, <2>13, <2>14 DEF Sound
  <2> QED
    BY <1>1, <2>2, <2>7, <2>15, Reading
<1>5. "unauthorized" \in Outcomes \ {"ok", "tokens", "none"}
      /\ "forbidden" \in Outcomes \ {"ok", "tokens", "none"}
      /\ "wrong_password" \in Outcomes \ {"ok", "tokens", "none"}
  BY DEF Outcomes
<1> QED
  BY <1>3, <1>4, <1>5 DEF Find

\* The call that writes: its row has what it asked for in the columns it wrote, and what
\* it had found there in the others.
LEMMA Stuck ==
  ASSUME NEW c \in Call, NEW cols, cols \subseteq DOMAIN Asked(c), DOMAIN Asked(c) \subseteq Column,
         request' = request, target' = target, touched'[c] = touched[c] \ cols,
         \A col \in Column : accounts'[target[c]][col] =
                IF col \in cols THEN Asked(c)[col] ELSE accounts[target[c]][col]
  PROVE  \A col \in DOMAIN Asked(c) : Holds(c, col) \/ col \in cols => Holds(c, col)'
<1>1. Asked(c)' = Asked(c)
  BY DEF Asked, Is
<1> QED
  BY <1>1 DEF Holds

LEMMA Updating == ASSUME Inv, NEW c \in Call, Update(c) PROVE Inv'
<1> DEFINE t    == target[c]
           cols == Changed(instance[c], Asked(c))
<1>1. TypeOK /\ Sound(c) /\ Rows /\ outcome[c] = "none" /\ pc[c] = "update" /\ issued[c] = Null
  BY InvIsSoundness DEF Sound, Placed, Update
<1>2. Is(c, {"update_me", "update_avatar", "delete_me", "erase", "change_password"})
  BY <1>1 DEF Sound, Placed
<1>3. Is(c, Asks)
  BY <1>2 DEF Is, Asks
<1>4. CASE Return(c, "error") /\ UNCHANGED <<accounts, profile, touched>>
  BY <1>1, <1>4, Moving DEF Update, Outcomes
<1>5. ASSUME Unique([accounts EXCEPT ![t] = Set(@, cols, Asked(c))]), Write(c, cols),
             profile' = IF Is(c, {"erase"}) THEN [profile EXCEPT ![t] = "none"] ELSE profile,
             Return(c, "ok")
      PROVE  Inv'
  <2>1. cols \subseteq DOMAIN Asked(c) /\ DOMAIN Asked(c) \subseteq Column
    BY <1>1, <1>3, AskedType DEF Changed
  <2>2. /\ pc'[c] = "done" /\ outcome'[c] = "ok"
        /\ \A d \in Call \ {c} : pc'[d] = pc[d] /\ outcome'[d] = outcome[d]
        /\ UNCHANGED <<request, target, instance, issued, earned, before>>
    BY <1>1, <1>5 DEF Return, TypeOK, Update
  <2>3. /\ target[c] \in Account
        /\ accounts' \in [Account -> [Column -> Held]] /\ \A a \in Account : IsRow(accounts'[a])
        /\ touched' \in [Call -> SUBSET Column] /\ touched'[c] = touched[c] \ cols
        /\ \A col \in Column : accounts'[target[c]][col] =
               IF col \in cols THEN Asked(c)[col] ELSE accounts[target[c]][col]
        /\ \A a \in Account \ {target[c]} : accounts'[a] = accounts[a]
        /\ \A d \in Call \ {c} : Sound(d)'
    BY <1>1, <1>3, <1>5, <2>1, <2>2, Writing
  <2>4. profile' \in [User -> ProfileStatus]
        /\ \A u \in User : profile'[u] = "approved" => profile[u] = "approved"
    BY <1>1, <1>5 DEF TypeOK, ProfileStatus
  <2>5. TypeOK'
    <3>1. pc' \in [Call -> Label] /\ outcome' \in [Call -> Outcomes]
      BY <1>1, <1>5 DEF TypeOK, Return, Label, Outcomes
    <3> QED
      BY <1>1, <2>2, <2>3, <2>4, <3>1 DEF TypeOK
  <2>6. Rows'
    <3>1. Unique(accounts')
      BY <1>5 DEF Write
    <3>2. "role" \notin cols
      BY <1>1, <1>2, <1>3, <2>1, AskedType DEF Is
    <3> QED
      BY <2>1, <2>2, <2>3, <2>4, <3>1, <3>2, RowsKept
  <2>7. \A col \in DOMAIN Asked(c) : Holds(c, col) \/ col \in cols
    <3>1. SUFFICES ASSUME NEW col \in DOMAIN Asked(c), col \notin cols PROVE Holds(c, col)
      OBVIOUS
    <3>2. Asked(c)[col] = instance[c][col] /\ col \in Column /\ Asked(c)[col] \in Held
      BY <1>1, <1>3, <2>1, <3>1, AskedType DEF Changed
    <3>3. instance[c][col] # NotLoaded
      BY <3>2, LoadedAssumption
    <3> QED
      BY <1>1, <3>2, <3>3 DEF Sound, Copied, Holds
  <2>8. \A col \in DOMAIN Asked(c) : Holds(c, col)'
    BY <2>1, <2>2, <2>3, <2>7, Stuck
  <2>9. Sticking(c)'
    <3>1. Asked(c)' = Asked(c)
      BY <2>2 DEF Asked, Is
    <3> QED
      BY <2>2, <2>8, <3>1 DEF Sticking
  <2>10. Placed(c)'
    <3>1. \A d \in before[c] : pc'[d] = "done"
      BY <1>1, <2>2 DEF Sound, Placed, TypeOK
    <3> QED
      BY <1>1, <1>2, <2>2, <3>1 DEF Sound, Placed, Answered, Is
  <2>11. Copied(c)' /\ Earned(c)' /\ Following(c)'
    BY <2>2 DEF Copied, Earned, Following, Promoted
  <2>12. Sound(c)'
    BY <1>1, <2>2, <2>9, <2>10, <2>11 DEF Sound
  <2> QED
    BY <2>3, <2>5, <2>6, <2>12, NextSoundness
<1> QED
  BY <1>4, <1>5 DEF Update, IndexRefuses

LEMMA Clearing == ASSUME Inv, NEW c \in Call, ClearToken(c) PROVE Inv'
<1> DEFINE cols == {"refreshToken"}
<1>1. TypeOK /\ Sound(c) /\ Rows /\ outcome[c] = "none" /\ pc[c] = "clear_token" /\ issued[c] = Null
  BY InvIsSoundness DEF Sound, Placed, ClearToken
<1>2. Is(c, {"logout"}) /\ Is(c, Asks)
  BY <1>1 DEF Sound, Placed, Is, Asks
<1>3. DOMAIN Asked(c) = cols /\ cols \subseteq Column
  BY <1>1, <1>2, AskedType DEF Is, Column
<1>4. /\ pc'[c] = "done" /\ outcome'[c] = "ok"
      /\ \A d \in Call \ {c} : pc'[d] = pc[d] /\ outcome'[d] = outcome[d]
      /\ UNCHANGED <<profile, request, target, instance, issued, earned, before>>
      /\ Write(c, cols)
  BY <1>1 DEF Return, TypeOK, ClearToken
<1> HIDE DEF cols
<1>5. /\ target[c] \in Account
      /\ accounts' \in [Account -> [Column -> Held]] /\ \A a \in Account : IsRow(accounts'[a])
      /\ touched' \in [Call -> SUBSET Column] /\ touched'[c] = touched[c] \ cols
      /\ \A col \in Column : accounts'[target[c]][col] =
             IF col \in cols THEN Asked(c)[col] ELSE accounts[target[c]][col]
      /\ \A a \in Account \ {target[c]} : accounts'[a] = accounts[a]
      /\ \A d \in Call \ {c} : Sound(d)'
  BY <1>1, <1>2, <1>3, <1>4, Writing
<1>6. TypeOK'
  <2>1. pc' \in [Call -> Label] /\ outcome' \in [Call -> Outcomes]
    BY <1>1 DEF TypeOK, ClearToken, Return, Label, Outcomes
  <2> QED
    BY <1>1, <1>4, <1>5, <2>1 DEF TypeOK
<1>7. Rows'
  <2>1. "role" \notin cols /\ cols \cap {"phone", "email"} = {}
    BY DEF cols
  <2> QED
    BY <1>3, <1>4, <1>5, <2>1, RowsKept
<1>8. \A col \in DOMAIN Asked(c) : Holds(c, col)'
  BY <1>3, <1>4, <1>5, Stuck
<1>9. Sticking(c)'
  <2>1. Asked(c)' = Asked(c)
    BY <1>4 DEF Asked, Is
  <2> QED
    BY <1>4, <1>8, <2>1 DEF Sticking
<1>10. Placed(c)'
  <2>1. \A d \in before[c] : pc'[d] = "done"
    BY <1>1, <1>4 DEF Sound, Placed, TypeOK
  <2> QED
    BY <1>1, <1>2, <1>4, <2>1 DEF Sound, Placed, Answered, Is
<1>11. Copied(c)' /\ Earned(c)' /\ Following(c)'
  BY <1>4 DEF Copied, Earned, Following, Promoted
<1>12. Sound(c)'
  BY <1>1, <1>4, <1>9, <1>10, <1>11 DEF Sound
<1> QED
  BY <1>5, <1>6, <1>7, <1>12, NextSoundness

LEMMA Verifying == ASSUME Inv, NEW c \in Call, VerifyPhone(c) PROVE Inv'
<1> DEFINE cols == {"isPhoneVerified"}
<1>1. /\ TypeOK /\ Sound(c) /\ Rows /\ outcome[c] = "none" /\ pc[c] = "verify_phone"
      /\ issued[c] = Null
  BY InvIsSoundness DEF Sound, Placed, VerifyPhone
<1>2. Is(c, {"sign_in"}) /\ Is(c, Asks) /\ request[c].fields["phone"] # Null
  BY <1>1 DEF Sound, Placed, Is, Asks
<1>3. cols \subseteq DOMAIN Asked(c) /\ DOMAIN Asked(c) \ {"refreshToken"} \subseteq cols
      /\ cols \subseteq Column /\ DOMAIN Asked(c) \subseteq Column
  <2>1. "isPhoneVerified" \in DOMAIN Asked(c)
    BY <1>2 DEF Asked, Is
  <2> QED
    BY <1>1, <1>2, <2>1, AskedType DEF Column
<1>4. /\ pc'[c] = "store_token" /\ outcome' = outcome
      /\ \A d \in Call \ {c} : pc'[d] = pc[d]
      /\ UNCHANGED <<profile, request, target, instance, issued, earned, before>>
      /\ Write(c, cols)
  BY <1>1 DEF Goto, TypeOK, VerifyPhone
<1> HIDE DEF cols
<1>5. /\ target[c] \in Account
      /\ accounts' \in [Account -> [Column -> Held]] /\ \A a \in Account : IsRow(accounts'[a])
      /\ touched' \in [Call -> SUBSET Column] /\ touched'[c] = touched[c] \ cols
      /\ \A col \in Column : accounts'[target[c]][col] =
             IF col \in cols THEN Asked(c)[col] ELSE accounts[target[c]][col]
      /\ \A a \in Account \ {target[c]} : accounts'[a] = accounts[a]
      /\ \A d \in Call \ {c} : Sound(d)'
  BY <1>1, <1>2, <1>3, <1>4, Writing
<1>6. TypeOK'
  <2>1. pc' \in [Call -> Label]
    BY <1>1 DEF TypeOK, VerifyPhone, Goto, Label
  <2> QED
    BY <1>1, <1>4, <1>5, <2>1 DEF TypeOK
<1>7. Rows'
  <2>1. "role" \notin cols /\ cols \cap {"phone", "email"} = {}
    BY DEF cols
  <2> QED
    BY <1>3, <1>4, <1>5, <2>1, RowsKept
<1>8. \A col \in DOMAIN Asked(c) \ {"refreshToken"} : Holds(c, col)'
  BY <1>3, <1>4, <1>5, Stuck
<1>9. Sticking(c)'
  <2>1. Asked(c)' = Asked(c)
    BY <1>4 DEF Asked, Is
  <2> QED
    BY <1>1, <1>4, <1>8, <2>1 DEF Sticking, Answered
<1>10. Placed(c)'
  <2>1. \A d \in before[c] : pc'[d] = "done"
    BY <1>1, <1>4 DEF Sound, Placed, TypeOK
  <2> QED
    BY <1>1, <1>2, <1>4, <2>1 DEF Sound, Placed, Answered, Is
<1>11. Copied(c)' /\ Earned(c)'
  BY <1>1, <1>2, <1>4 DEF Copied, Earned, Sound, Is
<1>12. Following(c)'
  <2>1. \A d \in before[c] : d \in Call /\ d # c
    BY <1>1 DEF Sound, Placed, TypeOK
  <2>2. \A d \in before[c] : Promoted(d)' = Promoted(d)
    BY <1>4, <2>1 DEF Promoted, Is
  <2>3. ~Promoted(c)' /\ ~Is(c, {"become_tradie"}) /\ ~Is(c, {"become_tradie"})'
    BY <1>2, <1>4 DEF Promoted, Is
  <2> QED
    BY <1>1, <1>4, <2>2, <2>3 DEF Sound, Following
<1>13. Sound(c)'
  BY <1>1, <1>4, <1>9, <1>10, <1>11, <1>12 DEF Sound
<1> QED
  BY <1>5, <1>6, <1>7, <1>13, NextSoundness

LEMMA Promoting == ASSUME Inv, NEW c \in Call, Promote(c) PROVE Inv'
<1> DEFINE cols == {"role"}
<1>1. TypeOK /\ Sound(c) /\ Rows /\ outcome[c] = "none" /\ pc[c] = "promote" /\ issued[c] = Null
  BY InvIsSoundness DEF Sound, Placed, Promote
<1>2. Is(c, {"become_tradie"}) /\ Is(c, Asks) /\ target[c] \in User \cap earned
  <2>1. Is(c, {"become_tradie"})
    BY <1>1 DEF Sound, Placed
  <2>2. IsRequest(request[c])
    BY <1>1, RequestAssumption DEF TypeOK
  <2> QED
    BY <1>1, <2>1, <2>2 DEF Sound, Placed, Earned, Is, Asks, IsRequest
<1>3. cols \subseteq DOMAIN Asked(c) /\ DOMAIN Asked(c) \ {"refreshToken"} \subseteq cols
      /\ cols \subseteq Column /\ DOMAIN Asked(c) \subseteq Column /\ Asked(c)["role"] = "tradie"
  BY <1>1, <1>2, AskedType DEF Column
<1>4. /\ pc'[c] = "store_token" /\ outcome' = outcome
      /\ \A d \in Call \ {c} : pc'[d] = pc[d] /\ instance'[d] = instance[d]
      /\ UNCHANGED <<profile, request, target, issued, earned, before>>
      /\ Write(c, cols)
  BY <1>1 DEF Goto, TypeOK, Promote
<1> HIDE DEF cols
<1>5. /\ target[c] \in Account
      /\ accounts' \in [Account -> [Column -> Held]] /\ \A a \in Account : IsRow(accounts'[a])
      /\ touched' \in [Call -> SUBSET Column] /\ touched'[c] = touched[c] \ cols
      /\ \A col \in Column : accounts'[target[c]][col] =
             IF col \in cols THEN Asked(c)[col] ELSE accounts[target[c]][col]
      /\ \A a \in Account \ {target[c]} : accounts'[a] = accounts[a]
      /\ \A d \in Call \ {c} : Sound(d)'
  BY <1>1, <1>2, <1>3, <1>4, Writing
<1>6. instance' \in [Call -> [Column -> Held \cup {NotLoaded}]] /\ instance'[c]["role"] = "tradie"
  <2>1. instance[c] \in [Column -> Held \cup {NotLoaded}] /\ "role" \in Column /\ "tradie" \in Held
    BY <1>1 DEF TypeOK, Column, Held, Role
  <2>2. PICK copy \in [Column -> Held \cup {NotLoaded}] :
           copy = [instance[c] EXCEPT !["role"] = "tradie"]
    BY <2>1
  <2>3. instance' = [instance EXCEPT ![c] = copy]
    BY <1>1, <2>2 DEF Promote, TypeOK
  <2> QED
    BY <1>1, <2>1, <2>2, <2>3 DEF TypeOK
<1>7. TypeOK'
  <2>1. pc' \in [Call -> Label]
    BY <1>1 DEF TypeOK, Promote, Goto, Label
  <2>2. \A d \in Call : instance'[d]["role"] \in Role \cup {Null}
    BY <1>1, <1>4, <1>6 DEF TypeOK, Role
  <2> QED
    BY <1>1, <1>4, <1>5, <1>6, <2>1, <2>2 DEF TypeOK
<1>8. Rows'
  <2>1. cols \cap {"phone", "email"} = {}
    BY DEF cols
  <2> QED
    BY <1>2, <1>3, <1>4, <1>5, <2>1, RowsKept
<1>9. \A col \in DOMAIN Asked(c) \ {"refreshToken"} : Holds(c, col)'
  BY <1>3, <1>4, <1>5, Stuck
<1>10. Sticking(c)'
  <2>1. Asked(c)' = Asked(c)
    BY <1>4 DEF Asked, Is
  <2> QED
    BY <1>1, <1>4, <1>9, <2>1 DEF Sticking, Answered
<1>11. Placed(c)'
  <2>1. \A d \in before[c] : pc'[d] = "done"
    BY <1>1, <1>4 DEF Sound, Placed, TypeOK
  <2> QED
    BY <1>1, <1>2, <1>4, <2>1 DEF Sound, Placed, Answered, Is
<1>12. Copied(c)' /\ Earned(c)'
  BY <1>1, <1>2, <1>4 DEF Copied, Earned, Is
<1>13. Following(c)'
  <2>1. accounts'[target[c]]["role"] = "tradie"
    BY <1>3, <1>5 DEF cols
  <2>2. ~Promoted(c)' /\ outcome'[c] = "none"
    BY <1>1, <1>4 DEF Promoted
  <2> QED
    BY <1>4, <1>6, <2>1, <2>2 DEF Following
<1>14. Sound(c)'
  BY <1>1, <1>4, <1>10, <1>11, <1>12, <1>13, NullAssumption DEF Sound, Role
<1> QED
  BY <1>5, <1>7, <1>8, <1>14, NextSoundness

LEMMA Storing == ASSUME Inv, NEW c \in Call, StoreToken(c) PROVE Inv'
<1> DEFINE cols == {"refreshToken"}
<1>1. /\ TypeOK /\ Sound(c) /\ Rows /\ outcome[c] = "none" /\ pc[c] = "store_token"
  BY InvIsSoundness DEF Sound, Placed, StoreToken
<1>2. /\ Is(c, {"sign_in", "refresh", "become_tradie", "admin_login"}) /\ Is(c, Asks)
      /\ Is(c, {"sign_in"}) => target[c] \in User
  BY <1>1, NullAssumption DEF Sound, Placed, Is, Asks
<1>3. cols \subseteq DOMAIN Asked(c) /\ cols \subseteq Column /\ DOMAIN Asked(c) \subseteq Column
  BY <1>1, <1>2, AskedType DEF Column, Is
<1>4. /\ \/ pc'[c] = "refetch" /\ outcome'[c] = outcome[c] /\ Is(c, {"sign_in", "admin_login"})
         \/ pc'[c] = "done" /\ outcome'[c] = "tokens"
      /\ \A d \in Call \ {c} : /\ pc'[d] = pc[d] /\ issued'[d] = issued[d]
                               /\ outcome'[d] = outcome[d]
      /\ UNCHANGED <<profile, request, target, instance, earned, before>>
      /\ Write(c, cols)
      /\ issued'[c] = instance[c]["role"]
  BY <1>1 DEF Goto, Return, TypeOK, StoreToken
<1> HIDE DEF cols
<1>5. /\ target[c] \in Account
      /\ accounts' \in [Account -> [Column -> Held]] /\ \A a \in Account : IsRow(accounts'[a])
      /\ touched' \in [Call -> SUBSET Column] /\ touched'[c] = touched[c] \ cols
      /\ \A col \in Column : accounts'[target[c]][col] =
             IF col \in cols THEN Asked(c)[col] ELSE accounts[target[c]][col]
      /\ \A a \in Account \ {target[c]} : accounts'[a] = accounts[a]
      /\ \A d \in Call \ {c} : Sound(d)'
  BY <1>1, <1>2, <1>3, <1>4, Writing
<1>6. TypeOK'
  <2>1. pc' \in [Call -> Label] /\ outcome' \in [Call -> Outcomes]
    <3>1. CASE Goto(c, "refetch")
      BY <1>1, <3>1 DEF TypeOK, Goto, Label
    <3>2. CASE Return(c, "tokens")
      BY <1>1, <3>2 DEF TypeOK, Return, Label, Outcomes
    <3> QED
      BY <3>1, <3>2 DEF StoreToken
  <2>2. issued' \in [Call -> Role \cup {Null}]
    BY <1>1 DEF TypeOK, StoreToken
  <2> QED
    BY <1>1, <1>4, <1>5, <2>1, <2>2 DEF TypeOK
<1>7. Rows'
  <2>1. "role" \notin cols /\ cols \cap {"phone", "email"} = {}
    BY DEF cols
  <2> QED
    BY <1>3, <1>4, <1>5, <2>1, RowsKept
<1>8. \A col \in DOMAIN Asked(c) : Holds(c, col)'
  <2>1. \A col \in DOMAIN Asked(c) : Holds(c, col) \/ col \in cols
    BY <1>1 DEF Sound, Sticking, cols
  <2> QED
    BY <1>3, <1>4, <1>5, <2>1, Stuck
<1>9. Sticking(c)'
  <2>1. Asked(c)' = Asked(c)
    BY <1>4 DEF Asked, Is
  <2> QED
    BY <1>8, <2>1 DEF Sticking
<1>10. Placed(c)'
  <2>1. \A d \in before[c] : pc'[d] = "done"
    BY <1>1, <1>4 DEF Sound, Placed, TypeOK
  <2> QED
    BY <1>1, <1>2, <1>4, <2>1 DEF Sound, Placed, Answered, Is
<1>11. Copied(c)' /\ Earned(c)'
  BY <1>4 DEF Copied, Earned
<1>12. Following(c)'
  <2>1. \A d \in before[c] : d \in Call /\ d # c
    BY <1>1 DEF Sound, Placed, TypeOK
  <2>2. \A d \in before[c] : Promoted(d)' = Promoted(d)
    BY <1>4, <2>1 DEF Promoted, Is
  <2>3. Is(c, {"become_tradie"}) =>
           accounts'[target[c]]["role"] = "tradie" /\ instance[c]["role"] = "tradie"
    <3>1. "role" \in Column \ cols
      BY DEF Column, cols
    <3> QED
      BY <1>1, <1>5, <3>1 DEF Sound, Following
  <2>4. Is(c, {"become_tradie"})' = Is(c, {"become_tradie"})
    BY <1>4 DEF Is
  <2> QED
    BY <1>1, <1>4, <2>2, <2>3, <2>4 DEF Sound, Following, Promoted
<1>13. issued'[c] = "tradie" => target[c] \in earned
  BY <1>1, <1>4 DEF Sound, Earned
<1>14. Sound(c)'
  BY <1>4, <1>9, <1>10, <1>11, <1>12, <1>13 DEF Sound
<1> QED
  BY <1>5, <1>6, <1>7, <1>14, NextSoundness

LEMMA Changing == ASSUME Inv, NEW c \in Call, ChangeProfile(c) PROVE Inv'
<1>1. TypeOK /\ Sound(c) /\ Rows /\ outcome[c] = "none" /\ pc[c] = "profile" /\ issued[c] = Null
  BY InvIsSoundness DEF Sound, Placed, ChangeProfile
<1>2. Is(c, {"set_up", "approve", "reject"}) /\ target[c] \in User
  <2>1. IsRequest(request[c]) /\ Is(c, {"set_up", "approve", "reject"})
    BY <1>1, RequestAssumption DEF TypeOK, Sound, Placed
  <2> QED
    BY <1>1, <2>1 DEF Sound, Placed, IsRequest, Is
<1>3. /\ pc'[c] = "done" /\ outcome'[c] = "done"
      /\ \A d \in Call \ {c} : pc'[d] = pc[d] /\ outcome'[d] = outcome[d]
      /\ UNCHANGED <<accounts, request, target, instance, issued, before, touched>>
      /\ earned' = IF profile'[target[c]] = "approved" THEN earned \cup {target[c]} ELSE earned
  BY <1>1 DEF ChangeProfile, Return, TypeOK
<1>4. /\ profile' \in [User -> ProfileStatus]
      /\ \A u \in User \ {target[c]} : profile'[u] = profile[u]
  BY <1>1, <1>2 DEF TypeOK, ChangeProfile, ProfileStatus
<1>5. TypeOK'
  <2>1. pc' \in [Call -> Label] /\ outcome' \in [Call -> Outcomes]
    BY <1>1 DEF TypeOK, ChangeProfile, Return, Label, Outcomes
  <2>2. earned' \in SUBSET User
    BY <1>1, <1>2, <1>3 DEF TypeOK
  <2> QED
    BY <1>1, <1>3, <1>4, <2>1, <2>2 DEF TypeOK
<1>6. Rows'
  <2>1. OneOwner'
    BY <1>1, <1>3 DEF Rows, OneOwner, Unique
  <2> QED
    BY <1>1, <1>2, <1>3, <1>4, <2>1 DEF Rows
<1>7. \A d \in Call \ {c} : Sound(d)'
  BY <1>1, <1>3, Others
<1>8. Placed(c)'
  <2>1. \A d \in before[c] : pc'[d] = "done"
    BY <1>1, <1>3 DEF Sound, Placed, TypeOK
  <2> QED
    BY <1>1, <1>2, <1>3, <2>1 DEF Sound, Placed, Answered, Is
<1>9. Copied(c)' /\ Sticking(c)' /\ Earned(c)' /\ Following(c)'
  BY <1>3 DEF Copied, Sticking, Earned, Following, Promoted, Answered
<1>10. Sound(c)'
  BY <1>1, <1>3, <1>8, <1>9, NullAssumption DEF Sound, Role
<1> QED
  BY <1>5, <1>6, <1>7, <1>10, NextSoundness
-----------------------------------------------------------------------------
\* Inv is an inductive invariant.
THEOREM Invariance == Spec => []Inv
<1>1. Init => Inv
  BY Initially
<1>2. Inv /\ [Next]_vars => Inv'
  <2> SUFFICES ASSUME Inv, [Next]_vars PROVE Inv'
    OBVIOUS
  <2>1. ASSUME NEW c \in Call, Step(c) PROVE Inv'
    BY <2>1, Arriving, Checking, Finding, Updating, Clearing, Verifying, Promoting, Storing,
       Refetching, Changing, Failing DEF Step
  <2>2. CASE UNCHANGED vars
    <3>1. \A d \in Call : Sound(d)'
      <4>1. ASSUME NEW d \in Call PROVE Sound(d)'
        BY <2>2, Undisturbed DEF vars
      <4> QED
        BY <4>1
    <3>2. TypeOK' /\ Rows'
      BY <2>2, InvIsSoundness DEF vars, TypeOK, Rows, OneOwner, Unique
    <3> QED
      BY <3>1, <3>2, NextSoundness
  <2> QED
    BY <2>1, <2>2 DEF Next
<1> QED
  BY <1>1, <1>2, PTL DEF Spec

\* Every variable keeps its type.
THEOREM TypeCorrect == Spec => []TypeOK
BY Invariance, PTL DEF Inv

\* Two accounts never share a phone or an e-mail, whichever updates interleave.
THEOREM OwnersUnique == Spec => []OneOwner
BY Invariance, PTL DEF Inv

\* Tradies, and tokens that say so, belong to users who had an approved profile.
THEOREM RolesEarned == Spec => []RoleEarned
BY Invariance, PTL DEF Inv

\* An answered call keeps its columns until another call writes them.
THEOREM AnswersStick == Spec => []AnswerSticks
<1>1. Inv => AnswerSticks
  BY DEF Inv, Sticking, AnswerSticks, Holds
<1> QED
  BY <1>1, Invariance, PTL

\* After becomeTradie, tokens carry the new role.
THEOREM RolesFollow == Spec => []RoleFollows
<1>1. Inv => RoleFollows
  BY DEF Inv, Following, RoleFollows, Promoted
<1> QED
  BY <1>1, Invariance, PTL

\* No update brings a deleted account back, however old the copy it was made from.
THEOREM DeletedForGood == Spec => DeletedStaysDeleted
<1>1. ASSUME Inv, [Next]_vars
      PROVE  [\A a \in Account :
                 accounts[a]["status"] = "deleted" => accounts'[a]["status"] = "deleted"]_vars
  <2>1. CASE UNCHANGED accounts
    BY <2>1
  <2>2. ASSUME NEW c \in Call, Step(c), accounts' # accounts, NEW a \in Account,
               accounts[a]["status"] = "deleted"
        PROVE  accounts'[a]["status"] = "deleted"
    <3>1. TypeOK /\ Sound(c)
      BY <1>1, InvIsSoundness
    <3>2. \E cols \in SUBSET DOMAIN Asked(c) :
             accounts' = [accounts EXCEPT ![target[c]] = Set(@, cols, Asked(c))]
             /\ Is(c, Asks)
      <4>1. CASE Update(c)
        <5>1. Is(c, Asks)
          BY <3>1, <4>1 DEF Sound, Placed, Update, Is, Asks
        <5> QED
          BY <2>2, <4>1, <5>1 DEF Update, Write, Changed
      <4>2. CASE ClearToken(c)
        <5>1. Is(c, {"logout"}) /\ Is(c, Asks)
          BY <3>1, <4>2 DEF Sound, Placed, ClearToken, Is, Asks
        <5>2. "refreshToken" \in DOMAIN Asked(c)
          BY <3>1, <5>1, AskedType DEF Is
        <5> QED
          BY <4>2, <5>1, <5>2 DEF ClearToken, Write
      <4>3. CASE VerifyPhone(c)
        <5>1. Is(c, Asks) /\ "isPhoneVerified" \in DOMAIN Asked(c)
          BY <3>1, <4>3 DEF Sound, Placed, VerifyPhone, Is, Asks, Asked
        <5> QED
          BY <4>3, <5>1 DEF VerifyPhone, Write
      <4>4. CASE Promote(c)
        <5>1. Is(c, {"become_tradie"}) /\ Is(c, Asks)
          BY <3>1, <4>4 DEF Sound, Placed, Promote, Is, Asks
        <5>2. "role" \in DOMAIN Asked(c)
          BY <3>1, <5>1, AskedType
        <5> QED
          BY <4>4, <5>1, <5>2 DEF Promote, Write
      <4>5. CASE StoreToken(c)
        <5>1. /\ Is(c, {"sign_in", "refresh", "become_tradie", "admin_login"})
              /\ Is(c, Asks)
          BY <3>1, <4>5 DEF Sound, Placed, StoreToken, Is, Asks
        <5>2. "refreshToken" \in DOMAIN Asked(c)
          BY <3>1, <5>1, AskedType DEF Is
        <5> QED
          BY <4>5, <5>1, <5>2 DEF StoreToken, Write
      <4> QED
        BY <2>2, <4>1, <4>2, <4>3, <4>4, <4>5
        DEF Step, Arrive, CheckEmail, CheckPhone, ReadProfile, Find, Refetch, ChangeProfile, Fails
    <3>3. PICK cols \in SUBSET DOMAIN Asked(c) :
             accounts' = [accounts EXCEPT ![target[c]] = Set(@, cols, Asked(c))]
      BY <3>2
    <3>4. "status" \in DOMAIN accounts[a] /\ a \in DOMAIN accounts
      BY <3>1 DEF TypeOK, Column
    <3>5. "status" \in cols => Asked(c)["status"] = "deleted"
      BY <3>1, <3>2, <3>3, AskedType
    <3> QED
      BY <2>2, <3>3, <3>4, <3>5 DEF Set
  <2> QED
    BY <1>1, <2>1, <2>2 DEF Next, vars
<1> QED
  BY <1>1, Invariance, PTL DEF Spec, DeletedStaysDeleted
=============================================================================
