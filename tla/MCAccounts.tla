----------------------------- MODULE MCAccounts -----------------------------
(***************************************************************************)
(* Bounds for model checking Accounts: user u1, whose account the calls    *)
(* are about, user u2, who wants the same e-mail and phone, and an admin.  *)
(***************************************************************************)
EXTENDS Accounts, TLC

CONSTANTS u1, u2, a1, mail, phone1, phone2, image, old, new, gone1, gone2

NoFields == [email |-> Null, phone |-> Null, avatar |-> Null, password |-> Null]

Ask(kind, account) ==
    [kind |-> kind, account |-> account, fields |-> NoFields, given |-> Null]

UpdateOf(account, e, p) ==
    [Ask("update_me", account) EXCEPT !.fields.email = e, !.fields.phone = p]

SignIn(e, p) == [Ask("sign_in", u1) EXCEPT !.fields.email = e, !.fields.phone = p]

WithAvatar == [Ask("update_avatar", u1) EXCEPT !.fields.avatar = image]

Login(password) == [Ask("admin_login", a1) EXCEPT !.given = password]

ChangePassword(from, to) ==
    [Ask("change_password", a1) EXCEPT !.given = from, !.fields.password = to]

AnyOf ==
    {SignIn(Null, phone1), SignIn(mail, Null),
     Ask("refresh", u1), Ask("logout", u1), Ask("become_tradie", u1),
     UpdateOf(u1, mail, Null), UpdateOf(u2, mail, phone1), UpdateOf(u1, Null, phone2),
     WithAvatar, Ask("delete_me", u1), Ask("erase", u1),
     Login(old), Ask("refresh", a1), Ask("logout", a1),
     ChangePassword(old, new),
     Ask("set_up", u1), Ask("approve", u1), Ask("reject", u1)}

RowWith(status, role, p, password, verified) ==
    [col \in Column |->
        CASE col = "status" -> status
          [] col = "role" -> role
          [] col = "phone" -> p
          [] col = "password" -> password
          [] col = "isPhoneVerified" -> verified
          [] OTHER -> Null]

TableWith(status, p) ==
    [accounts |-> [a \in Account |->
        CASE a = u1 -> RowWith(status, "customer", phone1, Null, "no")
          [] a = u2 -> RowWith("active", "tradie", phone2, Null, "yes")
          [] OTHER  -> RowWith("active", "admin", Null, old, "no")],
     profile |-> [u \in User |-> IF u = u1 THEN p ELSE "none"]]

Tables == {TableWith("active", "pending"), TableWith("suspended", "approved")}

Phones == [u \in User |-> IF u = u1 THEN gone1 ELSE gone2]

Symmetry == Permutations(Call)
=============================================================================
