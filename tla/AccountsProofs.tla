---------------------------- MODULE AccountsProofs ----------------------------
(***************************************************************************)
(* Theorems about Accounts, for any numbers of requests, accounts, e-mails *)
(* and phones.  The properties are not inductive: a request carries what it *)
(* read into a table that has changed, so the invariant says what each     *)
(* request may rely on still, and what only a fresh one may.               *)
(***************************************************************************)
EXTENDS Accounts, TLAPS

\* The rows keep the unique columns, and an e-mail made up for a phone belongs
\* to the account with that phone, if nobody brought it as their own.
RowsInv ==
    \A i \in Existing :
        /\ Unique(i, account[i])
        /\ \A p \in Phones : account[i].email = CounterEmail[p] =>
                account[i].phone = p \/ CounterEmail[p] \in given

\* The account is one the guards let in, or was overtaken by its registration.
Admissible(i) == i \in Existing /\ (Admitted(account[i]) \/ i \in overtaken)

\* The account a counter request found is there, and is a new customer's only by
\* the e-mail made up for the phone.
CounterInv(r) ==
    /\ req[r].phone \in Phones
    /\ req[r].id # None =>
        /\ req[r].id \in Existing
        /\ req[r].email = None =>
            \A p \in Phones : account[req[r].id].email = CounterEmail[p] =>
                p = req[r].phone \/ CounterEmail[p] \in given
    /\ ~req[r].stale =>
        /\ WithPhone(req[r].phone) \subseteq {req[r].id}
        /\ req[r].id # None => \/ account[req[r].id].phone = req[r].phone
                               \/ At(r, "counter") /\ account[req[r].id].email = req[r].email

\* What a request may rely on when it executes its next statement.
RequestInv(r) ==
    /\ At(r, "sync") =>
        /\ req[r].email \in Emails
        /\ \A i \in WithEmail(req[r].email) : Admissible(i)
    /\ At(r, "register") =>
        /\ req[r].email \in Emails
        /\ ~req[r].stale => WithEmail(req[r].email) = {}
    /\ At(r, "approve") => req[r].id \in Existing
    /\ At(r, "login") =>
        /\ req[r].id \in Existing
        /\ account[req[r].id].password /\ Admitted(account[req[r].id])
    /\ At(r, "byEmail") => CounterInv(r)
    /\ At(r, "counter") =>
        /\ CounterInv(r)
        /\ req[r].id # None => account[req[r].id].role = "CUSTOMER"
        /\ ~req[r].stale /\ req[r].email # None => WithEmail(req[r].email) \subseteq {req[r].id}
    /\ At(r, "cart") =>
        /\ req[r].id \in Existing
        /\ req[r].signsIn => Admissible(req[r].id)

SessionInv ==
    \A i \in signedIn : Admissible(i) /\ (i \in carts \/ account[i].password)

AccountsInv ==
    /\ TypeOK
    /\ RowsInv
    /\ \A r \in Requests : RequestInv(r)
    /\ SessionInv

-------------------------------------------------------------------------------
(* The values *)

LEMMA IdleType == Idle \in RequestStates /\ Idle.pc = "idle"
  BY DEF Idle, Request, RequestStates, Statements

LEMMA NewRowType ==
    ASSUME NEW email \in Emails, NEW phone \in Phones \cup {None},
           NEW role \in {"CUSTOMER", "ADMIN"}, NEW provider \in {"GOOGLE", "CREDENTIALS"}
    PROVE  /\ NewRow(email, phone, role, provider) \in AccountRows
           /\ NewRow(email, phone, role, provider).email = email
           /\ NewRow(email, phone, role, provider).phone = phone
           /\ role = "CUSTOMER" => Admitted(NewRow(email, phone, role, provider))
  BY DEF NewRow, AccountRows, Admitted

-------------------------------------------------------------------------------
(* Steps that write no account *)

\* A step that changes the request of r alone keeps everything but what r itself
\* may rely on.
LEMMA Quiet ==
    ASSUME AccountsInv, NEW r \in Requests, NEW mine \in RequestStates,
           req' = [req EXCEPT ![r] = mine], UNCHANGED <<account, given, overtaken>>
    PROVE  /\ account' \in [Accounts -> AccountRows \cup {None}]
           /\ overtaken' \subseteq Accounts /\ given' \subseteq MadeUp
           /\ req' \in [Requests -> RequestStates]
           /\ RowsInv'
           /\ req'[r] = mine
           /\ \A s \in Requests \ {r} : RequestInv(s)'
<1>1. account' \in [Accounts -> AccountRows \cup {None}] /\ overtaken' \subseteq Accounts
      /\ given' \subseteq MadeUp
      /\ req' \in [Requests -> RequestStates] /\ req'[r] = mine
  BY DEF AccountsInv, TypeOK
<1>2. RowsInv'
  BY DEF AccountsInv, RowsInv, Existing, Unique
<1>3. ASSUME NEW s \in Requests \ {r} PROVE RequestInv(s)'
  <2>1. req'[s] = req[s] /\ RequestInv(s)
    BY DEF AccountsInv, TypeOK
  <2>. QED
    BY <2>1 DEF RequestInv, CounterInv, Admissible, Admitted, WithEmail, WithPhone, Existing, At
<1>. QED
  BY <1>1, <1>2, <1>3

\* A request that returns, or is cut short.
LEMMA Finished ==
    ASSUME AccountsInv, NEW r \in Requests, Finish(r),
           UNCHANGED <<account, carts, signedIn, given, overtaken>>
    PROVE  AccountsInv'
<1>1. req' = [req EXCEPT ![r] = Idle]
  BY DEF Finish
<1>2. RequestInv(r)'
  <2>1. req'[r].pc = "idle"
    BY <1>1, IdleType DEF AccountsInv, TypeOK
  <2>. QED
    BY <2>1 DEF RequestInv, At
<1>3. SessionInv'
  BY DEF AccountsInv, SessionInv, Admissible, Admitted, Existing
<1>. QED
  <2>1. TypeOK'
    BY <1>1, IdleType, Quiet DEF AccountsInv, TypeOK
  <2>2. RowsInv' /\ \A s \in Requests \ {r} : RequestInv(s)'
    BY <1>1, IdleType, Quiet
  <2>. QED
    BY <2>1, <2>2, <1>2, <1>3 DEF AccountsInv

\* A request that asked a question and goes on to its next statement.
LEMMA Onward ==
    ASSUME AccountsInv, NEW r \in Requests, NEW mine \in RequestStates,
           req' = [req EXCEPT ![r] = mine], UNCHANGED <<account, carts, signedIn, given, overtaken>>,
           RequestInv(r)'
    PROVE  AccountsInv'
<1>1. SessionInv'
  BY DEF AccountsInv, SessionInv, Admissible, Admitted, Existing
<1>2. TypeOK'
  BY Quiet DEF AccountsInv, TypeOK
<1>3. RowsInv' /\ \A s \in Requests \ {r} : RequestInv(s)'
  BY Quiet
<1>. QED
  BY <1>1, <1>2, <1>3 DEF AccountsInv

-------------------------------------------------------------------------------
(* Steps that write an account *)

\* What every write of an account keeps of the row it writes over.
Keeps(i, row) ==
    i \in Existing =>
        /\ row.role = account[i].role
        /\ account[i].approved => row.approved
        /\ account[i].password => row.password
        /\ \A p \in Phones : row.email = CounterEmail[p] =>
                account[i].email = CounterEmail[p] \/ CounterEmail[p] \in given'

\* An e-mail made up for another phone was brought.
OwnPhone(row) ==
    \A p \in Phones : row.email = CounterEmail[p] => row.phone = p \/ CounterEmail[p] \in given'

\* Whoever is being signed in with the e-mail of the row may be, or was overtaken.
SpareSyncs(r, i, row) ==
    \A s \in Requests \ {r} :
        At(s, "sync") /\ req[s].email = row.email => Admitted(row) \/ i \in overtaken'

LEMMA Write ==
    ASSUME AccountsInv, NEW r \in Requests, NEW i \in Accounts, NEW row \in AccountRows,
           NEW mine \in RequestStates,
           Unique(i, row), Keeps(i, row), SpareSyncs(r, i, row),
           OwnPhone(row),
           account' = [account EXCEPT ![i] = row],
           req' = [Aged(i, row) EXCEPT ![r] = mine],
           overtaken \subseteq overtaken', overtaken' \subseteq Accounts,
           given \subseteq given', given' \subseteq MadeUp,
           UNCHANGED <<carts, signedIn>>,
           RequestInv(r)'
    PROVE  AccountsInv'
<1>1. /\ account \in [Accounts -> AccountRows \cup {None}]
      /\ req \in [Requests -> RequestStates]
  BY DEF AccountsInv, TypeOK
<1>2. /\ account' \in [Accounts -> AccountRows \cup {None}]
      /\ account'[i] = row /\ row # None
      /\ \A j \in Accounts \ {i} : account'[j] = account[j]
  BY <1>1, AccountsAssumption
<1>3. Existing' = Existing \cup {i}
  BY <1>2 DEF Existing
<1>4. /\ req' \in [Requests -> RequestStates]
      /\ req'[r] = mine
      /\ \A s \in Requests \ {r} : req'[s] = Aged(i, row)[s]
  BY <1>1 DEF Aged, RequestStates
<1>5. TypeOK'
  BY <1>2, <1>4 DEF AccountsInv, TypeOK
<1>6. RowsInv'
  BY <1>2, <1>3 DEF AccountsInv, RowsInv, Unique, OwnPhone, Existing
<1>7. \A j \in Existing :
        /\ account'[j].role = account[j].role
        /\ account[j].approved => account'[j].approved
        /\ account[j].password => account'[j].password
        /\ \A p \in Phones : account'[j].email = CounterEmail[p] =>
                account[j].email = CounterEmail[p] \/ CounterEmail[p] \in given'
  BY <1>2 DEF Keeps, Existing
<1>8. \A j : Admissible(j) => Admissible(j)'
  BY <1>3, <1>7 DEF Admissible, Admitted
<1>9. SessionInv'
  BY <1>7, <1>8 DEF AccountsInv, SessionInv, Admissible
<1>10. ASSUME NEW s \in Requests \ {r} PROVE RequestInv(s)'
  <2>1. RequestInv(s) /\ req[s] \in RequestStates
    BY <1>1 DEF AccountsInv
  <2>2. /\ req'[s].pc = req[s].pc /\ req'[s].email = req[s].email
        /\ req'[s].phone = req[s].phone /\ req'[s].id = req[s].id
        /\ req'[s].signsIn = req[s].signsIn
        /\ ~req'[s].stale => ~req[s].stale
    BY <1>4, <2>1 DEF Aged, RequestStates
  <2>3. ASSUME ~req'[s].stale, ~At(s, "idle")
        PROVE  /\ i \in Existing
               /\ row.email = account[i].email /\ row.phone = account[i].phone
    BY <1>1, <1>4, <2>1, <2>3 DEF Aged, RequestStates, Existing
  <2>4. ASSUME ~req'[s].stale, ~At(s, "idle")
        PROVE  \A e, p : WithEmail(e)' = WithEmail(e) /\ WithPhone(p)' = WithPhone(p)
    BY <2>3, <2>4, <1>2, <1>3 DEF WithEmail, WithPhone, Existing
  <2>5. CASE At(s, "sync")
    <3>1. ASSUME NEW j \in WithEmail(req[s].email)' PROVE Admissible(j)'
      <4>1. CASE j = i
        BY <4>1, <3>1, <2>5, <2>2, <1>2, <1>3 DEF WithEmail, SpareSyncs, Admissible, Admitted
      <4>2. CASE j # i
        BY <4>2, <3>1, <2>5, <2>2, <1>2, <1>3, <1>8, <2>1 DEF WithEmail, RequestInv, Existing
      <4>. QED
        BY <4>1, <4>2
    <3>. QED
      BY <3>1, <2>5, <2>1, <2>2 DEF RequestInv, At, WithEmail
  <2>6. CASE At(s, "register")
    BY <2>6, <2>1, <2>2, <2>4 DEF RequestInv, At
  <2>7. CASE At(s, "approve")
    BY <2>7, <2>1, <2>2, <1>3 DEF RequestInv, At
  <2>8. CASE At(s, "login")
    BY <2>8, <2>1, <2>2, <1>3, <1>7 DEF RequestInv, At, Admitted
  <2>9. ASSUME CounterInv(s), At(s, "byEmail") \/ At(s, "counter") PROVE CounterInv(s)'
    <3>1. ~At(s, "idle")
      BY <2>9 DEF At
    <3>2. req[s].id # None => req[s].id \in Existing
      BY <2>9 DEF CounterInv
    <3>3. req[s].phone \in Phones
      BY <2>9 DEF CounterInv
    <3>4. req[s].id # None => req[s].id \in Existing'
      BY <3>2, <1>3
    <3>5. ASSUME req[s].id # None, req[s].email = None, NEW p \in Phones,
                 account'[req[s].id].email = CounterEmail[p]
          PROVE  p = req[s].phone \/ CounterEmail[p] \in given'
      BY <3>5, <3>2, <2>9, <1>7 DEF CounterInv
    <3>6. ASSUME ~req'[s].stale
          PROVE  /\ WithPhone(req[s].phone)' \subseteq {req[s].id}
                 /\ req[s].id # None =>
                        \/ account'[req[s].id].phone = req[s].phone
                        \/ At(s, "counter") /\ account'[req[s].id].email = req[s].email
      <4>1. WithPhone(req[s].phone)' \subseteq {req[s].id}
        <5>1. WithPhone(req[s].phone) \subseteq {req[s].id}
          BY <3>6, <2>9, <2>2 DEF CounterInv
        <5>2. \A j \in WithPhone(req[s].phone)' : j \in WithPhone(req[s].phone)
          BY <3>6, <3>1, <2>2, <2>3, <1>2, <1>3 DEF WithPhone, Existing
        <5>. QED
          BY <5>1, <5>2, <2>2
      <4>2. req[s].id # None => account'[req[s].id].phone = account[req[s].id].phone
                             /\ account'[req[s].id].email = account[req[s].id].email
        BY <3>6, <3>1, <3>2, <2>3, <1>2 DEF Existing
      <4>. QED
        BY <4>1, <4>2, <3>6, <2>9, <2>2 DEF CounterInv
    <3>. QED
      BY <3>3, <3>4, <3>5, <3>6, <2>2 DEF CounterInv, At, WithPhone
  <2>10. CASE At(s, "byEmail")
    BY <2>10, <2>9, <2>1, <2>2 DEF RequestInv, At
  <2>11. CASE At(s, "counter")
    <3>1. CounterInv(s)'
      BY <2>11, <2>9, <2>1 DEF RequestInv
    <3>2. req[s].id # None => account'[req[s].id].role = "CUSTOMER"
      BY <2>11, <2>1, <1>7 DEF RequestInv, CounterInv
    <3>3. ASSUME ~req'[s].stale, req[s].email # None
          PROVE  \A j \in Existing' : account'[j].email = req[s].email => j = req[s].id
      BY <3>3, <2>11, <2>1, <2>2, <2>3, <1>2, <1>3 DEF RequestInv, WithEmail, Existing, At
    <3>. QED
      BY <3>1, <3>2, <3>3, <2>11, <2>2 DEF RequestInv, At, WithEmail
  <2>12. CASE At(s, "cart")
    BY <2>12, <2>1, <2>2, <1>3, <1>8 DEF RequestInv, At
  <2>13. CASE At(s, "idle")
    BY <2>13, <2>2 DEF RequestInv, At
  <2>. QED
    BY <2>1, <2>5, <2>6, <2>7, <2>8, <2>10, <2>11, <2>12, <2>13 DEF At, RequestStates, Statements
<1>. QED
  BY <1>5, <1>6, <1>9, <1>10 DEF AccountsInv

-------------------------------------------------------------------------------
(* The actions *)

LEMMA InitInv == Init => AccountsInv
<1>. SUFFICES ASSUME Init PROVE AccountsInv
  OBVIOUS
<1>. DEFINE owner == [email |-> OwnerEmail, phone |-> None, role |-> "SUPER_ADMIN",
                      provider |-> "CREDENTIALS", approved |-> TRUE, password |-> TRUE]
<1>1. owner \in AccountRows /\ owner.email = OwnerEmail
  BY AccountsAssumption DEF AccountRows
<1>2. account = [i \in Accounts |-> IF i = Owner THEN owner ELSE None]
  BY DEF Init
<1>. HIDE DEF owner
<1>3. Existing = {Owner}
  BY <1>1, <1>2, AccountsAssumption DEF Existing
<1>4. TypeOK
  BY <1>1, <1>2, IdleType, AccountsAssumption DEF Init, TypeOK
<1>5. RowsInv
  <2>1. \A p \in Phones : OwnerEmail = CounterEmail[p] => CounterEmail[p] \in given
    BY DEF Init, MadeUp
  <2>. QED
    BY <1>1, <1>2, <1>3, <2>1, AccountsAssumption DEF RowsInv, Unique
<1>6. \A r \in Requests : RequestInv(r)
  BY IdleType DEF Init, RequestInv, At
<1>. QED
  BY <1>4, <1>5, <1>6 DEF AccountsInv, SessionInv, Init

LEMMA StartSyncInv ==
    ASSUME AccountsInv, NEW r \in Requests, NEW email \in Emails, StartSync(r, email)
    PROVE  AccountsInv'
<1>. DEFINE mine == Request("sync", email, None, None, FALSE)
<1>1. mine \in RequestStates /\ mine.pc = "sync" /\ mine.email = email
  BY DEF Request, RequestStates, Statements
<1>2. req' = [req EXCEPT ![r] = mine] /\ UNCHANGED <<account, carts, signedIn, given, overtaken>>
  BY DEF StartSync, Start
<1>. HIDE DEF mine
<1>3. req'[r] = mine
  BY <1>2 DEF AccountsInv, TypeOK
<1>4. \A i \in WithEmail(email) : Admissible(i)
  BY DEF StartSync, Admissible, Admitted, WithEmail
<1>5. RequestInv(r)'
  BY <1>1, <1>2, <1>3, <1>4 DEF RequestInv, At, WithEmail, Existing, Admissible, Admitted
<1>. QED
  BY <1>1, <1>2, <1>5, Onward

LEMMA StartRegisterInv ==
    ASSUME AccountsInv, NEW r \in Requests, NEW email \in Emails, StartRegister(r, email)
    PROVE  AccountsInv'
<1>. DEFINE mine == Request("register", Lowered[email], None, None, FALSE)
<1>1. Lowered[email] \in Emails
  BY AccountsAssumption
<1>2. mine \in RequestStates /\ mine.pc = "register" /\ mine.email = Lowered[email]
  BY <1>1 DEF Request, RequestStates, Statements
<1>3. req' = [req EXCEPT ![r] = mine] /\ UNCHANGED <<account, carts, signedIn, given, overtaken>>
  BY DEF StartRegister, Start
<1>. HIDE DEF mine
<1>4. req'[r] = mine
  BY <1>3 DEF AccountsInv, TypeOK
<1>5. RequestInv(r)'
  BY <1>1, <1>2, <1>3, <1>4 DEF StartRegister, RequestInv, At, WithEmail, Existing
<1>. QED
  BY <1>2, <1>3, <1>5, Onward

LEMMA StartApproveInv ==
    ASSUME AccountsInv, NEW r \in Requests, NEW i \in Accounts, StartApprove(r, i)
    PROVE  AccountsInv'
<1>. DEFINE mine == Request("approve", None, None, i, FALSE)
<1>1. mine \in RequestStates /\ mine.pc = "approve" /\ mine.id = i
  BY DEF Request, RequestStates, Statements
<1>2. req' = [req EXCEPT ![r] = mine] /\ UNCHANGED <<account, carts, signedIn, given, overtaken>>
  BY DEF StartApprove, Start
<1>. HIDE DEF mine
<1>3. req'[r] = mine
  BY <1>2 DEF AccountsInv, TypeOK
<1>4. RequestInv(r)'
  BY <1>1, <1>2, <1>3 DEF StartApprove, RequestInv, At, Existing
<1>. QED
  BY <1>1, <1>2, <1>4, Onward

LEMMA StartLoginInv ==
    ASSUME AccountsInv, NEW r \in Requests, NEW i \in Accounts, StartLogin(r, i)
    PROVE  AccountsInv'
<1>. DEFINE mine == Request("login", None, None, i, FALSE)
<1>1. mine \in RequestStates /\ mine.pc = "login" /\ mine.id = i
  BY DEF Request, RequestStates, Statements
<1>2. req' = [req EXCEPT ![r] = mine] /\ UNCHANGED <<account, carts, signedIn, given, overtaken>>
  BY DEF StartLogin, Start
<1>. HIDE DEF mine
<1>3. req'[r] = mine
  BY <1>2 DEF AccountsInv, TypeOK
<1>4. RequestInv(r)'
  BY <1>1, <1>2, <1>3 DEF StartLogin, RequestInv, At, Existing, Admitted
<1>. QED
  BY <1>1, <1>2, <1>4, Onward

\* An account found by its phone is the only one that has it.
LEMMA PhoneIsUnique ==
    ASSUME AccountsInv, NEW phone \in Phones
    PROVE  /\ WithPhone(phone) \subseteq {Found(WithPhone(phone))}
           /\ WithPhone(phone) # {} => Found(WithPhone(phone)) \in WithPhone(phone)
           /\ WithPhone(phone) = {} => Found(WithPhone(phone)) = None
  BY AccountsAssumption DEF AccountsInv, RowsInv, Unique, WithPhone, Found

LEMMA EmailIsUnique ==
    ASSUME AccountsInv, NEW email
    PROVE  /\ WithEmail(email) \subseteq {Found(WithEmail(email))}
           /\ WithEmail(email) # {} => Found(WithEmail(email)) \in WithEmail(email)
           /\ WithEmail(email) = {} => Found(WithEmail(email)) = None
  BY DEF AccountsInv, RowsInv, Unique, WithEmail, Found

LEMMA StartCounterInv ==
    ASSUME AccountsInv, NEW r \in Requests, NEW phone \in Phones, NEW email \in Emails \cup {None},
           StartCounter(r, phone, email)
    PROVE  AccountsInv'
<1>. DEFINE found == Found(WithPhone(phone))
<1>. DEFINE mine == Request("byEmail", email, phone, found, FALSE)
<1>1. /\ WithPhone(phone) \subseteq {found}
      /\ found # None => found \in WithPhone(phone)
      /\ found \in Accounts \cup {None}
  BY PhoneIsUnique DEF WithPhone, Existing
<1>. HIDE DEF found
<1>2. /\ mine \in RequestStates /\ mine.pc = "byEmail" /\ mine.id = found
      /\ mine.phone = phone
  BY <1>1 DEF Request, RequestStates, Statements
<1>3. req' = [req EXCEPT ![r] = mine] /\ UNCHANGED <<account, carts, signedIn, given, overtaken>>
  BY DEF StartCounter, Start, found
<1>. HIDE DEF mine
<1>4. req'[r] = mine
  BY <1>3 DEF AccountsInv, TypeOK
<1>5. found # None => /\ found \in Existing /\ account[found].phone = phone
                      /\ \A p \in Phones : account[found].email = CounterEmail[p] =>
                            p = phone \/ CounterEmail[p] \in given
  BY <1>1 DEF WithPhone, AccountsInv, RowsInv
<1>6. CounterInv(r)'
  BY <1>1, <1>2, <1>3, <1>4, <1>5 DEF CounterInv, WithPhone, Existing
<1>7. RequestInv(r)'
  BY <1>2, <1>4, <1>6 DEF RequestInv, At
<1>. QED
  BY <1>2, <1>3, <1>7, Onward

LEMMA FindByEmailInv ==
    ASSUME AccountsInv, NEW r \in Requests, FindByEmail(r)
    PROVE  AccountsInv'
<1>. DEFINE byPhone == req[r].id
            byEmail == Found(WithEmail(req[r].email))
            found == IF byPhone # None THEN byPhone ELSE byEmail
            old == req[r]
            mine == [old EXCEPT !.pc = "counter", !.id = found]
<1>1. CASE Finish(r)
  BY <1>1, Finished DEF FindByEmail
<1>2. CASE ~Finish(r)
  <2>1. /\ byPhone = None \/ byEmail = None \/ byPhone = byEmail
        /\ found # None => account[found].role = "CUSTOMER"
        /\ req' = [req EXCEPT ![r] = mine]
        /\ UNCHANGED <<account, carts, signedIn, given, overtaken>>
        /\ At(r, "byEmail")
    BY <1>2 DEF FindByEmail
  <2>2. CounterInv(r) /\ old \in RequestStates
    BY <2>1 DEF AccountsInv, TypeOK, RequestInv
  <2>3. /\ WithEmail(old.email) \subseteq {byEmail}
        /\ byEmail # None => byEmail \in WithEmail(old.email)
    BY EmailIsUnique
  <2>4. old.email = None => byEmail = None
    BY <2>3, AccountsAssumption DEF WithEmail, Existing, AccountsInv, TypeOK, AccountRows
  <2>5. found # None => found \in Existing
    BY <2>2, <2>3 DEF CounterInv, WithEmail
  <2>. HIDE DEF found, byEmail
  <2>6. /\ mine \in RequestStates /\ mine.pc = "counter" /\ mine.id = found
        /\ mine.email = old.email /\ mine.phone = old.phone /\ mine.stale = old.stale
    BY <2>2, <2>5 DEF RequestStates, Statements, Existing
  <2>. HIDE DEF mine
  <2>7. req'[r] = mine
    BY <2>1 DEF AccountsInv, TypeOK
  <2>8. old.email # None => WithEmail(old.email) \subseteq {found}
    BY <2>1, <2>3, AccountsAssumption DEF found, WithEmail, Existing
  <2>9. ~old.stale => WithPhone(old.phone) \subseteq {found}
    BY <2>2, AccountsAssumption DEF CounterInv, found, WithPhone, Existing
  <2>10. ~old.stale /\ found # None =>
            account[found].phone = old.phone \/ account[found].email = old.email
    BY <2>1, <2>2, <2>3 DEF CounterInv, found, At, WithEmail
  <2>11. found # None /\ old.email = None =>
            \A p \in Phones : account[found].email = CounterEmail[p] =>
                p = old.phone \/ CounterEmail[p] \in given
    BY <2>2, <2>4 DEF CounterInv, found
  <2>12. CounterInv(r)'
    BY <2>1, <2>2, <2>5, <2>6, <2>7, <2>9, <2>10, <2>11 DEF CounterInv, WithPhone, Existing, At
  <2>13. RequestInv(r)'
    BY <2>1, <2>6, <2>7, <2>8, <2>12 DEF RequestInv, At, WithEmail, Existing
  <2>. QED
    BY <2>1, <2>6, <2>13, Onward
<1>. QED
  BY <1>1, <1>2

LEMMA LoginAdminInv ==
    ASSUME AccountsInv, NEW r \in Requests, LoginAdmin(r)
    PROVE  AccountsInv'
<1>1. /\ req' = [req EXCEPT ![r] = Idle] /\ signedIn' = signedIn \cup {req[r].id}
      /\ UNCHANGED <<account, carts, given, overtaken>>
      /\ RequestInv(r) /\ At(r, "login")
  BY DEF LoginAdmin, Finish, AccountsInv
<1>2. req'[r].pc = "idle" /\ RowsInv' /\ \A s \in Requests \ {r} : RequestInv(s)'
  BY <1>1, IdleType, Quiet
<1>3. RequestInv(r)'
  BY <1>2 DEF RequestInv, At
<1>4. req[r].id \in Existing /\ account[req[r].id].password /\ Admitted(account[req[r].id])
  BY <1>1 DEF RequestInv
<1>5. SessionInv'
  BY <1>1, <1>4 DEF AccountsInv, SessionInv, Admissible, Admitted, Existing
<1>6. TypeOK'
  BY <1>1, <1>4, IdleType, Quiet DEF AccountsInv, TypeOK, Existing
<1>. QED
  BY <1>2, <1>3, <1>5, <1>6 DEF AccountsInv

LEMMA EnsureCartInv ==
    ASSUME AccountsInv, NEW r \in Requests, EnsureCart(r)
    PROVE  AccountsInv'
<1>1. /\ req' = [req EXCEPT ![r] = Idle]
      /\ carts' = carts \cup {req[r].id}
      /\ signedIn' = IF req[r].signsIn THEN signedIn \cup {req[r].id} ELSE signedIn
      /\ UNCHANGED <<account, given, overtaken>>
      /\ RequestInv(r) /\ At(r, "cart")
  BY DEF EnsureCart, Finish, AccountsInv
<1>2. req'[r].pc = "idle" /\ RowsInv' /\ \A s \in Requests \ {r} : RequestInv(s)'
  BY <1>1, IdleType, Quiet
<1>3. RequestInv(r)'
  BY <1>2 DEF RequestInv, At
<1>4. req[r].id \in Existing /\ (req[r].signsIn => Admissible(req[r].id))
  BY <1>1 DEF RequestInv
<1>5. SessionInv'
  BY <1>1, <1>4 DEF AccountsInv, SessionInv, Admissible, Admitted, Existing
<1>6. TypeOK'
  BY <1>1, <1>4, IdleType, Quiet DEF AccountsInv, TypeOK, Existing
<1>. QED
  BY <1>2, <1>3, <1>5, <1>6 DEF AccountsInv

LEMMA ApproveAdminInv ==
    ASSUME AccountsInv, NEW r \in Requests, ApproveAdmin(r)
    PROVE  AccountsInv'
<1>. DEFINE i == req[r].id
            old == account[i]
            row == [old EXCEPT !.approved = TRUE]
<1>1. /\ account' = [account EXCEPT ![i] = row] /\ req' = [req EXCEPT ![r] = Idle]
      /\ UNCHANGED <<carts, signedIn, given, overtaken>>
      /\ RequestInv(r) /\ At(r, "approve")
  BY DEF ApproveAdmin, Finish, AccountsInv
<1>2. i \in Existing /\ i \in Accounts /\ old \in AccountRows
  BY <1>1 DEF RequestInv, Existing, AccountsInv, TypeOK
<1>. HIDE DEF old
<1>3. /\ row \in AccountRows /\ row.email = old.email /\ row.phone = old.phone
      /\ row.role = old.role /\ row.approved /\ row.password = old.password
  BY <1>2 DEF AccountRows
<1>. HIDE DEF row
<1>4. Aged(i, row) = req
  BY <1>2, <1>3 DEF Aged, Existing, old, AccountsInv, TypeOK
<1>5. Unique(i, row) /\ OwnPhone(row)
  BY <1>1, <1>2, <1>3 DEF Unique, OwnPhone, AccountsInv, RowsInv, old
<1>6. Keeps(i, row) /\ SpareSyncs(r, i, row)
  BY <1>3 DEF Keeps, SpareSyncs, Admitted, old
<1>7. RequestInv(r)'
  <2>1. req'[r].pc = "idle"
    BY <1>1, IdleType DEF AccountsInv, TypeOK
  <2>. QED
    BY <2>1 DEF RequestInv, At
<1>. QED
  <2>1. req' = [Aged(i, row) EXCEPT ![r] = Idle] /\ overtaken \subseteq overtaken'
        /\ overtaken' \subseteq Accounts /\ given \subseteq given' /\ given' \subseteq MadeUp
    BY <1>1, <1>4 DEF AccountsInv, TypeOK
  <2>. HIDE DEF i
  <2>. QED
    BY <1>1, <1>2, <1>3, <1>5, <1>6, <1>7, <2>1, IdleType, Write

\* A write after which the request makes sure that the account has a cart.
LEMMA WriteThenCartInv ==
    ASSUME AccountsInv, NEW r \in Requests, NEW i \in Accounts, NEW row \in AccountRows,
           NEW signsIn \in BOOLEAN, WriteThenCart(r, i, row, signsIn),
           Unique(i, row), Keeps(i, row), SpareSyncs(r, i, row),
           OwnPhone(row),
           signsIn => Admitted(row) \/ i \in overtaken,
           UNCHANGED <<carts, signedIn, overtaken>>
    PROVE  AccountsInv'
<1>. DEFINE mine == Request("cart", None, None, i, signsIn)
<1>1. /\ mine \in RequestStates /\ mine.pc = "cart" /\ mine.id = i
      /\ mine.signsIn = signsIn
  BY DEF Request, RequestStates, Statements
<1>2. account' = [account EXCEPT ![i] = row] /\ req' = [Aged(i, row) EXCEPT ![r] = mine]
  BY DEF WriteThenCart
<1>. HIDE DEF mine
<1>3. req'[r] = mine /\ account'[i] = row /\ i \in Existing'
  BY <1>2, AccountsAssumption DEF AccountsInv, TypeOK, Aged, Existing
<1>4. RequestInv(r)'
  BY <1>1, <1>3 DEF RequestInv, At, Admissible, Admitted
<1>. QED
  <2>1. overtaken \subseteq overtaken' /\ overtaken' \subseteq Accounts
    BY DEF AccountsInv, TypeOK
  <2>2. given \subseteq given' /\ given' \subseteq MadeUp
    BY DEF WriteThenCart, Gives, AccountsInv, TypeOK
  <2>. QED
    BY <1>1, <1>2, <1>4, <2>1, <2>2, Write

LEMMA SyncUserInv ==
    ASSUME AccountsInv, NEW r \in Requests, SyncUser(r)
    PROVE  AccountsInv'
<1>. DEFINE email == req[r].email
<1>1. /\ email \in Emails
      /\ \A i \in WithEmail(email) : Admissible(i)
      /\ UNCHANGED <<carts, signedIn, overtaken>>
  BY DEF SyncUser, AccountsInv, RequestInv
<1>. HIDE DEF email
<1>2. ASSUME NEW i \in WithEmail(email),
             WriteThenCart(r, i, [account[i] EXCEPT !.provider = "GOOGLE"], TRUE)
      PROVE  AccountsInv'
  <2>. DEFINE old == account[i]
              row == [old EXCEPT !.provider = "GOOGLE"]
  <2>1. i \in Existing /\ i \in Accounts /\ old \in AccountRows /\ old.email = email
    BY <1>2 DEF WithEmail, Existing, AccountsInv, TypeOK
  <2>2. WriteThenCart(r, i, row, TRUE)
    BY <1>2
  <2>. HIDE DEF old
  <2>3. /\ row \in AccountRows /\ row.email = old.email /\ row.phone = old.phone
        /\ row.role = old.role /\ row.approved = old.approved /\ row.password = old.password
    BY <2>1 DEF AccountRows
  <2>. HIDE DEF row
  <2>4. Unique(i, row) /\ OwnPhone(row)
    BY <2>1, <2>2, <2>3 DEF Unique, OwnPhone, WriteThenCart, Gives, AccountsInv, RowsInv, old
  <2>5. Admitted(row) \/ i \in overtaken
    BY <1>1, <2>1, <2>3 DEF WithEmail, Admissible, Admitted, old
  <2>6. Keeps(i, row) /\ SpareSyncs(r, i, row)
    BY <1>1, <2>3, <2>5 DEF Keeps, SpareSyncs, old
  <2>. QED
    BY <1>1, <2>1, <2>2, <2>3, <2>4, <2>5, <2>6, WriteThenCartInv
<1>3. ASSUME NEW i \in Accounts \ Existing, WithEmail(email) = {},
             WriteThenCart(r, i, NewRow(email, None, "CUSTOMER", "GOOGLE"), TRUE)
      PROVE  AccountsInv'
  <2>. DEFINE row == NewRow(email, None, "CUSTOMER", "GOOGLE")
  <2>1. /\ row \in AccountRows /\ row.email = email /\ row.phone = None /\ Admitted(row)
    BY <1>1, NewRowType
  <2>2. WriteThenCart(r, i, row, TRUE)
    BY <1>3
  <2>. HIDE DEF row
  <2>3. Unique(i, row) /\ OwnPhone(row)
    BY <1>1, <1>3, <2>1, <2>2, AccountsAssumption
    DEF Unique, WithEmail, OwnPhone, WriteThenCart, Gives, MadeUp, email
  <2>4. Keeps(i, row) /\ SpareSyncs(r, i, row)
    BY <1>3, <2>1 DEF Keeps, SpareSyncs
  <2>. QED
    BY <1>1, <1>3, <2>1, <2>2, <2>3, <2>4, WriteThenCartInv
<1>. QED
  BY <1>2, <1>3 DEF SyncUser, email

LEMMA RegisterAdminInv ==
    ASSUME AccountsInv, NEW r \in Requests, RegisterAdmin(r)
    PROVE  AccountsInv'
<1>. DEFINE email == req[r].email
            row == NewRow(email, None, "ADMIN", "CREDENTIALS")
<1>1. email \in Emails /\ UNCHANGED <<carts, signedIn>>
  BY DEF RegisterAdmin, AccountsInv, RequestInv
<1>2. row \in AccountRows /\ row.email = email /\ row.phone = None
  BY <1>1, NewRowType
<1>3. PICK i \in Accounts \ Existing :
        IF Unique(i, row)
        THEN /\ account' = [account EXCEPT ![i] = row]
             /\ Gives(r)
             /\ req' = [Aged(i, row) EXCEPT ![r] = Idle]
             /\ overtaken' = IF \E s \in Requests : At(s, "sync") /\ req[s].email = row.email
                             THEN overtaken \cup {i} ELSE overtaken
        ELSE Finish(r) /\ UNCHANGED <<account, given, overtaken>>
  BY DEF RegisterAdmin
<1>. HIDE DEF email, row
<1>4. CASE ~Unique(i, row)
  BY <1>1, <1>3, <1>4, Finished
<1>5. CASE Unique(i, row)
  <2>1. Keeps(i, row) /\ SpareSyncs(r, i, row)
    BY <1>3, <1>5 DEF Keeps, SpareSyncs
  <2>2. OwnPhone(row)
    BY <1>2, <1>3, <1>5 DEF OwnPhone, Gives, MadeUp, email
  <2>3. /\ overtaken \subseteq overtaken' /\ overtaken' \subseteq Accounts
        /\ given \subseteq given' /\ given' \subseteq MadeUp
    BY <1>3, <1>5 DEF AccountsInv, TypeOK, Gives
  <2>4. req'[r].pc = "idle"
    BY <1>3, <1>5, IdleType DEF Aged
  <2>5. RequestInv(r)'
    BY <2>4 DEF RequestInv, At
  <2>. QED
    BY <1>1, <1>2, <1>3, <1>5, <2>1, <2>2, <2>3, <2>5, IdleType, Write
<1>. QED
  BY <1>4, <1>5

\* The row of a counter request.
LEMMA CounterRowFits ==
    ASSUME AccountsInv, NEW r \in Requests, At(r, "counter"), NEW i \in CounterTargets(r)
    PROVE  /\ i \in Accounts
           /\ CounterRow(r, i) \in AccountRows
           /\ CounterRow(r, i).phone = req[r].phone
           /\ CounterRow(r, i).role = "CUSTOMER"
           /\ req[r].id # None =>
                /\ i = req[r].id /\ i \in Existing
                /\ account[i].role = "CUSTOMER"
                /\ CounterRow(r, i).approved = account[i].approved
                /\ CounterRow(r, i).password = account[i].password
                /\ CounterRow(r, i).email =
                    IF req[r].email = None THEN account[i].email ELSE req[r].email
           /\ req[r].id = None =>
                /\ i \notin Existing
                /\ CounterRow(r, i).email =
                    IF req[r].email = None THEN CounterEmail[req[r].phone] ELSE req[r].email
<1>. DEFINE row == CounterRow(r, i)
            old == account[i]
            email == req[r].email
            phone == req[r].phone
<1>1. /\ CounterInv(r) /\ phone \in Phones /\ email \in Emails \cup {None}
      /\ req[r].id # None => req[r].id \in Existing /\ account[req[r].id].role = "CUSTOMER"
  BY DEF AccountsInv, TypeOK, RequestStates, RequestInv, CounterInv
<1>2. CASE req[r].id = None
  <2>1. i \in Accounts \ Existing
    BY <1>2 DEF CounterTargets
  <2>2. row = NewRow(IF email = None THEN CounterEmail[phone] ELSE email, phone,
                     "CUSTOMER", "CREDENTIALS")
    BY <1>2 DEF CounterRow
  <2>3. CounterEmail[phone] \in Emails
    BY <1>1, AccountsAssumption
  <2>. HIDE DEF row, email, phone
  <2>4. /\ row \in AccountRows /\ row.phone = phone /\ row.role = "CUSTOMER"
        /\ row.email = IF email = None THEN CounterEmail[phone] ELSE email
    BY <1>1, <2>2, <2>3 DEF NewRow, AccountRows
  <2>. QED
    BY <1>2, <2>1, <2>4 DEF row, email, phone
<1>3. CASE req[r].id # None
  <2>1. i = req[r].id /\ i \in Existing /\ i \in Accounts /\ old \in AccountRows
        /\ old.role = "CUSTOMER"
    BY <1>1, <1>3 DEF CounterTargets, Existing, AccountsInv, TypeOK
  <2>2. row = [old EXCEPT !.email = IF email = None THEN @ ELSE email, !.phone = phone]
    BY <1>3 DEF CounterRow
  <2>. HIDE DEF row, old, email, phone
  <2>3. /\ row \in AccountRows /\ row.phone = phone /\ row.role = old.role
        /\ row.email = IF email = None THEN old.email ELSE email
        /\ row.approved = old.approved /\ row.password = old.password
    BY <1>1, <2>1, <2>2 DEF AccountRows
  <2>. QED
    BY <1>3, <2>1, <2>3 DEF row, old, email, phone
<1>. QED
  BY <1>2, <1>3

\* It keeps the invariant wherever it is written, the e-mail being given.
LEMMA CounterRowKeeps ==
    ASSUME AccountsInv, NEW r \in Requests, At(r, "counter"), NEW i \in CounterTargets(r),
           Gives(r)
    PROVE  Keeps(i, CounterRow(r, i)) /\ OwnPhone(CounterRow(r, i))
<1>. DEFINE row == CounterRow(r, i)
<1>1. CounterInv(r)
  BY DEF AccountsInv, RequestInv
<1>2. given \subseteq given'
  BY DEF Gives
<1>3. \A p \in Phones : req[r].email = CounterEmail[p] => CounterEmail[p] \in given'
  BY DEF Gives, MadeUp
<1>4. CASE req[r].email # None
  <2>1. row.email = req[r].email
    BY <1>4, CounterRowFits
  <2>2. Keeps(i, row)
    BY <1>3, <2>1, CounterRowFits DEF Keeps
  <2>. QED
    BY <1>3, <2>1, <2>2 DEF OwnPhone
<1>5. CASE req[r].email = None /\ req[r].id = None
  <2>1. row.email = CounterEmail[req[r].phone] /\ i \notin Existing /\ req[r].phone \in Phones
    BY <1>1, <1>5, CounterRowFits DEF CounterInv
  <2>2. \A p \in Phones : row.email = CounterEmail[p] => p = req[r].phone
    BY <2>1, AccountsAssumption
  <2>. QED
    BY <2>1, <2>2, CounterRowFits DEF Keeps, OwnPhone
<1>6. CASE req[r].email = None /\ req[r].id # None
  <2>1. row.email = account[i].email /\ i = req[r].id /\ row.phone = req[r].phone
    BY <1>6, CounterRowFits
  <2>2. \A p \in Phones : row.email = CounterEmail[p] =>
            p = req[r].phone \/ CounterEmail[p] \in given'
    BY <1>1, <1>2, <1>6, <2>1 DEF CounterInv
  <2>3. Keeps(i, row)
    BY <1>6, <2>1, CounterRowFits DEF Keeps
  <2>. QED
    BY <2>1, <2>2, <2>3 DEF OwnPhone
<1>. QED
  BY <1>4, <1>5, <1>6

LEMMA WriteCounterInv ==
    ASSUME AccountsInv, NEW r \in Requests, WriteCounter(r)
    PROVE  AccountsInv'
<1>1. At(r, "counter") /\ UNCHANGED <<carts, signedIn, overtaken>>
  BY DEF WriteCounter
<1>2. PICK i \in CounterTargets(r) :
        IF Unique(i, CounterRow(r, i))
        THEN WriteThenCart(r, i, CounterRow(r, i), FALSE)
        ELSE Finish(r) /\ UNCHANGED <<account, given>>
  BY DEF WriteCounter
<1>. DEFINE row == CounterRow(r, i)
<1>3. i \in Accounts /\ row \in AccountRows /\ row.role = "CUSTOMER"
  BY <1>1, CounterRowFits
<1>4. SpareSyncs(r, i, row)
  BY <1>3 DEF SpareSyncs, Admitted
<1>5. CASE ~Unique(i, row)
  BY <1>1, <1>2, <1>5, Finished
<1>6. CASE Unique(i, row)
  <2>1. WriteThenCart(r, i, row, FALSE)
    BY <1>2, <1>6
  <2>2. Keeps(i, row) /\ OwnPhone(row)
    BY <1>1, <2>1, CounterRowKeeps DEF WriteThenCart
  <2>. HIDE DEF row
  <2>. QED
    BY <1>1, <1>3, <1>4, <1>6, <2>1, <2>2, WriteThenCartInv
<1>. QED
  BY <1>5, <1>6

-------------------------------------------------------------------------------
(* The theorems *)

LEMMA NextInv ==
    ASSUME AccountsInv, [Next]_vars
    PROVE  AccountsInv'
<1>1. CASE UNCHANGED vars
  BY <1>1 DEF vars, AccountsInv, TypeOK, RowsInv, RequestInv, CounterInv, SessionInv,
     Admissible, Admitted, Unique, Existing, WithEmail, WithPhone, At
<1>2. ASSUME NEW r \in Requests, Abort(r) PROVE AccountsInv'
  BY <1>2, Finished DEF Abort
<1>. QED
  BY <1>1, <1>2, StartSyncInv, StartRegisterInv, SyncUserInv, EnsureCartInv, RegisterAdminInv,
     StartApproveInv, StartLoginInv, ApproveAdminInv, LoginAdminInv, StartCounterInv,
     FindByEmailInv, WriteCounterInv DEF Next

\* The invariant holds in every reachable state.
THEOREM Invariance == Spec => []AccountsInv
<1>1. Init => AccountsInv
  BY InitInv
<1>2. AccountsInv /\ [Next]_vars => AccountsInv'
  BY NextInv
<1>. QED
  BY <1>1, <1>2, PTL DEF Spec

\* Every variable of Accounts keeps its type.
THEOREM TypeCorrect == Spec => []TypeOK
<1>1. AccountsInv => TypeOK
  BY DEF AccountsInv
<1>. QED
  BY <1>1, Invariance, PTL

\* Session users can work: syncGoogleUser and loginAdmin hand out nobody without
\* a cart or a password, and nobody the guard refuses but for a registration in
\* between.
THEOREM SessionSafety == Spec => []SignedInAccountsWork
<1>1. AccountsInv => SignedInAccountsWork
  BY DEF AccountsInv, SessionInv, Admissible, SignedInAccountsWork
<1>. QED
  BY <1>1, Invariance, PTL

\* A unique column refuses a write of registerAdmin or of
\* resolveOrCreateCounterCustomer only if the table changed since the request
\* asked, or somebody brought the e-mail it made up.
THEOREM ConflictSafety == Spec => []ConflictsNeedOverlap
<1>1. ASSUME AccountsInv PROVE ConflictsNeedOverlap
  <2>. SUFFICES ASSUME NEW r \in Requests, ~req[r].stale
                PROVE  /\ At(r, "counter") =>
                            \/ \A i \in CounterTargets(r) : Unique(i, CounterRow(r, i))
                            \/ /\ req[r].id = None /\ req[r].email = None
                               /\ CounterEmail[req[r].phone] \in given
                       /\ At(r, "register") => WithEmail(req[r].email) = {}
    BY DEF ConflictsNeedOverlap
  <2>1. ASSUME At(r, "counter"), NEW i \in CounterTargets(r),
               req[r].id = None /\ req[r].email = None =>
                    CounterEmail[req[r].phone] \notin given
        PROVE  Unique(i, CounterRow(r, i))
    <3>. DEFINE row == CounterRow(r, i)
    <3>1. /\ req[r].phone \in Phones
          /\ WithPhone(req[r].phone) \subseteq {req[r].id}
          /\ req[r].email # None => WithEmail(req[r].email) \subseteq {req[r].id}
      BY <1>1, <2>1 DEF AccountsInv, RequestInv, CounterInv
    <3>2. i = req[r].id \/ req[r].id = None
      BY <2>1 DEF CounterTargets
    <3>3. row.phone = req[r].phone
      BY <1>1, <2>1, CounterRowFits
    <3>4. \A j \in Existing \ {i} : account[j].phone # req[r].phone
      BY <3>1, <3>2, AccountsAssumption DEF WithPhone, Existing
    <3>5. ASSUME NEW j \in Existing \ {i} PROVE account[j].email # row.email
      <4>1. CASE req[r].email # None
        <5>1. row.email = req[r].email
          BY <1>1, <2>1, <4>1, CounterRowFits
        <5>. QED
          BY <3>1, <3>2, <4>1, <5>1, AccountsAssumption DEF WithEmail, Existing
      <4>2. CASE req[r].email = None /\ req[r].id = None
        <5>1. row.email = CounterEmail[req[r].phone]
          BY <1>1, <2>1, <4>2, CounterRowFits
        <5>. QED
          BY <1>1, <2>1, <3>1, <3>4, <4>2, <5>1 DEF AccountsInv, RowsInv
      <4>3. CASE req[r].email = None /\ req[r].id # None
        <5>1. row.email = account[i].email
          BY <1>1, <2>1, <4>3, CounterRowFits
        <5>2. i \in Existing
          BY <1>1, <2>1, <3>2, <4>3 DEF AccountsInv, RequestInv, CounterInv
        <5>. QED
          BY <1>1, <5>1, <5>2 DEF AccountsInv, RowsInv, Unique
      <4>. QED
        BY <4>1, <4>2, <4>3
    <3>. QED
      BY <3>3, <3>4, <3>5 DEF Unique
  <2>2. At(r, "register") => WithEmail(req[r].email) = {}
    BY <1>1 DEF AccountsInv, RequestInv
  <2>. QED
    BY <2>1, <2>2
<1>. QED
  BY <1>1, Invariance, PTL

\* A counter order makes an account another person's, by e-mail and phone, only
\* if the table changed since resolveOrCreateCounterCustomer found the account;
\* no other request does.
THEOREM KeySafety == Spec => AccountsKeepAKey
<1>. DEFINE Excused(i) ==
        (account'[i].email # account[i].email /\ account'[i].phone # account[i].phone) =>
            \E r \in Requests : At(r, "counter") /\ req[r].id = i /\ req[r].stale
<1>1. ASSUME AccountsInv, [Next]_vars, NEW i \in Existing PROVE Excused(i)
  <2>1. account \in [Accounts -> AccountRows \cup {None}] /\ i \in Accounts
        /\ account[i] \in AccountRows
    BY <1>1 DEF AccountsInv, TypeOK, Existing
  <2>2. CASE account' = account
    BY <2>2
  <2>3. ASSUME NEW r \in Requests, SyncUser(r) PROVE Excused(i)
    <3>1. PICK k \in Accounts : \E row :
            /\ account' = [account EXCEPT ![k] = row]
            /\ k \in Existing => row = [account[k] EXCEPT !.provider = "GOOGLE"]
      BY <2>3 DEF SyncUser, WriteThenCart, WithEmail, Existing
    <3>2. CASE i # k
      BY <2>1, <3>1, <3>2
    <3>3. CASE i = k
      <4>1. account'[i] = [account[i] EXCEPT !.provider = "GOOGLE"]
        BY <1>1, <2>1, <3>1, <3>3
      <4>. QED
        BY <2>1, <4>1 DEF AccountRows
    <3>. QED
      BY <3>2, <3>3
  <2>4. ASSUME NEW r \in Requests, RegisterAdmin(r) PROVE Excused(i)
    <3>1. account'[i] = account[i]
      BY <1>1, <2>1, <2>4 DEF RegisterAdmin
    <3>. QED
      BY <3>1
  <2>5. ASSUME NEW r \in Requests, ApproveAdmin(r) PROVE Excused(i)
    <3>1. \/ account'[i] = account[i]
          \/ account'[i] = [account[i] EXCEPT !.approved = TRUE]
      BY <2>1, <2>5 DEF ApproveAdmin
    <3>. QED
      BY <2>1, <3>1 DEF AccountRows
  <2>6. ASSUME NEW r \in Requests, WriteCounter(r) PROVE Excused(i)
    <3>1. At(r, "counter")
      BY <2>6 DEF WriteCounter
    <3>2. PICK k \in CounterTargets(r) :
            account' = [account EXCEPT ![k] = CounterRow(r, k)] \/ UNCHANGED account
      BY <2>6 DEF WriteCounter, WriteThenCart
    <3>3. CASE account'[i] = account[i]
      BY <3>3
    <3>4. CASE account'[i] # account[i]
      <4>1. k = i /\ account'[i] = CounterRow(r, i)
        BY <2>1, <3>2, <3>4
      <4>2. req[r].id = i /\ req[r].id # None
        BY <1>1, <2>1, <3>2, <4>1, AccountsAssumption DEF CounterTargets
      <4>3. /\ account'[i].phone = req[r].phone
            /\ account'[i].email = IF req[r].email = None THEN account[i].email ELSE req[r].email
        BY <1>1, <3>1, <3>2, <4>1, <4>2, CounterRowFits
      <4>4. ~req[r].stale => \/ account[i].phone = req[r].phone
                             \/ account[i].email = req[r].email
        BY <1>1, <3>1, <4>2 DEF AccountsInv, RequestInv, CounterInv
      <4>. QED
        BY <3>1, <4>2, <4>3, <4>4
    <3>. QED
      BY <3>3, <3>4
  <2>. QED
    BY <1>1, <2>2, <2>3, <2>4, <2>5, <2>6
    DEF Next, vars, StartSync, StartRegister, EnsureCart, StartApprove, StartLogin, LoginAdmin,
        StartCounter, FindByEmail, Abort
<1>2. ASSUME AccountsInv, [Next]_vars
      PROVE  [\A i \in Existing :
        (account'[i].email # account[i].email /\ account'[i].phone # account[i].phone) =>
            \E r \in Requests : At(r, "counter") /\ req[r].id = i /\ req[r].stale]_vars
  BY <1>1, <1>2
<1>. QED
  BY <1>2, Invariance, PTL DEF Spec, AccountsKeepAKey
===============================================================================
