------------------------------- MODULE Accounts -------------------------------
(***************************************************************************)
(* User rows and their carts: customers come in through Google, members of *)
(* the staff ask for access and are approved, and the staff enter the      *)
(* customers of counter orders by phone.                                   *)
(*                                                                         *)
(* Each request looks a row up, decides, and writes by id or by e-mail in  *)
(* a later statement; the unique columns email and phone are the database's *)
(* own.  An action is what a request does from one await to the next.      *)
(***************************************************************************)
EXTENDS Naturals

CONSTANTS
    Requests,   \* slots for requests in progress
    Accounts,   \* ids of user rows
    Owner,      \* the super administrator's, which the seed creates
    Emails,     \* as people write them
    OwnerEmail,
    Lowered,    \* an e-mail in lower case
    Phones,     \* of digits only, as normalizePhone leaves them
    CounterEmail,  \* the e-mail made up for a phone, an address like any other
    None        \* no row, e-mail or phone

VARIABLES
    account,    \* the user rows
    carts,      \* the accounts that have a cart
    signedIn,   \* history: the accounts handed out as session users
    req,        \* the requests in progress
    given,      \* history: made-up e-mails somebody brought as their own
    overtaken   \* history: registered while Google signed their e-mail in

vars == <<account, carts, signedIn, req, given, overtaken>>

\* createCounterCustomerEmail.  Nothing keeps people from giving such an e-mail.
MadeUp == {CounterEmail[phone] : phone \in Phones}

AccountRows ==
    [email : Emails, phone : Phones \cup {None},
     role : {"CUSTOMER", "ADMIN", "SUPER_ADMIN"}, provider : {"GOOGLE", "CREDENTIALS"},
     approved : BOOLEAN, password : BOOLEAN]

\* The statement a request will execute next.
Statements == {"idle", "sync", "register", "approve", "login", "byEmail", "counter", "cart"}

\* stale: e-mails or phones changed since the request began.
RequestStates ==
    [pc : Statements, email : Emails \cup {None}, phone : Phones \cup {None},
     id : Accounts \cup {None}, stale : BOOLEAN, signsIn : BOOLEAN]

Request(pc, email, phone, id, signsIn) ==
    [pc |-> pc, email |-> email, phone |-> phone, id |-> id,
     stale |-> FALSE, signsIn |-> signsIn]

Idle == Request("idle", None, None, None, FALSE)

ASSUME AccountsAssumption ==
    /\ Owner \in Accounts
    /\ OwnerEmail \in Emails
    /\ Lowered \in [Emails -> Emails]
    /\ CounterEmail \in [Phones -> Emails]
    /\ \A p, q \in Phones : CounterEmail[p] = CounterEmail[q] => p = q
    /\ None \notin Emails \cup Phones \cup Accounts \cup AccountRows

Init ==
    /\ account = [i \in Accounts |-> IF i = Owner
            THEN [email |-> OwnerEmail, phone |-> None, role |-> "SUPER_ADMIN",
                  provider |-> "CREDENTIALS", approved |-> TRUE, password |-> TRUE]
            ELSE None]
    /\ carts = {Owner}
    /\ signedIn = {}
    /\ req = [r \in Requests |-> Idle]
    /\ given = {OwnerEmail} \cap MadeUp
    /\ overtaken = {}

-------------------------------------------------------------------------------

At(r, pc) == req[r].pc = pc

Existing == {i \in Accounts : account[i] # None}

\* findUnique by a unique column: the ids it finds, at most one.
WithEmail(email) == {i \in Existing : account[i].email = email}
WithPhone(phone) == {i \in Existing : account[i].phone = phone}

\* The id a query found, or None.
Found(ids) == IF ids = {} THEN None ELSE CHOOSE i \in ids : TRUE

\* A row the unique columns of the others allow for i.
Unique(i, row) ==
    \A j \in Existing \ {i} :
        /\ account[j].email # row.email
        /\ row.phone # None => account[j].phone # row.phone

Start(r, pc, email, phone, id) ==
    /\ At(r, "idle")
    /\ req' = [req EXCEPT ![r] = Request(pc, email, phone, id, FALSE)]

Finish(r) == req' = [req EXCEPT ![r] = Idle]

\* The requests as a write of row i leaves them: if its e-mail or its phone is
\* another now, what the others have read may be old.
Aged(i, row) ==
    LET same == /\ account[i] # None
                /\ account[i].email = row.email /\ account[i].phone = row.phone IN
    [r \in Requests |->
        IF same \/ At(r, "idle") THEN req[r] ELSE [req[r] EXCEPT !.stale = TRUE]]

\* The e-mail r came with, if it came with one, is in the table now.
Gives(r) == given' = given \cup ({req[r].email} \cap MadeUp)

\* Row i becomes row, and r goes on to make sure that it has a cart.
WriteThenCart(r, i, row, signsIn) ==
    /\ account' = [account EXCEPT ![i] = row]
    /\ Gives(r)
    /\ req' = [Aged(i, row) EXCEPT ![r] = Request("cart", None, None, i, signsIn)]

\* The row of a new account.
NewRow(email, phone, role, provider) ==
    [email |-> email, phone |-> phone, role |-> role, provider |-> provider,
     approved |-> role = "CUSTOMER", password |-> role # "CUSTOMER"]

\* What loginAdmin, findSessionUser and the guard ask of an account.
Admitted(row) == row.role = "ADMIN" => row.approved

-------------------------------------------------------------------------------
(* Signing in with Google *)

\* syncGoogleUser: the account that exists for the e-mail is a customer's.
StartSync(r, email) ==
    /\ \A i \in WithEmail(email) : account[i].role = "CUSTOMER"
    /\ Start(r, "sync", email, None, None)
    /\ UNCHANGED <<account, carts, signedIn, given, overtaken>>

\* user.upsert, of whoever has the e-mail by now.
SyncUser(r) ==
    LET email == req[r].email
        found == WithEmail(email) IN
    /\ At(r, "sync")
    /\ \/ \E i \in found :
            WriteThenCart(r, i, [account[i] EXCEPT !.provider = "GOOGLE"], TRUE)
       \/ \E i \in Accounts \ Existing :
            /\ found = {}
            /\ WriteThenCart(r, i, NewRow(email, None, "CUSTOMER", "GOOGLE"), TRUE)
    /\ UNCHANGED <<carts, signedIn, overtaken>>

\* Variant: signs the user in and leaves the cart to others.
NoCart(r) ==
    /\ At(r, "cart")
    /\ signedIn' = IF req[r].signsIn THEN signedIn \cup {req[r].id} ELSE signedIn
    /\ Finish(r)
    /\ UNCHANGED <<account, carts, given, overtaken>>

\* cart.upsert, after which syncGoogleUser returns the user.
EnsureCart(r) ==
    /\ At(r, "cart")
    /\ carts' = carts \cup {req[r].id}
    /\ signedIn' = IF req[r].signsIn THEN signedIn \cup {req[r].id} ELSE signedIn
    /\ Finish(r)
    /\ UNCHANGED <<account, given, overtaken>>

-------------------------------------------------------------------------------
(* Administrators *)

\* registerAdmin: there is no account for the e-mail, in lower case.
StartRegister(r, email) ==
    /\ WithEmail(Lowered[email]) = {}
    /\ Start(r, "register", Lowered[email], None, None)
    /\ UNCHANGED <<account, carts, signedIn, given, overtaken>>

\* user.create, which fails if somebody took the e-mail.
RegisterAdmin(r) ==
    LET row == NewRow(req[r].email, None, "ADMIN", "CREDENTIALS") IN
    /\ At(r, "register")
    /\ \E i \in Accounts \ Existing :
        IF Unique(i, row)
        THEN /\ account' = [account EXCEPT ![i] = row]
             /\ Gives(r)
             /\ req' = [Aged(i, row) EXCEPT ![r] = Idle]
             /\ overtaken' = IF \E s \in Requests : At(s, "sync") /\ req[s].email = row.email
                             THEN overtaken \cup {i} ELSE overtaken
        ELSE /\ Finish(r)
             /\ UNCHANGED <<account, given, overtaken>>
    /\ UNCHANGED <<carts, signedIn>>

\* approveAdminRequest: the request is there and pending.
StartApprove(r, i) ==
    /\ i \in Existing /\ account[i].role = "ADMIN" /\ ~account[i].approved
    /\ Start(r, "approve", None, None, i)
    /\ UNCHANGED <<account, carts, signedIn, given, overtaken>>

ApproveAdmin(r) ==
    LET i == req[r].id IN
    /\ At(r, "approve")
    /\ account' = [account EXCEPT ![i].approved = TRUE]
    /\ Finish(r)
    /\ UNCHANGED <<carts, signedIn, given, overtaken>>

\* loginAdmin, with the right password.
StartLogin(r, i) ==
    /\ i \in Existing /\ account[i].role # "CUSTOMER" /\ account[i].password
    /\ Admitted(account[i])
    /\ Start(r, "login", None, None, i)
    /\ UNCHANGED <<account, carts, signedIn, given, overtaken>>

\* The update of lastActivity, after which loginAdmin returns the user.
LoginAdmin(r) ==
    /\ At(r, "login")
    /\ signedIn' = signedIn \cup {req[r].id}
    /\ Finish(r)
    /\ UNCHANGED <<account, carts, given, overtaken>>

-------------------------------------------------------------------------------
(* Customers of counter orders *)

\* Variant: an account is found whatever its phone is.
StartCounterAnyPhone(r, phone, email) ==
    /\ \E i \in Existing : Start(r, "byEmail", email, phone, i)
    /\ UNCHANGED <<account, carts, signedIn, given, overtaken>>

\* resolveOrCreateCounterCustomer looks for the phone ...
StartCounter(r, phone, email) ==
    /\ Start(r, "byEmail", email, phone, Found(WithPhone(phone)))
    /\ UNCHANGED <<account, carts, signedIn, given, overtaken>>

\* Variant: the account of the phone is taken, whoever has the e-mail.
FindByEmailUnchecked(r) ==
    LET byEmail == Found(WithEmail(req[r].email))
        found == IF req[r].id # None THEN req[r].id ELSE byEmail
    IN
    /\ At(r, "byEmail")
    /\ IF found # None /\ account[found].role # "CUSTOMER"
       THEN Finish(r)
       ELSE req' = [req EXCEPT ![r] = [@ EXCEPT !.pc = "counter", !.id = found]]
    /\ UNCHANGED <<account, carts, signedIn, given, overtaken>>

\* ... and for the e-mail, and refuses two accounts or one of the staff.  (The
\* role of the account of the phone was read before; roles do not change.)
FindByEmail(r) ==
    LET byPhone == req[r].id
        byEmail == Found(WithEmail(req[r].email))
        found == IF byPhone # None THEN byPhone ELSE byEmail
    IN
    /\ At(r, "byEmail")
    /\ IF \/ byPhone # None /\ byEmail # None /\ byPhone # byEmail
          \/ found # None /\ account[found].role # "CUSTOMER"
       THEN Finish(r)
       ELSE req' = [req EXCEPT ![r] = [@ EXCEPT !.pc = "counter", !.id = found]]
    /\ UNCHANGED <<account, carts, signedIn, given, overtaken>>

\* The row a counter request writes to account i: user.update of the account it
\* found, user.create if it found none.
CounterRow(r, i) ==
    LET email == req[r].email
        phone == req[r].phone
    IN
    IF req[r].id = None
    THEN NewRow(IF email = None THEN CounterEmail[phone] ELSE email, phone,
                "CUSTOMER", "CREDENTIALS")
    ELSE [account[i] EXCEPT !.email = IF email = None THEN @ ELSE email, !.phone = phone]

\* The accounts a counter request may write: a new one if it found none.
CounterTargets(r) == IF req[r].id = None THEN Accounts \ Existing ELSE {req[r].id}

\* A unique column refuses the write, which fails the request.
WriteCounter(r) ==
    /\ At(r, "counter")
    /\ \E i \in CounterTargets(r) :
        IF Unique(i, CounterRow(r, i))
        THEN WriteThenCart(r, i, CounterRow(r, i), FALSE)
        ELSE Finish(r) /\ UNCHANGED <<account, given>>
    /\ UNCHANGED <<carts, signedIn, overtaken>>

-------------------------------------------------------------------------------

\* A request ends at an await: a query failed, or the process died.
Abort(r) ==
    /\ ~At(r, "idle")
    /\ Finish(r)
    /\ UNCHANGED <<account, carts, signedIn, given, overtaken>>

Next ==
    \E r \in Requests :
        \/ \E email \in Emails :
            \/ StartSync(r, email)
            \/ StartRegister(r, email)
        \/ SyncUser(r)
        \/ EnsureCart(r)
        \/ RegisterAdmin(r)
        \/ \E i \in Accounts : StartApprove(r, i) \/ StartLogin(r, i)
        \/ ApproveAdmin(r)
        \/ LoginAdmin(r)
        \/ \E phone \in Phones, email \in Emails \cup {None} :
            /\ email # None => Lowered[email] = email
            /\ StartCounter(r, phone, email)
        \/ FindByEmail(r)
        \/ WriteCounter(r)
        \/ Abort(r)

Spec == Init /\ [][Next]_vars

-------------------------------------------------------------------------------
(* Properties *)

TypeOK ==
    /\ account \in [Accounts -> AccountRows \cup {None}]
    /\ carts \subseteq Accounts
    /\ signedIn \subseteq Accounts
    /\ req \in [Requests -> RequestStates]
    /\ given \subseteq MadeUp
    /\ overtaken \subseteq Accounts

\* A write is refused by a unique column only if another request changed the
\* rows meanwhile, for the questions asked before it are enough: all but one.  A
\* new customer's e-mail that is made up for the phone is not asked for, and
\* somebody may have brought it as their own.
ConflictsNeedOverlap ==
    \A r \in Requests : ~req[r].stale =>
        /\ At(r, "counter") =>
            \/ \A i \in CounterTargets(r) : Unique(i, CounterRow(r, i))
            \/ /\ req[r].id = None /\ req[r].email = None
               /\ CounterEmail[req[r].phone] \in given
        /\ At(r, "register") => WithEmail(req[r].email) = {}

\* An account that was handed out as a session user has a cart or a password,
\* and is one the guards let in, unless its owner asked for administrator's
\* access while Google signed them in: the session is then refused until the
\* approval.
SignedInAccountsWork ==
    \A i \in signedIn :
        /\ i \in carts \/ account[i].password
        /\ Admitted(account[i]) \/ i \in overtaken

\* A counter order changes the phone or the e-mail of an account but never both,
\* which would make it another person's, unless the account changed while the
\* order was entered.
AccountsKeepAKey ==
    [][\A i \in Existing :
        (account'[i].email # account[i].email /\ account'[i].phone # account[i].phone) =>
            \E r \in Requests : At(r, "counter") /\ req[r].id = i /\ req[r].stale
      ]_vars
===============================================================================
