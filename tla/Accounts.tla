------------------------------ MODULE Accounts ------------------------------
(***************************************************************************)
(* The accounts of FlashSeat: POST /auth/register and the seeding script,  *)
(* which both look for the address first and insert afterwards, login, and *)
(* how a token is turned back into an account by get_current_user and      *)
(* is_admin.  A token names an address, not an account.  Passwords are     *)
(* taken to be right: a wrong one changes nothing.  Tokens do not expire   *)
(* here: that only refuses requests, and what holds with all tokens holds  *)
(* with fewer.  No code deactivates an account, so is_active is left out.  *)
(***************************************************************************)

CONSTANTS Emails,         \* addresses
          AdminEmail,     \* the address the seeding script uses
          Registrations   \* calls of register and runs of the script; each makes
                          \* at most one account and gives it its identity

ASSUME EmailsAssumption == AdminEmail \in Emails

VARIABLES accounts,     \* the rows of users
          registering,  \* each call of register and run of the script
          tokens        \* the tokens that were handed out

accountVars == <<accounts, registering, tokens>>

Account == [id : Registrations, email : Emails, admin : BOOLEAN]

\* sub is what the token carries; account is who logged in, which it does not carry.
Token == [sub : Emails, account : Registrations]

Unasked == [pc |-> "idle", email |-> AdminEmail, admin |-> FALSE]
Answered == [Unasked EXCEPT !.pc = "done"]

AccountsInit == /\ accounts = {}
                /\ registering = [r \in Registrations |-> Unasked]
                /\ tokens = {}

-----------------------------------------------------------------------------
\* SELECT ... WHERE email.
AccountsOf(e) == {a \in accounts : a.email = e}

\* The address is looked up and free: User(...) is made of the request.
LookUp(r, e, admin) ==
    /\ registering[r].pc = "idle"
    /\ AccountsOf(e) = {}
    /\ registering' = [registering EXCEPT
                         ![r] = [pc |-> "insert", email |-> e, admin |-> admin]]
    /\ UNCHANGED <<accounts, tokens>>

\* A known address is a 400, or makes the script skip: nothing has happened.
RegistrationRefused(e) == AccountsOf(e) # {} /\ UNCHANGED accountVars

Register(r, e) == LookUp(r, e, FALSE)

Seed(r) == LookUp(r, AdminEmail, TRUE)

\* Mutant: the column is not unique.
AnyEmail(r) == TRUE

\* users.email is UNIQUE.
EmailIsFree(r) == AccountsOf(registering[r].email) = {}

\* INSERT and COMMIT; the unique constraint makes the second of two calls that saw the
\* address free fail, an IntegrityError nobody handles.
Insert(r) ==
    /\ registering[r].pc = "insert"
    /\ accounts' = IF EmailIsFree(r)
                   THEN accounts \cup {[id |-> r, email |-> registering[r].email,
                                        admin |-> registering[r].admin]}
                   ELSE accounts
    /\ registering' = [registering EXCEPT ![r] = Answered]
    /\ UNCHANGED tokens

\* A token for the address of the account; scalar_one_or_none accepts one row at most.
Login(a) ==
    /\ a \in accounts
    /\ AccountsOf(a.email) = {a}
    /\ tokens' = tokens \cup {[sub |-> a.email, account |-> a.id]}
    /\ UNCHANGED <<accounts, registering>>

\* get_current_user: the account that has the token's address.
CurrentUser(t, a) == AccountsOf(t.sub) = {a}

\* is_admin: the account a token speaks for may use the admin endpoints.
IsAdmin(t, a) == CurrentUser(t, a) /\ a.admin

AccountsNext ==
    \/ \E r \in Registrations : Seed(r) \/ Insert(r) \/ \E e \in Emails : Register(r, e)
    \/ \E e \in Emails : RegistrationRefused(e)
    \/ \E a \in accounts : Login(a)

-----------------------------------------------------------------------------
RegisteringRecord == [pc : {"idle", "insert", "done"}, email : Emails, admin : BOOLEAN]

AccountsTypeOK ==
    /\ accounts \in SUBSET Account
    /\ registering \in [Registrations -> RegisteringRecord]
    /\ tokens \in SUBSET Token

\* A token speaks for the account that logged in, for as long as it lives, and for no
\* other: although it carries an address only, and although registrations of the same
\* address race each other and the seeding script, no second account ever answers to it.
TokensNameOneAccount ==
    \A t \in tokens : \E a \in accounts : a.id = t.account /\ AccountsOf(t.sub) = {a}

\* What it rests on: one account per address, and an account is made by its own call.
AccountsAreDistinct ==
    /\ \A a, b \in accounts : a.email = b.email => a = b
    /\ \A a \in accounts : registering[a.id].pc = "done"
=============================================================================
