------------------------------ MODULE Accounts ------------------------------
(* Tenants and users: registrations, bootstrap requests and seed scripts      *)
(* running side by side, one SQL statement at a time.  Each looks before it   *)
(* inserts; a tenant's slug and a user's email are unique columns.  Bootstrap *)
(* commits its tenant and its admin together, the seed script one by one.     *)
EXTENDS Naturals

CONSTANTS
    AccountRequests,  \* the user request r makes is r
    Flow,             \* each is a "register", a "bootstrap" or a "seed"
    TenantOf, EmailOf \* the slug of its tenant and the email of its user

ASSUME AccountsAssumption ==
    /\ AccountRequests \subseteq Nat \ {0}
    /\ Flow \in [AccountRequests -> {"register", "bootstrap", "seed"}]
    /\ DOMAIN TenantOf = AccountRequests
    /\ DOMAIN EmailOf = AccountRequests

VARIABLES
    tenant,        \* the request that made each tenant, 0 if it is not there
    opened,        \* the request whose open transaction has inserted it
    user,          \* the user that has each email, 0 if none
    making,        \* where each request is
    accountAnswer  \* the user it ended with, 0 while none

accountsVars == <<tenant, opened, user, making, accountAnswer>>

Tenants == {TenantOf[r] : r \in AccountRequests}
Emails == {EmailOf[r] : r \in AccountRequests}

AccountsInit ==
    /\ tenant = [t \in Tenants |-> 0]
    /\ opened = [t \in Tenants |-> 0]
    /\ user = [e \in Emails |-> 0]
    /\ making = [r \in AccountRequests |-> "tenant"]
    /\ accountAnswer = [r \in AccountRequests |-> 0]

\* The request ends with a user, or with an error (0); what it has not
\* committed is rolled back.
Finish(r, u) ==
    /\ making' = [making EXCEPT ![r] = "done"]
    /\ accountAnswer' = [accountAnswer EXCEPT ![r] = u]
    /\ opened' = [t \in Tenants |-> IF opened[t] = r THEN 0 ELSE opened[t]]

Step(r, to) == making' = [making EXCEPT ![r] = to] /\ UNCHANGED accountAnswer

\* A registration without its tenant is answered 404; the others make it.
FindTenant(r) ==
    /\ making[r] = "tenant"
    /\ IF tenant[TenantOf[r]] # 0
       THEN Step(r, "look") /\ UNCHANGED opened
       ELSE IF Flow[r] = "register"
            THEN Finish(r, 0)
            ELSE Step(r, "new_tenant") /\ UNCHANGED opened
    /\ UNCHANGED <<tenant, user>>

\* Mutant of CommitsTenant: bootstrap commits its tenant first, too.
CommitsTenantAlways(r) == TRUE
CommitsTenant(r) == Flow[r] = "seed"

\* The INSERT waits for an open transaction that has inserted the same slug,
\* and fails once it is committed.
InsertTenant(r) ==
    LET t == TenantOf[r] IN
    /\ making[r] = "new_tenant"
    /\ opened[t] = 0
    /\ IF tenant[t] # 0
       THEN Finish(r, 0) /\ UNCHANGED tenant
       ELSE /\ Step(r, "look")
            /\ IF CommitsTenant(r)
               THEN tenant' = [tenant EXCEPT ![t] = r] /\ UNCHANGED opened
               ELSE opened' = [opened EXCEPT ![t] = r] /\ UNCHANGED tenant
    /\ UNCHANGED user

\* Mutant of Finds: the admin is looked up in all tenants.
FindsAnywhere(r) == user[EmailOf[r]] # 0

\* A registration looks in all tenants, the others in their own.
Finds(r) ==
    LET u == user[EmailOf[r]] IN
    u # 0 /\ (Flow[r] = "register" \/ TenantOf[u] = TenantOf[r])

\* An email that is registered is a conflict; an admin that is there is kept.
FindUser(r) ==
    /\ making[r] = "look"
    /\ IF Finds(r)
       THEN Finish(r, IF Flow[r] = "register" THEN 0 ELSE user[EmailOf[r]])
       ELSE Step(r, "insert") /\ UNCHANGED opened
    /\ UNCHANGED <<tenant, user>>

\* Mutant of EmailIsFree: the column is not unique.
EmailIsFreeAlways(r) == TRUE

\* The unique column, over all tenants.
EmailIsFree(r) == user[EmailOf[r]] = 0

\* The INSERT and the commit, also of the tenant; the answer may be lost.
InsertUser(r) ==
    /\ making[r] = "insert"
    /\ IF EmailIsFree(r)
       THEN /\ user' = [user EXCEPT ![EmailOf[r]] = r]
            /\ tenant' = [t \in Tenants |-> IF opened[t] = r THEN r ELSE tenant[t]]
            /\ \E answered \in {r, 0} : Finish(r, answered)
       ELSE Finish(r, 0) /\ UNCHANGED <<tenant, user>>

\* The process or its connection fails: rollback.
AbandonAccount(r) ==
    /\ making[r] # "done"
    /\ Finish(r, 0)
    /\ UNCHANGED <<tenant, user>>

Register(r) ==
    Flow[r] = "register" /\ (FindTenant(r) \/ FindUser(r) \/ InsertUser(r))
Bootstrap(r) ==
    /\ Flow[r] = "bootstrap"
    /\ FindTenant(r) \/ InsertTenant(r) \/ FindUser(r) \/ InsertUser(r)
Seed(r) ==
    /\ Flow[r] = "seed"
    /\ FindTenant(r) \/ InsertTenant(r) \/ FindUser(r) \/ InsertUser(r)

AccountsNext == \E r \in AccountRequests :
    Register(r) \/ Bootstrap(r) \/ Seed(r) \/ AbandonAccount(r)

AccountsSpec == AccountsInit /\ [][AccountsNext]_accountsVars

-----------------------------------------------------------------------------
(* Properties *)

\* Every variable has its type.
AccountsTypeOK ==
    /\ tenant \in [Tenants -> AccountRequests \union {0}]
    /\ opened \in [Tenants -> AccountRequests \union {0}]
    /\ user \in [Emails -> AccountRequests \union {0}]
    /\ making \in [AccountRequests -> {"tenant", "new_tenant", "look", "insert", "done"}]
    /\ accountAnswer \in [AccountRequests -> AccountRequests \union {0}]

\* A tenant that bootstrap made has its admin from its first moment on, although
\* the two are inserted one after the other and the admin's email may be taken
\* in between.  (A tenant that the seed script made may stay without.)
BootstrapIsAtomic ==
    \A t \in Tenants : tenant[t] # 0 /\ Flow[tenant[t]] = "bootstrap" =>
        user[EmailOf[tenant[t]]] = tenant[t]

\* A request that is answered with a user is answered with one of its tenant,
\* and that tenant is there.
AnswersAreAccounts ==
    \A r \in AccountRequests : accountAnswer[r] # 0 =>
        /\ TenantOf[accountAnswer[r]] = TenantOf[r]
        /\ tenant[TenantOf[r]] # 0

\* Requests with one email make one user, and every answer names it.
KeyedAccounts == INSTANCE KeyedCreate WITH
    Requests <- AccountRequests, KeyOf <- EmailOf,
    holder <- user, answer <- accountAnswer
AccountsImplementKeyedCreate == KeyedAccounts!Spec

=============================================================================
