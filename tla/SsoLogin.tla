------------------------------ MODULE SsoLogin ------------------------------
(***************************************************************************)
(* Single sign-on: /auth/login, /auth/callback, /auth/logout and the       *)
(* sessions they leave (internal/server/oidc_handlers.go,                  *)
(* internal/tenancy/identity_sqlite.go, identity_postgres.go, sessions.go).*)
(* A step of a callback is one SQL statement; callbacks of several         *)
(* browsers, requests and the deletion of a tenant come in between.        *)
(* Flows and session tokens are numbered as they are generated.            *)
(***************************************************************************)
EXTENDS Integers, FiniteSets

CONSTANTS Browsers, Emails,
          DomainMap,      \* email -> the tenant its domain is mapped to, a partial function
          MaxFlows,       \* bound on logins started
          MaxTokens,      \* bound on session tokens
          NoMail

VARIABLES tenantLive,     \* the tenants that exist
          users,          \* the users table: [email, tenant]
          sessions,       \* the sessions table: [token, email, tenant, expired]
          flows, tokens,  \* numbers generated so far
          jar,            \* browser -> its state cookie and its session cookie
          cb,             \* browser -> the callback request it waits for
          ended           \* tokens whose session expired or went with its tenant
ssoVars == <<tenantLive, users, sessions, flows, tokens, jar, cb, ended>>

MappedTenants == {DomainMap[e] : e \in DOMAIN DomainMap}
NoCallback == [pc |-> "none", email |-> NoMail]
SsoInit ==
    /\ tenantLive = MappedTenants
    /\ users = {} /\ sessions = {} /\ flows = 0 /\ tokens = 0
    /\ jar = [b \in Browsers |-> [state |-> 0, session |-> 0]]
    /\ cb = [b \in Browsers |-> NoCallback] /\ ended = {}

\* Login: a fresh state (and verifier) goes into the flow cookies
Login(b) ==
    /\ cb[b].pc = "none"
    /\ flows < MaxFlows
    /\ flows' = flows + 1
    /\ jar' = [jar EXCEPT ![b].state = flows + 1]
    /\ UNCHANGED <<tenantLive, users, sessions, tokens, cb, ended>>

\* What the identity provider makes of the code: no answer, or a verified email
Exchange == {NoMail} \cup Emails
\* Callback up to the lookup of the user.  The flow cookies are cleared whatever
\* happens; a missing or different state, a failed exchange and an unmapped
\* domain end the request.
Callback(b, state) ==
    /\ cb[b].pc = "none"
    /\ jar' = [jar EXCEPT ![b].state = 0]
    /\ IF jar[b].state # 0 /\ state = jar[b].state
       THEN \E email \in Exchange :
              cb' = [cb EXCEPT ![b] = IF email \in DOMAIN DomainMap
                                      THEN [pc |-> "lookup", email |-> email]
                                      ELSE NoCallback]
       ELSE cb' = cb
    /\ UNCHANGED <<tenantLive, users, sessions, flows, tokens, ended>>

UserOf(email) == {u \in users : u.email = email}
\* GetUserByEmail
GetUserByEmail(b) ==
    /\ cb[b].pc = "lookup"
    /\ cb' = [cb EXCEPT ![b].pc = IF UserOf(cb[b].email) = {} THEN "provision" ELSE "session"]
    /\ UNCHANGED <<tenantLive, users, sessions, flows, tokens, jar, ended>>
Provisionable(email) == DomainMap[email] \in tenantLive /\ UserOf(email) = {}
\* CreateUser: the email is unique and the tenant must exist; a conflict with a
\* login that came first is an error like any other, and the login fails (500)
CreateUser(b) ==
    /\ cb[b].pc = "provision"
    /\ LET email == cb[b].email
           ok == Provisionable(email)
       IN /\ users' = IF ok THEN users \cup {[email |-> email, tenant |-> DomainMap[email]]}
                     ELSE users
          /\ cb' = [cb EXCEPT ![b] = IF ok THEN [@ EXCEPT !.pc = "session"] ELSE NoCallback]
    /\ UNCHANGED <<tenantLive, sessions, flows, tokens, jar, ended>>
\* CreateSession, refused by the foreign key when the user is gone; then the cookie
CreateSessionUnchecked(b) ==   \* mutant: no foreign key on the user
    /\ cb[b].pc = "session"
    /\ tokens < MaxTokens
    /\ tokens' = tokens + 1
    /\ sessions' = sessions \cup {[token |-> tokens + 1, email |-> cb[b].email,
                                  tenant |-> DomainMap[cb[b].email], expired |-> FALSE]}
    /\ jar' = [jar EXCEPT ![b].session = tokens + 1]
    /\ cb' = [cb EXCEPT ![b] = NoCallback]
    /\ UNCHANGED <<tenantLive, users, flows, ended>>
CreateSession(b) ==
    /\ cb[b].pc = "session"
    /\ tokens < MaxTokens
    /\ LET email == cb[b].email
           ok == UserOf(email) # {}
       IN IF ok
          THEN /\ tokens' = tokens + 1
               /\ sessions' = sessions \cup
                    {[token |-> tokens + 1, email |-> email,
                      tenant |-> DomainMap[email], expired |-> FALSE]}
               /\ jar' = [jar EXCEPT ![b].session = tokens + 1]
          ELSE UNCHANGED <<tokens, sessions, jar>>
    /\ cb' = [cb EXCEPT ![b] = NoCallback]
    /\ UNCHANGED <<tenantLive, users, flows, ended>>

\* DeleteSession, by the token of the browser's cookie; the cookie is cleared
Logout(b) ==
    /\ jar[b].session # 0
    /\ sessions' = {s \in sessions : s.token # jar[b].session}
    /\ jar' = [jar EXCEPT ![b].session = 0]
    /\ UNCHANGED <<tenantLive, users, flows, tokens, cb, ended>>

\* SessionTTL has passed
Expire ==
    /\ \E s \in sessions :
         /\ ~s.expired
         /\ sessions' = (sessions \ {s}) \cup {[s EXCEPT !.expired = TRUE]}
         /\ ended' = ended \cup {s.token}
    /\ UNCHANGED <<tenantLive, users, flows, tokens, jar, cb>>
\* The answer of ResolveSession to a token
Resolves(token) == \E s \in sessions : s.token = token /\ ~s.expired
\* ResolveSession of an expired token: the row goes
ResolveExpired(token) ==
    /\ \E s \in sessions : s.token = token /\ s.expired
    /\ sessions' = {s \in sessions : s.token # token}
    /\ UNCHANGED <<tenantLive, users, flows, tokens, jar, cb, ended>>

\* DeleteTenant cascades to the tenant's users and, through them, to sessions
CascadeTenant(t) ==
    /\ t \in tenantLive
    /\ tenantLive' = tenantLive \ {t}
    /\ users' = {u \in users : u.tenant # t}
    /\ sessions' = {s \in sessions : s.tenant # t}
    /\ ended' = ended \cup {s.token : s \in sessions \ sessions'}
    /\ UNCHANGED <<flows, tokens, jar, cb>>

SsoNext ==
    \/ \E b \in Browsers : Login(b) \/ GetUserByEmail(b) \/ CreateUser(b)
                             \/ CreateSession(b) \/ Logout(b)
    \/ \E b \in Browsers, state \in 0..MaxFlows : Callback(b, state)
    \/ Expire
    \/ \E token \in 1..MaxTokens : ResolveExpired(token)
    \/ \E t \in MappedTenants : CascadeTenant(t)
SsoSpec == SsoInit /\ [][SsoNext]_ssoVars

\* What has been provisioned stays consistent whatever logins race: an email has
\* one user, a session belongs to a user of a tenant that exists, and the cookie
\* a login left in a browser resolves until its session expires or its tenant is
\* deleted, whoever else logs in or out with the same email.
SessionsSound ==
    /\ \A u, v \in users : u.email = v.email => u = v
    /\ \A s \in sessions : \E u \in users : /\ u.email = s.email /\ u.tenant = s.tenant
                                            /\ u.tenant \in tenantLive
    /\ \A b \in Browsers : LET token == jar[b].session IN
         token # 0 => /\ \A c \in Browsers \ {b} : jar[c].session # token
                      /\ Resolves(token) \/ token \in ended
=============================================================================
