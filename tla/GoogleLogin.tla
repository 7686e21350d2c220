----------------------------- MODULE GoogleLogin -----------------------------
(***************************************************************************)
(* The dashboard login with Google: GoogleOAuthService sends a browser to  *)
(* Google and answers the callback, UserIdentityService finds or makes the *)
(* user and the identity of the Google account.  Nothing runs in a         *)
(* transaction, so the callbacks of two tabs, or of two browsers of one    *)
(* account, interleave between their statements; e-mail addresses of the   *)
(* company may pass from one Google account to another.  Sessions once     *)
(* created are in ConnectorAuth.                                           *)
(***************************************************************************)
EXTENDS Naturals, FiniteSets

CONSTANTS Browsers,
          Logins,        \* a state and a nonce, drawn for one login
          Subjects,      \* Google accounts
          Emails,        \* addresses in an allowed domain
          Callbacks,     \* callback requests in flight
          MaxCodes,      \* bound: codes Google gives out
          AutoProvision, \* auto_provision_users
          NoLogin, NoUser

VARIABLES cookie,        \* the state and nonce cookies of each browser
          begun,         \* history: the browser each login was begun in
          codes,         \* authorization codes of Google
          spent,         \* those redeemed
          users,         \* engram_users, by e-mail: "none", "active", "inactive"
          identities,    \* engram_user_identities: subject -> user
          webSessions,   \* sessions the logins created
          callback

google == <<codes, spent>>
tables == <<users, identities, webSessions>>
vars == <<cookie, begun, google, tables, callback>>

Idle == [pc |-> "idle"]

Init ==
  /\ cookie = [b \in Browsers |-> NoLogin]
  /\ begun = [l \in Logins |-> NoLogin]
  /\ codes = {}
  /\ spent = {}
  /\ users \in [Emails -> {"none", "active"}]   \* some are provisioned before
  /\ identities = [s \in Subjects |-> NoUser]
  /\ webSessions = {}
  /\ callback = [c \in Callbacks |-> Idle]

-----------------------------------------------------------------------------
(* The browser and Google.                                                 *)

\* build_login_redirect: a new login takes the place of an older one.
BuildLoginRedirect(b) ==
  \E l \in Logins :
    /\ begun[l] = NoLogin
    /\ begun' = [begun EXCEPT ![l] = b]
    /\ cookie' = [cookie EXCEPT ![b] = l]
    /\ UNCHANGED <<google, tables, callback>>

\* An account consents to a login, once or again, and Google gives a code
\* for the login's nonce; the account has some verified address then.
Consent(l) ==
  /\ begun[l] # NoLogin
  /\ Cardinality(codes) < MaxCodes
  /\ \E s \in Subjects, e \in Emails :
       codes' = codes \cup {[login |-> l, subject |-> s, email |-> e]}
  /\ UNCHANGED <<cookie, begun, spent, tables, callback>>

\* _read_signed_cookie does not take a cookie past its time.
ExpireCookie(b) ==
  /\ cookie[b] # NoLogin
  /\ cookie' = [cookie EXCEPT ![b] = NoLogin]
  /\ UNCHANGED <<begun, google, tables, callback>>

\* An operator switches a user off.
SwitchOff(e) ==
  /\ users[e] = "active"
  /\ users' = [users EXCEPT ![e] = "inactive"]
  /\ UNCHANGED <<cookie, begun, google, identities, webSessions, callback>>

-----------------------------------------------------------------------------
(* handle_callback.                                                        *)

Go(c, pc) == callback' = [callback EXCEPT ![c].pc = pc]
GoAs(c, pc, user) ==
  callback' = [callback EXCEPT ![c].pc = pc, ![c].user = user]

\* A callback URL is opened in a browser: its code and its state need not be
\* of one login.  The state is compared with the cookie's, and the nonce
\* cookie kept for the token.
HandleCallback(c) ==
  /\ callback[c].pc = "idle"
  /\ \E b \in Browsers, code \in codes, state \in Logins :
       callback' = [callback EXCEPT ![c] =
         [pc |-> IF cookie[b] = state THEN "exchange" ELSE "failed",
          browser |-> b, code |-> code, nonce |-> cookie[b], user |-> NoUser]]
  /\ UNCHANGED <<cookie, begun, google, tables>>

\* _validate_nonce: the token of a code has the nonce of the login that the
\* code was given for.
\* Mutant: any nonce will do.
AnyNonce(nonce, stored) == nonce \in Logins
SameNonce(nonce, stored) == nonce = stored

\* Google redeems a code once.  Its answer may be an error or get lost, and
\* the token may not verify or have another nonce.
ExchangeCode(c) ==
  /\ callback[c].pc = "exchange"
  /\ LET code == callback[c].code IN
     \/ /\ code \notin spent
        /\ spent' = spent \cup {code}
        /\ Go(c, IF SameNonce(code.login, callback[c].nonce) THEN "claims" ELSE "failed")
     \/ spent' \in {spent, spent \cup {code}} /\ Go(c, "failed")
  /\ UNCHANGED <<cookie, begun, codes, tables>>

\* The domain of the address, its verification and the hosted domain are
\* checked, and that the organization is active.
ValidateClaims(c) ==
  /\ callback[c].pc = "claims"
  /\ \E pc \in {"identity", "failed"} : Go(c, pc)
  /\ UNCHANGED <<cookie, begun, google, tables>>

\* resolve_google_identity: the identity of the subject decides.
\* Mutant: the user with the address goes before the identity's.
ResolveByEmail(c) ==
  /\ callback[c].pc = "identity"
  /\ LET user == identities[callback[c].code.subject]
         email == callback[c].code.email
     IN IF user = NoUser THEN Go(c, "user")
        ELSE GoAs(c, "linkedUser", IF users[email] # "none" THEN email ELSE user)
  /\ UNCHANGED <<cookie, begun, google, tables>>
LookUpIdentity(c) ==
  /\ callback[c].pc = "identity"
  /\ LET user == identities[callback[c].code.subject] IN
     IF user # NoUser THEN GoAs(c, "linkedUser", user) ELSE Go(c, "user")
  /\ UNCHANGED <<cookie, begun, google, tables>>

\* The identity's user; an inactive one is refused.
LoadUser(c) ==
  /\ callback[c].pc = "linkedUser"
  /\ Go(c, IF users[callback[c].user] = "active" THEN "update" ELSE "failed")
  /\ UNCHANGED <<cookie, begun, google, tables>>

\* resolve_user: the user with the address if there is one; an inactive one
\* is refused.
ResolveUser(c) ==
  /\ callback[c].pc = "user"
  /\ LET email == callback[c].code.email IN
     CASE users[email] = "active" -> GoAs(c, "insert", email)
       [] users[email] = "inactive" -> Go(c, "failed")
       [] users[email] = "none" ->
            Go(c, IF AutoProvision THEN "createUser" ELSE "failed")
  /\ UNCHANGED <<cookie, begun, google, tables>>

\* Else a new one.  The address is unique: a concurrent login that was
\* first fails this one.
CreateUser(c) ==
  /\ callback[c].pc = "createUser"
  /\ LET email == callback[c].code.email IN
     IF users[email] = "none"
     THEN /\ users' = [users EXCEPT ![email] = "active"]
          /\ GoAs(c, "insert", email)
     ELSE /\ Go(c, "failed")
          /\ UNCHANGED users
  /\ UNCHANGED <<cookie, begun, google, identities, webSessions>>

\* The identity of a first login; the subject is unique.
\* Mutant: the login that lost the race goes on with the user it has.
InsertOrGoOn(c) ==
  /\ callback[c].pc = "insert"
  /\ LET s == callback[c].code.subject IN
     identities' = [identities EXCEPT ![s] = IF @ = NoUser THEN callback[c].user ELSE @]
  /\ Go(c, "session")
  /\ UNCHANGED <<cookie, begun, google, users, webSessions>>
InsertIdentity(c) ==
  /\ callback[c].pc = "insert"
  /\ LET s == callback[c].code.subject IN
     IF identities[s] = NoUser
     THEN /\ identities' = [identities EXCEPT ![s] = callback[c].user]
          /\ Go(c, "session")
     ELSE /\ Go(c, "failed")
          /\ UNCHANGED identities
  /\ UNCHANGED <<cookie, begun, google, users, webSessions>>

\* The profile of a known identity, saved with the user it was found with.
SaveIdentity(c) ==
  /\ callback[c].pc = "update"
  /\ identities' = [identities EXCEPT ![callback[c].code.subject] = callback[c].user]
  /\ Go(c, "session")
  /\ UNCHANGED <<cookie, begun, google, users, webSessions>>

CreateWebSession(c) ==
  /\ callback[c].pc = "session"
  /\ webSessions' = webSessions \cup
       {[login |-> callback[c].code.login, browser |-> callback[c].browser,
         subject |-> callback[c].code.subject, user |-> callback[c].user]}
  /\ Go(c, "done")
  /\ UNCHANGED <<cookie, begun, google, users, identities>>

\* The answer, good or bad, deletes the login cookies, whichever they are.
Answer(c) ==
  /\ callback[c].pc \in {"done", "failed"}
  /\ cookie' = [cookie EXCEPT ![callback[c].browser] = NoLogin]
  /\ callback' = [callback EXCEPT ![c] = Idle]
  /\ UNCHANGED <<begun, google, tables>>

\* The process dies or the browser leaves: no answer.
Vanish(c) ==
  /\ callback[c].pc # "idle"
  /\ callback' = [callback EXCEPT ![c] = Idle]
  /\ UNCHANGED <<cookie, begun, google, tables>>

Next ==
  \/ \E b \in Browsers : BuildLoginRedirect(b) \/ ExpireCookie(b)
  \/ \E l \in Logins : Consent(l)
  \/ \E e \in Emails : SwitchOff(e)
  \/ \E c \in Callbacks :
       \/ HandleCallback(c)
       \/ ExchangeCode(c)
       \/ ValidateClaims(c)
       \/ LookUpIdentity(c)
       \/ LoadUser(c)
       \/ ResolveUser(c)
       \/ CreateUser(c)
       \/ InsertIdentity(c)
       \/ SaveIdentity(c)
       \/ CreateWebSession(c)
       \/ Answer(c)
       \/ Vanish(c)

Spec == Init /\ [][Next]_vars

-----------------------------------------------------------------------------
(* Properties.                                                             *)

Code == [login : Logins, subject : Subjects, email : Emails]
Session == [login : Logins, browser : Browsers, subject : Subjects, user : Emails]

\* The tables, the cookies and the requests have the types the code gives
\* them, and an identity and a session always have a user.
TypeOK ==
  /\ cookie \in [Browsers -> Logins \cup {NoLogin}]
  /\ begun \in [Logins -> Browsers \cup {NoLogin}]
  /\ codes \subseteq Code
  /\ spent \subseteq codes
  /\ users \in [Emails -> {"none", "active", "inactive"}]
  /\ identities \in [Subjects -> Emails \cup {NoUser}]
  /\ webSessions \subseteq Session
  /\ \A s \in Subjects : identities[s] # NoUser => users[identities[s]] # "none"
  /\ \A c \in Callbacks :
       callback[c].pc # "idle" =>
         /\ callback[c].browser \in Browsers
         /\ callback[c].code \in Code
         /\ callback[c].nonce \in Logins \cup {NoLogin}
         /\ callback[c].user \in Emails \cup {NoUser}

\* However the first logins of an account race, every session made for it
\* is a session of the user its identity points to.
SessionFollowsIdentity ==
  \A s \in webSessions : identities[s.subject] = s.user

\* A Google account that has a user keeps it, also when its address has
\* become that of another user.
SubjectKeepsUser ==
  [][\A s \in Subjects :
       identities[s] # NoUser => identities'[s] = identities[s]]_vars

\* A session made with a code is in the browser that began the login Google
\* gave the code for, also when that browser has begun another login since,
\* or a callback URL with this code and a fitting state is opened elsewhere.
LoginStaysInBrowser ==
  \A s \in webSessions : begun[s.login] = s.browser

-----------------------------------------------------------------------------
(* What the theorems ask of the constants.                                 *)

\* The values that stand for a missing login, browser or user are none.
LoginConstants == NoLogin \notin Logins \cup Browsers /\ NoUser \notin Emails
=============================================================================
