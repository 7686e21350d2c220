-------------------------- MODULE DirectoryProofs --------------------------
(***************************************************************************)
(* What the parts of the directory promise together, as MCDirectory        *)
(* composes them, for any sets of requests, tags, scopes and logins.       *)
(* The first part proves what GoogleLogin promises; AdministrationProofs   *)
(* and RepositoriesProofs prove the same of the other parts, and the       *)
(* second part shows that in MCDirectory each keeps to its specification.  *)
(*                                                                         *)
(* No transaction and no lock orders the statements of two callbacks of a  *)
(* login.  The argument is that the rows they rely on only grow            *)
(* (RowsKept): a login stays the browser's that began it, an identity      *)
(* keeps its user and a user stays in the table, so that what a callback   *)
(* once read is still so when it acts on it.  The code of a callback is    *)
(* any code; that it is of the browser's login is known only once its      *)
(* token's nonce is compared with the cookie's (Claimed).                  *)
(***************************************************************************)
EXTENDS MCDirectory, TLAPS

\* A callback that has passed the comparison of the states and not ended,
\* and one that has passed that of the nonces.
Claimed == {"claims", "identity", "linkedUser", "update", "user", "createUser",
            "insert", "session"}
Underway == {"exchange"} \cup Claimed

Visit == [pc : Underway \cup {"done", "failed"}, browser : Browsers, code : Login!Code,
          nonce : Logins \cup {NoLogin}, user : Emails \cup {NoUser}]

TablesOK ==
  /\ cookie \in [Browsers -> Logins \cup {NoLogin}]
  /\ begun \in [Logins -> Browsers \cup {NoLogin}]
  /\ codes \subseteq Login!Code
  /\ spent \subseteq codes
  /\ users \in [Emails -> {"none", "active", "inactive"}]
  /\ identities \in [Subjects -> Emails \cup {NoUser}]
  /\ webSessions \subseteq Login!Session
  /\ callback \in [Callbacks -> Visit \cup {Login!Idle}]

\* A browser holds the cookies of a login it began.
CookiesSound == \A b \in Browsers : cookie[b] # NoLogin => begun[cookie[b]] = b

\* The user of an identity exists.
IdentitiesSound ==
  \A s \in Subjects : identities[s] # NoUser => users[identities[s]] # "none"

\* A callback is in the browser that began the login of its nonce, and once
\* claimed that of its code; from the lookup of a known identity on, and
\* again once the identity is stored, its user is the identity's; the user
\* of a new identity exists.
Sound(q) ==
  /\ q.pc # "idle" => q.code \in codes
  /\ q.pc = "exchange" => q.nonce \in Logins /\ begun[q.nonce] = q.browser
  /\ q.pc \in Claimed => begun[q.code.login] = q.browser
  /\ q.pc \in {"linkedUser", "update", "session"} =>
       q.user # NoUser /\ identities[q.code.subject] = q.user
  /\ q.pc = "insert" => q.user # NoUser /\ users[q.user] # "none"

CallbacksSound == \A c \in Callbacks : Sound(callback[c])

\* The inductive invariant.
LoginInv ==
  /\ TablesOK
  /\ CookiesSound
  /\ IdentitiesSound
  /\ CallbacksSound
  /\ Login!SessionFollowsIdentity
  /\ Login!LoginStaysInBrowser

-----------------------------------------------------------------------------
(* The rows only grow.                                                     *)

RowsKept ==
  /\ \A l \in Logins : begun[l] # NoLogin => begun'[l] = begun[l]
  /\ \A s \in Subjects : identities[s] # NoUser => identities'[s] = identities[s]
  /\ \A e \in Emails : users[e] # "none" => users'[e] # "none"
  /\ codes \subseteq codes'

\* A step that writes no row keeps them.
LEMMA SameRowsKept ==
  ASSUME UNCHANGED <<begun, identities, users, codes>>
  PROVE  RowsKept
BY DEF RowsKept

\* What a waiting callback relies on stays so.
LEMMA WaitingStaysSound ==
  ASSUME Login!LoginConstants, LoginInv, RowsKept,
         NEW c \in Callbacks, callback'[c] = callback[c]
  PROVE  Sound(callback[c])'
<1>1. Sound(callback[c]) BY DEF LoginInv, CallbacksSound
<1>2. callback[c].pc # "idle" => callback[c] \in Visit
  BY DEF LoginInv, TablesOK, Login!Idle
<1>3. CASE callback[c].pc = "idle" BY <1>3 DEF Sound, Claimed
<1>4. CASE callback[c].pc # "idle"
  <2>1. /\ callback[c].code.login \in Logins
        /\ callback[c].code.subject \in Subjects
        /\ callback[c].browser \in Browsers
        /\ callback[c].user \in Emails \cup {NoUser}
    BY <1>2, <1>4 DEF Visit, Login!Code
  <2> QED BY <1>1, <2>1 DEF Sound, RowsKept, Login!LoginConstants
<1> QED BY <1>3, <1>4

\* So do the sessions made before.
LEMMA SessionsStaySound ==
  ASSUME Login!LoginConstants, LoginInv, RowsKept,
         NEW s \in webSessions
  PROVE  identities'[s.subject] = s.user /\ begun'[s.login] = s.browser
<1>1. s \in Login!Session BY DEF LoginInv, TablesOK
<1>2. /\ s.subject \in Subjects /\ s.user \in Emails
      /\ s.login \in Logins /\ s.browser \in Browsers
  BY <1>1 DEF Login!Session
<1>3. identities[s.subject] = s.user /\ begun[s.login] = s.browser
  BY DEF LoginInv, Login!SessionFollowsIdentity, Login!LoginStaysInBrowser
<1> QED BY <1>2, <1>3 DEF RowsKept, Login!LoginConstants

\* A step of one callback c.
LEMMA CallbackSafe ==
  ASSUME Login!LoginConstants, LoginInv, RowsKept, TablesOK', CookiesSound',
         IdentitiesSound', UNCHANGED webSessions,
         NEW c \in Callbacks, Sound(callback[c])',
         \A d \in Callbacks \ {c} : callback'[d] = callback[d]
  PROVE  LoginInv'
<1>1. CallbacksSound' BY WaitingStaysSound DEF CallbacksSound
<1>2. Login!SessionFollowsIdentity' /\ Login!LoginStaysInBrowser'
  BY SessionsStaySound DEF Login!SessionFollowsIdentity, Login!LoginStaysInBrowser
<1> QED BY <1>1, <1>2 DEF LoginInv

\* A step of no callback.
LEMMA OutsideSafe ==
  ASSUME Login!LoginConstants, LoginInv, RowsKept, TablesOK', CookiesSound',
         IdentitiesSound', UNCHANGED <<webSessions, callback>>
  PROVE  LoginInv'
<1>1. CallbacksSound' BY WaitingStaysSound DEF CallbacksSound
<1>2. Login!SessionFollowsIdentity' /\ Login!LoginStaysInBrowser'
  BY SessionsStaySound DEF Login!SessionFollowsIdentity, Login!LoginStaysInBrowser
<1> QED BY <1>1, <1>2 DEF LoginInv

\* Where a callback is, and what it holds there.
LEMMA Held ==
  ASSUME LoginInv, NEW c \in Callbacks, callback[c].pc # "idle"
  PROVE  /\ callback[c] \in Visit
         /\ callback[c].code \in Login!Code
         /\ callback[c].code.login \in Logins
         /\ callback[c].code.subject \in Subjects
         /\ callback[c].code.email \in Emails
         /\ callback[c].browser \in Browsers
         /\ callback[c].nonce \in Logins \cup {NoLogin}
         /\ callback[c].user \in Emails \cup {NoUser}
         /\ Sound(callback[c])
BY DEF LoginInv, TablesOK, CallbacksSound, Login!Idle, Visit, Login!Code

\* What Go and GoAs leave alone.
LEMMA Moves ==
  ASSUME LoginInv, NEW c \in Callbacks, callback[c].pc # "idle",
         NEW pc \in Underway \cup {"done", "failed"},
         NEW user \in Emails \cup {NoUser},
         \/ Login!Go(c, pc) /\ user = callback[c].user
         \/ Login!GoAs(c, pc, user)
  PROVE  /\ callback' \in [Callbacks -> Visit \cup {Login!Idle}]
         /\ callback'[c].pc = pc
         /\ callback'[c].browser = callback[c].browser
         /\ callback'[c].code = callback[c].code
         /\ callback'[c].user = user
         /\ \A d \in Callbacks \ {c} : callback'[d] = callback[d]
<1> DEFINE q == [callback[c] EXCEPT !.pc = pc, !.user = user]
<1>1. callback \in [Callbacks -> Visit \cup {Login!Idle}] BY DEF LoginInv, TablesOK
<1>2. callback[c] \in Visit BY Held
<1>3. q \in Visit /\ q.pc = pc /\ q.browser = callback[c].browser
        /\ q.code = callback[c].code /\ q.user = user
  BY <1>2 DEF Visit
<1>4. callback' = [callback EXCEPT ![c] = q]
  BY <1>1, <1>2 DEF Login!Go, Login!GoAs, Visit
<1> HIDE DEF q
<1> QED BY <1>1, <1>3, <1>4

\* A step of one callback that leaves the tables alone.
LEMMA ReadingSafe ==
  ASSUME Login!LoginConstants, LoginInv,
         UNCHANGED <<cookie, begun, codes, users, identities, webSessions>>,
         spent' \subseteq codes,
         NEW c \in Callbacks, Sound(callback[c])',
         callback' \in [Callbacks -> Visit \cup {Login!Idle}],
         \A d \in Callbacks \ {c} : callback'[d] = callback[d]
  PROVE  LoginInv'
<1>1. RowsKept BY SameRowsKept
<1>2. TablesOK' BY DEF LoginInv, TablesOK
<1>3. CookiesSound' /\ IdentitiesSound'
  BY DEF LoginInv, CookiesSound, IdentitiesSound
<1> QED BY <1>1, <1>2, <1>3, CallbackSafe

\* A callback that fails, or goes on, its code and its user unchanged, to a
\* place that asks for nothing else.
LEMMA GoSafe ==
  ASSUME Login!LoginConstants, LoginInv,
         UNCHANGED <<cookie, begun, codes, users, identities, webSessions>>,
         spent' \subseteq codes,
         NEW c \in Callbacks, callback[c].pc \in Underway,
         NEW pc \in {"claims", "identity", "user", "createUser", "failed"}, Login!Go(c, pc),
         pc # "failed" => begun[callback[c].code.login] = callback[c].browser
  PROVE  LoginInv'
<1>1. callback[c].pc # "idle" BY DEF Underway, Claimed
<1>2. pc \in Underway \cup {"done", "failed"} BY DEF Underway, Claimed
<1>3. /\ callback' \in [Callbacks -> Visit \cup {Login!Idle}]
      /\ callback'[c].pc = pc
      /\ callback'[c].browser = callback[c].browser
      /\ callback'[c].code = callback[c].code
      /\ \A d \in Callbacks \ {c} : callback'[d] = callback[d]
  BY <1>1, <1>2, Held, Moves
<1>4. Sound(callback[c]) BY <1>1, Held
<1>5. Sound(callback[c])' BY <1>1, <1>3, <1>4 DEF Sound, Claimed
<1> QED BY <1>3, <1>5, ReadingSafe

\* A claimed callback that goes on.
LEMMA ClaimedGoesOn ==
  ASSUME LoginInv, NEW c \in Callbacks, callback[c].pc \in Claimed
  PROVE  /\ callback[c].pc \in Underway /\ callback[c].pc # "idle"
         /\ begun[callback[c].code.login] = callback[c].browser
<1>1. callback[c].pc \in Underway /\ callback[c].pc # "idle" BY DEF Underway, Claimed
<1> QED BY <1>1, Held DEF Sound

\* The callback ends; its cookies may go.
LEMMA IdleSound ==
  ASSUME NEW c \in Callbacks, callback'[c] = Login!Idle
  PROVE  Sound(callback[c])'
BY DEF Sound, Login!Idle, Claimed

-----------------------------------------------------------------------------
(* The steps.                                                              *)

LEMMA BuildLoginRedirectSafe ==
  ASSUME Login!LoginConstants, LoginInv, NEW b \in Browsers, Login!BuildLoginRedirect(b)
  PROVE  LoginInv'
<1>1. PICK l \in Logins :
        /\ begun[l] = NoLogin
        /\ begun' = [begun EXCEPT ![l] = b]
        /\ cookie' = [cookie EXCEPT ![b] = l]
        /\ UNCHANGED <<Login!google, Login!tables, callback>>
  BY DEF Login!BuildLoginRedirect
<1>2. TablesOK' BY <1>1 DEF LoginInv, TablesOK, Login!google, Login!tables
<1>3. RowsKept BY <1>1 DEF LoginInv, TablesOK, RowsKept, Login!google, Login!tables
<1>4. CookiesSound'
  <2> SUFFICES ASSUME NEW a \in Browsers, cookie'[a] # NoLogin
               PROVE  begun'[cookie'[a]] = a
    BY DEF CookiesSound
  <2>1. CASE a = b BY <2>1, <1>1 DEF LoginInv, TablesOK
  <2>2. CASE a # b
    <3>1. cookie'[a] = cookie[a] /\ cookie[a] \in Logins
      BY <2>2, <1>1 DEF LoginInv, TablesOK
    <3>2. begun[cookie[a]] = a BY <3>1 DEF LoginInv, CookiesSound
    <3> QED BY <3>1, <3>2, <1>3 DEF RowsKept, Login!LoginConstants
  <2> QED BY <2>1, <2>2
<1>5. IdentitiesSound' BY <1>1 DEF LoginInv, IdentitiesSound, Login!tables
<1> QED BY <1>1, <1>2, <1>3, <1>4, <1>5, OutsideSafe DEF Login!tables

LEMMA ExpireCookieSafe ==
  ASSUME Login!LoginConstants, LoginInv, NEW b \in Browsers, Login!ExpireCookie(b)
  PROVE  LoginInv'
<1>1. TablesOK' BY DEF LoginInv, TablesOK, Login!ExpireCookie, Login!google, Login!tables
<1>2. RowsKept BY SameRowsKept DEF Login!ExpireCookie, Login!google, Login!tables
<1>3. CookiesSound' BY DEF LoginInv, TablesOK, CookiesSound, Login!ExpireCookie
<1>4. IdentitiesSound' BY DEF LoginInv, IdentitiesSound, Login!ExpireCookie, Login!tables
<1> QED BY <1>1, <1>2, <1>3, <1>4, OutsideSafe DEF Login!ExpireCookie, Login!tables

LEMMA ConsentSafe ==
  ASSUME Login!LoginConstants, LoginInv, NEW l \in Logins, Login!Consent(l)
  PROVE  LoginInv'
<1>1. PICK s \in Subjects, e \in Emails :
        codes' = codes \cup {[login |-> l, subject |-> s, email |-> e]}
  BY DEF Login!Consent
<1>2. codes' \subseteq Login!Code BY <1>1 DEF LoginInv, TablesOK, Login!Code
<1>3. TablesOK' BY <1>1, <1>2 DEF LoginInv, TablesOK, Login!Consent, Login!tables
<1>4. RowsKept BY <1>1 DEF RowsKept, Login!Consent, Login!tables
<1>5. CookiesSound' /\ IdentitiesSound'
  BY DEF LoginInv, CookiesSound, IdentitiesSound, Login!Consent, Login!tables
<1> QED BY <1>3, <1>4, <1>5, OutsideSafe DEF Login!Consent, Login!tables

LEMMA SwitchOffSafe ==
  ASSUME Login!LoginConstants, LoginInv, NEW e \in Emails, Login!SwitchOff(e)
  PROVE  LoginInv'
<1>1. TablesOK' BY DEF LoginInv, TablesOK, Login!SwitchOff, Login!google
<1>2. RowsKept BY DEF LoginInv, TablesOK, RowsKept, Login!SwitchOff, Login!google
<1>3. CookiesSound' BY DEF LoginInv, CookiesSound, Login!SwitchOff
<1>4. IdentitiesSound'
  BY <1>2 DEF LoginInv, TablesOK, IdentitiesSound, Login!SwitchOff, RowsKept
<1> QED BY <1>1, <1>2, <1>3, <1>4, OutsideSafe DEF Login!SwitchOff

LEMMA HandleCallbackSafe ==
  ASSUME Login!LoginConstants, LoginInv, NEW c \in Callbacks, Login!HandleCallback(c)
  PROVE  LoginInv'
<1>1. PICK b \in Browsers, code \in codes, state \in Logins :
        callback' = [callback EXCEPT ![c] =
          [pc |-> IF cookie[b] = state THEN "exchange" ELSE "failed",
           browser |-> b, code |-> code, nonce |-> cookie[b], user |-> NoUser]]
  BY DEF Login!HandleCallback
<1> DEFINE q == [pc |-> IF cookie[b] = state THEN "exchange" ELSE "failed",
                 browser |-> b, code |-> code, nonce |-> cookie[b], user |-> NoUser]
<1>2. q \in Visit BY DEF LoginInv, TablesOK, Visit, Underway
<1>3. /\ q.pc \in {"exchange", "failed"}
      /\ q.pc = "exchange" => cookie[b] \in Logins
      /\ q.browser = b /\ q.code = code /\ q.nonce = cookie[b]
  OBVIOUS
<1>4. callback' = [callback EXCEPT ![c] = q] BY <1>1
<1> HIDE DEF q
<1>5. /\ callback' \in [Callbacks -> Visit \cup {Login!Idle}]
      /\ callback'[c] = q
      /\ \A d \in Callbacks \ {c} : callback'[d] = callback[d]
  BY <1>2, <1>4 DEF LoginInv, TablesOK
<1>6. cookie[b] \in Logins => begun[cookie[b]] = b
  BY DEF LoginInv, CookiesSound, Login!LoginConstants
<1>7. Sound(callback[c])'
  BY <1>3, <1>5, <1>6 DEF Sound, Claimed, Login!HandleCallback, Login!google
<1> QED BY <1>5, <1>7, ReadingSafe
        DEF Login!HandleCallback, Login!google, Login!tables, LoginInv, TablesOK

\* The nonce of the token is that of the code's login, and of the cookie.
LEMMA ExchangeCodeSafe ==
  ASSUME Login!LoginConstants, LoginInv, NEW c \in Callbacks, Login!ExchangeCode(c)
  PROVE  LoginInv'
<1> DEFINE code == callback[c].code
<1>1. callback[c].pc = "exchange" /\ callback[c].pc \in Underway
  BY DEF Login!ExchangeCode, Underway
<1>2. code \in codes /\ begun[callback[c].nonce] = callback[c].browser
  BY <1>1, Held DEF Sound
<1>3. spent' \subseteq codes BY <1>2 DEF Login!ExchangeCode, LoginInv, TablesOK
<1>4. \/ Login!SameNonce(code.login, callback[c].nonce) /\ Login!Go(c, "claims")
      \/ Login!Go(c, "failed")
  BY DEF Login!ExchangeCode
<1>5. Login!SameNonce(code.login, callback[c].nonce) =>
        begun[code.login] = callback[c].browser
  BY <1>2 DEF Login!SameNonce
<1> QED BY <1>1, <1>3, <1>4, <1>5, GoSafe DEF Login!ExchangeCode, Login!tables

LEMMA ValidateClaimsSafe ==
  ASSUME Login!LoginConstants, LoginInv, NEW c \in Callbacks, Login!ValidateClaims(c)
  PROVE  LoginInv'
<1>1. callback[c].pc \in Claimed BY DEF Login!ValidateClaims, Claimed
<1>2. spent' \subseteq codes BY DEF Login!ValidateClaims, Login!google, LoginInv, TablesOK
<1> QED BY <1>1, <1>2, ClaimedGoesOn, GoSafe
        DEF Login!ValidateClaims, Login!google, Login!tables

LEMMA LookUpIdentitySafe ==
  ASSUME Login!LoginConstants, LoginInv, NEW c \in Callbacks, Login!LookUpIdentity(c)
  PROVE  LoginInv'
<1> DEFINE user == identities[callback[c].code.subject]
<1>1. /\ callback[c].pc \in Underway /\ callback[c].pc # "idle"
      /\ begun[callback[c].code.login] = callback[c].browser
      /\ callback[c].pc \in Claimed
  BY ClaimedGoesOn DEF Login!LookUpIdentity, Claimed
<1>2. spent' \subseteq codes BY DEF Login!LookUpIdentity, Login!google, LoginInv, TablesOK
<1>3. user \in Emails \cup {NoUser} BY <1>1, Held DEF LoginInv, TablesOK
<1>4. CASE user = NoUser
  BY <1>1, <1>2, <1>4, GoSafe DEF Login!LookUpIdentity, Login!google, Login!tables
<1>5. CASE user # NoUser
  <2>1. Login!GoAs(c, "linkedUser", user) BY <1>5 DEF Login!LookUpIdentity
  <2> HIDE DEF user
  <2>2. /\ callback' \in [Callbacks -> Visit \cup {Login!Idle}]
        /\ callback'[c].pc = "linkedUser"
        /\ callback'[c].browser = callback[c].browser
        /\ callback'[c].code = callback[c].code
        /\ callback'[c].user = user
        /\ \A d \in Callbacks \ {c} : callback'[d] = callback[d]
    BY <1>1, <1>3, <2>1, Moves DEF Underway, Claimed
  <2>3. Sound(callback[c]) BY <1>1, Held
  <2>4. Sound(callback[c])'
    BY <1>1, <1>5, <2>2, <2>3
    DEF Sound, Claimed, Login!LookUpIdentity, Login!google, Login!tables, user
  <2> QED BY <1>2, <2>2, <2>4, ReadingSafe DEF Login!LookUpIdentity, Login!google, Login!tables
<1> QED BY <1>4, <1>5

LEMMA LoadUserSafe ==
  ASSUME Login!LoginConstants, LoginInv, NEW c \in Callbacks, Login!LoadUser(c)
  PROVE  LoginInv'
<1>1. /\ callback[c].pc \in Underway /\ callback[c].pc # "idle"
      /\ begun[callback[c].code.login] = callback[c].browser
      /\ callback[c].pc \in Claimed
  BY ClaimedGoesOn DEF Login!LoadUser, Claimed
<1>2. spent' \subseteq codes BY DEF Login!LoadUser, Login!google, LoginInv, TablesOK
<1>3. Login!Go(c, "update") \/ Login!Go(c, "failed") BY DEF Login!LoadUser
<1>4. CASE Login!Go(c, "failed")
  BY <1>1, <1>2, <1>4, GoSafe DEF Login!LoadUser, Login!google, Login!tables
<1>5. CASE Login!Go(c, "update")
  <2>1. /\ callback' \in [Callbacks -> Visit \cup {Login!Idle}]
        /\ callback'[c].pc = "update"
        /\ callback'[c].browser = callback[c].browser
        /\ callback'[c].code = callback[c].code
        /\ callback'[c].user = callback[c].user
        /\ \A d \in Callbacks \ {c} : callback'[d] = callback[d]
    BY <1>1, <1>5, Held, Moves DEF Underway, Claimed
  <2>2. Sound(callback[c]) BY <1>1, Held
  <2>3. Sound(callback[c])'
    BY <1>1, <2>1, <2>2 DEF Sound, Claimed, Login!LoadUser, Login!google, Login!tables
  <2> QED BY <1>2, <2>1, <2>3, ReadingSafe DEF Login!LoadUser, Login!google, Login!tables
<1> QED BY <1>3, <1>4, <1>5

\* The callback goes on to store an identity for a user that exists.
LEMMA ToInsertSound ==
  ASSUME Login!LoginConstants, LoginInv, NEW c \in Callbacks, callback[c].pc \in Claimed,
         Login!GoAs(c, "insert", callback[c].code.email),
         users'[callback[c].code.email] # "none", UNCHANGED <<begun, codes>>
  PROVE  /\ callback' \in [Callbacks -> Visit \cup {Login!Idle}]
         /\ Sound(callback[c])'
         /\ \A d \in Callbacks \ {c} : callback'[d] = callback[d]
<1> DEFINE email == callback[c].code.email
<1>1. callback[c].pc # "idle" BY DEF Claimed
<1>2. email \in Emails BY <1>1, Held
<1>3. Sound(callback[c]) BY <1>1, Held
<1> HIDE DEF email
<1>4. /\ callback' \in [Callbacks -> Visit \cup {Login!Idle}]
      /\ callback'[c].pc = "insert"
      /\ callback'[c].browser = callback[c].browser
      /\ callback'[c].code = callback[c].code
      /\ callback'[c].user = email
      /\ \A d \in Callbacks \ {c} : callback'[d] = callback[d]
  BY <1>1, <1>2, Moves DEF Underway, Claimed, email
<1>5. Sound(callback[c])'
  BY <1>1, <1>2, <1>3, <1>4 DEF Sound, Claimed, email, Login!LoginConstants
<1> QED BY <1>4, <1>5

LEMMA ResolveUserSafe ==
  ASSUME Login!LoginConstants, LoginInv, NEW c \in Callbacks, Login!ResolveUser(c)
  PROVE  LoginInv'
<1> DEFINE email == callback[c].code.email
<1>1. /\ callback[c].pc \in Underway /\ callback[c].pc # "idle"
      /\ begun[callback[c].code.login] = callback[c].browser
      /\ callback[c].pc \in Claimed
  BY ClaimedGoesOn DEF Login!ResolveUser, Claimed
<1>2. spent' \subseteq codes BY DEF Login!ResolveUser, Login!google, LoginInv, TablesOK
<1>3. users[email] \in {"none", "active", "inactive"}
  BY <1>1, Held DEF LoginInv, TablesOK
<1>4. CASE users[email] = "active"
  <2>1. Login!GoAs(c, "insert", email) BY <1>4 DEF Login!ResolveUser
  <2>2. users'[email] # "none" BY <1>4 DEF Login!ResolveUser, Login!tables
  <2> QED BY <1>1, <1>2, <2>1, <2>2, ToInsertSound, ReadingSafe
          DEF Login!ResolveUser, Login!google, Login!tables
<1>5. CASE users[email] = "inactive"
  <2>1. Login!Go(c, "failed") BY <1>5 DEF Login!ResolveUser
  <2> QED BY <1>1, <1>2, <2>1, GoSafe DEF Login!ResolveUser, Login!google, Login!tables
<1>6. CASE users[email] = "none"
  <2>1. \E pc \in {"createUser", "failed"} : Login!Go(c, pc) BY <1>6 DEF Login!ResolveUser
  <2> QED BY <1>1, <1>2, <2>1, GoSafe DEF Login!ResolveUser, Login!google, Login!tables
<1> QED BY <1>3, <1>4, <1>5, <1>6

LEMMA CreateUserSafe ==
  ASSUME Login!LoginConstants, LoginInv, NEW c \in Callbacks, Login!CreateUser(c)
  PROVE  LoginInv'
<1> DEFINE email == callback[c].code.email
<1>1. /\ callback[c].pc \in Underway /\ callback[c].pc # "idle"
      /\ begun[callback[c].code.login] = callback[c].browser
      /\ callback[c].pc \in Claimed
  BY ClaimedGoesOn DEF Login!CreateUser, Claimed
<1>2. email \in Emails BY <1>1, Held
<1>3. spent' \subseteq codes BY DEF Login!CreateUser, Login!google, LoginInv, TablesOK
<1>4. CASE users[email] = "none"
  <2>1. users' = [users EXCEPT ![email] = "active"] /\ Login!GoAs(c, "insert", email)
    BY <1>4 DEF Login!CreateUser
  <2>2. users'[email] # "none" BY <1>2, <2>1 DEF LoginInv, TablesOK
  <2>3. /\ callback' \in [Callbacks -> Visit \cup {Login!Idle}]
        /\ Sound(callback[c])'
        /\ \A d \in Callbacks \ {c} : callback'[d] = callback[d]
    BY <1>1, <2>1, <2>2, ToInsertSound DEF Login!CreateUser, Login!google
  <2>4. TablesOK' BY <2>1, <2>3 DEF LoginInv, TablesOK, Login!CreateUser, Login!google
  <2>5. RowsKept
    BY <2>1 DEF RowsKept, LoginInv, TablesOK, Login!CreateUser, Login!google
  <2>6. CookiesSound' BY DEF LoginInv, CookiesSound, Login!CreateUser
  <2>7. IdentitiesSound'
    BY <2>5 DEF LoginInv, TablesOK, IdentitiesSound, RowsKept, Login!CreateUser
  <2> QED BY <2>3, <2>4, <2>5, <2>6, <2>7, CallbackSafe DEF Login!CreateUser
<1>5. CASE users[email] # "none"
  <2>1. Login!Go(c, "failed") /\ UNCHANGED users BY <1>5 DEF Login!CreateUser
  <2> QED BY <1>1, <1>3, <2>1, GoSafe DEF Login!CreateUser, Login!google
<1> QED BY <1>4, <1>5

\* The identity of the callback's account is its user, and it goes on to
\* make a session.
LEMMA IdentityStored ==
  ASSUME Login!LoginConstants, LoginInv, NEW c \in Callbacks,
         callback[c].pc \in {"insert", "update"},
         identities[callback[c].code.subject] \in {NoUser, callback[c].user},
         identities' = [identities EXCEPT ![callback[c].code.subject] = callback[c].user],
         Login!Go(c, "session"), UNCHANGED <<cookie, begun, Login!google, users, webSessions>>
  PROVE  LoginInv'
<1> DEFINE s == callback[c].code.subject
           user == callback[c].user
<1>1. callback[c].pc \in Claimed /\ callback[c].pc # "idle" BY DEF Claimed
<1>2. s \in Subjects /\ user \in Emails \cup {NoUser} /\ Sound(callback[c])
  BY <1>1, Held
<1>3. user # NoUser /\ users[user] # "none"
  BY <1>2 DEF Sound, LoginInv, IdentitiesSound
<1>4. user \in Emails BY <1>2, <1>3
<1>5. /\ callback' \in [Callbacks -> Visit \cup {Login!Idle}]
      /\ callback'[c].pc = "session"
      /\ callback'[c].browser = callback[c].browser
      /\ callback'[c].code = callback[c].code
      /\ callback'[c].user = user
      /\ \A d \in Callbacks \ {c} : callback'[d] = callback[d]
  BY <1>1, <1>2, Moves DEF Underway, Claimed
<1>6. identities' = [identities EXCEPT ![s] = user] /\ identities[s] \in {NoUser, user}
  OBVIOUS
<1> HIDE DEF s, user
<1>7. identities'[s] = user /\ \A r \in Subjects \ {s} : identities'[r] = identities[r]
  BY <1>2, <1>6 DEF LoginInv, TablesOK
<1>8. TablesOK' BY <1>2, <1>4, <1>5, <1>6 DEF LoginInv, TablesOK, Login!google
<1>9. RowsKept BY <1>6, <1>7 DEF RowsKept, Login!google
<1>10. CookiesSound' BY DEF LoginInv, CookiesSound
<1>11. IdentitiesSound' BY <1>3, <1>7 DEF LoginInv, IdentitiesSound
<1>12. Sound(callback[c])'
  BY <1>1, <1>2, <1>3, <1>5, <1>7 DEF Sound, Claimed, Login!google, s
<1> QED BY <1>5, <1>8, <1>9, <1>10, <1>11, <1>12, CallbackSafe

LEMMA InsertIdentitySafe ==
  ASSUME Login!LoginConstants, LoginInv, NEW c \in Callbacks, Login!InsertIdentity(c)
  PROVE  LoginInv'
<1> DEFINE s == callback[c].code.subject
<1>1. CASE identities[s] = NoUser
  BY <1>1, IdentityStored DEF Login!InsertIdentity
<1>2. CASE identities[s] # NoUser
  <2>1. Login!Go(c, "failed") /\ UNCHANGED identities BY <1>2 DEF Login!InsertIdentity
  <2>2. callback[c].pc \in Underway BY DEF Login!InsertIdentity, Underway, Claimed
  <2>3. spent' \subseteq codes BY DEF Login!InsertIdentity, Login!google, LoginInv, TablesOK
  <2> QED BY <2>1, <2>2, <2>3, GoSafe DEF Login!InsertIdentity, Login!google
<1> QED BY <1>1, <1>2

LEMMA SaveIdentitySafe ==
  ASSUME Login!LoginConstants, LoginInv, NEW c \in Callbacks, Login!SaveIdentity(c)
  PROVE  LoginInv'
<1>1. callback[c].pc = "update" BY DEF Login!SaveIdentity
<1>2. identities[callback[c].code.subject] = callback[c].user
  BY <1>1, Held DEF Sound
<1> QED BY <1>1, <1>2, IdentityStored DEF Login!SaveIdentity

LEMMA CreateWebSessionSafe ==
  ASSUME Login!LoginConstants, LoginInv, NEW c \in Callbacks, Login!CreateWebSession(c)
  PROVE  LoginInv'
<1> DEFINE s == [login |-> callback[c].code.login, browser |-> callback[c].browser,
                 subject |-> callback[c].code.subject, user |-> callback[c].user]
<1>1. callback[c].pc = "session" /\ callback[c].pc \in Claimed
  BY DEF Login!CreateWebSession, Claimed
<1>2. /\ callback[c].code.login \in Logins
      /\ callback[c].code.subject \in Subjects
      /\ callback[c].browser \in Browsers
      /\ callback[c].user \in Emails \cup {NoUser}
      /\ Sound(callback[c])
  BY <1>1, Held
<1>3. /\ callback[c].user # NoUser
      /\ identities[callback[c].code.subject] = callback[c].user
      /\ begun[callback[c].code.login] = callback[c].browser
  BY <1>1, <1>2 DEF Sound
<1>4. /\ s \in Login!Session
      /\ identities[s.subject] = s.user
      /\ begun[s.login] = s.browser
  BY <1>2, <1>3 DEF Login!Session
<1>5. webSessions' = webSessions \cup {s} /\ Login!Go(c, "done")
  BY DEF Login!CreateWebSession
<1> HIDE DEF s
<1>6. /\ callback' \in [Callbacks -> Visit \cup {Login!Idle}]
      /\ callback'[c].pc = "done"
      /\ callback'[c].code = callback[c].code
      /\ \A d \in Callbacks \ {c} : callback'[d] = callback[d]
  BY <1>1, <1>2, <1>5, Moves
<1>7. Sound(callback[c])'
  BY <1>1, <1>2, <1>6 DEF Sound, Claimed, Login!CreateWebSession, Login!google
<1>8. RowsKept BY SameRowsKept DEF Login!CreateWebSession, Login!google
<1>9. CallbacksSound' BY <1>6, <1>7, <1>8, WaitingStaysSound DEF CallbacksSound
<1>10. Login!SessionFollowsIdentity'
  BY <1>4, <1>5 DEF LoginInv, Login!SessionFollowsIdentity, Login!CreateWebSession
<1>11. Login!LoginStaysInBrowser'
  BY <1>4, <1>5 DEF LoginInv, Login!LoginStaysInBrowser, Login!CreateWebSession
<1>12. TablesOK'
  BY <1>4, <1>5, <1>6 DEF LoginInv, TablesOK, Login!CreateWebSession, Login!google
<1>13. CookiesSound' /\ IdentitiesSound'
  BY DEF LoginInv, CookiesSound, IdentitiesSound, Login!CreateWebSession
<1> QED BY <1>9, <1>10, <1>11, <1>12, <1>13 DEF LoginInv

LEMMA AnswerSafe ==
  ASSUME Login!LoginConstants, LoginInv, NEW c \in Callbacks, Login!Answer(c)
  PROVE  LoginInv'
<1> DEFINE b == callback[c].browser
<1>1. callback' = [callback EXCEPT ![c] = Login!Idle] BY DEF Login!Answer
<1>2. /\ callback' \in [Callbacks -> Visit \cup {Login!Idle}]
      /\ callback'[c] = Login!Idle
      /\ \A d \in Callbacks \ {c} : callback'[d] = callback[d]
  BY <1>1 DEF LoginInv, TablesOK
<1>3. Sound(callback[c])' BY <1>2, IdleSound
<1>4. TablesOK' BY <1>2 DEF LoginInv, TablesOK, Login!Answer, Login!google, Login!tables
<1>5. RowsKept BY SameRowsKept DEF Login!Answer, Login!google, Login!tables
<1>6. CookiesSound' BY DEF LoginInv, TablesOK, CookiesSound, Login!Answer
<1>7. IdentitiesSound' BY DEF LoginInv, IdentitiesSound, Login!Answer, Login!tables
<1> QED BY <1>2, <1>3, <1>4, <1>5, <1>6, <1>7, CallbackSafe DEF Login!Answer, Login!tables

LEMMA VanishSafe ==
  ASSUME Login!LoginConstants, LoginInv, NEW c \in Callbacks, Login!Vanish(c)
  PROVE  LoginInv'
<1>1. callback' = [callback EXCEPT ![c] = Login!Idle] BY DEF Login!Vanish
<1>2. /\ callback' \in [Callbacks -> Visit \cup {Login!Idle}]
      /\ callback'[c] = Login!Idle
      /\ \A d \in Callbacks \ {c} : callback'[d] = callback[d]
  BY <1>1 DEF LoginInv, TablesOK
<1>3. Sound(callback[c])' BY <1>2, IdleSound
<1> QED BY <1>2, <1>3, ReadingSafe
        DEF Login!Vanish, Login!google, Login!tables, LoginInv, TablesOK

LEMMA LoginInit == Login!Init => LoginInv
<1> SUFFICES ASSUME Login!Init PROVE LoginInv OBVIOUS
<1>1. TablesOK BY DEF Login!Init, TablesOK, Login!Idle
<1>2. CallbacksSound BY DEF Login!Init, CallbacksSound, Sound, Login!Idle, Claimed
<1>3. CookiesSound /\ IdentitiesSound BY DEF Login!Init, CookiesSound, IdentitiesSound
<1>4. Login!SessionFollowsIdentity /\ Login!LoginStaysInBrowser
  BY DEF Login!Init, Login!SessionFollowsIdentity, Login!LoginStaysInBrowser
<1> QED BY <1>1, <1>2, <1>3, <1>4 DEF LoginInv

LEMMA LoginStep ==
  ASSUME Login!LoginConstants, LoginInv, [Login!Next]_Login!vars
  PROVE  LoginInv'
<1>1. CASE UNCHANGED Login!vars
  <2>1. TablesOK' BY <1>1 DEF Login!vars, Login!google, Login!tables, LoginInv, TablesOK
  <2>2. RowsKept BY <1>1, SameRowsKept DEF Login!vars, Login!google, Login!tables
  <2>3. CookiesSound' /\ IdentitiesSound'
    BY <1>1 DEF Login!vars, Login!tables, LoginInv, CookiesSound, IdentitiesSound
  <2> QED BY <1>1, <2>1, <2>2, <2>3, OutsideSafe DEF Login!vars, Login!tables
<1>2. ASSUME NEW b \in Browsers, Login!BuildLoginRedirect(b) \/ Login!ExpireCookie(b)
      PROVE  LoginInv'
  BY <1>2, BuildLoginRedirectSafe, ExpireCookieSafe
<1>3. ASSUME NEW l \in Logins, Login!Consent(l) PROVE LoginInv'
  BY <1>3, ConsentSafe
<1>4. ASSUME NEW e \in Emails, Login!SwitchOff(e) PROVE LoginInv'
  BY <1>4, SwitchOffSafe
<1>5. ASSUME NEW c \in Callbacks,
             \/ Login!HandleCallback(c) \/ Login!ExchangeCode(c) \/ Login!ValidateClaims(c)
             \/ Login!LookUpIdentity(c) \/ Login!LoadUser(c) \/ Login!ResolveUser(c)
      PROVE  LoginInv'
  BY <1>5, HandleCallbackSafe, ExchangeCodeSafe, ValidateClaimsSafe,
     LookUpIdentitySafe, LoadUserSafe, ResolveUserSafe
<1>6. ASSUME NEW c \in Callbacks,
             \/ Login!CreateUser(c) \/ Login!InsertIdentity(c) \/ Login!SaveIdentity(c)
             \/ Login!CreateWebSession(c) \/ Login!Answer(c) \/ Login!Vanish(c)
      PROVE  LoginInv'
  BY <1>6, CreateUserSafe, InsertIdentitySafe, SaveIdentitySafe,
     CreateWebSessionSafe, AnswerSafe, VanishSafe
<1> QED BY <1>1, <1>2, <1>3, <1>4, <1>5, <1>6 DEF Login!Next

-----------------------------------------------------------------------------
(* The theorems.                                                           *)

\* What every callback relies on between its statements is true in every
\* reachable state.
THEOREM CallbacksRelyOnRows ==
  ASSUME Login!LoginConstants
  PROVE  Login!Spec => []LoginInv
<1>1. Login!Init => LoginInv BY LoginInit
<1>2. LoginInv /\ [Login!Next]_Login!vars => LoginInv' BY LoginStep
<1> QED BY <1>1, <1>2, PTL DEF Login!Spec

\* The types that the runs check.
THEOREM LoginTypesCorrect ==
  ASSUME Login!LoginConstants
  PROVE  Login!Spec => []Login!TypeOK
<1>1. LoginInv => Login!TypeOK
  <2> SUFFICES ASSUME LoginInv PROVE Login!TypeOK OBVIOUS
  <2>1. \A c \in Callbacks : callback[c].pc # "idle" =>
          /\ callback[c].browser \in Browsers
          /\ callback[c].code \in Login!Code
          /\ callback[c].nonce \in Logins \cup {NoLogin}
          /\ callback[c].user \in Emails \cup {NoUser}
    BY Held
  <2> QED BY <2>1 DEF LoginInv, TablesOK, IdentitiesSound, Login!TypeOK
<1> QED BY <1>1, CallbacksRelyOnRows, PTL

\* However the first logins of an account race, its sessions are sessions
\* of the user its identity points to.
THEOREM SessionsFollowIdentities ==
  ASSUME Login!LoginConstants
  PROVE  Login!Spec => []Login!SessionFollowsIdentity
<1>1. LoginInv => Login!SessionFollowsIdentity BY DEF LoginInv
<1> QED BY <1>1, CallbacksRelyOnRows, PTL

\* A session is made in the browser that began the login of its code,
\* whatever code and state a callback URL combines.
THEOREM LoginsStayInBrowsers ==
  ASSUME Login!LoginConstants
  PROVE  Login!Spec => []Login!LoginStaysInBrowser
<1>1. LoginInv => Login!LoginStaysInBrowser BY DEF LoginInv
<1> QED BY <1>1, CallbacksRelyOnRows, PTL

\* An account that has a user keeps it: the profile of a known identity is
\* saved with the user the identity still has.
THEOREM SubjectsKeepUsers ==
  ASSUME Login!LoginConstants
  PROVE  Login!Spec => Login!SubjectKeepsUser
<1>1. ASSUME LoginInv, Login!Next
      PROVE  \A s \in Subjects : identities[s] # NoUser => identities'[s] = identities[s]
  <2>1. CASE \E c \in Callbacks : Login!InsertIdentity(c)
    BY <1>1, <2>1 DEF Login!InsertIdentity, LoginInv, TablesOK
  <2>2. CASE \E c \in Callbacks : Login!SaveIdentity(c)
    <3>1. PICK c \in Callbacks : Login!SaveIdentity(c) BY <2>2
    <3>2. identities[callback[c].code.subject] = callback[c].user
      BY <1>1, <3>1, Held DEF Login!SaveIdentity, Sound
    <3> QED BY <1>1, <3>1, <3>2 DEF Login!SaveIdentity, LoginInv, TablesOK
  <2>3. CASE UNCHANGED identities BY <2>3
  <2> QED BY <1>1, <2>1, <2>2, <2>3
          DEF Login!Next, Login!BuildLoginRedirect, Login!ExpireCookie, Login!Consent, Login!SwitchOff,
              Login!HandleCallback, Login!ExchangeCode, Login!ValidateClaims, Login!LookUpIdentity,
              Login!LoadUser, Login!ResolveUser, Login!CreateUser, Login!CreateWebSession, Login!Answer,
              Login!Vanish, Login!tables
<1>2. LoginInv /\ [Login!Next]_Login!vars =>
        [\A s \in Subjects :
           identities[s] # NoUser => identities'[s] = identities[s]]_Login!vars
  BY <1>1
<1> QED BY <1>2, CallbacksRelyOnRows, PTL DEF Login!Spec, Login!SubjectKeepsUser

-----------------------------------------------------------------------------
(* The parts together.                                                     *)

AdminPart == INSTANCE AdministrationProofs
RepoPart == INSTANCE RepositoriesProofs

\* The hypotheses of the theorems about the parts.
LEMMA PartsApply ==
  /\ Login!LoginConstants
  /\ RepoPart!RepoConstants
  /\ RepoPart!PluginConstants
<1>1. \A m : /\ Repos!MetadataOK(m) <=> RepoPart!MetadataOK(m)
             /\ Plugin!MetadataOK(m) <=> RepoPart!MetadataOK(m)
             /\ Plugin!UrlOf(m) = RepoPart!UrlOf(m)
  BY DEF Repos!MetadataOK, RepoPart!MetadataOK,
     Plugin!MetadataOK, Plugin!UrlOf, RepoPart!UrlOf, Plugin!Or, RepoPart!Or
<1>2. RepoPart!RepoConstants
  BY <1>1, TheoremsApply
  DEF TheoremsApply, Repos!RepoConstants, RepoPart!RepoConstants, Repos!HeaderOK,
      RepoPart!HeaderOK, Repos!Keys, RepoPart!Keys, Repos!Fallbacks,
      RepoPart!Fallbacks, Repos!FallbackKey, RepoPart!FallbackKey,
      Repos!Repository, RepoPart!Repository
<1>3. RepoPart!PluginConstants
  BY <1>1, TheoremsApply
  DEF TheoremsApply, Plugin!PluginConstants, RepoPart!PluginConstants, Plugin!Fallbacks,
      RepoPart!Fallbacks, Plugin!FallbackKey, RepoPart!FallbackKey
<1> QED BY <1>2, <1>3, TheoremsApply DEF TheoremsApply

\* The logins of the composition keep to GoogleLogin.
LEMMA LoginsKeepTo == Spec => Login!Spec
<1>1. Init => Login!Init BY DEF Init
<1>2. [Next]_vars => [Login!Next]_Login!vars
  BY DEF Next, vars, loginVars, Login!vars, Login!google, Login!tables
<1> QED BY <1>1, <1>2, PTL DEF Spec, Login!Spec

\* TagCatalog and the module it is proved in are the same specification.
LEMMA SameTags ==
  /\ Tags!Init <=> AdminPart!Tags!Init
  /\ Tags!Next <=> AdminPart!Tags!Next
  /\ Tags!vars = AdminPart!Tags!vars
BY DEF Tags!vars, AdminPart!Tags!vars, Tags!Idle, AdminPart!Tags!Idle,
       Tags!Stored, AdminPart!Tags!Stored, Tags!Slugs, AdminPart!Tags!Slugs,
       Tags!Init, AdminPart!Tags!Init, Tags!SlugFits, AdminPart!Tags!SlugFits,
       Tags!HasSlug, AdminPart!Tags!HasSlug, Tags!Taken, AdminPart!Tags!Taken,
       Tags!InsertTag, AdminPart!Tags!InsertTag, Tags!SaveTag,
       AdminPart!Tags!SaveTag, Tags!CreateTag, AdminPart!Tags!CreateTag,
       Tags!UpdateTag, AdminPart!Tags!UpdateTag, Tags!CheckSlug,
       AdminPart!Tags!CheckSlug, Tags!LoadToDelete,
       AdminPart!Tags!LoadToDelete, Tags!DeleteTag, AdminPart!Tags!DeleteTag,
       Tags!Next, AdminPart!Tags!Next

\* Tags keep to TagCatalog.
LEMMA TagsKeepTo == Spec => AdminPart!Tags!Spec
<1>1. Init => AdminPart!Tags!Init BY SameTags DEF Init
<1>2. [Next]_vars => [AdminPart!Tags!Next]_AdminPart!Tags!vars
  BY SameTags DEF Next, vars, tagVars, Tags!vars, AdminPart!Tags!vars
<1> QED BY <1>1, <1>2, PTL DEF Spec, AdminPart!Tags!Spec

\* RoleAssignments and the module it is proved in are the same specification.
LEMMA SameRoles ==
  /\ Roles!Init <=> AdminPart!Init
  /\ Roles!Next <=> AdminPart!Next
  /\ Roles!vars = AdminPart!vars
BY DEF Roles!vars, AdminPart!vars, Roles!Idle, AdminPart!Idle, Roles!Stored,
       AdminPart!Stored, Roles!InScope, AdminPart!InScope, Roles!Scopes,
       AdminPart!Scopes, Roles!Init,
       AdminPart!Init, Roles!Inserts, AdminPart!Inserts, Roles!Continue,
       AdminPart!Continue, Roles!CreateAssignment, AdminPart!CreateAssignment,
       Roles!InsertAssignment, AdminPart!InsertAssignment, Roles!SelectAgain,
       AdminPart!SelectAgain, Roles!SaveMerged, AdminPart!SaveMerged,
       Roles!LoadAssignment, AdminPart!LoadAssignment, Roles!DeleteAssignment,
       AdminPart!DeleteAssignment, Roles!Next, AdminPart!Next,
       Roles!Cardinality, AdminPart!Cardinality

\* Assignments keep to RoleAssignments.
LEMMA RolesKeepTo == Spec => AdminPart!Spec
<1>1. Init => AdminPart!Init BY SameRoles DEF Init
<1>2. [Next]_vars => [AdminPart!Next]_AdminPart!vars
  BY SameRoles DEF Next, vars, roleVars, Roles!vars, AdminPart!vars
<1> QED BY <1>1, <1>2, PTL DEF Spec, AdminPart!Spec

\* So are Repositories and PluginHooks, whose modules MCDirectory has both.
LEMMA SameRepositories == Repos!Next <=> RepoPart!Next
<1>1. \A m, n : Repos!Updated(m, n) = RepoPart!Updated(m, n)
  BY DEF Repos!Updated, RepoPart!Updated, Repos!Fields, RepoPart!Fields
<1>2. \A header, argument :
        /\ Repos!HeaderMetadata(header) = RepoPart!HeaderMetadata(header)
        /\ Repos!Merged(header, argument) = RepoPart!Merged(header, argument)
  BY <1>1
  DEF Repos!HeaderMetadata, RepoPart!HeaderMetadata, Repos!Merged,
      RepoPart!Merged
<1>3. \A m : /\ Repos!UrlOf(m) = RepoPart!UrlOf(m)
             /\ Repos!IdOf(m) = RepoPart!IdOf(m)
  BY DEF Repos!UrlOf, RepoPart!UrlOf, Repos!IdOf, RepoPart!IdOf, Repos!Or,
      RepoPart!Or, Repos!Parsed, RepoPart!Parsed
<1>4. \A m : Repos!BasenameHint(m) = RepoPart!BasenameHint(m)
  BY DEF Repos!BasenameHint, RepoPart!BasenameHint, Repos!DirOf, RepoPart!DirOf,
      Repos!PathOf, RepoPart!PathOf, Repos!Or, RepoPart!Or
<1>5. \A m : /\ Repos!ToolInput(m) = RepoPart!ToolInput(m)
             /\ Repos!StatusInput(m) = RepoPart!StatusInput(m)
  BY <1>3, <1>4
  DEF Repos!ToolInput, RepoPart!ToolInput, Repos!StatusInput,
      RepoPart!StatusInput, Repos!Parsed, RepoPart!Parsed
<1>6. /\ \A url : /\ Repos!Parses(url) <=> RepoPart!Parses(url)
                  /\ Repos!NormalizeOriginUrl(url) = RepoPart!NormalizeOriginUrl(url)
      /\ \A input : /\ Repos!IdentityKey(input) = RepoPart!IdentityKey(input)
                    /\ Repos!IdentityConfidence(input) =
                         RepoPart!IdentityConfidence(input)
  BY DEF Repos!Parses, RepoPart!Parses, Repos!NormalizeOriginUrl,
      RepoPart!NormalizeOriginUrl, Repos!IdentityKey, RepoPart!IdentityKey,
      Repos!IdentityConfidence, RepoPart!IdentityConfidence,
      Repos!FallbackKey, RepoPart!FallbackKey, Repos!RemoteConfidence,
      RepoPart!RemoteConfidence, Repos!FallbackConfidence,
      RepoPart!FallbackConfidence
<1>7. /\ Repos!Keys = RepoPart!Keys /\ Repos!Stored = RepoPart!Stored
      /\ Repos!Idle = RepoPart!Idle
  BY DEF Repos!Keys, RepoPart!Keys, Repos!Fallbacks, RepoPart!Fallbacks,
      Repos!FallbackKey, RepoPart!FallbackKey, Repos!Stored, RepoPart!Stored,
      Repos!Idle, RepoPart!Idle
<1>8. \A r, headers, route, pc, key, confidence :
        Repos!Start(r, headers, route, pc, key, confidence) <=>
          RepoPart!Start(r, headers, route, pc, key, confidence)
  BY <1>3, <1>6
  DEF Repos!Start, RepoPart!Start
<1>9. \A r, input, headers, route :
        /\ Repos!ResolveById(r, input, headers, route) <=>
             RepoPart!ResolveById(r, input, headers, route)
        /\ Repos!ResolveByIdentity(r, input, headers, route) <=>
             RepoPart!ResolveByIdentity(r, input, headers, route)
  BY <1>6, <1>7, <1>8
  DEF Repos!ResolveById, RepoPart!ResolveById, Repos!ResolveByIdentity,
      RepoPart!ResolveByIdentity
<1>10. \A r, header, argument, route :
         Repos!AskWith(r, header, argument, route) <=>
           RepoPart!AskWith(r, header, argument, route)
  BY <1>2, <1>5, <1>6, <1>9
  DEF Repos!AskWith, RepoPart!AskWith
<1>11. \A r : /\ Repos!InsertRepository(r) <=> RepoPart!InsertRepository(r)
              /\ Repos!SaveRepository(r) <=> RepoPart!SaveRepository(r)
              /\ Repos!Finish(r) <=> RepoPart!Finish(r)
  BY <1>7
  DEF Repos!InsertRepository, RepoPart!InsertRepository, Repos!SaveRepository,
      RepoPart!SaveRepository, Repos!Finish, RepoPart!Finish, Repos!Resolved,
      RepoPart!Resolved
<1>12. \A r : Repos!SaveMemory(r) <=> RepoPart!SaveMemory(r)
  BY <1>7
  DEF Repos!SaveMemory, RepoPart!SaveMemory, Repos!SavesToRepository,
      RepoPart!SavesToRepository, Repos!HighConfidence,
      RepoPart!HighConfidence, Repos!MinConfidence, RepoPart!MinConfidence
<1>13. \A k : Repos!SwitchRepository(k) <=> RepoPart!SwitchRepository(k)
  BY <1>7
  DEF Repos!SwitchRepository, RepoPart!SwitchRepository
<1>14. \A r : Repos!Ask(r) <=> RepoPart!Ask(r)
  BY <1>10
  DEF Repos!Ask, RepoPart!Ask
<1> QED
  BY <1>7, <1>11, <1>12, <1>13, <1>14
  DEF Repos!Next, RepoPart!Next

\* PluginHooks and the module it is proved in have the same behaviours.
LEMMA SamePlugin ==
  /\ Plugin!PluginInit <=> RepoPart!PluginInit
  /\ Plugin!PluginNext <=> RepoPart!PluginNext
<1>1. \A m, n : Plugin!Updated(m, n) = RepoPart!Updated(m, n)
  BY DEF Plugin!Updated, RepoPart!Updated, Plugin!Fields, RepoPart!Fields
<1>2. \A header, argument :
        /\ Plugin!HeaderMetadata(header) = RepoPart!HeaderMetadata(header)
        /\ Plugin!Merged(header, argument) = RepoPart!Merged(header, argument)
  BY <1>1
  DEF Plugin!HeaderMetadata, RepoPart!HeaderMetadata, Plugin!Merged,
      RepoPart!Merged
<1>3. \A m : /\ Plugin!UrlOf(m) = RepoPart!UrlOf(m)
             /\ Plugin!IdOf(m) = RepoPart!IdOf(m)
  BY DEF Plugin!UrlOf, RepoPart!UrlOf, Plugin!IdOf, RepoPart!IdOf, Plugin!Or,
      RepoPart!Or, Plugin!Parsed, RepoPart!Parsed
<1>4. \A m : Plugin!BasenameHint(m) = RepoPart!BasenameHint(m)
  BY DEF Plugin!BasenameHint, RepoPart!BasenameHint, Plugin!DirOf,
      RepoPart!DirOf, Plugin!PathOf, RepoPart!PathOf, Plugin!Or, RepoPart!Or
<1>5. \A m : /\ Plugin!ToolInput(m) = RepoPart!ToolInput(m)
             /\ Plugin!StatusInput(m) = RepoPart!StatusInput(m)
  BY <1>3, <1>4
  DEF Plugin!ToolInput, RepoPart!ToolInput, Plugin!StatusInput,
      RepoPart!StatusInput, Plugin!Parsed, RepoPart!Parsed
<1>6. /\ \A url : /\ Plugin!Parses(url) <=> RepoPart!Parses(url)
                  /\ Plugin!NormalizeOriginUrl(url) = RepoPart!NormalizeOriginUrl(url)
      /\ \A input : /\ Plugin!IdentityKey(input) = RepoPart!IdentityKey(input)
                    /\ Plugin!IdentityConfidence(input) =
                         RepoPart!IdentityConfidence(input)
  BY DEF Plugin!Parses, RepoPart!Parses, Plugin!NormalizeOriginUrl,
      RepoPart!NormalizeOriginUrl, Plugin!IdentityKey, RepoPart!IdentityKey,
      Plugin!IdentityConfidence, RepoPart!IdentityConfidence,
      Plugin!FallbackKey, RepoPart!FallbackKey, Plugin!RemoteConfidence,
      RepoPart!RemoteConfidence, Plugin!FallbackConfidence,
      RepoPart!FallbackConfidence
<1>7. /\ Plugin!Keys = RepoPart!Keys /\ Plugin!Stored = RepoPart!Stored
      /\ Plugin!Idle = RepoPart!Idle
  BY DEF Plugin!Keys, RepoPart!Keys, Plugin!Fallbacks, RepoPart!Fallbacks,
      Plugin!FallbackKey, RepoPart!FallbackKey, Plugin!Stored,
      RepoPart!Stored, Plugin!Idle, RepoPart!Idle
<1>8. \A r, headers, route, pc, key, confidence :
        Plugin!Start(r, headers, route, pc, key, confidence) <=>
          RepoPart!Start(r, headers, route, pc, key, confidence)
  BY <1>3, <1>6
  DEF Plugin!Start, RepoPart!Start
<1>9. \A r, input, headers, route :
        /\ Plugin!ResolveById(r, input, headers, route) <=>
             RepoPart!ResolveById(r, input, headers, route)
        /\ Plugin!ResolveByIdentity(r, input, headers, route) <=>
             RepoPart!ResolveByIdentity(r, input, headers, route)
  BY <1>6, <1>7, <1>8
  DEF Plugin!ResolveById, RepoPart!ResolveById, Plugin!ResolveByIdentity,
      RepoPart!ResolveByIdentity
<1>10. \A r, header, argument, route :
         Plugin!AskWith(r, header, argument, route) <=>
           RepoPart!AskWith(r, header, argument, route)
  BY <1>2, <1>5, <1>6, <1>9
  DEF Plugin!AskWith, RepoPart!AskWith
<1>11. \A r : /\ Plugin!InsertRepository(r) <=> RepoPart!InsertRepository(r)
              /\ Plugin!SaveRepository(r) <=> RepoPart!SaveRepository(r)
              /\ Plugin!Finish(r) <=> RepoPart!Finish(r)
  BY <1>7
  DEF Plugin!InsertRepository, RepoPart!InsertRepository,
      Plugin!SaveRepository, RepoPart!SaveRepository, Plugin!Finish,
      RepoPart!Finish, Plugin!Resolved, RepoPart!Resolved
<1>12. /\ Plugin!NoFields = RepoPart!NoFields
       /\ Plugin!NoHeaders = RepoPart!NoHeaders
       /\ Plugin!NoHook = RepoPart!NoHook
       /\ Plugin!Clone = RepoPart!Clone
  BY DEF Plugin!NoFields, RepoPart!NoFields, Plugin!NoHeaders,
      RepoPart!NoHeaders, Plugin!NoHook, RepoPart!NoHook, Plugin!Clone,
      RepoPart!Clone, Plugin!Fields, RepoPart!Fields
<1>13. \A rootKnown, originKnown :
         Plugin!Metadata(rootKnown, originKnown) =
           RepoPart!Metadata(rootKnown, originKnown)
  BY <1>12
  DEF Plugin!Metadata, RepoPart!Metadata
<1>14. \A m, n : /\ Plugin!RequestHeaders(m) = RepoPart!RequestHeaders(m)
                 /\ Plugin!MergeRepository(m, n) = RepoPart!MergeRepository(m, n)
  BY <1>12
  DEF Plugin!RequestHeaders, RepoPart!RequestHeaders, Plugin!MergeRepository,
      RepoPart!MergeRepository
<1>15. \A r : Plugin!SessionStart(r) <=> RepoPart!SessionStart(r)
  BY <1>10, <1>12, <1>13, <1>14
  DEF Plugin!SessionStart, RepoPart!SessionStart
<1>16. \A r : Plugin!ToolCall(r) <=> RepoPart!ToolCall(r)
  BY <1>10, <1>12, <1>13, <1>14
  DEF Plugin!ToolCall, RepoPart!ToolCall
<1>17. \A r : Plugin!TellAgent(r) <=> RepoPart!TellAgent(r)
  BY <1>11, <1>12
  DEF Plugin!TellAgent, RepoPart!TellAgent, Plugin!HighConfidence,
      RepoPart!HighConfidence, Plugin!MinConfidence, RepoPart!MinConfidence
<1>18. \A r : /\ Plugin!EndCall(r) <=> RepoPart!EndCall(r)
              /\ Plugin!Backend(r) <=> RepoPart!Backend(r)
  BY <1>11, <1>12
  DEF Plugin!EndCall, RepoPart!EndCall, Plugin!Backend, RepoPart!Backend,
      Plugin!hookVars, RepoPart!hookVars
<1>19. Plugin!ChangeWorkspace <=> RepoPart!ChangeWorkspace
  BY DEF Plugin!ChangeWorkspace, RepoPart!ChangeWorkspace, Plugin!Workspaces,
      RepoPart!Workspaces
<1>20. Plugin!PluginInit <=> RepoPart!PluginInit
  BY <1>7, <1>12
  DEF Plugin!PluginInit, RepoPart!PluginInit, Plugin!Init, RepoPart!Init,
      Plugin!Workspaces, RepoPart!Workspaces
<1> QED
  BY <1>15, <1>16, <1>17, <1>18, <1>19, <1>20
  DEF Plugin!PluginNext, RepoPart!PluginNext

\* A behaviour has the requests of any client, without hooks, or those of the
\* plugin.
RepositoriesInv ==
  /\ RepoPart!RepoInv
  /\ focus = "repositories" => \A r \in RepoRequests : hook[r].kind = "none"
  /\ focus # "repositories" => RepoPart!HookInv

\* It holds throughout, whoever makes the requests.
LEMMA RepositoriesKept == Spec => []RepositoriesInv
<1>1. Init => RepositoriesInv
  BY SamePlugin, RepoPart!HookInit
  DEF Init, RepositoriesInv, RepoPart!HookInv, RepoPart!PluginInit,
      RepoPart!NoHook
<1>2. ASSUME RepositoriesInv, [Next]_vars PROVE RepositoriesInv'
  <2>1. CASE focus = "repositories" /\ Next
    <3>1. [RepoPart!Next]_RepoPart!vars /\ UNCHANGED <<focus, hook>>
      BY <2>1, SameRepositories
      DEF Next, repoVars, RepoPart!vars
    <3>2. RepoPart!RepoInv'
      BY <1>2, <3>1, PartsApply, RepoPart!RepoStep DEF RepositoriesInv
    <3> QED BY <1>2, <2>1, <3>1, <3>2 DEF RepositoriesInv
  <2>2. CASE focus # "repositories" /\ Next
    <3>1. [RepoPart!PluginNext]_<<RepoPart!vars, RepoPart!hookVars>>
      BY <2>2, SamePlugin
      DEF Next, repoVars, RepoPart!vars, RepoPart!hookVars
    <3>2. RepoPart!HookInv'
      BY <1>2, <2>2, <3>1, PartsApply, RepoPart!HookStep DEF RepositoriesInv
    <3>3. focus' = focus BY <2>2 DEF Next
    <3> QED BY <2>2, <3>2, <3>3 DEF RepositoriesInv, RepoPart!HookInv
  <2>3. CASE UNCHANGED vars
    <3>1. UNCHANGED <<RepoPart!vars, RepoPart!hookVars, focus, hook>>
      BY <2>3 DEF vars, repoVars, RepoPart!vars, RepoPart!hookVars
    <3>2. RepoPart!RepoInv'
      BY <1>2, <3>1, PartsApply, RepoPart!RepoStep DEF RepositoriesInv
    <3>3. focus # "repositories" => RepoPart!HookInv'
      BY <1>2, <3>1, PartsApply, RepoPart!HookStep DEF RepositoriesInv
    <3> QED BY <1>2, <3>1, <3>2, <3>3 DEF RepositoriesInv
  <2> QED BY <1>2, <2>1, <2>2, <2>3
<1> QED BY <1>1, <1>2, PTL DEF Spec

-----------------------------------------------------------------------------
(* What the runs check of them.                                            *)

\* The properties of TagCatalog and RoleAssignments.
LEMMA SameAdministrationProperties ==
  /\ AdminPart!Tags!DeletedTagsStayGone <=> DeletedTagsStayGone
  /\ AdminPart!RemovedStaysRemoved <=> RemovedStaysRemoved
BY DEF DeletedTagsStayGone, Tags!DeletedTagsStayGone,
       AdminPart!Tags!DeletedTagsStayGone, Tags!Stored,
       AdminPart!Tags!Stored, Tags!vars, AdminPart!Tags!vars,
       RemovedStaysRemoved, Roles!RemovedStaysRemoved,
       AdminPart!RemovedStaysRemoved, Roles!Stored, AdminPart!Stored,
       Roles!vars, AdminPart!vars

\* A deleted tag does not come back.
THEOREM DirectoryDeletedGone == Spec => DeletedTagsStayGone
BY AdminPart!DeletedTagsGone, TagsKeepTo, SameAdministrationProperties, PTL

\* Nor does a removed role assignment.
THEOREM DirectoryRemovedRoles == Spec => RemovedStaysRemoved
BY AdminPart!RemovedRolesGone, RolesKeepTo, SameAdministrationProperties, PTL

\* Sessions are for the user of the account's identity.
THEOREM DirectorySessionsFollow == Spec => []SessionFollowsIdentity
<1>1. Login!Spec => []Login!SessionFollowsIdentity
  BY PartsApply, SessionsFollowIdentities
<1> QED BY <1>1, LoginsKeepTo, PTL DEF SessionFollowsIdentity

\* They are in the browsers that began the logins.
THEOREM DirectoryLoginsStay == Spec => []LoginStaysInBrowser
<1>1. Login!Spec => []Login!LoginStaysInBrowser
  BY PartsApply, LoginsStayInBrowsers
<1> QED BY <1>1, LoginsKeepTo, PTL DEF LoginStaysInBrowser

\* An identity keeps its user.
THEOREM DirectorySubjectsKeep == Spec => SubjectKeepsUser
<1>1. Login!Spec => Login!SubjectKeepsUser
  BY PartsApply, SubjectsKeepUsers
<1> QED BY <1>1, LoginsKeepTo, PTL DEF SubjectKeepsUser

\* Scope "auto" saves in no repository that no URL had named.
THEOREM DirectoryAutoNamed == Spec => []AutoSavesWereNamed
<1>1. RepositoriesInv => AutoSavesWereNamed
  BY PartsApply, RepoPart!RepoInvShows
  DEF RepositoriesInv, AutoSavesWereNamed, Repos!AutoSavesWereNamed,
      RepoPart!AutoSavesWereNamed
<1> QED BY <1>1, RepositoriesKept, PTL

\* The origin_url of the headers decides.
THEOREM DirectoryHeaderOrigin == Spec => []HeaderOriginIsObeyed
<1>1. RepositoriesInv => HeaderOriginIsObeyed
  BY PartsApply, RepoPart!RepoInvShows
  DEF RepositoriesInv, HeaderOriginIsObeyed, Repos!HeaderOriginIsObeyed,
      RepoPart!HeaderOriginIsObeyed
<1> QED BY <1>1, RepositoriesKept, PTL

\* The plugin saves on its own where it told the agent, or for the user; and
\* where there are no hooks, none does.
THEOREM DirectorySavesWhereTold == Spec => []SavesWhereTold
<1>1. RepoPart!SavesWhereTold <=> SavesWhereTold
  BY DEF SavesWhereTold, Plugin!SavesWhereTold, RepoPart!SavesWhereTold,
         Plugin!SavesToRepository, RepoPart!SavesToRepository,
         Plugin!HighConfidence, RepoPart!HighConfidence, Plugin!MinConfidence,
         RepoPart!MinConfidence, Plugin!NoFields, RepoPart!NoFields,
         Plugin!Fields, RepoPart!Fields
<1>2. RepositoriesInv => SavesWhereTold
  <2>1. RepoPart!HookInv => RepoPart!SavesWhereTold
    BY PartsApply, RepoPart!HookShows
  <2>2. (\A r \in RepoRequests : hook[r].kind = "none") => RepoPart!SavesWhereTold
    BY DEF RepoPart!SavesWhereTold
  <2> QED BY <1>1, <2>1, <2>2 DEF RepositoriesInv
<1> QED BY <1>2, RepositoriesKept, PTL

\* The types of all parts.
THEOREM DirectoryTypesCorrect == Spec => []TypesOK
<1>1. AdminPart!Tags!Spec => []AdminPart!Tags!TypeOK BY AdminPart!TagTypesCorrect
<1>2. AdminPart!Spec => []AdminPart!TypeOK BY AdminPart!RoleTypesCorrect
<1>3. Login!Spec => []Login!TypeOK BY PartsApply, LoginTypesCorrect
<1>4. AdminPart!Tags!TypeOK <=> Tags!TypeOK
  BY DEF Tags!TypeOK, AdminPart!Tags!TypeOK, Tags!Row, AdminPart!Tags!Row,
         Tags!Slugs, AdminPart!Tags!Slugs, Tags!Stored, AdminPart!Tags!Stored,
         Tags!Idle, AdminPart!Tags!Idle
<1>5. AdminPart!TypeOK <=> Roles!TypeOK
  BY DEF Roles!TypeOK, AdminPart!TypeOK, Roles!Assignment,
         AdminPart!Assignment, Roles!Scopes, AdminPart!Scopes, Roles!Stored,
         AdminPart!Stored, Roles!Idle, AdminPart!Idle
<1>6. RepoPart!TypeOK <=> Repos!TypeOK
  BY DEF Repos!TypeOK, RepoPart!TypeOK, Repos!Repository, RepoPart!Repository,
         Repos!Keys, RepoPart!Keys, Repos!Fallbacks, RepoPart!Fallbacks,
         Repos!FallbackKey, RepoPart!FallbackKey
<1>7. RepoPart!PluginTypeOK <=> Plugin!PluginTypeOK
  BY DEF Plugin!PluginTypeOK, RepoPart!PluginTypeOK, Plugin!Workspaces,
         RepoPart!Workspaces, Plugin!Keys, RepoPart!Keys, Plugin!Fallbacks,
         RepoPart!Fallbacks, Plugin!FallbackKey, RepoPart!FallbackKey
<1>8. /\ RepositoriesInv
      /\ AdminPart!Tags!TypeOK /\ AdminPart!TypeOK /\ Login!TypeOK
      => TypesOK
  BY <1>4, <1>5, <1>6, <1>7, PartsApply, RepoPart!RepoInvShows,
     RepoPart!HookShows
  DEF TypesOK, RepositoriesInv
<1> QED
  BY <1>1, <1>2, <1>3, <1>8, TagsKeepTo, RolesKeepTo, LoginsKeepTo,
     RepositoriesKept, PTL
=============================================================================
