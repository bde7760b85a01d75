------------------------------ MODULE Accounts ------------------------------
(***************************************************************************)
(* Sign-in: the auth, otp and users services over the tables User,         *)
(* OtpVerification and RefreshToken.                                       *)
(*                                                                         *)
(* A request handler is a sequence of awaited queries; `req[r]' remembers  *)
(* what it has read, and other requests run in between.  A request that is *)
(* refused changes nothing and is no step.  A code stands for its hash:    *)
(* whoever types a code types the number of one that was sent, or none.    *)
(* Sending mail and SMS, logs, names and phoneVerified, which nothing      *)
(* reads to decide, are left out; so is verifyEmail, whose tokens no code  *)
(* creates.  A deleted user who registers again is another user.           *)
(***************************************************************************)
EXTENDS Naturals, FiniteSets

CONSTANTS
  User,         \* people, each with one e-mail address and one phone
  Request,      \* the requests that may be in flight at once
  MaxAttempts,  \* wrong guesses after which a code is refused (5)
  Codes,        \* bound: codes ever sent
  Tokens,       \* bound: refresh tokens ever issued
  Passwords,    \* bound: changes of a password
  Workloads,    \* the mixes of requests to consider, each a set of operations
                \* and whether their handlers may overlap
  None

ASSUME BoundsAssumption ==
  /\ MaxAttempts \in Nat /\ Codes \in Nat /\ Tokens \in Nat
  /\ Passwords \in Nat

ASSUME RequestAssumption == IsFiniteSet(Request) /\ Request # {}

ASSUME UserAssumption == None \notin User

VARIABLES
  account,  \* the User table
  code,     \* the OtpVerification table, in order of createdAt
  token,    \* the RefreshToken table
  req,      \* the handlers in flight
  workload  \* the mix of this behaviour

vars == <<account, code, token, req, workload>>

-----------------------------------------------------------------------------
(* Rows *)

Kind == {"SMS", "EMAIL", "EMAIL_VERIFICATION"}

\* resolveType: the identifier a code of a kind is stored under.
Channel(k) == IF k = "SMS" THEN "phone" ELSE "email"

AccountRow ==
  [row : {"absent", "present", "deleted"}, active : BOOLEAN,
   emailVerified : BOOLEAN, password : 0..Passwords]

CodeRow ==
  [row : {"absent", "live", "gone"}, user : User \union {None}, kind : Kind,
   attempts : Nat, expired : BOOLEAN,
   fresh : BOOLEAN,          \* created in the last two minutes
   tries : Nat, uses : Nat]  \* wrong guesses at a verification, and successes

TokenRow ==
  [row : {"absent", "live", "gone"}, user : User \union {None}, expired : BOOLEAN,
   parent : 0..Tokens]       \* the token it was rotated from, if any

NoCode == [row |-> "absent", user |-> None, kind |-> "SMS", attempts |-> 0,
           expired |-> FALSE, fresh |-> FALSE, tries |-> 0, uses |-> 0]
NoToken == [row |-> "absent", user |-> None, expired |-> FALSE, parent |-> 0]

NewAccount == [row |-> "present", active |-> TRUE, emailVerified |-> FALSE, password |-> 0]

Operation ==
  {"sendOtp", "sendEmailOtp", "verifyOtp", "verifyEmailOtp", "resendEmailOtp",
   "forgotPassword", "resetPassword", "changePassword", "register", "login",
   "firebaseLogin", "mobileLogin", "refresh", "logout", "revokeSession",
   "toggleStatus", "deleteUser"}

Handler ==
  [op : Operation \union {"idle"},
   at : {"", "purge", "insert", "count", "consume", "owner", "confirm", "reset", "change",
         "create", "issue", "discard", "rotate", "revoke", "toggle", "delete"},
   user : User \union {None}, kind : Kind, code : 0..Codes, token : 0..Tokens, flag : BOOLEAN]

Idle == [op |-> "idle", at |-> "", user |-> None, kind |-> "SMS", code |-> 0, token |-> 0,
         flag |-> FALSE]

Init ==
  /\ account \in [User -> {NewAccount, [NewAccount EXCEPT !.row = "absent"]}]
  /\ code = [c \in 1..Codes |-> NoCode]
  /\ token = [t \in 1..Tokens |-> NoToken]
  /\ req = [r \in Request |-> Idle]
  /\ workload \in Workloads

Exists(u) == account[u].row = "present"

\* JwtStrategy.validate, and getCurrentUser: who may call at all.
Admitted(u) == Exists(u) /\ account[u].active

Live(c) == code[c].row = "live"

\* The rows of an identifier with verifiedAt NULL: a verified row is deleted
\* in the transaction that marks it.
Pending(u, channel) ==
  {c \in 1..Codes : Live(c) /\ code[c].user = u /\ Channel(code[c].kind) = channel}

OfKind(u, k) == {c \in 1..Codes : Live(c) /\ code[c].user = u /\ code[c].kind = k}

Unexpired(S) == {c \in S : ~code[c].expired}

\* orderBy createdAt desc, first.
IsNewest(c, S) == c \in S /\ \A d \in S : d <= c

\* getSessions: the sessions a user is shown.
Sessions(u) == {t \in 1..Tokens : token[t].row = "live" /\ token[t].user = u /\ ~token[t].expired}

Owned(u) == {t \in 1..Tokens : token[t].row = "live" /\ token[t].user = u}

-----------------------------------------------------------------------------
(* Handlers *)

Accept(r, op) ==
  /\ op \in workload.ops
  /\ req[r] = Idle
  /\ workload.overlap \/ \A q \in Request : req[q] = Idle

Running(r, at) == req[r].op # "idle" /\ req[r].at = at

\* Start a handler of u that stands before query `at', for a code of kind k.
Begin(r, op, at, u, k, c) ==
  req' = [req EXCEPT ![r] = [Idle EXCEPT !.op = op, !.at = at, !.user = u, !.kind = k, !.code = c]]

Goto(r, at) == req' = [req EXCEPT ![r].at = at]

Reply(r) == req' = [req EXCEPT ![r] = Idle]

\* A row that is gone keeps only what the properties ask of it.
Gone(c) == [NoCode EXCEPT !.row = "gone", !.tries = code[c].tries, !.uses = code[c].uses]

Without(S) == [c \in 1..Codes |-> IF c \in S THEN Gone(c) ELSE code[c]]

Used(c) == [code EXCEPT ![c] = [Gone(c) EXCEPT !.uses = @ + 1]]

SignedOut(S) ==
  [t \in 1..Tokens |-> IF t \in S THEN [NoToken EXCEPT !.row = "gone", !.parent = token[t].parent]
                       ELSE token[t]]

-----------------------------------------------------------------------------
(* Sending codes *)

\* sendOtp: a code sent in the last two minutes refuses.
SendOtp(r, u, k) ==
  /\ Accept(r, "sendOtp")
  /\ k \in {"SMS", "EMAIL"}
  /\ \A c \in Pending(u, Channel(k)) : ~code[c].fresh
  /\ Begin(r, "sendOtp", "purge", u, k, 0)
  /\ UNCHANGED <<account, code, token>>

SendEmailOtp(r, u) ==
  /\ Accept(r, "sendEmailOtp")
  /\ \A c \in Pending(u, "email") : ~code[c].fresh
  /\ Begin(r, "sendEmailOtp", "purge", u, "EMAIL_VERIFICATION", 0)
  /\ UNCHANGED <<account, code, token>>

ForgotPassword(r, u) ==
  /\ Accept(r, "forgotPassword")
  /\ Admitted(u)
  /\ Begin(r, "forgotPassword", "purge", u, "EMAIL", 0)
  /\ UNCHANGED <<account, code, token>>

ResendEmailOtp(r, u) ==
  /\ Accept(r, "resendEmailOtp")
  /\ Admitted(u) /\ ~account[u].emailVerified
  /\ Begin(r, "resendEmailOtp", "purge", u, "EMAIL_VERIFICATION", 0)
  /\ UNCHANGED <<account, code, token>>

\* Mutant: expired codes are left in the table.
ReplacedUnexpired(h) ==
  Unexpired(IF h.op \in {"sendOtp", "sendEmailOtp"} THEN Pending(h.user, Channel(h.kind))
            ELSE OfKind(h.user, h.kind))

\* What the insert replaces: otp.service drops every code of the identifier,
\* auth.service those of the kind it is about to send.
Replaced(h) ==
  IF h.op \in {"sendOtp", "sendEmailOtp"} THEN Pending(h.user, Channel(h.kind))
  ELSE OfKind(h.user, h.kind)

Purge(r) ==
  /\ Running(r, "purge")
  /\ code' = Without(Replaced(req[r]))
  /\ Goto(r, "insert")
  /\ UNCHANGED <<account, token>>

InsertCode(r) ==
  /\ Running(r, "insert")
  /\ \E c \in 1..Codes :
       /\ code[c].row = "absent" /\ \A d \in 1..(c - 1) : code[d].row # "absent"
       /\ code' = [code EXCEPT ![c] = [NoCode EXCEPT !.row = "live", !.user = req[r].user,
                                                     !.kind = req[r].kind, !.fresh = TRUE]]
  /\ Reply(r)
  /\ UNCHANGED <<account, token>>

-----------------------------------------------------------------------------
(* Using codes *)

\* verifyOtp of otp.service: the newest code of the identifier, whatever its
\* kind.  `guess' is the number of the code typed.
VerifyOtp(r, u, channel, guess) ==
  /\ Accept(r, "verifyOtp")
  /\ \E c \in 1..Codes :
       /\ IsNewest(c, Unexpired(Pending(u, channel)))
       /\ code[c].attempts < MaxAttempts
       /\ Begin(r, "verifyOtp", IF guess = c THEN "consume" ELSE "count", u, code[c].kind, c)
  /\ UNCHANGED <<account, code, token>>

\* verifyEmailOtp of auth.service: the newest code of its kind.
VerifyEmailOtp(r, u, guess) ==
  /\ Accept(r, "verifyEmailOtp")
  /\ Exists(u)
  /\ \E c \in 1..Codes :
       /\ IsNewest(c, OfKind(u, "EMAIL_VERIFICATION"))
       /\ ~code[c].expired /\ code[c].attempts < MaxAttempts
       /\ Begin(r, "verifyEmailOtp", IF guess = c THEN "confirm" ELSE "count", u, code[c].kind, c)
  /\ UNCHANGED <<account, code, token>>

ResetPassword(r, u, guess) ==
  /\ Accept(r, "resetPassword")
  /\ Admitted(u)
  /\ \E c \in 1..Codes :
       /\ IsNewest(c, Unexpired(OfKind(u, "EMAIL")))
       /\ Begin(r, "resetPassword", IF guess = c THEN "reset" ELSE "count", u, "EMAIL", c)
  /\ UNCHANGED <<account, code, token>>

\* Mutant: the counter is taken for the attempts that are left.
CountAttemptDown(r) ==
  /\ Running(r, "count")
  /\ code' = IF Live(req[r].code) THEN [code EXCEPT ![req[r].code].attempts = @ - 1] ELSE code
  /\ Reply(r)
  /\ UNCHANGED <<account, token>>

\* The counter is incremented in the database; a row that is gone makes the
\* update throw.  (Bound: a counter stops two beyond the last that is read.)
CountAttempt(r) ==
  /\ Running(r, "count")
  /\ LET c == req[r].code IN
       code' = IF Live(c) /\ code[c].attempts <= MaxAttempts + Cardinality(Request)
                 THEN [code EXCEPT ![c].attempts = @ + 1,
                                   ![c].tries = IF req[r].op = "resetPassword" THEN @ ELSE @ + 1]
                 ELSE code
  /\ Reply(r)
  /\ UNCHANGED <<account, token>>

\* Mutant: deleteMany, which does not mind that the code is gone.
ConsumeCodeByMany(r) ==
  /\ Running(r, "consume")
  /\ code' = Used(req[r].code)
  /\ Goto(r, "owner")
  /\ UNCHANGED <<account, token>>

\* Delete by id throws if another request has used the code.
ConsumeCode(r) ==
  /\ Running(r, "consume")
  /\ IF Live(req[r].code)
       THEN code' = Used(req[r].code) /\ Goto(r, "owner")
       ELSE code' = code /\ Reply(r)
  /\ UNCHANGED <<account, token>>

FindOwner(r) ==
  /\ Running(r, "owner")
  /\ IF Admitted(req[r].user) THEN Goto(r, "issue") ELSE Reply(r)
  /\ UNCHANGED <<account, code, token>>

\* One transaction: the address is verified and the code deleted, or neither.
ConfirmEmail(r) ==
  /\ Running(r, "confirm")
  /\ IF Exists(req[r].user) /\ Live(req[r].code)
       THEN /\ account' = [account EXCEPT ![req[r].user].emailVerified = TRUE]
            /\ code' = Used(req[r].code)
            /\ Goto(r, "issue")
       ELSE UNCHANGED <<account, code>> /\ Reply(r)
  /\ UNCHANGED <<token>>

\* One transaction: the password, the code and the sessions.
ResetWrite(r) ==
  /\ Running(r, "reset")
  /\ LET u == req[r].user IN
       IF Exists(u) /\ Live(req[r].code) /\ account[u].password < Passwords
         THEN /\ account' = [account EXCEPT ![u].password = @ + 1]
              /\ code' = Used(req[r].code)
              /\ token' = SignedOut(Owned(u))
         ELSE UNCHANGED <<account, code, token>>
  /\ Reply(r)

ChangePassword(r, u) ==
  /\ Accept(r, "changePassword")
  /\ Admitted(u)
  /\ Begin(r, "changePassword", "change", u, "SMS", 0)
  /\ UNCHANGED <<account, code, token>>

\* Mutant: the sessions stay.
ChangeWriteKeepsSessions(r) ==
  /\ Running(r, "change")
  /\ account' = IF Exists(req[r].user) /\ account[req[r].user].password < Passwords
                  THEN [account EXCEPT ![req[r].user].password = @ + 1] ELSE account
  /\ Reply(r)
  /\ UNCHANGED <<code, token>>

\* One transaction: the password and the sessions.
ChangeWrite(r) ==
  /\ Running(r, "change")
  /\ LET u == req[r].user IN
       IF Exists(u) /\ account[u].password < Passwords
         THEN /\ account' = [account EXCEPT ![u].password = @ + 1]
              /\ token' = SignedOut(Owned(u))
         ELSE UNCHANGED <<account, token>>
  /\ Reply(r)
  /\ UNCHANGED <<code>>

-----------------------------------------------------------------------------
(* Signing in *)

Register(r, u) ==
  /\ Accept(r, "register")
  /\ account[u].row = "absent"
  /\ Begin(r, "register", "create", u, "SMS", 0)
  /\ UNCHANGED <<account, code, token>>

\* A wrong password, or a manager on the web who has not checked in today, is
\* refused.  Without a verified address a code is sent instead of a token.
Login(r, u, password) ==
  /\ Accept(r, "login")
  /\ Admitted(u) /\ account[u].password = password
  /\ IF account[u].emailVerified
       THEN Begin(r, "login", "issue", u, "SMS", 0)
       ELSE Begin(r, "login", "purge", u, "EMAIL_VERIFICATION", 0)
  /\ UNCHANGED <<account, code, token>>

\* A phone that Firebase has verified; an unknown one gets an account.
FirebaseLogin(r, u) ==
  /\ Accept(r, "firebaseLogin")
  /\ account[u].row = "absent" \/ Admitted(u)
  /\ Begin(r, "firebaseLogin", IF Exists(u) THEN "issue" ELSE "create", u, "SMS", 0)
  /\ UNCHANGED <<account, code, token>>

MobileLogin(r, u) ==
  /\ Accept(r, "mobileLogin")
  /\ account[u].row = "absent" \/ Admitted(u)
  /\ Begin(r, "mobileLogin", IF Exists(u) THEN "issue" ELSE "create", u, "SMS", 0)
  /\ UNCHANGED <<account, code, token>>

\* E-mail and phone are unique: the second of two creations throws.
CreateUser(r) ==
  /\ Running(r, "create")
  /\ IF account[req[r].user].row = "absent"
       THEN account' = [account EXCEPT ![req[r].user] = NewAccount] /\ Goto(r, "issue")
       ELSE account' = account /\ Reply(r)
  /\ UNCHANGED <<code, token>>

\* createRefreshToken; the foreign key throws if the user was deleted.
IssueToken(r) ==
  /\ Running(r, "issue")
  /\ IF Exists(req[r].user)
       THEN \E t \in 1..Tokens :
              /\ token[t].row = "absent" /\ \A s \in 1..(t - 1) : token[s].row # "absent"
              /\ token' = [token EXCEPT ![t] = [NoToken EXCEPT !.row = "live",
                                                  !.user = req[r].user, !.parent = req[r].token]]
       ELSE token' = token
  /\ Reply(r)
  /\ UNCHANGED <<account, code>>

-----------------------------------------------------------------------------
(* Sessions *)

HoldToken(r, op, at, t) ==
  req' = [req EXCEPT ![r] = [Idle EXCEPT !.op = op, !.at = at, !.token = t,
                                         !.user = token[t].user]]

\* An expired token is deleted before it is refused.
Refresh(r, t) ==
  /\ Accept(r, "refresh")
  /\ token[t].row = "live"
  /\ token[t].expired \/ account[token[t].user].active
  /\ HoldToken(r, "refresh", IF token[t].expired THEN "discard" ELSE "rotate", t)
  /\ UNCHANGED <<account, code, token>>

DiscardToken(r) ==
  /\ Running(r, "discard")
  /\ token' = SignedOut({req[r].token} \intersect Owned(req[r].user))
  /\ Reply(r)
  /\ UNCHANGED <<account, code>>

\* Delete by id throws if the token is gone, so it is rotated at most once.
RotateToken(r) ==
  /\ Running(r, "rotate")
  /\ IF token[req[r].token].row = "live"
       THEN token' = SignedOut({req[r].token}) /\ Goto(r, "issue")
       ELSE token' = token /\ Reply(r)
  /\ UNCHANGED <<account, code>>

\* logout: deleteMany of this token of this user.
Logout(r, t) ==
  /\ Accept(r, "logout")
  /\ token[t].row = "live" /\ Admitted(token[t].user)
  /\ token' = SignedOut({t})
  /\ UNCHANGED <<account, code, req>>

RevokeSession(r, t) ==
  /\ Accept(r, "revokeSession")
  /\ token[t].row = "live" /\ Admitted(token[t].user) /\ t \in Sessions(token[t].user)
  /\ HoldToken(r, "revokeSession", "revoke", t)
  /\ UNCHANGED <<account, code, token>>

RevokeDelete(r) ==
  /\ Running(r, "revoke")
  /\ token' = SignedOut({req[r].token} \intersect Owned(req[r].user))
  /\ Reply(r)
  /\ UNCHANGED <<account, code>>

-----------------------------------------------------------------------------
(* Accounts *)

ToggleStatus(r, u) ==
  /\ Accept(r, "toggleStatus")
  /\ Exists(u)
  /\ req' = [req EXCEPT ![r] = [Idle EXCEPT !.op = "toggleStatus", !.at = "toggle", !.user = u,
                                            !.flag = ~account[u].active]]
  /\ UNCHANGED <<account, code, token>>

ToggleWrite(r) ==
  /\ Running(r, "toggle")
  /\ account' = IF Exists(req[r].user)
                  THEN [account EXCEPT ![req[r].user].active = req[r].flag] ELSE account
  /\ Reply(r)
  /\ UNCHANGED <<code, token>>

DeleteUser(r, u) ==
  /\ Accept(r, "deleteUser")
  /\ Exists(u)
  /\ Begin(r, "deleteUser", "delete", u, "SMS", 0)
  /\ UNCHANGED <<account, code, token>>

\* The foreign key cascades to the tokens; codes know no user and stay.
DeleteWrite(r) ==
  /\ Running(r, "delete")
  /\ LET u == req[r].user IN
       IF Exists(u)
         THEN /\ account' = [account EXCEPT ![u] = [NewAccount EXCEPT !.row = "deleted"]]
              /\ token' = SignedOut(Owned(u))
         ELSE UNCHANGED <<account, token>>
  /\ Reply(r)
  /\ UNCHANGED <<code>>

-----------------------------------------------------------------------------
(* Time and failures *)

\* Two minutes pass, then the code's lifetime.
CodeAges(c) ==
  /\ Live(c) /\ ~code[c].expired
  /\ code' = [code EXCEPT ![c].fresh = FALSE, ![c].expired = ~code[c].fresh]
  /\ UNCHANGED <<account, token, req>>

TokenExpires(t) ==
  /\ token[t].row = "live" /\ ~token[t].expired
  /\ token' = [token EXCEPT ![t].expired = TRUE]
  /\ UNCHANGED <<account, code, req>>

\* A query throws, or the process dies, between two queries of a handler.
Fail(r) ==
  /\ req[r] # Idle
  /\ Reply(r)
  /\ UNCHANGED <<account, code, token>>

Guess == 0..Codes

Send(r) ==
  \E u \in User :
    \/ \E k \in Kind : SendOtp(r, u, k)
    \/ SendEmailOtp(r, u) \/ ForgotPassword(r, u) \/ ResendEmailOtp(r, u)

Prove(r) ==
  \E u \in User, guess \in Guess :
    \/ \E channel \in {"phone", "email"} : VerifyOtp(r, u, channel, guess)
    \/ VerifyEmailOtp(r, u, guess) \/ ResetPassword(r, u, guess)

SignIn(r) ==
  \E u \in User :
    \/ \E password \in 0..Passwords : Login(r, u, password)
    \/ Register(r, u) \/ FirebaseLogin(r, u) \/ MobileLogin(r, u)

Manage(r) ==
  \/ \E u \in User : ChangePassword(r, u) \/ ToggleStatus(r, u) \/ DeleteUser(r, u)
  \/ \E t \in 1..Tokens : Refresh(r, t) \/ Logout(r, t) \/ RevokeSession(r, t)

Continue(r) ==
  \/ Purge(r) \/ InsertCode(r)
  \/ CountAttempt(r) \/ ConsumeCode(r) \/ FindOwner(r) \/ ConfirmEmail(r)
  \/ ResetWrite(r) \/ ChangeWrite(r)
  \/ CreateUser(r) \/ IssueToken(r)
  \/ DiscardToken(r) \/ RotateToken(r) \/ RevokeDelete(r)
  \/ ToggleWrite(r) \/ DeleteWrite(r)

Time == (\E c \in 1..Codes : CodeAges(c)) \/ (\E t \in 1..Tokens : TokenExpires(t))

Next ==
  /\ \/ \E r \in Request : Send(r) \/ Prove(r) \/ SignIn(r) \/ Manage(r) \/ Continue(r) \/ Fail(r)
     \/ Time
  /\ workload' = workload

Spec == Init /\ [][Next]_vars

-----------------------------------------------------------------------------
(* Properties *)

\* The tables and the handlers have the shapes declared above.
TypeOK ==
  /\ account \in [User -> AccountRow]
  /\ code \in [1..Codes -> CodeRow]
  /\ token \in [1..Tokens -> TokenRow]
  /\ req \in [Request -> Handler]
  /\ workload \in Workloads

\* A one-time code buys one sign-in, one verified address or one new password,
\* never two, although two requests may present it at once, on any of the
\* three paths that accept it.
CodeBuysOnce == \A c \in 1..Codes : code[c].uses <= 1

\* A refresh token that is presented twice at once is rotated once: no two
\* tokens were ever issued for the same one.
RotationIsLinear ==
  \A s, t \in 1..Tokens : token[s].parent = token[t].parent /\ token[s].parent # 0 => s = t

\* Overlapping verifications check the attempts of a code before they count
\* their own, yet the wrong guesses exceed the limit by at most the number of
\* other requests.
GuessesBounded ==
  \A c \in 1..Codes : code[c].tries < MaxAttempts + Cardinality(Request)

\* The step that changes a password leaves no session of that user.
PasswordChangeSignsOut ==
  [][\A u \in User : account'[u].password # account[u].password => Owned(u)' = {}]_vars

\* At most one code of a kind waits for an address, so the one a user has just
\* been sent is the one that counts.  Holds when requests do not overlap.
OneCodePerKind ==
  ~workload.overlap => \A u \in User, k \in Kind : Cardinality(OfKind(u, k)) <= 1

\* Nobody who is deactivated gets a session, except by verifying an address,
\* whatever became of the account while codes and tokens were under way.
\* Holds when requests do not overlap.
OnlyActiveSignIn ==
  [][~workload.overlap =>
       \A r \in Request, u \in User :
         IssueToken(r) /\ req[r].user = u /\ req[r].op # "verifyEmailOtp"
           => Owned(u)' = Owned(u) \/ Admitted(u)]_vars

\* What may be used once is used once: no code buys twice, and no refresh token
\* is rotated twice, however many requests present it.
OnceOnly == CodeBuysOnce /\ RotationIsLinear

\* Codes are limited in number and in guesses, so that the guesses one person
\* has are those of one code of each kind.
CodesCounted == GuessesBounded /\ OneCodePerKind

\* Sessions end with the password they were opened with, and none begins for
\* somebody who is deactivated.
SessionsEnd == PasswordChangeSignsOut /\ OnlyActiveSignIn
=============================================================================
