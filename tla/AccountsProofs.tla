--------------------------- MODULE AccountsProofs ---------------------------
(***************************************************************************)
(* Theorems about Accounts for any number of users, codes, tokens, wrong   *)
(* guesses allowed and overlapping requests.                               *)
(***************************************************************************)
EXTENDS Accounts, FiniteSetTheorems, TLAPS

-----------------------------------------------------------------------------
(* Typing *)

\* Where a handler may stand.
Stage == {"", "purge", "insert", "count", "consume", "owner", "confirm", "reset", "change",
          "create", "issue", "discard", "rotate", "revoke", "toggle", "delete"}

LEMMA IdleType == Idle \in Handler
BY BoundsAssumption DEF Idle, Handler, Kind

LEMMA SetHandlerType ==
  ASSUME TypeOK, NEW r \in Request, NEW h \in Handler, req' = [req EXCEPT ![r] = h]
  PROVE  req' \in [Request -> Handler]
BY DEF TypeOK

LEMMA BeginType ==
  ASSUME TypeOK, NEW r \in Request, NEW op \in Operation, NEW at \in Stage, NEW u \in User,
         NEW k \in Kind, NEW c \in 0..Codes, Begin(r, op, at, u, k, c)
  PROVE  req' \in [Request -> Handler]
<1>1. [Idle EXCEPT !.op = op, !.at = at, !.user = u, !.kind = k, !.code = c] \in Handler
  BY IdleType, BoundsAssumption DEF Handler, Stage
<1>. QED BY <1>1, SetHandlerType DEF Begin

LEMMA HoldTokenType ==
  ASSUME TypeOK, NEW r \in Request, NEW op \in Operation, NEW at \in Stage, NEW t \in 1..Tokens,
         HoldToken(r, op, at, t)
  PROVE  req' \in [Request -> Handler]
<1>1. token[t].user \in User \union {None} /\ t \in 0..Tokens
  BY BoundsAssumption DEF TypeOK, TokenRow
<1>2. [Idle EXCEPT !.op = op, !.at = at, !.token = t, !.user = token[t].user] \in Handler
  BY <1>1, IdleType DEF Handler, Stage
<1>. QED BY <1>2, SetHandlerType DEF HoldToken

LEMMA GotoType ==
  ASSUME TypeOK, NEW r \in Request, NEW at \in Stage, Goto(r, at)
  PROVE  req' \in [Request -> Handler]
<1>1. [req[r] EXCEPT !.at = at] \in Handler
  BY DEF TypeOK, Handler, Stage
<1>2. req' = [req EXCEPT ![r] = [req[r] EXCEPT !.at = at]]
  BY DEF Goto
<1>. QED BY <1>1, <1>2, SetHandlerType

LEMMA ReplyType ==
  ASSUME TypeOK, NEW r \in Request, Reply(r)
  PROVE  req' \in [Request -> Handler]
BY IdleType, SetHandlerType DEF Reply

LEMMA NoCodeType == NoCode \in CodeRow /\ NoCode.row = "absent" /\ NoCode.uses = 0
<1>1. "SMS" \in Kind /\ 0 \in Nat
  BY DEF Kind
<1>. QED BY <1>1 DEF NoCode, CodeRow

\* One column of a code is written, and the row in a table of codes.
LEMMA CodeColumn ==
  ASSUME NEW row \in CodeRow
  PROVE  /\ \A n \in Nat : /\ [row EXCEPT !.attempts = n] \in CodeRow
                          /\ [row EXCEPT !.tries = n] \in CodeRow
         /\ \A x \in BOOLEAN : /\ [row EXCEPT !.fresh = x] \in CodeRow
                              /\ [row EXCEPT !.expired = x] \in CodeRow
BY DEF CodeRow

LEMMA CodeTable ==
  ASSUME NEW f \in [1..Codes -> CodeRow], NEW c, NEW row, c \in 1..Codes => row \in CodeRow
  PROVE  [f EXCEPT ![c] = row] \in [1..Codes -> CodeRow]
OBVIOUS

\* Two columns of one code are written.
LEMMA CodeUpdateType ==
  ASSUME NEW f \in [1..Codes -> CodeRow], NEW c
  PROVE  /\ \A n, m \in Nat : [f EXCEPT ![c].attempts = n, ![c].tries = m] \in [1..Codes -> CodeRow]
         /\ \A x, y \in BOOLEAN : [f EXCEPT ![c].fresh = x, ![c].expired = y] \in [1..Codes -> CodeRow]
<1>1. \A g \in [1..Codes -> CodeRow], n \in Nat : [g EXCEPT ![c].attempts = n] \in [1..Codes -> CodeRow]
  BY CodeColumn, CodeTable
<1>2. \A g \in [1..Codes -> CodeRow], n \in Nat : [g EXCEPT ![c].tries = n] \in [1..Codes -> CodeRow]
  BY CodeColumn, CodeTable
<1>3. \A g \in [1..Codes -> CodeRow], x \in BOOLEAN : [g EXCEPT ![c].fresh = x] \in [1..Codes -> CodeRow]
  BY CodeColumn, CodeTable
<1>4. \A g \in [1..Codes -> CodeRow], x \in BOOLEAN : [g EXCEPT ![c].expired = x] \in [1..Codes -> CodeRow]
  BY CodeColumn, CodeTable
<1>. QED BY <1>1, <1>2, <1>3, <1>4

\* Codes that are used or replaced.
LEMMA GoneType ==
  ASSUME TypeOK, NEW c \in 1..Codes
  PROVE  /\ Gone(c) \in CodeRow
         /\ [Gone(c) EXCEPT !.uses = @ + 1] \in CodeRow
         /\ Gone(c).row = "gone" /\ Gone(c).uses = code[c].uses /\ Gone(c).tries = code[c].tries
<1>1. code[c].uses \in Nat /\ code[c].tries \in Nat
  BY DEF TypeOK, CodeRow
<1>2. \A n, m \in Nat : [NoCode EXCEPT !.row = "gone", !.tries = n, !.uses = m] \in CodeRow
  BY NoCodeType DEF CodeRow
<1>3. Gone(c) \in CodeRow
  BY <1>1, <1>2 DEF Gone
<1>4. Gone(c).row = "gone" /\ Gone(c).uses = code[c].uses /\ Gone(c).tries = code[c].tries
  BY NoCodeType DEF Gone, CodeRow
<1>5. \A g \in CodeRow : [g EXCEPT !.uses = @ + 1] \in CodeRow
  BY DEF CodeRow
<1>. QED BY <1>3, <1>4, <1>5

LEMMA WithoutType ==
  ASSUME TypeOK, NEW S
  PROVE  Without(S) \in [1..Codes -> CodeRow]
BY GoneType DEF Without, TypeOK

LEMMA UsedType ==
  ASSUME TypeOK, NEW c
  PROVE  Used(c) \in [1..Codes -> CodeRow]
BY GoneType DEF Used, TypeOK

LEMMA SignedOutType ==
  ASSUME TypeOK, NEW S
  PROVE  SignedOut(S) \in [1..Tokens -> TokenRow]
BY DEF SignedOut, TypeOK, TokenRow, NoToken

LEMMA AccountType ==
  ASSUME TypeOK, NEW u, NEW row, u \in User => row \in AccountRow,
         account' = [account EXCEPT ![u] = row]
  PROVE  account' \in [User -> AccountRow]
BY DEF TypeOK

LEMMA NewAccountType == NewAccount \in AccountRow /\ [NewAccount EXCEPT !.row = "deleted"] \in AccountRow
<1>1. 0 \in 0..Passwords
  BY BoundsAssumption
<1>2. NewAccount \in AccountRow
  BY <1>1 DEF NewAccount, AccountRow
<1>. QED BY <1>2 DEF AccountRow

-----------------------------------------------------------------------------
\* Each way to start a handler, and each to resume one, keeps the types.
LEMMA StartType ==
  ASSUME TypeOK, NEW r \in Request, workload' = workload,
         Send(r) \/ Prove(r) \/ SignIn(r) \/ Manage(r)
  PROVE  TypeOK'
<1>0. Codes \in Nat /\ 0 \in 0..Codes /\ 1..Codes \subseteq 0..Codes
  BY BoundsAssumption
<1>a. ASSUME req' \in [Request -> Handler], UNCHANGED <<account, code, token>>
      PROVE  TypeOK'
  BY <1>a DEF TypeOK
<1>b. ASSUME NEW op \in Operation, NEW at \in Stage, NEW u \in User,
             NEW k \in Kind, NEW c \in 0..Codes, Begin(r, op, at, u, k, c),
             UNCHANGED <<account, code, token>>
      PROVE  TypeOK'
  BY <1>a, <1>b, BeginType
<1>1. ASSUME NEW u \in User, NEW k \in Kind, SendOtp(r, u, k) PROVE TypeOK'
  BY <1>0, <1>1, <1>b DEF SendOtp, Operation, Stage
<1>2. ASSUME NEW u \in User, SendEmailOtp(r, u) PROVE TypeOK'
  BY <1>0, <1>2, <1>b DEF SendEmailOtp, Operation, Stage, Kind
<1>3. ASSUME NEW u \in User, ForgotPassword(r, u) PROVE TypeOK'
  BY <1>0, <1>3, <1>b DEF ForgotPassword, Operation, Stage, Kind
<1>4. ASSUME NEW u \in User, ResendEmailOtp(r, u) PROVE TypeOK'
  BY <1>0, <1>4, <1>b DEF ResendEmailOtp, Operation, Stage, Kind
<1>5. ASSUME NEW u \in User, NEW channel, NEW guess, VerifyOtp(r, u, channel, guess) PROVE TypeOK'
  <2>1. PICK c \in 1..Codes :
          Begin(r, "verifyOtp", IF guess = c THEN "consume" ELSE "count", u, code[c].kind, c)
    BY <1>5 DEF VerifyOtp
  <2>2. code[c].kind \in Kind /\ c \in 0..Codes
    BY <1>0 DEF TypeOK, CodeRow
  <2>3. (IF guess = c THEN "consume" ELSE "count") \in Stage /\ "verifyOtp" \in Operation
    BY DEF Stage, Operation
  <2>. QED BY <1>5, <1>b, <2>1, <2>2, <2>3 DEF VerifyOtp
<1>6. ASSUME NEW u \in User, NEW guess, VerifyEmailOtp(r, u, guess) PROVE TypeOK'
  <2>1. PICK c \in 1..Codes :
          Begin(r, "verifyEmailOtp", IF guess = c THEN "confirm" ELSE "count", u, code[c].kind, c)
    BY <1>6 DEF VerifyEmailOtp
  <2>2. code[c].kind \in Kind /\ c \in 0..Codes
    BY <1>0 DEF TypeOK, CodeRow
  <2>3. (IF guess = c THEN "confirm" ELSE "count") \in Stage /\ "verifyEmailOtp" \in Operation
    BY DEF Stage, Operation
  <2>. QED BY <1>6, <1>b, <2>1, <2>2, <2>3 DEF VerifyEmailOtp
<1>7. ASSUME NEW u \in User, NEW guess, ResetPassword(r, u, guess) PROVE TypeOK'
  <2>1. PICK c \in 1..Codes :
          Begin(r, "resetPassword", IF guess = c THEN "reset" ELSE "count", u, "EMAIL", c)
    BY <1>7 DEF ResetPassword
  <2>2. c \in 0..Codes /\ "EMAIL" \in Kind
    BY <1>0 DEF Kind
  <2>3. (IF guess = c THEN "reset" ELSE "count") \in Stage /\ "resetPassword" \in Operation
    BY DEF Stage, Operation
  <2>. QED BY <1>7, <1>b, <2>1, <2>2, <2>3 DEF ResetPassword
<1>8. ASSUME NEW u \in User, NEW password, Login(r, u, password) PROVE TypeOK'
  BY <1>0, <1>8, <1>b DEF Login, Operation, Stage, Kind
<1>9. ASSUME NEW u \in User, Register(r, u) PROVE TypeOK'
  BY <1>0, <1>9, <1>b DEF Register, Operation, Stage, Kind
<1>10. ASSUME NEW u \in User, FirebaseLogin(r, u) PROVE TypeOK'
  BY <1>0, <1>10, <1>b DEF FirebaseLogin, Operation, Stage, Kind
<1>11. ASSUME NEW u \in User, MobileLogin(r, u) PROVE TypeOK'
  BY <1>0, <1>11, <1>b DEF MobileLogin, Operation, Stage, Kind
<1>12. ASSUME NEW u \in User, ChangePassword(r, u) PROVE TypeOK'
  BY <1>0, <1>12, <1>b DEF ChangePassword, Operation, Stage, Kind
<1>13. ASSUME NEW u \in User, ToggleStatus(r, u) PROVE TypeOK'
  <2>1. (~account[u].active) \in BOOLEAN
    OBVIOUS
  <2>2. [Idle EXCEPT !.op = "toggleStatus", !.at = "toggle", !.user = u,
                     !.flag = ~account[u].active] \in Handler
    BY <2>1, IdleType DEF Handler, Operation
  <2>. QED BY <1>13, <1>a, <2>2, SetHandlerType DEF ToggleStatus
<1>14. ASSUME NEW u \in User, DeleteUser(r, u) PROVE TypeOK'
  BY <1>0, <1>14, <1>b DEF DeleteUser, Operation, Stage, Kind
<1>15. ASSUME NEW t \in 1..Tokens, Refresh(r, t) PROVE TypeOK'
  <2>1. (IF token[t].expired THEN "discard" ELSE "rotate") \in Stage /\ "refresh" \in Operation
    BY DEF Stage, Operation
  <2>. QED BY <1>15, <1>a, <2>1, HoldTokenType DEF Refresh
<1>16. ASSUME NEW t \in 1..Tokens, Logout(r, t) PROVE TypeOK'
  BY <1>16, SignedOutType DEF Logout, TypeOK
<1>17. ASSUME NEW t \in 1..Tokens, RevokeSession(r, t) PROVE TypeOK'
  BY <1>17, <1>a, HoldTokenType DEF RevokeSession, Stage, Operation
<1>. QED
  BY <1>1, <1>2, <1>3, <1>4, <1>5, <1>6, <1>7, <1>8, <1>9, <1>10, <1>11, <1>12, <1>13, <1>14,
     <1>15, <1>16, <1>17
  DEF Send, Prove, SignIn, Manage

LEMMA ContinueType ==
  ASSUME TypeOK, NEW r \in Request, workload' = workload, Continue(r)
  PROVE  TypeOK'
<1>0. req[r] \in Handler
  BY DEF TypeOK
<1>a. ASSUME req' \in [Request -> Handler], account' \in [User -> AccountRow],
             code' \in [1..Codes -> CodeRow], token' \in [1..Tokens -> TokenRow]
      PROVE  TypeOK'
  BY <1>a DEF TypeOK
<1>b. /\ account \in [User -> AccountRow] /\ code \in [1..Codes -> CodeRow]
      /\ token \in [1..Tokens -> TokenRow]
  BY DEF TypeOK
<1>c. ASSUME NEW at \in Stage, Goto(r, at) \/ Reply(r)
      PROVE  req' \in [Request -> Handler]
  BY <1>c, GotoType, ReplyType
<1>1. CASE Purge(r)
  BY <1>1, <1>a, <1>b, <1>c, WithoutType DEF Purge, Stage
<1>2. CASE InsertCode(r)
  <2>1. PICK c \in 1..Codes :
          code' = [code EXCEPT ![c] = [NoCode EXCEPT !.row = "live", !.user = req[r].user,
                                                     !.kind = req[r].kind, !.fresh = TRUE]]
    BY <1>2 DEF InsertCode
  <2>2. [NoCode EXCEPT !.row = "live", !.user = req[r].user, !.kind = req[r].kind, !.fresh = TRUE]
          \in CodeRow
    BY <1>0, NoCodeType DEF Handler, CodeRow
  <2>3. code' \in [1..Codes -> CodeRow]
    BY <1>b, <2>1, <2>2
  <2>. QED BY <1>2, <1>a, <1>b, <2>3, ReplyType DEF InsertCode
<1>3. CASE CountAttempt(r)
  <2>. DEFINE c == req[r].code
  <2>1. \A n, m \in Nat : [code EXCEPT ![c].attempts = n, ![c].tries = m] \in [1..Codes -> CodeRow]
    BY <1>b, CodeUpdateType
  <2>2. \/ code' = code
        \/ c \in 1..Codes /\ code' = [code EXCEPT ![c].attempts = code[c].attempts + 1,
                        ![c].tries = IF req[r].op = "resetPassword" THEN code[c].tries ELSE code[c].tries + 1]
    BY <1>3, <1>b DEF CountAttempt
  <2>3. code' \in [1..Codes -> CodeRow]
    <3>1. c \in 1..Codes => code[c].attempts \in Nat /\ code[c].tries \in Nat
      BY <1>b DEF CodeRow
    <3>2. c \in 1..Codes => /\ code[c].attempts + 1 \in Nat
                           /\ (IF req[r].op = "resetPassword" THEN code[c].tries ELSE code[c].tries + 1) \in Nat
      BY <3>1
    <3>. QED BY <1>b, <2>1, <2>2, <3>2
  <2>. QED BY <1>3, <1>a, <1>b, <2>3, ReplyType DEF CountAttempt
<1>4. CASE ConsumeCode(r)
  BY <1>4, <1>a, <1>b, <1>c, UsedType DEF ConsumeCode, Stage
<1>5. CASE FindOwner(r)
  BY <1>5, <1>a, <1>b, <1>c DEF FindOwner, Stage
<1>6. CASE ConfirmEmail(r)
  <2>1. ASSUME NEW u, account' = [account EXCEPT ![u].emailVerified = TRUE]
        PROVE  account' \in [User -> AccountRow]
    BY <1>b, <2>1 DEF AccountRow
  <2>. QED BY <1>6, <1>a, <1>b, <1>c, <2>1, UsedType DEF ConfirmEmail, Stage
<1>p. ASSUME NEW u, account[u].password < Passwords, u \in User,
             account' = [account EXCEPT ![u].password = @ + 1]
      PROVE  account' \in [User -> AccountRow]
  <2>1. account[u].password + 1 \in 0..Passwords
    BY <1>b, <1>p, BoundsAssumption DEF AccountRow
  <2>. QED BY <1>b, <1>p, <2>1 DEF AccountRow
<1>q. ASSUME NEW u, u \notin User, account' = [account EXCEPT ![u].password = @ + 1]
      PROVE  account' \in [User -> AccountRow]
  BY <1>b, <1>q
<1>7. CASE ResetWrite(r)
  BY <1>7, <1>a, <1>b, <1>c, <1>p, <1>q, UsedType, SignedOutType, ReplyType DEF ResetWrite
<1>8. CASE ChangeWrite(r)
  BY <1>8, <1>a, <1>b, <1>p, <1>q, SignedOutType, ReplyType DEF ChangeWrite
<1>9. CASE CreateUser(r)
  BY <1>9, <1>a, <1>b, <1>c, NewAccountType, AccountType DEF CreateUser, Stage
<1>10. CASE IssueToken(r)
  <2>1. [NoToken EXCEPT !.row = "live", !.user = req[r].user, !.parent = req[r].token] \in TokenRow
    BY <1>0 DEF NoToken, TokenRow, Handler
  <2>2. token' \in [1..Tokens -> TokenRow]
    BY <1>10, <1>b, <2>1 DEF IssueToken
  <2>. QED BY <1>10, <1>a, <1>b, <2>2, ReplyType DEF IssueToken
<1>11. CASE DiscardToken(r)
  BY <1>11, <1>a, <1>b, SignedOutType, ReplyType DEF DiscardToken
<1>12. CASE RotateToken(r)
  BY <1>12, <1>a, <1>b, <1>c, SignedOutType DEF RotateToken, Stage
<1>13. CASE RevokeDelete(r)
  BY <1>13, <1>a, <1>b, SignedOutType, ReplyType DEF RevokeDelete
<1>14. CASE ToggleWrite(r)
  <2>1. req[r].flag \in BOOLEAN
    BY <1>0 DEF Handler
  <2>2. account' \in [User -> AccountRow]
    BY <1>14, <1>b, <2>1 DEF ToggleWrite, AccountRow
  <2>. QED BY <1>14, <1>a, <1>b, <2>2, ReplyType DEF ToggleWrite
<1>15. CASE DeleteWrite(r)
  BY <1>15, <1>a, <1>b, NewAccountType, AccountType, SignedOutType, ReplyType DEF DeleteWrite
<1>. QED
  BY <1>1, <1>2, <1>3, <1>4, <1>5, <1>6, <1>7, <1>8, <1>9, <1>10, <1>11, <1>12, <1>13, <1>14, <1>15
  DEF Continue

LEMMA TimeType ==
  ASSUME TypeOK, workload' = workload, Time
  PROVE  TypeOK'
<1>1. ASSUME NEW c \in 1..Codes, CodeAges(c) PROVE TypeOK'
  <2>1. \A x, y \in BOOLEAN : [code EXCEPT ![c].fresh = x, ![c].expired = y] \in [1..Codes -> CodeRow]
    BY CodeUpdateType DEF TypeOK
  <2>2. (~code[c].fresh) \in BOOLEAN
    OBVIOUS
  <2>3. code' \in [1..Codes -> CodeRow]
    BY <1>1, <2>1, <2>2 DEF CodeAges
  <2>. QED BY <1>1, <2>3 DEF CodeAges, TypeOK
<1>2. ASSUME NEW t \in 1..Tokens, TokenExpires(t) PROVE TypeOK'
  <2>1. token' \in [1..Tokens -> TokenRow]
    BY <1>2 DEF TokenExpires, TypeOK, TokenRow
  <2>. QED BY <1>2, <2>1 DEF TokenExpires, TypeOK
<1>. QED BY <1>1, <1>2 DEF Time

LEMMA TypeInit == Init => TypeOK
<1>. SUFFICES ASSUME Init PROVE TypeOK
  OBVIOUS
<1>1. NoToken \in TokenRow
  BY BoundsAssumption DEF NoToken, TokenRow
<1>2. NewAccount \in AccountRow /\ [NewAccount EXCEPT !.row = "absent"] \in AccountRow
  BY NewAccountType DEF AccountRow
<1>3. account \in [User -> AccountRow]
  BY <1>2 DEF Init
<1>. QED BY <1>1, <1>3, NoCodeType, IdleType DEF Init, TypeOK

LEMMA TypeStep == TypeOK /\ [Next]_vars => TypeOK'
<1>. SUFFICES ASSUME TypeOK, [Next]_vars PROVE TypeOK'
  OBVIOUS
<1>1. CASE UNCHANGED vars
  BY <1>1 DEF vars, TypeOK
<1>2. CASE Next
  <2>1. workload' = workload
    BY <1>2 DEF Next
  <2>2. ASSUME NEW r \in Request, Fail(r) PROVE TypeOK'
    BY <2>1, <2>2, ReplyType DEF Fail, TypeOK
  <2>. QED BY <1>2, <2>1, <2>2, StartType, ContinueType, TimeType DEF Next
<1>. QED BY <1>1, <1>2

\* The tables and handlers of sign-in keep their shapes in every behaviour.
THEOREM TypeCorrect == Spec => []TypeOK
BY TypeInit, TypeStep, PTL DEF Spec

-----------------------------------------------------------------------------
(* Codes are used once *)

\* A code that can still be used has bought nothing.
CodeUsed == \A c \in 1..Codes : code[c].uses <= 1 /\ (code[c].row # "gone" => code[c].uses = 0)

LEMMA CodeUsedStep ==
  ASSUME TypeOK, CodeUsed, [Next]_vars
  PROVE  CodeUsed'
<1>0. code \in [1..Codes -> CodeRow] /\ (\A c \in 1..Codes : code[c].uses \in Nat)
  BY DEF TypeOK, CodeRow
<1>k. ASSUME code' = code PROVE CodeUsed'
  BY <1>k DEF CodeUsed
<1>w. ASSUME NEW S, code' = Without(S) PROVE CodeUsed'
  BY <1>w, GoneType DEF CodeUsed, Without
<1>u. ASSUME NEW c, Live(c), code' = Used(c) PROVE CodeUsed'
  <2>1. CASE c \in 1..Codes
    <3>1. [Gone(c) EXCEPT !.uses = @ + 1].uses = Gone(c).uses + 1
          /\ [Gone(c) EXCEPT !.uses = @ + 1].row = "gone"
      BY <2>1, GoneType DEF CodeRow
    <3>2. Gone(c).uses = 0
      BY <2>1, <1>u, GoneType DEF CodeUsed, Live
    <3>. QED BY <1>0, <1>u, <2>1, <3>1, <3>2 DEF CodeUsed, Used
  <2>2. CASE c \notin 1..Codes
    BY <1>0, <1>u, <2>2, <1>k DEF Used
  <2>. QED BY <2>1, <2>2
<1>1. CASE UNCHANGED vars
  BY <1>1, <1>k DEF vars
<1>2. ASSUME NEW r \in Request, Send(r) \/ Prove(r) \/ SignIn(r) \/ Manage(r) \/ Fail(r) PROVE CodeUsed'
  BY <1>2, <1>k DEF Send, Prove, SignIn, Manage, Fail, SendOtp, SendEmailOtp, ForgotPassword,
     ResendEmailOtp, VerifyOtp, VerifyEmailOtp, ResetPassword, Login, Register, FirebaseLogin,
     MobileLogin, ChangePassword, ToggleStatus, DeleteUser, Refresh, Logout, RevokeSession
<1>3. ASSUME NEW r \in Request, Continue(r) PROVE CodeUsed'
  <2>1. CASE Purge(r)
    BY <2>1, <1>w DEF Purge
  <2>2. CASE InsertCode(r)
    <3>1. PICK c \in 1..Codes :
            code' = [code EXCEPT ![c] = [NoCode EXCEPT !.row = "live", !.user = req[r].user,
                                                       !.kind = req[r].kind, !.fresh = TRUE]]
      BY <2>2 DEF InsertCode
    <3>2. [NoCode EXCEPT !.row = "live", !.user = req[r].user, !.kind = req[r].kind,
                         !.fresh = TRUE].uses = 0
      BY NoCodeType DEF CodeRow
    <3>. QED BY <1>0, <3>1, <3>2 DEF CodeUsed
  <2>3. CASE CountAttempt(r)
    <3>1. \A c \in 1..Codes : code'[c].uses = code[c].uses /\ code'[c].row = code[c].row
      BY <1>0, <2>3 DEF CountAttempt, CodeRow
    <3>. QED BY <3>1 DEF CodeUsed
  <2>4. CASE ConsumeCode(r)
    BY <2>4, <1>u, <1>k DEF ConsumeCode
  <2>5. CASE ConfirmEmail(r)
    BY <2>5, <1>u, <1>k DEF ConfirmEmail
  <2>6. CASE ResetWrite(r)
    BY <2>6, <1>u, <1>k DEF ResetWrite
  <2>7. CASE FindOwner(r) \/ ChangeWrite(r) \/ CreateUser(r) \/ IssueToken(r) \/ DiscardToken(r)
             \/ RotateToken(r) \/ RevokeDelete(r) \/ ToggleWrite(r) \/ DeleteWrite(r)
    BY <2>7, <1>k DEF FindOwner, ChangeWrite, CreateUser, IssueToken, DiscardToken, RotateToken,
       RevokeDelete, ToggleWrite, DeleteWrite
  <2>. QED BY <1>3, <2>1, <2>2, <2>3, <2>4, <2>5, <2>6, <2>7 DEF Continue
<1>4. CASE Time
  <2>1. ASSUME NEW c \in 1..Codes, CodeAges(c) PROVE CodeUsed'
    <3>1. \A d \in 1..Codes : code'[d].uses = code[d].uses /\ code'[d].row = code[d].row
      BY <1>0, <2>1 DEF CodeAges, CodeRow
    <3>. QED BY <3>1 DEF CodeUsed
  <2>. QED BY <1>4, <2>1, <1>k DEF Time, TokenExpires
<1>. QED BY <1>1, <1>2, <1>3, <1>4 DEF Next

-----------------------------------------------------------------------------
(* Refresh tokens are rotated once *)

\* The handler has taken a token out of the table, to issue the next one.
Holds(r) == req[r].at = "issue" /\ req[r].token # 0

\* A token that is held or has a successor is gone; it is held by one handler
\* only, and then has no successor yet.
Rotation ==
  /\ \A s \in 1..Tokens : token[s].row = "absent" => token[s].parent = 0
  /\ \A s \in 1..Tokens : token[s].parent # 0 => token[token[s].parent].row = "gone"
  /\ \A r \in Request : req[r].at \in {"consume", "owner", "confirm", "create"} => req[r].token = 0
  /\ \A r \in Request : Holds(r) => /\ token[req[r].token].row = "gone"
                                   /\ \A s \in 1..Tokens : token[s].parent # req[r].token
  /\ \A q, r \in Request : Holds(q) /\ Holds(r) /\ req[q].token = req[r].token => q = r
  /\ RotationIsLinear

\* Steps after which every token has the same parent, no token comes back, and
\* no handler holds a token that it did not hold before.
LEMMA RotationKept ==
  ASSUME TypeOK, TypeOK', Rotation,
         \A t \in 1..Tokens : /\ token'[t].parent = token[t].parent
                              /\ token[t].row = "gone" => token'[t].row = "gone"
                              /\ token'[t].row = "absent" => token[t].row = "absent",
         \A q \in Request : \/ req'[q] = req[q] \/ req'[q].token = 0
                            \/ req'[q].at \notin {"consume", "owner", "confirm", "create", "issue"}
  PROVE  Rotation'
<1>0. /\ \A s \in 1..Tokens : token[s].parent \in 0..Tokens
      /\ \A q \in Request : req[q].token \in 0..Tokens /\ req'[q].token \in 0..Tokens
  BY DEF TypeOK, TokenRow, Handler
<1>1. \A q \in Request : Holds(q)' => Holds(q) /\ req'[q].token = req[q].token
  BY DEF Holds
<1>2. \A s \in 1..Tokens : token'[s].row = "absent" => token'[s].parent = 0
  BY DEF Rotation
<1>3. \A s \in 1..Tokens : token'[s].parent # 0 => token'[token'[s].parent].row = "gone"
  BY <1>0, BoundsAssumption DEF Rotation
<1>4. \A q \in Request : req'[q].at \in {"consume", "owner", "confirm", "create"} => req'[q].token = 0
  BY DEF Rotation
<1>5. ASSUME NEW q \in Request, Holds(q)'
      PROVE  token'[req'[q].token].row = "gone" /\ \A s \in 1..Tokens : token'[s].parent # req'[q].token
  <2>1. Holds(q) /\ req'[q].token = req[q].token /\ req[q].token \in 1..Tokens
    BY <1>0, <1>1, <1>5, BoundsAssumption DEF Holds
  <2>. QED BY <2>1 DEF Rotation
<1>6. \A q, r \in Request : Holds(q)' /\ Holds(r)' /\ req'[q].token = req'[r].token => q = r
  BY <1>1 DEF Rotation
<1>7. RotationIsLinear'
  BY DEF Rotation, RotationIsLinear
<1>. QED BY <1>2, <1>3, <1>4, <1>5, <1>6, <1>7 DEF Rotation

\* What a step does to one handler.
LEMMA BeginsHandler ==
  ASSUME TypeOK, NEW r \in Request, NEW op, NEW at, NEW u, NEW k, NEW c, Begin(r, op, at, u, k, c)
  PROVE  /\ req'[r].op = op /\ req'[r].at = at /\ req'[r].user = u /\ req'[r].kind = k
         /\ req'[r].code = c /\ req'[r].token = 0
         /\ \A q \in Request : q # r => req'[q] = req[q]
BY DEF TypeOK, Begin, Idle

LEMMA RepliesHandler ==
  ASSUME TypeOK, NEW r \in Request, Reply(r)
  PROVE  /\ req'[r] = Idle /\ Idle.op = "idle" /\ Idle.at = "" /\ Idle.token = 0
         /\ \A q \in Request : q # r => req'[q] = req[q]
BY DEF TypeOK, Reply, Idle

LEMMA GoesOn ==
  ASSUME TypeOK, NEW r \in Request, NEW at, Goto(r, at)
  PROVE  /\ req'[r].op = req[r].op /\ req'[r].at = at /\ req'[r].user = req[r].user
         /\ req'[r].kind = req[r].kind /\ req'[r].code = req[r].code /\ req'[r].token = req[r].token
         /\ \A q \in Request : q # r => req'[q] = req[q]
BY DEF TypeOK, Goto, Handler

LEMMA HoldsHandler ==
  ASSUME TypeOK, NEW r \in Request, NEW op, NEW at, NEW t, HoldToken(r, op, at, t)
  PROVE  /\ req'[r].op = op /\ req'[r].at = at /\ req'[r].token = t /\ req'[r].user = token[t].user
         /\ \A q \in Request : q # r => req'[q] = req[q]
BY DEF TypeOK, HoldToken, Idle

\* Signing out takes tokens away and leaves their descent.
LEMMA SignsOut ==
  ASSUME TypeOK, NEW S, token' = SignedOut(S)
  PROVE  \A t \in 1..Tokens : /\ token'[t].parent = token[t].parent
                              /\ token[t].row = "gone" => token'[t].row = "gone"
                              /\ token'[t].row = "absent" => token[t].row = "absent"
                              /\ t \in S => token'[t].row = "gone"
BY DEF TypeOK, SignedOut, NoToken

LEMMA RotationStep ==
  ASSUME TypeOK, TypeOK', Rotation, [Next]_vars
  PROVE  Rotation'
<1>t. ASSUME token' = token
      PROVE  \A t \in 1..Tokens : /\ token'[t].parent = token[t].parent
                                  /\ token[t].row = "gone" => token'[t].row = "gone"
                                  /\ token'[t].row = "absent" => token[t].row = "absent"
  BY <1>t
<1>0. \A r \in Request : req[r].at \in {"consume", "owner", "confirm", "create"} => req[r].token = 0
  BY DEF Rotation
<1>1. CASE UNCHANGED vars
  BY <1>1, <1>t, RotationKept DEF vars
<1>2. ASSUME NEW r \in Request, Send(r) \/ Prove(r) \/ SignIn(r) PROVE Rotation'
  <2>1. PICK op, at, u, k, c : Begin(r, op, at, u, k, c)
    BY <1>2 DEF Send, Prove, SignIn, SendOtp, SendEmailOtp, ForgotPassword, ResendEmailOtp,
       VerifyOtp, VerifyEmailOtp, ResetPassword, Login, Register, FirebaseLogin, MobileLogin
  <2>2. token' = token
    BY <1>2 DEF Send, Prove, SignIn, SendOtp, SendEmailOtp, ForgotPassword, ResendEmailOtp,
       VerifyOtp, VerifyEmailOtp, ResetPassword, Login, Register, FirebaseLogin, MobileLogin
  <2>. QED BY <2>1, <2>2, <1>t, BeginsHandler, RotationKept
<1>3. ASSUME NEW r \in Request, Manage(r) PROVE Rotation'
  <2>1. ASSUME NEW u \in User, ChangePassword(r, u) \/ DeleteUser(r, u) PROVE Rotation'
    BY <2>1, <1>t, BeginsHandler, RotationKept DEF ChangePassword, DeleteUser
  <2>2. ASSUME NEW u \in User, ToggleStatus(r, u) PROVE Rotation'
    <3>1. req'[r].token = 0 /\ \A q \in Request : q # r => req'[q] = req[q]
      BY <2>2 DEF ToggleStatus, Idle, TypeOK
    <3>. QED BY <2>2, <3>1, <1>t, RotationKept DEF ToggleStatus
  <2>3. ASSUME NEW t \in 1..Tokens, Refresh(r, t) PROVE Rotation'
    BY <2>3, <1>t, HoldsHandler, RotationKept DEF Refresh
  <2>4. ASSUME NEW t \in 1..Tokens, Logout(r, t) PROVE Rotation'
    BY <2>4, SignsOut, RotationKept DEF Logout
  <2>5. ASSUME NEW t \in 1..Tokens, RevokeSession(r, t) PROVE Rotation'
    BY <2>5, <1>t, HoldsHandler, RotationKept DEF RevokeSession
  <2>. QED BY <1>3, <2>1, <2>2, <2>3, <2>4, <2>5 DEF Manage
<1>4. ASSUME NEW r \in Request, Fail(r) PROVE Rotation'
  BY <1>4, <1>t, RepliesHandler, RotationKept DEF Fail
<1>5. ASSUME NEW r \in Request, Continue(r) PROVE Rotation'
  <2>1. CASE Purge(r)
    BY <2>1, <1>t, GoesOn, RotationKept DEF Purge
  <2>2. CASE InsertCode(r) \/ CountAttempt(r) \/ ToggleWrite(r)
    BY <2>2, <1>t, RepliesHandler, RotationKept DEF InsertCode, CountAttempt, ToggleWrite
  <2>3. CASE ConsumeCode(r)
    BY <2>3, <1>0, <1>t, RepliesHandler, GoesOn, RotationKept DEF ConsumeCode, Running
  <2>4. CASE FindOwner(r)
    BY <2>4, <1>0, <1>t, RepliesHandler, GoesOn, RotationKept DEF FindOwner, Running
  <2>5. CASE ConfirmEmail(r)
    BY <2>5, <1>0, <1>t, RepliesHandler, GoesOn, RotationKept DEF ConfirmEmail, Running
  <2>6. CASE ResetWrite(r)
    BY <2>6, <1>t, RepliesHandler, SignsOut, RotationKept DEF ResetWrite
  <2>7. CASE ChangeWrite(r)
    BY <2>7, <1>t, RepliesHandler, SignsOut, RotationKept DEF ChangeWrite
  <2>8. CASE CreateUser(r)
    <3>1. \A q \in Request : \/ req'[q] = req[q] \/ req'[q].token = 0
                            \/ req'[q].at \notin {"consume", "owner", "confirm", "create", "issue"}
      BY <2>8, <1>0, RepliesHandler, GoesOn DEF CreateUser, Running
    <3>2. token' = token
      BY <2>8 DEF CreateUser
    <3>. QED BY <1>t, <3>1, <3>2, RotationKept
  <2>9. CASE DiscardToken(r) \/ RevokeDelete(r)
    BY <2>9, RepliesHandler, SignsOut, RotationKept DEF DiscardToken, RevokeDelete
  <2>10. CASE DeleteWrite(r)
    BY <2>10, <1>t, RepliesHandler, SignsOut, RotationKept DEF DeleteWrite
  <2>11. CASE IssueToken(r)
    <3>1. CASE token' = token
      BY <2>11, <3>1, <1>t, RepliesHandler, RotationKept DEF IssueToken
    <3>2. ASSUME NEW t \in 1..Tokens, token[t].row = "absent",
                 token' = [token EXCEPT ![t] = [NoToken EXCEPT !.row = "live",
                                                  !.user = req[r].user, !.parent = req[r].token]]
          PROVE  Rotation'
      <4>0. /\ \A s \in 1..Tokens : token[s].parent \in 0..Tokens
            /\ req[r].token \in 0..Tokens
        BY DEF TypeOK, TokenRow, Handler
      <4>1. /\ token'[t].row = "live" /\ token'[t].parent = req[r].token
            /\ \A s \in 1..Tokens : s # t => token'[s] = token[s]
        BY <3>2 DEF TypeOK, NoToken
      <4>2. \A q \in Request : Holds(q)' => Holds(q) /\ req'[q] = req[q] /\ q # r
        BY <2>11, RepliesHandler DEF Holds, IssueToken
      <4>3. req[r].token # 0 => Holds(r)
        BY <2>11 DEF IssueToken, Running, Holds
      <4>4. \A s \in 1..Tokens : token'[s].row = "absent" => token'[s].parent = 0
        BY <4>1 DEF Rotation
      <4>5. \A s \in 1..Tokens : token[s].row = "gone" => token'[s].row = "gone"
        BY <3>2, <4>1
      <4>6. ASSUME NEW s \in 1..Tokens, token'[s].parent # 0
            PROVE  token'[token'[s].parent].row = "gone"
        <5>1. token'[s].parent \in 1..Tokens /\ token[token'[s].parent].row = "gone"
          BY <4>0, <4>1, <4>3, <4>6, BoundsAssumption DEF Rotation
        <5>. QED BY <5>1, <4>5
      <4>7. \A q \in Request : req'[q].at \in {"consume", "owner", "confirm", "create"} => req'[q].token = 0
        BY <2>11, <1>0, RepliesHandler DEF IssueToken
      <4>8. ASSUME NEW q \in Request, Holds(q)'
            PROVE  token'[req'[q].token].row = "gone" /\ \A s \in 1..Tokens : token'[s].parent # req'[q].token
        <5>0. Holds(q) /\ req'[q] = req[q] /\ q # r /\ req[q].token \in 0..Tokens
          BY <4>2, <4>8 DEF TypeOK, Handler
        <5>1. /\ Holds(q) /\ req'[q] = req[q] /\ q # r /\ req[q].token \in 1..Tokens
              /\ token[req[q].token].row = "gone"
              /\ \A s \in 1..Tokens : token[s].parent # req[q].token
          BY <5>0, BoundsAssumption DEF Rotation, Holds
        <5>2. req[r].token # req[q].token
          BY <5>1, <4>3 DEF Rotation, Holds
        <5>. QED BY <5>1, <5>2, <4>1, <4>5
      <4>9. \A p, q \in Request : Holds(p)' /\ Holds(q)' /\ req'[p].token = req'[q].token => p = q
        BY <4>2 DEF Rotation
      <4>10. RotationIsLinear'
        <5>1. req[r].token # 0 => \A s \in 1..Tokens : token[s].parent # req[r].token
          BY <4>3 DEF Rotation
        <5>. QED BY <5>1, <4>1 DEF Rotation, RotationIsLinear
      <4>. QED BY <4>4, <4>6, <4>7, <4>8, <4>9, <4>10 DEF Rotation
    <3>. QED BY <2>11, <3>1, <3>2 DEF IssueToken
  <2>12. CASE RotateToken(r)
    <3>. DEFINE t == req[r].token
    <3>1. CASE token' = token /\ Reply(r)
      BY <3>1, <1>t, RepliesHandler, RotationKept
    <3>2. CASE token' = SignedOut({t}) /\ Goto(r, "issue") /\ t = 0
      BY <3>2, GoesOn, SignsOut, RotationKept
    <3>3. CASE token' = SignedOut({t}) /\ Goto(r, "issue") /\ token[t].row = "live" /\ t # 0
      <4>a. \A q \in Request : req[q].token \in 0..Tokens
        BY DEF TypeOK, Handler
      <4>b. \A s \in 1..Tokens : token[s].parent \in 0..Tokens
        BY DEF TypeOK, TokenRow
      <4>0. /\ t \in 1..Tokens /\ \A s \in 1..Tokens : token[s].parent \in 0..Tokens
            /\ \A q \in Request : req[q].token \in 0..Tokens
        BY <3>3, <4>a, <4>b, BoundsAssumption
      <4>1. /\ \A s \in 1..Tokens : /\ token'[s].parent = token[s].parent
                                    /\ token[s].row = "gone" => token'[s].row = "gone"
                                    /\ token'[s].row = "absent" => token[s].row = "absent"
            /\ token'[t].row = "gone"
        BY <3>3, <4>0, SignsOut
      <4>2. req'[r].at = "issue" /\ req'[r].token = t /\ \A q \in Request : q # r => req'[q] = req[q]
        BY <3>3, GoesOn
      <4>3. \A s \in 1..Tokens : token[s].parent # t
        BY <3>3, <4>0 DEF Rotation
      <4>4. \A q \in Request : Holds(q) => req[q].token # t
        BY <3>3 DEF Rotation
      <4>5. \A q \in Request : Holds(q)' => q = r \/ (Holds(q) /\ req'[q] = req[q])
        BY <4>2 DEF Holds
      <4>6. \A s \in 1..Tokens : token'[s].row = "absent" => token'[s].parent = 0
        BY <4>1 DEF Rotation
      <4>7. \A s \in 1..Tokens : token'[s].parent # 0 => token'[token'[s].parent].row = "gone"
        BY <4>0, <4>1, BoundsAssumption DEF Rotation
      <4>8. \A q \in Request : req'[q].at \in {"consume", "owner", "confirm", "create"} => req'[q].token = 0
        BY <1>0, <4>2
      <4>9. ASSUME NEW q \in Request, Holds(q)'
            PROVE  token'[req'[q].token].row = "gone" /\ \A s \in 1..Tokens : token'[s].parent # req'[q].token
        <5>1. CASE q = r
          BY <5>1, <4>1, <4>2, <4>3
        <5>2. CASE q # r
          <6>1. Holds(q) /\ req'[q] = req[q] /\ req[q].token \in 1..Tokens
            BY <5>2, <4>0, <4>5, <4>9, BoundsAssumption DEF Holds
          <6>. QED BY <6>1, <4>1 DEF Rotation
        <5>. QED BY <5>1, <5>2
      <4>10. \A p, q \in Request : Holds(p)' /\ Holds(q)' /\ req'[p].token = req'[q].token => p = q
        BY <4>2, <4>4, <4>5 DEF Rotation
      <4>11. RotationIsLinear'
        BY <4>1 DEF Rotation, RotationIsLinear
      <4>. QED BY <4>6, <4>7, <4>8, <4>9, <4>10, <4>11 DEF Rotation
    <3>. QED BY <2>12, <3>1, <3>2, <3>3 DEF RotateToken
  <2>. QED BY <1>5, <2>1, <2>2, <2>3, <2>4, <2>5, <2>6, <2>7, <2>8, <2>9, <2>10, <2>11, <2>12 DEF Continue
<1>6. CASE Time
  <2>1. ASSUME NEW c \in 1..Codes, CodeAges(c) PROVE Rotation'
    BY <2>1, <1>t, RotationKept DEF CodeAges
  <2>2. ASSUME NEW t \in 1..Tokens, TokenExpires(t) PROVE Rotation'
    <3>1. \A s \in 1..Tokens : token'[s].parent = token[s].parent /\ token'[s].row = token[s].row
      BY <2>2 DEF TokenExpires, TypeOK, TokenRow
    <3>. QED BY <2>2, <3>1, RotationKept DEF TokenExpires
  <2>. QED BY <1>6, <2>1, <2>2 DEF Time
<1>. QED BY <1>1, <1>2, <1>3, <1>4, <1>5, <1>6 DEF Next

\* What may be used once is used once, under every interleaving of any number of
\* requests: one-time codes on the three paths that accept them, and refresh
\* tokens.
THEOREM UsedOnce == Spec => []OnceOnly
<1>1. Init => CodeUsed /\ Rotation
  <2>. SUFFICES ASSUME Init PROVE CodeUsed /\ Rotation
    OBVIOUS
  <2>1. CodeUsed
    BY NoCodeType DEF Init, CodeUsed
  <2>2. \A t \in 1..Tokens : token[t].row = "absent" /\ token[t].parent = 0
    BY DEF Init, NoToken
  <2>3. \A r \in Request : req[r].at = "" /\ req[r].token = 0
    BY DEF Init, Idle
  <2>. QED BY <2>1, <2>2, <2>3 DEF Rotation, RotationIsLinear, Holds
<1>2. TypeOK /\ CodeUsed /\ Rotation /\ [Next]_vars => TypeOK' /\ CodeUsed' /\ Rotation'
  BY TypeStep, CodeUsedStep, RotationStep
<1>3. CodeUsed /\ Rotation => OnceOnly
  BY DEF CodeUsed, Rotation, OnceOnly, CodeBuysOnce
<1>. QED BY <1>1, <1>2, <1>3, TypeInit, PTL DEF Spec

-----------------------------------------------------------------------------
(* The guesses at a code, the codes of an address, and the end of sessions *)

\* Who a code waits for, and that it waits, at a step that sends none.
NoNewCode ==
  \A c \in 1..Codes : code'[c].row = "live" =>
    code[c].row = "live" /\ code'[c].user = code[c].user /\ code'[c].kind = code[c].kind

\* No step but the insertion makes a code.
LEMMA OnlyInsertSends ==
  ASSUME TypeOK, [Next]_vars, \A r \in Request : ~InsertCode(r)
  PROVE  NoNewCode
<1>0. code \in [1..Codes -> CodeRow]
  BY DEF TypeOK
<1>k. ASSUME code' = code PROVE NoNewCode
  BY <1>k DEF NoNewCode
<1>w. ASSUME NEW S, code' = Without(S) PROVE NoNewCode
  BY <1>w, GoneType DEF NoNewCode, Without
<1>u. ASSUME NEW c, code' = Used(c) PROVE NoNewCode
  <2>1. c \in 1..Codes => [Gone(c) EXCEPT !.uses = @ + 1].row = "gone"
    BY GoneType DEF CodeRow
  <2>. QED BY <1>0, <1>u, <2>1 DEF NoNewCode, Used
<1>1. CASE UNCHANGED vars
  BY <1>1, <1>k DEF vars
<1>2. ASSUME NEW r \in Request, Send(r) \/ Prove(r) \/ SignIn(r) \/ Manage(r) \/ Fail(r) PROVE NoNewCode
  BY <1>2, <1>k DEF Send, Prove, SignIn, Manage, Fail, SendOtp, SendEmailOtp, ForgotPassword,
     ResendEmailOtp, VerifyOtp, VerifyEmailOtp, ResetPassword, Login, Register, FirebaseLogin,
     MobileLogin, ChangePassword, ToggleStatus, DeleteUser, Refresh, Logout, RevokeSession
<1>3. ASSUME NEW r \in Request, Continue(r) PROVE NoNewCode
  <2>1. CASE Purge(r)
    BY <2>1, <1>w DEF Purge
  <2>2. CASE CountAttempt(r)
    <3>1. \A c \in 1..Codes : /\ code'[c].row = code[c].row /\ code'[c].user = code[c].user
                             /\ code'[c].kind = code[c].kind
      BY <1>0, <2>2 DEF CountAttempt, CodeRow
    <3>. QED BY <3>1 DEF NoNewCode
  <2>3. CASE ConsumeCode(r) \/ ConfirmEmail(r) \/ ResetWrite(r)
    BY <2>3, <1>u, <1>k DEF ConsumeCode, ConfirmEmail, ResetWrite
  <2>4. CASE FindOwner(r) \/ ChangeWrite(r) \/ CreateUser(r) \/ IssueToken(r) \/ DiscardToken(r)
             \/ RotateToken(r) \/ RevokeDelete(r) \/ ToggleWrite(r) \/ DeleteWrite(r)
    BY <2>4, <1>k DEF FindOwner, ChangeWrite, CreateUser, IssueToken, DiscardToken, RotateToken,
       RevokeDelete, ToggleWrite, DeleteWrite
  <2>. QED BY <1>3, <2>1, <2>2, <2>3, <2>4 DEF Continue
<1>4. CASE Time
  <2>1. ASSUME NEW c \in 1..Codes, CodeAges(c) PROVE NoNewCode
    <3>1. \A d \in 1..Codes : /\ code'[d].row = code[d].row /\ code'[d].user = code[d].user
                             /\ code'[d].kind = code[d].kind
      BY <1>0, <2>1 DEF CodeAges, CodeRow
    <3>. QED BY <3>1 DEF NoNewCode
  <2>. QED BY <1>4, <2>1, <1>k DEF Time, TokenExpires
<1>. QED BY <1>1, <1>2, <1>3, <1>4 DEF Next

-----------------------------------------------------------------------------
(* One request at a time *)

\* When requests do not overlap, at most one handler is running.
Alone == ~workload.overlap => \A q, r \in Request : req[q] # Idle /\ req[r] # Idle => q = r

LEMMA AloneKept ==
  ASSUME Alone, workload' = workload, NEW r \in Request,
         \A q \in Request : q # r => req'[q] = req[q],
         workload.overlap \/ req[r] # Idle \/ \A q \in Request : req[q] = Idle
  PROVE  Alone'
<1>. SUFFICES ASSUME ~workload.overlap, NEW p \in Request, NEW q \in Request,
                     req'[p] # Idle, req'[q] # Idle
              PROVE  p = q
  BY DEF Alone
<1>1. \A s, t \in Request : req[s] # Idle /\ req[t] # Idle => s = t
  BY DEF Alone
<1>2. req[r] # Idle \/ \A s \in Request : req[s] = Idle
  OBVIOUS
<1>. QED BY <1>1, <1>2

LEMMA RunningIsBusy ==
  ASSUME NEW r, NEW at, Running(r, at)
  PROVE  req[r] # Idle
<1>1. Idle.op = "idle"
  BY DEF Idle
<1>. QED BY <1>1 DEF Running

\* Who moves, and that the others stay.
LEMMA OneMoves ==
  ASSUME TypeOK, NEW r \in Request,
         Send(r) \/ Prove(r) \/ SignIn(r) \/ Manage(r) \/ Continue(r) \/ Fail(r)
  PROVE  /\ \A q \in Request : q # r => req'[q] = req[q]
         /\ workload.overlap \/ req[r] # Idle \/ \A q \in Request : req[q] = Idle
<1>1. CASE Send(r) \/ Prove(r) \/ SignIn(r)
  <2>1. PICK op, at, u, k, c : Begin(r, op, at, u, k, c)
    BY <1>1 DEF Send, Prove, SignIn, SendOtp, SendEmailOtp, ForgotPassword, ResendEmailOtp,
       VerifyOtp, VerifyEmailOtp, ResetPassword, Login, Register, FirebaseLogin, MobileLogin
  <2>2. PICK o : Accept(r, o)
    BY <1>1 DEF Send, Prove, SignIn, SendOtp, SendEmailOtp, ForgotPassword, ResendEmailOtp,
       VerifyOtp, VerifyEmailOtp, ResetPassword, Login, Register, FirebaseLogin, MobileLogin
  <2>. QED BY <2>1, <2>2, BeginsHandler DEF Accept
<1>2. CASE Manage(r)
  <2>1. PICK op : Accept(r, op)
    BY <1>2 DEF Manage, ChangePassword, ToggleStatus, DeleteUser, Refresh, Logout, RevokeSession
  <2>2. req' = req \/ \E h : req' = [req EXCEPT ![r] = h]
    BY <1>2 DEF Manage, ChangePassword, ToggleStatus, DeleteUser, Refresh, Logout, RevokeSession,
       Begin, HoldToken
  <2>. QED BY <2>1, <2>2 DEF Accept, TypeOK
<1>3. CASE Continue(r)
  <2>1. Reply(r) \/ \E at : Goto(r, at)
    BY <1>3 DEF Continue, Purge, InsertCode, CountAttempt, ConsumeCode, FindOwner, ConfirmEmail,
       ResetWrite, ChangeWrite, CreateUser, IssueToken, DiscardToken, RotateToken, RevokeDelete,
       ToggleWrite, DeleteWrite
  <2>2. \E at : Running(r, at)
    BY <1>3 DEF Continue, Purge, InsertCode, CountAttempt, ConsumeCode, FindOwner, ConfirmEmail,
       ResetWrite, ChangeWrite, CreateUser, IssueToken, DiscardToken, RotateToken, RevokeDelete,
       ToggleWrite, DeleteWrite
  <2>. QED BY <2>1, <2>2, RunningIsBusy, RepliesHandler, GoesOn
<1>4. CASE Fail(r)
  BY <1>4, RepliesHandler DEF Fail
<1>. QED BY <1>1, <1>2, <1>3, <1>4

LEMMA AloneStep == TypeOK /\ Alone /\ [Next]_vars => Alone'
<1>. SUFFICES ASSUME TypeOK, Alone, [Next]_vars PROVE Alone'
  OBVIOUS
<1>1. CASE UNCHANGED vars
  BY <1>1 DEF vars, Alone
<1>2. CASE Next /\ Time
  BY <1>2 DEF Next, Time, CodeAges, TokenExpires, Alone
<1>3. ASSUME NEW r \in Request, workload' = workload,
             Send(r) \/ Prove(r) \/ SignIn(r) \/ Manage(r) \/ Continue(r) \/ Fail(r)
      PROVE  Alone'
  BY <1>3, OneMoves, AloneKept
<1>. QED BY <1>1, <1>2, <1>3 DEF Next

-----------------------------------------------------------------------------
(* One code of a kind *)

\* Of each kind one code waits for an address, and none when one is about to be
\* sent.
OneWaits ==
  ~workload.overlap =>
    /\ \A c, d \in 1..Codes :
         Live(c) /\ Live(d) /\ code[c].user = code[d].user /\ code[c].kind = code[d].kind => c = d
    /\ \A r \in Request : req[r].at = "insert" => OfKind(req[r].user, req[r].kind) = {}

\* A handler that is about to send was so before, unless it has just purged.
LEMMA InsertAfterPurge ==
  ASSUME TypeOK, [Next]_vars, NEW r \in Request, req'[r].at = "insert", ~Purge(r)
  PROVE  req'[r] = req[r]
<1>1. CASE UNCHANGED vars \/ Time
  BY <1>1 DEF vars, Time, CodeAges, TokenExpires
<1>2. ASSUME NEW q \in Request, q # r,
             Send(q) \/ Prove(q) \/ SignIn(q) \/ Manage(q) \/ Continue(q) \/ Fail(q)
      PROVE  req'[r] = req[r]
  BY <1>2, OneMoves
<1>3. CASE Send(r) \/ Prove(r) \/ SignIn(r)
  <2>1. PICK op, at, u, k, c : Begin(r, op, at, u, k, c) /\ at # "insert"
    BY <1>3 DEF Send, Prove, SignIn, SendOtp, SendEmailOtp, ForgotPassword, ResendEmailOtp,
       VerifyOtp, VerifyEmailOtp, ResetPassword, Login, Register, FirebaseLogin, MobileLogin
  <2>. QED BY <2>1, BeginsHandler
<1>4. CASE Manage(r)
  <2>1. ASSUME NEW u \in User, ChangePassword(r, u) \/ DeleteUser(r, u) PROVE FALSE
    BY <2>1, BeginsHandler DEF ChangePassword, DeleteUser
  <2>2. ASSUME NEW u \in User, ToggleStatus(r, u) PROVE FALSE
    BY <2>2 DEF ToggleStatus, TypeOK, Idle
  <2>3. ASSUME NEW t \in 1..Tokens, Refresh(r, t) \/ RevokeSession(r, t) PROVE FALSE
    BY <2>3, HoldsHandler DEF Refresh, RevokeSession
  <2>. QED BY <1>4, <2>1, <2>2, <2>3 DEF Manage, Logout
<1>5. CASE Continue(r)
  <2>1. Reply(r) \/ \E at \in Stage \ {"insert"} : Goto(r, at)
    BY <1>5 DEF Continue, InsertCode, CountAttempt, ConsumeCode, FindOwner, ConfirmEmail,
       ResetWrite, ChangeWrite, CreateUser, IssueToken, DiscardToken, RotateToken, RevokeDelete,
       ToggleWrite, DeleteWrite, Stage
  <2>. QED BY <2>1, RepliesHandler, GoesOn
<1>6. CASE Fail(r)
  BY <1>6, RepliesHandler DEF Fail
<1>. QED BY <1>1, <1>2, <1>3, <1>4, <1>5, <1>6 DEF Next

LEMMA OneWaitsStep ==
  ASSUME TypeOK, TypeOK', Alone, OneWaits, [Next]_vars
  PROVE  OneWaits'
<1>w. workload' = workload
  BY DEF Next, vars
<1>. SUFFICES ASSUME ~workload.overlap
     PROVE  /\ \A c, d \in 1..Codes :
                 Live(c)' /\ Live(d)' /\ code'[c].user = code'[d].user /\ code'[c].kind = code'[d].kind
                   => c = d
            /\ \A r \in Request : req'[r].at = "insert" => OfKind(req[r].user, req[r].kind)' = {}
                                                         /\ req'[r].user = req[r].user
                                                         /\ req'[r].kind = req[r].kind
  BY <1>w DEF OneWaits, OfKind, Live
<1>1. /\ \A c, d \in 1..Codes :
           Live(c) /\ Live(d) /\ code[c].user = code[d].user /\ code[c].kind = code[d].kind => c = d
      /\ \A r \in Request : req[r].at = "insert" => OfKind(req[r].user, req[r].kind) = {}
      /\ \A q, r \in Request : req[q] # Idle /\ req[r] # Idle => q = r
  BY DEF OneWaits, Alone
<1>2. ASSUME NEW r \in Request, InsertCode(r)
      PROVE  /\ \A c, d \in 1..Codes :
                 Live(c)' /\ Live(d)' /\ code'[c].user = code'[d].user /\ code'[c].kind = code'[d].kind
                   => c = d
             /\ \A q \in Request : req'[q].at # "insert"
  <2>1. PICK c \in 1..Codes :
          code' = [code EXCEPT ![c] = [NoCode EXCEPT !.row = "live", !.user = req[r].user,
                                                     !.kind = req[r].kind, !.fresh = TRUE]]
    BY <1>2 DEF InsertCode
  <2>2. /\ code'[c].user = req[r].user /\ code'[c].kind = req[r].kind
        /\ \A d \in 1..Codes : d # c => code'[d] = code[d]
    BY <2>1, NoCodeType DEF TypeOK, CodeRow
  <2>3. \A d \in 1..Codes : Live(d) => code[d].user # req[r].user \/ code[d].kind # req[r].kind
    BY <1>1, <1>2 DEF InsertCode, Running, OfKind
  <2>4. \A q \in Request : q # r => req[q] = Idle
    BY <1>1, <1>2, RunningIsBusy DEF InsertCode
  <2>5. \A q \in Request : req'[q].at # "insert"
    BY <1>2, <2>4, RepliesHandler DEF InsertCode
  <2>. QED BY <1>1, <2>2, <2>3, <2>5 DEF Live
<1>3. CASE \A r \in Request : ~InsertCode(r)
  <2>1. NoNewCode
    BY <1>3, OnlyInsertSends
  <2>2. ASSUME NEW r \in Request, req'[r].at = "insert"
        PROVE  /\ OfKind(req[r].user, req[r].kind)' = {}
               /\ req'[r].user = req[r].user /\ req'[r].kind = req[r].kind
    <3>1. CASE Purge(r)
      <4>1. OfKind(req[r].user, req[r].kind) \subseteq Replaced(req[r])
        BY DEF OfKind, Replaced, Pending
      <4>2. \A c \in Replaced(req[r]) : c \in 1..Codes
        BY DEF Replaced, Pending, OfKind
      <4>3. \A c \in Replaced(req[r]) : ~Live(c)'
        BY <3>1, <4>2, GoneType DEF Purge, Without, Live
      <4>4. req'[r].user = req[r].user /\ req'[r].kind = req[r].kind
        BY <3>1, GoesOn DEF Purge
      <4>5. ASSUME NEW c \in 1..Codes, code'[c].row = "live", code'[c].user = req[r].user,
                   code'[c].kind = req[r].kind
            PROVE  FALSE
        <5>1. c \in OfKind(req[r].user, req[r].kind)
          BY <2>1, <4>5 DEF NoNewCode, OfKind, Live
        <5>. QED BY <4>1, <4>3, <4>5, <5>1 DEF Live
      <4>6. {c \in 1..Codes : code'[c].row = "live" /\ code'[c].user = req'[r].user
                                /\ code'[c].kind = req'[r].kind} = {}
        BY <4>4, <4>5
      <4>. QED BY <4>4, <4>6 DEF OfKind, Live
    <3>2. CASE ~Purge(r)
      <4>1. req'[r] = req[r]
        BY <2>2, <3>2, InsertAfterPurge
      <4>2. OfKind(req[r].user, req[r].kind) = {}
        BY <1>1, <2>2, <4>1
      <4>3. {c \in 1..Codes : code'[c].row = "live" /\ code'[c].user = req'[r].user
                                /\ code'[c].kind = req'[r].kind} = {}
        BY <2>1, <4>1, <4>2 DEF NoNewCode, OfKind, Live
      <4>. QED BY <4>1, <4>3 DEF OfKind, Live
    <3>. QED BY <3>1, <3>2
  <2>. QED BY <1>1, <2>1, <2>2 DEF NoNewCode, Live
<1>. QED BY <1>2, <1>3

LEMMA AtMostOne ==
  ASSUME NEW S, \A c, d \in S : c = d
  PROVE  Cardinality(S) <= 1
<1>1. CASE S = {}
  BY <1>1, FS_EmptySet
<1>2. ASSUME NEW c \in S PROVE Cardinality(S) <= 1
  <2>1. S = {c}
    OBVIOUS
  <2>2. Cardinality({c}) = 1
    BY FS_Singleton
  <2>. QED BY <2>1, <2>2
<1>. QED BY <1>1, <1>2

-----------------------------------------------------------------------------
(* Guesses *)

\* The verifications that have found the guess at c wrong and not counted it yet.
Counting(c) == {r \in Request : /\ req[r].at = "count" /\ req[r].code = c
                                /\ req[r].op # "resetPassword"}

\* The guesses made and under way are fewer than the limit and the requests.
GuessesLimited ==
  \A c \in 1..Codes :
    /\ Live(c) => code[c].tries <= code[c].attempts
    /\ code[c].tries + Cardinality(Counting(c)) < MaxAttempts + Cardinality(Request)

LEMMA CountingFinite ==
  ASSUME NEW c
  PROVE  /\ IsFiniteSet(Counting(c)) /\ Cardinality(Counting(c)) \in Nat
         /\ Cardinality(Request) \in Nat
         /\ Cardinality(Counting(c)) <= Cardinality(Request)
<1>1. Counting(c) \in SUBSET Request
  BY DEF Counting
<1>2. IsFiniteSet(Request)
  BY RequestAssumption
<1>3. IsFiniteSet(Counting(c)) /\ Cardinality(Counting(c)) <= Cardinality(Request)
  BY <1>1, <1>2, FS_Subset
<1>. QED BY <1>2, <1>3, FS_CardinalityType

LEMMA CountingFinitePrime ==
  ASSUME NEW c
  PROVE  /\ IsFiniteSet(Counting(c)') /\ Cardinality(Counting(c)') \in Nat
         /\ Cardinality(Counting(c)') <= Cardinality(Request)
<1>1. Counting(c)' \in SUBSET Request
  BY DEF Counting
<1>2. IsFiniteSet(Request)
  BY RequestAssumption
<1>3. IsFiniteSet(Counting(c)') /\ Cardinality(Counting(c)') <= Cardinality(Request)
  BY <1>1, <1>2, FS_Subset
<1>. QED BY <1>2, <1>3, FS_CardinalityType

\* A step that makes no more guesses at c, and starts no verification of c that
\* will count one.
LEMMA LimitKept ==
  ASSUME TypeOK, TypeOK', NEW c \in 1..Codes,
         code[c].tries + Cardinality(Counting(c)) < MaxAttempts + Cardinality(Request),
         code'[c].tries <= code[c].tries, Counting(c)' \subseteq Counting(c)
  PROVE  code'[c].tries + Cardinality(Counting(c)') < MaxAttempts + Cardinality(Request)
<1>1. Cardinality(Counting(c)') <= Cardinality(Counting(c))
  BY CountingFinite, FS_Subset
<1>2. code[c].tries \in Nat /\ code'[c].tries \in Nat
  BY DEF TypeOK, CodeRow
<1>. QED BY <1>1, <1>2, CountingFinite, CountingFinitePrime, BoundsAssumption

\* What every step but the counting of a guess does to the guesses at a code.
LEMMA OnlyCountingCounts ==
  ASSUME TypeOK, [Next]_vars, \A r \in Request : ~CountAttempt(r), NEW c \in 1..Codes
  PROVE  /\ code'[c].tries <= code[c].tries
         /\ Live(c)' => \/ code'[c].tries = 0
                        \/ /\ Live(c) /\ code'[c].tries = code[c].tries
                           /\ code'[c].attempts = code[c].attempts
<1>0. /\ code \in [1..Codes -> CodeRow]
      /\ code[c].tries \in Nat
  BY DEF TypeOK, CodeRow
<1>. DEFINE Same == /\ code'[c].tries <= code[c].tries
                    /\ Live(c)' => \/ code'[c].tries = 0
                                   \/ /\ Live(c) /\ code'[c].tries = code[c].tries
                                      /\ code'[c].attempts = code[c].attempts
<1>k. ASSUME code' = code PROVE Same
  BY <1>0, <1>k DEF Live
<1>w. ASSUME NEW S, code' = Without(S) PROVE Same
  <2>1. Gone(c).row = "gone" /\ Gone(c).tries = code[c].tries
    BY GoneType
  <2>. QED BY <1>0, <1>w, <2>1 DEF Without, Live
<1>u. ASSUME NEW d, code' = Used(d) PROVE Same
  <2>1. Gone(c).row = "gone" /\ Gone(c).tries = code[c].tries /\ Gone(c) \in CodeRow
    BY GoneType
  <2>2. [Gone(c) EXCEPT !.uses = @ + 1].row = "gone"
        /\ [Gone(c) EXCEPT !.uses = @ + 1].tries = code[c].tries
    BY <2>1 DEF CodeRow
  <2>. QED BY <1>0, <1>u, <2>2 DEF Used, Live
<1>1. CASE UNCHANGED vars
  BY <1>1, <1>k DEF vars
<1>2. ASSUME NEW r \in Request, Send(r) \/ Prove(r) \/ SignIn(r) \/ Manage(r) \/ Fail(r) PROVE Same
  <2>1. code' = code
    BY <1>2 DEF Send, Prove, SignIn, Manage, Fail, SendOtp, SendEmailOtp, ForgotPassword,
       ResendEmailOtp, VerifyOtp, VerifyEmailOtp, ResetPassword, Login, Register, FirebaseLogin,
       MobileLogin, ChangePassword, ToggleStatus, DeleteUser, Refresh, Logout, RevokeSession
  <2>. QED BY <2>1, <1>k
<1>3. ASSUME NEW r \in Request, Continue(r) PROVE Same
  <2>1. CASE Purge(r)
    BY <2>1, <1>w DEF Purge
  <2>2. CASE InsertCode(r)
    <3>1. PICK d \in 1..Codes :
            code' = [code EXCEPT ![d] = [NoCode EXCEPT !.row = "live", !.user = req[r].user,
                                                       !.kind = req[r].kind, !.fresh = TRUE]]
      BY <2>2 DEF InsertCode
    <3>2. NoCode.tries = 0
      BY DEF NoCode
    <3>3. [NoCode EXCEPT !.row = "live", !.user = req[r].user, !.kind = req[r].kind,
                         !.fresh = TRUE].tries = 0
      BY <3>2, NoCodeType DEF CodeRow
    <3>. QED BY <1>0, <3>1, <3>3 DEF Live
  <2>3. CASE ConsumeCode(r) \/ ConfirmEmail(r) \/ ResetWrite(r)
    BY <2>3, <1>u, <1>k DEF ConsumeCode, ConfirmEmail, ResetWrite
  <2>4. CASE FindOwner(r) \/ ChangeWrite(r) \/ CreateUser(r) \/ IssueToken(r) \/ DiscardToken(r)
             \/ RotateToken(r) \/ RevokeDelete(r) \/ ToggleWrite(r) \/ DeleteWrite(r)
    BY <2>4, <1>k DEF FindOwner, ChangeWrite, CreateUser, IssueToken, DiscardToken, RotateToken,
       RevokeDelete, ToggleWrite, DeleteWrite
  <2>. QED BY <1>3, <2>1, <2>2, <2>3, <2>4 DEF Continue
<1>4. CASE Time
  <2>1. ASSUME NEW d \in 1..Codes, CodeAges(d) PROVE Same
    <3>1. /\ code'[c].row = code[c].row /\ code'[c].tries = code[c].tries
          /\ code'[c].attempts = code[c].attempts
      BY <1>0, <2>1 DEF CodeAges, CodeRow
    <3>. QED BY <1>0, <3>1 DEF Live
  <2>. QED BY <1>4, <2>1, <1>k DEF Time, TokenExpires
<1>. QED BY <1>1, <1>2, <1>3, <1>4 DEF Next

\* Only a verification that finds fewer attempts than the limit begins to count.
LEMMA CountsFromVerification ==
  ASSUME TypeOK, [Next]_vars, NEW c \in 1..Codes, NEW r \in Request,
         r \in Counting(c)', r \notin Counting(c)
  PROVE  /\ \A q \in Request : ~CountAttempt(q)
         /\ Live(c) /\ code'[c] = code[c] /\ code[c].attempts < MaxAttempts
<1>0. req'[r].at = "count" /\ req'[r].code = c /\ req'[r].op # "resetPassword" /\ req'[r] # req[r]
  BY DEF Counting
<1>1. CASE UNCHANGED vars \/ Time
  BY <1>0, <1>1 DEF vars, Time, CodeAges, TokenExpires
<1>2. ASSUME NEW q \in Request, q # r,
             Send(q) \/ Prove(q) \/ SignIn(q) \/ Manage(q) \/ Continue(q) \/ Fail(q)
      PROVE  FALSE
  BY <1>0, <1>2, OneMoves
<1>3. CASE Send(r) \/ SignIn(r)
  <2>1. PICK op, at, u, k, d : Begin(r, op, at, u, k, d) /\ at # "count"
    BY <1>3 DEF Send, SignIn, SendOtp, SendEmailOtp, ForgotPassword, ResendEmailOtp,
       Login, Register, FirebaseLogin, MobileLogin
  <2>. QED BY <1>0, <2>1, BeginsHandler
<1>4. CASE Prove(r)
  <2>1. ASSUME NEW u, NEW guess, NEW channel, VerifyOtp(r, u, channel, guess)
        PROVE  Live(c) /\ code' = code /\ code[c].attempts < MaxAttempts
    <3>1. PICK d \in 1..Codes :
            /\ IsNewest(d, Unexpired(Pending(u, channel))) /\ code[d].attempts < MaxAttempts
            /\ Begin(r, "verifyOtp", IF guess = d THEN "consume" ELSE "count", u, code[d].kind, d)
      BY <2>1 DEF VerifyOtp
    <3>2. d = c
      BY <1>0, <3>1, BeginsHandler
    <3>. QED BY <2>1, <3>1, <3>2 DEF VerifyOtp, IsNewest, Unexpired, Pending
  <2>2. ASSUME NEW u, NEW guess, VerifyEmailOtp(r, u, guess)
        PROVE  Live(c) /\ code' = code /\ code[c].attempts < MaxAttempts
    <3>1. PICK d \in 1..Codes :
            /\ IsNewest(d, OfKind(u, "EMAIL_VERIFICATION")) /\ code[d].attempts < MaxAttempts
            /\ Begin(r, "verifyEmailOtp", IF guess = d THEN "confirm" ELSE "count", u, code[d].kind, d)
      BY <2>2 DEF VerifyEmailOtp
    <3>2. d = c
      BY <1>0, <3>1, BeginsHandler
    <3>. QED BY <2>2, <3>1, <3>2 DEF VerifyEmailOtp, IsNewest, OfKind
  <2>3. ASSUME NEW u, NEW guess, ResetPassword(r, u, guess) PROVE FALSE
    <3>1. PICK d, at : Begin(r, "resetPassword", at, u, "EMAIL", d)
      BY <2>3 DEF ResetPassword
    <3>. QED BY <1>0, <3>1, BeginsHandler
  <2>4. \A q \in Request : ~CountAttempt(q)
    <3>. SUFFICES ASSUME NEW q \in Request, CountAttempt(q) PROVE FALSE
      OBVIOUS
    <3>1. req'[q] = Idle /\ Idle.at = ""
      BY RepliesHandler DEF CountAttempt
    <3>2. req[q] # Idle /\ q # r => req'[q] = req[q]
      BY <1>4, OneMoves
    <3>3. req[q] # Idle
      BY RunningIsBusy DEF CountAttempt
    <3>4. q = r
      BY <3>1, <3>2, <3>3
    <3>. QED BY <1>0, <3>1, <3>4
  <2>. QED BY <1>4, <2>1, <2>2, <2>3, <2>4 DEF Prove
<1>5. CASE Manage(r)
  <2>1. ASSUME NEW u \in User, ChangePassword(r, u) \/ DeleteUser(r, u) PROVE FALSE
    BY <1>0, <2>1, BeginsHandler DEF ChangePassword, DeleteUser
  <2>2. ASSUME NEW u \in User, ToggleStatus(r, u) PROVE FALSE
    BY <1>0, <2>2 DEF ToggleStatus, TypeOK, Idle
  <2>3. ASSUME NEW t \in 1..Tokens, Refresh(r, t) \/ RevokeSession(r, t) PROVE FALSE
    BY <1>0, <2>3, HoldsHandler DEF Refresh, RevokeSession
  <2>. QED BY <1>0, <1>5, <2>1, <2>2, <2>3 DEF Manage, Logout
<1>6. CASE Continue(r)
  <2>1. Reply(r) \/ \E at \in Stage \ {"count"} : Goto(r, at)
    BY <1>6 DEF Continue, Purge, InsertCode, CountAttempt, ConsumeCode, FindOwner, ConfirmEmail,
       ResetWrite, ChangeWrite, CreateUser, IssueToken, DiscardToken, RotateToken, RevokeDelete,
       ToggleWrite, DeleteWrite, Stage
  <2>. QED BY <1>0, <2>1, RepliesHandler, GoesOn
<1>7. CASE Fail(r)
  BY <1>0, <1>7, RepliesHandler DEF Fail
<1>. QED BY <1>1, <1>2, <1>3, <1>4, <1>5, <1>6, <1>7 DEF Next

LEMMA GuessesStep ==
  ASSUME TypeOK, TypeOK', GuessesLimited, [Next]_vars
  PROVE  GuessesLimited'
<1>. SUFFICES ASSUME NEW c \in 1..Codes
     PROVE  /\ Live(c)' => code'[c].tries <= code'[c].attempts
            /\ code'[c].tries + Cardinality(Counting(c)') < MaxAttempts + Cardinality(Request)
  BY DEF GuessesLimited
<1>0. /\ Live(c) => code[c].tries <= code[c].attempts
      /\ code[c].tries + Cardinality(Counting(c)) < MaxAttempts + Cardinality(Request)
  BY DEF GuessesLimited
<1>n. /\ code[c].tries \in Nat /\ code'[c].tries \in Nat
      /\ code[c].attempts \in Nat /\ code'[c].attempts \in Nat
  BY DEF TypeOK, CodeRow
<1>1. ASSUME NEW r \in Request, r \in Counting(c)', r \notin Counting(c)
      PROVE  /\ Live(c)' => code'[c].tries <= code'[c].attempts
             /\ code'[c].tries + Cardinality(Counting(c)') < MaxAttempts + Cardinality(Request)
  <2>1. Live(c) /\ code'[c] = code[c] /\ code[c].attempts < MaxAttempts
    BY <1>1, CountsFromVerification
  <2>. QED BY <1>0, <1>n, <2>1, CountingFinite, CountingFinitePrime, BoundsAssumption
<1>2. CASE Counting(c)' \subseteq Counting(c) /\ \A r \in Request : ~CountAttempt(r)
  <2>1. /\ code'[c].tries <= code[c].tries
        /\ Live(c)' => \/ code'[c].tries = 0
                       \/ /\ Live(c) /\ code'[c].tries = code[c].tries
                          /\ code'[c].attempts = code[c].attempts
    BY <1>2, OnlyCountingCounts
  <2>. QED BY <1>0, <1>n, <1>2, <2>1, LimitKept
<1>3. ASSUME NEW r \in Request, CountAttempt(r), Counting(c)' \subseteq Counting(c)
      PROVE  /\ Live(c)' => code'[c].tries <= code'[c].attempts
             /\ code'[c].tries + Cardinality(Counting(c)') < MaxAttempts + Cardinality(Request)
  <2>0. code \in [1..Codes -> CodeRow] /\ code[c] \in CodeRow
    BY DEF TypeOK
  <2>1. CASE code'[c] = code[c]
    BY <1>0, <1>3, <1>n, <2>1, LimitKept DEF Live
  <2>2. CASE code'[c] # code[c]
    <3>1. c = req[r].code /\ Live(c)
      BY <1>3, <2>0, <2>2 DEF CountAttempt
    <3>2. /\ code'[c].attempts = code[c].attempts + 1
          /\ code'[c].tries = IF req[r].op = "resetPassword" THEN code[c].tries ELSE code[c].tries + 1
      BY <1>3, <2>0, <2>2, <3>1 DEF CountAttempt, CodeRow
    <3>3. CASE req[r].op = "resetPassword"
      BY <1>0, <1>3, <1>n, <3>1, <3>2, <3>3, LimitKept
    <3>4. CASE req[r].op # "resetPassword"
      <4>1. r \in Counting(c)
        BY <1>3, <3>1, <3>4 DEF Counting, CountAttempt, Running
      <4>2. r \notin Counting(c)'
        <5>1. req'[r].at = ""
          BY <1>3, RepliesHandler DEF CountAttempt
        <5>. QED BY <5>1 DEF Counting
      <4>3. Counting(c)' \subseteq Counting(c) \ {r}
        BY <1>3, <4>2
      <4>4. Cardinality(Counting(c)') <= Cardinality(Counting(c)) - 1
        <5>1. /\ IsFiniteSet(Counting(c) \ {r})
              /\ Cardinality(Counting(c) \ {r}) = Cardinality(Counting(c)) - 1
          BY <4>1, CountingFinite, FS_RemoveElement
        <5>2. Cardinality(Counting(c)') <= Cardinality(Counting(c) \ {r})
          BY <4>3, <5>1, FS_Subset
        <5>. QED BY <5>1, <5>2
      <4>. QED
        BY <1>0, <1>n, <3>1, <3>2, <3>4, <4>4, CountingFinite, CountingFinitePrime, BoundsAssumption
    <3>. QED BY <3>3, <3>4
  <2>. QED BY <2>1, <2>2
<1>4. Counting(c)' \subseteq Counting(c) \/ \E r \in Request : r \in Counting(c)' /\ r \notin Counting(c)
  BY DEF Counting
<1>. QED BY <1>1, <1>2, <1>3, <1>4

\* A code can be guessed at only so often: wrong guesses stay below the limit and
\* the number of requests that may overlap, and of each kind one code waits for an
\* address when they do not.
THEOREM CodesAreCounted == Spec => []CodesCounted
<1>. DEFINE Inv == TypeOK /\ Alone /\ OneWaits /\ GuessesLimited
<1>1. Init => Inv
  <2>. SUFFICES ASSUME Init PROVE Inv
    OBVIOUS
  <2>1. /\ \A r \in Request : req[r] = Idle /\ Idle.at = ""
        /\ \A c \in 1..Codes : code[c].row = "absent" /\ code[c].tries = 0
    BY NoCodeType DEF Init, Idle, NoCode
  <2>2. ASSUME NEW c \in 1..Codes PROVE Cardinality(Counting(c)) = 0
    <3>1. Counting(c) = {}
      BY <2>1 DEF Counting
    <3>. QED BY <3>1, FS_EmptySet
  <2>3. Cardinality(Request) \in Nat /\ Cardinality(Request) # 0
    BY RequestAssumption, FS_CardinalityType, FS_EmptySet
  <2>4. GuessesLimited
    <3>1. 0 + 0 < MaxAttempts + Cardinality(Request)
      BY <2>3, BoundsAssumption
    <3>2. \A c \in 1..Codes : ~Live(c) /\ code[c].tries = 0 /\ Cardinality(Counting(c)) = 0
      BY <2>1, <2>2 DEF Live
    <3>. QED BY <3>1, <3>2 DEF GuessesLimited
  <2>5. Alone
    <3>1. \A r \in Request : req[r] = Idle
      BY DEF Init
    <3>. QED BY <3>1 DEF Alone
  <2>6. OneWaits
    BY <2>1 DEF OneWaits, Live
  <2>. QED BY <2>4, <2>5, <2>6, TypeInit
<1>2. Inv /\ [Next]_vars => Inv'
  BY TypeStep, AloneStep, OneWaitsStep, GuessesStep
<1>3. Inv => CodesCounted
  <2>. SUFFICES ASSUME Inv PROVE GuessesBounded /\ OneCodePerKind
    BY DEF CodesCounted
  <2>1. GuessesBounded
    <3>. SUFFICES ASSUME NEW c \in 1..Codes PROVE code[c].tries < MaxAttempts + Cardinality(Request)
      BY DEF GuessesBounded
    <3>1. code[c].tries \in Nat /\ code[c].tries + Cardinality(Counting(c)) < MaxAttempts + Cardinality(Request)
      BY DEF TypeOK, CodeRow, GuessesLimited
    <3>. QED BY <3>1, CountingFinite, BoundsAssumption
  <2>2. OneCodePerKind
    <3>. SUFFICES ASSUME ~workload.overlap, NEW u \in User, NEW k \in Kind
                  PROVE  Cardinality(OfKind(u, k)) <= 1
      BY DEF OneCodePerKind
    <3>1. \A c, d \in OfKind(u, k) : c = d
      BY DEF OneWaits, OfKind
    <3>. QED BY <3>1, AtMostOne
  <2>. QED BY <2>1, <2>2
<1>. QED BY <1>1, <1>2, <1>3, PTL DEF Spec

-----------------------------------------------------------------------------
(* Sessions *)

\* Handlers and sessions are somebody's, an account not yet made has its first
\* password, and an address is confirmed by its own verification only.
Named ==
  /\ \A r \in Request : req[r] # Idle => req[r].user \in User
  /\ \A t \in 1..Tokens : token[t].row = "live" => token[t].user \in User
  /\ \A u \in User : account[u].row = "absent" => account[u].password = 0
  /\ \A r \in Request : req[r].at = "confirm" => req[r].op = "verifyEmailOtp"

\* What a step makes of one handler: it is started for a user, goes on for the
\* same one, or ends.
LEMMA HandlerMoves ==
  ASSUME TypeOK, Named, [Next]_vars, NEW r \in Request
  PROVE  \/ req'[r] = req[r]
         \/ req'[r] = Idle
         \/ /\ req[r] # Idle /\ req'[r].user = req[r].user /\ req'[r].op = req[r].op
            /\ req'[r].at # "confirm"
            /\ Continue(r)
         \/ /\ Send(r) \/ Prove(r) \/ SignIn(r) \/ Manage(r)
            /\ req'[r].user \in User
            /\ req'[r].at = "confirm" => req'[r].op = "verifyEmailOtp"
<1>1. CASE UNCHANGED vars \/ Time
  BY <1>1 DEF vars, Time, CodeAges, TokenExpires
<1>2. ASSUME NEW q \in Request, q # r,
             Send(q) \/ Prove(q) \/ SignIn(q) \/ Manage(q) \/ Continue(q) \/ Fail(q)
      PROVE  req'[r] = req[r]
  BY <1>2, OneMoves
<1>3. CASE Send(r) \/ Prove(r) \/ SignIn(r)
  <2>1. PICK op, at, u, k, c :
          Begin(r, op, at, u, k, c) /\ u \in User /\ (at = "confirm" => op = "verifyEmailOtp")
    BY <1>3 DEF Send, Prove, SignIn, SendOtp, SendEmailOtp, ForgotPassword, ResendEmailOtp,
       VerifyOtp, VerifyEmailOtp, ResetPassword, Login, Register, FirebaseLogin, MobileLogin
  <2>. QED BY <1>3, <2>1, BeginsHandler
<1>4. CASE Manage(r)
  <2>1. ASSUME NEW u \in User, ChangePassword(r, u) \/ DeleteUser(r, u)
        PROVE  req'[r].user \in User /\ req'[r].at # "confirm"
    BY <2>1, BeginsHandler DEF ChangePassword, DeleteUser
  <2>2. ASSUME NEW u \in User, ToggleStatus(r, u)
        PROVE  req'[r].user \in User /\ req'[r].at # "confirm"
    <3>1. /\ [Idle EXCEPT !.op = "toggleStatus", !.at = "toggle", !.user = u,
                          !.flag = ~account[u].active].user = u
          /\ [Idle EXCEPT !.op = "toggleStatus", !.at = "toggle", !.user = u,
                          !.flag = ~account[u].active].at = "toggle"
      BY IdleType DEF Handler
    <3>. QED BY <2>2, <3>1 DEF ToggleStatus, TypeOK
  <2>3. ASSUME NEW t \in 1..Tokens, Refresh(r, t) \/ RevokeSession(r, t)
        PROVE  req'[r].user \in User /\ req'[r].at # "confirm"
    BY <2>3, HoldsHandler DEF Refresh, RevokeSession, Named
  <2>. QED BY <1>4, <2>1, <2>2, <2>3 DEF Manage, Logout
<1>5. CASE Continue(r)
  <2>1. Reply(r) \/ \E at \in Stage \ {"confirm"} : Goto(r, at)
    BY <1>5 DEF Continue, Purge, InsertCode, CountAttempt, ConsumeCode, FindOwner, ConfirmEmail,
       ResetWrite, ChangeWrite, CreateUser, IssueToken, DiscardToken, RotateToken, RevokeDelete,
       ToggleWrite, DeleteWrite, Stage
  <2>2. req[r] # Idle
    BY <1>5, RunningIsBusy DEF Continue, Purge, InsertCode, CountAttempt, ConsumeCode, FindOwner,
       ConfirmEmail, ResetWrite, ChangeWrite, CreateUser, IssueToken, DiscardToken, RotateToken,
       RevokeDelete, ToggleWrite, DeleteWrite
  <2>. QED BY <1>5, <2>1, <2>2, RepliesHandler, GoesOn
<1>6. CASE Fail(r)
  BY <1>6, RepliesHandler DEF Fail
<1>. QED BY <1>1, <1>2, <1>3, <1>4, <1>5, <1>6 DEF Next

\* What a step makes of one account.
LEMMA AccountMoves ==
  ASSUME TypeOK, [Next]_vars, NEW u \in User
  PROVE  \/ account'[u] = account[u]
         \/ \E r \in Request :
              /\ req[r].user = u /\ req[r] # Idle
              /\ \/ ConfirmEmail(r) /\ account'[u] = [account[u] EXCEPT !.emailVerified = TRUE]
                 \/ /\ ResetWrite(r) \/ ChangeWrite(r)
                    /\ Exists(u) /\ account'[u] = [account[u] EXCEPT !.password = @ + 1]
                    /\ token' = SignedOut(Owned(u))
                 \/ CreateUser(r) /\ account[u].row = "absent" /\ account'[u] = NewAccount
                 \/ ToggleWrite(r) /\ Exists(u) /\ account'[u] = [account[u] EXCEPT !.active = req[r].flag]
                 \/ /\ DeleteWrite(r) /\ account'[u] = [NewAccount EXCEPT !.row = "deleted"]
                    /\ token' = SignedOut(Owned(u))
<1>1. CASE UNCHANGED vars \/ Time
  BY <1>1 DEF vars, Time, CodeAges, TokenExpires
<1>2. ASSUME NEW r \in Request, Send(r) \/ Prove(r) \/ SignIn(r) \/ Manage(r) \/ Fail(r)
      PROVE  account' = account
  BY <1>2 DEF Send, Prove, SignIn, Manage, Fail, SendOtp, SendEmailOtp, ForgotPassword,
     ResendEmailOtp, VerifyOtp, VerifyEmailOtp, ResetPassword, Login, Register, FirebaseLogin,
     MobileLogin, ChangePassword, ToggleStatus, DeleteUser, Refresh, Logout, RevokeSession
<1>3. ASSUME NEW r \in Request, Continue(r), account'[u] # account[u]
      PROVE  /\ req[r].user = u /\ req[r] # Idle
             /\ \/ ConfirmEmail(r) /\ account'[u] = [account[u] EXCEPT !.emailVerified = TRUE]
                \/ /\ ResetWrite(r) \/ ChangeWrite(r)
                   /\ Exists(u) /\ account'[u] = [account[u] EXCEPT !.password = @ + 1]
                   /\ token' = SignedOut(Owned(u))
                \/ CreateUser(r) /\ account[u].row = "absent" /\ account'[u] = NewAccount
                \/ ToggleWrite(r) /\ Exists(u) /\ account'[u] = [account[u] EXCEPT !.active = req[r].flag]
                \/ /\ DeleteWrite(r) /\ account'[u] = [NewAccount EXCEPT !.row = "deleted"]
                   /\ token' = SignedOut(Owned(u))
  <2>0. account \in [User -> AccountRow]
    BY DEF TypeOK
  <2>1. CASE Purge(r) \/ InsertCode(r) \/ CountAttempt(r) \/ ConsumeCode(r) \/ FindOwner(r)
             \/ IssueToken(r) \/ DiscardToken(r) \/ RotateToken(r) \/ RevokeDelete(r)
    BY <1>3, <2>1 DEF Purge, InsertCode, CountAttempt, ConsumeCode, FindOwner, IssueToken,
       DiscardToken, RotateToken, RevokeDelete
  <2>2. CASE ConfirmEmail(r)
    BY <1>3, <2>0, <2>2, RunningIsBusy DEF ConfirmEmail
  <2>3. CASE ResetWrite(r)
    BY <1>3, <2>0, <2>3, RunningIsBusy DEF ResetWrite
  <2>4. CASE ChangeWrite(r)
    BY <1>3, <2>0, <2>4, RunningIsBusy DEF ChangeWrite
  <2>5. CASE CreateUser(r)
    BY <1>3, <2>0, <2>5, RunningIsBusy DEF CreateUser
  <2>6. CASE ToggleWrite(r)
    BY <1>3, <2>0, <2>6, RunningIsBusy DEF ToggleWrite
  <2>7. CASE DeleteWrite(r)
    BY <1>3, <2>0, <2>7, RunningIsBusy DEF DeleteWrite
  <2>. QED BY <1>3, <2>1, <2>2, <2>3, <2>4, <2>5, <2>6, <2>7 DEF Continue
<1>. QED BY <1>1, <1>2, <1>3 DEF Next

LEMMA NamedStep ==
  ASSUME TypeOK, TypeOK', Named, [Next]_vars
  PROVE  Named'
<1>1. ASSUME NEW r \in Request, req'[r] # Idle
      PROVE  req'[r].user \in User
  BY <1>1, HandlerMoves DEF Named
<1>2. ASSUME NEW r \in Request, req'[r].at = "confirm"
      PROVE  req'[r].op = "verifyEmailOtp"
  <2>1. Idle.at = ""
    BY DEF Idle
  <2>. QED BY <1>2, <2>1, HandlerMoves DEF Named
<1>3. ASSUME NEW u \in User, account'[u].row = "absent"
      PROVE  account'[u].password = 0
  <2>1. account[u] \in AccountRow
    BY DEF TypeOK
  <2>2. /\ NewAccount.row = "present" /\ NewAccount.password = 0
        /\ [NewAccount EXCEPT !.row = "deleted"].password = 0
    BY DEF NewAccount
  <2>3. /\ [account[u] EXCEPT !.emailVerified = TRUE].row = account[u].row
        /\ [account[u] EXCEPT !.emailVerified = TRUE].password = account[u].password
        /\ [account[u] EXCEPT !.password = @ + 1].row = account[u].row
    BY <2>1 DEF AccountRow
  <2>4. ASSUME NEW flag
        PROVE  /\ [account[u] EXCEPT !.active = flag].row = account[u].row
               /\ [account[u] EXCEPT !.active = flag].password = account[u].password
    BY <2>1 DEF AccountRow
  <2>5. account[u].row = "absent" => account[u].password = 0
    BY DEF Named
  <2>6. \/ account'[u] = account[u]
        \/ account'[u] = [account[u] EXCEPT !.emailVerified = TRUE]
        \/ Exists(u) /\ account'[u] = [account[u] EXCEPT !.password = @ + 1]
        \/ account'[u] = NewAccount
        \/ \E flag : account'[u] = [account[u] EXCEPT !.active = flag]
        \/ account'[u] = [NewAccount EXCEPT !.row = "deleted"]
    BY AccountMoves
  <2>. QED BY <1>3, <2>2, <2>3, <2>4, <2>5, <2>6 DEF Exists
<1>4. ASSUME NEW t \in 1..Tokens, token'[t].row = "live"
      PROVE  token'[t].user \in User
  <2>0. token \in [1..Tokens -> TokenRow]
    BY DEF TypeOK
  <2>k. ASSUME token' = token PROVE token'[t].user \in User
    BY <1>4, <2>k DEF Named
  <2>s. ASSUME NEW S, token' = SignedOut(S) PROVE token'[t].user \in User
    BY <1>4, <2>0, <2>s DEF Named, SignedOut, NoToken
  <2>1. CASE UNCHANGED vars
    BY <2>1, <2>k DEF vars
  <2>2. ASSUME NEW r \in Request, Send(r) \/ Prove(r) \/ SignIn(r) \/ Fail(r)
        PROVE  token' = token
    BY <2>2 DEF Send, Prove, SignIn, Fail, SendOtp, SendEmailOtp, ForgotPassword,
       ResendEmailOtp, VerifyOtp, VerifyEmailOtp, ResetPassword, Login, Register, FirebaseLogin,
       MobileLogin
  <2>3. ASSUME NEW r \in Request, Manage(r) PROVE token' = token \/ \E S : token' = SignedOut(S)
    BY <2>3 DEF Manage, ChangePassword, ToggleStatus, DeleteUser, Refresh, Logout, RevokeSession
  <2>4. ASSUME NEW r \in Request, Continue(r), ~IssueToken(r)
        PROVE  token' = token \/ \E S : token' = SignedOut(S)
    BY <2>4 DEF Continue, Purge, InsertCode, CountAttempt, ConsumeCode, FindOwner, ConfirmEmail,
       ResetWrite, ChangeWrite, CreateUser, DiscardToken, RotateToken, RevokeDelete,
       ToggleWrite, DeleteWrite
  <2>5. ASSUME NEW r \in Request, IssueToken(r) PROVE token'[t].user \in User
    <3>1. req[r].user \in User
      BY <2>5, RunningIsBusy DEF IssueToken, Named
    <3>2. \/ token' = token
          \/ \E s \in 1..Tokens :
               token' = [token EXCEPT ![s] = [NoToken EXCEPT !.row = "live", !.user = req[r].user,
                                                             !.parent = req[r].token]]
      BY <2>5 DEF IssueToken
    <3>3. [NoToken EXCEPT !.row = "live", !.user = req[r].user, !.parent = req[r].token].user = req[r].user
      BY DEF NoToken
    <3>4. CASE token' = token
      BY <3>4, <2>k
    <3>5. ASSUME NEW s \in 1..Tokens, NEW x, token' = [token EXCEPT ![s] = x], x.user \in User
          PROVE  token'[t].user \in User
      BY <1>4, <2>0, <3>5 DEF Named
    <3>. QED BY <3>1, <3>2, <3>3, <3>4, <3>5
  <2>6. CASE Time
    <3>1. token' = token \/ \E s \in 1..Tokens : token' = [token EXCEPT ![s].expired = TRUE]
      BY <2>6 DEF Time, CodeAges, TokenExpires
    <3>2. ASSUME NEW s \in 1..Tokens, token' = [token EXCEPT ![s].expired = TRUE]
          PROVE  token'[t].row = token[t].row /\ token'[t].user = token[t].user
      BY <2>0, <3>2 DEF TokenRow
    <3>. QED BY <1>4, <2>k, <3>1, <3>2 DEF Named
  <2>. QED BY <2>k, <2>s, <2>1, <2>2, <2>3, <2>4, <2>5, <2>6 DEF Next
<1>. QED BY <1>1, <1>2, <1>3, <1>4 DEF Named

\* When requests do not overlap, a handler that is about to issue a session has
\* seen that the account, if there still is one, is active; one that verified an
\* address has not looked.
Vouched ==
  ~workload.overlap =>
    \A r \in Request :
      req[r].at \in {"rotate", "issue"} /\ req[r].op # "verifyEmailOtp" =>
        (Exists(req[r].user) => account[req[r].user].active)

\* How a handler comes to stand before a session.
LEMMA ComesToIssue ==
  ASSUME TypeOK, Named, Vouched, Alone, ~workload.overlap, [Next]_vars, NEW r \in Request,
         req'[r].at \in {"rotate", "issue"}, req'[r].op # "verifyEmailOtp", req'[r] # req[r]
  PROVE  account'[req'[r].user].row = "present" => account'[req'[r].user].active
<1>0. /\ Idle.at = "" /\ req'[r] # Idle
      /\ account \in [User -> AccountRow]
  <2>1. Idle.at = ""
    BY DEF Idle
  <2>2. req'[r] # Idle
    BY <2>1
  <2>3. account \in [User -> AccountRow]
    BY DEF TypeOK
  <2>. QED BY <2>1, <2>2, <2>3
<1>1. CASE Send(r) \/ Prove(r)
  <2>1. PICK op, at, u, k, c : Begin(r, op, at, u, k, c) /\ at \notin {"rotate", "issue"}
    BY <1>1 DEF Send, Prove, SendOtp, SendEmailOtp, ForgotPassword, ResendEmailOtp,
       VerifyOtp, VerifyEmailOtp, ResetPassword
  <2>. QED BY <2>1, BeginsHandler
<1>2. CASE SignIn(r)
  <2>1. account' = account
    BY <1>2 DEF SignIn, Login, Register, FirebaseLogin, MobileLogin
  <2>2. PICK op, at, u, k, c : Begin(r, op, at, u, k, c) /\ u \in User /\ (at = "issue" => Admitted(u))
    BY <1>2 DEF SignIn, Login, Register, FirebaseLogin, MobileLogin, Exists
  <2>3. PICK at2, op2, u2, k2, c2 : Begin(r, op2, at2, u2, k2, c2) /\ at2 # "rotate"
    BY <1>2 DEF SignIn, Login, Register, FirebaseLogin, MobileLogin
  <2>4. req'[r].at # "rotate"
    BY <2>3, BeginsHandler
  <2>5. req'[r].user = u /\ Admitted(u)
    BY <2>2, <2>4, BeginsHandler
  <2>. QED BY <2>1, <2>5 DEF Admitted
<1>3. CASE Manage(r)
  <2>1. ASSUME NEW u \in User, ChangePassword(r, u) \/ DeleteUser(r, u) PROVE FALSE
    BY <2>1, BeginsHandler DEF ChangePassword, DeleteUser
  <2>2. ASSUME NEW u \in User, ToggleStatus(r, u) PROVE FALSE
    <3>1. [Idle EXCEPT !.op = "toggleStatus", !.at = "toggle", !.user = u,
                       !.flag = ~account[u].active].at = "toggle"
      BY IdleType DEF Handler
    <3>. QED BY <2>2, <3>1 DEF ToggleStatus, TypeOK
  <2>3. ASSUME NEW t \in 1..Tokens, RevokeSession(r, t) PROVE FALSE
    BY <2>3, HoldsHandler DEF RevokeSession
  <2>4. ASSUME NEW t \in 1..Tokens, Refresh(r, t)
        PROVE  account'[req'[r].user].row = "present" => account'[req'[r].user].active
    BY <2>4, HoldsHandler DEF Refresh
  <2>. QED BY <1>0, <1>3, <2>1, <2>2, <2>3, <2>4 DEF Manage, Logout
<1>4. CASE Continue(r)
  <2>1. CASE FindOwner(r)
    BY <2>1, <1>0, GoesOn, RepliesHandler DEF FindOwner, Admitted
  <2>2. CASE CreateUser(r)
    <3>0. NewAccount.active
      BY DEF NewAccount
    <3>1. req[r].user \in User
      BY <2>2, RunningIsBusy DEF CreateUser, Named
    <3>2. Goto(r, "issue") /\ account' = [account EXCEPT ![req[r].user] = NewAccount]
      BY <2>2, <1>0, RepliesHandler DEF CreateUser
    <3>3. req'[r].user = req[r].user
      BY <3>2, GoesOn
    <3>4. account'[req[r].user] = NewAccount
      BY <1>0, <3>1, <3>2
    <3>. QED BY <3>0, <3>3, <3>4
  <2>3. CASE RotateToken(r)
    <3>1. Goto(r, "issue") /\ account' = account /\ req[r].at = "rotate"
      BY <2>3, <1>0, RepliesHandler DEF RotateToken, Running
    <3>2. req'[r].user = req[r].user /\ req'[r].op = req[r].op
      BY <3>1, GoesOn
    <3>3. Exists(req[r].user) => account[req[r].user].active
      BY <3>1, <3>2 DEF Vouched
    <3>. QED BY <3>1, <3>2, <3>3 DEF Exists
  <2>4. CASE ConfirmEmail(r)
    <3>1. Goto(r, "issue") /\ req[r].at = "confirm"
      BY <2>4, <1>0, RepliesHandler DEF ConfirmEmail, Running
    <3>. QED BY <3>1, GoesOn DEF Named
  <2>5. ASSUME ~FindOwner(r), ~CreateUser(r), ~RotateToken(r), ~ConfirmEmail(r) PROVE FALSE
    <3>1. Reply(r) \/ \E at \in Stage \ {"rotate", "issue"} : Goto(r, at)
      BY <1>4, <2>5 DEF Continue, Purge, InsertCode, CountAttempt, ConsumeCode, ResetWrite,
         ChangeWrite, IssueToken, DiscardToken, RevokeDelete, ToggleWrite, DeleteWrite, Stage
    <3>. QED BY <1>0, <3>1, RepliesHandler, GoesOn
  <2>. QED BY <2>1, <2>2, <2>3, <2>4, <2>5
<1>. QED BY <1>0, <1>1, <1>2, <1>3, <1>4, HandlerMoves

\* A handler on its own stays vouched for: while it stands before a session no
\* other moves, and a step of its own that moves an account stands elsewhere.
LEMMA VouchedStep ==
  ASSUME TypeOK, Named, Vouched, Alone, [Next]_vars
  PROVE  Vouched'
<1>. SUFFICES ASSUME ~workload'.overlap, NEW r \in Request,
                     req'[r].at \in {"rotate", "issue"}, req'[r].op # "verifyEmailOtp"
              PROVE  account'[req'[r].user].row = "present" => account'[req'[r].user].active
  BY DEF Vouched, Exists
<1>1. ~workload.overlap
  BY DEF Next, vars
<1>2. CASE req'[r] # req[r]
  BY <1>1, <1>2, ComesToIssue
<1>3. CASE req'[r] = req[r]
  <2>0. Idle.at = ""
    BY DEF Idle
  <2>1. req[r] # Idle
    BY <1>3, <2>0
  <2>2. req[r].user \in User
    BY <2>1 DEF Named
  <2>3. ASSUME NEW q \in Request, req[q] # Idle PROVE q = r
    BY <1>1, <2>1, <2>3 DEF Alone
  <2>4. account'[req[r].user] = account[req[r].user]
    BY <1>3, <2>2, <2>3, AccountMoves
       DEF ConfirmEmail, ResetWrite, ChangeWrite, CreateUser, ToggleWrite, DeleteWrite, Running
  <2>. QED BY <1>1, <1>3, <2>4 DEF Vouched, Exists
<1>. QED BY <1>2, <1>3

\* A changed password leaves no session: only the transactions that also delete
\* the sessions change one.
LEMMA PasswordStep ==
  ASSUME TypeOK, Named, [Next]_vars, NEW u \in User, account'[u].password # account[u].password
  PROVE  Owned(u)' = {}
<1>1. account[u] \in AccountRow
  BY DEF TypeOK
<1>2. /\ [account[u] EXCEPT !.emailVerified = TRUE].password = account[u].password
      /\ \A flag : [account[u] EXCEPT !.active = flag].password = account[u].password
  BY <1>1 DEF AccountRow
<1>3. account[u].row = "absent" => account[u].password = NewAccount.password
  BY DEF Named, NewAccount
<1>4. token' = SignedOut(Owned(u))
  <2>1. \/ token' = SignedOut(Owned(u))
        \/ account'[u] = account[u]
        \/ account'[u] = [account[u] EXCEPT !.emailVerified = TRUE]
        \/ account[u].row = "absent" /\ account'[u] = NewAccount
        \/ \E flag : account'[u] = [account[u] EXCEPT !.active = flag]
    BY AccountMoves
  <2>. QED BY <1>2, <1>3, <2>1
<1>5. ASSUME NEW t \in Owned(u)' PROVE FALSE
  <2>1. t \in 1..Tokens /\ token'[t].row = "live" /\ token'[t].user = u
    BY <1>5 DEF Owned
  <2>2. CASE t \in Owned(u)
    BY <1>4, <2>1, <2>2, SignsOut
  <2>3. CASE t \notin Owned(u)
    BY <1>4, <2>1, <2>3 DEF SignedOut, Owned
  <2>. QED BY <2>2, <2>3
<1>. QED BY <1>5

\* A session is issued to somebody active, or to nobody.
LEMMA IssueStep ==
  ASSUME TypeOK, Vouched, ~workload.overlap, NEW r \in Request, NEW u \in User,
         IssueToken(r), req[r].user = u, req[r].op # "verifyEmailOtp"
  PROVE  Owned(u)' = Owned(u) \/ Admitted(u)
<1>1. CASE Exists(u)
  BY <1>1 DEF Vouched, IssueToken, Running, Admitted
<1>2. CASE ~Exists(u)
  <2>1. token' = token
    BY <1>2 DEF IssueToken
  <2>. QED BY <2>1 DEF Owned
<1>. QED BY <1>1, <1>2

\* Sessions end with the password they were opened with, and none begins for
\* somebody who is deactivated: a change or reset of a password deletes the
\* sessions in its own transaction, and every path to a session but the
\* verified address reads the account first.
THEOREM SessionsAreEnded == Spec => SessionsEnd
<1>. DEFINE Inv == TypeOK /\ Alone /\ Named /\ Vouched
            Step == /\ \A u \in User : account'[u].password # account[u].password => Owned(u)' = {}
                    /\ ~workload.overlap =>
                         \A r \in Request, u \in User :
                           IssueToken(r) /\ req[r].user = u /\ req[r].op # "verifyEmailOtp"
                             => Owned(u)' = Owned(u) \/ Admitted(u)
<1>1. Init => Inv
  <2>. SUFFICES ASSUME Init PROVE Inv
    OBVIOUS
  <2>1. \A r \in Request : req[r] = Idle
    BY DEF Init
  <2>2. Idle.at = ""
    BY DEF Idle
  <2>3. \A t \in 1..Tokens : token[t].row = "absent"
    BY DEF Init, NoToken
  <2>4. ASSUME NEW u \in User PROVE account[u].password = 0
    <3>1. account[u] = NewAccount \/ account[u] = [NewAccount EXCEPT !.row = "absent"]
      BY DEF Init
    <3>. QED BY <3>1 DEF NewAccount
  <2>. QED BY <2>1, <2>2, <2>3, <2>4, TypeInit DEF Alone, Named, Vouched
<1>2. Inv /\ [Next]_vars => Inv'
  BY TypeStep, AloneStep, NamedStep, VouchedStep
<1>3. Inv /\ [Next]_vars => [Step]_vars
  BY PasswordStep, IssueStep
<1>4. [][Step]_vars => SessionsEnd
  <2>1. [][Step]_vars => PasswordChangeSignsOut
    BY PTL DEF PasswordChangeSignsOut
  <2>2. [][Step]_vars => OnlyActiveSignIn
    BY PTL DEF OnlyActiveSignIn
  <2>. QED BY <2>1, <2>2 DEF SessionsEnd
<1>. QED BY <1>1, <1>2, <1>3, <1>4, PTL DEF Spec
=============================================================================
