----------------------------- MODULE MCAccounts -----------------------------
(* Small instances of Accounts for TLC. *)
EXTENDS Accounts, TLC

CONSTANTS u1, r1, r2

OneUser == {u1}
TwoRequests == {r1, r2}

\* Two requests that send and use codes at once; two that sign in, refresh and
\* sign out at once; and one request at a time, with codes or with sessions.
CodeOps == {"sendOtp", "forgotPassword", "verifyOtp", "verifyEmailOtp", "resetPassword"}
SessionOps == {"mobileLogin", "refresh", "logout", "revokeSession", "changePassword",
               "toggleStatus", "deleteUser"}
MailOps == CodeOps \union {"sendEmailOtp", "resendEmailOtp", "toggleStatus"}
PasswordOps == {"register", "login", "firebaseLogin", "forgotPassword", "resetPassword",
                "verifyEmailOtp", "toggleStatus", "refresh"}

Mixes == {[ops |-> CodeOps, overlap |-> TRUE], [ops |-> SessionOps, overlap |-> TRUE],
          [ops |-> MailOps, overlap |-> FALSE], [ops |-> PasswordOps, overlap |-> FALSE]}

Symmetry == Permutations(TwoRequests)
=============================================================================
