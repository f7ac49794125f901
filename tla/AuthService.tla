----------------------------- MODULE AuthService -----------------------------
(***************************************************************************)
(* The account and session core of the backend: AuthService with its       *)
(* guards (JwtStrategy, LocalStrategy) over the tables users,              *)
(* email_verification_tokens and password_reset_tokens.                    *)
(*                                                                         *)
(* A request runs in a slot of Handlers and takes one action per database  *)
(* statement, so that requests interleave wherever the code awaits.  The   *)
(* record of a slot holds the locals that outlive an await, in particular  *)
(* row, the user row as the handler last read it.                          *)
(*                                                                         *)
(* userRepo.save(entity) is two statements: a SELECT, by which TypeORM     *)
(* decides which columns of the entity differ from the table, and an       *)
(* UPDATE of those columns.  increment and update are one statement each.  *)
(***************************************************************************)
EXTENDS Naturals, FiniteSets

CONSTANTS
    Users,      \* accounts, one per distinct email address
    Seeded,     \* accounts that are registered and verified at the start
    Passwords,
    Handlers,   \* slots of requests in flight
    MaxTokens,  \* bound: one-time tokens minted
    MaxVersion, \* bound: no request that bumps tokenVersion starts above it
    Workload,   \* the endpoints that are called
    Faults,     \* what may go wrong
    None        \* no user, no password

Kinds == {"register", "resend", "verify", "login", "refresh", "logout",
          "change", "forgot", "reset"}

ASSUME SeededAssumption == Seeded \subseteq Users
ASSUME NoneAssumption == None \notin Users /\ None \notin Passwords
ASSUME HandlersAssumption == IsFiniteSet(Handlers)
ASSUME BoundsAssumption == MaxTokens \in Nat /\ MaxVersion \in Nat
ASSUME WorkloadAssumption == Workload \subseteq Kinds
ASSUME FaultsAssumption == Faults \subseteq {"abort", "save", "publish", "expiry"}

VARIABLES
    users,      \* the rows of the table users
    registered, \* the accounts that have a row
    ott,        \* one-time tokens: both token tables
    minted,     \* how many of them have been inserted
    issued,     \* sessions (access and refresh token pairs) handed to clients
    outbox,     \* mails the broker has accepted
    req,        \* the request in each slot
    overlapped, \* history: accounts whose tokenVersion changed between the
                \* read and the write of a save
    redeemed    \* history: password writes done with each token, up to 2

vars == <<users, registered, ott, minted, issued, outbox, req, overlapped, redeemed>>

TokenIds == 1..MaxTokens
Columns == {"password", "tokenVersion", "isActive", "emailVerified"}
Stages == {"idle", "insert", "invalidate", "mint", "publish", "burn", "issue",
           "rotate", "reissue", "guarded", "save"}

UserRow == [password: Passwords \cup {None}, tokenVersion: Nat,
            isActive: BOOLEAN, emailVerified: BOOLEAN]
OneTimeToken == [kind: {"free", "verify", "reset"}, user: Users \cup {None},
                 used: BOOLEAN, expired: BOOLEAN]
\* password is history: the one the session, or the session it was refreshed
\* from, was obtained with.
Session == [user: Users, version: Nat, password: Passwords \cup {None}]
Mail == [kind: {"verify", "reset", "welcome"}, user: Users, token: 0..MaxTokens]
Request == [at: Stages, kind: Kinds \cup {None}, u: Users \cup {None},
            t: 0..MaxTokens, row: UserRow, pw: Passwords \cup {None},
            cols: SUBSET Columns, todo: SUBSET {"diff", "write", "token"},
            ok: BOOLEAN]

TypeOK ==
    /\ users \in [Users -> UserRow]
    /\ registered \subseteq Users
    /\ ott \in [TokenIds -> OneTimeToken]
    /\ minted \in 0..MaxTokens
    /\ issued \subseteq Session
    /\ outbox \subseteq Mail
    /\ req \in [Handlers -> Request]
    /\ overlapped \subseteq Users
    /\ redeemed \in [TokenIds -> 0..2]

-----------------------------------------------------------------------------
(* Rows and reads *)

NoRow == [password |-> None, tokenVersion |-> 0,
          isActive |-> FALSE, emailVerified |-> FALSE]
NewUser(p) == [NoRow EXCEPT !.password = p]
VerifiedUser(p) == [NewUser(p) EXCEPT !.isActive = TRUE, !.emailVerified = TRUE]

Blank == [at |-> "idle", kind |-> None, u |-> None, t |-> 0, row |-> NoRow,
          pw |-> None, cols |-> {}, todo |-> {}, ok |-> TRUE]

FreeToken == [kind |-> "free", user |-> None, used |-> TRUE, expired |-> FALSE]

Starts(h, kind) == kind \in Workload /\ req[h].at = "idle"
Enter(h, r) == req' = [req EXCEPT ![h] = r]
Step(h, stage) == req' = [req EXCEPT ![h].at = stage]

\* the checks of validateUser, before the password is compared
LoginAllowed(row) == row.emailVerified /\ row.isActive

\* the WHERE clause of findActiveUserById
ActiveRow(row) == row.isActive /\ row.emailVerified

\* JwtStrategy.validate, and the version check of refreshTokens
Accepted(s) == /\ ActiveRow(users[s.user])
               /\ users[s.user].tokenVersion = s.version

\* Mutation: forgotPassword mails whoever has an account.
ResetForAnyone(row) == TRUE

\* the guard of forgotPassword
ResetAllowed(row) == row.emailVerified /\ row.isActive

\* Mutation: used is not looked at.
PresentableAgain(t, kind) == /\ t <= minted
                             /\ ott[t].kind = kind
                             /\ \E m \in outbox : m.token = t

\* the rows that find a token again: it must have been mailed and be unused
Presentable(t, kind) == /\ t <= minted
                        /\ ott[t].kind = kind
                        /\ ~ ott[t].used
                        /\ \E m \in outbox : m.token = t

Below(u) == users[u].tokenVersion < MaxVersion

-----------------------------------------------------------------------------
(* Registration and the one-time tokens *)

\* register up to the INSERT; an email that exists is refused.
Register(h) ==
    /\ Starts(h, "register")
    /\ \E u \in Users \ registered, p \in Passwords :
        Enter(h, [Blank EXCEPT !.at = "insert", !.kind = "register",
                               !.u = u, !.pw = p])
    /\ UNCHANGED <<users, registered, ott, minted, issued, outbox, overlapped, redeemed>>

\* The INSERT of register.  A concurrent registration of the email may have
\* come first: the unique index refuses this one.  The mail goes on without
\* the client, in the same slot.
InsertUser(h) ==
    LET u == req[h].u IN
    /\ req[h].at = "insert"
    /\ IF u \in registered
       THEN Enter(h, Blank) /\ UNCHANGED <<users, registered>>
       ELSE /\ users' = [users EXCEPT ![u] = NewUser(req[h].pw)]
            /\ registered' = registered \cup {u}
            /\ Step(h, "invalidate")
    /\ UNCHANGED <<ott, minted, issued, outbox, overlapped, redeemed>>

ResendVerification(h) ==
    /\ Starts(h, "resend")
    /\ \E u \in registered :
        /\ ~ users[u].emailVerified
        /\ Enter(h, [Blank EXCEPT !.at = "invalidate", !.kind = "resend", !.u = u])
    /\ UNCHANGED <<users, registered, ott, minted, issued, outbox, overlapped, redeemed>>

ForgotPassword(h) ==
    /\ Starts(h, "forgot")
    /\ \E u \in registered :
        /\ ResetAllowed(users[u])
        /\ Enter(h, [Blank EXCEPT !.at = "invalidate", !.kind = "forgot", !.u = u])
    /\ UNCHANGED <<users, registered, ott, minted, issued, outbox, overlapped, redeemed>>

TokenKind(r) == IF r.kind = "forgot" THEN "reset" ELSE "verify"

\* Mutation: the older tokens live on.
NotInvalidated(r) == ott

\* update({user, used: false}, {used: true}): the older tokens die
Invalidated(r) ==
    [t \in TokenIds |->
        IF ott[t].kind = TokenKind(r) /\ ott[t].user = r.u
        THEN [ott[t] EXCEPT !.used = TRUE] ELSE ott[t]]

InvalidateTokens(h) ==
    /\ req[h].at = "invalidate"
    /\ ott' = Invalidated(req[h])
    /\ Step(h, "mint")
    /\ UNCHANGED <<users, registered, minted, issued, outbox, overlapped, redeemed>>

InsertToken(h) ==
    /\ req[h].at = "mint"
    /\ minted < MaxTokens
    /\ minted' = minted + 1
    /\ ott' = [ott EXCEPT ![minted + 1] =
                [kind |-> TokenKind(req[h]), user |-> req[h].u,
                 used |-> FALSE, expired |-> FALSE]]
    /\ req' = [req EXCEPT ![h].at = "publish", ![h].t = minted + 1]
    /\ UNCHANGED <<users, registered, issued, outbox, overlapped, redeemed>>

MailOf(r) ==
    IF r.kind = "verify"
    THEN [kind |-> "welcome", user |-> r.u, token |-> 0]
    ELSE [kind |-> TokenKind(r), user |-> r.u, token |-> r.t]

\* EmailService hands the mail to the queue and swallows the error when the
\* broker does not take it: the request succeeds either way.
Publish(h) ==
    /\ req[h].at = "publish"
    /\ \/ outbox' = outbox \cup {MailOf(req[h])}
       \/ "publish" \in Faults /\ outbox' = outbox
    /\ Enter(h, Blank)
    /\ UNCHANGED <<users, registered, ott, minted, issued, overlapped, redeemed>>

\* Time passes the expiresAt of a token.
ExpireToken(t) ==
    /\ "expiry" \in Faults
    /\ ~ ott[t].used /\ ~ ott[t].expired
    /\ ott' = [ott EXCEPT ![t].expired = TRUE]
    /\ UNCHANGED <<users, registered, minted, issued, outbox, req, overlapped, redeemed>>

-----------------------------------------------------------------------------
(* Redeeming a token *)

\* Mutation: expiresAt is not looked at.
RefusedIfVerified(kind, t) == kind = "verify" /\ users[ott[t].user].emailVerified

\* An expired token, and a verification of a verified account, only burn the
\* token and are refused.
Refused(kind, t) ==
    \/ ott[t].expired
    \/ kind = "verify" /\ users[ott[t].user].emailVerified

\* One SELECT joins the token and its user.
Redeem(h, kind, p) ==
    \E t \in TokenIds :
        /\ Presentable(t, kind)
        /\ kind = "reset" => Below(ott[t].user)
        /\ Enter(h, [Blank EXCEPT
                !.at = IF Refused(kind, t) THEN "burn" ELSE "save",
                !.kind = kind, !.u = ott[t].user, !.t = t,
                !.row = users[ott[t].user], !.pw = p, !.todo = {"diff", "token"}])
        /\ UNCHANGED <<users, registered, ott, minted, issued, outbox, overlapped, redeemed>>

VerifyEmail(h) == Starts(h, "verify") /\ Redeem(h, "verify", None)

ResetPassword(h) ==
    /\ Starts(h, "reset")
    /\ \E p \in Passwords : Redeem(h, "reset", p)

BurnToken(h) ==
    /\ req[h].at = "burn"
    /\ ott' = [ott EXCEPT ![req[h].t].used = TRUE]
    /\ Enter(h, Blank)
    /\ UNCHANGED <<users, registered, minted, issued, outbox, overlapped, redeemed>>

-----------------------------------------------------------------------------
(* Sessions *)

\* validateUser: a password that does not match is refused.
ValidateUser(h) ==
    /\ Starts(h, "login")
    /\ \E u \in registered :
        /\ LoginAllowed(users[u])
        /\ Enter(h, [Blank EXCEPT !.at = "issue", !.kind = "login", !.u = u,
                                  !.row = users[u]])
    /\ UNCHANGED <<users, registered, ott, minted, issued, outbox, overlapped, redeemed>>

\* generateTokens signs the version validateUser read.
Login(h) ==
    LET r == req[h] IN
    /\ r.at = "issue"
    /\ issued' = issued \cup {[user |-> r.u, version |-> r.row.tokenVersion,
                               password |-> r.row.password]}
    /\ Enter(h, Blank)
    /\ UNCHANGED <<users, registered, ott, minted, outbox, overlapped, redeemed>>

RefreshTokens(h) ==
    /\ Starts(h, "refresh")
    /\ \E s \in issued :
        /\ Accepted(s) /\ Below(s.user)
        /\ Enter(h, [Blank EXCEPT !.at = "rotate", !.kind = "refresh",
                        !.u = s.user, !.row = users[s.user], !.pw = s.password])
    /\ UNCHANGED <<users, registered, ott, minted, issued, outbox, overlapped, redeemed>>

\* Mutation: decrement.
Dropped(u) == [users EXCEPT ![u].tokenVersion = @ - 1]

\* increment({id}, 'tokenVersion', 1)
Bumped(u) == [users EXCEPT ![u].tokenVersion = @ + 1]

RotateVersion(h) ==
    /\ req[h].at = "rotate"
    /\ users' = Bumped(req[h].u)
    /\ Step(h, "reissue")
    /\ UNCHANGED <<registered, ott, minted, issued, outbox, overlapped, redeemed>>

\* Mutations: the version is incremented once more, or not at all.
VersionAfterNext(row) == row.tokenVersion + 2
VersionUnchanged(row) == row.tokenVersion

\* The new pair carries the version that was read plus one, which is not
\* necessarily the version the row has by now.
NextTokenVersion(row) == row.tokenVersion + 1

IssueRefreshed(h) ==
    LET r == req[h] IN
    /\ r.at = "reissue"
    /\ issued' = issued \cup {[user |-> r.u, version |-> NextTokenVersion(r.row),
                               password |-> r.pw]}
    /\ Enter(h, Blank)
    /\ UNCHANGED <<users, registered, ott, minted, outbox, overlapped, redeemed>>

\* The JWT guard in front of logout and change-password.
Authenticate(h) ==
    /\ \E kind \in {"logout", "change"}, s \in issued :
        /\ Starts(h, kind)
        /\ Accepted(s) /\ Below(s.user)
        /\ Enter(h, [Blank EXCEPT !.at = "guarded", !.kind = kind, !.u = s.user])
    /\ UNCHANGED <<users, registered, ott, minted, issued, outbox, overlapped, redeemed>>

Logout(h) ==
    /\ req[h].at = "guarded" /\ req[h].kind = "logout"
    /\ users' = Bumped(req[h].u)
    /\ Enter(h, Blank)
    /\ UNCHANGED <<registered, ott, minted, issued, outbox, overlapped, redeemed>>

\* changePassword reads the row again; a wrong current password is refused.
ChangePassword(h) ==
    LET r == req[h] IN
    /\ r.at = "guarded" /\ r.kind = "change"
    /\ \E p \in Passwords :
        Enter(h, [r EXCEPT !.at = "save", !.row = users[r.u], !.pw = p,
                           !.todo = {"diff"}])
    /\ UNCHANGED <<users, registered, ott, minted, issued, outbox, overlapped, redeemed>>

-----------------------------------------------------------------------------
(* userRepo.save, alone (changePassword) or with tokenRepo.save in a       *)
(* Promise.all (verifyEmail, resetPassword)                                *)

\* Mutation: a new password keeps the version.
EntityKeepsVersion(r) ==
    IF r.kind = "verify"
    THEN [r.row EXCEPT !.isActive = TRUE, !.emailVerified = TRUE]
    ELSE [r.row EXCEPT !.password = r.pw]

\* The entity as the handler mutated it.
Entity(r) ==
    IF r.kind = "verify"
    THEN [r.row EXCEPT !.isActive = TRUE, !.emailVerified = TRUE]
    ELSE [r.row EXCEPT !.password = r.pw, !.tokenVersion = r.row.tokenVersion + 1]

\* The columns TypeORM will write.  password is not selected by default: it
\* is written if the handler set it.
Touched(r) ==
    {c \in Columns : IF c = "password" THEN r.kind # "verify"
                     ELSE Entity(r)[c] # users[r.u][c]}

SaveDiff(h) ==
    LET r == req[h] IN
    /\ r.at = "save" /\ "diff" \in r.todo
    /\ Enter(h, [r EXCEPT !.cols = Touched(r), !.todo = (r.todo \ {"diff"}) \cup {"write"}])
    /\ UNCHANGED <<users, registered, ott, minted, issued, outbox, overlapped, redeemed>>

\* Mutation: Promise.allSettled, a failed save does not fail the request.
AllSettled(r) ==
    IF r.todo # {} THEN r
    ELSE IF r.kind = "verify" THEN [r EXCEPT !.at = "publish"] ELSE Blank

\* Promise.all settles when no part is left.
Settled(r) ==
    IF r.todo # {} THEN r
    ELSE IF r.ok /\ r.kind = "verify" THEN [r EXCEPT !.at = "publish"] ELSE Blank

Done(r, part) == Settled([r EXCEPT !.todo = @ \ {part}])

Written(r) ==
    [password      |-> IF "password" \in r.cols THEN Entity(r).password
                       ELSE users[r.u].password,
     tokenVersion  |-> IF "tokenVersion" \in r.cols THEN Entity(r).tokenVersion
                       ELSE users[r.u].tokenVersion,
     isActive      |-> IF "isActive" \in r.cols THEN Entity(r).isActive
                       ELSE users[r.u].isActive,
     emailVerified |-> IF "emailVerified" \in r.cols THEN Entity(r).emailVerified
                       ELSE users[r.u].emailVerified]

SaveWrite(h) ==
    LET r == req[h] IN
    /\ r.at = "save" /\ "write" \in r.todo
    /\ users' = [users EXCEPT ![r.u] = Written(r)]
    /\ overlapped' = IF users[r.u].tokenVersion = r.row.tokenVersion THEN overlapped
                     ELSE overlapped \cup {r.u}
    /\ redeemed' = IF r.kind = "reset" /\ redeemed[r.t] < 2
                   THEN [redeemed EXCEPT ![r.t] = @ + 1] ELSE redeemed
    /\ Enter(h, Done(r, "write"))
    /\ UNCHANGED <<registered, ott, minted, issued, outbox>>

SaveToken(h) ==
    LET r == req[h] IN
    /\ r.at = "save" /\ "token" \in r.todo
    /\ ott' = [ott EXCEPT ![r.t].used = TRUE]
    /\ Enter(h, Done(r, "token"))
    /\ UNCHANGED <<users, registered, minted, issued, outbox, overlapped, redeemed>>

\* One of the two saves fails: the request does, the other save goes on.
SaveFails(h) ==
    LET r == req[h] IN
    /\ "save" \in Faults
    /\ r.at = "save"
    /\ \E part \in r.todo : Enter(h, Done([r EXCEPT !.ok = FALSE], part))
    /\ UNCHANGED <<users, registered, ott, minted, issued, outbox, overlapped, redeemed>>

\* The process dies, or a statement throws, between two awaits.
Abort(h) ==
    /\ "abort" \in Faults
    /\ req[h].at # "idle"
    /\ Enter(h, Blank)
    /\ UNCHANGED <<users, registered, ott, minted, issued, outbox, overlapped, redeemed>>

-----------------------------------------------------------------------------
Init ==
    /\ \E pw \in [Seeded -> Passwords] :
        users = [u \in Users |-> IF u \in Seeded THEN VerifiedUser(pw[u]) ELSE NoRow]
    /\ registered = Seeded
    /\ ott = [t \in TokenIds |-> FreeToken]
    /\ minted = 0
    /\ issued = {}
    /\ outbox = {}
    /\ req = [h \in Handlers |-> Blank]
    /\ overlapped = {}
    /\ redeemed = [t \in TokenIds |-> 0]

Next ==
    \/ \E h \in Handlers :
        \/ Register(h) \/ InsertUser(h)
        \/ ResendVerification(h) \/ ForgotPassword(h)
        \/ InvalidateTokens(h) \/ InsertToken(h) \/ Publish(h)
        \/ VerifyEmail(h) \/ ResetPassword(h) \/ BurnToken(h)
        \/ ValidateUser(h) \/ Login(h)
        \/ RefreshTokens(h) \/ RotateVersion(h) \/ IssueRefreshed(h)
        \/ Authenticate(h) \/ Logout(h) \/ ChangePassword(h)
        \/ SaveDiff(h) \/ SaveWrite(h) \/ SaveToken(h) \/ SaveFails(h)
        \/ Abort(h)
    \/ \E t \in TokenIds : ExpireToken(t)

Spec == Init /\ [][Next]_vars

-----------------------------------------------------------------------------
(* Properties *)

\* What the flows promise about an account, whatever is in flight: see
\* AccountLifecycle.
Status == [u \in Users |-> IF u \notin registered THEN "absent"
                           ELSE IF users[u].emailVerified THEN "verified" ELSE "pending"]
Mailed == {m.user : m \in {n \in outbox : n.kind = "verify"}}
Granted == {s.user : s \in issued}

Lifecycle == INSTANCE AccountLifecycle WITH
    status <- Status, mailed <- Mailed, granted <- Granted

\* AuthService implements the lifecycle of an account: only a mailed token
\* verifies it, nothing un-verifies it (no handler writes an unverified
\* snapshot back over a verified row), and a session goes only to a verified
\* account.
ImplementsLifecycle == Lifecycle!Spec

\* resend-verification and forgot-password retire the older tokens of the
\* account in a statement of their own before they insert a new one.  With n
\* requests in flight at most n tokens of a kind are usable at a time, so with
\* one there is a single usable token: the newest.
Usable(u, kind) == {t \in TokenIds : ott[t].kind = kind /\ ott[t].user = u /\ ~ ott[t].used}
OutstandingTokensBounded ==
    \A u \in Users, kind \in {"verify", "reset"} :
        Cardinality(Usable(u, kind)) <= Cardinality(Handlers)

\* A link that is expired or used up does nothing: an account without a token that
\* is unused and in time, and without a request that found one when it still was,
\* stays so until another token is made, its address is not verified and no
\* password of it is reset, whatever is presented in the meantime.
Redeemable(u, kind) == {t \in Usable(u, kind) : ~ ott[t].expired}
Redeeming(u, kind) == {h \in Handlers : /\ req[h].at = "save" /\ req[h].kind = kind
                                        /\ req[h].u = u}
Dead(u, kind) == Redeemable(u, kind) = {} /\ Redeeming(u, kind) = {}

DeadLinksDoNothing ==
    [][\A u \in Users, kind \in {"verify", "reset"} : Dead(u, kind) /\ minted' = minted =>
        /\ Dead(u, kind)'
        /\ kind = "verify" => users'[u].emailVerified = users[u].emailVerified
        /\ kind = "reset" =>
             \A t \in TokenIds : ott[t].user = u => redeemed'[t] = redeemed[t]]_vars

\* A welcome mail goes out only when both saves of verifyEmail have
\* succeeded: the account can log in and a token of it is burnt.
WelcomeMeansVerified ==
    \A m \in outbox : m.kind = "welcome" =>
        /\ LoginAllowed(users[m.user])
        /\ \E t \in TokenIds : ott[t].kind = "verify" /\ ott[t].user = m.user /\ ott[t].used

\* change-password "invalidates existing sessions": every session an account
\* accepts was obtained, directly or by refreshes, with the password it has now.
EverySessionHoldsCurrentPassword ==
    \A s \in issued : Accepted(s) => s.password = users[s.user].password

\* logout "revokes the refresh token": a session that is not accepted any more
\* (after a logout, a refresh, a password change) is never accepted again.
RevocationIsFinal ==
    [][\A s \in issued : ~ Accepted(s) => ~ Accepted(s)']_vars

\* What is left of the two with requests in flight: they hold for an account as
\* long as no save of its row has overlapped another change of its tokenVersion.
\* In particular a login or refresh that was in flight during a password change
\* yields nothing that is accepted after it.
SessionsHoldCurrentPassword ==
    \A s \in issued : s.user \notin overlapped /\ Accepted(s)
        => s.password = users[s.user].password

RevokedStayRevoked ==
    [][\A s \in issued : ~ Accepted(s) /\ s.user \notin overlapped' => ~ Accepted(s)']_vars

\* reset-password "consumes a valid password reset token": a token sets a
\* password once.
ResetTokenSingleUse == \A t \in TokenIds : redeemed[t] <= 1

\* refresh "exchanges a valid refresh token for a new access token pair": it
\* leaves the client with a session the account accepts.
RefreshReturnsLiveSession ==
    [][\A h \in Handlers : req[h].at = "reissue" /\ req'[h].at = "idle" =>
        \E s \in issued' : s.user = req[h].u /\ Accepted(s)']_vars
=============================================================================
