--------------------------- MODULE AuthSerialProofs ---------------------------
(***************************************************************************)
(* What AuthService promises, in its comments and API documentation, and   *)
(* keeps as long as one request is handled at a time: the theorems behind  *)
(* the run auth_serial, for any number of accounts, passwords, tokens and  *)
(* versions.                                                               *)
(***************************************************************************)
EXTENDS AuthServiceProofs

OneSlot == \A h, k \in Handlers : h = k

(***************************************************************************)
(* Sessions                                                                *)
(***************************************************************************)

Unwritten(r) == "diff" \in r.todo \/ "write" \in r.todo

\* A save writes once, over the row its entity was read from.
SaveFresh(h) ==
    LET r == req[h] IN
    r.at = "save" =>
        /\ ~ ("diff" \in r.todo /\ "write" \in r.todo)
        /\ Unwritten(r) => r.row.tokenVersion = users[r.u].tokenVersion

FreshInv == overlapped = {} /\ \A h \in Handlers : SaveFresh(h)

LEMMA FreshInit == Init => FreshInv
BY DEF Init, FreshInv, SaveFresh, Blank

LEMMA FreshStep == OneSlot /\ TypeInv /\ FreshInv /\ [Next]_vars => FreshInv'
<1> SUFFICES ASSUME OneSlot, TypeInv, FreshInv, [Next]_vars PROVE FreshInv'
  OBVIOUS
<1> USE DEF TypeInv, TypeOK
\* A step that leaves its slot, the only one, outside a save.
<1>1. ASSUME NEW h \in Handlers, req'[h].at # "save", overlapped' = overlapped
      PROVE  FreshInv'
  <2>1. \A k \in Handlers : SaveFresh(k)'
    BY <1>1 DEF OneSlot, SaveFresh
  <2>2. QED
    BY <1>1, <2>1 DEF FreshInv
<1>2. ASSUME NEW h \in Handlers,
             \/ Register(h) \/ ResendVerification(h) \/ ForgotPassword(h)
             \/ ValidateUser(h) \/ RefreshTokens(h) \/ Authenticate(h)
      PROVE  FreshInv'
  <2>1. CASE Register(h) \/ ResendVerification(h) \/ ForgotPassword(h)
    <3>1. req'[h].at # "save" /\ overlapped' = overlapped
      BY <2>1 DEF Register, ResendVerification, ForgotPassword, Enter, Blank
    <3>2. QED
      BY <1>1, <3>1
  <2>2. CASE ValidateUser(h) \/ RefreshTokens(h) \/ Authenticate(h)
    <3>1. req'[h].at # "save" /\ overlapped' = overlapped
      BY <2>2 DEF ValidateUser, RefreshTokens, Authenticate, Enter, Blank
    <3>2. QED
      BY <1>1, <3>1
  <2>3. QED
    BY <1>2, <2>1, <2>2
<1>3. ASSUME NEW h \in Handlers,
             \/ InsertUser(h) \/ InvalidateTokens(h) \/ InsertToken(h) \/ RotateVersion(h)
      PROVE  FreshInv'
  <2>1. req[h] \in Request
    OBVIOUS
  <2>2. req'[h].at # "save" /\ overlapped' = overlapped
    BY <1>3, <2>1 DEF InsertUser, InvalidateTokens, InsertToken, RotateVersion, Enter, Step,
       Blank, Request
  <2>3. QED
    BY <1>1, <2>2
<1>4. ASSUME NEW h \in Handlers,
             \/ Publish(h) \/ BurnToken(h) \/ Login(h) \/ IssueRefreshed(h) \/ Logout(h)
             \/ Abort(h)
      PROVE  FreshInv'
  <2>1. req'[h] = Blank /\ overlapped' = overlapped
    BY <1>4 DEF Publish, BurnToken, Login, IssueRefreshed, Logout, Abort, Enter
  <2>2. QED
    BY <1>1, <2>1 DEF Blank
\* A handler reads the row and starts to save.
<1>5. ASSUME NEW h \in Handlers, NEW u \in Users, NEW r, Enter(h, r), r.row = users[u], r.u = u,
             "write" \notin r.todo, users' = users, overlapped' = overlapped
      PROVE  FreshInv'
  <2>1. req'[h] = r
    BY <1>5 DEF Enter
  <2>2. SaveFresh(h)'
    BY <1>5, <2>1 DEF SaveFresh
  <2>3. QED
    BY <1>5, <2>2 DEF FreshInv, OneSlot
<1>6. ASSUME NEW h \in Handlers, NEW kind, NEW p, Redeem(h, kind, p) PROVE FreshInv'
  <2>1. PICK t \in TokenIds :
          /\ Presentable(t, kind)
          /\ Enter(h, [Blank EXCEPT
                !.at = IF Refused(kind, t) THEN "burn" ELSE "save",
                !.kind = kind, !.u = ott[t].user, !.t = t,
                !.row = users[ott[t].user], !.pw = p, !.todo = {"diff", "token"}])
          /\ users' = users /\ overlapped' = overlapped
    BY <1>6 DEF Redeem
  <2>2. ott[t].user \in Users \/ ott[t].kind = "free"
    BY DEF TokensTyped
  <2>3. CASE ott[t].user \in Users
    <3> DEFINE r == [Blank EXCEPT
                !.at = IF Refused(kind, t) THEN "burn" ELSE "save",
                !.kind = kind, !.u = ott[t].user, !.t = t,
                !.row = users[ott[t].user], !.pw = p, !.todo = {"diff", "token"}]
    <3>1. r.row = users[ott[t].user] /\ r.u = ott[t].user /\ r.todo = {"diff", "token"}
      BY DEF Blank
    <3>2. Enter(h, r)
      BY <2>1
    <3> HIDE DEF r
    <3>3. QED
      BY <1>5, <2>1, <2>3, <3>1, <3>2
  <2>4. CASE ott[t].kind = "free"
    <3>1. req'[h].todo = {"diff", "token"} /\ req'[h].row = users[req'[h].u]
      BY <2>1 DEF Enter, Blank
    <3>2. SaveFresh(h)'
      BY <2>1, <3>1 DEF SaveFresh
    <3>3. QED
      BY <2>1, <3>2 DEF FreshInv, OneSlot
  <2>5. QED
    BY <2>2, <2>3, <2>4
<1>7. ASSUME NEW h \in Handlers, ChangePassword(h) PROVE FreshInv'
  <2>1. PICK p \in Passwords :
          Enter(h, [req[h] EXCEPT !.at = "save", !.row = users[req[h].u], !.pw = p,
                                  !.todo = {"diff"}])
    BY <1>7 DEF ChangePassword
  <2>2. req[h] \in Request /\ req[h].u \in Users /\ users' = users /\ overlapped' = overlapped
    BY <1>7 DEF ChangePassword, SlotTyped
  <2> DEFINE r == [req[h] EXCEPT !.at = "save", !.row = users[req[h].u], !.pw = p,
                                 !.todo = {"diff"}]
  <2>3. r.row = users[req[h].u] /\ r.u = req[h].u /\ r.todo = {"diff"} /\ Enter(h, r)
    BY <2>1, <2>2 DEF Request
  <2> HIDE DEF r
  <2>4. QED
    BY <1>5, <2>2, <2>3
<1>8. ASSUME NEW h \in Handlers, SaveDiff(h) PROVE FreshInv'
  <2>1. /\ req[h] \in Request /\ req[h].at = "save" /\ SaveFresh(h) /\ "diff" \in req[h].todo
        /\ users' = users /\ overlapped' = overlapped
    BY <1>8 DEF SaveDiff, FreshInv
  <2>2. /\ req'[h].todo = (req[h].todo \ {"diff"}) \cup {"write"}
        /\ req'[h].row = req[h].row /\ req'[h].u = req[h].u
    BY <1>8, <2>1 DEF SaveDiff, Enter, Request
  <2>3. SaveFresh(h)'
    BY <2>1, <2>2 DEF SaveFresh, Unwritten
  <2>4. QED
    BY <2>1, <2>3 DEF FreshInv, OneSlot
\* A part of a save ends; the row stays as it was while it is still to be written.
<1>9. ASSUME NEW h \in Handlers, NEW q \in Request, NEW part, Enter(h, Done(q, part)),
             q.at = "save", q.todo = req[h].todo, q.row = req[h].row, q.u = req[h].u,
             req[h].at = "save", overlapped' = overlapped,
             (part = "write" /\ "write" \in q.todo) \/ users' = users
      PROVE  FreshInv'
  <2>1. PICK r : r = Done(q, part)
    OBVIOUS
  <2>2. \/ r = [q EXCEPT !.todo = q.todo \ {part}]
        \/ r = [q EXCEPT !.todo = {}, !.at = "publish"]
        \/ r = Blank
    BY <1>9, <2>1, AfterPart
  <2>3. \/ r.todo = q.todo \ {part} /\ r.row = q.row /\ r.u = q.u
        \/ r.at # "save"
    <3>1. CASE r = [q EXCEPT !.todo = q.todo \ {part}]
      BY <1>9, <3>1 DEF Request
    <3>2. CASE r = [q EXCEPT !.todo = {}, !.at = "publish"]
      <4>1. r.at = "publish"
        BY <1>9, <3>2 DEF Request
      <4>2. QED
        BY <4>1
    <3>3. CASE r = Blank
      BY <3>3 DEF Blank
    <3>4. QED
      BY <2>2, <3>1, <3>2, <3>3
  <2>4. req'[h] = r /\ SaveFresh(h)
    BY <1>9, <2>1 DEF Enter, FreshInv
  <2>5. CASE r.at # "save"
    BY <1>1, <1>9, <2>4, <2>5
  <2>6. CASE r.todo = q.todo \ {part} /\ r.row = q.row /\ r.u = q.u
    <3>1. SaveFresh(h)'
      <4>1. CASE users' = users
        <5>1. /\ ~ ("diff" \in q.todo /\ "write" \in q.todo)
              /\ Unwritten(q) => q.row.tokenVersion = users[q.u].tokenVersion
          BY <1>9, <2>4 DEF SaveFresh, Unwritten
        <5>2. /\ ~ ("diff" \in r.todo /\ "write" \in r.todo)
              /\ Unwritten(r) => r.row.tokenVersion = users'[r.u].tokenVersion
          BY <2>6, <4>1, <5>1 DEF Unwritten
        <5>3. QED
          BY <2>4, <5>2 DEF SaveFresh, Unwritten
      <4>2. CASE part = "write" /\ "write" \in q.todo
        <5>1. "write" \notin r.todo /\ "diff" \notin r.todo
          BY <1>9, <2>4, <2>6, <4>2 DEF SaveFresh
        <5>2. QED
          BY <2>4, <5>1 DEF SaveFresh, Unwritten
      <4>3. QED
        BY <1>9, <4>1, <4>2
    <3>2. QED
      BY <1>9, <3>1 DEF FreshInv, OneSlot
  <2>7. QED
    BY <2>3, <2>5, <2>6
<1>10. ASSUME NEW h \in Handlers, SaveWrite(h) PROVE FreshInv'
  <2>1. /\ req[h] \in Request /\ req[h].at = "save" /\ "write" \in req[h].todo
        /\ SaveFresh(h) /\ Enter(h, Done(req[h], "write"))
    BY <1>10 DEF SaveWrite, FreshInv
  <2>2. overlapped' = overlapped
    BY <1>10, <2>1 DEF SaveWrite, SaveFresh, Unwritten
  <2>3. QED
    BY <1>9, <2>1, <2>2
<1>11. ASSUME NEW h \in Handlers, SaveToken(h) PROVE FreshInv'
  <2>1. /\ req[h] \in Request /\ req[h].at = "save" /\ Enter(h, Done(req[h], "token"))
        /\ users' = users /\ overlapped' = overlapped
    BY <1>11 DEF SaveToken
  <2>2. QED
    BY <1>9, <2>1
<1>12. ASSUME NEW h \in Handlers, SaveFails(h) PROVE FreshInv'
  <2>1. /\ req[h] \in Request /\ req[h].at = "save"
        /\ users' = users /\ overlapped' = overlapped
    BY <1>12 DEF SaveFails
  <2>2. PICK q \in Request : q = [req[h] EXCEPT !.ok = FALSE]
    BY <2>1 DEF Request
  <2>3. q.at = "save" /\ q.todo = req[h].todo /\ q.row = req[h].row /\ q.u = req[h].u
    BY <2>1, <2>2 DEF Request
  <2>4. \E part : Enter(h, Done(q, part))
    BY <1>12, <2>2 DEF SaveFails
  <2>5. QED
    BY <1>9, <2>1, <2>3, <2>4
<1>13. ASSUME NEW t \in TokenIds, ExpireToken(t) PROVE FreshInv'
  BY <1>13 DEF ExpireToken, FreshInv, SaveFresh
<1>14. CASE UNCHANGED vars
  BY <1>14 DEF vars, FreshInv, SaveFresh
<1>15. QED
  BY <1>2, <1>3, <1>4, <1>6, <1>7, <1>8, <1>10, <1>11, <1>12, <1>13, <1>14
     DEF Next, VerifyEmail, ResetPassword

LEMMA FreshInvariant == OneSlot /\ Spec => []FreshInv
<1>1. OneSlot => OneSlot'
  BY DEF OneSlot
<1>2. QED
  BY <1>1, FreshInit, FreshStep, TypeInvariant, PTL DEF Spec

\* change-password "invalidates existing sessions": with one request at a time
\* every session an account accepts was obtained with its current password,
\* whatever fails.
THEOREM SerialSessions == OneSlot /\ Spec => []EverySessionHoldsCurrentPassword
<1>1. SessionsHoldCurrentPassword /\ FreshInv => EverySessionHoldsCurrentPassword
  BY DEF SessionsHoldCurrentPassword, FreshInv, EverySessionHoldsCurrentPassword
<1>2. QED
  BY <1>1, FreshInvariant, CurrentPassword, PTL

\* logout "revokes the refresh token": with one request at a time a session
\* that is not accepted is never accepted again, whatever fails.
THEOREM SerialRevocation == OneSlot /\ Spec => RevocationIsFinal
<1>1. FreshInv' /\ [\A s \in issued : ~ Accepted(s) /\ s.user \notin overlapped' => ~ Accepted(s)']_vars
        => [\A s \in issued : ~ Accepted(s) => ~ Accepted(s)']_vars
  BY DEF FreshInv
<1>2. QED
  BY <1>1, FreshInvariant, RevocationLasts, PTL DEF RevokedStayRevoked, RevocationIsFinal

(***************************************************************************)
(* Reset tokens                                                            *)
(***************************************************************************)

\* Both parts of a reset succeed and the process lives to see it.
ResetsComplete == "save" \notin Faults /\ "abort" \notin Faults

\* The request that is about to mark token t as used.
Closing(r, t) == r.at = "save" /\ r.t = t /\ "token" \in r.todo

TokenOnce(t) ==
    /\ redeemed[t] <= 1
    /\ redeemed[t] > 0 =>
        /\ ott[t].kind = "reset"
        /\ ott[t].used \/ \E h \in Handlers : Closing(req[h], t)

SlotOnce(h) ==
    LET r == req[h] IN
    r.at = "save" /\ r.kind = "reset" =>
        /\ ott[r.t].kind = "reset"
        /\ Unwritten(r) => redeemed[r.t] = 0
        /\ ott[r.t].used \/ "token" \in r.todo

OnceInv ==
    /\ \A t \in TokenIds : TokenOnce(t)
    /\ \A h \in Handlers : SlotOnce(h)

LEMMA OnceInit == Init => OnceInv
BY DEF Init, OnceInv, TokenOnce, SlotOnce, Blank

LEMMA OnceStep ==
    OneSlot /\ ResetsComplete /\ TypeInv /\ AccountInv /\ FreshInv /\ OnceInv /\ [Next]_vars
        => OnceInv'
<1> SUFFICES ASSUME OneSlot, ResetsComplete, TypeInv, AccountInv, FreshInv, OnceInv, [Next]_vars
             PROVE  OnceInv'
  OBVIOUS
<1> USE DEF TypeInv, TypeOK
<1>0. ASSUME NEW t \in TokenIds, ott[t].kind = "reset"
      PROVE  ott'[t].kind = "reset" /\ (ott[t].used => ott'[t].used)
  BY <1>0, AccountGrows, UsedStays DEF Grows
\* A token that was redeemed stays one that was redeemed once.
<1>1. ASSUME NEW h \in Handlers, redeemed' = redeemed,
             \A t \in TokenIds : Closing(req[h], t) => Closing(req'[h], t) \/ ott'[t].used
      PROVE  \A t \in TokenIds : TokenOnce(t)'
  <2>1. SUFFICES ASSUME NEW t \in TokenIds, redeemed[t] > 0
                 PROVE  ott'[t].kind = "reset" /\ (ott'[t].used \/ Closing(req'[h], t))
    BY <1>1 DEF OnceInv, TokenOnce
  <2>2. ott[t].kind = "reset" /\ (ott[t].used \/ Closing(req[h], t))
    BY <2>1 DEF OnceInv, TokenOnce, OneSlot
  <2>3. QED
    BY <1>0, <1>1, <2>2
<1>2. ASSUME NEW h \in Handlers, redeemed' = redeemed,
             req[h].at # "save", req'[h].at # "save" \/ req'[h].kind # "reset"
      PROVE  OnceInv'
  <2>1. \A t \in TokenIds : TokenOnce(t)'
    BY <1>1, <1>2 DEF Closing
  <2>2. \A k \in Handlers : SlotOnce(k)'
    BY <1>2 DEF OneSlot, SlotOnce
  <2>3. QED
    BY <2>1, <2>2 DEF OnceInv
<1>3. ASSUME NEW h \in Handlers,
             \/ Register(h) \/ ResendVerification(h) \/ ForgotPassword(h)
             \/ ValidateUser(h) \/ RefreshTokens(h) \/ Authenticate(h)
      PROVE  OnceInv'
  <2>1. redeemed' = redeemed /\ req[h].at # "save"
    BY <1>3 DEF Register, ResendVerification, ForgotPassword, ValidateUser, RefreshTokens,
       Authenticate, Starts
  <2>2. CASE Register(h) \/ ResendVerification(h) \/ ForgotPassword(h)
    <3>1. req'[h].at # "save"
      BY <2>2 DEF Register, ResendVerification, ForgotPassword, Enter, Blank
    <3>2. QED
      BY <1>2, <2>1, <3>1
  <2>3. CASE ValidateUser(h) \/ RefreshTokens(h) \/ Authenticate(h)
    <3>1. req'[h].at # "save"
      BY <2>3 DEF ValidateUser, RefreshTokens, Authenticate, Enter, Blank
    <3>2. QED
      BY <1>2, <2>1, <3>1
  <2>4. QED
    BY <1>3, <2>2, <2>3
<1>4. ASSUME NEW h \in Handlers,
             \/ InsertUser(h) \/ InvalidateTokens(h) \/ InsertToken(h) \/ RotateVersion(h)
      PROVE  OnceInv'
  <2>1. req[h] \in Request /\ redeemed' = redeemed /\ req[h].at # "save"
    BY <1>4 DEF InsertUser, InvalidateTokens, InsertToken, RotateVersion
  <2>2. req'[h].at # "save"
    BY <1>4, <2>1 DEF InsertUser, InvalidateTokens, InsertToken, RotateVersion, Enter, Step,
       Blank, Request
  <2>3. QED
    BY <1>2, <2>1, <2>2
<1>5. ASSUME NEW h \in Handlers,
             \/ Publish(h) \/ BurnToken(h) \/ Login(h) \/ IssueRefreshed(h) \/ Logout(h)
      PROVE  OnceInv'
  <2>1. /\ req'[h] = Blank /\ redeemed' = redeemed /\ req[h].at # "save"
    BY <1>5 DEF Publish, BurnToken, Login, IssueRefreshed, Logout, Enter
  <2>2. QED
    BY <1>2, <2>1 DEF Blank
<1>6. ASSUME NEW h \in Handlers, ChangePassword(h) PROVE OnceInv'
  <2>1. /\ req[h] \in Request /\ req[h].kind = "change" /\ req[h].at # "save"
        /\ redeemed' = redeemed
    BY <1>6 DEF ChangePassword
  <2>2. req'[h].kind = "change"
    BY <1>6, <2>1 DEF ChangePassword, Enter, Request
  <2>3. QED
    BY <1>2, <2>1, <2>2
\* A token is found again only if nobody has redeemed it.
<1>7. ASSUME NEW h \in Handlers, NEW kind, NEW p, Redeem(h, kind, p), req[h].at = "idle"
      PROVE  OnceInv'
  <2>1. PICK t \in TokenIds :
          /\ Presentable(t, kind)
          /\ Enter(h, [Blank EXCEPT
                !.at = IF Refused(kind, t) THEN "burn" ELSE "save",
                !.kind = kind, !.u = ott[t].user, !.t = t,
                !.row = users[ott[t].user], !.pw = p, !.todo = {"diff", "token"}])
          /\ ott' = ott /\ redeemed' = redeemed
    BY <1>7 DEF Redeem
  <2>2. req'[h].t = t /\ req'[h].kind = kind /\ req'[h].todo = {"diff", "token"}
    BY <2>1 DEF Enter, Blank
  <2>3. redeemed[t] = 0
    <3>1. TokenOnce(t) /\ ~ ott[t].used /\ redeemed[t] \in 0..2
      BY <2>1 DEF OnceInv, Presentable
    <3>2. \A k \in Handlers : ~ Closing(req[k], t)
      BY <1>7 DEF OneSlot, Closing
    <3>3. QED
      BY <3>1, <3>2 DEF TokenOnce
  <2>4. SlotOnce(h)'
    BY <2>1, <2>2, <2>3 DEF SlotOnce, Presentable
  <2>5. \A q \in TokenIds : TokenOnce(q)'
    BY <1>1, <1>7, <2>1 DEF Closing
  <2>6. QED
    BY <2>4, <2>5 DEF OnceInv, OneSlot
<1>8. ASSUME NEW h \in Handlers, VerifyEmail(h) \/ ResetPassword(h) PROVE OnceInv'
  BY <1>7, <1>8 DEF VerifyEmail, ResetPassword, Starts
<1>9. ASSUME NEW h \in Handlers, SaveDiff(h) PROVE OnceInv'
  <2>1. /\ req[h] \in Request /\ req[h].at = "save" /\ "diff" \in req[h].todo
        /\ ott' = ott /\ redeemed' = redeemed /\ SlotOnce(h)
    BY <1>9 DEF SaveDiff, OnceInv
  <2>2. /\ req'[h].at = "save" /\ req'[h].t = req[h].t /\ req'[h].kind = req[h].kind
        /\ req'[h].todo = (req[h].todo \ {"diff"}) \cup {"write"}
    BY <1>9, <2>1 DEF SaveDiff, Enter, Request
  <2>3. \A t \in TokenIds : TokenOnce(t)'
    BY <1>1, <2>1, <2>2 DEF Closing
  <2>4. SlotOnce(h)'
    BY <2>1, <2>2 DEF SlotOnce, Unwritten
  <2>5. QED
    BY <2>3, <2>4 DEF OnceInv, OneSlot
\* What is left of a save after one of its parts.
<1>10. ASSUME NEW h \in Handlers, NEW part, Enter(h, Done(req[h], part)), req[h].at = "save"
       PROVE  \/ /\ req'[h].at = "save" /\ req'[h].t = req[h].t /\ req'[h].kind = req[h].kind
                 /\ req'[h].todo = req[h].todo \ {part}
              \/ req'[h].at # "save" /\ req[h].todo \ {part} = {}
  <2>1. req'[h] = Done(req[h], part) /\ req[h] \in Request
    BY <1>10 DEF Enter
  <2>2. CASE Done(req[h], part) = [req[h] EXCEPT !.todo = req[h].todo \ {part}]
    BY <1>10, <2>1, <2>2 DEF Request
  <2>3. CASE /\ req[h].todo \ {part} = {}
             /\ Done(req[h], part) = [req[h] EXCEPT !.todo = {}, !.at = "publish"]
    <3>1. req'[h].at = "publish"
      BY <2>1, <2>3 DEF Request
    <3>2. QED
      BY <2>3, <3>1
  <2>4. CASE req[h].todo \ {part} = {} /\ Done(req[h], part) = Blank
    BY <2>1, <2>4 DEF Blank
  <2>5. QED
    BY <1>10, <2>1, <2>2, <2>3, <2>4, AfterPart
<1>11. ASSUME NEW h \in Handlers, SaveWrite(h) PROVE OnceInv'
  <2>1. /\ req[h] \in Request /\ req[h].at = "save" /\ "write" \in req[h].todo
        /\ Enter(h, Done(req[h], "write")) /\ ott' = ott
        /\ SlotOnce(h) /\ SaveFresh(h) /\ SlotTyped(req[h])
    BY <1>11 DEF SaveWrite, OnceInv, FreshInv
  <2>2. \/ /\ req'[h].at = "save" /\ req'[h].t = req[h].t /\ req'[h].kind = req[h].kind
           /\ req'[h].todo = req[h].todo \ {"write"}
        \/ req'[h].at # "save" /\ req[h].todo \ {"write"} = {}
    BY <1>10, <2>1
  <2>3. "diff" \notin req[h].todo
    BY <2>1 DEF SaveFresh
  <2>4. SlotOnce(h)'
    BY <2>1, <2>2, <2>3 DEF SlotOnce, Unwritten
  <2>5. \A t \in TokenIds : Closing(req[h], t) => Closing(req'[h], t)
    BY <2>2 DEF Closing
  <2>6. CASE req[h].kind # "reset"
    <3>1. redeemed' = redeemed
      BY <1>11, <2>6 DEF SaveWrite
    <3>2. \A t \in TokenIds : TokenOnce(t)'
      BY <1>1, <2>5, <3>1
    <3>3. QED
      BY <2>4, <3>2 DEF OnceInv, OneSlot
  <2>7. CASE req[h].kind = "reset"
    <3>1. PICK n \in TokenIds : n = req[h].t
      BY <2>1, <2>7 DEF SlotTyped
    <3>2. /\ ott[n].kind = "reset" /\ redeemed[n] = 0
          /\ ott[n].used \/ Closing(req[h], n)
      BY <2>1, <2>7, <3>1 DEF SlotOnce, Unwritten, Closing
    <3>3. redeemed'[n] = 1 /\ \A t \in TokenIds : t # n => redeemed'[t] = redeemed[t]
      BY <1>11, <2>7, <3>1, <3>2 DEF SaveWrite
    <3>4. TokenOnce(n)'
      BY <2>1, <2>5, <3>2, <3>3 DEF TokenOnce
    <3>5. ASSUME NEW t \in TokenIds, t # n PROVE TokenOnce(t)'
      <4>1. TokenOnce(t) /\ ~ Closing(req[h], t)
        BY <3>1, <3>5 DEF OnceInv, Closing
      <4>2. redeemed[t] > 0 => ott[t].used
        BY <4>1 DEF TokenOnce, OneSlot
      <4>3. QED
        BY <2>1, <3>3, <3>5, <4>1, <4>2 DEF TokenOnce
    <3>6. QED
      BY <2>4, <3>4, <3>5 DEF OnceInv, OneSlot
  <2>8. QED
    BY <2>6, <2>7
<1>12. ASSUME NEW h \in Handlers, SaveToken(h) PROVE OnceInv'
  <2>1. /\ req[h] \in Request /\ req[h].at = "save" /\ "token" \in req[h].todo
        /\ Enter(h, Done(req[h], "token")) /\ redeemed' = redeemed
        /\ ott' = [ott EXCEPT ![req[h].t].used = TRUE]
        /\ SlotOnce(h) /\ SlotTyped(req[h])
    BY <1>12 DEF SaveToken, OnceInv
  <2>2. req[h].t \in TokenIds
    BY <2>1 DEF SlotTyped
  <2>3. ott'[req[h].t].used /\ ott'[req[h].t].kind = ott[req[h].t].kind
    BY <2>1, <2>2 DEF OneTimeToken
  <2>4. \/ /\ req'[h].at = "save" /\ req'[h].t = req[h].t /\ req'[h].kind = req[h].kind
           /\ req'[h].todo = req[h].todo \ {"token"}
        \/ req'[h].at # "save" /\ req[h].todo \ {"token"} = {}
    BY <1>10, <2>1
  <2>5. SlotOnce(h)'
    BY <2>1, <2>3, <2>4 DEF SlotOnce, Unwritten
  <2>6. \A t \in TokenIds : TokenOnce(t)'
    BY <1>1, <2>1, <2>3 DEF Closing
  <2>7. QED
    BY <2>5, <2>6 DEF OnceInv, OneSlot
<1>13. ASSUME NEW h \in Handlers, SaveFails(h) \/ Abort(h) PROVE FALSE
  BY <1>13 DEF SaveFails, Abort, ResetsComplete
<1>14. ASSUME NEW t \in TokenIds, ExpireToken(t) PROVE OnceInv'
  <2>1. req' = req /\ redeemed' = redeemed
        /\ \A q \in TokenIds : ott'[q].kind = ott[q].kind /\ ott'[q].used = ott[q].used
    BY <1>14 DEF ExpireToken, OneTimeToken
  <2>2. \A q \in TokenIds : TokenOnce(q)'
    BY <2>1 DEF OnceInv, TokenOnce
  <2>3. \A h \in Handlers : SlotOnce(h)'
    BY <2>1 DEF OnceInv, SlotOnce, Unwritten, SlotTyped
  <2>4. QED
    BY <2>2, <2>3 DEF OnceInv
<1>15. CASE UNCHANGED vars
  BY <1>15 DEF vars, OnceInv, TokenOnce, SlotOnce, Unwritten
<1>16. QED
  BY <1>3, <1>4, <1>5, <1>6, <1>8, <1>9, <1>11, <1>12, <1>13, <1>14, <1>15 DEF Next

\* reset-password "consumes a valid password reset token": with one request at
\* a time, and every reset that starts completed, a token sets one password.
THEOREM SerialResets == OneSlot /\ ResetsComplete /\ Spec => []ResetTokenSingleUse
<1>1. OnceInv => ResetTokenSingleUse
  BY DEF OnceInv, TokenOnce, ResetTokenSingleUse
<1>2. /\ OneSlot => OneSlot'
      /\ ResetsComplete => ResetsComplete'
  BY DEF OneSlot, ResetsComplete
<1>3. QED
  BY <1>1, <1>2, OnceInit, OnceStep, FreshInvariant, TypeInvariant, AccountInvariant, PTL DEF Spec

(***************************************************************************)
(* What the answer of refresh means                                        *)
(***************************************************************************)

NoAbort == "abort" \notin Faults

\* Between accepting a refresh token and answering, the account stays as the
\* handler read it, but for its own increment.
RefreshSound(h) ==
    LET r == req[h] IN
    r.at \in {"rotate", "reissue"} =>
        /\ ActiveRow(users[r.u])
        /\ users[r.u].tokenVersion =
               IF r.at = "rotate" THEN r.row.tokenVersion ELSE NextTokenVersion(r.row)

RefreshInv == \A h \in Handlers : RefreshSound(h)

LEMMA RefreshInit == Init => RefreshInv
BY DEF Init, RefreshInv, RefreshSound, Blank

LEMMA RefreshStep == OneSlot /\ TypeInv /\ RefreshInv /\ [Next]_vars => RefreshInv'
<1> SUFFICES ASSUME OneSlot, TypeInv, RefreshInv, [Next]_vars PROVE RefreshInv'
  OBVIOUS
<1>0. /\ req \in [Handlers -> Request] /\ users \in [Users -> UserRow]
      /\ \A h \in Handlers : SlotTyped(req[h])
  BY DEF TypeInv, TypeOK
\* A step after which the only slot is not refreshing.
<1>1. ASSUME NEW h \in Handlers, req'[h].at \notin {"rotate", "reissue"} PROVE RefreshInv'
  <2>1. ASSUME NEW k \in Handlers PROVE RefreshSound(k)'
    <3>1. k = h
      BY DEF OneSlot
    <3>2. QED
      BY <1>1, <3>1 DEF RefreshSound
  <2>2. QED
    BY <2>1 DEF RefreshInv
<1>2. ASSUME NEW h \in Handlers, Register(h) \/ ResendVerification(h) \/ ForgotPassword(h)
      PROVE  RefreshInv'
  <2>1. req'[h].at # "rotate" /\ req'[h].at # "reissue"
    BY <1>2 DEF Register, ResendVerification, ForgotPassword, Enter, Blank, TypeInv, TypeOK
  <2>2. QED
    BY <1>1, <2>1
<1>3. ASSUME NEW h \in Handlers, ValidateUser(h) \/ Authenticate(h) PROVE RefreshInv'
  <2>1. req'[h].at # "rotate" /\ req'[h].at # "reissue"
    BY <1>3 DEF ValidateUser, Authenticate, Enter, Blank, TypeInv, TypeOK
  <2>2. QED
    BY <1>1, <2>1
<1>4. ASSUME NEW h \in Handlers, InsertUser(h) \/ InvalidateTokens(h) \/ InsertToken(h)
      PROVE  RefreshInv'
  <2>1. req[h] \in Request
    BY <1>0
  <2>2. req'[h].at \notin {"rotate", "reissue"}
    BY <1>0, <1>4, <2>1 DEF InsertUser, InvalidateTokens, InsertToken, Enter, Step, Blank, Request
  <2>3. QED
    BY <1>1, <2>2
<1>5. ASSUME NEW h \in Handlers,
             \/ Publish(h) \/ BurnToken(h) \/ Login(h) \/ IssueRefreshed(h) \/ Logout(h)
             \/ Abort(h)
      PROVE  RefreshInv'
  <2>1. req'[h] = Blank
    BY <1>0, <1>5 DEF Publish, BurnToken, Login, IssueRefreshed, Logout, Abort, Enter
  <2>2. QED
    BY <1>1, <2>1 DEF Blank
<1>6. ASSUME NEW h \in Handlers, VerifyEmail(h) \/ ResetPassword(h) PROVE RefreshInv'
  <2>1. \E kind, p : Redeem(h, kind, p)
    BY <1>6 DEF VerifyEmail, ResetPassword
  <2>2. req'[h].at \in {"burn", "save"}
    BY <1>0, <2>1 DEF Redeem, Enter, Blank
  <2>3. QED
    BY <1>1, <2>2
<1>7. ASSUME NEW h \in Handlers, ChangePassword(h) \/ SaveDiff(h) PROVE RefreshInv'
  <2>1. CASE ChangePassword(h)
    <3>1. PICK p \in Passwords :
            Enter(h, [req[h] EXCEPT !.at = "save", !.row = users[req[h].u], !.pw = p,
                                    !.todo = {"diff"}])
      BY <2>1 DEF ChangePassword
    <3>2. req'[h].at = "save"
      BY <1>0, <3>1 DEF Enter, Request
    <3>3. QED
      BY <1>1, <3>2
  <2>2. CASE SaveDiff(h)
    <3>1. req'[h].at = req[h].at /\ req[h].at = "save"
      BY <1>0, <2>2 DEF SaveDiff, Enter, Request
    <3>2. QED
      BY <1>1, <3>1
  <2>3. QED
    BY <1>7, <2>1, <2>2
\* A part of a save ends.
<1>8. ASSUME NEW h \in Handlers, NEW q \in Request, NEW part, Enter(h, Done(q, part)),
             q.at = "save"
      PROVE  RefreshInv'
  <2>1. req'[h] = Done(q, part)
    BY <1>0, <1>8 DEF Enter
  <2>2. CASE Done(q, part) = [q EXCEPT !.todo = q.todo \ {part}]
    <3>1. req'[h].at = "save"
      BY <1>8, <2>1, <2>2 DEF Request
    <3>2. QED
      BY <1>1, <3>1
  <2>3. CASE Done(q, part) = [q EXCEPT !.todo = {}, !.at = "publish"]
    <3>1. req'[h].at = "publish"
      BY <1>8, <2>1, <2>3 DEF Request
    <3>2. QED
      BY <1>1, <3>1
  <2>4. CASE Done(q, part) = Blank
    <3>1. req'[h].at = "idle"
      BY <2>1, <2>4 DEF Blank
    <3>2. QED
      BY <1>1, <3>1
  <2>5. \/ Done(q, part) = [q EXCEPT !.todo = q.todo \ {part}]
        \/ Done(q, part) = [q EXCEPT !.todo = {}, !.at = "publish"]
        \/ Done(q, part) = Blank
    <3>1. q \in Request /\ q.at = "save"
      BY <1>8
    <3>2. QED
      BY <3>1, AfterPart
  <2>6. QED
    BY <2>2, <2>3, <2>4, <2>5
<1>9. ASSUME NEW h \in Handlers, SaveWrite(h) \/ SaveToken(h) PROVE RefreshInv'
  <2>1. req[h] \in Request /\ req[h].at = "save" /\ \E part : Enter(h, Done(req[h], part))
    BY <1>0, <1>9 DEF SaveWrite, SaveToken
  <2>2. QED
    BY <1>8, <2>1
<1>10. ASSUME NEW h \in Handlers, SaveFails(h) PROVE RefreshInv'
  <2>1. PICK q \in Request : q = [req[h] EXCEPT !.ok = FALSE]
    BY <1>0 DEF Request
  <2>2. q.at = "save" /\ \E part : Enter(h, Done(q, part))
    BY <1>0, <1>10, <2>1 DEF SaveFails, Request
  <2>3. QED
    BY <1>8, <2>2
\* The handler has read the row of an account that accepts the session.
<1>11. ASSUME NEW h \in Handlers, RefreshTokens(h) PROVE RefreshInv'
  <2>0. users' = users
    BY <1>11 DEF RefreshTokens
  <2>1. PICK s \in issued :
          /\ Accepted(s)
          /\ Enter(h, [Blank EXCEPT !.at = "rotate", !.kind = "refresh",
                         !.u = s.user, !.row = users[s.user], !.pw = s.password])
    BY <1>11 DEF RefreshTokens
  <2>2. /\ req'[h].at = "rotate" /\ req'[h].u = s.user /\ req'[h].row = users[s.user]
    BY <1>0, <2>1 DEF Enter, Blank
  <2>3. RefreshSound(h)'
    BY <2>0, <2>1, <2>2 DEF RefreshSound, Accepted
  <2>4. QED
    BY <2>3 DEF RefreshInv, OneSlot
\* Its increment is the only one.
<1>12. ASSUME NEW h \in Handlers, RotateVersion(h) PROVE RefreshInv'
  <2>1. PICK u \in Users, r \in Request : u = req[h].u /\ r = req[h]
    BY <1>0, <1>12 DEF RotateVersion, SlotTyped
  <2>2. /\ users' = [users EXCEPT ![u].tokenVersion = @ + 1] /\ r.at = "rotate"
        /\ users[u] \in UserRow
    BY <1>0, <1>12, <2>1 DEF RotateVersion, Bumped
  <2>3. /\ ActiveRow(users[u]) /\ users[u].tokenVersion = r.row.tokenVersion
    BY <2>1, <2>2 DEF RefreshInv, RefreshSound
  <2>4. users'[u].tokenVersion = NextTokenVersion(r.row) /\ ActiveRow(users'[u])
    BY <1>0, <2>2, <2>3 DEF UserRow, NextTokenVersion, ActiveRow
  <2>5. req'[h].at = "reissue" /\ req'[h].u = u /\ req'[h].row = r.row
    BY <1>0, <1>12, <2>1 DEF RotateVersion, Step, Request
  <2>6. RefreshSound(h)'
    BY <2>4, <2>5 DEF RefreshSound, ActiveRow, NextTokenVersion
  <2>7. QED
    BY <2>6 DEF RefreshInv, OneSlot
<1>13. ASSUME NEW t \in TokenIds, ExpireToken(t) PROVE RefreshInv'
  BY <1>13 DEF ExpireToken, RefreshInv, RefreshSound
<1>14. CASE UNCHANGED vars
  BY <1>14 DEF vars, RefreshInv, RefreshSound
<1>15. QED
  BY <1>2, <1>3, <1>4, <1>5, <1>6, <1>7, <1>9, <1>10, <1>11, <1>12, <1>13, <1>14 DEF Next

LEMMA RefreshAnswered ==
    OneSlot /\ NoAbort /\ TypeInv /\ RefreshInv /\ [Next]_vars
        => [\A h \in Handlers : req[h].at = "reissue" /\ req'[h].at = "idle" =>
               \E s \in issued' : s.user = req[h].u /\ Accepted(s)']_vars
<1> SUFFICES ASSUME OneSlot, NoAbort, TypeInv, RefreshInv, [Next]_vars,
                    NEW h \in Handlers, req[h].at = "reissue", req'[h].at = "idle"
             PROVE  \E s \in issued' : s.user = req[h].u /\ Accepted(s)'
  OBVIOUS
<1>1. \A k \in Handlers : k = h
  BY DEF OneSlot
\* Only IssueRefreshed takes a slot from there.
<1>2. IssueRefreshed(h)
  <2>1. ASSUME NEW k \in Handlers,
               \/ Register(k) \/ InsertUser(k) \/ ResendVerification(k) \/ ForgotPassword(k)
               \/ InvalidateTokens(k) \/ InsertToken(k) \/ Publish(k)
        PROVE  FALSE
    <3>1. req[k].at = "reissue"
      BY <1>1
    <3>2. QED
      BY <2>1, <3>1 DEF Register, InsertUser, ResendVerification, ForgotPassword,
         InvalidateTokens, InsertToken, Publish, Starts
  <2>2. ASSUME NEW k \in Handlers,
               \/ VerifyEmail(k) \/ ResetPassword(k) \/ BurnToken(k)
               \/ ValidateUser(k) \/ Login(k) \/ RefreshTokens(k) \/ RotateVersion(k)
               \/ Authenticate(k) \/ Logout(k) \/ ChangePassword(k)
        PROVE  FALSE
    <3>1. req[k].at = "reissue"
      BY <1>1
    <3>2. QED
      BY <2>2, <3>1 DEF VerifyEmail, ResetPassword, BurnToken, ValidateUser, Login,
         RefreshTokens, RotateVersion, Authenticate, Logout, ChangePassword, Starts
  <2>3. ASSUME NEW k \in Handlers,
               SaveDiff(k) \/ SaveWrite(k) \/ SaveToken(k) \/ SaveFails(k) \/ Abort(k)
        PROVE  FALSE
    <3>1. req[k].at = "reissue"
      BY <1>1
    <3>2. QED
      BY <2>3, <3>1 DEF SaveDiff, SaveWrite, SaveToken, SaveFails, Abort, NoAbort
  <2>4. ASSUME NEW t \in TokenIds, ExpireToken(t) PROVE FALSE
    BY <2>4 DEF ExpireToken
  <2>5. ~ UNCHANGED vars
    BY DEF vars
  <2>6. QED
    BY <1>1, <2>1, <2>2, <2>3, <2>4, <2>5 DEF Next
<1>3. PICK s \in issued' : s.user = req[h].u /\ s.version = NextTokenVersion(req[h].row)
  <2>1. PICK s : s = [user |-> req[h].u, version |-> NextTokenVersion(req[h].row),
                      password |-> req[h].pw]
    OBVIOUS
  <2>2. s \in issued' /\ s.user = req[h].u /\ s.version = NextTokenVersion(req[h].row)
    BY <1>2, <2>1 DEF IssueRefreshed
  <2>3. QED
    BY <2>2
<1>4. /\ users' = users /\ ActiveRow(users[req[h].u])
      /\ users[req[h].u].tokenVersion = NextTokenVersion(req[h].row)
  BY <1>2 DEF IssueRefreshed, RefreshInv, RefreshSound
<1>5. Accepted(s)'
  BY <1>3, <1>4 DEF Accepted, ActiveRow
<1>6. QED
  BY <1>3, <1>5

\* refresh "exchanges a valid refresh token for a new access token pair": with
\* one request at a time, and handlers that run to their end, the account
\* accepts the new session, whatever else fails.
THEOREM SerialRefreshes == OneSlot /\ NoAbort /\ Spec => RefreshReturnsLiveSession
<1>1. /\ OneSlot => OneSlot'
      /\ NoAbort => NoAbort'
  BY DEF OneSlot, NoAbort
<1>2. QED
  BY <1>1, RefreshInit, RefreshStep, RefreshAnswered, TypeInvariant, PTL
     DEF Spec, RefreshReturnsLiveSession
===============================================================================
