-------------------------- MODULE AuthServiceProofs --------------------------
(***************************************************************************)
(* Theorems about AuthService for every value of its constants.            *)
(***************************************************************************)
EXTENDS AuthService, FiniteSetTheorems, TLAPS

(***************************************************************************)
(* Type correctness                                                        *)
(***************************************************************************)

\* What each stage of a request knows of its locals.
SlotTyped(r) ==
    /\ r.at # "idle" => r.u \in Users /\ r.kind \in Kinds
    /\ r.at = "insert" => r.kind = "register" /\ r.pw \in Passwords
    /\ r.at \in {"invalidate", "mint"} => r.kind \in {"register", "resend", "forgot"}
    /\ r.at = "publish" =>
        r.kind \in {"register", "resend", "forgot", "verify"} /\ r.t \in TokenIds
    /\ r.at = "burn" => r.t \in TokenIds
    /\ r.at = "save" =>
        /\ r.kind \in {"verify", "reset", "change"}
        /\ r.kind # "verify" => r.pw \in Passwords
        /\ r.kind # "change" => r.t \in TokenIds
        /\ r.kind = "change" => "token" \notin r.todo

TokensTyped == \A t \in TokenIds : ott[t].kind # "free" => ott[t].user \in Users

TypeInv ==
    /\ TypeOK
    /\ \A h \in Handlers : SlotTyped(req[h])
    /\ TokensTyped

\* The rows and slots the actions start from are well typed.
LEMMA RowTypes ==
    /\ NoRow \in UserRow
    /\ \A p \in Passwords : NewUser(p) \in UserRow /\ VerifiedUser(p) \in UserRow
    /\ FreeToken \in OneTimeToken
    /\ Blank \in Request
<1>1. NoRow \in UserRow
  BY DEF NoRow, UserRow
<1>2. \A p \in Passwords : NewUser(p) \in UserRow /\ VerifiedUser(p) \in UserRow
  BY DEF NoRow, NewUser, VerifiedUser, UserRow
<1>3. FreeToken \in OneTimeToken
  BY DEF FreeToken, OneTimeToken
<1>4. 0 \in 0..MaxTokens
  BY BoundsAssumption
<1>5. Blank \in Request
  BY <1>1, <1>4 DEF Blank, Request, Stages
<1>6. QED
  BY <1>1, <1>2, <1>3, <1>5

LEMMA InitType == Init => TypeInv
<1> SUFFICES ASSUME Init PROVE TypeInv
  OBVIOUS
<1>1. PICK pw \in [Seeded -> Passwords] :
        users = [u \in Users |-> IF u \in Seeded THEN VerifiedUser(pw[u]) ELSE NoRow]
  BY DEF Init
<1>2. users \in [Users -> UserRow]
  BY <1>1, RowTypes
<1>3. TypeOK
  BY <1>2, RowTypes, SeededAssumption, BoundsAssumption DEF Init, TypeOK, TokenIds
<1>4. /\ \A h \in Handlers : SlotTyped(req[h])
      /\ TokensTyped
  BY DEF Init, SlotTyped, Blank, TokensTyped, FreeToken
<1>5. QED
  BY <1>3, <1>4 DEF TypeInv

\* Putting a well typed request into a slot keeps the slots well typed.
LEMMA EnterType ==
    ASSUME TypeInv, NEW h \in Handlers, NEW r \in Request, SlotTyped(r), Enter(h, r)
    PROVE  req' \in [Handlers -> Request] /\ \A k \in Handlers : SlotTyped(req'[k])
  BY DEF TypeInv, TypeOK, Enter

LEMMA BlankSlot == Blank \in Request /\ SlotTyped(Blank)
  BY RowTypes DEF Blank, SlotTyped

\* What a save writes is a row.
LEMMA WrittenType ==
    ASSUME TypeOK, NEW h \in Handlers, req[h].u \in Users,
           req[h].kind # "verify" => req[h].pw \in Passwords
    PROVE  Entity(req[h]) \in UserRow /\ Written(req[h]) \in UserRow
<1>1. req[h] \in Request /\ users[req[h].u] \in UserRow
  BY DEF TypeOK
<1>2. /\ req[h].row \in UserRow
      /\ req[h].row.tokenVersion + 1 \in Nat
  BY <1>1 DEF Request, UserRow
<1>3. Entity(req[h]) \in UserRow
  <2>1. CASE req[h].kind = "verify"
    BY <1>2, <2>1 DEF Entity, UserRow
  <2>2. CASE req[h].kind # "verify"
    BY <1>2, <2>2 DEF Entity, UserRow
  <2>3. QED
    BY <2>1, <2>2
<1>4. Written(req[h]) \in UserRow
  BY <1>1, <1>3 DEF Written, UserRow
<1>5. QED
  BY <1>3, <1>4

\* What is left of a request once a part of its save has ended.
LEMMA AfterPart ==
    ASSUME NEW r \in Request, NEW part, r.at = "save"
    PROVE  \/ Done(r, part) = [r EXCEPT !.todo = r.todo \ {part}]
           \/ /\ r.todo \ {part} = {} /\ r.ok /\ r.kind = "verify"
              /\ Done(r, part) = [r EXCEPT !.todo = {}, !.at = "publish"]
           \/ r.todo \ {part} = {} /\ Done(r, part) = Blank
<1> DEFINE left == [r EXCEPT !.todo = r.todo \ {part}]
<1>1. Done(r, part) = Settled(left)
  BY DEF Done, Request
<1>2. left.todo = r.todo \ {part} /\ left.ok = r.ok /\ left.kind = r.kind
  BY DEF Request
<1>3. r.todo \ {part} = {} => [left EXCEPT !.at = "publish"] = [r EXCEPT !.todo = {}, !.at = "publish"]
  BY DEF Request
<1> HIDE DEF left
<1>4. QED
  BY <1>1, <1>2, <1>3 DEF Settled, left

\* Every step keeps TypeInv.
LEMMA TypeStep == TypeInv /\ [Next]_vars => TypeInv'
<1> SUFFICES ASSUME TypeInv, [Next]_vars PROVE TypeInv'
  OBVIOUS
<1> USE DEF TypeInv
<1>1. ASSUME NEW h \in Handlers, Register(h) PROVE TypeInv'
  <2>1. PICK u \in Users \ registered, p \in Passwords :
          Enter(h, [Blank EXCEPT !.at = "insert", !.kind = "register", !.u = u, !.pw = p])
    BY <1>1 DEF Register
  <2> DEFINE r == [Blank EXCEPT !.at = "insert", !.kind = "register", !.u = u, !.pw = p]
  <2>2. r \in Request /\ SlotTyped(r)
    BY BlankSlot DEF Blank, Request, SlotTyped, Kinds, Stages
  <2>3. QED
    BY <1>1, <2>1, <2>2, EnterType DEF Register, TypeOK, TokensTyped
<1>2. ASSUME NEW h \in Handlers, InsertUser(h) PROVE TypeInv'
  <2>1. CASE req[h].u \in registered
    BY <1>2, <2>1, BlankSlot, EnterType DEF InsertUser, TypeOK, TokensTyped
  <2>2. CASE req[h].u \notin registered
    <3> DEFINE r == [req[h] EXCEPT !.at = "invalidate"]
    <3>1. req[h] \in Request /\ SlotTyped(req[h]) /\ req[h].at = "insert"
      BY <1>2 DEF InsertUser, TypeOK
    <3>2. req[h].u \in Users /\ req[h].pw \in Passwords
      BY <3>1 DEF SlotTyped
    <3>3. r \in Request /\ SlotTyped(r)
      BY <3>1 DEF Request, SlotTyped, Stages
    <3>4. Enter(h, r)
      BY <1>2, <2>2 DEF InsertUser, Step, Enter, TypeOK
    <3>5. NewUser(req[h].pw) \in UserRow
      BY <3>2, RowTypes
    <3>6. users' \in [Users -> UserRow] /\ registered' \subseteq Users
      BY <1>2, <2>2, <3>2, <3>5 DEF InsertUser, TypeOK
    <3>7. QED
      BY <1>2, <2>2, <3>3, <3>4, <3>6, EnterType DEF InsertUser, TypeOK, TokensTyped
  <2>3. QED
    BY <2>1, <2>2
<1>3. ASSUME NEW h \in Handlers, ResendVerification(h) PROVE TypeInv'
  <2>1. PICK u \in registered :
          Enter(h, [Blank EXCEPT !.at = "invalidate", !.kind = "resend", !.u = u])
    BY <1>3 DEF ResendVerification
  <2> DEFINE r == [Blank EXCEPT !.at = "invalidate", !.kind = "resend", !.u = u]
  <2>2. u \in Users
    BY DEF TypeOK
  <2>3. r \in Request /\ SlotTyped(r)
    BY <2>2, BlankSlot DEF Blank, Request, SlotTyped, Kinds, Stages
  <2>4. QED
    BY <1>3, <2>1, <2>3, EnterType DEF ResendVerification, TypeOK, TokensTyped
<1>4. ASSUME NEW h \in Handlers, ForgotPassword(h) PROVE TypeInv'
  <2>1. PICK u \in registered :
          Enter(h, [Blank EXCEPT !.at = "invalidate", !.kind = "forgot", !.u = u])
    BY <1>4 DEF ForgotPassword
  <2> DEFINE r == [Blank EXCEPT !.at = "invalidate", !.kind = "forgot", !.u = u]
  <2>2. u \in Users
    BY DEF TypeOK
  <2>3. r \in Request /\ SlotTyped(r)
    BY <2>2, BlankSlot DEF Blank, Request, SlotTyped, Kinds, Stages
  <2>4. QED
    BY <1>4, <2>1, <2>3, EnterType DEF ForgotPassword, TypeOK, TokensTyped
<1>5. ASSUME NEW h \in Handlers, InvalidateTokens(h) PROVE TypeInv'
  <2> DEFINE r == [req[h] EXCEPT !.at = "mint"]
  <2>1. req[h] \in Request /\ SlotTyped(req[h]) /\ req[h].at = "invalidate"
    BY <1>5 DEF InvalidateTokens, TypeOK
  <2>2. r \in Request /\ SlotTyped(r) /\ Enter(h, r)
    BY <1>5, <2>1 DEF InvalidateTokens, Request, SlotTyped, Stages, Step, Enter
  <2>3. ott' \in [TokenIds -> OneTimeToken] /\ TokensTyped'
    BY <1>5 DEF InvalidateTokens, Invalidated, TypeOK, OneTimeToken, TokensTyped
  <2>4. QED
    BY <1>5, <2>2, <2>3, EnterType DEF InvalidateTokens, TypeOK
<1>6. ASSUME NEW h \in Handlers, InsertToken(h) PROVE TypeInv'
  <2> DEFINE r == [req[h] EXCEPT !.at = "publish", !.t = minted + 1]
             row == [kind |-> TokenKind(req[h]), user |-> req[h].u,
                     used |-> FALSE, expired |-> FALSE]
  <2>1. req[h] \in Request /\ SlotTyped(req[h]) /\ req[h].at = "mint" /\ req[h].u \in Users
    BY <1>6 DEF InsertToken, TypeOK, SlotTyped
  <2>2. minted + 1 \in TokenIds /\ minted' \in 0..MaxTokens /\ minted + 1 \in 0..MaxTokens
    BY <1>6, BoundsAssumption DEF InsertToken, TypeOK, TokenIds
  <2>3. r \in Request /\ SlotTyped(r)
    BY <2>1, <2>2 DEF Request, SlotTyped, Stages
  <2>4. Enter(h, r)
    BY <1>6 DEF InsertToken, Enter, TypeOK
  <2>5. row \in OneTimeToken
    BY <2>1 DEF OneTimeToken, TokenKind
  <2>6. ott' = [ott EXCEPT ![minted + 1] = row]
    BY <1>6 DEF InsertToken
  <2>7. ott' \in [TokenIds -> OneTimeToken] /\ TokensTyped'
    BY <2>1, <2>2, <2>5, <2>6 DEF TypeOK, TokensTyped
  <2>8. QED
    BY <1>6, <2>2, <2>3, <2>4, <2>7, EnterType DEF InsertToken, TypeOK
<1>7. ASSUME NEW h \in Handlers, Publish(h) PROVE TypeInv'
  <2>1. req[h] \in Request /\ SlotTyped(req[h]) /\ req[h].at = "publish"
    BY <1>7 DEF Publish, TypeOK
  <2>2. MailOf(req[h]) \in Mail
    BY <2>1, BoundsAssumption DEF MailOf, Mail, TokenKind, SlotTyped, TokenIds
  <2>3. outbox' \subseteq Mail
    BY <1>7, <2>2 DEF Publish, TypeOK
  <2>4. QED
    BY <1>7, <2>3, BlankSlot, EnterType DEF Publish, TypeOK, TokensTyped
<1>8. ASSUME NEW h \in Handlers, NEW kind \in {"verify", "reset"}, NEW p \in Passwords \cup {None},
             kind = "reset" => p \in Passwords, Redeem(h, kind, p)
      PROVE  TypeInv'
  <2>1. PICK t \in TokenIds :
          /\ Presentable(t, kind)
          /\ Enter(h, [Blank EXCEPT
                !.at = IF Refused(kind, t) THEN "burn" ELSE "save",
                !.kind = kind, !.u = ott[t].user, !.t = t,
                !.row = users[ott[t].user], !.pw = p, !.todo = {"diff", "token"}])
          /\ UNCHANGED <<users, registered, ott, minted, issued, outbox, overlapped, redeemed>>
    BY <1>8 DEF Redeem
  <2> DEFINE r == [Blank EXCEPT
                !.at = IF Refused(kind, t) THEN "burn" ELSE "save",
                !.kind = kind, !.u = ott[t].user, !.t = t,
                !.row = users[ott[t].user], !.pw = p, !.todo = {"diff", "token"}]
  <2>2. ott[t].user \in Users /\ users[ott[t].user] \in UserRow
    BY <2>1 DEF Presentable, TokensTyped, TypeOK
  <2>3. t \in 0..MaxTokens
    BY BoundsAssumption DEF TokenIds
  <2>4. r \in Request
    BY <2>2, <2>3 DEF Blank, Request, Kinds, Stages
  <2>5. SlotTyped(r)
    BY <1>8, <2>2 DEF Blank, SlotTyped, Kinds
  <2>6. QED
    BY <2>1, <2>4, <2>5, EnterType DEF TypeOK, TokensTyped
<1>9. ASSUME NEW h \in Handlers, VerifyEmail(h) \/ ResetPassword(h) PROVE TypeInv'
  BY <1>8, <1>9 DEF VerifyEmail, ResetPassword
<1>10. ASSUME NEW h \in Handlers, BurnToken(h) PROVE TypeInv'
  <2>1. req[h].t \in TokenIds
    BY <1>10 DEF BurnToken, SlotTyped
  <2>2. ott' \in [TokenIds -> OneTimeToken] /\ TokensTyped'
    BY <1>10, <2>1 DEF BurnToken, TypeOK, OneTimeToken, TokensTyped
  <2>3. QED
    BY <1>10, <2>2, BlankSlot, EnterType DEF BurnToken, TypeOK
<1>11. ASSUME NEW h \in Handlers, ValidateUser(h) PROVE TypeInv'
  <2>1. PICK u \in registered :
          Enter(h, [Blank EXCEPT !.at = "issue", !.kind = "login", !.u = u, !.row = users[u]])
    BY <1>11 DEF ValidateUser
  <2> DEFINE r == [Blank EXCEPT !.at = "issue", !.kind = "login", !.u = u, !.row = users[u]]
  <2>2. u \in Users /\ users[u] \in UserRow
    BY DEF TypeOK
  <2>3. r \in Request /\ SlotTyped(r)
    BY <2>2, BlankSlot DEF Blank, Request, SlotTyped, Kinds, Stages
  <2>4. QED
    BY <1>11, <2>1, <2>3, EnterType DEF ValidateUser, TypeOK, TokensTyped
<1>12. ASSUME NEW h \in Handlers, Login(h) \/ IssueRefreshed(h) PROVE TypeInv'
  <2>1. req[h] \in Request /\ req[h].u \in Users
    BY <1>12 DEF Login, IssueRefreshed, TypeOK, SlotTyped
  <2>2. issued' \subseteq Session
    BY <1>12, <2>1 DEF Login, IssueRefreshed, NextTokenVersion, TypeOK, Request, UserRow, Session
  <2>3. QED
    BY <1>12, <2>2, BlankSlot, EnterType DEF Login, IssueRefreshed, TypeOK, TokensTyped
<1>13. ASSUME NEW h \in Handlers, RefreshTokens(h) PROVE TypeInv'
  <2>1. PICK s \in issued :
          Enter(h, [Blank EXCEPT !.at = "rotate", !.kind = "refresh",
                        !.u = s.user, !.row = users[s.user], !.pw = s.password])
    BY <1>13 DEF RefreshTokens
  <2> DEFINE r == [Blank EXCEPT !.at = "rotate", !.kind = "refresh",
                        !.u = s.user, !.row = users[s.user], !.pw = s.password]
  <2>2. s.user \in Users /\ users[s.user] \in UserRow /\ s.password \in Passwords \cup {None}
    BY DEF TypeOK, Session
  <2>3. r \in Request /\ SlotTyped(r)
    BY <2>2, BlankSlot DEF Blank, Request, SlotTyped, Kinds, Stages
  <2>4. QED
    BY <1>13, <2>1, <2>3, EnterType DEF RefreshTokens, TypeOK, TokensTyped
<1>14. ASSUME NEW u \in Users PROVE Bumped(u) \in [Users -> UserRow]
  BY DEF Bumped, TypeOK, UserRow
<1>15. ASSUME NEW h \in Handlers, RotateVersion(h) PROVE TypeInv'
  <2> DEFINE r == [req[h] EXCEPT !.at = "reissue"]
  <2>1. req[h] \in Request /\ SlotTyped(req[h]) /\ req[h].at = "rotate" /\ req[h].u \in Users
    BY <1>15 DEF RotateVersion, TypeOK, SlotTyped
  <2>2. r \in Request /\ SlotTyped(r) /\ Enter(h, r)
    BY <1>15, <2>1 DEF RotateVersion, Request, SlotTyped, Stages, Step, Enter
  <2>3. QED
    BY <1>14, <1>15, <2>1, <2>2, EnterType DEF RotateVersion, TypeOK, TokensTyped
<1>16. ASSUME NEW h \in Handlers, Authenticate(h) PROVE TypeInv'
  <2>1. PICK kind \in {"logout", "change"}, s \in issued :
          Enter(h, [Blank EXCEPT !.at = "guarded", !.kind = kind, !.u = s.user])
    BY <1>16 DEF Authenticate
  <2> DEFINE r == [Blank EXCEPT !.at = "guarded", !.kind = kind, !.u = s.user]
  <2>2. s.user \in Users
    BY DEF TypeOK, Session
  <2>3. r \in Request /\ SlotTyped(r)
    BY <2>2, BlankSlot DEF Blank, Request, SlotTyped, Kinds, Stages
  <2>4. QED
    BY <1>16, <2>1, <2>3, EnterType DEF Authenticate, TypeOK, TokensTyped
<1>17. ASSUME NEW h \in Handlers, Logout(h) PROVE TypeInv'
  <2>1. req[h].u \in Users
    BY <1>17 DEF Logout, SlotTyped
  <2>2. QED
    BY <1>14, <1>17, <2>1, BlankSlot, EnterType DEF Logout, TypeOK, TokensTyped
<1>18. ASSUME NEW h \in Handlers, ChangePassword(h) PROVE TypeInv'
  <2>1. PICK p \in Passwords :
          Enter(h, [req[h] EXCEPT !.at = "save", !.row = users[req[h].u], !.pw = p,
                                  !.todo = {"diff"}])
    BY <1>18 DEF ChangePassword
  <2> DEFINE r == [req[h] EXCEPT !.at = "save", !.row = users[req[h].u], !.pw = p,
                                 !.todo = {"diff"}]
  <2>2. /\ req[h] \in Request /\ SlotTyped(req[h])
        /\ req[h].at = "guarded" /\ req[h].kind = "change"
    BY <1>18 DEF ChangePassword, TypeOK
  <2>3. req[h].u \in Users /\ users[req[h].u] \in UserRow
    BY <2>2 DEF SlotTyped, TypeOK
  <2>4. r \in Request /\ SlotTyped(r)
    BY <2>2, <2>3 DEF Request, SlotTyped, Stages
  <2>5. QED
    BY <1>18, <2>1, <2>4, EnterType DEF ChangePassword, TypeOK, TokensTyped
<1>19. ASSUME NEW h \in Handlers, SaveDiff(h) PROVE TypeInv'
  <2> DEFINE r == [req[h] EXCEPT !.cols = Touched(req[h]),
                                 !.todo = (req[h].todo \ {"diff"}) \cup {"write"}]
  <2>1. req[h] \in Request /\ SlotTyped(req[h]) /\ req[h].at = "save"
    BY <1>19 DEF SaveDiff, TypeOK
  <2>2. Touched(req[h]) \subseteq Columns
    BY DEF Touched
  <2>3. r \in Request /\ SlotTyped(r)
    BY <2>1, <2>2 DEF Request, SlotTyped
  <2>4. QED
    BY <1>19, <2>3, EnterType DEF SaveDiff, TypeOK, TokensTyped
\* what is left of a request when a part of its save has ended
<1>20. ASSUME NEW h \in Handlers, NEW part, NEW b \in BOOLEAN, req[h].at = "save"
       PROVE  /\ Done([req[h] EXCEPT !.ok = b], part) \in Request
              /\ SlotTyped(Done([req[h] EXCEPT !.ok = b], part))
              /\ Done(req[h], part) \in Request /\ SlotTyped(Done(req[h], part))
  <2>1. req[h] \in Request /\ SlotTyped(req[h])
    BY DEF TypeOK
  <2>2. ASSUME NEW r \in Request, SlotTyped(r), r.at = "save"
        PROVE  Settled(r) \in Request /\ SlotTyped(Settled(r))
    BY <2>2, BlankSlot DEF Settled, Request, SlotTyped, Stages
  <2>3. ASSUME NEW r \in Request, SlotTyped(r), r.at = "save"
        PROVE  Done(r, part) \in Request /\ SlotTyped(Done(r, part))
    <3> DEFINE q == [r EXCEPT !.todo = @ \ {part}]
    <3>1. q \in Request /\ SlotTyped(q) /\ q.at = "save"
      BY <2>3 DEF Request, SlotTyped
    <3>2. Done(r, part) = Settled(q)
      BY DEF Done
    <3>3. QED
      BY <2>2, <3>1, <3>2
  <2> DEFINE f == [req[h] EXCEPT !.ok = b]
  <2>4. f \in Request /\ SlotTyped(f) /\ f.at = "save"
    BY <1>20, <2>1 DEF Request, SlotTyped
  <2>5. QED
    BY <1>20, <2>1, <2>3, <2>4
<1>21. ASSUME NEW h \in Handlers, SaveWrite(h) PROVE TypeInv'
  <2>1. req[h] \in Request /\ SlotTyped(req[h]) /\ req[h].at = "save" /\ req[h].u \in Users
    BY <1>21 DEF SaveWrite, TypeOK, SlotTyped
  <2>2. Written(req[h]) \in UserRow
    BY <2>1, WrittenType DEF SlotTyped
  <2>3. users' \in [Users -> UserRow] /\ overlapped' \subseteq Users
    BY <1>21, <2>1, <2>2 DEF SaveWrite, TypeOK
  <2>4. redeemed' \in [TokenIds -> 0..2]
    <3>1. CASE req[h].kind = "reset" /\ redeemed[req[h].t] < 2
      <4>1. req[h].t \in TokenIds
        BY <2>1, <3>1 DEF SlotTyped
      <4>2. redeemed[req[h].t] + 1 \in 0..2
        BY <3>1, <4>1 DEF TypeOK
      <4>3. QED
        BY <1>21, <3>1, <4>1, <4>2 DEF SaveWrite, TypeOK
    <3>2. CASE ~ (req[h].kind = "reset" /\ redeemed[req[h].t] < 2)
      BY <1>21, <3>2 DEF SaveWrite, TypeOK
    <3>3. QED
      BY <3>1, <3>2
  <2>5. Done(req[h], "write") \in Request /\ SlotTyped(Done(req[h], "write"))
    BY <1>20, <2>1
  <2>6. QED
    BY <1>21, <2>3, <2>4, <2>5, EnterType DEF SaveWrite, TypeOK, TokensTyped
<1>22. ASSUME NEW h \in Handlers, SaveToken(h) PROVE TypeInv'
  <2>1. req[h].at = "save" /\ req[h].t \in TokenIds
    BY <1>22 DEF SaveToken, SlotTyped
  <2>2. ott' \in [TokenIds -> OneTimeToken] /\ TokensTyped'
    BY <1>22, <2>1 DEF SaveToken, TypeOK, OneTimeToken, TokensTyped
  <2>3. Done(req[h], "token") \in Request /\ SlotTyped(Done(req[h], "token"))
    BY <1>20, <2>1
  <2>4. QED
    BY <1>22, <2>2, <2>3, EnterType DEF SaveToken, TypeOK
<1>23. ASSUME NEW h \in Handlers, SaveFails(h) PROVE TypeInv'
  <2>1. PICK part \in req[h].todo : Enter(h, Done([req[h] EXCEPT !.ok = FALSE], part))
    BY <1>23 DEF SaveFails
  <2>2. /\ Done([req[h] EXCEPT !.ok = FALSE], part) \in Request
        /\ SlotTyped(Done([req[h] EXCEPT !.ok = FALSE], part))
    BY <1>20, <1>23 DEF SaveFails
  <2>3. QED
    BY <1>23, <2>1, <2>2, EnterType DEF SaveFails, TypeOK, TokensTyped
<1>24. ASSUME NEW h \in Handlers, Abort(h) PROVE TypeInv'
  BY <1>24, BlankSlot, EnterType DEF Abort, TypeOK, TokensTyped
<1>25. ASSUME NEW t \in TokenIds, ExpireToken(t) PROVE TypeInv'
  BY <1>25 DEF ExpireToken, TypeOK, OneTimeToken, TokensTyped
<1>26. CASE UNCHANGED vars
  BY <1>26 DEF vars, TypeOK, TokensTyped
<1>27. QED
  BY <1>1, <1>2, <1>3, <1>4, <1>5, <1>6, <1>7, <1>9, <1>10, <1>11, <1>12, <1>13, <1>15,
     <1>16, <1>17, <1>18, <1>19, <1>21, <1>22, <1>23, <1>24, <1>25, <1>26 DEF Next

LEMMA TypeInvariant == Spec => []TypeInv
<1>1. QED
  BY InitType, TypeStep, PTL DEF Spec

\* Rows, tokens, sessions, mails and requests are always well typed.
THEOREM TypeCorrect == Spec => []TypeOK
<1>1. TypeInv => TypeOK
  BY DEF TypeInv
<1>2. QED
  BY <1>1, TypeInvariant, PTL

(***************************************************************************)
(* The life of an account                                                  *)
(***************************************************************************)

RowsSound == \A u \in Users :
    /\ users[u].isActive = users[u].emailVerified
    /\ users[u].emailVerified => u \in registered

SessionsVerified == \A s \in issued : users[s.user].emailVerified

TokensSound == \A t \in TokenIds :
    /\ t > minted => ott[t].kind = "free"
    /\ ott[t].kind # "free" => ott[t].user \in registered
    /\ ott[t].kind = "reset" => users[ott[t].user].emailVerified

MailsSound == \A m \in outbox : m.token # 0 =>
    /\ m.token <= minted
    /\ ott[m.token].kind = m.kind
    /\ ott[m.token].user = m.user

\* The forgot-password guard makes the last part work: the row a password
\* save writes back is the row of a verified account, so it un-verifies nothing.
SlotSound(h) ==
    LET r == req[h] IN
    /\ r.at \notin {"idle", "insert"} => r.u \in registered
    /\ r.at \in {"issue", "rotate", "reissue", "guarded"} => users[r.u].emailVerified
    /\ r.at \in {"invalidate", "mint", "publish"} /\ r.kind = "forgot"
        => users[r.u].emailVerified
    /\ r.at = "publish" /\ r.kind # "verify" =>
        /\ r.t <= minted
        /\ ott[r.t].kind = TokenKind(r)
        /\ ott[r.t].user = r.u
    /\ r.at = "save" /\ r.kind = "verify" =>
        /\ \E m \in outbox : m.kind = "verify" /\ m.user = r.u
        /\ "write" \in r.todo =>
            \/ users[r.u].emailVerified
            \/ "isActive" \in r.cols /\ "emailVerified" \in r.cols
    /\ r.at = "save" /\ r.kind # "verify" =>
        r.row.isActive /\ r.row.emailVerified /\ users[r.u].emailVerified

AccountInv ==
    /\ RowsSound
    /\ SessionsVerified
    /\ TokensSound
    /\ MailsSound
    /\ \A h \in Handlers : SlotSound(h)

\* What no step takes back.
Grows ==
    /\ \A u \in Users : users[u].emailVerified => users'[u].emailVerified
    /\ registered \subseteq registered'
    /\ outbox \subseteq outbox'
    /\ minted <= minted'
    /\ \A t \in TokenIds : ott[t].kind # "free" =>
        ott'[t].kind = ott[t].kind /\ ott'[t].user = ott[t].user

LEMMA AccountInit == Init => AccountInv
<1> SUFFICES ASSUME Init PROVE AccountInv
  OBVIOUS
<1>1. PICK pw \in [Seeded -> Passwords] :
        users = [u \in Users |-> IF u \in Seeded THEN VerifiedUser(pw[u]) ELSE NoRow]
  BY DEF Init
<1>2. RowsSound
  BY <1>1 DEF Init, RowsSound, VerifiedUser, NewUser, NoRow
<1>3. SessionsVerified /\ TokensSound /\ MailsSound
  BY DEF Init, SessionsVerified, TokensSound, MailsSound, FreeToken
<1>4. \A h \in Handlers : SlotSound(h)
  BY DEF Init, SlotSound, Blank
<1>5. QED
  BY <1>2, <1>3, <1>4 DEF AccountInv

\* Only InsertUser, the increments and SaveWrite touch users; the row a save
\* leaves behind is a verified one if the row before it was.
LEMMA WrittenVerified ==
    ASSUME TypeInv, AccountInv, NEW h \in Handlers, SaveWrite(h)
    PROVE  /\ Written(req[h]).emailVerified /\ Written(req[h]).isActive
           /\ req[h].u \in registered
<1> DEFINE r == req[h]
<1>1. r \in Request /\ SlotTyped(r) /\ SlotSound(h) /\ r.at = "save" /\ "write" \in r.todo
  BY DEF SaveWrite, TypeInv, TypeOK, AccountInv
<1>2. r.u \in registered /\ users[r.u] \in UserRow /\ r.row \in UserRow
  BY <1>1 DEF SlotSound, SlotTyped, TypeInv, TypeOK, Request
<1>3. users[r.u].isActive = users[r.u].emailVerified
  BY <1>1 DEF AccountInv, RowsSound, SlotTyped
<1>4. CASE r.kind = "verify"
  <2>1. Entity(r).emailVerified /\ Entity(r).isActive
    BY <1>2, <1>4 DEF Entity, UserRow
  <2>2. \/ users[r.u].emailVerified
        \/ "isActive" \in r.cols /\ "emailVerified" \in r.cols
    BY <1>1, <1>4 DEF SlotSound
  <2>3. QED
    BY <1>2, <1>3, <2>1, <2>2 DEF Written
<1>5. CASE r.kind # "verify"
  <2>1. r.row.isActive /\ r.row.emailVerified /\ users[r.u].emailVerified
    BY <1>1, <1>5 DEF SlotSound
  <2>2. Entity(r).emailVerified /\ Entity(r).isActive
    BY <1>2, <1>5, <2>1 DEF Entity, UserRow
  <2>3. QED
    BY <1>2, <1>3, <2>1, <2>2 DEF Written
<1>6. QED
  BY <1>2, <1>4, <1>5

LEMMA AccountGrows ==
    ASSUME TypeInv, AccountInv, [Next]_vars
    PROVE  Grows
<1> USE DEF TypeInv, TypeOK
<1>0. minted <= minted
  OBVIOUS
<1>1. ASSUME NEW h \in Handlers, InsertUser(h) PROVE Grows
  <2>1. \A u \in Users : users[u].emailVerified => users'[u] = users[u]
    BY <1>1 DEF InsertUser, AccountInv, RowsSound
  <2>2. QED
    BY <1>0, <1>1, <2>1 DEF InsertUser, Grows
<1>2. ASSUME NEW u \in Users, users' = Bumped(u)
      PROVE  \A v \in Users : users'[v].emailVerified = users[v].emailVerified
  BY <1>2 DEF Bumped, UserRow
<1>3. ASSUME NEW h \in Handlers, RotateVersion(h) \/ Logout(h) PROVE Grows
  <2>1. req[h].u \in Users
    BY <1>3 DEF RotateVersion, Logout, SlotTyped
  <2>2. \A v \in Users : users'[v].emailVerified = users[v].emailVerified
    BY <1>2, <1>3, <2>1 DEF RotateVersion, Logout
  <2>3. QED
    BY <1>0, <1>3, <2>2 DEF RotateVersion, Logout, Grows
<1>4. ASSUME NEW h \in Handlers, SaveWrite(h) PROVE Grows
  <2>1. Written(req[h]).emailVerified
    BY <1>4, WrittenVerified
  <2>2. \A u \in Users : users[u].emailVerified => users'[u].emailVerified
    BY <1>4, <2>1 DEF SaveWrite
  <2>3. QED
    BY <1>0, <1>4, <2>2 DEF SaveWrite, Grows
<1>5. ASSUME NEW h \in Handlers, InvalidateTokens(h) PROVE Grows
  <2>1. \A t \in TokenIds : ott'[t].kind = ott[t].kind /\ ott'[t].user = ott[t].user
    BY <1>5 DEF InvalidateTokens, Invalidated, OneTimeToken
  <2>2. QED
    BY <1>0, <1>5, <2>1 DEF InvalidateTokens, Grows
<1>6. ASSUME NEW h \in Handlers, InsertToken(h) PROVE Grows
  <2>1. ott[minted + 1].kind = "free"
    BY <1>6, BoundsAssumption DEF InsertToken, AccountInv, TokensSound, TokenIds
  <2>2. \A t \in TokenIds : t # minted + 1 => ott'[t] = ott[t]
    BY <1>6 DEF InsertToken
  <2>3. minted <= minted'
    BY <1>6, BoundsAssumption DEF InsertToken
  <2>4. QED
    BY <1>6, <2>1, <2>2, <2>3 DEF InsertToken, Grows
<1>7. ASSUME NEW h \in Handlers, BurnToken(h) \/ SaveToken(h) PROVE Grows
  <2>1. \A t \in TokenIds : ott'[t].kind = ott[t].kind /\ ott'[t].user = ott[t].user
    BY <1>7 DEF BurnToken, SaveToken, OneTimeToken
  <2>2. QED
    BY <1>0, <1>7, <2>1 DEF BurnToken, SaveToken, Grows
<1>8. ASSUME NEW t \in TokenIds, ExpireToken(t) PROVE Grows
  <2>1. \A q \in TokenIds : ott'[q].kind = ott[q].kind /\ ott'[q].user = ott[q].user
    BY <1>8 DEF ExpireToken, OneTimeToken
  <2>2. QED
    BY <1>0, <1>8, <2>1 DEF ExpireToken, Grows
<1>9. ASSUME UNCHANGED <<users, registered, ott, minted>>, outbox \subseteq outbox'
      PROVE  Grows
  BY <1>0, <1>9 DEF Grows
<1>10. ASSUME NEW h \in Handlers,
              \/ Register(h) \/ ResendVerification(h) \/ ForgotPassword(h) \/ Publish(h)
              \/ VerifyEmail(h) \/ ResetPassword(h) \/ ValidateUser(h) \/ Login(h)
              \/ RefreshTokens(h) \/ IssueRefreshed(h) \/ Authenticate(h) \/ ChangePassword(h)
              \/ SaveDiff(h) \/ SaveFails(h) \/ Abort(h)
       PROVE  Grows
  BY <1>9, <1>10 DEF Register, ResendVerification, ForgotPassword, Publish, VerifyEmail,
     ResetPassword, Redeem, ValidateUser, Login, RefreshTokens, IssueRefreshed, Authenticate,
     ChangePassword, SaveDiff, SaveFails, Abort
<1>11. CASE UNCHANGED vars
  BY <1>9, <1>11 DEF vars
<1>12. QED
  BY <1>1, <1>3, <1>4, <1>5, <1>6, <1>7, <1>8, <1>10, <1>11 DEF Next

LEMMA AccountStep ==
    ASSUME TypeInv, TypeInv', AccountInv, [Next]_vars
    PROVE  AccountInv'
<1> USE DEF TypeInv, TypeOK
\* What was known of rows, tokens, mails and of the slots a step leaves alone
\* stays known.
<1>1. Grows
  BY AccountGrows
<1>2. ASSUME NEW k \in Handlers, req'[k] = req[k] PROVE SlotSound(k)'
  <2>1. SlotSound(k) /\ SlotTyped(req[k]) /\ req[k] \in Request
    BY DEF AccountInv
  <2>2. \A t \in TokenIds : t <= minted => t <= minted'
    BY <1>1, BoundsAssumption DEF Grows, TokenIds
  <2>3. TokenKind(req[k]) # "free"
    BY DEF TokenKind
  <2>4. QED
    BY <1>1, <1>2, <2>1, <2>2, <2>3 DEF SlotSound, SlotTyped, Grows, TokenKind
<1>3. issued' = issued => SessionsVerified'
  BY <1>1 DEF AccountInv, SessionsVerified, Grows, Session
<1>4. ASSUME NEW m \in outbox, m.token # 0
      PROVE  m.token <= minted' /\ ott'[m.token].kind = m.kind /\ ott'[m.token].user = m.user
  <2>1. m \in Mail /\ m.token <= minted /\ ott[m.token].kind = m.kind /\ ott[m.token].user = m.user
    BY <1>4 DEF AccountInv, MailsSound
  <2>2. m.token \in TokenIds /\ m.kind # "free" /\ m.token \in Nat
    BY <1>4, <2>1, BoundsAssumption DEF Mail, TokenIds
  <2>3. m.token <= minted'
    BY <1>1, <2>1, <2>2, BoundsAssumption DEF Grows
  <2>4. QED
    BY <1>1, <2>1, <2>2, <2>3 DEF Grows
<1>5. outbox' = outbox => MailsSound'
  BY <1>4 DEF MailsSound
<1>6. ASSUME minted' = minted,
             \A t \in TokenIds : ott'[t].kind = ott[t].kind /\ ott'[t].user = ott[t].user
      PROVE  TokensSound'
  BY <1>1, <1>6 DEF AccountInv, TokensSound, Grows, TokensTyped
<1>7. users' = users /\ registered' = registered => RowsSound'
  BY DEF AccountInv, RowsSound
\* A step that only fills or clears slot h.
<1>8. ASSUME NEW h \in Handlers, NEW r, Enter(h, r), SlotSound(h)'
      PROVE  \A k \in Handlers : SlotSound(k)'
  BY <1>2, <1>8 DEF Enter
<1>9. ASSUME NEW h \in Handlers, NEW r, Enter(h, r), SlotSound(h)',
             UNCHANGED <<users, registered, ott, minted, issued, outbox>>
      PROVE  AccountInv'
  BY <1>3, <1>5, <1>6, <1>7, <1>8, <1>9 DEF AccountInv
<1>10. ASSUME NEW h \in Handlers, Enter(h, Blank) PROVE SlotSound(h)'
  BY <1>10 DEF Enter, SlotSound, Blank
<1>11. ASSUME NEW h \in Handlers, Register(h) PROVE AccountInv'
  <2>1. PICK u \in Users \ registered, p \in Passwords :
          Enter(h, [Blank EXCEPT !.at = "insert", !.kind = "register", !.u = u, !.pw = p])
    BY <1>11 DEF Register
  <2>2. SlotSound(h)'
    BY <2>1 DEF Enter, SlotSound, Blank
  <2>3. QED
    BY <1>9, <1>11, <2>1, <2>2 DEF Register
<1>12. ASSUME NEW h \in Handlers, InsertUser(h) PROVE AccountInv'
  <2>1. CASE req[h].u \in registered
    BY <1>9, <1>10, <1>12, <2>1 DEF InsertUser
  <2>2. CASE req[h].u \notin registered
    <3>1. req[h].u \in Users /\ req[h].kind = "register" /\ req[h] \in Request
      BY <1>12 DEF InsertUser, SlotTyped
    <3>2. req' = [req EXCEPT ![h].at = "invalidate"] /\ req[h].u \in registered'
      BY <1>12, <2>2 DEF InsertUser, Step
    <3>3. SlotSound(h)'
      BY <3>1, <3>2 DEF SlotSound, Request
    <3>4. RowsSound'
      <4>1. NewUser(req[h].pw).isActive = FALSE /\ NewUser(req[h].pw).emailVerified = FALSE
        BY DEF NewUser, NoRow
      <4>2. /\ users' = [users EXCEPT ![req[h].u] = NewUser(req[h].pw)]
            /\ registered' = registered \cup {req[h].u}
        BY <1>12, <2>2 DEF InsertUser
      <4>3. QED
        BY <3>1, <4>1, <4>2 DEF AccountInv, RowsSound
    <3>5. SessionsVerified' /\ MailsSound' /\ TokensSound'
      BY <1>3, <1>5, <1>6, <1>12 DEF InsertUser
    <3>6. \A k \in Handlers : SlotSound(k)'
      BY <1>2, <3>2, <3>3
    <3>7. QED
      BY <3>4, <3>5, <3>6 DEF AccountInv
  <2>3. QED
    BY <2>1, <2>2
<1>13. ASSUME NEW h \in Handlers, ResendVerification(h) PROVE AccountInv'
  <2>1. PICK u \in registered :
          Enter(h, [Blank EXCEPT !.at = "invalidate", !.kind = "resend", !.u = u])
    BY <1>13 DEF ResendVerification
  <2>2. SlotSound(h)'
    BY <1>13, <2>1 DEF ResendVerification, Enter, SlotSound, Blank
  <2>3. QED
    BY <1>9, <1>13, <2>1, <2>2 DEF ResendVerification
<1>14. ASSUME NEW h \in Handlers, ForgotPassword(h) PROVE AccountInv'
  <2>1. PICK u \in registered :
          /\ ResetAllowed(users[u])
          /\ Enter(h, [Blank EXCEPT !.at = "invalidate", !.kind = "forgot", !.u = u])
    BY <1>14 DEF ForgotPassword
  <2>2. SlotSound(h)'
    BY <1>14, <2>1 DEF ForgotPassword, ResetAllowed, Enter, SlotSound, Blank
  <2>3. QED
    BY <1>9, <1>14, <2>1, <2>2 DEF ForgotPassword
<1>15. ASSUME NEW h \in Handlers, InvalidateTokens(h) PROVE AccountInv'
  <2>1. \A t \in TokenIds : ott'[t].kind = ott[t].kind /\ ott'[t].user = ott[t].user
    BY <1>15 DEF InvalidateTokens, Invalidated, OneTimeToken
  <2>2. req' = [req EXCEPT ![h].at = "mint"] /\ req[h].at = "invalidate" /\ req[h] \in Request
    BY <1>15 DEF InvalidateTokens, Step
  <2>3. SlotSound(h)'
    BY <1>15, <2>2 DEF InvalidateTokens, AccountInv, SlotSound, Request
  <2>4. QED
    BY <1>2, <1>3, <1>5, <1>6, <1>7, <1>15, <2>1, <2>2, <2>3 DEF InvalidateTokens, AccountInv
<1>16. ASSUME NEW h \in Handlers, InsertToken(h) PROVE AccountInv'
  <2>1. /\ req[h] \in Request /\ SlotTyped(req[h]) /\ SlotSound(h) /\ req[h].at = "mint"
        /\ req' = [req EXCEPT ![h].at = "publish", ![h].t = minted + 1]
    BY <1>16 DEF InsertToken, AccountInv
  <2>2. req[h].u \in registered /\ req[h].kind \in {"register", "resend", "forgot"}
    BY <2>1 DEF SlotSound, SlotTyped
  <2>3. minted + 1 \in TokenIds /\ minted' = minted + 1 /\ minted \in Nat
    BY <1>16, BoundsAssumption DEF InsertToken, TokenIds
  <2>4. /\ ott'[minted + 1].kind = TokenKind(req[h]) /\ ott'[minted + 1].user = req[h].u
        /\ \A t \in TokenIds : t # minted + 1 => ott'[t] = ott[t]
    BY <1>16, <2>3 DEF InsertToken
  <2>5. SlotSound(h)'
    BY <1>16, <2>1, <2>2, <2>3, <2>4 DEF InsertToken, SlotSound, Request, TokenKind
  <2>6. TokenKind(req[h]) = "reset" => users[req[h].u].emailVerified
    BY <2>1, <2>2 DEF TokenKind, SlotSound
  <2>7. TokensSound'
    <3>1. ASSUME NEW t \in TokenIds
          PROVE  /\ t > minted + 1 => ott'[t].kind = "free"
                 /\ ott'[t].kind # "free" => ott'[t].user \in registered
                 /\ ott'[t].kind = "reset" => users[ott'[t].user].emailVerified
      <4>1. CASE t = minted + 1
        BY <2>2, <2>3, <2>4, <2>6, <4>1 DEF TokenIds
      <4>2. CASE t # minted + 1
        <5>1. t > minted + 1 => t > minted
          BY <2>3, BoundsAssumption DEF TokenIds
        <5>2. QED
          BY <2>4, <4>2, <5>1 DEF AccountInv, TokensSound
      <4>3. QED
        BY <4>1, <4>2
    <3>2. QED
      BY <1>16, <2>3, <3>1 DEF InsertToken, TokensSound
  <2>8. QED
    BY <1>2, <1>3, <1>5, <1>7, <1>16, <2>1, <2>5, <2>7 DEF InsertToken, AccountInv
<1>17. ASSUME NEW h \in Handlers, Publish(h) PROVE AccountInv'
  <2>1. req[h] \in Request /\ SlotTyped(req[h]) /\ SlotSound(h) /\ req[h].at = "publish"
    BY <1>17 DEF Publish, AccountInv
  <2>2. SlotSound(h)' /\ Enter(h, Blank)
    BY <1>10, <1>17 DEF Publish
  <2> DEFINE m == MailOf(req[h])
  <2>3. m.token # 0 => m.token <= minted /\ ott[m.token].kind = m.kind /\ ott[m.token].user = m.user
    BY <2>1 DEF MailOf, SlotSound, SlotTyped
  <2>4. MailsSound'
    BY <1>4, <1>17, <2>3 DEF Publish, MailsSound
  <2>5. SessionsVerified' /\ TokensSound' /\ RowsSound'
    BY <1>3, <1>6, <1>7, <1>17 DEF Publish
  <2>6. QED
    BY <1>8, <2>2, <2>4, <2>5 DEF AccountInv
<1>18. ASSUME NEW h \in Handlers, NEW kind \in {"verify", "reset"}, NEW p, Redeem(h, kind, p)
       PROVE  AccountInv'
  <2>1. PICK t \in TokenIds :
          /\ Presentable(t, kind)
          /\ Enter(h, [Blank EXCEPT
                !.at = IF Refused(kind, t) THEN "burn" ELSE "save",
                !.kind = kind, !.u = ott[t].user, !.t = t,
                !.row = users[ott[t].user], !.pw = p, !.todo = {"diff", "token"}])
          /\ UNCHANGED <<users, registered, ott, minted, issued, outbox, overlapped, redeemed>>
    BY <1>18 DEF Redeem
  <2> DEFINE r == [Blank EXCEPT
                !.at = IF Refused(kind, t) THEN "burn" ELSE "save",
                !.kind = kind, !.u = ott[t].user, !.t = t,
                !.row = users[ott[t].user], !.pw = p, !.todo = {"diff", "token"}]
  <2>2. /\ ott[t].user \in registered
        /\ kind = "reset" => users[ott[t].user].emailVerified /\ users[ott[t].user].isActive
    BY <2>1 DEF Presentable, AccountInv, TokensSound, RowsSound
  <2>3. \E m \in outbox : m.kind = kind /\ m.user = ott[t].user
    <3>1. PICK m \in outbox : m.token = t
      BY <2>1 DEF Presentable
    <3>2. m.token # 0
      BY <3>1, BoundsAssumption DEF TokenIds
    <3>3. QED
      BY <2>1, <3>1, <3>2 DEF AccountInv, MailsSound, Presentable
  <2>4. req'[h] = r
    BY <2>1 DEF Enter
  <2>5. SlotSound(h)'
    BY <2>1, <2>2, <2>3, <2>4 DEF SlotSound, Blank
  <2>6. QED
    BY <1>9, <2>1, <2>5
<1>19. ASSUME NEW h \in Handlers, VerifyEmail(h) \/ ResetPassword(h) PROVE AccountInv'
  BY <1>18, <1>19 DEF VerifyEmail, ResetPassword
<1>20. ASSUME NEW h \in Handlers, BurnToken(h) PROVE AccountInv'
  <2>1. \A t \in TokenIds : ott'[t].kind = ott[t].kind /\ ott'[t].user = ott[t].user
    BY <1>20 DEF BurnToken, OneTimeToken
  <2>2. \A k \in Handlers : SlotSound(k)'
    BY <1>8, <1>10, <1>20 DEF BurnToken
  <2>3. QED
    BY <1>3, <1>5, <1>6, <1>7, <1>20, <2>1, <2>2 DEF BurnToken, AccountInv
<1>21. ASSUME NEW h \in Handlers, ValidateUser(h) PROVE AccountInv'
  <2>1. PICK u \in registered :
          /\ LoginAllowed(users[u])
          /\ Enter(h, [Blank EXCEPT !.at = "issue", !.kind = "login", !.u = u, !.row = users[u]])
    BY <1>21 DEF ValidateUser
  <2>2. SlotSound(h)'
    BY <1>21, <2>1 DEF ValidateUser, LoginAllowed, Enter, SlotSound, Blank
  <2>3. QED
    BY <1>9, <1>21, <2>1, <2>2 DEF ValidateUser
<1>22. ASSUME NEW h \in Handlers, Login(h) \/ IssueRefreshed(h) PROVE AccountInv'
  <2>1. users[req[h].u].emailVerified
    BY <1>22 DEF Login, IssueRefreshed, AccountInv, SlotSound
  <2>2. SessionsVerified'
    BY <1>22, <2>1 DEF Login, IssueRefreshed, AccountInv, SessionsVerified
  <2>3. \A k \in Handlers : SlotSound(k)'
    BY <1>8, <1>10, <1>22 DEF Login, IssueRefreshed
  <2>4. QED
    BY <1>5, <1>6, <1>7, <1>22, <2>2, <2>3 DEF Login, IssueRefreshed, AccountInv
<1>23. ASSUME NEW h \in Handlers, RefreshTokens(h) PROVE AccountInv'
  <2>1. PICK s \in issued :
          /\ Accepted(s)
          /\ Enter(h, [Blank EXCEPT !.at = "rotate", !.kind = "refresh",
                        !.u = s.user, !.row = users[s.user], !.pw = s.password])
    BY <1>23 DEF RefreshTokens
  <2>2. s.user \in registered /\ users[s.user].emailVerified
    BY <2>1 DEF Accepted, ActiveRow, AccountInv, RowsSound, Session
  <2>3. SlotSound(h)'
    BY <1>23, <2>1, <2>2 DEF RefreshTokens, Enter, SlotSound, Blank
  <2>4. QED
    BY <1>9, <1>23, <2>1, <2>3 DEF RefreshTokens
<1>24. ASSUME NEW u \in Users, users' = Bumped(u), registered' = registered PROVE RowsSound'
  BY <1>24 DEF Bumped, AccountInv, RowsSound, UserRow
<1>25. ASSUME NEW h \in Handlers, RotateVersion(h) PROVE AccountInv'
  <2>1. req[h] \in Request /\ req[h].u \in Users /\ SlotSound(h) /\ SlotTyped(req[h])
    BY <1>25 DEF RotateVersion, SlotTyped, AccountInv
  <2>2. req' = [req EXCEPT ![h].at = "reissue"] /\ req[h].at = "rotate"
    BY <1>25 DEF RotateVersion, Step
  <2>3. users'[req[h].u].emailVerified /\ req[h].u \in registered'
    BY <1>1, <1>25, <2>1, <2>2 DEF Grows, SlotSound, RotateVersion
  <2>4. SlotSound(h)'
    BY <2>1, <2>2, <2>3 DEF SlotSound, Request
  <2>5. QED
    BY <1>2, <1>3, <1>5, <1>6, <1>24, <1>25, <2>1, <2>2, <2>4 DEF RotateVersion, AccountInv
<1>26. ASSUME NEW h \in Handlers, Authenticate(h) PROVE AccountInv'
  <2>1. PICK kind \in {"logout", "change"}, s \in issued :
          /\ Accepted(s)
          /\ Enter(h, [Blank EXCEPT !.at = "guarded", !.kind = kind, !.u = s.user])
    BY <1>26 DEF Authenticate
  <2>2. s.user \in registered /\ users[s.user].emailVerified
    BY <2>1 DEF Accepted, ActiveRow, AccountInv, RowsSound, Session
  <2>3. SlotSound(h)'
    BY <1>26, <2>1, <2>2 DEF Authenticate, Enter, SlotSound, Blank
  <2>4. QED
    BY <1>9, <1>26, <2>1, <2>3 DEF Authenticate
<1>27. ASSUME NEW h \in Handlers, Logout(h) PROVE AccountInv'
  <2>1. req[h].u \in Users
    BY <1>27 DEF Logout, SlotTyped
  <2>2. \A k \in Handlers : SlotSound(k)'
    BY <1>8, <1>10, <1>27 DEF Logout
  <2>3. QED
    BY <1>3, <1>5, <1>6, <1>24, <1>27, <2>1, <2>2 DEF Logout, AccountInv
<1>28. ASSUME NEW h \in Handlers, ChangePassword(h) PROVE AccountInv'
  <2>1. PICK p \in Passwords :
          Enter(h, [req[h] EXCEPT !.at = "save", !.row = users[req[h].u], !.pw = p,
                                  !.todo = {"diff"}])
    BY <1>28 DEF ChangePassword
  <2>2. /\ req[h] \in Request /\ req[h].kind = "change" /\ req[h].u \in registered
        /\ users[req[h].u].emailVerified /\ users[req[h].u].isActive
    BY <1>28 DEF ChangePassword, AccountInv, SlotSound, SlotTyped, RowsSound
  <2>3. SlotSound(h)'
    BY <1>28, <2>1, <2>2 DEF ChangePassword, Enter, SlotSound, Request
  <2>4. QED
    BY <1>9, <1>28, <2>1, <2>3 DEF ChangePassword
<1>29. ASSUME NEW h \in Handlers, SaveDiff(h) PROVE AccountInv'
  <2> DEFINE r == [req[h] EXCEPT !.cols = Touched(req[h]),
                                 !.todo = (req[h].todo \ {"diff"}) \cup {"write"}]
  <2>1. req[h] \in Request /\ SlotTyped(req[h]) /\ SlotSound(h) /\ req[h].at = "save"
    BY <1>29 DEF SaveDiff, AccountInv
  <2>2. req[h].kind = "verify" => \/ users[req[h].u].emailVerified
                                  \/ "isActive" \in r.cols /\ "emailVerified" \in r.cols
    <3>1. SUFFICES ASSUME req[h].kind = "verify", ~ users[req[h].u].emailVerified
                   PROVE  "isActive" \in r.cols /\ "emailVerified" \in r.cols
      OBVIOUS
    <3>2. ~ users[req[h].u].isActive
      BY <2>1, <3>1 DEF AccountInv, RowsSound, SlotTyped
    <3>3. Entity(req[h]).isActive /\ Entity(req[h]).emailVerified /\ req[h].row \in UserRow
      BY <2>1, <3>1 DEF Entity, Request, UserRow
    <3>4. "isActive" \in Touched(req[h]) /\ "emailVerified" \in Touched(req[h])
      BY <3>1, <3>2, <3>3 DEF Touched, Columns
    <3>5. QED
      BY <2>1, <3>4 DEF Request
  <2>3. req' = [req EXCEPT ![h] = r]
    BY <1>29 DEF SaveDiff, Enter
  <2>4. SlotSound(h)'
    BY <1>29, <2>1, <2>2, <2>3 DEF SaveDiff, SlotSound, Request
  <2>5. QED
    BY <1>9, <1>29, <2>4 DEF SaveDiff
\* what is left of a request when a part of its save has ended
<1>30. ASSUME NEW h \in Handlers, NEW part, NEW q, Enter(h, Done(q, part)),
              req[h].at = "save",
              q = req[h] \/ q = [req[h] EXCEPT !.ok = FALSE]
       PROVE  SlotSound(h)'
  <2>1. req[h] \in Request /\ SlotTyped(req[h]) /\ SlotSound(h)
    BY DEF AccountInv
  <2> DEFINE d == [q EXCEPT !.todo = @ \ {part}]
  <2>2. /\ d.at = "save" /\ d.kind = req[h].kind /\ d.u = req[h].u /\ d.row = req[h].row
        /\ d.cols = req[h].cols /\ ("write" \in d.todo => "write" \in req[h].todo)
        /\ d \in Request
    BY <1>30, <2>1 DEF Request
  <2>3. \/ req'[h] = d
        \/ req'[h] = [d EXCEPT !.at = "publish"] /\ d.kind = "verify"
        \/ req'[h] = Blank
    BY <1>30 DEF Enter, Done, Settled
  <2>4. CASE req'[h] = d
    BY <1>1, <1>30, <2>1, <2>2, <2>4 DEF SlotSound, Grows, SlotTyped
  <2>5. CASE req'[h] = [d EXCEPT !.at = "publish"] /\ d.kind = "verify"
    BY <1>1, <1>30, <2>1, <2>2, <2>5 DEF SlotSound, Grows, SlotTyped, Request
  <2>6. CASE req'[h] = Blank
    BY <2>6 DEF SlotSound, Blank
  <2>7. QED
    BY <2>3, <2>4, <2>5, <2>6
<1>31. ASSUME NEW h \in Handlers, SaveWrite(h) PROVE AccountInv'
  <2>1. Written(req[h]).emailVerified /\ Written(req[h]).isActive /\ req[h].u \in registered
    BY <1>31, WrittenVerified
  <2>2. Enter(h, Done(req[h], "write")) /\ req[h].at = "save"
    BY <1>31 DEF SaveWrite
  <2>3. SlotSound(h)'
    BY <1>30, <2>2
  <2>4. RowsSound'
    BY <1>31, <2>1 DEF SaveWrite, AccountInv, RowsSound
  <2>5. QED
    BY <1>3, <1>5, <1>6, <1>8, <1>31, <2>2, <2>3, <2>4 DEF SaveWrite, AccountInv
<1>32. ASSUME NEW h \in Handlers, SaveToken(h) PROVE AccountInv'
  <2>1. \A t \in TokenIds : ott'[t].kind = ott[t].kind /\ ott'[t].user = ott[t].user
    BY <1>32 DEF SaveToken, OneTimeToken
  <2>2. Enter(h, Done(req[h], "token")) /\ req[h].at = "save"
    BY <1>32 DEF SaveToken
  <2>3. SlotSound(h)'
    BY <1>30, <2>2
  <2>4. QED
    BY <1>3, <1>5, <1>6, <1>7, <1>8, <1>32, <2>1, <2>2, <2>3 DEF SaveToken, AccountInv
<1>33. ASSUME NEW h \in Handlers, SaveFails(h) PROVE AccountInv'
  <2>1. PICK part \in req[h].todo : Enter(h, Done([req[h] EXCEPT !.ok = FALSE], part))
    BY <1>33 DEF SaveFails
  <2>2. SlotSound(h)'
    BY <1>30, <1>33, <2>1 DEF SaveFails
  <2>3. QED
    BY <1>9, <1>33, <2>1, <2>2 DEF SaveFails
<1>34. ASSUME NEW h \in Handlers, Abort(h) PROVE AccountInv'
  BY <1>9, <1>10, <1>34 DEF Abort
<1>35. ASSUME NEW t \in TokenIds, ExpireToken(t) PROVE AccountInv'
  <2>1. \A q \in TokenIds : ott'[q].kind = ott[q].kind /\ ott'[q].user = ott[q].user
    BY <1>35 DEF ExpireToken, OneTimeToken
  <2>2. \A k \in Handlers : SlotSound(k)'
    BY <1>2, <1>35 DEF ExpireToken
  <2>3. QED
    BY <1>3, <1>5, <1>6, <1>7, <1>35, <2>1, <2>2 DEF ExpireToken, AccountInv
<1>36. CASE UNCHANGED vars
  BY <1>2, <1>3, <1>5, <1>6, <1>7, <1>36 DEF vars, AccountInv
<1>37. QED
  BY <1>11, <1>12, <1>13, <1>14, <1>15, <1>16, <1>17, <1>19, <1>20, <1>21, <1>22, <1>23, <1>25,
     <1>26, <1>27, <1>28, <1>29, <1>31, <1>32, <1>33, <1>34, <1>35, <1>36 DEF Next

\* Redemptions are not taken back, and a used token stays used.
LEMMA UsedStays ==
    ASSUME TypeInv, AccountInv, [Next]_vars
    PROVE  \A t \in TokenIds :
             /\ redeemed[t] <= redeemed'[t]
             /\ ott[t].kind # "free" /\ ott[t].used => ott'[t].used
<1> USE DEF TypeInv, TypeOK
<1>0. \A t \in TokenIds : redeemed[t] \in Nat /\ redeemed[t] <= redeemed[t]
  OBVIOUS
<1>1. ASSUME NEW h \in Handlers, InvalidateTokens(h) \/ BurnToken(h) \/ SaveToken(h)
      PROVE  \A t \in TokenIds : redeemed'[t] = redeemed[t] /\ (ott[t].used => ott'[t].used)
  BY <1>1 DEF InvalidateTokens, Invalidated, BurnToken, SaveToken, OneTimeToken
<1>2. ASSUME NEW h \in Handlers, InsertToken(h)
      PROVE  /\ redeemed' = redeemed
             /\ \A t \in TokenIds : ott[t].kind # "free" => ott'[t] = ott[t]
  <2>1. minted + 1 \in TokenIds /\ minted + 1 > minted
    BY <1>2, BoundsAssumption DEF InsertToken, TokenIds
  <2>2. ott[minted + 1].kind = "free"
    BY <2>1 DEF AccountInv, TokensSound
  <2>3. QED
    BY <1>2, <2>2 DEF InsertToken
<1>3. ASSUME NEW h \in Handlers, SaveWrite(h)
      PROVE  ott' = ott /\ \A t \in TokenIds : redeemed[t] <= redeemed'[t]
  BY <1>0, <1>3 DEF SaveWrite
<1>4. ASSUME NEW h \in Handlers,
             \/ Register(h) \/ InsertUser(h) \/ ResendVerification(h) \/ ForgotPassword(h)
             \/ Publish(h) \/ VerifyEmail(h) \/ ResetPassword(h) \/ ValidateUser(h)
             \/ Login(h) \/ RefreshTokens(h) \/ RotateVersion(h) \/ IssueRefreshed(h)
             \/ Authenticate(h) \/ Logout(h) \/ ChangePassword(h)
             \/ SaveDiff(h) \/ SaveFails(h) \/ Abort(h)
      PROVE  ott' = ott /\ redeemed' = redeemed
  BY <1>4 DEF Register, InsertUser, ResendVerification, ForgotPassword, Publish, VerifyEmail,
     ResetPassword, Redeem, ValidateUser, Login, RefreshTokens, RotateVersion, IssueRefreshed,
     Authenticate, Logout, ChangePassword, SaveDiff, SaveFails, Abort
<1>5. ASSUME NEW t \in TokenIds, ExpireToken(t)
      PROVE  redeemed' = redeemed /\ \A q \in TokenIds : ott[q].used => ott'[q].used
  BY <1>5 DEF ExpireToken, OneTimeToken
<1>6. CASE UNCHANGED vars
  BY <1>0, <1>6 DEF vars
<1>7. QED
  BY <1>0, <1>1, <1>2, <1>3, <1>4, <1>5, <1>6 DEF Next

LEMMA AccountInvariant == Spec => []AccountInv
<1>1. TypeInv /\ TypeInv' /\ AccountInv /\ [Next]_vars => AccountInv'
  BY AccountStep
<1>2. QED
  BY <1>1, AccountInit, TypeInvariant, PTL DEF Spec

(***************************************************************************)
(* Sessions and passwords                                                  *)
(***************************************************************************)

\* A session of u at version v obtained with password p: it is not ahead of
\* the row, and level with it only under the password of the row.
UpTo(u, v, p) ==
    /\ v <= users[u].tokenVersion
    /\ v = users[u].tokenVersion => p = users[u].password

SessionsUpTo ==
    \A s \in issued : s.user \notin overlapped => UpTo(s.user, s.version, s.password)

\* The sessions a request is about to hand out, and the row versions the saves
\* were computed from.  A save that leaves tokenVersion out found the version
\* it wants already in the table: the row has moved on.
SlotUpTo(h) ==
    LET r == req[h] IN r.u \notin overlapped =>
    /\ r.at = "issue" => UpTo(r.u, r.row.tokenVersion, r.row.password)
    /\ r.at = "rotate" => UpTo(r.u, r.row.tokenVersion, r.pw)
    /\ r.at = "reissue" => UpTo(r.u, r.row.tokenVersion + 1, r.pw)
    /\ r.at = "save" => r.row.tokenVersion <= users[r.u].tokenVersion
    /\ r.at = "save" /\ "write" \in r.todo =>
        IF r.kind = "verify"
        THEN "password" \notin r.cols
        ELSE "tokenVersion" \in r.cols \/ r.row.tokenVersion < users[r.u].tokenVersion

SessionInv ==
    /\ SessionsUpTo
    /\ \A h \in Handlers : SlotUpTo(h)

\* Versions only grow, and a new password comes with a new version, unless a
\* save has overlapped another change of the row.
VersionsGrow ==
    /\ overlapped \subseteq overlapped'
    /\ \A u \in registered : u \notin overlapped' =>
        /\ users[u].tokenVersion <= users'[u].tokenVersion
        /\ users[u].tokenVersion = users'[u].tokenVersion => users[u].password = users'[u].password

LEMMA SessionInit == Init => SessionInv
  BY DEF Init, SessionInv, SessionsUpTo, SlotUpTo, Blank

\* A save that does not overlap: verifyEmail leaves version and password as
\* they are, a password save bumps the version.
LEMMA WrittenVersion ==
    ASSUME TypeInv, SessionInv, NEW h \in Handlers, SaveWrite(h), req[h].u \notin overlapped'
    PROVE  LET u == req[h].u IN
           /\ u \notin overlapped
           /\ \/ /\ Written(req[h]).tokenVersion = users[u].tokenVersion
                 /\ Written(req[h]).password = users[u].password
              \/ Written(req[h]).tokenVersion = users[u].tokenVersion + 1
<1> DEFINE r == req[h]
           u == req[h].u
<1>1. r \in Request /\ SlotTyped(r) /\ SlotUpTo(h) /\ r.at = "save" /\ "write" \in r.todo
  BY DEF SaveWrite, TypeInv, TypeOK, SessionInv
<1>2. u \in Users /\ users[u] \in UserRow /\ r.row \in UserRow
  BY <1>1 DEF SlotTyped, TypeInv, TypeOK, Request
<1>3. u \notin overlapped /\ users[u].tokenVersion = r.row.tokenVersion
  BY DEF SaveWrite
<1>4. CASE r.kind = "verify"
  <2>1. Entity(r).tokenVersion = r.row.tokenVersion
    BY <1>2, <1>4 DEF Entity, UserRow
  <2>2. "password" \notin r.cols
    BY <1>1, <1>3, <1>4 DEF SlotUpTo
  <2>3. QED
    BY <1>3, <2>1, <2>2 DEF Written
<1>5. CASE r.kind # "verify"
  <2>1. Entity(r).tokenVersion = r.row.tokenVersion + 1
    BY <1>2, <1>5 DEF Entity, UserRow
  <2>2. "tokenVersion" \in r.cols
    BY <1>1, <1>2, <1>3, <1>5 DEF SlotUpTo, UserRow
  <2>3. QED
    BY <1>3, <2>1, <2>2 DEF Written
<1>6. QED
  BY <1>3, <1>4, <1>5

LEMMA VersionsOnlyGrow ==
    ASSUME TypeInv, AccountInv, SessionInv, [Next]_vars
    PROVE  VersionsGrow
<1> USE DEF TypeInv, TypeOK
<1>1. ASSUME NEW h \in Handlers, InsertUser(h) PROVE VersionsGrow
  <2>1. \A u \in registered : users'[u] = users[u]
    BY <1>1 DEF InsertUser
  <2>2. QED
    BY <1>1, <2>1 DEF InsertUser, VersionsGrow, UserRow
<1>2. ASSUME NEW h \in Handlers, RotateVersion(h) \/ Logout(h) PROVE VersionsGrow
  <2>1. req[h].u \in Users /\ users' = Bumped(req[h].u) /\ overlapped' = overlapped
    BY <1>2 DEF RotateVersion, Logout, SlotTyped
  <2>2. \A v \in Users : \/ users'[v] = users[v]
                         \/ users'[v].tokenVersion = users[v].tokenVersion + 1
    BY <2>1 DEF Bumped, UserRow
  <2>3. \A v \in Users : users[v].tokenVersion \in Nat
    BY DEF UserRow
  <2>4. QED
    BY <2>1, <2>2, <2>3 DEF VersionsGrow
<1>3. ASSUME NEW h \in Handlers, SaveWrite(h) PROVE VersionsGrow
  <2>1. overlapped \subseteq overlapped' /\ users' = [users EXCEPT ![req[h].u] = Written(req[h])]
    BY <1>3 DEF SaveWrite
  <2>2. ASSUME NEW u \in registered, u \notin overlapped'
        PROVE  /\ users[u].tokenVersion <= users'[u].tokenVersion
               /\ users[u].tokenVersion = users'[u].tokenVersion
                    => users[u].password = users'[u].password
    <3>1. users[u].tokenVersion \in Nat
      BY DEF UserRow
    <3>2. CASE u = req[h].u
      <4>1. users'[u] = Written(req[h])
        BY <2>1, <3>2
      <4>2. QED
        BY <1>3, <2>2, <3>1, <3>2, <4>1, WrittenVersion
    <3>3. CASE u # req[h].u
      BY <2>1, <3>1, <3>3
    <3>4. QED
      BY <3>2, <3>3
  <2>3. QED
    BY <2>1, <2>2 DEF VersionsGrow
<1>4. ASSUME users' = users, overlapped' = overlapped PROVE VersionsGrow
  BY <1>4 DEF VersionsGrow, UserRow
<1>5. ASSUME NEW h \in Handlers,
             \/ Register(h) \/ ResendVerification(h) \/ ForgotPassword(h)
             \/ InvalidateTokens(h) \/ InsertToken(h) \/ Publish(h)
             \/ VerifyEmail(h) \/ ResetPassword(h) \/ BurnToken(h) \/ ValidateUser(h) \/ Login(h)
             \/ RefreshTokens(h) \/ IssueRefreshed(h) \/ Authenticate(h) \/ ChangePassword(h)
             \/ SaveDiff(h) \/ SaveToken(h) \/ SaveFails(h) \/ Abort(h)
      PROVE  VersionsGrow
  BY <1>4, <1>5 DEF Register, ResendVerification, ForgotPassword, InvalidateTokens, InsertToken,
     Publish, VerifyEmail, ResetPassword, Redeem, BurnToken, ValidateUser, Login, RefreshTokens,
     IssueRefreshed, Authenticate, ChangePassword, SaveDiff, SaveToken, SaveFails, Abort
<1>6. ASSUME NEW t \in TokenIds, ExpireToken(t) PROVE VersionsGrow
  BY <1>4, <1>6 DEF ExpireToken
<1>7. CASE UNCHANGED vars
  BY <1>4, <1>7 DEF vars
<1>8. QED
  BY <1>1, <1>2, <1>3, <1>5, <1>6, <1>7 DEF Next

LEMMA SessionStep ==
    ASSUME TypeInv, TypeInv', AccountInv, SessionInv, [Next]_vars
    PROVE  SessionInv'
<1> USE DEF TypeInv, TypeOK
<1>1. VersionsGrow
  BY VersionsOnlyGrow
<1>2. ASSUME NEW u \in registered, u \notin overlapped', NEW v \in Nat, NEW p, UpTo(u, v, p)
      PROVE  UpTo(u, v, p)'
  <2>1. users[u].tokenVersion \in Nat /\ users'[u].tokenVersion \in Nat
    BY DEF UserRow
  <2>2. QED
    BY <1>1, <1>2, <2>1 DEF VersionsGrow, UpTo
<1>3. ASSUME NEW s \in issued, s.user \notin overlapped' PROVE UpTo(s.user, s.version, s.password)'
  <2>1. s.user \in registered /\ s.version \in Nat /\ s.user \notin overlapped
    BY <1>1, <1>3 DEF AccountInv, SessionsVerified, RowsSound, Session, VersionsGrow
  <2>2. UpTo(s.user, s.version, s.password)
    BY <2>1 DEF SessionInv, SessionsUpTo
  <2>3. QED
    BY <1>2, <1>3, <2>1, <2>2
<1>4. issued' = issued => SessionsUpTo'
  BY <1>3 DEF SessionsUpTo
<1>5. ASSUME NEW k \in Handlers, req'[k] = req[k] PROVE SlotUpTo(k)'
  <2> DEFINE r == req[k]
  <2>1. SUFFICES ASSUME r.u \notin overlapped' PROVE SlotUpTo(k)'
    BY <1>5 DEF SlotUpTo
  <2>2. r \in Request /\ SlotSound(k) /\ SlotUpTo(k) /\ SlotTyped(r) /\ r.u \notin overlapped
    BY <1>1, <2>1 DEF AccountInv, SessionInv, VersionsGrow
  <2>3. r.row.tokenVersion \in Nat /\ r.row.tokenVersion + 1 \in Nat
    BY <2>2 DEF Request, UserRow
  <2>4. ASSUME r.at \in {"issue", "rotate", "reissue", "save"}
        PROVE  /\ r.u \in registered
               /\ users[r.u].tokenVersion \in Nat /\ users'[r.u].tokenVersion \in Nat
               /\ users[r.u].tokenVersion <= users'[r.u].tokenVersion
    <3>1. r.u \in registered
      BY <2>2, <2>4 DEF SlotSound
    <3>2. QED
      BY <1>1, <2>1, <3>1 DEF VersionsGrow, UserRow
  <2>5. /\ r.at = "issue" => UpTo(r.u, r.row.tokenVersion, r.row.password)'
        /\ r.at = "rotate" => UpTo(r.u, r.row.tokenVersion, r.pw)'
        /\ r.at = "reissue" => UpTo(r.u, r.row.tokenVersion + 1, r.pw)'
    <3>1. CASE r.at = "issue"
      <4>1. UpTo(r.u, r.row.tokenVersion, r.row.password)
        BY <2>2, <3>1 DEF SlotUpTo
      <4>2. UpTo(r.u, r.row.tokenVersion, r.row.password)'
        BY <1>1, <1>5, <2>1, <2>3, <2>4, <3>1, <4>1 DEF UpTo, VersionsGrow
      <4>3. QED
        BY <3>1, <4>2
    <3>2. CASE r.at = "rotate"
      <4>1. UpTo(r.u, r.row.tokenVersion, r.pw)
        BY <2>2, <3>2 DEF SlotUpTo
      <4>2. UpTo(r.u, r.row.tokenVersion, r.pw)'
        BY <1>1, <1>5, <2>1, <2>3, <2>4, <3>2, <4>1 DEF UpTo, VersionsGrow
      <4>3. QED
        BY <3>2, <4>2
    <3>3. CASE r.at = "reissue"
      <4>1. UpTo(r.u, r.row.tokenVersion + 1, r.pw)
        BY <2>2, <3>3 DEF SlotUpTo
      <4>2. UpTo(r.u, r.row.tokenVersion + 1, r.pw)'
        BY <1>1, <1>5, <2>1, <2>3, <2>4, <3>3, <4>1 DEF UpTo, VersionsGrow
      <4>3. QED
        BY <3>3, <4>2
    <3>4. QED
      BY <3>1, <3>2, <3>3
  <2>6. r.at = "save" =>
          /\ r.row.tokenVersion <= users'[r.u].tokenVersion
          /\ "write" \in r.todo =>
                IF r.kind = "verify"
                THEN "password" \notin r.cols
                ELSE "tokenVersion" \in r.cols \/ r.row.tokenVersion < users'[r.u].tokenVersion
    BY <2>2, <2>3, <2>4 DEF SlotUpTo
  <2>7. QED
    BY <1>5, <2>5, <2>6 DEF SlotUpTo
\* A step that only fills or clears slot h.
<1>6. ASSUME NEW h \in Handlers, NEW r, Enter(h, r), SlotUpTo(h)'
      PROVE  \A k \in Handlers : SlotUpTo(k)'
  BY <1>5, <1>6 DEF Enter
<1>7. ASSUME NEW h \in Handlers, NEW r, Enter(h, r), issued' = issued, SlotUpTo(h)'
      PROVE  SessionInv'
  BY <1>4, <1>6, <1>7 DEF SessionInv
<1>8. ASSUME NEW h \in Handlers, NEW r, Enter(h, r), issued' = issued,
             r.at \notin {"issue", "rotate", "reissue", "save"}
      PROVE  SessionInv'
  <2>1. SlotUpTo(h)'
    BY <1>8 DEF Enter, SlotUpTo
  <2>2. QED
    BY <1>7, <1>8, <2>1
<1>9. Blank.at = "idle"
  BY DEF Blank
<1>10. ASSUME NEW h \in Handlers, Register(h) PROVE SessionInv'
  BY <1>8, <1>10 DEF Register, Blank
<1>11. ASSUME NEW h \in Handlers, InsertUser(h) PROVE SessionInv'
  <2>1. CASE req[h].u \in registered
    BY <1>8, <1>9, <1>11, <2>1 DEF InsertUser
  <2>2. CASE req[h].u \notin registered
    BY <1>8, <1>11, <2>2 DEF InsertUser, Step, Enter, Request
  <2>3. QED
    BY <2>1, <2>2
<1>12. ASSUME NEW h \in Handlers, ResendVerification(h) PROVE SessionInv'
  BY <1>8, <1>12 DEF ResendVerification, Blank
<1>13. ASSUME NEW h \in Handlers, ForgotPassword(h) PROVE SessionInv'
  BY <1>8, <1>13 DEF ForgotPassword, Blank
<1>14. ASSUME NEW h \in Handlers, InvalidateTokens(h) PROVE SessionInv'
  <2> DEFINE r == [req[h] EXCEPT !.at = "mint"]
  <2>1. Enter(h, r) /\ r.at = "mint"
    BY <1>14 DEF InvalidateTokens, Step, Enter, Request
  <2>2. QED
    BY <1>8, <1>14, <2>1 DEF InvalidateTokens
<1>15. ASSUME NEW h \in Handlers, InsertToken(h) PROVE SessionInv'
  <2> DEFINE r == [req[h] EXCEPT !.at = "publish", !.t = minted + 1]
  <2>1. Enter(h, r) /\ r.at = "publish"
    BY <1>15 DEF InsertToken, Enter, Request
  <2>2. QED
    BY <1>8, <1>15, <2>1 DEF InsertToken
<1>16. ASSUME NEW h \in Handlers, Publish(h) \/ BurnToken(h) \/ Logout(h) \/ Abort(h)
       PROVE  SessionInv'
  BY <1>8, <1>9, <1>16 DEF Publish, BurnToken, Logout, Abort
<1>17. ASSUME NEW h \in Handlers, VerifyEmail(h) \/ ResetPassword(h) PROVE SessionInv'
  <2>1. PICK kind \in {"verify", "reset"}, p \in Passwords \cup {None} : Redeem(h, kind, p)
    BY <1>17 DEF VerifyEmail, ResetPassword
  <2>2. PICK t \in TokenIds :
          /\ Presentable(t, kind)
          /\ Enter(h, [Blank EXCEPT
                !.at = IF Refused(kind, t) THEN "burn" ELSE "save",
                !.kind = kind, !.u = ott[t].user, !.t = t,
                !.row = users[ott[t].user], !.pw = p, !.todo = {"diff", "token"}])
          /\ UNCHANGED <<users, registered, ott, minted, issued, outbox, overlapped, redeemed>>
    BY <2>1 DEF Redeem
  <2>3. ott[t].user \in Users /\ users[ott[t].user].tokenVersion \in Nat
    BY <2>2 DEF Presentable, TokensTyped, UserRow
  <2>4. SlotUpTo(h)'
    BY <2>2, <2>3 DEF Enter, SlotUpTo, Blank
  <2>5. QED
    BY <1>7, <2>2, <2>4
<1>18. ASSUME NEW h \in Handlers, ValidateUser(h) PROVE SessionInv'
  <2>1. PICK u \in registered :
          Enter(h, [Blank EXCEPT !.at = "issue", !.kind = "login", !.u = u, !.row = users[u]])
    BY <1>18 DEF ValidateUser
  <2>2. u \in Users /\ users[u].tokenVersion \in Nat /\ users' = users
    BY <1>18 DEF ValidateUser, UserRow
  <2>3. SlotUpTo(h)'
    BY <2>1, <2>2 DEF Enter, SlotUpTo, UpTo, Blank
  <2>4. QED
    BY <1>7, <1>18, <2>1, <2>3 DEF ValidateUser
<1>19. ASSUME NEW h \in Handlers, Login(h) \/ IssueRefreshed(h) PROVE SessionInv'
  <2>1. /\ req[h] \in Request /\ SlotTyped(req[h]) /\ SlotUpTo(h)
        /\ Enter(h, Blank) /\ UNCHANGED <<users, overlapped>>
    BY <1>19 DEF Login, IssueRefreshed, SessionInv
  <2>2. SessionsUpTo'
    <3>1. CASE Login(h)
      BY <2>1, <3>1 DEF Login, SessionInv, SessionsUpTo, SlotUpTo, UpTo
    <3>2. CASE IssueRefreshed(h)
      BY <2>1, <3>2 DEF IssueRefreshed, NextTokenVersion, SessionInv, SessionsUpTo, SlotUpTo, UpTo
    <3>3. QED
      BY <1>19, <3>1, <3>2
  <2>3. SlotUpTo(h)'
    BY <2>1 DEF Enter, SlotUpTo, Blank
  <2>4. QED
    BY <1>6, <2>1, <2>2, <2>3 DEF SessionInv
<1>20. ASSUME NEW h \in Handlers, RefreshTokens(h) PROVE SessionInv'
  <2>1. PICK s \in issued :
          /\ Accepted(s)
          /\ Enter(h, [Blank EXCEPT !.at = "rotate", !.kind = "refresh",
                        !.u = s.user, !.row = users[s.user], !.pw = s.password])
    BY <1>20 DEF RefreshTokens
  <2>2. s.user \in Users /\ users[s.user].tokenVersion \in Nat /\ users' = users
    BY <1>20 DEF RefreshTokens, Session, UserRow
  <2>3. s.user \notin overlapped => s.password = users[s.user].password
    BY <2>1 DEF SessionInv, SessionsUpTo, UpTo, Accepted
  <2>4. SlotUpTo(h)'
    <3>1. /\ req'[h].at = "rotate" /\ req'[h].u = s.user
          /\ req'[h].row = users[s.user] /\ req'[h].pw = s.password
      BY <2>1 DEF Enter, Blank
    <3>2. overlapped' = overlapped
      BY <1>20 DEF RefreshTokens
    <3>3. QED
      BY <2>2, <2>3, <3>1, <3>2 DEF SlotUpTo, UpTo
  <2>5. QED
    BY <1>7, <1>20, <2>1, <2>4 DEF RefreshTokens
<1>21. ASSUME NEW h \in Handlers, RotateVersion(h) PROVE SessionInv'
  <2> DEFINE r == req[h]
  <2>1. r \in Request /\ SlotTyped(r) /\ SlotUpTo(h) /\ r.at = "rotate"
    BY <1>21 DEF RotateVersion, SessionInv
  <2>2. r.u \in Users /\ users[r.u] \in UserRow /\ r.row.tokenVersion \in Nat
    BY <2>1 DEF SlotTyped, Request, UserRow
  <2>3. /\ users'[r.u].tokenVersion = users[r.u].tokenVersion + 1
        /\ users'[r.u].password = users[r.u].password
    BY <1>21, <2>2 DEF RotateVersion, Bumped, UserRow
  <2>4. req'[h] = [r EXCEPT !.at = "reissue"] /\ Enter(h, [r EXCEPT !.at = "reissue"])
    BY <1>21 DEF RotateVersion, Step, Enter
  <2>5. users[r.u].tokenVersion \in Nat
    BY <2>2 DEF UserRow
  <2>6. r.u \notin overlapped => UpTo(r.u, r.row.tokenVersion, r.pw)
    BY <2>1 DEF SlotUpTo
  <2>7. r.u \notin overlapped =>
          /\ r.row.tokenVersion + 1 <= users'[r.u].tokenVersion
          /\ r.row.tokenVersion + 1 = users'[r.u].tokenVersion => r.pw = users'[r.u].password
    BY <2>2, <2>3, <2>5, <2>6 DEF UpTo
  <2>8. overlapped' = overlapped
    BY <1>21 DEF RotateVersion
  <2>9. SlotUpTo(h)'
    BY <2>1, <2>4, <2>7, <2>8 DEF SlotUpTo, UpTo, Request
  <2>10. QED
    BY <1>7, <1>21, <2>4, <2>9 DEF RotateVersion
<1>22. ASSUME NEW h \in Handlers, Authenticate(h) PROVE SessionInv'
  BY <1>8, <1>22 DEF Authenticate, Blank
<1>23. ASSUME NEW h \in Handlers, ChangePassword(h) PROVE SessionInv'
  <2>1. PICK p \in Passwords :
          Enter(h, [req[h] EXCEPT !.at = "save", !.row = users[req[h].u], !.pw = p,
                                  !.todo = {"diff"}])
    BY <1>23 DEF ChangePassword
  <2>2. req[h] \in Request /\ req[h].u \in Users /\ users[req[h].u].tokenVersion \in Nat
    BY <1>23 DEF ChangePassword, SlotTyped, UserRow
  <2>3. SlotUpTo(h)'
    BY <1>23, <2>1, <2>2 DEF ChangePassword, Enter, SlotUpTo, Request
  <2>4. QED
    BY <1>7, <1>23, <2>1, <2>3 DEF ChangePassword
<1>24. ASSUME NEW h \in Handlers, SaveDiff(h) PROVE SessionInv'
  <2> DEFINE r == [req[h] EXCEPT !.cols = Touched(req[h]),
                                 !.todo = (req[h].todo \ {"diff"}) \cup {"write"}]
  <2>1. req[h] \in Request /\ SlotTyped(req[h]) /\ SlotUpTo(h) /\ req[h].at = "save"
    BY <1>24 DEF SaveDiff, SessionInv
  <2>2. /\ req[h].u \in Users /\ users[req[h].u].tokenVersion \in Nat
        /\ req[h].row \in UserRow /\ req[h].row.tokenVersion \in Nat
    BY <2>1 DEF SlotTyped, Request, UserRow
  <2>3. req[h].kind = "verify" => "password" \notin Touched(req[h])
    BY DEF Touched
  <2>4. ASSUME req[h].kind # "verify"
        PROVE  "tokenVersion" \in Touched(req[h]) \/ req[h].row.tokenVersion < users[req[h].u].tokenVersion
    <3>1. Entity(req[h]).tokenVersion = req[h].row.tokenVersion + 1
      BY <2>2, <2>4 DEF Entity, UserRow
    <3>2. CASE Entity(req[h]).tokenVersion = users[req[h].u].tokenVersion
      BY <2>2, <3>1, <3>2
    <3>3. CASE Entity(req[h]).tokenVersion # users[req[h].u].tokenVersion
      BY <3>3 DEF Touched, Columns
    <3>4. QED
      BY <3>2, <3>3
  <2>5. Enter(h, r) /\ req'[h] = r
    BY <1>24 DEF SaveDiff, Enter
  <2>6. SlotUpTo(h)'
    BY <1>24, <2>1, <2>3, <2>4, <2>5 DEF SaveDiff, SlotUpTo, Request
  <2>7. QED
    BY <1>7, <1>24, <2>5, <2>6 DEF SaveDiff
\* d is what is left of a request when a part of its save has ended.
<1>25. ASSUME NEW h \in Handlers, NEW d \in Request, Enter(h, Settled(d)), issued' = issued,
              req[h].at = "save", d.at = "save", d.kind = req[h].kind, d.u = req[h].u,
              d.row = req[h].row, d.cols = req[h].cols, "write" \in d.todo => "write" \in req[h].todo
       PROVE  SessionInv'
  <2> SUFFICES SlotUpTo(h)'
    BY <1>7, <1>25
  <2>1. SlotTyped(req[h]) /\ SlotUpTo(h) /\ SlotSound(h)
    BY DEF SessionInv, AccountInv
  <2>2. \/ req'[h] = d
        \/ req'[h] = [d EXCEPT !.at = "publish"]
        \/ req'[h] = Blank
    BY <1>25 DEF Enter, Settled
  <2>3. /\ d.u \in registered /\ d.row.tokenVersion \in Nat
        /\ users[d.u].tokenVersion \in Nat /\ users'[d.u].tokenVersion \in Nat
    BY <1>25, <2>1 DEF SlotSound, Request, UserRow
  <2>4. CASE req'[h] = d
    <3>1. SUFFICES ASSUME d.u \notin overlapped'
                   PROVE  /\ d.row.tokenVersion <= users'[d.u].tokenVersion
                          /\ "write" \in d.todo =>
                                IF d.kind = "verify"
                                THEN "password" \notin d.cols
                                ELSE \/ "tokenVersion" \in d.cols
                                     \/ d.row.tokenVersion < users'[d.u].tokenVersion
      BY <1>25, <2>4 DEF SlotUpTo
    <3>2. d.u \notin overlapped /\ users[d.u].tokenVersion <= users'[d.u].tokenVersion
      BY <1>1, <2>3, <3>1 DEF VersionsGrow
    <3>3. QED
      BY <1>25, <2>1, <2>3, <3>2 DEF SlotUpTo
  <2>5. CASE req'[h] = [d EXCEPT !.at = "publish"]
    <3>1. req'[h].at = "publish"
      BY <2>5 DEF Request
    <3>2. QED
      BY <3>1 DEF SlotUpTo
  <2>6. CASE req'[h] = Blank
    BY <2>6 DEF SlotUpTo, Blank
  <2>7. QED
    BY <2>2, <2>4, <2>5, <2>6
<1>26. ASSUME NEW h \in Handlers, SaveWrite(h) \/ SaveToken(h) \/ SaveFails(h) PROVE SessionInv'
  <2>1. req[h] \in Request /\ req[h].at = "save" /\ issued' = issued
    BY <1>26 DEF SaveWrite, SaveToken, SaveFails
  <2>2. ASSUME NEW part, Enter(h, Done(req[h], part)) PROVE SessionInv'
    <3> DEFINE d == [req[h] EXCEPT !.todo = @ \ {part}]
    <3>1. Enter(h, Settled(d))
      BY <2>2 DEF Done
    <3>2. /\ d \in Request /\ d.at = "save" /\ d.kind = req[h].kind /\ d.u = req[h].u
          /\ d.row = req[h].row /\ d.cols = req[h].cols
          /\ "write" \in d.todo => "write" \in req[h].todo
      BY <2>1 DEF Request
    <3> HIDE DEF d
    <3>3. QED
      BY <1>25, <2>1, <3>1, <3>2
  <2>3. ASSUME NEW part, Enter(h, Done([req[h] EXCEPT !.ok = FALSE], part)) PROVE SessionInv'
    <3> DEFINE q == [req[h] EXCEPT !.ok = FALSE]
               d == [q EXCEPT !.todo = @ \ {part}]
    <3>1. Enter(h, Settled(d))
      BY <2>3 DEF Done
    <3>2. /\ q \in Request /\ q.at = "save" /\ q.kind = req[h].kind /\ q.u = req[h].u
          /\ q.row = req[h].row /\ q.cols = req[h].cols /\ q.todo = req[h].todo
      BY <2>1 DEF Request
    <3> HIDE DEF q
    <3>3. /\ d \in Request /\ d.at = "save" /\ d.kind = q.kind /\ d.u = q.u
          /\ d.row = q.row /\ d.cols = q.cols
          /\ "write" \in d.todo => "write" \in q.todo
      BY <3>2 DEF Request
    <3> HIDE DEF d
    <3>4. QED
      BY <1>25, <2>1, <3>1, <3>2, <3>3
  <2>4. QED
    BY <1>26, <2>2, <2>3 DEF SaveWrite, SaveToken, SaveFails
<1>27. ASSUME NEW t \in TokenIds, ExpireToken(t) PROVE SessionInv'
  BY <1>4, <1>5, <1>27 DEF ExpireToken, SessionInv
<1>28. CASE UNCHANGED vars
  BY <1>4, <1>5, <1>28 DEF vars, SessionInv
<1>29. QED
  BY <1>10, <1>11, <1>12, <1>13, <1>14, <1>15, <1>16, <1>17, <1>18, <1>19, <1>20, <1>21, <1>22,
     <1>23, <1>24, <1>26, <1>27, <1>28 DEF Next

LEMMA SessionInvariant == Spec => []SessionInv
<1>1. TypeInv /\ TypeInv' /\ AccountInv /\ SessionInv /\ [Next]_vars => SessionInv'
  BY SessionStep
<1>2. QED
  BY <1>1, SessionInit, TypeInvariant, AccountInvariant, PTL DEF Spec

\* As long as no save of an account has overlapped another change of its
\* tokenVersion, every session it accepts was obtained with its password.
THEOREM CurrentPassword == Spec => []SessionsHoldCurrentPassword
<1>1. TypeInv /\ SessionInv => SessionsHoldCurrentPassword
  BY DEF SessionInv, SessionsUpTo, UpTo, Accepted, SessionsHoldCurrentPassword
<1>2. QED
  BY <1>1, TypeInvariant, SessionInvariant, PTL

\* Under the same condition a revoked session is never accepted again.
THEOREM RevocationLasts == Spec => RevokedStayRevoked
<1>1. ASSUME TypeInv, TypeInv', AccountInv, SessionInv, [Next]_vars,
             NEW s \in issued, ~ Accepted(s), s.user \notin overlapped'
      PROVE  ~ Accepted(s)'
  <2>1. s.user \in Users /\ s.version \in Nat /\ s.user \in registered
    BY <1>1 DEF TypeInv, TypeOK, Session, AccountInv, SessionsVerified, RowsSound
  <2>2. users[s.user].tokenVersion \in Nat /\ users'[s.user].tokenVersion \in Nat
    BY <1>1, <2>1 DEF TypeInv, TypeOK, UserRow
  <2>3. users[s.user].isActive /\ users[s.user].emailVerified
    BY <1>1, <2>1 DEF AccountInv, SessionsVerified, RowsSound
  <2>4. VersionsGrow
    BY <1>1, VersionsOnlyGrow
  <2>5. s.version <= users[s.user].tokenVersion /\ s.version # users[s.user].tokenVersion
    BY <1>1, <2>3, <2>4 DEF VersionsGrow, SessionInv, SessionsUpTo, UpTo, Accepted, ActiveRow
  <2>6. users[s.user].tokenVersion <= users'[s.user].tokenVersion
    BY <1>1, <2>1, <2>4 DEF VersionsGrow
  <2>7. s.version # users'[s.user].tokenVersion
    BY <2>1, <2>2, <2>5, <2>6
  <2>8. QED
    BY <2>7 DEF Accepted
<1>2. TypeInv /\ TypeInv' /\ AccountInv /\ SessionInv /\ [Next]_vars =>
        [\A s \in issued : ~ Accepted(s) /\ s.user \notin overlapped' => ~ Accepted(s)']_vars
  BY <1>1
<1>3. QED
  BY <1>2, TypeInvariant, AccountInvariant, SessionInvariant, PTL DEF Spec, RevokedStayRevoked

(***************************************************************************)
(* AuthService implements AccountLifecycle                                 *)
(***************************************************************************)

LEMMA LifecycleInit == Init => Lifecycle!Init
<1> SUFFICES ASSUME Init PROVE Lifecycle!Init
  OBVIOUS
<1>1. PICK pw \in [Seeded -> Passwords] :
        users = [u \in Users |-> IF u \in Seeded THEN VerifiedUser(pw[u]) ELSE NoRow]
  BY DEF Init
<1>2. \A p : VerifiedUser(p).emailVerified
  BY DEF VerifiedUser, NewUser, NoRow
<1>3. Status = [u \in Users |-> IF u \in Seeded THEN "verified" ELSE "absent"]
  BY <1>1, <1>2, SeededAssumption DEF Init, Status
<1>4. Mailed = {} /\ Granted = {}
  BY DEF Init, Mailed, Granted
<1>5. QED
  BY <1>3, <1>4 DEF Lifecycle!Init

LEMMA LifecycleStep ==
    ASSUME TypeInv, TypeInv', AccountInv, [Next]_vars
    PROVE  [Lifecycle!Next]_(Lifecycle!vars)
<1> USE DEF TypeInv, TypeOK
<1>1. ASSUME registered' = registered,
             \A u \in Users : users'[u].emailVerified = users[u].emailVerified
      PROVE  Status' = Status
  BY <1>1 DEF Status
<1>2. outbox' = outbox => Mailed' = Mailed
  BY DEF Mailed
<1>3. issued' = issued => Granted' = Granted
  BY DEF Granted
<1>4. ASSUME Status' = Status, Mailed' = Mailed, Granted' = Granted
      PROVE  [Lifecycle!Next]_(Lifecycle!vars)
  BY <1>4 DEF Lifecycle!vars
<1>5. ASSUME UNCHANGED <<users, registered, outbox, issued>>
      PROVE  [Lifecycle!Next]_(Lifecycle!vars)
  BY <1>1, <1>2, <1>3, <1>4, <1>5
<1>6. ASSUME NEW h \in Handlers, InsertUser(h) PROVE [Lifecycle!Next]_(Lifecycle!vars)
  <2>1. CASE req[h].u \in registered
    BY <1>5, <1>6, <2>1 DEF InsertUser
  <2>2. CASE req[h].u \notin registered
    <3>1. req[h].u \in Users
      BY <1>6 DEF InsertUser, SlotTyped
    <3>2. /\ users' = [users EXCEPT ![req[h].u] = NewUser(req[h].pw)]
          /\ registered' = registered \cup {req[h].u}
      BY <1>6, <2>2 DEF InsertUser
    <3>3. NewUser(req[h].pw).emailVerified = FALSE
      BY DEF NewUser, NoRow
    <3>4. Status[req[h].u] = "absent" /\ Status' = [Status EXCEPT ![req[h].u] = "pending"]
      BY <2>2, <3>1, <3>2, <3>3 DEF Status
    <3>5. Lifecycle!Enrol(req[h].u)
      BY <1>2, <1>3, <1>6, <3>4 DEF InsertUser, Lifecycle!Enrol
    <3>6. QED
      BY <3>1, <3>5 DEF Lifecycle!Next
  <2>3. QED
    BY <2>1, <2>2
<1>7. ASSUME NEW h \in Handlers, Publish(h) PROVE [Lifecycle!Next]_(Lifecycle!vars)
  <2>1. /\ SlotSound(h) /\ SlotTyped(req[h]) /\ req[h].at = "publish"
        /\ UNCHANGED <<users, registered, issued>>
    BY <1>7 DEF Publish, AccountInv
  <2>2. Status' = Status /\ Granted' = Granted
    BY <1>1, <1>3, <2>1
  <2>3. req[h].u \in Users /\ Status[req[h].u] # "absent"
    BY <2>1 DEF SlotSound, SlotTyped, Status
  <2>4. \/ Mailed' = Mailed
        \/ Mailed' = Mailed \cup {req[h].u}
    <3>1. CASE outbox' = outbox
      BY <1>2, <3>1
    <3>2. CASE outbox' = outbox \cup {MailOf(req[h])}
      <4>1. MailOf(req[h]).user = req[h].u
        BY DEF MailOf
      <4>2. QED
        BY <3>2, <4>1 DEF Mailed
    <3>3. QED
      BY <1>7, <3>1, <3>2 DEF Publish
  <2>5. CASE Mailed' = Mailed
    BY <1>4, <2>2, <2>5
  <2>6. CASE Mailed' = Mailed \cup {req[h].u}
    BY <2>2, <2>3, <2>6 DEF Lifecycle!SendMail, Lifecycle!Next
  <2>7. QED
    BY <2>4, <2>5, <2>6
<1>8. ASSUME NEW h \in Handlers, Login(h) \/ IssueRefreshed(h)
      PROVE  [Lifecycle!Next]_(Lifecycle!vars)
  <2>1. /\ SlotSound(h) /\ SlotTyped(req[h])
        /\ req[h].at \in {"issue", "reissue"}
        /\ UNCHANGED <<users, registered, outbox>>
    BY <1>8 DEF Login, IssueRefreshed, AccountInv
  <2>2. Status' = Status /\ Mailed' = Mailed
    BY <1>1, <1>2, <2>1
  <2>3. req[h].u \in Users /\ Status[req[h].u] = "verified"
    BY <2>1 DEF SlotSound, SlotTyped, Status
  <2>4. Granted' = Granted \cup {req[h].u}
    <3>1. \E s : issued' = issued \cup {s} /\ s.user = req[h].u
      <4> DEFINE s1 == [user |-> req[h].u, version |-> req[h].row.tokenVersion,
                        password |-> req[h].row.password]
                 s2 == [user |-> req[h].u, version |-> NextTokenVersion(req[h].row),
                        password |-> req[h].pw]
      <4>1. s1.user = req[h].u /\ s2.user = req[h].u
        OBVIOUS
      <4>2. issued' = issued \cup {s1} \/ issued' = issued \cup {s2}
        BY <1>8 DEF Login, IssueRefreshed
      <4> HIDE DEF s1, s2
      <4>3. QED
        BY <4>1, <4>2
    <3>2. QED
      BY <3>1 DEF Granted
  <2>5. QED
    BY <2>2, <2>3, <2>4 DEF Lifecycle!Grant, Lifecycle!Next
<1>9. ASSUME NEW h \in Handlers, RotateVersion(h) \/ Logout(h)
      PROVE  [Lifecycle!Next]_(Lifecycle!vars)
  <2>1. req[h].u \in Users /\ users' = Bumped(req[h].u)
    BY <1>9 DEF RotateVersion, Logout, SlotTyped
  <2>2. \A u \in Users : users'[u].emailVerified = users[u].emailVerified
    BY <2>1 DEF Bumped, UserRow
  <2>3. QED
    BY <1>1, <1>2, <1>3, <1>4, <1>9, <2>2 DEF RotateVersion, Logout
<1>10. ASSUME NEW h \in Handlers, SaveWrite(h) PROVE [Lifecycle!Next]_(Lifecycle!vars)
  <2>1. Written(req[h]).emailVerified /\ req[h].u \in registered
    BY <1>10, WrittenVerified
  <2>2. /\ users' = [users EXCEPT ![req[h].u] = Written(req[h])]
        /\ UNCHANGED <<registered, outbox, issued>>
    BY <1>10 DEF SaveWrite
  <2>3. Mailed' = Mailed /\ Granted' = Granted
    BY <1>2, <1>3, <2>2
  <2>4. users'[req[h].u].emailVerified = TRUE
    BY <2>1, <2>2 DEF UserRow
  <2>5. CASE users[req[h].u].emailVerified
    <3>1. \A u \in Users : users'[u].emailVerified = users[u].emailVerified
      BY <2>2, <2>4, <2>5 DEF UserRow
    <3>2. QED
      BY <1>1, <1>4, <2>2, <2>3, <3>1
  <2>6. CASE ~ users[req[h].u].emailVerified
    <3>1. SlotSound(h) /\ req[h].at = "save"
      BY <1>10 DEF SaveWrite, AccountInv
    <3>2. req[h].u \in Mailed
      BY <2>6, <3>1 DEF SlotSound, Mailed
    <3>3. Status[req[h].u] = "pending" /\ Status' = [Status EXCEPT ![req[h].u] = "verified"]
      BY <2>1, <2>2, <2>4, <2>6 DEF Status
    <3>4. QED
      BY <2>1, <2>3, <3>2, <3>3 DEF Lifecycle!Verify, Lifecycle!Next
  <2>7. QED
    BY <2>5, <2>6
<1>11. ASSUME NEW h \in Handlers,
              \/ Register(h) \/ ResendVerification(h) \/ ForgotPassword(h)
              \/ InvalidateTokens(h) \/ InsertToken(h)
              \/ VerifyEmail(h) \/ ResetPassword(h) \/ BurnToken(h) \/ ValidateUser(h)
              \/ RefreshTokens(h) \/ Authenticate(h) \/ ChangePassword(h)
              \/ SaveDiff(h) \/ SaveToken(h) \/ SaveFails(h) \/ Abort(h)
       PROVE  [Lifecycle!Next]_(Lifecycle!vars)
  BY <1>5, <1>11 DEF Register, ResendVerification, ForgotPassword, InvalidateTokens, InsertToken,
     VerifyEmail, ResetPassword, Redeem, BurnToken, ValidateUser, RefreshTokens,
     Authenticate, ChangePassword, SaveDiff, SaveToken, SaveFails, Abort
<1>12. ASSUME NEW t \in TokenIds, ExpireToken(t) PROVE [Lifecycle!Next]_(Lifecycle!vars)
  BY <1>5, <1>12 DEF ExpireToken
<1>13. CASE UNCHANGED vars
  BY <1>5, <1>13 DEF vars
<1>14. QED
  BY <1>6, <1>7, <1>8, <1>9, <1>10, <1>11, <1>12, <1>13 DEF Next

\* Every behaviour of AuthService is one of AccountLifecycle: an account is
\* verified only by mail, never un-verified, and gets sessions only then.
THEOREM LifecycleImplemented == Spec => ImplementsLifecycle
<1>1. TypeInv /\ TypeInv' /\ AccountInv /\ [Next]_vars => [Lifecycle!Next]_(Lifecycle!vars)
  BY LifecycleStep
<1>2. QED
  BY <1>1, LifecycleInit, TypeInvariant, AccountInvariant, PTL
     DEF Spec, ImplementsLifecycle, Lifecycle!Spec

(***************************************************************************)
(* Usable tokens                                                           *)
(***************************************************************************)

\* The requests between retiring the older tokens and inserting the new one.
Minting(u, kind) ==
    {h \in Handlers : req[h].at = "mint" /\ req[h].u = u /\ TokenKind(req[h]) = kind}

TokenInv ==
    \A u \in Users, kind \in {"verify", "reset"} :
        Cardinality(Usable(u, kind)) + Cardinality(Minting(u, kind)) <= Cardinality(Handlers)

LEMMA TokenSetsFinite ==
    ASSUME NEW u, NEW kind
    PROVE  /\ IsFiniteSet(Usable(u, kind)) /\ Cardinality(Usable(u, kind)) \in Nat
           /\ IsFiniteSet(Minting(u, kind)) /\ Cardinality(Minting(u, kind)) \in Nat
           /\ Cardinality(Minting(u, kind)) <= Cardinality(Handlers)
           /\ Cardinality(Handlers) \in Nat
<1>1. IsFiniteSet(TokenIds)
  BY FS_Interval, BoundsAssumption DEF TokenIds
<1>2. Usable(u, kind) \subseteq TokenIds /\ Minting(u, kind) \subseteq Handlers
  BY DEF Usable, Minting
<1>3. IsFiniteSet(Usable(u, kind)) /\ IsFiniteSet(Minting(u, kind))
  BY <1>1, <1>2, FS_Subset, HandlersAssumption
<1>4. Cardinality(Minting(u, kind)) <= Cardinality(Handlers)
  BY <1>2, FS_Subset, HandlersAssumption
<1>5. QED
  BY <1>3, <1>4, FS_CardinalityType, HandlersAssumption

LEMMA TokenInit == Init => TokenInv
<1> SUFFICES ASSUME Init, NEW u \in Users, NEW kind \in {"verify", "reset"}
             PROVE  Cardinality(Usable(u, kind)) + Cardinality(Minting(u, kind))
                        <= Cardinality(Handlers)
  BY DEF TokenInv
<1>1. Usable(u, kind) = {} /\ Minting(u, kind) = {}
  BY DEF Init, Usable, Minting, FreeToken, Blank
<1>2. Cardinality(Handlers) \in Nat
  BY TokenSetsFinite
<1>3. QED
  BY <1>1, <1>2, FS_EmptySet

LEMMA TokenStep ==
    ASSUME TypeInv, TypeInv', TokenInv, [Next]_vars
    PROVE  TokenInv'
<1> USE DEF TypeInv, TypeOK
<1> SUFFICES ASSUME NEW u \in Users, NEW kind \in {"verify", "reset"}
             PROVE  Cardinality(Usable(u, kind)') + Cardinality(Minting(u, kind)')
                        <= Cardinality(Handlers)
  BY DEF TokenInv
<1> DEFINE A == Usable(u, kind)
           B == Minting(u, kind)
<1>1. /\ IsFiniteSet(A) /\ Cardinality(A) \in Nat
      /\ IsFiniteSet(B) /\ Cardinality(B) \in Nat
      /\ Cardinality(Handlers) \in Nat
      /\ Cardinality(A) + Cardinality(B) <= Cardinality(Handlers)
  BY TokenSetsFinite DEF TokenInv
<1>2. ASSUME A' \subseteq A, B' \subseteq B
      PROVE  Cardinality(A') + Cardinality(B') <= Cardinality(Handlers)
  <2>1. /\ IsFiniteSet(A') /\ Cardinality(A') <= Cardinality(A)
        /\ IsFiniteSet(B') /\ Cardinality(B') <= Cardinality(B)
    BY <1>1, <1>2, FS_Subset
  <2>2. Cardinality(A') \in Nat /\ Cardinality(B') \in Nat
    BY <2>1, FS_CardinalityType
  <2>3. QED
    BY <1>1, <2>1, <2>2
<1>3. ott' = ott => A' = A
  BY DEF Usable
<1>4. ASSUME NEW h \in Handlers, NEW r, Enter(h, r), r.at # "mint" PROVE B' \subseteq B
  BY <1>4 DEF Enter, Minting, TokenKind
<1>5. req' = req => B' = B
  BY DEF Minting, TokenKind
<1>6. ASSUME NEW h \in Handlers, InvalidateTokens(h)
      PROVE  Cardinality(A') + Cardinality(B') <= Cardinality(Handlers)
  <2>1. req' = [req EXCEPT ![h].at = "mint"] /\ ott' = Invalidated(req[h]) /\ req[h] \in Request
    BY <1>6 DEF InvalidateTokens, Step
  <2>2. CASE u = req[h].u /\ kind = TokenKind(req[h])
    <3>1. A' = {}
      BY <2>1, <2>2 DEF Usable, Invalidated, OneTimeToken
    <3>2. B' \subseteq Handlers
      BY DEF Minting
    <3>3. IsFiniteSet(B') /\ Cardinality(B') <= Cardinality(Handlers)
      BY <3>2, FS_Subset, HandlersAssumption
    <3>4. Cardinality(B') \in Nat
      BY <3>3, FS_CardinalityType
    <3>5. QED
      BY <1>1, <3>1, <3>3, <3>4, FS_EmptySet
  <2>3. CASE ~ (u = req[h].u /\ kind = TokenKind(req[h]))
    <3>1. A' \subseteq A
      BY <2>1 DEF Usable, Invalidated, OneTimeToken
    <3>2. \A k \in Handlers : k # h => req'[k] = req[k]
      BY <2>1
    <3>3. req'[h].u = req[h].u /\ TokenKind(req'[h]) = TokenKind(req[h])
      BY <2>1 DEF Request, TokenKind
    <3>4. B' \subseteq B
      BY <2>3, <3>2, <3>3 DEF Minting
    <3>5. QED
      BY <1>2, <3>1, <3>4
  <2>4. QED
    BY <2>2, <2>3
<1>7. ASSUME NEW h \in Handlers, InsertToken(h)
      PROVE  Cardinality(A') + Cardinality(B') <= Cardinality(Handlers)
  <2>1. /\ req' = [req EXCEPT ![h].at = "publish", ![h].t = minted + 1]
        /\ req[h].at = "mint" /\ req[h] \in Request
        /\ ott' = [ott EXCEPT ![minted + 1] =
                    [kind |-> TokenKind(req[h]), user |-> req[h].u,
                     used |-> FALSE, expired |-> FALSE]]
    BY <1>7 DEF InsertToken
  <2>2. req'[h].at = "publish" /\ \A k \in Handlers : k # h => req'[k] = req[k]
    BY <2>1 DEF Request
  <2>3. B' = B \ {h}
    BY <2>2 DEF Minting, TokenKind
  <2>4. CASE u = req[h].u /\ kind = TokenKind(req[h])
    <3>1. A' \subseteq A \cup {minted + 1}
      BY <2>1 DEF Usable
    <3>2. /\ IsFiniteSet(A \cup {minted + 1})
          /\ Cardinality(A \cup {minted + 1}) <= Cardinality(A) + 1
          /\ Cardinality(A \cup {minted + 1}) \in Nat
      <4> HIDE DEF A
      <4>1. IsFiniteSet(A \cup {minted + 1})
        BY <1>1, FS_AddElement
      <4>2. Cardinality(A \cup {minted + 1}) = Cardinality(A) + 1
              \/ Cardinality(A \cup {minted + 1}) = Cardinality(A)
        BY <1>1, FS_AddElement
      <4>3. Cardinality(A \cup {minted + 1}) \in Nat
        BY <4>1, FS_CardinalityType
      <4>4. QED
        BY <1>1, <4>1, <4>2, <4>3
    <3>3. IsFiniteSet(A') /\ Cardinality(A') <= Cardinality(A \cup {minted + 1})
      BY <3>1, <3>2, FS_Subset
    <3>4. h \in B
      BY <2>1, <2>4 DEF Minting
    <3>5. IsFiniteSet(B') /\ Cardinality(B') = Cardinality(B) - 1
      BY <1>1, <2>3, <3>4, FS_RemoveElement
    <3>6. Cardinality(A') \in Nat /\ Cardinality(B') \in Nat
      BY <3>3, <3>5, FS_CardinalityType
    <3>7. QED
      BY <1>1, <3>2, <3>3, <3>5, <3>6
  <2>5. CASE ~ (u = req[h].u /\ kind = TokenKind(req[h]))
    <3>1. A' \subseteq A
      BY <2>1, <2>5 DEF Usable
    <3>2. QED
      BY <1>2, <2>3, <3>1
  <2>6. QED
    BY <2>4, <2>5
<1>8. ASSUME NEW h \in Handlers, BurnToken(h) \/ SaveToken(h)
      PROVE  Cardinality(A') + Cardinality(B') <= Cardinality(Handlers)
  <2>1. A' \subseteq A
    BY <1>8 DEF BurnToken, SaveToken, Usable, OneTimeToken
  <2>2. Done(req[h], "token").at # "mint" \/ req[h].at # "save"
    BY DEF Done, Settled, Blank, Request
  <2>3. B' \subseteq B
    BY <1>4, <1>8, <2>2 DEF BurnToken, SaveToken, Blank
  <2>4. QED
    BY <1>2, <2>1, <2>3
<1>9. ASSUME NEW h \in Handlers, NEW r, Enter(h, r), r.at # "mint", ott' = ott
      PROVE  Cardinality(A') + Cardinality(B') <= Cardinality(Handlers)
  BY <1>2, <1>3, <1>4, <1>9
<1>10. ASSUME NEW h \in Handlers, InsertUser(h)
       PROVE  Cardinality(A') + Cardinality(B') <= Cardinality(Handlers)
  <2>1. ott' = ott /\ req[h] \in Request
    BY <1>10 DEF InsertUser
  <2>2. Enter(h, Blank) \/ Enter(h, [req[h] EXCEPT !.at = "invalidate"])
    BY <1>10 DEF InsertUser, Step, Enter
  <2>3. QED
    BY <1>9, <2>1, <2>2 DEF Blank, Request
<1>11. ASSUME NEW h \in Handlers, RotateVersion(h)
       PROVE  Cardinality(A') + Cardinality(B') <= Cardinality(Handlers)
  <2>1. ott' = ott /\ req[h] \in Request /\ Enter(h, [req[h] EXCEPT !.at = "reissue"])
    BY <1>11 DEF RotateVersion, Step, Enter
  <2>2. QED
    BY <1>9, <2>1 DEF Request
<1>12. ASSUME NEW h \in Handlers, SaveDiff(h) \/ ChangePassword(h)
       PROVE  Cardinality(A') + Cardinality(B') <= Cardinality(Handlers)
  <2>1. req[h] \in Request /\ ott' = ott
    BY <1>12 DEF SaveDiff, ChangePassword
  <2>2. CASE SaveDiff(h)
    <3>1. req'[h].at = "save" /\ \E r : Enter(h, r)
      BY <2>1, <2>2 DEF SaveDiff, Enter, Request
    <3>2. B' \subseteq B
      BY <3>1 DEF Enter, Minting, TokenKind
    <3>3. QED
      BY <1>2, <1>3, <2>1, <3>2
  <2>3. CASE ChangePassword(h)
    <3>1. PICK p \in Passwords :
            Enter(h, [req[h] EXCEPT !.at = "save", !.row = users[req[h].u], !.pw = p,
                                    !.todo = {"diff"}])
      BY <2>3 DEF ChangePassword
    <3>2. req'[h].at = "save" /\ \A k \in Handlers : k # h => req'[k] = req[k]
      BY <2>1, <3>1 DEF Enter, Request
    <3>3. B' \subseteq B
      BY <3>2 DEF Minting, TokenKind
    <3>4. QED
      BY <1>2, <1>3, <2>1, <3>3
  <2>4. QED
    BY <1>12, <2>2, <2>3
<1>13. ASSUME NEW h \in Handlers, SaveWrite(h) \/ SaveFails(h)
       PROVE  Cardinality(A') + Cardinality(B') <= Cardinality(Handlers)
  <2>1. req[h] \in Request /\ req[h].at = "save" /\ ott' = ott
    BY <1>13 DEF SaveWrite, SaveFails
  <2>2. PICK q, part : /\ Enter(h, Done(q, part))
                       /\ q = req[h] \/ q = [req[h] EXCEPT !.ok = FALSE]
    BY <1>13 DEF SaveWrite, SaveFails
  <2>3. q \in Request /\ q.at = "save"
    BY <2>1, <2>2 DEF Request
  <2>4. Done(q, part).at # "mint"
    BY <2>3 DEF Done, Settled, Blank, Request
  <2>5. QED
    BY <1>9, <2>1, <2>2, <2>4
<1>14. ASSUME NEW h \in Handlers,
              \/ Register(h) \/ ResendVerification(h) \/ ForgotPassword(h) \/ Publish(h)
              \/ VerifyEmail(h) \/ ResetPassword(h) \/ ValidateUser(h) \/ Login(h)
              \/ RefreshTokens(h) \/ IssueRefreshed(h) \/ Authenticate(h) \/ Logout(h)
              \/ Abort(h)
       PROVE  Cardinality(A') + Cardinality(B') <= Cardinality(Handlers)
  BY <1>9, <1>14 DEF Register, ResendVerification, ForgotPassword, Publish, VerifyEmail,
     ResetPassword, Redeem, ValidateUser, Login, RefreshTokens, IssueRefreshed, Authenticate,
     Logout, Abort, Blank
<1>15. ASSUME NEW t \in TokenIds, ExpireToken(t)
       PROVE  Cardinality(A') + Cardinality(B') <= Cardinality(Handlers)
  <2>1. A' \subseteq A
    BY <1>15 DEF ExpireToken, Usable, OneTimeToken
  <2>2. QED
    BY <1>2, <1>5, <1>15, <2>1 DEF ExpireToken
<1>16. CASE UNCHANGED vars
  BY <1>2, <1>3, <1>5, <1>16 DEF vars
<1>17. QED
  BY <1>6, <1>7, <1>8, <1>10, <1>11, <1>12, <1>13, <1>14, <1>15, <1>16 DEF Next

\* With n requests in flight an account has at most n usable tokens of a kind.
THEOREM FewTokensUsable == Spec => []OutstandingTokensBounded
<1>1. TokenInv => OutstandingTokensBounded
  <2> SUFFICES ASSUME TokenInv, NEW u \in Users, NEW kind \in {"verify", "reset"}
               PROVE  Cardinality(Usable(u, kind)) <= Cardinality(Handlers)
    BY DEF OutstandingTokensBounded
  <2>1. Cardinality(Usable(u, kind)) + Cardinality(Minting(u, kind)) <= Cardinality(Handlers)
    BY DEF TokenInv
  <2>2. QED
    BY <2>1, TokenSetsFinite
<1>2. TypeInv /\ TypeInv' /\ TokenInv /\ [Next]_vars => TokenInv'
  BY TokenStep
<1>3. QED
  BY <1>1, <1>2, TokenInit, TypeInvariant, PTL DEF Spec

(***************************************************************************)
(* Links that are used up or expired                                       *)
(***************************************************************************)

\* A request that redeems a token works on the account of the token.
TokenOwned(h) ==
    req[h].at = "save" /\ req[h].kind # "change" =>
        ott[req[h].t].kind # "free" /\ ott[req[h].t].user = req[h].u

OwnedInv == \A h \in Handlers : TokenOwned(h)

LEMMA OwnedInit == Init => OwnedInv
BY DEF Init, OwnedInv, TokenOwned, Blank

\* What a step does to the slot of the request that takes it, as far as saves
\* are concerned: it finds a token that can be redeemed, goes on saving, starts
\* to change a password, or does not save.
Finds(h) == \E t \in TokenIds, kind \in {"verify", "reset"} :
    /\ Presentable(t, kind) /\ ~ Refused(kind, t)
    /\ req'[h].t = t /\ req'[h].u = ott[t].user /\ req'[h].kind = kind
    /\ ott' = ott

Saves(h) ==
    /\ req[h].at = "save"
    /\ req'[h].t = req[h].t /\ req'[h].u = req[h].u /\ req'[h].kind = req[h].kind

SlotMoves(h) ==
    \/ req'[h] = req[h]
    \/ req'[h].at # "save"
    \/ Finds(h)
    \/ Saves(h)
    \/ req'[h].kind = "change"

LEMMA SlotsMove ==
    ASSUME TypeInv, [Next]_vars, NEW k \in Handlers
    PROVE  SlotMoves(k)
<1> USE DEF TypeInv, TypeOK
<1>1. ASSUME NEW h \in Handlers, NEW r, Enter(h, r), r.at # "save" PROVE SlotMoves(k)
  BY <1>1 DEF Enter, SlotMoves
<1>2. ASSUME NEW h \in Handlers, InsertUser(h) PROVE SlotMoves(k)
  <2>1. Enter(h, Blank) \/ Enter(h, [req[h] EXCEPT !.at = "invalidate"])
    BY <1>2 DEF InsertUser, Step, Enter
  <2>2. req[h] \in Request
    OBVIOUS
  <2>3. QED
    BY <1>1, <2>1, <2>2 DEF Blank, Request
<1>3. ASSUME NEW h \in Handlers, InvalidateTokens(h) \/ RotateVersion(h) PROVE SlotMoves(k)
  <2>1. \E stage \in {"mint", "reissue"} : Enter(h, [req[h] EXCEPT !.at = stage])
    BY <1>3 DEF InvalidateTokens, RotateVersion, Step, Enter
  <2>2. req[h] \in Request
    OBVIOUS
  <2>3. QED
    BY <1>1, <2>1, <2>2 DEF Request
<1>4. ASSUME NEW h \in Handlers, InsertToken(h) PROVE SlotMoves(k)
  <2>1. req' = [req EXCEPT ![h] = [req[h] EXCEPT !.at = "publish", !.t = minted + 1]]
    BY <1>4 DEF InsertToken
  <2>2. QED
    BY <2>1 DEF SlotMoves, Request
<1>5. ASSUME NEW h \in Handlers,
             \/ Register(h) \/ ResendVerification(h) \/ ForgotPassword(h) \/ Publish(h)
             \/ BurnToken(h) \/ ValidateUser(h) \/ Login(h) \/ RefreshTokens(h)
             \/ IssueRefreshed(h) \/ Authenticate(h) \/ Logout(h) \/ Abort(h)
      PROVE  SlotMoves(k)
  BY <1>1, <1>5 DEF Register, ResendVerification, ForgotPassword, Publish, BurnToken,
     ValidateUser, Login, RefreshTokens, IssueRefreshed, Authenticate, Logout, Abort, Blank
<1>6. ASSUME NEW h \in Handlers, NEW kind \in {"verify", "reset"}, NEW p, Redeem(h, kind, p)
      PROVE  SlotMoves(k)
  <2>1. PICK t \in TokenIds :
          /\ Presentable(t, kind)
          /\ ott' = ott
          /\ Enter(h, [Blank EXCEPT
                !.at = IF Refused(kind, t) THEN "burn" ELSE "save",
                !.kind = kind, !.u = ott[t].user, !.t = t,
                !.row = users[ott[t].user], !.pw = p, !.todo = {"diff", "token"}])
    BY <1>6 DEF Redeem
  <2>2. k # h => req'[k] = req[k]
    BY <2>1 DEF Enter
  <2>3. Refused(kind, t) => req'[h].at # "save"
    BY <2>1 DEF Enter, Blank
  <2>4. req'[h].t = t /\ req'[h].u = ott[t].user /\ req'[h].kind = kind
    BY <2>1 DEF Enter, Blank
  <2>5. ~ Refused(kind, t) => Finds(h)
    BY <2>1, <2>4 DEF Finds
  <2>6. QED
    BY <2>2, <2>3, <2>5 DEF SlotMoves
<1>7. ASSUME NEW h \in Handlers, ChangePassword(h) PROVE SlotMoves(k)
  <2>1. PICK p \in Passwords :
          Enter(h, [req[h] EXCEPT !.at = "save", !.row = users[req[h].u], !.pw = p,
                                  !.todo = {"diff"}])
    BY <1>7 DEF ChangePassword
  <2>2. req'[h].kind = "change"
    BY <1>7, <2>1 DEF ChangePassword, Enter, Request
  <2>3. QED
    BY <2>1, <2>2 DEF Enter, SlotMoves
<1>8. ASSUME NEW h \in Handlers, SaveDiff(h) PROVE SlotMoves(k)
  <2>1. req[h] \in Request /\ req[h].at = "save"
    BY <1>8 DEF SaveDiff
  <2>2. Saves(h) /\ (k # h => req'[k] = req[k])
    BY <1>8, <2>1 DEF SaveDiff, Enter, Saves, Request
  <2>3. QED
    BY <2>2 DEF SlotMoves
<1>9. ASSUME NEW h \in Handlers, SaveWrite(h) \/ SaveToken(h) \/ SaveFails(h)
      PROVE  SlotMoves(k)
  <2>1. req[h] \in Request /\ req[h].at = "save"
    BY <1>9 DEF SaveWrite, SaveToken, SaveFails
  <2>2. PICK q, part : /\ Enter(h, Done(q, part))
                       /\ q = req[h] \/ q = [req[h] EXCEPT !.ok = FALSE]
    BY <1>9 DEF SaveWrite, SaveToken, SaveFails
  <2>3. /\ q \in Request /\ q.at = "save"
        /\ q.t = req[h].t /\ q.u = req[h].u /\ q.kind = req[h].kind
    BY <2>1, <2>2 DEF Request
  <2>4. req'[h] = Done(q, part) /\ (k # h => req'[k] = req[k])
    BY <2>2 DEF Enter
  <2>5. CASE Done(q, part) = [q EXCEPT !.todo = q.todo \ {part}]
    <3>1. Saves(h)
      BY <2>1, <2>3, <2>4, <2>5 DEF Saves, Request
    <3>2. QED
      BY <2>4, <3>1 DEF SlotMoves
  <2>6. CASE Done(q, part) = [q EXCEPT !.todo = {}, !.at = "publish"]
    <3>1. req'[h].at = "publish"
      BY <2>3, <2>4, <2>6 DEF Request
    <3>2. QED
      BY <2>4, <3>1 DEF SlotMoves
  <2>7. CASE Done(q, part) = Blank
    BY <2>4, <2>7 DEF SlotMoves, Blank
  <2>8. QED
    BY <2>3, <2>5, <2>6, <2>7, AfterPart
<1>10. ASSUME NEW t \in TokenIds, ExpireToken(t) PROVE SlotMoves(k)
  BY <1>10 DEF ExpireToken, SlotMoves
<1>11. CASE UNCHANGED vars
  BY <1>11 DEF vars, SlotMoves
<1>12. QED
  BY <1>2, <1>3, <1>4, <1>5, <1>6, <1>7, <1>8, <1>9, <1>10, <1>11
     DEF Next, VerifyEmail, ResetPassword

LEMMA OwnedStep == TypeInv /\ AccountInv /\ OwnedInv /\ [Next]_vars => OwnedInv'
<1> SUFFICES ASSUME TypeInv, AccountInv, OwnedInv, [Next]_vars, NEW h \in Handlers
             PROVE  TokenOwned(h)'
  BY DEF OwnedInv
<1>1. Grows
  BY AccountGrows
<1>2. SlotMoves(h) /\ TokenOwned(h) /\ SlotTyped(req[h])
  BY SlotsMove DEF OwnedInv, TypeInv
\* The token of a redemption keeps its user: it is not a free one.
<1>3. ASSUME req[h].at = "save", req[h].kind # "change"
      PROVE  ott'[req[h].t].kind # "free" /\ ott'[req[h].t].user = req[h].u
  <2>1. req[h].t \in TokenIds /\ ott[req[h].t].kind # "free" /\ ott[req[h].t].user = req[h].u
    BY <1>2, <1>3 DEF SlotTyped, TokenOwned
  <2>2. QED
    BY <1>1, <2>1 DEF Grows
<1>4. CASE req'[h] = req[h]
  BY <1>3, <1>4 DEF TokenOwned
<1>5. CASE req'[h].at # "save" \/ req'[h].kind = "change"
  BY <1>5 DEF TokenOwned
<1>6. CASE Finds(h)
  BY <1>6 DEF Finds, Presentable, TokenOwned
<1>7. CASE Saves(h)
  BY <1>3, <1>7 DEF Saves, TokenOwned
<1>8. QED
  BY <1>2, <1>4, <1>5, <1>6, <1>7 DEF SlotMoves
LEMMA OwnedInvariant == Spec => []OwnedInv
<1>1. QED
  BY OwnedInit, OwnedStep, TypeInvariant, AccountInvariant, PTL DEF Spec

\* Only InsertToken makes a token usable: every other step leaves kinds and users
\* alone and takes nothing back.
LEMMA TokensOnlyDie ==
    ASSUME TypeInv, [Next]_vars, minted' = minted
    PROVE  \A t \in TokenIds :
             /\ ott'[t].kind = ott[t].kind /\ ott'[t].user = ott[t].user
             /\ ott[t].used => ott'[t].used
             /\ ott[t].expired => ott'[t].expired
<1> USE DEF TypeInv, TypeOK
<1>1. ASSUME NEW h \in Handlers, InsertToken(h) PROVE FALSE
  BY <1>1, BoundsAssumption DEF InsertToken
<1>2. ASSUME NEW h \in Handlers, InvalidateTokens(h)
      PROVE  \A t \in TokenIds :
               /\ ott'[t].kind = ott[t].kind /\ ott'[t].user = ott[t].user
               /\ ott[t].used => ott'[t].used
               /\ ott[t].expired => ott'[t].expired
  BY <1>2 DEF InvalidateTokens, Invalidated, OneTimeToken
<1>3. ASSUME NEW h \in Handlers, BurnToken(h) \/ SaveToken(h)
      PROVE  \A t \in TokenIds :
               /\ ott'[t].kind = ott[t].kind /\ ott'[t].user = ott[t].user
               /\ ott[t].used => ott'[t].used
               /\ ott[t].expired => ott'[t].expired
  BY <1>3 DEF BurnToken, SaveToken, OneTimeToken
<1>4. ASSUME NEW q \in TokenIds, ExpireToken(q)
      PROVE  \A t \in TokenIds :
               /\ ott'[t].kind = ott[t].kind /\ ott'[t].user = ott[t].user
               /\ ott[t].used => ott'[t].used
               /\ ott[t].expired => ott'[t].expired
  BY <1>4 DEF ExpireToken, OneTimeToken
<1>5. ASSUME NEW h \in Handlers,
             \/ Register(h) \/ InsertUser(h) \/ ResendVerification(h) \/ ForgotPassword(h)
             \/ Publish(h) \/ VerifyEmail(h) \/ ResetPassword(h) \/ ValidateUser(h)
             \/ Login(h) \/ RefreshTokens(h) \/ RotateVersion(h) \/ IssueRefreshed(h)
             \/ Authenticate(h) \/ Logout(h) \/ ChangePassword(h)
             \/ SaveDiff(h) \/ SaveWrite(h) \/ SaveFails(h) \/ Abort(h)
      PROVE  ott' = ott
  BY <1>5 DEF Register, InsertUser, ResendVerification, ForgotPassword, Publish, VerifyEmail,
     ResetPassword, Redeem, ValidateUser, Login, RefreshTokens, RotateVersion, IssueRefreshed,
     Authenticate, Logout, ChangePassword, SaveDiff, SaveWrite, SaveFails, Abort
<1>6. UNCHANGED vars => ott' = ott
  BY DEF vars
<1>7. QED
  BY <1>1, <1>2, <1>3, <1>4, <1>5, <1>6 DEF Next

LEMMA DeadStaysDead ==
    ASSUME TypeInv, [Next]_vars, minted' = minted,
           NEW u \in Users, NEW kind \in {"verify", "reset"}, Dead(u, kind)
    PROVE  Redeemable(u, kind)' = {} /\ Redeeming(u, kind)' = {}
<1>1. Redeemable(u, kind)' = {}
  BY TokensOnlyDie DEF Dead, Redeemable, Usable
<1>2. ASSUME NEW h \in Redeeming(u, kind)' PROVE FALSE
  <2>1. h \in Handlers /\ req'[h].at = "save" /\ req'[h].kind = kind /\ req'[h].u = u
    BY <1>2 DEF Redeeming
  <2>2. SlotMoves(h)
    BY <2>1, SlotsMove
  <2>3. h \notin Redeeming(u, kind)
    BY DEF Dead
  <2>4. req'[h] # req[h] /\ ~ Saves(h)
    BY <2>1, <2>3 DEF Redeeming, Saves
  <2>5. ASSUME Finds(h) PROVE FALSE
    <3>1. PICK t \in TokenIds :
            Presentable(t, kind) /\ ~ Refused(kind, t) /\ ott[t].user = u
      BY <2>1, <2>5 DEF Finds
    <3>2. t \in Redeemable(u, kind)
      BY <3>1 DEF Presentable, Refused, Redeemable, Usable
    <3>3. QED
      BY <3>2 DEF Dead
  <2>6. QED
    BY <2>1, <2>2, <2>4, <2>5 DEF SlotMoves
<1>3. QED
  BY <1>1, <1>2

\* Who writes emailVerified or a password has found a token, and of the account
\* it writes to.
LEMMA DeadDoesNothing ==
    ASSUME TypeInv, AccountInv, OwnedInv, [Next]_vars,
           NEW u \in Users, NEW kind \in {"verify", "reset"}, Dead(u, kind)
    PROVE  /\ kind = "verify" => users'[u].emailVerified = users[u].emailVerified
           /\ kind = "reset" =>
                \A t \in TokenIds : ott[t].user = u => redeemed'[t] = redeemed[t]
<1> USE DEF TypeInv, TypeOK
<1>1. ASSUME NEW h \in Handlers, InsertUser(h)
      PROVE  users'[u].emailVerified = users[u].emailVerified /\ redeemed' = redeemed
  <2>1. u \notin registered => ~ users[u].emailVerified
    BY DEF AccountInv, RowsSound, UserRow
  <2>2. ~ NewUser(req[h].pw).emailVerified
    BY DEF NewUser, NoRow
  <2>3. /\ redeemed' = redeemed
        /\ \/ users' = users
           \/ /\ req[h].u \notin registered
              /\ users' = [users EXCEPT ![req[h].u] = NewUser(req[h].pw)]
    BY <1>1 DEF InsertUser
  <2>4. users'[u].emailVerified = users[u].emailVerified
    <3>1. CASE users' # users /\ req[h].u = u
      <4>1. users'[u] = NewUser(req[h].pw)
        BY <2>3, <3>1
      <4>2. users[u].emailVerified = FALSE
        BY <2>1, <2>3, <3>1 DEF UserRow
      <4>3. NewUser(req[h].pw).emailVerified = FALSE
        BY DEF UserRow, NewUser, NoRow
      <4>4. QED
        BY <4>1, <4>2, <4>3, Zenon
    <3>2. CASE users'[u] = users[u]
      BY <3>2, Zenon
    <3>3. users' = users \/ req[h].u # u => users'[u] = users[u]
      BY <2>3
    <3>4. QED
      BY <3>1, <3>2, <3>3
  <2>5. QED
    BY <2>3, <2>4, Zenon
<1>2. ASSUME NEW h \in Handlers, RotateVersion(h) \/ Logout(h)
      PROVE  users'[u].emailVerified = users[u].emailVerified /\ redeemed' = redeemed
  BY <1>2 DEF RotateVersion, Logout, Bumped, UserRow
<1>3. ASSUME NEW h \in Handlers, SaveWrite(h)
      PROVE  /\ kind = "verify" => users'[u].emailVerified = users[u].emailVerified
             /\ kind = "reset" =>
                  \A t \in TokenIds : ott[t].user = u => redeemed'[t] = redeemed[t]
  <2>1. /\ req[h].at = "save" /\ SlotTyped(req[h]) /\ SlotSound(h) /\ TokenOwned(h)
        /\ users' = [users EXCEPT ![req[h].u] = Written(req[h])]
    BY <1>3 DEF SaveWrite, AccountInv, OwnedInv
  <2>2. h \notin Redeeming(u, kind)
    BY DEF Dead
  <2>3. CASE kind = "verify"
    <3>1. req[h].u = u => users[u].emailVerified /\ users'[u].emailVerified
      <4>1. req[h].u = u => req[h].kind # "verify"
        BY <2>1, <2>2, <2>3 DEF Redeeming
      <4>2. Written(req[h]).emailVerified
        BY <1>3, WrittenVerified
      <4>3. QED
        BY <2>1, <4>1, <4>2 DEF SlotSound
    <3>2. QED
      BY <2>1, <2>3, <3>1
  <2>4. CASE kind = "reset"
    <3>1. ASSUME NEW t \in TokenIds, ott[t].user = u PROVE redeemed'[t] = redeemed[t]
      <4>1. ~ (req[h].kind = "reset" /\ req[h].t = t)
        BY <2>1, <2>2, <2>4, <3>1 DEF Redeeming, TokenOwned
      <4>2. QED
        BY <1>3, <4>1 DEF SaveWrite
    <3>2. QED
      BY <2>4, <3>1
  <2>5. QED
    BY <2>3, <2>4
<1>4. ASSUME NEW h \in Handlers,
             \/ Register(h) \/ ResendVerification(h) \/ ForgotPassword(h)
             \/ InvalidateTokens(h) \/ InsertToken(h) \/ Publish(h)
             \/ VerifyEmail(h) \/ ResetPassword(h) \/ BurnToken(h) \/ ValidateUser(h)
             \/ Login(h) \/ RefreshTokens(h) \/ IssueRefreshed(h)
             \/ Authenticate(h) \/ ChangePassword(h)
             \/ SaveDiff(h) \/ SaveToken(h) \/ SaveFails(h) \/ Abort(h)
      PROVE  users' = users /\ redeemed' = redeemed
  BY <1>4 DEF Register, ResendVerification, ForgotPassword, InvalidateTokens, InsertToken,
     Publish, VerifyEmail, ResetPassword, Redeem, BurnToken, ValidateUser, Login,
     RefreshTokens, IssueRefreshed, Authenticate, ChangePassword, SaveDiff, SaveToken,
     SaveFails, Abort
<1>5. ASSUME NEW t \in TokenIds, ExpireToken(t) PROVE users' = users /\ redeemed' = redeemed
  BY <1>5 DEF ExpireToken
<1>6. UNCHANGED vars => users' = users /\ redeemed' = redeemed
  BY DEF vars
<1>7. QED
  BY <1>1, <1>2, <1>3, <1>4, <1>5, <1>6 DEF Next

\* A link that is expired or used up does nothing, whatever else is going on.
THEOREM DeadLinksAreHarmless == Spec => DeadLinksDoNothing
<1>1. ASSUME TypeInv, AccountInv, OwnedInv, [Next]_vars,
             NEW u \in Users, NEW kind \in {"verify", "reset"}, Dead(u, kind), minted' = minted
      PROVE  /\ Dead(u, kind)'
             /\ kind = "verify" => users'[u].emailVerified = users[u].emailVerified
             /\ kind = "reset" =>
                  \A t \in TokenIds : ott[t].user = u => redeemed'[t] = redeemed[t]
  <2>1. Dead(u, kind)'
    BY <1>1, DeadStaysDead DEF Dead
  <2>2. QED
    BY <1>1, <2>1, DeadDoesNothing
<1>2. TypeInv /\ AccountInv /\ OwnedInv /\ [Next]_vars =>
        [\A u \in Users, kind \in {"verify", "reset"} : Dead(u, kind) /\ minted' = minted =>
            /\ Dead(u, kind)'
            /\ kind = "verify" => users'[u].emailVerified = users[u].emailVerified
            /\ kind = "reset" =>
                 \A t \in TokenIds : ott[t].user = u => redeemed'[t] = redeemed[t]]_vars
  BY <1>1
<1>3. QED
  BY <1>2, TypeInvariant, AccountInvariant, OwnedInvariant, PTL DEF Spec, DeadLinksDoNothing
=============================================================================
