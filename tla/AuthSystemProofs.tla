--------------------------- MODULE AuthSystemProofs ---------------------------
(***************************************************************************)
(* Theorems about AuthService with its mail pipeline, for every value of   *)
(* the constants.  They rest on the invariants of AuthServiceProofs.       *)
(***************************************************************************)
EXTENDS AuthSystem, AuthServiceProofs

(***************************************************************************)
(* What redeeming a token leaves                                           *)
(***************************************************************************)

\* The user got what a mail of this kind is for.
Answered(u, kind) ==
    IF kind = "verify" THEN users[u].emailVerified
    ELSE \E t \in TokenIds : ott[t].kind = "reset" /\ ott[t].user = u /\ redeemed[t] > 0

\* A request between finding a token and answering: as long as no part has
\* failed, a part that is done has had its effect.
RedeemSound(h) ==
    LET r == req[h] IN
    r.at \in {"save", "publish"} /\ r.kind \in {"verify", "reset"} =>
        /\ ott[r.t].kind = r.kind /\ ott[r.t].user = r.u
        /\ r.ok /\ "diff" \notin r.todo /\ "write" \notin r.todo => Answered(r.u, r.kind)
        /\ r.ok /\ "token" \notin r.todo => ott[r.t].used
        /\ r.at = "publish" => r.ok /\ r.todo = {}

RedeemInv == WelcomeMeansVerified /\ \A h \in Handlers : RedeemSound(h)

LEMMA RedeemInit == Init => RedeemInv
BY DEF Init, RedeemInv, WelcomeMeansVerified, RedeemSound, Blank

\* What a user got stays with the user.
LEMMA AnsweredStays ==
    ASSUME TypeInv, TypeInv', AccountInv, [Next]_vars, NEW u \in Users,
           NEW kind \in {"verify", "reset"}, Answered(u, kind)
    PROVE  Answered(u, kind)'
<1>1. Grows
  BY AccountGrows
<1>2. CASE kind = "verify"
  BY <1>1, <1>2 DEF Answered, Grows
<1>3. CASE kind = "reset"
  <2>1. PICK t \in TokenIds : ott[t].kind = "reset" /\ ott[t].user = u /\ redeemed[t] > 0
    BY <1>3 DEF Answered
  <2>2. ott'[t].kind = "reset" /\ ott'[t].user = u
    BY <1>1, <2>1 DEF Grows
  <2>3. redeemed[t] <= redeemed'[t] /\ redeemed[t] \in Nat /\ redeemed'[t] \in Nat
    BY UsedStays DEF TypeInv, TypeOK
  <2>4. redeemed'[t] > 0
    BY <2>1, <2>3
  <2>5. QED
    BY <1>3, <2>2, <2>4 DEF Answered
<1>4. QED
  BY <1>2, <1>3

\* The write of a save answers the request it belongs to.
LEMMA WriteAnswers ==
    ASSUME TypeInv, TypeInv', AccountInv, RedeemInv, NEW h \in Handlers, SaveWrite(h),
           NEW u, NEW kind \in {"verify", "reset"}, req[h].u = u, req[h].kind = kind
    PROVE  Answered(u, kind)'
<1> DEFINE r == req[h]
<1>1. /\ r \in Request /\ SlotTyped(r) /\ r.at = "save" /\ RedeemSound(h)
      /\ u \in Users /\ r.t \in TokenIds
  BY DEF SaveWrite, TypeInv, TypeOK, RedeemInv, SlotTyped
<1>2. CASE kind = "verify"
  <2>1. Written(r).emailVerified /\ users' = [users EXCEPT ![u] = Written(r)]
    BY WrittenVerified DEF SaveWrite
  <2>2. users'[u].emailVerified
    BY <1>1, <2>1 DEF TypeInv, TypeOK
  <2>3. QED
    BY <1>2, <2>2 DEF Answered
<1>3. CASE kind = "reset"
  <2>1. redeemed[r.t] \in 0..2
    BY <1>1 DEF TypeInv, TypeOK
  <2>2. redeemed'[r.t] > 0
    BY <1>1, <1>3, <2>1 DEF SaveWrite, TypeInv, TypeOK
  <2>3. ott'[r.t].kind = "reset" /\ ott'[r.t].user = u
    BY <1>1, <1>3 DEF SaveWrite, RedeemSound
  <2>4. QED
    BY <1>1, <1>3, <2>2, <2>3 DEF Answered
<1>4. QED
  BY <1>2, <1>3

\* What a slot knows of its token lasts while the slot waits.
LEMMA WaitingSound ==
    ASSUME TypeInv, TypeInv', AccountInv, RedeemInv, [Next]_vars,
           NEW k \in Handlers, req'[k] = req[k]
    PROVE  RedeemSound(k)'
<1> SUFFICES ASSUME req[k].at \in {"save", "publish"}, req[k].kind \in {"verify", "reset"}
             PROVE  RedeemSound(k)'
  BY DEF RedeemSound
<1>1. PICK u, kind, t : u = req[k].u /\ kind = req[k].kind /\ t = req[k].t
  OBVIOUS
<1>2. u \in Users /\ t \in TokenIds /\ RedeemSound(k)
  BY <1>1 DEF TypeInv, SlotTyped, RedeemInv
<1>3. ott[t].kind = kind /\ ott[t].user = u /\ kind # "free"
  BY <1>1, <1>2 DEF RedeemSound
<1>4. ott'[t].kind = kind /\ ott'[t].user = u
  BY <1>2, <1>3, AccountGrows DEF Grows
<1>5. ott[t].used => ott'[t].used
  BY <1>2, <1>3, UsedStays
<1>6. Answered(u, kind) => Answered(u, kind)'
  BY <1>1, <1>2, AnsweredStays
<1>7. QED
  BY <1>1, <1>2, <1>4, <1>5, <1>6 DEF RedeemSound

\* A step in slot h that leaves it outside the redemptions.
LEMMA OutsideSound ==
    ASSUME TypeInv, TypeInv', AccountInv, RedeemInv, [Next]_vars, NEW h \in Handlers,
           \A k \in Handlers : k # h => req'[k] = req[k],
           ~ (req'[h].at \in {"save", "publish"} /\ req'[h].kind \in {"verify", "reset"})
    PROVE  \A k \in Handlers : RedeemSound(k)'
<1>1. RedeemSound(h)'
  BY DEF RedeemSound
<1>2. QED
  BY <1>1, WaitingSound

\* Every step keeps RedeemSound.
LEMMA RedeemStep ==
    ASSUME TypeInv, TypeInv', AccountInv, RedeemInv, [Next]_vars
    PROVE  \A h \in Handlers : RedeemSound(h)'
<1> USE DEF TypeInv, TypeOK
<1>1. ASSUME NEW h \in Handlers,
             \/ Register(h) \/ InsertUser(h) \/ ResendVerification(h) \/ ForgotPassword(h)
             \/ InvalidateTokens(h) \/ InsertToken(h) \/ Publish(h) \/ BurnToken(h)
             \/ ValidateUser(h) \/ Login(h)
             \/ RefreshTokens(h) \/ RotateVersion(h) \/ IssueRefreshed(h)
             \/ Authenticate(h) \/ Logout(h) \/ ChangePassword(h) \/ Abort(h)
      PROVE  \A k \in Handlers : RedeemSound(k)'
  <2>1. \A k \in Handlers : k # h => req'[k] = req[k]
    BY <1>1 DEF Register, InsertUser, ResendVerification, ForgotPassword, InvalidateTokens,
       InsertToken, Publish, BurnToken, ValidateUser, Login, RefreshTokens, RotateVersion,
       IssueRefreshed, Authenticate, Logout, ChangePassword, Abort, Enter, Step
  <2>2. CASE \/ Register(h) \/ ResendVerification(h) \/ ForgotPassword(h)
             \/ Publish(h) \/ BurnToken(h) \/ ValidateUser(h) \/ Login(h)
             \/ RefreshTokens(h) \/ IssueRefreshed(h) \/ Authenticate(h) \/ Logout(h) \/ Abort(h)
    <3>1. CASE Publish(h) \/ BurnToken(h) \/ Login(h) \/ IssueRefreshed(h) \/ Logout(h) \/ Abort(h)
      <4>1. req'[h] = Blank
        BY <3>1 DEF Publish, BurnToken, Login, IssueRefreshed, Logout, Abort, Enter
      <4>2. QED
        BY <2>1, <4>1, OutsideSound DEF Blank
    <3>2. CASE Register(h) \/ ResendVerification(h) \/ ForgotPassword(h)
      <4>1. req'[h].at \notin {"save", "publish"}
        BY <3>2 DEF Register, ResendVerification, ForgotPassword, Enter, Blank
      <4>2. QED
        BY <2>1, <4>1, OutsideSound
    <3>3. CASE ValidateUser(h) \/ RefreshTokens(h) \/ Authenticate(h)
      <4>1. req'[h].at \notin {"save", "publish"}
        BY <3>3 DEF ValidateUser, RefreshTokens, Authenticate, Enter, Blank
      <4>2. QED
        BY <2>1, <4>1, OutsideSound
    <3>4. QED
      BY <2>2, <3>1, <3>2, <3>3
  <2>3. CASE InsertUser(h) \/ InvalidateTokens(h) \/ RotateVersion(h)
    <3>1. req[h] \in Request
      OBVIOUS
    <3>2. req'[h].at \notin {"save", "publish"}
      BY <2>3, <3>1 DEF InsertUser, InvalidateTokens, RotateVersion, Enter, Step, Blank, Request
    <3>3. QED
      BY <2>1, <3>2, OutsideSound
  <2>4. CASE InsertToken(h)
    <3>1. req[h] \in Request /\ req[h].kind \notin {"verify", "reset"}
      BY <2>4 DEF InsertToken, SlotTyped
    <3>2. req'[h].kind = req[h].kind
      BY <2>4, <3>1 DEF InsertToken, Request
    <3>3. QED
      BY <2>1, <3>1, <3>2, OutsideSound
  <2>5. CASE ChangePassword(h)
    <3>1. req[h] \in Request /\ req[h].kind = "change"
      BY <2>5 DEF ChangePassword
    <3>2. req'[h].kind = "change"
      BY <2>5, <3>1 DEF ChangePassword, Enter, Request
    <3>3. QED
      BY <2>1, <3>2, OutsideSound
  <2>6. QED
    BY <1>1, <2>2, <2>3, <2>4, <2>5
<1>2. ASSUME NEW h \in Handlers, NEW kind \in {"verify", "reset"}, NEW p, Redeem(h, kind, p)
      PROVE  \A k \in Handlers : RedeemSound(k)'
  <2>1. PICK t \in TokenIds :
          /\ Presentable(t, kind)
          /\ Enter(h, [Blank EXCEPT
                !.at = IF Refused(kind, t) THEN "burn" ELSE "save",
                !.kind = kind, !.u = ott[t].user, !.t = t,
                !.row = users[ott[t].user], !.pw = p, !.todo = {"diff", "token"}])
          /\ ott' = ott
    BY <1>2 DEF Redeem
  <2>2. req'[h].t = t /\ req'[h].u = ott[t].user /\ req'[h].kind = kind
        /\ req'[h].todo = {"diff", "token"} /\ req'[h].at # "publish"
    BY <2>1 DEF Enter, Blank
  <2>3. RedeemSound(h)'
    BY <2>1, <2>2 DEF RedeemSound, Presentable
  <2>4. \A k \in Handlers : k # h => req'[k] = req[k]
    BY <2>1 DEF Enter
  <2>5. QED
    BY <2>3, <2>4, WaitingSound
<1>3. ASSUME NEW h \in Handlers, VerifyEmail(h) \/ ResetPassword(h)
      PROVE  \A k \in Handlers : RedeemSound(k)'
  BY <1>2, <1>3 DEF VerifyEmail, ResetPassword
\* The parts of a save: the slot keeps its token, its user and its kind.
<1>4. ASSUME NEW h \in Handlers, NEW r \in Request, Enter(h, r), req[h].at = "save",
             req[h].kind \in {"verify", "reset"} => RedeemSound(h)',
             r.kind = req[h].kind \/ r = Blank
      PROVE  \A k \in Handlers : RedeemSound(k)'
  <2>1. \A k \in Handlers : k # h => req'[k] = req[k]
    BY <1>4 DEF Enter
  <2>2. req'[h] = r
    BY <1>4 DEF Enter
  <2>3. CASE req[h].kind \in {"verify", "reset"}
    BY <1>4, <2>1, <2>3, WaitingSound
  <2>4. CASE req[h].kind \notin {"verify", "reset"}
    BY <1>4, <2>1, <2>2, <2>4, OutsideSound DEF Blank
  <2>5. QED
    BY <2>3, <2>4
<1>5. ASSUME NEW h \in Handlers, SaveDiff(h) PROVE \A k \in Handlers : RedeemSound(k)'
  <2> DEFINE r == [req[h] EXCEPT !.cols = Touched(req[h]),
                                 !.todo = (req[h].todo \ {"diff"}) \cup {"write"}]
  <2>1. req[h] \in Request /\ req[h].at = "save" /\ RedeemSound(h) /\ Enter(h, r) /\ ott' = ott
    BY <1>5 DEF SaveDiff, RedeemInv
  <2>2. /\ r.at = "save" /\ r.kind = req[h].kind /\ r.u = req[h].u /\ r.t = req[h].t
        /\ r.ok = req[h].ok /\ r.todo = (req[h].todo \ {"diff"}) \cup {"write"}
    BY <2>1 DEF Request
  <2>3. req'[h] = r
    BY <2>1 DEF Enter
  <2>4. r \in Request
    BY <2>1, <2>3
  <2> HIDE DEF r
  <2>5. RedeemSound(h)'
    BY <2>1, <2>2, <2>3 DEF RedeemSound
  <2>6. QED
    BY <1>4, <2>1, <2>2, <2>4, <2>5
<1>6. ASSUME NEW h \in Handlers, SaveWrite(h) \/ SaveToken(h)
      PROVE  \A k \in Handlers : RedeemSound(k)'
  <2>1. PICK part \in {"write", "token"} :
          /\ part = IF SaveWrite(h) THEN "write" ELSE "token"
          /\ part \in req[h].todo /\ Enter(h, Done(req[h], part))
    BY <1>6 DEF SaveWrite, SaveToken
  <2>2. req[h] \in Request /\ req[h].at = "save" /\ RedeemSound(h)
    BY <1>6 DEF SaveWrite, SaveToken, RedeemInv
  <2>3. PICK r : r = Done(req[h], part)
    OBVIOUS
  <2>4. req'[h] = r /\ r \in Request
    BY <2>1, <2>3 DEF Enter
  <2>5. \/ r = [req[h] EXCEPT !.todo = req[h].todo \ {part}]
        \/ /\ req[h].todo \ {part} = {} /\ req[h].ok /\ req[h].kind = "verify"
           /\ r = [req[h] EXCEPT !.todo = {}, !.at = "publish"]
        \/ r = Blank
    BY <2>2, <2>3, AfterPart
  <2>6. CASE r = Blank
    BY <1>4, <2>1, <2>2, <2>3, <2>4, <2>6 DEF RedeemSound, Blank
  <2>7. CASE r # Blank
    <3>1. /\ r.kind = req[h].kind /\ r.u = req[h].u /\ r.t = req[h].t /\ r.ok = req[h].ok
          /\ r.todo = req[h].todo \ {part}
          /\ r.at = "publish" => r.ok /\ r.todo = {}
      BY <2>2, <2>5, <2>7 DEF Request
    <3>2. ASSUME req[h].kind \in {"verify", "reset"} PROVE RedeemSound(h)'
      <4>1. PICK u, kind, t : u = req[h].u /\ kind = req[h].kind /\ t = req[h].t
        OBVIOUS
      <4>2. u \in Users /\ t \in TokenIds /\ kind \in {"verify", "reset"}
        BY <2>2, <3>2, <4>1 DEF SlotTyped
      <4>3. ott[t].kind = kind /\ ott[t].user = u
        BY <2>2, <4>1, <4>2 DEF RedeemSound
      <4>4. ott'[t].kind = kind /\ ott'[t].user = u
        BY <4>2, <4>3, AccountGrows DEF Grows
      <4>5. r.ok /\ "diff" \notin r.todo /\ "write" \notin r.todo => Answered(u, kind)'
        <5>1. CASE SaveWrite(h)
          BY <4>1, <4>2, <5>1, WriteAnswers
        <5>2. CASE ~ SaveWrite(h)
          <6>1. r.ok /\ "diff" \notin r.todo /\ "write" \notin r.todo => Answered(u, kind)
            BY <2>1, <2>2, <3>1, <4>1, <4>2, <5>2 DEF RedeemSound
          <6>2. QED
            BY <4>2, <6>1, AnsweredStays
        <5>3. QED
          BY <5>1, <5>2
      <4>6. r.ok /\ "token" \notin r.todo => ott'[t].used
        <5>1. CASE SaveWrite(h)
          <6>1. r.ok /\ "token" \notin r.todo => ott[t].used
            BY <2>1, <2>2, <3>1, <4>1, <4>2, <5>1 DEF RedeemSound
          <6>2. QED
            BY <4>2, <4>3, <6>1, UsedStays
        <5>2. CASE ~ SaveWrite(h)
          BY <1>6, <4>1, <4>2, <5>2 DEF SaveToken, OneTimeToken
        <5>3. QED
          BY <5>1, <5>2
      <4>7. QED
        BY <2>4, <3>1, <4>1, <4>4, <4>5, <4>6 DEF RedeemSound
    <3>3. QED
      BY <1>4, <2>1, <2>2, <2>3, <2>4, <3>1, <3>2
  <2>8. QED
    BY <2>6, <2>7
<1>7. ASSUME NEW h \in Handlers, SaveFails(h) PROVE \A k \in Handlers : RedeemSound(k)'
  <2>1. PICK part \in req[h].todo : Enter(h, Done([req[h] EXCEPT !.ok = FALSE], part))
    BY <1>7 DEF SaveFails
  <2>2. req[h] \in Request /\ req[h].at = "save" /\ RedeemSound(h) /\ ott' = ott
    BY <1>7 DEF SaveFails, RedeemInv
  <2>3. PICK q \in Request : q = [req[h] EXCEPT !.ok = FALSE]
    BY <2>2 DEF Request
  <2>4. PICK r : r = Done(q, part)
    OBVIOUS
  <2>5. q.at = "save" /\ ~ q.ok /\ q.kind = req[h].kind /\ q.t = req[h].t /\ q.u = req[h].u
    BY <2>2, <2>3 DEF Request
  <2>6. r = [q EXCEPT !.todo = q.todo \ {part}] \/ r = Blank
    BY <2>4, <2>5, AfterPart
  <2>7. req'[h] = r /\ r \in Request /\ Enter(h, r)
    BY <2>1, <2>3, <2>4 DEF Enter
  <2>8. CASE r = Blank
    BY <1>4, <2>2, <2>7, <2>8 DEF RedeemSound, Blank
  <2>9. CASE r = [q EXCEPT !.todo = q.todo \ {part}]
    <3>1. r.at = "save" /\ ~ r.ok /\ r.kind = req[h].kind /\ r.t = req[h].t /\ r.u = req[h].u
      BY <2>5, <2>9 DEF Request
    <3>2. req[h].kind \in {"verify", "reset"} => RedeemSound(h)'
      BY <2>2, <2>7, <3>1 DEF RedeemSound
    <3>3. QED
      BY <1>4, <2>2, <2>7, <3>1, <3>2
  <2>10. QED
    BY <2>6, <2>8, <2>9
<1>8. ASSUME NEW t \in TokenIds, ExpireToken(t) PROVE \A k \in Handlers : RedeemSound(k)'
  BY <1>8, WaitingSound DEF ExpireToken
<1>9. CASE UNCHANGED vars
  BY <1>9, WaitingSound DEF vars
<1>10. QED
  BY <1>1, <1>3, <1>5, <1>6, <1>7, <1>8, <1>9 DEF Next

LEMMA WelcomeStep ==
    ASSUME TypeInv, TypeInv', AccountInv, AccountInv', RedeemInv, [Next]_vars
    PROVE  WelcomeMeansVerified'
<1> USE DEF TypeInv, TypeOK
<1>1. SUFFICES ASSUME NEW m \in outbox', m.kind = "welcome"
               PROVE  /\ LoginAllowed(users'[m.user])
                      /\ \E t \in TokenIds : ott'[t].kind = "verify" /\ ott'[t].user = m.user
                                             /\ ott'[t].used
  BY DEF WelcomeMeansVerified, LoginAllowed
<1>2. m.user \in Users
  BY DEF Mail
<1>3. /\ users[m.user].emailVerified
      /\ \E t \in TokenIds : ott[t].kind = "verify" /\ ott[t].user = m.user /\ ott[t].used
  <2>1. CASE m \in outbox
    BY <1>1, <2>1 DEF RedeemInv, WelcomeMeansVerified, LoginAllowed
  <2>2. CASE m \notin outbox
    <3>1. PICK h \in Handlers : Publish(h)
      BY <2>2 DEF Next, vars, Register, InsertUser, ResendVerification, ForgotPassword,
         InvalidateTokens, InsertToken, VerifyEmail, ResetPassword, Redeem, BurnToken,
         ValidateUser, Login, RefreshTokens, RotateVersion, IssueRefreshed, Authenticate,
         Logout, ChangePassword, SaveDiff, SaveWrite, SaveToken, SaveFails, Abort, ExpireToken
    <3>2. m = MailOf(req[h]) /\ req[h].at = "publish"
      BY <2>2, <3>1 DEF Publish
    <3>3. req[h].kind = "verify" /\ m.user = req[h].u
      BY <1>1, <3>2 DEF MailOf, TokenKind
    <3>4. RedeemSound(h) /\ req[h].t \in TokenIds
      BY <3>2 DEF RedeemInv, SlotTyped
    <3>5. QED
      BY <3>2, <3>3, <3>4 DEF RedeemSound, Answered
  <2>3. QED
    BY <2>1, <2>2
<1>4. users'[m.user].emailVerified
  BY <1>2, <1>3, AccountGrows DEF Grows
<1>5. users'[m.user].isActive
  BY <1>2, <1>4 DEF AccountInv, RowsSound
<1>6. PICK t \in TokenIds : ott[t].kind = "verify" /\ ott[t].user = m.user /\ ott[t].used
  BY <1>3
<1>7. ott'[t].kind = "verify" /\ ott'[t].user = m.user
  BY <1>6, AccountGrows DEF Grows
<1>8. ott'[t].used
  BY <1>6, UsedStays
<1>9. QED
  BY <1>4, <1>5, <1>6, <1>7, <1>8 DEF LoginAllowed

(***************************************************************************)
(* The steps of the system                                                 *)
(***************************************************************************)

\* Seen from the accounts, a step of the system is a step of AuthService.
LEMMA SystemStepsServe == [SystemNext]_systemVars => [Next]_vars
<1> SUFFICES ASSUME [SystemNext]_systemVars PROVE [Next]_vars
  OBVIOUS
<1>1. ASSUME NEW h \in Handlers, Arrive(h) \/ FollowLink(h) \/ Serve(h) \/ Send(h) \/ Fail(h)
      PROVE  Next
  BY <1>1 DEF Arrive, FollowLink, Serve, Send, Fail, Next
<1>2. ASSUME NEW t \in TokenIds, Expire(t) PROVE Next
  BY <1>2 DEF Expire, Next
<1>3. ASSUME NEW c \in Consumers, Consume(c) \/ LoseChannel(c) PROVE UNCHANGED vars
  BY <1>3 DEF Consume, LoseChannel
<1>4. CASE UNCHANGED systemVars
  BY <1>4 DEF systemVars
<1>5. QED
  BY <1>1, <1>2, <1>3, <1>4 DEF SystemNext

AccountsInv == TypeInv /\ AccountInv /\ RedeemInv

LEMMA AccountsStep == AccountsInv /\ [SystemNext]_systemVars => AccountsInv'
<1> SUFFICES ASSUME AccountsInv, [SystemNext]_systemVars PROVE AccountsInv'
  OBVIOUS
<1>1. [Next]_vars
  BY SystemStepsServe
<1>2. TypeInv'
  BY <1>1, TypeStep DEF AccountsInv
<1>3. AccountInv'
  BY <1>1, <1>2, AccountStep DEF AccountsInv
<1>4. \A h \in Handlers : RedeemSound(h)'
  BY <1>1, <1>2, RedeemStep DEF AccountsInv
<1>5. WelcomeMeansVerified'
  BY <1>1, <1>2, <1>3, WelcomeStep DEF AccountsInv
<1>6. QED
  BY <1>2, <1>3, <1>4, <1>5 DEF AccountsInv, RedeemInv

LEMMA AccountsInvariant == SystemSpec => []AccountsInv
<1>1. SystemInit => AccountsInv
  BY InitType, AccountInit, RedeemInit DEF SystemInit, AccountsInv
<1>2. QED
  BY <1>1, AccountsStep, PTL DEF SystemSpec

\* A welcome mail goes out only for an account that can log in and a token of
\* which is burnt, whatever fails and in whatever order the two saves end.
THEOREM WelcomeAfterBothSaves == SystemSpec => []WelcomeMeansVerified
<1>1. AccountsInv => WelcomeMeansVerified
  BY DEF AccountsInv, RedeemInv
<1>2. QED
  BY <1>1, AccountsInvariant, PTL

(***************************************************************************)
(* The life of an account, end to end                                      *)
(***************************************************************************)

MailTyped ==
    /\ queue \in Seq(TokenIds)
    /\ holding \in [Consumers -> Pipeline!Holding]
    /\ mailed \in [TokenIds -> 0..2]

\* Whoever is redeeming a verification token found it in the mailbox.
LinkDelivered(h) ==
    req[h].at = "save" /\ req[h].kind = "verify" => InMailbox(req[h].t)

DeliveryInv == MailTyped /\ \A h \in Handlers : LinkDelivered(h)

LEMMA DeliveryInit == SystemInit => DeliveryInv
<1> SUFFICES ASSUME SystemInit PROVE DeliveryInv
  OBVIOUS
<1>1. Pipeline!Idle \in Pipeline!Holding
  BY DEF Pipeline!Idle, Pipeline!Holding
<1>2. queue \in Seq(TokenIds)
  BY DEF SystemInit, Pipeline!QueueInit
<1>3. holding \in [Consumers -> Pipeline!Holding] /\ mailed \in [TokenIds -> 0..2]
  BY <1>1 DEF SystemInit, Pipeline!QueueInit
<1>4. \A h \in Handlers : LinkDelivered(h)
  BY DEF SystemInit, Init, LinkDelivered, Blank
<1>5. QED
  BY <1>2, <1>3, <1>4 DEF DeliveryInv, MailTyped

LEMMA OnceMoreTyped ==
    ASSUME MailTyped, NEW m \in TokenIds
    PROVE  /\ Pipeline!OnceMore(m) \in [TokenIds -> 0..2]
           /\ Pipeline!OnceMore(m)[m] > 0
           /\ \A t \in TokenIds : mailed[t] <= Pipeline!OnceMore(m)[t]
           /\ \A t \in TokenIds : t # m => Pipeline!OnceMore(m)[t] = mailed[t]
BY DEF MailTyped, Pipeline!OnceMore

LEMMA WorkingToken ==
    ASSUME MailTyped, NEW c \in Consumers, Pipeline!Working(c)
    PROVE  holding[c].msg \in TokenIds
BY DEF MailTyped, Pipeline!Holding, Pipeline!Working

\* The consumers keep the types, and deliver the mail of one token at most.
LEMMA ConsumerStep ==
    ASSUME MailTyped, NEW c \in Consumers, Consume(c) \/ LoseChannel(c)
    PROVE  /\ MailTyped'
           /\ mailed' = mailed \/ \E t \in TokenIds : mailed' = Pipeline!OnceMore(t)
<1> USE DEF MailTyped
<1>1. Pipeline!Idle \in Pipeline!Holding
  BY DEF Pipeline!Idle, Pipeline!Holding
<1>2. CASE Pipeline!Deliver(c)
  <2>1. Head(queue) \in TokenIds /\ Tail(queue) \in Seq(TokenIds)
    BY <1>2 DEF Pipeline!Deliver
  <2>2. [msg |-> Head(queue), sent |-> FALSE, live |-> TRUE] \in Pipeline!Holding
    BY <2>1 DEF Pipeline!Holding
  <2>3. QED
    BY <1>2, <2>1, <2>2 DEF Pipeline!Deliver
<1>3. CASE Pipeline!SendMail(c)
  <2>1. holding[c].msg \in TokenIds
    BY <1>3, WorkingToken DEF Pipeline!SendMail
  <2>2. holding' \in [Consumers -> Pipeline!Holding]
    BY <1>3 DEF Pipeline!SendMail, Pipeline!Holding
  <2>3. QED
    BY <1>3, <2>1, <2>2, OnceMoreTyped DEF Pipeline!SendMail
<1>4. CASE Pipeline!Ack(c)
  BY <1>1, <1>4 DEF Pipeline!Ack
<1>5. CASE Pipeline!SendFails(c)
  <2>1. holding[c].msg \in TokenIds
    BY <1>5, WorkingToken DEF Pipeline!SendFails
  <2>2. QED
    BY <1>1, <1>5, <2>1, OnceMoreTyped DEF Pipeline!SendFails, Pipeline!AfterNack
<1>6. CASE Pipeline!LoseChannel(c)
  <2>1. holding[c].msg \in TokenIds
    BY <1>6, WorkingToken DEF Pipeline!LoseChannel
  <2>2. queue' \in Seq(TokenIds)
    BY <1>6, <2>1 DEF Pipeline!LoseChannel, Pipeline!Requeued
  <2>3. [holding EXCEPT ![c].live = FALSE] \in [Consumers -> Pipeline!Holding]
    BY DEF Pipeline!Holding
  <2>4. [holding EXCEPT ![c] = Pipeline!Idle] \in [Consumers -> Pipeline!Holding]
    BY <1>1
  <2>5. QED
    BY <1>6, <2>2, <2>3, <2>4 DEF Pipeline!LoseChannel
<1>7. QED
  BY <1>2, <1>3, <1>4, <1>5, <1>6 DEF Consume, LoseChannel, Pipeline!Consume

\* Handing a mail over adds to the queue at most.
LEMMA SendStep ==
    ASSUME MailTyped, TypeInv', NEW h \in Handlers, Send(h)
    PROVE  MailTyped' /\ mailed' = mailed
<1>1. CASE UNCHANGED mailVars
  BY <1>1 DEF mailVars, MailTyped
<1>2. CASE ~ UNCHANGED mailVars
  <2>1. PICK m \in outbox' : m.token # 0 /\ Pipeline!Emit(m.token)
    BY <1>2 DEF Send, Handed
  <2>2. m.token \in TokenIds
    BY <2>1, BoundsAssumption DEF TypeInv, TypeOK, Mail, TokenIds
  <2>3. QED
    BY <2>1, <2>2 DEF Pipeline!Emit, MailTyped
<1>3. QED
  BY <1>1, <1>2

LEMMA MailStep ==
    ASSUME MailTyped, TypeInv', [SystemNext]_systemVars
    PROVE  MailTyped' /\ \A t \in TokenIds : mailed[t] <= mailed'[t]
<1>0. \A t \in TokenIds : mailed[t] <= mailed[t]
  BY DEF MailTyped
<1>1. ASSUME NEW h \in Handlers, Send(h)
      PROVE  MailTyped' /\ \A t \in TokenIds : mailed[t] <= mailed'[t]
  BY <1>0, <1>1, SendStep
<1>2. ASSUME NEW c \in Consumers, Consume(c) \/ LoseChannel(c)
      PROVE  MailTyped' /\ \A t \in TokenIds : mailed[t] <= mailed'[t]
  BY <1>0, <1>2, ConsumerStep, OnceMoreTyped
<1>3. CASE UNCHANGED mailVars
  BY <1>0, <1>3 DEF mailVars, MailTyped
<1>4. QED
  BY <1>1, <1>2, <1>3 DEF SystemNext, systemVars, Arrive, FollowLink, Serve, Fail, Expire

\* A request that starts to redeem found its link; the others go on with it.
LEMMA LinkStep ==
    ASSUME AccountsInv, AccountsInv', DeliveryInv, MailTyped',
           \A t \in TokenIds : mailed[t] <= mailed'[t],
           [SystemNext]_systemVars, NEW k \in Handlers
    PROVE  LinkDelivered(k)'
<1> USE DEF AccountsInv, TypeInv, TypeOK
<1> SUFFICES ASSUME req'[k].at = "save", req'[k].kind = "verify" PROVE mailed'[req'[k].t] > 0
  BY DEF LinkDelivered, InMailbox
<1>1. ASSUME req[k].at = "save", req[k].kind = "verify", req'[k].t = req[k].t
      PROVE  mailed'[req'[k].t] > 0
  <2>1. PICK t \in TokenIds : t = req[k].t
    BY <1>1 DEF SlotTyped
  <2>2. mailed[t] > 0 /\ mailed[t] \in Nat /\ mailed'[t] \in Nat /\ mailed[t] <= mailed'[t]
    BY <1>1, <2>1 DEF DeliveryInv, LinkDelivered, InMailbox, MailTyped
  <2>3. QED
    BY <1>1, <2>1, <2>2
<1>2. ASSUME NEW h \in Handlers, FollowLink(h) PROVE mailed'[req'[k].t] > 0
  <2>1. mailed' = mailed /\ mailed[req'[h].t] > 0
    BY <1>2 DEF FollowLink, InMailbox, mailVars
  <2>2. k # h => req'[k] = req[k]
    BY <1>2 DEF FollowLink, VerifyEmail, ResetPassword, Redeem, Enter
  <2>3. QED
    BY <1>1, <2>1, <2>2
\* no other step brings a slot to "save" for a verification
<1>3. ASSUME NEW h \in Handlers, NEW r, Enter(h, r),
             ~ (r.at = "save" /\ r.kind = "verify")
      PROVE  mailed'[req'[k].t] > 0
  <2>1. k # h
    BY <1>3 DEF Enter
  <2>2. QED
    BY <1>1, <1>3, <2>1 DEF Enter
<1>4. ASSUME NEW h \in Handlers, Arrive(h) PROVE mailed'[req'[k].t] > 0
  <2>1. CASE Register(h) \/ ResendVerification(h) \/ ForgotPassword(h)
    <3>1. \A j \in Handlers : j # h => req'[j] = req[j]
      BY <2>1 DEF Register, ResendVerification, ForgotPassword, Enter
    <3>2. req'[h].at # "save"
      BY <2>1 DEF Register, ResendVerification, ForgotPassword, Enter, Blank
    <3>3. QED
      BY <1>1, <3>1, <3>2
  <2>2. CASE ValidateUser(h) \/ RefreshTokens(h) \/ Authenticate(h)
    <3>1. \A j \in Handlers : j # h => req'[j] = req[j]
      BY <2>2 DEF ValidateUser, RefreshTokens, Authenticate, Enter
    <3>2. req'[h].at # "save"
      BY <2>2 DEF ValidateUser, RefreshTokens, Authenticate, Enter, Blank
    <3>3. QED
      BY <1>1, <3>1, <3>2
  <2>3. QED
    BY <1>4, <2>1, <2>2 DEF Arrive
<1>5. ASSUME NEW h \in Handlers,
             \/ InsertUser(h) \/ InvalidateTokens(h) \/ InsertToken(h) \/ BurnToken(h)
             \/ Login(h) \/ RotateVersion(h) \/ IssueRefreshed(h)
             \/ Logout(h) \/ ChangePassword(h) \/ Publish(h) \/ Abort(h)
      PROVE  mailed'[req'[k].t] > 0
  <2>1. \A j \in Handlers : j # h => req'[j] = req[j]
    BY <1>5 DEF InsertUser, InvalidateTokens, InsertToken, BurnToken, Login, RotateVersion,
       IssueRefreshed, Logout, ChangePassword, Publish, Abort, Enter, Step
  <2>2. CASE BurnToken(h) \/ Login(h) \/ IssueRefreshed(h) \/ Logout(h) \/ Publish(h) \/ Abort(h)
    <3>1. req'[h] = Blank
      BY <2>2 DEF BurnToken, Login, IssueRefreshed, Logout, Publish, Abort, Enter
    <3>2. QED
      BY <1>1, <2>1, <3>1 DEF Blank
  <2>3. CASE InsertUser(h) \/ InvalidateTokens(h) \/ InsertToken(h) \/ RotateVersion(h)
    <3>1. req[h] \in Request
      OBVIOUS
    <3>2. req'[h].at # "save"
      BY <2>3, <3>1 DEF InsertUser, InvalidateTokens, InsertToken, RotateVersion, Enter, Step,
         Blank, Request
    <3>3. QED
      BY <1>1, <2>1, <3>2
  <2>4. CASE ChangePassword(h)
    <3>1. req[h] \in Request /\ req[h].kind = "change"
      BY <2>4 DEF ChangePassword
    <3>2. req'[h].kind = "change"
      BY <2>4, <3>1 DEF ChangePassword, Enter, Request
    <3>3. QED
      BY <1>1, <2>1, <3>2
  <2>5. QED
    BY <1>5, <2>2, <2>3, <2>4
<1>6. ASSUME NEW h \in Handlers, SaveDiff(h) PROVE mailed'[req'[k].t] > 0
  <2>1. req[h] \in Request /\ req[h].at = "save"
    BY <1>6 DEF SaveDiff
  <2>2. k # h => req'[k] = req[k]
    BY <1>6 DEF SaveDiff, Enter
  <2>3. req'[h].t = req[h].t /\ req'[h].kind = req[h].kind
    BY <1>6, <2>1 DEF SaveDiff, Enter, Request
  <2>4. QED
    BY <1>1, <2>1, <2>2, <2>3
<1>7. ASSUME NEW h \in Handlers, NEW q \in Request, NEW part, Enter(h, Done(q, part)),
             req[h].at = "save", q.at = "save", q.t = req[h].t, q.kind = req[h].kind
      PROVE  mailed'[req'[k].t] > 0
  <2>1. PICK r : r = Done(q, part)
    OBVIOUS
  <2>2. r = Blank \/ (r.t = q.t /\ r.kind = q.kind)
    <3>1. \/ r = [q EXCEPT !.todo = q.todo \ {part}]
          \/ r = [q EXCEPT !.todo = {}, !.at = "publish"]
          \/ r = Blank
      BY <1>7, <2>1, AfterPart
    <3>2. QED
      BY <1>7, <3>1 DEF Request
  <2>3. req'[h] = r /\ (k # h => req'[k] = req[k])
    BY <1>7, <2>1 DEF Enter
  <2>4. QED
    BY <1>1, <1>7, <2>2, <2>3 DEF Blank
<1>8. ASSUME NEW h \in Handlers, SaveWrite(h) \/ SaveToken(h) PROVE mailed'[req'[k].t] > 0
  <2>1. req[h] \in Request /\ req[h].at = "save" /\ \E part : Enter(h, Done(req[h], part))
    BY <1>8 DEF SaveWrite, SaveToken
  <2>2. QED
    BY <1>7, <2>1
<1>9. ASSUME NEW h \in Handlers, SaveFails(h) PROVE mailed'[req'[k].t] > 0
  <2>1. req[h] \in Request /\ req[h].at = "save"
    BY <1>9 DEF SaveFails
  <2>2. PICK q \in Request : q = [req[h] EXCEPT !.ok = FALSE]
    BY <2>1 DEF Request
  <2>3. q.at = "save" /\ q.t = req[h].t /\ q.kind = req[h].kind
    BY <2>1, <2>2 DEF Request
  <2>4. \E part : Enter(h, Done(q, part))
    BY <1>9, <2>2 DEF SaveFails
  <2>5. QED
    BY <1>7, <2>1, <2>3, <2>4
<1>10. CASE UNCHANGED req
  BY <1>1, <1>10
<1>11. QED
  BY <1>2, <1>4, <1>5, <1>6, <1>8, <1>9, <1>10 DEF SystemNext, systemVars, vars, Serve, Send,
     Fail, Expire, ExpireToken, Consume, LoseChannel

LEMMA DeliveryInvariant == SystemSpec => [](AccountsInv /\ DeliveryInv)
<1>1. SystemInit => DeliveryInv
  BY DeliveryInit
<1>2. AccountsInv /\ AccountsInv' /\ DeliveryInv /\ [SystemNext]_systemVars => DeliveryInv'
  <2> SUFFICES ASSUME AccountsInv, AccountsInv', DeliveryInv, [SystemNext]_systemVars
               PROVE  DeliveryInv'
    OBVIOUS
  <2>1. MailTyped' /\ \A t \in TokenIds : mailed[t] <= mailed'[t]
    BY MailStep DEF AccountsInv, DeliveryInv
  <2>2. \A h \in Handlers : LinkDelivered(h)'
    BY <2>1, LinkStep
  <2>3. QED
    BY <2>1, <2>2 DEF DeliveryInv
<1>3. QED
  BY <1>1, <1>2, AccountsInvariant, PTL DEF SystemSpec

\* The kind and the user of a token change only when it is minted.
LEMMA KindsKept ==
    ASSUME TypeInv, [Next]_vars
    PROVE  \/ \E h \in Handlers : InsertToken(h)
           \/ \A t \in TokenIds : ott'[t].kind = ott[t].kind /\ ott'[t].user = ott[t].user
<1> USE DEF TypeInv, TypeOK
<1>1. ASSUME NEW h \in Handlers, InvalidateTokens(h) \/ BurnToken(h) \/ SaveToken(h)
      PROVE  \A t \in TokenIds : ott'[t].kind = ott[t].kind /\ ott'[t].user = ott[t].user
  BY <1>1 DEF InvalidateTokens, Invalidated, BurnToken, SaveToken, OneTimeToken
<1>2. ASSUME NEW q \in TokenIds, ExpireToken(q)
      PROVE  \A t \in TokenIds : ott'[t].kind = ott[t].kind /\ ott'[t].user = ott[t].user
  BY <1>2 DEF ExpireToken, OneTimeToken
<1>3. ASSUME NEW h \in Handlers,
             \/ Register(h) \/ InsertUser(h) \/ ResendVerification(h) \/ ForgotPassword(h)
             \/ Publish(h) \/ VerifyEmail(h) \/ ResetPassword(h) \/ ValidateUser(h)
             \/ Login(h) \/ RefreshTokens(h) \/ RotateVersion(h) \/ IssueRefreshed(h)
             \/ Authenticate(h) \/ Logout(h) \/ ChangePassword(h)
             \/ SaveDiff(h) \/ SaveWrite(h) \/ SaveFails(h) \/ Abort(h)
      PROVE  ott' = ott
  BY <1>3 DEF Register, InsertUser, ResendVerification, ForgotPassword, Publish, VerifyEmail,
     ResetPassword, Redeem, ValidateUser, Login, RefreshTokens, RotateVersion, IssueRefreshed,
     Authenticate, Logout, ChangePassword, SaveDiff, SaveWrite, SaveFails, Abort
<1>4. CASE UNCHANGED vars
  BY <1>4 DEF vars
<1>5. QED
  BY <1>1, <1>2, <1>3, <1>4 DEF Next

\* An account becomes verified only in the write of a verification of it.
LEMMA VerifiedByLink ==
    ASSUME TypeInv, AccountInv, [Next]_vars, NEW u \in Users,
           ~ users[u].emailVerified, users'[u].emailVerified
    PROVE  \E h \in Handlers : /\ req[h].at = "save" /\ req[h].kind = "verify"
                               /\ req[h].u = u
<1> USE DEF TypeInv, TypeOK
<1>1. ASSUME NEW h \in Handlers, InsertUser(h) PROVE FALSE
  <2>1. NewUser(req[h].pw).emailVerified = FALSE
    BY DEF NewUser, NoRow
  <2>2. QED
    BY <1>1, <2>1 DEF InsertUser
<1>2. ASSUME NEW h \in Handlers, RotateVersion(h) \/ Logout(h) PROVE FALSE
  BY <1>2 DEF RotateVersion, Logout, Bumped, UserRow
<1>3. ASSUME NEW h \in Handlers, SaveWrite(h)
      PROVE  req[h].at = "save" /\ req[h].kind = "verify" /\ req[h].u = u
  <2>1. req[h].u = u /\ req[h].at = "save"
    BY <1>3 DEF SaveWrite
  <2>2. SlotSound(h)
    BY DEF AccountInv
  <2>3. QED
    BY <2>1, <2>2 DEF SlotSound
<1>4. users' # users
  OBVIOUS
<1>5. PICK h \in Handlers : InsertUser(h) \/ RotateVersion(h) \/ Logout(h) \/ SaveWrite(h)
  BY <1>4 DEF Next, vars, Register, ResendVerification, ForgotPassword,
     InvalidateTokens, InsertToken, Publish, VerifyEmail, ResetPassword, Redeem, BurnToken,
     ValidateUser, Login, RefreshTokens, IssueRefreshed, Authenticate,
     ChangePassword, SaveDiff, SaveToken, SaveFails, Abort, ExpireToken
<1>6. QED
  BY <1>1, <1>2, <1>3, <1>5

\* A step of AuthService that leaves the mailboxes alone.
LEMMA ServiceRefines ==
    ASSUME AccountsInv, AccountsInv', DeliveryInv, [Next]_vars, mailed' = mailed
    PROVE  [Delivery!Next]_(Delivery!vars)
<1> USE DEF AccountsInv, TypeInv, TypeOK
<1>1. CASE \E h \in Handlers : InsertToken(h)
  <2>1. PICK h \in Handlers : InsertToken(h)
    BY <1>1
  <2>2. Status' = Status /\ Granted' = Granted
    BY <2>1 DEF InsertToken, Status, Granted
  <2>3. minted + 1 \in TokenIds /\ minted + 1 > minted
    BY <2>1, BoundsAssumption DEF InsertToken, TokenIds
  <2>4. ott[minted + 1].kind = "free"
    BY <2>3 DEF AccountInv, TokensSound
  <2>5. /\ \A t \in TokenIds : t # minted + 1 => ott'[t] = ott[t]
        /\ ott'[minted + 1].user = req[h].u
    BY <2>1, <2>3 DEF InsertToken
  <2>6. DeliveredTo' = DeliveredTo \/ DeliveredTo' = DeliveredTo \cup {req[h].u}
    BY <2>3, <2>4, <2>5 DEF DeliveredTo, InMailbox
  <2>7. req[h].u \in Users /\ Status[req[h].u] # "absent"
    BY <2>1 DEF InsertToken, SlotTyped, AccountInv, SlotSound, Status
  <2>8. QED
    BY <2>2, <2>6, <2>7 DEF Delivery!Next, Delivery!SendMail, Delivery!vars
<1>2. CASE ~ \E h \in Handlers : InsertToken(h)
  <2>1. \A t \in TokenIds : ott'[t].kind = ott[t].kind /\ ott'[t].user = ott[t].user
    BY <1>2, KindsKept
  <2>2. DeliveredTo' = DeliveredTo
    BY <2>1 DEF DeliveredTo, InMailbox
  <2>3. [Lifecycle!Next]_(Lifecycle!vars)
    BY LifecycleStep
  <2>4. CASE UNCHANGED Lifecycle!vars
    BY <2>2, <2>4 DEF Lifecycle!vars, Delivery!vars
  <2>5. ASSUME NEW u \in Users, Lifecycle!Enrol(u) PROVE Delivery!Next
    BY <2>2, <2>5 DEF Lifecycle!Enrol, Delivery!Enrol, Delivery!Next
  <2>6. ASSUME NEW u \in Users, Lifecycle!SendMail(u) PROVE UNCHANGED Delivery!vars
    BY <2>2, <2>6 DEF Lifecycle!SendMail, Delivery!vars
  <2>7. ASSUME NEW u \in Users, Lifecycle!Grant(u) PROVE Delivery!Next
    BY <2>2, <2>7 DEF Lifecycle!Grant, Delivery!Grant, Delivery!Next
  <2>8. ASSUME NEW u \in Users, Lifecycle!Verify(u) PROVE Delivery!Next
    <3>1. Status[u] = "pending" /\ Status' = [Status EXCEPT ![u] = "verified"]
      BY <2>8 DEF Lifecycle!Verify
    <3>2. Status'[u] = "verified"
      BY <3>1 DEF Status
    <3>3. ~ users[u].emailVerified /\ users'[u].emailVerified
      BY <3>1, <3>2 DEF Status
    <3>4. PICK h \in Handlers : /\ req[h].at = "save" /\ req[h].kind = "verify"
                                /\ req[h].u = u
      BY <3>3, VerifiedByLink
    <3>5. ott[req[h].t].kind = "verify" /\ ott[req[h].t].user = u /\ req[h].t \in TokenIds
      BY <3>4 DEF RedeemInv, RedeemSound, SlotTyped
    <3>6. InMailbox(req[h].t)
      BY <3>4 DEF DeliveryInv, LinkDelivered
    <3>7. u \in DeliveredTo
      BY <3>5, <3>6 DEF DeliveredTo
    <3>8. QED
      BY <2>2, <2>8, <3>7 DEF Lifecycle!Verify, Delivery!Verify, Delivery!Next
  <2>9. QED
    BY <2>3, <2>4, <2>5, <2>6, <2>7, <2>8 DEF Lifecycle!Next
<1>3. QED
  BY <1>1, <1>2

\* A step of the pipeline.
LEMMA PipelineRefines ==
    ASSUME AccountsInv, DeliveryInv, UNCHANGED vars,
           \/ mailed' = mailed
           \/ \E t \in TokenIds : mailed' = Pipeline!OnceMore(t)
    PROVE  [Delivery!Next]_(Delivery!vars)
<1>1. Status' = Status /\ Granted' = Granted /\ ott' = ott
  BY DEF vars, Status, Granted
<1>2. CASE mailed' = mailed
  <2>1. DeliveredTo' = DeliveredTo
    BY <1>1, <1>2 DEF DeliveredTo, InMailbox
  <2>2. QED
    BY <1>1, <2>1 DEF Delivery!vars
<1>3. ASSUME NEW t \in TokenIds, mailed' = Pipeline!OnceMore(t)
      PROVE  [Delivery!Next]_(Delivery!vars)
  <2>1. mailed'[t] > 0 /\ \A n \in TokenIds : n # t => mailed'[n] = mailed[n]
    BY <1>3, OnceMoreTyped DEF DeliveryInv
  <2>2. DeliveredTo' = DeliveredTo
        \/ (ott[t].kind = "verify" /\ DeliveredTo' = DeliveredTo \cup {ott[t].user})
    BY <1>1, <2>1 DEF DeliveredTo, InMailbox
  <2>3. ott[t].kind = "verify" => ott[t].user \in Users /\ Status[ott[t].user] # "absent"
    BY DEF AccountsInv, AccountInv, TokensSound, TypeInv, TypeOK, Status
  <2>4. QED
    BY <1>1, <2>2, <2>3 DEF Delivery!Next, Delivery!SendMail, Delivery!vars
<1>4. QED
  BY <1>2, <1>3

\* The system implements the lifecycle of an account with its mails counted
\* where SMTP delivers them: only a link that was in the mailbox verifies an
\* account, whatever is lost, repeated, dropped or aborted.
THEOREM LifecycleEndToEnd == SystemSpec => SystemImplementsLifecycle
<1>1. SystemInit => Delivery!Init
  <2> SUFFICES ASSUME SystemInit PROVE Delivery!Init
    OBVIOUS
  <2>1. Lifecycle!Init
    BY LifecycleInit DEF SystemInit
  <2>2. DeliveredTo = {}
    BY DEF SystemInit, Init, DeliveredTo, FreeToken
  <2>3. QED
    BY <2>1, <2>2 DEF Lifecycle!Init, Delivery!Init
<1>2. AccountsInv /\ AccountsInv' /\ DeliveryInv /\ [SystemNext]_systemVars
        => [Delivery!Next]_(Delivery!vars)
  <2> SUFFICES ASSUME AccountsInv, AccountsInv', DeliveryInv, [SystemNext]_systemVars
               PROVE  [Delivery!Next]_(Delivery!vars)
    OBVIOUS
  <2>1. [Next]_vars
    BY SystemStepsServe
  <2>2. CASE mailed' = mailed
    BY <2>1, <2>2, ServiceRefines
  <2>3. ASSUME NEW c \in Consumers, Consume(c) \/ LoseChannel(c)
        PROVE  [Delivery!Next]_(Delivery!vars)
    <3>1. UNCHANGED vars
      BY <2>3 DEF Consume, LoseChannel
    <3>2. \/ mailed' = mailed
          \/ \E t \in TokenIds : mailed' = Pipeline!OnceMore(t)
      BY <2>3, ConsumerStep DEF DeliveryInv
    <3>3. QED
      BY <3>1, <3>2, PipelineRefines
  <2>4. ASSUME NEW h \in Handlers, Send(h) PROVE mailed' = mailed
    BY <2>4, SendStep DEF AccountsInv, DeliveryInv
  <2>5. QED
    BY <2>2, <2>3, <2>4 DEF SystemNext, systemVars, mailVars, Arrive, FollowLink, Serve, Fail,
       Expire
<1>3. QED
  BY <1>1, <1>2, DeliveryInvariant, PTL
     DEF SystemSpec, SystemImplementsLifecycle, Delivery!Spec

(***************************************************************************)
(* A working link always remains                                           *)
(***************************************************************************)

\* The system as system_links runs it: no fault, and SMTP takes every mail.
\* Channels may still be lost.
NothingFails == Faults = {} /\ SmtpFails = FALSE

\* The broker or SMTP has the mail of token t.
Carried(t) ==
    \/ InMailbox(t)
    \/ \E i \in DOMAIN queue : queue[i] = t
    \/ \E c \in Consumers : holding[c].msg = t /\ ~ holding[c].sent

Handover == \A m \in outbox : m.token # 0 => Carried(m.token)

\* Who has a token coming, or has had it.
Owed(u, kind) ==
    IF kind = "verify" THEN u \in registered
    ELSE \E t \in TokenIds : ott[t].kind = "reset" /\ ott[t].user = u

\* A request that will leave a new link, or is using one.
Doing(r, u, kind) ==
    /\ r.u = u
    /\ \/ r.at \in {"invalidate", "mint"} /\ TokenKind(r) = kind
       \/ r.at = "save" /\ r.kind = kind

Posting(r, t) == r.at = "publish" /\ r.kind # "verify" /\ r.t = t

LinkAbout(u, kind) ==
    \E t \in Usable(u, kind) :
        \/ \E h \in Handlers : Posting(req[h], t)
        \/ \E m \in outbox : m.token = t

\* An account that is owed a link got what the link is for, is being served,
\* or has a link that works in the broker's hands or behind them.
Provided(u, kind) ==
    \/ Answered(u, kind)
    \/ \E h \in Handlers : Doing(req[h], u, kind)
    \/ LinkAbout(u, kind)

\* Without faults a request only burns a token that has served its purpose.
Calm(h) ==
    LET r == req[h] IN
    /\ r.ok
    /\ r.at = "burn" =>
        /\ ott[r.t].kind = "verify" /\ ott[r.t].user = r.u
        /\ users[r.u].emailVerified

CalmInv ==
    /\ \A t \in TokenIds : ~ ott[t].expired
    /\ \A h \in Handlers : Calm(h)

ProvidedInv ==
    \A u \in Users, kind \in {"verify", "reset"} : Owed(u, kind) => Provided(u, kind)

LinkInv == CalmInv /\ Handover /\ ProvidedInv

LEMMA LinkInit == SystemInit => LinkInv
<1> SUFFICES ASSUME SystemInit PROVE LinkInv
  OBVIOUS
<1>1. PICK pw \in [Seeded -> Passwords] :
        users = [u \in Users |-> IF u \in Seeded THEN VerifiedUser(pw[u]) ELSE NoRow]
  BY DEF SystemInit, Init
<1>2. \A p : VerifiedUser(p).emailVerified
  BY DEF VerifiedUser, NewUser, NoRow
<1>3. CalmInv
  BY DEF SystemInit, Init, CalmInv, Calm, FreeToken, Blank
<1>4. Handover
  BY DEF SystemInit, Init, Handover
<1>5. ProvidedInv
  BY <1>1, <1>2 DEF SystemInit, Init, ProvidedInv, Owed, Provided, Answered, FreeToken
<1>6. QED
  BY <1>3, <1>4, <1>5 DEF LinkInv

\* What the broker took it keeps until SMTP has it, whichever channels close.
LEMMA CarriedStays ==
    ASSUME NothingFails, MailTyped, MailTyped', [SystemNext]_systemVars,
           NEW t \in TokenIds, Carried(t)
    PROVE  Carried(t)'
<1> USE DEF MailTyped
<1>1. InMailbox(t) /\ mailed[t] <= mailed'[t] => InMailbox(t)'
  BY DEF InMailbox
<1>2. CASE UNCHANGED mailVars
  BY <1>2 DEF mailVars, Carried, InMailbox
<1>3. ASSUME NEW h \in Handlers, Send(h), ~ UNCHANGED mailVars PROVE Carried(t)'
  <2>1. PICK m \in outbox' : Pipeline!Emit(m.token)
    BY <1>3 DEF Send, Handed
  <2>2. PICK x : x = m.token
    OBVIOUS
  <2>3. \A i \in DOMAIN queue : i \in DOMAIN queue' /\ queue'[i] = queue[i]
    BY <2>1, <2>2 DEF Pipeline!Emit
  <2>4. mailed' = mailed /\ holding' = holding
    BY <2>1 DEF Pipeline!Emit
  <2>5. QED
    BY <2>3, <2>4 DEF Carried, InMailbox
<1>4. ASSUME NEW c \in Consumers, Pipeline!Deliver(c) PROVE Carried(t)'
  <2>1. /\ mailed' = mailed /\ queue # <<>> /\ queue' = Tail(queue)
        /\ holding' = [holding EXCEPT ![c] = [msg |-> Head(queue), sent |-> FALSE, live |-> TRUE]]
        /\ holding[c].msg = 0
    BY <1>4 DEF Pipeline!Deliver, Pipeline!Working
  <2>2. ASSUME NEW i \in DOMAIN queue, queue[i] = t PROVE Carried(t)'
    <3>1. CASE i = 1
      <4>1. holding'[c].msg = t /\ ~ holding'[c].sent
        BY <2>1, <2>2, <3>1
      <4>2. QED
        BY <4>1 DEF Carried
    <3>2. CASE i # 1
      <4>1. i - 1 \in DOMAIN queue' /\ queue'[i - 1] = t
        BY <2>1, <2>2, <3>2
      <4>2. QED
        BY <4>1 DEF Carried
    <3>3. QED
      BY <3>1, <3>2
  <2>3. ASSUME NEW d \in Consumers, holding[d].msg = t, ~ holding[d].sent PROVE Carried(t)'
    <3>1. d # c
      BY <2>1, <2>3, BoundsAssumption DEF TokenIds
    <3>2. holding'[d] = holding[d]
      BY <2>1, <3>1
    <3>3. QED
      BY <2>3, <3>2 DEF Carried
  <2>4. QED
    BY <2>1, <2>2, <2>3 DEF Carried, InMailbox
<1>5. ASSUME NEW c \in Consumers, Pipeline!SendMail(c) PROVE Carried(t)'
  <2>1. holding[c].msg \in TokenIds
    BY <1>5, WorkingToken DEF Pipeline!SendMail
  <2>2. /\ queue' = queue /\ mailed' = Pipeline!OnceMore(holding[c].msg)
        /\ \A d \in Consumers : d # c => holding'[d] = holding[d]
    BY <1>5 DEF Pipeline!SendMail
  <2>3. mailed[t] <= mailed'[t] /\ (holding[c].msg = t => mailed'[t] > 0)
    BY <2>1, <2>2, OnceMoreTyped
  <2>4. QED
    BY <1>1, <2>2, <2>3 DEF Carried, InMailbox
<1>6. ASSUME NEW c \in Consumers, Pipeline!Ack(c) PROVE Carried(t)'
  <2>1. holding[c].sent /\ queue' = queue /\ mailed' = mailed
    BY <1>6 DEF Pipeline!Ack, Pipeline!MayAck
  <2>2. \A d \in Consumers : d # c => holding'[d] = holding[d]
    BY <1>6 DEF Pipeline!Ack
  <2>3. QED
    BY <2>1, <2>2 DEF Carried, InMailbox
<1>7. ASSUME NEW c \in Consumers, Pipeline!SendFails(c) PROVE Carried(t)'
  BY <1>7 DEF Pipeline!SendFails, NothingFails
<1>8. ASSUME NEW c \in Consumers, Pipeline!LoseChannel(c) PROVE Carried(t)'
  <2>1. holding[c].msg \in TokenIds
    BY <1>8, WorkingToken DEF Pipeline!LoseChannel
  <2>2. PICK x \in TokenIds : x = holding[c].msg /\ queue' = <<x>> \o queue
    BY <1>8, <2>1 DEF Pipeline!LoseChannel, Pipeline!Requeued
  <2>3. mailed' = mailed /\ \A d \in Consumers : d # c => holding'[d] = holding[d]
    BY <1>8 DEF Pipeline!LoseChannel
  <2>4. /\ 1 \in DOMAIN queue' /\ queue'[1] = x
        /\ \A i \in DOMAIN queue : i + 1 \in DOMAIN queue' /\ queue'[i + 1] = queue[i]
    BY <2>2
  <2>5. QED
    BY <2>2, <2>3, <2>4 DEF Carried, InMailbox
<1>9. QED
  BY <1>2, <1>3, <1>4, <1>5, <1>6, <1>7, <1>8 DEF SystemNext, systemVars, mailVars, Arrive,
     FollowLink, Serve, Fail, Expire, Consume, LoseChannel, Pipeline!Consume

\* A mail enters the outbox together with the queue.
LEMMA HandoverStep ==
    ASSUME NothingFails, TypeInv, TypeInv', MailTyped, MailTyped', Handover,
           [SystemNext]_systemVars
    PROVE  Handover'
<1>1. SUFFICES ASSUME NEW m \in outbox', m.token # 0 PROVE Carried(m.token)'
  BY DEF Handover
<1>2. PICK t \in TokenIds : t = m.token
  BY <1>1, BoundsAssumption DEF TypeInv, TypeOK, Mail, TokenIds
<1>3. CASE m \in outbox
  <2>1. Carried(t)
    BY <1>1, <1>2, <1>3 DEF Handover
  <2>2. QED
    BY <1>2, <2>1, CarriedStays
<1>4. CASE m \notin outbox
  <2>1. PICK h \in Handlers : Send(h)
    BY <1>4 DEF SystemNext, systemVars, vars, Arrive, FollowLink, Serve, Fail, Expire, Consume,
       LoseChannel, Register, InsertUser, ResendVerification, ForgotPassword,
       InvalidateTokens, InsertToken, VerifyEmail, ResetPassword, Redeem, BurnToken,
       ValidateUser, Login, RefreshTokens, RotateVersion, IssueRefreshed, Authenticate,
       Logout, ChangePassword, SaveDiff, SaveWrite, SaveToken, SaveFails, Abort, ExpireToken
  <2>2. m = MailOf(req[h])
    BY <1>4, <2>1 DEF Send, Publish
  <2>3. Pipeline!Emit(t)
    BY <1>1, <1>2, <1>4, <2>1, <2>2 DEF Send, Handed
  <2>4. Len(queue) + 1 \in DOMAIN queue' /\ queue'[Len(queue) + 1] = t
    BY <2>3 DEF Pipeline!Emit, MailTyped
  <2>5. QED
    BY <1>2, <2>4 DEF Carried
<1>5. QED
  BY <1>3, <1>4

LEMMA CalmStep ==
    ASSUME NothingFails, TypeInv, TypeInv', AccountInv, CalmInv, [Next]_vars
    PROVE  CalmInv'
<1> USE DEF TypeInv, TypeOK
<1>1. ASSUME NEW k \in Handlers, req'[k] = req[k] PROVE Calm(k)'
  <2>1. PICK t : t = req[k].t
    OBVIOUS
  <2>2. Calm(k) /\ (req[k].at = "burn" => t \in TokenIds /\ req[k].u \in Users)
    BY <2>1 DEF CalmInv, SlotTyped
  <2>3. QED
    BY <1>1, <2>1, <2>2, AccountGrows DEF Calm, Grows
\* A step that only fills or clears a slot.
<1>2. ASSUME NEW h \in Handlers, \A k \in Handlers : k # h => req'[k] = req[k],
             req'[h].ok, req'[h].at # "burn"
      PROVE  \A k \in Handlers : Calm(k)'
  BY <1>1, <1>2 DEF Calm
<1>3. ASSUME NEW h \in Handlers, NEW kind \in {"verify", "reset"}, NEW p, Redeem(h, kind, p)
      PROVE  CalmInv'
  <2>1. PICK t \in TokenIds :
          /\ Presentable(t, kind)
          /\ Enter(h, [Blank EXCEPT
                !.at = IF Refused(kind, t) THEN "burn" ELSE "save",
                !.kind = kind, !.u = ott[t].user, !.t = t,
                !.row = users[ott[t].user], !.pw = p, !.todo = {"diff", "token"}])
          /\ ott' = ott /\ users' = users
    BY <1>3 DEF Redeem
  <2>2. /\ req'[h].t = t /\ req'[h].u = ott[t].user /\ req'[h].ok
        /\ req'[h].at = "burn" => Refused(kind, t)
    BY <2>1 DEF Enter, Blank
  <2>3. Refused(kind, t) => kind = "verify" /\ users[ott[t].user].emailVerified
    BY DEF Refused, CalmInv
  <2>4. Calm(h)'
    BY <2>1, <2>2, <2>3 DEF Calm, Presentable
  <2>5. \A k \in Handlers : k # h => req'[k] = req[k]
    BY <2>1 DEF Enter
  <2>6. QED
    BY <1>1, <2>1, <2>4, <2>5 DEF CalmInv
<1>4. ASSUME NEW h \in Handlers,
             \/ Register(h) \/ ResendVerification(h) \/ ForgotPassword(h)
             \/ ValidateUser(h) \/ RefreshTokens(h) \/ Authenticate(h)
      PROVE  CalmInv'
  <2>1. ott' = ott /\ \A k \in Handlers : k # h => req'[k] = req[k]
    BY <1>4 DEF Register, ResendVerification, ForgotPassword, ValidateUser, RefreshTokens,
       Authenticate, Enter
  <2>2. CASE Register(h) \/ ResendVerification(h) \/ ForgotPassword(h)
    <3>1. req'[h].ok /\ req'[h].at # "burn"
      BY <2>2 DEF Register, ResendVerification, ForgotPassword, Enter, Blank
    <3>2. QED
      BY <1>2, <2>1, <3>1 DEF CalmInv
  <2>3. CASE ValidateUser(h) \/ RefreshTokens(h) \/ Authenticate(h)
    <3>1. req'[h].ok /\ req'[h].at # "burn"
      BY <2>3 DEF ValidateUser, RefreshTokens, Authenticate, Enter, Blank
    <3>2. QED
      BY <1>2, <2>1, <3>1 DEF CalmInv
  <2>4. QED
    BY <1>4, <2>2, <2>3
<1>5. ASSUME NEW h \in Handlers,
             \/ InsertUser(h) \/ InvalidateTokens(h) \/ InsertToken(h) \/ RotateVersion(h)
             \/ ChangePassword(h) \/ SaveDiff(h)
      PROVE  CalmInv'
  <2>1. /\ req[h] \in Request /\ req[h].ok
        /\ req[h].at \in {"insert", "invalidate", "mint", "rotate", "guarded", "save"}
    BY <1>5 DEF CalmInv, Calm, InsertUser, InvalidateTokens, InsertToken, RotateVersion,
       ChangePassword, SaveDiff
  <2>2. \A k \in Handlers : k # h => req'[k] = req[k]
    BY <1>5 DEF InsertUser, InvalidateTokens, InsertToken, RotateVersion, ChangePassword,
       SaveDiff, Enter, Step
  <2>3. CASE InsertUser(h) \/ InvalidateTokens(h) \/ InsertToken(h) \/ RotateVersion(h)
    <3>1. req'[h].ok /\ req'[h].at # "burn"
      BY <2>1, <2>3 DEF InsertUser, InvalidateTokens, InsertToken, RotateVersion, Enter, Step,
         Blank, Request
    <3>2. \A t \in TokenIds : ~ ott'[t].expired
      <4>1. CASE InsertUser(h) \/ RotateVersion(h)
        BY <4>1 DEF InsertUser, RotateVersion, CalmInv
      <4>2. CASE InvalidateTokens(h)
        BY <4>2 DEF InvalidateTokens, Invalidated, CalmInv, OneTimeToken
      <4>3. CASE InsertToken(h)
        BY <4>3 DEF InsertToken, CalmInv
      <4>4. QED
        BY <2>3, <4>1, <4>2, <4>3
    <3>3. QED
      BY <1>2, <2>2, <3>1, <3>2 DEF CalmInv
  <2>4. CASE ChangePassword(h) \/ SaveDiff(h)
    <3>1. CASE ChangePassword(h)
      <4>1. req'[h].ok /\ req'[h].at = "save" /\ ott' = ott
        BY <2>1, <3>1 DEF ChangePassword, Enter, Request
      <4>2. QED
        BY <1>2, <2>2, <4>1 DEF CalmInv
    <3>2. CASE SaveDiff(h)
      <4>1. req'[h].ok /\ req'[h].at = "save" /\ ott' = ott
        BY <2>1, <3>2 DEF SaveDiff, Enter, Request
      <4>2. QED
        BY <1>2, <2>2, <4>1 DEF CalmInv
    <3>3. QED
      BY <2>4, <3>1, <3>2
  <2>5. QED
    BY <1>5, <2>3, <2>4
<1>6. ASSUME NEW h \in Handlers,
             \/ Publish(h) \/ BurnToken(h) \/ Login(h) \/ IssueRefreshed(h) \/ Logout(h)
             \/ Abort(h)
      PROVE  CalmInv'
  <2>1. req'[h] = Blank /\ \A k \in Handlers : k # h => req'[k] = req[k]
    BY <1>6 DEF Publish, BurnToken, Login, IssueRefreshed, Logout, Abort, Enter
  <2>2. \A t \in TokenIds : ~ ott'[t].expired
    <3>1. ott' = ott \/ \E q : ott' = [ott EXCEPT ![q].used = TRUE]
      BY <1>6 DEF Publish, BurnToken, Login, IssueRefreshed, Logout, Abort
    <3>2. QED
      BY <3>1 DEF CalmInv, OneTimeToken
  <2>3. QED
    BY <1>2, <2>1, <2>2 DEF CalmInv, Blank
<1>7. ASSUME NEW h \in Handlers, SaveWrite(h) \/ SaveToken(h) PROVE CalmInv'
  <2>1. PICK part : Enter(h, Done(req[h], part))
    BY <1>7 DEF SaveWrite, SaveToken
  <2>2. req[h] \in Request /\ req[h].at = "save" /\ req[h].ok
    BY <1>7 DEF SaveWrite, SaveToken, CalmInv, Calm
  <2>3. PICK r : r = Done(req[h], part)
    OBVIOUS
  <2>4. \/ r = [req[h] EXCEPT !.todo = req[h].todo \ {part}]
        \/ r = [req[h] EXCEPT !.todo = {}, !.at = "publish"]
        \/ r = Blank
    BY <2>2, <2>3, AfterPart
  <2>5. r.ok /\ r.at # "burn"
    <3>1. CASE r = Blank
      BY <3>1 DEF Blank
    <3>2. CASE r # Blank
      <4>1. r.ok = req[h].ok /\ (r.at = "save" \/ r.at = "publish")
        BY <2>2, <2>4, <3>2 DEF Request
      <4>2. QED
        BY <2>2, <4>1
    <3>3. QED
      BY <3>1, <3>2
  <2>6. \A t \in TokenIds : ~ ott'[t].expired
    BY <1>7 DEF SaveWrite, SaveToken, CalmInv, OneTimeToken
  <2>7. QED
    BY <1>2, <2>1, <2>3, <2>5, <2>6 DEF CalmInv, Enter
<1>8. ASSUME NEW h \in Handlers, SaveFails(h) PROVE FALSE
  BY <1>8 DEF SaveFails, NothingFails
<1>9. ASSUME NEW t \in TokenIds, ExpireToken(t) PROVE FALSE
  BY <1>9 DEF ExpireToken, NothingFails
<1>10. CASE UNCHANGED vars
  BY <1>1, <1>10 DEF vars, CalmInv
<1>11. QED
  BY <1>3, <1>4, <1>5, <1>6, <1>7, <1>8, <1>9, <1>10 DEF Next, VerifyEmail, ResetPassword

\* What provides for an account survives a step of slot h that goes on with
\* what the slot was doing and uses up none of the tokens of the account.
LEMMA ProvidedStays ==
    ASSUME TypeInv, TypeInv', AccountInv, [Next]_vars, outbox \subseteq outbox',
           NEW h \in Handlers, \A k \in Handlers : k # h => req'[k] = req[k],
           NEW u \in Users, NEW kind \in {"verify", "reset"}, Provided(u, kind),
           Doing(req[h], u, kind) => Doing(req'[h], u, kind),
           \A t \in Usable(u, kind) : Posting(req[h], t) => \E m \in outbox' : m.token = t,
           \A t \in Usable(u, kind) : ~ ott'[t].used
    PROVE  Provided(u, kind)'
<1>1. CASE Answered(u, kind)
  BY <1>1, AnsweredStays DEF Provided
<1>2. ASSUME NEW k \in Handlers, Doing(req[k], u, kind) PROVE Provided(u, kind)'
  <2>1. Doing(req'[k], u, kind)
    BY <1>2
  <2>2. QED
    BY <2>1 DEF Provided
<1>3. ASSUME NEW t \in Usable(u, kind),
             \/ \E k \in Handlers : Posting(req[k], t)
             \/ \E m \in outbox : m.token = t
      PROVE  Provided(u, kind)'
  <2>1. t \in TokenIds /\ ott[t].kind = kind /\ ott[t].user = u
    BY <1>3 DEF Usable
  <2>2. ott'[t].kind = kind /\ ott'[t].user = u
    BY <2>1, AccountGrows DEF Grows
  <2>3. t \in Usable(u, kind)'
    BY <2>1, <2>2 DEF Usable
  <2>4. \/ \E k \in Handlers : Posting(req'[k], t)
        \/ \E m \in outbox' : m.token = t
    BY <1>3
  <2>5. LinkAbout(u, kind)'
    BY <2>3, <2>4 DEF LinkAbout
  <2>6. QED
    BY <2>5 DEF Provided
<1>4. QED
  BY <1>1, <1>2, <1>3 DEF Provided, LinkAbout

LEMMA ProvidedStep ==
    ASSUME NothingFails, AccountsInv, AccountsInv', CalmInv, ProvidedInv, [Next]_vars
    PROVE  ProvidedInv'
<1> USE DEF AccountsInv, TypeInv, TypeOK
<1>0. SUFFICES ASSUME NEW u \in Users, NEW kind \in {"verify", "reset"}, Owed(u, kind)'
               PROVE  Provided(u, kind)'
  BY DEF ProvidedInv
<1>1. Owed(u, kind) => Provided(u, kind)
  BY DEF ProvidedInv
<1>2. ott' = ott /\ registered' = registered => Owed(u, kind)
  BY <1>0 DEF Owed
<1>3. ASSUME NEW h \in Handlers,
             \/ Register(h) \/ ResendVerification(h) \/ ForgotPassword(h)
             \/ VerifyEmail(h) \/ ResetPassword(h)
             \/ ValidateUser(h) \/ RefreshTokens(h) \/ Authenticate(h)
             \/ Login(h) \/ IssueRefreshed(h) \/ RotateVersion(h) \/ Logout(h)
             \/ ChangePassword(h)
      PROVE  Provided(u, kind)'
  <2>1. /\ UNCHANGED <<ott, registered, outbox>>
        /\ \A k \in Handlers : k # h => req'[k] = req[k]
    BY <1>3 DEF Register, ResendVerification, ForgotPassword, VerifyEmail, ResetPassword, Redeem,
       ValidateUser, RefreshTokens, Authenticate, Login, IssueRefreshed, RotateVersion, Logout,
       ChangePassword, Enter, Step
  <2>2. req[h].at \in {"idle", "issue", "reissue", "rotate", "guarded"}
    BY <1>3 DEF Register, ResendVerification, ForgotPassword, VerifyEmail, ResetPassword, Starts,
       ValidateUser, RefreshTokens, Authenticate, Login, IssueRefreshed, RotateVersion, Logout,
       ChangePassword
  <2>3. ~ Doing(req[h], u, kind) /\ \A t : ~ Posting(req[h], t)
    BY <2>2 DEF Doing, Posting
  <2>4. \A t \in Usable(u, kind) : ~ ott'[t].used
    BY <2>1 DEF Usable
  <2>5. QED
    BY <1>1, <1>2, <2>1, <2>3, <2>4, ProvidedStays
<1>4. ASSUME NEW h \in Handlers, InsertUser(h) PROVE Provided(u, kind)'
  <2>1. /\ req[h] \in Request /\ req[h].at = "insert" /\ req[h].kind = "register"
        /\ ott' = ott /\ outbox' = outbox
        /\ \A k \in Handlers : k # h => req'[k] = req[k]
    BY <1>4 DEF InsertUser, Enter, Step, SlotTyped
  <2>2. CASE Owed(u, kind)
    <3>1. ~ Doing(req[h], u, kind) /\ \A t : ~ Posting(req[h], t)
      BY <2>1 DEF Doing, Posting
    <3>2. \A t \in Usable(u, kind) : ~ ott'[t].used
      BY <2>1 DEF Usable
    <3>3. QED
      BY <1>1, <2>1, <2>2, <3>1, <3>2, ProvidedStays
  <2>3. CASE ~ Owed(u, kind)
    <3>1. kind = "verify" /\ u \in registered' /\ u \notin registered
      BY <1>0, <2>1, <2>3 DEF Owed
    <3>2. req[h].u = u /\ req' = [req EXCEPT ![h].at = "invalidate"]
      BY <1>4, <3>1 DEF InsertUser, Step
    <3>3. req'[h].u = u /\ req'[h].at = "invalidate" /\ req'[h].kind = "register"
      BY <2>1, <3>2 DEF Request
    <3>4. Doing(req'[h], u, kind)
      BY <3>1, <3>3 DEF Doing, TokenKind
    <3>5. QED
      BY <3>4 DEF Provided
  <2>4. QED
    BY <2>2, <2>3
<1>5. ASSUME NEW h \in Handlers, InvalidateTokens(h) PROVE Provided(u, kind)'
  <2>1. /\ req[h] \in Request /\ req[h].at = "invalidate"
        /\ req' = [req EXCEPT ![h].at = "mint"] /\ outbox' = outbox
        /\ registered' = registered /\ ott' = Invalidated(req[h])
    BY <1>5 DEF InvalidateTokens, Step
  <2>2. req'[h].at = "mint" /\ req'[h].u = req[h].u /\ req'[h].kind = req[h].kind
    BY <2>1 DEF Request
  <2>3. CASE u = req[h].u /\ kind = TokenKind(req[h])
    <3>1. Doing(req'[h], u, kind)
      BY <2>2, <2>3 DEF Doing, TokenKind
    <3>2. QED
      BY <3>1 DEF Provided
  <2>4. CASE ~ (u = req[h].u /\ kind = TokenKind(req[h]))
    <3>1. ~ Doing(req[h], u, kind) /\ \A t : ~ Posting(req[h], t)
      BY <2>1, <2>4 DEF Doing, Posting
    <3>2. \A t \in Usable(u, kind) : ~ ott'[t].used
      BY <2>1, <2>4 DEF Usable, Invalidated
    <3>3. \A t \in TokenIds : ott'[t].kind = ott[t].kind /\ ott'[t].user = ott[t].user
      BY <2>1 DEF Invalidated, OneTimeToken
    <3>4. Owed(u, kind)
      BY <1>0, <2>1, <3>3 DEF Owed
    <3>5. QED
      BY <1>1, <2>1, <3>1, <3>2, <3>4, ProvidedStays
  <2>5. QED
    BY <2>3, <2>4
<1>6. ASSUME NEW h \in Handlers, InsertToken(h) PROVE Provided(u, kind)'
  <2>1. /\ req[h] \in Request /\ req[h].at = "mint" /\ req[h].kind # "verify"
        /\ req' = [req EXCEPT ![h].at = "publish", ![h].t = minted + 1]
        /\ outbox' = outbox /\ registered' = registered
    BY <1>6 DEF InsertToken, SlotTyped
  <2>2. minted + 1 \in TokenIds /\ ott[minted + 1].kind = "free"
    BY <1>6, BoundsAssumption DEF InsertToken, AccountInv, TokensSound, TokenIds
  <2>3. /\ ott'[minted + 1].kind = TokenKind(req[h]) /\ ott'[minted + 1].user = req[h].u
        /\ ~ ott'[minted + 1].used
        /\ \A t \in TokenIds : t # minted + 1 => ott'[t] = ott[t]
    BY <1>6, <2>2 DEF InsertToken
  <2>4. CASE u = req[h].u /\ kind = TokenKind(req[h])
    <3>1. minted + 1 \in Usable(u, kind)'
      BY <2>2, <2>3, <2>4 DEF Usable
    <3>2. Posting(req'[h], minted + 1)
      BY <2>1 DEF Posting, Request
    <3>3. LinkAbout(u, kind)'
      BY <3>1, <3>2 DEF LinkAbout
    <3>4. QED
      BY <3>3 DEF Provided
  <2>5. CASE ~ (u = req[h].u /\ kind = TokenKind(req[h]))
    <3>1. ~ Doing(req[h], u, kind) /\ \A t : ~ Posting(req[h], t)
      BY <2>1, <2>5 DEF Doing, Posting
    <3>2. \A t \in Usable(u, kind) : ~ ott'[t].used
      BY <2>2, <2>3 DEF Usable
    <3>3. Owed(u, kind)
      BY <1>0, <2>1, <2>3, <2>5 DEF Owed
    <3>4. QED
      BY <1>1, <2>1, <3>1, <3>2, <3>3, ProvidedStays
  <2>6. QED
    BY <2>4, <2>5
<1>7. ASSUME NEW h \in Handlers, Publish(h) PROVE Provided(u, kind)'
  <2>1. /\ req[h].at = "publish" /\ ott' = ott /\ registered' = registered
        /\ outbox' = outbox \cup {MailOf(req[h])}
        /\ \A k \in Handlers : k # h => req'[k] = req[k]
    BY <1>7 DEF Publish, Enter, NothingFails
  <2>2. ~ Doing(req[h], u, kind)
    BY <2>1 DEF Doing
  <2>3. ASSUME NEW t, Posting(req[h], t) PROVE \E m \in outbox' : m.token = t
    <3>1. MailOf(req[h]).token = t
      BY <2>3 DEF Posting, MailOf
    <3>2. QED
      BY <2>1, <3>1
  <2>4. \A t \in Usable(u, kind) : ~ ott'[t].used
    BY <2>1 DEF Usable
  <2>5. QED
    BY <1>1, <1>2, <2>1, <2>2, <2>3, <2>4, ProvidedStays
<1>8. ASSUME NEW h \in Handlers, BurnToken(h) PROVE Provided(u, kind)'
  <2>1. /\ req[h].at = "burn" /\ registered' = registered /\ outbox' = outbox
        /\ ott' = [ott EXCEPT ![req[h].t].used = TRUE]
        /\ \A k \in Handlers : k # h => req'[k] = req[k]
    BY <1>8 DEF BurnToken, Enter
  <2>2. /\ ott[req[h].t].kind = "verify" /\ ott[req[h].t].user = req[h].u
        /\ users[req[h].u].emailVerified
    BY <2>1 DEF CalmInv, Calm
  <2>3. CASE u = req[h].u /\ kind = "verify"
    <3>1. Answered(u, kind)
      BY <2>2, <2>3 DEF Answered
    <3>2. QED
      BY <3>1, AnsweredStays DEF Provided
  <2>4. CASE ~ (u = req[h].u /\ kind = "verify")
    <3>1. ~ Doing(req[h], u, kind) /\ \A t : ~ Posting(req[h], t)
      BY <2>1 DEF Doing, Posting
    <3>2. \A t \in Usable(u, kind) : t # req[h].t /\ ~ ott'[t].used
      BY <2>1, <2>2, <2>4 DEF Usable
    <3>3. \A t \in TokenIds : ott'[t].kind = ott[t].kind /\ ott'[t].user = ott[t].user
      BY <2>1 DEF OneTimeToken
    <3>4. Owed(u, kind)
      BY <1>0, <2>1, <3>3 DEF Owed
    <3>5. QED
      BY <1>1, <2>1, <3>1, <3>2, <3>4, ProvidedStays
  <2>5. QED
    BY <2>3, <2>4
<1>9. ASSUME NEW h \in Handlers, SaveDiff(h) PROVE Provided(u, kind)'
  <2>1. /\ req[h] \in Request /\ req[h].at = "save"
        /\ UNCHANGED <<ott, registered, outbox>>
        /\ \A k \in Handlers : k # h => req'[k] = req[k]
    BY <1>9 DEF SaveDiff, Enter
  <2>2. req'[h].at = "save" /\ req'[h].u = req[h].u /\ req'[h].kind = req[h].kind
    BY <1>9, <2>1 DEF SaveDiff, Enter, Request
  <2>3. Doing(req[h], u, kind) => Doing(req'[h], u, kind)
    BY <2>1, <2>2 DEF Doing
  <2>4. \A t : ~ Posting(req[h], t)
    BY <2>1 DEF Posting
  <2>5. \A t \in Usable(u, kind) : ~ ott'[t].used
    BY <2>1 DEF Usable
  <2>6. QED
    BY <1>1, <1>2, <2>1, <2>3, <2>4, <2>5, ProvidedStays
<1>10. ASSUME NEW h \in Handlers, SaveWrite(h) PROVE Provided(u, kind)'
  <2>1. /\ req[h].at = "save" /\ UNCHANGED <<ott, registered, outbox>>
        /\ \A k \in Handlers : k # h => req'[k] = req[k]
    BY <1>10 DEF SaveWrite, Enter
  <2>2. CASE u = req[h].u /\ kind = req[h].kind
    BY <1>10, <2>2, WriteAnswers DEF Provided
  <2>3. CASE ~ (u = req[h].u /\ kind = req[h].kind)
    <3>1. ~ Doing(req[h], u, kind) /\ \A t : ~ Posting(req[h], t)
      BY <2>1, <2>3 DEF Doing, Posting
    <3>2. \A t \in Usable(u, kind) : ~ ott'[t].used
      BY <2>1 DEF Usable
    <3>3. QED
      BY <1>1, <1>2, <2>1, <3>1, <3>2, ProvidedStays
  <2>4. QED
    BY <2>2, <2>3
<1>11. ASSUME NEW h \in Handlers, SaveToken(h) PROVE Provided(u, kind)'
  <2>1. /\ req[h] \in Request /\ req[h].at = "save" /\ req[h].kind \in {"verify", "reset"}
        /\ registered' = registered /\ outbox' = outbox
        /\ ott' = [ott EXCEPT ![req[h].t].used = TRUE]
        /\ Enter(h, Done(req[h], "token")) /\ req[h].ok /\ RedeemSound(h)
    BY <1>11 DEF SaveToken, SlotTyped, CalmInv, Calm, RedeemInv
  <2>2. ott[req[h].t].kind = req[h].kind /\ ott[req[h].t].user = req[h].u
    BY <2>1 DEF RedeemSound
  <2>3. \A k \in Handlers : k # h => req'[k] = req[k]
    BY <2>1 DEF Enter
  <2>4. CASE u = req[h].u /\ kind = req[h].kind
    <3>1. CASE req[h].todo \ {"token"} = {}
      <4>1. Answered(u, kind)
        BY <2>1, <2>4, <3>1 DEF RedeemSound
      <4>2. QED
        BY <4>1, AnsweredStays DEF Provided
    <3>2. CASE req[h].todo \ {"token"} # {}
      <4>1. Done(req[h], "token") = [req[h] EXCEPT !.todo = req[h].todo \ {"token"}]
        BY <2>1, <3>2, AfterPart
      <4>2. /\ req'[h].at = "save" /\ req'[h].u = req[h].u /\ req'[h].kind = req[h].kind
        BY <2>1, <4>1 DEF Enter, Request
      <4>3. Doing(req'[h], u, kind)
        BY <2>4, <4>2 DEF Doing
      <4>4. QED
        BY <4>3 DEF Provided
    <3>3. QED
      BY <3>1, <3>2
  <2>5. CASE ~ (u = req[h].u /\ kind = req[h].kind)
    <3>1. ~ Doing(req[h], u, kind) /\ \A t : ~ Posting(req[h], t)
      BY <2>1, <2>5 DEF Doing, Posting
    <3>2. \A t \in Usable(u, kind) : t # req[h].t /\ ~ ott'[t].used
      BY <2>1, <2>2, <2>5 DEF Usable
    <3>3. \A t \in TokenIds : ott'[t].kind = ott[t].kind /\ ott'[t].user = ott[t].user
      BY <2>1 DEF OneTimeToken
    <3>4. Owed(u, kind)
      BY <1>0, <2>1, <3>3 DEF Owed
    <3>5. QED
      BY <1>1, <2>1, <2>3, <3>1, <3>2, <3>4, ProvidedStays
  <2>6. QED
    BY <2>4, <2>5
<1>12. ASSUME NEW h \in Handlers, SaveFails(h) \/ Abort(h) PROVE FALSE
  BY <1>12 DEF SaveFails, Abort, NothingFails
<1>13. ASSUME NEW t \in TokenIds, ExpireToken(t) PROVE FALSE
  BY <1>13 DEF ExpireToken, NothingFails
<1>14. CASE UNCHANGED vars
  <2>1. Provided(u, kind)' <=> Provided(u, kind)
    BY <1>14 DEF vars, Provided, Answered, LinkAbout, Usable
  <2>2. QED
    BY <1>1, <1>2, <1>14, <2>1 DEF vars
<1>15. QED
  BY <1>3, <1>4, <1>5, <1>6, <1>7, <1>8, <1>9, <1>10, <1>11, <1>12, <1>13, <1>14 DEF Next

LEMMA LinkInvariant == NothingFails /\ SystemSpec => [](AccountsInv /\ DeliveryInv /\ LinkInv)
<1>1. SystemInit => LinkInv
  BY LinkInit
<1>2. NothingFails /\ AccountsInv /\ AccountsInv' /\ DeliveryInv /\ DeliveryInv' /\ LinkInv
        /\ [SystemNext]_systemVars => LinkInv'
  <2> SUFFICES ASSUME NothingFails, AccountsInv, AccountsInv', DeliveryInv, DeliveryInv',
                      LinkInv, [SystemNext]_systemVars
               PROVE  LinkInv'
    OBVIOUS
  <2>1. [Next]_vars
    BY SystemStepsServe
  <2>2. CalmInv'
    BY <2>1, CalmStep DEF AccountsInv, LinkInv
  <2>3. Handover'
    BY HandoverStep DEF AccountsInv, DeliveryInv, LinkInv
  <2>4. ProvidedInv'
    BY <2>1, ProvidedStep DEF LinkInv
  <2>5. QED
    BY <2>2, <2>3, <2>4 DEF LinkInv
<1>3. NothingFails => NothingFails'
  BY DEF NothingFails
<1>4. QED
  BY <1>1, <1>2, <1>3, DeliveryInvariant, PTL DEF SystemSpec

\* Once nothing is in flight, a link that is about is in the mailbox.
LEMMA QuietLink ==
    ASSUME AccountsInv, LinkInv, Quiet, NEW u \in Users, NEW kind \in {"verify", "reset"},
           Owed(u, kind), ~ Answered(u, kind)
    PROVE  \E t \in Usable(u, kind) : InMailbox(t)
<1>1. \A h \in Handlers : ~ Doing(req[h], u, kind) /\ \A t : ~ Posting(req[h], t)
  BY DEF Quiet, Doing, Posting
<1>2. LinkAbout(u, kind)
  BY <1>1 DEF LinkInv, ProvidedInv, Provided
<1>3. PICK t \in Usable(u, kind), m \in outbox : m.token = t
  BY <1>1, <1>2 DEF LinkAbout
<1>4. t # 0
  BY BoundsAssumption DEF Usable, TokenIds
<1>5. Carried(t)
  BY <1>3, <1>4 DEF LinkInv, Handover
<1>6. InMailbox(t)
  BY <1>4, <1>5 DEF Quiet, Carried, Pipeline!Working
<1>7. QED
  BY <1>6

\* However registrations, resends, verifications and lost channels interleave,
\* an account that is still pending when all is quiet has a verification link
\* that works in its mailbox, as long as no statement, emit or SMTP call fails.
THEOREM PendingKeepsLink == NothingFails /\ SystemSpec => []PendingHasLiveLink
<1>1. AccountsInv /\ LinkInv => PendingHasLiveLink
  <2> SUFFICES ASSUME AccountsInv, LinkInv, Quiet, NEW u \in Users, Pending(u)
               PROVE  \E t \in Usable(u, "verify") : InMailbox(t)
    BY DEF PendingHasLiveLink
  <2>1. u \in registered /\ ~ users[u].emailVerified
    BY DEF Pending, Status
  <2>2. Owed(u, "verify") /\ ~ Answered(u, "verify")
    BY <2>1 DEF Owed, Answered
  <2>3. QED
    BY <2>2, QuietLink
<1>2. QED
  BY <1>1, LinkInvariant, PTL

\* The same for reset links that nobody has used.
THEOREM ResetKeepsLink == NothingFails /\ SystemSpec => []ResetHasLiveLink
<1>1. AccountsInv /\ LinkInv => ResetHasLiveLink
  <2> SUFFICES ASSUME AccountsInv, LinkInv, Quiet, NEW u \in Users, AskedForReset(u)
               PROVE  \E t \in Usable(u, "reset") : InMailbox(t)
    BY DEF ResetHasLiveLink
  <2>1. Owed(u, "reset")
    BY DEF AskedForReset, Owed
  <2>2. ~ Answered(u, "reset")
    BY DEF AskedForReset, Answered
  <2>3. QED
    BY <2>1, <2>2, QuietLink
<1>2. QED
  BY <1>1, LinkInvariant, PTL
===============================================================================
