---------------------------- MODULE SessionProofs ----------------------------
(***************************************************************************)
(* Theorems about Session for every set of accounts, heads of mosques and  *)
(* roles written by events, and any number of requests and days.           *)
(***************************************************************************)
EXTENDS Session, TLAPS

JobType == [kind : {"login", "name", "claim"},
            at : {"unused", "nonce", "sign", "verify", "insert", "serve", "refresh",
                  "answer", "over"},
            for : Account \cup {Nobody}, signer : Account \cup {Nobody},
            answer : Claims \cup {NoToken}, live : BOOLEAN]

ConnectType == [step : {"connect", "signing", "name", "role", "redirecting"},
                error : BOOLEAN, claiming : BOOLEAN]

UserType == [exists : BOOLEAN, role : Role, named : BOOLEAN]

\* Claims stand for an account whose wallet has signed in, with a role it has a ground for.
Earned(c) == c # NoToken => c.address \in signers /\ HasGround(c.address, c.role)

\* Every request that the service acts on is for an account whose wallet has signed in, and
\* what it answers is earned.
EarnedAnswers ==
  \A j \in Job :
    /\ Earned(job[j].answer)
    /\ job[j].at = "verify" => job[j].signer \in signers
    /\ job[j].at \in {"insert", "serve", "refresh"} => job[j].for \in signers

\* Every row of users has a role with a ground.
GroundedRoles == \A a \in Account : HasGround(a, users[a].role)

\* The inductive invariant.
IInv ==
  /\ TypeOK
  /\ Earned(token) /\ Earned(claims)
  /\ EarnedAnswers
  /\ GroundedRoles
  /\ ShownClaimsAreStored
----------------------------------------------------------------------------
\* TypeOK with the names above, before and after a step.
Types ==
  /\ account \in Account \cup {Nobody}
  /\ token \in Claims \cup {NoToken}
  /\ outside \in BOOLEAN
  /\ day \in 0..MaxDay
  /\ page \in Page /\ going \in Page
  /\ claims \in Claims \cup {NoToken}
  /\ connect \in ConnectType
  /\ job \in [Job -> JobType]
  /\ leaving \in BOOLEAN
  /\ nonces \subseteq Job
  /\ users \in [Account -> UserType]
  /\ roleEvents \in 0..MaxRoleEvents
  /\ signers \subseteq Account

LEMMA TypesByName == (TypeOK <=> Types) /\ (TypeOK' <=> Types')
BY DEF TypeOK, Types, ConnectType, JobType, UserType

\* What the small records are.
LEMMA RecordTypes ==
  /\ NewConnect \in ConnectType
  /\ NoJob \in JobType
  /\ NoUser \in UserType
BY DEF NewConnect, ConnectType, NoJob, JobType, NoUser, UserType, Role

LEMMA PartTypes ==
  ASSUME TypeOK, NEW j \in Job
  PROVE  /\ job[j] \in JobType
         /\ job[j].for \in Account \cup {Nobody} /\ job[j].signer \in Account \cup {Nobody}
         /\ job[j].answer \in Claims \cup {NoToken} /\ job[j].live \in BOOLEAN
         /\ job[j].kind \in {"login", "name", "claim"}
BY TypesByName DEF Types, JobType

LEMMA RedirectType == \A role : RoleRedirect(role) \in Page
BY DEF RoleRedirect, Page

LEMMA ClaimsType ==
  ASSUME NEW t \in Claims \cup {NoToken}
  PROVE  GetClaims(t) \in Claims \cup {NoToken}
BY DEF GetClaims

LEMMA StoreType ==
  ASSUME NEW t \in Claims \cup {NoToken}, Store(t)
  PROVE  /\ token' \in Claims \cup {NoToken} /\ claims' \in Claims \cup {NoToken}
         /\ outside' \in BOOLEAN
BY ClaimsType DEF Store

LEMMA JWTType ==
  ASSUME TypeOK, NEW a \in Account, NEW user \in UserType
  PROVE  IssueJWT(a, user) \in Claims
<1>1. user.role \in Role /\ user.named \in BOOLEAN
  BY DEF UserType
<1>2. day \in Nat
  BY SessionAssumption DEF TypeOK
<1>. QED  BY <1>1, <1>2 DEF IssueJWT, Claims

LEMMA SendType ==
  ASSUME TypeOK, NEW kind \in {"login", "name", "claim"}, NEW at \in {"nonce", "serve"},
         NEW a \in Account, Send(kind, at, a)
  PROVE  job' \in [Job -> JobType]
<1>1. PICK j \in Job :
        job' = [job EXCEPT ![j] = [NoJob EXCEPT !.kind = kind, !.at = at, !.for = a,
                                                !.live = TRUE]]
  BY DEF Send
<1>. DEFINE new == [NoJob EXCEPT !.kind = kind, !.at = at, !.for = a, !.live = TRUE]
<1>2. new \in JobType
  BY RecordTypes DEF JobType, NoJob
<1>3. job \in [Job -> JobType] /\ job' = [job EXCEPT ![j] = new]
  BY <1>1, TypesByName DEF Types
<1>. HIDE DEF new
<1>. QED  BY <1>2, <1>3

LEMMA EndedType ==
  ASSUME TypeOK, NEW j \in Job, Ended(j), nonces' \subseteq Job
  PROVE  TypeOK'
<1>1. [NoJob EXCEPT !.at = "over"] \in JobType
  BY RecordTypes DEF JobType, NoJob
<1>. DEFINE over == [NoJob EXCEPT !.at = "over"]
<1>2. job' = [job EXCEPT ![j] = over]
  BY DEF Ended
<1>. HIDE DEF over
<1>3. job' \in [Job -> JobType]
  BY <1>1, <1>2, TypesByName DEF Types, over
<1>4. connect' \in ConnectType
  BY TypesByName DEF Types, Ended, ConnectType
<1>. QED  BY <1>3, <1>4, TypesByName DEF Ended, Types

LEMMA ProceedType ==
  ASSUME TypeOK, NEW j \in Job, NEW c \in Claims, Proceed(j, c)
  PROVE  connect' \in ConnectType /\ going' \in Page
<1>1. connect \in ConnectType /\ going \in Page
  BY TypesByName DEF Types
<1>. QED  BY <1>1, RedirectType DEF Proceed, ConnectType
----------------------------------------------------------------------------
\* Steps of browser, router and chain are well typed.
LEMMA AroundTypeOK ==
  ASSUME TypeOK,
         \/ DayPasses \/ OtherTabLogsOut \/ Navigate \/ GuardRedirects \/ Logout
         \/ Disconnected \/ TryAgain \/ SelectGuest
         \/ \E a \in Account \cup {Nobody} : ChangeWallet(a)
         \/ \E a \in Account, role \in Role : RoleEvent(a, role)
         \/ \E p \in Page : Follow(p) \/ OpenUrl(p)
         \/ \E j \in Job : NonceLost(j)
  PROVE  TypeOK'
<1>. SUFFICES ASSUME Types PROVE Types'
  BY TypesByName
<1>. USE DEF Types
<1>1. CASE DayPasses
  BY <1>1, SessionAssumption DEF DayPasses, serviceVars
<1>2. CASE OtherTabLogsOut
  BY <1>2 DEF OtherTabLogsOut, serviceVars
<1>3. CASE Navigate
  <2>1. job' \in [Job -> JobType]
    BY <1>3 DEF Navigate, Abandoned, JobType
  <2>2. going' \in Page /\ page' \in Page
    BY <1>3, RedirectType DEF Navigate
  <2>3. token' \in Claims \cup {NoToken} /\ claims' \in Claims \cup {NoToken}
    BY <1>3, ClaimsType DEF Navigate
  <2>. QED  BY <1>3, <2>1, <2>2, <2>3, RecordTypes DEF Navigate, serviceVars
<1>4. CASE GuardRedirects
  BY <1>4 DEF GuardRedirects, serviceVars, Page
<1>5. CASE Logout
  BY <1>5, StoreType DEF Logout, serviceVars, Page
<1>6. CASE Disconnected
  BY <1>6 DEF Disconnected, serviceVars
<1>7. CASE TryAgain
  BY <1>7 DEF TryAgain, serviceVars, ConnectType
<1>8. CASE SelectGuest
  BY <1>8 DEF SelectGuest, serviceVars, ConnectType
<1>9. ASSUME NEW a \in Account \cup {Nobody}, ChangeWallet(a) PROVE Types'
  BY <1>9 DEF ChangeWallet, serviceVars
<1>10. ASSUME NEW a \in Account, NEW role \in Role, RoleEvent(a, role) PROVE Types'
  <2>1. [exists |-> TRUE, role |-> role, named |-> FALSE] \in UserType
    BY DEF UserType
  <2>2. roleEvents' \in 0..MaxRoleEvents
    BY <1>10, SessionAssumption DEF RoleEvent
  <2>. QED  BY <1>10, <2>1, <2>2 DEF RoleEvent, browserVars
<1>11. ASSUME NEW p \in Page, Follow(p) PROVE Types'
  BY <1>11 DEF Follow, serviceVars
<1>12. ASSUME NEW p \in Page, OpenUrl(p) PROVE Types'
  <2>1. NoJob \in JobType /\ [NoJob EXCEPT !.at = "over"] \in JobType
    BY RecordTypes DEF JobType, NoJob
  <2>2. job' \in [Job -> JobType]
    BY <1>12, <2>1 DEF OpenUrl
  <2>3. going' \in Page
    BY <1>12, RedirectType DEF OpenUrl
  <2>4. token' \in Claims \cup {NoToken} /\ claims' \in Claims \cup {NoToken}
    BY <1>12, ClaimsType DEF OpenUrl
  <2>. QED  BY <1>12, <2>2, <2>3, <2>4, RecordTypes DEF OpenUrl, serviceVars
<1>13. ASSUME NEW j \in Job, NonceLost(j) PROVE Types'
  BY <1>13 DEF NonceLost, browserVars
<1>. QED
  BY <1>1, <1>2, <1>3, <1>4, <1>5, <1>6, <1>7, <1>8, <1>9, <1>10, <1>11, <1>12, <1>13

\* Effects and clicks of the connect page are well typed.
LEMMA ConnectTypeOK ==
  ASSUME TypeOK, ConnectEffect \/ SelectBoard \/ SubmitName
  PROVE  TypeOK'
<1>. SUFFICES ASSUME Types PROVE Types'
  BY TypesByName
<1>. USE DEF Types
<1>1. CASE ConnectEffect
  <2>1. account \in Account
    BY <1>1 DEF ConnectEffect
  <2>2. token' \in Claims \cup {NoToken}
    BY <1>1, ClaimsType DEF ConnectEffect
  <2>3. job' \in [Job -> JobType]
    <3>1. UNCHANGED job \/ Send("login", "nonce", account)
      BY <1>1 DEF ConnectEffect
    <3>. QED  BY <2>1, <3>1, SendType
  <2>4. connect' \in ConnectType /\ going' \in Page
    BY <1>1, RedirectType DEF ConnectEffect, ConnectType
  <2>. QED  BY <1>1, <2>2, <2>3, <2>4 DEF ConnectEffect, serviceVars
<1>2. ASSUME IsTokenValid(token) PROVE token.address \in Account
  BY <1>2 DEF IsTokenValid, Claims
<1>3. CASE SelectBoard
  <2>1. job' \in [Job -> JobType]
    BY <1>2, <1>3, SendType DEF SelectBoard
  <2>. QED  BY <1>3, <2>1 DEF SelectBoard, serviceVars, ConnectType
<1>4. CASE SubmitName
  <2>1. job' \in [Job -> JobType]
    BY <1>2, <1>4, SendType DEF SubmitName
  <2>. QED  BY <1>4, <2>1 DEF SubmitName, browserVars, serviceVars
<1>. QED  BY <1>1, <1>3, <1>4

\* The service's steps, the wallet's answers and what they bring are well typed.
LEMMA RequestTypeOK ==
  ASSUME TypeOK, EarnedAnswers, NEW j \in Job,
         JobStep(j) \/ Sign(j) \/ RefuseToSign(j)
  PROVE  TypeOK'
<1>. SUFFICES ASSUME Types PROVE Types'
  BY TypesByName
<1>. USE DEF Types
<1>1. job[j] \in JobType
  OBVIOUS
<1>2. CASE GenerateNonce(j)
  <2>1. [job[j] EXCEPT !.at = "sign"] \in JobType
    BY <1>1 DEF JobType
  <2>. QED  BY <1>2, <2>1 DEF GenerateNonce, browserVars
<1>3. CASE VerifyAndLogin(j)
  <2>. DEFINE a == job[j].for
  <2>1. nonces' \subseteq Job
    BY <1>3 DEF VerifyAndLogin
  <2>2. CASE ~SignatureMatches(j)
    BY <1>3, <2>1, <2>2, EndedType, TypesByName DEF VerifyAndLogin
  <2>3. CASE SignatureMatches(j)
    <3>1. a \in Account
      BY <1>3, <2>3 DEF VerifyAndLogin, SignatureMatches, EarnedAnswers
    <3>. DEFINE stage  == IF users[a].exists THEN "answer" ELSE "insert"
                answer == IF users[a].exists THEN IssueJWT(a, users[a]) ELSE NoToken
                next   == [job[j] EXCEPT !.at = stage, !.answer = answer]
    <3>2. answer \in Claims \cup {NoToken}
      BY <3>1, JWTType
    <3>3. next \in JobType
      <4>. HIDE DEF answer
      <4>. QED  BY <1>1, <3>2 DEF JobType
    <3>4. job' = [job EXCEPT ![j] = next]
      BY <1>3, <2>3 DEF VerifyAndLogin
    <3>. HIDE DEF next
    <3>. QED  BY <1>3, <2>1, <2>3, <3>3, <3>4 DEF VerifyAndLogin, browserVars
  <2>. QED  BY <2>2, <2>3
<1>4. ASSUME NEW user \in UserType, job[j].for \in Account,
             job' = [job EXCEPT ![j].at = "answer",
                                ![j].answer = IssueJWT(job[j].for, user)]
      PROVE  job' \in [Job -> JobType]
  <2>. DEFINE jwt == IssueJWT(job[j].for, user)
  <2>1. jwt \in Claims
    BY <1>4, JWTType
  <2>. HIDE DEF jwt
  <2>2. [job[j] EXCEPT !.at = "answer", !.answer = jwt] \in JobType
    BY <1>1, <2>1 DEF JobType
  <2>. QED  BY <1>4, <2>2 DEF jwt
<1>5. ASSUME job[j].at \in {"insert", "serve", "refresh"} PROVE job[j].for \in Account
  BY <1>5 DEF EarnedAnswers
<1>6. CASE InsertUser(j)
  <2>. DEFINE user == [NoUser EXCEPT !.exists = TRUE]
  <2>1. user \in UserType
    BY DEF UserType, NoUser, Role
  <2>2. job' \in [Job -> JobType]
    BY <1>4, <1>5, <1>6, <2>1 DEF InsertUser
  <2>. QED  BY <1>6, <2>1, <2>2 DEF InsertUser, browserVars
<1>7. CASE ServeClaim(j) \/ ServeName(j)
  <2>1. job[j].for \in Account /\ "board" \in Role
    BY <1>5, <1>7 DEF ServeClaim, ServeName, Role
  <2>2. \/ users' = [users EXCEPT ![job[j].for].role = "board"]
        \/ users' = [users EXCEPT ![job[j].for].named = TRUE]
    BY <1>7 DEF ServeClaim, ServeName
  <2>3. users' \in [Account -> UserType]
    BY <2>1, <2>2 DEF UserType
  <2>4. [job[j] EXCEPT !.at = "refresh"] \in JobType
    BY <1>1 DEF JobType
  <2>5. job' \in [Job -> JobType]
    BY <1>7, <2>4 DEF ServeClaim, ServeName
  <2>. QED  BY <1>7, <2>3, <2>5 DEF ServeClaim, ServeName, browserVars
<1>8. CASE RefreshToken(j)
  <2>1. users[job[j].for] \in UserType
    BY <1>5, <1>8 DEF RefreshToken
  <2>2. job' \in [Job -> JobType]
    BY <1>4, <1>5, <1>8, <2>1 DEF RefreshToken
  <2>. QED  BY <1>8, <2>2 DEF RefreshToken, browserVars, serviceVars
<1>9. CASE Answered(j)
  <2>. DEFINE c == job[j].answer
  <2>1. c \in Claims
    BY <1>9, PartTypes, TypesByName DEF Answered
  <2>2. [NoJob EXCEPT !.at = "over"] \in JobType
    BY RecordTypes DEF JobType, NoJob
  <2>3. job' \in [Job -> JobType]
    BY <1>9, <2>2 DEF Answered
  <2>4. connect' \in ConnectType /\ going' \in Page
    BY <1>9, <2>1, ProceedType, TypesByName DEF Answered
  <2>5. Store(c)
    BY <1>9 DEF Answered
  <2>. HIDE DEF c
  <2>6. /\ token' \in Claims \cup {NoToken} /\ claims' \in Claims \cup {NoToken}
        /\ outside' \in BOOLEAN
    BY <2>1, <2>5, StoreType
  <2>. QED  BY <1>9, <2>3, <2>4, <2>6 DEF Answered, serviceVars
<1>10. CASE Fails(j) \/ RefuseToSign(j)
  BY <1>10, EndedType, TypesByName DEF Fails, RefuseToSign
<1>11. CASE Sign(j)
  <2>1. account \in Account
    BY <1>11 DEF Sign
  <2>2. [job[j] EXCEPT !.at = "verify", !.signer = account] \in JobType
    BY <1>1, <2>1 DEF JobType
  <2>. QED  BY <1>11, <2>1, <2>2 DEF Sign, browserVars, serviceVars
<1>. QED
  BY <1>2, <1>3, <1>6, <1>7, <1>8, <1>9, <1>10, <1>11 DEF JobStep

LEMMA NextTypeOK ==
  ASSUME TypeOK, EarnedAnswers, Next
  PROVE  TypeOK'
BY AroundTypeOK, ConnectTypeOK, RequestTypeOK DEF Next, PageStep
----------------------------------------------------------------------------
\* The token, what the page shows, what requests bring, and the rows of users are earned.
AllEarned == Earned(token) /\ Earned(claims) /\ EarnedAnswers /\ GroundedRoles

\* What has been earned stays so: nobody's signature is taken back.
LEMMA EarnedStays ==
  ASSUME NEW c, Earned(c), signers \subseteq signers'
  PROVE  c # NoToken => c.address \in signers' /\ HasGround(c.address, c.role)
BY DEF Earned

\* What is read from localStorage is what is there, or nothing.
LEMMA ReadIsEarned ==
  ASSUME NEW t, Earned(t)
  PROVE  Earned(GetClaims(t)) /\ Earned(NoToken)
BY DEF GetClaims, Earned

\* A token stored, and what the page then shows of it, are earned if it is.
LEMMA StoreEarned ==
  ASSUME NEW t, Earned(t), UNCHANGED signers, Store(t)
  PROVE  Earned(token)' /\ Earned(claims)'
<1>1. Earned(GetClaims(t)) /\ Earned(NoToken)
  BY ReadIsEarned
<1>. QED  BY <1>1 DEF Store, Earned

\* Steps of browser, router and chain bring nobody a role without a ground.
LEMMA AroundEarned ==
  ASSUME TypeOK, AllEarned,
         \/ DayPasses \/ OtherTabLogsOut \/ Navigate \/ GuardRedirects \/ Logout
         \/ Disconnected \/ TryAgain \/ SelectGuest
         \/ \E a \in Account \cup {Nobody} : ChangeWallet(a)
         \/ \E a \in Account, role \in Role : RoleEvent(a, role)
         \/ \E p \in Page : Follow(p) \/ OpenUrl(p)
         \/ \E j \in Job : NonceLost(j)
  PROVE  AllEarned'
<1>. SUFFICES ASSUME Types PROVE AllEarned'
  BY TypesByName
<1>. USE DEF AllEarned, Types
<1>1. ASSUME UNCHANGED <<token, claims, job, users, signers>> PROVE AllEarned'
  BY <1>1 DEF Earned, EarnedAnswers, GroundedRoles
<1>2. CASE \/ DayPasses \/ GuardRedirects \/ Disconnected \/ TryAgain \/ SelectGuest
           \/ \E a \in Account \cup {Nobody} : ChangeWallet(a)
           \/ \E p \in Page : Follow(p)
           \/ \E j \in Job : NonceLost(j)
  BY <1>1, <1>2
     DEF DayPasses, GuardRedirects, Disconnected, TryAgain, SelectGuest, ChangeWallet, Follow,
         NonceLost, browserVars, serviceVars
<1>3. CASE OtherTabLogsOut
  BY <1>3 DEF OtherTabLogsOut, serviceVars, Earned, EarnedAnswers, GroundedRoles
<1>4. CASE Logout
  <2>1. Earned(NoToken) /\ Store(NoToken) /\ UNCHANGED <<job, users, signers>>
    BY <1>4 DEF Logout, serviceVars, Earned
  <2>2. Earned(token)' /\ Earned(claims)'
    BY <2>1, StoreEarned
  <2>. QED  BY <2>1, <2>2 DEF EarnedAnswers, GroundedRoles, Earned
<1>5. Earned(GetClaims(token)) /\ Earned(NoToken)
  BY ReadIsEarned
<1>6. CASE Navigate
  <2>1. UNCHANGED <<users, signers>>
    BY <1>6 DEF Navigate, serviceVars
  <2>2. \A j \in Job : /\ job'[j].answer = job[j].answer /\ job'[j].for = job[j].for
                       /\ job'[j].signer = job[j].signer /\ job'[j].at = job[j].at
    BY <1>6 DEF Navigate, Abandoned, JobType
  <2>3. token' = GetClaims(token) /\ claims' \in {GetClaims(token), NoToken}
    BY <1>6 DEF Navigate
  <2>4. Earned(token)' /\ Earned(claims)'
    BY <1>5, <2>1, <2>3 DEF Earned
  <2>. QED  BY <2>1, <2>2, <2>4 DEF EarnedAnswers, GroundedRoles, Earned
<1>7. ASSUME NEW p \in Page, OpenUrl(p) PROVE AllEarned'
  <2>1. UNCHANGED <<users, signers>>
    BY <1>7 DEF OpenUrl, serviceVars
  <2>2. \A j \in Job : job'[j].answer = NoToken /\ job'[j].at \in {"unused", "over"}
    BY <1>7 DEF OpenUrl, NoJob
  <2>3. token' = GetClaims(token) /\ claims' \in {GetClaims(token), NoToken}
    BY <1>7 DEF OpenUrl
  <2>4. Earned(token)' /\ Earned(claims)'
    BY <1>5, <2>1, <2>3 DEF Earned
  <2>. QED  BY <2>1, <2>2, <2>4 DEF EarnedAnswers, GroundedRoles, Earned
<1>8. ASSUME NEW a \in Account, NEW role \in Role, RoleEvent(a, role) PROVE AllEarned'
  <2>1. UNCHANGED <<token, claims, job, signers>>
    BY <1>8 DEF RoleEvent, browserVars
  <2>2. HasGround(a, role)
    BY <1>8 DEF RoleEvent, HasGround
  <2>3. \A b \in Account : users'[b].role = IF b = a THEN role ELSE users[b].role
    BY <1>8 DEF RoleEvent
  <2>4. GroundedRoles'
    BY <2>2, <2>3 DEF GroundedRoles, HasGround
  <2>. QED  BY <2>1, <2>4 DEF EarnedAnswers, Earned
<1>. QED  BY <1>2, <1>3, <1>4, <1>6, <1>7, <1>8

\* A request sent carries nothing that was not earned.
LEMMA ConnectEarned ==
  ASSUME TypeOK, AllEarned, ConnectEffect \/ SelectBoard \/ SubmitName
  PROVE  AllEarned'
<1>. SUFFICES ASSUME Types PROVE AllEarned'
  BY TypesByName
<1>. USE DEF AllEarned, Types
<1>1. ASSUME NEW kind, NEW at, NEW a, Send(kind, at, a), UNCHANGED signers,
             at # "verify",
             at \in {"insert", "serve", "refresh"} => a \in signers
      PROVE  EarnedAnswers'
  <2>1. PICK j \in Job :
          job' = [job EXCEPT ![j] = [NoJob EXCEPT !.kind = kind, !.at = at, !.for = a,
                                                  !.live = TRUE]]
    BY <1>1 DEF Send
  <2>2. job'[j].answer = NoToken /\ job'[j].at = at /\ job'[j].for = a
    BY <2>1 DEF NoJob
  <2>3. \A i \in Job \ {j} : job'[i] = job[i]
    BY <2>1
  <2>. QED  BY <1>1, <2>2, <2>3 DEF EarnedAnswers, Earned
<1>2. CASE ConnectEffect
  <2>1. UNCHANGED <<claims, users, signers>> /\ token' = GetClaims(token)
    BY <1>2 DEF ConnectEffect, serviceVars
  <2>2. Earned(token)'
    BY <2>1, ReadIsEarned DEF Earned
  <2>3. UNCHANGED job \/ Send("login", "nonce", account)
    BY <1>2 DEF ConnectEffect
  <2>4. EarnedAnswers'
    BY <1>1, <2>1, <2>3 DEF EarnedAnswers, Earned
  <2>. QED  BY <2>1, <2>2, <2>4 DEF GroundedRoles, Earned
<1>3. CASE SelectBoard \/ SubmitName
  <2>1. UNCHANGED <<token, claims, users, signers>>
    BY <1>3 DEF SelectBoard, SubmitName, browserVars, serviceVars
  <2>2. token.address \in signers
    BY <1>3 DEF SelectBoard, SubmitName, IsTokenValid, Earned
  <2>3. \E kind \in {"claim", "name"} : Send(kind, "serve", token.address)
    BY <1>3 DEF SelectBoard, SubmitName
  <2>4. EarnedAnswers'
    BY <1>1, <2>1, <2>2, <2>3
  <2>. QED  BY <2>1, <2>4 DEF GroundedRoles, Earned
<1>. QED  BY <1>2, <1>3

\* The service answers with the claims of an account whose wallet has signed, in the role
\* of its row, and writes into that row a role it has a ground for.
LEMMA RequestEarned ==
  ASSUME TypeOK, AllEarned, NEW j \in Job,
         JobStep(j) \/ Sign(j) \/ RefuseToSign(j)
  PROVE  AllEarned'
<1>. SUFFICES ASSUME Types PROVE AllEarned'
  BY TypesByName
<1>. USE DEF AllEarned, Types
<1>1. ASSUME \A i \in Job \ {j} : job'[i] = job[i], UNCHANGED signers,
             Earned(job'[j].answer), job'[j].at # "verify",
             job'[j].at \in {"insert", "serve", "refresh"} => job'[j].for \in signers
      PROVE  EarnedAnswers'
  BY <1>1 DEF EarnedAnswers, Earned
<1>2. Earned(NoToken) /\ NoJob.answer = NoToken
  BY DEF Earned, NoJob
<1>3. ASSUME Ended(j)
      PROVE  AllEarned'
  <2>1. UNCHANGED <<token, claims, users, signers>>
    BY <1>3 DEF Ended
  <2>2. job'[j].answer = NoToken /\ job'[j].at = "over"
        /\ \A i \in Job \ {j} : job'[i] = job[i]
    BY <1>3 DEF Ended, NoJob
  <2>3. EarnedAnswers'
    BY <1>1, <1>2, <2>1, <2>2
  <2>. QED  BY <2>1, <2>3 DEF GroundedRoles, Earned
<1>4. CASE GenerateNonce(j)
  <2>1. UNCHANGED <<token, claims, users, signers>>
    BY <1>4 DEF GenerateNonce, browserVars
  <2>2. job'[j].answer = job[j].answer /\ job'[j].at = "sign"
        /\ \A i \in Job \ {j} : job'[i] = job[i]
    BY <1>4 DEF GenerateNonce, JobType
  <2>3. EarnedAnswers'
    BY <1>1, <2>1, <2>2 DEF EarnedAnswers
  <2>. QED  BY <2>1, <2>3 DEF GroundedRoles, Earned
<1>5. ASSUME NEW a, NEW user, user.role \in Role, a \in signers, HasGround(a, user.role)
      PROVE  Earned(IssueJWT(a, user))
  BY <1>5 DEF Earned, IssueJWT
<1>6. CASE VerifyAndLogin(j)
  <2>. DEFINE a == job[j].for
  <2>1. CASE ~SignatureMatches(j)
    BY <1>3, <1>6, <2>1 DEF VerifyAndLogin
  <2>2. CASE SignatureMatches(j)
    <3>1. a \in signers /\ a \in Account
      BY <1>6, <2>2 DEF VerifyAndLogin, SignatureMatches, EarnedAnswers
    <3>2. UNCHANGED <<token, claims, users, signers>>
      BY <1>6, <2>2 DEF VerifyAndLogin, browserVars
    <3>3. Earned(IssueJWT(a, users[a]))
      BY <1>5, <3>1 DEF GroundedRoles, UserType
    <3>4. /\ job'[j].at \in {"answer", "insert"} /\ job'[j].for = a
          /\ job'[j].answer \in {IssueJWT(a, users[a]), NoToken}
          /\ \A i \in Job \ {j} : job'[i] = job[i]
      BY <1>6, <2>2 DEF VerifyAndLogin, JobType
    <3>5. EarnedAnswers'
      BY <1>1, <1>2, <3>1, <3>2, <3>3, <3>4
    <3>. QED  BY <3>2, <3>5 DEF GroundedRoles, Earned
  <2>. QED  BY <2>1, <2>2
<1>7. CASE InsertUser(j)
  <2>. DEFINE a == job[j].for
              user == [NoUser EXCEPT !.exists = TRUE]
  <2>1. a \in signers /\ a \in Account
    BY <1>7 DEF InsertUser, EarnedAnswers
  <2>2. user.role \in Role /\ HasGround(a, user.role)
    BY DEF NoUser, HasGround, Role
  <2>3. /\ users' = [users EXCEPT ![a] = user]
        /\ job' = [job EXCEPT ![j].at = "answer", ![j].answer = IssueJWT(a, user)]
        /\ UNCHANGED <<token, claims, signers>>
    BY <1>7 DEF InsertUser, browserVars
  <2>. HIDE DEF user
  <2>4. Earned(IssueJWT(a, user))
    BY <1>5, <2>1, <2>2
  <2>5. job'[j].answer = IssueJWT(a, user) /\ job'[j].at = "answer"
        /\ \A i \in Job \ {j} : job'[i] = job[i]
    BY <2>3 DEF JobType
  <2>6. EarnedAnswers'
    BY <1>1, <2>3, <2>4, <2>5
  <2>7. GroundedRoles'
    BY <2>1, <2>2, <2>3 DEF GroundedRoles, HasGround
  <2>. QED  BY <2>3, <2>6, <2>7 DEF Earned
<1>8. ASSUME job[j].at = "serve", job' = [job EXCEPT ![j].at = "refresh"], UNCHANGED signers
      PROVE  EarnedAnswers'
  <2>1. job[j].for \in signers /\ Earned(job[j].answer)
    BY <1>8 DEF EarnedAnswers
  <2>2. /\ job'[j].answer = job[j].answer /\ job'[j].at = "refresh"
        /\ job'[j].for = job[j].for
        /\ \A i \in Job \ {j} : job'[i] = job[i]
    BY <1>8 DEF JobType
  <2>. QED  BY <1>1, <1>8, <2>1, <2>2
<1>9. CASE ServeClaim(j)
  <2>. DEFINE a == job[j].for
  <2>1. a \in Account /\ HasGround(a, "board")
    BY <1>9 DEF ServeClaim, EarnedAnswers, IsHead, HasGround
  <2>2. users' = [users EXCEPT ![a].role = "board"] /\ UNCHANGED <<token, claims, signers>>
    BY <1>9 DEF ServeClaim, browserVars
  <2>3. \A b \in Account : users'[b].role = IF b = a THEN "board" ELSE users[b].role
    BY <2>1, <2>2 DEF UserType
  <2>4. GroundedRoles'
    BY <2>1, <2>3 DEF GroundedRoles, HasGround
  <2>5. EarnedAnswers'
    BY <1>8, <1>9 DEF ServeClaim
  <2>. QED  BY <2>2, <2>4, <2>5 DEF Earned
<1>10. CASE ServeName(j)
  <2>. DEFINE a == job[j].for
  <2>1. users' = [users EXCEPT ![a].named = TRUE] /\ UNCHANGED <<token, claims, signers>>
    BY <1>10 DEF ServeName, browserVars
  <2>2. \A b \in Account : users'[b].role = users[b].role
    BY <2>1 DEF UserType
  <2>3. GroundedRoles'
    BY <2>2 DEF GroundedRoles, HasGround
  <2>4. EarnedAnswers'
    BY <1>8, <1>10 DEF ServeName
  <2>. QED  BY <2>1, <2>3, <2>4 DEF Earned
<1>14. CASE RefreshToken(j)
  <2>. DEFINE a == job[j].for
  <2>1. a \in signers /\ a \in Account
    BY <1>14 DEF RefreshToken, EarnedAnswers
  <2>2. UNCHANGED <<token, claims, users, signers>>
    BY <1>14 DEF RefreshToken, browserVars, serviceVars
  <2>3. Earned(IssueJWT(a, users[a]))
    BY <1>5, <2>1 DEF GroundedRoles, UserType
  <2>4. job'[j].answer = IssueJWT(a, users[a]) /\ job'[j].at = "answer"
        /\ \A i \in Job \ {j} : job'[i] = job[i]
    BY <1>14 DEF RefreshToken, JobType
  <2>5. EarnedAnswers'
    BY <1>1, <2>2, <2>3, <2>4
  <2>. QED  BY <2>2, <2>5 DEF GroundedRoles, Earned
<1>11. CASE Answered(j)
  <2>1. Earned(job[j].answer) /\ Store(job[j].answer) /\ UNCHANGED <<users, signers>>
    BY <1>11 DEF Answered, EarnedAnswers, serviceVars
  <2>2. Earned(token)' /\ Earned(claims)'
    BY <2>1, StoreEarned
  <2>3. job'[j].answer = NoToken /\ job'[j].at = "over"
        /\ \A i \in Job \ {j} : job'[i] = job[i]
    BY <1>11 DEF Answered, NoJob
  <2>4. EarnedAnswers'
    BY <1>1, <1>2, <2>1, <2>3
  <2>. QED  BY <2>1, <2>2, <2>4 DEF GroundedRoles
<1>12. CASE Fails(j) \/ RefuseToSign(j)
  BY <1>3, <1>12 DEF Fails, RefuseToSign
<1>13. CASE Sign(j)
  <2>1. UNCHANGED <<token, claims, users>> /\ signers' = signers \cup {account}
    BY <1>13 DEF Sign, browserVars, serviceVars
  <2>2. /\ job'[j].answer = job[j].answer /\ job'[j].at = "verify"
        /\ job'[j].signer = account /\ \A i \in Job \ {j} : job'[i] = job[i]
    BY <1>13 DEF Sign, JobType
  <2>. QED  BY <2>1, <2>2 DEF EarnedAnswers, GroundedRoles, Earned
<1>. QED
  BY <1>4, <1>6, <1>7, <1>9, <1>10, <1>11, <1>12, <1>13, <1>14 DEF JobStep

LEMMA NextEarned ==
  ASSUME TypeOK, AllEarned, Next
  PROVE  AllEarned'
BY AroundEarned, ConnectEarned, RequestEarned DEF Next, PageStep
----------------------------------------------------------------------------
\* No step leaves the claims of a page behind the token, unless another tab takes it.
LEMMA NextShown ==
  ASSUME TypeOK, ShownClaimsAreStored, Next
  PROVE  ShownClaimsAreStored'
<1>. USE DEF ShownClaimsAreStored
<1>1. ASSUME UNCHANGED <<page, outside, claims, token>> PROVE ShownClaimsAreStored'
  BY <1>1
<1>2. ASSUME NEW t, Store(t), UNCHANGED page PROVE ShownClaimsAreStored'
  BY <1>2 DEF Store
<1>3. CASE Navigate \/ (\E p \in Page : OpenUrl(p)) \/ OtherTabLogsOut \/ ConnectEffect
  BY <1>3 DEF Navigate, OpenUrl, OtherTabLogsOut, ConnectEffect
<1>4. CASE Logout \/ \E j \in Job : Answered(j)
  BY <1>2, <1>4 DEF Logout, Answered
<1>5. CASE \/ GuardRedirects \/ Disconnected \/ TryAgain \/ SelectGuest \/ SelectBoard
           \/ SubmitName \/ DayPasses
           \/ \E a \in Account \cup {Nobody} : ChangeWallet(a)
           \/ \E a \in Account, role \in Role : RoleEvent(a, role)
           \/ \E p \in Page : Follow(p)
  BY <1>1, <1>5
     DEF GuardRedirects, Disconnected, TryAgain, SelectGuest, SelectBoard, SubmitName,
         DayPasses, ChangeWallet, RoleEvent, Follow, browserVars
<1>6. CASE \E j \in Job : \/ GenerateNonce(j) \/ VerifyAndLogin(j) \/ InsertUser(j)
                          \/ ServeClaim(j) \/ ServeName(j) \/ RefreshToken(j)
                          \/ Fails(j) \/ Sign(j)
                          \/ RefuseToSign(j) \/ NonceLost(j)
  BY <1>1, <1>6
     DEF GenerateNonce, VerifyAndLogin, InsertUser, ServeClaim, ServeName,
         RefreshToken, Fails, Sign, RefuseToSign, NonceLost, Ended, browserVars
<1>. QED  BY <1>3, <1>4, <1>5, <1>6 DEF Next, PageStep, JobStep
----------------------------------------------------------------------------
LEMMA InitIInv == Init => IInv
<1>. SUFFICES ASSUME Init PROVE IInv
  OBVIOUS
<1>1. Types
  <2>1. 0 \in 0..MaxDay /\ 0 \in 0..MaxRoleEvents
    BY SessionAssumption
  <2>2. "/" \in Page
    BY DEF Page
  <2>. QED  BY <2>1, <2>2, RecordTypes DEF Init, Types
<1>2. TypeOK
  BY <1>1, TypesByName
<1>3. Earned(token) /\ Earned(claims) /\ EarnedAnswers /\ GroundedRoles
  BY DEF Init, Earned, EarnedAnswers, GroundedRoles, NoJob, NoUser, HasGround
<1>. QED  BY <1>2, <1>3 DEF Init, IInv, ShownClaimsAreStored

LEMMA NextIInv == IInv /\ [Next]_vars => IInv'
<1>. SUFFICES ASSUME IInv, [Next]_vars PROVE IInv'
  OBVIOUS
<1>1. CASE Next
  BY <1>1, NextTypeOK, NextEarned, NextShown DEF IInv, AllEarned
<1>2. CASE UNCHANGED vars
  <2>. USE <1>2 DEF vars, browserVars, serviceVars, IInv
  <2>1. TypeOK'
    BY DEF TypeOK
  <2>2. Earned(token)' /\ Earned(claims)' /\ GroundedRoles'
    BY DEF Earned, GroundedRoles
  <2>3. EarnedAnswers'
    BY DEF EarnedAnswers, Earned
  <2>4. ShownClaimsAreStored'
    BY DEF ShownClaimsAreStored
  <2>. QED  BY <2>1, <2>2, <2>3, <2>4
<1>. QED  BY <1>1, <1>2

LEMMA Invariance == Spec => []IInv
BY InitIInv, NextIInv, PTL DEF Spec

\* Tab, requests and service keep their types, for every interleaving of clicks, wallet,
\* router, answers and events (lib/auth.ts, connect/ui.tsx, auth_service.go).
THEOREM TypeCorrect == Spec => []TypeOK
<1>1. IInv => TypeOK
  BY DEF IInv
<1>. QED  BY <1>1, Invariance, PTL

\* For every number of accounts, requests and events: whoever sees a guarded page has
\* signed in with that account's wallet and has a ground for the role (AuthGuard.tsx,
\* auth_service.go 67-178).
THEOREM GuardedPagesAreEarned == Spec => []GuardedPageIsEarned
<1>1. IInv => GuardedPageIsEarned
  BY DEF IInv, Earned, GuardedPageIsEarned, ChildrenShown
<1>. QED  BY <1>1, Invariance, PTL

\* For every order of answers, logouts and page changes: a page shows the session that its
\* next request will carry (lib/auth.ts 10-23, useAuth.ts 7-24).
THEOREM ShownIsStored == Spec => []ShownClaimsAreStored
<1>1. IInv => ShownClaimsAreStored
  BY DEF IInv
<1>. QED  BY <1>1, Invariance, PTL
=============================================================================
