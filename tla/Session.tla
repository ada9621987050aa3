------------------------------ MODULE Session -------------------------------
(***************************************************************************)
(* Signing in to the web site: front-end/src/lib/auth.ts, the hook         *)
(* useAuth, AuthGuard and Layout, the connect page, and the service that   *)
(* answers them, back-end/src/service/auth_service.go.                     *)
(*                                                                         *)
(* One tab of a browser, with a wallet whose account may change at any     *)
(* time, the token in localStorage, which another tab may change as well,  *)
(* and requests under way to the service.  A request outlives the page     *)
(* that sent it: whenever its answer comes, the token in it is stored.     *)
(*                                                                         *)
(* A page change takes effect after router.replace or router.push was      *)
(* called; the last call wins.  The claims a page shows are those its      *)
(* useAuth read when it mounted or when the event mp_auth_change came last.*)
(*                                                                         *)
(* Left out: signatures and tokens as bytes (a signature names its signer, *)
(* a token its claims), names (a user has one or has not), error texts.    *)
(***************************************************************************)
EXTENDS Naturals, FiniteSets

CONSTANTS
  Account,         \* accounts the wallet can show
  Nobody,          \* no wallet connected
  Head,            \* accounts the table of mosques has as a masjid_admin
  NoToken,         \* localStorage holds no token, a page has no claims
  MaxJobs,         \* bound: requests sent
  EventRole,       \* <<account, role>> pairs the events of the chain may write
  MaxRoleEvents,   \* bound: roles the indexer writes
  MaxDay           \* bound: days that pass; a token is good for its day

ASSUME SessionAssumption ==
  /\ Nobody \notin Account
  /\ Head \subseteq Account
  /\ EventRole \subseteq Account \X {"guest", "board", "verifier"}
  /\ {MaxJobs, MaxRoleEvents, MaxDay} \subseteq Nat

VARIABLES
  account,      \* useAccount().address
  token,        \* localStorage
  outside,      \* another tab has changed the token since this page last read it
  day,
  page,         \* the mounted page
  going,        \* where the router has been told to go, or page
  claims,       \* state of the page's useAuth
  connect,      \* state of the connect page
  job,          \* requests under way
  leaving,      \* disconnect() was called and has not finished
  nonces,       \* the service: challenges given out and not used, by job
  users,        \* the service: rows of users
  roleEvents,   \* number of role changes written by the indexer
  signers       \* history: accounts whose wallet signed a challenge

browserVars == <<account, token, outside, day, page, going, claims, connect, leaving>>
serviceVars == <<nonces, users, roleEvents>>
vars == <<browserVars, job, serviceVars, signers>>

Job  == 1..MaxJobs
Role == {"guest", "board", "verifier"}
Page == {"/", "/connect", "/board", "/verifier"}

Claims     == [address : Account, role : Role, named : BOOLEAN, exp : Nat]
NewConnect == [step |-> "connect", error |-> FALSE, claiming |-> FALSE]
NoJob      == [kind |-> "login", at |-> "unused", for |-> Nobody, signer |-> Nobody,
               answer |-> NoToken, live |-> FALSE]
NoUser     == [exists |-> FALSE, role |-> "guest", named |-> FALSE]

TypeOK ==
  /\ account \in Account \cup {Nobody}
  /\ token \in Claims \cup {NoToken}
  /\ outside \in BOOLEAN
  /\ day \in 0..MaxDay
  /\ page \in Page /\ going \in Page
  /\ claims \in Claims \cup {NoToken}
  /\ connect \in [step : {"connect", "signing", "name", "role", "redirecting"},
                  error : BOOLEAN, claiming : BOOLEAN]
  /\ job \in [Job -> [kind : {"login", "name", "claim"},
                      at : {"unused", "nonce", "sign", "verify", "insert", "serve",
                            "refresh", "answer", "over"},
                      for : Account \cup {Nobody}, signer : Account \cup {Nobody},
                      answer : Claims \cup {NoToken}, live : BOOLEAN]]
  /\ leaving \in BOOLEAN
  /\ nonces \subseteq Job
  /\ users \in [Account -> [exists : BOOLEAN, role : Role, named : BOOLEAN]]
  /\ roleEvents \in 0..MaxRoleEvents
  /\ signers \subseteq Account

Init ==
  /\ account = Nobody
  /\ token = NoToken /\ outside = FALSE
  /\ day = 0
  /\ page = "/" /\ going = "/"
  /\ claims = NoToken
  /\ connect = NewConnect
  /\ job = [j \in Job |-> NoJob]
  /\ leaving = FALSE
  /\ nonces = {}
  /\ users = [a \in Account |-> NoUser]
  /\ roleEvents = 0
  /\ signers = {}
----------------------------------------------------------------------------
(* lib/auth.ts *)

IsTokenValid(t) == t # NoToken /\ t.exp >= day

\* getClaims: what it returns.  It also takes an expired token out of localStorage.
GetClaims(t) == IF IsTokenValid(t) THEN t ELSE NoToken

\* Mutant: the token is stored, the event is not dispatched.
StoreSilently(t) ==
  /\ token' = t
  /\ outside' = FALSE
  /\ claims' = claims

\* setToken and clearToken store and dispatch mp_auth_change, which the useAuth of
\* the mounted page answers by reading again.  The connect page has no useAuth.
Store(t) ==
  /\ token' = IF page = "/connect" THEN t ELSE GetClaims(t)
  /\ outside' = FALSE
  /\ claims' = IF page = "/connect" THEN NoToken ELSE GetClaims(t)

RoleRedirect(role) ==
  CASE role = "verifier" -> "/verifier"
    [] role = "board"    -> "/board"
    [] OTHER             -> "/"
----------------------------------------------------------------------------
(* What happens around the tab. *)

ChangeWallet(a) ==
  /\ a # account
  /\ account' = a
  /\ UNCHANGED <<token, outside, day, page, going, claims, connect, leaving, job,
                 serviceVars, signers>>

DayPasses ==
  /\ day < MaxDay
  /\ day' = day + 1
  /\ UNCHANGED <<account, token, outside, page, going, claims, connect, leaving, job,
                 serviceVars, signers>>

\* "Keluar" in another tab: no event reaches this one.
OtherTabLogsOut ==
  /\ token # NoToken
  /\ token' = NoToken /\ outside' = TRUE
  /\ UNCHANGED <<account, day, page, going, claims, connect, leaving, job,
                 serviceVars, signers>>

\* The service restarts or a nonce is older than nonceTTL.
NonceLost(j) ==
  /\ j \in nonces
  /\ nonces' = nonces \ {j}
  /\ UNCHANGED <<browserVars, job, users, roleEvents, signers>>

\* An event handler upserts a user: the role of the event and no name.
RoleEvent(a, role) ==
  /\ <<a, role>> \in EventRole
  /\ roleEvents < MaxRoleEvents
  /\ users' = [users EXCEPT ![a] = [exists |-> TRUE, role |-> role, named |-> FALSE]]
  /\ roleEvents' = roleEvents + 1
  /\ UNCHANGED <<browserVars, job, nonces, signers>>
----------------------------------------------------------------------------
(* Pages *)

\* Pages keep their answers from coming back to them once they are gone.
Abandoned == [j \in Job |-> [job[j] EXCEPT !.live = FALSE]]

\* The router changes the page.  useAuth reads the claims; the first effect of the
\* connect page sends whoever has claims on, whatever the wallet shows.
Navigate ==
  LET stored == GetClaims(token) IN
  /\ going # page
  /\ page' = going
  /\ going' = IF going = "/connect" /\ stored # NoToken THEN RoleRedirect(stored.role)
              ELSE going
  /\ token' = stored
  /\ outside' = FALSE
  /\ claims' = IF going = "/connect" THEN NoToken ELSE stored
  /\ connect' = NewConnect
  /\ job' = Abandoned
  /\ UNCHANGED <<account, day, leaving, serviceVars, signers>>

\* An address typed in loads the site anew: what was under way is forgotten here,
\* though not by the service.
OpenUrl(p) ==
  LET stored == GetClaims(token) IN
  /\ p # page
  /\ page' = p
  /\ going' = IF p = "/connect" /\ stored # NoToken THEN RoleRedirect(stored.role) ELSE p
  /\ token' = stored
  /\ outside' = FALSE
  /\ claims' = IF p = "/connect" THEN NoToken ELSE stored
  /\ connect' = NewConnect
  /\ leaving' = FALSE
  /\ job' = [j \in Job |-> IF job[j].at = "unused" THEN NoJob
                           ELSE [NoJob EXCEPT !.at = "over"]]
  /\ UNCHANGED <<account, day, serviceVars, signers>>

\* The roles AuthGuard lets through; "/" has no guard.
Allowed(p) == CASE p = "/board" -> {"board"} [] p = "/verifier" -> {"verifier"} [] OTHER -> Role

Guarded == page \in {"/board", "/verifier"}

\* AuthGuard shows its children only to claims with an allowed role.
ChildrenShown == Guarded /\ claims # NoToken /\ claims.role \in Allowed(page)

\* Mutant: the guard sends away who has no claims, not who has the wrong role.
GuardRedirectsStrangers ==
  /\ Guarded /\ claims = NoToken
  /\ going' = "/connect"
  /\ going' # going
  /\ UNCHANGED <<account, token, outside, day, page, claims, connect, leaving, job,
                 serviceVars, signers>>

\* AuthGuard's effect.
GuardRedirects ==
  /\ Guarded /\ ~ChildrenShown
  /\ going' = IF claims = NoToken THEN "/connect" ELSE "/"
  /\ going' # going
  /\ UNCHANGED <<account, token, outside, day, page, claims, connect, leaving, job,
                 serviceVars, signers>>

\* The pages with a layout, whose links depend on the role.
LayoutShown == page = "/" \/ ChildrenShown

NavLinks ==
  {"/"} \cup
  CASE page = "/connect"  -> {}
    [] claims = NoToken   -> {"/connect"}
    [] OTHER              -> {RoleRedirect(claims.role)}

Follow(p) ==
  /\ page = "/connect" \/ LayoutShown
  /\ p \in NavLinks /\ p # going
  /\ going' = p
  /\ UNCHANGED <<account, token, outside, day, page, claims, connect, leaving, job,
                 serviceVars, signers>>

\* "Keluar" in the layout: clearToken, disconnect, then home.
Logout ==
  /\ LayoutShown /\ claims # NoToken
  /\ Store(NoToken)
  /\ leaving' = TRUE
  /\ going' = "/"
  /\ UNCHANGED <<account, day, page, connect, job, serviceVars, signers>>

Disconnected ==
  /\ leaving
  /\ leaving' = FALSE
  /\ account' = Nobody
  /\ UNCHANGED <<token, outside, day, page, going, claims, connect, job, serviceVars,
                 signers>>
----------------------------------------------------------------------------
(* Requests *)

Send(kind, at, for) ==
  \E j \in Job :
    /\ job[j].at = "unused" /\ \A i \in 1..(j - 1) : job[i].at # "unused"
    /\ job' = [job EXCEPT ![j] = [NoJob EXCEPT !.kind = kind, !.at = at, !.for = for,
                                               !.live = TRUE]]

\* The step and the router after a login or a profile call has succeeded.
Proceed(j, c) ==
  IF ~job[j].live THEN UNCHANGED <<connect, going>>
  ELSE CASE job[j].kind = "claim" -> /\ connect' = [connect EXCEPT !.step = "name",
                                                                   !.claiming = FALSE]
                                     /\ UNCHANGED going
         [] job[j].kind = "login" /\ ~c.named -> /\ connect' = [connect EXCEPT !.step = "role"]
                                                 /\ UNCHANGED going
         [] OTHER -> /\ connect' = [connect EXCEPT !.step = "redirecting"]
                     /\ going' = RoleRedirect(c.role)

\* The answer comes: its token is stored, and the page goes on if it is still there.
Answered(j) ==
  LET c == job[j].answer IN
  /\ job[j].at = "answer" /\ c # NoToken
  /\ Store(c)
  /\ Proceed(j, c)
  /\ job' = [job EXCEPT ![j] = [NoJob EXCEPT !.at = "over"]]
  /\ UNCHANGED <<account, day, page, leaving, serviceVars, signers>>

\* Mutant: a failed login leaves the page where it is.
EndedQuietly(j) ==
  /\ job' = [job EXCEPT ![j] = [NoJob EXCEPT !.at = "over"]]
  /\ connect' = IF job[j].live THEN [connect EXCEPT !.error = TRUE, !.claiming = FALSE]
                ELSE connect
  /\ UNCHANGED <<account, token, outside, day, page, going, claims, leaving, users,
                 roleEvents, signers>>

\* The catch clauses.
Ended(j) ==
  /\ job' = [job EXCEPT ![j] = [NoJob EXCEPT !.at = "over"]]
  /\ connect' = IF ~job[j].live THEN connect
                ELSE CASE job[j].kind = "login" ->
                            [connect EXCEPT !.step = "connect", !.error = TRUE]
                       [] OTHER -> [connect EXCEPT !.claiming = FALSE]
  /\ UNCHANGED <<account, token, outside, day, page, going, claims, leaving, users,
                 roleEvents, signers>>

\* The service or the network, wherever the request is.  A nonce that is not known
\* and a token that has expired are refused.
Fails(j) ==
  /\ job[j].at \in {"nonce", "verify", "insert", "serve", "refresh", "answer"}
  /\ Ended(j)
  /\ UNCHANGED nonces
----------------------------------------------------------------------------
(* The connect page: signing in *)

\* The second effect: sign in, unless the stored claims are the wallet's already.
\* An error stops it until "Coba lagi".
ConnectEffect ==
  LET stored == GetClaims(token) IN
  /\ page = "/connect" /\ account # Nobody
  /\ connect.step = "connect" /\ ~connect.error
  /\ token' = stored /\ outside' = FALSE
  /\ IF stored # NoToken /\ stored.address = account
     THEN /\ UNCHANGED job
          /\ IF stored.named
             THEN connect' = [connect EXCEPT !.step = "redirecting"]
                  /\ going' = RoleRedirect(stored.role)
             ELSE connect' = [connect EXCEPT !.step = "role"] /\ UNCHANGED going
     ELSE /\ Send("login", "nonce", account)
          /\ connect' = [connect EXCEPT !.step = "signing"]
          /\ UNCHANGED going
  /\ UNCHANGED <<account, day, page, claims, leaving, serviceVars, signers>>

TryAgain ==
  /\ page = "/connect" /\ connect.step = "connect" /\ connect.error
  /\ connect' = [connect EXCEPT !.error = FALSE]
  /\ UNCHANGED <<account, token, outside, day, page, going, claims, leaving, job,
                 serviceVars, signers>>

GenerateNonce(j) ==
  /\ job[j].at = "nonce"
  /\ nonces' = nonces \cup {j}
  /\ job' = [job EXCEPT ![j].at = "sign"]
  /\ UNCHANGED <<browserVars, users, roleEvents, signers>>

\* signMessage asks the account the wallet shows now.
Sign(j) ==
  /\ job[j].at = "sign" /\ account # Nobody
  /\ job' = [job EXCEPT ![j].at = "verify", ![j].signer = account]
  /\ signers' = signers \cup {account}
  /\ UNCHANGED <<browserVars, serviceVars>>

RefuseToSign(j) ==
  /\ job[j].at = "sign"
  /\ Ended(j)
  /\ UNCHANGED nonces

\* Mutant: the token carries no name.
IssueJWTUnnamed(a, user) == [address |-> a, role |-> user.role, exp |-> day]

\* issueJWT: the row's role and name, good for a day.
IssueJWT(a, user) == [address |-> a, role |-> user.role, named |-> user.named, exp |-> day]

\* Mutant: the recovered address is not compared.
SignatureRecovers(j) == job[j].signer # Nobody

SignatureMatches(j) == job[j].signer = job[j].for

\* VerifyAndLogin deletes the nonce it finds, recovers the signer, and looks the user
\* up; a new one is inserted by a second statement.
VerifyAndLogin(j) ==
  LET a == job[j].for IN
  /\ job[j].at = "verify"
  /\ j \in nonces
  /\ nonces' = nonces \ {j}
  /\ IF ~SignatureMatches(j) THEN Ended(j)
     ELSE /\ job' = [job EXCEPT ![j].at = IF users[a].exists THEN "answer" ELSE "insert",
                                ![j].answer = IF users[a].exists THEN IssueJWT(a, users[a])
                                              ELSE NoToken]
          /\ UNCHANGED <<browserVars, users, roleEvents, signers>>

InsertUser(j) ==
  LET a == job[j].for IN
  /\ job[j].at = "insert"
  /\ users' = [users EXCEPT ![a] = [NoUser EXCEPT !.exists = TRUE]]
  /\ job' = [job EXCEPT ![j].at = "answer",
                        ![j].answer = IssueJWT(a, [NoUser EXCEPT !.exists = TRUE])]
  /\ UNCHANGED <<browserVars, nonces, roleEvents, signers>>
----------------------------------------------------------------------------
(* The connect page: role and name *)

SelectGuest ==
  /\ page = "/connect" /\ connect.step = "role" /\ ~connect.claiming
  /\ connect' = [connect EXCEPT !.step = "name"]
  /\ UNCHANGED <<account, token, outside, day, page, going, claims, leaving, job,
                 serviceVars, signers>>

\* The calls carry the token stored at that moment, whoever it names.  Without one,
\* or with one that has expired, they end in a message and change nothing.
SelectBoard ==
  /\ page = "/connect" /\ connect.step = "role" /\ ~connect.claiming
  /\ IsTokenValid(token)
  /\ Send("claim", "serve", token.address)
  /\ connect' = [connect EXCEPT !.claiming = TRUE]
  /\ UNCHANGED <<account, token, outside, day, page, going, claims, leaving, serviceVars,
                 signers>>

\* The name's button is not disabled while a call is under way.
SubmitName ==
  /\ page = "/connect" /\ connect.step = "name"
  /\ IsTokenValid(token)
  /\ Send("name", "serve", token.address)
  /\ UNCHANGED <<browserVars, serviceVars, signers>>

\* FindByAdmin
IsHead(a) == a \in Head

\* ClaimBoardRole and UpdateName write the row first.
ServeClaim(j) ==
  /\ job[j].at = "serve" /\ job[j].kind = "claim"
  /\ IsHead(job[j].for)
  /\ users' = [users EXCEPT ![job[j].for].role = "board"]
  /\ job' = [job EXCEPT ![j].at = "refresh"]
  /\ UNCHANGED <<browserVars, nonces, roleEvents, signers>>

ServeName(j) ==
  /\ job[j].at = "serve" /\ job[j].kind = "name"
  /\ users' = [users EXCEPT ![job[j].for].named = TRUE]
  /\ job' = [job EXCEPT ![j].at = "refresh"]
  /\ UNCHANGED <<browserVars, nonces, roleEvents, signers>>

\* RefreshToken reads it again, with whatever the indexer has made of it meanwhile.
RefreshToken(j) ==
  LET a == job[j].for IN
  /\ job[j].at = "refresh"
  /\ job' = [job EXCEPT ![j].at = "answer", ![j].answer = IssueJWT(a, users[a])]
  /\ UNCHANGED <<browserVars, serviceVars, signers>>
----------------------------------------------------------------------------
\* What the page, the router and the service do of themselves.
PageStep == Navigate \/ GuardRedirects

JobStep(j) ==
  \/ GenerateNonce(j) \/ VerifyAndLogin(j) \/ InsertUser(j)
  \/ ServeClaim(j) \/ ServeName(j) \/ RefreshToken(j) \/ Answered(j) \/ Fails(j)

Next ==
  \/ PageStep \/ Logout \/ Disconnected
  \/ ConnectEffect \/ TryAgain \/ SelectGuest \/ SelectBoard \/ SubmitName
  \/ DayPasses \/ OtherTabLogsOut
  \/ \E a \in Account \cup {Nobody} : ChangeWallet(a)
  \/ \E a \in Account, role \in Role : RoleEvent(a, role)
  \/ \E p \in Page : Follow(p) \/ OpenUrl(p)
  \/ \E j \in Job : JobStep(j) \/ Sign(j) \/ RefuseToSign(j) \/ NonceLost(j)

\* Effects run, the router arrives, requests are answered or fail; nobody has to
\* answer the wallet or to press a button.
Spec ==
  /\ Init /\ [][Next]_vars
  /\ WF_vars(Navigate) /\ WF_vars(GuardRedirects)
  /\ \A j \in Job : WF_vars(JobStep(j))
----------------------------------------------------------------------------
(* Properties *)

\* What an account may be called: a guest, the head of a mosque that asked for it, or
\* what an event made of it.
HasGround(a, role) ==
  role = "guest" \/ (role = "board" /\ a \in Head) \/ <<a, role>> \in EventRole

\* AuthGuard.tsx shows a guarded page only for an account whose own wallet has signed
\* in and that has a ground for the role, however wallet, tabs and late answers mix.
GuardedPageIsEarned ==
  ChildrenShown => claims.address \in signers /\ HasGround(claims.address, claims.role)

\* Unless another tab has interfered, what a page shows of the session is what the next
\* request will carry: no answer, logout or expiry leaves useAuth behind localStorage.
ShownClaimsAreStored == page # "/connect" /\ ~outside => claims = token

\* A guarded page that shows nothing is left, or gets its claims.
BlankPageIsLeft ==
  \A p \in {"/board", "/verifier"} :
    (page = p /\ ~ChildrenShown) ~> (page # p \/ ChildrenShown)

\* "Menunggu tanda tangan" ends, unless the wallet's prompt is left unanswered.
SigningEnds ==
  connect.step = "signing" ~>
    (connect.step # "signing" \/ \E j \in Job : job[j].at = "sign")
=============================================================================
