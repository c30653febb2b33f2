------------------------------ MODULE Accounts ------------------------------
(***************************************************************************)
(* The users of a workspace, the sessions of the API and the browser tabs  *)
(* that share one pair of tokens in localStorage.                          *)
(*                                                                         *)
(* A pair is an access token, good until it expires whatever happens to    *)
(* its owner, and a refresh token, good while its row is in the table      *)
(* sessions.  A refresh deletes the row, reloads the user and inserts a    *)
(* new row in three statements; an invitation, too, is checked and used in *)
(* two.  Each statement is an action here.                                 *)
(***************************************************************************)
EXTENDS Integers, FiniteSets

CONSTANTS
  Users,     \* e-mail addresses
  Admins,    \* concurrent requests to POST /admin/users/invite
  Links,     \* concurrent requests to POST /auth/activate
  Tabs,      \* tabs of one browser
  Calls,     \* API calls in progress, over all tabs
  TabOf,     \* the tab of each call
  MaxPairs   \* bound: pairs of tokens issued in the whole behaviour

ASSUME TabOfAssumption == TabOf \in [Calls -> Tabs]
ASSUME MaxPairsAssumption == MaxPairs \in Nat

Pairs  == 1..MaxPairs
NoPair == 0
NoUser == "nobody"

ASSUME UsersAssumption == NoUser \notin Users

VARIABLES
  user,      \* the table users: one row at most per address
  pair,      \* the pairs issued: owner, row in sessions, access not expired
  invite,    \* requests that invite
  activate,  \* requests that activate
  store,     \* localStorage: the pair there, and the tab that put it there
  req,       \* the refresh or login request of each tab
  call,      \* the API calls
  leaving    \* the pair each tab is logging out with, or NoPair

dir  == <<user, invite, activate>>
vars == <<user, pair, invite, activate, store, req, call, leaving>>

-----------------------------------------------------------------------------
(* Data and statements *)

Absent  == [row |-> "none",    active |-> FALSE, live |-> FALSE]
Pending == [row |-> "pending", active |-> FALSE, live |-> TRUE]
Activated == [row |-> "activated", active |-> TRUE, live |-> FALSE]

HasRow(u) == user[u].row # "none"         \* find_by_email
Known(u)  == HasRow(u) /\ user[u].active  \* find_by_id, and the check of active

\* find_by_email_any_workspace: only an activated row has a password.
CanLogin(u) == user[u].row = "activated" /\ user[u].active

Issued == {n \in Pairs : pair[n].owner # NoUser}
Fresh(n)   == n \in Issued /\ pair[n].fresh      \* decode_token accepts it
Session(n) == n \in Issued /\ pair[n].session    \* find_active_by_token_hash

DeleteSession(n) ==
  pair' = [m \in Pairs |-> IF m = n THEN [pair[m] EXCEPT !.session = FALSE]
                                    ELSE pair[m]]

\* find_by_invite_token_hash and the expiry check: activation clears the hash.
InviteFound(u) == user[u].row = "pending" /\ user[u].live

\* UPDATE users SET password_hash, invite_token_hash = NULL, active = TRUE,
\* WHERE id alone: whatever the row has become since it was read.
ActivateRow(u) == user' = [user EXCEPT ![u] = Activated]

\* Sets active alone: the sessions stay, and so does a pending invitation.
Deactivated(u) == [user[u] EXCEPT !.active = FALSE]

\* Random tokens never meet.
NextPair == Cardinality(Issued) + 1

\* Claims::new: the access token says who and until when, and no more.
NewPair(u) == [owner |-> u, session |-> TRUE, fresh |-> TRUE]

\* issue_pair: an access token and a row in sessions.
IssuePair(u) ==
  /\ NextPair \in Pairs
  /\ pair' = [pair EXCEPT ![NextPair] = NewPair(u)]

NoReq  == [pc |-> "none", old |-> NoPair, new |-> NoPair, user |-> NoUser,
           heard |-> TRUE, lost |-> FALSE, barred |-> FALSE]
NoCall == [pc |-> "idle", with |-> NoPair]

-----------------------------------------------------------------------------
(* Users *)

\* invite_user: refuse an address that has a row, pending or not.
CheckAddress(a, u) ==
  /\ invite[a] = NoUser
  /\ ~ HasRow(u)
  /\ invite' = [invite EXCEPT ![a] = u]
  /\ UNCHANGED <<user, pair, activate, store, req, call, leaving>>

\* Faulty variant of InsertPending: no UNIQUE (workspace_id, email).
InsertAgain(a) ==
  /\ invite[a] # NoUser
  /\ user' = [user EXCEPT ![invite[a]] = Pending]
  /\ invite' = [invite EXCEPT ![a] = NoUser]
  /\ UNCHANGED <<pair, activate, store, req, call, leaving>>

\* The INSERT; it breaks UNIQUE (workspace_id, email) when another request
\* has come between, and the caller is told of an internal error.
InsertPending(a) ==
  /\ invite[a] # NoUser
  /\ user' = [user EXCEPT ![invite[a]] = IF @.row = "none" THEN Pending ELSE @]
  /\ invite' = [invite EXCEPT ![a] = NoUser]
  /\ UNCHANGED <<pair, activate, store, req, call, leaving>>

InviteExpires(u) ==
  /\ user[u].live
  /\ user' = [user EXCEPT ![u].live = FALSE]
  /\ UNCHANGED <<pair, invite, activate, store, req, call, leaving>>

OpenInvite(l, u) ==
  /\ activate[l] = NoUser
  /\ InviteFound(u)
  /\ activate' = [activate EXCEPT ![l] = u]
  /\ UNCHANGED <<user, pair, invite, store, req, call, leaving>>

\* barred is history: the user was out when the request began, and still is.
LetIn(u) ==
  req' = [c \in Tabs |-> IF req[c].user = u THEN [req[c] EXCEPT !.barred = FALSE]
                                            ELSE req[c]]

\* Faulty variant of Activate: the invitation stays good.
ActivateKeepsInvite(l) ==
  /\ activate[l] # NoUser
  /\ user' = [user EXCEPT ![activate[l]] =
                [Activated EXCEPT !.row = "pending", !.live = TRUE]]
  /\ activate' = [activate EXCEPT ![l] = NoUser]
  /\ LetIn(activate[l])
  /\ UNCHANGED <<pair, invite, store, call, leaving>>

\* The password is hashed between the two statements.
Activate(l) ==
  /\ activate[l] # NoUser
  /\ ActivateRow(activate[l])
  /\ activate' = [activate EXCEPT ![l] = NoUser]
  /\ LetIn(activate[l])
  /\ UNCHANGED <<pair, invite, store, call, leaving>>

Deactivate(u) ==
  /\ HasRow(u)
  /\ user' = [user EXCEPT ![u] = Deactivated(u)]
  /\ req' = [c \in Tabs |->
       IF req[c].user = u /\ req[c].pc \in {"find", "delete", "reload", "login"}
         THEN [req[c] EXCEPT !.barred = TRUE] ELSE req[c]]
  /\ UNCHANGED <<pair, invite, activate, store, call, leaving>>

-----------------------------------------------------------------------------
(* POST /auth/refresh and /auth/login, statement by statement *)

Go(c, pc) == req' = [req EXCEPT ![c].pc = pc]

FindSession(c) ==
  /\ req[c].pc = "find"
  /\ Go(c, IF Session(req[c].old) THEN "delete" ELSE "refused")
  /\ UNCHANGED <<dir, pair, store, call, leaving>>

\* Rotation; the number of rows deleted is not looked at.
DeleteOld(c) ==
  /\ req[c].pc = "delete"
  /\ DeleteSession(req[c].old)
  /\ Go(c, "reload")
  /\ UNCHANGED <<dir, store, call, leaving>>

\* Faulty variant of ReloadUser: the role is reloaded, active is not checked.
ReloadRoleOnly(c) ==
  /\ req[c].pc = "reload"
  /\ Go(c, "insert")
  /\ UNCHANGED <<dir, pair, store, call, leaving>>

ReloadUser(c) ==
  /\ req[c].pc = "reload"
  /\ Go(c, IF Known(req[c].user) THEN "insert" ELSE "refused")
  /\ UNCHANGED <<dir, pair, store, call, leaving>>

FindUser(c) ==
  /\ req[c].pc = "login"
  /\ Go(c, IF CanLogin(req[c].user) THEN "insert" ELSE "refused")
  /\ UNCHANGED <<dir, pair, store, call, leaving>>

InsertSession(c) ==
  /\ req[c].pc = "insert"
  /\ IssuePair(req[c].user)
  /\ req' = [req EXCEPT ![c].pc = "issued", ![c].new = NextPair]
  /\ UNCHANGED <<dir, store, call, leaving>>

\* The API stops, or the answer never arrives, between any two statements.
LoseRequest(c) ==
  /\ req[c].pc \notin {"none", "refused"}
  /\ req' = [req EXCEPT ![c].pc = "refused", ![c].lost = TRUE]
  /\ UNCHANGED <<dir, pair, store, call, leaving>>

Expire(n) ==
  /\ \/ pair[n].fresh   /\ pair' = [pair EXCEPT ![n].fresh = FALSE]
     \/ pair[n].session /\ pair' = [pair EXCEPT ![n].session = FALSE]
  /\ UNCHANGED <<dir, store, req, call, leaving>>

-----------------------------------------------------------------------------
(* The browser *)

Home(c) == [k \in Calls |-> IF TabOf[k] = c THEN NoCall ELSE call[k]]
Empty   == [pair |-> NoPair, by |-> "none"]

\* apiFetch reads the access token and sends the request.
StartCall(k) ==
  /\ call[k].pc = "idle" /\ store.pair # NoPair
  /\ call' = [call EXCEPT ![k] = [pc |-> "sent", with |-> store.pair]]
  /\ UNCHANGED <<dir, pair, store, req, leaving>>

\* AuthUser: no look at the database, only at the token.
AnswerCall(k) ==
  /\ call[k].pc \in {"sent", "retry"}
  /\ call' = [call EXCEPT ![k] =
       IF Fresh(@.with) \/ @.pc = "retry" THEN NoCall ELSE [@ EXCEPT !.pc = "denied"]]
  /\ UNCHANGED <<dir, pair, store, req, leaving>>

\* Faulty variant of Refresh: with the pair the call was sent with.
RefreshWithCallsPair(k) ==
  LET c == TabOf[k] IN
  /\ call[k].pc = "denied"
  /\ call' = [call EXCEPT ![k].pc = "waiting"]
  /\ \/ /\ req[c].pc = "none"
        /\ req' = [req EXCEPT ![c] = [NoReq EXCEPT
             !.pc = "find", !.old = call[k].with,
             !.user = pair[call[k].with].owner,
             !.barred = ~ user[pair[call[k].with].owner].active]]
     \/ req[c].pc # "none" /\ req[c].heard /\ req[c].old # NoPair /\ UNCHANGED req
  /\ UNCHANGED <<dir, pair, store, leaving>>

\* 401: wait for the refresh of this tab, or start it from localStorage.
Refresh(k) ==
  LET c == TabOf[k]
      n == store.pair
  IN
  /\ call[k].pc = "denied"
  /\ call' = [call EXCEPT ![k].pc = "waiting"]
  /\ \/ /\ req[c].pc = "none" /\ n # NoPair
        /\ req' = [req EXCEPT ![c] = [NoReq EXCEPT
             !.pc = "find", !.old = n, !.user = pair[n].owner,
             !.barred = ~ user[pair[n].owner].active]]
     \/ req[c].pc # "none" /\ req[c].heard /\ req[c].old # NoPair /\ UNCHANGED req
  /\ UNCHANGED <<dir, pair, store, leaving>>

\* attemptRefresh() with nothing in localStorage: false at once.
RefreshWithout(k) ==
  LET c == TabOf[k] IN
  /\ call[k].pc = "denied" /\ store.pair = NoPair /\ req[c].pc = "none"
  /\ call' = Home(c)
  /\ UNCHANGED <<dir, pair, store, req, leaving>>

\* The answer is there: every waiting call is retried with the new pair.
Renewed(c) ==
  /\ req[c].pc = "issued" /\ req[c].heard
  /\ store' = [pair |-> req[c].new, by |-> c]
  /\ call' = [k \in Calls |->
       IF TabOf[k] = c /\ call[k].pc = "waiting"
         THEN [pc |-> "retry", with |-> req[c].new] ELSE call[k]]
  /\ req' = [req EXCEPT ![c] = NoReq]
  /\ UNCHANGED <<dir, pair, leaving>>

\* The refresh has failed: empty localStorage, whatever is in it by now, and
\* load /login.  A failed login leaves everything as it is.
GiveUp(c) ==
  /\ req[c].pc = "refused" /\ req[c].heard
  /\ IF req[c].old = NoPair
       THEN UNCHANGED <<store, call>>
       ELSE store' = Empty /\ call' = Home(c)
  /\ req' = [req EXCEPT ![c] = NoReq]
  /\ UNCHANGED <<dir, pair, leaving>>

\* The document that sent the request is gone; nobody hears the answer.
Unheard(c) ==
  /\ req[c].pc \in {"issued", "refused"} /\ ~ req[c].heard
  /\ req' = [req EXCEPT ![c] = NoReq]
  /\ UNCHANGED <<dir, pair, store, call, leaving>>

\* The document of a tab goes, and with it what it was waiting for.
Leave(c) == /\ call' = Home(c)
            /\ req' = [req EXCEPT ![c].heard = req[c].pc = "none"]
            /\ leaving' = [leaving EXCEPT ![c] = NoPair]

\* AuthProvider on a page load: an expired access token empties localStorage.
LoadPage(c) ==
  /\ Leave(c)
  /\ store' = IF Fresh(store.pair) THEN store ELSE Empty
  /\ UNCHANGED <<dir, pair>>

Login(c, u) ==
  /\ store.pair = NoPair /\ req[c].pc = "none"
  /\ req' = [req EXCEPT ![c] = [NoReq EXCEPT
       !.pc = "login", !.user = u, !.barred = ~ user[u].active]]
  /\ UNCHANGED <<dir, pair, store, call, leaving>>

\* logout: the tab sends the refresh token it finds and waits.
Logout(c) ==
  /\ store.pair # NoPair /\ leaving[c] = NoPair
  /\ leaving' = [leaving EXCEPT ![c] = store.pair]
  /\ UNCHANGED <<dir, pair, store, req, call>>

\* POST /auth/logout, if the request arrives.  (One that arrives when the tab
\* waits no more does what an expiry does.)
SignOut(c) ==
  /\ leaving[c] # NoPair
  /\ DeleteSession(leaving[c])
  /\ UNCHANGED <<dir, store, req, call, leaving>>

\* Answered or not: whatever is in localStorage by now is removed.
LoggedOut(c) ==
  /\ leaving[c] # NoPair
  /\ Leave(c)
  /\ store' = Empty
  /\ UNCHANGED <<dir, pair>>

-----------------------------------------------------------------------------

Init ==
  /\ user \in [Users -> {Absent, Activated}]
  /\ pair = [n \in Pairs |-> [owner |-> NoUser, session |-> FALSE, fresh |-> FALSE]]
  /\ invite = [a \in Admins |-> NoUser]
  /\ activate = [l \in Links |-> NoUser]
  /\ store = Empty
  /\ req = [c \in Tabs |-> NoReq]
  /\ call = [k \in Calls |-> NoCall]
  /\ leaving = [c \in Tabs |-> NoPair]

InviteStep == \E a \in Admins : InsertPending(a) \/ \E u \in Users : CheckAddress(a, u)
LinkStep   == \E l \in Links : Activate(l) \/ \E u \in Users : OpenInvite(l, u)
UserStep   == \E u \in Users : InviteExpires(u) \/ Deactivate(u)

ServerStep(c) ==
  \/ FindSession(c) \/ DeleteOld(c) \/ ReloadUser(c)
  \/ FindUser(c) \/ InsertSession(c) \/ LoseRequest(c)

BrowserStep ==
  \/ \E k \in Calls : StartCall(k) \/ AnswerCall(k) \/ Refresh(k) \/ RefreshWithout(k)
  \/ \E c \in Tabs : \/ Renewed(c) \/ GiveUp(c) \/ Unheard(c)
                     \/ LoadPage(c) \/ Logout(c) \/ SignOut(c) \/ LoggedOut(c)
                     \/ \E u \in Users : Login(c, u)

Next ==
  \/ InviteStep \/ LinkStep \/ UserStep
  \/ \E c \in Tabs : ServerStep(c)
  \/ \E n \in Pairs : Expire(n)
  \/ BrowserStep

Spec == Init /\ [][Next]_vars

-----------------------------------------------------------------------------
(* Properties *)

TypeOK ==
  /\ user \in [Users -> [row : {"none", "pending", "activated"},
                         active : BOOLEAN, live : BOOLEAN]]
  /\ \A u \in Users : /\ user[u].live => user[u].row = "pending"
                      /\ user[u].active => user[u].row = "activated"
  /\ pair \in [Pairs -> [owner : Users \union {NoUser}, session : BOOLEAN,
                         fresh : BOOLEAN]]
  /\ \A n \in Issued : user[pair[n].owner].row = "activated"
  /\ store.pair \in Issued \union {NoPair}
  /\ \A c \in Tabs : req[c].old \in Issued \union {NoPair}
  /\ \A k \in Calls : call[k].with \in Issued \union {NoPair}
  /\ \A c \in Tabs : leaving[c] \in Issued \union {NoPair}

\* Rows of users go from none to pending to activated and never back, and a
\* deactivated account comes back only through an activation that had read the
\* invitation before it was spent: UNIQUE and the cleared token hash, however
\* the requests of two administrators and two clicks on a link interleave.
AccountsOnlyAdvance ==
  [][\A u \in Users :
       /\ user[u].row = "pending"   => user'[u].row # "none"
       /\ user[u].row = "activated" => user'[u].row = "activated"
       /\ user[u].row = "pending" /\ ~ user[u].live /\ ~ user'[u].active
            => ~ user'[u].live
       /\ user[u].row = "activated" /\ ~ user[u].active /\ user'[u].active
            => \E l \in Links : activate[l] = u]_vars

\* "Reload the user for a fresh role snapshot" (refresh.rs:42): no pair comes
\* out of a request whose user was deactivated before it looked, unless an
\* activation let the user in again meanwhile.
NoPairAfterDeactivation == \A c \in Tabs : req[c].barred => req[c].new = NoPair

\* "Token expired - try refresh once" (api.ts:79): a tab whose refresh fails
\* throws away the pair in localStorage.  That pair is of no use any more,
\* unless the answer was lost, or another tab put it there.
NothingLiveThrownAway ==
  [][\A c \in Tabs :
       /\ req[c].pc = "refused" /\ req[c].old # NoPair /\ ~ req[c].lost
       /\ store.pair # NoPair /\ store'.pair = NoPair /\ store.by = c
       /\ req'[c].pc = "none"
       => ~ Session(store.pair)]_vars
=============================================================================
