-------------------------- MODULE Workspace_proofs --------------------------
(* What holds of the accounts of a workspace, of its setup and settings, and *)
(* of its collections, for any number of addresses, administrators, links,   *)
(* tabs, calls, requests, keys and rows, and wherever the process stops. The *)
(* modules share nothing, and no proof about one uses an assumption of       *)
(* another.                                                                  *)
EXTENDS Accounts, Installation, Collections, FiniteSetTheorems, TLAPS

-----------------------------------------------------------------------------
(* Accounts: the inductive invariant *)

UserRow == [row : {"none", "pending", "activated"}, active : BOOLEAN, live : BOOLEAN]

\* Only a pending row has an invitation, only an activated one is let in.
UserOK(row) == /\ row \in UserRow
               /\ row.live => row.row = "pending"
               /\ row.active => row.row = "activated"

UsersOK == /\ user \in [Users -> UserRow]
           /\ \A u \in Users : UserOK(user[u])
           /\ invite \in [Admins -> Users \union {NoUser}]
           /\ activate \in [Links -> Users \union {NoUser}]

\* Pairs are numbered as they are issued, to users with an activated row.
PairRow == [owner : Users \union {NoUser}, session : BOOLEAN, fresh : BOOLEAN]

PairsOK == /\ pair \in [Pairs -> PairRow]
           /\ \E k \in Nat : Issued = 1..k
           /\ \A n \in Issued : user[pair[n].owner].row = "activated"

\* The browser holds pairs that were issued.
BrowserOK == /\ store.pair \in Issued \union {NoPair}
             /\ call \in [Calls -> [pc : {"idle", "sent", "denied", "waiting", "retry"},
                                    with : Pairs \union {NoPair}]]
             /\ \A k \in Calls : call[k].with \in Issued \union {NoPair}

LeavingOK == /\ leaving \in [Tabs -> Pairs \union {NoPair}]
             /\ \A c \in Tabs : leaving[c] \in Issued \union {NoPair}

Request == [pc : {"none", "find", "delete", "reload", "login", "insert", "issued", "refused"},
            old : Pairs \union {NoPair}, new : Pairs \union {NoPair},
            user : Users \union {NoUser},
            heard : BOOLEAN, lost : BOOLEAN, barred : BOOLEAN]

\* A request knows its user until it is over; the pair it presents has lost its
\* session once the row is deleted, and whenever it is refused for good.
RequestOK(r) ==
  /\ r \in Request
  /\ r.old \in Issued \union {NoPair} /\ r.new \in Issued \union {NoPair}
  /\ r.pc \in {"find", "delete", "reload", "insert"}
       => r.user \in Users /\ user[r.user].row = "activated"
  /\ r.pc = "login" => r.user \in Users /\ r.old = NoPair
  /\ r.pc = "issued" => r.new \in Issued
  /\ r.pc \notin {"issued", "refused"} => r.new = NoPair
  /\ /\ r.pc \in {"reload", "insert"} \/ (r.pc = "refused" /\ ~ r.lost)
     /\ r.old # NoPair
     => ~ pair[r.old].session

\* A request whose user was deactivated before it looked goes nowhere.
BarredOK(r) ==
  r.barred => /\ r.new = NoPair
              /\ r.pc \in {"find", "delete", "reload", "login", "refused"}
              /\ r.pc # "refused" => r.user \in Users /\ ~ user[r.user].active

\* Only Renewed(c) puts a pair there in the name of c: what c has put there is
\* the pair its refresh presents.
StoreOK(c) ==
  req[c].pc # "none" /\ req[c].old # NoPair /\ store.by = c /\ store.pair # NoPair
    => store.pair = req[c].old

RequestsOK == /\ req \in [Tabs -> Request]
              /\ \A c \in Tabs : RequestOK(req[c]) /\ BarredOK(req[c]) /\ StoreOK(c)

AccountsInv == UsersOK /\ PairsOK /\ BrowserOK /\ LeavingOK /\ RequestsOK

-----------------------------------------------------------------------------
(* Users *)

LEMMA Constants ==
  /\ NoUser \notin Users
  /\ MaxPairs \in Nat /\ Pairs = 1..MaxPairs /\ NoPair \notin Pairs
  /\ TabOf \in [Calls -> Tabs]
BY UsersAssumption, MaxPairsAssumption, TabOfAssumption DEF Pairs, NoPair

\* What a step may do to an account.
Advances(u) ==
  /\ user[u].row = "pending"   => user'[u].row # "none"
  /\ user[u].row = "activated" => user'[u].row = "activated"
  /\ user[u].row = "pending" /\ ~ user[u].live /\ ~ user'[u].active
       => ~ user'[u].live
  /\ user[u].row = "activated" /\ ~ user[u].active /\ user'[u].active
       => \E l \in Links : activate[l] = u

LEMMA UntouchedUsers ==
  ASSUME UsersOK, UNCHANGED dir
  PROVE  UsersOK' /\ \A u \in Users : Advances(u)
BY DEF UsersOK, dir, Advances

LEMMA UsersStep ==
  ASSUME UsersOK, [Next]_vars
  PROVE  UsersOK' /\ \A u \in Users : Advances(u)
<1> USE Constants
<1>1. ASSUME NEW a \in Admins, InsertPending(a)
      PROVE  UsersOK' /\ \A u \in Users : Advances(u)
  BY <1>1 DEF InsertPending, UsersOK, UserOK, UserRow, Pending, Advances
<1>2. ASSUME NEW a \in Admins, NEW u \in Users, CheckAddress(a, u)
      PROVE  UsersOK' /\ \A v \in Users : Advances(v)
  BY <1>2 DEF CheckAddress, UsersOK, Advances
<1>3. ASSUME NEW l \in Links, Activate(l)
      PROVE  UsersOK' /\ \A u \in Users : Advances(u)
  BY <1>3 DEF Activate, ActivateRow, UsersOK, UserOK, UserRow, Activated, Advances
<1>4. ASSUME NEW l \in Links, NEW u \in Users, OpenInvite(l, u)
      PROVE  UsersOK' /\ \A v \in Users : Advances(v)
  BY <1>4 DEF OpenInvite, UsersOK, Advances
<1>5. ASSUME NEW u \in Users, InviteExpires(u)
      PROVE  UsersOK' /\ \A v \in Users : Advances(v)
  BY <1>5 DEF InviteExpires, UsersOK, UserOK, UserRow, Advances
<1>6. ASSUME NEW u \in Users, Deactivate(u)
      PROVE  UsersOK' /\ \A v \in Users : Advances(v)
  BY <1>6 DEF Deactivate, Deactivated, UsersOK, UserOK, UserRow, Advances
<1>7. ASSUME NEW c \in Tabs, ServerStep(c)  PROVE UNCHANGED dir
  BY <1>7 DEF ServerStep, FindSession, DeleteOld, ReloadUser, FindUser,
              InsertSession, LoseRequest
<1>8. CASE (\E n \in Pairs : Expire(n)) \/ BrowserStep \/ UNCHANGED vars
  <2>1. UNCHANGED dir
    BY <1>8 DEF Expire, BrowserStep, StartCall, AnswerCall, Refresh, RefreshWithout,
                Renewed, GiveUp, Unheard, LoadPage, Logout, SignOut, LoggedOut,
                Login, vars, dir
  <2> QED  BY <2>1, UntouchedUsers
<1> QED
  BY <1>1, <1>2, <1>3, <1>4, <1>5, <1>6, <1>7, <1>8, UntouchedUsers
     DEF Next, InviteStep, LinkStep, UserStep

-----------------------------------------------------------------------------
(* Pairs *)

\* Nothing that was issued is taken back, no session is opened again, and no
\* activated row is lost.
Grows == /\ Issued \subseteq Issued'
         /\ \A n \in Issued : pair'[n].session => pair[n].session
         /\ \A u \in Users : user[u].row = "activated" => user'[u].row = "activated"

\* The next number is free, and there is no gap below it.
LEMMA NextPairIsNew ==
  ASSUME PairsOK
  PROVE  NextPair \notin Issued /\ Issued \union {NextPair} = 1..NextPair
<1>1. PICK k \in Nat : Issued = 1..k
  BY DEF PairsOK
<1>2. Cardinality(Issued) = k
  BY <1>1, FS_Interval
<1> QED  BY <1>1, <1>2 DEF NextPair

LEMMA IssuePairOK ==
  ASSUME PairsOK, UsersOK, NEW u \in Users, user[u].row = "activated", IssuePair(u),
         UNCHANGED user
  PROVE  PairsOK' /\ Grows /\ NextPair \in Issued'
<1> DEFINE n == NextPair
<1>1. n \in Pairs /\ pair' = [pair EXCEPT ![n] = NewPair(u)]
  BY DEF IssuePair
<1>2. n \notin Issued /\ Issued \union {n} = 1..n /\ n \in Nat
  BY <1>1, NextPairIsNew, Constants
<1> HIDE DEF n
<1>3. Issued' = Issued \union {n}
  BY <1>1, Constants DEF Issued, PairsOK, NewPair
<1>4. pair' \in [Pairs -> PairRow]
  BY <1>1 DEF PairsOK, NewPair, PairRow
<1>5. \A m \in Issued' : user'[pair'[m].owner].row = "activated"
  BY <1>1, <1>3 DEF PairsOK, NewPair, Issued
<1>6. \A m \in Issued : pair'[m].session => pair[m].session
  BY <1>1, <1>2 DEF PairsOK, Issued
<1> QED  BY <1>2, <1>3, <1>4, <1>5, <1>6 DEF PairsOK, Grows, n

\* A step that issues no pair leaves every owner where it is.
LEMMA NoPairIssued ==
  ASSUME PairsOK, pair' \in [Pairs -> PairRow],
         \A n \in Pairs : /\ pair'[n].owner = pair[n].owner
                          /\ pair'[n].session => pair[n].session,
         \A u \in Users : user[u].row = "activated" => user'[u].row = "activated"
  PROVE  PairsOK' /\ Grows /\ Issued' = Issued
<1>1. Issued' = Issued
  BY DEF Issued
<1>2. \A n \in Issued : pair[n].owner \in Users
  BY DEF PairsOK, PairRow, Issued
<1> QED  BY <1>1, <1>2 DEF PairsOK, Grows, Issued

LEMMA DeletedSession ==
  ASSUME PairsOK, NEW n, DeleteSession(n)
  PROVE  /\ pair' \in [Pairs -> PairRow]
         /\ \A m \in Pairs : /\ pair'[m].owner = pair[m].owner
                             /\ pair'[m].session => pair[m].session
         /\ n \in Pairs => ~ pair'[n].session
BY DEF PairsOK, PairRow, DeleteSession

LEMMA PairsStep ==
  ASSUME AccountsInv, [Next]_vars
  PROVE  PairsOK' /\ Grows
<1>0. /\ UsersOK /\ PairsOK /\ RequestsOK
      /\ \A u \in Users : user[u].row = "activated" => user'[u].row = "activated"
  BY UsersStep DEF AccountsInv, Advances
<1>1. ASSUME NEW c \in Tabs, InsertSession(c)  PROVE PairsOK' /\ Grows
  <2>1. req[c].user \in Users /\ user[req[c].user].row = "activated"
    BY <1>0, <1>1 DEF InsertSession, RequestsOK, RequestOK
  <2> QED  BY <1>0, <1>1, <2>1, IssuePairOK DEF InsertSession, dir
<1>2. ASSUME NEW n, DeleteSession(n)  PROVE PairsOK' /\ Grows
  BY <1>0, <1>2, DeletedSession, NoPairIssued
<1>3. ASSUME NEW n \in Pairs, Expire(n)  PROVE PairsOK' /\ Grows
  <2>1. /\ pair' \in [Pairs -> PairRow]
        /\ \A m \in Pairs : /\ pair'[m].owner = pair[m].owner
                            /\ pair'[m].session => pair[m].session
    <3>1. CASE pair' = [pair EXCEPT ![n].fresh = FALSE]
      BY <1>0, <3>1 DEF PairsOK, PairRow
    <3>2. CASE pair' = [pair EXCEPT ![n].session = FALSE]
      BY <1>0, <3>2 DEF PairsOK, PairRow
    <3> QED  BY <1>3, <3>1, <3>2 DEF Expire
  <2> QED  BY <1>0, <2>1, NoPairIssued
<1>4. CASE UNCHANGED pair
  BY <1>0, <1>4, NoPairIssued DEF PairsOK
<1>5. ASSUME NEW c \in Tabs, ServerStep(c), ~ InsertSession(c)  PROVE PairsOK' /\ Grows
  BY <1>2, <1>4, <1>5 DEF ServerStep, FindSession, DeleteOld, ReloadUser, FindUser, LoseRequest
<1>6. CASE BrowserStep
  BY <1>2, <1>4, <1>6 DEF BrowserStep, StartCall, AnswerCall, Refresh, RefreshWithout,
              Renewed, GiveUp, Unheard, LoadPage, Logout, SignOut, LoggedOut, Login
<1>7. CASE InviteStep \/ LinkStep \/ UserStep \/ UNCHANGED vars
  BY <1>4, <1>7 DEF InviteStep, LinkStep, UserStep, InsertPending, CheckAddress, Activate,
              OpenInvite, InviteExpires, Deactivate, vars
<1> QED  BY <1>1, <1>3, <1>5, <1>6, <1>7 DEF Next

-----------------------------------------------------------------------------
(* The browser *)

Call == [pc : {"idle", "sent", "denied", "waiting", "retry"}, with : Pairs \union {NoPair}]

LEMMA BrowserStaysOK ==
  ASSUME BrowserOK, Grows, PairsOK',
         store'.pair \in Issued' \union {NoPair},
         call' \in [Calls -> Call],
         \A k \in Calls : \/ call'[k].with = call[k].with
                          \/ call'[k].with \in Issued' \union {NoPair}
  PROVE  BrowserOK'
BY DEF BrowserOK, Grows, Call

LEMMA CallsGoHome ==
  ASSUME BrowserOK, NEW c \in Tabs, call' = Home(c)
  PROVE  /\ call' \in [Calls -> Call]
         /\ \A k \in Calls : \/ call'[k].with = call[k].with
                             \/ call'[k].with \in Issued' \union {NoPair}
BY DEF BrowserOK, Home, NoCall, Call

LEMMA BrowserStepOK ==
  ASSUME AccountsInv, [Next]_vars
  PROVE  BrowserOK'
<1> USE DEF Call
<1>0. BrowserOK /\ RequestsOK /\ PairsOK /\ PairsOK' /\ Grows
  BY PairsStep DEF AccountsInv
<1>a. /\ store.pair \in Issued' \union {NoPair}
      /\ call \in [Calls -> Call]
      /\ Issued \subseteq Pairs
  BY <1>0 DEF BrowserOK, Grows, Issued
<1>1. CASE UNCHANGED <<store, call>>
  BY <1>0, <1>1, <1>a, BrowserStaysOK
<1>2. ASSUME NEW k \in Calls, StartCall(k)  PROVE BrowserOK'
  <2>1. call' \in [Calls -> Call]
    BY <1>0, <1>2, <1>a DEF StartCall, BrowserOK
  <2> QED  BY <1>0, <1>2, <1>a, <2>1, BrowserStaysOK DEF StartCall
<1>3. ASSUME NEW k \in Calls, AnswerCall(k)  PROVE BrowserOK'
  <2>1. call' \in [Calls -> Call]
    BY <1>0, <1>3, <1>a DEF AnswerCall, NoCall
  <2>2. \A j \in Calls : \/ call'[j].with = call[j].with
                         \/ call'[j].with \in Issued' \union {NoPair}
    BY <1>0, <1>3, <1>a DEF AnswerCall, NoCall
  <2> QED  BY <1>0, <1>3, <1>a, <2>1, <2>2, BrowserStaysOK DEF AnswerCall
<1>4. ASSUME NEW k \in Calls, Refresh(k)  PROVE BrowserOK'
  <2>1. call' = [call EXCEPT ![k].pc = "waiting"] /\ store' = store
    BY <1>4 DEF Refresh
  <2>2. call' \in [Calls -> Call] /\ \A j \in Calls : call'[j].with = call[j].with
    BY <1>a, <2>1
  <2> QED  BY <1>0, <1>a, <2>1, <2>2, BrowserStaysOK
<1>5. ASSUME NEW c \in Tabs, call' = Home(c),
             store' = store \/ store' = Empty
      PROVE  BrowserOK'
  <2>1. store'.pair \in Issued' \union {NoPair}
    BY <1>5, <1>a DEF Empty
  <2> QED  BY <1>0, <1>5, <2>1, CallsGoHome, BrowserStaysOK
<1>6. ASSUME NEW k \in Calls, RefreshWithout(k)  PROVE BrowserOK'
  <2>1. TabOf[k] \in Tabs
    BY Constants
  <2> QED  BY <1>5, <1>6, <2>1 DEF RefreshWithout
<1>7. ASSUME NEW c \in Tabs, Renewed(c)  PROVE BrowserOK'
  <2>1. req[c].new \in Issued
    BY <1>0, <1>7 DEF Renewed, RequestsOK, RequestOK
  <2>2. call' \in [Calls -> Call]
    BY <1>0, <1>7, <1>a, <2>1 DEF Renewed
  <2>3. \A k \in Calls : \/ call'[k].with = call[k].with
                         \/ call'[k].with \in Issued' \union {NoPair}
    BY <1>0, <1>7, <2>1 DEF Renewed, Grows
  <2>4. store'.pair \in Issued'
    BY <1>0, <1>7, <2>1 DEF Renewed, Grows
  <2> QED  BY <1>0, <2>2, <2>3, <2>4, BrowserStaysOK
<1>8. ASSUME NEW c \in Tabs, GiveUp(c)  PROVE BrowserOK'
  BY <1>1, <1>5, <1>8 DEF GiveUp
<1>9. ASSUME NEW c \in Tabs, LoadPage(c) \/ LoggedOut(c)  PROVE BrowserOK'
  BY <1>5, <1>9 DEF LoadPage, LoggedOut, Leave
<1>10. CASE InviteStep \/ LinkStep \/ UserStep \/ UNCHANGED vars
  BY <1>1, <1>10 DEF InviteStep, LinkStep, UserStep, InsertPending, CheckAddress, Activate,
              OpenInvite, InviteExpires, Deactivate, vars
<1>11. ASSUME NEW c \in Tabs, ServerStep(c)  PROVE BrowserOK'
  BY <1>1, <1>11 DEF ServerStep, FindSession, DeleteOld, ReloadUser, FindUser,
              InsertSession, LoseRequest
<1>12. ASSUME NEW c \in Tabs,
              Unheard(c) \/ Logout(c) \/ SignOut(c) \/ \E u \in Users : Login(c, u)
       PROVE  BrowserOK'
  BY <1>1, <1>12 DEF Unheard, Logout, SignOut, Login
<1>13. ASSUME NEW n \in Pairs, Expire(n)  PROVE BrowserOK'
  BY <1>1, <1>13 DEF Expire
<1>14. CASE BrowserStep
  BY <1>14, <1>2, <1>3, <1>4, <1>6, <1>7, <1>8, <1>9, <1>12 DEF BrowserStep
<1> QED  BY <1>10, <1>11, <1>13, <1>14 DEF Next

\* A tab logs out with a pair from localStorage.
LEMMA LeavingStep ==
  ASSUME AccountsInv, [Next]_vars
  PROVE  LeavingOK'
<1>0. LeavingOK /\ BrowserOK /\ Grows /\ Issued \subseteq Pairs
  BY PairsStep DEF AccountsInv, Issued
<1>1. CASE UNCHANGED leaving
  BY <1>0, <1>1 DEF LeavingOK, Grows
<1>2. ASSUME NEW c \in Tabs, Leave(c)  PROVE LeavingOK'
  BY <1>0, <1>2 DEF LeavingOK, Grows, Leave
<1>3. ASSUME NEW c \in Tabs, Logout(c)  PROVE LeavingOK'
  BY <1>0, <1>3 DEF LeavingOK, Grows, Logout, BrowserOK
<1>4. ASSUME NEW c \in Tabs, ServerStep(c)  PROVE UNCHANGED leaving
  BY <1>4 DEF ServerStep, FindSession, DeleteOld, ReloadUser, FindUser, InsertSession,
              LoseRequest
<1>5. ASSUME NEW k \in Calls,
             StartCall(k) \/ AnswerCall(k) \/ Refresh(k) \/ RefreshWithout(k)
      PROVE  UNCHANGED leaving
  BY <1>5 DEF StartCall, AnswerCall, Refresh, RefreshWithout
<1>6. ASSUME NEW c \in Tabs,
             \/ Renewed(c) \/ GiveUp(c) \/ Unheard(c) \/ SignOut(c)
             \/ \E u \in Users : Login(c, u)
      PROVE  UNCHANGED leaving
  BY <1>6 DEF Renewed, GiveUp, Unheard, SignOut, Login
<1>7. CASE InviteStep \/ LinkStep \/ UserStep \/ (\E n \in Pairs : Expire(n)) \/ UNCHANGED vars
  <2>1. UNCHANGED leaving
    BY <1>7 DEF InviteStep, LinkStep, UserStep, InsertPending, CheckAddress, Activate,
                OpenInvite, InviteExpires, Deactivate, Expire, vars
  <2> QED  BY <1>1, <2>1
<1>8. CASE BrowserStep
  BY <1>1, <1>2, <1>3, <1>5, <1>6, <1>8 DEF BrowserStep, LoadPage, LoggedOut
<1> QED  BY <1>1, <1>4, <1>7, <1>8 DEF Next

-----------------------------------------------------------------------------
(* Requests *)

AllRequestsOK == /\ req \in [Tabs -> Request]
                 /\ \A c \in Tabs : RequestOK(req[c])

\* What the other tables do leaves a request in order.
LEMMA KeptRequest ==
  ASSUME Grows, NEW c \in Tabs, RequestOK(req[c]), req'[c] \in Request,
         req'[c].pc = req[c].pc, req'[c].old = req[c].old, req'[c].new = req[c].new,
         req'[c].user = req[c].user, req'[c].lost = req[c].lost
  PROVE  RequestOK(req[c])'
BY DEF RequestOK, Grows

LEMMA KeptRequests ==
  ASSUME Grows, AllRequestsOK, req' \in [Tabs -> Request],
         \A c \in Tabs :
           /\ req'[c].pc = req[c].pc /\ req'[c].old = req[c].old
           /\ req'[c].new = req[c].new /\ req'[c].user = req[c].user
           /\ req'[c].lost = req[c].lost
  PROVE  AllRequestsOK'
BY KeptRequest DEF AllRequestsOK

LEMMA OneRequest ==
  ASSUME Grows, AllRequestsOK, NEW c \in Tabs, NEW r \in Request,
         req' = [req EXCEPT ![c] = r], RequestOK(req[c])'
  PROVE  AllRequestsOK'
<1>1. \A d \in Tabs \ {c} : req'[d] = req[d] /\ req'[d] \in Request
  BY DEF AllRequestsOK
<1>2. \A d \in Tabs \ {c} : RequestOK(req[d])'
  BY <1>1, KeptRequest DEF AllRequestsOK
<1> QED  BY <1>2 DEF AllRequestsOK

LEMMA RequestEnds ==
  ASSUME Grows, AllRequestsOK, NEW c \in Tabs, req' = [req EXCEPT ![c] = NoReq]
  PROVE  AllRequestsOK'
<1>1. NoReq \in Request
  BY DEF NoReq, Request
<1>2. RequestOK(req[c])'
  BY <1>1 DEF AllRequestsOK, RequestOK, NoReq
<1> QED  BY <1>1, <1>2, OneRequest

\* One statement of a refresh or a login.
LEMMA ServerStepOK ==
  ASSUME AccountsInv, Grows, PairsOK', NEW c \in Tabs, ServerStep(c)
  PROVE  AllRequestsOK'
<1>0. /\ AllRequestsOK /\ PairsOK /\ UsersOK
      /\ req[c] \in Request /\ RequestOK(req[c])
      /\ c \in DOMAIN req
  BY DEF AccountsInv, RequestsOK, AllRequestsOK
<1>a. user' = user
  BY DEF ServerStep, FindSession, DeleteOld, ReloadUser, FindUser, InsertSession,
         LoseRequest, dir
<1>1. ASSUME FindSession(c)  PROVE AllRequestsOK'
  <2> DEFINE r == [req[c] EXCEPT !.pc = IF Session(req[c].old) THEN "delete" ELSE "refused"]
  <2>1. req' = [req EXCEPT ![c] = r] /\ pair' = pair
    BY <1>0, <1>1 DEF FindSession, Go
  <2>2. /\ r \in Request
        /\ r.old = req[c].old /\ r.new = req[c].new /\ r.user = req[c].user
        /\ r.pc = IF Session(req[c].old) THEN "delete" ELSE "refused"
    BY <1>0 DEF Request
  <2>r. req'[c] = r
    BY <1>0, <2>1
  <2> HIDE DEF r
  <2>3. RequestOK(req[c])'
    BY <1>0, <1>1, <1>a, <2>1, <2>2, <2>r DEF RequestOK, FindSession, Session, Issued
  <2> QED  BY <1>0, <2>1, <2>2, <2>3, OneRequest
<1>2. ASSUME DeleteOld(c)  PROVE AllRequestsOK'
  <2> DEFINE r == [req[c] EXCEPT !.pc = "reload"]
  <2>1. req' = [req EXCEPT ![c] = r]
    BY <1>0, <1>2 DEF DeleteOld, Go
  <2>2. /\ r \in Request
        /\ r.old = req[c].old /\ r.new = req[c].new /\ r.user = req[c].user
        /\ r.pc = "reload"
    BY <1>0 DEF Request
  <2>r. req'[c] = r
    BY <1>0, <2>1
  <2> HIDE DEF r
  <2>3. req[c].old # NoPair => ~ pair'[req[c].old].session
    BY <1>0, <1>2, DeletedSession DEF DeleteOld, RequestOK, Issued
  <2>4. RequestOK(req[c])'
    BY <1>0, <1>2, <1>a, <2>r, <2>2, <2>3 DEF RequestOK, DeleteOld, Grows
  <2> QED  BY <1>0, <2>1, <2>2, <2>4, OneRequest
<1>3. ASSUME ReloadUser(c)  PROVE AllRequestsOK'
  <2> DEFINE r == [req[c] EXCEPT !.pc = IF Known(req[c].user) THEN "insert" ELSE "refused"]
  <2>1. req' = [req EXCEPT ![c] = r] /\ pair' = pair
    BY <1>0, <1>3 DEF ReloadUser, Go
  <2>2. /\ r \in Request
        /\ r.old = req[c].old /\ r.new = req[c].new /\ r.user = req[c].user
        /\ r.lost = req[c].lost
        /\ r.pc = IF Known(req[c].user) THEN "insert" ELSE "refused"
    BY <1>0 DEF Request
  <2>r. req'[c] = r
    BY <1>0, <2>1
  <2> HIDE DEF r
  <2>3. RequestOK(req[c])'
    BY <1>0, <1>3, <1>a, <2>1, <2>2, <2>r DEF RequestOK, ReloadUser, Issued
  <2> QED  BY <1>0, <2>1, <2>2, <2>3, OneRequest
<1>4. ASSUME FindUser(c)  PROVE AllRequestsOK'
  <2> DEFINE r == [req[c] EXCEPT !.pc = IF CanLogin(req[c].user) THEN "insert" ELSE "refused"]
  <2>1. req' = [req EXCEPT ![c] = r] /\ pair' = pair
    BY <1>0, <1>4 DEF FindUser, Go
  <2>2. /\ r \in Request
        /\ r.old = req[c].old /\ r.new = req[c].new /\ r.user = req[c].user
        /\ r.pc = IF CanLogin(req[c].user) THEN "insert" ELSE "refused"
    BY <1>0 DEF Request
  <2>r. req'[c] = r
    BY <1>0, <2>1
  <2> HIDE DEF r
  <2>3. RequestOK(req[c])'
    BY <1>0, <1>4, <1>a, <2>1, <2>2, <2>r DEF RequestOK, FindUser, CanLogin, Issued
  <2> QED  BY <1>0, <2>1, <2>2, <2>3, OneRequest
<1>5. ASSUME InsertSession(c)  PROVE AllRequestsOK'
  <2> DEFINE r == [req[c] EXCEPT !.pc = "issued", !.new = NextPair]
  <2>1. req' = [req EXCEPT ![c] = r] /\ NextPair \in Pairs
    BY <1>0, <1>5 DEF InsertSession, IssuePair
  <2>2. r \in Request
    BY <1>0, <2>1 DEF Request
  <2>3. req[c].user \in Users /\ user[req[c].user].row = "activated"
    BY <1>0, <1>5 DEF InsertSession, RequestOK
  <2>4. NextPair \in Issued'
    BY <1>0, <1>5, <1>a, <2>3, IssuePairOK DEF InsertSession
  <2>5. r.old = req[c].old /\ r.pc = "issued" /\ r.new = NextPair
    BY <1>0 DEF Request
  <2>6. RequestOK(req[c])'
    BY <1>0, <2>1, <2>2, <2>4, <2>5 DEF RequestOK, Grows, AllRequestsOK
  <2> QED  BY <1>0, <2>1, <2>2, <2>6, OneRequest
<1>6. ASSUME LoseRequest(c)  PROVE AllRequestsOK'
  <2> DEFINE r == [req[c] EXCEPT !.pc = "refused", !.lost = TRUE]
  <2>1. req' = [req EXCEPT ![c] = r] /\ pair' = pair
    BY <1>0, <1>6 DEF LoseRequest
  <2>2. /\ r \in Request
        /\ r.old = req[c].old /\ r.new = req[c].new /\ r.user = req[c].user
        /\ r.pc = "refused" /\ r.lost
    BY <1>0 DEF Request
  <2>r. req'[c] = r
    BY <1>0, <2>1
  <2> HIDE DEF r
  <2>3. RequestOK(req[c])'
    BY <1>0, <1>a, <2>1, <2>2, <2>r DEF RequestOK, Issued
  <2> QED  BY <1>0, <2>1, <2>2, <2>3, OneRequest
<1> QED  BY <1>1, <1>2, <1>3, <1>4, <1>5, <1>6 DEF ServerStep

LEMMA RequestStep ==
  ASSUME AccountsInv, [Next]_vars
  PROVE  AllRequestsOK'
<1>0. AllRequestsOK /\ UsersOK /\ PairsOK /\ BrowserOK /\ PairsOK' /\ Grows
  BY PairsStep DEF AccountsInv, RequestsOK, AllRequestsOK
<1>1. CASE UNCHANGED req
  BY <1>0, <1>1, KeptRequests DEF AllRequestsOK
<1>2. ASSUME NEW c \in Tabs, ServerStep(c)  PROVE AllRequestsOK'
  BY <1>0, <1>2, ServerStepOK
<1>3. ASSUME NEW u, LetIn(u)  PROVE AllRequestsOK'
  <2>1. /\ req' \in [Tabs -> Request]
        /\ \A c \in Tabs :
             /\ req'[c].pc = req[c].pc /\ req'[c].old = req[c].old
             /\ req'[c].new = req[c].new /\ req'[c].user = req[c].user
             /\ req'[c].lost = req[c].lost
    BY <1>0, <1>3 DEF LetIn, AllRequestsOK, Request
  <2> QED  BY <1>0, <2>1, KeptRequests
<1>4. ASSUME NEW u \in Users, Deactivate(u)  PROVE AllRequestsOK'
  <2>1. /\ req' \in [Tabs -> Request]
        /\ \A c \in Tabs :
             /\ req'[c].pc = req[c].pc /\ req'[c].old = req[c].old
             /\ req'[c].new = req[c].new /\ req'[c].user = req[c].user
             /\ req'[c].lost = req[c].lost
    <3>1. \A r \in Request : LET barred == [r EXCEPT !.barred = TRUE] IN
             /\ barred \in Request
             /\ barred.pc = r.pc /\ barred.old = r.old /\ barred.new = r.new
             /\ barred.user = r.user /\ barred.lost = r.lost
      BY DEF Request
    <3>2. /\ req \in [Tabs -> Request]
          /\ req' = [c \in Tabs |->
               IF req[c].user = u /\ req[c].pc \in {"find", "delete", "reload", "login"}
                 THEN [req[c] EXCEPT !.barred = TRUE] ELSE req[c]]
      BY <1>0, <1>4 DEF Deactivate, AllRequestsOK
    <3> QED BY <3>1, <3>2
  <2> QED  BY <1>0, <2>1, KeptRequests
<1>5. ASSUME NEW c \in Tabs, Leave(c)  PROVE AllRequestsOK'
  <2>1. /\ req' \in [Tabs -> Request]
        /\ \A d \in Tabs :
             /\ req'[d].pc = req[d].pc /\ req'[d].old = req[d].old
             /\ req'[d].new = req[d].new /\ req'[d].user = req[d].user
             /\ req'[d].lost = req[d].lost
    <3>1. PICK h \in BOOLEAN : req' = [req EXCEPT ![c].heard = h]
      BY <1>5 DEF Leave
    <3> QED  BY <1>0, <3>1 DEF AllRequestsOK, Request
  <2> QED  BY <1>0, <2>1, KeptRequests
<1>6. ASSUME NEW c \in Tabs, Renewed(c) \/ GiveUp(c) \/ Unheard(c)  PROVE AllRequestsOK'
  BY <1>0, <1>6, RequestEnds DEF Renewed, GiveUp, Unheard
<1>7. ASSUME NEW c \in Tabs, NEW u \in Users, Login(c, u)  PROVE AllRequestsOK'
  <2> DEFINE r == [NoReq EXCEPT !.pc = "login", !.user = u, !.barred = ~ user[u].active]
  <2>1. req' = [req EXCEPT ![c] = r]
    BY <1>7 DEF Login
  <2>2. /\ r \in Request
        /\ r.pc = "login" /\ r.old = NoPair /\ r.new = NoPair /\ r.user = u
    BY DEF Request, NoReq
  <2>3. req'[c] = r
    BY <1>0, <2>1 DEF AllRequestsOK
  <2> HIDE DEF r
  <2>4. RequestOK(req[c])'
    BY <2>2, <2>3 DEF RequestOK
  <2> QED  BY <1>0, <2>1, <2>2, <2>4, OneRequest
<1>8. ASSUME NEW k \in Calls, Refresh(k)  PROVE AllRequestsOK'
  <2> DEFINE c == TabOf[k]
             n == store.pair
             r == [NoReq EXCEPT !.pc = "find", !.old = n, !.user = pair[n].owner,
                                !.barred = ~ user[pair[n].owner].active]
  <2>0. c \in Tabs
    BY Constants
  <2>1. CASE n # NoPair /\ req' = [req EXCEPT ![c] = r]
    <3>1. n \in Issued /\ pair[n].owner \in Users /\ n \in Issued' /\ pair' = pair
          /\ user' = user /\ user[pair[n].owner].row = "activated"
      BY <1>0, <1>8, <2>1 DEF BrowserOK, PairsOK, PairRow, Issued, Grows, Refresh, dir
    <3>2. /\ r \in Request
          /\ r.pc = "find" /\ r.old = n /\ r.new = NoPair /\ r.user = pair[n].owner
      BY <3>1 DEF Request, NoReq, Issued
    <3>3. req'[c] = r
      BY <1>0, <2>0, <2>1 DEF AllRequestsOK
    <3> HIDE DEF r, n, c
    <3>4. RequestOK(req[c])'
      BY <3>1, <3>2, <3>3 DEF RequestOK
    <3> QED  BY <1>0, <2>0, <2>1, <3>2, <3>4, OneRequest
  <2> QED  BY <1>1, <1>8, <2>1 DEF Refresh
<1>9. CASE InviteStep \/ LinkStep \/ UserStep
  BY <1>1, <1>3, <1>4, <1>9 DEF InviteStep, LinkStep, UserStep, InsertPending, CheckAddress,
              Activate, OpenInvite, InviteExpires
<1>10. CASE (\E n \in Pairs : Expire(n)) \/ UNCHANGED vars
  BY <1>1, <1>10 DEF Expire, vars
<1>11. CASE BrowserStep
  <2>1. ASSUME NEW k \in Calls, StartCall(k) \/ AnswerCall(k) \/ RefreshWithout(k)
        PROVE  UNCHANGED req
    BY <2>1 DEF StartCall, AnswerCall, RefreshWithout
  <2>2. ASSUME NEW c \in Tabs, LoadPage(c) \/ LoggedOut(c)  PROVE Leave(c)
    BY <2>2 DEF LoadPage, LoggedOut
  <2>3. ASSUME NEW c \in Tabs, Logout(c) \/ SignOut(c)  PROVE UNCHANGED req
    BY <2>3 DEF Logout, SignOut
  <2> QED  BY <1>1, <1>5, <1>6, <1>7, <1>8, <1>11, <2>1, <2>2, <2>3 DEF BrowserStep
<1> QED  BY <1>2, <1>9, <1>10, <1>11 DEF Next

-----------------------------------------------------------------------------
(* Requests of a deactivated user *)

AllBarredOK == \A c \in Tabs : BarredOK(req[c])

\* Nobody is let in who was not: only an activation does that.
NobodyLetIn == \A u \in Users : ~ user[u].active => ~ user'[u].active

LEMMA KeptBarred ==
  ASSUME NobodyLetIn, AllBarredOK,
         \A c \in Tabs : \/ req'[c] = req[c]
                         \/ ~ req'[c].barred
                         \/ /\ req'[c].barred = req[c].barred
                            /\ req'[c].pc = req[c].pc
                            /\ req'[c].new = req[c].new
                            /\ req'[c].user = req[c].user
  PROVE  AllBarredOK'
BY DEF NobodyLetIn, AllBarredOK, BarredOK

LEMMA BarredServerStep ==
  ASSUME AccountsInv, NEW c \in Tabs, ServerStep(c)
  PROVE  AllBarredOK'
<1>0. /\ AllRequestsOK /\ AllBarredOK
      /\ req \in [Tabs -> Request] /\ req[c] \in Request /\ RequestOK(req[c]) /\ BarredOK(req[c])
  BY DEF AccountsInv, RequestsOK, AllRequestsOK, AllBarredOK
<1>a. user' = user
  BY DEF ServerStep, FindSession, DeleteOld, ReloadUser, FindUser, InsertSession,
         LoseRequest, dir
<1>b. ASSUME NEW d \in Tabs \ {c}  PROVE req'[d] = req[d]
  BY <1>0 DEF ServerStep, FindSession, DeleteOld, ReloadUser, FindUser, InsertSession,
              LoseRequest, Go
<1>1. /\ req'[c].barred = req[c].barred /\ req'[c].user = req[c].user
      /\ ~ InsertSession(c) => req'[c].new = req[c].new
  BY <1>0 DEF ServerStep, FindSession, DeleteOld, ReloadUser, FindUser, InsertSession,
              LoseRequest, Go, Request
<1>2. BarredOK(req[c])'
  <2>1. CASE InsertSession(c)
    BY <1>0, <1>1, <2>1 DEF InsertSession, BarredOK
  <2>2. CASE LoseRequest(c)
    <3>1. req'[c].pc = "refused"
      BY <1>0, <2>2 DEF LoseRequest, Request
    <3> QED  BY <1>0, <1>1, <2>2, <3>1 DEF BarredOK, LoseRequest, InsertSession
  <2>3. CASE FindSession(c) \/ DeleteOld(c)
    <3>1. req'[c].pc \in {"delete", "reload", "refused"} /\ req[c].pc # "refused"
      BY <1>0, <2>3 DEF FindSession, DeleteOld, Go, Request
    <3> QED  BY <1>0, <1>1, <1>a, <2>3, <3>1
                DEF BarredOK, FindSession, DeleteOld, InsertSession
  <2>4. CASE ReloadUser(c) \/ FindUser(c)
    <3>1. req[c].barred => req'[c].pc = "refused"
      BY <1>0, <2>4 DEF ReloadUser, FindUser, Go, Request, BarredOK, Known, CanLogin
    <3> QED  BY <1>0, <1>1, <2>4, <3>1 DEF BarredOK, ReloadUser, FindUser, InsertSession
  <2> QED  BY <2>1, <2>2, <2>3, <2>4 DEF ServerStep
<1> QED  BY <1>0, <1>a, <1>b, <1>2 DEF AllBarredOK, BarredOK

LEMMA BarredStep ==
  ASSUME AccountsInv, [Next]_vars
  PROVE  AllBarredOK'
<1>0. /\ AllRequestsOK /\ AllBarredOK /\ UsersOK /\ PairsOK /\ BrowserOK
      /\ req \in [Tabs -> Request]
  BY DEF AccountsInv, RequestsOK, AllRequestsOK, AllBarredOK
<1>1. CASE UNCHANGED <<user, req>>
  BY <1>0, <1>1, KeptBarred DEF NobodyLetIn
<1>2. ASSUME NEW a \in Admins, InsertPending(a) \/ \E u \in Users : CheckAddress(a, u)
      PROVE  AllBarredOK'
  <2>1. NobodyLetIn /\ req' = req
    BY <1>0, <1>2 DEF InsertPending, CheckAddress, NobodyLetIn, UsersOK, Pending
  <2> QED  BY <1>0, <2>1, KeptBarred
<1>3. ASSUME NEW l \in Links, Activate(l)  PROVE AllBarredOK'
  <2>1. PICK u \in Users : u = activate[l] /\ user' = [user EXCEPT ![u] = Activated] /\ LetIn(u)
    BY <1>0, <1>3, Constants DEF Activate, ActivateRow, UsersOK
  <2>2. ASSUME NEW c \in Tabs  PROVE BarredOK(req[c])'
    <3>1. CASE req[c].user = u
      <4>1. ~ req'[c].barred
        BY <1>0, <2>1, <3>1 DEF LetIn, Request
      <4> QED  BY <4>1 DEF BarredOK
    <3>2. CASE req[c].user # u
      BY <1>0, <2>1, <3>2 DEF LetIn, BarredOK, AllBarredOK, UsersOK
    <3> QED  BY <3>1, <3>2
  <2> QED  BY <2>2 DEF AllBarredOK
<1>4. ASSUME NEW u \in Users, Deactivate(u)  PROVE AllBarredOK'
  <2>1. /\ NobodyLetIn /\ ~ user'[u].active
    BY <1>0, <1>4 DEF Deactivate, Deactivated, NobodyLetIn, UsersOK, UserRow
  <2>2. ASSUME NEW c \in Tabs  PROVE BarredOK(req[c])'
    <3>1. CASE req[c].user = u /\ req[c].pc \in {"find", "delete", "reload", "login"}
      <4>1. /\ req'[c].pc = req[c].pc /\ req'[c].user = u /\ req'[c].new = req[c].new
        BY <1>0, <1>4, <3>1 DEF Deactivate, Request
      <4>2. req[c].new = NoPair
        BY <1>0, <3>1 DEF AllRequestsOK, RequestOK
      <4> QED  BY <2>1, <3>1, <4>1, <4>2 DEF BarredOK
    <3>2. CASE ~ (req[c].user = u /\ req[c].pc \in {"find", "delete", "reload", "login"})
      <4>1. req'[c] = req[c] /\ BarredOK(req[c])
        BY <1>0, <1>4, <3>2 DEF Deactivate, AllBarredOK
      <4> QED  BY <2>1, <4>1 DEF BarredOK, NobodyLetIn
    <3> QED  BY <3>1, <3>2
  <2> QED  BY <2>2 DEF AllBarredOK
<1>5. ASSUME NEW u \in Users, InviteExpires(u)  PROVE AllBarredOK'
  <2>1. NobodyLetIn /\ req' = req
    BY <1>0, <1>5 DEF InviteExpires, NobodyLetIn, UsersOK, UserRow
  <2> QED  BY <1>0, <2>1, KeptBarred
<1>6. ASSUME NEW c \in Tabs, UNCHANGED user, req' = [req EXCEPT ![c] = NoReq] \/ Leave(c)
      PROVE  AllBarredOK'
  <2>1. ASSUME NEW d \in Tabs
        PROVE  \/ req'[d] = req[d]
               \/ ~ req'[d].barred
               \/ /\ req'[d].barred = req[d].barred /\ req'[d].pc = req[d].pc
                  /\ req'[d].new = req[d].new /\ req'[d].user = req[d].user
    BY <1>0, <1>6 DEF Leave, NoReq, Request
  <2> QED  BY <1>0, <1>6, <2>1, KeptBarred DEF NobodyLetIn
<1>7. ASSUME NEW c \in Tabs, NEW u \in Users, Login(c, u)  PROVE AllBarredOK'
  <2>1. /\ user' = user /\ \A d \in Tabs \ {c} : req'[d] = req[d]
        /\ req'[c].barred = ~ user[u].active /\ req'[c].user = u /\ req'[c].pc = "login"
        /\ req'[c].new = NoPair
    BY <1>0, <1>7 DEF Login, dir, NoReq
  <2> QED  BY <1>0, <2>1 DEF AllBarredOK, BarredOK
<1>8. ASSUME NEW k \in Calls, Refresh(k)  PROVE AllBarredOK'
  <2> DEFINE c == TabOf[k]
             n == store.pair
  <2>1. CASE n # NoPair /\ req' = [req EXCEPT ![c] = [NoReq EXCEPT
               !.pc = "find", !.old = n, !.user = pair[n].owner,
               !.barred = ~ user[pair[n].owner].active]]
    <3>1. c \in Tabs /\ user' = user /\ pair[n].owner \in Users
      BY <1>0, <1>8, <2>1, Constants DEF BrowserOK, PairsOK, PairRow, Issued, Refresh, dir
    <3>2. /\ \A d \in Tabs \ {c} : req'[d] = req[d]
          /\ req'[c].barred = ~ user[pair[n].owner].active
          /\ req'[c].user = pair[n].owner /\ req'[c].pc = "find" /\ req'[c].new = NoPair
      BY <1>0, <2>1, <3>1 DEF NoReq
    <3>3. BarredOK(req[c])'
      BY <3>1, <3>2 DEF BarredOK
    <3>4. ASSUME NEW d \in Tabs \ {c}  PROVE BarredOK(req[d])'
      BY <1>0, <3>1, <3>2 DEF AllBarredOK, BarredOK
    <3> QED  BY <3>3, <3>4 DEF AllBarredOK
  <2> QED  BY <1>1, <1>8, <2>1 DEF Refresh, dir
<1>9. CASE InviteStep \/ LinkStep \/ UserStep
  BY <1>1, <1>2, <1>3, <1>4, <1>5, <1>9 DEF InviteStep, LinkStep, UserStep, OpenInvite
<1>10. CASE (\E n \in Pairs : Expire(n)) \/ UNCHANGED vars
  BY <1>1, <1>10 DEF Expire, vars, dir
<1>11. CASE BrowserStep
  <2>1. ASSUME NEW k \in Calls, StartCall(k) \/ AnswerCall(k) \/ RefreshWithout(k)
        PROVE  UNCHANGED <<user, req>>
    BY <2>1 DEF StartCall, AnswerCall, RefreshWithout, dir
  <2>2. ASSUME NEW c \in Tabs,
               Renewed(c) \/ GiveUp(c) \/ Unheard(c) \/ LoadPage(c) \/ LoggedOut(c)
        PROVE  UNCHANGED user /\ (req' = [req EXCEPT ![c] = NoReq] \/ Leave(c))
    BY <2>2 DEF Renewed, GiveUp, Unheard, LoadPage, LoggedOut, dir
  <2>3. ASSUME NEW c \in Tabs, Logout(c) \/ SignOut(c)  PROVE UNCHANGED <<user, req>>
    BY <2>3 DEF Logout, SignOut, dir
  <2> QED  BY <1>1, <1>6, <1>7, <1>8, <1>11, <2>1, <2>2, <2>3 DEF BrowserStep
<1> QED  BY <1>9, <1>10, <1>11, BarredServerStep DEF Next

-----------------------------------------------------------------------------
(* What a tab has put into localStorage *)

LEMMA KeptStore ==
  ASSUME NEW c \in Tabs, StoreOK(c),
         store' = store \/ store'.pair = NoPair \/ store'.by # c,
         \/ req'[c].pc = "none"
         \/ req'[c].old = NoPair
         \/ req'[c].old = store'.pair
         \/ req'[c].old = req[c].old /\ (req[c].pc = "none" => req'[c].pc = "none")
  PROVE  StoreOK(c)'
BY DEF StoreOK

LEMMA StoreStep ==
  ASSUME AccountsInv, [Next]_vars, NEW c \in Tabs
  PROVE  StoreOK(c)'
<1>0. req \in [Tabs -> Request] /\ req[c] \in Request /\ StoreOK(c)
  BY DEF AccountsInv, RequestsOK
<1>1. ASSUME store' = store,
             req'[c].old = req[c].old, req[c].pc = "none" => req'[c].pc = "none"
      PROVE  StoreOK(c)'
  BY <1>0, <1>1, KeptStore
<1>2. CASE UNCHANGED <<store, req>>
  BY <1>1, <1>2
<1>3. CASE InviteStep \/ LinkStep \/ UserStep
  <2>1. store' = store
    BY <1>3 DEF InviteStep, LinkStep, UserStep, InsertPending, CheckAddress, Activate,
                OpenInvite, InviteExpires, Deactivate
  <2>2. req'[c].old = req[c].old /\ req'[c].pc = req[c].pc
    BY <1>0, <1>3 DEF InviteStep, LinkStep, UserStep, InsertPending, CheckAddress, Activate,
                      LetIn, OpenInvite, InviteExpires, Deactivate, Request
  <2> QED  BY <1>1, <2>1, <2>2
<1>4. ASSUME NEW d \in Tabs, ServerStep(d)  PROVE StoreOK(c)'
  <2>1. store' = store /\ req[d].pc # "none"
    BY <1>4 DEF ServerStep, FindSession, DeleteOld, ReloadUser, FindUser, InsertSession,
                LoseRequest
  <2>2. req'[c].old = req[c].old /\ (req[c].pc = "none" => req'[c].pc = "none")
    BY <1>0, <1>4, <2>1 DEF ServerStep, FindSession, DeleteOld, ReloadUser, FindUser,
                      InsertSession, LoseRequest, Go, Request
  <2> QED  BY <1>1, <2>1, <2>2
<1>5. CASE (\E n \in Pairs : Expire(n)) \/ UNCHANGED vars
  BY <1>2, <1>5 DEF Expire, vars
<1>6. ASSUME NEW k \in Calls, StartCall(k) \/ AnswerCall(k) \/ RefreshWithout(k)
      PROVE  StoreOK(c)'
  BY <1>2, <1>6 DEF StartCall, AnswerCall, RefreshWithout
<1>7. ASSUME NEW k \in Calls, Refresh(k)  PROVE StoreOK(c)'
  <2>1. CASE UNCHANGED req
    BY <1>2, <1>7, <2>1 DEF Refresh
  <2>2. CASE /\ req[TabOf[k]].pc = "none"
             /\ req' = [req EXCEPT ![TabOf[k]] = [NoReq EXCEPT
                  !.pc = "find", !.old = store.pair, !.user = pair[store.pair].owner,
                  !.barred = ~ user[pair[store.pair].owner].active]]
    <3>1. store' = store
      BY <1>7 DEF Refresh
    <3>2. IF c = TabOf[k] THEN req'[c].old = store'.pair ELSE req'[c] = req[c]
      BY <1>0, <2>2, <3>1 DEF NoReq
    <3> QED  BY <1>0, <3>1, <3>2, KeptStore
  <2> QED  BY <1>7, <2>1, <2>2 DEF Refresh
<1>8. ASSUME NEW d \in Tabs, Renewed(d)  PROVE StoreOK(c)'
  <2>1. store'.by = d
    BY <1>8 DEF Renewed
  <2>2. IF c = d THEN req'[c].pc = "none" ELSE req'[c] = req[c]
    BY <1>0, <1>8 DEF Renewed, NoReq
  <2> QED  BY <1>0, <2>1, <2>2 DEF StoreOK
<1>9. ASSUME NEW d \in Tabs, GiveUp(d) \/ Unheard(d)  PROVE StoreOK(c)'
  <2>1. store' = store \/ store'.pair = NoPair
    BY <1>9 DEF GiveUp, Unheard, Empty
  <2>2. IF c = d THEN req'[c].pc = "none" ELSE req'[c] = req[c]
    BY <1>0, <1>9 DEF GiveUp, Unheard, NoReq
  <2> QED  BY <1>0, <2>1, <2>2, KeptStore
<1>10. ASSUME NEW d \in Tabs, LoadPage(d) \/ LoggedOut(d)  PROVE StoreOK(c)'
  <2>1. store' = store \/ store'.pair = NoPair
    BY <1>10 DEF LoadPage, LoggedOut, Empty
  <2>2. req'[c].old = req[c].old /\ req'[c].pc = req[c].pc
    BY <1>0, <1>10 DEF LoadPage, LoggedOut, Leave, Request
  <2> QED  BY <1>0, <2>1, <2>2, KeptStore
<1>11. ASSUME NEW d \in Tabs, NEW u \in Users, Login(d, u)  PROVE StoreOK(c)'
  <2>1. store' = store
    BY <1>11 DEF Login
  <2>2. IF c = d THEN req'[c].old = NoPair ELSE req'[c] = req[c]
    BY <1>0, <1>11 DEF Login, NoReq
  <2> QED  BY <1>0, <2>1, <2>2, KeptStore
<1>12. ASSUME NEW d \in Tabs, Logout(d) \/ SignOut(d)  PROVE StoreOK(c)'
  BY <1>2, <1>12 DEF Logout, SignOut
<1> QED
  BY <1>3, <1>4, <1>5, <1>6, <1>7, <1>8, <1>9, <1>10, <1>11, <1>12 DEF Next, BrowserStep

-----------------------------------------------------------------------------
(* The theorems *)

LEMMA AccountsStart == Init => AccountsInv
<1> SUFFICES ASSUME Init  PROVE AccountsInv
  OBVIOUS
<1>1. UsersOK
  <2>1. ASSUME NEW u \in Users  PROVE user[u] \in {Absent, Activated}
    BY DEF Init
  <2>2. UserOK(Absent) /\ UserOK(Activated)
    BY DEF UserOK, UserRow, Absent, Activated
  <2>3. user \in [Users -> UserRow]
    BY <2>1, <2>2 DEF Init, UserOK
  <2> QED  BY <2>1, <2>2, <2>3 DEF Init, UsersOK
<1>2. PairsOK
  <2>1. Issued = {}
    BY DEF Init, Issued
  <2>2. {} = 1..0 /\ 0 \in Nat
    OBVIOUS
  <2> QED  BY <2>1, <2>2 DEF Init, PairsOK, PairRow
<1>3. BrowserOK
  BY DEF Init, BrowserOK, Empty, NoCall
<1>4. RequestsOK
  <2>1. NoReq \in Request
    BY DEF NoReq, Request
  <2>2. ASSUME NEW c \in Tabs  PROVE req[c] = NoReq
    BY DEF Init
  <2>3. ASSUME NEW c \in Tabs  PROVE RequestOK(req[c]) /\ BarredOK(req[c]) /\ StoreOK(c)
    <3>1. /\ NoReq.pc = "none" /\ NoReq.old = NoPair /\ NoReq.new = NoPair
          /\ ~ NoReq.barred
      BY DEF NoReq
    <3>2. RequestOK(NoReq)
      BY <2>1, <3>1 DEF RequestOK
    <3> QED  BY <2>2, <3>1, <3>2 DEF BarredOK, StoreOK
  <2> QED  BY <2>1, <2>3 DEF Init, RequestsOK
<1>5. LeavingOK
  BY DEF Init, LeavingOK
<1> QED  BY <1>1, <1>2, <1>3, <1>4, <1>5 DEF AccountsInv

LEMMA AccountsKept == AccountsInv /\ [Next]_vars => AccountsInv'
<1> SUFFICES ASSUME AccountsInv, [Next]_vars  PROVE AccountsInv'
  OBVIOUS
<1>1. UsersOK' /\ PairsOK' /\ BrowserOK' /\ LeavingOK'
  BY UsersStep, PairsStep, BrowserStepOK, LeavingStep DEF AccountsInv
<1>2. RequestsOK'
  BY RequestStep, BarredStep, StoreStep DEF RequestsOK, AllRequestsOK, AllBarredOK
<1> QED  BY <1>1, <1>2 DEF AccountsInv

LEMMA AccountsAlways == Spec => []AccountsInv
BY AccountsStart, AccountsKept, PTL DEF Spec

\* Every row, pair, request and call keeps its shape: only a pending row has a
\* live invitation, only an activated row is let in, every pair belongs to an
\* activated row, and the browser holds no pair that was not issued.
THEOREM AccountsTypeCorrect == Spec => []TypeOK
<1>1. AccountsInv => TypeOK
  BY DEF AccountsInv, UsersOK, UserOK, UserRow, PairsOK, PairRow, BrowserOK, LeavingOK,
         RequestsOK, RequestOK, TypeOK
<1> QED  BY <1>1, AccountsAlways, PTL

\* However many administrators invite and however often a link is clicked, a row
\* is never lost, a spent invitation is never good again, and a deactivated
\* account comes back only by an activation that had begun before.
THEOREM AccountsAdvance == Spec => AccountsOnlyAdvance
<1>1. AccountsInv /\ [Next]_vars => \A u \in Users : Advances(u)
  BY UsersStep DEF AccountsInv
<1>2. (\A u \in Users : Advances(u)) =>
        \A u \in Users :
          /\ user[u].row = "pending"   => user'[u].row # "none"
          /\ user[u].row = "activated" => user'[u].row = "activated"
          /\ user[u].row = "pending" /\ ~ user[u].live /\ ~ user'[u].active
               => ~ user'[u].live
          /\ user[u].row = "activated" /\ ~ user[u].active /\ user'[u].active
               => \E l \in Links : activate[l] = u
  BY DEF Advances
<1> QED  BY <1>1, <1>2, AccountsAlways, PTL DEF Spec, AccountsOnlyAdvance

\* No refresh and no login that began before its user was deactivated, and had
\* not looked at the user yet, ends with a pair of tokens.
THEOREM DeactivationStopsRequests == Spec => []NoPairAfterDeactivation
<1>1. AccountsInv => NoPairAfterDeactivation
  BY DEF AccountsInv, RequestsOK, BarredOK, NoPairAfterDeactivation
<1> QED  BY <1>1, AccountsAlways, PTL

\* A tab that empties localStorage after a refused refresh throws away nothing
\* of use that it had put there itself, unless the answer was lost: the pair it
\* presented has no session any more, and is the pair in localStorage.
THEOREM RefusedPairIsSpent == Spec => NothingLiveThrownAway
<1> DEFINE Kept(c) == req[c].pc = "refused" /\ req[c].old # NoPair /\ ~ req[c].lost
                       /\ store.pair # NoPair /\ store.by = c
                     => ~ Session(store.pair)
<1>1. AccountsInv => \A c \in Tabs : Kept(c)
  BY DEF AccountsInv, RequestsOK, RequestOK, StoreOK, Session
<1>2. (\A c \in Tabs : Kept(c)) =>
        \A c \in Tabs :
          /\ req[c].pc = "refused" /\ req[c].old # NoPair /\ ~ req[c].lost
          /\ store.pair # NoPair /\ store'.pair = NoPair /\ store.by = c
          /\ req'[c].pc = "none"
          => ~ Session(store.pair)
  OBVIOUS
<1> HIDE DEF Kept
<1> QED  BY <1>1, <1>2, AccountsAlways, PTL DEF Spec, NothingLiveThrownAway

-----------------------------------------------------------------------------
(* Installation: the inductive invariant *)

Settings == [provider : Providers \union {"test"}, key : Secrets \union {None},
             url : Secrets \union {None}]

Page == [step : {"llm", "summary"}, form : Command, probe : {"none", "ok", "bad"},
         testing : Seq(Command), loading : BOOLEAN]

InitRequest  == [pc : {"idle", "probe", "commit", "flip"}, cmd : Command]
PatchRequest == [pc : {"idle", "probe", "write"}, cmd : Command, space : Nat,
                 new : Settings]

Shapes == /\ spaces \in Seq(Settings)
          /\ wizard \in Page
          /\ init \in [Inits -> InitRequest]
          /\ patch \in [Patches -> PatchRequest]

Kept(row)    == {row.key, row.url} \ {None}
HasWayIn(row) == row.provider = "openai" => row.key # None \/ row.url # None

\* What is about to be inserted was probed.
ProbedInits ==
  \A i \in Inits : init[i].pc = "commit" =>
    Typed(init[i].cmd) \subseteq accepted /\ ~ NoWayIn(init[i].cmd)

\* What is about to be written was probed, or kept from a row that was.
ProbedPatches ==
  \A p \in Patches :
    /\ patch[p].pc = "probe" =>
         Kept(patch[p].new) \subseteq accepted \union Typed(patch[p].cmd)
    /\ patch[p].pc = "write" => Kept(patch[p].new) \subseteq accepted
    /\ patch[p].pc # "idle" => HasWayIn(patch[p].new)

\* A request between its commit and the gate has marked the table.
Marked == \A i \in Inits : init[i].pc = "flip" => inst

InstallInv == /\ Shapes
              /\ GateFollowsTable /\ Marked
              /\ ProbedInits /\ ProbedPatches
              /\ StoredWereAccepted /\ AlwaysAWayIn

-----------------------------------------------------------------------------
(* Settings *)

LEMMA SetupConstants ==
  /\ "openai" \in Providers
  /\ Providers \subseteq {"openai", "anthropic", "ollama", "test"}
BY ProvidersAssumption

LEMMA BlankIsCommand == Blank \in Command /\ NewPage \in Page
BY SetupConstants DEF Blank, Command, NewPage, Page, Secrets

LEMMA StubIsSettings == Stub \in Settings
BY DEF Stub, Settings

\* The first settings hold what was typed and nothing else.
LEMMA FirstSettingsHold ==
  ASSUME NEW cmd \in Command
  PROVE  /\ FirstSettings(cmd) \in Settings
         /\ Kept(FirstSettings(cmd)) \subseteq Typed(cmd)
         /\ ~ NoWayIn(cmd) => HasWayIn(FirstSettings(cmd))
<1> DEFINE new == FirstSettings(cmd)
<1>1. new.provider = cmd.provider
  BY DEF FirstSettings
<1>2. new.key = IF cmd.provider \in {"openai", "anthropic"} THEN cmd.secret ELSE None
  BY DEF FirstSettings
<1>3. new.url = CASE cmd.provider = "ollama" -> cmd.secret
                  [] cmd.provider = "openai" -> cmd.url
                  [] OTHER                   -> None
  BY DEF FirstSettings
<1>4. new.url = IF cmd.provider = "ollama" THEN cmd.secret
                ELSE IF cmd.provider = "openai" THEN cmd.url ELSE None
  BY <1>3
<1>5. new = [provider |-> new.provider, key |-> new.key, url |-> new.url]
  BY DEF FirstSettings
<1> HIDE DEF new
<1>6. new \in Settings
  BY <1>1, <1>2, <1>4, <1>5 DEF Command, Settings, Secrets
<1>7. Kept(new) \subseteq Typed(cmd)
  BY <1>2, <1>4 DEF Kept, Typed
<1>8. ~ NoWayIn(cmd) => HasWayIn(new)
  BY <1>1, <1>2, <1>4 DEF NoWayIn, HasWayIn
<1> QED  BY <1>6, <1>7, <1>8 DEF new

\* New settings hold what was typed and what the row held.
LEMMA NewSettingsHold ==
  ASSUME NEW cmd \in Command, NEW old \in Settings
  PROVE  /\ NewSettings(cmd, old) \in Settings
         /\ Kept(NewSettings(cmd, old)) \subseteq Typed(cmd) \union Kept(old)
         /\ ~ (NoWayIn(cmd) /\ old.key = None) => HasWayIn(NewSettings(cmd, old))
<1> DEFINE new == NewSettings(cmd, old)
<1>1. new.provider = cmd.provider
  BY DEF NewSettings
<1>2. new.key = IF cmd.provider = "anthropic" THEN cmd.secret
                ELSE IF cmd.provider = "openai"
                       THEN (IF cmd.secret = None /\ cmd.url = None THEN old.key ELSE cmd.secret)
                       ELSE None
  BY DEF NewSettings
<1>3. new.url = IF cmd.provider = "ollama"
                  THEN (IF cmd.secret = None THEN old.url ELSE cmd.secret)
                ELSE IF cmd.provider = "openai" THEN cmd.url ELSE None
  BY DEF NewSettings
<1>4. new = [provider |-> new.provider, key |-> new.key, url |-> new.url]
  BY DEF NewSettings
<1> HIDE DEF new
<1>5. new \in Settings
  BY <1>1, <1>2, <1>3, <1>4 DEF Command, Settings, Secrets
<1>6. Kept(new) \subseteq Typed(cmd) \union Kept(old)
  BY <1>2, <1>3 DEF Kept, Typed
<1>7. ~ (NoWayIn(cmd) /\ old.key = None) => HasWayIn(new)
  BY <1>1, <1>2, <1>3 DEF NoWayIn, HasWayIn
<1> QED  BY <1>5, <1>6, <1>7 DEF new

\* The UPDATE keeps a key where none was decided on.
LEMMA CoalesceHolds ==
  ASSUME NEW new \in Settings, NEW row \in Settings
  PROVE  /\ Coalesce(new, row) \in Settings
         /\ Kept(Coalesce(new, row)) \subseteq Kept(new) \union Kept(row)
         /\ HasWayIn(new) => HasWayIn(Coalesce(new, row))
<1> DEFINE r == Coalesce(new, row)
<1>1. /\ r.provider = new.provider /\ r.url = new.url
      /\ r.key = IF new.key = None THEN row.key ELSE new.key
      /\ r \in Settings
  BY DEF Coalesce, Settings
<1> HIDE DEF r
<1>2. Kept(r) \subseteq Kept(new) \union Kept(row)
  BY <1>1 DEF Kept
<1>3. HasWayIn(new) => HasWayIn(r)
  BY <1>1 DEF HasWayIn
<1> QED  BY <1>1, <1>2, <1>3 DEF r

-----------------------------------------------------------------------------
(* The setup page *)

LEMMA PageStep ==
  ASSUME InstallInv, SetupPage
  PROVE  InstallInv'
<1>0. Shapes /\ wizard \in Page /\ wizard.form \in Command
  BY DEF InstallInv, Shapes, Page
<1>1. UNCHANGED <<inst, spaces, flag, client, patch, accepted, halfway>>
  BY DEF SetupPage, ChangeProvider, TypeInForm, TestConnection, TestAnswered, Turn, Reopen,
         Submit
<1>2. ASSUME NEW form \in Command, NEW filled,
             filled = [wizard EXCEPT !.form = form, !.probe = "none"]
      PROVE  filled \in Page
  BY <1>0, <1>2 DEF Page
<1>3. wizard' \in Page
  <2>1. ASSUME NEW q \in Providers, ChangeProvider(q)  PROVE wizard' \in Page
    <3> DEFINE form == [wizard.form EXCEPT !.provider = q,
                                           !.url = IF q = "openai" THEN @ ELSE None]
    <3>1. form \in Command
      BY <1>0 DEF Command
    <3>2. wizard' = [wizard EXCEPT !.form = form, !.probe = "none"]
      BY <1>0, <2>1 DEF ChangeProvider, Page, Command
    <3> QED  BY <1>2, <3>1, <3>2
  <2>2. ASSUME TypeInForm  PROVE wizard' \in Page
    <3>1. ASSUME NEW t \in Secrets,
                 wizard' = [wizard EXCEPT !.form.secret = t, !.probe = "none"]
          PROVE  wizard' \in Page
      <4>1. [wizard.form EXCEPT !.secret = t] \in Command
        BY <1>0 DEF Command
      <4> QED  BY <1>0, <1>2, <3>1, <4>1 DEF Page
    <3>2. ASSUME NEW t \in Urls,
                 wizard' = [wizard EXCEPT !.form.url = t, !.probe = "none"]
          PROVE  wizard' \in Page
      <4>1. [wizard.form EXCEPT !.url = t] \in Command
        BY <1>0 DEF Command
      <4> QED  BY <1>0, <1>2, <3>2, <4>1 DEF Page
    <3> QED  BY <2>2, <3>1, <3>2 DEF TypeInForm
  <2>3. ASSUME TestConnection  PROVE wizard' \in Page
    <3>1. <<wizard.form>> \in Seq(Command)
      BY <1>0
    <3>2. wizard' = [wizard EXCEPT !.testing = <<wizard.form>>, !.probe = "none", !.loading = TRUE]
      BY <2>3 DEF TestConnection
    <3> QED  BY <1>0, <3>1, <3>2 DEF Page
  <2>4. ASSUME TestAnswered  PROVE wizard' \in Page
    <3>1. PICK result \in {"ok", "bad"} :
            wizard' = [wizard EXCEPT !.testing = <<>>, !.loading = FALSE, !.probe = result]
      BY <2>4 DEF TestAnswered, ProbeResult
    <3>2. <<>> \in Seq(Command)
      OBVIOUS
    <3> QED  BY <1>0, <3>1, <3>2 DEF Page
  <2>5. ASSUME Turn  PROVE wizard' \in Page
    BY <1>0, <2>5 DEF Turn, Page
  <2>6. ASSUME Reopen  PROVE wizard' \in Page
    BY <2>6, BlankIsCommand DEF Reopen
  <2>7. ASSUME NEW i \in Inits, Submit(i)  PROVE wizard' \in Page
    BY <1>0, <2>7 DEF Submit, Page
  <2> QED  BY <2>1, <2>2, <2>3, <2>4, <2>5, <2>6, <2>7 DEF SetupPage
<1>4. CASE UNCHANGED init
  BY <1>1, <1>3, <1>4 DEF InstallInv, Shapes, GateFollowsTable, Marked, ProbedInits,
                         ProbedPatches, StoredWereAccepted, AlwaysAWayIn
<1>5. ASSUME NEW i \in Inits, Submit(i)  PROVE InstallInv'
  <2> DEFINE cmd == Sent(wizard.form)
  <2>1. cmd \in Command
    BY <1>0 DEF Sent, Command
  <2>2. /\ init' = [init EXCEPT ![i] = [pc |-> "probe", cmd |-> cmd]]
        /\ init[i].pc = "idle" /\ init \in [Inits -> InitRequest]
    BY <1>0, <1>5 DEF Submit, Shapes
  <2> HIDE DEF cmd
  <2>3. /\ init' \in [Inits -> InitRequest]
        /\ init'[i].pc = "probe" /\ \A j \in Inits \ {i} : init'[j] = init[j]
    BY <2>1, <2>2 DEF InitRequest
  <2>4. Shapes'
    BY <1>0, <1>1, <1>3, <2>3 DEF Shapes
  <2>5. (\E j \in Inits : init[j].pc = "flip") => \E j \in Inits : init'[j].pc = "flip"
    BY <2>2, <2>3
  <2>6. GateFollowsTable' /\ Marked' /\ ProbedInits'
    BY <1>1, <2>3, <2>5 DEF InstallInv, GateFollowsTable, Marked, ProbedInits
  <2> QED  BY <1>1, <2>4, <2>6 DEF InstallInv, ProbedPatches, StoredWereAccepted, AlwaysAWayIn
<1> QED  BY <1>4, <1>5 DEF SetupPage, ChangeProvider, TypeInForm, TestConnection, TestAnswered,
                           Turn, Reopen

-----------------------------------------------------------------------------
(* POST /setup/init *)

LEMMA RowsStayAccepted ==
  ASSUME StoredWereAccepted, accepted \subseteq accepted', spaces' = spaces
  PROVE  StoredWereAccepted'
BY DEF StoredWereAccepted

LEMMA PatchesStayProbed ==
  ASSUME ProbedPatches, accepted \subseteq accepted', patch' = patch
  PROVE  ProbedPatches'
BY DEF ProbedPatches

LEMMA ProbeInitStep ==
  ASSUME InstallInv, NEW i \in Inits, ProbeInit(i)
  PROVE  InstallInv'
<1>0. /\ Shapes /\ wizard \in Page /\ init \in [Inits -> InitRequest] /\ init[i].pc = "probe"
      /\ UNCHANGED <<inst, spaces, flag, client, patch, halfway>>
      /\ accepted \subseteq accepted'
  BY DEF InstallInv, Shapes, ProbeInit
<1>1. /\ init'[i].pc \in {"commit", "idle"} /\ init' \in [Inits -> InitRequest]
      /\ \A j \in Inits \ {i} : init'[j] = init[j]
      /\ init'[i].pc = "commit" =>
           Typed(init'[i].cmd) \subseteq accepted' /\ ~ NoWayIn(init'[i].cmd)
  <2>1. CASE /\ ~ NoWayIn(init[i].cmd)
             /\ init' = [init EXCEPT ![i].pc = "commit"]
             /\ accepted' = accepted \union Typed(init[i].cmd)
    <3>1. init'[i].pc = "commit" /\ init'[i].cmd = init[i].cmd
      BY <1>0, <2>1 DEF InitRequest
    <3>2. init' \in [Inits -> InitRequest]
      BY <1>0, <2>1 DEF InitRequest
    <3> QED  BY <1>0, <2>1, <3>1, <3>2
  <2>2. CASE init' = [init EXCEPT ![i] = NoInit]
    <3>1. NoInit \in InitRequest /\ NoInit.pc = "idle"
      BY BlankIsCommand DEF NoInit, InitRequest
    <3> QED  BY <1>0, <2>2, <3>1
  <2> QED  BY <2>1, <2>2 DEF ProbeInit
<1>2. wizard' \in Page
  BY <1>0 DEF ProbeInit, Page
<1>4. ProbedInits' /\ Marked'
  BY <1>0, <1>1 DEF InstallInv, ProbedInits, Marked
<1>5. (\E j \in Inits : init[j].pc = "flip") => \E j \in Inits : init'[j].pc = "flip"
  BY <1>0, <1>1
<1>6. GateFollowsTable'
  BY <1>0, <1>5 DEF InstallInv, GateFollowsTable
<1> QED  BY <1>0, <1>1, <1>2, <1>4, <1>6, RowsStayAccepted, PatchesStayProbed
            DEF InstallInv, Shapes, AlwaysAWayIn

LEMMA CommitStep ==
  ASSUME InstallInv, NEW i \in Inits, Commit(i)
  PROVE  InstallInv'
<1> DEFINE cmd == init[i].cmd
           new == FirstSettings(cmd)
<1>0. /\ spaces \in Seq(Settings) /\ init \in [Inits -> InitRequest] /\ cmd \in Command
      /\ init[i].pc = "commit"
      /\ UNCHANGED <<flag, client, patch, wizard, accepted, halfway>>
      /\ spaces' = Append(spaces, new) /\ inst'
  BY DEF InstallInv, Shapes, InitRequest, Commit, InsertWorkspace, MarkComplete
<1>1. new \in Settings /\ Kept(new) \subseteq accepted /\ HasWayIn(new)
  BY <1>0, FirstSettingsHold DEF InstallInv, ProbedInits
<1> HIDE DEF new, cmd
<1>2. /\ init' \in [Inits -> InitRequest] /\ init'[i].pc = "flip"
      /\ \A j \in Inits \ {i} : init'[j] = init[j]
  BY <1>0 DEF Commit, InitRequest
<1>3. /\ spaces' \in Seq(Settings) /\ spaces' # <<>>
      /\ \A w \in DOMAIN spaces' : spaces'[w] = new \/ (w \in DOMAIN spaces /\ spaces'[w] = spaces[w])
  BY <1>0, <1>1
<1>4. Shapes'
  BY <1>0, <1>2, <1>3 DEF InstallInv, Shapes
<1>5. GateFollowsTable' /\ Marked' /\ ProbedInits'
  BY <1>0, <1>2, <1>3 DEF InstallInv, GateFollowsTable, Marked, ProbedInits
<1>6. StoredWereAccepted'
  BY <1>0, <1>1, <1>3 DEF InstallInv, StoredWereAccepted, Kept
<1>7. AlwaysAWayIn'
  BY <1>0, <1>1, <1>3 DEF InstallInv, AlwaysAWayIn, HasWayIn
<1> QED  BY <1>0, <1>4, <1>5, <1>6, <1>7 DEF InstallInv, ProbedPatches

LEMMA GateStep ==
  ASSUME InstallInv, NEW i \in Inits, OpenGate(i) \/ HangUp(i)
  PROVE  InstallInv'
<1>0. /\ Shapes /\ wizard \in Page /\ init \in [Inits -> InitRequest]
      /\ UNCHANGED <<inst, spaces, client, patch, accepted>>
      /\ init' = [init EXCEPT ![i] = NoInit]
  BY DEF InstallInv, Shapes, OpenGate, HangUp
<1>1. /\ init' \in [Inits -> InitRequest] /\ init'[i].pc = "idle"
      /\ \A j \in Inits \ {i} : init'[j] = init[j]
  BY <1>0, BlankIsCommand DEF NoInit, InitRequest
<1>2. wizard' \in Page
  BY <1>0, BlankIsCommand DEF OpenGate, HangUp, Page
<1>3. GateFollowsTable'
  <2>1. CASE OpenGate(i)
    BY <1>0, <2>1 DEF OpenGate, InstallInv, GateFollowsTable, Marked
  <2>2. CASE HangUp(i)
    <3>1. ASSUME inst, ~ flag  PROVE halfway' \/ \E j \in Inits : init'[j].pc = "flip"
      BY <1>1, <2>2, <3>1 DEF HangUp, InstallInv, GateFollowsTable
    <3> QED  BY <1>0, <2>2, <3>1 DEF HangUp, InstallInv, GateFollowsTable
  <2> QED  BY <2>1, <2>2
<1>4. Marked' /\ ProbedInits'
  BY <1>0, <1>1 DEF InstallInv, Marked, ProbedInits
<1> QED  BY <1>0, <1>1, <1>2, <1>3, <1>4 DEF InstallInv, Shapes, ProbedPatches,
            StoredWereAccepted, AlwaysAWayIn

-----------------------------------------------------------------------------
(* PATCH /admin/workspace/llm *)

\* A step of a request that touches neither table nor gate.
LEMMA OnlyPatch ==
  ASSUME InstallInv, UNCHANGED <<inst, spaces, flag, client, init, wizard, halfway>>,
         accepted \subseteq accepted', patch' \in [Patches -> PatchRequest], ProbedPatches'
  PROVE  InstallInv'
BY RowsStayAccepted DEF InstallInv, Shapes, GateFollowsTable, Marked, ProbedInits, AlwaysAWayIn

LEMMA ReadStep ==
  ASSUME InstallInv, NEW p \in Patches, NEW cmd \in FormCommands, NEW w \in DOMAIN spaces,
         ReadWorkspace(p, cmd, w)
  PROVE  InstallInv'
<1> DEFINE old == spaces[w]
           new == NewSettings(cmd, old)
           r == [pc |-> IF Typed(cmd) # {} THEN "probe" ELSE "write",
                 cmd |-> cmd, space |-> w, new |-> new]
<1>0. /\ Shapes /\ old \in Settings /\ w \in Nat /\ cmd \in Command
      /\ Kept(old) \subseteq accepted
  BY DEF InstallInv, Shapes, FormCommands, StoredWereAccepted, Kept
<1>1. /\ patch' = [patch EXCEPT ![p] = r] /\ patch \in [Patches -> PatchRequest]
      /\ UNCHANGED <<inst, spaces, flag, client, init, wizard, accepted, halfway>>
      /\ ~ (NoWayIn(cmd) /\ old.key = None)
  BY <1>0 DEF ReadWorkspace, Decide, RowOf, Shapes
<1>2. new \in Settings /\ Kept(new) \subseteq Typed(cmd) \union Kept(old) /\ HasWayIn(new)
  BY <1>0, <1>1, NewSettingsHold
<1> HIDE DEF new, old
<1>3. /\ r \in PatchRequest /\ r.new = new /\ r.cmd = cmd
      /\ r.pc = IF Typed(cmd) # {} THEN "probe" ELSE "write"
  BY <1>0, <1>2 DEF PatchRequest
<1> HIDE DEF r
<1>4. /\ patch' \in [Patches -> PatchRequest] /\ patch'[p] = r
      /\ \A q \in Patches \ {p} : patch'[q] = patch[q]
  BY <1>1, <1>3
<1>5. ASSUME NEW q \in Patches
      PROVE  /\ patch'[q].pc = "probe" =>
                   Kept(patch'[q].new) \subseteq accepted' \union Typed(patch'[q].cmd)
             /\ patch'[q].pc = "write" => Kept(patch'[q].new) \subseteq accepted'
             /\ patch'[q].pc # "idle" => HasWayIn(patch'[q].new)
  <2>1. CASE q = p
    BY <1>0, <1>1, <1>2, <1>3, <1>4, <2>1
  <2>2. CASE q # p
    BY <1>1, <1>4, <2>2 DEF InstallInv, ProbedPatches
  <2> QED  BY <2>1, <2>2
<1>6. ProbedPatches'
  BY <1>5 DEF ProbedPatches
<1> QED  BY <1>1, <1>4, <1>6, OnlyPatch

LEMMA NoPatchIsIdle == NoPatch \in PatchRequest /\ NoPatch.pc = "idle"
BY BlankIsCommand, StubIsSettings DEF NoPatch, PatchRequest

LEMMA ProbePatchStep ==
  ASSUME InstallInv, NEW p \in Patches, ProbePatch(p)
  PROVE  InstallInv'
<1>0. /\ patch \in [Patches -> PatchRequest] /\ ProbedPatches /\ patch[p].pc = "probe"
      /\ UNCHANGED <<inst, spaces, flag, client, init, wizard, halfway>>
      /\ accepted \subseteq accepted'
  BY DEF InstallInv, Shapes, ProbePatch
<1>1. CASE /\ patch' = [patch EXCEPT ![p].pc = "write"]
           /\ accepted' = accepted \union Typed(patch[p].cmd)
  <2>1. /\ patch' \in [Patches -> PatchRequest]
        /\ patch'[p].pc = "write" /\ patch'[p].new = patch[p].new
        /\ \A q \in Patches \ {p} : patch'[q] = patch[q]
    BY <1>0, <1>1 DEF PatchRequest
  <2>2. ProbedPatches'
    BY <1>0, <1>1, <2>1 DEF ProbedPatches
  <2> QED  BY <1>0, <2>1, <2>2, OnlyPatch
<1>2. CASE patch' = [patch EXCEPT ![p] = NoPatch]
  <2>1. /\ patch' \in [Patches -> PatchRequest] /\ patch'[p].pc = "idle"
        /\ \A q \in Patches \ {p} : patch'[q] = patch[q]
    BY <1>0, <1>2, NoPatchIsIdle
  <2>2. ProbedPatches'
    BY <1>0, <2>1 DEF ProbedPatches
  <2> QED  BY <1>0, <2>1, <2>2, OnlyPatch
<1> QED  BY <1>1, <1>2 DEF ProbePatch

LEMMA WriteStep ==
  ASSUME InstallInv, NEW p \in Patches, WriteSettings(p)
  PROVE  InstallInv'
<1> DEFINE w == patch[p].space
           new == patch[p].new
<1>0. /\ spaces \in Seq(Settings) /\ patch \in [Patches -> PatchRequest] /\ new \in Settings
      /\ patch[p].pc = "write"
      /\ UNCHANGED <<inst, flag, client, init, wizard, accepted, halfway>>
      /\ spaces' = [spaces EXCEPT ![w] = Coalesce(new, spaces[w])]
      /\ patch' = [patch EXCEPT ![p] = NoPatch]
  BY DEF InstallInv, Shapes, PatchRequest, WriteSettings
<1>1. Kept(new) \subseteq accepted /\ HasWayIn(new)
  BY <1>0 DEF InstallInv, ProbedPatches
<1> HIDE DEF w, new
<1>2. /\ patch' \in [Patches -> PatchRequest] /\ patch'[p].pc = "idle"
      /\ \A q \in Patches \ {p} : patch'[q] = patch[q]
  BY <1>0, NoPatchIsIdle
<1>3. ASSUME NEW v \in DOMAIN spaces
      PROVE  /\ spaces'[v] \in Settings
             /\ Kept(spaces'[v]) \subseteq accepted /\ HasWayIn(spaces'[v])
  <2>1. /\ spaces[v] \in Settings
        /\ Kept(spaces[v]) \subseteq accepted /\ HasWayIn(spaces[v])
    BY <1>0, <1>3 DEF InstallInv, StoredWereAccepted, AlwaysAWayIn, Kept, HasWayIn
  <2>2. CASE v = w
    <3>1. spaces'[v] = Coalesce(new, spaces[v])
      BY <1>0, <1>3, <2>2
    <3> QED  BY <1>0, <1>1, <2>1, <3>1, CoalesceHolds
  <2>3. CASE v # w
    BY <1>0, <1>3, <2>1, <2>3
  <2> QED  BY <2>2, <2>3
<1>4. DOMAIN spaces' = DOMAIN spaces /\ Len(spaces) \in Nat /\ DOMAIN spaces = 1..Len(spaces)
  BY <1>0
<1>5. spaces' \in Seq(Settings) /\ (spaces' = <<>> <=> spaces = <<>>)
  <2>1. spaces' \in [1..Len(spaces) -> Settings]
    BY <1>0, <1>3, <1>4
  <2> QED  BY <1>0, <1>4, <2>1
<1>6. Shapes' /\ ProbedPatches'
  BY <1>0, <1>2, <1>5 DEF InstallInv, Shapes, ProbedPatches
<1>7. StoredWereAccepted' /\ AlwaysAWayIn'
  BY <1>0, <1>3, <1>4 DEF StoredWereAccepted, AlwaysAWayIn, Kept, HasWayIn
<1> QED  BY <1>0, <1>5, <1>6, <1>7 DEF InstallInv, GateFollowsTable, Marked, ProbedInits

-----------------------------------------------------------------------------
(* The process *)

LEMMA RestartStep ==
  ASSUME InstallInv, Restart
  PROVE  InstallInv'
<1>0. /\ Shapes /\ wizard \in Page
      /\ flag' = inst /\ halfway' = FALSE /\ UNCHANGED <<inst, spaces, accepted>>
      /\ init' = [i \in Inits |-> NoInit] /\ patch' = [p \in Patches |-> NoPatch]
  BY DEF InstallInv, Shapes, Restart
<1>1. NoInit \in InitRequest /\ NoInit.pc = "idle"
  BY BlankIsCommand DEF NoInit, InitRequest
<1>2. wizard' \in Page
  BY <1>0 DEF Restart, Page
<1>3. Shapes' /\ Marked' /\ ProbedInits' /\ ProbedPatches'
  BY <1>0, <1>1, <1>2, NoPatchIsIdle DEF Shapes, Marked, ProbedInits, ProbedPatches
<1> QED  BY <1>0, <1>3 DEF InstallInv, GateFollowsTable, StoredWereAccepted, AlwaysAWayIn

-----------------------------------------------------------------------------
(* The theorems *)

LEMMA InstallStart == SetupInit => InstallInv
<1> SUFFICES ASSUME SetupInit  PROVE InstallInv
  OBVIOUS
<1>1. NoInit \in InitRequest /\ NoInit.pc = "idle"
  BY BlankIsCommand DEF NoInit, InitRequest
<1>2. Shapes
  BY <1>1, NoPatchIsIdle, BlankIsCommand DEF SetupInit, Shapes
<1> QED  BY <1>1, <1>2, NoPatchIsIdle DEF SetupInit, InstallInv, GateFollowsTable, Marked, ProbedInits,
            ProbedPatches, StoredWereAccepted, AlwaysAWayIn

LEMMA InstallKept == InstallInv /\ [SetupNext]_setupVars => InstallInv'
<1> SUFFICES ASSUME InstallInv, [SetupNext]_setupVars  PROVE InstallInv'
  OBVIOUS
<1>1. CASE UNCHANGED setupVars
  BY <1>1 DEF setupVars, InstallInv, Shapes, GateFollowsTable, Marked, ProbedInits, ProbedPatches,
              StoredWereAccepted, AlwaysAWayIn
<1> QED  BY <1>1, PageStep, ProbeInitStep, CommitStep, GateStep, ReadStep, ProbePatchStep,
            WriteStep, RestartStep DEF SetupNext

LEMMA InstallAlways == SetupSpec => []InstallInv
BY InstallStart, InstallKept, PTL DEF SetupSpec

\* The gate is open only after a commit, and shut after one only while the
\* request that committed is about to open it, or hung up before it could and
\* the process has not been started since.
THEOREM GateIsTheTable == SetupSpec => []GateFollowsTable
<1>1. InstallInv => GateFollowsTable
  BY DEF InstallInv
<1> QED  BY <1>1, InstallAlways, PTL

\* No key and no address gets into the table that no probe ever accepted, not by
\* COALESCE and not by two requests that edit the same workspace at once.
THEOREM NothingUnprobedStored == SetupSpec => []StoredWereAccepted
<1>1. InstallInv => StoredWereAccepted
  BY DEF InstallInv
<1> QED  BY <1>1, InstallAlways, PTL

\* A row of openai always has a key or an address.
THEOREM SettingsStayUsable == SetupSpec => []AlwaysAWayIn
<1>1. InstallInv => AlwaysAWayIn
  BY DEF InstallInv
<1> QED  BY <1>1, InstallAlways, PTL

-----------------------------------------------------------------------------
(* Collections: the inductive invariant *)

\* Names that the requests let pass.
ValidNames == {name \in Names : Valid(name)}

CollectionRow == [state : {"row"}, ws : Workspaces, parent : Ids \union {Null},
                  name : ValidNames]

PageRow == [state : {"row"}, ws : Workspaces, collection : Ids \union {Null},
            slug : {Slug[title] : title \in Titles}, published : BOOLEAN]

Creation == [open : {TRUE}, ws : Workspaces, parent : Ids \union {Null}, name : ValidNames]

TreeTypeOK == /\ coll \in [Ids -> CollectionRow \union {Unused, Deleted}]
              /\ page \in [Pages -> PageRow \union {Unused}]
              /\ request \in [Requests -> Creation \union {NoRequest}]
              /\ strayed \in SUBSET Ids

\* What the constraints of the tables are for.
ReferencesOK == /\ \A c \in Rows : Refers(coll[c].parent)
                /\ \A p \in Written : Refers(page[p].collection)

SiblingsApart ==
  \A c, d \in Rows :
    /\ coll[c].ws = coll[d].ws
    /\ coll[c].parent = coll[d].parent /\ coll[c].parent # Null
    /\ Slug[coll[c].name] = Slug[coll[d].name]
    => c = d

PagesApart ==
  \A p, q \in Written :
    /\ page[p].ws = page[q].ws
    /\ page[p].collection = page[q].collection /\ page[p].collection # Null
    /\ page[p].slug = page[q].slug
    => p = q

\* A row that has not strayed is in the workspace of its parent, and a creation
\* in that of the parent it found, if that is still there: no id is used twice.
OneWorkspace ==
  /\ \A c \in Rows \ strayed : coll[c].parent # Null => coll[coll[c].parent].ws = coll[c].ws
  /\ \A r \in Requests : LET q == request[r] IN
       q.open /\ q.parent # Null =>
         /\ coll[q.parent] # Unused
         /\ q.parent \in Rows => coll[q.parent].ws = q.ws

\* Rows among which every parent is: a cycle, and what hangs from it.
Rootless(S) == \A c \in S : coll[c].parent \in S

\* Some row of a cycle has strayed.
CyclesStrayed == \A S \in SUBSET Rows : S # {} /\ Rootless(S) => S \intersect strayed # {}

TreeInv == /\ TreeTypeOK
           /\ ReferencesOK
           /\ SiblingsApart
           /\ PagesApart
           /\ OneWorkspace
           /\ CyclesStrayed

-----------------------------------------------------------------------------
(* What the cascade and the sidebar come to *)

LEMMA ReachedIs ==
  ASSUME NEW rows, NEW from \in SUBSET rows
  PROVE  /\ Reached(rows, from) \in SUBSET rows
         /\ from \subseteq Reached(rows, from)
         /\ \A d \in rows : coll[d].parent \in Reached(rows, from) => d \in Reached(rows, from)
         /\ \A S \in SUBSET rows :
              /\ from \subseteq S
              /\ \A d \in rows : coll[d].parent \in S => d \in S
              => Reached(rows, from) \subseteq S
BY DEF Reached

LEMMA BelowIs ==
  ASSUME NEW c \in Rows
  PROVE  /\ Below(c) \in SUBSET Rows
         /\ c \in Below(c)
         /\ \A d \in Rows : coll[d].parent \in Below(c) => d \in Below(c)
         /\ \A S \in SUBSET Rows :
              /\ c \in S
              /\ \A d \in Rows : coll[d].parent \in S => d \in S
              => Below(c) \subseteq S
<1>1. {c} \in SUBSET Rows
  OBVIOUS
<1> QED BY <1>1, ReachedIs DEF Below

\* What is below a row is below its parent.
LEMMA BelowParent ==
  ASSUME NEW c \in Rows, coll[c].parent \in Rows
  PROVE  Below(c) \subseteq Below(coll[c].parent)
<1>1. /\ Below(coll[c].parent) \in SUBSET Rows
      /\ c \in Below(coll[c].parent)
      /\ \A d \in Rows : coll[d].parent \in Below(coll[c].parent) => d \in Below(coll[c].parent)
  BY BelowIs
<1> QED BY <1>1, BelowIs

-----------------------------------------------------------------------------
(* Collections: the steps *)

LEMMA TreeStates ==
  /\ Unused \notin CollectionRow /\ Unused \notin PageRow /\ Deleted \notin CollectionRow
  /\ Unused # Deleted
  /\ \A row \in CollectionRow : row.state = "row"
  /\ \A row \in PageRow : row.state = "row"
  /\ Unused.state # "row" /\ Deleted.state # "row"
  /\ NoRequest.open = FALSE
BY DEF CollectionRow, PageRow, Unused, Deleted, NoRequest

LEMMA RowsAre ==
  ASSUME TreeTypeOK
  PROVE  /\ Rows \in SUBSET Ids
         /\ \A c \in Rows : coll[c] \in CollectionRow
         /\ \A c \in Ids : c \in Rows <=> coll[c] \in CollectionRow
         /\ \A c \in Ids \ Rows : coll[c] \in {Unused, Deleted}
         /\ Written \in SUBSET Pages
         /\ \A p \in Written : page[p] \in PageRow
         /\ \A p \in Pages : p \in Written <=> page[p] \in PageRow
         /\ \A p \in Pages \ Written : page[p] = Unused
BY TreeStates DEF TreeTypeOK, Rows, Written

LEMMA TreeInitOK == TreeInit => TreeInv
<1> SUFFICES ASSUME TreeInit PROVE TreeInv
  OBVIOUS
<1>1. TreeTypeOK
  BY DEF TreeInit, TreeTypeOK
<1>2. Rows = {} /\ Written = {}
  BY TreeStates DEF TreeInit, Rows, Written
<1>3. OneWorkspace
  BY <1>2, TreeStates DEF OneWorkspace, TreeInit
<1> QED BY <1>1, <1>2, <1>3 DEF TreeInv, ReferencesOK, SiblingsApart, PagesApart, CyclesStrayed

\* A step that leaves the collections as they are.
LEMMA SameTree ==
  ASSUME TreeInv, UNCHANGED <<coll, strayed>>
  PROVE  /\ Rows' = Rows
         /\ SiblingsApart' /\ CyclesStrayed'
         /\ \A c \in Rows' : Refers(coll[c].parent)'
         /\ \A c \in Rows' \ strayed' :
              coll'[c].parent # Null => coll'[coll'[c].parent].ws = coll'[c].ws
<1>1. Rows' = Rows
  BY DEF Rows
<1>2. \A S : Rootless(S)' <=> Rootless(S)
  BY DEF Rootless
<1>3. \A c : Refers(coll[c].parent)' <=> Refers(coll[c].parent)
  BY <1>1 DEF Refers
<1> QED BY <1>1, <1>2, <1>3 DEF TreeInv, SiblingsApart, CyclesStrayed, ReferencesOK, OneWorkspace

LEMMA FindParentOK ==
  ASSUME TreeInv, NEW r \in Requests, NEW ws \in Workspaces,
         NEW parent \in Ids \union {Null}, NEW name \in Names,
         FindParent(r, ws, parent, name)
  PROVE  TreeInv'
<1>1. TreeTypeOK'
  BY DEF FindParent, TreeInv, TreeTypeOK, Creation, ValidNames
<1>2. Written' = Written
  BY DEF FindParent, Written
<1>3. ReferencesOK' /\ PagesApart'
  BY <1>2, SameTree DEF FindParent, ReferencesOK, PagesApart, Refers, TreeInv
<1>4. OneWorkspace'
  <2>1. parent # Null => parent \in Rows /\ coll[parent].ws = ws /\ coll[parent] # Unused
    BY RowsAre, TreeStates DEF FindParent, Has, TreeInv
  <2> SUFFICES ASSUME NEW q \in Requests, request'[q].open, request'[q].parent # Null
               PROVE  /\ coll'[request'[q].parent] # Unused
                      /\ request'[q].parent \in Rows' => coll'[request'[q].parent].ws = request'[q].ws
    BY SameTree DEF OneWorkspace, FindParent
  <2>2. CASE q = r
    BY <2>1, <2>2 DEF FindParent, TreeInv, TreeTypeOK
  <2>3. CASE q # r
    <3>1. request'[q] = request[q]
      BY <2>3 DEF FindParent, TreeInv, TreeTypeOK
    <3> QED BY <3>1, SameTree DEF FindParent, TreeInv, OneWorkspace
  <2> QED BY <2>2, <2>3
<1> QED BY <1>1, <1>3, <1>4, SameTree DEF TreeInv, FindParent

\* What the answer of a creation does not depend on.
LEMMA Answered ==
  ASSUME TreeInv, NEW r \in Requests, request' = [request EXCEPT ![r] = NoRequest]
  PROVE  /\ request' \in [Requests -> Creation \union {NoRequest}]
         /\ ~ request'[r].open
         /\ \A q \in Requests : request'[q].open => request'[q] = request[q]
BY TreeStates DEF TreeInv, TreeTypeOK

LEMMA RefusedInsertOK ==
  ASSUME TreeInv, NEW r \in Requests, request' = [request EXCEPT ![r] = NoRequest],
         UNCHANGED <<coll, page, strayed>>
  PROVE  TreeInv'
<1>1. TreeTypeOK'
  BY Answered DEF TreeInv, TreeTypeOK
<1>2. Written' = Written
  BY DEF Written
<1>3. ReferencesOK' /\ PagesApart'
  BY <1>2, SameTree DEF ReferencesOK, PagesApart, Refers, TreeInv
<1>4. OneWorkspace'
  BY SameTree, Answered DEF OneWorkspace, TreeInv
<1> QED BY <1>1, <1>3, <1>4, SameTree DEF TreeInv

LEMMA InsertOK ==
  ASSUME TreeInv, NEW r \in Requests, NEW c \in Ids, InsertCollection(r, c)
  PROVE  TreeInv'
<1> DEFINE q == request[r]
           row == [state |-> "row", ws |-> q.ws, parent |-> q.parent, name |-> q.name]
           ok == Refers(q.parent) /\ ~ Taken(q.ws, q.parent, Slug[q.name], c)
<1>1. CASE ~ ok
  BY <1>1, RefusedInsertOK DEF InsertCollection
<1>2. CASE ok
  <2>1. /\ coll' = [coll EXCEPT ![c] = row]
        /\ request' = [request EXCEPT ![r] = NoRequest]
        /\ UNCHANGED <<page, strayed>>
        /\ q.open /\ coll[c] = Unused
    BY <1>2 DEF InsertCollection
  <2>2. q \in Creation
    BY <2>1, TreeStates DEF TreeInv, TreeTypeOK
  <2>3. row \in CollectionRow
    BY <2>2 DEF Creation, CollectionRow
  <2> HIDE DEF row
  <2>4. /\ c \notin Rows
        /\ coll'[c] = row
        /\ \A d \in Ids \ {c} : coll'[d] = coll[d]
        /\ coll' \in [Ids -> CollectionRow \union {Unused, Deleted}]
    BY <2>1, <2>3, RowsAre, TreeStates DEF TreeInv, TreeTypeOK
  <2>5. TreeTypeOK'
    BY <2>1, <2>4, Answered DEF TreeInv, TreeTypeOK
  <2>6. Rows' = Rows \union {c} /\ Written' = Written
    <3>1. \A d \in Ids : d \in Rows' <=> coll'[d] \in CollectionRow
      BY <2>5, RowsAre, TreeStates, Zenon DEF Rows, TreeTypeOK, CollectionRow, Unused, Deleted
    <3>2. Rows' \subseteq Ids /\ Rows \subseteq Ids /\ Written' = Written
      BY <2>1 DEF Rows, Written
    <3> QED BY <2>3, <2>4, <3>1, <3>2, RowsAre DEF TreeInv
  <2>7. row.ws = q.ws /\ row.parent = q.parent /\ row.name = q.name
    BY DEF row
  <2>8. q.parent = Null \/ q.parent \in Rows
    BY <1>2 DEF Refers
  <2>9. ReferencesOK'
    BY <2>1, <2>4, <2>6, <2>7, <2>8, RowsAre DEF TreeInv, ReferencesOK, Refers
  <2>10. SiblingsApart'
    <3>1. \A d \in Rows : /\ coll[d].ws = q.ws
                          /\ coll[d].parent = q.parent /\ q.parent # Null
                          => Slug[coll[d].name] # Slug[q.name]
      BY <1>2, <2>4 DEF Taken, ListOf
    <3> QED BY <2>4, <2>6, <2>7, <3>1, RowsAre DEF TreeInv, SiblingsApart
  <2>11. PagesApart'
    BY <2>1, <2>6 DEF TreeInv, PagesApart
  <2>12. OneWorkspace'
    <3>1. \A d \in Rows' \ strayed' :
             coll'[d].parent # Null => coll'[coll'[d].parent].ws = coll'[d].ws
      <4>1. q.parent # Null => q.parent \in Rows /\ coll[q.parent].ws = q.ws
        BY <2>1, <2>8 DEF TreeInv, OneWorkspace
      <4> QED BY <2>1, <2>4, <2>6, <2>7, <4>1, RowsAre DEF TreeInv, OneWorkspace, ReferencesOK, Refers
    <3>2. ASSUME NEW s \in Requests, request'[s].open, request'[s].parent # Null
          PROVE  /\ coll'[request'[s].parent] # Unused
                 /\ request'[s].parent \in Rows' =>
                      coll'[request'[s].parent].ws = request'[s].ws
      <4>1. request'[s] = request[s]
        BY <2>1, <3>2, Answered
      <4>2. coll[request[s].parent] # Unused
        BY <3>2, <4>1 DEF TreeInv, OneWorkspace
      <4>3. request[s].parent \in Ids \ {c}
        BY <2>1, <3>2, <4>1, <4>2, TreeStates DEF TreeInv, TreeTypeOK, Creation
      <4> QED BY <2>4, <2>6, <3>2, <4>1, <4>2, <4>3 DEF TreeInv, OneWorkspace
    <3> QED BY <3>1, <3>2 DEF OneWorkspace
  <2>13. CyclesStrayed'
    <3> SUFFICES ASSUME NEW S \in SUBSET Rows', S # {}, Rootless(S)' PROVE S \intersect strayed # {}
      BY <2>1 DEF CyclesStrayed
    <3>1. \A d \in S \ {c} : d \in Rows /\ coll'[d] = coll[d] /\ coll[d].parent \in S
      BY <2>4, <2>6, RowsAre DEF Rootless, TreeInv
    <3>2. \A d \in S \ {c} : coll[d].parent \in S \ {c}
      BY <2>4, <3>1, IdsAssumption, RowsAre DEF TreeInv, ReferencesOK, Refers
    <3>3. S \ {c} # {}
      <4>1. CASE c \notin S
        BY <4>1
      <4>2. CASE c \in S
        <5>1. q.parent \in S
          BY <2>4, <2>7, <4>2 DEF Rootless
        <5>2. q.parent # c
          BY <2>4, <2>8, IdsAssumption
        <5> QED BY <5>1, <5>2
      <4> QED BY <4>1, <4>2
    <3>4. S \ {c} \in SUBSET Rows /\ Rootless(S \ {c})
      BY <3>1, <3>2 DEF Rootless
    <3> QED BY <3>3, <3>4 DEF TreeInv, CyclesStrayed
  <2> QED BY <2>5, <2>9, <2>10, <2>11, <2>12, <2>13 DEF TreeInv
<1> QED BY <1>1, <1>2

LEMMA UpdateOK ==
  ASSUME TreeInv, NEW c \in Ids, NEW ws \in Workspaces, NEW name \in Names,
         NEW parent \in Ids \union {Null}, UpdateCollection(c, ws, name, parent)
  PROVE  TreeInv'
<1> DEFINE row == [coll[c] EXCEPT !.name = name, !.parent = IF parent = Null THEN @ ELSE parent]
<1>1. /\ c \in Rows /\ coll[c].ws = ws
      /\ Refers(row.parent)
      /\ ~ Taken(ws, row.parent, Slug[row.name], c)
      /\ coll' = [coll EXCEPT ![c] = row]
      /\ strayed' = IF parent = Null THEN strayed
                    ELSE IF Stray(c, ws, parent) THEN strayed \union {c}
                    ELSE strayed \ {c}
      /\ UNCHANGED <<page, request>>
  BY DEF UpdateCollection, Patched, Has
<1>2. coll[c] \in CollectionRow
  BY <1>1, RowsAre DEF TreeInv
<1>3. /\ row \in CollectionRow
      /\ row.ws = ws /\ row.name = name
      /\ row.parent = IF parent = Null THEN coll[c].parent ELSE parent
  <2>1. name \in ValidNames
    BY DEF UpdateCollection, ValidNames
  <2> QED BY <1>1, <1>2, <2>1 DEF CollectionRow
<1> HIDE DEF row
<1>4. /\ coll'[c] = row
      /\ \A d \in Ids \ {c} : coll'[d] = coll[d]
      /\ coll' \in [Ids -> CollectionRow \union {Unused, Deleted}]
  BY <1>1, <1>3 DEF TreeInv, TreeTypeOK
<1>5. TreeTypeOK'
  <2>1. strayed' \in SUBSET Ids
    BY <1>1 DEF TreeInv, TreeTypeOK
  <2> QED BY <1>1, <1>4, <2>1 DEF TreeInv, TreeTypeOK
<1>6. Rows' = Rows /\ Written' = Written
  <2>1. row.state = "row" /\ coll[c].state = "row"
    BY <1>2, <1>3, TreeStates
  <2>2. \A d \in Ids : coll'[d].state = "row" <=> coll[d].state = "row"
    BY <1>4, <2>1
  <2> QED BY <1>1, <2>2 DEF Rows, Written
<1>7. row.parent = Null \/ row.parent \in Rows
  BY <1>1 DEF Refers
<1>8. ReferencesOK'
  BY <1>1, <1>4, <1>6, <1>7, RowsAre DEF TreeInv, ReferencesOK, Refers
<1>9. SiblingsApart'
  <2>1. \A d \in Rows \ {c} : /\ coll[d].ws = ws
                              /\ coll[d].parent = row.parent /\ row.parent # Null
                              => Slug[coll[d].name] # Slug[row.name]
    BY <1>1 DEF Taken, ListOf
  <2> QED BY <1>3, <1>4, <1>6, <2>1, RowsAre DEF TreeInv, SiblingsApart
<1>10. PagesApart'
  BY <1>1, <1>6 DEF TreeInv, PagesApart
<1>11. \A d \in Rows : coll'[d].ws = coll[d].ws
  BY <1>1, <1>3, <1>4, RowsAre DEF TreeInv
<1>12. OneWorkspace'
  <2>1. ASSUME NEW d \in Rows \ strayed', coll'[d].parent # Null
        PROVE  coll'[coll'[d].parent].ws = coll'[d].ws
    <3>1. CASE d # c
      <4>1. d \in Rows \ strayed /\ coll'[d] = coll[d]
        BY <1>1, <1>4, <2>1, <3>1, RowsAre DEF TreeInv
      <4>2. coll[d].parent \in Rows
        BY <2>1, <4>1 DEF TreeInv, ReferencesOK, Refers
      <4> QED BY <1>11, <2>1, <4>1, <4>2 DEF TreeInv, OneWorkspace
    <3>2. CASE d = c
      <4>1. coll'[d].parent = row.parent /\ row.parent \in Rows
        BY <1>4, <1>7, <2>1, <3>2
      <4>2. CASE parent = Null
        <5>1. c \in Rows \ strayed /\ row.parent = coll[c].parent
          BY <1>1, <1>3, <2>1, <3>2, <4>2
        <5> QED BY <1>1, <1>11, <3>2, <4>1, <5>1, IdsAssumption, RowsAre
                DEF TreeInv, OneWorkspace
      <4>3. CASE parent # Null
        <5>1. ~ Stray(c, ws, parent)
          BY <1>1, <2>1, <3>2, <4>3
        <5>2. coll[parent].ws = ws /\ row.parent = parent
          BY <1>3, <4>3, <5>1 DEF Stray
        <5> QED BY <1>1, <1>11, <3>2, <4>1, <5>2
      <4> QED BY <4>2, <4>3
    <3> QED BY <3>1, <3>2
  <2>2. ASSUME NEW r \in Requests, request'[r].open, request'[r].parent # Null
        PROVE  /\ coll'[request'[r].parent] # Unused
               /\ request'[r].parent \in Rows' =>
                    coll'[request'[r].parent].ws = request'[r].ws
    <3>1. /\ coll[request[r].parent] # Unused
          /\ request[r].parent \in Rows => coll[request[r].parent].ws = request[r].ws
          /\ request[r].open /\ request[r].parent # Null
      BY <1>1, <2>2 DEF TreeInv, OneWorkspace
    <3>2. request[r].parent \in Ids
      BY <3>1, TreeStates DEF TreeInv, TreeTypeOK, Creation
    <3>3. coll'[request[r].parent] # Unused
      BY <1>3, <1>4, <3>1, <3>2, TreeStates
    <3> QED BY <1>1, <1>6, <1>11, <3>1, <3>3
  <2> QED BY <1>6, <2>1, <2>2 DEF OneWorkspace
<1>13. CyclesStrayed'
  <2> SUFFICES ASSUME NEW S \in SUBSET Rows, S # {}, Rootless(S)' PROVE S \intersect strayed' # {}
    BY <1>6 DEF CyclesStrayed
  <2>1. \A d \in S : coll'[d].parent \in S
    BY DEF Rootless
  <2>2. \A d \in S \ {c} : coll'[d] = coll[d]
    BY <1>4, RowsAre DEF TreeInv
  <2>3. CASE c \notin S
    <3>1. Rootless(S)
      BY <2>1, <2>2, <2>3 DEF Rootless
    <3>2. S \intersect strayed # {}
      BY <3>1 DEF TreeInv, CyclesStrayed
    <3> QED BY <1>1, <2>3, <3>2
  <2>4. CASE c \in S /\ parent = Null
    <3>1. coll'[c].parent = coll[c].parent
      BY <1>3, <1>4, <2>4
    <3>2. Rootless(S)
      BY <2>1, <2>2, <3>1 DEF Rootless
    <3> QED BY <1>1, <2>4, <3>2 DEF TreeInv, CyclesStrayed
  <2>5. CASE c \in S /\ Stray(c, ws, parent)
    BY <1>1, <2>5 DEF Stray
  \* The move of c closes no cycle: without what was below c, S was one before.
  <2>6. CASE c \in S /\ parent # Null /\ ~ Stray(c, ws, parent)
    <3> DEFINE T == S \ Below(c)
    <3>1. /\ c \in Below(c)
          /\ \A d \in Rows : coll[d].parent \in Below(c) => d \in Below(c)
      BY <1>1, BelowIs
    <3>2. parent \in S /\ parent \notin Below(c)
      BY <1>3, <1>4, <2>1, <2>6 DEF Stray
    <3>3. T \in SUBSET Rows /\ T # {} /\ Rootless(T)
      BY <2>1, <2>2, <3>1, <3>2 DEF Rootless
    <3>4. T \intersect strayed # {}
      BY <3>3 DEF TreeInv, CyclesStrayed
    <3> QED BY <1>1, <2>6, <3>1, <3>4
  <2> QED BY <2>3, <2>4, <2>5, <2>6
<1> QED BY <1>5, <1>8, <1>9, <1>10, <1>12, <1>13 DEF TreeInv

LEMMA DeleteOK ==
  ASSUME TreeInv, NEW c \in Ids, NEW ws \in Workspaces, DeleteCollection(c, ws)
  PROVE  TreeInv'
<1>1. /\ c \in Rows
      /\ coll' = [d \in Ids |-> IF d \in Below(c) THEN Deleted ELSE coll[d]]
      /\ page' = [p \in Pages |->
           IF p \in Written /\ page[p].collection \in Below(c)
             THEN [page[p] EXCEPT !.collection = Null] ELSE page[p]]
      /\ strayed' = strayed \ Below(c)
      /\ UNCHANGED request
  BY DEF DeleteCollection, Has
<1>2. /\ Below(c) \in SUBSET Rows
      /\ \A d \in Rows : coll[d].parent \in Below(c) => d \in Below(c)
  BY <1>1, BelowIs
<1>3. TreeTypeOK'
  <2>1. coll' \in [Ids -> CollectionRow \union {Unused, Deleted}]
    BY <1>1 DEF TreeInv, TreeTypeOK
  <2>2. \A row \in PageRow : [row EXCEPT !.collection = Null] \in PageRow
    BY DEF PageRow
  <2>3. page' \in [Pages -> PageRow \union {Unused}]
    BY <1>1, <2>2, RowsAre DEF TreeInv, TreeTypeOK
  <2> QED BY <1>1, <2>1, <2>3 DEF TreeInv, TreeTypeOK
<1>4. /\ Rows' = Rows \ Below(c)
      /\ \A d \in Rows' : coll'[d] = coll[d]
  <2>1. \A d \in Ids : coll'[d] = IF d \in Below(c) THEN Deleted ELSE coll[d]
    BY <1>1
  <2> QED BY <2>1, TreeStates DEF Rows
<1>5. /\ Written' = Written
      /\ \A p \in Written : /\ page'[p].ws = page[p].ws /\ page'[p].slug = page[p].slug
                            /\ page'[p].collection = IF page[p].collection \in Below(c)
                                                       THEN Null ELSE page[p].collection
  <2>1. \A p \in Pages : page'[p] = IF p \in Written /\ page[p].collection \in Below(c)
                                      THEN [page[p] EXCEPT !.collection = Null] ELSE page[p]
    BY <1>1
  <2>2. \A row \in PageRow : LET cut == [row EXCEPT !.collection = Null] IN
           /\ cut.state = row.state /\ cut.ws = row.ws /\ cut.slug = row.slug
           /\ cut.collection = Null
    BY DEF PageRow
  <2>3. \A p \in Written : /\ p \in Pages /\ page[p] \in PageRow
    BY RowsAre DEF TreeInv
  <2>4. \A p \in Pages : page'[p].state = page[p].state
    BY <2>1, <2>2, <2>3
  <2>5. Written' = Written
    BY <2>4 DEF Written
  <2> QED BY <2>1, <2>2, <2>3, <2>5
<1>6. ReferencesOK'
  BY <1>2, <1>4, <1>5 DEF TreeInv, ReferencesOK, Refers
<1>7. SiblingsApart'
  BY <1>4 DEF TreeInv, SiblingsApart
<1>8. PagesApart'
  BY <1>5 DEF TreeInv, PagesApart
<1>9. OneWorkspace'
  <2>1. \A d \in Rows' \ strayed' :
          coll'[d].parent # Null => coll'[coll'[d].parent].ws = coll'[d].ws
    BY <1>1, <1>2, <1>4 DEF TreeInv, OneWorkspace, ReferencesOK, Refers
  <2>2. ASSUME NEW r \in Requests, request'[r].open, request'[r].parent # Null
        PROVE  /\ coll'[request'[r].parent] # Unused
               /\ request'[r].parent \in Rows' =>
                    coll'[request'[r].parent].ws = request'[r].ws
    <3>1. /\ coll[request[r].parent] # Unused
          /\ request[r].parent \in Rows => coll[request[r].parent].ws = request[r].ws
      BY <1>1, <2>2 DEF TreeInv, OneWorkspace
    <3>2. request[r].parent \in Ids
      BY <1>1, <2>2, TreeStates DEF TreeInv, TreeTypeOK, Creation
    <3>3. coll'[request[r].parent] # Unused
      BY <1>1, <3>1, <3>2, TreeStates
    <3> QED BY <1>1, <1>4, <3>1, <3>3
  <2> QED BY <2>1, <2>2 DEF OneWorkspace
<1>10. CyclesStrayed'
  <2> SUFFICES ASSUME NEW S \in SUBSET Rows', S # {}, Rootless(S)' PROVE S \intersect strayed' # {}
    BY DEF CyclesStrayed
  <2>1. S \in SUBSET Rows /\ Rootless(S)
    BY <1>4 DEF Rootless
  <2>2. S \intersect strayed # {}
    BY <2>1 DEF TreeInv, CyclesStrayed
  <2> QED BY <1>1, <1>4, <2>2
<1> QED BY <1>3, <1>6, <1>7, <1>8, <1>9, <1>10 DEF TreeInv

LEMMA CreatePageOK ==
  ASSUME TreeInv, NEW p \in Pages, NEW ws \in Workspaces, NEW c \in Ids \union {Null},
         NEW title \in Titles, CreatePage(p, ws, c, title)
  PROVE  TreeInv'
<1> DEFINE row == [state |-> "row", ws |-> ws, collection |-> c,
                   slug |-> Slug[title], published |-> FALSE]
<1>1. /\ page[p] = Unused /\ Refers(c)
      /\ c # Null => \A q \in PagesIn(ws, c) : page[q].slug # Slug[title]
      /\ page' = [page EXCEPT ![p] = row]
      /\ UNCHANGED <<coll, request, strayed>>
  BY DEF CreatePage
<1>2. row \in PageRow /\ row.ws = ws /\ row.collection = c /\ row.slug = Slug[title]
  BY DEF PageRow
<1> HIDE DEF row
<1>3. /\ page' \in [Pages -> PageRow \union {Unused}]
      /\ page'[p] = row
      /\ \A q \in Pages \ {p} : page'[q] = page[q]
  BY <1>1, <1>2 DEF TreeInv, TreeTypeOK
<1>4. TreeTypeOK'
  BY <1>1, <1>3 DEF TreeInv, TreeTypeOK
<1>5. Written' = Written \union {p} /\ p \notin Written
  <2>1. row.state = "row" /\ page[p].state # "row"
    BY <1>1, <1>2, TreeStates
  <2> QED BY <1>3, <2>1 DEF Written
<1>6. ReferencesOK'
  <2>1. \A q \in Written : q \in Pages /\ page'[q] = page[q] /\ Refers(page[q].collection)
    BY <1>3, <1>5, RowsAre DEF TreeInv, ReferencesOK
  <2>2. Refers(page'[p].collection)
    BY <1>1, <1>2, <1>3
  <2> QED BY <1>1, <1>5, <2>1, <2>2, SameTree DEF ReferencesOK, Refers
<1>7. PagesApart'
  <2>1. \A q \in Written : q \in Pages \ {p} /\ page'[q] = page[q]
    BY <1>3, <1>5, RowsAre DEF TreeInv
  <2>2. \A q \in Written : /\ page[q].ws = ws
                           /\ page[q].collection = c /\ c # Null
                           => page[q].slug # Slug[title]
    BY <1>1 DEF PagesIn
  <2> QED BY <1>2, <1>3, <1>5, <2>1, <2>2 DEF TreeInv, PagesApart
<1>8. OneWorkspace'
  BY <1>1, SameTree DEF TreeInv, OneWorkspace
<1> QED BY <1>1, <1>4, <1>6, <1>7, <1>8, SameTree DEF TreeInv

LEMMA SetStatusOK ==
  ASSUME TreeInv, NEW p \in Pages, NEW published \in BOOLEAN, SetStatus(p, published)
  PROVE  TreeInv'
<1>1. /\ p \in Written
      /\ page' = [page EXCEPT ![p].published = published]
      /\ UNCHANGED <<coll, request, strayed>>
  BY DEF SetStatus
<1>2. \A row \in PageRow : LET new == [row EXCEPT !.published = published] IN
        /\ new \in PageRow
        /\ new.state = row.state /\ new.ws = row.ws
        /\ new.collection = row.collection /\ new.slug = row.slug
  BY DEF PageRow
<1>3. page[p] \in PageRow
  BY <1>1, RowsAre DEF TreeInv
<1>4. TreeTypeOK'
  BY <1>1, <1>2, <1>3 DEF TreeInv, TreeTypeOK
<1>5. /\ \A q \in Pages : page'[q] = IF q = p THEN [page[p] EXCEPT !.published = published]
                                      ELSE page[q]
  BY <1>1 DEF TreeInv, TreeTypeOK
<1>6. \A q \in Pages : page'[q].state = page[q].state
  BY <1>2, <1>3, <1>5
<1>7. Written' = Written
  BY <1>6 DEF Written
<1>8. \A q \in Written : /\ page'[q].ws = page[q].ws /\ page'[q].slug = page[q].slug
                         /\ page'[q].collection = page[q].collection
  BY <1>2, <1>3, <1>5, RowsAre DEF TreeInv
<1>9. ReferencesOK'
  BY <1>1, <1>7, <1>8, SameTree DEF TreeInv, ReferencesOK, Refers
<1>10. PagesApart'
  BY <1>7, <1>8 DEF TreeInv, PagesApart
<1>11. OneWorkspace'
  BY <1>1, SameTree DEF TreeInv, OneWorkspace
<1> QED BY <1>1, <1>4, <1>9, <1>10, <1>11, SameTree DEF TreeInv

LEMMA TreeStep == TreeInv /\ [TreeNext]_treeVars => TreeInv'
<1> SUFFICES ASSUME TreeInv, [TreeNext]_treeVars PROVE TreeInv'
  OBVIOUS
<1>1. CASE TreeNext
  <2>1. CASE \E r \in Requests, ws \in Workspaces, parent \in Ids \union {Null}, name \in Names :
               FindParent(r, ws, parent, name)
    BY <2>1, FindParentOK
  <2>2. CASE \E r \in Requests, c \in Ids : InsertCollection(r, c)
    BY <2>2, InsertOK
  <2>3. CASE \E c \in Ids, ws \in Workspaces, name \in Names, parent \in Ids \union {Null} :
               UpdateCollection(c, ws, name, parent)
    BY <2>3, UpdateOK
  <2>4. CASE \E c \in Ids, ws \in Workspaces : DeleteCollection(c, ws)
    BY <2>4, DeleteOK
  <2>5. CASE \E p \in Pages, ws \in Workspaces, c \in Ids \union {Null}, title \in Titles :
               CreatePage(p, ws, c, title)
    BY <2>5, CreatePageOK
  <2>6. CASE \E p \in Pages, published \in BOOLEAN : SetStatus(p, published)
    BY <2>6, SetStatusOK
  <2> QED BY <1>1, <2>1, <2>2, <2>3, <2>4, <2>5, <2>6 DEF TreeNext
<1>2. CASE UNCHANGED treeVars
  <2>1. UNCHANGED <<coll, page, request, strayed>>
    BY <1>2 DEF treeVars
  <2>2. Written' = Written
    BY <2>1 DEF Written
  <2>3. ReferencesOK' /\ PagesApart'
    BY <2>1, <2>2, SameTree DEF ReferencesOK, PagesApart, Refers, TreeInv
  <2>4. TreeTypeOK' /\ OneWorkspace'
    BY <2>1, SameTree DEF OneWorkspace, TreeInv, TreeTypeOK
  <2> QED BY <2>1, <2>3, <2>4, SameTree DEF TreeInv
<1> QED BY <1>1, <1>2

\* The table of collections keeps its references and the slugs of siblings, and
\* there is no cycle in it through which no collection was moved astray, after
\* any number of creations, renames, moves and deletions: db/postgres/collections.rs.
THEOREM TreeInvariant == TreeSpec => []TreeInv
BY TreeInitOK, TreeStep, PTL DEF TreeSpec

-----------------------------------------------------------------------------
(* Walks *)

\* A walk to c, of any length.
Comes(rows, w, c) ==
  /\ w \in Seq(rows) /\ w # <<>>
  /\ w[Len(w)] = c
  /\ coll[w[1]].parent = Null
  /\ \A i \in 2 .. Len(w) : coll[w[i]].parent = w[i - 1]

LEMMA WalksAre ==
  ASSUME NEW rows \in SUBSET Ids, NEW c, NEW w
  PROVE  w \in Walks(rows, c) <=> Comes(rows, w, c) /\ Len(w) <= Cardinality(rows)
<1>1. IsFiniteSet(rows) /\ Cardinality(rows) \in Nat
  BY IdsAssumption, FS_Subset, FS_CardinalityType
<1>2. w \in SeqOf(rows, Cardinality(rows)) <=> w \in Seq(rows) /\ Len(w) <= Cardinality(rows)
  <2>1. ASSUME w \in SeqOf(rows, Cardinality(rows))
        PROVE  w \in Seq(rows) /\ Len(w) <= Cardinality(rows)
    <3>1. PICK m \in 0 .. Cardinality(rows) : w \in [1 .. m -> rows]
      BY <2>1 DEF SeqOf
    <3>2. m \in Nat /\ Len(w) = m /\ w \in Seq(rows)
      BY <1>1, <3>1
    <3> QED BY <3>1, <3>2
  <2>2. ASSUME w \in Seq(rows), Len(w) <= Cardinality(rows)
        PROVE  w \in SeqOf(rows, Cardinality(rows))
    <3>1. Len(w) \in 0 .. Cardinality(rows) /\ w \in [1 .. Len(w) -> rows]
      BY <1>1, <2>2
    <3> QED BY <3>1 DEF SeqOf
  <2> QED BY <2>1, <2>2
<1>3. w \in Seq(rows) => DOMAIN w \ {1} = 2 .. Len(w)
  OBVIOUS
<1> QED BY <1>2, <1>3 DEF Walks, Comes, Last

\* A walk goes on from the parent of a row to the row.
LEMMA ComesOn ==
  ASSUME NEW rows, NEW e, NEW w, Comes(rows, w, e),
         NEW d \in rows, coll[d].parent = e
  PROVE  Comes(rows, Append(w, d), d) /\ Append(w, d)[1] = w[1]
<1> DEFINE v == Append(w, d)
<1>1. /\ Len(w) \in Nat \ {0} /\ w[Len(w)] = e /\ coll[w[1]].parent = Null
      /\ \A i \in 2 .. Len(w) : coll[w[i]].parent = w[i - 1]
  BY DEF Comes
<1>2. /\ v \in Seq(rows) /\ Len(v) = Len(w) + 1 /\ v[Len(w) + 1] = d
      /\ \A i \in 1 .. Len(w) : v[i] = w[i]
  BY <1>1 DEF Comes
<1> HIDE DEF v
<1>3. v # <<>> /\ v[Len(v)] = d /\ v[1] = w[1] /\ coll[v[1]].parent = Null
  BY <1>1, <1>2
<1>4. ASSUME NEW i \in 2 .. Len(v) PROVE coll[v[i]].parent = v[i - 1]
  <2>1. CASE i <= Len(w)
    <3>1. i \in 2 .. Len(w) /\ i \in 1 .. Len(w) /\ i - 1 \in 1 .. Len(w)
      BY <1>1, <2>1
    <3> QED BY <1>1, <1>2, <3>1
  <2>2. CASE i = Len(w) + 1
    BY <1>1, <1>2, <2>2
  <2> QED BY <1>1, <1>2, <2>1, <2>2
<1>5. Comes(rows, v, d)
  BY <1>2, <1>3, <1>4 DEF Comes
<1> QED BY <1>3, <1>5 DEF v

\* What is reached from the roots has a walk, one that visits no row twice.
LEMMA WalkThere ==
  ASSUME NEW rows \in SUBSET Ids, NEW c \in Reached(rows, RootsIn(rows))
  PROVE  \E w : w \in Walks(rows, c)
<1> DEFINE Once(w) == \A i, j \in 1 .. Len(w) : w[i] = w[j] => i = j
           D == {d \in rows : \E w \in Seq(rows) : Comes(rows, w, d) /\ Once(w)}
<1>1. RootsIn(rows) \subseteq D
  <2> SUFFICES ASSUME NEW d \in RootsIn(rows) PROVE d \in D
    OBVIOUS
  <2>1. d \in rows /\ coll[d].parent = Null
    BY DEF RootsIn
  <2>2. <<d>> \in Seq(rows) /\ Len(<<d>>) = 1 /\ <<d>>[1] = d /\ <<d>> # <<>>
    BY <2>1
  <2>3. Comes(rows, <<d>>, d) /\ Once(<<d>>)
    BY <2>1, <2>2 DEF Comes
  <2> QED BY <2>1, <2>2, <2>3
<1>2. ASSUME NEW d \in rows, coll[d].parent \in D PROVE d \in D
  <2> DEFINE e == coll[d].parent
  <2> HIDE DEF e
  <2>1. PICK w \in Seq(rows) : Comes(rows, w, e) /\ Once(w)
    BY <1>2 DEF e
  <2>2. /\ Len(w) \in Nat \ {0} /\ w[Len(w)] = e /\ coll[w[1]].parent = Null
        /\ \A i \in 2 .. Len(w) : coll[w[i]].parent = w[i - 1]
        /\ \A i \in 1 .. Len(w) : w[i] \in rows
    BY <2>1 DEF Comes
  <2>3. CASE \E k \in 1 .. Len(w) : w[k] = d
    <3>1. PICK k \in 1 .. Len(w) : w[k] = d
      BY <2>3
    <3> DEFINE v == [i \in 1 .. k |-> w[i]]
    <3>2. k \in Nat /\ k >= 1 /\ k <= Len(w)
      BY <2>2
    <3>3. v \in Seq(rows) /\ Len(v) = k /\ \A i \in 1 .. k : v[i] = w[i]
      BY <2>2, <3>2
    <3> HIDE DEF v
    <3>4. Comes(rows, v, d)
      <4>1. v # <<>> /\ v[Len(v)] = d /\ coll[v[1]].parent = Null
        BY <2>2, <3>1, <3>2, <3>3
      <4>2. \A i \in 2 .. k : /\ i \in 2 .. Len(w)
                              /\ i \in 1 .. k /\ i - 1 \in 1 .. k
        BY <2>2, <3>2
      <4>3. \A i \in 2 .. Len(v) : coll[v[i]].parent = v[i - 1]
        BY <2>2, <3>3, <4>2
      <4> QED BY <3>3, <4>1, <4>3 DEF Comes
    <3>5. Once(v)
      BY <2>1, <2>2, <3>2, <3>3
    <3> QED BY <3>3, <3>4, <3>5
  <2>4. CASE \A k \in 1 .. Len(w) : w[k] # d
    <3> DEFINE v == Append(w, d)
    <3>1. /\ v \in Seq(rows) /\ Len(v) = Len(w) + 1 /\ v[Len(w) + 1] = d
          /\ \A i \in 1 .. Len(w) : v[i] = w[i]
      BY <2>2
    <3>2. Comes(rows, v, d)
      BY <2>1, ComesOn DEF e
    <3> HIDE DEF v
    <3>3. Once(v)
      <4> SUFFICES ASSUME NEW i \in 1 .. Len(v), NEW j \in 1 .. Len(v), v[i] = v[j] PROVE i = j
        OBVIOUS
      <4>1. \A k \in 1 .. Len(v) : k \in 1 .. Len(w) \/ k = Len(w) + 1
        BY <2>2, <3>1
      <4> QED BY <2>1, <2>4, <3>1, <4>1
    <3> QED BY <3>1, <3>2, <3>3
  <2> QED BY <2>3, <2>4
<1>3. c \in D
  <2>1. D \in SUBSET rows /\ RootsIn(rows) \in SUBSET rows
    BY DEF RootsIn
  <2> HIDE DEF D
  <2> QED BY <1>1, <1>2, <2>1, ReachedIs
<1>4. PICK w \in Seq(rows) : Comes(rows, w, c) /\ Once(w)
  BY <1>3
<1>5. Len(w) <= Cardinality(rows)
  <2>1. Len(w) \in Nat /\ w \in [1 .. Len(w) -> rows]
    OBVIOUS
  <2>2. w \in Injection(1 .. Len(w), rows)
    BY <1>4, <2>1 DEF Injection, IsInjective
  <2>3. IsFiniteSet(rows)
    BY IdsAssumption, FS_Subset
  <2>4. Cardinality(1 .. Len(w)) = Len(w)
    BY <2>1, FS_Interval
  <2>5. Cardinality(1 .. Len(w)) <= Cardinality(rows)
    BY <2>2, <2>3, FS_Injection
  <2> QED BY <2>4, <2>5
<1> QED BY <1>4, <1>5, WalksAre

\* There is one walk to a row, as each row has one parent.
LEMMA OneWalk ==
  ASSUME NEW rows \in SUBSET Ids, NEW c \in Reached(rows, RootsIn(rows)),
         NEW w, NEW v, Comes(rows, w, c), Comes(rows, v, c)
  PROVE  w = v
<1> DEFINE D == {d \in rows : \A x, y \in Seq(rows) :
                                Comes(rows, x, d) /\ Comes(rows, y, d) => x = y}
<1>1. RootsIn(rows) \subseteq D
  <2> SUFFICES ASSUME NEW d \in RootsIn(rows)
               PROVE  d \in rows /\ \A x \in Seq(rows) : Comes(rows, x, d) => x = <<d>>
    OBVIOUS
  <2>1. d \in rows /\ coll[d].parent = Null
    BY DEF RootsIn
  <2> SUFFICES ASSUME NEW x \in Seq(rows), Comes(rows, x, d)
               PROVE  x = <<d>>
    BY <2>1
  <2>2. /\ Len(x) \in Nat \ {0} /\ x[Len(x)] = d
        /\ \A i \in 2 .. Len(x) : coll[x[i]].parent = x[i - 1]
        /\ \A i \in 1 .. Len(x) : x[i] \in Ids
    BY DEF Comes
  <2>3. Len(x) = 1
    <3> SUFFICES ASSUME Len(x) # 1 PROVE FALSE
      OBVIOUS
    <3>1. \A n \in Nat \ {0} : n # 1 => n \in 2 .. n /\ n - 1 \in 1 .. n
      OBVIOUS
    <3>2. Len(x) \in 2 .. Len(x) /\ Len(x) - 1 \in 1 .. Len(x)
      BY <2>2, <3>1
    <3> QED BY <2>1, <2>2, <3>2, IdsAssumption
  <2> QED BY <2>1, <2>2, <2>3
<1>2. ASSUME NEW d \in rows, coll[d].parent \in D PROVE d \in D
  <2> DEFINE e == coll[d].parent
             Short(x) == [i \in 1 .. Len(x) - 1 |-> x[i]]
  <2>1. ASSUME NEW x \in Seq(rows), Comes(rows, x, d)
        PROVE  /\ Len(x) \in Nat /\ Len(x) > 1 /\ x[Len(x)] = d
               /\ Short(x) \in Seq(rows) /\ Comes(rows, Short(x), e)
               /\ Len(Short(x)) = Len(x) - 1
               /\ \A i \in 1 .. Len(x) - 1 : Short(x)[i] = x[i]
    <3>1. /\ Len(x) \in Nat \ {0} /\ x[Len(x)] = d
          /\ coll[x[1]].parent = Null
          /\ \A i \in 2 .. Len(x) : coll[x[i]].parent = x[i - 1]
          /\ \A i \in 1 .. Len(x) : x[i] \in rows
      BY <2>1 DEF Comes
    <3>2. e # Null
      BY <1>2, IdsAssumption
    <3>3. Len(x) > 1
      BY <3>1, <3>2
    <3>4. /\ Short(x) \in Seq(rows) /\ Len(Short(x)) = Len(x) - 1
          /\ \A i \in 1 .. Len(x) - 1 : Short(x)[i] = x[i]
      BY <3>1, <3>3
    <3> HIDE DEF Short
    <3>5. x[Len(x) - 1] = e
      <4>1. Len(x) \in 2 .. Len(x)
        BY <3>1, <3>3
      <4> QED BY <3>1, <4>1
    <3>6. Comes(rows, Short(x), e)
      <4>1. /\ Short(x) # <<>> /\ Short(x)[Len(Short(x))] = e
            /\ coll[Short(x)[1]].parent = Null
        BY <3>1, <3>3, <3>4, <3>5
      <4>2. \A i \in 2 .. Len(Short(x)) : i \in 1 .. Len(x) - 1 /\ i - 1 \in 1 .. Len(x) - 1
                                          /\ i \in 2 .. Len(x)
        BY <3>1, <3>3, <3>4
      <4> QED BY <3>1, <3>4, <4>1, <4>2 DEF Comes
    <3> QED BY <3>1, <3>3, <3>4, <3>6
  <2> SUFFICES ASSUME NEW x \in Seq(rows), NEW y \in Seq(rows),
                      Comes(rows, x, d), Comes(rows, y, d)
               PROVE  x = y
    OBVIOUS
  <2>2. Short(x) = Short(y)
    BY <1>2, <2>1
  <2>3. Len(x) = Len(y) /\ \A i \in 1 .. Len(x) - 1 : x[i] = y[i]
    <3> HIDE DEF Short, e
    <3>1. Len(Short(x)) = Len(x) - 1 /\ Len(Short(y)) = Len(y) - 1
          /\ Len(x) \in Nat /\ Len(y) \in Nat
      BY <2>1
    <3>2. Len(x) = Len(y)
      BY <2>2, <3>1
    <3>3. /\ \A i \in 1 .. Len(x) - 1 : Short(x)[i] = x[i]
          /\ \A i \in 1 .. Len(y) - 1 : Short(y)[i] = y[i]
      BY <2>1
    <3> QED BY <2>2, <3>2, <3>3
  <2>4. x[Len(x)] = y[Len(x)]
    BY <2>1, <2>3
  <2>5. \A i \in 1 .. Len(x) : x[i] = y[i]
    <3> SUFFICES ASSUME NEW i \in 1 .. Len(x) PROVE x[i] = y[i]
      OBVIOUS
    <3>1. i = Len(x) \/ i \in 1 .. Len(x) - 1
      BY <2>1
    <3> QED BY <2>3, <2>4, <3>1
  <2>6. x = [i \in 1 .. Len(x) |-> x[i]] /\ y = [i \in 1 .. Len(y) |-> y[i]]
    OBVIOUS
  <2> QED BY <2>3, <2>5, <2>6
<1>3. c \in D
  <2>1. D \in SUBSET rows /\ RootsIn(rows) \in SUBSET rows
    BY DEF RootsIn
  <2> HIDE DEF D
  <2> QED BY <1>1, <1>2, <2>1, ReachedIs
<1> QED BY <1>3 DEF Comes

-----------------------------------------------------------------------------
(* A page that is placed is on the tree *)

LEMMA PlacedInTree ==
  ASSUME TreeInv, NEW p \in Written, Placed(p), page[p].collection # Null
  PROVE  page[p].collection \in Tree(page[p].ws)
<1> DEFINE ws == page[p].ws
           c == page[p].collection
           T == Tree(ws)
           S == {d \in Above(c) : coll[d].ws = ws /\ d \notin T}
<1>1. c \in Rows /\ coll[c].ws = ws /\ Above(c) \intersect strayed = {}
  BY DEF Placed, AtHome, Has
<1>2. /\ RootsIn(ListOf(ws)) \subseteq T
      /\ \A d \in ListOf(ws) : coll[d].parent \in T => d \in T
  <2>1. RootsIn(ListOf(ws)) \in SUBSET ListOf(ws)
    BY DEF RootsIn
  <2> QED BY <2>1, ReachedIs DEF Tree
<1> SUFFICES ASSUME c \notin T PROVE FALSE
  OBVIOUS
<1> HIDE DEF ws, c, T
<1>3. c \in S
  BY <1>1, BelowIs DEF Above
<1>4. ASSUME NEW d \in S PROVE coll[d].parent \in S
  <2>1. d \in Rows /\ d \in ListOf(ws) /\ d \notin strayed /\ c \in Below(d)
    BY <1>1 DEF Above, ListOf
  <2>2. coll[d].parent # Null
    BY <1>2, <2>1 DEF RootsIn
  <2>3. coll[d].parent \in Rows /\ coll[coll[d].parent].ws = ws
    BY <2>1, <2>2 DEF TreeInv, ReferencesOK, Refers, OneWorkspace
  <2>4. coll[d].parent \in Above(c)
    BY <2>1, <2>3, BelowParent DEF Above
  <2> QED BY <1>2, <2>1, <2>3, <2>4
<1>5. S \in SUBSET Rows /\ S \subseteq Above(c) /\ Rootless(S)
  BY <1>4 DEF Above, Rootless
<1> HIDE DEF S
<1> QED BY <1>1, <1>3, <1>5 DEF TreeInv, CyclesStrayed

\* The export and the MCP server have one walk to its collection, the same.
LEMMA PlacedWalk ==
  ASSUME TreeInv, NEW p \in Written, Placed(p), page[p].collection # Null
  PROVE  \E w : /\ Comes(ListOf(page[p].ws), w, page[p].collection)
                /\ Comes(Rows, w, page[p].collection)
                /\ Walks(ListOf(page[p].ws), page[p].collection) = {w}
                /\ Walks(Rows, page[p].collection) = {w}
                /\ page[p].collection \in Reached(Rows, RootsIn(Rows))
<1> DEFINE rows == ListOf(page[p].ws)
           c == page[p].collection
<1>1. c \in Reached(rows, RootsIn(rows))
  BY PlacedInTree DEF Tree
<1>2. rows \in SUBSET Rows /\ Rows \in SUBSET Ids
  BY RowsAre DEF ListOf, TreeInv
<1> HIDE DEF rows, c
<1>3. c \in Reached(Rows, RootsIn(Rows))
  <2> DEFINE D == {d \in rows : d \in Reached(Rows, RootsIn(Rows))}
  <2>1. RootsIn(Rows) \in SUBSET Rows /\ RootsIn(rows) \in SUBSET rows
        /\ RootsIn(rows) \subseteq RootsIn(Rows)
    BY <1>2 DEF RootsIn
  <2>2. RootsIn(rows) \subseteq D
    BY <2>1, ReachedIs
  <2>3. \A d \in rows : coll[d].parent \in D => d \in D
    BY <1>2, <2>1, ReachedIs
  <2>4. D \in SUBSET rows /\ D \subseteq Reached(Rows, RootsIn(Rows))
    OBVIOUS
  <2> HIDE DEF D
  <2>5. Reached(rows, RootsIn(rows)) \subseteq D
    BY <2>1, <2>2, <2>3, <2>4, ReachedIs
  <2> QED BY <1>1, <2>4, <2>5
<1>4. PICK w : w \in Walks(rows, c)
  BY <1>1, <1>2, WalkThere
<1>5. Comes(rows, w, c) /\ Len(w) <= Cardinality(rows)
  BY <1>2, <1>4, WalksAre
<1>6. Comes(Rows, w, c)
  BY <1>2, <1>5 DEF Comes
<1>7. Len(w) <= Cardinality(Rows)
  <2>1. IsFiniteSet(Rows) /\ IsFiniteSet(rows) /\ Cardinality(rows) <= Cardinality(Rows)
    BY <1>2, IdsAssumption, FS_Subset
  <2>2. Cardinality(rows) \in Nat /\ Cardinality(Rows) \in Nat /\ Len(w) \in Nat
    BY <1>5, <2>1, FS_CardinalityType DEF Comes
  <2> QED BY <1>5, <2>1, <2>2
<1>8. w \in Walks(Rows, c)
  BY <1>2, <1>6, <1>7, WalksAre
<1>9. \A v \in Walks(rows, c) : v = w
  BY <1>1, <1>2, <1>5, WalksAre, OneWalk
<1>10. \A v \in Walks(Rows, c) : v = w
  BY <1>2, <1>3, <1>6, WalksAre, OneWalk
<1>11. Walks(rows, c) = {w} /\ Walks(Rows, c) = {w}
  BY <1>4, <1>8, <1>9, <1>10
<1> QED BY <1>3, <1>5, <1>6, <1>11 DEF rows, c

LEMMA ShownInv == TreeInv => EveryPageIsShown
<1> SUFFICES ASSUME TreeInv, NEW p \in Written, Placed(p)
             PROVE  /\ p \in Sidebar(page[p].ws)
                    /\ page[p].collection # Null =>
                         /\ Cardinality(McpPath(p)) = 1
                         /\ ExportPath(p) = {FlattenSeq([i \in DOMAIN path |-> Segments[path[i]]]) :
                                               path \in McpPath(p)}
  BY DEF EveryPageIsShown
<1>1. CASE page[p].collection = Null
  <2>1. p \in PagesIn(page[p].ws, Null)
    BY <1>1 DEF PagesIn
  <2> QED BY <1>1, <2>1 DEF Sidebar
<1>2. CASE page[p].collection # Null
  <2>1. p \in Sidebar(page[p].ws)
    <3>1. p \in PagesIn(page[p].ws, page[p].collection)
      BY DEF PagesIn
    <3> QED BY <1>2, <3>1, PlacedInTree DEF Sidebar
  <2>2. PICK w : /\ Walks(ListOf(page[p].ws), page[p].collection) = {w}
                 /\ Walks(Rows, page[p].collection) = {w}
    BY <1>2, PlacedWalk
  <2> DEFINE names == [i \in DOMAIN w |-> coll[w[i]].name]
  <2>3. McpPath(p) = {names}
    BY <2>2 DEF McpPath
  <2>4. Cardinality(McpPath(p)) = 1
    BY <2>3, FS_Singleton
  <2>5. [i \in DOMAIN names |-> Segments[names[i]]] = [i \in DOMAIN w |-> Segments[coll[w[i]].name]]
    OBVIOUS
  <2>6. ExportPath(p) = {FlattenSeq([i \in DOMAIN w |-> Segments[coll[w[i]].name]])}
    BY <2>2 DEF ExportPath
  <2> HIDE DEF names
  <2>7. ExportPath(p) = {FlattenSeq([i \in DOMAIN path |-> Segments[path[i]]]) :
                           path \in McpPath(p)}
    BY <2>3, <2>5, <2>6
  <2> QED BY <2>1, <2>4, <2>7
<1> QED BY <1>1, <1>2

\* Wherever the collections are moved and in whatever order requests come: a
\* page of no collection, or of one of its own workspace above which no
\* collection has strayed, is in the sidebar, and export and MCP server read
\* one path for it, the same (use-collections.ts, export_repository.rs,
\* mcp_queries.rs).
THEOREM PagesAreShown == TreeSpec => []EveryPageIsShown
BY TreeInvariant, ShownInv, PTL

-----------------------------------------------------------------------------
(* Paths of the export *)

LEMMA LeastElement ==
  ASSUME NEW T \in SUBSET Nat, T # {}
  PROVE  \E x \in T : \A y \in T : x <= y
<1> DEFINE R == OpToRel(<, Nat)
<1>1. IsWellFoundedOn(R, Nat)
  BY NatLessThanWellFounded
<1>2. PICK x \in T : \A y \in T : <<y, x>> \notin R
  BY <1>1, WFMin
<1>3. \A y \in T : ~ (y < x)
  BY <1>2 DEF OpToRel
<1>4. \A y \in T : x \in Nat /\ y \in Nat
  OBVIOUS
<1>5. \A m, n \in Nat : ~ (m < n) => n <= m
  OBVIOUS
<1> QED BY <1>3, <1>4, <1>5

\* Induction, on a set.
LEMMA SetInduction ==
  ASSUME NEW T \in SUBSET Nat, 0 \in T, \A n \in T : n + 1 \in T
  PROVE  T = Nat
<1> SUFFICES ASSUME Nat \ T # {} PROVE FALSE
  OBVIOUS
<1>1. PICK x \in Nat \ T : \A y \in Nat \ T : x <= y
  BY LeastElement
<1>2. x # 0 /\ x - 1 \in Nat /\ x - 1 \in T
  BY <1>1
<1> QED BY <1>1, <1>2

\* Names that are one directory each make as many directories.
LEMMA FlatSingles ==
  ASSUME NEW U, NEW n \in Nat \ {0}, NEW s \in [1 .. n -> Seq(U)],
         \A i \in 1 .. n : Len(s[i]) = 1
  PROVE  FlattenSeq(s) = [i \in 1 .. n |-> s[i][1]]
<1> DEFINE Loop(f) == f = [i \in 1 .. n |-> IF i = 1 THEN s[i] ELSE f[i - 1] \o s[i]]
           Upto(k) == [j \in 1 .. k |-> s[j][1]]
           g == [k \in 1 .. n |-> Upto(k)]
<1>1. \A i \in 1 .. n : s[i] = <<s[i][1]>> /\ s[i][1] \in U
  OBVIOUS
<1>2. \A k \in 1 .. n : k # 1 => Upto(k) = Upto(k - 1) \o s[k]
  <2> SUFFICES ASSUME NEW k \in 1 .. n, k # 1 PROVE Upto(k) = Upto(k - 1) \o s[k]
    OBVIOUS
  <2> DEFINE a == s[k][1]
  <2>1. k \in Nat /\ k - 1 \in 1 .. n /\ k - 1 \in Nat /\ s[k] = <<a>> /\ a \in U
    BY <1>1
  <2>2. Upto(k - 1) \in Seq(U) /\ Len(Upto(k - 1)) = k - 1
        /\ \A j \in 1 .. k - 1 : Upto(k - 1)[j] = s[j][1]
    <3>1. \A j \in 1 .. k - 1 : j \in 1 .. n /\ s[j][1] \in U
      BY <1>1, <2>1
    <3> QED BY <2>1, <3>1
  <2> HIDE DEF a
  <2>3. Upto(k - 1) \o <<a>> = [j \in 1 .. k |-> IF j = k THEN a ELSE Upto(k - 1)[j]]
    <3> DEFINE x == Upto(k - 1)
    <3>1. x \in Seq(U) /\ Len(x) = k - 1
      BY <2>2
    <3> HIDE DEF x
    <3>2. x \o <<a>> = [j \in 1 .. k |-> IF j = k THEN a ELSE x[j]]
      BY <2>1, <3>1
    <3> QED BY <3>2 DEF x
  <2>4. \A j \in 1 .. k : Upto(k)[j] = IF j = k THEN a ELSE Upto(k - 1)[j]
    BY <2>1, <2>2 DEF a
  <2>5. Upto(k) = [j \in 1 .. k |-> IF j = k THEN a ELSE Upto(k - 1)[j]]
    BY <2>4
  <2> QED BY <2>1, <2>3, <2>5
<1>3. Upto(1) = s[1]
  BY <1>1
<1> HIDE DEF Upto
<1>4. Loop(g)
  <2>1. \A k \in 1 .. n : k # 1 => k - 1 \in 1 .. n
    OBVIOUS
  <2> QED BY <1>2, <1>3, <2>1
<1> DEFINE flat == CHOOSE f : Loop(f)
<1>5. FlattenSeq(s) = flat[n]
  <2>1. Len(s) = n /\ Len(s) # 0
    OBVIOUS
  <2> QED BY <2>1 DEF FlattenSeq
<1>6. Loop(flat)
  <2> HIDE DEF Loop, g
  <2>1. \E f : Loop(f)
    BY <1>4
  <2> QED BY <2>1
<1> HIDE DEF flat
<1> DEFINE T == {m \in Nat : m + 1 \in 1 .. n => flat[m + 1] = Upto(m + 1)}
<1>7. 0 \in T
  BY <1>3, <1>6
<1>8. ASSUME NEW m \in T PROVE m + 1 \in T
  <2> DEFINE k == m + 2
  <2> SUFFICES ASSUME k \in 1 .. n PROVE flat[k] = Upto(k)
    OBVIOUS
  <2>1. k - 1 = m + 1 /\ m + 1 \in 1 .. n /\ k # 1
    OBVIOUS
  <2>2. flat[m + 1] = Upto(m + 1)
    BY <1>8, <2>1
  <2>3. flat[k] = flat[k - 1] \o s[k]
    BY <1>6, <2>1
  <2> QED BY <1>2, <2>1, <2>2, <2>3
<1>9. T = Nat
  <2>1. T \in SUBSET Nat
    OBVIOUS
  <2> HIDE DEF T
  <2> QED BY <1>7, <1>8, <2>1, SetInduction
<1>10. flat[n] = Upto(n)
  <2>1. n - 1 \in Nat /\ (n - 1) + 1 = n /\ n \in 1 .. n
    OBVIOUS
  <2>2. n - 1 \in T => flat[(n - 1) + 1] = Upto((n - 1) + 1)
    BY <2>1
  <2> HIDE DEF T
  <2> QED BY <1>9, <2>1, <2>2
<1> QED BY <1>5, <1>10 DEF Upto
\* What a walk passes is above where it comes to.
LEMMA WalkAbove ==
  ASSUME NEW w, NEW c, Comes(Rows, w, c), NEW i \in 1 .. Len(w)
  PROVE  w[i] \in Above(c)
<1>1. /\ Len(w) \in Nat \ {0} /\ w[Len(w)] = c
      /\ \A j \in 2 .. Len(w) : coll[w[j]].parent = w[j - 1]
      /\ \A j \in 1 .. Len(w) : w[j] \in Rows
  BY DEF Comes
<1> DEFINE T == {m \in Nat : i + m <= Len(w) => w[i + m] \in Below(w[i])}
<1>2. /\ Below(w[i]) \in SUBSET Rows /\ w[i] \in Below(w[i])
      /\ \A d \in Rows : coll[d].parent \in Below(w[i]) => d \in Below(w[i])
  BY <1>1, BelowIs
<1>3. 0 \in T
  BY <1>2
<1>4. ASSUME NEW m \in T PROVE m + 1 \in T
  <2> DEFINE j == i + m + 1
  <2> SUFFICES ASSUME j <= Len(w) PROVE w[j] \in Below(w[i])
    OBVIOUS
  <2>1. j \in 2 .. Len(w) /\ j \in 1 .. Len(w) /\ j - 1 = i + m /\ i + m <= Len(w)
    BY <1>1
  <2>2. w[j - 1] \in Below(w[i])
    BY <2>1
  <2> QED BY <1>1, <1>2, <2>1, <2>2
<1>5. T = Nat
  <2>1. T \in SUBSET Nat
    OBVIOUS
  <2> HIDE DEF T
  <2> QED BY <1>3, <1>4, <2>1, SetInduction
<1>6. c \in Below(w[i])
  <2>1. Len(w) - i \in Nat /\ i + (Len(w) - i) = Len(w)
    BY <1>1
  <2>2. Len(w) - i \in T => w[i + (Len(w) - i)] \in Below(w[i])
    BY <2>1
  <2> HIDE DEF T
  <2> QED BY <1>1, <1>5, <2>1, <2>2
<1> QED BY <1>1, <1>6 DEF Above

\* The root above a row is where its walk begins.
LEMMA RootOfWalk ==
  ASSUME Rows \in SUBSET Ids, NEW c \in Reached(Rows, RootsIn(Rows)),
         NEW w, Comes(Rows, w, c)
  PROVE  RootsIn(Above(c)) = {w[1]}
<1>1. w[1] \in RootsIn(Above(c))
  <2>1. 1 \in 1 .. Len(w) /\ coll[w[1]].parent = Null
    BY DEF Comes
  <2> QED BY <2>1, WalkAbove DEF RootsIn
<1>2. ASSUME NEW d \in RootsIn(Above(c)) PROVE d = w[1]
  <2> DEFINE D == {e \in Rows : \E x : Comes(Rows, x, e) /\ x[1] = d}
  <2>1. d \in Rows /\ c \in Below(d) /\ coll[d].parent = Null
    BY DEF RootsIn, Above
  <2>2. d \in D
    <3>1. <<d>> \in Seq(Rows) /\ Len(<<d>>) = 1 /\ <<d>>[1] = d /\ <<d>> # <<>>
      BY <2>1
    <3>2. Comes(Rows, <<d>>, d)
      BY <2>1, <3>1 DEF Comes
    <3> QED BY <2>1, <3>1, <3>2
  <2>3. \A e \in Rows : coll[e].parent \in D => e \in D
    <3> SUFFICES ASSUME NEW e \in Rows, coll[e].parent \in D PROVE e \in D
      OBVIOUS
    <3>1. PICK x : Comes(Rows, x, coll[e].parent) /\ x[1] = d
      OBVIOUS
    <3>2. Comes(Rows, Append(x, e), e) /\ Append(x, e)[1] = d
      BY <3>1, ComesOn
    <3> QED BY <3>2
  <2>4. c \in D
    <3>1. D \in SUBSET Rows
      OBVIOUS
    <3> HIDE DEF D
    <3> QED BY <2>1, <2>2, <2>3, <3>1, BelowIs
  <2>5. PICK x : Comes(Rows, x, c) /\ x[1] = d
    BY <2>4
  <2>6. x = w
    BY <2>5, OneWalk
  <2> QED BY <2>5, <2>6
<1> QED BY <1>1, <1>2

\* In one workspace, walks from one root by the same slugs come to one row.
LEMMA SlugsLead ==
  ASSUME TreeInv, NEW ws, NEW w, NEW v, NEW c, NEW d,
         Comes(ListOf(ws), w, c), Comes(ListOf(ws), v, d),
         w[1] = v[1], Len(w) = Len(v),
         \A i \in 1 .. Len(w) : Slug[coll[w[i]].name] = Slug[coll[v[i]].name]
  PROVE  c = d
<1>1. /\ Len(w) \in Nat \ {0} /\ w[Len(w)] = c /\ v[Len(w)] = d
      /\ \A i \in 2 .. Len(w) : coll[w[i]].parent = w[i - 1] /\ coll[v[i]].parent = v[i - 1]
      /\ \A i \in 1 .. Len(w) : /\ w[i] \in Rows /\ coll[w[i]].ws = ws
                                /\ v[i] \in Rows /\ coll[v[i]].ws = ws
  BY DEF Comes, ListOf
<1> DEFINE T == {m \in Nat : m + 1 <= Len(w) => w[m + 1] = v[m + 1]}
<1>2. 0 \in T
  OBVIOUS
<1>3. ASSUME NEW m \in T PROVE m + 1 \in T
  <2> DEFINE i == m + 2
  <2> SUFFICES ASSUME i <= Len(w) PROVE w[i] = v[i]
    OBVIOUS
  <2>1. i \in 2 .. Len(w) /\ i \in 1 .. Len(w) /\ i - 1 = m + 1 /\ i - 1 \in 1 .. Len(w)
    BY <1>1
  <2>2. w[i - 1] = v[i - 1]
    BY <1>1, <2>1
  <2>3. coll[w[i]].parent = coll[v[i]].parent /\ coll[w[i]].parent # Null
    BY <1>1, <2>1, <2>2, IdsAssumption, RowsAre DEF TreeInv
  <2> HIDE DEF i
  <2> QED BY <1>1, <2>1, <2>3 DEF TreeInv, SiblingsApart
<1>4. T = Nat
  <2>1. T \in SUBSET Nat
    OBVIOUS
  <2> HIDE DEF T
  <2> QED BY <1>2, <1>3, <2>1, SetInduction
<1>5. w[Len(w)] = v[Len(w)]
  <2>1. Len(w) - 1 \in Nat /\ (Len(w) - 1) + 1 = Len(w)
    BY <1>1
  <2>2. Len(w) - 1 \in T => w[Len(w)] = v[Len(w)]
    BY <2>1
  <2> HIDE DEF T
  <2> QED BY <1>4, <2>1, <2>2
<1> QED BY <1>1, <1>5

\* The one directory of each name that the walk to a plain page passes.
LEMMA PlainPath ==
  ASSUME TreeInv, NEW p \in Written, Plain(p)
  PROVE  \E w : /\ Comes(ListOf(page[p].ws), w, page[p].collection)
                /\ RootsOf(p) = {w[1]}
                /\ \A i \in 1 .. Len(w) : /\ coll[w[i]].name \in ValidNames
                                          /\ Len(Segments[coll[w[i]].name]) = 1
                /\ ExportPath(p) = {[i \in 1 .. Len(w) |-> Segments[coll[w[i]].name][1]]}
<1> DEFINE c == page[p].collection
           rows == ListOf(page[p].ws)
<1>1. PICK w : /\ Comes(rows, w, c)
               /\ Comes(Rows, w, c)
               /\ Walks(rows, c) = {w}
               /\ c \in Reached(Rows, RootsIn(Rows))
  BY PlacedWalk DEF Plain
<1>2. Rows \in SUBSET Ids /\ \A d \in Rows : coll[d].name \in ValidNames
  BY RowsAre DEF TreeInv, CollectionRow
<1>3. RootsOf(p) = {w[1]}
  BY <1>1, <1>2, RootOfWalk DEF RootsOf
<1>4. \A i \in 1 .. Len(w) : w[i] \in Above(c) /\ w[i] \in Rows
  BY <1>1, WalkAbove DEF Above
<1>5. \A i \in 1 .. Len(w) : /\ coll[w[i]].name \in ValidNames
                             /\ Len(Segments[coll[w[i]].name]) = 1
  BY <1>2, <1>4 DEF Plain
<1> DEFINE s == [i \in 1 .. Len(w) |-> Segments[coll[w[i]].name]]
<1>6. Len(w) \in Nat \ {0} /\ DOMAIN w = 1 .. Len(w)
  BY <1>1 DEF Comes
<1>7. FlattenSeq(s) = [i \in 1 .. Len(w) |-> s[i][1]]
  <2>1. s \in [1 .. Len(w) -> Seq(Names)]
    BY <1>5, SlashAssumption DEF ValidNames
  <2>2. \A i \in 1 .. Len(w) : Len(s[i]) = 1
    BY <1>5
  <2> HIDE DEF s
  <2> QED BY <1>6, <2>1, <2>2, FlatSingles
<1>8. [i \in 1 .. Len(w) |-> s[i][1]] = [i \in 1 .. Len(w) |-> Segments[coll[w[i]].name][1]]
  OBVIOUS
<1>9. ExportPath(p) = {FlattenSeq(s)}
  BY <1>1, <1>6 DEF ExportPath
<1>10. ExportPath(p) = {[i \in 1 .. Len(w) |-> Segments[coll[w[i]].name][1]]}
  BY <1>7, <1>8, <1>9
<1> HIDE DEF s
<1> QED BY <1>1, <1>3, <1>5, <1>10

LEMMA ApartInv == TreeInv => EntriesApart
<1> SUFFICES ASSUME TreeInv, NEW ws \in Workspaces, NEW p \in Exported(ws), NEW q \in Exported(ws),
                    Plain(p), Plain(q), RootsOf(p) = RootsOf(q), Entry(p) = Entry(q)
             PROVE  p = q
  BY DEF EntriesApart
<1>1. p \in Written /\ q \in Written /\ page[p].ws = ws /\ page[q].ws = ws
  BY DEF Exported, PagesOf
<1>2. ExportPath(p) = ExportPath(q) /\ page[p].slug = page[q].slug
  BY DEF Entry
<1>3. PICK w : /\ Comes(ListOf(ws), w, page[p].collection)
               /\ RootsOf(p) = {w[1]}
               /\ \A i \in 1 .. Len(w) : /\ coll[w[i]].name \in ValidNames
                                         /\ Len(Segments[coll[w[i]].name]) = 1
               /\ ExportPath(p) = {[i \in 1 .. Len(w) |-> Segments[coll[w[i]].name][1]]}
  BY <1>1, PlainPath
<1>4. PICK v : /\ Comes(ListOf(ws), v, page[q].collection)
               /\ RootsOf(q) = {v[1]}
               /\ \A i \in 1 .. Len(v) : /\ coll[v[i]].name \in ValidNames
                                         /\ Len(Segments[coll[v[i]].name]) = 1
               /\ ExportPath(q) = {[i \in 1 .. Len(v) |-> Segments[coll[v[i]].name][1]]}
  BY <1>1, PlainPath
<1>5. w[1] = v[1]
  <2>1. {w[1]} = {v[1]}
    BY <1>3, <1>4
  <2> QED BY <2>1
<1> DEFINE x == [i \in 1 .. Len(w) |-> Segments[coll[w[i]].name][1]]
           y == [i \in 1 .. Len(v) |-> Segments[coll[v[i]].name][1]]
<1>6. x = y
  BY <1>2, <1>3, <1>4
<1>7. Len(w) \in Nat /\ Len(v) \in Nat
  BY <1>3, <1>4 DEF Comes
<1>8. Len(w) = Len(v)
  <2>1. DOMAIN x = 1 .. Len(w) /\ DOMAIN y = 1 .. Len(v)
    OBVIOUS
  <2>2. 1 .. Len(w) = 1 .. Len(v)
    BY <1>6, <2>1
  <2> QED BY <1>7, <2>2
<1>9. ASSUME NEW i \in 1 .. Len(w) PROVE Slug[coll[w[i]].name] = Slug[coll[v[i]].name]
  <2>1. Segments[coll[w[i]].name][1] = Segments[coll[v[i]].name][1]
    <3>1. x[i] = Segments[coll[w[i]].name][1] /\ y[i] = Segments[coll[v[i]].name][1]
      BY <1>8
    <3> QED BY <1>6, <3>1
  <2>2. \A a \in ValidNames : Segments[a] \in Seq(Names) /\ a \in Names /\ Slug[a] # NoSlug
    BY SlashAssumption DEF ValidNames, Valid
  <2>3. Segments[coll[w[i]].name] = Segments[coll[v[i]].name]
    <3> DEFINE a == Segments[coll[w[i]].name]
               b == Segments[coll[v[i]].name]
    <3>1. a \in Seq(Names) /\ b \in Seq(Names) /\ Len(a) = 1 /\ Len(b) = 1 /\ a[1] = b[1]
      BY <1>3, <1>4, <1>8, <2>1, <2>2
    <3> HIDE DEF a, b
    <3>2. a = b
      BY <3>1
    <3> QED BY <3>2 DEF a, b
  <2> QED BY <1>3, <1>4, <1>8, <2>2, <2>3, SlashAssumption
<1>10. page[p].collection = page[q].collection
  BY <1>3, <1>4, <1>5, <1>8, <1>9, SlugsLead
<1> QED BY <1>1, <1>2, <1>10 DEF TreeInv, PagesApart, Plain

\* Under any order of requests, no file of an exported zip overwrites another
\* beneath one root collection, where names have no slash: siblings and the pages
\* of one collection are kept apart by the tables (handler/export.rs).
THEOREM EntriesDiffer == TreeSpec => []EntriesApart
BY TreeInvariant, ApartInv, PTL

=============================================================================
