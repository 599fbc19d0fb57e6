---------------------------- MODULE AccessProofs ----------------------------
(***************************************************************************)
(* The invariants of Access hold for any number of people, sessions,       *)
(* invitations and requests.                                               *)
(***************************************************************************)
EXTENDS Access, TLAPS

-----------------------------------------------------------------------------
(* The inductive invariant. *)

(* A request names its people, and an answer is there only to be given.    *)
HandlerOK(r) ==
  /\ r.at # "idle" => r.for \in Users /\ r.about \in Users
  /\ r.at # "reply" => r.answer = NoCookies
  /\ r.at \in {"user", "revoke"} => r.sess # None
  /\ r.at \in {"create", "accept"} => r.inv # None /\ r.sess = None
  /\ r.at \in {"user", "revoke", "create", "accept", "issue"} => r.about = r.for
  /\ r.answer.refresh # None => r.answer.refresh # r.sess

(* The sessions a request presented and made are its owner's.              *)
OwnerOK(rows, r) ==
  /\ r.sess # None => rows[r.sess].state # "unused" /\ rows[r.sess].user = r.for
  /\ r.answer.refresh # None =>
       /\ rows[r.answer.refresh].state # "unused"
       /\ rows[r.answer.refresh].user = r.for

(* The session a request presented is dead once its answer is being made.  *)
RevokedOK(rows, r) ==
  r.at \in {"issue", "reply"} /\ r.sess # None => rows[r.sess].state # "live"

(* What a handler read of accounts still holds, unless it is stale.        *)
SeenOK(rows, r) ==
  /\ r.at \in {"revoke", "issue", "accept"} /\ ~r.stale =>
       rows[r.about] = r.seen /\ r.seen.there /\ r.seen.active
  /\ r.at \in {"count", "write"} => r.seen.there /\ r.set.there
  /\ r.at \in {"count", "write"} /\ ~r.stale => rows[r.about] = r.seen
  /\ r.at = "write" /\ ~r.stale /\ LosesAdmin(r.seen, r.set) =>
       \E u \in Users \ {r.about} : ActiveAdmin(rows[u])

HandlerInv == \A q \in Requests : HandlerOK(request[q])

RevokedInv == \A q \in Requests : RevokedOK(session, request[q])

SeenInv == \A q \in Requests : SeenOK(account, request[q])

(* Rows that are in use name their people, and a browser's cookie names a  *)
(* session of its owner's.                                                 *)
RowsInv ==
  /\ \A i \in Invitations : invitation[i].state = "pending" => invitation[i].email \in Users
  /\ \A s \in Sessions : session[s].state # "unused" => session[s].user \in Users

OwnerInv ==
  /\ RowsInv
  /\ \A u \in Users : cookies[u].refresh # None =>
       /\ session[cookies[u].refresh].state # "unused"
       /\ session[cookies[u].refresh].user = u
  /\ \A q \in Requests : OwnerOK(session, request[q])

(* What an access token says ends in time, given the accounts and the      *)
(* ticks since each of them changed.                                       *)
TokenEnds(rows, ages, t) ==
  t # None /\ ~t.late /\ ~(rows[t.user].active /\ rows[t.user].role = t.role)
    => t.life + ages[t.user] <= Ttl

TokenInv ==
  /\ \A u \in Users : TokenEnds(account, since, cookies[u].access)
  /\ \A q \in Requests : TokenEnds(account, since, request[q].answer.access)

Inv ==
  /\ TypeOK
  /\ HandlerInv
  /\ OwnerInv
  /\ RevokedInv
  /\ SeenInv
  /\ TokenInv
  /\ SessionsHeld
  /\ LastAdminStays

-----------------------------------------------------------------------------
(* Types.                                                                  *)

LEMMA EmptyType == Blank \in AccountRow /\ NoCookies \in Cookies
  BY DEF Blank, NoCookies, AccountRow, Cookies, Roles

LEMMA IdleType == Idle \in Request
  BY EmptyType DEF Idle, Request

LEMMA SetRequest ==
  ASSUME TypeOK, NEW q \in Requests, NEW r \in Request,
         request' = [request EXCEPT ![q] = r]
  PROVE  request' \in [Requests -> Request]
  BY DEF TypeOK

LEMMA BeginType ==
  ASSUME TypeOK, NEW q \in Requests, NEW r \in Request, Begin(q, r)
  PROVE  request' \in [Requests -> Request] /\ begun' \in Nat
  BY SetRequest DEF TypeOK, Begin

LEMMA StepType ==
  ASSUME TypeOK, NEW q \in Requests, NEW r \in Request, Step(q, r)
  PROVE  request' \in [Requests -> Request] /\ begun' \in Nat
  BY SetRequest DEF TypeOK, Step

LEMMA EndType ==
  ASSUME TypeOK, NEW q \in Requests, End(q)
  PROVE  request' \in [Requests -> Request] /\ begun' \in Nat
  BY StepType, IdleType DEF End

LEMMA RevokedType ==
  ASSUME TypeOK, NEW s \in Sessions
  PROVE  Revoked(s) \in [Sessions -> SessionRow]
  BY DEF TypeOK, Revoked, SessionRow

LEMMA TypeStep ==
  ASSUME TypeOK, HandlerInv, OwnerInv, [Next]_vars PROVE TypeOK'
<1> USE AccessAssumption
<1> DEFINE Fields(r) == /\ r.for \in Users \cup {None} /\ r.about \in Users \cup {None}
                        /\ r.sess \in Sessions \cup {None}
                        /\ r.seen \in AccountRow /\ r.set \in AccountRow
                        /\ r.cols \in SUBSET Columns
                        /\ r.inv \in Invitations \cup {None}
                        /\ r.answer \in Cookies /\ r.stale \in BOOLEAN
<1>0. \A q \in Requests : request[q] \in Request /\ Fields(request[q])
  BY DEF TypeOK, Request
<1>a. \A q \in Requests : request[q].at # "idle" =>
        request[q].for \in Users /\ request[q].about \in Users
  BY DEF HandlerInv, HandlerOK
<1>1. ASSUME NEW q \in Requests, NEW u \in Users, Login(q, u) PROVE TypeOK'
  <2> DEFINE n == [From(u) EXCEPT !.at = "issue", !.seen = account[u]]
  <2>1. n \in Request
    BY EmptyType DEF From, Idle, Request, TypeOK
  <2>2. Begin(q, n)
    BY <1>1 DEF Login
  <2> HIDE DEF n
  <2>3. request' \in [Requests -> Request] /\ begun' \in Nat
    BY <2>1, <2>2, BeginType
  <2> QED  BY <1>1, <2>3 DEF Login, TypeOK, tables
<1>2. ASSUME NEW q \in Requests, NEW u \in Users, Refresh(q, u) PROVE TypeOK'
  <2> DEFINE n == [From(u) EXCEPT !.at = "user", !.sess = cookies[u].refresh]
  <2>1. n \in Request
    BY EmptyType DEF From, Idle, Request, TypeOK, Cookies
  <2>2. Begin(q, n)
    BY <1>2 DEF Refresh
  <2> HIDE DEF n
  <2>3. request' \in [Requests -> Request] /\ begun' \in Nat
    BY <2>1, <2>2, BeginType
  <2> QED  BY <1>2, <2>3 DEF Refresh, TypeOK, tables
<1>3. ASSUME NEW q \in Requests, NEW u \in Users, Logout(q, u) PROVE TypeOK'
  <2> DEFINE s == cookies[u].refresh
             n == [From(u) EXCEPT !.at = "reply", !.sess = s]
  <2>0. s \in Sessions \cup {None}
    BY DEF TypeOK, Cookies
  <2>1. n \in Request
    BY <2>0, EmptyType DEF From, Idle, Request
  <2>2. session' = (IF s = None THEN session ELSE Revoked(s)) /\ Begin(q, n)
    BY <1>3 DEF Logout
  <2> HIDE DEF n, s
  <2>3. session' \in [Sessions -> SessionRow]
    BY <2>0, <2>2, RevokedType DEF TypeOK
  <2>4. request' \in [Requests -> Request] /\ begun' \in Nat
    BY <2>1, <2>2, BeginType
  <2> QED  BY <1>3, <2>3, <2>4 DEF Logout, TypeOK
<1>4. ASSUME NEW q \in Requests, RefreshUser(q) PROVE TypeOK'
  <2> DEFINE r == request[q]
             row == account[session[r.sess].user]
             n == [r EXCEPT !.at = "revoke", !.seen = row, !.stale = FALSE]
  <2>1. r.sess \in Sessions /\ session[r.sess].user \in Users
    BY <1>0, <1>4 DEF RefreshUser, HandlerInv, HandlerOK, OwnerInv, RowsInv, OwnerOK
  <2>2. n \in Request
    <3>1. row \in AccountRow
      BY <2>1 DEF TypeOK
    <3> HIDE DEF row
    <3> QED  BY <1>0, <3>1 DEF Request
  <2>3. \/ Step(q, n) /\ UNCHANGED session
        \/ End(q) /\ session' = Revoked(r.sess)
    BY <1>4 DEF RefreshUser
  <2>4. session' \in [Sessions -> SessionRow]
    BY <2>1, <2>3, RevokedType DEF TypeOK
  <2> HIDE DEF n
  <2>5. request' \in [Requests -> Request] /\ begun' \in Nat
    BY <2>2, <2>3, StepType, EndType
  <2> QED  BY <1>4, <2>4, <2>5 DEF RefreshUser, TypeOK
<1>5. ASSUME NEW q \in Requests, Rotate(q) PROVE TypeOK'
  <2>1. [request[q] EXCEPT !.at = "issue"] \in Request
    BY <1>0 DEF Request
  <2>2. request[q].sess \in Sessions
    BY <1>0, <1>5 DEF HandlerInv, HandlerOK, Rotate
  <2> QED  BY <1>5, <2>1, <2>2, StepType, RevokedType DEF Rotate, TypeOK
<1>6. ASSUME NEW q \in Requests, IssueTokens(q) PROVE TypeOK'
  <2> DEFINE r == request[q]
  <2>0. r.about \in Users
    BY <1>a, <1>6 DEF IssueTokens
  <2>1. Signed(r) \in AccessToken
    BY <1>0, <2>0 DEF Signed, AccessToken, AccountRow
  <2>2. PICK s \in Sessions :
          /\ session' = [session EXCEPT ![s] = [state |-> "live", user |-> r.about]]
          /\ Step(q, [r EXCEPT !.at = "reply",
                               !.answer = [refresh |-> s, access |-> Signed(r)]])
    BY <1>6 DEF IssueTokens
  <2>3. [refresh |-> s, access |-> Signed(r)] \in Cookies
    BY <2>1 DEF Cookies
  <2>4. [r EXCEPT !.at = "reply", !.answer = [refresh |-> s, access |-> Signed(r)]] \in Request
    BY <1>0, <2>3 DEF Request
  <2>5. session' \in [Sessions -> SessionRow]
    BY <2>0, <2>2 DEF TypeOK, SessionRow
  <2> QED  BY <1>6, <2>2, <2>4, <2>5, StepType DEF IssueTokens, TypeOK
<1>7. ASSUME NEW q \in Requests, Answer(q) PROVE TypeOK'
  <2>1. request[q].for \in Users /\ request[q].answer \in Cookies
    BY <1>0, <1>a, <1>7 DEF Answer
  <2>2. cookies' \in [Users -> Cookies]
    BY <1>7, <2>1 DEF Answer, TypeOK
  <2>3. left' \subseteq Sessions
    BY <1>7, <2>1 DEF Answer, TypeOK, Cookies
  <2> QED  BY <1>7, <2>2, <2>3, EndType DEF Answer, TypeOK, tables
<1>8. ASSUME NEW q \in Requests, NEW u \in Users, NEW t \in Users, UpdateRead(q, u, t)
      PROVE  TypeOK'
  <2>0. PICK cols \in SUBSET Columns, new \in AccountRow : BeginUpdate(q, u, t, cols, new)
    BY <1>8 DEF UpdateRead
  <2> DEFINE n == [From(u) EXCEPT !.about = t, !.seen = account[t], !.set = new, !.cols = cols,
                     !.at = IF LosesAdmin(account[t], new) THEN "count" ELSE "write"]
  <2>1. n \in Request
    BY EmptyType DEF From, Idle, Request, TypeOK
  <2>2. Begin(q, n)
    BY <2>0 DEF BeginUpdate
  <2> HIDE DEF n
  <2>3. request' \in [Requests -> Request] /\ begun' \in Nat
    BY <2>1, <2>2, BeginType
  <2> QED  BY <2>0, <2>3 DEF BeginUpdate, TypeOK, tables
<1>9. ASSUME NEW q \in Requests, CountAdmins(q) \/ UpdateRestates(q) PROVE TypeOK'
  <2>1. [request[q] EXCEPT !.at = "write"] \in Request
    BY <1>0 DEF Request
  <2> QED  BY <1>9, <2>1, StepType, EndType DEF CountAdmins, UpdateRestates, TypeOK, tables
<1>10. ASSUME NEW q \in Requests, UpdateWrite(q) PROVE TypeOK'
  <2> DEFINE r == request[q]
  <2>0. r.about \in Users
    BY <1>a, <1>10 DEF UpdateWrite
  <2>1. Patched(account[r.about], r) \in AccountRow
    <3>1. account[r.about] \in AccountRow
      BY <2>0 DEF TypeOK
    <3> QED  BY <1>0, <3>1 DEF Patched, AccountRow
  <2>2. account' \in [Users -> AccountRow] /\ since' \in [Users -> 0..Ttl]
    BY <1>10, <2>0, <2>1 DEF UpdateWrite, TypeOK
  <2>3. \A p \in Requests : [request[p] EXCEPT !.stale = TRUE] \in Request
    BY <1>0 DEF Request
  <2>4. request' \in [Requests -> Request]
    BY <1>0, <1>10, <2>3, IdleType DEF UpdateWrite, Outdated
  <2>5. overlapped' \in BOOLEAN
    BY <1>0, <1>10 DEF UpdateWrite, TypeOK
  <2> QED  BY <1>10, <2>2, <2>4, <2>5 DEF UpdateWrite, TypeOK
<1>11. ASSUME NEW q \in Requests, NEW u \in Users, NEW t \in Users, NEW role \in Roles,
              InviteRead(q, u, t, role)
       PROVE  TypeOK'
  <2> DEFINE n == [From(u) EXCEPT !.at = "insert", !.about = t, !.set.role = role]
  <2>1. n \in Request
    BY EmptyType DEF From, Idle, Request, Blank, AccountRow
  <2>2. Begin(q, n)
    BY <1>11 DEF InviteRead
  <2> HIDE DEF n
  <2>3. request' \in [Requests -> Request] /\ begun' \in Nat
    BY <2>1, <2>2, BeginType
  <2> QED  BY <1>11, <2>3 DEF InviteRead, TypeOK, tables
<1>12. ASSUME NEW q \in Requests, InviteInsert(q) PROVE TypeOK'
  <2>1. request[q].about \in Users /\ request[q].set.role \in Roles
    BY <1>0, <1>a, <1>12 DEF InviteInsert, AccountRow
  <2>2. invitation' \in [Invitations -> InvitationRow]
    BY <1>12, <2>1 DEF InviteInsert, TypeOK, InvitationRow
  <2> QED  BY <1>12, <2>2, EndType DEF InviteInsert, TypeOK
<1>13. ASSUME NEW q \in Requests, NEW i \in Invitations, AcceptRead(q, i) PROVE TypeOK'
  <2> DEFINE u == invitation[i].email
             n == [From(u) EXCEPT !.at = "create", !.inv = i, !.set.role = invitation[i].role]
  <2>0. u \in Users /\ invitation[i].role \in Roles
    BY <1>13 DEF TypeOK, AcceptRead, OwnerInv, RowsInv, InvitationRow
  <2>1. n \in Request
    BY <2>0, EmptyType DEF From, Idle, Request, Blank, AccountRow
  <2>2. Begin(q, n)
    BY <1>13 DEF AcceptRead
  <2> HIDE DEF n
  <2>3. request' \in [Requests -> Request] /\ begun' \in Nat
    BY <2>1, <2>2, BeginType
  <2> QED  BY <1>13, <2>3 DEF AcceptRead, TypeOK, tables
<1>14. ASSUME NEW q \in Requests, AcceptCreate(q) PROVE TypeOK'
  <2> DEFINE r == request[q]
  <2>0. r.about \in Users
    BY <1>a, <1>14 DEF AcceptCreate
  <2>1. Joined(r) \in AccountRow
    BY <1>0 DEF Joined, AccountRow
  <2>2. [r EXCEPT !.at = "accept", !.seen = Joined(r), !.stale = FALSE] \in Request
    BY <1>0, <2>1 DEF Request
  <2>3. account' \in [Users -> AccountRow] /\ since' \in [Users -> 0..Ttl]
    BY <1>14, <2>0, <2>1 DEF AcceptCreate, TypeOK
  <2> QED  BY <1>14, <2>2, <2>3, StepType, EndType DEF AcceptCreate, TypeOK
<1>15. ASSUME NEW q \in Requests, MarkAccepted(q) PROVE TypeOK'
  <2>1. [request[q] EXCEPT !.at = "issue"] \in Request
    BY <1>0 DEF Request
  <2>2. invitation' \in [Invitations -> InvitationRow]
    BY <1>15 DEF MarkAccepted, TypeOK, InvitationRow
  <2> QED  BY <1>15, <2>1, <2>2, StepType DEF MarkAccepted, TypeOK
<1>16. ASSUME NEW q \in Requests, Fail(q) PROVE TypeOK'
  <2>1. left' \subseteq Sessions
    BY <1>0, <1>16 DEF Fail, TypeOK, Cookies
  <2> QED  BY <1>16, <2>1, EndType DEF Fail, TypeOK, tables
<1>17. ASSUME NEW s \in Sessions, Expire(s) PROVE TypeOK'
  BY <1>17, RevokedType DEF Expire, TypeOK
<1>18. ASSUME NEW i \in Invitations, ExpireInvitation(i) PROVE TypeOK'
  BY <1>18 DEF ExpireInvitation, TypeOK, InvitationRow
<1>19. ASSUME NEW i \in Invitations, NEW u \in Users, RevokeInvitation(u, i) PROVE TypeOK'
  BY <1>19 DEF RevokeInvitation, TypeOK, InvitationRow
<1>20. ASSUME Tick PROVE TypeOK'
  <2>1. ASSUME NEW c \in Cookies PROVE Aged(c) \in Cookies
    BY DEF Aged, Cookies, AccessToken
  <2>2. cookies' \in [Users -> Cookies]
    BY <1>20, <2>1 DEF Tick, TypeOK
  <2>3. request' \in [Requests -> Request]
    <3>1. \A q \in Requests : [request[q] EXCEPT !.answer = Aged(@)] \in Request
      BY <1>0, <2>1 DEF Request
    <3> QED  BY <1>20, <3>1 DEF Tick
  <2>4. since' \in [Users -> 0..Ttl]
    BY <1>20 DEF Tick, TypeOK
  <2> QED  BY <1>20, <2>2, <2>3, <2>4 DEF Tick, TypeOK, tables
<1>21. ASSUME UNCHANGED vars PROVE TypeOK'
  BY <1>21 DEF TypeOK, vars, tables
<1> QED
  BY <1>1, <1>2, <1>3, <1>4, <1>5, <1>6, <1>7, <1>8, <1>9, <1>10, <1>11, <1>12, <1>13,
     <1>14, <1>15, <1>16, <1>17, <1>18, <1>19, <1>20, <1>21 DEF Next

-----------------------------------------------------------------------------
(* What requests hold. *)

LEMMA HandlerFrame ==
  ASSUME TypeOK, HandlerInv, NEW q \in Requests, NEW n,
         request' = [request EXCEPT ![q] = n], HandlerOK(n)
  PROVE  HandlerInv'
  BY DEF TypeOK, HandlerInv, HandlerOK

LEMMA HandlerIdle ==
  ASSUME TypeOK, HandlerInv, NEW q \in Requests, End(q)
  PROVE  HandlerInv'
<1>1. HandlerOK(Idle)
  BY DEF HandlerOK, Idle, NoCookies
<1>2. request' = [request EXCEPT ![q] = Idle]
  BY DEF End, Step
<1> QED  BY <1>1, <1>2, HandlerFrame

LEMMA AgedFacts ==
  ASSUME NEW c \in Cookies
  PROVE  /\ Aged(c).refresh = c.refresh
         /\ c = NoCookies => Aged(c) = NoCookies
         /\ Aged(c).access # None =>
              /\ c.access # None
              /\ Aged(c).access.user = c.access.user
              /\ Aged(c).access.role = c.access.role
              /\ Aged(c).access.late = c.access.late
              /\ Aged(c).access.life = IF c.access.life = 0 THEN 0 ELSE c.access.life - 1
<1>1. CASE c.access = None
  BY <1>1 DEF Aged
<1>2. CASE c.access # None
  <2>1. c.access \in AccessToken
    BY <1>2 DEF Cookies
  <2> QED  BY <1>2, <2>1 DEF Aged, Cookies, AccessToken, NoCookies
<1> QED  BY <1>1, <1>2

LEMMA HandlerStep ==
  ASSUME TypeOK, HandlerInv, OwnerInv, [Next]_vars PROVE HandlerInv'
<1> USE AccessAssumption
<1>a. \A q \in Requests : request[q] \in Request /\ HandlerOK(request[q]) /\ OwnerOK(session, request[q])
  BY DEF TypeOK, HandlerInv, OwnerInv
<1>1. ASSUME NEW q \in Requests, NEW u \in Users, Login(q, u) PROVE HandlerInv'
  <2> DEFINE n == [From(u) EXCEPT !.at = "issue", !.seen = account[u]]
  <2>1. HandlerOK(n)
    BY DEF HandlerOK, From, Idle, NoCookies
  <2>2. request' = [request EXCEPT ![q] = n]
    BY <1>1 DEF Login, Begin
  <2> QED  BY <2>1, <2>2, HandlerFrame
<1>2. ASSUME NEW q \in Requests, NEW u \in Users, Refresh(q, u) PROVE HandlerInv'
  <2> DEFINE n == [From(u) EXCEPT !.at = "user", !.sess = cookies[u].refresh]
  <2>1. HandlerOK(n)
    BY <1>2 DEF HandlerOK, From, Idle, NoCookies, Refresh
  <2>2. request' = [request EXCEPT ![q] = n]
    BY <1>2 DEF Refresh, Begin
  <2> QED  BY <2>1, <2>2, HandlerFrame
<1>3. ASSUME NEW q \in Requests, NEW u \in Users, Logout(q, u) PROVE HandlerInv'
  <2> DEFINE n == [From(u) EXCEPT !.at = "reply", !.sess = cookies[u].refresh]
  <2>1. HandlerOK(n)
    BY DEF HandlerOK, From, Idle, NoCookies
  <2>2. request' = [request EXCEPT ![q] = n]
    BY <1>3 DEF Logout, Begin
  <2> QED  BY <2>1, <2>2, HandlerFrame
<1>4. ASSUME NEW q \in Requests, RefreshUser(q) PROVE HandlerInv'
  <2> DEFINE row == account[session[request[q].sess].user]
             n == [request[q] EXCEPT !.at = "revoke", !.seen = row, !.stale = FALSE]
  <2>1. HandlerOK(n)
    BY <1>a, <1>4 DEF HandlerOK, RefreshUser, Request
  <2>2. request' = [request EXCEPT ![q] = n] \/ End(q)
    BY <1>4 DEF RefreshUser, Step
  <2> QED  BY <2>1, <2>2, HandlerFrame, HandlerIdle
<1>5. ASSUME NEW q \in Requests, Rotate(q) PROVE HandlerInv'
  <2> DEFINE n == [request[q] EXCEPT !.at = "issue"]
  <2>1. HandlerOK(n)
    BY <1>a, <1>5 DEF HandlerOK, Rotate, Request
  <2>2. request' = [request EXCEPT ![q] = n]
    BY <1>5 DEF Rotate, Step
  <2> QED  BY <2>1, <2>2, HandlerFrame
<1>6. ASSUME NEW q \in Requests, IssueTokens(q) PROVE HandlerInv'
  <2> DEFINE r == request[q]
             n(s) == [r EXCEPT !.at = "reply", !.answer = [refresh |-> s, access |-> Signed(r)]]
  <2>1. PICK s \in Sessions :
          session[s].state = "unused" /\ request' = [request EXCEPT ![q] = n(s)]
    BY <1>6 DEF IssueTokens, Step
  <2>2. s # r.sess
    BY <1>a, <2>1 DEF OwnerOK
  <2>3. HandlerOK(n(s))
    BY <1>a, <1>6, <2>2 DEF HandlerOK, IssueTokens, Request
  <2> QED  BY <2>1, <2>3, HandlerFrame
<1>7. ASSUME NEW q \in Requests, Answer(q) PROVE HandlerInv'
  BY <1>7, HandlerIdle DEF Answer
<1>8. ASSUME NEW q \in Requests, NEW u \in Users, NEW t \in Users, UpdateRead(q, u, t)
      PROVE  HandlerInv'
  <2>0. PICK cols \in SUBSET Columns, new \in AccountRow : BeginUpdate(q, u, t, cols, new)
    BY <1>8 DEF UpdateRead
  <2> DEFINE n == [From(u) EXCEPT !.about = t, !.seen = account[t], !.set = new, !.cols = cols,
                     !.at = IF LosesAdmin(account[t], new) THEN "count" ELSE "write"]
  <2>1. HandlerOK(n)
    BY DEF HandlerOK, From, Idle, NoCookies
  <2>2. request' = [request EXCEPT ![q] = n]
    BY <2>0 DEF BeginUpdate, Begin
  <2> QED  BY <2>1, <2>2, HandlerFrame
<1>9. ASSUME NEW q \in Requests, CountAdmins(q) \/ UpdateRestates(q) PROVE HandlerInv'
  <2> DEFINE n == [request[q] EXCEPT !.at = "write"]
  <2>1. HandlerOK(n)
    BY <1>a, <1>9 DEF HandlerOK, CountAdmins, UpdateRestates, Request
  <2>2. request' = [request EXCEPT ![q] = n] \/ End(q)
    BY <1>9 DEF CountAdmins, UpdateRestates, Step
  <2> QED  BY <2>1, <2>2, HandlerFrame, HandlerIdle
<1>10. ASSUME NEW q \in Requests, UpdateWrite(q) PROVE HandlerInv'
  <2>1. HandlerOK(Idle)
    BY DEF HandlerOK, Idle, NoCookies
  <2>2. \A p \in Requests : HandlerOK([request[p] EXCEPT !.stale = TRUE])
    BY <1>a DEF HandlerOK, Request
  <2>3. \A p \in Requests :
          request'[p] \in {Idle, [request[p] EXCEPT !.stale = TRUE], request[p]}
    BY <1>10 DEF UpdateWrite, Outdated
  <2>4. \A p \in Requests : HandlerOK(request'[p])
    BY <1>a, <2>1, <2>2, <2>3
  <2> QED  BY <2>4 DEF HandlerInv, HandlerOK
<1>11. ASSUME NEW q \in Requests, NEW u \in Users, NEW t \in Users, NEW role \in Roles,
              InviteRead(q, u, t, role)
       PROVE  HandlerInv'
  <2> DEFINE n == [From(u) EXCEPT !.at = "insert", !.about = t, !.set.role = role]
  <2>1. HandlerOK(n)
    BY DEF HandlerOK, From, Idle, NoCookies
  <2>2. request' = [request EXCEPT ![q] = n]
    BY <1>11 DEF InviteRead, Begin
  <2> QED  BY <2>1, <2>2, HandlerFrame
<1>12. ASSUME NEW q \in Requests, InviteInsert(q) PROVE HandlerInv'
  BY <1>12, HandlerIdle DEF InviteInsert
<1>13. ASSUME NEW q \in Requests, NEW i \in Invitations, AcceptRead(q, i) PROVE HandlerInv'
  <2> DEFINE u == invitation[i].email
             n == [From(u) EXCEPT !.at = "create", !.inv = i, !.set.role = invitation[i].role]
  <2>0. u \in Users
    BY <1>13 DEF AcceptRead, OwnerInv, RowsInv
  <2>1. HandlerOK(n)
    BY <2>0 DEF HandlerOK, From, Idle, NoCookies
  <2>2. request' = [request EXCEPT ![q] = n]
    BY <1>13 DEF AcceptRead, Begin
  <2> QED  BY <2>1, <2>2, HandlerFrame
<1>14. ASSUME NEW q \in Requests, AcceptCreate(q) PROVE HandlerInv'
  <2> DEFINE r == request[q]
             n == [r EXCEPT !.at = "accept", !.seen = Joined(r), !.stale = FALSE]
  <2>1. r.inv # None => HandlerOK(n)
    BY <1>a, <1>14 DEF HandlerOK, AcceptCreate, Request
  <2>2. request' = [request EXCEPT ![q] = n] \/ End(q)
    BY <1>14 DEF AcceptCreate, Step
  <2>3. r.inv # None
    BY <1>a, <1>14 DEF HandlerOK, AcceptCreate
  <2> QED  BY <2>1, <2>2, <2>3, HandlerFrame, HandlerIdle
<1>15. ASSUME NEW q \in Requests, MarkAccepted(q) PROVE HandlerInv'
  <2> DEFINE n == [request[q] EXCEPT !.at = "issue"]
  <2>1. HandlerOK(n)
    BY <1>a, <1>15 DEF HandlerOK, MarkAccepted, Request
  <2>2. request' = [request EXCEPT ![q] = n]
    BY <1>15 DEF MarkAccepted, Step
  <2> QED  BY <2>1, <2>2, HandlerFrame
<1>16. ASSUME NEW q \in Requests, Fail(q) PROVE HandlerInv'
  BY <1>16, HandlerIdle DEF Fail
<1>17. ASSUME Tick PROVE HandlerInv'
  <2>1. \A p \in Requests : HandlerOK([request[p] EXCEPT !.answer = Aged(@)])
    BY <1>a, AgedFacts DEF HandlerOK, Request
  <2>2. \A p \in Requests : request'[p] = [request[p] EXCEPT !.answer = Aged(@)]
    BY <1>17 DEF Tick
  <2>3. \A p \in Requests : HandlerOK(request'[p])
    BY <2>1, <2>2
  <2> QED  BY <2>3 DEF HandlerInv, HandlerOK
<1>18. ASSUME UNCHANGED request PROVE HandlerInv'
  BY <1>18 DEF HandlerInv, HandlerOK
<1> QED
  BY <1>1, <1>2, <1>3, <1>4, <1>5, <1>6, <1>7, <1>8, <1>9, <1>10, <1>11, <1>12, <1>13,
     <1>14, <1>15, <1>16, <1>17, <1>18
     DEF Next, vars, Expire, ExpireInvitation, RevokeInvitation

-----------------------------------------------------------------------------
(* Sessions. *)

(* A session that was issued stays its owner's, and a dead one stays dead. *)
SessionsKeep ==
  \A s \in Sessions :
    session[s].state # "unused" =>
      /\ session'[s].state # "unused"
      /\ session'[s].user = session[s].user
      /\ session[s].state = "dead" => session'[s].state = "dead"

LEMMA RevokedFacts ==
  ASSUME TypeOK, NEW s \in Sessions, NEW t \in Sessions
  PROVE  /\ Revoked(s)[t].user = session[t].user
         /\ Revoked(s)[t].state =
              IF t = s /\ session[t].state = "live" THEN "dead" ELSE session[t].state
  BY DEF TypeOK, Revoked, SessionRow

LEMMA RevokedKeeps ==
  ASSUME TypeOK, NEW s \in Sessions, session' = Revoked(s)
  PROVE  SessionsKeep
  BY RevokedFacts DEF SessionsKeep

LEMMA IssuedKeeps ==
  ASSUME TypeOK, NEW s \in Sessions, NEW row, session[s].state = "unused",
         session' = [session EXCEPT ![s] = row]
  PROVE  SessionsKeep
  BY DEF SessionsKeep, TypeOK

LEMMA SessionsStep ==
  ASSUME TypeOK, HandlerInv, [Next]_vars
  PROVE  SessionsKeep
<1> USE AccessAssumption
<1>a. \A q \in Requests : request[q].sess \in Sessions \cup {None}
  BY DEF TypeOK, Request
<1>b. \A u \in Users : cookies[u].refresh \in Sessions \cup {None}
  BY DEF TypeOK, Cookies
<1>c. \A q \in Requests : request[q].at \in {"user", "revoke"} => request[q].sess # None
  BY DEF HandlerInv, HandlerOK
<1>1. ASSUME UNCHANGED session PROVE SessionsKeep
  BY <1>1 DEF SessionsKeep
<1>2. ASSUME NEW q \in Requests, NEW u \in Users, Logout(q, u) PROVE SessionsKeep
  BY <1>2, <1>1, <1>b, RevokedKeeps DEF Logout
<1>3. ASSUME NEW q \in Requests, RefreshUser(q) PROVE SessionsKeep
  BY <1>3, <1>1, <1>a, <1>c, RevokedKeeps DEF RefreshUser
<1>4. ASSUME NEW q \in Requests, Rotate(q) PROVE SessionsKeep
  BY <1>4, <1>a, <1>c, RevokedKeeps DEF Rotate
<1>5. ASSUME NEW q \in Requests, IssueTokens(q) PROVE SessionsKeep
  BY <1>5, IssuedKeeps DEF IssueTokens
<1>6. ASSUME NEW s \in Sessions, Expire(s) PROVE SessionsKeep
  BY <1>6, RevokedKeeps DEF Expire
<1> QED
  BY <1>1, <1>2, <1>3, <1>4, <1>5, <1>6
     DEF Next, vars, tables, Login, Refresh, Answer, UpdateRead, BeginUpdate,
         CountAdmins, UpdateWrite, UpdateRestates, InviteRead, InviteInsert, AcceptRead,
         AcceptCreate, MarkAccepted, Fail,
         ExpireInvitation, RevokeInvitation, Tick

LEMMA OwnerKept ==
  ASSUME TypeOK, SessionsKeep, NEW r \in Request, OwnerOK(session, r)
  PROVE  OwnerOK(session', r)
<1>1. r.sess \in Sessions \cup {None} /\ r.answer.refresh \in Sessions \cup {None}
  BY DEF Request, Cookies
<1> QED  BY <1>1 DEF SessionsKeep, OwnerOK

LEMMA RevokedKept ==
  ASSUME TypeOK, SessionsKeep, NEW r \in Request, OwnerOK(session, r), RevokedOK(session, r)
  PROVE  RevokedOK(session', r)
<1>1. r.sess \in Sessions \cup {None}
  BY DEF Request
<1>2. \A s \in Sessions : session[s].state \in {"unused", "live", "dead"}
  BY DEF TypeOK, SessionRow
<1> QED  BY <1>1, <1>2 DEF SessionsKeep, OwnerOK, RevokedOK

(* A step that gives one request what its own sessions allow. *)
LEMMA OwnerFrame ==
  ASSUME TypeOK, OwnerInv, RevokedInv, SessionsKeep,
         NEW q \in Requests, NEW n, request' = [request EXCEPT ![q] = n],
         OwnerOK(session', n), RevokedOK(session', n)
  PROVE  \A p \in Requests : OwnerOK(session', request'[p]) /\ RevokedOK(session', request'[p])
<1>1. \A p \in Requests : OwnerOK(session', request[p]) /\ RevokedOK(session', request[p])
  BY OwnerKept, RevokedKept DEF TypeOK, OwnerInv, RevokedInv
<1> QED  BY <1>1 DEF TypeOK

LEMMA OwnerIdle ==
  ASSUME TypeOK, OwnerInv, RevokedInv, SessionsKeep, NEW q \in Requests, End(q)
  PROVE  \A p \in Requests : OwnerOK(session', request'[p]) /\ RevokedOK(session', request'[p])
<1>1. OwnerOK(session', Idle) /\ RevokedOK(session', Idle)
  BY DEF OwnerOK, RevokedOK, Idle, NoCookies
<1>2. request' = [request EXCEPT ![q] = Idle]
  BY DEF End, Step
<1> QED  BY <1>1, <1>2, OwnerFrame

LEMMA OwnerRequests ==
  ASSUME TypeOK, HandlerInv, OwnerInv, RevokedInv, [Next]_vars
  PROVE  \A p \in Requests : OwnerOK(session', request'[p]) /\ RevokedOK(session', request'[p])
<1> USE AccessAssumption
<1> DEFINE Goal == \A p \in Requests :
                     OwnerOK(session', request'[p]) /\ RevokedOK(session', request'[p])
<1>k. SessionsKeep
  BY SessionsStep
<1>a. \A q \in Requests : /\ request[q] \in Request /\ HandlerOK(request[q])
                          /\ OwnerOK(session, request[q]) /\ RevokedOK(session, request[q])
                          /\ OwnerOK(session', request[q]) /\ RevokedOK(session', request[q])
  BY <1>k, OwnerKept, RevokedKept DEF TypeOK, HandlerInv, OwnerInv, RevokedInv
<1>b. \A u \in Users : cookies[u].refresh \in Sessions \cup {None}
  BY DEF TypeOK, Cookies
<1>c. \A u \in Users : cookies[u].refresh # None =>
        /\ session'[cookies[u].refresh].state # "unused"
        /\ session'[cookies[u].refresh].user = u
  BY <1>k, <1>b DEF OwnerInv, SessionsKeep
<1>1. ASSUME NEW q \in Requests, NEW n, n.sess = None, n.answer = NoCookies,
             request' = [request EXCEPT ![q] = n]
      PROVE  Goal
  <2>1. OwnerOK(session', n) /\ RevokedOK(session', n)
    BY <1>1 DEF OwnerOK, RevokedOK, NoCookies
  <2> QED  BY <1>1, <1>k, <2>1, OwnerFrame
<1>2. ASSUME NEW q \in Requests, NEW u \in Users, Login(q, u) PROVE Goal
  <2> DEFINE n == [From(u) EXCEPT !.at = "issue", !.seen = account[u]]
  <2>1. n.sess = None /\ n.answer = NoCookies
    BY DEF From, Idle
  <2>2. request' = [request EXCEPT ![q] = n]
    BY <1>2 DEF Login, Begin
  <2> HIDE DEF n
  <2> QED  BY <1>1, <2>1, <2>2
<1>3. ASSUME NEW q \in Requests, NEW u \in Users, Refresh(q, u) PROVE Goal
  <2> DEFINE n == [From(u) EXCEPT !.at = "user", !.sess = cookies[u].refresh]
  <2>1. OwnerOK(session', n) /\ RevokedOK(session', n)
    BY <1>c DEF OwnerOK, RevokedOK, From, Idle, NoCookies
  <2>2. request' = [request EXCEPT ![q] = n]
    BY <1>3 DEF Refresh, Begin
  <2> HIDE DEF n, Goal
  <2> QED  BY <1>k, <2>1, <2>2, OwnerFrame DEF Goal
<1>4. ASSUME NEW q \in Requests, NEW u \in Users, Logout(q, u) PROVE Goal
  <2> DEFINE s == cookies[u].refresh
             n == [From(u) EXCEPT !.at = "reply", !.sess = s]
  <2>1. s # None => session'[s].state # "live"
    BY <1>4, <1>b, RevokedFacts DEF Logout
  <2>2. OwnerOK(session', n) /\ RevokedOK(session', n)
    BY <1>c, <2>1 DEF OwnerOK, RevokedOK, From, Idle, NoCookies
  <2>3. request' = [request EXCEPT ![q] = n]
    BY <1>4 DEF Logout, Begin
  <2> HIDE DEF n, Goal
  <2> QED  BY <1>k, <2>2, <2>3, OwnerFrame DEF Goal
<1>5. ASSUME NEW q \in Requests, RefreshUser(q) PROVE Goal
  <2> DEFINE row == account[session[request[q].sess].user]
             n == [request[q] EXCEPT !.at = "revoke", !.seen = row, !.stale = FALSE]
  <2>1. OwnerOK(session', n) /\ RevokedOK(session', n)
    BY <1>a DEF OwnerOK, RevokedOK, Request
  <2>2. request' = [request EXCEPT ![q] = n] \/ End(q)
    BY <1>5 DEF RefreshUser, Step
  <2> HIDE DEF n, Goal
  <2> QED  BY <1>k, <2>1, <2>2, OwnerFrame, OwnerIdle DEF Goal
<1>6. ASSUME NEW q \in Requests, Rotate(q) PROVE Goal
  <2> DEFINE n == [request[q] EXCEPT !.at = "issue"]
  <2>1. request[q].sess \in Sessions
    BY <1>a, <1>6 DEF HandlerOK, Rotate, Request
  <2>2. session'[request[q].sess].state # "live"
    BY <1>6, <2>1, RevokedFacts DEF Rotate
  <2>3. OwnerOK(session', n) /\ RevokedOK(session', n)
    BY <1>a, <2>2 DEF OwnerOK, RevokedOK, Request
  <2>4. request' = [request EXCEPT ![q] = n]
    BY <1>6 DEF Rotate, Step
  <2> HIDE DEF n, Goal
  <2> QED  BY <1>k, <2>3, <2>4, OwnerFrame DEF Goal
<1>7. ASSUME NEW q \in Requests, IssueTokens(q) PROVE Goal
  <2> DEFINE r == request[q]
             n(s) == [r EXCEPT !.at = "reply", !.answer = [refresh |-> s, access |-> Signed(r)]]
  <2>1. PICK s \in Sessions :
          /\ session[s].state = "unused"
          /\ session' = [session EXCEPT ![s] = [state |-> "live", user |-> r.about]]
          /\ request' = [request EXCEPT ![q] = n(s)]
    BY <1>7 DEF IssueTokens, Step
  <2>2. session'[s] = [state |-> "live", user |-> r.about]
    BY <2>1 DEF TypeOK
  <2>3. r.about = r.for /\ r.at = "issue"
    BY <1>a, <1>7 DEF HandlerOK, IssueTokens
  <2>4. OwnerOK(session', n(s)) /\ RevokedOK(session', n(s))
    BY <1>a, <2>2, <2>3 DEF OwnerOK, RevokedOK, Request
  <2> HIDE DEF n, Goal
  <2> QED  BY <1>k, <2>1, <2>4, OwnerFrame DEF Goal
<1>8. ASSUME NEW q \in Requests, NEW u \in Users, NEW t \in Users, UpdateRead(q, u, t)
      PROVE  Goal
  <2>0. PICK cols \in SUBSET Columns, new \in AccountRow : BeginUpdate(q, u, t, cols, new)
    BY <1>8 DEF UpdateRead
  <2> DEFINE n == [From(u) EXCEPT !.about = t, !.seen = account[t], !.set = new, !.cols = cols,
                     !.at = IF LosesAdmin(account[t], new) THEN "count" ELSE "write"]
  <2>1. n.sess = None /\ n.answer = NoCookies
    BY DEF From, Idle
  <2>2. request' = [request EXCEPT ![q] = n]
    BY <2>0 DEF BeginUpdate, Begin
  <2> HIDE DEF n
  <2> QED  BY <1>1, <2>1, <2>2
<1>9. ASSUME NEW q \in Requests, CountAdmins(q) \/ UpdateRestates(q) PROVE Goal
  <2> DEFINE n == [request[q] EXCEPT !.at = "write"]
  <2>1. OwnerOK(session', n) /\ RevokedOK(session', n)
    BY <1>a DEF OwnerOK, RevokedOK, Request
  <2>2. request' = [request EXCEPT ![q] = n] \/ End(q)
    BY <1>9 DEF CountAdmins, UpdateRestates, Step
  <2> HIDE DEF n, Goal
  <2> QED  BY <1>k, <2>1, <2>2, OwnerFrame, OwnerIdle DEF Goal
<1>10. ASSUME NEW q \in Requests, UpdateWrite(q) PROVE Goal
  <2>1. OwnerOK(session', Idle) /\ RevokedOK(session', Idle)
    BY DEF OwnerOK, RevokedOK, Idle, NoCookies
  <2>2. \A p \in Requests : /\ OwnerOK(session', [request[p] EXCEPT !.stale = TRUE])
                            /\ RevokedOK(session', [request[p] EXCEPT !.stale = TRUE])
    BY <1>a DEF OwnerOK, RevokedOK, Request
  <2>3. \A p \in Requests :
          request'[p] \in {Idle, [request[p] EXCEPT !.stale = TRUE], request[p]}
    BY <1>10 DEF UpdateWrite, Outdated
  <2> QED  BY <1>a, <2>1, <2>2, <2>3
<1>11. ASSUME NEW q \in Requests, NEW u \in Users, NEW t \in Users, NEW role \in Roles,
              InviteRead(q, u, t, role)
       PROVE  Goal
  <2> DEFINE n == [From(u) EXCEPT !.at = "insert", !.about = t, !.set.role = role]
  <2>1. n.sess = None /\ n.answer = NoCookies
    BY DEF From, Idle
  <2>2. request' = [request EXCEPT ![q] = n]
    BY <1>11 DEF InviteRead, Begin
  <2> HIDE DEF n
  <2> QED  BY <1>1, <2>1, <2>2
<1>12. ASSUME NEW q \in Requests, NEW i \in Invitations, AcceptRead(q, i) PROVE Goal
  <2> DEFINE n == [From(invitation[i].email) EXCEPT !.at = "create", !.inv = i,
                     !.set.role = invitation[i].role]
  <2>1. n.sess = None /\ n.answer = NoCookies
    BY DEF From, Idle
  <2>2. request' = [request EXCEPT ![q] = n]
    BY <1>12 DEF AcceptRead, Begin
  <2> HIDE DEF n
  <2> QED  BY <1>1, <2>1, <2>2
<1>13. ASSUME NEW q \in Requests, AcceptCreate(q) PROVE Goal
  <2> DEFINE r == request[q]
             n == [r EXCEPT !.at = "accept", !.seen = Joined(r), !.stale = FALSE]
  <2>1. OwnerOK(session', n) /\ RevokedOK(session', n)
    BY <1>a DEF OwnerOK, RevokedOK, Request
  <2>2. request' = [request EXCEPT ![q] = n] \/ End(q)
    BY <1>13 DEF AcceptCreate, Step
  <2> HIDE DEF n, Goal
  <2> QED  BY <1>k, <2>1, <2>2, OwnerFrame, OwnerIdle DEF Goal
<1>14. ASSUME NEW q \in Requests, MarkAccepted(q) PROVE Goal
  <2> DEFINE n == [request[q] EXCEPT !.at = "issue"]
  <2>1. OwnerOK(session', n)
    BY <1>a DEF OwnerOK, Request
  <2>2. request[q].sess = None \/ RevokedOK(session', n)
    BY <1>a, <1>14 DEF HandlerOK, MarkAccepted, RevokedOK, Request
  <2>3. RevokedOK(session', n)
    BY <1>a, <2>2 DEF RevokedOK, Request
  <2>4. request' = [request EXCEPT ![q] = n]
    BY <1>14 DEF MarkAccepted, Step
  <2> HIDE DEF n, Goal
  <2> QED  BY <1>k, <2>1, <2>3, <2>4, OwnerFrame DEF Goal
<1>15. ASSUME NEW q \in Requests, End(q) PROVE Goal
  BY <1>15, <1>k, OwnerIdle
<1>16. ASSUME Tick PROVE Goal
  <2>1. \A p \in Requests : Aged(request[p].answer).refresh = request[p].answer.refresh
    BY <1>a, AgedFacts DEF Request
  <2>2. \A p \in Requests : /\ OwnerOK(session', [request[p] EXCEPT !.answer = Aged(@)])
                            /\ RevokedOK(session', [request[p] EXCEPT !.answer = Aged(@)])
    BY <1>a, <2>1 DEF OwnerOK, RevokedOK, Request
  <2>3. \A p \in Requests : request'[p] = [request[p] EXCEPT !.answer = Aged(@)]
    BY <1>16 DEF Tick
  <2> QED  BY <2>2, <2>3
<1>17. ASSUME UNCHANGED request PROVE Goal
  BY <1>17, <1>a
<1> QED
  BY <1>2, <1>3, <1>4, <1>5, <1>6, <1>7, <1>8, <1>9, <1>10, <1>11, <1>12, <1>13,
     <1>14, <1>15, <1>16, <1>17
     DEF Next, vars, Answer, InviteInsert, Fail, Expire, ExpireInvitation, RevokeInvitation

LEMMA RowsStep ==
  ASSUME TypeOK, HandlerInv, OwnerInv, [Next]_vars PROVE RowsInv'
<1> USE AccessAssumption
<1>k. SessionsKeep
  BY SessionsStep
<1>1. \A s \in Sessions : session'[s].state # "unused" => session'[s].user \in Users
  <2>1. ASSUME NEW q \in Requests, IssueTokens(q)
        PROVE  \A s \in Sessions : session'[s].state # "unused" => session'[s].user \in Users
    <3>1. request[q].about \in Users
      BY <2>1 DEF HandlerInv, HandlerOK, IssueTokens
    <3> QED  BY <2>1, <3>1 DEF IssueTokens, TypeOK, OwnerInv, RowsInv
  <2>2. ASSUME \A s \in Sessions : session'[s].state # "unused" => session[s].state # "unused"
        PROVE  \A s \in Sessions : session'[s].state # "unused" => session'[s].user \in Users
    BY <1>k, <2>2 DEF SessionsKeep, OwnerInv, RowsInv
  <2>3. ASSUME NEW t \in Sessions, session' = Revoked(t)
        PROVE  \A s \in Sessions : session'[s].state # "unused" => session[s].state # "unused"
    BY <2>3, RevokedFacts
  <2>4. \A q \in Requests : /\ request[q].sess \in Sessions \cup {None}
                            /\ request[q].at \in {"user", "revoke"} => request[q].sess # None
    BY DEF TypeOK, Request, HandlerInv, HandlerOK
  <2>5. \A u \in Users : cookies[u].refresh \in Sessions \cup {None}
    BY DEF TypeOK, Cookies
  <2>6. \/ UNCHANGED session
        \/ \E t \in Sessions : session' = Revoked(t)
        \/ \E q \in Requests : IssueTokens(q)
    BY <2>4, <2>5
       DEF Next, vars, tables, Login, Refresh, RefreshUser, Rotate, Logout, Answer, UpdateRead,
           BeginUpdate, CountAdmins, UpdateWrite, UpdateRestates, InviteRead, InviteInsert,
           AcceptRead, AcceptCreate,
           MarkAccepted, Fail, Expire, ExpireInvitation, RevokeInvitation, Tick
  <2>7. CASE UNCHANGED session
    BY <2>2, <2>7
  <2> QED  BY <2>1, <2>2, <2>3, <2>6, <2>7
<1>2. \A i \in Invitations : invitation'[i].state = "pending" => invitation'[i].email \in Users
  <2> DEFINE Goal == \A i \in Invitations :
                       invitation'[i].state = "pending" => invitation'[i].email \in Users
  <2>1. ASSUME UNCHANGED invitation PROVE Goal
    BY <2>1 DEF OwnerInv, RowsInv
  <2>2. ASSUME NEW q \in Requests, InviteInsert(q) PROVE Goal
    <3>1. request[q].about \in Users
      BY <2>2 DEF HandlerInv, HandlerOK, InviteInsert
    <3> QED  BY <2>2, <3>1 DEF InviteInsert, TypeOK, OwnerInv, RowsInv
  <2>3. ASSUME NEW i \in Invitations, NEW st \in {"accepted", "dead"},
               invitation' = [invitation EXCEPT ![i].state = st]
        PROVE  Goal
    BY <2>3 DEF TypeOK, InvitationRow, OwnerInv, RowsInv
  <2>4. ASSUME NEW q \in Requests, MarkAccepted(q) PROVE Goal
    <3>1. request[q].inv \in Invitations
      BY <2>4 DEF HandlerInv, HandlerOK, MarkAccepted, TypeOK, Request
    <3> QED  BY <2>3, <2>4, <3>1 DEF MarkAccepted
  <2>5. ASSUME NEW i \in Invitations, ExpireInvitation(i) \/ \E u \in Users : RevokeInvitation(u, i)
        PROVE  Goal
    BY <2>3, <2>5 DEF ExpireInvitation, RevokeInvitation
  <2> QED
    BY <2>1, <2>2, <2>4, <2>5
       DEF Next, vars, tables, Login, Refresh, RefreshUser, Rotate, IssueTokens, Logout, Answer,
           UpdateRead, BeginUpdate, CountAdmins, UpdateWrite, UpdateRestates, InviteRead,
           AcceptRead, AcceptCreate,
           Fail, Expire, Tick
<1> QED  BY <1>1, <1>2 DEF RowsInv

(* Only an answer writes a browser's cookies; the clock keeps the session. *)
LEMMA CookiesStep ==
  ASSUME TypeOK, [Next]_vars, ~(\E q \in Requests : Answer(q))
  PROVE  \A u \in Users : cookies'[u].refresh = cookies[u].refresh
<1>1. CASE Tick
  <2>1. \A u \in Users : cookies'[u] = Aged(cookies[u]) /\ cookies[u] \in Cookies
    BY <1>1 DEF Tick, TypeOK
  <2> QED  BY <2>1, AgedFacts
<1>2. CASE UNCHANGED cookies
  BY <1>2
<1> QED
  BY <1>1, <1>2
     DEF Next, vars, Login, Refresh, RefreshUser, Rotate, IssueTokens, Logout,
         UpdateRead, BeginUpdate, CountAdmins, UpdateWrite, UpdateRestates, InviteRead, InviteInsert,
         AcceptRead, AcceptCreate,
         MarkAccepted, Fail, Expire, ExpireInvitation, RevokeInvitation

LEMMA OwnerStep ==
  ASSUME TypeOK, HandlerInv, OwnerInv, RevokedInv, [Next]_vars
  PROVE  OwnerInv' /\ RevokedInv'
<1> USE AccessAssumption
<1>k. SessionsKeep
  BY SessionsStep
<1>1. \A p \in Requests : OwnerOK(session', request'[p]) /\ RevokedOK(session', request'[p])
  BY OwnerRequests
<1>2. \A u \in Users : cookies[u].refresh \in Sessions \cup {None}
  BY DEF TypeOK, Cookies
<1>3. \A u \in Users : cookies'[u].refresh # None =>
        /\ session'[cookies'[u].refresh].state # "unused"
        /\ session'[cookies'[u].refresh].user = u
  <2>1. CASE \E q \in Requests : Answer(q)
    <3>1. PICK q \in Requests : Answer(q)
      BY <2>1
    <3>2. request[q].for \in Users /\ OwnerOK(session, request[q])
      BY <3>1 DEF HandlerInv, HandlerOK, OwnerInv, Answer
    <3>3. cookies' = [cookies EXCEPT ![request[q].for] = request[q].answer] /\ session' = session
      BY <3>1 DEF Answer, tables
    <3> QED  BY <3>2, <3>3 DEF OwnerOK, OwnerInv, TypeOK
  <2>2. CASE ~(\E q \in Requests : Answer(q))
    BY <1>k, <1>2, <2>2, CookiesStep DEF SessionsKeep, OwnerInv
  <2> QED  BY <2>1, <2>2
<1>4. RowsInv'
  BY RowsStep
<1> QED  BY <1>1, <1>3, <1>4 DEF OwnerInv, RevokedInv, OwnerOK, RevokedOK

-----------------------------------------------------------------------------
(* Every live session is held. *)

SessionsBack ==
  \A s \in Sessions : session'[s].state = "live" =>
    session[s].state = "live" /\ session'[s].user = session[s].user

AnswersKeep ==
  \A p \in Requests : request[p].answer.refresh # None =>
    request'[p].answer.refresh = request[p].answer.refresh

LEMMA HeldKept ==
  ASSUME SessionsHeld, SessionsBack, AnswersKeep, left \subseteq left',
         \A s \in Sessions : session[s].state = "live" => session[s].user \in Users,
         \A u \in Users : cookies'[u].refresh = cookies[u].refresh
  PROVE  SessionsHeld'
<1> USE AccessAssumption
<1>1. ASSUME NEW s \in Sessions, session'[s].state = "live"
      PROVE  \/ s \in left'
             \/ cookies'[session'[s].user].refresh = s
             \/ \E q \in Requests : request'[q].answer.refresh = s
  <2>1. session[s].state = "live" /\ session'[s].user = session[s].user
    BY <1>1 DEF SessionsBack
  <2>2. CASE s \in left
    BY <2>2
  <2>3. CASE cookies[session[s].user].refresh = s
    BY <2>1, <2>3
  <2>4. CASE \E q \in Requests : request[q].answer.refresh = s
    BY <2>4 DEF AnswersKeep
  <2> QED  BY <2>1, <2>2, <2>3, <2>4 DEF SessionsHeld, Live
<1> QED  BY <1>1 DEF SessionsHeld, Live

LEMMA HeldStep ==
  ASSUME TypeOK, HandlerInv, OwnerInv, RevokedInv, SessionsHeld, [Next]_vars
  PROVE  SessionsHeld'
<1> USE AccessAssumption
<1>u. \A s \in Sessions : session[s].state = "live" => session[s].user \in Users
  BY DEF OwnerInv, RowsInv
<1>a. \A q \in Requests : /\ request[q] \in Request
                          /\ HandlerOK(request[q])
                          /\ OwnerOK(session, request[q])
                          /\ RevokedOK(session, request[q])
  BY DEF TypeOK, HandlerInv, OwnerInv, RevokedInv
<1>b. ASSUME NEW q \in Requests, NEW n, request' = [request EXCEPT ![q] = n],
             request[q].at # "reply"
      PROVE  AnswersKeep
  BY <1>a, <1>b DEF AnswersKeep, TypeOK, HandlerOK, NoCookies
<1>e. ASSUME NEW q \in Requests, End(q), request[q].at # "reply" PROVE AnswersKeep
  BY <1>b, <1>e DEF End, Step
<1>s. ASSUME NEW t \in Sessions, session' = Revoked(t) PROVE SessionsBack
  BY <1>s, RevokedFacts DEF SessionsBack
<1>t. ASSUME UNCHANGED session PROVE SessionsBack
  BY <1>t DEF SessionsBack
<1>1. ASSUME NEW q \in Requests, Answer(q) PROVE SessionsHeld'
  <2> DEFINE r == request[q]
             old == cookies[r.for].refresh
  <2>1. /\ r.at = "reply" /\ r.for \in Users
        /\ cookies' = [cookies EXCEPT ![r.for] = r.answer]
        /\ left' = left \cup ({old} \ {None, r.sess, r.answer.refresh})
        /\ request' = [request EXCEPT ![q] = Idle]
        /\ session' = session
    BY <1>1, <1>a DEF Answer, tables, End, Step, HandlerOK
  <2>2. ASSUME NEW s \in Sessions, session[s].state = "live"
        PROVE  \/ s \in left'
               \/ cookies'[session[s].user].refresh = s
               \/ \E p \in Requests : request'[p].answer.refresh = s
    <3>1. CASE s \in left
      BY <2>1, <3>1
    <3>2. CASE cookies[session[s].user].refresh = s
      <4>1. CASE session[s].user = r.for
        <5>1. s # r.sess
          BY <1>a, <2>1, <2>2 DEF RevokedOK
        <5> QED  BY <2>1, <3>2, <4>1, <5>1 DEF TypeOK
      <4>2. CASE session[s].user # r.for
        BY <2>1, <3>2, <4>2, <1>u, <2>2 DEF TypeOK
      <4> QED  BY <4>1, <4>2
    <3>3. CASE \E p \in Requests : request[p].answer.refresh = s
      <4>1. PICK p \in Requests : request[p].answer.refresh = s
        BY <3>3
      <4>2. CASE p = q
        <5>1. session[s].user = r.for
          BY <1>a, <4>1, <4>2 DEF OwnerOK
        <5> QED  BY <2>1, <4>1, <4>2, <5>1 DEF TypeOK
      <4>3. CASE p # q
        <5>1. request'[p] = request[p]
          BY <2>1, <4>3 DEF TypeOK
        <5> QED  BY <4>1, <5>1
      <4> QED  BY <4>2, <4>3
    <3> QED  BY <2>2, <3>1, <3>2, <3>3 DEF SessionsHeld, Live
  <2> QED  BY <2>1, <2>2 DEF SessionsHeld, Live
<1>2. ASSUME NEW q \in Requests, IssueTokens(q) PROVE SessionsHeld'
  <2> DEFINE r == request[q]
             n(s) == [r EXCEPT !.at = "reply", !.answer = [refresh |-> s, access |-> Signed(r)]]
  <2>1. PICK t \in Sessions :
          /\ session[t].state = "unused"
          /\ session' = [session EXCEPT ![t] = [state |-> "live", user |-> r.about]]
          /\ request' = [request EXCEPT ![q] = n(t)]
    BY <1>2 DEF IssueTokens, Step
  <2>2. request'[q].answer.refresh = t
    BY <1>a, <2>1 DEF TypeOK, Request
  <2>3. AnswersKeep
    BY <1>2, <1>b, <2>1 DEF IssueTokens
  <2>4. ASSUME NEW s \in Sessions, session'[s].state = "live", s # t
        PROVE  \/ s \in left
               \/ cookies[session'[s].user].refresh = s
               \/ \E p \in Requests : request'[p].answer.refresh = s
    <3>1. session'[s] = session[s]
      BY <2>1, <2>4 DEF TypeOK
    <3> QED  BY <2>3, <2>4, <3>1 DEF SessionsHeld, Live, AnswersKeep
  <2>5. UNCHANGED <<cookies, left>>
    BY <1>2 DEF IssueTokens
  <2> QED  BY <2>2, <2>4, <2>5 DEF SessionsHeld, Live
<1>3. ASSUME NEW q \in Requests, Fail(q) PROVE SessionsHeld'
  <2>1. /\ left' = left \cup ({request[q].answer.refresh} \ {None})
        /\ request' = [request EXCEPT ![q] = Idle]
        /\ UNCHANGED <<session, cookies>>
    BY <1>3 DEF Fail, End, Step, tables
  <2>2. \A p \in Requests : p # q => request'[p] = request[p]
    BY <2>1 DEF TypeOK
  <2>3. ASSUME NEW s \in Sessions, \E p \in Requests : request[p].answer.refresh = s
        PROVE  s \in left' \/ \E p \in Requests : request'[p].answer.refresh = s
    BY <2>1, <2>2, <2>3
  <2> QED  BY <2>1, <2>3 DEF SessionsHeld, Live
<1>4. ASSUME Tick PROVE SessionsHeld'
  <2>1. AnswersKeep
    <3>1. \A p \in Requests : Aged(request[p].answer).refresh = request[p].answer.refresh
      BY <1>a, AgedFacts DEF Request
    <3>2. \A p \in Requests : request'[p] = [request[p] EXCEPT !.answer = Aged(@)]
      BY <1>4 DEF Tick
    <3> QED  BY <1>a, <3>1, <3>2 DEF AnswersKeep, Request
  <2>2. \A u \in Users : cookies'[u].refresh = cookies[u].refresh
    <3>1. \A u \in Users : cookies'[u] = Aged(cookies[u]) /\ cookies[u] \in Cookies
      BY <1>4 DEF Tick, TypeOK
    <3> QED  BY <3>1, AgedFacts
  <2>3. SessionsBack /\ left' = left
    BY <1>4, <1>t DEF Tick, tables
  <2> QED  BY <1>u, <2>1, <2>2, <2>3, HeldKept
<1>5. ASSUME AnswersKeep, SessionsBack, UNCHANGED <<cookies, left>> PROVE SessionsHeld'
  BY <1>u, <1>5, HeldKept
<1>6. ASSUME NEW q \in Requests, NEW n, Begin(q, n) PROVE AnswersKeep
  BY <1>6, <1>b DEF Begin
<1>7. ASSUME NEW q \in Requests, NEW n, Step(q, n), request[q].at # "reply" PROVE AnswersKeep
  BY <1>7, <1>b DEF Step
<1>8. ASSUME NEW q \in Requests,
             \E u \in Users : Login(q, u) \/ Refresh(q, u)
               \/ (\E t \in Users : UpdateRead(q, u, t))
               \/ \E t \in Users, role \in Roles : InviteRead(q, u, t, role)
      PROVE  SessionsHeld'
  BY <1>5, <1>6, <1>8, <1>t DEF Login, Refresh, UpdateRead, BeginUpdate, InviteRead, tables
<1>9. ASSUME NEW q \in Requests, NEW i \in Invitations, AcceptRead(q, i) PROVE SessionsHeld'
  BY <1>5, <1>6, <1>9, <1>t DEF AcceptRead, tables
<1>10. ASSUME NEW q \in Requests, NEW u \in Users, Logout(q, u) PROVE SessionsHeld'
  <2>1. cookies[u].refresh \in Sessions \cup {None}
    BY DEF TypeOK, Cookies
  <2> QED  BY <1>5, <1>6, <1>10, <1>s, <1>t, <2>1 DEF Logout
<1>11. ASSUME NEW q \in Requests, RefreshUser(q) \/ Rotate(q) PROVE SessionsHeld'
  <2>1. request[q].sess \in Sessions
    BY <1>a, <1>11 DEF RefreshUser, Rotate, HandlerOK, Request
  <2> QED  BY <1>5, <1>7, <1>e, <1>11, <1>s, <1>t, <2>1 DEF RefreshUser, Rotate
<1>12. ASSUME NEW q \in Requests,
              \/ CountAdmins(q) \/ UpdateRestates(q)
              \/ InviteInsert(q) \/ AcceptCreate(q) \/ MarkAccepted(q)
       PROVE  SessionsHeld'
  BY <1>5, <1>7, <1>e, <1>12, <1>t
     DEF CountAdmins, UpdateRestates, InviteInsert, AcceptCreate, MarkAccepted, tables
<1>13. ASSUME NEW q \in Requests, UpdateWrite(q) PROVE SessionsHeld'
  <2>1. \A p \in Requests : p # q =>
          request'[p] \in {[request[p] EXCEPT !.stale = TRUE], request[p]}
    BY <1>13 DEF UpdateWrite, Outdated
  <2>2. request[q].answer.refresh = None
    BY <1>a, <1>13 DEF UpdateWrite, HandlerOK, NoCookies
  <2>3. AnswersKeep
    BY <1>a, <2>1, <2>2 DEF AnswersKeep, Request
  <2> QED  BY <1>5, <1>13, <1>t, <2>3 DEF UpdateWrite
<1>14. ASSUME NEW s \in Sessions, Expire(s) PROVE SessionsHeld'
  BY <1>14, <1>5, <1>s DEF Expire, AnswersKeep
<1>15. ASSUME UNCHANGED <<session, cookies, request, left>> PROVE SessionsHeld'
  BY <1>15 DEF SessionsHeld, Live
<1> QED
  BY <1>1, <1>2, <1>3, <1>4, <1>8, <1>9, <1>10, <1>11, <1>12, <1>13, <1>14, <1>15
     DEF Next, vars, tables, ExpireInvitation, RevokeInvitation

-----------------------------------------------------------------------------
(* What handlers read of accounts. *)

LEMMA SeenFrame ==
  ASSUME TypeOK, SeenInv, NEW q \in Requests, NEW n,
         request' = [request EXCEPT ![q] = n], UNCHANGED account, SeenOK(account, n)
  PROVE  SeenInv'
<1>1. \A p \in Requests : SeenOK(account', request'[p])
  BY DEF TypeOK, SeenInv
<1> QED  BY <1>1 DEF SeenInv, SeenOK

LEMMA SeenIdle ==
  ASSUME TypeOK, SeenInv, NEW q \in Requests, End(q), UNCHANGED account
  PROVE  SeenInv'
<1>1. SeenOK(account, Idle)
  BY DEF SeenOK, Idle
<1>2. request' = [request EXCEPT ![q] = Idle]
  BY DEF End, Step
<1> QED  BY <1>1, <1>2, SeenFrame

LEMMA SeenStep ==
  ASSUME TypeOK, HandlerInv, OwnerInv, SeenInv, [Next]_vars PROVE SeenInv'
<1> USE AccessAssumption
<1>a. \A q \in Requests : /\ request[q] \in Request /\ HandlerOK(request[q])
                          /\ OwnerOK(session, request[q]) /\ SeenOK(account, request[q])
  BY DEF TypeOK, HandlerInv, OwnerInv, SeenInv
<1> DEFINE Passive == {"idle", "user", "reply", "insert", "create"}
<1>1. ASSUME NEW q \in Requests, NEW n, n.at \in Passive,
             request' = [request EXCEPT ![q] = n], UNCHANGED account
      PROVE  SeenInv'
  <2>1. SeenOK(account, n)
    BY <1>1 DEF SeenOK
  <2> QED  BY <1>1, <2>1, SeenFrame
<1>2. ASSUME NEW q \in Requests, NEW u \in Users, Login(q, u) PROVE SeenInv'
  <2> DEFINE n == [From(u) EXCEPT !.at = "issue", !.seen = account[u]]
  <2>1. SeenOK(account, n)
    BY <1>2 DEF SeenOK, From, Idle, Login
  <2>2. request' = [request EXCEPT ![q] = n] /\ UNCHANGED account
    BY <1>2 DEF Login, Begin, tables
  <2> HIDE DEF n
  <2> QED  BY <2>1, <2>2, SeenFrame
<1>3. ASSUME NEW q \in Requests, NEW u \in Users, Refresh(q, u) PROVE SeenInv'
  <2> DEFINE n == [From(u) EXCEPT !.at = "user", !.sess = cookies[u].refresh]
  <2>1. n.at \in Passive
    BY DEF From, Idle
  <2>2. request' = [request EXCEPT ![q] = n] /\ UNCHANGED account
    BY <1>3 DEF Refresh, Begin, tables
  <2> HIDE DEF n, Passive
  <2> QED  BY <1>1, <2>1, <2>2
<1>4. ASSUME NEW q \in Requests, NEW u \in Users, Logout(q, u) PROVE SeenInv'
  <2> DEFINE n == [From(u) EXCEPT !.at = "reply", !.sess = cookies[u].refresh]
  <2>1. n.at \in Passive
    BY DEF From, Idle
  <2>2. request' = [request EXCEPT ![q] = n] /\ UNCHANGED account
    BY <1>4 DEF Logout, Begin
  <2> HIDE DEF n, Passive
  <2> QED  BY <1>1, <2>1, <2>2
<1>5. ASSUME NEW q \in Requests, RefreshUser(q) PROVE SeenInv'
  <2> DEFINE r == request[q]
             row == account[session[r.sess].user]
             n == [r EXCEPT !.at = "revoke", !.seen = row, !.stale = FALSE]
  <2>1. session[r.sess].user = r.about
    BY <1>a, <1>5 DEF RefreshUser, HandlerOK, OwnerOK
  <2>2. \/ /\ row.there /\ row.active
           /\ request' = [request EXCEPT ![q] = n]
        \/ End(q)
    BY <1>5 DEF RefreshUser, Step
  <2>3. UNCHANGED account
    BY <1>5 DEF RefreshUser
  <2>4. ASSUME row.there, row.active PROVE SeenOK(account, n)
    BY <1>a, <2>1, <2>4 DEF SeenOK, Request
  <2> HIDE DEF n
  <2> QED  BY <2>2, <2>3, <2>4, SeenFrame, SeenIdle
<1>6. ASSUME NEW q \in Requests, Rotate(q) PROVE SeenInv'
  <2> DEFINE n == [request[q] EXCEPT !.at = "issue"]
  <2>1. SeenOK(account, n)
    BY <1>a, <1>6 DEF SeenOK, Rotate, Request
  <2>2. request' = [request EXCEPT ![q] = n] /\ UNCHANGED account
    BY <1>6 DEF Rotate, Step
  <2> HIDE DEF n
  <2> QED  BY <2>1, <2>2, SeenFrame
<1>7. ASSUME NEW q \in Requests, IssueTokens(q) PROVE SeenInv'
  <2> DEFINE r == request[q]
             n(s) == [r EXCEPT !.at = "reply", !.answer = [refresh |-> s, access |-> Signed(r)]]
  <2>1. PICK s \in Sessions : request' = [request EXCEPT ![q] = n(s)]
    BY <1>7 DEF IssueTokens, Step
  <2>2. n(s).at \in Passive /\ UNCHANGED account
    BY <1>a, <1>7 DEF Request, IssueTokens
  <2> HIDE DEF n, Passive
  <2> QED  BY <1>1, <2>1, <2>2
<1>8. ASSUME NEW q \in Requests, NEW u \in Users, NEW t \in Users, UpdateRead(q, u, t)
      PROVE  SeenInv'
  <2>0. PICK cols \in SUBSET Columns, new \in AccountRow : BeginUpdate(q, u, t, cols, new)
    BY <1>8 DEF UpdateRead
  <2> DEFINE n == [From(u) EXCEPT !.about = t, !.seen = account[t], !.set = new, !.cols = cols,
                     !.at = IF LosesAdmin(account[t], new) THEN "count" ELSE "write"]
  <2>1. SeenOK(account, n)
    BY <1>8, <2>0 DEF SeenOK, From, Idle, UpdateRead, BeginUpdate
  <2>2. request' = [request EXCEPT ![q] = n] /\ UNCHANGED account
    BY <2>0 DEF BeginUpdate, Begin, tables
  <2> HIDE DEF n
  <2> QED  BY <2>1, <2>2, SeenFrame
<1>9. ASSUME NEW q \in Requests, CountAdmins(q) \/ UpdateRestates(q) PROVE SeenInv'
  <2> DEFINE n == [request[q] EXCEPT !.at = "write"]
  <2>1. \/ /\ request[q].at = "count" /\ OtherAdmins(request[q].about) # {}
           /\ request' = [request EXCEPT ![q] = n]
        \/ End(q)
    BY <1>9 DEF CountAdmins, UpdateRestates, Step
  <2>2. ASSUME request[q].at = "count", OtherAdmins(request[q].about) # {} PROVE SeenOK(account, n)
    <3>1. \E u \in Users \ {request[q].about} : ActiveAdmin(account[u])
      BY <2>2 DEF OtherAdmins
    <3> QED  BY <1>a, <2>2, <3>1 DEF SeenOK, Request
  <2>3. UNCHANGED account
    BY <1>9 DEF CountAdmins, UpdateRestates, tables
  <2> HIDE DEF n
  <2> QED  BY <2>1, <2>2, <2>3, SeenFrame, SeenIdle
<1>10. ASSUME NEW q \in Requests, UpdateWrite(q) PROVE SeenInv'
  <2> DEFINE t == request[q].about
  <2>1. /\ \A p \in Requests \ {q} :
             request'[p] = IF request[p].at \in {"count", "write"} \/ request[p].about = t
                           THEN [request[p] EXCEPT !.stale = TRUE] ELSE request[p]
        /\ request'[q] = Idle
        /\ \A u \in Users : u # t => account'[u] = account[u]
    BY <1>10 DEF UpdateWrite, Outdated, TypeOK
  <2>2. SeenOK(account', request'[q])
    BY <2>1 DEF SeenOK, Idle
  <2>3. ASSUME NEW p \in Requests, p # q PROVE SeenOK(account', request'[p])
    <3>1. CASE request[p].at \in {"count", "write"} \/ request[p].about = t
      <4>1. request'[p] = [request[p] EXCEPT !.stale = TRUE]
        BY <2>1, <2>3, <3>1
      <4> QED  BY <1>a, <4>1 DEF SeenOK, Request
    <3>2. CASE ~(request[p].at \in {"count", "write"} \/ request[p].about = t)
      <4>1. request'[p] = request[p]
        BY <2>1, <2>3, <3>2
      <4>2. request[p].at # "idle" => account'[request[p].about] = account[request[p].about]
        BY <1>a, <2>1, <3>2 DEF HandlerOK
      <4> QED  BY <1>a, <3>2, <4>1, <4>2 DEF SeenOK
    <3> QED  BY <3>1, <3>2
  <2>4. \A p \in Requests : SeenOK(account', request'[p])
    BY <2>2, <2>3
  <2> QED  BY <2>4 DEF SeenInv, SeenOK
<1>11. ASSUME NEW q \in Requests, NEW u \in Users, NEW t \in Users, NEW role \in Roles,
              InviteRead(q, u, t, role)
       PROVE  SeenInv'
  <2> DEFINE n == [From(u) EXCEPT !.at = "insert", !.about = t, !.set.role = role]
  <2>1. n.at \in Passive
    BY DEF From, Idle
  <2>2. request' = [request EXCEPT ![q] = n] /\ UNCHANGED account
    BY <1>11 DEF InviteRead, Begin, tables
  <2> HIDE DEF n, Passive
  <2> QED  BY <1>1, <2>1, <2>2
<1>12. ASSUME NEW q \in Requests, NEW i \in Invitations, AcceptRead(q, i) PROVE SeenInv'
  <2> DEFINE n == [From(invitation[i].email) EXCEPT !.at = "create", !.inv = i,
                     !.set.role = invitation[i].role]
  <2>1. n.at \in Passive
    BY DEF From, Idle
  <2>2. request' = [request EXCEPT ![q] = n] /\ UNCHANGED account
    BY <1>12 DEF AcceptRead, Begin, tables
  <2> HIDE DEF n, Passive
  <2> QED  BY <1>1, <2>1, <2>2
<1>13. ASSUME NEW q \in Requests, AcceptCreate(q) PROVE SeenInv'
  <2> DEFINE r == request[q]
             n == [r EXCEPT !.at = "accept", !.seen = Joined(r), !.stale = FALSE]
  <2>0. r.about \in Users
    BY <1>a, <1>13 DEF HandlerOK, AcceptCreate
  <2>1. CASE account[r.about].there
    BY <1>13, <2>1, SeenIdle DEF AcceptCreate
  <2>2. CASE ~account[r.about].there
    <3>1. request' = [request EXCEPT ![q] = n] /\ account' = [account EXCEPT ![r.about] = Joined(r)]
      BY <1>13, <2>2 DEF AcceptCreate, Step
    <3>2. account'[r.about] = Joined(r) /\ \A u \in Users : u # r.about => account'[u] = account[u]
      BY <2>0, <3>1 DEF TypeOK
    <3>3. SeenOK(account', n)
      BY <1>a, <3>2 DEF SeenOK, Request, Joined
    <3>4. ASSUME NEW p \in Requests PROVE SeenOK(account', request[p])
      <4>1. request[p].at # "idle" => request[p].about \in Users
        BY <1>a DEF HandlerOK
      <4>2. SeenOK(account, request[p])
        BY <1>a
      <4> QED  BY <2>2, <3>2, <4>1, <4>2 DEF SeenOK, ActiveAdmin
    <3> HIDE DEF n
    <3>5. \A p \in Requests : SeenOK(account', request'[p])
      BY <3>1, <3>3, <3>4 DEF TypeOK
    <3> QED  BY <3>5 DEF SeenInv, SeenOK
  <2> QED  BY <2>1, <2>2
<1>14. ASSUME NEW q \in Requests, MarkAccepted(q) PROVE SeenInv'
  <2> DEFINE n == [request[q] EXCEPT !.at = "issue"]
  <2>1. SeenOK(account, n)
    BY <1>a, <1>14 DEF SeenOK, MarkAccepted, Request
  <2>2. request' = [request EXCEPT ![q] = n] /\ UNCHANGED account
    BY <1>14 DEF MarkAccepted, Step
  <2> HIDE DEF n
  <2> QED  BY <2>1, <2>2, SeenFrame
<1>15. ASSUME NEW q \in Requests, Answer(q) \/ InviteInsert(q) \/ Fail(q) PROVE SeenInv'
  BY <1>15, SeenIdle DEF Answer, InviteInsert, Fail, tables
<1>16. ASSUME Tick PROVE SeenInv'
  <2>1. \A p \in Requests : SeenOK(account, [request[p] EXCEPT !.answer = Aged(@)])
    BY <1>a DEF SeenOK, Request
  <2>2. \A p \in Requests : request'[p] = [request[p] EXCEPT !.answer = Aged(@)]
    BY <1>16 DEF Tick
  <2>3. \A p \in Requests : SeenOK(account', request'[p])
    BY <1>16, <2>1, <2>2 DEF Tick, tables
  <2> QED  BY <2>3 DEF SeenInv, SeenOK
<1>17. ASSUME UNCHANGED <<account, request>> PROVE SeenInv'
  BY <1>17 DEF SeenInv, SeenOK
<1> QED
  BY <1>2, <1>3, <1>4, <1>5, <1>6, <1>7, <1>8, <1>9, <1>10, <1>11, <1>12, <1>13,
     <1>14, <1>15, <1>16, <1>17
     DEF Next, vars, tables, Expire, ExpireInvitation, RevokeInvitation

-----------------------------------------------------------------------------
(* The last active admin, and what access tokens say. *)

LEMMA AdminStep ==
  ASSUME TypeOK, HandlerInv, SeenInv, LastAdminStays, [Next]_vars PROVE LastAdminStays'
<1> USE AccessAssumption
<1>1. ASSUME NEW q \in Requests, UpdateWrite(q) PROVE LastAdminStays'
  <2> DEFINE r == request[q]
             t == r.about
             new == Patched(account[t], r)
             Others == \E u \in Users \ {t} : ActiveAdmin(account[u])
  <2>0. t \in Users /\ r.at = "write" /\ SeenOK(account, r) /\ account[t] \in AccountRow
    BY <1>1 DEF HandlerInv, HandlerOK, SeenInv, UpdateWrite, TypeOK
  <2>1. overlapped' = (overlapped \/ (r.stale /\ ActiveAdmin(account[t]) /\ ~ActiveAdmin(new)))
    BY <1>1 DEF UpdateWrite
  <2>2. account'[t] = new /\ \A u \in Users \ {t} : account'[u] = account[u]
    BY <1>1, <2>0 DEF UpdateWrite, TypeOK
  <2>3. CASE overlapped'
    BY <2>3 DEF LastAdminStays
  <2>4. CASE Others
    <3>1. PICK u \in Users \ {t} : ActiveAdmin(account[u])
      BY <2>4
    <3>2. account'[u] = account[u]
      BY <2>2
    <3>3. ActiveAdmin(account'[u])
      BY <3>1, <3>2
    <3> QED  BY <3>3 DEF LastAdminStays, ActiveAdmin
  <2>5. CASE ~overlapped' /\ ~Others
    <3>1. ActiveAdmin(account[t])
      BY <2>1, <2>5 DEF LastAdminStays
    <3>2. ActiveAdmin(new)
      <4>1. CASE r.stale
        BY <2>1, <2>5, <3>1, <4>1
      <4>2. CASE ~r.stale
        <5>1. account[t] = r.seen /\ r.set.there /\ ~LosesAdmin(r.seen, r.set)
          BY <2>0, <2>5, <4>2 DEF SeenOK
        <5>2. r.set.role = "admin" /\ r.set.active
          BY <3>1, <5>1 DEF ActiveAdmin, LosesAdmin
        <5> QED  BY <2>0, <3>1, <5>2 DEF ActiveAdmin, Patched, AccountRow
      <4> QED  BY <4>1, <4>2
    <3>3. ActiveAdmin(account'[t])
      BY <2>2, <3>2
    <3> QED  BY <2>0, <3>3 DEF LastAdminStays, ActiveAdmin
  <2> QED  BY <2>3, <2>4, <2>5
<1>2. ASSUME NEW q \in Requests, AcceptCreate(q) PROVE LastAdminStays'
  <2> DEFINE u == request[q].about
  <2>1. \A v \in Users : account[v].there => account'[v] = account[v]
    BY <1>2 DEF AcceptCreate, TypeOK
  <2>2. overlapped' = overlapped
    BY <1>2 DEF AcceptCreate
  <2> QED  BY <2>1, <2>2 DEF LastAdminStays, ActiveAdmin
<1>3. ASSUME UNCHANGED <<account, overlapped>> PROVE LastAdminStays'
  BY <1>3 DEF LastAdminStays, ActiveAdmin
<1> QED
  BY <1>1, <1>2, <1>3
     DEF Next, vars, tables, Login, Refresh, RefreshUser, Rotate, IssueTokens, Logout, Answer,
         UpdateRead, BeginUpdate, CountAdmins, UpdateRestates, InviteRead, InviteInsert, AcceptRead,
         MarkAccepted,
         Fail, Expire, ExpireInvitation, RevokeInvitation, Tick

(* A row that changes starts its ticks again: no token outlives them.      *)
LEMMA ChangeEnds ==
  ASSUME TypeOK, NEW u \in Users, NEW row,
         account' = [account EXCEPT ![u] = row], since' = [since EXCEPT ![u] = 0],
         NEW t \in AccessToken \cup {None}, TokenEnds(account, since, t)
  PROVE  TokenEnds(account', since', t)
<1> USE AccessAssumption
<1>1. CASE t = None
  BY <1>1 DEF TokenEnds
<1>2. CASE t \in AccessToken /\ t # None
  <2>1. t.life \in 0..Ttl /\ t.user \in Users
    BY <1>2 DEF AccessToken
  <2>2. CASE t.user = u
    <3>1. since'[t.user] = 0
      BY <2>2 DEF TypeOK
    <3> QED  BY <2>1, <3>1 DEF TokenEnds
  <2>3. CASE t.user # u
    <3>1. since'[t.user] = since[t.user] /\ account'[t.user] = account[t.user]
      BY <2>1, <2>3 DEF TypeOK
    <3> QED  BY <3>1 DEF TokenEnds
  <2> QED  BY <2>2, <2>3
<1> QED  BY <1>1, <1>2

LEMMA TickEnds ==
  ASSUME TypeOK, NEW c \in Cookies, TokenEnds(account, since, c.access),
         UNCHANGED account,
         since' = [u \in Users |-> IF since[u] < Ttl THEN since[u] + 1 ELSE Ttl]
  PROVE  TokenEnds(account', since', Aged(c).access)
<1> USE AccessAssumption
<1> DEFINE t == c.access
           a == Aged(c).access
<1>1. CASE a = None
  BY <1>1 DEF TokenEnds
<1>2. CASE a # None
  <2>1. /\ t # None /\ a.user = t.user /\ a.role = t.role /\ a.late = t.late
        /\ a.life = IF t.life = 0 THEN 0 ELSE t.life - 1
    BY <1>2, AgedFacts
  <2>2. t \in AccessToken
    BY <2>1 DEF Cookies
  <2>3. t.life \in 0..Ttl /\ t.user \in Users
    BY <2>2 DEF AccessToken
  <2> HIDE DEF t, a
  <2>4. since[t.user] \in 0..Ttl
    BY <2>3 DEF TypeOK
  <2>5. since'[t.user] = IF since[t.user] < Ttl THEN since[t.user] + 1 ELSE Ttl
    BY <2>3
  <2>6. t.life + since[t.user] <= Ttl => a.life + since'[a.user] <= Ttl
    BY <2>1, <2>3, <2>4, <2>5
  <2>7. TokenEnds(account, since, t)
    BY DEF t
  <2>8. TokenEnds(account', since', a)
    BY <2>1, <2>6, <2>7 DEF TokenEnds
  <2> QED  BY <2>8 DEF a
<1> QED  BY <1>1, <1>2

LEMMA TokenStep ==
  ASSUME TypeOK, HandlerInv, SeenInv, TokenInv, [Next]_vars PROVE TokenInv'
<1> USE AccessAssumption
<1>a. \A q \in Requests : /\ request[q] \in Request /\ HandlerOK(request[q])
                          /\ SeenOK(account, request[q])
                          /\ request[q].answer \in Cookies
                          /\ request[q].answer.access \in AccessToken \cup {None}
                          /\ TokenEnds(account, since, request[q].answer.access)
  BY DEF TypeOK, HandlerInv, SeenInv, TokenInv, Request, Cookies
<1>b. \A u \in Users : /\ cookies[u] \in Cookies
                       /\ cookies[u].access \in AccessToken \cup {None}
                       /\ TokenEnds(account, since, cookies[u].access)
  BY DEF TypeOK, TokenInv, Cookies
<1>n. TokenEnds(account, since, NoCookies.access)
  BY DEF TokenEnds, NoCookies
<1>i. Idle.answer.access = None
  BY DEF Idle, NoCookies
<1>1. ASSUME NEW q \in Requests, NEW n, request' = [request EXCEPT ![q] = n],
             UNCHANGED <<account, since, cookies>>,
             n.answer = request[q].answer \/ n.answer.access = None
      PROVE  TokenInv'
  <2>1. TokenEnds(account, since, n.answer.access)
    BY <1>1, <1>a DEF TokenEnds
  <2>2. \A p \in Requests : TokenEnds(account', since', request'[p].answer.access)
    BY <1>1, <1>a, <2>1 DEF TypeOK
  <2>3. \A u \in Users : TokenEnds(account', since', cookies'[u].access)
    BY <1>1, <1>b
  <2> QED  BY <2>2, <2>3 DEF TokenInv, TokenEnds
<1>e. ASSUME NEW q \in Requests, End(q), UNCHANGED <<account, since, cookies>> PROVE TokenInv'
  BY <1>1, <1>e, <1>i DEF End, Step
<1>2. ASSUME NEW q \in Requests, NEW u \in Users, Login(q, u) PROVE TokenInv'
  <2> DEFINE n == [From(u) EXCEPT !.at = "issue", !.seen = account[u]]
  <2>1. n.answer.access = None
    BY <1>i DEF From
  <2>2. request' = [request EXCEPT ![q] = n] /\ UNCHANGED <<account, since, cookies>>
    BY <1>2 DEF Login, Begin, tables
  <2> HIDE DEF n
  <2> QED  BY <1>1, <2>1, <2>2
<1>3. ASSUME NEW q \in Requests, NEW u \in Users, Refresh(q, u) PROVE TokenInv'
  <2> DEFINE n == [From(u) EXCEPT !.at = "user", !.sess = cookies[u].refresh]
  <2>1. n.answer.access = None
    BY <1>i DEF From
  <2>2. request' = [request EXCEPT ![q] = n] /\ UNCHANGED <<account, since, cookies>>
    BY <1>3 DEF Refresh, Begin, tables
  <2> HIDE DEF n
  <2> QED  BY <1>1, <2>1, <2>2
<1>4. ASSUME NEW q \in Requests, NEW u \in Users, Logout(q, u) PROVE TokenInv'
  <2> DEFINE n == [From(u) EXCEPT !.at = "reply", !.sess = cookies[u].refresh]
  <2>1. n.answer.access = None
    BY <1>i DEF From
  <2>2. request' = [request EXCEPT ![q] = n] /\ UNCHANGED <<account, since, cookies>>
    BY <1>4 DEF Logout, Begin
  <2> HIDE DEF n
  <2> QED  BY <1>1, <2>1, <2>2
<1>5. ASSUME NEW q \in Requests, RefreshUser(q) PROVE TokenInv'
  <2> DEFINE row == account[session[request[q].sess].user]
             n == [request[q] EXCEPT !.at = "revoke", !.seen = row, !.stale = FALSE]
  <2>1. n.answer = request[q].answer
    BY <1>a DEF Request
  <2>2. /\ request' = [request EXCEPT ![q] = n] \/ End(q)
        /\ UNCHANGED <<account, since, cookies>>
    BY <1>5 DEF RefreshUser, Step
  <2> HIDE DEF n
  <2> QED  BY <1>1, <1>e, <2>1, <2>2
<1>6. ASSUME NEW q \in Requests, Rotate(q) \/ MarkAccepted(q) PROVE TokenInv'
  <2> DEFINE n == [request[q] EXCEPT !.at = "issue"]
  <2>1. n.answer = request[q].answer
    BY <1>a DEF Request
  <2>2. request' = [request EXCEPT ![q] = n] /\ UNCHANGED <<account, since, cookies>>
    BY <1>6 DEF Rotate, MarkAccepted, Step
  <2> HIDE DEF n
  <2> QED  BY <1>1, <2>1, <2>2
<1>7. ASSUME NEW q \in Requests, IssueTokens(q) PROVE TokenInv'
  <2> DEFINE r == request[q]
             n(s) == [r EXCEPT !.at = "reply", !.answer = [refresh |-> s, access |-> Signed(r)]]
  <2>1. PICK s \in Sessions : request' = [request EXCEPT ![q] = n(s)]
    BY <1>7 DEF IssueTokens, Step
  <2>2. UNCHANGED <<account, since, cookies>> /\ r.at = "issue"
    BY <1>7 DEF IssueTokens
  <2>3. n(s).answer.access = Signed(r)
    BY <1>a DEF Request
  <2>4. TokenEnds(account, since, Signed(r))
    BY <1>a, <2>2 DEF TokenEnds, Signed, SeenOK
  <2> HIDE DEF n
  <2>5. \A p \in Requests : TokenEnds(account, since, request'[p].answer.access)
    BY <1>a, <2>1, <2>3, <2>4 DEF TypeOK
  <2> QED  BY <1>b, <2>2, <2>5 DEF TokenInv, TokenEnds
<1>8. ASSUME NEW q \in Requests, Answer(q) PROVE TokenInv'
  <2>1. /\ cookies' = [cookies EXCEPT ![request[q].for] = request[q].answer]
        /\ request' = [request EXCEPT ![q] = Idle]
        /\ UNCHANGED <<account, since>>
    BY <1>8 DEF Answer, End, Step, tables
  <2>2. TokenEnds(account, since, Idle.answer.access)
    BY <1>i DEF TokenEnds
  <2>3. \A p \in Requests : TokenEnds(account', since', request'[p].answer.access)
    BY <1>a, <2>1, <2>2 DEF TypeOK
  <2>4. \A u \in Users : TokenEnds(account', since', cookies'[u].access)
    BY <1>a, <1>b, <2>1 DEF TypeOK
  <2> QED  BY <2>3, <2>4 DEF TokenInv, TokenEnds
<1>9. ASSUME NEW q \in Requests, NEW u \in Users, NEW t \in Users, UpdateRead(q, u, t)
      PROVE  TokenInv'
  <2>0. PICK cols \in SUBSET Columns, new \in AccountRow : BeginUpdate(q, u, t, cols, new)
    BY <1>9 DEF UpdateRead
  <2> DEFINE n == [From(u) EXCEPT !.about = t, !.seen = account[t], !.set = new, !.cols = cols,
                     !.at = IF LosesAdmin(account[t], new) THEN "count" ELSE "write"]
  <2>1. n.answer.access = None
    BY <1>i DEF From
  <2>2. request' = [request EXCEPT ![q] = n] /\ UNCHANGED <<account, since, cookies>>
    BY <2>0 DEF BeginUpdate, Begin, tables
  <2> HIDE DEF n
  <2> QED  BY <1>1, <2>1, <2>2
<1>10. ASSUME NEW q \in Requests, CountAdmins(q) \/ UpdateRestates(q) PROVE TokenInv'
  <2> DEFINE n == [request[q] EXCEPT !.at = "write"]
  <2>1. n.answer = request[q].answer
    BY <1>a DEF Request
  <2>2. /\ request' = [request EXCEPT ![q] = n] \/ End(q)
        /\ UNCHANGED <<account, since, cookies>>
    BY <1>10 DEF CountAdmins, UpdateRestates, Step, tables
  <2> HIDE DEF n
  <2> QED  BY <1>1, <1>e, <2>1, <2>2
<1>11. ASSUME NEW q \in Requests, UpdateWrite(q) PROVE TokenInv'
  <2> DEFINE t == request[q].about
  <2>1. t \in Users
    BY <1>a, <1>11 DEF UpdateWrite, HandlerOK
  <2>2. /\ account' = [account EXCEPT ![t] = Patched(account[t], request[q])]
        /\ since' = [since EXCEPT ![t] = 0] /\ UNCHANGED cookies
    BY <1>11 DEF UpdateWrite
  <2>3. \A p \in Requests :
          request'[p].answer.access = None \/ request'[p].answer = request[p].answer
    <3>1. \A p \in Requests :
            request'[p] \in {Idle, [request[p] EXCEPT !.stale = TRUE], request[p]}
      BY <1>11 DEF UpdateWrite, Outdated
    <3> QED  BY <1>a, <1>i, <3>1 DEF Request
  <2>4. \A x \in AccessToken \cup {None} :
          TokenEnds(account, since, x) => TokenEnds(account', since', x)
    BY <2>1, <2>2, ChangeEnds
  <2>5. \A p \in Requests : TokenEnds(account', since', request'[p].answer.access)
    BY <1>a, <2>3, <2>4 DEF TokenEnds
  <2>6. \A u \in Users : TokenEnds(account', since', cookies'[u].access)
    BY <1>b, <2>2, <2>4
  <2> QED  BY <2>5, <2>6 DEF TokenInv, TokenEnds
<1>12. ASSUME NEW q \in Requests, NEW u \in Users, NEW t \in Users, NEW role \in Roles,
              InviteRead(q, u, t, role)
       PROVE  TokenInv'
  <2> DEFINE n == [From(u) EXCEPT !.at = "insert", !.about = t, !.set.role = role]
  <2>1. n.answer.access = None
    BY <1>i DEF From
  <2>2. request' = [request EXCEPT ![q] = n] /\ UNCHANGED <<account, since, cookies>>
    BY <1>12 DEF InviteRead, Begin, tables
  <2> HIDE DEF n
  <2> QED  BY <1>1, <2>1, <2>2
<1>13. ASSUME NEW q \in Requests, NEW i \in Invitations, AcceptRead(q, i) PROVE TokenInv'
  <2> DEFINE n == [From(invitation[i].email) EXCEPT !.at = "create", !.inv = i,
                     !.set.role = invitation[i].role]
  <2>1. n.answer.access = None
    BY <1>i DEF From
  <2>2. request' = [request EXCEPT ![q] = n] /\ UNCHANGED <<account, since, cookies>>
    BY <1>13 DEF AcceptRead, Begin, tables
  <2> HIDE DEF n
  <2> QED  BY <1>1, <2>1, <2>2
<1>14. ASSUME NEW q \in Requests, AcceptCreate(q) PROVE TokenInv'
  <2> DEFINE r == request[q]
             n == [r EXCEPT !.at = "accept", !.seen = Joined(r), !.stale = FALSE]
  <2>0. r.about \in Users /\ n.answer = r.answer
    BY <1>a, <1>14 DEF HandlerOK, AcceptCreate, Request
  <2>1. CASE account[r.about].there
    BY <1>14, <1>e, <2>1 DEF AcceptCreate
  <2>2. CASE ~account[r.about].there
    <3>1. /\ request' = [request EXCEPT ![q] = n] /\ UNCHANGED cookies
          /\ account' = [account EXCEPT ![r.about] = Joined(r)]
          /\ since' = [since EXCEPT ![r.about] = 0]
      BY <1>14, <2>2 DEF AcceptCreate, Step
    <3> HIDE DEF n
    <3>2. \A x \in AccessToken \cup {None} :
            TokenEnds(account, since, x) => TokenEnds(account', since', x)
      BY <2>0, <3>1, ChangeEnds
    <3>3. \A p \in Requests : request'[p].answer = request[p].answer
      BY <2>0, <3>1 DEF TypeOK
    <3>4. \A p \in Requests : TokenEnds(account', since', request'[p].answer.access)
      BY <1>a, <3>2, <3>3
    <3>5. \A u \in Users : TokenEnds(account', since', cookies'[u].access)
      BY <1>b, <3>1, <3>2
    <3> QED  BY <3>4, <3>5 DEF TokenInv, TokenEnds
  <2> QED  BY <2>1, <2>2
<1>15. ASSUME NEW q \in Requests, InviteInsert(q) \/ Fail(q) PROVE TokenInv'
  BY <1>15, <1>e DEF InviteInsert, Fail, tables
<1>16. ASSUME Tick PROVE TokenInv'
  <2>1. /\ \A u \in Users : cookies'[u] = Aged(cookies[u])
        /\ \A p \in Requests : request'[p] = [request[p] EXCEPT !.answer = Aged(@)]
        /\ UNCHANGED account
        /\ since' = [u \in Users |-> IF since[u] < Ttl THEN since[u] + 1 ELSE Ttl]
    BY <1>16 DEF Tick, tables
  <2>2. \A c \in Cookies : TokenEnds(account, since, c.access)
                             => TokenEnds(account', since', Aged(c).access)
    BY <2>1, TickEnds
  <2>3. \A p \in Requests : request'[p].answer = Aged(request[p].answer)
    BY <1>a, <2>1 DEF Request
  <2>4. \A p \in Requests : TokenEnds(account', since', request'[p].answer.access)
    BY <1>a, <2>2, <2>3
  <2>5. \A u \in Users : TokenEnds(account', since', cookies'[u].access)
    BY <1>b, <2>1, <2>2
  <2> QED  BY <2>4, <2>5 DEF TokenInv, TokenEnds
<1>17. ASSUME UNCHANGED <<account, since, cookies, request>> PROVE TokenInv'
  BY <1>17 DEF TokenInv, TokenEnds
<1> QED
  BY <1>2, <1>3, <1>4, <1>5, <1>6, <1>7, <1>8, <1>9, <1>10, <1>11, <1>12, <1>13,
     <1>14, <1>15, <1>16, <1>17
     DEF Next, vars, tables, Expire, ExpireInvitation, RevokeInvitation

-----------------------------------------------------------------------------
(* The theorems. *)

LEMMA InitInv == Init => Inv
<1> USE AccessAssumption
<1> SUFFICES ASSUME Init PROVE Inv
  OBVIOUS
<1>1. \A q \in Requests : request[q] = Idle
  BY DEF Init
<1>2. \A u \in Users : cookies[u] = NoCookies
  BY DEF Init
<1>3. TypeOK
  <2>1. account \in [Users -> AccountRow]
    BY EmptyType DEF Init, Admin, AccountRow, Roles
  <2>2. session \in [Sessions -> SessionRow] /\ invitation \in [Invitations -> InvitationRow]
    BY DEF Init, SessionRow, InvitationRow, Roles
  <2>3. cookies \in [Users -> Cookies] /\ request \in [Requests -> Request]
    BY EmptyType, IdleType DEF Init
  <2>4. since \in [Users -> 0..Ttl]
    BY DEF Init
  <2> QED  BY <2>1, <2>2, <2>3, <2>4 DEF Init, TypeOK
<1>4. HandlerInv /\ RevokedInv /\ SeenInv
  BY <1>1 DEF HandlerInv, HandlerOK, RevokedInv, RevokedOK, SeenInv, SeenOK, Idle, NoCookies
<1>5. OwnerInv
  BY <1>1, <1>2 DEF Init, OwnerInv, RowsInv, OwnerOK, Idle, NoCookies
<1>6. TokenInv
  BY <1>1, <1>2 DEF TokenInv, TokenEnds, Idle, NoCookies
<1>7. SessionsHeld
  BY DEF Init, SessionsHeld, Live
<1>8. LastAdminStays
  BY DEF Init, LastAdminStays, ActiveAdmin, Admin
<1> QED  BY <1>3, <1>4, <1>5, <1>6, <1>7, <1>8 DEF Inv

LEMMA StepInv == Inv /\ [Next]_vars => Inv'
  BY TypeStep, HandlerStep, OwnerStep, SeenStep, TokenStep, HeldStep, AdminStep DEF Inv

LEMMA Invariance == Spec => []Inv
  BY InitInv, StepInv, PTL DEF Spec

(* Accounts, sessions, invitations, cookies and the requests in progress   *)
(* keep the shapes of their rows, payloads and handlers.                   *)
THEOREM TypeCorrect == Spec => []TypeOK
<1>1. Inv => TypeOK
  BY DEF Inv
<1> QED  BY <1>1, Invariance, PTL

(* No access token says more than its account for longer than              *)
(* JWT_ACCESS_TTL after the change, unless its handler read the account    *)
(* before it (jwt-auth.guard.ts, auth.service.ts refresh).                 *)
THEOREM AccessEndsInTime == Spec => []AccessEnds
<1>1. Inv => AccessEnds
  BY DEF Inv, TokenInv, TokenEnds, AccessEnds
<1> QED  BY <1>1, Invariance, PTL

(* Rotation and signing out leave no session alive that its owner's        *)
(* browser has dropped (auth.service.ts refresh and logout).               *)
THEOREM EverySessionHeld == Spec => []SessionsHeld
<1>1. Inv => SessionsHeld
  BY DEF Inv
<1> QED  BY <1>1, Invariance, PTL

(* "Cannot remove the last active admin account" (users.service.ts): only  *)
(* an update that had read or counted before another was written can take  *)
(* the last one away.                                                      *)
THEOREM AdminRemains == Spec => []LastAdminStays
<1>1. Inv => LastAdminStays
  BY DEF Inv
<1> QED  BY <1>1, Invariance, PTL
=============================================================================
