------------------------------- MODULE Access -------------------------------
(***************************************************************************)
(* Who is let in: the accounts and invitations (users.service.ts), the     *)
(* sessions behind the refresh_token cookie (auth.service.ts), and the     *)
(* short-lived access token that JwtAuthGuard trusts without reading the   *)
(* account again.  Each handler gives way to the others at every statement *)
(* it awaits; none of them uses a transaction.                             *)
(*                                                                         *)
(* A person works in one browser.  Its tabs share the cookies, and each    *)
(* refreshes them on its own (api-client.ts): the responses come back in   *)
(* any order.                                                              *)
(***************************************************************************)
EXTENDS Naturals, FiniteSets

CONSTANTS
  Users,       \* email addresses, which are unique in users
  Founders,    \* the admin accounts there are to begin with
  Sessions,    \* rows of sessions
  Invitations, \* rows of invitations
  Requests,    \* requests that run at a time
  None,
  Ttl,         \* JWT_ACCESS_TTL, in ticks of the clock
  MaxRequests, \* bound: requests
  MaxFaults    \* bound: requests that end in the middle

ASSUME AccessAssumption ==
  /\ Founders \subseteq Users /\ Founders # {}
  /\ None \notin Users \cup Sessions \cup Invitations
  /\ Ttl \in Nat \ {0}
  /\ MaxRequests \in Nat /\ MaxFaults \in Nat

VARIABLES
  account,    \* the rows of users
  session,    \* the rows of sessions
  invitation, \* the rows of invitations
  cookies,    \* the two cookies of each person's browser
  request,    \* what each request holds
  begun,      \* requests so far
  faults,     \* requests that ended in the middle
  since,      \* history: ticks since a row of users changed, up to Ttl
  left,       \* history: sessions no browser holds any more
  overlapped  \* history: an admin was lost to an update others had crossed

tables == <<account, session, invitation>>
vars   == <<tables, cookies, request, begun, faults, since, left, overlapped>>

(* The rules here tell admins from others: "agent" stands for manager,     *)
(* agent and viewer.                                                       *)
Roles == {"admin", "agent"}

(* The columns of users a patch may name that matter here. *)
Columns == {"role", "active"}

AccountRow == [there: BOOLEAN, role: Roles, active: BOOLEAN]

SessionRow == [state: {"unused", "live", "dead"}, user: Users \cup {None}]

InvitationRow == [state: {"unused", "pending", "accepted", "dead"},
                  email: Users \cup {None}, role: Roles]

(* The payload of an access token, the ticks it has to live, and whether   *)
(* its account changed after the handler that signed it had read the row.  *)
AccessToken == [user: Users, role: Roles, life: 0..Ttl, late: BOOLEAN]

Cookies == [refresh: Sessions \cup {None}, access: AccessToken \cup {None}]

NoCookies == [refresh |-> None, access |-> None]

(* A request as its handler holds it: the browser it is for, the session   *)
(* it presented, the account it is about, what it read of that, what it is *)
(* to write into which columns, and the cookies of its answer.             *)
Request == [at: {"idle", "user", "revoke", "issue", "reply",
                 "count", "write", "insert", "create", "accept"},
            for: Users \cup {None}, sess: Sessions \cup {None},
            about: Users \cup {None}, seen: AccountRow, set: AccountRow,
            cols: SUBSET Columns,
            inv: Invitations \cup {None}, answer: Cookies, stale: BOOLEAN]

Blank == [there |-> FALSE, role |-> "agent", active |-> FALSE]

Idle == [at |-> "idle", for |-> None, sess |-> None, about |-> None,
         seen |-> Blank, set |-> Blank, cols |-> {}, inv |-> None,
         answer |-> NoCookies, stale |-> FALSE]

From(u) == [Idle EXCEPT !.for = u, !.about = u]

Admin == [there |-> TRUE, role |-> "admin", active |-> TRUE]

Init ==
  /\ account = [u \in Users |-> IF u \in Founders THEN Admin ELSE Blank]
  /\ session = [s \in Sessions |-> [state |-> "unused", user |-> None]]
  /\ invitation = [i \in Invitations |->
                     [state |-> "unused", email |-> None, role |-> "agent"]]
  /\ cookies = [u \in Users |-> NoCookies]
  /\ request = [q \in Requests |-> Idle]
  /\ begun = 0 /\ faults = 0
  /\ since = [u \in Users |-> Ttl]
  /\ left = {}
  /\ overlapped = FALSE

Live(s) == session[s].state = "live"

Begin(q, r) ==
  /\ request[q].at = "idle"
  /\ begun < MaxRequests
  /\ begun' = begun + 1
  /\ request' = [request EXCEPT ![q] = r]

Step(q, r) == request' = [request EXCEPT ![q] = r] /\ UNCHANGED begun

(* A request that is over holds nothing. *)
End(q) == Step(q, Idle)

-----------------------------------------------------------------------------
(* Signing in and staying in: auth.service.ts. *)

Login(q, u) ==
  /\ account[u].there /\ account[u].active
  /\ Begin(q, [From(u) EXCEPT !.at = "issue", !.seen = account[u]])
  /\ UNCHANGED <<tables, cookies, faults, since, left, overlapped>>

(* A tab that was answered 401 presents the refresh_token cookie. *)
Refresh(q, u) ==
  LET s == cookies[u].refresh IN
  /\ s # None /\ Live(s)
  /\ cookies[u].access # None => cookies[u].access.life = 0
  /\ Begin(q, [From(u) EXCEPT !.at = "user", !.sess = s])
  /\ UNCHANGED <<tables, cookies, faults, since, left, overlapped>>

Revoked(s) == [session EXCEPT ![s].state = IF @ = "live" THEN "dead" ELSE @]

(* Mutant: a refresh does not ask whether the account is still active. *)
RefreshUserAny(q) ==
  LET r == request[q] IN
  /\ r.at = "user"
  /\ Step(q, [r EXCEPT !.at = "revoke", !.seen = account[session[r.sess].user],
                       !.stale = FALSE])
  /\ UNCHANGED <<tables, cookies, faults, since, left, overlapped>>

RefreshUser(q) ==
  LET r == request[q]  row == account[session[r.sess].user] IN
  /\ r.at = "user"
  /\ IF row.there /\ row.active
     THEN /\ Step(q, [r EXCEPT !.at = "revoke", !.seen = row, !.stale = FALSE])
          /\ UNCHANGED session
     ELSE End(q) /\ session' = Revoked(r.sess)
  /\ UNCHANGED <<account, invitation, cookies, faults, since, left, overlapped>>

(* Mutant: a refresh issues a new session and keeps the old one. *)
RotateKeep(q) ==
  /\ request[q].at = "revoke"
  /\ Step(q, [request[q] EXCEPT !.at = "issue"])
  /\ UNCHANGED <<tables, cookies, faults, since, left, overlapped>>

Rotate(q) ==
  LET r == request[q] IN
  /\ r.at = "revoke"
  /\ session' = Revoked(r.sess)
  /\ Step(q, [r EXCEPT !.at = "issue"])
  /\ UNCHANGED <<account, invitation, cookies, faults, since, left, overlapped>>

Signed(r) == [user |-> r.about, role |-> r.seen.role, life |-> Ttl, late |-> r.stale]

IssueTokens(q) ==
  LET r == request[q] IN
  /\ r.at = "issue"
  /\ \E s \in Sessions :
       /\ session[s].state = "unused"
       /\ session' = [session EXCEPT ![s] = [state |-> "live", user |-> r.about]]
       /\ Step(q, [r EXCEPT !.at = "reply",
                            !.answer = [refresh |-> s, access |-> Signed(r)]])
  /\ UNCHANGED <<account, invitation, cookies, faults, since, left, overlapped>>

(* Signing out revokes the session presented; its answer clears the        *)
(* cookies, whatever they have become.                                     *)
Logout(q, u) ==
  LET s == cookies[u].refresh IN
  /\ Begin(q, [From(u) EXCEPT !.at = "reply", !.sess = s])
  /\ session' = IF s = None THEN session ELSE Revoked(s)
  /\ UNCHANGED <<account, invitation, cookies, faults, since, left, overlapped>>

(* The answer reaches the browser.  It may write over a session that       *)
(* another answer left there.                                              *)
Answer(q) ==
  LET r == request[q]  old == cookies[r.for].refresh IN
  /\ r.at = "reply"
  /\ cookies' = [cookies EXCEPT ![r.for] = r.answer]
  /\ left' = left \cup ({old} \ {None, r.sess, r.answer.refresh})
  /\ End(q)
  /\ UNCHANGED <<tables, faults, since, overlapped>>

Expire(s) ==
  /\ Live(s)
  /\ session' = Revoked(s)
  /\ UNCHANGED <<account, invitation, cookies, request, begun, faults, since,
                 left, overlapped>>

-----------------------------------------------------------------------------
(* Accounts: users.service.ts behind JwtAuthGuard and RolesGuard, which    *)
(* look at the token alone.                                                *)

Trusted(u) == cookies[u].access # None /\ cookies[u].access.life > 0

ActsAsAdmin(u) == Trusted(u) /\ cookies[u].access.role = "admin"

LosesAdmin(row, new) ==
  row.role = "admin" /\ (new.role # "admin" \/ (row.active /\ ~new.active))

(* A patch names one column or both, and may restate what they have.       *)
BeginUpdate(q, u, t, cols, new) ==
  /\ new.there
  /\ cols # {} /\ \A f \in Columns \ cols : new[f] = account[t][f]
  /\ Begin(q, [From(u) EXCEPT !.about = t, !.seen = account[t], !.set = new,
                 !.cols = cols,
                 !.at = IF LosesAdmin(account[t], new) THEN "count" ELSE "write"])
  /\ UNCHANGED <<tables, cookies, faults, since, left, overlapped>>

UpdateRead(q, u, t) ==
  /\ ActsAsAdmin(u)
  /\ account[t].there
  /\ \E cols \in SUBSET Columns, new \in AccountRow : BeginUpdate(q, u, t, cols, new)

ActiveAdmin(row) == row.there /\ row.role = "admin" /\ row.active

(* Mutant: the count of active admins includes the account that is changed. *)
OtherAdminsSelf(t) ==
  {u \in Users : ActiveAdmin(account[u])}

OtherAdmins(t) ==
  {u \in Users \ {t} : ActiveAdmin(account[u])}

CountAdmins(q) ==
  LET r == request[q] IN
  /\ r.at = "count"
  /\ IF OtherAdmins(r.about) = {} THEN End(q)
     ELSE Step(q, [r EXCEPT !.at = "write"])
  /\ UNCHANGED <<tables, cookies, faults, since, left, overlapped>>

(* Mutant: the role of a patch without one is written over the column. *)
PatchedNull(row, r) ==
  [row EXCEPT !.role   = IF "role" \in r.cols THEN r.set.role ELSE None,
              !.active = IF "active" \in r.cols THEN r.set.active ELSE @]

(* COALESCE: the column the patch does not name keeps its value. *)
Patched(row, r) ==
  [row EXCEPT !.role   = IF "role" \in r.cols THEN r.set.role ELSE @,
              !.active = IF "active" \in r.cols THEN r.set.active ELSE @]

(* What was read of accounts before this moment is out of date. *)
Outdated(q, t) ==
  [p \in Requests |->
     IF p = q THEN Idle
     ELSE IF request[p].at \in {"count", "write"} \/ request[p].about = t
     THEN [request[p] EXCEPT !.stale = TRUE]
     ELSE request[p]]

UpdateWrite(q) ==
  LET r == request[q]  t == r.about  new == Patched(account[t], r) IN
  /\ r.at = "write"
  /\ new # account[t]
  /\ account' = [account EXCEPT ![t] = new]
  /\ since' = [since EXCEPT ![t] = 0]
  /\ request' = Outdated(q, t)
  /\ overlapped' =
       (overlapped \/ (r.stale /\ ActiveAdmin(account[t]) /\ ~ActiveAdmin(new)))
  /\ UNCHANGED <<session, invitation, cookies, begun, faults, left>>

(* The patch restates what the row has by now. *)
UpdateRestates(q) ==
  /\ request[q].at = "write"
  /\ Patched(account[request[q].about], request[q]) = account[request[q].about]
  /\ End(q)
  /\ UNCHANGED <<tables, cookies, faults, since, left, overlapped>>

-----------------------------------------------------------------------------
(* Invitations: users.service.ts and acceptInvitation of auth.service.ts.  *)

Pending(u) == {i \in Invitations : invitation[i].state = "pending" /\ invitation[i].email = u}

InviteRead(q, u, t, role) ==
  /\ ActsAsAdmin(u)
  /\ ~account[t].there
  /\ Pending(t) = {}
  /\ Begin(q, [From(u) EXCEPT !.at = "insert", !.about = t, !.set.role = role])
  /\ UNCHANGED <<tables, cookies, faults, since, left, overlapped>>

InviteInsert(q) ==
  LET r == request[q] IN
  /\ r.at = "insert"
  /\ \E i \in Invitations :
       /\ invitation[i].state = "unused"
       /\ invitation' = [invitation EXCEPT
                           ![i] = [state |-> "pending", email |-> r.about, role |-> r.set.role]]
  /\ End(q)
  /\ UNCHANGED <<account, session, cookies, faults, since, left, overlapped>>

(* revoke() has the condition of the check before it in its statement.     *)
RevokeInvitation(u, i) ==
  /\ ActsAsAdmin(u)
  /\ invitation[i].state = "pending"
  /\ begun < MaxRequests
  /\ begun' = begun + 1
  /\ invitation' = [invitation EXCEPT ![i].state = "dead"]
  /\ UNCHANGED <<account, session, cookies, request, faults, since, left, overlapped>>

ExpireInvitation(i) ==
  /\ invitation[i].state = "pending"
  /\ invitation' = [invitation EXCEPT ![i].state = "dead"]
  /\ UNCHANGED <<account, session, cookies, request, begun, faults, since, left,
                 overlapped>>

AcceptRead(q, i) ==
  LET u == invitation[i].email IN
  /\ invitation[i].state = "pending"
  /\ ~account[u].there
  /\ Begin(q, [From(u) EXCEPT !.at = "create", !.inv = i, !.set.role = invitation[i].role])
  /\ UNCHANGED <<tables, cookies, faults, since, left, overlapped>>

Joined(r) == [there |-> TRUE, role |-> r.set.role, active |-> TRUE]

(* The address is unique in users: the second insert fails. *)
AcceptCreate(q) ==
  LET r == request[q]  u == r.about IN
  /\ r.at = "create"
  /\ IF account[u].there
     THEN End(q) /\ UNCHANGED <<account, since>>
     ELSE /\ account' = [account EXCEPT ![u] = Joined(r)]
          /\ since' = [since EXCEPT ![u] = 0]
          /\ Step(q, [r EXCEPT !.at = "accept", !.seen = Joined(r), !.stale = FALSE])
  /\ UNCHANGED <<session, invitation, cookies, faults, left, overlapped>>

MarkAccepted(q) ==
  LET r == request[q] IN
  /\ r.at = "accept"
  /\ invitation' = [invitation EXCEPT ![r.inv].state = "accepted"]
  /\ Step(q, [r EXCEPT !.at = "issue"])
  /\ UNCHANGED <<account, session, cookies, faults, since, left, overlapped>>

-----------------------------------------------------------------------------
(* A statement fails, the process stops or the answer is lost. *)
Fail(q) ==
  LET r == request[q] IN
  /\ r.at # "idle"
  /\ faults < MaxFaults
  /\ faults' = faults + 1
  /\ left' = left \cup ({r.answer.refresh} \ {None})
  /\ End(q)
  /\ UNCHANGED <<tables, cookies, since, overlapped>>

Aged(c) == IF c.access = None THEN c
           ELSE [c EXCEPT !.access.life = IF @ = 0 THEN 0 ELSE @ - 1]

Tick ==
  /\ \E u \in Users : Trusted(u)
  /\ cookies' = [u \in Users |-> Aged(cookies[u])]
  /\ request' = [q \in Requests |-> [request[q] EXCEPT !.answer = Aged(@)]]
  /\ since' = [u \in Users |-> IF since[u] < Ttl THEN since[u] + 1 ELSE Ttl]
  /\ UNCHANGED <<tables, begun, faults, left, overlapped>>

Next ==
  \/ \E q \in Requests :
       \/ \E u \in Users : Login(q, u) \/ Refresh(q, u) \/ Logout(q, u)
       \/ RefreshUser(q) \/ Rotate(q) \/ IssueTokens(q) \/ Answer(q)
       \/ \E u, t \in Users : UpdateRead(q, u, t)
       \/ CountAdmins(q) \/ UpdateWrite(q) \/ UpdateRestates(q)
       \/ \E u, t \in Users, role \in Roles : InviteRead(q, u, t, role)
       \/ InviteInsert(q)
       \/ \E i \in Invitations : AcceptRead(q, i)
       \/ AcceptCreate(q) \/ MarkAccepted(q)
       \/ Fail(q)
  \/ \E s \in Sessions : Expire(s)
  \/ \E i \in Invitations : ExpireInvitation(i) \/ \E u \in Users : RevokeInvitation(u, i)
  \/ Tick

Spec == Init /\ [][Next]_vars

-----------------------------------------------------------------------------
(* The tables, cookies and requests have the shapes of their rows, types   *)
(* and handlers.                                                           *)
TypeOK ==
  /\ account \in [Users -> AccountRow]
  /\ session \in [Sessions -> SessionRow]
  /\ invitation \in [Invitations -> InvitationRow]
  /\ cookies \in [Users -> Cookies]
  /\ request \in [Requests -> Request]
  /\ begun \in Nat /\ faults \in Nat
  /\ since \in [Users -> 0..Ttl]
  /\ left \subseteq Sessions
  /\ overlapped \in BOOLEAN

(* A token that says more than its account runs out within JWT_ACCESS_TTL  *)
(* of the change that took it away, whatever refreshes came in between:    *)
(* only a handler that had read the account before the change signs a      *)
(* later one.                                                              *)
AccessEnds ==
  \A c \in {cookies[u] : u \in Users} \cup {request[q].answer : q \in Requests} :
    LET t == c.access IN
    t # None /\ ~t.late /\ ~(account[t.user].active /\ account[t.user].role = t.role)
      => t.life + since[t.user] <= Ttl

(* Every session that still opens the dashboard is in its owner's browser, *)
(* in an answer on the way there, or was left behind by a lost answer or   *)
(* by a second answer written over it: rotation and signing out leave none.*)
SessionsHeld ==
  \A s \in Sessions : Live(s) =>
    \/ s \in left
    \/ cookies[session[s].user].refresh = s
    \/ \E q \in Requests : request[q].answer.refresh = s

(* "Cannot remove the last active admin account", between a count and a    *)
(* write that no lock holds together: an active admin is left unless one   *)
(* was taken away by an update that had read or counted before another     *)
(* update was written.  Crossing alone excuses nothing: an update that     *)
(* crosses and takes no admin away, and any number that do not cross,      *)
(* leave one.                                                              *)
LastAdminStays == overlapped \/ \E u \in Users : ActiveAdmin(account[u])
=============================================================================
