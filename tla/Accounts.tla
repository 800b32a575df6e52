------------------------------ MODULE Accounts ------------------------------
(***************************************************************************)
(* Accounts, sessions, invites and password resets (trpc/auth.ts,          *)
(* trpc/staff.ts, auth/).                                                  *)
(*                                                                         *)
(* Hashing and verifying a password awaits, so a handler that does either  *)
(* is two steps: what it reads and decides before, and what it writes      *)
(* after, with every other handler free to run in between.  The database   *)
(* is what decides in the second step, never what was read in the first,   *)
(* where the code re-checks inside its transaction.                        *)
(*                                                                         *)
(* A user's passwords go by number, 0 the first.  A login verifies the one *)
(* stored when it read the row, which may have been replaced by the time   *)
(* its session is opened.                                                  *)
(***************************************************************************)
EXTENDS Integers, FiniteSets, Rows, Requests

CONSTANTS
  Users, Sessions, Invites, Resets,  \* rows there can be (bounds)
  Calls,          \* handlers that may await a password's hash at a time (a bound)
  Names,          \* usernames and e-mail addresses, as typed
  Lower,          \* each name in lower case
  MaxReplaced     \* how often a password is replaced, links aside (a bound)

ASSUME LowerIsLower ==
  /\ Lower \in [Names -> Names]
  /\ \A n \in Names : Lower[Lower[n]] = Lower[n]

ASSUME ReplacedIsANumber == MaxReplaced \in Nat

VARIABLES
  user,      \* users
  password,  \* the number of each user's password
  linked,    \* the number of the last one that a link has set; not in the code
  session,   \* sessions
  invite,    \* invites
  reset,     \* password_resets
  guardian,  \* the e-mail on file for each guardian, if there is one
  account,   \* guardian_users: the account of a guardian
  call       \* what each handler under way has read and decided

people  == <<guardian, account>>
tokens  == <<invite, reset>>
secrets == <<password, linked>>
vars    == <<user, secrets, session, tokens, people, call>>

Row(S) == S \cup {NoRow}

User    == [name : Names, role : Roles, active : BOOLEAN]
\* password is what it was opened with, and astray whether it is an admin's and
\* was opened off the local network, really; neither is in the code.
Session == [user : Row(Users), role : Roles, astray : BOOLEAN, password : Nat]
Invite  == [guardian : Guardians, state : {"open", "used"}]
\* uses counts the passwords a link has set; the code keeps only usedAt.
Reset   == [user : Users, state : {"open", "used"}, uses : Nat]
Call    == [does : {"nothing", "setup", "login", "accept", "confirm", "hire", "replace"},
            user : Row(Users), name : Row(Names), invite : Row(Invites), reset : Row(Resets),
            password : Nat, astray : BOOLEAN]

ASSUME NoRowIsNothing ==
  NoRow \notin Users \cup Resets \cup Invites \cup Names \cup User \cup Session \cup Invite \cup Reset

TypeOK ==
  /\ user \in [Users -> Row(User)]
  /\ password \in [Users -> Nat] /\ linked \in [Users -> Nat]
  /\ session \in [Sessions -> Row(Session)]
  /\ invite \in [Invites -> Row(Invite)]
  /\ reset \in [Resets -> Row(Reset)]
  /\ guardian \in [Guardians -> Row(Names)]
  /\ account \in [Guardians -> SUBSET Users]
  /\ call \in [Calls -> Call]

-----------------------------------------------------------------------------
(* Reading the tables *)

Exists(u)   == user[u] # NoRow
Named(n)    == {u \in Users : Exists(u) /\ user[u].name = n}
\* lower(username) = lower(input): how a name is looked up when someone signs in.
Known(n)    == {u \in Users : Exists(u) /\ Lower[user[u].name] = Lower[n]}
Free(S, row) == {x \in S : row[x] = NoRow}
Email(g)    == IF guardian[g] = NoRow THEN NoRow ELSE Lower[guardian[g]]

\* getSession and requireAuth: the row of a local session is re-read with every
\* request, and an admin's cookie works on the local network only.
Signed(s, role) ==
  /\ session[s] # NoRow
  /\ session[s].user # NoRow => user[session[s].user].active
  /\ session[s].role = role
AsAdmin == \E s \in Sessions : Signed(s, "admin")

\* Nobody is obliged to use a token, so that one may have expired is left out:
\* expiry is asked when a handler begins, and not again.
Idle == [does |-> "nothing", user |-> NoRow, name |-> NoRow, invite |-> NoRow,
         reset |-> NoRow, password |-> 0, astray |-> FALSE]

Begins(x, r) == call[x].does = "nothing" /\ call' = [call EXCEPT ![x] = r]
Ends(x)      == call' = [call EXCEPT ![x] = Idle]
Doing(x, what) == call[x].does = what

Init ==
  /\ user = [u \in Users |-> NoRow]
  /\ password = [u \in Users |-> 0] /\ linked = [u \in Users |-> 0]
  /\ session = [s \in Sessions |-> NoRow]
  /\ invite = [i \in Invites |-> NoRow]
  /\ reset = [r \in Resets |-> NoRow]
  /\ guardian = [g \in Guardians |-> NoRow]
  /\ account = [g \in Guardians |-> {}]
  /\ call = [x \in Calls |-> Idle]

\* createSession
Opens(s, u, role, pw, astray) ==
  /\ session[s] = NoRow
  /\ session' = [session EXCEPT ![s] =
                   [user |-> u, role |-> role, password |-> pw, astray |-> astray]]

SessionsOf(u) == {s \in Sessions : session[s] # NoRow /\ session[s].user = u}

-----------------------------------------------------------------------------
(* First run and signing in *)

\* setup, on the local network; whether anybody exists is asked only afterwards.
\* One that begins when somebody does is refused whatever happens, and left out.
BeginSetup(x, n, from) ==
  /\ from.origin = "lan"
  /\ \A v \in Users : ~Exists(v)
  /\ Begins(x, [Idle EXCEPT !.does = "setup", !.name = n, !.astray = Astray("admin", from)])
  /\ UNCHANGED <<user, secrets, session, tokens, people>>

\* Fault: what was true before the hash is taken for granted after it.
EndSetup_NotRechecked(x, u, s) ==
  /\ Doing(x, "setup") /\ ~Exists(u) /\ Named(call[x].name) = {}
  /\ user' = [user EXCEPT ![u] = [name |-> call[x].name, role |-> "admin", active |-> TRUE]]
  /\ Opens(s, u, "admin", password[u], call[x].astray)
  /\ Ends(x)
  /\ UNCHANGED <<secrets, tokens, people>>

EndSetup(x, u, s) ==
  /\ Doing(x, "setup") /\ \A v \in Users : ~Exists(v)
  /\ user' = [user EXCEPT ![u] = [name |-> call[x].name, role |-> "admin", active |-> TRUE]]
  /\ Opens(s, u, "admin", password[u], call[x].astray)
  /\ Ends(x)
  /\ UNCHANGED <<secrets, tokens, people>>

SetupRefused(x) ==
  /\ Doing(x, "setup") /\ \E v \in Users : Exists(v)
  /\ Ends(x)
  /\ UNCHANGED <<user, secrets, session, tokens, people>>

\* login up to the verification, by somebody who knows the password of a user of
\* that name in any case (the first the database finds).  A login that is going
\* to fail verifies a decoy and leaves nothing but its count (see Limiter).
BeginLogin(x, n, from) ==
  /\ \E u \in Known(n) :
       /\ user[u].active /\ AllowedFrom(user[u].role, from.origin)
       /\ Begins(x, [Idle EXCEPT !.does = "login", !.user = u, !.password = password[u],
                                 !.astray = Astray(user[u].role, from)])
  /\ UNCHANGED <<user, secrets, session, tokens, people>>

\* The session is made from the row as it was read.
EndLogin(x, s) ==
  /\ Doing(x, "login")
  /\ Opens(s, call[x].user, user[call[x].user].role, call[x].password, call[x].astray)
  /\ Ends(x)
  /\ UNCHANGED <<user, secrets, tokens, people>>

\* The platform vouches for its user: an admin without a row of his own.
SsoSession(s, from) ==
  /\ from.origin = "lan"
  /\ Opens(s, NoRow, "admin", 0, Astray("admin", from))
  /\ UNCHANGED <<user, secrets, tokens, people, call>>

\* logout; a session that has expired; one that is presented for a disabled user.
SessionEnds(s) ==
  /\ session[s] # NoRow
  /\ session' = [session EXCEPT ![s] = NoRow]
  /\ UNCHANGED <<user, secrets, tokens, people, call>>

-----------------------------------------------------------------------------
(* Passwords *)

\* resetRequest, for a name that belongs to an active user.  No other column
\* than the username can match: users.email is null or equals it.
RequestReset(n, r) ==
  /\ reset[r] = NoRow
  /\ \E u \in Known(n) : user[u].active
       /\ reset' = [reset EXCEPT ![r] = [user |-> u, state |-> "open", uses |-> 0]]
  /\ UNCHANGED <<user, secrets, session, invite, people, call>>

BeginConfirm(x, r) ==
  /\ reset[r] # NoRow /\ reset[r].state = "open"
  /\ Begins(x, [Idle EXCEPT !.does = "confirm", !.reset = r, !.user = reset[r].user])
  /\ UNCHANGED <<user, secrets, session, tokens, people>>

\* The link's password is stored, and every session of the user closed.
Rehashed(u) == password' = [password EXCEPT ![u] = @ + 1]
Linked(r, u) ==
  /\ reset' = [reset EXCEPT ![r].state = "used", ![r].uses = @ + 1]
  /\ Rehashed(u)
  /\ linked' = [linked EXCEPT ![u] = password[u] + 1]
SignedOut(u) == session' = [s \in Sessions |-> IF s \in SessionsOf(u) THEN NoRow ELSE session[s]]

\* Fault: the link is not looked at again after the hash.
EndConfirm_NotRechecked(x) ==
  /\ Doing(x, "confirm")
  /\ Linked(call[x].reset, call[x].user) /\ SignedOut(call[x].user)
  /\ Ends(x)
  /\ UNCHANGED <<user, invite, people>>

\* Fault: the user's sessions are left open.
EndConfirm_StaysSignedIn(x) ==
  /\ Doing(x, "confirm") /\ reset[call[x].reset].state # "used"
  /\ Linked(call[x].reset, call[x].user)
  /\ Ends(x)
  /\ UNCHANGED <<user, session, invite, people>>

\* resetConfirm's transaction: a link that was used meanwhile is refused, and the
\* user is signed out everywhere.
EndConfirm(x) ==
  /\ Doing(x, "confirm") /\ reset[call[x].reset].state # "used"
  /\ Linked(call[x].reset, call[x].user) /\ SignedOut(call[x].user)
  /\ Ends(x)
  /\ UNCHANGED <<user, invite, people>>

ConfirmRefused(x) ==
  /\ Doing(x, "confirm") /\ reset[call[x].reset].state = "used"
  /\ Ends(x)
  /\ UNCHANGED <<user, secrets, session, tokens, people>>

Replaces(x, u) == Begins(x, [Idle EXCEPT !.does = "replace", !.user = u])

\* changePassword, by somebody who is signed in and knows the password: verifying
\* the one and hashing the other are one wait here, since nothing is read between.
BeginChange(x, s) ==
  /\ \E role \in Roles : Signed(s, role)
  /\ session[s].user # NoRow /\ Replaces(x, session[s].user)
  /\ UNCHANGED <<user, secrets, session, tokens, people>>

\* staff.resetPassword
BeginStaffReset(x, u) ==
  /\ AsAdmin /\ Exists(u) /\ Replaces(x, u)
  /\ UNCHANGED <<user, secrets, session, tokens, people>>

\* Either after its hash: nothing is looked at again, and no session is closed.
EndReplace(x) ==
  /\ Doing(x, "replace") /\ password[call[x].user] < MaxReplaced
  /\ Rehashed(call[x].user)
  /\ Ends(x)
  /\ UNCHANGED <<user, linked, session, tokens, people>>

-----------------------------------------------------------------------------
(* Staff *)

BeginHire(x, n) ==
  /\ AsAdmin /\ Named(n) = {}
  /\ Begins(x, [Idle EXCEPT !.does = "hire", !.name = n])
  /\ UNCHANGED <<user, secrets, session, tokens, people>>

\* staff.create after its hash; a name taken meanwhile fails on the UNIQUE index.
EndHire(x, u) ==
  /\ Doing(x, "hire") /\ ~Exists(u) /\ Named(call[x].name) = {}
  /\ user' = [user EXCEPT ![u] = [name |-> call[x].name, role |-> "finance", active |-> TRUE]]
  /\ Ends(x)
  /\ UNCHANGED <<secrets, session, tokens, people>>

HireFails(x) ==
  /\ Doing(x, "hire") /\ Named(call[x].name) # {}
  /\ Ends(x)
  /\ UNCHANGED <<user, secrets, session, tokens, people>>

SetStatus(u, active) ==
  /\ AsAdmin /\ Exists(u) /\ user[u].role # "admin"
  /\ user' = [user EXCEPT ![u].active = active]
  /\ UNCHANGED <<secrets, session, tokens, people, call>>

-----------------------------------------------------------------------------
(* Guardians and their invites *)

\* guardianCreate and guardianUpdate; an address need not be its own.
PutGuardian(g, email) ==
  /\ AsAdmin
  /\ guardian' = [guardian EXCEPT ![g] = email]
  /\ UNCHANGED <<user, secrets, session, tokens, account, call>>

\* mintInvite, for the office or for a parent who knows a child's name and PIN.
\* Any number of invites may be open for one guardian.
MintInvite(i, g) ==
  /\ invite[i] = NoRow
  /\ Email(g) # NoRow /\ account[g] = {} /\ Named(Email(g)) = {}
  /\ invite' = [invite EXCEPT ![i] = [guardian |-> g, state |-> "open"]]
  /\ UNCHANGED <<user, secrets, session, reset, people, call>>

\* inviteAccept up to its hash; the address on file becomes the username.
BeginAccept(x, i) ==
  /\ invite[i] # NoRow /\ invite[i].state = "open"
  /\ LET g == invite[i].guardian IN
       /\ Email(g) # NoRow /\ account[g] = {} /\ Named(Email(g)) = {}
       /\ Begins(x, [Idle EXCEPT !.does = "accept", !.invite = i, !.name = Email(g)])
  /\ UNCHANGED <<user, secrets, session, tokens, people>>

\* Fault: the transaction re-checks the invite only, not the guardian.
Acceptable_InviteOnly(x) ==
  /\ invite[call[x].invite].state # "used"
  /\ Named(call[x].name) = {}

Acceptable(x) ==
  /\ invite[call[x].invite].state # "used"
  /\ account[invite[call[x].invite].guardian] = {}
  /\ Named(call[x].name) = {}

EndAccept(x, u, s) ==
  /\ Doing(x, "accept") /\ Acceptable(x) /\ ~Exists(u)
  /\ user' = [user EXCEPT ![u] = [name |-> call[x].name, role |-> "parent", active |-> TRUE]]
  /\ account' = [account EXCEPT ![invite[call[x].invite].guardian] = @ \cup {u}]
  /\ invite' = [invite EXCEPT ![call[x].invite].state = "used"]
  /\ Opens(s, u, "parent", password[u], FALSE)
  /\ Ends(x)
  /\ UNCHANGED <<secrets, reset, guardian>>

AcceptRefused(x) ==
  /\ Doing(x, "accept") /\ ~Acceptable(x)
  /\ Ends(x)
  /\ UNCHANGED <<user, secrets, session, tokens, people>>

-----------------------------------------------------------------------------
(* The process *)

\* Handlers under way are lost with the process.
Restart ==
  /\ call' = [x \in Calls |-> Idle]
  /\ UNCHANGED <<user, secrets, session, tokens, people>>

Next ==
  \/ \E x \in Calls, n \in Names : BeginHire(x, n)
  \/ \E x \in Calls, n \in Names, from \in Arrivals : BeginSetup(x, n, from) \/ BeginLogin(x, n, from)
  \/ \E x \in Calls, u \in Users, s \in Sessions : EndSetup(x, u, s) \/ EndAccept(x, u, s)
  \/ \E x \in Calls, s \in Sessions : EndLogin(x, s)
  \/ \E x \in Calls : \/ SetupRefused(x)
                      \/ EndConfirm(x) \/ ConfirmRefused(x) \/ EndReplace(x)
                      \/ HireFails(x) \/ AcceptRefused(x)
  \/ \E s \in Sessions, from \in Arrivals : SsoSession(s, from)
  \/ \E s \in Sessions : SessionEnds(s)
  \/ \E n \in Names, r \in Resets : RequestReset(n, r)
  \/ \E x \in Calls, r \in Resets : BeginConfirm(x, r)
  \/ \E x \in Calls, s \in Sessions : BeginChange(x, s)
  \/ \E x \in Calls, u \in Users : BeginStaffReset(x, u) \/ EndHire(x, u)
  \/ \E u \in Users, active \in BOOLEAN : SetStatus(u, active)
  \/ \E g \in Guardians, email \in Row(Names) : PutGuardian(g, email)
  \/ \E i \in Invites, g \in Guardians : MintInvite(i, g)
  \/ \E x \in Calls, i \in Invites : BeginAccept(x, i)
  \/ Restart

Spec == Init /\ [][Next]_vars
-----------------------------------------------------------------------------
(* Properties *)

InRole(role) == {u \in Users : Exists(u) /\ user[u].role = role}

\* A guardian ends up with one account however many invites were open and
\* however many times they were accepted at once; every parent's account is some
\* guardian's, and cost exactly one invite of that guardian.
AccountsMatchInvites ==
  /\ \A g \in Guardians : Cardinality(account[g]) <= 1
  /\ InRole("parent") = UNION {account[g] : g \in Guardians}
  /\ \A g, h \in Guardians : g # h => account[g] \cap account[h] = {}
  /\ \A g \in Guardians :
       Cardinality(account[g])
         = Cardinality({i \in Invites : invite[i] # NoRow /\ invite[i].guardian = g
                                        /\ invite[i].state = "used"})

\* First runs at the same time leave one admin: the account that only the
\* first visitor of an empty installation may make.
OneAdmin == Cardinality(InRole("admin")) <= 1

\* A reset link sets at most one password, submitted twice at once or not.
LinksWorkOnce == \A r \in Resets : reset[r] # NoRow => reset[r].uses <= 1

\* Has a link replaced the password that the session was opened with?
Outdated(s) ==
  session[s] # NoRow /\ session[s].user # NoRow /\ session[s].password < linked[session[s].user]

\* After a reset by link the old password, and those before it, open nothing more and
\* keep nothing open, whatever passwords are changed or reset by staff around it
\* (which closes no session): only a login that was being verified meanwhile
\* still gets its session.
ResetSignsOut ==
  [][\A s \in Sessions : Outdated(s)' =>
       \/ Outdated(s)
       \/ \E x \in Calls : /\ Doing(x, "login") /\ call'[x] = Idle
                           /\ call[x].user = session'[s].user
                           /\ call[x].password = session'[s].password]_vars

\* An admin's session was opened on the local network, whichever door made it
\* and whatever stood between the visitor and the app, and a session carries the
\* role its user has.
AdminsAreLocal ==
  \A s \in Sessions : session[s] # NoRow =>
    /\ ~session[s].astray
    /\ session[s].user # NoRow => session[s].role = user[session[s].user].role
=============================================================================
