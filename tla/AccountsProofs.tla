--------------------------- MODULE AccountsProofs ---------------------------
(***************************************************************************)
(* Theorems about accounts and sessions, for any users, names, addresses   *)
(* and handlers under way.                                                 *)
(*                                                                         *)
(* What a handler writes after its await rests on what it read before: the *)
(* inductive invariant says which of it is still true then (CallsInv).     *)
(***************************************************************************)
EXTENDS Accounts, FiniteSetTheorems, TLAPS

\* A link that is open has set no password yet.
LinksInv ==
  \A r \in Resets : reset[r] # NoRow =>
    /\ reset[r].uses <= 1
    /\ reset[r].state = "open" => reset[r].uses = 0

\* The row a handler read before its await is still there after it, and nobody
\* off the local network is on his way in as an admin.
CallsInv ==
  \A x \in Calls :
    /\ ~call[x].astray
    /\ Doing(x, "login") => call[x].user # NoRow /\ Exists(call[x].user)
    /\ Doing(x, "confirm") => call[x].reset # NoRow /\ reset[call[x].reset] # NoRow
    /\ Doing(x, "accept") => call[x].invite # NoRow /\ invite[call[x].invite] # NoRow
    /\ Doing(x, "setup") \/ Doing(x, "hire") \/ Doing(x, "accept") => call[x].name # NoRow

\* A session is the platform's, or somebody's who exists, in his role.
SessionsInv ==
  \A s \in Sessions : session[s] # NoRow =>
    /\ ~session[s].astray
    /\ session[s].user # NoRow =>
         Exists(session[s].user) /\ session[s].role = user[session[s].user].role

AdminsInv ==
  \A u, v \in Users :
    Exists(u) /\ Exists(v) /\ user[u].role = "admin" /\ user[v].role = "admin" => u = v

AccountsInv == TypeOK /\ LinksInv /\ CallsInv /\ SessionsInv /\ AdminsInv

\* Whoever is classified local is, whatever stands in between and whatever he sends.
LEMMA LocalIsLocal ==
  ASSUME NEW from \in Arrivals, from.origin = "lan"
  PROVE  from.local
<1>1. PICK v \in Visits : /\ from.origin = Classify(Seen(v), Peer(v))
                         /\ from.local = (v.path # "tunnel" /\ v.address \in Private)
  BY DEF Arrivals
<1>2. v.path \in {"direct", "proxy", "tunnel"} /\ v.address \in Addresses
  BY DEF Visits
<1>3. ~Seen(v).ray /\ ClientIp(Seen(v), Peer(v)) \in Private
  BY <1>1 DEF Classify
<1>4. CASE v.path = "direct"
  BY <1>1, <1>3, <1>4 DEF Peer, ClientIp
<1>5. CASE v.path = "proxy"
  BY <1>1, <1>2, <1>3, <1>5, AddressAssumption DEF Peer, Seen, ClientIp
<1>6. CASE v.path = "tunnel"
  BY <1>3, <1>6 DEF Seen
<1> QED
  BY <1>2, <1>4, <1>5, <1>6

\* A role that is let in from where a visit is classified is not astray.
LEMMA AllowedIsNotAstray ==
  ASSUME NEW from \in Arrivals, NEW role, AllowedFrom(role, from.origin)
  PROVE  ~Astray(role, from) /\ Astray(role, from) \in BOOLEAN
BY LocalIsLocal DEF AllowedFrom, Astray

\* A step that changes nothing but what handlers have read.
LEMMA OnlyCalls ==
  ASSUME AccountsInv, UNCHANGED <<user, secrets, session, tokens, people>>,
         call' \in [Calls -> Call], CallsInv'
  PROVE  AccountsInv'
BY DEF AccountsInv, TypeOK, LinksInv, SessionsInv, AdminsInv, Exists, secrets, tokens, people

\* A handler begins with something of the right type.
LEMMA BeganTypes ==
  ASSUME TypeOK, NEW x \in Calls, NEW r \in Call, Begins(x, r)
  PROVE  /\ call' \in [Calls -> Call] /\ call'[x] = r
         /\ \A y \in Calls : y # x => call'[y] = call[y]
BY DEF TypeOK, Begins

LEMMA IdleIsACall == Idle \in Call /\ Idle.does = "nothing" /\ ~Idle.astray
BY DEF Idle, Call, Row

\* A handler that ends has read nothing.
LEMMA EndedTypes ==
  ASSUME TypeOK, NEW x \in Calls, Ends(x)
  PROVE  /\ call' \in [Calls -> Call]
         /\ \A y \in Calls : call'[y] = call[y] \/ call'[y] = Idle
BY IdleIsACall DEF TypeOK, Ends

\* Handlers that go on find what they read, as long as no row disappears.
LEMMA OthersGoOn ==
  ASSUME AccountsInv, \A y \in Calls : call'[y] = call[y] \/ call'[y] = Idle,
         \A u \in Users : user[u] # NoRow => user'[u] # NoRow,
         \A r \in Resets : reset[r] # NoRow => reset'[r] # NoRow,
         \A i \in Invites : invite[i] # NoRow => invite'[i] # NoRow
  PROVE  CallsInv'
BY IdleIsACall, NoRowIsNothing DEF AccountsInv, CallsInv, TypeOK, Call, Row, Doing, Exists

-----------------------------------------------------------------------------
(* Handlers that begin *)

LEMMA BeginHireKeeps ==
  ASSUME AccountsInv, NEW x \in Calls, NEW n \in Names, BeginHire(x, n)
  PROVE  AccountsInv'
<1> DEFINE it == [Idle EXCEPT !.does = "hire", !.name = n]
<1>1. it \in Call /\ Begins(x, it) /\ UNCHANGED <<user, secrets, session, tokens, people>>
  BY DEF BeginHire, Idle, Call, Row
<1>2. it.does = "hire" /\ ~it.astray /\ it.name # NoRow
  BY NoRowIsNothing DEF Idle
<1> HIDE DEF it
<1>3. CallsInv'
  BY <1>1, <1>2, BeganTypes DEF AccountsInv, CallsInv, Doing, Exists, tokens
<1> QED
  BY <1>1, <1>3, BeganTypes, OnlyCalls DEF AccountsInv

LEMMA BeginSetupKeeps ==
  ASSUME AccountsInv, NEW x \in Calls, NEW n \in Names, NEW from \in Arrivals,
         BeginSetup(x, n, from)
  PROVE  AccountsInv'
<1> DEFINE it == [Idle EXCEPT !.does = "setup", !.name = n,
                          !.astray = Astray("admin", from)]
<1>1. it \in Call /\ Begins(x, it) /\ UNCHANGED <<user, secrets, session, tokens, people>>
  BY DEF BeginSetup, Idle, Call, Row, Astray
<1>2. it.does = "setup" /\ ~it.astray /\ it.name # NoRow
  BY NoRowIsNothing, LocalIsLocal DEF BeginSetup, Idle, Astray
<1> HIDE DEF it
<1>3. CallsInv'
  BY <1>1, <1>2, BeganTypes DEF AccountsInv, CallsInv, Doing, Exists, tokens
<1> QED
  BY <1>1, <1>3, BeganTypes, OnlyCalls DEF AccountsInv

LEMMA BeginLoginKeeps ==
  ASSUME AccountsInv, NEW x \in Calls, NEW n \in Names, NEW from \in Arrivals,
         BeginLogin(x, n, from)
  PROVE  AccountsInv'
<1>1. PICK u \in Known(n) :
        /\ AllowedFrom(user[u].role, from.origin)
        /\ Begins(x, [Idle EXCEPT !.does = "login", !.user = u, !.password = password[u],
                                  !.astray = Astray(user[u].role, from)])
  BY DEF BeginLogin
<1> DEFINE it == [Idle EXCEPT !.does = "login", !.user = u, !.password = password[u],
                              !.astray = Astray(user[u].role, from)]
<1>2. u \in Users /\ Exists(u) /\ u # NoRow /\ password[u] \in Nat
  BY NoRowIsNothing DEF Known, AccountsInv, TypeOK
<1>3. it \in Call /\ it.does = "login" /\ it.user = u /\ ~it.astray
  BY <1>1, <1>2, AllowedIsNotAstray DEF Idle, Call, Row
<1>4. Begins(x, it) /\ UNCHANGED <<user, secrets, session, tokens, people>>
  BY <1>1 DEF BeginLogin
<1> HIDE DEF it
<1>5. CallsInv'
  BY <1>2, <1>3, <1>4, BeganTypes DEF AccountsInv, CallsInv, Doing, Exists, tokens
<1> QED
  BY <1>3, <1>4, <1>5, BeganTypes, OnlyCalls DEF AccountsInv

LEMMA BeginConfirmKeeps ==
  ASSUME AccountsInv, NEW x \in Calls, NEW r \in Resets, BeginConfirm(x, r)
  PROVE  AccountsInv'
<1> DEFINE it == [Idle EXCEPT !.does = "confirm", !.reset = r, !.user = reset[r].user]
<1>1. reset[r] # NoRow /\ reset[r] \in Reset
  BY DEF BeginConfirm, AccountsInv, TypeOK, Row
<1>2. it \in Call /\ it.does = "confirm" /\ it.reset = r /\ r # NoRow /\ ~it.astray
  BY <1>1, NoRowIsNothing DEF Idle, Call, Row, Reset
<1>3. Begins(x, it) /\ UNCHANGED <<user, secrets, session, tokens, people>>
  BY DEF BeginConfirm
<1> HIDE DEF it
<1>4. CallsInv'
  BY <1>1, <1>2, <1>3, BeganTypes DEF AccountsInv, CallsInv, Doing, Exists, tokens
<1> QED
  BY <1>2, <1>3, <1>4, BeganTypes, OnlyCalls DEF AccountsInv

LEMMA BeginAcceptKeeps ==
  ASSUME AccountsInv, NEW x \in Calls, NEW i \in Invites, BeginAccept(x, i)
  PROVE  AccountsInv'
<1> DEFINE g == invite[i].guardian
           it == [Idle EXCEPT !.does = "accept", !.invite = i, !.name = Email(g)]
<1>1. invite[i] # NoRow /\ g \in Guardians /\ guardian[g] \in Names /\ Email(g) # NoRow
  BY DEF BeginAccept, Email, AccountsInv, TypeOK, Row, Invite
<1>2. Email(g) \in Names
  BY <1>1, LowerIsLower, NoRowIsNothing DEF Email
<1>3. /\ it \in Call /\ it.does = "accept" /\ ~it.astray
      /\ it.invite = i /\ i # NoRow /\ it.name # NoRow
  BY <1>1, <1>2, NoRowIsNothing DEF Idle, Call, Row
<1>4. Begins(x, it) /\ UNCHANGED <<user, secrets, session, tokens, people>>
  BY DEF BeginAccept
<1> HIDE DEF it, g
<1>5. CallsInv'
  BY <1>1, <1>3, <1>4, BeganTypes DEF AccountsInv, CallsInv, Doing, Exists, tokens
<1> QED
  BY <1>3, <1>4, <1>5, BeganTypes, OnlyCalls DEF AccountsInv

\* Replacing a password begins with a user and nothing else.
LEMMA ReplacesKeeps ==
  ASSUME AccountsInv, NEW x \in Calls, NEW u \in Users, Replaces(x, u),
         UNCHANGED <<user, secrets, session, tokens, people>>
  PROVE  AccountsInv'
<1> DEFINE it == [Idle EXCEPT !.does = "replace", !.user = u]
<1>1. it \in Call /\ it.does = "replace" /\ ~it.astray /\ Begins(x, it)
  BY DEF Replaces, Idle, Call, Row
<1> HIDE DEF it
<1>2. CallsInv'
  BY <1>1, BeganTypes DEF AccountsInv, CallsInv, Doing, Exists, tokens
<1> QED
  BY <1>1, <1>2, BeganTypes, OnlyCalls DEF AccountsInv

LEMMA BeginChangeKeeps ==
  ASSUME AccountsInv, NEW x \in Calls, NEW s \in Sessions, BeginChange(x, s)
  PROVE  AccountsInv'
<1>1. session[s].user \in Users
  BY DEF BeginChange, Signed, AccountsInv, TypeOK, Row, Session
<1> QED
  BY <1>1, ReplacesKeeps DEF BeginChange

LEMMA BeginStaffResetKeeps ==
  ASSUME AccountsInv, NEW x \in Calls, NEW u \in Users, BeginStaffReset(x, u)
  PROVE  AccountsInv'
BY ReplacesKeeps DEF BeginStaffReset

-----------------------------------------------------------------------------
(* Handlers that end, or are lost, and write nothing *)

\* Nothing is written, and handlers go on or end.
LEMMA NothingWritten ==
  ASSUME AccountsInv, UNCHANGED <<user, secrets, session, tokens, people>>,
         call' \in [Calls -> Call], \A y \in Calls : call'[y] = call[y] \/ call'[y] = Idle
  PROVE  AccountsInv'
BY OthersGoOn, OnlyCalls DEF tokens

LEMMA SetupRefusedKeeps ==
  ASSUME AccountsInv, NEW x \in Calls, SetupRefused(x)
  PROVE  AccountsInv'
BY EndedTypes, NothingWritten DEF SetupRefused, AccountsInv

LEMMA ConfirmRefusedKeeps ==
  ASSUME AccountsInv, NEW x \in Calls, ConfirmRefused(x)
  PROVE  AccountsInv'
BY EndedTypes, NothingWritten DEF ConfirmRefused, AccountsInv

LEMMA HireFailsKeeps ==
  ASSUME AccountsInv, NEW x \in Calls, HireFails(x)
  PROVE  AccountsInv'
BY EndedTypes, NothingWritten DEF HireFails, AccountsInv

LEMMA AcceptRefusedKeeps ==
  ASSUME AccountsInv, NEW x \in Calls, AcceptRefused(x)
  PROVE  AccountsInv'
BY EndedTypes, NothingWritten DEF AcceptRefused, AccountsInv

LEMMA RestartKeeps ==
  ASSUME AccountsInv, Restart
  PROVE  AccountsInv'
BY IdleIsACall, NothingWritten DEF Restart

-----------------------------------------------------------------------------
(* Accounts that are made *)

\* A row is filled in for somebody new: everything said of the others stays.
LEMMA NewUser ==
  ASSUME AccountsInv, NEW u \in Users, ~Exists(u), NEW n \in Names, NEW role \in Roles,
         user' = [user EXCEPT ![u] = [name |-> n, role |-> role, active |-> TRUE]],
         role = "admin" => \A v \in Users : ~Exists(v)
  PROVE  /\ user' \in [Users -> Row(User)] /\ AdminsInv'
         /\ user'[u] # NoRow /\ user'[u].role = role
         /\ \A v \in Users : v # u => user'[v] = user[v]
<1> DEFINE row == [name |-> n, role |-> role, active |-> TRUE]
<1>1. row \in User /\ row.role = role
  BY DEF User
<1> HIDE DEF row
<1>2. row # NoRow
  BY <1>1, NoRowIsNothing
<1>3. user \in [Users -> Row(User)] /\ user' = [user EXCEPT ![u] = row]
  BY DEF AccountsInv, TypeOK, row
<1>4. user' \in [Users -> Row(User)] /\ user'[u] = row
      /\ \A v \in Users : v # u => user'[v] = user[v]
  BY <1>1, <1>3 DEF Row
<1>5. AdminsInv'
  BY <1>1, <1>2, <1>4 DEF AccountsInv, AdminsInv, Exists
<1> QED
  BY <1>1, <1>2, <1>4, <1>5

\* Sessions of those who existed are as good as before.
LEMMA OldSessions ==
  ASSUME AccountsInv, NEW u \in Users, ~Exists(u), \A v \in Users : v # u => user'[v] = user[v],
         NEW s \in Sessions, session'[s] = session[s], session[s] # NoRow
  PROVE  /\ ~session'[s].astray
         /\ session'[s].user # NoRow =>
              user'[session'[s].user] # NoRow /\ session'[s].role = user'[session'[s].user].role
BY DEF AccountsInv, TypeOK, SessionsInv, Exists, Row, Session

LEMMA EndSetupKeeps ==
  ASSUME AccountsInv, NEW x \in Calls, NEW u \in Users, NEW s \in Sessions,
         EndSetup(x, u, s)
  PROVE  AccountsInv'
<1>1. call[x].name \in Names /\ ~call[x].astray /\ call[x].astray \in BOOLEAN
  BY DEF EndSetup, AccountsInv, TypeOK, CallsInv, Call, Row
<1>2. /\ user' \in [Users -> Row(User)] /\ AdminsInv'
      /\ user'[u] # NoRow /\ user'[u].role = "admin"
      /\ \A v \in Users : v # u => user'[v] = user[v]
  BY <1>1, NewUser DEF EndSetup, Roles
<1>3. CallsInv'
  BY <1>2, EndedTypes, OthersGoOn DEF EndSetup, AccountsInv, tokens
<1>4. /\ session' \in [Sessions -> Row(Session)]
      /\ session'[s] =
           [user |-> u, role |-> "admin", password |-> password[u], astray |-> call[x].astray]
      /\ \A t \in Sessions : t # s => session'[t] = session[t]
  BY <1>1 DEF EndSetup, Opens, AccountsInv, TypeOK, Session, Row, Roles
<1>5. ASSUME NEW t \in Sessions, session'[t] # NoRow
      PROVE  /\ ~session'[t].astray
             /\ session'[t].user # NoRow =>
                  user'[session'[t].user] # NoRow
                  /\ session'[t].role = user'[session'[t].user].role
  <2>1. CASE t = s
    BY <1>1, <1>2, <1>4, <2>1
  <2>2. CASE t # s
    BY <1>2, <1>4, <1>5, <2>2, OldSessions DEF EndSetup, Exists
  <2> QED
    BY <2>1, <2>2
<1>6. SessionsInv'
  BY <1>5 DEF SessionsInv, Exists
<1>7. LinksInv'
  BY DEF EndSetup, AccountsInv, LinksInv, tokens
<1>8. TypeOK'
  BY <1>1, <1>2, <1>4, EndedTypes DEF EndSetup, AccountsInv, TypeOK, secrets, tokens, people
<1> QED
  BY <1>2, <1>3, <1>6, <1>7, <1>8 DEF AccountsInv

LEMMA EndAcceptKeeps ==
  ASSUME AccountsInv, NEW x \in Calls, NEW u \in Users, NEW s \in Sessions,
         EndAccept(x, u, s)
  PROVE  AccountsInv'
<1>1. call[x].name \in Names /\ call[x].invite \in Invites /\ invite[call[x].invite] \in Invite
  BY DEF EndAccept, AccountsInv, TypeOK, CallsInv, Call, Row
<1>2. /\ user' \in [Users -> Row(User)] /\ AdminsInv'
      /\ user'[u] # NoRow /\ user'[u].role = "parent"
      /\ \A v \in Users : v # u => user'[v] = user[v]
  BY <1>1, NewUser DEF EndAccept, Roles
<1>3. CallsInv'
  BY <1>2, EndedTypes, OthersGoOn, NoRowIsNothing DEF EndAccept, AccountsInv, TypeOK, Row, Invite
<1>4. /\ session' \in [Sessions -> Row(Session)]
      /\ session'[s] =
           [user |-> u, role |-> "parent", password |-> password[u], astray |-> FALSE]
      /\ \A t \in Sessions : t # s => session'[t] = session[t]
  BY <1>1 DEF EndAccept, Opens, AccountsInv, TypeOK, Session, Row, Roles
<1>5. ASSUME NEW t \in Sessions, session'[t] # NoRow
      PROVE  /\ ~session'[t].astray
             /\ session'[t].user # NoRow =>
                  user'[session'[t].user] # NoRow
                  /\ session'[t].role = user'[session'[t].user].role
  <2>1. CASE t = s
    BY <1>1, <1>2, <1>4, <2>1
  <2>2. CASE t # s
    BY <1>2, <1>4, <1>5, <2>2, OldSessions DEF EndAccept, Exists
  <2> QED
    BY <2>1, <2>2
<1>6. SessionsInv'
  BY <1>5 DEF SessionsInv, Exists
<1>7. LinksInv'
  BY DEF EndAccept, AccountsInv, LinksInv
<1>8. TypeOK'
  BY <1>1, <1>2, <1>4, EndedTypes DEF EndAccept, AccountsInv, TypeOK, Row, Invite, secrets
<1> QED
  BY <1>2, <1>3, <1>6, <1>7, <1>8 DEF AccountsInv

LEMMA EndHireKeeps ==
  ASSUME AccountsInv, NEW x \in Calls, NEW u \in Users, EndHire(x, u)
  PROVE  AccountsInv'
<1>1. call[x].name \in Names
  BY DEF EndHire, AccountsInv, TypeOK, CallsInv, Call, Row
<1>2. /\ user' \in [Users -> Row(User)] /\ AdminsInv'
      /\ user'[u] # NoRow
      /\ \A v \in Users : v # u => user'[v] = user[v]
  BY <1>1, NewUser DEF EndHire, Roles
<1>3. CallsInv'
  BY <1>2, EndedTypes, OthersGoOn DEF EndHire, AccountsInv, tokens
<1>4. SessionsInv'
  BY <1>2, OldSessions DEF EndHire, SessionsInv, Exists
<1>5. TypeOK' /\ LinksInv'
  BY <1>2, EndedTypes DEF EndHire, AccountsInv, TypeOK, LinksInv, secrets, tokens, people
<1> QED
  BY <1>2, <1>3, <1>4, <1>5 DEF AccountsInv

LEMMA SetStatusKeeps ==
  ASSUME AccountsInv, NEW u \in Users, NEW active \in BOOLEAN, SetStatus(u, active)
  PROVE  AccountsInv'
<1>1. /\ user' \in [Users -> Row(User)]
      /\ \A v \in Users : user[v] # NoRow => user'[v] # NoRow /\ user'[v].role = user[v].role
      /\ \A v \in Users : user'[v] # NoRow => user[v] # NoRow
  BY NoRowIsNothing DEF SetStatus, AccountsInv, TypeOK, Row, User, Exists
<1>2. AdminsInv'
  BY <1>1 DEF AccountsInv, AdminsInv, Exists
<1>3. SessionsInv'
  BY <1>1 DEF SetStatus, AccountsInv, TypeOK, SessionsInv, Exists, Row, Session
<1>4. CallsInv'
  BY <1>1, OthersGoOn DEF SetStatus, tokens
<1>5. TypeOK' /\ LinksInv'
  BY <1>1 DEF SetStatus, AccountsInv, TypeOK, LinksInv, secrets, tokens, people
<1> QED
  BY <1>2, <1>3, <1>4, <1>5 DEF AccountsInv

-----------------------------------------------------------------------------
(* Sessions *)

LEMMA EndLoginKeeps ==
  ASSUME AccountsInv, NEW x \in Calls, NEW s \in Sessions, EndLogin(x, s)
  PROVE  AccountsInv'
<1>1. /\ call[x].user \in Users /\ Exists(call[x].user) /\ user[call[x].user] \in User
      /\ call[x].astray = FALSE /\ call[x].password \in Nat
  BY DEF EndLogin, AccountsInv, TypeOK, CallsInv, Exists, Call, Row
<1>2. session' \in [Sessions -> Row(Session)]
  BY <1>1 DEF EndLogin, Opens, AccountsInv, TypeOK, Session, User, Row
<1>3. SessionsInv'
  BY <1>1 DEF EndLogin, Opens, AccountsInv, TypeOK, SessionsInv, Exists
<1>4. CallsInv'
  BY EndedTypes, OthersGoOn DEF EndLogin, AccountsInv, tokens
<1>5. TypeOK' /\ LinksInv' /\ AdminsInv'
  BY <1>2, EndedTypes DEF EndLogin, AccountsInv, TypeOK, LinksInv, AdminsInv, Exists,
                          secrets, tokens, people
<1> QED
  BY <1>3, <1>4, <1>5 DEF AccountsInv

LEMMA SsoSessionKeeps ==
  ASSUME AccountsInv, NEW s \in Sessions, NEW from \in Arrivals,
         SsoSession(s, from)
  PROVE  AccountsInv'
<1>1. Astray("admin", from) = FALSE
  BY LocalIsLocal DEF SsoSession, Astray
<1>2. session' \in [Sessions -> Row(Session)] /\ SessionsInv'
  BY <1>1 DEF SsoSession, Opens, AccountsInv, TypeOK, SessionsInv, Exists, Session, Row, Roles
<1>3. TypeOK' /\ LinksInv' /\ AdminsInv' /\ CallsInv'
  BY <1>2 DEF SsoSession, AccountsInv, TypeOK, LinksInv, AdminsInv, CallsInv, Doing, Exists,
              secrets, tokens, people
<1> QED
  BY <1>2, <1>3 DEF AccountsInv

LEMMA SessionEndsKeeps ==
  ASSUME AccountsInv, NEW s \in Sessions, SessionEnds(s)
  PROVE  AccountsInv'
<1>1. session' \in [Sessions -> Row(Session)] /\ SessionsInv'
  BY DEF SessionEnds, AccountsInv, TypeOK, SessionsInv, Exists, Row
<1>2. TypeOK' /\ LinksInv' /\ AdminsInv' /\ CallsInv'
  BY <1>1 DEF SessionEnds, AccountsInv, TypeOK, LinksInv, AdminsInv, CallsInv, Doing, Exists,
              secrets, tokens, people
<1> QED
  BY <1>1, <1>2 DEF AccountsInv

-----------------------------------------------------------------------------
(* Links and guardians *)

LEMMA RequestResetKeeps ==
  ASSUME AccountsInv, NEW n \in Names, NEW r \in Resets, RequestReset(n, r)
  PROVE  AccountsInv'
<1>1. PICK u \in Known(n) :
        reset' = [reset EXCEPT ![r] = [user |-> u, state |-> "open", uses |-> 0]]
  BY DEF RequestReset
<1>2. /\ reset' \in [Resets -> Row(Reset)] /\ LinksInv'
      /\ \A q \in Resets : reset[q] # NoRow => reset'[q] # NoRow
  BY <1>1, NoRowIsNothing DEF RequestReset, Known, AccountsInv, TypeOK, LinksInv, Row, Reset
<1>3. CallsInv'
  BY <1>2, OthersGoOn DEF RequestReset
<1>4. TypeOK' /\ SessionsInv' /\ AdminsInv'
  BY <1>2 DEF RequestReset, AccountsInv, TypeOK, SessionsInv, AdminsInv, Exists, secrets, people
<1> QED
  BY <1>2, <1>3, <1>4 DEF AccountsInv

\* A number that is set at one user, if it is one.
LEMMA CountedOn ==
  ASSUME NEW numbers \in [Users -> Nat], NEW u, NEW n, u \in Users => n \in Nat
  PROVE  [numbers EXCEPT ![u] = n] \in [Users -> Nat]
OBVIOUS

\* A row's mark and count are set, and nothing else.
Marked(row, n) == [row EXCEPT !.state = "used", !.uses = n]

LEMMA MarkedIsAReset ==
  ASSUME NEW row \in Reset, NEW n \in Nat
  PROVE  /\ Marked(row, n) \in Reset
         /\ Marked(row, n).uses = n /\ Marked(row, n).state = "used"
BY DEF Marked, Reset

LEMMA EndConfirmKeeps ==
  ASSUME AccountsInv, NEW x \in Calls, EndConfirm(x)
  PROVE  AccountsInv'
<1>1. PICK r \in Resets : r = call[x].reset /\ reset[r] # NoRow
  BY DEF EndConfirm, AccountsInv, TypeOK, CallsInv, Call, Row
<1>2. reset[r] \in Reset /\ reset[r].state = "open" /\ reset[r].uses = 0
  BY <1>1 DEF EndConfirm, AccountsInv, TypeOK, LinksInv, Reset, Row
<1> DEFINE row == Marked(reset[r], 1)
<1>3. reset \in [Resets -> Row(Reset)] /\ reset' = [reset EXCEPT ![r] = row]
  <2>1. reset' = [reset EXCEPT ![r] = Marked(reset[r], reset[r].uses + 1)]
    BY <1>1 DEF EndConfirm, Linked, AccountsInv, TypeOK, Marked
  <2> QED
    BY <1>2, <2>1 DEF AccountsInv, TypeOK
<1>4. row \in Reset /\ row.uses = 1 /\ row.state = "used" /\ row # NoRow
  BY <1>2, MarkedIsAReset, NoRowIsNothing
<1> HIDE DEF row
<1>5. \A q \in Resets : reset'[q] = IF q = r THEN row ELSE reset[q]
  BY <1>3
<1>6. reset' \in [Resets -> Row(Reset)]
  BY <1>3, <1>4 DEF Row
<1>7. LinksInv'
  BY <1>4, <1>5 DEF AccountsInv, LinksInv
<1>8. session' \in [Sessions -> Row(Session)] /\ SessionsInv'
  BY DEF EndConfirm, SignedOut, AccountsInv, TypeOK, SessionsInv, Exists, Row
<1>9. CallsInv'
  BY <1>4, <1>5, EndedTypes, OthersGoOn DEF EndConfirm, AccountsInv
<1>10. password' \in [Users -> Nat] /\ linked' \in [Users -> Nat]
  <2>1. \A u \in Users : password[u] + 1 \in Nat
    BY DEF AccountsInv, TypeOK
  <2> QED
    BY <1>1, <2>1, CountedOn DEF EndConfirm, Linked, Rehashed, AccountsInv, TypeOK
<1>11. TypeOK' /\ AdminsInv'
  BY <1>6, <1>8, <1>10, EndedTypes DEF EndConfirm, AccountsInv, TypeOK, AdminsInv, Exists, people
<1> QED
  BY <1>7, <1>8, <1>9, <1>11 DEF AccountsInv

LEMMA EndReplaceKeeps ==
  ASSUME AccountsInv, NEW x \in Calls, EndReplace(x)
  PROVE  AccountsInv'
<1>1. password' \in [Users -> Nat]
  <2>1. \A u \in Users : password[u] + 1 \in Nat
    BY DEF AccountsInv, TypeOK
  <2> QED
    BY <2>1, CountedOn DEF EndReplace, Rehashed, AccountsInv, TypeOK
<1>2. CallsInv'
  BY EndedTypes, OthersGoOn DEF EndReplace, AccountsInv, tokens
<1>3. TypeOK' /\ LinksInv' /\ SessionsInv' /\ AdminsInv'
  BY <1>1, EndedTypes DEF EndReplace, AccountsInv, TypeOK, LinksInv, SessionsInv, AdminsInv,
                          Exists, tokens, people
<1> QED
  BY <1>2, <1>3 DEF AccountsInv

LEMMA MintInviteKeeps ==
  ASSUME AccountsInv, NEW i \in Invites, NEW g \in Guardians, MintInvite(i, g)
  PROVE  AccountsInv'
<1>1. /\ invite' \in [Invites -> Row(Invite)]
      /\ \A j \in Invites : invite[j] # NoRow => invite'[j] # NoRow
  BY NoRowIsNothing DEF MintInvite, AccountsInv, TypeOK, Row, Invite
<1>2. CallsInv'
  BY <1>1, OthersGoOn DEF MintInvite
<1>3. TypeOK' /\ LinksInv' /\ SessionsInv' /\ AdminsInv'
  BY <1>1 DEF MintInvite, AccountsInv, TypeOK, LinksInv, SessionsInv, AdminsInv, Exists,
              secrets, people
<1> QED
  BY <1>2, <1>3 DEF AccountsInv

LEMMA PutGuardianKeeps ==
  ASSUME AccountsInv, NEW g \in Guardians, NEW email \in Row(Names),
         PutGuardian(g, email)
  PROVE  AccountsInv'
<1>1. TypeOK'
  BY DEF PutGuardian, AccountsInv, TypeOK, secrets, tokens
<1>2. LinksInv' /\ SessionsInv' /\ AdminsInv' /\ CallsInv'
  BY DEF PutGuardian, AccountsInv, LinksInv, SessionsInv, AdminsInv, CallsInv, Doing,
     Exists, tokens
<1> QED
  BY <1>1, <1>2 DEF AccountsInv

-----------------------------------------------------------------------------
(* Invites *)

\* The invites of a guardian that were accepted.
UsedOf(g) == {i \in Invites : invite[i] # NoRow /\ invite[i].guardian = g
                              /\ invite[i].state = "used"}

\* A guardian has no account and has used no invite, or has one of each.
InvitesInv ==
  /\ \A g \in Guardians :
       \/ account[g] = {} /\ UsedOf(g) = {}
       \/ \E u \in Users, i \in Invites : account[g] = {u} /\ UsedOf(g) = {i}
  /\ InRole("parent") = UNION {account[g] : g \in Guardians}
  /\ \A g, h \in Guardians : g # h => account[g] \cap account[h] = {}

LEMMA AsBefore ==
  ASSUME InvitesInv, UNCHANGED account, InRole("parent")' = InRole("parent"),
         \A g \in Guardians : UsedOf(g)' = UsedOf(g)
  PROVE  InvitesInv'
BY DEF InvitesInv

LEMMA NewUserInvites ==
  ASSUME AccountsInv, InvitesInv, NEW u \in Users, ~Exists(u), NEW n, NEW role, role # "parent",
         user' = [user EXCEPT ![u] = [name |-> n, role |-> role, active |-> TRUE]],
         UNCHANGED <<invite, account>>
  PROVE  InvitesInv'
<1>1. user'[u].role = role /\ \A v \in Users : v # u => user'[v] = user[v]
  BY DEF AccountsInv, TypeOK
<1>2. InRole("parent")' = InRole("parent")
  BY <1>1 DEF InRole, Exists
<1>3. \A g \in Guardians : UsedOf(g)' = UsedOf(g)
  BY DEF UsedOf
<1> QED
  BY <1>2, <1>3, AsBefore

LEMMA SetStatusInvites ==
  ASSUME AccountsInv, InvitesInv, NEW u \in Users, NEW active \in BOOLEAN, SetStatus(u, active)
  PROVE  InvitesInv'
<1>1. \A v \in Users : user'[v] # NoRow <=> user[v] # NoRow
  BY NoRowIsNothing DEF SetStatus, AccountsInv, TypeOK, Row, User, Exists
<1>2. \A v \in Users : user[v] # NoRow => user'[v].role = user[v].role
  BY DEF SetStatus, AccountsInv, TypeOK, Row, User
<1>3. InRole("parent")' = InRole("parent")
  BY <1>1, <1>2 DEF InRole, Exists
<1>4. \A g \in Guardians : UsedOf(g)' = UsedOf(g)
  BY DEF SetStatus, UsedOf, tokens
<1> QED
  BY <1>3, <1>4, AsBefore DEF SetStatus, people

LEMMA MintInviteInvites ==
  ASSUME AccountsInv, InvitesInv, NEW i \in Invites, NEW g \in Guardians, MintInvite(i, g)
  PROVE  InvitesInv'
<1>1. /\ invite[i] = NoRow /\ invite'[i].state = "open"
      /\ \A j \in Invites : j # i => invite'[j] = invite[j]
  BY DEF MintInvite, AccountsInv, TypeOK
<1>2. \A h \in Guardians : UsedOf(h)' = UsedOf(h)
  BY <1>1 DEF UsedOf
<1>3. InRole("parent")' = InRole("parent")
  BY DEF MintInvite, InRole, Exists
<1> QED
  BY <1>2, <1>3, AsBefore DEF MintInvite, people

\* The guardian had no account, and so had used no invite, when the transaction ran.
LEMMA EndAcceptInvites ==
  ASSUME AccountsInv, InvitesInv, NEW x \in Calls, NEW u \in Users, NEW s \in Sessions,
         EndAccept(x, u, s)
  PROVE  InvitesInv'
<1>1. PICK i \in Invites : i = call[x].invite /\ invite[i] \in Invite
  BY DEF EndAccept, AccountsInv, TypeOK, CallsInv, Call, Row
<1>2. PICK g \in Guardians : g = invite[i].guardian
  BY <1>1 DEF Invite
<1>3. account[g] = {} /\ UsedOf(g) = {} /\ ~Exists(u)
  BY <1>1, <1>2 DEF EndAccept, Acceptable, InvitesInv
<1>4. \A h \in Guardians : account'[h] = IF h = g THEN {u} ELSE account[h]
  BY <1>1, <1>2, <1>3 DEF EndAccept, AccountsInv, TypeOK
<1>5. /\ invite'[i].state = "used" /\ invite'[i].guardian = g /\ invite'[i] # NoRow
      /\ \A j \in Invites : j # i => invite'[j] = invite[j]
  <2>1. invite' = [invite EXCEPT ![i] = [invite[i] EXCEPT !.state = "used"]]
    BY <1>1 DEF EndAccept, AccountsInv, TypeOK
  <2>2. \A row \in Invite :
          LET new == [row EXCEPT !.state = "used"]
          IN  new \in Invite /\ new.state = "used" /\ new.guardian = row.guardian
    BY DEF Invite
  <2>3. invite'[i] \in Invite /\ invite'[i].state = "used" /\ invite'[i].guardian = g
    BY <1>1, <1>2, <2>1, <2>2 DEF AccountsInv, TypeOK
  <2> QED
    BY <2>1, <2>3, NoRowIsNothing DEF AccountsInv, TypeOK
<1>6. {j \in Invites : invite'[j] # NoRow /\ invite'[j].guardian = g
                       /\ invite'[j].state = "used"} = {i}
  BY <1>3, <1>5 DEF UsedOf
<1>7. \A h \in Guardians : h # g => UsedOf(h)' = UsedOf(h)
  BY <1>1, <1>2, <1>5 DEF UsedOf
<1>8. /\ user'[u] # NoRow /\ user'[u].role = "parent"
      /\ \A v \in Users : v # u => user'[v] = user[v]
  <2>1. call[x].name \in Names
    BY DEF EndAccept, AccountsInv, TypeOK, CallsInv, Call, Row
  <2> QED
    BY <2>1, NewUser DEF EndAccept, Roles
<1>9. InRole("parent")' = InRole("parent") \cup {u}
  BY <1>8 DEF InRole, Exists
<1>10. \A h \in Guardians : u \notin account[h]
  BY <1>3 DEF InvitesInv, InRole
<1>11. InRole("parent")' = UNION {account'[h] : h \in Guardians}
  <2>1. UNION {account'[h] : h \in Guardians} = (UNION {account[h] : h \in Guardians}) \cup {u}
    BY <1>3, <1>4
  <2> QED
    BY <1>9, <2>1 DEF InvitesInv
<1>12. \A h, k \in Guardians : h # k => account'[h] \cap account'[k] = {}
  BY <1>4, <1>10 DEF InvitesInv
<1>13. ASSUME NEW h \in Guardians
       PROVE  \/ account'[h] = {} /\ UsedOf(h)' = {}
              \/ \E v \in Users, j \in Invites : account'[h] = {v} /\ UsedOf(h)' = {j}
  <2>1. CASE h = g
    <3>1. UsedOf(h)' = {i} /\ account'[h] = {u}
      BY <1>4, <1>6, <2>1 DEF UsedOf
    <3> QED
      BY <3>1
  <2>2. CASE h # g
    BY <1>4, <1>7, <2>2 DEF InvitesInv
  <2> QED
    BY <2>1, <2>2
<1> QED
  BY <1>11, <1>12, <1>13 DEF InvitesInv

\* The rest writes neither accounts nor invites.
LEMMA NotAboutInvites ==
  ASSUME InvitesInv, UNCHANGED <<user, invite, account>>
  PROVE  InvitesInv'
BY DEF InvitesInv, InRole, UsedOf, Exists

-----------------------------------------------------------------------------
(* Passwords *)

\* The last password that a link has set is not newer than the one there is.
PasswordsInv == \A u \in Users : linked[u] <= password[u]

LEMMA EndConfirmPasswords ==
  ASSUME AccountsInv, PasswordsInv, NEW x \in Calls, EndConfirm(x)
  PROVE  PasswordsInv'
<1> SUFFICES ASSUME NEW u \in Users
             PROVE  linked'[u] <= password'[u]
  BY DEF PasswordsInv
<1>1. password \in [Users -> Nat] /\ linked \in [Users -> Nat] /\ linked[u] <= password[u]
  BY DEF AccountsInv, TypeOK, PasswordsInv
<1>2. PICK v : /\ password' = [password EXCEPT ![v] = password[v] + 1]
               /\ linked' = [linked EXCEPT ![v] = password[v] + 1]
  BY <1>1 DEF EndConfirm, Linked, Rehashed
<1>3. CASE u = v
  BY <1>1, <1>2, <1>3
<1>4. CASE u # v
  BY <1>1, <1>2, <1>4
<1> QED
  BY <1>3, <1>4

LEMMA EndReplacePasswords ==
  ASSUME AccountsInv, PasswordsInv, NEW x \in Calls, EndReplace(x)
  PROVE  PasswordsInv'
<1> DEFINE v == call[x].user
<1>1. \A u \in Users : /\ password[u] \in Nat /\ linked[u] \in Nat /\ linked'[u] = linked[u]
                      /\ password'[u] = IF u = v THEN password[u] + 1 ELSE password[u]
  BY DEF EndReplace, Rehashed, AccountsInv, TypeOK
<1> HIDE DEF v
<1> QED
  BY <1>1 DEF PasswordsInv

\* A step may make a session outdated only by opening it, for a login that was
\* verifying the password it is opened with.
StayOut ==
  \A s \in Sessions : Outdated(s)' =>
    \/ Outdated(s)
    \/ \E x \in Calls : /\ Doing(x, "login") /\ call'[x] = Idle
                        /\ call[x].user = session'[s].user
                        /\ call[x].password = session'[s].password

\* A session that is opened with the password there is, or for nobody, is not outdated.
LEMMA OpenedIsNotOutdated ==
  ASSUME AccountsInv, PasswordsInv, UNCHANGED linked, NEW t \in Sessions,
         NEW u \in Row(Users), NEW role, NEW pw, NEW astray, Opens(t, u, role, pw, astray),
         u # NoRow => pw = password[u]
  PROVE  StayOut
<1> SUFFICES ASSUME NEW s \in Sessions, Outdated(s)'
             PROVE  Outdated(s)
  BY DEF StayOut
<1>1. CASE s = t
  <2>1. session'[s].user = u /\ session'[s].password = pw
    BY <1>1 DEF Opens, AccountsInv, TypeOK
  <2>2. u # NoRow /\ pw < linked[u]
    BY <2>1 DEF Outdated
  <2>3. u \in Users /\ linked[u] <= pw /\ linked[u] \in Nat /\ pw \in Nat
    BY <2>2 DEF Row, PasswordsInv, AccountsInv, TypeOK
  <2> QED
    BY <2>2, <2>3
<1>2. CASE s # t
  BY <1>2 DEF Opens, AccountsInv, TypeOK, Outdated
<1> QED
  BY <1>1, <1>2

LEMMA EndLoginStaysOut ==
  ASSUME AccountsInv, NEW x \in Calls, NEW t \in Sessions, EndLogin(x, t)
  PROVE  StayOut
<1> SUFFICES ASSUME NEW s \in Sessions, Outdated(s)', ~Outdated(s)
             PROVE  /\ Doing(x, "login") /\ call'[x] = Idle
                    /\ call[x].user = session'[s].user
                    /\ call[x].password = session'[s].password
  BY DEF StayOut
<1>1. UNCHANGED linked
  BY DEF EndLogin, secrets
<1>2. s = t
  BY <1>1 DEF EndLogin, Opens, AccountsInv, TypeOK, Outdated
<1>3. session'[s].user = call[x].user /\ session'[s].password = call[x].password
  BY <1>2 DEF EndLogin, Opens, AccountsInv, TypeOK
<1> QED
  BY <1>3 DEF EndLogin, Ends, AccountsInv, TypeOK

LEMMA EndConfirmStaysOut ==
  ASSUME AccountsInv, NEW x \in Calls, EndConfirm(x)
  PROVE  StayOut
<1> SUFFICES ASSUME NEW s \in Sessions, Outdated(s)'
             PROVE  Outdated(s)
  BY DEF StayOut
<1>1. session'[s] = session[s] /\ session[s] # NoRow /\ session[s].user # call[x].user
  BY DEF Outdated, EndConfirm, SignedOut, SessionsOf
<1>2. linked'[session[s].user] = linked[session[s].user]
  BY <1>1 DEF EndConfirm, Linked, AccountsInv, TypeOK
<1> QED
  BY <1>1, <1>2 DEF Outdated

LEMMA SessionEndsStaysOut ==
  ASSUME AccountsInv, NEW t \in Sessions, SessionEnds(t)
  PROVE  StayOut
BY DEF SessionEnds, StayOut, Outdated, AccountsInv, TypeOK, secrets

LEMMA NothingOpened ==
  ASSUME UNCHANGED <<session, linked>>
  PROVE  StayOut
BY DEF StayOut, Outdated

-----------------------------------------------------------------------------
(* The theorems *)

LEMMA AccountsInvHolds == Spec => []AccountsInv
<1>1. Init => AccountsInv
  <2> SUFFICES ASSUME Init
               PROVE  AccountsInv
    OBVIOUS
  <2>1. TypeOK /\ CallsInv
    BY IdleIsACall DEF Init, TypeOK, CallsInv, Doing, Row
  <2>2. LinksInv /\ SessionsInv /\ AdminsInv
    BY DEF Init, LinksInv, SessionsInv, AdminsInv, Exists
  <2> QED
    BY <2>1, <2>2 DEF AccountsInv
<1>2. AccountsInv /\ [Next]_vars => AccountsInv'
  <2> SUFFICES ASSUME AccountsInv, [Next]_vars
               PROVE  AccountsInv'
    OBVIOUS
  <2>1. CASE UNCHANGED vars
    BY <2>1 DEF vars, secrets, tokens, people, AccountsInv, TypeOK, LinksInv, CallsInv, SessionsInv,
                AdminsInv, Doing, Exists
  <2>2. CASE Next
    BY <2>2, BeginHireKeeps, BeginSetupKeeps, BeginLoginKeeps, BeginConfirmKeeps,
       BeginAcceptKeeps, SetupRefusedKeeps, ConfirmRefusedKeeps, HireFailsKeeps,
       AcceptRefusedKeeps, RestartKeeps, EndSetupKeeps, EndAcceptKeeps,
       EndHireKeeps, SetStatusKeeps, EndLoginKeeps, SsoSessionKeeps,
       SessionEndsKeeps, RequestResetKeeps, EndConfirmKeeps, MintInviteKeeps,
       BeginChangeKeeps, BeginStaffResetKeeps, EndReplaceKeeps,
       PutGuardianKeeps
       DEF Next
  <2> QED
    BY <2>1, <2>2
<1> QED
  BY <1>1, <1>2, PTL DEF Spec

LEMMA InvitesHold == Spec => []InvitesInv
<1>1. Init => InvitesInv
  <2> SUFFICES ASSUME Init
               PROVE  InvitesInv
    OBVIOUS
  <2>1. /\ InRole("parent") = {} /\ \A g \in Guardians : account[g] = {} /\ UsedOf(g) = {}
    BY DEF Init, InRole, UsedOf, Exists
  <2> QED
    BY <2>1 DEF InvitesInv
<1>2. AccountsInv /\ InvitesInv /\ [Next]_vars => InvitesInv'
  <2> SUFFICES ASSUME AccountsInv, InvitesInv, [Next]_vars
               PROVE  InvitesInv'
    OBVIOUS
  <2>1. CASE UNCHANGED vars
    BY <2>1, NotAboutInvites DEF vars, secrets, tokens, people
  <2>2. ASSUME NEW x \in Calls, NEW u \in Users, NEW s \in Sessions, EndSetup(x, u, s)
        PROVE  InvitesInv'
    BY <2>2, NewUserInvites DEF EndSetup, secrets, tokens, people
  <2>3. ASSUME NEW x \in Calls, NEW u \in Users, EndHire(x, u)
        PROVE  InvitesInv'
    BY <2>3, NewUserInvites DEF EndHire, secrets, tokens, people
  <2>4. CASE UNCHANGED <<user, invite, account>>
    BY <2>4, NotAboutInvites
  <2>5. CASE Next
    BY <2>2, <2>3, <2>4, <2>5, EndAcceptInvites, SetStatusInvites, MintInviteInvites
       DEF Next, secrets, tokens, people, BeginHire, BeginSetup, BeginLogin, BeginConfirm, BeginAccept,
           SetupRefused, ConfirmRefused, HireFails, AcceptRefused, Restart,
           EndLogin, SsoSession, SessionEnds, RequestReset, EndConfirm,
           BeginChange, BeginStaffReset, EndReplace, PutGuardian
  <2> QED
    BY <2>1, <2>5
<1> QED
  BY <1>1, <1>2, AccountsInvHolds, PTL DEF Spec

\* Every row of every table, and what every handler has read, is of its type.
THEOREM AccountsTypeCorrect == Spec => []TypeOK
BY AccountsInvHolds, PTL DEF AccountsInv

\* However many first runs overlap, and whatever else is done, one admin is made
\* (setup's transaction, and staff.create that makes finance users only).
THEOREM OneAdminHolds == Spec => []OneAdmin
<1>1. AccountsInv => OneAdmin
  <2> SUFFICES ASSUME AccountsInv
               PROVE  Cardinality(InRole("admin")) <= 1
    BY DEF OneAdmin
  <2>1. \A u, v \in InRole("admin") : u = v
    BY DEF AccountsInv, AdminsInv, InRole
  <2>2. InRole("admin") = {} \/ \E u : InRole("admin") = {u}
    BY <2>1
  <2> QED
    BY <2>2, FS_EmptySet, FS_Singleton
<1> QED
  BY <1>1, AccountsInvHolds, PTL

\* One guardian, one account, one invite spent on it: for any guardians, and any
\* number of invites that are open and accepted at once (mintInvite, inviteAccept).
THEOREM AccountsMatchInvitesHolds == Spec => []AccountsMatchInvites
<1>1. InvitesInv => AccountsMatchInvites
  <2> SUFFICES ASSUME InvitesInv
               PROVE  AccountsMatchInvites
    OBVIOUS
  <2>1. ASSUME NEW g \in Guardians
        PROVE  Cardinality(account[g]) <= 1 /\ Cardinality(account[g]) = Cardinality(UsedOf(g))
    <3>1. CASE account[g] = {} /\ UsedOf(g) = {}
      BY <3>1, FS_EmptySet
    <3>2. ASSUME NEW u, NEW i, account[g] = {u} /\ UsedOf(g) = {i}
          PROVE  Cardinality(account[g]) = 1 /\ Cardinality(UsedOf(g)) = 1
      BY <3>2, FS_Singleton
    <3> QED
      BY <3>1, <3>2 DEF InvitesInv
  <2> QED
    BY <2>1 DEF InvitesInv, AccountsMatchInvites, UsedOf
<1> QED
  BY <1>1, InvitesHold, PTL

\* A reset link sets one password at most, however many handlers hash one for it
\* at a time (resetConfirm's transaction).
THEOREM LinksWorkOnceHolds == Spec => []LinksWorkOnce
<1>1. AccountsInv => LinksWorkOnce
  BY DEF AccountsInv, LinksInv, LinksWorkOnce
<1> QED
  BY <1>1, AccountsInvHolds, PTL

LEMMA PasswordsHold == Spec => []PasswordsInv
<1>1. Init => PasswordsInv
  BY DEF Init, PasswordsInv
<1>2. AccountsInv /\ PasswordsInv /\ [Next]_vars => PasswordsInv'
  <2> SUFFICES ASSUME AccountsInv, PasswordsInv, [Next]_vars
               PROVE  PasswordsInv'
    OBVIOUS
  <2>1. CASE UNCHANGED secrets
    BY <2>1 DEF secrets, PasswordsInv
  <2>2. CASE UNCHANGED vars
    BY <2>1, <2>2 DEF vars
  <2>3. CASE Next
    BY <2>1, <2>3, EndConfirmPasswords, EndReplacePasswords
       DEF Next, BeginHire, BeginSetup, BeginLogin, BeginConfirm, BeginAccept,
           BeginChange, BeginStaffReset, SetupRefused, ConfirmRefused, HireFails, AcceptRefused,
           Restart, EndSetup, EndAccept, EndHire, EndLogin, SetStatus, SsoSession, SessionEnds,
           RequestReset, MintInvite, PutGuardian
  <2> QED
    BY <2>2, <2>3
<1> QED
  BY <1>1, <1>2, AccountsInvHolds, PTL DEF Spec

\* After a reset by link no session is opened with the password it replaced or an
\* older one, nor stays open, but those of logins that were verifying it: for any
\* number of logins, resets and changes under way (login, resetConfirm,
\* changePassword, staff.resetPassword).
THEOREM ResetSignsOutHolds == Spec => ResetSignsOut
<1>1. ASSUME AccountsInv, PasswordsInv, Next
      PROVE  StayOut
  <2>1. ASSUME NEW x \in Calls, NEW u \in Users, NEW s \in Sessions, EndSetup(x, u, s)
        PROVE  StayOut
    BY <1>1, <2>1, OpenedIsNotOutdated DEF EndSetup, secrets, Row
  <2>2. ASSUME NEW x \in Calls, NEW u \in Users, NEW s \in Sessions, EndAccept(x, u, s)
        PROVE  StayOut
    BY <1>1, <2>2, OpenedIsNotOutdated DEF EndAccept, secrets, Row
  <2>3. ASSUME NEW s \in Sessions, NEW from \in Arrivals, SsoSession(s, from)
        PROVE  StayOut
    BY <1>1, <2>3, OpenedIsNotOutdated DEF SsoSession, secrets, Row
  <2>4. CASE UNCHANGED <<session, linked>>
    BY <2>4, NothingOpened
  <2> QED
    BY <1>1, <2>1, <2>2, <2>3, <2>4, EndLoginStaysOut, EndConfirmStaysOut, SessionEndsStaysOut
       DEF Next, secrets, BeginHire, BeginSetup, BeginLogin, BeginConfirm, BeginAccept,
           BeginChange, BeginStaffReset, EndReplace, SetupRefused, ConfirmRefused, HireFails,
           AcceptRefused, Restart, EndHire, SetStatus, RequestReset, MintInvite, PutGuardian
<1>2. AccountsInv /\ PasswordsInv /\ [Next]_vars => [StayOut]_vars
  BY <1>1
<1>3. Spec => [][StayOut]_vars
  <2> HIDE DEF StayOut
  <2> QED
    BY <1>2, AccountsInvHolds, PasswordsHold, PTL DEF Spec
<1> QED
  BY <1>3 DEF ResetSignsOut, StayOut

\* For any addresses, proxied or not: an admin's session is opened on the local
\* network only, and every session has the role of its user.
THEOREM AdminsAreLocalHolds == Spec => []AdminsAreLocal
<1>1. AccountsInv => AdminsAreLocal
  BY DEF AccountsInv, SessionsInv, AdminsAreLocal
<1> QED
  BY <1>1, AccountsInvHolds, PTL
=============================================================================
