------------------------------ MODULE Screens ------------------------------
(***************************************************************************)
(* What a browser shows of its session (App.tsx and the routes Login,      *)
(* Setup, ChangePassword, InviteAccept, ResetPassword, SelfRegister and    *)
(* ProfileMenu): the gate decides by a cached answer of auth.session,      *)
(* which is asked again when the page loads and when a call of its own     *)
(* invalidates it, and never otherwise.                                    *)
(*                                                                         *)
(* The cookie of a new session comes with the answer to the call that      *)
(* opened it, so a lost answer leaves the browser signed out.              *)
(***************************************************************************)
EXTENDS Requests

VARIABLES
  who,        \* the role of the session behind the browser's cookie
  must,       \* must its user change the password first?
  populated,  \* does any user exist?
  visit,      \* how this page was loaded
  place,      \* the path, by what it stands for
  cached,     \* the last answer of auth.session
  query,      \* the one on its way
  pressed,    \* the form or button that is waiting
  behind      \* something happened that the page cannot know; not in the code

server == <<who, must, populated>>
page   == <<visit, place>>
asked  == <<cached, query>>
screensVars == <<server, page, asked, pressed, behind>>

\* vouched is whether the platform vouches for an admin in this browser, and
\* prefixed whether the app is served under a path of the tunnel's.
Visit  == {v \in [origin : {"lan", "tunnel"}, prefixed : BOOLEAN, vouched : BOOLEAN] :
             v.prefixed => v.origin = "tunnel"}
\* cookie is whether the answer brings a session that was made for it.
Answer == [who : Roles \cup {"nobody", "loading", "failed", "idle", "asked"},
           must : BOOLEAN, setup : BOOLEAN, cookie : BOOLEAN]
Forms  == {"none", "login", "setup", "change", "logout", "accept", "reset"}

ScreensTypeOK ==
  /\ who \in Roles \cup {"nobody"} /\ must \in BOOLEAN /\ populated \in BOOLEAN
  /\ visit \in Visit
  /\ place \in {"app", "invite", "reset", "register", "outside"}
  /\ cached \in Answer /\ cached.who \notin {"idle", "asked"}
  /\ query \in Answer /\ query.who \notin {"loading", "failed"}
  /\ pressed \in [does : Forms, as : Roles, state : {"sent", "done"}]
  /\ behind \in BOOLEAN

\* Something other than an answer in an answer's place.
No(what) == [who |-> what, must |-> FALSE, setup |-> FALSE, cookie |-> FALSE]
NoForm == [does |-> "none", as |-> "parent", state |-> "sent"]

ScreensInit ==
  /\ who = "nobody" /\ must = FALSE /\ populated \in BOOLEAN
  /\ visit \in Visit /\ place = "app"
  /\ cached = No("loading") /\ query = No("asked")
  /\ pressed = NoForm /\ behind = FALSE

-----------------------------------------------------------------------------
(* The session query and the gate *)

\* The platform is asked about visitors of the local network only.
Vouches == visit.origin = "lan" /\ visit.vouched

\* auth.session, given the platform's word: with it, a browser without a session is
\* given an admin's.  Such a cookie is worth nothing over the tunnel.
Says(word) ==
  CASE who = "nobody" /\ word ->
         [who |-> "admin", must |-> FALSE, setup |-> FALSE, cookie |-> TRUE]
    [] who = "nobody" /\ ~word -> [No("nobody") EXCEPT !.setup = ~populated]
    [] who # "nobody" /\ ~AllowedFrom(who, visit.origin) -> No("nobody")
    [] who # "nobody" /\ AllowedFrom(who, visit.origin) ->
         [No(who) EXCEPT !.must = must]

\* The screen App chooses for an answer.
Gate(answer) ==
  CASE answer.who = "loading" -> "connecting"
    [] answer.who = "failed" -> "login"
    [] answer.must -> "change"
    [] answer.who \in Roles /\ ~answer.must -> answer.who
    [] answer.setup -> IF visit.origin = "tunnel" THEN "notice" ELSE "setup"
    [] answer.who = "nobody" /\ ~answer.setup -> "login"

\* The pages reached by a mailed link come before the gate.
Screen == IF place = "app" THEN Gate(cached) ELSE place

\* The platform may be out of reach, and is then as good as silent.
Ask ==
  /\ query = No("asked")
  /\ \E word \in {Vouches, FALSE} :
       query' = Says(word) /\ behind' = (who = "nobody" /\ word # Vouches)
  /\ UNCHANGED <<server, page, cached, pressed>>

Arrives ==
  /\ query \notin {No("idle"), No("asked")}
  /\ cached' = [query EXCEPT !.cookie = FALSE] /\ query' = No("idle")
  /\ who' = IF query.cookie THEN "admin" ELSE who
  /\ must' = (must /\ ~query.cookie)
  /\ UNCHANGED <<populated, page, pressed, behind>>

\* It is not tried again.
QueryFails ==
  /\ query # No("idle")
  /\ cached' = No("failed") /\ query' = No("idle") /\ behind' = TRUE
  /\ UNCHANGED <<server, page, pressed>>

-----------------------------------------------------------------------------
(* Forms and buttons *)

Submits(screen, what, role) ==
  /\ Screen = screen /\ pressed = NoForm
  /\ pressed' = [does |-> what, as |-> role, state |-> "sent"]
  /\ UNCHANGED <<server, page, asked, behind>>

Login(role) == populated /\ AllowedFrom(role, visit.origin) /\ Submits("login", "login", role)
Setup  == Submits("setup", "setup", "admin")
Change == who # "nobody" /\ Submits("change", "change", who)
Logout == \E role \in Roles : Submits(role, "logout", role)
Accept == Submits("invite", "accept", "parent")
NewPassword  == Submits("reset", "reset", "parent")

\* The server does what it was asked; a session it opened is not the browser's yet.
\* A reset ends this browser's session when it is of the same user.
Serves ==
  /\ pressed.does # "none" /\ pressed.state = "sent"
  /\ pressed.does = "setup" => ~populated
  /\ pressed.does = "change" => who # "nobody"
  /\ pressed' = [pressed EXCEPT !.state = "done"]
  /\ \/ pressed.does \in {"logout", "reset"} /\ who' = "nobody"
     \/ pressed.does # "logout" /\ UNCHANGED who
  /\ must' = (must /\ who' # "nobody" /\ pressed.does # "change")
  /\ populated' = (populated \/ pressed.does = "setup")
  /\ UNCHANGED <<page, asked, behind>>

\* The browser is signed in as role, unless a question that is dropped was answered
\* with a session of its own; first is whether the password must be changed.
SignsIn(role, first) ==
  \/ who' = role /\ must' = first
  \/ query.cookie /\ who' = "admin" /\ must' = FALSE

SignedIn ==
  IF pressed.does = "change" THEN SignsIn(who, must)
  ELSE \E first \in BOOLEAN :
         (first => pressed.does = "login") /\ SignsIn(pressed.as, first)

\* Fault: a changed password does not have the session asked for again.
Answered_ChangeKeepsCache ==
  /\ pressed.does \in {"login", "setup", "change"} /\ pressed.state = "done"
  /\ SignedIn
  /\ query' = IF pressed.does = "change" THEN query ELSE No("asked")
  /\ pressed' = NoForm
  /\ UNCHANGED <<populated, page, cached, behind>>

\* The answer to a form: it has the session asked for again, and a question that
\* was on its way is dropped.
Answered ==
  /\ pressed.does \in {"login", "setup", "change"} /\ pressed.state = "done"
  /\ SignedIn
  /\ query' = No("asked")
  /\ pressed' = NoForm
  /\ UNCHANGED <<populated, page, cached, behind>>

\* The form is refused, or its answer does not come: an error under the form, and
\* nobody asks for the session.
Errs ==
  /\ pressed.does \in {"login", "setup", "change", "accept", "reset"}
  /\ pressed' = NoForm
  /\ behind' = (behind \/ pressed.state = "done")
  /\ UNCHANGED <<server, page, asked>>

\* onSettled: answered or not, the session is asked for again.
LogoutSettles ==
  /\ pressed.does = "logout"
  /\ SignsIn(who, must)
  /\ query' = No("asked")
  /\ pressed' = NoForm
  /\ UNCHANGED <<populated, page, cached, behind>>

\* A password set by a link: the page says so, and offers a link back to the app.
ResetAnswered ==
  /\ pressed.does = "reset" /\ pressed.state = "done"
  /\ pressed' = NoForm
  /\ UNCHANGED <<server, page, asked, behind>>

\* A new page: nothing is kept but the cookie.
Loads(there) ==
  /\ place' = there /\ cached' = No("loading") /\ query' = No("asked") /\ pressed' = NoForm

\* The accepted invite goes to "/", whatever the app is served under.
AcceptAnswered ==
  /\ pressed.does = "accept" /\ pressed.state = "done"
  /\ SignsIn("parent", FALSE)
  /\ Loads(IF visit.prefixed THEN "outside" ELSE "app")
  /\ UNCHANGED <<populated, visit, behind>>

\* A link of the app's, a mailed one or the address bar.
Load(there, how) ==
  /\ visit' = how
  /\ Loads(there)
  /\ UNCHANGED <<server, behind>>

-----------------------------------------------------------------------------
(* What happens elsewhere *)

\* The session expires, is ended by a reset link, or its user is disabled.
SignedOutElsewhere ==
  /\ who # "nobody"
  /\ who' = "nobody" /\ must' = FALSE /\ behind' = TRUE
  /\ UNCHANGED <<populated, page, asked, pressed>>

\* staff.resetPassword, of whichever user.
PasswordIsReset ==
  /\ who # "nobody" /\ must' = TRUE /\ behind' = TRUE
  /\ UNCHANGED <<who, populated, page, asked, pressed>>

\* Somebody else completes the first run.
SetupElsewhere ==
  /\ ~populated /\ populated' = TRUE /\ behind' = TRUE
  /\ UNCHANGED <<who, must, page, asked, pressed>>

ScreensNext ==
  \/ Ask \/ Arrives \/ QueryFails
  \/ \E role \in Roles : Login(role)
  \/ Setup \/ Change \/ Logout \/ Accept \/ NewPassword
  \/ Serves \/ Answered \/ Errs \/ LogoutSettles \/ AcceptAnswered \/ ResetAnswered
  \/ \E there \in {"app", "invite", "reset", "register"}, how \in Visit : Load(there, how)
  \/ SignedOutElsewhere \/ PasswordIsReset \/ SetupElsewhere

ScreensSpec == ScreensInit /\ [][ScreensNext]_screensVars
-----------------------------------------------------------------------------
(* Properties *)

\* When nothing is under way and nothing happened that the page cannot know, it
\* shows what the server would have it show, whatever it did to get there and
\* whichever of its calls crossed.
ScreenIsCurrent ==
  place = "app" /\ query = No("idle") /\ pressed = NoForm /\ ~behind => Screen = Gate(Says(Vouches))

\* The URLs the client builds keep the prefix (base.ts); the app is never left.
StaysInTheApp == place # "outside"
=============================================================================
