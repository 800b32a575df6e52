------------------------------ MODULE Limiter ------------------------------
(***************************************************************************)
(* The limiter of failed attempts (security/rateLimit.ts, LoginLimiter):   *)
(* logins, invite and reset tokens by address, name-and-PIN lookups by PIN.*)
(*                                                                         *)
(* A handler asks whether its key may try, verifies what it was given and  *)
(* counts the outcome.  A login verifies across an await, so that any      *)
(* number of attempts may be let in before the first of them is counted; a *)
(* lookup does not, and is the case of one call at a time.                 *)
(*                                                                         *)
(* Time is the lapse of an entry: a block and its window end together, and *)
(* an entry whose window is over counts for nothing until it is replaced,  *)
(* although it keeps its place in the map.                                 *)
(***************************************************************************)
EXTENDS Integers, FiniteSets, Sequences

CONSTANTS
  Keys,         \* addresses, or PINs as supplied
  Attempts,        \* attempts that may overlap (a bound)
  MaxFailures,
  MaxKeys,      \* entries the map may hold
  NoKey

\* What the theorems assume of the constants.
LimiterAssumption ==
  /\ IsFiniteSet(Attempts) /\ NoKey \notin Keys
  /\ MaxFailures \in Nat \ {0} /\ MaxKeys \in Nat \ {0}

VARIABLES
  hits,      \* what the entry of a key amounts to now
  order,     \* the keys of the map, oldest entry first
  attempt,   \* the key each call under way was let in with
  wrong      \* failures of a key since it last started afresh; not in the code

limiterVars == <<hits, order, attempt, wrong>>

Fresh == [count |-> 0, blocked |-> FALSE]
Keyed == {order[i] : i \in DOMAIN order}

LimiterTypeOK ==
  /\ hits \in [Keys -> [count : 0 .. MaxFailures - 1, blocked : BOOLEAN]]
  /\ order \in Seq(Keys) /\ Len(order) <= MaxKeys
  /\ attempt \in [Attempts -> Keys \cup {NoKey}]
  /\ wrong \in [Keys -> Nat]

LimiterInit ==
  /\ hits = [k \in Keys |-> Fresh]
  /\ order = << >>
  /\ attempt = [c \in Attempts |-> NoKey]
  /\ wrong = [k \in Keys |-> 0]

Leaves(c) == attempt' = [attempt EXCEPT ![c] = NoKey]

\* Fault: a blocked key is let in.
LetIn_Always(c, k) ==
  /\ attempt[c] = NoKey
  /\ attempt' = [attempt EXCEPT ![c] = k]
  /\ UNCHANGED <<hits, order, wrong>>

\* retryAfterMs says 0.
LetIn(c, k) ==
  /\ attempt[c] = NoKey /\ ~hits[k].blocked
  /\ attempt' = [attempt EXCEPT ![c] = k]
  /\ UNCHANGED <<hits, order, wrong>>

\* Fault: the failure that would fill the count blocks already.
Counted_Early(e) ==
  [count   |-> IF e.count + 1 >= MaxFailures THEN 0 ELSE e.count + 1,
   blocked |-> e.blocked \/ e.count + 2 >= MaxFailures]

\* One more failure; at the limit the key is blocked and counted from 0 again.
Counted(e) ==
  [count   |-> IF e.count + 1 >= MaxFailures THEN 0 ELSE e.count + 1,
   blocked |-> e.blocked \/ e.count + 1 >= MaxFailures]

Entered(k) == IF k \in Keyed THEN order ELSE Append(order, k)

\* fail; a map that grew past its limit drops its oldest entry, and with it a
\* count or a block.
Fails(c) ==
  LET k == attempt[c]
      over == Len(Entered(k)) > MaxKeys
      gone == IF over THEN {Head(Entered(k))} ELSE {}
  IN
  /\ k # NoKey
  /\ order' = IF over THEN Tail(Entered(k)) ELSE Entered(k)
  /\ hits' = [x \in Keys |-> IF x \in gone THEN Fresh
                             ELSE IF x = k THEN Counted(hits[x]) ELSE hits[x]]
  /\ wrong' = [x \in Keys |-> IF x \in gone THEN 0
                              ELSE IF x = k THEN wrong[x] + 1 ELSE wrong[x]]
  /\ Leaves(c)

\* succeed, which lifts a block that others' failures earned meanwhile.
Succeeds(c) ==
  LET k == attempt[c] IN
  /\ k # NoKey
  /\ hits' = [hits EXCEPT ![k] = Fresh]
  /\ wrong' = [wrong EXCEPT ![k] = 0]
  /\ \/ k \notin Keyed /\ UNCHANGED order
     \/ \E i \in DOMAIN order :
          /\ order[i] = k
          /\ order' = SubSeq(order, 1, i - 1) \o SubSeq(order, i + 1, Len(order))
  /\ Leaves(c)

\* The handler refuses for another reason, and counts nothing.
GivesUp(c) ==
  /\ attempt[c] # NoKey
  /\ Leaves(c)
  /\ UNCHANGED <<hits, order, wrong>>

\* The window of k's entry is over, and its block with it.
Lapses(k) ==
  /\ hits' = [hits EXCEPT ![k] = Fresh]
  /\ wrong' = [wrong EXCEPT ![k] = 0]
  /\ UNCHANGED <<order, attempt>>

\* The map is the process's own.
LimiterRestarts ==
  /\ hits' = [k \in Keys |-> Fresh]
  /\ order' = << >>
  /\ attempt' = [c \in Attempts |-> NoKey]
  /\ wrong' = [k \in Keys |-> 0]

LimiterNext ==
  \/ \E c \in Attempts, k \in Keys : LetIn(c, k)
  \/ \E c \in Attempts : Fails(c) \/ Succeeds(c) \/ GivesUp(c)
  \/ \E k \in Keys : Lapses(k)
  \/ LimiterRestarts

LimiterSpec == LimiterInit /\ [][LimiterNext]_limiterVars
-----------------------------------------------------------------------------
(* Properties *)

\* However attempts overlap, a key fails no more often than the limit and the
\* attempts that can have been let in before the last of those failures.
GuessesAreLimited ==
  \A k \in Keys : wrong[k] <= MaxFailures + Cardinality(Attempts) - 1

\* A key is blocked by failures of its own, as many as the limit: an entry the
\* map drops forgives, and takes nothing out on the entries that stay.
BlockedByItsOwn ==
  \A k \in Keys : hits[k].blocked => wrong[k] >= MaxFailures
=============================================================================
