------------------------------- MODULE MCDesk -------------------------------
(***************************************************************************)
(* The accounts, the office, the guardians, the limiter, the paying page   *)
(* and the browser's screens side by side, for TLC.  They share no state,  *)
(* so whatever one of them can reach it reaches with the others at rest:   *)
(* the part that moves is chosen at the start, and the states to visit are *)
(* the sum of theirs and not the product.                                  *)
(***************************************************************************)
EXTENDS Accounts, Office, Guardians, Limiter, PayPage, Screens, TLC

CONSTANTS
  ann, bob,
  Parts        \* the parts to check

VARIABLE part  \* the part that moves

\* What the theorems about the parts assume, of the constants given to them here.
ASSUME PartsAssumption == OfficeAssumption /\ GuardiansAssumption /\ LimiterAssumption

accountsVars == vars

DeskInit ==
  /\ Init /\ OfficeInit /\ GuardiansInit /\ LimiterInit /\ PageInit /\ ScreensInit
  /\ part \in Parts
  /\ part # "screens" =>
       populated /\ visit = [origin |-> "lan", prefixed |-> FALSE, vouched |-> FALSE]

DeskNext ==
  \/ /\ part = "accounts" /\ Next
     /\ UNCHANGED <<officeVars, guardiansVars, limiterVars, pageVars, screensVars, part>>
  \/ /\ part = "office" /\ OfficeNext
     /\ UNCHANGED <<accountsVars, guardiansVars, limiterVars, pageVars, screensVars, part>>
  \/ /\ part = "guardians" /\ GuardiansNext
     /\ UNCHANGED <<accountsVars, officeVars, limiterVars, pageVars, screensVars, part>>
  \/ /\ part = "limiter" /\ LimiterNext
     /\ UNCHANGED <<accountsVars, officeVars, guardiansVars, pageVars, screensVars, part>>
  \/ /\ part = "page" /\ PageNext
     /\ UNCHANGED <<accountsVars, officeVars, guardiansVars, limiterVars, screensVars, part>>
  \/ /\ part = "screens" /\ ScreensNext
     /\ UNCHANGED <<accountsVars, officeVars, guardiansVars, limiterVars, pageVars, part>>

DeskSpec ==
  DeskInit /\ [][DeskNext]_<<accountsVars, officeVars, guardiansVars, limiterVars,
                            pageVars, screensVars, part>>

\* The names are in lower case, as the accounts of parents are.
LowerCase == [n \in Names |-> n]

\* None, one that is more than most bills, and one in percent with a rounding.
SomeDiscounts ==
  {[kind |-> "none", value |-> 0], [kind |-> "fixed", value |-> 4],
   [kind |-> "percent", value |-> 5000]}

\* Rows of different parts go by the same pairs of values, so that each part has
\* its own symmetry at the price of one.  The limiter and the screens are small
\* without.
Symmetry == UNION {Permutations(Rows) : Rows \in {Users, Invites, Guardians, Calls}}

\* A bound: passwords are replaced otherwise than by a link only while no guardian
\* has an address and no invite was made (the two have nothing but users in common).
InvitesOrReplacements ==
  (\E x \in Calls : Doing(x, "replace")) \/ (\E u \in Users : password[u] > linked[u])
     => invite = [i \in Invites |-> NoRow] /\ guardian = [g \in Guardians |-> NoRow]

\* Every variable of every part is of its type.
DeskTypeOK ==
  TypeOK /\ OfficeTypeOK /\ GuardiansTypeOK /\ LimiterTypeOK /\ PageTypeOK /\ ScreensTypeOK
=============================================================================
