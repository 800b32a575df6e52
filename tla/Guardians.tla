----------------------------- MODULE Guardians -----------------------------
(***************************************************************************)
(* Guardians, the families they are linked to and what their accounts see  *)
(* (trpc/people.ts, trpc/familyAccess.ts, and the doors by which a         *)
(* guardian comes to an account: auth/invites.ts, trpc/auth.ts).           *)
(*                                                                         *)
(* An account belongs to a guardian and sees whatever families he is       *)
(* linked to at the moment; it goes by the address he had when he made it. *)
(* Addresses are compared in lower case, and are given so here.            *)
(***************************************************************************)
EXTENDS Integers, Rows   \* its families exist

CONSTANTS
  Contacts,   \* rows there can be (a bound)
  Emails,     \* e-mail addresses
  NoEmail

\* What the theorems assume of the constants.
GuardiansAssumption == NoRow \notin Emails \cup {NoEmail} /\ NoEmail \notin Emails

VARIABLES
  person,     \* guardians: the address on file
  link,       \* guardian_families
  contact,    \* emergency_contacts: the family of each
  login,      \* guardian_users: the username of a guardian's account
  invited,    \* guardians with an invite still open
  letGo       \* guardians the office took off their last family; not in the code

guardiansVars == <<person, link, contact, login, invited, letGo>>
door          == <<login, invited, letGo>>

GuardiansTypeOK ==
  /\ person \in [Guardians -> Emails \cup {NoEmail, NoRow}]
  /\ link \subseteq Guardians \X Families
  /\ contact \in [Contacts -> Families \cup {NoRow}]
  /\ login \in [Guardians -> Emails \cup {NoRow}]
  /\ invited \subseteq Guardians /\ letGo \subseteq Guardians

-----------------------------------------------------------------------------
(* Reading the tables *)

OnFile(g) == person[g] # NoRow

\* directory and familyGet: guardians appear under the families they are linked to.
Listed(f) == {g \in Guardians : OnFile(g) /\ <<g, f>> \in link}

\* familyIdsForUser
FamiliesOf(name) == {f \in Families : \E g \in Guardians : login[g] = name /\ <<g, f>> \in link}

\* guardianEmailsForFamily: where a family's receipts go.
ReceiptsGoTo(f) == {person[g] : g \in Listed(f)} \ {NoEmail}

\* mintInvite's conditions, which inviteAccept asks again.
Invitable(g) ==
  /\ OnFile(g) /\ person[g] # NoEmail /\ login[g] = NoRow
  /\ \A h \in Guardians : login[h] # person[g]

\* The guardians register finds for a child of f and an address.
Matches(f, email) == {g \in Listed(f) : person[g] = email}

GuardiansInit ==
  /\ person = [g \in Guardians |-> NoRow]
  /\ link = {}
  /\ contact = [c \in Contacts |-> NoRow]
  /\ login = [g \in Guardians |-> NoRow]
  /\ invited = {} /\ letGo = {}

-----------------------------------------------------------------------------
(* The office *)

\* Fault: two statements, and the process may die between them.
GuardianCreate_InTwo(g, f, email) ==
  /\ ~OnFile(g)
  /\ person' = [person EXCEPT ![g] = email]
  /\ link' \in {link, link \cup {<<g, f>>}}
  /\ UNCHANGED <<contact, door>>

\* One transaction.
GuardianCreate(g, f, email) ==
  /\ ~OnFile(g)
  /\ person' = [person EXCEPT ![g] = email]
  /\ link' = link \cup {<<g, f>>}
  /\ UNCHANGED <<contact, door>>

GuardianUpdate(g, email) ==
  /\ OnFile(g)
  /\ person' = [person EXCEPT ![g] = email]
  /\ UNCHANGED <<link, contact, door>>

GuardianLinkFamily(g, f) ==
  /\ OnFile(g) /\ <<g, f>> \notin link
  /\ link' = link \cup {<<g, f>>}
  /\ letGo' = letGo \ {g}
  /\ UNCHANGED <<person, contact, login, invited>>

\* A guardian's last family is not treated differently.
GuardianUnlinkFamily(g, f) ==
  /\ <<g, f>> \in link
  /\ link' = link \ {<<g, f>>}
  /\ letGo' = IF \E e \in Families \ {f} : <<g, e>> \in link THEN letGo ELSE letGo \cup {g}
  /\ UNCHANGED <<person, contact, login, invited>>

EmergencyContactAdd(c, f) ==
  /\ contact[c] = NoRow
  /\ contact' = [contact EXCEPT ![c] = f]
  /\ UNCHANGED <<person, link, door>>

EmergencyContactRemove(c) ==
  /\ contact[c] # NoRow
  /\ contact' = [contact EXCEPT ![c] = NoRow]
  /\ UNCHANGED <<person, link, door>>

-----------------------------------------------------------------------------
(* The ways to an account *)

InviteCreate(g) ==
  /\ Invitable(g)
  /\ invited' = invited \cup {g}
  /\ UNCHANGED <<person, link, contact, login, letGo>>

\* register, for somebody who knows the name and the PIN of a child of f: the
\* first guardian found is invited, if he may be.
Register(f, email) ==
  /\ \E g \in Matches(f, email) : Invitable(g) /\ invited' = invited \cup {g}
  /\ UNCHANGED <<person, link, contact, login, letGo>>

\* Fault: whether the address has become an account's meanwhile is not asked again.
InviteAccept_NotAskedAgain(g) ==
  /\ g \in invited /\ OnFile(g) /\ person[g] # NoEmail /\ login[g] = NoRow
  /\ login' = [login EXCEPT ![g] = person[g]]
  /\ invited' = invited \ {g}
  /\ UNCHANGED <<person, link, contact, letGo>>

\* inviteAccept: the address on file by now is the account's name.
InviteAccept(g) ==
  /\ g \in invited /\ Invitable(g)
  /\ login' = [login EXCEPT ![g] = person[g]]
  /\ invited' = invited \ {g}
  /\ UNCHANGED <<person, link, contact, letGo>>

GuardiansNext ==
  \/ \E g \in Guardians, f \in Families, email \in Emails \cup {NoEmail} :
       GuardianCreate(g, f, email)
  \/ \E g \in Guardians, email \in Emails \cup {NoEmail} : GuardianUpdate(g, email)
  \/ \E g \in Guardians, f \in Families :
       GuardianLinkFamily(g, f) \/ GuardianUnlinkFamily(g, f)
  \/ \E c \in Contacts, f \in Families : EmergencyContactAdd(c, f)
  \/ \E c \in Contacts : EmergencyContactRemove(c)
  \/ \E g \in Guardians : InviteCreate(g) \/ InviteAccept(g)
  \/ \E f \in Families, email \in Emails : Register(f, email)

GuardiansSpec == GuardiansInit /\ [][GuardiansNext]_guardiansVars
-----------------------------------------------------------------------------
(* Properties *)

\* Nobody drops out of sight: the directory, the only way to find a guardian,
\* lists him under some family, unless the office took him off his last one.
NobodyIsLost ==
  \A g \in Guardians : OnFile(g) => g \in letGo \/ \E f \in Families : g \in Listed(f)

\* Whoever signs in by an account's name sees the families of the guardian who made
\* it, all of them and no others', although several guardians may have one address on
\* file and addresses are exchanged while invites are open.
AccountsSeeTheirOwn ==
  \A g \in Guardians : login[g] # NoRow =>
    FamiliesOf(login[g]) = {f \in Families : <<g, f>> \in link}
=============================================================================
