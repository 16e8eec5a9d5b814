------------------------------ MODULE Sessions ------------------------------
(***************************************************************************)
(* The sessions of one user: login, refresh, logoutAll and changePassword  *)
(* (auth.service.ts), and the password resets of an administrator          *)
(* (resetUserPassword and updateUser in user.service.ts).                  *)
(*                                                                         *)
(* A refresh token carries the tokenVersion it was issued with; an access  *)
(* token is checked against nothing but its expiry.  Both are followed as  *)
(* what some client holds.  Handlers hash and compare passwords between    *)
(* the read of the user and what they do with it, so others run meanwhile. *)
(***************************************************************************)
EXTENDS Naturals, FiniteSets

CONSTANTS
    Passwords,    \* the passwords ever used (bound)
    Reqs,         \* logins and password changes in flight together (bound)
    First,        \* the password the account is created with
    MaxVersion    \* bound on tokenVersion

ASSUME SessionsAssumption ==
    /\ First \in Passwords
    /\ IsFiniteSet(Reqs)
    /\ MaxVersion \in Nat

VARIABLES
    password,       \* what passwordHash was made from
    mustChange,     \* User.mustChangePassword
    tokenVersion,   \* User.tokenVersion
    cookies,        \* refresh tokens held by clients
    access,         \* tokenVersions of the sessions with a live access token
    pc,             \* per request: where it is
    known,          \* per request: the password its caller proved to know
    chosen,         \* per request: the new password
    ver,            \* per request: the tokenVersion of the user it read
    overtaken       \* (history) the changes under way that a reset fell into

userVars == <<password, mustChange, tokenVersion>>
reqVars == <<pc, known, chosen, ver, overtaken>>
vars == <<password, mustChange, tokenVersion, cookies, access, pc, known,
          chosen, ver, overtaken>>

\* A refresh token, and (history) the password its holder knew.
Cookie == [ver: Nat, pw: Passwords]

\* change: before the write; issue: before the tokens are signed.
Steps == {"idle", "change", "issue"}

TypeOK ==
    /\ password \in Passwords
    /\ mustChange \in BOOLEAN
    /\ tokenVersion \in Nat
    /\ cookies \subseteq Cookie
    /\ access \subseteq Nat
    /\ pc \in [Reqs -> Steps]
    /\ known \in [Reqs -> Passwords]
    /\ chosen \in [Reqs -> Passwords]
    /\ ver \in [Reqs -> Nat]
    /\ overtaken \subseteq {r \in Reqs : pc[r] = "change"}

\* createUser: a generated password has to be changed, a chosen one has not.
Init ==
    /\ password = First
    /\ mustChange \in BOOLEAN
    /\ tokenVersion = 0
    /\ cookies = {}
    /\ access = {}
    /\ pc = [r \in Reqs |-> "idle"]
    /\ known = [r \in Reqs |-> First]
    /\ chosen = [r \in Reqs |-> First]
    /\ ver = [r \in Reqs |-> 0]
    /\ overtaken = {}

\* Room below the bound for one more change of the version.
VersionRoom ==
    tokenVersion + Cardinality({r \in Reqs : pc[r] = "change"}) < MaxVersion

-----------------------------------------------------------------------------
(* Sessions.                                                               *)

\* login up to its comparison, which is with the hash it read.
Login(r) ==
    /\ pc[r] = "idle"
    /\ pc' = [pc EXCEPT ![r] = "issue"]
    /\ known' = [known EXCEPT ![r] = password]
    /\ ver' = [ver EXCEPT ![r] = tokenVersion]
    /\ UNCHANGED <<userVars, cookies, access, chosen, overtaken>>

\* Mutant: signed with the version of the row as it is now.
SignedVersionNow(r) == tokenVersion

\* The version of the row the handler read (login) or wrote (changePassword).
SignedVersion(r) == ver[r]

\* Mutant: the token has no version.
NewCookieUnversioned(r) == [pw |-> known[r]]

NewCookie(r) == [ver |-> SignedVersion(r), pw |-> known[r]]

\* The end of login and of changePassword: both tokens are signed.  The cookie
\* that the new one replaces in the same browser is left to Forget.
Issue(r) ==
    /\ pc[r] = "issue"
    /\ cookies' = cookies \cup {NewCookie(r)}
    /\ access' = access \cup {SignedVersion(r)}
    /\ pc' = [pc EXCEPT ![r] = "idle"]
    /\ known' = [known EXCEPT ![r] = First]
    /\ chosen' = [chosen EXCEPT ![r] = First]
    /\ ver' = [ver EXCEPT ![r] = 0]
    /\ UNCHANGED <<userVars, overtaken>>

\* Mutant: the version is not compared.
CurrentAny(c) == TRUE

Current(c) == c.ver = tokenVersion

\* The user is read and the access token signed without an await in between.
Refresh(c) ==
    /\ c \in cookies
    /\ Current(c)
    /\ access' = access \cup {c.ver}
    /\ UNCHANGED <<userVars, cookies, reqVars>>

\* logout, or the seven days of the cookie.
Forget(c) ==
    /\ c \in cookies
    /\ cookies' = cookies \ {c}
    /\ UNCHANGED <<userVars, access, reqVars>>

\* JWT_ACCESS_TTL after the last access token of these sessions was issued.
Expire(v) ==
    /\ v \in access
    /\ access' = access \ {v}
    /\ UNCHANGED <<userVars, cookies, reqVars>>

\* Bumps the version and clears the cookie of the caller, if he sent one.
LogoutAll(mine) ==
    /\ VersionRoom
    /\ access # {}
    /\ tokenVersion' = tokenVersion + 1
    /\ cookies' = cookies \ mine
    /\ UNCHANGED <<password, mustChange, access, reqVars>>

-----------------------------------------------------------------------------
(* Passwords.                                                              *)

\* Mutant: who is forced to change need not type the password he was given.
ProvedUnlessForced == IF mustChange THEN First ELSE password

\* What the comparison with the hash it read makes the caller prove.
Proved == password

\* changePassword up to that comparison.
ChangeRead(r, new) ==
    /\ VersionRoom
    /\ access # {}
    /\ pc[r] = "idle"
    /\ pc' = [pc EXCEPT ![r] = "change"]
    /\ known' = [known EXCEPT ![r] = Proved]
    /\ chosen' = [chosen EXCEPT ![r] = new]
    /\ UNCHANGED <<userVars, cookies, access, ver, overtaken>>

\* The write, and the row as the write returns it.
ChangeWrite(r) ==
    /\ pc[r] = "change"
    /\ password' = chosen[r]
    /\ mustChange' = FALSE
    /\ tokenVersion' = tokenVersion + 1
    /\ pc' = [pc EXCEPT ![r] = "issue"]
    /\ known' = [known EXCEPT ![r] = chosen[r]]
    /\ ver' = [ver EXCEPT ![r] = tokenVersion + 1]
    /\ overtaken' = overtaken \ {r}
    /\ UNCHANGED <<cookies, access, chosen>>

\* resetUserPassword, and updateUser with a password: nothing of what they
\* read matters to the write.
Reset(new) ==
    /\ VersionRoom
    /\ password' = new
    /\ mustChange' = TRUE
    /\ tokenVersion' = tokenVersion + 1
    /\ overtaken' = {r \in Reqs : pc[r] = "change"}
    /\ UNCHANGED <<cookies, access, pc, known, chosen, ver>>

-----------------------------------------------------------------------------

Next ==
    \/ \E r \in Reqs : Login(r) \/ Issue(r) \/ ChangeWrite(r)
    \/ \E r \in Reqs, new \in Passwords : ChangeRead(r, new)
    \/ \E c \in cookies : Refresh(c) \/ Forget(c)
    \/ \E v \in access : Expire(v)
    \/ \E new \in Passwords : Reset(new)
    \/ \E mine \in {{}} \cup {{c} : c \in cookies} : LogoutAll(mine)

Spec == Init /\ [][Next]_vars

\* Every await of a handler returns, and access tokens expire.
Fairness ==
    /\ \A r \in Reqs : WF_vars(Issue(r)) /\ WF_vars(ChangeWrite(r))
    /\ \A v \in 0..MaxVersion : WF_vars(Expire(v))

FairSpec == Spec /\ Fairness

-----------------------------------------------------------------------------
(* Properties.                                                             *)

\* "Changing the password invalidates all existing refresh tokens"
\* (user.service.ts 140): a refresh token that is still accepted was issued to
\* somebody who knows the present password, also when the login or the change
\* that issued it overlapped other changes and resets.
RefreshKnowsPassword == \A c \in cookies : Current(c) => c.pw = password

\* "any session ends within one access-token lifetime" (auth.service.ts 88):
\* once the version has moved on, the sessions of the old one are soon, and
\* for ever, without access token.
OldSessionsEnd ==
    \A v \in 0..MaxVersion : tokenVersion > v ~> [](v \notin access)

\* Request r writes the password its user chose.
Changes(r) == pc[r] = "change" /\ pc'[r] = "issue"

\* "forces a self-service change on next login ... and invalidates every
\* existing session" (user.service.ts 175): the flag is cleared only by
\* somebody who knew the password the administrator has set.  A change that
\* had verified the old password when the reset came does clear it
\* (auth.service.ts 100-118).
ForcedChangeStep ==
    mustChange /\ ~mustChange' =>
        \E r \in Reqs : Changes(r) /\ known[r] = password

ForcedChange == [][ForcedChangeStep]_vars

\* What the code keeps of that, however resets and changes overlap: only such
\* a change can.  One that comes after the latest reset has to know its
\* password, whatever resets, changes and logoutAlls came before.
OnlyOvertakenStep ==
    mustChange /\ ~mustChange' =>
        \E r \in Reqs : Changes(r) /\ (known[r] = password \/ r \in overtaken)

OnlyOvertakenEscape == [][OnlyOvertakenStep]_vars

=============================================================================
