--------------------------- MODULE SessionsProofs ---------------------------
(***************************************************************************)
(* Theorems about Sessions for any number of requests and passwords.       *)
(***************************************************************************)
EXTENDS Sessions, TLAPS

-----------------------------------------------------------------------------
(* Refresh tokens.  A token under way is a token already: an issue that is *)
(* still to come must be as sound as the cookies that are out.             *)

\* Version v, signed for somebody who knew p, is current only if p is.
Sound(v, p) == v <= tokenVersion /\ (v = tokenVersion => p = password)

SoundInv ==
    /\ TypeOK
    /\ \A c \in cookies : Sound(c.ver, c.pw)
    /\ \A r \in Reqs : pc[r] = "issue" => Sound(ver[r], known[r])

LEMMA InitSound ==
    ASSUME SessionsAssumption, Init
    PROVE  SoundInv
BY DEF SessionsAssumption, Init, SoundInv, TypeOK, Cookie, Steps

\* A request keeps what is signed or about to be signed sound.
LEMMA RequestSound ==
    ASSUME SessionsAssumption, SoundInv, NEW r \in Reqs,
           Login(r) \/ Issue(r) \/ ChangeWrite(r)
    PROVE  SoundInv'
<1> USE DEF SoundInv, TypeOK, Steps, Sound
<1>1. CASE Login(r)
  BY <1>1 DEF Login, userVars
<1>2. CASE Issue(r)
  <2>1. NewCookie(r) \in Cookie /\ Sound(NewCookie(r).ver, NewCookie(r).pw)
    BY <1>2 DEF Issue, NewCookie, SignedVersion, Cookie
  <2>2. \A c \in cookies' : c \in Cookie /\ Sound(c.ver, c.pw)
    BY <1>2, <2>1 DEF Issue
  <2>3. TypeOK'
    BY <1>2, <2>1 DEF Issue, userVars, SignedVersion, SessionsAssumption
  <2>4. \A c \in cookies' : Sound(c.ver, c.pw)'
    BY <1>2, <2>2 DEF Issue, userVars
  <2>5. \A q \in Reqs : pc'[q] = "issue" => Sound(ver[q], known[q])'
    BY <1>2 DEF Issue, userVars
  <2>6. QED
    BY <2>3, <2>4, <2>5
<1>3. CASE ChangeWrite(r)
  <2>1. TypeOK'
    <3>1. tokenVersion + 1 \in Nat /\ chosen[r] \in Passwords
      OBVIOUS
    <3>2. /\ pc' \in [Reqs -> Steps]
          /\ known' \in [Reqs -> Passwords]
          /\ ver' \in [Reqs -> Nat]
      BY <1>3, <3>1 DEF ChangeWrite
    <3>3. QED
      BY <1>3, <3>1, <3>2 DEF ChangeWrite, Cookie
  <2>2. \A c \in cookies' : Sound(c.ver, c.pw)'
    BY <1>3 DEF ChangeWrite, Cookie
  <2>3. \A q \in Reqs : pc'[q] = "issue" => Sound(ver[q], known[q])'
    BY <1>3 DEF ChangeWrite
  <2>4. QED
    BY <2>1, <2>2, <2>3
<1>4. QED
  BY <1>1, <1>2, <1>3

LEMMA NextSound ==
    ASSUME SessionsAssumption, SoundInv, [Next]_vars
    PROVE  SoundInv'
<1> USE DEF SoundInv, TypeOK, Steps, Sound, Cookie
<1>1. ASSUME NEW r \in Reqs, Login(r) \/ Issue(r) \/ ChangeWrite(r)
      PROVE  SoundInv'
  BY <1>1, RequestSound
<1>2. ASSUME NEW r \in Reqs, NEW new \in Passwords, ChangeRead(r, new)
      PROVE  SoundInv'
  BY <1>2 DEF ChangeRead, Proved, userVars
<1>3. ASSUME NEW c \in cookies, Refresh(c) PROVE SoundInv'
  BY <1>3 DEF Refresh, userVars, reqVars
<1>4. ASSUME NEW c \in cookies, Forget(c) PROVE SoundInv'
  BY <1>4 DEF Forget, userVars, reqVars
<1>5. ASSUME NEW v \in access, Expire(v) PROVE SoundInv'
  BY <1>5 DEF Expire, userVars, reqVars
<1>6. ASSUME NEW new \in Passwords, Reset(new) PROVE SoundInv'
  BY <1>6 DEF Reset, reqVars
<1>7. ASSUME NEW mine, LogoutAll(mine) PROVE SoundInv'
  BY <1>7 DEF LogoutAll, reqVars
<1>8. CASE UNCHANGED vars
  BY <1>8 DEF vars
<1>9. QED
  BY <1>1, <1>2, <1>3, <1>4, <1>5, <1>6, <1>7, <1>8 DEF Next

\* The types hold and no token outlives the password it was signed for.
THEOREM AlwaysSound ==
    ASSUME SessionsAssumption
    PROVE  Spec => []SoundInv
<1>1. Init => SoundInv
  BY InitSound
<1>2. SoundInv /\ [Next]_vars => SoundInv'
  BY NextSound
<1>3. QED
  BY <1>1, <1>2, PTL DEF Spec

\* Type correctness of the users, tokens and requests (auth.service.ts).
THEOREM SessionsTypeCorrect ==
    ASSUME SessionsAssumption
    PROVE  Spec => []TypeOK
<1>1. SoundInv => TypeOK
  BY DEF SoundInv
<1>2. QED
  BY <1>1, AlwaysSound, PTL

\* A refresh token that is still accepted belongs to somebody who knows the
\* present password, however logins, changes and resets overlap.
THEOREM RefreshSafe ==
    ASSUME SessionsAssumption
    PROVE  Spec => []RefreshKnowsPassword
<1>1. SoundInv => RefreshKnowsPassword
  BY DEF SoundInv, Sound, RefreshKnowsPassword, Current
<1>2. QED
  BY <1>1, AlwaysSound, PTL

-----------------------------------------------------------------------------
(* Forced changes.  Resets and changes overlap freely; what a reset makes  *)
(* of the changes it falls into is what overtaken records.                 *)

\* While the flag is set, every change under way began with the password that
\* is still in force, unless the reset that set the flag overtook it.
ForcedInv ==
    /\ TypeOK
    /\ mustChange =>
         \A r \in Reqs :
             pc[r] = "change" => known[r] = password \/ r \in overtaken

LEMMA NextForcedInv ==
    ASSUME SessionsAssumption, ForcedInv, TypeOK', [Next]_vars
    PROVE  ForcedInv'
<1> USE DEF ForcedInv, TypeOK, Steps
<1>1. ASSUME NEW r \in Reqs, Login(r) PROVE ForcedInv'
  BY <1>1 DEF Login, userVars
<1>2. ASSUME NEW r \in Reqs, Issue(r) PROVE ForcedInv'
  BY <1>2 DEF Issue, userVars
<1>3. ASSUME NEW r \in Reqs, ChangeWrite(r) PROVE ForcedInv'
  BY <1>3 DEF ChangeWrite
<1>4. ASSUME NEW r \in Reqs, NEW new \in Passwords, ChangeRead(r, new)
      PROVE  ForcedInv'
  BY <1>4 DEF ChangeRead, Proved, userVars
<1>5. ASSUME NEW c \in cookies, Refresh(c) \/ Forget(c) PROVE ForcedInv'
  BY <1>5 DEF Refresh, Forget, userVars, reqVars
<1>6. ASSUME NEW v \in access, Expire(v) PROVE ForcedInv'
  BY <1>6 DEF Expire, userVars, reqVars
<1>7. ASSUME NEW new \in Passwords, Reset(new) PROVE ForcedInv'
  BY <1>7 DEF Reset, reqVars
<1>8. ASSUME NEW mine, LogoutAll(mine) PROVE ForcedInv'
  BY <1>8 DEF LogoutAll, reqVars
<1>9. CASE UNCHANGED vars
  BY <1>9 DEF vars
<1>10. QED
  BY <1>1, <1>2, <1>3, <1>4, <1>5, <1>6, <1>7, <1>8, <1>9 DEF Next

\* Only ChangeWrite clears the flag.
LEMMA NextForced ==
    ASSUME ForcedInv, [Next]_vars
    PROVE  OnlyOvertakenStep
<1> USE DEF OnlyOvertakenStep, Changes, ForcedInv, TypeOK
<1>1. ASSUME NEW r \in Reqs, ChangeWrite(r) PROVE OnlyOvertakenStep
  BY <1>1 DEF ChangeWrite
<1>2. ASSUME NEW r \in Reqs, Login(r) \/ Issue(r) PROVE OnlyOvertakenStep
  BY <1>2 DEF Login, Issue, userVars
<1>3. ASSUME NEW r \in Reqs, NEW new \in Passwords, ChangeRead(r, new)
      PROVE  OnlyOvertakenStep
  BY <1>3 DEF ChangeRead, Proved, userVars
<1>4. ASSUME NEW c \in cookies, Refresh(c) \/ Forget(c) PROVE OnlyOvertakenStep
  BY <1>4 DEF Refresh, Forget, userVars
<1>5. ASSUME NEW v \in access, Expire(v) PROVE OnlyOvertakenStep
  BY <1>5 DEF Expire, userVars
<1>6. ASSUME NEW new \in Passwords, Reset(new) PROVE OnlyOvertakenStep
  BY <1>6 DEF Reset
<1>7. ASSUME NEW mine, LogoutAll(mine) PROVE OnlyOvertakenStep
  BY <1>7 DEF LogoutAll
<1>8. CASE UNCHANGED vars
  BY <1>8 DEF vars
<1>9. QED
  BY <1>1, <1>2, <1>3, <1>4, <1>5, <1>6, <1>7, <1>8 DEF Next

\* However resets and changes overlap: the change that an administrator forces is
\* made by somebody who knows the password the administrator set, or by a change
\* that had verified the old one when the reset came (auth.service.ts 100-118).
THEOREM ForcedChangeEscapes ==
    ASSUME SessionsAssumption
    PROVE  Spec => OnlyOvertakenEscape
<1>1. Init => ForcedInv
  BY InitSound DEF Init, ForcedInv, SoundInv
<1>2. ForcedInv /\ TypeOK' /\ [Next]_vars => ForcedInv'
  BY NextForcedInv
<1>3. ForcedInv /\ [Next]_vars => [OnlyOvertakenStep]_vars
  BY NextForced
<1>4. QED
  BY <1>1, <1>2, <1>3, SessionsTypeCorrect, PTL DEF Spec, OnlyOvertakenEscape

=============================================================================
