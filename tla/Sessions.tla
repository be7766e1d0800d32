------------------------------ MODULE Sessions ------------------------------
(***************************************************************************)
(* AuthService, for one user: signing up, signing in, refreshing, signing  *)
(* out, the password and the verification of the e-mail address.           *)
(* The user row is read, the password is verified, which takes long, and   *)
(* only then is anything written; a refresh token is deleted by its id and *)
(* its successor is created in another step.                               *)
(*                                                                         *)
(* Hashes stand for what they hash; expiry of refresh tokens, e-mails and  *)
(* the other users are left out.  A password is the number of the change   *)
(* that set it.                                                            *)
(*                                                                         *)
(* The second half is about who may do what: the roles and the accounts.   *)
(***************************************************************************)
EXTENDS Integers, FiniteSets

CONSTANTS
  Clients,       \* requests handled at the same time
  MaxTokens,     \* bound: refresh tokens issued
  MaxChanges,    \* bound: passwords set
  MaxFailures,   \* MAX_FAILED_LOGIN_ATTEMPTS
  MaxOutages     \* bound: crashes

ASSUME SessionConstantsOK ==
  MaxTokens \in Nat /\ MaxChanges \in Nat /\ MaxFailures \in Nat \ {0} /\ MaxOutages \in Nat

Tokens == 1 .. MaxTokens

VARIABLES
  enrolled,  \* the User row exists
  passcode,  \* User.password
  failed,    \* failedLoginAttempts
  locked,    \* lockedUntil lies ahead
  verified,  \* emailVerifiedAt is set
  resetLink, \* the PasswordResetToken last sent: "none", "live", "used"
  tokens,     \* RefreshToken rows, and those that existed: state and history
  auth,      \* what each request is about to do
  unrevoked, \* history: a password was changed and its request died before it signed out
  outages

sessionVars == <<enrolled, passcode, failed, locked, verified, resetLink, tokens, auth, unrevoked,
                 outages>>

Passwords == 0 .. MaxChanges
Asleep    == [do |-> "idle", saw |-> 0, tok |-> 0]
NoToken   == [is |-> "none", under |-> 0, late |-> FALSE, traded |-> 0]

SessionInit ==
  /\ enrolled = FALSE /\ passcode = 0 /\ failed = 0 /\ locked = FALSE
  /\ verified = FALSE /\ resetLink = "none"
  /\ tokens = [t \in Tokens |-> NoToken]
  /\ auth = [d \in Clients |-> Asleep]
  /\ unrevoked = FALSE /\ outages = 0

DeviceDoes(d, what, saw, t) == auth' = [auth EXCEPT ![d] = [do |-> what, saw |-> saw, tok |-> t]]
Finish(d)  == auth' = [auth EXCEPT ![d] = Asleep]
AtStep(d, what) == auth[d].do = what

userVars  == <<enrolled, passcode, failed, locked, verified, resetLink>>
otherVars == <<unrevoked, outages>>

(***************************************************************************)
(* Signing up, as a customer or a seller.                                  *)
(***************************************************************************)
\* The address is looked up before the password is hashed,
SignUpRead(d) ==
  /\ AtStep(d, "idle") /\ ~enrolled /\ DeviceDoes(d, "enrol", 0, 0)
  /\ UNCHANGED <<userVars, tokens, otherVars>>

\* and the unique index refuses a second account.
SignUpWrite(d) ==
  /\ AtStep(d, "enrol") /\ enrolled' = TRUE /\ Finish(d)
  /\ UNCHANGED <<passcode, failed, locked, verified, resetLink, tokens, otherVars>>

(***************************************************************************)
(* Signing in.                                                             *)
(***************************************************************************)
\* login reads the user and verifies the password; the count it saw goes with it.
LoginRead(d) ==
  /\ AtStep(d, "idle") /\ enrolled /\ ~locked
  /\ \/ DeviceDoes(d, "hit", passcode, 0)
     \/ DeviceDoes(d, "miss", failed + 1, 0)
  /\ UNCHANGED <<userVars, tokens, otherVars>>

LoginMiss(d) ==
  /\ AtStep(d, "miss")
  /\ IF auth[d].saw >= MaxFailures THEN failed' = 0 /\ locked' = TRUE
                                    ELSE failed' = auth[d].saw /\ UNCHANGED locked
  /\ Finish(d)
  /\ UNCHANGED <<enrolled, passcode, verified, resetLink, tokens, otherVars>>

\* The account type and the verification are looked at after the lock is cleared.
LoginHit(d) ==
  /\ AtStep(d, "hit")
  /\ failed' = 0 /\ locked' = FALSE
  /\ \/ verified /\ DeviceDoes(d, "grant", auth[d].saw, 0)
     \/ Finish(d)
  /\ UNCHANGED <<enrolled, passcode, verified, resetLink, tokens, otherVars>>

LockExpires ==
  /\ locked /\ locked' = FALSE
  /\ UNCHANGED <<enrolled, passcode, failed, verified, resetLink, tokens, auth, otherVars>>

\* A refresh token is created for the password its request has seen.
Grant(d) ==
  /\ AtStep(d, "grant")
  /\ \E t \in Tokens :
       /\ tokens[t] = NoToken /\ \A s \in Tokens : s < t => tokens[s] # NoToken
       /\ tokens' = [tokens EXCEPT ![t] = [NoToken EXCEPT !.is = "live", !.under = auth[d].saw,
                                                        !.late = auth[d].saw # passcode]]
  /\ Finish(d)
  /\ UNCHANGED <<userVars, otherVars>>

Live == {t \in Tokens : tokens[t].is = "live"}
Gone(ts) == [t \in Tokens |-> IF t \in ts THEN [tokens[t] EXCEPT !.is = "gone"] ELSE tokens[t]]

(***************************************************************************)
(* Refreshing and signing out.                                             *)
(***************************************************************************)
\* refreshTokens looks for the presented token among the user's.
RefreshRead(d, t) ==
  /\ AtStep(d, "idle") /\ tokens[t] # NoToken
  /\ DeviceDoes(d, IF t \in Live THEN "rotate" ELSE "wipe", 0, t)
  /\ UNCHANGED <<userVars, tokens, otherVars>>

\* delete by id throws when the row is gone.
StillThere(t) == t \in Live

Rotate(d) ==
  LET t == auth[d].tok IN
  /\ AtStep(d, "rotate")
  /\ IF StillThere(t)
     THEN /\ tokens' = [Gone({t}) EXCEPT ![t].traded = @ + 1]
          /\ DeviceDoes(d, "grant", tokens[t].under, 0)
     ELSE /\ Finish(d)
          /\ UNCHANGED tokens
  /\ UNCHANGED <<userVars, otherVars>>

\* A token nobody knows revokes all.
Wipe(d) ==
  /\ AtStep(d, "wipe")
  /\ tokens' = Gone(Live)
  /\ Finish(d)
  /\ UNCHANGED <<userVars, otherVars>>

Logout(d, t) ==
  /\ AtStep(d, "idle") /\ t \in Live
  /\ tokens' = Gone({t})
  /\ UNCHANGED <<userVars, auth, otherVars>>

(***************************************************************************)
(* The password.                                                           *)
(***************************************************************************)
\* changePassword verifies the current one.
ChangeRead(d) ==
  /\ AtStep(d, "idle") /\ enrolled /\ DeviceDoes(d, "change", 0, 0)
  /\ UNCHANGED <<userVars, tokens, otherVars>>

NewPassword ==
  /\ passcode < MaxChanges
  /\ passcode' = passcode + 1

ChangeWrite(d) ==
  /\ AtStep(d, "change")
  /\ NewPassword
  /\ DeviceDoes(d, "revoke", passcode', 0)
  /\ UNCHANGED <<enrolled, failed, locked, verified, resetLink, tokens, otherVars>>

Revoked == Live

\* revokeAllSessions; then this device gets a new session.
RevokeAll(d) ==
  /\ AtStep(d, "revoke")
  /\ tokens' = Gone(Revoked)
  /\ unrevoked' = FALSE
  /\ DeviceDoes(d, "grant", auth[d].saw, 0)
  /\ UNCHANGED <<userVars, outages>>

\* requestPasswordReset: earlier links are used up, in a step of its own.
ForgotPassword ==
  /\ enrolled /\ resetLink' = IF resetLink = "live" THEN "used" ELSE "live"
  /\ UNCHANGED <<enrolled, passcode, failed, locked, verified, tokens, auth, otherVars>>

\* resetPassword reads the link, hashes, and writes in one transaction.
ResetRead(d) ==
  /\ AtStep(d, "idle") /\ resetLink = "live"
  /\ DeviceDoes(d, "reset", 0, 0)
  /\ UNCHANGED <<userVars, tokens, otherVars>>

ResetWrite(d) ==
  /\ AtStep(d, "reset")
  /\ NewPassword
  /\ resetLink' = "used"
  /\ tokens' = Gone(Live)
  /\ unrevoked' = FALSE
  /\ Finish(d)
  /\ UNCHANGED <<enrolled, failed, locked, verified, outages>>

\* verifyEmail with the link last sent, and adminVerifyEmail.
VerifyEmail ==
  /\ enrolled /\ ~verified /\ verified' = TRUE
  /\ UNCHANGED <<enrolled, passcode, failed, locked, resetLink, tokens, auth, otherVars>>

SessionCrash(d) ==
  /\ auth[d] # Asleep /\ outages < MaxOutages
  /\ outages' = outages + 1
  /\ unrevoked' = (unrevoked \/ AtStep(d, "revoke"))
  /\ Finish(d)
  /\ UNCHANGED <<userVars, tokens>>

-----------------------------------------------------------------------------
SessionNext ==
  \/ \E d \in Clients :
       \/ SignUpRead(d) \/ SignUpWrite(d)
       \/ LoginRead(d) \/ LoginMiss(d) \/ LoginHit(d) \/ Grant(d)
       \/ Rotate(d) \/ Wipe(d) \/ \E t \in Tokens : RefreshRead(d, t) \/ Logout(d, t)
       \/ ChangeRead(d) \/ ChangeWrite(d) \/ RevokeAll(d) \/ ResetRead(d) \/ ResetWrite(d)
       \/ SessionCrash(d)
  \/ LockExpires \/ ForgotPassword \/ VerifyEmail

SessionSpec == SessionInit /\ [][SessionNext]_sessionVars

-----------------------------------------------------------------------------
\* Every variable has its type.
SessionTypeOK ==
  /\ enrolled \in BOOLEAN /\ passcode \in Passwords /\ failed \in 0 .. MaxFailures /\ locked \in BOOLEAN
  /\ verified \in BOOLEAN /\ resetLink \in {"none", "live", "used"}
  /\ tokens \in [Tokens -> [is : {"none", "live", "gone"}, under : Passwords, late : BOOLEAN,
                           traded : Nat]]
  /\ auth \in [Clients -> [do : {"idle", "enrol", "hit", "miss", "grant", "rotate", "wipe", "change",
                                 "revoke", "reset"}, saw : Nat, tok : 0 .. MaxTokens]]
  /\ unrevoked \in BOOLEAN /\ outages \in Nat

\* A refresh token is exchanged for one successor at most, however many requests present it,
\* and a new password ends the sessions that were open: one opened with an earlier password
\* is live only if its request was under way meanwhile, or the change died half way.
SessionsFollowPassword ==
  /\ \A t \in Tokens : tokens[t].traded =< 1
  /\ \A t \in Live : tokens[t].under = passcode \/ tokens[t].late \/ unrevoked
                       \/ \E d \in Clients : AtStep(d, "revoke")

-----------------------------------------------------------------------------
(***************************************************************************)
(* RoleService and UserService's administration: which role has which      *)
(* permission, and which user has which role and status.                   *)
(* Whoever grants or revokes a permission must hold it: that is looked up, *)
(* and the grant is written later.  The strategy that asks for an active   *)
(* account (strategies/jwt.strategy.ts) is not the one AuthModule          *)
(* registers.                                                              *)
(*                                                                         *)
(* The permission an endpoint asks for is taken as given; the super        *)
(* administrators are those with role Super.                               *)
(***************************************************************************)
CONSTANTS
  Admins,      \* users of the back office, one request each at a time
  Roles,       \* the roles
  Super,       \* the role superAdmin
  Permits,     \* permissions
  MaxMoves     \* bound: changes of roles and statuses

ASSUME RoleConstantsOK == Super \in Roles /\ MaxMoves \in Nat

VARIABLES
  grants,   \* RolePermission rows
  roleOf,   \* User.roleId
  standing,   \* User.status: "active", "suspended"
  adesk,    \* what each user's request is about to do
  acted,    \* history: users who began a request while suspended
  extinct,  \* history: permissions that no role had at some time
  moves,
  crossing  \* history: a permission was revoked while it was being granted

roleVars == <<grants, roleOf, standing, adesk, acted, extinct, moves, crossing>>

NoTask   == [do |-> "idle", role |-> Super, permit |-> "none", whom |-> "none"]
HasPermit(a, p) == <<roleOf[a], p>> \in grants
IsActive(a)     == standing[a] = "active"
InFlight(what)  == {a \in Admins : adesk[a].do = what}

\* The seed gives everything to the super administrators, and some to the others.
RoleInit ==
  /\ \E r \in [Admins -> Roles] : roleOf = r /\ \E a \in Admins : r[a] = Super
  /\ \E some \in SUBSET ((Roles \ {Super}) \X Permits) : grants = some \union ({Super} \X Permits)
  /\ standing = [a \in Admins |-> "active"]
  /\ adesk = [a \in Admins |-> NoTask]
  /\ acted = {} /\ extinct = {} /\ moves = 0 /\ crossing = FALSE

\* JwtStrategy.validate admits whoever has a token, whatever the status of the account.
Admits(a) == acted' = IF IsActive(a) THEN acted ELSE acted \union {a}

\* assertActorHoldsPermission.
MayDelegate(a, p) == HasPermit(a, p)

\* assignPermission and revokePermission read,
Delegate(a, what, r, p) ==
  /\ adesk[a].do = "idle" /\ Admits(a) /\ MayDelegate(a, p)
  /\ adesk' = [adesk EXCEPT ![a] = [NoTask EXCEPT !.do = what, !.role = r, !.permit = p]]
  /\ UNCHANGED <<grants, roleOf, standing, extinct, moves, crossing>>

\* then upsert the row,
GrantPermission(a) ==
  /\ adesk[a].do = "grant"
  /\ grants' = grants \union {<<adesk[a].role, adesk[a].permit>>}
  /\ adesk' = [adesk EXCEPT ![a] = NoTask]
  /\ UNCHANGED <<roleOf, standing, acted, extinct, moves, crossing>>

\* or delete it.
RevokePermission(a) ==
  LET p == adesk[a].permit  left == grants \ {<<adesk[a].role, p>>} IN
  /\ adesk[a].do = "revoke"
  /\ grants' = left
  /\ extinct' = IF \E r \in Roles : <<r, p>> \in left THEN extinct ELSE extinct \union {p}
  /\ crossing' = (crossing \/ \E b \in InFlight("grant") : adesk[b].permit = p)
  /\ adesk' = [adesk EXCEPT ![a] = NoTask]
  /\ UNCHANGED <<roleOf, standing, acted, moves>>

\* setUserStatus: not of oneself, and only a super administrator's by another.
JudgeUser(a, u) ==
  /\ adesk[a].do = "idle" /\ Admits(a) /\ a # u
  /\ roleOf[u] = Super => roleOf[a] = Super
  /\ adesk' = [adesk EXCEPT ![a] = [NoTask EXCEPT !.do = "judge", !.whom = u]]
  /\ UNCHANGED <<grants, roleOf, standing, extinct, moves, crossing>>

SetUserStatus(a, st) ==
  /\ adesk[a].do = "judge" /\ moves < MaxMoves
  /\ moves' = moves + 1
  /\ standing' = [standing EXCEPT ![adesk[a].whom] = st]
  /\ adesk' = [adesk EXCEPT ![a] = NoTask]
  /\ UNCHANGED <<grants, roleOf, acted, extinct, crossing>>

\* updateUser gives another role, to the last super administrator too.
UpdateUser(u, r) ==
  /\ moves < MaxMoves /\ r # roleOf[u]
  /\ moves' = moves + 1
  /\ roleOf' = [roleOf EXCEPT ![u] = r]
  /\ UNCHANGED <<grants, standing, adesk, acted, extinct, crossing>>

-----------------------------------------------------------------------------
RoleNext ==
  \E a \in Admins :
    \/ \E r \in Roles, p \in Permits : Delegate(a, "grant", r, p) \/ Delegate(a, "revoke", r, p)
    \/ GrantPermission(a) \/ RevokePermission(a)
    \/ \E u \in Admins : JudgeUser(a, u)
    \/ \E st \in {"active", "suspended"} : SetUserStatus(a, st)
    \/ \E r \in Roles : UpdateUser(a, r)

RoleSpec == RoleInit /\ [][RoleNext]_roleVars

-----------------------------------------------------------------------------
\* Every variable has its type.
RoleTypeOK ==
  /\ grants \subseteq Roles \X Permits /\ roleOf \in [Admins -> Roles]
  /\ standing \in [Admins -> {"active", "suspended"}]
  /\ adesk \in [Admins -> [do : {"idle", "grant", "revoke", "judge"}, role : Roles,
                           permit : Permits \union {"none"}, whom : Admins \union {"none"}]]
  /\ acted \subseteq Admins /\ extinct \subseteq Permits /\ moves \in 0 .. MaxMoves /\ crossing \in BOOLEAN

\* A permission that no role has any more is never granted again, unless it was revoked
\* while someone who held it was granting it.
AuthorityKept == crossing \/ \A g \in grants : g[2] \notin extinct

\* Who is suspended can do nothing, even with a token that has not expired.
SuspendedAreDenied == acted = {}
=============================================================================
