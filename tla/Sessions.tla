------------------------------ MODULE Sessions ------------------------------
(***************************************************************************)
(* Logging in and being let in: login challenges and sessions              *)
(* (storage/auth.py), the login handler (Runtime.login), the identity      *)
(* approvals a deployment carries (runtime/authorization.py) and their     *)
(* binding in the database (storage/permissions.py), against revocations,  *)
(* role changes, restarts with another approval, and the passing of time.  *)
(*                                                                         *)
(* A login is a series of transactions with a request to the identity      *)
(* provider between them.  Issuing the session is cut once more, between   *)
(* the locking read of the user and the commit.  The provider may vouch    *)
(* for any user.  A challenge presented with another browser's cookie is   *)
(* refused without effect and left out.                                    *)
(***************************************************************************)
EXTENDS Naturals, Sequences

CONSTANTS
    Users,          \* accounts, each with its own identity at the provider
    Servers,        \* processes, each with its own settings
    Logins,         \* login requests being handled
    Challenges,     \* login states
    Permissions,    \* identity permissions a deployment may carry
    ApprovalOf,     \* the approval id of a permission
    ListedBy,       \* the users a permission lists, each with its role
    MaxSessions,    \* bound on the sessions ever issued
    None            \* no permission: a local test deployment; no user; nobody

Approvals == {ApprovalOf[p] : p \in Permissions}
Roles == {"viewer", "admin"}

ASSUME SessionsAssumption ==
    /\ None \notin Permissions \cup Approvals \cup Users \cup Logins \cup Servers
    /\ ListedBy \in [Permissions -> SUBSET (Users \X Roles)]
    /\ MaxSessions \in Nat

VARIABLES
    accounts,   \* users: whether they are provisioned, active or revoked, and as what
    challenges, \* login_states
    sessions,   \* the sessions table
    bound,      \* permission_scopes: the permission an approval id was bound to
    over,       \* permissions whose window has ended
    deployed,   \* the identity permission in each server's settings
    login,      \* the login requests
    lockedBy    \* the login that holds a user's row lock

vars == <<accounts, challenges, sessions, bound, over, deployed, login, lockedBy>>

-----------------------------------------------------------------------------
Accounts == [status : {"unknown", "active", "revoked"}, role : Roles]

Steps == {"idle", "consumed", "bound", "authenticated", "checked", "issuing"}

LoginStates == [step : Steps, server : Servers \cup {None}, challenge : Challenges \cup {None},
                user : Users \cup {None}]

\* A session carries the approval id it was issued under.  permission is what
\* that approval stood for then; nothing stores it.
SessionRows == [user : Users, scope : Approvals \cup {None},
                state : {"live", "expired", "revoked"}, challenge : Challenges,
                permission : Permissions \cup {None}]

IdleLogin == [step |-> "idle", server |-> None, challenge |-> None, user |-> None]

TypeOK ==
    /\ accounts \in [Users -> Accounts]
    /\ challenges \in [Challenges -> {"absent", "open", "gone"}]
    /\ sessions \in Seq(SessionRows)
    /\ bound \in [Approvals -> Permissions \cup {None}]
    /\ over \subseteq Permissions
    /\ deployed \in [Servers -> Permissions \cup {None}]
    /\ login \in [Logins -> LoginStates]
    /\ lockedBy \in [Users -> Logins \cup {None}]

Init ==
    /\ accounts = [u \in Users |-> [status |-> "unknown", role |-> "viewer"]]
    /\ challenges = [c \in Challenges |-> "absent"]
    /\ sessions = <<>>
    /\ bound = [a \in Approvals |-> None]
    /\ over = {}
    /\ deployed \in [Servers -> Permissions \cup {None}]
    /\ login = [l \in Logins |-> IdleLogin]
    /\ lockedBy = [u \in Users |-> None]

-----------------------------------------------------------------------------
Scope(p) == IF p = None THEN None ELSE ApprovalOf[p]

\* permission_is_current: within its window, and what its id was bound to.
Current(p) == p \notin over /\ bound[ApprovalOf[p]] = p

\* A slip: the approval is bound to whatever comes.
Rebindable(p) == p \notin over

\* bind_permission lets a permission pass: within its window, and its id not
\* bound to another.
Bindable(p) == p \notin over /\ bound[ApprovalOf[p]] \in {None, p}

Bind(p) == bound' = [bound EXCEPT ![ApprovalOf[p]] = p]

Unlocked(u) == lockedBy[u] = None

\* provision_scoped_user creates the account a permission lists, leaves one that
\* exists just so, and refuses any other; provision_user, of a local deployment,
\* creates an account.
Provision(s, u, role) ==
    LET p == deployed[s] IN
    /\ p # None => Bindable(p) /\ <<u, role>> \in ListedBy[p]
    /\ Unlocked(u)
    /\ \/ accounts[u].status = "unknown"
       \/ p # None /\ accounts[u] = [status |-> "active", role |-> role]
    /\ accounts' = [accounts EXCEPT ![u] = [status |-> "active", role |-> role]]
    /\ IF p # None THEN Bind(p) ELSE UNCHANGED bound
    /\ UNCHANGED <<challenges, sessions, over, deployed, login, lockedBy>>

SetRole(u, role) ==
    /\ accounts[u].status # "unknown" /\ Unlocked(u)
    /\ accounts' = [accounts EXCEPT ![u].role = role]
    /\ UNCHANGED <<challenges, sessions, bound, over, deployed, login, lockedBy>>

\* A slip: the sessions are revoked without waiting for the user's lock.
RevokeAtOnce(u) ==
    /\ accounts[u].status # "unknown"
    /\ accounts' = [accounts EXCEPT ![u].status = "revoked"]
    /\ sessions' = [k \in DOMAIN sessions |->
                      IF sessions[k].user = u THEN [sessions[k] EXCEPT !.state = "revoked"]
                      ELSE sessions[k]]
    /\ UNCHANGED <<challenges, bound, over, deployed, login, lockedBy>>

\* revoke_user, under the user's lock, revokes the sessions as well.
Revoke(u) ==
    /\ accounts[u].status # "unknown" /\ Unlocked(u)
    /\ accounts' = [accounts EXCEPT ![u].status = "revoked"]
    /\ sessions' = [k \in DOMAIN sessions |->
                      IF sessions[k].user = u THEN [sessions[k] EXCEPT !.state = "revoked"]
                      ELSE sessions[k]]
    /\ UNCHANGED <<challenges, bound, over, deployed, login, lockedBy>>

-----------------------------------------------------------------------------
\* The handler goes on from one step to the next.
Goto(l, from, to) == login[l].step = from /\ login' = [login EXCEPT ![l].step = to]

Challenge(s, c) ==
    /\ challenges[c] = "absent"
    /\ deployed[s] \notin over
    /\ challenges' = [challenges EXCEPT ![c] = "open"]
    /\ UNCHANGED <<accounts, sessions, bound, over, deployed, login, lockedBy>>

\* A slip: the challenge stays until the login is over.
PeekChallenge(l, s, c) ==
    /\ login[l].step = "idle"
    /\ deployed[s] \notin over
    /\ challenges[c] = "open"
    /\ login' = [login EXCEPT ![l] = [step |-> IF deployed[s] = None THEN "bound" ELSE "consumed",
                                      server |-> s, challenge |-> c, user |-> None]]
    /\ UNCHANGED <<accounts, sessions, bound, over, deployed, lockedBy, challenges>>

\* login, up to consume_login_state, which deletes the challenge.  A local
\* deployment reserves nothing.
ConsumeChallenge(l, s, c) ==
    /\ login[l].step = "idle"
    /\ deployed[s] \notin over
    /\ challenges[c] = "open"
    /\ challenges' = [challenges EXCEPT ![c] = "gone"]
    /\ login' = [login EXCEPT ![l] = [step |-> IF deployed[s] = None THEN "bound" ELSE "consumed",
                                      server |-> s, challenge |-> c, user |-> None]]
    /\ UNCHANGED <<accounts, sessions, bound, over, deployed, lockedBy>>

\* reserve_provider_call binds the permission before the exchange is made.
ReserveExchange(l) ==
    LET p == deployed[login[l].server] IN
    /\ Goto(l, "consumed", "bound")
    /\ Bindable(p)
    /\ Bind(p)
    /\ UNCHANGED <<accounts, challenges, sessions, over, deployed, lockedBy>>

\* The provider vouches for a user.
Authenticate(l, u) ==
    /\ login[l].step = "bound"
    /\ login' = [login EXCEPT ![l] = [@ EXCEPT !.step = "authenticated", !.user = u]]
    /\ UNCHANGED <<accounts, challenges, sessions, bound, over, deployed, lockedBy>>

\* approved_identity and resolve_identity, which a local deployment leaves out.
CheckIdentity(l) ==
    LET p == deployed[login[l].server] IN
    /\ Goto(l, "authenticated", "checked")
    /\ p # None =>
         /\ Current(p)
         /\ \E role \in Roles : <<login[l].user, role>> \in ListedBy[p]
         /\ accounts[login[l].user].status = "active"
    /\ UNCHANGED <<accounts, challenges, sessions, bound, over, deployed, lockedBy>>

\* issue_session locks the user, who must be active ...
LockUser(l) ==
    LET u == login[l].user IN
    /\ Goto(l, "checked", "issuing")
    /\ Unlocked(u) /\ accounts[u].status = "active"
    /\ lockedBy' = [lockedBy EXCEPT ![u] = l]
    /\ UNCHANGED <<accounts, challenges, sessions, bound, over, deployed>>

\* ... and commits the session.
Issue(l) ==
    LET u == login[l].user
        p == deployed[login[l].server]
    IN
    /\ login[l].step = "issuing"
    /\ Len(sessions) < MaxSessions
    /\ sessions' = Append(sessions, [user |-> u, scope |-> Scope(p), state |-> "live",
                                     challenge |-> login[l].challenge, permission |-> p])
    /\ login' = [login EXCEPT ![l] = IdleLogin]
    /\ lockedBy' = [lockedBy EXCEPT ![u] = None]
    /\ UNCHANGED <<accounts, challenges, bound, over, deployed>>

\* A check fails, the provider refuses or does not answer in time, the quota is
\* spent, the connection breaks: the login has to be started anew.
Abandon(l) ==
    /\ login[l].step # "idle"
    /\ login' = [login EXCEPT ![l] = IdleLogin]
    /\ lockedBy' = [u \in Users |-> IF lockedBy[u] = l THEN None ELSE lockedBy[u]]
    /\ UNCHANGED <<accounts, challenges, sessions, bound, over, deployed>>

-----------------------------------------------------------------------------
\* A server lets a session in: resolve_session, and check_actor in every
\* operation.
Accepts(s, k) ==
    LET session == sessions[k]
        p == deployed[s]
    IN  /\ session.state = "live"
        /\ accounts[session.user].status = "active"
        /\ session.scope = Scope(p)
        /\ p # None => Current(p) /\ <<session.user, accounts[session.user].role>> \in ListedBy[p]

Logout(s, k) ==
    /\ Accepts(s, k)
    /\ sessions' = [sessions EXCEPT ![k].state = "revoked"]
    /\ UNCHANGED <<accounts, challenges, bound, over, deployed, login, lockedBy>>

SessionExpires(k) ==
    /\ sessions[k].state = "live"
    /\ sessions' = [sessions EXCEPT ![k].state = "expired"]
    /\ UNCHANGED <<accounts, challenges, bound, over, deployed, login, lockedBy>>

ChallengeExpires(c) ==
    /\ challenges[c] = "open"
    /\ challenges' = [challenges EXCEPT ![c] = "gone"]
    /\ UNCHANGED <<accounts, sessions, bound, over, deployed, login, lockedBy>>

WindowEnds(p) ==
    /\ p \notin over
    /\ over' = over \cup {p}
    /\ UNCHANGED <<accounts, challenges, sessions, bound, deployed, login, lockedBy>>

\* A server is restarted with other settings; its requests die with it.
Redeploy(s, p) ==
    /\ deployed' = [deployed EXCEPT ![s] = p]
    /\ login' = [l \in Logins |-> IF login[l].server = s THEN IdleLogin ELSE login[l]]
    /\ lockedBy' = [u \in Users |->
                      IF lockedBy[u] # None /\ login[lockedBy[u]].server = s THEN None
                      ELSE lockedBy[u]]
    /\ UNCHANGED <<accounts, challenges, sessions, bound, over>>

-----------------------------------------------------------------------------
LoginStep(l) ==
    \/ \E s \in Servers, c \in Challenges : ConsumeChallenge(l, s, c)
    \/ ReserveExchange(l)
    \/ \E u \in Users : Authenticate(l, u)
    \/ CheckIdentity(l)
    \/ LockUser(l)
    \/ Issue(l)
    \/ Abandon(l)

Next ==
    \/ \E l \in Logins : LoginStep(l)
    \/ \E s \in Servers, c \in Challenges : Challenge(s, c)
    \/ \E s \in Servers, u \in Users, role \in Roles : Provision(s, u, role)
    \/ \E u \in Users, role \in Roles : SetRole(u, role)
    \/ \E u \in Users : Revoke(u)
    \/ \E s \in Servers, k \in DOMAIN sessions : Logout(s, k)
    \/ \E k \in DOMAIN sessions : SessionExpires(k)
    \/ \E c \in Challenges : ChallengeExpires(c)
    \/ \E p \in Permissions : WindowEnds(p)
    \/ \E s \in Servers, p \in Permissions \cup {None} : Redeploy(s, p)

Spec == Init /\ [][Next]_vars

-----------------------------------------------------------------------------
\* A revoked user has no live session and never gets one again, not even from a
\* login that had been checked before the revocation (revoke_user and
\* issue_session lock the same row).
RevokedUsersAreOut ==
    \A k \in DOMAIN sessions :
        sessions[k].state = "live" => accounts[sessions[k].user].status = "active"

\* Revocation is for good: no provisioning and no login makes the account
\* active again.
RevocationIsFinal ==
    [][\A u \in Users : accounts[u].status = "revoked" => accounts'[u].status = "revoked"]_vars

\* One challenge makes one session at most, however often it is presented
\* (handoff: "Login requires a consumed one-time state").
OneSessionPerChallenge ==
    \A j, k \in DOMAIN sessions :
        sessions[j].challenge = sessions[k].challenge => j = k

\* A session is let in only by a deployment with the very permission it was
\* issued under: changing what an approval id stands for revives no session,
\* and neither does a change from a local to a real deployment (contract:
\* "Extending expiry or otherwise changing the same approval ID cannot revive
\* old sessions").
SessionsStayInTheirScope ==
    \A s \in Servers, k \in DOMAIN sessions :
        Accepts(s, k) => sessions[k].permission = deployed[s]
=============================================================================
