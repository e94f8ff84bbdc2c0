--------------------------- MODULE SessionsProofs ---------------------------
(***************************************************************************)
(* Proofs about Sessions for any users, servers, logins and permissions.   *)
(***************************************************************************)
EXTENDS Sessions, SequenceTheorems, TLAPS

-----------------------------------------------------------------------------
\* What a login has gone through.
Busy(l) == login[l].step # "idle"
Known(l) == login[l].step \in {"authenticated", "checked", "issuing"}
Reserved(l) == login[l].step \in {"bound", "authenticated", "checked", "issuing"}

\* The lock of a user is with a login that is issuing a session to an active
\* user, and with no other.
LockInv ==
    /\ \A u \in Users : lockedBy[u] # None =>
         /\ login[lockedBy[u]].step = "issuing"
         /\ login[lockedBy[u]].user = u
         /\ accounts[u].status = "active"
    /\ \A l \in Logins : login[l].step = "issuing" =>
         lockedBy[login[l].user] = l

\* A login under way has what its steps have brought it.
LoginInv ==
    \A l \in Logins :
        /\ Busy(l) => login[l].server \in Servers /\ login[l].challenge \in Challenges
        /\ Known(l) => login[l].user \in Users
        /\ login[l].step = "consumed" => deployed[login[l].server] # None

\* A challenge that a login has consumed or a session was made of is gone, and
\* belongs to that one alone.
ChallengeInv ==
    /\ \A l \in Logins : Busy(l) => challenges[login[l].challenge] = "gone"
    /\ \A k \in DOMAIN sessions : challenges[sessions[k].challenge] = "gone"
    /\ \A l, m \in Logins :
         Busy(l) /\ Busy(m) /\ login[l].challenge = login[m].challenge => l = m
    /\ \A l \in Logins, k \in DOMAIN sessions :
         Busy(l) => login[l].challenge # sessions[k].challenge

\* The permission of a session, and that of a login that has reserved its
\* exchange, are what their approval ids are bound to.
ScopeInv ==
    /\ \A k \in DOMAIN sessions :
         /\ sessions[k].scope = Scope(sessions[k].permission)
         /\ sessions[k].permission # None =>
              bound[ApprovalOf[sessions[k].permission]] = sessions[k].permission
    /\ \A l \in Logins : Reserved(l) /\ deployed[login[l].server] # None =>
         bound[ApprovalOf[deployed[login[l].server]]] = deployed[login[l].server]

SessionsInv ==
    /\ TypeOK
    /\ LoginInv
    /\ LockInv
    /\ RevokedUsersAreOut
    /\ ChallengeInv
    /\ OneSessionPerChallenge
    /\ ScopeInv

-----------------------------------------------------------------------------
LEMMA ScopeType == \A p \in Permissions \cup {None} : Scope(p) \in Approvals \cup {None}
  BY DEF Scope, Approvals

LEMMA Overwritten ==
    ASSUME NEW S, NEW s \in Seq(S), NEW t, DOMAIN t = DOMAIN s, t = [k \in DOMAIN s |-> t[k]],
           \A k \in DOMAIN s : t[k] \in S
    PROVE  t \in Seq(S)
  <1>1. DOMAIN s = 1..Len(s) /\ Len(s) \in Nat
    OBVIOUS
  <1>2. t \in [1..Len(s) -> S]
    BY <1>1
  <1> QED
    BY <1>1, <1>2

LEMMA TypeStep ==
    ASSUME TypeOK, LoginInv, [Next]_vars
    PROVE  TypeOK'
  <1> USE DEF TypeOK
  <1>1. ASSUME NEW l \in Logins, LoginStep(l) PROVE TypeOK'
    <2>1. CASE \E s \in Servers, c \in Challenges : ConsumeChallenge(l, s, c)
      <3> PICK s \in Servers, c \in Challenges : ConsumeChallenge(l, s, c)
        BY <2>1
      <3> DEFINE begun == [step |-> IF deployed[s] = None THEN "bound" ELSE "consumed",
                           server |-> s, challenge |-> c, user |-> None]
      <3>1. begun \in LoginStates
        BY DEF LoginStates, Steps
      <3>2. login' = [login EXCEPT ![l] = begun]
        BY DEF ConsumeChallenge
      <3> HIDE DEF begun
      <3>3. login' \in [Logins -> LoginStates]
        BY <3>1, <3>2
      <3> QED
        BY <3>3 DEF ConsumeChallenge
    <2>2. CASE ReserveExchange(l)
      <3>1. login' \in [Logins -> LoginStates]
        BY <2>2 DEF ReserveExchange, Goto, LoginStates, Steps
      <3>2. deployed[login[l].server] \in Permissions \cup {None}
        BY <2>2 DEF ReserveExchange, Goto, LoginInv, Busy
      <3>3. bound' \in [Approvals -> Permissions \cup {None}]
        BY <2>2, <3>2 DEF ReserveExchange, Bind
      <3> QED
        BY <2>2, <3>1, <3>3 DEF ReserveExchange
    <2>3. CASE \E u \in Users : Authenticate(l, u)
      <3> PICK u \in Users : Authenticate(l, u)
        BY <2>3
      <3> DEFINE after == [login[l] EXCEPT !.step = "authenticated", !.user = u]
      <3>1. after \in LoginStates
        <4>1. login[l] \in LoginStates
          OBVIOUS
        <4> QED
          BY <4>1 DEF LoginStates, Steps
      <3>2. login' = [login EXCEPT ![l] = after]
        BY DEF Authenticate
      <3> HIDE DEF after
      <3>3. login' \in [Logins -> LoginStates]
        BY <3>1, <3>2
      <3> QED
        BY <3>3 DEF Authenticate
    <2>4. CASE CheckIdentity(l)
      BY <2>4 DEF CheckIdentity, Goto, LoginStates, Steps
    <2>5. CASE LockUser(l)
      BY <2>5 DEF LockUser, Goto, LoginStates, Steps
    <2>6. CASE Issue(l)
      <3> DEFINE p == deployed[login[l].server]
                 row == [user |-> login[l].user, scope |-> Scope(p), state |-> "live",
                         challenge |-> login[l].challenge, permission |-> p]
      <3>1. login[l].user \in Users /\ p \in Permissions \cup {None} /\ login[l].challenge \in Challenges
        BY <2>6 DEF Issue, LoginInv, Known, Busy
      <3>2. row \in SessionRows
        BY <3>1, ScopeType DEF SessionRows
      <3>3. sessions' \in Seq(SessionRows)
        BY <2>6, <3>2 DEF Issue
      <3> QED
        BY <2>6, <3>3 DEF Issue, IdleLogin, LoginStates, Steps
    <2>7. CASE Abandon(l)
      BY <2>7 DEF Abandon, IdleLogin, LoginStates, Steps
    <2> QED
      BY <1>1, <2>1, <2>2, <2>3, <2>4, <2>5, <2>6, <2>7 DEF LoginStep
  <1>2. ASSUME NEW s \in Servers, NEW c \in Challenges, Challenge(s, c) PROVE TypeOK'
    BY <1>2 DEF Challenge
  <1>3. ASSUME NEW s \in Servers, NEW u \in Users, NEW role \in Roles, Provision(s, u, role)
        PROVE  TypeOK'
    BY <1>3 DEF Provision, Bind, Accounts
  <1>4. ASSUME NEW u \in Users, NEW role \in Roles, SetRole(u, role) PROVE TypeOK'
    BY <1>4 DEF SetRole, Accounts
  <1>5. ASSUME NEW u \in Users, Revoke(u) PROVE TypeOK'
    <2> DEFINE ended(k) == [sessions[k] EXCEPT !.state = "revoked"]
    <2>0. \A k \in DOMAIN sessions : sessions[k] \in SessionRows
      OBVIOUS
    <2>3. \A k \in DOMAIN sessions : ended(k) \in SessionRows
      BY <2>0 DEF SessionRows
    <2>4. /\ sessions' = [k \in DOMAIN sessions |->
                            IF sessions[k].user = u THEN ended(k) ELSE sessions[k]]
          /\ DOMAIN sessions' = DOMAIN sessions
      BY <1>5 DEF Revoke
    <2> HIDE DEF ended
    <2>1. \A k \in DOMAIN sessions : sessions'[k] \in SessionRows
      BY <2>0, <2>3, <2>4
    <2>2. sessions' \in Seq(SessionRows)
      BY <2>1, <2>4, Overwritten
    <2> QED
      BY <1>5, <2>2 DEF Revoke, Accounts
  <1>6. ASSUME NEW s \in Servers, NEW k \in DOMAIN sessions, Logout(s, k) PROVE TypeOK'
    <2>1. sessions[k] \in SessionRows
      OBVIOUS
    <2>2. [sessions[k] EXCEPT !.state = "revoked"] \in SessionRows
      BY <2>1 DEF SessionRows
    <2> QED
      BY <1>6, <2>2 DEF Logout
  <1>7. ASSUME NEW k \in DOMAIN sessions, SessionExpires(k) PROVE TypeOK'
    <2>1. sessions[k] \in SessionRows
      OBVIOUS
    <2>2. [sessions[k] EXCEPT !.state = "expired"] \in SessionRows
      BY <2>1 DEF SessionRows
    <2> QED
      BY <1>7, <2>2 DEF SessionExpires
  <1>8. ASSUME NEW c \in Challenges, ChallengeExpires(c) PROVE TypeOK'
    BY <1>8 DEF ChallengeExpires
  <1>9. ASSUME NEW p \in Permissions, WindowEnds(p) PROVE TypeOK'
    BY <1>9 DEF WindowEnds
  <1>10. ASSUME NEW s \in Servers, NEW p \in Permissions \cup {None}, Redeploy(s, p) PROVE TypeOK'
    BY <1>10 DEF Redeploy, IdleLogin, LoginStates, Steps
  <1>11. CASE UNCHANGED vars
    BY <1>11 DEF vars
  <1> QED
    BY <1>1, <1>2, <1>3, <1>4, <1>5, <1>6, <1>7, <1>8, <1>9, <1>10, <1>11 DEF Next

-----------------------------------------------------------------------------
LEMMA LoginInvStep ==
    ASSUME TypeOK, LoginInv, [Next]_vars
    PROVE  LoginInv'
  <1> USE DEF LoginInv, Busy, Known
  <1>1. ASSUME NEW l \in Logins, LoginStep(l) PROVE LoginInv'
    <2> USE DEF TypeOK
    <2>1. CASE \E s \in Servers, c \in Challenges : ConsumeChallenge(l, s, c)
      BY <2>1 DEF ConsumeChallenge
    <2>2. CASE ReserveExchange(l)
      BY <2>2 DEF ReserveExchange, Goto, LoginStates
    <2>3. CASE \E u \in Users : Authenticate(l, u)
      BY <2>3 DEF Authenticate, LoginStates
    <2>4. CASE CheckIdentity(l)
      BY <2>4 DEF CheckIdentity, Goto, LoginStates
    <2>5. CASE LockUser(l)
      BY <2>5 DEF LockUser, Goto, LoginStates
    <2>6. CASE Issue(l)
      BY <2>6 DEF Issue, IdleLogin
    <2>7. CASE Abandon(l)
      BY <2>7 DEF Abandon, IdleLogin
    <2> QED
      BY <1>1, <2>1, <2>2, <2>3, <2>4, <2>5, <2>6, <2>7 DEF LoginStep
  <1>2. ASSUME NEW s \in Servers, NEW p \in Permissions \cup {None}, Redeploy(s, p)
        PROVE  LoginInv'
    BY <1>2 DEF Redeploy, IdleLogin, TypeOK
  <1>3. CASE UNCHANGED <<login, deployed>>
    BY <1>3
  <1> QED
    BY <1>1, <1>2, <1>3 DEF Next, vars, Challenge, Provision, SetRole, Revoke, Logout,
                            SessionExpires, ChallengeExpires, WindowEnds

-----------------------------------------------------------------------------
(* Revocation and issuing exclude each other by the lock of the user.      *)

LEMMA LockInvStep ==
    ASSUME TypeOK, LoginInv, LockInv, [Next]_vars
    PROVE  LockInv'
  <1> USE DEF LockInv, TypeOK
  <1>1. ASSUME NEW l \in Logins, LoginStep(l) PROVE LockInv'
    <2>1. CASE \E s \in Servers, c \in Challenges : ConsumeChallenge(l, s, c)
      BY <2>1 DEF ConsumeChallenge
    <2>2. CASE ReserveExchange(l)
      BY <2>2 DEF ReserveExchange, Goto, LoginStates
    <2>3. CASE \E u \in Users : Authenticate(l, u)
      BY <2>3 DEF Authenticate, LoginStates
    <2>4. CASE CheckIdentity(l)
      BY <2>4 DEF CheckIdentity, Goto, LoginStates
    <2>5. CASE LockUser(l)
      BY <2>5, SessionsAssumption DEF LockUser, Goto, LoginStates, Unlocked, LoginInv, Known
    <2>6. CASE Issue(l)
      BY <2>6, SessionsAssumption DEF Issue, IdleLogin, LoginInv, Known
    <2>7. CASE Abandon(l)
      BY <2>7, SessionsAssumption DEF Abandon, IdleLogin, LoginInv, Known
    <2> QED
      BY <1>1, <2>1, <2>2, <2>3, <2>4, <2>5, <2>6, <2>7 DEF LoginStep
  <1>2. ASSUME NEW s \in Servers, NEW p \in Permissions \cup {None}, Redeploy(s, p)
        PROVE  LockInv'
    BY <1>2, SessionsAssumption DEF Redeploy, IdleLogin, LoginInv, Known
  <1>3. ASSUME NEW s \in Servers, NEW u \in Users, NEW role \in Roles, Provision(s, u, role)
        PROVE  LockInv'
    BY <1>3 DEF Provision, Unlocked, Accounts
  <1>4. ASSUME NEW u \in Users, NEW role \in Roles, SetRole(u, role) PROVE LockInv'
    BY <1>4 DEF SetRole, Unlocked, Accounts
  <1>5. ASSUME NEW u \in Users, Revoke(u) PROVE LockInv'
    BY <1>5 DEF Revoke, Unlocked, Accounts
  <1>6. CASE UNCHANGED <<login, lockedBy, accounts>>
    BY <1>6
  <1> QED
    BY <1>1, <1>2, <1>3, <1>4, <1>5, <1>6
       DEF Next, vars, Challenge, Logout, SessionExpires, ChallengeExpires, WindowEnds

LEMMA RevokedUsersAreOutStep ==
    ASSUME TypeOK, LoginInv, LockInv, RevokedUsersAreOut, [Next]_vars
    PROVE  RevokedUsersAreOut'
  <1> USE DEF RevokedUsersAreOut, TypeOK
  <1>1. \A k \in DOMAIN sessions : sessions[k] \in SessionRows
    OBVIOUS
  <1>2. ASSUME NEW l \in Logins, Issue(l) PROVE RevokedUsersAreOut'
    <2>1. accounts[login[l].user].status = "active"
      BY <1>2, SessionsAssumption DEF Issue, LockInv, LoginInv, Known
    <2>2. /\ accounts' = accounts
          /\ \A k \in DOMAIN sessions' :
               \/ k \in DOMAIN sessions /\ sessions'[k] = sessions[k]
               \/ sessions'[k].user = login[l].user
      BY <1>2 DEF Issue
    <2> QED
      BY <2>1, <2>2
  <1>3. ASSUME NEW s \in Servers, NEW u \in Users, NEW role \in Roles, Provision(s, u, role)
        PROVE  RevokedUsersAreOut'
    BY <1>1, <1>3 DEF Provision, Accounts, SessionRows
  <1>4. ASSUME NEW u \in Users, NEW role \in Roles, SetRole(u, role) PROVE RevokedUsersAreOut'
    BY <1>1, <1>4 DEF SetRole, Accounts, SessionRows
  <1>5. ASSUME NEW u \in Users, Revoke(u) PROVE RevokedUsersAreOut'
    BY <1>1, <1>5 DEF Revoke, Accounts, SessionRows
  <1>6. ASSUME NEW s \in Servers, NEW k \in DOMAIN sessions, Logout(s, k)
        PROVE  RevokedUsersAreOut'
    BY <1>1, <1>6 DEF Logout, SessionRows
  <1>7. ASSUME NEW k \in DOMAIN sessions, SessionExpires(k) PROVE RevokedUsersAreOut'
    BY <1>1, <1>7 DEF SessionExpires, SessionRows
  <1>8. CASE UNCHANGED <<sessions, accounts>>
    BY <1>8
  <1> QED
    BY <1>2, <1>3, <1>4, <1>5, <1>6, <1>7, <1>8
       DEF Next, vars, LoginStep, ConsumeChallenge, ReserveExchange, Authenticate, CheckIdentity,
           LockUser, Abandon, Challenge, ChallengeExpires, WindowEnds, Redeploy

-----------------------------------------------------------------------------
(* A session's origin (its challenge, permission and scope) never changes. *)

OriginsKept ==
    /\ DOMAIN sessions' = DOMAIN sessions
    /\ \A k \in DOMAIN sessions :
         /\ sessions'[k].challenge = sessions[k].challenge
         /\ sessions'[k].scope = sessions[k].scope
         /\ sessions'[k].permission = sessions[k].permission

LEMMA OnlyIssueAddsSessions ==
    ASSUME TypeOK, [Next]_vars
    PROVE  OriginsKept \/ \E l \in Logins : Issue(l)
  <1> USE DEF OriginsKept, TypeOK
  <1>1. \A k \in DOMAIN sessions : sessions[k] \in SessionRows
    OBVIOUS
  <1>2. ASSUME NEW u \in Users, Revoke(u) PROVE OriginsKept
    BY <1>1, <1>2 DEF Revoke, SessionRows
  <1>3. ASSUME NEW s \in Servers, NEW k \in DOMAIN sessions, Logout(s, k) PROVE OriginsKept
    BY <1>1, <1>3 DEF Logout, SessionRows
  <1>4. ASSUME NEW k \in DOMAIN sessions, SessionExpires(k) PROVE OriginsKept
    BY <1>1, <1>4 DEF SessionExpires, SessionRows
  <1>5. CASE UNCHANGED sessions
    BY <1>5
  <1> QED
    BY <1>2, <1>3, <1>4, <1>5
       DEF Next, vars, LoginStep, ConsumeChallenge, ReserveExchange, Authenticate, CheckIdentity,
           LockUser, Abandon, Challenge, ChallengeExpires, WindowEnds, Redeploy, Provision, SetRole

\* What issuing appends.
LEMMA IssueAppends ==
    ASSUME TypeOK, NEW l \in Logins, Issue(l)
    PROVE  \A k \in DOMAIN sessions' :
             \/ k \in DOMAIN sessions /\ sessions'[k] = sessions[k]
             \/ /\ k \notin DOMAIN sessions
                /\ k = Len(sessions) + 1
                /\ sessions'[k].challenge = login[l].challenge
                /\ sessions'[k].permission = deployed[login[l].server]
                /\ sessions'[k].scope = Scope(deployed[login[l].server])
  BY DEF Issue, TypeOK

LEMMA ChallengeInvStep ==
    ASSUME TypeOK, LoginInv, ChallengeInv, OneSessionPerChallenge, [Next]_vars
    PROVE  ChallengeInv' /\ OneSessionPerChallenge'
  <1> USE DEF ChallengeInv, OneSessionPerChallenge, Busy
  <1> DEFINE
        Kept == OriginsKept /\ \A c \in Challenges : challenges[c] = "gone" => challenges'[c] = "gone"
        NoneBegun == \A l \in Logins : Busy(l)' => Busy(l) /\ login'[l].challenge = login[l].challenge
  <1>0. /\ \A k \in DOMAIN sessions : sessions[k].challenge \in Challenges
        /\ \A l \in Logins : Busy(l) => login[l].challenge \in Challenges
    <2>1. \A k \in DOMAIN sessions : sessions[k] \in SessionRows
      BY DEF TypeOK
    <2> QED
      BY <2>1 DEF SessionRows, LoginInv
  <1>1. ASSUME Kept, NoneBegun PROVE ChallengeInv' /\ OneSessionPerChallenge'
    BY <1>0, <1>1 DEF OriginsKept
  <1>2. ASSUME NEW l \in Logins, NEW s \in Servers, NEW c \in Challenges, ConsumeChallenge(l, s, c)
        PROVE  ChallengeInv' /\ OneSessionPerChallenge'
    BY <1>0, <1>2 DEF ConsumeChallenge, TypeOK
  <1>3. ASSUME NEW l \in Logins, Issue(l) PROVE ChallengeInv' /\ OneSessionPerChallenge'
    <2>1. /\ challenges' = challenges
          /\ Busy(l) /\ ~Busy(l)'
          /\ \A m \in Logins : m # l => login'[m] = login[m]
      BY <1>3 DEF Issue, IdleLogin, TypeOK
    <2>2. OneSessionPerChallenge'
      BY <1>3, <2>1, IssueAppends
    <2>3. ChallengeInv'
      BY <1>3, <2>1, IssueAppends
    <2> QED
      BY <2>2, <2>3
  <1>4. ASSUME NEW l \in Logins, LoginStep(l), OriginsKept
        PROVE  ChallengeInv' /\ OneSessionPerChallenge'
    <2>1. CASE \E s \in Servers, c \in Challenges : ConsumeChallenge(l, s, c)
      BY <1>2, <2>1
    <2>2. CASE ReserveExchange(l)
      BY <1>1, <1>4, <2>2 DEF ReserveExchange, Goto, TypeOK, LoginStates
    <2>3. CASE \E u \in Users : Authenticate(l, u)
      BY <1>1, <1>4, <2>3 DEF Authenticate, TypeOK, LoginStates
    <2>4. CASE CheckIdentity(l)
      BY <1>1, <1>4, <2>4 DEF CheckIdentity, Goto, TypeOK, LoginStates
    <2>5. CASE LockUser(l)
      BY <1>1, <1>4, <2>5 DEF LockUser, Goto, TypeOK, LoginStates
    <2>6. CASE Issue(l)
      BY <1>3, <2>6
    <2>7. CASE Abandon(l)
      BY <1>1, <1>4, <2>7 DEF Abandon, IdleLogin, TypeOK
    <2> QED
      BY <1>4, <2>1, <2>2, <2>3, <2>4, <2>5, <2>6, <2>7 DEF LoginStep
  <1>5. ASSUME NEW s \in Servers, NEW c \in Challenges, Challenge(s, c), OriginsKept
        PROVE  ChallengeInv' /\ OneSessionPerChallenge'
    BY <1>1, <1>5 DEF Challenge, TypeOK
  <1>6. ASSUME NEW c \in Challenges, ChallengeExpires(c), OriginsKept
        PROVE  ChallengeInv' /\ OneSessionPerChallenge'
    BY <1>1, <1>6 DEF ChallengeExpires, TypeOK
  <1>7. ASSUME NEW s \in Servers, NEW p \in Permissions \cup {None}, Redeploy(s, p), OriginsKept
        PROVE  ChallengeInv' /\ OneSessionPerChallenge'
    BY <1>1, <1>7 DEF Redeploy, IdleLogin, TypeOK
  <1>8. ASSUME UNCHANGED <<challenges, login>>, OriginsKept
        PROVE  ChallengeInv' /\ OneSessionPerChallenge'
    BY <1>1, <1>8
  <1>9. CASE OriginsKept
    BY <1>4, <1>5, <1>6, <1>7, <1>8, <1>9
       DEF Next, vars, Provision, SetRole, Revoke, Logout, SessionExpires, WindowEnds
  <1> QED
    BY <1>3, <1>9, OnlyIssueAddsSessions

-----------------------------------------------------------------------------
(* What an approval id is bound to stays so.                               *)

BindingsKept == \A a \in Approvals : bound[a] # None => bound'[a] = bound[a]

LEMMA BindingsStay ==
    ASSUME TypeOK, LoginInv, [Next]_vars
    PROVE  BindingsKept
  <1> USE DEF BindingsKept
  <1>1. ASSUME NEW l \in Logins, ReserveExchange(l) PROVE BindingsKept
    BY <1>1 DEF ReserveExchange, Bindable, Bind, TypeOK
  <1>2. ASSUME NEW s \in Servers, NEW u \in Users, NEW role \in Roles, Provision(s, u, role)
        PROVE  BindingsKept
    BY <1>2 DEF Provision, Bindable, Bind, TypeOK
  <1>3. CASE UNCHANGED bound
    BY <1>3
  <1> QED
    BY <1>1, <1>2, <1>3
       DEF Next, vars, LoginStep, ConsumeChallenge, Authenticate, CheckIdentity, LockUser, Issue,
           Abandon, Challenge, ChallengeExpires, WindowEnds, Redeploy, SetRole, Revoke, Logout,
           SessionExpires

LEMMA ScopeInvStep ==
    ASSUME TypeOK, LoginInv, ScopeInv, [Next]_vars
    PROVE  ScopeInv'
  <1> DEFINE
        SessionsBound ==
          \A k \in DOMAIN sessions :
            /\ sessions[k].scope = Scope(sessions[k].permission)
            /\ sessions[k].permission # None =>
                 bound[ApprovalOf[sessions[k].permission]] = sessions[k].permission
        LoginsBound ==
          \A l \in Logins : Reserved(l) /\ deployed[login[l].server] # None =>
            bound[ApprovalOf[deployed[login[l].server]]] = deployed[login[l].server]
        \* No login comes to have reserved its exchange, and none is moved.
        NoneReserved ==
          \A l \in Logins : Reserved(l)' =>
            /\ Reserved(l)
            /\ login'[l].server = login[l].server
            /\ deployed'[login[l].server] = deployed[login[l].server]
  <1>1. BindingsKept
    BY BindingsStay
  <1>2. /\ \A k \in DOMAIN sessions : sessions[k].permission \in Permissions \cup {None}
        /\ \A l \in Logins : Reserved(l) => /\ login[l].server \in Servers
                                            /\ deployed[login[l].server] \in Permissions \cup {None}
    <2>1. \A k \in DOMAIN sessions : sessions[k] \in SessionRows
      BY DEF TypeOK
    <2>2. \A l \in Logins : Reserved(l) => login[l].server \in Servers
      BY DEF Reserved, LoginInv, Busy
    <2> QED
      BY <2>1, <2>2 DEF SessionRows, TypeOK
  <1>3. \A p \in Permissions : ApprovalOf[p] \in Approvals
    BY DEF Approvals
  <1>4. SessionsBound /\ LoginsBound
    BY DEF ScopeInv
  <1>5. SessionsBound'
    <2>1. CASE OriginsKept
      BY <1>1, <1>2, <1>3, <1>4, <2>1 DEF OriginsKept, BindingsKept, Scope
    <2>2. ASSUME NEW l \in Logins, Issue(l) PROVE SessionsBound'
      <3>1. bound' = bound /\ Reserved(l)
        BY <2>2 DEF Issue, Reserved
      <3> QED
        BY <1>2, <1>4, <2>2, <3>1, IssueAppends DEF Scope
    <2> QED
      BY <2>1, <2>2, OnlyIssueAddsSessions
  <1>6. ASSUME NoneReserved PROVE LoginsBound'
    BY <1>1, <1>2, <1>3, <1>4, <1>6 DEF BindingsKept
  <1>7. ASSUME NEW l \in Logins, LoginStep(l) PROVE LoginsBound'
    <2> USE DEF TypeOK, Reserved
    <2>1. CASE \E s \in Servers, c \in Challenges : ConsumeChallenge(l, s, c)
      <3> PICK s \in Servers, c \in Challenges : ConsumeChallenge(l, s, c)
        BY <2>1
      <3>1. /\ login'[l].server = s
            /\ deployed[s] # None => login'[l].step = "consumed"
            /\ \A m \in Logins : m # l => login'[m] = login[m]
            /\ UNCHANGED <<deployed, bound>>
        BY DEF ConsumeChallenge
      <3> QED
        BY <1>4, <3>1
    <2>2. CASE ReserveExchange(l)
      <3> DEFINE p == deployed[login[l].server]
      <3>1. /\ login'[l].server = login[l].server
            /\ \A m \in Logins : m # l => login'[m] = login[m]
            /\ deployed' = deployed
        BY <2>2 DEF ReserveExchange, Goto, LoginStates
      <3>2. p \in Permissions
        BY <2>2 DEF ReserveExchange, Goto, LoginInv, Busy
      <3>3. bound'[ApprovalOf[p]] = p
        BY <1>3, <2>2, <3>2 DEF ReserveExchange, Bind
      <3> QED
        BY <1>1, <1>2, <1>3, <1>4, <3>1, <3>3 DEF BindingsKept
    <2>3. CASE \E u \in Users : Authenticate(l, u)
      <3>1. NoneReserved
        BY <2>3 DEF Authenticate, LoginStates
      <3> QED
        BY <1>6, <3>1
    <2>4. CASE CheckIdentity(l)
      <3>1. NoneReserved
        BY <2>4 DEF CheckIdentity, Goto, LoginStates
      <3> QED
        BY <1>6, <3>1
    <2>5. CASE LockUser(l)
      <3>1. NoneReserved
        BY <2>5 DEF LockUser, Goto, LoginStates
      <3> QED
        BY <1>6, <3>1
    <2>6. CASE Issue(l)
      <3>1. NoneReserved
        BY <2>6 DEF Issue, IdleLogin
      <3> QED
        BY <1>6, <3>1
    <2>7. CASE Abandon(l)
      <3>1. NoneReserved
        BY <2>7 DEF Abandon, IdleLogin
      <3> QED
        BY <1>6, <3>1
    <2> HIDE DEF LoginsBound
    <2> QED
      BY <1>7, <2>1, <2>2, <2>3, <2>4, <2>5, <2>6, <2>7 DEF LoginStep
  <1>8. ASSUME NEW s \in Servers, NEW p \in Permissions \cup {None}, Redeploy(s, p)
        PROVE  LoginsBound'
    <2>1. NoneReserved
      BY <1>2, <1>8 DEF Redeploy, IdleLogin, TypeOK, Reserved
    <2> QED
      BY <1>6, <2>1
  <1>9. ASSUME UNCHANGED <<login, deployed>> PROVE LoginsBound'
    <2>1. NoneReserved
      BY <1>9 DEF Reserved
    <2> QED
      BY <1>6, <2>1
  <1> HIDE DEF LoginsBound
  <1>10. LoginsBound'
    BY <1>7, <1>8, <1>9
       DEF Next, vars, Challenge, Provision, SetRole, Revoke, Logout, SessionExpires,
           ChallengeExpires, WindowEnds
  <1> QED
    BY <1>5, <1>10 DEF ScopeInv, LoginsBound

-----------------------------------------------------------------------------
\* The invariant holds at first.
LEMMA InitInv == Init => SessionsInv
  <1> SUFFICES ASSUME Init PROVE SessionsInv
    OBVIOUS
  <1>1. TypeOK
    BY DEF Init, TypeOK, Accounts, Roles, SessionRows, LoginStates, Steps, IdleLogin
  <1>2. LoginInv /\ LockInv
    BY SessionsAssumption DEF Init, LoginInv, LockInv, Busy, Known, IdleLogin
  <1>3. DOMAIN sessions = {}
    BY DEF Init
  <1>4. RevokedUsersAreOut /\ OneSessionPerChallenge
    BY <1>3 DEF RevokedUsersAreOut, OneSessionPerChallenge
  <1>5. ChallengeInv /\ ScopeInv
    BY <1>3 DEF Init, ChallengeInv, ScopeInv, Busy, Reserved, IdleLogin
  <1> QED
    BY <1>1, <1>2, <1>4, <1>5 DEF SessionsInv

\* The invariant on which everything below rests: locks, challenges and
\* bindings are what the logins that use them take them to be.
THEOREM SessionsInvariant == Spec => []SessionsInv
  <1>1. Init => SessionsInv
    BY InitInv
  <1>2. SessionsInv /\ [Next]_vars => SessionsInv'
    BY TypeStep, LoginInvStep, LockInvStep, RevokedUsersAreOutStep, ChallengeInvStep, ScopeInvStep
       DEF SessionsInv
  <1> QED
    BY <1>1, <1>2, PTL DEF Spec

\* Every state is of its type.
THEOREM TypeCorrect == Spec => []TypeOK
  <1>1. SessionsInv => TypeOK
    BY DEF SessionsInv
  <1> QED
    BY <1>1, SessionsInvariant, PTL

\* A revoked user has no live session, whatever logins were under way
\* (revoke_user against issue_session).
THEOREM NoSessionAfterRevocation == Spec => []RevokedUsersAreOut
  <1>1. SessionsInv => RevokedUsersAreOut
    BY DEF SessionsInv
  <1> QED
    BY <1>1, SessionsInvariant, PTL

\* A login challenge makes one session at most (consume_login_state).
THEOREM ChallengesAreOneTime == Spec => []OneSessionPerChallenge
  <1>1. SessionsInv => OneSessionPerChallenge
    BY DEF SessionsInv
  <1> QED
    BY <1>1, SessionsInvariant, PTL

\* A session is let in only under the permission it was issued under, however
\* often the servers are restarted with others (bind_permission).
THEOREM ScopeHolds == Spec => []SessionsStayInTheirScope
  <1>1. SessionsInv => SessionsStayInTheirScope
    <2> SUFFICES ASSUME SessionsInv, NEW s \in Servers, NEW k \in DOMAIN sessions, Accepts(s, k)
                 PROVE  sessions[k].permission = deployed[s]
      BY DEF SessionsStayInTheirScope
    <2> DEFINE p == deployed[s]
               q == sessions[k].permission
    <2>1. p \in Permissions \cup {None} /\ q \in Permissions \cup {None}
      <3>1. sessions[k] \in SessionRows
        BY DEF SessionsInv, TypeOK
      <3> QED
        BY <3>1 DEF SessionsInv, TypeOK, SessionRows
    <2>2. Scope(q) = Scope(p)
      BY DEF Accepts, SessionsInv, ScopeInv
    <2>3. (p = None) <=> (q = None)
      BY <2>1, <2>2, SessionsAssumption DEF Scope, Approvals
    <2>4. CASE p # None
      <3>1. ApprovalOf[q] = ApprovalOf[p]
        BY <2>2, <2>3, <2>4 DEF Scope
      <3>2. bound[ApprovalOf[p]] = p
        BY <2>4 DEF Accepts, Current
      <3>3. bound[ApprovalOf[q]] = q
        BY <2>3, <2>4 DEF SessionsInv, ScopeInv
      <3> QED
        BY <3>1, <3>2, <3>3
    <2> QED
      BY <2>3, <2>4
  <1> QED
    BY <1>1, SessionsInvariant, PTL

\* An account that was revoked stays so (provision_scoped_user, provision_user).
THEOREM RevocationIsForGood == Spec => RevocationIsFinal
  <1> DEFINE Final == \A u \in Users : accounts[u].status = "revoked" => accounts'[u].status = "revoked"
  <1>1. TypeOK /\ [Next]_vars => [Final]_vars
    <2> SUFFICES ASSUME TypeOK, Next PROVE Final
      BY DEF vars
    <2> USE DEF TypeOK
    <2>1. ASSUME NEW s \in Servers, NEW u \in Users, NEW role \in Roles, Provision(s, u, role)
          PROVE  Final
      BY <2>1 DEF Provision, Accounts
    <2>2. ASSUME NEW u \in Users, NEW role \in Roles, SetRole(u, role) PROVE Final
      BY <2>2 DEF SetRole, Accounts
    <2>3. ASSUME NEW u \in Users, Revoke(u) PROVE Final
      BY <2>3 DEF Revoke, Accounts
    <2>4. CASE UNCHANGED accounts
      BY <2>4
    <2> QED
      BY <2>1, <2>2, <2>3, <2>4
         DEF Next, LoginStep, ConsumeChallenge, ReserveExchange, Authenticate, CheckIdentity, LockUser,
             Issue, Abandon, Challenge, ChallengeExpires, WindowEnds, Redeploy, Logout, SessionExpires
  <1> QED
    BY <1>1, TypeCorrect, PTL DEF Spec, RevocationIsFinal
=============================================================================
