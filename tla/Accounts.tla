------------------------------ MODULE Accounts ------------------------------
(***************************************************************************)
(* Sign-in, sessions and member roles: auth.router.ts, auth.service.ts,    *)
(* postgres-auth.repository.ts and postgres-member-roles.repository.ts.    *)
(*                                                                         *)
(* A token is a number.  An expired row is unusable and later removed by   *)
(* deleteExpired(): both are its removal (Expire).  A request is one HTTP  *)
(* request; the steps of a request are its database statements.            *)
(***************************************************************************)
EXTENDS Naturals, FiniteSets, Sequences, Functions

CONSTANTS Members,      \* Discord identities
          Browsers,
          Requests,     \* HTTP requests that may be in progress at a time
          InitialRole,  \* the role of each stored member, Absent otherwise
          Granted,      \* the roles that are assigned
          MaxTokens,    \* bound on the tokens drawn
          MaxChanges    \* bound on the audited role changes

Roles == {"viewer", "editor", "admin", "owner"}
Absent == "absent"
Nobody == "nobody"
NoToken == 0
Tokens == 1..MaxTokens

ASSUME AccountsAssumption ==
  /\ MaxTokens \in Nat /\ MaxChanges \in Nat
  /\ Granted \subseteq Roles
  /\ InitialRole \in [Members -> Roles \cup {Absent}]
  /\ \E m \in Members : InitialRole[m] = "owner"
  /\ IsFiniteSet(Members) /\ Nobody \notin Requests

VARIABLES role,     \* discord_users.role
          states,   \* oauth_states
          sessions, \* auth_sessions, each with the sign-in it came from
          cookie,   \* what each browser holds
          request,  \* the requests in progress
          table,    \* the request that holds the lock on discord_users
          audit,    \* audit_logs: the role changes
          drawn     \* tokens drawn so far

accountsVars == <<role, states, sessions, cookie, request, table, audit, drawn>>

NoRequest == [phase |-> "idle"]
Session == [token: Tokens, member: Members, via: Tokens]
Callback == [phase: {"arrived", "signed"}, browser: Browsers,
             state: Tokens, previous: Tokens \cup {NoToken}]
Change == [phase: {"authorized", "locked", "checked"}, actor: Members,
           member: Members, expected: Roles, role: Roles]
Entry == [actor: Members, member: Members, before: Roles, after: Roles]

AccountsInit ==
  /\ role = InitialRole
  /\ states = {} /\ sessions = {} /\ audit = <<>> /\ drawn = 0
  /\ cookie = [b \in Browsers |-> [state |-> NoToken, session |-> NoToken]]
  /\ request = [r \in Requests |-> NoRequest]
  /\ table = Nobody

Ends(r) == request' = [request EXCEPT ![r] = NoRequest]

(***************************************************************************)
(* OAuth.                                                                  *)
(***************************************************************************)
\* GET /discord: the previous state of this browser is consumed, a new one
\* is stored and set as its cookie.
StartSignIn(b) ==
  /\ drawn < MaxTokens
  /\ drawn' = drawn + 1
  /\ states' = (states \ {cookie[b].state}) \cup {drawn + 1}
  /\ cookie' = [cookie EXCEPT ![b].state = drawn + 1]
  /\ UNCHANGED <<role, sessions, request, table, audit>>

\* GET /discord/callback: Discord redirects the browser with the state it was
\* given; the same page may be requested twice before the first answer.
CallbackArrives(r, b) ==
  /\ request[r] = NoRequest /\ cookie[b].state # NoToken
  /\ request' = [request EXCEPT ![r] =
       [phase |-> "arrived", browser |-> b, state |-> cookie[b].state,
        previous |-> cookie[b].session]]
  /\ UNCHANGED <<role, states, sessions, cookie, table, audit, drawn>>

\* Mutant: the state is looked up and not consumed.
ConsumesAgain(s) == s \in 1..drawn

\* Does this DELETE ... RETURNING find the row?
Consumes(s) == s \in states

\* validateState(): only the request whose DELETE finds the row goes on.
\* Either way the answer clears the cookie of the state.
ConsumeState(r) ==
  /\ request[r].phase = "arrived"
  /\ LET s == request[r].state IN
       IF Consumes(s)
         THEN /\ states' = states \ {s}
              /\ request' = [request EXCEPT ![r].phase = "signed"]
              /\ UNCHANGED cookie
         ELSE /\ Ends(r)
              /\ cookie' = [cookie EXCEPT ![request[r].browser].state = NoToken]
              /\ UNCHANGED states
  /\ UNCHANGED <<role, sessions, table, audit, drawn>>

\* Access was denied, the code is missing or Discord refuses it.
SignInFails(r) ==
  /\ request[r].phase = "signed"
  /\ Ends(r)
  /\ cookie' = [cookie EXCEPT ![request[r].browser].state = NoToken]
  /\ UNCHANGED <<role, states, sessions, table, audit, drawn>>

\* createSession(): the profile is stored, a new member as a viewer and a known
\* one with its role; the previous session goes, the new one is set.  The
\* upsert of discord_users waits for the lock of a role change.
CreateSession(r, m) ==
  /\ request[r].phase = "signed" /\ table = Nobody /\ drawn < MaxTokens
  /\ drawn' = drawn + 1
  /\ role' = [role EXCEPT ![m] = IF @ = Absent THEN "viewer" ELSE @]
  /\ sessions' = {s \in sessions : s.token # request[r].previous}
                   \cup {[token |-> drawn + 1, member |-> m, via |-> request[r].state]}
  /\ cookie' = [cookie EXCEPT ![request[r].browser] =
                  [state |-> NoToken, session |-> drawn + 1]]
  /\ Ends(r)
  /\ UNCHANGED <<states, table, audit>>

\* POST /logout.
Logout(b) ==
  /\ cookie[b].session # NoToken
  /\ sessions' = {s \in sessions : s.token # cookie[b].session}
  /\ cookie' = [cookie EXCEPT ![b].session = NoToken]
  /\ UNCHANGED <<role, states, request, table, audit, drawn>>

\* A state or a session reaches its expiry (deleteExpired(), and the
\* comparison with now in consumeState() and findUser()).
Expire ==
  \/ /\ \E s \in states : states' = states \ {s}
     /\ UNCHANGED <<role, sessions, cookie, request, table, audit, drawn>>
  \/ /\ \E s \in sessions : sessions' = sessions \ {s}
     /\ UNCHANGED <<role, states, cookie, request, table, audit, drawn>>

(***************************************************************************)
(* Roles.                                                                  *)
(***************************************************************************)
\* findUser(): the member behind the cookie.
SignedInAs(b, m) == \E s \in sessions : s.token = cookie[b].session /\ s.member = m

\* PATCH /:discordId: requireAuth(auth, 'owner') reads the role, once.
\* The list it was chosen from shows the role of now: a request with an older
\* expectedRole is refused unless the role is that again.
RequestChange(r, b, m, new) ==
  /\ request[r] = NoRequest /\ Len(audit) < MaxChanges
  /\ \E a \in Members :
       /\ SignedInAs(b, a) /\ role[a] = "owner" /\ role[m] # Absent
       /\ request' = [request EXCEPT ![r] =
            [phase |-> "authorized", actor |-> a, member |-> m,
             expected |-> role[m], role |-> new]]
  /\ UNCHANGED <<role, states, sessions, cookie, table, audit, drawn>>

\* Mutant: the roles are read without the lock.
TableFreeAlways == TRUE

\* LOCK TABLE discord_users IN SHARE ROW EXCLUSIVE MODE.
TableFree == table = Nobody

LockTable(r) ==
  /\ request[r].phase = "authorized" /\ TableFree
  /\ table' = r
  /\ request' = [request EXCEPT ![r].phase = "locked"]
  /\ UNCHANGED <<role, states, sessions, cookie, audit, drawn>>

Owners == {m \in Members : role[m] = "owner"}

\* Is there another owner when an owner is demoted?
LeavesAnOwner(c) ==
  role[c.member] = "owner" /\ c.role # "owner" => Cardinality(Owners) >= 2

\* The checks that changeRole() repeats inside the transaction.
Allowed(c) ==
  /\ role[c.actor] = "owner"
  /\ role[c.member] = c.expected
  /\ c.role # c.expected
  /\ LeavesAnOwner(c)

CheckChange(r) ==
  /\ request[r].phase = "locked"
  /\ IF Allowed(request[r])
       THEN /\ request' = [request EXCEPT ![r].phase = "checked"]
            /\ UNCHANGED table
       ELSE /\ Ends(r) /\ table' = Nobody
  /\ UNCHANGED <<role, states, sessions, cookie, audit, drawn>>

\* The update and its audit entry, committed together.
CommitChange(r) ==
  /\ request[r].phase = "checked"
  /\ LET c == request[r] IN
       /\ role' = [role EXCEPT ![c.member] = c.role]
       /\ audit' = Append(audit, [actor |-> c.actor, member |-> c.member,
                                  before |-> c.expected, after |-> c.role])
  /\ table' = Nobody
  /\ Ends(r)
  /\ UNCHANGED <<states, sessions, cookie, drawn>>

AccountsNext ==
  \/ \E b \in Browsers : StartSignIn(b) \/ Logout(b)
  \/ \E r \in Requests, b \in Browsers : CallbackArrives(r, b)
  \/ \E r \in Requests :
       \/ ConsumeState(r) \/ SignInFails(r)
       \/ \E m \in Members : CreateSession(r, m)
       \/ LockTable(r) \/ CheckChange(r) \/ CommitChange(r)
  \/ \E r \in Requests, b \in Browsers, m \in Members, n \in Granted :
       RequestChange(r, b, m, n)
  \/ Expire

AccountsSpec == AccountsInit /\ [][AccountsNext]_accountsVars

(***************************************************************************)
(* Properties.                                                             *)
(***************************************************************************)
AccountsTypeOK ==
  /\ role \in [Members -> Roles \cup {Absent}]
  /\ states \subseteq Tokens /\ sessions \subseteq Session
  /\ cookie \in [Browsers -> [state: Tokens \cup {NoToken}, session: Tokens \cup {NoToken}]]
  /\ request \in [Requests -> {NoRequest} \cup Callback \cup Change]
  /\ table \in Requests \cup {Nobody}
  /\ audit \in Seq(Entry)
  /\ drawn \in 0..MaxTokens

\* There is always an owner: changeRole() refuses to demote the last one, also
\* when two owners demote each other at the same time.
OwnerRemains == Owners # {}

\* A sign-in that was started once opens at most one session, whichever of its
\* requests comes first (consumeState()).
OneSessionPerSignIn == \A s, t \in sessions : s.via = t.via => s = t
=============================================================================
