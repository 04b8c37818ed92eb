--------------------------- MODULE RecordsProofs ----------------------------
(***************************************************************************)
(* Theorems about the transactions over the database: an owner remains and *)
(* a sign-in opens one session, no image that an article names is removed, *)
(* votes and ballots are written only while they are open, a backup        *)
(* replaces what its owner was shown, and the maps of a match end in the   *)
(* order asked for. They hold for any number of members, requests,         *)
(* editors, operators, articles, matches and maps.                         *)
(***************************************************************************)
EXTENDS Accounts, HomeContent, MatchPredictions, CrystalBall, DatabaseTransfer,
        MapOrder, FiniteSetTheorems, WellFoundedInduction, TLAPS

-----------------------------------------------------------------------------
(***************************************************************************)
(* Accounts: roles change under a lock on the table of members, and a      *)
(* sign-in's state is spent once.                                          *)
(***************************************************************************)

Changing(r) == request[r].phase \in {"authorized", "locked", "checked"}
Calling(r) == request[r].phase \in {"arrived", "signed"}
Signed(r) == request[r].phase = "signed"

\* Who is past the lock holds it, and what was checked under it still holds:
\* this is what the lock on discord_users is for.
LockInv ==
  \A r \in Requests :
    /\ request[r].phase \in {"locked", "checked"} => table = r
    /\ request[r].phase = "checked" => Allowed(request[r])

\* The states in circulation have been drawn.
StatesWereDrawn ==
  /\ states \subseteq 1..drawn
  /\ \A b \in Browsers : cookie[b].state <= drawn
  /\ \A r \in Requests : Calling(r) => request[r].state <= drawn
  /\ \A s \in sessions : s.via <= drawn

\* A state is stored, or held by the one request that consumed it, or spent on
\* a session.
StatesAreSpent ==
  /\ \A s \in sessions : s.via \notin states
  /\ \A r \in Requests : Signed(r) =>
       /\ request[r].state \notin states
       /\ \A s \in sessions : s.via # request[r].state
  /\ \A r, q \in Requests :
       Signed(r) /\ Signed(q) /\ request[r].state = request[q].state => r = q

SignInInv == StatesWereDrawn /\ StatesAreSpent /\ OneSessionPerSignIn

-----------------------------------------------------------------------------
\* What the phase of a request says of its fields.
LEMMA Kinds ==
  ASSUME AccountsTypeOK, NEW r \in Requests
  PROVE  /\ Calling(r) => request[r] \in Callback
         /\ Changing(r) => request[r] \in Change
         /\ request[r].phase = "idle" => request[r] = NoRequest
         /\ request[r] = NoRequest => ~Calling(r) /\ ~Changing(r)
BY DEF AccountsTypeOK, Calling, Changing, Callback, Change, NoRequest

\* Two owners are needed for the count of changeRole(): another one is there.
LEMMA AnotherOwner ==
  ASSUME AccountsAssumption, NEW m \in Members, Cardinality(Owners) >= 2
  PROVE  \E o \in Owners : o # m
<1>1. IsFiniteSet(Owners)
  BY FS_Subset DEF AccountsAssumption, Owners
<1>2. SUFFICES ASSUME Owners \subseteq {m} PROVE FALSE
  OBVIOUS
<1>3. IsFiniteSet({m}) /\ Cardinality({m}) = 1
  BY FS_Singleton
<1>4. Cardinality(Owners) <= 1
  BY <1>2, <1>3, FS_Subset
<1> QED
  BY <1>1, <1>4, FS_CardinalityType

-----------------------------------------------------------------------------
\* The variables stay in their ranges through every statement of a request.
THEOREM AccountsTypeCorrect == AccountsSpec => []AccountsTypeOK
<1>1. AccountsInit => AccountsTypeOK
  BY AccountsAssumption DEF AccountsInit, AccountsTypeOK, AccountsAssumption, NoToken, Tokens
<1>2. AccountsTypeOK /\ [AccountsNext]_accountsVars => AccountsTypeOK'
  <2> SUFFICES ASSUME AccountsTypeOK, [AccountsNext]_accountsVars PROVE AccountsTypeOK'
    OBVIOUS
  <2> USE AccountsAssumption DEF AccountsTypeOK, AccountsAssumption, NoToken, Tokens
  <2>1. ASSUME NEW b \in Browsers, StartSignIn(b) PROVE AccountsTypeOK'
    BY <2>1 DEF StartSignIn
  <2>2. ASSUME NEW b \in Browsers, Logout(b) PROVE AccountsTypeOK'
    BY <2>2 DEF Logout
  <2>3. ASSUME NEW r \in Requests, NEW b \in Browsers, CallbackArrives(r, b) PROVE AccountsTypeOK'
    BY <2>3 DEF CallbackArrives, Callback
  <2>4. ASSUME NEW r \in Requests, ConsumeState(r) PROVE AccountsTypeOK'
    <3>1. request[r] \in Callback
      BY <2>4, Kinds DEF ConsumeState, Calling
    <3>2. [request[r] EXCEPT !.phase = "signed"] \in Callback
      BY <3>1 DEF Callback
    <3>3. CASE Consumes(request[r].state)
      <4>1. request' = [request EXCEPT ![r] = [request[r] EXCEPT !.phase = "signed"]]
        BY <2>4, <3>3 DEF ConsumeState
      <4>2. request' \in [Requests -> {NoRequest} \cup Callback \cup Change]
        BY <3>2, <4>1
      <4> QED
        BY <2>4, <3>3, <4>2 DEF ConsumeState
    <3>4. CASE ~Consumes(request[r].state)
      <4>1. cookie' \in [Browsers -> [state: Tokens \cup {NoToken}, session: Tokens \cup {NoToken}]]
        BY <2>4, <3>1, <3>4 DEF ConsumeState, Callback
      <4> QED
        BY <2>4, <3>4, <4>1 DEF ConsumeState, Ends
    <3> QED
      BY <3>3, <3>4
  <2>5. ASSUME NEW r \in Requests, SignInFails(r) PROVE AccountsTypeOK'
    BY <2>5 DEF SignInFails, Ends
  <2>6. ASSUME NEW r \in Requests, NEW m \in Members, CreateSession(r, m) PROVE AccountsTypeOK'
    <3>1. request[r] \in Callback
      BY <2>6, Kinds DEF CreateSession, Calling
    <3>2. role' \in [Members -> Roles \cup {Absent}]
      BY <2>6 DEF CreateSession, Roles
    <3>3. drawn + 1 \in 1..MaxTokens /\ drawn' \in 0..MaxTokens
      BY <2>6 DEF CreateSession
    <3>4. sessions' \subseteq Session
      BY <2>6, <3>1, <3>3 DEF CreateSession, Session, Callback
    <3>5. cookie' \in [Browsers -> [state: Tokens \cup {NoToken}, session: Tokens \cup {NoToken}]]
      BY <2>6, <3>1, <3>3 DEF CreateSession, Callback
    <3> QED
      BY <2>6, <3>2, <3>3, <3>4, <3>5 DEF CreateSession, Ends
  <2>7. ASSUME NEW r \in Requests, LockTable(r) PROVE AccountsTypeOK'
    <3>1. request[r] \in Change
      BY <2>7, Kinds DEF LockTable, Changing
    <3>2. [request[r] EXCEPT !.phase = "locked"] \in Change
      BY <3>1 DEF Change
    <3> QED
      BY <2>7, <3>2 DEF LockTable
  <2>8. ASSUME NEW r \in Requests, CheckChange(r) PROVE AccountsTypeOK'
    <3>1. request[r] \in Change
      BY <2>8, Kinds DEF CheckChange, Changing
    <3>2. [request[r] EXCEPT !.phase = "checked"] \in Change
      BY <3>1 DEF Change
    <3> QED
      BY <2>8, <3>2 DEF CheckChange, Ends
  <2>9. ASSUME NEW r \in Requests, CommitChange(r) PROVE AccountsTypeOK'
    <3>1. request[r] \in Change
      BY <2>9, Kinds DEF CommitChange, Changing
    <3>2. [actor |-> request[r].actor, member |-> request[r].member,
           before |-> request[r].expected, after |-> request[r].role] \in Entry
      BY <3>1 DEF Change, Entry
    <3>3. audit' \in Seq(Entry)
      BY <2>9, <3>2 DEF CommitChange
    <3>4. role' \in [Members -> Roles \cup {Absent}]
      BY <2>9, <3>1 DEF CommitChange, Change
    <3> QED
      BY <2>9, <3>3, <3>4 DEF CommitChange, Ends
  <2>10. ASSUME NEW r \in Requests, NEW b \in Browsers, NEW m \in Members, NEW n \in Granted,
                RequestChange(r, b, m, n) PROVE AccountsTypeOK'
    BY <2>10 DEF RequestChange, Change, SignedInAs, Roles, Absent
  <2>11. CASE Expire
    BY <2>11 DEF Expire
  <2>12. CASE UNCHANGED accountsVars
    BY <2>12 DEF accountsVars
  <2> QED
    BY <2>1, <2>2, <2>3, <2>4, <2>5, <2>6, <2>7, <2>8, <2>9, <2>10, <2>11, <2>12 DEF AccountsNext
<1> QED
  BY <1>1, <1>2, PTL DEF AccountsSpec

-----------------------------------------------------------------------------
\* The lock invariant and the owner, over a step that leaves the roles and the
\* requests under the lock alone.
LEMMA UnderTheLock ==
  ASSUME LockInv, OwnerRemains, UNCHANGED <<role, table>>, NEW r \in Requests,
         NEW x, request' = [request EXCEPT ![r] = x], AccountsTypeOK,
         x.phase \notin {"locked", "checked"}
  PROVE  LockInv' /\ OwnerRemains'
BY DEF LockInv, OwnerRemains, Owners, Allowed, LeavesAnOwner, AccountsTypeOK

\* There is always an owner, also when owners demote each other: the lock makes
\* the check and the update of changeRole() one.
THEOREM OwnerCorrect == AccountsSpec => []OwnerRemains
<1>1. AccountsInit => LockInv /\ OwnerRemains
  BY AccountsAssumption DEF AccountsInit, AccountsAssumption, LockInv, OwnerRemains, Owners, NoRequest
<1>2. AccountsTypeOK /\ LockInv /\ OwnerRemains /\ [AccountsNext]_accountsVars
        => (LockInv /\ OwnerRemains)'
  <2> SUFFICES ASSUME AccountsTypeOK, LockInv, OwnerRemains, [AccountsNext]_accountsVars
               PROVE LockInv' /\ OwnerRemains'
    OBVIOUS
  <2> DEFINE Same == UNCHANGED <<role, table, request>>
  <2>0. Same => LockInv' /\ OwnerRemains'
    BY DEF LockInv, OwnerRemains, Owners, Allowed, LeavesAnOwner
  <2>1. ASSUME NEW b \in Browsers, StartSignIn(b) PROVE Same
    BY <2>1 DEF StartSignIn
  <2>2. ASSUME NEW b \in Browsers, Logout(b) PROVE Same
    BY <2>2 DEF Logout
  <2>3. ASSUME NEW r \in Requests, NEW b \in Browsers, CallbackArrives(r, b)
        PROVE LockInv' /\ OwnerRemains'
    BY <2>3, UnderTheLock DEF CallbackArrives
  <2>4. ASSUME NEW r \in Requests, ConsumeState(r) PROVE LockInv' /\ OwnerRemains'
    <3>1. CASE Consumes(request[r].state)
      <4> DEFINE x == [request[r] EXCEPT !.phase = "signed"]
      <4>1. request' = [request EXCEPT ![r] = x]
        BY <2>4, <3>1 DEF ConsumeState
      <4>2. x.phase = "signed"
        BY <2>4, Kinds DEF ConsumeState, Calling, Callback
      <4> HIDE DEF x
      <4> QED
        BY <2>4, <4>1, <4>2, UnderTheLock DEF ConsumeState
    <3>2. CASE ~Consumes(request[r].state)
      BY <2>4, <3>2, UnderTheLock DEF ConsumeState, Ends, NoRequest
    <3> QED
      BY <3>1, <3>2
  <2>5. ASSUME NEW r \in Requests, SignInFails(r) PROVE LockInv' /\ OwnerRemains'
    BY <2>5, UnderTheLock DEF SignInFails, Ends, NoRequest
  <2>6. ASSUME NEW r \in Requests, NEW m \in Members, CreateSession(r, m)
        PROVE LockInv' /\ OwnerRemains'
    <3>1. \A q \in Requests : request[q].phase \notin {"locked", "checked"}
      BY <2>6, AccountsAssumption DEF CreateSession, LockInv, AccountsAssumption
    <3>2. LockInv'
      BY <2>6, <3>1 DEF CreateSession, LockInv, Ends, NoRequest, AccountsTypeOK
    <3>3. Owners \subseteq Owners'
      BY <2>6 DEF CreateSession, Owners, AccountsTypeOK, Absent
    <3> QED
      BY <3>2, <3>3 DEF OwnerRemains
  <2>7. ASSUME NEW r \in Requests, LockTable(r) PROVE LockInv' /\ OwnerRemains'
    <3>1. OwnerRemains'
      BY <2>7 DEF LockTable, OwnerRemains, Owners
    <3>2. \A q \in Requests : request[q].phase \notin {"locked", "checked"}
      BY <2>7, AccountsAssumption DEF LockTable, TableFree, LockInv, AccountsAssumption
    <3>3. request[r] \in Change
      BY <2>7, Kinds DEF LockTable, Changing
    <3>4. request' = [request EXCEPT ![r] = [request[r] EXCEPT !.phase = "locked"]]
      BY <2>7 DEF LockTable
    <3>5. \A q \in Requests : request'[q].phase \in {"locked", "checked"} => q = r /\ request'[q].phase = "locked"
      BY <3>2, <3>3, <3>4 DEF AccountsTypeOK, Change
    <3> QED
      BY <2>7, <3>1, <3>5 DEF LockTable, LockInv
  <2>8. ASSUME NEW r \in Requests, CheckChange(r) PROVE LockInv' /\ OwnerRemains'
    <3>1. OwnerRemains' /\ UNCHANGED role
      BY <2>8 DEF CheckChange, OwnerRemains, Owners
    <3>2. table = r /\ \A q \in Requests : q # r => request[q].phase \notin {"locked", "checked"}
      BY <2>8 DEF CheckChange, LockInv
    <3>3. CASE ~Allowed(request[r])
      BY <2>8, <3>1, <3>2, <3>3 DEF CheckChange, Ends, NoRequest, LockInv, AccountsTypeOK
    <3>4. CASE Allowed(request[r])
      <4>1. request[r] \in Change
        BY <2>8, Kinds DEF CheckChange, Changing
      <4> DEFINE x == [request[r] EXCEPT !.phase = "checked"]
      <4>2. request' = [request EXCEPT ![r] = x] /\ table' = r
        BY <2>8, <3>2, <3>4 DEF CheckChange
      <4>3. /\ x.actor = request[r].actor /\ x.member = request[r].member
            /\ x.expected = request[r].expected /\ x.role = request[r].role
        BY <4>1 DEF Change
      <4>4. request'[r] = x /\ \A q \in Requests : q # r => request'[q] = request[q]
        BY <4>2 DEF AccountsTypeOK
      <4>5. /\ request'[r].actor = request[r].actor /\ request'[r].member = request[r].member
            /\ request'[r].expected = request[r].expected /\ request'[r].role = request[r].role
        BY <4>3, <4>4
      <4>6. Allowed(request[r])'
        BY <3>1, <3>4, <4>5 DEF Allowed, LeavesAnOwner, Owners
      <4> QED
        BY <3>1, <3>2, <4>2, <4>4, <4>6 DEF LockInv
    <3> QED
      BY <3>3, <3>4
  <2>9. ASSUME NEW r \in Requests, CommitChange(r) PROVE LockInv' /\ OwnerRemains'
    <3>1. table = r /\ Allowed(request[r]) /\ request[r] \in Change
      BY <2>9, Kinds DEF CommitChange, LockInv, Changing
    <3>2. LockInv'
      BY <2>9, <3>1 DEF CommitChange, LockInv, Ends, NoRequest, AccountsTypeOK
    <3> DEFINE m == request[r].member
    <3>3. m \in Members /\ role' = [role EXCEPT ![m] = request[r].role]
      BY <2>9, <3>1 DEF CommitChange, Change
    <3>4. CASE request[r].role = "owner"
      BY <3>2, <3>3, <3>4 DEF OwnerRemains, Owners, AccountsTypeOK
    <3>5. CASE role[m] # "owner"
      BY <3>2, <3>3, <3>5 DEF OwnerRemains, Owners, AccountsTypeOK
    <3>6. CASE role[m] = "owner" /\ request[r].role # "owner"
      <4>1. PICK o \in Owners : o # m
        BY <3>1, <3>3, <3>6, AnotherOwner, AccountsAssumption DEF Allowed, LeavesAnOwner
      <4> QED
        BY <3>2, <3>3, <4>1 DEF OwnerRemains, Owners, AccountsTypeOK
    <3> QED
      BY <3>2, <3>4, <3>5, <3>6
  <2>10. ASSUME NEW r \in Requests, NEW b \in Browsers, NEW m \in Members, NEW n \in Granted,
                RequestChange(r, b, m, n) PROVE LockInv' /\ OwnerRemains'
    <3>1. PICK a \in Members :
            request' = [request EXCEPT ![r] = [phase |-> "authorized", actor |-> a, member |-> m,
                                               expected |-> role[m], role |-> n]]
      BY <2>10 DEF RequestChange
    <3> QED
      BY <2>10, <3>1, UnderTheLock DEF RequestChange
  <2>11. CASE Expire
    BY <2>0, <2>11 DEF Expire
  <2>12. CASE UNCHANGED accountsVars
    BY <2>0, <2>12 DEF accountsVars
  <2> QED
    BY <2>0, <2>1, <2>2, <2>3, <2>4, <2>5, <2>6, <2>7, <2>8, <2>9, <2>10, <2>11, <2>12 DEF AccountsNext
<1> QED
  BY <1>1, <1>2, AccountsTypeCorrect, PTL DEF AccountsSpec

-----------------------------------------------------------------------------
LEMMA StatesAreNumbers ==
  ASSUME AccountsTypeOK
  PROVE  /\ \A b \in Browsers : cookie[b].state \in Nat
         /\ \A s \in sessions : s.via \in Nat
         /\ \A q \in Requests : Calling(q) => request[q].state \in Nat
         /\ drawn \in Nat
BY Kinds DEF AccountsTypeOK, Session, Callback, Tokens, NoToken

\* A request that ends, or goes on without signing in, holds no state.
LEMMA StatesStay ==
  ASSUME AccountsTypeOK, SignInInv, UNCHANGED <<sessions, drawn>>,
         states' \subseteq states,
         \A b \in Browsers : cookie'[b].state \in {cookie[b].state, NoToken},
         \A q \in Requests : Calling(q)' => Calling(q) /\ request'[q].state = request[q].state,
         \A q \in Requests : Signed(q)' => Signed(q)
  PROVE  SignInInv'
<1> USE DEF AccountsTypeOK, NoToken
<1>1. StatesWereDrawn'
  BY DEF SignInInv, StatesWereDrawn
<1>2. StatesAreSpent'
  BY DEF SignInInv, StatesAreSpent, Signed, Calling
<1> QED
  BY <1>1, <1>2 DEF SignInInv, OneSessionPerSignIn

\* A sign-in opens at most one session, whichever of its requests comes first:
\* the DELETE of its state finds the row once, and the states that were drawn
\* are never drawn again.
THEOREM SessionsCorrect == AccountsSpec => []OneSessionPerSignIn
<1>1. AccountsInit => SignInInv
  BY DEF AccountsInit, SignInInv, StatesWereDrawn, StatesAreSpent, OneSessionPerSignIn,
         Calling, Signed, NoRequest, NoToken
<1>2. AccountsTypeOK /\ SignInInv /\ [AccountsNext]_accountsVars => SignInInv'
  <2> SUFFICES ASSUME AccountsTypeOK, SignInInv, [AccountsNext]_accountsVars PROVE SignInInv'
    OBVIOUS
  <2> USE AccountsAssumption DEF AccountsAssumption
  <2>1. ASSUME NEW b \in Browsers, StartSignIn(b) PROVE SignInInv'
    <3> USE DEF AccountsTypeOK, StartSignIn
    <3>1. StatesWereDrawn'
      <4>1. UNCHANGED <<request, sessions>> /\ drawn' = drawn + 1
        BY <2>1
      <4>2. \A c \in Browsers : cookie'[c].state \in {cookie[c].state, drawn + 1}
        BY <2>1
      <4>3. states' \subseteq states \cup {drawn + 1}
        BY <2>1
      <4> HIDE DEF AccountsTypeOK, StartSignIn
      <4>4. states' \subseteq 1..drawn'
        BY <4>1, <4>3, StatesAreNumbers DEF SignInInv, StatesWereDrawn
      <4>5. \A c \in Browsers : cookie'[c].state <= drawn'
        BY <4>1, <4>2, StatesAreNumbers DEF SignInInv, StatesWereDrawn
      <4>6. /\ \A q \in Requests : Calling(q)' => request'[q].state <= drawn'
            /\ \A s \in sessions' : s.via <= drawn'
        BY <4>1, StatesAreNumbers DEF SignInInv, StatesWereDrawn, Calling
      <4> QED
        BY <4>4, <4>5, <4>6 DEF StatesWereDrawn
    <3>2. StatesAreSpent'
      BY <2>1 DEF SignInInv, StatesWereDrawn, StatesAreSpent, Calling, Signed
    <3> QED
      BY <2>1, <3>1, <3>2 DEF SignInInv, OneSessionPerSignIn
  <2>2. ASSUME NEW b \in Browsers, Logout(b) PROVE SignInInv'
    <3> USE DEF AccountsTypeOK, Logout
    <3>1. StatesWereDrawn'
      BY <2>2 DEF SignInInv, StatesWereDrawn, Calling
    <3>2. StatesAreSpent'
      BY <2>2 DEF SignInInv, StatesAreSpent, Signed
    <3> QED
      BY <2>2, <3>1, <3>2 DEF SignInInv, OneSessionPerSignIn
  <2>3. ASSUME NEW r \in Requests, NEW b \in Browsers, CallbackArrives(r, b) PROVE SignInInv'
    <3> USE DEF AccountsTypeOK, CallbackArrives
    <3>1. \A q \in Requests : Signed(q)' => Signed(q) /\ request'[q] = request[q]
      BY <2>3 DEF Signed
    <3>2. \A q \in Requests : Calling(q)' =>
             \/ q = r /\ request'[q].state = cookie[b].state
             \/ Calling(q) /\ request'[q] = request[q]
      <4>1. request'[r].state = cookie[b].state
        BY <2>3
      <4>2. \A q \in Requests : q # r => request'[q] = request[q]
        BY <2>3
      <4> QED
        BY <4>1, <4>2 DEF Calling
    <3>3. StatesWereDrawn'
      BY <2>3, <3>2 DEF SignInInv, StatesWereDrawn
    <3>4. StatesAreSpent'
      BY <2>3, <3>1 DEF SignInInv, StatesAreSpent
    <3> QED
      BY <2>3, <3>3, <3>4 DEF SignInInv, OneSessionPerSignIn
  <2>4. ASSUME NEW r \in Requests, ConsumeState(r) PROVE SignInInv'
    <3>1. request[r] \in Callback /\ Calling(r)
      BY <2>4, Kinds DEF ConsumeState, Calling
    <3>2. CASE ~Consumes(request[r].state)
      <4>1. \A q \in Requests : request'[q] \in {request[q], NoRequest}
        BY <2>4, <3>2 DEF ConsumeState, Ends, AccountsTypeOK
      <4>2. \A b \in Browsers : cookie'[b].state \in {cookie[b].state, NoToken}
        BY <2>4, <3>1, <3>2 DEF ConsumeState, AccountsTypeOK, Callback
      <4> QED
        BY <2>4, <3>2, <4>1, <4>2, StatesStay DEF ConsumeState, Calling, Signed, NoRequest
    <3>3. CASE Consumes(request[r].state)
      <4> DEFINE x == [request[r] EXCEPT !.phase = "signed"]
      <4>1. /\ request' = [request EXCEPT ![r] = x] /\ UNCHANGED <<sessions, cookie, drawn>>
            /\ states' = states \ {request[r].state} /\ request[r].state \in states
        BY <2>4, <3>3 DEF ConsumeState, Consumes
      <4>2. x.phase = "signed" /\ x.state = request[r].state
        BY <3>1 DEF Callback
      <4> HIDE DEF x
      <4>3. request'[r] = x /\ \A q \in Requests : q # r => request'[q] = request[q]
        BY <4>1 DEF AccountsTypeOK
      <4>4. StatesWereDrawn'
        BY <3>1, <4>1, <4>2, <4>3 DEF SignInInv, StatesWereDrawn, Calling, AccountsTypeOK
      <4>5. \A q \in Requests : Signed(q)' =>
              IF q = r THEN request'[q].state = request[r].state
                       ELSE Signed(q) /\ request'[q] = request[q]
        BY <4>2, <4>3 DEF Signed
      <4>6. StatesAreSpent'
        BY <4>1, <4>5 DEF SignInInv, StatesAreSpent
      <4> QED
        BY <4>1, <4>4, <4>6 DEF SignInInv, OneSessionPerSignIn
    <3> QED
      BY <3>2, <3>3
  <2>5. ASSUME NEW r \in Requests, SignInFails(r) PROVE SignInInv'
    <3>1. request[r] \in Callback
      BY <2>5, Kinds DEF SignInFails, Calling
    <3>2. \A q \in Requests : request'[q] \in {request[q], NoRequest}
      BY <2>5 DEF SignInFails, Ends, AccountsTypeOK
    <3>3. \A b \in Browsers : cookie'[b].state \in {cookie[b].state, NoToken}
      BY <2>5, <3>1 DEF SignInFails, AccountsTypeOK, Callback
    <3> QED
      BY <2>5, <3>2, <3>3, StatesStay DEF SignInFails, Calling, Signed, NoRequest
  <2>6. ASSUME NEW r \in Requests, NEW m \in Members, CreateSession(r, m) PROVE SignInInv'
    <3> DEFINE new == [token |-> drawn + 1, member |-> m, via |-> request[r].state]
    <3>1. request[r] \in Callback /\ Calling(r) /\ Signed(r)
      BY <2>6, Kinds DEF CreateSession, Calling, Signed
    <3>2. /\ sessions' \subseteq sessions \cup {new} /\ states' = states
          /\ drawn' = drawn + 1 /\ drawn \in Nat /\ new.via = request[r].state
      BY <2>6 DEF CreateSession, AccountsTypeOK
    <3>3. /\ request'[r] = NoRequest
          /\ \A q \in Requests : q # r => request'[q] = request[q]
      BY <2>6 DEF CreateSession, Ends, AccountsTypeOK
    <3>4. \A b \in Browsers : cookie'[b].state \in {cookie[b].state, NoToken}
      BY <2>6, <3>1 DEF CreateSession, AccountsTypeOK, Callback
    <3> HIDE DEF new
    <3>5. \A q \in Requests : Calling(q)' => q # r /\ Calling(q) /\ request'[q] = request[q]
      BY <3>3 DEF Calling, NoRequest
    <3>6. \A q \in Requests : Signed(q)' => q # r /\ Signed(q) /\ request'[q] = request[q]
      BY <3>3 DEF Signed, NoRequest
    <3>7. StatesWereDrawn'
      BY <3>1, <3>2, <3>4, <3>5, StatesAreNumbers DEF SignInInv, StatesWereDrawn, NoToken
    <3>8. StatesAreSpent'
      BY <3>1, <3>2, <3>6 DEF SignInInv, StatesAreSpent
    <3>9. OneSessionPerSignIn'
      BY <3>1, <3>2 DEF SignInInv, StatesAreSpent, OneSessionPerSignIn
    <3> QED
      BY <3>7, <3>8, <3>9 DEF SignInInv
  <2>7. ASSUME NEW r \in Requests, LockTable(r) PROVE SignInInv'
    <3>1. \A q \in Requests : Calling(q)' => request'[q] = request[q]
      BY <2>7, Kinds DEF LockTable, Changing, Calling, Change, AccountsTypeOK
    <3> QED
      BY <2>7, <3>1, StatesStay DEF LockTable, Calling, Signed
  <2>8. ASSUME NEW r \in Requests, CheckChange(r) PROVE SignInInv'
    <3>1. \A q \in Requests : Calling(q)' => request'[q] = request[q]
      BY <2>8, Kinds DEF CheckChange, Ends, NoRequest, Changing, Calling, Change, AccountsTypeOK
    <3> QED
      BY <2>8, <3>1, StatesStay DEF CheckChange, Calling, Signed
  <2>9. ASSUME NEW r \in Requests, CommitChange(r) PROVE SignInInv'
    <3>1. \A q \in Requests : Calling(q)' => request'[q] = request[q]
      BY <2>9 DEF CommitChange, Ends, NoRequest, Calling, AccountsTypeOK
    <3> QED
      BY <2>9, <3>1, StatesStay DEF CommitChange, Calling, Signed
  <2>10. ASSUME NEW r \in Requests, NEW b \in Browsers, NEW m \in Members, NEW n \in Granted,
                RequestChange(r, b, m, n) PROVE SignInInv'
    <3>1. \A q \in Requests : Calling(q)' => request'[q] = request[q]
      BY <2>10 DEF RequestChange, Calling, AccountsTypeOK
    <3> QED
      BY <2>10, <3>1, StatesStay DEF RequestChange, Calling, Signed
  <2>11. CASE Expire
    BY <2>11 DEF Expire, SignInInv, StatesWereDrawn, StatesAreSpent, OneSessionPerSignIn, Calling, Signed
  <2>12. CASE UNCHANGED accountsVars
    BY <2>12 DEF accountsVars, SignInInv, StatesWereDrawn, StatesAreSpent, OneSessionPerSignIn, Calling, Signed
  <2> QED
    BY <2>1, <2>2, <2>3, <2>4, <2>5, <2>6, <2>7, <2>8, <2>9, <2>10, <2>11, <2>12 DEF AccountsNext
<1>3. SignInInv => OneSessionPerSignIn
  BY DEF SignInInv
<1> QED
  BY <1>1, <1>2, <1>3, AccountsTypeCorrect, PTL DEF AccountsSpec

-----------------------------------------------------------------------------
(***************************************************************************)
(* HomeContent: a request that removes images holds the table of articles  *)
(* from the check on, so that nothing written since can name them.         *)
(***************************************************************************)

\* What a request remembers between its statements.
HomeRequests ==
    [phase : {"quiet"}]
    \cup [phase : {"save", "written"}, article : Articles, images : SUBSET Images,
          new : BOOLEAN, clean : SUBSET Images]
    \cup [phase : {"delete", "deleted"}, article : Articles, clean : SUBSET Images]
    \cup [phase : {"clean", "locked", "removing"}, clean : SUBSET Images]

\* The remover that holds the table is alone between its lock and its end: it
\* removes files that no stored article names, and none is stored meanwhile.
HomeInv ==
    /\ HomeTypeOK
    /\ step \in [ImageUsers -> HomeRequests]
    /\ \A c \in ImageUsers : step[c].phase \in {"locked", "removing"} => tableLock = c
    /\ \A c \in ImageUsers : step[c].phase = "removing" => step[c].clean \cap Referenced = {}
    /\ tableLock # Unheld => NoWriter

\* A request takes a step that neither locks the table nor changes an article.
LEMMA RequestStep ==
    ASSUME HomeInv, NEW c \in ImageUsers, NEW s \in HomeRequests, Goes(c, s),
           s.phase \notin {"locked", "removing"}, Written(s) => tableLock = Unheld,
           UNCHANGED <<text, disk, aged, used, tableLock>>
    PROVE  HomeInv'
<1> USE DEF HomeInv, Goes
<1>1. HomeTypeOK'
    BY DEF HomeTypeOK
<1>2. step' \in [ImageUsers -> HomeRequests]
    OBVIOUS
<1>3. /\ \A d \in ImageUsers : step'[d].phase \in {"locked", "removing"} => tableLock' = d
      /\ \A d \in ImageUsers : step'[d].phase = "removing" => step'[d].clean \cap Referenced' = {}
    BY DEF Referenced
<1>4. tableLock' # Unheld => NoWriter'
    BY DEF NoWriter, Written, ImageUsers
<1>5. QED
    BY <1>1, <1>2, <1>3, <1>4

\* A transaction commits what it wrote; no remover can be at work.
LEMMA CommitStep ==
    ASSUME HomeInv, NEW c \in Writers, Written(step[c]), NEW a \in Articles,
           NEW t \in [stored : BOOLEAN, images : SUBSET Images], NEW s \in HomeRequests,
           s.phase = "clean", Goes(c, s), text' = [text EXCEPT ![a] = t],
           UNCHANGED <<disk, aged, used, tableLock>>
    PROVE  HomeInv'
<1> USE DEF HomeInv, Goes
<1>1. HomeTypeOK'
    BY DEF HomeTypeOK
<1>2. c \in ImageUsers /\ step' \in [ImageUsers -> HomeRequests]
    BY DEF ImageUsers
<1>3. tableLock = Unheld
    BY DEF NoWriter
<1>4. \A d \in ImageUsers : step'[d].phase \notin {"locked", "removing"}
    BY <1>2, <1>3, HomeAssumption DEF ImageUsers, Cleaner, Unheld
<1>5. QED
    BY <1>1, <1>2, <1>3, <1>4

LEMMA ArticleStep ==
    ASSUME HomeInv, NEW c \in Writers,
           \/ ArticleWrites(c) \/ ArticleCommits(c) \/ DeletionWrites(c) \/ DeletionCommits(c)
    PROVE  HomeInv'
<1>1. c \in ImageUsers /\ step[c] \in HomeRequests
    BY DEF HomeInv, ImageUsers
<1>2. Quiet \in HomeRequests /\ Quiet.phase = "quiet"
    BY DEF Quiet, HomeRequests
<1>3. CASE ArticleWrites(c)
    <2>1. step[c] \in [phase : {"save", "written"}, article : Articles, images : SUBSET Images,
                       new : BOOLEAN, clean : SUBSET Images]
        BY <1>1, <1>3 DEF ArticleWrites, HomeRequests
    <2>2. PICK s \in {Quiet, [step[c] EXCEPT !.phase = "written"]} : Goes(c, s)
        BY <1>3 DEF ArticleWrites
    <2>3. s \in HomeRequests /\ s.phase \in {"quiet", "written"}
        BY <2>1, <2>2, <1>2 DEF HomeRequests
    <2>4. QED
        BY <2>2, <2>3, <1>1, <1>3, RequestStep DEF ArticleWrites, WriterFree
<1>4. CASE ArticleCommits(c)
    <2>1. step[c] \in [phase : {"save", "written"}, article : Articles, images : SUBSET Images,
                       new : BOOLEAN, clean : SUBSET Images]
        BY <1>1, <1>4 DEF ArticleCommits, HomeRequests
    <2> DEFINE s == [phase |-> "clean", clean |-> step[c].clean]
               t == [stored |-> TRUE, images |-> step[c].images]
    <2>2. s \in HomeRequests /\ s.phase = "clean" /\ t \in [stored : BOOLEAN, images : SUBSET Images]
        BY <2>1 DEF HomeRequests
    <2>3. /\ text' = [text EXCEPT ![step[c].article] = t] /\ Goes(c, s)
          /\ Written(step[c]) /\ UNCHANGED <<disk, aged, used, tableLock>>
        BY <1>4 DEF ArticleCommits, Written
    <2> HIDE DEF s, t
    <2>4. QED
        BY <2>1, <2>2, <2>3, CommitStep
<1>5. CASE DeletionWrites(c)
    <2>1. step[c] \in [phase : {"delete", "deleted"}, article : Articles, clean : SUBSET Images]
        BY <1>1, <1>5 DEF DeletionWrites, HomeRequests
    <2>2. PICK s \in {Quiet, [step[c] EXCEPT !.phase = "deleted"]} : Goes(c, s)
        BY <1>5 DEF DeletionWrites
    <2>3. s \in HomeRequests /\ s.phase \in {"quiet", "deleted"}
        BY <2>1, <2>2, <1>2 DEF HomeRequests
    <2>4. QED
        BY <2>2, <2>3, <1>1, <1>5, RequestStep DEF DeletionWrites, WriterFree
<1>6. CASE DeletionCommits(c)
    <2>1. step[c] \in [phase : {"delete", "deleted"}, article : Articles, clean : SUBSET Images]
        BY <1>1, <1>6 DEF DeletionCommits, HomeRequests
    <2> DEFINE s == [phase |-> "clean", clean |-> step[c].clean]
    <2>2. s \in HomeRequests /\ s.phase = "clean" /\ Missing \in [stored : BOOLEAN, images : SUBSET Images]
        BY <2>1 DEF HomeRequests, Missing
    <2>3. /\ text' = [text EXCEPT ![step[c].article] = Missing] /\ Goes(c, s)
          /\ Written(step[c]) /\ UNCHANGED <<disk, aged, used, tableLock>>
        BY <1>6 DEF DeletionCommits, Written
    <2> HIDE DEF s
    <2>4. QED
        BY <2>1, <2>2, <2>3, CommitStep
<1>7. QED
    BY <1>3, <1>4, <1>5, <1>6

LEMMA RemovalStep ==
    ASSUME HomeInv, NEW c \in ImageUsers,
           LocksArticles(c) \/ ReadsArticles(c) \/ Unlinks(c) \/ RemovalEnds(c)
    PROVE  HomeInv'
<1>1. step[c] \in HomeRequests /\ step \in [ImageUsers -> HomeRequests] /\ HomeTypeOK
    BY DEF HomeInv
<1>2. step[c] \in [phase : {"clean", "locked", "removing"}, clean : SUBSET Images]
    BY <1>1 DEF HomeRequests, LocksArticles, ReadsArticles, Unlinks, RemovalEnds
<1>3. c # Unheld
    BY HomeAssumption DEF ImageUsers, Cleaner, Unheld
<1>4. CASE LocksArticles(c)
    <2> DEFINE s == [step[c] EXCEPT !.phase = "locked"]
    <2>1. s \in HomeRequests /\ s.phase = "locked"
        BY <1>2 DEF HomeRequests
    <2>2. /\ step' = [step EXCEPT ![c] = s] /\ tableLock' = c /\ tableLock = Unheld
          /\ NoWriter /\ UNCHANGED <<text, disk, aged, used>>
        BY <1>4 DEF LocksArticles, Goes, WriterFree
    <2> HIDE DEF s
    <2>3. HomeTypeOK'
        BY <1>1, <2>2 DEF HomeTypeOK
    <2>4. \A d \in ImageUsers : d # c => step'[d] = step[d] /\ step[d].phase \notin {"locked", "removing"}
        BY <2>2, <1>1, HomeAssumption DEF HomeInv, ImageUsers, Cleaner, Unheld
    <2>5. step'[c] = s /\ step' \in [ImageUsers -> HomeRequests]
        BY <1>1, <2>1, <2>2
    <2>6. NoWriter'
        BY <2>1, <2>2, <2>4, <2>5 DEF NoWriter, Written, ImageUsers
    <2>7. QED
        BY <2>1, <2>2, <2>3, <2>4, <2>5, <2>6 DEF HomeInv
<1>5. CASE ReadsArticles(c)
    <2> DEFINE s == [phase |-> "removing", clean |-> step[c].clean \ Referenced]
    <2>1. s \in HomeRequests /\ s.phase = "removing" /\ s.clean \cap Referenced = {}
        BY <1>2 DEF HomeRequests
    <2>2. /\ step' = [step EXCEPT ![c] = s] /\ tableLock = c
          /\ UNCHANGED <<text, disk, aged, used, tableLock>>
        BY <1>5 DEF ReadsArticles, Goes, HomeInv
    <2> HIDE DEF s
    <2>3. HomeTypeOK' /\ Referenced' = Referenced
        BY <1>1, <2>2 DEF HomeTypeOK, Referenced
    <2>4. \A d \in ImageUsers : d # c => step'[d] = step[d]
        BY <2>2, <1>1
    <2>5. step'[c] = s /\ step' \in [ImageUsers -> HomeRequests]
        BY <1>1, <2>1, <2>2
    <2>6. NoWriter'
        BY <2>1, <2>2, <2>4, <2>5, <1>3 DEF HomeInv, NoWriter, Written, ImageUsers
    <2>7. QED
        BY <2>1, <2>2, <2>3, <2>4, <2>5, <2>6 DEF HomeInv
<1>6. CASE Unlinks(c)
    <2>1. PICK i \in step[c].clean : /\ disk' = disk \ {i} /\ aged' = aged \ {i}
                                     /\ Goes(c, [step[c] EXCEPT !.clean = @ \ {i}])
        BY <1>6 DEF Unlinks
    <2> DEFINE s == [step[c] EXCEPT !.clean = @ \ {i}]
    <2>2. s \in HomeRequests /\ s.phase = "removing" /\ s.clean \subseteq step[c].clean
        BY <1>2, <1>6 DEF HomeRequests, Unlinks
    <2>3. /\ step' = [step EXCEPT ![c] = s] /\ tableLock = c /\ step[c].clean \cap Referenced = {}
          /\ UNCHANGED <<text, used, tableLock>>
        BY <1>6, <2>1 DEF Unlinks, Goes, HomeInv
    <2> HIDE DEF s
    <2>4. HomeTypeOK' /\ Referenced' = Referenced
        BY <1>1, <2>1, <2>3 DEF HomeTypeOK, Referenced
    <2>5. \A d \in ImageUsers : d # c => step'[d] = step[d]
        BY <2>3, <1>1
    <2>6. step'[c] = s /\ step' \in [ImageUsers -> HomeRequests]
        BY <1>1, <2>2, <2>3
    <2>7. NoWriter'
        BY <2>2, <2>3, <2>5, <2>6, <1>3 DEF HomeInv, NoWriter, Written, ImageUsers
    <2>8. QED
        BY <2>2, <2>3, <2>4, <2>5, <2>6, <2>7 DEF HomeInv
<1>7. CASE RemovalEnds(c)
    <2>1. /\ step' = [step EXCEPT ![c] = Quiet] /\ tableLock = c /\ tableLock' = Unheld
          /\ UNCHANGED <<text, disk, aged, used>>
        BY <1>7 DEF RemovalEnds, Goes, HomeInv
    <2>2. Quiet \in HomeRequests /\ Quiet.phase = "quiet"
        BY DEF Quiet, HomeRequests
    <2>3. HomeTypeOK'
        BY <1>1, <2>1 DEF HomeTypeOK
    <2>4. \A d \in ImageUsers : d # c => step'[d] = step[d] /\ step[d].phase \notin {"locked", "removing"}
        BY <2>1, <1>1 DEF HomeInv
    <2>5. step'[c] = Quiet /\ step' \in [ImageUsers -> HomeRequests]
        BY <1>1, <2>1, <2>2
    <2>6. QED
        BY <2>1, <2>2, <2>3, <2>4, <2>5 DEF HomeInv
<1>8. QED
    BY <1>4, <1>5, <1>6, <1>7

\* Whatever the editors and the clean-up do, the invariant of the images holds.
THEOREM HomeCorrect == HomeSpec => []HomeInv
<1>1. HomeInit => HomeInv
    <2> SUFFICES ASSUME HomeInit PROVE HomeInv
        OBVIOUS
    <2>1. HomeTypeOK
        BY DEF HomeInit, HomeTypeOK, Missing
    <2>2. step = [c \in ImageUsers |-> Quiet] /\ Quiet \in HomeRequests /\ Quiet.phase = "quiet"
        BY DEF HomeInit, Quiet, HomeRequests
    <2>3. QED
        BY <2>1, <2>2 DEF HomeInv, HomeInit
<1>2. HomeInv /\ [HomeNext]_homeVars => HomeInv'
    <2> SUFFICES ASSUME HomeInv, [HomeNext]_homeVars PROVE HomeInv'
        OBVIOUS
    <2>0. /\ HomeTypeOK /\ step \in [ImageUsers -> HomeRequests] /\ Writers \subseteq ImageUsers
          /\ Cleaner \in ImageUsers
        BY DEF HomeInv, ImageUsers
    <2>1. ASSUME NEW i \in Images, Upload(i) \/ Ages(i) PROVE HomeInv'
        <3>1. UNCHANGED <<text, step, tableLock>> /\ HomeTypeOK'
            BY <2>0, <2>1 DEF Upload, Ages, HomeTypeOK
        <3>2. QED
            BY <3>1 DEF HomeInv, NoWriter, Referenced
    <2>2. ASSUME NEW c \in Writers, NEW a \in Articles, DeletionBegins(c, a) PROVE HomeInv'
        <3> DEFINE s == [phase |-> "delete", article |-> a, clean |-> text[a].images]
        <3>1. s \in HomeRequests /\ s.phase = "delete"
            BY <2>0 DEF HomeRequests, HomeTypeOK
        <3>2. Goes(c, s) /\ UNCHANGED <<text, disk, aged, used, tableLock>>
            BY <2>2 DEF DeletionBegins
        <3> HIDE DEF s
        <3>3. QED
            BY <2>0, <3>1, <3>2, RequestStep DEF Written
    <2>3. ASSUME NEW c \in Writers, NEW a \in Articles, NEW images \in SUBSET used,
                 NEW uploaded \in SUBSET used, ArticleBegins(c, a, images, uploaded)
          PROVE  HomeInv'
        <3> DEFINE s == [phase |-> "save", article |-> a, images |-> images, new |-> ~text[a].stored,
                         clean |-> text[a].images \cup uploaded]
        <3>1. s \in HomeRequests /\ s.phase = "save"
            BY <2>0 DEF HomeRequests, HomeTypeOK
        <3>2. Goes(c, s) /\ UNCHANGED <<text, disk, aged, used, tableLock>>
            BY <2>3 DEF ArticleBegins
        <3> HIDE DEF s
        <3>3. QED
            BY <2>0, <3>1, <3>2, RequestStep DEF Written
    <2>4. ASSUME NEW c \in ImageUsers, NEW urls \in SUBSET used,
                 Goes(c, [phase |-> "clean", clean |-> urls]),
                 UNCHANGED <<text, disk, aged, used, tableLock>>
          PROVE  HomeInv'
        <3> DEFINE s == [phase |-> "clean", clean |-> urls]
        <3>1. s \in HomeRequests /\ s.phase = "clean"
            BY <2>0 DEF HomeRequests, HomeTypeOK
        <3>2. Goes(c, s)
            BY <2>4
        <3> HIDE DEF s
        <3>3. QED
            BY <2>4, <3>1, <3>2, RequestStep DEF Written
    <2>5. ASSUME NEW c \in Writers, NEW urls \in SUBSET used, Discard(c, urls) PROVE HomeInv'
        BY <2>0, <2>4, <2>5 DEF Discard
    <2>6. CASE CleanupExpired
        <3>1. aged \in SUBSET used
            BY <2>0 DEF HomeTypeOK
        <3>2. QED
            BY <2>0, <2>4, <2>6, <3>1 DEF CleanupExpired
    <2>7. ASSUME NEW c \in ImageUsers, NothingToClean(c) PROVE HomeInv'
        <3>1. Quiet \in HomeRequests /\ Quiet.phase = "quiet"
            BY DEF Quiet, HomeRequests
        <3>2. QED
            BY <2>7, <3>1, RequestStep DEF NothingToClean, Written
    <2>8. CASE UNCHANGED homeVars
        BY <2>8 DEF homeVars, HomeInv, HomeTypeOK, NoWriter, Referenced
    <2>9. QED
        BY <2>1, <2>2, <2>3, <2>5, <2>6, <2>7, <2>8, ArticleStep, RemovalStep DEF HomeNext
<1>3. QED
    BY <1>1, <1>2, PTL DEF HomeSpec

\* Articles, images and locks keep their types.
THEOREM HomeTypeCorrect == HomeSpec => []HomeTypeOK
<1>1. HomeInv => HomeTypeOK
    BY DEF HomeInv
<1>2. QED
    BY <1>1, HomeCorrect, PTL

\* No file that a stored article names is removed, for any number of editors
\* and articles.
THEOREM UsedImagesCorrect == HomeSpec => UsedImagesStay
<1>1. HomeInv /\ [HomeNext]_homeVars => [(disk \ disk') \cap Referenced = {}]_<<disk, text>>
    <2> SUFFICES ASSUME HomeInv, HomeNext PROVE (disk \ disk') \cap Referenced = {}
        BY DEF homeVars
    <2>1. ASSUME NEW c \in ImageUsers, Unlinks(c) PROVE (disk \ disk') \cap Referenced = {}
        BY <2>1 DEF Unlinks, HomeInv
    <2>2. ASSUME ~\E c \in ImageUsers : Unlinks(c) PROVE disk \subseteq disk'
        BY <2>2 DEF HomeNext, Upload, Ages, ArticleBegins, ArticleWrites, ArticleCommits, DeletionBegins,
                    DeletionWrites, DeletionCommits, Discard, CleanupExpired, NothingToClean,
                    LocksArticles, ReadsArticles, RemovalEnds
    <2>3. QED
        BY <2>1, <2>2
<1>2. QED
    BY <1>1, HomeCorrect, PTL DEF HomeSpec, UsedImagesStay

-----------------------------------------------------------------------------
(***************************************************************************)
(* MatchPredictions: the row of the match is locked from the check of the  *)
(* window to the write of the vote, and an edit of its teams waits for     *)
(* both.                                                                   *)
(***************************************************************************)

Votings == {Idle} \cup [phase : {"locked", "checked"}, match : Matches, pick : Pick]
Editings == {Idle} \cup [phase : {"locked", "checked"}, match : Matches, next : Match]

\* What CheckVote() has seen holds until the vote is written: the row of the
\* match and those of its teams are locked.
CheckedVotes ==
    \A v \in Voters :
        /\ voting[v] # Idle => rowLock[voting[v].match] = v
        /\ voting[v].phase = "checked" =>
             /\ match[voting[v].match].status = "scheduled"
             /\ {match[voting[v].match].home, match[voting[v].match].away} \subseteq active
             /\ voting[v].pick.team \in {match[voting[v].match].home, match[voting[v].match].away}

\* An edit that was checked either keeps the teams or finds no vote.
CheckedEdits ==
    \A e \in Editors :
        /\ editing[e] # Idle => rowLock[editing[e].match] = e
        /\ editing[e].phase = "checked" => MayEdit(editing[e].match, editing[e].next)

VotesInv == PredictionsTypeOK /\ CheckedVotes /\ CheckedEdits /\ VotesNamePlayers

LEMMA VotingProperties ==
    ASSUME VotesInv, NEW v \in Voters, voting[v] # Idle
    PROVE  /\ voting[v] \in [phase : {"locked", "checked"}, match : Matches, pick : Pick]
           /\ voting[v].match \in Matches /\ voting[v].pick \in Pick
           /\ voting[v].phase \in {"locked", "checked"}
           /\ rowLock[voting[v].match] = v
BY DEF VotesInv, PredictionsTypeOK, CheckedVotes

LEMMA EditingProperties ==
    ASSUME VotesInv, NEW e \in Editors, editing[e] # Idle
    PROVE  /\ editing[e] \in [phase : {"locked", "checked"}, match : Matches, next : Match]
           /\ editing[e].match \in Matches /\ editing[e].next \in Match
           /\ editing[e].phase \in {"locked", "checked"}
           /\ rowLock[editing[e].match] = e
BY DEF VotesInv, PredictionsTypeOK, CheckedEdits

\* Nobody is at work on a match whose row is free.
LEMMA NobodyAtWork ==
    ASSUME VotesInv, NEW m \in Matches, MatchFree(m)
    PROVE  /\ \A v \in Voters : voting[v] # Idle => voting[v].match # m
           /\ \A e \in Editors : editing[e] # Idle => editing[e].match # m
BY VotingProperties, EditingProperties, PredictionsAssumption DEF MatchFree

LEMMA LockForVoteStep ==
    ASSUME VotesInv, NEW v \in Voters, NEW m \in Matches, NEW p \in Pick, LockForVote(v, m, p)
    PROVE  VotesInv'
<1> DEFINE n == [phase |-> "locked", match |-> m, pick |-> p]
<1>1. /\ n \in [phase : {"locked", "checked"}, match : Matches, pick : Pick]
      /\ n.phase = "locked" /\ n.match = m /\ n # Idle
    BY DEF Idle
<1>2. /\ voting' = [voting EXCEPT ![v] = n] /\ rowLock' = [rowLock EXCEPT ![m] = v]
      /\ UNCHANGED <<clock, match, active, votes, editing>>
    BY DEF LockForVote
<1> HIDE DEF n
<1>3. PredictionsTypeOK'
    BY <1>1, <1>2 DEF VotesInv, PredictionsTypeOK
<1>4. /\ voting'[v] = n /\ \A w \in Voters : w # v => voting'[w] = voting[w]
      /\ rowLock'[m] = v /\ \A k \in Matches : k # m => rowLock'[k] = rowLock[k]
    BY <1>2 DEF VotesInv, PredictionsTypeOK
<1>5. /\ \A w \in Voters : voting[w] # Idle => voting[w].match # m /\ voting[w].match \in Matches
      /\ \A e \in Editors : editing[e] # Idle => editing[e].match # m /\ editing[e].match \in Matches
    BY NobodyAtWork, VotingProperties, EditingProperties DEF LockForVote
<1>6. CheckedVotes'
    <2> SUFFICES ASSUME NEW w \in Voters
                 PROVE  /\ voting'[w] # Idle => rowLock'[voting'[w].match] = w
                        /\ voting'[w].phase = "checked" =>
                             /\ match[voting'[w].match].status = "scheduled"
                             /\ {match[voting'[w].match].home, match[voting'[w].match].away} \subseteq active
                             /\ voting'[w].pick.team \in {match[voting'[w].match].home, match[voting'[w].match].away}
        BY <1>2 DEF CheckedVotes
    <2>1. CASE w = v
        BY <2>1, <1>1, <1>4
    <2>2. CASE w # v
        BY <2>2, <1>4, <1>5 DEF VotesInv, CheckedVotes
    <2>3. QED
        BY <2>1, <2>2
<1>7. CheckedEdits'
    BY <1>2, <1>4, <1>5 DEF VotesInv, CheckedEdits, MayEdit, KeepsTeams, NoVotes
<1>8. VotesNamePlayers'
    BY <1>2 DEF VotesInv, VotesNamePlayers
<1>9. QED
    BY <1>3, <1>6, <1>7, <1>8 DEF VotesInv

\* A voter who gives up or is done leaves the row free.
LEMMA VoterDone ==
    ASSUME VotesInv, NEW v \in Voters, voting[v] # Idle, voting' = [voting EXCEPT ![v] = Idle],
           Unlock(voting[v].match), UNCHANGED <<clock, match, active, editing>>
    PROVE  /\ voting' \in [Voters -> Votings] /\ rowLock' \in [Matches -> {Free} \cup Voters \cup Editors]
           /\ CheckedVotes'
           /\ \A e \in Editors : editing'[e] # Idle => rowLock'[editing'[e].match] = e
<1> DEFINE m == voting[v].match
<1>1. m \in Matches /\ rowLock[m] = v
    BY VotingProperties
<1>2. /\ voting'[v] = Idle /\ \A w \in Voters : w # v => voting'[w] = voting[w]
      /\ rowLock'[m] = Free /\ \A k \in Matches : k # m => rowLock'[k] = rowLock[k]
    BY <1>1 DEF VotesInv, PredictionsTypeOK, Unlock
<1> HIDE DEF m
<1>3. /\ \A w \in Voters : w # v /\ voting[w] # Idle => voting[w].match # m /\ voting[w].match \in Matches
      /\ \A e \in Editors : editing[e] # Idle => editing[e].match # m /\ editing[e].match \in Matches
    BY <1>1, VotingProperties, EditingProperties, PredictionsAssumption
<1>4. /\ voting' \in [Voters -> Votings] /\ rowLock' \in [Matches -> {Free} \cup Voters \cup Editors]
    BY <1>1 DEF VotesInv, PredictionsTypeOK, Votings, Unlock, m
<1>5. CheckedVotes'
    <2> SUFFICES ASSUME NEW w \in Voters
                 PROVE  /\ voting'[w] # Idle => rowLock'[voting'[w].match] = w
                        /\ voting'[w].phase = "checked" =>
                             /\ match[voting'[w].match].status = "scheduled"
                             /\ {match[voting'[w].match].home, match[voting'[w].match].away} \subseteq active
                             /\ voting'[w].pick.team \in {match[voting'[w].match].home, match[voting'[w].match].away}
        BY DEF CheckedVotes
    <2>1. CASE w = v
        BY <2>1, <1>2 DEF Idle
    <2>2. CASE w # v
        BY <2>2, <1>2, <1>3 DEF VotesInv, CheckedVotes
    <2>3. QED
        BY <2>1, <2>2
<1>6. \A e \in Editors : editing'[e] # Idle => rowLock'[editing'[e].match] = e
    BY <1>2, <1>3, EditingProperties
<1>7. QED
    BY <1>4, <1>5, <1>6

LEMMA CheckVoteStep == ASSUME VotesInv, NEW v \in Voters, CheckVote(v) PROVE VotesInv'
<1>1. voting[v] # Idle
    BY DEF CheckVote, Idle
<1> DEFINE m == voting[v].match
<1>2. /\ voting[v] \in [phase : {"locked", "checked"}, match : Matches, pick : Pick]
      /\ m \in Matches /\ voting[v].phase = "locked"
    BY <1>1, VotingProperties DEF CheckVote
<1>3. UNCHANGED <<clock, match, active, votes, editing>>
    BY DEF CheckVote
<1>4. VotesNamePlayers'
    BY <1>3 DEF VotesInv, VotesNamePlayers
<1>5. CASE Accepts(match[m], voting[v].pick, clock)
    <2> DEFINE n == [voting[v] EXCEPT !.phase = "checked"]
    <2>1. /\ n \in [phase : {"locked", "checked"}, match : Matches, pick : Pick]
          /\ n.match = m /\ n.pick = voting[v].pick
        BY <1>2
    <2>2. voting' = [voting EXCEPT ![v] = n] /\ rowLock' = rowLock
        BY <1>5 DEF CheckVote
    <2> HIDE DEF n
    <2>3. voting'[v] = n /\ \A w \in Voters : w # v => voting'[w] = voting[w]
        BY <2>2 DEF VotesInv, PredictionsTypeOK
    <2>4. PredictionsTypeOK'
        BY <1>3, <2>1, <2>2 DEF VotesInv, PredictionsTypeOK
    <2>5. /\ match[m].status = "scheduled" /\ {match[m].home, match[m].away} \subseteq active
          /\ voting[v].pick.team \in {match[m].home, match[m].away}
        BY <1>5 DEF Accepts, WindowOpen
    <2>6. CheckedVotes'
        <3> SUFFICES ASSUME NEW w \in Voters
                     PROVE  /\ voting'[w] # Idle => rowLock[voting'[w].match] = w
                            /\ voting'[w].phase = "checked" =>
                                 /\ match[voting'[w].match].status = "scheduled"
                                 /\ {match[voting'[w].match].home, match[voting'[w].match].away} \subseteq active
                                 /\ voting'[w].pick.team \in {match[voting'[w].match].home, match[voting'[w].match].away}
            BY <1>3, <2>2 DEF CheckedVotes
        <3>1. CASE w = v
            BY <3>1, <2>1, <2>3, <2>5, <1>1, VotingProperties
        <3>2. CASE w # v
            BY <3>2, <2>3 DEF VotesInv, CheckedVotes
        <3>3. QED
            BY <3>1, <3>2
    <2>7. CheckedEdits'
        BY <1>3, <2>2 DEF VotesInv, CheckedEdits, MayEdit, KeepsTeams, NoVotes
    <2>8. QED
        BY <1>4, <2>4, <2>6, <2>7 DEF VotesInv
<1>6. CASE ~Accepts(match[m], voting[v].pick, clock)
    <2>1. voting' = [voting EXCEPT ![v] = Idle] /\ Unlock(m)
        BY <1>6 DEF CheckVote
    <2>2. /\ voting' \in [Voters -> Votings] /\ rowLock' \in [Matches -> {Free} \cup Voters \cup Editors]
          /\ CheckedVotes'
          /\ \A e \in Editors : editing'[e] # Idle => rowLock'[editing'[e].match] = e
        BY <1>1, <1>3, <2>1, VoterDone
    <2>3. PredictionsTypeOK'
        BY <1>3, <2>2 DEF VotesInv, PredictionsTypeOK, Votings
    <2>4. CheckedEdits'
        BY <1>3, <2>2 DEF VotesInv, CheckedEdits, MayEdit, KeepsTeams, NoVotes
    <2>5. QED
        BY <1>4, <2>2, <2>3, <2>4 DEF VotesInv
<1>7. QED
    BY <1>5, <1>6

LEMMA WriteVoteStep == ASSUME VotesInv, NEW v \in Voters, WriteVote(v) PROVE VotesInv'
<1>1. voting[v] # Idle
    BY DEF WriteVote, Idle
<1> DEFINE m == voting[v].match
           p == voting[v].pick
<1>2. /\ m \in Matches /\ p \in Pick /\ rowLock[m] = v
      /\ p.team \in {match[m].home, match[m].away}
    BY <1>1, VotingProperties DEF WriteVote, VotesInv, CheckedVotes
<1>3. /\ votes' = [votes EXCEPT ![<<v, m>>] = p] /\ voting' = [voting EXCEPT ![v] = Idle]
      /\ Unlock(m) /\ UNCHANGED <<clock, match, active, editing>>
    BY DEF WriteVote
<1>4. /\ voting' \in [Voters -> Votings] /\ rowLock' \in [Matches -> {Free} \cup Voters \cup Editors]
      /\ CheckedVotes'
      /\ \A e \in Editors : editing'[e] # Idle => rowLock'[editing'[e].match] = e
    BY <1>1, <1>3, VoterDone
<1> HIDE DEF m, p
<1>5. votes \in [Voters \X Matches -> Pick \cup {NoPick}] /\ <<v, m>> \in Voters \X Matches
    BY <1>2 DEF VotesInv, PredictionsTypeOK
<1>6. /\ votes' \in [Voters \X Matches -> Pick \cup {NoPick}]
      /\ votes'[<<v, m>>] = p
      /\ \A w \in Voters, k \in Matches : w # v \/ k # m => votes'[<<w, k>>] = votes[<<w, k>>]
    BY <1>2, <1>3, <1>5
<1>7. PredictionsTypeOK'
    BY <1>3, <1>4, <1>6 DEF VotesInv, PredictionsTypeOK, Votings
<1>8. CheckedEdits'
    <2> SUFFICES ASSUME NEW e \in Editors, editing[e].phase = "checked"
                 PROVE  MayEdit(editing[e].match, editing[e].next)'
        BY <1>3, <1>4 DEF CheckedEdits
    <2>1. editing[e] # Idle
        BY DEF Idle
    <2>2. /\ editing[e].match \in Matches /\ editing[e].match # m
          /\ MayEdit(editing[e].match, editing[e].next)
        BY <2>1, <1>2, EditingProperties, PredictionsAssumption DEF VotesInv, CheckedEdits
    <2>3. QED
        BY <2>2, <1>3, <1>6 DEF MayEdit, KeepsTeams, NoVotes
<1>9. VotesNamePlayers'
    <2> SUFFICES ASSUME NEW w \in Voters, NEW k \in Matches, votes'[<<w, k>>] # NoPick
                 PROVE  votes'[<<w, k>>].team \in {match[k].home, match[k].away}
        BY <1>3 DEF VotesNamePlayers
    <2>1. CASE w = v /\ k = m
        BY <2>1, <1>2, <1>6
    <2>2. CASE w # v \/ k # m
        BY <2>2, <1>6 DEF VotesInv, VotesNamePlayers
    <2>3. QED
        BY <2>1, <2>2
<1>10. QED
    BY <1>4, <1>7, <1>8, <1>9 DEF VotesInv

LEMMA LockForEditStep ==
    ASSUME VotesInv, NEW e \in Editors, NEW m \in Matches, NEW next \in Match, LockForEdit(e, m, next)
    PROVE  VotesInv'
<1> DEFINE n == [phase |-> "locked", match |-> m, next |-> next]
<1>1. /\ n \in [phase : {"locked", "checked"}, match : Matches, next : Match]
      /\ n.phase = "locked" /\ n.match = m
    OBVIOUS
<1>2. /\ editing' = [editing EXCEPT ![e] = n] /\ rowLock' = [rowLock EXCEPT ![m] = e]
      /\ UNCHANGED <<clock, match, active, votes, voting>>
    BY DEF LockForEdit
<1> HIDE DEF n
<1>3. PredictionsTypeOK'
    BY <1>1, <1>2 DEF VotesInv, PredictionsTypeOK
<1>4. /\ editing'[e] = n /\ \A f \in Editors : f # e => editing'[f] = editing[f]
      /\ rowLock'[m] = e /\ \A k \in Matches : k # m => rowLock'[k] = rowLock[k]
    BY <1>2 DEF VotesInv, PredictionsTypeOK
<1>5. /\ \A w \in Voters : voting[w] # Idle => voting[w].match # m /\ voting[w].match \in Matches
      /\ \A f \in Editors : editing[f] # Idle => editing[f].match # m /\ editing[f].match \in Matches
    BY NobodyAtWork, VotingProperties, EditingProperties DEF LockForEdit
<1>6. CheckedVotes'
    BY <1>2, <1>4, <1>5 DEF VotesInv, CheckedVotes
<1>7. CheckedEdits'
    <2> SUFFICES ASSUME NEW f \in Editors
                 PROVE  /\ editing'[f] # Idle => rowLock'[editing'[f].match] = f
                        /\ editing'[f].phase = "checked" => MayEdit(editing'[f].match, editing'[f].next)
        BY <1>2 DEF CheckedEdits, MayEdit, KeepsTeams, NoVotes
    <2>1. CASE f = e
        BY <2>1, <1>1, <1>4
    <2>2. CASE f # e
        BY <2>2, <1>4, <1>5 DEF VotesInv, CheckedEdits
    <2>3. QED
        BY <2>1, <2>2
<1>8. VotesNamePlayers'
    BY <1>2 DEF VotesInv, VotesNamePlayers
<1>9. QED
    BY <1>3, <1>6, <1>7, <1>8 DEF VotesInv

\* An editor who gives up or is done leaves the row free, and the other
\* editors and the voters were at other matches.
LEMMA EditorDone ==
    ASSUME VotesInv, NEW e \in Editors, editing[e] # Idle, editing' = [editing EXCEPT ![e] = Idle],
           Unlock(editing[e].match)
    PROVE  /\ editing' \in [Editors -> Editings] /\ rowLock' \in [Matches -> {Free} \cup Voters \cup Editors]
           /\ \A f \in Editors : editing'[f] # Idle =>
                /\ editing'[f] = editing[f] /\ rowLock'[editing[f].match] = f
                /\ editing[f].match \in Matches \ {editing[e].match}
           /\ \A w \in Voters : voting[w] # Idle =>
                /\ rowLock'[voting[w].match] = w
                /\ voting[w].match \in Matches \ {editing[e].match}
<1> DEFINE m == editing[e].match
<1>1. m \in Matches /\ rowLock[m] = e
    BY EditingProperties
<1>2. /\ editing'[e] = Idle /\ \A f \in Editors : f # e => editing'[f] = editing[f]
      /\ rowLock'[m] = Free /\ \A k \in Matches : k # m => rowLock'[k] = rowLock[k]
    BY <1>1 DEF VotesInv, PredictionsTypeOK, Unlock
<1> HIDE DEF m
<1>3. /\ \A w \in Voters : voting[w] # Idle => voting[w].match # m /\ voting[w].match \in Matches
      /\ \A f \in Editors : f # e /\ editing[f] # Idle => editing[f].match # m /\ editing[f].match \in Matches
    BY <1>1, VotingProperties, EditingProperties, PredictionsAssumption
<1>4. /\ editing' \in [Editors -> Editings] /\ rowLock' \in [Matches -> {Free} \cup Voters \cup Editors]
    BY <1>1 DEF VotesInv, PredictionsTypeOK, Editings, Unlock, m
<1>5. QED
    BY <1>2, <1>3, <1>4, VotingProperties, EditingProperties DEF m

LEMMA CheckEditStep == ASSUME VotesInv, NEW e \in Editors, CheckEdit(e) PROVE VotesInv'
<1>1. editing[e] # Idle
    BY DEF CheckEdit, Idle
<1> DEFINE m == editing[e].match
<1>2. /\ editing[e] \in [phase : {"locked", "checked"}, match : Matches, next : Match]
      /\ m \in Matches
    BY <1>1, EditingProperties
<1>3. UNCHANGED <<clock, match, active, votes, voting>>
    BY DEF CheckEdit
<1>4. VotesNamePlayers'
    BY <1>3 DEF VotesInv, VotesNamePlayers
<1>5. CASE MayEdit(m, editing[e].next)
    <2> DEFINE n == [editing[e] EXCEPT !.phase = "checked"]
    <2>1. /\ n \in [phase : {"locked", "checked"}, match : Matches, next : Match]
          /\ n.match = m /\ n.next = editing[e].next
        BY <1>2
    <2>2. editing' = [editing EXCEPT ![e] = n] /\ rowLock' = rowLock
        BY <1>5 DEF CheckEdit
    <2> HIDE DEF n
    <2>3. editing'[e] = n /\ \A f \in Editors : f # e => editing'[f] = editing[f]
        BY <2>2 DEF VotesInv, PredictionsTypeOK
    <2>4. PredictionsTypeOK'
        BY <1>3, <2>1, <2>2 DEF VotesInv, PredictionsTypeOK
    <2>5. CheckedVotes'
        BY <1>3, <2>2 DEF VotesInv, CheckedVotes
    <2>6. CheckedEdits'
        <3> SUFFICES ASSUME NEW f \in Editors
                     PROVE  /\ editing'[f] # Idle => rowLock[editing'[f].match] = f
                            /\ editing'[f].phase = "checked" => MayEdit(editing'[f].match, editing'[f].next)
            BY <1>3, <2>2 DEF CheckedEdits, MayEdit, KeepsTeams, NoVotes
        <3>1. CASE f = e
            BY <3>1, <2>1, <2>3, <1>1, <1>5, EditingProperties
        <3>2. CASE f # e
            BY <3>2, <2>3 DEF VotesInv, CheckedEdits
        <3>3. QED
            BY <3>1, <3>2
    <2>7. QED
        BY <1>4, <2>4, <2>5, <2>6 DEF VotesInv
<1>6. CASE ~MayEdit(m, editing[e].next)
    <2>1. editing' = [editing EXCEPT ![e] = Idle] /\ Unlock(m)
        BY <1>6 DEF CheckEdit
    <2>2. /\ editing' \in [Editors -> Editings] /\ rowLock' \in [Matches -> {Free} \cup Voters \cup Editors]
          /\ \A f \in Editors : editing'[f] # Idle =>
                editing'[f] = editing[f] /\ rowLock'[editing[f].match] = f
          /\ \A w \in Voters : voting[w] # Idle => rowLock'[voting[w].match] = w
        BY <1>1, <2>1, EditorDone
    <2>3. PredictionsTypeOK'
        BY <1>3, <2>2 DEF VotesInv, PredictionsTypeOK, Editings
    <2>4. CheckedVotes'
        BY <1>3, <2>2 DEF VotesInv, CheckedVotes
    <2>5. CheckedEdits'
        <3> SUFFICES ASSUME NEW f \in Editors
                     PROVE  /\ editing'[f] # Idle => rowLock'[editing'[f].match] = f
                            /\ editing'[f].phase = "checked" => MayEdit(editing'[f].match, editing'[f].next)
            BY <1>3 DEF CheckedEdits, MayEdit, KeepsTeams, NoVotes
        <3>1. CASE editing'[f] = Idle
            BY <3>1 DEF Idle
        <3>2. CASE editing'[f] # Idle
            BY <3>2, <2>2 DEF VotesInv, CheckedEdits
        <3>3. QED
            BY <3>1, <3>2
    <2>6. QED
        BY <1>4, <2>3, <2>4, <2>5 DEF VotesInv
<1>7. QED
    BY <1>5, <1>6

\* The row of one match changes, and those who have checked a match have
\* checked another.
LEMMA MatchChanges ==
    ASSUME VotesInv, NEW m \in Matches, NEW n \in Match, match' = [match EXCEPT ![m] = n],
           UNCHANGED <<clock, active, votes, voting>>,
           editing' \in [Editors -> Editings], rowLock' \in [Matches -> {Free} \cup Voters \cup Editors],
           \A f \in Editors : editing'[f] # Idle =>
               /\ editing'[f] = editing[f] /\ rowLock'[editing[f].match] = f
               /\ editing[f].match \in Matches \ {m},
           \A w \in Voters : voting[w] # Idle =>
               rowLock'[voting[w].match] = w /\ voting[w].match \in Matches \ {m},
           MayEdit(m, n)
    PROVE  VotesInv'
<1>1. PredictionsTypeOK'
    BY DEF VotesInv, PredictionsTypeOK, Editings
<1>2. match'[m] = n /\ \A k \in Matches : k # m => match'[k] = match[k]
    BY DEF VotesInv, PredictionsTypeOK
<1>3. CheckedVotes'
    <2> SUFFICES ASSUME NEW w \in Voters
                 PROVE  /\ voting[w] # Idle => rowLock'[voting[w].match] = w
                        /\ voting[w].phase = "checked" =>
                             /\ match'[voting[w].match].status = "scheduled"
                             /\ {match'[voting[w].match].home, match'[voting[w].match].away} \subseteq active
                             /\ voting[w].pick.team \in {match'[voting[w].match].home, match'[voting[w].match].away}
        BY DEF CheckedVotes
    <2>1. CASE voting[w] = Idle
        BY <2>1 DEF Idle
    <2>2. CASE voting[w] # Idle
        <3>1. match'[voting[w].match] = match[voting[w].match]
            BY <2>2, <1>2
        <3>2. QED
            BY <2>2, <3>1 DEF VotesInv, CheckedVotes
    <2>3. QED
        BY <2>1, <2>2
<1>4. CheckedEdits'
    <2> SUFFICES ASSUME NEW f \in Editors
                 PROVE  /\ editing'[f] # Idle => rowLock'[editing'[f].match] = f
                        /\ editing'[f].phase = "checked" => MayEdit(editing[f].match, editing[f].next)'
        BY DEF CheckedEdits
    <2>1. CASE editing'[f] = Idle
        BY <2>1 DEF Idle
    <2>2. CASE editing'[f] # Idle
        <3>1. editing'[f] = editing[f] /\ match'[editing[f].match] = match[editing[f].match]
            BY <2>2, <1>2
        <3>2. QED
            BY <2>2, <3>1 DEF VotesInv, CheckedEdits, MayEdit, KeepsTeams, NoVotes
    <2>3. QED
        BY <2>1, <2>2
<1>5. VotesNamePlayers'
    <2> SUFFICES ASSUME NEW w \in Voters, NEW k \in Matches, votes[<<w, k>>] # NoPick
                 PROVE  votes[<<w, k>>].team \in {match'[k].home, match'[k].away}
        BY DEF VotesNamePlayers
    <2>1. votes[<<w, k>>].team \in {match[k].home, match[k].away}
        BY DEF VotesInv, VotesNamePlayers
    <2>2. match'[k].home = match[k].home /\ match'[k].away = match[k].away
        BY <1>2 DEF MayEdit, KeepsTeams, NoVotes
    <2>3. QED
        BY <2>1, <2>2
<1>6. QED
    BY <1>1, <1>3, <1>4, <1>5 DEF VotesInv

LEMMA WriteEditStep == ASSUME VotesInv, NEW e \in Editors, WriteEdit(e) PROVE VotesInv'
<1>1. editing[e] # Idle
    BY DEF WriteEdit, Idle
<1>2. /\ editing[e].match \in Matches /\ editing[e].next \in Match
      /\ MayEdit(editing[e].match, editing[e].next)
    BY <1>1, EditingProperties DEF WriteEdit, VotesInv, CheckedEdits
<1>3. /\ match' = [match EXCEPT ![editing[e].match] = editing[e].next]
      /\ editing' = [editing EXCEPT ![e] = Idle] /\ Unlock(editing[e].match)
      /\ UNCHANGED <<clock, active, votes, voting>>
    BY DEF WriteEdit
<1>4. /\ editing' \in [Editors -> Editings] /\ rowLock' \in [Matches -> {Free} \cup Voters \cup Editors]
      /\ \A f \in Editors : editing'[f] # Idle =>
            /\ editing'[f] = editing[f] /\ rowLock'[editing[f].match] = f
            /\ editing[f].match \in Matches \ {editing[e].match}
      /\ \A w \in Voters : voting[w] # Idle =>
            rowLock'[voting[w].match] = w /\ voting[w].match \in Matches \ {editing[e].match}
    BY <1>1, <1>3, EditorDone
<1>5. QED
    BY <1>2, <1>3, <1>4, MatchChanges

LEMMA ImportSeriesStep ==
    ASSUME VotesInv, NEW m \in Matches, NEW s \in Scores, ImportSeries(m, s)
    PROVE  VotesInv'
<1> DEFINE n == [match[m] EXCEPT !.status = "completed", !.score = s,
                                 !.winner = IF s[1] > s[2] THEN match[m].home ELSE match[m].away]
<1>1. match[m] \in Match /\ match \in [Matches -> Match]
    BY DEF VotesInv, PredictionsTypeOK
<1>2. n \in Match /\ n.home = match[m].home /\ n.away = match[m].away
    BY <1>1 DEF Match, Statuses
<1>3. match' = [match EXCEPT ![m] = n] /\ UNCHANGED <<clock, active, votes, voting, editing, rowLock>>
    BY <1>1 DEF ImportSeries
<1>4. MayEdit(m, n)
    BY <1>2 DEF MayEdit, KeepsTeams
<1> HIDE DEF n
<1>5. /\ \A f \in Editors : editing[f] # Idle =>
            rowLock[editing[f].match] = f /\ editing[f].match \in Matches \ {m}
      /\ \A w \in Voters : voting[w] # Idle =>
            rowLock[voting[w].match] = w /\ voting[w].match \in Matches \ {m}
    BY NobodyAtWork, VotingProperties, EditingProperties DEF ImportSeries
<1>6. /\ editing' \in [Editors -> Editings] /\ rowLock' \in [Matches -> {Free} \cup Voters \cup Editors]
    BY <1>3 DEF VotesInv, PredictionsTypeOK, Editings
<1>7. QED
    BY <1>2, <1>3, <1>4, <1>5, <1>6, MatchChanges

LEMMA EditTeamStep == ASSUME VotesInv, NEW t \in Teams, EditTeam(t) PROVE VotesInv'
<1>1. /\ UNCHANGED <<clock, match, votes, voting, editing, rowLock>>
      /\ active' \subseteq Teams /\ \A u \in active : u # t => u \in active'
    BY DEF EditTeam, VotesInv, PredictionsTypeOK
<1>2. PredictionsTypeOK'
    BY <1>1 DEF VotesInv, PredictionsTypeOK
<1>3. CheckedVotes'
    BY <1>1 DEF VotesInv, CheckedVotes, EditTeam, Shared
<1>4. CheckedEdits' /\ VotesNamePlayers'
    BY <1>1 DEF VotesInv, CheckedEdits, VotesNamePlayers, MayEdit, KeepsTeams, NoVotes
<1>5. QED
    BY <1>2, <1>3, <1>4 DEF VotesInv

LEMMA VotesInvStep == ASSUME VotesInv, [PredictionsNext(Pick, Match)]_predictionVars PROVE VotesInv'
<1>1. CASE Tick
    BY <1>1, PredictionsAssumption DEF Tick, VotesInv, PredictionsTypeOK, CheckedVotes, CheckedEdits,
       VotesNamePlayers, MayEdit, KeepsTeams, NoVotes
<1>2. CASE UNCHANGED predictionVars
    BY <1>2 DEF predictionVars, VotesInv, PredictionsTypeOK, CheckedVotes, CheckedEdits,
       VotesNamePlayers, MayEdit, KeepsTeams, NoVotes
<1>3. QED
    BY <1>1, <1>2, LockForVoteStep, CheckVoteStep, WriteVoteStep, LockForEditStep, CheckEditStep,
       WriteEditStep, ImportSeriesStep, EditTeamStep DEF PredictionsNext

LEMMA VotesInvInit == PredictionsInit => VotesInv
<1> SUFFICES ASSUME PredictionsInit PROVE VotesInv
    OBVIOUS
<1>1. PredictionsTypeOK
    BY PredictionsAssumption DEF PredictionsInit, PredictionsTypeOK
<1>2. CheckedVotes /\ CheckedEdits
    BY DEF PredictionsInit, CheckedVotes, CheckedEdits, Idle
<1>3. VotesNamePlayers
    BY DEF PredictionsInit, VotesNamePlayers
<1>4. QED
    BY <1>1, <1>2, <1>3 DEF VotesInv

\* Votes and edits of a match keep their types, and what was checked of a match
\* holds until it is written.
THEOREM VotesInvCorrect == PredictionsSpec => []VotesInv
BY VotesInvInit, VotesInvStep, PTL DEF PredictionsSpec

\* Votes are written only while they are open and name a team of their match,
\* for any number of voters, editors and matches.
THEOREM VotesCorrect == PredictionsSpec => VotesStand
<1>1. VotesInv /\ [PredictionsNext(Pick, Match)]_predictionVars =>
        [\A v \in Voters, m \in Matches :
           votes'[<<v, m>>] # votes[<<v, m>>] =>
             match[m].status = "scheduled" /\ {match[m].home, match[m].away} \subseteq active]_votes
    <2> SUFFICES ASSUME VotesInv, PredictionsNext(Pick, Match), votes' # votes,
                        NEW v \in Voters, NEW m \in Matches, votes'[<<v, m>>] # votes[<<v, m>>]
                 PROVE  match[m].status = "scheduled" /\ {match[m].home, match[m].away} \subseteq active
        BY DEF predictionVars
    <2>1. PICK w \in Voters : WriteVote(w)
        BY DEF PredictionsNext, LockForVote, CheckVote, LockForEdit, CheckEdit, WriteEdit, EditTeam,
               ImportSeries, Tick
    <2>2. voting[w] # Idle
        BY <2>1 DEF WriteVote, Idle
    <2>3. voting[w].match \in Matches /\ votes' = [votes EXCEPT ![<<w, voting[w].match>>] = voting[w].pick]
        BY <2>1, <2>2, VotingProperties DEF WriteVote
    <2>4. votes \in [Voters \X Matches -> Pick \cup {NoPick}] /\ <<v, m>> \in Voters \X Matches
        BY DEF VotesInv, PredictionsTypeOK
    <2>5. w = v /\ voting[w].match = m
        BY <2>3, <2>4
    <2>6. QED
        BY <2>1, <2>5 DEF WriteVote, VotesInv, CheckedVotes
<1>2. VotesInv => VotesNamePlayers
    BY DEF VotesInv
<1>3. QED
    BY <1>1, <1>2, VotesInvCorrect, PTL DEF PredictionsSpec, VotesStand, VotesWhileOpen

-----------------------------------------------------------------------------
(***************************************************************************)
(* CrystalBall: the campaign is locked by whoever writes ballots or        *)
(* results.                                                                *)
(***************************************************************************)

\* What a member remembers between the statements of a transaction.
Tasks ==
    [phase : {"resting"}]
    \cup [phase : {"save", "save write"}, ballot : {1, 2}]
    \cup [phase : {"configure", "configure write"}, opens : Moments, closes : Moments]
    \cup [phase : {"resolve"}, manual : SUBSET Questions, finalize : BOOLEAN]
    \cup [phase : {"resolve write"}, manual : SUBSET Questions, finalize : BOOLEAN,
          computed : SUBSET Automatic]

\* Whoever saves or resolves holds the campaign, whoever configures the season.
HoldsLocks(w) ==
    /\ task[w].phase \in {"save", "save write", "resolve", "resolve write"} => campaignLock = w
    /\ task[w].phase \in {"configure", "configure write"} => seasonLock = w
    /\ task[w].phase = "configure write" => campaignLock = w \/ ~Exists
    /\ task[w].phase = "save write" => ~HasResults(campaign)

CrystalInv ==
    /\ CrystalTypeOK
    /\ task \in [Workers -> Tasks]
    /\ \A w \in Workers : HoldsLocks(w)
    /\ campaignLock # Unlocked => Exists
    /\ ResultsAreCurrent

\* A member takes a step of a transaction that leaves the campaign alone: the
\* locks only pass between this member and nobody.
LEMMA MemberStep ==
    ASSUME CrystalInv, NEW w \in Workers, NEW t \in Tasks, task' = [task EXCEPT ![w] = t],
           UNCHANGED <<now, series, recorded, campaign>>, ballot' \in [Players -> 0..2],
           campaignLock' = campaignLock
             \/ (campaignLock \in {w, Unlocked} /\ campaignLock' \in {w, Unlocked}),
           seasonLock' = seasonLock
             \/ (seasonLock \in {w, Unlocked} /\ seasonLock' \in {w, Unlocked}),
           seasonLock' \in Managers \cup {Unlocked},
           campaignLock' # Unlocked => Exists, HoldsLocks(w)'
    PROVE  CrystalInv'
<1>1. CrystalTypeOK'
    BY DEF CrystalInv, CrystalTypeOK, Campaigns, Workers
<1>2. task \in [Workers -> Tasks] /\ task' \in [Workers -> Tasks]
    BY DEF CrystalInv
<1>3. ASSUME NEW v \in Workers, v # w
      PROVE  HoldsLocks(v)'
    <2>1. task'[v] = task[v]
        BY <1>2, <1>3
    <2>2. HoldsLocks(v) /\ v # Unlocked
        BY CrystalAssumption DEF CrystalInv, Workers
    <2>3. (campaignLock = v => campaignLock' = v) /\ (seasonLock = v => seasonLock' = v)
        BY <1>3, <2>2
    <2>4. QED
        BY <2>1, <2>2, <2>3 DEF HoldsLocks, Exists, HasResults
<1>4. ResultsAreCurrent' /\ Exists' = Exists
    BY DEF CrystalInv, ResultsAreCurrent, Exists
<1>5. \A v \in Workers : HoldsLocks(v)'
    BY <1>3
<1>6. QED
    BY <1>1, <1>2, <1>4, <1>5 DEF CrystalInv

\* The end of a transaction that wrote nothing.
LEMMA Rested ==
    ASSUME CrystalInv, NEW w \in Workers, Rest(w), UNCHANGED <<now, series, recorded, campaign>>,
           ballot' \in [Players -> 0..2]
    PROVE  CrystalInv'
<1>1. Resting \in Tasks /\ Resting.phase = "resting"
    BY DEF Tasks, Resting
<1>2. task' = [task EXCEPT ![w] = Resting] /\ task \in [Workers -> Tasks]
    BY DEF Rest, CrystalInv
<1>3. task'[w] = Resting
    BY <1>2
<1>4. HoldsLocks(w)'
    BY <1>1, <1>3 DEF HoldsLocks
<1>5. /\ campaignLock' = campaignLock \/ (campaignLock \in {w, Unlocked} /\ campaignLock' \in {w, Unlocked})
      /\ seasonLock' = seasonLock \/ (seasonLock \in {w, Unlocked} /\ seasonLock' \in {w, Unlocked})
      /\ seasonLock' \in Managers \cup {Unlocked} /\ (campaignLock' # Unlocked => Exists)
    BY DEF Rest, CrystalInv, CrystalTypeOK
<1>6. QED
    BY <1>1, <1>2, <1>4, <1>5, MemberStep

\* The campaign is written by the member who holds it, or by the one who
\* creates it: nobody else has read it.
LEMMA CampaignStep ==
    ASSUME CrystalInv, NEW w \in Workers, Rest(w), campaign' \in Campaigns, ResultsAreCurrent',
           UNCHANGED <<now, series, recorded, ballot>>,
           campaignLock = w \/ (~Exists /\ seasonLock = w)
    PROVE  CrystalInv'
<1>1. Resting \in Tasks /\ Resting.phase = "resting"
    BY DEF Tasks, Resting
<1>2. /\ task' = [task EXCEPT ![w] = Resting] /\ task \in [Workers -> Tasks]
      /\ campaignLock' = IF campaignLock = w THEN Unlocked ELSE campaignLock
      /\ seasonLock' = IF seasonLock = w THEN Unlocked ELSE seasonLock
    BY DEF Rest, CrystalInv
<1>3. task'[w] = Resting /\ task' \in [Workers -> Tasks]
    BY <1>1, <1>2
<1>4. CrystalTypeOK'
    BY <1>2 DEF CrystalInv, CrystalTypeOK
<1>5. w # Unlocked /\ campaignLock \in {w, Unlocked} /\ campaignLock' = Unlocked
    BY <1>2, CrystalAssumption DEF CrystalInv, Workers
<1>6. ASSUME NEW v \in Workers, v # w
      PROVE  HoldsLocks(v)'
    <2>1. task'[v] = task[v] /\ HoldsLocks(v) /\ v # Unlocked
        BY <1>2, <1>6, CrystalAssumption DEF CrystalInv, Workers
    <2>2. task[v].phase \notin {"save", "save write", "resolve", "resolve write"}
        BY <2>1, <1>5, <1>6 DEF HoldsLocks
    <2>3. task[v].phase # "configure write"
        BY <2>1, <1>5, <1>6 DEF HoldsLocks, CrystalInv
    <2>4. seasonLock = v => seasonLock' = v
        BY <1>2, <1>6
    <2>5. QED
        BY <2>1, <2>2, <2>3, <2>4 DEF HoldsLocks
<1>7. HoldsLocks(w)'
    BY <1>1, <1>3 DEF HoldsLocks
<1>8. QED
    BY <1>3, <1>4, <1>5, <1>6, <1>7 DEF CrystalInv

LEMMA SaveStep ==
    ASSUME CrystalInv, NEW p \in Players,
           (\E b \in {1, 2} : SaveLocks(p, b)) \/ SaveChecks(p) \/ SaveWrites(p)
    PROVE  CrystalInv'
<1>1. /\ p \in Workers /\ task[p] \in Tasks /\ task \in [Workers -> Tasks] /\ HoldsLocks(p)
      /\ ballot \in [Players -> 0..2] /\ seasonLock \in Managers \cup {Unlocked}
    BY DEF CrystalInv, CrystalTypeOK, Workers
<1>2. ASSUME NEW b \in {1, 2}, SaveLocks(p, b) PROVE CrystalInv'
    <2> DEFINE t == [phase |-> "save", ballot |-> b]
    <2>1. t \in Tasks /\ t.phase = "save"
        BY DEF Tasks
    <2>2. /\ task' = [task EXCEPT ![p] = t] /\ campaignLock' = p /\ campaignLock = Unlocked /\ Exists
          /\ UNCHANGED <<now, series, recorded, campaign, ballot, seasonLock>>
        BY <1>2 DEF SaveLocks, CampaignFree, TakeCampaign, World
    <2> HIDE DEF t
    <2>3. HoldsLocks(p)'
        BY <1>1, <2>1, <2>2 DEF HoldsLocks
    <2>4. QED
        BY <1>1, <2>1, <2>2, <2>3, MemberStep
<1>3. CASE SaveChecks(p)
    <2>1. task[p] \in [phase : {"save", "save write"}, ballot : {1, 2}] /\ task[p].phase = "save"
        BY <1>1, <1>3 DEF SaveChecks, Tasks
    <2>2. CASE Status(campaign) = "open"
        <3> DEFINE t == [task[p] EXCEPT !.phase = "save write"]
        <3>1. t \in Tasks /\ t.phase = "save write"
            BY <2>1 DEF Tasks
        <3>2. /\ task' = [task EXCEPT ![p] = t]
              /\ UNCHANGED <<now, series, recorded, campaign, ballot, campaignLock, seasonLock>>
            BY <1>3, <2>2 DEF SaveChecks, World
        <3> HIDE DEF t
        <3>3. ~HasResults(campaign)
            <4>1. Status(campaign) \in {"unconfigured", "resolved", "closed"} \/ ~ClosedNow(campaign)
                BY DEF Status
            <4>2. QED
                BY <2>2, <4>1 DEF ClosedNow
        <3>4. HoldsLocks(p)'
            BY <1>1, <2>1, <3>1, <3>2, <3>3 DEF HoldsLocks, HasResults
        <3>5. QED
            BY <1>1, <3>1, <3>2, <3>4, MemberStep DEF CrystalInv
    <2>3. CASE Status(campaign) # "open"
        BY <1>1, <1>3, <2>3, Rested DEF SaveChecks, World
    <2>4. QED
        BY <2>2, <2>3
<1>4. CASE SaveWrites(p)
    <2>1. task[p] \in [phase : {"save", "save write"}, ballot : {1, 2}]
        BY <1>1, <1>4 DEF SaveWrites, Tasks
    <2>2. /\ task[p].ballot \in 0..2
          /\ ballot' = [ballot EXCEPT ![p] = task[p].ballot]
        <3>1. task[p].ballot \in {1, 2}
            BY <2>1
        <3>2. {1, 2} \subseteq 0..2
            OBVIOUS
        <3>3. ballot' = [ballot EXCEPT ![p] = task[p].ballot]
            BY <1>4 DEF SaveWrites
        <3>4. QED
            BY <3>1, <3>2, <3>3
    <2>3. ballot' \in [Players -> 0..2]
        BY <1>1, <2>2
    <2>4. QED
        BY <1>1, <1>4, <2>3, Rested DEF SaveWrites, World
<1>5. QED
    BY <1>2, <1>3, <1>4

LEMMA ConfigureStep ==
    ASSUME CrystalInv, NEW m \in Managers,
           \/ \E x \in Moments \X Moments : ConfigureLocks(m, x[1], x[2])
           \/ ConfigureChecks(m) \/ ConfigureWrites(m)
    PROVE  CrystalInv'
<1>1. /\ m \in Workers /\ task[m] \in Tasks /\ task \in [Workers -> Tasks] /\ HoldsLocks(m)
      /\ ballot \in [Players -> 0..2] /\ seasonLock \in Managers \cup {Unlocked}
      /\ campaign \in Campaigns \cup {NoCampaign} /\ ResultsAreCurrent
    BY DEF CrystalInv, CrystalTypeOK, Workers
<1>2. ASSUME NEW x \in Moments \X Moments, ConfigureLocks(m, x[1], x[2]) PROVE CrystalInv'
    <2> DEFINE t == [phase |-> "configure", opens |-> x[1], closes |-> x[2]]
    <2>1. t \in Tasks /\ t.phase = "configure"
        BY DEF Tasks
    <2>2. /\ task' = [task EXCEPT ![m] = t] /\ seasonLock' = m /\ seasonLock = Unlocked
          /\ UNCHANGED <<now, series, recorded, campaign, ballot, campaignLock>>
        BY <1>2 DEF ConfigureLocks, World
    <2> HIDE DEF t
    <2>3. HoldsLocks(m)'
        BY <1>1, <2>1, <2>2 DEF HoldsLocks
    <2>4. QED
        BY <1>1, <2>1, <2>2, <2>3, MemberStep DEF CrystalInv
<1>3. CASE ConfigureChecks(m)
    <2>1. /\ task[m] \in [phase : {"configure", "configure write"}, opens : Moments, closes : Moments]
          /\ task[m].phase = "configure" /\ campaignLock = Unlocked
        BY <1>1, <1>3 DEF ConfigureChecks, Tasks, CampaignFree
    <2>2. CASE MayConfigure(task[m])
        <3> DEFINE t == [task[m] EXCEPT !.phase = "configure write"]
        <3>1. t \in Tasks /\ t.phase = "configure write"
            BY <2>1 DEF Tasks
        <3>2. /\ task' = [task EXCEPT ![m] = t] /\ campaignLock' = (IF Exists THEN m ELSE Unlocked)
              /\ UNCHANGED <<now, series, recorded, campaign, ballot, seasonLock>>
            BY <1>3, <2>1, <2>2 DEF ConfigureChecks, World, TakeCampaign
        <3> HIDE DEF t
        <3>3. HoldsLocks(m)'
            BY <1>1, <2>1, <3>1, <3>2 DEF HoldsLocks, Exists
        <3>4. QED
            BY <1>1, <2>1, <3>1, <3>2, <3>3, MemberStep
    <2>3. CASE ~MayConfigure(task[m])
        BY <1>1, <1>3, <2>3, Rested DEF ConfigureChecks, World
    <2>4. QED
        BY <2>2, <2>3
<1>4. CASE ConfigureWrites(m)
    <2>1. task[m] \in [phase : {"configure", "configure write"}, opens : Moments, closes : Moments]
        BY <1>1, <1>4 DEF ConfigureWrites, Tasks
    <2>2. campaign' = [campaign EXCEPT !.opens = task[m].opens, !.closes = task[m].closes]
        BY <1>4 DEF ConfigureWrites
    <2>3. campaign' \in Campaigns
        <3>1. task[m].opens \in Moments /\ task[m].closes \in Moments
            BY <2>1
        <3>2. CASE campaign \in Campaigns
            BY <2>2, <3>1, <3>2 DEF Campaigns
        <3>3. CASE campaign = NoCampaign
            <4>1. campaign' = [opens |-> task[m].opens, closes |-> task[m].closes,
                               results |-> [q \in Questions |-> "none"], automatic |-> {},
                               calculated |-> FALSE, published |-> FALSE, resolved |-> FALSE]
                BY <2>2, <3>3 DEF NoCampaign
            <4>2. [q \in Questions |-> "none"] \in [Questions -> Sources]
                BY DEF Sources
            <4>3. QED
                BY <3>1, <4>1, <4>2 DEF Campaigns
        <3>4. QED
            BY <1>1, <3>2, <3>3
    <2>4. ResultsAreCurrent'
        BY <1>1, <2>2 DEF ResultsAreCurrent, Campaigns, NoCampaign
    <2>5. campaignLock = m \/ (~Exists /\ seasonLock = m)
        BY <1>1, <1>4 DEF ConfigureWrites, HoldsLocks
    <2>6. QED
        BY <1>1, <1>4, <2>3, <2>4, <2>5, CampaignStep DEF ConfigureWrites, World
<1>5. QED
    BY <1>2, <1>3, <1>4

LEMMA ResolveStep ==
    ASSUME CrystalInv, NEW m \in Managers,
           \/ \E manual \in SUBSET Questions, f \in BOOLEAN : ResolveLocks(m, manual, f)
           \/ ResolveChecks(m) \/ ResolveWrites(m)
    PROVE  CrystalInv'
<1>1. /\ m \in Workers /\ task[m] \in Tasks /\ task \in [Workers -> Tasks] /\ HoldsLocks(m)
      /\ ballot \in [Players -> 0..2] /\ seasonLock \in Managers \cup {Unlocked}
      /\ campaign \in Campaigns \cup {NoCampaign} /\ ResultsAreCurrent
      /\ recorded \subseteq Automatic
    BY DEF CrystalInv, CrystalTypeOK, Workers
<1>2. ASSUME NEW manual \in SUBSET Questions, NEW f \in BOOLEAN, ResolveLocks(m, manual, f)
      PROVE  CrystalInv'
    <2> DEFINE t == [phase |-> "resolve", manual |-> manual, finalize |-> f]
    <2>1. t \in Tasks /\ t.phase = "resolve"
        BY DEF Tasks
    <2>2. /\ task' = [task EXCEPT ![m] = t] /\ campaignLock' = m /\ campaignLock = Unlocked /\ Exists
          /\ UNCHANGED <<now, series, recorded, campaign, ballot, seasonLock>>
        BY <1>2 DEF ResolveLocks, CampaignFree, TakeCampaign, World
    <2> HIDE DEF t
    <2>3. HoldsLocks(m)'
        BY <1>1, <2>1, <2>2 DEF HoldsLocks
    <2>4. QED
        BY <1>1, <2>1, <2>2, <2>3, MemberStep
<1>3. CASE ResolveChecks(m)
    <2>1. /\ task[m] \in [phase : {"resolve"}, manual : SUBSET Questions, finalize : BOOLEAN]
          /\ campaignLock = m
        BY <1>1, <1>3 DEF ResolveChecks, Tasks, HoldsLocks
    <2>2. CASE MayResolve(task[m])
        <3> DEFINE t == [phase |-> "resolve write", manual |-> task[m].manual,
                         finalize |-> task[m].finalize, computed |-> ComputedBy(task[m])]
        <3>1. ComputedBy(task[m]) \subseteq Automatic
            BY <1>1 DEF ComputedBy, Campaigns, NoCampaign
        <3>2. t \in Tasks /\ t.phase = "resolve write"
            BY <2>1, <3>1 DEF Tasks
        <3>3. /\ task' = [task EXCEPT ![m] = t]
              /\ UNCHANGED <<now, series, recorded, campaign, ballot, campaignLock, seasonLock>>
            BY <1>3, <2>2 DEF ResolveChecks, World
        <3> HIDE DEF t
        <3>4. HoldsLocks(m)'
            BY <1>1, <2>1, <3>2, <3>3 DEF HoldsLocks
        <3>5. QED
            BY <1>1, <3>2, <3>3, <3>4, MemberStep DEF CrystalInv
    <2>3. CASE ~MayResolve(task[m])
        BY <1>1, <1>3, <2>3, Rested DEF ResolveChecks, World
    <2>4. QED
        BY <2>2, <2>3
<1>4. CASE ResolveWrites(m)
    <2> DEFINE t == task[m]
               results == Merge(t)
    <2>1. /\ t \in [phase : {"resolve write"}, manual : SUBSET Questions, finalize : BOOLEAN,
                    computed : SUBSET Automatic]
          /\ campaignLock = m
        BY <1>1, <1>4 DEF ResolveWrites, Tasks, HoldsLocks
    <2>2. campaign \in Campaigns
        BY <1>1, <2>1, CrystalAssumption DEF CrystalInv, Workers, Exists
    <2>3. campaign' = [campaign EXCEPT
            !.results = results, !.automatic = t.computed, !.resolved = TRUE,
            !.calculated = Calculated(t),
            !.published = Calculated(t) /\ \A q \in Questions : results[q] # "none"]
        BY <1>4 DEF ResolveWrites
    <2>4. /\ results \in [Questions -> Sources]
          /\ \A q \in Questions : results[q] = "computed" <=> q \in t.computed
        <3>1. \A q \in Questions : q \in Kept(t) => campaign.results[q] \in Sources \ {"computed"}
            BY <1>1, <2>2 DEF Kept, ResultsAreCurrent, Campaigns
        <3>2. \A q \in Questions :
                 results[q] = IF q \in t.computed THEN "computed"
                              ELSE IF q \in t.manual THEN "hand"
                              ELSE IF q \in Kept(t) THEN campaign.results[q] ELSE "none"
            BY DEF Merge
        <3>3. results = [q \in Questions |-> results[q]]
            BY DEF Merge
        <3> HIDE DEF results, t
        <3>4. QED
            BY <3>1, <3>2, <3>3 DEF Sources
    <2>5. Calculated(t) \in BOOLEAN /\ t.computed \subseteq Automatic /\ Automatic \subseteq Questions
        BY <2>1, <2>2, CrystalAssumption DEF Calculated, Campaigns
    <2> HIDE DEF results, t
    <2>6. campaign' \in Campaigns
        BY <2>2, <2>3, <2>4, <2>5 DEF Campaigns
    <2>7. /\ campaign'.results = results /\ campaign'.automatic = t.computed
          /\ campaign'.calculated = Calculated(t)
          /\ campaign'.published = (Calculated(t) /\ \A q \in Questions : results[q] # "none")
        BY <2>2, <2>3 DEF Campaigns
    <2>8. ResultsAreCurrent'
        BY <2>4, <2>5, <2>7 DEF ResultsAreCurrent
    <2>9. QED
        BY <1>1, <1>4, <2>1, <2>6, <2>8, CampaignStep DEF ResolveWrites, World
<1>5. QED
    BY <1>2, <1>3, <1>4

\* The playoffs and the clock change around the campaign.
LEMMA WorldStep ==
    ASSUME CrystalInv, UNCHANGED <<campaign, ballot, task, campaignLock, seasonLock>>,
           now' \in Moments, recorded' \subseteq Automatic,
           series' \in [Series -> [status : SeriesStates, at : Moments \cup {Unset}]]
    PROVE  CrystalInv'
<1>1. CrystalTypeOK'
    BY DEF CrystalInv, CrystalTypeOK, Campaigns
<1>2. \A w \in Workers : HoldsLocks(w)'
    BY DEF CrystalInv, HoldsLocks, Exists, HasResults
<1>3. QED
    BY <1>1, <1>2 DEF CrystalInv, ResultsAreCurrent, Exists

SeriesEdits == [status : SeriesStates, at : Moments \cup {Unset}]

LEMMA CrystalInvStep ==
    ASSUME CrystalInv, [CrystalNext(Moments \X Moments, SeriesEdits)]_crystalVars
    PROVE  CrystalInv'
<1>0. /\ now \in Moments /\ recorded \subseteq Automatic
      /\ series \in [Series -> [status : SeriesStates, at : Moments \cup {Unset}]]
    BY DEF CrystalInv, CrystalTypeOK
<1>1. CASE TimePasses
    BY <1>0, <1>1, WorldStep, CrystalAssumption DEF TimePasses, Moments
<1>2. ASSUME NEW s \in Series, NEW e \in SeriesEdits, EditSeries(s, e.status, e.at) PROVE CrystalInv'
    <2>1. series' \in [Series -> [status : SeriesStates, at : Moments \cup {Unset}]]
        BY <1>0, <1>2 DEF EditSeries, SeriesEdits
    <2>2. QED
        BY <1>0, <1>2, <2>1, WorldStep DEF EditSeries
<1>3. ASSUME NEW q \in SUBSET Automatic, EditMaps(q) PROVE CrystalInv'
    BY <1>0, <1>3, WorldStep DEF EditMaps
<1>4. CASE UNCHANGED crystalVars
    BY <1>0, <1>4, WorldStep DEF crystalVars
<1>5. QED
    BY <1>1, <1>2, <1>3, <1>4, SaveStep, ConfigureStep, ResolveStep DEF CrystalNext

LEMMA CrystalInvInit == CrystalInit => CrystalInv
<1> SUFFICES ASSUME CrystalInit PROVE CrystalInv
    OBVIOUS
<1>1. task = [w \in Workers |-> Resting] /\ Resting \in Tasks /\ Resting.phase = "resting"
    BY DEF CrystalInit, Tasks, Resting
<1>2. CrystalTypeOK
    BY CrystalAssumption DEF CrystalInit, CrystalTypeOK, Moments, SeriesStates
<1>3. ResultsAreCurrent
    BY DEF CrystalInit, ResultsAreCurrent, NoCampaign
<1>4. QED
    BY <1>1, <1>2, <1>3 DEF CrystalInv, CrystalInit, HoldsLocks

\* The campaign, its ballots and its locks keep their types, and whoever writes
\* the campaign has it to himself.
THEOREM CrystalInvCorrect == CrystalSpec => []CrystalInv
BY CrystalInvInit, CrystalInvStep, PTL DEF CrystalSpec, SeriesEdits

\* Ballots come before the results and the results are those of the last
\* calculation, for any number of members, questions and series.
THEOREM BallotsCorrect == CrystalSpec => BallotsStand
<1>1. CrystalInv /\ [CrystalNext(Moments \X Moments, SeriesEdits)]_crystalVars =>
        [ballot' # ballot => ~HasResults(campaign)]_<<ballot, campaign>>
    <2> SUFFICES ASSUME CrystalInv, CrystalNext(Moments \X Moments, SeriesEdits), ballot' # ballot
                 PROVE  ~HasResults(campaign)
        BY DEF crystalVars
    <2>1. PICK p \in Players : SaveWrites(p)
        BY DEF CrystalNext, SaveLocks, SaveChecks, ConfigureLocks, ConfigureChecks, ConfigureWrites,
               ResolveLocks, ResolveChecks, ResolveWrites, TimePasses, EditSeries, EditMaps
    <2>2. QED
        BY <2>1 DEF SaveWrites, CrystalInv, HoldsLocks, Workers
<1>2. CrystalInv => ResultsAreCurrent
    BY DEF CrystalInv
<1>3. QED
    BY <1>1, <1>2, CrystalInvCorrect, PTL DEF CrystalSpec, SeriesEdits, BallotsStand, BallotsBeforeResults

-----------------------------------------------------------------------------
(***************************************************************************)
(* DatabaseTransfer: an import holds the database from the confirmation    *)
(* on.                                                                     *)
(***************************************************************************)

RoleNames == {"viewer", "admin", "owner"}
Contents == [roles: [Operators -> RoleNames], sessions: SUBSET Operators, data: Nat]

\* What an operation remembers.
Operations ==
  [op: {"none"}] \cup [op: {"export"}, member: Operators, step: {"dump"}]
  \cup [op: {"preview", "import"}, member: Operators, backup: Backups,
        step: {"lock", "prepare", "replace"}]

TransferRanges ==
  /\ db \in Contents /\ newest \in Nat
  /\ running \in Operations
  /\ writer \in [OtherWriters -> BOOLEAN]
  /\ DOMAIN confirmed = Operators

Replacing == running.op \in {"preview", "import"} /\ running.step \in {"prepare", "replace"}

\* While the import holds the tables nobody else writes, so that what it checked
\* is what it replaces.
TransferInv ==
  /\ TransferRanges
  /\ locked <=> Replacing
  /\ locked => \A w \in OtherWriters : ~writer[w]
  /\ running.op = "import" /\ running.step = "replace" =>
       Confirmed(running.member, running.backup)

TransferStep ==
  running.op = "import" /\ running' = NotRunning /\ db' # db =>
    LET c == confirmed[running.member] IN
      /\ c.shown /\ c.contents = db /\ c.backup = running.backup
      /\ db'.roles[running.member] = "owner"

LEMMA OperationFields ==
  ASSUME TransferInv, running.op \in {"preview", "import"}
  PROVE  /\ running.member \in Operators /\ running.backup \in Backups
         /\ running.step \in {"lock", "prepare", "replace"}
         /\ \A s \in {"lock", "prepare", "replace"} :
              [running EXCEPT !.step = s] =
                [op |-> running.op, member |-> running.member, backup |-> running.backup, step |-> s]
<1>1. running \in [op: {"preview", "import"}, member: Operators, backup: Backups,
                   step: {"lock", "prepare", "replace"}]
  BY DEF TransferInv, TransferRanges, Operations
<1>2. QED
  BY <1>1

LEMMA ContentsWritten ==
  ASSUME db \in Contents, newest \in Nat
  PROVE  /\ Rewritten \in Contents
         /\ \A o \in Operators, r \in RoleNames : [Rewritten EXCEPT !.roles[o] = r] \in Contents
         /\ \A o \in Operators : [Rewritten EXCEPT !.sessions = @ \cup {o}] \in Contents
<1>1. Rewritten \in Contents
  BY DEF Contents, Rewritten
<1>2. ASSUME NEW o \in Operators, NEW r \in RoleNames
      PROVE  [Rewritten EXCEPT !.roles[o] = r] \in Contents
  BY <1>1 DEF Contents
<1>3. ASSUME NEW o \in Operators
      PROVE  [Rewritten EXCEPT !.sessions = @ \cup {o}] \in Contents
  BY <1>1 DEF Contents
<1>4. QED
  BY <1>1, <1>2, <1>3

LEMMA OtherStep ==
  ASSUME TransferInv, NEW w \in OtherWriters, OtherBegins(w) \/ OtherCommits(w)
  PROVE  TransferInv' /\ TransferStep
<1>1. UNCHANGED <<running, locked, confirmed>> /\ ~locked
  BY DEF OtherBegins, OtherCommits, TransferInv
<1>2. db' \in Contents /\ newest' \in Nat /\ writer' \in [OtherWriters -> BOOLEAN]
  <2>1. /\ db \in Contents /\ newest \in Nat /\ writer \in [OtherWriters -> BOOLEAN]
        /\ RoleNames = {"viewer", "admin", "owner"}
    BY DEF TransferInv, TransferRanges, RoleNames
  <2>2. CASE OtherBegins(w)
    BY <2>1, <2>2 DEF OtherBegins
  <2>3. CASE OtherCommits(w)
    <3>1. newest' \in Nat /\ writer' \in [OtherWriters -> BOOLEAN]
      <4>1. newest' = newest + 1 /\ writer' = [writer EXCEPT ![w] = FALSE]
        BY <2>3 DEF OtherCommits
      <4>2. QED
        BY <2>1, <4>1
    <3>2. \/ db' = Rewritten
          \/ \E o \in Operators, r \in RoleNames : db' = [Rewritten EXCEPT !.roles[o] = r]
          \/ \E o \in Operators : db' = [Rewritten EXCEPT !.sessions = @ \cup {o}]
      BY <2>3, Zenon DEF OtherCommits, RoleNames
    <3>3. db' \in Contents
      <4>1. /\ Rewritten \in Contents
            /\ \A o \in Operators, r \in RoleNames : [Rewritten EXCEPT !.roles[o] = r] \in Contents
            /\ \A o \in Operators : [Rewritten EXCEPT !.sessions = @ \cup {o}] \in Contents
        BY <2>1, ContentsWritten
      <4>2. QED
        BY <3>2, <4>1
    <3>4. QED
      BY <3>1, <3>3
  <2>4. QED
    BY <2>2, <2>3
<1>3. TransferInv'
  <2>1. ~(running.op = "import" /\ running.step = "replace")
    BY <1>1 DEF TransferInv, Replacing
  <2>2. QED
    BY <1>1, <1>2, <2>1 DEF TransferInv, TransferRanges, Replacing
<1>4. TransferStep
  BY <1>1 DEF TransferStep, NotRunning
<1>5. QED
  BY <1>3, <1>4

\* A step that changes neither the database nor what was confirmed.
LEMMA RunningStep ==
  ASSUME TransferInv, UNCHANGED <<db, newest, writer, confirmed>>,
         running' \in Operations, locked' <=> Replacing',
         locked' => \A w \in OtherWriters : ~writer[w],
         running'.op = "import" /\ running'.step = "replace" =>
           Confirmed(running'.member, running'.backup)
  PROVE  TransferInv' /\ TransferStep
BY DEF TransferInv, TransferRanges, Confirmed, Shown, Snapshot, TransferStep

LEMMA Releasing ==
  ASSUME Releases
  PROVE  running' \in Operations /\ ~locked' /\ ~Replacing' /\ running'.op = "none"
BY DEF Releases, NotRunning, Operations, Replacing

LEMMA BeginStep ==
  ASSUME TransferInv, NEW o \in Operators,
         BeginsExport(o) \/ \E b \in Backups, op \in {"preview", "import"} : BeginsImport(o, b, op)
  PROVE  TransferInv' /\ TransferStep
<1>1. UNCHANGED <<db, newest, writer, locked, confirmed>> /\ ~locked
  BY DEF BeginsExport, BeginsImport, TransferInv, Replacing, NotRunning
<1>2. CASE BeginsExport(o)
  <2>1. running' = [op |-> "export", member |-> o, step |-> "dump"]
    BY <1>2 DEF BeginsExport
  <2>2. running' \in Operations /\ ~Replacing' /\ running'.op # "import"
    BY <2>1 DEF Operations, Replacing
  <2>3. QED
    BY <1>1, <2>2, RunningStep
<1>3. CASE \E b \in Backups, op \in {"preview", "import"} : BeginsImport(o, b, op)
  <2>1. PICK b \in Backups, op \in {"preview", "import"} :
          running' = [op |-> op, member |-> o, backup |-> b, step |-> "lock"]
    BY <1>3 DEF BeginsImport
  <2>2. running' \in Operations /\ ~Replacing' /\ running'.step # "replace"
    BY <2>1 DEF Operations, Replacing
  <2>3. QED
    BY <1>1, <2>2, RunningStep
<1>4. QED
  BY <1>2, <1>3

LEMMA ExportStep == ASSUME TransferInv, ExportEnds PROVE TransferInv' /\ TransferStep
<1>1. /\ UNCHANGED <<writer, confirmed>> /\ running.op = "export"
      /\ db' = db \/ db' = Rewritten
      /\ newest' = newest \/ newest' = newest + 1
  BY DEF ExportEnds
<1>2. db' \in Contents /\ newest' \in Nat
  <2>1. db \in Contents /\ newest \in Nat
    BY DEF TransferInv, TransferRanges
  <2>2. db' \in Contents
    BY <1>1, <2>1, ContentsWritten, Zenon
  <2>3. QED
    BY <1>1, <2>1, <2>2
<1>3. running' \in Operations /\ ~locked' /\ ~Replacing' /\ running'.op = "none"
  BY Releasing DEF ExportEnds
<1>4. QED
  BY <1>1, <1>2, <1>3 DEF TransferInv, TransferRanges, TransferStep

LEMMA LockStep == ASSUME TransferInv, LocksAll PROVE TransferInv' /\ TransferStep
<1>1. UNCHANGED <<db, newest, writer, confirmed>> /\ running.op \in {"preview", "import"}
  BY DEF LocksAll
<1>2. CASE NoOtherWriter
  <2>1. locked' = TRUE /\ running' = [op |-> running.op, member |-> running.member,
                                      backup |-> running.backup, step |-> "prepare"]
    BY <1>1, <1>2, OperationFields DEF LocksAll, Goto
  <2>2. running' \in Operations /\ Replacing' /\ running'.step # "replace"
    BY <1>1, <2>1, OperationFields DEF Operations, Replacing
  <2>3. QED
    BY <1>1, <1>2, <2>1, <2>2, RunningStep DEF NoOtherWriter
<1>3. CASE ~NoOtherWriter
  BY <1>1, <1>3, Releasing, RunningStep DEF LocksAll
<1>4. QED
  BY <1>2, <1>3

LEMMA PrepareStep == ASSUME TransferInv, Prepares PROVE TransferInv' /\ TransferStep
<1>1. /\ UNCHANGED <<db, newest, writer, confirmed>> /\ running.op \in {"preview", "import"}
      /\ running.step = "prepare"
  BY DEF Prepares
<1>2. CASE Releases
  BY <1>1, <1>2, Releasing, RunningStep
<1>3. CASE Goto("replace") /\ UNCHANGED locked
           /\ (running.op = "import" => Confirmed(running.member, running.backup))
  <2>1. running' = [op |-> running.op, member |-> running.member,
                    backup |-> running.backup, step |-> "replace"]
    BY <1>1, <1>3, OperationFields DEF Goto
  <2>2. running' \in Operations /\ Replacing'
    BY <1>1, <2>1, OperationFields DEF Operations, Replacing
  <2>3. locked
    BY <1>1 DEF TransferInv, Replacing
  <2>4. running'.op = "import" => Confirmed(running'.member, running'.backup)
    BY <1>3, <2>1
  <2>5. QED
    BY <1>1, <1>3, <2>2, <2>3, <2>4, RunningStep DEF TransferInv
<1>4. QED
  BY <1>2, <1>3 DEF Prepares

LEMMA PreviewStep == ASSUME TransferInv, ShowsPreview PROVE TransferInv' /\ TransferStep
<1>1. UNCHANGED <<db, newest, writer>> /\ running.op = "preview" /\ DOMAIN confirmed' = Operators
  BY DEF ShowsPreview, TransferInv, TransferRanges
<1>2. running' \in Operations /\ ~locked' /\ ~Replacing' /\ running'.op = "none"
  BY Releasing DEF ShowsPreview
<1>3. QED
  BY <1>1, <1>2 DEF TransferInv, TransferRanges, TransferStep

LEMMA ImportStep == ASSUME TransferInv, ImportCommits PROVE TransferInv' /\ TransferStep
<1>1. /\ UNCHANGED <<writer, confirmed>> /\ running.op = "import" /\ running.step = "replace"
      /\ db' = Replaced(running.member, running.backup) /\ newest' = newest + 1
  BY DEF ImportCommits
<1>2. running.member \in Operators /\ running.backup.roles \in [Operators -> RoleNames]
  BY <1>1, OperationFields, TransferAssumption DEF RoleNames
<1>3. db' \in Contents /\ newest' \in Nat /\ db'.roles[running.member] = "owner"
  BY <1>1, <1>2 DEF Replaced, Contents, RoleNames, TransferInv, TransferRanges
<1>4. running' \in Operations /\ ~locked' /\ ~Replacing' /\ running'.op = "none"
  BY Releasing DEF ImportCommits
<1>5. TransferInv'
  BY <1>1, <1>3, <1>4 DEF TransferInv, TransferRanges
<1>6. confirmed[running.member] = [shown |-> TRUE, backup |-> running.backup, contents |-> db]
  BY <1>1 DEF TransferInv, Confirmed, Shown, Snapshot
<1>7. TransferStep
  BY <1>3, <1>6 DEF TransferStep
<1>8. QED
  BY <1>5, <1>7

LEMMA FailStep == ASSUME TransferInv, OperationFails PROVE TransferInv' /\ TransferStep
BY Releasing, RunningStep DEF OperationFails

LEMMA TransferInvStep ==
  ASSUME TransferInv, [TransferNext]_transferVars PROVE TransferInv' /\ TransferStep
<1>1. CASE UNCHANGED transferVars
  BY <1>1, RunningStep DEF transferVars, TransferInv, TransferRanges, Replacing
<1>2. QED
  BY <1>1, OtherStep, BeginStep, ExportStep, LockStep, PrepareStep, PreviewStep, ImportStep, FailStep
     DEF TransferNext

LEMMA TransferInvInit == TransferInit => TransferInv
BY TransferAssumption
   DEF TransferInit, TransferInv, TransferRanges, Contents, RoleNames, Operations, Replacing, NotRunning

\* An import replaces what its owner was shown, for any number of operators,
\* other writers and backups.
THEOREM ImportCorrect == TransferSpec => ImportReplacesWhatWasShown
<1>1. ASSUME TransferInv, [TransferNext]_transferVars
      PROVE  [TransferStep]_<<db, running>>
  BY <1>1, TransferInvStep
<1>2. QED
  BY <1>1, TransferInvInit, TransferInvStep, PTL
     DEF TransferSpec, ImportReplacesWhatWasShown, TransferStep

-----------------------------------------------------------------------------
(***************************************************************************)
(* MapOrder: what is left of the statements of a reordering always leads   *)
(* to the order asked for, and each moves a map to a number nobody has.    *)
(***************************************************************************)

\* A set of numbers has a least one.
LEMMA LeastNumber ==
    ASSUME NEW T, T \subseteq Nat, T # {}
    PROVE  \E n \in T : \A m \in T : n <= m
<1>1. PICK R : R = OpToRel(<, Nat)
    BY Zenon
<1>2. IsWellFoundedOn(R, Nat)
    BY <1>1, NatLessThanWellFounded, Zenon
<1>3. PICK n \in T : \A m \in T : ~ (<<m, n>> \in R)
    BY <1>2, WFMin
<1>4. \A m \in T : m \in Nat /\ n \in Nat
    OBVIOUS
<1>5. \A m \in Nat, k \in Nat : m < k => <<m, k>> \in R
    BY <1>1, Zenon DEF OpToRel
<1>6. \A m \in T : ~(m < n)
    BY <1>3, <1>4, <1>5, Zenon
<1>7. \A m \in T : n <= m
    BY <1>4, <1>6
<1>8. QED
    BY <1>7

\* What the search for a free position and for the last number find.
LEMMA FreePositionIsFree ==
    ASSUME NEW taken, taken \subseteq 1..MaxPosition
    PROVE  FreePosition(taken) \in 1..(MaxPosition + 1) /\ FreePosition(taken) \notin taken
<1>1. MaxPosition + 1 \in 1..(MaxPosition + 1) /\ MaxPosition + 1 \notin taken
    BY MapAssumption
<1> DEFINE T == {p \in 1..(MaxPosition + 1) : p \notin taken}
<1>2. T \subseteq Nat /\ T # {}
    BY <1>1, MapAssumption
<1>3. PICK p \in T : \A q \in T : p <= q
    BY <1>2, LeastNumber
<1>4. p \in 1..(MaxPosition + 1) /\ p \notin taken /\ \A q \in 1..(p - 1) : q \in taken
    BY <1>3, MapAssumption
<1>5. QED
    BY <1>4 DEF FreePosition

LEMMA MaxIsLargest ==
    ASSUME NEW B \in Nat, NEW S, S \subseteq 0..B, S # {}
    PROVE  Max(S) \in S /\ \A y \in S : y <= Max(S)
<1> DEFINE T == {n \in 0..B : \A y \in S : y <= n}
<1>1. T \subseteq Nat /\ B \in T
    OBVIOUS
<1>2. PICK n \in T : \A m \in T : n <= m
    BY <1>1, LeastNumber
<1>3. n \in S
    <2>1. SUFFICES ASSUME n \notin S PROVE FALSE
        OBVIOUS
    <2>2. \A y \in S : y \in Nat /\ y < n
        BY <2>1
    <2>3. n # 0 /\ n - 1 \in 0..B
        <3>1. PICK x \in S : TRUE
            OBVIOUS
        <3>2. x \in Nat /\ x < n /\ n \in 0..B
            BY <2>2, <3>1
        <3>3. QED
            BY <3>2
    <2>4. n - 1 \in T
        BY <2>2, <2>3
    <2>5. QED
        BY <1>2, <2>4
<1>4. \A y \in S : n >= y
    OBVIOUS
<1>5. \E x \in S : \A y \in S : x >= y
    BY <1>3, <1>4
<1>6. Max(S) \in S /\ \A y \in S : Max(S) >= y
    BY <1>5 DEF Max
<1>7. QED
    BY <1>6

-----------------------------------------------------------------------------
Ordered(n, s) ==
    s \in SetToSeqs(DOMAIN n) /\ \A i, j \in DOMAIN s : i < j => n[s[i]] < n[s[j]]

\* A sequence of as many different elements of a finite set as it has members
\* has them all.
LEMMA AllOfThem ==
    ASSUME NEW S, IsFiniteSet(S), NEW f \in SetToSeqs(S)
    PROVE  /\ DOMAIN f = 1..Cardinality(S) /\ f \in [1..Cardinality(S) -> S]
           /\ IsInjective(f) /\ Range(f) = S
<1> DEFINE D == 1..Cardinality(S)
<1>1. f \in [D -> S] /\ \A i, j \in D : i # j => f[i] # f[j]
    BY DEF SetToSeqs
<1>2. Cardinality(S) \in Nat
    BY FS_CardinalityType
<1>3. Cardinality(D) = Cardinality(S)
    BY <1>2, FS_Interval
<1>4. f \in Injection(D, S) /\ IsInjective(f)
    BY <1>1 DEF Injection, IsInjective
<1>5. f \in Surjection(D, S)
    BY <1>3, <1>4, FS_Injection
<1>6. Range(f) = S
    BY <1>1, <1>5 DEF Surjection, Range
<1>7. QED
    BY <1>1, <1>4, <1>6

\* Maps numbered from 1 are in one order only.
LEMMA NumberedFromOne ==
    ASSUME NEW n, IsFiniteSet(DOMAIN n), NEW g \in SetToSeqs(DOMAIN n),
           \A i \in 1..Cardinality(DOMAIN n) : n[g[i]] = i
    PROVE  InOrderOf(n) = g /\ Range(n) = 1..Cardinality(DOMAIN n)
<1>1. PICK N \in Nat : N = Cardinality(DOMAIN n)
    BY FS_CardinalityType
<1>2. /\ DOMAIN g = 1..N /\ g \in [1..N -> DOMAIN n] /\ Range(g) = DOMAIN n
      /\ \A i \in 1..N : n[g[i]] = i
    BY <1>1, AllOfThem
<1>3. Ordered(n, g)
    BY <1>2 DEF Ordered
<1>4. ASSUME NEW s, Ordered(n, s) PROVE s = g
    <2>1. /\ s \in [1..N -> DOMAIN n] /\ DOMAIN s = 1..N /\ Range(s) = DOMAIN n
          /\ \A i, j \in 1..N : i < j => n[s[i]] < n[s[j]]
        BY <1>1, <1>4, AllOfThem DEF Ordered
    <2>2. \A i \in 1..N : \E j \in 1..N : s[i] = g[j]
        BY <1>2, <2>1 DEF Range
    <2>3. \A j \in 1..N : \E i \in 1..N : s[i] = g[j]
        BY <1>2, <2>1 DEF Range
    <2> DEFINE wrong == {i \in 1..N : n[s[i]] # i}
    <2>4. wrong = {}
        <3>1. SUFFICES ASSUME wrong # {} PROVE FALSE
            OBVIOUS
        <3>2. PICK i \in wrong : \A k \in wrong : i <= k
            <4>1. wrong \subseteq Nat
                OBVIOUS
            <4>2. QED
                BY <3>1, <4>1, LeastNumber
        <3>3. i \in 1..N /\ n[s[i]] # i /\ n[s[i]] \in 1..N
            BY <1>2, <2>2
        <3>4. \A k \in 1..N : k < i => n[s[k]] = k
            BY <3>2
        <3>5. n[s[i]] > i
            <4>1. CASE i = 1
                BY <3>3, <4>1
            <4>2. CASE i > 1
                <5>1. i - 1 \in 1..N /\ n[s[i - 1]] = i - 1
                    BY <3>3, <3>4, <4>2
                <5>2. i - 1 < n[s[i]]
                    BY <2>1, <3>3, <5>1
                <5>3. QED
                    BY <3>3, <5>2
            <4>3. QED
                BY <3>3, <4>1, <4>2
        <3>6. PICK k \in 1..N : s[k] = g[i]
            BY <2>3, <3>3
        <3>7. n[s[k]] = i
            BY <1>2, <3>3, <3>6
        <3>8. k > i
            BY <3>3, <3>4, <3>7
        <3>9. QED
            <4>1. n[s[i]] < n[s[k]]
                BY <2>1, <3>3, <3>8
            <4>2. QED
                BY <3>3, <3>5, <3>7, <4>1
    <2>5. ASSUME NEW i \in 1..N PROVE s[i] = g[i]
        <3>1. PICK j \in 1..N : s[i] = g[j]
            BY <2>2
        <3>2. n[s[i]] = i
            BY <2>4
        <3>3. n[g[j]] = j
            BY <1>2
        <3>4. QED
            BY <3>1, <3>2, <3>3
    <2>6. QED
        BY <1>2, <2>1, <2>5
<1>5. InOrderOf(n) = g
    BY <1>3, <1>4, Zenon DEF InOrderOf, Ordered
<1>6. Range(n) = 1..N
    BY <1>2 DEF Range
<1>7. QED
    BY <1>1, <1>5, <1>6

-----------------------------------------------------------------------------
FreeNow(p) == \A x \in DOMAIN number : positions[x] # p
PlacedUpTo(k) == \A i \in 1..k : positions[gameIds[i]] = i
NotPlaced(x, k) == \A i \in 1..(k - 1) : gameIds[i] # x

\* What is left to do for the k-th map: nothing, all of a swap with another
\* map, its last two moves, its last, or the one move to a free number.
SwapAhead(k, o) ==
    /\ moves = <<MoveOf(o, temporary), MoveOf(gameIds[k], k), MoveOf(o, positions[gameIds[k]])>>
    /\ positions[o] = k /\ FreeNow(temporary)

SwapBegun(k, o, p) ==
    /\ moves = <<MoveOf(gameIds[k], k), MoveOf(o, p)>>
    /\ positions[gameIds[k]] = p /\ positions[o] = temporary /\ FreeNow(k)

SwapEnding(k, o, p) ==
    /\ moves = <<MoveOf(o, p)>>
    /\ positions[gameIds[k]] = k /\ positions[o] = temporary /\ FreeNow(p) /\ p # temporary

MoveAhead(k) ==
    /\ moves = <<MoveOf(gameIds[k], k)>>
    /\ FreeNow(k) /\ temporary # k
    /\ positions[gameIds[k]] = temporary \/ FreeNow(temporary)

Settled(k) == moves = <<>> /\ FreeNow(temporary) /\ PlacedUpTo(k)

Moving(k) ==
    /\ k >= 1 /\ PlacedUpTo(k - 1)
    /\ \/ MoveAhead(k)
       \/ \E o \in DOMAIN number \ {gameIds[k]} :
            /\ NotPlaced(o, k)
            /\ \/ SwapAhead(k, o)
               \/ \E p \in 1..MaxPosition : SwapBegun(k, o, p) \/ SwapEnding(k, o, p)

Numbering ==
    /\ number \in [DOMAIN number -> 1..MaxPosition] /\ IsInjective(number)
    /\ positions \in [DOMAIN number -> 1..MaxPosition] /\ IsInjective(positions)
    /\ DOMAIN page = Reorderers

Working ==
    /\ reordering \in Reorderers /\ page[reordering] = InOrderOf(number)
    /\ gameIds \in SetToSeqs(DOMAIN number)
    /\ index \in 1..(Cardinality(DOMAIN number) + 1)
    /\ temporary \in 1..MaxPosition
    /\ Settled(index - 1) \/ Moving(index - 1)

MapInv ==
    /\ Numbering
    /\ reordering = NoEditor => positions = number /\ moves = <<>>
    /\ reordering # NoEditor => Working

MapStep ==
    reordering # NoEditor /\ number' # number =>
        /\ page[reordering] = InOrderOf(number)
        /\ Range(number') = 1..Cardinality(DOMAIN number)
        /\ InOrderOf(number') = gameIds

LEMMA MapsAreFew ==
    ASSUME Numbering
    PROVE  /\ IsFiniteSet(DOMAIN number) /\ Cardinality(DOMAIN number) \in Nat
           /\ Cardinality(DOMAIN number) <= MaxPosition
<1>1. number \in Injection(DOMAIN number, 1..MaxPosition)
    BY DEF Numbering, Injection
<1>2. IsFiniteSet(1..MaxPosition) /\ Cardinality(1..MaxPosition) = MaxPosition
    BY MapAssumption, FS_Interval
<1>3. IsFiniteSet(DOMAIN number) /\ Cardinality(DOMAIN number) <= MaxPosition
    BY <1>1, <1>2, FS_Injection
<1>4. QED
    BY <1>3, FS_CardinalityType

\* What a reordering works on.
LEMMA WorkingFacts ==
    ASSUME Numbering, Working
    PROVE  /\ index \in Nat \ {0} /\ index - 1 \in Nat /\ Cardinality(DOMAIN number) \in Nat
           /\ DOMAIN gameIds = 1..Cardinality(DOMAIN number)
           /\ Len(gameIds) = Cardinality(DOMAIN number)
           /\ gameIds \in [1..Cardinality(DOMAIN number) -> DOMAIN number]
           /\ IsInjective(gameIds) /\ Range(gameIds) = DOMAIN number
           /\ \A k \in 1..Cardinality(DOMAIN number) :
                gameIds[k] \in DOMAIN number /\ k \in 1..MaxPosition
<1>1. PICK N \in Nat : N = Cardinality(DOMAIN number) /\ N <= MaxPosition
                       /\ IsFiniteSet(DOMAIN number)
    BY MapsAreFew
<1>2. /\ gameIds \in [1..N -> DOMAIN number] /\ DOMAIN gameIds = 1..N
      /\ IsInjective(gameIds) /\ Range(gameIds) = DOMAIN number
    BY <1>1, AllOfThem DEF Working
<1>3. Len(gameIds) = N
    BY <1>1, <1>2
<1>4. index \in 1..(N + 1)
    BY <1>1 DEF Working
<1>5. index \in Nat \ {0} /\ index - 1 \in Nat
    BY <1>1, <1>4
<1>6. \A k \in 1..N : gameIds[k] \in DOMAIN number /\ k \in 1..MaxPosition
    BY <1>1, <1>2, MapAssumption
<1>7. QED
    BY <1>1, <1>2, <1>3, <1>5, <1>6

LEMMA ShowMapsStep == ASSUME MapInv, NEW e \in Reorderers, ShowMaps(e) PROVE MapInv' /\ MapStep
<1>1. /\ UNCHANGED <<number, reordering, positions, gameIds, index, moves, temporary>>
      /\ page' = [page EXCEPT ![e] = InOrderOf(number)] /\ DOMAIN page = Reorderers
    BY DEF ShowMaps, MapInv, Numbering
<1>2. Numbering'
    BY <1>1 DEF MapInv, Numbering
<1>3. ASSUME Working PROVE Working'
    <2>1. page'[reordering] = InOrderOf(number)
        BY <1>1, <1>3 DEF Working
    <2>2. InOrderOf(number)' = InOrderOf(number) /\ (Settled(index - 1) => Settled(index - 1)')
        BY <1>1 DEF InOrderOf, Settled, FreeNow, PlacedUpTo
    <2>3. Moving(index - 1) => Moving(index - 1)'
        BY <1>1 DEF Moving, MoveAhead, SwapAhead, SwapBegun, SwapEnding, FreeNow, PlacedUpTo,
                    NotPlaced, MoveOf
    <2>4. QED
        BY <1>1, <1>3, <2>1, <2>2, <2>3 DEF Working
<1>4. MapInv'
    BY <1>1, <1>2, <1>3 DEF MapInv
<1>5. QED
    BY <1>1, <1>4 DEF MapStep

LEMMA ReorderStep ==
    ASSUME MapInv, NEW e \in Reorderers, NEW order \in SetToSeqs(DOMAIN number), Reorder(e, order)
    PROVE  MapInv' /\ MapStep
<1>1. /\ UNCHANGED <<number, page>> /\ reordering = NoEditor /\ reordering' = e
      /\ page[e] = InOrderOf(number) /\ positions' = number /\ gameIds' = order
      /\ index' = 1 /\ moves' = <<>> /\ temporary' = FreePosition(Range(number))
      /\ FreePosition(Range(number)) <= MaxPosition
    BY DEF Reorder, MatchIsFree, Unchanged
<1>2. number \in [DOMAIN number -> 1..MaxPosition] /\ Cardinality(DOMAIN number) \in Nat
    BY MapsAreFew DEF MapInv, Numbering
<1>3. Range(number) \subseteq 1..MaxPosition
    BY <1>2 DEF Range
<1>4. FreePosition(Range(number)) \in 1..MaxPosition /\ FreePosition(Range(number)) \notin Range(number)
    BY <1>1, <1>3, FreePositionIsFree, MapAssumption
<1>5. Numbering'
    BY <1>1 DEF MapInv, Numbering
<1>6. Settled(0)'
    <2>1. \A i : ~(i \in 1..0)
        OBVIOUS
    <2>2. PlacedUpTo(0)'
        BY <2>1 DEF PlacedUpTo
    <2>3. \A x \in DOMAIN number : number[x] # FreePosition(Range(number))
        BY <1>4 DEF Range
    <2>4. FreeNow(temporary)'
        BY <1>1, <2>3 DEF FreeNow
    <2>5. QED
        BY <1>1, <2>2, <2>4 DEF Settled
<1>7. Working'
    <2>1. /\ reordering' \in Reorderers /\ page'[reordering'] = InOrderOf(number')
          /\ gameIds' \in SetToSeqs(DOMAIN number') /\ temporary' \in 1..MaxPosition
        BY <1>1, <1>4
    <2>2. index' \in 1..(Cardinality(DOMAIN number') + 1) /\ index' - 1 = 0
        BY <1>1, <1>2
    <2>3. Settled(index - 1)'
        BY <1>6, <2>2 DEF Settled, PlacedUpTo
    <2>4. QED
        BY <2>1, <2>2, <2>3 DEF Working
<1>8. reordering' # NoEditor
    BY <1>1, MapAssumption
<1>9. QED
    BY <1>1, <1>5, <1>7, <1>8 DEF MapInv, MapStep

LEMMA NextPositionStep == ASSUME MapInv, NextPosition PROVE MapInv' /\ MapStep
<1>1. /\ UNCHANGED <<number, page, reordering, positions, gameIds>> /\ reordering # NoEditor
      /\ moves = <<>> /\ index <= Len(gameIds) /\ index' = index + 1
    BY DEF NextPosition
<1>2. /\ Numbering /\ Working
    BY <1>1 DEF MapInv
<1>3. PICK N \in Nat : N = Cardinality(DOMAIN number)
    BY <1>2, WorkingFacts
<1>4. /\ gameIds \in [1..N -> DOMAIN number] /\ IsInjective(gameIds) /\ DOMAIN gameIds = 1..N
      /\ index \in 1..N
    BY <1>1, <1>2, <1>3, WorkingFacts
<1>5. PICK k \in 1..N : k = index
    BY <1>4
<1>6. k \in 1..MaxPosition /\ gameIds[k] \in DOMAIN number /\ index' - 1 = k /\ index - 1 = k - 1
    BY <1>1, <1>2, <1>3, <1>5, WorkingFacts
<1>7. FreeNow(temporary) /\ PlacedUpTo(k - 1) /\ temporary \in 1..MaxPosition
    BY <1>1, <1>2, <1>6 DEF Working, Settled, Moving, MoveAhead, SwapAhead, SwapBegun, SwapEnding
<1>8. positions \in [DOMAIN number -> 1..MaxPosition]
    BY <1>2 DEF Numbering
<1>9. (Settled(k) \/ Moving(k))' /\ temporary' \in 1..MaxPosition
    <2>1. CASE positions[gameIds[k]] = k /\ UNCHANGED <<moves, temporary>>
        <3>1. \A i \in 1..k : i \in 1..(k - 1) \/ i = k
            BY <1>5
        <3>2. PlacedUpTo(k)'
            BY <1>1, <1>7, <2>1, <3>1 DEF PlacedUpTo
        <3>3. FreeNow(temporary)'
            BY <1>1, <1>7, <2>1 DEF FreeNow
        <3>4. QED
            BY <1>1, <1>7, <2>1, <3>2, <3>3 DEF Settled
    <2>2. ASSUME positions[gameIds[k]] # k, UNCHANGED temporary,
                 NEW o \in Others(k), moves' = Swap(gameIds[k], o)
          PROVE  (Settled(k) \/ Moving(k))' /\ temporary' \in 1..MaxPosition
        <3>1. o \in DOMAIN number \ {gameIds[k]} /\ positions[o] = k
            BY <1>8, <2>2 DEF Others
        <3>2. NotPlaced(o, k)'
            BY <1>1, <1>5, <1>7, <3>1 DEF NotPlaced, PlacedUpTo
        <3>3. SwapAhead(k, o)'
            BY <1>1, <1>5, <1>7, <2>2, <3>1 DEF SwapAhead, Swap, MoveOf, FreeNow
        <3>4. PlacedUpTo(k - 1)'
            BY <1>1, <1>7 DEF PlacedUpTo
        <3>5. QED
            BY <1>1, <1>6, <1>7, <2>2, <3>1, <3>2, <3>3, <3>4 DEF Moving
    <2>3. CASE /\ positions[gameIds[k]] # k /\ Others(k) = {}
               /\ moves' = <<MoveOf(gameIds[k], k)>>
               /\ temporary' = IF temporary = k THEN positions[gameIds[k]] ELSE temporary
        <3>1. FreeNow(k)
            BY <1>8, <2>3 DEF Others, FreeNow
        <3>2. temporary' # k /\ temporary' \in 1..MaxPosition
            BY <1>6, <1>7, <1>8, <2>3
        <3>3. positions[gameIds[k]] = temporary' \/ (temporary' = temporary /\ FreeNow(temporary))
            BY <1>7, <2>3
        <3>4. MoveAhead(k)'
            BY <1>1, <2>3, <3>1, <3>2, <3>3 DEF MoveAhead, MoveOf, FreeNow
        <3>5. PlacedUpTo(k - 1)'
            BY <1>1, <1>7 DEF PlacedUpTo
        <3>6. QED
            BY <1>6, <3>2, <3>4, <3>5 DEF Moving
    <2>4. QED
        BY <1>5, <2>1, <2>2, <2>3 DEF NextPosition
<1>10. Working'
    <2>1. /\ reordering' \in Reorderers /\ page'[reordering'] = InOrderOf(number')
          /\ gameIds' \in SetToSeqs(DOMAIN number')
        BY <1>1, <1>2 DEF Working
    <2>2. index' \in 1..(Cardinality(DOMAIN number') + 1)
        BY <1>1, <1>3, <1>4
    <2>3. (Settled(index - 1) \/ Moving(index - 1))'
        BY <1>6, <1>9 DEF Settled, PlacedUpTo, Moving, MoveAhead, SwapAhead, SwapBegun, SwapEnding,
                          NotPlaced
    <2>4. QED
        BY <1>9, <2>1, <2>2, <2>3 DEF Working
<1>11. QED
    BY <1>1, <1>2, <1>10 DEF MapInv, MapStep, Numbering

\* One UPDATE to a free number keeps the numbers apart and frees the old one.
LEMMA OneUpdate ==
    ASSUME Numbering, NEW x \in DOMAIN number, NEW p \in 1..MaxPosition, FreeNow(p),
           positions' = [positions EXCEPT ![x] = p], UNCHANGED <<number, page>>
    PROVE  /\ Numbering' /\ positions'[x] = p
           /\ \A y \in DOMAIN number : y # x => positions'[y] = positions[y]
           /\ \A q : q = positions[x] => FreeNow(q)'
           /\ \A q : FreeNow(q) /\ q # p => FreeNow(q)'
           /\ \A i : gameIds[i] # x /\ gameIds[i] \in DOMAIN number =>
                 positions'[gameIds[i]] = positions[gameIds[i]]
<1>1. /\ positions \in [DOMAIN number -> 1..MaxPosition] /\ DOMAIN positions = DOMAIN number
      /\ \A y, z \in DOMAIN number : positions[y] = positions[z] => y = z
    BY DEF Numbering, IsInjective
<1>2. positions'[x] = p /\ \A y \in DOMAIN number : y # x => positions'[y] = positions[y]
    BY <1>1
<1>3. positions' \in [DOMAIN number -> 1..MaxPosition] /\ DOMAIN positions' = DOMAIN number
    BY <1>1
<1>4. \A y, z \in DOMAIN number : positions'[y] = positions'[z] => y = z
    BY <1>1, <1>2 DEF FreeNow
<1>5. Numbering'
    BY <1>3, <1>4 DEF Numbering, IsInjective
<1>6. \A q : q = positions[x] => FreeNow(q)'
    BY <1>1, <1>2 DEF FreeNow
<1>7. \A q : FreeNow(q) /\ q # p => FreeNow(q)'
    BY <1>2 DEF FreeNow
<1>8. QED
    BY <1>2, <1>5, <1>6, <1>7

\* The statements of a position, one after the other.
LEMMA FirstStatement ==
    ASSUME NEW a, NEW b, NEW c
    PROVE  /\ Head(<<a>>) = a /\ Tail(<<a>>) = <<>>
           /\ Head(<<a, b>>) = a /\ Tail(<<a, b>>) = <<b>>
           /\ Head(<<a, b, c>>) = a /\ Tail(<<a, b, c>>) = <<b, c>>
OBVIOUS

LEMMA MoveMoves ==
    ASSUME Move, NEW x, NEW p, Head(moves) = MoveOf(x, p)
    PROVE  positions' = [positions EXCEPT ![x] = p] /\ moves' = Tail(moves)
<1>1. MoveOf(x, p).id = x /\ MoveOf(x, p).to = p
    BY DEF MoveOf
<1>2. positions' = [positions EXCEPT ![Head(moves).id] = Head(moves).to] /\ moves' = Tail(moves)
    BY DEF Move
<1>3. Head(moves).id = x /\ Head(moves).to = p
    BY <1>1
<1>4. QED
    BY <1>2, <1>3

LEMMA MoveStep == ASSUME MapInv, Move PROVE MapInv' /\ MapStep
<1>1. /\ UNCHANGED <<number, page, reordering, gameIds, index, temporary>> /\ moves # <<>>
      /\ reordering # NoEditor /\ Numbering /\ Working
    BY DEF Move, MapInv
<1>2. PICK N \in Nat : N = Cardinality(DOMAIN number)
    BY <1>1, WorkingFacts
<1>3. PICK k \in Nat : k = index - 1
    BY <1>1, WorkingFacts
<1>4. /\ Moving(k) /\ temporary \in 1..MaxPosition /\ k <= N
    BY <1>1, <1>2, <1>3 DEF Working, Settled
<1>5. /\ k \in 1..N /\ k \in 1..MaxPosition /\ gameIds[k] \in DOMAIN number
      /\ \A i \in 1..(k - 1) : gameIds[i] \in DOMAIN number /\ gameIds[i] # gameIds[k]
    <2>1. k \in 1..N
        BY <1>2, <1>3, <1>4 DEF Moving
    <2>2. \A i \in 1..(k - 1) : i \in 1..N /\ i # k
        BY <2>1
    <2>3. QED
        BY <1>1, <1>2, <2>1, <2>2, WorkingFacts DEF IsInjective
<1>6. PICK id \in DOMAIN number : id = gameIds[k] /\ id = gameIds'[k]
    BY <1>1, <1>5
<1>7. PlacedUpTo(k - 1)
    BY <1>4 DEF Moving
<1>8. Numbering' /\ (Settled(k) \/ Moving(k))'
    <2>1. CASE MoveAhead(k)
        <3>1. /\ moves = <<MoveOf(id, k)>> /\ FreeNow(k) /\ temporary # k
              /\ (positions[id] = temporary \/ FreeNow(temporary))
            BY <1>6, <2>1 DEF MoveAhead
        <3>2. positions' = [positions EXCEPT ![id] = k] /\ moves' = <<>>
            <4>1. Head(moves) = MoveOf(id, k) /\ Tail(moves) = <<>>
                BY <3>1, FirstStatement, Zenon
            <4>2. QED
                BY <4>1, MoveMoves
        <3>3. /\ Numbering' /\ positions'[id] = k /\ FreeNow(temporary)'
              /\ \A y \in DOMAIN number : y # id => positions'[y] = positions[y]
            <4>1. PICK t : t = temporary /\ t = temporary'
                BY <1>1
            <4>2. /\ Numbering' /\ positions'[id] = k
                  /\ \A y \in DOMAIN number : y # id => positions'[y] = positions[y]
                  /\ positions[id] = t => FreeNow(t)'
                  /\ FreeNow(t) /\ t # k => FreeNow(t)'
                BY <1>1, <1>5, <3>1, <3>2, OneUpdate
            <4>3. positions[id] = t \/ FreeNow(t)
                BY <3>1, <4>1 DEF FreeNow
            <4>4. FreeNow(t)'
                BY <3>1, <4>1, <4>2, <4>3
            <4>5. FreeNow(temporary)'
                BY <4>1, <4>4 DEF FreeNow
            <4>6. QED
                BY <4>2, <4>5
        <3>4. PlacedUpTo(k)'
            BY <1>1, <1>5, <1>6, <1>7, <3>3 DEF PlacedUpTo
        <3>5. QED
            BY <3>2, <3>3, <3>4 DEF Settled
    <2>2. ASSUME NEW o \in DOMAIN number \ {gameIds[k]}, NotPlaced(o, k), SwapAhead(k, o)
          PROVE  Numbering' /\ Moving(k)'
        <3>1. PICK p \in 1..MaxPosition : p = positions[id]
            BY <1>1 DEF Numbering
        <3>2. /\ moves = <<MoveOf(o, temporary), MoveOf(id, k), MoveOf(o, p)>>
              /\ positions[o] = k /\ FreeNow(temporary) /\ o # id
            BY <1>6, <2>2, <3>1 DEF SwapAhead
        <3>3. Head(moves) = MoveOf(o, temporary) /\ Tail(moves) = <<MoveOf(id, k), MoveOf(o, p)>>
            <4>1. PICK a, b, c : a = MoveOf(o, temporary) /\ b = MoveOf(id, k) /\ c = MoveOf(o, p)
                OBVIOUS
            <4>2. moves = <<a, b, c>>
                BY <3>2, <4>1, Zenon
            <4>3. Head(moves) = a /\ Tail(moves) = <<b, c>>
                BY <4>2, FirstStatement, Zenon
            <4>4. QED
                BY <4>1, <4>3, Zenon
        <3>4. positions' = [positions EXCEPT ![o] = temporary] /\ moves' = <<MoveOf(id, k), MoveOf(o, p)>>
            BY <3>3, MoveMoves
        <3>5. PICK t \in 1..MaxPosition : t = temporary /\ t = temporary'
            BY <1>1, <1>4
        <3>6. /\ Numbering' /\ positions'[o] = t /\ FreeNow(k)'
              /\ \A y \in DOMAIN number : y # o => positions'[y] = positions[y]
            <4>1. positions' = [positions EXCEPT ![o] = t] /\ k = positions[o]
                BY <3>2, <3>4, <3>5
            <4>2. FreeNow(t)
                BY <3>2, <3>5 DEF FreeNow
            <4>3. QED
                BY <1>1, <3>5, <4>1, <4>2, OneUpdate
        <3>7. SwapBegun(k, o, p)'
            BY <1>6, <3>1, <3>2, <3>4, <3>5, <3>6 DEF SwapBegun, MoveOf
        <3>8. PlacedUpTo(k - 1)' /\ NotPlaced(o, k)'
            BY <1>1, <1>5, <1>7, <2>2, <3>6 DEF PlacedUpTo, NotPlaced
        <3>9. QED
            BY <1>1, <1>5, <1>6, <3>2, <3>6, <3>7, <3>8 DEF Moving
    <2>3. ASSUME NEW o \in DOMAIN number \ {gameIds[k]}, NotPlaced(o, k),
                 NEW p \in 1..MaxPosition, SwapBegun(k, o, p)
          PROVE  Numbering' /\ Moving(k)'
        <3>1. /\ moves = <<MoveOf(id, k), MoveOf(o, p)>> /\ o # id
              /\ positions[id] = p /\ positions[o] = temporary /\ FreeNow(k)
            BY <1>6, <2>3 DEF SwapBegun
        <3>2. Head(moves) = MoveOf(id, k) /\ Tail(moves) = <<MoveOf(o, p)>>
            BY <3>1, FirstStatement, Zenon
        <3>3. positions' = [positions EXCEPT ![id] = k] /\ moves' = <<MoveOf(o, p)>>
            BY <3>2, MoveMoves
        <3>4. /\ Numbering' /\ positions'[id] = k /\ FreeNow(p)'
              /\ \A y \in DOMAIN number : y # id => positions'[y] = positions[y]
            BY <1>1, <1>5, <3>1, <3>3, OneUpdate
        <3>5. p # temporary
            BY <1>1, <3>1 DEF Numbering, IsInjective
        <3>6. SwapEnding(k, o, p)'
            BY <1>1, <1>6, <3>1, <3>3, <3>4, <3>5 DEF SwapEnding, MoveOf
        <3>7. PlacedUpTo(k - 1)' /\ NotPlaced(o, k)'
            BY <1>1, <1>5, <1>6, <1>7, <2>3, <3>4 DEF PlacedUpTo, NotPlaced
        <3>8. QED
            BY <1>1, <1>5, <1>6, <3>1, <3>4, <3>6, <3>7 DEF Moving
    <2>4. ASSUME NEW o \in DOMAIN number \ {gameIds[k]}, NotPlaced(o, k),
                 NEW p \in 1..MaxPosition, SwapEnding(k, o, p)
          PROVE  Numbering' /\ Settled(k)'
        <3>1. /\ moves = <<MoveOf(o, p)>> /\ o # id /\ positions[id] = k
              /\ positions[o] = temporary /\ FreeNow(p) /\ p # temporary
            BY <1>6, <2>4 DEF SwapEnding
        <3>2. Head(moves) = MoveOf(o, p) /\ Tail(moves) = <<>>
            BY <3>1, FirstStatement, Zenon
        <3>3. positions' = [positions EXCEPT ![o] = p] /\ moves' = <<>>
            BY <3>2, MoveMoves
        <3>4. PICK t : t = temporary /\ t = temporary'
            BY <1>1
        <3>5. /\ Numbering' /\ FreeNow(t)'
              /\ \A y \in DOMAIN number : y # o => positions'[y] = positions[y]
            BY <1>1, <3>1, <3>3, <3>4, OneUpdate
        <3>6. FreeNow(temporary)'
            BY <3>4, <3>5 DEF FreeNow
        <3>7. \A i \in 1..k : i \in 1..(k - 1) \/ i = k
            BY <1>5
        <3>8. \A i \in 1..(k - 1) : positions'[gameIds[i]] = i
            BY <1>5, <1>7, <2>4, <3>5 DEF PlacedUpTo, NotPlaced
        <3>9. positions'[gameIds[k]] = k
            BY <1>6, <3>1, <3>5
        <3>10. PlacedUpTo(k)'
            BY <1>1, <3>7, <3>8, <3>9 DEF PlacedUpTo
        <3>11. QED
            BY <3>3, <3>5, <3>6, <3>10 DEF Settled
    <2>5. QED
        BY <1>4, <2>1, <2>2, <2>3, <2>4 DEF Moving
<1>9. Working'
    <2>1. /\ reordering' \in Reorderers /\ page'[reordering'] = InOrderOf(number')
          /\ gameIds' \in SetToSeqs(DOMAIN number') /\ temporary' \in 1..MaxPosition
          /\ index' \in 1..(Cardinality(DOMAIN number') + 1)
        BY <1>1 DEF Working
    <2>2. (Settled(index - 1) \/ Moving(index - 1))'
        BY <1>1, <1>3, <1>8 DEF Settled, PlacedUpTo, Moving, MoveAhead, SwapAhead, SwapBegun,
                                SwapEnding, NotPlaced
    <2>3. QED
        BY <2>1, <2>2 DEF Working
<1>10. QED
    BY <1>1, <1>8, <1>9 DEF MapInv, MapStep

LEMMA CommitOrderStep == ASSUME MapInv, CommitOrder PROVE MapInv' /\ MapStep
<1>1. /\ reordering # NoEditor /\ moves = <<>> /\ index > Len(gameIds) /\ number' = positions
      /\ positions' = positions /\ reordering' = NoEditor /\ moves' = <<>> /\ page' = page
    BY DEF CommitOrder, EndReordering
<1>2. Numbering /\ Working
    BY <1>1 DEF MapInv
<1>3. PICK N \in Nat : N = Cardinality(DOMAIN number)
    BY <1>2, WorkingFacts
<1>4. /\ index = N + 1 /\ Len(gameIds) = N
    BY <1>1, <1>2, <1>3, WorkingFacts DEF Working
<1>5. PlacedUpTo(N)
    BY <1>1, <1>4 , <1>2 DEF Working, Settled, Moving, MoveAhead, SwapAhead, SwapBegun, SwapEnding
<1>6. DOMAIN positions = DOMAIN number /\ IsFiniteSet(DOMAIN number)
    BY <1>2, MapsAreFew DEF Numbering
<1>7. gameIds \in SetToSeqs(DOMAIN positions) /\ \A i \in 1..Cardinality(DOMAIN positions) :
          positions[gameIds[i]] = i
    BY <1>2, <1>3, <1>5, <1>6 DEF Working, PlacedUpTo
<1>8. InOrderOf(positions) = gameIds /\ Range(positions) = 1..Cardinality(DOMAIN positions)
    BY <1>6, <1>7, NumberedFromOne
<1>9. InOrderOf(number') = gameIds /\ Range(number') = 1..Cardinality(DOMAIN number)
    BY <1>1, <1>6, <1>8
<1>10. MapStep
    BY <1>2, <1>9 DEF MapStep, Working
<1>11. Numbering'
    BY <1>1, <1>2, <1>6 DEF Numbering
<1>12. QED
    BY <1>1, <1>10, <1>11 DEF MapInv

LEMMA ReorderFailsStep == ASSUME MapInv, ReorderFails PROVE MapInv' /\ MapStep
<1>1. /\ number' = number /\ positions' = number /\ reordering' = NoEditor /\ moves' = <<>>
      /\ page' = page /\ Numbering
    BY DEF ReorderFails, EndReordering, MapInv
<1>2. Numbering'
    BY <1>1 DEF Numbering
<1>3. QED
    BY <1>1, <1>2 DEF MapInv, MapStep

LEMMA AppendStep == ASSUME MapInv, NEW m \in Maps, AppendMap(m) PROVE MapInv' /\ MapStep
<1>1. /\ reordering = NoEditor /\ m \notin DOMAIN number /\ LastNumber < MaxPosition
      /\ number' = [x \in DOMAIN number \cup {m} |-> IF x = m THEN LastNumber + 1 ELSE number[x]]
      /\ positions' = number' /\ UNCHANGED <<page, reordering, moves>> /\ moves = <<>>
      /\ number \in [DOMAIN number -> 1..MaxPosition] /\ IsInjective(number)
      /\ DOMAIN page = Reorderers
    BY DEF AppendMap, MatchIsFree, MapInv, Numbering
<1>2. MaxPosition \in Nat /\ {0} \cup Range(number) \subseteq 0..MaxPosition
    BY <1>1, MapAssumption DEF Range
<1>3. LastNumber \in 0..MaxPosition /\ \A y \in {0} \cup Range(number) : y <= LastNumber
    BY <1>2, MaxIsLargest DEF LastNumber
<1>4. PICK last \in 0..MaxPosition : last = LastNumber
    BY <1>3
<1>5. \A x \in DOMAIN number : number[x] \in Nat /\ number[x] <= last
    BY <1>1, <1>3, <1>4 DEF Range
<1>6. last + 1 \in 1..MaxPosition
    BY <1>1, <1>2, <1>4
<1>7. number' = [x \in DOMAIN number \cup {m} |-> IF x = m THEN last + 1 ELSE number[x]]
    BY <1>1, <1>4
<1>8. DOMAIN number' = DOMAIN number \cup {m} /\ number' \in [DOMAIN number' -> 1..MaxPosition]
    BY <1>1, <1>6, <1>7
<1>9. \A x, y \in DOMAIN number' : number'[x] = number'[y] => x = y
    <2>1. \A x, y \in DOMAIN number : number[x] = number[y] => x = y
        BY <1>1 DEF IsInjective
    <2>2. \A x \in DOMAIN number : number'[x] = number[x] /\ number'[x] # last + 1
        BY <1>1, <1>5, <1>7
    <2>3. number'[m] = last + 1
        BY <1>7
    <2>4. ASSUME NEW x \in DOMAIN number', NEW y \in DOMAIN number', number'[x] = number'[y]
          PROVE  x = y
        <3>1. CASE x = m /\ y = m
            BY <3>1
        <3>2. CASE x = m /\ y # m
            BY <1>8, <2>2, <2>3, <2>4, <3>2
        <3>3. CASE x # m /\ y = m
            BY <1>8, <2>2, <2>3, <2>4, <3>3
        <3>4. CASE x # m /\ y # m
            <4>1. x \in DOMAIN number /\ y \in DOMAIN number
                BY <1>8, <3>4
            <4>2. QED
                BY <2>1, <2>2, <2>4, <4>1
        <3>5. QED
            BY <3>1, <3>2, <3>3, <3>4
    <2>5. QED
        BY <2>4
<1>10. Numbering'
    <2>1. number' \in [DOMAIN number' -> 1..MaxPosition] /\ IsInjective(number')
        BY <1>8, <1>9 DEF IsInjective
    <2>2. positions' \in [DOMAIN number' -> 1..MaxPosition] /\ IsInjective(positions')
        BY <1>1, <2>1, Zenon
    <2>3. DOMAIN page' = Reorderers
        BY <1>1
    <2>4. QED
        BY <2>1, <2>2, <2>3 DEF Numbering
<1>11. QED
    BY <1>1, <1>10 DEF MapInv, MapStep

LEMMA DeleteStep == ASSUME MapInv, NEW m \in Maps, DeleteMap(m) PROVE MapInv' /\ MapStep
<1>1. /\ reordering = NoEditor /\ number' = Restrict(number, DOMAIN number \ {m})
      /\ positions' = number' /\ UNCHANGED <<page, reordering, moves>> /\ moves = <<>>
      /\ number \in [DOMAIN number -> 1..MaxPosition] /\ IsInjective(number)
      /\ DOMAIN page = Reorderers
    BY DEF DeleteMap, MatchIsFree, MapInv, Numbering
<1>2. number' = [x \in DOMAIN number \ {m} |-> number[x]]
    BY <1>1 DEF Restrict
<1>3. number' \in [DOMAIN number' -> 1..MaxPosition] /\ IsInjective(number')
    BY <1>1, <1>2 DEF IsInjective
<1>4. Numbering'
    BY <1>1, <1>3 DEF Numbering
<1>5. QED
    BY <1>1, <1>4 DEF MapInv, MapStep

LEMMA MapStutter == ASSUME MapInv, UNCHANGED mapVars PROVE MapInv' /\ MapStep
<1>1. UNCHANGED <<number, page, reordering, positions, gameIds, index, moves, temporary>>
    BY DEF mapVars
<1>2. Numbering' /\ InOrderOf(number)' = InOrderOf(number)
    BY <1>1 DEF MapInv, Numbering, InOrderOf
<1>3. (Settled(index - 1) => Settled(index - 1)') /\ (Moving(index - 1) => Moving(index - 1)')
    BY <1>1 DEF Settled, FreeNow, PlacedUpTo, Moving, MoveAhead, SwapAhead, SwapBegun, SwapEnding,
                NotPlaced, MoveOf
<1>4. Working => Working'
    BY <1>1, <1>2, <1>3 DEF Working
<1>5. QED
    BY <1>1, <1>2, <1>4 DEF MapInv, MapStep

LEMMA MapInvInit == ASSUME MapInit PROVE MapInv
<1>1. /\ number \in UNION {Injection(M, 1..MaxPosition) : M \in SUBSET Maps}
      /\ page = [e \in Reorderers |-> <<>>] /\ reordering = NoEditor /\ positions = number
      /\ moves = <<>>
    BY DEF MapInit
<1>2. PICK M \in SUBSET Maps : number \in Injection(M, 1..MaxPosition)
    BY <1>1
<1>3. number \in [DOMAIN number -> 1..MaxPosition] /\ IsInjective(number)
    BY <1>2 DEF Injection, IsInjective
<1>4. QED
    BY <1>1, <1>3 DEF MapInv, Numbering

LEMMA MapInvStep == ASSUME MapInv, [MapNext]_mapVars PROVE MapInv' /\ MapStep
<1>1. CASE UNCHANGED mapVars
    BY <1>1, MapStutter
<1>2. ASSUME NEW e \in Reorderers, ShowMaps(e) PROVE MapInv' /\ MapStep
    BY <1>2, ShowMapsStep
<1>3. ASSUME NEW e \in Reorderers, NEW order \in SetToSeqs(DOMAIN number), Reorder(e, order)
      PROVE MapInv' /\ MapStep
    BY <1>3, ReorderStep
<1>4. CASE NextPosition
    BY <1>4, NextPositionStep
<1>5. CASE Move
    BY <1>5, MoveStep
<1>6. CASE CommitOrder
    BY <1>6, CommitOrderStep
<1>7. CASE ReorderFails
    BY <1>7, ReorderFailsStep
<1>8. ASSUME NEW m \in Maps, AppendMap(m) PROVE MapInv' /\ MapStep
    BY <1>8, AppendStep
<1>9. ASSUME NEW m \in Maps, DeleteMap(m) PROVE MapInv' /\ MapStep
    BY <1>9, DeleteStep
<1>10. QED
    BY <1>1, <1>2, <1>3, <1>4, <1>5, <1>6, <1>7, <1>8, <1>9 DEF MapNext

\* Committed numbers and the numbers inside a transaction are always apart,
\* and what is left of a reordering always leads to the order asked for.
THEOREM MapInvCorrect == MapSpec => []MapInv
<1>1. MapInit => MapInv
    BY MapInvInit
<1>2. MapInv /\ [MapNext]_mapVars => MapInv'
    BY MapInvStep
<1>3. QED
    BY <1>1, <1>2, PTL DEF MapSpec

\* No UPDATE of a reordering ever gives two maps of a match one number.
THEOREM MovesCorrect == MapSpec => []NoMoveCollides
<1>1. MapInv => NoMoveCollides
    BY DEF MapInv, Numbering, NoMoveCollides
<1>2. QED
    BY <1>1, MapInvCorrect, PTL

\* A committed reordering is the one its editor asked for, of the order shown.
THEOREM OrderCorrect == MapSpec => OrderIsTheOneAsked
<1>1. MapInv /\ [MapNext]_mapVars =>
          [reordering # NoEditor /\ number' # number =>
               /\ page[reordering] = InOrderOf(number)
               /\ Range(number') = 1..Cardinality(DOMAIN number)
               /\ InOrderOf(number') = gameIds]_mapVars
    BY MapInvStep DEF MapStep
<1>2. QED
    BY <1>1, MapInvCorrect, PTL DEF MapSpec, OrderIsTheOneAsked
=============================================================================
