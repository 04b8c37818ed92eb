---------------------------- MODULE AdminPanels ----------------------------
(***************************************************************************)
(* The page of the members' roles (MemberRolesPanel) and the session it is *)
(* shown for (AuthProvider and RequireAdmin).  The page of a member whose  *)
(* session is read again, or who is no administrator, is not shown: its    *)
(* state is lost, and the next visit is a new one.  A role has the number  *)
(* of the change that set it, 0 at first.                                  *)
(***************************************************************************)
EXTENDS Naturals, FiniteSets

CONSTANTS
    PageMembers,
    Me,             \* the member who uses the page
    GivenRoles,     \* the roles that are assigned
    LastRoleChange, \* bound: changes of anybody
    LastRolesVisit  \* bound: visits to the page

ASSUME RolesScreenAssumption ==
    /\ Me \in PageMembers /\ "owner" \in GivenRoles
    /\ "none" \notin PageMembers \cup GivenRoles
    /\ LastRoleChange \in Nat /\ LastRolesVisit \in Nat \ {0}

VARIABLES
    memberRole,   \* member -> [role, since]: discord_users.role
    roleChanges,  \* changes so far
    mySession,    \* the [role, since] that was read, or NotRead
    sessionRead,  \* the request of the session: [phase, answer]
    ownTold,      \* the last change of the own role that the page was told of
    rolesVisit,   \* the number of the visit
    memberList,   \* the members shown, or NoMembers
    memberLoad,   \* [phase, rows] of the effect
    confirming,   \* NoRoleChange or [member, from, to]
    savingRole,
    roleRequests, \* PATCH requests under way
    toldRole      \* member -> the change of its role that this visit was told of

rolesScreenVars ==
    <<memberRole, roleChanges, mySession, sessionRead, ownTold, rolesVisit,
      memberList, memberLoad, confirming, savingRole, roleRequests, toldRole>>

NoMembers == [m \in {} |-> 0]
NoRoleChange == [member |-> "none"]
Unloaded == [phase |-> "absent", rows |-> NoMembers]
RolesWaiting == [phase |-> "timer", rows |-> NoMembers]
MembersLoaded == [phase |-> "idle", rows |-> NoMembers]
NobodyTold == [m \in PageMembers |-> 0]
NotRead == [role |-> "none", since |-> 0]
NotReading == [phase |-> "idle", answer |-> NotRead]

\* useAuth(): what the page knows of its user.
Known(s) == s.role \in GivenRoles
CanManage == mySession.role = "owner"
IsShown == memberLoad # Unloaded

RolesScreenInit ==
    /\ memberRole = [m \in PageMembers |-> [role |-> "owner", since |-> 0]]
    /\ roleChanges = 0
    /\ mySession = memberRole[Me]
    /\ sessionRead = NotReading
    /\ ownTold = 0
    /\ rolesVisit = 1
    /\ memberList = NoMembers
    /\ memberLoad = RolesWaiting
    /\ confirming = NoRoleChange
    /\ savingRole = FALSE
    /\ roleRequests = {}
    /\ toldRole = NobodyTold

roleTable == <<memberRole, roleChanges>>
session == <<mySession, sessionRead, ownTold>>

-----------------------------------------------------------------------------
(* The list. *)

ReloadMembers == memberList' = NoMembers /\ memberLoad' = RolesWaiting

MembersTimer ==
    /\ memberLoad.phase = "timer"
    /\ memberLoad' = [memberLoad EXCEPT !.phase = "sent"]
    /\ UNCHANGED <<roleTable, session, rolesVisit, memberList, confirming,
                   savingRole, roleRequests, toldRole>>

ServerListsMembers ==
    /\ memberLoad.phase = "sent"
    /\ memberLoad' = [phase |-> "answered", rows |-> memberRole]
    /\ UNCHANGED <<roleTable, session, rolesVisit, memberList, confirming,
                   savingRole, roleRequests, toldRole>>

\* The list that was asked for last, or its failure.
MembersArrive ==
    /\ memberLoad.phase \in {"sent", "answered"}
    /\ memberLoad' = MembersLoaded
    /\ memberList' \in {memberLoad.rows, NoMembers}
    /\ UNCHANGED <<roleTable, session, rolesVisit, confirming, savingRole,
                   roleRequests, toldRole>>

\* A search, another page of the list, Actualizar or Recargar lista.
SearchMembers ==
    /\ IsShown /\ ~ savingRole
    /\ memberLoad # RolesWaiting
    /\ ReloadMembers
    /\ confirming' = NoRoleChange
    /\ UNCHANGED <<roleTable, session, rolesVisit, savingRole, roleRequests,
                   toldRole>>

-----------------------------------------------------------------------------
(* A change of role. *)

\* The role that the member has may be chosen too.
ChooseRole(m, r) ==
    /\ m \in DOMAIN memberList /\ CanManage
    /\ ~ savingRole /\ confirming = NoRoleChange
    /\ confirming' = [member |-> m, from |-> memberList[m].role, to |-> r]
    /\ UNCHANGED <<roleTable, session, rolesVisit, memberList, memberLoad,
                   savingRole, roleRequests, toldRole>>

CancelChoice ==
    /\ confirming # NoRoleChange /\ ~ savingRole
    /\ confirming' = NoRoleChange
    /\ UNCHANGED <<roleTable, session, rolesVisit, memberList, memberLoad,
                   savingRole, roleRequests, toldRole>>

SaveRole ==
    /\ confirming # NoRoleChange /\ CanManage /\ ~ savingRole
    /\ savingRole' = TRUE
    /\ roleRequests' = roleRequests \cup
          {[member |-> confirming.member, from |-> confirming.from, to |-> confirming.to,
            visit |-> rolesVisit, result |-> "none", since |-> 0]}
    /\ UNCHANGED <<roleTable, session, rolesVisit, memberList, memberLoad,
                   confirming, toldRole>>

OwnersNow == {m \in PageMembers : memberRole[m].role = "owner"}
MayChange(m, r) ==
    /\ roleChanges < LastRoleChange
    /\ r # memberRole[m].role
    /\ r # "owner" => OwnersNow \ {m} # {}
Sets(m, r) ==
    /\ roleChanges' = roleChanges + 1
    /\ memberRole' = [memberRole EXCEPT ![m] = [role |-> r, since |-> roleChanges + 1]]

\* The server (Accounts): the actor is an owner, the role is the expected one
\* and an owner remains.  Nothing is changed for the role that the member has.
IsExpected(q) == Me \in OwnersNow /\ memberRole[q.member].role = q.from

AnswerRole(q, result, since) ==
    roleRequests' = (roleRequests \ {q}) \cup {[q EXCEPT !.result = result, !.since = since]}

ServerChangesRole(q) ==
    /\ q.result = "none"
    /\ \/ /\ IsExpected(q) /\ MayChange(q.member, q.to)
          /\ Sets(q.member, q.to)
          /\ AnswerRole(q, "done", roleChanges + 1)
       \/ /\ IsExpected(q) /\ q.to = q.from
          /\ AnswerRole(q, "done", memberRole[q.member].since)
          /\ UNCHANGED roleTable
       \/ /\ ~ (IsExpected(q) /\ (q.to = q.from \/ MayChange(q.member, q.to)))
          /\ AnswerRole(q, "refused", 0)
          /\ UNCHANGED roleTable
    /\ UNCHANGED <<session, rolesVisit, memberList, memberLoad, confirming,
                   savingRole, toldRole>>

\* The page is taken away, its requests go on.
Unmount ==
    /\ memberList' = NoMembers
    /\ memberLoad' = Unloaded
    /\ confirming' = NoRoleChange
    /\ savingRole' = FALSE
    /\ toldRole' = NobodyTold

\* refreshSession(): the request under way is aborted.
ReadSession == mySession' = NotRead /\ sessionRead' = [phase |-> "sent", answer |-> NotRead]

\* The answer is handled in an earlier visit too: nothing shows it there, but
\* the session is read again after a change of the own role.
RoleArrives(q) ==
    /\ q.result = "done"
    /\ roleRequests' = roleRequests \ {q}
    /\ IF q.member = Me
       THEN /\ ReadSession
            /\ ownTold' = q.since
            /\ Unmount
       ELSE /\ UNCHANGED session
            /\ IF q.visit = rolesVisit /\ IsShown
               THEN /\ confirming' = NoRoleChange
                    /\ savingRole' = FALSE
                    /\ toldRole' = [toldRole EXCEPT ![q.member] = q.since]
                    /\ ReloadMembers
               ELSE UNCHANGED <<memberList, memberLoad, confirming, savingRole, toldRole>>
    /\ UNCHANGED <<roleTable, rolesVisit>>

\* Refused or lost: the confirmation stays open below the error.
RoleFails(q) ==
    /\ q.result # "none"
    /\ roleRequests' = roleRequests \ {q}
    /\ savingRole' = IF q.visit = rolesVisit THEN FALSE ELSE savingRole
    /\ UNCHANGED <<roleTable, session, rolesVisit, memberList, memberLoad,
                   confirming, toldRole>>

OthersChangeRole(m, r) ==
    /\ OwnersNow \ {Me} # {}
    /\ MayChange(m, r)
    /\ Sets(m, r)
    /\ UNCHANGED <<session, rolesVisit, memberList, memberLoad, confirming,
                   savingRole, roleRequests, toldRole>>

-----------------------------------------------------------------------------
(* The session and the visits. *)

ServerTellsSession ==
    /\ sessionRead.phase = "sent"
    /\ sessionRead' = [phase |-> "answered", answer |-> memberRole[Me]]
    /\ UNCHANGED <<roleTable, mySession, ownTold, rolesVisit, memberList,
                   memberLoad, confirming, savingRole, roleRequests,
                   toldRole>>

SessionArrives ==
    /\ sessionRead.phase = "answered"
    /\ mySession' = sessionRead.answer
    /\ sessionRead' = NotReading
    /\ UNCHANGED <<roleTable, ownTold, rolesVisit, memberList, memberLoad,
                   confirming, savingRole, roleRequests, toldRole>>

\* The error of the session and its Reintentar.
RetrySession ==
    /\ sessionRead # NotReading
    /\ ReadSession
    /\ UNCHANGED <<roleTable, ownTold, rolesVisit, memberList, memberLoad,
                   confirming, savingRole, roleRequests, toldRole>>

LeaveRoles ==
    /\ IsShown
    /\ Unmount
    /\ UNCHANGED <<roleTable, session, rolesVisit, roleRequests>>

\* RequireAdmin: the page is for administrators whose session is known.
ShowRoles ==
    /\ ~ IsShown /\ rolesVisit < LastRolesVisit
    /\ Known(mySession) /\ mySession.role # "viewer"
    /\ rolesVisit' = rolesVisit + 1
    /\ ReloadMembers
    /\ UNCHANGED <<roleTable, session, confirming, savingRole, roleRequests,
                   toldRole>>

RolesScreenNext ==
    \/ MembersTimer \/ ServerListsMembers \/ MembersArrive \/ SearchMembers
    \/ CancelChoice \/ SaveRole
    \/ \E m \in PageMembers, r \in GivenRoles : ChooseRole(m, r) \/ OthersChangeRole(m, r)
    \/ \E q \in roleRequests : ServerChangesRole(q) \/ RoleArrives(q) \/ RoleFails(q)
    \/ ServerTellsSession \/ SessionArrives \/ RetrySession \/ LeaveRoles \/ ShowRoles

RolesScreenSpec == RolesScreenInit /\ [][RolesScreenNext]_rolesScreenVars

-----------------------------------------------------------------------------
(***************************************************************************)
(* Properties.                                                             *)
(***************************************************************************)
RolesScreenTypeOK ==
    /\ memberRole \in [PageMembers -> [role: GivenRoles, since: 0..LastRoleChange]]
    /\ roleChanges \in 0..LastRoleChange
    /\ rolesVisit \in 1..LastRolesVisit
    /\ DOMAIN memberList \in {{}, PageMembers}
    /\ confirming.member \in PageMembers \cup {"none"}
    /\ savingRole \in BOOLEAN
    /\ toldRole \in [PageMembers -> 0..LastRoleChange]

\* Whoever has changed their own role and was told so is no longer shown the
\* session of before, also if the page was left meanwhile; and the members
\* shown are never older than the changes the page was told of (saveRole()
\* and the effects of MemberRolesPanel and AuthProvider).
SessionFollowsOwnRole ==
    /\ Known(mySession) => mySession.since >= ownTold
    /\ \A m \in DOMAIN memberList : toldRole[m] <= memberList[m].since

\* A role changes by this page only while its confirmation is open and names
\* the member, the role it had and the one it gets, or after the page was left
\* (expectedRole and the disabled table).
RolesWereConfirmed ==
    [][\A q \in roleRequests :
         LET m == q.member
             applied == q.result = "none" /\ q \notin roleRequests' /\ memberRole'[m] # memberRole[m]
         IN applied /\ q.visit = rolesVisit /\ IsShown =>
                confirming = [member |-> m, from |-> memberRole[m].role, to |-> memberRole'[m].role]
      ]_rolesScreenVars

-----------------------------------------------------------------------------
(***************************************************************************)
(* The page that exports and imports the whole database                    *)
(* (DatabaseTransferPanel).  The contents of the database are the number   *)
(* of the last write; what the server does with a call is that of          *)
(* DatabaseTransfer, without its steps.                                    *)
(***************************************************************************)

CONSTANTS
    BackupFiles,
    LastContents,      \* bound: writes of anybody
    LastTransferVisit  \* bound: visits to the page

ASSUME TransferScreenAssumption ==
    /\ "none" \notin BackupFiles
    /\ LastContents \in Nat \ {0} /\ LastTransferVisit \in Nat \ {0}

VARIABLES
    contents,        \* the contents of the database
    signedIn,        \* whether the session of the page is still open
    transferVisit,
    chosenFile,          \* the file, or NoFile
    shownPreview,    \* NoImport or [file, contents]: the dialog shows it
    typed,           \* whether the dialog holds the word IMPORTAR
    runningCall,         \* the operation of this visit, or "none"
    calls,           \* the calls under way
    completed        \* whether the page shows that the import is done

transferScreenVars ==
    <<contents, signedIn, transferVisit, chosenFile, shownPreview, typed,
      runningCall, calls, completed>>

NoFile == "none"
NoImport == [file |-> NoFile]

TransferScreenInit ==
    /\ contents = 1
    /\ signedIn = TRUE
    /\ transferVisit = 1
    /\ chosenFile = NoFile
    /\ shownPreview = NoImport
    /\ typed = FALSE
    /\ runningCall = "none"
    /\ calls = {}
    /\ completed = FALSE

databaseVars == <<contents, signedIn>>

\* The buttons of the page are behind the dialog while there is one.
Enabled == runningCall = "none" /\ shownPreview = NoImport /\ ~ completed

\* The dialog goes, and what was typed in it.
CloseDialog == shownPreview' = NoImport /\ typed' = FALSE

\* run(): the call that begins.
Runs(op, confirmation) ==
    /\ runningCall' = op
    /\ calls' = calls \cup {[op |-> op, file |-> chosenFile, shown |-> confirmation,
                             visit |-> transferVisit, result |-> "none"]}

-----------------------------------------------------------------------------
(* The page. *)

\* A file that is no backup is refused and none is left.
ChooseFile(f) ==
    /\ Enabled
    /\ chosenFile' = f
    /\ UNCHANGED <<databaseVars, transferVisit, shownPreview, typed,
                   runningCall, calls, completed>>

Download ==
    /\ Enabled
    /\ Runs("export", NoImport)
    /\ UNCHANGED <<databaseVars, transferVisit, chosenFile, shownPreview,
                   typed, completed>>

Validate ==
    /\ Enabled /\ chosenFile # NoFile
    /\ Runs("preview", NoImport)
    /\ UNCHANGED <<databaseVars, transferVisit, chosenFile, shownPreview,
                   typed, completed>>

Type ==
    /\ shownPreview # NoImport /\ runningCall = "none"
    /\ typed' = ~ typed
    /\ UNCHANGED <<databaseVars, transferVisit, chosenFile, shownPreview,
                   runningCall, calls, completed>>

CancelImport ==
    /\ shownPreview # NoImport /\ runningCall = "none"
    /\ CloseDialog
    /\ UNCHANGED <<databaseVars, transferVisit, chosenFile, runningCall,
                   calls, completed>>

Restore ==
    /\ shownPreview # NoImport /\ runningCall = "none" /\ typed
    /\ Runs("import", shownPreview)
    /\ UNCHANGED <<databaseVars, transferVisit, chosenFile, shownPreview,
                   typed, completed>>

\* Another section, and back: the preview that is being made is aborted, the
\* other calls go on; a new panel runs nothing.
LeaveTransfer ==
    /\ transferVisit < LastTransferVisit
    /\ transferVisit' = transferVisit + 1
    /\ calls' = {c \in calls : c.op # "preview"}
    /\ chosenFile' = NoFile
    /\ CloseDialog
    /\ runningCall' = "none"
    /\ completed' = FALSE
    /\ UNCHANGED databaseVars

-----------------------------------------------------------------------------
(* The server and its answers. *)

Answer(c, r) == calls' = (calls \ {c}) \cup {r}

\* The confirmation is that of the file and of the contents of now.
Confirms(c) == c.shown = [file |-> c.file, contents |-> contents]

\* Refused as well when another operation runs.
ServerTransfers(c) ==
    /\ c.result = "none"
    /\ \/ /\ signedIn
          /\ \/ /\ c.op = "export"
                /\ Answer(c, [c EXCEPT !.result = "done"])
                /\ UNCHANGED databaseVars
             \/ /\ c.op = "preview"
                /\ Answer(c, [c EXCEPT !.result = "done", !.shown = [file |-> c.file, contents |-> contents]])
                /\ UNCHANGED databaseVars
             \/ /\ c.op = "import"
                /\ Confirms(c) /\ contents < LastContents
                /\ contents' = contents + 1
                /\ signedIn' = FALSE
                /\ Answer(c, [c EXCEPT !.result = "done"])
       \/ /\ Answer(c, [c EXCEPT !.result = "refused"])
          /\ UNCHANGED databaseVars
    /\ UNCHANGED <<transferVisit, chosenFile, shownPreview, typed,
                   runningCall, completed>>

\* The answer of this visit; that of an earlier one is ignored.
TransferArrives(c) ==
    /\ c.visit = transferVisit /\ c.result = "done"
    /\ calls' = calls \ {c}
    /\ runningCall' = "none"
    /\ CASE c.op = "export" -> UNCHANGED <<chosenFile, shownPreview, typed, completed>>
         [] c.op = "preview" -> /\ shownPreview' = c.shown
                                /\ UNCHANGED <<chosenFile, typed, completed>>
         [] c.op = "import" -> /\ CloseDialog
                               /\ chosenFile' = NoFile
                               /\ completed' = TRUE
    /\ UNCHANGED <<databaseVars, transferVisit>>

\* Refused or lost: an import is validated again before another one.
TransferFails(c) ==
    /\ c.visit = transferVisit /\ c.result # "none"
    /\ calls' = calls \ {c}
    /\ runningCall' = "none"
    /\ IF c.op = "import" THEN CloseDialog ELSE UNCHANGED <<shownPreview, typed>>
    /\ UNCHANGED <<databaseVars, transferVisit, chosenFile, completed>>

EarlierCallEnds(c) ==
    /\ c.visit # transferVisit /\ c.result # "none"
    /\ calls' = calls \ {c}
    /\ UNCHANGED <<databaseVars, transferVisit, chosenFile, shownPreview,
                   typed, runningCall, completed>>

OthersWriteContents ==
    /\ contents < LastContents
    /\ contents' = contents + 1
    /\ UNCHANGED <<signedIn, transferVisit, chosenFile, shownPreview, typed,
                   runningCall, calls, completed>>

\* After an import the owner signs in again: the page is a new one.
SignInAgain ==
    /\ ~ signedIn /\ transferVisit < LastTransferVisit
    /\ signedIn' = TRUE
    /\ transferVisit' = transferVisit + 1
    /\ calls' = {}
    /\ chosenFile' = NoFile
    /\ CloseDialog
    /\ runningCall' = "none"
    /\ completed' = FALSE
    /\ UNCHANGED contents

TransferScreenNext ==
    \/ \E f \in BackupFiles \cup {NoFile} : ChooseFile(f)
    \/ Download \/ Validate \/ Type \/ CancelImport \/ Restore
    \/ LeaveTransfer \/ OthersWriteContents \/ SignInAgain
    \/ \E c \in calls :
         ServerTransfers(c) \/ TransferArrives(c) \/ TransferFails(c) \/ EarlierCallEnds(c)

TransferScreenSpec == TransferScreenInit /\ [][TransferScreenNext]_transferScreenVars

-----------------------------------------------------------------------------
(***************************************************************************)
(* Properties.                                                             *)
(***************************************************************************)
TransferScreenTypeOK ==
    /\ contents \in 1..LastContents /\ signedIn \in BOOLEAN
    /\ transferVisit \in 1..LastTransferVisit
    /\ chosenFile \in BackupFiles \cup {NoFile} /\ shownPreview.file \in BackupFiles \cup {NoFile}
    /\ typed \in BOOLEAN /\ completed \in BOOLEAN
    /\ runningCall \in {"none", "export", "preview", "import"}

\* The dialog is always about the file that is chosen, one visit has one call
\* under way, and the page says that the import is done only if it was, so that
\* its session is closed (run(), validate() and restore()).
DialogIsOfTheChosenFile ==
    /\ shownPreview # NoImport => shownPreview.file = chosenFile
    /\ \A c, d \in calls : c.visit = d.visit => c = d
    /\ (\E c \in calls : c.visit = transferVisit) <=> runningCall # "none"
    /\ completed => ~ signedIn

\* What is imported is the file of the dialog, over the contents that it shows
\* and with the word typed, unless the page was left since.
ImportWasTyped ==
    [][\A c \in calls :
         LET imported == c.op = "import" /\ c.result = "none" /\ signedIn /\ ~ signedIn'
         IN imported /\ c \notin calls' /\ c.visit = transferVisit =>
                /\ shownPreview = [file |-> chosenFile, contents |-> contents]
                /\ c.file = chosenFile /\ typed]_transferScreenVars
=============================================================================
