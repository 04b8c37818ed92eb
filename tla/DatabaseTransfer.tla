-------------------------- MODULE DatabaseTransfer --------------------------
(***************************************************************************)
(* Export and import of the whole database: database-transfer.service.ts,  *)
(* postgres-database-transfer.repository.ts and its pg_dump tools.         *)
(*                                                                         *)
(* The contents are the roles of the members, their sessions and, for all  *)
(* other tables, a number that no two different contents share.  Of a      *)
(* backup, the roles it holds and whether its migrations are ours matter.  *)
(***************************************************************************)
EXTENDS Naturals, FiniteSets

CONSTANTS Operators,    \* members; the role of each is stored
          OtherWriters, \* other transactions in progress
          Backups,      \* [roles, migrations]
          FirstRoles,
          LastData      \* bound on the contents written

ASSUME TransferAssumption ==
  /\ LastData \in Nat
  /\ FirstRoles \in [Operators -> {"viewer", "admin", "owner"}]
  /\ \A b \in Backups : b.migrations \in BOOLEAN
                      /\ b.roles \in [Operators -> {"viewer", "admin", "owner"}]

VARIABLES db,        \* [roles, sessions, data]
          newest,    \* the last number that was written
          writer,    \* other transactions that have written
          running,   \* DatabaseTransferService.running, and its operation
          locked,    \* the import holds every table
          confirmed, \* what each member was shown: <<backup, contents>>
          delivered  \* exports sent to members

transferVars == <<db, newest, writer, running, locked, confirmed, delivered>>

NotRunning == [op |-> "none"]
NotShown == [shown |-> FALSE]

TransferInit ==
  /\ db = [roles |-> FirstRoles, sessions |-> Operators, data |-> 0]
  /\ newest = 0
  /\ writer = [w \in OtherWriters |-> FALSE]
  /\ running = NotRunning
  /\ locked = FALSE
  /\ confirmed = [o \in Operators |-> NotShown]
  /\ delivered = {}

Releases == running' = NotRunning /\ locked' = FALSE
Goto(s) == running' = [running EXCEPT !.step = s]

(***************************************************************************)
(* The rest of the API.                                                    *)
(***************************************************************************)
\* A transaction that writes holds a lock on its table until it ends; it waits
\* for the import, which waits for nobody.
OtherBegins(w) ==
  /\ ~writer[w] /\ ~locked /\ newest < LastData
  /\ writer' = [writer EXCEPT ![w] = TRUE]
  /\ UNCHANGED <<db, newest, running, locked, confirmed, delivered>>

\* A commit of any other table.
Rewritten == [db EXCEPT !.data = newest + 1]

OtherCommits(w) ==
  /\ writer[w] /\ newest < LastData
  /\ writer' = [writer EXCEPT ![w] = FALSE]
  /\ newest' = newest + 1
  /\ \/ db' = Rewritten
     \/ \E o \in Operators, r \in {"viewer", "admin", "owner"} :
          db' = [Rewritten EXCEPT !.roles[o] = r]
     \/ \E o \in Operators : db' = [Rewritten EXCEPT !.sessions = @ \cup {o}]
  /\ UNCHANGED <<running, locked, confirmed, delivered>>

(***************************************************************************)
(* exclusive(): one operation at a time in this process.                   *)
(***************************************************************************)
MayRun(o, r) == o \in db.sessions /\ (r = "owner" => db.roles[o] = "owner")
                                  /\ db.roles[o] \in {"admin", "owner"}

BeginsExport(o) ==
  /\ running = NotRunning /\ MayRun(o, "admin")
  /\ running' = [op |-> "export", member |-> o, step |-> "dump"]
  /\ UNCHANGED <<db, newest, writer, locked, confirmed, delivered>>

\* actor() again once pg_dump has ended, and the audit entry.
ExportEnds ==
  /\ running.op = "export"
  /\ LET o == running.member IN
       IF db.roles[o] \in {"admin", "owner"} /\ newest < LastData
         THEN /\ delivered' = delivered \cup {o}
              /\ newest' = newest + 1
              /\ db' = Rewritten
         ELSE UNCHANGED <<delivered, newest, db>>
  /\ Releases
  /\ UNCHANGED <<writer, confirmed>>

\* requireAuth(), actor() and pg_restore; the confirmation is what this member
\* was shown of this backup.
BeginsImport(o, b, op) ==
  /\ running = NotRunning /\ MayRun(o, "owner")
  /\ op = "import" => confirmed[o].shown
  /\ running' = [op |-> op, member |-> o, backup |-> b, step |-> "lock"]
  /\ UNCHANGED <<db, newest, writer, locked, confirmed, delivered>>

\* lockImport(): ACCESS EXCLUSIVE NOWAIT on every table.
NoOtherWriter == \A w \in OtherWriters : ~writer[w]

LocksAll ==
  /\ running.op \in {"preview", "import"} /\ running.step = "lock"
  /\ IF NoOtherWriter THEN locked' = TRUE /\ Goto("prepare") ELSE Releases
  /\ UNCHANGED <<db, newest, writer, confirmed, delivered>>

(***************************************************************************)
(* prepare() and replaceData().                                            *)
(***************************************************************************)
StillOwner(o) == db.roles[o] = "owner"
Snapshot == db
Shown(o, b) == [shown |-> TRUE, backup |-> b, contents |-> Snapshot]
\* Mutant: the confirmation names the backup but not the contents.
ConfirmedBackup(o, b) == confirmed[o].shown /\ confirmed[o].backup = b

Confirmed(o, b) == confirmed[o] = Shown(o, b)

Prepares ==
  /\ running.op \in {"preview", "import"} /\ running.step = "prepare"
  /\ LET o == running.member
         b == running.backup
     IN IF StillOwner(o) /\ b.migrations /\ (running.op = "import" => Confirmed(o, b))
          THEN /\ Goto("replace") /\ UNCHANGED locked
          ELSE Releases
  /\ UNCHANGED <<db, newest, writer, confirmed, delivered>>

\* After the backup, the sessions go and the owner who imports stays owner.
Replaced(o, b) ==
  [roles |-> [b.roles EXCEPT ![o] = "owner"], sessions |-> {}, data |-> newest + 1]

\* The same, and rolled back to its savepoint.
ShowsPreview ==
  /\ running.op = "preview" /\ running.step = "replace"
  /\ confirmed' = [confirmed EXCEPT ![running.member] = Shown(running.member, running.backup)]
  /\ Releases
  /\ UNCHANGED <<db, newest, writer, delivered>>

ImportCommits ==
  /\ running.op = "import" /\ running.step = "replace" /\ newest < LastData
  /\ db' = Replaced(running.member, running.backup)
  /\ newest' = newest + 1
  /\ Releases
  /\ UNCHANGED <<writer, confirmed, delivered>>

\* The tool fails or times out, the backup violates a constraint, the
\* connection is lost: everything is rolled back.
OperationFails ==
  /\ running # NotRunning
  /\ Releases
  /\ UNCHANGED <<db, newest, writer, confirmed, delivered>>

TransferNext ==
  \/ \E w \in OtherWriters : OtherBegins(w) \/ OtherCommits(w)
  \/ \E o \in Operators : \/ BeginsExport(o)
                          \/ \E b \in Backups, op \in {"preview", "import"} : BeginsImport(o, b, op)
  \/ ExportEnds \/ LocksAll \/ Prepares \/ ShowsPreview \/ ImportCommits \/ OperationFails

TransferSpec == TransferInit /\ [][TransferNext]_transferVars

(***************************************************************************)
(* Properties.                                                             *)
(***************************************************************************)
TransferTypeOK ==
  /\ db.roles \in [Operators -> {"viewer", "admin", "owner"}]
  /\ db.sessions \subseteq Operators /\ db.data \in 0..LastData
  /\ newest \in 0..LastData /\ writer \in [OtherWriters -> BOOLEAN]
  /\ running.op \in {"none", "export", "preview", "import"}
  /\ locked \in BOOLEAN /\ DOMAIN confirmed = Operators
  /\ delivered \subseteq Operators

\* An import replaces exactly what its owner saw in the preview of that backup:
\* nothing written since then is lost, whoever writes while the backup is read
\* (the exclusive lock and the confirmation of prepare()); and afterwards the
\* owner who imported is still one.
ImportReplacesWhatWasShown ==
  [][running.op = "import" /\ running' = NotRunning /\ db' # db =>
       LET c == confirmed[running.member] IN
         /\ c.shown /\ c.contents = db /\ c.backup = running.backup
         /\ db'.roles[running.member] = "owner"]_<<db, running>>
=============================================================================
