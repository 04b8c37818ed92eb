----------------------------- MODULE CrudScreen -----------------------------
(***************************************************************************)
(* The administration page of one table: CrudDataPanel with its form and   *)
(* its CrudDeleteDialog (apps/web/src/features/crud-operations).  The list *)
(* is loaded by an effect that restarts after every change, the form and   *)
(* the dialog send mutations, and other administrators write meanwhile.    *)
(*                                                                         *)
(* A row is its stamp (updatedAt, with its contents) and the number of its *)
(* dependents' last change, 0 when it has none.  A request of an earlier   *)
(* visit to the page has nobody to answer to.  The search and the offset   *)
(* only say that the list is loaded again.                                 *)
(***************************************************************************)
EXTENDS Naturals, FiniteSets

CONSTANTS
    TableRows,
    LastWrite,  \* bound: writes of anybody
    LastVisit   \* bound: visits to the page

ASSUME CrudScreenAssumption ==
    /\ LastWrite \in Nat \ {0} /\ LastVisit \in Nat \ {0}
    /\ "none" \notin TableRows

VARIABLES
    stored,     \* row -> [stamp, linked] in the database
    writes,     \* writes so far
    owner,      \* whether the administrator is an owner
    visit,      \* the number of the visit
    list,       \* the rows shown, or NoList
    listLoad,   \* the load of the effect: [phase, rows]
    crudBusy,   \* the flag of the panel
    editor,     \* NoEditor or the row of the form: [row, stamp]
    dialog,     \* NoDialog or [row, stamp, preview, asked, confirmed, pending]
    changes,    \* the mutations under way
    known       \* row -> its stamp after the last mutation answered in this visit

crudScreenVars ==
    <<stored, writes, owner, visit, list, listLoad, crudBusy, editor, dialog, changes, known>>

Absent0 == 0                   \* the stamp of a row that does not exist yet
Gone == LastWrite + 1          \* the stamp of a row that was deleted
NoList == [r \in {} |-> Absent0]
NoEditor == [row |-> "none"]
NoDialog == [row |-> "none"]
NoPreview == [shown |-> FALSE]
IsThere(s) == s \notin {Absent0, Gone}
ListedRows == {r \in DOMAIN list : IsThere(list[r])}
TableStamps == [r \in TableRows |-> stored[r].stamp]
ListWaiting == [phase |-> "timer", rows |-> NoList]
ListIdle == [phase |-> "idle", rows |-> NoList]

CrudScreenInit ==
    /\ stored \in [TableRows -> {[stamp |-> s, linked |-> 0] : s \in {Absent0, 1}}]
    /\ writes = 1
    /\ owner \in BOOLEAN
    /\ visit = 1
    /\ list = NoList
    /\ listLoad = ListWaiting
    /\ crudBusy = FALSE
    /\ editor = NoEditor
    /\ dialog = NoDialog
    /\ changes = {}
    /\ known = [r \in TableRows |-> Absent0]

tableState == <<stored, writes, owner>>
panel == <<list, listLoad, crudBusy, editor, dialog, known>>

-----------------------------------------------------------------------------
(* The list. *)

\* The effect: the load under way is aborted, another begins in 200 ms.
Reload == list' = NoList /\ listLoad' = ListWaiting

TimerEnds ==
    /\ listLoad.phase = "timer"
    /\ listLoad' = [listLoad EXCEPT !.phase = "sent"]
    /\ UNCHANGED <<tableState, visit, list, crudBusy, editor, dialog, changes,
                   known>>

ServerLists ==
    /\ listLoad.phase = "sent"
    /\ listLoad' = [phase |-> "answered", rows |-> TableStamps]
    /\ UNCHANGED <<tableState, visit, list, crudBusy, editor, dialog, changes,
                   known>>

ListArrives ==
    /\ listLoad.phase = "answered"
    /\ list' = listLoad.rows
    /\ listLoad' = ListIdle
    /\ UNCHANGED <<tableState, visit, crudBusy, editor, dialog, changes,
                   known>>

ListFails ==
    /\ listLoad.phase \in {"sent", "answered"}
    /\ listLoad' = ListIdle
    /\ UNCHANGED <<tableState, visit, list, crudBusy, editor, dialog, changes,
                   known>>

\* A search, another page or Actualizar; behind the dialog nothing is pressed.
Search ==
    /\ ~ crudBusy
    /\ dialog = NoDialog
    /\ listLoad # ListWaiting
    /\ Reload
    /\ UNCHANGED <<tableState, visit, crudBusy, editor, dialog, changes,
                   known>>

\* Recargar datos, below the error of a load that failed: the form is closed.
RetryList ==
    /\ ~ crudBusy
    /\ dialog = NoDialog
    /\ listLoad = ListIdle /\ list = NoList
    /\ Reload
    /\ editor' = NoEditor
    /\ UNCHANGED <<tableState, visit, crudBusy, dialog, changes, known>>

\* Another section and back: the panel is a new one.
ComeBack ==
    /\ visit < LastVisit
    /\ visit' = visit + 1
    /\ Reload
    /\ crudBusy' = FALSE
    /\ editor' = NoEditor
    /\ dialog' = NoDialog
    /\ known' = [r \in TableRows |-> Absent0]
    /\ UNCHANGED <<tableState, changes>>

-----------------------------------------------------------------------------
(* The form. *)

NothingOpen == ~ crudBusy /\ editor = NoEditor /\ dialog = NoDialog

\* A new record, or one of the list with the stamp it is listed with.
OpenForm(r) ==
    /\ NothingOpen
    /\ r \in ListedRows \/ stored[r].stamp = Absent0
    /\ editor' = [row |-> r, stamp |-> IF r \in ListedRows THEN list[r] ELSE Absent0]
    /\ UNCHANGED <<tableState, visit, list, listLoad, crudBusy, dialog,
                   changes, known>>

CancelForm ==
    /\ editor # NoEditor /\ ~ crudBusy
    /\ editor' = NoEditor
    /\ UNCHANGED <<tableState, visit, list, listLoad, crudBusy, dialog,
                   changes, known>>

Mutation(kind, row, stamp, linked) ==
    [kind |-> kind, row |-> row, stamp |-> stamp, linked |-> linked,
     visit |-> visit, result |-> "none"]

\* mutate() with saveCrudRecord().
Save ==
    /\ editor # NoEditor /\ ~ crudBusy
    /\ crudBusy' = TRUE
    /\ changes' = changes \cup {Mutation("save", editor.row, editor.stamp, 0)}
    /\ UNCHANGED <<tableState, visit, list, listLoad, editor, dialog, known>>

-----------------------------------------------------------------------------
(* The dialog. *)

OpenDialog(r) ==
    /\ NothingOpen
    /\ r \in ListedRows
    /\ dialog' = [row |-> r, stamp |-> list[r], preview |-> NoPreview,
                  asked |-> "sent", confirmed |-> FALSE, pending |-> FALSE]
    /\ UNCHANGED <<tableState, visit, list, listLoad, crudBusy, editor,
                   changes, known>>

\* The preview is allowed to owners, and to others without dependents; it is
\* refused when the row has another stamp.
PreviewArrives ==
    /\ dialog # NoDialog /\ dialog.asked = "sent"
    /\ \/ /\ stored[dialog.row].stamp = dialog.stamp
          /\ dialog' = [dialog EXCEPT
                !.asked = "shown",
                !.preview = [shown |-> TRUE, linked |-> stored[dialog.row].linked,
                             allowed |-> owner \/ stored[dialog.row].linked = 0]]
       \/ dialog' = [dialog EXCEPT !.asked = "failed"]
    /\ UNCHANGED <<tableState, visit, list, listLoad, crudBusy, editor,
                   changes, known>>

\* The box an owner ticks is below the preview.
Confirm ==
    /\ dialog # NoDialog /\ ~ dialog.pending
    /\ owner /\ dialog.preview.shown /\ dialog.preview.allowed
    /\ dialog' = [dialog EXCEPT !.confirmed = ~ @]
    /\ UNCHANGED <<tableState, visit, list, listLoad, crudBusy, editor,
                   changes, known>>

MayRemove ==
    /\ ~ dialog.pending
    /\ dialog.preview.shown /\ dialog.preview.allowed
    /\ owner => dialog.confirmed

\* remove() with deleteCrudRecord().
RemoveRow ==
    /\ dialog # NoDialog
    /\ MayRemove
    /\ dialog' = [dialog EXCEPT !.pending = TRUE]
    /\ changes' = changes \cup {Mutation("delete", dialog.row, dialog.stamp, dialog.preview.linked)}
    /\ UNCHANGED <<tableState, visit, list, listLoad, crudBusy, editor,
                   known>>

CancelDialog ==
    /\ dialog # NoDialog /\ ~ dialog.pending
    /\ dialog' = NoDialog
    /\ UNCHANGED <<tableState, visit, list, listLoad, crudBusy, editor,
                   changes, known>>

-----------------------------------------------------------------------------
(* The server (CrudOperations) and the answers. *)

\* The stamp must be the stored one, and the dependents those of the preview:
\* none, for who is no owner.
AcceptsChange(q) ==
    /\ stored[q.row].stamp = q.stamp
    /\ q.kind = "delete" => stored[q.row].linked = q.linked

ServeChange(q) ==
    /\ q.result = "none"
    /\ writes < LastWrite
    /\ IF AcceptsChange(q)
       THEN /\ writes' = writes + 1
            /\ stored' = [stored EXCEPT ![q.row] =
                  IF q.kind = "delete" THEN [stamp |-> Gone, linked |-> 0]
                  ELSE [@ EXCEPT !.stamp = writes + 1]]
            /\ changes' = (changes \ {q}) \cup {[q EXCEPT !.result = "done", !.stamp = stored'[q.row].stamp]}
       ELSE /\ changes' = (changes \ {q}) \cup {[q EXCEPT !.result = "refused"]}
            /\ UNCHANGED <<stored, writes>>
    /\ UNCHANGED <<owner, visit, panel>>

\* The answer of an earlier visit is dropped.
AnswerIgnored(q) ==
    /\ q.visit # visit
    /\ q.result # "none"
    /\ changes' = changes \ {q}
    /\ UNCHANGED <<tableState, visit, panel>>

MutationArrives(q) ==
    /\ q.visit = visit /\ q.result = "done"
    /\ changes' = changes \ {q}
    /\ editor' = NoEditor
    /\ dialog' = NoDialog
    /\ crudBusy' = FALSE
    /\ known' = [known EXCEPT ![q.row] = q.stamp]
    /\ Reload
    /\ UNCHANGED <<tableState, visit>>

\* A refusal, or an answer that is lost.
MutationFails(q) ==
    /\ q.visit = visit
    /\ q.result # "none"
    /\ changes' = changes \ {q}
    /\ IF q.kind = "save"
       THEN crudBusy' = FALSE /\ UNCHANGED dialog
       ELSE /\ dialog' = [dialog EXCEPT !.pending = FALSE, !.confirmed = FALSE,
                                        !.preview = IF owner THEN NoPreview ELSE @]
            /\ UNCHANGED crudBusy
    /\ UNCHANGED <<tableState, visit, list, listLoad, editor, known>>

\* Another administrator edits a row or adds dependents, or removes it.
OthersWrite(r) ==
    /\ writes < LastWrite
    /\ IsThere(stored[r].stamp)
    /\ writes' = writes + 1
    /\ \/ stored' = [stored EXCEPT ![r].stamp = writes + 1]
       \/ stored' = [stored EXCEPT ![r].linked = writes + 1]
       \/ stored' = [stored EXCEPT ![r] = [stamp |-> Gone, linked |-> 0]]
    /\ UNCHANGED <<owner, visit, panel, changes>>

CrudScreenNext ==
    \/ TimerEnds \/ ServerLists \/ ListArrives \/ ListFails \/ Search \/ RetryList \/ ComeBack
    \/ CancelForm \/ Save
    \/ PreviewArrives \/ Confirm \/ RemoveRow \/ CancelDialog
    \/ \E r \in TableRows : OpenForm(r) \/ OpenDialog(r) \/ OthersWrite(r)
    \/ \E q \in changes : ServeChange(q) \/ AnswerIgnored(q) \/ MutationArrives(q) \/ MutationFails(q)

CrudScreenSpec == CrudScreenInit /\ [][CrudScreenNext]_crudScreenVars

-----------------------------------------------------------------------------
(***************************************************************************)
(* Properties.                                                             *)
(***************************************************************************)
CrudScreenTypeOK ==
    /\ stored \in [TableRows -> [stamp: 0..Gone, linked: 0..LastWrite]]
    /\ writes \in 1..LastWrite /\ owner \in BOOLEAN /\ visit \in 1..LastVisit
    /\ DOMAIN list \in {{}, TableRows}
    /\ listLoad.phase \in {"timer", "sent", "answered", "idle"}
    /\ crudBusy \in BOOLEAN
    /\ editor.row \in TableRows \cup {"none"} /\ dialog.row \in TableRows \cup {"none"}
    /\ \A q \in changes : q.kind \in {"save", "delete"} /\ q.visit <= visit

\* The panel and its dialog never have two changes under way in one visit, and
\* the rows shown are not older than what the page has been told of its own
\* changes: a load that began earlier is never shown (the effect of
\* CrudDataPanel).
ListFollowsChanges ==
    /\ \A q, r \in changes : q.visit = r.visit => q = r
    /\ \A q \in changes : q.visit = visit => crudBusy \/ (dialog # NoDialog /\ dialog.pending)
    /\ \A r \in DOMAIN list : known[r] <= list[r]

\* An owner's deletion is carried out only if the box was ticked below a preview
\* of exactly the row and the dependents that go, whatever was written since,
\* unless the page was left meanwhile (remove()).
DeletionsWereTicked ==
    [][\A q \in changes :
         LET r == q.row
             carriedOut == /\ q.kind = "delete" /\ q \notin changes'
                           /\ stored[r].stamp # Gone /\ stored'[r].stamp = Gone
         IN carriedOut /\ q.visit = visit =>
                /\ dialog.row = r /\ dialog.stamp = stored[r].stamp
                /\ dialog.preview.shown /\ dialog.preview.linked = stored[r].linked
                /\ owner => dialog.confirmed]_crudScreenVars
=============================================================================
