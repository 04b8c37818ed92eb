----------------------------- MODULE Navigation -----------------------------
(***************************************************************************)
(* Leaving a page of the web client that is being edited:                  *)
(* browserNavigation() over the history of the browser, with the guard     *)
(* that useEditorLeaveGuard() sets while a page holds changes or saves     *)
(* them.  The browser moves through its history later than it is told to,  *)
(* and then tells the page where it is.                                    *)
(*                                                                         *)
(* The user may follow links and go on moving before the browser has made  *)
(* the moves it was told; `hurried` notes, for the properties, who is more *)
(* than one move ahead of it.                                              *)
(***************************************************************************)
EXTENDS Integers, Sequences

CONSTANTS
    Paths, FirstPath,
    LastEntry,   \* bound: entries of the history, and their numbers
    LastMoves    \* bound: moves of the user that the browser has not made yet

ASSUME NavigationAssumption ==
    FirstPath \in Paths /\ LastEntry \in Nat \ {0} /\ LastMoves \in Nat

VARIABLES
    entries,     \* the history: [path, index] (rclIndex)
    position,    \* of the browser
    moves,       \* what the browser was told: distances
    navIndex,    \* index
    restoring,
    shownPath,   \* currentPath
    edited, savingEdits, \* dirty and busy of the page
    hurried      \* history variable: the user followed a link before the browser
                 \* had made a move, or moved again two moves ahead of it or
                 \* before it had undone a refused one

navigationVars == <<entries, position, moves, navIndex, restoring, shownPath,
                    edited, savingEdits, hurried>>

Entry(p, i) == [path |-> p, index |-> i]

NavigationInit ==
    /\ entries = <<Entry(FirstPath, 0)>>
    /\ position = 1
    /\ moves = <<>>
    /\ navIndex = 0
    /\ restoring = FALSE
    /\ shownPath = FirstPath
    /\ edited = FALSE /\ savingEdits = FALSE
    /\ hurried = FALSE

-----------------------------------------------------------------------------
(* The editor. *)

EditsOnly == UNCHANGED <<entries, position, moves, navIndex, restoring, shownPath, hurried>>

EditPage ==
    /\ ~ savingEdits
    /\ edited' = TRUE
    /\ UNCHANGED savingEdits
    /\ EditsOnly

SaveEdits ==
    /\ edited /\ ~ savingEdits
    /\ savingEdits' = TRUE
    /\ UNCHANGED edited
    /\ EditsOnly

EditsSaved ==
    /\ savingEdits
    /\ savingEdits' = FALSE
    /\ edited' \in {edited, FALSE} \* refused, stored
    /\ EditsOnly

-----------------------------------------------------------------------------
(* browserNavigation(). *)

\* canLeave(): the user may agree to lose what was edited.
MayLeave == ~ savingEdits
MayStay == savingEdits \/ edited

\* onNavigate(): another path is another page.
ShowPath(p) ==
    /\ shownPath' = p
    /\ edited' = (edited /\ p = shownPath)
    /\ savingEdits' = (savingEdits /\ p = shownPath)

Hurries(now) == hurried' = IF now THEN TRUE ELSE hurried

FollowLink(p) ==
    /\ position < LastEntry /\ navIndex < LastEntry
    /\ ~ restoring
    /\ p # entries[position].path
    /\ MayLeave
    /\ navIndex' = navIndex + 1
    /\ entries' = Append(SubSeq(entries, 1, position), Entry(p, navIndex + 1))
    /\ position' = position + 1
    /\ ShowPath(p)
    /\ Hurries(moves # <<>>)
    /\ UNCHANGED <<moves, restoring>>

\* Back and Forward.
UserMoves(by) ==
    /\ Len(moves) < LastMoves
    /\ moves' = Append(moves, by)
    /\ Hurries(restoring \/ Len(moves) > 1)
    /\ UNCHANGED <<entries, position, navIndex, restoring, shownPath, edited, savingEdits>>

Target == position + Head(moves)
InHistory == Target \in DOMAIN entries

\* The browser makes a move, and popstate is handled.
MoveOn ==
    /\ moves # <<>>
    /\ InHistory
    /\ position' = Target
    /\ UNCHANGED <<entries, hurried>>

\* The move undoes a refused one.
Restored ==
    /\ MoveOn
    /\ restoring
    /\ restoring' = FALSE
    /\ moves' = Tail(moves)
    /\ UNCHANGED <<navIndex, shownPath, edited, savingEdits>>

RefuseMove ==
    /\ MoveOn
    /\ ~ restoring
    /\ MayStay
    /\ restoring' = TRUE
    /\ moves' = Append(Tail(moves), navIndex - entries[Target].index)
    /\ UNCHANGED <<navIndex, shownPath, edited, savingEdits>>

LeavePage ==
    /\ MoveOn
    /\ ~ restoring
    /\ MayLeave
    /\ navIndex' = entries[Target].index
    /\ ShowPath(entries[Target].path)
    /\ moves' = Tail(moves)
    /\ UNCHANGED restoring

\* There is no such entry: the browser stays, and tells nobody.
NowhereToGo ==
    /\ moves # <<>>
    /\ ~ InHistory
    /\ moves' = Tail(moves)
    /\ UNCHANGED <<entries, position, navIndex, restoring, shownPath, edited, savingEdits, hurried>>

NavigationNext ==
    \/ EditPage \/ SaveEdits \/ EditsSaved
    \/ \E p \in Paths : FollowLink(p)
    \/ \E by \in {-1, 1} : UserMoves(by)
    \/ Restored \/ RefuseMove \/ LeavePage \/ NowhereToGo

NavigationSpec == NavigationInit /\ [][NavigationNext]_navigationVars

-----------------------------------------------------------------------------

NavigationTypeOK ==
    /\ entries \in Seq([path : Paths, index : Nat])
    /\ position \in DOMAIN entries
    /\ navIndex \in 0..LastEntry
    /\ shownPath \in Paths
    /\ restoring \in BOOLEAN /\ edited \in BOOLEAN /\ savingEdits \in BOOLEAN
    /\ hurried \in BOOLEAN

\* The page on display is the one of the browser's entry, the next link appends
\* behind it, and nothing is left to undo.
PageFits ==
    /\ ~ restoring
    /\ navIndex = entries[position].index
    /\ shownPath = entries[position].path

\* The page fits once the browser has stopped, whatever was refused and undone,
\* for a user who is never more than one move ahead when moving again, and
\* follows no link before the browser has stopped (browser-navigation.ts:10-30).
PageIsOfItsEntry == ~ hurried /\ moves = <<>> => PageFits

\* The entries are numbered in their order, so that the distance to the entry
\* that was left is the difference of the numbers (browser-navigation.ts:25, :35).
Numbered == \A i \in DOMAIN entries : entries[i].index = i - 1
EntriesAreNumbered == ~ hurried => Numbered

\* A page that is saving is not left, neither by a link nor by the history.
SavingPageStays == [][savingEdits => shownPath' = shownPath]_navigationVars
=============================================================================
