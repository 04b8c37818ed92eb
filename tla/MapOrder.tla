------------------------------ MODULE MapOrder ------------------------------
(***************************************************************************)
(* The maps of a series on the administration page: matchMaps() and        *)
(* reorderMaps() of postgres-crud-operations.repository.ts.  An editor     *)
(* sends the order that was shown and the order wanted; one transaction    *)
(* holds the match and its maps and moves one row at a time through a free *)
(* position, because (match, number) is unique after every statement.      *)
(* Meanwhile imports append maps and administrators delete them, which     *)
(* leaves gaps; both wait for the same rows.                               *)
(***************************************************************************)
EXTENDS Naturals, Sequences, FiniteSets, SequencesExt, Functions

CONSTANTS Reorderers, Maps,
          MaxPosition   \* the largest smallint of the column

VARIABLES
    number,      \* game_number of the maps of the match, as committed
    page,        \* expectedOrder: what the editor was shown
    reordering,  \* of the transaction that holds the match: its editor
    positions,   \* the rows as that transaction wrote them
    gameIds,     \* the order it wants
    index,       \* the position it fills
    moves,       \* the statements left of that position
    temporary    \* the free position

mapVars == <<number, page, reordering, positions, gameIds, index, moves,
             temporary>>

NoEditor == "nobody"

ASSUME MapAssumption == MaxPosition \in Nat /\ NoEditor \notin Reorderers

\* ORDER BY game_number
InOrderOf(n) ==
    CHOOSE s \in SetToSeqs(DOMAIN n) : \A i, j \in DOMAIN s : i < j => n[s[i]] < n[s[j]]

MapInit ==
    /\ number \in UNION {Injection(M, 1..MaxPosition) : M \in SUBSET Maps}
    /\ page = [e \in Reorderers |-> <<>>]
    /\ reordering = NoEditor
    /\ positions = number
    /\ gameIds = <<>>
    /\ index = 0
    /\ moves = <<>>
    /\ temporary = 1

MatchIsFree == reordering = NoEditor

\* matchMaps(): an answer of the committed order, under no lock.
ShowMaps(e) ==
    /\ page' = [page EXCEPT ![e] = InOrderOf(number)]
    /\ UNCHANGED <<number, reordering, positions, gameIds, index, moves,
                   temporary>>

\* Mutant: the search begins at 0.
FreePositionFromZero(taken) ==
    CHOOSE p \in 0..(MaxPosition + 1) :
        p \notin taken /\ \A q \in 0..(p - 1) : q \in taken

FreePosition(taken) ==
    CHOOSE p \in 1..(MaxPosition + 1) :
        p \notin taken /\ \A q \in 1..(p - 1) : q \in taken

\* The checks under the lock; a refused request changes nothing.
Unchanged(e) == page[e] = InOrderOf(number)
AllOnce(order) == Range(order) = DOMAIN number /\ IsInjective(order)

\* reorderMaps() until the first move.
Reorder(e, order) ==
    /\ MatchIsFree
    /\ Unchanged(e)
    /\ AllOnce(order)
    /\ FreePosition(Range(number)) <= MaxPosition
    /\ reordering' = e
    /\ positions' = number
    /\ gameIds' = order
    /\ index' = 1
    /\ moves' = <<>>
    /\ temporary' = FreePosition(Range(number))
    /\ UNCHANGED <<number, page>>

MoveOf(id, to) == [id |-> id, to |-> to]
Others(p) == {m \in DOMAIN positions : positions[m] = p}

Swap(id, other) ==
    <<MoveOf(other, temporary), MoveOf(id, index),
      MoveOf(other, positions[id])>>

\* The body of the loop: which rows the position `index` takes.
NextPosition ==
    /\ reordering # NoEditor
    /\ moves = <<>>
    /\ index <= Len(gameIds)
    /\ LET id == gameIds[index]
       IN \/ /\ positions[id] = index
             /\ UNCHANGED <<moves, temporary>>
          \/ /\ positions[id] # index
             /\ \E other \in Others(index) : moves' = Swap(id, other)
             /\ UNCHANGED temporary
          \/ /\ positions[id] # index /\ Others(index) = {}
             /\ moves' = <<MoveOf(id, index)>>
             /\ temporary' = IF temporary = index THEN positions[id]
                             ELSE temporary
    /\ index' = index + 1
    /\ UNCHANGED <<number, page, reordering, positions, gameIds>>

\* move(): one UPDATE.
Move ==
    /\ moves # <<>>
    /\ positions' = [positions EXCEPT ![Head(moves).id] = Head(moves).to]
    /\ moves' = Tail(moves)
    /\ UNCHANGED <<number, page, reordering, gameIds, index, temporary>>

EndReordering ==
    /\ reordering' = NoEditor
    /\ gameIds' = <<>>
    /\ index' = 0
    /\ moves' = <<>>
    /\ temporary' = 1
    /\ UNCHANGED page

CommitOrder ==
    /\ reordering # NoEditor
    /\ moves = <<>>
    /\ index > Len(gameIds)
    /\ number' = positions
    /\ positions' = positions
    /\ EndReordering

\* The connection or a statement fails: nothing stays.
ReorderFails ==
    /\ reordering # NoEditor
    /\ positions' = number
    /\ number' = number
    /\ EndReordering

LastNumber == Max({0} \cup Range(number))

\* An import adds a map after the last one.
AppendMap(m) ==
    /\ MatchIsFree
    /\ m \notin DOMAIN number
    /\ LastNumber < MaxPosition
    /\ number' = [x \in DOMAIN number \cup {m} |-> IF x = m THEN LastNumber + 1 ELSE number[x]]
    /\ positions' = number'
    /\ UNCHANGED <<page, reordering, gameIds, index, moves, temporary>>

\* An administrator deletes a map; the others keep their numbers.
DeleteMap(m) ==
    /\ MatchIsFree
    /\ m \in DOMAIN number
    /\ number' = Restrict(number, DOMAIN number \ {m})
    /\ positions' = number'
    /\ UNCHANGED <<page, reordering, gameIds, index, moves, temporary>>

MapNext ==
    \/ \E e \in Reorderers :
        \/ ShowMaps(e)
        \/ \E order \in SetToSeqs(DOMAIN number) : Reorder(e, order)
    \/ NextPosition
    \/ Move
    \/ CommitOrder
    \/ ReorderFails
    \/ \E m \in Maps : AppendMap(m) \/ DeleteMap(m)

MapSpec == MapInit /\ [][MapNext]_mapVars

-----------------------------------------------------------------------------

MapTypeOK ==
    /\ DOMAIN number \subseteq Maps
    /\ Range(number) \subseteq 1..MaxPosition
    /\ \A e \in Reorderers : Range(page[e]) \subseteq Maps
    /\ reordering \in Reorderers \cup {NoEditor}
    /\ DOMAIN positions \subseteq Maps
    /\ index \in 0..(Cardinality(Maps) + 1)
    /\ temporary \in 1..MaxPosition

\* The unique constraint holds after every single UPDATE of a reordering,
\* whatever gaps deletions have left and whatever order is asked for; a
\* statement that broke it would fail the whole request.
NoMoveCollides == IsInjective(positions)

\* A reordering ends with the maps numbered from 1 in the order asked for,
\* and it replaces exactly the order its editor was shown.
OrderIsTheOneAsked ==
    [][reordering # NoEditor /\ number' # number =>
           /\ page[reordering] = InOrderOf(number)
           /\ Range(number') = 1..Cardinality(DOMAIN number)
           /\ InOrderOf(number') = gameIds]_mapVars
=============================================================================
