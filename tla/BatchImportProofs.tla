-------------------------- MODULE BatchImportProofs --------------------------
(***************************************************************************)
(* Theorems about the import of batches of replays, for any uploads,       *)
(* games, matches and batches: the numbers of the maps, the scores, what a *)
(* successful upload has registered, and what becomes of a completed       *)
(* series.                                                                 *)
(***************************************************************************)
EXTENDS BatchImport, FiniteSetTheorems, SequenceTheorems, TLAPS

-----------------------------------------------------------------------------
(* Counting.                                                               *)

Rank(g, S) == Cardinality({h \in S : h < g})

LEMMA IntervalCount ==
    ASSUME NEW k \in Nat
    PROVE  IsFiniteSet(1..k) /\ Cardinality(1..k) = k
<1>1. 1 \in Int /\ k \in Int
    OBVIOUS
<1>2. /\ IsFiniteSet(1..k)
      /\ Cardinality(1..k) = IF 1 > k THEN 0 ELSE k - 1 + 1
    BY <1>1, FS_Interval, Zenon
<1>3. QED
    BY <1>2

\* A set whose k members carry the numbers 1 to k: each number once, so that n
\* of them carry a number up to n.
LEMMA NumbersCount ==
    ASSUME NEW S, IsFiniteSet(S), NEW num \in [S -> Nat],
           {num[h] : h \in S} = 1..Cardinality(S),
           NEW n \in 0..Cardinality(S)
    PROVE  Cardinality({h \in S : num[h] <= n}) = n
<1> DEFINE k == Cardinality(S)
           T == {h \in S : num[h] <= n}
           f == [h \in T |-> num[h]]
<1>1. k \in Nat
    BY FS_CardinalityType
<1>2. num \in Surjection(S, 1..k)
    BY DEF Surjection
<1>3. num \in Injection(S, 1..k)
    <2>1. Cardinality(S) = Cardinality(1..k)
        BY <1>1, IntervalCount
    <2>2. QED
        BY <1>2, <2>1, FS_SurjSameCardinalityImpliesInj, Zenon
<1>4. n \in Nat /\ n <= k
    BY <1>1
<1>5. f \in Bijection(T, 1..n)
    <2>1. \A h \in S : num[h] \in 1..k
        BY <1>2
    <2>2. f \in [T -> 1..n]
        BY <1>1, <1>4, <2>1
    <2>3. f \in Injection(T, 1..n)
        BY <1>3, <2>2 DEF Injection, IsInjective
    <2>4. \A i \in 1..n : \E h \in T : f[h] = i
        <3>1. SUFFICES ASSUME NEW i \in 1..n
                       PROVE  \E h \in T : f[h] = i
            OBVIOUS
        <3>2. i \in 1..k
            BY <1>1, <1>4
        <3>3. PICK h \in S : num[h] = i
            BY <3>2
        <3>4. h \in T /\ f[h] = i
            BY <3>3
        <3>5. QED
            BY <3>4
    <2>5. f \in Surjection(T, 1..n)
        BY <2>2, <2>4 DEF Surjection
    <2>6. QED
        BY <2>3, <2>5 DEF Bijection
<1>6. IsFiniteSet(T)
    BY FS_Subset
<1>7. ExistsBijection(T, 1..n)
    BY <1>5 DEF ExistsBijection
<1>8. Cardinality(1..n) = Cardinality(T)
    BY <1>6, <1>7, FS_Bijection, Zenon
<1>9. QED
    BY <1>4, <1>8, IntervalCount

Numbers(S, num) == {num[h] : h \in S}
HasRank(S, num, r, n) ==
    /\ Cardinality({h \in S : num[h] < n}) <= r
    /\ Cardinality({h \in S : num[h] <= n}) > r

\* The number below which r of them lie.
LEMMA NumberAtRank ==
    ASSUME NEW S, IsFiniteSet(S), NEW num \in [S -> Nat],
           Numbers(S, num) = 1..Cardinality(S),
           NEW r \in Nat, r < Cardinality(S)
    PROVE  /\ r + 1 \in Numbers(S, num)
           /\ \A n \in Numbers(S, num) : HasRank(S, num, r, n) <=> n = r + 1
<1>1. Cardinality(S) \in Nat
    BY FS_CardinalityType
<1>2. ASSUME NEW n \in 1..Cardinality(S)
      PROVE  /\ Cardinality({h \in S : num[h] < n}) = n - 1
             /\ Cardinality({h \in S : num[h] <= n}) = n
    <2>1. {h \in S : num[h] < n} = {h \in S : num[h] <= n - 1}
        BY <1>1
    <2>2. n - 1 \in 0..Cardinality(S) /\ n \in 0..Cardinality(S)
        BY <1>1
    <2>3. {num[h] : h \in S} = 1..Cardinality(S)
        BY DEF Numbers
    <2>4. QED
        BY <2>1, <2>2, <2>3, NumbersCount
<1>3. r + 1 \in Numbers(S, num)
    BY <1>1
<1>4. ASSUME NEW n \in Numbers(S, num)
      PROVE  HasRank(S, num, r, n) <=> n = r + 1
    <2>1. n \in 1..Cardinality(S)
        OBVIOUS
    <2>2. n \in Nat /\ (n - 1 <= r /\ n > r <=> n = r + 1)
        BY <1>1, <2>1
    <2>3. /\ Cardinality({h \in S : num[h] < n}) = n - 1
          /\ Cardinality({h \in S : num[h] <= n}) = n
        BY <1>2, <2>1
    <2>4. QED
        BY <2>2, <2>3 DEF HasRank
<1>5. QED
    BY <1>3, <1>4

\* Ranks run from 0 to k - 1, in the order of the members.
LEMMA RanksCount ==
    ASSUME NEW S \in SUBSET Nat, IsFiniteSet(S)
    PROVE  /\ Cardinality(S) \in Nat
           /\ \A g \in S : Rank(g, S) \in Nat /\ Rank(g, S) < Cardinality(S)
           /\ \A g, h \in S : g < h => Rank(g, S) < Rank(h, S)
           /\ {Rank(g, S) + 1 : g \in S} = 1..Cardinality(S)
<1>1. Cardinality(S) \in Nat
    BY FS_CardinalityType
<1>2. ASSUME NEW g \in S
      PROVE  /\ IsFiniteSet({x \in S : x < g})
             /\ Rank(g, S) \in Nat
             /\ Rank(g, S) < Cardinality(S)
    <2>1. {x \in S : x < g} \in SUBSET (S \ {g})
        OBVIOUS
    <2>2. IsFiniteSet(S \ {g}) /\ Cardinality(S \ {g}) = Cardinality(S) - 1
        BY FS_RemoveElement
    <2>3. IsFiniteSet({x \in S : x < g})
        BY <2>1, <2>2, FS_Subset
    <2>4. Cardinality({x \in S : x < g}) <= Cardinality(S \ {g})
        BY <2>1, <2>2, FS_Subset, Zenon
    <2>5. Cardinality({x \in S : x < g}) \in Nat
        BY <2>3, FS_CardinalityType
    <2>6. QED
        BY <1>1, <2>2, <2>3, <2>4, <2>5 DEF Rank
<1>3. /\ \A g \in S : Rank(g, S) \in Nat /\ Rank(g, S) < Cardinality(S)
      /\ \A g \in S : g \in Nat
    BY <1>2
<1>4. ASSUME NEW g \in S, NEW h \in S, g < h
      PROVE  Rank(g, S) < Rank(h, S)
    <2> DEFINE A == {x \in S : x < g}
               B == {x \in S : x < h}
    <2>1. A \cup {g} \in SUBSET B /\ g \notin A
        <3>1. g \in Nat /\ h \in Nat /\ \A x \in S : x \in Nat
            BY <1>3
        <3>2. \A x \in S : x < g => x < h
            BY <1>4, <3>1
        <3>3. ~(g < g)
            BY <3>1
        <3>4. QED
            BY <1>4, <3>2, <3>3
    <2>2. IsFiniteSet(A) /\ IsFiniteSet(B)
        BY <1>2
    <2>3. Cardinality(A \cup {g}) = Cardinality(A) + 1
        BY <2>1, <2>2, FS_AddElement, Zenon
    <2>4. Cardinality(A \cup {g}) <= Cardinality(B)
        BY <2>1, <2>2, FS_Subset, Zenon
    <2>5. Rank(g, S) = Cardinality(A) /\ Rank(h, S) = Cardinality(B)
        BY DEF Rank
    <2>6. QED
        BY <1>3, <2>3, <2>4, <2>5
<1>5. {Rank(g, S) + 1 : g \in S} = 1..Cardinality(S)
    <2> DEFINE k == Cardinality(S)
               f == [g \in S |-> Rank(g, S) + 1]
    <2>1. \A g \in S : Rank(g, S) + 1 \in 1..k
        BY <1>3, <1>1
    <2>2. f \in [S -> 1..k]
        BY <2>1
    <2>3. \A g, h \in S : f[g] = f[h] => g = h
        <3>1. SUFFICES ASSUME NEW g \in S, NEW h \in S, f[g] = f[h], g # h
                       PROVE  FALSE
            OBVIOUS
        <3>2. Rank(g, S) + 1 = Rank(h, S) + 1
            BY <3>1
        <3>3. Rank(g, S) = Rank(h, S)
            BY <1>3, <3>2
        <3>4. g < h \/ h < g
            BY <1>3, <3>1
        <3>5. QED
            BY <1>3, <1>4, <3>3, <3>4
    <2>4. f \in Injection(S, 1..k)
        BY <2>2, <2>3 DEF Injection, IsInjective
    <2>5. IsFiniteSet(1..k) /\ Cardinality(S) = Cardinality(1..k)
        BY <1>1, IntervalCount
    <2>6. f \in Surjection(S, 1..k)
        BY <2>4, <2>5, FS_Injection, Zenon
    <2>7. \A i \in 1..k : \E g \in S : f[g] = i
        BY <2>6 DEF Surjection
    <2>8. \A i \in 1..k : \E g \in S : Rank(g, S) + 1 = i
        BY <2>7
    <2>9. QED
        BY <2>1, <2>8
<1>6. QED
    BY <1>3, <1>1, <1>4, <1>5

LEMMA GamesFinite ==
    /\ IsFiniteSet(Games)
    /\ \A m, where : IsFiniteSet(GamesOf(m, where)) /\ GamesOf(m, where) \in SUBSET Nat
<1>1. IsFiniteSet(Games) /\ Games \in SUBSET Nat
    BY ImportAssumption
<1>2. \A m, where : GamesOf(m, where) \in SUBSET Games
    BY DEF GamesOf
<1>3. QED
    BY <1>1, <1>2, FS_Subset

-----------------------------------------------------------------------------
(* The numbers of the maps.                                                *)

\* The games of m as `where` places them are numbered from 1 to k.
NumberedTo(m, where, k) ==
    /\ k = Cardinality(GamesOf(m, where))
    /\ {where[g].number : g \in GamesOf(m, where)} = 1..k

Rows == {Nowhere} \cup [match : Matches, number : Nat \ {0}]

LEMMA RowFields ==
    ASSUME NEW r \in Rows
    PROVE  /\ r.match \in Matches \cup {NoMatch} /\ r.number \in Nat
           /\ r.match = NoMatch <=> r = Nowhere
           /\ r = [match |-> r.match, number |-> r.number]
BY ImportAssumption DEF Rows, Nowhere

\* orderImportedGames() gives every game of a match its rank.
LEMMA InOrderRanks ==
    ASSUME NEW W \in [Games -> Rows],
           \A m \in Matches : \E k : NumberedTo(m, W, k),
           NEW g \in Games
    PROVE  InOrder(W)[g] =
               IF W[g] = Nowhere THEN Nowhere
               ELSE [match |-> W[g].match,
                     number |-> Rank(g, GamesOf(W[g].match, W)) + 1]
<1>1. CASE W[g] = Nowhere
    BY <1>1 DEF InOrder
<1>2. CASE W[g] # Nowhere
    <2>1. PICK S : S = GamesOf(W[g].match, W)
        OBVIOUS
    <2>2. /\ IsFiniteSet(S) /\ S \in SUBSET Nat /\ S \in SUBSET Games
          /\ g \in S
        BY <2>1, GamesFinite DEF GamesOf
    <2>3. PICK num : num = [h \in S |-> W[h].number]
        OBVIOUS
    <2>4. num \in [S -> Nat]
        BY <2>2, <2>3, RowFields
    <2>5. W[g].match \in Matches
        BY <1>2, RowFields
    <2>6. Numbers(S, num) = 1..Cardinality(S)
        BY <2>1, <2>3, <2>5 DEF NumberedTo, Numbers
    <2>7. Rank(g, S) \in Nat /\ Rank(g, S) < Cardinality(S)
        BY <2>2, RanksCount
    <2>8. PICK r \in Nat : r = Rank(g, S)
        BY <2>7
    <2>9. /\ r + 1 \in Numbers(S, num)
          /\ \A n \in Numbers(S, num) : HasRank(S, num, r, n) <=> n = r + 1
        BY <2>2, <2>4, <2>6, <2>7, <2>8, NumberAtRank
    <2>10. /\ Numbers(S, num) = {W[h].number : h \in S}
           /\ \A n : {h \in S : num[h] < n} = {h \in S : W[h].number < n}
           /\ \A n : {h \in S : num[h] <= n} = {h \in S : W[h].number <= n}
        BY <2>3 DEF Numbers
    <2>11. /\ r + 1 \in {W[h].number : h \in S}
           /\ \A n \in {W[h].number : h \in S} :
                (/\ Cardinality({h \in S : W[h].number < n}) <= r
                 /\ Cardinality({h \in S : W[h].number <= n}) > r) <=> n = r + 1
        BY <2>9, <2>10 DEF HasRank
    <2>12. (CHOOSE n \in {W[h].number : h \in S} :
                /\ Cardinality({h \in S : W[h].number < n}) <= r
                /\ Cardinality({h \in S : W[h].number <= n}) > r) = r + 1
        BY <2>11
    <2>13. InOrder(W)[g] =
              [match |-> W[g].match,
               number |-> CHOOSE n \in {W[h].number : h \in S} :
                /\ Cardinality({h \in S : W[h].number < n}) <= r
                /\ Cardinality({h \in S : W[h].number <= n}) > r]
        BY <1>2, <2>1, <2>8 DEF InOrder, Rank
    <2>14. QED
        BY <1>2, <2>1, <2>8, <2>12, <2>13
<1>3. QED
    BY <1>1, <1>2

\* Placements that agree on the games of m agree on all that is counted of m.
LEMMA SameGames ==
    ASSUME NEW m, NEW A, NEW B,
           \A g \in Games : A[g].match = m \/ B[g].match = m => A[g] = B[g]
    PROVE  /\ GamesOf(m, A) = GamesOf(m, B)
           /\ \A k : NumberedTo(m, A, k) <=> NumberedTo(m, B, k)
<1>1. GamesOf(m, A) = GamesOf(m, B)
    BY DEF GamesOf
<1>2. {A[g].number : g \in GamesOf(m, A)} = {B[g].number : g \in GamesOf(m, B)}
    BY DEF GamesOf
<1>3. QED
    BY <1>1, <1>2 DEF NumberedTo

RankedIn(where) ==
    \A g \in Games : where[g] # Nowhere =>
        /\ where[g].match \in Fixture[g]
        /\ where[g].number = Rank(g, GamesOf(where[g].match, where)) + 1

\* Games numbered by their rank are numbered from 1 without a gap.
LEMMA RankedNumbers ==
    ASSUME NEW W \in [Games -> Rows], RankedIn(W), NEW m \in Matches
    PROVE  NumberedTo(m, W, Cardinality(GamesOf(m, W)))
<1>1. PICK S : S = GamesOf(m, W)
    OBVIOUS
<1>2. \A g \in S : W[g].number = Rank(g, S) + 1
    BY <1>1, ImportAssumption DEF RankedIn, GamesOf, Nowhere
<1>3. {W[g].number : g \in S} = {Rank(g, S) + 1 : g \in S}
    BY <1>2
<1>4. {Rank(g, S) + 1 : g \in S} = 1..Cardinality(S)
    BY <1>1, GamesFinite, RanksCount
<1>5. QED
    BY <1>1, <1>3, <1>4 DEF NumberedTo

\* What InOrder makes of numbered games is ranked, and every game stays in its match.
LEMMA InOrderRanked ==
    ASSUME NEW W \in [Games -> Rows],
           \A g \in Games : W[g] # Nowhere => W[g].match \in Fixture[g],
           \A m \in Matches : \E k : NumberedTo(m, W, k)
    PROVE  /\ InOrder(W) \in [Games -> Rows]
           /\ \A g \in Games : InOrder(W)[g].match = W[g].match
           /\ \A g \in Games : InOrder(W)[g] = Nowhere <=> W[g] = Nowhere
           /\ \A m : GamesOf(m, InOrder(W)) = GamesOf(m, W)
           /\ RankedIn(InOrder(W))
<1>1. PICK P : P = InOrder(W)
    OBVIOUS
<1>2. /\ DOMAIN P = Games
      /\ P = [g \in Games |-> P[g]]
    BY <1>1 DEF InOrder
<1>3. ASSUME NEW g \in Games, W[g] = Nowhere
      PROVE  P[g] = Nowhere
    BY <1>1, <1>3, InOrderRanks
<1>4. ASSUME NEW g \in Games, W[g] # Nowhere
      PROVE  /\ P[g] \in Rows
             /\ P[g] # Nowhere
             /\ P[g].match = W[g].match
             /\ P[g].number = Rank(g, GamesOf(W[g].match, W)) + 1
    <2>1. P[g] = [match |-> W[g].match,
                  number |-> Rank(g, GamesOf(W[g].match, W)) + 1]
        BY <1>1, <1>4, InOrderRanks
    <2>2. W[g].match \in Matches
        BY <1>4, RowFields
    <2>3. g \in GamesOf(W[g].match, W)
        BY DEF GamesOf
    <2>4. Rank(g, GamesOf(W[g].match, W)) \in Nat
        BY <2>3, GamesFinite, RanksCount
    <2>5. P[g].match # NoMatch
        BY <2>1, <2>2, ImportAssumption
    <2>6. QED
        BY <2>1, <2>2, <2>4, <2>5 DEF Rows, Nowhere
<1>5. \A g \in Games : P[g] \in Rows /\ P[g].match = W[g].match
                       /\ (P[g] = Nowhere <=> W[g] = Nowhere)
    BY <1>3, <1>4 DEF Rows
<1>6. P \in [Games -> Rows]
    BY <1>2, <1>5
<1>7. \A m : GamesOf(m, P) = GamesOf(m, W)
    BY <1>5 DEF GamesOf
<1>8. RankedIn(P)
    BY <1>4, <1>5, <1>7 DEF RankedIn
<1>9. QED
    BY <1>1, <1>5, <1>6, <1>7, <1>8

LEMMA HighestIsCount ==
    ASSUME place \in [Games -> Rows], RankedIn(place), NEW m \in Matches
    PROVE  HighestNumber(m) = Cardinality(GamesOf(m, place))
<1>1. PICK k : k = Cardinality(GamesOf(m, place))
    OBVIOUS
<1>2. k \in Nat
    BY <1>1, GamesFinite, FS_CardinalityType
<1>3. {place[g].number : g \in GamesOf(m, place)} = 1..k
    BY <1>1, RankedNumbers DEF NumberedTo
<1>4. HighestNumber(m) = Max({0} \cup 1..k)
    BY <1>3 DEF HighestNumber
<1>5. Max({0} \cup 1..k) = k
    BY <1>2 DEF Max
<1>6. QED
    BY <1>1, <1>4, <1>5

-----------------------------------------------------------------------------
(* The inductive invariant.                                                *)

TxType ==
    [rest : Seq(Games), known : SUBSET Games, target : Matches \cup {NoMatch},
     tracked : SUBSET Matches, score : [Matches -> Scores],
     last : [Matches -> 0..Cardinality(Games)],
     draft : [Games -> Places], skipped : SUBSET Games]

Ranges ==
    /\ row \in [Matches -> [status : Open \cup {"completed", "forfeit"},
                            score : Scores, winner : {0, 1, 2}]]
    /\ place \in [Games -> Places]
    /\ owner \in [Matches -> Uploads \cup {NoUpload}]
    /\ pc \in [Uploads -> {"idle"} \cup Active \cup Ended]
    /\ tx \in [Uploads -> TxType]
    /\ batch \in [Uploads -> Seq(Games)]

IsActive(u) == pc[u] \in Active
Drafted(u, g) == tx[u].draft[g] # Nowhere
Busy == {"search", "recheck", "lock", "insert"}

\* The control of one upload.
Control(u) ==
    /\ pc[u] \in {"idle", "rejected", "failed"} => tx[u] = Fresh
    /\ pc[u] \in Busy => tx[u].rest # <<>> /\ Game(u) \notin tx[u].known
    /\ pc[u] \in {"lock", "insert"} => tx[u].target \in Fixture[Game(u)]
    /\ pc[u] = "lock" => tx[u].target \notin tx[u].tracked
    /\ pc[u] = "insert" => tx[u].target \in tx[u].tracked
    /\ pc[u] = "done" => tx[u].rest = <<>>

\* What an upload tracks it holds, and nobody has completed it.
Holds(u) ==
    IsActive(u) => \A m \in tx[u].tracked : owner[m] = u /\ row[m].status # "completed"

\* An uncommitted game belongs to a tracked match, and nobody else has it.
DraftsAreOwn(u) ==
    IsActive(u) => \A g \in Games : Drafted(u, g) =>
        /\ tx[u].draft[g].match \in tx[u].tracked \cap Fixture[g]
        /\ ~Registered(g)
        /\ g \in tx[u].known
        /\ \A v \in Uploads \ {u} : IsActive(v) => ~Drafted(v, g)

\* Every game of the batch is still to come, drafted or skipped, and what was
\* skipped is registered or drafted.
Accounted(u) ==
    IsActive(u) \/ pc[u] = "done" =>
        /\ \A g \in tx[u].known : Registered(g) \/ Drafted(u, g)
        /\ \A g \in tx[u].skipped : g \in tx[u].known
        /\ pc[u] = "done" => \A g \in Games : Drafted(u, g) => Registered(g)
        /\ \A i \in DOMAIN batch[u] :
              \/ batch[u][i] \in tx[u].skipped \/ Drafted(u, batch[u][i])
              \/ \E j \in DOMAIN tx[u].rest : tx[u].rest[j] = batch[u][i]

Won(m, where, s) == {g \in GamesOf(m, where) : Winner[g] = s}

\* A transaction keeps count of the matches it tracks.
Tallies(u) ==
    IsActive(u) => \A m \in tx[u].tracked :
        /\ NumberedTo(m, Written(u), tx[u].last[m])
        /\ \A s \in Sides : tx[u].score[m][s] = Cardinality(Won(m, Written(u), s))

UploadInv(u) == Control(u) /\ Holds(u) /\ DraftsAreOwn(u) /\ Accounted(u) /\ Tallies(u)

\* Two successful uploads never claim the same game.
OneClaim ==
    \A u, v \in Uploads : u # v /\ pc[u] = "done" /\ pc[v] = "done" =>
        \A g \in Games : ~(Drafted(u, g) /\ Drafted(v, g))

IInv ==
    /\ Ranges
    /\ \A u \in Uploads : UploadInv(u)
    /\ OneClaim
    /\ RankedIn(place)
    /\ ScoresCountGames

-----------------------------------------------------------------------------
(* Places.                                                                 *)

LEMMA GameCount ==
    /\ Cardinality(Games) \in Nat
    /\ \A S \in SUBSET Games : /\ IsFiniteSet(S) /\ Cardinality(S) \in Nat
                               /\ Cardinality(S) <= Cardinality(Games)
    /\ \A S \in SUBSET Games : \A T \in SUBSET S : Cardinality(T) <= Cardinality(S)
<1>1. Cardinality(Games) \in Nat
    BY GamesFinite, FS_CardinalityType
<1>2. ASSUME NEW S \in SUBSET Games
      PROVE  /\ IsFiniteSet(S) /\ Cardinality(S) \in Nat
             /\ Cardinality(S) <= Cardinality(Games)
    BY GamesFinite, FS_Subset, FS_CardinalityType
<1>3. ASSUME NEW S \in SUBSET Games, NEW T \in SUBSET S
      PROVE  Cardinality(T) <= Cardinality(S)
    BY <1>2, FS_Subset
<1>4. QED
    BY <1>1, <1>2, <1>3

Playable(m) == {g \in Games : m \in Fixture[g]}

LEMMA PlaceFields ==
    /\ Nowhere \in Places
    /\ Places \subseteq Rows
    /\ \A m \in Matches, n \in Nat :
          n >= 1 /\ n <= Cardinality(Playable(m)) => [match |-> m, number |-> n] \in Places
<1>1. Nowhere \in Places
    BY DEF Places
<1>2. \A m \in Matches : Cardinality(Playable(m)) \in Nat
    BY GameCount DEF Playable
<1>3. Places = {Nowhere} \cup
                  UNION {[match : {m}, number : 1..Cardinality(Playable(m))] : m \in Matches}
    BY DEF Places, Playable
<1>4. ASSUME NEW p \in Places, p # Nowhere
      PROVE  p \in Rows
    <2>1. PICK m \in Matches : p \in [match : {m}, number : 1..Cardinality(Playable(m))]
        BY <1>3, <1>4
    <2>2. p \in [match : Matches, number : Nat \ {0}]
        BY <1>2, <2>1
    <2>3. QED
        BY <2>2 DEF Rows
<1>5. Places \subseteq Rows
    BY <1>4 DEF Rows
<1>6. ASSUME NEW m \in Matches, NEW n \in Nat, n >= 1, n <= Cardinality(Playable(m))
      PROVE  [match |-> m, number |-> n] \in Places
    <2>1. n \in 1..Cardinality(Playable(m))
        BY <1>2, <1>6
    <2>2. [match |-> m, number |-> n] \in [match : {m}, number : 1..Cardinality(Playable(m))]
        BY <2>1
    <2>3. QED
        BY <1>3, <2>2
<1>7. QED
    BY <1>1, <1>5, <1>6

LEMMA GamesArePlayable ==
    ASSUME NEW W \in [Games -> Rows],
           \A g \in Games : W[g] # Nowhere => W[g].match \in Fixture[g],
           NEW m \in Matches
    PROVE  GamesOf(m, W) \in SUBSET Playable(m) /\ Playable(m) \in SUBSET Games
BY ImportAssumption DEF GamesOf, Playable, Nowhere

LEMMA RankedPlaces ==
    ASSUME NEW W \in [Games -> Rows], RankedIn(W)
    PROVE  W \in [Games -> Places]
<1>1. ASSUME NEW g \in Games
      PROVE  W[g] \in Places
    <2>1. CASE W[g] = Nowhere
        BY <2>1, PlaceFields
    <2>2. CASE W[g] # Nowhere
        <3>1. W[g].match \in Matches /\ W[g] = [match |-> W[g].match, number |-> W[g].number]
            BY <2>2, RowFields
        <3>2. PICK S : S = GamesOf(W[g].match, W)
            OBVIOUS
        <3>3. W[g].number = Rank(g, S) + 1 /\ g \in S
            BY <2>2, <3>2 DEF RankedIn, GamesOf
        <3>4. Rank(g, S) \in Nat /\ Rank(g, S) < Cardinality(S) /\ Cardinality(S) \in Nat
            BY <3>2, <3>3, GamesFinite, RanksCount
        <3>5. S \in SUBSET Playable(W[g].match) /\ Playable(W[g].match) \in SUBSET Games
            BY <3>1, <3>2, GamesArePlayable DEF RankedIn
        <3>6. Cardinality(S) <= Cardinality(Playable(W[g].match))
              /\ Cardinality(Playable(W[g].match)) \in Nat
            BY <3>5, GameCount
        <3>7. W[g].number \in Nat /\ W[g].number >= 1
              /\ W[g].number <= Cardinality(Playable(W[g].match))
            BY <3>3, <3>4, <3>6
        <3>8. [match |-> W[g].match, number |-> W[g].number] \in Places
            BY <3>1, <3>7, PlaceFields
        <3>9. QED
            BY <3>1, <3>8
    <2>3. QED
        BY <2>1, <2>2
<1>2. QED
    BY <1>1

\* What an upload would commit: rows in matches their games can belong to, and
\* the committed rows in every match it does not track.
LEMMA WrittenRows ==
    ASSUME IInv, NEW u \in Uploads, IsActive(u)
    PROVE  /\ Written(u) \in [Games -> Places]
           /\ Written(u) \in [Games -> Rows]
           /\ \A g \in Games :
                 Written(u)[g] = IF Drafted(u, g) THEN tx[u].draft[g] ELSE place[g]
           /\ \A g \in Games : Written(u)[g] # Nowhere => Written(u)[g].match \in Fixture[g]
           /\ \A m \in Matches \ tx[u].tracked, g \in Games :
                 Written(u)[g].match = m \/ place[g].match = m => Written(u)[g] = place[g]
<1>1. /\ place \in [Games -> Places]
      /\ tx[u].draft \in [Games -> Places]
    BY DEF IInv, Ranges, TxType
<1>2. \A g \in Games :
          Written(u)[g] = IF Drafted(u, g) THEN tx[u].draft[g] ELSE place[g]
    BY DEF Written, Drafted
<1>3. Written(u) \in [Games -> Places]
    BY <1>1 DEF Written
<1>4. Written(u) \in [Games -> Rows]
    BY <1>3, PlaceFields
<1>5. ASSUME NEW g \in Games, Drafted(u, g)
      PROVE  /\ tx[u].draft[g].match \in tx[u].tracked \cap Fixture[g]
             /\ place[g] = Nowhere
    BY <1>5 DEF IInv, UploadInv, DraftsAreOwn, Registered
<1>6. ASSUME NEW g \in Games, Written(u)[g] # Nowhere
      PROVE  Written(u)[g].match \in Fixture[g]
    BY <1>2, <1>5, <1>6 DEF IInv, RankedIn
<1>7. Nowhere.match = NoMatch /\ NoMatch \notin Matches
    BY ImportAssumption DEF Nowhere
<1>8. ASSUME NEW m \in Matches \ tx[u].tracked, NEW g \in Games,
             Written(u)[g].match = m \/ place[g].match = m
      PROVE  Written(u)[g] = place[g]
    BY <1>2, <1>5, <1>7, <1>8
<1>9. QED
    BY <1>2, <1>3, <1>4, <1>6, <1>8

-----------------------------------------------------------------------------
(* Steps that commit nothing.                                              *)

\* The other uploads are left alone.
LEMMA OthersUndisturbed ==
    ASSUME IInv, NEW u \in Uploads, UNCHANGED <<row, place, batch>>,
           \A w \in Uploads \ {u} : tx'[w] = tx[w] /\ pc'[w] = pc[w],
           \A m \in Matches : owner[m] # u => owner'[m] = owner[m] \/ owner[m] = NoUpload,
           \A g \in Games : IsActive(u)' /\ Drafted(u, g)' =>
               \A w \in Uploads \ {u} : IsActive(w) => ~Drafted(w, g),
           NEW v \in Uploads \ {u}
    PROVE  UploadInv(v)'
<1>1. UploadInv(v) /\ tx'[v] = tx[v] /\ pc'[v] = pc[v]
    BY DEF IInv
<1>2. Control(v)'
    BY <1>1 DEF UploadInv, Control, Game
<1>3. Holds(v)'
    <2>1. tx[v].tracked \in SUBSET Matches
        BY DEF IInv, Ranges, TxType
    <2>2. v # NoUpload
        BY ImportAssumption
    <2>3. QED
        BY <1>1, <2>1, <2>2 DEF UploadInv, Holds, IsActive
<1>4. DraftsAreOwn(v)'
    BY <1>1 DEF UploadInv, DraftsAreOwn, IsActive, Drafted, Registered
<1>5. Accounted(v)'
    BY <1>1 DEF UploadInv, Accounted, IsActive, Drafted, Registered
<1>6. Tallies(v)'
    <2>1. Written(v)' = Written(v)
        BY <1>1 DEF Written
    <2>2. QED
        BY <1>1, <2>1 DEF UploadInv, Tallies, IsActive
<1>7. QED
    BY <1>2, <1>3, <1>4, <1>5, <1>6 DEF UploadInv

LEMMA QuietStep ==
    ASSUME IInv, NEW u \in Uploads, UNCHANGED <<row, place, batch>>,
           \A w \in Uploads \ {u} : tx'[w] = tx[w] /\ pc'[w] = pc[w],
           \A m \in Matches : owner[m] # u => owner'[m] = owner[m] \/ owner[m] = NoUpload,
           \A g \in Games : IsActive(u)' /\ Drafted(u, g)' =>
               \A w \in Uploads \ {u} : IsActive(w) => ~Drafted(w, g),
           Ranges', UploadInv(u)', pc'[u] # "done"
    PROVE  IInv'
<1>1. \A v \in Uploads \ {u} : UploadInv(v)'
    BY OthersUndisturbed
<1>2. OneClaim'
    BY DEF IInv, OneClaim, Drafted
<1>3. RankedIn(place)'
    BY DEF IInv, RankedIn
<1>4. ScoresCountGames'
    BY DEF IInv, ScoresCountGames
<1>5. QED
    BY <1>1, <1>2, <1>3, <1>4 DEF IInv

\* An upload that only moves on keeps what it has done.
LEMMA MovesOn ==
    ASSUME IInv, NEW u \in Uploads, UNCHANGED <<row, place, batch>>,
           \A w \in Uploads \ {u} : tx'[w] = tx[w] /\ pc'[w] = pc[w],
           owner' \in [Matches -> Uploads \cup {NoUpload}],
           \A m \in Matches : \/ owner'[m] = owner[m]
                              \/ owner[m] = NoUpload /\ owner'[m] = u,
           IsActive(u), pc' \in [Uploads -> {"idle"} \cup Active \cup Ended], IsActive(u)',
           tx' \in [Uploads -> TxType],
           tx'[u].rest = tx[u].rest, tx'[u].known = tx[u].known, tx'[u].tracked = tx[u].tracked,
           tx'[u].score = tx[u].score, tx'[u].last = tx[u].last, tx'[u].draft = tx[u].draft,
           tx'[u].skipped = tx[u].skipped,
           Control(u)'
    PROVE  IInv'
<1>1. UploadInv(u) /\ pc'[u] # "done" /\ pc[u] # "done"
    BY DEF IInv, IsActive, Active
<1>2. Holds(u)'
    BY <1>1 DEF UploadInv, Holds, IsActive, IInv, Ranges, TxType
<1>3. DraftsAreOwn(u)'
    BY <1>1 DEF UploadInv, DraftsAreOwn, IsActive, Drafted, Registered
<1>4. Accounted(u)'
    BY <1>1 DEF UploadInv, Accounted, IsActive, Drafted, Registered
<1>5. Tallies(u)'
    <2>1. Written(u)' = Written(u)
        BY DEF Written
    <2>2. QED
        BY <1>1, <2>1 DEF UploadInv, Tallies, IsActive
<1>6. UploadInv(u)'
    BY <1>2, <1>3, <1>4, <1>5 DEF UploadInv
<1>7. Ranges'
    BY DEF IInv, Ranges
<1>8. \A g \in Games : Drafted(u, g)' => \A w \in Uploads \ {u} : IsActive(w) => ~Drafted(w, g)
    BY <1>1 DEF UploadInv, DraftsAreOwn, IsActive, Drafted
<1>9. QED
    BY <1>1, <1>6, <1>7, <1>8, QuietStep

LEMMA ChooseStep ==
    ASSUME IInv, NEW u \in Uploads, UNCHANGED <<row, place, owner, batch>>,
           pc[u] \in {"next", "search"}, tx[u].rest # <<>>, Game(u) \notin tx[u].known,
           NEW m \in Fixture[Game(u)], Choose(u, m)
    PROVE  IInv'
<1>1. tx \in [Uploads -> TxType] /\ pc \in [Uploads -> {"idle"} \cup Active \cup Ended]
    BY DEF IInv, Ranges
<1>2. tx[u] \in TxType /\ m \in Matches
    <2>1. tx[u].rest \in Seq(Games)
        BY <1>1 DEF TxType
    <2>2. Game(u) \in Games
        BY <2>1 DEF Game
    <2>3. QED
        BY <1>1, <2>2, ImportAssumption
<1>3. /\ tx' = [tx EXCEPT ![u].target = m]
      /\ pc' = [pc EXCEPT ![u] = IF m \in tx[u].tracked THEN "insert" ELSE "lock"]
    BY DEF Choose, Goto
<1>4. tx'[u] = [tx[u] EXCEPT !.target = m]
    BY <1>1, <1>3
<1>5. tx'[u] \in TxType
    BY <1>2, <1>4 DEF TxType
<1>6. tx' \in [Uploads -> TxType]
    BY <1>1, <1>3, <1>5
<1>7. /\ tx'[u].rest = tx[u].rest /\ tx'[u].known = tx[u].known
      /\ tx'[u].tracked = tx[u].tracked /\ tx'[u].score = tx[u].score
      /\ tx'[u].last = tx[u].last /\ tx'[u].draft = tx[u].draft
      /\ tx'[u].skipped = tx[u].skipped /\ tx'[u].target = m
    BY <1>2, <1>4 DEF TxType
<1>8. pc'[u] = IF m \in tx[u].tracked THEN "insert" ELSE "lock"
    BY <1>1, <1>3
<1>9. pc' \in [Uploads -> {"idle"} \cup Active \cup Ended] /\ IsActive(u)'
    BY <1>1, <1>3, <1>8 DEF Active, IsActive
<1>10. Control(u)'
    BY <1>7, <1>8 DEF Control, Game
<1>11. \A w \in Uploads \ {u} : tx'[w] = tx[w] /\ pc'[w] = pc[w]
    BY <1>1, <1>3
<1>12. IsActive(u)
    BY DEF IsActive, Active
<1>13. QED
    BY <1>6, <1>7, <1>9, <1>10, <1>11, <1>12, MovesOn DEF IInv, Ranges

\* The program counter alone.
LEMMA GotoStep ==
    ASSUME IInv, NEW u \in Uploads, UNCHANGED <<row, place, owner, batch, tx>>,
           pc[u] \in {"next", "search"}, tx[u].rest # <<>>, Game(u) \notin tx[u].known,
           NEW label \in {"search", "recheck"}, Goto(u, label)
    PROVE  IInv'
<1>1. tx \in [Uploads -> TxType] /\ pc \in [Uploads -> {"idle"} \cup Active \cup Ended]
    BY DEF IInv, Ranges
<1>2. pc'[u] = label /\ \A w \in Uploads \ {u} : pc'[w] = pc[w]
    BY <1>1 DEF Goto
<1>3. pc' \in [Uploads -> {"idle"} \cup Active \cup Ended] /\ IsActive(u)' /\ IsActive(u)
    BY <1>1, <1>2 DEF Goto, Active, IsActive
<1>4. Control(u)'
    BY <1>2 DEF Control, Game
<1>5. QED
    BY <1>1, <1>2, <1>3, <1>4, MovesOn DEF IInv, Ranges

LEMMA FreshType == Fresh \in TxType
<1>1. ZeroScore \in Scores
    BY GameCount DEF ZeroScore, Scores
<1>2. QED
    BY <1>1, GameCount, PlaceFields DEF Fresh, TxType

\* A transaction that is rolled back leaves nothing behind.
LEMMA RollbackStep ==
    ASSUME IInv, NEW u \in Uploads, UNCHANGED batch,
           NEW how \in {"rejected", "failed"}, Rollback(u, how)
    PROVE  IInv'
<1>1. Ranges
    BY DEF IInv
<1>2. /\ UNCHANGED <<row, place>>
      /\ pc' = [pc EXCEPT ![u] = how] /\ tx' = [tx EXCEPT ![u] = Fresh]
      /\ owner' = [m \in Matches |-> IF owner[m] = u THEN NoUpload ELSE owner[m]]
    BY DEF Rollback, Goto, Release
<1>3. /\ pc'[u] = how /\ tx'[u] = Fresh
      /\ \A w \in Uploads \ {u} : tx'[w] = tx[w] /\ pc'[w] = pc[w]
    BY <1>1, <1>2 DEF Ranges
<1>4. ~IsActive(u)' /\ pc'[u] # "done"
    BY <1>3 DEF IsActive, Active
<1>5. Ranges'
    BY <1>1, <1>2, FreshType DEF Ranges, Ended
<1>6. UploadInv(u)'
    BY <1>3, <1>4 DEF UploadInv, Control, Holds, DraftsAreOwn, Accounted, Tallies, Busy
<1>7. QED
    BY <1>2, <1>3, <1>4, <1>5, <1>6, QuietStep

LEMMA BeginStep ==
    ASSUME IInv, NEW u \in Uploads, UNCHANGED batch, Begin(u)
    PROVE  IInv'
<1>1. Ranges
    BY DEF IInv
<1>2. /\ UNCHANGED <<row, place, owner>> /\ pc[u] = "idle"
      /\ pc' = [pc EXCEPT ![u] = "next"]
      /\ tx' = [tx EXCEPT ![u].rest = batch[u], ![u].known = {g \in Games : Registered(g)}]
    BY DEF Begin, Goto
<1>3. tx[u] = Fresh
    BY <1>2 DEF IInv, UploadInv, Control
<1>4. /\ tx'[u] = [Fresh EXCEPT !.rest = batch[u], !.known = {g \in Games : Registered(g)}]
      /\ pc'[u] = "next"
      /\ \A w \in Uploads \ {u} : tx'[w] = tx[w] /\ pc'[w] = pc[w]
    BY <1>1, <1>2, <1>3 DEF Ranges
<1>5. /\ tx'[u].rest = batch[u] /\ tx'[u].known = {g \in Games : Registered(g)}
      /\ tx'[u].tracked = {} /\ tx'[u].draft = [g \in Games |-> Nowhere]
      /\ tx'[u].skipped = {}
    BY <1>4 DEF Fresh
<1>6. tx'[u] \in TxType
    <2>1. batch[u] \in Seq(Games) /\ {g \in Games : Registered(g)} \in SUBSET Games
        BY <1>1 DEF Ranges
    <2>2. QED
        BY <1>4, <2>1, FreshType DEF TxType
<1>7. Ranges'
    BY <1>1, <1>2, <1>6 DEF Ranges, Active
<1>8. \A g \in Games : ~Drafted(u, g)'
    BY <1>5 DEF Drafted
<1>9. UploadInv(u)'
    <2>1. Control(u)' /\ Holds(u)' /\ Tallies(u)'
        BY <1>4, <1>5 DEF Control, Holds, Tallies, Busy
    <2>2. DraftsAreOwn(u)'
        BY <1>8 DEF DraftsAreOwn
    <2>3. Accounted(u)'
        BY <1>2, <1>4, <1>5, <1>8 DEF Accounted, Registered
    <2>4. QED
        BY <2>1, <2>2, <2>3 DEF UploadInv
<1>10. QED
    BY <1>2, <1>4, <1>7, <1>8, <1>9, QuietStep DEF Ended

\* A game that is registered or drafted is passed over.
LEMMA SkipStep ==
    ASSUME IInv, NEW u \in Uploads, UNCHANGED <<row, place, owner, batch>>,
           IsActive(u), tx[u].rest # <<>>, Registered(Game(u)) \/ Drafted(u, Game(u)),
           SkipGame(u)
    PROVE  IInv'
<1>1. Ranges
    BY DEF IInv
<1>2. PICK g \in Games : g = Game(u)
    BY <1>1 DEF Ranges, TxType, Game
<1>3. /\ tx' = [tx EXCEPT ![u].rest = Tail(@), ![u].skipped = @ \cup {g},
                          ![u].known = @ \cup {g}]
      /\ pc' = [pc EXCEPT ![u] = "next"]
    BY <1>2 DEF SkipGame, Goto
<1>4. tx[u] \in TxType
    BY <1>1 DEF Ranges
<1>5. /\ tx'[u] = [tx[u] EXCEPT !.rest = Tail(@), !.skipped = @ \cup {g}, !.known = @ \cup {g}]
      /\ pc'[u] = "next"
      /\ \A w \in Uploads \ {u} : tx'[w] = tx[w] /\ pc'[w] = pc[w]
    BY <1>1, <1>3, <1>4 DEF Ranges, TxType
<1>6. /\ tx'[u].rest = Tail(tx[u].rest) /\ tx'[u].known = tx[u].known \cup {g}
      /\ tx'[u].tracked = tx[u].tracked /\ tx'[u].score = tx[u].score
      /\ tx'[u].last = tx[u].last /\ tx'[u].draft = tx[u].draft
      /\ tx'[u].skipped = tx[u].skipped \cup {g}
    BY <1>4, <1>5 DEF TxType
<1>7. tx'[u] \in TxType
    <2>1. Tail(tx[u].rest) \in Seq(Games)
        BY <1>4 DEF TxType
    <2>2. tx[u].skipped \cup {g} \in SUBSET Games /\ tx[u].known \cup {g} \in SUBSET Games
        BY <1>4 DEF TxType
    <2>3. tx'[u] = [tx[u] EXCEPT !.rest = Tail(tx[u].rest), !.skipped = tx[u].skipped \cup {g},
                                 !.known = tx[u].known \cup {g}]
        BY <1>5
    <2>4. QED
        BY <1>4, <2>1, <2>2, <2>3 DEF TxType
<1>8. Ranges'
    BY <1>1, <1>3, <1>5, <1>7 DEF Ranges, Active
<1>9. UploadInv(u) /\ pc[u] # "done"
    BY DEF IInv, IsActive, Active
<1>10. IsActive(u)' /\ pc'[u] # "done"
    BY <1>5 DEF IsActive, Active
<1>11. Control(u)'
    BY <1>5 DEF Control, Busy
<1>12. Holds(u)'
    BY <1>6, <1>9 DEF UploadInv, Holds
<1>13. DraftsAreOwn(u)'
    BY <1>5, <1>6, <1>9 DEF UploadInv, DraftsAreOwn, IsActive, Drafted, Registered
<1>14. ASSUME NEW i \in DOMAIN batch[u]
       PROVE  \/ batch[u][i] \in tx'[u].skipped \/ tx'[u].draft[batch[u][i]] # Nowhere
              \/ \E j \in DOMAIN tx'[u].rest : tx'[u].rest[j] = batch[u][i]
    <2>1. CASE batch[u][i] \in tx[u].skipped \/ Drafted(u, batch[u][i])
        BY <1>6, <2>1 DEF Drafted
    <2>2. CASE \E j \in DOMAIN tx[u].rest : tx[u].rest[j] = batch[u][i]
        <3>1. PICK j \in DOMAIN tx[u].rest : tx[u].rest[j] = batch[u][i]
            BY <2>2
        <3>2. PICK q \in Seq(Games) : q = tx[u].rest /\ q # <<>>
            BY <1>4 DEF TxType
        <3>3. j \in 1..Len(q) /\ q[j] = batch[u][i] /\ Len(q) \in Nat /\ Head(q) = q[1]
            BY <3>1, <3>2
        <3>4. CASE j = 1
            BY <1>2, <1>6, <3>2, <3>3, <3>4 DEF Game
        <3>5. CASE j # 1
            <4>1. /\ j - 1 \in 1..(Len(q) - 1)
                  /\ Len(Tail(q)) = Len(q) - 1 /\ DOMAIN Tail(q) = 1..(Len(q) - 1)
                  /\ Tail(q)[j - 1] = q[j]
                BY <3>2, <3>3, <3>5
            <4>2. QED
                BY <1>6, <3>2, <3>3, <4>1
        <3>6. QED
            BY <3>4, <3>5
    <2>3. QED
        BY <1>9, <2>1, <2>2 DEF UploadInv, Accounted
<1>15. Accounted(u)'
    BY <1>2, <1>6, <1>9, <1>10, <1>14 DEF UploadInv, Accounted, Drafted, Registered
<1>16. Tallies(u)'
    <2>1. Written(u)' = Written(u)
        BY <1>6 DEF Written
    <2>2. QED
        BY <1>6, <1>9, <2>1 DEF UploadInv, Tallies
<1>17. \A h \in Games : Drafted(u, h)' => \A w \in Uploads \ {u} : IsActive(w) => ~Drafted(w, h)
    BY <1>6, <1>9 DEF UploadInv, DraftsAreOwn, Drafted
<1>18. UploadInv(u)'
    BY <1>11, <1>12, <1>13, <1>15, <1>16 DEF UploadInv
<1>19. QED
    BY <1>5, <1>8, <1>10, <1>17, <1>18, QuietStep

\* A match read under its lock is counted as it is committed.
LEMMA LockStep ==
    ASSUME IInv, NEW u \in Uploads, UNCHANGED batch, Lock(u)
    PROVE  IInv'
<1>1. Ranges /\ UploadInv(u) /\ RankedIn(place) /\ ScoresCountGames
    BY DEF IInv
<1>2. PICK m : m = tx[u].target
    OBVIOUS
<1>3. /\ pc[u] = "lock" /\ owner[m] \in {NoUpload, u}
      /\ owner' = [owner EXCEPT ![m] = u]
      /\ UNCHANGED <<row, place>>
    BY <1>2 DEF Lock, LockFree
<1>4. /\ tx[u] \in TxType /\ tx[u].rest # <<>> /\ Game(u) \notin tx[u].known
      /\ m \in Fixture[Game(u)] /\ m \notin tx[u].tracked
    BY <1>1, <1>2, <1>3 DEF UploadInv, Control, Busy, Ranges
<1>5. m \in Matches
    <2>1. tx[u].rest \in Seq(Games)
        BY <1>4 DEF TxType
    <2>2. Game(u) \in Games
        BY <1>4, <2>1 DEF Game
    <2>3. QED
        BY <1>4, <2>2, ImportAssumption
<1>6. /\ owner' \in [Matches -> Uploads \cup {NoUpload}]
      /\ owner'[m] = u
      /\ \A n \in Matches : \/ owner'[n] = owner[n]
                            \/ owner[n] = NoUpload /\ owner'[n] = u
    BY <1>1, <1>3, <1>5 DEF Ranges
<1>7. IsActive(u)
    BY <1>3 DEF IsActive, Active
<1>8. CASE Closed(m)
    <2>1. Goto(u, "recheck") /\ UNCHANGED tx
        BY <1>2, <1>8 DEF Lock
    <2>2. /\ pc'[u] = "recheck" /\ \A w \in Uploads \ {u} : pc'[w] = pc[w]
          /\ pc' \in [Uploads -> {"idle"} \cup Active \cup Ended]
          /\ IsActive(u)'
        BY <1>1, <2>1 DEF Goto, Ranges, Active, IsActive
    <2>3. Control(u)'
        BY <1>4, <2>1, <2>2 DEF Control, Game
    <2>4. QED
        BY <1>1, <1>3, <1>6, <1>7, <2>1, <2>2, <2>3, MovesOn DEF Ranges
<1>9. CASE ~Closed(m)
    <2>1. /\ pc' = [pc EXCEPT ![u] = "insert"]
          /\ tx' = [tx EXCEPT ![u].tracked = @ \cup {m}, ![u].score[m] = row[m].score,
                              ![u].last[m] = HighestNumber(m)]
        BY <1>2, <1>9 DEF Lock, Goto
    <2>2. place \in [Games -> Rows]
        BY <1>1, PlaceFields DEF Ranges
    <2>3. HighestNumber(m) = Cardinality(GamesOf(m, place))
        BY <1>1, <1>5, <2>2, HighestIsCount
    <2>4. HighestNumber(m) \in 0..Cardinality(Games)
        <3>1. GamesOf(m, place) \in SUBSET Games
            BY DEF GamesOf
        <3>2. QED
            BY <2>3, <3>1, GameCount
    <2>5. PICK h \in 0..Cardinality(Games) : h = HighestNumber(m)
        BY <2>4
    <2>6. row[m].score \in Scores /\ row[m].status # "completed"
        BY <1>1, <1>5, <1>9 DEF Ranges, Closed
    <2>7. PICK sc \in Scores : sc = row[m].score
        BY <2>6
    <2>8. /\ tx'[u] = [tx[u] EXCEPT !.tracked = tx[u].tracked \cup {m},
                                    !.score = [tx[u].score EXCEPT ![m] = sc],
                                    !.last = [tx[u].last EXCEPT ![m] = h]]
          /\ pc'[u] = "insert"
          /\ \A w \in Uploads \ {u} : tx'[w] = tx[w] /\ pc'[w] = pc[w]
        BY <1>1, <1>4, <2>1, <2>5, <2>7 DEF Ranges, TxType
    <2>9. /\ tx[u].tracked \cup {m} \in SUBSET Matches
          /\ [tx[u].score EXCEPT ![m] = sc] \in [Matches -> Scores]
          /\ [tx[u].last EXCEPT ![m] = h] \in [Matches -> 0..Cardinality(Games)]
        BY <1>4, <1>5 DEF TxType
    <2>10. tx'[u] \in TxType
        BY <1>4, <2>8, <2>9 DEF TxType
    <2>11. /\ tx'[u].rest = tx[u].rest /\ tx'[u].known = tx[u].known
           /\ tx'[u].target = m /\ tx'[u].draft = tx[u].draft
           /\ tx'[u].skipped = tx[u].skipped
           /\ tx'[u].tracked = tx[u].tracked \cup {m}
           /\ tx'[u].score = [tx[u].score EXCEPT ![m] = sc]
           /\ tx'[u].last = [tx[u].last EXCEPT ![m] = h]
        BY <1>2, <1>4, <2>8 DEF TxType
    <2>12. Ranges'
        BY <1>1, <1>3, <1>6, <2>1, <2>8, <2>10 DEF Ranges, Active
    <2>13. IsActive(u)' /\ pc'[u] # "done" /\ pc[u] # "done"
        BY <1>3, <2>8 DEF IsActive, Active
    <2>14. Control(u)'
        BY <1>4, <2>8, <2>11 DEF Control, Game
    <2>15. Holds(u)'
        BY <1>1, <1>3, <1>6, <1>7, <2>6, <2>11 DEF UploadInv, Holds, Ranges, TxType
    <2>16. DraftsAreOwn(u)'
        BY <1>1, <1>3, <1>7, <2>8, <2>11 DEF UploadInv, DraftsAreOwn, IsActive, Drafted, Registered
    <2>17. Accounted(u)'
        BY <1>1, <1>3, <1>7, <2>11, <2>13 DEF UploadInv, Accounted, Drafted, Registered
    <2>18. Tallies(u)'
        <3>1. PICK W : W = Written(u)
            OBVIOUS
        <3>2. Written(u)' = W
            BY <1>3, <2>11, <3>1 DEF Written
        <3>3. \A g \in Games : W[g].match = m \/ place[g].match = m => W[g] = place[g]
            BY <1>4, <1>5, <1>7, <3>1, WrittenRows
        <3>4. /\ GamesOf(m, W) = GamesOf(m, place)
              /\ \A k : NumberedTo(m, W, k) <=> NumberedTo(m, place, k)
            BY <3>3, SameGames
        <3>5. NumberedTo(m, W, h)
            BY <1>1, <1>5, <2>2, <2>3, <2>5, <3>4, RankedNumbers
        <3>6. \A s \in Sides : sc[s] = Cardinality(Won(m, W, s))
            BY <1>1, <1>5, <2>7, <3>4 DEF ScoresCountGames, Won
        <3>7. ASSUME NEW n \in tx'[u].tracked
              PROVE  /\ NumberedTo(n, W, tx'[u].last[n])
                     /\ \A s \in Sides : tx'[u].score[n][s] = Cardinality(Won(n, W, s))
            <4>1. CASE n = m
                BY <1>4, <1>5, <2>11, <3>5, <3>6, <4>1 DEF TxType
            <4>2. CASE n # m
                <5>1. n \in tx[u].tracked /\ n \in Matches
                    BY <1>4, <2>11, <3>7, <4>2 DEF TxType
                <5>2. /\ NumberedTo(n, W, tx[u].last[n])
                      /\ \A s \in Sides : tx[u].score[n][s] = Cardinality(Won(n, W, s))
                    BY <1>1, <1>7, <3>1, <5>1 DEF UploadInv, Tallies
                <5>3. tx'[u].last[n] = tx[u].last[n] /\ tx'[u].score[n] = tx[u].score[n]
                    BY <1>4, <2>11, <4>2, <5>1 DEF TxType
                <5>4. QED
                    BY <5>2, <5>3
            <4>3. QED
                BY <4>1, <4>2
        <3>8. QED
            BY <3>2, <3>7 DEF Tallies
    <2>19. UploadInv(u)'
        BY <2>14, <2>15, <2>16, <2>17, <2>18 DEF UploadInv
    <2>20. \A g \in Games : Drafted(u, g)' =>
                \A w \in Uploads \ {u} : IsActive(w) => ~Drafted(w, g)
        BY <1>1, <1>7, <2>11 DEF UploadInv, DraftsAreOwn, Drafted
    <2>21. \A n \in Matches : owner[n] # u => owner'[n] = owner[n] \/ owner[n] = NoUpload
        BY <1>6
    <2>22. QED
        BY <1>3, <2>8, <2>12, <2>13, <2>19, <2>20, <2>21, QuietStep
<1>10. QED
    BY <1>8, <1>9

\* V is W with one more game in m: the next number, and a point for the side
\* that won it.
Extends(V, W, m, g, k) == V = [W EXCEPT ![g] = [match |-> m, number |-> k + 1]]

OneMore(V, W, m, g, k) ==
    /\ NumberedTo(m, V, k + 1)
    /\ \A s \in Sides : Cardinality(Won(m, V, s)) =
          Cardinality(Won(m, W, s)) + IF Winner[g] = s THEN 1 ELSE 0
    /\ \A n \in Matches \ {m} :
          /\ \A j : NumberedTo(n, V, j) <=> NumberedTo(n, W, j)
          /\ \A s : Won(n, V, s) = Won(n, W, s)

LEMMA OneMoreGame ==
    ASSUME NEW V, NEW W, NEW m \in Matches, NEW g \in Games, NEW k \in Nat,
           W \in [Games -> Rows], W[g] = Nowhere, NumberedTo(m, W, k),
           Extends(V, W, m, g, k)
    PROVE  OneMore(V, W, m, g, k)
<1>1. /\ V[g] = [match |-> m, number |-> k + 1]
      /\ \A h \in Games \ {g} : V[h] = W[h]
      /\ W[g].match = NoMatch /\ NoMatch \notin Matches
    BY ImportAssumption DEF Nowhere, Extends
<1>2. PICK S : S = GamesOf(m, W)
    OBVIOUS
<1>3. S \in SUBSET Games /\ g \notin S /\ GamesOf(m, V) = S \cup {g}
    BY <1>1, <1>2 DEF GamesOf
<1>4. IsFiniteSet(S) /\ Cardinality(S) = k
    BY <1>2, GamesFinite DEF NumberedTo
<1>5. Cardinality(S \cup {g}) = k + 1
    BY <1>3, <1>4, FS_AddElement
<1>6. {V[h].number : h \in S \cup {g}} = 1..(k + 1)
    <2>1. {W[h].number : h \in S} = 1..k
        BY <1>2 DEF NumberedTo
    <2>2. {V[h].number : h \in S} = {W[h].number : h \in S}
        BY <1>1, <1>3
    <2>3. {V[h].number : h \in S \cup {g}} = {V[h].number : h \in S} \cup {V[g].number}
        OBVIOUS
    <2>4. V[g].number = k + 1
        BY <1>1
    <2>5. 1..(k + 1) = (1..k) \cup {k + 1}
        OBVIOUS
    <2>6. QED
        BY <2>1, <2>2, <2>3, <2>4, <2>5
<1>7. NumberedTo(m, V, k + 1)
    BY <1>3, <1>5, <1>6 DEF NumberedTo
<1>8. ASSUME NEW s \in Sides
      PROVE  Cardinality(Won(m, V, s)) =
                 Cardinality(Won(m, W, s)) + IF Winner[g] = s THEN 1 ELSE 0
    <2>1. Won(m, W, s) \in SUBSET Games /\ g \notin Won(m, W, s)
        BY <1>2, <1>3 DEF Won
    <2>2. IsFiniteSet(Won(m, W, s)) /\ Cardinality(Won(m, W, s)) \in Nat
        BY <2>1, GameCount
    <2>3. CASE Winner[g] = s
        <3>1. Won(m, V, s) = Won(m, W, s) \cup {g}
            BY <1>2, <1>3, <2>3 DEF Won
        <3>2. QED
            BY <2>1, <2>2, <2>3, <3>1, FS_AddElement
    <2>4. CASE Winner[g] # s
        <3>1. Won(m, V, s) = Won(m, W, s)
            BY <1>2, <1>3, <2>4 DEF Won
        <3>2. QED
            BY <2>2, <2>4, <3>1
    <2>5. QED
        BY <2>3, <2>4
<1>9. ASSUME NEW n \in Matches \ {m}
      PROVE  /\ \A j : NumberedTo(n, V, j) <=> NumberedTo(n, W, j)
             /\ \A s : Won(n, V, s) = Won(n, W, s)
    <2>1. \A h \in Games : V[h].match = n \/ W[h].match = n => V[h] = W[h]
        BY <1>1
    <2>2. /\ GamesOf(n, V) = GamesOf(n, W)
          /\ \A j : NumberedTo(n, V, j) <=> NumberedTo(n, W, j)
        BY <2>1, SameGames
    <2>3. QED
        BY <2>2 DEF Won
<1>10. QED
    BY <1>7, <1>8, <1>9 DEF OneMore

\* A new game takes the next number of its match.
LEMMA InsertNewStep ==
    ASSUME IInv, NEW u \in Uploads, UNCHANGED batch, Insert(u), ~AlreadyThere(Game(u))
    PROVE  IInv'
<1>1. Ranges /\ UploadInv(u) /\ RankedIn(place)
    BY DEF IInv
<1>2. pc[u] = "insert" /\ IsActive(u) /\ UNCHANGED <<row, place, owner>>
    BY DEF Insert, IsActive, Active
<1>3. PICK m : m = tx[u].target
    OBVIOUS
<1>4. tx[u] \in TxType /\ tx[u].rest # <<>> /\ Game(u) \notin tx[u].known
      /\ m \in Fixture[Game(u)] /\ m \in tx[u].tracked
    BY <1>1, <1>2, <1>3 DEF UploadInv, Control, Busy, Ranges
<1>5. PICK g \in Games : g = Game(u)
    <2>1. tx[u].rest \in Seq(Games)
        BY <1>4 DEF TxType
    <2>2. QED
        BY <1>4, <2>1 DEF Game
<1>6. m \in Matches /\ ~Registered(g) /\ Conflicting(u, g) = {}
    BY <1>3, <1>4, <1>5 DEF TxType, Insert, AlreadyThere
<1>7. PICK k \in 0..Cardinality(Games) : k = tx[u].last[m]
    BY <1>4, <1>6 DEF TxType
<1>8. k \in Nat
    BY GameCount
<1>9. PICK side \in Sides : side = Winner[g]
    BY ImportAssumption DEF Sides
<1>10. PICK new : new = [match |-> m, number |-> k + 1]
    OBVIOUS
<1>11. /\ tx' = [tx EXCEPT ![u].rest = Tail(@), ![u].known = @ \cup {g},
                           ![u].draft[g] = new, ![u].last[m] = k + 1,
                           ![u].score[m][side] = @ + 1]
       /\ pc' = [pc EXCEPT ![u] = "next"]
    BY <1>3, <1>5, <1>7, <1>9, <1>10 DEF Insert, AlreadyThere, NextNumber, Goto
<1>12. PICK W : W = Written(u)
    OBVIOUS
<1>13. /\ W \in [Games -> Rows]
       /\ \A h \in Games : W[h] # Nowhere => W[h].match \in Fixture[h]
       /\ \A h \in Games : W[h] = IF Drafted(u, h) THEN tx[u].draft[h] ELSE place[h]
    BY <1>2, <1>12, WrittenRows
<1>14. ~Drafted(u, g) /\ W[g] = Nowhere
    BY <1>1, <1>2, <1>4, <1>5, <1>6, <1>13 DEF UploadInv, DraftsAreOwn, Registered
<1>15. PICK V : V = [W EXCEPT ![g] = new]
    OBVIOUS
<1>16. NumberedTo(m, W, k)
    BY <1>1, <1>2, <1>4, <1>7, <1>12 DEF UploadInv, Tallies
<1>17. /\ NumberedTo(m, V, k + 1)
       /\ \A s \in Sides : Cardinality(Won(m, V, s)) =
             Cardinality(Won(m, W, s)) + IF Winner[g] = s THEN 1 ELSE 0
       /\ \A n \in Matches \ {m} :
             /\ \A j : NumberedTo(n, V, j) <=> NumberedTo(n, W, j)
             /\ \A s : Won(n, V, s) = Won(n, W, s)
    <2>1. Extends(V, W, m, g, k)
        BY <1>10, <1>15 DEF Extends
    <2>2. W \in [Games -> Rows]
        BY <1>13
    <2>3. W[g] = Nowhere
        BY <1>14
    <2>4. OneMore(V, W, m, g, k)
        BY <1>6, <1>8, <1>16, <2>1, <2>2, <2>3, OneMoreGame
    <2>5. QED
        BY <2>4 DEF OneMore
<1>18. new # Nowhere /\ new.match = m
    BY <1>6, <1>10, ImportAssumption DEF Nowhere
<1>19. new \in Rows
    BY <1>6, <1>8, <1>10 DEF Rows
<1>20. V \in [Games -> Rows] /\ \A h \in Games : V[h] # Nowhere => V[h].match \in Fixture[h]
    BY <1>4, <1>5, <1>13, <1>15, <1>18, <1>19
<1>21. new \in Places /\ k + 1 \in 0..Cardinality(Games)
    <2>1. /\ GamesOf(m, V) \in SUBSET Playable(m)
          /\ Playable(m) \in SUBSET Games
        BY <1>6, <1>20, GamesArePlayable
    <2>2. /\ Cardinality(GamesOf(m, V)) <= Cardinality(Playable(m))
          /\ Cardinality(Playable(m)) <= Cardinality(Games)
          /\ Cardinality(Playable(m)) \in Nat /\ Cardinality(Games) \in Nat
        BY <2>1, GameCount
    <2>3. k + 1 = Cardinality(GamesOf(m, V))
        BY <1>17 DEF NumberedTo
    <2>4. k + 1 \in Nat /\ k + 1 >= 1 /\ k + 1 <= Cardinality(Playable(m))
        BY <1>8, <2>2, <2>3
    <2>5. new \in Places
        BY <1>6, <1>10, <2>4, PlaceFields
    <2>6. QED
        BY <2>2, <2>4, <2>5
<1>22. PICK sc : sc = [tx[u].score[m] EXCEPT ![side] = @ + 1]
    OBVIOUS
<1>23. tx[u].score[m] \in Scores /\ \A s \in Sides : tx[u].score[m][s] = Cardinality(Won(m, W, s))
    BY <1>1, <1>2, <1>4, <1>6, <1>12 DEF UploadInv, Tallies, TxType
<1>24. \A s \in Sides : sc[s] = Cardinality(Won(m, V, s))
    <2>1. SUFFICES ASSUME NEW s \in Sides
                   PROVE  sc[s] = Cardinality(Won(m, V, s))
        OBVIOUS
    <2>2. tx[u].score[m] \in [Sides -> Nat]
        BY <1>23, GameCount DEF Scores
    <2>3. sc[s] = tx[u].score[m][s] + IF side = s THEN 1 ELSE 0
        BY <1>22, <2>2
    <2>4. QED
        BY <1>9, <1>17, <1>23, <2>3
<1>25. sc \in Scores
    <2>1. sc \in [Sides -> Nat]
        BY <1>22, <1>23, GameCount DEF Scores
    <2>2. ASSUME NEW s \in Sides
          PROVE  sc[s] \in 0..Cardinality(Games)
        <3>1. Won(m, V, s) \in SUBSET Games
            BY DEF Won, GamesOf
        <3>2. QED
            BY <1>24, <3>1, GameCount
    <2>3. QED
        BY <2>1, <2>2 DEF Scores
<1>26. /\ tx'[u] = [tx[u] EXCEPT !.rest = Tail(tx[u].rest), !.known = tx[u].known \cup {g},
                                 !.draft = [tx[u].draft EXCEPT ![g] = new],
                                 !.last = [tx[u].last EXCEPT ![m] = k + 1],
                                 !.score = [tx[u].score EXCEPT ![m] = sc]]
       /\ pc'[u] = "next"
       /\ \A w \in Uploads \ {u} : tx'[w] = tx[w] /\ pc'[w] = pc[w]
    BY <1>1, <1>4, <1>11, <1>22 DEF Ranges, TxType
<1>27. /\ Tail(tx[u].rest) \in Seq(Games)
       /\ tx[u].known \cup {g} \in SUBSET Games
       /\ [tx[u].draft EXCEPT ![g] = new] \in [Games -> Places]
       /\ [tx[u].last EXCEPT ![m] = k + 1] \in [Matches -> 0..Cardinality(Games)]
       /\ [tx[u].score EXCEPT ![m] = sc] \in [Matches -> Scores]
    <2>1. tx[u].rest \in Seq(Games) /\ tx[u].known \in SUBSET Games
        BY <1>4 DEF TxType
    <2>2. tx[u].draft \in [Games -> Places]
          /\ tx[u].last \in [Matches -> 0..Cardinality(Games)]
          /\ tx[u].score \in [Matches -> Scores]
        BY <1>4 DEF TxType
    <2>3. Tail(tx[u].rest) \in Seq(Games) /\ tx[u].known \cup {g} \in SUBSET Games
        BY <1>4, <2>1
    <2>4. QED
        BY <1>21, <1>25, <2>2, <2>3
<1>28. tx'[u] \in TxType
    BY <1>4, <1>26, <1>27 DEF TxType
<1>29. /\ tx'[u].rest = Tail(tx[u].rest) /\ tx'[u].known = tx[u].known \cup {g}
       /\ tx'[u].draft = [tx[u].draft EXCEPT ![g] = new]
       /\ tx'[u].last = [tx[u].last EXCEPT ![m] = k + 1]
       /\ tx'[u].score = [tx[u].score EXCEPT ![m] = sc]
       /\ tx'[u].tracked = tx[u].tracked /\ tx'[u].skipped = tx[u].skipped
    BY <1>4, <1>26 DEF TxType
<1>30. \A h \in Games : /\ tx'[u].draft[h] = IF h = g THEN new ELSE tx[u].draft[h]
                        /\ Drafted(u, h)' <=> (h = g \/ Drafted(u, h))
    <2>1. \A h \in Games : tx'[u].draft[h] = IF h = g THEN new ELSE tx[u].draft[h]
        BY <1>4, <1>29 DEF TxType
    <2>2. QED
        BY <1>18, <2>1 DEF Drafted
<1>31. Ranges'
    BY <1>1, <1>2, <1>11, <1>26, <1>28 DEF Ranges, Active
<1>32. IsActive(u)' /\ pc'[u] # "done" /\ pc[u] # "done"
    BY <1>2, <1>26 DEF IsActive, Active
<1>33. Control(u)'
    BY <1>26 DEF Control, Busy
<1>34. Holds(u)'
    BY <1>1, <1>2, <1>29 DEF UploadInv, Holds
<1>35. \A w \in Uploads \ {u} : IsActive(w) => ~Drafted(w, g)
    BY <1>6 DEF Conflicting, IsActive, Drafted
<1>36. DraftsAreOwn(u)'
    <2>1. ASSUME NEW h \in Games, Drafted(u, h)'
          PROVE  /\ tx'[u].draft[h].match \in tx'[u].tracked \cap Fixture[h]
                 /\ ~Registered(h)
                 /\ h \in tx'[u].known
                 /\ \A w \in Uploads \ {u} : IsActive(w) => ~Drafted(w, h)
        <3>1. CASE h = g
            BY <1>4, <1>5, <1>6, <1>18, <1>29, <1>30, <1>35, <3>1
        <3>2. CASE h # g
            BY <1>1, <1>2, <1>29, <1>30, <2>1, <3>2 DEF UploadInv, DraftsAreOwn, Drafted
        <3>3. QED
            BY <3>1, <3>2
    <2>2. QED
        BY <1>2, <1>26, <2>1 DEF DraftsAreOwn, IsActive, Registered, Drafted
<1>37. ASSUME NEW i \in DOMAIN batch[u]
       PROVE  \/ batch[u][i] \in tx'[u].skipped \/ Drafted(u, batch[u][i])'
              \/ \E j \in DOMAIN tx'[u].rest : tx'[u].rest[j] = batch[u][i]
    <2>1. batch[u][i] \in Games
        BY <1>1 DEF Ranges
    <2>2. CASE batch[u][i] \in tx[u].skipped \/ Drafted(u, batch[u][i])
        BY <1>29, <1>30, <2>1, <2>2
    <2>3. CASE \E j \in DOMAIN tx[u].rest : tx[u].rest[j] = batch[u][i]
        <3>1. PICK j \in DOMAIN tx[u].rest : tx[u].rest[j] = batch[u][i]
            BY <2>3
        <3>2. PICK q \in Seq(Games) : q = tx[u].rest /\ q # <<>>
            BY <1>4 DEF TxType
        <3>3. j \in 1..Len(q) /\ q[j] = batch[u][i] /\ Len(q) \in Nat /\ Head(q) = q[1]
            BY <3>1, <3>2
        <3>4. CASE j = 1
            BY <1>5, <1>30, <2>1, <3>2, <3>3, <3>4 DEF Game
        <3>5. CASE j # 1
            <4>1. /\ j - 1 \in 1..(Len(q) - 1)
                  /\ Len(Tail(q)) = Len(q) - 1 /\ DOMAIN Tail(q) = 1..(Len(q) - 1)
                  /\ Tail(q)[j - 1] = q[j]
                BY <3>2, <3>3, <3>5
            <4>2. QED
                BY <1>29, <3>2, <3>3, <4>1
        <3>6. QED
            BY <3>4, <3>5
    <2>4. QED
        BY <1>1, <1>2, <2>2, <2>3 DEF UploadInv, Accounted
<1>38. Accounted(u)'
    <2>1. \A h \in tx'[u].known : Registered(h) \/ Drafted(u, h)'
        BY <1>1, <1>2, <1>4, <1>29, <1>30 DEF UploadInv, Accounted, TxType
    <2>2. \A h \in tx'[u].skipped : h \in tx'[u].known
        BY <1>1, <1>2, <1>29 DEF UploadInv, Accounted
    <2>3. QED
        BY <1>2, <1>32, <1>37, <2>1, <2>2 DEF Accounted, Registered
<1>39. Written(u)' = V
    <2>1. Written(u)' = [h \in Games |-> IF tx'[u].draft[h] # Nowhere THEN tx'[u].draft[h]
                                         ELSE place[h]]
        BY <1>2 DEF Written
    <2>2. \A h \in Games : V[h] = IF tx'[u].draft[h] # Nowhere THEN tx'[u].draft[h] ELSE place[h]
        BY <1>13, <1>14, <1>15, <1>18, <1>30 DEF Drafted
    <2>3. V = [h \in Games |-> V[h]]
        BY <1>20
    <2>4. QED
        BY <2>1, <2>2, <2>3
<1>40. Tallies(u)'
    <2>1. ASSUME NEW n \in tx'[u].tracked
          PROVE  /\ NumberedTo(n, V, tx'[u].last[n])
                 /\ \A s \in Sides : tx'[u].score[n][s] = Cardinality(Won(n, V, s))
        <3>1. n \in tx[u].tracked /\ n \in Matches
            BY <1>4, <1>29 DEF TxType
        <3>2. CASE n = m
            BY <1>4, <1>6, <1>17, <1>24, <1>29, <3>2 DEF TxType
        <3>3. CASE n # m
            <4>1. /\ NumberedTo(n, W, tx[u].last[n])
                  /\ \A s \in Sides : tx[u].score[n][s] = Cardinality(Won(n, W, s))
                BY <1>1, <1>2, <1>12, <3>1 DEF UploadInv, Tallies
            <4>2. tx'[u].last[n] = tx[u].last[n] /\ tx'[u].score[n] = tx[u].score[n]
                BY <1>4, <1>29, <3>1, <3>3 DEF TxType
            <4>3. QED
                BY <1>17, <3>1, <3>3, <4>1, <4>2
        <3>4. QED
            BY <3>2, <3>3
    <2>2. QED
        BY <1>39, <2>1 DEF Tallies
<1>41. UploadInv(u)'
    BY <1>33, <1>34, <1>36, <1>38, <1>40 DEF UploadInv
<1>42. \A h \in Games : Drafted(u, h)' =>
           \A w \in Uploads \ {u} : IsActive(w) => ~Drafted(w, h)
    BY <1>1, <1>2, <1>30, <1>35 DEF UploadInv, DraftsAreOwn
<1>43. QED
    BY <1>2, <1>26, <1>31, <1>32, <1>41, <1>42, QuietStep

-----------------------------------------------------------------------------
(* The commit.                                                             *)

\* A commit places the rows of its upload, in order, and leaves the matches it
\* does not track as they were.
LEMMA CommitPlaces ==
    ASSUME IInv, NEW u \in Uploads, Commit(u)
    PROVE  /\ place' \in [Games -> Rows]
           /\ RankedIn(place')
           /\ \A g \in Games : place'[g].match = Written(u)[g].match
           /\ \A g \in Games : place'[g] # Nowhere <=> Registered(g) \/ Drafted(u, g)
           /\ \A m : GamesOf(m, place') = GamesOf(m, Written(u))
           /\ \A m \in Matches \ tx[u].tracked, g \in Games :
                 place[g].match = m \/ place'[g].match = m => place'[g] = place[g]
<1>1. Ranges /\ UploadInv(u) /\ RankedIn(place)
    BY DEF IInv
<1>2. IsActive(u) /\ place' = InOrder(Written(u))
    BY DEF Commit, IsActive, Active
<1>3. PICK W : W = Written(u)
    OBVIOUS
<1>4. place \in [Games -> Rows]
    BY <1>1, PlaceFields DEF Ranges
<1>5. /\ W \in [Games -> Rows]
      /\ \A g \in Games : W[g] = IF Drafted(u, g) THEN tx[u].draft[g] ELSE place[g]
      /\ \A g \in Games : W[g] # Nowhere => W[g].match \in Fixture[g]
      /\ \A m \in Matches \ tx[u].tracked, g \in Games :
            W[g].match = m \/ place[g].match = m => W[g] = place[g]
    BY <1>2, <1>3, WrittenRows
<1>6. ASSUME NEW m \in Matches \ tx[u].tracked
      PROVE  /\ GamesOf(m, W) = GamesOf(m, place)
             /\ NumberedTo(m, W, Cardinality(GamesOf(m, place)))
    <2>1. \A g \in Games : W[g].match = m \/ place[g].match = m => W[g] = place[g]
        BY <1>5
    <2>2. /\ GamesOf(m, W) = GamesOf(m, place)
          /\ \A k : NumberedTo(m, W, k) <=> NumberedTo(m, place, k)
        BY <2>1, SameGames
    <2>3. NumberedTo(m, place, Cardinality(GamesOf(m, place)))
        BY <1>1, <1>4, RankedNumbers
    <2>4. QED
        BY <2>2, <2>3
<1>7. ASSUME NEW m \in tx[u].tracked
      PROVE  NumberedTo(m, W, tx[u].last[m])
    BY <1>1, <1>2, <1>3 DEF UploadInv, Tallies
<1>8. \A m \in Matches : \E k : NumberedTo(m, W, k)
    BY <1>6, <1>7
<1>9. /\ place' \in [Games -> Rows]
      /\ \A g \in Games : place'[g].match = W[g].match
      /\ \A g \in Games : place'[g] = Nowhere <=> W[g] = Nowhere
      /\ \A m : GamesOf(m, place') = GamesOf(m, W)
      /\ RankedIn(place')
    BY <1>2, <1>3, <1>5, <1>8, InOrderRanked
<1>10. \A g \in Games : place'[g] # Nowhere <=> Registered(g) \/ Drafted(u, g)
    BY <1>5, <1>9 DEF Registered, Drafted
<1>11. ASSUME NEW m \in Matches \ tx[u].tracked, NEW g \in Games,
              place[g].match = m \/ place'[g].match = m
       PROVE  place'[g] = place[g]
    <2>1. W[g] = place[g] /\ place[g].match = m /\ place'[g].match = m
        BY <1>5, <1>9, <1>11
    <2>2. place[g] # Nowhere /\ place'[g] # Nowhere
        BY <2>1, ImportAssumption DEF Nowhere
    <2>3. GamesOf(m, place') = GamesOf(m, place)
        BY <1>6, <1>9
    <2>4. place[g].number = place'[g].number
        BY <1>1, <1>9, <2>1, <2>2, <2>3 DEF RankedIn
    <2>5. /\ place[g] = [match |-> place[g].match, number |-> place[g].number]
          /\ place'[g] = [match |-> place'[g].match, number |-> place'[g].number]
        BY <1>4, <1>9, RowFields
    <2>6. QED
        BY <2>1, <2>4, <2>5
<1>12. QED
    BY <1>3, <1>9, <1>10, <1>11

LEMMA CommitStep ==
    ASSUME IInv, NEW u \in Uploads, UNCHANGED batch, Commit(u)
    PROVE  IInv'
<1>1. Ranges /\ UploadInv(u) /\ RankedIn(place) /\ ScoresCountGames /\ OneClaim
    BY DEF IInv
<1>2. /\ pc[u] = "next" /\ IsActive(u) /\ tx[u].rest = <<>>
      /\ UNCHANGED tx
      /\ pc' = [pc EXCEPT ![u] = "done"]
      /\ owner' = [m \in Matches |-> IF owner[m] = u THEN NoUpload ELSE owner[m]]
      /\ row' = [m \in Matches |->
                   IF m \in tx[u].tracked THEN Scored(tx[u].score[m], m) ELSE row[m]]
    BY DEF Commit, IsActive, Active, Goto, Release
<1>3. pc'[u] = "done" /\ \A w \in Uploads \ {u} : pc'[w] = pc[w]
    BY <1>1, <1>2 DEF Ranges
<1>4. /\ place' \in [Games -> Rows]
      /\ RankedIn(place')
      /\ \A g \in Games : place'[g].match = Written(u)[g].match
      /\ \A g \in Games : place'[g] # Nowhere <=> Registered(g) \/ Drafted(u, g)
      /\ \A m : GamesOf(m, place') = GamesOf(m, Written(u))
      /\ \A m \in Matches \ tx[u].tracked, g \in Games :
            place[g].match = m \/ place'[g].match = m => place'[g] = place[g]
    BY CommitPlaces
<1>5. tx[u] \in TxType
    BY <1>1 DEF Ranges
<1>6. Ranges'
    <2>1. place' \in [Games -> Places]
        BY <1>4, RankedPlaces
    <2>2. ASSUME NEW m \in tx[u].tracked
          PROVE  Scored(tx[u].score[m], m) \in
                    [status : Open \cup {"completed", "forfeit"}, score : Scores,
                     winner : {0, 1, 2}]
        BY <1>5 DEF Scored, Open, TxType
    <2>3. row' \in [Matches -> [status : Open \cup {"completed", "forfeit"},
                                score : Scores, winner : {0, 1, 2}]]
        BY <1>1, <1>2, <2>2 DEF Ranges
    <2>4. QED
        BY <1>1, <1>2, <2>1, <2>3 DEF Ranges, Ended
<1>7. \A g \in Games : Registered(g)' <=> Registered(g) \/ Drafted(u, g)
    BY <1>4 DEF Registered
<1>8. UploadInv(u)'
    <2>1. ~IsActive(u)'
        BY <1>3 DEF IsActive, Active
    <2>2. Control(u)'
        BY <1>2, <1>3 DEF Control, Busy
    <2>3. Accounted(u)'
        <3>1. /\ \A g \in tx[u].known : Registered(g)' \/ Drafted(u, g)
              /\ \A g \in tx[u].skipped : g \in tx[u].known
              /\ \A g \in Games : Drafted(u, g) => Registered(g)'
            BY <1>1, <1>2, <1>5, <1>7 DEF UploadInv, Accounted, TxType
        <3>2. \A i \in DOMAIN batch[u] :
                  \/ batch[u][i] \in tx[u].skipped \/ Drafted(u, batch[u][i])
                  \/ \E j \in DOMAIN tx[u].rest : tx[u].rest[j] = batch[u][i]
            BY <1>1, <1>2 DEF UploadInv, Accounted
        <3>3. QED
            BY <1>2, <3>1, <3>2 DEF Accounted, Drafted
    <2>4. QED
        BY <2>1, <2>2, <2>3 DEF UploadInv, Holds, DraftsAreOwn, Tallies
<1>9. ASSUME NEW v \in Uploads \ {u}
      PROVE  UploadInv(v)'
    <2>1. UploadInv(v) /\ pc'[v] = pc[v] /\ tx'[v] = tx[v] /\ tx[v] \in TxType
        BY <1>1, <1>2, <1>3 DEF IInv, Ranges
    <2>2. ASSUME IsActive(v), NEW m \in tx[v].tracked
          PROVE  owner[m] = v /\ m \in Matches /\ m \notin tx[u].tracked
        BY <1>1, <1>2, <2>1, <2>2 DEF UploadInv, Holds, TxType
    <2>3. Control(v)'
        BY <2>1 DEF UploadInv, Control, Game
    <2>4. Holds(v)'
        BY <1>2, <2>1, <2>2 DEF UploadInv, Holds, IsActive
    <2>5. DraftsAreOwn(v)'
        <3>1. ASSUME IsActive(v), NEW g \in Games, Drafted(v, g)
              PROVE  ~Registered(g)'
            BY <1>2, <1>7, <2>1, <3>1 DEF UploadInv, DraftsAreOwn
        <3>2. \A w \in Uploads : IsActive(w)' => IsActive(w)
            BY <1>2, <1>3 DEF IsActive
        <3>3. QED
            BY <1>2, <2>1, <3>1, <3>2 DEF UploadInv, DraftsAreOwn, IsActive, Drafted
    <2>6. Accounted(v)'
        <3>1. \A g \in Games : Registered(g) => Registered(g)'
            BY <1>7
        <3>2. tx[v].known \in SUBSET Games
            BY <2>1 DEF TxType
        <3>3. QED
            BY <1>2, <2>1, <3>1, <3>2 DEF UploadInv, Accounted, IsActive, Drafted
    <2>7. Tallies(v)'
        <3>1. ASSUME IsActive(v), NEW m \in tx[v].tracked
              PROVE  /\ NumberedTo(m, Written(v)', tx[v].last[m])
                     /\ \A s \in Sides : tx[v].score[m][s] = Cardinality(Won(m, Written(v)', s))
            <4>1. PICK A, B : A = Written(v)' /\ B = Written(v)
                OBVIOUS
            <4>2. \A g \in Games : /\ B[g] = IF Drafted(v, g) THEN tx[v].draft[g] ELSE place[g]
                                   /\ A[g] = IF Drafted(v, g) THEN tx[v].draft[g] ELSE place'[g]
                BY <2>1, <4>1 DEF Written, Drafted
            <4>3. \A g \in Games : A[g].match = m \/ B[g].match = m => A[g] = B[g]
                BY <1>4, <2>2, <3>1, <4>2
            <4>4. /\ GamesOf(m, A) = GamesOf(m, B)
                  /\ \A k : NumberedTo(m, A, k) <=> NumberedTo(m, B, k)
                BY <4>3, SameGames
            <4>5. /\ NumberedTo(m, B, tx[v].last[m])
                  /\ \A s \in Sides : tx[v].score[m][s] = Cardinality(Won(m, B, s))
                BY <2>1, <3>1, <4>1 DEF UploadInv, Tallies
            <4>6. \A s \in Sides : Won(m, A, s) = Won(m, B, s)
                BY <4>4 DEF Won
            <4>7. QED
                BY <4>1, <4>4, <4>5, <4>6
        <3>2. QED
            BY <2>1, <3>1 DEF Tallies, IsActive
    <2>8. QED
        BY <2>3, <2>4, <2>5, <2>6, <2>7 DEF UploadInv
<1>10. OneClaim'
    <2>1. ASSUME NEW v \in Uploads \ {u}, pc[v] = "done", NEW g \in Games,
                 Drafted(u, g), Drafted(v, g)
          PROVE  FALSE
        <3>1. Registered(g)
            BY <2>1 DEF IInv, UploadInv, Accounted
        <3>2. QED
            BY <1>1, <1>2, <2>1, <3>1 DEF UploadInv, DraftsAreOwn
    <2>2. QED
        BY <1>1, <1>2, <1>3, <2>1 DEF OneClaim, Drafted
<1>11. ScoresCountGames'
    <2>1. ASSUME NEW m \in Matches, NEW s \in Sides
          PROVE  row'[m].score[s] = Cardinality({g \in GamesOf(m, place') : Winner[g] = s})
        <3>1. CASE m \in tx[u].tracked
            <4>1. row'[m].score = tx[u].score[m]
                BY <1>2, <3>1 DEF Scored
            <4>2. tx[u].score[m][s] = Cardinality(Won(m, Written(u), s))
                BY <1>1, <1>2, <3>1 DEF UploadInv, Tallies
            <4>3. Won(m, Written(u), s) = {g \in GamesOf(m, place') : Winner[g] = s}
                BY <1>4 DEF Won
            <4>4. QED
                BY <4>1, <4>2, <4>3
        <3>2. CASE m \notin tx[u].tracked
            <4>1. row'[m] = row[m]
                BY <1>2, <3>2
            <4>2. \A g \in Games : place'[g].match = m \/ place[g].match = m => place'[g] = place[g]
                BY <1>4, <3>2
            <4>3. GamesOf(m, place') = GamesOf(m, place)
                BY <4>2, SameGames
            <4>4. QED
                BY <1>1, <4>1, <4>3 DEF ScoresCountGames
        <3>3. QED
            BY <3>1, <3>2
    <2>2. QED
        BY <2>1 DEF ScoresCountGames
<1>12. RankedIn(place)'
    BY <1>4 DEF RankedIn
<1>13. \A v \in Uploads : UploadInv(v)'
    BY <1>8, <1>9
<1>14. QED
    BY <1>6, <1>10, <1>11, <1>12, <1>13 DEF IInv

-----------------------------------------------------------------------------
(* The theorems.                                                           *)

LEMMA IInvInit == Init => IInv
<1> SUFFICES ASSUME Init
             PROVE  IInv
    OBVIOUS
<1>1. \A g \in Games : ~Registered(g) /\ place[g] = Nowhere
    BY DEF Init, Registered
<1>2. \A u \in Uploads : pc[u] = "idle" /\ tx[u] = Fresh
    BY DEF Init
<1>3. ZeroScore \in Scores
    BY GameCount DEF ZeroScore, Scores
<1>4. Ranges
    <2>1. row \in [Matches -> [status : Open \cup {"completed", "forfeit"}, score : Scores,
                               winner : {0, 1, 2}]]
        BY <1>3 DEF Init, Open
    <2>2. place \in [Games -> Places] /\ tx \in [Uploads -> TxType]
        BY PlaceFields, FreshType DEF Init
    <2>3. batch \in [Uploads -> Seq(Games)]
        BY ImportAssumption DEF Init
    <2>4. QED
        BY <2>1, <2>2, <2>3 DEF Init, Ranges
<1>5. ASSUME NEW u \in Uploads
      PROVE  UploadInv(u)
    BY <1>2 DEF UploadInv, Control, Holds, DraftsAreOwn, Accounted, Tallies, IsActive, Active, Busy
<1>6. OneClaim
    BY <1>2 DEF OneClaim
<1>7. RankedIn(place)
    BY <1>1 DEF RankedIn
<1>8. ScoresCountGames
    <2>1. ASSUME NEW m \in Matches, NEW s \in Sides
          PROVE  row[m].score[s] = Cardinality({g \in GamesOf(m, place) : Winner[g] = s})
        <3>1. {g \in GamesOf(m, place) : Winner[g] = s} = {}
            <4>1. m # NoMatch
                BY ImportAssumption
            <4>2. \A g \in Games : place[g].match = NoMatch
                BY <1>1 DEF Nowhere
            <4>3. GamesOf(m, place) = {}
                BY <4>1, <4>2 DEF GamesOf
            <4>4. QED
                BY <4>3
        <3>2. row[m].score[s] = 0
            BY DEF Init, ZeroScore
        <3>3. QED
            BY <3>1, <3>2, FS_EmptySet
    <2>2. QED
        BY <2>1 DEF ScoresCountGames
<1>9. QED
    BY <1>4, <1>5, <1>6, <1>7, <1>8 DEF IInv

LEMMA IInvStep ==
    ASSUME IInv, [Next]_vars
    PROVE  IInv'
<1>1. ASSUME NEW u \in Uploads, Statement(u) \/ Fail(u), UNCHANGED batch
      PROVE  IInv'
    <2>1. UploadInv(u) /\ Ranges
        BY DEF IInv
    <2>2. CASE Begin(u)
        BY <1>1, <2>2, BeginStep
    <2>3. CASE SkipKnown(u)
        <3>1. IsActive(u)
            BY <2>3 DEF SkipKnown, IsActive, Active
        <3>2. Registered(Game(u)) \/ Drafted(u, Game(u))
            BY <2>1, <2>3, <3>1 DEF SkipKnown, UploadInv, Accounted
        <3>3. QED
            BY <1>1, <2>3, <3>1, <3>2, SkipStep DEF SkipKnown
    <2>4. CASE FindOpen(u)
        BY <1>1, <2>4, ChooseStep DEF FindOpen
    <2>5. CASE FindNoneOpen(u)
        BY <1>1, <2>5, GotoStep DEF FindNoneOpen
    <2>6. CASE SearchWeek(u)
        <3>1. pc[u] = "search" /\ tx[u].rest # <<>> /\ Game(u) \notin tx[u].known
            BY <2>1, <2>6 DEF SearchWeek, UploadInv, Control, Busy
        <3>2. Game(u) \in Games
            <4>1. tx[u].rest \in Seq(Games)
                BY <2>1 DEF Ranges, TxType
            <4>2. QED
                BY <3>1, <4>1 DEF Game
        <3>3. Closest[Game(u)] \in Fixture[Game(u)]
            BY <2>6, <3>2, ImportAssumption DEF SearchWeek
        <3>4. CASE row[Closest[Game(u)]].status = "completed"
            BY <1>1, <2>6, <3>1, <3>4, GotoStep DEF SearchWeek
        <3>5. CASE row[Closest[Game(u)]].status # "completed"
            BY <1>1, <2>6, <3>1, <3>3, <3>5, ChooseStep DEF SearchWeek
        <3>6. QED
            BY <3>4, <3>5
    <2>7. CASE SearchFails(u) \/ NoMvp(u) \/ Fail(u) \/ Victim(u)
        BY <1>1, <2>7, RollbackStep DEF SearchFails, NoMvp, Fail, Victim
    <2>8. CASE Recheck(u)
        <3>1. IsActive(u) /\ tx[u].rest # <<>>
            BY <2>1, <2>8 DEF Recheck, IsActive, Active, UploadInv, Control, Busy
        <3>2. CASE RegisteredMeanwhile(Game(u)) /\ SkipGame(u) /\ UNCHANGED <<row, place, owner>>
            BY <1>1, <3>1, <3>2, SkipStep DEF RegisteredMeanwhile
        <3>3. CASE Rollback(u, "rejected")
            BY <1>1, <3>3, RollbackStep
        <3>4. QED
            BY <2>8, <3>2, <3>3 DEF Recheck
    <2>9. CASE Lock(u)
        BY <1>1, <2>9, LockStep
    <2>10. CASE Insert(u)
        <3>1. IsActive(u) /\ tx[u].rest # <<>>
            BY <2>1, <2>10 DEF Insert, IsActive, Active, UploadInv, Control, Busy
        <3>2. CASE AlreadyThere(Game(u))
            <4>1. SkipGame(u) /\ UNCHANGED <<row, place, owner>>
                BY <2>10, <3>2 DEF Insert
            <4>2. QED
                BY <1>1, <3>1, <3>2, <4>1, SkipStep DEF AlreadyThere
        <3>3. CASE ~AlreadyThere(Game(u))
            BY <1>1, <2>10, <3>3, InsertNewStep
        <3>4. QED
            BY <3>2, <3>3
    <2>11. CASE Commit(u)
        BY <1>1, <2>11, CommitStep
    <2>12. QED
        BY <1>1, <2>2, <2>3, <2>4, <2>5, <2>6, <2>7, <2>8, <2>9, <2>10, <2>11 DEF Statement
<1>2. CASE UNCHANGED vars
    <2>1. /\ UNCHANGED <<row, place, owner, pc, tx, batch>>
        BY <1>2 DEF vars
    <2>2. Ranges' /\ OneClaim' /\ RankedIn(place)' /\ ScoresCountGames'
        BY <2>1 DEF IInv, Ranges, OneClaim, Drafted, RankedIn, ScoresCountGames
    <2>3. ASSUME NEW u \in Uploads
          PROVE  UploadInv(u)'
        <3>1. Written(u)' = Written(u)
            BY <2>1 DEF Written
        <3>2. UploadInv(u)
            BY DEF IInv
        <3>3. Control(u)' /\ Holds(u)' /\ DraftsAreOwn(u)'
            BY <2>1, <3>2 DEF UploadInv, Control, Holds, DraftsAreOwn, IsActive, Drafted,
                              Registered, Game
        <3>4. Accounted(u)' /\ Tallies(u)'
            BY <2>1, <3>1, <3>2 DEF UploadInv, Accounted, Tallies, IsActive, Drafted, Registered
        <3>5. QED
            BY <3>3, <3>4 DEF UploadInv
    <2>4. QED
        BY <2>2, <2>3 DEF IInv
<1>3. QED
    BY <1>1, <1>2 DEF Next

LEMMA IInvCorrect == Spec => []IInv
<1>1. Init => IInv
    BY IInvInit
<1>2. IInv /\ [Next]_vars => IInv'
    BY IInvStep
<1>3. QED
    BY <1>1, <1>2, PTL DEF Spec

\* Every variable of the import stays in its range: a map number never exceeds
\* the games its match can receive.
THEOREM TypeCorrect == Spec => []TypeOK
<1>1. ASSUME IInv
      PROVE  TypeOK
    <2>1. \A u \in Uploads : tx[u] \in TxType
        BY <1>1 DEF IInv, Ranges
    <2>2. QED
        BY <1>1, <2>1 DEF IInv, Ranges, TxType, TypeOK
<1>2. QED
    BY <1>1, IInvCorrect, PTL

\* Uploads at the same time never give two games of a series the same map
\* number, and the numbers leave no gap.
THEOREM NumbersCorrect == Spec => []NumbersAreConsecutive
<1>1. ASSUME IInv
      PROVE  NumbersAreConsecutive
    <2>1. place \in [Games -> Rows]
        BY <1>1, PlaceFields DEF IInv, Ranges
    <2>2. QED
        BY <1>1, <2>1, RankedNumbers DEF IInv, NumbersAreConsecutive, NumberedTo
<1>2. QED
    BY <1>1, IInvCorrect, PTL

\* The score of a series counts each of its games once, for the side that won it.
THEOREM ScoresCorrect == Spec => []ScoresCountGames
<1>1. IInv => ScoresCountGames
    BY DEF IInv
<1>2. QED
    BY <1>1, IInvCorrect, PTL

\* The maps of a series are numbered in the order of their replays.
THEOREM MapsCorrect == Spec => []MapsFollowReplays
<1>1. ASSUME IInv
      PROVE  MapsFollowReplays
    <2>1. SUFFICES ASSUME NEW g \in Games, NEW h \in Games, Registered(g), Registered(h),
                          place[g].match = place[h].match, g < h
                   PROVE  place[g].number < place[h].number
        BY DEF MapsFollowReplays
    <2>2. PICK S : S = GamesOf(place[g].match, place)
        OBVIOUS
    <2>3. g \in S /\ h \in S
        BY <2>1, <2>2 DEF GamesOf
    <2>4. Rank(g, S) < Rank(h, S) /\ Rank(g, S) \in Nat /\ Rank(h, S) \in Nat
        BY <2>1, <2>2, <2>3, GamesFinite, RanksCount
    <2>5. place[g].number = Rank(g, S) + 1 /\ place[h].number = Rank(h, S) + 1
        BY <1>1, <2>1, <2>2 DEF IInv, RankedIn, Registered
    <2>6. QED
        BY <2>4, <2>5
<1>2. QED
    BY <1>1, IInvCorrect, PTL

\* A successful upload has registered its whole batch, and no other upload
\* claims its games.
THEOREM SuccessCorrect == Spec => []SuccessIsComplete
<1>1. ASSUME IInv
      PROVE  SuccessIsComplete
    <2>1. SUFFICES ASSUME NEW u \in Uploads, pc[u] = "done", NEW i \in DOMAIN batch[u]
                   PROVE  LET g == batch[u][i] IN
                          /\ Registered(g)
                          /\ g \in tx[u].skipped \/ tx[u].draft[g] # Nowhere
                          /\ tx[u].draft[g] # Nowhere =>
                               \A v \in Uploads \ {u} : pc[v] = "done" => tx[v].draft[g] = Nowhere
        BY DEF SuccessIsComplete
    <2>2. PICK g \in Games : g = batch[u][i]
        BY <1>1 DEF IInv, Ranges
    <2>3. Control(u) /\ Accounted(u)
        BY <1>1 DEF IInv, UploadInv
    <2>4. g \in tx[u].skipped \/ Drafted(u, g)
        BY <2>1, <2>2, <2>3 DEF Control, Accounted
    <2>5. Registered(g)
        BY <2>1, <2>3, <2>4 DEF Accounted
    <2>6. Drafted(u, g) => \A v \in Uploads \ {u} : pc[v] = "done" => ~Drafted(v, g)
        BY <1>1, <2>1 DEF IInv, OneClaim
    <2>7. QED
        BY <2>2, <2>4, <2>5, <2>6 DEF Drafted
<1>2. QED
    BY <1>1, IInvCorrect, PTL

\* Only a commit touches the matches and their maps.
LEMMA OnlyCommitWrites ==
    ASSUME NEW u \in Uploads, Statement(u) \/ Fail(u), ~Commit(u)
    PROVE  UNCHANGED <<row, place>>
BY DEF Statement, Begin, SkipKnown, FindOpen, FindNoneOpen, SearchWeek, SearchFails, Recheck,
       Lock, Insert, NoMvp, Victim, Fail, Rollback

\* The result, the score and the maps of a completed series never change again,
\* whatever uploads were on their way when it was completed.
THEOREM CompletedCorrect == Spec => CompletedIsFinal
<1>1. ASSUME IInv, [Next]_vars, NEW m \in Matches, row[m].status = "completed"
      PROVE  /\ row'[m] = row[m]
             /\ \A g \in Games : place[g].match = m \/ place'[g].match = m => place'[g] = place[g]
    <2>1. ASSUME NEW u \in Uploads, Commit(u)
          PROVE  /\ row'[m] = row[m]
                 /\ \A g \in Games :
                       place[g].match = m \/ place'[g].match = m => place'[g] = place[g]
        <3>1. m \notin tx[u].tracked
            BY <1>1, <2>1 DEF IInv, UploadInv, Holds, Commit, IsActive, Active
        <3>2. row'[m] = row[m]
            BY <2>1, <3>1 DEF Commit
        <3>3. QED
            BY <1>1, <2>1, <3>1, <3>2, CommitPlaces
    <2>2. CASE \E u \in Uploads : (Statement(u) \/ Fail(u)) /\ ~Commit(u)
        BY <2>2, OnlyCommitWrites
    <2>3. CASE UNCHANGED vars
        BY <2>3 DEF vars
    <2>4. QED
        BY <1>1, <2>1, <2>2, <2>3 DEF Next
<1>2. ASSUME IInv, [Next]_vars
      PROVE  [\A m \in Matches : row[m].status = "completed" =>
                 /\ row'[m] = row[m]
                 /\ \A g \in Games :
                       place[g].match = m \/ place'[g].match = m => place'[g] = place[g]]_vars
    BY <1>1, <1>2
<1>3. QED
    BY <1>2, IInvCorrect, PTL DEF Spec, CompletedIsFinal

\* An upload is rejected for the game it has come to only when the game leads to
\* no match, or is not registered at that moment.
LEMMA RejectionHasReason ==
    ASSUME Ranges, NEW u \in Uploads, [Next]_vars, RejectedForDuplicate(u)
    PROVE  Closest[Game(u)] = NoMatch
<1>1. pc[u] \in Active /\ pc'[u] = "rejected" /\ tx[u].rest # <<>> /\ Registered(Game(u))
    BY DEF RejectedForDuplicate
<1>2. ~UNCHANGED vars
    BY <1>1 DEF vars, Active
<1>3. PICK v \in Uploads : Statement(v) \/ Fail(v)
    BY <1>2 DEF Next
<1>4. pc \in [Uploads -> {"idle"} \cup Active \cup Ended]
    BY DEF Ranges
<1>5. \E label \in {"next", "search", "recheck", "lock", "insert", "done", "rejected", "failed"} :
         pc' = [pc EXCEPT ![v] = label]
    BY <1>3 DEF Statement, Begin, SkipKnown, FindOpen, FindNoneOpen, SearchWeek, SearchFails,
                Recheck, Lock, Insert, Commit, NoMvp, Victim, Fail, Rollback, SkipGame, Choose, Goto
<1>6. v = u
    BY <1>1, <1>4, <1>5 DEF Active
<1>7. ASSUME NEW how \in {"next", "search", "recheck", "lock", "insert", "done", "failed"},
             Goto(u, how)
      PROVE  FALSE
    BY <1>1, <1>4, <1>7 DEF Goto
<1>8. SearchFails(u)
    BY <1>1, <1>3, <1>6, <1>7
       DEF Statement, Begin, SkipKnown, FindOpen, FindNoneOpen, SearchWeek, Recheck, Lock, Insert,
           Commit, NoMvp, Victim, Fail, Rollback, SkipGame, Choose, RegisteredMeanwhile
<1>9. QED
    BY <1>8 DEF SearchFails

\* An upload is never rejected for a game that another upload has registered in
\* the meantime, if the date of the game leads to a match.
THEOREM DuplicatesCorrect == Spec => DatedDuplicatesNeverReject
<1>1. ASSUME IInv, [Next]_vars
      PROVE  [\A u \in Uploads : RejectedForDuplicate(u) => Closest[Game(u)] = NoMatch]_vars
    BY <1>1, RejectionHasReason DEF IInv
<1>2. QED
    BY <1>1, IInvCorrect, PTL DEF Spec, DatedDuplicatesNeverReject
=============================================================================
