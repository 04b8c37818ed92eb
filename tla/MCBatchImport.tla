--------------------------- MODULE MCBatchImport ---------------------------
(***************************************************************************)
(* Two uploads at a time.  Games 1 and 4 belong to the series "a" (best of *)
(* 3), games 2 and 3 to the two series "b" and "c" (best of 1) of another  *)
(* pair of teams.  The batches cover two uploads that lock the same        *)
(* matches in opposite order, share a game, hold a replay twice, or are    *)
(* the same.  Only games 1, 2 and 3 carry a date.                          *)
(***************************************************************************)
EXTENDS BatchImport

MCGames == 1..4
MCMatches == {"a", "b", "c"}
MCUploads == {"x", "y"}
MCFixture == [g \in MCGames |-> IF g \in {1, 4} THEN {"a"} ELSE {"b", "c"}]
MCClosest == [g \in MCGames |-> IF g = 4 THEN "none" ELSE IF g = 1 THEN "a" ELSE "b"]
MCWinner == [g \in MCGames |-> IF g = 3 THEN 2 ELSE 1]
MCNeeded == [m \in MCMatches |-> IF m = "a" THEN 2 ELSE 1]

Pair(s, t) == [u \in MCUploads |-> IF u = "x" THEN s ELSE t]
MCBatches == {Pair(<<1, 3>>, <<2, 3, 4>>), Pair(<<1, 4>>, <<1, 1, 4>>), Pair(<<2, 3>>, <<2, 3>>)}
=============================================================================
