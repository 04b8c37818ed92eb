----------------------------- MODULE MCRecords -----------------------------
(***************************************************************************)
(* Checks the modules of concurrent transactions over the database, and of *)
(* the editors of the home page over it, one component at a time:          *)
(* `component` is chosen at first and only its module takes steps.         *)
(***************************************************************************)
EXTENDS Accounts, MatchPredictions, CrystalBall, CrudOperations, HomeContent,
        DatabaseTransfer, MapOrder, DatabaseSchema,
        EditorialScreen, WeeklyTeams

VARIABLE component

vars == <<component, accountsVars, predictionVars, crystalVars, crudVars,
          homeVars, transferVars, mapVars, schemaVars, editorialVars, weeklyVars>>

(* Accounts: two owners, two browsers and two requests at a time. *)
MCInitialRole == [m \in Members |-> "owner"]

(* MatchPredictions: a match at hour 3, edited in every way that matters. *)
Base3 == [status |-> "scheduled", at |-> 3, home |-> "a", away |-> "b",
          score |-> <<0, 0>>, winner |-> NoTeam]
MCCalendar == [m \in Matches |-> Base3]
MCRounds == <<0, 2, 2, -1>>
Picks == {[team |-> "a", score |-> <<2, 1>>], [team |-> "b", score |-> NoScore]}
MatchEdits ==
  {Base3, [Base3 EXCEPT !.home = "c"], [Base3 EXCEPT !.status = "live"],
   [Base3 EXCEPT !.at = 5], [Base3 EXCEPT !.status = "forfeit", !.winner = "b"]}

(* CrystalBall: a campaign before and after a series begins. *)
Windows == {<<0, 2>>, <<1, 2>>}
SeriesEdits == {[status |-> "scheduled", at |-> Unset], [status |-> "scheduled", at |-> 1],
                [status |-> "finished", at |-> Unset]}

(* CrudOperations: a match and its votes refer to their parents. *)
MCParent == [r \in Records |-> IF r = "team" THEN NoRecord ELSE "team"]
MCRule == [r \in Records |-> "cascade"]

(* DatabaseTransfer: one backup can be imported, the other is of other migrations. *)
MCBackups == {[roles |-> [o \in Operators |-> "admin"], migrations |-> f] : f \in BOOLEAN}
MCFirstRoles == [o \in Operators |-> IF o = "o1" THEN "owner" ELSE "admin"]

(* DatabaseSchema: a division with two teams and a user at first; a player,  *)
(* rosters, a round, matches, a game, votes, a quintet and a campaign come.   *)
Row(t, n, f) == [table |-> t, name |-> n, refs |-> f]
MCFirstRows ==
  {Row("seasons", "s", <<>>), Row("divisions", "d", <<>>), Row("discord_users", "u", <<>>),
   Row("seasons_divisions", "c", [seasonName |-> "s", divisionName |-> "d"]),
   Row("teams", "A", [seasonDivisionId |-> "c"]), Row("teams", "B", [seasonDivisionId |-> "c"])}
Membership(n, t, r, c) ==
  Row("team_memberships", n, [teamId |-> t, discordUserId |-> "u", role |-> r, isCaptain |-> c])
MatchRow(n, r, w, p) ==
  Row("matches", n, [idSeasonDivision |-> "c", idRound |-> r, team1Id |-> "A", team2Id |-> "B",
                     winnerTeamId |-> w, mvpPlayerId |-> p])
MCInserts ==
  {{Row("players", "p", [discordUserId |-> "u"])},
   {Membership("m1", "A", "top", TRUE),
    Row("roster_movements", "v", [teamId |-> "A", discordUserId |-> "u", actorId |-> "u"])},
   {Membership("m2", "B", "substitute", FALSE)},
   {Membership("m3", "B", "coach", FALSE)},
   {Row("rounds", "r", [idSeasonDivision |-> "c"]),
    Row("home_weekly_teams", "w", [divisionId |-> "c", roundId |-> "r"])},
   {MatchRow("m", "r", "A", "p")},
   {MatchRow("n", Null, Null, Null)},
   {Row("match_games", "g",
        [matchesId |-> "m", blueTeamId |-> "A", redTeamId |-> "B", winnerTeamId |-> "B"])},
   {Row("player_game_info", "i", [matchGameId |-> "g", playerId |-> "p", teamId |-> "A"])}
     \cup {Row(t, t, [id |-> "i"]) : t \in Snapshots},
   {Row("predictions", "o", [discordUserId |-> "u", matchId |-> "m", selectedTeamId |-> "A"])},
   {Row("crystal_ball_league_campaigns", "k", [divisionId |-> "c", resolvedBy |-> "u"]),
    Row("crystal_ball_league_entries", "e", [divisionId |-> "k", discordUserId |-> "u"])}}

(* WeeklyTeams: players 1 and 2 are of one member; one row has no champion.  *)
InRound(n, p, t, c, l) == [round |-> n, player |-> p, team |-> t, champion |-> c, role |-> l]
MCWeekRows ==
  {InRound(1, 1, "a", "x", "top"), InRound(1, 2, "a", "y", "mid"), InRound(1, 3, "b", "x", "mid"),
   InRound(2, 3, "b", "y", "top"), InRound(2, 2, "a", "unknown", "mid"), InRound(2, 1, "a", "y", "mid")}
MCMemberOf == <<1, 1, 2>>

-----------------------------------------------------------------------------
Components == {"accounts", "predictions", "crystal ball", "crud", "home",
               "transfer", "maps", "schema", "article page", "weekly page"}

Init ==
  /\ component \in Components
  /\ AccountsInit /\ PredictionsInit /\ CrystalInit /\ CrudInit /\ HomeInit /\ TransferInit
  /\ SchemaInit /\ EditorialInit /\ WeeklyInit
  /\ MapInit /\ (component # "maps" => number = [m \in {} |-> 1])

\* The components that are not checked keep their state.
OthersStay ==
  /\ IF component = "accounts" THEN TRUE ELSE UNCHANGED accountsVars
  /\ IF component = "predictions" THEN TRUE ELSE UNCHANGED predictionVars
  /\ IF component = "crystal ball" THEN TRUE ELSE UNCHANGED crystalVars
  /\ IF component = "crud" THEN TRUE ELSE UNCHANGED crudVars
  /\ IF component = "home" THEN TRUE ELSE UNCHANGED homeVars
  /\ IF component = "transfer" THEN TRUE ELSE UNCHANGED transferVars
  /\ IF component = "maps" THEN TRUE ELSE UNCHANGED mapVars
  /\ IF component = "schema" THEN TRUE ELSE UNCHANGED schemaVars
  /\ IF component = "article page" THEN TRUE ELSE UNCHANGED editorialVars
  /\ IF component = "weekly page" THEN TRUE ELSE UNCHANGED weeklyVars

Next ==
  /\ UNCHANGED component
  /\ OthersStay
  /\ \/ component = "accounts" /\ AccountsNext
     \/ component = "predictions" /\ PredictionsNext(Picks, MatchEdits)
     \/ component = "crystal ball" /\ CrystalNext(Windows, SeriesEdits)
     \/ component = "crud" /\ CrudNext
     \/ component = "home" /\ HomeNext
     \/ component = "transfer" /\ TransferNext
     \/ component = "maps" /\ MapNext
     \/ component = "schema" /\ SchemaNext
     \/ component = "article page" /\ EditorialNext
     \/ component = "weekly page" /\ WeeklyNext

Spec == Init /\ [][Next]_vars

(***************************************************************************)
(* Properties.                                                             *)
(***************************************************************************)
\* Every variable of the component that runs has values of its type.
RecordTypesOK ==
  /\ component = "accounts" => AccountsTypeOK
  /\ component = "predictions" => PredictionsTypeOK
  /\ component = "crystal ball" => CrystalTypeOK
  /\ component = "crud" => CrudTypeOK
  /\ component = "home" => HomeTypeOK
  /\ component = "transfer" => TransferTypeOK
  /\ component = "maps" => MapTypeOK
  /\ component = "schema" => SchemaTypeOK
  /\ component = "article page" => EditorialTypeOK
  /\ component = "weekly page" => WeeklyTypeOK

\* What administrators write, remove and reorder at the same time is what each
\* of them was shown, and leaves the database within its constraints and the
\* files that are named in place; no change of theirs is dropped unasked; and
\* the points of the ranking are those of the votes as they stand
\* (predictions.repository.ts, postgres-crud-operations.repository.ts, postgres-crud-delete-plan.ts,
\* EditorialManager.tsx, WeeklyRoundEditor.tsx, TeamOfTheWeekStrip.tsx).
RecordsStand ==
  /\ WritesAreCurrent /\ RemovalsWereShown
  /\ OrderIsTheOneAsked /\ []NoMoveCollides
  /\ []OverviewIsRight
  /\ PreviewIsWhatHappens /\ [](component = "schema" => DatabaseIsIntact)
  /\ [](component = "article page" => ArticleImagesExist /\ FilesAreAccountedFor)
  /\ EditorAndServerAgree
  /\ [](component = "weekly page" => UnsavedChangesAreKnown /\ HomeShowsPublished)
=============================================================================
