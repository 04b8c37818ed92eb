----------------------------- MODULE MCServing -----------------------------
(***************************************************************************)
(* Checks the modules of what the process keeps in memory, what it         *)
(* computes for an answer and what the pages show, one component at a      *)
(* time: `component` is chosen at first and only its module takes steps.   *)
(***************************************************************************)
EXTENDS ProcessMemory, SitemapCache, ServerLifecycle,
        ReplayParser, MvpAwards, CompetitionService,
        CrystalBallScreen, SuggestionScreen, UploadScreen,
        PlayoffBracket, PlayerPages, CrudScreen, AdminPanels,
        MatchEditor, PredictionScreen, Navigation

VARIABLE component

pagesVars ==
    <<screenVars, suggestionScreenVars, uploadScreenVars, playoffVars,
      profileVars, crudScreenVars, rolesScreenVars, transferScreenVars,
      matchFormVars, mapPageVars,
      ballotFormVars, crystalAdminVars, predictionScreenVars, navigationVars>>

vars == <<component, probeVars, limiterVars, avatarVars, sitemapVars, serverVars,
          parserVars, mvpVars, tableVars, directory, lineupVars, pagesVars>>

(* ProcessMemory: a client with a session may send two suggestions. *)
MCLimit == [k \in Clients |-> IF k = "k1" THEN 2 ELSE 1]

(* ReplayParser: a file that is no replay, a user with two accounts, dates   *)
(* that are known, unknown or both, an account that nobody registered.       *)
Replay(n, k, d, c) == [name |-> n, kind |-> k, date |-> d, cast |-> c]
MCArchives ==
  {<<Replay(2, "rofl", 5, <<"a", "b">>), Replay(1, "rofl", 7, <<"a", "c">>),
     Replay(3, "other", Undated, <<>>)>>,
   <<Replay(2, "rofl", Undated, <<"a", "b">>), Replay(1, "rofl", Undated, <<"c", "b">>),
     Replay(3, "rofl", Undated, <<"a", "b">>)>>,
   <<Replay(1, "rofl", Undated, <<"a", "z">>)>>,
   <<Replay(1, "rofl", Undated, <<"a", "c">>), Replay(2, "rofl", 3, <<"a", "b">>)>>,
   <<Replay(1, "other", Undated, <<>>)>>}
\* Two replays of one base name, in different directories of the archive.
NamesArchives ==
  {<<Replay(2, "rofl", 5, <<"a">>), Replay(1, "rofl", 6, <<"a">>), Replay(2, "rofl", 7, <<"a">>)>>}
MCUserOf == [x \in {"a", "b", "c"} |-> IF x = "b" THEN "u2" ELSE "u1"]

(* MvpAwards: a short map, a long one, a defeat and one of unknown length. *)
Played1(p, t, r) == [player |-> p, team |-> t, rating |-> r]
Replay1 == [winner |-> "one", seconds |-> 2,
            rows |-> {Played1(1, "one", 5), Played1(2, "one", 6), Played1(3, "two", 9)}]
Replay2 == [winner |-> "two", seconds |-> 1,
            rows |-> {Played1(2, "one", 3), Played1(3, "two", 5), Played1(4, "two", 7)}]
Replay3 == [winner |-> "one", seconds |-> 3,
            rows |-> {Played1(1, "one", 5), Played1(3, "two", 4)}]
Replay4 == [Replay3 EXCEPT !.seconds = 0]
MCSeriesFormat == 1 :> 3
MCGameReplays == {Replay1, Replay2, Replay3}
MCHistories == {<<Replay1, Replay2, Replay3>>, <<Replay3>>, <<Replay4>>}

(* CompetitionService, the tables: teams 1 to 3 of the division, 9 of        *)
(* another one.                                                              *)
MCFixtures == (11 :> <<1, 2>>) @@ (12 :> <<2, 3>>) @@ (13 :> <<3, 9>>)
MCStageOf == (0 :> "none") @@ (1 :> "regular")

(* CompetitionService, the references: names that are empty, equal, end in   *)
(* the context, the digest or a counter of another, or read as an identifier. *)
MCNames == {<<>>, <<"team">>, <<"a">>, <<"a", "b">>, <<"a", "h">>, <<"u">>, <<"a", "b", "h">>}
MCContexts == {<<>>, <<"b">>}
MCDigest == [i \in Ids |-> "h"]
MCCounters == <<"2", "3", "4", "5">>
MCUuids == {<<"u">>}

(* CompetitionService, the featured lineup. *)
MCLineupRoles == <<"top", "mid">>

(* PlayerPages: two divisions of one season and one of an earlier; profiles  *)
(* 1 and 2 are of one user; maps of one or two picks, awards that tie.       *)
InMap(t, c, k, a) == [team |-> t, champion |-> c, kills |-> k, assists |-> a, role |-> "mid"]
Bout1(c1, c2) == [winner |-> "a", rows |-> (1 :> InMap("a", c1, 3, 1)) @@ (2 :> InMap("a", c2, 2, 2))
                                  @@ (3 :> InMap("b", c2, 1, 0))]
Substitute(t) == [winner |-> t, rows |-> (1 :> InMap(t, "x", 2, 0)) @@ (3 :> InMap(t, "y", 1, 2))]
MCDivisionOf == [t \in {"a", "b", "c", "z"} |-> IF t = "c" THEN "d2" ELSE IF t = "z" THEN "d0" ELSE "d1"]
MCSeasonOf == [d \in {"d0", "d1", "d2"} |-> IF d = "d0" THEN "s1" ELSE "s2"]
MCSeasonList == <<"s2", "s1">>
MCRoundStart == <<0, 5, 5>>
MCBouts == (1 :> [division |-> "d1", round |-> 1]) @@ (2 :> [division |-> "d1", round |-> 2])
           @@ (3 :> [division |-> "d2", round |-> 0]) @@ (4 :> [division |-> "d1", round |-> 2])
Ended(ms, p, r) == [maps |-> ms, mvp |-> p, rating |-> r]
MCEndings ==
  (1 :> {Ended(<<Bout1("x", "y"), Bout1("y", "x")>>, 2, 91)}) @@
  (2 :> {Ended(<<Bout1("x", "x"), Bout1("y", "y")>>, 1, 62)}) @@
  (3 :> {Ended(<<Substitute("c")>>, NoProfile, 0)}) @@
  (4 :> {Ended(<<Substitute("b")>>, 3, 65)})
MCHolderOf == <<1, 1, 2>>
Signed(u, t, r) == [user |-> u, team |-> t, role |-> r]
MCSignings == {Signed(1, "a", "mid"), Signed(1, "c", "mid"), Signed(1, "z", "mid"), Signed(2, "a", "coach")}

(* MatchEditor: three teams of one competition and one of another. *)
MCRoundsIn == [c \in Competitions |-> IF c = "d1" THEN {1} ELSE {}]
MCFirstCompetition == [t \in {"a", "b", "c", "e"} |-> IF t = "e" THEN "d2" ELSE "d1"]
MCFirstFixture == [idSeasonDivision |-> "d1", idRound |-> 1, team1Id |-> "a",
                   team2Id |-> "b", winnerTeamId |-> "a"]

(* CrystalBallScreen, the ballot. *)
MCSeats == ("winner" :> 2) @@ ("loser" :> 1)

-----------------------------------------------------------------------------
PageNames ==
    {"crystal ball page", "suggestion page", "upload page", "playoff page",
     "player pages", "table page", "roles page", "transfer page", "match form",
     "map order page", "ballot", "crystal admin", "predictions page", "history"}

PagesInit ==
    /\ ScreenInit
    /\ SuggestionScreenInit
    /\ UploadScreenInit
    /\ PlayoffInit
    /\ ProfilesInit
    /\ CrudScreenInit
    /\ RolesScreenInit
    /\ TransferScreenInit
    /\ MatchFormInit
    /\ component # "match form" => formOpened.id = 0
    /\ MapPageInit
    /\ component # "map order page" => mapSequence = <<>>
    /\ BallotInit
    /\ CrystalAdminInit
    /\ PredictionScreenInit
    /\ NavigationInit
    /\ component # "table page" =>
         /\ stored = [r \in TableRows |-> [stamp |-> 1, linked |-> 0]]
         /\ owner = TRUE

\* The pages that are not checked keep their state.
OtherPagesStay ==
    /\ IF component = "crystal ball page" THEN TRUE ELSE UNCHANGED screenVars
    /\ IF component = "suggestion page" THEN TRUE ELSE UNCHANGED suggestionScreenVars
    /\ IF component = "upload page" THEN TRUE ELSE UNCHANGED uploadScreenVars
    /\ IF component = "playoff page" THEN TRUE ELSE UNCHANGED playoffVars
    /\ IF component = "player pages" THEN TRUE ELSE UNCHANGED profileVars
    /\ IF component = "table page" THEN TRUE ELSE UNCHANGED crudScreenVars
    /\ IF component = "roles page" THEN TRUE ELSE UNCHANGED rolesScreenVars
    /\ IF component = "transfer page" THEN TRUE ELSE UNCHANGED transferScreenVars
    /\ IF component = "match form" THEN TRUE ELSE UNCHANGED matchFormVars
    /\ IF component = "map order page" THEN TRUE ELSE UNCHANGED mapPageVars
    /\ IF component = "ballot" THEN TRUE ELSE UNCHANGED ballotFormVars
    /\ IF component = "crystal admin" THEN TRUE ELSE UNCHANGED crystalAdminVars
    /\ IF component = "predictions page" THEN TRUE ELSE UNCHANGED predictionScreenVars
    /\ IF component = "history" THEN TRUE ELSE UNCHANGED navigationVars

PagesNext ==
    \/ component = "crystal ball page" /\ ScreenNext
    \/ component = "suggestion page" /\ SuggestionScreenNext
    \/ component = "upload page" /\ UploadScreenNext
    \/ component = "playoff page" /\ PlayoffNext
    \/ component = "player pages" /\ ProfilesNext
    \/ component = "table page" /\ CrudScreenNext
    \/ component = "roles page" /\ RolesScreenNext
    \/ component = "transfer page" /\ TransferScreenNext
    \/ component = "match form" /\ MatchFormNext
    \/ component = "map order page" /\ MapPageNext
    \/ component = "ballot" /\ BallotNext
    \/ component = "crystal admin" /\ CrystalAdminNext
    \/ component = "predictions page" /\ PredictionScreenNext
    \/ component = "history" /\ NavigationNext

Components == {"probe", "limiter", "avatars", "sitemap", "server", "parser", "mvp",
               "tables", "slugs", "lineup"} \cup PageNames

Init ==
  /\ component \in Components
  /\ PagesInit
  /\ ProbeInit /\ LimiterInit /\ AvatarInit /\ SitemapInit /\ ServerInit /\ SlugsInit
  /\ ParserInit /\ (component # "parser" => archive = CHOOSE a \in Archives : TRUE)
  /\ MvpInit /\ (component # "mvp" => maps = [m \in AwardedMatches |-> <<>>])
  /\ TablesInit /\ (component # "tables" => round = [m \in MatchIds |-> NoRound])
  /\ LineupInit /\ (component # "lineup" =>
       /\ roster = [a \in Accounts |-> Unregistered]
       /\ played = [a \in Accounts |-> [r \in RoleSet |-> 0]])

\* The components that are not checked keep their state.
OthersStay ==
  /\ IF component = "probe" THEN TRUE ELSE UNCHANGED probeVars
  /\ IF component = "limiter" THEN TRUE ELSE UNCHANGED limiterVars
  /\ IF component = "avatars" THEN TRUE ELSE UNCHANGED avatarVars
  /\ IF component = "sitemap" THEN TRUE ELSE UNCHANGED sitemapVars
  /\ IF component = "server" THEN TRUE ELSE UNCHANGED serverVars
  /\ IF component = "parser" THEN TRUE ELSE UNCHANGED parserVars
  /\ IF component = "mvp" THEN TRUE ELSE UNCHANGED mvpVars
  /\ IF component = "tables" THEN TRUE ELSE UNCHANGED tableVars
  /\ IF component = "slugs" THEN TRUE ELSE UNCHANGED directory
  /\ IF component = "lineup" THEN TRUE ELSE UNCHANGED lineupVars

Next ==
  /\ UNCHANGED component
  /\ OthersStay /\ OtherPagesStay
  /\ \/ PagesNext
     \/ component = "probe" /\ ProbeNext
     \/ component = "limiter" /\ LimiterNext
     \/ component = "avatars" /\ AvatarNext
     \/ component = "sitemap" /\ SitemapNext
     \/ component = "server" /\ ServerNext
     \/ component = "parser" /\ ParserNext
     \/ component = "mvp" /\ MvpNext
     \/ component = "tables" /\ TablesNext
     \/ component = "slugs" /\ SlugsNext
     \/ component = "lineup" /\ LineupNext

Spec == Init /\ [][Next]_vars

\* The parser alone, with NamesArchives.
NamesSpec == Init /\ component = "parser" /\ [][Next]_vars

(***************************************************************************)
(* Properties.                                                             *)
(***************************************************************************)
\* Every variable of the page that is checked has values of its type.
PagesTypesOK ==
    /\ component = "crystal ball page" => ScreenTypeOK
    /\ component = "suggestion page" => SuggestionScreenTypeOK
    /\ component = "upload page" => UploadScreenTypeOK
    /\ component = "playoff page" => PlayoffTypeOK
    /\ component = "player pages" => ProfilesTypeOK
    /\ component = "table page" => CrudScreenTypeOK
    /\ component = "roles page" => RolesScreenTypeOK
    /\ component = "transfer page" => TransferScreenTypeOK
    /\ component = "match form" => MatchFormTypeOK
    /\ component = "map order page" => MapPageTypeOK
    /\ component = "ballot" => BallotTypeOK
    /\ component = "crystal admin" => CrystalAdminTypeOK
    /\ component = "predictions page" => PredictionScreenTypeOK
    /\ component = "history" => NavigationTypeOK

\* A page shows the state of the server it was last told, in whatever order
\* answers, events and timers come, and changes it only as its user was shown
\* and confirmed (useCrystalBall.ts, useSuggestion.ts, useRoflUploadWs.ts,
\* playoff-model.ts, CrudDataPanel.tsx, MemberRolesPanel.tsx,
\* DatabaseTransferPanel.tsx, CrudRecordForm.tsx, MatchMapOrderEditor.tsx,
\* CrystalSeason.tsx, CrystalAnswerPicker.tsx, CrystalAdmin.tsx,
\* CrystalAdminPanel.tsx, usePredictions.ts, PredictionCard.tsx,
\* browser-navigation.ts).
PagesAreHonest ==
    /\ BallotNeverGoesBack
    /\ DeletionsWereTicked /\ RolesWereConfirmed /\ ImportWasTyped
    /\ OrderReplacesTheLoaded /\ OtherFormIsKept /\ ChoiceIsKept /\ SavingPageStays
    /\ [](component = "crystal ball page" => RefreshGoesOn)
    /\ [](component = "suggestion page" => OnePollerPerSuggestion /\ ConfirmationIsReal)
    /\ [](component = "upload page" => PanelFollowsItsUpload)
    /\ [](component = "playoff page" => BracketShowsEveryMatch)
    /\ [](component = "table page" => ListFollowsChanges)
    /\ [](component = "roles page" => SessionFollowsOwnRole)
    /\ [](component = "transfer page" => DialogIsOfTheChosenFile)
    /\ [](component = "match form" => FormsAreAcceptable /\ StoredMatchesAreSound)
    /\ [](component = "map order page" => ShownOrderIsTheSaved)
    /\ [](component = "ballot" => BranchesStayApart /\ DraftIsWhatWasSent)
    /\ [](component = "crystal admin" => PanelKnowsItsForms)
    /\ [](component = "predictions page" => SavedPickIsReadBack /\ ScoresFitTheirTeam)
    /\ [](component = "history" => PageIsOfItsEntry /\ EntriesAreNumbered)

\* Every variable of the component that runs has values of its type.
ServingTypesOK ==
  /\ component = "probe" => ProbeTypeOK
  /\ component = "limiter" => LimiterTypeOK
  /\ component = "avatars" => AvatarTypeOK
  /\ component = "sitemap" => SitemapTypeOK
  /\ component = "server" => ServerTypeOK
  /\ component = "parser" => ParserTypeOK
  /\ component = "mvp" => MvpTypeOK
  /\ component = "tables" => TablesTypeOK
  /\ component = "lineup" => LineupTypeOK
  /\ PagesTypesOK

\* What the process allows itself stays within its limits: submissions,
\* connections with the bot, avatars; and the database pool is closed last
\* (suggestion-rate-limiter.ts, checkHealth(), discord-avatars.router.ts,
\* server.ts).
LimitsHold ==
  /\ OneConnectionPerPeriod
  /\ [](component = "limiter" => LimitIsKept)
  /\ [](component = "avatars" => AvatarsStayBounded)
  /\ [](component = "server" => PoolOutlivesItsUsers)

\* The awards, tables, addresses and lineups of the competition are those its
\* matches determine, whatever order they are entered in
\* (competition.service.ts and the modules it calls).
CompetitionIsRight ==
  /\ AwardsAreFinal /\ AwardsAreEarned
  /\ [](component = "tables" => StandingsAddUp /\ ChampionsAddUp)
  /\ [](component = "slugs" => SlugsResolve /\ OwnNamesStayShort)
  /\ [](component = "lineup" => LineupIsFair)
  /\ [](component = "player pages" => PlayersAgree /\ FeaturedWonTheRound)
=============================================================================
