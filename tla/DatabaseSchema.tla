--------------------------- MODULE DatabaseSchema ---------------------------
(***************************************************************************)
(* The tables of packages/database/src/schema.ts with their foreign keys,  *)
(* unique keys, checks and the triggers of the migrations, and the         *)
(* deletion that postgres-crud-delete-plan.ts previews and carries out     *)
(* over them.  CrudOperations says how it is raced; here one transaction   *)
(* runs at a time, over the real references.                               *)
(*                                                                         *)
(* A row is [table, name, refs]: refs gives its foreign keys and the other *)
(* columns a constraint reads.  A composite key is one reference, called   *)
(* by its first column.  seasonName of teams and memberships is that of    *)
(* their parent, by composite keys that also update it, and is left out.   *)
(***************************************************************************)
EXTENDS Naturals, FiniteSets, SequencesExt

CONSTANTS
    FirstRows,  \* the rows at first
    Inserts,    \* sets of rows, each inserted by one transaction
    LastTransaction  \* bound

VARIABLES
    rows,        \* the rows that are stored
    shown,       \* what the last transaction showed before: its preview, if it
                 \* was a deletion: [root, gone, unlinked, blocked]
    failed,      \* whether the database refused it
    transactions

schemaVars == <<rows, shown, failed, transactions>>

Null == "null"
Key(child, column, parent, onDelete, notNull) ==
    [child |-> child, column |-> column, parent |-> parent, onDelete |-> onDelete,
     notNull |-> notNull]
Owned(child, column, parent) == Key(child, column, parent, "cascade", TRUE)
Guarded(child, column, parent) == Key(child, column, parent, "restrict", TRUE)
Linked(child, column, parent) == Key(child, column, parent, "set null", FALSE)

AccountKeys ==
    {Owned("auth_sessions", "discordUserId", "discord_users"),
     Linked("audit_logs", "actorDiscordUserId", "discord_users")}

CompetitionKeys ==
    {Owned("seasons_divisions", "seasonName", "seasons"),
     Owned("seasons_divisions", "divisionName", "divisions"),
     Linked("players", "discordUserId", "discord_users"),
     Owned("teams", "seasonDivisionId", "seasons_divisions")}

RosterKeys ==
    {Owned("team_memberships", "teamId", "teams"),
     Owned("team_memberships", "discordUserId", "discord_users"),
     Owned("roster_movements", "teamId", "teams"),
     Owned("roster_movements", "discordUserId", "discord_users"),
     Linked("roster_movements", "actorId", "discord_users")}

\* The key of the round holds the division, which is never null.
CalendarKeys ==
    {Owned("rounds", "idSeasonDivision", "seasons_divisions"),
     Owned("matches", "idSeasonDivision", "seasons_divisions"),
     Owned("matches", "team1Id", "teams"),
     Owned("matches", "team2Id", "teams"),
     Linked("matches", "winnerTeamId", "teams"),
     Linked("matches", "mvpPlayerId", "players"),
     Key("matches", "idRound", "rounds", "set null", TRUE)}

GameKeys ==
    {Owned("match_games", "matchesId", "matches"),
     Owned("match_games", "blueTeamId", "teams"),
     Owned("match_games", "redTeamId", "teams"),
     Key("match_games", "winnerTeamId", "teams", "cascade", FALSE),
     Owned("player_game_info", "matchGameId", "match_games"),
     Guarded("player_game_info", "playerId", "players"),
     Guarded("player_game_info", "teamId", "teams")}

Snapshots == {"player_game_stats", "player_game_runes", "player_game_build"}
SnapshotKeys == {Owned(t, "id", "player_game_info") : t \in Snapshots}

ForumKeys ==
    {Owned("predictions", "discordUserId", "discord_users"),
     Owned("predictions", "matchId", "matches"),
     Guarded("predictions", "selectedTeamId", "teams"),
     Owned("home_weekly_teams", "divisionId", "seasons_divisions"),
     Key("home_weekly_teams", "roundId", "rounds", "cascade", FALSE),
     Owned("crystal_ball_league_campaigns", "divisionId", "seasons_divisions"),
     Linked("crystal_ball_league_campaigns", "resolvedBy", "discord_users"),
     Owned("crystal_ball_league_entries", "divisionId", "crystal_ball_league_campaigns"),
     Owned("crystal_ball_league_entries", "discordUserId", "discord_users")}

ForeignKeys ==
    AccountKeys \cup CompetitionKeys \cup RosterKeys \cup CalendarKeys \cup GameKeys
        \cup SnapshotKeys \cup ForumKeys
Tables == UNION {{k.child, k.parent} : k \in ForeignKeys}

-----------------------------------------------------------------------------
(* Constraints, of the rows of a database. *)

UniqueKeys ==
    {<<"seasons_divisions", {"seasonName", "divisionName"}>>,
     <<"team_memberships", {"teamId", "discordUserId"}>>,
     <<"matches", {"idSeasonDivision", "idRound", "team1Id", "team2Id"}>>,
     <<"player_game_info", {"matchGameId", "playerId"}>>,
     <<"predictions", {"discordUserId", "matchId"}>>,
     <<"home_weekly_teams", {"divisionId", "roundId"}>>,
     <<"crystal_ball_league_campaigns", {"divisionId"}>>,
     <<"crystal_ball_league_entries", {"divisionId", "discordUserId"}>>}

In(db, table) == {r \in db : r.table = table}
Named(db, table, name) == {r \in In(db, table) : r.name = name}

\* Nulls are distinct.
IsUnique(db) ==
    \A k \in UniqueKeys : \A r, s \in In(db, k[1]) :
       (\A c \in k[2] : r.refs[c] = s.refs[c] /\ r.refs[c] # Null) => r = s

RefersTo(r, k, p) == r.table = k.child /\ p.table = k.parent /\ r.refs[k.column] = p.name
IsReferential(db) ==
    \A k \in ForeignKeys : \A r \in In(db, k.child) :
       r.refs[k.column] # Null => Named(db, k.parent, r.refs[k.column]) # {}

Playing == {"top", "jungle", "mid", "adc", "support"}
Competing == Playing \cup {"substitute"}
MembershipOK(m) == m.refs.isCaptain => m.refs.role \in Playing
MatchOK(m) ==
    /\ m.refs.team1Id # m.refs.team2Id
    /\ m.refs.winnerTeamId \in {Null, m.refs.team1Id, m.refs.team2Id}
GameOK(g) ==
    /\ g.refs.blueTeamId # g.refs.redTeamId
    /\ g.refs.winnerTeamId \in {Null, g.refs.blueTeamId, g.refs.redTeamId}
IsChecked(db) ==
    /\ \A m \in In(db, "team_memberships") : MembershipOK(m)
    /\ \A m \in In(db, "matches") : MatchOK(m)
    /\ \A g \in In(db, "match_games") : GameOK(g)

\* team_memberships_unique_captain and one_competitive_team_per_player_and_season.
SeasonOf(db, m) ==
    {c.refs.seasonName : c \in {d \in In(db, "seasons_divisions") :
        \E t \in Named(db, "teams", m.refs.teamId) : t.refs.seasonDivisionId = d.name}}
RosterOK(db) ==
    \A m, n \in In(db, "team_memberships") : m # n =>
       /\ ~ (m.refs.teamId = n.refs.teamId /\ m.refs.isCaptain /\ n.refs.isCaptain)
       /\ ~ (/\ {m.refs.role, n.refs.role} \subseteq Competing
             /\ m.refs.discordUserId = n.refs.discordUserId
             /\ SeasonOf(db, m) = SeasonOf(db, n))

\* check_match_games_teams(), of a game that is written.
GameFits(db, g) ==
    \E m \in Named(db, "matches", g.refs.matchesId) :
       {g.refs.blueTeamId, g.refs.redTeamId} = {m.refs.team1Id, m.refs.team2Id}

\* require_complete_player_game(), deferred to the commit.
IsComplete(db) ==
    \A i \in In(db, "player_game_info") : \A t \in Snapshots :
       \E s \in In(db, t) : s.refs.id = i.name

Intact(db) == IsReferential(db) /\ IsUnique(db) /\ IsChecked(db) /\ RosterOK(db) /\ IsComplete(db)

NothingShown == [root |-> [table |-> "none"], gone |-> {}, unlinked |-> {}, blocked |-> {}]

SchemaInit ==
    /\ rows = FirstRows
    /\ shown = NothingShown
    /\ failed = FALSE
    /\ transactions = 0

Insert(new) ==
    /\ transactions < LastTransaction
    /\ new \cap rows = {} /\ \A r \in new, s \in rows : r.name # s.name
    /\ Intact(rows \cup new)
    /\ \A g \in In(new, "match_games") : GameFits(rows \cup new, g)
    /\ rows' = rows \cup new
    /\ transactions' = transactions + 1
    /\ shown' = NothingShown
    /\ UNCHANGED failed

-----------------------------------------------------------------------------
(* The engine: one DELETE statement. *)

ChildrenOf(db, gone, k) == {r \in db \ gone : \E p \in gone : RefersTo(r, k, p)}

RECURSIVE CascadeOf(_, _)
CascadeOf(db, gone) ==
    LET more == UNION {ChildrenOf(db, gone, k) : k \in {x \in ForeignKeys : x.onDelete = "cascade"}}
    IN IF more = {} THEN gone ELSE CascadeOf(db, gone \cup more)

\* The statement fails if a row that stays refers to one that goes and may not
\* be unlinked, and a restricted key is checked before the cascades of the
\* other keys are sure to have removed what refers by it.
Unlinkable(k) == k.onDelete = "set null" /\ ~ k.notNull
Refuses(db, set, all) ==
    \E k \in ForeignKeys :
       \/ k.onDelete = "set null" /\ k.notNull /\ ChildrenOf(db, all, k) # {}
       \/ k.onDelete = "restrict" /\ \E r \in db \ set, p \in all : RefersTo(r, k, p)

LinksInto(r, all) == {k \in ForeignKeys : Unlinkable(k) /\ \E p \in all : RefersTo(r, k, p)}
Unlink(r, all) ==
    IF LinksInto(r, all) = {} THEN r
    ELSE [r EXCEPT !.refs = [c \in DOMAIN r.refs |->
             IF c \in {k.column : k \in LinksInto(r, all)} THEN Null ELSE r.refs[c]]]

Statement(db, set) ==
    LET all == CascadeOf(db, set \cap db) IN
      IF Refuses(db, set, all) THEN [ok |-> FALSE, db |-> db]
      ELSE [ok |-> TRUE, db |-> {Unlink(r, all) : r \in db \ all}]

-----------------------------------------------------------------------------
(* The plan. *)

\* The tables of the CRUD resources.
Roots == {"seasons", "divisions", "seasons_divisions", "teams", "players",
          "team_memberships", "rounds", "matches"}

\* buildDeletePlan(): the rows that the cascades reach, level by level, and
\* what else refers to them.
PlanFor(root) ==
    LET gone == CascadeOf(rows, {root})
        Others(k) == ChildrenOf(rows, gone, k)
        Rest(test) == UNION {Others(k) : k \in {x \in ForeignKeys : x.onDelete # "cascade" /\ x.notNull = test}}
        Guards == UNION {Others(k) : k \in {x \in ForeignKeys : x.onDelete = "restrict"}}
    IN [root |-> root,
        gone |-> gone,
        unlinked |-> Rest(FALSE),
        blocked |-> Rest(TRUE) \cup Guards]

RefersToTable(child, parent) == \E k \in ForeignKeys : k.child = child /\ k.parent = parent

\* deletePlannedDependents(): a table after those of the plan that refer to it.
RECURSIVE Postorder(_, _, _)
Postorder(table, tables, visited) ==
    IF table \in Range(visited) THEN visited
    ELSE LET referring == SetToSeq({t \in tables \ {table} : RefersToTable(t, table)})
         IN Append(FoldLeft(LAMBDA done, t : Postorder(t, tables, done), visited, referring), table)

RemovalOrder(root, gone) == Postorder(root.table, {r.table : r \in gone}, <<>>)

\* A DELETE of the planned rows of every table, the root's last.
Executed(root, gone) ==
    FoldLeft(LAMBDA s, t : IF ~ s.ok THEN s
                           ELSE Statement(s.db, IF t = root.table THEN {root} ELSE In(gone, t)),
             [ok |-> TRUE, db |-> rows], RemovalOrder(root, gone))

\* previewDelete() and the confirmed deletion; what is blocked is not begun.
DeletePlanned(root) ==
    LET plan == PlanFor(root) IN
      /\ transactions < LastTransaction
      /\ root.table \in Roots
      /\ transactions' = transactions + 1
      /\ shown' = plan
      /\ IF plan.blocked # {}
         THEN UNCHANGED <<rows, failed>>
         ELSE LET done == Executed(root, plan.gone) IN
                /\ failed' = (~ done.ok \/ ~ Intact(done.db))
                /\ rows' = IF failed' THEN rows ELSE done.db

SchemaNext ==
    \/ \E new \in Inserts : Insert(new)
    \/ \E r \in rows : DeletePlanned(r)

-----------------------------------------------------------------------------
(***************************************************************************)
(* Properties.                                                             *)
(***************************************************************************)
SchemaTypeOK ==
    /\ rows \subseteq [table : Tables, name : {r.name : r \in rows}, refs : {r.refs : r \in rows}]
    /\ shown.gone \cap (shown.unlinked \cup shown.blocked) = {}
    /\ failed \in BOOLEAN /\ transactions \in 0..LastTransaction

\* Every reference resolves and every constraint holds after any sequence of
\* insertions and deletions, and the teams of a game stay those of its match.
DatabaseIsIntact ==
    /\ Intact(rows)
    /\ \A g \in In(rows, "match_games") : GameFits(rows, g)

\* A preview says what happens: a deletion that it allows is never refused by
\* the database halfway, removes exactly the rows shown and unlinks exactly
\* those shown as unlinked (buildDeletePlan() and deletePlannedDependents()).
PreviewIsWhatHappens ==
    [][shown'.root.table # "none" /\ shown'.blocked = {} =>
          LET Same(r, s) == r.table = s.table /\ r.name = s.name IN
            /\ ~ failed'
            /\ {r \in rows : ~ \E s \in rows' : Same(r, s)} = shown'.gone
            /\ rows \ (rows' \cup shown'.gone) = shown'.unlinked
      ]_schemaVars
=============================================================================
