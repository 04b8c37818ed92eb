# RCL-Next in TLA+

A model of RCL-Next: the server with its bridge to Discord, its imports, its
transactions and what it computes for an answer, and the pages of the web client
that keep state while answers arrive late. TLC checks every module on small
instances; TLAPS proves, for every value of their constants, the safety properties of
the bridge client and of the suggestions on top of it, of the upload sockets, of the
parser pool and the import of replays, of the sitemap cache, of sign-in and roles, of
transactions over the database, of the probe, the limiter, the shutdown and the award
of a series, and of the editors and pages of the web client.

    tlc -config MCDiscordBridge.cfg MCDiscordBridge      # a run
    tlapm DiscordBridgeProofs.tla                        # a proof module

Paths below are relative to `src/apps/api/src/modules/` unless they start
with `src/`, or to `src/apps/web/src/` in the part on the web client.
`PROJECT.json` maps each definition to its lines.

## 1. The system

RCL-Next is one Node.js process (an Express API with two kinds of WebSocket), a
PostgreSQL database, a browser client (React) and a Python parser of replays that
runs as a child process. Concurrency comes from four places: the event loop (a
handler runs up to its next `await`; timers, sockets and microtasks come in
between), the transactions of PostgreSQL (READ COMMITTED, row and table locks),
the outside (the Discord bot, browsers, clocks), and, in the client, effects,
timers and requests that outlive the state they were made for.

| Component | State | Operations | What is hard | What makes it correct |
|---|---|---|---|---|
| **Discord bridge client** `discord-bridge/discord-bridge.client.ts` | FIFO of frames, socket, four timers, pause and processing flags | `send`, `close`, connect and login, server frames, `processQueue` with pauses and retries | callbacks, microtasks and timers that outlive what they were made for; lost connections; late answers | one frame on the wire, order, bounded retries, every promise settles, closed means closed |
| **Suggestions** `suggestions/` | records with a status, capacity and expiry | `submit`, listeners of the bridge, `get` | the bridge's events, the promise of `send` and the bot's verdict arrive in any order | the status follows the delivery, final statuses stay |
| **ROFL upload sockets and decompression queue** `rofl-upload/websocket`, `processing/process-batch-files.ts` | per socket a session and two temporary directories; one shared queue | `start`, chunks, `finish`, close | an upload can end at any await, twice | one archive at a time, nobody stuck in the queue, every directory removed |
| **ROFL parser runner and transformation** `rofl-upload/processing`, `rofl-upload/validation` | a pool of child processes, their output files | `executePythonParser`, `transformParserJson`, the two validations | workers interleave; shared output directory | every replay reaches the import once, in the order played |
| **ROFL batch import** `rofl-upload/persistence` | matches, match games | `executeBatchInsert` | concurrent transactions over shared series and replays, deadlocks | numbers, scores and results consistent, duplicates harmless, completed series closed |
| **Sitemap** `sitemap/` | cached document, shared promise, generation | `getSitemapXml`, `invalidateCache` | invalidation during a generation | never older than the answered writes, one generation at a time |
| **Bridge health, rate limiter, avatars** `discord-bridge.client.ts:186-376`, `suggestions/suggestion-rate-limiter.ts`, `auth/discord-avatars.router.ts` | shared probe, windows, bounded caches | `checkHealth`, `consume`, avatar requests | concurrent callers share one probe or download; eviction next to expiry | one probe per period, bounded tables, at most N submissions in a window |
| **Authentication, member roles** `auth/`, `member-roles/` | OAuth states, sessions, roles, a table lock | sign-in, callback, logout, `changeRole` | a state used twice; two owners demote each other | one session per sign-in, there is always an owner |
| **Predictions** `predictions/` | votes per match | `save`, `overview` | the window closes or the match is edited while a vote is saved | no late vote, votes name teams of their match, points match the result |
| **Crystal ball** `crystal-ball/` | campaign, answers, results | `configure`, `save`, `resolve` | the window is recomputed from playoffs that can move | no ballot after the results, results are those of the last calculation |
| **CRUD operations** `crud-operations/` | every administered table with a version | `mutate`, `previewDelete`, `reorderMaps` | stale forms, stale delete previews, unique map numbers | no lost update, nothing deleted that was not shown |
| **Database schema** `src/packages/database/src/schema.ts` | tables, keys, checks, triggers | insertions and deletions | cascades that the preview must foresee | the preview is what happens, constraints hold |
| **Database transfer** `database-transfer/` | the whole database | preview, export, import | the database changes after the preview | an import replaces what the owner confirmed |
| **Home content** `home-content/` | articles, images, weekly teams | `saveArticle`, `discardImages`, clean-up, `saveWeeklyTeam` | articles and images in separate transactions | no image of a stored article removed |
| **Competition** `competition/` | sealed awards; the rest is computed | standings, champions, MVPs, slugs, lineups, players | ties, coincidences, reopened series | order of entry does not matter, awards are final and earned, pages agree |
| **Server** `src/apps/api/src/server.ts` | handles, the pool | start, clean-up, shutdown | order of the closes; handlers whose client left; an address that is taken | who waits for an answer finds the pool open |
| **Web client** `src/apps/web/src` | page state | hooks, forms, dialogs, panels, history | answers out of order, pages left and entered again, unsaved changes | a page shows what it was last told and changes what its user was shown |
| **Routers and text validation, page metadata, team logos, ROFL parser** | none | queries, conversions | nothing interleaves | not modelled |

The components meet in few places. The suggestions service calls `send()` of the
bridge and listens to its events. The upload socket hands its archive to the
parser and the parsed games to the batch import. The batch import, the CRUD
operations, the predictions, the crystal ball and the backfill of the awards share
the rows of `matches` and lock them. The import of a backup locks everything. The
administration writes invalidate the sitemap. A page talks to the server by
requests whose answers come in any order, or not at all.

## 2. Modules

Server:

| Module | Models | Composed with |
|---|---|---|
| `DiscordBridgeClient` | the outgoing queue and the connection of the bridge client | implements `FrameDelivery` |
| `FrameDelivery` | what `send()` promises its callers (abstract) | |
| `SuggestionsService` | the service and its store | extends `DiscordBridgeClient` |
| `ProcessMemory` | three things the process remembers: the answer of the bot's health probe, the windows of the limiter, the avatars | |
| `RoflUpload` | upload sockets, decompression queue, temporary directories | |
| `ReplayParser` | the pool of parsers and what is made of their outputs | |
| `BatchImport` | `executeBatchInsert()` as concurrent transactions | |
| `SitemapCache` | the cache and its invalidation | |
| `Accounts` | sign-in, sessions, roles | |
| `MatchPredictions` | votes, with editors of matches and teams and the import | |
| `CrystalBall` | campaigns, ballots, results, with editors of the playoffs | |
| `CrudOperations` | mutations, delete previews and confirmations of any table | |
| `MapOrder` | the stepwise renumbering of the maps of a match | |
| `DatabaseSchema` | the tables, and deletion over them | |
| `DatabaseTransfer` | preview and import of a backup, with other writers | |
| `HomeContent` | articles, uploads, the removal of images | |
| `WeeklyTeams` | the weekly team: server, editor and home page | |
| `MvpAwards` | the awards: upload, backfill, administrators | |
| `CompetitionService` | tables, lineups, slugs | |
| `PlayerPages` | what the list, the player page and the team page say of a player | |
| `ServerLifecycle` | start, clean-up, shutdown | |

Web client:

| Module | Models |
|---|---|
| `CrystalBallScreen` | the polling hook; the ballot with its picker; the administration panel with its two forms |
| `SuggestionScreen` | the suggestion box and its poller |
| `UploadScreen` | the upload panel, its sockets and its loop |
| `PlayoffBracket` | the slots of the playoff page |
| `CrudScreen` | the list, form and delete dialog of an administered table |
| `AdminPanels` | the roles page with the session it is shown for; the import dialog |
| `EditorialScreen` | the article editor and its pending images |
| `MatchEditor` | the form of a match over the server's checks; the order of its maps |
| `PredictionScreen` | the predictions page and its cards |
| `Navigation` | the history of the browser and the guard of unsaved changes |

`MC...` are the instances for TLC; `*Proofs` hold the theorems. `MCRecords` and
`MCServing` are sums: the components of each share no state, so a variable
`component`, chosen at first, selects the one that takes steps, and the others
keep their initial state. The state space is the sum of the components' and one
run checks all of them. `MCRecords` collects the transactions over the database and
the two editors of the home page over it, `MCServing` what the process keeps in
memory, what it computes for an answer and what the other pages show. A property of
one component is guarded by `component` where it does not hold trivially of the
others.

### DiscordBridgeClient

An action is one turn of the event loop, or one of the microtasks it leaves
behind: the continuation of a settled promise (`worker` in `Settled`) or a
`queueMicrotask(processQueue)` (`kick`). `TurnStarts` keeps turns and microtasks
apart. The variables are the fields of the class; `worker` is the program counter
of the one `processQueue()` that may be past its guard; `outcome` records what
became of each promise. Frames are numbered by their `send()` calls.

What the surroundings may do is a constant choice, `faults`, so that a property
names the faults it survives: the link dropped while a frame waits out a rate
limit, a bot that leaves a frame unanswered for the idle timeout, several server
frames in one chunk (the `ws` package then emits them before any microtask), and a
rate limit in answer to the login. Properties without such a condition hold under
all of them.

Details left out, and why: the throw of the socket factory (the URL is validated
by `src/apps/api/src/config/env.ts`), the branch of `BridgeRateLimitTimeoutError`
at lines 682-700 (nothing in the awaited code throws it), frames the client ignores
(no state changes), `connectTimer` after `close()` (its handler does nothing then).
The idle timeout (30 minutes) is longer than the connection timeout (10 seconds),
so it does not fire during a connection attempt.

### SuggestionsService

Extends the bridge with the record of each suggestion: its steps contain the steps of
the client, under their own names. The service reacts within the bridge's step, because it only listens to its events and its promises.
The validation of the text and the author are data. The listeners take a verdict
whatever became of the promise of `send()`. What is assumed is of the bot: on one
connection it acknowledges a suggestion before it gives its verdict (`unanswered` holds
what it has not), so that a verdict comes after the acknowledgement, or over a later
connection when the acknowledgement was lost.

### BatchImport

One upload is one transaction; every query is a step. A row lock or a unique key
somebody else has written but not committed makes the statement wait; PostgreSQL
breaks a cycle of waits by rolling one of its transactions back. What follows the
row lock of a match is one step with it, since nobody else touches the match or its
games. `Fixture` and `Closest` stand for the two searches of `findMatchForTeams()`;
a game that breaks a roster rule has no fixture. `Closest` is `NoMatch` for a replay
without a date, which is every replay the parser of the repository produces. The
final renumbering is modelled by its result.

Left out: manual edits of the same matches (CRUD operations) while an upload runs,
maps without a replay, and the lines of players and statistics. The awards that the
import seals are in `MvpAwards`.

### RoflUpload

Several sockets share one `DecompressionQueue`. `pipe` is the program counter of
the handler of `finish`; `awaiting` and `removing` are the removals of directories
under way, in the two phases of `cleanupResources()`. A directory is named by its
connection, upload and purpose, as its random name. The parser, the validation, the
second authorization and the import are one step here: they touch none of this state
(`ReplayParser` and `BatchImport` model them).
Chunks below the quota and messages that are refused change nothing. A failing
removal of a directory is not modelled, and neither is the socket that stays paused
after a write to a failed stream: the model lets its messages through.

### SitemapCache

A document is what each of its queries read, a set of writes. A generation is named
by the request that started it. The expiry drops the cached document at any time;
a write whose response is lost, or reports an error after the commit, does not
invalidate it (`Lose`).

### ServerLifecycle

`server.close()` waits for connections, not for handlers: a client that leaves ends its
connection, and its handler goes on and may query (`ClientLeaves`, `HttpQueries`). The
pool is closed when no client waits (`ClientsGone`) and the clean-up of images is over;
a handler that is left finds it closed and its query fails, which nobody sees. A pool
is closed once: `pool.end()` called again rejects, and the process ends with an
unhandled rejection (`EndPoolOnce`), as when the signal comes while the handler of a
taken address is closing it (`GiveUpListening`).

### The transactions (MCRecords)

A step is a statement of a transaction, or an `await` between two; a lock is a
variable that says who holds it, and a statement that needs it waits. What a
transaction writes is seen when it commits.

- `Accounts`: a token is a number. `Expire` is both the comparison with the clock
  and the deletion of expired rows. The upsert of a member waits for the table lock
  of a role change; the authorization of a role change was read before it.
- `MatchPredictions`: the unit of time is the hour. Editors change the match in the
  ways that matter to a vote; the import ends it.
- `CrystalBall`: playoffs are read without a lock. What matters of an answer is
  whether a question has one and whether it was computed. A campaign that closed
  may accept ballots again when its playoffs are rescheduled, because `window()` is
  recomputed; `docs/api/crystal-ball/persistence.md:17` ("Una campaña cerrada no se
  puede reabrir") speaks of `configure()`, which does refuse it.
- `CrudOperations`: a record has one parent. Its stamp stands for its contents. The
  locks of a deletion include the rows whose reference it clears, and a reference whose
  record is gone is null. The engine's own cascades may take rows inserted after the plan
  was read, because an insertion only waits for the lock of its parent:
  `RemovalsWereShown` names them.
- `DatabaseSchema`: one transaction at a time over the real references. The key of a
  round nulls the division too, which is never null: a deletion of a round with
  matches is therefore shown as blocked. RESTRICT is immediate.
- `DatabaseTransfer`: all other tables are one number; of a backup its roles and
  whether its migrations are ours matter.
- `HomeContent`: saving an article and removing images are two transactions, and the
  files are part of neither.

### What is computed (MCServing)

- `CompetitionService`, `MvpAwards`, `PlayerPages`, `PlayoffBracket` are the
  algorithms, evaluated on the matches of a division while results are entered,
  reopened and deleted in any order. The properties relate two answers (list and
  page, an order of entry and another) or an answer and the results. Rates, averages
  and the tie-breaks of the MVP below victories are left out. In `PlayerPages` the
  queries of one request read one snapshot. The featured MVP is an account: one won
  with a secondary account is on nobody's card, because the list keeps main accounts
  (`isMain`); `FeaturedWonTheRound` is about accounts.
- `PlayoffBracket`: the page guesses the slot of a match from teams and results. The
  matches of a slot are published when its teams are known, as an administrator of a
  six-team bracket does; results with a winner or with a score only, forfeits,
  surprises, cancelled matches and teams that withdraw are bounded by constants. The
  page leaves out the matches of a team that withdrew and seeds those that remain. When
  the second opening match is published first, the page shows it in the first place
  until that of the first seed is there (`PlaceOf`); when a seed withdraws after the
  first match was published the places are guessed anew, and only that no match is
  shown twice, and none of a team that withdrew, is claimed.

### The pages (MCServing, MCRecords)

A page is its state, the requests it has under way with what they captured, and
the server reduced to what its answers depend on; answers come late, in any order,
or never, other users write meanwhile, and a visit that was left may still be
answered. Limits that the models state because the code has them:

- `EditorialScreen`: two editors do not compare versions, and a save whose answer is
  lost may be overtaken by the discard of its images.
- `WeeklyTeams`: what was saved in the visit overrides what is loaded later; saves
  have no version.
- `MatchEditor`: `validateRelations()` reads the teams without a lock (`late`); the
  unique key of a match ignores matches without a round, so that a creation sent again
  stores a second one. Scores, status and dates of the form are left out. A selector
  offers the value it has, and choosing it again clears what depends on it.
- `CrystalBallScreen`: another browser's ballot may replace the answers below the open
  dialog and put a team in both branches, which the server refuses
  (`DUPLICATE_TEAM`); the public filter of leagues drops a draft without asking; the
  administrator's publication overwrites results published meanwhile. Choosing the
  league on display again makes the panel forget that its forms hold changes, while the
  forms keep them (`chosenAgain`): the next choice of a league then drops them without
  asking, and the properties of the panel name that exception.
- `PredictionScreen`: one match per page. A failed poll empties the page and unmounts
  its cards: a draft is lost, and a second save of the same match may run. React
  runs the clean-up of an effect with the next one, until when an old answer is taken.
- `Navigation`: links may be followed and moves made at any time. `hurried` notes a user
  who follows a link before the browser has made its moves, or moves again two moves
  ahead of it or before it has undone a refused one; then the code can restore the
  wrong entry (section 3), and without it never does. Entries from outside the router, which
  reload the page, are left out.

## 3. Runs

| Run | Instance | What it shows |
|---|---|---|
| `bridge` | 3 frames, room for 2, a budget of 2 short pauses, four sets of faults | the safety properties, that the client implements `FrameDelivery`, and that every `send()` settles when the bot answers |
| `bridge_pending` (violation) | the same | a promise of `send()` can stay pending for ever |
| `suggestions` | 3 suggestions, 2 records, 2 frames in the queue | the status a client polls against the delivery |
| `suggestions_failed` (violation) | the same | `failed` is not final |
| `suggestions_confirmed` (violation) | the same, with a bot that falls silent | neither is `confirmed` |
| `batch_import` | 2 uploads, 3 series, 4 games, three pairs of batches | numbers, scores, duplicates, closed series, termination |
| `batch_duplicate` (violation) | the same | a duplicate rejects a batch when the replay has no date |
| `rofl_upload` | 3 sockets, one upload each, one of them also plain replays | the turn, the positions, the directories, progress of the queue |
| `rofl_twice` (violation) | 1 socket, 2 uploads | the second upload loses its directory |
| `records` | the ten components of `MCRecords`; 920,000 states | sessions, roles, votes, ballots, records, backups, images under concurrent transactions and their editors |
| `serving` | the 24 components of `MCServing`; 797,000 states | limits in memory, the sitemap cache, the competition's answers, the pages |
| `parser_names` (violation) | the parser of `MCServing` with two replays of one base name | one of them is lost without an error |

`StatusFollowsDelivery` also says what the status shows while a delivery goes on;
`NoWayBack` also says that a confirmed suggestion only expires, once its frame is
acknowledged or decided (`suggestions_confirmed` shows why that condition is there). The bridge's `ClosedForGood`,
`AttemptsFailIdle` and `PauseHasOwner` are proved for every instance and have no run.

### The properties of `records`

- `RecordTypesOK`: the type of the component that runs.
- `OwnerRemains`: `changeRole()` leaves an owner.
- `OneSessionPerSignIn`: a state opens one session.
- `VotesStand`: votes are written while the match is open and its teams active
  (`VotesWhileOpen`), and name its teams however it is edited (`VotesNamePlayers`).
- `BallotsStand`: no ballot after the results (`BallotsBeforeResults`), and the results
  are those of the last calculation (`ResultsAreCurrent`).
- `RecordsStand`: no lost update (`WritesAreCurrent`), deletions remove what was shown
  (`RemovalsWereShown`), a preview over the real tables is what happens
  (`PreviewIsWhatHappens`, `DatabaseIsIntact`), and maps end in the order asked for,
  replacing the order shown, with no collision after any statement
  (`OrderIsTheOneAsked`, `NoMoveCollides`). The ranking of the predictions, computed
  from counts, is that of the single votes (`OverviewIsRight`). The editors of the home page: the images of
  the article exist and no file is forgotten (`ArticleImagesExist`,
  `FilesAreAccountedFor`); the form of the weekly team agrees with the server's checks,
  knows its unsaved changes, and the home page shows what is published
  (`EditorAndServerAgree`, `UnsavedChangesAreKnown`, `HomeShowsPublished`).
- `ImportReplacesWhatWasShown`: nothing written since the preview is lost, and the
  owner who imported is still one.
- `UsedImagesStay`: no file goes that a stored article names.

### The properties of `serving`

- `ServingTypesOK`: the type of the component that runs.
- `ImportGetsEveryReplay`: with different base names, every replay once and in order.
- `AnswersAreCurrent`, `SingleFlight`: an answer of the sitemap shows every write answered
  before it was asked for, and at most one generation since the last invalidation runs.
- `LimitsHold`: one connection with the bot per period, the windows of the limiter, the
  bounds of the avatar cache, and the pool closed after those who wait for it.
- `CompetitionIsRight`: awards final and earned; standings and champions that add up
  and do not depend on the order of entry; slugs that lead back; fair lineups; list and
  pages of the players that agree; the featured player.
- `PagesAreHonest`, per page:
  crystal ball (`BallotNeverGoesBack`, `RefreshGoesOn`), its ballot
  (`BranchesStayApart`, `DraftIsWhatWasSent`) and its administration
  (`PanelKnowsItsForms`, `OtherFormIsKept`); suggestions
  (`OnePollerPerSuggestion`, `ConfirmationIsReal`); upload
  (`PanelFollowsItsUpload`); playoffs (`BracketShowsEveryMatch`); tables
  (`ListFollowsChanges`, `DeletionsWereTicked`); roles
  (`SessionFollowsOwnRole`, `RolesWereConfirmed`); import
  (`DialogIsOfTheChosenFile`, `ImportWasTyped`); match
  form (`FormsAreAcceptable`, `StoredMatchesAreSound`) and map order
  (`ShownOrderIsTheSaved`, `OrderReplacesTheLoaded`); predictions
  (`SavedPickIsReadBack`, `ScoresFitTheirTeam`, `ChoiceIsKept`); history
  (`PageIsOfItsEntry`, `EntriesAreNumbered`, `SavingPageStays`).

### Bounds

Three frames are one on the wire, one waiting and one refused or sent after
a failure; room for two makes the queue full; a budget of two with pauses of one and
two units covers a retry, an exhausted budget and a pause larger than the rest of
it. The batches of `MCBatchImport` are two that lock the same series in opposite
orders and share a game, two that share a whole series with a replay given twice,
and two that are the same. Three archives are needed for a queue of two, where
leaving and being served shift positions. Two queries are enough to read on either
side of a write, three requests to have one that starts a generation, one that
joins it and one that comes after an invalidation, and one write to be missed or
seen; the theorems hold for any number of them. (`RoflUpload` needs no instance
module.)

`MCRecords`: two owners in two browsers with two requests demote each other and use
one callback twice; four tokens are two sign-ins with their sessions. One match, two
voters and an editor suffice for a vote, since votes meet only at their match and
their teams; five hours cross the end of the week. A tree of two records, two
administrators and three stamps hold a preview, an insertion below it and a stale
confirmation. Three maps and four positions leave a gap and need a free number. The
rows inserted in `MCRecords` reach every table that a deletion can take, with every
rule, six transactions at most. `MCServing`: two of what contends (callers, clients,
workers, backfills, visits, drafts), three where an order or a cycle needs a third
(avatars in a cache of two, names, teams, maps, entries of the history). Counters of
writes, versions and visits are bounded by the `Last...` and `Max...` constants, each
large enough for an answer to be overtaken by two later ones or for a page to be left
and entered again.

`CHECK_DEADLOCK FALSE` appears in every configuration, because these systems come
to rest: after `close()`, when all uploads have ended, when all requests are served,
when a bounded counter is used up.

Fairness. `DiscordBridgeClient`: microtasks run, expired timers fire, the close
event of a dead socket is delivered, and (only where `faults` does not say
otherwise) the bot answers the frame in flight; nothing is assumed of calls, drops
or rate limits. `BatchImport`: each statement that can run is run, and a transaction
in a cycle of waits is rolled back, as PostgreSQL does after `deadlock_timeout`.
`RoflUpload`: awaited operations end (the parser has a timeout, the disk and the
database answer) and removals of directories end. No fairness is assumed of clients,
and none in `MCRecords` and `MCServing`, which check safety only: that a page goes on
refreshing or polling is stated as an invariant (something is due that will do it).

### Disagreements found

- `bridge_pending`: while a frame waits out a rate limit and its connection drops, the
  next `send()` starts a connection attempt; if that fails, `failQueue()` rejects the
  frame in flight too, and when the pause ends `processQueue()` removes another frame
  from the queue, unwritten and unsettled. Comments at lines 402-404 and 413-414 say
  otherwise.
- `suggestions_failed`: `failed` is documented as terminal and becomes `confirmed` when
  the acknowledgement of a frame was lost.
- `suggestions_confirmed`: `confirmed` is documented as terminal too. The idle timeout
  drops the connection of a bot that does not answer and leaves the promise of `send()`
  pending; over the next connection the bot confirms; when that one is lost the old
  promise is rejected and its `catch` stores `failed`.
- `batch_duplicate`: a duplicate is documented as skipped in every case; without a date
  `findMatchForTeams()` does not find the completed match, and the batch is rejected.
- `rofl_twice`: the `finally` block of `finish` opens the session for the next upload
  before its clean-up has ended, and the clean-up then takes the directory of that
  upload.
- `parser_names`: two replays of the same base name in different directories of an
  archive write one output file; the count of outputs seen equals that of the replays,
  and the import gets one of them without an error.

One more has no run of its own: cancelling Back "restores the original entry" according
to the comment of `browserNavigation()`. After three quick moves back from a page with
unsaved changes, the first undoing (`go(1)`) is taken for the second move's, the distance
of the next one is computed from where the browser is not, and the browser stays at
another entry than that of the page. TLC finds it as soon as `~ hurried` is taken out of
`PageIsOfItsEntry`.

## 4. Proofs

The theorems are about the specifications without fairness and with all faults, under
the assumptions on constants that the modules state and TLC evaluates
(`BridgeAssumption`, `StoreAssumption`, `UploadAssumption`, `ImportAssumption`,
`SitemapAssumption`, `AccountsAssumption`, `HomeAssumption`, `PredictionsAssumption`,
`CrystalAssumption`, `TransferAssumption`, `MapAssumption`, `CrudAssumption`,
`ParserAssumption`, `ProbeAssumption`, `LimiterAssumption`, and for the pages
`EditorialAssumption`, `WeeklyAssumption`, `SuggestionScreenAssumption`,
`CrudScreenAssumption`, `RolesScreenAssumption`, `TransferScreenAssumption`,
`UploadScreenAssumption`, `NavigationAssumption`, `MatchFormAssumption`,
`MapPageAssumption`, `ScreenAssumption`, `BallotAssumption`, `CrystalAdminAssumption`,
`PredictionScreenAssumption`): types of the constants, values that are not members, and
finitely many members, connections, replays, teams and maps, where a count is about
them. (`AvatarAssumption` is for TLC.) The components of `MCRecords` and `MCServing` are proved one by one, under the
specification of each (`HomeSpec`, `MapSpec`, ...), which is how the two sums run them.

**Bridge client.** `DiscordBridgeProofs` proves `TypeOK` and, for `OneOnTheWire`,
the invariant `WireInv`: the queue holds undecided frames only, in the order of their
calls, unwritten frames are behind the written one, and the worker's frame was
written. `OneOnTheWire` alone is not inductive: that a frame leaving the queue is
the one that was written needs the order. `LinkInv` adds what link, timers and worker
imply about each other, from which `ClosedForGood`, `AckBeforeResolve` and, with
`PauseInv`, `PauseHasOwner` follow; and the retry budget follows from `BudgetInv`, which
relates the number of writes to the time already waited in each state of the worker.
While the link outlives the frame in flight that frame is the head of the queue
(`InFlightInv`); `NoFrameLost`, `AttemptsFailIdle` and the action property `InOrder`
follow. There is one lemma per operator that several actions share (`Push`, `Shift`,
`Transmit`, `ProcessQueue`, `Finish`) and one step per action.

The last part proves the refinement, `Spec => Delivers`. Every step of the client maps
to a step of `FrameDelivery` or to none: a step that settles nothing is quiet
(`QuietDelivers`), the end of the frame in flight is `Decide` or, when another was
lost or it was settled before, a stutter (`FinishDelivers`), a failed attempt and
`close()` are `Fail` and `Close` (`RejectDelivers`). Two facts carry it when the client
is orderly: the head of the queue is the oldest undecided frame (`WireInv` orders the
queue, `InFlightInv` puts every undecided frame in it), and the queue is as long as
there are undecided frames, since it holds each of them once (`QueueCounts`), so that
it is full exactly when `FrameDelivery` may refuse.

**Suggestions.** `DiscordBridgeProofs` also shows that the service only takes steps of
the client or leaves it alone (`ServiceUsesBridge`), so that all the theorems above hold
under it, and sums up in `TurnEffect` what a step of the client may do to one frame.
`ServiceTypeOK` bounds the store. `StatusInv` relates the record of a suggestion to the
promise of its frame: progress statuses belong to undecided frames, `processing` to
resolved ones. `StatusFollowsDelivery` and `NoWayBack` follow: a frame that is decided
is not decided again, and one whose acknowledgement has arrived is resolved by the
continuation of `processQueue()` before any other turn. A confirmation of a frame that
still waits is not protected, neither by the code nor by the theorem.

**Upload sockets.** `RoflUploadProofs`: `IInv` says that the queue holds those who wait,
once each (`QueueHoldsWaiters`), that the turn is taken exactly while one handler
decompresses, and that every waiting client was told its place. Leaving the queue
shifts those behind; that is a lemma about `RemoveAt`. `TypeOK`, `TurnHasOneOwner` and
`PositionsAreCurrent` follow for any number of connections and uploads. The
directories need a hypothesis, because `rofl_twice` refutes them without it: in
`PatientSpec` a client starts an upload only when the directories of its last one are
gone. Then `DirsInv` (the directories a connection knows are those of its last upload,
and an upload keeps its own while its client is there) gives `DirectoriesHaveOwners` and
`UploadHasDirectory`. The web client is patient, as it opens a socket for every upload
(`src/apps/web/src/features/rofl-upload/hooks/useRoflUploadWs.ts`, line 145): with
`MaxUploads = 1` every behaviour is, and `SingleUploadDirectories` needs no other
hypothesis.

**Import.** `BatchImportProofs` proves every safety property of `BatchImport` from one
invariant. The lock: an open transaction owns each match it tracks, none of them is
completed, its drafts lie in them, and the numbers and scores it holds in memory are
those of the committed games together with its drafts (`Holds`, `DraftsAreOwn`,
`Tallies`). The unique key: no two open transactions have a draft of the same game
(`DraftsAreOwn`), and no two that ended well have claimed one (`OneClaim`). The batch:
each of its games is reported, drafted or still to come (`Accounted`). The committed
games are ranked (`RankedIn`) and counted (`ScoresCountGames`). `NumbersAreConsecutive`
by itself is not inductive, since a commit writes numbers computed when the lock was
granted. Most of the work is counting: `orderImportedGames()` gives each game of a match
whose numbers are 1 to k its rank (`NumbersCount`, `RanksCount`, `InOrderRanks`), and one
more game adds one number and one point (`OneMoreGame`).

**Sitemap cache.** `SitemapCacheProofs` proves `SitemapTypeOK`, `SingleFlight` and
`AnswersAreCurrent` from one inductive invariant. Its heart: every generation that
started since the last invalidation is the one in flight (`Generations`), what it has
read so far includes every answered write (`CacheIsCurrent`), and what a waiting
request waits for includes the writes answered before the request came
(`WaitersAreCurrent`).

**Accounts.** `RecordsProofs` proves `AccountsTypeOK`, `OwnerRemains` and
`OneSessionPerSignIn` for any number of members, browsers and requests. An owner
remains because of `LockInv`: whoever is past the lock holds it, and what was checked
under it still holds when the update is written; the count of owners then names another
one (`AnotherOwner`, which needs finitely many members). `SignInInv` says where a
drawn state is: stored, held by the one request whose DELETE found it, or spent on a
session; and that a new one was never drawn before.

**Transactions.** `RecordsProofs` holds one argument per component, each about what a
lock protects between a check and the write that relies on it.

- `HomeContent` (`UsedImagesStay`): a request that removes files has the table of
  articles to itself from its check on, so that no article written since names them;
  and a file is removed only when no article named it then.
- `MatchPredictions` (`VotesStand`): who is past the row lock of a match holds it, and
  what was checked of the match and its teams still holds when the vote is written. An
  edit of the teams holds the same row and has seen that there are no votes.
- `CrystalBall` (`BallotsStand`): whoever writes the campaign, a ballot or the results
  has it to himself, so that a ballot that passed its check is written while there are
  still no results; `ResultsAreCurrent` is a part of the invariant.
- `DatabaseTransfer` (`ImportReplacesWhatWasShown`): once every table is locked nobody
  else is writing, so the snapshot that is compared with the one confirmed is the
  database that is replaced, and the roles read under the lock are those of the end.
- `MapOrder` (`NoMoveCollides`, `OrderIsTheOneAsked`): `positions` are apart after every
  single statement. The invariant lists what may be left of one position (`MoveAhead`,
  the three stages of a swap, or nothing): in each the next UPDATE goes to a number that
  no map has, and the number that becomes free is the temporary one or the one that the
  next statement needs. The maps placed so far stay where they are (`PlacedUpTo`), so at
  the end the maps are numbered from one in the order asked for, and `NumberedFromOne`
  shows that this is the only order by number. It goes by the least wrong position: that
  a set of numbers has a least element (`LeastNumber`) follows from the well-foundedness
  of `<` and takes the place of an induction.

**Memory.** `ServingProofs`:

- `ReplayParser` (`ImportGetsEveryReplay`): each index below the shared one is at one
  worker, written or skipped, and outputs of different replays are different files
  (`NamesDiffer`, which `parser_names` refutes in general). When the counts agree the
  outputs are the replays; the import gets them once, in order.
- `ProcessMemory`, the probe (`OneConnectionPerPeriod`): a connection is opened only when no probe is
  under way and the remembered answer is too old; an answer is remembered from the end
  of its probe, which is after its connection.
- `ProcessMemory`, the limiter (`LimitIsKept`): the windows of a client do not overlap and a
  window that is not over is in the table, so that pruning cannot open a second one. A
  period of one window meets two windows at most; of one that opened before the period
  it misses at least the first submission, hence twice the limit less one. The
  submissions are counted by mapping them to their numbers in their window.
- `ServerLifecycle` (`PoolOutlivesItsUsers`): the stages of the shutdown and of a failed
  listen, and who has gone at each of them.
- `MvpAwards` (`AwardsAreFinal`): an entry, stored or about to be, is a player with a
  score (`AwardsAreWhole`); an upload seals a match only when its entry is empty, and a
  backfill writes only where it still is.

**Editors.** `EditorsProofs` follows what an administrator works on from the request to
the commit and back to the page.

- `CrudOperations` (`WritesAreCurrent`, `RemovalsWereShown`): `CrudInv` says that stamps
  follow the order of the writes (`StampsInOrder`), that the row of a transaction still
  has the version it compared while it holds its lock (`PhaseOK`), that below what is
  deleted only references that are set to null remain (`GoneIsWhole`), that the plan has
  every row which cascades from a planned one and was not written since
  (`PlanFollows`), and that no row is held by one transaction while another holds,
  clears or refers to it (`Apart`). What cascades is a least fixed point (`Closure`,
  `CascadeClosure`), which needs no induction.
- `EditorialScreen` (`ArticleImagesExist`, `FilesAreAccountedFor`): `EditorialInv` says
  that an uploaded image is pending in one form or asked to be discarded
  (`ImagesAreApart`), that the images of forms, saves and the article have arrived
  (`ImagesHaveArrived`), that a form has one call under way (`OneCall`), and that a form
  that is gone has given up its images or is still being saved (`FormOK`).
- `WeeklyTeams` (`UnsavedChangesAreKnown`, `EditorAndServerAgree`,
  `HomeShowsPublished`): `WeeklyInv` orders the loads of the page (`LoadsInOrder`),
  keeps the players of a quintet apart in the store (`StoredApart`) and in the form
  (`FormApart`), and says that whoever is published has played, as long as the
  statistics are those of the save (`PublishedHavePlayed`).

**Pages.** `PagesProofs` has one section per page, each with its invariant. The form is
always the same: an answer may arrive after the page has gone on, so the invariant
says of every request on its way what it was about and how old what it brings may be.

- `SuggestionScreen` (`OnePollerPerSuggestion`, `ConfirmationIsReal`), `UploadScreen`
  (`PanelFollowsItsUpload`): timers and connections belong to the run of the effect
  that made them; what an earlier run still does is told apart by its number.
- `CrudScreen` (`ListFollowsChanges`, `DeletionsWereTicked`), `AdminPanels`
  (`SessionFollowsOwnRole`, `RolesWereConfirmed`, `DialogIsOfTheChosenFile`,
  `ImportWasTyped`): one change is under way per visit, and its dialog is open until
  the answer, so that what is stored is what is shown.
- `Navigation` (`PageIsOfItsEntry`, `SavingPageStays`): the blocker undoes a move by one
  of the opposite length. `MovesLeadBack` says how far the browser is from the page and
  that the way back is among the moves it still has to make: the last one while it is
  restoring, else the first. That is claimed of a user who does not hurry
  (`HurriedForGood`: who once did, has) and so has two moves under way at most; without
  that condition it is false (section 3). `SavingPagesStay` holds for
  everybody.
- `MatchEditor` (`FormsAreAcceptable`, `StoredMatchesAreSound`,
  `ShownOrderIsTheSaved`, `OrderReplacesTheLoaded`): the selectors keep competition,
  round, teams and winner consistent (`ValuesAreConsistent`), and what is sent was
  checked against the teams as they were then (`SentIsChecked`). For the order of the maps, the page
  holds the order it has loaded and a rearrangement of it.
- `CrystalBallScreen`: `BallotNeverGoesBack` and `RefreshGoesOn` from the order of the
  answers by generation (`GenerationsAreApart`, `AnswersAreInOrder`); `BranchesStayApart`
  and `DraftIsWhatWasSent` from what the dialog may pick (`PicksAreApart`);
  `PanelKnowsItsForms` and `OtherFormIsKept` from `CapturedIsCurrent`, that the flags the
  answer will use are still those of its sending, and `chosenAgain`.
- `PredictionScreen` (`SavedPickIsReadBack`, `ScoresFitTheirTeam`, `ChoiceIsKept`): what
  the page holds was stored (`VersionsAreStored`), the card is of the data that was
  loaded (`CardIsOfTheData`), and a load is of the page or will be followed by one
  (`LoadIsOfThePage`).

**Model-checked only.** Liveness (`EverySendSettles`, `EveryUploadEnds`,
`QueueMoves`), which the prover does not reach. What is computed by recursion or folds:
the ranking of the predictions (`OverviewIsRight`), the bytes of the avatar cache
(`AvatarsStayBounded`), the deletions of `DatabaseSchema` (the closure of references),
the bracket (`PlayoffBracket`), the list of players and the algorithms of the
competition need induction over data; so does `AwardsAreEarned`, because that a finite
set of candidates has a best one is such an induction. `RecordTypesOK`,
`ServingTypesOK`, `RecordsStand`, `LimitsHold`, `PagesAreHonest` and
`CompetitionIsRight` are sums over the components of their module: of
`PagesAreHonest` all parts but the bracket are proved, of the others those named above.

Theorems worth proving next: the bound of the avatar cache with its bytes as a relation
between consecutive states instead of a fold; `DatabaseSchema` with the closure of
references written as a least fixed point; `AwardsAreEarned` from the assumption that
the order of candidates has a best one in every finite set.

## 5. Not modelled

- Routers and text validation: they map results to status codes and bound texts.
- Page metadata, team logos, generated migrations, environment, the wiring of the app:
  reads, text and configuration with nothing to interleave.
- `src/apps/parser/roflParser.py`: a one-shot program; its result is an input of
  `ReplayParser`. `pg_dump` and the text of backups are outcomes.
- Of the CRUD operations: `list()`, the limit of 10000 rows and the columns of resources
  other than matches. Of the competition: aggregates beyond games won, lost and MVPs,
  texts and images. Of the crystal ball: which answers the recorded maps give, and the
  points.
- Of the web client: pages that only draw, styles, the forms of the other resources,
  the search box of the selectors.
- Hazards without a property are in `PROJECT.json` with the reason: mostly behaviour
  that no document of the repository decides, and that the models contain as it is.
