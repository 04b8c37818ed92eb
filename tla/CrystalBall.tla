----------------------------- MODULE CrystalBall -----------------------------
(***************************************************************************)
(* The crystal ball of one division: crystal-ball.repository.ts, from the  *)
(* configuration of a campaign to the publication of its results, next to  *)
(* the administrator who edits the playoffs it depends on.                 *)
(*                                                                         *)
(* A step is a statement of a transaction.  The playoffs are read without  *)
(* a lock: they may change between the check and the commit.  What matters *)
(* of an answer is whether a question has one and where it comes from.     *)
(***************************************************************************)
EXTENDS Integers, FiniteSets, FiniteSetsExt

CONSTANTS Players,     \* members who vote
          Managers,    \* administrators
          Series,      \* playoff series of the division
          Questions, Automatic,
          RoundStarts, \* the starts of the playoff rounds
          LastMoment   \* bound on the clock

Unlocked == "unlocked"

ASSUME CrystalAssumption ==
  /\ Automatic \subseteq Questions /\ LastMoment \in Nat
  /\ RoundStarts \subseteq 0..LastMoment /\ Unlocked \notin Players \cup Managers

VARIABLES now, series, recorded, campaign, ballot, task, campaignLock, seasonLock

crystalVars ==
  <<now, series, recorded, campaign, ballot, task, campaignLock, seasonLock>>

Unset == -1
Moments == 0..LastMoment
SeriesStates == {"scheduled", "live", "finished", "cancelled"}
Sources == {"none", "hand", "computed"}
NoCampaign == [opens |-> Unset, closes |-> Unset,
           results |-> [q \in Questions |-> "none"], automatic |-> {},
           calculated |-> FALSE, published |-> FALSE, resolved |-> FALSE]
Resting == [phase |-> "resting"]
Workers == Players \cup Managers

CrystalInit ==
  /\ now = 0
  /\ series = [s \in Series |-> [status |-> "scheduled", at |-> Unset]]
  /\ recorded = {}
  /\ campaign = NoCampaign
  /\ ballot = [p \in Players |-> 0]
  /\ task = [w \in Workers |-> Resting]
  /\ campaignLock = Unlocked /\ seasonLock = Unlocked

(***************************************************************************)
(* window().                                                               *)
(***************************************************************************)
Exists == campaign # NoCampaign
Playoffs == {s \in Series : series[s].status # "cancelled"}
Starts == RoundStarts \cup ({series[s].at : s \in Playoffs} \ {Unset})
Deadline(c) == Min({c.closes} \cup Starts)

HasResults(c) ==
  c.resolved \/ c.calculated \/ c.automatic # {} \/ \E q \in Questions : c.results[q] # "none"

ClosedNow(c) ==
  HasResults(c) \/ (\E s \in Playoffs : series[s].status # "scheduled") \/ now >= Deadline(c)

Status(c) ==
  CASE c = NoCampaign -> "unconfigured"
    [] c.published -> "resolved"
    [] ~c.published /\ ClosedNow(c) -> "closed"
    [] ~c.published /\ ~ClosedNow(c) -> IF now < c.opens THEN "upcoming" ELSE "open"

(***************************************************************************)
(* The rows: FOR UPDATE locks nothing while the campaign does not exist.   *)
(***************************************************************************)
\* Mutant: the campaign is read without FOR UPDATE.
CampaignFreeAlways == TRUE

CampaignFree == campaignLock = Unlocked

TakeCampaign(w) == campaignLock' = IF Exists THEN w ELSE campaignLock

Rest(w) == /\ task' = [task EXCEPT ![w] = Resting]
           /\ campaignLock' = IF campaignLock = w THEN Unlocked ELSE campaignLock
           /\ seasonLock' = IF seasonLock = w THEN Unlocked ELSE seasonLock

World == <<now, series, recorded>>

(***************************************************************************)
(* save().  A ballot that lacks an answer is refused and changes nothing.  *)
(***************************************************************************)
SaveLocks(p, b) ==
  /\ task[p] = Resting /\ CampaignFree /\ Exists
  /\ task' = [task EXCEPT ![p] = [phase |-> "save", ballot |-> b]]
  /\ TakeCampaign(p)
  /\ UNCHANGED <<campaign, ballot, seasonLock, World>>

SaveChecks(p) ==
  /\ task[p].phase = "save"
  /\ IF Status(campaign) = "open"
       THEN /\ task' = [task EXCEPT ![p].phase = "save write"]
            /\ UNCHANGED <<campaignLock, seasonLock>>
       ELSE Rest(p)
  /\ UNCHANGED <<campaign, ballot, World>>

SaveWrites(p) ==
  /\ task[p].phase = "save write"
  /\ ballot' = [ballot EXCEPT ![p] = task[p].ballot]
  /\ Rest(p)
  /\ UNCHANGED <<campaign, World>>

(***************************************************************************)
(* configure().                                                            *)
(***************************************************************************)
ConfigureLocks(m, o, c) ==
  /\ task[m] = Resting /\ seasonLock = Unlocked
  /\ task' = [task EXCEPT ![m] = [phase |-> "configure", opens |-> o, closes |-> c]]
  /\ seasonLock' = m
  /\ UNCHANGED <<campaign, ballot, campaignLock, World>>

MayConfigure(t) ==
  LET upcoming == [NoCampaign EXCEPT !.opens = t.opens, !.closes = t.closes]
  IN /\ Status(campaign) \notin {"closed", "resolved"}
     /\ t.opens < t.closes /\ t.closes > now
     /\ Status(upcoming) # "closed" /\ Deadline(upcoming) = t.closes

ConfigureChecks(m) ==
  /\ task[m].phase = "configure" /\ CampaignFree
  /\ IF MayConfigure(task[m])
       THEN /\ task' = [task EXCEPT ![m].phase = "configure write"]
            /\ TakeCampaign(m)
            /\ UNCHANGED seasonLock
       ELSE Rest(m)
  /\ UNCHANGED <<campaign, ballot, World>>

ConfigureWrites(m) ==
  /\ task[m].phase = "configure write"
  /\ campaign' = [campaign EXCEPT !.opens = task[m].opens, !.closes = task[m].closes]
  /\ Rest(m)
  /\ UNCHANGED <<ballot, World>>

(***************************************************************************)
(* resolve().                                                              *)
(***************************************************************************)
ResolveLocks(m, manual, finalize) ==
  /\ task[m] = Resting /\ CampaignFree /\ Exists
  /\ task' = [task EXCEPT ![m] = [phase |-> "resolve", manual |-> manual, finalize |-> finalize]]
  /\ TakeCampaign(m)
  /\ UNCHANGED <<campaign, ballot, seasonLock, World>>

Calculated(t) == t.finalize \/ campaign.calculated

MayResolve(t) ==
  /\ Status(campaign) \in {"closed", "resolved"}
  /\ t.finalize => Playoffs # {} /\ \A s \in Playoffs : series[s].status = "finished"
  /\ ~Calculated(t) => t.manual \cap Automatic = {}

\* automaticResults() answers what the recorded maps determine.
ComputedBy(t) == IF t.finalize THEN recorded ELSE campaign.automatic

ResolveChecks(m) ==
  /\ task[m].phase = "resolve"
  /\ IF MayResolve(task[m])
       THEN /\ task' = [task EXCEPT ![m] =
                 [phase |-> "resolve write", manual |-> @.manual, finalize |-> @.finalize,
                  computed |-> ComputedBy(@)]]
            /\ UNCHANGED <<campaignLock, seasonLock>>
       ELSE Rest(m)
  /\ UNCHANGED <<campaign, ballot, World>>

\* What a calculation keeps of the results before it.
Kept(t) == IF t.finalize THEN {q \in Questions : campaign.results[q] # "none"} \ campaign.automatic
                         ELSE {}

Merge(t) ==
  [q \in Questions |-> IF q \in t.computed THEN "computed"
                       ELSE IF q \in t.manual THEN "hand"
                       ELSE IF q \in Kept(t) THEN campaign.results[q] ELSE "none"]

ResolveWrites(m) ==
  /\ task[m].phase = "resolve write"
  /\ LET t == task[m]
         results == Merge(t)
     IN campaign' = [campaign EXCEPT
          !.results = results, !.automatic = t.computed, !.resolved = TRUE,
          !.calculated = Calculated(t),
          !.published = Calculated(t) /\ \A q \in Questions : results[q] # "none"]
  /\ Rest(m)
  /\ UNCHANGED <<ballot, World>>

(***************************************************************************)
(* The world around the campaign.                                          *)
(***************************************************************************)
\* An administrator edits a series, or an import completes it.
EditSeries(s, status, at) ==
  /\ series' = [series EXCEPT ![s] = [status |-> status, at |-> at]]
  /\ UNCHANGED <<now, recorded, campaign, ballot, task, campaignLock, seasonLock>>

\* The maps of the series are recorded, corrected or removed.
EditMaps(q) ==
  /\ recorded' = q
  /\ UNCHANGED <<now, series, campaign, ballot, task, campaignLock, seasonLock>>

TimePasses ==
  /\ now < LastMoment
  /\ now' = now + 1
  /\ UNCHANGED <<series, recorded, campaign, ballot, task, campaignLock, seasonLock>>

\* Windows: what a manager may ask for; Edits: what may become of a series.
CrystalNext(Windows, Edits) ==
  \/ \E p \in Players : \/ \E b \in {1, 2} : SaveLocks(p, b)
                        \/ SaveChecks(p) \/ SaveWrites(p)
  \/ \E m \in Managers :
       \/ \E w \in Windows : ConfigureLocks(m, w[1], w[2])
       \/ \E manual \in SUBSET Questions, f \in BOOLEAN : ResolveLocks(m, manual, f)
       \/ ConfigureChecks(m) \/ ConfigureWrites(m) \/ ResolveChecks(m) \/ ResolveWrites(m)
  \/ TimePasses
  \/ \E s \in Series, e \in Edits : EditSeries(s, e.status, e.at)
  \/ \E q \in SUBSET Automatic : EditMaps(q)

CrystalSpec ==
  CrystalInit /\ [][CrystalNext(Moments \X Moments,
                               [status: SeriesStates, at: Moments \cup {Unset}])]_crystalVars

(***************************************************************************)
(* Properties.                                                             *)
(***************************************************************************)
Campaigns ==
  [opens: Moments, closes: Moments, results: [Questions -> Sources],
   automatic: SUBSET Automatic, calculated: BOOLEAN, published: BOOLEAN, resolved: BOOLEAN]

CrystalTypeOK ==
  /\ now \in Moments /\ recorded \subseteq Automatic
  /\ series \in [Series -> [status: SeriesStates, at: Moments \cup {Unset}]]
  /\ campaign \in Campaigns \cup {NoCampaign}
  /\ ballot \in [Players -> 0..2]
  /\ DOMAIN task = Workers /\ campaignLock \in Workers \cup {Unlocked}
  /\ seasonLock \in Managers \cup {Unlocked}

\* No ballot is written once a campaign has results, although the ballot was
\* checked and the playoffs go on in between (save() holds the campaign row).
BallotsBeforeResults == [][ballot' # ballot => ~HasResults(campaign)]_<<ballot, campaign>>

\* The answers of a published campaign are complete, and those that count as
\* computed are the ones of the last calculation: none is left of an earlier
\* one (resolve()).
ResultsAreCurrent ==
  /\ {q \in Questions : campaign.results[q] = "computed"} = campaign.automatic
  /\ campaign.published => campaign.calculated /\ \A q \in Questions : campaign.results[q] # "none"

\* Ballots come before the results, and the results of a campaign are those of
\* its last calculation (crystal-ball.repository.ts).
BallotsStand == BallotsBeforeResults /\ []ResultsAreCurrent
=============================================================================
