-------------------------- MODULE PredictionScreen --------------------------
(***************************************************************************)
(* The predictions page: usePredictions() polls the matches with the own   *)
(* picks and saves a pick, PredictionCard keeps what its user is choosing. *)
(*                                                                         *)
(* A page is a division, a round and a user (`predictionsKey`); of each it *)
(* shows one match, and the two requests of a read are one.  React runs    *)
(* the clean-up of an effect, which aborts its load, with the next effect: *)
(* until then an answer is still taken.                                    *)
(***************************************************************************)
EXTENDS Naturals, Sequences

CONSTANTS
    PredictionPages, FirstPredictions,
    OpenPages,   \* those whose match is open at first
    LastPickSave, \* bound: requests of save()
    Wins         \* maps that win the match: floor(bestOf / 2) + 1

ASSUME PredictionScreenAssumption ==
    /\ FirstPredictions \in PredictionPages /\ "none" \notin PredictionPages
    /\ LastPickSave \in Nat /\ Wins \in Nat \ {0}

VARIABLES
    picksOf,     \* page -> the picks of its user that were stored, in order
    voting,      \* page -> the match is open
    predictionsKey, \* the page on display
    picksResult,      \* [key, open, version] or NoResult: its data and its pick
    picksDue,    \* the effect has to run again
    picksLoad,   \* the load that was not aborted
    card,        \* the card of the match
    pickSaves,   \* request -> its step
    answered     \* page -> the newest pick whose saving this browser was told of

predictionScreenVars == <<picksOf, voting, predictionsKey, picksResult, picksDue,
                          picksLoad, card, pickSaves, answered>>

NoPrediction == [team |-> "none", score |-> <<>>]
PickAt(p, v) == IF v = 0 THEN NoPrediction ELSE picksOf[p][v]
PickSaves == 1..LastPickSave
NoSave == 0
NoResult == [key |-> "none", open |-> FALSE, version |-> 0]
NoPicksLoad == [phase |-> "none", seen |-> NoResult]
Unmounted == [phase |-> "none", open |-> FALSE, draft |-> NoPrediction, saving |-> NoSave]
NotSavingPick == [step |-> "idle", key |-> "none", pick |-> NoPrediction, version |-> 0]

PredictionScreenInit ==
    /\ picksOf = [p \in PredictionPages |-> <<>>]
    /\ voting = [p \in PredictionPages |-> p \in OpenPages]
    /\ predictionsKey = FirstPredictions
    /\ picksResult = NoResult
    /\ picksDue = TRUE
    /\ picksLoad = NoPicksLoad
    /\ card = Unmounted
    /\ pickSaves = [s \in PickSaves |-> NotSavingPick]
    /\ answered = [p \in PredictionPages |-> 0]

-----------------------------------------------------------------------------
(* What is shown. *)

PredictionsShown == picksResult.key = predictionsKey
ShownPick == PickAt(picksResult.key, picksResult.version)

NewCard == [phase |-> "shown", open |-> picksResult.open, draft |-> ShownPick, saving |-> NoSave]

\* A card is new when its match moves between the two groups; an effect of
\* the card takes over a saved pick that has changed.
Rendered ==
    IF ~ PredictionsShown' THEN Unmounted
    ELSE IF ~ PredictionsShown \/ card.open # picksResult'.open THEN NewCard'
    ELSE IF ShownPick' # ShownPick THEN [card EXCEPT !.draft = ShownPick']
    ELSE card

-----------------------------------------------------------------------------
(* usePredictions(). *)

\* The clean-up aborts the last load and its timer; a new one is started.
LoadPredictions ==
    /\ picksDue
    /\ picksDue' = FALSE
    /\ picksLoad' = [phase |-> "sent", seen |-> [NoResult EXCEPT !.key = predictionsKey]]
    /\ UNCHANGED <<picksOf, voting, predictionsKey, picksResult, card, pickSaves, answered>>

ServePredictions ==
    /\ picksLoad.phase = "sent"
    /\ LET p == picksLoad.seen.key IN
       picksLoad' = [phase |-> "answered",
                     seen |-> [key |-> p, open |-> voting[p], version |-> Len(picksOf[p])]]
    /\ UNCHANGED <<picksOf, voting, predictionsKey, picksResult, picksDue, card, pickSaves, answered>>

PredictionsArrive ==
    /\ picksLoad.phase = "answered"
    /\ picksResult' = picksLoad.seen
    /\ picksLoad' = NoPicksLoad
    /\ UNCHANGED <<picksOf, voting, predictionsKey, picksDue, pickSaves, answered>>
    /\ card' = Rendered

\* The page shows an error instead of its cards.
PredictionsFail ==
    /\ picksLoad.phase # "none"
    /\ picksResult' = NoResult
    /\ picksLoad' = NoPicksLoad
    /\ UNCHANGED <<picksOf, voting, predictionsKey, picksDue, pickSaves, answered>>
    /\ card' = Rendered

\* The 15 seconds are over, or the user tries again.
PredictionsAgain ==
    /\ picksDue' = TRUE
    /\ UNCHANGED <<picksOf, voting, predictionsKey, picksResult, picksLoad, card,
                   pickSaves, answered>>

\* Another division, round or user.
ShowPredictions(p) ==
    /\ p # predictionsKey
    /\ predictionsKey' = p
    /\ picksDue' = TRUE
    /\ UNCHANGED <<picksOf, voting, picksResult, picksLoad, pickSaves, answered>>
    /\ card' = Rendered

-----------------------------------------------------------------------------
(* PredictionCard. *)

MayVote == card.phase = "shown" /\ card.open /\ card.saving = NoSave

Edit(d) ==
    /\ card' = [card EXCEPT !.draft = d]
    /\ UNCHANGED <<picksOf, voting, predictionsKey, picksResult, picksDue, picksLoad, pickSaves, answered>>

\* Another team starts without a score.
WithTeam(t) == [team |-> t, score |-> <<>>]

ChooseTeam(t) == MayVote /\ Edit(WithTeam(t))

ScoresFor(t) == {IF t = "home" THEN <<Wins, l>> ELSE <<l, Wins>> : l \in 0..(Wins - 1)}

ChooseScore ==
    /\ MayVote
    /\ card.draft.team # "none"
    /\ \E s \in ScoresFor(card.draft.team) \cup {<<>>} :
        Edit([card.draft EXCEPT !.score = s])

SubmitPick(s) ==
    /\ MayVote
    /\ card.draft.team # "none"
    /\ \A e \in PickSaves : e < s <=> pickSaves[e].step # "idle"
    /\ pickSaves' = [pickSaves EXCEPT ![s] =
                        [step |-> "sent", key |-> predictionsKey,
                         pick |-> card.draft, version |-> 0]]
    /\ card' = [card EXCEPT !.saving = s]
    /\ UNCHANGED <<picksOf, voting, predictionsKey, picksResult, picksDue, picksLoad, answered>>

\* The server stores the pick; of a match that is closed it does not.
StorePick(s) ==
    LET p == pickSaves[s].key IN
    /\ pickSaves[s].step = "sent"
    /\ voting[p]
    /\ picksOf' = [picksOf EXCEPT ![p] = Append(@, pickSaves[s].pick)]
    /\ pickSaves' = [pickSaves EXCEPT ![s] = [NotSavingPick EXCEPT !.step = "stored",
                                  !.key = p, !.version = Len(picksOf[p]) + 1]]
    /\ UNCHANGED <<voting, predictionsKey, picksResult, picksDue, picksLoad, card, answered>>

\* setSaving(false) of a card that is gone does nothing.
Released(c, s) == IF c.saving = s THEN [c EXCEPT !.saving = NoSave] ELSE c

\* save() goes on: its pick is put into the result of its own page.
PickSaved(s) ==
    /\ pickSaves[s].step = "stored"
    /\ picksResult' = IF picksResult.key = pickSaves[s].key
                 THEN [picksResult EXCEPT !.version = pickSaves[s].version] ELSE picksResult
    /\ answered' = [answered EXCEPT ![pickSaves[s].key] =
                        IF pickSaves[s].version > @ THEN pickSaves[s].version ELSE @]
    /\ pickSaves' = [pickSaves EXCEPT ![s] = [NotSavingPick EXCEPT !.step = "over"]]
    /\ picksDue' = TRUE
    /\ UNCHANGED <<picksOf, voting, predictionsKey, picksLoad>>
    /\ card' = Released(Rendered, s)

\* Refused, or no answer comes: what was stored stays so, and is found by a poll
\* like the pick of another browser.
PickNotSaved(s) ==
    /\ pickSaves[s].step \in {"sent", "stored"}
    /\ pickSaves' = [pickSaves EXCEPT ![s] = [NotSavingPick EXCEPT !.step = "over"]]
    /\ card' = Released(card, s)
    /\ UNCHANGED <<picksOf, voting, predictionsKey, picksResult, picksDue, picksLoad, answered>>

\* The hour before the match begins.
VotingCloses(p) ==
    /\ voting[p]
    /\ voting' = [voting EXCEPT ![p] = FALSE]
    /\ UNCHANGED <<picksOf, predictionsKey, picksResult, picksDue, picksLoad,
                   card, pickSaves, answered>>

PredictionScreenNext ==
    \/ LoadPredictions \/ ServePredictions \/ PredictionsArrive \/ PredictionsFail
    \/ PredictionsAgain
    \/ \E t \in {"home", "away"} : ChooseTeam(t)
    \/ ChooseScore
    \/ \E s \in PickSaves : SubmitPick(s) \/ StorePick(s) \/ PickSaved(s) \/ PickNotSaved(s)
    \/ \E p \in PredictionPages : ShowPredictions(p) \/ VotingCloses(p)

PredictionScreenSpec ==
    PredictionScreenInit /\ [][PredictionScreenNext]_predictionScreenVars

-----------------------------------------------------------------------------

Picks == [team : {"none", "home", "away"},
          score : {<<>>} \cup ScoresFor("home") \cup ScoresFor("away")]
PredictionScreenTypeOK ==
    /\ \A p \in PredictionPages : picksOf[p] \in Seq(Picks) /\ Len(picksOf[p]) <= LastPickSave
    /\ voting \in [PredictionPages -> BOOLEAN]
    /\ predictionsKey \in PredictionPages
    /\ picksResult.key \in PredictionPages \cup {"none"} /\ picksResult.version <= LastPickSave
    /\ picksDue \in BOOLEAN
    /\ picksLoad.phase \in {"none", "sent", "answered"}
    /\ card.draft \in Picks /\ card.saving \in PickSaves \cup {NoSave}
    /\ \A s \in PickSaves : pickSaves[s].step \in {"idle", "sent", "stored", "over"}

\* Once nothing is on its way, the page does not show an older pick than one
\* whose saving it was told of, although answers of reads and of two saves of
\* one card may come in any order (usePredictions.ts:75-88).
SavedPickIsReadBack ==
    PredictionsShown /\ ~ picksDue /\ picksLoad = NoPicksLoad =>
        picksResult.version >= answered[predictionsKey]

\* A stored or sent score is one that the chosen team wins, although drafts are
\* replaced by stored picks while they are being written
\* (PredictionCard.tsx:30-47, :124-128).
ScoresFitTheirTeam ==
    \A pick \in {pickSaves[s].pick : s \in PickSaves} \cup {card.draft} :
        pick.score = <<>> \/ pick.score \in ScoresFor(pick.team)

\* What a user is choosing is not lost to a poll, a failed save or the answer of
\* an earlier page; only another saved pick, the closing of the vote or a page
\* that could not be read replaces it (PredictionCard.tsx:29).
ChoiceIsKept ==
    [][(/\ card.phase = "shown" /\ card'.phase = "shown"
        /\ predictionsKey' = predictionsKey /\ card'.open = card.open
        /\ ShownPick' = ShownPick
        /\ <<picksResult, picksLoad, picksDue, pickSaves>>' # <<picksResult, picksLoad, picksDue, pickSaves>>)
       => card'.draft = card.draft]_predictionScreenVars
=============================================================================
