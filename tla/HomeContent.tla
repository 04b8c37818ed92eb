----------------------------- MODULE HomeContent -----------------------------
(***************************************************************************)
(* The articles of the home page and the files of their images:            *)
(* home-content.service.ts, postgres-home-content.repository.ts and        *)
(* editorial-image.store.ts, with the hourly clean-up of server.ts.        *)
(*                                                                         *)
(* An article is the set of uploaded images that its cover and its body    *)
(* name; its other texts and the date of its publication are left out.     *)
(* Saving is one transaction, removing images another, and the files are   *)
(* part of neither.                                                        *)
(***************************************************************************)
EXTENDS Naturals, FiniteSets

CONSTANTS Writers,    \* editors, each with one request at a time
          Articles,
          Images      \* names are random: one is uploaded at most once

Cleaner == "cleanup"  \* the timer; cleanupImages() runs one at a time
Unheld == "free"

ASSUME HomeAssumption == Writers \cap {Cleaner, Unheld} = {}

ImageUsers == Writers \cup {Cleaner}
Quiet == [phase |-> "quiet"]

VARIABLES text,       \* the images of each stored article
          disk, aged, \* files, and those older than seven days
          used,       \* names that were given out
          step,       \* the request of each client
          tableLock   \* the remover that holds editorial_articles

homeVars == <<text, disk, aged, used, step, tableLock>>

Missing == [stored |-> FALSE, images |-> {}]

HomeInit ==
  /\ text = [a \in Articles |-> Missing]
  /\ disk = {} /\ aged = {} /\ used = {}
  /\ step = [c \in ImageUsers |-> Quiet]
  /\ tableLock = Unheld

Goes(c, s) == step' = [step EXCEPT ![c] = s]

(***************************************************************************)
(* The image store.                                                        *)
(***************************************************************************)
Upload(i) ==
  /\ i \notin used
  /\ used' = used \cup {i} /\ disk' = disk \cup {i}
  /\ UNCHANGED <<text, aged, step, tableLock>>

Ages(i) ==
  /\ i \in disk \ aged
  /\ aged' = aged \cup {i}
  /\ UNCHANGED <<text, disk, used, step, tableLock>>

(***************************************************************************)
(* saveArticle() and deleteArticle().                                      *)
(***************************************************************************)
\* What there is before, read outside the transaction; a new article has no
\* identity yet that another request could name.
ArticleBegins(c, a, images, uploaded) ==
  /\ c \in Writers /\ step[c] = Quiet
  /\ \A d \in Writers : step[d].phase \in {"save", "written"} =>
                         ~(step[d].article = a /\ step[d].new)
  /\ Goes(c, [phase |-> "save", article |-> a, images |-> images, new |-> ~text[a].stored,
              clean |-> text[a].images \cup uploaded])
  /\ UNCHANGED <<text, disk, aged, used, tableLock>>

\* Mutant: articles are written while images are removed.
WriterFreeAlways == TRUE

\* A write waits for the lock of a remover, and a remover for the writers.
WriterFree == tableLock = Unheld
Written(s) == s.phase \in {"written", "deleted"}

RowUnlocked(a) == \A d \in Writers : Written(step[d]) => step[d].article # a

\* INSERT, or UPDATE of the row FOR UPDATE, which may be gone by now.
ArticleWrites(c) ==
  /\ step[c].phase = "save" /\ WriterFree /\ RowUnlocked(step[c].article)
  /\ IF step[c].new \/ text[step[c].article].stored
       THEN Goes(c, [step[c] EXCEPT !.phase = "written"])
       ELSE Goes(c, Quiet)
  /\ UNCHANGED <<text, disk, aged, used, tableLock>>

ArticleCommits(c) ==
  /\ step[c].phase = "written"
  /\ LET s == step[c] IN
       /\ text' = [text EXCEPT ![s.article] = [stored |-> TRUE, images |-> s.images]]
       /\ Goes(c, [phase |-> "clean", clean |-> s.clean])
  /\ UNCHANGED <<disk, aged, used, tableLock>>

DeletionBegins(c, a) ==
  /\ c \in Writers /\ step[c] = Quiet
  /\ Goes(c, [phase |-> "delete", article |-> a, clean |-> text[a].images])
  /\ UNCHANGED <<text, disk, aged, used, tableLock>>

\* An article that is no longer there ends the request.
DeletionWrites(c) ==
  /\ step[c].phase = "delete" /\ WriterFree /\ RowUnlocked(step[c].article)
  /\ IF text[step[c].article].stored THEN Goes(c, [step[c] EXCEPT !.phase = "deleted"])
                                     ELSE Goes(c, Quiet)
  /\ UNCHANGED <<text, disk, aged, used, tableLock>>

DeletionCommits(c) ==
  /\ step[c].phase = "deleted"
  /\ text' = [text EXCEPT ![step[c].article] = Missing]
  /\ Goes(c, [phase |-> "clean", clean |-> step[c].clean])
  /\ UNCHANGED <<disk, aged, used, tableLock>>

(***************************************************************************)
(* removeUnusedImages(), after a write, for a discarded draft, and for the *)
(* files that have expired.                                                *)
(***************************************************************************)
Discard(c, urls) ==
  /\ c \in Writers /\ step[c] = Quiet /\ urls # {}
  /\ Goes(c, [phase |-> "clean", clean |-> urls])
  /\ UNCHANGED <<text, disk, aged, used, tableLock>>

CleanupExpired ==
  /\ step[Cleaner] = Quiet /\ aged # {}
  /\ Goes(Cleaner, [phase |-> "clean", clean |-> aged])
  /\ UNCHANGED <<text, disk, aged, used, tableLock>>

NothingToClean(c) ==
  /\ step[c].phase = "clean" /\ step[c].clean = {}
  /\ Goes(c, Quiet)
  /\ UNCHANGED <<text, disk, aged, used, tableLock>>

\* LOCK TABLE ... IN SHARE ROW EXCLUSIVE MODE.
NoWriter == \A d \in Writers : ~Written(step[d])

LocksArticles(c) ==
  /\ step[c].phase = "clean" /\ step[c].clean # {} /\ WriterFree /\ NoWriter
  /\ tableLock' = c
  /\ Goes(c, [step[c] EXCEPT !.phase = "locked"])
  /\ UNCHANGED <<text, disk, aged, used>>

Referenced == UNION {text[a].images : a \in Articles}

ReadsArticles(c) ==
  /\ step[c].phase = "locked"
  /\ Goes(c, [phase |-> "removing", clean |-> step[c].clean \ Referenced])
  /\ UNCHANGED <<text, disk, aged, used, tableLock>>

Unlinks(c) ==
  /\ step[c].phase = "removing"
  /\ \E i \in step[c].clean :
       /\ disk' = disk \ {i} /\ aged' = aged \ {i}
       /\ Goes(c, [step[c] EXCEPT !.clean = @ \ {i}])
  /\ UNCHANGED <<text, used, tableLock>>

\* The end, or an unlink that fails: what is left stays on disk.
RemovalEnds(c) ==
  /\ step[c].phase = "removing"
  /\ tableLock' = Unheld
  /\ Goes(c, Quiet)
  /\ UNCHANGED <<text, disk, aged, used>>

HomeNext ==
  \/ \E i \in Images : Upload(i) \/ Ages(i)
  \/ \E c \in Writers, a \in Articles :
       \/ DeletionBegins(c, a)
       \/ \E images, uploaded \in SUBSET used : ArticleBegins(c, a, images, uploaded)
  \/ \E c \in Writers, urls \in SUBSET used : Discard(c, urls)
  \/ \E c \in Writers :
       ArticleWrites(c) \/ ArticleCommits(c) \/ DeletionWrites(c) \/ DeletionCommits(c)
  \/ \E c \in ImageUsers :
       NothingToClean(c) \/ LocksArticles(c) \/ ReadsArticles(c) \/ Unlinks(c) \/ RemovalEnds(c)
  \/ CleanupExpired

HomeSpec == HomeInit /\ [][HomeNext]_homeVars

(***************************************************************************)
(* Properties.                                                             *)
(***************************************************************************)
HomeTypeOK ==
  /\ text \in [Articles -> [stored: BOOLEAN, images: SUBSET Images]]
  /\ aged \subseteq disk /\ disk \subseteq used /\ used \subseteq Images
  /\ DOMAIN step = ImageUsers
  /\ tableLock \in ImageUsers \cup {Unheld}

\* No file is removed while a stored article names it, although articles are
\* saved at any moment of the removal (removeUnusedImages()).
UsedImagesStay == [][(disk \ disk') \cap Referenced = {}]_<<disk, text>>
=============================================================================
