--------------------------- MODULE EditorialScreen ---------------------------
(***************************************************************************)
(* The editor of articles of the web client: EditorialManager with its     *)
(* ArticleForm, the image pickers, and the images it has uploaded          *)
(* (pending-images.ts), while its calls are under way.                     *)
(*                                                                         *)
(* There is one article.  A form is the set of the uploaded images that    *)
(* its texts name; every selection makes a new form.  What the server does *)
(* with a call is that of HomeContent, without its steps.                  *)
(***************************************************************************)
EXTENDS Naturals, FiniteSets

CONSTANTS
    Shots,     \* images, each uploaded at most once
    LastForm,  \* bound: forms that are opened
    LastSave   \* bound: saves of anybody

ASSUME EditorialAssumption == LastForm \in Nat /\ LastSave \in Nat

Forms == 1..LastForm

VARIABLES
    article,   \* the images that the stored article names
    edition,   \* the number of the save that stored it
    files,     \* the files of the server
    form,      \* the form that is open, 0 for none; forms are numbered
    formsOpened,    \* forms opened so far
    draft,     \* what the open form names
    base,      \* the edition that the open form last got
    formBusy,  \* EditorialManager.busy
    pendingImages,   \* form -> its PendingImages: [urls, disposed, saving]
    imageUploads,   \* image -> [phase, form]
    save,      \* the PUT or DELETE of the article
    discards,  \* the POSTs of images to discard
    abandoned, \* images nobody will ask to discard: their page or a call was lost
    blindSaves  \* whether a save was made over a version its form had not seen, or
                \* without anybody who waited for it

editorialVars ==
    <<article, edition, files, form, formsOpened, draft, base, formBusy,
      pendingImages, imageUploads, save, discards, abandoned, blindSaves>>

NoImageUpload == [phase |-> "none", form |-> 0]
NotSaved == [phase |-> "none", form |-> 0, images |-> {}, urls |-> {}, over |-> 0,
             deletes |-> FALSE]
FreshImages == [urls |-> {}, disposed |-> FALSE, saving |-> FALSE]

EditorialInit ==
    /\ article = {} /\ edition = 0 /\ files = {}
    /\ form = 0 /\ formsOpened = 0
    /\ draft = {} /\ base = 0 /\ formBusy = FALSE
    /\ pendingImages = [f \in Forms |-> FreshImages]
    /\ imageUploads = [i \in Shots |-> NoImageUpload]
    /\ save = NotSaved
    /\ discards = {} /\ abandoned = {}
    /\ blindSaves = FALSE

articleVars == <<article, edition, files>>
editors == <<form, formsOpened, draft, base>>

\* cleanup() of pending images p, unless a save is under way.
Discarded(p) == IF p.disposed /\ ~ p.saving THEN p.urls ELSE {}
Cleaned(p) == [p EXCEPT !.urls = @ \ Discarded(p)]
Asks(urls) == discards' = discards \cup ({urls} \ {{}})

\* The form f has these pending images now, and cleanup() runs if it is disposed.
Becomes(f, p) ==
    /\ pendingImages' = [pendingImages EXCEPT ![f] = Cleaned(p)]
    /\ Asks(Discarded(p))

-----------------------------------------------------------------------------
(* The forms. *)

Disposed(f) == [pendingImages[f] EXCEPT !.disposed = TRUE]

Closes == IF form = 0 THEN UNCHANGED <<pendingImages, discards>>
                      ELSE Becomes(form, Disposed(form))

\* select(): an article or a new one; the form of before goes, with its effect.
SelectArticle ==
    /\ ~ formBusy /\ formsOpened < LastForm
    /\ Closes
    /\ formsOpened' = formsOpened + 1 /\ form' = formsOpened + 1
    /\ draft' = article /\ base' = edition
    /\ UNCHANGED <<articleVars, formBusy, imageUploads, save, abandoned,
                   blindSaves>>

\* The tab, another page (the leave guard refuses them while it is busy) or the
\* end of the session, which nothing refuses: calls go on without a form.
Leave ==
    /\ form # 0
    /\ Closes
    /\ form' = 0 /\ draft' = {} /\ formBusy' = FALSE
    /\ UNCHANGED <<articleVars, formsOpened, base, imageUploads, save,
                   abandoned, blindSaves>>

\* pagehide: dispose() is the last that this page does; a call that has
\* already been sent may still reach the server.
ClosePage ==
    /\ form # 0
    /\ pendingImages' = [f \in Forms |-> FreshImages]
    /\ Asks(Discarded(Disposed(form)))
    /\ abandoned' = abandoned \cup Cleaned(Disposed(form)).urls
                              \cup (UNION {pendingImages[f].urls : f \in Forms \ {form}})
                              \cup {i \in Shots : imageUploads[i].phase \in {"sent", "stored"}}
    /\ imageUploads' = [i \in Shots |->
          CASE imageUploads[i].phase = "sent" -> [imageUploads[i] EXCEPT !.form = 0]
            [] imageUploads[i].phase = "stored" -> NoImageUpload
            [] OTHER -> imageUploads[i]]
    /\ save' = IF save.phase = "sent" THEN [save EXCEPT !.form = 0] ELSE NotSaved
    /\ form' = 0 /\ draft' = {} /\ formBusy' = FALSE
    /\ UNCHANGED <<articleVars, formsOpened, base, blindSaves>>

-----------------------------------------------------------------------------
(* The images. *)

PickFile(i) ==
    /\ form # 0 /\ ~ formBusy
    /\ imageUploads[i] = NoImageUpload /\ i \notin files \cup abandoned
    /\ imageUploads' = [imageUploads EXCEPT ![i] = [phase |-> "sent", form |-> form]]
    /\ formBusy' = TRUE
    /\ UNCHANGED <<articleVars, editors, pendingImages, save, discards,
                   abandoned, blindSaves>>

ServerStores(i) ==
    /\ imageUploads[i].phase = "sent"
    /\ files' = files \cup {i}
    /\ imageUploads' = [imageUploads EXCEPT ![i] =
          IF @.form = 0 THEN [phase |-> "lost", form |-> 0] ELSE [@ EXCEPT !.phase = "stored"]]
    /\ UNCHANGED <<article, edition, editors, formBusy, pendingImages, save,
                   discards, abandoned, blindSaves>>

\* onUploaded(): add(), which cleans up at once after dispose(), and update(),
\* which does nothing in a form that is gone; then onBusy(false).
UploadArrives(i) ==
    /\ imageUploads[i].phase = "stored"
    /\ LET f == imageUploads[i].form IN
         /\ Becomes(f, [pendingImages[f] EXCEPT !.urls = @ \cup {i}])
         /\ draft' = IF f = form THEN draft \cup {i} ELSE draft
         /\ formBusy' = IF f = form THEN FALSE ELSE formBusy
    /\ imageUploads' = [imageUploads EXCEPT ![i] = [phase |-> "told", form |-> 0]]
    /\ UNCHANGED <<articleVars, form, formsOpened, base, save, abandoned,
                   blindSaves>>

\* Refused, or its answer is lost: the page does not know of the file.
UploadFails(i) ==
    /\ imageUploads[i].phase \in {"sent", "stored"} /\ imageUploads[i].form # 0
    /\ formBusy' = IF imageUploads[i].form = form THEN FALSE ELSE formBusy
    /\ abandoned' = abandoned \cup {i}
    /\ imageUploads' = [imageUploads EXCEPT ![i] = [phase |-> "lost", form |-> 0]]
    /\ UNCHANGED <<articleVars, editors, pendingImages, save, discards,
                   blindSaves>>

RemoveFromDraft(i) ==
    /\ i \in draft /\ ~ formBusy
    /\ draft' = draft \ {i}
    /\ UNCHANGED <<articleVars, form, formsOpened, base, formBusy,
                   pendingImages, imageUploads, save, discards, abandoned,
                   blindSaves>>

-----------------------------------------------------------------------------
(* Saving. *)

\* The submission of the form: PendingImages.save() with saveArticle().
SubmitArticle ==
    /\ form # 0 /\ ~ formBusy /\ save = NotSaved /\ edition < LastSave
    /\ formBusy' = TRUE
    /\ pendingImages' = [pendingImages EXCEPT ![form].saving = TRUE]
    /\ save' = [phase |-> "sent", form |-> form, images |-> draft,
                urls |-> pendingImages[form].urls, over |-> base, deletes |-> FALSE]
    /\ UNCHANGED <<articleVars, editors, imageUploads, discards, abandoned,
                   blindSaves>>

\* remove() with deleteArticle(): the uploaded images stay pending.
RemoveArticle ==
    /\ form # 0 /\ ~ formBusy /\ save = NotSaved /\ edition < LastSave
    /\ formBusy' = TRUE
    /\ save' = [phase |-> "sent", form |-> form, images |-> {}, urls |-> {}, over |-> base,
                deletes |-> TRUE]
    /\ UNCHANGED <<articleVars, editors, pendingImages, imageUploads,
                   discards, abandoned, blindSaves>>

\* The article is stored, or gone, and of its images of before and those uploaded the
\* ones it does not name are removed.
ServerSavesArticle ==
    /\ save.phase = "sent"
    /\ article' = save.images /\ edition' = edition + 1
    /\ files' = files \ ((article \cup save.urls) \ save.images)
    /\ blindSaves' = (blindSaves \/ save.form = 0 \/ save.over # edition)
    /\ save' = IF save.form = 0 THEN NotSaved
               ELSE [save EXCEPT !.phase = "stored", !.over = edition + 1]
    /\ UNCHANGED <<editors, formBusy, pendingImages, imageUploads, discards,
                   abandoned>>

\* Another editor saves the article without an image.
OthersSave(i) ==
    /\ i \in article /\ edition < LastSave
    /\ edition' = edition + 1
    /\ article' = article \ {i} /\ files' = files \ {i}
    /\ UNCHANGED <<editors, formBusy, pendingImages, imageUploads, save,
                   discards, abandoned, blindSaves>>

\* onSaved(): the form of a new article is replaced, that of another stays; in
\* both it shows what was saved.
ArticleSaved ==
    /\ save.phase = "stored" /\ ~ save.deletes
    /\ Becomes(save.form, [pendingImages[save.form] EXCEPT !.urls = {}, !.saving = FALSE])
    /\ formBusy' = IF save.form = form THEN FALSE ELSE formBusy
    /\ base' = IF save.form = form THEN save.over ELSE base
    /\ save' = NotSaved
    /\ UNCHANGED <<articleVars, form, formsOpened, draft, imageUploads,
                   abandoned, blindSaves>>

\* onDeleted(): the form goes, with its effect.
RemovalArrives ==
    /\ save.phase = "stored" /\ save.deletes
    /\ IF save.form = form
       THEN Closes /\ form' = 0 /\ draft' = {} /\ formBusy' = FALSE
       ELSE UNCHANGED <<pendingImages, discards, form, draft, formBusy>>
    /\ save' = NotSaved
    /\ UNCHANGED <<articleVars, formsOpened, base, imageUploads, abandoned,
                   blindSaves>>

\* Refused, or the answer is lost; the server may save it even so.
ArticleSaveFails ==
    /\ save.phase \in {"sent", "stored"} /\ save.form # 0
    /\ Becomes(save.form, [pendingImages[save.form] EXCEPT !.saving = FALSE])
    /\ formBusy' = IF save.form = form THEN FALSE ELSE formBusy
    /\ \/ save' = NotSaved
       \/ save.phase = "sent" /\ save' = [save EXCEPT !.form = 0]
    /\ UNCHANGED <<articleVars, editors, imageUploads, abandoned, blindSaves>>

-----------------------------------------------------------------------------
(* Removing. *)

\* POST of images to discard: those that no article names are removed.
ServerDiscards(d) ==
    /\ discards' = discards \ {d}
    /\ files' = files \ (d \ article)
    /\ UNCHANGED <<article, edition, editors, formBusy, pendingImages,
                   imageUploads, save, abandoned, blindSaves>>

\* The browser is offline: the sweep of the server remains.
DiscardIsLost(d) ==
    /\ discards' = discards \ {d}
    /\ abandoned' = abandoned \cup d
    /\ UNCHANGED <<articleVars, editors, formBusy, pendingImages,
                   imageUploads, save, blindSaves>>

EditorialNext ==
    \/ SelectArticle \/ Leave \/ ClosePage
    \/ \E i \in Shots :
         PickFile(i) \/ ServerStores(i) \/ UploadArrives(i) \/ UploadFails(i) \/ RemoveFromDraft(i)
         \/ OthersSave(i)
    \/ SubmitArticle \/ RemoveArticle \/ ServerSavesArticle \/ ArticleSaved \/ RemovalArrives \/ ArticleSaveFails
    \/ \E d \in discards : ServerDiscards(d) \/ DiscardIsLost(d)

EditorialSpec == EditorialInit /\ [][EditorialNext]_editorialVars

-----------------------------------------------------------------------------
(***************************************************************************)
(* Properties.                                                             *)
(***************************************************************************)
EditorialTypeOK ==
    /\ article \subseteq Shots /\ files \subseteq Shots /\ draft \subseteq Shots
    /\ base \in 0..edition /\ edition \in 0..(LastSave + 1)
    /\ form \in 0..formsOpened /\ formsOpened \in 0..LastForm
    /\ formBusy \in BOOLEAN
    /\ \A f \in Forms : pendingImages[f].urls \subseteq Shots
    /\ discards \subseteq SUBSET Shots /\ abandoned \subseteq Shots

\* The images of the article exist: cleaning up never overtakes the save that
\* names them (pending-images.ts), unless a save was made over a version that
\* its form had not seen, which nothing refuses, or nobody waited for it.
ArticleImagesExist == ~ blindSaves => article \subseteq files

\* No file is forgotten: it is named by the article or by a save, pending in a
\* form that will ask to discard it, or in such a request, unless a call about it
\* or its page was lost.
FilesAreAccountedFor ==
    \A i \in files \ abandoned :
       \/ i \in article \/ i \in save.images \cup save.urls
       \/ imageUploads[i].phase = "stored"
       \/ i \in UNION discards
       \/ \E f \in Forms : i \in pendingImages[f].urls /\ (f = form \/ pendingImages[f].saving)
=============================================================================
