--------------------------- MODULE EditorsProofs ----------------------------
(***************************************************************************)
(* Theorems about what administrators edit: a write of a record is of the  *)
(* version that its request names, and a deletion removes what was shown;  *)
(* the files of an article are its own, and none is forgotten; a quintet   *)
(* that the page lets through is one the server accepts. They hold for any *)
(* number of members, records, references, forms, images, rounds, rows and *)
(* positions.                                                              *)
(***************************************************************************)
EXTENDS CrudOperations, EditorialScreen, WeeklyTeams, WellFoundedInduction, TLAPS

-----------------------------------------------------------------------------
(***************************************************************************)
(* CrudOperations: the rows that a transaction holds stay as it read them, *)
(* and a plan has all that was there when its transaction opened.          *)
(***************************************************************************)

\* The effects of a plan: a record, what becomes of it and the stamp it was read with.
CrudTriples(actions) == Records \X actions \X (1..LastStamp)

\* The transactions of previews, and those that write.
PreviewJobs ==
  [kind : {"preview"}, root : Records, version : 1..LastStamp, step : {"plan", "effects"},
   gone : SUBSET Records, effects : SUBSET CrudTriples({"delete"}), frontier : SUBSET Records]
WritingJobs ==
  [kind : {"update", "delete", "cascade"}, root : Records, version : 1..LastStamp,
   step : {"write", "check", "plan", "effects", "remove"}, gone : SUBSET Records,
   effects : SUBSET CrudTriples({"delete"}), frontier : SUBSET Records, at : 1..LastStamp]
CrudJobs ==
  {NoJob} \cup [kind : {"create"}, root : Records]
  \cup [kind : {"cascade"}, root : Records \cup {NoRecord}, step : {"actor"}]
  \cup PreviewJobs \cup WritingJobs

CrudTypes ==
  /\ stamp \in [Records -> Removed..LastStamp] /\ lastStamp \in 1..LastStamp
  /\ owners \subseteq Actors
  /\ job \in [Actors -> CrudJobs]
  /\ preview \in [Actors -> [root : Records \cup {NoRecord}, version : 0..LastStamp,
       effects : SUBSET CrudTriples({"delete", "set-null", "blocked"})]]

\* The records that were there when the transaction of stamp t opened and have not
\* been written since, and all that they refer to.
RaisesTo(c) == \A x \in c \cap Existing : Parent[x] \in Existing => Parent[x] \in c
Unwritten(t) ==
  {r \in Existing : \A c \in SUBSET Records :
     {x \in Existing : stamp[x] <= t} \subseteq c /\ RaisesTo(c) => r \in c}

\* The rows that a transaction holds against every other.
HeldRows(b) == Locked(b) \cap Existing

\* Stamps come in order, and what a record refers to has existed.
StampsInOrder ==
  /\ \A r \in Records : stamp[r] <= lastStamp
  /\ \A r \in Existing : Parent[r] = NoRecord \/ stamp[Parent[r]] # NotYet

\* What a transaction has checked under its locks still holds.
PhaseOK(a) ==
  /\ job[a].kind = "create" =>
       /\ stamp[job[a].root] = NotYet
       /\ Parent[job[a].root] = NoRecord \/ stamp[Parent[job[a].root]] # NotYet
  /\ job[a].kind = "cascade" => a \in owners
  /\ Writing(a) =>
       /\ stamp[job[a].root] = job[a].version
       /\ job[a].at <= lastStamp
       /\ job[a].kind = "update" => job[a].step = "write"
       /\ job[a].kind = "delete" => job[a].step \in {"check", "remove"}
       /\ job[a].kind = "cascade" => job[a].step \in {"plan", "effects", "remove"}
       /\ job[a].step # "remove" => job[a].gone = {}

\* Of what is deleted only references that are set to null remain.
GoneIsWhole(a) ==
  Writing(a) =>
    /\ \A c \in Children(job[a].gone) \ job[a].gone : Rule[c] = "set null"
    /\ \A r \in job[a].gone \cup Planned(a) : stamp[r] # NotYet

\* A deletion without a confirmation plans its root, to which nothing refers.
RootStandsAlone(a) ==
  job[a].kind = "delete" =>
    /\ Planned(a) = {job[a].root} /\ job[a].gone = {}
    /\ job[a].step = "remove" => Children({job[a].root}) = {}

\* The plan has every unwritten record that cascades from a planned one, with the
\* stamp it still has, and is the one that the preview showed.
PlanFollows(a) ==
  Writing(a) /\ job[a].kind = "cascade" =>
    /\ job[a].root \in Planned(a)
    /\ job[a].step # "plan" => job[a].frontier = {}
    /\ \A e \in job[a].effects : stamp[e[1]] \in {e[3], Removed} \/ stamp[e[1]] > job[a].at
    /\ \A p \in Planned(a) \ job[a].frontier :
         Cascading({p}) \cap Unwritten(job[a].at) \subseteq Planned(a)
    /\ job[a].step = "remove" => job[a].effects \subseteq preview[a].effects
    /\ job[a].gone \cap Unwritten(job[a].at) \subseteq Planned(a)

ActorOK(a) == PhaseOK(a) /\ GoneIsWhole(a) /\ RootStandsAlone(a) /\ PlanFollows(a)

\* No two transactions hold, clear or refer to one row, or create one record.
Apart(a, b) ==
  /\ HeldRows(a) \cap (HeldRows(b) \cup Cleared(b) \cup KeyLocked(b)) = {}
  /\ job[a].kind = "create" /\ job[b].kind = "create" => job[a].root # job[b].root

CrudInv ==
  /\ CrudTypes /\ StampsInOrder
  /\ \A a \in Actors : ActorOK(a)
  /\ \A a, b \in Actors : a # b => Apart(a, b)


\* What cascades from a set of records is the least set that has them and is closed.
LEMMA CascadeClosure ==
    ASSUME CrudAssumption, NEW rs, rs \subseteq Existing
    PROVE  /\ rs \subseteq Closure(rs) /\ Closure(rs) \subseteq Existing
           /\ \A x \in Existing : Parent[x] \in Closure(rs) /\ Rule[x] = "cascade" => x \in Closure(rs)
           /\ \A c \in SUBSET Records : rs \cup Cascading(c) \subseteq c => Closure(rs) \subseteq c
<1>1. rs \subseteq Records /\ Existing \subseteq Records
    BY DEF Existing
<1>2. rs \subseteq Closure(rs)
    BY <1>1 DEF Closure
<1>3. \A c \in SUBSET Records : rs \cup Cascading(c) \subseteq c => Closure(rs) \subseteq c
    BY DEF Closure
<1>4. Cascading(Existing) \subseteq Existing
    BY DEF Cascading, Children
<1>5. Closure(rs) \subseteq Existing
    BY <1>1, <1>3, <1>4
<1>6. ASSUME NEW x \in Existing, Parent[x] \in Closure(rs), Rule[x] = "cascade"
      PROVE  x \in Closure(rs)
  <2>1. Parent[x] \in Existing
    BY <1>5, <1>6
  <2>2. ASSUME NEW c \in SUBSET Records, rs \cup Cascading(c) \subseteq c
        PROVE  x \in c
    <3>1. Parent[x] \in c
        BY <1>3, <1>6, <2>2
    <3>2. x \in Cascading(c)
        BY <1>6, <2>1, <3>1 DEF Cascading, Children
    <3>3. QED
        BY <2>2, <3>2
  <2>3. QED
    BY <1>1, <1>6, <2>2 DEF Closure
<1>7. QED
    BY <1>2, <1>3, <1>5, <1>6

\* The unwritten records are the least set with the old stamps that is closed upwards.
LEMMA UnwrittenFacts ==
    ASSUME NEW t
    PROVE  /\ Unwritten(t) \subseteq Existing
           /\ \A x \in Existing : stamp[x] <= t => x \in Unwritten(t)
           /\ RaisesTo(Unwritten(t))
           /\ \A c \in SUBSET Records :
                {x \in Existing : stamp[x] <= t} \subseteq c /\ RaisesTo(c) => Unwritten(t) \subseteq c
<1>1. Unwritten(t) \subseteq Existing
    BY DEF Unwritten
<1>2. \A x \in Existing : stamp[x] <= t => x \in Unwritten(t)
    BY DEF Unwritten
<1>3. \A c \in SUBSET Records :
         {x \in Existing : stamp[x] <= t} \subseteq c /\ RaisesTo(c) => Unwritten(t) \subseteq c
    BY DEF Unwritten
<1>4. ASSUME NEW x \in Unwritten(t) \cap Existing, Parent[x] \in Existing
      PROVE  Parent[x] \in Unwritten(t)
  <2>1. ASSUME NEW c \in SUBSET Records, {y \in Existing : stamp[y] <= t} \subseteq c, RaisesTo(c)
        PROVE  Parent[x] \in c
    BY <1>3, <1>4, <2>1 DEF RaisesTo
  <2>2. QED
    BY <1>4, <2>1 DEF Unwritten
<1>5. QED
    BY <1>1, <1>2, <1>3, <1>4 DEF RaisesTo

\* Stamps only grow, and a removed record does not return.
Evolves ==
    \A r \in Records : \/ stamp'[r] = stamp[r]
                       \/ stamp'[r] = Removed /\ stamp[r] > 0
                       \/ stamp'[r] > lastStamp /\ stamp[r] # Removed

\* No step adds an unwritten record.
LEMMA UnwrittenShrinks ==
    ASSUME CrudAssumption, CrudTypes, CrudTypes', StampsInOrder, Evolves, NEW t \in Nat, t <= lastStamp
    PROVE  Unwritten(t)' \subseteq Unwritten(t)
<1>1. PICK c \in SUBSET Records : c = Unwritten(t)
    BY DEF Unwritten, Existing
<1>2. stamp \in [Records -> Removed..LastStamp] /\ stamp' \in [Records -> Removed..LastStamp]
      /\ lastStamp \in Int /\ LastStamp \in Nat
    BY DEF CrudTypes, CrudAssumption
<1>3. \A x \in Existing' : stamp'[x] <= t => x \in c
  <2>1. SUFFICES ASSUME NEW x \in Existing', stamp'[x] <= t
                 PROVE  x \in c
    OBVIOUS
  <2>2. x \in Records /\ stamp'[x] > 0
    BY DEF Existing
  <2>3. stamp'[x] = stamp[x]
    BY <1>2, <2>1, <2>2 DEF Evolves, Removed
  <2>4. QED
    BY <1>1, <2>1, <2>2, <2>3, UnwrittenFacts DEF Existing
<1>4. \A x \in c \cap Existing' : Parent[x] \in Existing' => Parent[x] \in c
  <2>1. SUFFICES ASSUME NEW x \in c, Parent[x] \in Existing'
                 PROVE  Parent[x] \in c
    OBVIOUS
  <2>2. x \in Existing
    BY <1>1, UnwrittenFacts
  <2>3. Parent[x] \in Records /\ stamp'[Parent[x]] > 0
    BY <2>1 DEF Existing
  <2>4. stamp[Parent[x]] # NotYet
    BY <2>2, <2>3 DEF StampsInOrder, CrudAssumption
  <2>5. Parent[x] \in Existing
    BY <1>2, <2>3, <2>4 DEF Evolves, Existing, Removed, NotYet
  <2>6. QED
    BY <1>1, <2>2, <2>5, UnwrittenFacts DEF RaisesTo
<1>5. {x \in Existing' : stamp'[x] <= t} \subseteq c
    BY <1>3
<1>6. ASSUME NEW r \in Unwritten(t)'
      PROVE  r \in c
    BY <1>4, <1>5, <1>6 DEF Unwritten, RaisesTo
<1>7. QED
    BY <1>1, <1>6

\* The fields of a transaction that writes.
LEMMA WritingJob ==
    ASSUME CrudTypes, NEW a \in Actors, Writing(a)
    PROVE  /\ job[a] \in WritingJobs
           /\ job[a].root \in Records /\ job[a].version \in 1..LastStamp /\ job[a].at \in 1..LastStamp
           /\ job[a].gone \subseteq Records /\ job[a].frontier \subseteq Records
           /\ job[a].effects \subseteq CrudTriples({"delete"})
           /\ Planned(a) = {e[1] : e \in job[a].effects} /\ Planned(a) \subseteq Records
<1>1. job[a] \in CrudJobs /\ job[a].kind \in {"update", "delete", "cascade"} /\ job[a].step # "actor"
    BY DEF CrudTypes, Writing
<1>2. job[a] \in WritingJobs
    BY <1>1 DEF CrudJobs, PreviewJobs, NoJob
<1>3. job[a].effects \subseteq CrudTriples({"delete"})
    BY <1>2 DEF WritingJobs
<1>4. \A e \in job[a].effects : e[1] \in Records /\ e[2] = "delete"
    BY <1>3 DEF CrudTriples
<1>5. Planned(a) = {e[1] : e \in job[a].effects} /\ Planned(a) \subseteq Records
    BY <1>4 DEF Planned
<1>6. QED
    BY <1>2, <1>3, <1>5 DEF WritingJobs

\* The rows that a transaction holds, and the references it has cleared, when
\* it takes no step and no other touches a row that it holds.
LEMMA BystanderRows ==
    ASSUME CrudAssumption, CrudInv, CrudTypes', Evolves, NEW b \in Actors, job'[b] = job[b],
           \A c \in Existing' \ Existing : Parent[c] \notin HeldRows(b)
    PROVE  /\ HeldRows(b)' \subseteq HeldRows(b) /\ Cleared(b)' \subseteq Cleared(b)
           /\ KeyLocked(b)' = KeyLocked(b) /\ Writing(b)' = Writing(b) /\ Planned(b)' = Planned(b)
           /\ \A g \in SUBSET Locked(b) :
                Writing(b) => {c \in Existing' : Parent[c] \in g \cap Existing'} \subseteq Children(g)
<1>1. KeyLocked(b)' = KeyLocked(b) /\ Writing(b)' = Writing(b) /\ Planned(b)' = Planned(b)
      /\ Locked(b)' = Locked(b)
    BY DEF KeyLocked, Writing, Planned, Locked
<1>2. stamp \in [Records -> Removed..LastStamp] /\ stamp' \in [Records -> Removed..LastStamp]
      /\ lastStamp \in 1..LastStamp /\ LastStamp \in Nat
    BY DEF CrudInv, CrudTypes, CrudAssumption
<1>3. \A r \in Locked(b) : r \in Records /\ stamp[r] # NotYet
  <2>1. ASSUME Writing(b)
        PROVE  \A r \in {job[b].root} \cup job[b].gone : r \in Records /\ stamp[r] # NotYet
    <3>1. PhaseOK(b) /\ GoneIsWhole(b) /\ CrudTypes
        BY DEF CrudInv, ActorOK
    <3>2. stamp[job[b].root] \in 1..LastStamp /\ job[b].root \in Records
        BY <2>1, <3>1, WritingJob DEF PhaseOK
    <3>3. \A r \in job[b].gone : r \in Records /\ stamp[r] # NotYet
        BY <2>1, <3>1, WritingJob DEF GoneIsWhole
    <3>4. QED
        BY <3>2, <3>3 DEF NotYet
  <2>2. QED
    BY <2>1 DEF Locked
<1>4. \A r \in Locked(b) : r \in Existing' => r \in Existing
    BY <1>2, <1>3 DEF Evolves, Existing, Removed, NotYet
<1>5. HeldRows(b)' \subseteq HeldRows(b)
    BY <1>1, <1>4 DEF HeldRows
<1>6. ASSUME NEW g \in SUBSET Locked(b), NEW c \in Existing', Parent[c] \in g \cap Existing'
      PROVE  c \in Children(g)
  <2>1. Parent[c] \in Locked(b) \cap Existing
    BY <1>4, <1>6
  <2>2. c \in Existing
    BY <2>1 DEF HeldRows
  <2>3. QED
    BY <1>6, <2>1, <2>2 DEF Children
<1>7. Cleared(b)' \subseteq Cleared(b)
  <2>1. CASE Writing(b)
    <3>1. PICK g \in SUBSET Locked(b) : g = job[b].gone
        BY <2>1 DEF Locked
    <3>2. Children(g)' \subseteq Children(g)
        BY <1>6 DEF Children
    <3>3. Cleared(b)' = Children(g)' \ g
        BY <1>1, <2>1, <3>1 DEF Cleared
    <3>4. QED
        BY <2>1, <3>1, <3>2, <3>3 DEF Cleared
  <2>2. CASE ~Writing(b)
    BY <1>1, <2>2 DEF Cleared
  <2>3. QED
    BY <2>1, <2>2
<1>8. QED
    BY <1>1, <1>5, <1>6, <1>7

\* Its plan, in the same case.
LEMMA BystanderPlan ==
    ASSUME CrudAssumption, CrudInv, CrudTypes', Evolves, NEW b \in Actors, job'[b] = job[b],
           preview'[b] = preview[b], \A c \in Existing' \ Existing : Parent[c] \notin HeldRows(b)
    PROVE  GoneIsWhole(b)' /\ RootStandsAlone(b)' /\ PlanFollows(b)'
<1> USE DEF CrudInv
<1>1. GoneIsWhole(b) /\ RootStandsAlone(b) /\ PlanFollows(b) /\ PhaseOK(b)
    BY DEF ActorOK
<1>2. Writing(b)' = Writing(b) /\ Planned(b)' = Planned(b)
    BY BystanderRows
<1>3. stamp \in [Records -> Removed..LastStamp] /\ stamp' \in [Records -> Removed..LastStamp]
      /\ lastStamp \in 1..LastStamp /\ LastStamp \in Nat
    BY DEF CrudTypes, CrudAssumption
<1>4. ASSUME NEW g \in SUBSET Locked(b), Writing(b)
      PROVE  Children(g)' \subseteq Children(g)
  <2>1. {c \in Existing' : Parent[c] \in g \cap Existing'} \subseteq Children(g)
    BY <1>4, BystanderRows
  <2>2. QED
    BY <2>1 DEF Children
<1>5. \A r \in Records : stamp[r] # NotYet => stamp'[r] # NotYet
    BY <1>3 DEF Evolves, NotYet, Removed
<1>6. GoneIsWhole(b)'
  <2>1. SUFFICES ASSUME Writing(b)
                 PROVE  /\ \A c \in Children(job[b].gone)' \ job[b].gone : Rule[c] = "set null"
                        /\ \A r \in job[b].gone \cup Planned(b) : stamp'[r] # NotYet
    BY <1>2 DEF GoneIsWhole
  <2>2. PICK g \in SUBSET Locked(b) : g = job[b].gone
    BY <2>1 DEF Locked
  <2>3. job[b].gone \subseteq Records /\ Planned(b) \subseteq Records
    BY <2>1, WritingJob
  <2>4. \A r \in job[b].gone \cup Planned(b) : stamp'[r] # NotYet
    BY <1>1, <1>5, <2>1, <2>3 DEF GoneIsWhole
  <2>5. Children(job[b].gone)' = Children(g)'
    BY <2>2
  <2>6. \A c \in Children(g) \ g : Rule[c] = "set null"
    BY <1>1, <2>1, <2>2 DEF GoneIsWhole
  <2>7. QED
    BY <1>4, <2>1, <2>2, <2>4, <2>5, <2>6
<1>7. RootStandsAlone(b)'
  <2>1. SUFFICES ASSUME job[b].kind = "delete", job[b].step = "remove"
                 PROVE  Children({job[b].root})' = {}
    BY <1>1, <1>2 DEF RootStandsAlone
  <2>2. Writing(b)
    BY <2>1 DEF Writing
  <2>3. PICK g \in SUBSET Locked(b) : g = {job[b].root}
    BY <2>2 DEF Locked
  <2>4. Children(g) = {}
    BY <1>1, <2>1, <2>3 DEF RootStandsAlone
  <2>5. Children({job[b].root})' = Children(g)'
    BY <2>3
  <2>6. QED
    BY <1>4, <2>2, <2>4, <2>5
<1>8. PlanFollows(b)'
  <2>1. SUFFICES ASSUME Writing(b), job[b].kind = "cascade"
                 PROVE  /\ \A e \in job[b].effects :
                             stamp'[e[1]] \in {e[3], Removed} \/ stamp'[e[1]] > job[b].at
                        /\ \A p \in Planned(b) \ job[b].frontier :
                             Cascading({p})' \cap Unwritten(job[b].at)' \subseteq Planned(b)
                        /\ job[b].gone \cap Unwritten(job[b].at)' \subseteq Planned(b)
    BY <1>1, <1>2 DEF PlanFollows
  <2>2. PICK t \in 1..LastStamp : t = job[b].at
    BY <2>1, WritingJob
  <2>3. t <= lastStamp
    BY <1>1, <2>1, <2>2 DEF PhaseOK
  <2>4. Unwritten(t)' \subseteq Unwritten(t)
    BY <2>2, <2>3, UnwrittenShrinks, <1>3
  <2>5. Unwritten(job[b].at)' = Unwritten(t)'
    BY <2>2
  <2>6. job[b].gone \cap Unwritten(job[b].at)' \subseteq Planned(b)
    BY <1>1, <2>1, <2>2, <2>4, <2>5 DEF PlanFollows
  <2>7. ASSUME NEW p \in Planned(b) \ job[b].frontier, NEW r \in Cascading({p})' \cap Unwritten(t)'
        PROVE  r \in Planned(b)
    <3>1. r \in Unwritten(t) /\ r \in Existing
        BY <2>4, <2>7, UnwrittenFacts
    <3>2. Rule[r] = "cascade" /\ Parent[r] = p /\ p \in Existing'
        BY <2>7 DEF Cascading, Children
    <3>3. p \in Records /\ stamp[p] # NotYet
        BY <1>1, <2>1, <2>7, WritingJob DEF GoneIsWhole
    <3>4. p \in Existing
        BY <1>3, <3>2, <3>3 DEF Evolves, Existing, NotYet, Removed
    <3>5. r \in Cascading({p})
        BY <3>1, <3>2, <3>4 DEF Cascading, Children
    <3>6. QED
        BY <1>1, <2>1, <2>2, <2>7, <3>1, <3>5 DEF PlanFollows
  <2>8. ASSUME NEW e \in job[b].effects
        PROVE  stamp'[e[1]] \in {e[3], Removed} \/ stamp'[e[1]] > t
    <3>1. e[1] \in Records /\ e[3] \in Int
        BY <2>1, <2>8, WritingJob DEF CrudTriples
    <3>2. stamp[e[1]] \in {e[3], Removed} \/ stamp[e[1]] > t
        BY <1>1, <2>1, <2>2 DEF PlanFollows
    <3>3. QED
        BY <1>3, <2>2, <2>3, <3>1, <3>2 DEF Evolves, Removed
  <2>9. QED
    BY <2>2, <2>5, <2>6, <2>7, <2>8
<1>9. QED
    BY <1>6, <1>7, <1>8

\* A transaction whose rows are left alone keeps what it has checked.
LEMMA BystanderStays ==
    ASSUME CrudAssumption, CrudInv, CrudTypes', Evolves, NEW b \in Actors, job'[b] = job[b],
           preview'[b] = preview[b], lastStamp' >= lastStamp,
           job[b].kind = "cascade" => b \in owners',
           job[b].kind = "create" => stamp'[job[b].root] = NotYet,
           \A r \in HeldRows(b) : stamp'[r] = stamp[r],
           \A c \in Existing' \ Existing : Parent[c] \notin HeldRows(b)
    PROVE  ActorOK(b)'
<1>1. GoneIsWhole(b)' /\ RootStandsAlone(b)' /\ PlanFollows(b)'
    BY BystanderPlan
<1>2. PhaseOK(b) /\ CrudTypes /\ LastStamp \in Nat
    BY DEF CrudInv, ActorOK, CrudAssumption
<1>3. Writing(b)' = Writing(b)
    BY DEF Writing
<1>4. ASSUME Writing(b)
      PROVE  stamp'[job[b].root] = job[b].version /\ job[b].at <= lastStamp'
  <2>1. job[b].root \in Records /\ job[b].version \in 1..LastStamp /\ job[b].at \in 1..LastStamp
    BY <1>2, <1>4, WritingJob
  <2>2. stamp[job[b].root] = job[b].version
    BY <1>2, <1>4 DEF PhaseOK
  <2>3. job[b].root \in HeldRows(b)
    BY <1>2, <1>4, <2>1, <2>2 DEF HeldRows, Locked, Existing
  <2>4. lastStamp \in Int /\ lastStamp' \in Int
    BY DEF CrudInv, CrudTypes
  <2>5. QED
    BY <1>2, <1>4, <2>1, <2>2, <2>3, <2>4 DEF PhaseOK
<1>5. ASSUME job[b].kind = "create"
      PROVE  Parent[job[b].root] = NoRecord \/ stamp'[Parent[job[b].root]] # NotYet
  <2>1. job[b].root \in Records
    BY <1>2, <1>5 DEF CrudTypes, CrudJobs, PreviewJobs, WritingJobs, NoJob
  <2>2. Parent[job[b].root] \in Records \cup {NoRecord}
    BY <2>1 DEF CrudAssumption
  <2>3. lastStamp \in Nat
    BY <1>2 DEF CrudTypes
  <2>4. QED
    BY <1>2, <1>5, <2>2, <2>3 DEF PhaseOK, Evolves, NotYet, Removed
<1>6. PhaseOK(b)'
    BY <1>2, <1>3, <1>4, <1>5 DEF PhaseOK
<1>7. QED
    BY <1>1, <1>6 DEF ActorOK

\* What a step of a does to every other transaction: it leaves their rows alone.
LeavesOthers(a) ==
    \A b \in Actors \ {a} :
        /\ job'[b] = job[b] /\ preview'[b] = preview[b]
        /\ job[b].kind = "cascade" => b \in owners'
        /\ job[b].kind = "create" => stamp'[job[b].root] = NotYet
        /\ \A r \in HeldRows(b) : stamp'[r] = stamp[r]
        /\ \A c \in Existing' \ Existing : Parent[c] \notin HeldRows(b)

\* A step keeps the invariant when it does so for its own transaction.
LEMMA StepKeepsInv ==
    ASSUME CrudAssumption, CrudInv, CrudTypes', StampsInOrder', Evolves, NEW a \in Actors,
           lastStamp' >= lastStamp, LeavesOthers(a), ActorOK(a)',
           \A b \in Actors \ {a} : Apart(a, b)' /\ Apart(b, a)'
    PROVE  CrudInv'
<1>1. \A b \in Actors \ {a} : ActorOK(b)'
    BY BystanderStays DEF LeavesOthers
<1>2. ASSUME NEW b \in Actors \ {a}, NEW c \in Actors \ {a}, b # c
      PROVE  Apart(b, c)'
  <2>1. Apart(b, c)
    BY <1>2 DEF CrudInv
  <2>2. HeldRows(b)' \subseteq HeldRows(b)
    BY BystanderRows DEF LeavesOthers
  <2>3. /\ HeldRows(c)' \subseteq HeldRows(c) /\ Cleared(c)' \subseteq Cleared(c)
        /\ KeyLocked(c)' = KeyLocked(c)
    BY BystanderRows DEF LeavesOthers
  <2>4. job'[b] = job[b] /\ job'[c] = job[c]
    BY DEF LeavesOthers
  <2>5. QED
    BY <2>1, <2>2, <2>3, <2>4 DEF Apart
<1>3. QED
    BY <1>1, <1>2 DEF CrudInv

\* A transaction that ends holds nothing.
LEMMA EndKeepsInv ==
    ASSUME CrudAssumption, CrudInv, CrudTypes', StampsInOrder', Evolves, NEW a \in Actors,
           lastStamp' >= lastStamp, LeavesOthers(a), JobEnds(a)
    PROVE  CrudInv'
<1>1. job'[a] = NoJob
    BY DEF JobEnds, NewJob, CrudInv, CrudTypes
<1>2. job'[a].kind = "none" /\ ~Writing(a)'
    BY <1>1 DEF NoJob, Writing
<1>3. ActorOK(a)'
    BY <1>2 DEF ActorOK, PhaseOK, GoneIsWhole, RootStandsAlone, PlanFollows
<1>4. \A b \in Actors \ {a} : Apart(a, b)' /\ Apart(b, a)'
    BY <1>2 DEF Apart, HeldRows, Locked, Cleared, KeyLocked
<1>5. QED
    BY <1>3, <1>4, StepKeepsInv

\* A step that writes no record leaves the others alone.
LEMMA StaysPut ==
    ASSUME CrudInv, NEW a \in Actors, UNCHANGED <<stamp, lastStamp>>,
           \A b \in Actors \ {a} : /\ job'[b] = job[b] /\ preview'[b] = preview[b]
                                   /\ b \in owners => b \in owners'
    PROVE  LeavesOthers(a) /\ Evolves /\ StampsInOrder' /\ lastStamp' >= lastStamp
<1>1. \A b \in Actors : PhaseOK(b)
    BY DEF CrudInv, ActorOK
<1>2. Existing' = Existing
    BY DEF Existing
<1>3. LeavesOthers(a)
    BY <1>1, <1>2 DEF LeavesOthers, PhaseOK
<1>4. StampsInOrder'
    BY <1>2 DEF CrudInv, StampsInOrder
<1>5. lastStamp' >= lastStamp
    BY DEF CrudInv, CrudTypes
<1>6. QED
    BY <1>3, <1>4, <1>5 DEF Evolves

\* A step that writes nothing.
LEMMA QuietTypes ==
    ASSUME CrudInv, NEW a \in Actors, NEW j \in CrudJobs, NewJob(a, j),
           UNCHANGED <<stamp, lastStamp, owners, preview>>
    PROVE  CrudTypes' /\ job'[a] = j /\ \A b \in Actors \ {a} : job'[b] = job[b]
BY DEF CrudInv, CrudTypes, NewJob

\* A transaction ends without a write.
LEMMA QuietEnd ==
    ASSUME CrudAssumption, CrudInv, NEW a \in Actors, JobEnds(a),
           UNCHANGED <<stamp, lastStamp, owners, preview>>
    PROVE  CrudInv'
<1>1. NoJob \in CrudJobs
    BY DEF CrudJobs
<1>2. CrudTypes' /\ \A b \in Actors \ {a} : job'[b] = job[b]
    BY <1>1, QuietTypes DEF JobEnds
<1>3. LeavesOthers(a) /\ Evolves /\ StampsInOrder' /\ lastStamp' >= lastStamp
    BY <1>2, StaysPut
<1>4. QED
    BY <1>2, <1>3, EndKeepsInv

\* A transaction goes on without a write.
LEMMA QuietStep ==
    ASSUME CrudAssumption, CrudInv, NEW a \in Actors, NEW j \in CrudJobs, NewJob(a, j),
           UNCHANGED <<stamp, lastStamp, owners, preview>>, ActorOK(a)',
           \A b \in Actors \ {a} : Apart(a, b)' /\ Apart(b, a)'
    PROVE  CrudInv'
<1>1. CrudTypes' /\ \A b \in Actors \ {a} : job'[b] = job[b]
    BY QuietTypes
<1>2. LeavesOthers(a) /\ Evolves /\ StampsInOrder' /\ lastStamp' >= lastStamp
    BY <1>1, StaysPut
<1>3. QED
    BY <1>1, <1>2, StepKeepsInv

\* A step that writes nothing and after which the transaction holds the same rows.
LEMMA QuietSameRows ==
    ASSUME CrudInv, NEW a \in Actors, NEW j \in CrudJobs, NewJob(a, j),
           UNCHANGED <<stamp, lastStamp, owners, preview>>,
           HeldRows(a)' = HeldRows(a), Cleared(a)' = Cleared(a), j.kind # "create",
           job[a].kind # "create"
    PROVE  \A b \in Actors \ {a} : Apart(a, b)' /\ Apart(b, a)'
<1>1. job'[a] = j /\ \A b \in Actors \ {a} : job'[b] = job[b]
    BY QuietTypes
<1>2. ASSUME NEW b \in Actors \ {a}
      PROVE  Apart(a, b)' /\ Apart(b, a)'
  <2>1. Apart(a, b) /\ Apart(b, a)
    BY DEF CrudInv
  <2>2. /\ HeldRows(b)' = HeldRows(b) /\ Cleared(b)' = Cleared(b) /\ KeyLocked(b)' = KeyLocked(b)
        /\ KeyLocked(a)' = KeyLocked(a) /\ job'[b] = job[b]
    <3>1. job'[b] = job[b] /\ Existing' = Existing
        BY <1>1 DEF Existing
    <3>2. \A x : Children(x)' = Children(x)
        BY <3>1 DEF Children
    <3>3. PICK g : g = job[b].gone
        OBVIOUS
    <3>4. Children(job[b].gone)' = Children(g)' /\ Children(job[b].gone) = Children(g)
        BY <3>1, <3>3
    <3>5. Writing(b)' = Writing(b)
        BY <3>1 DEF Writing
    <3>6. Cleared(b)' = Cleared(b)
        BY <3>1, <3>2, <3>4, <3>5 DEF Cleared
    <3>7. KeyLocked(a)' = {} /\ KeyLocked(a) = {}
        BY <1>1 DEF KeyLocked
    <3>8. QED
        BY <3>1, <3>5, <3>6, <3>7 DEF HeldRows, Locked, KeyLocked
  <2>3. QED
    BY <1>1, <2>1, <2>2 DEF Apart
<1>3. QED
    BY <1>2

\* Creations, updates and deletions open.
LEMMA CreateStep ==
    ASSUME CrudAssumption, CrudInv, NEW a \in Actors, NEW r \in Records, Creates(a, r)
    PROVE  CrudInv'
<1> DEFINE j == [kind |-> "create", root |-> r]
<1>1. j \in CrudJobs /\ NewJob(a, j) /\ UNCHANGED <<stamp, lastStamp, owners, preview>>
    BY DEF CrudJobs, Creates
<1>2. job'[a] = j /\ \A b \in Actors \ {a} : job'[b] = job[b]
    BY <1>1, QuietTypes
<1>3. job'[a].kind = "create" /\ job'[a].root = r /\ ~Writing(a)'
    BY <1>2 DEF Writing
<1>4. ActorOK(a)'
  <2>1. Parent[r] = NoRecord \/ stamp[Parent[r]] # NotYet
    BY DEF Creates, Existing, NotYet
  <2>2. QED
    BY <1>3, <1>1, <2>1 DEF Creates, ActorOK, PhaseOK, GoneIsWhole, RootStandsAlone, PlanFollows
<1>5. HeldRows(a)' = {} /\ Cleared(a)' = {} /\ KeyLocked(a)' = {Parent[r]}
    BY <1>3 DEF HeldRows, Locked, Cleared, KeyLocked
<1>6. ASSUME NEW b \in Actors \ {a}
      PROVE  Apart(a, b)' /\ Apart(b, a)'
  <2>1. HeldRows(b)' = HeldRows(b)
    BY <1>1, <1>2 DEF HeldRows, Locked, Writing, Existing
  <2>2. HeldRows(b) \subseteq Records /\ HeldRows(b) \subseteq Locked(b)
    BY DEF HeldRows, Existing
  <2>3. Parent[r] \notin HeldRows(b)
    BY <2>2 DEF Creates, KeyFree, CrudAssumption
  <2>4. job[b].kind = "create" => job[b].root # r
    BY DEF Creates
  <2>5. QED
    BY <1>2, <1>3, <1>5, <2>1, <2>3, <2>4 DEF Apart
<1>7. QED
    BY <1>1, <1>4, <1>6, QuietStep

LEMMA OpensStep ==
    ASSUME CrudAssumption, CrudInv, NEW a \in Actors, NEW kind \in {"update", "delete", "cascade"},
           NEW r, NEW v \in 0..LastStamp, NEW s, OpensFor(a, kind, r, v, s),
           kind = "update" => s = "write", kind = "delete" => s = "check",
           kind = "cascade" => s = "plan" /\ a \in owners
    PROVE  CrudInv'
<1> DEFINE j == [kind |-> kind, root |-> r, version |-> v, step |-> s, gone |-> {},
                 effects |-> {<<r, "delete", v>>}, frontier |-> {r}, at |-> lastStamp]
<1>1. UNCHANGED <<stamp, lastStamp, owners, preview>> /\ r \in Existing /\ RowFree(a, r)
    BY DEF OpensFor
<1>2. CASE ~Current(r, v)
    BY <1>1, <1>2, QuietEnd DEF OpensFor
<1>3. CASE Current(r, v)
  <2>1. NewJob(a, j)
    BY <1>3 DEF OpensFor
  <2>2. r \in Records /\ v \in 1..LastStamp /\ stamp[r] = v /\ lastStamp \in 1..LastStamp
    BY <1>1, <1>3 DEF Existing, Current, CrudInv, CrudTypes
  <2>3. s \in {"write", "check", "plan"}
    OBVIOUS
  <2>4. {<<r, "delete", v>>} \in SUBSET CrudTriples({"delete"})
    BY <2>2 DEF CrudTriples
  <2>5. j \in CrudJobs
    BY <2>2, <2>3, <2>4 DEF CrudJobs, WritingJobs
  <2>6. job'[a] = j /\ \A b \in Actors \ {a} : job'[b] = job[b]
    BY <2>1, <2>5, <1>1, QuietTypes
  <2>7. /\ job'[a].kind = kind /\ job'[a].root = r /\ job'[a].version = v /\ job'[a].step = s
        /\ job'[a].gone = {} /\ job'[a].effects = {<<r, "delete", v>>} /\ job'[a].frontier = {r}
        /\ job'[a].at = lastStamp
    BY <2>6
  <2>8. Writing(a)' /\ Planned(a)' = {r}
    <3>1. \A e \in {<<r, "delete", v>>} : e[1] = r /\ e[2] = "delete"
        OBVIOUS
    <3>2. PICK es : es = {<<r, "delete", v>>}
        OBVIOUS
    <3>3. Planned(a)' = {e[1] : e \in {f \in es : f[2] = "delete"}}
        BY <2>7, <3>2 DEF Planned
    <3>4. Planned(a)' = {r}
        BY <3>1, <3>2, <3>3
    <3>5. QED
        BY <2>3, <2>7, <3>4 DEF Writing
  <2>9. PhaseOK(a)'
    BY <1>1, <2>2, <2>7 DEF PhaseOK
  <2>10. GoneIsWhole(a)'
    BY <1>1, <2>2, <2>7, <2>8 DEF GoneIsWhole, Children, NotYet
  <2>11. RootStandsAlone(a)'
    BY <2>7, <2>8 DEF RootStandsAlone
  <2>12. PlanFollows(a)'
    <3>1. \A e \in {<<r, "delete", v>>} : stamp'[e[1]] = e[3]
        BY <1>1, <2>2
    <3>2. /\ job'[a].root \in Planned(a)' /\ job'[a].step # "remove" /\ job'[a].gone = {}
          /\ Planned(a)' \ job'[a].frontier = {}
        BY <2>3, <2>7, <2>8
    <3>3. job'[a].kind = "cascade" => job'[a].step = "plan"
        BY <2>7
    <3>4. QED
        BY <2>7, <3>1, <3>2, <3>3 DEF PlanFollows
  <2>13. HeldRows(a)' = {r} /\ Cleared(a)' = {} /\ KeyLocked(a)' = {}
    <3>1. Locked(a)' = {r} /\ KeyLocked(a)' = {}
        BY <2>7, <2>8 DEF Locked, KeyLocked
    <3>2. Existing' = Existing
        BY <1>1 DEF Existing
    <3>3. Cleared(a)' = {}
        BY <2>7, <2>8 DEF Cleared, Children
    <3>4. QED
        BY <3>1, <3>2, <3>3, <1>1 DEF HeldRows
  <2>14. ASSUME NEW b \in Actors \ {a}
         PROVE  Apart(a, b)' /\ Apart(b, a)'
    <3>1. r \notin HeldRows(b) /\ r \notin Cleared(b) /\ r \notin KeyLocked(b)
        BY <1>1 DEF RowFree, FieldsFree, HeldRows
    <3>2. /\ HeldRows(b)' \subseteq HeldRows(b) /\ Cleared(b)' \subseteq Cleared(b)
          /\ KeyLocked(b)' = KeyLocked(b)
        <4>1. Evolves /\ LeavesOthers(a)
            BY <1>1, <2>6, StaysPut
        <4>2. CrudTypes'
            BY <1>1, <2>1, <2>5, QuietTypes
        <4>3. QED
            BY <4>1, <4>2, BystanderRows DEF LeavesOthers
    <3>3. QED
        BY <2>7, <2>13, <3>1, <3>2 DEF Apart
  <2>15. QED
    BY <1>1, <2>1, <2>5, <2>9, <2>10, <2>11, <2>12, <2>14, QuietStep DEF ActorOK
<1>4. QED
    BY <1>2, <1>3

\* A job whose step changes.
LEMMA NextStepOf ==
    ASSUME NEW j \in WritingJobs, NEW s \in {"write", "check", "plan", "effects", "remove"}
    PROVE  /\ [j EXCEPT !.step = s] \in WritingJobs
           /\ [j EXCEPT !.step = s].kind = j.kind /\ [j EXCEPT !.step = s].root = j.root
           /\ [j EXCEPT !.step = s].version = j.version /\ [j EXCEPT !.step = s].step = s
           /\ [j EXCEPT !.step = s].gone = j.gone /\ [j EXCEPT !.step = s].effects = j.effects
           /\ [j EXCEPT !.step = s].frontier = j.frontier /\ [j EXCEPT !.step = s].at = j.at
BY DEF WritingJobs

LEMMA MoreGoneOf ==
    ASSUME NEW j \in WritingJobs, NEW g \in SUBSET Records
    PROVE  /\ [j EXCEPT !.gone = g] \in WritingJobs
           /\ [j EXCEPT !.gone = g].kind = j.kind /\ [j EXCEPT !.gone = g].root = j.root
           /\ [j EXCEPT !.gone = g].version = j.version /\ [j EXCEPT !.gone = g].step = j.step
           /\ [j EXCEPT !.gone = g].gone = g /\ [j EXCEPT !.gone = g].effects = j.effects
           /\ [j EXCEPT !.gone = g].frontier = j.frontier /\ [j EXCEPT !.gone = g].at = j.at
BY DEF WritingJobs

\* Root and deleted rows decide what is held.
LEMMA KeepsRows ==
    ASSUME CrudInv, NEW a \in Actors, Writing(a), Writing(a)',
           UNCHANGED <<stamp, lastStamp, owners, preview>>,
           job'[a].root = job[a].root, job'[a].gone = job[a].gone
    PROVE  HeldRows(a)' = HeldRows(a) /\ Cleared(a)' = Cleared(a)
<1>1. Existing' = Existing
    BY DEF Existing
<1>2. PICK g : g = job[a].gone
    OBVIOUS
<1>3. Children(g)' = Children(g)
    BY <1>1 DEF Children
<1>4. Cleared(a)' = Children(g)' \ g /\ Cleared(a) = Children(g) \ g
    BY <1>2 DEF Cleared
<1>5. HeldRows(a)' = HeldRows(a)
    BY <1>1 DEF HeldRows, Locked
<1>6. QED
    BY <1>3, <1>4, <1>5

LEMMA AssertStep ==
    ASSUME CrudAssumption, CrudInv, NEW a \in Actors, AssertNoDependents(a)
    PROVE  CrudInv'
<1>1. job[a].kind = "delete" /\ job[a].step = "check"
      /\ UNCHANGED <<stamp, lastStamp, owners, preview>> /\ Writing(a)
    BY DEF AssertNoDependents, Writing
<1>2. CASE Children({job[a].root}) # {}
    BY <1>1, <1>2, QuietEnd DEF AssertNoDependents
<1>3. CASE Children({job[a].root}) = {}
  <2>1. PICK j : j = [job[a] EXCEPT !.step = "remove"]
    OBVIOUS
  <2>2. NewJob(a, j)
    BY <1>3, <2>1 DEF AssertNoDependents
  <2>3. job[a] \in WritingJobs
    BY <1>1, WritingJob DEF CrudInv
  <2>4. /\ j \in WritingJobs /\ j.kind = "delete" /\ j.root = job[a].root
        /\ j.version = job[a].version /\ j.step = "remove" /\ j.gone = job[a].gone
        /\ j.effects = job[a].effects /\ j.at = job[a].at
    BY <1>1, <2>1, <2>3, NextStepOf
  <2>5. j \in CrudJobs
    BY <2>4 DEF CrudJobs
  <2>6. job'[a] = j
    BY <1>1, <2>2, <2>5, QuietTypes
  <2>7. Writing(a)' /\ Planned(a)' = Planned(a)
    BY <2>4, <2>6 DEF Writing, Planned
  <2>8. PhaseOK(a) /\ GoneIsWhole(a) /\ RootStandsAlone(a)
    BY DEF CrudInv, ActorOK
  <2>9. PhaseOK(a)'
    BY <1>1, <2>4, <2>6, <2>8 DEF PhaseOK
  <2>10. Existing' = Existing
    BY <1>1 DEF Existing
  <2>11. PICK g : g = {job[a].root}
    OBVIOUS
  <2>12. Children(g)' = {}
    BY <1>3, <2>10, <2>11 DEF Children
  <2>13. RootStandsAlone(a)'
    BY <1>1, <2>4, <2>6, <2>7, <2>8, <2>11, <2>12 DEF RootStandsAlone
  <2>14. job[a].gone = {}
    BY <1>1, <2>8 DEF RootStandsAlone
  <2>15. GoneIsWhole(a)'
    <3>1. Children({})' = {}
        BY DEF Children
    <3>2. \A r \in {} \cup Planned(a) : stamp[r] # NotYet
        BY <1>1, <2>8 DEF GoneIsWhole
    <3>3. job'[a].gone = {}
        BY <2>4, <2>6, <2>14
    <3>4. QED
        BY <1>1, <2>7, <3>1, <3>2, <3>3 DEF GoneIsWhole
  <2>16. PlanFollows(a)'
    BY <2>4, <2>6 DEF PlanFollows
  <2>17. HeldRows(a)' = HeldRows(a) /\ Cleared(a)' = Cleared(a)
    BY <1>1, <2>4, <2>6, <2>7, KeepsRows
  <2>18. \A b \in Actors \ {a} : Apart(a, b)' /\ Apart(b, a)'
    BY <1>1, <2>2, <2>4, <2>5, <2>17, QuietSameRows
  <2>19. QED
    BY <1>1, <2>2, <2>5, <2>9, <2>13, <2>15, <2>16, <2>18, QuietStep DEF ActorOK
<1>4. QED
    BY <1>2, <1>3

\* A step of a preview, and of a deletion before it opens its root.
LEMMA IdleStep ==
    ASSUME CrudAssumption, CrudInv, NEW a \in Actors, NEW j \in CrudJobs, NewJob(a, j),
           UNCHANGED <<stamp, lastStamp, owners, preview>>,
           job[a] = NoJob \/ job[a].kind = "preview",
           j.kind = "preview" \/ (j.kind = "cascade" /\ j.step = "actor" /\ a \in owners)
    PROVE  CrudInv'
<1>1. job'[a] = j
    BY QuietTypes
<1>2. ~Writing(a)' /\ ~Writing(a)
    BY <1>1 DEF Writing, NoJob
<1>3. ActorOK(a)'
    BY <1>1, <1>2 DEF ActorOK, PhaseOK, GoneIsWhole, RootStandsAlone, PlanFollows
<1>4. HeldRows(a)' = HeldRows(a) /\ Cleared(a)' = Cleared(a)
    BY <1>2 DEF HeldRows, Locked, Cleared
<1>5. job[a].kind # "create" /\ j.kind # "create"
    BY DEF NoJob
<1>6. \A b \in Actors \ {a} : Apart(a, b)' /\ Apart(b, a)'
    BY <1>4, <1>5, QuietSameRows
<1>7. QED
    BY <1>3, <1>6, QuietStep

LEMMA PreviewSteps ==
    ASSUME CrudAssumption, CrudInv, NEW a \in Actors, NEW r \in Records, NEW v \in 1..LastStamp,
           Previews(a, r, v) \/ Confirms(a)
    PROVE  CrudInv'
<1>1. job[a] = NoJob /\ UNCHANGED <<stamp, lastStamp, owners, preview>>
    BY DEF Previews, Confirms
<1>2. CASE Previews(a, r, v)
  <2> DEFINE j == [kind |-> "preview", root |-> r, version |-> v, step |-> "plan", gone |-> {},
                   effects |-> {<<r, "delete", v>>}, frontier |-> {r}]
  <2>1. {<<r, "delete", v>>} \in SUBSET CrudTriples({"delete"})
    BY DEF CrudTriples
  <2>2. j \in CrudJobs
    BY <2>1 DEF CrudJobs, PreviewJobs
  <2>3. NewJob(a, j)
    BY <1>2 DEF Previews
  <2>4. QED
    BY <1>1, <2>2, <2>3, IdleStep
<1>3. CASE Confirms(a)
  <2> DEFINE j == [kind |-> "cascade", root |-> preview[a].root, step |-> "actor"]
  <2>1. preview[a].root \in Records \cup {NoRecord}
    BY DEF CrudInv, CrudTypes
  <2>2. j \in CrudJobs
    BY <2>1 DEF CrudJobs
  <2>3. NewJob(a, j) /\ a \in owners
    BY <1>3 DEF Confirms
  <2>4. QED
    BY <1>1, <2>2, <2>3, IdleStep
<1>4. QED
    BY <1>2, <1>3

\* What a query of the plan finds.
LEMMA FoundTriples ==
    ASSUME CrudTypes, NEW rs, rs \subseteq Existing, NEW action
    PROVE  /\ Found(rs, action) \subseteq CrudTriples({action})
           /\ \A e \in Found(rs, action) : e[1] \in rs /\ e[2] = action /\ e[3] = stamp[e[1]]
           /\ \A r \in rs : \E e \in Found(rs, action) : e[1] = r
<1>1. \A r \in rs : r \in Records /\ stamp[r] \in 1..LastStamp
    BY DEF CrudTypes, Existing
<1>2. \A e \in Found(rs, action) : \E r \in rs : e = <<r, action, stamp[r]>>
    BY DEF Found
<1>3. Found(rs, action) \subseteq CrudTriples({action})
    BY <1>1, <1>2 DEF CrudTriples
<1>4. \A e \in Found(rs, action) : e[1] \in rs /\ e[2] = action /\ e[3] = stamp[e[1]]
    BY <1>2
<1>5. ASSUME NEW r \in rs
      PROVE  \E e \in Found(rs, action) : e[1] = r
  <2>1. <<r, action, stamp[r]>> \in Found(rs, action)
    BY DEF Found
  <2>2. QED
    BY <2>1
<1>6. QED
    BY <1>3, <1>4, <1>5

\* A query of the plan adds a level to it.
LEMMA PlanLevelTypes ==
    ASSUME CrudInv, NEW a \in Actors, PlanLevel(a)
    PROVE  \E next \in SUBSET Existing :
             /\ next = Cascading(job[a].frontier) \ Planned(a)
             /\ job'[a] \in CrudJobs /\ NewJob(a, job'[a])
             /\ job'[a].kind = job[a].kind /\ job'[a].root = job[a].root
             /\ job'[a].version = job[a].version /\ job'[a].gone = job[a].gone
             /\ job'[a].frontier = next /\ job'[a].step \in {"plan", "effects"}
             /\ job'[a].step = "effects" => next = {}
             /\ job'[a].effects = job[a].effects \cup Found(next, "delete")
             /\ job[a].kind = "cascade" => job'[a].at = job[a].at
<1>1. job[a] \in CrudJobs /\ job[a].kind \in {"preview", "cascade"} /\ job[a].step = "plan" /\ CrudTypes
    BY DEF PlanLevel, CrudInv, CrudTypes
<1>2. /\ job[a] \in PreviewJobs \cup WritingJobs
      /\ job[a].kind = "cascade" => job[a] \in WritingJobs
    BY <1>1 DEF CrudJobs, PreviewJobs, NoJob
<1>3. PICK next : next = Cascading(job[a].frontier) \ Planned(a)
    OBVIOUS
<1>4. next \subseteq Existing /\ next \in SUBSET Records
    BY <1>3 DEF Cascading, Children, Existing
<1>5. job[a].effects \subseteq CrudTriples({"delete"})
    BY <1>2 DEF PreviewJobs, WritingJobs
<1>6. PICK f : f = job[a].effects \cup Found(next, "delete")
    OBVIOUS
<1>7. Found(next, "delete") \subseteq CrudTriples({"delete"})
    BY <1>1, <1>4, FoundTriples
<1>8. f \in SUBSET CrudTriples({"delete"})
    BY <1>5, <1>6, <1>7
<1>9. PICK t : t = IF next = {} THEN "effects" ELSE "plan"
    OBVIOUS
<1>10. t \in {"plan", "effects"} /\ (t = "effects" => next = {})
    BY <1>9
<1>11. PICK j : j = [job[a] EXCEPT !.frontier = next, !.effects = f, !.step = t]
    OBVIOUS
<1>12. NewJob(a, j)
    BY <1>3, <1>6, <1>9, <1>11 DEF PlanLevel
<1>13. PICK old : old = job[a]
    OBVIOUS
<1>14. j = [old EXCEPT !.frontier = next, !.effects = f, !.step = t]
    BY <1>11, <1>13
<1>15. /\ j \in PreviewJobs \cup WritingJobs
       /\ j.kind = old.kind /\ j.root = old.root /\ j.gone = old.gone
       /\ j.version = old.version /\ j.frontier = next /\ j.effects = f /\ j.step = t
       /\ old \in WritingJobs => j.at = old.at
  <2>1. old \in PreviewJobs \cup WritingJobs
    BY <1>2, <1>13
  <2>2. next \in SUBSET Records
    BY <1>4
  <2>3. f \in SUBSET CrudTriples({"delete"}) /\ t \in {"plan", "effects"}
    BY <1>8, <1>10
  <2>4. CASE old \in PreviewJobs
    BY <1>14, <2>2, <2>3, <2>4 DEF PreviewJobs, WritingJobs
  <2>5. CASE old \in WritingJobs
    BY <1>14, <2>2, <2>3, <2>5 DEF PreviewJobs, WritingJobs
  <2>6. QED
    BY <2>1, <2>4, <2>5
<1>16. j \in CrudJobs
    BY <1>15 DEF CrudJobs
<1>17. job'[a] = j
    BY <1>1, <1>12 DEF NewJob, CrudTypes
<1>18. /\ job'[a] \in CrudJobs /\ NewJob(a, job'[a])
       /\ job'[a].kind = job[a].kind /\ job'[a].root = job[a].root
       /\ job'[a].version = job[a].version /\ job'[a].gone = job[a].gone
    BY <1>12, <1>13, <1>15, <1>16, <1>17
<1>19. /\ job'[a].frontier = next /\ job'[a].step \in {"plan", "effects"}
       /\ job'[a].step = "effects" => next = {}
       /\ job'[a].effects = job[a].effects \cup Found(next, "delete")
       /\ job[a].kind = "cascade" => job'[a].at = job[a].at
    BY <1>2, <1>6, <1>10, <1>13, <1>15, <1>17
<1>20. next \in SUBSET Existing
    BY <1>4
<1>21. QED
    BY <1>3, <1>18, <1>19, <1>20

LEMMA PlanLevelStep ==
    ASSUME CrudAssumption, CrudInv, NEW a \in Actors, PlanLevel(a)
    PROVE  CrudInv'
<1>1. UNCHANGED <<stamp, lastStamp, owners, preview>> /\ job[a].kind \in {"preview", "cascade"}
      /\ job[a].step = "plan" /\ CrudTypes
    BY DEF PlanLevel, CrudInv
<1>2. PICK next \in SUBSET Existing :
         /\ next = Cascading(job[a].frontier) \ Planned(a)
         /\ job'[a] \in CrudJobs /\ NewJob(a, job'[a])
         /\ job'[a].kind = job[a].kind /\ job'[a].root = job[a].root
         /\ job'[a].version = job[a].version /\ job'[a].gone = job[a].gone
         /\ job'[a].frontier = next /\ job'[a].step \in {"plan", "effects"}
         /\ job'[a].step = "effects" => next = {}
         /\ job'[a].effects = job[a].effects \cup Found(next, "delete")
         /\ job[a].kind = "cascade" => job'[a].at = job[a].at
    BY PlanLevelTypes
<1>3. PICK j : j = job'[a]
    OBVIOUS
<1>4. NewJob(a, j)
    BY <1>2, <1>3
<1>5. job'[a] = j
    BY <1>3
<1>6. /\ j \in CrudJobs /\ next \subseteq Existing
      /\ j.kind = job[a].kind /\ j.root = job[a].root /\ j.version = job[a].version
      /\ j.gone = job[a].gone /\ j.frontier = next /\ j.step \in {"plan", "effects"}
      /\ j.step = "effects" => next = {}
      /\ j.effects = job[a].effects \cup Found(next, "delete")
      /\ job[a].kind = "cascade" => j.at = job[a].at
    BY <1>2, <1>3
<1>7. CASE job[a].kind = "preview"
    BY <1>1, <1>4, <1>6, <1>7, IdleStep
<1>8. CASE job[a].kind = "cascade"
  <2>1. Writing(a) /\ Writing(a)'
    BY <1>1, <1>5, <1>6, <1>8 DEF Writing
  <2>2. PhaseOK(a) /\ GoneIsWhole(a) /\ PlanFollows(a) /\ job[a].gone = {}
    BY <1>1, <2>1 DEF CrudInv, ActorOK, PhaseOK
  <2>3. PhaseOK(a)'
    BY <1>1, <1>5, <1>6, <1>8, <2>1, <2>2 DEF PhaseOK
  <2>4. RootStandsAlone(a)'
    BY <1>5, <1>6, <1>8 DEF RootStandsAlone
  <2>5. /\ Planned(a) = {e[1] : e \in job[a].effects} /\ Planned(a) \subseteq Records
        /\ job[a].effects \subseteq CrudTriples({"delete"}) /\ job[a].at \in 1..LastStamp
    BY <1>1, <2>1, WritingJob
  <2>6. /\ \A e \in Found(next, "delete") : e[1] \in next /\ e[2] = "delete" /\ e[3] = stamp[e[1]]
        /\ \A r \in next : \E e \in Found(next, "delete") : e[1] = r
    <3>1. \A e \in Found(next, "delete") : \E r \in next : e = <<r, "delete", stamp[r]>>
        BY DEF Found
    <3>2. \A r \in next : <<r, "delete", stamp[r]>> \in Found(next, "delete")
        BY DEF Found
    <3>3. \A r \in next : <<r, "delete", stamp[r]>>[1] = r
        OBVIOUS
    <3>4. \A e \in Found(next, "delete") : e[1] \in next /\ e[2] = "delete" /\ e[3] = stamp[e[1]]
        BY <3>1
    <3>5. QED
        BY <3>2, <3>3, <3>4
  <2>7. Planned(a)' = Planned(a) \cup next
    <3>1. PICK es : es = job[a].effects \cup Found(next, "delete")
        OBVIOUS
    <3>2. \A e \in es : e[2] = "delete"
        BY <2>5, <2>6, <3>1 DEF CrudTriples
    <3>3. Planned(a)' = {e[1] : e \in {f \in es : f[2] = "delete"}}
        BY <1>5, <1>6, <3>1 DEF Planned
    <3>4. Planned(a)' = {e[1] : e \in es}
        BY <3>2, <3>3
    <3>5. QED
        BY <2>5, <2>6, <3>1, <3>4
  <2>8. GoneIsWhole(a)'
    <3>1. \A r \in Planned(a) \cup next : stamp'[r] # NotYet
      <4>1. \A r \in Planned(a) : stamp[r] # NotYet
        BY <2>1, <2>2 DEF GoneIsWhole
      <4>2. \A r \in next : stamp[r] # NotYet
        BY DEF Existing, NotYet
      <4>3. QED
        BY <1>1, <4>1, <4>2
    <3>2. Children({})' = {}
        BY DEF Children
    <3>3. job'[a].gone = {}
        BY <1>5, <1>6, <2>2
    <3>4. QED
        BY <2>7, <3>1, <3>2, <3>3 DEF GoneIsWhole
  <2>9. PICK t : t = job[a].at
    OBVIOUS
  <2>10. Existing' = Existing
    BY <1>1 DEF Existing
  <2>11. Unwritten(t)' = Unwritten(t) /\ \A p : Cascading({p})' = Cascading({p})
    BY <1>1, <2>10 DEF Unwritten, RaisesTo, Cascading, Children
  <2>12. Unwritten(job[a].at)' = Unwritten(t)
    BY <1>5, <1>6, <1>8, <2>9, <2>11
  <2>13. ASSUME NEW p \in Planned(a)' \ next
         PROVE  Cascading({p})' \cap Unwritten(t) \subseteq Planned(a)'
    <3>1. p \in Planned(a)
        BY <2>7, <2>13
    <3>2. CASE p \in job[a].frontier
        <4>1. Cascading({p}) \subseteq Cascading(job[a].frontier)
            BY <3>2 DEF Cascading, Children
        <4>2. QED
            BY <1>2, <2>7, <2>11, <4>1
    <3>3. CASE p \notin job[a].frontier
        BY <1>8, <2>1, <2>2, <2>7, <2>9, <2>11, <3>1, <3>3 DEF PlanFollows
    <3>4. QED
        BY <3>2, <3>3
  <2>14. ASSUME NEW e \in j.effects
         PROVE  stamp'[e[1]] \in {e[3], Removed} \/ stamp'[e[1]] > t
    BY <1>1, <1>6, <1>8, <2>1, <2>2, <2>6, <2>9, <2>14 DEF PlanFollows
  <2>15. PlanFollows(a)'
    <3>1. job'[a].root \in Planned(a)'
        BY <1>5, <1>6, <1>8, <2>1, <2>2, <2>7 DEF PlanFollows
    <3>2. job'[a].step # "plan" => job'[a].frontier = {}
        BY <1>5, <1>6
    <3>3. \A e \in job'[a].effects : stamp'[e[1]] \in {e[3], Removed} \/ stamp'[e[1]] > job'[a].at
        BY <1>5, <1>6, <1>8, <2>9, <2>14
    <3>4. \A p \in Planned(a)' \ job'[a].frontier :
             Cascading({p})' \cap Unwritten(job[a].at)' \subseteq Planned(a)'
        BY <1>5, <1>6, <2>12, <2>13
    <3>5. job'[a].step # "remove" /\ job'[a].gone = {}
        BY <1>5, <1>6, <2>2
    <3>6. QED
        BY <3>1, <3>2, <3>3, <3>4, <3>5 DEF PlanFollows
  <2>16. HeldRows(a)' = HeldRows(a) /\ Cleared(a)' = Cleared(a)
    BY <1>1, <1>5, <1>6, <2>1, KeepsRows
  <2>17. \A b \in Actors \ {a} : Apart(a, b)' /\ Apart(b, a)'
    BY <1>1, <1>4, <1>6, <1>8, <2>16, QuietSameRows
  <2>18. QED
    BY <1>1, <1>4, <1>6, <2>3, <2>4, <2>8, <2>15, <2>17, QuietStep DEF ActorOK
<1>9. QED
    BY <1>1, <1>7, <1>8

\* What a plan shows.
LEMMA SideEffectTriples ==
    ASSUME CrudTypes, NEW a \in Actors, job[a].effects \subseteq CrudTriples({"delete"})
    PROVE  /\ SideEffects(a) \subseteq CrudTriples({"delete", "set-null", "blocked"})
           /\ job[a].effects \subseteq SideEffects(a)
<1>1. PICK kept : kept = Children(Planned(a)) \ Planned(a)
    OBVIOUS
<1>2. PICK cleared : cleared = {r \in kept : Rule[r] = "set null"}
    OBVIOUS
<1>3. PICK blocked : blocked = {r \in kept : Rule[r] = "restrict"}
    OBVIOUS
<1>4. SideEffects(a) = job[a].effects \cup Found(cleared, "set-null") \cup Found(blocked, "blocked")
    BY <1>1, <1>2, <1>3 DEF SideEffects
<1>5. cleared \subseteq Existing /\ blocked \subseteq Existing
    BY <1>1, <1>2, <1>3 DEF Children
<1>6. /\ Found(cleared, "set-null") \subseteq CrudTriples({"set-null"})
      /\ Found(blocked, "blocked") \subseteq CrudTriples({"blocked"})
    BY <1>5, FoundTriples
<1>7. /\ CrudTriples({"delete"}) \subseteq CrudTriples({"delete", "set-null", "blocked"})
      /\ CrudTriples({"set-null"}) \subseteq CrudTriples({"delete", "set-null", "blocked"})
      /\ CrudTriples({"blocked"}) \subseteq CrudTriples({"delete", "set-null", "blocked"})
    BY DEF CrudTriples
<1>8. QED
    BY <1>4, <1>6, <1>7

LEMMA ConfirmedStep ==
    ASSUME CrudAssumption, CrudInv, NEW a \in Actors, PlanConfirmed(a)
    PROVE  CrudInv'
<1>1. job[a].kind = "cascade" /\ job[a].step = "effects"
      /\ UNCHANGED <<stamp, lastStamp, owners, preview>> /\ Writing(a) /\ CrudTypes
    BY DEF PlanConfirmed, Writing, CrudInv
<1>2. CASE ~(SameAsShown(a) /\ ~Blocked(SideEffects(a)))
    BY <1>1, <1>2, QuietEnd DEF PlanConfirmed
<1>3. CASE SameAsShown(a) /\ ~Blocked(SideEffects(a))
  <2>1. PICK j : j = [job[a] EXCEPT !.step = "remove"]
    OBVIOUS
  <2>2. NewJob(a, j)
    BY <1>3, <2>1 DEF PlanConfirmed
  <2>3. job[a] \in WritingJobs /\ job[a].effects \subseteq CrudTriples({"delete"})
    BY <1>1, WritingJob
  <2>4. /\ j \in WritingJobs /\ j.kind = "cascade" /\ j.root = job[a].root
        /\ j.version = job[a].version /\ j.step = "remove" /\ j.gone = job[a].gone
        /\ j.effects = job[a].effects /\ j.frontier = job[a].frontier /\ j.at = job[a].at
    BY <1>1, <2>1, <2>3, NextStepOf
  <2>5. j \in CrudJobs
    BY <2>4 DEF CrudJobs
  <2>6. job'[a] = j
    BY <1>1, <2>2, <2>5, QuietTypes
  <2>7. Writing(a)' /\ Planned(a)' = Planned(a)
    BY <2>4, <2>6 DEF Writing, Planned
  <2>8. PhaseOK(a) /\ GoneIsWhole(a) /\ PlanFollows(a)
    BY DEF CrudInv, ActorOK
  <2>9. PhaseOK(a)'
    BY <1>1, <2>4, <2>6, <2>8 DEF PhaseOK
  <2>10. job[a].gone = {}
    BY <1>1, <2>8 DEF PhaseOK
  <2>11. GoneIsWhole(a)'
    <3>1. Children({})' = {}
        BY DEF Children
    <3>2. \A r \in {} \cup Planned(a) : stamp[r] # NotYet
        BY <1>1, <2>8 DEF GoneIsWhole
    <3>3. job'[a].gone = {}
        BY <2>4, <2>6, <2>10
    <3>4. QED
        BY <1>1, <2>7, <3>1, <3>2, <3>3 DEF GoneIsWhole
  <2>12. RootStandsAlone(a)'
    BY <2>4, <2>6 DEF RootStandsAlone
  <2>13. job[a].effects \subseteq preview[a].effects
    BY <1>1, <1>3, <2>3, SideEffectTriples DEF SameAsShown
  <2>14. PICK t : t = job[a].at
    OBVIOUS
  <2>15. Existing' = Existing
    BY <1>1 DEF Existing
  <2>16. Unwritten(t)' = Unwritten(t) /\ \A p : Cascading({p})' = Cascading({p})
    BY <1>1, <2>15 DEF Unwritten, RaisesTo, Cascading, Children
  <2>17. Unwritten(job[a].at)' = Unwritten(t)
    BY <2>4, <2>6, <2>14, <2>16
  <2>18. /\ job[a].root \in Planned(a) /\ job[a].frontier = {}
         /\ \A e \in job[a].effects : stamp[e[1]] \in {e[3], Removed} \/ stamp[e[1]] > t
         /\ \A p \in Planned(a) : Cascading({p}) \cap Unwritten(t) \subseteq Planned(a)
    BY <1>1, <2>8, <2>14 DEF PlanFollows
  <2>19. PlanFollows(a)'
    <3>1. \A e \in job'[a].effects : stamp'[e[1]] \in {e[3], Removed} \/ stamp'[e[1]] > job'[a].at
        BY <1>1, <2>4, <2>6, <2>14, <2>18
    <3>2. \A p \in Planned(a)' \ job'[a].frontier :
             Cascading({p})' \cap Unwritten(job[a].at)' \subseteq Planned(a)'
        BY <2>7, <2>16, <2>17, <2>18
    <3>3. /\ job'[a].root \in Planned(a)' /\ job'[a].frontier = {} /\ job'[a].gone = {}
          /\ job'[a].effects \subseteq preview'[a].effects
        BY <1>1, <2>4, <2>6, <2>7, <2>10, <2>13, <2>18
    <3>4. QED
        BY <3>1, <3>2, <3>3 DEF PlanFollows
  <2>20. HeldRows(a)' = HeldRows(a) /\ Cleared(a)' = Cleared(a)
    BY <1>1, <2>4, <2>6, <2>7, KeepsRows
  <2>21. \A b \in Actors \ {a} : Apart(a, b)' /\ Apart(b, a)'
    BY <1>1, <2>2, <2>4, <2>5, <2>20, QuietSameRows
  <2>22. QED
    BY <1>1, <2>2, <2>5, <2>9, <2>11, <2>12, <2>19, <2>21, QuietStep DEF ActorOK
<1>4. QED
    BY <1>2, <1>3

LEMMA ShownStep ==
    ASSUME CrudAssumption, CrudInv, NEW a \in Actors, PreviewShown(a)
    PROVE  CrudInv'
<1>1. /\ job[a].kind = "preview" /\ JobEnds(a) /\ UNCHANGED <<stamp, lastStamp, owners>>
      /\ preview' = [preview EXCEPT ![a] =
           [root |-> job[a].root, version |-> job[a].version, effects |-> SideEffects(a)]]
    BY DEF PreviewShown
<1>2. CrudTypes /\ LastStamp \in Nat
    BY DEF CrudInv, CrudAssumption
<1>3. job[a] \in PreviewJobs
    BY <1>1, <1>2 DEF CrudTypes, CrudJobs, WritingJobs, NoJob
<1>4. /\ job[a].root \in Records /\ job[a].version \in 1..LastStamp
      /\ job[a].effects \subseteq CrudTriples({"delete"})
    BY <1>3 DEF PreviewJobs
<1>5. SideEffects(a) \subseteq CrudTriples({"delete", "set-null", "blocked"})
    BY <1>2, <1>4, SideEffectTriples
<1>6. NoJob \in CrudJobs
    BY DEF CrudJobs
<1>7. job' \in [Actors -> CrudJobs] /\ \A b \in Actors \ {a} : job'[b] = job[b]
    BY <1>1, <1>2, <1>6 DEF JobEnds, NewJob, CrudTypes
<1>8. PICK p : p = [root |-> job[a].root, version |-> job[a].version, effects |-> SideEffects(a)]
    OBVIOUS
<1>9. p \in [root : Records \cup {NoRecord}, version : 0..LastStamp,
             effects : SUBSET CrudTriples({"delete", "set-null", "blocked"})]
    BY <1>2, <1>4, <1>5, <1>8
<1>10. preview' = [preview EXCEPT ![a] = p]
    BY <1>1, <1>8
<1>11. CrudTypes' /\ \A b \in Actors \ {a} : preview'[b] = preview[b]
    BY <1>1, <1>2, <1>7, <1>9, <1>10 DEF CrudTypes
<1>12. LeavesOthers(a) /\ Evolves /\ StampsInOrder' /\ lastStamp' >= lastStamp
    BY <1>1, <1>7, <1>11, StaysPut
<1>13. QED
    BY <1>1, <1>11, <1>12, EndKeepsInv

LEMMA RoleStep ==
    ASSUME CrudAssumption, CrudInv, NEW a \in Actors, RoleChanges(a)
    PROVE  CrudInv'
<1>1. UNCHANGED <<stamp, lastStamp, job, preview>> /\ job[a].kind # "cascade"
    BY DEF RoleChanges, ActorFree
<1>2. CrudTypes' /\ \A b \in Actors \ {a} : b \in owners => b \in owners'
    BY <1>1 DEF RoleChanges, CrudInv, CrudTypes
<1>3. LeavesOthers(a) /\ Evolves /\ StampsInOrder' /\ lastStamp' >= lastStamp
    BY <1>1, <1>2, StaysPut
<1>4. Existing' = Existing
    BY <1>1 DEF Existing
<1>5. job[a].kind = "create" => stamp'[job[a].root] = NotYet
    BY <1>1 DEF CrudInv, ActorOK, PhaseOK
<1>6. ActorOK(a)'
    BY <1>1, <1>2, <1>3, <1>4, <1>5, BystanderStays
<1>7. ASSUME NEW b \in Actors
      PROVE  /\ HeldRows(b)' \subseteq HeldRows(b) /\ Cleared(b)' \subseteq Cleared(b)
             /\ KeyLocked(b)' = KeyLocked(b)
    BY <1>1, <1>2, <1>3, <1>4, BystanderRows
<1>8. ASSUME NEW b \in Actors, NEW c \in Actors, b # c
      PROVE  Apart(b, c)'
  <2>1. Apart(b, c)
    BY <1>8 DEF CrudInv
  <2>2. QED
    BY <1>1, <1>7, <2>1 DEF Apart
<1>9. QED
    BY <1>2, <1>3, <1>6, <1>8, StepKeepsInv

\* What the engine removes with a planned record and the transaction did not
\* plan has been written since the transaction opened.
LEMMA ClosureIsPlanned ==
    ASSUME CrudAssumption, CrudInv, NEW a \in Actors, Writing(a), job[a].kind = "cascade",
           job[a].step = "remove", NEW rs, rs \subseteq Existing, rs \subseteq Planned(a)
    PROVE  Closure(rs) \cap Unwritten(job[a].at) \subseteq Planned(a)
<1>1. PlanFollows(a)
    BY DEF CrudInv, ActorOK
<1>2. job[a].frontier = {}
      /\ \A p \in Planned(a) : Cascading({p}) \cap Unwritten(job[a].at) \subseteq Planned(a)
    BY <1>1 DEF PlanFollows
<1>3. PICK c : c = {x \in Existing : x \in Unwritten(job[a].at) => x \in Planned(a)}
    OBVIOUS
<1>4. c \in SUBSET Records /\ rs \subseteq c
    BY <1>3 DEF Existing
<1>5. ASSUME NEW x \in Cascading(c)
      PROVE  x \in c
  <2>1. x \in Existing /\ Parent[x] \in c /\ Parent[x] \in Existing /\ Rule[x] = "cascade"
    BY <1>5 DEF Cascading, Children
  <2>2. SUFFICES ASSUME x \in Unwritten(job[a].at)
                 PROVE  x \in Planned(a)
    BY <1>3, <2>1
  <2>3. Parent[x] \in Unwritten(job[a].at)
    BY <2>1, <2>2, UnwrittenFacts DEF RaisesTo
  <2>4. Parent[x] \in Planned(a)
    BY <1>3, <2>1, <2>3
  <2>5. x \in Cascading({Parent[x]})
    BY <2>1 DEF Cascading, Children
  <2>6. QED
    BY <1>2, <2>2, <2>4, <2>5
<1>6. Closure(rs) \subseteq c
    BY <1>4, <1>5, CascadeClosure
<1>7. QED
    BY <1>3, <1>6

\* What a removal takes: rows that nobody else holds, and only references that
\* are cleared are left to them.
LEMMA TakesFacts ==
    ASSUME CrudAssumption, CrudInv, NEW a \in Actors, Writing(a), NEW r \in Records, MayRemove(a, r),
           NEW g, g = job[a].gone \cup {r} \cup Takes(a, r)
    PROVE  /\ Takes(a, r) \subseteq Existing /\ (r \in Existing => r \in job[a].gone \cup Takes(a, r))
           /\ \A c \in Children(g) \ g : /\ Rule[c] = "set null"
                                         /\ c \in Cleared(a) \cup Children(Takes(a, r))
<1>1. PICK rs : rs = {r} \cap Existing
    OBVIOUS
<1>2. Takes(a, r) = Closure(rs) \ job[a].gone
    BY <1>1 DEF Takes
<1>3. /\ rs \subseteq Closure(rs) /\ Closure(rs) \subseteq Existing
      /\ \A x \in Existing : Parent[x] \in Closure(rs) /\ Rule[x] = "cascade" => x \in Closure(rs)
    BY <1>1, CascadeClosure
<1>4. Takes(a, r) \subseteq Existing /\ (r \in Existing => r \in job[a].gone \cup Takes(a, r))
    BY <1>1, <1>2, <1>3
<1>5. ASSUME NEW c \in Children(g) \ g
      PROVE  Rule[c] = "set null" /\ c \in Cleared(a) \cup Children(Takes(a, r))
  <2>1. c \in Existing /\ Parent[c] \in g /\ Parent[c] \in Existing /\ c \notin g
    BY <1>5 DEF Children
  <2>2. CASE Parent[c] \in job[a].gone
    <3>1. c \in Children(job[a].gone) \ job[a].gone
        BY <2>1, <2>2 DEF Children
    <3>2. GoneIsWhole(a)
        BY DEF CrudInv, ActorOK
    <3>3. QED
        BY <3>1, <3>2 DEF GoneIsWhole, Cleared
  <2>3. CASE Parent[c] \notin job[a].gone
    <3>1. Parent[c] \in Takes(a, r)
        BY <1>4, <2>1, <2>3
    <3>2. c \in Children(Takes(a, r)) \ (Takes(a, r) \cup job[a].gone)
        BY <2>1, <3>1 DEF Children
    <3>3. Rule[c] # "restrict"
        BY <3>2 DEF MayRemove, Forbidden
    <3>4. Rule[c] # "cascade"
        BY <1>2, <1>3, <2>1, <3>1
    <3>5. Rule[c] \in Rules
        BY <2>1 DEF Existing, CrudAssumption
    <3>6. QED
        BY <3>2, <3>3, <3>4, <3>5 DEF Rules
  <2>4. QED
    BY <2>2, <2>3
<1>6. QED
    BY <1>4, <1>5

\* A dependent is deleted before its parent.
LEMMA RemoveStep ==
    ASSUME CrudAssumption, CrudInv, NEW a \in Actors, RemoveDependent(a)
    PROVE  CrudInv'
<1>1. job[a].kind = "cascade" /\ job[a].step = "remove"
      /\ UNCHANGED <<stamp, lastStamp, owners, preview>> /\ Writing(a) /\ CrudTypes
    BY DEF RemoveDependent, Writing, CrudInv
<1>2. PICK r \in Left(a) : MayRemove(a, r)
         /\ NewJob(a, [job[a] EXCEPT !.gone = @ \cup {r} \cup Takes(a, r)])
    BY DEF RemoveDependent
<1>3. PICK g : g = job[a].gone \cup {r} \cup Takes(a, r)
    OBVIOUS
<1>4. PICK j : j = [job[a] EXCEPT !.gone = g]
    OBVIOUS
<1>5. NewJob(a, j)
    BY <1>2, <1>3, <1>4
<1>6. job[a] \in WritingJobs /\ job[a].gone \subseteq Records /\ Planned(a) \subseteq Records
    BY <1>1, WritingJob
<1>7. r \in Planned(a) /\ r \in Records
    BY <1>6 DEF Left
<1>8. /\ Takes(a, r) \subseteq Existing /\ (r \in Existing => r \in job[a].gone \cup Takes(a, r))
      /\ \A c \in Children(g) \ g : /\ Rule[c] = "set null"
                                    /\ c \in Cleared(a) \cup Children(Takes(a, r))
    BY <1>1, <1>2, <1>3, <1>7, TakesFacts
<1>9. g \in SUBSET Records
    BY <1>3, <1>6, <1>7, <1>8 DEF Existing
<1>10. /\ j \in WritingJobs /\ j.kind = "cascade" /\ j.root = job[a].root
       /\ j.version = job[a].version /\ j.step = "remove" /\ j.gone = g
       /\ j.effects = job[a].effects /\ j.frontier = job[a].frontier /\ j.at = job[a].at
    BY <1>1, <1>4, <1>6, <1>9, MoreGoneOf
<1>11. j \in CrudJobs
    BY <1>10 DEF CrudJobs
<1>12. job'[a] = j
    BY <1>1, <1>5, <1>11, QuietTypes
<1>13. Writing(a)' /\ Planned(a)' = Planned(a)
    BY <1>10, <1>12 DEF Writing, Planned
<1>14. PhaseOK(a) /\ GoneIsWhole(a) /\ PlanFollows(a)
    BY DEF CrudInv, ActorOK
<1>15. PhaseOK(a)'
    BY <1>1, <1>10, <1>12, <1>14 DEF PhaseOK
<1>16. Existing' = Existing
    BY <1>1 DEF Existing
<1>17. \A x : Children(x)' = Children(x)
    BY <1>16 DEF Children
<1>18. Children(job[a].gone)' = Children(g)
    BY <1>10, <1>12, <1>17
<1>19. GoneIsWhole(a)'
  <2>1. \A x \in g \cup Planned(a) : stamp[x] # NotYet
    <3>1. \A x \in job[a].gone \cup Planned(a) : stamp[x] # NotYet
        BY <1>1, <1>14 DEF GoneIsWhole
    <3>2. \A x \in Existing : stamp[x] # NotYet
        BY DEF Existing, NotYet
    <3>3. QED
        BY <1>3, <1>7, <1>8, <3>1, <3>2
  <2>2. QED
    BY <1>1, <1>8, <1>10, <1>12, <1>13, <1>18, <2>1 DEF GoneIsWhole
<1>20. RootStandsAlone(a)'
    BY <1>10, <1>12 DEF RootStandsAlone
<1>21. PICK t : t = job[a].at
    OBVIOUS
<1>22. Unwritten(t)' = Unwritten(t) /\ \A p : Cascading({p})' = Cascading({p})
    BY <1>1, <1>16 DEF Unwritten, RaisesTo, Cascading, Children
<1>23. Unwritten(job[a].at)' = Unwritten(t)
    BY <1>10, <1>12, <1>21, <1>22
<1>24. g \cap Unwritten(t) \subseteq Planned(a)
  <2>1. PICK rs : rs = {r} \cap Existing
    OBVIOUS
  <2>2. Closure(rs) \cap Unwritten(t) \subseteq Planned(a)
    BY <1>1, <1>7, <1>21, <2>1, ClosureIsPlanned
  <2>3. Takes(a, r) \subseteq Closure(rs)
    BY <2>1 DEF Takes
  <2>4. job[a].gone \cap Unwritten(t) \subseteq Planned(a)
    BY <1>1, <1>14, <1>21 DEF PlanFollows
  <2>5. QED
    BY <1>3, <1>7, <2>2, <2>3, <2>4
<1>25. PlanFollows(a)'
  <2>1. /\ job[a].root \in Planned(a) /\ job[a].frontier = {}
        /\ \A e \in job[a].effects : stamp[e[1]] \in {e[3], Removed} \/ stamp[e[1]] > t
        /\ \A p \in Planned(a) : Cascading({p}) \cap Unwritten(t) \subseteq Planned(a)
        /\ job[a].effects \subseteq preview[a].effects
    BY <1>1, <1>14, <1>21 DEF PlanFollows
  <2>2. \A e \in job'[a].effects : stamp'[e[1]] \in {e[3], Removed} \/ stamp'[e[1]] > job'[a].at
    BY <1>1, <1>10, <1>12, <1>21, <2>1
  <2>3. \A p \in Planned(a)' \ job'[a].frontier :
           Cascading({p})' \cap Unwritten(job[a].at)' \subseteq Planned(a)'
    BY <1>13, <1>22, <1>23, <2>1
  <2>4. /\ job'[a].root \in Planned(a)' /\ job'[a].frontier = {}
        /\ job'[a].effects \subseteq preview'[a].effects
    BY <1>1, <1>10, <1>12, <1>13, <2>1
  <2>5. job'[a].gone \cap Unwritten(job[a].at)' \subseteq Planned(a)'
    BY <1>10, <1>12, <1>13, <1>23, <1>24
  <2>6. QED
    BY <2>2, <2>3, <2>4, <2>5 DEF PlanFollows
<1>26. /\ HeldRows(a)' \subseteq HeldRows(a) \cup Takes(a, r) /\ KeyLocked(a)' = {}
       /\ Cleared(a)' \subseteq Cleared(a) \cup Children(Takes(a, r))
  <2>1. Locked(a)' = {job[a].root} \cup g /\ Locked(a) = {job[a].root} \cup job[a].gone
    BY <1>1, <1>10, <1>12, <1>13 DEF Locked
  <2>2. HeldRows(a)' \subseteq HeldRows(a) \cup Takes(a, r)
    BY <1>3, <1>8, <1>16, <2>1 DEF HeldRows
  <2>3. Cleared(a)' = Children(g) \ g
    BY <1>10, <1>12, <1>13, <1>18 DEF Cleared
  <2>4. KeyLocked(a)' = {}
    BY <1>10, <1>12 DEF KeyLocked
  <2>5. QED
    BY <1>8, <2>2, <2>3, <2>4
<1>27. ASSUME NEW b \in Actors \ {a}
       PROVE  Apart(a, b)' /\ Apart(b, a)'
  <2>1. Apart(a, b) /\ Apart(b, a)
    BY DEF CrudInv
  <2>2. Takes(a, r) \cap (HeldRows(b) \cup Cleared(b) \cup KeyLocked(b)) = {}
    BY <1>2 DEF MayRemove, RowFree, FieldsFree, HeldRows
  <2>3. Children(Takes(a, r)) \cap HeldRows(b) = {}
    BY <1>2 DEF MayRemove, FieldsFree, HeldRows
  <2>4. job'[b] = job[b]
    BY <1>5, <1>11, <1>1, QuietTypes
  <2>5. /\ HeldRows(b)' \subseteq HeldRows(b) /\ Cleared(b)' \subseteq Cleared(b)
        /\ KeyLocked(b)' = KeyLocked(b)
    <3>1. Evolves /\ CrudTypes'
        BY <1>1, <1>5, <1>11, QuietTypes DEF Evolves
    <3>2. QED
        BY <1>16, <2>4, <3>1, BystanderRows
  <2>6. job'[a].kind # "create"
    BY <1>10, <1>12
  <2>7. Apart(a, b)'
    BY <1>26, <2>1, <2>2, <2>5, <2>6 DEF Apart
  <2>8. Apart(b, a)'
    BY <1>26, <2>1, <2>2, <2>3, <2>5, <2>6 DEF Apart
  <2>9. QED
    BY <2>7, <2>8
<1>28. QED
    BY <1>1, <1>5, <1>11, <1>15, <1>19, <1>20, <1>25, <1>27, QuietStep DEF ActorOK

\* A creation or an update commits.
LEMMA WriteStep ==
    ASSUME CrudAssumption, CrudInv, NEW a \in Actors, CreateCommits(a) \/ UpdateCommits(a)
    PROVE  CrudInv'
<1>1. /\ job[a].kind \in {"create", "update"} /\ lastStamp < LastStamp /\ lastStamp' = lastStamp + 1
      /\ stamp' = [stamp EXCEPT ![job[a].root] = lastStamp + 1]
      /\ JobEnds(a) /\ UNCHANGED <<owners, preview>>
    BY DEF CreateCommits, UpdateCommits, Writes
<1>2. CrudTypes /\ StampsInOrder /\ LastStamp \in Nat /\ PhaseOK(a)
    BY DEF CrudInv, CrudAssumption, ActorOK
<1>3. /\ stamp \in [Records -> Removed..LastStamp] /\ lastStamp \in 1..LastStamp
      /\ job \in [Actors -> CrudJobs]
    BY <1>2 DEF CrudTypes
<1>4. job[a].root \in Records
    BY <1>1, <1>3 DEF CrudJobs, PreviewJobs, WritingJobs, NoJob
<1>5. PICK r \in Records : r = job[a].root
    BY <1>4
<1>6. stamp' \in [Records -> Removed..LastStamp] /\ lastStamp' \in 1..LastStamp
      /\ stamp'[r] = lastStamp + 1 /\ \A x \in Records \ {r} : stamp'[x] = stamp[x]
    BY <1>1, <1>2, <1>3, <1>5 DEF Removed
<1>7. NoJob \in CrudJobs
    BY DEF CrudJobs
<1>8. job' \in [Actors -> CrudJobs] /\ \A b \in Actors \ {a} : job'[b] = job[b]
    BY <1>1, <1>3, <1>7 DEF JobEnds, NewJob
<1>9. CrudTypes'
    BY <1>1, <1>2, <1>6, <1>8 DEF CrudTypes
<1>10. stamp[r] # Removed
       /\ (job[a].kind = "update" => r \in HeldRows(a) /\ r \in Existing)
       /\ (job[a].kind = "create" => stamp[r] = NotYet)
  <2>1. CASE job[a].kind = "update"
    <3>1. Writing(a)
        BY <1>3, <2>1 DEF Writing, CrudJobs, PreviewJobs, WritingJobs, NoJob
    <3>2. stamp[r] = job[a].version /\ job[a].version \in 1..LastStamp
        BY <1>2, <1>5, <3>1, WritingJob DEF PhaseOK
    <3>3. r \in Existing
        BY <1>2, <3>2 DEF Existing
    <3>4. QED
        BY <1>2, <1>5, <2>1, <3>1, <3>2, <3>3 DEF HeldRows, Locked, Removed
  <2>2. CASE job[a].kind = "create"
    BY <1>2, <1>5, <2>2 DEF PhaseOK, NotYet, Removed
  <2>3. QED
    BY <1>1, <2>1, <2>2
<1>11. Evolves
    BY <1>3, <1>6, <1>10 DEF Evolves
<1>12. Existing' = Existing \cup {r}
    BY <1>3, <1>6 DEF Existing
<1>13. LeavesOthers(a)
  <2>1. SUFFICES ASSUME NEW b \in Actors \ {a}
                 PROVE  /\ job[b].kind = "cascade" => b \in owners
                        /\ job[b].kind = "create" => stamp'[job[b].root] = NotYet
                        /\ \A x \in HeldRows(b) : stamp'[x] = stamp[x]
                        /\ \A c \in Existing' \ Existing : Parent[c] \notin HeldRows(b)
    BY <1>1, <1>8 DEF LeavesOthers
  <2>2. Apart(a, b) /\ Apart(b, a) /\ PhaseOK(b)
    BY DEF CrudInv, ActorOK
  <2>3. r \notin HeldRows(b)
    <3>1. CASE job[a].kind = "update"
        BY <1>10, <2>2, <3>1 DEF Apart
    <3>2. CASE job[a].kind = "create"
        BY <1>10, <3>2 DEF HeldRows, Existing, NotYet
    <3>3. QED
        BY <1>1, <3>1, <3>2
  <2>4. \A x \in HeldRows(b) : stamp'[x] = stamp[x]
    BY <1>6, <2>3 DEF HeldRows, Existing
  <2>5. ASSUME job[b].kind = "create"
        PROVE  stamp'[job[b].root] = NotYet
    <3>1. stamp[job[b].root] = NotYet /\ job[b].root \in Records
        BY <1>3, <2>2, <2>5 DEF PhaseOK, CrudJobs, PreviewJobs, WritingJobs, NoJob
    <3>2. job[b].root # r
      <4>1. CASE job[a].kind = "update"
        BY <1>10, <3>1, <4>1 DEF Existing, NotYet
      <4>2. CASE job[a].kind = "create"
        BY <1>5, <2>2, <2>5, <4>2 DEF Apart
      <4>3. QED
        BY <1>1, <4>1, <4>2
    <3>3. QED
        BY <1>6, <3>1, <3>2
  <2>6. ASSUME NEW c \in Existing' \ Existing
        PROVE  Parent[c] \notin HeldRows(b)
    <3>1. c = r /\ job[a].kind = "create"
        BY <1>1, <1>10, <1>12
    <3>2. Parent[c] \in KeyLocked(a)
        BY <1>5, <3>1 DEF KeyLocked
    <3>3. QED
        BY <2>2, <3>2 DEF Apart
  <2>7. QED
    BY <2>2, <2>4, <2>5, <2>6 DEF PhaseOK
<1>14. StampsInOrder'
  <2>1. \A x \in Records : stamp'[x] <= lastStamp'
    BY <1>1, <1>2, <1>3, <1>6 DEF StampsInOrder
  <2>2. ASSUME NEW x \in Existing'
        PROVE  Parent[x] = NoRecord \/ stamp'[Parent[x]] # NotYet
    <3>1. x \in Records /\ Parent[x] \in Records \cup {NoRecord}
        BY <1>12 DEF Existing, CrudAssumption
    <3>2. Parent[x] = NoRecord \/ stamp[Parent[x]] # NotYet
      <4>1. CASE x \in Existing
        BY <1>2, <4>1 DEF StampsInOrder
      <4>2. CASE x \notin Existing
        BY <1>1, <1>2, <1>5, <1>10, <1>12, <4>2 DEF PhaseOK
      <4>3. QED
        BY <4>1, <4>2
    <3>3. QED
        BY <1>3, <1>6, <3>1, <3>2 DEF NotYet
  <2>3. QED
    BY <2>1, <2>2 DEF StampsInOrder
<1>15. lastStamp' >= lastStamp
    BY <1>1, <1>3
<1>16. QED
    BY <1>1, <1>9, <1>11, <1>13, <1>14, <1>15, EndKeepsInv

\* What a deletion removes and clears at its commit.
RemovedBy(a) == Existing \cap (job[a].gone \cup Takes(a, job[a].root))
ClearedBy(a) == Children(RemovedBy(a)) \ RemovedBy(a)

\* Nobody else holds what a commit removes or clears.
LEMMA RemovedRows ==
    ASSUME CrudAssumption, CrudInv, NEW a \in Actors, DeleteCommits(a)
    PROVE  /\ Writing(a) /\ job[a].root \in RemovedBy(a)
           /\ stamp' = [r \in Records |-> IF r \in RemovedBy(a) THEN Removed
                          ELSE IF r \in ClearedBy(a) THEN lastStamp + 1 ELSE stamp[r]]
           /\ \A b \in Actors \ {a} : HeldRows(b) \cap (RemovedBy(a) \cup ClearedBy(a)) = {}
<1>1. job[a].kind \in {"delete", "cascade"} /\ job[a].step = "remove" /\ MayRemove(a, job[a].root)
      /\ Writing(a) /\ CrudTypes
    BY DEF DeleteCommits, Writing, CrudInv
<1>2. stamp' = [r \in Records |-> IF r \in RemovedBy(a) THEN Removed
                   ELSE IF r \in ClearedBy(a) THEN lastStamp + 1 ELSE stamp[r]]
    BY DEF DeleteCommits, RemovedBy, ClearedBy
<1>3. PICK root : root = job[a].root
    OBVIOUS
<1>4. PICK g : g = job[a].gone \cup {root} \cup Takes(a, root)
    OBVIOUS
<1>5. root \in Records /\ stamp[root] \in 1..LastStamp
    BY <1>1, <1>3, WritingJob DEF CrudInv, ActorOK, PhaseOK
<1>6. root \in Existing
    BY <1>5 DEF Existing, CrudAssumption
<1>7. /\ Takes(a, root) \subseteq Existing /\ root \in job[a].gone \cup Takes(a, root)
      /\ \A c \in Children(g) \ g : c \in Cleared(a) \cup Children(Takes(a, root))
    BY <1>1, <1>3, <1>4, <1>5, <1>6, TakesFacts
<1>8. RemovedBy(a) = Existing \cap g
    BY <1>3, <1>4, <1>7 DEF RemovedBy
<1>9. ClearedBy(a) \subseteq Children(g) \ g
    BY <1>8 DEF ClearedBy, Children
<1>10. ASSUME NEW b \in Actors \ {a}
       PROVE  HeldRows(b) \cap (RemovedBy(a) \cup ClearedBy(a)) = {}
  <2>1. Apart(a, b) /\ Apart(b, a)
    BY DEF CrudInv
  <2>2. Existing \cap job[a].gone \subseteq HeldRows(a)
    BY <1>1 DEF HeldRows, Locked
  <2>3. Takes(a, root) \cap HeldRows(b) = {}
    BY <1>1, <1>3 DEF MayRemove, RowFree, FieldsFree, HeldRows
  <2>4. Children(Takes(a, root)) \cap HeldRows(b) = {}
    BY <1>1, <1>3 DEF MayRemove, FieldsFree, HeldRows
  <2>5. RemovedBy(a) \cap HeldRows(b) = {}
    BY <1>3, <2>1, <2>2, <2>3 DEF RemovedBy, Apart
  <2>6. ClearedBy(a) \cap HeldRows(b) = {}
    BY <1>7, <1>9, <2>1, <2>4 DEF Apart
  <2>7. QED
    BY <2>5, <2>6
<1>11. root \in RemovedBy(a)
    BY <1>4, <1>6, <1>8
<1>12. QED
    BY <1>1, <1>2, <1>3, <1>10, <1>11

\* A deletion commits.
LEMMA DeleteStep ==
    ASSUME CrudAssumption, CrudInv, NEW a \in Actors, DeleteCommits(a)
    PROVE  CrudInv'
<1>1. lastStamp < LastStamp /\ lastStamp' = lastStamp + 1 /\ JobEnds(a) /\ UNCHANGED <<owners, preview>>
    BY DEF DeleteCommits
<1>2. CrudTypes /\ StampsInOrder /\ LastStamp \in Nat
    BY DEF CrudInv, CrudAssumption
<1>3. /\ stamp \in [Records -> Removed..LastStamp] /\ lastStamp \in 1..LastStamp
      /\ job \in [Actors -> CrudJobs]
    BY <1>2 DEF CrudTypes
<1>4. PICK removed : removed = RemovedBy(a)
    OBVIOUS
<1>5. PICK cleared : cleared = ClearedBy(a)
    OBVIOUS
<1>6. removed \subseteq Existing /\ cleared \subseteq Existing
    BY <1>4, <1>5 DEF RemovedBy, ClearedBy, Children
<1>7. stamp' = [r \in Records |-> IF r \in removed THEN Removed
                   ELSE IF r \in cleared THEN lastStamp + 1 ELSE stamp[r]]
    BY <1>4, <1>5, RemovedRows
<1>8. \A b \in Actors \ {a} : HeldRows(b) \cap (removed \cup cleared) = {}
    BY <1>4, <1>5, RemovedRows
<1>9. stamp' \in [Records -> Removed..LastStamp] /\ lastStamp' \in 1..LastStamp
    BY <1>1, <1>2, <1>3, <1>7 DEF Removed
<1>10. NoJob \in CrudJobs
    BY DEF CrudJobs
<1>11. job' \in [Actors -> CrudJobs] /\ \A b \in Actors \ {a} : job'[b] = job[b]
    BY <1>1, <1>3, <1>10 DEF JobEnds, NewJob
<1>12. CrudTypes'
    BY <1>1, <1>2, <1>9, <1>11 DEF CrudTypes
<1>13. \A r \in Existing : r \in Records /\ stamp[r] > 0
    BY DEF Existing
<1>14. Evolves
  <2>1. SUFFICES ASSUME NEW r \in Records
                 PROVE  \/ stamp'[r] = stamp[r]
                        \/ stamp'[r] = Removed /\ stamp[r] > 0
                        \/ stamp'[r] > lastStamp /\ stamp[r] # Removed
    BY DEF Evolves
  <2>2. QED
    BY <1>3, <1>6, <1>7, <1>13 DEF Removed
<1>15. Existing' \subseteq Existing
    BY <1>3, <1>6, <1>7 DEF Existing, Removed
<1>16. LeavesOthers(a)
  <2>1. SUFFICES ASSUME NEW b \in Actors \ {a}
                 PROVE  /\ job[b].kind = "cascade" => b \in owners
                        /\ job[b].kind = "create" => stamp'[job[b].root] = NotYet
                        /\ \A x \in HeldRows(b) : stamp'[x] = stamp[x]
    BY <1>1, <1>11, <1>15 DEF LeavesOthers
  <2>2. PhaseOK(b)
    BY DEF CrudInv, ActorOK
  <2>3. \A x \in HeldRows(b) : stamp'[x] = stamp[x]
    BY <1>7, <1>8, <1>13 DEF HeldRows
  <2>4. ASSUME job[b].kind = "create"
        PROVE  stamp'[job[b].root] = NotYet
    <3>1. stamp[job[b].root] = NotYet /\ job[b].root \in Records
        BY <1>3, <2>2, <2>4 DEF PhaseOK, CrudJobs, PreviewJobs, WritingJobs, NoJob
    <3>2. job[b].root \notin removed \cup cleared
        BY <1>6, <1>13, <3>1 DEF NotYet
    <3>3. QED
        BY <1>7, <3>1, <3>2
  <2>5. QED
    BY <2>2, <2>3, <2>4 DEF PhaseOK
<1>17. StampsInOrder'
  <2>1. \A x \in Records : stamp'[x] <= lastStamp'
    BY <1>1, <1>2, <1>3, <1>7 DEF StampsInOrder, Removed
  <2>2. ASSUME NEW x \in Existing'
        PROVE  Parent[x] = NoRecord \/ stamp'[Parent[x]] # NotYet
    <3>1. x \in Existing /\ Parent[x] \in Records \cup {NoRecord}
        BY <1>13, <1>15 DEF CrudAssumption
    <3>2. Parent[x] = NoRecord \/ stamp[Parent[x]] # NotYet
        BY <1>2, <3>1 DEF StampsInOrder
    <3>3. QED
        BY <1>3, <1>7, <3>1, <3>2 DEF NotYet, Removed
  <2>3. QED
    BY <2>1, <2>2 DEF StampsInOrder
<1>18. lastStamp' >= lastStamp
    BY <1>1, <1>3
<1>19. QED
    BY <1>1, <1>12, <1>14, <1>16, <1>17, <1>18, EndKeepsInv

LEMMA CrudInit_Inv == CrudAssumption /\ CrudInit => CrudInv
<1> SUFFICES ASSUME CrudAssumption, CrudInit
             PROVE  CrudInv
    OBVIOUS
<1>1. LastStamp \in Nat /\ LastStamp >= 1
    BY DEF CrudAssumption
<1>2. stamp \in [Records -> Removed..LastStamp] /\ lastStamp \in 1..LastStamp /\ owners \subseteq Actors
    BY <1>1 DEF CrudInit, NotYet, Removed
<1>3. job \in [Actors -> CrudJobs]
    BY DEF CrudInit, CrudJobs
<1>4. NoPreview \in [root : Records \cup {NoRecord}, version : 0..LastStamp,
                    effects : SUBSET CrudTriples({"delete", "set-null", "blocked"})]
    BY <1>1 DEF NoPreview, NotYet
<1>5. CrudTypes
    BY <1>2, <1>3, <1>4 DEF CrudInit, CrudTypes
<1>6. \A r \in Records : r \in Existing => r \in Stored
    BY DEF CrudInit, Existing, NotYet
<1>7. StampsInOrder
  <2>1. \A r \in Records : stamp[r] <= lastStamp
    BY DEF CrudInit, NotYet
  <2>2. ASSUME NEW r \in Existing
        PROVE  Parent[r] = NoRecord \/ stamp[Parent[r]] # NotYet
    <3>1. Parent[r] \in Stored \cup {NoRecord} /\ Stored \subseteq Records
        BY <1>6 DEF CrudAssumption, Existing
    <3>2. QED
        BY <3>1 DEF CrudInit, NotYet
  <2>3. QED
    BY <2>1, <2>2 DEF StampsInOrder
<1>8. \A a \in Actors : job[a].kind = "none" /\ ~Writing(a)
    BY DEF CrudInit, NoJob, Writing
<1>9. QED
    BY <1>5, <1>7, <1>8 DEF CrudInv, ActorOK, PhaseOK, GoneIsWhole, RootStandsAlone, PlanFollows,
       Apart, HeldRows, Locked, Cleared, KeyLocked

LEMMA CrudStep_Inv ==
    ASSUME CrudAssumption, CrudInv, [CrudNext]_crudVars
    PROVE  CrudInv'
<1>1. CASE UNCHANGED crudVars
  <2>1. UNCHANGED <<stamp, lastStamp, owners, job, preview>>
    BY <1>1 DEF crudVars
  <2>2. Existing' = Existing
    BY <2>1 DEF Existing
  <2>3. CrudTypes' /\ StampsInOrder'
    BY <2>1, <2>2 DEF CrudInv, CrudTypes, StampsInOrder
  <2>4. Evolves /\ lastStamp' >= lastStamp
    BY <2>1 DEF Evolves, CrudInv, CrudTypes
  <2>5. ASSUME NEW b \in Actors
        PROVE  ActorOK(b)'
    <3>1. PhaseOK(b)
        BY DEF CrudInv, ActorOK
    <3>2. QED
        BY <2>1, <2>2, <2>3, <2>4, <3>1, BystanderStays DEF PhaseOK
  <2>6. ASSUME NEW b \in Actors
        PROVE  /\ HeldRows(b)' \subseteq HeldRows(b) /\ Cleared(b)' \subseteq Cleared(b)
               /\ KeyLocked(b)' = KeyLocked(b)
    BY <2>1, <2>2, <2>3, <2>4, BystanderRows
  <2>7. ASSUME NEW b \in Actors, NEW c \in Actors, b # c
        PROVE  Apart(b, c)'
    <3>1. Apart(b, c)
        BY <2>7 DEF CrudInv
    <3>2. QED
        BY <2>1, <2>6, <3>1 DEF Apart
  <2>8. QED
    BY <2>3, <2>5, <2>7 DEF CrudInv
<1>2. CASE CrudNext
  <2>1. PICK a \in Actors :
           \/ \E r \in Records :
                \/ Creates(a, r)
                \/ \E v \in 1..LastStamp : Updates(a, r, v) \/ Deletes(a, r, v) \/ Previews(a, r, v)
           \/ CreateCommits(a) \/ UpdateCommits(a) \/ AssertNoDependents(a)
           \/ Confirms(a) \/ OpensConfirmed(a) \/ PlanLevel(a) \/ PreviewShown(a) \/ PlanConfirmed(a)
           \/ RemoveDependent(a) \/ DeleteCommits(a) \/ RoleChanges(a) \/ Fails(a)
    BY <1>2 DEF CrudNext
  <2>2. CASE \E r \in Records : Creates(a, r)
    BY <2>2, CreateStep
  <2>3. ASSUME NEW r \in Records, NEW v \in 1..LastStamp,
               Updates(a, r, v) \/ Deletes(a, r, v) \/ Previews(a, r, v)
        PROVE  CrudInv'
    <3>1. v \in 0..LastStamp
        BY DEF CrudAssumption
    <3>2. CASE Updates(a, r, v)
        BY <3>1, <3>2, OpensStep DEF Updates
    <3>3. CASE Deletes(a, r, v)
        BY <3>1, <3>3, OpensStep DEF Deletes
    <3>4. CASE Previews(a, r, v)
        BY <3>4, PreviewSteps
    <3>5. QED
        BY <2>3, <3>2, <3>3, <3>4
  <2>4. CASE CreateCommits(a) \/ UpdateCommits(a)
    BY <2>4, WriteStep
  <2>5. CASE AssertNoDependents(a)
    BY <2>5, AssertStep
  <2>6. CASE Confirms(a)
    <3> DEFINE j == [kind |-> "cascade", root |-> preview[a].root, step |-> "actor"]
    <3>1. preview[a].root \in Records \cup {NoRecord}
        BY DEF CrudInv, CrudTypes
    <3>2. j \in CrudJobs
        BY <3>1 DEF CrudJobs
    <3>3. NewJob(a, j) /\ a \in owners /\ job[a] = NoJob /\ UNCHANGED <<stamp, lastStamp, owners, preview>>
        BY <2>6 DEF Confirms
    <3>4. QED
        BY <3>2, <3>3, IdleStep
  <2>7. CASE OpensConfirmed(a)
    <3>1. /\ job[a].kind = "cascade"
          /\ OpensFor(a, "cascade", preview[a].root, preview[a].version, "plan")
        BY <2>7 DEF OpensConfirmed
    <3>2. preview[a].version \in 0..LastStamp /\ a \in owners
        BY <3>1 DEF CrudInv, CrudTypes, ActorOK, PhaseOK
    <3>3. QED
        BY <3>1, <3>2, OpensStep
  <2>8. CASE PlanLevel(a)
    BY <2>8, PlanLevelStep
  <2>9. CASE PreviewShown(a)
    BY <2>9, ShownStep
  <2>10. CASE PlanConfirmed(a)
    BY <2>10, ConfirmedStep
  <2>11. CASE RemoveDependent(a)
    BY <2>11, RemoveStep
  <2>12. CASE DeleteCommits(a)
    BY <2>12, DeleteStep
  <2>13. CASE RoleChanges(a)
    BY <2>13, RoleStep
  <2>14. CASE Fails(a)
    BY <2>14, QuietEnd DEF Fails
  <2>15. QED
    BY <2>1, <2>2, <2>3, <2>4, <2>5, <2>6, <2>7, <2>8, <2>9, <2>10, <2>11, <2>12, <2>13, <2>14
<1>3. QED
    BY <1>1, <1>2

\* The transactions on the administrator's records keep their locks, their
\* plans and the versions they name in order.
THEOREM CrudInvariant == CrudSpec => []CrudInv
<1>1. CrudInit => CrudInv
    BY CrudAssumption, CrudInit_Inv
<1>2. CrudInv /\ [CrudNext]_crudVars => CrudInv'
    BY CrudAssumption, CrudStep_Inv
<1>3. QED
    BY <1>1, <1>2, PTL DEF CrudSpec

\* Every variable of the records' transactions has values of its type.
THEOREM CrudTypesAreKept == CrudSpec => []CrudTypeOK
<1>1. CrudInv => CrudTypeOK
  <2> SUFFICES ASSUME CrudInv
               PROVE  CrudTypeOK
    OBVIOUS
  <2>1. CrudTypes
    BY DEF CrudInv
  <2>2. \A a \in Actors : job[a].kind \in Kinds
    BY <2>1 DEF CrudTypes, CrudJobs, PreviewJobs, WritingJobs, NoJob, Kinds
  <2>3. QED
    BY <2>1, <2>2 DEF CrudTypes, CrudTypeOK
<1>2. QED
    BY <1>1, CrudInvariant, PTL

\* Only the commit of a member's own transaction ends it with a write.
LEMMA OwnCommit ==
    ASSUME CrudAssumption, CrudInv, CrudNext, NEW a \in Actors, stamp' # stamp,
           job[a].kind \in {"update", "delete", "cascade"}, job'[a] = NoJob
    PROVE  UpdateCommits(a) \/ DeleteCommits(a)
<1>1. PICK b \in Actors : CreateCommits(b) \/ UpdateCommits(b) \/ DeleteCommits(b)
  <2>1. PICK b \in Actors :
           \/ \E r \in Records :
                \/ Creates(b, r)
                \/ \E v \in 1..LastStamp : Updates(b, r, v) \/ Deletes(b, r, v) \/ Previews(b, r, v)
           \/ CreateCommits(b) \/ UpdateCommits(b) \/ AssertNoDependents(b)
           \/ Confirms(b) \/ OpensConfirmed(b) \/ PlanLevel(b) \/ PreviewShown(b) \/ PlanConfirmed(b)
           \/ RemoveDependent(b) \/ DeleteCommits(b) \/ RoleChanges(b) \/ Fails(b)
    BY DEF CrudNext
  <2>2. ~(\E r \in Records : Creates(b, r))
    BY DEF Creates
  <2>3. \A kind, r, v, s : ~OpensFor(b, kind, r, v, s)
    BY DEF OpensFor
  <2>4. ~OpensConfirmed(b) /\ \A r, v : ~Updates(b, r, v) /\ ~Deletes(b, r, v)
    BY <2>3 DEF OpensConfirmed, Updates, Deletes
  <2>5. \A r, v : ~Previews(b, r, v)
    BY DEF Previews
  <2>6. ~AssertNoDependents(b) /\ ~Confirms(b) /\ ~PlanLevel(b) /\ ~PreviewShown(b)
    BY DEF AssertNoDependents, Confirms, PlanLevel, PreviewShown
  <2>7. ~PlanConfirmed(b) /\ ~RemoveDependent(b) /\ ~RoleChanges(b) /\ ~Fails(b)
    BY DEF PlanConfirmed, RemoveDependent, RoleChanges, Fails
  <2>8. QED
    BY <2>1, <2>2, <2>4, <2>5, <2>6, <2>7
<1>2. JobEnds(b)
    BY <1>1 DEF CreateCommits, UpdateCommits, Writes, DeleteCommits
<1>3. job[a] # NoJob
    BY DEF NoJob
<1>4. a = b
    BY <1>2, <1>3 DEF JobEnds, NewJob, CrudInv, CrudTypes
<1>5. QED
    BY <1>1, <1>4 DEF CreateCommits

\* An update or a deletion that commits is of the version that its request
\* names, and whoever removes a tree of records is an owner at that moment.
THEOREM CommitsAreCurrent == CrudSpec => WritesAreCurrent
<1>1. CrudInv /\ [CrudNext]_crudVars =>
        [\A a \in Actors :
           stamp' # stamp /\ job[a].kind \in {"update", "delete", "cascade"} /\ job'[a] = NoJob
             => /\ stamp[job[a].root] = job[a].version
                /\ job[a].kind = "cascade" => a \in owners]_<<stamp, job, owners>>
  <2> SUFFICES ASSUME CrudInv, [CrudNext]_crudVars, stamp' # stamp, NEW a \in Actors,
                      job[a].kind \in {"update", "delete", "cascade"}, job'[a] = NoJob
               PROVE  /\ stamp[job[a].root] = job[a].version
                      /\ job[a].kind = "cascade" => a \in owners
    OBVIOUS
  <2>1. CrudNext
    BY DEF crudVars
  <2>2. UpdateCommits(a) \/ DeleteCommits(a)
    BY <2>1, CrudAssumption, OwnCommit
  <2>3. Writing(a)
    <3>1. job[a] \in CrudJobs /\ PhaseOK(a)
        BY DEF CrudInv, CrudTypes, ActorOK
    <3>2. CASE UpdateCommits(a)
        BY <3>1, <3>2 DEF UpdateCommits, Writing, CrudJobs, PreviewJobs, WritingJobs, NoJob
    <3>3. CASE DeleteCommits(a)
        BY <3>3 DEF DeleteCommits, Writing
    <3>4. QED
        BY <2>2, <3>2, <3>3
  <2>4. QED
    BY <2>3 DEF CrudInv, ActorOK, PhaseOK
<1>2. QED
    BY <1>1, CrudInvariant, PTL DEF CrudSpec, WritesAreCurrent

\* What a commit removes beside its root was shown, or is newer than the lock
\* of the root.
LEMMA RemovedWereShown ==
    ASSUME CrudAssumption, CrudInv, NEW a \in Actors, DeleteCommits(a),
           NEW r \in RemovedBy(a), r # job[a].root
    PROVE  /\ job[a].kind = "cascade"
           /\ <<r, "delete", stamp[r]>> \in preview[a].effects \/ stamp[r] > job[a].at
<1>1. /\ Writing(a) /\ job[a].kind \in {"delete", "cascade"} /\ job[a].step = "remove"
      /\ job[a].root \in Existing
    BY RemovedRows DEF DeleteCommits, RemovedBy
<1>2. r \in Existing /\ r \in job[a].gone \cup Takes(a, job[a].root)
    BY DEF RemovedBy
<1>3. PICK rs : rs = {job[a].root} \cap Existing
    OBVIOUS
<1>4. Takes(a, job[a].root) \subseteq Closure(rs) /\ rs = {job[a].root}
    BY <1>1, <1>3 DEF Takes
<1>5. CASE job[a].kind = "delete"
  <2>1. Children(rs) = {} /\ job[a].gone = {}
    BY <1>1, <1>4, <1>5 DEF CrudInv, ActorOK, RootStandsAlone
  <2>2. rs \cup Cascading(rs) \subseteq rs /\ rs \in SUBSET Records
    BY <1>1, <1>4, <2>1 DEF Cascading, Existing
  <2>3. Closure(rs) \subseteq rs
    BY <1>3, <2>2, CascadeClosure
  <2>4. QED
    BY <1>2, <1>4, <2>1, <2>3
<1>6. CASE job[a].kind = "cascade"
  <2>1. PlanFollows(a)
    BY DEF CrudInv, ActorOK
  <2>2. SUFFICES ASSUME ~(stamp[r] > job[a].at)
                 PROVE  <<r, "delete", stamp[r]>> \in preview[a].effects
    BY <1>6
  <2>3. job[a].at \in Int /\ stamp[r] \in Int
    BY <1>1, <1>2, WritingJob DEF CrudInv, CrudTypes, Existing
  <2>4. r \in Unwritten(job[a].at)
    BY <1>2, <2>2, <2>3, UnwrittenFacts
  <2>5. rs \subseteq Planned(a)
    BY <1>1, <1>4, <1>6, <2>1 DEF PlanFollows
  <2>6. Closure(rs) \cap Unwritten(job[a].at) \subseteq Planned(a)
    BY <1>1, <1>3, <1>6, <2>5, ClosureIsPlanned
  <2>7. r \in Planned(a)
    BY <1>1, <1>2, <1>4, <1>6, <2>1, <2>4, <2>6 DEF PlanFollows
  <2>8. Planned(a) = {e[1] : e \in job[a].effects} /\ job[a].effects \subseteq CrudTriples({"delete"})
    BY <1>1, WritingJob DEF CrudInv
  <2>9. PICK e \in job[a].effects : e[1] = r
    BY <2>7, <2>8
  <2>10. e = <<e[1], "delete", e[3]>>
    BY <2>8 DEF CrudTriples
  <2>11. stamp[r] = e[3]
    <3>1. stamp[e[1]] \in {e[3], Removed} \/ stamp[e[1]] > job[a].at
        BY <1>1, <1>6, <2>1 DEF PlanFollows
    <3>2. stamp[r] > 0
        BY <1>2 DEF Existing
    <3>3. QED
        BY <2>2, <2>9, <3>1, <3>2 DEF Removed
  <2>12. e \in preview[a].effects
    BY <1>1, <1>6, <2>1 DEF PlanFollows
  <2>13. QED
    BY <2>9, <2>10, <2>11, <2>12
<1>7. QED
    BY <1>1, <1>5, <1>6

\* A deletion without a confirmation removes its record and no other; a
\* confirmed one removes what the preview showed, as it showed it, and beside
\* it only what was written since the transaction has locked the root.
THEOREM ConfirmedRemovalsWereShown == CrudSpec => RemovalsWereShown
<1>1. CrudInv /\ [CrudNext]_crudVars =>
        [\A a \in Actors :
           job[a].kind \in {"delete", "cascade"} /\ job'[a] = NoJob =>
             \A r \in {s \in Existing : stamp'[s] = Removed} \ {job[a].root} :
               /\ job[a].kind = "cascade"
               /\ <<r, "delete", stamp[r]>> \in preview[a].effects \/ stamp[r] > job[a].at
        ]_<<stamp, job, preview>>
  <2> SUFFICES ASSUME CrudInv, [CrudNext]_crudVars, <<stamp, job, preview>>' # <<stamp, job, preview>>,
                      NEW a \in Actors, job[a].kind \in {"delete", "cascade"}, job'[a] = NoJob,
                      NEW r \in Existing, stamp'[r] = Removed, r # job[a].root
               PROVE  /\ job[a].kind = "cascade"
                      /\ <<r, "delete", stamp[r]>> \in preview[a].effects \/ stamp[r] > job[a].at
    OBVIOUS
  <2>1. CrudNext
    BY DEF crudVars
  <2>2. r \in Records /\ stamp[r] > 0 /\ lastStamp \in Nat
    BY DEF Existing, CrudInv, CrudTypes
  <2>3. stamp' # stamp
    BY <2>2 DEF Removed
  <2>4. UpdateCommits(a) \/ DeleteCommits(a)
    BY <2>1, <2>3, CrudAssumption, OwnCommit
  <2>5. DeleteCommits(a)
    BY <2>4 DEF UpdateCommits
  <2>6. r \in RemovedBy(a)
    <3>1. stamp' = [x \in Records |-> IF x \in RemovedBy(a) THEN Removed
                      ELSE IF x \in ClearedBy(a) THEN lastStamp + 1 ELSE stamp[x]]
        BY <2>5, CrudAssumption, RemovedRows
    <3>2. QED
        BY <2>2, <3>1 DEF Removed
  <2>7. QED
    BY <2>5, <2>6, CrudAssumption, RemovedWereShown
<1>2. QED
    BY <1>1, CrudInvariant, PTL DEF CrudSpec, RemovalsWereShown

-----------------------------------------------------------------------------
(***************************************************************************)
(* EditorialScreen: an image belongs to one form, or to an article, and the*)
(* requests under way carry the images of the form that sent them.         *)
(***************************************************************************)

PendingSets == [urls : SUBSET Shots, disposed : BOOLEAN, saving : BOOLEAN]
ImageCalls == [phase : {"none", "sent", "stored", "told", "lost"}, form : 0..LastForm]
ArticleSaves ==
  [phase : {"none", "sent", "stored"}, form : 0..LastForm, images : SUBSET Shots,
   urls : SUBSET Shots, over : Nat, deletes : BOOLEAN]

EditorialTypes ==
  /\ article \subseteq Shots /\ files \subseteq Shots /\ draft \subseteq Shots
  /\ edition \in Nat /\ base \in 0..edition
  /\ edition <= LastSave \/ (edition = LastSave + 1 /\ save.phase # "sent")
  /\ formsOpened \in 0..LastForm /\ form \in 0..formsOpened
  /\ formBusy \in BOOLEAN /\ blindSaves \in BOOLEAN
  /\ pendingImages \in [Forms -> PendingSets]
  /\ imageUploads \in [Shots -> ImageCalls]
  /\ save \in ArticleSaves
  /\ discards \subseteq SUBSET Shots /\ abandoned \subseteq Shots

InFlight(i) == imageUploads[i].phase \in {"sent", "stored"}
\* Every image that is named anywhere arrived at the page once, and at one form.
ArrivedImages(s) == \A i \in s : imageUploads[i].phase = "told"
ImagesHaveArrived ==
  /\ ArrivedImages(article) /\ ArrivedImages(draft)
  /\ ArrivedImages(save.images) /\ ArrivedImages(save.urls)
  /\ \A f \in Forms : ArrivedImages(pendingImages[f].urls)
  /\ \A d \in discards : ArrivedImages(d)
\* An uploaded image is pending in one form, or asked to be discarded.
ImagesAreApart ==
  \A f \in Forms :
    /\ \A g \in Forms \ {f} : pendingImages[f].urls \cap pendingImages[g].urls = {}
    /\ \A d \in discards : pendingImages[f].urls \cap d = {}
UploadOK(i) ==
  /\ imageUploads[i].form <= formsOpened
  /\ InFlight(i) /\ imageUploads[i].form # 0 =>
       imageUploads[i].form = form \/ pendingImages[imageUploads[i].form].disposed
  /\ imageUploads[i].phase = "sent" => i \notin files /\ (imageUploads[i].form = 0 => i \in abandoned)
  /\ imageUploads[i].phase = "stored" => i \in files /\ imageUploads[i].form # 0
  /\ imageUploads[i].phase \in {"none", "lost"} => i \notin files \ abandoned
\* A form that is gone is disposed of, or of a page that is gone; one that is
\* disposed of has kept its images only while it is saved.
FormOK(f) ==
  /\ f > formsOpened => ~ pendingImages[f].disposed
  /\ f = form => ~ pendingImages[f].disposed
  /\ f # form /\ ~ pendingImages[f].disposed => pendingImages[f].urls = {} /\ ~ pendingImages[f].saving
  /\ pendingImages[f].disposed /\ ~ pendingImages[f].saving => pendingImages[f].urls = {}
  /\ pendingImages[f].saving => save.phase # "none" /\ save.form = f /\ ~ save.deletes
\* A form has one call under way, and is busy as long as it is open.
OneCall ==
  /\ save.phase # "none" /\ save.form = form /\ form # 0 => formBusy
  /\ \A i \in Shots : InFlight(i) /\ imageUploads[i].form # 0 =>
       /\ imageUploads[i].form = form => formBusy
       /\ save.phase = "none" \/ save.form # imageUploads[i].form
       /\ \A j \in Shots \ {i} : InFlight(j) => imageUploads[j].form # imageUploads[i].form
SaveOK ==
  /\ save.phase = "none" => save = NotSaved
  /\ save.phase = "stored" => save.form # 0
  /\ save.form <= formsOpened /\ save.over <= edition
  /\ save.deletes => save.images = {} /\ save.urls = {}
  /\ save.phase # "none" /\ save.form # 0 /\ ~ save.deletes =>
       pendingImages[save.form].saving /\ pendingImages[save.form].urls = save.urls
  /\ save.phase # "none" /\ save.form = form /\ form # 0 /\ ~ save.deletes => draft = save.images
\* What a draft or a save names beyond the article is pending.
DraftOK ==
  /\ form = 0 => draft = {}
  /\ form # 0 => draft \cap files \subseteq article \cup pendingImages[form].urls
  /\ form # 0 /\ base = edition =>
       draft \subseteq article \cup pendingImages[form].urls /\ draft \subseteq article \cup files
SavedOK ==
  /\ save.phase = "sent" => save.images \cap files \subseteq article \cup save.urls
  /\ save.phase = "stored" =>
       /\ (save.images \cup save.urls) \cap files \subseteq article
       /\ save.over = edition => article = save.images
  /\ save.phase = "sent" /\ save.form # 0 /\ save.over = edition /\ ~ save.deletes =>
       save.images \subseteq article \cup save.urls /\ save.images \subseteq article \cup files
EditorialInv ==
  /\ EditorialTypes /\ ImagesHaveArrived /\ ImagesAreApart
  /\ \A i \in Shots : UploadOK(i)
  /\ \A f \in Forms : FormOK(f)
  /\ OneCall /\ SaveOK /\ DraftOK /\ SavedOK
  /\ ArticleImagesExist /\ FilesAreAccountedFor
\* The form f now has these pending images, or its cleanup has asked to discard them.
NowHas(f, u, disposed, saving) ==
  /\ pendingImages' \in [Forms -> PendingSets]
  /\ \A g \in Forms \ {f} : pendingImages'[g] = pendingImages[g]
  /\ (disposed /\ ~ saving => pendingImages'[f].urls = {})
  /\ (~ (disposed /\ ~ saving) => pendingImages'[f].urls = u)
  /\ pendingImages'[f].disposed = disposed /\ pendingImages'[f].saving = saving
  /\ discards \subseteq discards' /\ discards' \subseteq SUBSET Shots
  /\ \A d \in discards' : d \in discards \/ (d = u /\ disposed /\ ~ saving)
  /\ disposed /\ ~ saving => \A x \in u : \E d \in discards' : x \in d

\* cleanup() asks once for what the form had, and forgets it.
LEMMA AskedOnce ==
  ASSUME discards \subseteq SUBSET Shots, NEW u \in SUBSET Shots, Asks(u)
  PROVE  /\ discards \subseteq discards' /\ discards' \subseteq SUBSET Shots
         /\ \A d \in discards' : d \in discards \/ (d = u /\ u # {})
         /\ \A x \in u : \E d \in discards' : x \in d
<1>1. discards' = discards \cup ({u} \ {{}})
    BY DEF Asks
<1>2. \A x \in u : u \in discards'
    BY <1>1
<1>3. QED
    BY <1>1, <1>2

LEMMA BecomesSo ==
  ASSUME EditorialTypes, NEW f \in Forms, NEW p \in PendingSets, Becomes(f, p)
  PROVE  NowHas(f, p.urls, p.disposed, p.saving)
<1>1. /\ p.urls \subseteq Shots /\ p.disposed \in BOOLEAN /\ p.saving \in BOOLEAN
      /\ p = [urls |-> p.urls, disposed |-> p.disposed, saving |-> p.saving]
    BY DEF PendingSets
<1>2. pendingImages \in [Forms -> PendingSets] /\ discards \subseteq SUBSET Shots
    BY DEF EditorialTypes
<1>3. CASE p.disposed /\ ~ p.saving
    <2>1. Discarded(p) = p.urls
        BY <1>3 DEF Discarded
    <2>2. Cleaned(p) = [urls |-> {}, disposed |-> p.disposed, saving |-> p.saving]
        BY <2>1, <1>1 DEF Cleaned, PendingSets
    <2>3. pendingImages' = [pendingImages EXCEPT ![f] = Cleaned(p)] /\ Asks(p.urls)
        BY <2>1 DEF Becomes
    <2>4. Cleaned(p) \in PendingSets
        BY <2>2, <1>1 DEF PendingSets
    <2>5. QED
        BY <1>1, <1>2, <1>3, <2>2, <2>3, <2>4, AskedOnce DEF NowHas
<1>4. CASE ~ (p.disposed /\ ~ p.saving)
    <2>1. Discarded(p) = {}
        BY <1>4 DEF Discarded
    <2>2. Cleaned(p) = p
        BY <2>1, <1>1 DEF Cleaned, PendingSets
    <2>3. pendingImages' = [pendingImages EXCEPT ![f] = p] /\ Asks({})
        BY <2>1, <2>2 DEF Becomes
    <2>4. discards' = discards
        BY <2>3 DEF Asks
    <2>5. QED
        BY <1>1, <1>2, <1>4, <2>3, <2>4 DEF NowHas
<1>5. QED
    BY <1>3, <1>4

\* The form that is left is disposed of.
FormLeaves ==
  /\ form # 0 => form \in Forms
  /\ pendingImages' \in [Forms -> PendingSets]
  /\ \A g \in Forms : g # form => pendingImages'[g] = pendingImages[g]
  /\ form # 0 => /\ pendingImages'[form].disposed = TRUE
                 /\ pendingImages'[form].saving = pendingImages[form].saving
                 /\ pendingImages[form].saving => pendingImages'[form].urls = pendingImages[form].urls
                 /\ ~ pendingImages[form].saving => pendingImages'[form].urls = {}
  /\ discards \subseteq discards' /\ discards' \subseteq SUBSET Shots
  /\ \A d \in discards' : d \in discards
       \/ (form # 0 /\ d = pendingImages[form].urls /\ ~ pendingImages[form].saving)
  /\ form # 0 /\ ~ pendingImages[form].saving =>
       \A x \in pendingImages[form].urls : \E d \in discards' : x \in d

LEMMA ClosesSo == ASSUME EditorialTypes, Closes PROVE FormLeaves
<1>1. CASE form = 0
    <2>1. pendingImages' = pendingImages /\ discards' = discards
        BY <1>1 DEF Closes
    <2>2. 0 \notin Forms
        BY DEF Forms
    <2>3. QED
        BY <1>1, <2>1 DEF EditorialTypes, FormLeaves
<1>2. CASE form # 0
    <2>1. form \in Forms /\ pendingImages[form] \in PendingSets
        BY <1>2, EditorialAssumption DEF EditorialTypes, Forms
    <2>2. /\ Disposed(form) \in PendingSets /\ Disposed(form).urls = pendingImages[form].urls
          /\ Disposed(form).disposed = TRUE /\ Disposed(form).saving = pendingImages[form].saving
          /\ pendingImages[form].saving \in BOOLEAN
        BY <2>1 DEF Disposed, PendingSets
    <2>3. Becomes(form, Disposed(form))
        BY <1>2 DEF Closes
    <2>4. NowHas(form, Disposed(form).urls, Disposed(form).disposed, Disposed(form).saving)
        BY <2>1, <2>2, <2>3, BecomesSo
    <2>5. NowHas(form, pendingImages[form].urls, TRUE, pendingImages[form].saving)
        BY <2>2, <2>4
    <2>6. QED
        BY <1>2, <2>1, <2>2, <2>5 DEF NowHas, FormLeaves
<1>3. QED
    BY <1>1, <1>2

\* What the types say of the parts of the records.
EditorialKinds ==
  /\ save.form \in 0..LastForm /\ save.images \subseteq Shots /\ save.urls \subseteq Shots
  /\ save.over \in Nat /\ save.deletes \in BOOLEAN
  /\ save.phase \in {"none", "sent", "stored"}
  /\ save.form # 0 => save.form \in Forms
  /\ form # 0 => form \in Forms
  /\ \A f \in Forms : /\ pendingImages[f].urls \subseteq Shots /\ pendingImages[f].disposed \in BOOLEAN
                      /\ pendingImages[f].saving \in BOOLEAN
  /\ \A x \in Shots : imageUploads[x].form \in 0..LastForm
  /\ \A x \in Shots : imageUploads[x].phase \in {"none", "sent", "stored", "told", "lost"}
  /\ \A x \in Shots : imageUploads[x].form # 0 => imageUploads[x].form \in Forms

LEMMA EditorialParts == EditorialTypes => EditorialKinds
BY EditorialAssumption DEF EditorialTypes, ArticleSaves, ImageCalls, PendingSets, Forms,
   EditorialKinds

LEMMA SelectArticleKeeps == ASSUME EditorialInv, SelectArticle PROVE EditorialInv'
<1>0. FormLeaves
    BY ClosesSo DEF EditorialInv, SelectArticle
<1>p. EditorialKinds
    BY EditorialParts DEF EditorialInv
<1>1. EditorialTypes'
    <2>1. article' \subseteq Shots /\ files' \subseteq Shots /\ draft' \subseteq Shots
        BY EditorialAssumption, <1>p, <1>0 DEF EditorialInv, EditorialTypes, SelectArticle,
           articleVars
    <2>2. formBusy' \in BOOLEAN /\ blindSaves' \in BOOLEAN /\ abandoned' \subseteq Shots
        BY EditorialAssumption, <1>p, <1>0 DEF EditorialInv, EditorialTypes, SelectArticle,
           articleVars, editors, Cleaned
    <2>3. /\ edition' \in Nat /\ base' \in 0..edition'
          /\ edition' <= LastSave \/ (edition' = LastSave + 1 /\ save'.phase # "sent")
          /\ formsOpened' \in 0..LastForm /\ form' \in 0..formsOpened'
        BY EditorialAssumption, <1>p, <1>0 DEF EditorialInv, EditorialTypes, SelectArticle,
           articleVars, editors, SaveOK
    <2>4. pendingImages' \in [Forms -> PendingSets]
        BY EditorialAssumption, <1>p, <1>0 DEF EditorialInv, EditorialTypes, SelectArticle,
           articleVars, editors, PendingSets, FormLeaves
    <2>5. imageUploads' \in [Shots -> ImageCalls]
        BY EditorialAssumption, <1>p, <1>0 DEF EditorialInv, EditorialTypes, SelectArticle,
           articleVars, editors, ImageCalls
    <2>6. save' \in ArticleSaves
        BY EditorialAssumption, <1>p, <1>0 DEF EditorialInv, EditorialTypes, SelectArticle,
           articleVars, editors, ArticleSaves
    <2>7. discards' \subseteq SUBSET Shots
        BY EditorialAssumption, <1>p, <1>0 DEF EditorialInv, EditorialTypes, SelectArticle,
           articleVars, FormLeaves
    <2>8. QED
        BY <2>1, <2>2, <2>3, <2>4, <2>5, <2>6, <2>7 DEF EditorialTypes
<1>2. ImagesHaveArrived'
    <2>1. ASSUME NEW g \in Forms
          PROVE  pendingImages'[g].urls \subseteq pendingImages[g].urls
        <3>1. CASE g # form
            BY <1>0, <3>1 DEF FormLeaves
        <3>2. CASE g = form
            <4>1. g # 0
                BY DEF Forms
            <4>2. QED
                BY <1>0, <1>p, <3>2, <4>1 DEF FormLeaves
        <3>3. QED
            BY <3>1, <3>2
    <2>2. \A x \in Shots : imageUploads[x].phase = "told" => imageUploads'[x].phase = "told"
        BY <1>0, <1>p DEF SelectArticle
    <2>3. \A d \in discards' : \A x \in d : imageUploads[x].phase = "told"
        BY <1>0, <1>p DEF EditorialInv, ImagesHaveArrived, ArrivedImages, FormLeaves
    <2>4. \A x \in article' \cup draft' \cup save'.images \cup save'.urls : imageUploads[x].phase = "told"
        BY <1>0, <1>p DEF EditorialInv, ImagesHaveArrived, ArrivedImages, SelectArticle,
           articleVars
    <2>5. /\ article' \subseteq Shots /\ draft' \subseteq Shots /\ save'.images \subseteq Shots
          /\ save'.urls \subseteq Shots /\ discards' \subseteq SUBSET Shots
          /\ \A g \in Forms : pendingImages'[g].urls \subseteq Shots
        BY <1>1 DEF EditorialTypes, ArticleSaves, PendingSets
    <2>6. QED
        BY <2>1, <2>2, <2>3, <2>4, <2>5 DEF EditorialInv, ImagesHaveArrived, ArrivedImages
<1>3. ImagesAreApart'
    <2>1. ASSUME NEW g \in Forms
          PROVE  pendingImages'[g].urls \subseteq pendingImages[g].urls
        <3>1. CASE g # form
            BY <1>0, <3>1 DEF FormLeaves
        <3>2. CASE g = form
            <4>1. g # 0
                BY DEF Forms
            <4>2. QED
                BY <1>0, <1>p, <3>2, <4>1 DEF FormLeaves
        <3>3. QED
            BY <3>1, <3>2
    <2>2. ASSUME NEW d \in discards', NEW g \in Forms
          PROVE  pendingImages'[g].urls \cap d = {}
        <3>1. CASE d \in discards
            BY <2>1, <3>1 DEF EditorialInv, ImagesAreApart
        <3>2. CASE d \notin discards
            <4>1. CASE g = form
                BY <1>0, <1>p, <3>2, <4>1 DEF FormLeaves
            <4>2. CASE g # form
                BY <1>0, <1>p, <2>1, <3>2, <4>2 DEF EditorialInv, ImagesAreApart, FormLeaves
            <4>3. QED
                BY <4>1, <4>2
        <3>3. QED
            BY <3>1, <3>2
    <2>3. QED
        BY <2>1, <2>2 DEF EditorialInv, ImagesAreApart
<1>4. \A x \in Shots : UploadOK(x)'
    BY EditorialAssumption, <1>p, <1>0 DEF EditorialInv, SelectArticle, articleVars, editors,
       EditorialTypes, InFlight, ImageCalls, UploadOK, ImagesHaveArrived, EditorialKinds,
       FormLeaves
<1>5. \A g \in Forms : FormOK(g)'
    BY EditorialAssumption, <1>p, <1>0 DEF EditorialInv, SelectArticle, articleVars, editors,
       EditorialTypes, FormOK, SaveOK, ArticleSaves, Forms, FormLeaves
<1>6. OneCall'
    BY EditorialAssumption, <1>p, <1>0 DEF EditorialInv, SelectArticle, articleVars, editors,
       EditorialTypes, OneCall, InFlight, ImageCalls, ArticleSaves, SaveOK, UploadOK,
       NoImageUpload
<1>7. SaveOK'
    BY EditorialAssumption, <1>p, <1>0 DEF EditorialInv, SelectArticle, articleVars, editors,
       EditorialTypes, SaveOK, OneCall, InFlight, FormOK, ArticleSaves, Forms, FormLeaves
<1>8. DraftOK'
    BY EditorialAssumption, <1>p, <1>0 DEF EditorialInv, SelectArticle, articleVars, editors,
       EditorialTypes, DraftOK, SavedOK, SaveOK, ImagesHaveArrived, ArrivedImages,
       ImagesAreApart, Forms
<1>9. SavedOK'
    BY EditorialAssumption, <1>p, <1>0 DEF EditorialInv, SelectArticle, articleVars, editors,
       EditorialTypes, SavedOK, SaveOK, DraftOK, ArticleSaves, ImagesHaveArrived,
       ArrivedImages, ImagesAreApart, Forms
<1>10. ArticleImagesExist'
    BY EditorialAssumption, <1>p, <1>0 DEF EditorialInv, SelectArticle, articleVars, editors,
       EditorialTypes, ArticleImagesExist, SavedOK, SaveOK
<1>11. FilesAreAccountedFor'
    <2> SUFFICES ASSUME NEW x \in files' \ abandoned'
                 PROVE  \/ x \in article' \/ x \in save'.images \cup save'.urls
                        \/ imageUploads'[x].phase = "stored"
                        \/ \E d \in discards' : x \in d
                        \/ \E g \in Forms : x \in pendingImages'[g].urls /\ (g = form' \/ pendingImages'[g].saving)
        BY DEF FilesAreAccountedFor
    <2>1. x \in files \ abandoned /\ x \in Shots
        BY <1>0, <1>1 DEF SelectArticle, articleVars, EditorialTypes
    <2>2. \/ x \in article \/ x \in save.images \cup save.urls
          \/ imageUploads[x].phase = "stored"
          \/ \E d \in discards : x \in d
          \/ \E g \in Forms : x \in pendingImages[g].urls /\ (g = form \/ pendingImages[g].saving)
        BY <2>1 DEF EditorialInv, FilesAreAccountedFor
    <2>3. CASE x \in article \/ x \in save.images \cup save.urls
        BY <1>0, <1>p, <2>1, <2>3 DEF SelectArticle, articleVars, EditorialInv, SavedOK,
           SaveOK
    <2>4. CASE imageUploads[x].phase = "stored"
        BY <1>0, <1>p, <2>1, <2>4 DEF SelectArticle, articleVars
    <2>5. CASE \E d \in discards : x \in d
        BY <1>0, <2>5 DEF FormLeaves
    <2>6. ASSUME NEW g \in Forms, x \in pendingImages[g].urls, g = form \/ pendingImages[g].saving
          PROVE  \/ \E d \in discards' : x \in d
                 \/ \E h \in Forms : x \in pendingImages'[h].urls /\ (h = form' \/ pendingImages'[h].saving)
                 \/ x \in article'
        <3>1. CASE g = form
            <4>1. g # 0
                BY DEF Forms
            <4>2. QED
                BY <1>0, <1>p, <2>1, <2>6, <3>1, <4>1 DEF SelectArticle, articleVars,
                   EditorialInv, FormOK, SaveOK, FormLeaves
        <3>2. CASE g # form
            BY <1>0, <1>p, <2>1, <2>6, <3>2 DEF SelectArticle, articleVars, EditorialInv,
               FormOK, FormLeaves
        <3>3. QED
            BY <3>1, <3>2
    <2>7. QED
        BY <2>2, <2>3, <2>4, <2>5, <2>6
<1>12. QED
    BY <1>1, <1>2, <1>3, <1>4, <1>5, <1>6, <1>7, <1>8, <1>9, <1>10, <1>11 DEF EditorialInv

LEMMA LeaveKeeps == ASSUME EditorialInv, Leave PROVE EditorialInv'
<1>0. FormLeaves
    BY ClosesSo DEF EditorialInv, Leave
<1>p. EditorialKinds
    BY EditorialParts DEF EditorialInv
<1>1. EditorialTypes'
    <2>1. article' \subseteq Shots /\ files' \subseteq Shots /\ draft' \subseteq Shots
        BY EditorialAssumption, <1>p, <1>0 DEF EditorialInv, EditorialTypes, Leave,
           articleVars
    <2>2. formBusy' \in BOOLEAN /\ blindSaves' \in BOOLEAN /\ abandoned' \subseteq Shots
        BY EditorialAssumption, <1>p, <1>0 DEF EditorialInv, EditorialTypes, Leave,
           articleVars, editors, Cleaned
    <2>3. /\ edition' \in Nat /\ base' \in 0..edition'
          /\ edition' <= LastSave \/ (edition' = LastSave + 1 /\ save'.phase # "sent")
          /\ formsOpened' \in 0..LastForm /\ form' \in 0..formsOpened'
        BY EditorialAssumption, <1>p, <1>0 DEF EditorialInv, EditorialTypes, Leave,
           articleVars, editors, SaveOK
    <2>4. pendingImages' \in [Forms -> PendingSets]
        BY EditorialAssumption, <1>p, <1>0 DEF EditorialInv, EditorialTypes, Leave,
           articleVars, editors, PendingSets, FormLeaves
    <2>5. imageUploads' \in [Shots -> ImageCalls]
        BY EditorialAssumption, <1>p, <1>0 DEF EditorialInv, EditorialTypes, Leave,
           articleVars, editors, ImageCalls
    <2>6. save' \in ArticleSaves
        BY EditorialAssumption, <1>p, <1>0 DEF EditorialInv, EditorialTypes, Leave,
           articleVars, editors, ArticleSaves
    <2>7. discards' \subseteq SUBSET Shots
        BY EditorialAssumption, <1>p, <1>0 DEF EditorialInv, EditorialTypes, Leave,
           articleVars, FormLeaves
    <2>8. QED
        BY <2>1, <2>2, <2>3, <2>4, <2>5, <2>6, <2>7 DEF EditorialTypes
<1>2. ImagesHaveArrived'
    <2>1. ASSUME NEW g \in Forms
          PROVE  pendingImages'[g].urls \subseteq pendingImages[g].urls
        <3>1. CASE g # form
            BY <1>0, <3>1 DEF FormLeaves
        <3>2. CASE g = form
            <4>1. g # 0
                BY DEF Forms
            <4>2. QED
                BY <1>0, <1>p, <3>2, <4>1 DEF FormLeaves
        <3>3. QED
            BY <3>1, <3>2
    <2>2. \A x \in Shots : imageUploads[x].phase = "told" => imageUploads'[x].phase = "told"
        BY <1>0, <1>p DEF Leave
    <2>3. \A d \in discards' : \A x \in d : imageUploads[x].phase = "told"
        BY <1>0, <1>p DEF EditorialInv, ImagesHaveArrived, ArrivedImages, FormLeaves
    <2>4. \A x \in article' \cup draft' \cup save'.images \cup save'.urls : imageUploads[x].phase = "told"
        BY <1>0, <1>p DEF EditorialInv, ImagesHaveArrived, ArrivedImages, Leave, articleVars
    <2>5. /\ article' \subseteq Shots /\ draft' \subseteq Shots /\ save'.images \subseteq Shots
          /\ save'.urls \subseteq Shots /\ discards' \subseteq SUBSET Shots
          /\ \A g \in Forms : pendingImages'[g].urls \subseteq Shots
        BY <1>1 DEF EditorialTypes, ArticleSaves, PendingSets
    <2>6. QED
        BY <2>1, <2>2, <2>3, <2>4, <2>5 DEF EditorialInv, ImagesHaveArrived, ArrivedImages
<1>3. ImagesAreApart'
    <2>1. ASSUME NEW g \in Forms
          PROVE  pendingImages'[g].urls \subseteq pendingImages[g].urls
        <3>1. CASE g # form
            BY <1>0, <3>1 DEF FormLeaves
        <3>2. CASE g = form
            <4>1. g # 0
                BY DEF Forms
            <4>2. QED
                BY <1>0, <1>p, <3>2, <4>1 DEF FormLeaves
        <3>3. QED
            BY <3>1, <3>2
    <2>2. ASSUME NEW d \in discards', NEW g \in Forms
          PROVE  pendingImages'[g].urls \cap d = {}
        <3>1. CASE d \in discards
            BY <2>1, <3>1 DEF EditorialInv, ImagesAreApart
        <3>2. CASE d \notin discards
            <4>1. CASE g = form
                BY <1>0, <1>p, <3>2, <4>1 DEF FormLeaves
            <4>2. CASE g # form
                BY <1>0, <1>p, <2>1, <3>2, <4>2 DEF EditorialInv, ImagesAreApart, FormLeaves
            <4>3. QED
                BY <4>1, <4>2
        <3>3. QED
            BY <3>1, <3>2
    <2>3. QED
        BY <2>1, <2>2 DEF EditorialInv, ImagesAreApart
<1>4. \A x \in Shots : UploadOK(x)'
    BY EditorialAssumption, <1>p, <1>0 DEF EditorialInv, Leave, articleVars, editors,
       EditorialTypes, InFlight, ImageCalls, UploadOK, ImagesHaveArrived, EditorialKinds,
       FormLeaves
<1>5. \A g \in Forms : FormOK(g)'
    BY EditorialAssumption, <1>p, <1>0 DEF EditorialInv, Leave, articleVars, editors,
       EditorialTypes, FormOK, SaveOK, ArticleSaves, Forms, FormLeaves
<1>6. OneCall'
    BY EditorialAssumption, <1>p, <1>0 DEF EditorialInv, Leave, articleVars, editors,
       EditorialTypes, OneCall, InFlight, ImageCalls, ArticleSaves, SaveOK, UploadOK,
       NoImageUpload
<1>7. SaveOK'
    BY EditorialAssumption, <1>p, <1>0 DEF EditorialInv, Leave, articleVars, editors,
       EditorialTypes, SaveOK, OneCall, InFlight, FormOK, ArticleSaves, Forms, FormLeaves
<1>8. DraftOK'
    BY EditorialAssumption, <1>p, <1>0 DEF EditorialInv, Leave, articleVars, editors,
       EditorialTypes, DraftOK, SavedOK, SaveOK, ImagesHaveArrived, ArrivedImages,
       ImagesAreApart, Forms
<1>9. SavedOK'
    BY EditorialAssumption, <1>p, <1>0 DEF EditorialInv, Leave, articleVars, editors,
       EditorialTypes, SavedOK, SaveOK, DraftOK, ArticleSaves, ImagesHaveArrived,
       ArrivedImages, ImagesAreApart, Forms
<1>10. ArticleImagesExist'
    BY EditorialAssumption, <1>p, <1>0 DEF EditorialInv, Leave, articleVars, editors,
       EditorialTypes, ArticleImagesExist, SavedOK, SaveOK
<1>11. FilesAreAccountedFor'
    <2> SUFFICES ASSUME NEW x \in files' \ abandoned'
                 PROVE  \/ x \in article' \/ x \in save'.images \cup save'.urls
                        \/ imageUploads'[x].phase = "stored"
                        \/ \E d \in discards' : x \in d
                        \/ \E g \in Forms : x \in pendingImages'[g].urls /\ (g = form' \/ pendingImages'[g].saving)
        BY DEF FilesAreAccountedFor
    <2>1. x \in files \ abandoned /\ x \in Shots
        BY <1>0, <1>1 DEF Leave, articleVars, EditorialTypes
    <2>2. \/ x \in article \/ x \in save.images \cup save.urls
          \/ imageUploads[x].phase = "stored"
          \/ \E d \in discards : x \in d
          \/ \E g \in Forms : x \in pendingImages[g].urls /\ (g = form \/ pendingImages[g].saving)
        BY <2>1 DEF EditorialInv, FilesAreAccountedFor
    <2>3. CASE x \in article \/ x \in save.images \cup save.urls
        BY <1>0, <1>p, <2>1, <2>3 DEF Leave, articleVars, EditorialInv, SavedOK, SaveOK
    <2>4. CASE imageUploads[x].phase = "stored"
        BY <1>0, <1>p, <2>1, <2>4 DEF Leave, articleVars
    <2>5. CASE \E d \in discards : x \in d
        BY <1>0, <2>5 DEF FormLeaves
    <2>6. ASSUME NEW g \in Forms, x \in pendingImages[g].urls, g = form \/ pendingImages[g].saving
          PROVE  \/ \E d \in discards' : x \in d
                 \/ \E h \in Forms : x \in pendingImages'[h].urls /\ (h = form' \/ pendingImages'[h].saving)
                 \/ x \in article'
        <3>1. CASE g = form
            <4>1. g # 0
                BY DEF Forms
            <4>2. QED
                BY <1>0, <1>p, <2>1, <2>6, <3>1, <4>1 DEF Leave, articleVars, EditorialInv,
                   FormOK, SaveOK, FormLeaves
        <3>2. CASE g # form
            BY <1>0, <1>p, <2>1, <2>6, <3>2 DEF Leave, articleVars, EditorialInv, FormOK,
               FormLeaves
        <3>3. QED
            BY <3>1, <3>2
    <2>7. QED
        BY <2>2, <2>3, <2>4, <2>5, <2>6
<1>12. QED
    BY <1>1, <1>2, <1>3, <1>4, <1>5, <1>6, <1>7, <1>8, <1>9, <1>10, <1>11 DEF EditorialInv

LEMMA ClosePageKeeps == ASSUME EditorialInv, ClosePage PROVE EditorialInv'
<1>0. /\ form \in Forms /\ form # 0 /\ form' = 0 /\ draft' = {} /\ formBusy' = FALSE
      /\ pendingImages' = [f \in Forms |-> FreshImages]
      /\ \A f \in Forms : /\ pendingImages'[f].urls = {} /\ ~ pendingImages'[f].disposed
                          /\ ~ pendingImages'[f].saving
      /\ discards \subseteq discards' /\ discards' \subseteq SUBSET Shots
      /\ \A d \in discards' : d \in discards \/ d = pendingImages[form].urls
      /\ abandoned \subseteq abandoned' /\ abandoned' \subseteq Shots
      /\ \A f \in Forms : \A x \in pendingImages[f].urls : x \in abandoned' \/ \E d \in discards' : x \in d
      /\ \A x \in Shots : InFlight(x) => x \in abandoned'
      /\ \A x \in Shots :
           /\ imageUploads[x].phase = "sent" => imageUploads'[x].phase = "sent" /\ imageUploads'[x].form = 0
           /\ imageUploads[x].phase = "stored" => imageUploads'[x].phase = "none" /\ imageUploads'[x].form = 0
           /\ imageUploads[x].phase \notin {"sent", "stored"} => imageUploads'[x] = imageUploads[x]
    <2>1. form \in Forms /\ pendingImages[form] \in PendingSets /\ pendingImages \in [Forms -> PendingSets]
        BY EditorialAssumption DEF EditorialInv, EditorialTypes, ClosePage, Forms
    <2>2. DEFINE p == Disposed(form)
    <2>3. /\ p.urls = pendingImages[form].urls /\ p.urls \subseteq Shots /\ p.disposed = TRUE
          /\ p.saving = pendingImages[form].saving /\ p.saving \in BOOLEAN /\ p \in PendingSets
        BY <2>1 DEF Disposed, PendingSets
    <2>4. Discarded(p) \subseteq p.urls /\ Cleaned(p).urls = p.urls \ Discarded(p)
        BY <2>3 DEF Discarded, Cleaned, PendingSets
    <2>5. /\ discards \subseteq discards' /\ discards' \subseteq SUBSET Shots
          /\ \A d \in discards' : d \in discards \/ (d = Discarded(p) /\ Discarded(p) # {})
          /\ \A x \in Discarded(p) : \E d \in discards' : x \in d
        <3>1. Asks(Discarded(p)) /\ discards \subseteq SUBSET Shots /\ Discarded(p) \in SUBSET Shots
            BY <2>3, <2>4 DEF ClosePage, EditorialInv, EditorialTypes
        <3>2. QED
            BY <3>1, AskedOnce
    <2>6. Discarded(p) # {} => Discarded(p) = pendingImages[form].urls
        BY <2>3 DEF Discarded
    <2> DEFINE others == UNION {pendingImages[f].urls : f \in Forms \ {form}}
               own == Cleaned(p).urls
               flying == {x \in Shots : imageUploads[x].phase \in {"sent", "stored"}}
    <2>7. abandoned' = abandoned \cup own \cup others \cup flying
        BY DEF ClosePage
    <2>8. own = Cleaned(p).urls
        OBVIOUS
    <2>9. \A f \in Forms : pendingImages[f].urls \subseteq Shots
        BY <2>1 DEF PendingSets
    <2>a. others \subseteq Shots /\ \A f \in Forms \ {form} : pendingImages[f].urls \subseteq others
        BY <2>9
    <2>b. flying \subseteq Shots /\ \A x \in Shots : InFlight(x) => x \in flying
        BY DEF InFlight
    <2> HIDE DEF others, own, flying
    <2>10. abandoned \subseteq abandoned' /\ abandoned' \subseteq Shots
        BY <2>3, <2>4, <2>7, <2>8, <2>a, <2>b DEF EditorialInv, EditorialTypes
    <2>11. \A x \in Shots : InFlight(x) => x \in abandoned'
        BY <2>7, <2>b
    <2>12. ASSUME NEW f \in Forms, NEW x \in pendingImages[f].urls
           PROVE  x \in abandoned' \/ \E d \in discards' : x \in d
        <3>1. CASE f # form
            BY <2>7, <2>a, <3>1
        <3>2. CASE f = form
            BY <2>3, <2>4, <2>5, <2>7, <2>8, <3>2
        <3>3. QED
            BY <3>1, <3>2
    <2>13. imageUploads' = [x \in Shots |->
          CASE imageUploads[x].phase = "sent" -> [imageUploads[x] EXCEPT !.form = 0]
            [] imageUploads[x].phase = "stored" -> NoImageUpload
            [] OTHER -> imageUploads[x]]
        BY DEF ClosePage
    <2>14. ASSUME NEW x \in Shots
           PROVE  /\ imageUploads[x].phase = "sent" => imageUploads'[x].phase = "sent" /\ imageUploads'[x].form = 0
                  /\ imageUploads[x].phase = "stored" => imageUploads'[x].phase = "none" /\ imageUploads'[x].form = 0
                  /\ imageUploads[x].phase \notin {"sent", "stored"} => imageUploads'[x] = imageUploads[x]
        <3>1. imageUploads[x] \in ImageCalls
            BY DEF EditorialInv, EditorialTypes
        <3>2. CASE imageUploads[x].phase = "sent"
            BY <2>13, <3>1, <3>2 DEF ImageCalls
        <3>3. CASE imageUploads[x].phase = "stored"
            BY <2>13, <3>3 DEF NoImageUpload
        <3>4. CASE imageUploads[x].phase \notin {"sent", "stored"}
            BY <2>13, <3>4
        <3>5. QED
            BY <3>2, <3>3, <3>4
    <2>15. pendingImages' = [f \in Forms |-> FreshImages] /\ form # 0 /\ form' = 0 /\ draft' = {} /\ formBusy' = FALSE
        BY DEF ClosePage
    <2>16. \A f \in Forms : /\ pendingImages'[f].urls = {} /\ ~ pendingImages'[f].disposed
                            /\ ~ pendingImages'[f].saving
        BY <2>15 DEF FreshImages
    <2>17. \A d \in discards' : d \in discards \/ d = pendingImages[form].urls
        BY <2>5, <2>6
    <2>18. QED
        BY <2>1, <2>5, <2>10, <2>11, <2>12, <2>14, <2>15, <2>16, <2>17
<1>p. EditorialKinds
    BY EditorialParts DEF EditorialInv
<1>1. EditorialTypes'
    <2>1. article' \subseteq Shots /\ files' \subseteq Shots /\ draft' \subseteq Shots
        BY EditorialAssumption, <1>p, <1>0 DEF EditorialInv, EditorialTypes, ClosePage,
           articleVars
    <2>2. formBusy' \in BOOLEAN /\ blindSaves' \in BOOLEAN /\ abandoned' \subseteq Shots
        BY EditorialAssumption, <1>p, <1>0 DEF EditorialInv, EditorialTypes, ClosePage,
           articleVars, editors
    <2>3. /\ edition' \in Nat /\ base' \in 0..edition'
          /\ edition' <= LastSave \/ (edition' = LastSave + 1 /\ save'.phase # "sent")
          /\ formsOpened' \in 0..LastForm /\ form' \in 0..formsOpened'
        BY EditorialAssumption, <1>p, <1>0 DEF EditorialInv, EditorialTypes, ClosePage,
           articleVars, editors, NotSaved
    <2>4. pendingImages' \in [Forms -> PendingSets]
        BY EditorialAssumption, <1>p, <1>0 DEF EditorialInv, EditorialTypes, ClosePage,
           articleVars, editors, PendingSets, FreshImages
    <2>5. imageUploads' \in [Shots -> ImageCalls]
        BY EditorialAssumption, <1>p, <1>0 DEF EditorialInv, EditorialTypes, ClosePage,
           articleVars, editors, ImageCalls, NoImageUpload
    <2>6. save' \in ArticleSaves
        BY EditorialAssumption, <1>p, <1>0 DEF EditorialInv, EditorialTypes, ClosePage,
           articleVars, editors, ArticleSaves, NotSaved
    <2>7. discards' \subseteq SUBSET Shots
        BY EditorialAssumption, <1>p, <1>0 DEF EditorialInv, EditorialTypes, ClosePage
    <2>8. QED
        BY <2>1, <2>2, <2>3, <2>4, <2>5, <2>6, <2>7 DEF EditorialTypes
<1>2. ImagesHaveArrived'
    <2>1. ASSUME NEW g \in Forms
          PROVE  pendingImages'[g].urls \subseteq pendingImages[g].urls
        <3>1. CASE g # form
            BY <1>0, <3>1
        <3>2. CASE g = form
            <4>1. g # 0
                BY DEF Forms
            <4>2. QED
                BY <1>0, <1>p
        <3>3. QED
            BY <3>1, <3>2
    <2>2. \A x \in Shots : imageUploads[x].phase = "told" => imageUploads'[x].phase = "told"
        BY <1>0, <1>p DEF ClosePage, EditorialKinds
    <2>3. \A d \in discards' : \A x \in d : imageUploads[x].phase = "told"
        BY <1>0, <1>p DEF EditorialInv, ImagesHaveArrived, ArrivedImages
    <2>4. \A x \in article' \cup draft' \cup save'.images \cup save'.urls : imageUploads[x].phase = "told"
        BY <1>0, <1>p DEF EditorialInv, ImagesHaveArrived, ArrivedImages, ClosePage,
           articleVars, NotSaved
    <2>5. /\ article' \subseteq Shots /\ draft' \subseteq Shots /\ save'.images \subseteq Shots
          /\ save'.urls \subseteq Shots /\ discards' \subseteq SUBSET Shots
          /\ \A g \in Forms : pendingImages'[g].urls \subseteq Shots
        BY <1>1 DEF EditorialTypes, ArticleSaves, PendingSets
    <2>6. QED
        BY <2>1, <2>2, <2>3, <2>4, <2>5 DEF EditorialInv, ImagesHaveArrived, ArrivedImages
<1>3. ImagesAreApart'
    <2>1. ASSUME NEW g \in Forms
          PROVE  pendingImages'[g].urls \subseteq pendingImages[g].urls
        <3>1. CASE g # form
            BY <1>0, <3>1
        <3>2. CASE g = form
            <4>1. g # 0
                BY DEF Forms
            <4>2. QED
                BY <1>0, <1>p
        <3>3. QED
            BY <3>1, <3>2
    <2>2. ASSUME NEW d \in discards', NEW g \in Forms
          PROVE  pendingImages'[g].urls \cap d = {}
        <3>1. CASE d \in discards
            BY <2>1, <3>1 DEF EditorialInv, ImagesAreApart
        <3>2. CASE d \notin discards
            <4>1. CASE g = form
                BY <1>0, <1>p
            <4>2. CASE g # form
                BY <1>0, <1>p, <2>1, <3>2, <4>2
            <4>3. QED
                BY <4>1, <4>2
        <3>3. QED
            BY <3>1, <3>2
    <2>3. QED
        BY <2>1, <2>2 DEF EditorialInv, ImagesAreApart
<1>4. \A x \in Shots : UploadOK(x)'
    BY EditorialAssumption, <1>p, <1>0 DEF EditorialInv, ClosePage, articleVars, editors,
       EditorialTypes, InFlight, ImageCalls, UploadOK
<1>5. \A g \in Forms : FormOK(g)'
    BY EditorialAssumption, <1>p, <1>0 DEF EditorialInv, ClosePage, articleVars, editors,
       EditorialTypes, FormOK, SaveOK, ArticleSaves
<1>6. OneCall'
    BY EditorialAssumption, <1>p, <1>0 DEF EditorialInv, ClosePage, articleVars, editors,
       EditorialTypes, OneCall, InFlight, ImageCalls, ArticleSaves, SaveOK, UploadOK
<1>7. SaveOK'
    BY EditorialAssumption, <1>p, <1>0 DEF EditorialInv, ClosePage, articleVars, editors,
       EditorialTypes, SaveOK, OneCall, InFlight, FormOK, ArticleSaves, NotSaved
<1>8. DraftOK'
    BY EditorialAssumption, <1>p, <1>0 DEF EditorialInv, ClosePage, articleVars, editors,
       EditorialTypes, DraftOK, SavedOK, SaveOK, ImagesHaveArrived, ArrivedImages,
       ImagesAreApart
<1>9. SavedOK'
    BY EditorialAssumption, <1>p, <1>0 DEF EditorialInv, ClosePage, articleVars, editors,
       EditorialTypes, SavedOK, SaveOK, DraftOK, ArticleSaves, ImagesHaveArrived,
       ArrivedImages, ImagesAreApart, NotSaved
<1>10. ArticleImagesExist'
    BY EditorialAssumption, <1>p, <1>0 DEF EditorialInv, ClosePage, articleVars, editors,
       EditorialTypes, ArticleImagesExist, SavedOK
<1>11. FilesAreAccountedFor'
    <2> SUFFICES ASSUME NEW x \in files' \ abandoned'
                 PROVE  \/ x \in article' \/ x \in save'.images \cup save'.urls
                        \/ imageUploads'[x].phase = "stored"
                        \/ \E d \in discards' : x \in d
                        \/ \E g \in Forms : x \in pendingImages'[g].urls /\ (g = form' \/ pendingImages'[g].saving)
        BY DEF FilesAreAccountedFor
    <2>1. x \in files \ abandoned /\ x \in Shots
        BY <1>0, <1>1 DEF ClosePage, articleVars, EditorialTypes
    <2>2. \/ x \in article \/ x \in save.images \cup save.urls
          \/ imageUploads[x].phase = "stored"
          \/ \E d \in discards : x \in d
          \/ \E g \in Forms : x \in pendingImages[g].urls /\ (g = form \/ pendingImages[g].saving)
        BY <2>1 DEF EditorialInv, FilesAreAccountedFor
    <2>3. CASE x \in article \/ x \in save.images \cup save.urls
        BY <1>0, <1>p, <2>1, <2>3 DEF ClosePage, articleVars, EditorialInv, SavedOK, SaveOK,
           EditorialKinds
    <2>4. CASE imageUploads[x].phase = "stored"
        BY <1>0, <1>p, <2>1, <2>4 DEF ClosePage
    <2>5. CASE \E d \in discards : x \in d
        BY <1>0, <2>5
    <2>6. ASSUME NEW g \in Forms, x \in pendingImages[g].urls, g = form \/ pendingImages[g].saving
          PROVE  \/ \E d \in discards' : x \in d
                 \/ \E h \in Forms : x \in pendingImages'[h].urls /\ (h = form' \/ pendingImages'[h].saving)
                 \/ x \in article'
        <3>1. CASE g = form
            <4>1. g # 0
                BY DEF Forms
            <4>2. QED
                BY <1>0, <1>p, <2>1, <2>6, <3>1, <4>1 DEF ClosePage, articleVars,
                   EditorialInv, FormOK
        <3>2. CASE g # form
            BY <1>0, <1>p, <2>1, <2>6, <3>2 DEF ClosePage, articleVars, EditorialInv
        <3>3. QED
            BY <3>1, <3>2
    <2>7. QED
        BY <2>2, <2>3, <2>4, <2>5, <2>6
<1>12. QED
    BY <1>1, <1>2, <1>3, <1>4, <1>5, <1>6, <1>7, <1>8, <1>9, <1>10, <1>11 DEF EditorialInv

LEMMA PickFileKeeps == ASSUME EditorialInv, NEW i \in Shots, PickFile(i) PROVE EditorialInv'
<1>p. EditorialKinds
    BY EditorialParts DEF EditorialInv
<1>1. EditorialTypes'
    <2>1. article' \subseteq Shots /\ files' \subseteq Shots /\ draft' \subseteq Shots
        BY EditorialAssumption, <1>p DEF EditorialInv, EditorialTypes, PickFile, articleVars,
           editors
    <2>2. formBusy' \in BOOLEAN /\ blindSaves' \in BOOLEAN /\ abandoned' \subseteq Shots
        BY EditorialAssumption, <1>p DEF EditorialInv, EditorialTypes, PickFile, articleVars,
           editors
    <2>3. /\ edition' \in Nat /\ base' \in 0..edition'
          /\ edition' <= LastSave \/ (edition' = LastSave + 1 /\ save'.phase # "sent")
          /\ formsOpened' \in 0..LastForm /\ form' \in 0..formsOpened'
        BY EditorialAssumption, <1>p DEF EditorialInv, EditorialTypes, PickFile, articleVars,
           editors
    <2>4. pendingImages' \in [Forms -> PendingSets]
        BY EditorialAssumption, <1>p DEF EditorialInv, EditorialTypes, PickFile, articleVars,
           editors
    <2>5. imageUploads' \in [Shots -> ImageCalls]
        BY EditorialAssumption, <1>p DEF EditorialInv, EditorialTypes, PickFile, articleVars,
           editors, ImageCalls
    <2>6. save' \in ArticleSaves
        BY EditorialAssumption, <1>p DEF EditorialInv, EditorialTypes, PickFile, articleVars,
           editors
    <2>7. discards' \subseteq SUBSET Shots
        BY EditorialAssumption, <1>p DEF EditorialInv, EditorialTypes, PickFile
    <2>8. QED
        BY <2>1, <2>2, <2>3, <2>4, <2>5, <2>6, <2>7 DEF EditorialTypes
<1>2. ImagesHaveArrived'
    <2>1. \A x \in Shots : imageUploads[x].phase = "told" => imageUploads'[x].phase = "told"
        BY DEF PickFile, NoImageUpload, EditorialInv, EditorialTypes
    <2>2. UNCHANGED <<article, draft, save, pendingImages, discards>>
        BY DEF PickFile, articleVars, editors
    <2>3. QED
        BY <1>p, <2>1, <2>2 DEF EditorialInv, EditorialTypes, ImagesHaveArrived,
           ArrivedImages, EditorialKinds
<1>3. ImagesAreApart'
    BY EditorialAssumption, <1>p DEF EditorialInv, PickFile, articleVars, editors,
       EditorialTypes, ImagesHaveArrived, ImagesAreApart
<1>4. \A x \in Shots : UploadOK(x)'
    BY EditorialAssumption, <1>p DEF EditorialInv, PickFile, articleVars, editors,
       EditorialTypes, InFlight, ImageCalls, UploadOK
<1>5. \A g \in Forms : FormOK(g)'
    BY EditorialAssumption, <1>p DEF EditorialInv, PickFile, articleVars, editors,
       EditorialTypes, FormOK, SaveOK, ArticleSaves
<1>6. OneCall'
    BY EditorialAssumption, <1>p DEF EditorialInv, PickFile, articleVars, editors,
       EditorialTypes, OneCall, InFlight, ImageCalls, ArticleSaves, SaveOK, UploadOK
<1>7. SaveOK'
    BY EditorialAssumption, <1>p DEF EditorialInv, PickFile, articleVars, editors,
       EditorialTypes, SaveOK, OneCall, InFlight, FormOK, ArticleSaves
<1>8. DraftOK'
    BY EditorialAssumption, <1>p DEF EditorialInv, PickFile, articleVars, editors,
       EditorialTypes, DraftOK, SavedOK, SaveOK, ImagesHaveArrived, ArrivedImages,
       ImagesAreApart
<1>9. SavedOK'
    BY EditorialAssumption, <1>p DEF EditorialInv, PickFile, articleVars, editors,
       EditorialTypes, SavedOK, SaveOK, DraftOK, ArticleSaves, ImagesHaveArrived,
       ArrivedImages, ImagesAreApart
<1>10. ArticleImagesExist'
    BY EditorialAssumption, <1>p DEF EditorialInv, PickFile, articleVars, editors,
       EditorialTypes, ArticleImagesExist, SavedOK
<1>11. FilesAreAccountedFor'
    BY EditorialAssumption, <1>p DEF EditorialInv, PickFile, articleVars, editors,
       EditorialTypes, FilesAreAccountedFor, SaveOK, SavedOK, DraftOK, UploadOK, FormOK
<1>12. QED
    BY <1>1, <1>2, <1>3, <1>4, <1>5, <1>6, <1>7, <1>8, <1>9, <1>10, <1>11 DEF EditorialInv

LEMMA ServerStoresKeeps == ASSUME EditorialInv, NEW i \in Shots, ServerStores(i)
  PROVE EditorialInv'
<1>p. EditorialKinds
    BY EditorialParts DEF EditorialInv
<1>1. EditorialTypes'
    <2>1. article' \subseteq Shots /\ files' \subseteq Shots /\ draft' \subseteq Shots
        BY EditorialAssumption, <1>p DEF EditorialInv, EditorialTypes, ServerStores, editors
    <2>2. formBusy' \in BOOLEAN /\ blindSaves' \in BOOLEAN /\ abandoned' \subseteq Shots
        BY EditorialAssumption, <1>p DEF EditorialInv, EditorialTypes, ServerStores,
           articleVars, editors
    <2>3. /\ edition' \in Nat /\ base' \in 0..edition'
          /\ edition' <= LastSave \/ (edition' = LastSave + 1 /\ save'.phase # "sent")
          /\ formsOpened' \in 0..LastForm /\ form' \in 0..formsOpened'
        BY EditorialAssumption, <1>p DEF EditorialInv, EditorialTypes, ServerStores,
           articleVars, editors
    <2>4. pendingImages' \in [Forms -> PendingSets]
        BY EditorialAssumption, <1>p DEF EditorialInv, EditorialTypes, ServerStores,
           articleVars, editors
    <2>5. imageUploads' \in [Shots -> ImageCalls]
        BY EditorialAssumption, <1>p DEF EditorialInv, EditorialTypes, ServerStores,
           articleVars, editors, ImageCalls
    <2>6. save' \in ArticleSaves
        BY EditorialAssumption, <1>p DEF EditorialInv, EditorialTypes, ServerStores,
           articleVars, editors
    <2>7. discards' \subseteq SUBSET Shots
        BY EditorialAssumption, <1>p DEF EditorialInv, EditorialTypes, ServerStores
    <2>8. QED
        BY <2>1, <2>2, <2>3, <2>4, <2>5, <2>6, <2>7 DEF EditorialTypes
<1>2. ImagesHaveArrived'
    BY EditorialAssumption, <1>p DEF EditorialInv, ServerStores, articleVars, editors,
       EditorialTypes, ImagesHaveArrived, ArrivedImages
<1>3. ImagesAreApart'
    BY EditorialAssumption, <1>p DEF EditorialInv, ServerStores, articleVars, editors,
       EditorialTypes, ImagesHaveArrived, ImagesAreApart
<1>4. \A x \in Shots : UploadOK(x)'
    BY EditorialAssumption, <1>p DEF EditorialInv, ServerStores, articleVars, editors,
       EditorialTypes, InFlight, ImageCalls, UploadOK
<1>5. \A g \in Forms : FormOK(g)'
    BY EditorialAssumption, <1>p DEF EditorialInv, ServerStores, articleVars, editors,
       EditorialTypes, FormOK, SaveOK, ArticleSaves
<1>6. OneCall'
    BY EditorialAssumption, <1>p DEF EditorialInv, ServerStores, articleVars, editors,
       EditorialTypes, OneCall, InFlight, ImageCalls, ArticleSaves, SaveOK, UploadOK
<1>7. SaveOK'
    BY EditorialAssumption, <1>p DEF EditorialInv, ServerStores, articleVars, editors,
       EditorialTypes, SaveOK, OneCall, InFlight, FormOK, ArticleSaves
<1>8. DraftOK'
    BY EditorialAssumption, <1>p DEF EditorialInv, ServerStores, articleVars, editors,
       EditorialTypes, DraftOK, SavedOK, SaveOK, ImagesHaveArrived, ArrivedImages,
       ImagesAreApart
<1>9. SavedOK'
    BY EditorialAssumption, <1>p DEF EditorialInv, ServerStores, articleVars, editors,
       EditorialTypes, SavedOK, SaveOK, DraftOK, ArticleSaves, ImagesHaveArrived,
       ArrivedImages, ImagesAreApart
<1>10. ArticleImagesExist'
    BY EditorialAssumption, <1>p DEF EditorialInv, ServerStores, articleVars, editors,
       EditorialTypes, ArticleImagesExist, SavedOK
<1>11. FilesAreAccountedFor'
    BY EditorialAssumption, <1>p DEF EditorialInv, ServerStores, articleVars, editors,
       EditorialTypes, FilesAreAccountedFor, SaveOK, SavedOK, DraftOK, UploadOK, FormOK
<1>12. QED
    BY <1>1, <1>2, <1>3, <1>4, <1>5, <1>6, <1>7, <1>8, <1>9, <1>10, <1>11 DEF EditorialInv

LEMMA UploadArrivesKeeps == ASSUME EditorialInv, NEW i \in Shots, UploadArrives(i)
  PROVE EditorialInv'
<1> DEFINE f == imageUploads[i].form
           p == pendingImages[f]
<1>0. /\ f \in Forms /\ p \in PendingSets
      /\ pendingImages' \in [Forms -> PendingSets]
      /\ \A g \in Forms : g # f => pendingImages'[g] = pendingImages[g]
      /\ pendingImages'[f].disposed = pendingImages[f].disposed
      /\ discards \subseteq discards' /\ discards' \subseteq SUBSET Shots
      /\ pendingImages'[f].saving = pendingImages[f].saving
      /\ pendingImages[f].disposed /\ ~ pendingImages[f].saving =>
           pendingImages'[f].urls = {} /\ \A x \in pendingImages[f].urls \cup {i} : \E d \in discards' : x \in d
      /\ ~ (pendingImages[f].disposed /\ ~ pendingImages[f].saving) =>
           pendingImages'[f].urls = pendingImages[f].urls \cup {i}
      /\ \A d \in discards' : d \in discards \/ (d = pendingImages[f].urls \cup {i} /\ pendingImages[f].disposed /\ ~ pendingImages[f].saving)
    <2>1. f \in Forms /\ p \in PendingSets
        BY EditorialAssumption DEF EditorialInv, EditorialTypes, UploadArrives, UploadOK,
           ImageCalls, Forms
    <2>2. Becomes(f, [p EXCEPT !.urls = @ \cup {i}])
        BY DEF UploadArrives
    <2>3. DEFINE q == [p EXCEPT !.urls = @ \cup {i}]
    <2>4. q \in PendingSets /\ q.urls = p.urls \cup {i} /\ q.disposed = p.disposed /\ q.saving = p.saving
        BY <2>1 DEF PendingSets
    <2>5. NowHas(f, q.urls, q.disposed, q.saving)
        BY <2>1, <2>2, <2>4, BecomesSo DEF EditorialInv
    <2>6. QED
        BY <2>1, <2>4, <2>5 DEF NowHas
<1>p. EditorialKinds
    BY EditorialParts DEF EditorialInv
<1>1. EditorialTypes'
    <2>1. article' \subseteq Shots /\ files' \subseteq Shots /\ draft' \subseteq Shots
        BY EditorialAssumption, <1>p, <1>0 DEF EditorialInv, EditorialTypes, UploadArrives,
           articleVars
    <2>2. formBusy' \in BOOLEAN /\ blindSaves' \in BOOLEAN /\ abandoned' \subseteq Shots
        BY EditorialAssumption, <1>p, <1>0 DEF EditorialInv, EditorialTypes, UploadArrives,
           articleVars, editors
    <2>3. /\ edition' \in Nat /\ base' \in 0..edition'
          /\ edition' <= LastSave \/ (edition' = LastSave + 1 /\ save'.phase # "sent")
          /\ formsOpened' \in 0..LastForm /\ form' \in 0..formsOpened'
        BY EditorialAssumption, <1>p, <1>0 DEF EditorialInv, EditorialTypes, UploadArrives,
           articleVars, editors
    <2>4. pendingImages' \in [Forms -> PendingSets]
        BY EditorialAssumption, <1>p, <1>0 DEF EditorialInv, EditorialTypes, UploadArrives,
           articleVars, editors
    <2>5. imageUploads' \in [Shots -> ImageCalls]
        BY EditorialAssumption, <1>p, <1>0 DEF EditorialInv, EditorialTypes, UploadArrives,
           articleVars, editors, ImageCalls
    <2>6. save' \in ArticleSaves
        BY EditorialAssumption, <1>p, <1>0 DEF EditorialInv, EditorialTypes, UploadArrives,
           articleVars, editors
    <2>7. discards' \subseteq SUBSET Shots
        BY EditorialAssumption, <1>p, <1>0 DEF EditorialInv, EditorialTypes, UploadArrives
    <2>8. QED
        BY <2>1, <2>2, <2>3, <2>4, <2>5, <2>6, <2>7 DEF EditorialTypes
<1>2. ImagesHaveArrived'
    BY EditorialAssumption, <1>p, <1>0 DEF EditorialInv, UploadArrives, articleVars, editors,
       EditorialTypes, ImagesHaveArrived, ArrivedImages
<1>3. ImagesAreApart'
    BY EditorialAssumption, <1>p, <1>0 DEF EditorialInv, UploadArrives, articleVars, editors,
       EditorialTypes, ImagesHaveArrived, ArrivedImages, ImagesAreApart
<1>4. \A x \in Shots : UploadOK(x)'
    BY EditorialAssumption, <1>p, <1>0 DEF EditorialInv, UploadArrives, articleVars, editors,
       EditorialTypes, InFlight, ImageCalls, UploadOK, EditorialKinds
<1>5. \A g \in Forms : FormOK(g)'
    <2>1. f = form \/ pendingImages[f].disposed
        BY DEF UploadArrives, EditorialInv, UploadOK, InFlight
    <2>2. UNCHANGED <<form, formsOpened, save>>
        BY DEF UploadArrives
    <2>3. ASSUME NEW g \in Forms, g # f PROVE FormOK(g)'
        BY <1>0, <2>2, <2>3 DEF EditorialInv, FormOK
    <2>4. ASSUME NEW g \in Forms, g = f PROVE FormOK(g)'
        BY <1>0, <1>p, <2>1, <2>2, <2>4 DEF EditorialInv, FormOK
    <2>5. QED
        BY <2>3, <2>4
<1>6. OneCall'
    BY EditorialAssumption, <1>p, <1>0 DEF EditorialInv, UploadArrives, articleVars, editors,
       EditorialTypes, OneCall, InFlight, ImageCalls, ArticleSaves, SaveOK, UploadOK
<1>7. SaveOK'
    BY EditorialAssumption, <1>p, <1>0 DEF EditorialInv, UploadArrives, articleVars, editors,
       EditorialTypes, SaveOK, OneCall, InFlight, FormOK, ArticleSaves, Forms
<1>8. DraftOK'
    <2>1. UNCHANGED <<article, edition, files, form, base>> /\ i \in files /\ f # 0
        BY DEF UploadArrives, articleVars, EditorialInv, UploadOK
    <2>2. CASE f # form
        BY <1>0, <1>p, <2>1, <2>2 DEF UploadArrives, EditorialInv, DraftOK, EditorialKinds
    <2>3. CASE f = form
        <3>1. draft' = draft \cup {i} /\ ~ pendingImages[f].disposed
            BY <1>0, <2>3 DEF UploadArrives, EditorialInv, FormOK
        <3>2. pendingImages'[form].urls = pendingImages[form].urls \cup {i}
            BY <1>0, <2>3, <3>1
        <3>3. QED
            BY <2>1, <2>3, <3>1, <3>2 DEF EditorialInv, DraftOK
    <2>4. QED
        BY <2>2, <2>3
<1>9. SavedOK'
    BY EditorialAssumption, <1>p, <1>0 DEF EditorialInv, UploadArrives, articleVars, editors,
       EditorialTypes, SavedOK, SaveOK, DraftOK, ArticleSaves, ImagesHaveArrived,
       ArrivedImages, ImagesAreApart
<1>10. ArticleImagesExist'
    BY EditorialAssumption, <1>p, <1>0 DEF EditorialInv, UploadArrives, articleVars, editors,
       EditorialTypes, ArticleImagesExist, SavedOK
<1>11. FilesAreAccountedFor'
    <2> SUFFICES ASSUME NEW x \in files' \ abandoned'
                 PROVE  \/ x \in article' \/ x \in save'.images \cup save'.urls
                        \/ imageUploads'[x].phase = "stored"
                        \/ \E d \in discards' : x \in d
                        \/ \E g \in Forms : x \in pendingImages'[g].urls /\ (g = form' \/ pendingImages'[g].saving)
        BY DEF FilesAreAccountedFor
    <2>1. x \in files \ abandoned /\ x \in Shots
        BY <1>0, <1>1 DEF UploadArrives, articleVars, EditorialTypes
    <2>2. \/ x \in article \/ x \in save.images \cup save.urls
          \/ imageUploads[x].phase = "stored"
          \/ \E d \in discards : x \in d
          \/ \E g \in Forms : x \in pendingImages[g].urls /\ (g = form \/ pendingImages[g].saving)
        BY <2>1 DEF EditorialInv, FilesAreAccountedFor
    <2>3. CASE x \in article \/ x \in save.images \cup save.urls
        BY <1>0, <1>p, <2>1, <2>3 DEF UploadArrives, articleVars, EditorialInv, SavedOK
    <2>4. CASE imageUploads[x].phase = "stored"
        <3>1. CASE x # i
            BY <2>1, <2>4, <3>1 DEF UploadArrives
        <3>2. CASE x = i
            <4>1. f = form \/ pendingImages[f].disposed
                BY DEF UploadArrives, EditorialInv, UploadOK, InFlight
            <4>2. form' = form
                BY DEF UploadArrives
            <4>3. QED
                BY <1>0, <1>p, <3>2, <4>1, <4>2
        <3>3. QED
            BY <3>1, <3>2
    <2>5. CASE \E d \in discards : x \in d
        BY <1>0, <2>5
    <2>6. ASSUME NEW g \in Forms, x \in pendingImages[g].urls, g = form \/ pendingImages[g].saving
          PROVE  \/ \E d \in discards' : x \in d
                 \/ \E h \in Forms : x \in pendingImages'[h].urls /\ (h = form' \/ pendingImages'[h].saving)
                 \/ x \in article'
        <3>1. CASE g = f
            <4>1. g # 0
                BY DEF Forms
            <4>2. QED
                BY <1>0, <1>p, <2>1, <2>6, <3>1, <4>1 DEF UploadArrives, articleVars,
                   EditorialInv, FormOK
        <3>2. CASE g # f
            BY <1>0, <1>p, <2>1, <2>6, <3>2 DEF UploadArrives, articleVars, EditorialInv
        <3>3. QED
            BY <3>1, <3>2
    <2>7. QED
        BY <2>2, <2>3, <2>4, <2>5, <2>6
<1>12. QED
    BY <1>1, <1>2, <1>3, <1>4, <1>5, <1>6, <1>7, <1>8, <1>9, <1>10, <1>11 DEF EditorialInv

LEMMA UploadFailsKeeps == ASSUME EditorialInv, NEW i \in Shots, UploadFails(i)
  PROVE EditorialInv'
<1>p. EditorialKinds
    BY EditorialParts DEF EditorialInv
<1>1. EditorialTypes'
    <2>1. article' \subseteq Shots /\ files' \subseteq Shots /\ draft' \subseteq Shots
        BY EditorialAssumption, <1>p DEF EditorialInv, EditorialTypes, UploadFails,
           articleVars, editors
    <2>2. formBusy' \in BOOLEAN /\ blindSaves' \in BOOLEAN /\ abandoned' \subseteq Shots
        BY EditorialAssumption, <1>p DEF EditorialInv, EditorialTypes, UploadFails,
           articleVars, editors
    <2>3. /\ edition' \in Nat /\ base' \in 0..edition'
          /\ edition' <= LastSave \/ (edition' = LastSave + 1 /\ save'.phase # "sent")
          /\ formsOpened' \in 0..LastForm /\ form' \in 0..formsOpened'
        BY EditorialAssumption, <1>p DEF EditorialInv, EditorialTypes, UploadFails,
           articleVars, editors
    <2>4. pendingImages' \in [Forms -> PendingSets]
        BY EditorialAssumption, <1>p DEF EditorialInv, EditorialTypes, UploadFails,
           articleVars, editors
    <2>5. imageUploads' \in [Shots -> ImageCalls]
        BY EditorialAssumption, <1>p DEF EditorialInv, EditorialTypes, UploadFails,
           articleVars, editors, ImageCalls
    <2>6. save' \in ArticleSaves
        BY EditorialAssumption, <1>p DEF EditorialInv, EditorialTypes, UploadFails,
           articleVars, editors
    <2>7. discards' \subseteq SUBSET Shots
        BY EditorialAssumption, <1>p DEF EditorialInv, EditorialTypes, UploadFails
    <2>8. QED
        BY <2>1, <2>2, <2>3, <2>4, <2>5, <2>6, <2>7 DEF EditorialTypes
<1>2. ImagesHaveArrived'
    BY EditorialAssumption, <1>p DEF EditorialInv, UploadFails, articleVars, editors,
       EditorialTypes, ImagesHaveArrived, ArrivedImages
<1>3. ImagesAreApart'
    BY EditorialAssumption, <1>p DEF EditorialInv, UploadFails, articleVars, editors,
       EditorialTypes, ImagesHaveArrived, ImagesAreApart
<1>4. \A x \in Shots : UploadOK(x)'
    BY EditorialAssumption, <1>p DEF EditorialInv, UploadFails, articleVars, editors,
       EditorialTypes, InFlight, ImageCalls, UploadOK
<1>5. \A g \in Forms : FormOK(g)'
    BY EditorialAssumption, <1>p DEF EditorialInv, UploadFails, articleVars, editors,
       EditorialTypes, FormOK, SaveOK, ArticleSaves
<1>6. OneCall'
    BY EditorialAssumption, <1>p DEF EditorialInv, UploadFails, articleVars, editors,
       EditorialTypes, OneCall, InFlight, ImageCalls, ArticleSaves, SaveOK, UploadOK
<1>7. SaveOK'
    BY EditorialAssumption, <1>p DEF EditorialInv, UploadFails, articleVars, editors,
       EditorialTypes, SaveOK, OneCall, InFlight, FormOK, ArticleSaves
<1>8. DraftOK'
    BY EditorialAssumption, <1>p DEF EditorialInv, UploadFails, articleVars, editors,
       EditorialTypes, DraftOK, SavedOK, SaveOK, ImagesHaveArrived, ArrivedImages,
       ImagesAreApart
<1>9. SavedOK'
    BY EditorialAssumption, <1>p DEF EditorialInv, UploadFails, articleVars, editors,
       EditorialTypes, SavedOK, SaveOK, DraftOK, ArticleSaves, ImagesHaveArrived,
       ArrivedImages, ImagesAreApart
<1>10. ArticleImagesExist'
    BY EditorialAssumption, <1>p DEF EditorialInv, UploadFails, articleVars, editors,
       EditorialTypes, ArticleImagesExist, SavedOK
<1>11. FilesAreAccountedFor'
    BY EditorialAssumption, <1>p DEF EditorialInv, UploadFails, articleVars, editors,
       EditorialTypes, FilesAreAccountedFor, SaveOK, SavedOK, DraftOK, UploadOK, FormOK
<1>12. QED
    BY <1>1, <1>2, <1>3, <1>4, <1>5, <1>6, <1>7, <1>8, <1>9, <1>10, <1>11 DEF EditorialInv

LEMMA RemoveFromDraftKeeps == ASSUME EditorialInv, NEW i \in Shots, RemoveFromDraft(i)
  PROVE EditorialInv'
<1>p. EditorialKinds
    BY EditorialParts DEF EditorialInv
<1>1. EditorialTypes'
    <2>1. article' \subseteq Shots /\ files' \subseteq Shots /\ draft' \subseteq Shots
        BY EditorialAssumption, <1>p DEF EditorialInv, EditorialTypes, RemoveFromDraft,
           articleVars
    <2>2. formBusy' \in BOOLEAN /\ blindSaves' \in BOOLEAN /\ abandoned' \subseteq Shots
        BY EditorialAssumption, <1>p DEF EditorialInv, EditorialTypes, RemoveFromDraft,
           articleVars, editors
    <2>3. /\ edition' \in Nat /\ base' \in 0..edition'
          /\ edition' <= LastSave \/ (edition' = LastSave + 1 /\ save'.phase # "sent")
          /\ formsOpened' \in 0..LastForm /\ form' \in 0..formsOpened'
        BY EditorialAssumption, <1>p DEF EditorialInv, EditorialTypes, RemoveFromDraft,
           articleVars, editors
    <2>4. pendingImages' \in [Forms -> PendingSets]
        BY EditorialAssumption, <1>p DEF EditorialInv, EditorialTypes, RemoveFromDraft,
           articleVars, editors
    <2>5. imageUploads' \in [Shots -> ImageCalls]
        BY EditorialAssumption, <1>p DEF EditorialInv, EditorialTypes, RemoveFromDraft,
           articleVars, editors
    <2>6. save' \in ArticleSaves
        BY EditorialAssumption, <1>p DEF EditorialInv, EditorialTypes, RemoveFromDraft,
           articleVars, editors
    <2>7. discards' \subseteq SUBSET Shots
        BY EditorialAssumption, <1>p DEF EditorialInv, EditorialTypes, RemoveFromDraft
    <2>8. QED
        BY <2>1, <2>2, <2>3, <2>4, <2>5, <2>6, <2>7 DEF EditorialTypes
<1>2. ImagesHaveArrived'
    BY EditorialAssumption, <1>p DEF EditorialInv, RemoveFromDraft, articleVars, editors,
       EditorialTypes, ImagesHaveArrived, ArrivedImages
<1>3. ImagesAreApart'
    BY EditorialAssumption, <1>p DEF EditorialInv, RemoveFromDraft, articleVars, editors,
       EditorialTypes, ImagesHaveArrived, ImagesAreApart
<1>4. \A x \in Shots : UploadOK(x)'
    BY EditorialAssumption, <1>p DEF EditorialInv, RemoveFromDraft, articleVars, editors,
       EditorialTypes, InFlight, ImageCalls, UploadOK
<1>5. \A g \in Forms : FormOK(g)'
    BY EditorialAssumption, <1>p DEF EditorialInv, RemoveFromDraft, articleVars, editors,
       EditorialTypes, FormOK, SaveOK, ArticleSaves
<1>6. OneCall'
    BY EditorialAssumption, <1>p DEF EditorialInv, RemoveFromDraft, articleVars, editors,
       EditorialTypes, OneCall, InFlight, ImageCalls, ArticleSaves, SaveOK, UploadOK
<1>7. SaveOK'
    BY EditorialAssumption, <1>p DEF EditorialInv, RemoveFromDraft, articleVars, editors,
       EditorialTypes, SaveOK, OneCall, InFlight, FormOK, ArticleSaves
<1>8. DraftOK'
    BY EditorialAssumption, <1>p DEF EditorialInv, RemoveFromDraft, articleVars, editors,
       EditorialTypes, DraftOK, SavedOK, SaveOK, ImagesHaveArrived, ArrivedImages,
       ImagesAreApart
<1>9. SavedOK'
    BY EditorialAssumption, <1>p DEF EditorialInv, RemoveFromDraft, articleVars, editors,
       EditorialTypes, SavedOK, SaveOK, DraftOK, ArticleSaves, ImagesHaveArrived,
       ArrivedImages, ImagesAreApart
<1>10. ArticleImagesExist'
    BY EditorialAssumption, <1>p DEF EditorialInv, RemoveFromDraft, articleVars, editors,
       EditorialTypes, ArticleImagesExist, SavedOK
<1>11. FilesAreAccountedFor'
    BY EditorialAssumption, <1>p DEF EditorialInv, RemoveFromDraft, articleVars, editors,
       EditorialTypes, FilesAreAccountedFor, SaveOK, SavedOK, DraftOK, UploadOK, FormOK
<1>12. QED
    BY <1>1, <1>2, <1>3, <1>4, <1>5, <1>6, <1>7, <1>8, <1>9, <1>10, <1>11 DEF EditorialInv

LEMMA OthersSaveKeeps == ASSUME EditorialInv, NEW i \in Shots, OthersSave(i)
  PROVE EditorialInv'
<1>p. EditorialKinds
    BY EditorialParts DEF EditorialInv
<1>1. EditorialTypes'
    <2>1. article' \subseteq Shots /\ files' \subseteq Shots /\ draft' \subseteq Shots
        BY EditorialAssumption, <1>p DEF EditorialInv, EditorialTypes, OthersSave, editors
    <2>2. formBusy' \in BOOLEAN /\ blindSaves' \in BOOLEAN /\ abandoned' \subseteq Shots
        BY EditorialAssumption, <1>p DEF EditorialInv, EditorialTypes, OthersSave,
           articleVars, editors
    <2>3. /\ edition' \in Nat /\ base' \in 0..edition'
          /\ edition' <= LastSave \/ (edition' = LastSave + 1 /\ save'.phase # "sent")
          /\ formsOpened' \in 0..LastForm /\ form' \in 0..formsOpened'
        BY EditorialAssumption, <1>p DEF EditorialInv, EditorialTypes, OthersSave,
           articleVars, editors
    <2>4. pendingImages' \in [Forms -> PendingSets]
        BY EditorialAssumption, <1>p DEF EditorialInv, EditorialTypes, OthersSave,
           articleVars, editors
    <2>5. imageUploads' \in [Shots -> ImageCalls]
        BY EditorialAssumption, <1>p DEF EditorialInv, EditorialTypes, OthersSave,
           articleVars, editors
    <2>6. save' \in ArticleSaves
        BY EditorialAssumption, <1>p DEF EditorialInv, EditorialTypes, OthersSave,
           articleVars, editors
    <2>7. discards' \subseteq SUBSET Shots
        BY EditorialAssumption, <1>p DEF EditorialInv, EditorialTypes, OthersSave
    <2>8. QED
        BY <2>1, <2>2, <2>3, <2>4, <2>5, <2>6, <2>7 DEF EditorialTypes
<1>2. ImagesHaveArrived'
    BY EditorialAssumption, <1>p DEF EditorialInv, OthersSave, articleVars, editors,
       EditorialTypes, ImagesHaveArrived, ArrivedImages
<1>3. ImagesAreApart'
    BY EditorialAssumption, <1>p DEF EditorialInv, OthersSave, articleVars, editors,
       EditorialTypes, ImagesHaveArrived, ImagesAreApart
<1>4. \A x \in Shots : UploadOK(x)'
    BY EditorialAssumption, <1>p DEF EditorialInv, OthersSave, articleVars, editors,
       EditorialTypes, InFlight, ImageCalls, UploadOK, ImagesHaveArrived, ArrivedImages
<1>5. \A g \in Forms : FormOK(g)'
    BY EditorialAssumption, <1>p DEF EditorialInv, OthersSave, articleVars, editors,
       EditorialTypes, FormOK, SaveOK, ArticleSaves
<1>6. OneCall'
    BY EditorialAssumption, <1>p DEF EditorialInv, OthersSave, articleVars, editors,
       EditorialTypes, OneCall, InFlight, ImageCalls, ArticleSaves, SaveOK, UploadOK
<1>7. SaveOK'
    BY EditorialAssumption, <1>p DEF EditorialInv, OthersSave, articleVars, editors,
       EditorialTypes, SaveOK, OneCall, InFlight, FormOK, ArticleSaves
<1>8. DraftOK'
    BY EditorialAssumption, <1>p DEF EditorialInv, OthersSave, articleVars, editors,
       EditorialTypes, DraftOK, SavedOK, SaveOK, ImagesHaveArrived, ArrivedImages,
       ImagesAreApart
<1>9. SavedOK'
    BY EditorialAssumption, <1>p DEF EditorialInv, OthersSave, articleVars, editors,
       EditorialTypes, SavedOK, SaveOK, DraftOK, ArticleSaves, ImagesHaveArrived,
       ArrivedImages, ImagesAreApart
<1>10. ArticleImagesExist'
    BY EditorialAssumption, <1>p DEF EditorialInv, OthersSave, articleVars, editors,
       EditorialTypes, ArticleImagesExist, SavedOK
<1>11. FilesAreAccountedFor'
    BY EditorialAssumption, <1>p DEF EditorialInv, OthersSave, articleVars, editors,
       EditorialTypes, FilesAreAccountedFor, SaveOK, SavedOK, DraftOK, UploadOK, FormOK
<1>12. QED
    BY <1>1, <1>2, <1>3, <1>4, <1>5, <1>6, <1>7, <1>8, <1>9, <1>10, <1>11 DEF EditorialInv

LEMMA SubmitArticleKeeps == ASSUME EditorialInv, SubmitArticle PROVE EditorialInv'
<1>p. EditorialKinds
    BY EditorialParts DEF EditorialInv
<1>1. EditorialTypes'
    <2>1. article' \subseteq Shots /\ files' \subseteq Shots /\ draft' \subseteq Shots
        BY EditorialAssumption, <1>p DEF EditorialInv, EditorialTypes, SubmitArticle,
           articleVars, editors
    <2>2. formBusy' \in BOOLEAN /\ blindSaves' \in BOOLEAN /\ abandoned' \subseteq Shots
        BY EditorialAssumption, <1>p DEF EditorialInv, EditorialTypes, SubmitArticle,
           articleVars, editors
    <2>3. /\ edition' \in Nat /\ base' \in 0..edition'
          /\ edition' <= LastSave \/ (edition' = LastSave + 1 /\ save'.phase # "sent")
          /\ formsOpened' \in 0..LastForm /\ form' \in 0..formsOpened'
        BY EditorialAssumption, <1>p DEF EditorialInv, EditorialTypes, SubmitArticle,
           articleVars, editors
    <2>4. pendingImages' \in [Forms -> PendingSets]
        <3>1. form \in Forms /\ pendingImages \in [Forms -> PendingSets]
            BY <1>p DEF SubmitArticle, EditorialInv, EditorialTypes, EditorialKinds
        <3>2. [pendingImages[form] EXCEPT !.saving = TRUE] \in PendingSets
            BY <3>1 DEF PendingSets
        <3>3. QED
            BY <3>1, <3>2 DEF SubmitArticle
    <2>5. imageUploads' \in [Shots -> ImageCalls]
        BY EditorialAssumption, <1>p DEF EditorialInv, EditorialTypes, SubmitArticle,
           articleVars, editors
    <2>6. save' \in ArticleSaves
        BY EditorialAssumption, <1>p DEF EditorialInv, EditorialTypes, SubmitArticle,
           articleVars, editors, ArticleSaves, EditorialKinds
    <2>7. discards' \subseteq SUBSET Shots
        BY EditorialAssumption, <1>p DEF EditorialInv, EditorialTypes, SubmitArticle
    <2>8. QED
        BY <2>1, <2>2, <2>3, <2>4, <2>5, <2>6, <2>7 DEF EditorialTypes
<1>2. ImagesHaveArrived'
    BY EditorialAssumption, <1>p DEF EditorialInv, SubmitArticle, articleVars, editors,
       EditorialTypes, ImagesHaveArrived, ArrivedImages, EditorialKinds
<1>3. ImagesAreApart'
    BY EditorialAssumption, <1>p DEF EditorialInv, SubmitArticle, articleVars, editors,
       EditorialTypes, ImagesHaveArrived, ImagesAreApart
<1>4. \A x \in Shots : UploadOK(x)'
    BY EditorialAssumption, <1>p DEF EditorialInv, SubmitArticle, articleVars, editors,
       EditorialTypes, InFlight, ImageCalls, UploadOK
<1>5. \A g \in Forms : FormOK(g)'
    BY EditorialAssumption, <1>p DEF EditorialInv, SubmitArticle, articleVars, editors,
       EditorialTypes, FormOK, SaveOK, ArticleSaves, NotSaved
<1>6. OneCall'
    BY EditorialAssumption, <1>p DEF EditorialInv, SubmitArticle, articleVars, editors,
       EditorialTypes, OneCall, InFlight, ImageCalls, ArticleSaves, SaveOK, UploadOK
<1>7. SaveOK'
    BY EditorialAssumption, <1>p DEF EditorialInv, SubmitArticle, articleVars, editors,
       EditorialTypes, SaveOK, OneCall, InFlight, FormOK, ArticleSaves, Forms
<1>8. DraftOK'
    BY EditorialAssumption, <1>p DEF EditorialInv, SubmitArticle, articleVars, editors,
       EditorialTypes, DraftOK, SavedOK, SaveOK, ImagesHaveArrived, ArrivedImages,
       ImagesAreApart
<1>9. SavedOK'
    BY EditorialAssumption, <1>p DEF EditorialInv, SubmitArticle, articleVars, editors,
       EditorialTypes, SavedOK, SaveOK, DraftOK, ArticleSaves, ImagesHaveArrived,
       ArrivedImages, ImagesAreApart
<1>10. ArticleImagesExist'
    BY EditorialAssumption, <1>p DEF EditorialInv, SubmitArticle, articleVars, editors,
       EditorialTypes, ArticleImagesExist, SavedOK
<1>11. FilesAreAccountedFor'
    BY EditorialAssumption, <1>p DEF EditorialInv, SubmitArticle, articleVars, editors,
       EditorialTypes, FilesAreAccountedFor, SaveOK, SavedOK, DraftOK, UploadOK, FormOK,
       NotSaved
<1>12. QED
    BY <1>1, <1>2, <1>3, <1>4, <1>5, <1>6, <1>7, <1>8, <1>9, <1>10, <1>11 DEF EditorialInv

LEMMA RemoveArticleKeeps == ASSUME EditorialInv, RemoveArticle PROVE EditorialInv'
<1>p. EditorialKinds
    BY EditorialParts DEF EditorialInv
<1>1. EditorialTypes'
    <2>1. article' \subseteq Shots /\ files' \subseteq Shots /\ draft' \subseteq Shots
        BY EditorialAssumption, <1>p DEF EditorialInv, EditorialTypes, RemoveArticle,
           articleVars, editors
    <2>2. formBusy' \in BOOLEAN /\ blindSaves' \in BOOLEAN /\ abandoned' \subseteq Shots
        BY EditorialAssumption, <1>p DEF EditorialInv, EditorialTypes, RemoveArticle,
           articleVars, editors
    <2>3. /\ edition' \in Nat /\ base' \in 0..edition'
          /\ edition' <= LastSave \/ (edition' = LastSave + 1 /\ save'.phase # "sent")
          /\ formsOpened' \in 0..LastForm /\ form' \in 0..formsOpened'
        BY EditorialAssumption, <1>p DEF EditorialInv, EditorialTypes, RemoveArticle,
           articleVars, editors
    <2>4. pendingImages' \in [Forms -> PendingSets]
        BY EditorialAssumption, <1>p DEF EditorialInv, EditorialTypes, RemoveArticle,
           articleVars, editors
    <2>5. imageUploads' \in [Shots -> ImageCalls]
        BY EditorialAssumption, <1>p DEF EditorialInv, EditorialTypes, RemoveArticle,
           articleVars, editors
    <2>6. save' \in ArticleSaves
        BY EditorialAssumption, <1>p DEF EditorialInv, EditorialTypes, RemoveArticle,
           articleVars, editors, ArticleSaves
    <2>7. discards' \subseteq SUBSET Shots
        BY EditorialAssumption, <1>p DEF EditorialInv, EditorialTypes, RemoveArticle
    <2>8. QED
        BY <2>1, <2>2, <2>3, <2>4, <2>5, <2>6, <2>7 DEF EditorialTypes
<1>2. ImagesHaveArrived'
    BY EditorialAssumption, <1>p DEF EditorialInv, RemoveArticle, articleVars, editors,
       EditorialTypes, ImagesHaveArrived, ArrivedImages
<1>3. ImagesAreApart'
    BY EditorialAssumption, <1>p DEF EditorialInv, RemoveArticle, articleVars, editors,
       EditorialTypes, ImagesHaveArrived, ImagesAreApart
<1>4. \A x \in Shots : UploadOK(x)'
    BY EditorialAssumption, <1>p DEF EditorialInv, RemoveArticle, articleVars, editors,
       EditorialTypes, InFlight, ImageCalls, UploadOK
<1>5. \A g \in Forms : FormOK(g)'
    BY EditorialAssumption, <1>p DEF EditorialInv, RemoveArticle, articleVars, editors,
       EditorialTypes, FormOK, SaveOK, ArticleSaves, NotSaved
<1>6. OneCall'
    BY EditorialAssumption, <1>p DEF EditorialInv, RemoveArticle, articleVars, editors,
       EditorialTypes, OneCall, InFlight, ImageCalls, ArticleSaves, SaveOK, UploadOK
<1>7. SaveOK'
    BY EditorialAssumption, <1>p DEF EditorialInv, RemoveArticle, articleVars, editors,
       EditorialTypes, SaveOK, OneCall, InFlight, FormOK, ArticleSaves
<1>8. DraftOK'
    BY EditorialAssumption, <1>p DEF EditorialInv, RemoveArticle, articleVars, editors,
       EditorialTypes, DraftOK, SavedOK, SaveOK, ImagesHaveArrived, ArrivedImages,
       ImagesAreApart
<1>9. SavedOK'
    BY EditorialAssumption, <1>p DEF EditorialInv, RemoveArticle, articleVars, editors,
       EditorialTypes, SavedOK, SaveOK, DraftOK, ArticleSaves, ImagesHaveArrived,
       ArrivedImages, ImagesAreApart
<1>10. ArticleImagesExist'
    BY EditorialAssumption, <1>p DEF EditorialInv, RemoveArticle, articleVars, editors,
       EditorialTypes, ArticleImagesExist, SavedOK
<1>11. FilesAreAccountedFor'
    BY EditorialAssumption, <1>p DEF EditorialInv, RemoveArticle, articleVars, editors,
       EditorialTypes, FilesAreAccountedFor, SaveOK, SavedOK, DraftOK, UploadOK, FormOK,
       NotSaved
<1>12. QED
    BY <1>1, <1>2, <1>3, <1>4, <1>5, <1>6, <1>7, <1>8, <1>9, <1>10, <1>11 DEF EditorialInv

LEMMA ServerSavesArticleKeeps == ASSUME EditorialInv, ServerSavesArticle PROVE EditorialInv'
<1>p. EditorialKinds
    BY EditorialParts DEF EditorialInv
<1>1. EditorialTypes'
    <2>1. article' \subseteq Shots /\ files' \subseteq Shots /\ draft' \subseteq Shots
        BY EditorialAssumption, <1>p DEF EditorialInv, EditorialTypes, ServerSavesArticle,
           editors, EditorialKinds
    <2>2. formBusy' \in BOOLEAN /\ blindSaves' \in BOOLEAN /\ abandoned' \subseteq Shots
        BY EditorialAssumption, <1>p DEF EditorialInv, EditorialTypes, ServerSavesArticle,
           articleVars, editors
    <2>3. /\ edition' \in Nat /\ base' \in 0..edition'
          /\ edition' <= LastSave \/ (edition' = LastSave + 1 /\ save'.phase # "sent")
          /\ formsOpened' \in 0..LastForm /\ form' \in 0..formsOpened'
        BY EditorialAssumption, <1>p DEF EditorialInv, EditorialTypes, ServerSavesArticle,
           articleVars, editors, NotSaved
    <2>4. pendingImages' \in [Forms -> PendingSets]
        BY EditorialAssumption, <1>p DEF EditorialInv, EditorialTypes, ServerSavesArticle,
           articleVars, editors
    <2>5. imageUploads' \in [Shots -> ImageCalls]
        BY EditorialAssumption, <1>p DEF EditorialInv, EditorialTypes, ServerSavesArticle,
           articleVars, editors
    <2>6. save' \in ArticleSaves
        <3>1. CASE save.form = 0
            BY <3>1, EditorialAssumption DEF ServerSavesArticle, ArticleSaves, NotSaved
        <3>2. CASE save.form # 0
            <4>1. save' = [save EXCEPT !.phase = "stored", !.over = edition + 1]
                BY <3>2 DEF ServerSavesArticle
            <4>2. save \in ArticleSaves /\ edition + 1 \in Nat
                BY DEF EditorialInv, EditorialTypes
            <4>3. QED
                BY <4>1, <4>2 DEF ArticleSaves
        <3>3. QED
            BY <3>1, <3>2
    <2>7. discards' \subseteq SUBSET Shots
        BY EditorialAssumption, <1>p DEF EditorialInv, EditorialTypes, ServerSavesArticle
    <2>8. QED
        BY <2>1, <2>2, <2>3, <2>4, <2>5, <2>6, <2>7 DEF EditorialTypes
<1>2. ImagesHaveArrived'
    BY EditorialAssumption, <1>p DEF EditorialInv, ServerSavesArticle, articleVars, editors,
       EditorialTypes, ImagesHaveArrived, ArrivedImages, NotSaved
<1>3. ImagesAreApart'
    BY EditorialAssumption, <1>p DEF EditorialInv, ServerSavesArticle, articleVars, editors,
       EditorialTypes, ImagesHaveArrived, ImagesAreApart
<1>4. \A x \in Shots : UploadOK(x)'
    BY EditorialAssumption, <1>p DEF EditorialInv, ServerSavesArticle, articleVars, editors,
       EditorialTypes, InFlight, ImageCalls, UploadOK, ImagesHaveArrived, ArrivedImages
<1>5. \A g \in Forms : FormOK(g)'
    BY EditorialAssumption, <1>p DEF EditorialInv, ServerSavesArticle, articleVars, editors,
       EditorialTypes, FormOK, SaveOK, ArticleSaves, Forms
<1>6. OneCall'
    BY EditorialAssumption, <1>p DEF EditorialInv, ServerSavesArticle, articleVars, editors,
       EditorialTypes, OneCall, InFlight, ImageCalls, ArticleSaves, SaveOK, UploadOK, NotSaved
<1>7. SaveOK'
    BY EditorialAssumption, <1>p DEF EditorialInv, ServerSavesArticle, articleVars, editors,
       EditorialTypes, SaveOK, OneCall, InFlight, FormOK, ArticleSaves, NotSaved
<1>8. DraftOK'
    BY EditorialAssumption, <1>p DEF EditorialInv, ServerSavesArticle, articleVars, editors,
       EditorialTypes, DraftOK, SavedOK, SaveOK, ImagesHaveArrived, ArrivedImages,
       ImagesAreApart
<1>9. SavedOK'
    BY EditorialAssumption, <1>p DEF EditorialInv, ServerSavesArticle, articleVars, editors,
       EditorialTypes, SavedOK, SaveOK, DraftOK, ArticleSaves, ImagesHaveArrived,
       ArrivedImages, ImagesAreApart, NotSaved
<1>10. ArticleImagesExist'
    BY EditorialAssumption, <1>p DEF EditorialInv, ServerSavesArticle, articleVars, editors,
       EditorialTypes, ArticleImagesExist, SavedOK, SaveOK
<1>11. FilesAreAccountedFor'
    BY EditorialAssumption, <1>p DEF EditorialInv, ServerSavesArticle, articleVars, editors,
       EditorialTypes, FilesAreAccountedFor, SaveOK, SavedOK, DraftOK, UploadOK, FormOK
<1>12. QED
    BY <1>1, <1>2, <1>3, <1>4, <1>5, <1>6, <1>7, <1>8, <1>9, <1>10, <1>11 DEF EditorialInv

LEMMA ArticleSavedKeeps == ASSUME EditorialInv, ArticleSaved PROVE EditorialInv'
<1> DEFINE f == save.form
           p == pendingImages[f]
<1>0. /\ f \in Forms /\ p \in PendingSets
      /\ pendingImages' \in [Forms -> PendingSets]
      /\ \A g \in Forms : g # f => pendingImages'[g] = pendingImages[g]
      /\ pendingImages'[f].disposed = pendingImages[f].disposed
      /\ discards \subseteq discards' /\ discards' \subseteq SUBSET Shots
      /\ pendingImages'[f].saving = FALSE /\ pendingImages'[f].urls = {}
      /\ \A d \in discards' : d \in discards \/ d = {}
    <2>1. f \in Forms /\ p \in PendingSets
        BY EditorialAssumption DEF EditorialInv, EditorialTypes, ArticleSaved, SaveOK,
           ArticleSaves, Forms
    <2>2. DEFINE q == [p EXCEPT !.urls = {}, !.saving = FALSE]
    <2>3. q \in PendingSets /\ q.urls = {} /\ q.disposed = p.disposed /\ q.saving = FALSE
        BY <2>1 DEF PendingSets
    <2>4. Becomes(f, q)
        BY DEF ArticleSaved
    <2>5. NowHas(f, q.urls, q.disposed, q.saving)
        BY <2>1, <2>3, <2>4, BecomesSo DEF EditorialInv
    <2>6. QED
        BY <2>1, <2>3, <2>5 DEF NowHas
<1>p. EditorialKinds
    BY EditorialParts DEF EditorialInv
<1>1. EditorialTypes'
    <2>1. article' \subseteq Shots /\ files' \subseteq Shots /\ draft' \subseteq Shots
        BY EditorialAssumption, <1>p, <1>0 DEF EditorialInv, EditorialTypes, ArticleSaved,
           articleVars
    <2>2. formBusy' \in BOOLEAN /\ blindSaves' \in BOOLEAN /\ abandoned' \subseteq Shots
        BY EditorialAssumption, <1>p, <1>0 DEF EditorialInv, EditorialTypes, ArticleSaved,
           articleVars, editors
    <2>3. /\ edition' \in Nat /\ base' \in 0..edition'
          /\ edition' <= LastSave \/ (edition' = LastSave + 1 /\ save'.phase # "sent")
          /\ formsOpened' \in 0..LastForm /\ form' \in 0..formsOpened'
        BY EditorialAssumption, <1>p, <1>0 DEF EditorialInv, EditorialTypes, ArticleSaved,
           articleVars, editors, SaveOK, NotSaved, EditorialKinds
    <2>4. pendingImages' \in [Forms -> PendingSets]
        BY EditorialAssumption, <1>p, <1>0 DEF EditorialInv, EditorialTypes, ArticleSaved,
           articleVars, editors
    <2>5. imageUploads' \in [Shots -> ImageCalls]
        BY EditorialAssumption, <1>p, <1>0 DEF EditorialInv, EditorialTypes, ArticleSaved,
           articleVars, editors
    <2>6. save' \in ArticleSaves
        BY EditorialAssumption, <1>p, <1>0 DEF EditorialInv, EditorialTypes, ArticleSaved,
           articleVars, editors, ArticleSaves, NotSaved
    <2>7. discards' \subseteq SUBSET Shots
        BY EditorialAssumption, <1>p, <1>0 DEF EditorialInv, EditorialTypes, ArticleSaved
    <2>8. QED
        BY <2>1, <2>2, <2>3, <2>4, <2>5, <2>6, <2>7 DEF EditorialTypes
<1>2. ImagesHaveArrived'
    BY EditorialAssumption, <1>p, <1>0 DEF EditorialInv, ArticleSaved, articleVars, editors,
       EditorialTypes, ImagesHaveArrived, ArrivedImages, NotSaved
<1>3. ImagesAreApart'
    BY EditorialAssumption, <1>p, <1>0 DEF EditorialInv, ArticleSaved, articleVars, editors,
       EditorialTypes, ImagesHaveArrived, ImagesAreApart
<1>4. \A x \in Shots : UploadOK(x)'
    BY EditorialAssumption, <1>p, <1>0 DEF EditorialInv, ArticleSaved, articleVars, editors,
       EditorialTypes, InFlight, ImageCalls, UploadOK, EditorialKinds
<1>5. \A g \in Forms : FormOK(g)'
    BY EditorialAssumption, <1>p, <1>0 DEF EditorialInv, ArticleSaved, articleVars, editors,
       EditorialTypes, FormOK, SaveOK, ArticleSaves
<1>6. OneCall'
    BY EditorialAssumption, <1>p, <1>0 DEF EditorialInv, ArticleSaved, articleVars, editors,
       EditorialTypes, OneCall, InFlight, ImageCalls, ArticleSaves, SaveOK, UploadOK, NotSaved
<1>7. SaveOK'
    BY EditorialAssumption, <1>p, <1>0 DEF EditorialInv, ArticleSaved, articleVars, editors,
       EditorialTypes, SaveOK, OneCall, InFlight, FormOK, ArticleSaves, NotSaved
<1>8. DraftOK'
    BY EditorialAssumption, <1>p, <1>0 DEF EditorialInv, ArticleSaved, articleVars, editors,
       EditorialTypes, DraftOK, SavedOK, SaveOK, ImagesHaveArrived, ArrivedImages,
       ImagesAreApart, Forms
<1>9. SavedOK'
    BY EditorialAssumption, <1>p, <1>0 DEF EditorialInv, ArticleSaved, articleVars, editors,
       EditorialTypes, SavedOK, SaveOK, DraftOK, ArticleSaves, ImagesHaveArrived,
       ArrivedImages, ImagesAreApart, NotSaved
<1>10. ArticleImagesExist'
    BY EditorialAssumption, <1>p, <1>0 DEF EditorialInv, ArticleSaved, articleVars, editors,
       EditorialTypes, ArticleImagesExist, SavedOK
<1>11. FilesAreAccountedFor'
    <2> SUFFICES ASSUME NEW x \in files' \ abandoned'
                 PROVE  \/ x \in article' \/ x \in save'.images \cup save'.urls
                        \/ imageUploads'[x].phase = "stored"
                        \/ \E d \in discards' : x \in d
                        \/ \E g \in Forms : x \in pendingImages'[g].urls /\ (g = form' \/ pendingImages'[g].saving)
        BY DEF FilesAreAccountedFor
    <2>1. x \in files \ abandoned /\ x \in Shots
        BY <1>0, <1>1 DEF ArticleSaved, articleVars, EditorialTypes
    <2>2. \/ x \in article \/ x \in save.images \cup save.urls
          \/ imageUploads[x].phase = "stored"
          \/ \E d \in discards : x \in d
          \/ \E g \in Forms : x \in pendingImages[g].urls /\ (g = form \/ pendingImages[g].saving)
        BY <2>1 DEF EditorialInv, FilesAreAccountedFor
    <2>3. CASE x \in article \/ x \in save.images \cup save.urls
        BY <1>0, <1>p, <2>1, <2>3 DEF ArticleSaved, articleVars, EditorialInv, SavedOK
    <2>4. CASE imageUploads[x].phase = "stored"
        BY <1>0, <1>p, <2>1, <2>4 DEF ArticleSaved
    <2>5. CASE \E d \in discards : x \in d
        BY <1>0, <2>5
    <2>6. ASSUME NEW g \in Forms, x \in pendingImages[g].urls, g = form \/ pendingImages[g].saving
          PROVE  \/ \E d \in discards' : x \in d
                 \/ \E h \in Forms : x \in pendingImages'[h].urls /\ (h = form' \/ pendingImages'[h].saving)
                 \/ x \in article'
        <3>1. CASE g = f
            <4>1. g # 0
                BY DEF Forms
            <4>2. QED
                BY <1>0, <1>p, <2>1, <2>6, <3>1, <4>1 DEF ArticleSaved, articleVars,
                   EditorialInv, FormOK, SaveOK, SavedOK
        <3>2. CASE g # f
            BY <1>0, <1>p, <2>1, <2>6, <3>2 DEF ArticleSaved, articleVars, EditorialInv
        <3>3. QED
            BY <3>1, <3>2
    <2>7. QED
        BY <2>2, <2>3, <2>4, <2>5, <2>6
<1>12. QED
    BY <1>1, <1>2, <1>3, <1>4, <1>5, <1>6, <1>7, <1>8, <1>9, <1>10, <1>11 DEF EditorialInv

LEMMA RemovalArrivesKeeps == ASSUME EditorialInv, RemovalArrives PROVE EditorialInv'
<1>0. \/ /\ save.form = form /\ form' = 0 /\ draft' = {} /\ formBusy' = FALSE
         /\ FormLeaves
      \/ /\ save.form # form
         /\ UNCHANGED <<pendingImages, discards, form, draft, formBusy>>
    BY ClosesSo DEF EditorialInv, RemovalArrives
<1>p. EditorialKinds
    BY EditorialParts DEF EditorialInv
<1>1. EditorialTypes'
    <2>1. article' \subseteq Shots /\ files' \subseteq Shots /\ draft' \subseteq Shots
        BY EditorialAssumption, <1>p, <1>0 DEF EditorialInv, EditorialTypes, RemovalArrives,
           articleVars
    <2>2. formBusy' \in BOOLEAN /\ blindSaves' \in BOOLEAN /\ abandoned' \subseteq Shots
        BY EditorialAssumption, <1>p, <1>0 DEF EditorialInv, EditorialTypes, RemovalArrives,
           articleVars, editors, Cleaned
    <2>3. /\ edition' \in Nat /\ base' \in 0..edition'
          /\ edition' <= LastSave \/ (edition' = LastSave + 1 /\ save'.phase # "sent")
          /\ formsOpened' \in 0..LastForm /\ form' \in 0..formsOpened'
        BY EditorialAssumption, <1>p, <1>0 DEF EditorialInv, EditorialTypes, RemovalArrives,
           articleVars, editors, SaveOK, NotSaved
    <2>4. pendingImages' \in [Forms -> PendingSets]
        BY EditorialAssumption, <1>p, <1>0 DEF EditorialInv, EditorialTypes, RemovalArrives,
           articleVars, editors, PendingSets, FormLeaves
    <2>5. imageUploads' \in [Shots -> ImageCalls]
        BY EditorialAssumption, <1>p, <1>0 DEF EditorialInv, EditorialTypes, RemovalArrives,
           articleVars, editors, ImageCalls
    <2>6. save' \in ArticleSaves
        BY EditorialAssumption, <1>p, <1>0 DEF EditorialInv, EditorialTypes, RemovalArrives,
           articleVars, editors, ArticleSaves, NotSaved
    <2>7. discards' \subseteq SUBSET Shots
        BY EditorialAssumption, <1>p, <1>0 DEF EditorialInv, EditorialTypes, RemovalArrives,
           articleVars, FormLeaves
    <2>8. QED
        BY <2>1, <2>2, <2>3, <2>4, <2>5, <2>6, <2>7 DEF EditorialTypes
<1>2. ImagesHaveArrived'
    <2>1. ASSUME NEW g \in Forms
          PROVE  pendingImages'[g].urls \subseteq pendingImages[g].urls
        <3>1. CASE g # form
            BY <1>0, <3>1 DEF FormLeaves
        <3>2. CASE g = form
            <4>1. g # 0
                BY DEF Forms
            <4>2. QED
                BY <1>0, <1>p, <3>2, <4>1 DEF FormLeaves
        <3>3. QED
            BY <3>1, <3>2
    <2>2. \A x \in Shots : imageUploads[x].phase = "told" => imageUploads'[x].phase = "told"
        BY <1>0, <1>p DEF RemovalArrives
    <2>3. \A d \in discards' : \A x \in d : imageUploads[x].phase = "told"
        BY <1>0, <1>p DEF EditorialInv, ImagesHaveArrived, ArrivedImages, FormLeaves
    <2>4. \A x \in article' \cup draft' \cup save'.images \cup save'.urls : imageUploads[x].phase = "told"
        BY <1>0, <1>p DEF EditorialInv, ImagesHaveArrived, ArrivedImages, RemovalArrives,
           articleVars, NotSaved
    <2>5. /\ article' \subseteq Shots /\ draft' \subseteq Shots /\ save'.images \subseteq Shots
          /\ save'.urls \subseteq Shots /\ discards' \subseteq SUBSET Shots
          /\ \A g \in Forms : pendingImages'[g].urls \subseteq Shots
        BY <1>1 DEF EditorialTypes, ArticleSaves, PendingSets
    <2>6. QED
        BY <2>1, <2>2, <2>3, <2>4, <2>5 DEF EditorialInv, ImagesHaveArrived, ArrivedImages
<1>3. ImagesAreApart'
    <2>1. ASSUME NEW g \in Forms
          PROVE  pendingImages'[g].urls \subseteq pendingImages[g].urls
        <3>1. CASE g # form
            BY <1>0, <3>1 DEF FormLeaves
        <3>2. CASE g = form
            <4>1. g # 0
                BY DEF Forms
            <4>2. QED
                BY <1>0, <1>p, <3>2, <4>1 DEF FormLeaves
        <3>3. QED
            BY <3>1, <3>2
    <2>2. ASSUME NEW d \in discards', NEW g \in Forms
          PROVE  pendingImages'[g].urls \cap d = {}
        <3>1. CASE d \in discards
            BY <2>1, <3>1 DEF EditorialInv, ImagesAreApart
        <3>2. CASE d \notin discards
            <4>1. CASE g = form
                BY <1>0, <1>p, <3>2, <4>1 DEF FormLeaves
            <4>2. CASE g # form
                BY <1>0, <1>p, <2>1, <3>2, <4>2 DEF EditorialInv, ImagesAreApart, FormLeaves
            <4>3. QED
                BY <4>1, <4>2
        <3>3. QED
            BY <3>1, <3>2
    <2>3. QED
        BY <2>1, <2>2 DEF EditorialInv, ImagesAreApart
<1>4. \A x \in Shots : UploadOK(x)'
    BY EditorialAssumption, <1>p, <1>0 DEF EditorialInv, RemovalArrives, articleVars, editors,
       EditorialTypes, InFlight, ImageCalls, UploadOK, ImagesHaveArrived, EditorialKinds,
       FormLeaves
<1>5. \A g \in Forms : FormOK(g)'
    BY EditorialAssumption, <1>p, <1>0 DEF EditorialInv, RemovalArrives, articleVars, editors,
       EditorialTypes, FormOK, SaveOK, ArticleSaves, Forms, FormLeaves
<1>6. OneCall'
    BY EditorialAssumption, <1>p, <1>0 DEF EditorialInv, RemovalArrives, articleVars, editors,
       EditorialTypes, OneCall, InFlight, ImageCalls, ArticleSaves, SaveOK, UploadOK,
       NoImageUpload, NotSaved
<1>7. SaveOK'
    BY EditorialAssumption, <1>p, <1>0 DEF EditorialInv, RemovalArrives, articleVars, editors,
       EditorialTypes, SaveOK, OneCall, InFlight, FormOK, ArticleSaves, Forms, NotSaved
<1>8. DraftOK'
    BY EditorialAssumption, <1>p, <1>0 DEF EditorialInv, RemovalArrives, articleVars, editors,
       EditorialTypes, DraftOK, SavedOK, SaveOK, ImagesHaveArrived, ArrivedImages,
       ImagesAreApart, Forms
<1>9. SavedOK'
    BY EditorialAssumption, <1>p, <1>0 DEF EditorialInv, RemovalArrives, articleVars, editors,
       EditorialTypes, SavedOK, SaveOK, DraftOK, ArticleSaves, ImagesHaveArrived,
       ArrivedImages, ImagesAreApart, Forms, NotSaved
<1>10. ArticleImagesExist'
    BY EditorialAssumption, <1>p, <1>0 DEF EditorialInv, RemovalArrives, articleVars, editors,
       EditorialTypes, ArticleImagesExist, SavedOK, SaveOK
<1>11. FilesAreAccountedFor'
    <2> SUFFICES ASSUME NEW x \in files' \ abandoned'
                 PROVE  \/ x \in article' \/ x \in save'.images \cup save'.urls
                        \/ imageUploads'[x].phase = "stored"
                        \/ \E d \in discards' : x \in d
                        \/ \E g \in Forms : x \in pendingImages'[g].urls /\ (g = form' \/ pendingImages'[g].saving)
        BY DEF FilesAreAccountedFor
    <2>1. x \in files \ abandoned /\ x \in Shots
        BY <1>0, <1>1 DEF RemovalArrives, articleVars, EditorialTypes
    <2>2. \/ x \in article \/ x \in save.images \cup save.urls
          \/ imageUploads[x].phase = "stored"
          \/ \E d \in discards : x \in d
          \/ \E g \in Forms : x \in pendingImages[g].urls /\ (g = form \/ pendingImages[g].saving)
        BY <2>1 DEF EditorialInv, FilesAreAccountedFor
    <2>3. CASE x \in article \/ x \in save.images \cup save.urls
        BY <1>0, <1>p, <2>1, <2>3 DEF RemovalArrives, articleVars, EditorialInv, SavedOK,
           SaveOK
    <2>4. CASE imageUploads[x].phase = "stored"
        BY <1>0, <1>p, <2>1, <2>4 DEF RemovalArrives, articleVars
    <2>5. CASE \E d \in discards : x \in d
        BY <1>0, <2>5 DEF FormLeaves
    <2>6. ASSUME NEW g \in Forms, x \in pendingImages[g].urls, g = form \/ pendingImages[g].saving
          PROVE  \/ \E d \in discards' : x \in d
                 \/ \E h \in Forms : x \in pendingImages'[h].urls /\ (h = form' \/ pendingImages'[h].saving)
                 \/ x \in article'
        <3>1. CASE g = form
            <4>1. g # 0
                BY DEF Forms
            <4>2. QED
                BY <1>0, <1>p, <2>1, <2>6, <3>1, <4>1 DEF RemovalArrives, articleVars,
                   EditorialInv, FormOK, SaveOK, FormLeaves
        <3>2. CASE g # form
            BY <1>0, <1>p, <2>1, <2>6, <3>2 DEF RemovalArrives, articleVars, EditorialInv,
               FormOK
        <3>3. QED
            BY <3>1, <3>2
    <2>7. QED
        BY <2>2, <2>3, <2>4, <2>5, <2>6
<1>12. QED
    BY <1>1, <1>2, <1>3, <1>4, <1>5, <1>6, <1>7, <1>8, <1>9, <1>10, <1>11 DEF EditorialInv

LEMMA ArticleSaveFailsKeeps == ASSUME EditorialInv, ArticleSaveFails PROVE EditorialInv'
<1> DEFINE f == save.form
           p == pendingImages[f]
<1>0. /\ f \in Forms /\ p \in PendingSets
      /\ pendingImages' \in [Forms -> PendingSets]
      /\ \A g \in Forms : g # f => pendingImages'[g] = pendingImages[g]
      /\ pendingImages'[f].disposed = pendingImages[f].disposed
      /\ discards \subseteq discards' /\ discards' \subseteq SUBSET Shots
      /\ pendingImages'[f].saving = FALSE
      /\ pendingImages[f].disposed =>
           pendingImages'[f].urls = {} /\ \A x \in pendingImages[f].urls : \E d \in discards' : x \in d
      /\ ~ pendingImages[f].disposed => pendingImages'[f].urls = pendingImages[f].urls
      /\ \A d \in discards' : d \in discards \/ (d = pendingImages[f].urls /\ pendingImages[f].disposed)
      /\ \/ /\ save'.phase = "none" /\ save'.images = {} /\ save'.urls = {} /\ save' = NotSaved
            /\ save'.over = 0 /\ save'.deletes = FALSE
         \/ /\ save.phase = "sent" /\ save'.phase = "sent" /\ save'.images = save.images
            /\ save'.urls = save.urls /\ save'.over = save.over /\ save'.deletes = save.deletes
      /\ save'.form = 0 /\ save.form # 0 /\ save.phase \in {"sent", "stored"}
    <2>0. /\ \/ /\ save'.phase = "none" /\ save'.images = {} /\ save'.urls = {} /\ save' = NotSaved
                /\ save'.over = 0 /\ save'.deletes = FALSE
             \/ /\ save.phase = "sent" /\ save'.phase = "sent" /\ save'.images = save.images
                /\ save'.urls = save.urls /\ save'.over = save.over /\ save'.deletes = save.deletes
          /\ save'.form = 0 /\ save.form # 0 /\ save.phase \in {"sent", "stored"}
        BY DEF ArticleSaveFails, NotSaved, EditorialInv, EditorialTypes, ArticleSaves
    <2>1. f \in Forms /\ p \in PendingSets
        BY EditorialAssumption DEF EditorialInv, EditorialTypes, ArticleSaveFails,
           ArticleSaves, Forms
    <2>2. DEFINE q == [p EXCEPT !.saving = FALSE]
    <2>3. q \in PendingSets /\ q.urls = p.urls /\ q.disposed = p.disposed /\ q.saving = FALSE
        BY <2>1 DEF PendingSets
    <2>4. Becomes(f, q)
        BY DEF ArticleSaveFails
    <2>5. NowHas(f, q.urls, q.disposed, q.saving)
        BY <2>1, <2>3, <2>4, BecomesSo DEF EditorialInv
    <2>6. QED
        BY <2>0, <2>1, <2>5 DEF NowHas
<1>p. EditorialKinds
    BY EditorialParts DEF EditorialInv
<1>1. EditorialTypes'
    <2>1. article' \subseteq Shots /\ files' \subseteq Shots /\ draft' \subseteq Shots
        BY EditorialAssumption, <1>p, <1>0 DEF EditorialInv, EditorialTypes, ArticleSaveFails,
           articleVars, editors
    <2>2. formBusy' \in BOOLEAN /\ blindSaves' \in BOOLEAN /\ abandoned' \subseteq Shots
        BY EditorialAssumption, <1>p, <1>0 DEF EditorialInv, EditorialTypes, ArticleSaveFails,
           articleVars, editors
    <2>3. /\ edition' \in Nat /\ base' \in 0..edition'
          /\ edition' <= LastSave \/ (edition' = LastSave + 1 /\ save'.phase # "sent")
          /\ formsOpened' \in 0..LastForm /\ form' \in 0..formsOpened'
        BY EditorialAssumption, <1>p, <1>0 DEF EditorialInv, EditorialTypes, ArticleSaveFails,
           articleVars, editors
    <2>4. pendingImages' \in [Forms -> PendingSets]
        BY EditorialAssumption, <1>p, <1>0 DEF EditorialInv, EditorialTypes, ArticleSaveFails,
           articleVars, editors
    <2>5. imageUploads' \in [Shots -> ImageCalls]
        BY EditorialAssumption, <1>p, <1>0 DEF EditorialInv, EditorialTypes, ArticleSaveFails,
           articleVars, editors
    <2>6. save' \in ArticleSaves
        <3>1. CASE save' = NotSaved
            BY <3>1, EditorialAssumption DEF ArticleSaves, NotSaved
        <3>2. CASE save' = [save EXCEPT !.form = 0]
            BY <3>2, EditorialAssumption DEF ArticleSaves, EditorialInv, EditorialTypes
        <3>3. QED
            BY <3>1, <3>2 DEF ArticleSaveFails
    <2>7. discards' \subseteq SUBSET Shots
        BY EditorialAssumption, <1>p, <1>0 DEF EditorialInv, EditorialTypes, ArticleSaveFails
    <2>8. QED
        BY <2>1, <2>2, <2>3, <2>4, <2>5, <2>6, <2>7 DEF EditorialTypes
<1>2. ImagesHaveArrived'
    <2>1. ASSUME NEW g \in Forms
          PROVE  pendingImages'[g].urls \subseteq pendingImages[g].urls
        <3>1. CASE g # f
            BY <1>0, <3>1
        <3>2. CASE g = f
            <4>1. g # 0
                BY DEF Forms
            <4>2. QED
                BY <1>0, <1>p
        <3>3. QED
            BY <3>1, <3>2
    <2>2. \A x \in Shots : imageUploads[x].phase = "told" => imageUploads'[x].phase = "told"
        BY <1>0, <1>p DEF ArticleSaveFails, EditorialKinds
    <2>3. \A d \in discards' : \A x \in d : imageUploads[x].phase = "told"
        BY <1>0, <1>p DEF EditorialInv, ImagesHaveArrived, ArrivedImages
    <2>0. UNCHANGED <<article, draft>>
        BY DEF ArticleSaveFails, articleVars, editors
    <2>4. \A x \in article' \cup draft' \cup save'.images \cup save'.urls : imageUploads[x].phase = "told"
        BY <1>0, <2>0 DEF EditorialInv, ImagesHaveArrived, ArrivedImages
    <2>5. /\ article' \subseteq Shots /\ draft' \subseteq Shots /\ save'.images \subseteq Shots
          /\ save'.urls \subseteq Shots /\ discards' \subseteq SUBSET Shots
          /\ \A g \in Forms : pendingImages'[g].urls \subseteq Shots
        BY <1>1 DEF EditorialTypes, ArticleSaves, PendingSets
    <2>6. QED
        BY <2>1, <2>2, <2>3, <2>4, <2>5 DEF EditorialInv, ImagesHaveArrived, ArrivedImages
<1>3. ImagesAreApart'
    <2>1. ASSUME NEW g \in Forms
          PROVE  pendingImages'[g].urls \subseteq pendingImages[g].urls
        <3>1. CASE g # f
            BY <1>0, <3>1
        <3>2. CASE g = f
            <4>1. g # 0
                BY DEF Forms
            <4>2. QED
                BY <1>0, <1>p
        <3>3. QED
            BY <3>1, <3>2
    <2>2. ASSUME NEW d \in discards', NEW g \in Forms
          PROVE  pendingImages'[g].urls \cap d = {}
        <3>1. CASE d \in discards
            BY <2>1, <3>1 DEF EditorialInv, ImagesAreApart
        <3>2. CASE d \notin discards
            <4>1. CASE g = f
                BY <1>0, <1>p, <3>2, <4>1
            <4>2. CASE g # f
                BY <1>0, <1>p, <2>1, <3>2, <4>2 DEF EditorialInv, ImagesAreApart
            <4>3. QED
                BY <4>1, <4>2
        <3>3. QED
            BY <3>1, <3>2
    <2>3. QED
        BY <2>1, <2>2 DEF EditorialInv, ImagesAreApart
<1>4. \A x \in Shots : UploadOK(x)'
    BY EditorialAssumption, <1>p, <1>0 DEF EditorialInv, ArticleSaveFails, articleVars,
       editors, EditorialTypes, InFlight, ImageCalls, UploadOK, EditorialKinds
<1>5. \A g \in Forms : FormOK(g)'
    BY EditorialAssumption, <1>p, <1>0 DEF EditorialInv, ArticleSaveFails, articleVars,
       editors, EditorialTypes, FormOK, SaveOK, ArticleSaves
<1>6. OneCall'
    BY EditorialAssumption, <1>p, <1>0 DEF EditorialInv, ArticleSaveFails, articleVars,
       editors, EditorialTypes, OneCall, InFlight, ImageCalls, ArticleSaves, SaveOK, UploadOK
<1>7. SaveOK'
    BY EditorialAssumption, <1>p, <1>0 DEF EditorialInv, ArticleSaveFails, articleVars,
       editors, EditorialTypes, SaveOK, OneCall, InFlight, FormOK, ArticleSaves
<1>8. DraftOK'
    BY EditorialAssumption, <1>p, <1>0 DEF EditorialInv, ArticleSaveFails, articleVars,
       editors, EditorialTypes, DraftOK, SavedOK, SaveOK, ImagesHaveArrived, ArrivedImages,
       ImagesAreApart, Forms, FormOK
<1>9. SavedOK'
    BY EditorialAssumption, <1>p, <1>0 DEF EditorialInv, ArticleSaveFails, articleVars,
       editors, EditorialTypes, SavedOK, SaveOK, DraftOK, ArticleSaves, ImagesHaveArrived,
       ArrivedImages, ImagesAreApart
<1>10. ArticleImagesExist'
    BY EditorialAssumption, <1>p, <1>0 DEF EditorialInv, ArticleSaveFails, articleVars,
       editors, EditorialTypes, ArticleImagesExist, SavedOK
<1>11. FilesAreAccountedFor'
    <2> SUFFICES ASSUME NEW x \in files' \ abandoned'
                 PROVE  \/ x \in article' \/ x \in save'.images \cup save'.urls
                        \/ imageUploads'[x].phase = "stored"
                        \/ \E d \in discards' : x \in d
                        \/ \E g \in Forms : x \in pendingImages'[g].urls /\ (g = form' \/ pendingImages'[g].saving)
        BY DEF FilesAreAccountedFor
    <2>1. x \in files \ abandoned /\ x \in Shots
        BY <1>0, <1>1 DEF ArticleSaveFails, articleVars, EditorialTypes
    <2>2. \/ x \in article \/ x \in save.images \cup save.urls
          \/ imageUploads[x].phase = "stored"
          \/ \E d \in discards : x \in d
          \/ \E g \in Forms : x \in pendingImages[g].urls /\ (g = form \/ pendingImages[g].saving)
        BY <2>1 DEF EditorialInv, FilesAreAccountedFor
    <2>0. UNCHANGED <<article, files, form, draft>>
        BY DEF ArticleSaveFails, articleVars, editors
    <2>3. CASE x \in article \/ x \in save.images \cup save.urls
        <3>1. CASE x \in article
            BY <2>0, <3>1
        <3>2. CASE save.phase = "stored"
            BY <2>0, <2>1, <2>3, <3>2 DEF EditorialInv, SavedOK
        <3>3. CASE save.phase = "sent" /\ x \notin article
            <4>1. x \in save.urls /\ ~ save.deletes
                BY <2>1, <2>3, <3>3 DEF EditorialInv, SavedOK, SaveOK
            <4>2. x \in pendingImages[f].urls /\ pendingImages[f].saving
                BY <1>0, <3>3, <4>1 DEF EditorialInv, SaveOK
            <4>3. pendingImages[f].disposed \/ f = form
                BY <1>0, <4>2 DEF EditorialInv, FormOK
            <4>4. QED
                BY <1>0, <2>0, <4>2, <4>3
        <3>4. QED
            BY <1>0, <2>3, <3>1, <3>2, <3>3
    <2>4. CASE imageUploads[x].phase = "stored"
        BY <1>0, <1>p, <2>1, <2>4 DEF ArticleSaveFails
    <2>5. CASE \E d \in discards : x \in d
        BY <1>0, <2>5
    <2>6. ASSUME NEW g \in Forms, x \in pendingImages[g].urls, g = form \/ pendingImages[g].saving
          PROVE  \/ \E d \in discards' : x \in d
                 \/ \E h \in Forms : x \in pendingImages'[h].urls /\ (h = form' \/ pendingImages'[h].saving)
                 \/ x \in article'
        <3>1. CASE g = f
            <4>1. pendingImages[f].disposed \/ f = form
                BY <1>0, <2>6, <3>1 DEF EditorialInv, FormOK
            <4>2. QED
                BY <1>0, <2>0, <2>6, <4>1
        <3>2. CASE g # f
            BY <1>0, <2>0, <2>6, <3>2
        <3>3. QED
            BY <3>1, <3>2
    <2>7. QED
        BY <2>2, <2>3, <2>4, <2>5, <2>6
<1>12. QED
    BY <1>1, <1>2, <1>3, <1>4, <1>5, <1>6, <1>7, <1>8, <1>9, <1>10, <1>11 DEF EditorialInv

LEMMA ServerDiscardsKeeps == ASSUME EditorialInv, NEW d \in discards, ServerDiscards(d)
  PROVE EditorialInv'
<1>p. EditorialKinds
    BY EditorialParts DEF EditorialInv
<1>1. EditorialTypes'
    <2>1. article' \subseteq Shots /\ files' \subseteq Shots /\ draft' \subseteq Shots
        BY EditorialAssumption, <1>p DEF EditorialInv, EditorialTypes, ServerDiscards, editors
    <2>2. formBusy' \in BOOLEAN /\ blindSaves' \in BOOLEAN /\ abandoned' \subseteq Shots
        BY EditorialAssumption, <1>p DEF EditorialInv, EditorialTypes, ServerDiscards,
           articleVars, editors
    <2>3. /\ edition' \in Nat /\ base' \in 0..edition'
          /\ edition' <= LastSave \/ (edition' = LastSave + 1 /\ save'.phase # "sent")
          /\ formsOpened' \in 0..LastForm /\ form' \in 0..formsOpened'
        BY EditorialAssumption, <1>p DEF EditorialInv, EditorialTypes, ServerDiscards,
           articleVars, editors
    <2>4. pendingImages' \in [Forms -> PendingSets]
        BY EditorialAssumption, <1>p DEF EditorialInv, EditorialTypes, ServerDiscards,
           articleVars, editors
    <2>5. imageUploads' \in [Shots -> ImageCalls]
        BY EditorialAssumption, <1>p DEF EditorialInv, EditorialTypes, ServerDiscards,
           articleVars, editors
    <2>6. save' \in ArticleSaves
        BY EditorialAssumption, <1>p DEF EditorialInv, EditorialTypes, ServerDiscards,
           articleVars, editors
    <2>7. discards' \subseteq SUBSET Shots
        BY EditorialAssumption, <1>p DEF EditorialInv, EditorialTypes, ServerDiscards
    <2>8. QED
        BY <2>1, <2>2, <2>3, <2>4, <2>5, <2>6, <2>7 DEF EditorialTypes
<1>2. ImagesHaveArrived'
    BY EditorialAssumption, <1>p DEF EditorialInv, ServerDiscards, articleVars, editors,
       EditorialTypes, ImagesHaveArrived, ArrivedImages
<1>3. ImagesAreApart'
    BY EditorialAssumption, <1>p DEF EditorialInv, ServerDiscards, articleVars, editors,
       EditorialTypes, ImagesHaveArrived, ImagesAreApart
<1>4. \A x \in Shots : UploadOK(x)'
    BY EditorialAssumption, <1>p DEF EditorialInv, ServerDiscards, articleVars, editors,
       EditorialTypes, InFlight, ImageCalls, UploadOK, ImagesHaveArrived, ArrivedImages
<1>5. \A g \in Forms : FormOK(g)'
    BY EditorialAssumption, <1>p DEF EditorialInv, ServerDiscards, articleVars, editors,
       EditorialTypes, FormOK, SaveOK, ArticleSaves
<1>6. OneCall'
    BY EditorialAssumption, <1>p DEF EditorialInv, ServerDiscards, articleVars, editors,
       EditorialTypes, OneCall, InFlight, ImageCalls, ArticleSaves, SaveOK, UploadOK
<1>7. SaveOK'
    BY EditorialAssumption, <1>p DEF EditorialInv, ServerDiscards, articleVars, editors,
       EditorialTypes, SaveOK, OneCall, InFlight, FormOK, ArticleSaves
<1>8. DraftOK'
    BY EditorialAssumption, <1>p DEF EditorialInv, ServerDiscards, articleVars, editors,
       EditorialTypes, DraftOK, SavedOK, SaveOK, ImagesHaveArrived, ArrivedImages,
       ImagesAreApart, Forms
<1>9. SavedOK'
    BY EditorialAssumption, <1>p DEF EditorialInv, ServerDiscards, articleVars, editors,
       EditorialTypes, SavedOK, SaveOK, DraftOK, ArticleSaves, ImagesHaveArrived,
       ArrivedImages, ImagesAreApart, Forms
<1>10. ArticleImagesExist'
    BY EditorialAssumption, <1>p DEF EditorialInv, ServerDiscards, articleVars, editors,
       EditorialTypes, ArticleImagesExist, SavedOK
<1>11. FilesAreAccountedFor'
    BY EditorialAssumption, <1>p DEF EditorialInv, ServerDiscards, articleVars, editors,
       EditorialTypes, FilesAreAccountedFor, SaveOK, SavedOK, DraftOK, UploadOK, FormOK
<1>12. QED
    BY <1>1, <1>2, <1>3, <1>4, <1>5, <1>6, <1>7, <1>8, <1>9, <1>10, <1>11 DEF EditorialInv

LEMMA DiscardIsLostKeeps == ASSUME EditorialInv, NEW d \in discards, DiscardIsLost(d)
  PROVE EditorialInv'
<1>p. EditorialKinds
    BY EditorialParts DEF EditorialInv
<1>1. EditorialTypes'
    <2>1. article' \subseteq Shots /\ files' \subseteq Shots /\ draft' \subseteq Shots
        BY EditorialAssumption, <1>p DEF EditorialInv, EditorialTypes, DiscardIsLost,
           articleVars, editors
    <2>2. formBusy' \in BOOLEAN /\ blindSaves' \in BOOLEAN /\ abandoned' \subseteq Shots
        BY EditorialAssumption, <1>p DEF EditorialInv, EditorialTypes, DiscardIsLost,
           articleVars, editors
    <2>3. /\ edition' \in Nat /\ base' \in 0..edition'
          /\ edition' <= LastSave \/ (edition' = LastSave + 1 /\ save'.phase # "sent")
          /\ formsOpened' \in 0..LastForm /\ form' \in 0..formsOpened'
        BY EditorialAssumption, <1>p DEF EditorialInv, EditorialTypes, DiscardIsLost,
           articleVars, editors
    <2>4. pendingImages' \in [Forms -> PendingSets]
        BY EditorialAssumption, <1>p DEF EditorialInv, EditorialTypes, DiscardIsLost,
           articleVars, editors
    <2>5. imageUploads' \in [Shots -> ImageCalls]
        BY EditorialAssumption, <1>p DEF EditorialInv, EditorialTypes, DiscardIsLost,
           articleVars, editors
    <2>6. save' \in ArticleSaves
        BY EditorialAssumption, <1>p DEF EditorialInv, EditorialTypes, DiscardIsLost,
           articleVars, editors
    <2>7. discards' \subseteq SUBSET Shots
        BY EditorialAssumption, <1>p DEF EditorialInv, EditorialTypes, DiscardIsLost
    <2>8. QED
        BY <2>1, <2>2, <2>3, <2>4, <2>5, <2>6, <2>7 DEF EditorialTypes
<1>2. ImagesHaveArrived'
    BY EditorialAssumption, <1>p DEF EditorialInv, DiscardIsLost, articleVars, editors,
       EditorialTypes, ImagesHaveArrived, ArrivedImages
<1>3. ImagesAreApart'
    BY EditorialAssumption, <1>p DEF EditorialInv, DiscardIsLost, articleVars, editors,
       EditorialTypes, ImagesHaveArrived, ImagesAreApart
<1>4. \A x \in Shots : UploadOK(x)'
    BY EditorialAssumption, <1>p DEF EditorialInv, DiscardIsLost, articleVars, editors,
       EditorialTypes, InFlight, ImageCalls, UploadOK
<1>5. \A g \in Forms : FormOK(g)'
    BY EditorialAssumption, <1>p DEF EditorialInv, DiscardIsLost, articleVars, editors,
       EditorialTypes, FormOK, SaveOK, ArticleSaves
<1>6. OneCall'
    BY EditorialAssumption, <1>p DEF EditorialInv, DiscardIsLost, articleVars, editors,
       EditorialTypes, OneCall, InFlight, ImageCalls, ArticleSaves, SaveOK, UploadOK
<1>7. SaveOK'
    BY EditorialAssumption, <1>p DEF EditorialInv, DiscardIsLost, articleVars, editors,
       EditorialTypes, SaveOK, OneCall, InFlight, FormOK, ArticleSaves
<1>8. DraftOK'
    BY EditorialAssumption, <1>p DEF EditorialInv, DiscardIsLost, articleVars, editors,
       EditorialTypes, DraftOK, SavedOK, SaveOK, ImagesHaveArrived, ArrivedImages,
       ImagesAreApart
<1>9. SavedOK'
    BY EditorialAssumption, <1>p DEF EditorialInv, DiscardIsLost, articleVars, editors,
       EditorialTypes, SavedOK, SaveOK, DraftOK, ArticleSaves, ImagesHaveArrived,
       ArrivedImages, ImagesAreApart
<1>10. ArticleImagesExist'
    BY EditorialAssumption, <1>p DEF EditorialInv, DiscardIsLost, articleVars, editors,
       EditorialTypes, ArticleImagesExist, SavedOK
<1>11. FilesAreAccountedFor'
    BY EditorialAssumption, <1>p DEF EditorialInv, DiscardIsLost, articleVars, editors,
       EditorialTypes, FilesAreAccountedFor, SaveOK, SavedOK, DraftOK, UploadOK, FormOK
<1>12. QED
    BY <1>1, <1>2, <1>3, <1>4, <1>5, <1>6, <1>7, <1>8, <1>9, <1>10, <1>11 DEF EditorialInv

LEMMA EditorialStarts == EditorialInit => EditorialInv
<1> SUFFICES ASSUME EditorialInit PROVE EditorialInv
    OBVIOUS
<1>1. EditorialTypes
    <2>1. 0 \in 0..LastForm /\ FreshImages \in PendingSets /\ NoImageUpload \in ImageCalls
        BY EditorialAssumption DEF PendingSets, FreshImages, ImageCalls, NoImageUpload
    <2>2. NotSaved \in ArticleSaves
        BY <2>1 DEF ArticleSaves, NotSaved
    <2>3. pendingImages \in [Forms -> PendingSets] /\ imageUploads \in [Shots -> ImageCalls]
        BY <2>1 DEF EditorialInit
    <2>4. /\ article = {} /\ files = {} /\ draft = {} /\ discards = {} /\ abandoned = {}
          /\ edition = 0 /\ base = 0 /\ form = 0 /\ formsOpened = 0
          /\ formBusy = FALSE /\ blindSaves = FALSE /\ save = NotSaved
        BY DEF EditorialInit
    <2>5. /\ edition \in Nat /\ base \in 0..edition /\ edition <= LastSave
          /\ formsOpened \in 0..LastForm /\ form \in 0..formsOpened
        BY <2>4, EditorialAssumption
    <2>6. QED
        BY <2>2, <2>3, <2>4, <2>5 DEF EditorialTypes
<1>2. \A i \in Shots : imageUploads[i].phase = "none" /\ imageUploads[i].form = 0
    BY DEF EditorialInit, NoImageUpload
<1>3. \A f \in Forms : /\ pendingImages[f].urls = {} /\ ~ pendingImages[f].disposed
                       /\ ~ pendingImages[f].saving
    BY DEF EditorialInit, FreshImages
<1>4. ImagesHaveArrived /\ ImagesAreApart
    BY <1>3 DEF EditorialInit, ImagesHaveArrived, ArrivedImages, ImagesAreApart, NotSaved
<1>5. (\A i \in Shots : UploadOK(i)) /\ (\A f \in Forms : FormOK(f))
    BY <1>2, <1>3, EditorialAssumption DEF EditorialInit, UploadOK, FormOK
<1>6. OneCall /\ SaveOK
    BY <1>2 DEF EditorialInit, OneCall, SaveOK, NotSaved
<1>7. DraftOK /\ SavedOK
    BY DEF EditorialInit, DraftOK, SavedOK, NotSaved
<1>8. ArticleImagesExist /\ FilesAreAccountedFor
    BY DEF EditorialInit, ArticleImagesExist, FilesAreAccountedFor
<1>9. QED
    BY <1>1, <1>4, <1>5, <1>6, <1>7, <1>8 DEF EditorialInv

LEMMA EditorialSteps == EditorialInv /\ [EditorialNext]_editorialVars => EditorialInv'
<1> SUFFICES ASSUME EditorialInv, [EditorialNext]_editorialVars PROVE EditorialInv'
    OBVIOUS
<1>1. ASSUME NEW i \in Shots,
             PickFile(i) \/ ServerStores(i) \/ UploadArrives(i) \/ UploadFails(i)
             \/ RemoveFromDraft(i) \/ OthersSave(i)
      PROVE  EditorialInv'
    BY <1>1, PickFileKeeps, ServerStoresKeeps, UploadArrivesKeeps, UploadFailsKeeps,
       RemoveFromDraftKeeps, OthersSaveKeeps
<1>2. ASSUME NEW d \in discards, ServerDiscards(d) \/ DiscardIsLost(d)
      PROVE  EditorialInv'
    BY <1>2, ServerDiscardsKeeps, DiscardIsLostKeeps
<1>3. CASE SelectArticle \/ Leave \/ ClosePage
    BY <1>3, SelectArticleKeeps, LeaveKeeps, ClosePageKeeps
<1>4. CASE SubmitArticle \/ RemoveArticle \/ ServerSavesArticle
    BY <1>4, SubmitArticleKeeps, RemoveArticleKeeps, ServerSavesArticleKeeps
<1>5. CASE ArticleSaved \/ RemovalArrives \/ ArticleSaveFails
    BY <1>5, ArticleSavedKeeps, RemovalArrivesKeeps, ArticleSaveFailsKeeps
<1>6. CASE UNCHANGED editorialVars
    <2>1. UNCHANGED <<article, edition, files, form, formsOpened, draft, base, formBusy>>
          /\ UNCHANGED <<pendingImages, imageUploads, save, discards, abandoned, blindSaves>>
        BY <1>6 DEF editorialVars
    <2>2. EditorialTypes' /\ ImagesHaveArrived' /\ ImagesAreApart'
        BY <2>1 DEF EditorialInv, EditorialTypes, ImagesHaveArrived, ArrivedImages,
           ImagesAreApart
    <2>3. (\A i \in Shots : UploadOK(i)') /\ (\A f \in Forms : FormOK(f)')
        BY <2>1 DEF EditorialInv, UploadOK, InFlight, FormOK
    <2>4. OneCall' /\ SaveOK' /\ DraftOK' /\ SavedOK'
        BY <2>1 DEF EditorialInv, OneCall, InFlight, SaveOK, DraftOK, SavedOK
    <2>5. ArticleImagesExist' /\ FilesAreAccountedFor'
        BY <2>1 DEF EditorialInv, ArticleImagesExist, FilesAreAccountedFor
    <2>6. QED
        BY <2>2, <2>3, <2>4, <2>5 DEF EditorialInv
<1>7. QED
    BY <1>1, <1>2, <1>3, <1>4, <1>5, <1>6 DEF EditorialNext

\* Every variable of the article page keeps its type, for any number of images,
\* forms and saves.
THEOREM EditorialTypesAreKept == EditorialSpec => []EditorialTypeOK
<1>1. EditorialInv => EditorialTypeOK
    BY EditorialAssumption DEF EditorialInv, EditorialTypes, EditorialTypeOK, PendingSets
<1>2. QED
    BY <1>1, EditorialStarts, EditorialSteps, PTL DEF EditorialSpec

\* Cleaning up uploaded images never overtakes the save that names them
\* (pending-images.ts): the images of the stored article exist, however late the
\* answers of uploads, saves and discards are.
THEOREM ImagesOfArticlesExist == EditorialSpec => []ArticleImagesExist
<1>1. EditorialInv => ArticleImagesExist
    BY DEF EditorialInv
<1>2. QED
    BY <1>1, EditorialStarts, EditorialSteps, PTL DEF EditorialSpec

\* Every file is named by the article or a save, or somebody will ask to remove
\* it, unless a call about it or its page was lost (pending-images.ts).
THEOREM NoFileIsForgotten == EditorialSpec => []FilesAreAccountedFor
<1>1. EditorialInv => FilesAreAccountedFor
    BY DEF EditorialInv
<1>2. QED
    BY <1>1, EditorialStarts, EditorialSteps, PTL DEF EditorialSpec

-----------------------------------------------------------------------------
(***************************************************************************)
(* WeeklyTeams: in a quintet, stored or in the form, nobody is twice, and  *)
(* whoever is shown has played there.                                      *)
(***************************************************************************)

Fives == [WeekRoles -> PickKeys]
Quintets == [number : Nat, published : BOOLEAN, players : Fives]
TeamLists == {NotLoaded, AskedFor} \cup [phase : {"answered", "loaded"}, teams : [WeekRounds -> Quintets]]
RowLists == {NotLoaded, AskedFor} \cup [phase : {"answered", "loaded"}, rows : SUBSET WeekRows]
QuintetSaves ==
  {NotSavingFive} \cup [phase : {"sent", "left", "saved", "refused"}, round : WeekRounds,
                        five : Fives, published : BOOLEAN, number : Nat]

WeeklyTypes ==
  /\ statRows \subseteq WeekRows /\ rowChanges \in 0..LastChange
  /\ weekly \in [WeekRounds -> Quintets] /\ quintets \in Nat
  /\ weekRound \in WeekRounds \cup {0} /\ weekVisits \in 0..LastWeekVisit
  /\ content \in TeamLists /\ candidates \in RowLists
  /\ savedTeams \in [WeekRounds -> Quintets]
  /\ five \in Fives /\ showAtHome \in BOOLEAN /\ dirty \in BOOLEAN
  /\ weekSave \in QuintetSaves

\* Nobody is in a quintet twice, whatever account he played with.
MembersApart(f) ==
  \A p, q \in WeekRoles :
    f[p] # NoChoice /\ f[q] # NoChoice /\ MemberOf[f[p].player] = MemberOf[f[q].player] => p = q
TeamsApart(teams) == \A r \in WeekRounds : MembersApart(teams[r].players)

\* What is loaded comes in order, and for a round of the division.
LoadsInOrder ==
  /\ content # NotLoaded => weekRound \in WeekRounds
  /\ candidates # NotLoaded => content.phase = "loaded"

StoredApart ==
  /\ TeamsApart(weekly) /\ TeamsApart(savedTeams)
  /\ content.phase \in {"answered", "loaded"} => TeamsApart(content.teams)

\* Nor in the form: of the players that are candidates, nobody is chosen twice.
FormApart ==
  IsEditing => \A p, q \in WeekRoles :
    five[p] \in CandidatesOf(candidates.rows) /\ five[q] \in CandidatesOf(candidates.rows)
    /\ MemberOf[five[p].player] = MemberOf[five[q].player] => p = q

\* While the page waits for its save nothing is loaded.
SaveIsOfTheForm ==
  /\ weekSave # NotSavingFive => MembersApart(weekSave.five)
  /\ Saving => /\ IsEditing /\ weekSave.round = weekRound
               /\ \A p \in WeekRoles : weekSave.five[p] \in PlayedAt(p, candidates.rows)

\* Until the statistics change, whoever is shown has played there.
PublishedHavePlayed ==
  rowChanges = 0 =>
    /\ statRows = WeekRows
    /\ \A r \in WeekRounds : weekly[r].published =>
         \A p \in WeekRoles : weekly[r].players[p] \in PlayedAt(p, RoundRows(r))

WeeklyInv ==
  /\ WeeklyTypes /\ LoadsInOrder /\ StoredApart /\ FormApart /\ SaveIsOfTheForm
  /\ PublishedHavePlayed /\ UnsavedChangesAreKnown
\* What the types say of the parts of the records.
WeeklyKinds ==
  /\ content.phase \in {"answered", "loaded"} => content.teams \in [WeekRounds -> Quintets]
  /\ content.phase \notin {"answered", "loaded"} => content \in {NotLoaded, AskedFor}
  /\ candidates.phase \in {"answered", "loaded"} => candidates.rows \subseteq WeekRows
  /\ candidates.phase \notin {"answered", "loaded"} => candidates \in {NotLoaded, AskedFor}
  /\ weekSave # NotSavingFive =>
       /\ weekSave.phase \in {"sent", "left", "saved", "refused"}
       /\ weekSave.round \in WeekRounds /\ weekSave.five \in Fives
       /\ weekSave.published \in BOOLEAN /\ weekSave.number \in Nat
  /\ weekSave = NotSavingFive => ~ Saving

LEMMA WeeklyParts == WeeklyTypes => WeeklyKinds
<1> SUFFICES ASSUME WeeklyTypes PROVE WeeklyKinds
    OBVIOUS
<1>1. /\ content.phase \in {"answered", "loaded"} => content.teams \in [WeekRounds -> Quintets]
      /\ content.phase \notin {"answered", "loaded"} => content \in {NotLoaded, AskedFor}
    BY DEF WeeklyTypes, TeamLists, NotLoaded, AskedFor
<1>2. /\ candidates.phase \in {"answered", "loaded"} => candidates.rows \subseteq WeekRows
      /\ candidates.phase \notin {"answered", "loaded"} => candidates \in {NotLoaded, AskedFor}
    BY DEF WeeklyTypes, RowLists, NotLoaded, AskedFor
<1>3. /\ weekSave # NotSavingFive =>
           /\ weekSave.phase \in {"sent", "left", "saved", "refused"}
           /\ weekSave.round \in WeekRounds /\ weekSave.five \in Fives
           /\ weekSave.published \in BOOLEAN /\ weekSave.number \in Nat
      /\ weekSave = NotSavingFive => ~ Saving
    BY DEF WeeklyTypes, QuintetSaves, NotSavingFive, Saving
<1>4. QED
    BY <1>1, <1>2, <1>3 DEF WeeklyKinds

\* The empty quintet, and the candidates of any rows.
LEMMA EmptyIsApart ==
  /\ NoChoice \in PickKeys /\ EmptyFive \in Fives /\ NoQuintet \in Quintets
  /\ NoQuintet.players = EmptyFive /\ NoQuintet.published = FALSE
  /\ MembersApart(EmptyFive)
BY DEF NoChoice, PickKeys, EmptyFive, Fives, NoQuintet, Quintets, MembersApart

LEMMA CandidatesAreKeys ==
  ASSUME NEW rows, rows \subseteq WeekRows
  PROVE  CandidatesOf(rows) \subseteq PickKeys /\ NoChoice \notin CandidatesOf(rows)
<1>1. \A r \in WeekRows : r.player # 0
    BY WeeklyAssumption
<1>2. \A k \in CandidatesOf(rows) : \E r \in WeekRows : k = [player |-> r.player, team |-> r.team]
    BY DEF CandidatesOf
<1>3. CandidatesOf(rows) \subseteq PickKeys
    BY <1>2 DEF PickKeys
<1>4. \A k \in CandidatesOf(rows) : k.player # 0
    BY <1>1, <1>2
<1>5. QED
    BY <1>3, <1>4 DEF NoChoice

\* Of a form with candidates only, one that is apart names no candidate twice.
LEMMA ApartIsApart ==
  ASSUME NEW rows, rows \subseteq WeekRows, NEW f, MembersApart(f)
  PROVE  \A p, q \in WeekRoles :
           f[p] \in CandidatesOf(rows) /\ f[q] \in CandidatesOf(rows)
           /\ MemberOf[f[p].player] = MemberOf[f[q].player] => p = q
BY CandidatesAreKeys DEF MembersApart

LEMMA ValidIsApart ==
  ASSUME NEW f, NEW r, ValidFive(f, r) PROVE MembersApart(f)
BY DEF ValidFive, MembersApart

\* A set of numbers has a least one.
LEMMA LeastNumber ==
    ASSUME NEW T, T \subseteq Nat, T # {}
    PROVE  \E n \in T : \A m \in T : n <= m
<1>1. PICK R : R = OpToRel(<, Nat)
    BY Zenon
<1>2. IsWellFoundedOn(R, Nat)
    BY <1>1, NatLessThanWellFounded, Zenon
<1>3. PICK n \in T : \A m \in T : ~ (<<m, n>> \in R)
    BY <1>2, WFMin
<1>4. \A m \in T : m \in Nat /\ n \in Nat
    OBVIOUS
<1>5. \A m \in Nat, k \in Nat : m < k => <<m, k>> \in R
    BY <1>1, Zenon DEF OpToRel
<1>6. \A m \in T : ~(m < n)
    BY <1>3, <1>4, <1>5, Zenon
<1>7. \A m \in T : n <= m
    BY <1>4, <1>6
<1>8. QED
    BY <1>7

\* Of some rounds there is a last one.
LEMMA LastOfRounds ==
  ASSUME NEW S, S \subseteq Nat, S # {}, NEW n \in Nat, \A r \in S : r <= n
  PROVE  \E r \in S : \A s \in S : s <= r
<1> DEFINE D == {n - r : r \in S}
<1>1. D \subseteq Nat /\ D # {}
    <2>1. \A r \in S : n - r \in Nat
        OBVIOUS
    <2>2. D # {}
        OBVIOUS
    <2>3. QED
        BY <2>1, <2>2
<1>2. PICK d \in D : \A e \in D : d <= e
    BY <1>1, LeastNumber
<1>3. PICK r \in S : d = n - r
    OBVIOUS
<1>4. ASSUME NEW s \in S PROVE s <= r
    <2>1. s \in Nat /\ r \in Nat /\ n - s \in D
        OBVIOUS
    <2>2. n - r <= n - s
        BY <1>2, <1>3, <2>1
    <2>3. QED
        BY <2>1, <2>2
<1>5. QED
    BY <1>4

LEMMA ChangeStatisticsKeeps ==
  ASSUME WeeklyInv, NEW r \in WeekRows, ChangeStatistics(r)
  PROVE  WeeklyInv'
<1>k. WeeklyKinds /\ WeeklyTypes
    BY WeeklyParts DEF WeeklyInv
<1>1. WeeklyTypes'
    <2>1. statRows' \subseteq WeekRows /\ rowChanges' \in 0..LastChange
        BY WeeklyAssumption, EmptyIsApart, <1>k DEF ChangeStatistics, statistics,
           storedTeams, formVars, pageVars, WeeklyKinds, WeeklyTypes, WeeklyInv
    <2>2. weekly' \in [WeekRounds -> Quintets] /\ quintets' \in Nat
        BY WeeklyAssumption, EmptyIsApart, <1>k DEF ChangeStatistics, statistics,
           storedTeams, formVars, pageVars, WeeklyKinds, WeeklyTypes, WeeklyInv, Stores,
           Quintets, Fives
    <2>3. weekRound' \in WeekRounds \cup {0} /\ weekVisits' \in 0..LastWeekVisit
        BY WeeklyAssumption, EmptyIsApart, <1>k DEF ChangeStatistics, statistics,
           storedTeams, formVars, pageVars, WeeklyKinds, WeeklyTypes, WeeklyInv
    <2>4. content' \in TeamLists
        BY WeeklyAssumption, EmptyIsApart, <1>k DEF ChangeStatistics, statistics,
           storedTeams, formVars, pageVars, WeeklyKinds, WeeklyTypes, WeeklyInv, TeamLists,
           AskedFor, NotLoaded
    <2>5. candidates' \in RowLists
        BY WeeklyAssumption, EmptyIsApart, <1>k DEF ChangeStatistics, statistics,
           storedTeams, formVars, pageVars, WeeklyKinds, WeeklyTypes, WeeklyInv, RowLists,
           AskedFor, NotLoaded, RoundRows
    <2>6. savedTeams' \in [WeekRounds -> Quintets]
        BY WeeklyAssumption, EmptyIsApart, <1>k DEF ChangeStatistics, statistics,
           storedTeams, formVars, pageVars, WeeklyKinds, WeeklyTypes, WeeklyInv, Quintets
    <2>7. five' \in Fives /\ showAtHome' \in BOOLEAN /\ dirty' \in BOOLEAN
        BY WeeklyAssumption, EmptyIsApart, <1>k DEF ChangeStatistics, statistics,
           storedTeams, formVars, pageVars, WeeklyKinds, WeeklyTypes, WeeklyInv, EmptyForm,
           Fives
    <2>8. weekSave' \in QuintetSaves
        BY WeeklyAssumption, EmptyIsApart, <1>k DEF ChangeStatistics, statistics,
           storedTeams, formVars, pageVars, WeeklyKinds, WeeklyTypes, WeeklyInv,
           QuintetSaves, NotSavingFive, LoadsInOrder, IsEditing, NotLoaded
    <2>9. QED
        BY <2>1, <2>2, <2>3, <2>4, <2>5, <2>6, <2>7, <2>8 DEF WeeklyTypes
<1>2. LoadsInOrder'
    BY WeeklyAssumption, EmptyIsApart, <1>k DEF WeeklyInv, ChangeStatistics, statistics,
       storedTeams, formVars, pageVars, WeeklyKinds, LoadsInOrder, NotLoaded, AskedFor
<1>3. StoredApart'
    BY WeeklyAssumption, EmptyIsApart, <1>k DEF WeeklyInv, ChangeStatistics, statistics,
       storedTeams, formVars, pageVars, WeeklyKinds, StoredApart, TeamsApart, AskedFor,
       NotLoaded, Stores, WeeklyTypes, Quintets
<1>4. FormApart'
    BY WeeklyAssumption, EmptyIsApart, <1>k DEF WeeklyInv, ChangeStatistics, statistics,
       storedTeams, formVars, pageVars, WeeklyKinds, FormApart, IsEditing, AskedFor,
       NotLoaded, EmptyForm, Saving, SaveIsOfTheForm
<1>5. SaveIsOfTheForm'
    BY WeeklyAssumption, EmptyIsApart, <1>k DEF WeeklyInv, ChangeStatistics, statistics,
       storedTeams, formVars, pageVars, WeeklyKinds, SaveIsOfTheForm, Saving, IsEditing,
       NotSavingFive, NotLoaded, AskedFor
<1>6. PublishedHavePlayed'
    BY WeeklyAssumption, EmptyIsApart, <1>k DEF WeeklyInv, ChangeStatistics, statistics,
       storedTeams, formVars, pageVars, WeeklyKinds, PublishedHavePlayed, RoundRows,
       WeeklyTypes, Stores, Quintets
<1>7. UnsavedChangesAreKnown'
    BY WeeklyAssumption, EmptyIsApart, <1>k DEF WeeklyInv, ChangeStatistics, statistics,
       storedTeams, formVars, pageVars, WeeklyKinds, UnsavedChangesAreKnown, IsEditing,
       EmptyForm, NotLoaded, AskedFor
<1>8. QED
    BY <1>1, <1>2, <1>3, <1>4, <1>5, <1>6, <1>7 DEF WeeklyInv

LEMMA OthersSaveQuintetKeeps ==
  ASSUME WeeklyInv, NEW r \in WeekRounds, NEW players \in [WeekRoles -> PickKeys \ {NoChoice}], OthersSaveQuintet(r, players, TRUE)
  PROVE  WeeklyInv'
<1>k. WeeklyKinds /\ WeeklyTypes
    BY WeeklyParts DEF WeeklyInv
<1>1. WeeklyTypes'
    <2>1. statRows' \subseteq WeekRows /\ rowChanges' \in 0..LastChange
        BY WeeklyAssumption, EmptyIsApart, <1>k DEF OthersSaveQuintet, statistics,
           storedTeams, formVars, pageVars, WeeklyKinds, WeeklyTypes, WeeklyInv
    <2>2. weekly' \in [WeekRounds -> Quintets] /\ quintets' \in Nat
        BY WeeklyAssumption, EmptyIsApart, <1>k DEF OthersSaveQuintet, statistics,
           storedTeams, formVars, pageVars, WeeklyKinds, WeeklyTypes, WeeklyInv, Stores,
           Quintets, Fives
    <2>3. weekRound' \in WeekRounds \cup {0} /\ weekVisits' \in 0..LastWeekVisit
        BY WeeklyAssumption, EmptyIsApart, <1>k DEF OthersSaveQuintet, statistics,
           storedTeams, formVars, pageVars, WeeklyKinds, WeeklyTypes, WeeklyInv
    <2>4. content' \in TeamLists
        BY WeeklyAssumption, EmptyIsApart, <1>k DEF OthersSaveQuintet, statistics,
           storedTeams, formVars, pageVars, WeeklyKinds, WeeklyTypes, WeeklyInv, TeamLists,
           AskedFor, NotLoaded
    <2>5. candidates' \in RowLists
        BY WeeklyAssumption, EmptyIsApart, <1>k DEF OthersSaveQuintet, statistics,
           storedTeams, formVars, pageVars, WeeklyKinds, WeeklyTypes, WeeklyInv, RowLists,
           AskedFor, NotLoaded, RoundRows
    <2>6. savedTeams' \in [WeekRounds -> Quintets]
        BY WeeklyAssumption, EmptyIsApart, <1>k DEF OthersSaveQuintet, statistics,
           storedTeams, formVars, pageVars, WeeklyKinds, WeeklyTypes, WeeklyInv, Quintets
    <2>7. five' \in Fives /\ showAtHome' \in BOOLEAN /\ dirty' \in BOOLEAN
        BY WeeklyAssumption, EmptyIsApart, <1>k DEF OthersSaveQuintet, statistics,
           storedTeams, formVars, pageVars, WeeklyKinds, WeeklyTypes, WeeklyInv, EmptyForm,
           Fives
    <2>8. weekSave' \in QuintetSaves
        BY WeeklyAssumption, EmptyIsApart, <1>k DEF OthersSaveQuintet, statistics,
           storedTeams, formVars, pageVars, WeeklyKinds, WeeklyTypes, WeeklyInv,
           QuintetSaves, NotSavingFive, LoadsInOrder, IsEditing, NotLoaded
    <2>9. QED
        BY <2>1, <2>2, <2>3, <2>4, <2>5, <2>6, <2>7, <2>8 DEF WeeklyTypes
<1>2. LoadsInOrder'
    BY WeeklyAssumption, EmptyIsApart, <1>k DEF WeeklyInv, OthersSaveQuintet, statistics,
       storedTeams, formVars, pageVars, WeeklyKinds, LoadsInOrder, NotLoaded, AskedFor
<1>3. StoredApart'
    <2>1. \A s \in WeekRounds :
             /\ s = r => weekly'[s].players = players /\ weekly'[s].published = TRUE
             /\ s # r => weekly'[s] = weekly[s]
        BY <1>k DEF OthersSaveQuintet, Stores, WeeklyTypes
    <2>2. MembersApart(players)
        BY ValidIsApart DEF OthersSaveQuintet
    <2>3. \A s \in WeekRounds : MembersApart(weekly'[s].players)
        BY <2>1, <2>2 DEF WeeklyInv, StoredApart, TeamsApart
    <2>4. UNCHANGED <<savedTeams, content>>
        BY DEF OthersSaveQuintet, pageVars
    <2>5. QED
        BY <2>3, <2>4 DEF WeeklyInv, StoredApart, TeamsApart
<1>4. FormApart'
    BY WeeklyAssumption, EmptyIsApart, <1>k DEF WeeklyInv, OthersSaveQuintet, statistics,
       storedTeams, formVars, pageVars, WeeklyKinds, FormApart, IsEditing, AskedFor,
       NotLoaded, EmptyForm, Saving, SaveIsOfTheForm
<1>5. SaveIsOfTheForm'
    BY WeeklyAssumption, EmptyIsApart, <1>k DEF WeeklyInv, OthersSaveQuintet, statistics,
       storedTeams, formVars, pageVars, WeeklyKinds, SaveIsOfTheForm, Saving, IsEditing,
       NotSavingFive, NotLoaded, AskedFor
<1>6. PublishedHavePlayed'
    <2>1. \A s \in WeekRounds :
             /\ s = r => weekly'[s].players = players /\ weekly'[s].published = TRUE
             /\ s # r => weekly'[s] = weekly[s]
        BY <1>k DEF OthersSaveQuintet, Stores, WeeklyTypes
    <2>2. UNCHANGED <<statRows, rowChanges>>
        BY DEF OthersSaveQuintet, statistics
    <2>3. \A s \in WeekRounds : RoundRows(s)' = RoundRows(s)
        BY <2>2 DEF RoundRows
    <2>4. \A p \in WeekRoles : players[p] \in PlayedAt(p, RoundRows(r))
        BY DEF OthersSaveQuintet, ValidFive
    <2>5. QED
        BY <2>1, <2>2, <2>3, <2>4 DEF WeeklyInv, PublishedHavePlayed
<1>7. UnsavedChangesAreKnown'
    BY WeeklyAssumption, EmptyIsApart, <1>k DEF WeeklyInv, OthersSaveQuintet, statistics,
       storedTeams, formVars, pageVars, WeeklyKinds, UnsavedChangesAreKnown, IsEditing,
       EmptyForm, NotLoaded, AskedFor
<1>8. QED
    BY <1>1, <1>2, <1>3, <1>4, <1>5, <1>6, <1>7 DEF WeeklyInv

LEMMA OpenDivisionKeeps ==
  ASSUME WeeklyInv, NEW r \in WeekRounds, OpenDivision(r)
  PROVE  WeeklyInv'
<1>k. WeeklyKinds /\ WeeklyTypes
    BY WeeklyParts DEF WeeklyInv
<1>1. WeeklyTypes'
    <2>1. statRows' \subseteq WeekRows /\ rowChanges' \in 0..LastChange
        BY WeeklyAssumption, EmptyIsApart, <1>k DEF OpenDivision, statistics, storedTeams,
           formVars, pageVars, WeeklyKinds, WeeklyTypes, WeeklyInv
    <2>2. weekly' \in [WeekRounds -> Quintets] /\ quintets' \in Nat
        BY WeeklyAssumption, EmptyIsApart, <1>k DEF OpenDivision, statistics, storedTeams,
           formVars, pageVars, WeeklyKinds, WeeklyTypes, WeeklyInv, Stores, Quintets, Fives
    <2>3. weekRound' \in WeekRounds \cup {0} /\ weekVisits' \in 0..LastWeekVisit
        BY WeeklyAssumption, EmptyIsApart, <1>k DEF OpenDivision, statistics, storedTeams,
           formVars, pageVars, WeeklyKinds, WeeklyTypes, WeeklyInv
    <2>4. content' \in TeamLists
        BY WeeklyAssumption, EmptyIsApart, <1>k DEF OpenDivision, statistics, storedTeams,
           formVars, pageVars, WeeklyKinds, WeeklyTypes, WeeklyInv, TeamLists, AskedFor,
           NotLoaded
    <2>5. candidates' \in RowLists
        BY WeeklyAssumption, EmptyIsApart, <1>k DEF OpenDivision, statistics, storedTeams,
           formVars, pageVars, WeeklyKinds, WeeklyTypes, WeeklyInv, RowLists, AskedFor,
           NotLoaded, RoundRows
    <2>6. savedTeams' \in [WeekRounds -> Quintets]
        BY WeeklyAssumption, EmptyIsApart, <1>k DEF OpenDivision, statistics, storedTeams,
           formVars, pageVars, WeeklyKinds, WeeklyTypes, WeeklyInv, Quintets
    <2>7. five' \in Fives /\ showAtHome' \in BOOLEAN /\ dirty' \in BOOLEAN
        BY WeeklyAssumption, EmptyIsApart, <1>k DEF OpenDivision, statistics, storedTeams,
           formVars, pageVars, WeeklyKinds, WeeklyTypes, WeeklyInv, EmptyForm, Fives
    <2>8. weekSave' \in QuintetSaves
        BY WeeklyAssumption, EmptyIsApart, <1>k DEF OpenDivision, statistics, storedTeams,
           formVars, pageVars, WeeklyKinds, WeeklyTypes, WeeklyInv, QuintetSaves,
           NotSavingFive, LoadsInOrder, IsEditing, NotLoaded
    <2>9. QED
        BY <2>1, <2>2, <2>3, <2>4, <2>5, <2>6, <2>7, <2>8 DEF WeeklyTypes
<1>2. LoadsInOrder'
    BY WeeklyAssumption, EmptyIsApart, <1>k DEF WeeklyInv, OpenDivision, statistics,
       storedTeams, formVars, pageVars, WeeklyKinds, LoadsInOrder, NotLoaded, AskedFor
<1>3. StoredApart'
    BY WeeklyAssumption, EmptyIsApart, <1>k DEF WeeklyInv, OpenDivision, statistics,
       storedTeams, formVars, pageVars, WeeklyKinds, StoredApart, TeamsApart, AskedFor,
       NotLoaded, Stores, WeeklyTypes, Quintets
<1>4. FormApart'
    BY WeeklyAssumption, EmptyIsApart, <1>k DEF WeeklyInv, OpenDivision, statistics,
       storedTeams, formVars, pageVars, WeeklyKinds, FormApart, IsEditing, AskedFor,
       NotLoaded, EmptyForm, Saving, SaveIsOfTheForm
<1>5. SaveIsOfTheForm'
    BY WeeklyAssumption, EmptyIsApart, <1>k DEF WeeklyInv, OpenDivision, statistics,
       storedTeams, formVars, pageVars, WeeklyKinds, SaveIsOfTheForm, Saving, IsEditing,
       NotSavingFive, NotLoaded, AskedFor
<1>6. PublishedHavePlayed'
    BY WeeklyAssumption, EmptyIsApart, <1>k DEF WeeklyInv, OpenDivision, statistics,
       storedTeams, formVars, pageVars, WeeklyKinds, PublishedHavePlayed, RoundRows,
       WeeklyTypes, Stores, Quintets
<1>7. UnsavedChangesAreKnown'
    BY WeeklyAssumption, EmptyIsApart, <1>k DEF WeeklyInv, OpenDivision, statistics,
       storedTeams, formVars, pageVars, WeeklyKinds, UnsavedChangesAreKnown, IsEditing,
       EmptyForm, NotLoaded, AskedFor
<1>8. QED
    BY <1>1, <1>2, <1>3, <1>4, <1>5, <1>6, <1>7 DEF WeeklyInv

LEMMA ServerListsTeamsKeeps ==
  ASSUME WeeklyInv, ServerListsTeams
  PROVE  WeeklyInv'
<1>k. WeeklyKinds /\ WeeklyTypes
    BY WeeklyParts DEF WeeklyInv
<1>1. WeeklyTypes'
    <2>1. statRows' \subseteq WeekRows /\ rowChanges' \in 0..LastChange
        BY WeeklyAssumption, EmptyIsApart, <1>k DEF ServerListsTeams, statistics,
           storedTeams, formVars, pageVars, WeeklyKinds, WeeklyTypes, WeeklyInv
    <2>2. weekly' \in [WeekRounds -> Quintets] /\ quintets' \in Nat
        BY WeeklyAssumption, EmptyIsApart, <1>k DEF ServerListsTeams, statistics,
           storedTeams, formVars, pageVars, WeeklyKinds, WeeklyTypes, WeeklyInv, Stores,
           Quintets, Fives
    <2>3. weekRound' \in WeekRounds \cup {0} /\ weekVisits' \in 0..LastWeekVisit
        BY WeeklyAssumption, EmptyIsApart, <1>k DEF ServerListsTeams, statistics,
           storedTeams, formVars, pageVars, WeeklyKinds, WeeklyTypes, WeeklyInv
    <2>4. content' \in TeamLists
        BY WeeklyAssumption, EmptyIsApart, <1>k DEF ServerListsTeams, statistics,
           storedTeams, formVars, pageVars, WeeklyKinds, WeeklyTypes, WeeklyInv, TeamLists,
           AskedFor, NotLoaded
    <2>5. candidates' \in RowLists
        BY WeeklyAssumption, EmptyIsApart, <1>k DEF ServerListsTeams, statistics,
           storedTeams, formVars, pageVars, WeeklyKinds, WeeklyTypes, WeeklyInv, RowLists,
           AskedFor, NotLoaded, RoundRows
    <2>6. savedTeams' \in [WeekRounds -> Quintets]
        BY WeeklyAssumption, EmptyIsApart, <1>k DEF ServerListsTeams, statistics,
           storedTeams, formVars, pageVars, WeeklyKinds, WeeklyTypes, WeeklyInv, Quintets
    <2>7. five' \in Fives /\ showAtHome' \in BOOLEAN /\ dirty' \in BOOLEAN
        BY WeeklyAssumption, EmptyIsApart, <1>k DEF ServerListsTeams, statistics,
           storedTeams, formVars, pageVars, WeeklyKinds, WeeklyTypes, WeeklyInv, EmptyForm,
           Fives
    <2>8. weekSave' \in QuintetSaves
        BY WeeklyAssumption, EmptyIsApart, <1>k DEF ServerListsTeams, statistics,
           storedTeams, formVars, pageVars, WeeklyKinds, WeeklyTypes, WeeklyInv,
           QuintetSaves, NotSavingFive, LoadsInOrder, IsEditing, NotLoaded
    <2>9. QED
        BY <2>1, <2>2, <2>3, <2>4, <2>5, <2>6, <2>7, <2>8 DEF WeeklyTypes
<1>2. LoadsInOrder'
    BY WeeklyAssumption, EmptyIsApart, <1>k DEF WeeklyInv, ServerListsTeams, statistics,
       storedTeams, formVars, pageVars, WeeklyKinds, LoadsInOrder, NotLoaded, AskedFor
<1>3. StoredApart'
    BY WeeklyAssumption, EmptyIsApart, <1>k DEF WeeklyInv, ServerListsTeams, statistics,
       storedTeams, formVars, pageVars, WeeklyKinds, StoredApart, TeamsApart, AskedFor,
       NotLoaded, Stores, WeeklyTypes, Quintets
<1>4. FormApart'
    BY WeeklyAssumption, EmptyIsApart, <1>k DEF WeeklyInv, ServerListsTeams, statistics,
       storedTeams, formVars, pageVars, WeeklyKinds, FormApart, IsEditing, AskedFor,
       NotLoaded, EmptyForm, Saving, SaveIsOfTheForm
<1>5. SaveIsOfTheForm'
    BY WeeklyAssumption, EmptyIsApart, <1>k DEF WeeklyInv, ServerListsTeams, statistics,
       storedTeams, formVars, pageVars, WeeklyKinds, SaveIsOfTheForm, Saving, IsEditing,
       NotSavingFive, NotLoaded, AskedFor
<1>6. PublishedHavePlayed'
    BY WeeklyAssumption, EmptyIsApart, <1>k DEF WeeklyInv, ServerListsTeams, statistics,
       storedTeams, formVars, pageVars, WeeklyKinds, PublishedHavePlayed, RoundRows,
       WeeklyTypes, Stores, Quintets
<1>7. UnsavedChangesAreKnown'
    BY WeeklyAssumption, EmptyIsApart, <1>k DEF WeeklyInv, ServerListsTeams, statistics,
       storedTeams, formVars, pageVars, WeeklyKinds, UnsavedChangesAreKnown, IsEditing,
       EmptyForm, NotLoaded, AskedFor
<1>8. QED
    BY <1>1, <1>2, <1>3, <1>4, <1>5, <1>6, <1>7 DEF WeeklyInv

LEMMA ContentArrivesKeeps ==
  ASSUME WeeklyInv, ContentArrives
  PROVE  WeeklyInv'
<1>k. WeeklyKinds /\ WeeklyTypes
    BY WeeklyParts DEF WeeklyInv
<1>1. WeeklyTypes'
    <2>1. statRows' \subseteq WeekRows /\ rowChanges' \in 0..LastChange
        BY WeeklyAssumption, EmptyIsApart, <1>k DEF ContentArrives, statistics, storedTeams,
           formVars, pageVars, WeeklyKinds, WeeklyTypes, WeeklyInv
    <2>2. weekly' \in [WeekRounds -> Quintets] /\ quintets' \in Nat
        BY WeeklyAssumption, EmptyIsApart, <1>k DEF ContentArrives, statistics, storedTeams,
           formVars, pageVars, WeeklyKinds, WeeklyTypes, WeeklyInv, Stores, Quintets, Fives
    <2>3. weekRound' \in WeekRounds \cup {0} /\ weekVisits' \in 0..LastWeekVisit
        BY WeeklyAssumption, EmptyIsApart, <1>k DEF ContentArrives, statistics, storedTeams,
           formVars, pageVars, WeeklyKinds, WeeklyTypes, WeeklyInv
    <2>4. content' \in TeamLists
        BY WeeklyAssumption, EmptyIsApart, <1>k DEF ContentArrives, statistics, storedTeams,
           formVars, pageVars, WeeklyKinds, WeeklyTypes, WeeklyInv, TeamLists, AskedFor,
           NotLoaded
    <2>5. candidates' \in RowLists
        BY WeeklyAssumption, EmptyIsApart, <1>k DEF ContentArrives, statistics, storedTeams,
           formVars, pageVars, WeeklyKinds, WeeklyTypes, WeeklyInv, RowLists, AskedFor,
           NotLoaded, RoundRows
    <2>6. savedTeams' \in [WeekRounds -> Quintets]
        BY WeeklyAssumption, EmptyIsApart, <1>k DEF ContentArrives, statistics, storedTeams,
           formVars, pageVars, WeeklyKinds, WeeklyTypes, WeeklyInv, Quintets
    <2>7. five' \in Fives /\ showAtHome' \in BOOLEAN /\ dirty' \in BOOLEAN
        BY WeeklyAssumption, EmptyIsApart, <1>k DEF ContentArrives, statistics, storedTeams,
           formVars, pageVars, WeeklyKinds, WeeklyTypes, WeeklyInv, EmptyForm, Fives
    <2>8. weekSave' \in QuintetSaves
        BY WeeklyAssumption, EmptyIsApart, <1>k DEF ContentArrives, statistics, storedTeams,
           formVars, pageVars, WeeklyKinds, WeeklyTypes, WeeklyInv, QuintetSaves,
           NotSavingFive, LoadsInOrder, IsEditing, NotLoaded
    <2>9. QED
        BY <2>1, <2>2, <2>3, <2>4, <2>5, <2>6, <2>7, <2>8 DEF WeeklyTypes
<1>2. LoadsInOrder'
    BY WeeklyAssumption, EmptyIsApart, <1>k DEF WeeklyInv, ContentArrives, statistics,
       storedTeams, formVars, pageVars, WeeklyKinds, LoadsInOrder, NotLoaded, AskedFor
<1>3. StoredApart'
    BY WeeklyAssumption, EmptyIsApart, <1>k DEF WeeklyInv, ContentArrives, statistics,
       storedTeams, formVars, pageVars, WeeklyKinds, StoredApart, TeamsApart, AskedFor,
       NotLoaded, Stores, WeeklyTypes, Quintets
<1>4. FormApart'
    BY WeeklyAssumption, EmptyIsApart, <1>k DEF WeeklyInv, ContentArrives, statistics,
       storedTeams, formVars, pageVars, WeeklyKinds, FormApart, IsEditing, AskedFor,
       NotLoaded, EmptyForm, Saving, SaveIsOfTheForm
<1>5. SaveIsOfTheForm'
    <2>1. candidates = NotLoaded
        BY DEF ContentArrives, WeeklyInv, LoadsInOrder
    <2>2. ~ Saving
        BY <2>1 DEF WeeklyInv, SaveIsOfTheForm, IsEditing, NotLoaded
    <2>3. weekSave' = weekSave
        BY DEF ContentArrives
    <2>4. QED
        BY <2>2, <2>3 DEF WeeklyInv, SaveIsOfTheForm, Saving
<1>6. PublishedHavePlayed'
    BY WeeklyAssumption, EmptyIsApart, <1>k DEF WeeklyInv, ContentArrives, statistics,
       storedTeams, formVars, pageVars, WeeklyKinds, PublishedHavePlayed, RoundRows,
       WeeklyTypes, Stores, Quintets
<1>7. UnsavedChangesAreKnown'
    BY WeeklyAssumption, EmptyIsApart, <1>k DEF WeeklyInv, ContentArrives, statistics,
       storedTeams, formVars, pageVars, WeeklyKinds, UnsavedChangesAreKnown, IsEditing,
       EmptyForm, NotLoaded, AskedFor
<1>8. QED
    BY <1>1, <1>2, <1>3, <1>4, <1>5, <1>6, <1>7 DEF WeeklyInv

LEMMA ChangeRoundKeeps ==
  ASSUME WeeklyInv, NEW r \in WeekRounds, ChangeRound(r)
  PROVE  WeeklyInv'
<1>k. WeeklyKinds /\ WeeklyTypes
    BY WeeklyParts DEF WeeklyInv
<1>1. WeeklyTypes'
    <2>1. statRows' \subseteq WeekRows /\ rowChanges' \in 0..LastChange
        BY WeeklyAssumption, EmptyIsApart, <1>k DEF ChangeRound, statistics, storedTeams,
           formVars, pageVars, WeeklyKinds, WeeklyTypes, WeeklyInv
    <2>2. weekly' \in [WeekRounds -> Quintets] /\ quintets' \in Nat
        BY WeeklyAssumption, EmptyIsApart, <1>k DEF ChangeRound, statistics, storedTeams,
           formVars, pageVars, WeeklyKinds, WeeklyTypes, WeeklyInv, Stores, Quintets, Fives
    <2>3. weekRound' \in WeekRounds \cup {0} /\ weekVisits' \in 0..LastWeekVisit
        BY WeeklyAssumption, EmptyIsApart, <1>k DEF ChangeRound, statistics, storedTeams,
           formVars, pageVars, WeeklyKinds, WeeklyTypes, WeeklyInv
    <2>4. content' \in TeamLists
        BY WeeklyAssumption, EmptyIsApart, <1>k DEF ChangeRound, statistics, storedTeams,
           formVars, pageVars, WeeklyKinds, WeeklyTypes, WeeklyInv, TeamLists, AskedFor,
           NotLoaded
    <2>5. candidates' \in RowLists
        BY WeeklyAssumption, EmptyIsApart, <1>k DEF ChangeRound, statistics, storedTeams,
           formVars, pageVars, WeeklyKinds, WeeklyTypes, WeeklyInv, RowLists, AskedFor,
           NotLoaded, RoundRows
    <2>6. savedTeams' \in [WeekRounds -> Quintets]
        BY WeeklyAssumption, EmptyIsApart, <1>k DEF ChangeRound, statistics, storedTeams,
           formVars, pageVars, WeeklyKinds, WeeklyTypes, WeeklyInv, Quintets
    <2>7. five' \in Fives /\ showAtHome' \in BOOLEAN /\ dirty' \in BOOLEAN
        BY WeeklyAssumption, EmptyIsApart, <1>k DEF ChangeRound, statistics, storedTeams,
           formVars, pageVars, WeeklyKinds, WeeklyTypes, WeeklyInv, EmptyForm, Fives
    <2>8. weekSave' \in QuintetSaves
        BY WeeklyAssumption, EmptyIsApart, <1>k DEF ChangeRound, statistics, storedTeams,
           formVars, pageVars, WeeklyKinds, WeeklyTypes, WeeklyInv, QuintetSaves,
           NotSavingFive, LoadsInOrder, IsEditing, NotLoaded
    <2>9. QED
        BY <2>1, <2>2, <2>3, <2>4, <2>5, <2>6, <2>7, <2>8 DEF WeeklyTypes
<1>2. LoadsInOrder'
    BY WeeklyAssumption, EmptyIsApart, <1>k DEF WeeklyInv, ChangeRound, statistics,
       storedTeams, formVars, pageVars, WeeklyKinds, LoadsInOrder, NotLoaded, AskedFor
<1>3. StoredApart'
    BY WeeklyAssumption, EmptyIsApart, <1>k DEF WeeklyInv, ChangeRound, statistics,
       storedTeams, formVars, pageVars, WeeklyKinds, StoredApart, TeamsApart, AskedFor,
       NotLoaded, Stores, WeeklyTypes, Quintets
<1>4. FormApart'
    BY WeeklyAssumption, EmptyIsApart, <1>k DEF WeeklyInv, ChangeRound, statistics,
       storedTeams, formVars, pageVars, WeeklyKinds, FormApart, IsEditing, AskedFor,
       NotLoaded, EmptyForm, Saving, SaveIsOfTheForm
<1>5. SaveIsOfTheForm'
    BY WeeklyAssumption, EmptyIsApart, <1>k DEF WeeklyInv, ChangeRound, statistics,
       storedTeams, formVars, pageVars, WeeklyKinds, SaveIsOfTheForm, Saving, IsEditing,
       NotSavingFive, NotLoaded, AskedFor
<1>6. PublishedHavePlayed'
    BY WeeklyAssumption, EmptyIsApart, <1>k DEF WeeklyInv, ChangeRound, statistics,
       storedTeams, formVars, pageVars, WeeklyKinds, PublishedHavePlayed, RoundRows,
       WeeklyTypes, Stores, Quintets
<1>7. UnsavedChangesAreKnown'
    BY WeeklyAssumption, EmptyIsApart, <1>k DEF WeeklyInv, ChangeRound, statistics,
       storedTeams, formVars, pageVars, WeeklyKinds, UnsavedChangesAreKnown, IsEditing,
       EmptyForm, NotLoaded, AskedFor
<1>8. QED
    BY <1>1, <1>2, <1>3, <1>4, <1>5, <1>6, <1>7 DEF WeeklyInv

LEMMA LeaveWeeklyKeeps ==
  ASSUME WeeklyInv, LeaveWeekly
  PROVE  WeeklyInv'
<1>k. WeeklyKinds /\ WeeklyTypes
    BY WeeklyParts DEF WeeklyInv
<1>1. WeeklyTypes'
    <2>1. statRows' \subseteq WeekRows /\ rowChanges' \in 0..LastChange
        BY WeeklyAssumption, EmptyIsApart, <1>k DEF LeaveWeekly, statistics, storedTeams,
           formVars, pageVars, WeeklyKinds, WeeklyTypes, WeeklyInv
    <2>2. weekly' \in [WeekRounds -> Quintets] /\ quintets' \in Nat
        BY WeeklyAssumption, EmptyIsApart, <1>k DEF LeaveWeekly, statistics, storedTeams,
           formVars, pageVars, WeeklyKinds, WeeklyTypes, WeeklyInv, Stores, Quintets, Fives
    <2>3. weekRound' \in WeekRounds \cup {0} /\ weekVisits' \in 0..LastWeekVisit
        BY WeeklyAssumption, EmptyIsApart, <1>k DEF LeaveWeekly, statistics, storedTeams,
           formVars, pageVars, WeeklyKinds, WeeklyTypes, WeeklyInv
    <2>4. content' \in TeamLists
        BY WeeklyAssumption, EmptyIsApart, <1>k DEF LeaveWeekly, statistics, storedTeams,
           formVars, pageVars, WeeklyKinds, WeeklyTypes, WeeklyInv, TeamLists, AskedFor,
           NotLoaded
    <2>5. candidates' \in RowLists
        BY WeeklyAssumption, EmptyIsApart, <1>k DEF LeaveWeekly, statistics, storedTeams,
           formVars, pageVars, WeeklyKinds, WeeklyTypes, WeeklyInv, RowLists, AskedFor,
           NotLoaded, RoundRows
    <2>6. savedTeams' \in [WeekRounds -> Quintets]
        BY WeeklyAssumption, EmptyIsApart, <1>k DEF LeaveWeekly, statistics, storedTeams,
           formVars, pageVars, WeeklyKinds, WeeklyTypes, WeeklyInv, Quintets
    <2>7. five' \in Fives /\ showAtHome' \in BOOLEAN /\ dirty' \in BOOLEAN
        BY WeeklyAssumption, EmptyIsApart, <1>k DEF LeaveWeekly, statistics, storedTeams,
           formVars, pageVars, WeeklyKinds, WeeklyTypes, WeeklyInv, EmptyForm, Fives
    <2>8. weekSave' \in QuintetSaves
        BY WeeklyAssumption, EmptyIsApart, <1>k DEF LeaveWeekly, statistics, storedTeams,
           formVars, pageVars, WeeklyKinds, WeeklyTypes, WeeklyInv, QuintetSaves,
           NotSavingFive, LoadsInOrder, IsEditing, NotLoaded
    <2>9. QED
        BY <2>1, <2>2, <2>3, <2>4, <2>5, <2>6, <2>7, <2>8 DEF WeeklyTypes
<1>2. LoadsInOrder'
    BY WeeklyAssumption, EmptyIsApart, <1>k DEF WeeklyInv, LeaveWeekly, statistics,
       storedTeams, formVars, pageVars, WeeklyKinds, LoadsInOrder, NotLoaded, AskedFor
<1>3. StoredApart'
    BY WeeklyAssumption, EmptyIsApart, <1>k DEF WeeklyInv, LeaveWeekly, statistics,
       storedTeams, formVars, pageVars, WeeklyKinds, StoredApart, TeamsApart, AskedFor,
       NotLoaded, Stores, WeeklyTypes, Quintets
<1>4. FormApart'
    BY WeeklyAssumption, EmptyIsApart, <1>k DEF WeeklyInv, LeaveWeekly, statistics,
       storedTeams, formVars, pageVars, WeeklyKinds, FormApart, IsEditing, AskedFor,
       NotLoaded, EmptyForm, Saving, SaveIsOfTheForm
<1>5. SaveIsOfTheForm'
    BY WeeklyAssumption, EmptyIsApart, <1>k DEF WeeklyInv, LeaveWeekly, statistics,
       storedTeams, formVars, pageVars, WeeklyKinds, SaveIsOfTheForm, Saving, IsEditing,
       NotSavingFive, NotLoaded, AskedFor
<1>6. PublishedHavePlayed'
    BY WeeklyAssumption, EmptyIsApart, <1>k DEF WeeklyInv, LeaveWeekly, statistics,
       storedTeams, formVars, pageVars, WeeklyKinds, PublishedHavePlayed, RoundRows,
       WeeklyTypes, Stores, Quintets
<1>7. UnsavedChangesAreKnown'
    BY WeeklyAssumption, EmptyIsApart, <1>k DEF WeeklyInv, LeaveWeekly, statistics,
       storedTeams, formVars, pageVars, WeeklyKinds, UnsavedChangesAreKnown, IsEditing,
       EmptyForm, NotLoaded, AskedFor
<1>8. QED
    BY <1>1, <1>2, <1>3, <1>4, <1>5, <1>6, <1>7 DEF WeeklyInv

LEMMA ServerListsCandidatesKeeps ==
  ASSUME WeeklyInv, ServerListsCandidates
  PROVE  WeeklyInv'
<1>k. WeeklyKinds /\ WeeklyTypes
    BY WeeklyParts DEF WeeklyInv
<1>1. WeeklyTypes'
    <2>1. statRows' \subseteq WeekRows /\ rowChanges' \in 0..LastChange
        BY WeeklyAssumption, EmptyIsApart, <1>k DEF ServerListsCandidates, statistics,
           storedTeams, formVars, pageVars, WeeklyKinds, WeeklyTypes, WeeklyInv
    <2>2. weekly' \in [WeekRounds -> Quintets] /\ quintets' \in Nat
        BY WeeklyAssumption, EmptyIsApart, <1>k DEF ServerListsCandidates, statistics,
           storedTeams, formVars, pageVars, WeeklyKinds, WeeklyTypes, WeeklyInv, Stores,
           Quintets, Fives
    <2>3. weekRound' \in WeekRounds \cup {0} /\ weekVisits' \in 0..LastWeekVisit
        BY WeeklyAssumption, EmptyIsApart, <1>k DEF ServerListsCandidates, statistics,
           storedTeams, formVars, pageVars, WeeklyKinds, WeeklyTypes, WeeklyInv
    <2>4. content' \in TeamLists
        BY WeeklyAssumption, EmptyIsApart, <1>k DEF ServerListsCandidates, statistics,
           storedTeams, formVars, pageVars, WeeklyKinds, WeeklyTypes, WeeklyInv, TeamLists,
           AskedFor, NotLoaded
    <2>5. candidates' \in RowLists
        BY WeeklyAssumption, EmptyIsApart, <1>k DEF ServerListsCandidates, statistics,
           storedTeams, formVars, pageVars, WeeklyKinds, WeeklyTypes, WeeklyInv, RowLists,
           AskedFor, NotLoaded, RoundRows
    <2>6. savedTeams' \in [WeekRounds -> Quintets]
        BY WeeklyAssumption, EmptyIsApart, <1>k DEF ServerListsCandidates, statistics,
           storedTeams, formVars, pageVars, WeeklyKinds, WeeklyTypes, WeeklyInv, Quintets
    <2>7. five' \in Fives /\ showAtHome' \in BOOLEAN /\ dirty' \in BOOLEAN
        BY WeeklyAssumption, EmptyIsApart, <1>k DEF ServerListsCandidates, statistics,
           storedTeams, formVars, pageVars, WeeklyKinds, WeeklyTypes, WeeklyInv, EmptyForm,
           Fives
    <2>8. weekSave' \in QuintetSaves
        BY WeeklyAssumption, EmptyIsApart, <1>k DEF ServerListsCandidates, statistics,
           storedTeams, formVars, pageVars, WeeklyKinds, WeeklyTypes, WeeklyInv,
           QuintetSaves, NotSavingFive, LoadsInOrder, IsEditing, NotLoaded
    <2>9. QED
        BY <2>1, <2>2, <2>3, <2>4, <2>5, <2>6, <2>7, <2>8 DEF WeeklyTypes
<1>2. LoadsInOrder'
    BY WeeklyAssumption, EmptyIsApart, <1>k DEF WeeklyInv, ServerListsCandidates,
       statistics, storedTeams, formVars, pageVars, WeeklyKinds, LoadsInOrder, NotLoaded,
       AskedFor
<1>3. StoredApart'
    BY WeeklyAssumption, EmptyIsApart, <1>k DEF WeeklyInv, ServerListsCandidates,
       statistics, storedTeams, formVars, pageVars, WeeklyKinds, StoredApart, TeamsApart,
       AskedFor, NotLoaded, Stores, WeeklyTypes, Quintets
<1>4. FormApart'
    BY WeeklyAssumption, EmptyIsApart, <1>k DEF WeeklyInv, ServerListsCandidates,
       statistics, storedTeams, formVars, pageVars, WeeklyKinds, FormApart, IsEditing,
       AskedFor, NotLoaded, EmptyForm, Saving, SaveIsOfTheForm
<1>5. SaveIsOfTheForm'
    BY WeeklyAssumption, EmptyIsApart, <1>k DEF WeeklyInv, ServerListsCandidates,
       statistics, storedTeams, formVars, pageVars, WeeklyKinds, SaveIsOfTheForm, Saving,
       IsEditing, NotSavingFive, NotLoaded, AskedFor
<1>6. PublishedHavePlayed'
    BY WeeklyAssumption, EmptyIsApart, <1>k DEF WeeklyInv, ServerListsCandidates,
       statistics, storedTeams, formVars, pageVars, WeeklyKinds, PublishedHavePlayed,
       RoundRows, WeeklyTypes, Stores, Quintets
<1>7. UnsavedChangesAreKnown'
    BY WeeklyAssumption, EmptyIsApart, <1>k DEF WeeklyInv, ServerListsCandidates,
       statistics, storedTeams, formVars, pageVars, WeeklyKinds, UnsavedChangesAreKnown,
       IsEditing, EmptyForm, NotLoaded, AskedFor
<1>8. QED
    BY <1>1, <1>2, <1>3, <1>4, <1>5, <1>6, <1>7 DEF WeeklyInv

LEMMA CandidatesArriveKeeps ==
  ASSUME WeeklyInv, CandidatesArrive
  PROVE  WeeklyInv'
<1>k. WeeklyKinds /\ WeeklyTypes
    BY WeeklyParts DEF WeeklyInv
<1>0. /\ weekRound \in WeekRounds /\ content.phase = "loaded" /\ candidates.rows \subseteq WeekRows
      /\ content.teams \in [WeekRounds -> Quintets]
    BY <1>k DEF CandidatesArrive, WeeklyKinds, WeeklyInv, LoadsInOrder, NotLoaded
<1>t. PICK t \in Quintets : t = CurrentTeam(weekRound) /\ MembersApart(t.players)
    BY <1>k, <1>0 DEF CurrentTeam, WeeklyTypes, WeeklyInv, StoredApart, TeamsApart
<1>u. five' = t.players /\ showAtHome' = t.published /\ loadedFive' = <<t.players, t.published>>
    BY <1>t DEF CandidatesArrive
<1>1. WeeklyTypes'
    <2>1. statRows' \subseteq WeekRows /\ rowChanges' \in 0..LastChange
        BY WeeklyAssumption, EmptyIsApart, <1>k, <1>0 DEF CandidatesArrive, statistics,
           storedTeams, formVars, pageVars, WeeklyKinds, WeeklyTypes, WeeklyInv
    <2>2. weekly' \in [WeekRounds -> Quintets] /\ quintets' \in Nat
        BY WeeklyAssumption, EmptyIsApart, <1>k, <1>0 DEF CandidatesArrive, statistics,
           storedTeams, formVars, pageVars, WeeklyKinds, WeeklyTypes, WeeklyInv, Stores,
           Quintets, Fives
    <2>3. weekRound' \in WeekRounds \cup {0} /\ weekVisits' \in 0..LastWeekVisit
        BY WeeklyAssumption, EmptyIsApart, <1>k, <1>0 DEF CandidatesArrive, statistics,
           storedTeams, formVars, pageVars, WeeklyKinds, WeeklyTypes, WeeklyInv
    <2>4. content' \in TeamLists
        BY WeeklyAssumption, EmptyIsApart, <1>k, <1>0 DEF CandidatesArrive, statistics,
           storedTeams, formVars, pageVars, WeeklyKinds, WeeklyTypes, WeeklyInv, TeamLists,
           AskedFor, NotLoaded
    <2>5. candidates' \in RowLists
        BY WeeklyAssumption, EmptyIsApart, <1>k, <1>0 DEF CandidatesArrive, statistics,
           storedTeams, formVars, pageVars, WeeklyKinds, WeeklyTypes, WeeklyInv, RowLists,
           AskedFor, NotLoaded, RoundRows
    <2>6. savedTeams' \in [WeekRounds -> Quintets]
        BY WeeklyAssumption, EmptyIsApart, <1>k, <1>0 DEF CandidatesArrive, statistics,
           storedTeams, formVars, pageVars, WeeklyKinds, WeeklyTypes, WeeklyInv, Quintets
    <2>7. five' \in Fives /\ showAtHome' \in BOOLEAN /\ dirty' \in BOOLEAN
        BY <1>k, <1>u DEF CandidatesArrive, Quintets, WeeklyTypes
    <2>8. weekSave' \in QuintetSaves
        BY WeeklyAssumption, EmptyIsApart, <1>k, <1>0 DEF CandidatesArrive, statistics,
           storedTeams, formVars, pageVars, WeeklyKinds, WeeklyTypes, WeeklyInv,
           QuintetSaves, NotSavingFive, LoadsInOrder, IsEditing, NotLoaded
    <2>9. QED
        BY <2>1, <2>2, <2>3, <2>4, <2>5, <2>6, <2>7, <2>8 DEF WeeklyTypes
<1>2. LoadsInOrder'
    BY WeeklyAssumption, EmptyIsApart, <1>k, <1>0 DEF WeeklyInv, CandidatesArrive,
       statistics, storedTeams, formVars, pageVars, WeeklyKinds, LoadsInOrder, NotLoaded,
       AskedFor
<1>3. StoredApart'
    BY WeeklyAssumption, EmptyIsApart, <1>k, <1>0 DEF WeeklyInv, CandidatesArrive,
       statistics, storedTeams, formVars, pageVars, WeeklyKinds, StoredApart, TeamsApart,
       AskedFor, NotLoaded, Stores, WeeklyTypes, Quintets
<1>4. FormApart'
    <2>1. candidates'.rows = candidates.rows
        <3>1. candidates \in [phase : {"answered", "loaded"}, rows : SUBSET WeekRows]
            BY <1>k DEF CandidatesArrive, WeeklyTypes, RowLists, NotLoaded, AskedFor
        <3>2. QED
            BY <3>1 DEF CandidatesArrive
    <2>2. QED
        BY <1>0, <1>t, <1>u, <2>1, ApartIsApart DEF FormApart
<1>5. SaveIsOfTheForm'
    BY WeeklyAssumption, EmptyIsApart, <1>k, <1>0 DEF WeeklyInv, CandidatesArrive,
       statistics, storedTeams, formVars, pageVars, WeeklyKinds, SaveIsOfTheForm, Saving,
       IsEditing, NotSavingFive, NotLoaded, AskedFor
<1>6. PublishedHavePlayed'
    BY WeeklyAssumption, EmptyIsApart, <1>k, <1>0 DEF WeeklyInv, CandidatesArrive,
       statistics, storedTeams, formVars, pageVars, WeeklyKinds, PublishedHavePlayed,
       RoundRows, WeeklyTypes, Stores, Quintets
<1>7. UnsavedChangesAreKnown'
    BY <1>u DEF UnsavedChangesAreKnown
<1>8. QED
    BY <1>1, <1>2, <1>3, <1>4, <1>5, <1>6, <1>7 DEF WeeklyInv

LEMMA ChoosePlayerKeeps ==
  ASSUME WeeklyInv, NEW p \in WeekRoles, NEW k \in PickKeys, ChoosePlayer(p, k)
  PROVE  WeeklyInv'
<1>k. WeeklyKinds /\ WeeklyTypes
    BY WeeklyParts DEF WeeklyInv
<1>1. WeeklyTypes'
    <2>1. statRows' \subseteq WeekRows /\ rowChanges' \in 0..LastChange
        BY WeeklyAssumption, EmptyIsApart, <1>k DEF ChoosePlayer, statistics, storedTeams,
           formVars, pageVars, WeeklyKinds, WeeklyTypes, WeeklyInv
    <2>2. weekly' \in [WeekRounds -> Quintets] /\ quintets' \in Nat
        BY WeeklyAssumption, EmptyIsApart, <1>k DEF ChoosePlayer, statistics, storedTeams,
           formVars, pageVars, WeeklyKinds, WeeklyTypes, WeeklyInv, Stores, Quintets, Fives
    <2>3. weekRound' \in WeekRounds \cup {0} /\ weekVisits' \in 0..LastWeekVisit
        BY WeeklyAssumption, EmptyIsApart, <1>k DEF ChoosePlayer, statistics, storedTeams,
           formVars, pageVars, WeeklyKinds, WeeklyTypes, WeeklyInv
    <2>4. content' \in TeamLists
        BY WeeklyAssumption, EmptyIsApart, <1>k DEF ChoosePlayer, statistics, storedTeams,
           formVars, pageVars, WeeklyKinds, WeeklyTypes, WeeklyInv, TeamLists, AskedFor,
           NotLoaded
    <2>5. candidates' \in RowLists
        BY WeeklyAssumption, EmptyIsApart, <1>k DEF ChoosePlayer, statistics, storedTeams,
           formVars, pageVars, WeeklyKinds, WeeklyTypes, WeeklyInv, RowLists, AskedFor,
           NotLoaded, RoundRows
    <2>6. savedTeams' \in [WeekRounds -> Quintets]
        BY WeeklyAssumption, EmptyIsApart, <1>k DEF ChoosePlayer, statistics, storedTeams,
           formVars, pageVars, WeeklyKinds, WeeklyTypes, WeeklyInv, Quintets
    <2>7. five' \in Fives /\ showAtHome' \in BOOLEAN /\ dirty' \in BOOLEAN
        BY WeeklyAssumption, EmptyIsApart, <1>k DEF ChoosePlayer, statistics, storedTeams,
           formVars, pageVars, WeeklyKinds, WeeklyTypes, WeeklyInv, EmptyForm, Fives
    <2>8. weekSave' \in QuintetSaves
        BY WeeklyAssumption, EmptyIsApart, <1>k DEF ChoosePlayer, statistics, storedTeams,
           formVars, pageVars, WeeklyKinds, WeeklyTypes, WeeklyInv, QuintetSaves,
           NotSavingFive, LoadsInOrder, IsEditing, NotLoaded
    <2>9. QED
        BY <2>1, <2>2, <2>3, <2>4, <2>5, <2>6, <2>7, <2>8 DEF WeeklyTypes
<1>2. LoadsInOrder'
    BY WeeklyAssumption, EmptyIsApart, <1>k DEF WeeklyInv, ChoosePlayer, statistics,
       storedTeams, formVars, pageVars, WeeklyKinds, LoadsInOrder, NotLoaded, AskedFor
<1>3. StoredApart'
    BY WeeklyAssumption, EmptyIsApart, <1>k DEF WeeklyInv, ChoosePlayer, statistics,
       storedTeams, formVars, pageVars, WeeklyKinds, StoredApart, TeamsApart, AskedFor,
       NotLoaded, Stores, WeeklyTypes, Quintets
<1>4. FormApart'
    <2>1. /\ IsEditing /\ UNCHANGED candidates /\ five' = [five EXCEPT ![p] = k]
          /\ k = NoChoice \/ MemberOf[k.player] \notin TakenMembers(p)
        BY DEF ChoosePlayer, pageVars
    <2>2. candidates.rows \subseteq WeekRows
        BY <1>k, <2>1 DEF WeeklyKinds, IsEditing
    <2>3. NoChoice \notin CandidatesOf(candidates.rows)
        BY <2>2, CandidatesAreKeys
    <2>4. \A q \in WeekRoles : q # p /\ five[q] \in CandidatesOf(candidates.rows)
                                => MemberOf[five[q].player] \in TakenMembers(p)
        BY DEF TakenMembers
    <2>5. five'[p] = k /\ \A q \in WeekRoles : q # p => five'[q] = five[q]
        BY <1>k, <2>1 DEF WeeklyTypes, Fives
    <2>6. SUFFICES ASSUME NEW x \in WeekRoles, NEW y \in WeekRoles, x # y,
                          five'[x] \in CandidatesOf(candidates.rows),
                          five'[y] \in CandidatesOf(candidates.rows),
                          MemberOf[five'[x].player] = MemberOf[five'[y].player]
                   PROVE  FALSE
        BY <2>1 DEF FormApart
    <2>7. CASE x = p
        BY <2>1, <2>3, <2>4, <2>5, <2>6, <2>7
    <2>8. CASE y = p
        BY <2>1, <2>3, <2>4, <2>5, <2>6, <2>8
    <2>9. CASE x # p /\ y # p
        BY <2>1, <2>5, <2>6, <2>9 DEF WeeklyInv, FormApart
    <2>10. QED
        BY <2>7, <2>8, <2>9
<1>5. SaveIsOfTheForm'
    BY WeeklyAssumption, EmptyIsApart, <1>k DEF WeeklyInv, ChoosePlayer, statistics,
       storedTeams, formVars, pageVars, WeeklyKinds, SaveIsOfTheForm, Saving, IsEditing,
       NotSavingFive, NotLoaded, AskedFor
<1>6. PublishedHavePlayed'
    BY WeeklyAssumption, EmptyIsApart, <1>k DEF WeeklyInv, ChoosePlayer, statistics,
       storedTeams, formVars, pageVars, WeeklyKinds, PublishedHavePlayed, RoundRows,
       WeeklyTypes, Stores, Quintets
<1>7. UnsavedChangesAreKnown'
    BY WeeklyAssumption, EmptyIsApart, <1>k DEF WeeklyInv, ChoosePlayer, statistics,
       storedTeams, formVars, pageVars, WeeklyKinds, UnsavedChangesAreKnown, IsEditing,
       EmptyForm, NotLoaded, AskedFor
<1>8. QED
    BY <1>1, <1>2, <1>3, <1>4, <1>5, <1>6, <1>7 DEF WeeklyInv

LEMMA ShowAtHomeKeeps ==
  ASSUME WeeklyInv, ShowAtHome
  PROVE  WeeklyInv'
<1>k. WeeklyKinds /\ WeeklyTypes
    BY WeeklyParts DEF WeeklyInv
<1>1. WeeklyTypes'
    <2>1. statRows' \subseteq WeekRows /\ rowChanges' \in 0..LastChange
        BY WeeklyAssumption, EmptyIsApart, <1>k DEF ShowAtHome, statistics, storedTeams,
           formVars, pageVars, WeeklyKinds, WeeklyTypes, WeeklyInv
    <2>2. weekly' \in [WeekRounds -> Quintets] /\ quintets' \in Nat
        BY WeeklyAssumption, EmptyIsApart, <1>k DEF ShowAtHome, statistics, storedTeams,
           formVars, pageVars, WeeklyKinds, WeeklyTypes, WeeklyInv, Stores, Quintets, Fives
    <2>3. weekRound' \in WeekRounds \cup {0} /\ weekVisits' \in 0..LastWeekVisit
        BY WeeklyAssumption, EmptyIsApart, <1>k DEF ShowAtHome, statistics, storedTeams,
           formVars, pageVars, WeeklyKinds, WeeklyTypes, WeeklyInv
    <2>4. content' \in TeamLists
        BY WeeklyAssumption, EmptyIsApart, <1>k DEF ShowAtHome, statistics, storedTeams,
           formVars, pageVars, WeeklyKinds, WeeklyTypes, WeeklyInv, TeamLists, AskedFor,
           NotLoaded
    <2>5. candidates' \in RowLists
        BY WeeklyAssumption, EmptyIsApart, <1>k DEF ShowAtHome, statistics, storedTeams,
           formVars, pageVars, WeeklyKinds, WeeklyTypes, WeeklyInv, RowLists, AskedFor,
           NotLoaded, RoundRows
    <2>6. savedTeams' \in [WeekRounds -> Quintets]
        BY WeeklyAssumption, EmptyIsApart, <1>k DEF ShowAtHome, statistics, storedTeams,
           formVars, pageVars, WeeklyKinds, WeeklyTypes, WeeklyInv, Quintets
    <2>7. five' \in Fives /\ showAtHome' \in BOOLEAN /\ dirty' \in BOOLEAN
        BY WeeklyAssumption, EmptyIsApart, <1>k DEF ShowAtHome, statistics, storedTeams,
           formVars, pageVars, WeeklyKinds, WeeklyTypes, WeeklyInv, EmptyForm, Fives
    <2>8. weekSave' \in QuintetSaves
        BY WeeklyAssumption, EmptyIsApart, <1>k DEF ShowAtHome, statistics, storedTeams,
           formVars, pageVars, WeeklyKinds, WeeklyTypes, WeeklyInv, QuintetSaves,
           NotSavingFive, LoadsInOrder, IsEditing, NotLoaded
    <2>9. QED
        BY <2>1, <2>2, <2>3, <2>4, <2>5, <2>6, <2>7, <2>8 DEF WeeklyTypes
<1>2. LoadsInOrder'
    BY WeeklyAssumption, EmptyIsApart, <1>k DEF WeeklyInv, ShowAtHome, statistics,
       storedTeams, formVars, pageVars, WeeklyKinds, LoadsInOrder, NotLoaded, AskedFor
<1>3. StoredApart'
    BY WeeklyAssumption, EmptyIsApart, <1>k DEF WeeklyInv, ShowAtHome, statistics,
       storedTeams, formVars, pageVars, WeeklyKinds, StoredApart, TeamsApart, AskedFor,
       NotLoaded, Stores, WeeklyTypes, Quintets
<1>4. FormApart'
    BY WeeklyAssumption, EmptyIsApart, <1>k DEF WeeklyInv, ShowAtHome, statistics,
       storedTeams, formVars, pageVars, WeeklyKinds, FormApart, IsEditing, AskedFor,
       NotLoaded, EmptyForm, Saving, SaveIsOfTheForm
<1>5. SaveIsOfTheForm'
    BY WeeklyAssumption, EmptyIsApart, <1>k DEF WeeklyInv, ShowAtHome, statistics,
       storedTeams, formVars, pageVars, WeeklyKinds, SaveIsOfTheForm, Saving, IsEditing,
       NotSavingFive, NotLoaded, AskedFor
<1>6. PublishedHavePlayed'
    BY WeeklyAssumption, EmptyIsApart, <1>k DEF WeeklyInv, ShowAtHome, statistics,
       storedTeams, formVars, pageVars, WeeklyKinds, PublishedHavePlayed, RoundRows,
       WeeklyTypes, Stores, Quintets
<1>7. UnsavedChangesAreKnown'
    BY WeeklyAssumption, EmptyIsApart, <1>k DEF WeeklyInv, ShowAtHome, statistics,
       storedTeams, formVars, pageVars, WeeklyKinds, UnsavedChangesAreKnown, IsEditing,
       EmptyForm, NotLoaded, AskedFor
<1>8. QED
    BY <1>1, <1>2, <1>3, <1>4, <1>5, <1>6, <1>7 DEF WeeklyInv

LEMMA SubmitQuintetKeeps ==
  ASSUME WeeklyInv, SubmitQuintet
  PROVE  WeeklyInv'
<1>k. WeeklyKinds /\ WeeklyTypes
    BY WeeklyParts DEF WeeklyInv
<1>1. WeeklyTypes'
    <2>1. statRows' \subseteq WeekRows /\ rowChanges' \in 0..LastChange
        BY WeeklyAssumption, EmptyIsApart, <1>k DEF SubmitQuintet, statistics, storedTeams,
           formVars, pageVars, WeeklyKinds, WeeklyTypes, WeeklyInv
    <2>2. weekly' \in [WeekRounds -> Quintets] /\ quintets' \in Nat
        BY WeeklyAssumption, EmptyIsApart, <1>k DEF SubmitQuintet, statistics, storedTeams,
           formVars, pageVars, WeeklyKinds, WeeklyTypes, WeeklyInv, Stores, Quintets, Fives
    <2>3. weekRound' \in WeekRounds \cup {0} /\ weekVisits' \in 0..LastWeekVisit
        BY WeeklyAssumption, EmptyIsApart, <1>k DEF SubmitQuintet, statistics, storedTeams,
           formVars, pageVars, WeeklyKinds, WeeklyTypes, WeeklyInv
    <2>4. content' \in TeamLists
        BY WeeklyAssumption, EmptyIsApart, <1>k DEF SubmitQuintet, statistics, storedTeams,
           formVars, pageVars, WeeklyKinds, WeeklyTypes, WeeklyInv, TeamLists, AskedFor,
           NotLoaded
    <2>5. candidates' \in RowLists
        BY WeeklyAssumption, EmptyIsApart, <1>k DEF SubmitQuintet, statistics, storedTeams,
           formVars, pageVars, WeeklyKinds, WeeklyTypes, WeeklyInv, RowLists, AskedFor,
           NotLoaded, RoundRows
    <2>6. savedTeams' \in [WeekRounds -> Quintets]
        BY WeeklyAssumption, EmptyIsApart, <1>k DEF SubmitQuintet, statistics, storedTeams,
           formVars, pageVars, WeeklyKinds, WeeklyTypes, WeeklyInv, Quintets
    <2>7. five' \in Fives /\ showAtHome' \in BOOLEAN /\ dirty' \in BOOLEAN
        BY WeeklyAssumption, EmptyIsApart, <1>k DEF SubmitQuintet, statistics, storedTeams,
           formVars, pageVars, WeeklyKinds, WeeklyTypes, WeeklyInv, EmptyForm, Fives
    <2>8. weekSave' \in QuintetSaves
        BY WeeklyAssumption, EmptyIsApart, <1>k DEF SubmitQuintet, statistics, storedTeams,
           formVars, pageVars, WeeklyKinds, WeeklyTypes, WeeklyInv, QuintetSaves,
           NotSavingFive, LoadsInOrder, IsEditing, NotLoaded
    <2>9. QED
        BY <2>1, <2>2, <2>3, <2>4, <2>5, <2>6, <2>7, <2>8 DEF WeeklyTypes
<1>2. LoadsInOrder'
    BY WeeklyAssumption, EmptyIsApart, <1>k DEF WeeklyInv, SubmitQuintet, statistics,
       storedTeams, formVars, pageVars, WeeklyKinds, LoadsInOrder, NotLoaded, AskedFor
<1>3. StoredApart'
    BY WeeklyAssumption, EmptyIsApart, <1>k DEF WeeklyInv, SubmitQuintet, statistics,
       storedTeams, formVars, pageVars, WeeklyKinds, StoredApart, TeamsApart, AskedFor,
       NotLoaded, Stores, WeeklyTypes, Quintets
<1>4. FormApart'
    BY WeeklyAssumption, EmptyIsApart, <1>k DEF WeeklyInv, SubmitQuintet, statistics,
       storedTeams, formVars, pageVars, WeeklyKinds, FormApart, IsEditing, AskedFor,
       NotLoaded, EmptyForm, Saving, SaveIsOfTheForm
<1>5. SaveIsOfTheForm'
    <2>1. /\ weekSave'.five = five /\ weekSave'.round = weekRound /\ IsEditing
          /\ UNCHANGED <<candidates, weekRound>>
        BY DEF SubmitQuintet, pageVars
    <2>2. \A p \in WeekRoles : five[p] \in PlayedAt(p, candidates.rows)
        BY DEF SubmitQuintet, CanSubmit
    <2>3. \A p \in WeekRoles : five[p] \in CandidatesOf(candidates.rows)
        BY <2>2 DEF PlayedAt
    <2>4. MembersApart(five)
        BY <2>1, <2>3 DEF WeeklyInv, FormApart, MembersApart
    <2>5. QED
        BY <2>1, <2>2, <2>4 DEF SaveIsOfTheForm, IsEditing
<1>6. PublishedHavePlayed'
    BY WeeklyAssumption, EmptyIsApart, <1>k DEF WeeklyInv, SubmitQuintet, statistics,
       storedTeams, formVars, pageVars, WeeklyKinds, PublishedHavePlayed, RoundRows,
       WeeklyTypes, Stores, Quintets
<1>7. UnsavedChangesAreKnown'
    BY WeeklyAssumption, EmptyIsApart, <1>k DEF WeeklyInv, SubmitQuintet, statistics,
       storedTeams, formVars, pageVars, WeeklyKinds, UnsavedChangesAreKnown, IsEditing,
       EmptyForm, NotLoaded, AskedFor
<1>8. QED
    BY <1>1, <1>2, <1>3, <1>4, <1>5, <1>6, <1>7 DEF WeeklyInv

LEMMA ServerSavesQuintetKeeps ==
  ASSUME WeeklyInv, ServerSavesQuintet
  PROVE  WeeklyInv'
<1>k. WeeklyKinds /\ WeeklyTypes
    BY WeeklyParts DEF WeeklyInv
<1>0. /\ weekSave # NotSavingFive /\ MembersApart(weekSave.five)
      /\ \/ ValidFive(weekSave.five, weekSave.round) /\ Stores(weekSave.round, weekSave.five, weekSave.published)
         \/ UNCHANGED storedTeams
      /\ \/ weekSave' = NotSavingFive
         \/ weekSave.phase = "sent" /\ weekSave' = [weekSave EXCEPT !.phase = "saved", !.number = quintets + 1]
         \/ weekSave.phase = "sent" /\ weekSave' = [weekSave EXCEPT !.phase = "refused"]
      /\ UNCHANGED <<statistics, pageVars, formVars>>
    <2>1. weekSave # NotSavingFive /\ MembersApart(weekSave.five)
        BY DEF ServerSavesQuintet, NotSavingFive, WeeklyInv, SaveIsOfTheForm
    <2>2. QED
        BY <2>1 DEF ServerSavesQuintet
<1>s. weekSave' # NotSavingFive =>
        /\ weekSave.phase = "sent" /\ weekSave'.phase \in {"saved", "refused"}
        /\ weekSave'.round = weekSave.round /\ weekSave'.five = weekSave.five
        /\ weekSave'.published = weekSave.published /\ weekSave' \in QuintetSaves
    <2>1. weekSave \in [phase : {"sent", "left", "saved", "refused"}, round : WeekRounds,
                        five : Fives, published : BOOLEAN, number : Nat]
        BY <1>0, <1>k DEF WeeklyTypes, QuintetSaves
    <2>2. quintets + 1 \in Nat
        BY <1>k DEF WeeklyTypes
    <2>3. QED
        BY <1>0, <2>1, <2>2 DEF QuintetSaves
<1>w. \/ /\ ValidFive(weekSave.five, weekSave.round) /\ quintets' = quintets + 1
         /\ \A s \in WeekRounds :
              /\ s = weekSave.round => /\ weekly'[s].players = weekSave.five
                                       /\ weekly'[s].published = weekSave.published
              /\ s # weekSave.round => weekly'[s] = weekly[s]
         /\ weekly' \in [WeekRounds -> Quintets]
      \/ UNCHANGED <<weekly, quintets>>
    <2>1. CASE UNCHANGED storedTeams
        BY <2>1 DEF storedTeams
    <2>2. CASE Stores(weekSave.round, weekSave.five, weekSave.published)
               /\ ValidFive(weekSave.five, weekSave.round)
        <3> DEFINE t == [number |-> quintets + 1, published |-> weekSave.published, players |-> weekSave.five]
        <3>1. t \in Quintets /\ t.players = weekSave.five /\ t.published = weekSave.published
            BY <1>0, <1>k DEF WeeklyKinds, WeeklyTypes, Quintets
        <3>2. weekly' = [weekly EXCEPT ![weekSave.round] = t] /\ quintets' = quintets + 1
            BY <2>2 DEF Stores
        <3> HIDE DEF t
        <3>3. weekly \in [WeekRounds -> Quintets] /\ weekSave.round \in WeekRounds
            BY <1>0, <1>k DEF WeeklyKinds, WeeklyTypes
        <3>4. QED
            BY <2>2, <3>1, <3>2, <3>3
    <2>3. QED
        BY <1>0, <2>1, <2>2
<1>1. WeeklyTypes'
    <2>1. statRows' \subseteq WeekRows /\ rowChanges' \in 0..LastChange
        BY WeeklyAssumption, EmptyIsApart, <1>k, <1>0 DEF ServerSavesQuintet, statistics,
           storedTeams, formVars, pageVars, WeeklyKinds, WeeklyTypes, WeeklyInv
    <2>2. weekly' \in [WeekRounds -> Quintets] /\ quintets' \in Nat
        BY <1>w, <1>k DEF WeeklyTypes
    <2>3. weekRound' \in WeekRounds \cup {0} /\ weekVisits' \in 0..LastWeekVisit
        BY WeeklyAssumption, EmptyIsApart, <1>k, <1>0 DEF ServerSavesQuintet, statistics,
           storedTeams, formVars, pageVars, WeeklyKinds, WeeklyTypes, WeeklyInv
    <2>4. content' \in TeamLists
        BY WeeklyAssumption, EmptyIsApart, <1>k, <1>0 DEF ServerSavesQuintet, statistics,
           storedTeams, formVars, pageVars, WeeklyKinds, WeeklyTypes, WeeklyInv, TeamLists,
           AskedFor, NotLoaded
    <2>5. candidates' \in RowLists
        BY WeeklyAssumption, EmptyIsApart, <1>k, <1>0 DEF ServerSavesQuintet, statistics,
           storedTeams, formVars, pageVars, WeeklyKinds, WeeklyTypes, WeeklyInv, RowLists,
           AskedFor, NotLoaded, RoundRows
    <2>6. savedTeams' \in [WeekRounds -> Quintets]
        BY WeeklyAssumption, EmptyIsApart, <1>k, <1>0 DEF ServerSavesQuintet, statistics,
           storedTeams, formVars, pageVars, WeeklyKinds, WeeklyTypes, WeeklyInv, Quintets
    <2>7. five' \in Fives /\ showAtHome' \in BOOLEAN /\ dirty' \in BOOLEAN
        BY WeeklyAssumption, EmptyIsApart, <1>k, <1>0 DEF ServerSavesQuintet, statistics,
           storedTeams, formVars, pageVars, WeeklyKinds, WeeklyTypes, WeeklyInv, EmptyForm,
           Fives
    <2>8. weekSave' \in QuintetSaves
        BY <1>s DEF QuintetSaves
    <2>9. QED
        BY <2>1, <2>2, <2>3, <2>4, <2>5, <2>6, <2>7, <2>8 DEF WeeklyTypes
<1>2. LoadsInOrder'
    BY WeeklyAssumption, EmptyIsApart, <1>k, <1>0 DEF WeeklyInv, ServerSavesQuintet,
       statistics, storedTeams, formVars, pageVars, WeeklyKinds, LoadsInOrder, NotLoaded,
       AskedFor
<1>3. StoredApart'
    <2>1. \A s \in WeekRounds : MembersApart(weekly'[s].players)
        BY <1>0, <1>w DEF WeeklyInv, StoredApart, TeamsApart
    <2>2. UNCHANGED <<savedTeams, content>>
        BY <1>0 DEF pageVars
    <2>3. QED
        BY <2>1, <2>2 DEF WeeklyInv, StoredApart, TeamsApart
<1>4. FormApart'
    BY WeeklyAssumption, EmptyIsApart, <1>k, <1>0 DEF WeeklyInv, ServerSavesQuintet,
       statistics, storedTeams, formVars, pageVars, WeeklyKinds, FormApart, IsEditing,
       AskedFor, NotLoaded, EmptyForm, Saving, SaveIsOfTheForm
<1>5. SaveIsOfTheForm'
    <2>1. UNCHANGED <<weekRound, candidates>>
        BY <1>0 DEF pageVars
    <2>2. weekSave.phase = "sent" => Saving
        BY DEF Saving
    <2>3. CASE weekSave' = NotSavingFive
        BY <2>3 DEF SaveIsOfTheForm, Saving, NotSavingFive
    <2>4. CASE weekSave' # NotSavingFive
        BY <1>0, <1>s, <2>1, <2>2, <2>4 DEF WeeklyInv, SaveIsOfTheForm, IsEditing
    <2>5. QED
        BY <2>3, <2>4
<1>6. PublishedHavePlayed'
    <2>2. UNCHANGED <<statRows, rowChanges>>
        BY <1>0 DEF statistics
    <2>3. \A s \in WeekRounds : RoundRows(s)' = RoundRows(s)
        BY <2>2 DEF RoundRows
    <2>4. ValidFive(weekSave.five, weekSave.round) =>
            \A p \in WeekRoles : weekSave.five[p] \in PlayedAt(p, RoundRows(weekSave.round))
        BY DEF ValidFive
    <2>5. QED
        BY <1>w, <2>2, <2>3, <2>4 DEF WeeklyInv, PublishedHavePlayed
<1>7. UnsavedChangesAreKnown'
    BY WeeklyAssumption, EmptyIsApart, <1>k, <1>0 DEF WeeklyInv, ServerSavesQuintet,
       statistics, storedTeams, formVars, pageVars, WeeklyKinds, UnsavedChangesAreKnown,
       IsEditing, EmptyForm, NotLoaded, AskedFor
<1>8. QED
    BY <1>1, <1>2, <1>3, <1>4, <1>5, <1>6, <1>7 DEF WeeklyInv

LEMMA QuintetSavedKeeps ==
  ASSUME WeeklyInv, QuintetSaved
  PROVE  WeeklyInv'
<1>k. WeeklyKinds /\ WeeklyTypes
    BY WeeklyParts DEF WeeklyInv
<1>0. /\ weekSave # NotSavingFive /\ Saving /\ weekSave.round \in WeekRounds
      /\ weekSave.five \in Fives /\ weekSave.published \in BOOLEAN /\ weekSave.number \in Nat
      /\ MembersApart(weekSave.five)
    BY <1>k DEF QuintetSaved, Saving, NotSavingFive, WeeklyKinds, WeeklyInv, SaveIsOfTheForm
<1> DEFINE t == [number |-> weekSave.number, published |-> weekSave.published, players |-> weekSave.five]
<1>t. t \in Quintets /\ t.players = weekSave.five
    BY <1>0 DEF Quintets
<1>u. savedTeams' = [savedTeams EXCEPT ![weekSave.round] = t]
    BY DEF QuintetSaved
<1> HIDE DEF t
<1>1. WeeklyTypes'
    <2>1. statRows' \subseteq WeekRows /\ rowChanges' \in 0..LastChange
        BY WeeklyAssumption, EmptyIsApart, <1>k, <1>0 DEF QuintetSaved, statistics,
           storedTeams, formVars, pageVars, WeeklyKinds, WeeklyTypes, WeeklyInv
    <2>2. weekly' \in [WeekRounds -> Quintets] /\ quintets' \in Nat
        BY WeeklyAssumption, EmptyIsApart, <1>k, <1>0 DEF QuintetSaved, statistics,
           storedTeams, formVars, pageVars, WeeklyKinds, WeeklyTypes, WeeklyInv, Stores,
           Quintets, Fives
    <2>3. weekRound' \in WeekRounds \cup {0} /\ weekVisits' \in 0..LastWeekVisit
        BY WeeklyAssumption, EmptyIsApart, <1>k, <1>0 DEF QuintetSaved, statistics,
           storedTeams, formVars, pageVars, WeeklyKinds, WeeklyTypes, WeeklyInv
    <2>4. content' \in TeamLists
        BY WeeklyAssumption, EmptyIsApart, <1>k, <1>0 DEF QuintetSaved, statistics,
           storedTeams, formVars, pageVars, WeeklyKinds, WeeklyTypes, WeeklyInv, TeamLists,
           AskedFor, NotLoaded
    <2>5. candidates' \in RowLists
        BY WeeklyAssumption, EmptyIsApart, <1>k, <1>0 DEF QuintetSaved, statistics,
           storedTeams, formVars, pageVars, WeeklyKinds, WeeklyTypes, WeeklyInv, RowLists,
           AskedFor, NotLoaded, RoundRows
    <2>6. savedTeams' \in [WeekRounds -> Quintets]
        BY <1>k, <1>0, <1>t, <1>u DEF WeeklyTypes
    <2>7. five' \in Fives /\ showAtHome' \in BOOLEAN /\ dirty' \in BOOLEAN
        BY <1>0 DEF QuintetSaved
    <2>8. weekSave' \in QuintetSaves
        BY WeeklyAssumption, EmptyIsApart, <1>k, <1>0 DEF QuintetSaved, statistics,
           storedTeams, formVars, pageVars, WeeklyKinds, WeeklyTypes, WeeklyInv,
           QuintetSaves, NotSavingFive, LoadsInOrder, IsEditing, NotLoaded
    <2>9. QED
        BY <2>1, <2>2, <2>3, <2>4, <2>5, <2>6, <2>7, <2>8 DEF WeeklyTypes
<1>2. LoadsInOrder'
    BY WeeklyAssumption, EmptyIsApart, <1>k, <1>0 DEF WeeklyInv, QuintetSaved, statistics,
       storedTeams, formVars, pageVars, WeeklyKinds, LoadsInOrder, NotLoaded, AskedFor
<1>3. StoredApart'
    <2>1. \A s \in WeekRounds : savedTeams'[s] = t \/ savedTeams'[s] = savedTeams[s]
        BY <1>k, <1>u DEF WeeklyTypes
    <2>2. \A s \in WeekRounds : MembersApart(savedTeams'[s].players)
        BY <1>0, <1>t, <2>1 DEF WeeklyInv, StoredApart, TeamsApart
    <2>3. UNCHANGED <<weekly, content>>
        BY DEF QuintetSaved, storedTeams
    <2>4. QED
        BY <2>2, <2>3 DEF WeeklyInv, StoredApart, TeamsApart
<1>4. FormApart'
    <2>1. five' = weekSave.five /\ candidates' = candidates
        BY DEF QuintetSaved
    <2>2. IsEditing => candidates.rows \subseteq WeekRows
        BY <1>k DEF WeeklyKinds, IsEditing
    <2>3. QED
        BY <1>0, <2>1, <2>2, ApartIsApart DEF FormApart, IsEditing
<1>5. SaveIsOfTheForm'
    BY WeeklyAssumption, EmptyIsApart, <1>k, <1>0 DEF WeeklyInv, QuintetSaved, statistics,
       storedTeams, formVars, pageVars, WeeklyKinds, SaveIsOfTheForm, Saving, IsEditing,
       NotSavingFive, NotLoaded, AskedFor
<1>6. PublishedHavePlayed'
    BY WeeklyAssumption, EmptyIsApart, <1>k, <1>0 DEF WeeklyInv, QuintetSaved, statistics,
       storedTeams, formVars, pageVars, WeeklyKinds, PublishedHavePlayed, RoundRows,
       WeeklyTypes, Stores, Quintets
<1>7. UnsavedChangesAreKnown'
    BY WeeklyAssumption, EmptyIsApart, <1>k, <1>0 DEF WeeklyInv, QuintetSaved, statistics,
       storedTeams, formVars, pageVars, WeeklyKinds, UnsavedChangesAreKnown, IsEditing,
       EmptyForm, NotLoaded, AskedFor
<1>8. QED
    BY <1>1, <1>2, <1>3, <1>4, <1>5, <1>6, <1>7 DEF WeeklyInv

LEMMA QuintetFailsKeeps ==
  ASSUME WeeklyInv, QuintetFails
  PROVE  WeeklyInv'
<1>k. WeeklyKinds /\ WeeklyTypes
    BY WeeklyParts DEF WeeklyInv
<1>1. WeeklyTypes'
    <2>1. statRows' \subseteq WeekRows /\ rowChanges' \in 0..LastChange
        BY WeeklyAssumption, EmptyIsApart, <1>k DEF QuintetFails, statistics, storedTeams,
           formVars, pageVars, WeeklyKinds, WeeklyTypes, WeeklyInv
    <2>2. weekly' \in [WeekRounds -> Quintets] /\ quintets' \in Nat
        BY WeeklyAssumption, EmptyIsApart, <1>k DEF QuintetFails, statistics, storedTeams,
           formVars, pageVars, WeeklyKinds, WeeklyTypes, WeeklyInv, Stores, Quintets, Fives
    <2>3. weekRound' \in WeekRounds \cup {0} /\ weekVisits' \in 0..LastWeekVisit
        BY WeeklyAssumption, EmptyIsApart, <1>k DEF QuintetFails, statistics, storedTeams,
           formVars, pageVars, WeeklyKinds, WeeklyTypes, WeeklyInv
    <2>4. content' \in TeamLists
        BY WeeklyAssumption, EmptyIsApart, <1>k DEF QuintetFails, statistics, storedTeams,
           formVars, pageVars, WeeklyKinds, WeeklyTypes, WeeklyInv, TeamLists, AskedFor,
           NotLoaded
    <2>5. candidates' \in RowLists
        BY WeeklyAssumption, EmptyIsApart, <1>k DEF QuintetFails, statistics, storedTeams,
           formVars, pageVars, WeeklyKinds, WeeklyTypes, WeeklyInv, RowLists, AskedFor,
           NotLoaded, RoundRows
    <2>6. savedTeams' \in [WeekRounds -> Quintets]
        BY WeeklyAssumption, EmptyIsApart, <1>k DEF QuintetFails, statistics, storedTeams,
           formVars, pageVars, WeeklyKinds, WeeklyTypes, WeeklyInv, Quintets
    <2>7. five' \in Fives /\ showAtHome' \in BOOLEAN /\ dirty' \in BOOLEAN
        BY WeeklyAssumption, EmptyIsApart, <1>k DEF QuintetFails, statistics, storedTeams,
           formVars, pageVars, WeeklyKinds, WeeklyTypes, WeeklyInv, EmptyForm, Fives
    <2>8. weekSave' \in QuintetSaves
        BY WeeklyAssumption, EmptyIsApart, <1>k DEF QuintetFails, statistics, storedTeams,
           formVars, pageVars, WeeklyKinds, WeeklyTypes, WeeklyInv, QuintetSaves,
           NotSavingFive, LoadsInOrder, IsEditing, NotLoaded
    <2>9. QED
        BY <2>1, <2>2, <2>3, <2>4, <2>5, <2>6, <2>7, <2>8 DEF WeeklyTypes
<1>2. LoadsInOrder'
    BY WeeklyAssumption, EmptyIsApart, <1>k DEF WeeklyInv, QuintetFails, statistics,
       storedTeams, formVars, pageVars, WeeklyKinds, LoadsInOrder, NotLoaded, AskedFor
<1>3. StoredApart'
    BY WeeklyAssumption, EmptyIsApart, <1>k DEF WeeklyInv, QuintetFails, statistics,
       storedTeams, formVars, pageVars, WeeklyKinds, StoredApart, TeamsApart, AskedFor,
       NotLoaded, Stores, WeeklyTypes, Quintets
<1>4. FormApart'
    BY WeeklyAssumption, EmptyIsApart, <1>k DEF WeeklyInv, QuintetFails, statistics,
       storedTeams, formVars, pageVars, WeeklyKinds, FormApart, IsEditing, AskedFor,
       NotLoaded, EmptyForm, Saving, SaveIsOfTheForm
<1>5. SaveIsOfTheForm'
    <2>1. weekSave # NotSavingFive /\ weekSave.five \in Fives
        BY <1>k DEF QuintetFails, WeeklyKinds
    <2>2. CASE weekSave' = NotSavingFive
        BY <2>2 DEF SaveIsOfTheForm, Saving, NotSavingFive
    <2>3. CASE weekSave' = [weekSave EXCEPT !.phase = "left"]
        <3>1. weekSave'.five = weekSave.five /\ weekSave'.phase = "left"
            BY <1>k, <2>1, <2>3 DEF WeeklyTypes, QuintetSaves
        <3>2. QED
            BY <2>1, <3>1 DEF WeeklyInv, SaveIsOfTheForm, Saving
    <2>4. QED
        BY <2>2, <2>3 DEF QuintetFails
<1>6. PublishedHavePlayed'
    BY WeeklyAssumption, EmptyIsApart, <1>k DEF WeeklyInv, QuintetFails, statistics,
       storedTeams, formVars, pageVars, WeeklyKinds, PublishedHavePlayed, RoundRows,
       WeeklyTypes, Stores, Quintets
<1>7. UnsavedChangesAreKnown'
    BY WeeklyAssumption, EmptyIsApart, <1>k DEF WeeklyInv, QuintetFails, statistics,
       storedTeams, formVars, pageVars, WeeklyKinds, UnsavedChangesAreKnown, IsEditing,
       EmptyForm, NotLoaded, AskedFor
<1>8. QED
    BY <1>1, <1>2, <1>3, <1>4, <1>5, <1>6, <1>7 DEF WeeklyInv

LEMMA WeeklyStarts == WeeklyInit => WeeklyInv
<1> SUFFICES ASSUME WeeklyInit PROVE WeeklyInv
    OBVIOUS
<1>1. weekly \in [WeekRounds -> Quintets] /\ savedTeams \in [WeekRounds -> Quintets] /\ five \in Fives
    BY EmptyIsApart DEF WeeklyInit
<1>2. WeeklyTypes
    <2>1. rowChanges \in 0..LastChange /\ weekVisits \in 0..LastWeekVisit /\ quintets \in Nat
        BY WeeklyAssumption DEF WeeklyInit
    <2>2. content \in TeamLists /\ candidates \in RowLists /\ weekSave \in QuintetSaves
        BY DEF WeeklyInit, TeamLists, RowLists, QuintetSaves
    <2>3. statRows \subseteq WeekRows /\ weekRound \in WeekRounds \cup {0}
          /\ showAtHome \in BOOLEAN /\ dirty \in BOOLEAN
        BY DEF WeeklyInit
    <2>4. QED
        BY <1>1, <2>1, <2>2, <2>3 DEF WeeklyTypes
<1>3. LoadsInOrder /\ FormApart /\ SaveIsOfTheForm /\ UnsavedChangesAreKnown
    BY DEF WeeklyInit, LoadsInOrder, FormApart, SaveIsOfTheForm, UnsavedChangesAreKnown, IsEditing,
       Saving, NotLoaded, NotSavingFive
<1>4. StoredApart /\ PublishedHavePlayed
    BY EmptyIsApart DEF WeeklyInit, StoredApart, TeamsApart, PublishedHavePlayed, NotLoaded
<1>5. QED
    BY <1>2, <1>3, <1>4 DEF WeeklyInv

LEMMA WeeklySteps == WeeklyInv /\ [WeeklyNext]_weeklyVars => WeeklyInv'
<1> SUFFICES ASSUME WeeklyInv, [WeeklyNext]_weeklyVars PROVE WeeklyInv'
    OBVIOUS
<1>1. ASSUME NEW r \in WeekRows, ChangeStatistics(r) PROVE WeeklyInv'
    BY <1>1, ChangeStatisticsKeeps
<1>2. ASSUME NEW r \in WeekRounds, OpenDivision(r) \/ ChangeRound(r) PROVE WeeklyInv'
    BY <1>2, OpenDivisionKeeps, ChangeRoundKeeps
<1>3. ASSUME NEW r \in WeekRounds, NEW players \in [WeekRoles -> PickKeys \ {NoChoice}],
             OthersSaveQuintet(r, players, TRUE)
      PROVE  WeeklyInv'
    BY <1>3, OthersSaveQuintetKeeps
<1>4. CASE ServerListsTeams \/ ContentArrives \/ ServerListsCandidates \/ CandidatesArrive \/ LeaveWeekly
    BY <1>4, ServerListsTeamsKeeps, ContentArrivesKeeps, ServerListsCandidatesKeeps,
       CandidatesArriveKeeps, LeaveWeeklyKeeps
<1>5. ASSUME NEW p \in WeekRoles, NEW k \in PickKeys, ChoosePlayer(p, k) PROVE WeeklyInv'
    BY <1>5, ChoosePlayerKeeps
<1>6. CASE ShowAtHome \/ SubmitQuintet \/ ServerSavesQuintet \/ QuintetSaved \/ QuintetFails
    BY <1>6, ShowAtHomeKeeps, SubmitQuintetKeeps, ServerSavesQuintetKeeps, QuintetSavedKeeps,
       QuintetFailsKeeps
<1>7. CASE UNCHANGED weeklyVars
    <2>1. UNCHANGED <<statRows, rowChanges, weekly, quintets, weekRound, weekVisits, content>>
          /\ UNCHANGED <<savedTeams, candidates, five, showAtHome, loadedFive, dirty, weekSave>>
        BY <1>7 DEF weeklyVars
    <2>2. WeeklyTypes' /\ LoadsInOrder' /\ StoredApart'
        BY <2>1 DEF WeeklyInv, WeeklyTypes, LoadsInOrder, StoredApart, TeamsApart
    <2>3. FormApart' /\ SaveIsOfTheForm' /\ UnsavedChangesAreKnown'
        BY <2>1 DEF WeeklyInv, FormApart, SaveIsOfTheForm, UnsavedChangesAreKnown, IsEditing, Saving
    <2>4. PublishedHavePlayed'
        <3>1. \A r \in WeekRounds : RoundRows(r)' = RoundRows(r)
            BY <2>1 DEF RoundRows
        <3>2. QED
            BY <2>1, <3>1 DEF WeeklyInv, PublishedHavePlayed
    <2>5. QED
        BY <2>2, <2>3, <2>4 DEF WeeklyInv
<1>8. QED
    BY <1>1, <1>2, <1>3, <1>4, <1>5, <1>6, <1>7 DEF WeeklyNext

\* Every variable of the weekly team keeps its type, for any rounds, rows,
\* positions and members.
THEOREM WeeklyTypesAreKept == WeeklySpec => []WeeklyTypeOK
<1>1. WeeklyInv => WeeklyTypeOK
    BY DEF WeeklyInv, WeeklyTypes, WeeklyTypeOK, Quintets, Fives, QuintetSaves, NotSavingFive
<1>2. QED
    BY <1>1, WeeklyStarts, WeeklySteps, PTL DEF WeeklySpec

\* The editor of a quintet always knows of changes that are not saved
\* (WeeklyRoundEditor.tsx).
THEOREM UnsavedQuintetsAreKnown == WeeklySpec => []UnsavedChangesAreKnown
<1>1. WeeklyInv => UnsavedChangesAreKnown
    BY DEF WeeklyInv
<1>2. QED
    BY <1>1, WeeklyStarts, WeeklySteps, PTL DEF WeeklySpec

\* What the selectors let through the checks of saveWeeklyTeam() accept, unless
\* the statistics of the round have changed since its candidates were loaded.
THEOREM EditorAgreesWithServer == WeeklySpec => EditorAndServerAgree
<1>1. WeeklyInv /\ [WeeklyNext]_weeklyVars =>
        [weekSave.phase = "sent" /\ weekSave'.phase = "refused" =>
           candidates.rows # RoundRows(weekSave.round)]_weeklyVars
    <2> SUFFICES ASSUME WeeklyInv, WeeklyNext, weekSave.phase = "sent", weekSave'.phase = "refused",
                        candidates.rows = RoundRows(weekSave.round)
                 PROVE  FALSE
        BY DEF weeklyVars
    <2>1. weekSave # NotSavingFive /\ Saving /\ weekSave' # weekSave
        BY DEF NotSavingFive, Saving
    <2>2. WeeklyKinds /\ weekSave \in QuintetSaves
        BY WeeklyParts DEF WeeklyInv, WeeklyTypes
    <2>3. ~ ValidFive(weekSave.five, weekSave.round)
        <3>1. weekSave' # NotSavingFive
            BY DEF NotSavingFive
        <3>2. weekSave' # [weekSave EXCEPT !.phase = "left"]
            <4>1. [weekSave EXCEPT !.phase = "left"].phase = "left"
                BY <2>1, <2>2 DEF QuintetSaves
            <4>2. QED
                BY <4>1
        <3>3. ~ SubmitQuintet /\ ~ QuintetSaved /\ ~ LeaveWeekly /\ ~ QuintetFails
            <4>1. ~ SubmitQuintet
                BY <2>1 DEF SubmitQuintet
            <4>2. ~ QuintetSaved /\ ~ LeaveWeekly
                BY <3>1, <3>2 DEF QuintetSaved, LeaveWeekly
            <4>3. ~ QuintetFails
                BY <3>1, <3>2 DEF QuintetFails
            <4>4. QED
                BY <4>1, <4>2, <4>3
        <3>4. ServerSavesQuintet
            BY <2>1, <3>3 DEF WeeklyNext, ChangeStatistics, OpenDivision, ChangeRound,
               OthersSaveQuintet, ServerListsTeams, ContentArrives, ServerListsCandidates,
               CandidatesArrive, ChoosePlayer, ShowAtHome
        <3>5. [weekSave EXCEPT !.phase = "saved", !.number = quintets + 1].phase = "saved"
            BY <2>1, <2>2 DEF QuintetSaves
        <3>6. QED
            BY <3>1, <3>4, <3>5 DEF ServerSavesQuintet
    <2>4. \A p \in WeekRoles : weekSave.five[p] \in PlayedAt(p, RoundRows(weekSave.round))
        BY <2>1 DEF WeeklyInv, SaveIsOfTheForm
    <2>5. \A p \in WeekRoles : weekSave.five[p] # NoChoice
        <3>1. RoundRows(weekSave.round) \subseteq WeekRows
            BY DEF WeeklyInv, WeeklyTypes, RoundRows
        <3>2. NoChoice \notin CandidatesOf(RoundRows(weekSave.round))
            BY <3>1, CandidatesAreKeys
        <3>3. QED
            BY <2>4, <3>2 DEF PlayedAt
    <2>6. MembersApart(weekSave.five)
        BY <2>1 DEF WeeklyInv, SaveIsOfTheForm
    <2>7. ValidFive(weekSave.five, weekSave.round)
        BY <2>4, <2>5, <2>6 DEF ValidFive, MembersApart
    <2>8. QED
        BY <2>3, <2>7
<1>2. QED
    BY <1>1, WeeklyStarts, WeeklySteps, PTL DEF WeeklySpec, EditorAndServerAgree

\* The home page shows a published quintet if there is one, with a champion for
\* every player while the statistics are those of its save (TeamOfTheWeekStrip.tsx).
THEOREM HomeShowsWhatIsPublished == WeeklySpec => []HomeShowsPublished
<1>1. WeeklyInv => HomeShowsPublished
    <2> SUFFICES ASSUME WeeklyInv, NEW chosen \in WeekRounds, PublishedRounds(weekly) # {}
                 PROVE  LET r == ShownRound(weekly, chosen) IN
                          /\ r \in PublishedRounds(weekly)
                          /\ rowChanges = 0 => \A p \in WeekRoles : ShownChampions(weekly, r)[p] # {}
        BY DEF HomeShowsPublished
    <2>1. PublishedRounds(weekly) \subseteq WeekRounds /\ WeekRounds \subseteq Nat
        BY WeeklyAssumption DEF PublishedRounds
    <2>2. \E r \in PublishedRounds(weekly) : \A s \in PublishedRounds(weekly) : s <= r
        BY <2>1, WeeklyAssumption, LastOfRounds
    <2>3. PICK r : r = ShownRound(weekly, chosen)
        OBVIOUS
    <2>4. r \in PublishedRounds(weekly)
        BY <2>2, <2>3 DEF ShownRound
    <2>5. ASSUME rowChanges = 0, NEW p \in WeekRoles PROVE ShownChampions(weekly, r)[p] # {}
        <3>1. weekly[r].players[p] \in PlayedAt(p, RoundRows(r))
            BY <2>4, <2>5 DEF WeeklyInv, PublishedHavePlayed, PublishedRounds
        <3>2. PICK s \in RoundRows(r) : HasChampion(s) /\ weekly[r].players[p] = [player |-> s.player, team |-> s.team]
            BY <3>1 DEF PlayedAt, CandidatesOf
        <3>3. s.champion \in ChampionsOf(weekly[r].players[p], RoundRows(r))
            BY <3>2 DEF ChampionsOf
        <3>4. QED
            BY <3>3 DEF ShownChampions
    <2>6. QED
        BY <2>3, <2>4, <2>5
<1>2. QED
    BY <1>1, WeeklyStarts, WeeklySteps, PTL DEF WeeklySpec
=============================================================================
