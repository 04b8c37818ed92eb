--------------------------- MODULE CrudOperations ---------------------------
(***************************************************************************)
(* The administrator's records: previewDelete() and mutate() of            *)
(* postgres-crud-operations.repository.ts with the deletion plan of        *)
(* postgres-crud-delete-plan.ts.                                           *)
(*                                                                         *)
(* A record refers to its parent by a foreign key with a rule for its      *)
(* deletion.  Its stamp is updatedAt, set by a trigger on every write, and *)
(* stands for its contents as well.  A step is a statement (for the plan,  *)
(* the queries of one level); what a transaction writes is seen when it    *)
(* commits.  Inserts of other modules behave like Creates.                 *)
(***************************************************************************)
EXTENDS Integers, FiniteSets

CONSTANTS Records, Parent, Rule,
          Stored,       \* the records that exist at first
          Actors,       \* members who send requests, one at a time
          LastStamp     \* bound on the writes

NoRecord == "no record"
Rules == {"cascade", "set null", "restrict"}

ASSUME CrudAssumption ==
  /\ NoRecord \notin Records
  /\ Parent \in [Records -> Records \cup {NoRecord}]
  /\ Rule \in [Records -> Rules] /\ LastStamp \in Nat \ {0}
  /\ Stored \subseteq Records
  /\ \A r \in Stored : Parent[r] \in Stored \cup {NoRecord}

VARIABLES stamp,      \* of each record
          lastStamp,
          owners,     \* members whose role is owner
          job,        \* the transaction of each member
          preview     \* the last preview each member was shown

crudVars == <<stamp, lastStamp, owners, job, preview>>

NotYet == 0
Removed == -1
NoJob == [kind |-> "none"]
NoPreview == [root |-> NoRecord, version |-> NotYet, effects |-> {}]

CrudInit ==
  /\ stamp = [r \in Records |-> IF r \in Stored THEN 1 ELSE NotYet]
  /\ lastStamp = 1
  /\ owners = Actors
  /\ job = [a \in Actors |-> NoJob]
  /\ preview = [a \in Actors |-> NoPreview]

Existing == {r \in Records : stamp[r] > 0}
\* A reference whose record is gone has been set to null.
Children(rs) == {r \in Existing : Parent[r] \in rs \cap Existing}
Cascading(rs) == {r \in Children(rs) : Rule[r] = "cascade"}

\* The least set with rs that has all that cascades from it.
Closure(rs) ==
  {r \in Records : \A c \in SUBSET Records : rs \cup Cascading(c) \subseteq c => r \in c}

(***************************************************************************)
(* Row locks.  A job locks its root, what it has deleted and the rows whose *)
(* reference it has cleared; an insertion locks the key of its parent,     *)
(* which an update or a deletion minds and the clearing of a field does    *)
(* not.                                                                    *)
(***************************************************************************)
Writing(b) == job[b].kind \in {"update", "delete", "cascade"} /\ job[b].step # "actor"
Locked(b) == IF Writing(b) THEN {job[b].root} \cup job[b].gone ELSE {}
Cleared(b) == IF Writing(b) THEN Children(job[b].gone) \ job[b].gone ELSE {}
KeyLocked(b) == IF job[b].kind = "create" THEN {Parent[job[b].root]} ELSE {}

KeyFree(a, r) == \A b \in Actors \ {a} : r \notin Locked(b)
FieldsFree(a, r) == \A b \in Actors \ {a} : r \notin Locked(b) \cup Cleared(b)
RowFree(a, r) == FieldsFree(a, r) /\ \A b \in Actors \ {a} : r \notin KeyLocked(b)

NewJob(a, j) == job' = [job EXCEPT ![a] = j]
JobEnds(a) == NewJob(a, NoJob)

\* Any error, the choice of a deadlock's victim included, rolls back.
Fails(a) ==
  /\ job[a] # NoJob
  /\ JobEnds(a)
  /\ UNCHANGED <<stamp, lastStamp, owners, preview>>

(***************************************************************************)
(* mutate(): creation and update.                                          *)
(***************************************************************************)
Creates(a, r) ==
  /\ job[a] = NoJob /\ stamp[r] = NotYet
  /\ \A b \in Actors : job[b].kind = "create" => job[b].root # r
  /\ Parent[r] # NoRecord => Parent[r] \in Existing /\ KeyFree(a, Parent[r])
  /\ NewJob(a, [kind |-> "create", root |-> r])
  /\ UNCHANGED <<stamp, lastStamp, owners, preview>>

Writes(a) ==
  /\ lastStamp < LastStamp
  /\ lastStamp' = lastStamp + 1
  /\ stamp' = [stamp EXCEPT ![job[a].root] = lastStamp + 1]
  /\ JobEnds(a)
  /\ UNCHANGED <<owners, preview>>

CreateCommits(a) == job[a].kind = "create" /\ Writes(a)

\* SELECT ... FOR UPDATE: the record must be the version the request names.
Current(r, v) == stamp[r] = v

OpensFor(a, kind, r, v, step) ==
  /\ r \in Existing /\ RowFree(a, r)
  /\ IF Current(r, v)
       THEN NewJob(a, [kind |-> kind, root |-> r, version |-> v, step |-> step, gone |-> {},
                       effects |-> {<<r, "delete", v>>}, frontier |-> {r},
                       at |-> lastStamp])
       ELSE JobEnds(a)
  /\ UNCHANGED <<stamp, lastStamp, owners, preview>>

Updates(a, r, v) == job[a] = NoJob /\ OpensFor(a, "update", r, v, "write")
Deletes(a, r, v) == job[a] = NoJob /\ OpensFor(a, "delete", r, v, "check")

UpdateCommits(a) == job[a].kind = "update" /\ Writes(a)

\* assertNoDependents(): any reference counts, whatever its rule.
AssertNoDependents(a) ==
  /\ job[a].kind = "delete" /\ job[a].step = "check"
  /\ IF Children({job[a].root}) = {}
       THEN NewJob(a, [job[a] EXCEPT !.step = "remove"])
       ELSE JobEnds(a)
  /\ UNCHANGED <<stamp, lastStamp, owners, preview>>

(***************************************************************************)
(* buildDeletePlan(), for a preview and for a confirmed deletion.          *)
(***************************************************************************)
\* lockDeletePlan() of a preview, and the record at the version it was listed.
Previews(a, r, v) ==
  /\ job[a] = NoJob /\ r \in Existing /\ Current(r, v)
  /\ NewJob(a, [kind |-> "preview", root |-> r, version |-> v, step |-> "plan", gone |-> {},
                effects |-> {<<r, "delete", v>>}, frontier |-> {r}])
  /\ UNCHANGED <<stamp, lastStamp, owners, preview>>

\* lockDeletePlan(): the member is an owner, and stays so until the commit.
Confirms(a) ==
  /\ job[a] = NoJob /\ preview[a] # NoPreview /\ a \in owners
  /\ NewJob(a, [kind |-> "cascade", root |-> preview[a].root, step |-> "actor"])
  /\ UNCHANGED <<stamp, lastStamp, owners, preview>>

OpensConfirmed(a) ==
  /\ job[a].kind = "cascade" /\ job[a].step = "actor"
  /\ OpensFor(a, "cascade", preview[a].root, preview[a].version, "plan")

Planned(a) == {e[1] : e \in {f \in job[a].effects : f[2] = "delete"}}
Found(rs, action) == {<<r, action, stamp[r]>> : r \in rs}

PlanLevel(a) ==
  /\ job[a].kind \in {"preview", "cascade"} /\ job[a].step = "plan"
  /\ LET next == Cascading(job[a].frontier) \ Planned(a)
     IN NewJob(a, [job[a] EXCEPT !.frontier = next, !.effects = @ \cup Found(next, "delete"),
                                 !.step = IF next = {} THEN "effects" ELSE "plan"])
  /\ UNCHANGED <<stamp, lastStamp, owners, preview>>

SideEffects(a) ==
  LET kept == Children(Planned(a)) \ Planned(a)
      cleared == {r \in kept : Rule[r] = "set null"}
      blocked == {r \in kept : Rule[r] = "restrict"}
  IN job[a].effects \cup Found(cleared, "set-null") \cup Found(blocked, "blocked")

Blocked(effects) == \E e \in effects : e[2] = "blocked"

PreviewShown(a) ==
  /\ job[a].kind = "preview" /\ job[a].step = "effects"
  /\ preview' = [preview EXCEPT ![a] =
       [root |-> job[a].root, version |-> job[a].version, effects |-> SideEffects(a)]]
  /\ JobEnds(a)
  /\ UNCHANGED <<stamp, lastStamp, owners>>

\* Mutant: the plan is not compared.
SameAsShownUnchecked(a) == preview[a] # NoPreview

\* The hash of the plan must be the one of the preview.
SameAsShown(a) == SideEffects(a) = preview[a].effects

PlanConfirmed(a) ==
  /\ job[a].kind = "cascade" /\ job[a].step = "effects"
  /\ IF SameAsShown(a) /\ ~Blocked(SideEffects(a))
       THEN NewJob(a, [job[a] EXCEPT !.step = "remove"])
       ELSE JobEnds(a)
  /\ UNCHANGED <<stamp, lastStamp, owners, preview>>

(***************************************************************************)
(* DELETE: by its key, whatever the row has become since.                  *)
(***************************************************************************)
\* What the engine removes with r, and whether a reference forbids it.
Takes(a, r) == Closure({r} \cap Existing) \ job[a].gone
Forbidden(a, rs) == \E c \in Children(rs) \ (rs \cup job[a].gone) : Rule[c] = "restrict"
MayRemove(a, r) ==
  /\ \A t \in Takes(a, r) : RowFree(a, t)
  /\ \A c \in Children(Takes(a, r)) : FieldsFree(a, c)
  /\ ~Forbidden(a, Takes(a, r))
Left(a) == Planned(a) \ (job[a].gone \cup {job[a].root})

\* deletePlannedDependents(): the tables that refer to a table come before it.
RemoveDependent(a) ==
  /\ job[a].kind = "cascade" /\ job[a].step = "remove"
  /\ \E r \in Left(a) :
       /\ \A c \in Left(a) : Parent[c] # r
       /\ MayRemove(a, r)
       /\ NewJob(a, [job[a] EXCEPT !.gone = @ \cup {r} \cup Takes(a, r)])
  /\ UNCHANGED <<stamp, lastStamp, owners, preview>>

\* The root, the audit entry and the commit.
DeleteCommits(a) ==
  /\ job[a].kind \in {"delete", "cascade"} /\ job[a].step = "remove"
  /\ Left(a) = {} /\ MayRemove(a, job[a].root) /\ lastStamp < LastStamp
  /\ LET removed == Existing \cap (job[a].gone \cup Takes(a, job[a].root))
         cleared == Children(removed) \ removed
     IN stamp' = [r \in Records |-> IF r \in removed THEN Removed
                                    ELSE IF r \in cleared THEN lastStamp + 1 ELSE stamp[r]]
  /\ lastStamp' = lastStamp + 1
  /\ JobEnds(a)
  /\ UNCHANGED <<owners, preview>>

\* Another owner changes the role of a; the update waits for FOR UPDATE.
ActorFree(a) == job[a].kind # "cascade"

RoleChanges(a) ==
  /\ ActorFree(a)
  /\ owners' = IF a \in owners THEN owners \ {a} ELSE owners \cup {a}
  /\ UNCHANGED <<stamp, lastStamp, job, preview>>

CrudNext ==
  \E a \in Actors :
    \/ \E r \in Records :
         \/ Creates(a, r)
         \/ \E v \in 1..LastStamp : Updates(a, r, v) \/ Deletes(a, r, v) \/ Previews(a, r, v)
    \/ CreateCommits(a) \/ UpdateCommits(a) \/ AssertNoDependents(a)
    \/ Confirms(a) \/ OpensConfirmed(a) \/ PlanLevel(a) \/ PreviewShown(a) \/ PlanConfirmed(a)
    \/ RemoveDependent(a) \/ DeleteCommits(a)
    \/ RoleChanges(a) \/ Fails(a)

CrudSpec == CrudInit /\ [][CrudNext]_crudVars

(***************************************************************************)
(* Properties.                                                             *)
(***************************************************************************)
Kinds == {"none", "create", "update", "delete", "preview", "cascade"}

CrudTypeOK ==
  /\ stamp \in [Records -> Removed..LastStamp] /\ lastStamp \in 1..LastStamp
  /\ owners \subseteq Actors
  /\ DOMAIN job = Actors /\ \A a \in Actors : job[a].kind \in Kinds
  /\ \A a \in Actors : preview[a].root \in Records \cup {NoRecord}

\* An update or a deletion that commits is of the version its request named:
\* nothing that another request wrote in between is lost; and whoever removes
\* a tree of records is an owner at that moment (the locks of mutate()).
WritesAreCurrent ==
  [][\A a \in Actors :
       stamp' # stamp /\ job[a].kind \in {"update", "delete", "cascade"} /\ job'[a] = NoJob
         => /\ stamp[job[a].root] = job[a].version
            /\ job[a].kind = "cascade" => a \in owners]_<<stamp, job, owners>>

\* A deletion without a confirmation removes its record and no other, and a
\* confirmed one removes what the preview showed, as it showed it: otherwise
\* only records written since the transaction has locked the root, though
\* records that refer to the tree are inserted at any time
\* (assertNoDependents(), the hash of buildDeletePlan()).
RemovalsWereShown ==
  [][\A a \in Actors :
       job[a].kind \in {"delete", "cascade"} /\ job'[a] = NoJob =>
         \A r \in {s \in Existing : stamp'[s] = Removed} \ {job[a].root} :
           /\ job[a].kind = "cascade"
           /\ <<r, "delete", stamp[r]>> \in preview[a].effects \/ stamp[r] > job[a].at
    ]_<<stamp, job, preview>>
=============================================================================
