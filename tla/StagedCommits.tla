----------------------------- MODULE StagedCommits -----------------------------
(***************************************************************************)
(* Artifacts staged on a branch of a lakeFS repository, validated there    *)
(* and merged into a target branch (StagedArtifactClient over              *)
(* BranchManager and ArtifactLineageClient), while cleanup_stale_branches  *)
(* sweeps old staging branches.  Each request to lakeFS is one step.       *)
(* A staging branch is named after the second it was asked for.  lakeFS is *)
(* external: commits are immutable, a branch points to one and holds       *)
(* uncommitted uploads, a merge is a three-way merge.                      *)
(***************************************************************************)
EXTENDS Integers, Sequences, FiniteSets, FiniteSetsExt

CONSTANTS
  Sessions,            \* calls of stage_and_validate
  Main, Target,        \* branches; they may be the same
  Files,               \* the paths each session stages
  Others,              \* what other clients change: pairs of branch and path
  Strategy,            \* "default", "source-wins" or "dest-wins"
  CleanupOnSuccess, CleanupOnFailure,
  AutoMode,            \* a failed upload falls back to a simulated commit
  MaxAge, MaxTime, MaxCommits  \* the last two bound the model

StagedAssumption ==
  /\ Files \in [Sessions -> SUBSET Nat]
  /\ Others \subseteq {Main, Target} \X UNION {Files[s] : s \in Sessions}
  /\ MaxAge \in Nat /\ MaxTime \in Nat /\ MaxCommits \in Nat
  /\ CleanupOnSuccess \in BOOLEAN /\ CleanupOnFailure \in BOOLEAN /\ AutoMode \in BOOLEAN

Paths == UNION {Files[s] : s \in Sessions}
StagingNames == 0..MaxTime
Branches == {Main, Target} \union StagingNames
Original == 0   \* the version of a path at the start
Elsewhere == 1  \* the one written by another client; a session's is the session

VARIABLES
  commits,  \* all commits: tree, ancestors with itself, creation time
  head,     \* of each branch, its newest commit; 0 when there is no branch
  dirty,    \* of each branch, the paths uploaded and not committed, with versions
  clock, pc,
  name,     \* the staging branch of each session
  left,     \* the files it has yet to upload
  seen,     \* the commit its validators saw
  victims,  \* branches the sweeper has listed as stale and not deleted yet
  swept     \* history: sessions whose branch was swept before they were done

vars == <<commits, head, dirty, clock, pc, name, left, seen, victims, swept>>
repo == <<commits, head, dirty>>
session == <<pc, name, left, seen>>

Init ==
  /\ commits = <<[tree |-> [p \in Paths |-> Original], past |-> {1}, time |-> 0]>>
  /\ head = [b \in Branches |-> IF b \in {Main, Target} THEN 1 ELSE 0]
  /\ dirty = [b \in Branches |-> << >>]
  /\ clock = 0 /\ victims = {} /\ swept = {}
  /\ pc = [s \in Sessions |-> "idle"]
  /\ name = [s \in Sessions |-> 0]
  /\ left = [s \in Sessions |-> {}]
  /\ seen = [s \in Sessions |-> 0]

------------------------------------------------------------------------------
\* lakeFS

Exists(b) == head[b] # 0
Tree(b) == commits[head[b]].tree

\* A new commit on a branch.
CommitOn(b, tree, past) ==
  /\ Len(commits) < MaxCommits
  /\ commits' = Append(commits, [tree |-> tree, past |-> past \union {Len(commits) + 1},
                                 time |-> clock])
  /\ head' = [head EXCEPT ![b] = Len(commits) + 1]

Remove(b) ==
  /\ head' = [head EXCEPT ![b] = 0]
  /\ dirty' = [dirty EXCEPT ![b] = << >>]
  /\ UNCHANGED commits

Ancestor(b, c) == Max(commits[head[b]].past \intersect commits[head[c]].past)

ChangedSince(b, base) == {p \in Paths : Tree(b)[p] # commits[base].tree[p]}

\* The tree of a merge of one branch into another, by the strategy.
Merged(src, dst) ==
  LET base == Ancestor(src, dst)
      theirs == ChangedSince(dst, base)
  IN  [p \in Paths |-> IF p \in ChangedSince(src, base)
                          /\ (p \notin theirs \/ Strategy # "dest-wins")
                       THEN Tree(src)[p] ELSE Tree(dst)[p]]

Conflicting(src, dst) ==
  LET base == Ancestor(src, dst)
  IN  \E p \in ChangedSince(src, base) \intersect ChangedSince(dst, base) :
        Tree(src)[p] # Tree(dst)[p]

Mergeable(src, dst) ==
  /\ Exists(src)
  /\ ChangedSince(src, Ancestor(src, dst)) # {}
  /\ Strategy = "default" => ~ Conflicting(src, dst)

\* Somebody else changes a path on the main or the target branch.
ChangeElsewhere(b, p) ==
  /\ Tree(b)[p] # Elsewhere
  /\ CommitOn(b, [Tree(b) EXCEPT ![p] = Elsewhere], commits[head[b]].past)
  /\ UNCHANGED <<dirty, clock, victims, swept>> /\ UNCHANGED session

Tick ==
  /\ clock < MaxTime /\ clock' = clock + 1
  /\ UNCHANGED <<victims, swept>> /\ UNCHANGED repo /\ UNCHANGED session

------------------------------------------------------------------------------
\* One call of stage_and_validate.

At(s, here) == pc[s] = here /\ UNCHANGED <<clock, victims, swept>>
Goto(s, there) == pc' = [pc EXCEPT ![s] = there]

\* Faulty variant of CreateBranch: a branch that is already there is taken over.
CreateOrReuse(s) ==
  /\ At(s, "idle") /\ Goto(s, "created")
  /\ name' = [name EXCEPT ![s] = clock]
  /\ left' = [left EXCEPT ![s] = Files[s]]
  /\ head' = IF Exists(clock) THEN head ELSE [head EXCEPT ![clock] = head[Target]]
  /\ UNCHANGED <<commits, dirty, seen>>

\* BranchManager.create_branch: branch.create from the target, of a branch
\* named after this second.
CreateBranch(s) ==
  /\ At(s, "idle")
  /\ name' = [name EXCEPT ![s] = clock]
  /\ left' = [left EXCEPT ![s] = Files[s]]
  /\ IF Exists(clock)
     THEN Goto(s, "raised") /\ UNCHANGED head
     ELSE Goto(s, "created") /\ head' = [head EXCEPT ![clock] = head[Target]]
  /\ UNCHANGED <<commits, dirty, seen>>

\* Its get_commit, whose failure raises and leaves the branch.
GetCommit(s) ==
  /\ At(s, "created")
  /\ IF Exists(name[s]) THEN Goto(s, "ensure") \/ Goto(s, "raised") ELSE Goto(s, "raised")
  /\ UNCHANGED <<name, left, seen>> /\ UNCHANGED repo

\* ArtifactLineageClient._ensure_repo_and_branch_live: a branch that is
\* missing is created from main.
EnsureBranch(s) ==
  /\ At(s, "ensure") /\ Goto(s, "upload")
  /\ head' = IF Exists(name[s]) THEN head ELSE [head EXCEPT ![name[s]] = head[Main]]
  /\ UNCHANGED <<commits, dirty, name, left, seen>>

\* lakectl fs upload of the next file, in the order of the paths.
Upload(s) ==
  /\ At(s, "upload") /\ left[s] # {} /\ Exists(name[s])
  /\ LET p == Min(left[s])
     IN  /\ dirty' = [dirty EXCEPT ![name[s]] = Append(@, <<p, s>>)]
         /\ left' = [left EXCEPT ![s] = @ \ {p}]
  /\ UNCHANGED <<commits, head, pc, name, seen>>


\* Every file of the session has been uploaded.
AllUploaded(s) == left[s] = {}

\* lakectl commit of everything that is uncommitted on the branch.
CommitUploads(s) ==
  /\ At(s, "upload") /\ AllUploaded(s) /\ Exists(name[s]) /\ dirty[name[s]] # << >>
  /\ LET b == name[s]
         Newest(p) == Max({0} \union {i \in DOMAIN dirty[b] : dirty[b][i][1] = p})
         tree == [p \in Paths |-> IF Newest(p) = 0 THEN Tree(b)[p] ELSE dirty[b][Newest(p)][2]]
     IN  CommitOn(b, tree, commits[head[b]].past)
  /\ dirty' = [dirty EXCEPT ![name[s]] = << >>]
  /\ Goto(s, "diff")
  /\ UNCHANGED <<name, left, seen>>

\* A missing file or a failing lakectl: version_files raises or, in the
\* automatic mode and unless the file is missing, simulates a commit that
\* lakeFS knows nothing of.
UploadFails(s) ==
  /\ At(s, "upload")
  /\ \/ AutoMode /\ Goto(s, "diff")
     \/ Goto(s, IF CleanupOnFailure THEN "undo" ELSE "raised")
  /\ UNCHANGED <<name, left, seen>> /\ UNCHANGED repo

\* The diff for the report and the validators, which read the branch; one that
\* raises has failed.  seen is the commit they read.
RunValidators(s, passed) ==
  /\ At(s, "diff")
  /\ seen' = [seen EXCEPT ![s] = head[name[s]]]
  /\ Goto(s, IF passed THEN "merge" ELSE IF CleanupOnFailure THEN "undo" ELSE "raised")
  /\ UNCHANGED <<name, left>> /\ UNCHANGED repo

\* BranchManager.merge, refused by lakeFS or failing, or not.
Merge(s) ==
  /\ At(s, "merge") /\ Mergeable(name[s], Target)
  /\ CommitOn(Target, Merged(name[s], Target),
              commits[head[name[s]]].past \union commits[head[Target]].past)
  /\ Goto(s, IF CleanupOnSuccess THEN "cleanup" ELSE "merged")
  /\ UNCHANGED <<dirty, name, left, seen>>

MergeFails(s) ==
  /\ At(s, "merge") /\ Goto(s, "raised")
  /\ UNCHANGED <<name, left, seen>> /\ UNCHANGED repo

\* _try_delete_branch, whose failure is only logged.
TryDeleteBranch(s) ==
  /\ \/ At(s, "cleanup") /\ Goto(s, "merged")
     \/ At(s, "undo") /\ Goto(s, "raised")
  /\ Remove(name[s]) \/ UNCHANGED repo
  /\ UNCHANGED <<name, left, seen>>

------------------------------------------------------------------------------
\* cleanup_stale_branches, in two steps as a branch may change in between.

Ended == {"idle", "raised", "merged"}

\* list_branches with the age test: the head commit's time, which of a branch
\* just created is that of the branch it came from.
ListStale ==
  /\ victims = {}
  /\ victims' = {b \in StagingNames : Exists(b) /\ commits[head[b]].time < clock - MaxAge}
  /\ UNCHANGED <<clock, swept>> /\ UNCHANGED repo /\ UNCHANGED session

DeleteStale(b) ==
  /\ b \in victims
  /\ victims' = victims \ {b}
  /\ Remove(b)
  /\ swept' = swept \union {s \in Sessions : name[s] = b /\ pc[s] \notin Ended}
  /\ UNCHANGED clock /\ UNCHANGED session

------------------------------------------------------------------------------
Step(s) ==
  \/ CreateBranch(s) \/ GetCommit(s) \/ EnsureBranch(s)
  \/ Upload(s) \/ CommitUploads(s) \/ UploadFails(s)
  \/ \E passed \in BOOLEAN : RunValidators(s, passed)
  \/ Merge(s) \/ MergeFails(s) \/ TryDeleteBranch(s)

Next ==
  \/ Tick
  \/ \E c \in Others : ChangeElsewhere(c[1], c[2])
  \/ \E s \in Sessions : Step(s)
  \/ ListStale
  \/ \E b \in StagingNames : DeleteStale(b)

Spec == Init /\ [][Next]_vars

------------------------------------------------------------------------------
\* Properties

TypeOK ==
  /\ \A c \in DOMAIN commits : /\ commits[c].tree \in [Paths -> {Original, Elsewhere} \union Sessions]
                              /\ commits[c].past \subseteq 1..c /\ commits[c].time \in 0..clock
  /\ Len(commits) \in 1..MaxCommits
  /\ head \in [Branches -> 0..Len(commits)]
  /\ \A b \in Branches : \A i \in DOMAIN dirty[b] : dirty[b][i] \in Paths \X Sessions
  /\ clock \in 0..MaxTime /\ victims \subseteq StagingNames /\ swept \subseteq Sessions
  /\ pc \in [Sessions -> Ended \union {"created", "ensure", "upload", "diff", "merge",
                                     "cleanup", "undo"}]
  /\ name \in [Sessions -> StagingNames] /\ left \in [Sessions -> SUBSET Paths]
  /\ seen \in [Sessions -> 0..Len(commits)]

\* The branch of a session was swept from under it.
Disturbed(s) == \E t \in swept : name[t] = name[s]

\* What a session merges is what its validators saw, and it changes nothing of
\* the target but the files of that session, whatever moved in the meantime
\* and however many sessions began in the same second, as long as the sweeper
\* left its branch alone (staged.py, create_branch to merge).  Of every step.
MergesWhatWasValidated ==
  \A s \in Sessions :
       (pc[s] = "merge" /\ head'[Target] # head[Target] /\ ~ Disturbed(s)
        /\ pc'[s] # "merge")
       => /\ seen[s] = head[name[s]]
          /\ \A p \in Paths : LET after == commits'[head'[Target]].tree[p]
                             IN  after # Tree(Target)[p] => p \in Files[s] /\ after = s

\* A session that reports a merge has had all its files on the target branch,
\* a simulated commit never passes for one (the default strategy, no sweep).
MergedFilesArrive ==
  \A s \in Sessions :
    (pc[s] \in {"cleanup", "merged"} /\ Strategy # "dest-wins" /\ ~ Disturbed(s))
    => \E c \in commits[head[Target]].past : \A p \in Files[s] : commits[c].tree[p] = s
==============================================================================
