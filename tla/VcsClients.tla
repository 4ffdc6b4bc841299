------------------------------- MODULE VcsClients -------------------------------
(***************************************************************************)
(* The clients of integrations/vcs over VcsClientBase.  DvcClient and      *)
(* GitLFSClient write files into a shared working tree and make versions   *)
(* with git, one command after the other, whose index they share as well.  *)
(* The other providers, and these two without one, make up what they       *)
(* return.  Calls of the base class report failures, and never raise.      *)
(* git is external.                                                        *)
(***************************************************************************)
EXTENDS Naturals, Sequences

CONSTANTS
  DvcClients, LfsClients, OtherClients,
  Paths,
  MaxWrites, MaxCommits  \* bounds of the model

Clients == DvcClients \union LfsClients \union OtherClients

VcsAssumption == MaxWrites \in Nat /\ MaxCommits \in Nat

VARIABLES
  live,     \* clients that found their provider
  tree,     \* the working tree: of each path the write it holds and whether whole
  index,    \* and the index of git
  commits,
  writes,   \* how many writes have begun
  writing,  \* of each client, the path it has opened: at most one
  at,       \* where its create_version is: "idle", "add", "commit" or "parse"
  wrote,    \* history: of each client and path, its last write that succeeded,
  owed,     \* and the ones its create_version has to cover
  refused,  \* history: clients whose last commit git refused
  version,  \* of each client: the version it reports last, 0 for none
  status    \* and the status it returned last

vars == <<live, tree, index, commits, writes, writing, at, wrote, owed, refused, version, status>>

Untouched == [p \in Paths |-> [n |-> 0, whole |-> TRUE]]
Nothing == [p \in Paths |-> 0]

Init ==
  /\ live \in SUBSET Clients
  /\ tree = Untouched /\ index = Untouched /\ commits = <<Untouched>>
  /\ writes = 0
  /\ writing = [c \in Clients |-> << >>] /\ at = [c \in Clients |-> "idle"]
  /\ wrote = [c \in Clients |-> Nothing] /\ owed = [c \in Clients |-> Nothing]
  /\ refused = {}
  /\ version = [c \in Clients |-> 0] /\ status = [c \in Clients |-> "none"]

Free(c) == at[c] = "idle" /\ writing[c] = << >>
Returns(c, s) == status' = [status EXCEPT ![c] = s]
files == <<tree, writes, writing, wrote>>
versioning == <<index, commits, at, owed, refused, version>>

\* GitLFSClient._detect_provider: git lfs is installed, and the repository is set
\* up for it at last; it is asked once.
DetectProvider(c) == c \in live

UsesGit(c) == \/ c \in DvcClients /\ c \in live
              \/ c \in LfsClients /\ DetectProvider(c)

------------------------------------------------------------------------------
\* VcsClientBase.read_object: the file as it is, or no content and an error.
ReadObject(c, p) ==
  /\ Free(c)
  /\ IF UsesGit(c) /\ tree[p].n = 0 THEN Returns(c, "error") ELSE Returns(c, "success")
  /\ UNCHANGED live /\ UNCHANGED files /\ UNCHANGED versioning

\* _write_object_impl of DVC and Git LFS: opening the file empties it.
OpenFile(c, p) ==
  /\ Free(c) /\ UsesGit(c) /\ writes < MaxWrites
  /\ writes' = writes + 1
  /\ tree' = [tree EXCEPT ![p] = [n |-> writes', whole |-> FALSE]]
  /\ writing' = [writing EXCEPT ![c] = <<p>>]
  /\ UNCHANGED <<live, wrote, status>> /\ UNCHANGED versioning

\* The data, unless another client has opened it since; either may win.
WriteFile(c) ==
  /\ writing[c] # << >>
  /\ LET p == writing[c][1]
     IN  /\ tree' = [tree EXCEPT ![p].whole = TRUE]
         /\ wrote' = [wrote EXCEPT ![c][p] = tree[p].n]
  /\ writing' = [writing EXCEPT ![c] = << >>]
  /\ Returns(c, "success")
  /\ UNCHANGED <<live, writes>> /\ UNCHANGED versioning

\* VcsClientBase.write_object: a failure is reported; the file stays empty.
WriteFails(c) ==
  /\ writing[c] # << >>
  /\ writing' = [writing EXCEPT ![c] = << >>]
  /\ Returns(c, "error")
  /\ UNCHANGED <<live, tree, writes, wrote>> /\ UNCHANGED versioning

------------------------------------------------------------------------------
\* Versions

Goto(c, there) == at' = [at EXCEPT ![c] = there]

\* VcsClientBase.create_version of a client that has git.
CreateVersion(c) ==
  /\ Free(c) /\ UsesGit(c) /\ Goto(c, "add")
  /\ owed' = [owed EXCEPT ![c] = wrote[c]]
  /\ refused' = refused \ {c}
  /\ UNCHANGED <<live, index, commits, version, status>> /\ UNCHANGED files

\* Faulty variant of GitAdd: only files that git knows are added.
GitAddKnown(c) ==
  /\ at[c] = "add"
  /\ index' = [p \in Paths |-> IF commits[Len(commits)][p].n = 0 THEN index[p] ELSE tree[p]]
  /\ Goto(c, "commit")
  /\ UNCHANGED <<live, commits, owed, refused, version, status>> /\ UNCHANGED files

\* git add -A: whatever is in the tree.
GitAdd(c) ==
  /\ at[c] = "add"
  /\ index' = tree
  /\ Goto(c, "commit")
  /\ UNCHANGED <<live, commits, owed, refused, version, status>> /\ UNCHANGED files

\* A command whose exit status is checked fails.
CommandFails(c) ==
  /\ at[c] \in {"add", "parse"}
  /\ Goto(c, "idle") /\ Returns(c, "error")
  /\ owed' = [owed EXCEPT ![c] = Nothing]
  /\ UNCHANGED <<live, index, commits, refused, version>> /\ UNCHANGED files

\* git commit, whose exit status is not: with nothing to commit, or if a hook or
\* a lock refuses, there is no commit and no error.
GitCommit(c) ==
  /\ at[c] = "commit" /\ Goto(c, "parse")
  /\ \/ /\ index # commits[Len(commits)] /\ Len(commits) < MaxCommits
        /\ commits' = Append(commits, index) /\ UNCHANGED refused
     \/ /\ commits' = commits
        /\ refused' = IF index = commits[Len(commits)] THEN refused ELSE refused \union {c}
  /\ UNCHANGED <<live, index, owed, version, status>> /\ UNCHANGED files

\* git rev-parse HEAD: the head, whoever's commit it is; it becomes the version.
RevParse(c) ==
  /\ at[c] = "parse" /\ Goto(c, "idle")
  /\ version' = [version EXCEPT ![c] = Len(commits)]
  /\ Returns(c, "success")
  /\ UNCHANGED <<live, index, commits, owed, refused>> /\ UNCHANGED files

\* The version of a provider that is not there, or of one that has no live
\* backend: nothing is stored, and it looks the same.
MadeUpVersion(c) ==
  /\ Free(c) /\ ~ UsesGit(c)
  /\ version' = [version EXCEPT ![c] = 1]
  /\ Returns(c, "success")
  /\ UNCHANGED <<live, index, commits, at, owed, refused>> /\ UNCHANGED files

\* _create_version_impl of the two clients.
DvcCreateVersion(c) == c \in DvcClients /\ (GitAdd(c) \/ GitCommit(c) \/ RevParse(c) \/ CommandFails(c))

LfsCreateVersion(c) == c \in LfsClients /\ (GitAdd(c) \/ GitCommit(c) \/ RevParse(c) \/ CommandFails(c))

Next ==
  \E c \in Clients :
    \/ \E p \in Paths : ReadObject(c, p) \/ OpenFile(c, p)
    \/ WriteFile(c) \/ WriteFails(c)
    \/ CreateVersion(c) \/ DvcCreateVersion(c) \/ LfsCreateVersion(c) \/ MadeUpVersion(c)

Spec == Init /\ [][Next]_vars

------------------------------------------------------------------------------
\* Properties

Tree == [Paths -> [n : 0..MaxWrites, whole : BOOLEAN]]

TypeOK ==
  /\ live \subseteq Clients /\ refused \subseteq Clients
  /\ tree \in Tree /\ index \in Tree /\ commits \in Seq(Tree) /\ Len(commits) \in 1..MaxCommits
  /\ writes \in 0..MaxWrites /\ at \in [Clients -> {"idle", "add", "commit", "parse"}]
  /\ \A c \in Clients : writing[c] \in Seq(Paths)
  /\ wrote \in [Clients -> [Paths -> 0..MaxWrites]] /\ owed \in [Clients -> [Paths -> 0..MaxWrites]]
  /\ version \in [Clients -> 0..MaxCommits]
  /\ status \in [Clients -> {"none", "success", "error"}]

\* A version that a client reports holds every object it had written before it
\* asked for the version, or a later write of that object, however the commands
\* of several clients interleave in the one index; only a commit that git
\* refused, which nobody notices, breaks this (_create_version_impl of DVC and
\* Git LFS).
VersionsCoverWrites ==
  \A c \in Clients :
    (UsesGit(c) /\ at[c] = "idle" /\ version[c] # 0 /\ c \notin refused)
    => \A p \in Paths : commits[version[c]][p].n >= owed[c][p]
==============================================================================
