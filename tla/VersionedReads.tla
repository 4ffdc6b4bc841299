----------------------------- MODULE VersionedReads -----------------------------
(***************************************************************************)
(* VersionedClient, versioned_context and the versioned decorator of       *)
(* integrations/lakefs: objects read at a commit, while others upload to   *)
(* the branch and commit.  One object stands for all; its content is the   *)
(* number of the upload.  lakeFS is external: a reference is a commit or   *)
(* the branch, which moves and shows what is not committed yet.            *)
(***************************************************************************)
EXTENDS Naturals, Sequences, FiniteSets, SequencesExt

CONSTANTS
  Threads,
  MaxCommits, MaxUploads, MaxDepth, MaxReads  \* bounds of the model

ReadsAssumption ==
  MaxCommits \in Nat /\ MaxUploads \in Nat /\ MaxDepth \in Nat /\ MaxReads \in Nat

\* References; the others are commits.
Latest == MaxCommits + 1
Branch == MaxCommits + 2
MockSha == 0                     \* what a mock resolves latest to: no commit
MockContent == MaxUploads + 1    \* what a mock reads, and its etag: no upload

VARIABLES
  commits,     \* the content at each commit
  staged,      \* the content of the branch
  uploads,
  registered,  \* threads with a client of their own (set_briefcase_client)
  entering,    \* of each thread, the contexts it is entering: at most one
  frames,      \* and those it is in, innermost last
  spans,       \* how many spans are open on each thread
  failed,      \* history: threads on which a construction failed
  reading,     \* what it has read and not asked the statistics of
  reads        \* what was recorded: content, etag and commit, with what the client was made for

vars == <<commits, staged, uploads, registered, entering, frames, spans, failed, reading, reads>>
repo == <<commits, staged, uploads>>
context == <<registered, entering, frames, spans, failed>>

Init ==
  /\ commits = <<0>> /\ staged = 0 /\ uploads = 0
  /\ registered = {} /\ reads = {}
  /\ entering = [t \in Threads |-> << >>] /\ frames = [t \in Threads |-> << >>]
  /\ spans = [t \in Threads |-> 0] /\ failed = {}
  /\ reading = [t \in Threads |-> << >>]

------------------------------------------------------------------------------
\* upload_object, of any client: to the branch, whatever commit it reads.
UploadObject ==
  /\ uploads < MaxUploads /\ uploads' = uploads + 1 /\ staged' = uploads'
  /\ UNCHANGED <<commits, reading, reads>> /\ UNCHANGED context

Commit ==
  /\ Len(commits) < MaxCommits /\ commits' = Append(commits, staged)
  /\ UNCHANGED <<staged, uploads, reading, reads>> /\ UNCHANGED context

\* set_briefcase_client and clear_briefcase_client.
SetBriefcaseClient(t) ==
  /\ registered' = (registered \ {t}) \union ({t} \ registered)
  /\ UNCHANGED <<entering, frames, spans, failed, reading, reads>> /\ UNCHANGED repo

Free(t) == entering[t] = << >> /\ reading[t] = << >>

\* VersionedContextManager.__enter__: the span comes first.
Enter(t, ref, mock) ==
  /\ Free(t) /\ Len(frames[t]) < MaxDepth /\ spans[t] < MaxDepth
  /\ entering' = [entering EXCEPT ![t] = <<[asked |-> ref, ref |-> ref, mock |-> mock, sha |-> MockSha,
                                            below |-> spans[t]]>>]
  /\ spans' = [spans EXCEPT ![t] = @ + 1]
  /\ UNCHANGED <<registered, frames, failed, reading, reads>> /\ UNCHANGED repo

\* A decorated function is called with a client injected, if there is a Briefcase
\* client to do it with; without one it runs unversioned.
Versioned(t, passed) == (passed \/ t \in registered) /\ Enter(t, Latest, FALSE)

\* Faulty variant of ResolveLatestCommit: latest remains a name.
ResolveLater(t) ==
  /\ entering[t] # << >> /\ entering[t][1].ref = Latest
  /\ entering' = [entering EXCEPT ![t][1].ref = Branch]
  /\ UNCHANGED <<registered, frames, spans, failed, reading, reads>> /\ UNCHANGED repo

\* The head of the branch, or a made-up commit in the mock mode.
ResolveLatestCommit(t) ==
  /\ entering[t] # << >> /\ entering[t][1].ref = Latest
  /\ entering' = [entering EXCEPT ![t][1].ref = IF entering[t][1].mock THEN MockSha ELSE Len(commits)]
  /\ UNCHANGED <<registered, frames, spans, failed, reading, reads>> /\ UNCHANGED repo

\* The metadata of the commit that the reference names now, kept for good.  In the
\* mock mode it is made up, under the name that was asked for.
FetchCommitMetadata(t) ==
  /\ entering[t] # << >> /\ entering[t][1].ref # Latest
  /\ LET new == entering[t][1]
     IN  frames' = [frames EXCEPT ![t] = Append(@,
           [new EXCEPT !.sha = IF new.ref = Branch /\ ~ new.mock THEN Len(commits) ELSE new.ref])]
  /\ entering' = [entering EXCEPT ![t] = << >>]
  /\ UNCHANGED <<registered, spans, failed, reading, reads>> /\ UNCHANGED repo

\* Credentials are missing, or one of the two requests fails: __enter__ raises,
\* so that there is no __exit__ to end the span.
ConstructionFails(t) ==
  /\ entering[t] # << >>
  /\ entering' = [entering EXCEPT ![t] = << >>]
  /\ failed' = failed \union {t}
  /\ UNCHANGED <<registered, frames, spans, reading, reads>> /\ UNCHANGED repo

\* Faulty variant of Exit: the span is not ended.
ExitInSpan(t) ==
  /\ Free(t) /\ frames[t] # << >>
  /\ frames' = [frames EXCEPT ![t] = Front(@)]
  /\ UNCHANGED <<registered, entering, spans, failed, reading, reads>> /\ UNCHANGED repo

\* __exit__ restores the span that was current before __enter__.
Exit(t) ==
  /\ Free(t) /\ frames[t] # << >>
  /\ spans' = [spans EXCEPT ![t] = Last(frames[t]).below]
  /\ frames' = [frames EXCEPT ![t] = Front(@)]
  /\ UNCHANGED <<registered, entering, failed, reading, reads>> /\ UNCHANGED repo

\* What a client reads: its reference.
Seen(client) == IF client.mock THEN MockContent ELSE IF client.ref = Branch THEN staged ELSE commits[client.ref]

\* read_object: the content, and then the statistics; a request that fails
\* raises and records nothing.
ReadObject(t) ==
  /\ Free(t) /\ frames[t] # << >> /\ Cardinality(reads) < MaxReads
  /\ reading' = [reading EXCEPT ![t] = <<Seen(Last(frames[t]))>>]
  /\ UNCHANGED reads /\ UNCHANGED repo /\ UNCHANGED context

\* _record_access with the commit of the construction.
RecordAccess(t) ==
  /\ reading[t] # << >>
  /\ LET client == Last(frames[t])
     IN  reads' = reads \union {[content |-> reading[t][1], etag |-> Seen(client),
                                 sha |-> client.sha, asked |-> client.asked, mock |-> client.mock]}
  /\ reading' = [reading EXCEPT ![t] = << >>]
  /\ UNCHANGED repo /\ UNCHANGED context

ReadFails(t) ==
  /\ reading[t] # << >> /\ reading' = [reading EXCEPT ![t] = << >>]
  /\ UNCHANGED reads /\ UNCHANGED repo /\ UNCHANGED context

Next ==
  \/ UploadObject \/ Commit
  \/ \E t \in Threads :
       \/ SetBriefcaseClient(t)
       \/ \E ref \in {Latest, Branch, 1}, mock \in BOOLEAN : Enter(t, ref, mock)
       \/ \E passed \in BOOLEAN : Versioned(t, passed)
       \/ ResolveLatestCommit(t) \/ FetchCommitMetadata(t) \/ ConstructionFails(t) \/ Exit(t)
       \/ ReadObject(t) \/ RecordAccess(t) \/ ReadFails(t)

Spec == Init /\ [][Next]_vars

------------------------------------------------------------------------------
\* Properties

Client == [asked : 1..MaxCommits + 2, ref : 0..MaxCommits + 2, mock : BOOLEAN, sha : 0..MaxCommits + 2,
           below : 0..MaxDepth]

TypeOK ==
  /\ commits \in Seq(0..MaxUploads) /\ Len(commits) <= MaxCommits
  /\ staged \in 0..uploads /\ uploads \in 0..MaxUploads /\ registered \union failed \subseteq Threads
  /\ \A t \in Threads : /\ entering[t] \in Seq(Client) /\ frames[t] \in Seq(Client)
                       /\ spans[t] \in 0..MaxDepth
                       /\ reading[t] \in Seq(0..MockContent)
  /\ \A r \in reads : r \in [content : 0..MockContent, etag : 0..MockContent, sha : 0..MaxCommits + 2,
                             asked : 1..MaxCommits + 2, mock : BOOLEAN]

\* What is recorded of a read is true for good: content and etag are those of
\* the recorded commit, whatever was uploaded and committed since the client
\* was made, unless it was made for a branch by name or is a mock.  A mock's content
\* is recorded under the commit that the caller named, which may well exist, and then
\* only the etag tells it from a real read; under one that nobody named it is never
\* recorded (read_object, _fetch_commit_metadata, _record_access).
ReadsMatchTheirCommit ==
  \A r \in reads :
    /\ (~ r.mock /\ r.asked # Branch) => r.content = commits[r.sha] /\ r.etag = r.content
    /\ r.sha \in DOMAIN commits /\ r.sha # r.asked => ~ r.mock
    /\ r.etag = MockContent <=> r.mock

\* Outside of every context no span is left current, except on a thread where
\* one could not be entered (VersionedContextManager.__enter__, __exit__).
SpansAreRestored ==
  \A t \in Threads : (frames[t] = << >> /\ entering[t] = << >>) => spans[t] = 0 \/ t \in failed
==============================================================================
