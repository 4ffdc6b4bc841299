----------------------------- MODULE EmbeddingIndex -----------------------------
(***************************************************************************)
(* VersionedEmbeddingPipeline and the vector stores of rag/: documents are *)
(* read from a branch, embedded in batches, put into manifests of one      *)
(* index and into a store whose vectors carry a commit, while others       *)
(* commit new contents and the model is upgraded.  A content stands for    *)
(* its hash; contents of one document only grow.  The stores are external: *)
(* Pinecone and Weaviate replace a vector of the same id, Chroma keeps it. *)
(***************************************************************************)
EXTENDS Naturals, Sequences, FiniteSets, SequencesExt, Functions

CONSTANTS
  Docs,
  MaxCommits, MaxModels, MaxBatches, MaxManifests  \* bounds of the model

IndexAssumption ==
  MaxCommits \in Nat /\ MaxModels \in Nat /\ MaxBatches \in Nat /\ MaxManifests \in Nat

Unknown == 0

Stores == {"pinecone", "chroma", "weaviate"}

VARIABLES
  commits,    \* the contents at each commit: document -> a number, of those that exist
  model,      \* the version of the embedding model
  chosen,     \* the documents the caller has read and not embedded: at most one reading
  batches,    \* the batches made, oldest first
  manifests,  \* the manifests of the index, oldest first
  store,      \* which vector store is in use
  vectors     \* the store: document -> content, and the commit of the stamp

vars == <<commits, model, chosen, batches, manifests, store, vectors>>

Init ==
  /\ commits \in {<<[d \in S |-> 1]>> : S \in SUBSET Docs}
  /\ model = 1 /\ chosen = << >> /\ batches = << >> /\ manifests = << >>
  /\ store \in Stores /\ vectors = << >>

Head0 == Last(commits)

------------------------------------------------------------------------------
\* Somebody commits: one document is written or removed.
CommitDocument(d) ==
  /\ Len(commits) < MaxCommits
  /\ \/ commits' = Append(commits, [x \in DOMAIN Head0 \union {d} |->
                                      IF x = d THEN Len(commits) + 1 ELSE Head0[x]])
     \/ d \in DOMAIN Head0 /\ commits' = Append(commits, Restrict(Head0, DOMAIN Head0 \ {d}))
  /\ UNCHANGED <<model, chosen, batches, manifests, store, vectors>>

UpgradeModel ==
  /\ model < MaxModels /\ model' = model + 1
  /\ UNCHANGED <<commits, chosen, batches, manifests, store, vectors>>

ReadDocuments(ds) ==
  /\ chosen = << >> /\ ds \subseteq DOMAIN Head0
  /\ chosen' = <<Restrict(Head0, ds)>>
  /\ UNCHANGED <<commits, model, batches, manifests, store, vectors>>

\* create_embedding_batch: the commit is asked for after the documents were
\* read; when the client fails it is unknown.  When the model fails, the batch
\* says the same of embeddings that are zeros.
CreateEmbeddingBatch(asked) ==
  /\ chosen # << >> /\ Len(batches) < MaxBatches
  /\ batches' = Append(batches, [hashes |-> chosen[1], model |-> model,
                                 commit |-> IF asked THEN Len(commits) ELSE Unknown])
  /\ chosen' = << >>
  /\ UNCHANGED <<commits, model, manifests, store, vectors>>

\* Faulty variant of Hashes: the first batch wins.
HashesOfFirst(bs) == FoldLeft(LAMBDA hs, b : hs @@ b.hashes, << >>, bs)

\* Of a document in several batches the last hash counts.
Hashes(bs) == FoldLeft(LAMBDA hs, b : b.hashes @@ hs, << >>, bs)

\* create_manifest: model and commit are those of the first batch.  It counts
\* as made even when its upload fails.
CreateManifest(bs) ==
  /\ Len(manifests) < MaxManifests
  /\ manifests' = Append(manifests,
       [hashes |-> Hashes(bs), model |-> bs[1].model, commit |-> bs[1].commit,
        of |-> bs, current |-> TRUE])
  /\ UNCHANGED <<commits, model, chosen, batches, store, vectors>>

\* check_invalidation against documents read at the head; the newest manifest is
\* marked when it is stale, and never back.
Same(m, docs, version) == m.hashes = docs /\ m.model = version

CheckInvalidation ==
  /\ manifests # << >>
  /\ LET n == Len(manifests)
     IN  manifests' = [manifests EXCEPT ![n].current = @ /\ Same(manifests[n], Head0, model)]
  /\ UNCHANGED <<commits, model, chosen, batches, store, vectors>>

------------------------------------------------------------------------------
\* The vector stores; a store object is of one commit.

Stamped(b, c) == [d \in DOMAIN b.hashes |-> [content |-> b.hashes[d], commit |-> c]]

Put(new) == vectors' = new /\ UNCHANGED <<commits, model, chosen, batches, manifests, store>>

\* upsert_batch of Pinecone and add_batch of the others: every vector is stamped
\* with the store's commit.  The metadata of the caller names no commit: in
\* Weaviate's it would win over the stamp.
UpsertBatch(b) == store = "pinecone" /\ Put(Stamped(b, b.commit) @@ vectors)
ChromaAddBatch(b) == store = "chroma" /\ Put(vectors @@ Stamped(b, b.commit))
WeaviateAddBatch(b) == store = "weaviate" /\ Put(Stamped(b, b.commit) @@ vectors)

\* delete of a document's vector; of Weaviate's store it can fail and say so.
DeleteVector(d) == d \in DOMAIN vectors /\ Put(Restrict(vectors, DOMAIN vectors \ {d}))

OfCommits(cs) == {d \in DOMAIN vectors : vectors[d].commit \in cs}

\* Faulty variant of PineconeQuery: the caller's filter on the commit wins.
PineconeQueryOwn(c, own) == OfCommits(own)

\* query of the store of a commit, by a caller whose own filter admits the
\* commits of a set: the documents it can answer with.  Pinecone's store
\* overwrites the caller's filter on the commit, the others add theirs to it.
PineconeQuery(c, own) == OfCommits({c})
ChromaQuery(c, own) == OfCommits({c} \intersect own)
WeaviateQuery(c, own) == OfCommits(own \intersect {c})

Query(c, own) == CASE store = "pinecone" -> PineconeQuery(c, own)
                   [] store = "chroma" -> ChromaQuery(c, own)
                   [] store = "weaviate" -> WeaviateQuery(c, own)

Next ==
  \/ \E d \in Docs : CommitDocument(d)
  \/ UpgradeModel
  \/ \E ds \in SUBSET Docs \ {{}} : ReadDocuments(ds)
  \/ \E asked \in BOOLEAN : CreateEmbeddingBatch(asked)
  \/ \E i, j \in 1..Len(batches) : CreateManifest(IF i = j THEN <<batches[i]>>
                                                  ELSE <<batches[i], batches[j]>>)
  \/ CheckInvalidation
  \/ \E i \in 1..Len(batches) :
       /\ batches[i].commit # Unknown
       /\ UpsertBatch(batches[i]) \/ ChromaAddBatch(batches[i]) \/ WeaviateAddBatch(batches[i])
  \/ \E d \in Docs : DeleteVector(d)

Spec == Init /\ [][Next]_vars

------------------------------------------------------------------------------
\* Properties

TypeOK ==
  /\ \A c \in Range(commits) : DOMAIN c \subseteq Docs
  /\ model \in 1..MaxModels /\ Len(chosen) <= 1
  /\ \A b \in Range(batches) : b.commit \in 0..Len(commits) /\ b.model \in 1..model
  /\ \A m \in Range(manifests) : Range(m.of) \subseteq Range(batches)
  /\ store \in Stores /\ DOMAIN vectors \subseteq Docs

\* A check that calls an index valid tells the truth about the vectors of its
\* manifest: of every current document, the batch embedded last of those that
\* contain it has its current content, and no other document is left in it
\* (check_invalidation, create_manifest).
ValidMeansCurrent ==
  \A m \in Range(manifests) : Same(m, Head0, model) =>
    /\ \A d \in DOMAIN Head0 : \E b \in Range(m.of) : d \in DOMAIN b.hashes /\ b.hashes[d] = Head0[d]
    /\ \A k \in 1..Len(m.of) : \A d \in DOMAIN m.of[k].hashes :
         (\A l \in k + 1..Len(m.of) : d \notin DOMAIN m.of[l].hashes) =>
           d \in DOMAIN Head0 /\ m.of[k].hashes[d] = Head0[d]

\* A query at a commit finds nothing newer than the commit: a document is
\* embedded as it was then or before, whatever was committed between reading,
\* embedding and storing it, and whatever commits the caller's own filter names
\* (create_embedding_batch, upsert_batch, query).
AnswersAreNotNewer ==
  \A c \in 1..Len(commits) : \A own \in SUBSET (1..Len(commits)) : \A d \in Query(c, own) : vectors[d].content <= c
==============================================================================
