---------------------------- MODULE KnowledgeIndex ----------------------------
(***************************************************************************)
(* One knowledge base: its documents and their chunks, the requests of      *)
(* knowledge.controller.ts that add, reprocess and delete documents, and    *)
(* the embeddings worker that indexes them (embeddings/indexer.ts).         *)
(*                                                                         *)
(* Documents are told apart by their content, which the unique index on      *)
(* (knowledge_base_id, content_hash) lets in once, deleted or not. A          *)
(* transaction runs at PostgreSQL's READ COMMITTED: what it deletes and sums  *)
(* is what was committed when it began, and it writes when it commits.       *)
(***************************************************************************)
EXTENDS Integers, FiniteSets

CONSTANTS
  Documents,   \* the documents, by content
  Length,      \* [Documents -> Nat]: how many chunks chunkText() cuts each into
  Indexers,    \* the jobs that run at the same time, on any worker process
  Edits,       \* the API transactions that run at the same time
  Nothing,     \* no transaction
  IndexFaults, \* the kinds of fault that happen
  MaxEdits,    \* bound: how many documents are added, reprocessed or deleted
  MaxIndexFaults  \* bound: how many faults happen

ASSUME KnowledgeAssumption ==
  /\ IsFiniteSet(Documents)
  /\ Length \in [Documents -> Nat]
  /\ IndexFaults \subseteq {"enqueue", "load", "embed", "write", "fail", "crash"}
  /\ MaxEdits \in Nat /\ MaxIndexFaults \in Nat

VARIABLES
  docStatus,  \* [Documents -> DocStatus]: knowledge_document.status
  deleted,    \* the documents whose deleted_at is set
  counted,    \* [Documents -> Nat]: knowledge_document.chunk_count
  chunks,     \* [Documents -> sets of indexings]: whose knowledge_chunk rows are there
  baseChunks, \* knowledge_base.chunk_count
  baseDocs,   \* knowledge_base.document_count
  owed,       \* [Documents -> Nat]: requests that committed and have yet to enqueue
  queued,     \* [Documents -> Nat]: waiting jobs
  edit,       \* [Edits -> a transaction of the API, or Nothing]
  indexing,   \* [Indexers -> a job that runs, or Nothing]
  keyed,      \* OPENAI_API_KEY is set: fixed by the environment
  overlaps,   \* history: the documents two of whose writers overlapped
  miscounted, \* history: two transactions overlapped, or a sum was over no document
  lost,       \* history: the documents whose indexing a fault dropped
  edits, runs, indexFaults  \* history: requests, indexings and faults so far

docRows == <<docStatus, deleted, counted, chunks>>
baseRow == <<baseChunks, baseDocs>>
jobVars == <<owed, queued>>
causes == <<overlaps, miscounted, lost>>
knowledgeVars == <<docRows, baseRow, jobVars, edit, indexing, keyed, causes, edits, runs,
                   indexFaults>>

DocStatus == {"absent", "QUEUED", "PROCESSING", "READY", "FAILED"}

\* A transaction of the API holds the chunks it has deleted; a job its place, the number of
\* the indexing, the chunks its transaction has deleted and the sum it has taken.
KnowledgeEdit == [op : {"reprocess", "delete"}, doc : Documents, took : SUBSET Nat]
IndexJob ==
  [doc : Documents, step : {"loaded", "failing", "writing"}, run : Nat, took : SUBSET Nat,
   sum : Nat]

KnowledgeTypeOK ==
  /\ docStatus \in [Documents -> DocStatus]
  /\ deleted \subseteq {d \in Documents : docStatus[d] # "absent"}
  /\ counted \in [Documents -> Nat]
  /\ chunks \in [Documents -> SUBSET Nat]
  /\ baseChunks \in Int /\ baseDocs \in Int
  /\ owed \in [Documents -> Nat] /\ queued \in [Documents -> Nat]
  /\ edit \in [Edits -> KnowledgeEdit \cup {Nothing}]
  /\ indexing \in [Indexers -> IndexJob \cup {Nothing}]
  /\ keyed \in BOOLEAN /\ miscounted \in BOOLEAN
  /\ overlaps \cup lost \subseteq Documents
  /\ runs \in Nat /\ edits \in 0..MaxEdits /\ indexFaults \in 0..MaxIndexFaults

KnowledgeInit ==
  /\ docStatus = [d \in Documents |-> "absent"]
  /\ deleted = {}
  /\ counted = [d \in Documents |-> 0]
  /\ chunks = [d \in Documents |-> {}]
  /\ baseChunks = 0 /\ baseDocs = 0
  /\ owed = [d \in Documents |-> 0] /\ queued = [d \in Documents |-> 0]
  /\ edit = [e \in Edits |-> Nothing]
  /\ indexing = [i \in Indexers |-> Nothing]
  /\ keyed \in BOOLEAN
  /\ overlaps = {} /\ miscounted = FALSE /\ lost = {}
  /\ edits = 0 /\ runs = 0 /\ indexFaults = 0

Live == {d \in Documents : docStatus[d] # "absent" /\ d \notin deleted}

\* What the documents of S count, as one set of numbered chunks.
Numbered(S) == UNION {{d} \X (1..counted[d]) : d \in S}
CountOf(S) == Cardinality(Numbered(S))

IndexTrouble(kind) ==
  /\ kind \in IndexFaults
  /\ indexFaults < MaxIndexFaults
  /\ indexFaults' = indexFaults + 1

\* The jobs and transactions in progress for a document, and those that are writing.
Writers(d) ==
  {x \in Indexers : indexing[x] # Nothing /\ indexing[x].doc = d}
    \cup {x \in Edits : edit[x] # Nothing /\ edit[x].doc = d}
Writing ==
  {x \in Indexers : indexing[x] # Nothing /\ indexing[x].step = "writing"}
    \cup {x \in Edits : edit[x] # Nothing}

\* A writer of d begins.
Joins(d) == overlaps' = IF Writers(d) = {} THEN overlaps ELSE overlaps \cup {d}

\* A document that was dropped by a fault stays as it is until it is reprocessed.
Drop(d) == lost' = lost \cup {d}

-----------------------------------------------------------------------------
(* The API.                                                                *)

\* addDocument(): a document whose content the base has ever had is refused, by
\* the query or by the unique index.
AddDocument(d) ==
  /\ edits < MaxEdits
  /\ docStatus[d] = "absent"
  /\ docStatus' = [docStatus EXCEPT ![d] = "QUEUED"]
  /\ baseDocs' = baseDocs + 1
  /\ owed' = [owed EXCEPT ![d] = @ + 1]
  /\ edits' = edits + 1
  /\ UNCHANGED <<deleted, counted, chunks, baseChunks, queued, edit, indexing, keyed, causes,
                 runs, indexFaults>>

\* reprocessDocument() and deleteDocument(): the document is found and its chunks,
\* as they are now, are deleted.
BeginEdit(e, d) ==
  /\ edits < MaxEdits
  /\ edit[e] = Nothing
  /\ d \in Live
  /\ \E op \in {"reprocess", "delete"} :
       edit' = [edit EXCEPT ![e] = [op |-> op, doc |-> d, took |-> chunks[d]]]
  /\ edits' = edits + 1
  /\ Joins(d)
  /\ miscounted' = (miscounted \/ Writing # {})
  /\ UNCHANGED <<docRows, baseRow, jobVars, indexing, keyed, lost, runs, indexFaults>>

\* Seeded fault: what is removed for a new indexing stays in the base's count.
RemovedUncounted(e) == 0

\* deleteMany() counts the rows that no other transaction has deleted meanwhile.
Removed(e) == Length[edit[e].doc] * Cardinality(edit[e].took \cap chunks[edit[e].doc])

\* reprocessDocument() commits.
CommitReprocess(e) ==
  /\ edit[e] # Nothing /\ edit[e].op = "reprocess"
  /\ LET d == edit[e].doc IN
       /\ chunks' = [chunks EXCEPT ![d] = @ \ edit[e].took]
       /\ counted' = [counted EXCEPT ![d] = 0]
       /\ docStatus' = [docStatus EXCEPT ![d] = "QUEUED"]
       /\ owed' = [owed EXCEPT ![d] = @ + 1]
  /\ baseChunks' = baseChunks - Removed(e)
  /\ edit' = [edit EXCEPT ![e] = Nothing]
  /\ UNCHANGED <<deleted, baseDocs, queued, indexing, keyed, causes, edits, runs, indexFaults>>

\* deleteDocument() commits.
CommitDelete(e) ==
  /\ edit[e] # Nothing /\ edit[e].op = "delete"
  /\ LET d == edit[e].doc IN
       /\ chunks' = [chunks EXCEPT ![d] = @ \ edit[e].took]
       /\ deleted' = deleted \cup {d}
  /\ baseDocs' = baseDocs - 1
  /\ baseChunks' = baseChunks - Removed(e)
  /\ edit' = [edit EXCEPT ![e] = Nothing]
  /\ UNCHANGED <<docStatus, counted, jobVars, indexing, keyed, causes, edits, runs, indexFaults>>

\* enqueueIndex() after the commit; the process dies or Redis is away and the
\* document stays QUEUED.
EnqueueIndex(d) ==
  /\ owed[d] > 0
  /\ owed' = [owed EXCEPT ![d] = @ - 1]
  /\ \/ queued' = [queued EXCEPT ![d] = @ + 1] /\ UNCHANGED <<lost, indexFaults>>
     \/ IndexTrouble("enqueue") /\ Drop(d) /\ UNCHANGED queued
  /\ UNCHANGED <<docRows, baseRow, edit, indexing, keyed, overlaps, miscounted, edits, runs>>

-----------------------------------------------------------------------------
(* The embeddings handler.                                                 *)

\* The document is loaded and marked, unless it was deleted; when that
\* transaction fails the job does, and it has no second attempt.
Load(i, d) ==
  /\ indexing[i] = Nothing
  /\ queued[d] > 0
  /\ queued' = [queued EXCEPT ![d] = @ - 1]
  /\ \/ /\ d \in Live
        /\ docStatus' = [docStatus EXCEPT ![d] = "PROCESSING"]
        /\ indexing' = [indexing EXCEPT ![i] =
                          [doc |-> d, step |-> "loaded", run |-> runs, took |-> {}, sum |-> 0]]
        /\ runs' = runs + 1
        /\ Joins(d)
        /\ UNCHANGED <<lost, indexFaults>>
     \/ d \notin Live /\ UNCHANGED <<docStatus, indexing, runs, overlaps, lost, indexFaults>>
     \/ IndexTrouble("load") /\ Drop(d) /\ UNCHANGED <<docStatus, indexing, runs, overlaps>>
  /\ UNCHANGED <<deleted, counted, chunks, baseRow, owed, edit, keyed, miscounted, edits>>

Goes(i, step) == indexing' = [indexing EXCEPT ![i].step = step]
At(i, step) == indexing[i] # Nothing /\ indexing[i].step = step

\* No key, or an embedding that failed: the document will be marked FAILED.
Refuse(i) ==
  /\ At(i, "loaded")
  /\ \/ ~ keyed /\ UNCHANGED indexFaults
     \/ keyed /\ Length[indexing[i].doc] > 0 /\ IndexTrouble("embed")
  /\ Goes(i, "failing")
  /\ UNCHANGED <<docRows, baseRow, jobVars, edit, keyed, causes, edits, runs>>

\* A document without text is ready at once.
ReadyEmpty(i) ==
  /\ At(i, "loaded")
  /\ keyed /\ Length[indexing[i].doc] = 0
  /\ docStatus' = [docStatus EXCEPT ![indexing[i].doc] = "READY"]
  /\ counted' = [counted EXCEPT ![indexing[i].doc] = 0]
  /\ indexing' = [indexing EXCEPT ![i] = Nothing]
  /\ UNCHANGED <<deleted, chunks, baseRow, jobVars, edit, keyed, causes, edits, runs,
                 indexFaults>>

\* The sum a transaction that indexes d takes over the documents that are not
\* deleted, or the document's own chunks when there is none.
SumWith(d) ==
  IF Live = {} THEN Length[d]
  ELSE CountOf(Live \ {d}) + IF d \in Live THEN Length[d] ELSE 0

\* The embeddings are there and the transaction that stores them begins.
BeginWrite(i) ==
  /\ At(i, "loaded")
  /\ keyed /\ Length[indexing[i].doc] > 0
  /\ LET d == indexing[i].doc
     IN indexing' = [indexing EXCEPT ![i] =
                       [@ EXCEPT !.step = "writing", !.took = chunks[d], !.sum = SumWith(d)]]
  /\ miscounted' = (miscounted \/ Writing # {} \/ Live = {})
  /\ UNCHANGED <<docRows, baseRow, jobVars, edit, keyed, overlaps, lost, edits, runs, indexFaults>>

\* A job that began to write beside this one has stored its chunks: those of the two
\* have the same (document_id, position), which is unique.
Collides(i) == ~ (chunks[indexing[i].doc] \subseteq indexing[i].took)

\* It commits, whatever became of the document: old chunks out, new ones in.
CommitWrite(i) ==
  /\ At(i, "writing")
  /\ ~ Collides(i)
  /\ LET d == indexing[i].doc IN
       /\ chunks' = [chunks EXCEPT ![d] = (@ \ indexing[i].took) \cup {indexing[i].run}]
       /\ counted' = [counted EXCEPT ![d] = Length[d]]
       /\ docStatus' = [docStatus EXCEPT ![d] = "READY"]
  /\ baseChunks' = indexing[i].sum
  /\ indexing' = [indexing EXCEPT ![i] = Nothing]
  /\ UNCHANGED <<deleted, baseDocs, jobVars, edit, keyed, causes, edits, runs, indexFaults>>

\* It does not: the index refuses the chunks, or the transaction fails otherwise.
Refused(i) ==
  /\ At(i, "writing")
  /\ Collides(i)
  /\ Goes(i, "failing")
  /\ UNCHANGED <<docRows, baseRow, jobVars, edit, keyed, causes, edits, runs, indexFaults>>

RollBack(i) ==
  /\ At(i, "writing")
  /\ IndexTrouble("write")
  /\ Goes(i, "failing")
  /\ UNCHANGED <<docRows, baseRow, jobVars, edit, keyed, causes, edits, runs>>

\* fail(), which swallows an error of its own.
Fail(i) ==
  /\ At(i, "failing")
  /\ \/ /\ docStatus' = [docStatus EXCEPT ![indexing[i].doc] = "FAILED"]
        /\ UNCHANGED <<lost, indexFaults>>
     \/ IndexTrouble("fail") /\ Drop(indexing[i].doc) /\ UNCHANGED docStatus
  /\ indexing' = [indexing EXCEPT ![i] = Nothing]
  /\ UNCHANGED <<deleted, counted, chunks, baseRow, jobVars, edit, keyed, overlaps, miscounted,
                 edits, runs>>

\* The worker dies; BullMQ gives the stalled job to another.
IndexCrash(i) ==
  /\ indexing[i] # Nothing
  /\ IndexTrouble("crash")
  /\ queued' = [queued EXCEPT ![indexing[i].doc] = @ + 1]
  /\ indexing' = [indexing EXCEPT ![i] = Nothing]
  /\ UNCHANGED <<docRows, baseRow, owed, edit, keyed, causes, edits, runs>>

IndexStep(i) ==
  \/ \E d \in Documents : Load(i, d)
  \/ Refuse(i) \/ ReadyEmpty(i) \/ BeginWrite(i) \/ CommitWrite(i) \/ Refused(i) \/ Fail(i)

Commit(e) == CommitReprocess(e) \/ CommitDelete(e)

KnowledgeNext ==
  \/ \E d \in Documents : AddDocument(d) \/ EnqueueIndex(d)
  \/ \E e \in Edits : Commit(e) \/ \E d \in Documents : BeginEdit(e, d)
  \/ \E i \in Indexers : IndexStep(i) \/ RollBack(i) \/ IndexCrash(i)

\* A request goes on to its end and a worker that lives works its queue off.
KnowledgeFairness ==
  /\ \A d \in Documents : WF_knowledgeVars(EnqueueIndex(d))
  /\ \A e \in Edits : WF_knowledgeVars(Commit(e))
  /\ \A i \in Indexers : WF_knowledgeVars(IndexStep(i))

KnowledgeSpec == KnowledgeInit /\ [][KnowledgeNext]_knowledgeVars /\ KnowledgeFairness

(***************************************************************************)
(* Properties                                                              *)
(***************************************************************************)
\* Unless a request or another job for the document ran while it was indexed,
\* what search() finds of it is one copy of its text when it is READY, as many
\* chunks as it says, and nothing once it is deleted.
SearchedAsStored ==
  \A d \in Documents \ overlaps :
    /\ docStatus[d] = "READY" /\ d \in Live =>
         /\ counted[d] = Length[d]
         /\ Cardinality(chunks[d]) = (IF Length[d] = 0 THEN 0 ELSE 1)
    /\ d \in deleted => chunks[d] = {}

\* Unless two transactions overlapped or a job finished in an emptied base, the
\* base has as many chunks as its documents: "counts stay honest" (indexer.ts).
\* Its documents are counted right unless one was deleted while another writer
\* of it was under way.
CountsStayHonest ==
  /\ miscounted \/ baseChunks = CountOf(Live)
  /\ overlaps # {} \/ baseDocs = Cardinality(Live)

\* What is searched, and what is counted.
IndexSound == SearchedAsStored /\ CountsStayHonest

\* A document that is waiting is READY, FAILED or deleted in the end, unless a
\* fault dropped its job: a crash of the worker does not.
DocumentsDone ==
  \A d \in Documents : docStatus[d] \in {"absent", "READY", "FAILED"} \/ d \in deleted \cup lost
DocumentsSettle == []<>DocumentsDone
=============================================================================
