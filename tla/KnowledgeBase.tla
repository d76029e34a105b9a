--------------------------- MODULE KnowledgeBase ---------------------------
(***************************************************************************)
(* The knowledge base: uploads and deletions of documents (the routes of   *)
(* src/web/server.py and of the dashboard, src/db.py, src/kb_store.py) and *)
(* the two ways a call is answered from it, the kb_search tool and the     *)
(* speculative prefetch (src/kb.py, src/tools.py, src/predictive.py), the  *)
(* second of which fills the semantic cache.  A document is its row in     *)
(* KbDocument and its vectors in kb_chunks; it is uploaded and deleted at  *)
(* most once, since every upload makes a new id.                           *)
(***************************************************************************)
EXTENDS Naturals

CONSTANTS
  Docs,
  Businesses,    \* each with a kb_id and a cache namespace of its own
  MaxKbFaults    \* bound: failed calls of the database and of the embeddings API

ASSUME KbAssumption == MaxKbFaults \in Nat

VARIABLES
  base,        \* the kb_id a document is uploaded to
  document,    \* its row: "none", "ingesting", "indexed", "failed"
  chunks,      \* the documents whose vectors are in kb_chunks
  upload,      \* the POST: where it is
  purge,       \* the DELETE of the dashboard: where it is
  late,        \* history variable: the DELETEs that began after the upload had ended
  answers,     \* the semantic cache: [to, doc]
  told,        \* history variable: the last answer of a call, or Untold
  kbFaults

kbVars == <<base, document, chunks, upload, purge, late, answers, told, kbFaults>>
ingestion == <<base, document, chunks, upload, purge, late>>

AnswersGiven == [to : Businesses, doc : Docs]
Untold == [to |-> "none", doc |-> "none"]

KbInit ==
  /\ base \in [Docs -> Businesses]
  /\ document = [d \in Docs |-> "none"] /\ chunks = {}
  /\ upload = [d \in Docs |-> "new"] /\ purge = [d \in Docs |-> "new"] /\ late = {}
  /\ answers = {} /\ told = Untold /\ kbFaults = 0

KbFails == kbFaults < MaxKbFaults /\ kbFaults' = kbFaults + 1
KbWorks == UNCHANGED kbFaults

UploadAt(d, pc, next) == upload[d] = pc /\ upload' = [upload EXCEPT ![d] = next]
PurgeAt(d, pc, next) == purge[d] = pc /\ purge' = [purge EXCEPT ![d] = next]
SetRow(d, status) == document' = [document EXCEPT ![d] = status]

(* An UPDATE of a row that is gone changes nothing. *)
UpdateRow(d, status) ==
  IF document[d] = "none" THEN UNCHANGED document ELSE SetRow(d, status)

(* ---- kb_upload and kb_text ---- *)

(* Without a pool insert_kb_document returns and the ingestion goes on with *)
(* no row; an exception ends the request.                                   *)
InsertDocument(d) ==
  /\ \/ KbWorks /\ UploadAt(d, "new", "embed") /\ SetRow(d, "ingesting")
     \/ KbFails /\ UploadAt(d, "new", "embed") /\ UNCHANGED document
     \/ KbFails /\ UploadAt(d, "new", "over") /\ UNCHANGED document
  /\ UNCHANGED <<base, chunks, purge, late, answers, told>>

(* The text, the schema and the embeddings: no text or an error. *)
Embed(d) ==
  /\ UploadAt(d, "embed", "commit") \/ UploadAt(d, "embed", "fail")
  /\ UNCHANGED <<base, document, chunks, purge, late, answers, told, kbFaults>>

\* Mutant of Commit: a failed transaction is taken for a committed one.
CommitUnchecked(d) ==
  /\ UploadAt(d, "commit", "indexed")
  /\ \/ KbWorks /\ chunks' = chunks \cup {d}
     \/ KbFails /\ UNCHANGED chunks
  /\ UNCHANGED <<base, document, purge, late, answers, told>>

(* DELETE and INSERT of the vectors, in one transaction. *)
Commit(d) ==
  /\ \/ KbWorks /\ UploadAt(d, "commit", "indexed") /\ chunks' = chunks \cup {d}
     \/ KbFails /\ UploadAt(d, "commit", "fail") /\ UNCHANGED chunks
  /\ UNCHANGED <<base, document, purge, late, answers, told>>

(* update_kb_document: an exception is taken for a failed ingestion. *)
MarkIndexed(d) ==
  /\ \/ KbWorks /\ UploadAt(d, "indexed", "over") /\ UpdateRow(d, "indexed")
     \/ KbFails /\ UploadAt(d, "indexed", "over") /\ UNCHANGED document
     \/ KbFails /\ UploadAt(d, "indexed", "fail") /\ UNCHANGED document
  /\ UNCHANGED <<base, chunks, purge, late, answers, told>>

\* Mutant of MarkIngestFailed: a status the dashboard does not know.
MarkError(d) ==
  /\ KbWorks /\ UploadAt(d, "fail", "over") /\ UpdateRow(d, "error")
  /\ UNCHANGED <<base, chunks, purge, late, answers, told>>

MarkIngestFailed(d) ==
  /\ \/ KbWorks /\ UploadAt(d, "fail", "over") /\ UpdateRow(d, "failed")
     \/ KbFails /\ UploadAt(d, "fail", "over") /\ UNCHANGED document
  /\ UNCHANGED <<base, chunks, purge, late, answers, told>>

(* ---- DELETE of the dashboard ---- *)

FindDocument(d) ==
  /\ document[d] # "none" /\ PurgeAt(d, "new", "vectors")
  /\ late' = IF upload[d] = "over" THEN late \cup {d} ELSE late
  /\ UNCHANGED <<base, document, chunks, upload, answers, told, kbFaults>>

\* Mutant of DeleteVectors: the row goes even if the purge failed.
DeleteVectorsAnyway(d) ==
  /\ PurgeAt(d, "vectors", "row")
  /\ \/ KbWorks /\ chunks' = chunks \ {d}
     \/ KbFails /\ UNCHANGED chunks
  /\ UNCHANGED <<base, document, upload, late, answers, told>>

(* kb_delete; a 502 keeps the row. *)
DeleteVectors(d) ==
  /\ \/ KbWorks /\ PurgeAt(d, "vectors", "row") /\ chunks' = chunks \ {d}
     \/ KbFails /\ PurgeAt(d, "vectors", "over") /\ UNCHANGED chunks
  /\ UNCHANGED <<base, document, upload, late, answers, told>>

DeleteRow(d) ==
  /\ PurgeAt(d, "row", "over")
  /\ \/ KbWorks /\ SetRow(d, "none")
     \/ KbFails /\ UNCHANGED document
  /\ UNCHANGED <<base, chunks, upload, late, answers, told>>

(* ---- the answers of a call of business b ---- *)

Told(b, d) == told' = [to |-> b, doc |-> d]

(* kb_search: retrieval in the knowledge base of the call. *)
KbSearch(b, d) ==
  /\ d \in chunks /\ base[d] = b
  /\ Told(b, d)
  /\ UNCHANGED <<ingestion, answers, kbFaults>>

(* The prefetch asks kb_answer without a kb_id, which searches every chunk; *)
(* a confident answer goes to the cache of the call.                        *)
KbAnswer(b, d) ==
  /\ d \in chunks
  /\ Told(b, d)
  /\ answers' \in {answers, answers \cup {[to |-> b, doc |-> d]}}
  /\ UNCHANGED <<ingestion, kbFaults>>

CachedAnswer(b, d) ==
  /\ [to |-> b, doc |-> d] \in answers
  /\ Told(b, d)
  /\ UNCHANGED <<ingestion, answers, kbFaults>>

KbNext ==
  \/ \E d \in Docs :
       \/ InsertDocument(d) \/ Embed(d) \/ Commit(d) \/ MarkIndexed(d) \/ MarkIngestFailed(d)
       \/ FindDocument(d) \/ DeleteVectors(d) \/ DeleteRow(d)
  \/ \E b \in Businesses, d \in Docs : KbSearch(b, d) \/ KbAnswer(b, d) \/ CachedAnswer(b, d)

KbSpec == KbInit /\ [][KbNext]_kbVars

-----------------------------------------------------------------------------

(* The types of the variables. *)
KbTypeOK ==
  /\ base \in [Docs -> Businesses]
  /\ document \in [Docs -> {"none", "ingesting", "indexed", "failed"}]
  /\ upload \in [Docs -> {"new", "embed", "commit", "indexed", "fail", "over"}]
  /\ purge \in [Docs -> {"new", "vectors", "row", "over"}]
  /\ chunks \subseteq Docs /\ late \subseteq Docs
  /\ answers \subseteq AnswersGiven /\ told \in AnswersGiven \cup {Untold} /\ kbFaults \in Nat

(* What the dashboard shows as indexed can be found by a call, until its   *)
(* deletion has purged it: however the ingestion failed on the way.        *)
IndexedIsSearchable ==
  \A d \in Docs : document[d] = "indexed" /\ purge[d] \in {"new", "vectors"} => d \in chunks

(* A document deleted after its ingestion never leaves vectors behind with *)
(* no row to delete them by, whichever call of either side fails.          *)
VectorsKeepAHandle ==
  \A d \in late : d \in chunks => document[d] # "none"

(* Rows and vectors, through every failing upload and deletion. *)
KbInv == KbTypeOK /\ IndexedIsSearchable /\ VectorsKeepAHandle

(* Comment of the DELETE route: deleting the row with the purge not done   *)
(* "would orphan the vectors with no UI handle to retry the purge".  Here  *)
(* with no failing call.                                                   *)
NoOrphanVectors ==
  kbFaults = 0 => \A d \in chunks : document[d] # "none"

(* Comment of search: a kb_id per call is there "to prevent cross-business *)
(* answer leakage at scale".                                               *)
OwnFacts == told # Untold => base[told.doc] = told.to

(* A call is not told what is in a document that was deleted. *)
DeletedNotTold == [][told' # told => told'.doc \in chunks]_kbVars
=============================================================================
