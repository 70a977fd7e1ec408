---------------------------- MODULE ArtifactStore ----------------------------
(***************************************************************************)
(* The content-addressed blob store and its metadata rows: writers that    *)
(* stage, sync and rename a blob and then record it, and the two ways a    *)
(* blob is deleted, `harness cleanup --purge` and the incident response.   *)
(* Writers and deleters are separate processes; each may fail or die       *)
(* between two steps.                                                      *)
(***************************************************************************)
EXTENDS Naturals, FiniteSets

CONSTANTS Writer,    \* calls of write_blob: each makes one Artifact
          Content,   \* what they store, after redaction; a content is its digest
          Run,       \* run ids
          RunOf,     \* the Run each writer's evidence belongs to
          Deleter,   \* processes that purge a Run or handle an incident
          None

ASSUME StoreAssumption ==
    /\ RunOf \in [Writer -> Run]
    /\ None \notin Writer
    /\ None \notin Content

VARIABLES blob,        \* the file at blob_path_for_digest
          tombstones,  \* contents that have a .tombstone file
          staged,      \* the file each writer has under staging/
          content,     \* what each writer was asked to store
          stage,       \* where each writer is
          artifacts,   \* table artifacts: the writers whose Artifact has its row
          evidence,    \* table evidence_records: those an EvidenceRecord refers to
          purge        \* what each deleter is doing

vars == <<blob, tombstones, staged, content, stage, artifacts, evidence, purge>>
files == <<blob, tombstones, staged>>
tables == <<artifacts, evidence>>

NoPurge == [pc |-> "idle", todo |-> {}, at |-> None]

Init ==
    /\ blob = [d \in Content |-> "absent"]
    /\ tombstones = {}
    /\ staged = [w \in Writer |-> "none"]
    /\ content = [w \in Writer |-> None]
    /\ stage = [w \in Writer |-> "idle"]
    /\ artifacts = {}
    /\ evidence = {}
    /\ purge = [p \in Deleter |-> NoPurge]

-----------------------------------------------------------------------------
(* A writer.                                                                *)

GoesTo(w, next) == stage' = [stage EXCEPT ![w] = next]

\* write_blob up to final_path.exists(): a file that is there is not written
\* again.  (A content above the quota is refused before anything is done.)
write_blob(w, d) ==
    /\ stage[w] = "idle"
    /\ content' = [content EXCEPT ![w] = d]
    /\ GoesTo(w, IF blob[d] = "absent" THEN "absent" ELSE "returned")
    /\ UNCHANGED <<files, tables, purge>>

MutantStageBytes(w) ==
    /\ stage[w] = "absent"
    /\ blob' = [blob EXCEPT ![content[w]] = "partial"]
    /\ staged' = [staged EXCEPT ![w] = "partial"]
    /\ GoesTo(w, "writing")
    /\ UNCHANGED <<tombstones, content, tables, purge>>

\* open and write the staging file.
stage_bytes(w) ==
    /\ stage[w] = "absent"
    /\ staged' = [staged EXCEPT ![w] = "partial"]
    /\ GoesTo(w, "writing")
    /\ UNCHANGED <<blob, tombstones, content, tables, purge>>

\* flush and fsync.
sync(w) ==
    /\ stage[w] = "writing"
    /\ staged' = [staged EXCEPT ![w] = "whole"]
    /\ GoesTo(w, "synced")
    /\ UNCHANGED <<blob, tombstones, content, tables, purge>>

\* os.replace, also over a blob another writer has put there meanwhile.
replace(w) ==
    /\ stage[w] = "synced"
    /\ blob' = [blob EXCEPT ![content[w]] = staged[w]]
    /\ staged' = [staged EXCEPT ![w] = "none"]
    /\ GoesTo(w, "returned")
    /\ UNCHANGED <<tombstones, content, tables, purge>>

\* A step raises: the finally clause removes the staging file.
write_raises(w) ==
    /\ stage[w] \in {"absent", "writing", "synced"}
    /\ staged' = [staged EXCEPT ![w] = "none"]
    /\ GoesTo(w, "raised")
    /\ UNCHANGED <<blob, tombstones, content, tables, purge>>

\* The process dies: the staging file stays.
writer_dies(w) ==
    /\ stage[w] \in {"absent", "writing", "synced", "returned", "inserted"}
    /\ GoesTo(w, "dead")
    /\ UNCHANGED <<files, content, tables, purge>>

\* The caller persists the Artifact, then the EvidenceRecord that refers to it.
insert_artifact(w) ==
    /\ stage[w] = "returned"
    /\ artifacts' = artifacts \union {w}
    /\ GoesTo(w, "inserted")
    /\ UNCHANGED <<files, content, evidence, purge>>

insert_evidence_record(w) ==
    /\ stage[w] = "inserted"
    /\ evidence' = evidence \union {w}
    /\ GoesTo(w, "recorded")
    /\ UNCHANGED <<files, content, artifacts, purge>>

-----------------------------------------------------------------------------
(* A deleter.                                                               *)

Deletes(p, next, at) ==
    purge' = [purge EXCEPT ![p] = [pc |-> next, at |-> at, todo |-> purge[p].todo]]

\* _purge_evidence lists the evidence of its Run once.
list_evidence_for_run(p, r) ==
    /\ purge[p].pc = "idle"
    /\ purge' = [purge EXCEPT ![p] = [pc |-> "next", at |-> None,
                                      todo |-> {w \in evidence : RunOf[w] = r}]]
    /\ UNCHANGED <<files, content, stage, tables>>

SharedBy(d) == Cardinality({v \in artifacts : content[v] = d})

\* get_artifact and the reference count: an Artifact without a row, or one
\* whose content another row refers to, is skipped.
next_artifact(p, w) ==
    /\ purge[p].pc = "next"
    /\ w \in purge[p].todo
    /\ LET unshared == w \in artifacts /\ SharedBy(content[w]) <= 1 IN
        purge' = [purge EXCEPT ![p] = [pc |-> IF unshared THEN "counted" ELSE "next",
                                       at |-> IF unshared THEN w ELSE None,
                                       todo |-> purge[p].todo \ {w}]]
    /\ UNCHANGED <<files, content, stage, tables>>

MutantUnlinksFirst(p) ==
    /\ purge[p].pc = "counted"
    /\ blob' = [blob EXCEPT ![content[purge[p].at]] = "absent"]
    /\ Deletes(p, "unlink", purge[p].at)
    /\ UNCHANGED <<tombstones, staged, content, stage, tables>>

\* The blob exists: its tombstone is written.
write_tombstone(p) ==
    /\ purge[p].pc = "counted"
    /\ IF blob[content[purge[p].at]] = "absent"
       THEN Deletes(p, "next", None) /\ UNCHANGED tombstones
       ELSE /\ tombstones' = tombstones \union {content[purge[p].at]}
            /\ Deletes(p, "unlink", purge[p].at)
    /\ UNCHANGED <<blob, staged, content, stage, tables>>

\* blob_path.unlink(): FileNotFoundError if the file is gone meanwhile, which
\* ends the command.
unlink(p) ==
    /\ purge[p].pc = "unlink"
    /\ IF blob[content[purge[p].at]] = "absent"
       THEN purge' = [purge EXCEPT ![p] = NoPurge] /\ UNCHANGED blob
       ELSE /\ blob' = [blob EXCEPT ![content[purge[p].at]] = "absent"]
            /\ Deletes(p, "next", None)
    /\ UNCHANGED <<tombstones, staged, content, stage, tables>>

\* quarantine_and_delete_artifact looks at no count and no policy.
quarantine(p, w) ==
    /\ purge[p].pc = "idle"
    /\ w \in artifacts
    /\ tombstones' = tombstones \union {content[w]}
    /\ Deletes(p, "quarantine", w)
    /\ UNCHANGED <<blob, staged, content, stage, tables>>

delete_quarantined(p) ==
    /\ purge[p].pc = "quarantine"
    /\ blob' = [blob EXCEPT ![content[purge[p].at]] = "absent"]
    /\ purge' = [purge EXCEPT ![p] = NoPurge]
    /\ UNCHANGED <<tombstones, staged, content, stage, tables>>

\* The command ends, or is killed at any point.
deleter_ends(p) ==
    /\ purge[p].pc # "idle"
    /\ purge' = [purge EXCEPT ![p] = NoPurge]
    /\ UNCHANGED <<files, content, stage, tables>>

Write(w) ==
    \/ \E d \in Content : write_blob(w, d)
    \/ stage_bytes(w) \/ sync(w) \/ replace(w) \/ write_raises(w) \/ writer_dies(w)
    \/ insert_artifact(w) \/ insert_evidence_record(w)

Delete(p) ==
    \/ \E r \in Run : list_evidence_for_run(p, r)
    \/ \E w \in Writer : next_artifact(p, w) \/ quarantine(p, w)
    \/ write_tombstone(p) \/ unlink(p) \/ delete_quarantined(p) \/ deleter_ends(p)

Next == (\E w \in Writer : Write(w)) \/ (\E p \in Deleter : Delete(p))

Spec == Init /\ [][Next]_vars

-----------------------------------------------------------------------------
TypeOK ==
    /\ blob \in [Content -> {"absent", "partial", "whole"}]
    /\ tombstones \in SUBSET Content
    /\ staged \in [Writer -> {"none", "partial", "whole"}]
    /\ content \in [Writer -> Content \union {None}]
    /\ stage \in [Writer -> {"idle", "absent", "writing", "synced", "returned", "raised",
                             "inserted", "recorded", "dead"}]
    /\ artifacts \in SUBSET Writer
    /\ evidence \in SUBSET Writer
    /\ purge \in [Deleter -> [pc : {"idle", "next", "counted", "unlink", "quarantine"},
                              todo : SUBSET Writer, at : Writer \union {None}]]

\* Whoever writes, fails or dies, a file at a blob's address holds all of the
\* content: the next writer of that content, who trusts the file, may.
BlobsAreWhole == \A d \in Content : blob[d] # "partial"

\* No evidence disappears without a trace: the blob of an Artifact that has a
\* row is there, or its tombstone is, whoever deleted it and however far the
\* deletion got, and however many writers and deleters meet at one content.
NothingLostSilently ==
    \A w \in artifacts : blob[content[w]] = "whole" \/ content[w] \in tombstones

-----------------------------------------------------------------------------
(* What the store is taken for.                                             *)

Stored == {d \in Content : blob[d] = "whole"}

\* Those who were given an Artifact, unless they died before it had its row.
Holders == artifacts \union {w \in Writer : stage[w] \in {"returned", "inserted", "recorded"}}

Given == {<<w, content[w]>> : w \in Holders}

Blobs == INSTANCE BlobStore WITH stored <- Stored, artifacts <- Given

\* From outside, storing a blob is one step whoever races to its address, and
\* deleting it two, of which the tombstone is the first.
ImplementsBlobStore == Blobs!BlobStoreSpec
=============================================================================
