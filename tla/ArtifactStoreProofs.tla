------------------------- MODULE ArtifactStoreProofs -------------------------
(***************************************************************************)
(* For any number of writers, contents and deleters: an address never      *)
(* holds a partial blob, and no recorded Artifact loses its blob without a *)
(* tombstone, whoever fails or dies and whenever.                          *)
(***************************************************************************)
EXTENDS ArtifactStore, TLAPS

-----------------------------------------------------------------------------
(* The inductive invariant.  What the two properties need is that a file is *)
(* whole before it is renamed, and that a tombstone is there from the step  *)
(* before the unlink on.                                                    *)

\* A content that was stored is still there, or its deletion is on record.
Accounted(d) == d \in Content /\ (blob[d] = "whole" \/ d \in tombstones)

\* What is known of a writer's content and staging file by its place.
WriterInv ==
    \A w \in Writer :
        /\ stage[w] # "idle" => content[w] \in Content
        /\ stage[w] = "synced" => staged[w] = "whole"
        /\ stage[w] \in {"returned", "inserted", "recorded"} => Accounted(content[w])
        /\ w \in artifacts => stage[w] # "idle" /\ Accounted(content[w])

\* A deleter works on a recorded Artifact, and unlinks behind a tombstone.
DeleterInv ==
    \A p \in Deleter :
        /\ purge[p].pc \in {"counted", "unlink", "quarantine"} => purge[p].at \in artifacts
        /\ purge[p].pc \in {"unlink", "quarantine"} => content[purge[p].at] \in tombstones

IInv ==
    /\ TypeOK
    /\ BlobsAreWhole
    /\ WriterInv
    /\ DeleterInv

LEMMA InitIInv == Init => IInv
<1> SUFFICES ASSUME Init PROVE IInv
  OBVIOUS
<1>1. TypeOK
  BY DEF Init, TypeOK, NoPurge
<1>2. BlobsAreWhole
  BY DEF Init, BlobsAreWhole
<1>3. WriterInv /\ DeleterInv
  BY DEF Init, WriterInv, DeleterInv, NoPurge
<1> QED  BY <1>1, <1>2, <1>3 DEF IInv

-----------------------------------------------------------------------------
(* Steps.                                                                   *)

\* Steps of a writer that leave blobs, tombstones and tables alone.
LEMMA StagingStep ==
  ASSUME IInv, NEW w \in Writer,
         stage_bytes(w) \/ sync(w) \/ write_raises(w) \/ writer_dies(w)
  PROVE  IInv'
<1> USE DEF IInv, GoesTo, tables, files
<1>1. CASE stage_bytes(w)
  BY <1>1 DEF stage_bytes, TypeOK, BlobsAreWhole, WriterInv, DeleterInv, Accounted
<1>2. CASE sync(w)
  BY <1>2 DEF sync, TypeOK, BlobsAreWhole, WriterInv, DeleterInv, Accounted
<1>3. CASE write_raises(w)
  BY <1>3 DEF write_raises, TypeOK, BlobsAreWhole, WriterInv, DeleterInv, Accounted
<1>4. CASE writer_dies(w)
  BY <1>4 DEF writer_dies, TypeOK, BlobsAreWhole, WriterInv, DeleterInv, Accounted
<1> QED  BY <1>1, <1>2, <1>3, <1>4

\* A writer that finds the blob there trusts it, and BlobsAreWhole says it may.
LEMMA WriteBlobStep ==
  ASSUME IInv, NEW w \in Writer, NEW d \in Content, write_blob(w, d)
  PROVE  IInv'
<1> USE DEF IInv, write_blob, GoesTo, tables, files
<1>1. TypeOK' /\ BlobsAreWhole'
  BY DEF TypeOK, BlobsAreWhole
<1>2. w \notin artifacts
  BY DEF WriterInv
<1>3. blob[d] # "absent" => blob[d] = "whole"
  BY DEF TypeOK, BlobsAreWhole
<1>4. WriterInv'
  BY <1>2, <1>3 DEF TypeOK, WriterInv, Accounted
<1>5. DeleterInv'
  BY <1>2 DEF TypeOK, DeleterInv
<1> QED  BY <1>1, <1>4, <1>5

\* The rename publishes a staging file that is whole.
LEMMA ReplaceStep ==
  ASSUME IInv, NEW w \in Writer, replace(w)
  PROVE  IInv'
<1> USE DEF IInv, replace, GoesTo, tables, files
<1>1. content[w] \in Content /\ staged[w] = "whole"
  BY DEF WriterInv
<1>2. TypeOK' /\ BlobsAreWhole'
  BY <1>1 DEF TypeOK, BlobsAreWhole
<1>3. \A d \in Content : Accounted(d) => Accounted(d)'
  BY <1>1 DEF TypeOK, Accounted
<1>4. Accounted(content[w])'
  BY <1>1 DEF TypeOK, Accounted
<1>5. WriterInv'
  BY <1>1, <1>3, <1>4 DEF TypeOK, WriterInv, Accounted
<1>6. DeleterInv'
  BY DEF DeleterInv
<1> QED  BY <1>2, <1>5, <1>6

LEMMA InsertStep ==
  ASSUME IInv, NEW w \in Writer, insert_artifact(w) \/ insert_evidence_record(w)
  PROVE  IInv'
<1> USE DEF IInv, GoesTo, tables, files
<1>1. CASE insert_artifact(w)
  BY <1>1 DEF insert_artifact, TypeOK, BlobsAreWhole, WriterInv, DeleterInv, Accounted
<1>2. CASE insert_evidence_record(w)
  BY <1>2 DEF insert_evidence_record, TypeOK, BlobsAreWhole, WriterInv, DeleterInv, Accounted
<1> QED  BY <1>1, <1>2

\* Steps of a deleter that touch no file.
LEMMA ChoosingStep ==
  ASSUME IInv, NEW p \in Deleter,
         \/ \E r \in Run : list_evidence_for_run(p, r)
         \/ \E w \in Writer : next_artifact(p, w)
         \/ deleter_ends(p)
  PROVE  IInv'
<1> USE DEF IInv, tables, files
<1>1. ASSUME NEW r \in Run, list_evidence_for_run(p, r) PROVE IInv'
  BY <1>1 DEF list_evidence_for_run, TypeOK, BlobsAreWhole, WriterInv, DeleterInv, Accounted
<1>2. ASSUME NEW w \in Writer, next_artifact(p, w) PROVE IInv'
  <2>1. TypeOK'
    BY <1>2 DEF next_artifact, TypeOK
  <2>2. DeleterInv'
    BY <1>2 DEF next_artifact, TypeOK, DeleterInv
  <2> QED  BY <1>2, <2>1, <2>2 DEF next_artifact, BlobsAreWhole, WriterInv, Accounted
<1>3. CASE deleter_ends(p)
  BY <1>3 DEF deleter_ends, NoPurge, TypeOK, BlobsAreWhole, WriterInv, DeleterInv, Accounted
<1> QED  BY <1>1, <1>2, <1>3

\* The tombstone of a purge or a quarantine.
LEMMA TombstoneStep ==
  ASSUME IInv, NEW p \in Deleter,
         write_tombstone(p) \/ \E w \in Writer : quarantine(p, w)
  PROVE  IInv'
<1> USE DEF IInv, Deletes, tables, files
<1>1. CASE write_tombstone(p)
  <2> USE <1>1 DEF write_tombstone
  <2>1. purge[p].at \in artifacts /\ purge[p].at \in Writer /\ content[purge[p].at] \in Content
    BY DEF DeleterInv, WriterInv, TypeOK
  <2>2. TypeOK'
    BY <2>1 DEF TypeOK
  <2>3. tombstones \subseteq tombstones'
    OBVIOUS
  <2>4. WriterInv' /\ BlobsAreWhole'
    BY <2>3 DEF WriterInv, BlobsAreWhole, Accounted
  <2>5. DeleterInv'
    BY <2>1, <2>3 DEF TypeOK, DeleterInv
  <2> QED  BY <2>2, <2>4, <2>5
<1>2. ASSUME NEW w \in Writer, quarantine(p, w) PROVE IInv'
  <2> USE <1>2 DEF quarantine
  <2>1. content[w] \in Content
    BY DEF WriterInv
  <2>2. TypeOK'
    BY <2>1 DEF TypeOK
  <2>3. tombstones \subseteq tombstones'
    OBVIOUS
  <2>4. WriterInv' /\ BlobsAreWhole'
    BY <2>3 DEF WriterInv, BlobsAreWhole, Accounted
  <2>5. DeleterInv'
    BY <2>3 DEF TypeOK, DeleterInv
  <2> QED  BY <2>2, <2>4, <2>5
<1> QED  BY <1>1, <1>2

\* A blob is only unlinked behind its tombstone.
LEMMA UnlinkStep ==
  ASSUME IInv, NEW p \in Deleter, unlink(p) \/ delete_quarantined(p)
  PROVE  IInv'
<1> USE DEF IInv, Deletes, tables, files
<1> DEFINE gone == content[purge[p].at]
<1>1. gone \in tombstones /\ tombstones \subseteq Content
  BY DEF DeleterInv, TypeOK, unlink, delete_quarantined
<1>2. /\ blob' = blob \/ blob' = [blob EXCEPT ![gone] = "absent"]
      /\ \/ purge' = [purge EXCEPT ![p] = NoPurge]
         \/ purge' = [purge EXCEPT ![p] =
                       [pc |-> "next", at |-> None, todo |-> purge[p].todo]]
      /\ UNCHANGED <<tombstones, staged, content, stage, tables>>
  BY DEF unlink, delete_quarantined
<1> HIDE DEF gone
<1>3. \A d \in Content : Accounted(d) => Accounted(d)'
  BY <1>1, <1>2 DEF TypeOK, Accounted
<1>4. TypeOK' /\ BlobsAreWhole'
  BY <1>1, <1>2 DEF TypeOK, BlobsAreWhole, NoPurge
<1>5. WriterInv'
  BY <1>2, <1>3 DEF WriterInv, Accounted
<1>6. DeleterInv'
  BY <1>2 DEF TypeOK, DeleterInv, NoPurge
<1> QED  BY <1>4, <1>5, <1>6

LEMMA NextIInv == IInv /\ [Next]_vars => IInv'
<1> SUFFICES ASSUME IInv, [Next]_vars PROVE IInv'
  OBVIOUS
<1>1. CASE UNCHANGED vars
  BY <1>1 DEF vars, IInv, TypeOK, BlobsAreWhole, WriterInv, DeleterInv, Accounted
<1>2. ASSUME NEW w \in Writer, Write(w) PROVE IInv'
  BY <1>2, StagingStep, WriteBlobStep, ReplaceStep, InsertStep DEF Write
<1>3. ASSUME NEW p \in Deleter, Delete(p) PROVE IInv'
  BY <1>3, ChoosingStep, TombstoneStep, UnlinkStep DEF Delete
<1> QED  BY <1>1, <1>2, <1>3 DEF Next

\* IInv holds in every state.
THEOREM Invariant == Spec => []IInv
  BY InitIInv, NextIInv, PTL DEF Spec

\* The files, the tables and the processes stay well typed.
THEOREM TypeCorrect == Spec => []TypeOK
  BY Invariant, PTL DEF IInv

\* write_blob's promise to its next caller: a file at a blob's address is whole,
\* however many writers race to it and wherever one of them dies.
THEOREM BlobsAlwaysWhole == Spec => []BlobsAreWhole
  BY Invariant, PTL DEF IInv

\* Neither _purge_evidence nor quarantine_and_delete_artifact makes the blob of
\* a recorded Artifact disappear without its tombstone.
THEOREM NothingEverLostSilently == Spec => []NothingLostSilently
<1>1. IInv => NothingLostSilently
  BY DEF IInv, TypeOK, WriterInv, Accounted, NothingLostSilently
<1> QED  BY <1>1, Invariant, PTL

-----------------------------------------------------------------------------
(* The store is the one BlobStore describes.  Storing takes effect with the *)
(* rename, or when the file is found; everything before it is a stutter.    *)

\* A step that leaves the blobs, the tombstones and who was given what alone.
LEMMA Unseen ==
  ASSUME UNCHANGED <<blob, tombstones>>,
         Holders' = Holders, \A w \in Holders : content'[w] = content[w]
  PROVE  UNCHANGED Blobs!blobStoreVars
<1>1. Given' = Given
  BY DEF Given
<1> QED  BY <1>1 DEF Stored, Blobs!blobStoreVars

\* w is given an Artifact of d.
LEMMA GivenOne ==
  ASSUME NEW w \in Writer, NEW d, content'[w] = d,
         Holders' = Holders \union {w}, \A v \in Holders \ {w} : content'[v] = content[v],
         w \in Holders => content[w] = d
  PROVE  Given' = Given \union {<<w, d>>}
BY DEF Given

\* write_blob takes effect when it finds the file or renames its own.
LEMMA StoringImplements ==
  ASSUME IInv, NEW w \in Writer,
         replace(w) \/ \E d \in Content : write_blob(w, d)
  PROVE  [Blobs!BlobStoreNext]_(Blobs!blobStoreVars)
<1> USE DEF IInv, TypeOK, GoesTo, tables, files
<1>1. CASE replace(w)
  <2> DEFINE d == content[w]
  <2>1. d \in Content /\ staged[w] = "whole"
    BY <1>1 DEF replace, WriterInv
  <2>2. Stored' = Stored \union {d}
    BY <1>1, <2>1 DEF replace, Stored
  <2>3. Holders' = Holders \union {w} /\ content' = content /\ tombstones' = tombstones
    BY <1>1 DEF replace, Holders
  <2>4. Given' = Given \union {<<w, d>>}
    BY <2>3, GivenOne
  <2>5. Blobs!write_blob(w, d)
    BY <2>2, <2>3, <2>4 DEF Blobs!write_blob
  <2> QED  BY <2>1, <2>5 DEF Blobs!BlobStoreNext
<1>2. ASSUME NEW d \in Content, write_blob(w, d)
      PROVE  [Blobs!BlobStoreNext]_(Blobs!blobStoreVars)
  <2>1. w \notin Holders
    BY <1>2 DEF write_blob, WriterInv, Holders
  <2>2. /\ UNCHANGED <<blob, tombstones, artifacts>> /\ content' = [content EXCEPT ![w] = d]
        /\ stage' = [stage EXCEPT ![w] = IF blob[d] = "absent" THEN "absent" ELSE "returned"]
    BY <1>2 DEF write_blob
  <2>3. CASE blob[d] = "absent"
    <3>1. Holders' = Holders
      BY <2>1, <2>2, <2>3 DEF Holders
    <3>2. \A v \in Holders : content'[v] = content[v]
      BY <2>1, <2>2 DEF Holders
    <3> QED  BY <2>2, <3>1, <3>2, Unseen
  <2>4. CASE blob[d] # "absent"
    <3>1. d \in Stored
      BY <2>4 DEF BlobsAreWhole, Stored
    <3>2. Stored' = Stored \union {d}
      BY <2>2, <3>1 DEF Stored
    <3>3. Holders' = Holders \union {w}
      BY <2>2, <2>4 DEF Holders
    <3>4. content'[w] = d /\ \A v \in Holders \ {w} : content'[v] = content[v]
      BY <2>2 DEF Holders
    <3>5. Given' = Given \union {<<w, d>>}
      BY <2>1, <3>3, <3>4, GivenOne
    <3>6. Blobs!write_blob(w, d)
      BY <2>2, <3>2, <3>5 DEF Blobs!write_blob
    <3> QED  BY <3>6 DEF Blobs!BlobStoreNext
  <2> QED  BY <2>3, <2>4
<1> QED  BY <1>1, <1>2

\* A writer that dies before its Artifact has a row takes it along; nothing
\* else that a writer does is seen.
LEMMA WritingImplements ==
  ASSUME IInv, NEW w \in Writer,
         \/ stage_bytes(w) \/ sync(w) \/ write_raises(w) \/ writer_dies(w)
         \/ insert_artifact(w) \/ insert_evidence_record(w)
  PROVE  [Blobs!BlobStoreNext]_(Blobs!blobStoreVars)
<1> USE DEF IInv, TypeOK, GoesTo, tables, files
<1>1. UNCHANGED <<blob, tombstones, content>>
  BY DEF stage_bytes, sync, write_raises, writer_dies, insert_artifact, insert_evidence_record
<1>2. CASE Holders' = Holders
  BY <1>1, <1>2, Unseen
<1>3. CASE Holders' # Holders
  <2>1. writer_dies(w) /\ w \notin artifacts
    BY <1>3 DEF stage_bytes, sync, write_raises, writer_dies, insert_artifact,
       insert_evidence_record, Holders
  <2>2. Holders' = Holders \ {w}
    BY <2>1 DEF writer_dies, Holders
  <2>3. Given' = Given \ {<<w, content[w]>>}
    BY <1>1, <2>2 DEF Given
  <2>4. stage[w] # "idle"
    BY <2>1 DEF writer_dies
  <2>5. content[w] \in Content
    BY <2>4 DEF WriterInv
  <2>6. Blobs!forget(w, content[w])
    BY <1>1, <2>3 DEF Blobs!forget, Stored
  <2> QED  BY <2>5, <2>6 DEF Blobs!BlobStoreNext
<1> QED  BY <1>2, <1>3

\* A deleter leaves tombstones of recorded Artifacts, and unlinks behind them.
LEMMA DeletingImplements ==
  ASSUME IInv, NEW p \in Deleter, Delete(p)
  PROVE  [Blobs!BlobStoreNext]_(Blobs!blobStoreVars)
<1> USE DEF IInv, TypeOK, Deletes, tables, files
<1>1. UNCHANGED <<content, stage, artifacts>>
  BY DEF Delete, list_evidence_for_run, next_artifact, quarantine, write_tombstone, unlink,
     delete_quarantined, deleter_ends
<1>2. Given' = Given /\ Holders' = Holders
  BY <1>1 DEF Given, Holders
<1>3. CASE UNCHANGED <<blob, tombstones>>
  BY <1>1, <1>2, <1>3, Unseen
<1>4. ASSUME NEW w \in artifacts, blob' = blob, tombstones' = tombstones \union {content[w]}
      PROVE  Blobs!BlobStoreNext
  <2>1. content[w] \in Content /\ <<w, content[w]>> \in Given
    BY <1>4 DEF WriterInv, Given, Holders
  <2>2. Blobs!write_tombstone(w, content[w])
    BY <1>2, <1>4, <2>1 DEF Blobs!write_tombstone, Stored
  <2> QED  BY <2>1, <2>2 DEF Blobs!BlobStoreNext
<1>5. ASSUME NEW d \in tombstones, tombstones' = tombstones, blob' = [blob EXCEPT ![d] = "absent"]
      PROVE  Blobs!BlobStoreNext
  <2>1. Stored' = Stored \ {d}
    BY <1>5 DEF Stored
  <2>2. Blobs!unlink(d)
    BY <1>2, <1>5, <2>1 DEF Blobs!unlink
  <2> QED  BY <2>2 DEF Blobs!BlobStoreNext
<1>6. CASE (\E r \in Run : list_evidence_for_run(p, r)) \/ (\E w \in Writer : next_artifact(p, w))
           \/ deleter_ends(p)
  BY <1>3, <1>6 DEF list_evidence_for_run, next_artifact, deleter_ends
<1>7. CASE write_tombstone(p)
  <2>1. purge[p].at \in artifacts
    BY <1>7 DEF write_tombstone, DeleterInv
  <2> QED  BY <1>3, <1>4, <1>7, <2>1 DEF write_tombstone
<1>8. ASSUME NEW w \in Writer, quarantine(p, w) PROVE Blobs!BlobStoreNext
  BY <1>4, <1>8 DEF quarantine
<1>9. CASE unlink(p) \/ delete_quarantined(p)
  <2>1. content[purge[p].at] \in tombstones
    BY <1>9 DEF unlink, delete_quarantined, DeleterInv
  <2> QED  BY <1>3, <1>5, <1>9, <2>1 DEF unlink, delete_quarantined
<1> QED  BY <1>6, <1>7, <1>8, <1>9 DEF Delete

\* Staging, racing, failing and deleting come to what BlobStore promises, for
\* any number of writers, contents and deleters.
THEOREM Implements == Spec => ImplementsBlobStore
<1>1. Init => Blobs!BlobStoreInit
  BY DEF Init, Stored, Given, Holders, Blobs!BlobStoreInit
<1>2. IInv /\ [Next]_vars => [Blobs!BlobStoreNext]_(Blobs!blobStoreVars)
  <2> SUFFICES ASSUME IInv, [Next]_vars PROVE [Blobs!BlobStoreNext]_(Blobs!blobStoreVars)
    OBVIOUS
  <2>1. CASE UNCHANGED vars
    BY <2>1, Unseen DEF vars, Holders
  <2>2. ASSUME NEW w \in Writer, Write(w)
        PROVE  [Blobs!BlobStoreNext]_(Blobs!blobStoreVars)
    BY <2>2, StoringImplements, WritingImplements DEF Write
  <2>3. ASSUME NEW p \in Deleter, Delete(p)
        PROVE  [Blobs!BlobStoreNext]_(Blobs!blobStoreVars)
    BY <2>3, DeletingImplements
  <2> QED  BY <2>1, <2>2, <2>3 DEF Next
<1> QED  BY <1>1, <1>2, Invariant, PTL DEF Spec, ImplementsBlobStore, Blobs!BlobStoreSpec

\* What the callers may rely on follows from the abstract store alone: an
\* Artifact they were given can be read, or its tombstone says why not.
THEOREM GivenIsReadable == Spec => []Blobs!Readable
<1>1. Blobs!BlobStoreInit => Blobs!Readable
  BY DEF Blobs!BlobStoreInit, Blobs!Readable
<1>2. Blobs!Readable /\ [Blobs!BlobStoreNext]_(Blobs!blobStoreVars) => Blobs!Readable'
  <2> SUFFICES ASSUME Blobs!Readable, [Blobs!BlobStoreNext]_(Blobs!blobStoreVars)
               PROVE  Blobs!Readable'
    OBVIOUS
  <2> USE DEF Blobs!Readable
  <2>1. CASE UNCHANGED Blobs!blobStoreVars
    BY <2>1 DEF Blobs!blobStoreVars
  <2>2. ASSUME NEW w \in Writer, NEW d \in Content, Blobs!write_blob(w, d)
        PROVE  Blobs!Readable'
    BY <2>2 DEF Blobs!write_blob
  <2>3. ASSUME NEW w \in Writer, NEW d \in Content, Blobs!forget(w, d)
        PROVE  Blobs!Readable'
    BY <2>3 DEF Blobs!forget
  <2>4. ASSUME NEW w \in Writer, NEW d \in Content, Blobs!write_tombstone(w, d)
        PROVE  Blobs!Readable'
    BY <2>4 DEF Blobs!write_tombstone
  <2>5. ASSUME NEW d \in Content, Blobs!unlink(d)
        PROVE  Blobs!Readable'
    BY <2>5 DEF Blobs!unlink
  <2> QED  BY <2>1, <2>2, <2>3, <2>4, <2>5 DEF Blobs!BlobStoreNext
<1>3. ImplementsBlobStore => []Blobs!Readable
  BY <1>1, <1>2, PTL DEF ImplementsBlobStore, Blobs!BlobStoreSpec
<1> QED  BY <1>3, Implements
=============================================================================
