------------------------------ MODULE BlobStore ------------------------------
(***************************************************************************)
(* What the blob store promises to those who store in it: storing is one   *)
(* step, whoever else stores the same bytes; a content only goes after its *)
(* tombstone, which stays; and only a content that someone has stored is   *)
(* ever given one.  Staging files, races to one address and failures are   *)
(* not to be seen from here.                                               *)
(***************************************************************************)
CONSTANTS Writer, Content

VARIABLES stored,      \* the contents that can be read back
          tombstones,  \* those whose deletion is on record
          artifacts    \* <<w, d>>: w was given an Artifact of d, and it is not lost with w

blobStoreVars == <<stored, tombstones, artifacts>>

BlobStoreInit ==
    /\ stored = {}
    /\ tombstones = {}
    /\ artifacts = {}

write_blob(w, d) ==
    /\ stored' = stored \union {d}
    /\ artifacts' = artifacts \union {<<w, d>>}
    /\ UNCHANGED tombstones

forget(w, d) ==
    /\ artifacts' = artifacts \ {<<w, d>>}
    /\ UNCHANGED <<stored, tombstones>>

write_tombstone(w, d) ==
    /\ <<w, d>> \in artifacts
    /\ tombstones' = tombstones \union {d}
    /\ UNCHANGED <<stored, artifacts>>

unlink(d) ==
    /\ d \in tombstones
    /\ stored' = stored \ {d}
    /\ UNCHANGED <<tombstones, artifacts>>

BlobStoreNext ==
    \E d \in Content :
        \/ unlink(d)
        \/ \E w \in Writer : write_blob(w, d) \/ forget(w, d) \/ write_tombstone(w, d)

BlobStoreSpec == BlobStoreInit /\ [][BlobStoreNext]_blobStoreVars

\* Whoever has an Artifact can read its bytes, or is told that they are gone.
Readable == \A artifact \in artifacts : artifact[2] \in stored \union tombstones
=============================================================================
