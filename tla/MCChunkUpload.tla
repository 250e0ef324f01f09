--------------------------- MODULE MCChunkUpload ---------------------------
\* Instances of ChunkUpload for TLC.
EXTENDS ChunkUpload, TLC

\* Tickets of one pool are alike, and so are users, ids and payloads; nothing
\* orders them, and no property is a liveness property.
Symmetry ==
  Permutations(Inits) \cup Permutations(Chunks) \cup Permutations(Merges)
    \cup Permutations(Users) \cup Permutations(UploadIds) \cup Permutations(Versions)
============================================================================
