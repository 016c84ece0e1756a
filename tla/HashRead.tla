----------------------------- MODULE HashRead -----------------------------
(***************************************************************************)
(* One file read from beginning to end to calculate one hash sum: what the *)
(* five functions wcalculate_..._hash of hashing.c have in common.  Hash   *)
(* functions are taken to be free of collisions, so that a sum is modelled *)
(* by the content it was calculated from.                                  *)
(***************************************************************************)
EXTENDS ArgWalk

CONSTANTS
  BadFiles, \* files on a medium where a read may fail
  Mixed     \* the digest of bytes that were never the content of a file

ASSUME HashReadAssumption ==
  /\ BadFiles \subseteq Files
  /\ Mixed \notin Contents

VARIABLE stream \* the contents the open file has had since it was opened; {} = closed

Digests == Contents \cup {Mixed}

StreamTypeOK == stream \in SUBSET Contents
StreamInit   == stream = {}

\* fopen of the file at hand; the function returns NO_SUCH_FILE if it fails.
OpenStream == Exists(cur) /\ stream' = {disk[cur]}

\* The digests the reading can end with.  Bytes read before a change and
\* bytes read after it can make up a content the file never had.
DigestsOfStream ==
  IF Cardinality(stream) > 1 THEN stream \cup {Mixed} ELSE stream

\* fread returns 0 before the end of the file: the function returns IO_ERROR.
ReadError == stream # {} /\ cur \in BadFiles

\* Another program changes a file; the open stream sees it if it is the file
\* at hand that is overwritten, while a deleted file remains readable.
EditSeenByStream(f, c) ==
  /\ Edit(f, c)
  /\ stream' = IF f = cur /\ stream # {} /\ c # Absent
                 THEN stream \cup {c} ELSE stream
=============================================================================
