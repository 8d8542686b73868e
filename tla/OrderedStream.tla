--------------------------- MODULE OrderedStream ---------------------------
(***************************************************************************)
(* What a CompressedWriter promises to TraceWriter, which uses it for every *)
(* substream of a trace: bytes are accepted in order, they reach the file   *)
(* in that order and without a gap, and a writer that closes without        *)
(* reporting an error has stored all of them.                               *)
(***************************************************************************)
EXTENDS Integers

CONSTANT MaxBytes   \* bound on the length of the stream

VARIABLES
  accepted,         \* bytes taken over by write()
  stored,           \* bytes of that stream, from its first on, in the file
  outcome           \* "open", or what good() says once close() returned

svars == <<accepted, stored, outcome>>

SInit ==
  /\ accepted = 0
  /\ stored = 0
  /\ outcome = "open"

(* write() takes some bytes. *)
Accept ==
  /\ outcome = "open"
  /\ accepted' \in accepted + 1 .. MaxBytes
  /\ UNCHANGED <<stored, outcome>>

(* The next bytes of the stream reach the file. *)
Store ==
  /\ outcome = "open"
  /\ stored' \in stored + 1 .. accepted
  /\ UNCHANGED <<accepted, outcome>>

(* close() returns: with an error, or with everything stored. *)
CloseStream ==
  /\ outcome = "open"
  /\ \/ outcome' = "good" /\ stored = accepted
     \/ outcome' = "failed"
  /\ UNCHANGED <<accepted, stored>>

SNext == Accept \/ Store \/ CloseStream

StreamSpec == SInit /\ [][SNext]_svars
=============================================================================
