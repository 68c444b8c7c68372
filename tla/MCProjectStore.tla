--------------------------- MODULE MCProjectStore ---------------------------
(***************************************************************************)
(* Instances of ProjectStore: two questions, their exchange, one of them   *)
(* alone, and one of them twice; and of Uploads: two uploads of files of   *)
(* one chunk, two, and too many.  The two share no variable: each is       *)
(* explored while the other has not begun, which gives the sum of the two  *)
(* state spaces, not their product.                                        *)
(***************************************************************************)
EXTENDS ProjectStore, TLC

CONSTANTS Ids, Text, Pin, Files, ChunkSize, MaxBytes
VARIABLES upload, panel, call, online, sessions, work, disk, listed, fault, crossed
Up == INSTANCE Uploads

\* The parameters of Uploads; a chunk has at least one byte.
ASSUME UploadsAssumption ==
  /\ Text # Pin /\ Text \notin Ids /\ Pin \notin Ids
  /\ Files \subseteq [size : Nat, kind : {"text", "image", "broken", "other"}]
  /\ ChunkSize \in Nat \ {0} /\ MaxBytes \in Nat

uploadVars == <<upload, panel, call, online, sessions, work, disk, listed, fault, crossed>>

FirstList == <<"a", "b">>
AllLists == {<<"a", "b">>, <<"b", "a">>, <<"b">>, <<"a", "a">>, << >>}

\* The extractor fails on a file of one full chunk.
File(size, kind) == [size |-> size, kind |-> kind]
MCFiles == {File(0, "other"), File(2, "broken"), File(3, "text"), File(5, "text")}

Symmetry == Permutations(Docs) \union Permutations(Ids)

-----------------------------------------------------------------------------
NoUpload ==
  /\ \A u \in Ids : Up!Free(u)
  /\ online /\ work = <<>> /\ disk = <<>>
NoRequest == started = 0 /\ record = [Blank EXCEPT !.posting = "url"]

MCInit == Init /\ Up!Init
MCNext ==
  \/ NoUpload /\ Next /\ UNCHANGED uploadVars
  \/ NoRequest /\ Up!Next /\ UNCHANGED vars
MCSpec == MCInit /\ [][MCNext]_<<vars, uploadVars>>

\* The page's word on an upload is true (uploadFileInChunks, uploadDocumentChunk).
VerdictIsTrue == Up!VerdictIsTrue
\* An upload fails for a reason only (uploadFileInChunks, uploadDocumentChunk).
FailureHasReason == Up!FailureHasReason
=============================================================================
