------------------------------ MODULE Uploads ------------------------------
(***************************************************************************)
(* Files on their way from the page to the runner's disk.                  *)
(*                                                                         *)
(* The page cuts a file into chunks and sends each as a request of its     *)
(* own, the next one when the last was answered; files dropped on a        *)
(* project go in parallel and can be stopped, those chosen for the profile *)
(* go one after the other.  The backend forwards a request to the runner   *)
(* and gives it up after a while or when the socket closes.  The runner    *)
(* collects the chunks in memory and, with the last one, stores the file   *)
(* and writes the manifest of its scope back: a handler is suspended at    *)
(* every access to the disk, and handlers overlap.                         *)
(*                                                                         *)
(* A file is a number of bytes and what the extractor finds in it.         *)
(***************************************************************************)
EXTENDS Naturals, FiniteSets, SequencesExt

CONSTANTS
  Ids,         \* uploads; also the ids of their documents
  Text, Pin,   \* a text saved, and a pin set, on the profile panel meanwhile
  Files,       \* files a user may choose: [size, kind], where the kind is "text",
               \* "image", "broken" (the extractor fails) or "other"
  ChunkSize,   \* bytes of a chunk, at least one
  MaxBytes     \* bytes of the largest file

None == "none"

VARIABLES
  upload,    \* the page: [scope, file, sent, abort, verdict] of each upload
  panel,     \* the page: files of the profile panel that wait
  call,      \* the request of an upload under way: [leg, answer]
  online,    \* the runner's socket is open
  sessions,  \* the runner: chunks collected so far
  work,      \* the runner: handlers that are storing: [step, read]
  disk,      \* raw files
  listed,    \* per scope: the documents of the manifest
  fault,     \* history: what went wrong on the way of an upload
  crossed    \* history: documents written while another handler held the manifest

vars == <<upload, panel, call, online, sessions, work, disk, listed, fault, crossed>>
page == <<upload, panel>>
store == <<work, disk, listed, crossed>>

-----------------------------------------------------------------------------
(***************************************************************************)
(* Pure parts.                                                             *)
(***************************************************************************)
Smaller(a, b) == IF a < b THEN a ELSE b

Supported(file) == file.kind # "other"
Bytes(u) == [k \in 1..upload[u].file.size |-> <<u, k>>]

\* Mutant of TotalChunks: whole chunks only.
TotalChunks_Floor(size) == size \div ChunkSize
TotalChunks(size) ==
  IF size = 0 THEN 1 ELSE (size + ChunkSize - 1) \div ChunkSize

Chunk(u, i) ==
  SubSeq(Bytes(u), i * ChunkSize + 1, Smaller((i + 1) * ChunkSize, upload[u].file.size))

\* The request for the next chunk; the checksum of the file is the file.
Payload(u) ==
  LET up == upload[u]
  IN  [scope |-> up.scope, index |-> up.sent, total |-> TotalChunks(up.file.size),
       size |-> up.file.size, sum |-> Bytes(u), bytes |-> Chunk(u, up.sent)]

NewSession(p) ==
  [scope |-> p.scope, total |-> p.total, size |-> p.size, sum |-> p.sum,
   next |-> 0, bytes |-> <<>>]
SessionFor(u, p) ==
  IF u \notin DOMAIN sessions /\ p.index = 0 THEN NewSession(p) ELSE sessions[u]

Without(f, u) == [i \in DOMAIN f \ {u} |-> f[i]]
With(f, u, x) == [i \in DOMAIN f \cup {u} |-> IF i = u THEN x ELSE f[i]]

Oversized(p) == p.size > MaxBytes
Unknown(u, p) == u \notin DOMAIN sessions /\ p.index # 0
Mismatch(s, p) == <<s.scope, s.total>> # <<p.scope, p.total>>
Refused(u, p) ==
  \/ Oversized(p)
  \/ Unknown(u, p)
  \/ Mismatch(SessionFor(u, p), p)
  \/ p.index # SessionFor(u, p).next

Grown(s, p) == [s EXCEPT !.bytes = @ \o p.bytes, !.next = @ + 1]
Overfull(s) == Len(s.bytes) > s.size
Complete(s) == s.next >= s.total
Whole(s) == Len(s.bytes) = s.size /\ s.bytes = s.sum

-----------------------------------------------------------------------------
Scope(w) == IF w \in Ids THEN upload[w].scope ELSE "profile"
Free(u) == upload[u].verdict = None
Sending(u) == upload[u].verdict = "sending"
Waits(u) == call[u].leg \in {"sent", "held"}
NoCall == [leg |-> None, answer |-> None]
Fresh(scope, file, verdict) ==
  [scope |-> scope, file |-> file, sent |-> 0, abort |-> FALSE, verdict |-> verdict]

Init ==
  /\ upload = [u \in Ids |-> Fresh("project", [size |-> 0, kind |-> "text"], None)]
  /\ panel = <<>>
  /\ call = [u \in Ids |-> NoCall]
  /\ online = TRUE
  /\ sessions = <<>>
  /\ work = <<>>
  /\ disk = <<>>
  /\ listed = [s \in {"project", "profile"} |-> {}]
  /\ fault = [u \in Ids |-> None]
  /\ crossed = {}

-----------------------------------------------------------------------------
(***************************************************************************)
(* The page.                                                               *)
(***************************************************************************)
\* handleFilesDropped: files of another type are left out, the others start.
Drop(u, file) ==
  /\ Free(u) /\ Supported(file)
  /\ upload' = [upload EXCEPT ![u] = Fresh("project", file, "sending")]
  /\ UNCHANGED <<panel, call, online, sessions, store, fault>>

\* handleUploadFiles: a file too large refuses the whole choice.
Choose(u, file, rest, files) ==
  /\ Free(u) /\ \A i \in DOMAIN rest : Free(rest[i]) /\ rest[i] # u
  /\ panel = <<>>
  /\ \A v \in Ids : ~(Sending(v) /\ Scope(v) = "profile")
  /\ \A g \in {file} \cup Range(files) : g.size <= MaxBytes
  /\ upload' = [v \in Ids |->
       IF v = u THEN Fresh("profile", file, "sending")
       ELSE IF v \in Range(rest)
            THEN Fresh("profile", files[CHOOSE i \in DOMAIN rest : rest[i] = v], "waiting")
       ELSE upload[v]]
  /\ panel' = rest
  /\ UNCHANGED <<call, online, sessions, store, fault>>

\* The loop of the panel after an upload: the next file, or none after an error.
Settled(u, verdict) ==
  IF Scope(u) = "project" THEN
    /\ upload' = [upload EXCEPT ![u].verdict = verdict]
    /\ UNCHANGED panel
  ELSE IF verdict = "done" /\ panel # <<>> THEN
    /\ upload' = [upload EXCEPT ![u].verdict = verdict, ![Head(panel)].verdict = "sending"]
    /\ panel' = Tail(panel)
  ELSE
    /\ upload' = [v \in Ids |-> IF v = u THEN [upload[v] EXCEPT !.verdict = verdict]
                                ELSE IF v \in Range(panel)
                                     THEN [upload[v] EXCEPT !.verdict = "skipped"]
                                ELSE upload[v]]
    /\ panel' = <<>>

TooLarge(u) ==
  /\ Sending(u) /\ upload[u].sent = 0 /\ call[u] = NoCall
  /\ upload[u].file.size > MaxBytes
  /\ Settled(u, "failed")
  /\ UNCHANGED <<call, online, sessions, store, fault>>

\* signal.throwIfAborted, at the head of the loop over the chunks.
StopsHere(u) ==
  /\ Sending(u) /\ call[u] = NoCall /\ upload[u].abort
  /\ Settled(u, "aborted")
  /\ UNCHANGED <<call, online, sessions, store, fault>>

SendChunk(u) ==
  /\ Sending(u) /\ call[u] = NoCall /\ ~upload[u].abort
  /\ upload[u].file.size <= MaxBytes
  /\ call' = [call EXCEPT ![u].leg = "out"]
  /\ UNCHANGED <<page, online, sessions, store, fault>>

Abort(u) ==
  /\ Sending(u) /\ Scope(u) = "project" /\ ~upload[u].abort
  /\ upload' = [upload EXCEPT ![u].abort = TRUE]
  /\ UNCHANGED <<panel, call, online, sessions, store, fault>>

\* rpcCall returns.
Advance(u) ==
  IF upload[u].sent + 1 < TotalChunks(upload[u].file.size)
  THEN /\ upload' = [upload EXCEPT ![u].sent = @ + 1]
       /\ UNCHANGED panel
  ELSE Settled(u, "failed")

\* Mutant of Returned: the signal is looked at when the answer is there.
Returned_ThenAborts(u) ==
  IF upload[u].abort THEN Settled(u, "aborted")
  ELSE CASE call[u].answer = "accepted" -> Advance(u)
         [] call[u].answer = "complete" -> Settled(u, "done")
         [] OTHER -> Settled(u, "failed")
Returned(u) ==
  CASE call[u].answer = "accepted" -> Advance(u)
    [] call[u].answer = "complete" -> Settled(u, "done")
    [] OTHER -> Settled(u, "failed")

Return(u) ==
  /\ call[u].leg = "back"
  /\ Returned(u)
  /\ call' = [call EXCEPT ![u] = NoCall]
  /\ UNCHANGED <<online, sessions, store, fault>>

-----------------------------------------------------------------------------
(***************************************************************************)
(* The backend and the socket.                                             *)
(***************************************************************************)
Fail(u, why, leg) ==
  /\ Settled(u, "failed")
  /\ call' = [call EXCEPT ![u].leg = leg]
  /\ fault' = [fault EXCEPT ![u] = why]

Forward(u) ==
  /\ call[u].leg = "out" /\ online
  /\ call' = [call EXCEPT ![u].leg = "sent"]
  /\ UNCHANGED <<page, online, sessions, store, fault>>

Offline(u) ==
  /\ call[u].leg = "out" /\ ~online
  /\ Fail(u, "offline", None)
  /\ UNCHANGED <<online, sessions, store>>

\* A request that is still on its way when it is given up arrives all the same.
Timeout(u) ==
  /\ Waits(u)
  /\ Fail(u, "cut", IF call[u].leg = "sent" THEN "late" ELSE None)
  /\ UNCHANGED <<online, sessions, store>>

\* rejectAll: every request the runner has not answered fails.
Rejected ==
  LET cut == {u \in Ids : Waits(u)}
      stop == \E u \in cut : Scope(u) = "profile"
  IN  /\ upload' = [u \in Ids |->
           IF u \in cut THEN [upload[u] EXCEPT !.verdict = "failed"]
           ELSE IF stop /\ u \in Range(panel) THEN [upload[u] EXCEPT !.verdict = "skipped"]
           ELSE upload[u]]
      /\ panel' = IF stop THEN <<>> ELSE panel
      /\ call' = [u \in Ids |-> IF u \in cut \/ call[u].leg = "late"
                              THEN NoCall ELSE call[u]]

LinkLost ==
  /\ online /\ online' = FALSE
  /\ Rejected
  /\ fault' = [u \in Ids |-> IF Waits(u) THEN "cut" ELSE fault[u]]
  /\ UNCHANGED <<sessions, store>>

\* The runner ends and is started again: its chunks and its handlers are gone.
Restart ==
  /\ Rejected
  /\ fault' = [u \in Ids |-> IF Waits(u) THEN "cut"
                             ELSE IF Sending(u) THEN "restarted" ELSE fault[u]]
  /\ online' = FALSE
  /\ sessions' = <<>> /\ work' = <<>>
  /\ UNCHANGED <<disk, listed, crossed>>

LinkBack ==
  /\ ~online /\ online' = TRUE
  /\ UNCHANGED <<page, call, sessions, store, fault>>

-----------------------------------------------------------------------------
(***************************************************************************)
(* The runner: a chunk comes, up to the first access to the disk.          *)
(***************************************************************************)
Answered(u, answer) ==
  call' = [call EXCEPT ![u] = IF Waits(u) THEN [leg |-> "back", answer |-> answer]
                                          ELSE NoCall]

Begins(w, step) == work' = With(work, w, [step |-> step, read |-> {}])

ReceiveChunk(u) ==
  LET p == Payload(u)
      s == Grown(SessionFor(u, p), p)
      stores == ~Refused(u, p) /\ ~Overfull(s) /\ Complete(s) /\ Whole(s)
  IN  /\ call[u].leg \in {"sent", "late"}
      /\ sessions' = CASE Refused(u, p) -> sessions
                       [] Overfull(s) \/ Complete(s) -> Without(sessions, u)
                       [] OTHER -> With(sessions, u, s)
      /\ IF stores
         THEN Begins(u, "write") /\ call' = [call EXCEPT ![u].leg = IF Waits(u) THEN "held" ELSE None]
         ELSE /\ Answered(u, IF ~Refused(u, p) /\ ~Overfull(s) /\ ~Complete(s)
                             THEN "accepted" ELSE "error")
              /\ UNCHANGED work
      /\ UNCHANGED <<page, online, disk, listed, fault, crossed>>

(***************************************************************************)
(* The runner: a handler stores.                                           *)
(***************************************************************************)
At(w, step) == w \in DOMAIN work /\ work[w].step = step
Goes(w, step) == work' = [work EXCEPT ![w].step = step]
Ends(w, answer) ==
  /\ work' = Without(work, w)
  /\ IF w \in Ids THEN Answered(w, answer) ELSE UNCHANGED call

\* The profile panel's other requests; their answers are not followed.  Bound: one
\* text, and one of them at a time.
SaveText ==
  /\ online /\ {Text, Pin} \cap DOMAIN work = {} /\ Text \notin DOMAIN disk
  /\ Begins(Text, "write")
  /\ UNCHANGED <<page, call, online, sessions, disk, listed, fault, crossed>>

TogglePinned ==
  /\ online /\ {Text, Pin} \cap DOMAIN work = {} /\ listed["profile"] # {}
  /\ Begins(Pin, "load")
  /\ UNCHANGED <<page, call, online, sessions, disk, listed, fault, crossed>>

WriteRaw(w) ==
  /\ At(w, "write")
  /\ disk' = With(disk, w, IF w \in Ids THEN Bytes(w) ELSE <<>>)
  /\ Goes(w, IF w \in Ids THEN "extract" ELSE "load")
  /\ UNCHANGED <<page, call, online, sessions, listed, fault, crossed>>

\* The extractor fails on the file, which is taken back; or its text is saved, or
\* there is none to save.
Unreadable(u) ==
  /\ At(u, "extract") /\ upload[u].file.kind = "broken"
  /\ disk' = Without(disk, u)
  /\ Ends(u, "error")
  /\ UNCHANGED <<page, online, sessions, listed, fault, crossed>>

Extract(u) ==
  /\ At(u, "extract") /\ upload[u].file.kind # "broken"
  /\ Goes(u, "load")
  /\ UNCHANGED <<page, call, online, sessions, disk, listed, fault, crossed>>

LoadManifest(w) ==
  /\ At(w, "load")
  /\ work' = [work EXCEPT ![w] = [step |-> "save", read |-> listed[Scope(w)]]]
  /\ UNCHANGED <<page, call, online, sessions, disk, listed, fault, crossed>>

\* The manifest is written back whole: what was added since it was read is lost.
SaveManifest(w) ==
  /\ At(w, "save")
  /\ listed' = [listed EXCEPT ![Scope(w)] = work[w].read \cup ({w} \ {Pin})]
  /\ crossed' = crossed \cup (listed[Scope(w)] \ work[w].read)
  /\ IF Scope(w) = "project" THEN Ends(w, "complete") ELSE Goes(w, "check") /\ UNCHANGED call
  /\ UNCHANGED <<page, online, sessions, disk, fault>>

\* getProfileDocument, for the answer.
FindSaved(w) ==
  /\ At(w, "check")
  /\ Ends(w, IF w \in listed["profile"] THEN "complete" ELSE "error")
  /\ UNCHANGED <<page, online, sessions, disk, listed, fault, crossed>>

-----------------------------------------------------------------------------
UserActs ==
  \/ \E u \in Ids, file \in Files : Drop(u, file) \/ Choose(u, file, <<>>, <<>>)
  \/ \E u, v \in Ids, file, other \in Files : Choose(u, file, <<v>>, <<other>>)
  \/ \E u \in Ids : Abort(u)
  \/ SaveText
  \/ TogglePinned

PageActs == \E u \in Ids : TooLarge(u) \/ StopsHere(u) \/ SendChunk(u) \/ Return(u)
LinkActs == LinkLost \/ Restart \/ LinkBack
              \/ \E u \in Ids : Forward(u) \/ Offline(u) \/ Timeout(u)
RunnerActs ==
  \/ \E u \in Ids : ReceiveChunk(u) \/ Unreadable(u) \/ Extract(u)
  \/ \E w \in Ids \cup {Text, Pin} :
       WriteRaw(w) \/ LoadManifest(w) \/ SaveManifest(w) \/ FindSaved(w)

Next == UserActs \/ PageActs \/ LinkActs \/ RunnerActs
Spec == Init /\ [][Next]_vars

-----------------------------------------------------------------------------
(***************************************************************************)
(* Properties.                                                             *)
(***************************************************************************)
Listed(u) == u \in listed[Scope(u)]

(* What the page says of an upload is true: a file it calls uploaded is on  *)
(* the disk, byte for byte, and in its manifest; a stopped one left nothing *)
(* behind; a failed one is not in the manifest, unless its request was      *)
(* given up while the runner worked.  Two handlers that overlap on one      *)
(* manifest are excepted: the second takes the other's document out.        *)
(* (uploadFileInChunks, sendRpc, uploadDocumentChunk, persistDocument)      *)
VerdictIsTrue ==
  \A u \in Ids :
    LET v == upload[u].verdict IN
    /\ v = "done" => /\ u \in DOMAIN disk /\ disk[u] = Bytes(u)
                     /\ Listed(u) \/ u \in crossed
    /\ v = "aborted" => u \notin DOMAIN disk /\ ~Listed(u)
    /\ v = "failed" /\ fault[u] # "cut" => ~Listed(u) \/ u \in crossed

(* An upload fails for a reason only: the file is too large or unreadable,  *)
(* the link or the runner went away, or a handler overlapped.  In           *)
(* particular an empty file, one that ends with its last chunk, uploads in  *)
(* parallel, and a link lost between two chunks, all go through.            *)
(* (uploadFileInChunks and uploadDocumentChunk)                             *)
FailureHasReason ==
  \A u \in Ids : upload[u].verdict = "failed" =>
    \/ fault[u] # None
    \/ upload[u].file.size > MaxBytes \/ upload[u].file.kind = "broken"
    \/ u \in crossed
=============================================================================
