---------------------------- MODULE ProviderTurn ----------------------------
(***************************************************************************)
(* One turn of a provider: its CLI is spawned with the prompt, what it     *)
(* prints is turned into chat messages while it runs (StreamProcessor of   *)
(* providerStreaming.ts) and, when it has ended, into the answer of the    *)
(* turn (parseProviderFinalText).                                          *)
(*                                                                         *)
(* Handlers run until they await real I/O.  Chat events are forwarded at   *)
(* once, except the end of a message with text, which is first appended to *)
(* the log of the run: its handler is suspended (`pending`), and chunks    *)
(* and even the end of the process may come before it continues.           *)
(*                                                                         *)
(* A text is a sequence of pieces.                                         *)
(***************************************************************************)
EXTENDS Naturals, FiniteSets, SequencesExt

CONSTANTS
  Scripts,   \* what a CLI may do: [provider, lines, ended, exit]
  White      \* the piece of text that is only white space

Synthetic == "message"    \* the message id of a text without one
None == "none"

Line(kind, id, text) == [kind |-> kind, id |-> id, text |-> text]

VARIABLES
  script,      \* what the CLI prints and how it exits
  keyless,     \* the provider wants an API key and none is saved
  phase,       \* "called", "resolving", "running", "closing", "settled"
  outcome,     \* "answered", "failed", "aborted" once settled
  asked,       \* the abort signal has been given
  aborted,     \* ... and the process' listener has heard it
  delivered,   \* lines of the script that have arrived
  buffer,      \* complete lines that no handler has taken
  tail,        \* the last line, when it came without its newline
  stream,      \* the state of the StreamProcessor
  shown,       \* message id -> [text, done]: the chat as forwarded
  logged,      \* messages in the log of the run
  pending,     \* suspended handlers: [id, by]
  busy,        \* the code that runs: "stream", "close" or None
  closing,     \* where finalize is
  lost         \* history: finalize could not parse what was left

vars == <<script, keyless, phase, outcome, asked, aborted, delivered, buffer, tail,
          stream, shown, logged, pending, busy, closing, lost>>

lines == script.lines
provider == script.provider
\* Claude prints text; the two others lines of JSON.
linewise == provider # "claude"

-----------------------------------------------------------------------------
(***************************************************************************)
(* Texts.                                                                  *)
(***************************************************************************)
Visible(text) == SelectSeq(text, LAMBDA piece : piece # White)
IsBlank(text) == Visible(text) = <<>>

Shared(a, b) ==
  CHOOSE n \in 0..Len(a) :
    /\ n <= Len(b) /\ SubSeq(a, 1, n) = SubSeq(b, 1, n)
    /\ n = Len(a) \/ n = Len(b) \/ a[n + 1] # b[n + 1]

\* computeMessageSuffix: what `next` says beyond the text so far.
Suffix(current, next) == SubSeq(next, Shared(current, next) + 1, Len(next))

Texts(kinds) == {lines[i].text : i \in {j \in DOMAIN lines : lines[j].kind \in kinds}}
Whole == FlattenSeq([i \in DOMAIN lines |-> lines[i].text])

Joined(text, line) ==
  CASE line.kind = "part" -> text \o line.text
    [] line.kind = "say"  -> text \o Suffix(text, line.text)
    [] OTHER -> text

\* parseProviderFinalText of everything printed, as the set of texts it joins:
\* Claude's output as it is; of Gemini's stream the assistant's text; of Codex
\* the texts of the messages, and of the errors; else the output as it is.
FinalTexts ==
  LET said == {t \in Texts({"item", "full", "error"}) : ~IsBlank(t)}
      all  == CASE provider = "claude" -> {Whole}
                [] provider = "gemini" /\ \E i \in DOMAIN lines : lines[i].kind # "raw" ->
                     {FoldLeft(Joined, <<>>, lines)}
                [] provider = "codex" /\ said # {} -> said
                [] OTHER -> {Whole}
  IN  {t \in all : ~IsBlank(t)}

-----------------------------------------------------------------------------
(***************************************************************************)
(* emitChatEvent: the processor's sets, and the event.  `stream.due` is    *)
(* the message whose end is to be logged before it is forwarded.           *)
(***************************************************************************)
Fresh == [active |-> {}, completed |-> {}, text |-> <<>>, emitted |-> FALSE,
          plain |-> FALSE, due |-> None]

TextOf(s, id) == IF id \in DOMAIN s.text THEN s.text[id] ELSE <<>>

Started(s, id) ==
  [s EXCEPT !.active = @ \union {id}, !.emitted = TRUE,
            !.text = [i \in DOMAIN @ \union {id} |-> TextOf(s, i)]]
EnsureStarted(s, id) == IF id \in s.active \union s.completed THEN s ELSE Started(s, id)

Delta(s, id, text) ==
  [s EXCEPT !.emitted = TRUE,
            !.text = [i \in DOMAIN @ \union {id} |->
                        IF i = id THEN TextOf(s, id) \o text ELSE @[i]]]
Missing(s, id, text) == Delta(s, id, Suffix(TextOf(s, id), text))

Completed(s, id) ==
  [s EXCEPT !.active = @ \ {id}, !.completed = @ \union {id}, !.emitted = TRUE, !.due = id]

\* handleCodexLine.  The text of an item goes to the message a turn started.
CodexLine(s, l) ==
  CASE l.kind = "turn"  -> EnsureStarted(s, Synthetic)
    [] l.kind = "begin" -> EnsureStarted(s, l.id)
    [] l.kind = "item"  ->
         LET id == IF Synthetic \in s.active THEN Synthetic ELSE l.id
             t  == EnsureStarted(s, id)
         IN  Completed(IF IsBlank(l.text) THEN t ELSE Missing(t, id, l.text), id)
    [] l.kind = "delta" -> Delta(EnsureStarted(s, l.id), l.id, l.text)
    [] l.kind = "full"  ->
         LET t == EnsureStarted(s, l.id)
         IN  Completed(IF IsBlank(l.text) THEN t ELSE Missing(t, l.id, l.text), l.id)
    [] OTHER -> s

\* handleGeminiLine.
GeminiLine(s, l) ==
  CASE l.kind = "part" -> Delta(EnsureStarted(s, Synthetic), Synthetic, l.text)
    [] l.kind = "say"  -> Missing(EnsureStarted(s, Synthetic), Synthetic, l.text)
    [] l.kind = "result" /\ Synthetic \in s.active -> Completed(s, Synthetic)
    [] OTHER -> s

LineHandled(s, l) == IF provider = "codex" THEN CodexLine(s, l) ELSE GeminiLine(s, l)

\* handleStdout for Claude: the message starts with the first chunk, a chunk of
\* white space is not shown.
PlainChunk(s, text) ==
  LET t == IF s.plain THEN s ELSE [Started(s, Synthetic) EXCEPT !.plain = TRUE]
  IN  IF IsBlank(text) THEN t ELSE Delta(t, Synthetic, text)

\* captureChatLogEvent writes the end of a message that has text, once.
MustLog(s) == s.due # None /\ ~IsBlank(TextOf(s, s.due)) /\ s.due \notin logged

\* Forwards what changed from the stream to s; the code `by` is suspended when the
\* end of a message must be logged first.
Shows(s) ==
  [i \in DOMAIN s.text |->
     [text |-> s.text[i],
      done |-> \/ i \in DOMAIN shown /\ shown[i].done
               \/ i = s.due /\ ~MustLog(s)]]
Forward(s, by) ==
  /\ shown' = Shows(s)
  /\ stream' = [s EXCEPT !.due = None]
  /\ pending' = pending \union (IF MustLog(s) THEN {[id |-> s.due, by |-> by]} ELSE {})

-----------------------------------------------------------------------------
Init ==
  /\ script \in Scripts
  /\ keyless \in BOOLEAN
  /\ phase = "called" /\ outcome = None
  /\ asked = FALSE /\ aborted = FALSE
  /\ delivered = 0 /\ buffer = <<>> /\ tail = <<>>
  /\ stream = Fresh /\ shown = <<>> /\ logged = {}
  /\ pending = {} /\ busy = None /\ closing = None /\ lost = FALSE

Settle(result) == phase' = "settled" /\ outcome' = result

outputVars == <<delivered, buffer, tail, stream, shown, logged, pending, busy, closing, lost>>

\* execute: no key where one is needed; an abort that came before; else the
\* command is resolved, which reads the wrapper file on Windows.
Call ==
  /\ phase = "called"
  /\ IF keyless THEN Settle("failed")
     ELSE IF asked THEN Settle("aborted")
     ELSE phase' = "resolving" /\ UNCHANGED outcome
  /\ UNCHANGED <<script, keyless, asked, aborted, outputVars>>

\* The process is spawned, and the listener of the abort signal set: a signal given
\* meanwhile is never heard.
Spawn ==
  /\ phase = "resolving"
  /\ phase' = "running"
  /\ UNCHANGED <<script, keyless, outcome, asked, aborted, outputVars>>

\* The command is not there.
SpawnFails ==
  /\ phase = "running" /\ delivered = 0
  /\ Settle(IF aborted THEN "aborted" ELSE "failed")
  /\ UNCHANGED <<script, keyless, asked, aborted, outputVars>>

\* The run is aborted, or the turn preempted.
Abort ==
  /\ phase # "settled" /\ ~asked /\ busy = None
  /\ asked' = TRUE
  /\ aborted' = (phase \in {"running", "closing"})
  /\ UNCHANGED <<script, keyless, phase, outcome, outputVars>>

\* A chunk with the next n lines.
Deliver(n) ==
  /\ phase = "running" /\ busy = None
  /\ n \in 1..(Len(lines) - delivered)
  /\ delivered' = delivered + n
  /\ LET chunk == SubSeq(lines, delivered + 1, delivered + n)
         open  == delivered' = Len(lines) /\ ~script.ended
     IN  IF linewise
         THEN /\ buffer' = buffer \o (IF open THEN Front(chunk) ELSE chunk)
              /\ tail' = IF open THEN <<Last(chunk)>> ELSE <<>>
              /\ busy' = IF buffer' = <<>> THEN None ELSE "stream"
              /\ UNCHANGED <<stream, shown, pending>>
         ELSE /\ Forward(PlainChunk(stream, FlattenSeq([i \in 1..n |-> chunk[i].text])),
                         "stream")
              /\ UNCHANGED <<buffer, tail, busy>>
  /\ UNCHANGED <<script, keyless, phase, outcome, asked, aborted, logged, closing, lost>>

\* The loop of handleStdout takes the next line; a suspended loop leaves the rest to
\* whichever handler runs next.
TakeLine ==
  /\ busy = "stream" /\ buffer # <<>>
  /\ buffer' = Tail(buffer)
  /\ LET s == LineHandled(stream, Head(buffer))
     IN  /\ Forward(s, "stream")
         /\ busy' = IF MustLog(s) \/ buffer' = <<>> THEN None ELSE "stream"
  /\ UNCHANGED <<script, keyless, phase, outcome, asked, aborted, delivered, tail,
                 logged, closing, lost>>

\* The message is in the log: its end is forwarded and the handler goes on.
Logged(p) ==
  /\ p \in pending /\ busy = None
  /\ pending' = pending \ {p}
  /\ logged' = logged \union {p.id}
  /\ shown' = [shown EXCEPT ![p.id].done = TRUE]
  /\ busy' = IF p.by = "close" THEN "close"
             ELSE IF buffer # <<>> THEN "stream" ELSE None
  /\ UNCHANGED <<script, keyless, phase, outcome, asked, aborted, delivered, buffer,
                 tail, stream, closing, lost>>

\* The process has ended, by itself or killed; an aborted turn says no more.
Close ==
  /\ phase = "running" /\ busy = None
  /\ aborted \/ delivered = Len(lines)
  /\ IF aborted
     THEN Settle("aborted") /\ UNCHANGED <<busy, closing>>
     ELSE phase' = "closing" /\ busy' = "close" /\ closing' = "leftover" /\ UNCHANGED outcome
  /\ UNCHANGED <<script, keyless, asked, aborted, delivered, buffer, tail, stream, shown,
                 logged, pending, lost>>

AtClosing(step) == busy = "close" /\ closing = step
closingFrame == UNCHANGED <<script, keyless, asked, aborted, delivered, logged>>

\* finalize: what is left in the buffer is read as one line.
Leftover(rest) ==
  /\ AtClosing("leftover")
  /\ lost' = (Len(rest) > 1)
  /\ LET s == IF Len(rest) = 1 THEN LineHandled(stream, rest[1]) ELSE stream
     IN  /\ Forward(s, "close")
         /\ busy' = IF MustLog(s) THEN None ELSE "close"
  /\ closing' = "clear"
  /\ closingFrame /\ UNCHANGED <<phase, outcome, buffer, tail>>

\* The line that no newline ended is forgotten.
LeftoverRead_Unterminated == Leftover(buffer)

LeftoverRead == Leftover(buffer \o tail)

ClearBuffer ==
  /\ AtClosing("clear")
  /\ buffer' = <<>> /\ tail' = <<>>
  /\ closing' = "finish"
  /\ closingFrame /\ UNCHANGED <<phase, outcome, stream, shown, pending, busy, lost>>

\* ... the plain message ends; a turn that showed nothing shows its answer; every
\* other message ends.
Unfinished ==
  IF stream.plain THEN {Synthetic} \ stream.completed ELSE stream.active \ stream.completed
FinishMessages ==
  /\ AtClosing("finish")
  /\ LET silent == ~stream.emitted /\ FinalTexts # {}
         answer == Delta(Started(stream, Synthetic), Synthetic,
                         FlattenSeq(SetToSeq(FinalTexts)))
     IN  /\ silent \/ Unfinished # {}
         /\ \E s \in IF silent THEN {Completed(answer, Synthetic)}
                     ELSE {Completed(stream, id) : id \in Unfinished} :
              /\ Forward(s, "close")
              /\ busy' = IF MustLog(s) THEN None ELSE "close"
  /\ closingFrame /\ UNCHANGED <<phase, outcome, buffer, tail, closing, lost>>

Finished ==
  /\ AtClosing("finish")
  /\ Unfinished = {} /\ (stream.emitted \/ FinalTexts = {})
  /\ Settle(IF script.exit = 0 THEN "answered" ELSE "failed")
  /\ busy' = None /\ closing' = "done"
  /\ closingFrame /\ UNCHANGED <<buffer, tail, stream, shown, pending, lost>>

Next ==
  \/ Call \/ Spawn \/ SpawnFails \/ Abort \/ Close
  \/ \E n \in 1..Len(lines) : Deliver(n)
  \/ TakeLine
  \/ \E p \in pending : Logged(p)
  \/ LeftoverRead \/ ClearBuffer \/ FinishMessages \/ Finished

Spec == Init /\ [][Next]_vars

-----------------------------------------------------------------------------
atRest == phase = "settled" /\ busy = None /\ pending = {}
spoken == {i \in DOMAIN shown : ~IsBlank(shown[i].text)}
\* The texts of the answer that were said as messages.
Answers == {Visible(t) : t \in FinalTexts \ Texts({"error"})}

\* Once a turn has settled, the chat tells what the CLI said: every message that shows
\* text shows a beginning of one of its texts, and no text twice; when the turn was
\* answered or failed by the CLI's exit, every message is ended; and when it was answered
\* and nothing was left over unreadable, the messages are exactly the texts of the
\* answer - whatever the chunks, the message format, a missing last newline, and
\* handlers suspended while later chunks or the end of the process are handled
\* (handleStdout and finalize in providerStreaming.ts, runProcess in providers.ts).
ChatTellsTheAnswer ==
  atRest =>
    /\ \A i \in spoken : \E t \in Answers : IsPrefix(Visible(shown[i].text), t)
    /\ Cardinality(spoken) <= Cardinality(Answers)
    /\ closing = "done" => \A i \in DOMAIN shown : shown[i].done
    /\ outcome = "answered" /\ ~lost =>
         {Visible(shown[i].text) : i \in spoken} = Answers
=============================================================================
