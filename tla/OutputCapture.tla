---------------------------- MODULE OutputCapture ----------------------------
(***************************************************************************)
(* The captured output of one invocation: runtime/output.py, and the       *)
(* internal calls of runtime/actor.py that merge the output of a callee    *)
(* into the buffer of its caller.                                          *)
(*                                                                         *)
(* A call has one CaptureBuffer.  It is written by the function of the     *)
(* call, by threads that run in its context and may outlive it (a          *)
(* synchronous function goes on after its execution was cancelled), and by *)
(* the replay of its callees.  CaptureBuffer holds a lock, so one write is *)
(* one step.                                                               *)
(*                                                                         *)
(* A character is the number of bytes of its UTF-8 encoding, the line feed *)
(* is 0, a lone surrogate, which a Python string may hold and UTF-8 does   *)
(* not have, is -1; what is printed is tagged with its call and its stream *)
(* so that one can say where it went.  Chunks are one text and the places  *)
(* where they end.  Time stamps are left out.                              *)
(***************************************************************************)
EXTENDS Integers, Sequences, FiniteSets

CONSTANTS
    Calls,          \* the invocation and its internal calls
    Root,           \* the invocation
    Threaded,       \* the calls in whose context a thread runs, for as long as it likes
    Streams,        \* "STDOUT", "STDERR"
    Captured,       \* the streams that are captured (capture_stderr)
    MaxBytes,       \* invocation_log_max_bytes
    ChunkBytes,     \* invocation_log_chunk_bytes
    Prints,         \* what may be printed at once: [stream, text], a text being a sequence of characters
    MaxPrinted      \* bound: characters printed altogether

LineFeed == 0
Surrogate == -1
QuestionMark == 1

\* errors="replace" makes a question mark of a surrogate.
Width(char) == IF char \in {LineFeed, Surrogate} THEN 1 ELSE char

NoCall == "no call"
NoStream == "no stream"

\* A chunk holds more than one character of any kind (config.py: 256 bytes).
Characters == {char \in Surrogate..(ChunkBytes - 1) : Width(char) < ChunkBytes}

ASSUME OutputCaptureAssumption ==
    /\ Root \in Calls /\ Threaded \subseteq Calls /\ NoCall \notin Calls
    /\ Captured \subseteq Streams /\ NoStream \notin Streams
    /\ MaxBytes \in Nat /\ ChunkBytes \in Nat \ {0} /\ MaxPrinted \in Nat
    /\ \A p \in Prints : p.stream \in Streams /\ p.text \in Seq(Characters)

VARIABLES
    stage,      \* where a call stands
    caller,     \* who made it
    content,    \* _chunks (logs, ends) and _pending_stream, _pending_content (pending)
    bytes,      \* _bytes
    truncated,  \* _truncated
    snapshot,   \* logs and logs_truncated of the ExecutionOutcome; history: printed by then
    merged,     \* characters of the snapshot already replayed into the caller
    printed     \* history: what was printed on the captured streams while the buffer was open

buffer == <<content, bytes, truncated>>
outputVars == <<stage, caller, buffer, snapshot, merged, printed>>

Empty == [stream |-> NoStream, text |-> <<>>]
NoContent == [logs |-> <<>>, ends |-> {}, pending |-> Empty]

OutputInit ==
    /\ stage = [c \in Calls |-> IF c = Root THEN "running" ELSE "idle"]
    /\ caller = [c \in Calls |-> NoCall]
    /\ content = [c \in Calls |-> NoContent]
    /\ bytes = [c \in Calls |-> 0]
    /\ truncated = [c \in Calls |-> FALSE]
    /\ snapshot = [c \in Calls |-> [logs |-> <<>>, ends |-> {}, truncated |-> FALSE, printed |-> <<>>]]
    /\ merged = [c \in Calls |-> 0]
    /\ printed = [c \in Calls |-> <<>>]

-----------------------------------------------------------------------------
(* Texts: sequences of [by, pos, stream, char], pos counting what the call printed *)

BytesOf(text) == UNION {{i} \X (1..Width(text[i].char)) : i \in DOMAIN text}
Size(text) == Cardinality(BytesOf(text))

Before(text, k) == SubSeq(text, 1, k)
After(text, k) == SubSeq(text, k + 1, Len(text))

\* Whether UTF-8 has the text, and what it is made into when it does not.
Encodable(text) == \A i \in DOMAIN text : text[i].char # Surrogate
Replaced(text) ==
    [i \in DOMAIN text |->
        IF text[i].char = Surrogate THEN [text[i] EXCEPT !.char = QuestionMark] ELSE text[i]]

\* Mutant: the limit is compared before the characters are encoded.
FitsInCharacters(text, n) == IF Len(text) < n THEN Len(text) ELSE n

\* The longest beginning of a text that has at most n bytes: a character that
\* the limit cuts in two is dropped.
FitsIn(text, n) ==
    CHOOSE k \in 0..Len(text) :
        /\ Size(Before(text, k)) <= n
        /\ k = Len(text) \/ Size(Before(text, k + 1)) > n

\* A text that fits is taken as it is, another one from its encoding.
Fitting(text, n) ==
    IF FitsIn(text, n) = Len(text) THEN text ELSE Replaced(Before(text, FitsIn(text, n)))

LineFeeds(text) == {i \in DOMAIN text : text[i].char = LineFeed}
LineEnds(text, s) == {i \in LineFeeds(text) : i > s}

\* Whether the text after s is divided once more, and where: a line at a time
\* while there is a line feed, then by chunk_bytes; what cannot be encoded raises.
IsLong(text, s) ==
    LineEnds(text, s) # {} \/ (Encodable(After(text, s)) /\ Size(After(text, s)) >= ChunkBytes)
Cut(text, s) ==
    IF LineEnds(text, s) # {}
    THEN CHOOSE i \in LineEnds(text, s) : \A j \in LineEnds(text, s) : i <= j
    ELSE s + FitsIn(After(text, s), ChunkBytes)

\* How _append divides what is pending; what is after the last cut stays pending.
IsDivided(text, cuts) == \A s \in {0} \cup cuts : IsLong(text, s) => Cut(text, s) \in cuts
Cuts(text) ==
    LET divisions == {cuts \in SUBSET DOMAIN text : IsDivided(text, cuts)}
    IN {i \in DOMAIN text : \A cuts \in divisions : i \in cuts}

LastCut(text) == CHOOSE i \in {0} \cup Cuts(text) : \A j \in Cuts(text) : j <= i

-----------------------------------------------------------------------------
(* The buffer of a call *)

\* Mutant: what was pending stays pending.
FlushedKept(b) ==
    [b EXCEPT !.logs = @ \o b.pending.text,
              !.ends = IF b.pending.text = <<>> THEN @
                       ELSE @ \cup {[at |-> Len(b.logs \o b.pending.text), stream |-> b.pending.stream]}]

Flushed(b) ==
    [logs |-> b.logs \o b.pending.text,
     ends |-> IF b.pending.text = <<>> THEN b.ends
              ELSE b.ends \cup {[at |-> Len(b.logs \o b.pending.text), stream |-> b.pending.stream]},
     pending |-> Empty]

\* Mutant: what is pending of the other stream is continued.
AppendedMixing(b, stream, text) ==
    LET whole == b.pending.text \o text
    IN [logs |-> b.logs \o Before(whole, LastCut(whole)),
        ends |-> b.ends \cup {[at |-> Len(b.logs) + i, stream |-> stream] : i \in Cuts(whole)},
        pending |-> [stream |-> stream, text |-> After(whole, LastCut(whole))]]

Appended(b, stream, text) ==
    LET base == IF b.pending.stream \in {NoStream, stream} THEN b ELSE Flushed(b)
        whole == base.pending.text \o text
    IN [logs |-> base.logs \o Before(whole, LastCut(whole)),
        ends |-> base.ends \cup {[at |-> Len(base.logs) + i, stream |-> stream] : i \in Cuts(whole)},
        pending |-> [stream |-> stream, text |-> After(whole, LastCut(whole))]]

\* Mutant: a cancellation leaves the buffer open.
OpenAfterAbort(c) == stage[c] \in {"running", "returning", "aborted"}

Open(c) == stage[c] \in {"running", "returning"}

Remaining(c) == MaxBytes - bytes[c]

\* The strict encoding of what is pending raises: the text was appended, its
\* bytes are not counted.
Raises(c, stream, text) ==
    /\ text # <<>> /\ Open(c) /\ stream \in Captured /\ Remaining(c) > 0
    /\ ~Encodable(Appended(content[c], stream, Fitting(text, Remaining(c))).pending.text)

\* Mutant: a text that does not fit is dropped without a note.
WriteAtSilent(c, stream, text) ==
    LET kept == Fitting(text, Remaining(c))
    IN IF text = <<>> \/ ~Open(c) \/ stream \notin Captured THEN UNCHANGED buffer
       ELSE /\ content' = [content EXCEPT ![c] = Appended(@, stream, kept)]
            /\ bytes' = [bytes EXCEPT ![c] = IF Raises(c, stream, text) THEN @ ELSE @ + Size(kept)]
            /\ truncated' = [truncated EXCEPT ![c] = @ \/ Remaining(c) <= 0]

WriteAt(c, stream, text) ==
    LET kept == Fitting(text, Remaining(c))
    IN IF text = <<>> \/ ~Open(c) \/ stream \notin Captured THEN UNCHANGED buffer
       ELSE IF Remaining(c) <= 0
       THEN /\ truncated' = [truncated EXCEPT ![c] = TRUE]
            /\ UNCHANGED <<content, bytes>>
       ELSE /\ content' = [content EXCEPT ![c] = Appended(@, stream, kept)]
            /\ bytes' = [bytes EXCEPT ![c] = IF Raises(c, stream, text) THEN @ ELSE @ + Size(kept)]
            /\ truncated' = [truncated EXCEPT ![c] = @ \/ FitsIn(text, Remaining(c)) < Len(text)]

FlushPending(c) == content' = [content EXCEPT ![c] = Flushed(@)]

-----------------------------------------------------------------------------
(* Calls.  The event loop of an actor runs one coroutine at a time: while it
   replays the output of a callee, the caller itself does nothing. *)

Replaying(c) == \E d \in Calls : caller[d] = c /\ stage[d] = "merging"
Tagged(c, p) ==
    [i \in DOMAIN p.text |->
        [by |-> c, pos |-> Len(printed[c]) + i, stream |-> p.stream, char |-> p.text[i]]]

\* ContextAwareStream.write of the function of a call, or of a thread in its context.
WriteText(c, p) ==
    /\ (stage[c] = "running" /\ ~Replaying(c)) \/ (c \in Threaded /\ stage[c] # "idle")
    /\ Cardinality(UNION {{d} \X DOMAIN printed[d] : d \in Calls}) + Len(p.text) <= MaxPrinted
    /\ WriteAt(c, p.stream, Tagged(c, p))
    /\ printed' = IF Open(c) /\ p.stream \in Captured
                  THEN [printed EXCEPT ![c] = @ \o Tagged(c, p)]
                  ELSE printed
    /\ UNCHANGED <<stage, caller, snapshot, merged>>

\* remote_call: the callee runs with a buffer of its own, in the same actor or
\* in a compute task.
Call(c, d) ==
    /\ stage[c] = "running" /\ ~Replaying(c)
    /\ stage[d] = "idle"
    /\ stage' = [stage EXCEPT ![d] = "running"]
    /\ caller' = [caller EXCEPT ![d] = c]
    /\ UNCHANGED <<buffer, snapshot, merged, printed>>

\* The function returned or raised: success() and failure() take a snapshot ...
MakeOutcome(c) ==
    /\ stage[c] = "running" /\ ~Replaying(c)
    /\ stage' = [stage EXCEPT ![c] = "returning"]
    /\ FlushPending(c)
    /\ snapshot' = [snapshot EXCEPT ![c] =
           [logs |-> Flushed(content[c]).logs, ends |-> Flushed(content[c]).ends,
            truncated |-> truncated[c], printed |-> printed[c]]]
    /\ UNCHANGED <<caller, bytes, truncated, merged, printed>>

\* ... and capture_output closes the buffer, to which a thread may have written meanwhile.
Close(c) ==
    /\ stage[c] = "returning"
    /\ stage' = [stage EXCEPT ![c] = "ended"]
    /\ FlushPending(c)
    /\ UNCHANGED <<caller, bytes, truncated, snapshot, merged, printed>>

\* A call is cancelled, or its process is lost: no outcome.
Abort(c) ==
    /\ stage[c] = "running" /\ ~Replaying(c)
    /\ stage' = [stage EXCEPT ![c] = "aborted"]
    /\ FlushPending(c)
    /\ UNCHANGED <<caller, bytes, truncated, snapshot, merged, printed>>

\* replay_captured_output, a chunk at a time: each write takes the lock anew.
\* A write that raises ends the replay, and remote_call in the caller.
Left(d) == {e \in snapshot[d].ends : e.at > merged[d]}
Chunk(d, e) == SubSeq(snapshot[d].logs, merged[d] + 1, e.at)

Replay(d) ==
    /\ \/ stage[d] = "ended" /\ caller[d] # NoCall /\ stage[caller[d]] # "returning" /\ ~Replaying(caller[d])
       \/ stage[d] = "merging"
    /\ \/ /\ Left(d) = {}
          /\ stage' = [stage EXCEPT ![d] = "merged"]
          /\ UNCHANGED <<buffer, merged>>
       \/ /\ Left(d) # {} /\ ~Open(caller[d])
          /\ stage' = [stage EXCEPT ![d] = "dropped"]
          /\ UNCHANGED <<buffer, merged>>
       \/ \E e \in Left(d) :
          /\ Open(caller[d]) /\ \A f \in Left(d) : e.at <= f.at
          /\ WriteAt(caller[d], e.stream, Chunk(d, e))
          /\ merged' = [merged EXCEPT ![d] = e.at]
          /\ stage' = [stage EXCEPT ![d] =
                 IF Raises(caller[d], e.stream, Chunk(d, e)) THEN "dropped" ELSE "merging"]
    /\ UNCHANGED <<caller, snapshot, printed>>

OutputNext ==
    \/ \E c \in Calls, p \in Prints : WriteText(c, p)
    \/ \E c, d \in Calls : Call(c, d)
    \/ \E c \in Calls : MakeOutcome(c) \/ Close(c) \/ Abort(c) \/ Replay(c)

OutputSpec == OutputInit /\ [][OutputNext]_outputVars

-----------------------------------------------------------------------------
(* Properties *)

Tags == [by : Calls, pos : Nat, stream : Streams, char : Characters]
Texts == Seq(Tags)
Ends == [at : Nat, stream : Streams]
Contents == [logs : Texts, ends : SUBSET Ends, pending : [stream : Streams \cup {NoStream}, text : Texts]]
Stages == {"idle", "running", "returning", "ended", "aborted", "merging", "merged", "dropped"}

\* Every variable keeps its type.
OutputTypeOK ==
    /\ stage \in [Calls -> Stages]
    /\ caller \in [Calls -> Calls \cup {NoCall}]
    /\ content \in [Calls -> Contents]
    /\ bytes \in [Calls -> Nat]
    /\ truncated \in [Calls -> BOOLEAN]
    /\ snapshot \in [Calls -> [logs : Texts, ends : SUBSET Ends, truncated : BOOLEAN, printed : Texts]]
    /\ merged \in [Calls -> Nat]
    /\ printed \in [Calls -> Texts]

Kept(c) == content[c].logs \o content[c].pending.text

\* A write that raised is not counted.
LimitIsExact(c) ==
    /\ bytes[c] <= Size(Kept(c)) /\ bytes[c] <= MaxBytes
    /\ Encodable(Kept(c)) => bytes[c] = Size(Kept(c))

IsChunk(text, stream) ==
    /\ \A i \in DOMAIN text : text[i].stream = stream
    /\ LineFeeds(text) \subseteq {Len(text)}
    /\ Size(text) <= ChunkBytes \/ LineFeeds(text) # {} \/ ~Encodable(text)

\* A chunk lies between two ends, the first one after the beginning.
ChunksAreWellFormed(c) ==
    LET b == content[c] IN
    /\ b.logs # <<>> => \E e \in b.ends : e.at = Len(b.logs)
    /\ \A e \in b.ends, s \in {0} \cup {f.at : f \in b.ends} :
         s < e.at /\ (\A f \in b.ends : f.at <= s \/ e.at <= f.at) =>
            IsChunk(SubSeq(b.logs, s + 1, e.at), e.stream)

\* A buffer of text that UTF-8 has holds exactly the bytes it counts, and so
\* never more than invocation_log_max_bytes, although a limit may fall inside a
\* character and the output of callees is written again (write_at).  What a
\* buffer with a lone surrogate holds beyond its count comes of writes that
\* raised; it never counts what it does not hold.  Every chunk is of one stream,
\* a line feed ends it, and it is longer than invocation_log_chunk_bytes only if
\* it is a whole line or holds a lone surrogate (_append, _split_utf8).
OutputIsBounded == \A c \in Calls : LimitIsExact(c) /\ ChunksAreWellFormed(c)

\* The calls made within a call, itself among them.
Within(c) ==
    {d \in Calls : \A group \in SUBSET Calls :
        c \in group /\ (\A e \in Calls : caller[e] \in group => e \in group) => d \in group}

InOrder(text) == \A i, j \in DOMAIN text : i < j /\ text[i].by = text[j].by => text[i].pos < text[j].pos

\* What a buffer holds was printed by its call or by calls made within it, and
\* what one call printed is in the order in which it was printed, on both
\* streams together, however it was cut, chunked and merged; so it is in the
\* outcome.
OutputBelongs ==
    \A c \in Calls :
        /\ \A i \in DOMAIN Kept(c) : Kept(c)[i].by \in Within(c)
        /\ InOrder(Kept(c)) /\ InOrder(snapshot[c].logs)

PartOf(d, text) == {x \in {text[i] : i \in DOMAIN text} : x.by = d}

\* An outcome that is not marked as truncated has all that its call printed
\* and all that the outcomes of the callees had that were merged into it, and
\* nothing else of any of them.
NothingLostSilently ==
    \A c \in Calls :
        stage[c] \notin {"idle", "running", "aborted"} /\ ~snapshot[c].truncated =>
            /\ PartOf(c, snapshot[c].logs) = PartOf(c, snapshot[c].printed)
            /\ \A d, e \in Calls :
                 caller[d] = c /\ stage[d] = "merged" /\ PartOf(e, snapshot[d].logs) # {} =>
                    PartOf(e, snapshot[c].logs) = PartOf(e, snapshot[d].logs)

\* Once a call is over, nothing is added to its output: not by a thread that
\* goes on after a cancellation, nor by a callee that nobody awaited.
LateOutputIsDropped ==
    [][\A c \in Calls :
        stage[c] \notin {"idle", "running", "returning"} =>
            Kept(c)' = Kept(c) /\ snapshot'[c] = snapshot[c] /\ truncated'[c] = truncated[c]]_outputVars

=============================================================================
