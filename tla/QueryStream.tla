---------------------------- MODULE QueryStream ----------------------------
(***************************************************************************)
(* The query page: a question asked over a stream or in one call, its      *)
(* frames reassembled from whatever pieces the network delivers            *)
(* (lib/api/sse.ts), the state it drives (lib/hooks/useQueryStream.ts,     *)
(* useQuerySubmit.ts), and the browser's history of what was answered      *)
(* (components/query/query-workspace.tsx, lib/storage/history.ts).         *)
(*                                                                         *)
(* The page runs on one thread: a step is what runs between two awaits.    *)
(* The frames of one read are handed over in one step, and the network, the*)
(* refresh of a token and the user come between steps.                     *)
(***************************************************************************)
EXTENDS Naturals, Sequences, SequencesExt

CONSTANTS
  MaxQueries,   \* bound: questions asked
  MaxTokens,    \* bound: token frames of one answer
  HistoryLimit, \* HISTORY_LIMIT
  Cuts          \* bound: the places within a frame where a connection may end

ASSUME QueryStreamAssumption ==
  /\ MaxQueries \in Nat /\ MaxTokens \in Nat
  /\ HistoryLimit \in Nat \ {0}
  /\ Cuts \subseteq Nat

VARIABLES
  asked,     \* questions asked so far: their numbers name them
  stream,    \* stream[q]: the generator of streamQuery for question q
  aborted,   \* the questions whose controller has been aborted
  current,   \* useQueryStream's abortRef
  hook,      \* useQueryStream's state
  call,      \* useQuerySubmit's mutation
  unsettled, \* blocking calls the network has not settled
  streaming, \* the transport toggle
  mounted,   \* the page is open
  seen,      \* recordedStreamResultRef
  history    \* the stored entries, newest first

vars == <<asked, stream, aborted, current, hook, call, unsettled, streaming,
          mounted, seen, history>>
-----------------------------------------------------------------------------
Queries == 1 .. MaxQueries
None    == 0

(* Frames on the wire *)

NL      == "nl"
Names   == {"retrieval", "token", "verification", "done", "error"}

\* _sse: the event line, the data line and a blank line.  The event line is one symbol
\* with its newline; the data line is two, for its JSON is broken when only the
\* first has arrived.
Frame(name) == <<name, "data", "json", NL, NL>>

FrameLength == 5
Symbols     == Names \cup {"data", "json", NL}

\* What the server writes: an answer, or the frames up to a failure and an error.
Answers == {<<"retrieval">> \o [i \in 1 .. n |-> "token"] \o <<"verification", "done">> :
              n \in 0 .. MaxTokens}

\* Nothing fails between the verification, the last frame of the service, and done.
Scripts == Answers \cup
  UNION {{Append(SubSeq(a, 1, n), "error") : n \in 0 .. Len(a) - 2} : a \in Answers}

\* The first n symbols of the frames of a script.
Bytes(script, n) ==
  [i \in 1 .. n |-> Frame(script[((i - 1) \div FrameLength) + 1])[((i - 1) % FrameLength) + 1]]

\* Where a blank line ends a frame.
Boundaries(text) ==
  {i \in DOMAIN text : i + 1 \in DOMAIN text /\ text[i] = NL /\ text[i + 1] = NL}

\* parseFrame and toStreamEvent: no data line, no frame; no event line, or JSON that is
\* not whole, is an error.
IsFrame(raw) == Contains(raw, "data")
Parsed(raw)  ==
  IF raw[1] \in Names THEN [event |-> raw[1], whole |-> Contains(raw, "json")]
                      ELSE [event |-> "message", whole |-> FALSE]

ParsedFrame    == [event : Names \cup {"message"}, whole : BOOLEAN]
SSEFrameBuffer == [frames : Seq(ParsedFrame), buffer : Seq(Symbols)]

\* One turn of push's loop: the text up to the first blank line leaves the buffer.
Drain == [s \in SSEFrameBuffer |->
  LET boundary == Min(Boundaries(s.buffer))
      raw      == SubSeq(s.buffer, 1, boundary - 1)
  IN IF Boundaries(s.buffer) = {} THEN s
     ELSE [frames |-> IF IsFrame(raw) THEN Append(s.frames, Parsed(raw)) ELSE s.frames,
           buffer |-> SubSeq(s.buffer, boundary + 2, Len(s.buffer))]]

\* The loop, which has no more turns to make than the text has symbols.
Cut(text) ==
  LET turn[n \in 0 .. Len(text)] ==
        IF n = 0 THEN [frames |-> <<>>, buffer |-> text] ELSE Drain[turn[n - 1]]
  IN turn[Len(text)]

\* Mutant: each chunk is parsed on its own.
Push_PerChunk(buffer, chunk) == Cut(chunk)

\* push: every frame the buffer now completes, and what is left of it.
Push(buffer, chunk) == Cut(buffer \o chunk)

\* flush: a last frame without its blank line.
Flush(buffer) == IF IsFrame(buffer) THEN <<Parsed(buffer)>> ELSE <<>>
-----------------------------------------------------------------------------
(* The state of the page *)

Idle == [phase |-> "idle", result |-> None, error |-> None]

NoCall == [status |-> "idle", of |-> None]

NoStream == [at |-> "none", again |-> FALSE, script |-> <<>>, ending |-> "none",
             sent |-> 0, wire |-> <<>>, buffer |-> <<>>, events |-> <<>>]

\* A generator that threw, or that nobody refers to any more.
Gone == [NoStream EXCEPT !.at = "over"]

\* An abort empties the body: the read that waits for it, or the next, rejects.
Severed(q) ==
  IF stream[q].at = "reading" THEN [NoStream EXCEPT !.at = "reading"] ELSE stream[q]

Superseded(q) == IF q = current THEN Severed(q) ELSE stream[q]

Busy == IF streaming THEN hook.phase \in {"connecting", "streaming"}
        ELSE call.status = "pending"

\* An effect is due when a result was rendered that it has not recorded.
EffectDue == mounted /\ hook.result # None /\ hook.result # seen

\* React runs due effects before it handles the next click.
UserActs == ~EffectDue

Has(frames, name)    == \E i \in DOMAIN frames : frames[i].event = name
EndsIn(frames, name) == \E i \in DOMAIN frames : /\ frames[i].event = name
                                                 /\ \A j \in DOMAIN frames : j <= i

\* The updates of the frames handed over, in their order: the last decides the phase.
AfterFrames(q, frames) ==
  [phase  |-> IF frames = <<>> THEN hook.phase
              ELSE CASE EndsIn(frames, "done")  -> "done"
                     [] EndsIn(frames, "error") -> "error"
                     [] OTHER -> "streaming",
   result |-> IF Has(frames, "verification") THEN q ELSE hook.result,
   error  |-> IF Has(frames, "error") THEN q ELSE hook.error]

\* addHistoryEntry: the newest first, the oldest dropped.
Remembered(q) ==
  LET next == <<q>> \o history
  IN SubSeq(next, 1, IF Len(next) < HistoryLimit THEN Len(next) ELSE HistoryLimit)

Init ==
  /\ asked = 0
  /\ stream = [q \in Queries |-> NoStream]
  /\ aborted = {}
  /\ current = None
  /\ hook = Idle
  /\ call = NoCall
  /\ unsettled = {}
  /\ streaming = TRUE
  /\ mounted = TRUE
  /\ seen = None
  /\ history = <<>>
-----------------------------------------------------------------------------
(* The user *)

\* handleSubmit and handleRetry over the stream: start() supersedes what is in flight.
Start ==
  LET q == asked + 1 IN
  /\ mounted /\ UserActs /\ streaming /\ ~Busy
  /\ asked < MaxQueries
  /\ asked' = q
  /\ aborted' = aborted \cup ({current} \ {None})
  /\ current' = q
  /\ hook' = [Idle EXCEPT !.phase = "connecting"]
  /\ stream' = [p \in Queries |-> IF p = q THEN [NoStream EXCEPT !.at = "opening"]
                                  ELSE IF stream[p].at = "over" THEN Gone ELSE Superseded(p)]
  /\ UNCHANGED <<call, unsettled, streaming, mounted, seen, history>>

\* The same in one call: mutate() detaches the observer from the call before it.
Mutate ==
  LET q == asked + 1 IN
  /\ mounted /\ UserActs /\ ~streaming /\ ~Busy
  /\ asked < MaxQueries
  /\ asked' = q
  /\ call' = [status |-> "pending", of |-> q]
  /\ unsettled' = unsettled \cup {q}
  /\ UNCHANGED <<stream, aborted, current, hook, streaming, mounted, seen, history>>

\* handleCancel, of the transport in use.
Cancel ==
  /\ mounted /\ UserActs /\ Busy
  /\ \/ /\ streaming
        /\ aborted' = aborted \cup {current}
        /\ hook' = [hook EXCEPT !.phase = "idle"]
        /\ stream' = [stream EXCEPT ![current] = Severed(current)]
        /\ UNCHANGED call
     \/ /\ ~streaming
        /\ aborted' = aborted \cup {call.of}
        /\ call' = NoCall
        /\ UNCHANGED <<hook, stream>>
  /\ UNCHANGED <<asked, current, unsettled, streaming, mounted, seen, history>>

Toggle ==
  /\ mounted /\ UserActs /\ ~Busy
  /\ streaming' = ~streaming
  /\ UNCHANGED <<asked, stream, aborted, current, hook, call, unsettled, mounted, seen, history>>

\* The page is left: its state and refs go.  Its requests do not, but nobody hears of them:
\* the stream is an orphan, the call is not observed.
Leave ==
  /\ mounted /\ UserActs
  /\ mounted' = FALSE
  /\ stream' = [q \in Queries |->
       IF stream[q].at = "none" THEN NoStream
       ELSE IF stream[q].at = "over" THEN Gone ELSE [NoStream EXCEPT !.at = "orphan"]]
  /\ hook' = Idle /\ call' = NoCall /\ current' = None /\ seen' = None
  /\ streaming' = TRUE
  /\ UNCHANGED <<asked, aborted, unsettled, history>>

Return ==
  /\ ~mounted
  /\ mounted' = TRUE
  /\ UNCHANGED <<asked, stream, aborted, current, hook, call, unsettled, streaming, seen,
                 history>>

\* removeHistoryEntry and clearHistory, on the history page.
Forget ==
  /\ ~mounted
  /\ \/ \E i \in DOMAIN history : history' = RemoveAt(history, i)
     \/ history # <<>> /\ history' = <<>>
  /\ UNCHANGED <<asked, stream, aborted, current, hook, call, unsettled, streaming, mounted, seen>>
-----------------------------------------------------------------------------
(* The stream *)

Goes(q, place) == stream' = [stream EXCEPT ![q].at = place]

\* Mutant: every failure is shown, a deliberate cancellation included.
Thrown_Always(q, frames) ==
  hook' = [AfterFrames(q, frames) EXCEPT !.phase = "error", !.error = q]

\* The hook's catch block, after the frames that came before the failure.
Thrown(q, frames) ==
  IF q \in aborted THEN UNCHANGED hook
  ELSE hook' = [AfterFrames(q, frames) EXCEPT !.phase = "error", !.error = q]

others == <<asked, aborted, current, call, unsettled, streaming, mounted, seen, history>>

\* fetch resolves with a body: the server will write this much of a script.
Opened(q) ==
  /\ stream[q].at = "opening" /\ q \notin aborted
  /\ \E script \in Scripts, ending \in {"complete", "cut", "broken"} :
       \E n \in 0 .. Len(script) * FrameLength :
         /\ ending = "complete" => n = Len(script) * FrameLength
         /\ ending = "cut" => n < Len(script) * FrameLength
         /\ n % FrameLength \in Cuts
         /\ stream' = [stream EXCEPT ![q].at = "reading", ![q].ending = ending,
              ![q].sent = n, ![q].wire = Bytes(script, n),
              ![q].script = SubSeq(script, 1, (n + FrameLength - 1) \div FrameLength)]
  /\ UNCHANGED <<hook, others>>

\* Mutant: the stream is opened again after every refresh.
Refused_Forever(q) ==
  /\ stream[q].at = "opening" /\ q \notin aborted
  /\ \E status \in {401, 500} : Goes(q, IF status = 401 THEN "refreshing" ELSE "refusal")
  /\ UNCHANGED <<hook, others>>

\* An error status: a first 401 refreshes the token, all else is read and thrown.
Refused(q) ==
  /\ stream[q].at = "opening" /\ q \notin aborted
  /\ \E status \in {401, 500} :
       Goes(q, IF status = 401 /\ ~stream[q].again THEN "refreshing" ELSE "refusal")
  /\ UNCHANGED <<hook, others>>

\* refreshAccessToken takes no signal: it goes on whatever became of the question.
Refreshed(q) ==
  /\ stream[q].at = "refreshing"
  /\ \/ stream' = [stream EXCEPT ![q].at = "opening", ![q].again = TRUE]
     \/ Goes(q, "refusal")
  /\ UNCHANGED <<hook, others>>

\* A rejection at an await: the network's, the refusal once read, or the abort.
Rejected(q) ==
  /\ \/ stream[q].at \in {"opening", "refusal"}
     \/ stream[q].at = "reading" /\ q \in aborted
     \/ stream[q].at = "reading" /\ stream[q].wire = <<>> /\ stream[q].ending = "broken"
  /\ stream' = [stream EXCEPT ![q] = Gone]
  /\ Thrown(q, <<>>)
  /\ UNCHANGED others

\* The frames of one read or of the flush, up to one that is not JSON.
HandOver(q, frames, after) ==
  LET broken == {i \in DOMAIN frames : ~frames[i].whole}
      good   == IF broken = {} THEN frames ELSE SubSeq(frames, 1, Min(broken) - 1)
  IN /\ stream' = [stream EXCEPT ![q] = [after EXCEPT
                     !.at = IF broken = {} THEN @ ELSE "over",
                     !.events = @ \o [i \in DOMAIN good |-> good[i].event]]]
     /\ IF broken = {} THEN hook' = AfterFrames(q, frames) ELSE Thrown(q, good)

\* reader.read(): some of the bytes on the wire, split anywhere.
Read(q) ==
  /\ stream[q].at = "reading" /\ q \notin aborted
  /\ \E n \in 1 .. Len(stream[q].wire) :
       LET pushed == Push(stream[q].buffer, SubSeq(stream[q].wire, 1, n))
       IN HandOver(q, pushed.frames,
                   [stream[q] EXCEPT !.buffer = pushed.buffer,
                                     !.wire = SubSeq(@, n + 1, Len(@))])
  /\ UNCHANGED others

\* The body ends; the hook learns nothing of it but the frames.
Close(q) ==
  /\ stream[q].at = "reading" /\ q \notin aborted
  /\ stream[q].wire = <<>> /\ stream[q].ending # "broken"
  /\ HandOver(q, Flush(stream[q].buffer), [stream[q] EXCEPT !.at = "over", !.buffer = <<>>])
  /\ UNCHANGED others
-----------------------------------------------------------------------------
(* The blocking call, and what is recorded *)

\* A call settles; its onSuccess runs only while it is observed.
Settle(q) ==
  /\ q \in unsettled
  /\ unsettled' = unsettled \ {q}
  /\ \E answered \in BOOLEAN :
       IF call.of = q
       THEN /\ call' = [call EXCEPT !.status = IF answered THEN "success" ELSE "error"]
            /\ history' = IF answered THEN Remembered(q) ELSE history
       ELSE UNCHANGED <<call, history>>
  /\ UNCHANGED <<asked, stream, aborted, current, hook, streaming, mounted, seen>>

\* Mutant: the effect keeps no reference to what it recorded.
Record_Again ==
  /\ mounted /\ hook.result # None
  /\ seen' = seen
  /\ history' = Remembered(hook.result)
  /\ UNCHANGED <<asked, stream, aborted, current, hook, call, unsettled, streaming, mounted>>

\* The effect on queryStream.result.
Record ==
  /\ EffectDue
  /\ seen' = hook.result
  /\ history' = Remembered(hook.result)
  /\ UNCHANGED <<asked, stream, aborted, current, hook, call, unsettled, streaming, mounted>>

Network(q) ==
  \/ Opened(q) \/ Refused(q) \/ Refreshed(q) \/ Rejected(q) \/ Read(q) \/ Close(q)
  \/ Settle(q)

User == Start \/ Mutate \/ Cancel \/ Toggle \/ Leave \/ Return \/ Forget

Next == User \/ Record \/ \E q \in Queries : Network(q)

Spec == Init /\ [][Next]_vars

\* The server ends every request and the network delivers or fails; nothing is asked
\* of the user.
FairSpec ==
  /\ Spec
  /\ WF_vars(Record)
  /\ \A q \in Queries : WF_vars(Network(q))
-----------------------------------------------------------------------------
\* What a stream carries and what is stored are sequences; FramesAsSent and RecordedOnce
\* say what is in them.
TypeOK ==
  /\ asked \in 0 .. MaxQueries
  /\ DOMAIN stream = Queries
  /\ \A q \in Queries :
       stream[q].at \in {"none", "opening", "refreshing", "refusal", "reading", "over", "orphan"}
  /\ aborted \subseteq Queries
  /\ current \in Queries \cup {None}
  /\ hook \in [phase : {"idle", "connecting", "streaming", "done", "error"},
               result : Queries \cup {None}, error : Queries \cup {None}]
  /\ call \in [status : {"idle", "pending", "success", "error"}, of : Queries \cup {None}]
  /\ unsettled \subseteq Queries
  /\ streaming \in BOOLEAN
  /\ mounted \in BOOLEAN
  /\ seen \in Queries \cup {None}

\* The page shows the latest question only, although older streams go on waiting for
\* a token or a refusal after they are superseded, cancelled or left behind: no
\* result or error of theirs appears, and a cancelled question stays
\* idle (useQueryStream.ts:45-50, 72).
OnlyTheLatest ==
  /\ hook.result \in {None, current}
  /\ hook.error \in {None, current}
  /\ hook.phase = "error" => hook.error = current
  /\ current \in aborted => hook.phase = "idle"

\* However the bytes were split, a stream has handed over exactly the frames whose last
\* byte has arrived, in the order written; when it is over, also a whole last one
\* without its blank line (sse.ts:30-52).
FramesAsSent ==
  \A q \in Queries :
    LET s   == stream[q]
        got == s.sent - Len(s.wire)
        \* A frame is whole with the third of its five symbols.
        n   == (IF s.at = "over" /\ s.buffer = <<>> THEN got + 2 ELSE got) \div FrameLength
    IN s.events = SubSeq(s.script, 1, n)

\* What was answered is remembered once, newest first, however often the page renders:
\* a streamed answer on show is, unless it was evicted by a newer one; a blocking call
\* that was cancelled never is (query-workspace.tsx:79-95, useQuerySubmit.ts:55-68).
RecordedOnce ==
  /\ \A i, j \in DOMAIN history : i < j => history[i] > history[j]
  /\ Len(history) <= HistoryLimit
  /\ mounted /\ ~EffectDue /\ hook.result # None /\ hook.result = asked
       => history # <<>> /\ Head(history) = asked
  /\ \A q \in Range(history) \cap aborted : stream[q].at # "none"

\* A stream that was closed early, between two frames, without an error.
SilentlyCut == streaming /\ current # None /\ stream[current].at = "over"
                         /\ stream[current].ending = "cut"

\* The composer does not stay disabled: the page stops waiting whatever the server and the
\* token refresh do, or it was never told that its stream ended
\* (query-workspace.tsx:142-144, useQueryStream.ts:52-68).
BusyEnds == (mounted /\ Busy) ~> (~mounted \/ ~Busy \/ SilentlyCut)
=============================================================================
