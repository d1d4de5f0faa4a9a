------------------------- MODULE QueryStreamProofs -------------------------
(***************************************************************************)
(* Theorems about QueryStream, for any number of questions, any length of  *)
(* answers, any limit of the history and any place where connections end.  *)
(*                                                                         *)
(* Four invariants carry them.  PageInv is about who may speak to the      *)
(* page: there a generator matters for where it waits, and the frames it   *)
(* hands over for their names.  StreamInv is about what a stream carries:  *)
(* how many frames of its script have been read and how many symbols of    *)
(* the next, which needs an induction over the loop of push.  HistInv is   *)
(* about what is stored, and CauseInv about what a busy page still waits   *)
(* for.  The last theorem bounds how often a question can be waited for.   *)
(***************************************************************************)
EXTENDS QueryStream, Integers, SequenceTheorems, WellFoundedInduction, TLAPS

Places == {"none", "opening", "refreshing", "refusal", "reading", "over", "orphan"}

\* Where a generator may still hand frames, or a failure, to the page.
Active == {"opening", "refreshing", "refusal", "reading"}

Phases == {"idle", "connecting", "streaming", "done", "error"}

HookType == [phase : Phases, result : Queries \cup {None}, error : Queries \cup {None}]

(* A generator that may still speak to the page is the latest question's   *)
(* or knows itself aborted; the transports never share a question, so that *)
(* the cancellation of one says nothing of the other's.                    *)
PageInv ==
  /\ TypeOK
  /\ \A q \in Queries : /\ "at" \in DOMAIN stream[q]
                        /\ stream[q].at \in Active => q = current \/ q \in aborted
  /\ current <= asked /\ call.of <= asked
  /\ \A q \in aborted : q <= asked
  /\ call.of # None => call.of # current
  /\ call.status = "pending" => call.of # None
  /\ hook.phase # "idle" => current # None
  /\ OnlyTheLatest

LEMMA QueryFacts ==
  /\ Queries \subseteq Nat \ {0} /\ None = 0 /\ None \notin Queries
  /\ MaxQueries \in Nat
  BY QueryStreamAssumption DEF Queries, None

LEMMA StreamFacts ==
  /\ "at" \in DOMAIN NoStream /\ NoStream.at = "none"
  /\ "at" \in DOMAIN Gone /\ Gone.at = "over"
  /\ \A place : /\ "at" \in DOMAIN [NoStream EXCEPT !.at = place]
                /\ [NoStream EXCEPT !.at = place].at = place
  <1>1. "at" \in DOMAIN NoStream /\ NoStream.at = "none"
    BY DEF NoStream
  <1> QED BY <1>1 DEF Gone

LEMMA IdleFacts ==
  /\ Idle \in HookType /\ Idle.phase = "idle" /\ Idle.result = None /\ Idle.error = None
  /\ NoCall \in [status : {"idle", "pending", "success", "error"}, of : Queries \cup {None}]
  /\ NoCall.status = "idle" /\ NoCall.of = None
  BY DEF Idle, HookType, Phases, NoCall

LEMMA Initially == Init => PageInv
  <1> SUFFICES ASSUME Init PROVE PageInv
    OBVIOUS
  <1>1. TypeOK
    BY QueryFacts, StreamFacts, IdleFacts DEF Init, TypeOK, HookType, Phases
  <1>2. OnlyTheLatest
    BY IdleFacts DEF Init, OnlyTheLatest
  <1>3. \A q \in Queries : "at" \in DOMAIN stream[q] /\ stream[q].at \notin Active
    BY StreamFacts DEF Init, Active
  <1> QED BY <1>1, <1>2, <1>3, QueryFacts, IdleFacts DEF Init, PageInv
-----------------------------------------------------------------------------
(* The user *)

(* A severed read waits where it waited.                                   *)
LEMMA SeveredPlace ==
  ASSUME PageInv, NEW q \in Queries
  PROVE  "at" \in DOMAIN Severed(q) /\ Severed(q).at = stream[q].at
  BY StreamFacts DEF PageInv, Severed

LEMMA StartKeeps ==
  ASSUME PageInv, Start
  PROVE  PageInv'
  <1> DEFINE new == asked + 1
  <1>1. /\ new \in Queries /\ asked' = new /\ current' = new /\ new \notin aborted
        /\ new # None /\ new # current
        /\ aborted' = aborted \cup ({current} \ {None})
    BY QueryFacts DEF Start, PageInv, TypeOK, Queries
  <1>2. /\ hook' \in HookType /\ hook'.phase = "connecting"
        /\ hook'.result = None /\ hook'.error = None
    BY IdleFacts DEF Start, HookType, Phases
  <1>3. UNCHANGED <<call, unsettled, streaming, mounted, seen>>
    BY DEF Start
  <1>4. DOMAIN stream' = Queries
    BY DEF Start
  <1>5. ASSUME NEW p \in Queries
        PROVE  /\ "at" \in DOMAIN stream'[p]
               /\ stream'[p].at \in Places
               /\ stream'[p].at \in Active => p = new \/ p \in aborted'
    <2>1. stream[p].at \in Places /\ "at" \in DOMAIN stream[p]
      BY DEF PageInv, TypeOK, Places
    <2>2. CASE p = new
      <3>1. stream'[p] = [NoStream EXCEPT !.at = "opening"]
        BY <2>2 DEF Start
      <3> QED BY <2>2, <3>1, StreamFacts DEF Places
    <2>3. CASE p # new /\ stream[p].at = "over"
      <3>1. stream'[p] = Gone
        BY <2>3 DEF Start
      <3> QED BY <3>1, StreamFacts DEF Places, Active
    <2>4. CASE p # new /\ stream[p].at # "over"
      <3>1. stream'[p] = Superseded(p)
        BY <2>4 DEF Start
      <3>2. "at" \in DOMAIN stream'[p] /\ stream'[p].at = stream[p].at
        BY <2>1, <3>1, SeveredPlace DEF Superseded
      <3>3. stream[p].at \in Active => p = current \/ p \in aborted
        BY DEF PageInv
      <3> QED BY <1>1, <2>1, <3>2, <3>3, QueryFacts
    <2> QED BY <2>2, <2>3, <2>4
  <1>6. aborted' \subseteq Queries /\ new \notin aborted' /\ \A q \in aborted' : q <= new
    BY <1>1, QueryFacts DEF PageInv, TypeOK, Queries
  <1>7. TypeOK'
    BY <1>1, <1>2, <1>3, <1>4, <1>5, <1>6, QueryFacts
    DEF PageInv, TypeOK, Places, HookType, Phases, Queries
  <1>8. OnlyTheLatest'
    BY <1>1, <1>2, <1>6 DEF OnlyTheLatest
  <1>9. /\ current' <= asked' /\ call'.of <= asked'
        /\ call'.of # None => call'.of # current'
        /\ call'.status = "pending" => call'.of # None
    <2>1. call.of \in Nat /\ asked \in Nat
      BY QueryFacts DEF PageInv, TypeOK, Queries
    <2> QED BY <1>1, <1>3, <2>1 DEF PageInv
  <1> QED BY <1>1, <1>5, <1>6, <1>7, <1>8, <1>9 DEF PageInv

LEMMA MutateKeeps ==
  ASSUME PageInv, Mutate
  PROVE  PageInv'
  <1> DEFINE new == asked + 1
  <1>1. /\ new \in Queries /\ asked' = new /\ asked <= new
        /\ new # None /\ new # current /\ new <= new
        /\ asked \in Nat /\ current \in Nat /\ current <= new
        /\ \A q \in aborted : q <= new
    BY QueryFacts DEF Mutate, PageInv, TypeOK, Queries
  <1>2. /\ call' = [status |-> "pending", of |-> new] /\ unsettled' = unsettled \cup {new}
        /\ UNCHANGED <<stream, aborted, current, hook, streaming, mounted, seen>>
    BY DEF Mutate
  <1>3. TypeOK'
    BY <1>1, <1>2 DEF PageInv, TypeOK, Queries
  <1> HIDE DEF new
  <1> QED BY <1>1, <1>2, <1>3 DEF PageInv, OnlyTheLatest

LEMMA CancelKeeps ==
  ASSUME PageInv, Cancel
  PROVE  PageInv'
  <1>1. UNCHANGED <<asked, current, unsettled, streaming, mounted, seen>>
    BY DEF Cancel
  <1>2. CASE streaming
    <2>1. /\ aborted' = aborted \cup {current} /\ hook' = [hook EXCEPT !.phase = "idle"]
          /\ stream' = [stream EXCEPT ![current] = Severed(current)] /\ UNCHANGED call
      BY <1>2 DEF Cancel
    <2>2. hook.phase # "idle" /\ current \in Queries
      BY <1>2 DEF Cancel, Busy, PageInv, TypeOK
    <2>3. hook' \in HookType /\ hook'.phase = "idle" /\ hook'.result = hook.result
                             /\ hook'.error = hook.error
      BY <2>1 DEF PageInv, TypeOK, HookType, Phases
    <2>4. /\ DOMAIN stream' = Queries
          /\ \A q \in Queries : "at" \in DOMAIN stream'[q] /\ stream'[q].at = stream[q].at
      BY <2>1, <2>2, SeveredPlace DEF PageInv, TypeOK
    <2>5. TypeOK'
      BY <1>1, <2>1, <2>2, <2>3, <2>4 DEF PageInv, TypeOK, HookType, Phases
    <2>6. OnlyTheLatest'
      BY <1>1, <2>3 DEF PageInv, OnlyTheLatest
    <2> QED BY <1>1, <2>1, <2>2, <2>3, <2>4, <2>5, <2>6 DEF PageInv
  <1>3. CASE ~streaming
    <2>1. /\ aborted' = aborted \cup {call.of} /\ call' = NoCall /\ UNCHANGED <<hook, stream>>
      BY <1>3 DEF Cancel
    <2>2. call.of \in Queries /\ call.of <= asked /\ call.of # current
      BY <1>3 DEF Cancel, Busy, PageInv, TypeOK
    <2>3. TypeOK'
      BY <1>1, <2>1, <2>2, IdleFacts DEF PageInv, TypeOK
    <2>4. OnlyTheLatest'
      BY <1>1, <2>1, <2>2 DEF PageInv, OnlyTheLatest
    <2>5. NoCall.of <= asked
      BY QueryFacts, IdleFacts DEF PageInv, TypeOK
    <2> QED BY <1>1, <2>1, <2>2, <2>3, <2>4, <2>5, IdleFacts DEF PageInv
  <1> QED BY <1>2, <1>3

LEMMA LeaveKeeps ==
  ASSUME PageInv, Leave
  PROVE  PageInv'
  <1>1. /\ hook' = Idle /\ call' = NoCall /\ current' = None /\ seen' = None
        /\ streaming' = TRUE /\ mounted' = FALSE
        /\ UNCHANGED <<asked, aborted, unsettled>>
        /\ DOMAIN stream' = Queries
    BY DEF Leave
  <1>2. ASSUME NEW q \in Queries
        PROVE  /\ "at" \in DOMAIN stream'[q] /\ stream'[q].at \in Places
               /\ stream'[q].at \notin Active
    <2>1. stream'[q] \in {NoStream, Gone, [NoStream EXCEPT !.at = "orphan"]}
      BY DEF Leave
    <2> QED BY <2>1, StreamFacts DEF Places, Active
  <1>3. TypeOK'
    BY <1>1, <1>2, IdleFacts DEF PageInv, TypeOK, Places, HookType, Phases
  <1>4. OnlyTheLatest'
    BY <1>1, IdleFacts, QueryFacts DEF PageInv, TypeOK, OnlyTheLatest
  <1>5. None <= asked'
    BY <1>1, QueryFacts DEF PageInv, TypeOK
  <1> QED BY <1>1, <1>2, <1>3, <1>4, <1>5, IdleFacts DEF PageInv

(* Switching the transport, returning to the page, editing the history and *)
(* recording an answer leave every stream and question as they were.       *)
LEMMA PageKeeps ==
  ASSUME PageInv, UNCHANGED <<asked, stream, aborted, current, hook, call, unsettled>>,
         streaming' \in BOOLEAN, mounted' \in BOOLEAN, seen' \in Queries \cup {None}
  PROVE  PageInv'
  BY DEF PageInv, TypeOK, OnlyTheLatest

LEMMA UserKeeps ==
  ASSUME PageInv, User \/ Record
  PROVE  PageInv'
  <1>1. CASE Toggle
    BY <1>1, PageKeeps DEF Toggle, PageInv, TypeOK
  <1>2. CASE Return
    BY <1>2, PageKeeps DEF Return, PageInv, TypeOK
  <1>3. CASE Forget
    BY <1>3, PageKeeps DEF Forget, PageInv, TypeOK
  <1>4. CASE Record
    <2>1. hook.result \in Queries \cup {None}
      BY DEF PageInv, TypeOK
    <2> QED BY <1>4, <2>1, PageKeeps DEF Record, PageInv, TypeOK
  <1> QED BY <1>1, <1>2, <1>3, <1>4, StartKeeps, MutateKeeps, CancelKeeps, LeaveKeeps DEF User
-----------------------------------------------------------------------------
(* The network *)

(* Frames handed over for the latest question.                             *)
LEMMA Handed ==
  ASSUME PageInv, NEW q \in Queries, q = current, q \notin aborted, NEW frames
  PROVE  /\ AfterFrames(q, frames) \in HookType
         /\ AfterFrames(q, frames).result \in {None, current}
         /\ AfterFrames(q, frames).error \in {None, current}
         /\ AfterFrames(q, frames).phase = "error" => AfterFrames(q, frames).error = current
  <1>1. hook \in HookType /\ OnlyTheLatest
    BY DEF PageInv, TypeOK, HookType, Phases
  <1>2. EndsIn(frames, "error") => Has(frames, "error")
    BY DEF EndsIn, Has
  <1> QED BY <1>1, <1>2 DEF AfterFrames, HookType, Phases, OnlyTheLatest

(* What the hook becomes in a step of question q's generator.              *)
Heard(q) ==
  \/ UNCHANGED hook
  \/ /\ q \notin aborted
     /\ \E frames : \/ hook' = AfterFrames(q, frames)
                    \/ hook' = [AfterFrames(q, frames) EXCEPT !.phase = "error", !.error = q]

LEMMA StreamKeeps ==
  ASSUME PageInv, NEW q \in Queries, stream[q].at \in Active, NEW s,
         stream' = [stream EXCEPT ![q] = s], "at" \in DOMAIN s,
         s.at \in Active \cup {"over"}, Heard(q), UNCHANGED others
  PROVE  PageInv'
  <1>1. UNCHANGED <<asked, aborted, current, call, unsettled, streaming, mounted, seen>>
    BY DEF others
  <1>2. q = current \/ q \in aborted
    BY DEF PageInv
  <1>3. /\ DOMAIN stream' = Queries /\ stream'[q] = s
        /\ \A p \in Queries \ {q} : stream'[p] = stream[p]
    BY DEF PageInv, TypeOK
  <1>4. \A p \in Queries : /\ "at" \in DOMAIN stream'[p] /\ stream'[p].at \in Places
                           /\ stream'[p].at \in Active => p = current \/ p \in aborted
    <2> SUFFICES ASSUME NEW p \in Queries
                 PROVE  /\ "at" \in DOMAIN stream'[p] /\ stream'[p].at \in Places
                        /\ stream'[p].at \in Active => p = current \/ p \in aborted
      OBVIOUS
    <2>1. CASE p = q
      BY <1>2, <1>3, <2>1 DEF Active, Places
    <2>2. CASE p # q
      BY <1>3, <2>2 DEF PageInv, TypeOK, Places
    <2> QED BY <2>1, <2>2
  <1>5. /\ hook' \in HookType
        /\ hook'.result \in {None, current} /\ hook'.error \in {None, current}
        /\ hook'.phase = "error" => hook'.error = current
        /\ current \in aborted => hook'.phase = "idle"
        /\ hook'.phase # "idle" => current # None
    <2>1. CASE UNCHANGED hook
      BY <2>1 DEF PageInv, TypeOK, HookType, Phases, OnlyTheLatest
    <2>2. CASE q \notin aborted /\ ~UNCHANGED hook
      <3>1. q = current /\ current # None
        BY <1>2, <2>2, QueryFacts
      <3>2. PICK frames : \/ hook' = AfterFrames(q, frames)
                          \/ hook' = [AfterFrames(q, frames) EXCEPT !.phase = "error", !.error = q]
        BY <2>2 DEF Heard
      <3>3. /\ AfterFrames(q, frames) \in HookType
            /\ AfterFrames(q, frames).result \in {None, current}
            /\ AfterFrames(q, frames).error \in {None, current}
            /\ AfterFrames(q, frames).phase = "error" => AfterFrames(q, frames).error = current
        BY <2>2, <3>1, Handed
      <3>4. CASE hook' = AfterFrames(q, frames)
        BY <2>2, <3>1, <3>3, <3>4
      <3>5. CASE hook' = [AfterFrames(q, frames) EXCEPT !.phase = "error", !.error = q]
        BY <2>2, <3>1, <3>3, <3>5 DEF HookType, Phases
      <3> QED BY <3>2, <3>4, <3>5
    <2> QED BY <2>1, <2>2 DEF Heard
  <1>6. TypeOK'
    BY <1>1, <1>3, <1>4, <1>5 DEF PageInv, TypeOK, Places, HookType, Phases
  <1>7. OnlyTheLatest'
    BY <1>1, <1>5 DEF OnlyTheLatest
  <1> QED BY <1>1, <1>4, <1>5, <1>6, <1>7 DEF PageInv

LEMMA ThrownHeard == ASSUME NEW q, NEW frames, Thrown(q, frames) PROVE Heard(q)
  BY DEF Thrown, Heard

LEMMA HandOverHeard ==
  ASSUME NEW q, NEW frames, NEW after, q \notin aborted, HandOver(q, frames, after)
  PROVE  Heard(q)
  <1>1. \/ hook' = AfterFrames(q, frames)
        \/ \E good : Thrown(q, good)
    BY DEF HandOver
  <1> QED BY <1>1, ThrownHeard DEF Heard

LEMMA OpenedKeeps ==
  ASSUME PageInv, NEW q \in Queries, Opened(q)
  PROVE  PageInv'
  <1>1. stream[q].at \in Active /\ "at" \in DOMAIN stream[q] /\ q \in DOMAIN stream
    BY DEF Opened, PageInv, TypeOK, Active
  <1>2. PICK script \in Scripts, ending \in {"complete", "cut", "broken"} :
          \E n \in 0 .. Len(script) * FrameLength :
            /\ ending = "complete" => n = Len(script) * FrameLength
            /\ ending = "cut" => n < Len(script) * FrameLength
            /\ n % FrameLength \in Cuts
            /\ stream' = [stream EXCEPT ![q].at = "reading", ![q].ending = ending,
                 ![q].sent = n, ![q].wire = Bytes(script, n),
                 ![q].script = SubSeq(script, 1, (n + FrameLength - 1) \div FrameLength)]
    BY Zenon DEF Opened
  <1>3. PICK sent :
          stream' = [stream EXCEPT ![q].at = "reading", ![q].ending = ending,
              ![q].sent = sent, ![q].wire = Bytes(script, sent),
              ![q].script = SubSeq(script, 1, (sent + FrameLength - 1) \div FrameLength)]
    BY <1>2, Zenon
  <1> DEFINE s == [stream[q] EXCEPT !.at = "reading", !.ending = ending,
               !.sent = sent, !.wire = Bytes(script, sent),
               !.script = SubSeq(script, 1, (sent + FrameLength - 1) \div FrameLength)]
  <1>4. stream' = [stream EXCEPT ![q] = s]
    BY <1>1, <1>3, Zenon
  <1>5. "at" \in DOMAIN s /\ s.at = "reading"
    BY <1>1
  <1> HIDE DEF s
  <1>6. Heard(q) /\ UNCHANGED others
    BY DEF Opened, Heard
  <1> QED BY <1>1, <1>4, <1>5, <1>6, StreamKeeps DEF Active

LEMMA GoesKeeps ==
  ASSUME PageInv, NEW q \in Queries, stream[q].at \in Active, NEW place \in Active,
         Goes(q, place), UNCHANGED hook, UNCHANGED others
  PROVE  PageInv'
  <1> DEFINE s == [stream[q] EXCEPT !.at = place]
  <1>1. "at" \in DOMAIN stream[q] /\ q \in DOMAIN stream
    BY DEF PageInv, TypeOK
  <1>2. stream' = [stream EXCEPT ![q] = s] /\ "at" \in DOMAIN s /\ s.at = place
    BY <1>1 DEF Goes
  <1> HIDE DEF s
  <1>3. Heard(q)
    BY DEF Heard
  <1> QED BY <1>2, <1>3, StreamKeeps

LEMMA RefusedKeeps ==
  ASSUME PageInv, NEW q \in Queries, Refused(q)
  PROVE  PageInv'
  <1>1. PICK place \in {"refreshing", "refusal"} : Goes(q, place)
    BY DEF Refused
  <1>2. stream[q].at \in Active /\ UNCHANGED hook /\ UNCHANGED others /\ place \in Active
    BY DEF Refused, Active
  <1> QED BY <1>1, <1>2, GoesKeeps

LEMMA RefreshedKeeps ==
  ASSUME PageInv, NEW q \in Queries, Refreshed(q)
  PROVE  PageInv'
  <1>1. stream[q].at \in Active /\ UNCHANGED hook /\ UNCHANGED others
        /\ "at" \in DOMAIN stream[q] /\ q \in DOMAIN stream
    BY DEF Refreshed, Active, PageInv, TypeOK
  <1>2. CASE stream' = [stream EXCEPT ![q].at = "opening", ![q].again = TRUE]
    <2> DEFINE s == [stream[q] EXCEPT !.at = "opening", !.again = TRUE]
    <2>1. stream' = [stream EXCEPT ![q] = s] /\ "at" \in DOMAIN s /\ s.at = "opening"
      BY <1>1, <1>2
    <2> HIDE DEF s
    <2>2. Heard(q) /\ "opening" \in Active
      BY <1>1 DEF Heard, Active
    <2> QED BY <1>1, <2>1, <2>2, StreamKeeps
  <1>3. CASE Goes(q, "refusal")
    BY <1>1, <1>3, GoesKeeps DEF Active
  <1> QED BY <1>2, <1>3 DEF Refreshed

LEMMA RejectedKeeps ==
  ASSUME PageInv, NEW q \in Queries, Rejected(q)
  PROVE  PageInv'
  <1>1. stream[q].at \in Active /\ UNCHANGED others /\ stream' = [stream EXCEPT ![q] = Gone]
    BY DEF Rejected, Active
  <1>2. Heard(q)
    BY ThrownHeard DEF Rejected
  <1> QED BY <1>1, <1>2, StreamFacts, StreamKeeps

(* A generator that hands frames over goes on, unless one of them throws.  *)
LEMMA HandOverKeeps ==
  ASSUME PageInv, NEW q \in Queries, stream[q].at \in Active, q \notin aborted,
         NEW frames, NEW after, "at" \in DOMAIN after, after.at \in Active \cup {"over"},
         HandOver(q, frames, after), UNCHANGED others
  PROVE  PageInv'
  <1> DEFINE broken == {i \in DOMAIN frames : ~frames[i].whole}
  <1>1. PICK events :
          stream' = [stream EXCEPT ![q] = [after EXCEPT
                       !.at = IF broken = {} THEN @ ELSE "over", !.events = events]]
    BY Zenon DEF HandOver
  <1> DEFINE s == [after EXCEPT !.at = IF broken = {} THEN @ ELSE "over", !.events = events]
  <1>2. "at" \in DOMAIN s /\ s.at \in Active \cup {"over"}
    OBVIOUS
  <1> HIDE DEF s, broken
  <1>3. Heard(q)
    BY HandOverHeard
  <1> QED BY <1>1, <1>2, <1>3, StreamKeeps DEF s

LEMMA ReadKeeps ==
  ASSUME PageInv, NEW q \in Queries, Read(q)
  PROVE  PageInv'
  <1>1. PICK frames, buffer, wire :
          HandOver(q, frames, [stream[q] EXCEPT !.buffer = buffer, !.wire = wire])
    BY DEF Read
  <1> DEFINE after == [stream[q] EXCEPT !.buffer = buffer, !.wire = wire]
  <1>2. /\ stream[q].at = "reading" /\ "at" \in DOMAIN stream[q]
        /\ q \notin aborted /\ UNCHANGED others
    BY DEF Read, PageInv
  <1>3. "at" \in DOMAIN after /\ after.at = "reading"
    BY <1>2
  <1> HIDE DEF after
  <1> QED BY <1>1, <1>2, <1>3, HandOverKeeps DEF Active, after

LEMMA CloseKeeps ==
  ASSUME PageInv, NEW q \in Queries, Close(q)
  PROVE  PageInv'
  <1> DEFINE after == [stream[q] EXCEPT !.at = "over", !.buffer = <<>>]
  <1>1. /\ HandOver(q, Flush(stream[q].buffer), after)
        /\ stream[q].at = "reading" /\ "at" \in DOMAIN stream[q]
        /\ q \notin aborted /\ UNCHANGED others
    BY DEF Close, PageInv
  <1>2. "at" \in DOMAIN after /\ after.at = "over"
    BY <1>1
  <1> HIDE DEF after
  <1> QED BY <1>1, <1>2, HandOverKeeps DEF Active

LEMMA SettleKeeps ==
  ASSUME PageInv, NEW q \in Queries, Settle(q)
  PROVE  PageInv'
  <1>1. /\ UNCHANGED <<asked, stream, aborted, current, hook, streaming, mounted, seen>>
        /\ unsettled' = unsettled \ {q}
    BY DEF Settle
  <1>2. /\ call' \in [status : {"idle", "pending", "success", "error"}, of : Queries \cup {None}]
        /\ call'.of = call.of
        /\ call'.status = "pending" => call.status = "pending"
    BY DEF Settle, PageInv, TypeOK
  <1>3. TypeOK'
    BY <1>1, <1>2 DEF PageInv, TypeOK
  <1> QED BY <1>1, <1>2, <1>3 DEF PageInv, OnlyTheLatest
-----------------------------------------------------------------------------
LEMMA Inductive == PageInv /\ [Next]_vars => PageInv'
  <1> SUFFICES ASSUME PageInv, [Next]_vars PROVE PageInv'
    OBVIOUS
  <1>1. ASSUME NEW q \in Queries, Network(q) PROVE PageInv'
    BY <1>1, OpenedKeeps, RefusedKeeps, RefreshedKeeps, RejectedKeeps, ReadKeeps, CloseKeeps,
       SettleKeeps DEF Network
  <1>2. CASE UNCHANGED vars
    BY <1>2 DEF vars, PageInv, TypeOK, OnlyTheLatest
  <1> QED BY <1>1, <1>2, UserKeeps DEF Next

LEMMA Invariant == Spec => []PageInv
  BY Initially, Inductive, PTL DEF Spec

(* The state of the page keeps its type: whatever arrives, and however     *)
(* often the page is left in the middle of it, the hook names questions    *)
(* that were asked and a generator waits at one of its awaits.             *)
THEOREM TypeCorrect == Spec => []TypeOK
  <1>1. PageInv => TypeOK
    BY DEF PageInv
  <1> QED BY <1>1, Invariant, PTL

(* However many questions overlap, and whenever they are superseded,       *)
(* cancelled or left behind, only the latest one's results and errors are  *)
(* on the page, and a cancelled question stays idle.                       *)
THEOREM LatestOnly == Spec => []OnlyTheLatest
  <1>1. PageInv => OnlyTheLatest
    BY DEF PageInv
  <1> QED BY <1>1, Invariant, PTL
-----------------------------------------------------------------------------
(* What a stream carries: induction, and the symbols of a script *)

LEMMA Least ==
  ASSUME NEW T, T \subseteq Nat, T # {}
  PROVE  \E m \in T : \A k \in T : m <= k
  <1>1. PICK m \in T : \A k \in T : <<k, m>> \notin OpToRel(<, Nat)
    BY WFMin, NatLessThanWellFounded
  <1>2. ASSUME NEW k \in T PROVE m <= k
    <2>1. m \in Nat /\ k \in Nat
      OBVIOUS
    <2>2. <<k, m>> \notin OpToRel(<, Nat)
      BY <1>1
    <2>3. ~(k < m)
      BY <2>1, <2>2 DEF OpToRel
    <2> HIDE <2>2
    <2> QED BY <2>1, <2>3
  <1> QED BY <1>2

\* Induction on the natural numbers, of a set instead of a formula.
LEMMA SetInduction ==
  ASSUME NEW T, 0 \in T, \A n \in Nat : n \in T => n + 1 \in T
  PROVE  Nat \subseteq T
  <1> SUFFICES ASSUME Nat \ T # {} PROVE FALSE
    OBVIOUS
  <1>1. PICK m \in Nat \ T : \A k \in Nat \ T : m <= k
    BY Least
  <1>2. m # 0 /\ m - 1 \in Nat
    BY <1>1
  <1>3. m - 1 \in T
    BY <1>1, <1>2
  <1> QED BY <1>1, <1>2, <1>3

\* The i-th symbol of a script.
Symbol(script, i) == Frame(script[((i - 1) \div 5) + 1])[((i - 1) % 5) + 1]

\* The symbols from after a to b.
Piece(script, a, b) == [i \in 1 .. b - a |-> Symbol(script, a + i)]

LEMMA SymbolsOf ==
  ASSUME NEW script, NEW k \in Nat
  PROVE  /\ Symbol(script, 5 * k + 1) = script[k + 1]
         /\ Symbol(script, 5 * k + 2) = "data"
         /\ Symbol(script, 5 * k + 3) = "json"
         /\ Symbol(script, 5 * k + 4) = NL
         /\ Symbol(script, 5 * k + 5) = NL
  <1>1. \A c \in 1 .. 5 : Symbol(script, 5 * k + c) = Frame(script[k + 1])[c]
    <2> SUFFICES ASSUME NEW c \in 1 .. 5 PROVE Symbol(script, 5 * k + c) = Frame(script[k + 1])[c]
      OBVIOUS
    <2>1. (5 * k + c - 1) \div 5 = k /\ (5 * k + c - 1) % 5 = c - 1
      OBVIOUS
    <2>2. c - 1 + 1 = c
      OBVIOUS
    <2> QED BY <2>1, <2>2 DEF Symbol
  <1> QED BY <1>1 DEF Frame

LEMMA Fifths ==
  \A i \in Nat \ {0} : \E k \in Nat, c \in 1 .. 5 : i = 5 * k + c
  <1> TAKE i \in Nat \ {0}
  <1>1. (i - 1) \div 5 \in Nat /\ (i - 1) % 5 \in 0 .. 4
        /\ i = 5 * ((i - 1) \div 5) + (((i - 1) % 5) + 1)
    OBVIOUS
  <1>2. ((i - 1) % 5) + 1 \in 1 .. 5
    BY <1>1
  <1> QED BY <1>1, <1>2

\* A script long enough for b symbols.
Covers(script, b) == script \in Seq(Names) /\ b \in Nat /\ b <= 5 * Len(script)

LEMMA SymbolType ==
  ASSUME NEW script, NEW b, NEW i \in 1 .. b, Covers(script, b)
  PROVE  Symbol(script, i) \in Symbols
  <1>0. i \in Nat \ {0} /\ b \in Nat
    BY DEF Covers
  <1>1. PICK k \in Nat, c \in 1 .. 5 : i = 5 * k + c
    BY <1>0, Fifths
  <1>2. k + 1 \in DOMAIN script /\ script[k + 1] \in Names
    BY <1>1 DEF Covers
  <1>3. c = 1 \/ c = 2 \/ c = 3 \/ c = 4 \/ c = 5
    OBVIOUS
  <1> QED BY <1>1, <1>2, <1>3, SymbolsOf DEF Symbols

LEMMA PieceFacts ==
  ASSUME NEW script, NEW a \in Nat, NEW b, a <= b, Covers(script, b)
  PROVE  /\ Piece(script, a, b) \in Seq(Symbols)
         /\ Len(Piece(script, a, b)) = b - a
         /\ \A i \in 1 .. b - a : Piece(script, a, b)[i] = Symbol(script, a + i)
  <1> DEFINE p == Piece(script, a, b)
  <1>1. b - a \in Nat /\ b \in Nat
    BY DEF Covers
  <1>2. \A i \in 1 .. b - a : Symbol(script, a + i) \in Symbols
    BY <1>1, SymbolType
  <1>3. p \in [1 .. b - a -> Symbols] /\ \A i \in 1 .. b - a : p[i] = Symbol(script, a + i)
    BY <1>2 DEF Piece
  <1> HIDE DEF p
  <1>4. p \in Seq(Symbols) /\ Len(p) = b - a
    BY <1>1, <1>3
  <1> QED BY <1>3, <1>4 DEF p

LEMMA PieceIs ==
  ASSUME NEW script, NEW a \in Nat, NEW b, NEW p \in Seq(Symbols),
         a <= b, Covers(script, b), Len(p) = b - a,
         \A i \in 1 .. b - a : p[i] = Symbol(script, a + i)
  PROVE  p = Piece(script, a, b)
  BY PieceFacts, SeqEqual

LEMMA BytesPiece ==
  ASSUME NEW script, NEW n \in Nat
  PROVE  Bytes(script, n) = Piece(script, 0, n)
  <1>1. \A i \in 1 .. n : 0 + i = i
    OBVIOUS
  <1>2. 1 .. n - 0 = 1 .. n
    OBVIOUS
  <1> QED BY <1>1, <1>2 DEF Bytes, Piece, Symbol, FrameLength

\* The symbols of p after the i-th, up to the j-th.
After(p, i, j) == SubSeq(p, i + 1, j)

LEMMA PieceCut ==
  ASSUME NEW script, NEW a \in Nat, NEW b, NEW i \in Nat, NEW j \in Nat,
         Covers(script, b), i <= j, a + j <= b
  PROVE  After(Piece(script, a, b), i, j) = Piece(script, a + i, a + j)
  <1> DEFINE p == Piece(script, a, b)
             s == SubSeq(p, i + 1, j)
  <1>0. /\ b \in Nat /\ a <= b /\ a + i <= a + j /\ a + i \in Nat /\ (a + j) - (a + i) = j - i
        /\ Covers(script, a + j)
    BY DEF Covers
  <1>1. /\ p \in Seq(Symbols) /\ Len(p) = b - a
        /\ \A k \in 1 .. b - a : p[k] = Symbol(script, a + k)
    <2>1. a <= b
      BY <1>0
    <2> HIDE <1>0
    <2> QED BY <2>1, PieceFacts
  <1> HIDE DEF p
  <1>2. \A k \in i + 1 .. j : p[k] \in Symbols
    BY <1>0, <1>1
  <1>3. /\ s \in Seq(Symbols) /\ Len(s) = IF i + 1 <= j THEN j - (i + 1) + 1 ELSE 0
        /\ \A k \in 1 .. j - (i + 1) + 1 : s[k] = p[i + 1 + k - 1]
    BY <1>2, SubSeqProperties
  <1> HIDE DEF s
  <1>4. Len(s) = j - i
    BY <1>3
  <1>5. \A k \in 1 .. j - i : s[k] = Symbol(script, a + i + k)
    BY <1>0, <1>1, <1>3
  <1>6. s = Piece(script, a + i, a + j)
    BY <1>0, <1>3, <1>4, <1>5, PieceIs
  <1> QED BY <1>6 DEF s, p, After

LEMMA PieceJoin ==
  ASSUME NEW script, NEW a \in Nat, NEW b \in Nat, NEW c, a <= b, b <= c, Covers(script, c)
  PROVE  Piece(script, a, b) \o Piece(script, b, c) = Piece(script, a, c)
  <1> DEFINE p == Piece(script, a, b)
             q == Piece(script, b, c)
             s == p \o q
  <1>0. c \in Nat /\ a <= c /\ Covers(script, b)
    BY DEF Covers
  <1>1. /\ p \in Seq(Symbols) /\ Len(p) = b - a
        /\ \A k \in 1 .. b - a : p[k] = Symbol(script, a + k)
    BY <1>0, PieceFacts
  <1>2. /\ q \in Seq(Symbols) /\ Len(q) = c - b
        /\ \A k \in 1 .. c - b : q[k] = Symbol(script, b + k)
    BY <1>0, PieceFacts
  <1> HIDE DEF p, q
  <1>3. /\ s \in Seq(Symbols) /\ Len(s) = c - a
        /\ \A k \in 1 .. c - a : s[k] = IF k <= b - a THEN p[k] ELSE q[k - (b - a)]
    <2>1. Len(p) + Len(q) = c - a
      BY <1>0, <1>1, <1>2
    <2>2. /\ s \in Seq(Symbols) /\ Len(s) = Len(p) + Len(q)
          /\ \A k \in 1 .. Len(p) + Len(q) : s[k] = IF k <= Len(p) THEN p[k] ELSE q[k - Len(p)]
      <3>1. p \in Seq(Symbols) /\ q \in Seq(Symbols)
        BY <1>1, <1>2
      <3> QED BY <3>1, ConcatProperties
    <2> HIDE DEF s
    <2> QED BY <1>1, <2>1, <2>2
  <1> HIDE DEF s
  <1>4. \A k \in 1 .. c - a : s[k] = Symbol(script, a + k)
    <2> SUFFICES ASSUME NEW k \in 1 .. c - a PROVE s[k] = Symbol(script, a + k)
      OBVIOUS
    <2>1. CASE k <= b - a
      BY <1>0, <1>1, <1>3, <2>1
    <2>2. CASE ~(k <= b - a)
      <3>1. k - (b - a) \in 1 .. c - b /\ b + (k - (b - a)) = a + k
        BY <1>0, <2>2
      <3> QED BY <1>2, <1>3, <2>2, <3>1
    <2> QED BY <2>1, <2>2
  <1>5. s = Piece(script, a, c)
    BY <1>0, <1>3, <1>4, PieceIs
  <1> QED BY <1>5 DEF s, p, q

-----------------------------------------------------------------------------
(* The loop of push *)

Whole(name) == [event |-> name, whole |-> TRUE]

\* The n-th frame's symbols, up to a fifth one, as far as b goes.
LEMMA FrameSymbols ==
  ASSUME NEW script, NEW k \in Nat, NEW b,
         Covers(script, b), 5 * k < b
  PROVE  LET t == Piece(script, 5 * k, b) IN
         /\ t \in Seq(Symbols) /\ Len(t) = b - 5 * k
         /\ k + 1 \in 1 .. Len(script) /\ script[k + 1] \in Names /\ t[1] = script[k + 1]
         /\ b - 5 * k >= 2 => t[2] = "data"
         /\ b - 5 * k >= 3 => t[3] = "json"
         /\ b - 5 * k >= 4 => t[4] = NL
         /\ b - 5 * k >= 5 => t[5] = NL
  <1> DEFINE t == Piece(script, 5 * k, b)
  <1>1. b \in Nat /\ 5 * k \in Nat /\ 5 * k <= b /\ b <= 5 * Len(script) /\ script \in Seq(Names)
    BY DEF Covers
  <1>2. /\ t \in Seq(Symbols) /\ Len(t) = b - 5 * k
        /\ \A i \in 1 .. b - 5 * k : t[i] = Symbol(script, 5 * k + i)
    BY <1>1, PieceFacts
  <1> HIDE DEF t
  <1>3. k + 1 \in 1 .. Len(script) /\ script[k + 1] \in Names
    <2>1. Len(script) \in Nat
      BY <1>1
    <2>2. k + 1 \in 1 .. Len(script)
      BY <1>1, <2>1
    <2> QED BY <1>1, <2>2, ElementOfSeq
  <1>4. \A i \in 1 .. 5 : 5 * k + i <= b => t[i] = Symbol(script, 5 * k + i)
    BY <1>1, <1>2
  <1>5. /\ b - 5 * k >= 2 => t[2] = Symbol(script, 5 * k + 2)
        /\ b - 5 * k >= 3 => t[3] = Symbol(script, 5 * k + 3)
        /\ b - 5 * k >= 4 => t[4] = Symbol(script, 5 * k + 4)
        /\ b - 5 * k >= 5 => t[5] = Symbol(script, 5 * k + 5)
        /\ t[1] = Symbol(script, 5 * k + 1)
    BY <1>1, <1>4
  <1> QED BY <1>2, <1>3, <1>5, SymbolsOf DEF t

LEMMA NamesApart ==
  /\ "data" \notin Names /\ "json" \notin Names /\ NL \notin Names
  /\ "data" # NL /\ "json" # NL /\ "data" # "json"
  /\ Names \subseteq Symbols
  BY DEF Names, NL, Symbols

LEMMA BlankLine ==
  ASSUME NEW script, NEW k \in Nat, NEW b, Covers(script, b), 5 * k <= b
  PROVE  /\ 5 * k + 5 <= b => Min(Boundaries(Piece(script, 5 * k, b))) = 4
                              /\ Boundaries(Piece(script, 5 * k, b)) # {}
         /\ b < 5 * k + 5 => Boundaries(Piece(script, 5 * k, b)) = {}
  <1> DEFINE t == Piece(script, 5 * k, b)
  <1>0. b \in Nat /\ 5 * k \in Nat
    BY DEF Covers
  <1>1. t \in Seq(Symbols) /\ Len(t) = b - 5 * k
    BY <1>0, PieceFacts
  <1>2. 5 * k < b =>
          /\ t[1] \in Names
          /\ b - 5 * k >= 2 => t[2] = "data"
          /\ b - 5 * k >= 3 => t[3] = "json"
          /\ b - 5 * k >= 4 => t[4] = NL
          /\ b - 5 * k >= 5 => t[5] = NL
    BY FrameSymbols
  <1> HIDE DEF t
  <1>3. DOMAIN t = 1 .. b - 5 * k
    BY <1>0, <1>1
  <1>4. ASSUME NEW i \in Boundaries(t) PROVE 4 <= i /\ 5 <= b - 5 * k
    <2>1. i \in 1 .. b - 5 * k /\ i + 1 \in 1 .. b - 5 * k /\ t[i] = NL
      BY <1>3 DEF Boundaries
    <2>2. i # 1 /\ i # 2 /\ i # 3
      BY <1>0, <1>2, <2>1, NamesApart
    <2> QED BY <1>0, <2>1, <2>2
  <1>5. ASSUME 5 * k + 5 <= b PROVE 4 \in Boundaries(t) /\ Min(Boundaries(t)) = 4
    <2>1. 4 \in Boundaries(t)
      <3>1. 4 \in 1 .. b - 5 * k /\ 4 + 1 \in 1 .. b - 5 * k
        BY <1>0, <1>5
      <3>2. t[4] = NL /\ t[4 + 1] = NL
        BY <1>0, <1>2, <1>5
      <3> QED BY <1>3, <3>1, <3>2 DEF Boundaries
    <2>2. \A i \in Boundaries(t) : 4 <= i /\ i \in Int
      BY <1>3, <1>4 DEF Boundaries
    <2> HIDE DEF Boundaries
    <2>3. \A x \in Boundaries(t) : (\A y \in Boundaries(t) : x <= y) => x = 4
      BY <2>1, <2>2
    <2>4. PICK x \in Boundaries(t) : \A y \in Boundaries(t) : x <= y
      BY <2>1, <2>2
    <2>5. Min(Boundaries(t)) \in Boundaries(t)
          /\ \A y \in Boundaries(t) : Min(Boundaries(t)) <= y
      BY <2>4, Zenon DEF Min
    <2> QED BY <2>1, <2>3, <2>5
  <1>6. b < 5 * k + 5 => Boundaries(t) = {}
    BY <1>0, <1>4
  <1> QED BY <1>5, <1>6 DEF t

\* What parseFrame makes of the beginning of a frame.
LEMMA ParsedPiece ==
  ASSUME NEW script, NEW k \in Nat, NEW r \in 0 .. 4, Covers(script, 5 * k + r)
  PROVE  LET raw == Piece(script, 5 * k, 5 * k + r) IN
         /\ IsFrame(raw) <=> r >= 2
         /\ r >= 3 => Parsed(raw) = Whole(script[k + 1])
         /\ r = 2 => Parsed(raw) = [event |-> script[k + 1], whole |-> FALSE]
  <1> DEFINE raw == Piece(script, 5 * k, 5 * k + r)
  <1>0. 5 * k \in Nat /\ 5 * k <= 5 * k + r /\ (5 * k + r) - 5 * k = r
    OBVIOUS
  <1>1. raw \in Seq(Symbols) /\ Len(raw) = r
    BY <1>0, PieceFacts
  <1>2. r > 0 => /\ script[k + 1] \in Names /\ raw[1] = script[k + 1]
                 /\ r >= 2 => raw[2] = "data"
                 /\ r >= 3 => raw[3] = "json"
                 /\ r >= 4 => raw[4] = NL
    <2> SUFFICES ASSUME r > 0
                 PROVE  /\ script[k + 1] \in Names /\ raw[1] = script[k + 1]
                        /\ r >= 2 => raw[2] = "data"
                        /\ r >= 3 => raw[3] = "json"
                        /\ r >= 4 => raw[4] = NL
      OBVIOUS
    <2> DEFINE b == 5 * k + r
    <2>1. Covers(script, b) /\ 5 * k < b /\ b - 5 * k = r /\ raw = Piece(script, 5 * k, b)
      OBVIOUS
    <2> HIDE DEF b, raw
    <2> QED BY <2>1, FrameSymbols
  <1> HIDE DEF raw
  <1>3. IsFrame(raw) <=> r >= 2
    BY <1>1, <1>2, NamesApart DEF IsFrame, Contains
  <1>4. r >= 2 => (Contains(raw, "json") <=> r >= 3)
    BY <1>1, <1>2, NamesApart DEF Contains
  <1>5. r >= 2 => raw[1] \in Names /\ raw[1] = script[k + 1]
    BY <1>2
  <1>6. r >= 3 => Parsed(raw) = Whole(script[k + 1])
    <2>1. r >= 3 => Contains(raw, "json") = TRUE
      BY <1>4 DEF Contains
    <2>2. r >= 3 => raw[1] \in Names /\ raw[1] = script[k + 1]
      BY <1>5
    <2> QED BY <2>1, <2>2, Zenon DEF Parsed, Whole
  <1>7. r = 2 => Parsed(raw) = [event |-> script[k + 1], whole |-> FALSE]
    <2>1. r = 2 => Contains(raw, "json") = FALSE
      BY <1>4 DEF Contains
    <2>2. r = 2 => raw[1] \in Names /\ raw[1] = script[k + 1]
      BY <1>5
    <2> QED BY <2>1, <2>2, Zenon DEF Parsed
  <1> QED BY <1>3, <1>6, <1>7 DEF raw

\* A buffer that begins with frame k + 1.
Buffered(frames, script, k, b) == [frames |-> frames, buffer |-> Piece(script, 5 * k, b)]

\* One turn of the loop.
LEMMA DrainStep ==
  ASSUME NEW script, NEW k \in Nat, NEW b, NEW frames \in Seq(ParsedFrame),
         Covers(script, b), 5 * k <= b
  PROVE  /\ 5 * k + 5 <= b =>
              Drain[Buffered(frames, script, k, b)] =
                Buffered(Append(frames, Whole(script[k + 1])), script, k + 1, b)
         /\ b < 5 * k + 5 => Drain[Buffered(frames, script, k, b)] = Buffered(frames, script, k, b)
  <1> DEFINE t == Piece(script, 5 * k, b)
             s == [frames |-> frames, buffer |-> t]
             first == Min(Boundaries(t))
             raw == SubSeq(t, 1, first - 1)
  <1>0. b \in Nat /\ 5 * k \in Nat
    BY DEF Covers
  <1>1. t \in Seq(Symbols) /\ Len(t) = b - 5 * k
    BY <1>0, PieceFacts
  <1>2. s \in SSEFrameBuffer
    BY <1>1 DEF SSEFrameBuffer
  <1>3. Drain[s] = IF Boundaries(t) = {} THEN s
                   ELSE [frames |-> IF IsFrame(raw) THEN Append(frames, Parsed(raw)) ELSE frames,
                         buffer |-> SubSeq(t, first + 2, Len(t))]
    <2>1. s.buffer = t /\ s.frames = frames
      OBVIOUS
    <2> HIDE DEF s, t
    <2> QED BY <1>2, <2>1, Zenon DEF Drain
  <1>4. CASE 5 * k + 5 <= b
    <2>1. first = 4 /\ Boundaries(t) # {}
      BY <1>4, BlankLine
    <2>2. raw = Piece(script, 5 * k, 5 * k + 3)
      <3>1. SubSeq(t, 0 + 1, 3) = Piece(script, 5 * k + 0, 5 * k + 3)
        <4>1. 5 * k + 3 <= b /\ 0 <= 3
          BY <1>0, <1>4
        <4>2. After(t, 0, 3) = Piece(script, 5 * k + 0, 5 * k + 3)
          BY <1>0, <4>1, PieceCut
        <4> QED BY <4>2 DEF After
      <3>2. 0 + 1 = 1 /\ 5 * k + 0 = 5 * k /\ 4 - 1 = 3
        BY <1>0
      <3> QED BY <2>1, <3>1, <3>2
    <2>3. IsFrame(raw) /\ Parsed(raw) = Whole(script[k + 1])
      <3>1. Covers(script, 5 * k + 3) /\ 3 \in 0 .. 4 /\ 3 >= 2 /\ 3 >= 3
        BY <1>0, <1>4 DEF Covers
      <3> QED BY <2>2, <3>1, ParsedPiece
    <2>4. SubSeq(t, first + 2, Len(t)) = Piece(script, 5 * (k + 1), b)
      <3>1. 5 \in Nat /\ b - 5 * k \in Nat /\ 5 <= b - 5 * k /\ 5 * k + (b - 5 * k) <= b
            /\ 5 * k + (b - 5 * k) = b /\ 5 * k + 5 = 5 * (k + 1) /\ 4 + 2 = 5 + 1
        BY <1>0, <1>4
      <3>2. SubSeq(t, 5 + 1, b - 5 * k) = Piece(script, 5 * k + 5, 5 * k + (b - 5 * k))
        <4>1. After(t, 5, b - 5 * k) = Piece(script, 5 * k + 5, 5 * k + (b - 5 * k))
          BY <1>0, <3>1, PieceCut
        <4> QED BY <4>1 DEF After
      <3> QED BY <1>1, <2>1, <3>1, <3>2
    <2> HIDE DEF t, first, raw
    <2>5. Drain[s] = [frames |-> Append(frames, Whole(script[k + 1])),
                      buffer |-> Piece(script, 5 * (k + 1), b)]
      BY <1>3, <2>1, <2>3, <2>4
    <2> QED BY <1>0, <1>4, <2>5 DEF t, Buffered
  <1>5. CASE b < 5 * k + 5
    <2>1. Boundaries(t) = {}
      BY <1>5, BlankLine
    <2> HIDE DEF t, first, raw
    <2>2. Drain[s] = s
      BY <1>3, <2>1
    <2> QED BY <1>0, <1>5, <2>2 DEF t, Buffered
  <1> QED BY <1>0, <1>4, <1>5

\* The frames after the k-th, j of them.
Frames(script, k, j) == [i \in 1 .. j |-> Whole(script[k + i])]

LEMMA WholeType ==
  ASSUME NEW script \in Seq(Names), NEW i \in 1 .. Len(script)
  PROVE  Whole(script[i]) \in ParsedFrame
  BY ElementOfSeq DEF Whole, ParsedFrame

LEMMA FramesFacts ==
  ASSUME NEW script \in Seq(Names), NEW k \in Nat, NEW j \in Nat, k + j <= Len(script)
  PROVE  /\ Frames(script, k, j) \in Seq(ParsedFrame)
         /\ Len(Frames(script, k, j)) = j
         /\ DOMAIN Frames(script, k, j) = 1 .. j
         /\ \A i \in 1 .. j : Frames(script, k, j)[i] = Whole(script[k + i])
  <1> DEFINE f == Frames(script, k, j)
  <1>1. \A i \in 1 .. j : k + i \in 1 .. Len(script)
    OBVIOUS
  <1>2. \A i \in 1 .. j : Whole(script[k + i]) \in ParsedFrame
    BY <1>1, WholeType
  <1>3. f \in [1 .. j -> ParsedFrame] /\ \A i \in 1 .. j : f[i] = Whole(script[k + i])
    BY <1>2 DEF Frames
  <1> HIDE DEF f
  <1>4. f \in Seq(ParsedFrame) /\ Len(f) = j /\ DOMAIN f = 1 .. j
    BY <1>3
  <1> QED BY <1>3, <1>4 DEF f

LEMMA FramesAppend ==
  ASSUME NEW script \in Seq(Names), NEW k \in Nat, NEW j \in Nat, k + j + 1 <= Len(script)
  PROVE  Append(Frames(script, k, j), Whole(script[k + j + 1])) = Frames(script, k, j + 1)
  <1> DEFINE f == Frames(script, k, j)
             g == Frames(script, k, j + 1)
             e == Whole(script[k + j + 1])
             h == Append(f, e)
  <1>1. f \in Seq(ParsedFrame) /\ Len(f) = j /\ \A i \in 1 .. j : f[i] = Whole(script[k + i])
    BY FramesFacts
  <1>2. /\ g \in Seq(ParsedFrame) /\ Len(g) = j + 1
        /\ \A i \in 1 .. j + 1 : g[i] = Whole(script[k + i])
    <2>1. j + 1 \in Nat /\ k + (j + 1) <= Len(script)
      BY LenProperties
    <2> QED BY <2>1, FramesFacts
  <1>3. e \in ParsedFrame
    BY WholeType
  <1>4. k + (j + 1) = k + j + 1
    OBVIOUS
  <1>5. g[j + 1] = e
    BY <1>2, <1>4
  <1> HIDE DEF f, g, e
  <1>6. /\ h \in Seq(ParsedFrame) /\ Len(h) = j + 1
        /\ \A i \in 1 .. j : h[i] = f[i]
        /\ h[j + 1] = e
    BY <1>1, <1>3, AppendProperties
  <1> HIDE DEF h
  <1>7. \A i \in 1 .. j + 1 : h[i] = g[i]
    <2> SUFFICES ASSUME NEW i \in 1 .. j + 1 PROVE h[i] = g[i]
      OBVIOUS
    <2>1. CASE i \in 1 .. j
      BY <1>1, <1>2, <1>6, <2>1
    <2>2. CASE i = j + 1
      BY <1>5, <1>6, <2>2
    <2> QED BY <2>1, <2>2
  <1>8. h = g
    BY <1>2, <1>6, <1>7, SeqEqual
  <1> QED BY <1>8 DEF h, f, g, e

\* A buffer that began with frame k + 1, after j turns of the loop.
Left(script, k, j, b) ==
  [frames |-> Frames(script, k, j), buffer |-> Piece(script, 5 * (k + j), b)]

LEMMA LeftStep ==
  ASSUME NEW script, NEW k \in Nat, NEW j \in Nat, NEW b,
         Covers(script, b), 5 * (k + j) <= b
  PROVE  /\ 5 * (k + j) + 5 <= b => Drain[Left(script, k, j, b)] = Left(script, k, j + 1, b)
         /\ b < 5 * (k + j) + 5 => Drain[Left(script, k, j, b)] = Left(script, k, j, b)
  <1> DEFINE m == k + j
             f == Frames(script, k, j)
             s == Buffered(f, script, m, b)
  <1>1. m \in Nat /\ script \in Seq(Names) /\ b \in Nat /\ k + j <= Len(script)
    BY LenProperties DEF Covers
  <1>2. f \in Seq(ParsedFrame)
    BY <1>1, FramesFacts
  <1>3. Left(script, k, j, b) = s
    BY DEF Left, Buffered
  <1>4. 5 * m <= b
    OBVIOUS
  <1> HIDE DEF m, f
  <1>5. /\ 5 * m + 5 <= b =>
             Drain[s] = Buffered(Append(f, Whole(script[m + 1])), script, m + 1, b)
        /\ b < 5 * m + 5 => Drain[s] = s
    BY <1>1, <1>2, <1>4, DrainStep
  <1> HIDE DEF s
  <1>6. ASSUME 5 * m + 5 <= b
        PROVE Buffered(Append(f, Whole(script[m + 1])), script, m + 1, b) = Left(script, k, j + 1, b)
    <2>1. k + j + 1 <= Len(script)
      BY <1>1, <1>6, LenProperties DEF Covers, m
    <2>2. Append(f, Whole(script[m + 1])) = Frames(script, k, j + 1)
      BY <1>1, <2>1, FramesAppend DEF f, m
    <2>3. m + 1 = k + (j + 1)
      BY DEF m
    <2> QED BY <2>2, <2>3 DEF Left, Buffered
  <1> QED BY <1>3, <1>5, <1>6 DEF m

\* The loop hands out the frames that are whole, and keeps the rest.
LEMMA CutPiece ==
  ASSUME NEW script, NEW k \in Nat, NEW p \in Nat, NEW b,
         Covers(script, b), 5 * (k + p) <= b, b < 5 * (k + p) + 5
  PROVE  Cut(Piece(script, 5 * k, b)) = Left(script, k, p, b)
  <1> DEFINE t == Piece(script, 5 * k, b)
             L == Len(t)
             first == [frames |-> <<>>, buffer |-> t]
             G(n) == IF n <= p THEN n ELSE p
             g == [n \in 0 .. L |-> Left(script, k, G(n), b)]
             h == CHOOSE f : f = [n \in 0 .. L |-> IF n = 0 THEN first ELSE Drain[f[n - 1]]]
  <1>0. b \in Nat /\ L = b - 5 * k /\ L \in Nat /\ p <= L
    <2>1. b \in Nat /\ 5 * k <= b /\ 5 * k \in Nat
      BY DEF Covers
    <2>2. L = b - 5 * k
      BY <2>1, PieceFacts
    <2> QED BY <2>1, <2>2
  <1>1. Left(script, k, 0, b) = first
    <2>1. Frames(script, k, 0) = <<>>
      BY DEF Frames
    <2>2. k + 0 = k
      OBVIOUS
    <2> QED BY <2>1, <2>2 DEF Left
  <1> HIDE DEF L, t, first
  <1>2. ASSUME NEW n \in 1 .. L PROVE Left(script, k, G(n), b) = Drain[Left(script, k, G(n - 1), b)]
    <2>1. CASE n <= p
      <3>1. n - 1 \in Nat /\ G(n - 1) = n - 1 /\ G(n) = (n - 1) + 1
        BY <1>0, <2>1
      <3>2. 5 * (k + (n - 1)) <= b /\ 5 * (k + (n - 1)) + 5 <= b
        BY <1>0, <2>1
      <3> QED BY <3>1, <3>2, LeftStep
    <2>2. CASE ~(n <= p)
      <3>1. G(n - 1) = p /\ G(n) = p
        BY <1>0, <2>2
      <3> QED BY <3>1, LeftStep
    <2> QED BY <2>1, <2>2
  <1>3. G(0) = 0
    OBVIOUS
  <1>4. g = [n \in 0 .. L |-> IF n = 0 THEN first ELSE Drain[g[n - 1]]]
    <2>1. ASSUME NEW n \in 0 .. L
          PROVE  Left(script, k, G(n), b) = IF n = 0 THEN first ELSE Drain[g[n - 1]]
      <3>1. CASE n = 0
        BY <1>1, <1>3, <3>1
      <3>2. CASE n # 0
        <4>1. n \in 1 .. L /\ n - 1 \in 0 .. L
          BY <1>0, <3>2
        <4>2. g[n - 1] = Left(script, k, G(n - 1), b)
          BY <4>1
        <4> HIDE DEF g, G
        <4> QED BY <1>2, <3>2, <4>1, <4>2
      <3> QED BY <3>1, <3>2
    <2> HIDE DEF G
    <2> QED BY <2>1
  <1> HIDE DEF g, G
  <1>5. h = [n \in 0 .. L |-> IF n = 0 THEN first ELSE Drain[h[n - 1]]]
    BY <1>4, Zenon
  <1>6. Cut(t) = h[L]
    BY DEF Cut, L, first
  <1> HIDE DEF h
  <1> DEFINE T == {n \in Nat : n <= L => h[n] = g[n]}
  <1>7. 0 \in T
    <2>1. 0 \in 0 .. L
      BY <1>0
    <2>2. h[0] = first /\ g[0] = first
      BY <1>4, <1>5, <2>1
    <2> QED BY <2>2
  <1>8. ASSUME NEW n \in Nat, n \in T PROVE n + 1 \in T
    <2>1. CASE n + 1 <= L
      <3>1. n + 1 \in 0 .. L /\ n + 1 # 0 /\ (n + 1) - 1 = n /\ n <= L
        BY <1>0, <2>1
      <3>2. h[n + 1] = Drain[h[n]] /\ g[n + 1] = Drain[g[n]]
        BY <1>4, <1>5, <3>1
      <3> QED BY <1>8, <3>1, <3>2
    <2> QED BY <2>1
  <1>9. Nat \subseteq T
    <2> HIDE DEF T
    <2> QED BY <1>7, <1>8, SetInduction
  <1>10. h[L] = g[L]
    BY <1>0, <1>9
  <1>11. g[L] = Left(script, k, p, b)
    <2>1. L \in 0 .. L /\ G(L) = p
      BY <1>0 DEF G
    <2> QED BY <2>1 DEF g
  <1> QED BY <1>6, <1>10, <1>11 DEF t

-----------------------------------------------------------------------------
(* The frames of a stream *)

(* The first n frames of a script.                                         *)
Upto(script, n) == SubSeq(script, 1, n)

LEMMA UptoFacts ==
  ASSUME NEW script \in Seq(Names), NEW n \in Nat, n <= Len(script)
  PROVE  /\ Upto(script, n) \in Seq(Names) /\ Len(Upto(script, n)) = n
         /\ \A i \in 1 .. n : Upto(script, n)[i] = script[i]
  <1> DEFINE u == SubSeq(script, 1, n)
  <1>1. \A i \in 1 .. n : script[i] \in Names
    BY ElementOfSeq
  <1>2. /\ u \in Seq(Names) /\ Len(u) = IF 1 <= n THEN n - 1 + 1 ELSE 0
        /\ \A i \in 1 .. n - 1 + 1 : u[i] = script[1 + i - 1]
    BY <1>1, SubSeqProperties
  <1> HIDE DEF u
  <1>3. Len(u) = n /\ \A i \in 1 .. n : u[i] = script[i]
    BY <1>2
  <1> QED BY <1>2, <1>3 DEF u, Upto

LEMMA UptoIs ==
  ASSUME NEW script \in Seq(Names), NEW n \in Nat, NEW u \in Seq(Names),
         n <= Len(script), Len(u) = n, \A i \in 1 .. n : u[i] = script[i]
  PROVE  u = Upto(script, n)
  BY UptoFacts, SeqEqual

LEMMA UptoMore ==
  ASSUME NEW script \in Seq(Names), NEW k \in Nat, NEW p \in Nat, NEW e,
         k + p <= Len(script), e = [i \in 1 .. p |-> script[k + i]]
  PROVE  Upto(script, k) \o e = Upto(script, k + p)
  <1> DEFINE a == Upto(script, k)
             s == a \o e
  <1>0. k <= Len(script) /\ k + p \in Nat /\ \A i \in 1 .. p : k + i \in 1 .. Len(script)
    BY LenProperties
  <1>1. a \in Seq(Names) /\ Len(a) = k /\ \A i \in 1 .. k : a[i] = script[i]
    BY <1>0, UptoFacts
  <1>2. /\ e \in [1 .. p -> Names] /\ \A i \in 1 .. p : e[i] = script[k + i]
    <2>1. \A i \in 1 .. p : script[k + i] \in Names
      BY <1>0, ElementOfSeq
    <2> QED BY <2>1
  <1>3. e \in Seq(Names) /\ Len(e) = p
    BY <1>2
  <1> HIDE DEF a
  <1>4. /\ s \in Seq(Names) /\ Len(s) = Len(a) + Len(e)
        /\ \A i \in 1 .. Len(a) + Len(e) : s[i] = IF i <= Len(a) THEN a[i] ELSE e[i - Len(a)]
    BY <1>1, <1>3, ConcatProperties
  <1> HIDE DEF s
  <1>5. \A i \in 1 .. k + p : s[i] = script[i]
    <2> SUFFICES ASSUME NEW i \in 1 .. k + p PROVE s[i] = script[i]
      OBVIOUS
    <2>1. CASE i <= k
      BY <1>1, <1>3, <1>4, <2>1
    <2>2. CASE ~(i <= k)
      <3>1. i - k \in 1 .. p /\ k + (i - k) = i
        BY <2>2
      <3>2. e[i - k] = script[i]
        BY <1>2, <3>1
      <3> QED BY <1>1, <1>3, <1>4, <2>2, <3>2
    <2> QED BY <2>1, <2>2
  <1>6. Len(s) = k + p
    BY <1>1, <1>3, <1>4
  <1>7. s = Upto(script, k + p)
    BY <1>0, <1>4, <1>5, <1>6, UptoIs
  <1> QED BY <1>7 DEF s, a

StreamType ==
  [at : Places, again : BOOLEAN, script : Seq(Names),
   ending : {"none", "complete", "cut", "broken"}, sent : Nat, wire : Seq(Symbols),
   buffer : Seq(Symbols), events : Seq(Names)]

Final == {"done", "error"}

(* Nothing comes after a frame that ends a script.                         *)
Ordered(script) == \A i \in 1 .. Len(script) : script[i] \in Final => i = Len(script)

Blank(s) == /\ s.script = <<>> /\ s.sent = 0
            /\ s.wire = <<>> /\ s.buffer = <<>> /\ s.events = <<>>

(* Of a stream, k frames and r symbols of the next have been read.         *)
Received(s, k, r) ==
  /\ 5 * k + r <= s.sent
  /\ s.wire = Piece(s.script, 5 * k + r, s.sent)
  /\ s.at = "reading" => /\ s.buffer = Piece(s.script, 5 * k, 5 * k + r)
                         /\ s.events = Upto(s.script, k)
  /\ s.at = "over" => /\ s.buffer = <<>>
                      /\ s.events = Upto(s.script, IF r >= 3 THEN k + 1 ELSE k)

StreamHolds(s) ==
  /\ s \in StreamType
  /\ s.at \notin {"reading", "over"} => Blank(s)
  /\ s.at \in {"reading", "over"} =>
       /\ Covers(s.script, s.sent) /\ Ordered(s.script)
       /\ \E k \in Nat, r \in 0 .. 4 : Received(s, k, r)

StreamInv == DOMAIN stream = Queries /\ \A q \in Queries : StreamHolds(stream[q])

LEMMA EmptyFacts ==
  /\ <<>> \in Seq(Names) /\ <<>> \in Seq(Symbols) /\ Len(<<>>) = 0
  /\ Covers(<<>>, 0) /\ Ordered(<<>>)
  /\ Piece(<<>>, 0, 0) = <<>> /\ Upto(<<>>, 0) = <<>>
  <1>1. <<>> \in Seq(Names) /\ <<>> \in Seq(Symbols) /\ Len(<<>>) = 0
    BY EmptySeq
  <1>2. Covers(<<>>, 0) /\ Ordered(<<>>)
    BY <1>1 DEF Covers, Ordered
  <1>3. Piece(<<>>, 0, 0) = <<>>
    BY DEF Piece
  <1>4. Upto(<<>>, 0) = <<>>
    <2>0. 0 \in Nat /\ 0 <= Len(<<>>)
      BY <1>1
    <2>1. Upto(<<>>, 0) \in Seq(Names) /\ Len(Upto(<<>>, 0)) = 0
      BY <1>1, <2>0, UptoFacts
    <2> QED BY <2>1, EmptySeq
  <1> QED BY <1>1, <1>2, <1>3, <1>4

LEMMA BlankHolds ==
  ASSUME NEW s \in StreamType, Blank(s)
  PROVE  StreamHolds(s)
  <1>1. Covers(s.script, s.sent) /\ Ordered(s.script)
    BY EmptyFacts DEF Blank
  <1>2. Received(s, 0, 0)
    <2>1. 5 * 0 + 0 = 0 /\ 5 * 0 = 0
      OBVIOUS
    <2> QED BY <2>1, EmptyFacts DEF Received, Blank
  <1>3. 0 \in Nat /\ 0 \in 0 .. 4
    OBVIOUS
  <1> QED BY <1>1, <1>2, <1>3 DEF StreamHolds

LEMMA NewStreams ==
  ASSUME NEW s, NEW place \in Places, s = [NoStream EXCEPT !.at = place]
  PROVE  StreamHolds(s) /\ s.at = place
  <1>1. s \in StreamType /\ Blank(s) /\ s.at = place
    BY EmptyFacts DEF NoStream, StreamType, Places, Blank
  <1> QED BY <1>1, BlankHolds

LEMMA NoStreamHolds == StreamHolds(NoStream) /\ StreamHolds(Gone)
  <1>1. NoStream \in StreamType /\ Blank(NoStream)
    BY EmptyFacts DEF NoStream, StreamType, Places, Blank
  <1>2. Gone = [NoStream EXCEPT !.at = "over"] /\ "over" \in Places
    BY DEF Gone, Places
  <1> QED BY <1>1, <1>2, BlankHolds, NewStreams

LEMMA OneStream ==
  ASSUME StreamInv, NEW q \in Queries, NEW s, StreamHolds(s), stream' = [stream EXCEPT ![q] = s]
  PROVE  StreamInv'
  BY DEF StreamInv

LEMMA SeveredHolds ==
  ASSUME StreamInv, NEW q \in Queries
  PROVE  StreamHolds(Severed(q))
  <1>1. StreamHolds([NoStream EXCEPT !.at = "reading"])
    BY NewStreams DEF Places
  <1> QED BY <1>1 DEF Severed, StreamInv

LEMMA StartStreams == ASSUME StreamInv, Start PROVE StreamInv'
  <1>1. DOMAIN stream' = Queries
    BY DEF Start
  <1>2. ASSUME NEW p \in Queries PROVE StreamHolds(stream'[p])
    <2>1. stream'[p] \in {[NoStream EXCEPT !.at = "opening"], Gone, Severed(p), stream[p]}
      BY DEF Start, Superseded
    <2>2. StreamHolds([NoStream EXCEPT !.at = "opening"])
      BY NewStreams DEF Places
    <2> QED BY <2>1, <2>2, NoStreamHolds, SeveredHolds DEF StreamInv
  <1> QED BY <1>1, <1>2 DEF StreamInv

LEMMA LeaveStreams == ASSUME StreamInv, Leave PROVE StreamInv'
  <1>1. DOMAIN stream' = Queries
    BY DEF Leave
  <1>2. ASSUME NEW p \in Queries PROVE StreamHolds(stream'[p])
    <2>1. stream'[p] \in {[NoStream EXCEPT !.at = "orphan"], Gone, NoStream}
      BY DEF Leave
    <2>2. StreamHolds([NoStream EXCEPT !.at = "orphan"])
      BY NewStreams DEF Places
    <2> QED BY <2>1, <2>2, NoStreamHolds
  <1> QED BY <1>1, <1>2 DEF StreamInv

LEMMA CancelStreams == ASSUME StreamInv, PageInv, Cancel PROVE StreamInv'
  <1>1. CASE streaming
    <2>1. stream' = [stream EXCEPT ![current] = Severed(current)]
      BY <1>1 DEF Cancel
    <2>2. current \in Queries
      BY <1>1 DEF Cancel, Busy, PageInv, TypeOK
    <2> QED BY <2>1, <2>2, SeveredHolds, OneStream
  <1>2. CASE ~streaming
    <2>1. UNCHANGED stream
      BY <1>2 DEF Cancel
    <2> QED BY <2>1 DEF StreamInv
  <1> QED BY <1>1, <1>2

LEMMA MovedHolds ==
  ASSUME NEW s, StreamHolds(s), s.at \notin {"reading", "over"},
         NEW place \in Places, NEW again \in BOOLEAN
  PROVE  /\ StreamHolds([s EXCEPT !.at = place])
         /\ StreamHolds([s EXCEPT !.at = place, !.again = again])
  <1>1. s \in StreamType /\ Blank(s)
    BY DEF StreamHolds
  <1>2. [s EXCEPT !.at = place] \in StreamType /\ Blank([s EXCEPT !.at = place])
    BY <1>1 DEF StreamType, Blank
  <1>3. /\ [s EXCEPT !.at = place, !.again = again] \in StreamType
        /\ Blank([s EXCEPT !.at = place, !.again = again])
    BY <1>1 DEF StreamType, Blank
  <1> QED BY <1>2, <1>3, BlankHolds

LEMMA RefusedStreams == ASSUME StreamInv, NEW q \in Queries, Refused(q) PROVE StreamInv'
  <1>1. PICK place \in {"refreshing", "refusal"} : Goes(q, place)
    BY DEF Refused
  <1>2. StreamHolds(stream[q]) /\ stream[q].at = "opening" /\ q \in DOMAIN stream
    BY DEF StreamInv, Refused
  <1>3. stream' = [stream EXCEPT ![q] = [stream[q] EXCEPT !.at = place]]
    BY <1>1, <1>2 DEF Goes
  <1>4. StreamHolds([stream[q] EXCEPT !.at = place])
    BY <1>2, MovedHolds DEF Places
  <1> QED BY <1>3, <1>4, OneStream

LEMMA RefreshedStreams == ASSUME StreamInv, NEW q \in Queries, Refreshed(q) PROVE StreamInv'
  <1>1. StreamHolds(stream[q]) /\ stream[q].at = "refreshing" /\ q \in DOMAIN stream
    BY DEF StreamInv, Refreshed
  <1>2. CASE stream' = [stream EXCEPT ![q].at = "opening", ![q].again = TRUE]
    <2>1. stream' = [stream EXCEPT ![q] = [stream[q] EXCEPT !.at = "opening", !.again = TRUE]]
      BY <1>1, <1>2
    <2>2. StreamHolds([stream[q] EXCEPT !.at = "opening", !.again = TRUE])
      BY <1>1, MovedHolds DEF Places
    <2> QED BY <2>1, <2>2, OneStream
  <1>3. CASE Goes(q, "refusal")
    <2>1. stream' = [stream EXCEPT ![q] = [stream[q] EXCEPT !.at = "refusal"]]
      BY <1>1, <1>3 DEF Goes
    <2>2. StreamHolds([stream[q] EXCEPT !.at = "refusal"])
      BY <1>1, MovedHolds DEF Places
    <2> QED BY <2>1, <2>2, OneStream
  <1> QED BY <1>2, <1>3 DEF Refreshed

LEMMA RejectedStreams == ASSUME StreamInv, NEW q \in Queries, Rejected(q) PROVE StreamInv'
  <1>1. stream' = [stream EXCEPT ![q] = Gone]
    BY DEF Rejected
  <1> QED BY <1>1, NoStreamHolds, OneStream

(* What the server writes ends with done or an error and holds neither     *)
(* before.                                                                 *)
LEMMA AnswerShape ==
  ASSUME NEW a \in Answers
  PROVE  /\ a \in Seq(Names) /\ Len(a) >= 3
         /\ \A i \in 1 .. Len(a) - 1 : a[i] \notin Final
         /\ a[Len(a)] \in Final
  <1>1. PICK n \in 0 .. MaxTokens :
          a = <<"retrieval">> \o [i \in 1 .. n |-> "token"] \o <<"verification", "done">>
    BY Zenon DEF Answers
  <1> DEFINE x == <<"retrieval">>
             y == [i \in 1 .. n |-> "token"]
             z == <<"verification", "done">>
             u == x \o y
  <1>0. n \in Nat
    BY QueryStreamAssumption
  <1>2. x \in Seq(Names) /\ Len(x) = 1 /\ x[1] = "retrieval"
    BY DEF Names
  <1>3. y \in Seq(Names) /\ Len(y) = n /\ \A i \in 1 .. n : y[i] = "token"
    <2>1. y \in [1 .. n -> Names] /\ \A i \in 1 .. n : y[i] = "token"
      BY DEF Names
    <2> HIDE DEF y
    <2> QED BY <1>0, <2>1
  <1>4. z \in Seq(Names) /\ Len(z) = 2 /\ z[1] = "verification" /\ z[2] = "done"
    BY DEF Names
  <1> HIDE DEF x, y, z
  <1>5. /\ u \in Seq(Names) /\ Len(u) = 1 + n
        /\ \A i \in 1 .. 1 + n : u[i] = IF i <= 1 THEN x[i] ELSE y[i - 1]
    <2>1. /\ u \in Seq(Names) /\ Len(u) = Len(x) + Len(y)
          /\ \A i \in 1 .. Len(x) + Len(y) : u[i] = IF i <= Len(x) THEN x[i] ELSE y[i - Len(x)]
      BY <1>2, <1>3, ConcatProperties
    <2> HIDE DEF u
    <2> QED BY <1>2, <1>3, <2>1
  <1> HIDE DEF u
  <1>6. \A i \in 1 .. 1 + n : u[i] \in {"retrieval", "token"}
    <2> SUFFICES ASSUME NEW i \in 1 .. 1 + n PROVE u[i] \in {"retrieval", "token"}
      OBVIOUS
    <2>1. CASE i = 1
      BY <1>2, <1>5, <2>1
    <2>2. CASE i # 1
      <3>1. i - 1 \in 1 .. n /\ ~(i <= 1)
        BY <1>0, <2>2
      <3> QED BY <1>3, <1>5, <3>1
    <2> QED BY <2>1, <2>2
  <1>7. /\ a \in Seq(Names) /\ Len(a) = n + 3
        /\ \A i \in 1 .. n + 3 : a[i] = IF i <= 1 + n THEN u[i] ELSE z[i - (1 + n)]
    <2>1. a = u \o z
      BY <1>1 DEF u, x, y, z
    <2>2. /\ u \o z \in Seq(Names) /\ Len(u \o z) = Len(u) + Len(z)
          /\ \A i \in 1 .. Len(u) + Len(z) : (u \o z)[i] = IF i <= Len(u) THEN u[i] ELSE z[i - Len(u)]
      BY <1>4, <1>5, ConcatProperties
    <2>3. /\ a \in Seq(Names) /\ Len(a) = Len(u) + Len(z)
          /\ \A i \in 1 .. Len(u) + Len(z) : a[i] = IF i <= Len(u) THEN u[i] ELSE z[i - Len(u)]
      BY <2>1, <2>2
    <2>4. Len(u) = 1 + n /\ Len(z) = 2 /\ Len(u) + Len(z) = n + 3
      BY <1>0, <1>4, <1>5
    <2> HIDE <2>1, <2>2
    <2> QED BY <2>3, <2>4
  <1>8. \A i \in 1 .. Len(a) - 1 : a[i] \notin Final
    <2> SUFFICES ASSUME NEW i \in 1 .. Len(a) - 1 PROVE a[i] \notin Final
      OBVIOUS
    <2>1. i \in 1 .. n + 2 /\ i \in 1 .. n + 3
      BY <1>0, <1>7
    <2>2. CASE i <= 1 + n
      <3>1. a[i] = u[i] /\ i \in 1 .. 1 + n
        BY <1>0, <1>7, <2>1, <2>2
      <3> QED BY <1>6, <3>1 DEF Final
    <2>3. CASE ~(i <= 1 + n)
      <3>1. i - (1 + n) = 1
        BY <1>0, <2>1, <2>3
      <3>2. a[i] = z[1]
        BY <1>7, <2>1, <2>3, <3>1
      <3> QED BY <1>4, <3>2 DEF Final
    <2> QED BY <2>2, <2>3
  <1>9. a[Len(a)] \in Final
    <2>1. n + 3 \in 1 .. n + 3 /\ ~(n + 3 <= 1 + n) /\ (n + 3) - (1 + n) = 2
      BY <1>0
    <2>2. a[n + 3] = z[2]
      BY <1>7, <2>1
    <2> QED BY <1>4, <1>7, <2>2 DEF Final
  <1> QED BY <1>0, <1>7, <1>8, <1>9

LEMMA ScriptShape ==
  ASSUME NEW script \in Scripts
  PROVE  /\ script \in Seq(Names) /\ Ordered(script)
         /\ Len(script) > 0 /\ script[Len(script)] \in Final
  <1>1. CASE script \in Answers
    <2>1. /\ script \in Seq(Names) /\ \A i \in 1 .. Len(script) - 1 : script[i] \notin Final
          /\ Len(script) > 0 /\ script[Len(script)] \in Final
      BY <1>1, AnswerShape, LenProperties
    <2>2. Len(script) \in Nat
      BY <2>1
    <2> QED BY <2>1, <2>2 DEF Ordered
  <1>2. CASE script \notin Answers
    <2>1. PICK a \in Answers : \E n \in 0 .. Len(a) - 2 : script = Append(SubSeq(a, 1, n), "error")
      BY <1>2, Zenon DEF Scripts
    <2>2. PICK n \in 0 .. Len(a) - 2 : script = Append(Upto(a, n), "error")
      BY <2>1, Zenon DEF Upto
    <2>3. a \in Seq(Names) /\ \A i \in 1 .. Len(a) - 1 : a[i] \notin Final
      BY AnswerShape
    <2>4. n \in Nat /\ n <= Len(a) /\ n <= Len(a) - 1
      BY <2>3, LenProperties
    <2> DEFINE u == Upto(a, n)
    <2>5. u \in Seq(Names) /\ Len(u) = n /\ \A i \in 1 .. n : u[i] = a[i]
      BY <2>3, <2>4, UptoFacts
    <2> HIDE DEF u
    <2>6. "error" \in Names
      BY DEF Names
    <2>7. /\ script \in Seq(Names) /\ Len(script) = n + 1
          /\ \A i \in 1 .. n : script[i] = u[i]
          /\ script[n + 1] = "error"
      <3>1. script = Append(u, "error")
        BY <2>2 DEF u
      <3> QED BY <2>5, <2>6, <3>1, AppendProperties
    <2>8. ASSUME NEW i \in 1 .. Len(script), script[i] \in Final PROVE i = Len(script)
      <3>1. CASE i \in 1 .. n
        <4>1. i \in 1 .. Len(a) - 1
          BY <2>3, <2>4, <3>1, LenProperties
        <4>2. script[i] = a[i]
          BY <2>5, <2>7, <3>1
        <4> QED BY <2>3, <2>8, <4>1, <4>2
      <3>2. CASE i \notin 1 .. n
        BY <2>4, <2>7, <3>2
      <3> QED BY <3>1, <3>2
    <2>9. Len(script) > 0 /\ script[Len(script)] \in Final
      BY <2>4, <2>7 DEF Final
    <2> QED BY <2>7, <2>8, <2>9 DEF Ordered
  <1> QED BY <1>1, <1>2

(* What the client needs to know of a script that is cut off.              *)
LEMMA CutScript ==
  ASSUME NEW script \in Scripts, NEW n \in Nat, NEW m \in Nat,
         n <= 5 * Len(script), m = (n + 4) \div 5
  PROVE  /\ Covers(Upto(script, m), n) /\ Ordered(Upto(script, m))
         /\ Piece(script, 0, n) = Piece(Upto(script, m), 0, n)
  <1> DEFINE u == Upto(script, m)
  <1>1. script \in Seq(Names) /\ Ordered(script) /\ Len(script) \in Nat
    BY ScriptShape, LenProperties
  <1>2. m <= Len(script) /\ n <= 5 * m
    BY <1>1
  <1>3. u \in Seq(Names) /\ Len(u) = m /\ \A i \in 1 .. m : u[i] = script[i]
    BY <1>1, <1>2, UptoFacts
  <1> HIDE DEF u
  <1>4. Covers(u, n)
    BY <1>2, <1>3 DEF Covers
  <1>5. Ordered(u)
    <2> SUFFICES ASSUME NEW i \in 1 .. m, u[i] \in Final PROVE i = m
      BY <1>3 DEF Ordered
    <2>1. i \in 1 .. Len(script) /\ script[i] \in Final
      BY <1>1, <1>2, <1>3
    <2>2. i = Len(script)
      BY <1>1, <2>1 DEF Ordered
    <2> QED BY <1>1, <1>2, <2>2
  <1>6. ASSUME NEW i \in 1 .. n PROVE Symbol(script, 0 + i) = Symbol(u, 0 + i)
    <2>1. (0 + i - 1) \div 5 + 1 \in 1 .. m
      BY <1>2
    <2> QED BY <1>3, <2>1 DEF Symbol
  <1>7. Piece(script, 0, n) = Piece(u, 0, n)
    <2>1. 1 .. n - 0 = 1 .. n
      OBVIOUS
    <2> QED BY <1>6, <2>1 DEF Piece
  <1> QED BY <1>4, <1>5, <1>7 DEF u

LEMMA OpenedStreams == ASSUME StreamInv, NEW q \in Queries, Opened(q) PROVE StreamInv'
  <1>1. StreamHolds(stream[q]) /\ stream[q].at = "opening" /\ q \in DOMAIN stream
    BY DEF StreamInv, Opened
  <1>2. stream[q] \in StreamType /\ Blank(stream[q])
    BY <1>1 DEF StreamHolds
  <1>3. PICK script \in Scripts, ending \in {"complete", "cut", "broken"} :
          \E n \in 0 .. Len(script) * FrameLength :
            /\ ending = "complete" => n = Len(script) * FrameLength
            /\ ending = "cut" => n < Len(script) * FrameLength
            /\ n % FrameLength \in Cuts
            /\ stream' = [stream EXCEPT ![q].at = "reading", ![q].ending = ending,
                 ![q].sent = n, ![q].wire = Bytes(script, n),
                 ![q].script = SubSeq(script, 1, (n + FrameLength - 1) \div FrameLength)]
    BY Zenon DEF Opened
  <1>4. PICK n \in 0 .. Len(script) * FrameLength :
          stream' = [stream EXCEPT ![q].at = "reading", ![q].ending = ending,
              ![q].sent = n, ![q].wire = Bytes(script, n),
              ![q].script = SubSeq(script, 1, (n + FrameLength - 1) \div FrameLength)]
    BY <1>3, Zenon
  <1>5. Len(script) \in Nat
    BY ScriptShape, LenProperties
  <1>6. PICK m \in Nat : m = (n + 4) \div 5
    BY <1>5 DEF FrameLength
  <1>7. n \in Nat /\ n <= 5 * Len(script) /\ (n + FrameLength - 1) \div FrameLength = m
    BY <1>5, <1>6 DEF FrameLength
  <1> DEFINE u == Upto(script, m)
             w == Piece(u, 0, n)
             s == [stream[q] EXCEPT !.at = "reading", !.ending = ending, !.sent = n,
                     !.wire = w, !.script = u]
  <1>8. Covers(u, n) /\ Ordered(u) /\ Bytes(script, n) = w
    BY <1>6, <1>7, CutScript, BytesPiece
  <1>9. stream' = [stream EXCEPT ![q] = s]
    <2>1. SubSeq(script, 1, (n + FrameLength - 1) \div FrameLength) = u
      BY <1>7 DEF Upto
    <2> HIDE DEF u, w
    <2> QED BY <1>1, <1>4, <1>8, <2>1, Zenon DEF s
  <1>10. w \in Seq(Symbols) /\ u \in Seq(Names)
    <2>1. 0 \in Nat /\ 0 <= n
      BY <1>7
    <2> HIDE DEF u
    <2> QED BY <1>8, <2>1, PieceFacts DEF Covers
  <1> HIDE DEF u, w
  <1>11. /\ s \in StreamType /\ s.at = "reading" /\ s.sent = n /\ s.wire = w /\ s.script = u
         /\ s.buffer = <<>> /\ s.events = <<>>
    BY <1>2, <1>7, <1>10 DEF StreamType, Places, Blank
  <1> HIDE DEF s
  <1>12. Piece(u, 0, 0) = <<>> /\ Upto(u, 0) = <<>>
    <2>1. Piece(u, 0, 0) = <<>>
      BY DEF Piece
    <2>2. 0 \in Nat /\ 0 <= Len(u)
      BY <1>10, LenProperties
    <2>3. Upto(u, 0) \in Seq(Names) /\ Len(Upto(u, 0)) = 0
      BY <1>10, <2>2, UptoFacts
    <2> QED BY <2>1, <2>3, EmptySeq
  <1>13. Received(s, 0, 0)
    <2>1. 5 * 0 + 0 = 0 /\ 5 * 0 = 0 /\ 0 <= n
      BY <1>7
    <2> QED BY <1>11, <1>12, <2>1 DEF Received, w
  <1>14. StreamHolds(s)
    <2>1. 0 \in Nat /\ 0 \in 0 .. 4
      OBVIOUS
    <2> QED BY <1>8, <1>11, <1>13, <2>1 DEF StreamHolds
  <1> QED BY <1>9, <1>14, OneStream

(* Whole frames are handed over as they are.                               *)
LEMMA WholeHanded ==
  ASSUME NEW q \in Queries, NEW script \in Seq(Names), NEW k \in Nat, NEW p \in Nat,
         k + p <= Len(script), NEW after \in StreamType,
         after.events = Upto(script, k), HandOver(q, Frames(script, k, p), after)
  PROVE  /\ hook' = AfterFrames(q, Frames(script, k, p))
         /\ stream' = [stream EXCEPT ![q] = [after EXCEPT !.events = Upto(script, k + p)]]
         /\ [after EXCEPT !.events = Upto(script, k + p)] \in StreamType
  <1> DEFINE f == Frames(script, k, p)
             e == [i \in DOMAIN f |-> f[i].event]
             broken == {i \in DOMAIN f : ~f[i].whole}
  <1>1. /\ f \in Seq(ParsedFrame) /\ DOMAIN f = 1 .. p
        /\ \A i \in 1 .. p : f[i] = Whole(script[k + i])
    BY FramesFacts
  <1> HIDE DEF f
  <1>2. broken = {}
    BY <1>1 DEF Whole
  <1>3. e = [i \in 1 .. p |-> script[k + i]]
    BY <1>1 DEF Whole
  <1> HIDE DEF e
  <1>4. Upto(script, k) \o e = Upto(script, k + p)
    BY <1>3, UptoMore
  <1>5. Upto(script, k + p) \in Seq(Names)
    BY UptoFacts
  <1>6. /\ stream' = [stream EXCEPT ![q] = [after EXCEPT
                        !.at = IF broken = {} THEN @ ELSE "over",
                        !.events = @ \o e]]
        /\ hook' = AfterFrames(q, f)
    BY <1>2 DEF HandOver, f, e
  <1> HIDE DEF broken
  <1>7. [after EXCEPT !.at = IF broken = {} THEN @ ELSE "over", !.events = @ \o e]
          = [after EXCEPT !.events = Upto(script, k + p)]
    <2> DEFINE v == Upto(script, k + p)
    <2>1. after.events \o e = v
      BY <1>4
    <2> HIDE DEF v
    <2>2. [after EXCEPT !.at = after.at, !.events = v] = [after EXCEPT !.events = v]
      BY DEF StreamType
    <2>3. [after EXCEPT !.at = IF broken = {} THEN @ ELSE "over", !.events = @ \o e]
            = [after EXCEPT !.at = after.at, !.events = v]
      BY <1>2, <2>1 DEF StreamType
    <2> QED BY <2>2, <2>3 DEF v
  <1>8. [after EXCEPT !.events = Upto(script, k + p)] \in StreamType
    BY <1>5 DEF StreamType
  <1> QED BY <1>6, <1>7, <1>8 DEF f

(* What a read does to a stream of which k frames and r symbols have been  *)
(* read: it completes p frames.                                            *)
ReadForm(q, k, r, p, s) ==
  /\ stream[q].at = "reading" /\ q \notin aborted
  /\ k + p <= Len(stream[q].script)
  /\ Received(stream[q], k, r)
  /\ s.at = "reading" /\ s.script = stream[q].script
  /\ StreamHolds(s) /\ s.events = Upto(stream[q].script, k + p)
  /\ stream' = [stream EXCEPT ![q] = s]
  /\ hook' = AfterFrames(q, Frames(stream[q].script, k, p))
  /\ UNCHANGED others

LEMMA ReadDoes ==
  ASSUME StreamInv, NEW q \in Queries, Read(q)
  PROVE  \E k \in Nat, r \in 0 .. 4, p \in Nat : \E s : ReadForm(q, k, r, p, s)
  <1> DEFINE t == stream[q]
             script == t.script
             sent == t.sent
  <1>1. t.at = "reading" /\ q \notin aborted /\ UNCHANGED others /\ t \in StreamType
        /\ Covers(script, sent) /\ Ordered(script) /\ sent \in Nat
    BY DEF Read, StreamInv, StreamHolds, Covers
  <1>2. PICK k \in Nat, r \in 0 .. 4 : Received(t, k, r)
    BY <1>1 DEF StreamInv, StreamHolds
  <1>3. PICK n \in 1 .. Len(t.wire) :
          HandOver(q, Push(t.buffer, SubSeq(t.wire, 1, n)).frames,
                   [t EXCEPT !.buffer = Push(t.buffer, SubSeq(t.wire, 1, n)).buffer,
                             !.wire = SubSeq(@, n + 1, Len(@))])
    BY Zenon DEF Read
  <1> HIDE DEF script, sent
  <1>4. /\ 5 * k + r <= sent /\ t.wire = Piece(script, 5 * k + r, sent)
        /\ t.buffer = Piece(script, 5 * k, 5 * k + r) /\ t.events = Upto(script, k)
    BY <1>1, <1>2 DEF Received, script, sent
  <1> DEFINE c == 5 * k + r
  <1>5. c \in Nat /\ c <= sent
    BY <1>4
  <1>6. Len(t.wire) = sent - c
    BY <1>1, <1>4, <1>5, PieceFacts
  <1>7. n \in Nat /\ n <= sent - c /\ c + n <= sent /\ c + n \in Nat
    BY <1>1, <1>3, <1>5, <1>6
  <1>8. SubSeq(t.wire, 1, n) = Piece(script, c, c + n)
    <2>1. After(Piece(script, c, sent), 0, n) = Piece(script, c + 0, c + n)
      BY <1>1, <1>5, <1>7, PieceCut
    <2>2. c + 0 = c /\ 0 + 1 = 1
      OBVIOUS
    <2> QED BY <1>4, <2>1, <2>2 DEF After
  <1>9. SubSeq(t.wire, n + 1, Len(t.wire)) = Piece(script, c + n, sent)
    <2>1. sent - c \in Nat /\ n <= sent - c /\ c + (sent - c) <= sent /\ c + (sent - c) = sent
      BY <1>1, <1>5, <1>7
    <2>2. After(Piece(script, c, sent), n, sent - c) = Piece(script, c + n, c + (sent - c))
      BY <1>1, <1>5, <1>7, <2>1, PieceCut
    <2> QED BY <1>4, <1>6, <2>1, <2>2 DEF After
  <1> DEFINE b == c + n
  <1>10. Covers(script, b)
    BY <1>1, <1>7 DEF Covers
  <1>11. t.buffer \o SubSeq(t.wire, 1, n) = Piece(script, 5 * k, b)
    <2>1. 5 * k \in Nat /\ c \in Nat /\ 5 * k <= c /\ c <= b
      BY <1>5, <1>7
    <2>2. t.buffer = Piece(script, 5 * k, c)
      BY <1>4
    <2> HIDE DEF b, c
    <2>3. Piece(script, 5 * k, c) \o Piece(script, c, b) = Piece(script, 5 * k, b)
      BY <1>10, <2>1, PieceJoin
    <2> QED BY <1>8, <2>2, <2>3 DEF b
  <1>12. PICK p \in Nat, v \in 0 .. 4 : b = 5 * (k + p) + v
    <2>1. r + n \in Nat
      BY <1>7
    <2>2. PICK x \in Nat : x = r + n
      BY <2>1
    <2>3. x \div 5 \in Nat /\ x % 5 \in 0 .. 4 /\ x = 5 * (x \div 5) + (x % 5)
      OBVIOUS
    <2>4. b = 5 * (k + (x \div 5)) + (x % 5)
      BY <1>7, <2>2, <2>3
    <2> QED BY <2>3, <2>4
  <1>13. /\ 5 * (k + p) <= b /\ b < 5 * (k + p) + 5 /\ b <= sent /\ k + p \in Nat
         /\ k + p <= Len(script)
    <2>1. 5 * (k + p) <= b /\ b < 5 * (k + p) + 5 /\ b <= sent /\ k + p \in Nat
      BY <1>7, <1>12
    <2>2. b \in Nat /\ b <= 5 * Len(script) /\ Len(script) \in Nat
      BY <1>10, LenProperties DEF Covers
    <2> QED BY <2>1, <2>2
  <1> HIDE DEF b, c, t
  <1>14. Push(t.buffer, SubSeq(t.wire, 1, n)) = Left(script, k, p, b)
    BY <1>10, <1>11, <1>13, CutPiece DEF Push
  <1> DEFINE after == [t EXCEPT !.buffer = Piece(script, 5 * (k + p), b), !.wire = Piece(script, b, sent)]
             s == [after EXCEPT !.events = Upto(script, k + p)]
  <1>15. HandOver(q, Frames(script, k, p), after)
    <2>1. /\ Left(script, k, p, b).frames = Frames(script, k, p)
          /\ Left(script, k, p, b).buffer = Piece(script, 5 * (k + p), b)
      BY DEF Left
    <2>2. HandOver(q, Left(script, k, p, b).frames,
            [t EXCEPT !.buffer = Left(script, k, p, b).buffer, !.wire = SubSeq(t.wire, n + 1, Len(t.wire))])
      BY <1>3, <1>14, Zenon
    <2>3. SubSeq(t.wire, n + 1, Len(t.wire)) = Piece(script, b, sent)
      BY <1>9 DEF b
    <2> QED BY <2>1, <2>2, <2>3, Zenon
  <1>16. after \in StreamType /\ after.events = Upto(script, k)
    <2>1. Piece(script, 5 * (k + p), b) \in Seq(Symbols)
      <3>1. 5 * (k + p) \in Nat /\ 5 * (k + p) <= b
        BY <1>13
      <3> QED BY <1>10, <3>1, PieceFacts
    <2>2. Piece(script, b, sent) \in Seq(Symbols)
      <3>1. b \in Nat /\ b <= sent
        BY <1>10, <1>13 DEF Covers
      <3> QED BY <1>1, <3>1, PieceFacts
    <2> HIDE DEF s
    <2> QED BY <1>1, <1>4, <2>1, <2>2 DEF StreamType
  <1>17. script \in Seq(Names)
    BY <1>1 DEF Covers
  <1> HIDE DEF after
  <1>18. /\ hook' = AfterFrames(q, Frames(script, k, p))
         /\ stream' = [stream EXCEPT ![q] = s] /\ s \in StreamType
    BY <1>13, <1>15, <1>16, <1>17, WholeHanded
  <1>19. /\ s.at = "reading" /\ s.script = script /\ s.sent = sent
         /\ s.wire = Piece(script, b, sent) /\ s.buffer = Piece(script, 5 * (k + p), b)
         /\ s.events = Upto(script, k + p)
    BY <1>1 DEF after, StreamType, script, sent
  <1> HIDE DEF s
  <1>20. Received(s, k + p, v)
    BY <1>12, <1>13, <1>19 DEF Received
  <1>21. StreamHolds(s)
    BY <1>1, <1>13, <1>18, <1>19, <1>20 DEF StreamHolds
  <1>22. ReadForm(q, k, r, p, s)
    BY <1>1, <1>2, <1>13, <1>18, <1>19, <1>21 DEF ReadForm, script, t
  <1> QED BY <1>22

(* What the end of the body does.  A frame without its blank line counts,  *)
(* one without the end of its data is an error.                            *)
CloseForm(q, k, r, s) ==
  /\ stream[q].at = "reading" /\ q \notin aborted
  /\ Received(stream[q], k, r)
  /\ s.at = "over" /\ s.script = stream[q].script /\ StreamHolds(s)
  /\ stream' = [stream EXCEPT ![q] = s]
  /\ UNCHANGED others
  /\ \/ /\ r < 2 /\ s.events = Upto(stream[q].script, k)
        /\ hook' = AfterFrames(q, Frames(stream[q].script, k, 0))
     \/ /\ r > 2 /\ s.events = Upto(stream[q].script, k + 1) /\ k + 1 <= Len(stream[q].script)
        /\ hook' = AfterFrames(q, Frames(stream[q].script, k, 1))
     \/ /\ r = 2 /\ s.events = Upto(stream[q].script, k)
        /\ Thrown(q, <<>>)

LEMMA CloseDoes ==
  ASSUME StreamInv, NEW q \in Queries, Close(q)
  PROVE  \E k \in Nat, r \in 0 .. 4 : \E s : CloseForm(q, k, r, s)
  <1> DEFINE t == stream[q]
             script == t.script
             sent == t.sent
             after == [t EXCEPT !.at = "over", !.buffer = <<>>]
  <1>1. t.at = "reading" /\ q \notin aborted /\ UNCHANGED others /\ t \in StreamType
        /\ Covers(script, sent) /\ Ordered(script) /\ sent \in Nat /\ t.wire = <<>>
    BY DEF Close, StreamInv, StreamHolds, Covers
  <1>2. PICK k \in Nat, r \in 0 .. 4 : Received(t, k, r)
    BY <1>1 DEF StreamInv, StreamHolds
  <1>3. HandOver(q, Flush(t.buffer), after)
    BY DEF Close
  <1> HIDE DEF script, sent
  <1>4. /\ 5 * k + r <= sent /\ t.wire = Piece(script, 5 * k + r, sent)
        /\ t.buffer = Piece(script, 5 * k, 5 * k + r) /\ t.events = Upto(script, k)
    BY <1>1, <1>2 DEF Received, script, sent
  <1>5. sent = 5 * k + r
    <2>1. 5 * k + r \in Nat
      OBVIOUS
    <2>2. Len(Piece(script, 5 * k + r, sent)) = sent - (5 * k + r)
      BY <1>1, <1>4, <2>1, PieceFacts
    <2>3. Len(<<>>) = 0
      OBVIOUS
    <2>4. sent - (5 * k + r) = 0
      BY <1>1, <1>4, <2>2, <2>3
    <2> QED BY <1>1, <2>1, <2>4
  <1>6. /\ script \in Seq(Names) /\ Len(script) \in Nat /\ Covers(script, 5 * k + r)
        /\ k <= Len(script)
        /\ r > 0 => k + 1 <= Len(script)
    BY <1>1, <1>5, LenProperties DEF Covers
  <1>7. /\ IsFrame(t.buffer) <=> r >= 2
        /\ r >= 3 => Parsed(t.buffer) = Whole(script[k + 1])
        /\ r = 2 => Parsed(t.buffer) = [event |-> script[k + 1], whole |-> FALSE]
    BY <1>4, <1>6, ParsedPiece
  <1>8. /\ after \in StreamType /\ after.events = Upto(script, k) /\ after.at = "over"
        /\ after.script = script /\ after.sent = sent /\ after.wire = <<>> /\ after.buffer = <<>>
    <2>1. <<>> \in Seq(Symbols)
      BY EmptySeq
    <2> QED BY <1>1, <1>4, <2>1 DEF StreamType, Places, script, sent
  <1>9. ASSUME NEW s \in StreamType, s.at = "over", s.script = script, s.sent = sent,
               s.wire = <<>>, s.buffer = <<>>,
               s.events = Upto(script, IF r >= 3 THEN k + 1 ELSE k)
        PROVE  StreamHolds(s)
    <2>1. Received(s, k, r)
      BY <1>1, <1>4, <1>9 DEF Received
    <2> QED BY <1>1, <1>9, <2>1 DEF StreamHolds
  <1> HIDE DEF after
  <1>10. CASE r < 2
    <2>1. Flush(t.buffer) = Frames(script, k, 0)
      <3>1. Frames(script, k, 0) = <<>>
        BY DEF Frames
      <3> QED BY <1>7, <1>10, <3>1 DEF Flush
    <2>2. k + 0 = k /\ k + 0 <= Len(script) /\ 0 \in Nat
      BY <1>6
    <2> DEFINE s == [after EXCEPT !.events = Upto(script, k + 0)]
    <2>3. HandOver(q, Frames(script, k, 0), after)
      BY <1>3, <2>1
    <2>4. /\ hook' = AfterFrames(q, Frames(script, k, 0))
          /\ stream' = [stream EXCEPT ![q] = s] /\ s \in StreamType
      BY <1>6, <1>8, <2>2, <2>3, WholeHanded
    <2>5. /\ s.at = "over" /\ s.script = script /\ s.sent = sent
          /\ s.wire = <<>> /\ s.buffer = <<>> /\ s.events = Upto(script, k)
      <3> DEFINE v == Upto(script, k + 0)
      <3>1. v = Upto(script, k)
        BY <2>2
      <3> HIDE DEF v
      <3>2. [after EXCEPT !.events = v].events = v
        BY <1>8 DEF StreamType
      <3> QED BY <1>8, <3>1, <3>2 DEF StreamType, v
    <2> HIDE DEF s
    <2>6. StreamHolds(s)
      <3>1. ~(r >= 3)
        BY <1>10
      <3> QED BY <1>9, <2>4, <2>5, <3>1
    <2>7. CloseForm(q, k, r, s)
      BY <1>1, <1>2, <1>10, <2>4, <2>5, <2>6 DEF CloseForm, script
    <2> QED BY <2>7
  <1>11. CASE r > 2
    <2>1. Flush(t.buffer) = Frames(script, k, 1)
      <3>1. Frames(script, k, 1) = <<Whole(script[k + 1])>>
        BY DEF Frames
      <3>2. IsFrame(t.buffer) /\ Parsed(t.buffer) = Whole(script[k + 1])
        BY <1>7, <1>11
      <3> QED BY <3>1, <3>2 DEF Flush
    <2>2. k + 1 <= Len(script) /\ 1 \in Nat
      BY <1>6, <1>11
    <2> DEFINE s == [after EXCEPT !.events = Upto(script, k + 1)]
    <2>3. HandOver(q, Frames(script, k, 1), after)
      BY <1>3, <2>1
    <2>4. /\ hook' = AfterFrames(q, Frames(script, k, 1))
          /\ stream' = [stream EXCEPT ![q] = s] /\ s \in StreamType
      BY <1>6, <1>8, <2>2, <2>3, WholeHanded
    <2>5. /\ s.at = "over" /\ s.script = script /\ s.sent = sent
          /\ s.wire = <<>> /\ s.buffer = <<>> /\ s.events = Upto(script, k + 1)
      BY <1>8 DEF StreamType
    <2> HIDE DEF s
    <2>6. StreamHolds(s)
      <3>1. r >= 3
        BY <1>11
      <3> QED BY <1>9, <2>4, <2>5, <3>1
    <2>7. CloseForm(q, k, r, s)
      BY <1>1, <1>2, <1>11, <2>2, <2>4, <2>5, <2>6 DEF CloseForm, script
    <2> QED BY <2>7
  <1>12. CASE r = 2
    <2> DEFINE f == Flush(t.buffer)
               broken == {i \in DOMAIN f : ~f[i].whole}
               good == IF broken = {} THEN f ELSE SubSeq(f, 1, Min(broken) - 1)
               e == [i \in DOMAIN good |-> good[i].event]
    <2>1. f = <<[event |-> script[k + 1], whole |-> FALSE]>>
      BY <1>7, <1>12 DEF Flush
    <2>2. broken = {1}
      BY <2>1
    <2>3. Min({1}) = 1
      BY DEF Min
    <2>4. good = <<>>
      <3>1. good = SubSeq(f, 1, 0)
        BY <2>2, <2>3
      <3>2. SubSeq(f, 1, 0) = <<>>
        <4>1. 1 \in Int /\ 0 \in Int /\ 0 < 1
          OBVIOUS
        <4> HIDE DEF f
        <4> QED BY <4>1, SubSeqEmpty
      <3> QED BY <3>1, <3>2
    <2>5. /\ stream' = [stream EXCEPT ![q] = [after EXCEPT
                         !.at = IF broken = {} THEN @ ELSE "over", !.events = @ \o e]]
          /\ Thrown(q, good)
      BY <1>3, <2>2 DEF HandOver
    <2>a. Thrown(q, <<>>)
      <3> HIDE DEF good
      <3> QED BY <2>4, <2>5
    <2>6. e = <<>>
      <3>1. DOMAIN good = 1 .. 0
        <4> HIDE DEF good
        <4> QED BY <2>4
      <3> HIDE DEF good
      <3>2. [i \in 1 .. 0 |-> good[i].event] = <<>>
        OBVIOUS
      <3> QED BY <3>1, <3>2
    <2> HIDE DEF f, broken, good, e
    <2>7. after.events \o e = Upto(script, k)
      <3>1. Upto(script, k) \in Seq(Names)
        BY <1>6, UptoFacts
      <3> QED BY <1>8, <2>6, <3>1, ConcatEmptySeq
    <2>8. [after EXCEPT !.at = IF broken = {} THEN @ ELSE "over", !.events = @ \o e] = after
      <3>1. [after EXCEPT !.at = IF broken = {} THEN @ ELSE "over", !.events = @ \o e]
              = [after EXCEPT !.at = after.at, !.events = after.events]
        BY <1>8, <2>2, <2>7 DEF StreamType
      <3>2. [after EXCEPT !.at = after.at, !.events = after.events] = after
        BY <1>8 DEF StreamType
      <3> QED BY <3>1, <3>2
    <2>9. stream' = [stream EXCEPT ![q] = after]
      BY <2>5, <2>8
    <2>10. StreamHolds(after)
      <3>1. ~(r >= 3)
        BY <1>12
      <3> QED BY <1>8, <1>9, <3>1
    <2>11. CloseForm(q, k, r, after)
      BY <1>1, <1>2, <1>8, <1>12, <2>a, <2>9, <2>10 DEF CloseForm, script
    <2> QED BY <2>11
  <1> QED BY <1>10, <1>11, <1>12

LEMMA StreamsStay == ASSUME StreamInv, UNCHANGED stream PROVE StreamInv'
  BY DEF StreamInv

LEMMA StreamsInductive == StreamInv /\ PageInv /\ [Next]_vars => StreamInv'
  <1> SUFFICES ASSUME StreamInv, PageInv, [Next]_vars PROVE StreamInv'
    OBVIOUS
  <1>1. ASSUME User \/ Record PROVE StreamInv'
    <2>1. CASE Mutate \/ Toggle \/ Return \/ Forget \/ Record
      BY <2>1, StreamsStay DEF Mutate, Toggle, Return, Forget, Record
    <2> QED BY <1>1, <2>1, StartStreams, LeaveStreams, CancelStreams DEF User
  <1>2. ASSUME NEW q \in Queries, Network(q) PROVE StreamInv'
    <2>1. CASE Read(q)
      <3>1. PICK k, r, p, s : ReadForm(q, k, r, p, s)
        BY <2>1, ReadDoes
      <3> QED BY <3>1, OneStream DEF ReadForm
    <2>2. CASE Close(q)
      <3>1. PICK k, r, s : CloseForm(q, k, r, s)
        BY <2>2, CloseDoes
      <3> QED BY <3>1, OneStream DEF CloseForm
    <2>3. CASE Settle(q)
      BY <2>3, StreamsStay DEF Settle
    <2> QED BY <1>2, <2>1, <2>2, <2>3, OpenedStreams, RefusedStreams, RefreshedStreams,
               RejectedStreams DEF Network
  <1>3. CASE UNCHANGED vars
    BY <1>3, StreamsStay DEF vars
  <1> QED BY <1>1, <1>2, <1>3 DEF Next

LEMMA StreamsInitially == Init => StreamInv
  BY NoStreamHolds DEF Init, StreamInv

LEMMA StreamsInvariant == Spec => []StreamInv
  BY StreamsInitially, StreamsInductive, Invariant, PTL DEF Spec

LEMMA HandedOver ==
  ASSUME NEW s, StreamHolds(s), NEW n,
         n = (IF s.at = "over" /\ s.buffer = <<>> THEN s.sent - Len(s.wire) + 2
              ELSE s.sent - Len(s.wire)) \div FrameLength
  PROVE  s.events = SubSeq(s.script, 1, n)
  <1>1. CASE s.at \notin {"reading", "over"}
    <2>1. Blank(s)
      BY <1>1 DEF StreamHolds
    <2>2. n = 0
      BY <1>1, <2>1 DEF Blank, FrameLength
    <2> QED BY <2>1, <2>2, EmptyFacts DEF Blank, Upto
  <1>2. CASE s.at \in {"reading", "over"}
    <2>1. PICK k \in Nat, r \in 0 .. 4 : Received(s, k, r)
      BY <1>2 DEF StreamHolds
    <2>2. /\ Covers(s.script, s.sent) /\ s.sent \in Nat /\ 5 * k + r <= s.sent /\ 5 * k + r \in Nat
          /\ s.wire = Piece(s.script, 5 * k + r, s.sent)
      BY <1>2, <2>1 DEF StreamHolds, Received, Covers
    <2>3. Len(s.wire) = s.sent - (5 * k + r)
      BY <2>2, PieceFacts
    <2>4. s.sent - Len(s.wire) = 5 * k + r
      BY <2>2, <2>3
    <2>5. CASE s.at = "reading"
      <3>1. n = (5 * k + r) \div 5
        BY <2>4, <2>5 DEF FrameLength
      <3>2. n = k
        BY <3>1
      <3> QED BY <2>1, <2>5, <3>2 DEF Received, Upto
    <2>6. CASE s.at = "over"
      <3>1. s.buffer = <<>> /\ s.events = Upto(s.script, IF r >= 3 THEN k + 1 ELSE k)
        BY <2>1, <2>6 DEF Received
      <3>2. n = (5 * k + r + 2) \div 5
        BY <2>4, <2>6, <3>1 DEF FrameLength
      <3>3. n = IF r >= 3 THEN k + 1 ELSE k
        BY <3>2
      <3> QED BY <3>1, <3>3 DEF Upto
    <2> QED BY <1>2, <2>5, <2>6
  <1> QED BY <1>1, <1>2

(* A read may end anywhere, and one read may bring several frames: what    *)
(* the page has been handed is always the frames whose third symbol, the   *)
(* end of the JSON, or whose blank line has come, neither one twice nor    *)
(* one left out nor two out of order (sse.ts:30-52).                       *)
THEOREM FramesComeOut == Spec => []FramesAsSent
  <1>1. StreamInv => FramesAsSent
    <2> SUFFICES ASSUME StreamInv, NEW q \in Queries
                 PROVE  LET s   == stream[q]
                            got == s.sent - Len(s.wire)
                            n   == (IF s.at = "over" /\ s.buffer = <<>> THEN got + 2 ELSE got)
                                     \div FrameLength
                        IN s.events = SubSeq(s.script, 1, n)
      BY DEF FramesAsSent
    <2>1. StreamHolds(stream[q])
      BY DEF StreamInv
    <2> DEFINE s == stream[q]
               n == (IF s.at = "over" /\ s.buffer = <<>> THEN s.sent - Len(s.wire) + 2
                     ELSE s.sent - Len(s.wire)) \div FrameLength
    <2>2. s.events = SubSeq(s.script, 1, n)
      <3> HIDE DEF s
      <3>1. StreamHolds(s)
        BY <2>1 DEF s
      <3>2. PICK m : m = n
        OBVIOUS
      <3>3. s.events = SubSeq(s.script, 1, m)
        <4>1. m = (IF s.at = "over" /\ s.buffer = <<>> THEN s.sent - Len(s.wire) + 2
                   ELSE s.sent - Len(s.wire)) \div FrameLength
          BY <3>2
        <4> HIDE <3>2
        <4> QED BY <3>1, <4>1, HandedOver
      <3> QED BY <3>2, <3>3
    <2> QED BY <2>2
  <1> QED BY <1>1, StreamsInvariant, PTL

-----------------------------------------------------------------------------
(* What is recorded *)

(* A history: newest first, within its limit, of questions up to the n-th. *)
Newest(h, n) ==
  /\ h \in Seq(Queries) /\ Len(h) <= HistoryLimit
  /\ \A i, j \in 1 .. Len(h) : i < j => h[i] > h[j]
  /\ \A i \in 1 .. Len(h) : h[i] <= n

LEMMA RememberedFacts ==
  ASSUME NEW q \in Queries, NEW n \in Nat, Newest(history, n), n < q
  PROVE  /\ Newest(Remembered(q), q)
         /\ Remembered(q) # <<>> /\ Head(Remembered(q)) = q
         /\ Range(Remembered(q)) \subseteq Range(history) \cup {q}
  <1> DEFINE x == <<q>>
             next == x \o history
             m == IF Len(next) < HistoryLimit THEN Len(next) ELSE HistoryLimit
             r == SubSeq(next, 1, m)
  <1>0. Queries \subseteq Nat /\ HistoryLimit \in Nat /\ HistoryLimit >= 1
    BY QueryFacts, QueryStreamAssumption
  <1>1. history \in Seq(Queries) /\ Len(history) \in Nat /\ Len(history) <= HistoryLimit
    BY LenProperties DEF Newest
  <1>2. x \in Seq(Queries) /\ Len(x) = 1 /\ x[1] = q
    OBVIOUS
  <1>3. \A i \in 1 .. Len(history) : history[i] \in Queries /\ history[i] < q
    <2>1. \A i \in 1 .. Len(history) : history[i] \in Queries /\ history[i] <= n
      BY <1>1, ElementOfSeq DEF Newest
    <2>2. \A y \in Queries : y <= n => y < q
      BY <1>0
    <2> QED BY <2>1, <2>2
  <1> HIDE DEF x
  <1>4. /\ next \in Seq(Queries) /\ Len(next) = 1 + Len(history)
        /\ \A i \in 1 .. 1 + Len(history) : next[i] = IF i <= 1 THEN x[i] ELSE history[i - 1]
    <2>1. /\ next \in Seq(Queries) /\ Len(next) = Len(x) + Len(history)
          /\ \A i \in 1 .. Len(x) + Len(history) :
               next[i] = IF i <= Len(x) THEN x[i] ELSE history[i - Len(x)]
      BY <1>1, <1>2, ConcatProperties
    <2> HIDE DEF next
    <2> QED BY <1>2, <2>1
  <1> HIDE DEF next
  <1>5. /\ next[1] = q
        /\ \A i \in 2 .. 1 + Len(history) :
             next[i] = history[i - 1] /\ i - 1 \in 1 .. Len(history)
    <2>1. 1 \in 1 .. 1 + Len(history)
      BY <1>1
    <2>2. ASSUME NEW i \in 2 .. 1 + Len(history)
          PROVE  next[i] = history[i - 1] /\ i - 1 \in 1 .. Len(history)
      <3>1. i \in 1 .. 1 + Len(history) /\ ~(i <= 1) /\ i - 1 \in 1 .. Len(history)
        BY <1>1
      <3> QED BY <1>4, <3>1
    <2> QED BY <1>2, <1>4, <2>1, <2>2
  <1>6. m \in Nat /\ 1 <= m /\ m <= Len(next) /\ m <= HistoryLimit
    BY <1>0, <1>1, <1>4
  <1> HIDE DEF m
  <1>7. /\ r \in Seq(Queries) /\ Len(r) = m /\ \A i \in 1 .. m : r[i] = next[i]
    <2>1. \A i \in 1 .. m : next[i] \in Queries
      BY <1>4, <1>6, ElementOfSeq
    <2>2. /\ r \in Seq(Queries) /\ Len(r) = IF 1 <= m THEN m - 1 + 1 ELSE 0
          /\ \A i \in 1 .. m - 1 + 1 : r[i] = next[1 + i - 1]
      BY <1>6, <2>1, SubSeqProperties
    <2> HIDE DEF r
    <2> QED BY <1>6, <2>2
  <1> HIDE DEF r
  <1>8. r[1] = q /\ r # <<>> /\ Head(r) = q
    BY <1>5, <1>6, <1>7
  <1>9. \A i \in 2 .. m : r[i] = history[i - 1] /\ i - 1 \in 1 .. Len(history)
    BY <1>1, <1>4, <1>5, <1>6, <1>7
  <1>10. ASSUME NEW i \in 1 .. m, NEW j \in 1 .. m, i < j PROVE r[i] > r[j]
    <2>1. j \in 2 .. m
      BY <1>6, <1>10
    <2>2. r[j] = history[j - 1] /\ j - 1 \in 1 .. Len(history)
      BY <1>9, <2>1
    <2>3. CASE i = 1
      BY <1>0, <1>3, <1>8, <2>2, <2>3
    <2>4. CASE i # 1
      <3>1. i \in 2 .. m /\ i - 1 < j - 1
        BY <1>10, <2>4
      <3>2. r[i] = history[i - 1] /\ i - 1 \in 1 .. Len(history)
        BY <1>9, <3>1
      <3>3. history[i - 1] > history[j - 1]
        BY <2>2, <3>1, <3>2 DEF Newest
      <3> QED BY <2>2, <3>2, <3>3
    <2> QED BY <2>3, <2>4
  <1>11. ASSUME NEW i \in 1 .. m PROVE r[i] <= q /\ r[i] \in Range(history) \cup {q}
    <2>1. CASE i = 1
      BY <1>0, <1>8, <2>1
    <2>2. CASE i # 1
      <3>1. i \in 2 .. m
        BY <2>2
      <3>2. r[i] = history[i - 1] /\ i - 1 \in 1 .. Len(history)
        BY <1>9, <3>1
      <3>3. r[i] \in Range(history)
        BY <1>1, <3>2 DEF Range
      <3>4. history[i - 1] \in Queries /\ history[i - 1] < q
        BY <1>3, <3>2
      <3>5. \A y \in Queries : y < q => y <= q
        BY <1>0
      <3> QED BY <3>2, <3>3, <3>4, <3>5
    <2> QED BY <2>1, <2>2
  <1>12. Range(r) \subseteq Range(history) \cup {q}
    BY <1>7, <1>11 DEF Range
  <1>13. Newest(r, q)
    BY <1>6, <1>7, <1>10, <1>11 DEF Newest
  <1>14. Remembered(q) = r
    BY DEF Remembered, r, m, next, x
  <1> QED BY <1>8, <1>12, <1>13, <1>14

LEMMA ForgottenFacts ==
  ASSUME NEW n \in Nat, Newest(history, n), NEW i \in DOMAIN history
  PROVE  Newest(RemoveAt(history, i), n) /\ Range(RemoveAt(history, i)) \subseteq Range(history)
  <1> DEFINE h == history
             a == SubSeq(h, 1, i - 1)
             b == SubSeq(h, i + 1, Len(h))
             r == a \o b
  <1>1. /\ h \in Seq(Queries) /\ Len(h) \in Nat /\ Len(h) <= HistoryLimit
        /\ i \in 1 .. Len(h) /\ DOMAIN h = 1 .. Len(h)
    BY LenProperties DEF Newest
  <1>2. \A k \in 1 .. Len(h) : h[k] \in Queries
    BY <1>1, ElementOfSeq
  <1>3. a \in Seq(Queries) /\ Len(a) = i - 1 /\ \A k \in 1 .. i - 1 : a[k] = h[k]
    <2>1. \A k \in 1 .. i - 1 : h[k] \in Queries
      BY <1>1, <1>2
    <2>2. i - 1 \in Nat
      BY <1>1
    <2>3. /\ a \in Seq(Queries) /\ Len(a) = IF 1 <= i - 1 THEN i - 1 - 1 + 1 ELSE 0
          /\ \A k \in 1 .. i - 1 - 1 + 1 : a[k] = h[1 + k - 1]
      <3>1. 1 \in Nat
        OBVIOUS
      <3> QED BY <2>1, <2>2, <3>1, SubSeqProperties
    <2> HIDE DEF a
    <2>4. \A k \in 1 .. i - 1 : k \in 1 .. i - 1 - 1 + 1 /\ 1 + k - 1 = k
      BY <2>2
    <2>5. Len(a) = i - 1
      BY <2>2, <2>3
    <2> QED BY <2>3, <2>4, <2>5
  <1>4. b \in Seq(Queries) /\ Len(b) = Len(h) - i /\ \A k \in 1 .. Len(h) - i : b[k] = h[i + k]
    <2>1. \A k \in i + 1 .. Len(h) : h[k] \in Queries
      BY <1>1, <1>2
    <2>2. i + 1 \in Nat
      BY <1>1
    <2>3. /\ b \in Seq(Queries) /\ Len(b) = IF i + 1 <= Len(h) THEN Len(h) - (i + 1) + 1 ELSE 0
          /\ \A k \in 1 .. Len(h) - (i + 1) + 1 : b[k] = h[i + 1 + k - 1]
      BY <1>1, <2>1, <2>2, SubSeqProperties
    <2> HIDE DEF b
    <2>4. \A k \in 1 .. Len(h) - i : k \in 1 .. Len(h) - (i + 1) + 1 /\ i + 1 + k - 1 = i + k
      BY <1>1
    <2>5. Len(b) = Len(h) - i
      BY <1>1, <2>3
    <2> QED BY <2>3, <2>4, <2>5
  <1> HIDE DEF a, b
  <1>5. /\ r \in Seq(Queries) /\ Len(r) = Len(h) - 1
        /\ \A k \in 1 .. Len(h) - 1 : r[k] = IF k <= i - 1 THEN a[k] ELSE b[k - (i - 1)]
    <2>1. /\ r \in Seq(Queries) /\ Len(r) = Len(a) + Len(b)
          /\ \A k \in 1 .. Len(a) + Len(b) : r[k] = IF k <= Len(a) THEN a[k] ELSE b[k - Len(a)]
      BY <1>3, <1>4, ConcatProperties
    <2> HIDE DEF r
    <2>2. Len(a) + Len(b) = Len(h) - 1
      BY <1>1, <1>3, <1>4
    <2> QED BY <1>3, <2>1, <2>2
  <1> HIDE DEF r
  <1>6. \A k \in 1 .. Len(h) - 1 : r[k] = h[IF k < i THEN k ELSE k + 1]
    <2> SUFFICES ASSUME NEW k \in 1 .. Len(h) - 1 PROVE r[k] = h[IF k < i THEN k ELSE k + 1]
      OBVIOUS
    <2>1. CASE k < i
      <3>1. k \in 1 .. i - 1 /\ k <= i - 1
        BY <1>1, <2>1
      <3> QED BY <1>3, <1>5, <2>1, <3>1
    <2>2. CASE ~(k < i)
      <3>1. k - (i - 1) \in 1 .. Len(h) - i /\ i + (k - (i - 1)) = k + 1 /\ ~(k <= i - 1)
        BY <1>1, <2>2
      <3> QED BY <1>4, <1>5, <2>2, <3>1
    <2> QED BY <2>1, <2>2
  <1>7. ASSUME NEW k \in 1 .. Len(h) - 1
        PROVE (IF k < i THEN k ELSE k + 1) \in 1 .. Len(h)
    BY <1>1
  <1>8. Newest(r, n)
    <2>1. ASSUME NEW k \in 1 .. Len(r), NEW j \in 1 .. Len(r), k < j PROVE r[k] > r[j]
      <3> DEFINE x == IF k < i THEN k ELSE k + 1
                 y == IF j < i THEN j ELSE j + 1
      <3>1. x \in 1 .. Len(h) /\ y \in 1 .. Len(h) /\ r[k] = h[x] /\ r[j] = h[y]
        BY <1>5, <1>6, <1>7
      <3>2. x < y
        BY <1>1, <1>5, <2>1
      <3> HIDE DEF x, y
      <3> QED BY <3>1, <3>2 DEF Newest
    <2>2. ASSUME NEW k \in 1 .. Len(r) PROVE r[k] <= n
      BY <1>5, <1>6, <1>7 DEF Newest
    <2>3. Len(r) <= HistoryLimit
      BY <1>1, <1>5, QueryStreamAssumption
    <2> QED BY <1>5, <2>1, <2>2, <2>3 DEF Newest
  <1>9. Range(r) \subseteq Range(h)
    <2> SUFFICES ASSUME NEW k \in DOMAIN r PROVE r[k] \in Range(h)
      BY DEF Range
    <2>1. k \in 1 .. Len(h) - 1
      BY <1>5
    <2> QED BY <1>1, <1>6, <1>7, <2>1 DEF Range
  <1>10. RemoveAt(h, i) = r
    BY DEF RemoveAt, r, a, b
  <1> HIDE DEF h
  <1> QED BY <1>8, <1>9, <1>10 DEF h

(* A stream that has handed over its last frame.                           *)
Ended(s) == s.events # <<>> /\ s.events[Len(s.events)] \in Final

(* A question whose stream has nothing more to say to the page.            *)
Quiet(q) == stream[q].at \notin Active \/ q \in aborted \/ Ended(stream[q])

PhaseInv ==
  /\ hook.phase = "idle" /\ current # None => current \in aborted
  /\ hook.phase \in {"done", "error"} => Quiet(current)
  /\ ~streaming => hook.phase \in {"idle", "done", "error"}
  /\ current \in {None, asked} \/ Quiet(current)
  /\ current # None => stream[current].at # "none"

CallInv ==
  /\ call.status = "pending" => /\ ~streaming /\ mounted /\ call.of = asked
                                /\ call.of \notin Range(history) /\ call.of \notin aborted
  /\ call.of \in unsettled => call.status = "pending"

AwayInv == ~mounted => /\ hook = Idle /\ current = None /\ call = NoCall /\ seen = None
                       /\ streaming

SeenInv ==
  /\ seen <= asked
  /\ EffectDue => current = asked
  /\ current # None /\ current \in Range(history) => seen = current
  /\ mounted /\ seen # None /\ seen = asked => history # <<>> /\ Head(history) = asked

StoredInv ==
  /\ Newest(history, asked)
  /\ \A q \in Range(history) \cap aborted : stream[q].at # "none"

HistInv == PhaseInv /\ CallInv /\ AwayInv /\ SeenInv /\ StoredInv

LEMMA HistInitially == Init => HistInv
  <1> SUFFICES ASSUME Init PROVE HistInv
    OBVIOUS
  <1>1. history = <<>> /\ asked = 0 /\ current = None /\ hook = Idle /\ call = NoCall
        /\ unsettled = {} /\ streaming = TRUE /\ mounted = TRUE /\ seen = None /\ None = 0
    BY DEF Init, None
  <1>2. Range(<<>>) = {}
    BY DEF Range
  <1>3. Newest(<<>>, 0)
    <2>1. <<>> \in Seq(Queries) /\ Len(<<>>) = 0
      BY EmptySeq
    <2> QED BY <2>1, QueryStreamAssumption DEF Newest
  <1>4. StoredInv
    BY <1>1, <1>2, <1>3 DEF StoredInv
  <1>5. PhaseInv /\ CallInv /\ AwayInv /\ SeenInv
    BY <1>1, <1>2, IdleFacts DEF PhaseInv, CallInv, AwayInv, SeenInv, EffectDue
  <1> QED BY <1>4, <1>5 DEF HistInv

(* What the types say that the next lemmas keep needing.                   *)
LEMMA HistFacts ==
  ASSUME PageInv, HistInv
  PROVE  /\ asked \in Nat /\ current \in Nat /\ seen \in Nat /\ call.of \in Nat
         /\ current <= asked /\ call.of <= asked /\ seen <= asked
         /\ hook \in HookType /\ hook.result \in {None, current}
         /\ history \in Seq(Queries)
         /\ \A q \in Range(history) : q \in Queries /\ q <= asked
         /\ \A q \in aborted : q <= asked
  <1>1. /\ asked \in Nat /\ current \in Nat /\ seen \in Nat /\ call.of \in Nat
        /\ hook \in HookType
    BY QueryFacts DEF PageInv, TypeOK, HookType, Phases, None, Queries
  <1>2. history \in Seq(Queries) /\ \A i \in 1 .. Len(history) : history[i] <= asked
    BY DEF HistInv, StoredInv, Newest
  <1>3. \A q \in Range(history) : q \in Queries /\ q <= asked
    <2> SUFFICES ASSUME NEW i \in DOMAIN history
                 PROVE  history[i] \in Queries /\ history[i] <= asked
      BY DEF Range
    <2>1. i \in 1 .. Len(history)
      BY <1>2
    <2> QED BY <1>2, <2>1, ElementOfSeq
  <1> QED BY <1>1, <1>2, <1>3 DEF PageInv, HistInv, SeenInv, OnlyTheLatest

LEMMA QuietStays ==
  ASSUME NEW q, Quiet(q), stream'[q] = stream[q], aborted \subseteq aborted'
  PROVE  Quiet(q)'
  BY DEF Quiet

LEMMA StartRecords ==
  ASSUME PageInv, HistInv, Start
  PROVE  HistInv'
  <1> DEFINE new == asked + 1
  <1>1. /\ new \in Queries /\ asked' = new /\ current' = new /\ new # None
        /\ aborted' = aborted \cup ({current} \ {None})
        /\ mounted /\ streaming /\ ~EffectDue
        /\ UNCHANGED <<call, unsettled, streaming, mounted, seen, history>>
    BY QueryFacts DEF Start, PageInv, TypeOK, Queries, UserActs
  <1>2. hook'.phase = "connecting" /\ hook'.result = None
    BY IdleFacts DEF Start, HookType, Phases
  <1>3. /\ asked \in Nat /\ seen \in Nat /\ call.of \in Nat /\ call.of <= asked /\ seen <= asked
        /\ \A q \in Range(history) : q \in Queries /\ q <= asked
        /\ current <= asked /\ current \in Nat
        /\ \A q \in aborted : q <= asked
    BY HistFacts
  <1>4. new \notin Range(history) /\ seen # new /\ seen <= new
    BY <1>3
  <1>5. stream'[new].at = "opening"
    <2>1. stream'[new] = [NoStream EXCEPT !.at = "opening"]
      BY <1>1 DEF Start
    <2> QED BY <2>1, StreamFacts
  <1>6. PhaseInv'
    BY <1>1, <1>2, <1>5 DEF PhaseInv
  <1>7. CallInv'
    BY <1>1 DEF CallInv, HistInv
  <1>8. AwayInv'
    BY <1>1 DEF AwayInv
  <1>9. SeenInv'
    BY <1>1, <1>2, <1>4 DEF SeenInv, EffectDue
  <1>10. ASSUME NEW q \in Range(history), q \in aborted' PROVE stream'[q].at # "none"
    <2>1. q \in Queries /\ q # new /\ stream[q].at # "none"
      <3>1. q \in aborted \/ (q = current /\ current # None)
        BY <1>1, <1>10
      <3> QED BY <1>3, <1>4, <3>1, QueryFacts DEF HistInv, StoredInv, PhaseInv
    <2>2. CASE stream[q].at = "over"
      <3>1. stream'[q] = Gone
        BY <2>1, <2>2 DEF Start
      <3> QED BY <3>1, StreamFacts
    <2>3. CASE stream[q].at # "over"
      <3>1. stream'[q] = Superseded(q)
        BY <2>1, <2>3 DEF Start
      <3> QED BY <2>1, <3>1, SeveredPlace DEF Superseded
    <2> QED BY <2>2, <2>3
  <1>11. Newest(history, new)
    <2>1. \A x \in Nat : x <= asked => x <= new
      BY <1>3
    <2>2. \A i \in 1 .. Len(history) : history[i] \in Nat
      BY HistFacts, ElementOfSeq, QueryFacts
    <2> QED BY <2>1, <2>2 DEF HistInv, StoredInv, Newest
  <1>12. StoredInv'
    <2>1. Newest(history, asked)'
      BY <1>1, <1>11 DEF Newest
    <2> QED BY <1>1, <1>10, <2>1 DEF StoredInv
  <1> QED BY <1>6, <1>7, <1>8, <1>9, <1>12 DEF HistInv

LEMMA NewestMore ==
  ASSUME PageInv, HistInv, NEW n \in Nat, asked <= n
  PROVE  Newest(history, n)
  <1>1. asked \in Nat /\ \A i \in 1 .. Len(history) : history[i] \in Nat
    BY HistFacts, ElementOfSeq, QueryFacts
  <1>2. \A x \in Nat : x <= asked => x <= n
    BY <1>1
  <1> QED BY <1>1, <1>2 DEF HistInv, StoredInv, Newest

LEMMA MutateRecords ==
  ASSUME PageInv, HistInv, Mutate
  PROVE  HistInv'
  <1> DEFINE new == asked + 1
  <1>1. /\ new \in Queries /\ asked' = new /\ new # None
        /\ call' = [status |-> "pending", of |-> new] /\ unsettled' = unsettled \cup {new}
        /\ mounted /\ ~streaming /\ ~EffectDue
        /\ UNCHANGED <<stream, aborted, current, hook, streaming, mounted, seen, history>>
    BY QueryFacts DEF Mutate, PageInv, TypeOK, Queries, UserActs
  <1>2. /\ asked \in Nat /\ seen \in Nat /\ current \in Nat /\ current <= asked /\ seen <= asked
        /\ \A q \in Range(history) : q <= asked
        /\ \A q \in aborted : q <= asked
    BY HistFacts
  <1>3. new \notin Range(history) /\ new \notin aborted /\ seen # new /\ seen <= new /\ current # new
        /\ new \in Nat /\ asked <= new
    BY <1>2
  <1>4. current = None \/ Quiet(current)
    BY <1>1 DEF HistInv, PhaseInv, Quiet
  <1>5. PhaseInv'
    BY <1>1, <1>4 DEF PhaseInv, Quiet, HistInv
  <1>6. CallInv'
    BY <1>1, <1>3 DEF CallInv
  <1>7. AwayInv'
    BY <1>1 DEF AwayInv
  <1>8. SeenInv'
    BY <1>1, <1>3 DEF SeenInv, EffectDue, HistInv
  <1>9. StoredInv'
    <2>1. Newest(history, new)
      BY <1>3, NewestMore
    <2>2. Newest(history, asked)'
      BY <1>1, <2>1 DEF Newest
    <2> QED BY <1>1, <2>2 DEF StoredInv, HistInv
  <1> QED BY <1>5, <1>6, <1>7, <1>8, <1>9 DEF HistInv

LEMMA CancelRecords ==
  ASSUME PageInv, HistInv, Cancel
  PROVE  HistInv'
  <1>1. /\ UNCHANGED <<asked, current, unsettled, streaming, mounted, seen, history>> /\ mounted
        /\ ~EffectDue
    BY DEF Cancel, UserActs
  <1>2. CASE streaming
    <2>1. /\ aborted' = aborted \cup {current} /\ hook' = [hook EXCEPT !.phase = "idle"]
          /\ stream' = [stream EXCEPT ![current] = Severed(current)] /\ UNCHANGED call
          /\ hook.phase # "idle" /\ current \in Queries
      BY <1>2 DEF Cancel, Busy, PageInv, TypeOK
    <2>2. hook'.phase = "idle" /\ hook'.result = hook.result
      BY <2>1, HistFacts DEF HookType
    <2>3. \A q \in Queries : stream'[q].at = stream[q].at
      BY <2>1, SeveredPlace DEF PageInv, TypeOK
    <2>4. PhaseInv'
      <3>1. Quiet(current)'
        BY <1>1, <2>1 DEF Quiet
      <3> QED BY <1>1, <2>1, <2>2, <2>3, <3>1 DEF PhaseInv, HistInv
    <2>5. CallInv'
      BY <1>1, <1>2, <2>1 DEF CallInv, HistInv
    <2>6. AwayInv'
      BY <1>1 DEF AwayInv
    <2>7. SeenInv'
      BY <1>1, <2>2 DEF SeenInv, EffectDue, HistInv
    <2>8. StoredInv'
      <3>1. Newest(history, asked)'
        BY <1>1 DEF Newest, StoredInv, HistInv
      <3>2. \A q \in Range(history) : q \in Queries
        BY HistFacts
      <3> QED BY <1>1, <2>1, <2>3, <3>1, <3>2, QueryFacts DEF StoredInv, PhaseInv, HistInv
    <2> QED BY <2>4, <2>5, <2>6, <2>7, <2>8 DEF HistInv
  <1>3. CASE ~streaming
    <2>1. /\ aborted' = aborted \cup {call.of} /\ call' = NoCall /\ UNCHANGED <<hook, stream>>
          /\ call.status = "pending"
      BY <1>3 DEF Cancel, Busy
    <2>2. call.of \notin Range(history) /\ call.of # current
      BY <2>1 DEF HistInv, CallInv, PageInv
    <2>3. PhaseInv'
      BY <1>1, <2>1, <2>2 DEF PhaseInv, Quiet, HistInv
    <2>4. CallInv'
      <3>1. None \notin unsettled
        BY QueryFacts DEF PageInv, TypeOK
      <3> QED BY <1>1, <2>1, <3>1, IdleFacts DEF CallInv
    <2>5. AwayInv'
      BY <1>1 DEF AwayInv
    <2>6. SeenInv'
      BY <1>1, <2>1 DEF SeenInv, EffectDue, HistInv
    <2>7. StoredInv'
      <3>1. Newest(history, asked)'
        BY <1>1 DEF Newest, StoredInv, HistInv
      <3> QED BY <1>1, <2>1, <2>2, <3>1 DEF StoredInv, HistInv
    <2> QED BY <2>3, <2>4, <2>5, <2>6, <2>7 DEF HistInv
  <1> QED BY <1>2, <1>3

LEMMA ToggleRecords ==
  ASSUME PageInv, HistInv, Toggle
  PROVE  HistInv'
  <1>1. /\ UNCHANGED <<asked, stream, aborted, current, hook, call, unsettled, mounted, seen, history>>
        /\ streaming' = ~streaming /\ mounted /\ ~Busy /\ streaming \in BOOLEAN
    BY DEF Toggle, PageInv, TypeOK
  <1>2. streaming => hook.phase \in {"idle", "done", "error"}
    BY <1>1, HistFacts DEF Busy, HookType, Phases
  <1>3. ~streaming => call.status # "pending"
    BY <1>1 DEF Busy
  <1>4. PhaseInv'
    BY <1>1, <1>2 DEF PhaseInv, Quiet, HistInv
  <1>5. CallInv'
    BY <1>1, <1>3 DEF CallInv, HistInv
  <1>6. AwayInv'
    BY <1>1 DEF AwayInv
  <1>7. SeenInv' /\ StoredInv'
    BY <1>1 DEF SeenInv, EffectDue, StoredInv, Newest, HistInv
  <1> QED BY <1>4, <1>5, <1>6, <1>7 DEF HistInv

LEMMA LeaveRecords ==
  ASSUME PageInv, HistInv, Leave
  PROVE  HistInv'
  <1>1. /\ hook' = Idle /\ call' = NoCall /\ current' = None /\ seen' = None
        /\ streaming' = TRUE /\ mounted' = FALSE
        /\ UNCHANGED <<asked, aborted, unsettled, history>>
    BY DEF Leave
  <1>2. ASSUME NEW q \in Queries, stream[q].at # "none" PROVE stream'[q].at # "none"
    <2>1. stream'[q] \in {Gone, [NoStream EXCEPT !.at = "orphan"]}
      BY <1>2 DEF Leave
    <2> QED BY <2>1, StreamFacts
  <1>3. PhaseInv'
    BY <1>1, IdleFacts DEF PhaseInv
  <1>4. CallInv'
    <2>1. None \notin unsettled
      BY QueryFacts DEF PageInv, TypeOK
    <2> QED BY <1>1, <2>1, IdleFacts DEF CallInv
  <1>5. AwayInv'
    BY <1>1 DEF AwayInv
  <1>6. SeenInv'
    BY <1>1, HistFacts, QueryFacts, IdleFacts DEF SeenInv, EffectDue
  <1>7. StoredInv'
    <2>1. Newest(history, asked)'
      BY <1>1 DEF Newest, StoredInv, HistInv
    <2>2. \A q \in Range(history) : q \in Queries
      BY HistFacts
    <2> QED BY <1>1, <1>2, <2>1, <2>2 DEF StoredInv, HistInv
  <1> QED BY <1>3, <1>4, <1>5, <1>6, <1>7 DEF HistInv

LEMMA ReturnRecords ==
  ASSUME PageInv, HistInv, Return
  PROVE  HistInv'
  <1>1. /\ UNCHANGED <<asked, stream, aborted, current, hook, call, unsettled, streaming, seen, history>>
        /\ mounted' = TRUE /\ hook = Idle /\ current = None /\ call = NoCall /\ seen = None
    BY DEF Return, HistInv, AwayInv
  <1>2. PhaseInv' /\ AwayInv'
    BY <1>1, IdleFacts DEF PhaseInv, AwayInv
  <1>3. CallInv'
    <2>1. None \notin unsettled
      BY QueryFacts DEF PageInv, TypeOK
    <2> QED BY <1>1, <2>1, IdleFacts DEF CallInv
  <1>4. SeenInv'
    BY <1>1, IdleFacts DEF SeenInv, EffectDue, HistInv
  <1>5. StoredInv'
    BY <1>1 DEF StoredInv, Newest, HistInv
  <1> QED BY <1>2, <1>3, <1>4, <1>5 DEF HistInv

LEMMA ForgetRecords ==
  ASSUME PageInv, HistInv, Forget
  PROVE  HistInv'
  <1>1. /\ UNCHANGED <<asked, stream, aborted, current, hook, call, unsettled, streaming, mounted, seen>>
        /\ ~mounted /\ hook = Idle /\ current = None /\ call = NoCall /\ seen = None /\ streaming
    BY DEF Forget, HistInv, AwayInv
  <1>2. Newest(history, asked) /\ asked \in Nat
    BY HistFacts DEF HistInv, StoredInv
  <1>3. Newest(history', asked) /\ Range(history') \subseteq Range(history)
    <2>1. CASE \E i \in DOMAIN history : history' = RemoveAt(history, i)
      BY <1>2, <2>1, ForgottenFacts
    <2>2. CASE history' = <<>>
      <3>1. <<>> \in Seq(Queries) /\ Len(<<>>) = 0 /\ DOMAIN <<>> = {}
        BY EmptySeq
      <3> QED BY <2>2, <3>1, QueryStreamAssumption DEF Newest, Range
    <2> QED BY <2>1, <2>2 DEF Forget
  <1>4. PhaseInv' /\ AwayInv'
    BY <1>1, IdleFacts DEF PhaseInv, AwayInv
  <1>5. CallInv'
    BY <1>1, IdleFacts DEF CallInv, HistInv
  <1>6. SeenInv'
    BY <1>1, IdleFacts DEF SeenInv, EffectDue, HistInv
  <1>7. StoredInv'
    <2>1. Newest(history, asked)'
      BY <1>1, <1>3 DEF Newest
    <2> QED BY <1>1, <1>3, <2>1 DEF StoredInv, HistInv
  <1> QED BY <1>4, <1>5, <1>6, <1>7 DEF HistInv

LEMMA NewestLess ==
  ASSUME PageInv, HistInv, asked \in Queries, asked \notin Range(history)
  PROVE  /\ asked - 1 \in Nat /\ asked - 1 < asked
         /\ Newest(history, asked - 1)
  <1>1. asked - 1 \in Nat /\ asked - 1 < asked /\ asked \in Nat
    BY QueryFacts
  <1>2. \A i \in 1 .. Len(history) : history[i] \in Nat /\ history[i] <= asked
    BY HistFacts, ElementOfSeq, QueryFacts DEF HistInv, StoredInv, Newest
  <1>3. \A i \in 1 .. Len(history) : history[i] # asked
    BY HistFacts DEF Range
  <1>4. \A x \in Nat : x <= asked /\ x # asked => x <= asked - 1
    BY <1>1
  <1> QED BY <1>1, <1>2, <1>3, <1>4 DEF HistInv, StoredInv, Newest

LEMMA RecordRecords ==
  ASSUME PageInv, HistInv, Record
  PROVE  HistInv'
  <1>1. /\ EffectDue /\ mounted /\ hook.result # None /\ hook.result # seen
        /\ seen' = hook.result /\ history' = Remembered(hook.result)
        /\ UNCHANGED <<asked, stream, aborted, current, hook, call, unsettled, streaming, mounted>>
    BY DEF Record, EffectDue
  <1>2. hook.result = current /\ current = asked /\ current # None /\ asked \in Queries
    BY <1>1, HistFacts DEF HistInv, SeenInv, PageInv, TypeOK
  <1>3. asked \notin Range(history)
    BY <1>1, <1>2 DEF HistInv, SeenInv
  <1>4. /\ Newest(history', asked) /\ history' # <<>> /\ Head(history') = asked
        /\ Range(history') \subseteq Range(history) \cup {asked}
    BY <1>1, <1>2, <1>3, NewestLess, RememberedFacts
  <1>5. call.status # "pending"
    BY <1>2 DEF HistInv, CallInv, PageInv
  <1>6. PhaseInv' /\ AwayInv'
    BY <1>1 DEF HistInv, PhaseInv, Quiet, AwayInv
  <1>7. CallInv'
    BY <1>1, <1>5 DEF CallInv, HistInv
  <1>8. SeenInv'
    <2>1. asked <= asked
      BY HistFacts
    <2> QED BY <1>1, <1>2, <1>4, <2>1 DEF SeenInv, EffectDue
  <1>9. StoredInv'
    <2>1. Newest(history, asked)'
      BY <1>1, <1>4 DEF Newest
    <2>2. stream[asked].at # "none"
      BY <1>2 DEF HistInv, PhaseInv
    <2> QED BY <1>1, <1>4, <2>1, <2>2 DEF StoredInv, HistInv
  <1> QED BY <1>6, <1>7, <1>8, <1>9 DEF HistInv

LEMMA SettleRecords ==
  ASSUME PageInv, HistInv, NEW q \in Queries, Settle(q)
  PROVE  HistInv'
  <1>1. /\ q \in unsettled /\ unsettled' = unsettled \ {q}
        /\ UNCHANGED <<asked, stream, aborted, current, hook, streaming, mounted, seen>>
    BY DEF Settle
  <1>2. PhaseInv'
    BY <1>1 DEF HistInv, PhaseInv, Quiet
  <1>3. CASE call.of # q
    <2>1. UNCHANGED <<call, history>>
      BY <1>3 DEF Settle
    <2> QED BY <1>1, <1>2, <2>1
            DEF HistInv, CallInv, AwayInv, SeenInv, EffectDue, StoredInv, Newest
  <1>4. CASE call.of = q
    <2>1. /\ call.status = "pending" /\ ~streaming /\ mounted /\ q = asked
          /\ q \notin Range(history) /\ q \notin aborted
      BY <1>1, <1>4 DEF HistInv, CallInv
    <2>2. /\ call'.of = q /\ call'.status # "pending"
          /\ history' \in {Remembered(q), history}
      BY <1>4 DEF Settle, PageInv, TypeOK
    <2>3. /\ Newest(Remembered(q), asked) /\ Remembered(q) # <<>> /\ Head(Remembered(q)) = asked
          /\ Range(Remembered(q)) \subseteq Range(history) \cup {q}
      BY <2>1, NewestLess, RememberedFacts
    <2>4. q # current
      BY <1>4, QueryFacts DEF PageInv
    <2>5. CallInv'
      BY <1>1, <2>2 DEF CallInv
    <2>6. AwayInv'
      BY <1>1, <2>1 DEF AwayInv
    <2>7. SeenInv'
      BY <1>1, <2>1, <2>2, <2>3, <2>4 DEF HistInv, SeenInv, EffectDue
    <2>8. StoredInv'
      <3>1. Newest(history', asked)
        BY <2>2, <2>3 DEF HistInv, StoredInv
      <3>2. Newest(history, asked)'
        BY <1>1, <3>1 DEF Newest
      <3> QED BY <1>1, <2>1, <2>2, <2>3, <3>2 DEF HistInv, StoredInv
    <2> QED BY <1>2, <2>5, <2>6, <2>7, <2>8 DEF HistInv
  <1> QED BY <1>3, <1>4

(* What a step of a generator may do to the page.                          *)
Says(q, s) ==
  \/ /\ UNCHANGED hook
     /\ Quiet(q) => q \in aborted \/ s.at \notin Active \/ Ended(s)
  \/ /\ q = current /\ q \notin aborted /\ ~Quiet(q)
     /\ hook'.result \in {hook.result, q} /\ hook'.phase \in Phases \ {"idle"}
     /\ hook'.phase \in {"done", "error"} => s.at \notin Active \/ Ended(s)
  \/ /\ q = current /\ q \notin aborted /\ s.at \notin Active
     /\ hook'.result = hook.result /\ hook'.phase = "error"

LEMMA GeneratorRecords ==
  ASSUME PageInv, HistInv, NEW q \in Queries, NEW s, stream[q].at # "none", s.at # "none",
         stream' = [stream EXCEPT ![q] = s], UNCHANGED others, Says(q, s)
  PROVE  HistInv'
  <1>1. UNCHANGED <<asked, aborted, current, call, unsettled, streaming, mounted, seen, history>>
    BY DEF others
  <1>2. stream'[q] = s /\ \A p \in Queries \ {q} : stream'[p] = stream[p]
    BY DEF PageInv, TypeOK
  <1>3. ASSUME NEW p \in Queries, Quiet(p) PROVE Quiet(p)'
    <2>1. CASE p = q
      <3>1. q \in aborted \/ s.at \notin Active \/ Ended(s)
        BY <1>3, <2>1 DEF Says
      <3> QED BY <1>1, <1>2, <2>1, <3>1 DEF Quiet, Ended
    <2>2. CASE p # q
      BY <1>1, <1>2, <1>3, <2>2 DEF Quiet, Ended
    <2> QED BY <2>1, <2>2
  <1>4. current \in Queries \cup {None} /\ (hook.phase # "idle" => current # None)
    BY DEF PageInv, TypeOK
  <1>5. CASE UNCHANGED hook
    <2>1. PhaseInv'
      BY <1>1, <1>2, <1>3, <1>4, <1>5 DEF HistInv, PhaseInv
    <2>2. StoredInv'
      <3>1. Newest(history, asked)'
        BY <1>1 DEF Newest, StoredInv, HistInv
      <3>2. \A p \in Range(history) : p \in Queries
        BY HistFacts
      <3> QED BY <1>1, <1>2, <3>1, <3>2 DEF HistInv, StoredInv
    <2> QED BY <1>1, <1>5, <2>1, <2>2 DEF HistInv, CallInv, AwayInv, SeenInv, EffectDue
  <1>6. CASE ~UNCHANGED hook
    <2>1. /\ q = current /\ q \notin aborted /\ current # None
          /\ hook'.phase # "idle" /\ hook'.phase \in Phases
          /\ hook'.result \in {hook.result, q}
          /\ hook'.phase \in {"done", "error"} => s.at \notin Active \/ Ended(s)
      BY <1>6, QueryFacts DEF Says, Phases
    <2>2. hook'.result # hook.result \/ hook'.phase # "error" => ~Quiet(q)
      BY <1>6 DEF Says
    <2>3. mounted
      BY <2>1 DEF HistInv, AwayInv
    <2>4. ~streaming => Quiet(q)
      BY <2>1 DEF HistInv, PhaseInv
    <2>5. PhaseInv'
      <3>1. hook'.phase \in {"done", "error"} => Quiet(current)'
        BY <1>1, <1>2, <2>1 DEF Quiet, Ended
      <3>2. ~streaming' => hook'.phase \in {"idle", "done", "error"}
        BY <1>1, <2>2, <2>4
      <3>3. current' \in {None, asked'} \/ Quiet(current)'
        BY <1>1, <1>3, <2>1 DEF HistInv, PhaseInv
      <3> QED BY <1>1, <1>2, <2>1, <3>1, <3>2, <3>3 DEF PhaseInv
    <2>6. EffectDue' => current = asked
      <3>1. CASE hook'.result = hook.result
        BY <1>1, <3>1 DEF EffectDue, HistInv, SeenInv
      <3>2. CASE hook'.result # hook.result
        BY <2>1, <2>2, <3>2 DEF HistInv, PhaseInv
      <3> QED BY <3>1, <3>2
    <2>7. SeenInv'
      BY <1>1, <2>6 DEF HistInv, SeenInv
    <2>8. StoredInv'
      <3>1. Newest(history, asked)'
        BY <1>1 DEF Newest, StoredInv, HistInv
      <3>2. \A p \in Range(history) : p \in Queries
        BY HistFacts
      <3> QED BY <1>1, <1>2, <3>1, <3>2 DEF HistInv, StoredInv
    <2> QED BY <1>1, <2>3, <2>5, <2>7, <2>8 DEF HistInv, CallInv, AwayInv
  <1> QED BY <1>5, <1>6

(* The frames of a read, and what the page makes of them.                  *)
LEMMA FramesSay ==
  ASSUME NEW q \in Queries, hook \in HookType,
         NEW script \in Seq(Names), NEW k \in Nat, NEW p \in Nat, k + p <= Len(script)
  PROVE  LET new == AfterFrames(q, Frames(script, k, p)) IN
         /\ p = 0 => new = hook
         /\ new.result \in {hook.result, q}
         /\ p > 0 => /\ new.phase \in Phases \ {"idle"}
                     /\ new.phase \in {"done", "error"} => script[k + p] \in Final
  <1> DEFINE f == Frames(script, k, p)
             new == AfterFrames(q, f)
  <1>1. /\ f \in Seq(ParsedFrame) /\ Len(f) = p /\ DOMAIN f = 1 .. p
        /\ \A i \in 1 .. p : f[i] = Whole(script[k + i])
    BY FramesFacts
  <1> HIDE DEF f
  <1>2. new.result \in {hook.result, q}
    BY DEF AfterFrames
  <1>3. ASSUME p = 0 PROVE new = hook
    <2>1. f = <<>>
      BY <1>1, <1>3, EmptySeq
    <2>2. ~Has(f, "verification") /\ ~Has(f, "error")
      BY <1>1, <1>3 DEF Has
    <2>3. new = [phase |-> hook.phase, result |-> hook.result, error |-> hook.error]
      BY <2>1, <2>2, Zenon DEF AfterFrames
    <2> QED BY <2>3 DEF HookType
  <1>4. ASSUME p > 0
        PROVE  /\ new.phase \in Phases \ {"idle"}
               /\ new.phase \in {"done", "error"} => script[k + p] \in Final
    <2>1. f # <<>>
      BY <1>1, <1>4, EmptySeq
    <2>2. ASSUME NEW name, EndsIn(f, name) PROVE script[k + p] = name
      <3>1. PICK i \in 1 .. p : f[i].event = name /\ \A j \in 1 .. p : j <= i
        BY <1>1, <2>2 DEF EndsIn
      <3>2. i = p
        BY <1>4, <3>1
      <3> QED BY <1>1, <3>1, <3>2 DEF Whole
    <2>3. new.phase = CASE EndsIn(f, "done")  -> "done"
                        [] EndsIn(f, "error") -> "error"
                        [] OTHER -> "streaming"
      BY <2>1 DEF AfterFrames
    <2>4. \/ new.phase = "done" /\ EndsIn(f, "done")
          \/ new.phase = "error" /\ EndsIn(f, "error")
          \/ new.phase = "streaming"
      BY <2>3
    <2> QED BY <2>2, <2>4 DEF Phases, Final
  <1> QED BY <1>2, <1>3, <1>4 DEF f

LEMMA EndedIs ==
  ASSUME NEW s, NEW script \in Seq(Names), NEW k \in Nat, k <= Len(script),
         s.events = Upto(script, k)
  PROVE  Ended(s) <=> k > 0 /\ script[k] \in Final
  <1>1. s.events \in Seq(Names) /\ Len(s.events) = k /\ \A i \in 1 .. k : s.events[i] = script[i]
    BY UptoFacts
  <1>2. k > 0 => s.events # <<>> /\ s.events[k] = script[k]
    BY <1>1, EmptySeq
  <1>3. k = 0 => s.events = <<>>
    BY <1>1, EmptySeq
  <1> QED BY <1>1, <1>2, <1>3 DEF Ended

LEMMA ReadSays ==
  ASSUME PageInv, HistInv, StreamInv, NEW q \in Queries, Read(q)
  PROVE  HistInv'
  <1>0. PICK k \in Nat, r \in 0 .. 4, p \in Nat : \E s : ReadForm(q, k, r, p, s)
    BY ReadDoes
  <1>1. PICK s : ReadForm(q, k, r, p, s)
    BY <1>0
  <1> DEFINE script == stream[q].script
  <1>2. /\ stream[q].at = "reading" /\ q \notin aborted /\ k + p <= Len(script)
        /\ stream[q].events = Upto(script, k)
        /\ s.at = "reading" /\ s.events = Upto(script, k + p)
        /\ stream' = [stream EXCEPT ![q] = s] /\ UNCHANGED others
        /\ hook' = AfterFrames(q, Frames(script, k, p))
        /\ k + p \in Nat
    BY <1>1 DEF ReadForm, Received
  <1>3. script \in Seq(Names) /\ Ordered(script) /\ Len(script) \in Nat
    BY <1>2, LenProperties DEF StreamInv, StreamHolds, Covers
  <1> HIDE DEF script
  <1>4. q = current
    BY <1>2 DEF PageInv, Active
  <1>5. /\ Ended(stream[q]) <=> k > 0 /\ script[k] \in Final
        /\ Ended(s) <=> k + p > 0 /\ script[k + p] \in Final
    <2>1. k <= Len(script)
      BY <1>2, <1>3
    <2>2. Ended(stream[q]) <=> k > 0 /\ script[k] \in Final
      BY <1>2, <1>3, <2>1, EndedIs
    <2>3. PICK n \in Nat : n = k + p
      BY <1>2
    <2>4. Ended(s) <=> n > 0 /\ script[n] \in Final
      BY <1>2, <1>3, <2>3, EndedIs
    <2> QED BY <2>2, <2>3, <2>4
  <1>6. Quiet(q) <=> Ended(stream[q])
    BY <1>2 DEF Quiet, Active
  <1>7. /\ p = 0 => hook' = hook
        /\ hook'.result \in {hook.result, q}
        /\ p > 0 => /\ hook'.phase \in Phases \ {"idle"}
                    /\ hook'.phase \in {"done", "error"} => script[k + p] \in Final
    BY <1>2, <1>3, HistFacts, FramesSay
  <1>8. Says(q, s)
    <2>1. CASE p = 0
      BY <1>5, <1>6, <1>7, <2>1 DEF Says
    <2>2. CASE p > 0
      <3>1. ~Ended(stream[q])
        <4> SUFFICES ASSUME k > 0, script[k] \in Final PROVE FALSE
          BY <1>5
        <4>1. k \in 1 .. Len(script) /\ k # Len(script)
          BY <1>2, <1>3, <2>2
        <4> QED BY <1>3, <4>1 DEF Ordered
      <3>2. script[k + p] \in Final => Ended(s)
        BY <1>5, <2>2
      <3> QED BY <1>2, <1>4, <1>6, <1>7, <2>2, <3>1, <3>2 DEF Says
    <2> QED BY <2>1, <2>2
  <1>9. stream[q].at # "none" /\ s.at # "none"
    BY <1>2
  <1> QED BY <1>2, <1>8, <1>9, GeneratorRecords

LEMMA ErrorSays ==
  ASSUME PageInv, NEW q \in Queries, stream[q].at \in Active, NEW s, s.at = "over",
         Thrown(q, <<>>)
  PROVE  Says(q, s)
  <1>0. s.at \notin Active
    BY DEF Active
  <1>1. CASE q \in aborted
    BY <1>1 DEF Thrown, Says
  <1>2. CASE q \notin aborted
    <2>1. q = current
      BY <1>2 DEF PageInv
    <2>2. hook' = [AfterFrames(q, <<>>) EXCEPT !.phase = "error", !.error = q]
      BY <1>2 DEF Thrown
    <2>3. ~Has(<<>>, "verification")
      BY DEF Has
    <2>4. hook'.result = hook.result /\ hook'.phase = "error"
      BY <2>2, <2>3 DEF AfterFrames
    <2> QED BY <1>0, <1>2, <2>1, <2>4 DEF Says
  <1> QED BY <1>1, <1>2

LEMMA CloseSays ==
  ASSUME PageInv, HistInv, StreamInv, NEW q \in Queries, Close(q)
  PROVE  HistInv'
  <1>0. PICK k \in Nat, r \in 0 .. 4 : \E s : CloseForm(q, k, r, s)
    BY CloseDoes
  <1>1. PICK s : CloseForm(q, k, r, s)
    BY <1>0
  <1> DEFINE script == stream[q].script
  <1>2. /\ stream[q].at = "reading" /\ q \notin aborted
        /\ stream[q].events = Upto(script, k)
        /\ s.at = "over" /\ s.at \notin Active
        /\ stream' = [stream EXCEPT ![q] = s] /\ UNCHANGED others
    BY <1>1 DEF CloseForm, Received, Active
  <1>3. \/ /\ r < 2 /\ hook' = AfterFrames(q, Frames(script, k, 0))
        \/ /\ r > 2 /\ k + 1 <= Len(script) /\ hook' = AfterFrames(q, Frames(script, k, 1))
        \/ Thrown(q, <<>>)
    BY <1>1 DEF CloseForm
  <1>4. script \in Seq(Names) /\ Ordered(script) /\ Len(script) \in Nat /\ k <= Len(script)
    <2>1. Covers(script, stream[q].sent) /\ Ordered(script) /\ 5 * k + r <= stream[q].sent
      BY <1>1, <1>2 DEF StreamInv, StreamHolds, CloseForm, Received
    <2> QED BY <2>1, LenProperties DEF Covers
  <1> HIDE DEF script
  <1>5. q = current /\ stream[q].at \in Active
    BY <1>2 DEF PageInv, Active
  <1>6. Says(q, s)
    <2>1. CASE r < 2 /\ hook' = AfterFrames(q, Frames(script, k, 0))
      <3>1. 0 \in Nat /\ k + 0 <= Len(script)
        BY <1>4
      <3>2. hook' = hook
        BY <1>4, <2>1, <3>1, HistFacts, FramesSay
      <3> QED BY <1>2, <3>2 DEF Says
    <2>2. CASE r > 2 /\ k + 1 <= Len(script) /\ hook' = AfterFrames(q, Frames(script, k, 1))
      <3>1. 1 \in Nat /\ 1 > 0
        OBVIOUS
      <3>2. hook'.result \in {hook.result, q} /\ hook'.phase \in Phases \ {"idle"}
        BY <1>4, <2>2, <3>1, HistFacts, FramesSay
      <3>3. Ended(stream[q]) <=> k > 0 /\ script[k] \in Final
        BY <1>2, <1>4, EndedIs
      <3>4. ~Ended(stream[q])
        <4> SUFFICES ASSUME k > 0, script[k] \in Final PROVE FALSE
          BY <3>3
        <4>1. k \in 1 .. Len(script) /\ k # Len(script)
          BY <1>4, <2>2
        <4> QED BY <1>4, <4>1 DEF Ordered
      <3>5. ~Quiet(q)
        BY <1>2, <1>5, <3>4 DEF Quiet
      <3> QED BY <1>2, <1>5, <3>2, <3>5 DEF Says
    <2>3. CASE Thrown(q, <<>>)
      BY <1>2, <1>5, <2>3, ErrorSays
    <2> QED BY <1>3, <2>1, <2>2, <2>3
  <1>7. stream[q].at # "none" /\ s.at # "none"
    BY <1>2
  <1> QED BY <1>2, <1>6, <1>7, GeneratorRecords

(* Before its first byte a stream moves on without a word to the page.     *)
LEMMA WaitingSays ==
  ASSUME PageInv, HistInv, StreamInv, NEW q \in Queries,
         stream[q].at \in Active \ {"reading"}, NEW s, s.at \in Active,
         stream' = [stream EXCEPT ![q] = s], UNCHANGED others, UNCHANGED hook
  PROVE  HistInv'
  <1>1. stream[q].events = <<>>
    BY DEF StreamInv, StreamHolds, Blank, Active
  <1>2. Says(q, s)
    BY <1>1 DEF Says, Quiet, Ended
  <1>3. stream[q].at # "none" /\ s.at # "none"
    BY DEF Active
  <1> QED BY <1>2, <1>3, GeneratorRecords

LEMMA OpenedSays ==
  ASSUME PageInv, HistInv, StreamInv, NEW q \in Queries, Opened(q)
  PROVE  HistInv'
  <1>1. PICK script \in Scripts, ending \in {"complete", "cut", "broken"} :
          \E n \in 0 .. Len(script) * FrameLength :
            /\ ending = "complete" => n = Len(script) * FrameLength
            /\ ending = "cut" => n < Len(script) * FrameLength
            /\ n % FrameLength \in Cuts
            /\ stream' = [stream EXCEPT ![q].at = "reading", ![q].ending = ending,
                 ![q].sent = n, ![q].wire = Bytes(script, n),
                 ![q].script = SubSeq(script, 1, (n + FrameLength - 1) \div FrameLength)]
    BY Zenon DEF Opened
  <1>a. PICK n :
          stream' = [stream EXCEPT ![q].at = "reading", ![q].ending = ending,
              ![q].sent = n, ![q].wire = Bytes(script, n),
              ![q].script = SubSeq(script, 1, (n + FrameLength - 1) \div FrameLength)]
    BY <1>1, Zenon
  <1> DEFINE s == [stream[q] EXCEPT !.at = "reading", !.ending = ending, !.sent = n,
               !.wire = Bytes(script, n),
               !.script = SubSeq(script, 1, (n + FrameLength - 1) \div FrameLength)]
  <1>2. /\ stream[q].at = "opening" /\ "at" \in DOMAIN stream[q] /\ q \in DOMAIN stream
        /\ UNCHANGED hook /\ UNCHANGED others
    BY DEF Opened, PageInv, TypeOK
  <1>3. stream' = [stream EXCEPT ![q] = s]
    BY <1>a, <1>2, Zenon
  <1>4. s.at = "reading"
    BY <1>2
  <1> HIDE DEF s
  <1>5. stream[q].at \in Active \ {"reading"} /\ s.at \in Active
    BY <1>2, <1>4 DEF Active
  <1> QED BY <1>2, <1>3, <1>5, WaitingSays

LEMMA RefusedSays ==
  ASSUME PageInv, HistInv, StreamInv, NEW q \in Queries, Refused(q)
  PROVE  HistInv'
  <1>1. PICK place \in {"refreshing", "refusal"} : Goes(q, place)
    BY DEF Refused
  <1> DEFINE s == [stream[q] EXCEPT !.at = place]
  <1>2. /\ stream[q].at = "opening" /\ "at" \in DOMAIN stream[q] /\ q \in DOMAIN stream
        /\ UNCHANGED hook /\ UNCHANGED others
    BY DEF Refused, PageInv, TypeOK
  <1>3. stream' = [stream EXCEPT ![q] = s] /\ s.at = place
    BY <1>1, <1>2 DEF Goes
  <1> HIDE DEF s
  <1>4. stream[q].at \in Active \ {"reading"} /\ s.at \in Active
    BY <1>2, <1>3 DEF Active
  <1> QED BY <1>2, <1>3, <1>4, WaitingSays

LEMMA RefreshedSays ==
  ASSUME PageInv, HistInv, StreamInv, NEW q \in Queries, Refreshed(q)
  PROVE  HistInv'
  <1>1. /\ stream[q].at = "refreshing" /\ "at" \in DOMAIN stream[q] /\ q \in DOMAIN stream
        /\ UNCHANGED hook /\ UNCHANGED others
    BY DEF Refreshed, PageInv, TypeOK
  <1>2. CASE stream' = [stream EXCEPT ![q].at = "opening", ![q].again = TRUE]
    <2> DEFINE s == [stream[q] EXCEPT !.at = "opening", !.again = TRUE]
    <2>1. stream' = [stream EXCEPT ![q] = s] /\ s.at = "opening"
      BY <1>1, <1>2
    <2> HIDE DEF s
    <2>2. stream[q].at \in Active \ {"reading"} /\ s.at \in Active
      BY <1>1, <2>1 DEF Active
    <2> QED BY <1>1, <2>1, <2>2, WaitingSays
  <1>3. CASE Goes(q, "refusal")
    <2> DEFINE s == [stream[q] EXCEPT !.at = "refusal"]
    <2>1. stream' = [stream EXCEPT ![q] = s] /\ s.at = "refusal"
      BY <1>1, <1>3 DEF Goes
    <2> HIDE DEF s
    <2>2. stream[q].at \in Active \ {"reading"} /\ s.at \in Active
      BY <1>1, <2>1 DEF Active
    <2> QED BY <1>1, <2>1, <2>2, WaitingSays
  <1> QED BY <1>2, <1>3 DEF Refreshed

LEMMA RejectedSays ==
  ASSUME PageInv, HistInv, NEW q \in Queries, Rejected(q)
  PROVE  HistInv'
  <1>1. /\ stream[q].at \in Active /\ stream[q].at # "none"
        /\ stream' = [stream EXCEPT ![q] = Gone] /\ UNCHANGED others /\ Thrown(q, <<>>)
    BY DEF Rejected, Active
  <1>2. Gone.at = "over" /\ Gone.at # "none"
    BY StreamFacts
  <1>3. Says(q, Gone)
    BY <1>1, <1>2, ErrorSays
  <1> QED BY <1>1, <1>2, <1>3, GeneratorRecords

LEMMA HistInductive == PageInv /\ StreamInv /\ HistInv /\ [Next]_vars => HistInv'
  <1> SUFFICES ASSUME PageInv, StreamInv, HistInv, [Next]_vars PROVE HistInv'
    OBVIOUS
  <1>1. ASSUME User \/ Record PROVE HistInv'
    BY <1>1, StartRecords, MutateRecords, CancelRecords, ToggleRecords, LeaveRecords,
       ReturnRecords, ForgetRecords, RecordRecords DEF User
  <1>2. ASSUME NEW q \in Queries, Network(q) PROVE HistInv'
    BY <1>2, OpenedSays, RefusedSays, RefreshedSays, RejectedSays, ReadSays, CloseSays,
       SettleRecords DEF Network
  <1>3. CASE UNCHANGED vars
    BY <1>3 DEF vars, HistInv, PhaseInv, Quiet, CallInv, AwayInv, SeenInv, EffectDue,
                StoredInv, Newest
  <1> QED BY <1>1, <1>2, <1>3 DEF Next

(* Whatever is toggled, cancelled, left or retried between an answer and   *)
(* its effect, the history holds every question once, newest first, and    *)
(* none that was cancelled as a call (query-workspace.tsx:79-95).          *)
THEOREM RecordedExactlyOnce == Spec => []RecordedOnce
  <1>1. PageInv /\ HistInv => RecordedOnce
    <2> SUFFICES ASSUME PageInv, HistInv PROVE RecordedOnce
      OBVIOUS
    <2>1. DOMAIN history = 1 .. Len(history)
      BY HistFacts
    <2>2. ASSUME mounted, ~EffectDue, hook.result # None, hook.result = asked
          PROVE  history # <<>> /\ Head(history) = asked
      <3>1. seen = asked
        BY <2>2 DEF EffectDue
      <3> QED BY <2>2, <3>1 DEF HistInv, SeenInv
    <2>3. /\ \A i, j \in DOMAIN history : i < j => history[i] > history[j]
          /\ Len(history) <= HistoryLimit
      BY <2>1 DEF HistInv, StoredInv, Newest
    <2>4. \A q \in Range(history) \cap aborted : stream[q].at # "none"
      BY DEF HistInv, StoredInv
    <2> QED BY <2>2, <2>3, <2>4 DEF RecordedOnce
  <1> QED BY <1>1, HistInitially, HistInductive, Invariant, StreamsInvariant, PTL DEF Spec
-----------------------------------------------------------------------------
(* What a busy page waits for *)

Pending == {"connecting", "streaming"}

(* A stream that will say more, or one that was closed early without an    *)
(* error.                                                                  *)
Speaks(s) == \/ s.at \in Active /\ ~Ended(s)
             \/ s.at = "over" /\ s.ending = "cut"

(* A body that is complete ends with a frame that ends the question.       *)
Announced(s) ==
  /\ s.ending \in {"complete", "cut", "broken"}
  /\ s.ending = "complete" => /\ s.sent = 5 * Len(s.script) /\ Len(s.script) > 0
                              /\ s.script[Len(s.script)] \in Final

CauseInv ==
  /\ hook.phase \in Pending => Speaks(stream[current])
  /\ \A q \in Queries : stream[q].at = "reading" /\ q \notin aborted => Announced(stream[q])
  /\ call.status = "pending" => call.of \in unsettled

LEMMA CauseInitially == Init => CauseInv
  <1> SUFFICES ASSUME Init PROVE CauseInv
    OBVIOUS
  <1>1. hook.phase = "idle" /\ call.status = "idle" /\ \A q \in Queries : stream[q] = NoStream
    BY IdleFacts DEF Init
  <1> QED BY <1>1, StreamFacts DEF CauseInv, Pending

(* A step of a generator, from what becomes of it and what it tells.       *)
LEMMA GeneratorCause ==
  ASSUME PageInv, CauseInv, NEW q \in Queries, stream[q].at \in Active, NEW s,
         stream' = [stream EXCEPT ![q] = s], UNCHANGED others,
         s.at = "reading" /\ q \notin aborted => Announced(s),
         q \in aborted => UNCHANGED hook,
         q \notin aborted /\ hook'.phase \in Pending => Speaks(s)
  PROVE  CauseInv'
  <1>1. UNCHANGED <<asked, aborted, current, call, unsettled>>
    BY DEF others
  <1>2. stream'[q] = s /\ \A p \in Queries \ {q} : stream'[p] = stream[p]
    BY DEF PageInv, TypeOK
  <1>3. ASSUME hook'.phase \in Pending PROVE Speaks(stream'[current])
    <2>1. CASE q \in aborted
      <3>1. hook.phase \in Pending /\ current # None /\ current \notin aborted
        BY <1>3, <2>1 DEF PageInv, OnlyTheLatest, Pending
      <3>2. current \in Queries \ {q}
        BY <2>1, <3>1 DEF PageInv, TypeOK
      <3> QED BY <1>2, <3>1, <3>2 DEF CauseInv
    <2>2. CASE q \notin aborted
      <3>1. q = current
        BY <2>2 DEF PageInv
      <3> QED BY <1>2, <1>3, <2>2, <3>1
    <2> QED BY <2>1, <2>2
  <1>4. ASSUME NEW p \in Queries, stream'[p].at = "reading", p \notin aborted
        PROVE  Announced(stream'[p])
    BY <1>2, <1>4 DEF CauseInv
  <1> QED BY <1>1, <1>3, <1>4 DEF CauseInv

(* Before its first byte a stream has handed nothing over.                 *)
LEMMA WaitingSpeaks ==
  ASSUME StreamInv, NEW q \in Queries, stream[q].at \in Active \ {"reading"},
         NEW s, s.at \in Active, s.events = stream[q].events
  PROVE  Speaks(s)
  <1>1. stream[q].events = <<>>
    BY DEF StreamInv, StreamHolds, Blank, Active
  <1> QED BY <1>1 DEF Speaks, Ended

LEMMA RefusedCause ==
  ASSUME PageInv, StreamInv, CauseInv, NEW q \in Queries, Refused(q)
  PROVE  CauseInv'
  <1>1. PICK place \in {"refreshing", "refusal"} : Goes(q, place)
    BY DEF Refused
  <1>2. /\ stream[q].at = "opening" /\ q \in DOMAIN stream /\ stream[q] \in StreamType
        /\ UNCHANGED others /\ UNCHANGED hook
    BY DEF Refused, StreamInv, StreamHolds
  <1> DEFINE s == [stream[q] EXCEPT !.at = place]
  <1>3. stream' = [stream EXCEPT ![q] = s]
    BY <1>1, <1>2 DEF Goes
  <1>4. s.at = place /\ s.events = stream[q].events
    BY <1>2 DEF StreamType
  <1> HIDE DEF s
  <1>5. Speaks(s) /\ stream[q].at \in Active /\ s.at # "reading"
    BY <1>2, <1>4, WaitingSpeaks DEF Active
  <1> QED BY <1>2, <1>3, <1>5, GeneratorCause

LEMMA RefreshedCause ==
  ASSUME PageInv, StreamInv, CauseInv, NEW q \in Queries, Refreshed(q)
  PROVE  CauseInv'
  <1>2. /\ stream[q].at = "refreshing" /\ q \in DOMAIN stream /\ stream[q] \in StreamType
        /\ UNCHANGED others /\ UNCHANGED hook
    BY DEF Refreshed, StreamInv, StreamHolds
  <1>3. \E s : /\ stream' = [stream EXCEPT ![q] = s]
               /\ s.at \in {"opening", "refusal"} /\ s.events = stream[q].events
    <2>1. CASE stream' = [stream EXCEPT ![q].at = "opening", ![q].again = TRUE]
      <3> DEFINE s == [stream[q] EXCEPT !.at = "opening", !.again = TRUE]
      <3>1. stream' = [stream EXCEPT ![q] = s]
        BY <1>2, <2>1
      <3>2. s.at = "opening" /\ s.events = stream[q].events
        BY <1>2 DEF StreamType
      <3> HIDE DEF s
      <3> QED BY <3>1, <3>2
    <2>2. CASE Goes(q, "refusal")
      <3> DEFINE s == [stream[q] EXCEPT !.at = "refusal"]
      <3>1. stream' = [stream EXCEPT ![q] = s]
        BY <1>2, <2>2 DEF Goes
      <3>2. s.at = "refusal" /\ s.events = stream[q].events
        BY <1>2 DEF StreamType
      <3> HIDE DEF s
      <3> QED BY <3>1, <3>2
    <2> QED BY <2>1, <2>2 DEF Refreshed
  <1>4. PICK s : /\ stream' = [stream EXCEPT ![q] = s]
                 /\ s.at \in {"opening", "refusal"} /\ s.events = stream[q].events
    BY <1>3
  <1>5. Speaks(s) /\ stream[q].at \in Active /\ s.at # "reading"
    BY <1>2, <1>4, WaitingSpeaks DEF Active
  <1> QED BY <1>2, <1>4, <1>5, GeneratorCause

(* A failure that is told, and one that is not, leave nothing to wait for. *)
LEMMA ThrownEnds ==
  ASSUME NEW q, NEW frames, Thrown(q, frames)
  PROVE  /\ q \in aborted => UNCHANGED hook
         /\ q \notin aborted => hook'.phase = "error"
  BY DEF Thrown, AfterFrames

LEMMA RejectedCause ==
  ASSUME PageInv, CauseInv, NEW q \in Queries, Rejected(q)
  PROVE  CauseInv'
  <1>1. /\ stream[q].at \in Active /\ stream' = [stream EXCEPT ![q] = Gone]
        /\ UNCHANGED others /\ Thrown(q, <<>>)
    BY DEF Rejected, Active
  <1>2. Gone.at # "reading"
    BY StreamFacts
  <1>3. /\ q \in aborted => UNCHANGED hook
        /\ q \notin aborted => hook'.phase \notin Pending
    BY <1>1, ThrownEnds DEF Pending
  <1> QED BY <1>1, <1>2, <1>3, GeneratorCause

LEMMA OpenedCause ==
  ASSUME PageInv, StreamInv, CauseInv, NEW q \in Queries, Opened(q)
  PROVE  CauseInv'
  <1>1. /\ stream[q].at = "opening" /\ q \in DOMAIN stream /\ stream[q] \in StreamType
        /\ UNCHANGED others /\ UNCHANGED hook
    BY DEF Opened, StreamInv, StreamHolds
  <1>2. PICK script \in Scripts, ending \in {"complete", "cut", "broken"} :
          \E n \in 0 .. Len(script) * FrameLength :
            /\ ending = "complete" => n = Len(script) * FrameLength
            /\ ending = "cut" => n < Len(script) * FrameLength
            /\ n % FrameLength \in Cuts
            /\ stream' = [stream EXCEPT ![q].at = "reading", ![q].ending = ending,
                 ![q].sent = n, ![q].wire = Bytes(script, n),
                 ![q].script = SubSeq(script, 1, (n + FrameLength - 1) \div FrameLength)]
    BY Zenon DEF Opened
  <1>3. PICK n \in 0 .. Len(script) * FrameLength :
          /\ ending = "complete" => n = Len(script) * FrameLength
          /\ stream' = [stream EXCEPT ![q].at = "reading", ![q].ending = ending,
               ![q].sent = n, ![q].wire = Bytes(script, n),
               ![q].script = SubSeq(script, 1, (n + FrameLength - 1) \div FrameLength)]
    BY <1>2, Zenon
  <1> DEFINE m == (n + FrameLength - 1) \div FrameLength
             u == SubSeq(script, 1, m)
             s == [stream[q] EXCEPT !.at = "reading", !.ending = ending, !.sent = n,
                     !.wire = Bytes(script, n), !.script = u]
  <1>4. stream' = [stream EXCEPT ![q] = s]
    BY <1>1, <1>3, Zenon
  <1>5. s.at = "reading" /\ s.ending = ending /\ s.sent = n /\ s.script = u
        /\ s.events = stream[q].events
    BY <1>1 DEF StreamType
  <1>6. /\ script \in Seq(Names) /\ Len(script) \in Nat /\ Len(script) > 0
        /\ script[Len(script)] \in Final
    BY ScriptShape, LenProperties
  <1>7. ASSUME ending = "complete"
        PROVE  n = 5 * Len(u) /\ Len(u) > 0 /\ u[Len(u)] \in Final
    <2>1. n = 5 * Len(script)
      BY <1>3, <1>6, <1>7 DEF FrameLength
    <2>2. m = Len(script)
      BY <1>6, <2>1 DEF FrameLength
    <2>3. u = Upto(script, Len(script))
      BY <2>2 DEF Upto
    <2>4. Len(u) = Len(script) /\ u[Len(script)] = script[Len(script)]
      <3>1. Len(script) <= Len(script) /\ Len(script) \in 1 .. Len(script)
        BY <1>6
      <3>2. /\ Len(Upto(script, Len(script))) = Len(script)
            /\ \A i \in 1 .. Len(script) : Upto(script, Len(script))[i] = script[i]
        BY <1>6, <3>1, UptoFacts
      <3> HIDE DEF u
      <3> QED BY <2>3, <3>1, <3>2
    <2> QED BY <1>6, <2>1, <2>4
  <1> HIDE DEF s, u
  <1>8. Announced(s)
    BY <1>5, <1>7 DEF Announced
  <1>9. stream[q].at \in Active \ {"reading"} /\ s.at \in Active
    BY <1>1, <1>5 DEF Active
  <1>10. Speaks(s)
    BY <1>5, <1>9, WaitingSpeaks
  <1> QED BY <1>1, <1>4, <1>8, <1>9, <1>10, GeneratorCause

(* A read takes symbols off the wire and leaves what was announced.        *)
LEMMA ReadTakes ==
  ASSUME StreamInv, NEW q \in Queries, Read(q)
  PROVE  \E n \in 1 .. Len(stream[q].wire) :
           /\ stream'[q].wire = SubSeq(stream[q].wire, n + 1, Len(stream[q].wire))
           /\ stream'[q].ending = stream[q].ending /\ stream'[q].sent = stream[q].sent
           /\ stream'[q].script = stream[q].script
  <1>1. stream[q] \in StreamType /\ q \in DOMAIN stream
    BY DEF StreamInv, StreamHolds
  <1>2. PICK n \in 1 .. Len(stream[q].wire) : \E frames, buffer :
          HandOver(q, frames, [stream[q] EXCEPT !.buffer = buffer,
                                 !.wire = SubSeq(@, n + 1, Len(@))])
    BY Zenon DEF Read
  <1>3. PICK frames, buffer :
          HandOver(q, frames, [stream[q] EXCEPT !.buffer = buffer,
                                 !.wire = SubSeq(@, n + 1, Len(@))])
    BY <1>2
  <1> DEFINE after == [stream[q] EXCEPT !.buffer = buffer,
                         !.wire = SubSeq(@, n + 1, Len(@))]
  <1>4. /\ after.wire = SubSeq(stream[q].wire, n + 1, Len(stream[q].wire))
        /\ after.ending = stream[q].ending /\ after.sent = stream[q].sent
        /\ after.script = stream[q].script
    BY <1>1 DEF StreamType
  <1>5. DOMAIN after = DOMAIN stream[q]
    OBVIOUS
  <1>6. HandOver(q, frames, after)
    BY <1>3
  <1> HIDE DEF after
  <1>7. PICK place, events : stream' = [stream EXCEPT ![q] = [after EXCEPT
                                          !.at = place, !.events = events]]
    BY <1>6, Zenon DEF HandOver
  <1>8. stream'[q] = [after EXCEPT !.at = place, !.events = events]
    BY <1>1, <1>7
  <1>9. /\ stream'[q].wire = after.wire /\ stream'[q].ending = after.ending
        /\ stream'[q].sent = after.sent /\ stream'[q].script = after.script
    BY <1>1, <1>5, <1>8 DEF StreamType
  <1> QED BY <1>4, <1>9

(* The last frame decides the phase: a frame that ends the question does.  *)
LEMMA FramesEnd ==
  ASSUME NEW q \in Queries, NEW script \in Seq(Names), NEW k \in Nat, NEW p \in Nat,
         k + p <= Len(script), p > 0, AfterFrames(q, Frames(script, k, p)).phase \in Pending
  PROVE  script[k + p] \notin Final
  <1> DEFINE f == Frames(script, k, p)
  <1>1. /\ f \in Seq(ParsedFrame) /\ Len(f) = p /\ DOMAIN f = 1 .. p
        /\ \A i \in 1 .. p : f[i] = Whole(script[k + i])
    BY FramesFacts
  <1> HIDE DEF f
  <1>2. f # <<>>
    BY <1>1, EmptySeq
  <1>3. AfterFrames(q, f).phase = CASE EndsIn(f, "done")  -> "done"
                                    [] EndsIn(f, "error") -> "error"
                                    [] OTHER -> "streaming"
    BY <1>2 DEF AfterFrames
  <1>4. AfterFrames(q, f).phase \in Pending
    BY DEF f
  <1>5. ~EndsIn(f, "done") /\ ~EndsIn(f, "error")
    BY <1>3, <1>4 DEF Pending
  <1>6. f[p].event = script[k + p] /\ p \in 1 .. p /\ \A j \in 1 .. p : j <= p
    BY <1>1 DEF Whole
  <1>7. EndsIn(f, script[k + p])
    BY <1>1, <1>6 DEF EndsIn
  <1> QED BY <1>5, <1>7 DEF Final

LEMMA ReadCause ==
  ASSUME PageInv, HistInv, StreamInv, CauseInv, NEW q \in Queries, Read(q)
  PROVE  CauseInv'
  <1>0. PICK k \in Nat, r \in 0 .. 4, p \in Nat : \E s : ReadForm(q, k, r, p, s)
    BY ReadDoes
  <1>1. PICK s : ReadForm(q, k, r, p, s)
    BY <1>0
  <1> DEFINE script == stream[q].script
  <1>2. /\ stream[q].at = "reading" /\ q \notin aborted /\ k + p <= Len(script)
        /\ stream[q].events = Upto(script, k)
        /\ s.at = "reading" /\ s.events = Upto(script, k + p)
        /\ stream' = [stream EXCEPT ![q] = s] /\ UNCHANGED others
        /\ hook' = AfterFrames(q, Frames(script, k, p))
        /\ k + p \in Nat /\ stream[q].at \in Active
    BY <1>1 DEF ReadForm, Received, Active
  <1>3. script \in Seq(Names) /\ Len(script) \in Nat /\ hook \in HookType
    BY <1>2, LenProperties, HistFacts DEF StreamInv, StreamHolds, Covers
  <1>4. q = current /\ stream'[q] = s
    BY <1>2 DEF PageInv, TypeOK
  <1>5. Announced(s)
    <2>1. /\ s.ending = stream[q].ending /\ s.sent = stream[q].sent
          /\ s.script = stream[q].script
      BY <1>4, ReadTakes
    <2>2. Announced(stream[q])
      BY <1>2 DEF CauseInv
    <2> QED BY <2>1, <2>2 DEF Announced
  <1> HIDE DEF script
  <1>6. ASSUME hook'.phase \in Pending PROVE ~Ended(s)
    <2>1. CASE p = 0
      <3>1. hook' = hook
        BY <1>2, <1>3, <2>1, FramesSay
      <3>2. ~Ended(stream[q])
        BY <1>2, <1>4, <1>6, <3>1 DEF CauseInv, Speaks
      <3>3. s.events = stream[q].events
        BY <1>2, <2>1
      <3> QED BY <3>2, <3>3 DEF Ended
    <2>2. CASE p > 0
      <3>1. script[k + p] \notin Final
        BY <1>2, <1>3, <1>6, <2>2, FramesEnd
      <3>2. PICK n \in Nat : n = k + p
        BY <1>2
      <3>3. Ended(s) <=> n > 0 /\ script[n] \in Final
        BY <1>2, <1>3, <3>2, EndedIs
      <3> QED BY <3>1, <3>2, <3>3
    <2> QED BY <2>1, <2>2
  <1>7. hook'.phase \in Pending => Speaks(s)
    BY <1>2, <1>6 DEF Speaks, Active
  <1> QED BY <1>2, <1>5, <1>7, GeneratorCause

LEMMA CloseLeaves ==
  ASSUME StreamInv, NEW q \in Queries, Close(q)
  PROVE  stream'[q].ending = stream[q].ending
  <1>1. stream[q] \in StreamType /\ q \in DOMAIN stream
    BY DEF StreamInv, StreamHolds
  <1> DEFINE after == [stream[q] EXCEPT !.at = "over", !.buffer = <<>>]
  <1>2. after.ending = stream[q].ending /\ DOMAIN after = DOMAIN stream[q]
    BY <1>1 DEF StreamType
  <1>3. HandOver(q, Flush(stream[q].buffer), after)
    BY DEF Close
  <1> HIDE DEF after
  <1>4. PICK place, events : stream' = [stream EXCEPT ![q] = [after EXCEPT
                                          !.at = place, !.events = events]]
    BY <1>3, Zenon DEF HandOver
  <1>5. stream'[q] = [after EXCEPT !.at = place, !.events = events]
    BY <1>1, <1>4
  <1> QED BY <1>1, <1>2, <1>5 DEF StreamType

(* A body that ends in full was told of before it ended; one that ends     *)
(* early without an error leaves the page waiting for it.                  *)
LEMMA CloseCause ==
  ASSUME PageInv, HistInv, StreamInv, CauseInv, NEW q \in Queries, Close(q)
  PROVE  CauseInv'
  <1>0. PICK k \in Nat, r \in 0 .. 4 : \E s : CloseForm(q, k, r, s)
    BY CloseDoes
  <1>1. PICK s : CloseForm(q, k, r, s)
    BY <1>0
  <1> DEFINE script == stream[q].script
  <1>2. /\ stream[q].at = "reading" /\ q \notin aborted
        /\ stream[q].events = Upto(script, k)
        /\ s.at = "over" /\ stream[q].at \in Active
        /\ stream' = [stream EXCEPT ![q] = s] /\ UNCHANGED others
        /\ 5 * k + r <= stream[q].sent
        /\ stream[q].wire = Piece(script, 5 * k + r, stream[q].sent)
    BY <1>1 DEF CloseForm, Received, Active
  <1>3. /\ script \in Seq(Names) /\ Len(script) \in Nat /\ hook \in HookType
        /\ Covers(script, stream[q].sent) /\ stream[q].sent \in Nat
    BY <1>2, LenProperties, HistFacts DEF StreamInv, StreamHolds, Covers
  <1>4. q = current /\ stream'[q] = s
    BY <1>2 DEF PageInv, TypeOK
  <1>5. /\ s.ending = stream[q].ending /\ stream[q].ending # "broken"
        /\ stream[q].wire = <<>> /\ Announced(stream[q])
    BY <1>2, <1>4, CloseLeaves DEF CauseInv, Close
  <1>6. CASE stream[q].ending = "cut"
    <2>1. Speaks(s) /\ s.at # "reading"
      BY <1>2, <1>5, <1>6 DEF Speaks
    <2> QED BY <1>2, <2>1, GeneratorCause
  <1>7. CASE stream[q].ending = "complete"
    <2>1. stream[q].sent = 5 * k + r
      <3>1. 5 * k + r \in Nat
        OBVIOUS
      <3>2. Len(Piece(script, 5 * k + r, stream[q].sent)) = stream[q].sent - (5 * k + r)
        BY <1>2, <1>3, <3>1, PieceFacts
      <3>3. stream[q].sent - (5 * k + r) = 0
        BY <1>2, <1>5, <3>2, EmptyFacts
      <3> QED BY <1>3, <3>1, <3>3
    <2>2. stream[q].sent = 5 * Len(script) /\ Len(script) > 0 /\ script[Len(script)] \in Final
      BY <1>5, <1>7 DEF Announced
    <2> HIDE DEF script
    <2>3. k = Len(script) /\ r = 0
      BY <1>3, <2>1, <2>2
    <2>4. Ended(stream[q])
      <3>1. k <= Len(script) /\ k > 0 /\ script[k] \in Final
        BY <1>3, <2>2, <2>3
      <3> QED BY <1>2, <1>3, <3>1, EndedIs
    <2>5. hook' = hook
      <3>1. hook' = AfterFrames(q, Frames(script, k, 0))
        BY <1>1, <2>3 DEF CloseForm, script
      <3>2. 0 \in Nat /\ k + 0 <= Len(script)
        BY <1>3, <2>3
      <3> QED BY <1>3, <3>1, <3>2, FramesSay
    <2>6. hook'.phase \notin Pending
      <3>1. ~Speaks(stream[q])
        BY <1>2, <2>4 DEF Speaks
      <3> QED BY <1>4, <2>5, <3>1 DEF CauseInv
    <2> QED BY <1>2, <2>6, GeneratorCause
  <1> QED BY <1>5, <1>6, <1>7 DEF Announced

(* The user's steps: a new question is opened, an old one is severed.      *)
LEMMA StartCause == ASSUME PageInv, CauseInv, Start PROVE CauseInv'
  <1> DEFINE new == asked + 1
             opened == [NoStream EXCEPT !.at = "opening"]
  <1>1. /\ new \in Queries /\ current' = new /\ aborted' = aborted \cup ({current} \ {None})
        /\ UNCHANGED <<call, unsettled>>
        /\ stream' = [p \in Queries |-> IF p = new THEN opened
                        ELSE IF stream[p].at = "over" THEN Gone ELSE Superseded(p)]
    <2>1. new \in Queries
      BY QueryFacts DEF Start, PageInv, TypeOK, Queries
    <2>2. /\ current' = new /\ aborted' = aborted \cup ({current} \ {None})
          /\ UNCHANGED <<call, unsettled>>
          /\ stream' = [p \in Queries |-> IF p = new THEN opened
                          ELSE IF stream[p].at = "over" THEN Gone ELSE Superseded(p)]
      BY Zenon DEF Start
    <2> QED BY <2>1, <2>2
  <1>2. opened.at = "opening" /\ opened.events = <<>>
    BY DEF NoStream
  <1> HIDE DEF new, opened
  <1>3. Speaks(stream'[current'])
    <2>1. stream'[current'] = opened
      BY <1>1
    <2> QED BY <1>2, <2>1 DEF Speaks, Active, Ended
  <1>4. ASSUME NEW p \in Queries, stream'[p].at = "reading", p \notin aborted'
        PROVE  Announced(stream'[p])
    <2>1. p # new
      BY <1>1, <1>2, <1>4
    <2>2. stream[p].at # "over"
      BY <1>1, <1>4, <2>1, StreamFacts
    <2>3. p # current
      BY <1>1, <1>4, QueryFacts
    <2>4. stream'[p] = stream[p]
      BY <1>1, <2>1, <2>2, <2>3 DEF Superseded
    <2> QED BY <1>1, <1>4, <2>4 DEF CauseInv
  <1> QED BY <1>1, <1>3, <1>4 DEF CauseInv

LEMMA CancelCause == ASSUME PageInv, CauseInv, Cancel PROVE CauseInv'
  <1>1. CASE streaming
    <2>1. /\ aborted' = aborted \cup {current} /\ hook' = [hook EXCEPT !.phase = "idle"]
          /\ stream' = [stream EXCEPT ![current] = Severed(current)]
          /\ UNCHANGED <<call, unsettled>>
      BY <1>1 DEF Cancel
    <2>2. hook'.phase = "idle"
      BY <2>1 DEF PageInv, TypeOK
    <2>3. ASSUME NEW p \in Queries, stream'[p].at = "reading", p \notin aborted'
          PROVE  Announced(stream'[p])
      <3>1. p # current /\ stream'[p] = stream[p]
        BY <2>1, <2>3
      <3> QED BY <2>1, <2>3, <3>1 DEF CauseInv
    <2> QED BY <2>1, <2>2, <2>3 DEF CauseInv, Pending
  <1>2. CASE ~streaming
    <2>1. /\ aborted \subseteq aborted' /\ call' = NoCall
          /\ UNCHANGED <<stream, hook, current, unsettled>>
      BY <1>2 DEF Cancel
    <2> QED BY <2>1, IdleFacts DEF CauseInv
  <1> QED BY <1>1, <1>2

LEMMA LeaveCause == ASSUME Leave PROVE CauseInv'
  <1>1. hook' = Idle /\ call' = NoCall
    BY DEF Leave
  <1>2. ASSUME NEW p \in Queries PROVE stream'[p].at # "reading"
    <2>1. stream'[p] \in {NoStream, Gone, [NoStream EXCEPT !.at = "orphan"]}
      BY DEF Leave
    <2> QED BY <2>1, StreamFacts
  <1> QED BY <1>1, <1>2, IdleFacts DEF CauseInv, Pending

LEMMA MutateCause == ASSUME CauseInv, Mutate PROVE CauseInv'
  <1>1. /\ call'.of \in unsettled'
        /\ UNCHANGED <<stream, aborted, current, hook>>
    BY DEF Mutate
  <1> QED BY <1>1 DEF CauseInv

LEMMA SettleCause == ASSUME PageInv, CauseInv, NEW q \in Queries, Settle(q) PROVE CauseInv'
  <1>1. UNCHANGED <<stream, aborted, current, hook>> /\ unsettled' = unsettled \ {q}
    BY DEF Settle
  <1>2. CASE call.of = q
    <2>1. call'.status # "pending"
      BY <1>2 DEF Settle, PageInv, TypeOK
    <2> QED BY <1>1, <2>1 DEF CauseInv
  <1>3. CASE call.of # q
    <2>1. UNCHANGED call
      BY <1>3 DEF Settle
    <2> QED BY <1>1, <1>3, <2>1 DEF CauseInv
  <1> QED BY <1>2, <1>3

LEMMA CauseInductive ==
  PageInv /\ HistInv /\ StreamInv /\ CauseInv /\ [Next]_vars => CauseInv'
  <1> SUFFICES ASSUME PageInv, HistInv, StreamInv, CauseInv, [Next]_vars PROVE CauseInv'
    OBVIOUS
  <1>1. ASSUME UNCHANGED <<stream, aborted, current, hook, call, unsettled>> PROVE CauseInv'
    BY <1>1 DEF CauseInv
  <1>2. ASSUME User \/ Record PROVE CauseInv'
    <2>1. CASE Toggle \/ Return \/ Forget \/ Record
      <3>1. UNCHANGED <<stream, aborted, current, hook, call, unsettled>>
        BY <2>1 DEF Toggle, Return, Forget, Record
      <3> QED BY <1>1, <3>1
    <2> QED BY <1>2, <2>1, StartCause, MutateCause, CancelCause, LeaveCause DEF User
  <1>3. ASSUME NEW q \in Queries, Network(q) PROVE CauseInv'
    BY <1>3, OpenedCause, RefusedCause, RefreshedCause, RejectedCause, ReadCause, CloseCause,
       SettleCause DEF Network
  <1>4. CASE UNCHANGED vars
    BY <1>1, <1>4 DEF vars
  <1> QED BY <1>2, <1>3, <1>4 DEF Next

(* What the composer of a busy page waits for: an answer to its call, or   *)
(* a stream that is still to say something.                                *)
Waited ==
  IF streaming
  THEN /\ current \in Queries /\ current \notin aborted
       /\ stream[current].at \in Active /\ ~Ended(stream[current])
  ELSE call.of \in unsettled

(* The composer is disabled only while somebody still owes the page an     *)
(* answer: the stream on show has not handed over its last frame and is at *)
(* one of its awaits, or the call in flight has not settled.  The one      *)
(* exception is a stream that was closed early without an error            *)
(* (query-workspace.tsx:142-144, useQueryStream.ts:52-68).                 *)
THEOREM BusyHasCause == Spec => [](mounted /\ Busy => Waited \/ SilentlyCut)
  <1>1. PageInv /\ CauseInv => (mounted /\ Busy => Waited \/ SilentlyCut)
    <2> SUFFICES ASSUME PageInv, CauseInv, mounted, Busy PROVE Waited \/ SilentlyCut
      OBVIOUS
    <2>1. CASE streaming
      <3>1. hook.phase \in Pending
        BY <2>1 DEF Busy, Pending
      <3>2. /\ current \in Queries /\ current # None /\ current \notin aborted
            /\ Speaks(stream[current])
        BY <3>1 DEF PageInv, TypeOK, OnlyTheLatest, CauseInv, Pending
      <3> QED BY <2>1, <3>2 DEF Speaks, Waited, SilentlyCut
    <2>2. CASE ~streaming
      BY <2>2 DEF Busy, CauseInv, Waited
    <2> QED BY <2>1, <2>2
  <1>2. Spec => []HistInv
    BY HistInitially, HistInductive, Invariant, StreamsInvariant, PTL DEF Spec
  <1>3. Spec => []CauseInv
    BY <1>2, CauseInitially, CauseInductive, Invariant, StreamsInvariant, PTL DEF Spec
  <1> QED BY <1>1, <1>3, Invariant, PTL
-----------------------------------------------------------------------------
(* How far a question is from its end *)

\* The awaits a stream has before it; at the last of them, the symbols on the wire.
Distance(s) ==
  CASE s.at = "opening" /\ ~s.again -> 5
    [] s.at = "refreshing" -> 4
    [] s.at = "opening" /\ s.again -> 3
    [] s.at = "reading" -> 2
    [] s.at = "refusal" -> 1
    [] OTHER -> 0

Nearer(t, s) == \/ Distance(t) < Distance(s)
                \/ Distance(t) = Distance(s) /\ Len(t.wire) < Len(s.wire)

AsFar(t, s) == Distance(t) = Distance(s) /\ Len(t.wire) = Len(s.wire)

\* The question that is being asked in this step.
Fresh(q) == q = asked + 1 /\ asked' = q

Advancing ==
  \A q \in Queries :
    /\ Network(q) => \/ Nearer(stream'[q], stream[q]) /\ UNCHANGED unsettled
                     \/ UNCHANGED stream /\ q \in unsettled /\ unsettled' = unsettled \ {q}
    /\ Nearer(stream'[q], stream[q]) \/ AsFar(stream'[q], stream[q]) \/ Fresh(q)
    /\ q \in unsettled' \ unsettled => Fresh(q)

LEMMA Distances ==
  /\ \A s \in StreamType : Distance(s) \in 0 .. 5 /\ Len(s.wire) \in Nat
  /\ \A s : s.at = "reading" => Distance(s) = 2
  /\ \A s : s.at = "refusal" => Distance(s) = 1
  /\ \A s : s.at = "refreshing" => Distance(s) = 4
  /\ \A s : s.at = "opening" /\ s.again => Distance(s) = 3
  /\ \A s : s.at = "opening" /\ ~s.again => Distance(s) = 5
  /\ \A s : s.at \in {"none", "over", "orphan"} => Distance(s) = 0
  <1>1. \A s \in StreamType : Distance(s) \in 0 .. 5
    BY DEF Distance
  <1>2. \A s \in StreamType : Len(s.wire) \in Nat
    BY LenProperties DEF StreamType
  <1> QED BY <1>1, <1>2 DEF Distance

(* A generator that is thrown away, severed or left behind comes no        *)
(* further from its end.                                                   *)
LEMMA Emptied ==
  ASSUME NEW s \in StreamType, NEW t \in StreamType, t.wire = <<>>,
         Distance(t) <= Distance(s)
  PROVE  Nearer(t, s) \/ AsFar(t, s)
  <1>1. /\ Distance(s) \in 0 .. 5 /\ Distance(t) \in 0 .. 5
        /\ Len(s.wire) \in Nat /\ Len(t.wire) = 0
    BY Distances, EmptyFacts
  <1> QED BY <1>1 DEF Nearer, AsFar

LEMMA EmptyStreams ==
  ASSUME NEW place \in Places
  PROVE  /\ [NoStream EXCEPT !.at = place] \in StreamType
         /\ [NoStream EXCEPT !.at = place].at = place
         /\ [NoStream EXCEPT !.at = place].wire = <<>>
  BY EmptyFacts DEF NoStream, StreamType, Places

LEMMA SeveredNoFarther ==
  ASSUME StreamInv, NEW q \in Queries
  PROVE  Nearer(Severed(q), stream[q]) \/ AsFar(Severed(q), stream[q])
  <1>1. stream[q] \in StreamType
    BY DEF StreamInv, StreamHolds
  <1>2. CASE stream[q].at = "reading"
    <2> DEFINE s == [NoStream EXCEPT !.at = "reading"]
    <2>1. s \in StreamType /\ s.at = "reading" /\ s.wire = <<>>
      BY EmptyStreams DEF Places
    <2>2. Severed(q) = s
      BY <1>2 DEF Severed
    <2> HIDE DEF s
    <2>3. Distance(s) = 2 /\ Distance(stream[q]) = 2
      BY <1>2, <2>1, Distances
    <2> QED BY <1>1, <2>1, <2>2, <2>3, Emptied
  <1>3. CASE stream[q].at # "reading"
    <2>1. Severed(q) = stream[q]
      BY <1>3 DEF Severed
    <2> QED BY <2>1 DEF AsFar
  <1> QED BY <1>2, <1>3

LEMMA NoFarther ==
  ASSUME StreamInv, NEW q \in Queries, NEW place \in {"none", "over", "orphan"}
  PROVE  LET t == [NoStream EXCEPT !.at = place]
         IN  Nearer(t, stream[q]) \/ AsFar(t, stream[q])
  <1> DEFINE t == [NoStream EXCEPT !.at = place]
  <1>1. t \in StreamType /\ t.at = place /\ t.wire = <<>>
    BY EmptyStreams DEF Places
  <1>2. stream[q] \in StreamType
    BY DEF StreamInv, StreamHolds
  <1> HIDE DEF t
  <1>3. Distance(t) = 0 /\ Distance(stream[q]) \in 0 .. 5
    BY <1>1, <1>2, Distances
  <1>4. Distance(t) <= Distance(stream[q])
    BY <1>3
  <1> QED BY <1>1, <1>2, <1>4, Emptied DEF t

(* Each step of a generator brings it nearer to its end.                   *)
LEMMA RefusedAdvances ==
  ASSUME StreamInv, NEW q \in Queries, Refused(q)
  PROVE  Distance(stream'[q]) < Distance(stream[q])
  <1>1. stream[q] \in StreamType /\ q \in DOMAIN stream /\ stream[q].at = "opening"
    BY DEF StreamInv, StreamHolds, Refused
  <1>2. PICK status \in {401, 500} :
          Goes(q, IF status = 401 /\ ~stream[q].again THEN "refreshing" ELSE "refusal")
    BY DEF Refused
  <1>3. PICK place : /\ place = IF status = 401 /\ ~stream[q].again THEN "refreshing"
                                                                    ELSE "refusal"
                     /\ Goes(q, place)
    BY <1>2
  <1>4. stream'[q].at = place
    BY <1>1, <1>3 DEF Goes, StreamType
  <1>5. CASE stream[q].again
    <2>1. Distance(stream[q]) = 3 /\ Distance(stream'[q]) = 1
      BY <1>1, <1>3, <1>4, <1>5, Distances
    <2> QED BY <2>1
  <1>6. CASE ~stream[q].again
    <2>1. Distance(stream[q]) = 5 /\ Distance(stream'[q]) \in {1, 4}
      BY <1>1, <1>3, <1>4, <1>6, Distances
    <2> QED BY <2>1
  <1> QED BY <1>5, <1>6

LEMMA RefreshedAdvances ==
  ASSUME StreamInv, NEW q \in Queries, Refreshed(q)
  PROVE  Distance(stream'[q]) < Distance(stream[q])
  <1>1. stream[q] \in StreamType /\ q \in DOMAIN stream /\ stream[q].at = "refreshing"
    BY DEF StreamInv, StreamHolds, Refreshed
  <1>2. \/ stream'[q].at = "opening" /\ stream'[q].again
        \/ stream'[q].at = "refusal"
    BY <1>1 DEF Refreshed, Goes, StreamType
  <1>3. Distance(stream[q]) = 4 /\ Distance(stream'[q]) \in {1, 3}
    BY <1>1, <1>2, Distances
  <1> QED BY <1>3

LEMMA OpenedAdvances ==
  ASSUME StreamInv, NEW q \in Queries, Opened(q)
  PROVE  Distance(stream'[q]) < Distance(stream[q])
  <1>1. stream[q] \in StreamType /\ q \in DOMAIN stream /\ stream[q].at = "opening"
    BY DEF StreamInv, StreamHolds, Opened
  <1>2. PICK script \in Scripts, ending \in {"complete", "cut", "broken"} : \E sent :
          stream' = [stream EXCEPT ![q].at = "reading", ![q].ending = ending,
              ![q].sent = sent, ![q].wire = Bytes(script, sent),
              ![q].script = SubSeq(script, 1, (sent + FrameLength - 1) \div FrameLength)]
    BY Zenon DEF Opened
  <1>5. PICK sent :
          stream' = [stream EXCEPT ![q].at = "reading", ![q].ending = ending,
              ![q].sent = sent, ![q].wire = Bytes(script, sent),
              ![q].script = SubSeq(script, 1, (sent + FrameLength - 1) \div FrameLength)]
    BY <1>2
  <1>3. stream'[q].at = "reading"
    BY <1>1, <1>5 DEF StreamType
  <1>4. Distance(stream'[q]) = 2 /\ Distance(stream[q]) \in {3, 5}
    BY <1>1, <1>3, Distances
  <1> QED BY <1>4

LEMMA ReadAdvances ==
  ASSUME StreamInv, NEW q \in Queries, Read(q)
  PROVE  Nearer(stream'[q], stream[q])
  <1>1. stream[q] \in StreamType /\ q \in DOMAIN stream /\ stream[q].at = "reading"
    BY DEF StreamInv, StreamHolds, Read
  <1>2. stream'[q].at = "reading"
    <2>1. PICK k \in Nat, r \in 0 .. 4, p \in Nat : \E s : ReadForm(q, k, r, p, s)
      BY ReadDoes
    <2>2. PICK s : ReadForm(q, k, r, p, s)
      BY <2>1
    <2> QED BY <1>1, <2>2 DEF ReadForm
  <1>3. Distance(stream'[q]) = 2 /\ Distance(stream[q]) = 2
    BY <1>1, <1>2, Distances
  <1>4. PICK n \in 1 .. Len(stream[q].wire) :
          stream'[q].wire = SubSeq(stream[q].wire, n + 1, Len(stream[q].wire))
    BY ReadTakes
  <1> DEFINE w == stream[q].wire
  <1>5. w \in Seq(Symbols) /\ Len(w) \in Nat
    BY <1>1, LenProperties DEF StreamType
  <1>6. Len(SubSeq(w, n + 1, Len(w))) < Len(w)
    BY <1>4, <1>5
  <1> QED BY <1>3, <1>4, <1>6 DEF Nearer

LEMMA EndAdvances ==
  ASSUME StreamInv, NEW q \in Queries, Rejected(q) \/ Close(q)
  PROVE  Distance(stream'[q]) < Distance(stream[q])
  <1>1. stream[q] \in StreamType /\ q \in DOMAIN stream
    BY DEF StreamInv, StreamHolds
  <1>2. stream[q].at \in {"opening", "refusal", "reading"}
    BY DEF Rejected, Close
  <1>3. stream'[q].at = "over"
    <2>1. CASE Rejected(q)
      BY <1>1, <2>1, StreamFacts DEF Rejected
    <2>2. CASE Close(q)
      <3>1. PICK k \in Nat, r \in 0 .. 4 : \E s : CloseForm(q, k, r, s)
        BY <2>2, CloseDoes
      <3>2. PICK s : CloseForm(q, k, r, s)
        BY <3>1
      <3> QED BY <1>1, <3>2 DEF CloseForm
    <2> QED BY <2>1, <2>2
  <1>4. Distance(stream'[q]) = 0 /\ Distance(stream[q]) \in {1, 2, 3, 5}
    BY <1>1, <1>2, <1>3, Distances
  <1> QED BY <1>4

LEMMA GeneratorAdvances ==
  ASSUME PageInv, StreamInv, NEW q \in Queries, Network(q), ~Settle(q)
  PROVE  /\ Nearer(stream'[q], stream[q]) /\ UNCHANGED unsettled
         /\ \A p \in Queries \ {q} : stream'[p] = stream[p]
  <1>1. Nearer(stream'[q], stream[q])
    BY RefusedAdvances, RefreshedAdvances, OpenedAdvances, ReadAdvances, EndAdvances
       DEF Network, Nearer
  <1>2. UNCHANGED unsettled
    BY DEF Network, Refused, Refreshed, Opened, Read, Rejected, Close, others
  <1>3. \E s : stream' = [stream EXCEPT ![q] = s]
    <2>0. q \in DOMAIN stream
      BY DEF StreamInv
    <2>1. CASE Refused(q)
      <3>1. PICK place : Goes(q, place)
        BY <2>1 DEF Refused
      <3> QED BY <2>0, <3>1 DEF Goes
    <2>2. CASE Refreshed(q)
      <3>1. \/ stream' = [stream EXCEPT ![q].at = "opening", ![q].again = TRUE]
            \/ stream' = [stream EXCEPT ![q].at = "refusal"]
        BY <2>2 DEF Refreshed, Goes
      <3>2. \/ stream' = [stream EXCEPT ![q] = [stream[q] EXCEPT !.at = "opening", !.again = TRUE]]
            \/ stream' = [stream EXCEPT ![q] = [stream[q] EXCEPT !.at = "refusal"]]
        BY <2>0, <3>1
      <3> QED BY <3>2
    <2>3. CASE Opened(q)
      <3>0. PICK script \in Scripts, ending \in {"complete", "cut", "broken"} : \E sent :
              stream' = [stream EXCEPT ![q].at = "reading", ![q].ending = ending,
                  ![q].sent = sent, ![q].wire = Bytes(script, sent),
                  ![q].script = SubSeq(script, 1, (sent + FrameLength - 1) \div FrameLength)]
        BY <2>3, Zenon DEF Opened
      <3>1. PICK sent :
              stream' = [stream EXCEPT ![q].at = "reading", ![q].ending = ending,
                  ![q].sent = sent, ![q].wire = Bytes(script, sent),
                  ![q].script = SubSeq(script, 1, (sent + FrameLength - 1) \div FrameLength)]
        BY <3>0
      <3> DEFINE s == [stream[q] EXCEPT !.at = "reading", !.ending = ending,
                  !.sent = sent, !.wire = Bytes(script, sent),
                  !.script = SubSeq(script, 1, (sent + FrameLength - 1) \div FrameLength)]
      <3>2. stream' = [stream EXCEPT ![q] = s]
        BY <2>0, <3>1, Zenon
      <3> QED BY <3>2
    <2>4. CASE Rejected(q)
      BY <2>4 DEF Rejected
    <2>5. CASE Read(q)
      <3>1. PICK k \in Nat, r \in 0 .. 4, p \in Nat : \E s : ReadForm(q, k, r, p, s)
        BY <2>5, ReadDoes
      <3> QED BY <3>1 DEF ReadForm
    <2>6. CASE Close(q)
      <3>1. PICK k \in Nat, r \in 0 .. 4 : \E s : CloseForm(q, k, r, s)
        BY <2>6, CloseDoes
      <3> QED BY <3>1 DEF CloseForm
    <2> QED BY <2>1, <2>2, <2>3, <2>4, <2>5, <2>6 DEF Network
  <1>4. \A p \in Queries \ {q} : stream'[p] = stream[p]
    BY <1>3 DEF StreamInv
  <1> QED BY <1>1, <1>2, <1>4

(* What the user does brings no stream farther from its end, except that   *)
(* it asks a new question.                                                 *)
LEMMA UserAdvances ==
  ASSUME PageInv, StreamInv, User \/ Record, NEW q \in Queries
  PROVE  /\ Nearer(stream'[q], stream[q]) \/ AsFar(stream'[q], stream[q]) \/ Fresh(q)
         /\ q \in unsettled' \ unsettled => Fresh(q)
  <1>0. ASSUME stream'[q] = stream[q] PROVE AsFar(stream'[q], stream[q])
    BY <1>0 DEF AsFar
  <1>1. CASE Toggle \/ Return \/ Forget \/ Record
    <2>1. UNCHANGED <<stream, unsettled>>
      BY <1>1 DEF Toggle, Return, Forget, Record
    <2> QED BY <1>0, <2>1
  <1>2. CASE Mutate
    BY <1>0, <1>2 DEF Mutate, Fresh
  <1>3. CASE Start
    <2>1. UNCHANGED unsettled /\ asked' = asked + 1
      BY <1>3 DEF Start
    <2>2. CASE q = asked + 1
      BY <2>1, <2>2 DEF Fresh
    <2>3. CASE q # asked + 1
      <3>1. stream'[q] = IF stream[q].at = "over" THEN Gone ELSE Superseded(q)
        BY <1>3, <2>3 DEF Start
      <3>2. stream'[q] \in {Gone, Severed(q), stream[q]}
        BY <3>1 DEF Superseded
      <3>3. Nearer(Gone, stream[q]) \/ AsFar(Gone, stream[q])
        BY NoFarther DEF Gone
      <3> QED BY <1>0, <2>1, <3>2, <3>3, SeveredNoFarther
    <2> QED BY <2>2, <2>3
  <1>4. CASE Cancel
    <2>1. UNCHANGED unsettled
      BY <1>4 DEF Cancel
    <2>2. CASE streaming
      <3>1. stream' = [stream EXCEPT ![current] = Severed(current)]
        BY <1>4, <2>2 DEF Cancel
      <3>2. stream'[q] \in {Severed(q), stream[q]}
        BY <3>1 DEF StreamInv
      <3> QED BY <1>0, <2>1, <3>2, SeveredNoFarther
    <2>3. CASE ~streaming
      <3>1. UNCHANGED stream
        BY <1>4, <2>3 DEF Cancel
      <3> QED BY <1>0, <2>1, <3>1
    <2> QED BY <2>2, <2>3
  <1>5. CASE Leave
    <2>1. UNCHANGED unsettled
      BY <1>5 DEF Leave
    <2>2. \/ stream'[q] = NoStream /\ stream[q].at = "none"
          \/ stream'[q] = [NoStream EXCEPT !.at = "over"]
          \/ stream'[q] = [NoStream EXCEPT !.at = "orphan"]
      BY <1>5 DEF Leave, Gone
    <2>3. NoStream = [NoStream EXCEPT !.at = "none"]
      BY DEF NoStream
    <2>4. stream'[q] \in {[NoStream EXCEPT !.at = place] : place \in {"none", "over", "orphan"}}
      BY <2>2, <2>3
    <2> QED BY <2>1, <2>4, NoFarther
  <1> QED BY <1>1, <1>2, <1>3, <1>4, <1>5 DEF User

(* No question goes on for ever: each step of a stream leaves it fewer     *)
(* awaits, for it is opened again at most once, or fewer symbols to read;  *)
(* a call settles once; and nothing the user does lengthens either, unless *)
(* it asks another question (sse.ts:146-209, useQuerySubmit.ts:55-68).     *)
THEOREM StreamsAdvance == Spec => [][Advancing]_vars
  <1>1. PageInv /\ StreamInv /\ [Next]_vars => [Advancing]_vars
    <2> SUFFICES ASSUME PageInv, StreamInv, Next, NEW q \in Queries
                 PROVE  /\ Network(q) => \/ Nearer(stream'[q], stream[q]) /\ UNCHANGED unsettled
                                         \/ /\ UNCHANGED stream /\ q \in unsettled
                                            /\ unsettled' = unsettled \ {q}
                        /\ \/ Nearer(stream'[q], stream[q]) \/ AsFar(stream'[q], stream[q])
                           \/ Fresh(q)
                        /\ q \in unsettled' \ unsettled => Fresh(q)
      BY DEF Advancing
    <2>1. Network(q) => \/ Nearer(stream'[q], stream[q]) /\ UNCHANGED unsettled
                        \/ /\ UNCHANGED stream /\ q \in unsettled
                           /\ unsettled' = unsettled \ {q}
      BY GeneratorAdvances DEF Settle
    <2>2. CASE User \/ Record
      BY <2>1, <2>2, UserAdvances
    <2>3. ASSUME NEW p \in Queries, Network(p)
          PROVE  /\ Nearer(stream'[q], stream[q]) \/ AsFar(stream'[q], stream[q])
                 /\ q \notin unsettled' \ unsettled
      <3>1. CASE Settle(p)
        <4>1. UNCHANGED stream /\ unsettled' = unsettled \ {p}
          BY <3>1 DEF Settle
        <4> QED BY <4>1 DEF AsFar
      <3>2. CASE ~Settle(p)
        <4>1. /\ Nearer(stream'[p], stream[p]) /\ UNCHANGED unsettled
              /\ \A x \in Queries \ {p} : stream'[x] = stream[x]
          BY <2>3, <3>2, GeneratorAdvances
        <4> QED BY <4>1 DEF AsFar
      <3> QED BY <3>1, <3>2
    <2> QED BY <2>1, <2>2, <2>3 DEF Next
  <1> QED BY <1>1, Invariant, StreamsInvariant, PTL DEF Spec
=============================================================================
