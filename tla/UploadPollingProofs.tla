------------------------- MODULE UploadPollingProofs -------------------------
(***************************************************************************)
(* Theorems about UploadPolling, for any documents and uploads in flight.  *)
(***************************************************************************)
EXTENDS UploadPolling, TLAPS

LEMMA FetchTypes ==
  ASSUME NEW views, NEW retried \in BOOLEAN
  PROVE  /\ Idle \in Fetch(views)
         /\ Sent(retried) \in Fetch(views)
         /\ Idle # Sent(retried)
         /\ \A f \in Fetch(views), v \in views : f.stage = "sent" =>
              /\ Answered(f, v) \in Fetch(views) /\ Answered(f, v) # Idle
         /\ \A f \in Fetch(views) : f # Idle =>
              /\ f.retried \in BOOLEAN /\ f.stage \in {"sent", "answered"}
              /\ f.stage = "answered" => f.view \in views
         /\ \A f \in Fetch(views) : f.stage # "idle" => f # Idle
  BY DEF Fetch, Idle, Sent, Answered

LEMMA RowType ==
  ASSUME TypeOK, NEW d \in Docs
  PROVE  Row(d) \in View
  BY DEF TypeOK, Row, View

LEMMA ViewNotNone == None \notin View
  <1>1. View \subseteq [status : {"absent", "pending", "indexed", "failed"}, upload : Nat]
    BY DEF View, Status, Terminal
  <1> QED BY <1>1, UploadPollingAssumption

LEMMA ShownType ==
  ASSUME TypeOK, NEW a \in ActiveUpload \cup {None}
  PROVE  StatusIn(cache, a) \in Status
  BY DEF TypeOK, StatusIn, View, Status, ActiveUpload

(* A slot in use holds an upload.                                          *)
LEMMA SlotType ==
  ASSUME TypeOK, NEW s \in Slots, upload[s] # Free \/ upload[s].stage # "free"
  PROVE  /\ upload[s] \in [stage : {"sent", "accepted"}, doc : Docs, number : Nat, mine : BOOLEAN]
         /\ upload[s].doc \in Docs /\ upload[s].number \in Nat
  BY DEF TypeOK, Request, Free

LEMMA InvalidateType ==
  ASSUME TypeOK, InvalidateList
  PROVE  /\ list' \in Lists \cup {None} /\ listOld' \in BOOLEAN
         /\ listPoll' \in Fetch(Lists) /\ listFailed' \in BOOLEAN
  BY FetchTypes DEF TypeOK, InvalidateList

LEMMA StartPollType ==
  ASSUME TypeOK, NEW a \in ActiveUpload, StartPoll(a)
  PROVE  /\ poll' \in [Docs -> Fetch(View)]
         /\ clock' \in {"unset", "running", "spent"}
         /\ clockOf' \in ActiveUpload \cup {None}
         /\ poll'[a.doc] # Idle
         /\ \A d \in Docs \ {a.doc} : poll'[d] = poll[d]
         /\ clock' = "spent" => clock = "spent"
  <1>1. a.doc \in Docs
    BY DEF ActiveUpload
  <1>2. CASE poll[a.doc] # Idle
    BY <1>1, <1>2 DEF TypeOK, StartPoll, budget
  <1>3. CASE poll[a.doc] = Idle
    <2>1. Sent(FALSE) \in Fetch(View) /\ Sent(FALSE) # Idle
      BY FetchTypes
    <2>2. poll' = [poll EXCEPT ![a.doc] = Sent(FALSE)]
      BY <1>3 DEF StartPoll
    <2>3. /\ clock' = (IF clock = "unset" THEN "running" ELSE clock)
          /\ clockOf' = (IF clock = "unset" THEN a ELSE clockOf)
      BY <1>3 DEF StartPoll
    <2> QED BY <1>1, <2>1, <2>2, <2>3 DEF TypeOK
  <1> QED BY <1>2, <1>3

(* What a step does to the part of the state its disjunct leaves alone.    *)
LEMMA TypeStep ==
  ASSUME TypeOK, [Next]_vars
  PROVE  TypeOK'
  <1> USE UploadPollingAssumption
  <1>1. CASE UNCHANGED vars
    BY <1>1 DEF TypeOK, vars, server, entry, docList, budget
  <1>2. CASE OpenPage
    BY <1>2, FetchTypes DEF OpenPage, TypeOK, server, entry, budget
  <1>3. CASE ClosePage
    <2>1. \A s \in Slots : upload[s] # Free => [upload[s] EXCEPT !.mine = FALSE] \in Request
      <3> SUFFICES ASSUME NEW s \in Slots, upload[s] # Free
                   PROVE  [upload[s] EXCEPT !.mine = FALSE] \in Request
        OBVIOUS
      <3>1. upload[s] \in [stage : {"sent", "accepted"}, doc : Docs, number : Nat, mine : BOOLEAN]
        BY SlotType
      <3> QED BY <3>1 DEF Request
    <2>2. Free \in Request
      BY DEF Request
    <2>3. upload' = [s \in Slots |->
            IF upload[s] = Free THEN Free ELSE [upload[s] EXCEPT !.mine = FALSE]]
      BY <1>3 DEF ClosePage
    <2>4. upload' \in [Slots -> Request]
      BY <2>1, <2>2, <2>3
    <2> QED BY <1>3, <2>4 DEF ClosePage, TypeOK, server, entry, docList
  <1>4. CASE UploadAnother
    BY <1>4 DEF UploadAnother, TypeOK, server, entry, docList, budget
  <1>5. CASE Tick
    <2>1. active \in ActiveUpload
      BY <1>5 DEF Tick, TypeOK
    <2>2. /\ poll' \in [Docs -> Fetch(View)]
          /\ clock' \in {"unset", "running", "spent"}
          /\ clockOf' \in ActiveUpload \cup {None}
      BY <1>5, <2>1, StartPollType DEF Tick
    <2>3. armed' \in BOOLEAN
      BY <1>5 DEF Tick, Armed
    <2> QED BY <1>5, <2>2, <2>3, <2>1 DEF Tick, TypeOK, server, docList
  <1>6. ASSUME NEW s \in Slots, NEW d \in Docs, SelectFile(s, d)
        PROVE  TypeOK'
    <2>1. upload' \in [Slots -> Request]
      BY <1>6 DEF SelectFile, TypeOK, Request
    <2> QED BY <1>6, <2>1 DEF SelectFile, TypeOK, server, entry, docList, budget
  <1>7. ASSUME NEW s \in Slots, ServeUpload(s)
        PROVE  TypeOK'
    <2>1. /\ upload[s] \in [stage : {"sent", "accepted"}, doc : Docs, number : Nat, mine : BOOLEAN]
          /\ upload[s].doc \in Docs
      BY <1>7, SlotType DEF ServeUpload
    <2> DEFINE d == upload[s].doc
    <2>2. /\ uploads' = [uploads EXCEPT ![d] = uploads[d] + 1]
          /\ status' = [status EXCEPT ![d] = "pending"]
          /\ upload' = [upload EXCEPT ![s] = [upload[s] EXCEPT !.stage = "accepted", !.number = uploads'[d]]]
      BY <1>7 DEF ServeUpload, Server!Accept
    <2>3. uploads' \in [Docs -> Nat] /\ status' \in [Docs -> Status]
      BY <2>1, <2>2 DEF TypeOK, Status
    <2>4. upload' \in [Slots -> Request]
      BY <2>1, <2>2, <2>3 DEF TypeOK, Request
    <2> QED BY <1>7, <2>3, <2>4 DEF ServeUpload, TypeOK, entry, docList, budget
  <1>8. ASSUME NEW s \in Slots, UploadAccepted(s)
        PROVE  TypeOK'
    <2>1. upload[s].doc \in Docs /\ upload[s].number \in Nat
      BY <1>8, SlotType DEF UploadAccepted
    <2>2. upload' \in [Slots -> Request]
      BY <1>8 DEF UploadAccepted, TypeOK, Request
    <2>3. /\ list' \in Lists \cup {None} /\ listOld' \in BOOLEAN
          /\ listPoll' \in Fetch(Lists) /\ listFailed' \in BOOLEAN
      BY <1>8, InvalidateType DEF UploadAccepted
    <2>4. UNCHANGED <<status, uploads, cache, old, failed, open>>
      BY <1>8 DEF UploadAccepted, server
    <2>5. CASE upload[s].mine
      <3> DEFINE a == [doc |-> upload[s].doc, upload |-> upload[s].number]
                 shown == StatusIn(cache, a)
      <3>1. a \in ActiveUpload /\ a # None
        BY <2>1 DEF ActiveUpload
      <3>2. /\ active' = a
            /\ IF Refetches(a.doc) THEN StartPoll(a) ELSE UNCHANGED <<poll, budget>>
            /\ armed' = Armed(shown, clock)
            /\ notified' = IF shown \in Terminal THEN shown ELSE notified
        BY <1>8, <2>5 DEF UploadAccepted
      <3>3. /\ poll' \in [Docs -> Fetch(View)]
            /\ clock' \in {"unset", "running", "spent"}
            /\ clockOf' \in ActiveUpload \cup {None}
        BY <3>1, <3>2, StartPollType DEF TypeOK, budget
      <3>4. armed' \in BOOLEAN /\ notified' \in Terminal \cup {None}
        BY <3>2 DEF TypeOK, Armed
      <3> QED BY <2>2, <2>3, <2>4, <3>1, <3>2, <3>3, <3>4 DEF TypeOK
    <2>6. CASE ~upload[s].mine
      <3>1. UNCHANGED <<poll, active, armed, budget, notified>>
        BY <1>8, <2>6 DEF UploadAccepted
      <3> QED BY <2>2, <2>3, <2>4, <3>1 DEF TypeOK, budget
    <2> QED BY <2>5, <2>6
  <1>9. ASSUME NEW s \in Slots, UploadFails(s)
        PROVE  TypeOK'
    <2>1. upload' \in [Slots -> Request]
      BY <1>9 DEF UploadFails, TypeOK, Request
    <2> QED BY <1>9, <2>1 DEF UploadFails, TypeOK, server, entry, docList, budget
  <1>10. ASSUME NEW d \in Docs, Settle(d)
         PROVE  TypeOK'
    <2>1. status' \in [Docs -> Status]
      BY <1>10 DEF Settle, TypeOK, Server!Publish, Server!Fail, Status, Terminal
    <2> QED BY <1>10, <2>1 DEF Settle, TypeOK, entry, docList, budget
  <1>11. ASSUME NEW d \in Docs, ServePoll(d)
         PROVE  TypeOK'
    <2>1. poll[d] \in Fetch(View) /\ Row(d) \in View
      BY RowType DEF TypeOK
    <2>2. Answered(poll[d], Row(d)) \in Fetch(View)
      BY <1>11, <2>1, FetchTypes DEF ServePoll
    <2> QED BY <1>11, <2>2 DEF ServePoll, TypeOK, server, docList, budget
  <1>12. ASSUME NEW d \in Docs, PollAnswered(d)
         PROVE  TypeOK'
    <2>1. poll[d] \in Fetch(View) /\ poll[d] # Idle /\ poll[d].view \in View
      BY <1>12, FetchTypes DEF TypeOK, PollAnswered
    <2>2. /\ cache' \in [Docs -> View \cup {None}] /\ old' \in [Docs -> BOOLEAN]
          /\ poll' \in [Docs -> Fetch(View)] /\ failed' \in [Docs -> BOOLEAN]
      BY <1>12, <2>1, FetchTypes DEF PollAnswered, TypeOK
    <2>3. UNCHANGED <<status, uploads, upload, open, active, clock, clockOf>>
      BY <1>12 DEF PollAnswered, server, budget
    <2>4. CASE Active(d)
      <3>1. armed' = Armed(poll[d].view.status, clock) /\ Notify(poll[d].view.status)
        BY <1>12, <2>4 DEF PollAnswered
      <3>2. /\ notified' \in Terminal \cup {None}
            /\ list' \in Lists \cup {None} /\ listOld' \in BOOLEAN
            /\ listPoll' \in Fetch(Lists) /\ listFailed' \in BOOLEAN
        BY <3>1, InvalidateType DEF Notify, TypeOK, docList
      <3>3. armed' \in BOOLEAN /\ active # None
        BY <3>1, <2>4 DEF Armed, Active
      <3> QED BY <2>2, <2>3, <3>2, <3>3 DEF TypeOK
    <2>5. CASE ~Active(d)
      <3>1. UNCHANGED <<armed, notified, docList>>
        BY <1>12, <2>5 DEF PollAnswered
      <3> QED BY <2>2, <2>3, <3>1 DEF TypeOK, docList
    <2> QED BY <2>4, <2>5
  <1>13. ASSUME NEW d \in Docs, PollFails(d)
         PROVE  TypeOK'
    <2>0. Sent(TRUE) \in Fetch(View) /\ Idle \in Fetch(View)
      BY FetchTypes
    <2>1. poll' \in [Docs -> Fetch(View)] /\ failed' \in [Docs -> BOOLEAN]
      BY <1>13, <2>0 DEF PollFails, TypeOK
    <2>2. armed' \in BOOLEAN /\ (armed' => active # None)
      BY <1>13 DEF PollFails, TypeOK, Armed, Active
    <2> QED BY <1>13, <2>1, <2>2 DEF PollFails, TypeOK, server, docList, budget
  <1>14. CASE ServeList
    <2>1. [d \in Docs |-> Row(d)] \in Lists
      BY RowType DEF Lists
    <2>2. Answered(listPoll, [d \in Docs |-> Row(d)]) \in Fetch(Lists)
      BY <1>14, <2>1, FetchTypes DEF ServeList, TypeOK
    <2> QED BY <1>14, <2>2 DEF ServeList, TypeOK, server, entry, budget
  <1>15. CASE ListAnswered
    <2>1. listPoll # Idle /\ listPoll.view \in Lists
      BY <1>15, FetchTypes DEF ListAnswered, TypeOK
    <2> QED BY <1>15, <2>1, FetchTypes DEF ListAnswered, TypeOK, server, entry, budget
  <1>16. CASE ListFails
    BY <1>16, FetchTypes DEF ListFails, TypeOK, server, entry, budget
  <1>17. CASE RetryList
    BY <1>17, FetchTypes DEF RetryList, TypeOK, server, entry, budget
  <1>18. CASE Age
    <2>1. /\ cache' \in [Docs -> View \cup {None}] /\ old' \in [Docs -> BOOLEAN]
          /\ listOld' \in BOOLEAN
      BY <1>18 DEF Age, TypeOK
    <2> QED BY <1>18, <2>1 DEF Age, TypeOK, server, budget
  <1>19. CASE SpendBudget
    BY <1>19 DEF SpendBudget, TypeOK, server, entry, docList
  <1> QED BY <1>1, <1>2, <1>3, <1>4, <1>5, <1>6, <1>7, <1>8, <1>9, <1>10, <1>11, <1>12,
            <1>13, <1>14, <1>15, <1>16, <1>17, <1>18, <1>19 DEF Next

\* Whatever is uploaded, polled, left or lost, the variables keep their types
\* and the interval runs only for a document the panel waits for
\* (DocumentUploadPanel, useIngestStatus).
THEOREM TypeCorrect == Spec => []TypeOK
  <1>1. Init => TypeOK
    <2> SUFFICES ASSUME Init PROVE TypeOK
      OBVIOUS
    <2>1. status \in [Docs -> Status]
      BY DEF Init, Server!Init, Status
    <2>2. Free \in Request
      BY DEF Request
    <2> QED BY <2>1, <2>2, FetchTypes DEF Init, TypeOK
  <1> QED BY <1>1, TypeStep, PTL DEF Spec
-----------------------------------------------------------------------------
(* Polling goes on.                                                        *)

(* The steps that leave the timer alone.                                   *)
LEMMA PollingFrame ==
  ASSUME PollingGoesOn, active' = active, armed' = armed, clock' \in {clock, "spent"},
         active # None => /\ cache'[active.doc] = cache[active.doc]
                          /\ poll[active.doc] # Idle => poll'[active.doc] # Idle
  PROVE  PollingGoesOn'
  BY DEF PollingGoesOn, Shown, StatusIn

LEMMA PollingStep ==
  ASSUME TypeOK, PollingGoesOn, [Next]_vars
  PROVE  PollingGoesOn'
  <1> USE UploadPollingAssumption
  <1> DEFINE Framed == /\ active' = active /\ armed' = armed /\ clock' = clock
                       /\ cache' = cache /\ poll' = poll
  <1>1. ASSUME Framed PROVE PollingGoesOn'
    BY <1>1, PollingFrame
  <1>2. CASE UNCHANGED vars
    BY <1>1, <1>2 DEF vars, entry, budget
  <1>3. CASE OpenPage \/ ServeList \/ ListAnswered \/ ListFails \/ RetryList
    BY <1>1, <1>3 DEF OpenPage, ServeList, ListAnswered, ListFails, RetryList, entry, budget
  <1>4. CASE ClosePage \/ UploadAnother
    BY <1>4 DEF ClosePage, UploadAnother, PollingGoesOn
  <1>5. ASSUME NEW d \in Docs, Settle(d) \/ \E s \in Slots : SelectFile(s, d)
        PROVE  PollingGoesOn'
    BY <1>1, <1>5 DEF SelectFile, Settle, entry, budget
  <1>6. ASSUME NEW s \in Slots, ServeUpload(s) \/ UploadFails(s)
        PROVE  PollingGoesOn'
    BY <1>1, <1>6 DEF ServeUpload, UploadFails, entry, budget
  <1>7. CASE Tick
    <2>1. active \in ActiveUpload /\ active' = active
      BY <1>7 DEF Tick, TypeOK
    <2>2. poll'[active.doc] # Idle
      BY <1>7, <2>1, StartPollType DEF Tick
    <2> QED BY <2>1, <2>2 DEF PollingGoesOn
  <1>8. ASSUME NEW s \in Slots, UploadAccepted(s)
        PROVE  PollingGoesOn'
    <2>1. CASE upload[s].mine
      <3> DEFINE a == [doc |-> upload[s].doc, upload |-> upload[s].number]
      <3>1. a \in ActiveUpload
        BY <1>8, SlotType DEF UploadAccepted, ActiveUpload
      <3>2. /\ active' = a /\ cache' = cache
            /\ armed' = Armed(StatusIn(cache, a), clock)
            /\ IF Refetches(a.doc) THEN StartPoll(a) ELSE UNCHANGED <<poll, budget>>
        BY <1>8, <2>1 DEF UploadAccepted
      <3>3. CASE Refetches(a.doc)
        BY <3>1, <3>2, <3>3, StartPollType DEF PollingGoesOn
      <3>4. CASE ~Refetches(a.doc)
        <4>1. clock' = clock
          BY <3>2, <3>4 DEF budget
        <4> QED BY <3>2, <4>1 DEF PollingGoesOn, Armed, Shown
      <3> QED BY <3>3, <3>4
    <2>2. CASE ~upload[s].mine
      BY <1>1, <1>8, <2>2 DEF UploadAccepted, budget
    <2> QED BY <2>1, <2>2
  <1>9. ASSUME NEW d \in Docs, ServePoll(d)
        PROVE  PollingGoesOn'
    <2>1. poll[d] \in Fetch(View)
      BY DEF TypeOK
    <2>2. Answered(poll[d], Row(d)) # Idle
      BY DEF Answered, Idle
    <2>3. active # None => active.doc \in Docs
      BY DEF TypeOK, ActiveUpload
    <2>4. /\ active' = active /\ armed' = armed /\ clock' = clock /\ cache' = cache
          /\ poll' = [poll EXCEPT ![d] = Answered(poll[d], Row(d))]
      BY <1>9 DEF ServePoll, budget
    <2>5. active # None /\ poll[active.doc] # Idle => poll'[active.doc] # Idle
      BY <2>2, <2>3, <2>4 DEF TypeOK
    <2> QED BY <2>4, <2>5, PollingFrame
  <1>10. ASSUME NEW d \in Docs, PollAnswered(d)
         PROVE  PollingGoesOn'
    <2>1. active # None => active.doc \in Docs
      BY DEF TypeOK, ActiveUpload
    <2>2. /\ active' = active /\ clock' = clock
          /\ cache' = [cache EXCEPT ![d] = poll[d].view]
          /\ poll' = [poll EXCEPT ![d] = Idle]
      BY <1>10 DEF PollAnswered, budget
    <2>3. CASE Active(d)
      <3>1. armed' = Armed(poll[d].view.status, clock)
        BY <1>10, <2>3 DEF PollAnswered
      <3>2. active # None /\ active.doc = d
        BY <2>3 DEF Active
      <3>3. cache'[d] = poll[d].view
        BY <2>2 DEF TypeOK
      <3>4. poll[d] # Idle /\ poll[d].stage = "answered" /\ poll[d] \in Fetch(View)
        BY <1>10 DEF PollAnswered, TypeOK, Idle
      <3>5. poll[d].view \in View
        BY <3>4, FetchTypes
      <3>6. poll[d].view # None
        BY <3>5, ViewNotNone
      <3> QED BY <2>2, <3>1, <3>2, <3>3, <3>6 DEF PollingGoesOn, Armed, Shown, StatusIn
    <2>4. CASE ~Active(d)
      <3>1. armed' = armed
        BY <1>10, <2>4 DEF PollAnswered
      <3>2. active # None => cache'[active.doc] = cache[active.doc] /\ poll'[active.doc] = poll[active.doc]
        BY <2>1, <2>2, <2>4 DEF Active, TypeOK
      <3> QED BY <2>2, <3>1, <3>2, PollingFrame
    <2> QED BY <2>3, <2>4
  <1>11. ASSUME NEW d \in Docs, PollFails(d)
         PROVE  PollingGoesOn'
    <2>1. /\ active' = active /\ clock' = clock /\ cache' = cache
          /\ armed' = IF Active(d) THEN Armed(Shown, clock) ELSE armed
      BY <1>11 DEF PollFails, budget
    <2>2. CASE Active(d)
      BY <2>1, <2>2 DEF PollingGoesOn, Armed, Shown
    <2>3. CASE ~Active(d)
      <3>1. active # None => active.doc \in Docs /\ active.doc # d
        BY <2>3 DEF Active, TypeOK, ActiveUpload
      <3>2. active # None => poll'[active.doc] = poll[active.doc]
        BY <1>11, <3>1 DEF PollFails, TypeOK
      <3> QED BY <2>1, <2>3, <3>2, PollingFrame
    <2> QED BY <2>2, <2>3
  <1>12. CASE Age
    <2>1. /\ active' = active /\ armed' = armed /\ clock' = clock /\ poll' = poll
          /\ active # None => cache'[active.doc] = cache[active.doc]
      BY <1>12 DEF Age, Active, TypeOK, ActiveUpload, budget
    <2> QED BY <2>1, PollingFrame
  <1>13. CASE SpendBudget
    BY <1>13, PollingFrame DEF SpendBudget, entry
  <1> QED BY <1>2, <1>3, <1>4, <1>5, <1>6, <1>7, <1>8, <1>9, <1>10, <1>11, <1>12, <1>13 DEF Next

\* As long as the panel says a document is being indexed and the budget is not
\* spent, the interval is set or a fetch is in flight (useIngestStatus).
THEOREM PollsUntilSettled == Spec => []PollingGoesOn
  <1>1. Init => PollingGoesOn
    BY DEF Init, PollingGoesOn
  <1> QED BY <1>1, PollingStep, TypeCorrect, PTL DEF Spec
-----------------------------------------------------------------------------
(* The outcome shown is that of the upload, for patient users.             *)

Mine(s) == upload[s] # Free /\ upload[s].mine

OneMine == \A r, s \in Slots : Mine(r) /\ Mine(s) => r = s

\* Nothing fetches the document of an upload before it is accepted, and its
\* entry will be fetched then.
MineWaits ==
  \A s \in Slots : Mine(s) =>
    active = None /\ poll[upload[s].doc] = Idle /\ Refetches(upload[s].doc)

NumbersCurrent ==
  /\ \A s \in Slots : upload[s] # Free => upload[s].number <= uploads[upload[s].doc]
  /\ active # None => active.upload <= uploads[active.doc]

\* What is on its way to the panel was read after its upload was accepted.
AnswersNew ==
  active # None /\ poll[active.doc].stage = "answered" =>
    poll[active.doc].view.upload >= active.upload

OutcomeInv == OneMine /\ MineWaits /\ NumbersCurrent /\ AnswersNew /\ OutcomeIsOfThisUpload

\* The steps that change neither the uploads nor the entries.
LEMMA OutcomeFrame ==
  ASSUME OutcomeInv, upload' = upload, uploads' = uploads,
         active' = active, cache' = cache, old' = old, poll' = poll, failed' = failed
  PROVE  OutcomeInv'
  BY DEF OutcomeInv, OneMine, Mine, MineWaits, Refetches, NumbersCurrent, AnswersNew,
         OutcomeIsOfThisUpload, Shown, StatusIn

\* Uploads that end or lose their panel.
LEMMA FewerMine ==
  ASSUME OutcomeInv, uploads' = uploads, UNCHANGED <<cache, old, poll>>,
         active' \in {active, None},
         \A s \in Slots : upload'[s] # Free =>
           /\ upload[s] # Free /\ upload'[s].doc = upload[s].doc
           /\ upload'[s].number = upload[s].number
           /\ upload'[s].mine => upload[s].mine
  PROVE  /\ OneMine' /\ MineWaits'
         /\ \A s \in Slots : upload'[s] # Free => upload'[s].number <= uploads'[upload'[s].doc]
  BY DEF OutcomeInv, OneMine, Mine, MineWaits, Refetches, NumbersCurrent

\* A document that is active excludes uploads of the panel.
LEMMA NoneMine ==
  ASSUME OutcomeInv, active # None, NEW s \in Slots
  PROVE  ~Mine(s)
  BY DEF OutcomeInv, MineWaits

LEMMA OutcomeStep ==
  ASSUME Reupload = "patient", TypeOK, OutcomeInv, [Next]_vars
  PROVE  OutcomeInv'
  <1>0. active # None => active.doc \in Docs /\ active.upload \in Nat
    BY DEF TypeOK, ActiveUpload
  <1>1. CASE UNCHANGED vars
    BY <1>1, OutcomeFrame DEF vars, server, entry
  <1>2. CASE OpenPage \/ ServeList \/ ListAnswered \/ ListFails \/ RetryList \/ SpendBudget
    BY <1>2, OutcomeFrame DEF OpenPage, ServeList, ListAnswered, ListFails, RetryList, SpendBudget, server, entry
  <1>3. CASE ClosePage
    <2>1. /\ active' = None /\ uploads' = uploads /\ UNCHANGED <<cache, old, poll, failed>>
          /\ upload' = [s \in Slots |->
               IF upload[s] = Free THEN Free ELSE [upload[s] EXCEPT !.mine = FALSE]]
      BY <1>3 DEF ClosePage, server, entry
    <2>2. ASSUME NEW s \in Slots, upload'[s] # Free
          PROVE  /\ upload[s] # Free /\ upload'[s].doc = upload[s].doc
                 /\ upload'[s].number = upload[s].number /\ ~upload'[s].mine
      BY <2>1, <2>2, SlotType
    <2>3. /\ OneMine' /\ MineWaits'
          /\ \A s \in Slots : upload'[s] # Free => upload'[s].number <= uploads'[upload'[s].doc]
      BY <2>1, <2>2, FewerMine
    <2> QED BY <2>1, <2>3 DEF OutcomeInv, NumbersCurrent, AnswersNew, OutcomeIsOfThisUpload
  <1>4. CASE UploadAnother
    <2>1. active' = None /\ uploads' = uploads /\ UNCHANGED <<upload, cache, old, poll>>
      BY <1>4 DEF UploadAnother, server, entry
    <2>2. /\ OneMine' /\ MineWaits'
          /\ \A s \in Slots : upload'[s] # Free => upload'[s].number <= uploads'[upload'[s].doc]
      BY <2>1, FewerMine
    <2> QED BY <2>1, <2>2 DEF OutcomeInv, NumbersCurrent, AnswersNew, OutcomeIsOfThisUpload
  <1>5. CASE Tick
    <2>1. active \in ActiveUpload /\ active # None
      BY <1>5 DEF Tick, TypeOK
    <2>2. active' = active /\ UNCHANGED <<upload, uploads, cache, old, failed>>
      BY <1>5 DEF Tick, server
    <2>3. poll'[active.doc] = poll[active.doc] \/ poll'[active.doc] = Sent(FALSE)
      BY <1>5, <2>1 DEF Tick, StartPoll, TypeOK, ActiveUpload
    <2>4. poll'[active.doc] # Idle
      BY <1>5, <2>1, StartPollType DEF Tick
    <2>5. AnswersNew'
      BY <2>1, <2>2, <2>3 DEF OutcomeInv, AnswersNew, Sent
    <2>6. OneMine' /\ MineWaits'
      BY <2>1, <2>2, NoneMine DEF OneMine, MineWaits, Mine
    <2> QED BY <2>2, <2>4, <2>5, <2>6 DEF OutcomeInv, NumbersCurrent, OutcomeIsOfThisUpload
  <1>6. ASSUME NEW s \in Slots, NEW d \in Docs, SelectFile(s, d)
        PROVE  OutcomeInv'
    <2> DEFINE new == [stage |-> "sent", doc |-> d, number |-> 0, mine |-> TRUE]
    <2>1. /\ active = None /\ active' = None /\ Patient(d)
          /\ \A r \in Slots : ~Mine(r)
          /\ upload' = [upload EXCEPT ![s] = new]
          /\ UNCHANGED <<uploads, cache, old, poll, failed>>
      BY <1>6 DEF SelectFile, Mine, server, entry
    <2>2. \A r \in Slots : upload'[r] = IF r = s THEN new ELSE upload[r]
      BY <2>1 DEF TypeOK
    <2>3. OneMine' /\ MineWaits'
      BY <2>1, <2>2 DEF OneMine, MineWaits, Mine, Patient, Refetches
    <2>4. NumbersCurrent'
      BY <2>1, <2>2 DEF OutcomeInv, NumbersCurrent, TypeOK
    <2> QED BY <2>1, <2>3, <2>4 DEF OutcomeInv, AnswersNew, OutcomeIsOfThisUpload
  <1>7. ASSUME NEW s \in Slots, ServeUpload(s)
        PROVE  OutcomeInv'
    <2> DEFINE d == upload[s].doc
    <2>1. upload[s] # Free /\ d \in Docs
      BY <1>7, SlotType DEF ServeUpload, Free
    <2>2. /\ uploads' = [uploads EXCEPT ![d] = @ + 1]
          /\ upload' = [upload EXCEPT ![s] =
                          [@ EXCEPT !.stage = "accepted", !.number = uploads'[d]]]
          /\ UNCHANGED <<active, cache, old, poll, failed>>
      BY <1>7 DEF ServeUpload, entry
    <2>3. \A e \in Docs : uploads'[e] >= uploads[e] /\ uploads'[e] \in Nat /\ uploads[e] \in Nat
      BY <2>1, <2>2 DEF TypeOK
    <2>4. /\ upload'[s].doc = d /\ upload'[s].number = uploads'[d]
          /\ upload'[s].mine = upload[s].mine
          /\ \A r \in Slots \ {s} : upload'[r] = upload[r]
      BY <2>1, <2>2, SlotType DEF TypeOK
    <2>5. NumbersCurrent'
      <3>1. ASSUME NEW r \in Slots, upload'[r] # Free
            PROVE  upload'[r].number <= uploads'[upload'[r].doc]
        BY <2>1, <2>3, <2>4, <3>1, SlotType DEF OutcomeInv, NumbersCurrent
      <3>2. active' # None => active'.upload <= uploads'[active'.doc]
        BY <1>0, <2>2, <2>3 DEF OutcomeInv, NumbersCurrent
      <3> QED BY <3>1, <3>2 DEF NumbersCurrent
    <2>6. OneMine' /\ MineWaits'
      BY <2>1, <2>2, <2>4 DEF OutcomeInv, OneMine, MineWaits, Mine, Refetches
    <2> QED BY <2>2, <2>5, <2>6 DEF OutcomeInv, AnswersNew, OutcomeIsOfThisUpload, Shown, StatusIn
  <1>8. ASSUME NEW s \in Slots, UploadAccepted(s)
        PROVE  OutcomeInv'
    <2>1. /\ upload[s] # Free /\ upload[s].doc \in Docs /\ upload[s].number \in Nat
          /\ upload' = [upload EXCEPT ![s] = Free]
          /\ UNCHANGED <<uploads, cache, old, failed>>
      BY <1>8, SlotType DEF UploadAccepted, server, Free
    <2>2. \A r \in Slots : upload'[r] = IF r = s THEN Free ELSE upload[r]
      BY <2>1 DEF TypeOK
    <2>3. CASE upload[s].mine
      <3> DEFINE a == [doc |-> upload[s].doc, upload |-> upload[s].number]
      <3>1. a \in ActiveUpload /\ a.doc = upload[s].doc /\ a.upload = upload[s].number
        BY <2>1 DEF ActiveUpload
      <3>2. poll[a.doc] = Idle /\ Refetches(a.doc)
        BY <2>1, <2>3 DEF OutcomeInv, MineWaits, Mine
      <3>3. active' = a /\ StartPoll(a)
        BY <1>8, <2>3, <3>2 DEF UploadAccepted
      <3> HIDE DEF a
      <3>4. poll'[a.doc] = Sent(FALSE) /\ poll'[a.doc] # Idle
        BY <3>1, <3>2, <3>3, <2>1, StartPollType DEF StartPoll, TypeOK
      <3>5. OneMine' /\ MineWaits'
        BY <2>1, <2>2, <2>3 DEF OutcomeInv, OneMine, MineWaits, Mine
      <3>6. NumbersCurrent'
        BY <2>1, <2>2, <3>1, <3>3 DEF OutcomeInv, NumbersCurrent
      <3> QED BY <3>3, <3>4, <3>5, <3>6 DEF OutcomeInv, AnswersNew, OutcomeIsOfThisUpload, Sent
    <2>4. CASE ~upload[s].mine
      <3>1. UNCHANGED <<poll, active>>
        BY <1>8, <2>4 DEF UploadAccepted
      <3>2. /\ OneMine' /\ MineWaits'
            /\ \A r \in Slots : upload'[r] # Free => upload'[r].number <= uploads'[upload'[r].doc]
        BY <2>1, <2>2, <3>1, FewerMine
      <3> QED BY <2>1, <3>1, <3>2 DEF OutcomeInv, NumbersCurrent, AnswersNew,
                OutcomeIsOfThisUpload, Shown, StatusIn
    <2> QED BY <2>3, <2>4
  <1>9. ASSUME NEW s \in Slots, UploadFails(s)
        PROVE  OutcomeInv'
    <2>1. /\ upload' = [upload EXCEPT ![s] = Free]
          /\ UNCHANGED <<uploads, cache, old, poll, failed, active>>
      BY <1>9 DEF UploadFails, server, entry
    <2>2. \A r \in Slots : upload'[r] = IF r = s THEN Free ELSE upload[r]
      BY <2>1 DEF TypeOK
    <2>3. /\ OneMine' /\ MineWaits'
          /\ \A r \in Slots : upload'[r] # Free => upload'[r].number <= uploads'[upload'[r].doc]
      BY <2>1, <2>2, FewerMine
    <2> QED BY <2>1, <2>3 DEF OutcomeInv, NumbersCurrent, AnswersNew,
              OutcomeIsOfThisUpload, Shown, StatusIn
  <1>10. ASSUME NEW d \in Docs, Settle(d)
         PROVE  OutcomeInv'
    BY <1>10, OutcomeFrame DEF Settle, entry
  <1>11. ASSUME NEW d \in Docs, ServePoll(d)
         PROVE  OutcomeInv'
    <2>1. /\ poll' = [poll EXCEPT ![d] = Answered(poll[d], Row(d))]
          /\ poll[d] # Idle
          /\ UNCHANGED <<upload, uploads, cache, old, failed, active>>
      BY <1>11 DEF ServePoll, server, Idle
    <2>2. /\ \A e \in Docs : poll'[e] = IF e = d THEN Answered(poll[d], Row(d)) ELSE poll[e]
          /\ Answered(poll[d], Row(d)) # Idle
          /\ Answered(poll[d], Row(d)).view.upload = uploads[d]
      BY <2>1 DEF TypeOK, Answered, Idle, Row
    <2>3. OneMine' /\ NumbersCurrent'
      BY <2>1 DEF OutcomeInv, OneMine, Mine, NumbersCurrent
    <2>4. MineWaits'
      <3> SUFFICES ASSUME NEW s \in Slots, Mine(s)
                   PROVE  active = None /\ poll'[upload[s].doc] = Idle /\ Refetches(upload[s].doc)
        BY <2>1 DEF MineWaits, Mine, Refetches
      <3>1. active = None /\ poll[upload[s].doc] = Idle /\ Refetches(upload[s].doc)
        BY DEF OutcomeInv, MineWaits
      <3>2. upload[s].doc \in Docs
        BY SlotType DEF Mine
      <3> QED BY <2>1, <2>2, <3>1, <3>2
    <2>5. AnswersNew'
      BY <1>0, <2>1, <2>2 DEF OutcomeInv, AnswersNew, NumbersCurrent, TypeOK
    <2>6. OutcomeIsOfThisUpload'
      BY <1>0, <2>1, <2>2 DEF OutcomeInv, OutcomeIsOfThisUpload, Shown, StatusIn
    <2> QED BY <2>3, <2>4, <2>5, <2>6 DEF OutcomeInv
  <1>12. ASSUME NEW d \in Docs, PollAnswered(d)
         PROVE  OutcomeInv'
    <2>1. /\ poll[d] # Idle /\ poll[d].stage = "answered"
          /\ cache' = [cache EXCEPT ![d] = poll[d].view]
          /\ old' = [old EXCEPT ![d] = FALSE]
          /\ poll' = [poll EXCEPT ![d] = Idle]
          /\ failed' = [failed EXCEPT ![d] = FALSE]
          /\ UNCHANGED <<upload, uploads, active>>
      BY <1>12 DEF PollAnswered, server, Idle
    <2>2. \A e \in Docs :
            /\ cache'[e] = IF e = d THEN poll[d].view ELSE cache[e]
            /\ old'[e] = IF e = d THEN FALSE ELSE old[e]
            /\ poll'[e] = IF e = d THEN Idle ELSE poll[e]
            /\ failed'[e] = IF e = d THEN FALSE ELSE failed[e]
      BY <2>1 DEF TypeOK
    <2>3. OneMine' /\ NumbersCurrent'
      BY <2>1 DEF OutcomeInv, OneMine, Mine, NumbersCurrent
    <2>4. MineWaits'
      <3> SUFFICES ASSUME NEW s \in Slots, Mine(s)
                   PROVE  /\ active = None /\ poll'[upload[s].doc] = Idle
                          /\ cache'[upload[s].doc] = None \/ old'[upload[s].doc]
        BY <2>1 DEF MineWaits, Mine, Refetches
      <3>1. active = None /\ poll[upload[s].doc] = Idle /\ Refetches(upload[s].doc)
        BY DEF OutcomeInv, MineWaits
      <3>2. upload[s].doc \in Docs /\ upload[s].doc # d
        BY <2>1, <3>1, SlotType DEF Mine
      <3> QED BY <2>2, <3>1, <3>2 DEF Refetches
    <2>5. AnswersNew'
      BY <1>0, <2>1, <2>2 DEF OutcomeInv, AnswersNew, Idle
    <2>6. OutcomeIsOfThisUpload'
      BY <1>0, <2>1, <2>2 DEF OutcomeInv, AnswersNew, OutcomeIsOfThisUpload, Shown, StatusIn
    <2> QED BY <2>3, <2>4, <2>5, <2>6 DEF OutcomeInv
  <1>13. ASSUME NEW d \in Docs, PollFails(d)
         PROVE  OutcomeInv'
    <2>1. /\ poll[d] # Idle
          /\ UNCHANGED <<upload, uploads, cache, old, active>>
      BY <1>13 DEF PollFails, server
    <2>2. /\ \A e \in Docs \ {d} : poll'[e] = poll[e] /\ failed'[e] = failed[e]
          /\ \/ poll'[d] = Sent(TRUE)
             \/ poll'[d] = Idle /\ failed'[d]
      BY <1>13 DEF PollFails, TypeOK
    <2>3. OneMine' /\ NumbersCurrent'
      BY <2>1 DEF OutcomeInv, OneMine, Mine, NumbersCurrent
    <2>4. MineWaits'
      <3> SUFFICES ASSUME NEW s \in Slots, Mine(s)
                   PROVE  active = None /\ poll'[upload[s].doc] = Idle /\ Refetches(upload[s].doc)
        BY <2>1 DEF MineWaits, Mine, Refetches
      <3>1. active = None /\ poll[upload[s].doc] = Idle /\ Refetches(upload[s].doc)
        BY DEF OutcomeInv, MineWaits
      <3>2. upload[s].doc \in Docs /\ upload[s].doc # d
        BY <2>1, <3>1, SlotType DEF Mine
      <3> QED BY <2>2, <3>1, <3>2
    <2>5. AnswersNew'
      BY <1>0, <2>1, <2>2 DEF OutcomeInv, AnswersNew, Idle, Sent
    <2>6. OutcomeIsOfThisUpload'
      BY <1>0, <2>1, <2>2 DEF OutcomeInv, OutcomeIsOfThisUpload, Shown, StatusIn, Idle, Sent
    <2> QED BY <2>3, <2>4, <2>5, <2>6 DEF OutcomeInv
  <1>14. CASE Age
    <2>1. /\ UNCHANGED <<upload, uploads, poll, failed, active>>
          /\ active # None => cache'[active.doc] = cache[active.doc]
          /\ \A d \in Docs : Refetches(d) => cache'[d] = None \/ old'[d]
      BY <1>0, <1>14 DEF Age, Active, TypeOK, Refetches, server
    <2>2. OneMine' /\ NumbersCurrent' /\ AnswersNew'
      BY <2>1 DEF OutcomeInv, OneMine, Mine, NumbersCurrent, AnswersNew
    <2>3. MineWaits'
      BY <2>1, SlotType DEF OutcomeInv, MineWaits, Mine, Refetches
    <2>4. OutcomeIsOfThisUpload'
      BY <2>1 DEF OutcomeInv, OutcomeIsOfThisUpload, Shown, StatusIn
    <2> QED BY <2>2, <2>3, <2>4 DEF OutcomeInv
  <1> QED BY <1>1, <1>2, <1>3, <1>4, <1>5, <1>6, <1>7, <1>8, <1>9, <1>10, <1>11, <1>12,
            <1>13, <1>14 DEF Next

\* For users who wait out staleTime before they upload a document again, the
\* outcome the panel settles on is never that of an earlier upload, whichever
\* fetches and uploads of left pages are still about (DocumentUploadPanel).
THEOREM OutcomeIsRight ==
  ASSUME Reupload = "patient"
  PROVE  Spec => []OutcomeIsOfThisUpload
  <1>1. Init => OutcomeInv
    BY DEF Init, OutcomeInv, OneMine, MineWaits, Mine, NumbersCurrent, AnswersNew,
           OutcomeIsOfThisUpload
  <1>2. OutcomeInv => OutcomeIsOfThisUpload
    BY DEF OutcomeInv
  <1> QED BY <1>1, <1>2, OutcomeStep, TypeCorrect, PTL DEF Spec
-----------------------------------------------------------------------------
(* The list catches up, for patient users.                                 *)

\* A row that shows an outcome, or is of a later upload than the first.
Done(v) == v.upload > 1 \/ v.status \in Terminal

\* What was read of a document once; an outcome stays one, or is overtaken.
Read(v, d) ==
  v.upload <= uploads[d] /\ (v.status \in Terminal => v.upload >= 1 /\ Done(Row(d)))

ReadsHold ==
  \A d \in Docs :
    /\ status[d] # "absent" => uploads[d] >= 1
    /\ cache[d] # None => Read(cache[d], d)
    /\ poll[d].stage = "answered" => Read(poll[d].view, d)

(* The server's rows grow.                                                 *)
LEMMA ServerStep ==
  ASSUME TypeOK, [Next]_vars, NEW d \in Docs
  PROVE  \/ UNCHANGED <<status[d], uploads[d]>>
         \/ status[d] = "pending" /\ status'[d] \in Terminal /\ uploads'[d] = uploads[d]
         \/ status'[d] = "pending" /\ uploads'[d] = uploads[d] + 1
  <1>1. CASE UNCHANGED server
    BY <1>1 DEF server
  <1>2. ASSUME NEW e \in Docs, Settle(e)
        PROVE  /\ uploads' = uploads
               /\ status[d] = status'[d] \/ (status[d] = "pending" /\ status'[d] \in Terminal)
    BY <1>2 DEF Settle, Server!Publish, Server!Fail, TypeOK, Terminal
  <1>3. ASSUME NEW s \in Slots, ServeUpload(s)
        PROVE  \/ UNCHANGED <<status[d], uploads[d]>>
               \/ status'[d] = "pending" /\ uploads'[d] = uploads[d] + 1
    <2>1. /\ status' = [status EXCEPT ![upload[s].doc] = "pending"]
          /\ uploads' = [uploads EXCEPT ![upload[s].doc] = @ + 1]
      BY <1>3 DEF ServeUpload, Server!Accept
    <2> QED BY <2>1 DEF TypeOK
  <1> QED BY <1>1, <1>2, <1>3 DEF Next, OpenPage, ClosePage, UploadAnother, Tick, SelectFile,
            UploadAccepted, UploadFails, ServePoll, PollAnswered, PollFails, ServeList,
            ListAnswered, ListFails, RetryList, Age, SpendBudget, vars

LEMMA RowsGrow ==
  ASSUME TypeOK, [Next]_vars, NEW d \in Docs
  PROVE  /\ uploads[d] \in Nat /\ uploads'[d] \in Nat /\ uploads[d] <= uploads'[d]
         /\ (status[d] # "absent" => uploads[d] >= 1) => (status'[d] # "absent" => uploads'[d] >= 1)
         /\ uploads[d] >= 1 /\ Done(Row(d)) => Done(Row(d))'
  <1>1. uploads[d] \in Nat
    BY DEF TypeOK
  <1> QED BY <1>1, ServerStep DEF Done, Row, Terminal

(* An entry is forgotten, or what was answered; an answer is a row.        *)
LEMMA EntryStep ==
  ASSUME TypeOK, [Next]_vars, NEW d \in Docs
  PROVE  /\ \/ cache'[d] \in {cache[d], None}
            \/ poll[d].stage = "answered" /\ cache'[d] = poll[d].view
         /\ poll'[d].stage = "answered" =>
              \/ poll'[d] = poll[d]
              \/ poll'[d].view = Row(d) /\ UNCHANGED server
  <1>1. CASE UNCHANGED <<cache, poll>>
    BY <1>1
  <1>2. ASSUME NEW a \in ActiveUpload, StartPoll(a)
        PROVE  poll'[d] = poll[d] \/ poll'[d].stage # "answered"
    BY <1>2 DEF StartPoll, TypeOK, Sent, ActiveUpload
  <1>3. CASE Tick
    BY <1>2, <1>3 DEF Tick, TypeOK
  <1>4. ASSUME NEW s \in Slots, UploadAccepted(s)
        PROVE  cache' = cache /\ (poll'[d] = poll[d] \/ poll'[d].stage # "answered")
    <2>1. CASE poll' = poll
      BY <1>4, <2>1 DEF UploadAccepted
    <2>2. CASE poll' # poll
      <3>1. [doc |-> upload[s].doc, upload |-> upload[s].number] \in ActiveUpload
        BY <1>4, SlotType DEF UploadAccepted, ActiveUpload
      <3>2. StartPoll([doc |-> upload[s].doc, upload |-> upload[s].number])
        BY <1>4, <2>2 DEF UploadAccepted
      <3> QED BY <1>2, <1>4, <3>1, <3>2 DEF UploadAccepted
    <2> QED BY <2>1, <2>2
  <1>5. ASSUME NEW e \in Docs, ServePoll(e)
        PROVE  /\ UNCHANGED <<server, cache>>
               /\ poll'[d] = poll[d] \/ poll'[d].view = Row(d)
    <2>1. Answered(poll[e], Row(e)).view = Row(e)
      BY DEF Answered
    <2> QED BY <1>5, <2>1 DEF ServePoll, TypeOK
  <1>6. ASSUME NEW e \in Docs, PollAnswered(e)
        PROVE  /\ cache'[d] = cache[d] \/ (poll[d].stage = "answered" /\ cache'[d] = poll[d].view)
               /\ poll'[d] = poll[d] \/ poll'[d].stage # "answered"
    BY <1>6 DEF PollAnswered, TypeOK, Idle
  <1>7. ASSUME NEW e \in Docs, PollFails(e)
        PROVE  cache' = cache /\ (poll'[d] = poll[d] \/ poll'[d].stage # "answered")
    BY <1>7 DEF PollFails, TypeOK, Idle, Sent
  <1>8. CASE Age
    BY <1>8 DEF Age, TypeOK
  <1> QED BY <1>1, <1>3, <1>4, <1>5, <1>6, <1>7, <1>8 DEF Next, OpenPage, ClosePage,
            UploadAnother, SelectFile, ServeUpload, UploadFails, Settle, ServeList,
            ListAnswered, ListFails, RetryList, SpendBudget, vars, entry

LEMMA ReadsStep ==
  ASSUME TypeOK, ReadsHold, [Next]_vars
  PROVE  ReadsHold'
  <1> SUFFICES ASSUME NEW d \in Docs
               PROVE  /\ status'[d] # "absent" => uploads'[d] >= 1
                      /\ cache'[d] # None => Read(cache[d], d)'
                      /\ poll'[d].stage = "answered" => Read(poll[d].view, d)'
    BY DEF ReadsHold
  <1>1. status[d] # "absent" => uploads[d] >= 1
    BY DEF ReadsHold
  <1>2. status'[d] # "absent" => uploads'[d] >= 1
    BY <1>1, RowsGrow
  <1>3. ASSUME NEW v \in View, Read(v, d)
        PROVE  v.upload <= uploads'[d] /\ (v.status \in Terminal => v.upload >= 1 /\ Done(Row(d))')
    <2>1. v.upload \in Nat /\ uploads[d] \in Nat /\ uploads'[d] \in Nat /\ uploads[d] <= uploads'[d]
      BY RowsGrow DEF View
    <2>2. v.upload <= uploads'[d]
      BY <1>3, <2>1 DEF Read
    <2>3. ASSUME v.status \in Terminal PROVE v.upload >= 1 /\ Done(Row(d))'
      <3>1. v.upload >= 1 /\ uploads[d] >= 1 /\ Done(Row(d))
        BY <1>3, <2>1, <2>3 DEF Read
      <3> QED BY <3>1, RowsGrow
    <2> QED BY <2>2, <2>3
  <1>4. cache[d] # None => cache[d] \in View /\ Read(cache[d], d)
    BY DEF TypeOK, ReadsHold
  <1>5. poll[d].stage = "answered" => poll[d].view \in View /\ Read(poll[d].view, d)
    BY FetchTypes DEF TypeOK, ReadsHold, Idle
  <1>6. cache'[d] # None => Read(cache[d], d)'
    BY <1>3, <1>4, <1>5, EntryStep DEF Read
  <1>7. ASSUME poll'[d].stage = "answered" PROVE Read(poll[d].view, d)'
    <2>1. CASE poll'[d] = poll[d]
      BY <1>3, <1>5, <1>7, <2>1 DEF Read
    <2>2. CASE poll'[d].view = Row(d) /\ UNCHANGED server
      <3>1. UNCHANGED <<status, uploads>> /\ uploads[d] \in Nat
        BY <2>2 DEF server, TypeOK
      <3> QED BY <1>1, <2>2, <3>1 DEF Read, Row, Done, Terminal
    <2> QED BY <1>7, <2>1, <2>2, EntryStep
  <1> QED BY <1>2, <1>6, <1>7

LEMMA ListsNotNone ==
  ASSUME NEW v \in Lists
  PROVE  v # None /\ \A d \in Docs : v[d] \in View
  BY NoneAssumption DEF Lists, View, Status, Terminal

NoOutcome(d) == cache[d] = None \/ cache[d].status \notin Terminal

\* While the panel waits for an upload or shows a document, the page is
\* mounted with its list; before a first upload is accepted the panel has
\* notified nothing and knows no outcome.
PageReady ==
  /\ active # None => open /\ list # None
  /\ \A s \in Slots : Mine(s) =>
       /\ open /\ list # None /\ notified = None
       /\ upload[s].stage = "accepted" /\ upload[s].number = 1 => NoOutcome(upload[s].doc)

(* Steps after which the panel waits for no upload it did not wait for.    *)
LEMMA PageFrame ==
  ASSUME PageReady, active' \in {active, None}, open' = open,
         list # None => list' # None,
         \A s \in Slots : Mine(s)' =>
           /\ Mine(s) /\ upload'[s] = upload[s] /\ notified' = notified
           /\ cache'[upload[s].doc] \in {cache[upload[s].doc], None}
  PROVE  PageReady'
  BY DEF PageReady, NoOutcome

LEMMA PageStep ==
  ASSUME Reupload = "patient", TypeOK, OutcomeInv, ReadsHold, PageReady, [Next]_vars
  PROVE  PageReady'
  <1>0. active # None => active.doc \in Docs /\ active.upload \in Nat
    BY DEF TypeOK, ActiveUpload
  <1>1. ASSUME UNCHANGED <<active, open, upload, notified, cache>>, list # None => list' # None
        PROVE  PageReady'
    BY <1>1, PageFrame DEF Mine
  <1>2. CASE UNCHANGED vars
    BY <1>1, <1>2 DEF vars, entry, docList
  <1>3. CASE ServeList \/ ListFails \/ RetryList \/ SpendBudget \/ Tick
    BY <1>1, <1>3 DEF ServeList, ListFails, RetryList, SpendBudget, Tick, entry, docList
  <1>4. CASE ListAnswered
    <2>1. list' # None
      BY <1>4, FetchTypes, ListsNotNone DEF ListAnswered, TypeOK, Idle
    <2> QED BY <1>1, <1>4, <2>1 DEF ListAnswered, entry
  <1>5. CASE OpenPage
    <2>1. active = None /\ \A s \in Slots : ~Mine(s)
      BY <1>5 DEF OpenPage, PageReady
    <2> QED BY <1>5, <2>1 DEF OpenPage, PageReady, Mine
  <1>6. CASE ClosePage
    <2>1. \A s \in Slots : ~Mine(s)'
      <3> SUFFICES ASSUME NEW s \in Slots, Mine(s)' PROVE FALSE
        OBVIOUS
      <3>1. upload[s] # Free /\ upload'[s] = [upload[s] EXCEPT !.mine = FALSE]
        BY <1>6 DEF ClosePage, Mine
      <3>2. upload'[s].mine = FALSE
        BY <3>1, SlotType
      <3> QED BY <3>2 DEF Mine
    <2> QED BY <1>6, <2>1 DEF ClosePage, PageReady
  <1>7. CASE UploadAnother
    BY <1>7, PageFrame DEF UploadAnother, Mine, entry, docList
  <1>8. ASSUME NEW s \in Slots, NEW d \in Docs, SelectFile(s, d)
        PROVE  PageReady'
    <2>1. /\ open /\ active = None /\ list # None /\ notified' = None
          /\ UNCHANGED <<open, active, list>>
          /\ \A r \in Slots : ~Mine(r)
      BY <1>8 DEF SelectFile, Patient, Mine, docList
    <2>2. \A r \in Slots : upload'[r] = IF r = s THEN [stage |-> "sent", doc |-> d, number |-> 0, mine |-> TRUE]
                                        ELSE upload[r]
      BY <1>8 DEF SelectFile, TypeOK
    <2> QED BY <2>1, <2>2 DEF PageReady, Mine
  <1>9. ASSUME NEW s \in Slots, ServeUpload(s)
        PROVE  PageReady'
    <2>1. upload[s] # Free /\ upload[s].doc \in Docs
      BY <1>9, SlotType DEF ServeUpload, Free
    <2>2. /\ uploads' = [uploads EXCEPT ![upload[s].doc] = @ + 1]
          /\ upload' = [upload EXCEPT ![s] =
               [@ EXCEPT !.stage = "accepted", !.number = uploads'[upload[s].doc]]]
          /\ UNCHANGED <<active, open, list, notified, cache>>
      BY <1>9 DEF ServeUpload, entry, docList
    <2>3. /\ upload'[s].doc = upload[s].doc /\ upload'[s].number = uploads[upload[s].doc] + 1
          /\ upload'[s].mine = upload[s].mine
          /\ \A r \in Slots \ {s} : upload'[r] = upload[r]
      BY <2>1, <2>2, SlotType DEF TypeOK
    <2>4. upload'[s].number = 1 => NoOutcome(upload[s].doc)
      <3> SUFFICES ASSUME upload'[s].number = 1, cache[upload[s].doc] # None,
                          cache[upload[s].doc].status \in Terminal
                   PROVE  FALSE
        BY DEF NoOutcome
      <3>1. uploads[upload[s].doc] = 0
        BY <2>1, <2>3 DEF TypeOK
      <3>2. Read(cache[upload[s].doc], upload[s].doc) /\ cache[upload[s].doc].upload \in Nat
        BY <2>1 DEF ReadsHold, TypeOK, View
      <3> QED BY <3>1, <3>2 DEF Read
    <2>5. Mine(s)' => Mine(s)
      BY <2>1, <2>3 DEF Mine
    <2> QED BY <2>2, <2>3, <2>4, <2>5 DEF PageReady, Mine, NoOutcome
  <1>10. ASSUME NEW s \in Slots, UploadAccepted(s)
         PROVE  PageReady'
    <2>1. /\ upload[s] # Free /\ upload' = [upload EXCEPT ![s] = Free]
          /\ UNCHANGED <<open, list, cache>>
      BY <1>10 DEF UploadAccepted, InvalidateList, Free
    <2>2. \A r \in Slots : Mine(r)' => r # s /\ Mine(r) /\ upload'[r] = upload[r]
      BY <2>1 DEF Mine, TypeOK
    <2>3. CASE upload[s].mine
      <3>1. Mine(s)
        BY <2>1, <2>3 DEF Mine
      <3>2. open /\ list # None /\ \A r \in Slots : ~Mine(r)'
        BY <2>2, <3>1 DEF PageReady, OutcomeInv, OneMine
      <3> QED BY <2>1, <3>2 DEF PageReady
    <2>4. CASE ~upload[s].mine
      BY <1>10, <2>1, <2>2, <2>4, PageFrame DEF UploadAccepted
    <2> QED BY <2>3, <2>4
  <1>11. ASSUME NEW s \in Slots, UploadFails(s)
         PROVE  PageReady'
    <2>1. \A r \in Slots : Mine(r)' => Mine(r) /\ upload'[r] = upload[r]
      BY <1>11 DEF UploadFails, Mine, TypeOK
    <2> QED BY <1>11, <2>1, PageFrame DEF UploadFails, entry, docList
  <1>12. ASSUME NEW d \in Docs, Settle(d) \/ ServePoll(d) \/ PollFails(d)
         PROVE  PageReady'
    BY <1>1, <1>12 DEF Settle, ServePoll, PollFails, entry, docList
  <1>13. ASSUME NEW d \in Docs, PollAnswered(d)
         PROVE  PageReady'
    <2>1. /\ UNCHANGED <<active, open, upload>> /\ poll[d] # Idle
          /\ cache' = [cache EXCEPT ![d] = poll[d].view]
      BY <1>13 DEF PollAnswered, Idle
    <2>2. list' = list
      BY <1>13 DEF PollAnswered, Notify, InvalidateList, docList
    <2>3. ASSUME NEW s \in Slots, Mine(s)
          PROVE  notified' = notified /\ cache'[upload[s].doc] = cache[upload[s].doc]
      <3>1. active = None /\ upload[s].doc # d
        BY <2>1, <2>3 DEF OutcomeInv, MineWaits
      <3>2. upload[s].doc \in Docs
        BY <2>3, SlotType DEF Mine
      <3> QED BY <1>13, <2>1, <3>1, <3>2 DEF PollAnswered, Active, TypeOK
    <2>4. \A s \in Slots : Mine(s)' => Mine(s)
      BY <2>1 DEF Mine
    <2> QED BY <2>1, <2>2, <2>3, <2>4, PageFrame
  <1>14. CASE Age
    <2>1. UNCHANGED <<active, open, upload, notified, list>>
      BY <1>14 DEF Age
    <2>2. \A d \in Docs : cache'[d] \in {cache[d], None}
      BY <1>14 DEF Age, TypeOK
    <2>3. \A s \in Slots : Mine(s)' => Mine(s) /\ upload[s].doc \in Docs
      BY <2>1, SlotType DEF Mine
    <2> QED BY <2>1, <2>2, <2>3, PageFrame
  <1> QED BY <1>2, <1>3, <1>4, <1>5, <1>6, <1>7, <1>8, <1>9, <1>10, <1>11, <1>12, <1>13,
            <1>14 DEF Next

\* When a first upload's outcome is shown, the list was fetched anew, or is
\* being fetched, since the server had that outcome.
ListFresh(d) ==
  /\ listPoll.stage = "answered" => Done(listPoll.view[d])
  /\ listPoll = Idle /\ ~listFailed => Done(list[d])

FirstOutcome ==
  active # None /\ active.upload = 1 =>
    /\ Shown \notin Terminal => notified = None
    /\ Shown \in Terminal =>
         /\ poll[active.doc] = Idle /\ ~armed
         /\ Done(Row(active.doc)) /\ ListFresh(active.doc)

ListInv == ReadsHold /\ PageReady /\ FirstOutcome

(* The document shown stays, and so does what is known of it.              *)
LEMMA FirstFrame ==
  ASSUME TypeOK, OutcomeInv, FirstOutcome, [Next]_vars, UNCHANGED <<active, notified>>,
         active # None => cache'[active.doc] = cache[active.doc],
         active # None /\ Shown \in Terminal /\ poll[active.doc] = Idle /\ ~armed =>
           poll'[active.doc] = Idle /\ ~armed',
         active # None /\ Done(Row(active.doc)) /\ ListFresh(active.doc) => ListFresh(active.doc)'
  PROVE  FirstOutcome'
  <1> SUFFICES ASSUME active # None, active.upload = 1
               PROVE  /\ Shown' \notin Terminal => notified' = None
                      /\ Shown' \in Terminal =>
                           /\ poll'[active.doc] = Idle /\ ~armed'
                           /\ Done(Row(active.doc))' /\ ListFresh(active.doc)'
    BY DEF FirstOutcome, Shown, StatusIn, Done, Row, ListFresh
  <1>1. active.doc \in Docs /\ Shown' = Shown
    BY DEF TypeOK, ActiveUpload, Shown, StatusIn
  <1>2. PICK d \in Docs : d = active.doc
    BY <1>1
  <1>3. uploads[d] >= 1
    BY <1>2 DEF OutcomeInv, NumbersCurrent
  <1>4. Done(Row(d)) => Done(Row(d))'
    BY <1>3, RowsGrow
  <1>5. Done(Row(active.doc)) => Done(Row(active.doc))'
    BY <1>2, <1>4 DEF Done, Row
  <1> QED BY <1>1, <1>5 DEF FirstOutcome

LEMMA ListKept ==
  ASSUME NEW d, UNCHANGED <<list, listPoll, listFailed>>, ListFresh(d)
  PROVE  ListFresh(d)'
  BY DEF ListFresh, Done

LEMMA ListInvalidated ==
  ASSUME NEW d, open, list # None, InvalidateList
  PROVE  ListFresh(d)'
  BY DEF InvalidateList, ListFresh, Sent, Idle

LEMMA FirstStep ==
  ASSUME Reupload = "patient", TypeOK, OutcomeInv, ListInv, [Next]_vars
  PROVE  FirstOutcome'
  <1>0. active # None => active.doc \in Docs /\ active \in ActiveUpload /\ open /\ list # None
    BY DEF TypeOK, ActiveUpload, ListInv, PageReady
  <1>1. ASSUME UNCHANGED <<active, notified, cache, poll, armed, list, listPoll, listFailed>>
        PROVE  FirstOutcome'
    BY <1>1, FirstFrame, ListKept DEF ListInv
  <1>2. CASE UNCHANGED vars
    BY <1>1, <1>2 DEF vars, entry, docList
  <1>3. CASE SpendBudget
    BY <1>1, <1>3 DEF SpendBudget, entry, docList
  <1>4. CASE OpenPage
    BY <1>0, <1>4 DEF OpenPage, FirstOutcome
  <1>5. CASE ClosePage \/ UploadAnother
    BY <1>5 DEF ClosePage, UploadAnother, FirstOutcome
  <1>6. ASSUME NEW d \in Docs, Settle(d) \/ \E s \in Slots : SelectFile(s, d)
        PROVE  FirstOutcome'
    <2>1. CASE Settle(d)
      BY <1>1, <2>1 DEF Settle, entry, docList
    <2>2. CASE \E s \in Slots : SelectFile(s, d)
      BY <2>2 DEF SelectFile, FirstOutcome
    <2> QED BY <1>6, <2>1, <2>2
  <1>7. ASSUME NEW s \in Slots, ServeUpload(s) \/ UploadFails(s)
        PROVE  FirstOutcome'
    BY <1>1, <1>7 DEF ServeUpload, UploadFails, entry, docList
  <1>8. CASE Tick
    BY <1>8, FirstFrame, ListKept DEF Tick, ListInv, docList
  <1>9. ASSUME NEW s \in Slots, UploadAccepted(s)
        PROVE  FirstOutcome'
    <2>1. /\ upload[s] # Free /\ upload[s].stage = "accepted"
          /\ upload[s].doc \in Docs /\ upload[s].number \in Nat
          /\ InvalidateList /\ cache' = cache
      BY <1>9, SlotType DEF UploadAccepted, Free
    <2>2. CASE upload[s].mine
      <3>1. PICK a \in ActiveUpload : a = [doc |-> upload[s].doc, upload |-> upload[s].number]
        BY <2>1 DEF ActiveUpload
      <3>2. active' = a /\ notified' = IF StatusIn(cache, a) \in Terminal THEN StatusIn(cache, a) ELSE notified
        BY <1>9, <2>2, <3>1 DEF UploadAccepted
      <3>3. Mine(s) /\ notified = None
        BY <2>1, <2>2 DEF Mine, ListInv, PageReady
      <3>4. a.upload = 1 => StatusIn(cache, a) \notin Terminal
        BY <2>1, <3>1, <3>3 DEF ListInv, PageReady, NoOutcome, StatusIn, Terminal
      <3>5. Shown' = StatusIn(cache, a)
        BY <2>1, <3>2 DEF Shown, StatusIn
      <3> QED BY <3>2, <3>3, <3>4, <3>5 DEF FirstOutcome
    <2>3. CASE ~upload[s].mine
      <3>1. UNCHANGED <<poll, active, armed, notified>>
        BY <1>9, <2>3 DEF UploadAccepted
      <3> QED BY <1>0, <2>1, <3>1, FirstFrame, ListInvalidated DEF ListInv
    <2> QED BY <2>2, <2>3
  <1>10. ASSUME NEW d \in Docs, ServePoll(d)
         PROVE  FirstOutcome'
    <2>1. poll[d] # Idle /\ \A e \in Docs \ {d} : poll'[e] = poll[e]
      BY <1>10 DEF ServePoll, TypeOK, Idle
    <2>2. active # None /\ poll[active.doc] = Idle => poll'[active.doc] = Idle
      BY <1>0, <2>1
    <2> QED BY <1>10, <2>2, FirstFrame, ListKept DEF ServePoll, ListInv, docList
  <1>11. ASSUME NEW d \in Docs, PollFails(d)
         PROVE  FirstOutcome'
    <2>1. /\ poll[d] # Idle /\ \A e \in Docs \ {d} : poll'[e] = poll[e]
          /\ UNCHANGED <<active, notified, cache, list, listPoll, listFailed>>
      BY <1>11 DEF PollFails, TypeOK, docList
    <2>2. active # None /\ Shown \in Terminal /\ poll[active.doc] = Idle /\ ~armed =>
            poll'[active.doc] = Idle /\ ~armed'
      BY <1>0, <1>11, <2>1 DEF PollFails, Armed
    <2> QED BY <2>1, <2>2, FirstFrame, ListKept DEF ListInv
  <1>12. ASSUME NEW d \in Docs, PollAnswered(d)
         PROVE  FirstOutcome'
    <2>1. /\ poll[d] # Idle /\ poll[d].stage = "answered" /\ poll[d].view \in View
          /\ cache' = [cache EXCEPT ![d] = poll[d].view]
          /\ poll' = [poll EXCEPT ![d] = Idle]
          /\ UNCHANGED <<active, status, uploads>>
      BY <1>12, FetchTypes DEF PollAnswered, Idle, TypeOK, server
    <2>2. CASE Active(d)
      <3> DEFINE v == poll[d].view
      <3>1. /\ active.doc = d /\ active # None
            /\ armed' = Armed(v.status, clock) /\ Notify(v.status)
        BY <1>12, <2>2 DEF PollAnswered, Active
      <3>2. Shown' = v.status /\ poll'[d] = Idle
        BY <2>1, <3>1, ViewNotNone DEF Shown, StatusIn, TypeOK
      <3> SUFFICES ASSUME active.upload = 1
                   PROVE  /\ v.status \notin Terminal => notified' = None
                          /\ v.status \in Terminal =>
                               ~armed' /\ Done(Row(d))' /\ ListFresh(d)'
        BY <2>1, <3>1, <3>2 DEF FirstOutcome
      <3>3. Shown \notin Terminal /\ notified = None
        BY <2>1, <3>1 DEF ListInv, FirstOutcome
      <3>4. v.status \notin Terminal => notified' = None
        BY <3>1, <3>3 DEF Notify
      <3>5. ASSUME v.status \in Terminal
            PROVE  ~armed' /\ Done(Row(d))' /\ ListFresh(d)'
        <4>1. Done(Row(d))'
          <5>1. Done(Row(d))
            BY <2>1, <3>5 DEF ListInv, ReadsHold, Read
          <5> QED BY <2>1, <5>1 DEF Done, Row
        <4>2. v.status # None
          BY <3>5, NoneAssumption DEF Terminal
        <4> QED BY <1>0, <3>1, <3>3, <3>5, <4>1, <4>2, ListInvalidated DEF Notify, Armed
      <3> QED BY <3>4, <3>5
    <2>3. CASE ~Active(d)
      <3>1. UNCHANGED <<armed, notified, list, listPoll, listFailed>>
        BY <1>12, <2>3 DEF PollAnswered, docList
      <3>2. active # None => /\ cache'[active.doc] = cache[active.doc]
                             /\ poll'[active.doc] = poll[active.doc]
        BY <1>0, <2>1, <2>3 DEF Active, TypeOK
      <3> QED BY <2>1, <3>1, <3>2, FirstFrame, ListKept DEF ListInv
    <2> QED BY <2>2, <2>3
  <1>13. CASE ServeList
    <2>1. /\ UNCHANGED <<active, notified, cache, poll, armed>>
          /\ listPoll' = Answered(listPoll, [d \in Docs |-> Row(d)])
      BY <1>13 DEF ServeList, entry
    <2>2. listPoll'.stage = "answered" /\ listPoll' # Idle /\ listPoll'.view = [d \in Docs |-> Row(d)]
      BY <2>1 DEF Answered, Idle
    <2>3. active # None => listPoll'.view[active.doc] = Row(active.doc)
      BY <1>0, <2>2
    <2>4. active # None /\ Done(Row(active.doc)) => Done(listPoll'.view[active.doc])
      BY <2>3
    <2>5. active # None /\ Done(Row(active.doc)) => ListFresh(active.doc)'
      BY <2>1, <2>2, <2>4 DEF ListFresh, Done
    <2> QED BY <2>1, <2>5, FirstFrame DEF ListInv
  <1>14. CASE ListAnswered
    <2>1. UNCHANGED <<active, notified, cache, poll, armed>>
      BY <1>14 DEF ListAnswered, entry
    <2>2. active # None /\ ListFresh(active.doc) => ListFresh(active.doc)'
      BY <1>14 DEF ListAnswered, ListFresh, Done, Idle
    <2> QED BY <2>1, <2>2, FirstFrame DEF ListInv
  <1>15. CASE ListFails \/ RetryList
    <2>1. UNCHANGED <<active, notified, cache, poll, armed>>
      BY <1>15 DEF ListFails, RetryList, entry
    <2>2. active # None => ListFresh(active.doc)'
      BY <1>15 DEF ListFails, RetryList, ListFresh, Sent, Idle
    <2> QED BY <2>1, <2>2, FirstFrame DEF ListInv
  <1>16. CASE Age
    <2>1. UNCHANGED <<active, notified, poll, armed, list, listPoll, listFailed>>
      BY <1>16 DEF Age
    <2>2. active # None => cache'[active.doc] = cache[active.doc]
      BY <1>0, <1>16 DEF Age, Active, TypeOK
    <2> QED BY <2>1, <2>2, FirstFrame, ListKept DEF ListInv
  <1> QED BY <1>2, <1>3, <1>4, <1>5, <1>6, <1>7, <1>8, <1>9, <1>10, <1>11, <1>12, <1>13,
            <1>14, <1>15, <1>16 DEF Next

\* For the same users, once the outcome of a document's first upload is shown
\* and nothing is in flight, the list beside it shows an outcome too, or is of
\* a later upload, unless it could not be fetched (DocumentUploadPanel).
THEOREM ListIsRight ==
  ASSUME Reupload = "patient"
  PROVE  Spec => []ListCatchesUp
  <1>1. Init => OutcomeInv /\ ListInv
    BY DEF Init, OutcomeInv, OneMine, MineWaits, Mine, NumbersCurrent, AnswersNew,
           OutcomeIsOfThisUpload, ListInv, ReadsHold, PageReady, FirstOutcome, Server!Init, Idle
  <1>2. TypeOK /\ OutcomeInv /\ ListInv /\ [Next]_vars => OutcomeInv' /\ ListInv'
    BY OutcomeStep, ReadsStep, PageStep, FirstStep DEF ListInv
  <1>3. TypeOK /\ ListInv => ListCatchesUp
    BY DEF ListInv, FirstOutcome, ListFresh, Done, ListCatchesUp, TypeOK, ActiveUpload, View
  <1> QED BY <1>1, <1>2, <1>3, TypeCorrect, PTL DEF Spec
=============================================================================
