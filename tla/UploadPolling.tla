---------------------------- MODULE UploadPolling ----------------------------
(***************************************************************************)
(* The documents page: DocumentUploadPanel sends a file, polls             *)
(* GET /ingest/{id} until the document settles or a budget is spent, and   *)
(* keeps DocumentList current (components/documents, lib/hooks).           *)
(*                                                                         *)
(* The server is what DocumentLifecycle promises. The query client         *)
(* outlives the page: its entries, the fetches in flight and the uploads   *)
(* sent go on when the panel unmounts. Each action is one turn of the      *)
(* event loop, with the render and the effects it leads to. Fetches of one *)
(* key are shared; time is the two facts the code asks for, whether an     *)
(* entry is older than staleTime and whether the poll budget is spent.     *)
(***************************************************************************)
EXTENDS Naturals

CONSTANTS
  Docs,
  Slots,       \* the uploads in flight
  Reupload,    \* "free", or "patient": see Patient
  MaxUploads,  \* bound on the uploads of one document
  None

ASSUME UploadPollingAssumption ==
  /\ Reupload \in {"free", "patient"}
  /\ MaxUploads \in Nat
  /\ None \notin [status : {"absent", "pending", "indexed", "failed"}, upload : Nat]
                  \cup [doc : Docs, upload : Nat]

ASSUME NoneAssumption ==
  /\ None \notin {"indexed", "failed"}
  /\ None \notin [Docs -> [status : {"absent", "pending", "indexed", "failed"}, upload : Nat]]

VARIABLES
  status, uploads,   \* the server: each document's status, and uploads accepted
  upload,            \* per slot: a POST /ingest that has not ended
  cache, old, poll, failed,  \* per document: the entry of ingestStatusKey, whether it
                     \* is stale, its fetch, and whether the last one failed
  list, listOld, listPoll, listFailed,  \* the same of documentsKey
  open,              \* the page is mounted
  active,            \* activeDocumentId, and which upload set it
  armed,             \* the poll interval of the active document is set
  clock,             \* startedAtRef: "unset", "running", or over the budget
  clockOf,           \* the upload whose polling started the clock
  notified           \* lastNotifiedStatusRef

server == <<status, uploads>>
entry == <<cache, old, poll, failed>>
docList == <<list, listOld, listPoll, listFailed>>
budget == <<clock, clockOf>>
vars == <<server, upload, entry, docList, open, active, armed, budget, notified>>
-----------------------------------------------------------------------------
Terminal == {"indexed", "failed"}
Status   == {"absent", "pending"} \cup Terminal

Row(d) == [status |-> status[d], upload |-> uploads[d]]
View   == [status : Status, upload : Nat]

Idle == [stage |-> "idle"]
Sent(retried) == [stage |-> "sent", retried |-> retried]
Answered(fetch, view) == [stage |-> "answered", retried |-> fetch.retried, view |-> view]

Fetch(views) == {Idle} \cup [stage : {"sent"}, retried : BOOLEAN]
                  \cup [stage : {"answered"}, retried : BOOLEAN, view : views]

Free == [stage |-> "free"]
Request == {Free} \cup [stage : {"sent", "accepted"}, doc : Docs, number : Nat, mine : BOOLEAN]

Active(d) == active # None /\ active.doc = d

\* statusQuery.data?.status, where "absent" is no data.
StatusIn(entries, a) == IF a = None \/ entries[a.doc] = None THEN "absent" ELSE entries[a.doc].status
Shown == StatusIn(cache, active)

Server == INSTANCE DocumentLifecycle WITH
  Files <- Docs, searchable <- [d \in Docs |-> TRUE]
-----------------------------------------------------------------------------
Init ==
  /\ Server!Init
  /\ uploads = [d \in Docs |-> 0]
  /\ upload = [s \in Slots |-> Free]
  /\ cache = [d \in Docs |-> None]
  /\ old = [d \in Docs |-> TRUE]
  /\ poll = [d \in Docs |-> Idle]
  /\ failed = [d \in Docs |-> FALSE]
  /\ list = None /\ listOld = TRUE /\ listPoll = Idle /\ listFailed = FALSE
  /\ open = FALSE
  /\ active = None /\ armed = FALSE
  /\ clock = "unset" /\ clockOf = None
  /\ notified = None

Settle(d) ==
  /\ status[d] = "pending"
  /\ Server!Publish(d) \/ Server!Fail(d)
  /\ UNCHANGED <<uploads, upload, entry, docList, open, active, armed, budget, notified>>

Armed_OnData(shown, c) == shown = "pending" /\ c # "spent"

(* refetchInterval, which the query client asks after every change of the  *)
(* entry and every render.                                                 *)
Armed(shown, c) == shown \notin Terminal /\ c # "spent"

(* queryFn runs unless the key is being fetched.                           *)
StartPoll(a) ==
  IF poll[a.doc] # Idle THEN UNCHANGED <<poll, budget>>
  ELSE /\ poll' = [poll EXCEPT ![a.doc] = Sent(FALSE)]
       /\ clock' = IF clock = "unset" THEN "running" ELSE clock
       /\ clockOf' = IF clock = "unset" THEN a ELSE clockOf

InvalidateList_Shared ==
  /\ listOld' = TRUE
  /\ listPoll' = IF open /\ listPoll = Idle THEN Sent(FALSE) ELSE listPoll
  /\ UNCHANGED <<list, listFailed>>

(* invalidateQueries: a mounted list is fetched anew, and a fetch in       *)
(* flight is dropped for it, unless it is the one that loads the list.     *)
InvalidateList ==
  /\ listOld' = TRUE
  /\ listPoll' = IF open /\ (list # None \/ listPoll = Idle) THEN Sent(FALSE) ELSE listPoll
  /\ UNCHANGED <<list, listFailed>>

(* The effect on `status`.                                                 *)
Notify(shown) ==
  IF shown \in Terminal /\ shown # notified
  THEN notified' = shown /\ InvalidateList
  ELSE UNCHANGED <<notified, docList>>

(* The documents page mounts, with fresh refs.                             *)
OpenPage ==
  /\ ~open
  /\ open' = TRUE
  /\ listPoll' = IF (list = None \/ listOld) /\ listPoll = Idle THEN Sent(FALSE) ELSE listPoll
  /\ UNCHANGED <<server, upload, entry, list, listOld, listFailed, active, armed, budget, notified>>

(* It unmounts: what is in flight is nobody's, but goes on.                *)
ClosePage ==
  /\ open
  /\ open' = FALSE /\ active' = None /\ armed' = FALSE
  /\ clock' = "unset" /\ clockOf' = None /\ notified' = None
  /\ upload' = [s \in Slots |->
       IF upload[s] = Free THEN Free ELSE [upload[s] EXCEPT !.mine = FALSE]]
  /\ UNCHANGED <<server, entry, docList>>
-----------------------------------------------------------------------------
\* A user who has the list before uploading, and uploads a document again
\* only when its status was fetched longer ago than staleTime.
Patient(d) == list # None /\ poll[d] = Idle /\ (cache[d] = None \/ old[d])

(* handleFileSelected; the dropzone is enabled while nothing is uploading. *)
SelectFile(s, d) ==
  /\ open /\ active = None
  /\ upload[s] = Free
  /\ \A r \in Slots : upload[r] # Free => ~upload[r].mine
  /\ Reupload = "patient" => Patient(d)
  /\ notified' = None
  /\ upload' = [upload EXCEPT ![s] = [stage |-> "sent", doc |-> d, number |-> 0, mine |-> TRUE]]
  /\ UNCHANGED <<server, entry, docList, open, active, armed, budget>>

ServeUpload(s) ==
  /\ upload[s].stage = "sent"
  /\ LET d == upload[s].doc IN
     /\ uploads[d] < MaxUploads
     /\ Server!Accept(d)
     /\ uploads' = [uploads EXCEPT ![d] = @ + 1]
     /\ upload' = [upload EXCEPT ![s] =
                    [@ EXCEPT !.stage = "accepted", !.number = uploads'[d]]]
  /\ UNCHANGED <<entry, docList, open, active, armed, budget, notified>>

Refetches_MissingOnly(d) == cache[d] = None

\* The observer's new key is fetched unless its entry is fresh.
Refetches(d) == cache[d] = None \/ old[d]

(* The 202. useIngest's onSuccess runs in any case, the panel's only while *)
(* it is mounted: it sets the active document.                             *)
UploadAccepted(s) ==
  /\ upload[s].stage = "accepted"
  /\ upload' = [upload EXCEPT ![s] = Free]
  /\ InvalidateList
  /\ IF upload[s].mine
     THEN LET a == [doc |-> upload[s].doc, upload |-> upload[s].number]
              shown == StatusIn(cache, a)
          IN /\ active' = a
             /\ IF Refetches(a.doc) THEN StartPoll(a) ELSE UNCHANGED <<poll, budget>>
             /\ armed' = Armed(shown, clock)
             /\ notified' = IF shown \in Terminal THEN shown ELSE notified
     ELSE UNCHANGED <<poll, active, armed, budget, notified>>
  /\ UNCHANGED <<server, cache, old, failed, open>>

(* mutations: { retry: 0 }. The server may have accepted it.               *)
UploadFails(s) ==
  /\ upload[s] # Free
  /\ upload' = [upload EXCEPT ![s] = Free]
  /\ UNCHANGED <<server, entry, docList, open, active, armed, budget, notified>>

(* handleUploadAnother, offered when the document has settled.             *)
UploadAnother ==
  /\ Shown \in Terminal
  /\ active' = None /\ armed' = FALSE
  /\ UNCHANGED <<server, upload, entry, docList, open, budget, notified>>
-----------------------------------------------------------------------------
(* The interval fires.                                                     *)
Tick ==
  /\ armed
  /\ StartPoll(active)
  /\ armed' = Armed(Shown, clock)
  /\ UNCHANGED <<server, upload, cache, old, failed, docList, open, active, notified>>

ServePoll(d) ==
  /\ poll[d].stage = "sent"
  /\ poll' = [poll EXCEPT ![d] = Answered(poll[d], Row(d))]
  /\ UNCHANGED <<server, upload, cache, old, failed, docList, open, active, armed, budget, notified>>

PollAnswered(d) ==
  /\ poll[d].stage = "answered"
  /\ cache' = [cache EXCEPT ![d] = poll[d].view]
  /\ old' = [old EXCEPT ![d] = FALSE]
  /\ poll' = [poll EXCEPT ![d] = Idle]
  /\ failed' = [failed EXCEPT ![d] = FALSE]
  /\ IF Active(d)
     THEN armed' = Armed(poll[d].view.status, clock) /\ Notify(poll[d].view.status)
     ELSE UNCHANGED <<armed, notified, docList>>
  /\ UNCHANGED <<server, upload, open, active, budget>>

(* retry: 1, while somebody is looking.                                    *)
PollFails(d) ==
  /\ poll[d] # Idle
  /\ IF Active(d) /\ ~poll[d].retried
     THEN poll' = [poll EXCEPT ![d] = Sent(TRUE)] /\ UNCHANGED failed
     ELSE poll' = [poll EXCEPT ![d] = Idle] /\ failed' = [failed EXCEPT ![d] = TRUE]
  /\ armed' = IF Active(d) THEN Armed(Shown, clock) ELSE armed
  /\ UNCHANGED <<server, upload, cache, old, docList, open, active, budget, notified>>

ServeList ==
  /\ listPoll.stage = "sent"
  /\ listPoll' = Answered(listPoll, [d \in Docs |-> Row(d)])
  /\ UNCHANGED <<server, upload, entry, list, listOld, listFailed, open, active, armed, budget, notified>>

ListAnswered ==
  /\ listPoll.stage = "answered"
  /\ list' = listPoll.view /\ listOld' = FALSE /\ listFailed' = FALSE
  /\ listPoll' = Idle
  /\ UNCHANGED <<server, upload, entry, open, active, armed, budget, notified>>

(* The list shows an error, and a button to fetch it again.                *)
ListFails ==
  /\ listPoll # Idle
  /\ IF open /\ ~listPoll.retried
     THEN listPoll' = Sent(TRUE) /\ UNCHANGED listFailed
     ELSE listPoll' = Idle /\ listFailed' = TRUE
  /\ UNCHANGED <<server, upload, entry, list, listOld, open, active, armed, budget, notified>>

RetryList ==
  /\ open /\ listFailed /\ listPoll = Idle
  /\ listPoll' = Sent(FALSE)
  /\ UNCHANGED <<server, upload, entry, list, listOld, listFailed, open, active, armed, budget, notified>>
-----------------------------------------------------------------------------
(* staleTime passes for an entry; gcTime for one nobody looks at.          *)
Age ==
  /\ \/ \E d \in Docs : /\ ~old[d] /\ old' = [old EXCEPT ![d] = TRUE]
                        /\ UNCHANGED <<cache, listOld>>
     \/ ~listOld /\ listOld' = TRUE /\ UNCHANGED <<cache, old>>
     \/ \E d \in Docs : /\ ~Active(d) /\ poll[d] = Idle /\ old[d] /\ cache[d] # None
                        /\ cache' = [cache EXCEPT ![d] = None]
                        /\ UNCHANGED <<old, listOld>>
  /\ UNCHANGED <<server, upload, poll, failed, list, listPoll, listFailed, open, active, armed, budget, notified>>

(* MAX_POLL_DURATION_MS have passed since startedAtRef was set.            *)
SpendBudget ==
  /\ clock = "running" /\ clock' = "spent"
  /\ UNCHANGED <<server, upload, entry, docList, open, active, armed, clockOf, notified>>

Next ==
  \/ OpenPage \/ ClosePage \/ UploadAnother \/ Tick
  \/ \E s \in Slots, d \in Docs : SelectFile(s, d)
  \/ \E s \in Slots : ServeUpload(s) \/ UploadAccepted(s) \/ UploadFails(s)
  \/ \E d \in Docs : Settle(d) \/ ServePoll(d) \/ PollAnswered(d) \/ PollFails(d)
  \/ ServeList \/ ListAnswered \/ ListFails \/ RetryList
  \/ Age \/ SpendBudget

Spec == Init /\ [][Next]_vars
-----------------------------------------------------------------------------
Lists == [Docs -> View]
ActiveUpload == [doc : Docs, upload : Nat]

\* The types of the variables; only a panel that waits for a document polls.
TypeOK ==
  /\ status \in [Docs -> Status] /\ uploads \in [Docs -> Nat]
  /\ upload \in [Slots -> Request]
  /\ cache \in [Docs -> View \cup {None}] /\ old \in [Docs -> BOOLEAN]
  /\ poll \in [Docs -> Fetch(View)] /\ failed \in [Docs -> BOOLEAN]
  /\ list \in Lists \cup {None} /\ listOld \in BOOLEAN
  /\ listPoll \in Fetch(Lists) /\ listFailed \in BOOLEAN
  /\ open \in BOOLEAN /\ armed \in BOOLEAN
  /\ active \in ActiveUpload \cup {None} /\ clockOf \in ActiveUpload \cup {None}
  /\ clock \in {"unset", "running", "spent"}
  /\ notified \in Terminal \cup {None}
  /\ armed => active # None

\* The panel does not stop polling a document it says is being indexed until
\* the budget is spent: a fetch that fails, a page that was left and an
\* upload in between do not cost it its timer (useIngestStatus).
PollingGoesOn ==
  active # None /\ Shown \notin Terminal /\ clock # "spent" => armed \/ poll[active.doc] # Idle

\* An outcome the panel keeps showing is that of the upload it was accepted
\* for, not of an earlier one of the same document, unless the panel says
\* that it could not check (DocumentUploadPanel).
OutcomeIsOfThisUpload ==
  active # None /\ Shown \in Terminal /\ poll[active.doc] = Idle /\ ~failed[active.doc] =>
    cache[active.doc].upload >= active.upload

\* When the panel shows a new document's outcome and nothing is in flight,
\* the list beside it shows one too, "without a manual reload"
\* (DocumentUploadPanel), unless the list could not be fetched.
ListCatchesUp ==
  /\ active # None /\ active.upload = 1
  /\ Shown \in Terminal /\ poll[active.doc] = Idle
  /\ listPoll = Idle /\ ~listFailed
  => LET row == list[active.doc] IN row.upload > active.upload \/ row.status \in Terminal

\* Polling is given up only when the upload it is for has been polled for the
\* whole budget ("caps total polling at ~5 minutes from the first successful
\* fetch", useIngestStatus).
BudgetIsPerUpload ==
  active # None /\ Shown = "pending" /\ ~armed /\ poll[active.doc] = Idle => clockOf = active
=============================================================================
