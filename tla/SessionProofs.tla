---------------------------- MODULE SessionProofs ----------------------------
(***************************************************************************)
(* Theorems about Session, for any tabs, request slots and bounds.         *)
(***************************************************************************)
EXTENDS Session, SequenceTheorems, TLAPS

(* Taking an element out of a sequence.                                    *)
LEMMA RemoveAtProperties ==
  ASSUME NEW S, NEW s \in Seq(S), NEW i \in DOMAIN s
  PROVE  RemoveAt(s, i) \in Seq(S) /\ Len(RemoveAt(s, i)) = Len(s) - 1
  <1>1. i \in 1 .. Len(s) /\ Len(s) \in Nat
    BY LenProperties
  <1> DEFINE front == SubSeq(s, 1, i - 1)
             back == SubSeq(s, i + 1, Len(s))
  <1>2. front \in Seq(S) /\ Len(front) = i - 1
    <2>1. \A k \in 1 .. i - 1 : s[k] \in S
      BY <1>1, ElementOfSeq
    <2> QED BY <1>1, <2>1, SubSeqProperties
  <1>3. back \in Seq(S) /\ Len(back) = Len(s) - i
    BY <1>1, SubSeqProperties
  <1> HIDE DEF front, back
  <1>4. front \o back \in Seq(S) /\ Len(front \o back) = Len(front) + Len(back)
    BY <1>2, <1>3, ConcatProperties
  <1>5. RemoveAt(s, i) = front \o back
    BY DEF RemoveAt, front, back
  <1> QED BY <1>1, <1>2, <1>3, <1>4, <1>5

\* The part of TypeOK about the requests.
CallsTyped ==
  /\ call \in [Calls -> Request \cup {NoCall}]
  /\ \A c \in Calls :
       Pending(c) /\ call[c].kind = "login" /\ call[c].reply = "ok" => call[c].token # None

(* A slot in use holds a request.                                          *)
LEMMA PendingIsRequest ==
  ASSUME TypeOK, NEW c \in Calls, Pending(c)
  PROVE  call[c] \in Request
  BY DEF TypeOK, Pending, NoCall

LEMMA WaitingType ==
  ASSUME TypeOK, NEW t \in Tabs, NEW c \in Waiting(t)
  PROVE  c \in Calls /\ call[c] \in Request
  BY PendingIsRequest DEF Waiting

(* What a fetch of /auth/refresh is.                                       *)
LEMMA FetchType ==
  ASSUME TypeOK, NEW t \in Tabs, NEW i \in DOMAIN refreshes[t]
  PROVE  /\ refreshes[t][i] \in Fetch
         /\ refreshes[t][i].stage = "sent" => refreshes[t][i].cookie \in Nat \cup {None}
         /\ refreshes[t][i].stage = "answered" => refreshes[t][i].reply \in Access \cup {None}
  <1>1. refreshes[t] \in Seq(Fetch)
    BY DEF TypeOK
  <1>2. refreshes[t][i] \in Fetch
    BY <1>1, LenProperties, ElementOfSeq
  <1> QED BY <1>2 DEF Fetch

(* The answer to a fetch.                                                  *)
LEMMA AnswerType ==
  ASSUME TypeOK, NEW t \in Tabs, NEW i \in DOMAIN refreshes[t],
         NEW reply \in Access \cup {None}, Answer(t, i, reply)
  PROVE  /\ refreshes' \in [Tabs -> Seq(Fetch)]
         /\ \A s \in Tabs : Len(refreshes'[s]) = Len(refreshes[s])
  <1> DEFINE new == [stage |-> "answered", reply |-> reply]
  <1>1. refreshes[t] \in Seq(Fetch) /\ i \in 1 .. Len(refreshes[t])
    BY LenProperties DEF TypeOK
  <1>2. new \in Fetch
    BY DEF Fetch
  <1>3. /\ [refreshes[t] EXCEPT ![i] = new] \in Seq(Fetch)
        /\ Len([refreshes[t] EXCEPT ![i] = new]) = Len(refreshes[t])
    BY <1>1, <1>2, ExceptSeq
  <1>4. refreshes' = [refreshes EXCEPT ![t] = [refreshes[t] EXCEPT ![i] = new]]
    BY DEF Answer
  <1> QED BY <1>3, <1>4 DEF TypeOK

(* What calling refreshAccessToken does to the fetches of all tabs.        *)
LEMMA RefreshType ==
  ASSUME TypeOK, NEW t \in Tabs, Refresh(t)
  PROVE  /\ refreshes' \in [Tabs -> Seq(Fetch)]
         /\ inFlight' \in [Tabs -> BOOLEAN]
  <1> DEFINE new == [stage |-> "sent", cookie |-> cookie]
  <1>1. new \in Fetch
    BY DEF TypeOK, Fetch
  <1>2. Append(refreshes[t], new) \in Seq(Fetch)
    BY <1>1, AppendProperties DEF TypeOK
  <1> QED BY <1>2 DEF Refresh, TypeOK

(* What a resolved refresh does to the requests of its tab.                *)
LEMMA ResumeType ==
  ASSUME TypeOK, NEW t \in Tabs, NEW reply \in Access \cup {None}, Resume(t, reply)
  PROVE  CallsTyped'
  <1>1. ASSUME NEW c \in Waiting(t)
        PROVE  /\ Resumed(c, reply) \in Request \cup {NoCall}
               /\ Resumed(c, reply) # NoCall => Resumed(c, reply).reply = "none"
    BY <1>1, WaitingType DEF Resumed, Request
  <1>2. ASSUME NEW c \in Calls
        PROVE  call'[c] = IF c \in Waiting(t) THEN Resumed(c, reply) ELSE call[c]
    BY <1>2 DEF Resume
  <1>3. call' \in [Calls -> Request \cup {NoCall}]
    BY <1>1 DEF Resume, TypeOK
  <1> QED BY <1>1, <1>2, <1>3 DEF TypeOK, CallsTyped, Pending, NoCall

LEMMA ResolveType ==
  ASSUME TypeOK, NEW t \in Tabs, NEW i \in DOMAIN refreshes[t],
         NEW reply \in Access \cup {None}, Resolve(t, i, reply)
  PROVE  TypeOK'
  <1>1. RemoveAt(refreshes[t], i) \in Seq(Fetch)
    BY RemoveAtProperties DEF TypeOK
  <1>2. refreshes' \in [Tabs -> Seq(Fetch)]
    BY <1>1 DEF Resolve, TypeOK
  <1>3. CallsTyped'
    BY ResumeType DEF Resolve
  <1>4. cookie' \in Nat \cup {None} /\ token' \in [Tabs -> Access \cup {None}]
    BY DEF Resolve, TypeOK, Access
  <1>5. /\ inFlight' \in [Tabs -> BOOLEAN]
        /\ boot' \in [Tabs -> {"closed", "waiting", "cancelled", "booted"}]
    BY DEF Resolve, TypeOK
  <1> QED BY <1>2, <1>3, <1>4, <1>5 DEF Resolve, TypeOK, CallsTyped, server

(* One slot changes, to a well-formed request or to nothing.               *)
LEMMA SlotType ==
  ASSUME TypeOK, NEW c \in Calls, NEW new \in Request \cup {NoCall},
         new.stage # "idle" /\ new.kind = "login" /\ new.reply = "ok" => new.token # None,
         call' = [call EXCEPT ![c] = new]
  PROVE  CallsTyped'
  BY DEF TypeOK, CallsTyped, Pending, NoCall

(* A request that is sent, answered, refused or given up keeps the types.  *)
LEMMA RequestsKeepTypes ==
  ASSUME TypeOK, NEW c \in Calls,
         \/ \E t \in Tabs, kind \in {"api", "login", "logout"} : Send(c, t, kind)
         \/ ServeCall(c) \/ ServeLogin(c) \/ ServeLogout(c)
         \/ Receive(c) \/ GiveUp(c)
  PROVE  TypeOK'
  <1>1. ASSUME NEW t \in Tabs, NEW kind \in {"api", "login", "logout"}, Send(c, t, kind)
        PROVE  TypeOK'
    <2> DEFINE new == [stage |-> "sent", tab |-> t, kind |-> kind, attempt |-> 0,
                       token |-> IF kind = "login" THEN None ELSE token[t], reply |-> "none"]
    <2>1. new \in Request
      BY DEF TypeOK, Request
    <2>2. CallsTyped'
      BY <1>1, <2>1, SlotType DEF Send
    <2> QED BY <1>1, <2>2 DEF Send, TypeOK, CallsTyped, server, tabs
  <1>2. ASSUME Pending(c), NEW reply \in {"none", "ok", "401"}, NEW tok \in Access \cup {None},
               call[c].kind = "login" /\ reply = "ok" => tok # None,
               Reply(c, reply, tok)
        PROVE  CallsTyped'
    <2> DEFINE new == [call[c] EXCEPT !.stage = "replied", !.reply = reply, !.token = tok]
    <2>1. /\ new \in Request /\ new.kind = call[c].kind
          /\ new.reply = reply /\ new.token = tok
      BY <1>2, PendingIsRequest DEF Request
    <2>2. call' = [call EXCEPT ![c] = new]
      BY <1>2, PendingIsRequest DEF Reply, TypeOK, Request
    <2> QED BY <1>2, <2>1, <2>2, SlotType
  <1>3. ASSUME Pending(c)
        PROVE  /\ call[c] \in Request
               /\ call[c].token \in Access \cup {None} /\ call[c].tab \in Tabs
    BY <1>3, PendingIsRequest DEF Request
  <1>4. CASE ServeCall(c)
    <2>1. CallsTyped'
      BY <1>2, <1>3, <1>4 DEF ServeCall
    <2> QED BY <1>4, <2>1 DEF ServeCall, TypeOK, CallsTyped, server, tabs
  <1>5. CASE ServeLogin(c)
    <2>1. minted' \in Nat /\ expired \in 0 .. minted'
      BY <1>5 DEF ServeLogin, TypeOK
    <2>2. [ver |-> version, id |-> minted'] \in Access
      BY <2>1 DEF TypeOK, Access
    <2>3. [ver |-> version, id |-> minted'] # None
      BY <2>2, SessionAssumption DEF Access
    <2>4. CallsTyped'
      BY <1>2, <1>5, <2>2, <2>3 DEF ServeLogin
    <2> QED BY <1>5, <2>1, <2>4 DEF ServeLogin, TypeOK, CallsTyped, tabs
  <1>6. CASE ServeLogout(c)
    <2>1. CallsTyped'
      BY <1>2, <1>3, <1>6 DEF ServeLogout
    <2>2. version' \in Nat
      BY <1>6 DEF ServeLogout, Revoked, TypeOK
    <2> QED BY <1>6, <2>1, <2>2 DEF ServeLogout, TypeOK, CallsTyped, tabs
  <1>7. ASSUME Settled(c) PROVE CallsTyped'
    BY <1>7, SlotType DEF Settled, NoCall
  <1>8. CASE Receive(c)
    <2>1. CASE LoggedIn(c)
      <3>1. call[c].token \in Access /\ call[c].tab \in Tabs
        BY <1>3, <1>8, <2>1 DEF Receive, LoggedIn, TypeOK
      <3>2. token' \in [Tabs -> Access \cup {None}] /\ cookie' \in Nat
        BY <2>1, <3>1 DEF LoggedIn, TypeOK, Access
      <3> QED BY <1>7, <2>1, <3>2 DEF LoggedIn, TypeOK, CallsTyped, server
    <2>2. CASE Unauthorized(c)
      <3> DEFINE new == [call[c] EXCEPT !.stage = "refreshing"]
      <3>1. new \in Request /\ new.reply = "401"
        BY <1>3, <1>8, <2>2 DEF Receive, Unauthorized, MayRefresh, Request
      <3>2. call' = [call EXCEPT ![c] = new]
        BY <2>2 DEF Unauthorized, TypeOK
      <3>3. CallsTyped'
        BY <3>1, <3>2, SlotType
      <3>4. refreshes' \in [Tabs -> Seq(Fetch)] /\ inFlight' \in [Tabs -> BOOLEAN]
        BY <1>3, <1>8, <2>2, RefreshType DEF Receive, Unauthorized
      <3> QED BY <2>2, <3>3, <3>4 DEF Unauthorized, TypeOK, CallsTyped, server
    <2>3. CASE LoggedOut(c, call[c].reply = "ok") /\ UNCHANGED server
      BY <1>7, <2>3 DEF LoggedOut, TypeOK, CallsTyped, server
    <2>4. CASE Settled(c) /\ UNCHANGED <<server, cookie, tabs>>
      BY <1>7, <2>4 DEF TypeOK, CallsTyped, server, tabs
    <2> QED BY <1>8, <2>1, <2>2, <2>3, <2>4 DEF Receive
  <1>9. CASE GiveUp(c)
    <2>1. late' \subseteq Access \cup {None}
      BY <1>3, <1>9 DEF GiveUp, TypeOK
    <2>2. CASE LoggedOut(c, FALSE)
      BY <1>7, <1>9, <2>1, <2>2 DEF GiveUp, LoggedOut, TypeOK, CallsTyped
    <2>3. CASE Settled(c) /\ UNCHANGED <<cookie, tabs>>
      BY <1>7, <1>9, <2>1, <2>3 DEF GiveUp, TypeOK, CallsTyped, tabs
    <2> QED BY <1>9, <2>2, <2>3 DEF GiveUp
  <1> QED BY <1>1, <1>4, <1>5, <1>6, <1>8, <1>9

(* The variables keep their types, whatever the tabs, the server and the   *)
(* network do.                                                             *)
THEOREM TypeCorrect == Spec => []TypeOK
  <1>1. Init => TypeOK
    <2> SUFFICES ASSUME Init PROVE TypeOK
      OBVIOUS
    <2>1. refreshes \in [Tabs -> Seq(Fetch)]
      BY EmptySeq DEF Init
    <2>2. \A c \in Calls : call[c] = NoCall /\ ~Pending(c)
      BY DEF Init, NoCall, Pending
    <2>3. call \in [Calls -> Request \cup {NoCall}]
      BY DEF Init
    <2>4. /\ version \in Nat /\ minted \in Nat /\ expired \in 0 .. minted
          /\ late \subseteq Access \cup {None} /\ cookie \in Nat \cup {None}
      BY DEF Init
    <2>5. /\ token \in [Tabs -> Access \cup {None}]
          /\ inFlight \in [Tabs -> BOOLEAN]
          /\ boot \in [Tabs -> {"closed", "waiting", "cancelled", "booted"}]
          /\ signedOut \in BOOLEAN
      BY DEF Init
    <2> QED BY <2>1, <2>2, <2>3, <2>4, <2>5 DEF TypeOK
  <1>2. TypeOK /\ [Next]_vars => TypeOK'
    <2> SUFFICES ASSUME TypeOK, [Next]_vars PROVE TypeOK'
      OBVIOUS
    <2>1. ASSUME NEW t \in Tabs, Open(t) PROVE TypeOK'
      <3>1. refreshes' \in [Tabs -> Seq(Fetch)] /\ inFlight' \in [Tabs -> BOOLEAN]
        BY <2>1, RefreshType DEF Open
      <3>2. boot' \in [Tabs -> {"closed", "waiting", "cancelled", "booted"}]
        BY <2>1 DEF Open, Mounted, TypeOK
      <3> QED BY <2>1, <3>1, <3>2 DEF Open, TypeOK, Pending, server
    <2>2. ASSUME NEW t \in Tabs, Close(t) PROVE TypeOK'
      <3>1. \A d \in Calls : Pending(d) => call[d].token \in Access \cup {None}
        BY PendingIsRequest DEF Request
      <3>2. late' \subseteq Access \cup {None}
        BY <2>2, <3>1 DEF Close, TypeOK
      <3>3. CallsTyped'
        BY <2>2 DEF Close, TypeOK, CallsTyped, Pending, NoCall
      <3>4. refreshes' \in [Tabs -> Seq(Fetch)]
        BY <2>2, EmptySeq DEF Close, TypeOK
      <3> QED BY <2>2, <3>2, <3>3, <3>4 DEF Close, TypeOK, CallsTyped
    <2>3. ASSUME NEW t \in Tabs, NEW i \in DOMAIN refreshes[t], ServeRefresh(t, i) PROVE TypeOK'
      <3>1. minted' \in Nat /\ expired \in 0 .. minted'
        BY <2>3 DEF ServeRefresh, TypeOK
      <3>2. [ver |-> version, id |-> minted'] \in Access
        BY <3>1 DEF TypeOK, Access
      <3>3. refreshes' \in [Tabs -> Seq(Fetch)]
        BY <2>3, <3>2, AnswerType DEF ServeRefresh
      <3> QED BY <2>3, <3>1, <3>3 DEF ServeRefresh, TypeOK, Pending
    <2>4. ASSUME NEW t \in Tabs, NEW i \in DOMAIN refreshes[t],
                 ReceiveRefresh(t, i) \/ RefreshFails(t, i)
          PROVE  TypeOK'
      BY <2>4, FetchType, ResolveType DEF ReceiveRefresh, RefreshFails
    <2>5. ASSUME NEW tok \in late, ServeLate(tok) PROVE TypeOK'
      BY <2>5 DEF ServeLate, Revoked, TypeOK, Pending, tabs
    <2>6. CASE Expire
      BY <2>6 DEF Expire, TypeOK, Pending, tabs
    <2>7. CASE UNCHANGED vars
      BY <2>7 DEF vars, server, tabs, TypeOK, Pending, NoCall
    <2> QED BY <2>1, <2>2, <2>3, <2>4, <2>5, <2>6, <2>7, RequestsKeepTypes DEF Next, Script, Network
  <1> QED BY <1>1, <1>2, PTL DEF Spec
-----------------------------------------------------------------------------
(* One refresh per tab, whatever build, user or network.                   *)
LEMMA RefreshIsSingle ==
  ASSUME TypeOK, SingleFlight, NEW t \in Tabs, Refresh(t)
  PROVE  SingleFlight' /\ inFlight'[t]
  <1> DEFINE new == [stage |-> "sent", cookie |-> cookie]
  <1>1. new \in Fetch /\ refreshes[t] \in Seq(Fetch)
    BY DEF TypeOK, Fetch
  <1>2. Len(Append(refreshes[t], new)) = Len(refreshes[t]) + 1
    BY <1>1, AppendProperties
  <1>3. inFlight' = [inFlight EXCEPT ![t] = TRUE] /\ inFlight'[t]
    BY DEF Refresh, TypeOK
  <1>4. CASE inFlight[t]
    <2>1. refreshes' = refreshes /\ inFlight' = inFlight
      BY <1>3, <1>4 DEF Refresh, TypeOK
    <2> QED BY <1>3, <2>1 DEF SingleFlight
  <1>5. CASE ~inFlight[t]
    <2>1. refreshes' = [refreshes EXCEPT ![t] = Append(@, new)]
      BY <1>5 DEF Refresh
    <2>2. Len(refreshes'[t]) = 1
      BY <1>2, <1>5, <2>1 DEF SingleFlight, TypeOK
    <2>3. \A s \in Tabs \ {t} : refreshes'[s] = refreshes[s] /\ inFlight'[s] = inFlight[s]
      BY <1>3, <2>1 DEF TypeOK
    <2> QED BY <1>3, <2>2, <2>3 DEF SingleFlight
  <1> QED BY <1>4, <1>5

LEMMA ResolveIsLast ==
  ASSUME TypeOK, SingleFlight, NEW t \in Tabs, NEW i \in DOMAIN refreshes[t],
         NEW reply, Resolve(t, i, reply)
  PROVE  /\ SingleFlight'
         /\ Len(refreshes[t]) = 1 /\ Len(refreshes'[t]) = 0 /\ ~inFlight'[t]
         /\ \A s \in Tabs \ {t} : refreshes'[s] = refreshes[s] /\ inFlight'[s] = inFlight[s]
  <1>1. /\ refreshes[t] \in Seq(Fetch) /\ i \in 1 .. Len(refreshes[t])
        /\ Len(refreshes[t]) \in Nat
    BY LenProperties DEF TypeOK
  <1>2. Len(refreshes[t]) = 1
    <2>1. Len(refreshes[t]) # 0
      BY <1>1
    <2> QED BY <2>1 DEF SingleFlight
  <1>3. Len(RemoveAt(refreshes[t], i)) = 0
    BY <1>1, <1>2, RemoveAtProperties
  <1>4. /\ refreshes' = [refreshes EXCEPT ![t] = RemoveAt(refreshes[t], i)]
        /\ inFlight' = [inFlight EXCEPT ![t] = FALSE]
    BY DEF Resolve
  <1>5. Len(refreshes'[t]) = 0 /\ ~inFlight'[t]
    BY <1>3, <1>4 DEF TypeOK
  <1>6. \A s \in Tabs \ {t} : refreshes'[s] = refreshes[s] /\ inFlight'[s] = inFlight[s]
    BY <1>4 DEF TypeOK
  <1> QED BY <1>2, <1>5, <1>6 DEF SingleFlight

\* The steps that leave every tab's refreshes as they are.
LEMMA RefreshesUntouched ==
  ASSUME SingleFlight, UNCHANGED <<refreshes, inFlight>>
  PROVE  SingleFlight'
  BY DEF SingleFlight

(* At most one /auth/refresh of a tab is on the wire, and inFlightRefresh  *)
(* is set exactly while one is.                                            *)
THEOREM OneRefresh == Spec => []SingleFlight
  <1>1. Init => SingleFlight
    <2>1. Len(<<>>) = 0
      BY EmptySeq
    <2> QED BY <2>1 DEF Init, SingleFlight
  <1>2. TypeOK /\ SingleFlight /\ [Next]_vars => SingleFlight'
    <2> SUFFICES ASSUME TypeOK, SingleFlight, [Next]_vars PROVE SingleFlight'
      OBVIOUS
    <2>1. ASSUME NEW t \in Tabs, Open(t) PROVE SingleFlight'
      BY <2>1, RefreshIsSingle DEF Open
    <2>2. ASSUME NEW t \in Tabs, Close(t) PROVE SingleFlight'
      <3>1. /\ refreshes' = [refreshes EXCEPT ![t] = <<>>]
            /\ inFlight' = [inFlight EXCEPT ![t] = FALSE]
        BY <2>2 DEF Close
      <3>2. Len(refreshes'[t]) = 0 /\ ~inFlight'[t]
        BY <3>1, EmptySeq DEF TypeOK
      <3>3. \A s \in Tabs \ {t} : refreshes'[s] = refreshes[s] /\ inFlight'[s] = inFlight[s]
        BY <3>1 DEF TypeOK
      <3> QED BY <3>2, <3>3 DEF SingleFlight
    <2>3. ASSUME NEW t \in Tabs, NEW i \in DOMAIN refreshes[t], ServeRefresh(t, i)
          PROVE  SingleFlight'
      <3>1. PICK reply \in Access \cup {None} : Answer(t, i, reply)
        <4>1. CASE refreshes[t][i].cookie = version
          <5>1. [ver |-> version, id |-> minted'] \in Access
            BY <2>3, <4>1 DEF ServeRefresh, TypeOK, Access
          <5> QED BY <2>3, <4>1, <5>1 DEF ServeRefresh
        <4>2. CASE refreshes[t][i].cookie # version
          BY <2>3, <4>2 DEF ServeRefresh
        <4> QED BY <4>1, <4>2
      <3>2. \A s \in Tabs : Len(refreshes'[s]) = Len(refreshes[s])
        BY <3>1, AnswerType
      <3> QED BY <2>3, <3>2 DEF ServeRefresh, SingleFlight
    <2>4. ASSUME NEW t \in Tabs, NEW i \in DOMAIN refreshes[t],
                 ReceiveRefresh(t, i) \/ RefreshFails(t, i)
          PROVE  SingleFlight'
      BY <2>4, ResolveIsLast DEF ReceiveRefresh, RefreshFails
    <2>5. ASSUME NEW c \in Calls, NEW t \in Tabs, NEW kind \in {"api", "login", "logout"},
                 Send(c, t, kind)
          PROVE  SingleFlight'
      BY <2>5, RefreshesUntouched DEF Send, tabs
    <2>6. ASSUME NEW c \in Calls, Receive(c) PROVE SingleFlight'
      <3>1. CASE Unauthorized(c)
        <4>1. call[c].tab \in Tabs
          BY <2>6, PendingIsRequest DEF Receive, Request
        <4> QED BY <3>1, <4>1, RefreshIsSingle DEF Unauthorized
      <3>2. CASE ~Unauthorized(c)
        BY <2>6, <3>2, RefreshesUntouched DEF Receive, LoggedIn, LoggedOut, tabs
      <3> QED BY <3>1, <3>2
    <2>7. ASSUME NEW c \in Calls,
                 ServeCall(c) \/ ServeLogin(c) \/ ServeLogout(c) \/ GiveUp(c)
          PROVE  SingleFlight'
      BY <2>7, RefreshesUntouched
         DEF ServeCall, ServeLogin, ServeLogout, GiveUp, LoggedOut, tabs
    <2>8. CASE (\E tok \in late : ServeLate(tok)) \/ Expire \/ UNCHANGED vars
      BY <2>8, RefreshesUntouched DEF ServeLate, Expire, vars, tabs
    <2> QED BY <2>1, <2>2, <2>3, <2>4, <2>5, <2>6, <2>7, <2>8 DEF Next, Script, Network
  <1> QED BY <1>1, <1>2, TypeCorrect, PTL DEF Spec
-----------------------------------------------------------------------------
\* In a production build the boot effect is never cancelled.
HangInv ==
  /\ WaitersHaveARefresh
  /\ \A t \in Tabs : boot[t] # "cancelled"

\* The steps that set nobody waiting.
LEMMA NobodyStartsWaiting ==
  ASSUME HangInv, UNCHANGED <<inFlight, boot>>,
         \A c \in Calls : call'[c] = call[c] \/ call'[c].stage # "refreshing"
  PROVE  HangInv'
  BY DEF HangInv, WaitersHaveARefresh, Waiting, Pending, Status

\* One slot changes, to something that does not wait.
LEMMA SlotStartsNoWait ==
  ASSUME TypeOK, HangInv, UNCHANGED <<inFlight, boot>>, NEW c \in Calls, NEW new,
         new.stage # "refreshing", call' = [call EXCEPT ![c] = new]
  PROVE  HangInv'
  <1>1. \A d \in Calls : call'[d] = call[d] \/ call'[d].stage # "refreshing"
    BY DEF TypeOK
  <1> QED BY <1>1, NobodyStartsWaiting

LEMMA ResolveFreesAll ==
  ASSUME TypeOK, HangInv, NEW t \in Tabs, NEW i, NEW reply, Resolve(t, i, reply)
  PROVE  HangInv'
  <1>1. ASSUME NEW c \in Waiting(t) PROVE Resumed(c, reply).stage # "refreshing"
    BY <1>1, WaitingType DEF Resumed, NoCall, Request
  <1>2. ASSUME NEW c \in Calls
        PROVE  call'[c] = IF c \in Waiting(t) THEN Resumed(c, reply) ELSE call[c]
    BY <1>2 DEF Resolve, Resume
  <1>3. Waiting(t)' = {}
    BY <1>1, <1>2 DEF Waiting, Pending
  <1>4. \A s \in Tabs : Waiting(s)' \subseteq Waiting(s)
    BY <1>1, <1>2 DEF Waiting, Pending
  <1>5. /\ \A s \in Tabs \ {t} : inFlight'[s] = inFlight[s] /\ boot'[s] = boot[s]
        /\ boot'[t] = IF boot[t] = "waiting" THEN "booted" ELSE boot[t]
    BY DEF Resolve, TypeOK
  <1>6. boot'[t] \in {"closed", "booted"}
    BY <1>5 DEF TypeOK, HangInv
  <1>7. \A s \in Tabs : boot'[s] # "cancelled"
    BY <1>5, <1>6 DEF HangInv
  <1>8. ASSUME NEW s \in Tabs,
               Waiting(s)' # {} \/ (boot'[s] # "closed" /\ Status(s)' = "pending")
        PROVE  inFlight'[s]
    <2>1. s # t
      BY <1>3, <1>6, <1>8 DEF Status
    <2> QED BY <1>4, <1>5, <1>8, <2>1 DEF HangInv, WaitersHaveARefresh, Status
  <1> QED BY <1>7, <1>8 DEF HangInv, WaitersHaveARefresh

(* In a production build, every call that met a 401 and every page still   *)
(* "checking your session" waits for a refresh that is in flight.          *)
THEOREM NobodyHangs ==
  ASSUME StrictMode = FALSE
  PROVE  Spec => []WaitersHaveARefresh
  <1>1. Init => HangInv
    BY DEF Init, HangInv, WaitersHaveARefresh, Waiting, Pending, NoCall
  <1>2. TypeOK /\ HangInv /\ [Next]_vars => HangInv'
    <2> SUFFICES ASSUME TypeOK, HangInv, [Next]_vars PROVE HangInv'
      OBVIOUS
    <2>1. ASSUME NEW t \in Tabs, Open(t) PROVE HangInv'
      <3>1. /\ inFlight' = [inFlight EXCEPT ![t] = TRUE]
            /\ boot' = [boot EXCEPT ![t] = "waiting"] /\ call' = call
        BY <2>1 DEF Open, Refresh, Mounted
      <3> QED BY <3>1 DEF HangInv, WaitersHaveARefresh, Waiting, Pending, Status, TypeOK
    <2>2. ASSUME NEW t \in Tabs, Close(t) PROVE HangInv'
      <3>1. \A c \in Calls :
              call'[c] = IF Pending(c) /\ call[c].tab = t THEN NoCall ELSE call[c]
        BY <2>2 DEF Close
      <3>2. Waiting(t)' = {} /\ \A s \in Tabs : Waiting(s)' \subseteq Waiting(s)
        BY <3>1 DEF Waiting, Pending, NoCall
      <3>3. /\ boot'[t] = "closed"
            /\ \A s \in Tabs \ {t} : inFlight'[s] = inFlight[s] /\ boot'[s] = boot[s]
        BY <2>2 DEF Close, TypeOK
      <3> QED BY <3>2, <3>3 DEF HangInv, WaitersHaveARefresh, Status
    <2>3. ASSUME NEW t \in Tabs, NEW i \in DOMAIN refreshes[t], ServeRefresh(t, i) PROVE HangInv'
      BY <2>3, NobodyStartsWaiting DEF ServeRefresh
    <2>4. ASSUME NEW t \in Tabs, NEW i \in DOMAIN refreshes[t],
                 ReceiveRefresh(t, i) \/ RefreshFails(t, i)
          PROVE  HangInv'
      BY <2>4, ResolveFreesAll DEF ReceiveRefresh, RefreshFails
    <2>5. ASSUME NEW c \in Calls, NEW t \in Tabs, NEW kind \in {"api", "login", "logout"},
                 Send(c, t, kind)
          PROVE  HangInv'
      BY <2>5, SlotStartsNoWait DEF Send, tabs
    <2>6. ASSUME NEW c \in Calls, ServeCall(c) \/ ServeLogin(c) \/ ServeLogout(c) PROVE HangInv'
      <3>1. UNCHANGED <<inFlight, boot>>
        BY <2>6 DEF ServeCall, ServeLogin, ServeLogout, tabs
      <3>2. \E reply, tok : Reply(c, reply, tok) /\ Pending(c)
        BY <2>6 DEF ServeCall, ServeLogin, ServeLogout
      <3>3. \A d \in Calls : call'[d] = call[d] \/ call'[d].stage # "refreshing"
        BY <3>2, PendingIsRequest DEF Reply, Request, TypeOK
      <3> QED BY <3>1, <3>3, NobodyStartsWaiting
    <2>7. ASSUME NEW c \in Calls, Unauthorized(c), Pending(c) PROVE HangInv'
      <3>1. call[c].tab \in Tabs /\ call[c] \in Request
        BY <2>7, PendingIsRequest DEF Request
      <3>2. inFlight' = [inFlight EXCEPT ![call[c].tab] = TRUE] /\ boot' = boot
        BY <2>7 DEF Unauthorized, Refresh
      <3>3. /\ \A d \in Calls \ {c} : call'[d] = call[d]
            /\ call'[c].tab = call[c].tab
        BY <2>7, <3>1 DEF Unauthorized, TypeOK, Request
      <3>4. \A s \in Tabs \ {call[c].tab} : Waiting(s)' \subseteq Waiting(s)
        BY <3>3 DEF Waiting, Pending
      <3> QED BY <3>1, <3>2, <3>4 DEF HangInv, WaitersHaveARefresh, Status, TypeOK
    <2>8. ASSUME NEW c \in Calls, Settled(c), UNCHANGED <<inFlight, boot>> PROVE HangInv'
      BY <2>8, SlotStartsNoWait DEF Settled, NoCall
    <2>9. ASSUME NEW c \in Calls, Receive(c) \/ GiveUp(c) PROVE HangInv'
      BY <2>7, <2>8, <2>9 DEF Receive, GiveUp, LoggedIn, LoggedOut, tabs
    <2>10. CASE (\E tok \in late : ServeLate(tok)) \/ Expire \/ UNCHANGED vars
      BY <2>10, NobodyStartsWaiting DEF ServeLate, Expire, vars, tabs
    <2> QED BY <2>1, <2>2, <2>3, <2>4, <2>5, <2>6, <2>9, <2>10 DEF Next, Script, Network
  <1>3. HangInv => WaitersHaveARefresh
    BY DEF HangInv
  <1> QED BY <1>1, <1>2, <1>3, TypeCorrect, PTL DEF Spec
-----------------------------------------------------------------------------
\* The versions some tab, the cookie or a fetch could still use.
Ver(tok) == IF tok = None THEN None ELSE tok.ver

FetchVersion(f) == IF f.stage = "sent" THEN f.cookie ELSE Ver(f.reply)

Held(v) ==
  \/ cookie = v
  \/ \E t \in Tabs : Ver(token[t]) = v
  \/ \E t \in Tabs : \E i \in DOMAIN refreshes[t] : FetchVersion(refreshes[t][i]) = v

\* The session has ended: a logout was confirmed, or its confirmation or a
\* token minted before it is on its way to a tab.
LogoutServed == \E c \in Calls : Pending(c) /\ call[c].kind = "logout" /\ call[c].reply = "ok"

StaleAnswer ==
  \E t \in Tabs : \E i \in DOMAIN refreshes[t] :
    refreshes[t][i].stage = "answered" /\ FetchVersion(refreshes[t][i]) \notin {None, version}

Over == signedOut \/ LogoutServed \/ StaleAnswer

NoneHeldAhead == \A v \in Nat : Held(v) => v <= version

OverIsDead == Over => ~Held(version)

TokensCovered == \A t \in Tabs : Ver(token[t]) = version => cookie = version

LoginAlone ==
  \A c \in Calls : Pending(c) /\ call[c].kind = "login" =>
    /\ late = {}
    /\ \A t \in Tabs : ~inFlight[t]
    /\ \A d \in Calls : Pending(d) => d = c

LoginCurrent ==
  \A c \in Calls : Pending(c) /\ call[c].kind = "login" /\ call[c].reply = "ok" =>
    call[c].token.ver = version

EndInv == NoneHeldAhead /\ OverIsDead /\ TokensCovered /\ LoginAlone /\ LoginCurrent

(* What each kind of step does to the fetches.                             *)
LEMMA RefreshFetches ==
  ASSUME TypeOK, NEW t \in Tabs, Refresh(t), NEW s \in Tabs, NEW k \in DOMAIN refreshes'[s]
  PROVE  \/ k \in DOMAIN refreshes[s] /\ refreshes'[s][k] = refreshes[s][k]
         \/ refreshes'[s][k] = [stage |-> "sent", cookie |-> cookie]
  <1> DEFINE new == [stage |-> "sent", cookie |-> cookie]
  <1>1. CASE refreshes'[s] = refreshes[s]
    BY <1>1
  <1>2. CASE refreshes'[s] # refreshes[s]
    <2>1. s = t /\ refreshes'[s] = Append(refreshes[s], new)
      BY <1>2 DEF Refresh, TypeOK
    <2>2. refreshes[s] \in Seq(Fetch) /\ new \in Fetch
      BY DEF TypeOK, Fetch
    <2>3. /\ k \in 1 .. Len(refreshes[s]) + 1
          /\ DOMAIN refreshes[s] = 1 .. Len(refreshes[s])
          /\ Append(refreshes[s], new)[Len(refreshes[s]) + 1] = new
          /\ \A j \in 1 .. Len(refreshes[s]) : Append(refreshes[s], new)[j] = refreshes[s][j]
      BY <2>1, <2>2, AppendProperties, LenProperties
    <2>4. Len(refreshes[s]) \in Nat
      BY <2>2, LenProperties
    <2> HIDE DEF new
    <2>5. k \in 1 .. Len(refreshes[s]) \/ k = Len(refreshes[s]) + 1
      BY <2>3, <2>4
    <2>6. refreshes'[s][k] = refreshes[s][k] \/ refreshes'[s][k] = new
      BY <2>1, <2>3, <2>5
    <2>7. CASE k \in 1 .. Len(refreshes[s])
      BY <2>1, <2>3, <2>7
    <2>8. CASE k = Len(refreshes[s]) + 1
      BY <2>1, <2>3, <2>8 DEF new
    <2> QED BY <2>5, <2>7, <2>8
  <1> QED BY <1>1, <1>2

LEMMA AnswerFetches ==
  ASSUME TypeOK, NEW t \in Tabs, NEW i \in DOMAIN refreshes[t], NEW reply, Answer(t, i, reply),
         NEW s \in Tabs, NEW k \in DOMAIN refreshes'[s]
  PROVE  /\ k \in DOMAIN refreshes[s]
         /\ \/ refreshes'[s][k] = refreshes[s][k]
            \/ refreshes'[s][k] = [stage |-> "answered", reply |-> reply]
  <1> DEFINE new == [stage |-> "answered", reply |-> reply]
  <1>1. refreshes' = [refreshes EXCEPT ![t] = [refreshes[t] EXCEPT ![i] = new]]
    BY DEF Answer
  <1>2. refreshes'[s] = IF s = t THEN [refreshes[t] EXCEPT ![i] = new] ELSE refreshes[s]
    BY <1>1 DEF TypeOK
  <1> HIDE DEF new
  <1>3. CASE s = t
    BY <1>2, <1>3 DEF new
  <1>4. CASE s # t
    BY <1>2, <1>4
  <1> QED BY <1>3, <1>4

LEMMA ResolveFetches ==
  ASSUME TypeOK, SingleFlight, NEW t \in Tabs, NEW i \in DOMAIN refreshes[t], NEW reply,
         Resolve(t, i, reply), NEW s \in Tabs, NEW k \in DOMAIN refreshes'[s]
  PROVE  s # t /\ refreshes'[s] = refreshes[s]
  <1>1. CASE s = t
    <2>1. refreshes'[t] = RemoveAt(refreshes[t], i)
      BY DEF Resolve, TypeOK
    <2>2. RemoveAt(refreshes[t], i) \in Seq(Fetch)
      BY RemoveAtProperties DEF TypeOK
    <2>3. DOMAIN refreshes'[t] = 1 .. Len(refreshes'[t]) /\ Len(refreshes'[t]) = 0
      BY <2>1, <2>2, ResolveIsLast, LenProperties
    <2> QED BY <1>1, <2>3
  <1>2. CASE s # t
    BY <1>2, ResolveIsLast
  <1> QED BY <1>1, <1>2

LEMMA VersionTypes ==
  ASSUME TypeOK
  PROVE  /\ version \in Nat /\ None \notin Nat
         /\ \A t \in Tabs : Ver(token[t]) \in Nat \cup {None}
         /\ \A t \in Tabs : \A i \in DOMAIN refreshes[t] :
              FetchVersion(refreshes[t][i]) \in Nat \cup {None}
  <1>1. \A tok \in Access \cup {None} : Ver(tok) \in Nat \cup {None}
    BY DEF Ver, Access
  <1>2. ASSUME NEW t \in Tabs, NEW i \in DOMAIN refreshes[t]
        PROVE  FetchVersion(refreshes[t][i]) \in Nat \cup {None}
    <2>1. refreshes[t][i].stage \in {"sent", "answered"}
      BY <1>2, FetchType DEF Fetch
    <2> QED BY <1>1, <1>2, <2>1, FetchType DEF FetchVersion
  <1> QED BY <1>1, <1>2, SessionAssumption DEF TypeOK

(* A logout that is served kills everything minted before it.              *)
LEMMA BumpEnds ==
  ASSUME TypeOK, EndInv, version' = version + 1,
         UNCHANGED <<cookie, token, refreshes>>,
         \A c \in Calls : Pending(c)' => call'[c].kind # "login"
  PROVE  EndInv'
  <1>1. version \in Nat /\ version' \in Nat /\ None \notin Nat
    BY VersionTypes
  <1>2. \A v : Held(v)' <=> Held(v)
    BY DEF Held
  <1>3. ~Held(version)'
    <2>1. ~Held(version + 1)
      BY <1>1 DEF EndInv, NoneHeldAhead
    <2> QED BY <1>2, <2>1 DEF Held
  <1>4. NoneHeldAhead'
    BY <1>1, <1>2 DEF EndInv, NoneHeldAhead
  <1>5. TokensCovered'
    BY <1>3 DEF TokensCovered, Held
  <1>6. LoginAlone' /\ LoginCurrent'
    BY DEF LoginAlone, LoginCurrent
  <1> QED BY <1>3, <1>4, <1>5, <1>6 DEF EndInv, OverIsDead

(* A step that serves no logout and ends no login.                         *)
LEMMA NothingNew ==
  ASSUME EndInv, UNCHANGED version,
         \A v \in Nat : Held(v)' => Held(v), version \in Nat,
         Over' => Over, TokensCovered', LoginAlone', LoginCurrent'
  PROVE  EndInv'
  <1>1. NoneHeldAhead'
    BY DEF EndInv, NoneHeldAhead
  <1>2. Held(version)' => Held(version)
    BY DEF Held
  <1> QED BY <1>1, <1>2 DEF EndInv, OverIsDead

(* A step that only concerns one request, and does not confirm a logout.   *)
LEMMA OnlyARequest ==
  ASSUME TypeOK, EndInv, UNCHANGED <<version, cookie, token, refreshes, signedOut>>,
         LogoutServed' => LogoutServed, LoginAlone', LoginCurrent'
  PROVE  EndInv'
  <1>1. \A v : Held(v)' <=> Held(v)
    BY DEF Held
  <1>2. StaleAnswer' => StaleAnswer
    BY DEF StaleAnswer
  <1>3. TokensCovered'
    BY DEF EndInv, TokensCovered
  <1> QED BY <1>1, <1>2, <1>3, VersionTypes, NothingNew DEF Over

(* A tab that drops its token and settles its requests.                    *)
LEMMA LoginsEnd ==
  ASSUME EndInv, late' \subseteq late \/ ~\E c \in Calls : Pending(c)' /\ call'[c].kind = "login",
         \A t \in Tabs : inFlight'[t] => inFlight[t],
         \A c \in Calls : Pending(c)' => Pending(c) /\ call'[c].kind = call[c].kind
  PROVE  LoginAlone'
  BY DEF EndInv, LoginAlone

LEMMA RefreshEndsNothing ==
  ASSUME TypeOK, EndInv, NEW t \in Tabs, Refresh(t),
         UNCHANGED <<version, cookie, token, signedOut>>,
         LogoutServed' => LogoutServed,
         \A c \in Calls : Pending(c)' => call'[c].kind # "login"
  PROVE  EndInv'
  <1>1. ASSUME NEW s \in Tabs, NEW k \in DOMAIN refreshes'[s]
        PROVE  \/ k \in DOMAIN refreshes[s] /\ refreshes'[s][k] = refreshes[s][k]
               \/ refreshes'[s][k].stage = "sent" /\ FetchVersion(refreshes'[s][k]) = cookie
    BY <1>1, RefreshFetches DEF FetchVersion
  <1>2. \A v \in Nat : Held(v)' => Held(v)
    BY <1>1 DEF Held, FetchVersion
  <1>3. StaleAnswer' => StaleAnswer
    BY <1>1 DEF StaleAnswer, FetchVersion
  <1>4. TokensCovered'
    BY DEF EndInv, TokensCovered
  <1>5. LoginAlone' /\ LoginCurrent'
    BY DEF LoginAlone, LoginCurrent
  <1> QED BY <1>2, <1>3, <1>4, <1>5, VersionTypes, NothingNew DEF Over

LEMMA AnswerEndsNothing ==
  ASSUME TypeOK, EndInv, NEW t \in Tabs, NEW i \in DOMAIN refreshes[t], ServeRefresh(t, i)
  PROVE  EndInv'
  <1>1. PICK reply \in Access \cup {None} :
          /\ Answer(t, i, reply)
          /\ Ver(reply) \in {None, version}
          /\ Ver(reply) = version => refreshes[t][i].cookie = version
    <2>1. CASE refreshes[t][i].cookie = version
      <3>1. [ver |-> version, id |-> minted'] \in Access
        BY <2>1 DEF ServeRefresh, TypeOK, Access
      <3>2. Ver([ver |-> version, id |-> minted']) = version
        BY <3>1, SessionAssumption DEF Ver, Access
      <3> QED BY <2>1, <3>1, <3>2 DEF ServeRefresh
    <2>2. CASE refreshes[t][i].cookie # version
      <3>1. Ver(None) = None /\ None # version
        BY VersionTypes DEF Ver
      <3> QED BY <2>2, <3>1 DEF ServeRefresh
    <2> QED BY <2>1, <2>2
  <1>2. refreshes[t][i].stage = "sent" /\ UNCHANGED <<version, late, cookie, token, inFlight, signedOut, call>>
    BY DEF ServeRefresh
  <1>3. ASSUME NEW s \in Tabs, NEW k \in DOMAIN refreshes'[s]
        PROVE  /\ k \in DOMAIN refreshes[s]
               /\ \/ refreshes'[s][k] = refreshes[s][k]
                  \/ /\ FetchVersion(refreshes'[s][k]) \in {None, version}
                     /\ FetchVersion(refreshes'[s][k]) = version => Held(version)
    <2>1. CASE refreshes'[s][k] = refreshes[s][k]
      BY <1>1, <1>3, <2>1, AnswerFetches
    <2>2. CASE refreshes'[s][k] = [stage |-> "answered", reply |-> reply]
      <3>1. FetchVersion(refreshes'[s][k]) = Ver(reply)
        BY <2>2 DEF FetchVersion
      <3>2. refreshes[t][i].cookie = FetchVersion(refreshes[t][i])
        BY <1>2 DEF FetchVersion
      <3>3. Ver(reply) = version => Held(version)
        BY <1>1, <3>2 DEF Held
      <3>4. k \in DOMAIN refreshes[s]
        BY <1>1, <1>3, AnswerFetches
      <3> QED BY <1>1, <3>1, <3>3, <3>4
    <2> QED BY <1>1, <1>3, <2>1, <2>2, AnswerFetches
  <1>4. \A v \in Nat : Held(v)' => Held(v)
    <2> SUFFICES ASSUME NEW v \in Nat, Held(v)' PROVE Held(v)
      OBVIOUS
    <2>1. CASE cookie' = v \/ \E s \in Tabs : Ver(token'[s]) = v
      BY <1>2, <2>1 DEF Held
    <2>2. CASE \E s \in Tabs : \E k \in DOMAIN refreshes'[s] : FetchVersion(refreshes'[s][k]) = v
      BY <1>3, <2>2, VersionTypes DEF Held
    <2> QED BY <2>1, <2>2 DEF Held, Ver, FetchVersion
  <1>5. StaleAnswer' => StaleAnswer
    BY <1>2, <1>3 DEF StaleAnswer, FetchVersion
  <1>6. LogoutServed' => LogoutServed
    BY <1>2 DEF LogoutServed, Pending
  <1>7. TokensCovered' /\ LoginAlone' /\ LoginCurrent'
    BY <1>2 DEF EndInv, TokensCovered, LoginAlone, LoginCurrent, Pending
  <1> QED BY <1>2, <1>4, <1>5, <1>6, <1>7, VersionTypes, NothingNew DEF Over

(* A refresh that resolves moves its token into the tab and the cookie; if *)
(* that token is not current, nothing is any more.                         *)
LEMMA ResolveEndsNothing ==
  ASSUME TypeOK, SingleFlight, EndInv, NEW t \in Tabs, NEW i \in DOMAIN refreshes[t],
         NEW reply \in Access \cup {None}, Resolve(t, i, reply),
         reply # None => refreshes[t][i] = [stage |-> "answered", reply |-> reply]
  PROVE  EndInv'
  <1>1. /\ token' = [token EXCEPT ![t] = reply]
        /\ cookie' = IF reply = None THEN cookie ELSE reply.ver
        /\ UNCHANGED <<version, late, signedOut>>
    BY DEF Resolve, server
  <1>2. reply # None => FetchVersion(refreshes[t][i]) = Ver(reply)
    BY DEF FetchVersion
  <1>3. \A s \in Tabs : Ver(token'[s]) = IF s = t THEN Ver(reply) ELSE Ver(token[s])
    BY <1>1 DEF TypeOK
  <1>4. Ver(None) = None
    BY DEF Ver
  <1>5. ASSUME NEW v \in Nat, Held(v)' PROVE Held(v)
    <2>1. CASE cookie' = v
      BY <1>1, <1>2, <2>1 DEF Held, Ver
    <2>2. CASE \E s \in Tabs : Ver(token'[s]) = v
      BY <1>2, <1>3, <1>4, <1>5, <2>2, VersionTypes DEF Held
    <2>3. CASE \E s \in Tabs : \E k \in DOMAIN refreshes'[s] : FetchVersion(refreshes'[s][k]) = v
      BY <2>3, ResolveFetches DEF Held
    <2> QED BY <1>5, <2>1, <2>2, <2>3 DEF Held, Ver, FetchVersion
  <1>6. StaleAnswer' => StaleAnswer
    BY <1>1, ResolveFetches DEF StaleAnswer, FetchVersion, Ver
  <1>7. ASSUME NEW c \in Calls
        PROVE  call'[c] = IF c \in Waiting(t) THEN Resumed(c, reply) ELSE call[c]
    BY <1>7 DEF Resolve, Resume
  <1>8. ASSUME NEW c \in Calls, Pending(c)'
        PROVE  /\ Pending(c) /\ call'[c].kind = call[c].kind
               /\ call'[c] = call[c] \/ call'[c].reply = "none"
    <2>1. CASE c \notin Waiting(t)
      BY <1>7, <1>8, <2>1 DEF Pending
    <2>2. CASE c \in Waiting(t)
      <3>1. Pending(c) /\ call[c] \in Request
        BY <2>2, WaitingType DEF Waiting
      <3>2. call'[c] = Resumed(c, reply)
        BY <1>7, <2>2
      <3>3. reply # None
        BY <1>8, <3>2 DEF Resumed, Pending, NoCall
      <3> QED BY <3>1, <3>2, <3>3 DEF Resumed, Request
    <2> QED BY <2>1, <2>2
  <1>9. LogoutServed' => LogoutServed
    BY <1>8 DEF LogoutServed
  <1>10. LoginAlone'
    <2>1. \A s \in Tabs : inFlight'[s] => inFlight[s]
      BY DEF Resolve, TypeOK
    <2> QED BY <1>1, <1>8, <2>1, LoginsEnd
  <1>11. LoginCurrent'
    BY <1>1, <1>8 DEF EndInv, LoginCurrent
  <1>12. TokensCovered'
    <2> SUFFICES ASSUME NEW s \in Tabs, Ver(token'[s]) = version PROVE cookie' = version
      BY <1>1 DEF TokensCovered, Ver
    <2>1. CASE reply = None
      <3>1. s # t
        BY <1>3, <1>4, <2>1, VersionTypes
      <3> QED BY <1>1, <1>3, <2>1, <3>1 DEF EndInv, TokensCovered
    <2>2. CASE reply # None
      <3>1. Held(version)
        BY <1>2, <1>3, <2>2 DEF Held
      <3>2. Ver(reply) = version
        <4>1. ~StaleAnswer
          BY <3>1 DEF EndInv, OverIsDead, Over
        <4>2. Ver(reply) \in Nat
          BY <2>2 DEF Ver, Access
        <4> QED BY <1>2, <2>2, <4>1, <4>2, VersionTypes DEF StaleAnswer
      <3> QED BY <1>1, <2>2, <3>2 DEF Ver
    <2> QED BY <2>1, <2>2
  <1> QED BY <1>1, <1>5, <1>6, <1>9, <1>10, <1>11, <1>12, VersionTypes, NothingNew DEF Over

LEMMA CloseEndsNothing ==
  ASSUME TypeOK, EndInv, NEW t \in Tabs, Close(t)
  PROVE  EndInv'
  <1>1. /\ token' = [token EXCEPT ![t] = None]
        /\ refreshes' = [refreshes EXCEPT ![t] = <<>>]
        /\ inFlight' = [inFlight EXCEPT ![t] = FALSE]
        /\ UNCHANGED <<version, cookie, signedOut>>
    BY DEF Close
  <1>2. Ver(None) = None
    BY DEF Ver
  <1>3. \A s \in Tabs : \A k \in DOMAIN refreshes'[s] : s # t /\ refreshes'[s] = refreshes[s]
    BY <1>1 DEF TypeOK
  <1>4. \A s \in Tabs : Ver(token'[s]) = IF s = t THEN None ELSE Ver(token[s])
    BY <1>1, <1>2 DEF TypeOK
  <1>5. \A v \in Nat : Held(v)' => Held(v)
    BY <1>1, <1>3, <1>4, VersionTypes DEF Held, Ver, FetchVersion
  <1>6. StaleAnswer' => StaleAnswer
    BY <1>1, <1>3 DEF StaleAnswer, FetchVersion, Ver
  <1>7. \A c \in Calls : Pending(c)' => Pending(c) /\ call'[c] = call[c] /\ call[c].tab # t
    BY DEF Close, Pending, NoCall
  <1>8. LogoutServed' => LogoutServed
    BY <1>7 DEF LogoutServed
  <1>9. LoginAlone'
    <2>1. \A s \in Tabs : inFlight'[s] => inFlight[s]
      BY <1>1 DEF TypeOK
    <2>2. CASE \E c \in Calls : Pending(c)' /\ call'[c].kind = "login"
      <3>1. \A d \in Calls : Pending(d) => call[d].tab # t
        BY <1>7, <2>2 DEF EndInv, LoginAlone
      <3>2. late' = late
        BY <3>1 DEF Close
      <3> QED BY <1>7, <2>1, <3>2, LoginsEnd
    <2>3. CASE ~\E c \in Calls : Pending(c)' /\ call'[c].kind = "login"
      BY <2>3 DEF LoginAlone
    <2> QED BY <2>2, <2>3
  <1>10. LoginCurrent'
    BY <1>1, <1>7 DEF EndInv, LoginCurrent
  <1>11. TokensCovered'
    BY <1>1, <1>4, VersionTypes DEF EndInv, TokensCovered, Ver
  <1> QED BY <1>1, <1>5, <1>6, <1>8, <1>9, <1>10, <1>11, VersionTypes, NothingNew DEF Over

\* A request that ends or is refused, by itself.
LEMMA SettledEndsNothing ==
  ASSUME TypeOK, EndInv, NEW c \in Calls, Pending(c), Settled(c),
         UNCHANGED <<version, inFlight>>, late' = late \/ call[c].kind = "logout"
  PROVE  /\ LogoutServed' => LogoutServed
         /\ LoginAlone' /\ LoginCurrent'
  <1>1. \A d \in Calls : Pending(d)' => Pending(d) /\ call'[d] = call[d] /\ d # c
    BY DEF Settled, NoCall, Pending, TypeOK
  <1>2. LogoutServed' => LogoutServed
    BY <1>1 DEF LogoutServed
  <1>3. LoginCurrent'
    BY <1>1 DEF EndInv, LoginCurrent
  <1>4. LoginAlone'
    <2>1. ~\E d \in Calls : Pending(d)' /\ call'[d].kind = "login"
      BY <1>1 DEF EndInv, LoginAlone
    <2> QED BY <2>1 DEF LoginAlone
  <1> QED BY <1>2, <1>3, <1>4

LEMMA LoggedInRevives ==
  ASSUME TypeOK, SingleFlight, EndInv, NEW c \in Calls, Pending(c), LoggedIn(c)
  PROVE  EndInv'
  <1>1. /\ call[c].token \in Access /\ call[c].tab \in Tabs /\ call[c].token # None
        /\ call[c].token.ver = version
    BY PendingIsRequest DEF LoggedIn, TypeOK, Request, EndInv, LoginCurrent
  <1>2. /\ cookie' = version /\ version' = version /\ ~signedOut' /\ late' = late
        /\ token' = [token EXCEPT ![call[c].tab] = call[c].token]
        /\ refreshes' = refreshes /\ inFlight' = inFlight
    BY <1>1 DEF LoggedIn, server
  <1>3. \A s \in Tabs : Ver(token'[s]) = IF s = call[c].tab THEN version ELSE Ver(token[s])
    BY <1>1, <1>2 DEF TypeOK, Ver
  <1>4. \A v : Held(v)' => Held(v) \/ v = version
    BY <1>2, <1>3 DEF Held
  <1>5. NoneHeldAhead'
    BY <1>2, <1>4, VersionTypes DEF EndInv, NoneHeldAhead
  <1>6. ~StaleAnswer'
    <2>1. \A t \in Tabs : refreshes[t] \in Seq(Fetch) /\ Len(refreshes[t]) = 0
      BY DEF EndInv, LoginAlone, LoggedIn, SingleFlight, TypeOK
    <2>2. \A t \in Tabs : DOMAIN refreshes[t] = 1 .. 0
      BY <2>1, LenProperties
    <2> QED BY <1>2, <2>2 DEF StaleAnswer
  <1>7. \A d \in Calls : ~Pending(d)'
    BY DEF LoggedIn, Settled, Pending, NoCall, TypeOK, EndInv, LoginAlone
  <1>8. ~LogoutServed' /\ LoginAlone' /\ LoginCurrent'
    BY <1>7 DEF LogoutServed, LoginAlone, LoginCurrent
  <1>9. TokensCovered'
    BY <1>2 DEF TokensCovered
  <1> QED BY <1>2, <1>5, <1>6, <1>8, <1>9 DEF EndInv, OverIsDead, Over

LEMMA LoggedOutIsDead ==
  ASSUME TypeOK, EndInv, NEW c \in Calls, NEW ok \in BOOLEAN, Pending(c), LoggedOut(c, ok),
         ok => call[c].reply = "ok", UNCHANGED version
  PROVE  EndInv'
  <1>1. /\ token' = [token EXCEPT ![call[c].tab] = None]
        /\ cookie' = IF ok THEN None ELSE cookie
        /\ signedOut' = (ok \/ signedOut)
        /\ refreshes' = refreshes /\ inFlight' = inFlight /\ call[c].kind = "logout"
    BY DEF LoggedOut
  <1>2. ok => LogoutServed
    BY <1>1 DEF LogoutServed
  <1>3. Ver(None) = None
    BY DEF Ver
  <1>4. \A s \in Tabs : Ver(token'[s]) \in {None, Ver(token[s])}
    BY <1>1, <1>3 DEF TypeOK
  <1>5. \A v \in Nat : Held(v)' => Held(v)
    BY <1>1, <1>4, VersionTypes DEF Held
  <1>6. StaleAnswer' => StaleAnswer
    BY <1>1 DEF StaleAnswer
  <1>7. (LogoutServed' => LogoutServed) /\ LoginAlone' /\ LoginCurrent'
    BY <1>1, SettledEndsNothing DEF LoggedOut
  <1>8. TokensCovered'
    <2> SUFFICES ASSUME NEW s \in Tabs, Ver(token'[s]) = version PROVE cookie' = version
      BY DEF TokensCovered, Ver
    <2>1. Ver(token[s]) = version
      BY <1>4, VersionTypes
    <2>2. Held(version)
      BY <2>1 DEF Held
    <2>3. ~ok
      BY <1>2, <2>2 DEF EndInv, OverIsDead, Over
    <2> QED BY <1>1, <2>1, <2>3 DEF EndInv, TokensCovered
  <1> QED BY <1>1, <1>2, <1>5, <1>6, <1>7, <1>8, VersionTypes, NothingNew DEF Over

\* A request that is answered keeps its kind.
LEMMA ReplyFacts ==
  ASSUME TypeOK, NEW c \in Calls, Pending(c), NEW reply, NEW tok, Reply(c, reply, tok)
  PROVE  /\ \A d \in Calls : d # c => call'[d] = call[d]
         /\ call'[c].kind = call[c].kind /\ call'[c].reply = reply /\ call'[c].token = tok
         /\ \A d \in Calls : Pending(d)' => Pending(d)
  BY PendingIsRequest DEF Reply, TypeOK, Request, Pending

LEMMA ServedRequests ==
  ASSUME TypeOK, EndInv, NEW c \in Calls, ServeCall(c) \/ ServeLogin(c) \/ ServeLogout(c)
  PROVE  EndInv'
  <1>1. PICK reply, tok : Reply(c, reply, tok) /\ Pending(c)
    BY DEF ServeCall, ServeLogin, ServeLogout
  <1>2. UNCHANGED <<cookie, token, refreshes, inFlight, late, signedOut>>
    BY DEF ServeCall, ServeLogin, ServeLogout, server, tabs
  <1>3. LoginAlone'
    BY <1>1, <1>2, ReplyFacts, LoginsEnd
  <1>4. CASE ServeCall(c)
    <2>1. \A d \in Calls : Pending(d)' => Pending(d) /\ (call'[d] = call[d] \/ call'[d].kind = "api")
      BY <1>1, <1>4, ReplyFacts DEF ServeCall
    <2>2. (LogoutServed' => LogoutServed) /\ LoginCurrent'
      BY <1>4, <2>1 DEF LogoutServed, EndInv, LoginCurrent, ServeCall, server
    <2> QED BY <1>2, <1>3, <1>4, <2>2, OnlyARequest DEF ServeCall, server
  <1>5. CASE ServeLogin(c)
    <2>1. PICK answer, new : /\ Reply(c, answer, new)
                             /\ answer = "ok" => new.ver = version
      BY <1>5 DEF ServeLogin
    <2>2. \A d \in Calls : Pending(d)' =>
            /\ Pending(d)
            /\ \/ d # c /\ call'[d] = call[d]
               \/ d = c /\ call'[d].kind = "login" /\ call'[d].reply = answer /\ call'[d].token = new
      BY <1>1, <1>5, <2>1, ReplyFacts DEF ServeLogin
    <2>3. LogoutServed' => LogoutServed
      BY <2>2 DEF LogoutServed
    <2>4. LoginCurrent'
      BY <1>5, <2>1, <2>2 DEF EndInv, LoginCurrent, ServeLogin
    <2> QED BY <1>2, <1>3, <1>5, <2>3, <2>4, OnlyARequest DEF ServeLogin
  <1>6. CASE ServeLogout(c)
    <2>1. \A d \in Calls : Pending(d) => call[d].kind # "login"
      BY <1>6 DEF ServeLogout, EndInv, LoginAlone
    <2>2. \A d \in Calls : Pending(d)' => call'[d].kind # "login"
      BY <1>1, <2>1, ReplyFacts
    <2>3. CASE Accepts(call[c].token)
      BY <1>2, <1>6, <2>2, <2>3, BumpEnds DEF ServeLogout, Revoked
    <2>4. CASE ~Accepts(call[c].token)
      <3>1. Reply(c, "401", call[c].token) /\ version' = version
        BY <1>6, <2>4 DEF ServeLogout, Revoked
      <3>2. LogoutServed' => LogoutServed
        BY <1>1, <3>1, ReplyFacts DEF LogoutServed
      <3>3. LoginCurrent'
        BY <2>2 DEF LoginCurrent
      <3> QED BY <1>2, <1>3, <3>1, <3>2, <3>3, OnlyARequest
    <2> QED BY <2>3, <2>4
  <1> QED BY <1>4, <1>5, <1>6

LEMMA SentRequests ==
  ASSUME "login" \notin Overlap, TypeOK, EndInv,
         NEW c \in Calls, NEW t \in Tabs, NEW kind \in {"api", "login", "logout"},
         Send(c, t, kind)
  PROVE  EndInv'
  <1>1. /\ ~Pending(c) /\ \A d \in Calls : d # c => call'[d] = call[d]
        /\ call'[c].kind = kind /\ call'[c].reply = "none"
        /\ UNCHANGED <<version, late, cookie, token, refreshes, inFlight, signedOut>>
    BY DEF Send, TypeOK, server, tabs
  <1>2. /\ \A d \in Calls : Pending(d) /\ call[d].kind = "login" => call[d].tab \notin Tabs
        /\ kind = "login" =>
             late = {} /\ (\A s \in Tabs : ~inFlight[s]) /\ \A d \in Calls : ~Pending(d)
    BY DEF Send, Alone, PendingOf
  <1>3. \A d \in Calls : Pending(d) => call[d].kind # "login"
    BY <1>2, PendingIsRequest DEF Request
  <1>4. LoginAlone'
    BY <1>1, <1>2, <1>3 DEF LoginAlone, Pending
  <1>5. (LogoutServed' => LogoutServed) /\ LoginCurrent'
    BY <1>1, <1>3 DEF LogoutServed, LoginCurrent, Pending
  <1> QED BY <1>1, <1>4, <1>5, OnlyARequest

LEMMA ReceivedRequests ==
  ASSUME TypeOK, SingleFlight, EndInv, NEW c \in Calls, Receive(c) \/ GiveUp(c)
  PROVE  EndInv'
  <1>1. Pending(c)
    BY DEF Receive, GiveUp
  <1>2. CASE Receive(c) /\ LoggedIn(c)
    BY <1>1, <1>2, LoggedInRevives
  <1>3. CASE Receive(c) /\ Unauthorized(c)
    <2>1. call[c].tab \in Tabs /\ call[c].kind # "login" /\ call[c].reply # "ok"
      BY <1>1, <1>3, PendingIsRequest DEF Request, Unauthorized, MayRefresh
    <2>2. \A d \in Calls : /\ d # c => call'[d] = call[d]
                           /\ call'[c].kind = call[c].kind /\ call'[c].reply = call[c].reply
      BY <1>1, <1>3, PendingIsRequest DEF Unauthorized, TypeOK, Request
    <2>3. LogoutServed' => LogoutServed
      BY <2>1, <2>2 DEF LogoutServed, Pending
    <2>4. \A d \in Calls : Pending(d)' => call'[d].kind # "login"
      BY <1>1, <2>1, <2>2 DEF EndInv, LoginAlone, Pending
    <2> QED BY <1>3, <2>1, <2>3, <2>4, RefreshEndsNothing DEF Unauthorized, server
  <1>4. CASE Receive(c) /\ LoggedOut(c, call[c].reply = "ok") /\ UNCHANGED server
    <2>1. (call[c].reply = "ok") \in BOOLEAN
      OBVIOUS
    <2> QED BY <1>1, <1>4, <2>1, LoggedOutIsDead DEF server
  <1>5. CASE Receive(c) /\ Settled(c) /\ UNCHANGED <<server, cookie, tabs>>
    <2>1. UNCHANGED <<version, late, cookie, token, refreshes, inFlight, signedOut>>
      BY <1>5 DEF server, tabs
    <2> QED BY <1>1, <1>5, <2>1, SettledEndsNothing, OnlyARequest
  <1>6. CASE GiveUp(c) /\ LoggedOut(c, FALSE)
    BY <1>1, <1>6, LoggedOutIsDead DEF GiveUp
  <1>7. CASE GiveUp(c) /\ Settled(c) /\ UNCHANGED <<cookie, tabs>>
    <2>1. UNCHANGED <<version, cookie, token, refreshes, inFlight, signedOut>>
      BY <1>7 DEF GiveUp, tabs
    <2>2. late' = late \/ call[c].kind = "logout"
      BY <1>7 DEF GiveUp
    <2> QED BY <1>1, <1>7, <2>1, <2>2, SettledEndsNothing, OnlyARequest
  <1> QED BY <1>2, <1>3, <1>4, <1>5, <1>6, <1>7 DEF Receive, GiveUp

LEMMA EndInvHolds ==
  ASSUME "login" \notin Overlap
  PROVE  Spec => []EndInv
  <1>1. Init => EndInv
    <2> SUFFICES ASSUME Init PROVE EndInv
      OBVIOUS
    <2>1. \A c \in Calls : ~Pending(c)
      BY DEF Init, Pending, NoCall
    <2>2. \A t \in Tabs : refreshes[t] = <<>> /\ token[t] = None /\ Ver(token[t]) = None
      BY DEF Init, Ver
    <2>3. \A t \in Tabs : DOMAIN refreshes[t] = {}
      BY <2>2
    <2>4. version = 0 /\ cookie \in {0, None} /\ None # 0 /\ None \notin Nat /\ ~signedOut
      BY SessionAssumption DEF Init
    <2>5. NoneHeldAhead
      BY <2>2, <2>3, <2>4 DEF NoneHeldAhead, Held
    <2>6. OverIsDead
      BY <2>1, <2>3, <2>4 DEF OverIsDead, Over, LogoutServed, StaleAnswer
    <2>7. TokensCovered /\ LoginAlone /\ LoginCurrent
      BY <2>1, <2>2, <2>4 DEF TokensCovered, LoginAlone, LoginCurrent
    <2> QED BY <2>5, <2>6, <2>7 DEF EndInv
  <1>2. TypeOK /\ SingleFlight /\ EndInv /\ [Next]_vars => EndInv'
    <2> SUFFICES ASSUME TypeOK, SingleFlight, EndInv, [Next]_vars PROVE EndInv'
      OBVIOUS
    <2>1. ASSUME NEW t \in Tabs, Open(t) PROVE EndInv'
      <3>1. \A c \in Calls : Pending(c) => call[c].kind # "login"
        BY <2>1, PendingIsRequest DEF Open, Alone, PendingOf, Request
      <3>2. (LogoutServed' => LogoutServed) /\ \A c \in Calls : Pending(c)' => call'[c].kind # "login"
        BY <2>1, <3>1 DEF Open, LogoutServed, Pending
      <3> QED BY <2>1, <3>2, RefreshEndsNothing DEF Open, server
    <2>2. ASSUME NEW t \in Tabs, Close(t) PROVE EndInv'
      BY <2>2, CloseEndsNothing
    <2>3. ASSUME NEW t \in Tabs, NEW i \in DOMAIN refreshes[t], ServeRefresh(t, i) PROVE EndInv'
      BY <2>3, AnswerEndsNothing
    <2>4. ASSUME NEW t \in Tabs, NEW i \in DOMAIN refreshes[t],
                 ReceiveRefresh(t, i) \/ RefreshFails(t, i)
          PROVE  EndInv'
      <3>1. CASE ReceiveRefresh(t, i)
        <4>1. /\ refreshes[t][i] \in Fetch /\ refreshes[t][i].stage = "answered"
              /\ refreshes[t][i].reply \in Access \cup {None}
          BY <2>4, <3>1, FetchType DEF ReceiveRefresh
        <4>2. refreshes[t][i] = [stage |-> "answered", reply |-> refreshes[t][i].reply]
          BY <4>1 DEF Fetch
        <4> QED BY <3>1, <4>1, <4>2, ResolveEndsNothing DEF ReceiveRefresh
      <3>2. CASE RefreshFails(t, i)
        BY <3>2, ResolveEndsNothing DEF RefreshFails
      <3> QED BY <2>4, <3>1, <3>2
    <2>5. ASSUME NEW c \in Calls, NEW t \in Tabs, NEW kind \in {"api", "login", "logout"},
                 Send(c, t, kind)
          PROVE  EndInv'
      BY <2>5, SentRequests
    <2>6. ASSUME NEW c \in Calls, ServeCall(c) \/ ServeLogin(c) \/ ServeLogout(c) PROVE EndInv'
      BY <2>6, ServedRequests
    <2>7. ASSUME NEW c \in Calls, Receive(c) \/ GiveUp(c) PROVE EndInv'
      BY <2>7, ReceivedRequests
    <2>8. ASSUME NEW tok \in late, ServeLate(tok) PROVE EndInv'
      <3>1. \A c \in Calls : Pending(c) => call[c].kind # "login"
        BY <2>8 DEF EndInv, LoginAlone
      <3>2. /\ UNCHANGED <<cookie, token, refreshes, inFlight, signedOut, call>>
            /\ \A c \in Calls : Pending(c)' => call'[c].kind # "login"
        BY <2>8, <3>1 DEF ServeLate, tabs, Pending
      <3>3. CASE version' = version
        <4>1. (LogoutServed' => LogoutServed) /\ LoginAlone' /\ LoginCurrent'
          BY <3>2 DEF LogoutServed, LoginAlone, LoginCurrent, Pending
        <4> QED BY <3>2, <3>3, <4>1, OnlyARequest
      <3>4. CASE version' = version + 1
        BY <3>2, <3>4, BumpEnds
      <3> QED BY <2>8, <3>3, <3>4 DEF ServeLate, Revoked
    <2>9. CASE Expire \/ UNCHANGED vars
      <3>1. UNCHANGED <<version, late, cookie, token, refreshes, inFlight, signedOut, call>>
        BY <2>9 DEF Expire, vars, server, tabs
      <3>2. (LogoutServed' => LogoutServed) /\ LoginAlone' /\ LoginCurrent'
        BY <3>1 DEF EndInv, LogoutServed, LoginAlone, LoginCurrent, Pending
      <3> QED BY <3>1, <3>2, OnlyARequest
    <2> QED BY <2>1, <2>2, <2>3, <2>4, <2>5, <2>6, <2>7, <2>8, <2>9 DEF Next, Script, Network
  <1> QED BY <1>1, <1>2, TypeCorrect, OneRefresh, PTL DEF Spec

(* While no login overlaps with another request of the browser: as long as *)
(* a tab's token is accepted, the cookie all tabs share can be refreshed.  *)
THEOREM TokensAreCovered ==
  ASSUME "login" \notin Overlap
  PROVE  Spec => []CookieCoversTokens
  <1>1. TypeOK /\ EndInv => CookieCoversTokens
    BY DEF EndInv, TokensCovered, CookieCoversTokens, Accepts, SessionLive, Ver
  <1> QED BY <1>1, TypeCorrect, EndInvHolds, PTL

(* Under the same condition a confirmed sign-out is final: no tab holds a  *)
(* token the server accepts, nor could it get one, until the next login.   *)
THEOREM SignedOutIsDead ==
  ASSUME "login" \notin Overlap
  PROVE  Spec => []RevivedIsDead
  <1>1. TypeOK /\ EndInv => RevivedIsDead
    BY DEF EndInv, OverIsDead, Over, Held, RevivedIsDead, Accepts, SessionLive, Ver
  <1> QED BY <1>1, TypeCorrect, EndInvHolds, PTL
-----------------------------------------------------------------------------
\* What the server will say to a fetch, or has said, is what it would say
\* to the shared cookie now.
FetchesFollow ==
  \A t \in Tabs : \A i \in DOMAIN refreshes[t] :
    FetchVersion(refreshes[t][i]) = version <=> cookie = version

(* A logout that is served leaves the cookie and every fetch behind.       *)
LEMMA BumpLeavesAll ==
  ASSUME TypeOK, EndInv, version' = version + 1, UNCHANGED <<cookie, refreshes>>
  PROVE  FetchesFollow'
  <1>1. version \in Nat /\ version + 1 \in Nat
    BY VersionTypes
  <1>2. ~Held(version + 1)
    BY <1>1 DEF EndInv, NoneHeldAhead
  <1> QED BY <1>2 DEF Held, FetchesFollow, FetchVersion

LEMMA NoFetchChanged ==
  ASSUME FetchesFollow, UNCHANGED <<version, cookie, refreshes>>
  PROVE  FetchesFollow'
  BY DEF FetchesFollow, FetchVersion

LEMMA RefreshFollows ==
  ASSUME TypeOK, FetchesFollow, NEW t \in Tabs, Refresh(t), UNCHANGED <<version, cookie>>
  PROVE  FetchesFollow'
  <1> SUFFICES ASSUME NEW s \in Tabs, NEW k \in DOMAIN refreshes'[s]
               PROVE  FetchVersion(refreshes'[s][k]) = version <=> cookie = version
    BY DEF FetchesFollow, FetchVersion
  <1>1. CASE k \in DOMAIN refreshes[s] /\ refreshes'[s][k] = refreshes[s][k]
    BY <1>1 DEF FetchesFollow, FetchVersion
  <1>2. CASE refreshes'[s][k] = [stage |-> "sent", cookie |-> cookie]
    BY <1>2 DEF FetchVersion
  <1> QED BY <1>1, <1>2, RefreshFetches

LEMMA AnswerFollows ==
  ASSUME TypeOK, FetchesFollow, NEW t \in Tabs, NEW i \in DOMAIN refreshes[t], ServeRefresh(t, i)
  PROVE  FetchesFollow'
  <1>1. /\ refreshes[t][i].stage = "sent" /\ UNCHANGED <<version, cookie>>
        /\ refreshes[t][i].cookie = version <=> cookie = version
    BY DEF ServeRefresh, FetchesFollow, FetchVersion
  <1>2. PICK reply : Answer(t, i, reply) /\ (Ver(reply) = version <=> cookie = version)
    <2>1. CASE refreshes[t][i].cookie = version
      <3>1. [ver |-> version, id |-> minted'] \in Access
        BY <2>1 DEF ServeRefresh, TypeOK, Access
      <3>2. Ver([ver |-> version, id |-> minted']) = version
        BY <3>1, SessionAssumption DEF Ver, Access
      <3> QED BY <1>1, <2>1, <3>2 DEF ServeRefresh
    <2>2. CASE refreshes[t][i].cookie # version
      BY <1>1, <2>2, VersionTypes DEF ServeRefresh, Ver
    <2> QED BY <2>1, <2>2
  <1> SUFFICES ASSUME NEW s \in Tabs, NEW k \in DOMAIN refreshes'[s]
               PROVE  FetchVersion(refreshes'[s][k]) = version <=> cookie = version
    BY <1>1 DEF FetchesFollow, FetchVersion
  <1>3. CASE k \in DOMAIN refreshes[s] /\ refreshes'[s][k] = refreshes[s][k]
    BY <1>3 DEF FetchesFollow, FetchVersion
  <1>4. CASE refreshes'[s][k] = [stage |-> "answered", reply |-> reply]
    BY <1>2, <1>4 DEF FetchVersion
  <1> QED BY <1>2, <1>3, <1>4, AnswerFetches

(* The cookie a refresh brings is as good as the one it was sent with.     *)
LEMMA ResolveFollows ==
  ASSUME TypeOK, SingleFlight, FetchesFollow, NEW t \in Tabs, NEW i \in DOMAIN refreshes[t],
         NEW reply \in Access \cup {None}, Resolve(t, i, reply),
         reply # None => refreshes[t][i] = [stage |-> "answered", reply |-> reply]
  PROVE  FetchesFollow'
  <1>1. version' = version /\ cookie' = IF reply = None THEN cookie ELSE reply.ver
    BY DEF Resolve, server
  <1>2. reply # None => FetchVersion(refreshes[t][i]) = reply.ver
    BY DEF FetchVersion, Ver
  <1>3. cookie' = version <=> cookie = version
    BY <1>1, <1>2 DEF FetchesFollow
  <1>4. \A s \in Tabs : \A k \in DOMAIN refreshes'[s] : refreshes'[s] = refreshes[s]
    BY ResolveFetches
  <1> QED BY <1>1, <1>3, <1>4 DEF FetchesFollow, FetchVersion

LEMMA ReceivedFollow ==
  ASSUME TypeOK, SingleFlight, EndInv, FetchesFollow, NEW c \in Calls, Receive(c) \/ GiveUp(c)
  PROVE  FetchesFollow'
  <1>1. Pending(c) /\ call[c].tab \in Tabs
    BY PendingIsRequest DEF Receive, GiveUp, Request
  <1>2. CASE LoggedIn(c)
    <2>1. \A t \in Tabs : refreshes[t] \in Seq(Fetch) /\ Len(refreshes[t]) = 0
      BY <1>1, <1>2 DEF EndInv, LoginAlone, LoggedIn, SingleFlight, TypeOK
    <2>2. \A t \in Tabs : DOMAIN refreshes'[t] = 1 .. 0
      BY <1>2, <2>1, LenProperties DEF LoggedIn
    <2> QED BY <2>2 DEF FetchesFollow
  <1>3. CASE Unauthorized(c)
    BY <1>1, <1>3, RefreshFollows DEF Unauthorized, server
  <1>4. ASSUME NEW ok \in BOOLEAN, LoggedOut(c, ok), ok => call[c].reply = "ok", UNCHANGED version
        PROVE  FetchesFollow'
    <2>1. CASE ok
      <3>1. ~Held(version)
        BY <1>1, <1>4, <2>1 DEF EndInv, OverIsDead, Over, LogoutServed, LoggedOut
      <3>2. cookie' = None /\ refreshes' = refreshes
        BY <1>4, <2>1 DEF LoggedOut
      <3> QED BY <1>4, <3>1, <3>2, VersionTypes DEF Held, FetchesFollow, FetchVersion
    <2>2. CASE ~ok
      BY <1>4, <2>2, NoFetchChanged DEF LoggedOut
    <2> QED BY <2>1, <2>2
  <1>5. CASE UNCHANGED <<version, cookie, tabs>>
    BY <1>5, NoFetchChanged DEF tabs
  <1>6. (call[c].reply = "ok") \in BOOLEAN
    OBVIOUS
  <1>7. CASE GiveUp(c)
    BY <1>4, <1>5, <1>7 DEF GiveUp
  <1> QED BY <1>2, <1>3, <1>4, <1>5, <1>6, <1>7 DEF Receive, server

LEMMA FetchesDoFollow ==
  ASSUME "login" \notin Overlap
  PROVE  Spec => []FetchesFollow
  <1>1. Init => FetchesFollow
    BY DEF Init, FetchesFollow
  <1>2. TypeOK /\ SingleFlight /\ EndInv /\ FetchesFollow /\ [Next]_vars => FetchesFollow'
    <2> SUFFICES ASSUME TypeOK, SingleFlight, EndInv, FetchesFollow, [Next]_vars
                 PROVE  FetchesFollow'
      OBVIOUS
    <2>1. ASSUME NEW t \in Tabs, Open(t) PROVE FetchesFollow'
      BY <2>1, RefreshFollows DEF Open, server
    <2>2. ASSUME NEW t \in Tabs, Close(t) PROVE FetchesFollow'
      <3>1. refreshes' = [refreshes EXCEPT ![t] = <<>>] /\ UNCHANGED <<version, cookie>>
        BY <2>2 DEF Close
      <3>2. \A s \in Tabs : \A k \in DOMAIN refreshes'[s] : refreshes'[s] = refreshes[s]
        BY <3>1 DEF TypeOK
      <3> QED BY <3>1, <3>2 DEF FetchesFollow, FetchVersion
    <2>3. ASSUME NEW t \in Tabs, NEW i \in DOMAIN refreshes[t], ServeRefresh(t, i)
          PROVE  FetchesFollow'
      BY <2>3, AnswerFollows
    <2>4. ASSUME NEW t \in Tabs, NEW i \in DOMAIN refreshes[t],
                 ReceiveRefresh(t, i) \/ RefreshFails(t, i)
          PROVE  FetchesFollow'
      <3>1. CASE ReceiveRefresh(t, i)
        <4>1. /\ refreshes[t][i] \in Fetch /\ refreshes[t][i].stage = "answered"
              /\ refreshes[t][i].reply \in Access \cup {None}
          BY <2>4, <3>1, FetchType DEF ReceiveRefresh
        <4>2. refreshes[t][i] = [stage |-> "answered", reply |-> refreshes[t][i].reply]
          BY <4>1 DEF Fetch
        <4> QED BY <3>1, <4>1, <4>2, ResolveFollows DEF ReceiveRefresh
      <3>2. CASE RefreshFails(t, i)
        BY <3>2, ResolveFollows DEF RefreshFails
      <3> QED BY <2>4, <3>1, <3>2
    <2>5. ASSUME NEW c \in Calls, NEW t \in Tabs, NEW kind \in {"api", "login", "logout"},
                 Send(c, t, kind)
          PROVE  FetchesFollow'
      BY <2>5, NoFetchChanged DEF Send, server, tabs
    <2>6. ASSUME NEW c \in Calls, ServeCall(c) \/ ServeLogin(c) \/ ServeLogout(c)
          PROVE  FetchesFollow'
      BY <2>6, NoFetchChanged, BumpLeavesAll
         DEF ServeCall, ServeLogin, ServeLogout, Revoked, server, tabs
    <2>7. ASSUME NEW c \in Calls, Receive(c) \/ GiveUp(c) PROVE FetchesFollow'
      BY <2>7, ReceivedFollow
    <2>8. ASSUME NEW tok \in late, ServeLate(tok) PROVE FetchesFollow'
      BY <2>8, NoFetchChanged, BumpLeavesAll DEF ServeLate, Revoked, tabs
    <2>9. CASE Expire \/ UNCHANGED vars
      BY <2>9, NoFetchChanged DEF Expire, vars, server, tabs
    <2> QED BY <2>1, <2>2, <2>3, <2>4, <2>5, <2>6, <2>7, <2>8, <2>9 DEF Next, Script, Network
  <1> QED BY <1>1, <1>2, TypeCorrect, OneRefresh, EndInvHolds, PTL DEF Spec

(* A refresh that brings no token to a live session was lost.              *)
LEMMA NoTokenIsLost ==
  ASSUME TypeOK, FetchesFollow, SessionLive, NEW t \in Tabs, NEW i \in DOMAIN refreshes[t],
         ReceiveRefresh(t, i) \/ RefreshFails(t, i), token'[t] = None
  PROVE  RefreshLost(t)
  <1>1. refreshes[t][i] # [stage |-> "answered", reply |-> None]
    <2>1. FetchVersion([stage |-> "answered", reply |-> None]) # version
      BY VersionTypes DEF FetchVersion, Ver
    <2> QED BY <2>1 DEF FetchesFollow, SessionLive
  <1>2. CASE RefreshFails(t, i)
    BY <1>1, <1>2 DEF RefreshLost
  <1>3. CASE ReceiveRefresh(t, i)
    <2>1. token'[t] = refreshes[t][i].reply
      BY <1>3 DEF ReceiveRefresh, Resolve, TypeOK
    <2>2. refreshes[t][i] = [stage |-> "answered", reply |-> None]
      BY <1>3, <2>1, FetchType DEF ReceiveRefresh, Fetch
    <2> QED BY <1>1, <2>2
  <1> QED BY <1>2, <1>3

(* While no login overlaps with another request of the browser: nobody is  *)
(* signed out of a live session by the order in which tabs and answers     *)
(* happen to run.                                                          *)
THEOREM SignedOutByChoice ==
  ASSUME "login" \notin Overlap
  PROVE  Spec => NotSignedOutByRaces
  <1> DEFINE Act == \A t \in Tabs :
               token[t] # None /\ token'[t] = None /\ SessionLive =>
                 \/ boot'[t] = "closed"
                 \/ \E c \in Calls : Settles(c, "logout", t)
                 \/ RefreshLost(t)
  <1>1. TypeOK /\ FetchesFollow /\ [Next]_vars => [Act]_vars
    <2> SUFFICES ASSUME TypeOK, FetchesFollow, Next,
                        NEW t \in Tabs, token[t] # None, token'[t] = None, SessionLive
                 PROVE  \/ boot'[t] = "closed"
                        \/ \E c \in Calls : Settles(c, "logout", t)
                        \/ RefreshLost(t)
      OBVIOUS
    <2>1. CASE \E s \in Tabs : Open(s) \/ Close(s)
      BY <2>1 DEF Open, Close, TypeOK
    <2>2. ASSUME NEW c \in Calls, LoggedOut(c, call[c].reply = "ok") \/ LoggedOut(c, FALSE),
                 Pending(c)
          PROVE  \E d \in Calls : Settles(d, "logout", t)
      <3>1. call[c].tab = t /\ call[c].kind = "logout" /\ call'[c] = NoCall
        BY <2>2 DEF LoggedOut, Settled, TypeOK
      <3> QED BY <2>2, <3>1 DEF Settles
    <2>3. ASSUME NEW c \in Calls, LoggedIn(c), Pending(c) PROVE FALSE
      BY <2>3 DEF LoggedIn, TypeOK
    <2>4. CASE \E c \in Calls : Receive(c) \/ GiveUp(c)
      BY <2>2, <2>3, <2>4 DEF Receive, GiveUp, Unauthorized, tabs
    <2>5. ASSUME NEW s \in Tabs, NEW i \in DOMAIN refreshes[s],
                 ReceiveRefresh(s, i) \/ RefreshFails(s, i)
          PROVE  RefreshLost(t)
      <3>1. s = t
        BY <2>5 DEF ReceiveRefresh, RefreshFails, Resolve, TypeOK
      <3> QED BY <2>5, <3>1, NoTokenIsLost
    <2>6. CASE token' = token
      BY <2>6
    <2> QED BY <2>1, <2>4, <2>5, <2>6
            DEF Next, Script, Network, Send, ServeCall, ServeLogin, ServeLogout, ServeLate,
                ServeRefresh, Expire, tabs
  <1> QED BY <1>1, TypeCorrect, FetchesDoFollow, PTL DEF Spec, NotSignedOutByRaces

(* Under the same condition a page that boots while the session is live    *)
(* ends signed in, unless its refresh got no answer.                       *)
THEOREM BootSignsIn ==
  ASSUME "login" \notin Overlap
  PROVE  Spec => BootFindsSession
  <1> DEFINE Act == \A t \in Tabs :
               boot[t] # "booted" /\ boot'[t] = "booted" /\ SessionLive =>
                 token'[t] # None \/ RefreshLost(t)
  <1>1. TypeOK /\ FetchesFollow /\ [Next]_vars => [Act]_vars
    <2> SUFFICES ASSUME TypeOK, FetchesFollow, Next,
                        NEW t \in Tabs, boot[t] # "booted", boot'[t] = "booted", SessionLive
                 PROVE  token'[t] # None \/ RefreshLost(t)
      OBVIOUS
    <2>1. CASE \E s \in Tabs : Open(s) \/ Close(s)
      BY <2>1 DEF Open, Close, Mounted, TypeOK
    <2>2. ASSUME NEW s \in Tabs, NEW i \in DOMAIN refreshes[s],
                 ReceiveRefresh(s, i) \/ RefreshFails(s, i)
          PROVE  token'[t] # None \/ RefreshLost(t)
      <3>1. s = t
        BY <2>2 DEF ReceiveRefresh, RefreshFails, Resolve, TypeOK
      <3> QED BY <2>2, <3>1, NoTokenIsLost
    <2>3. CASE boot' = boot
      BY <2>3
    <2> QED BY <2>1, <2>2, <2>3
            DEF Next, Script, Network, Send, ServeCall, ServeLogin, ServeLogout, ServeLate,
                ServeRefresh, Expire, Receive, GiveUp, LoggedIn, LoggedOut, Unauthorized, tabs
  <1> QED BY <1>1, TypeCorrect, FetchesDoFollow, PTL DEF Spec, BootFindsSession
-----------------------------------------------------------------------------
\* A retry carries a token that was minted by the refresh it waited for, and
\* has not expired: only a later logout can have outdated it.
FreshAnswers ==
  \A t \in Tabs : \A i \in DOMAIN refreshes[t] :
    refreshes[t][i].stage = "answered" /\ refreshes[t][i].reply # None =>
      refreshes[t][i].reply.id > expired /\ refreshes[t][i].reply.ver <= version

FreshRequest(r) ==
  /\ r.stage = "refreshing" \/ r.attempt = 1 => r.kind # "login"
  /\ r.attempt = 1 =>
       /\ r.token # None /\ r.token.id > expired /\ r.token.ver <= version
       /\ r.reply = "401" => r.token.ver < version

FreshRetries == \A c \in Calls : Pending(c) => FreshRequest(call[c])

RetryInv == FreshAnswers /\ FreshRetries

(* Versions only grow, and nothing expires under a retry.                  *)
LEMMA AnswersStayFresh ==
  ASSUME TypeOK, FreshAnswers, expired' = expired, version' \in Nat, version <= version',
         \A t \in Tabs : \A i \in DOMAIN refreshes'[t] :
           \/ refreshes'[t][i].stage = "sent"
           \/ i \in DOMAIN refreshes[t] /\ refreshes'[t][i] = refreshes[t][i]
           \/ refreshes'[t][i].reply = None
           \/ refreshes'[t][i].reply.id > expired /\ refreshes'[t][i].reply.ver <= version'
  PROVE  FreshAnswers'
  <1> SUFFICES ASSUME NEW t \in Tabs, NEW i \in DOMAIN refreshes'[t],
                      refreshes'[t][i].stage = "answered", refreshes'[t][i].reply # None
               PROVE  refreshes'[t][i].reply.id > expired /\ refreshes'[t][i].reply.ver <= version'
    BY DEF FreshAnswers
  <1>1. CASE i \in DOMAIN refreshes[t] /\ refreshes'[t][i] = refreshes[t][i]
    <2>1. refreshes[t][i].reply \in Access
      BY <1>1, FetchType
    <2>2. refreshes[t][i].reply.ver \in Nat /\ version \in Nat
      BY <2>1 DEF Access, TypeOK
    <2>3. refreshes[t][i].reply.id > expired /\ refreshes[t][i].reply.ver <= version
      BY <1>1 DEF FreshAnswers
    <2> QED BY <1>1, <2>2, <2>3
  <1> QED BY <1>1

LEMMA RequestStaysFresh ==
  ASSUME TypeOK, NEW r \in Request, FreshRequest(r),
         expired' = expired, version' \in Nat, version <= version'
  PROVE  FreshRequest(r)'
  <1>1. r.token \in Access \cup {None} /\ version \in Nat
    BY DEF Request, TypeOK
  <1>2. r.token # None => r.token.ver \in Nat
    BY <1>1 DEF Access
  <1> QED BY <1>1, <1>2 DEF FreshRequest

LEMMA RequestsStayFresh ==
  ASSUME TypeOK, FreshRetries, expired' = expired, version' \in Nat, version <= version',
         \A c \in Calls : Pending(c)' =>
           (Pending(c) /\ call'[c] = call[c]) \/ FreshRequest(call[c])'
  PROVE  FreshRetries'
  <1> SUFFICES ASSUME NEW c \in Calls, Pending(c)' PROVE FreshRequest(call[c])'
    BY DEF FreshRetries
  <1>1. CASE Pending(c) /\ call'[c] = call[c]
    <2>1. call[c] \in Request /\ FreshRequest(call[c])
      BY <1>1, PendingIsRequest DEF FreshRetries
    <2>2. PICK r \in Request : r = call[c]
      BY <2>1
    <2>3. FreshRequest(r)'
      BY <2>1, <2>2, RequestStaysFresh
    <2> QED BY <1>1, <2>2, <2>3 DEF FreshRequest
  <1> QED BY <1>1

\* One slot changes, and the server's clock does not go back.
LEMMA SlotStaysFresh ==
  ASSUME TypeOK, RetryInv, NEW c \in Calls, NEW new, call' = [call EXCEPT ![c] = new],
         new = NoCall \/ FreshRequest(call[c])',
         expired' = expired, version' \in Nat, version <= version', UNCHANGED refreshes
  PROVE  RetryInv'
  <1>1. \A d \in Calls : call'[d] = IF d = c THEN new ELSE call[d]
    BY DEF TypeOK
  <1>2. \A d \in Calls : Pending(d)' =>
          (Pending(d) /\ call'[d] = call[d]) \/ FreshRequest(call[d])'
    BY <1>1 DEF Pending, NoCall
  <1>3. FreshRetries'
    BY <1>2, RequestsStayFresh DEF RetryInv
  <1>4. FreshAnswers'
    BY AnswersStayFresh DEF RetryInv
  <1> QED BY <1>3, <1>4 DEF RetryInv

LEMMA VersionStays ==
  ASSUME TypeOK, UNCHANGED version
  PROVE  version' \in Nat /\ version <= version'
  BY DEF TypeOK

LEMMA ServedStayFresh ==
  ASSUME TypeOK, RetryInv, NEW c \in Calls, ServeCall(c) \/ ServeLogin(c) \/ ServeLogout(c)
  PROVE  RetryInv'
  <1>1. Pending(c) /\ call[c] \in Request /\ FreshRequest(call[c])
    BY PendingIsRequest DEF ServeCall, ServeLogin, ServeLogout, RetryInv, FreshRetries
  <1>2. /\ UNCHANGED <<refreshes, expired>> /\ version' \in Nat /\ version <= version'
    BY DEF ServeCall, ServeLogin, ServeLogout, Revoked, server, tabs, TypeOK
  <1>3. ASSUME NEW reply, NEW tok, Reply(c, reply, tok)
        PROVE  /\ \A d \in Calls : d # c => call'[d] = call[d]
               /\ call' = [call EXCEPT ![c] = call'[c]]
               /\ call'[c].stage = "replied" /\ call'[c].attempt = call[c].attempt
               /\ call'[c].kind = call[c].kind /\ call'[c].reply = reply /\ call'[c].token = tok
    BY <1>1, <1>3 DEF Reply, TypeOK, Request
  <1>4. CASE call[c].attempt = 0
    <2>1. PICK reply, tok : Reply(c, reply, tok)
      BY DEF ServeCall, ServeLogin, ServeLogout
    <2>2. FreshRequest(call[c])'
      BY <1>3, <1>4, <2>1 DEF FreshRequest
    <2> QED BY <1>2, <1>3, <2>1, <2>2, SlotStaysFresh
  <1>5. CASE call[c].attempt = 1
    <2>1. /\ call[c].kind # "login" /\ call[c].token # None
          /\ call[c].token.id > expired /\ call[c].token.ver <= version
      BY <1>1, <1>5 DEF FreshRequest
    <2>2. call[c].token.ver \in Nat /\ version \in Nat
      BY <1>1, <2>1 DEF Request, Access, TypeOK
    <2>3. PICK reply : /\ Reply(c, reply, call[c].token)
                       /\ reply = "401" => ~Accepts(call[c].token) /\ version' = version
      BY <2>1 DEF ServeCall, ServeLogin, ServeLogout, Revoked, server
    <2>4. reply = "401" => call[c].token.ver < version'
      BY <2>1, <2>2, <2>3 DEF Accepts
    <2>5. call[c].token.ver <= version'
      BY <1>2, <2>1, <2>2
    <2>6. FreshRequest(call[c])'
      BY <1>2, <1>3, <2>1, <2>3, <2>4, <2>5 DEF FreshRequest
    <2> QED BY <1>2, <1>3, <2>3, <2>6, SlotStaysFresh
  <1> QED BY <1>1, <1>4, <1>5 DEF Request

LEMMA ReceivedStayFresh ==
  ASSUME TypeOK, RetryInv, NEW c \in Calls, Receive(c) \/ GiveUp(c)
  PROVE  RetryInv'
  <1>1. Pending(c) /\ call[c] \in Request
    BY PendingIsRequest DEF Receive, GiveUp
  <1>2. UNCHANGED <<version, expired>>
    BY DEF Receive, GiveUp, LoggedIn, Unauthorized, server
  <1>3. CASE Settled(c) /\ UNCHANGED refreshes
    BY <1>2, <1>3, VersionStays, SlotStaysFresh DEF Settled
  <1>4. CASE Unauthorized(c)
    <2>1. call[c].tab \in Tabs /\ call[c].kind # "login" /\ call[c].attempt = 0
      BY <1>1, <1>4 DEF Request, Unauthorized, MayRefresh
    <2>2. \A d \in Calls : /\ d # c => call'[d] = call[d]
                           /\ call'[c].attempt = 0 /\ call'[c].kind # "login"
      BY <1>1, <1>4, <2>1 DEF Unauthorized, TypeOK, Request
    <2>3. FreshRequest(call[c])'
      BY <2>2 DEF FreshRequest
    <2>4. FreshRetries'
      <3>1. \A d \in Calls : Pending(d)' =>
              (Pending(d) /\ call'[d] = call[d]) \/ FreshRequest(call[d])'
        BY <2>2, <2>3 DEF Pending
      <3> QED BY <1>2, <3>1, VersionStays, RequestsStayFresh DEF RetryInv
    <2>5. \A s \in Tabs : \A i \in DOMAIN refreshes'[s] :
            \/ refreshes'[s][i].stage = "sent"
            \/ i \in DOMAIN refreshes[s] /\ refreshes'[s][i] = refreshes[s][i]
      BY <1>4, <2>1, RefreshFetches DEF Unauthorized
    <2>6. FreshAnswers'
      BY <1>2, <2>5, VersionStays, AnswersStayFresh DEF RetryInv
    <2> QED BY <2>4, <2>6 DEF RetryInv
  <1> QED BY <1>3, <1>4 DEF Receive, GiveUp, LoggedIn, LoggedOut, tabs

(* Whoever waited for a refresh retries with what it brought.              *)
LEMMA ResolveStaysFresh ==
  ASSUME TypeOK, SingleFlight, RetryInv, NEW t \in Tabs, NEW i \in DOMAIN refreshes[t],
         NEW reply \in Access \cup {None}, Resolve(t, i, reply),
         reply # None => refreshes[t][i] = [stage |-> "answered", reply |-> reply]
  PROVE  RetryInv'
  <1>1. UNCHANGED <<version, expired>>
    BY DEF Resolve, server
  <1>2. reply # None => reply.id > expired /\ reply.ver <= version
    BY DEF RetryInv, FreshAnswers
  <1>3. FreshAnswers'
    <2>1. \A s \in Tabs : \A k \in DOMAIN refreshes'[s] :
            k \in DOMAIN refreshes[s] /\ refreshes'[s][k] = refreshes[s][k]
      BY ResolveFetches
    <2> QED BY <1>1, <2>1, VersionStays, AnswersStayFresh DEF RetryInv
  <1>4. ASSUME NEW c \in Calls, Pending(c)'
        PROVE  (Pending(c) /\ call'[c] = call[c]) \/ FreshRequest(call[c])'
    <2>1. call'[c] = IF c \in Waiting(t) THEN Resumed(c, reply) ELSE call[c]
      BY <1>4 DEF Resolve, Resume
    <2>2. CASE c \notin Waiting(t)
      BY <1>4, <2>1, <2>2 DEF Pending
    <2>3. CASE c \in Waiting(t)
      <3>1. call[c] \in Request /\ call[c].kind # "login"
        BY <2>3, WaitingType DEF Waiting, RetryInv, FreshRetries, FreshRequest
      <3>2. reply # None
        BY <1>4, <2>1, <2>3 DEF Resumed, Pending, NoCall
      <3>3. /\ call'[c].attempt = 1 /\ call'[c].kind # "login" /\ call'[c].token = reply
            /\ call'[c].reply = "none"
        BY <2>1, <2>3, <3>1, <3>2 DEF Resumed, Request
      <3> QED BY <1>1, <1>2, <3>2, <3>3 DEF FreshRequest
    <2> QED BY <2>2, <2>3
  <1> QED BY <1>1, <1>3, <1>4, VersionStays, RequestsStayFresh DEF RetryInv

LEMMA RetryInvHolds == Spec => []RetryInv
  <1>1. Init => RetryInv
    BY DEF Init, RetryInv, FreshAnswers, FreshRetries, Pending, NoCall
  <1>2. TypeOK /\ SingleFlight /\ RetryInv /\ [Next]_vars => RetryInv'
    <2> SUFFICES ASSUME TypeOK, SingleFlight, RetryInv, [Next]_vars PROVE RetryInv'
      OBVIOUS
    <2>1. ASSUME UNCHANGED <<expired, call>>, version' \in Nat, version <= version',
                 FreshAnswers'
          PROVE  RetryInv'
      <3>1. \A c \in Calls : Pending(c)' => Pending(c) /\ call'[c] = call[c]
        BY <2>1 DEF Pending
      <3> QED BY <2>1, <3>1, RequestsStayFresh DEF RetryInv
    <2>2. ASSUME NEW t \in Tabs, Open(t) PROVE RetryInv'
      <3>1. \A s \in Tabs : \A i \in DOMAIN refreshes'[s] :
              \/ refreshes'[s][i].stage = "sent"
              \/ i \in DOMAIN refreshes[s] /\ refreshes'[s][i] = refreshes[s][i]
        BY <2>2, RefreshFetches DEF Open
      <3>2. UNCHANGED <<version, expired, call>>
        BY <2>2 DEF Open, server
      <3>3. FreshAnswers'
        BY <3>1, <3>2, VersionStays, AnswersStayFresh DEF RetryInv
      <3> QED BY <2>1, <3>2, <3>3, VersionStays
    <2>3. ASSUME NEW t \in Tabs, Close(t) PROVE RetryInv'
      <3>1. refreshes' = [refreshes EXCEPT ![t] = <<>>] /\ UNCHANGED <<version, expired>>
        BY <2>3 DEF Close
      <3>2. \A s \in Tabs : \A k \in DOMAIN refreshes'[s] :
              k \in DOMAIN refreshes[s] /\ refreshes'[s][k] = refreshes[s][k]
        BY <3>1 DEF TypeOK
      <3>3. FreshAnswers'
        BY <3>1, <3>2, VersionStays, AnswersStayFresh DEF RetryInv
      <3>4. \A c \in Calls : Pending(c)' => Pending(c) /\ call'[c] = call[c]
        BY <2>3 DEF Close, Pending, NoCall
      <3> QED BY <3>1, <3>3, <3>4, VersionStays, RequestsStayFresh DEF RetryInv
    <2>4. ASSUME NEW t \in Tabs, NEW i \in DOMAIN refreshes[t], ServeRefresh(t, i)
          PROVE  RetryInv'
      <3>1. UNCHANGED <<version, expired, call>>
        BY <2>4 DEF ServeRefresh
      <3>2. PICK reply : /\ Answer(t, i, reply)
                         /\ reply = None \/ (reply.id > expired /\ reply.ver <= version)
        <4>1. CASE refreshes[t][i].cookie = version
          <5>1. minted + 1 > expired /\ version <= version
            BY DEF TypeOK
          <5> QED BY <2>4, <4>1, <5>1 DEF ServeRefresh
        <4>2. CASE refreshes[t][i].cookie # version
          BY <2>4, <4>2 DEF ServeRefresh
        <4> QED BY <4>1, <4>2
      <3>3. ASSUME NEW s \in Tabs, NEW k \in DOMAIN refreshes'[s]
            PROVE  \/ k \in DOMAIN refreshes[s] /\ refreshes'[s][k] = refreshes[s][k]
                   \/ refreshes'[s][k].reply = reply
        <4>1. [stage |-> "answered", reply |-> reply].reply = reply
          OBVIOUS
        <4> QED BY <3>2, <3>3, <4>1, AnswerFetches
      <3>4. FreshAnswers'
        BY <3>1, <3>2, <3>3, VersionStays, AnswersStayFresh DEF RetryInv
      <3> QED BY <2>1, <3>1, <3>4, VersionStays
    <2>5. ASSUME NEW t \in Tabs, NEW i \in DOMAIN refreshes[t],
                 ReceiveRefresh(t, i) \/ RefreshFails(t, i)
          PROVE  RetryInv'
      <3>1. CASE ReceiveRefresh(t, i)
        <4>1. /\ refreshes[t][i] \in Fetch /\ refreshes[t][i].stage = "answered"
              /\ refreshes[t][i].reply \in Access \cup {None}
          BY <2>5, <3>1, FetchType DEF ReceiveRefresh
        <4>2. refreshes[t][i] = [stage |-> "answered", reply |-> refreshes[t][i].reply]
          BY <4>1 DEF Fetch
        <4> QED BY <3>1, <4>1, <4>2, ResolveStaysFresh DEF ReceiveRefresh
      <3>2. CASE RefreshFails(t, i)
        BY <3>2, ResolveStaysFresh DEF RefreshFails
      <3> QED BY <2>5, <3>1, <3>2
    <2>6. ASSUME NEW c \in Calls, NEW t \in Tabs, NEW kind \in {"api", "login", "logout"},
                 Send(c, t, kind)
          PROVE  RetryInv'
      <3>1. UNCHANGED <<version, expired, refreshes>> /\ call'[c].attempt = 0 /\ call'[c].stage = "sent"
        BY <2>6 DEF Send, server, tabs, TypeOK
      <3>2. FreshRequest(call[c])'
        BY <3>1 DEF FreshRequest
      <3> QED BY <2>6, <3>1, <3>2, VersionStays, SlotStaysFresh DEF Send
    <2>7. ASSUME NEW c \in Calls, ServeCall(c) \/ ServeLogin(c) \/ ServeLogout(c) PROVE RetryInv'
      BY <2>7, ServedStayFresh
    <2>8. ASSUME NEW c \in Calls, Receive(c) \/ GiveUp(c) PROVE RetryInv'
      BY <2>8, ReceivedStayFresh
    <2>9. ASSUME NEW tok \in late, ServeLate(tok) PROVE RetryInv'
      <3>1. /\ UNCHANGED <<expired, call, refreshes>>
            /\ version' \in Nat /\ version <= version'
        BY <2>9 DEF ServeLate, Revoked, tabs, TypeOK
      <3>2. FreshAnswers'
        BY <3>1, AnswersStayFresh DEF RetryInv
      <3> QED BY <2>1, <3>1, <3>2
    <2>10. CASE Expire
      BY <2>10 DEF Expire, RetryInv, FreshAnswers, FreshRetries, FreshRequest, Pending, tabs
    <2>11. CASE UNCHANGED vars
      <3>1. UNCHANGED <<version, expired, refreshes, call>>
        BY <2>11 DEF vars, server, tabs
      <3>2. FreshAnswers'
        BY <3>1, VersionStays, AnswersStayFresh DEF RetryInv
      <3> QED BY <2>1, <3>1, <3>2, VersionStays
    <2> QED BY <2>2, <2>3, <2>4, <2>5, <2>6, <2>7, <2>8, <2>9, <2>10, <2>11
            DEF Next, Script, Network
  <1> QED BY <1>1, <1>2, TypeCorrect, OneRefresh, PTL DEF Spec

(* The one retry of a call that met a 401 is refused only if a logout was  *)
(* served since its token was minted, however logins overlap.              *)
THEOREM OneRetryIsEnough == Spec => RetrySucceeds
  <1> DEFINE Act == \A c \in Calls :
               Pending(c) /\ call[c].attempt = 1 /\ call'[c] # NoCall /\ call'[c].reply = "401" =>
                 call[c].token.ver # version
  <1>1. TypeOK /\ RetryInv /\ [Next]_vars => [Act]_vars
    <2> SUFFICES ASSUME TypeOK, RetryInv, Next, NEW c \in Calls, Pending(c),
                        call[c].attempt = 1, call'[c] # NoCall, call'[c].reply = "401"
                 PROVE  call[c].token.ver # version
      OBVIOUS
    <2>1. /\ call[c] \in Request /\ call[c].kind # "login" /\ call[c].token # None
          /\ call[c].token.id > expired /\ version \in Nat
          /\ call[c].reply = "401" => call[c].token.ver < version
      BY PendingIsRequest DEF RetryInv, FreshRetries, FreshRequest, TypeOK
    <2>2. CASE call'[c] = call[c]
      <3>1. call[c].token.ver \in Nat
        BY <2>1 DEF Request, Access
      <3> QED BY <2>1, <2>2, <3>1
    <2>3. CASE ServeCall(c) \/ ServeLogout(c)
      <3>1. PICK reply : /\ Reply(c, reply, call[c].token)
                         /\ reply = "401" => ~Accepts(call[c].token)
        BY <2>3 DEF ServeCall, ServeLogout
      <3>2. call'[c].reply = reply
        BY <2>1, <3>1 DEF Reply, TypeOK, Request
      <3> QED BY <2>1, <3>1, <3>2 DEF Accepts
    <2>4. ASSUME NEW d \in Calls, d # c,
                 \/ ServeCall(d) \/ ServeLogin(d) \/ ServeLogout(d) \/ Receive(d) \/ GiveUp(d)
                 \/ \E t \in Tabs, kind \in {"api", "login", "logout"} : Send(d, t, kind)
          PROVE  call'[c] = call[c]
      BY <2>4 DEF ServeCall, ServeLogin, ServeLogout, Reply, Receive, GiveUp, LoggedIn,
                  LoggedOut, Settled, Unauthorized, Send, TypeOK
    <2>5. CASE Receive(c) \/ GiveUp(c)
      BY <2>1, <2>5 DEF Receive, GiveUp, LoggedIn, LoggedOut, Settled, Unauthorized, MayRefresh, TypeOK
    <2>6. ASSUME NEW t \in Tabs, NEW i \in DOMAIN refreshes[t],
                 ReceiveRefresh(t, i) \/ RefreshFails(t, i)
          PROVE  call'[c] = call[c] \/ call'[c] = NoCall \/ call'[c].reply = "none"
      <3>1. PICK reply : Resume(t, reply)
        BY <2>6 DEF ReceiveRefresh, RefreshFails, Resolve
      <3>2. call'[c] = IF c \in Waiting(t) THEN Resumed(c, reply) ELSE call[c]
        BY <3>1 DEF Resume
      <3> QED BY <2>1, <3>2 DEF Resumed, Request
    <2>7. ASSUME NEW t \in Tabs, Open(t) \/ Close(t)
          PROVE  call'[c] = call[c] \/ call'[c] = NoCall
      BY <2>7 DEF Open, Close
    <2>8. ~ServeLogin(c) /\ \A t \in Tabs, kind \in {"api", "login", "logout"} : ~Send(c, t, kind)
      BY <2>1 DEF ServeLogin, Send
    <2>9. CASE \/ \E tok \in late : ServeLate(tok)
               \/ \E t \in Tabs : \E i \in DOMAIN refreshes[t] : ServeRefresh(t, i)
               \/ Expire
      BY <2>2, <2>9 DEF ServeLate, ServeRefresh, Expire
    <2> QED BY <2>2, <2>3, <2>4, <2>5, <2>6, <2>7, <2>8, <2>9 DEF Next, Script, Network
  <1> QED BY <1>1, TypeCorrect, RetryInvHolds, PTL DEF Spec, RetrySucceeds
=============================================================================
