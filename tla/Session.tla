------------------------------- MODULE Session -------------------------------
(***************************************************************************)
(* The session as the browser keeps it: the access token in each tab's     *)
(* memory, the refresh cookie all tabs share, the refresh that every       *)
(* caller with a 401 waits for, and the boot of a page (lib/auth,          *)
(* lib/api/client.ts, lib/hooks/useAuth.ts, components/auth).              *)
(*                                                                         *)
(* The server is what Auth promises of one account: a token is accepted    *)
(* until it expires or token_version moves on. A request is answered,      *)
(* or its caller gives up (timeout, network); an answer that was sent may  *)
(* still be on its way while anything else happens. A tab's script is      *)
(* single-threaded: an answer and what it resumes are one step.            *)
(***************************************************************************)
EXTENDS Naturals, SequencesExt

CONSTANTS
  Tabs,
  Calls,       \* slots for the requests in flight
  Overlap,     \* {"login"}: a login may overlap with other requests
  StrictMode,  \* a development build, which mounts, cleans up and mounts again
  MaxMints,    \* bound on access tokens
  MaxVersion,  \* bound on logouts served
  None

ASSUME SessionAssumption ==
  /\ Overlap \subseteq {"login"}
  /\ StrictMode \in BOOLEAN
  /\ MaxMints \in Nat /\ MaxVersion \in Nat
  /\ None \notin Nat \cup [ver : Nat, id : Nat]

VARIABLES
  version,    \* the account's token_version
  minted,     \* access tokens minted so far: token n is the n-th
  expired,    \* tokens up to this one have expired
  late,       \* logouts the server may still get though the caller is gone
  cookie,     \* the version in the refresh cookie, or None
  token,      \* per tab: getAccessToken()
  refreshes,  \* per tab: the fetches of /auth/refresh that have not ended
  inFlight,   \* per tab: inFlightRefresh # null
  boot,       \* per tab: where AuthProvider's effect is
  call,       \* per slot: the request
  signedOut   \* a logout was confirmed, and no tab has logged in since

server == <<version, minted, expired, late>>
tabs == <<token, refreshes, inFlight, boot, signedOut>>
vars == <<server, cookie, tabs, call>>
-----------------------------------------------------------------------------
Access == [ver : Nat, id : Nat]

\* A fetch of /auth/refresh: the cookie it was sent with, then its answer.
Fetch == [stage : {"sent"}, cookie : Nat \cup {None}]
           \cup [stage : {"answered"}, reply : Access \cup {None}]

NoCall == [stage |-> "idle"]

\* `token` is the one the request carries, and for a login the one it gets.
Request == [stage : {"sent", "replied", "refreshing"}, tab : Tabs,
            kind : {"api", "login", "logout"}, attempt : {0, 1},
            token : Access \cup {None}, reply : {"none", "ok", "401"}]

Pending(c) == call[c].stage # "idle"

PendingOf(t, kind) == \E c \in Calls : Pending(c) /\ call[c].tab = t /\ call[c].kind = kind

Accepts(tok) == tok # None /\ tok.id > expired /\ tok.ver = version

\* The next refresh would succeed.
SessionLive == cookie = version

\* AuthProvider's AuthBootStatus.
Status(t) == IF boot[t] # "booted" THEN "pending"
             ELSE IF token[t] # None THEN "authenticated" ELSE "unauthenticated"

\* Unless logins may overlap, one starts when nothing is in flight, and
\* nothing else starts before it ends.
Alone(kind) ==
  \/ "login" \in Overlap
  \/ /\ \A t \in Tabs : ~PendingOf(t, "login")
     /\ kind = "login" =>
          late = {} /\ (\A t \in Tabs : ~inFlight[t]) /\ \A c \in Calls : ~Pending(c)
-----------------------------------------------------------------------------
Init ==
  /\ version = 0 /\ minted = 0 /\ expired = 0 /\ late = {}
  /\ cookie \in {0, None}
  /\ token = [t \in Tabs |-> None]
  /\ refreshes = [t \in Tabs |-> <<>>]
  /\ inFlight = [t \in Tabs |-> FALSE]
  /\ boot = [t \in Tabs |-> "closed"]
  /\ signedOut = FALSE
  /\ call = [c \in Calls |-> NoCall]

Refresh_EachCaller(t) ==
  /\ inFlight' = [inFlight EXCEPT ![t] = TRUE]
  /\ refreshes' = [refreshes EXCEPT ![t] =
       Append(@, [stage |-> "sent", cookie |-> cookie])]

(* refreshAccessToken(): the promise in flight, or a new one.              *)
Refresh(t) ==
  /\ inFlight' = [inFlight EXCEPT ![t] = TRUE]
  /\ refreshes' = IF inFlight[t] THEN refreshes
                  ELSE [refreshes EXCEPT ![t] =
                    Append(@, [stage |-> "sent", cookie |-> cookie])]

(* Where the effect is after React mounted the provider. In StrictMode the *)
(* cleanup has cancelled the first run, and bootedRef stops the second.    *)
Mounted == IF StrictMode THEN "cancelled" ELSE "waiting"

Open_NotAwaited(t) ==
  /\ boot[t] = "closed"
  /\ Alone("boot")
  /\ boot' = [boot EXCEPT ![t] = "booted"]
  /\ Refresh(t)
  /\ UNCHANGED <<server, cookie, token, signedOut, call>>

(* A page load: bootstrapSession().                                        *)
Open(t) ==
  /\ boot[t] = "closed"
  /\ Alone("boot")
  /\ boot' = [boot EXCEPT ![t] = Mounted]
  /\ Refresh(t)
  /\ UNCHANGED <<server, cookie, token, signedOut, call>>

(* The tab is closed or reloaded. What it sent may still reach the server. *)
Close(t) ==
  /\ boot[t] # "closed"
  /\ boot' = [boot EXCEPT ![t] = "closed"]
  /\ token' = [token EXCEPT ![t] = None]
  /\ refreshes' = [refreshes EXCEPT ![t] = <<>>]
  /\ inFlight' = [inFlight EXCEPT ![t] = FALSE]
  /\ late' = late \cup {call[c].token : c \in {d \in Calls :
       Pending(d) /\ call[d].tab = t /\ call[d].kind = "logout" /\ call[d].stage = "sent"}}
  /\ call' = [c \in Calls |-> IF Pending(c) /\ call[c].tab = t THEN NoCall ELSE call[c]]
  /\ UNCHANGED <<version, minted, expired, cookie, signedOut>>

(* apiRequest (and streamQuery's opening fetch). Guarded views, the user   *)
(* menu among them, are rendered for an authenticated tab only.            *)
Send(c, t, kind) ==
  /\ ~Pending(c)
  /\ Alone(kind)
  /\ IF kind = "login" THEN boot[t] # "closed" ELSE Status(t) = "authenticated"
  /\ kind # "api" => ~PendingOf(t, kind)
  /\ call' = [call EXCEPT ![c] =
       [stage |-> "sent", tab |-> t, kind |-> kind, attempt |-> 0,
        token |-> IF kind = "login" THEN None ELSE token[t], reply |-> "none"]]
  /\ UNCHANGED <<server, cookie, tabs>>
-----------------------------------------------------------------------------
Reply(c, reply, tok) ==
  call' = [call EXCEPT ![c].stage = "replied", ![c].reply = reply, ![c].token = tok]

ServeCall(c) ==
  /\ Pending(c) /\ call[c].stage = "sent" /\ call[c].kind = "api"
  /\ Reply(c, IF Accepts(call[c].token) THEN "ok" ELSE "401", call[c].token)
  /\ UNCHANGED <<server, cookie, tabs>>

(* A wrong password, or a new pair of tokens.                              *)
ServeLogin(c) ==
  /\ Pending(c) /\ call[c].stage = "sent" /\ call[c].kind = "login"
  /\ \/ Reply(c, "401", None) /\ UNCHANGED minted
     \/ /\ minted < MaxMints
        /\ minted' = minted + 1
        /\ Reply(c, "ok", [ver |-> version, id |-> minted'])
  /\ UNCHANGED <<version, expired, late, cookie, tabs>>

Revoked_Not(tok) == version

\* token_version after a logout with this token.
Revoked(tok) == IF Accepts(tok) THEN version + 1 ELSE version

ServeLogout(c) ==
  /\ Pending(c) /\ call[c].stage = "sent" /\ call[c].kind = "logout"
  /\ Revoked(call[c].token) <= MaxVersion
  /\ version' = Revoked(call[c].token)
  /\ Reply(c, IF Accepts(call[c].token) THEN "ok" ELSE "401", call[c].token)
  /\ UNCHANGED <<minted, expired, late, cookie, tabs>>

ServeLate(tok) ==
  /\ tok \in late
  /\ Revoked(tok) <= MaxVersion
  /\ version' = Revoked(tok)
  /\ late' = late \ {tok}
  /\ UNCHANGED <<minted, expired, cookie, tabs, call>>

Answer(t, i, reply) ==
  refreshes' = [refreshes EXCEPT ![t][i] = [stage |-> "answered", reply |-> reply]]

ServeRefresh_Rotating(t, i) ==
  /\ i \in DOMAIN refreshes[t] /\ refreshes[t][i].stage = "sent"
  /\ \/ /\ refreshes[t][i].cookie = version
        /\ minted < MaxMints /\ version < MaxVersion
        /\ minted' = minted + 1 /\ version' = version + 1
        /\ Answer(t, i, [ver |-> version', id |-> minted'])
     \/ /\ refreshes[t][i].cookie # version
        /\ Answer(t, i, None)
        /\ UNCHANGED <<minted, version>>
  /\ UNCHANGED <<expired, late, cookie, token, inFlight, boot, signedOut, call>>

(* POST /auth/refresh judges the cookie the request was sent with.         *)
ServeRefresh(t, i) ==
  /\ i \in DOMAIN refreshes[t] /\ refreshes[t][i].stage = "sent"
  /\ \/ /\ refreshes[t][i].cookie = version
        /\ minted < MaxMints
        /\ minted' = minted + 1
        /\ Answer(t, i, [ver |-> version, id |-> minted'])
     \/ /\ refreshes[t][i].cookie # version
        /\ Answer(t, i, None)
        /\ UNCHANGED minted
  /\ UNCHANGED <<version, expired, late, cookie, token, inFlight, boot, signedOut, call>>

(* Access tokens expire in the order they were minted, and live far longer *)
(* than an answer and the retry it leads to take.                          *)
Expire ==
  /\ expired < minted
  /\ \A t \in Tabs : \A i \in DOMAIN refreshes[t] : refreshes[t][i].stage = "sent"
  /\ \A c \in Calls : Pending(c) => call[c].attempt = 0 /\ (call[c].kind = "login" => call[c].reply # "ok")
  /\ expired' = minted
  /\ UNCHANGED <<version, minted, late, cookie, tabs, call>>
-----------------------------------------------------------------------------
Settled(c) == call' = [call EXCEPT ![c] = NoCall]

Waiting(t) == {c \in Calls : Pending(c) /\ call[c].tab = t /\ call[c].stage = "refreshing"}

LoggedIn_SameOrigin(c) ==
  /\ call[c].kind = "login" /\ call[c].reply = "ok"
  /\ token' = [token EXCEPT ![call[c].tab] = call[c].token]
  /\ signedOut' = FALSE
  /\ Settled(c)
  /\ UNCHANGED <<server, cookie, refreshes, inFlight, boot>>

(* useLogin's onSuccess; the browser has stored the cookie.                *)
LoggedIn(c) ==
  /\ call[c].kind = "login" /\ call[c].reply = "ok"
  /\ token' = [token EXCEPT ![call[c].tab] = call[c].token]
  /\ cookie' = call[c].token.ver
  /\ signedOut' = FALSE
  /\ Settled(c)
  /\ UNCHANGED <<server, refreshes, inFlight, boot>>

(* useLogout's onSettled: the token goes, whether or not the server agreed. *)
LoggedOut(c, ok) ==
  /\ call[c].kind = "logout"
  /\ token' = [token EXCEPT ![call[c].tab] = None]
  /\ cookie' = IF ok THEN None ELSE cookie
  /\ signedOut' = (ok \/ signedOut)
  /\ Settled(c)
  /\ UNCHANGED <<refreshes, inFlight, boot>>

MayRefresh(c) == call[c].reply = "401" /\ call[c].attempt = 0 /\ call[c].kind # "login"

(* A 401 of a first attempt on a path that is not exempt.                  *)
Unauthorized(c) ==
  /\ MayRefresh(c)
  /\ Refresh(call[c].tab)
  /\ call' = [call EXCEPT ![c].stage = "refreshing"]
  /\ UNCHANGED <<server, cookie, token, boot, signedOut>>

(* The answer of a request reaches its tab.                                *)
Receive(c) ==
  /\ Pending(c) /\ call[c].stage = "replied"
  /\ \/ LoggedIn(c)
     \/ Unauthorized(c)
     \/ ~MayRefresh(c) /\ LoggedOut(c, call[c].reply = "ok") /\ UNCHANGED server
     \/ /\ ~MayRefresh(c)
        /\ \/ call[c].kind = "api"
           \/ call[c].kind = "login" /\ call[c].reply = "401"
        /\ Settled(c)
        /\ UNCHANGED <<server, cookie, tabs>>

(* The timeout of apiRequest, or a network error. The server may still get *)
(* a logout its caller has given up.                                       *)
GiveUp(c) ==
  /\ Pending(c) /\ call[c].stage \in {"sent", "replied"}
  /\ late' = IF call[c].kind = "logout" /\ call[c].stage = "sent"
             THEN late \cup {call[c].token} ELSE late
  /\ IF call[c].kind = "logout" THEN LoggedOut(c, FALSE)
     ELSE Settled(c) /\ UNCHANGED <<cookie, tabs>>
  /\ UNCHANGED <<version, minted, expired>>

\* A waiting caller when its promise resolves: the retry takes the token
\* from the store, and is the last.
Resumed_OldToken(c, reply) ==
  IF reply = None THEN NoCall
  ELSE [call[c] EXCEPT !.stage = "sent", !.attempt = 1, !.reply = "none"]

Resumed(c, reply) ==
  IF reply = None THEN NoCall
  ELSE [call[c] EXCEPT !.stage = "sent", !.attempt = 1, !.token = reply, !.reply = "none"]

Resume_One(t, reply) ==
  call' = [c \in Calls |->
    IF c \in Waiting(t) /\ c = CHOOSE d \in Waiting(t) : TRUE THEN Resumed(c, reply) ELSE call[c]]

Resume(t, reply) ==
  call' = [c \in Calls |-> IF c \in Waiting(t) THEN Resumed(c, reply) ELSE call[c]]

(* performRefresh's outcome, the finally that clears inFlightRefresh, and  *)
(* what awaited it: callers with a 401 and the boot effect. A logout among *)
(* the callers that gets no token has settled too, and clears what is      *)
(* cleared already.                                                        *)
Resolve(t, i, reply) ==
  /\ token' = [token EXCEPT ![t] = reply]
  /\ cookie' = IF reply = None THEN cookie ELSE reply.ver
  /\ refreshes' = [refreshes EXCEPT ![t] = RemoveAt(@, i)]
  /\ inFlight' = [inFlight EXCEPT ![t] = FALSE]
  /\ boot' = [boot EXCEPT ![t] = IF @ = "waiting" THEN "booted" ELSE @]
  /\ Resume(t, reply)
  /\ UNCHANGED <<server, signedOut>>

ReceiveRefresh(t, i) ==
  /\ i \in DOMAIN refreshes[t] /\ refreshes[t][i].stage = "answered"
  /\ Resolve(t, i, refreshes[t][i].reply)

(* The catch branch: network failure, at any time.                         *)
RefreshFails(t, i) == i \in DOMAIN refreshes[t] /\ Resolve(t, i, None)

Script ==
  \/ \E t \in Tabs : Open(t) \/ Close(t)
  \/ \E c \in Calls, t \in Tabs, kind \in {"api", "login", "logout"} : Send(c, t, kind)

Network ==
  \/ \E c \in Calls : ServeCall(c) \/ ServeLogin(c) \/ ServeLogout(c) \/ Receive(c) \/ GiveUp(c)
  \/ \E tok \in late : ServeLate(tok)
  \/ \E t \in Tabs : \E i \in DOMAIN refreshes[t] :
       ServeRefresh(t, i) \/ ReceiveRefresh(t, i) \/ RefreshFails(t, i)

Next == Script \/ Network \/ Expire

Spec == Init /\ [][Next]_vars
-----------------------------------------------------------------------------
\* The types of the variables; a login that succeeded brings a token.
TypeOK ==
  /\ version \in Nat /\ minted \in Nat /\ expired \in 0 .. minted
  /\ late \subseteq Access \cup {None}
  /\ cookie \in Nat \cup {None}
  /\ token \in [Tabs -> Access \cup {None}]
  /\ refreshes \in [Tabs -> Seq(Fetch)]
  /\ inFlight \in [Tabs -> BOOLEAN]
  /\ boot \in [Tabs -> {"closed", "waiting", "cancelled", "booted"}]
  /\ signedOut \in BOOLEAN
  /\ call \in [Calls -> Request \cup {NoCall}]
  /\ \A c \in Calls :
       Pending(c) /\ call[c].kind = "login" /\ call[c].reply = "ok" => call[c].token # None

\* However many calls of a tab meet a 401 together, one refresh is on the
\* wire, and inFlightRefresh says whether there is one (refreshAccessToken).
SingleFlight == \A t \in Tabs : Len(refreshes[t]) = IF inFlight[t] THEN 1 ELSE 0

Settles(c, kind, t) ==
  Pending(c) /\ call[c].kind = kind /\ call[c].tab = t /\ call'[c] = NoCall

\* A refresh of t ends without the server's verdict.
RefreshLost(t) ==
  \E i \in DOMAIN refreshes[t] :
    refreshes[t][i] # [stage |-> "answered", reply |-> None] /\ RefreshFails(t, i)

\* A tab that holds a token loses it while the session could be refreshed
\* only by signing out, by being closed, or because a refresh got no answer:
\* the user is not "logged out nondeterministically, depending on network
\* timing, even though their session was perfectly valid" (refresh.ts).
NotSignedOutByRaces ==
  [][\A t \in Tabs :
       token[t] # None /\ token'[t] = None /\ SessionLive =>
         \/ boot'[t] = "closed"
         \/ \E c \in Calls : Settles(c, "logout", t)
         \/ RefreshLost(t)]_vars

\* While some tab's token is good the shared cookie is too, so the refresh
\* that follows its expiry succeeds, whichever tab makes it.
CookieCoversTokens == \A t \in Tabs : Accepts(token[t]) => SessionLive

\* After a confirmed sign-out a late refresh may put a token back into a tab,
\* but none the server accepts, and none that could be exchanged for one,
\* until somebody logs in (useLogout, refreshAccessToken).
RevivedIsDead == signedOut => ~SessionLive /\ \A t \in Tabs : ~Accepts(token[t])

\* The one retry is enough: it is refused only if the session was revoked
\* after its token was minted (apiRequest, streamQuery).
RetrySucceeds ==
  [][\A c \in Calls :
       Pending(c) /\ call[c].attempt = 1 /\ call'[c] # NoCall /\ call'[c].reply = "401" =>
         call[c].token.ver # version]_vars

\* A reload of a page with a live session ends signed in, unless the refresh
\* got no answer: the route guard does not bounce it to /login (AuthProvider).
BootFindsSession ==
  [][\A t \in Tabs :
       boot[t] # "booted" /\ boot'[t] = "booted" /\ SessionLive =>
         token'[t] # None \/ RefreshLost(t)]_vars

\* Whoever waits, a call that met a 401 or a page still "checking your
\* session", waits for a refresh that is in flight: when fetches end, no call
\* hangs and no page stays pending (refreshAccessToken, AuthProvider).
WaitersHaveARefresh ==
  \A t \in Tabs :
    Waiting(t) # {} \/ (boot[t] # "closed" /\ Status(t) = "pending") => inFlight[t]
=============================================================================
