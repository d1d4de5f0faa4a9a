----------------------------- MODULE AuthProofs -----------------------------
(***************************************************************************)
(* Theorems about Auth, for any number of threads, users and passwords.    *)
(***************************************************************************)
EXTENDS Auth, TLAPS

\* One step of the specification, as the proofs split it.
ThreadStep(t) ==
  \/ \E u \in Usernames, p \in Passwords : Register(t, u, p) \/ Login(t, u, p)
  \/ \E token \in tokens : Refresh(t, token) \/ Call(t, token) \/ Logout(t, token)
  \/ Create(t) \/ Mint(t) \/ Serve(t) \/ LoadVersion(t) \/ BumpVersion(t) \/ Fails(t)

-----------------------------------------------------------------------------
(* A token that is minted for an existing user is a token.                 *)
LEMMA MintedType ==
  ASSUME TypeOK, NEW t \in Threads, pc[t] = "mint", NEW typ \in {"access", "refresh"}
  PROVE  Minted(t, typ) \in Token
  <1>1. job[t] \in Job
    BY DEF TypeOK
  <1>2. clock \in Nat
    BY DEF TypeOK
  <1>3. /\ job[t].name \in Usernames
        /\ job[t].row.version \in Nat
        /\ job[t].since \in Nat
    BY <1>1 DEF Job, UserRow
  <1> QED BY <1>2, <1>3 DEF Token, Minted

(* What a request holds once the user has been read.                       *)
LEMMA HoldingType ==
  ASSUME TypeOK, NEW u \in Usernames, NEW row \in UserRow, NEW token \in Token \cup {NoToken}
  PROVE  Holding(u, row, token) \in Job
  BY DEF Holding, Job, TypeOK

(* A token that is accepted belongs to a user there is.                    *)
LEMMA AcceptedType ==
  ASSUME TypeOK, NEW token, NEW typ, Accepts(token, typ)
  PROVE  /\ token \in Token /\ token.sub \in Usernames /\ Exists(token.sub)
         /\ users[token.sub] \in UserRow
  BY DEF TypeOK, Accepts, Token, Exists

(* A thread moves to a label with the job it then holds.                   *)
LEMMA MoveKeepsTypes ==
  ASSUME TypeOK, NEW t \in Threads, NEW label, NEW j,
         Goto(t, label, j),
         users' \in [Usernames -> UserRow \cup {NoUser}],
         \A u \in Usernames : Exists(u) => Exists(u)',
         tokens' \in SUBSET Token, clock' \in Nat, loggedOut' \in [Usernames -> Nat],
         \/ label = "idle" /\ j = NoJob
         \/ label \in {"create", "mint", "serve", "load", "bump"} /\ j \in Job
            /\ (label # "create" => Exists(j.name))
  PROVE  TypeOK'
  <1>1. /\ pc' \in [Threads -> {"idle", "create", "mint", "serve", "load", "bump"}]
        /\ job' \in [Threads -> Job \cup {NoJob}]
    BY DEF TypeOK, Goto
  <1>2. ASSUME NEW s \in Threads, pc'[s] # "idle"
        PROVE  job'[s] \in Job
    BY <1>2 DEF TypeOK, Goto
  <1>3. ASSUME NEW s \in Threads, pc'[s] \in {"mint", "serve", "load", "bump"}
        PROVE  Exists(job[s].name)' /\ job'[s].name \in Usernames
    <2>1. job'[s] \in Job
      BY <1>2, <1>3
    <2>2. job'[s].name \in Usernames
      BY <2>1 DEF Job
    <2>3. CASE s = t
      <3>1. job'[s] = j /\ pc'[s] = label
        BY <2>3 DEF Goto, TypeOK
      <3> QED BY <1>3, <2>2, <3>1 DEF Exists
    <2>4. CASE s # t
      <3>1. job'[s] = job[s] /\ pc'[s] = pc[s]
        BY <2>4 DEF Goto, TypeOK
      <3>2. Exists(job[s].name)
        BY <1>3, <3>1 DEF TypeOK
      <3> QED BY <2>2, <3>1, <3>2 DEF Exists
    <2> QED BY <2>3, <2>4
  <1> QED BY <1>1, <1>2, <1>3 DEF TypeOK

LEMMA TypeStep ==
  ASSUME TypeOK, [Next]_vars
  PROVE  TypeOK'
  <1>1. CASE UNCHANGED vars
    BY <1>1 DEF TypeOK, vars, Exists
  <1>2. ASSUME NEW t \in Threads, ThreadStep(t)
        PROVE  TypeOK'
    <2>1. ASSUME NEW u \in Usernames, NEW p \in Passwords, Register(t, u, p)
          PROVE  TypeOK'
      <3>1. [password |-> p, version |-> 0] \in UserRow
        BY DEF UserRow
      <3>2. Holding(u, [password |-> p, version |-> 0], NoToken) \in Job
        BY <3>1, HoldingType
      <3> QED BY <2>1, <3>2, MoveKeepsTypes DEF Register, TypeOK, Exists
    <2>2. ASSUME NEW u \in Usernames, NEW p \in Passwords, Login(t, u, p)
          PROVE  TypeOK'
      <3>1. users[u] \in UserRow
        BY <2>2 DEF Login, TypeOK, Exists
      <3>2. Holding(u, users[u], NoToken) \in Job /\ Holding(u, users[u], NoToken).name = u
        BY <3>1, HoldingType DEF Holding
      <3> QED BY <2>2, <3>2, MoveKeepsTypes DEF Login, TypeOK, Exists
    <2>3. ASSUME NEW token \in tokens, NEW typ, Accepts(token, typ),
                 NEW label \in {"mint", "serve", "load"},
                 Goto(t, label, Holding(token.sub, users[token.sub], token)),
                 UNCHANGED <<users, tokens, clock, loggedOut>>
          PROVE  TypeOK'
      <3>1. /\ token \in Token /\ token.sub \in Usernames /\ Exists(token.sub)
            /\ users[token.sub] \in UserRow
        BY <2>3, AcceptedType
      <3> DEFINE j == Holding(token.sub, users[token.sub], token)
      <3>2. j \in Job /\ j.name = token.sub
        BY <3>1, HoldingType DEF Holding
      <3> HIDE DEF j
      <3>3. Goto(t, label, j)
        BY <2>3 DEF j
      <3> QED BY <2>3, <3>1, <3>2, <3>3, MoveKeepsTypes DEF TypeOK, Exists
    <2>4. CASE Create(t)
      <3>1. job[t] \in Job
        BY <2>4 DEF Create, TypeOK
      <3>2. /\ users' \in [Usernames -> UserRow \cup {NoUser}]
            /\ \A u \in Usernames : Exists(u) => Exists(u)'
        BY <2>4, <3>1 DEF Create, TypeOK, Job, Exists
      <3> QED BY <2>4, <3>2, MoveKeepsTypes DEF Create, TypeOK
    <2>5. CASE Mint(t)
      <3>1. tokens' \in SUBSET Token
        BY <2>5, MintedType DEF Mint, TypeOK
      <3> QED BY <2>5, <3>1, MoveKeepsTypes DEF Mint, TypeOK, Exists
    <2>6. CASE Serve(t) \/ Fails(t)
      BY <2>6, MoveKeepsTypes DEF Serve, Fails, TypeOK, Exists
    <2>7. CASE LoadVersion(t)
      <3>1. job[t] \in Job /\ job[t].name \in Usernames /\ users[job[t].name] \in UserRow
        BY <2>7 DEF LoadVersion, TypeOK, Job, Exists
      <3> DEFINE j == [job[t] EXCEPT !.row = users[job[t].name]]
      <3>2. j \in Job /\ j.name = job[t].name /\ Exists(j.name)
        BY <2>7, <3>1 DEF LoadVersion, TypeOK, Job
      <3> HIDE DEF j
      <3>3. Goto(t, "bump", j)
        BY <2>7 DEF LoadVersion, j
      <3> QED BY <2>7, <3>2, <3>3, MoveKeepsTypes DEF LoadVersion, TypeOK, Exists
    <2>8. CASE BumpVersion(t)
      <3>1. /\ job[t].name \in Usernames /\ users[job[t].name] \in UserRow
            /\ job[t].row.version + 1 \in Nat
        BY <2>8 DEF BumpVersion, TypeOK, Job, UserRow, Exists
      <3>2. /\ users' \in [Usernames -> UserRow \cup {NoUser}]
            /\ \A u \in Usernames : Exists(u) => Exists(u)'
            /\ loggedOut' \in [Usernames -> Nat]
        <4>1. [users[job[t].name] EXCEPT !.version = job[t].row.version + 1] \in UserRow
          BY <3>1 DEF UserRow
        <4>2. users' = [users EXCEPT ![job[t].name] =
                          [users[job[t].name] EXCEPT !.version = job[t].row.version + 1]]
          BY <2>8 DEF BumpVersion
        <4> QED BY <2>8, <3>1, <4>1, <4>2, AuthAssumption
               DEF BumpVersion, TypeOK, Exists, UserRow
      <3> QED BY <2>8, <3>2, MoveKeepsTypes DEF BumpVersion, TypeOK
    <2> QED
      BY <1>2, <2>1, <2>2, <2>3, <2>4, <2>5, <2>6, <2>7, <2>8
      DEF ThreadStep, Refresh, Call, Logout
  <1>3. ASSUME NEW token \in tokens, Expire(token)
        PROVE  TypeOK'
    BY <1>3 DEF Expire, TypeOK, Exists
  <1> QED BY <1>1, <1>2, <1>3 DEF Next, ThreadStep

\* For any clients and any order of requests, every variable keeps its type and
\* a request past its check holds an existing user (AuthService).
THEOREM TypeCorrect == Spec => []TypeOK
  <1>1. Init => TypeOK
    BY DEF Init, TypeOK
  <1>2. TypeOK /\ [Next]_vars => TypeOK'
    BY TypeStep
  <1> QED BY <1>1, <1>2, PTL DEF Spec

(* The rows of the users table after a step.                               *)
LEMMA RowsAfter ==
  ASSUME TypeOK, [Next]_vars, NEW u \in Usernames, Exists(u)
  PROVE  /\ Exists(u)'
         /\ users'[u].password = users[u].password
  <1>1. CASE UNCHANGED users
    BY <1>1 DEF Exists
  <1>2. ASSUME NEW t \in Threads, Create(t)
        PROVE  users'[u] = users[u]
    BY <1>2 DEF Create, Exists, TypeOK, Job
  <1>3. ASSUME NEW t \in Threads, BumpVersion(t)
        PROVE  users'[u] \in UserRow /\ users'[u].password = users[u].password
    <2>1. users[u] \in UserRow /\ job[t].row.version + 1 \in Nat
      BY <1>3 DEF TypeOK, Exists, BumpVersion, Job, UserRow
    <2>2. users'[u] = users[u]
          \/ users'[u] = [users[u] EXCEPT !.version = job[t].row.version + 1]
      BY <1>3 DEF BumpVersion, TypeOK
    <2> QED BY <2>1, <2>2 DEF UserRow
  <1>4. UNCHANGED users \/ \E t \in Threads : Create(t) \/ BumpVersion(t)
    BY DEF Next, vars, Register, Login, Refresh, Call, Logout, Mint, Serve, LoadVersion, Fails, Expire
  <1> QED BY <1>1, <1>2, <1>3, <1>4, AuthAssumption DEF Exists, UserRow

\* However many registrations race, an account keeps its existence and its
\* password (SqlUserRepository.create).
THEOREM AccountsAreKept == Spec => AccountsKept
  <1>1. TypeOK /\ [Next]_vars =>
          [\A u \in Usernames : Exists(u) =>
             Exists(u)' /\ users'[u].password = users[u].password]_vars
    BY RowsAfter
  <1> QED BY <1>1, TypeCorrect, PTL DEF Spec, AccountsKept
-----------------------------------------------------------------------------
(* Only a logout ends a session. A request may mint from a row read before *)
(* a logout, so the invariant follows the row from the read to the token.  *)

ReadsInThePast ==
  /\ \A token \in tokens : token.since <= clock
  /\ \A t \in Threads : pc[t] = "mint" => job[t].since <= clock

MintsCurrent ==
  \A t \in Threads : pc[t] = "mint" /\ job[t].since > loggedOut[job[t].name] =>
    users[job[t].name].version = job[t].row.version

SurviveInv == ReadsInThePast /\ MintsCurrent /\ SessionsSurvive

\* The steps that read a user and go on with it: what changes is the thread.
Moves(t, label, j) ==
  /\ Goto(t, label, j)
  /\ UNCHANGED <<users, tokens, clock, loggedOut>>

(* Every step of a thread, by what it changes.                             *)
LEMMA StepCases ==
  ASSUME TypeOK, NEW t \in Threads, ThreadStep(t)
  PROVE  \/ \E j : \/ Moves(t, "idle", NoJob)
                   \/ \E u \in Usernames : /\ Exists(u) /\ j = Holding(u, users[u], NoToken)
                                           /\ Moves(t, "mint", j)
                   \/ \E token \in tokens :
                        /\ Accepts(token, "refresh")
                        /\ j = Holding(token.sub, users[token.sub], token)
                        /\ Moves(t, "mint", j)
                   \/ \E token \in tokens :
                        /\ Accepts(token, "access")
                        /\ j = Holding(token.sub, users[token.sub], token)
                        /\ Moves(t, "serve", j)
                   \/ \E token \in tokens : Logout(t, token)
                   \/ \E u \in Usernames, p \in Passwords : Register(t, u, p)
         \/ LoadVersion(t) \/ Create(t) \/ Mint(t) \/ BumpVersion(t)
  BY DEF ThreadStep, Register, Login, Refresh, Call, Logout, Serve, Fails, Moves

(* Rows, tokens and times stay, and a thread that starts to mint holds the *)
(* row as it is.                                                           *)
LEMMA SurviveMove ==
  ASSUME TypeOK, SurviveInv, NEW t \in Threads, NEW label, NEW j,
         Goto(t, label, j), users' = users, tokens' \subseteq tokens,
         clock' = clock, loggedOut' = loggedOut,
         label = "mint" => /\ j.name \in Usernames /\ j.since = clock
                           /\ j.row = users[j.name]
  PROVE  SurviveInv'
  <1>1. ReadsInThePast'
    BY DEF SurviveInv, ReadsInThePast, Goto, TypeOK
  <1>2. MintsCurrent'
    BY DEF SurviveInv, MintsCurrent, Goto, TypeOK
  <1>3. SessionsSurvive'
    BY DEF SurviveInv, SessionsSurvive, Exists
  <1> QED BY <1>1, <1>2, <1>3 DEF SurviveInv

LEMMA SurviveStep ==
  ASSUME TypeOK, SurviveInv, [Next]_vars
  PROVE  SurviveInv'
  <1>1. CASE UNCHANGED vars
    BY <1>1 DEF SurviveInv, ReadsInThePast, MintsCurrent, SessionsSurvive, vars, Exists
  <1>2. ASSUME NEW t \in Threads, Create(t)
        PROVE  SurviveInv'
    <2>1. \A u \in Usernames : Exists(u) => Exists(u)' /\ users'[u] = users[u]
      BY <1>2 DEF Create, Exists, TypeOK, Job
    <2>2. ReadsInThePast'
      BY <1>2 DEF Create, SurviveInv, ReadsInThePast, Goto, TypeOK
    <2>3. MintsCurrent'
      BY <1>2, <2>1 DEF Create, SurviveInv, MintsCurrent, Goto, TypeOK, Job
    <2>4. SessionsSurvive'
      BY <1>2, <2>1 DEF Create, SurviveInv, SessionsSurvive, TypeOK, Token
    <2> QED BY <2>2, <2>3, <2>4 DEF SurviveInv
  <1>3. ASSUME NEW t \in Threads, Mint(t)
        PROVE  SurviveInv'
    <2>1. job[t] \in Job /\ Exists(job[t].name)
      BY <1>3 DEF Mint, TypeOK
    <2>2. clock \in Nat /\ clock' = clock + 1 /\ users' = users /\ loggedOut' = loggedOut
      BY <1>3 DEF Mint, TypeOK
    <2>3. ReadsInThePast'
      <3>1. \A token \in tokens : token.since <= clock /\ token.since \in Nat
        BY DEF SurviveInv, ReadsInThePast, TypeOK, Token
      <3>2. \A s \in Threads : pc[s] = "mint" => job[s].since <= clock /\ job[s].since \in Nat
        BY DEF SurviveInv, ReadsInThePast, TypeOK, Job
      <3>3. \A typ : Minted(t, typ).since = job[t].since
        BY DEF Minted
      <3>4. \A token \in tokens' : token.since <= clock'
        BY <1>3, <2>2, <3>1, <3>2, <3>3 DEF Mint
      <3>5. \A s \in Threads : pc'[s] = "mint" => pc[s] = "mint" /\ job'[s] = job[s]
        BY <1>3 DEF Mint, Goto, TypeOK
      <3> QED BY <2>2, <3>2, <3>4, <3>5 DEF ReadsInThePast
    <2>4. MintsCurrent'
      BY <1>3, <2>2 DEF Mint, SurviveInv, MintsCurrent, Goto, TypeOK
    <2>5. SessionsSurvive'
      <3>1. \A typ : /\ Minted(t, typ).sub = job[t].name
                     /\ Minted(t, typ).since = job[t].since
                     /\ Minted(t, typ).ver = job[t].row.version
        BY DEF Minted
      <3> QED BY <1>3, <2>1, <2>2, <3>1 DEF Mint, SurviveInv, MintsCurrent, SessionsSurvive, Exists
    <2> QED BY <2>3, <2>4, <2>5 DEF SurviveInv
  <1>4. ASSUME NEW t \in Threads, BumpVersion(t)
        PROVE  SurviveInv'
    <2> DEFINE v == job[t].name
    <2>1. v \in Usernames
      BY <1>4 DEF BumpVersion, TypeOK, Job
    <2>2. /\ clock \in Nat /\ clock' = clock + 1 /\ tokens' = tokens
          /\ loggedOut' = [loggedOut EXCEPT ![v] = clock]
          /\ \A u \in Usernames \ {v} : users'[u] = users[u]
      BY <1>4 DEF BumpVersion, TypeOK
    <2>3. \A token \in tokens : token.since \in Nat /\ token.since <= clock /\ token.sub \in Usernames
      BY DEF SurviveInv, ReadsInThePast, TypeOK, Token
    <2>4. \A s \in Threads : pc'[s] = "mint" =>
            /\ pc[s] = "mint" /\ job'[s] = job[s] /\ job[s].name \in Usernames
            /\ job[s].since \in Nat /\ job[s].since <= clock
      BY <1>4 DEF BumpVersion, Goto, SurviveInv, ReadsInThePast, TypeOK, Job
    <2>5. loggedOut'[v] = clock /\ \A u \in Usernames \ {v} : loggedOut'[u] = loggedOut[u]
      BY <2>1, <2>2 DEF TypeOK
    <2> HIDE DEF v
    <2>6. ReadsInThePast'
      BY <2>2, <2>3, <2>4 DEF ReadsInThePast
    <2>7. MintsCurrent'
      BY <2>2, <2>4, <2>5 DEF SurviveInv, MintsCurrent
    <2>8. SessionsSurvive'
      BY <2>2, <2>3, <2>5 DEF SurviveInv, SessionsSurvive, Exists
    <2> QED BY <2>6, <2>7, <2>8 DEF SurviveInv
  <1>5. ASSUME NEW t \in Threads, NEW label, NEW j, Moves(t, label, j),
               label # "mint"
        PROVE  SurviveInv'
    BY <1>5, SurviveMove DEF Moves
  <1>6. ASSUME NEW t \in Threads, NEW u \in Usernames, NEW token,
               Moves(t, "mint", Holding(u, users[u], token))
        PROVE  SurviveInv'
    <2> DEFINE j == Holding(u, users[u], token)
    <2>1. j.name \in Usernames /\ j.since = clock /\ j.row = users[j.name]
      BY DEF Holding
    <2> HIDE DEF j
    <2>2. Moves(t, "mint", j)
      BY <1>6 DEF j
    <2> QED BY <2>1, <2>2, SurviveMove DEF Moves
  <1>7. ASSUME NEW t \in Threads, ThreadStep(t)
        PROVE  SurviveInv'
    <2>1. ASSUME NEW token \in tokens, Logout(t, token)
          PROVE  SurviveInv'
      BY <1>5, <2>1 DEF Logout, Moves
    <2>2. ASSUME NEW u \in Usernames, NEW p \in Passwords, Register(t, u, p)
          PROVE  SurviveInv'
      BY <1>5, <2>2 DEF Register, Moves
    <2>3. CASE LoadVersion(t)
      BY <1>5, <2>3 DEF LoadVersion, Moves
    <2>4. \A token \in tokens : token.sub \in Usernames
      BY DEF TypeOK, Token
    <2> QED BY <1>2, <1>3, <1>4, <1>5, <1>6, <1>7, <2>1, <2>2, <2>3, <2>4, StepCases
  <1>8. ASSUME NEW token \in tokens, Expire(token)
        PROVE  SurviveInv'
    BY <1>8 DEF Expire, SurviveInv, ReadsInThePast, MintsCurrent, SessionsSurvive, Exists
  <1> QED BY <1>1, <1>7, <1>8 DEF Next, ThreadStep

\* A token minted from a row read since the user's last logout still works,
\* whatever requests overlap (AuthService: only token_version revokes).
THEOREM SessionsDoSurvive == Spec => []SessionsSurvive
  <1>1. Init => SurviveInv
    BY DEF Init, SurviveInv, ReadsInThePast, MintsCurrent, SessionsSurvive
  <1>2. TypeOK /\ SurviveInv /\ [Next]_vars => SurviveInv'
    BY SurviveStep
  <1>3. SurviveInv => SessionsSurvive
    BY DEF SurviveInv
  <1> QED BY <1>1, <1>2, <1>3, TypeCorrect, PTL DEF Spec
-----------------------------------------------------------------------------
(* Logouts one at a time: a version only grows, and every token minted     *)
(* before a logout carries a smaller one.                                  *)

LogoutsAlone ==
  \A s, t \in Threads : pc[s] \in {"load", "bump"} /\ pc[t] \in {"load", "bump"} => s = t

BumpsCurrent ==
  \A t \in Threads : pc[t] = "bump" => job[t].row.version = users[job[t].name].version

MintsNoneAhead ==
  \A t \in Threads : pc[t] = "mint" => job[t].row.version <= users[job[t].name].version

NoneAhead ==
  \A token \in tokens :
    /\ Exists(token.sub)
    /\ token.ver <= users[token.sub].version
    /\ token.iat <= loggedOut[token.sub] => token.ver < users[token.sub].version

LogoutsInThePast == \A u \in Usernames : loggedOut[u] < clock

RevokedInv ==
  /\ LogoutsAlone /\ BumpsCurrent /\ MintsNoneAhead /\ NoneAhead /\ LogoutsInThePast

(* A version that is accepted is minted again no higher than it is.        *)
LEMMA RevokedMove ==
  ASSUME TypeOK, RevokedInv, NEW t \in Threads, NEW label, NEW j,
         Moves(t, label, j),
         label \in {"load", "bump"} =>
           \A s \in Threads \ {t} : pc[s] \notin {"load", "bump"},
         label \in {"mint", "bump"} =>
           /\ j.name \in Usernames /\ Exists(j.name) /\ j.row = users[j.name]
  PROVE  RevokedInv'
  <1>1. LogoutsAlone'
    BY DEF RevokedInv, LogoutsAlone, Moves, Goto, TypeOK
  <1>2. BumpsCurrent'
    BY DEF RevokedInv, BumpsCurrent, Moves, Goto, TypeOK
  <1>3. MintsNoneAhead'
    BY DEF RevokedInv, MintsNoneAhead, Moves, Goto, TypeOK, UserRow, Exists
  <1>4. NoneAhead' /\ LogoutsInThePast'
    BY DEF RevokedInv, NoneAhead, LogoutsInThePast, Moves, Exists
  <1> QED BY <1>1, <1>2, <1>3, <1>4 DEF RevokedInv

LEMMA RevokedStep ==
  ASSUME "logout" \notin Overlap, TypeOK, RevokedInv, [Next]_vars
  PROVE  RevokedInv'
  <1>1. CASE UNCHANGED vars
    BY <1>1 DEF RevokedInv, LogoutsAlone, BumpsCurrent, MintsNoneAhead, NoneAhead,
       LogoutsInThePast, vars, Exists
  <1>2. ASSUME NEW t \in Threads, Create(t)
        PROVE  RevokedInv'
    <2>1. \A u \in Usernames : Exists(u) => Exists(u)' /\ users'[u] = users[u]
      BY <1>2 DEF Create, Exists, TypeOK, Job
    <2>2. LogoutsAlone'
      BY <1>2 DEF Create, RevokedInv, LogoutsAlone, Goto, TypeOK
    <2>3. BumpsCurrent' /\ MintsNoneAhead'
      BY <1>2, <2>1 DEF Create, RevokedInv, BumpsCurrent, MintsNoneAhead, Goto, TypeOK, Job
    <2>4. NoneAhead' /\ LogoutsInThePast'
      BY <1>2, <2>1 DEF Create, RevokedInv, NoneAhead, LogoutsInThePast, TypeOK, Token
    <2> QED BY <2>2, <2>3, <2>4 DEF RevokedInv
  <1>3. ASSUME NEW t \in Threads, Mint(t)
        PROVE  RevokedInv'
    <2>1. /\ job[t] \in Job /\ Exists(job[t].name) /\ job[t].name \in Usernames
          /\ job[t].row.version <= users[job[t].name].version
      BY <1>3 DEF Mint, TypeOK, RevokedInv, MintsNoneAhead, Job
    <2>2. /\ clock \in Nat /\ clock' = clock + 1
          /\ users' = users /\ loggedOut' = loggedOut
          /\ tokens' = tokens \cup {Minted(t, "access"), Minted(t, "refresh")}
      BY <1>3 DEF Mint, TypeOK
    <2>3. LogoutsAlone' /\ BumpsCurrent' /\ MintsNoneAhead'
      BY <1>3, <2>2 DEF Mint, RevokedInv, LogoutsAlone, BumpsCurrent, MintsNoneAhead, Goto, TypeOK
    <2>4. NoneAhead'
      <3>1. \A typ : /\ Minted(t, typ).sub = job[t].name
                     /\ Minted(t, typ).ver = job[t].row.version
                     /\ Minted(t, typ).iat = clock
        BY DEF Minted
      <3>2. loggedOut[job[t].name] \in Nat /\ loggedOut[job[t].name] < clock
        BY <2>1 DEF RevokedInv, LogoutsInThePast, TypeOK
      <3>3. ~(clock <= loggedOut[job[t].name])
        BY <2>2, <3>2
      <3> QED BY <2>1, <2>2, <3>1, <3>3 DEF RevokedInv, NoneAhead, Exists
    <2>5. LogoutsInThePast'
      BY <2>2 DEF RevokedInv, LogoutsInThePast, TypeOK
    <2> QED BY <2>3, <2>4, <2>5 DEF RevokedInv
  <1>4. ASSUME NEW t \in Threads, BumpVersion(t)
        PROVE  RevokedInv'
    <2> DEFINE v == job[t].name
    <2>1. /\ v \in Usernames /\ Exists(v) /\ users[v] \in UserRow
          /\ job[t].row.version = users[v].version
      BY <1>4 DEF BumpVersion, TypeOK, Job, RevokedInv, BumpsCurrent, Exists
    <2>2. /\ clock \in Nat /\ clock' = clock + 1 /\ tokens' = tokens
          /\ loggedOut' = [loggedOut EXCEPT ![v] = clock]
          /\ users' = [users EXCEPT ![v].version = users[v].version + 1]
      BY <1>4, <2>1 DEF BumpVersion, TypeOK
    <2>3. /\ loggedOut'[v] = clock
          /\ \A u \in Usernames \ {v} : loggedOut'[u] = loggedOut[u]
          /\ users'[v] \in UserRow /\ users'[v].version = users[v].version + 1
          /\ users[v].version \in Nat
          /\ \A u \in Usernames \ {v} : users'[u] = users[u]
      BY <2>1, <2>2 DEF TypeOK, UserRow
    <2>4. \A s \in Threads : pc'[s] # "idle" => s # t /\ pc'[s] = pc[s] /\ job'[s] = job[s]
      BY <1>4 DEF BumpVersion, Goto, TypeOK
    <2>5. LogoutsAlone'
      BY <2>4 DEF RevokedInv, LogoutsAlone
    <2>6. BumpsCurrent'
      BY <1>4, <2>4 DEF RevokedInv, LogoutsAlone, BumpsCurrent, BumpVersion
    <2>7. MintsNoneAhead'
      <3>1. ASSUME NEW s \in Threads, pc'[s] = "mint"
            PROVE  job'[s].row.version <= users'[job'[s].name].version
        <4>1. /\ job'[s] = job[s] /\ job[s].name \in Usernames /\ job[s].row.version \in Nat
              /\ job[s].row.version <= users[job[s].name].version
          BY <2>4, <3>1 DEF RevokedInv, MintsNoneAhead, TypeOK, Job, UserRow
        <4> HIDE DEF v
        <4> QED BY <2>3, <4>1
      <3> QED BY <3>1 DEF MintsNoneAhead
    <2>8. NoneAhead'
      <3>1. ASSUME NEW token \in tokens
            PROVE  /\ token.sub \in Usernames /\ token.ver \in Nat
                   /\ Exists(token.sub) /\ token.ver <= users[token.sub].version
                   /\ token.iat <= loggedOut[token.sub] => token.ver < users[token.sub].version
        BY DEF RevokedInv, NoneAhead, TypeOK, Token
      <3>2. users'[v] # NoUser
        BY <2>3, AuthAssumption DEF Exists, UserRow
      <3> HIDE DEF v
      <3> QED BY <2>2, <2>3, <3>1, <3>2 DEF NoneAhead, Exists
    <2>9. LogoutsInThePast'
      <3> HIDE DEF v
      <3> QED BY <2>2, <2>3 DEF RevokedInv, LogoutsInThePast, TypeOK
    <2> QED BY <2>5, <2>6, <2>7, <2>8, <2>9 DEF RevokedInv
  <1>5. ASSUME NEW t \in Threads, NEW u \in Usernames, Exists(u), NEW token,
               NEW label \in {"mint", "serve"},
               Moves(t, label, Holding(u, users[u], token))
        PROVE  RevokedInv'
    <2> DEFINE j == Holding(u, users[u], token)
    <2>1. j.name \in Usernames /\ Exists(j.name) /\ j.row = users[j.name]
      BY <1>5 DEF Holding
    <2> HIDE DEF j
    <2>2. Moves(t, label, j)
      BY <1>5 DEF j
    <2> QED BY <2>1, <2>2, RevokedMove
  <1>6. ASSUME NEW t \in Threads, NEW token \in tokens, Logout(t, token)
        PROVE  RevokedInv'
    BY <1>6, RevokedMove DEF Logout, Moves, Alone
  <1>7. ASSUME NEW t \in Threads, LoadVersion(t)
        PROVE  RevokedInv'
    <2> DEFINE j == [job[t] EXCEPT !.row = users[job[t].name]]
    <2>1. job[t] \in Job /\ Exists(job[t].name)
      BY <1>7 DEF LoadVersion, TypeOK
    <2>2. j.name \in Usernames /\ Exists(j.name) /\ j.row = users[j.name]
      BY <2>1 DEF Job
    <2> HIDE DEF j
    <2>3. Moves(t, "bump", j)
      BY <1>7 DEF LoadVersion, Moves, j
    <2>4. \A s \in Threads \ {t} : pc[s] \notin {"load", "bump"}
      BY <1>7 DEF LoadVersion, RevokedInv, LogoutsAlone
    <2> QED BY <2>2, <2>3, <2>4, RevokedMove
  <1>8. ASSUME NEW t \in Threads, ThreadStep(t)
        PROVE  RevokedInv'
    <2>1. ASSUME NEW u \in Usernames, NEW p \in Passwords, Register(t, u, p)
          PROVE  RevokedInv'
      BY <2>1, RevokedMove DEF Register, Moves
    <2>2. ASSUME Moves(t, "idle", NoJob)
          PROVE  RevokedInv'
      BY <2>2, RevokedMove
    <2>3. \A token \in tokens, typ \in {"access", "refresh"} :
            Accepts(token, typ) => token.sub \in Usernames /\ Exists(token.sub)
      BY AcceptedType
    <2> QED BY <1>2, <1>3, <1>4, <1>5, <1>6, <1>7, <1>8, <2>1, <2>2, <2>3, StepCases
  <1>9. ASSUME NEW token \in tokens, Expire(token)
        PROVE  RevokedInv'
    BY <1>9 DEF Expire, RevokedInv, LogoutsAlone, BumpsCurrent, MintsNoneAhead, NoneAhead,
       LogoutsInThePast, Exists
  <1> QED BY <1>1, <1>8, <1>9 DEF Next, ThreadStep

(* A request gets past its check with an access token or a refresh token.  *)
LEMMA PastTheCheck ==
  ASSUME TypeOK, [Next]_vars, NEW t \in Threads,
         pc[t] = "idle", pc'[t] \in {"mint", "serve", "load"}, job'[t].token # NoToken
  PROVE  \E token \in tokens :
           /\ job'[t].token = token
           /\ Accepts(token, IF pc'[t] = "mint" THEN "refresh" ELSE "access")
  <1>1. PICK s \in Threads : ThreadStep(s)
    BY DEF Next, ThreadStep, vars, Expire
  <1>2. s = t
    BY <1>1 DEF ThreadStep, Register, Login, Refresh, Call, Logout, Create, Mint, Serve,
       LoadVersion, BumpVersion, Fails, Goto, TypeOK
  <1>3. ASSUME NEW label, NEW j, Goto(t, label, j)
        PROVE  pc'[t] = label /\ job'[t] = j
    BY <1>3 DEF Goto, TypeOK
  <1>4. \A u, row, token : Holding(u, row, token).token = token
    BY DEF Holding
  <1>5. CASE \E u \in Usernames, p \in Passwords : Register(t, u, p) \/ Login(t, u, p)
    <2>1. job'[t].token = NoToken \/ pc'[t] = "create"
      BY <1>3, <1>4, <1>5 DEF Register, Login
    <2> QED BY <2>1
  <1>6. ASSUME NEW token \in tokens, Refresh(t, token)
        PROVE  pc'[t] = "mint" /\ job'[t].token = token /\ Accepts(token, "refresh")
    BY <1>3, <1>4, <1>6 DEF Refresh
  <1>7. ASSUME NEW token \in tokens, Call(t, token) \/ Logout(t, token)
        PROVE  pc'[t] # "mint" /\ job'[t].token = token /\ Accepts(token, "access")
    BY <1>3, <1>4, <1>7 DEF Call, Logout
  <1>8. ~(Create(t) \/ Mint(t) \/ Serve(t) \/ LoadVersion(t) \/ BumpVersion(t) \/ Fails(t))
    BY DEF Create, Mint, Serve, LoadVersion, BumpVersion, Fails
  <1> QED BY <1>1, <1>2, <1>5, <1>6, <1>7, <1>8 DEF ThreadStep

\* As long as a logout does not overlap another one, no request gets past its
\* check with a token minted before the user's last logout, or with one of
\* the wrong type (AuthService.logout).
THEOREM RevokedNotAccepted == "logout" \notin Overlap /\ Spec => AcceptedIsLive
  <1> SUFFICES ASSUME "logout" \notin Overlap PROVE Spec => AcceptedIsLive
    OBVIOUS
  <1>1. Init => RevokedInv
    BY DEF Init, RevokedInv, LogoutsAlone, BumpsCurrent, MintsNoneAhead, NoneAhead,
       LogoutsInThePast
  <1>2. TypeOK /\ RevokedInv /\ [Next]_vars => RevokedInv'
    BY RevokedStep
  <1>3. ASSUME TypeOK, RevokedInv, [Next]_vars, NEW t \in Threads,
               pc[t] = "idle", pc'[t] \in {"mint", "serve", "load"}, job'[t].token # NoToken
        PROVE  /\ job'[t].token.iat > loggedOut[job'[t].token.sub]
               /\ job'[t].token.typ = (IF pc'[t] = "mint" THEN "refresh" ELSE "access")
    <2>1. PICK token \in tokens :
            /\ job'[t].token = token
            /\ Accepts(token, IF pc'[t] = "mint" THEN "refresh" ELSE "access")
      BY <1>3, PastTheCheck
    <2>2. /\ token.iat \in Nat /\ token.ver \in Nat /\ token.sub \in Usernames
          /\ loggedOut[token.sub] \in Nat
      BY <1>3 DEF TypeOK, Token
    <2>3. ~(token.iat <= loggedOut[token.sub])
      BY <1>3, <2>1, <2>2 DEF RevokedInv, NoneAhead, Accepts
    <2>4. token.iat > loggedOut[token.sub]
      BY <2>2, <2>3
    <2> QED BY <2>1, <2>4 DEF Accepts
  <1>4. TypeOK /\ RevokedInv /\ [Next]_vars =>
          [\A t \in Threads :
             pc[t] = "idle" /\ pc'[t] \in {"mint", "serve", "load"} /\ job'[t].token # NoToken =>
               /\ job'[t].token.iat > loggedOut[job'[t].token.sub]
               /\ job'[t].token.typ = (IF pc'[t] = "mint" THEN "refresh" ELSE "access")]_vars
    BY <1>3
  <1> QED BY <1>1, <1>2, <1>4, TypeCorrect, PTL DEF Spec, AcceptedIsLive
-----------------------------------------------------------------------------
(* Registrations one at a time.                                            *)

\* While a registration is past its check there is no user and no other
\* registration.
RegisteringAlone ==
  \A t \in Threads : pc[t] = "create" =>
    /\ \A u \in Usernames : ~Exists(u)
    /\ \A s \in Threads : pc[s] = "create" => s = t

LEMMA OneAccountStep ==
  ASSUME "register" \notin Overlap, TypeOK, RegisteringAlone, OneAccount, [Next]_vars
  PROVE  RegisteringAlone' /\ OneAccount'
  <1>1. ASSUME NEW t \in Threads, Create(t)
        PROVE  RegisteringAlone' /\ OneAccount'
    <2>1. users' = [users EXCEPT ![job[t].name] = job[t].row]
      BY <1>1 DEF Create, RegisteringAlone, TypeOK, Job, Exists
    <2>2. OneAccount'
      BY <1>1, <2>1 DEF Create, RegisteringAlone, OneAccount, Exists, TypeOK
    <2>3. RegisteringAlone'
      BY <1>1 DEF Create, RegisteringAlone, Goto, TypeOK
    <2> QED BY <2>2, <2>3
  <1>2. ASSUME NEW t \in Threads, BumpVersion(t)
        PROVE  RegisteringAlone' /\ OneAccount'
    <2>1. \A u \in Usernames : Exists(u)' => Exists(u)
      BY <1>2 DEF BumpVersion, TypeOK, Exists, Job
    <2>2. OneAccount'
      BY <2>1 DEF OneAccount
    <2>3. RegisteringAlone'
      BY <1>2, <2>1 DEF BumpVersion, RegisteringAlone, Goto, TypeOK
    <2> QED BY <2>2, <2>3
  <1>3. ASSUME NEW t \in Threads, NEW u \in Usernames, NEW p \in Passwords, Register(t, u, p)
        PROVE  RegisteringAlone' /\ OneAccount'
    BY <1>3 DEF Register, RegisteringAlone, OneAccount, Goto, Alone, TypeOK, Exists
  <1>4. ASSUME NEW t \in Threads, NEW label, NEW j, Goto(t, label, j), label # "create",
               UNCHANGED users
        PROVE  RegisteringAlone' /\ OneAccount'
    BY <1>4 DEF RegisteringAlone, OneAccount, Goto, TypeOK, Exists
  <1>5. CASE UNCHANGED <<users, pc>>
    BY <1>5 DEF RegisteringAlone, OneAccount, Exists
  <1> QED
    BY <1>1, <1>2, <1>3, <1>4, <1>5
    DEF Next, vars, Login, Refresh, Call, Logout, Mint, Serve, LoadVersion, Fails, Expire

\* As long as a registration does not overlap another one, there is never a
\* second account (AuthService.register).
THEOREM OnlyOneAccount == "register" \notin Overlap /\ Spec => []OneAccount
  <1> SUFFICES ASSUME "register" \notin Overlap PROVE Spec => []OneAccount
    OBVIOUS
  <1>1. Init => RegisteringAlone /\ OneAccount
    BY DEF Init, RegisteringAlone, OneAccount, Exists
  <1>2. TypeOK /\ RegisteringAlone /\ OneAccount /\ [Next]_vars
          => RegisteringAlone' /\ OneAccount'
    BY OneAccountStep
  <1> QED BY <1>1, <1>2, TypeCorrect, PTL DEF Spec
=============================================================================
