-------------------------------- MODULE Auth --------------------------------
(***************************************************************************)
(* Registration, login, token refresh, logout and the check every          *)
(* protected route makes: AuthService over the users table.                *)
(*                                                                         *)
(* A request runs in a thread of the server's pool, and reads and writes   *)
(* of the users table by different threads interleave. Tokens are          *)
(* stateless: the server keeps none, and a client may present any token it *)
(* was given as long as it has not expired. `clock` orders the minting of  *)
(* tokens and the ends of logouts. A user is named by the (unique)         *)
(* username, which stands for the id in the `sub` claim.                   *)
(***************************************************************************)
EXTENDS Integers

CONSTANTS
  Threads, Usernames, Passwords,
  Overlap,   \* the requests that may overlap with one of their own kind
  MaxClock,  \* bound on tokens minted and logouts
  NoUser, NoToken, NoJob

ASSUME AuthAssumption ==
  /\ Overlap \subseteq {"register", "logout"}
  /\ MaxClock \in Nat
  /\ NoUser \notin [password : Passwords, version : Nat]
  /\ NoToken \notin [sub : Usernames, ver : Nat, typ : {"access", "refresh"},
                     iat : Nat, since : Nat]

VARIABLES
  users,      \* the row of each username, or NoUser
  tokens,     \* the tokens minted and not expired
  pc, job,    \* per thread: where its request is, and what it holds
  clock,
  loggedOut   \* per user: the time of the last logout that ended

vars == <<users, tokens, pc, job, clock, loggedOut>>
-----------------------------------------------------------------------------
UserRow == [password : Passwords, version : Nat]

\* `since` is when the user was read whose version the token carries.
Token == [sub : Usernames, ver : Nat, typ : {"access", "refresh"},
          iat : Nat, since : Nat]

\* What a request holds: the User object it read (or is about to insert) and
\* the token it presented.
Job == [name : Usernames, row : UserRow, since : Nat, token : Token \cup {NoToken}]

Exists(u) == users[u] # NoUser

Accepts_AnyVersion(token, typ) ==
  /\ token \in tokens
  /\ token.typ = typ
  /\ Exists(token.sub)

\* authenticate and refresh: decode_token with the expected type, then the
\* user as the table has it now.
Accepts(token, typ) ==
  /\ token \in tokens
  /\ token.typ = typ
  /\ Exists(token.sub)
  /\ users[token.sub].version = token.ver

Alone(kind, labels, t) ==
  kind \notin Overlap => \A s \in Threads \ {t} : pc[s] \notin labels
-----------------------------------------------------------------------------
Init ==
  /\ users = [u \in Usernames |-> NoUser]
  /\ tokens = {}
  /\ pc = [t \in Threads |-> "idle"]
  /\ job = [t \in Threads |-> NoJob]
  /\ clock = 1
  /\ loggedOut = [u \in Usernames |-> 0]

Goto(t, label, j) ==
  /\ pc' = [pc EXCEPT ![t] = label]
  /\ job' = [job EXCEPT ![t] = j]

Holding(u, row, token) == [name |-> u, row |-> row, since |-> clock, token |-> token]

Register_Unchecked(t, u, p) ==
  /\ pc[t] = "idle"
  /\ Alone("register", {"create"}, t)
  /\ Goto(t, "create", Holding(u, [password |-> p, version |-> 0], NoToken))
  /\ UNCHANGED <<users, tokens, clock, loggedOut>>

(* has_users, and the hash of the password if there are none. Otherwise    *)
(* RegistrationClosed.                                                     *)
Register(t, u, p) ==
  /\ pc[t] = "idle"
  /\ Alone("register", {"create"}, t)
  /\ \A v \in Usernames : ~Exists(v)
  /\ Goto(t, "create", Holding(u, [password |-> p, version |-> 0], NoToken))
  /\ UNCHANGED <<users, tokens, clock, loggedOut>>

Create_Upsert(t) ==
  /\ pc[t] = "create"
  /\ users' = [users EXCEPT ![job[t].name] = job[t].row]
  /\ Goto(t, "idle", NoJob)
  /\ UNCHANGED <<tokens, clock, loggedOut>>

(* The INSERT: a username that exists by now is an IntegrityError.         *)
Create(t) ==
  /\ pc[t] = "create"
  /\ users' = IF Exists(job[t].name) THEN users
              ELSE [users EXCEPT ![job[t].name] = job[t].row]
  /\ Goto(t, "idle", NoJob)
  /\ UNCHANGED <<tokens, clock, loggedOut>>

(* get_by_username, then a bcrypt comparison with the row that was read.   *)
(* An unknown user and a wrong password end the request the same way.      *)
Login(t, u, p) ==
  /\ pc[t] = "idle"
  /\ Exists(u)
  /\ users[u].password = p
  /\ Goto(t, "mint", Holding(u, users[u], NoToken))
  /\ UNCHANGED <<users, tokens, clock, loggedOut>>

(* POST /auth/refresh, with the token the cookie holds.                    *)
Refresh(t, token) ==
  /\ pc[t] = "idle"
  /\ Accepts(token, "refresh")
  /\ Goto(t, "mint", Holding(token.sub, users[token.sub], token))
  /\ UNCHANGED <<users, tokens, clock, loggedOut>>

Minted(t, typ) ==
  [sub |-> job[t].name, ver |-> job[t].row.version, typ |-> typ, iat |-> clock,
   since |-> job[t].since]

Mint_Revoking(t) ==
  /\ pc[t] = "mint"
  /\ clock < MaxClock
  /\ tokens' = tokens \cup {Minted(t, "access"), Minted(t, "refresh")}
  /\ clock' = clock + 1
  /\ users' = [users EXCEPT ![job[t].name].version = job[t].row.version + 1]
  /\ Goto(t, "idle", NoJob)
  /\ UNCHANGED loggedOut

(* create_access_token and create_refresh_token, from the User object.     *)
Mint(t) ==
  /\ pc[t] = "mint"
  /\ clock < MaxClock
  /\ tokens' = tokens \cup {Minted(t, "access"), Minted(t, "refresh")}
  /\ clock' = clock + 1
  /\ Goto(t, "idle", NoJob)
  /\ UNCHANGED <<users, loggedOut>>

(* Any protected route, /auth/me included: get_current_user, the body.     *)
Call(t, token) ==
  /\ pc[t] = "idle"
  /\ Accepts(token, "access")
  /\ Goto(t, "serve", Holding(token.sub, users[token.sub], token))
  /\ UNCHANGED <<users, tokens, clock, loggedOut>>

Serve(t) ==
  /\ pc[t] = "serve"
  /\ Goto(t, "idle", NoJob)
  /\ UNCHANGED <<users, tokens, clock, loggedOut>>

(* POST /auth/logout is a protected route too: get_current_user first.     *)
Logout(t, token) ==
  /\ pc[t] = "idle"
  /\ Alone("logout", {"load", "bump"}, t)
  /\ Accepts(token, "access")
  /\ Goto(t, "load", Holding(token.sub, users[token.sub], token))
  /\ UNCHANGED <<users, tokens, clock, loggedOut>>

(* increment_token_version reads the row in a session of its own ...       *)
LoadVersion(t) ==
  /\ pc[t] = "load"
  /\ Goto(t, "bump", [job[t] EXCEPT !.row = users[job[t].name]])
  /\ UNCHANGED <<users, tokens, clock, loggedOut>>

(* ... and writes back the version it read plus one.                       *)
BumpVersion(t) ==
  /\ pc[t] = "bump"
  /\ clock < MaxClock
  /\ users' = [users EXCEPT ![job[t].name].version = job[t].row.version + 1]
  /\ loggedOut' = [loggedOut EXCEPT ![job[t].name] = clock]
  /\ clock' = clock + 1
  /\ Goto(t, "idle", NoJob)
  /\ UNCHANGED tokens

(* A database error rolls back and answers 500; a restart ends every       *)
(* request the same way.                                                   *)
Fails(t) ==
  /\ pc[t] # "idle"
  /\ Goto(t, "idle", NoJob)
  /\ UNCHANGED <<users, tokens, clock, loggedOut>>

(* Its `exp` passes: decode_token refuses it from now on. Tokens of a type *)
(* live equally long, and a refresh token longer than an access token.     *)
Expire(token) ==
  /\ \A other \in tokens :
       other.typ \in {token.typ, "access"} /\ other # token => other.iat > token.iat
  /\ tokens' = tokens \ {token}
  /\ UNCHANGED <<users, pc, job, clock, loggedOut>>

Next ==
  \/ \E t \in Threads :
       \/ \E u \in Usernames, p \in Passwords : Register(t, u, p) \/ Login(t, u, p)
       \/ \E token \in tokens : Refresh(t, token) \/ Call(t, token) \/ Logout(t, token)
       \/ Create(t) \/ Mint(t) \/ Serve(t) \/ LoadVersion(t) \/ BumpVersion(t) \/ Fails(t)
  \/ \E token \in tokens : Expire(token)

Spec == Init /\ [][Next]_vars
-----------------------------------------------------------------------------
\* The types of the variables; what a label says of the thread's request.
TypeOK ==
  /\ users \in [Usernames -> UserRow \cup {NoUser}]
  /\ tokens \in SUBSET Token
  /\ pc \in [Threads -> {"idle", "create", "mint", "serve", "load", "bump"}]
  /\ job \in [Threads -> Job \cup {NoJob}]
  /\ clock \in Nat
  /\ loggedOut \in [Usernames -> Nat]
  /\ \A t \in Threads : pc[t] # "idle" => job[t] \in Job
  /\ \A t \in Threads : pc[t] \in {"mint", "serve", "load", "bump"} => Exists(job[t].name)

\* There is never more than one account: registration "succeeds once, then
\* 403 forever after" (AuthService.register).
OneAccount == \A u, v \in Usernames : Exists(u) /\ Exists(v) => u = v

\* An account, once created, is neither removed nor given another password,
\* however many registrations race for its username (the UNIQUE constraint
\* behind SqlUserRepository.create).
AccountsKept ==
  [][\A u \in Usernames : Exists(u) =>
       Exists(u)' /\ users'[u].password = users[u].password]_vars

\* A request gets past the check only with a token of the right type minted
\* after the user's last logout: "every token issued before it stops
\* verifying on its very next use" (AuthService.logout).
AcceptedIsLive ==
  [][\A t \in Threads :
       pc[t] = "idle" /\ pc'[t] \in {"mint", "serve", "load"} /\ job'[t].token # NoToken =>
         /\ job'[t].token.iat > loggedOut[job'[t].token.sub]
         /\ job'[t].token.typ = (IF pc'[t] = "mint" THEN "refresh" ELSE "access")]_vars

\* Only a logout ends a session: a token minted from a row read since the
\* last one still carries the user's version, whoever else logged in,
\* refreshed, failed or tried to register meanwhile.
SessionsSurvive ==
  \A token \in tokens :
    token.since > loggedOut[token.sub] =>
      Exists(token.sub) /\ users[token.sub].version = token.ver
=============================================================================
