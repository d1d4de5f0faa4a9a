---------------------------- MODULE ModelLoading ----------------------------
(***************************************************************************)
(* The three local models: loaded once each, on first use, behind a lock   *)
(* of their own (infrastructure/ml/loading.py, embeddings.py, nli.py), and *)
(* warmed by threads that startup leaves running (services/warmup.py,      *)
(* main.py).  A thread inside a loader has a frame; the thread that called *)
(* it goes on when the frame says "returned" or "raised".                  *)
(*                                                                         *)
(* A load is timed into the caller's cost table if it has opened one       *)
(* (core/timing.py).  Time is counted in steps that take some, such as a   *)
(* construction or a forward pass; a wait for a lock is outside every      *)
(* timed load, and its time the caller's own.                              *)
(***************************************************************************)
EXTENDS Naturals, FiniteSets

CONSTANTS
  Requests,   \* request threads
  Preloads,   \* the models startup preloads: their names name the threads too
  NoThread,   \* owner of a free lock
  Failures    \* what may fail: "cache", "network", "head" of a load; "search"

Models == {"embedding", "reranker", "nli"}

Threads == Requests \cup Preloads

ASSUME LoadingAssumption ==
  /\ Preloads \subseteq Models
  /\ Requests \cap Models = {}
  /\ NoThread \notin Threads
  /\ IsFiniteSet(Requests)

VARIABLES
  owner,   \* owner[m]: who is inside `with _<m>_lock`
  cached,  \* cached[m]: lru_cache, or _nli_model, holds the model
  labels,  \* _nli_labels is not None
  frame,   \* the loader each thread is in
  preload, \* the preload threads: "load", "warm", "done"
  clock,   \* perf_counter() of each request thread
  costs    \* its cost table, and whether a collect() scope is open

loadVars == <<owner, cached, labels, frame, preload, clock, costs>>
-----------------------------------------------------------------------------
\* Where a thread is in a loader; "out" when it is in none.
Inside == {"cache", "network", "derive", "publish"}
Places == {"out", "lock", "returned", "raised"} \cup Inside

Out == [model |-> "none", at |-> "out", began |-> 0]

NoCosts == [scope |-> FALSE, model_load |-> 0, rerank |-> 0]

\* record(): accumulates in an open scope and does nothing outside one.
Recorded(t, key, cost) ==
  IF t \in Requests /\ costs[t].scope THEN [costs EXCEPT ![t][key] = @ + cost] ELSE costs

\* Nobody reads the clock of a preload thread.
Now(t)     == IF t \in Requests THEN clock[t] ELSE 0
Tick(t, n) == IF t \in Requests THEN [clock EXCEPT ![t] = @ + n] ELSE clock

\* Part of the caller's step: the loader of model m is entered.
Called(m) == [Out EXCEPT !.model = m, !.at = "lock"]

Holds(t, place) == frame[t].at = place

LoadInit ==
  /\ owner = [m \in Models |-> NoThread]
  /\ cached = [m \in Models |-> FALSE]
  /\ labels = FALSE
  /\ frame = [t \in Threads |-> IF t \in Preloads THEN Called(t) ELSE Out]
  /\ preload = [m \in Preloads |-> "load"]
  /\ clock = [r \in Requests |-> 0]
  /\ costs = [r \in Requests |-> NoCosts]
-----------------------------------------------------------------------------
(* Steps inside a loader *)

\* Mutant: the check is made before the lock is asked for, as lru_cache alone does.
Acquire_Unguarded(t) ==
  LET m == frame[t].model IN
  /\ Holds(t, "lock")
  /\ frame' = [frame EXCEPT ![t].at = IF cached[m] THEN "returned" ELSE "cache",
                            ![t].began = Now(t)]
  /\ owner' = IF cached[m] THEN owner ELSE [owner EXCEPT ![m] = t]
  /\ UNCHANGED <<cached, labels, preload, clock, costs>>

\* The lock is taken; a cached model is returned and the lock given back, otherwise the
\* timed load begins.
Acquire(t) ==
  LET m == frame[t].model IN
  /\ Holds(t, "lock")
  /\ owner[m] = NoThread
  /\ \/ /\ cached[m]
        /\ frame' = [frame EXCEPT ![t].at = "returned"]
        /\ UNCHANGED owner
     \/ /\ ~cached[m]
        /\ frame' = [frame EXCEPT ![t].at = "cache", ![t].began = Now(t)]
        /\ owner' = [owner EXCEPT ![m] = t]
  /\ UNCHANGED <<cached, labels, preload, clock, costs>>

\* Mutant: the lock is given back on the way out only, not when the load raises.
Leave_Unreleased(t, place, taken) ==
  /\ owner' = IF place = "raised" THEN owner ELSE [owner EXCEPT ![frame[t].model] = NoThread]
  /\ frame' = [frame EXCEPT ![t].at = place]
  /\ costs' = Recorded(t, "model_load", Now(t) + taken - frame[t].began)

\* A frame leaves the loader: the lock is released and timed() records, on the
\* failure path as well.
Leave(t, place, taken) ==
  /\ owner' = [owner EXCEPT ![frame[t].model] = NoThread]
  /\ frame' = [frame EXCEPT ![t].at = place]
  /\ costs' = Recorded(t, "model_load", Now(t) + taken - frame[t].began)

\* A construction succeeded: two loaders cache its result when they return, the
\* third has its labels to derive first.
Constructed(t) ==
  /\ clock' = Tick(t, 1)
  /\ IF frame[t].model = "nli"
     THEN /\ frame' = [frame EXCEPT ![t].at = "derive"]
          /\ UNCHANGED <<owner, cached, costs>>
     ELSE /\ cached' = [cached EXCEPT ![frame[t].model] = TRUE]
          /\ Leave(t, "returned", 1)

\* from_cache_first, its first attempt: whatever is raised, the network is tried.
FromCache(t) ==
  /\ Holds(t, "cache")
  /\ \/ Constructed(t)
     \/ /\ "cache" \in Failures
        /\ frame' = [frame EXCEPT ![t].at = "network"]
        /\ UNCHANGED <<owner, cached, costs, clock>>
  /\ UNCHANGED <<labels, preload>>

\* Its second: a failure is raised to the caller and leaves nothing cached.
FromNetwork(t) ==
  /\ Holds(t, "network")
  /\ \/ Constructed(t)
     \/ /\ "network" \in Failures
        /\ Leave(t, "raised", 1)
        /\ clock' = Tick(t, 1)
        /\ UNCHANGED <<cached>>
  /\ UNCHANGED <<labels, preload>>

\* _derive_labels: a head it does not recognise is refused, never guessed.
Derive(t) ==
  /\ Holds(t, "derive")
  /\ \/ /\ labels' = TRUE
        /\ frame' = [frame EXCEPT ![t].at = "publish"]
        /\ UNCHANGED <<owner, costs>>
     \/ /\ "head" \in Failures
        /\ Leave(t, "raised", 0)
        /\ UNCHANGED labels
  /\ UNCHANGED <<cached, preload, clock>>

Publish(t) ==
  /\ Holds(t, "publish")
  /\ cached' = [cached EXCEPT !["nli"] = TRUE]
  /\ Leave(t, "returned", 0)
  /\ UNCHANGED <<labels, preload, clock>>

Load(t) ==
  \/ Acquire(t)
  \/ FromCache(t)
  \/ FromNetwork(t)
  \/ Derive(t)
  \/ Publish(t)
-----------------------------------------------------------------------------
(* The preload threads *)

\* _load_and_warm: the load, then one forward pass; a failure of either is logged
\* and ends the thread.
Warm(m) ==
  /\ \/ /\ preload[m] = "load" /\ Holds(m, "returned")
        /\ preload' = [preload EXCEPT ![m] = "warm"]
     \/ /\ \/ preload[m] = "load" /\ Holds(m, "raised")
           \/ preload[m] = "warm"
        /\ preload' = [preload EXCEPT ![m] = "done"]
  /\ frame' = [frame EXCEPT ![m] = Out]
  /\ UNCHANGED <<owner, cached, labels, clock, costs>>
-----------------------------------------------------------------------------
LoadTypeOK ==
  /\ owner \in [Models -> Threads \cup {NoThread}]
  /\ cached \in [Models -> BOOLEAN]
  /\ labels \in BOOLEAN
  /\ frame \in [Threads -> [model : Models \cup {"none"}, at : Places, began : Nat]]
  /\ preload \in [Preloads -> {"load", "warm", "done"}]
  /\ clock \in [Requests -> Nat]
  /\ costs \in [Requests -> [scope : BOOLEAN, model_load : Nat, rerank : Nat]]

\* Nobody constructs a model while another thread does, or once it is cached.
LoadedOnce ==
  \A t \in Threads : frame[t].at \in Inside =>
    /\ ~cached[frame[t].model]
    /\ \A o \in Threads \ {t} : frame[o].at \in Inside => frame[o].model # frame[t].model

\* Whoever gets hold of the entailment model finds its label order, although the two
\* globals are assigned in turn, the derivation may fail, and scores are read without the lock.
LabelsKnown == cached["nli"] => labels

\* Loading is safe to share: each model is constructed by one thread at a time and
\* never again once cached (embeddings.py:54-59, nli.py:92-119), and a score of
\* the entailment model is never read without its order of labels (nli.py:138-144).
ModelsAreWhole == LoadedOnce /\ LabelsKnown
=============================================================================
