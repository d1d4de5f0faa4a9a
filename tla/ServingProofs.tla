---------------------------- MODULE ServingProofs ----------------------------
(***************************************************************************)
(* Theorems about Serving, for any requests, preloaded models, routes and  *)
(* deployments: its types, that models are loaded whole and once, that     *)
(* answers are honest and latencies add up, that each step brings a        *)
(* request nearer its end and that nobody waits in a circle.               *)
(***************************************************************************)
EXTENDS Serving, Integers, TLAPS

FrameType == [model : Models \cup {"none"}, at : Places, began : Nat]
CostType  == [scope : BOOLEAN, model_load : Nat, rerank : Nat]

(* A thread inside a loader owns the lock of a model that is not cached,   *)
(* and its timed load began no later than now.                             *)
FramesHold ==
  \A t \in Threads :
    /\ frame[t].at # "out" => frame[t].model \in Models
    /\ frame[t].at \in Inside => /\ owner[frame[t].model] = t
                                 /\ ~cached[frame[t].model]
                                 /\ frame[t].began <= Now(t)
    /\ frame[t].at \in {"derive", "publish"} => frame[t].model = "nli"
    /\ frame[t].at = "publish" => labels

LoadInv == LoadTypeOK /\ FramesHold /\ LabelsKnown

LEMMA ThreadsApart ==
  /\ Requests \subseteq Threads /\ Preloads \subseteq Threads
  /\ Requests \cap Preloads = {}
  /\ Preloads \subseteq Models
  /\ NoThread \notin Threads
  BY LoadingAssumption DEF Threads

LEMMA FrameFacts ==
  /\ Out \in FrameType /\ Out.at = "out"
  /\ \A m \in Models : /\ Called(m) \in FrameType
                       /\ Called(m).at = "lock" /\ Called(m).model = m
  /\ "none" \notin Models /\ "nli" \in Models
  /\ Inside \subseteq Places /\ {"out", "lock", "returned", "raised"} \subseteq Places
  /\ Inside \cap {"out", "lock", "returned", "raised"} = {}
  BY DEF Out, Called, FrameType, Models, Places, Inside

LEMMA LoadInitially == LoadInit => LoadInv
  <1> SUFFICES ASSUME LoadInit PROVE LoadInv
    OBVIOUS
  <1>1. \A t \in Threads : /\ frame[t] \in FrameType
                           /\ frame[t].at \in {"out", "lock"}
                           /\ frame[t].at # "out" => frame[t].model \in Models
    BY FrameFacts, ThreadsApart DEF LoadInit
  <1>2. LoadTypeOK
    <2>1. frame \in [Threads -> FrameType]
      BY <1>1 DEF LoadInit
    <2> QED BY <2>1 DEF LoadTypeOK, LoadInit, FrameType, NoCosts
  <1>3. FramesHold
    BY <1>1, FrameFacts DEF FramesHold
  <1> QED BY <1>2, <1>3 DEF LoadInv, LabelsKnown, LoadInit, Models

(* Time does not run backwards, and what is recorded is never taken back.  *)
LEMMA Timing ==
  ASSUME LoadTypeOK, NEW t \in Threads, NEW n \in Nat
  PROVE  /\ Now(t) \in Nat
         /\ Tick(t, n) \in [Requests -> Nat]
         /\ \A r \in Requests : Tick(t, n)[r] >= clock[r]
         /\ \A r \in Requests \ {t} : Tick(t, n)[r] = clock[r]
         /\ t \in Requests => Tick(t, n)[t] = Now(t) + n
  BY DEF LoadTypeOK, Now, Tick

LEMMA Recording ==
  ASSUME LoadTypeOK, NEW t \in Threads, NEW cost \in Nat, NEW key \in {"model_load", "rerank"}
  PROVE  /\ Recorded(t, key, cost) \in [Requests -> CostType]
         /\ \A r \in Requests :
              /\ Recorded(t, key, cost)[r].model_load >= costs[r].model_load
              /\ Recorded(t, key, cost)[r].rerank >= costs[r].rerank
         /\ \A r \in Requests \ {t} : Recorded(t, key, cost)[r] = costs[r]
  <1>1. CASE key = "model_load"
    BY <1>1 DEF LoadTypeOK, Recorded, CostType
  <1>2. CASE key = "rerank"
    BY <1>2 DEF LoadTypeOK, Recorded, CostType
  <1> QED BY <1>1, <1>2

(* What FramesHold says of one thread.                                     *)
FrameHolds(t) ==
  /\ frame[t].at # "out" => frame[t].model \in Models
  /\ frame[t].at \in Inside => /\ owner[frame[t].model] = t
                               /\ ~cached[frame[t].model]
                               /\ frame[t].began <= Now(t)
  /\ frame[t].at \in {"derive", "publish"} => frame[t].model = "nli"
  /\ frame[t].at = "publish" => labels

LEMMA FrameByFrame == FramesHold <=> \A t \in Threads : FrameHolds(t)
  BY DEF FramesHold, FrameHolds

(* A step of one thread at the model it is loading concerns no other's.    *)
LEMMA OthersStay ==
  ASSUME LoadInv, NEW t \in Threads, NEW m \in Models, owner[m] \in {t, NoThread},
         \A n \in Models \ {m} : owner'[n] = owner[n] /\ cached'[n] = cached[n],
         \A o \in Threads \ {t} : frame'[o] = frame[o],
         labels => labels',
         \A r \in Requests \ {t} : clock'[r] = clock[r]
  PROVE  \A o \in Threads \ {t} : FrameHolds(o)'
  <1> SUFFICES ASSUME NEW o \in Threads \ {t} PROVE FrameHolds(o)'
    OBVIOUS
  <1>1. FrameHolds(o)
    BY FrameByFrame DEF LoadInv
  <1>2. frame'[o] = frame[o]
    OBVIOUS
  <1>3. Now(o)' = Now(o)
    BY DEF Now
  <1>4. ASSUME frame[o].at \in Inside
        PROVE  /\ owner'[frame[o].model] = o
               /\ ~cached'[frame[o].model]
    <2>1. frame[o].model \in Models /\ frame[o].model # m
      BY <1>1, <1>4, ThreadsApart DEF FrameHolds, Inside
    <2> QED BY <1>1, <1>4, <2>1 DEF FrameHolds
  <1> QED BY <1>1, <1>2, <1>3, <1>4 DEF FrameHolds

(* What a step inside a loader leaves true and what it may change.         *)
Advanced(t) ==
  /\ LoadInv'
  /\ \A o \in Threads \ {t} : frame'[o] = frame[o]
  /\ \A r \in Requests : /\ clock'[r] >= clock[r]
                         /\ costs'[r].model_load >= costs[r].model_load
                         /\ costs'[r].rerank >= costs[r].rerank
  /\ preload' = preload
  /\ t \notin Requests => clock' = clock
  /\ frame[t].at \in {"lock"} \cup Inside

(* The lock is asked for.                                                  *)
LEMMA AcquireAdvances ==
  ASSUME LoadInv, NEW t \in Threads, Acquire(t)
  PROVE  Advanced(t)
  <1> DEFINE m == frame[t].model
  <1>1. m \in Models /\ frame[t] \in FrameType /\ FrameHolds(t)
    BY FrameByFrame DEF LoadInv, Acquire, Holds, FrameHolds, LoadTypeOK, FrameType
  <1>2. PICK f \in FrameType : /\ frame' = [frame EXCEPT ![t] = f] /\ f.model = m
                               /\ \/ f.at = "returned" /\ owner' = owner
                                  \/ /\ f.at = "cache" /\ f.began = Now(t) /\ ~cached[m]
                                     /\ owner' = [owner EXCEPT ![m] = t]
    <2>1. CASE cached[m]
      <3>1. [frame[t] EXCEPT !.at = "returned"] \in FrameType
        BY <1>1, FrameFacts DEF FrameType
      <3> QED BY <2>1, <3>1 DEF Acquire, FrameType, LoadInv, LoadTypeOK
    <2>2. CASE ~cached[m]
      <3>1. [frame[t] EXCEPT !.at = "cache", !.began = Now(t)] \in FrameType
        BY <1>1, Timing DEF FrameType, LoadInv, Places, Inside
      <3>2. frame' = [frame EXCEPT ![t] = [frame[t] EXCEPT !.at = "cache", !.began = Now(t)]]
        BY <2>2 DEF Acquire, LoadInv, LoadTypeOK
      <3> QED BY <2>2, <3>1, <3>2 DEF Acquire, FrameType
    <2> QED BY <2>1, <2>2
  <1>3. /\ owner[m] = NoThread
        /\ UNCHANGED <<cached, labels, preload, clock, costs>>
    BY DEF Acquire
  <1>4. LoadTypeOK'
    <2>1. owner' \in [Models -> Threads \cup {NoThread}]
      BY <1>1, <1>2 DEF LoadInv, LoadTypeOK
    <2>2. frame' \in [Threads -> FrameType]
      BY <1>2 DEF LoadInv, LoadTypeOK, FrameType
    <2> QED BY <1>3, <2>1, <2>2 DEF LoadInv, LoadTypeOK, FrameType
  <1>5. /\ \A n \in Models \ {m} : owner'[n] = owner[n] /\ cached'[n] = cached[n]
        /\ \A o \in Threads \ {t} : frame'[o] = frame[o]
        /\ \A r \in Requests \ {t} : clock'[r] = clock[r]
    BY <1>1, <1>2, <1>3 DEF LoadInv, LoadTypeOK
  <1>6. \A o \in Threads \ {t} : FrameHolds(o)'
    BY <1>1, <1>3, <1>5, OthersStay
  <1>7. FrameHolds(t)'
    <2>1. frame'[t] = f
      BY <1>2 DEF LoadInv, LoadTypeOK
    <2>2. CASE f.at = "returned"
      BY <1>1, <1>2, <2>1, <2>2 DEF FrameHolds, Inside
    <2>3. CASE f.at = "cache"
      <3>1. owner'[m] = t
        BY <1>1, <1>2, <2>3 DEF LoadInv, LoadTypeOK
      <3>2. ~cached'[m]
        BY <1>2, <1>3, <2>3
      <3>3. f.began = Now(t)' /\ Now(t)' \in Nat
        BY <1>2, <1>3, <2>3, Timing DEF Now, LoadInv
      <3> QED BY <1>1, <1>2, <2>1, <2>3, <3>1, <3>2, <3>3 DEF FrameHolds
    <2> QED BY <1>2, <2>2, <2>3
  <1>8. FramesHold'
    BY <1>6, <1>7 DEF FramesHold, FrameHolds
  <1>9. LabelsKnown'
    BY <1>3 DEF LoadInv, LabelsKnown
  <1> QED BY <1>3, <1>4, <1>5, <1>8, <1>9 DEF Advanced, LoadInv, Acquire, Holds, LoadTypeOK

(* A step inside a load: it goes on with the lock, or gives it back.       *)
LEMMA InsideAdvances ==
  ASSUME LoadInv, NEW t \in Threads, frame[t].at \in Inside, NEW f \in FrameType,
         frame' = [frame EXCEPT ![t] = f], f.model = frame[t].model,
         \/ /\ f.at \in Inside /\ f.began = frame[t].began
            /\ owner' = owner /\ cached' = cached
         \/ /\ f.at \in {"returned", "raised"}
            /\ owner' = [owner EXCEPT ![frame[t].model] = NoThread]
            /\ cached' = cached \/ cached' = [cached EXCEPT ![frame[t].model] = TRUE],
         f.at \in {"derive", "publish"} => f.model = "nli",
         f.at = "publish" => labels',
         labels' \in BOOLEAN, labels => labels',
         cached' # cached /\ f.model = "nli" => labels',
         clock' = clock \/ clock' = Tick(t, 1),
         costs' \in [Requests -> CostType],
         \A r \in Requests : /\ costs'[r].model_load >= costs[r].model_load
                             /\ costs'[r].rerank >= costs[r].rerank,
         preload' = preload
  PROVE  Advanced(t)
  <1> DEFINE m == frame[t].model
  <1>1. FrameHolds(t) /\ m \in Models /\ owner[m] = t
    BY FrameByFrame, FrameFacts DEF LoadInv, FrameHolds
  <1>2. /\ clock' \in [Requests -> Nat]
        /\ \A r \in Requests : clock'[r] >= clock[r]
        /\ \A r \in Requests \ {t} : clock'[r] = clock[r]
        /\ t \notin Requests => clock' = clock
    <2>1. CASE clock' = clock
      BY <2>1 DEF LoadInv, LoadTypeOK
    <2>2. CASE clock' = Tick(t, 1)
      <3>1. LoadTypeOK /\ 1 \in Nat
        BY DEF LoadInv
      <3>2. t \notin Requests => Tick(t, 1) = clock
        BY DEF Tick
      <3> QED BY <2>2, <3>1, <3>2, Timing
    <2> QED BY <2>1, <2>2
  <1>3. Now(t)' >= Now(t) /\ Now(t) \in Nat /\ Now(t)' \in Nat
    BY <1>2 DEF Now, LoadInv, LoadTypeOK
  <1>4. LoadTypeOK'
    <2>1. owner' \in [Models -> Threads \cup {NoThread}]
      BY <1>1 DEF LoadInv, LoadTypeOK
    <2>2. frame' \in [Threads -> FrameType]
      BY DEF LoadInv, LoadTypeOK, FrameType
    <2>3. cached' \in [Models -> BOOLEAN]
      BY <1>1 DEF LoadInv, LoadTypeOK
    <2> QED BY <1>2, <2>1, <2>2, <2>3 DEF LoadInv, LoadTypeOK, FrameType, CostType
  <1>5. /\ \A n \in Models \ {m} : owner'[n] = owner[n] /\ cached'[n] = cached[n]
        /\ \A o \in Threads \ {t} : frame'[o] = frame[o]
    BY <1>1 DEF LoadInv, LoadTypeOK
  <1>6. \A o \in Threads \ {t} : FrameHolds(o)'
    BY <1>1, <1>2, <1>5, OthersStay
  <1>7. FrameHolds(t)'
    <2>1. frame'[t] = f
      BY DEF LoadInv, LoadTypeOK
    <2>2. CASE f.at \in Inside
      <3>1. f.began <= Now(t)'
        BY <1>1, <1>3, <2>2, FrameFacts DEF FrameHolds, FrameType
      <3> QED BY <1>1, <2>1, <2>2, <3>1, FrameFacts DEF FrameHolds
    <2>3. CASE f.at \notin Inside
      BY <1>1, <2>1, <2>3, FrameFacts DEF FrameHolds, Inside
    <2> QED BY <2>2, <2>3
  <1>8. FramesHold'
    BY <1>6, <1>7 DEF FramesHold, FrameHolds
  <1>9. LabelsKnown'
    <2>1. CASE cached' = cached
      BY <2>1 DEF LoadInv, LabelsKnown
    <2>2. CASE m = "nli" /\ cached' # cached
      BY <2>2 DEF LabelsKnown
    <2>3. CASE m # "nli" /\ cached' # cached
      BY <1>1, <2>3, FrameFacts DEF LoadInv, LoadTypeOK, LabelsKnown
    <2> QED BY <2>1, <2>2, <2>3
  <1> QED BY <1>2, <1>4, <1>5, <1>8, <1>9 DEF Advanced, LoadInv

(* The end of a load, as far as the frame and the costs are concerned.     *)
LEMMA Leaving ==
  ASSUME LoadInv, NEW t \in Threads, frame[t].at \in Inside,
         NEW place \in {"returned", "raised"}, NEW taken \in Nat, Leave(t, place, taken)
  PROVE  \E f \in FrameType :
           /\ frame' = [frame EXCEPT ![t] = f]
           /\ f.model = frame[t].model /\ f.at = place
           /\ owner' = [owner EXCEPT ![frame[t].model] = NoThread]
           /\ costs' \in [Requests -> CostType]
           /\ \A r \in Requests : /\ costs'[r].model_load >= costs[r].model_load
                                  /\ costs'[r].rerank >= costs[r].rerank
  <1> DEFINE f == [frame[t] EXCEPT !.at = place]
  <1>1. f \in FrameType /\ f.model = frame[t].model /\ f.at = place
    BY FrameFacts DEF LoadInv, LoadTypeOK, FrameType
  <1>2. frame' = [frame EXCEPT ![t] = f]
    BY DEF Leave, LoadInv, LoadTypeOK
  <1>3. frame[t].began <= Now(t) /\ frame[t].began \in Nat /\ Now(t) \in Nat
    BY Timing DEF LoadInv, LoadTypeOK, FramesHold
  <1>4. Now(t) + taken - frame[t].began \in Nat
    BY <1>3
  <1>5. costs' = Recorded(t, "model_load", Now(t) + taken - frame[t].began)
    BY DEF Leave
  <1>6. LoadTypeOK
    BY DEF LoadInv
  <1>7. /\ costs' \in [Requests -> CostType]
        /\ \A r \in Requests : /\ costs'[r].model_load >= costs[r].model_load
                               /\ costs'[r].rerank >= costs[r].rerank
    BY <1>4, <1>5, <1>6, Recording
  <1> QED BY <1>1, <1>2, <1>7 DEF Leave

LEMMA SameCosts ==
  ASSUME LoadInv, costs' = costs
  PROVE  /\ costs' \in [Requests -> CostType]
         /\ \A r \in Requests : /\ costs'[r].model_load >= costs[r].model_load
                                /\ costs'[r].rerank >= costs[r].rerank
  BY DEF LoadInv, LoadTypeOK, CostType

LEMMA ConstructedAdvances ==
  ASSUME LoadInv, NEW t \in Threads, frame[t].at \in {"cache", "network"}, Constructed(t),
         UNCHANGED <<labels, preload>>
  PROVE  Advanced(t)
  <1>1. frame[t].at \in Inside /\ frame[t] \in FrameType /\ labels \in BOOLEAN
    BY DEF Inside, LoadInv, LoadTypeOK, FrameType
  <1>2. CASE frame[t].model = "nli"
    <2> DEFINE f == [frame[t] EXCEPT !.at = "derive"]
    <2>1. f \in FrameType /\ f.at = "derive" /\ f.model = "nli" /\ f.began = frame[t].began
      BY <1>1, <1>2 DEF FrameType, Places, Inside
    <2>2. /\ frame' = [frame EXCEPT ![t] = f]
          /\ UNCHANGED <<owner, cached, costs>> /\ clock' = Tick(t, 1)
      BY <1>2 DEF Constructed, LoadInv, LoadTypeOK
    <2>3. f.at \in Inside
      BY <2>1 DEF Inside
    <2> HIDE DEF f
    <2> QED BY <1>1, <1>2, <2>1, <2>2, <2>3, SameCosts, InsideAdvances
  <1>3. CASE frame[t].model # "nli"
    <2>1. /\ cached' = [cached EXCEPT ![frame[t].model] = TRUE]
          /\ Leave(t, "returned", 1) /\ clock' = Tick(t, 1)
      BY <1>3 DEF Constructed
    <2>2. PICK f \in FrameType :
           /\ frame' = [frame EXCEPT ![t] = f]
           /\ f.model = frame[t].model /\ f.at = "returned"
           /\ owner' = [owner EXCEPT ![frame[t].model] = NoThread]
           /\ costs' \in [Requests -> CostType]
           /\ \A r \in Requests : /\ costs'[r].model_load >= costs[r].model_load
                                  /\ costs'[r].rerank >= costs[r].rerank
      BY <1>1, <2>1, Leaving
    <2> QED BY <1>1, <1>3, <2>1, <2>2, InsideAdvances
  <1> QED BY <1>2, <1>3

LEMMA RaisedAdvances ==
  ASSUME LoadInv, NEW t \in Threads, frame[t].at \in Inside, NEW taken \in Nat,
         Leave(t, "raised", taken), UNCHANGED <<cached, labels, preload>>,
         clock' = clock \/ clock' = Tick(t, 1)
  PROVE  Advanced(t)
  <1>1. PICK f \in FrameType :
         /\ frame' = [frame EXCEPT ![t] = f]
         /\ f.model = frame[t].model /\ f.at = "raised"
         /\ owner' = [owner EXCEPT ![frame[t].model] = NoThread]
         /\ costs' \in [Requests -> CostType]
         /\ \A r \in Requests : /\ costs'[r].model_load >= costs[r].model_load
                                /\ costs'[r].rerank >= costs[r].rerank
    BY Leaving
  <1>2. labels \in BOOLEAN
    BY DEF LoadInv, LoadTypeOK
  <1> QED BY <1>1, <1>2, InsideAdvances

(* Every step inside a loader.                                             *)
LEMMA LoadAdvances ==
  ASSUME LoadInv, NEW t \in Threads, Load(t)
  PROVE  Advanced(t)
  <1>1. CASE Acquire(t)
    BY <1>1, AcquireAdvances
  <1>2. CASE FromCache(t)
    <2>1. CASE Constructed(t)
      BY <1>2, <2>1, ConstructedAdvances DEF FromCache, Holds
    <2>2. CASE ~Constructed(t)
      <3> DEFINE f == [frame[t] EXCEPT !.at = "network"]
      <3>1. f \in FrameType /\ f.at = "network" /\ f.model = frame[t].model
                            /\ f.began = frame[t].began
        BY DEF FrameType, Places, Inside, LoadInv, LoadTypeOK
      <3>2. /\ frame' = [frame EXCEPT ![t] = f]
            /\ UNCHANGED <<owner, cached, costs, clock, labels, preload>>
            /\ frame[t].at = "cache"
        BY <1>2, <2>2 DEF FromCache, Holds, LoadInv, LoadTypeOK
      <3>3. frame[t].at \in Inside /\ f.at \in Inside /\ labels \in BOOLEAN
        BY <3>1, <3>2 DEF Inside, LoadInv, LoadTypeOK
      <3> HIDE DEF f
      <3> QED BY <3>1, <3>2, <3>3, SameCosts, InsideAdvances
    <2> QED BY <2>1, <2>2
  <1>3. CASE FromNetwork(t)
    <2>1. frame[t].at = "network" /\ frame[t].at \in Inside /\ UNCHANGED <<labels, preload>>
      BY <1>3 DEF FromNetwork, Holds, Inside
    <2>2. CASE Constructed(t)
      BY <2>1, <2>2, ConstructedAdvances
    <2>3. CASE ~Constructed(t)
      <3>1. Leave(t, "raised", 1) /\ clock' = Tick(t, 1) /\ cached' = cached
        BY <1>3, <2>3 DEF FromNetwork
      <3> QED BY <2>1, <3>1, RaisedAdvances
    <2> QED BY <2>2, <2>3
  <1>4. CASE Derive(t)
    <2>1. /\ frame[t].at = "derive" /\ frame[t].at \in Inside
          /\ UNCHANGED <<cached, preload, clock>>
      BY <1>4 DEF Derive, Holds, Inside
    <2>2. CASE labels' = TRUE /\ frame' = [frame EXCEPT ![t].at = "publish"]
                              /\ UNCHANGED <<owner, costs>>
      <3> DEFINE f == [frame[t] EXCEPT !.at = "publish"]
      <3>1. f \in FrameType /\ f.at = "publish" /\ f.model = frame[t].model
                            /\ f.began = frame[t].began
        BY DEF FrameType, Places, Inside, LoadInv, LoadTypeOK
      <3>2. frame' = [frame EXCEPT ![t] = f] /\ f.at \in Inside
        BY <2>2, <3>1 DEF Inside, LoadInv, LoadTypeOK
      <3>3. frame[t].model = "nli"
        BY <2>1 DEF LoadInv, FramesHold
      <3> HIDE DEF f
      <3> QED BY <2>1, <2>2, <3>1, <3>2, <3>3, SameCosts, InsideAdvances
    <2>3. CASE Leave(t, "raised", 0) /\ UNCHANGED labels
      BY <2>1, <2>3, RaisedAdvances
    <2> QED BY <1>4, <2>2, <2>3 DEF Derive
  <1>5. CASE Publish(t)
    <2>1. /\ frame[t].at = "publish" /\ frame[t].at \in Inside
          /\ UNCHANGED <<labels, preload, clock>>
          /\ Leave(t, "returned", 0) /\ cached' = [cached EXCEPT !["nli"] = TRUE]
      BY <1>5 DEF Publish, Holds, Inside
    <2>2. frame[t].model = "nli" /\ labels
      BY <2>1 DEF LoadInv, FramesHold
    <2>3. PICK f \in FrameType :
           /\ frame' = [frame EXCEPT ![t] = f]
           /\ f.model = frame[t].model /\ f.at = "returned"
           /\ owner' = [owner EXCEPT ![frame[t].model] = NoThread]
           /\ costs' \in [Requests -> CostType]
           /\ \A r \in Requests : /\ costs'[r].model_load >= costs[r].model_load
                                  /\ costs'[r].rerank >= costs[r].rerank
      BY <2>1, Leaving
    <2> QED BY <2>1, <2>2, <2>3, InsideAdvances DEF LoadInv, LoadTypeOK
  <1> QED BY <1>1, <1>2, <1>3, <1>4, <1>5 DEF Load

(* The preload thread is done with its loader.                             *)
LEMMA WarmKeeps ==
  ASSUME LoadInv, NEW m \in Preloads, Warm(m)
  PROVE  /\ LoadInv'
         /\ UNCHANGED <<clock, costs>>
         /\ \A r \in Requests : frame'[r] = frame[r]
  <1>1. /\ m \in Threads /\ m \notin Requests
        /\ frame' = [frame EXCEPT ![m] = Out]
        /\ UNCHANGED <<owner, cached, labels, clock, costs>>
    BY ThreadsApart DEF Warm
  <1>2. preload' \in [Preloads -> {"load", "warm", "done"}]
    BY DEF Warm, LoadInv, LoadTypeOK
  <1>3. LoadTypeOK'
    BY <1>1, <1>2, FrameFacts DEF LoadInv, LoadTypeOK, FrameType
  <1>4. \A t \in Threads \ {m} : frame'[t] = frame[t]
    BY <1>1 DEF LoadInv, LoadTypeOK
  <1>5. frame'[m] = Out
    BY <1>1 DEF LoadInv, LoadTypeOK
  <1>6. FramesHold'
    <2> SUFFICES ASSUME NEW t \in Threads PROVE FrameHolds(t)'
      BY DEF FramesHold, FrameHolds
    <2>1. CASE t = m
      BY <1>5, <2>1, FrameFacts DEF FrameHolds, Inside
    <2>2. CASE t # m
      <3>1. FrameHolds(t)
        BY FrameByFrame DEF LoadInv
      <3> QED BY <1>1, <1>4, <2>2, <3>1 DEF FrameHolds, Now
    <2> QED BY <2>1, <2>2
  <1> QED BY <1>1, <1>3, <1>4, <1>6, ThreadsApart DEF LoadInv, LabelsKnown

(* A request that is in no loader may call one, or wait for nothing.       *)
LEMMA CallerKeeps ==
  ASSUME LoadInv, NEW r \in Requests, NEW f \in FrameType,
         frame[r].at \notin Inside, f.at \notin Inside, f.at # "out" => f.model \in Models,
         frame' = [frame EXCEPT ![r] = f],
         UNCHANGED <<owner, cached, labels, preload>>,
         clock' \in [Requests -> Nat], costs' \in [Requests -> CostType],
         \A o \in Requests \ {r} : clock'[o] = clock[o]
  PROVE  LoadInv'
  <1>1. r \in Threads
    BY ThreadsApart
  <1>2. LoadTypeOK'
    BY <1>1 DEF LoadInv, LoadTypeOK, FrameType, CostType
  <1>3. FramesHold'
    <2> SUFFICES ASSUME NEW t \in Threads PROVE FrameHolds(t)'
      BY DEF FramesHold, FrameHolds
    <2>1. CASE t = r
      <3>1. frame'[t] = f
        BY <1>1, <2>1 DEF LoadInv, LoadTypeOK
      <3> QED BY <3>1 DEF FrameHolds, Inside
    <2>2. CASE t # r
      <3>1. FrameHolds(t)
        BY FrameByFrame DEF LoadInv
      <3>2. frame'[t] = frame[t] /\ Now(t)' = Now(t)
        BY <2>2 DEF LoadInv, LoadTypeOK, Now
      <3> QED BY <3>1, <3>2 DEF FrameHolds
    <2> QED BY <2>1, <2>2
  <1> QED BY <1>2, <1>3 DEF LoadInv, LabelsKnown
-----------------------------------------------------------------------------
(* The requests *)

ReqType ==
  [route : {"none", "answer", "fact", "stream"},
   pc : {"new", "embed", "resolve", "rerank", "retrieved", "generate", "verify",
         "score", "scored", "respond", "done"},
   before : CostType,
   latency : [Keys -> Nat], spent : [Keys -> Nat], attempts : 0 .. MaxAttempts - 1,
   last : Replies \cup {"nothing"}, futile : BOOLEAN,
   outcome : Outcomes \cup {NoOutcome, Verdict}]

\* The places in a request's code that call a loader.
Calling == {"embed", "resolve", "score"}

(* A request is in a loader only where its code calls one, and nothing it  *)
(* has recorded is less than what the open stage's snapshot says.          *)
RequestHolds(r) ==
  /\ frame[r].at # "out" => req[r].pc \in Calling
  /\ req[r].before.model_load <= costs[r].model_load
  /\ req[r].before.rerank <= costs[r].rerank
  /\ req[r].pc = "new" => req[r].before = NoCosts

ServingInv ==
  /\ LoadInv
  /\ provider \in Deployments \cup {"open"}
  /\ reranker \in BOOLEAN
  /\ req \in [Requests -> ReqType]
  /\ \A r \in Requests : RequestHolds(r)

LEMMA RequestFacts ==
  /\ Nothing \in [Keys -> Nat]
  /\ NoCosts \in CostType /\ NoCosts.model_load = 0 /\ NoCosts.rerank = 0
  /\ New \in ReqType /\ New.before = NoCosts
  /\ Exception \in Outcomes
  /\ 0 \in 0 .. MaxAttempts - 1
  <1>1. Nothing \in [Keys -> Nat]
    BY DEF Nothing
  <1>2. NoCosts \in CostType /\ NoCosts.model_load = 0 /\ NoCosts.rerank = 0
    BY DEF NoCosts, CostType
  <1>3. 0 \in 0 .. MaxAttempts - 1
    BY ServingAssumption
  <1>4. New \in ReqType /\ New.before = NoCosts
    BY <1>1, <1>2, <1>3 DEF New, ReqType
  <1> QED BY <1>1, <1>2, <1>3, <1>4 DEF Exception, Outcomes

LEMMA Initially == ServingInit => ServingInv
  <1> SUFFICES ASSUME ServingInit PROVE ServingInv
    OBVIOUS
  <1>1. LoadInv
    BY LoadInitially DEF ServingInit
  <1>2. \A r \in Requests : RequestHolds(r)
    <2> SUFFICES ASSUME NEW r \in Requests PROVE RequestHolds(r)
      OBVIOUS
    <2>1. r \in Threads /\ r \notin Preloads
      BY ThreadsApart
    <2>2. frame[r] = Out /\ costs[r] = NoCosts /\ req[r] = New
      BY <2>1 DEF ServingInit, LoadInit
    <2> QED BY <2>2, FrameFacts, RequestFacts DEF RequestHolds
  <1> QED BY <1>1, <1>2, RequestFacts DEF ServingInit, ServingInv

(* What a request's own step has to respect.                               *)
LEMMA RequestStep ==
  ASSUME ServingInv, NEW r \in Requests, NEW f \in FrameType, NEW q \in ReqType,
         frame[r].at \notin Inside, f.at \notin Inside, f.at # "out" => f.model \in Models,
         frame' = [frame EXCEPT ![r] = f],
         req' = [req EXCEPT ![r] = q],
         UNCHANGED <<owner, cached, labels, preload>>,
         clock' \in [Requests -> Nat], \A o \in Requests \ {r} : clock'[o] = clock[o],
         costs' \in [Requests -> CostType], \A o \in Requests \ {r} : costs'[o] = costs[o],
         provider' \in Deployments \cup {"open"}, reranker' \in BOOLEAN,
         f.at # "out" => q.pc \in Calling,
         q.pc # "new",
         q.before.model_load <= costs'[r].model_load,
         q.before.rerank <= costs'[r].rerank
  PROVE  ServingInv'
  <1>1. LoadInv'
    BY CallerKeeps DEF ServingInv
  <1>2. req' \in [Requests -> ReqType]
    BY DEF ServingInv
  <1>3. \A o \in Requests : RequestHolds(o)'
    <2> SUFFICES ASSUME NEW o \in Requests PROVE RequestHolds(o)'
      OBVIOUS
    <2>0. o \in Threads
      BY ThreadsApart
    <2>1. CASE o = r
      <3>1. frame'[o] = f /\ req'[o] = q
        BY <2>0, <2>1 DEF ServingInv, LoadInv, LoadTypeOK
      <3> QED BY <2>1, <3>1 DEF RequestHolds
    <2>2. CASE o # r
      <3>1. frame'[o] = frame[o] /\ req'[o] = req[o] /\ costs'[o] = costs[o]
        BY <2>0, <2>2 DEF ServingInv, LoadInv, LoadTypeOK
      <3>2. RequestHolds(o)
        BY DEF ServingInv
      <3> QED BY <3>1, <3>2 DEF RequestHolds
    <2> QED BY <2>1, <2>2
  <1> QED BY <1>1, <1>2, <1>3 DEF ServingInv

(* What is known of a request and its frame.                               *)
LEMMA RequestKnown ==
  ASSUME ServingInv, NEW r \in Requests
  PROVE  /\ r \in Threads /\ frame[r] \in FrameType /\ FrameHolds(r)
         /\ frame[r].at \in Places
         /\ req[r] \in ReqType /\ costs[r] \in CostType /\ clock[r] \in Nat
         /\ RequestHolds(r)
         /\ frame = [frame EXCEPT ![r] = frame[r]]
         /\ clock \in [Requests -> Nat] /\ costs \in [Requests -> CostType]
         /\ req[r].pc \notin Calling => frame[r].at = "out"
  BY ThreadsApart, FrameByFrame
  DEF ServingInv, LoadInv, LoadTypeOK, FrameType, CostType, RequestHolds

(* A stage reports no negative time.                                       *)
LEMMA StagedType ==
  ASSUME ServingInv, NEW r \in Requests, NEW name \in Keys,
         NEW nested \in SUBSET {"rerank", "model_load"}, NEW total \in Nat
  PROVE  Staged(r, name, nested, total) \in [Keys -> Nat]
  <1> DEFINE incurred(k) == costs[r][k] - req[r].before[k]
  <1>1. incurred("rerank") \in Nat /\ incurred("model_load") \in Nat
    BY RequestKnown DEF RequestHolds, ReqType, CostType
  <1>2. req[r].latency \in [Keys -> Nat]
    BY RequestKnown DEF ReqType
  <1> DEFINE own == total - (IF "rerank" \in nested THEN incurred("rerank") ELSE 0)
                          - (IF "model_load" \in nested THEN incurred("model_load") ELSE 0)
  <1>3. own \in Int
    <2>1. \A a, b \in Nat : (total - a) - b \in Int
      OBVIOUS
    <2>2. /\ (IF "rerank" \in nested THEN incurred("rerank") ELSE 0) \in Nat
          /\ (IF "model_load" \in nested THEN incurred("model_load") ELSE 0) \in Nat
      BY <1>1
    <2> HIDE DEF incurred
    <2> QED BY <2>1, <2>2
  <1>4. \A k \in nested : incurred(k) \in Nat
    BY <1>1
  <1>5. Staged(r, name, nested, total) =
          [k \in Keys |-> IF k \in nested THEN req[r].latency[k] + incurred(k)
                          ELSE IF k = name THEN (IF own < 0 THEN 0 ELSE own)
                          ELSE req[r].latency[k]]
    BY DEF Staged
  <1> HIDE DEF incurred, own
  <1>6. (IF own < 0 THEN 0 ELSE own) \in Nat
    BY <1>3
  <1> QED BY <1>2, <1>4, <1>5, <1>6

(* A request that ends with an exception keeps its types.                  *)
LEMMA EndedType ==
  ASSUME ServingInv, NEW r \in Requests, NEW outcome \in Outcomes,
         NEW last \in Replies \cup {"nothing"}, NEW futile \in BOOLEAN
  PROVE  \E q \in ReqType : /\ q.pc = "respond" /\ q.before = NoCosts
                            /\ Ended(r, outcome, last, futile) = [req EXCEPT ![r] = q]
  <1> DEFINE q == [New EXCEPT !.route = req[r].route, !.pc = "respond", !.last = last,
                              !.futile = futile, !.outcome = outcome]
  <1>1. New \in ReqType /\ New.before = NoCosts /\ req[r] \in ReqType
    BY RequestFacts, RequestKnown
  <1>2. q \in ReqType /\ q.pc = "respond" /\ q.before = NoCosts
    BY <1>1 DEF ReqType
  <1> QED BY <1>2 DEF Ended

LEMMA BrokenType ==
  ASSUME ServingInv, NEW r \in Requests
  PROVE  \E q \in ReqType : /\ q.pc = "respond" /\ q.before = NoCosts
                            /\ Broken(r) = [req EXCEPT ![r] = q]
  <1> DEFINE q == [New EXCEPT !.route = req[r].route, !.pc = "respond", !.last = req[r].last,
                              !.futile = req[r].futile, !.outcome = Exception]
  <1>1. /\ New \in ReqType /\ New.before = NoCosts /\ req[r] \in ReqType
        /\ Exception \in Outcomes
    BY RequestFacts, RequestKnown
  <1>2. q \in ReqType /\ q.pc = "respond" /\ q.before = NoCosts
    BY <1>1 DEF ReqType
  <1> QED BY <1>2 DEF Broken, Ended

LEMMA SnapshotFacts ==
  ASSUME ServingInv, NEW r \in Requests
  PROVE  /\ NoCosts.model_load <= costs[r].model_load
         /\ NoCosts.rerank <= costs[r].rerank
         /\ req[r].before.model_load <= costs[r].model_load
         /\ req[r].before.rerank <= costs[r].rerank
         /\ costs[r].model_load <= costs[r].model_load
         /\ costs[r].rerank <= costs[r].rerank
  BY RequestFacts, RequestKnown DEF RequestHolds, CostType

LEMMA ArriveKeeps ==
  ASSUME ServingInv, NEW r \in Requests, NEW route \in Routes[r], Arrive(r, route)
  PROVE  ServingInv'
  <1> DEFINE q == [req[r] EXCEPT !.route = route, !.pc = "embed"]
  <1>1. route \in {"answer", "fact", "stream"}
    BY ServingAssumption
  <1>2. req[r] \in ReqType /\ req[r].pc = "new" /\ req[r].before = NoCosts
    BY RequestKnown DEF Arrive, At, RequestHolds
  <1>3. frame[r].at \notin Inside
    BY <1>2, RequestKnown DEF Calling, Inside
  <1>4. q \in ReqType /\ q.pc = "embed" /\ q.before = NoCosts
    BY <1>1, <1>2 DEF ReqType
  <1>5. req' = [req EXCEPT ![r] = q]
    BY DEF Arrive, ServingInv
  <1>6. /\ costs' \in [Requests -> CostType]
        /\ \A o \in Requests \ {r} : costs'[o] = costs[o]
        /\ costs'[r].model_load = 0 /\ costs'[r].rerank = 0
    BY RequestKnown DEF Arrive, NoCosts, CostType
  <1>7. /\ Called("embedding") \in FrameType /\ Called("embedding").at = "lock"
        /\ Called("embedding").model \in Models
        /\ Called("embedding").at \notin Inside
    BY FrameFacts DEF Models
  <1>8. /\ frame' = [frame EXCEPT ![r] = Called("embedding")]
        /\ UNCHANGED <<owner, cached, labels, preload, clock, provider, reranker>>
    BY DEF Arrive
  <1>9. NoCosts.model_load <= costs'[r].model_load /\ NoCosts.rerank <= costs'[r].rerank
    BY <1>6, RequestFacts
  <1>10. q.pc \in Calling /\ q.pc # "new"
    BY <1>4 DEF Calling
  <1>11. provider' \in Deployments \cup {"open"} /\ reranker' \in BOOLEAN
    BY <1>8 DEF ServingInv
  <1> HIDE DEF q
  <1> QED BY <1>3, <1>4, <1>5, <1>6, <1>7, <1>8, <1>9, <1>10, <1>11, RequestKnown, RequestStep

LEMMA LoadingKeeps ==
  ASSUME ServingInv, NEW r \in Requests, Loading(r)
  PROVE  ServingInv'
  <1>1. LoadInv /\ r \in Threads /\ Load(r)
    BY ThreadsApart DEF ServingInv, Loading
  <1>2. Advanced(r)
    BY <1>1, LoadAdvances
  <1> DEFINE n == req[r].spent["model_load"] + clock'[r] - clock[r]
             q == [req[r] EXCEPT !.spent["model_load"] = @ + clock'[r] - clock[r]]
  <1>3. clock' \in [Requests -> Nat]
    BY <1>2 DEF Advanced, LoadInv, LoadTypeOK
  <1>4. req[r] \in ReqType /\ req[r].spent \in [Keys -> Nat] /\ "model_load" \in Keys
    BY RequestKnown DEF ReqType, Keys
  <1>5. n \in Nat
    BY <1>2, <1>3, <1>4, RequestKnown DEF Advanced
  <1>6. q \in ReqType /\ q.pc = req[r].pc /\ q.before = req[r].before
    <2>1. q = [req[r] EXCEPT !.spent = [req[r].spent EXCEPT !["model_load"] = n]]
      OBVIOUS
    <2>2. [req[r].spent EXCEPT !["model_load"] = n] \in [Keys -> Nat]
      BY <1>4, <1>5
    <2> HIDE DEF n, q
    <2> QED BY <1>4, <2>1, <2>2 DEF ReqType
  <1>7. req' = [req EXCEPT ![r] = q]
    BY DEF Loading, ServingInv
  <1> HIDE DEF q, n
  <1>8. req' \in [Requests -> ReqType]
    BY <1>6, <1>7 DEF ServingInv
  <1>9. req[r].pc \in Calling
    BY <1>2, RequestKnown DEF Advanced, Inside
  <1>10. \A o \in Requests : RequestHolds(o)'
    <2> SUFFICES ASSUME NEW o \in Requests PROVE RequestHolds(o)'
      OBVIOUS
    <2>1. /\ req'[o].before = req[o].before /\ req'[o].pc = req[o].pc
          /\ o # r => frame'[o] = frame[o]
      BY <1>2, <1>6, <1>7, ThreadsApart DEF Advanced, ServingInv
    <2>2. /\ req[o].before.model_load <= costs[o].model_load
          /\ req[o].before.rerank <= costs[o].rerank
          /\ req[o].before \in CostType /\ costs[o] \in CostType
      BY RequestKnown DEF RequestHolds, ReqType
    <2>3. costs'[o] \in CostType
      BY <1>2 DEF Advanced, LoadInv, LoadTypeOK, CostType
    <2>4. /\ req[o].before.model_load <= costs'[o].model_load
          /\ req[o].before.rerank <= costs'[o].rerank
      BY <1>2, <2>2, <2>3 DEF Advanced, CostType
    <2>5. frame[o].at # "out" => req[o].pc \in Calling
      BY RequestKnown DEF RequestHolds
    <2>6. req[o].pc = "new" => req[o].before = NoCosts
      BY RequestKnown DEF RequestHolds
    <2> QED BY <1>9, <2>1, <2>4, <2>5, <2>6 DEF RequestHolds
  <1> QED BY <1>2, <1>8, <1>10 DEF Loading, Advanced, ServingInv

(* RequestStep for a request that leaves its loader, or was in none.       *)
LEMMA StepOut ==
  ASSUME ServingInv, NEW r \in Requests, NEW q \in ReqType,
         frame[r].at \notin Inside,
         frame' = [frame EXCEPT ![r] = Out],
         req' = [req EXCEPT ![r] = q],
         UNCHANGED <<owner, cached, labels, preload>>,
         clock' \in [Requests -> Nat], \A o \in Requests \ {r} : clock'[o] = clock[o],
         costs' \in [Requests -> CostType], \A o \in Requests \ {r} : costs'[o] = costs[o],
         provider' \in Deployments \cup {"open"}, reranker' \in BOOLEAN,
         q.pc # "new",
         q.before.model_load <= costs'[r].model_load,
         q.before.rerank <= costs'[r].rerank
  PROVE  ServingInv'
  <1>1. Out \in FrameType /\ Out.at = "out" /\ Out.at \notin Inside
    BY FrameFacts DEF Inside
  <1> QED BY <1>1, RequestStep

LEMMA StillOut ==
  ASSUME ServingInv, NEW r \in Requests, req[r].pc \notin Calling
  PROVE  /\ frame[r] \in FrameType
         /\ frame[r].at = "out" /\ frame[r].at \notin Inside
         /\ frame = [frame EXCEPT ![r] = frame[r]]
  BY RequestKnown DEF Inside

LEMMA TickType ==
  ASSUME ServingInv, NEW r \in Requests, clock' = Tick(r, 1)
  PROVE  /\ clock' \in [Requests -> Nat]
         /\ \A o \in Requests \ {r} : clock'[o] = clock[o]
  <1>1. LoadTypeOK /\ r \in Threads /\ 1 \in Nat
    BY ThreadsApart DEF ServingInv, LoadInv
  <1> QED BY <1>1, Timing

LEMMA SearchKeeps ==
  ASSUME ServingInv, NEW r \in Requests, Search(r)
  PROVE  ServingInv'
  <1>1. /\ frame[r].at \notin Inside /\ req[r] \in ReqType
        /\ clock' \in [Requests -> Nat] /\ \A o \in Requests \ {r} : clock'[o] = clock[o]
        /\ UNCHANGED <<owner, cached, labels, preload, costs, provider, reranker>>
        /\ costs \in [Requests -> CostType]
    <2>1. clock' = Tick(r, 1)
      BY DEF Search
    <2>2. frame[r].at = "returned" /\ UNCHANGED <<owner, cached, labels, preload, costs, provider, reranker>>
      BY DEF Search, Holds
    <2> QED BY <2>1, <2>2, RequestKnown, TickType DEF Inside
  <1>2. provider' \in Deployments \cup {"open"} /\ reranker' \in BOOLEAN
    BY <1>1 DEF ServingInv
  <1> DEFINE q(pc) == [req[r] EXCEPT !.spent["retrieval"] = @ + 1, !.pc = pc]
  <1>3. ASSUME NEW pc \in {"resolve", "rerank", "retrieved"}
        PROVE  q(pc) \in ReqType /\ q(pc).pc = pc /\ q(pc).before = req[r].before
    <2>1. q(pc) = [req[r] EXCEPT !.spent = [req[r].spent EXCEPT !["retrieval"] = @ + 1],
                                 !.pc = pc]
      OBVIOUS
    <2>2. [req[r].spent EXCEPT !["retrieval"] = @ + 1] \in [Keys -> Nat]
      BY <1>1 DEF ReqType, Keys
    <2> HIDE DEF q
    <2> QED BY <1>1, <2>1, <2>2 DEF ReqType
  <1>4. CASE /\ frame' = [frame EXCEPT ![r] = Called("reranker")]
             /\ req' = [req EXCEPT ![r].spent["retrieval"] = @ + 1, ![r].pc = "resolve"]
    <2>1. req' = [req EXCEPT ![r] = q("resolve")]
      BY <1>4 DEF ServingInv
    <2>2. /\ Called("reranker") \in FrameType /\ Called("reranker").at \notin Inside
          /\ Called("reranker").model \in Models
      BY FrameFacts DEF Models, Inside
    <2> HIDE DEF q
    <2>3. q("resolve") \in ReqType /\ q("resolve").pc = "resolve"
          /\ q("resolve").before = req[r].before
      BY <1>3
    <2> QED BY <1>1, <1>2, <1>4, <2>1, <2>2, <2>3, SnapshotFacts, RequestStep DEF Calling
  <1>5. ASSUME NEW pc \in {"rerank", "retrieved"},
               frame' = [frame EXCEPT ![r] = Out],
               req' = [req EXCEPT ![r].spent["retrieval"] = @ + 1, ![r].pc = pc]
        PROVE  ServingInv'
    <2>1. req' = [req EXCEPT ![r] = q(pc)]
      BY <1>5 DEF ServingInv
    <2> HIDE DEF q
    <2> QED BY <1>1, <1>2, <1>3, <1>5, <2>1, SnapshotFacts, StepOut
  <1>6. CASE frame' = [frame EXCEPT ![r] = Out] /\ req' = Broken(r)
    BY <1>1, <1>2, <1>6, BrokenType, SnapshotFacts, StepOut
  <1> QED BY <1>4, <1>5, <1>6 DEF Search

LEMMA ResolveKeeps ==
  ASSUME ServingInv, NEW r \in Requests, Resolve(r)
  PROVE  ServingInv'
  <1>1. /\ frame[r].at \notin Inside /\ req[r] \in ReqType
        /\ UNCHANGED <<owner, cached, labels, preload, clock, costs, provider>>
        /\ reranker' = TRUE /\ frame' = [frame EXCEPT ![r] = Out]
        /\ costs \in [Requests -> CostType] /\ clock \in [Requests -> Nat]
    BY RequestKnown DEF Resolve, Holds, Inside
  <1>2. provider' \in Deployments \cup {"open"} /\ reranker' \in BOOLEAN
    BY <1>1 DEF ServingInv
  <1> DEFINE q == [req[r] EXCEPT !.pc = "rerank"]
  <1>3. q \in ReqType /\ q.pc = "rerank" /\ q.before = req[r].before
    BY <1>1 DEF ReqType
  <1>4. req' = [req EXCEPT ![r] = q]
    BY DEF Resolve, ServingInv
  <1> HIDE DEF q
  <1> QED BY <1>1, <1>2, <1>3, <1>4, SnapshotFacts, StepOut

LEMMA RerankKeeps ==
  ASSUME ServingInv, NEW r \in Requests, Rerank(r)
  PROVE  ServingInv'
  <1>1. /\ req[r] \in ReqType /\ req[r].pc \notin Calling
        /\ clock' \in [Requests -> Nat] /\ \A o \in Requests \ {r} : clock'[o] = clock[o]
        /\ UNCHANGED <<owner, cached, labels, frame, preload, provider, reranker>>
    <2>1. clock' = Tick(r, 1) /\ req[r].pc = "rerank"
          /\ UNCHANGED <<owner, cached, labels, frame, preload, provider, reranker>>
      BY DEF Rerank, At
    <2> QED BY <2>1, RequestKnown, TickType DEF Calling
  <1>2. provider' \in Deployments \cup {"open"} /\ reranker' \in BOOLEAN
    BY <1>1 DEF ServingInv
  <1>3. /\ costs' \in [Requests -> CostType]
        /\ \A o \in Requests \ {r} : costs'[o] = costs[o]
        /\ costs'[r].model_load >= costs[r].model_load
        /\ costs'[r].rerank >= costs[r].rerank
    <2>1. LoadTypeOK /\ r \in Threads /\ costs' = Recorded(r, "rerank", 1)
      BY ThreadsApart DEF ServingInv, LoadInv, Rerank
    <2> QED BY <2>1, Recording
  <1> DEFINE q == [req[r] EXCEPT !.pc = "retrieved", !.spent["rerank"] = @ + 1]
  <1>4. q \in ReqType /\ q.pc = "retrieved" /\ q.before = req[r].before
    <2>1. q = [req[r] EXCEPT !.spent = [req[r].spent EXCEPT !["rerank"] = @ + 1],
                             !.pc = "retrieved"]
      OBVIOUS
    <2>2. [req[r].spent EXCEPT !["rerank"] = @ + 1] \in [Keys -> Nat]
      BY <1>1 DEF ReqType, Keys
    <2> HIDE DEF q
    <2> QED BY <1>1, <2>1, <2>2 DEF ReqType
  <1>5. req' = [req EXCEPT ![r] = q]
    BY DEF Rerank, ServingInv
  <1>6. q.before.model_load <= costs'[r].model_load /\ q.before.rerank <= costs'[r].rerank
    <2>1. costs[r] \in CostType /\ costs'[r] \in CostType /\ req[r].before \in CostType
      BY <1>3, RequestKnown DEF ReqType
    <2> QED BY <1>3, <1>4, <2>1, SnapshotFacts DEF CostType
  <1> HIDE DEF q
  <1>7. frame' = [frame EXCEPT ![r] = frame[r]]
    BY <1>1, StillOut
  <1> QED BY <1>1, <1>2, <1>3, <1>4, <1>5, <1>6, <1>7, StillOut, RequestStep

LEMMA RetrievedKeeps ==
  ASSUME ServingInv, NEW r \in Requests, Retrieved(r)
  PROVE  ServingInv'
  <1> DEFINE nested == IF costs[r].scope THEN {"rerank", "model_load"} ELSE {}
             staged == Staged(r, "retrieval", nested, clock[r])
             pc == IF req[r].route = "fact" THEN "verify" ELSE "generate"
             q == [req[r] EXCEPT !.latency = staged, !.before = costs[r], !.pc = pc]
  <1>1. /\ req[r].pc = "retrieved" /\ req[r] \in ReqType /\ costs[r] \in CostType
        /\ clock[r] \in Nat /\ clock \in [Requests -> Nat]
        /\ costs \in [Requests -> CostType]
        /\ clock' = [clock EXCEPT ![r] = 0]
        /\ UNCHANGED <<owner, cached, labels, frame, preload, costs, provider, reranker>>
    BY RequestKnown DEF Retrieved, At
  <1>2. staged \in [Keys -> Nat]
    <2>1. "retrieval" \in Keys /\ nested \in SUBSET {"rerank", "model_load"}
      BY DEF Keys
    <2> HIDE DEF nested
    <2> QED BY <1>1, <2>1, StagedType
  <1>3. req' = [req EXCEPT ![r] = q]
    BY DEF Retrieved, ServingInv
  <1> HIDE DEF staged, nested
  <1>4. q \in ReqType /\ q.pc # "new" /\ q.before = costs[r]
    BY <1>1, <1>2 DEF ReqType
  <1> HIDE DEF q
  <1>5. req[r].pc \notin Calling
    BY <1>1 DEF Calling
  <1>6. clock' \in [Requests -> Nat] /\ \A o \in Requests \ {r} : clock'[o] = clock[o]
    BY <1>1
  <1>7. provider' \in Deployments \cup {"open"} /\ reranker' \in BOOLEAN
    BY <1>1 DEF ServingInv
  <1>8. frame' = [frame EXCEPT ![r] = frame[r]]
    BY <1>1, <1>5, StillOut
  <1> QED BY <1>1, <1>3, <1>4, <1>5, <1>6, <1>7, <1>8, StillOut, SnapshotFacts, RequestStep

LEMMA OutcomeTypes ==
  ASSUME NEW p, NEW reply \in Replies, NEW hinted \in BOOLEAN
  PROVE  /\ CallOutcomes(p, reply, hinted) \subseteq Outcomes
         /\ StreamOutcomes(p, reply, hinted) \subseteq Outcomes
  <1>1. Failed(p, reply, hinted) \in Outcomes
    BY DEF Failed, Exception, AsUnavailable, Unavailable, Outcomes
  <1>2. /\ \A kind \in Complete \cup {"none"} : Claims(kind) \in Outcomes
        /\ Exception \in Outcomes /\ Unavailable(FALSE) \in Outcomes
    BY DEF Claims, Complete, Exception, Unavailable, Outcomes
  <1>3. Unchecked \subseteq Outcomes
    BY <1>2 DEF Unchecked, Complete
  <1>4. CallOutcomes(p, reply, hinted) \subseteq Outcomes
    BY <1>1, <1>2, <1>3 DEF CallOutcomes
  <1>5. StreamOutcomes(p, reply, hinted) \subseteq Outcomes
    BY <1>1, <1>2, <1>3 DEF StreamOutcomes
  <1> QED BY <1>4, <1>5

LEMMA GeneratedType ==
  ASSUME ServingInv, NEW r \in Requests, NEW reply \in Replies, NEW outcome \in Outcomes,
         Generated(r, reply, outcome)
  PROVE  \E q \in ReqType : /\ q.pc # "new"
                            /\ q.before \in {costs[r], NoCosts}
                            /\ req' = [req EXCEPT ![r] = q]
  <1>1. /\ req[r] \in ReqType /\ req \in [Requests -> ReqType] /\ costs[r] \in CostType
        /\ clock[r] + 1 \in Nat /\ Futile(r) \in BOOLEAN
    BY RequestKnown DEF ServingInv, ReqType, Futile
  <1>2. CASE outcome.kind \in Complete
    <2> DEFINE staged == Staged(r, "generation", {}, clock[r] + 1)
               q == [req[r] EXCEPT !.pc = "verify", !.attempts = 0, !.before = costs[r],
                       !.last = reply, !.futile = Futile(r), !.outcome = outcome,
                       !.spent["generation"] = clock[r] + 1, !.latency = staged]
    <2>1. staged \in [Keys -> Nat]
      <3>1. "generation" \in Keys /\ {} \in SUBSET {"rerank", "model_load"}
        BY DEF Keys
      <3> QED BY <1>1, <3>1, StagedType
    <2>2. req' = [req EXCEPT ![r] = q]
      BY <1>2 DEF Generated
    <2>3. [req[r].spent EXCEPT !["generation"] = clock[r] + 1] \in [Keys -> Nat]
      BY <1>1 DEF ReqType
    <2> HIDE DEF staged
    <2>4. q = [req[r] EXCEPT !.pc = "verify", !.attempts = 0, !.before = costs[r],
                       !.last = reply, !.futile = Futile(r), !.outcome = outcome,
                       !.spent = [req[r].spent EXCEPT !["generation"] = clock[r] + 1],
                       !.latency = staged]
      OBVIOUS
    <2>5. q \in ReqType /\ q.pc = "verify" /\ q.before = costs[r]
      BY <1>1, <2>1, <2>3, <2>4, RequestFacts DEF ReqType
    <2> HIDE DEF q
    <2> QED BY <2>2, <2>5
  <1>3. CASE outcome.kind \notin Complete
    <2> DEFINE q == [New EXCEPT !.route = req[r].route, !.pc = "respond", !.last = reply,
                                !.futile = Futile(r), !.outcome = outcome]
    <2>1. req' = [req EXCEPT ![r] = q]
      BY <1>3 DEF Generated, Ended
    <2>2. q \in ReqType /\ q.pc = "respond" /\ q.before = NoCosts
      BY <1>1, RequestFacts DEF ReqType
    <2> HIDE DEF q
    <2> QED BY <2>1, <2>2
  <1> QED BY <1>2, <1>3

LEMMA GenerateKeeps ==
  ASSUME ServingInv, NEW r \in Requests, Generate(r)
  PROVE  ServingInv'
  <1>1. /\ req[r].pc = "generate" /\ req[r] \in ReqType
        /\ clock \in [Requests -> Nat] /\ costs \in [Requests -> CostType]
        /\ UNCHANGED <<owner, cached, labels, frame, preload, costs, reranker>>
    BY RequestKnown DEF Generate, At
  <1>2. provider' \in Deployments \cup {"open"} /\ reranker' \in BOOLEAN
    BY <1>1 DEF Generate, ServingInv
  <1>3. req[r].pc \notin Calling
    BY <1>1 DEF Calling
  <1>4. frame' = [frame EXCEPT ![r] = frame[r]]
    BY <1>1, <1>3, StillOut
  <1>5. PICK reply \in Replies, hinted \in BOOLEAN :
          \/ /\ req[r].attempts + 1 < MaxAttempts
             /\ req' = [req EXCEPT ![r].attempts = @ + 1, ![r].last = reply,
                                   ![r].futile = Futile(r)]
             /\ clock' = Tick(r, 1)
          \/ /\ \E o \in (IF req[r].route = "answer"
                          THEN CallOutcomes(provider', reply, hinted)
                          ELSE StreamOutcomes(provider', reply, hinted)) :
                  Generated(r, reply, o)
             /\ clock' = [clock EXCEPT ![r] = 0]
    BY DEF Generate
  <1>6. CASE /\ req[r].attempts + 1 < MaxAttempts
             /\ req' = [req EXCEPT ![r].attempts = @ + 1, ![r].last = reply,
                                   ![r].futile = Futile(r)]
             /\ clock' = Tick(r, 1)
    <2> DEFINE q == [req[r] EXCEPT !.attempts = @ + 1, !.last = reply, !.futile = Futile(r)]
    <2>1. req' = [req EXCEPT ![r] = q]
      BY <1>6 DEF ServingInv
    <2>2. req[r].attempts + 1 \in 0 .. MaxAttempts - 1 /\ Futile(r) \in BOOLEAN
      BY <1>1, <1>6, ServingAssumption DEF ReqType, Futile
    <2>3. q \in ReqType /\ q.pc = "generate" /\ q.before = req[r].before
      BY <1>1, <2>2 DEF ReqType
    <2> HIDE DEF q
    <2>4. clock' \in [Requests -> Nat] /\ \A o \in Requests \ {r} : clock'[o] = clock[o]
      BY <1>6, TickType
    <2> QED BY <1>1, <1>2, <1>3, <1>4, <2>1, <2>3, <2>4, StillOut, SnapshotFacts, RequestStep
  <1>7. CASE /\ \E o \in (IF req[r].route = "answer"
                          THEN CallOutcomes(provider', reply, hinted)
                          ELSE StreamOutcomes(provider', reply, hinted)) :
                  Generated(r, reply, o)
             /\ clock' = [clock EXCEPT ![r] = 0]
    <2>1. PICK o \in Outcomes : Generated(r, reply, o)
      BY <1>7, OutcomeTypes
    <2>2. PICK q \in ReqType : /\ q.pc # "new"
                               /\ q.before \in {costs[r], NoCosts}
                               /\ req' = [req EXCEPT ![r] = q]
      BY <2>1, GeneratedType
    <2>3. q.before.model_load <= costs'[r].model_load /\ q.before.rerank <= costs'[r].rerank
      BY <1>1, <2>2, SnapshotFacts
    <2>4. clock' \in [Requests -> Nat] /\ \A x \in Requests \ {r} : clock'[x] = clock[x]
      BY <1>1, <1>7
    <2> QED BY <1>1, <1>2, <1>3, <1>4, <2>2, <2>3, <2>4, StillOut, RequestStep
  <1> QED BY <1>5, <1>6, <1>7

LEMMA VerifyKeeps ==
  ASSUME ServingInv, NEW r \in Requests, Verify(r)
  PROVE  ServingInv'
  <1>1. /\ req[r].pc = "verify" /\ req[r] \in ReqType /\ req[r].pc \notin Calling
        /\ clock \in [Requests -> Nat] /\ costs \in [Requests -> CostType]
        /\ UNCHANGED <<owner, cached, labels, preload, clock, costs, provider, reranker>>
    BY RequestKnown DEF Verify, At, Calling
  <1>2. provider' \in Deployments \cup {"open"} /\ reranker' \in BOOLEAN
    BY <1>1 DEF ServingInv
  <1> DEFINE q(pc) == [req[r] EXCEPT !.pc = pc]
  <1>3. \A pc \in {"score", "scored"} :
          q(pc) \in ReqType /\ q(pc).pc = pc /\ q(pc).before = req[r].before
    BY <1>1 DEF ReqType
  <1>4. CASE frame' = [frame EXCEPT ![r] = Called("nli")]
             /\ req' = [req EXCEPT ![r].pc = "score"]
    <2>1. req' = [req EXCEPT ![r] = q("score")]
      BY <1>4 DEF ServingInv
    <2>2. /\ Called("nli") \in FrameType /\ Called("nli").at \notin Inside
          /\ Called("nli").model \in Models
      BY FrameFacts DEF Models, Inside
    <2> HIDE DEF q
    <2>3. q("score") \in ReqType /\ q("score").pc = "score" /\ q("score").before = req[r].before
      BY <1>3
    <2> QED BY <1>1, <1>2, <1>4, <2>1, <2>2, <2>3, StillOut, SnapshotFacts, RequestStep DEF Calling
  <1>5. CASE req' = [req EXCEPT ![r].pc = "scored"] /\ UNCHANGED frame
    <2>1. req' = [req EXCEPT ![r] = q("scored")]
      BY <1>5 DEF ServingInv
    <2> HIDE DEF q
    <2>2. q("scored") \in ReqType /\ q("scored").pc = "scored"
          /\ q("scored").before = req[r].before
      BY <1>3
    <2>3. frame' = [frame EXCEPT ![r] = frame[r]]
      BY <1>1, <1>5, StillOut
    <2> QED BY <1>1, <1>2, <2>1, <2>2, <2>3, StillOut, SnapshotFacts, RequestStep
  <1> QED BY <1>4, <1>5 DEF Verify

LEMMA ScoreKeeps ==
  ASSUME ServingInv, NEW r \in Requests, Score(r)
  PROVE  ServingInv'
  <1>1. /\ frame[r].at \notin Inside /\ req[r] \in ReqType
        /\ frame' = [frame EXCEPT ![r] = Out]
        /\ clock' \in [Requests -> Nat] /\ \A o \in Requests \ {r} : clock'[o] = clock[o]
        /\ costs \in [Requests -> CostType]
        /\ UNCHANGED <<owner, cached, labels, preload, costs, provider, reranker>>
    <2>1. clock' = Tick(r, 1)
      BY DEF Score
    <2>2. /\ frame[r].at = "returned" /\ frame' = [frame EXCEPT ![r] = Out]
          /\ UNCHANGED <<owner, cached, labels, preload, costs, provider, reranker>>
      BY DEF Score, Holds
    <2> QED BY <2>1, <2>2, RequestKnown, TickType DEF Inside
  <1>2. provider' \in Deployments \cup {"open"} /\ reranker' \in BOOLEAN
    BY <1>1 DEF ServingInv
  <1>3. CASE req' = Broken(r)
    BY <1>1, <1>2, <1>3, BrokenType, SnapshotFacts, StepOut
  <1>4. CASE req' = [req EXCEPT ![r].spent["verification"] = @ + 1, ![r].pc = "scored"]
    <2> DEFINE q == [req[r] EXCEPT !.spent["verification"] = @ + 1, !.pc = "scored"]
    <2>1. req' = [req EXCEPT ![r] = q]
      BY <1>4 DEF ServingInv
    <2>2. q \in ReqType /\ q.pc = "scored" /\ q.before = req[r].before
      <3>1. q = [req[r] EXCEPT !.spent = [req[r].spent EXCEPT !["verification"] = @ + 1],
                               !.pc = "scored"]
        OBVIOUS
      <3>2. [req[r].spent EXCEPT !["verification"] = @ + 1] \in [Keys -> Nat]
        BY <1>1 DEF ReqType, Keys
      <3> HIDE DEF q
      <3> QED BY <1>1, <3>1, <3>2 DEF ReqType
    <2> HIDE DEF q
    <2> QED BY <1>1, <1>2, <2>1, <2>2, SnapshotFacts, StepOut
  <1> QED BY <1>3, <1>4 DEF Score

LEMMA ScoredKeeps ==
  ASSUME ServingInv, NEW r \in Requests, Scored(r)
  PROVE  ServingInv'
  <1> DEFINE nested == IF costs[r].scope THEN {"model_load"} ELSE {}
             staged == Staged(r, "verification", nested, clock[r])
             verdict == IF req[r].route = "fact" THEN Verdict ELSE req[r].outcome
             q == [req[r] EXCEPT !.latency = staged, !.outcome = verdict, !.pc = "respond"]
  <1>1. /\ req[r].pc = "scored" /\ req[r] \in ReqType /\ clock[r] \in Nat
        /\ clock \in [Requests -> Nat] /\ costs \in [Requests -> CostType]
        /\ UNCHANGED <<loadVars, provider, reranker>>
    BY RequestKnown DEF Scored, At
  <1>2. UNCHANGED <<owner, cached, labels, preload, clock, costs, frame>>
    BY <1>1 DEF loadVars
  <1>3. staged \in [Keys -> Nat]
    <2>1. "verification" \in Keys /\ nested \in SUBSET {"rerank", "model_load"}
      BY DEF Keys
    <2> HIDE DEF nested
    <2> QED BY <1>1, <2>1, StagedType
  <1>4. req' = [req EXCEPT ![r] = q]
    BY DEF Scored, ServingInv
  <1>5. verdict \in Outcomes \cup {NoOutcome, Verdict}
    BY <1>1 DEF ReqType
  <1> HIDE DEF staged, nested, verdict
  <1>6. q \in ReqType /\ q.pc = "respond" /\ q.before = req[r].before
    BY <1>1, <1>3, <1>5 DEF ReqType
  <1> HIDE DEF q
  <1>7. req[r].pc \notin Calling
    BY <1>1 DEF Calling
  <1>8. provider' \in Deployments \cup {"open"} /\ reranker' \in BOOLEAN
    BY <1>1 DEF ServingInv
  <1>9. frame' = [frame EXCEPT ![r] = frame[r]]
    BY <1>2, <1>7, StillOut
  <1> QED BY <1>1, <1>2, <1>4, <1>6, <1>7, <1>8, <1>9, StillOut, SnapshotFacts, RequestStep

LEMMA LoadRaisedKeeps ==
  ASSUME ServingInv, NEW r \in Requests, LoadRaised(r)
  PROVE  ServingInv'
  <1>1. /\ frame[r].at \notin Inside /\ frame' = [frame EXCEPT ![r] = Out]
        /\ req' = Broken(r) /\ clock' = [clock EXCEPT ![r] = 0]
        /\ clock \in [Requests -> Nat] /\ costs \in [Requests -> CostType]
        /\ UNCHANGED <<owner, cached, labels, preload, costs, provider, reranker>>
    BY RequestKnown DEF LoadRaised, Holds, Inside
  <1>2. clock' \in [Requests -> Nat] /\ \A o \in Requests \ {r} : clock'[o] = clock[o]
    BY <1>1
  <1>3. provider' \in Deployments \cup {"open"} /\ reranker' \in BOOLEAN
    BY <1>1 DEF ServingInv
  <1> QED BY <1>1, <1>2, <1>3, BrokenType, SnapshotFacts, StepOut

LEMMA RespondKeeps ==
  ASSUME ServingInv, NEW r \in Requests, Respond(r)
  PROVE  ServingInv'
  <1> DEFINE q == [New EXCEPT !.pc = "done"]
  <1>1. /\ req[r].pc = "respond" /\ req' = [req EXCEPT ![r] = q]
        /\ clock' = [clock EXCEPT ![r] = 0] /\ costs' = [costs EXCEPT ![r] = NoCosts]
        /\ clock \in [Requests -> Nat] /\ costs \in [Requests -> CostType]
        /\ UNCHANGED <<owner, cached, labels, frame, preload, provider, reranker>>
    BY RequestKnown DEF Respond, At
  <1>2. q \in ReqType /\ q.pc = "done" /\ q.before = NoCosts
    BY RequestFacts DEF ReqType
  <1> HIDE DEF q
  <1>3. req[r].pc \notin Calling
    BY <1>1 DEF Calling
  <1>4. /\ clock' \in [Requests -> Nat] /\ \A o \in Requests \ {r} : clock'[o] = clock[o]
        /\ costs' \in [Requests -> CostType] /\ \A o \in Requests \ {r} : costs'[o] = costs[o]
        /\ costs'[r].model_load = 0 /\ costs'[r].rerank = 0
    BY <1>1, RequestFacts
  <1>5. q.before.model_load <= costs'[r].model_load /\ q.before.rerank <= costs'[r].rerank
    BY <1>2, <1>4, RequestFacts
  <1>6. provider' \in Deployments \cup {"open"} /\ reranker' \in BOOLEAN
    BY <1>1 DEF ServingInv
  <1>7. frame' = [frame EXCEPT ![r] = frame[r]]
    BY <1>1, <1>3, StillOut
  <1> QED BY <1>1, <1>2, <1>3, <1>4, <1>5, <1>6, <1>7, StillOut, RequestStep

LEMMA PreloadKeeps ==
  ASSUME ServingInv, NEW m \in Preloads, Preload(m)
  PROVE  ServingInv'
  <1>1. m \in Threads /\ m \notin Requests /\ LoadInv
    BY ThreadsApart DEF ServingInv
  <1>2. /\ LoadInv' /\ UNCHANGED <<provider, reranker, req>>
        /\ \A r \in Requests : /\ frame'[r] = frame[r]
                               /\ costs'[r].model_load >= costs[r].model_load
                               /\ costs'[r].rerank >= costs[r].rerank
    <2>1. CASE Load(m)
      <3>1. Advanced(m)
        BY <1>1, <2>1, LoadAdvances
      <3> QED BY <1>1, <3>1, ThreadsApart DEF Advanced, Preload
    <2>2. CASE Warm(m)
      <3>1. LoadInv' /\ UNCHANGED <<clock, costs>> /\ \A r \in Requests : frame'[r] = frame[r]
        BY <1>1, <2>2, WarmKeeps
      <3> QED BY <1>1, <3>1, SameCosts DEF Preload
    <2> QED BY <2>1, <2>2 DEF Preload
  <1>3. \A r \in Requests : RequestHolds(r)'
    <2> SUFFICES ASSUME NEW r \in Requests PROVE RequestHolds(r)'
      OBVIOUS
    <2>1. RequestHolds(r) /\ req[r].before \in CostType /\ costs[r] \in CostType
      BY RequestKnown DEF ReqType
    <2>2. costs'[r] \in CostType
      BY <1>2 DEF LoadInv, LoadTypeOK, CostType
    <2>3. /\ req[r].before.model_load <= costs'[r].model_load
          /\ req[r].before.rerank <= costs'[r].rerank
      BY <1>2, <2>1, <2>2 DEF RequestHolds, CostType
    <2> QED BY <1>2, <2>1, <2>3 DEF RequestHolds
  <1> QED BY <1>2, <1>3 DEF ServingInv
-----------------------------------------------------------------------------
LEMMA Inductive == ServingInv /\ [Next]_vars => ServingInv'
  <1> SUFFICES ASSUME ServingInv, [Next]_vars PROVE ServingInv'
    OBVIOUS
  <1>1. ASSUME NEW r \in Requests, Serve(r) PROVE ServingInv'
    BY <1>1, LoadingKeeps, SearchKeeps, ResolveKeeps, RerankKeeps, RetrievedKeeps,
       GenerateKeeps, VerifyKeeps, ScoreKeeps, ScoredKeeps, LoadRaisedKeeps, RespondKeeps
    DEF Serve
  <1>2. ASSUME NEW r \in Requests, NEW route \in Routes[r], Arrive(r, route)
        PROVE  ServingInv'
    BY <1>2, ArriveKeeps
  <1>3. ASSUME NEW m \in Preloads, Preload(m) PROVE ServingInv'
    BY <1>3, PreloadKeeps
  <1>4. CASE UNCHANGED vars
    BY <1>4 DEF vars, loadVars, ServingInv, LoadInv, LoadTypeOK, FramesHold, LabelsKnown,
                Now, RequestHolds
  <1> QED BY <1>1, <1>2, <1>3, <1>4 DEF Next

LEMMA Invariant == Spec => []ServingInv
  BY Initially, Inductive, PTL DEF Spec

(* Every variable of the requests, their loaders and their cost tables     *)
(* keeps its type, whatever the provider answers and whichever loads fail: *)
(* no stage reports a negative time and no counter of attempts runs over.  *)
THEOREM TypeCorrect == Spec => []TypeOK
  <1>1. ServingInv => TypeOK
    BY DEF ServingInv, LoadInv, TypeOK, ReqType, CostType
  <1> QED BY <1>1, Invariant, PTL

(* Each of the three models is constructed by one thread at a time and     *)
(* never again once it is cached (the locks of embeddings.py and nli.py),  *)
(* and whoever gets hold of the entailment model finds its order of labels,*)
(* for any number of requests and any set of preloaded models.             *)
THEOREM ModelsLoadedWhole == Spec => []ModelsAreWhole
  <1>1. ServingInv => ModelsAreWhole
    <2> SUFFICES ASSUME ServingInv PROVE ModelsAreWhole
      OBVIOUS
    <2>1. FramesHold /\ LabelsKnown
      BY DEF ServingInv, LoadInv
    <2>2. LoadedOnce
      BY <2>1 DEF FramesHold, LoadedOnce
    <2> QED BY <2>1, <2>2 DEF ModelsAreWhole
  <1> QED BY <1>1, Invariant, PTL
-----------------------------------------------------------------------------
(* What a request is told *)

(* A request that has not generated yet knows nothing of its provider; one *)
(* that generates has only met what waiting may clear; once a reply has    *)
(* come in the provider is no longer open; and what is verified are claims.*)
HonestSoFar(r) ==
  /\ Honest(r)
  /\ req[r].last # "nothing" => provider # "open"
  /\ req[r].pc \in {"new", "embed", "resolve", "rerank", "retrieved"} =>
       req[r].last = "nothing"
  /\ req[r].pc \in {"new", "embed", "resolve", "rerank", "retrieved", "generate"} =>
       req[r].outcome = NoOutcome
  /\ req[r].route = "none" => req[r].pc \in {"new", "done"}
  /\ req[r].pc = "generate" => /\ req[r].last \in {"nothing", "rate", "server", "transport"}
                               /\ req[r].route # "fact"
  /\ req[r].pc = "verify" /\ req[r].route # "fact" => req[r].outcome.kind \in Complete

HonestInv == \A r \in Requests : HonestSoFar(r)

(* The requests other than the one that takes the step.                    *)
LEMMA OthersHonest ==
  ASSUME HonestInv, NEW o \in Requests, req'[o] = req[o],
         provider' = provider \/ provider = "open"
  PROVE  HonestSoFar(o)'
  <1>1. HonestSoFar(o)
    BY DEF HonestInv
  <1>2. CASE provider' = provider
    BY <1>1, <1>2 DEF HonestSoFar, Honest
  <1>3. CASE provider = "open"
    <2>1. req[o].last = "nothing"
      BY <1>1, <1>3 DEF HonestSoFar
    <2>2. req[o].outcome.kind \notin Complete
      BY <1>1, <1>3, <2>1 DEF HonestSoFar, Honest, MayPass, Declined, Complete
    <2> QED BY <1>1, <2>1, <2>2 DEF HonestSoFar, Honest, Complete
  <1> QED BY <1>2, <1>3

(* A request that goes on without a reply.                                 *)
LEMMA GoesOn ==
  ASSUME HonestInv, NEW r \in Requests, provider' = provider, req[r].pc \notin {"new", "done"},
         req'[r].route = req[r].route, req'[r].last = req[r].last,
         req'[r].futile = req[r].futile, req'[r].outcome = req[r].outcome,
         \/ req'[r].pc = req[r].pc
         \/ req'[r].pc \in {"verify", "score", "scored"}
         \/ req[r].pc \in {"embed", "resolve", "rerank", "retrieved"},
         req'[r].pc = "generate" => req[r].route # "fact",
         req'[r].pc = "verify" => req[r].pc = "verify" \/ req[r].route = "fact"
  PROVE  HonestSoFar(r)'
  <1>1. HonestSoFar(r)
    BY DEF HonestInv
  <1>2. Honest(r)'
    BY <1>1 DEF HonestSoFar, Honest
  <1> QED BY <1>1, <1>2 DEF HonestSoFar

LEMMA BrokenHonest ==
  ASSUME ServingInv, HonestInv, NEW r \in Requests, provider' = provider,
         req[r].pc \notin {"new", "done"}, req' = Broken(r)
  PROVE  HonestSoFar(r)'
  <1>1. HonestSoFar(r)
    BY DEF HonestInv
  <1>2. /\ req'[r].pc = "respond" /\ req'[r].last = req[r].last
        /\ req'[r].futile = req[r].futile /\ req'[r].outcome = Exception
        /\ req'[r].route = req[r].route
    BY DEF Broken, Ended, ServingInv, New
  <1>3. ~req[r].futile
    BY <1>1 DEF HonestSoFar, Honest
  <1>4. Honest(r)'
    BY <1>2, <1>3 DEF Honest, Exception, Complete
  <1> QED BY <1>1, <1>2, <1>4 DEF HonestSoFar

LEMMA RequestsApart ==
  ASSUME ServingInv, NEW r \in Requests, Serve(r)
  PROVE  \A o \in Requests \ {r} : req'[o] = req[o]
  BY DEF Serve, Loading, Search, Resolve, Rerank, Retrieved, Generate, Generated, Verify,
         Score, Scored, LoadRaised, Respond, Broken, Ended, ServingInv

(* What passes for a claim set and is not one, for the two kinds of call.  *)
LEMMA MayPassIs ==
  ASSUME NEW p \in ProviderNames
  PROVE  /\ "garbled" \in MayPass(p, "stream") /\ "cut" \in MayPass(p, "stream")
         /\ p = "gemini" => /\ "garbled" \in MayPass(p, "answer")
                           /\ "refused" \in MayPass(p, "stream")
  BY DEF MayPass, Declined, ProviderNames

(* What the adapters make of a reply, for the two kinds of call.           *)
LEMMA OutcomesAreHonest ==
  ASSUME NEW p \in Deployments, NEW reply \in Replies, NEW hinted \in BOOLEAN,
         NEW route \in {"answer", "stream"},
         NEW o \in (IF route = "answer" THEN CallOutcomes(p, reply, hinted)
                    ELSE StreamOutcomes(p, reply, hinted))
  PROVE  /\ o.kind \in Complete => o.kind = reply \/ reply \in MayPass(p, route)
         /\ o.kind = "claims" => reply \in {"claims", "garbled"}
         /\ o.kind = "unavailable" => reply \notin Complete
         /\ o.hint => reply = "rate"
  <1>0. p \in ProviderNames
    BY ServingAssumption
  <1>1. /\ Failed(p, reply, hinted).kind \in {"unavailable", "exception"}
        /\ Failed(p, reply, hinted).hint => reply = "rate"
    BY DEF Failed, Exception, AsUnavailable, Unavailable
  <1>2. Claims(reply).kind = reply /\ ~Claims(reply).hint
        /\ Claims("none").kind = "none" /\ ~Claims("none").hint
        /\ Claims("claims").kind = "claims" /\ ~Claims("claims").hint
    BY DEF Claims
  <1>3. /\ Exception.kind = "exception" /\ ~Exception.hint
        /\ Unavailable(FALSE).kind = "unavailable" /\ ~Unavailable(FALSE).hint
    BY DEF Exception, Unavailable
  <1>4. CASE reply \in Errors
    <2>1. reply \notin Complete \cup Declined
      BY <1>4 DEF Errors, Complete, Declined
    <2>2. o = Failed(p, reply, hinted)
      BY <1>4, <2>1 DEF CallOutcomes, StreamOutcomes, Declined
    <2> QED BY <1>1, <2>1, <2>2 DEF Complete
  <1>5. CASE reply \in Complete
    <2>1. reply \notin Errors \cup Declined
      BY <1>5 DEF Errors, Complete, Declined
    <2>2. o = Claims(reply)
      BY <1>5, <2>1 DEF CallOutcomes, StreamOutcomes, Declined
    <2> QED BY <1>2, <1>5, <2>2 DEF Complete
  <1>6. CASE reply \in Declined
    <2>1. reply \notin Errors /\ reply \notin Complete
      BY <1>6 DEF Errors, Complete, Declined
    <2>2. CASE reply = "garbled" /\ ~(route = "answer" /\ p = "openai")
      <3>1. reply \in MayPass(p, route)
        BY <1>0, <2>2, MayPassIs DEF ProviderNames
      <3> QED
        <4>1. o \in Unchecked
          BY <1>0, <2>1, <2>2 DEF CallOutcomes, StreamOutcomes, ProviderNames
        <4>2. o.kind \in {"none", "claims", "exception"} /\ ~o.hint
          BY <1>2, <1>3, <4>1 DEF Unchecked
        <4> QED BY <2>2, <3>1, <4>2
    <2>3. CASE route = "answer" /\ ~(reply = "garbled" /\ p = "gemini")
      <3>1. o \in {Unavailable(FALSE), Exception}
        BY <1>6, <2>1, <2>3 DEF CallOutcomes
      <3> QED BY <1>3, <2>1, <3>1 DEF Complete
    <2>4. CASE route = "stream" /\ reply # "garbled"
      <3>1. CASE reply = "refused" /\ p = "openai"
        <4>1. o = Unavailable(FALSE)
          BY <2>1, <2>4, <3>1 DEF StreamOutcomes
        <4> QED BY <1>3, <2>1, <4>1 DEF Complete
      <3>2. CASE ~(reply = "refused" /\ p = "openai")
        <4>1. o = Claims("none")
          BY <2>1, <2>4, <3>2 DEF StreamOutcomes
        <4>2. reply \in MayPass(p, route)
          BY <1>0, <1>6, <2>4, <3>2, MayPassIs DEF Declined, ProviderNames
        <4> QED BY <1>2, <4>1, <4>2
      <3> QED BY <3>1, <3>2
    <2> QED BY <1>0, <2>2, <2>3, <2>4 DEF ProviderNames
  <1> QED BY <1>4, <1>5, <1>6 DEF Replies

LEMMA GenerateHonest ==
  ASSUME ServingInv, HonestInv, NEW r \in Requests, Generate(r)
  PROVE  HonestInv'
  <1>1. /\ req[r].pc = "generate" /\ req \in [Requests -> ReqType]
        /\ provider \in Deployments \cup {"open"}
    BY DEF Generate, At, ServingInv
  <1>2. provider' \in Deployments /\ (provider' = provider \/ provider = "open")
    BY <1>1 DEF Generate
  <1>3. "open" \notin Deployments
    BY ServingAssumption DEF ProviderNames
  <1>4. ~Futile(r)
    BY <1>1 DEF Futile, HonestInv, HonestSoFar, Honest, Complete, Declined
  <1>5. PICK reply \in Replies, hinted \in BOOLEAN :
          \/ /\ req[r].route = "answer" /\ Retryable(provider', reply)
             /\ req' = [req EXCEPT ![r].attempts = @ + 1, ![r].last = reply,
                                   ![r].futile = Futile(r)]
          \/ \E o \in (IF req[r].route = "answer"
                       THEN CallOutcomes(provider', reply, hinted)
                       ELSE StreamOutcomes(provider', reply, hinted)) :
               Generated(r, reply, o)
    BY DEF Generate
  <1>6. HonestSoFar(r)'
    <2>0. HonestSoFar(r) /\ provider' # "open"
      BY <1>2, <1>3 DEF HonestInv
    <2>1. CASE /\ req[r].route = "answer" /\ Retryable(provider', reply)
               /\ req' = [req EXCEPT ![r].attempts = @ + 1, ![r].last = reply,
                                     ![r].futile = Futile(r)]
      <3>1. /\ req'[r].pc = "generate" /\ req'[r].last = reply /\ ~req'[r].futile
            /\ req'[r].outcome = req[r].outcome /\ req'[r].route = req[r].route
        BY <1>1, <1>4, <2>1 DEF ReqType
      <3>2. reply \in {"rate", "server", "transport"}
        BY <2>1 DEF Retryable
      <3>3. req[r].outcome = NoOutcome
        BY <1>1, <2>0 DEF HonestSoFar
      <3>4. Honest(r)'
        BY <3>1, <3>3 DEF Honest, NoOutcome, Complete
      <3> QED BY <1>1, <2>0, <3>1, <3>2, <3>3, <3>4 DEF HonestSoFar
    <2>2. CASE \E o \in (IF req[r].route = "answer"
                         THEN CallOutcomes(provider', reply, hinted)
                         ELSE StreamOutcomes(provider', reply, hinted)) :
                 Generated(r, reply, o)
      <3>1. PICK o \in (IF req[r].route = "answer"
                        THEN CallOutcomes(provider', reply, hinted)
                        ELSE StreamOutcomes(provider', reply, hinted)) :
                   Generated(r, reply, o)
        BY <2>2
      <3>2. /\ req'[r].last = reply /\ ~req'[r].futile /\ req'[r].outcome = o
            /\ req'[r].pc \in {"verify", "respond"} /\ req'[r].route = req[r].route
            /\ req'[r].pc = "verify" => o.kind \in Complete
        <4>1. CASE o.kind \in Complete
          <5> DEFINE q == [req[r] EXCEPT !.pc = "verify", !.attempts = 0, !.before = costs[r],
                               !.last = reply, !.futile = Futile(r), !.outcome = o,
                               !.spent["generation"] = clock[r] + 1,
                               !.latency = Staged(r, "generation", {}, clock[r] + 1)]
          <5>1. req'[r] = q
            BY <1>1, <3>1, <4>1 DEF Generated
          <5>2. /\ q.last = reply /\ ~q.futile /\ q.outcome = o
                /\ q.pc = "verify" /\ q.route = req[r].route
            BY <1>1, <1>4 DEF ReqType
          <5> QED BY <4>1, <5>1, <5>2
        <4>2. CASE o.kind \notin Complete
          <5> DEFINE q == [New EXCEPT !.route = req[r].route, !.pc = "respond", !.last = reply,
                                      !.futile = Futile(r), !.outcome = o]
          <5>1. req'[r] = q
            BY <1>1, <3>1, <4>2 DEF Generated, Ended
          <5>2. /\ q.last = reply /\ ~q.futile /\ q.outcome = o
                /\ q.pc = "respond" /\ q.route = req[r].route
            BY <1>4 DEF New
          <5> QED BY <5>1, <5>2
        <4> QED BY <4>1, <4>2
      <3>3. req[r].route \in {"answer", "stream"}
        BY <1>1, <2>0 DEF ReqType, HonestSoFar
      <3>4. CASE req[r].route = "answer"
        <4>1. o \in (IF "answer" = "answer" THEN CallOutcomes(provider', reply, hinted)
                     ELSE StreamOutcomes(provider', reply, hinted))
          BY <3>1, <3>4
        <4> QED BY <1>2, <2>0, <3>2, <3>4, <4>1, OutcomesAreHonest DEF HonestSoFar, Honest
      <3>5. CASE req[r].route = "stream"
        <4>1. o \in (IF "stream" = "answer" THEN CallOutcomes(provider', reply, hinted)
                     ELSE StreamOutcomes(provider', reply, hinted))
          BY <3>1, <3>5
        <4> QED BY <1>2, <2>0, <3>2, <3>5, <4>1, OutcomesAreHonest DEF HonestSoFar, Honest
      <3> QED BY <3>3, <3>4, <3>5
    <2> QED BY <1>5, <2>1, <2>2
  <1>7. \A o \in Requests \ {r} : HonestSoFar(o)'
    <2>1. \A o \in Requests \ {r} : req'[o] = req[o]
      BY RequestsApart DEF Serve
    <2> QED BY <1>2, <2>1, OthersHonest
  <1> QED BY <1>6, <1>7 DEF HonestInv

\* The steps of a request that change neither its reply nor its outcome.
LEMMA QuietHonest ==
  ASSUME ServingInv, HonestInv, NEW r \in Requests,
         \/ Loading(r) \/ Resolve(r) \/ Rerank(r) \/ Retrieved(r) \/ Verify(r)
         \/ Search(r) /\ req' # Broken(r)
         \/ Score(r) /\ req' # Broken(r)
  PROVE  HonestSoFar(r)'
  <1> DEFINE Step == /\ req'[r].route = req[r].route /\ req'[r].last = req[r].last
                     /\ req'[r].futile = req[r].futile /\ req'[r].outcome = req[r].outcome
                     /\ provider' = provider
  <1>1. req[r] \in ReqType /\ req \in [Requests -> ReqType] /\ RequestHolds(r)
    BY RequestKnown DEF ServingInv
  <1>2. CASE Loading(r)
    <2>1. Step /\ req'[r].pc = req[r].pc
      BY <1>1, <1>2 DEF Loading, ReqType
    <2>2. req[r].pc \in Calling
      BY <1>1, <1>2 DEF Loading, Load, Acquire, FromCache, FromNetwork, Derive, Publish, Holds,
                        RequestHolds
    <2>3. HonestSoFar(r)
      BY DEF HonestInv
    <2> QED BY <2>1, <2>2, <2>3, GoesOn DEF Calling
  <1>3. CASE Resolve(r) \/ Rerank(r) \/ Retrieved(r)
    <2>1. Step
      BY <1>1, <1>3 DEF Resolve, Rerank, Retrieved, ReqType
    <2>2. req[r].pc \in {"embed", "resolve", "rerank", "retrieved"}
      BY <1>3 DEF Resolve, Rerank, Retrieved, At
    <2>3. /\ req'[r].pc = "generate" => req[r].route # "fact"
          /\ req'[r].pc = "verify" => req[r].route = "fact"
      BY <1>1, <1>3 DEF Resolve, Rerank, Retrieved, ReqType
    <2> QED BY <2>1, <2>2, <2>3, GoesOn
  <1>4. CASE Search(r) /\ req' # Broken(r)
    <2>1. Step /\ req'[r].pc \notin {"generate", "verify"}
      BY <1>1, <1>4 DEF Search, ReqType
    <2>2. req[r].pc = "embed"
      BY <1>4 DEF Search, At
    <2> QED BY <2>1, <2>2, GoesOn
  <1>5. CASE Verify(r) \/ (Score(r) /\ req' # Broken(r))
    <2>1. Step /\ req'[r].pc \in {"score", "scored"}
      BY <1>1, <1>5 DEF Verify, Score, ReqType
    <2>2. req[r].pc \in {"verify", "score"}
      BY <1>5 DEF Verify, Score, At
    <2> QED BY <2>1, <2>2, GoesOn
  <1> QED BY <1>2, <1>3, <1>4, <1>5

LEMMA HonestKept == ServingInv /\ HonestInv /\ [Next]_vars => HonestInv'
  <1> SUFFICES ASSUME ServingInv, HonestInv, [Next]_vars PROVE HonestInv'
    OBVIOUS
  <1>1. ASSUME NEW r \in Requests, Serve(r), ~Generate(r) PROVE HonestInv'
    <2>1. provider' = provider /\ \A o \in Requests \ {r} : req'[o] = req[o]
      <3>1. \A o \in Requests \ {r} : req'[o] = req[o]
        BY <1>1, RequestsApart
      <3>2. provider' = provider
        BY <1>1 DEF Serve, Loading, Search, Resolve, Rerank, Retrieved, Verify, Score, Scored,
                    LoadRaised, Respond
      <3> QED BY <3>1, <3>2
    <2>2. \A o \in Requests \ {r} : HonestSoFar(o)'
      BY <2>1, OthersHonest
    <2>3. HonestSoFar(r) /\ req[r] \in ReqType /\ req \in [Requests -> ReqType]
          /\ RequestHolds(r)
      BY RequestKnown DEF HonestInv, ServingInv
    <2>4. CASE req' = Broken(r) /\ (Search(r) \/ Score(r) \/ LoadRaised(r))
      <3>1. req[r].pc \notin {"new", "done"}
        BY <2>3, <2>4 DEF Search, Score, LoadRaised, At, Holds, RequestHolds, Calling
      <3> QED BY <2>1, <2>2, <2>4, <3>1, BrokenHonest DEF HonestInv
    <2>5. CASE Scored(r)
      <3>1. /\ req'[r].last = req[r].last /\ req'[r].futile = req[r].futile
            /\ req'[r].route = req[r].route
            /\ req'[r].outcome \in {req[r].outcome, Verdict}
            /\ req'[r].pc = "respond" /\ req[r].pc = "scored"
        BY <2>3, <2>5 DEF Scored, At, ReqType
      <3>2. Honest(r)'
        BY <2>1, <2>3, <3>1 DEF HonestSoFar, Honest, Verdict, Complete
      <3>3. HonestSoFar(r)'
        BY <2>1, <2>3, <3>1, <3>2 DEF HonestSoFar
      <3> QED BY <2>2, <3>3 DEF HonestInv
    <2>6. CASE Respond(r)
      <3>1. /\ req'[r].last = "nothing" /\ ~req'[r].futile /\ req'[r].pc = "done"
            /\ req'[r].outcome = NoOutcome
        BY <2>3, <2>6 DEF Respond, New
      <3>2. HonestSoFar(r)'
        BY <3>1 DEF HonestSoFar, Honest, NoOutcome, Complete
      <3> QED BY <2>2, <3>2 DEF HonestInv
    <2>7. CASE /\ ~(req' = Broken(r) /\ (Search(r) \/ Score(r) \/ LoadRaised(r)))
               /\ ~Scored(r) /\ ~Respond(r)
      <3>1. \/ Loading(r) \/ Resolve(r) \/ Rerank(r) \/ Retrieved(r) \/ Verify(r)
            \/ Search(r) /\ req' # Broken(r)
            \/ Score(r) /\ req' # Broken(r)
        <4>1. LoadRaised(r) => req' = Broken(r)
          BY DEF LoadRaised
        <4> QED BY <1>1, <2>7, <4>1 DEF Serve
      <3> QED BY <2>2, <3>1, QuietHonest DEF HonestInv
    <2> QED BY <2>4, <2>5, <2>6, <2>7
  <1>2. ASSUME NEW r \in Requests, Generate(r) PROVE HonestInv'
    BY <1>2, GenerateHonest
  <1>3. ASSUME NEW r \in Requests, NEW route \in Routes[r], Arrive(r, route)
        PROVE  HonestInv'
    <2>1. /\ req[r].pc = "new" /\ req[r] \in ReqType /\ req \in [Requests -> ReqType]
          /\ HonestSoFar(r)
      BY <1>3, RequestKnown DEF Arrive, At, ServingInv, HonestInv
    <2>2. /\ req'[r].last = req[r].last /\ req'[r].futile = req[r].futile
          /\ req'[r].outcome = req[r].outcome /\ req'[r].pc = "embed"
          /\ req'[r].route = route /\ provider' = provider
          /\ \A o \in Requests \ {r} : req'[o] = req[o]
      BY <1>3, <2>1 DEF Arrive, ReqType
    <2>3. route # "none"
      BY ServingAssumption
    <2>4. Honest(r)'
      BY <2>1, <2>2 DEF HonestSoFar, Honest, NoOutcome, Complete
    <2>5. HonestSoFar(r)'
      BY <2>1, <2>2, <2>3, <2>4 DEF HonestSoFar
    <2> QED BY <2>2, <2>5, OthersHonest DEF HonestInv
  <1>4. ASSUME NEW m \in Preloads, Preload(m) PROVE HonestInv'
    BY <1>4, OthersHonest DEF Preload, HonestInv
  <1>5. CASE UNCHANGED vars
    BY <1>5, OthersHonest DEF vars, HonestInv
  <1> QED BY <1>1, <1>2, <1>3, <1>4, <1>5 DEF Next

LEMMA AlwaysHonest == Spec => []HonestInv
  <1>1. ServingInit => HonestInv
    <2> SUFFICES ASSUME ServingInit, NEW r \in Requests PROVE HonestSoFar(r)
      BY DEF HonestInv
    <2>1. req[r] = New
      BY DEF ServingInit
    <2>2. /\ req[r].route = "none" /\ req[r].pc = "new" /\ req[r].last = "nothing"
          /\ ~req[r].futile /\ req[r].outcome = NoOutcome
      BY <2>1 DEF New
    <2> QED BY <2>2 DEF NoOutcome, HonestSoFar, Honest, Complete
  <1> QED BY <1>1, HonestKept, Invariant, PTL DEF Spec

\* An answer stands on the claim set the provider's last reply was, unless it came by a
\* path on which nobody validates what was parsed (gemini.py:163, query_service.py:405-416),
\* and then only on the replies that path lets pass; claims are never made of a refusal
\* or a truncated text; Retry-After only where waiting clears the limit; a quota that is
\* spent is not asked again: for any number of attempts, any deployment and
\* whatever the provider replies (openai_client.py:229-233, errors.py:13-19).
THEOREM Honesty == Spec => []AnswersAreHonest
  <1>1. HonestInv => AnswersAreHonest
    BY DEF HonestInv, HonestSoFar, AnswersAreHonest
  <1> QED BY <1>1, AlwaysHonest, PTL

\* Where every reply is validated, that is with OpenAI alone, no buffered answer is
\* verified that is not the claim set its provider sent: what prompts.py:71-73
\* promises of every provider and gemini.py:163 breaks.
THEOREM ValidatedOnly ==
  Deployments \subseteq {"openai"} => (Spec => []OnlyClaimSetsVerified)
  <1> SUFFICES ASSUME Deployments \subseteq {"openai"} PROVE Spec => []OnlyClaimSetsVerified
    OBVIOUS
  <1>1. ServingInv /\ HonestInv => OnlyClaimSetsVerified
    <2> SUFFICES ASSUME ServingInv, HonestInv, NEW r \in Requests,
                        req[r].pc = "verify", req[r].route = "answer"
                 PROVE  req[r].last = req[r].outcome.kind
      BY DEF OnlyClaimSetsVerified, At
    <2>1. HonestSoFar(r) /\ provider \in {"openai", "open"}
      BY DEF HonestInv, ServingInv
    <2>2. req[r].outcome.kind \in Complete
      BY <2>1 DEF HonestSoFar
    <2>3. CASE provider = "openai"
      <3>1. MayPass(provider, req[r].route) = {}
        BY <2>3 DEF MayPass
      <3> QED BY <2>1, <2>2, <3>1 DEF HonestSoFar, Honest
    <2>4. CASE provider = "open"
      <3>1. req[r].last = "nothing"
        BY <2>1, <2>4 DEF HonestSoFar
      <3> QED BY <2>1, <2>2, <2>4, <3>1 DEF HonestSoFar, Honest, MayPass, Declined, Complete
    <2> QED BY <2>1, <2>3, <2>4
  <1> QED BY <1>1, AlwaysHonest, Invariant, PTL

-----------------------------------------------------------------------------
(* What the latency keys add up to *)

(* The part of a load in progress that timed() has not recorded yet.       *)
Underway(t) == IF frame[t].at \in Inside THEN Now(t) - frame[t].began ELSE 0

(* A step inside a loader costs its thread what the table and the load in  *)
(* progress gain together, and nobody else anything.                       *)
Charged(t) ==
  /\ \A o \in Requests \ {t} :
       frame'[o] = frame[o] /\ clock'[o] = clock[o] /\ costs'[o] = costs[o]
  /\ t \in Requests =>
       /\ costs'[t].scope = costs[t].scope /\ costs'[t].rerank = costs[t].rerank
       /\ costs[t].scope =>
            (costs'[t].model_load + Underway(t)') - (costs[t].model_load + Underway(t))
              = clock'[t] - clock[t]

(* A step that leaves a frame in its load.                                 *)
LEMMA StayingCharged ==
  ASSUME LoadInv, NEW t \in Threads, frame[t].at \in Inside, NEW f \in FrameType,
         frame' = [frame EXCEPT ![t] = f], f.at \in Inside, f.began = frame[t].began,
         clock' = clock \/ clock' = Tick(t, 1), costs' = costs
  PROVE  Charged(t)
  <1>1. frame \in [Threads -> FrameType] /\ Requests \subseteq Threads
    BY ThreadsApart DEF LoadInv, LoadTypeOK, FrameType
  <1>2. /\ frame'[t] = f
        /\ \A o \in Requests \ {t} : frame'[o] = frame[o]
    BY <1>1
  <1>3. clock \in [Requests -> Nat] /\ costs \in [Requests -> CostType]
    BY DEF LoadInv, LoadTypeOK, CostType
  <1>4. \A o \in Requests \ {t} : clock'[o] = clock[o]
    BY <1>3 DEF Tick
  <1>5. ASSUME t \in Requests
        PROVE  (costs'[t].model_load + Underway(t)') - (costs[t].model_load + Underway(t))
                 = clock'[t] - clock[t]
    <2>1. Underway(t) = clock[t] - f.began /\ Underway(t)' = clock'[t] - f.began
      BY <1>2, <1>5 DEF Underway, Now
    <2>2. clock[t] \in Nat /\ clock'[t] \in Nat
      BY <1>3, <1>5 DEF Tick
    <2>3. f.began \in Nat /\ costs[t].model_load \in Nat
      BY <1>3, <1>5 DEF FrameType, CostType
    <2> QED BY <2>1, <2>2, <2>3
  <1> QED BY <1>2, <1>4, <1>5 DEF Charged

(* A step that ends one: timed() records all of it, up to this step.       *)
LEMMA LeavingCharged ==
  ASSUME LoadInv, NEW t \in Threads, frame[t].at \in Inside,
         NEW place \in {"returned", "raised"}, NEW taken \in {0, 1}, Leave(t, place, taken),
         taken = 0 => clock' = clock,
         taken = 1 => clock' = Tick(t, 1)
  PROVE  Charged(t)
  <1>1. /\ frame \in [Threads -> FrameType] /\ Requests \subseteq Threads
        /\ clock \in [Requests -> Nat] /\ costs \in [Requests -> CostType]
    BY ThreadsApart DEF LoadInv, LoadTypeOK, FrameType, CostType
  <1>2. /\ frame'[t].at = place
        /\ \A o \in Requests \ {t} : frame'[o] = frame[o]
    BY <1>1 DEF Leave, FrameType
  <1>3. \A o \in Requests \ {t} : clock'[o] = clock[o]
    BY <1>1 DEF Tick
  <1>4. costs' = Recorded(t, "model_load", Now(t) + taken - frame[t].began)
    BY DEF Leave
  <1>5. \A o \in Requests \ {t} : costs'[o] = costs[o]
    BY <1>1, <1>4 DEF Recorded
  <1>6. ASSUME t \in Requests
        PROVE  /\ costs'[t].scope = costs[t].scope /\ costs'[t].rerank = costs[t].rerank
               /\ costs[t].scope =>
                    (costs'[t].model_load + Underway(t)') - (costs[t].model_load + Underway(t))
                      = clock'[t] - clock[t]
    <2>1. /\ Underway(t) = clock[t] - frame[t].began /\ Underway(t)' = 0
          /\ clock'[t] = clock[t] + taken
      BY <1>1, <1>2, <1>6 DEF Underway, Now, Inside, Tick
    <2>2. CASE ~costs[t].scope
      BY <1>4, <2>2 DEF Recorded
    <2>3. CASE costs[t].scope
      <3>1. costs' = [costs EXCEPT ![t] =
                       [costs[t] EXCEPT !["model_load"] = @ + (clock[t] + taken - frame[t].began)]]
        BY <1>1, <1>4, <1>6, <2>3 DEF Recorded, Now
      <3>2. costs'[t] = [costs[t] EXCEPT !.model_load = @ + (clock[t] + taken - frame[t].began)]
        BY <1>1, <1>6, <3>1
      <3>3. /\ costs'[t].scope = costs[t].scope /\ costs'[t].rerank = costs[t].rerank
            /\ costs'[t].model_load
                 = costs[t].model_load + (clock[t] + taken - frame[t].began)
        BY <1>1, <1>6, <3>2 DEF CostType
      <3>4. /\ clock[t] \in Nat /\ frame[t].began \in Nat /\ costs[t].model_load \in Nat
            /\ taken \in Nat
        BY <1>1, <1>6 DEF FrameType, CostType
      <3> QED BY <2>1, <3>3, <3>4
    <2> QED BY <2>2, <2>3
  <1> QED BY <1>2, <1>3, <1>5, <1>6 DEF Charged

LEMMA ConstructedCharged ==
  ASSUME LoadInv, NEW t \in Threads, frame[t].at \in {"cache", "network"}, Constructed(t)
  PROVE  Charged(t)
  <1>1. frame[t].at \in Inside /\ frame[t] \in FrameType
    BY DEF Inside, LoadInv, LoadTypeOK, FrameType
  <1>2. CASE frame[t].model = "nli"
    <2> DEFINE f == [frame[t] EXCEPT !.at = "derive"]
    <2>1. f \in FrameType /\ f.at \in Inside /\ f.began = frame[t].began
      BY <1>1 DEF FrameType, Places, Inside
    <2>2. frame' = [frame EXCEPT ![t] = f] /\ costs' = costs /\ clock' = Tick(t, 1)
      BY <1>2 DEF Constructed, LoadInv, LoadTypeOK
    <2> HIDE DEF f
    <2> QED BY <1>1, <2>1, <2>2, StayingCharged
  <1>3. CASE frame[t].model # "nli"
    BY <1>1, <1>3, LeavingCharged DEF Constructed
  <1> QED BY <1>2, <1>3

LEMMA LoadCharged ==
  ASSUME LoadInv, NEW t \in Threads, Load(t)
  PROVE  Charged(t)
  <1>0. /\ frame \in [Threads -> FrameType] /\ Requests \subseteq Threads
        /\ clock \in [Requests -> Nat] /\ costs \in [Requests -> CostType]
    BY ThreadsApart DEF LoadInv, LoadTypeOK, FrameType, CostType
  <1>1. CASE Acquire(t)
    <2>1. /\ frame[t].at = "lock" /\ UNCHANGED <<clock, costs>>
          /\ \A o \in Requests \ {t} : frame'[o] = frame[o]
      BY <1>0, <1>1 DEF Acquire, Holds
    <2>2. frame'[t].at = "returned" \/ (frame'[t].at = "cache" /\ frame'[t].began = Now(t))
      BY <1>0, <1>1 DEF Acquire, FrameType
    <2>3. ASSUME t \in Requests PROVE Underway(t) = 0 /\ Underway(t)' = 0
      <3>1. Now(t) \in Nat /\ Now(t)' = Now(t)
        BY <1>0, <2>1, <2>3 DEF Now
      <3> QED BY <2>1, <2>2, <3>1 DEF Underway, Inside
    <2>4. t \in Requests => costs[t].model_load \in Nat /\ clock[t] \in Nat
      BY <1>0 DEF CostType
    <2> QED BY <2>1, <2>3, <2>4 DEF Charged
  <1>2. CASE FromCache(t)
    <2>1. CASE Constructed(t)
      BY <1>2, <2>1, ConstructedCharged DEF FromCache, Holds
    <2>2. CASE ~Constructed(t)
      <3> DEFINE f == [frame[t] EXCEPT !.at = "network"]
      <3>1. f \in FrameType /\ f.at \in Inside /\ f.began = frame[t].began
        BY <1>0 DEF FrameType, Places, Inside
      <3>2. /\ frame' = [frame EXCEPT ![t] = f] /\ UNCHANGED <<costs, clock>>
            /\ frame[t].at \in Inside
        BY <1>0, <1>2, <2>2 DEF FromCache, Holds, Inside
      <3> HIDE DEF f
      <3> QED BY <3>1, <3>2, StayingCharged
    <2> QED BY <2>1, <2>2
  <1>3. CASE FromNetwork(t)
    <2>1. CASE Constructed(t)
      BY <1>3, <2>1, ConstructedCharged DEF FromNetwork, Holds
    <2>2. CASE ~Constructed(t)
      BY <1>3, <2>2, LeavingCharged DEF FromNetwork, Holds, Inside
    <2> QED BY <2>1, <2>2
  <1>4. CASE Derive(t)
    <2>1. frame[t].at \in Inside /\ clock' = clock
      BY <1>4 DEF Derive, Holds, Inside
    <2>2. CASE frame' = [frame EXCEPT ![t].at = "publish"] /\ UNCHANGED costs
      <3> DEFINE f == [frame[t] EXCEPT !.at = "publish"]
      <3>1. f \in FrameType /\ f.at \in Inside /\ f.began = frame[t].began
        BY <1>0 DEF FrameType, Places, Inside
      <3>2. frame' = [frame EXCEPT ![t] = f]
        BY <1>0, <2>2
      <3> HIDE DEF f
      <3> QED BY <2>1, <2>2, <3>1, <3>2, StayingCharged
    <2>3. CASE Leave(t, "raised", 0)
      BY <2>1, <2>3, LeavingCharged
    <2> QED BY <1>4, <2>2, <2>3 DEF Derive
  <1>5. CASE Publish(t)
    BY <1>5, LeavingCharged DEF Publish, Holds, Inside
  <1> QED BY <1>1, <1>2, <1>3, <1>4, <1>5 DEF Load

Retrieving == {"embed", "resolve", "rerank", "retrieved"}
Verifying  == {"verify", "score", "scored"}

(* Where a request's time is, at each place of its code: what the open     *)
(* stage has loaded and reranked since its snapshot is in the table or     *)
(* underway, and the rest of its clock is the stage's own.                 *)
Kept(q, loaded, reranked, time) ==
  /\ q.pc \in Retrieving =>
       /\ q.latency = Nothing
       /\ q.spent["retrieval"] + loaded + reranked = time
       /\ q.spent["model_load"] = loaded /\ q.spent["rerank"] = reranked
       /\ q.spent["generation"] = 0 /\ q.spent["verification"] = 0
  /\ q.pc \in {"generate", "respond"} => q.latency = q.spent
  /\ q.pc = "generate" => q.spent["verification"] = 0
  /\ q.pc \in Verifying =>
       /\ q.spent["verification"] + loaded = time
       /\ q.spent["model_load"] = q.latency["model_load"] + loaded
       /\ \A k \in {"retrieval", "rerank", "generation"} : q.spent[k] = q.latency[k]

Loaded(r)   == costs[r].model_load - req[r].before.model_load + Underway(r)
Reranked(r) == costs[r].rerank - req[r].before.rerank

TimeKept(r) ==
  /\ req[r].pc = "new" => req[r] = New /\ clock[r] = 0
  /\ costs[r].scope => Kept(req[r], Loaded(r), Reranked(r), clock[r])

TimeInv == \A r \in Requests : TimeKept(r)

LEMMA OthersTimed ==
  ASSUME TimeInv, NEW o \in Requests, req'[o] = req[o], frame'[o] = frame[o],
         clock'[o] = clock[o], costs'[o] = costs[o]
  PROVE  TimeKept(o)'
  <1>1. TimeKept(o)
    BY DEF TimeInv
  <1>2. Underway(o)' = Underway(o)
    BY DEF Underway, Now
  <1>3. Loaded(o)' = Loaded(o) /\ Reranked(o)' = Reranked(o)
    BY <1>2 DEF Loaded, Reranked
  <1> QED BY <1>1, <1>3 DEF TimeKept

LEMMA ServeApart ==
  ASSUME ServingInv, NEW r \in Requests, Serve(r)
  PROVE  \A o \in Requests \ {r} : /\ req'[o] = req[o] /\ frame'[o] = frame[o]
                                   /\ clock'[o] = clock[o] /\ costs'[o] = costs[o]
  <1>1. \A o \in Requests \ {r} : req'[o] = req[o]
    BY RequestsApart
  <1>2. /\ frame \in [Threads -> FrameType] /\ Requests \subseteq Threads
        /\ clock \in [Requests -> Nat] /\ costs \in [Requests -> CostType] /\ LoadInv
    BY ThreadsApart DEF ServingInv, LoadInv, LoadTypeOK, FrameType, CostType
  <1>3. CASE Loading(r)
    <2>1. Charged(r)
      BY <1>2, <1>3, LoadCharged DEF Loading
    <2> QED BY <1>1, <2>1 DEF Charged
  <1>4. CASE ~Loading(r)
    <2>1. \A o \in Requests \ {r} : frame'[o] = frame[o]
      BY <1>2, <1>4 DEF Serve, Search, Resolve, Rerank, Retrieved, Generate, Verify, Score,
                        Scored, LoadRaised, Respond, loadVars
    <2>2. \A o \in Requests \ {r} : clock'[o] = clock[o]
      BY <1>2, <1>4 DEF Serve, Search, Resolve, Rerank, Retrieved, Generate, Verify, Score,
                        Scored, LoadRaised, Respond, loadVars, Tick
    <2>3. \A o \in Requests \ {r} : costs'[o] = costs[o]
      BY <1>2, <1>4 DEF Serve, Search, Resolve, Rerank, Retrieved, Generate, Verify, Score,
                        Scored, LoadRaised, Respond, loadVars, Recorded
    <2> QED BY <1>1, <2>1, <2>2, <2>3
  <1> QED BY <1>3, <1>4

(* A request outside every load has none underway.                         *)
LEMMA NotUnderway ==
  ASSUME ServingInv, NEW r \in Requests, frame[r].at \notin Inside
  PROVE  /\ Underway(r) = 0
         /\ Loaded(r) = costs[r].model_load - req[r].before.model_load
         /\ Loaded(r) \in Nat /\ Reranked(r) \in Nat
  <1>1. Underway(r) = 0
    BY DEF Underway
  <1>2. /\ costs[r].model_load \in Nat /\ costs[r].rerank \in Nat
        /\ req[r].before.model_load \in Nat /\ req[r].before.rerank \in Nat
    BY RequestKnown DEF ReqType, CostType
  <1> QED BY <1>1, <1>2, SnapshotFacts DEF Loaded, Reranked

LEMMA SameOnKeys ==
  ASSUME NEW f \in [Keys -> Nat], NEW g \in [Keys -> Nat],
         f["retrieval"] = g["retrieval"], f["rerank"] = g["rerank"],
         f["model_load"] = g["model_load"], f["generation"] = g["generation"],
         f["verification"] = g["verification"]
  PROVE  f = g
  BY DEF Keys

(* An exception takes what was measured with it.                           *)
LEMMA BrokenTimed ==
  ASSUME ServingInv, NEW r \in Requests, NEW outcome, NEW last, NEW futile,
         req' = Ended(r, outcome, last, futile)
  PROVE  TimeKept(r)'
  <1>1. req'[r].pc = "respond" /\ req'[r].latency = Nothing /\ req'[r].spent = Nothing
    BY DEF Ended, New, ServingInv
  <1> QED BY <1>1 DEF TimeKept, Kept, Retrieving, Verifying

LEMMA LoadingTimed ==
  ASSUME ServingInv, TimeInv, NEW r \in Requests, Loading(r)
  PROVE  TimeKept(r)'
  <1>1. /\ LoadInv /\ r \in Threads /\ Load(r) /\ TimeKept(r) /\ req[r] \in ReqType
        /\ costs[r] \in CostType /\ clock[r] \in Nat /\ frame[r] \in FrameType
        /\ req \in [Requests -> ReqType]
    BY RequestKnown DEF ServingInv, Loading, TimeInv
  <1>2. Charged(r) /\ Advanced(r)
    BY <1>1, LoadCharged, LoadAdvances
  <1>3. req[r].pc \in Calling
    BY <1>2, RequestKnown DEF Advanced, Inside
  <1> DEFINE d == clock'[r] - clock[r]
  <1>4. /\ clock'[r] \in Nat /\ costs'[r] \in CostType /\ frame'[r] \in FrameType
    BY <1>1, <1>2 DEF Advanced, LoadInv, LoadTypeOK, CostType, FrameType
  <1>5. /\ req'[r].pc = req[r].pc /\ req'[r].before = req[r].before
        /\ req'[r].latency = req[r].latency
        /\ req'[r].spent["model_load"] = req[r].spent["model_load"] + clock'[r] - clock[r]
        /\ \A k \in Keys \ {"model_load"} : req'[r].spent[k] = req[r].spent[k]
    BY <1>1 DEF Loading, ReqType, Keys
  <1>6. ASSUME costs'[r].scope
        PROVE  Kept(req[r], Loaded(r), Reranked(r), clock[r])'
    <2>1. costs[r].scope
      BY <1>2, <1>6 DEF Charged
    <2>2. Underway(r) \in Int /\ Underway(r)' \in Int
      BY <1>1, <1>4 DEF Underway, Now, FrameType
    <2>3. Loaded(r)' - Loaded(r) = clock'[r] - clock[r]
          /\ Loaded(r) \in Int /\ Loaded(r)' \in Int
      <3>1. (costs'[r].model_load + Underway(r)') - (costs[r].model_load + Underway(r))
              = clock'[r] - clock[r]
        BY <1>2, <2>1 DEF Charged
      <3>2. /\ costs[r].model_load \in Nat /\ costs'[r].model_load \in Nat
            /\ req[r].before.model_load \in Nat
        BY <1>1, <1>4 DEF CostType, ReqType
      <3> QED BY <1>5, <2>2, <3>1, <3>2 DEF Loaded
    <2>4. Reranked(r)' = Reranked(r) /\ Reranked(r) \in Int
      BY <1>1, <1>2, <1>5 DEF Reranked, Charged, CostType, ReqType
    <2>5. Kept(req[r], Loaded(r), Reranked(r), clock[r])
      BY <1>1, <2>1 DEF TimeKept
    <2>6. \A k \in Keys : req[r].spent[k] \in Nat /\ req[r].latency[k] \in Nat
      BY <1>1 DEF ReqType
    <2>7. CASE req[r].pc \in Retrieving
      <3>1. /\ req[r].latency = Nothing
            /\ req[r].spent["retrieval"] + Loaded(r) + Reranked(r) = clock[r]
            /\ req[r].spent["model_load"] = Loaded(r) /\ req[r].spent["rerank"] = Reranked(r)
            /\ req[r].spent["generation"] = 0 /\ req[r].spent["verification"] = 0
        BY <2>5, <2>7 DEF Kept
      <3>2. req'[r].spent["retrieval"] + Loaded(r)' + Reranked(r)' = clock'[r]
        BY <1>1, <1>4, <1>5, <2>3, <2>4, <2>6, <3>1 DEF Keys
      <3>3. req'[r].spent["model_load"] = Loaded(r)'
        BY <1>1, <1>4, <1>5, <2>3, <3>1
      <3>4. req[r].pc \notin Verifying /\ req[r].pc \notin {"generate", "respond"}
        BY <2>7 DEF Retrieving, Verifying
      <3> QED BY <1>5, <2>4, <3>1, <3>2, <3>3, <3>4 DEF Kept, Keys
    <2>8. CASE req[r].pc \in Verifying
      <3>1. /\ req[r].spent["verification"] + Loaded(r) = clock[r]
            /\ req[r].spent["model_load"] = req[r].latency["model_load"] + Loaded(r)
            /\ \A k \in {"retrieval", "rerank", "generation"} :
                 req[r].spent[k] = req[r].latency[k]
        BY <2>5, <2>8 DEF Kept
      <3>2. req'[r].spent["verification"] + Loaded(r)' = clock'[r]
        BY <1>1, <1>4, <1>5, <2>3, <2>6, <3>1 DEF Keys
      <3>3. req'[r].spent["model_load"] = req'[r].latency["model_load"] + Loaded(r)'
        BY <1>1, <1>4, <1>5, <2>3, <2>6, <3>1 DEF Keys
      <3>4. req[r].pc \notin Retrieving /\ req[r].pc \notin {"generate", "respond"}
        BY <2>8 DEF Retrieving, Verifying
      <3> QED BY <1>5, <3>1, <3>2, <3>3, <3>4 DEF Kept, Keys
    <2> QED BY <1>3, <2>7, <2>8 DEF Calling, Retrieving, Verifying
  <1> QED BY <1>3, <1>5, <1>6 DEF TimeKept, Calling

LEMMA ArriveTimed ==
  ASSUME ServingInv, TimeInv, NEW r \in Requests, NEW route \in Routes[r], Arrive(r, route)
  PROVE  TimeKept(r)'
  <1>1. /\ req[r].pc = "new" /\ req[r] = New /\ clock[r] = 0 /\ req \in [Requests -> ReqType]
        /\ frame \in [Threads -> FrameType] /\ r \in Threads
        /\ costs \in [Requests -> CostType]
    BY ThreadsApart DEF Arrive, At, TimeInv, TimeKept, ServingInv, LoadInv, LoadTypeOK,
                        FrameType, CostType
  <1>2. /\ req'[r].pc = "embed" /\ req'[r].before = NoCosts /\ req'[r].latency = Nothing
        /\ req'[r].spent = Nothing
    BY <1>1 DEF Arrive, New
  <1>3. frame'[r].at \notin Inside /\ clock'[r] = 0
    BY <1>1, FrameFacts DEF Arrive, Models, Inside
  <1>4. costs'[r].model_load = 0 /\ costs'[r].rerank = 0
    BY <1>1 DEF Arrive, NoCosts
  <1>5. Loaded(r)' = 0 /\ Reranked(r)' = 0
    BY <1>2, <1>3, <1>4, RequestFacts DEF Loaded, Reranked, Underway
  <1> QED BY <1>2, <1>3, <1>5 DEF TimeKept, Kept, Nothing, Keys, Verifying

LEMMA RetrievalTimed ==
  ASSUME ServingInv, TimeInv, NEW r \in Requests, Search(r) \/ Resolve(r) \/ Rerank(r)
  PROVE  TimeKept(r)'
  <1>1. /\ TimeKept(r) /\ req[r] \in ReqType /\ costs[r] \in CostType /\ clock[r] \in Nat
        /\ frame \in [Threads -> FrameType] /\ r \in Threads
        /\ req \in [Requests -> ReqType] /\ clock \in [Requests -> Nat]
        /\ costs \in [Requests -> CostType]
    BY RequestKnown DEF TimeInv, ServingInv, LoadInv, LoadTypeOK, FrameType
  <1>2. req[r].pc \in Retrieving /\ frame[r].at \notin Inside /\ frame'[r].at \notin Inside
    <2>1. CASE Search(r)
      BY <1>1, <2>1, FrameFacts DEF Search, At, Holds, Retrieving, Inside, Models
    <2>2. CASE Resolve(r)
      BY <1>1, <2>2, FrameFacts DEF Resolve, At, Holds, Retrieving, Inside
    <2>3. CASE Rerank(r)
      BY <1>1, <2>3, RequestKnown DEF Rerank, At, Retrieving, Inside, Calling
    <2> QED BY <2>1, <2>2, <2>3
  <1>3. /\ Loaded(r) = costs[r].model_load - req[r].before.model_load
        /\ Loaded(r) \in Nat /\ Reranked(r) \in Nat /\ Underway(r)' = 0
    BY <1>2, NotUnderway DEF Underway
  <1>4. costs[r].scope =>
          /\ req[r].latency = Nothing
          /\ req[r].spent["retrieval"] + Loaded(r) + Reranked(r) = clock[r]
          /\ req[r].spent["model_load"] = Loaded(r) /\ req[r].spent["rerank"] = Reranked(r)
          /\ req[r].spent["generation"] = 0 /\ req[r].spent["verification"] = 0
    BY <1>1, <1>2 DEF TimeKept, Kept
  <1>5. \A k \in Keys : req[r].spent[k] \in Nat
    BY <1>1 DEF ReqType
  <1>6. CASE Search(r)
    <2>1. CASE req' = Broken(r)
      BY <2>1, BrokenTimed DEF Broken
    <2>2. CASE req' # Broken(r)
      <3>1. /\ req'[r].pc \in Retrieving /\ req'[r].before = req[r].before
            /\ req'[r].latency = req[r].latency
            /\ req'[r].spent["retrieval"] = req[r].spent["retrieval"] + 1
            /\ \A k \in Keys \ {"retrieval"} : req'[r].spent[k] = req[r].spent[k]
        BY <1>1, <1>6, <2>2 DEF Search, ReqType, Retrieving, Keys
      <3>2. clock'[r] = clock[r] + 1 /\ costs' = costs
        BY <1>1, <1>6 DEF Search, Tick
      <3>3. Loaded(r)' = Loaded(r) /\ Reranked(r)' = Reranked(r)
        BY <1>1, <1>3, <3>1, <3>2 DEF Loaded, Reranked, CostType, ReqType
      <3>4. costs'[r].scope =>
              req'[r].spent["retrieval"] + Loaded(r)' + Reranked(r)' = clock'[r]
        BY <1>1, <1>3, <1>4, <1>5, <3>1, <3>2, <3>3 DEF Keys
      <3> QED BY <1>4, <3>1, <3>2, <3>3, <3>4
              DEF TimeKept, Kept, Retrieving, Verifying, Keys
    <2> QED BY <2>1, <2>2
  <1>7. CASE Resolve(r)
    <2>1. /\ req'[r].pc = "rerank" /\ req'[r].before = req[r].before
          /\ req'[r].latency = req[r].latency /\ req'[r].spent = req[r].spent
          /\ UNCHANGED <<clock, costs>>
      BY <1>1, <1>7 DEF Resolve, ReqType
    <2>2. Loaded(r)' = Loaded(r) /\ Reranked(r)' = Reranked(r)
      BY <1>1, <1>3, <2>1 DEF Loaded, Reranked, CostType, ReqType
    <2> QED BY <1>4, <2>1, <2>2 DEF TimeKept, Kept, Verifying
  <1>8. CASE Rerank(r)
    <2>1. /\ req'[r].pc = "retrieved" /\ req'[r].before = req[r].before
          /\ req'[r].latency = req[r].latency
          /\ req'[r].spent["rerank"] = req[r].spent["rerank"] + 1
          /\ \A k \in Keys \ {"rerank"} : req'[r].spent[k] = req[r].spent[k]
      BY <1>1, <1>8 DEF Rerank, ReqType, Keys
    <2>2. clock'[r] = clock[r] + 1
      BY <1>1, <1>8 DEF Rerank, Tick
    <2>3. /\ costs'[r].scope = costs[r].scope
          /\ costs'[r].model_load = costs[r].model_load
          /\ costs[r].scope => costs'[r].rerank = costs[r].rerank + 1
      BY <1>1, <1>8 DEF Rerank, Recorded, CostType
    <2>4. /\ Loaded(r)' = Loaded(r)
          /\ costs[r].scope => Reranked(r)' = Reranked(r) + 1
      BY <1>1, <1>3, <2>1, <2>3 DEF Loaded, Reranked, CostType, ReqType
    <2>5. costs'[r].scope =>
            /\ req'[r].spent["retrieval"] + Loaded(r)' + Reranked(r)' = clock'[r]
            /\ req'[r].spent["rerank"] = Reranked(r)'
      BY <1>1, <1>3, <1>4, <1>5, <2>1, <2>2, <2>3, <2>4 DEF Keys
    <2> QED BY <1>4, <2>1, <2>3, <2>4, <2>5 DEF TimeKept, Kept, Verifying, Keys
  <1> QED BY <1>6, <1>7, <1>8

(* The retrieval stage reports the time that went into nothing else.       *)
LEMMA RetrievedTimed ==
  ASSUME ServingInv, TimeInv, NEW r \in Requests, Retrieved(r)
  PROVE  TimeKept(r)'
  <1> DEFINE nested == IF costs[r].scope THEN {"rerank", "model_load"} ELSE {}
             staged == Staged(r, "retrieval", nested, clock[r])
  <1>1. /\ TimeKept(r) /\ req[r] \in ReqType /\ clock[r] \in Nat /\ costs[r] \in CostType
        /\ req[r].pc = "retrieved" /\ req \in [Requests -> ReqType]
        /\ clock \in [Requests -> Nat]
    BY RequestKnown DEF TimeInv, ServingInv, Retrieved, At
  <1>2. frame[r].at \notin Inside /\ frame' = frame
    BY <1>1, RequestKnown DEF Retrieved, Inside, Calling
  <1>3. /\ req'[r].latency = staged /\ req'[r].before = costs[r]
        /\ req'[r].spent = req[r].spent /\ req'[r].pc \in {"verify", "generate"}
    BY <1>1 DEF Retrieved, ReqType
  <1>4. clock'[r] = 0 /\ costs' = costs
    BY <1>1 DEF Retrieved
  <1>5. /\ Loaded(r) = costs[r].model_load - req[r].before.model_load
        /\ Loaded(r) \in Nat /\ Reranked(r) \in Nat
    BY <1>2, NotUnderway
  <1>6. Loaded(r)' = 0
    BY <1>1, <1>2, <1>3, <1>4 DEF Loaded, Underway, CostType
  <1>7. ASSUME costs[r].scope
        PROVE  staged = req[r].spent /\ req[r].spent["verification"] = 0
    <2>1. /\ req[r].latency = Nothing
          /\ req[r].spent["retrieval"] + Loaded(r) + Reranked(r) = clock[r]
          /\ req[r].spent["model_load"] = Loaded(r) /\ req[r].spent["rerank"] = Reranked(r)
          /\ req[r].spent["generation"] = 0 /\ req[r].spent["verification"] = 0
      BY <1>1, <1>7 DEF TimeKept, Kept, Retrieving
    <2>2. clock[r] - Reranked(r) - Loaded(r) = req[r].spent["retrieval"]
          /\ req[r].spent["retrieval"] \in Nat /\ req[r].spent \in [Keys -> Nat]
      BY <1>1, <1>5, <2>1 DEF ReqType, Keys
    <2>3. staged = [k \in Keys |->
                      IF k \in {"rerank", "model_load"}
                      THEN req[r].latency[k] + (costs[r][k] - req[r].before[k])
                      ELSE IF k = "retrieval" THEN req[r].spent["retrieval"]
                      ELSE req[r].latency[k]]
      BY <1>5, <1>7, <2>2 DEF Staged, Reranked
    <2> HIDE DEF staged
    <2>4. staged["retrieval"] = req[r].spent["retrieval"] /\ staged["generation"] = 0
          /\ staged["verification"] = 0
      BY <2>1, <2>3 DEF Keys, Nothing
    <2>5. staged["rerank"] = 0 + Reranked(r) /\ staged["model_load"] = 0 + Loaded(r)
      BY <1>5, <2>1, <2>3 DEF Keys, Nothing, Reranked
    <2>6. staged \in [Keys -> Nat]
      <3>1. \A k \in Keys : k \in {"retrieval", "rerank", "model_load", "generation",
                                   "verification"}
        BY DEF Keys
      <3> QED BY <1>5, <2>2, <2>3, <2>4, <2>5, <3>1
    <2> QED BY <1>5, <2>1, <2>2, <2>4, <2>5, <2>6, SameOnKeys
  <1> HIDE DEF staged
  <1>8. \A k \in Keys : req[r].spent[k] \in Nat
    BY <1>1 DEF ReqType
  <1>9. ASSUME costs'[r].scope
        PROVE  Kept(req[r], Loaded(r), Reranked(r), clock[r])'
    <2>1. /\ req'[r].latency = req[r].spent /\ req[r].spent["verification"] = 0
      BY <1>3, <1>4, <1>7, <1>9
    <2> QED BY <1>3, <1>4, <1>6, <1>8, <2>1 DEF Kept, Retrieving, Keys
  <1> QED BY <1>3, <1>9 DEF TimeKept

(* Generation loads nothing, so its stage is its clock.                    *)
LEMMA GenerateTimed ==
  ASSUME ServingInv, TimeInv, NEW r \in Requests, Generate(r)
  PROVE  TimeKept(r)'
  <1>1. /\ TimeKept(r) /\ req[r] \in ReqType /\ clock[r] \in Nat /\ costs[r] \in CostType
        /\ req[r].pc = "generate" /\ req \in [Requests -> ReqType]
        /\ clock \in [Requests -> Nat] /\ UNCHANGED <<frame, costs>>
    BY RequestKnown DEF TimeInv, ServingInv, Generate, At
  <1>2. frame[r].at \notin Inside
    BY <1>1, RequestKnown DEF Inside, Calling
  <1>3. costs[r].scope =>
          req[r].latency = req[r].spent /\ req[r].spent["verification"] = 0
    BY <1>1 DEF TimeKept, Kept
  <1>4. PICK reply \in Replies, hinted \in BOOLEAN :
          \/ req' = [req EXCEPT ![r].attempts = @ + 1, ![r].last = reply,
                                ![r].futile = Futile(r)]
          \/ /\ \E o : Generated(r, reply, o)
             /\ clock' = [clock EXCEPT ![r] = 0]
    BY DEF Generate
  <1>5. CASE req' = [req EXCEPT ![r].attempts = @ + 1, ![r].last = reply,
                                ![r].futile = Futile(r)]
    <2>1. /\ req'[r].pc = "generate" /\ req'[r].latency = req[r].latency
          /\ req'[r].spent = req[r].spent
      BY <1>1, <1>5 DEF ReqType
    <2> QED BY <1>1, <1>3, <2>1 DEF TimeKept, Kept, Retrieving, Verifying
  <1>6. CASE /\ \E o : Generated(r, reply, o)
             /\ clock' = [clock EXCEPT ![r] = 0]
    <2>1. PICK o : Generated(r, reply, o)
      BY <1>6
    <2>2. CASE o.kind \notin Complete
      BY <2>1, <2>2, BrokenTimed DEF Generated
    <2>3. CASE o.kind \in Complete
      <3> DEFINE staged == Staged(r, "generation", {}, clock[r] + 1)
                 q == [req[r] EXCEPT !.pc = "verify", !.attempts = 0, !.before = costs[r],
                         !.last = reply, !.futile = Futile(r), !.outcome = o,
                         !.spent["generation"] = clock[r] + 1, !.latency = staged]
      <3>1. req'[r] = q
        BY <1>1, <2>1, <2>3 DEF Generated
      <3>2. /\ q.pc = "verify" /\ q.before = costs[r] /\ q.latency = staged
            /\ q.spent = [req[r].spent EXCEPT !["generation"] = clock[r] + 1]
        BY <1>1 DEF ReqType
      <3>3. /\ staged["generation"] = clock[r] + 1
            /\ \A k \in Keys \ {"generation"} : staged[k] = req[r].latency[k]
        BY <1>1 DEF Staged, Keys
      <3> HIDE DEF q, staged
      <3>4. Loaded(r)' = 0 /\ clock'[r] = 0
        BY <1>1, <1>2, <1>6, <3>1, <3>2 DEF Loaded, Underway, CostType
      <3>5. /\ q.spent["generation"] = clock[r] + 1
            /\ \A k \in Keys \ {"generation"} : q.spent[k] = req[r].spent[k]
        BY <1>1, <3>2 DEF ReqType, Keys
      <3>6. \A k \in Keys : req[r].spent[k] \in Nat
        BY <1>1 DEF ReqType
      <3>7. ASSUME costs'[r].scope
            PROVE  Kept(req[r], Loaded(r), Reranked(r), clock[r])'
        <4>1. \A k \in Keys : staged[k] = q.spent[k]
          BY <1>1, <1>3, <3>3, <3>5, <3>7
        <4>2. q.spent["verification"] = 0
          BY <1>1, <1>3, <3>5, <3>7 DEF Keys
        <4> QED BY <3>1, <3>2, <3>4, <3>5, <3>6, <4>1, <4>2 DEF Kept, Retrieving, Keys
      <3> QED BY <3>1, <3>2, <3>7 DEF TimeKept
    <2> QED BY <2>2, <2>3
  <1> QED BY <1>4, <1>5, <1>6

LEMMA VerificationTimed ==
  ASSUME ServingInv, TimeInv, NEW r \in Requests, Verify(r) \/ Score(r)
  PROVE  TimeKept(r)'
  <1>1. /\ TimeKept(r) /\ req[r] \in ReqType /\ clock[r] \in Nat /\ costs[r] \in CostType
        /\ req \in [Requests -> ReqType] /\ clock \in [Requests -> Nat]
        /\ frame \in [Threads -> FrameType] /\ r \in Threads /\ costs' = costs
    BY RequestKnown DEF TimeInv, ServingInv, LoadInv, LoadTypeOK, FrameType, Verify, Score
  <1>2. /\ req[r].pc \in Verifying /\ req[r].pc \notin Retrieving
        /\ frame[r].at \notin Inside /\ frame'[r].at \notin Inside
    <2>1. CASE Verify(r)
      <3>1. req[r].pc = "verify" /\ frame[r].at = "out"
        BY <2>1, RequestKnown DEF Verify, At, Calling
      <3>2. frame'[r].at \in {"out", "lock"}
        BY <1>1, <2>1, <3>1, FrameFacts DEF Verify, Models
      <3> QED BY <3>1, <3>2 DEF Verifying, Retrieving, Inside
    <2>2. CASE Score(r)
      BY <1>1, <2>2, FrameFacts DEF Score, At, Holds, Verifying, Retrieving, Inside
    <2> QED BY <2>1, <2>2
  <1>3. /\ Loaded(r) = costs[r].model_load - req[r].before.model_load
        /\ Loaded(r) \in Nat /\ Underway(r)' = 0
    BY <1>2, NotUnderway DEF Underway
  <1>4. costs[r].scope =>
          /\ req[r].spent["verification"] + Loaded(r) = clock[r]
          /\ req[r].spent["model_load"] = req[r].latency["model_load"] + Loaded(r)
          /\ \A k \in {"retrieval", "rerank", "generation"} :
               req[r].spent[k] = req[r].latency[k]
    BY <1>1, <1>2 DEF TimeKept, Kept
  <1>5. \A k \in Keys : req[r].spent[k] \in Nat
    BY <1>1 DEF ReqType
  <1>6. CASE Verify(r)
    <2>1. /\ req'[r].pc \in {"score", "scored"} /\ req'[r].before = req[r].before
          /\ req'[r].latency = req[r].latency /\ req'[r].spent = req[r].spent
          /\ clock' = clock
      BY <1>1, <1>6 DEF Verify, ReqType
    <2>2. Loaded(r)' = Loaded(r)
      BY <1>1, <1>3, <2>1 DEF Loaded, CostType, ReqType
    <2> QED BY <1>1, <1>4, <2>1, <2>2 DEF TimeKept, Kept, Retrieving
  <1>7. CASE Score(r) /\ req' # Broken(r)
    <2>1. /\ req'[r].pc = "scored" /\ req'[r].before = req[r].before
          /\ req'[r].latency = req[r].latency
          /\ req'[r].spent["verification"] = req[r].spent["verification"] + 1
          /\ \A k \in Keys \ {"verification"} : req'[r].spent[k] = req[r].spent[k]
      BY <1>1, <1>7 DEF Score, ReqType, Keys
    <2>2. clock'[r] = clock[r] + 1
      BY <1>1, <1>7 DEF Score, Tick
    <2>3. Loaded(r)' = Loaded(r)
      BY <1>1, <1>3, <2>1 DEF Loaded, CostType, ReqType
    <2>4. costs'[r].scope => req'[r].spent["verification"] + Loaded(r)' = clock'[r]
      BY <1>1, <1>3, <1>4, <1>5, <2>1, <2>2, <2>3 DEF Keys
    <2> QED BY <1>1, <1>4, <2>1, <2>3, <2>4 DEF TimeKept, Kept, Retrieving, Keys
  <1>8. CASE req' = Broken(r)
    BY <1>8, BrokenTimed DEF Broken
  <1> QED BY <1>6, <1>7, <1>8

(* The verification stage reports what is left of it without its loads.    *)
LEMMA ScoredTimed ==
  ASSUME ServingInv, TimeInv, NEW r \in Requests, Scored(r)
  PROVE  TimeKept(r)'
  <1> DEFINE nested == IF costs[r].scope THEN {"model_load"} ELSE {}
             staged == Staged(r, "verification", nested, clock[r])
  <1>1. /\ TimeKept(r) /\ req[r] \in ReqType /\ clock[r] \in Nat /\ costs[r] \in CostType
        /\ req[r].pc = "scored" /\ req \in [Requests -> ReqType] /\ costs' = costs
    BY RequestKnown DEF TimeInv, ServingInv, Scored, At, loadVars
  <1>2. frame[r].at \notin Inside
    BY <1>1, RequestKnown DEF Inside, Calling
  <1>3. /\ req'[r].latency = staged /\ req'[r].spent = req[r].spent /\ req'[r].pc = "respond"
    BY <1>1 DEF Scored, ReqType
  <1>4. /\ Loaded(r) = costs[r].model_load - req[r].before.model_load /\ Loaded(r) \in Nat
    BY <1>2, NotUnderway
  <1>5. ASSUME costs[r].scope PROVE staged = req[r].spent
    <2>1. /\ req[r].spent["verification"] + Loaded(r) = clock[r]
          /\ req[r].spent["model_load"] = req[r].latency["model_load"] + Loaded(r)
          /\ \A k \in {"retrieval", "rerank", "generation"} :
               req[r].spent[k] = req[r].latency[k]
      BY <1>1, <1>5 DEF TimeKept, Kept, Verifying
    <2>2. clock[r] - 0 - Loaded(r) = req[r].spent["verification"]
          /\ req[r].spent["verification"] \in Nat /\ req[r].spent \in [Keys -> Nat]
      BY <1>1, <1>4, <2>1 DEF ReqType, Keys
    <2>3. staged = [k \in Keys |->
                      IF k \in {"model_load"}
                      THEN req[r].latency[k] + (costs[r][k] - req[r].before[k])
                      ELSE IF k = "verification" THEN req[r].spent["verification"]
                      ELSE req[r].latency[k]]
      BY <1>4, <1>5, <2>2 DEF Staged
    <2> HIDE DEF staged
    <2>4. /\ staged["verification"] = req[r].spent["verification"]
          /\ \A k \in {"retrieval", "rerank", "generation"} : staged[k] = req[r].latency[k]
      BY <2>3 DEF Keys
    <2>5. staged["model_load"] = req[r].latency["model_load"] + Loaded(r)
      BY <1>4, <2>3 DEF Keys
    <2>6. staged \in [Keys -> Nat]
      <3>1. /\ \A k \in Keys : k \in {"retrieval", "rerank", "model_load", "generation",
                                      "verification"}
            /\ \A k \in Keys : req[r].latency[k] \in Nat
        BY <1>1 DEF Keys, ReqType
      <3> QED BY <1>4, <2>2, <2>3, <2>4, <2>5, <3>1
    <2> QED BY <2>1, <2>2, <2>4, <2>5, <2>6, SameOnKeys
  <1> HIDE DEF staged
  <1> QED BY <1>1, <1>3, <1>5 DEF TimeKept, Kept, Retrieving, Verifying

LEMMA RespondTimed ==
  ASSUME ServingInv, NEW r \in Requests, Respond(r)
  PROVE  TimeKept(r)'
  <1>1. req'[r].pc = "done" /\ ~costs'[r].scope
    BY RequestKnown DEF Respond, New, NoCosts, ServingInv
  <1> QED BY <1>1 DEF TimeKept

LEMMA TimeKeepsOn == ServingInv /\ TimeInv /\ [Next]_vars => TimeInv'
  <1> SUFFICES ASSUME ServingInv, TimeInv, [Next]_vars PROVE TimeInv'
    OBVIOUS
  <1>1. ASSUME NEW r \in Requests, Serve(r) PROVE TimeInv'
    <2>1. TimeKept(r)'
      BY <1>1, LoadingTimed, RetrievalTimed, RetrievedTimed, GenerateTimed, VerificationTimed,
         ScoredTimed, BrokenTimed, RespondTimed
      DEF Serve, LoadRaised, Broken
    <2>2. \A o \in Requests \ {r} : TimeKept(o)'
      BY <1>1, ServeApart, OthersTimed
    <2> QED BY <2>1, <2>2 DEF TimeInv
  <1>2. ASSUME NEW r \in Requests, NEW route \in Routes[r], Arrive(r, route) PROVE TimeInv'
    <2>1. \A o \in Requests \ {r} : /\ req'[o] = req[o] /\ frame'[o] = frame[o]
                                    /\ clock'[o] = clock[o] /\ costs'[o] = costs[o]
      BY <1>2, ThreadsApart DEF Arrive, ServingInv, LoadInv, LoadTypeOK
    <2>2. \A o \in Requests \ {r} : TimeKept(o)'
      BY <2>1, OthersTimed
    <2> QED BY <1>2, <2>2, ArriveTimed DEF TimeInv
  <1>3. ASSUME NEW m \in Preloads, Preload(m) PROVE TimeInv'
    <2>1. m \in Threads /\ m \notin Requests /\ LoadInv /\ req' = req
      BY <1>3, ThreadsApart DEF ServingInv, Preload
    <2>2. \A o \in Requests : /\ frame'[o] = frame[o] /\ clock'[o] = clock[o]
                              /\ costs'[o] = costs[o]
      <3>1. CASE Load(m)
        BY <2>1, <3>1, LoadCharged DEF Charged
      <3>2. CASE Warm(m)
        BY <1>3, <2>1, <3>2, WarmKeeps
      <3> QED BY <1>3, <3>1, <3>2 DEF Preload
    <2> QED BY <2>1, <2>2, OthersTimed DEF TimeInv
  <1>4. CASE UNCHANGED vars
    BY <1>4, OthersTimed DEF vars, loadVars, TimeInv
  <1> QED BY <1>1, <1>2, <1>3, <1>4 DEF Next

\* The breakdown of a buffered request adds up to its wall time: every key
\* holds the time that went into just that, whichever stage met a cold model,
\* however often a load failed or a generation was attempted, and whoever else
\* was loading (query_service.py:77-84, core/timing.py).
THEOREM LatencyIsTime == Spec => []LatencyAddsUp
  <1>1. ServingInit => TimeInv
    <2> SUFFICES ASSUME ServingInit, NEW r \in Requests PROVE TimeKept(r)
      BY DEF TimeInv
    <2>1. req[r] = New /\ clock[r] = 0 /\ costs[r] = NoCosts
      BY DEF ServingInit, LoadInit
    <2> QED BY <2>1 DEF TimeKept, NoCosts
  <1>2. TimeInv => LatencyAddsUp
    BY DEF TimeInv, TimeKept, Kept, LatencyAddsUp, At
  <1> QED BY <1>1, <1>2, TimeKeepsOn, Invariant, PTL DEF Spec
-----------------------------------------------------------------------------
(* Nobody stays for ever, but for the scheduler *)

(* How much of a load a thread has before it, how many stages a request,   *)
(* and how many steps a preload thread.                                    *)
Loader == [lock |-> 6, cache |-> 5, network |-> 4, derive |-> 3, publish |-> 2,
           returned |-> 1, raised |-> 1, out |-> 0]
Stage  == [new |-> 10, embed |-> 9, resolve |-> 8, rerank |-> 7, retrieved |-> 6,
           generate |-> 5, verify |-> 4, score |-> 3, scored |-> 2, respond |-> 1, done |-> 0]
Chore  == [load |-> 2, warm |-> 1, done |-> 0]

(* The steps a request has left at most: a stage may enter one load, and   *)
(* the generation is attempted only so often.                              *)
Attempts(q) == IF Stage[q.pc] >= 5 THEN MaxAttempts - q.attempts ELSE 0
RankOf(q, f) == 7 * Stage[q.pc] + Loader[f.at] + Attempts(q)
Rank(r) == RankOf(req[r], frame[r])
Left(m) == 7 * Chore[preload[m]] + Loader[frame[m].at]

(* What a step inside a loader does to its frame and to the lock.          *)
LoadStep(t, f) ==
  /\ f \in FrameType
  /\ frame' = [frame EXCEPT ![t] = f]
  /\ f.model = frame[t].model /\ f.model \in Models
  /\ f.at # "out" /\ frame[t].at # "out"
  /\ Loader[f.at] < Loader[frame[t].at]
  /\ owner[f.model] \in {t, NoThread}
  /\ owner' = [owner EXCEPT ![f.model] = IF f.at \in Inside THEN t ELSE NoThread]

LEMMA PlaceFacts ==
  /\ \A p \in Places : Loader[p] \in 0 .. 6
  /\ \A p \in Places : Loader[p] = 0 => p = "out"
  /\ Loader["out"] = 0
  BY DEF Places, Inside, Loader

LEMMA LoadShape ==
  ASSUME LoadInv, NEW t \in Threads, Load(t)
  PROVE  \E f \in FrameType : LoadStep(t, f)
  <1> DEFINE m  == frame[t].model
             F(p) == [frame[t] EXCEPT !.at = p]
  <1>1. /\ frame[t] \in FrameType /\ FrameHolds(t) /\ frame \in [Threads -> FrameType]
        /\ owner \in [Models -> Threads \cup {NoThread}] /\ Now(t) \in Nat
        /\ owner = [owner EXCEPT ![m] = owner[m]]
    BY FrameByFrame, Timing DEF LoadInv, LoadTypeOK, FrameType
  <1>2. frame[t].at \in {"lock"} \cup Inside /\ frame[t].at # "out"
    BY DEF Load, Acquire, FromCache, FromNetwork, Derive, Publish, Holds, Inside
  <1>3. m \in Models /\ (frame[t].at \in Inside => owner[m] = t)
    BY <1>1, <1>2 DEF FrameHolds
  <1>4. ASSUME NEW p \in Places, frame[t].at \in Inside, p \in Inside,
               frame' = [frame EXCEPT ![t].at = p], owner' = owner,
               Loader[p] < Loader[frame[t].at]
        PROVE  LoadStep(t, F(p))
    <2>1. F(p) \in FrameType /\ F(p).at = p /\ F(p).model = m /\ p # "out"
      BY <1>1, <1>4 DEF FrameType, Inside
    <2>2. frame' = [frame EXCEPT ![t] = F(p)]
      BY <1>1, <1>4
    <2>3. owner' = [owner EXCEPT ![m] = t]
      BY <1>1, <1>3, <1>4
    <2> HIDE DEF F
    <2> QED BY <1>2, <1>3, <1>4, <2>1, <2>2, <2>3 DEF LoadStep
  <1>5. ASSUME NEW p \in {"returned", "raised"}, frame[t].at \in Inside,
               frame' = [frame EXCEPT ![t].at = p], owner' = [owner EXCEPT ![m] = NoThread]
        PROVE  LoadStep(t, F(p))
    <2>1. /\ F(p) \in FrameType /\ F(p).at = p /\ F(p).model = m /\ p # "out"
          /\ p \notin Inside
      BY <1>1, <1>5 DEF FrameType, Inside, Places
    <2>2. frame' = [frame EXCEPT ![t] = F(p)]
      BY <1>1, <1>5
    <2>3. Loader[p] < Loader[frame[t].at]
      BY <1>5 DEF Loader, Inside
    <2> HIDE DEF F
    <2> QED BY <1>2, <1>3, <1>5, <2>1, <2>2, <2>3 DEF LoadStep
  <1>6. CASE Acquire(t)
    <2>1. frame[t].at = "lock" /\ owner[m] = NoThread
      BY <1>6 DEF Acquire, Holds
    <2>2. CASE frame' = [frame EXCEPT ![t].at = "returned"] /\ owner' = owner
      <3>1. /\ F("returned") \in FrameType /\ F("returned").at = "returned"
            /\ F("returned").model = m
        BY <1>1 DEF FrameType, Places
      <3>2. frame' = [frame EXCEPT ![t] = F("returned")]
        BY <1>1, <2>2
      <3>3. Loader["returned"] < Loader["lock"] /\ "returned" \notin Inside
        BY DEF Loader, Inside
      <3>4. owner' = [owner EXCEPT ![m] = NoThread]
        BY <1>1, <2>1, <2>2
      <3> HIDE DEF F
      <3>5. LoadStep(t, F("returned"))
        BY <1>2, <1>3, <2>1, <3>1, <3>2, <3>3, <3>4 DEF LoadStep
      <3> QED BY <3>1, <3>5
    <2>3. CASE /\ frame' = [frame EXCEPT ![t].at = "cache", ![t].began = Now(t)]
               /\ owner' = [owner EXCEPT ![m] = t]
      <3> DEFINE f == [frame[t] EXCEPT !.at = "cache", !.began = Now(t)]
      <3>1. f \in FrameType /\ f.at = "cache" /\ f.model = m
        BY <1>1 DEF FrameType, Places, Inside
      <3>2. frame' = [frame EXCEPT ![t] = f]
        BY <1>1, <2>3
      <3>3. Loader["cache"] < Loader["lock"] /\ "cache" \in Inside
        BY DEF Loader, Inside
      <3> HIDE DEF f
      <3>4. LoadStep(t, f)
        BY <1>2, <1>3, <2>1, <2>3, <3>1, <3>2, <3>3 DEF LoadStep, Inside
      <3> QED BY <3>1, <3>4
    <2> QED BY <1>6, <2>2, <2>3 DEF Acquire
  <1>7. CASE (FromCache(t) \/ FromNetwork(t)) /\ Constructed(t)
    <2>1. frame[t].at \in {"cache", "network"} /\ frame[t].at \in Inside
      BY <1>7 DEF FromCache, FromNetwork, Holds, Inside
    <2>2. CASE m = "nli"
      <3>1. frame' = [frame EXCEPT ![t].at = "derive"] /\ owner' = owner
        BY <1>7, <2>2 DEF Constructed
      <3>2. "derive" \in Inside /\ "derive" \in Places
            /\ Loader["derive"] < Loader[frame[t].at]
        BY <2>1 DEF Inside, Places, Loader
      <3>3. LoadStep(t, F("derive"))
        BY <1>4, <2>1, <3>1, <3>2
      <3> QED BY <3>3 DEF LoadStep
    <2>3. CASE m # "nli"
      <3>1. LoadStep(t, F("returned"))
        BY <1>5, <1>7, <2>1, <2>3 DEF Constructed, Leave
      <3> QED BY <3>1 DEF LoadStep
    <2> QED BY <2>2, <2>3
  <1>8. CASE FromCache(t) /\ ~Constructed(t)
    <2>1. /\ frame[t].at = "cache" /\ owner' = owner
          /\ frame' = [frame EXCEPT ![t].at = "network"]
      BY <1>8 DEF FromCache, Holds
    <2>2. /\ "network" \in Inside /\ "network" \in Places /\ "cache" \in Inside
          /\ Loader["network"] < Loader["cache"]
      BY DEF Inside, Places, Loader
    <2>3. LoadStep(t, F("network"))
      BY <1>4, <2>1, <2>2
    <2> QED BY <2>3 DEF LoadStep
  <1>9. CASE FromNetwork(t) /\ ~Constructed(t)
    <2>1. frame[t].at \in Inside /\ Leave(t, "raised", 1)
      BY <1>9 DEF FromNetwork, Holds, Inside
    <2>2. LoadStep(t, F("raised"))
      BY <1>5, <2>1 DEF Leave
    <2> QED BY <2>2 DEF LoadStep
  <1>10. CASE Derive(t)
    <2>1. frame[t].at = "derive" /\ frame[t].at \in Inside
      BY <1>10 DEF Derive, Holds, Inside
    <2>2. CASE frame' = [frame EXCEPT ![t].at = "publish"] /\ owner' = owner
      <3>1. /\ "publish" \in Inside /\ "publish" \in Places
            /\ Loader["publish"] < Loader["derive"]
        BY DEF Inside, Places, Loader
      <3>2. LoadStep(t, F("publish"))
        BY <1>4, <2>1, <2>2, <3>1
      <3> QED BY <3>2 DEF LoadStep
    <2>3. CASE Leave(t, "raised", 0)
      <3>1. LoadStep(t, F("raised"))
        BY <1>5, <2>1, <2>3 DEF Leave
      <3> QED BY <3>1 DEF LoadStep
    <2> QED BY <1>10, <2>2, <2>3 DEF Derive
  <1>11. CASE Publish(t)
    <2>1. frame[t].at \in Inside /\ Leave(t, "returned", 0)
      BY <1>11 DEF Publish, Holds, Inside
    <2>2. LoadStep(t, F("returned"))
      BY <1>5, <2>1 DEF Leave
    <2> QED BY <2>2 DEF LoadStep
  <1> QED BY <1>6, <1>7, <1>8, <1>9, <1>10, <1>11 DEF Load
LEMMA RankBounds ==
  ASSUME NEW q \in ReqType, NEW f \in FrameType
  PROVE  /\ Stage[q.pc] \in 0 .. 10 /\ Loader[f.at] \in 0 .. 6
         /\ Attempts(q) \in 0 .. MaxAttempts /\ MaxAttempts \in Nat
         /\ (q.pc \notin Calling => f.at = "out") => RankOf(q, f) \in 0 .. 70 + MaxAttempts
  <1>1. /\ q.pc \in {"new", "embed", "resolve", "rerank", "retrieved", "generate",
                     "verify", "score", "scored", "respond", "done"}
        /\ f.at \in Places /\ q.attempts \in 0 .. MaxAttempts - 1
    BY DEF ReqType, FrameType
  <1>2. Stage[q.pc] \in 0 .. 10 /\ (q.pc \in Calling => Stage[q.pc] <= 9)
    BY <1>1 DEF Stage, Calling
  <1>3. Loader[f.at] \in 0 .. 6 /\ (f.at = "out" => Loader[f.at] = 0)
    BY <1>1, PlaceFacts
  <1>4. Attempts(q) \in 0 .. MaxAttempts /\ MaxAttempts \in Nat
    BY <1>1, <1>2, ServingAssumption DEF Attempts
  <1>5. ASSUME q.pc \notin Calling => f.at = "out"
        PROVE  RankOf(q, f) \in 0 .. 70 + MaxAttempts
    BY <1>2, <1>3, <1>4, <1>5 DEF RankOf
  <1> QED BY <1>2, <1>3, <1>4, <1>5

(* A stage that ends pays for the load the next one may enter.             *)
LEMMA StageStep ==
  ASSUME NEW q \in ReqType, NEW f \in FrameType, NEW p \in ReqType, NEW g \in FrameType,
         Stage[p.pc] < Stage[q.pc], Stage[p.pc] >= 5 => p.attempts = q.attempts
  PROVE  RankOf(p, g) < RankOf(q, f)
  <1>1. /\ Stage[q.pc] \in 0 .. 10 /\ Loader[f.at] \in 0 .. 6
        /\ Attempts(q) \in 0 .. MaxAttempts /\ MaxAttempts \in Nat
        /\ Stage[p.pc] \in 0 .. 10 /\ Loader[g.at] \in 0 .. 6
        /\ Attempts(p) \in 0 .. MaxAttempts
    BY RankBounds
  <1>2. Attempts(p) <= Attempts(q)
    <2>1. CASE Stage[p.pc] >= 5
      <3>1. Stage[q.pc] >= 5
        BY <1>1, <2>1
      <3>2. Attempts(p) = Attempts(q)
        BY <2>1, <3>1 DEF Attempts
      <3> QED BY <1>1, <3>2
    <2>2. CASE ~(Stage[p.pc] >= 5)
      <3>1. Attempts(p) = 0
        BY <2>2 DEF Attempts
      <3> QED BY <1>1, <3>1
    <2> QED BY <2>1, <2>2
  <1> HIDE DEF Attempts
  <1> QED BY <1>1, <1>2 DEF RankOf

LEMMA LoadingLowers ==
  ASSUME ServingInv, NEW r \in Requests, Loading(r)
  PROVE  Rank(r)' < Rank(r)
  <1>1. /\ r \in Threads /\ LoadInv /\ frame \in [Threads -> FrameType] /\ frame[r] \in FrameType
        /\ req[r] \in ReqType
    BY ThreadsApart, RequestKnown DEF ServingInv, LoadInv, LoadTypeOK, FrameType
  <1>2. PICK f \in FrameType : LoadStep(r, f)
    BY <1>1, LoadShape DEF Loading
  <1>3. frame'[r] = f /\ Loader[f.at] < Loader[frame[r].at]
    BY <1>1, <1>2 DEF LoadStep
  <1>4. req'[r].pc = req[r].pc /\ req'[r].attempts = req[r].attempts
    BY <1>1 DEF Loading, ServingInv, ReqType
  <1>5. Attempts(req'[r]) = Attempts(req[r])
    BY <1>4 DEF Attempts
  <1>6. /\ Stage[req[r].pc] \in 0 .. 10 /\ Loader[frame[r].at] \in 0 .. 6
        /\ Attempts(req[r]) \in 0 .. MaxAttempts /\ Loader[f.at] \in 0 .. 6
        /\ MaxAttempts \in Nat
    BY <1>1, RankBounds
  <1>7. /\ Rank(r) = 7 * Stage[req[r].pc] + Loader[frame[r].at] + Attempts(req[r])
        /\ Rank(r)' = 7 * Stage[req[r].pc] + Loader[f.at] + Attempts(req[r])
    BY <1>3, <1>4, <1>5 DEF Rank, RankOf
  <1> HIDE DEF Rank, Attempts
  <1> QED BY <1>3, <1>6, <1>7

(* A generation is attempted again, or its stage ends.                     *)
LEMMA GenerateSteps ==
  ASSUME ServingInv, NEW r \in Requests, Generate(r)
  PROVE  /\ req[r].pc = "generate" /\ frame' = frame
         /\ \/ req'[r].pc = "generate" /\ req'[r].attempts = req[r].attempts + 1
            \/ req'[r].pc \in {"verify", "respond"}
  <1>1. req \in [Requests -> ReqType] /\ req[r] \in ReqType
    BY RequestKnown DEF ServingInv
  <1>2. req[r].pc = "generate" /\ frame' = frame
    BY DEF Generate, At
  <1>3. CASE \E reply \in Replies :
               req' = [req EXCEPT ![r].attempts = @ + 1, ![r].last = reply,
                                  ![r].futile = Futile(r)]
    <2>1. PICK reply \in Replies :
            req' = [req EXCEPT ![r].attempts = @ + 1, ![r].last = reply,
                               ![r].futile = Futile(r)]
      BY <1>3
    <2> QED BY <1>1, <1>2, <2>1 DEF ReqType
  <1>4. CASE \E reply \in Replies, o \in Outcomes : Generated(r, reply, o)
    <2>1. PICK reply \in Replies, o \in Outcomes : Generated(r, reply, o)
      BY <1>4
    <2>2. req'[r].pc \in {"verify", "respond"}
      BY <1>1, <2>1 DEF Generated, Ended, ReqType
    <2> QED BY <1>2, <2>2
  <1> QED BY <1>3, <1>4, OutcomeTypes DEF Generate

LEMMA GenerateLowers ==
  ASSUME ServingInv, ServingInv', NEW r \in Requests, Generate(r)
  PROVE  Rank(r)' < Rank(r)
  <1>1. req[r] \in ReqType /\ frame[r] \in FrameType /\ req'[r] \in ReqType
    BY RequestKnown DEF ServingInv
  <1>2. req[r].pc = "generate" /\ frame' = frame
    BY GenerateSteps
  <1>3. CASE req'[r].pc = "generate" /\ req'[r].attempts = req[r].attempts + 1
    <2>1. /\ req[r].attempts \in 0 .. MaxAttempts - 1 /\ req'[r].attempts \in 0 .. MaxAttempts - 1
          /\ MaxAttempts \in Nat /\ Stage["generate"] = 5
      BY <1>1, ServingAssumption DEF ReqType, Stage
    <2>2. /\ Rank(r) = 7 * 5 + Loader[frame[r].at] + (MaxAttempts - req[r].attempts)
          /\ Rank(r)' = 7 * 5 + Loader[frame[r].at] + (MaxAttempts - req'[r].attempts)
      BY <1>2, <1>3, <2>1 DEF Rank, RankOf, Attempts
    <2>3. Loader[frame[r].at] \in 0 .. 6
      BY <1>1, RankBounds
    <2> HIDE DEF Rank
    <2> QED BY <1>3, <2>1, <2>2, <2>3
  <1>4. CASE req'[r].pc \in {"verify", "respond"}
    <2>1. Stage[req'[r].pc] < Stage[req[r].pc] /\ ~(Stage[req'[r].pc] >= 5)
      BY <1>2, <1>4 DEF Stage
    <2> QED BY <1>1, <1>2, <2>1, StageStep DEF Rank
  <1> QED BY <1>3, <1>4, GenerateSteps

(* Where the other steps lead.                                             *)
LEMMA StagesPass ==
  ASSUME ServingInv, NEW r \in Requests
  PROVE  /\ Search(r) => /\ req[r].pc = "embed"
                         /\ \/ /\ req'[r].pc \in {"resolve", "rerank", "retrieved"}
                               /\ req'[r].attempts = req[r].attempts
                            \/ req'[r].pc = "respond"
         /\ Resolve(r) => /\ req[r].pc = "resolve" /\ req'[r].pc = "rerank"
                          /\ req'[r].attempts = req[r].attempts
         /\ Rerank(r) => /\ req[r].pc = "rerank" /\ req'[r].pc = "retrieved"
                         /\ req'[r].attempts = req[r].attempts
         /\ Retrieved(r) => /\ req[r].pc = "retrieved" /\ req'[r].pc \in {"verify", "generate"}
                            /\ req'[r].attempts = req[r].attempts
         /\ Verify(r) => req[r].pc = "verify" /\ req'[r].pc \in {"score", "scored"}
         /\ Score(r) => req[r].pc = "score" /\ req'[r].pc \in {"scored", "respond"}
         /\ Scored(r) => req[r].pc = "scored" /\ req'[r].pc = "respond"
         /\ Respond(r) => req[r].pc = "respond" /\ req'[r].pc = "done"
         /\ LoadRaised(r) => req[r].pc \in Calling /\ req'[r].pc = "respond"
  <1>1. req \in [Requests -> ReqType] /\ req[r] \in ReqType /\ RequestHolds(r)
    BY RequestKnown DEF ServingInv
  <1>2. req' = Broken(r) => req'[r].pc = "respond"
    BY <1>1 DEF Broken, Ended
  <1>3. ASSUME Search(r)
        PROVE  /\ req[r].pc = "embed"
               /\ \/ /\ req'[r].pc \in {"resolve", "rerank", "retrieved"}
                     /\ req'[r].attempts = req[r].attempts
                  \/ req'[r].pc = "respond"
    BY <1>1, <1>2, <1>3 DEF Search, At, ReqType
  <1>4. /\ Resolve(r) => /\ req[r].pc = "resolve" /\ req'[r].pc = "rerank"
                         /\ req'[r].attempts = req[r].attempts
        /\ Rerank(r) => /\ req[r].pc = "rerank" /\ req'[r].pc = "retrieved"
                        /\ req'[r].attempts = req[r].attempts
    BY <1>1 DEF Resolve, Rerank, At, ReqType
  <1>5. Retrieved(r) => /\ req[r].pc = "retrieved" /\ req'[r].pc \in {"verify", "generate"}
                        /\ req'[r].attempts = req[r].attempts
    BY <1>1 DEF Retrieved, At, ReqType
  <1>6. /\ Verify(r) => req[r].pc = "verify" /\ req'[r].pc \in {"score", "scored"}
        /\ Score(r) => req[r].pc = "score" /\ req'[r].pc \in {"scored", "respond"}
    BY <1>1, <1>2 DEF Verify, Score, At, ReqType
  <1>7. Scored(r) => req[r].pc = "scored" /\ req'[r].pc = "respond"
    BY <1>1 DEF Scored, At, ReqType
  <1>8. Respond(r) => req[r].pc = "respond" /\ req'[r].pc = "done"
    BY <1>1 DEF Respond, At
  <1>9. LoadRaised(r) => req[r].pc \in Calling /\ req'[r].pc = "respond"
    BY <1>1, <1>2 DEF LoadRaised, Holds, RequestHolds
  <1> QED BY <1>3, <1>4, <1>5, <1>6, <1>7, <1>8, <1>9

LEMMA ServeLowers ==
  ASSUME ServingInv, ServingInv', NEW r \in Requests, Serve(r)
  PROVE  Rank(r)' < Rank(r)
  <1>1. /\ req[r] \in ReqType /\ frame[r] \in FrameType
        /\ req'[r] \in ReqType /\ frame'[r] \in FrameType
    BY RequestKnown, ThreadsApart DEF ServingInv, LoadInv, LoadTypeOK, FrameType
  <1>2. CASE ~Loading(r) /\ ~Generate(r)
    <2>1. \/ Search(r) \/ Resolve(r) \/ Rerank(r) \/ Retrieved(r)
          \/ Verify(r) \/ Score(r) \/ Scored(r) \/ Respond(r) \/ LoadRaised(r)
      BY <1>2 DEF Serve
    <2>2. /\ Stage[req'[r].pc] < Stage[req[r].pc]
          /\ Stage[req'[r].pc] >= 5 => req'[r].attempts = req[r].attempts
      BY <2>1, StagesPass DEF Stage, Calling
    <2> QED BY <1>1, <2>2, StageStep DEF Rank
  <1>3. CASE Loading(r)
    BY <1>3, LoadingLowers
  <1>4. CASE Generate(r)
    BY <1>4, GenerateLowers
  <1> QED BY <1>2, <1>3, <1>4
LEMMA PreloadLowers ==
  ASSUME ServingInv, NEW m \in Preloads, Preload(m)
  PROVE  Left(m) \in 0 .. 20 /\ Left(m)' \in 0 .. 20 /\ Left(m)' < Left(m)
  <1>1. /\ m \in Threads /\ LoadInv /\ frame \in [Threads -> FrameType] /\ frame[m] \in FrameType
        /\ preload \in [Preloads -> {"load", "warm", "done"}]
    BY ThreadsApart DEF ServingInv, LoadInv, LoadTypeOK, FrameType
  <1>2. Loader[frame[m].at] \in 0 .. 6 /\ Chore[preload[m]] \in 0 .. 2
    BY <1>1, PlaceFacts DEF FrameType, Chore
  <1>3. CASE Load(m)
    <2>1. PICK f \in FrameType : LoadStep(m, f)
      BY <1>1, <1>3, LoadShape
    <2>2. frame'[m] = f /\ Loader[f.at] < Loader[frame[m].at] /\ Loader[f.at] \in 0 .. 6
      BY <1>1, <2>1, PlaceFacts DEF LoadStep, FrameType
    <2>3. preload' = preload
      BY <1>1, <1>3, LoadAdvances DEF Advanced
    <2>4. /\ Left(m) = 7 * Chore[preload[m]] + Loader[frame[m].at]
          /\ Left(m)' = 7 * Chore[preload[m]] + Loader[f.at]
      BY <2>2, <2>3 DEF Left
    <2> QED BY <1>2, <2>2, <2>4
  <1>4. CASE Warm(m)
    <2>1. /\ frame'[m].at = "out"
          /\ \/ preload[m] = "load" /\ preload'[m] \in {"warm", "done"}
             \/ preload[m] = "warm" /\ preload'[m] = "done"
      BY <1>1, <1>4, FrameFacts DEF Warm
    <2>2. /\ Left(m)' = 7 * Chore[preload'[m]] + 0
          /\ Left(m) = 7 * Chore[preload[m]] + Loader[frame[m].at]
      BY <2>1, PlaceFacts DEF Left
    <2>3. Chore[preload'[m]] < Chore[preload[m]] /\ Chore[preload'[m]] \in 0 .. 2
      BY <2>1 DEF Chore
    <2> QED BY <1>2, <2>2, <2>3
  <1> QED BY <1>3, <1>4 DEF Preload

\* A step takes its own request or preload thread nearer to its end, by a count that is
\* bounded from the start, and takes nobody further away from it.
Advancing ==
  /\ \A r \in Requests : /\ Rank(r) \in 0 .. 70 + MaxAttempts
                         /\ Rank(r)' <= Rank(r)
                         /\ Serve(r) => Rank(r)' < Rank(r)
  /\ \A m \in Preloads : /\ Left(m) \in 0 .. 20
                         /\ Left(m)' <= Left(m)
                         /\ Preload(m) => Left(m)' < Left(m)

LEMMA StepsAdvance ==
  ASSUME ServingInv, ServingInv', Next
  PROVE  Advancing
  <1>1. /\ frame \in [Threads -> FrameType] /\ Requests \subseteq Threads
        /\ Preloads \subseteq Threads /\ Requests \cap Preloads = {} /\ LoadInv
        /\ preload \in [Preloads -> {"load", "warm", "done"}]
    BY ThreadsApart DEF ServingInv, LoadInv, LoadTypeOK, FrameType
  <1>2. ASSUME NEW r \in Requests
        PROVE  /\ Rank(r) \in 0 .. 70 + MaxAttempts /\ Rank(r) \in Int /\ Rank(r)' \in Int
    <2>1. /\ req[r] \in ReqType /\ frame[r] \in FrameType
          /\ (req[r].pc \notin Calling => frame[r].at = "out")
      BY <1>1, RequestKnown
    <2>2. /\ req'[r] \in ReqType /\ frame'[r] \in FrameType
          /\ (req'[r].pc \notin Calling => frame'[r].at = "out")
      BY <1>1 DEF ServingInv, LoadInv, LoadTypeOK, FrameType, RequestHolds
    <2>3. Rank(r) \in 0 .. 70 + MaxAttempts /\ Rank(r)' \in 0 .. 70 + MaxAttempts
      BY <2>1, <2>2, RankBounds DEF Rank
    <2>4. MaxAttempts \in Nat
      BY ServingAssumption
    <2> HIDE DEF Rank
    <2> QED BY <2>3, <2>4
  <1>3. ASSUME NEW m \in Preloads PROVE Left(m) \in 0 .. 20
    <2>1. Loader[frame[m].at] \in 0 .. 6 /\ Chore[preload[m]] \in 0 .. 2
      BY <1>1, PlaceFacts DEF FrameType, Chore
    <2> QED BY <2>1 DEF Left
  <1>4. ASSUME NEW r \in Requests, Serve(r) PROVE Rank(r)' < Rank(r)
    BY <1>4, ServeLowers
  <1>5. ASSUME NEW m \in Preloads, Preload(m) PROVE Left(m)' < Left(m)
    BY <1>5, PreloadLowers
  <1>6. ASSUME NEW r \in Requests, req'[r] = req[r], frame'[r] = frame[r]
        PROVE  Rank(r)' = Rank(r)
    BY <1>6 DEF Rank
  <1>7. ASSUME NEW m \in Preloads, preload' = preload, frame'[m] = frame[m]
        PROVE  Left(m)' = Left(m)
    BY <1>7 DEF Left
  <1>8. ASSUME NEW r \in Requests, Serve(r)
        PROVE  /\ \A o \in Requests \ {r} : Rank(o)' = Rank(o)
               /\ \A m \in Preloads : Left(m)' = Left(m)
    <2>1. \A o \in Requests \ {r} : req'[o] = req[o] /\ frame'[o] = frame[o]
      BY <1>8, ServeApart
    <2>2. preload' = preload /\ \A m \in Preloads : frame'[m] = frame[m]
      <3>1. CASE Loading(r)
        BY <1>1, <3>1, LoadAdvances DEF Loading, Advanced
      <3>2. CASE ~Loading(r)
        BY <1>1, <1>8, <3>2 DEF Serve, Search, Resolve, Rerank, Retrieved, Generate, Verify,
                                Score, Scored, LoadRaised, Respond, loadVars
      <3> QED BY <3>1, <3>2
    <2> QED BY <1>6, <1>7, <2>1, <2>2
  <1>9. ASSUME NEW r \in Requests, NEW route \in Routes[r], Arrive(r, route)
        PROVE  /\ Rank(r)' < Rank(r)
               /\ \A o \in Requests \ {r} : Rank(o)' = Rank(o)
               /\ \A m \in Preloads : Left(m)' = Left(m)
    <2>1. /\ \A o \in Requests \ {r} : req'[o] = req[o] /\ frame'[o] = frame[o]
          /\ preload' = preload /\ \A m \in Preloads : frame'[m] = frame[m]
      BY <1>1, <1>9 DEF Arrive, ServingInv
    <2>2. /\ req[r] \in ReqType /\ frame[r] \in FrameType
          /\ req'[r] \in ReqType /\ frame'[r] \in FrameType
      BY <1>1, RequestKnown DEF ServingInv, LoadInv, LoadTypeOK, FrameType
    <2>3. req[r].pc = "new" /\ req'[r].pc = "embed" /\ req'[r].attempts = req[r].attempts
      BY <1>9, <2>2 DEF Arrive, At, ServingInv, ReqType
    <2>4. Stage[req'[r].pc] < Stage[req[r].pc]
      BY <2>3 DEF Stage
    <2>5. Rank(r)' < Rank(r)
      BY <2>2, <2>3, <2>4, StageStep DEF Rank
    <2> QED BY <1>6, <1>7, <2>1, <2>5
  <1>10. ASSUME NEW m \in Preloads, Preload(m)
         PROVE  /\ \A r \in Requests : Rank(r)' = Rank(r)
                /\ \A o \in Preloads \ {m} : Left(o)' = Left(o)
    <2>1. /\ req' = req /\ \A r \in Requests : frame'[r] = frame[r]
          /\ \A o \in Preloads \ {m} : preload'[o] = preload[o] /\ frame'[o] = frame[o]
      <3>1. CASE Load(m)
        BY <1>1, <1>10, <3>1, LoadAdvances DEF Preload, Advanced
      <3>2. CASE Warm(m)
        BY <1>1, <1>10, <3>2 DEF Preload, Warm
      <3> QED BY <1>10, <3>1, <3>2 DEF Preload
    <2>2. \A o \in Preloads \ {m} : Left(o)' = Left(o)
      BY <2>1 DEF Left
    <2> QED BY <1>6, <2>1, <2>2
  <1> HIDE DEF Rank, Left
  <1>11. /\ \A r \in Requests : Rank(r)' <= Rank(r)
         /\ \A m \in Preloads : Left(m)' <= Left(m)
    <2>1. ASSUME NEW r \in Requests, NEW a \in Int, a < Rank(r) PROVE a <= Rank(r)
      BY <1>2, <2>1
    <2>2. \A m \in Preloads : Left(m) \in Int
      BY <1>3
    <2>3. CASE \E r \in Requests : Serve(r)
      BY <1>2, <1>4, <1>8, <2>2, <2>3
    <2>4. CASE \E r \in Requests : \E route \in Routes[r] : Arrive(r, route)
      BY <1>2, <1>9, <2>2, <2>4
    <2>5. ASSUME NEW m \in Preloads, Preload(m)
          PROVE  /\ \A r \in Requests : Rank(r)' <= Rank(r)
                 /\ \A o \in Preloads : Left(o)' <= Left(o)
      <3>1. Left(m)' <= Left(m)
        BY <2>5, PreloadLowers
      <3> QED BY <1>2, <1>10, <2>2, <2>5, <3>1
    <2> QED BY <2>3, <2>4, <2>5 DEF Next
  <1> QED BY <1>2, <1>3, <1>4, <1>5, <1>11 DEF Advancing

\* No request goes round in circles and none is sent back: whoever else is served,
\* whichever models are cold and fail to load, and whatever the provider does, each step a
\* request takes leaves fewer before it, of at most 70 and its attempts, and no step of
\* another leaves it more; a preload thread is done after at most 20 (loading.py:66-73,
\* warmup.py:104-108, openai_client.py:197-200).  With the scheduler's fairness, and nobody
\* blocked (WaitersWaitForWorkers), this is why RequestsEnd holds.
THEOREM RequestsAdvance == Spec => [][Advancing]_vars
  <1>1. ServingInv /\ ServingInv' /\ [Next]_vars => [Advancing]_vars
    BY StepsAdvance
  <1> QED BY <1>1, Invariant, PTL DEF Spec-----------------------------------------------------------------------------
(* Who waits for whom *)

(* A lock is held from within a load of its model, and nowhere else.       *)
OwnersWork ==
  \A m \in Models : owner[m] # NoThread =>
    /\ owner[m] \in Threads
    /\ frame[owner[m]].model = m
    /\ frame[owner[m]].at \in Inside

LEMMA LoadKeepsOwners ==
  ASSUME LoadInv, OwnersWork, NEW t \in Threads, Load(t)
  PROVE  OwnersWork' /\ frame[t].at # "out" /\ frame'[t].at # "out"
  <1>1. PICK f \in FrameType : LoadStep(t, f)
    BY LoadShape
  <1>2. frame \in [Threads -> FrameType] /\ owner \in [Models -> Threads \cup {NoThread}]
    BY DEF LoadInv, LoadTypeOK, FrameType
  <1>3. frame'[t] = f /\ \A o \in Threads \ {t} : frame'[o] = frame[o]
    BY <1>1, <1>2 DEF LoadStep
  <1>4. ASSUME NEW m \in Models, owner'[m] # NoThread
        PROVE  /\ owner'[m] \in Threads
               /\ frame'[owner'[m]].model = m
               /\ frame'[owner'[m]].at \in Inside
    <2>1. CASE m = f.model
      <3>1. owner'[m] = t /\ f.at \in Inside
        BY <1>1, <1>2, <1>4, <2>1 DEF LoadStep
      <3> QED BY <1>3, <2>1, <3>1
    <2>2. CASE m # f.model
      <3>1. owner'[m] = owner[m]
        BY <1>1, <1>2, <2>2 DEF LoadStep
      <3>2. /\ owner[m] \in Threads /\ frame[owner[m]].model = m
            /\ frame[owner[m]].at \in Inside
        BY <1>4, <3>1 DEF OwnersWork
      <3>3. owner[m] # t
        BY <1>1, <2>2, <3>2 DEF LoadStep
      <3> QED BY <1>3, <3>1, <3>2, <3>3
    <2> QED BY <2>1, <2>2
  <1> QED BY <1>1, <1>3, <1>4 DEF OwnersWork, LoadStep

(* Nobody else's step frees or takes a lock.                               *)
LEMMA OthersKeepOwners ==
  ASSUME OwnersWork, owner' = owner,
         \A o \in Threads : frame[o].at \in Inside => frame'[o] = frame[o]
  PROVE  OwnersWork'
  BY DEF OwnersWork

(* A request is in a loader just where its code calls one; a preload       *)
(* thread before it warms.                                                 *)
CallersWait ==
  /\ \A r \in Requests : req[r].pc \in Calling <=> frame[r].at # "out"
  /\ \A m \in Preloads : preload[m] = "load" <=> frame[m].at # "out"

WaitInv == OwnersWork /\ CallersWait

LEMMA ServeKeepsWaits ==
  ASSUME ServingInv, WaitInv, NEW r \in Requests,
         Serve(r) \/ \E route \in Routes[r] : Arrive(r, route)
  PROVE  WaitInv'
  <1>1. /\ frame \in [Threads -> FrameType] /\ Requests \subseteq Threads
        /\ Preloads \subseteq Threads /\ Requests \cap Preloads = {} /\ LoadInv
        /\ req \in [Requests -> ReqType] /\ frame[r] \in FrameType /\ req[r] \in ReqType
        /\ RequestHolds(r)
    BY ThreadsApart, RequestKnown DEF ServingInv, LoadInv, LoadTypeOK, FrameType
  <1>2. req' = Broken(r) => req'[r].pc = "respond"
    BY <1>1 DEF Broken, Ended
  <1>3. CASE Loading(r)
    <2>1. /\ OwnersWork' /\ frame[r].at # "out" /\ frame'[r].at # "out"
      BY <1>1, <1>3, LoadKeepsOwners DEF WaitInv, Loading
    <2>2. \A o \in Threads \ {r} : frame'[o] = frame[o]
      BY <1>1, <1>3, LoadAdvances DEF Loading, Advanced
    <2>3. preload' = preload /\ \A o \in Requests : req'[o].pc = req[o].pc
      BY <1>1, <1>3, LoadAdvances DEF Loading, Advanced, ReqType
    <2> QED BY <1>1, <2>1, <2>2, <2>3 DEF WaitInv, CallersWait
  <1>4. CASE ~Loading(r)
    <2>1. owner' = owner /\ preload' = preload /\ \A o \in Threads \ {r} : frame'[o] = frame[o]
      BY <1>1, <1>4 DEF Serve, Search, Resolve, Rerank, Retrieved, Generate, Verify,
                        Score, Scored, LoadRaised, Respond, Arrive, loadVars
    <2>2. \A o \in Requests \ {r} : req'[o] = req[o]
      BY <1>1, RequestsApart DEF Arrive
    <2>3. /\ frame[r].at \in Inside => frame'[r] = frame[r]
          /\ req'[r].pc \in Calling <=> frame'[r].at # "out"
      <3>1. CASE Search(r) \/ LoadRaised(r)
        <4>1. frame[r].at \notin Inside
          BY <3>1 DEF Search, LoadRaised, Holds, Inside
        <4>2. \/ req'[r].pc = "resolve" /\ frame'[r] = Called("reranker")
              \/ req'[r].pc \in {"rerank", "retrieved", "respond"} /\ frame'[r] = Out
          BY <1>1, <1>2, <3>1 DEF Search, LoadRaised, ReqType
        <4> QED BY <4>1, <4>2, FrameFacts DEF Calling, Models
      <3>2. CASE Resolve(r) \/ Score(r)
        <4>1. frame[r].at \notin Inside
          BY <3>2 DEF Resolve, Score, Holds, Inside
        <4>2. req'[r].pc \in {"rerank", "scored", "respond"} /\ frame'[r] = Out
          BY <1>1, <1>2, <3>2 DEF Resolve, Score, ReqType
        <4> QED BY <4>1, <4>2, FrameFacts DEF Calling
      <3>3. CASE Rerank(r) \/ Retrieved(r) \/ Generate(r) \/ Scored(r) \/ Respond(r)
        <4>1. frame' = frame /\ req[r].pc \notin Calling
          BY <3>3, GenerateSteps
          DEF Rerank, Retrieved, Generate, Scored, Respond, At, Calling, loadVars
        <4>2. req'[r].pc \notin Calling
          BY <3>3, <4>1, StagesPass, GenerateSteps DEF Calling
        <4> QED BY <4>1, <4>2 DEF WaitInv, CallersWait
      <3>4. CASE Verify(r)
        <4>1. req[r].pc = "verify" /\ frame[r].at = "out"
          BY <3>4, RequestKnown DEF Verify, At, Calling
        <4>2. \/ req'[r].pc = "score" /\ frame'[r] = Called("nli")
              \/ req'[r].pc = "scored" /\ frame' = frame
          BY <1>1, <3>4 DEF Verify, ReqType
        <4> QED BY <4>1, <4>2, FrameFacts DEF Calling, Inside
      <3>5. CASE \E route \in Routes[r] : Arrive(r, route)
        <4>1. req[r].pc = "new" /\ frame[r].at = "out"
          BY <3>5, RequestKnown DEF Arrive, At, Calling
        <4>2. req'[r].pc = "embed" /\ frame'[r] = Called("embedding")
          <5>1. PICK route \in Routes[r] : Arrive(r, route)
            BY <3>5
          <5> QED BY <1>1, <5>1 DEF Arrive, ReqType
        <4> QED BY <4>1, <4>2, FrameFacts DEF Calling, Inside, Models
      <3> QED BY <1>4, <3>1, <3>2, <3>3, <3>4, <3>5 DEF Serve
    <2>4. OwnersWork'
      BY <2>1, <2>3, OthersKeepOwners DEF WaitInv
    <2>5. CallersWait'
      BY <1>1, <2>1, <2>2, <2>3 DEF WaitInv, CallersWait
    <2> QED BY <2>4, <2>5 DEF WaitInv
  <1> QED BY <1>3, <1>4

LEMMA PreloadKeepsWaits ==
  ASSUME ServingInv, WaitInv, NEW m \in Preloads, Preload(m)
  PROVE  WaitInv'
  <1>1. /\ frame \in [Threads -> FrameType] /\ Requests \subseteq Threads
        /\ Preloads \subseteq Threads /\ Requests \cap Preloads = {} /\ LoadInv
        /\ preload \in [Preloads -> {"load", "warm", "done"}] /\ req' = req
    BY ThreadsApart DEF ServingInv, LoadInv, LoadTypeOK, FrameType, Preload
  <1>2. CASE Load(m)
    <2>1. OwnersWork' /\ frame[m].at # "out" /\ frame'[m].at # "out"
      BY <1>1, <1>2, LoadKeepsOwners DEF WaitInv
    <2>2. preload' = preload /\ \A o \in Threads \ {m} : frame'[o] = frame[o]
      BY <1>1, <1>2, LoadAdvances DEF Advanced
    <2> QED BY <1>1, <2>1, <2>2 DEF WaitInv, CallersWait
  <1>3. CASE Warm(m)
    <2>1. /\ frame' = [frame EXCEPT ![m] = Out] /\ owner' = owner
          /\ preload'[m] \in {"warm", "done"}
          /\ \A o \in Preloads \ {m} : preload'[o] = preload[o]
      BY <1>1, <1>3 DEF Warm
    <2>2. frame[m].at \notin Inside
      <3>1. CASE preload[m] = "warm"
        <4>1. frame[m].at = "out"
          BY <3>1 DEF WaitInv, CallersWait
        <4> QED BY <4>1 DEF Inside
      <3>2. CASE preload[m] # "warm"
        BY <1>3, <3>2 DEF Warm, Holds, Inside
      <3> QED BY <3>1, <3>2
    <2>3. frame'[m].at = "out" /\ \A o \in Threads \ {m} : frame'[o] = frame[o]
      BY <1>1, <2>1, FrameFacts
    <2>4. OwnersWork'
      BY <2>1, <2>2, <2>3, OthersKeepOwners DEF WaitInv
    <2>5. CallersWait'
      BY <1>1, <2>1, <2>3 DEF WaitInv, CallersWait
    <2> QED BY <2>4, <2>5 DEF WaitInv
  <1> QED BY <1>2, <1>3 DEF Preload

\* Who waits for a lock: the thread that holds it is another one, loading that very model.
WaitsForWorker(t) ==
  Holds(t, "lock") =>
    \/ owner[frame[t].model] = NoThread
    \/ \E o \in Threads \ {t} : /\ owner[frame[t].model] = o
                                /\ frame[o].model = frame[t].model
                                /\ frame[o].at \in Inside

\* No request and no preload thread waits for one that waits itself, and no lock is kept by a
\* thread that has left the load, also when the load raised: a lock is free, or its owner is
\* another thread inside a load of that model, whose steps ask for no lock; and a thread is
\* in a loader just where its code called one, so outside of them it waits for nothing
\* (embeddings.py:54-59, nli.py:92-119, warmup.py:104-108).
THEOREM WaitersWaitForWorkers ==
  Spec => [](CallersWait /\ \A t \in Threads : WaitsForWorker(t))
  <1>1. ServingInit => WaitInv
    <2> SUFFICES ASSUME ServingInit PROVE WaitInv
      OBVIOUS
    <2>1. /\ \A r \in Requests : req[r].pc = "new" /\ frame[r].at = "out"
          /\ \A m \in Preloads : preload[m] = "load" /\ frame[m].at = "lock"
      BY ThreadsApart, FrameFacts DEF ServingInit, LoadInit, New
    <2>2. OwnersWork
      BY DEF ServingInit, LoadInit, OwnersWork
    <2> QED BY <2>1, <2>2 DEF WaitInv, CallersWait, Calling
  <1>2. ServingInv /\ WaitInv /\ [Next]_vars => WaitInv'
    <2> SUFFICES ASSUME ServingInv, WaitInv, [Next]_vars PROVE WaitInv'
      OBVIOUS
    <2>1. CASE UNCHANGED vars
      BY <2>1 DEF vars, loadVars, WaitInv, OwnersWork, CallersWait
    <2> QED BY <2>1, ServeKeepsWaits, PreloadKeepsWaits DEF Next
  <1>3. ServingInv /\ WaitInv => CallersWait /\ \A t \in Threads : WaitsForWorker(t)
    <2> SUFFICES ASSUME ServingInv, WaitInv, NEW t \in Threads PROVE WaitsForWorker(t)
      BY DEF WaitInv
    <2>1. ASSUME Holds(t, "lock") PROVE frame[t].model \in Models /\ frame[t].at \notin Inside
      BY <2>1, FrameFacts DEF ServingInv, LoadInv, FramesHold, Holds
    <2> QED BY <2>1 DEF WaitsForWorker, WaitInv, OwnersWork
  <1> QED BY <1>1, <1>2, <1>3, Invariant, PTL DEF Spec
=============================================================================
