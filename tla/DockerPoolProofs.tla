-------------------------- MODULE DockerPoolProofs --------------------------
(***************************************************************************)
(* Proofs about DockerPool for any sessions, keys and caps.                *)
(*                                                                         *)
(* The holder of a container changes in one step each time: pool, session, *)
(* teardown.  What start() remembers of a pooled container (claimed) may   *)
(* be stale after an await, but then the container is on its way to        *)
(* docker rm and cannot reach the pool again.                              *)
(***************************************************************************)
EXTENDS DockerPool, FiniteSetTheorems, TLAPS

SessionTypes ==
  /\ pc \in [Sessions -> {"new", "preflight", "verify", "run", "setup", "postCreate", "super", "done"}]
  /\ cid \in [Sessions -> DOMAIN home \cup {None}] /\ ready \in [Sessions -> BOOLEAN]
  /\ claimed \in [Sessions -> DOMAIN home \cup {None}]
  /\ live \subseteq Sessions

PoolTypes ==
  /\ teardowns \subseteq [container : DOMAIN home, pooling : BOOLEAN]
  /\ pool \subseteq DOMAIN home
  /\ soiled \subseteq DOMAIN home /\ stamped \subseteq DOMAIN home /\ old \subseteq stamped
  /\ caps \in [perKey : 1..ConfiguredPerKey, total : 1..ConfiguredTotal]
  /\ shuttingDown \in BOOLEAN /\ draining \subseteq Keys
  /\ DOMAIN home \subseteq Containers /\ home \in [DOMAIN home -> Keys]
  /\ rm \subseteq DOMAIN home /\ dirty \subseteq DOMAIN home

(* HeldOnce, container by container. *)
Covered ==
  \A c \in DOMAIN home : \/ c \in rm \/ c \in pool
                         \/ \E t \in teardowns : t.container = c
                         \/ \E s \in Sessions : cid[s] = c
SessionsApart == \A s, u \in Sessions : cid[s] # None /\ cid[s] = cid[u] => s = u
TeardownsApart ==
  /\ \A t, u \in teardowns : t.container = u.container => t = u
  /\ \A t \in teardowns : t.container \notin pool /\ \A s \in Sessions : cid[s] # t.container
PoolApart == \A s \in Sessions : cid[s] \notin pool
RemovedOut ==
  /\ \A c \in rm : c \notin pool /\ \A s \in Sessions : cid[s] # c
  /\ \A t \in teardowns : t.pooling => t.container \notin rm

(* How far start() is tells what it holds.  A claim is held or going. *)
Going(c) == c \in rm \/ [container |-> c, pooling |-> FALSE] \in teardowns
Progress ==
  \A s \in Sessions :
    /\ pc[s] \in {"new", "preflight", "run"} => cid[s] = None
    /\ ready[s] => pc[s] = "done"
    /\ pc[s] = "verify" => /\ claimed[s] # None
                           /\ cid[s] = claimed[s] \/ (cid[s] = None /\ Going(claimed[s]))

(* A dirty container is out of the pool, and whatever could release it     *)
(* there has been told, or the pool is shut.                               *)
Told(c) == c \in soiled \/ shuttingDown
DirtyOK ==
  /\ SoiledStaysOut
  /\ \A s \in Sessions : cid[s] \in dirty => Told(cid[s]) \/ (s \in Restored /\ ~ready[s])
  /\ \A t \in teardowns : t.pooling /\ t.container \in dirty => Told(t.container)

ShutIsEmpty == shuttingDown => pool = {}

Held == Covered /\ SessionsApart /\ TeardownsApart /\ PoolApart /\ RemovedOut

Inv ==
  /\ SessionTypes /\ PoolTypes /\ Held
  /\ Progress /\ DirtyOK /\ ShutIsEmpty /\ WithinCaps

USE DockerPoolAssumption DEF DockerPoolAssumption
-----------------------------------------------------------------------------
(* Initially no container has been started. *)
LEMMA InitInv == Init => Inv
<1> SUFFICES ASSUME Init PROVE Inv
  OBVIOUS
<1> USE DEF Init
<1>1. SessionTypes
  BY DEF SessionTypes
<1>2. PoolTypes
  <2>1. caps \in [perKey : 1..ConfiguredPerKey, total : 1..ConfiguredTotal]
    OBVIOUS
  <2>2. DOMAIN home = {} /\ home \in [DOMAIN home -> Keys]
    OBVIOUS
  <2>3. shuttingDown \in BOOLEAN
    OBVIOUS
  <2> QED
    BY <2>1, <2>2, <2>3 DEF PoolTypes
<1>3. Held
  BY DEF Held, Covered, SessionsApart, TeardownsApart, PoolApart, RemovedOut
<1>4. Progress /\ DirtyOK /\ ShutIsEmpty
  BY DEF Progress, DirtyOK, SoiledStaysOut, ShutIsEmpty
<1>5. WithinCaps
  <2>1. \A k : Bucket(k) = {}
    BY DEF Bucket
  <2>2. caps.total \in Nat /\ caps.perKey \in Nat /\ pool = {}
    OBVIOUS
  <2>3. Cardinality({}) = 0
    BY FS_EmptySet
  <2>4. Cardinality(pool) = 0 /\ \A k : Cardinality(Bucket(k)) = 0
    BY <2>1, <2>2, <2>3
  <2> QED
    BY <2>2, <2>4 DEF WithinCaps
<1> QED
  BY <1>1, <1>2, <1>3, <1>4, <1>5 DEF Inv

(* The pool and its buckets are finite. *)
LEMMA PoolFinite ==
  ASSUME Inv
  PROVE  \A S \in SUBSET pool : IsFiniteSet(S) /\ Cardinality(S) \in Nat
<1>1. pool \in SUBSET Containers
  BY DEF Inv, PoolTypes
<1>2. \A S \in SUBSET pool : IsFiniteSet(S)
  BY <1>1, FS_Subset
<1> QED
  BY <1>2, FS_CardinalityType

(* A pool that loses containers stays within its caps. *)
LEMMA CapsKept ==
  ASSUME Inv, pool' \subseteq pool, \A c \in pool' : home'[c] = home[c], UNCHANGED caps
  PROVE  WithinCaps'
<1>1. /\ Cardinality(pool') <= Cardinality(pool) /\ IsFiniteSet(pool)
      /\ Cardinality(pool) \in Nat /\ Cardinality(pool') \in Nat
  BY PoolFinite, FS_Subset
<1>2. caps.total \in Nat /\ caps.perKey \in Nat
  BY DEF Inv, PoolTypes
<1>3. ASSUME NEW k \in Keys PROVE Cardinality(Bucket(k)') <= caps.perKey
  <2>1. Bucket(k)' \subseteq Bucket(k) /\ Bucket(k) \subseteq pool
    BY DEF Bucket
  <2>2. IsFiniteSet(Bucket(k)) /\ Cardinality(Bucket(k)) \in Nat /\ Cardinality(Bucket(k)') \in Nat
    BY <2>1, PoolFinite
  <2>3. Cardinality(Bucket(k)') <= Cardinality(Bucket(k))
    BY <2>1, <2>2, FS_Subset
  <2>4. Cardinality(Bucket(k)) <= caps.perKey
    BY DEF Inv, WithinCaps
  <2> QED
    BY <1>2, <2>2, <2>3, <2>4
<1>4. Cardinality(pool) <= caps.total
  BY DEF Inv, WithinCaps
<1> QED
  BY <1>1, <1>2, <1>3, <1>4 DEF WithinCaps

(* Capturing moves the containers of sessions into teardowns.  Meanwhile   *)
(* the pool stays, or all of it goes to docker rm.                         *)
LEMMA CaptureInv ==
  ASSUME Inv, NEW S \in SUBSET Sessions, Capture(S),
         \/ UNCHANGED <<pool, rm, shuttingDown, soiled>>
         \/ pool' = {} /\ rm' = rm \cup pool /\ shuttingDown' = TRUE /\ soiled' = {},
         \A s \in Sessions : pc'[s] = pc[s] \/ pc'[s] = "done",
         UNCHANGED <<claimed, home, dirty>>
  PROVE  Held' /\ Progress' /\ DirtyOK' /\ ShutIsEmpty'
<1> DEFINE Down(s) == [container |-> cid[s], pooling |-> ready[s]]
<1>1. /\ \A t \in teardowns : t \in teardowns'
      /\ \A s \in S : cid[s] # None => Down(s) \in teardowns'
      /\ \A t \in teardowns' : t \in teardowns \/ \E s \in S : cid[s] # None /\ t = Down(s)
  BY DEF Capture
<1>2. \A s \in Sessions : /\ cid'[s] = IF s \in S THEN None ELSE cid[s]
                          /\ s \in S => ~ready'[s]
                          /\ s \notin S => ready'[s] = (s \notin S /\ ready[s])
  BY DEF Capture
<1>3. /\ None \notin DOMAIN home /\ pool \subseteq DOMAIN home /\ rm \subseteq DOMAIN home
      /\ dirty \subseteq DOMAIN home
      /\ \A t \in teardowns : t.container \in DOMAIN home
      /\ \A s \in Sessions : cid[s] # None => cid[s] \in DOMAIN home
  BY DEF Inv, PoolTypes, SessionTypes
<1>4. \A s : Down(s).container = cid[s] /\ Down(s).pooling = ready[s]
  OBVIOUS
<1> HIDE DEF Down
<1>5. pool' \subseteq pool /\ rm \subseteq rm' /\ rm' \subseteq rm \cup pool /\ pool \subseteq pool' \cup rm'
      /\ rm' \cap pool' = {}
  BY DEF Inv, Held, RemovedOut
<1>6. Covered'
  <2> SUFFICES ASSUME NEW c \in DOMAIN home, c \notin rm', c \notin pool'
               PROVE  (\E t \in teardowns' : t.container = c) \/ \E s \in Sessions : cid'[s] = c
    BY DEF Covered
  <2>1. c \notin rm /\ c \notin pool
    BY <1>5
  <2>2. CASE \E t \in teardowns : t.container = c
    BY <1>1, <2>2
  <2>3. CASE \E s \in Sessions : cid[s] = c
    BY <1>1, <1>2, <1>3, <1>4, <2>3
  <2> QED
    BY <2>1, <2>2, <2>3 DEF Inv, Held, Covered
<1>7. SessionsApart' /\ PoolApart'
  BY <1>2, <1>3, <1>5 DEF Inv, Held, SessionsApart, PoolApart
<1>8. TeardownsApart'
  <2>1. \A t \in teardowns, s \in Sessions : t.container # cid[s]
    BY DEF Inv, Held, TeardownsApart
  <2>2. \A t, u \in teardowns' : t.container = u.container => t = u
    BY <1>1, <1>4, <2>1 DEF Inv, Held, TeardownsApart, SessionsApart
  <2>3. \A t \in teardowns' : t.container \notin pool'
    BY <1>1, <1>4, <1>5 DEF Inv, Held, TeardownsApart, PoolApart
  <2>4. \A t \in teardowns', s \in Sessions : cid'[s] # t.container
    BY <1>1, <1>2, <1>3, <1>4, <2>1 DEF Inv, Held, SessionsApart
  <2> QED
    BY <2>2, <2>3, <2>4 DEF TeardownsApart
<1>9. RemovedOut'
  <2>1. \A c \in rm' : c \notin pool' /\ \A s \in Sessions : cid'[s] # c
    BY <1>2, <1>3, <1>5 DEF Inv, Held, RemovedOut, PoolApart
  <2>2. \A t \in teardowns' : t.pooling => t.container \notin rm'
    BY <1>1, <1>4, <1>5 DEF Inv, Held, RemovedOut, TeardownsApart, PoolApart
  <2> QED
    BY <2>1, <2>2 DEF RemovedOut
<1>10. Progress'
  <2> SUFFICES ASSUME NEW s \in Sessions
               PROVE  /\ pc'[s] \in {"new", "preflight", "run"} => cid'[s] = None
                      /\ ready'[s] => pc'[s] = "done"
                      /\ pc'[s] = "verify" => /\ claimed'[s] # None
                                              /\ \/ cid'[s] = claimed'[s]
                                                 \/ cid'[s] = None /\ Going(claimed[s])'
    BY DEF Progress, Going
  <2>1. pc'[s] \in {"new", "preflight", "run"} => cid'[s] = None
    BY <1>2 DEF Inv, Progress
  <2>2. ready'[s] => pc'[s] = "done"
    BY <1>2 DEF Inv, Progress
  <2>3. ASSUME pc'[s] = "verify"
        PROVE  claimed'[s] # None /\ (cid'[s] = claimed'[s] \/ (cid'[s] = None /\ Going(claimed[s])'))
    <3>1. /\ pc[s] = "verify" /\ claimed[s] # None /\ ready[s] = FALSE
          /\ cid[s] = claimed[s] \/ (cid[s] = None /\ Going(claimed[s]))
      BY <2>3 DEF Inv, Progress, SessionTypes
    <3>2. Going(claimed[s]) => Going(claimed[s])'
      BY <1>1, <1>5 DEF Going
    <3>3. CASE s \in S /\ cid[s] = claimed[s]
      <4>1. Down(s) = [container |-> claimed[s], pooling |-> FALSE]
        BY <3>1, <3>3 DEF Down
      <4> QED
        BY <1>1, <1>2, <3>1, <3>3, <4>1 DEF Going
    <3> QED
      BY <1>2, <3>1, <3>2, <3>3
  <2> QED
    BY <2>1, <2>2, <2>3
<1>11. DirtyOK'
  <2>1. \A c : c \in soiled \/ shuttingDown => c \in soiled' \/ shuttingDown'
    OBVIOUS
  <2>2. SoiledStaysOut'
    BY <1>5 DEF Inv, DirtyOK, SoiledStaysOut
  <2>3. \A s \in Sessions : cid'[s] \in dirty' =>
          cid'[s] \in soiled' \/ shuttingDown' \/ (s \in Restored /\ ~ready'[s])
    BY <1>2, <1>3, <2>1 DEF Inv, DirtyOK, Told
  <2>4. \A t \in teardowns' : t.pooling /\ t.container \in dirty' =>
          t.container \in soiled' \/ shuttingDown'
    BY <1>1, <1>4, <2>1 DEF Inv, DirtyOK, Told
  <2> QED
    BY <2>2, <2>3, <2>4 DEF DirtyOK, Told
<1>12. ShutIsEmpty'
  BY DEF Inv, ShutIsEmpty
<1> QED
  BY <1>6, <1>7, <1>8, <1>9, <1>10, <1>11, <1>12 DEF Held

(* Evicting from the pool moves containers to docker rm and nowhere else.  *)
LEMMA EvictInv ==
  ASSUME Inv, NEW S \in SUBSET pool, pool' = pool \ S, rm' = rm \cup S, soiled \ S \subseteq soiled',
         \A s \in Sessions : pc'[s] = pc[s] \/ (pc[s] = "preflight" /\ pc'[s] = "run"),
         UNCHANGED <<cid, ready, claimed, teardowns, shuttingDown, home, dirty>>
  PROVE  Held' /\ Progress' /\ DirtyOK' /\ ShutIsEmpty'
<1>1. Covered'
  BY DEF Inv, Held, Covered
<1>2. SessionsApart' /\ PoolApart' /\ TeardownsApart'
  BY DEF Inv, Held, SessionsApart, PoolApart, TeardownsApart
<1>3. RemovedOut'
  BY DEF Inv, Held, RemovedOut, PoolApart, TeardownsApart
<1>4. Progress'
  BY DEF Inv, Progress, Going
<1>5. DirtyOK'
  <2>1. \A c \in S : c \notin dirty
    BY DEF Inv, DirtyOK, SoiledStaysOut
  <2> QED
    BY <2>1 DEF Inv, DirtyOK, SoiledStaysOut, Told
<1>6. ShutIsEmpty'
  BY DEF Inv, ShutIsEmpty
<1> QED
  BY <1>1, <1>2, <1>3, <1>4, <1>5, <1>6 DEF Held

(* Moves of start() that touch no container. *)
LEMMA MoveInv ==
  ASSUME Inv, NEW s \in Sessions, Create(s) \/ Verified(s) \/ SetUp(s) \/ PostCreated(s)
  PROVE  Inv'
<1>1. /\ \E label \in {"preflight", "postCreate", "super"} : pc' = [pc EXCEPT ![s] = label]
      /\ pc'[s] = "preflight" => pc[s] = "new"
      /\ pc[s] # "done"
      /\ UNCHANGED <<cid, ready, teardowns, pool, marks, caps, shuttingDown, draining, docker>>
      /\ claimed' = claimed \/ claimed' = [claimed EXCEPT ![s] = None]
      /\ live' = live \/ live' = live \cup {s}
  BY DEF Create, Verified, SetUp, PostCreated, Goto, Inv, SessionTypes
<1> USE DEF marks, docker
<1>2. SessionTypes'
  BY <1>1 DEF Inv, SessionTypes
<1>3. PoolTypes'
  BY <1>1 DEF Inv, PoolTypes
<1>4. Held'
  BY <1>1 DEF Inv, Held, Covered, SessionsApart, TeardownsApart, PoolApart, RemovedOut
<1>5. Progress'
  BY <1>1 DEF Inv, Progress, SessionTypes, Going
<1>6. DirtyOK' /\ ShutIsEmpty'
  BY <1>1 DEF Inv, DirtyOK, SoiledStaysOut, Told, ShutIsEmpty
<1>7. WithinCaps'
  BY <1>1, CapsKept
<1> QED
  BY <1>2, <1>3, <1>4, <1>5, <1>6, <1>7 DEF Inv

(* Steps of start() that soil the container of the session. *)
LEMMA SoilInv ==
  ASSUME Inv, NEW s \in Sessions, PostCreateUnmarked(s) \/ Ready(s)
  PROVE  Inv'
<1>1. /\ pc[s] \in {"postCreate", "super"} /\ pc' = [pc EXCEPT ![s] = IF pc[s] = "super" THEN "done" ELSE "super"]
      /\ UNCHANGED <<cid, claimed, live, teardowns, pool, stamped, old, caps, shuttingDown, draining,
                     home, rm>>
      /\ \/ pc[s] = "postCreate" /\ Soil(s) /\ dirty' = (dirty \cup {cid[s]}) \ {None} /\ UNCHANGED ready
         \/ /\ pc[s] = "super" /\ ready' = [ready EXCEPT ![s] = TRUE] /\ UNCHANGED dirty
            /\ IF s \in Restored THEN Soil(s) ELSE UNCHANGED soiled
  BY DEF PostCreateUnmarked, Ready, Goto, docker
<1>2. /\ cid[s] \in DOMAIN home \cup {None} /\ None \notin DOMAIN home
      /\ soiled \subseteq DOMAIN home /\ dirty \subseteq DOMAIN home
  BY DEF Inv, SessionTypes, PoolTypes
<1>3. /\ soiled \subseteq soiled' /\ soiled' \subseteq DOMAIN home
      /\ dirty \subseteq dirty' /\ dirty' \subseteq dirty \cup ({cid[s]} \ {None}) /\ dirty' \subseteq DOMAIN home
      /\ cid[s] \in dirty' \ dirty => cid[s] \in soiled'
  BY <1>1, <1>2 DEF Soil
<1>4. SessionTypes'
  BY <1>1 DEF Inv, SessionTypes
<1>5. PoolTypes'
  BY <1>1, <1>3 DEF Inv, PoolTypes
<1>6. Held'
  BY <1>1 DEF Inv, Held, Covered, SessionsApart, TeardownsApart, PoolApart, RemovedOut
<1>7. Progress'
  BY <1>1 DEF Inv, Progress, SessionTypes, Going
<1>8. SoiledStaysOut'
  BY <1>1, <1>3 DEF Inv, DirtyOK, SoiledStaysOut, Held, PoolApart
<1>9. \A u \in Sessions : cid'[u] \in dirty' =>
        cid'[u] \in soiled' \/ shuttingDown' \/ (u \in Restored /\ ~ready'[u])
  <2> SUFFICES ASSUME NEW u \in Sessions, cid[u] \in dirty'
               PROVE  cid[u] \in soiled' \/ shuttingDown \/ (u \in Restored /\ ~ready'[u])
    BY <1>1
  <2>1. CASE u # s
    <3>1. cid[u] \in dirty
      BY <1>2, <1>3, <2>1 DEF Inv, Held, SessionsApart
    <3>2. ready'[u] = ready[u]
      BY <1>1, <2>1 DEF Inv, SessionTypes
    <3> QED
      BY <1>3, <3>1, <3>2 DEF Inv, DirtyOK, Told
  <2>2. CASE u = s
    <3>1. CASE pc[s] = "postCreate"
      BY <1>1, <1>2, <1>3, <2>2, <3>1 DEF Soil
    <3>2. CASE pc[s] = "super"
      BY <1>1, <1>2, <1>3, <2>2, <3>2 DEF Soil, Inv, DirtyOK, Told
    <3> QED
      BY <1>1, <3>1, <3>2
  <2> QED
    BY <2>1, <2>2
<1>10. \A t \in teardowns' : t.pooling /\ t.container \in dirty' =>
         t.container \in soiled' \/ shuttingDown'
  BY <1>1, <1>3 DEF Inv, DirtyOK, Told, Held, TeardownsApart
<1>11. DirtyOK' /\ ShutIsEmpty'
  BY <1>1, <1>8, <1>9, <1>10 DEF Inv, DirtyOK, Told, ShutIsEmpty
<1>12. WithinCaps'
  BY <1>1, CapsKept
<1> QED
  BY <1>4, <1>5, <1>6, <1>7, <1>11, <1>12 DEF Inv

(* acquire() finds nothing of use: it evicts what it passed. *)
LEMMA AcquireMissInv ==
  ASSUME Inv, NEW s \in Sessions, AcquireMiss(s)
  PROVE  Inv'
<1>1. PICK S \in SUBSET pool : Evict(S) /\ pool' = pool \ S
  BY DEF AcquireMiss, Bucket
<1>2. /\ pc[s] = "preflight" /\ pc' = [pc EXCEPT ![s] = "run"]
      /\ UNCHANGED <<cid, ready, claimed, live, teardowns, caps, shuttingDown, draining, home, dirty>>
  BY DEF AcquireMiss, Goto
<1>3. SessionTypes'
  BY <1>2 DEF Inv, SessionTypes
<1>4. PoolTypes'
  BY <1>1, <1>2 DEF Inv, PoolTypes, Evict
<1>5. \A u \in Sessions : pc'[u] = pc[u] \/ (pc[u] = "preflight" /\ pc'[u] = "run")
  BY <1>2 DEF Inv, SessionTypes
<1>6. Held' /\ Progress' /\ DirtyOK' /\ ShutIsEmpty'
  BY <1>1, <1>2, <1>5, EvictInv DEF Evict
<1>7. WithinCaps'
  BY <1>1, <1>2, CapsKept
<1> QED
  BY <1>3, <1>4, <1>6, <1>7 DEF Inv

(* acquire() hands a container from the pool to the session, which had     *)
(* none.                                                                   *)
LEMMA AcquireHitInv ==
  ASSUME Inv, NEW s \in Sessions, AcquireHit(s)
  PROVE  Inv'
<1>1. PICK c \in pool, E \in SUBSET pool :
        /\ c \notin E /\ Evict(E) /\ pool' = pool \ (E \cup {c})
        /\ cid' = [cid EXCEPT ![s] = c] /\ claimed' = [claimed EXCEPT ![s] = c]
  BY DEF AcquireHit, Bucket, Bad
<1>2. /\ pc[s] = "preflight" /\ pc' = [pc EXCEPT ![s] = "verify"]
      /\ UNCHANGED <<ready, live, teardowns, caps, shuttingDown, draining, home, dirty>>
  BY DEF AcquireHit, Goto
<1>3. /\ c \in DOMAIN home /\ c # None /\ c \notin dirty /\ c \notin rm
      /\ (\A u \in Sessions : cid[u] # c) /\ (\A t \in teardowns : t.container # c)
      /\ cid[s] = None /\ ready[s] = FALSE
  BY <1>2 DEF Inv, PoolTypes, SessionTypes, DirtyOK, SoiledStaysOut, Held, PoolApart, TeardownsApart,
              RemovedOut, Progress
<1>4. \A u \in Sessions : /\ cid'[u] = IF u = s THEN c ELSE cid[u]
                          /\ claimed'[u] = IF u = s THEN c ELSE claimed[u]
                          /\ pc'[u] = IF u = s THEN "verify" ELSE pc[u]
  BY <1>1, <1>2 DEF Inv, SessionTypes
<1>5. SessionTypes'
  BY <1>1, <1>2, <1>3 DEF Inv, SessionTypes
<1>6. PoolTypes'
  BY <1>1, <1>2 DEF Inv, PoolTypes, Evict
<1>7. Covered'
  <2> SUFFICES ASSUME NEW d \in DOMAIN home', d \notin rm', d \notin pool'
               PROVE  (\E t \in teardowns' : t.container = d) \/ \E u \in Sessions : cid'[u] = d
    BY DEF Covered
  <2>1. CASE d = c
    BY <1>4, <2>1
  <2>2. CASE d # c
    <3>1. d \in DOMAIN home /\ d \notin rm /\ d \notin pool /\ d # None
      BY <1>1, <1>2, <2>2 DEF Evict, Inv, PoolTypes
    <3>2. CASE \E t \in teardowns : t.container = d
      BY <1>2, <3>2
    <3>3. CASE \E u \in Sessions : cid[u] = d
      BY <1>3, <1>4, <3>1, <3>3
    <3> QED
      BY <3>1, <3>2, <3>3 DEF Inv, Held, Covered
  <2> QED
    BY <2>1, <2>2
<1>8. SessionsApart' /\ PoolApart'
  BY <1>1, <1>3, <1>4 DEF Inv, Held, SessionsApart, PoolApart
<1>9. TeardownsApart'
  BY <1>1, <1>2, <1>3, <1>4 DEF Inv, Held, TeardownsApart
<1>10. RemovedOut'
  BY <1>1, <1>2, <1>3, <1>4 DEF Inv, Held, RemovedOut, PoolApart, TeardownsApart, Evict
<1>11. Progress'
  <2>1. \A d : Going(d) => d \in rm' \/ [container |-> d, pooling |-> FALSE] \in teardowns'
    BY <1>1, <1>2 DEF Going, Evict
  <2> QED
    BY <1>2, <1>3, <1>4, <2>1 DEF Inv, Progress, Going
<1>12. DirtyOK'
  <2>1. \A d \in dirty : d \in soiled \/ shuttingDown => d \in soiled' \/ shuttingDown'
    BY <1>1, <1>2 DEF Inv, DirtyOK, SoiledStaysOut, Evict
  <2> QED
    BY <1>1, <1>2, <1>3, <1>4, <2>1 DEF Inv, DirtyOK, SoiledStaysOut, Told
<1>13. ShutIsEmpty'
  BY <1>1, <1>2 DEF Inv, ShutIsEmpty
<1>14. WithinCaps'
  BY <1>1, <1>2, CapsKept
<1> QED
  BY <1>5, <1>6, <1>7, <1>8, <1>9, <1>10, <1>11, <1>12, <1>13, <1>14 DEF Inv, Held

(* The claim may be stale: the session was destroyed while docker exec ran *)
(* and the container is on its way out already, so forgetting it removes   *)
(* nobody else's.                                                          *)
LEMMA VerifyFailsInv ==
  ASSUME Inv, NEW s \in Sessions, VerifyFails(s)
  PROVE  Inv'
<1> DEFINE c == claimed[s]
<1>1. /\ pc[s] = "verify" /\ pc' = [pc EXCEPT ![s] = "run"] /\ Evict({c})
      /\ cid' = [cid EXCEPT ![s] = None] /\ claimed' = [claimed EXCEPT ![s] = None]
      /\ UNCHANGED <<ready, live, teardowns, pool, caps, shuttingDown, draining, home, dirty>>
  BY DEF VerifyFails, Goto
<1>2. c # None /\ c \in DOMAIN home /\ (cid[s] = c \/ (cid[s] = None /\ Going(c))) /\ ready[s] = FALSE
  BY <1>1 DEF Inv, Progress, SessionTypes
<1> HIDE DEF c
<1>3. \A u \in Sessions : /\ cid'[u] = IF u = s THEN None ELSE cid[u]
                          /\ claimed'[u] = IF u = s THEN None ELSE claimed[u]
                          /\ pc'[u] = IF u = s THEN "run" ELSE pc[u]
  BY <1>1 DEF Inv, SessionTypes
<1>4. /\ c \notin pool /\ \A u \in Sessions \ {s} : cid[u] # c
      /\ \A t \in teardowns : t.pooling => t.container # c
  <2>1. CASE cid[s] = c
    BY <1>2, <2>1 DEF Inv, Held, PoolApart, SessionsApart, TeardownsApart
  <2>2. CASE c \in rm
    BY <2>2 DEF Inv, Held, RemovedOut
  <2>3. CASE [container |-> c, pooling |-> FALSE] \in teardowns
    <3> DEFINE t == [container |-> c, pooling |-> FALSE]
    <3>1. t \in teardowns /\ t.container = c /\ t.pooling = FALSE
      BY <2>3
    <3> HIDE DEF t
    <3> QED
      BY <3>1 DEF Inv, Held, TeardownsApart
  <2> QED
    BY <1>2, <2>1, <2>2, <2>3 DEF Going
<1>5. SessionTypes'
  BY <1>1 DEF Inv, SessionTypes
<1>6. PoolTypes'
  BY <1>1, <1>2 DEF Inv, PoolTypes, Evict
<1>7. Covered'
  BY <1>1, <1>2, <1>3 DEF Inv, Held, Covered, Evict
<1>8. None \notin DOMAIN home
  BY DEF Inv, PoolTypes
<1>9. SessionsApart' /\ PoolApart' /\ TeardownsApart'
  BY <1>1, <1>3, <1>8 DEF Inv, Held, SessionsApart, PoolApart, TeardownsApart, PoolTypes
<1>10. RemovedOut'
  BY <1>1, <1>3, <1>4, <1>8, <1>2 DEF Inv, Held, RemovedOut, Evict, PoolTypes
<1>11. Progress'
  <2>1. \A d : Going(d) => d \in rm' \/ [container |-> d, pooling |-> FALSE] \in teardowns'
    BY <1>1 DEF Going, Evict
  <2> QED
    BY <1>1, <1>2, <1>3, <2>1 DEF Inv, Progress, Going
<1>12. DirtyOK'
  <2>1. \A d : d # c /\ (d \in soiled \/ shuttingDown) => d \in soiled' \/ shuttingDown'
    BY <1>1 DEF Evict
  <2> QED
    BY <1>1, <1>3, <1>4, <1>8, <2>1 DEF Inv, DirtyOK, SoiledStaysOut, Told, PoolTypes
<1>13. ShutIsEmpty' /\ WithinCaps'
  BY <1>1, CapsKept DEF Inv, ShutIsEmpty
<1> QED
  BY <1>5, <1>6, <1>7, <1>9, <1>10, <1>11, <1>12, <1>13 DEF Inv, Held

(* docker run gives an id nobody knows. *)
LEMMA LaunchedInv ==
  ASSUME Inv, NEW s \in Sessions, Launched(s)
  PROVE  Inv'
<1>1. PICK c \in Containers \ DOMAIN home :
        /\ cid' = [cid EXCEPT ![s] = c]
        /\ home' = [d \in DOMAIN home \cup {c} |-> IF d = c THEN KeyOf[s] ELSE home[d]]
        /\ dirty' = IF s \in Restored THEN dirty \cup {c} ELSE dirty
  BY DEF Launched
<1>2. /\ pc[s] = "run" /\ pc' = [pc EXCEPT ![s] = IF s \in Restored THEN "postCreate" ELSE "setup"]
      /\ UNCHANGED <<ready, claimed, live, teardowns, pool, marks, caps, shuttingDown, draining, rm>>
  BY DEF Launched, Goto
<1>3. /\ c # None /\ cid[s] = None /\ ready[s] = FALSE
      /\ \A u \in Sessions : cid[u] # c
      /\ \A t \in teardowns : t.container # c
      /\ c \notin pool /\ c \notin rm /\ c \notin dirty
  BY <1>1, <1>2 DEF Inv, SessionTypes, PoolTypes, Progress
<1>4. /\ DOMAIN home' = DOMAIN home \cup {c} /\ home' \in [DOMAIN home' -> Keys]
      /\ \A d \in DOMAIN home : home'[d] = home[d]
  BY <1>1 DEF Inv, PoolTypes
<1>5. \A u \in Sessions : /\ cid'[u] = IF u = s THEN c ELSE cid[u]
                          /\ u # s => pc'[u] = pc[u]
                          /\ pc'[s] \in {"setup", "postCreate"}
  BY <1>1, <1>2 DEF Inv, SessionTypes
<1> USE DEF marks
<1>6. SessionTypes'
  BY <1>1, <1>2, <1>4 DEF Inv, SessionTypes
<1>7. PoolTypes'
  BY <1>1, <1>2, <1>4 DEF Inv, PoolTypes
<1>8. Held'
  <2>1. Covered'
    <3> SUFFICES ASSUME NEW d \in DOMAIN home', d \notin rm', d \notin pool'
                 PROVE  (\E t \in teardowns' : t.container = d) \/ \E u \in Sessions : cid'[u] = d
      BY DEF Covered
    <3>1. CASE d = c
      BY <1>5, <3>1
    <3>2. CASE d # c
      <4>1. d \in DOMAIN home /\ d \notin rm /\ d \notin pool /\ d # None
        BY <1>1, <1>2, <1>4, <3>2 DEF Inv, PoolTypes
      <4>2. CASE \E t \in teardowns : t.container = d
        BY <1>2, <4>2
      <4>3. CASE \E u \in Sessions : cid[u] = d
        BY <1>3, <1>5, <4>1, <4>3
      <4> QED
        BY <4>1, <4>2, <4>3 DEF Inv, Held, Covered
    <3> QED
      BY <3>1, <3>2
  <2>2. SessionsApart' /\ PoolApart' /\ TeardownsApart' /\ RemovedOut'
    BY <1>2, <1>3, <1>5 DEF Inv, Held, SessionsApart, PoolApart, TeardownsApart, RemovedOut
  <2> QED
    BY <2>1, <2>2 DEF Held
<1>9. Progress'
  BY <1>2, <1>3, <1>5 DEF Inv, Progress, Going
<1>10. DirtyOK'
  <2>1. dirty' \subseteq dirty \cup {c} /\ (c \in dirty' => s \in Restored)
    BY <1>1, <1>3
  <2> QED
    BY <1>2, <1>3, <1>5, <2>1 DEF Inv, DirtyOK, SoiledStaysOut, Told
<1>11. ShutIsEmpty'
  BY <1>2 DEF Inv, ShutIsEmpty
<1>12. WithinCaps'
  <2>1. \A d \in pool : d \in DOMAIN home
    BY DEF Inv, PoolTypes
  <2> QED
    BY <1>2, <1>4, <2>1, CapsKept
<1> QED
  BY <1>6, <1>7, <1>8, <1>9, <1>10, <1>11, <1>12 DEF Inv

(* Capturing keeps the types. *)
LEMMA CaptureTypes ==
  ASSUME Inv, NEW S \in SUBSET Sessions, Capture(S), UNCHANGED home
  PROVE  /\ cid' \in [Sessions -> DOMAIN home' \cup {None}] /\ ready' \in [Sessions -> BOOLEAN]
         /\ teardowns' \subseteq [container : DOMAIN home', pooling : BOOLEAN]
<1>1. \A s \in Sessions : /\ cid[s] \in DOMAIN home \cup {None}
                          /\ ready[s] \in BOOLEAN
  BY DEF Inv, SessionTypes
<1>2. teardowns' \subseteq [container : DOMAIN home, pooling : BOOLEAN]
  BY <1>1 DEF Capture, Inv, PoolTypes
<1>3. cid' \in [Sessions -> DOMAIN home \cup {None}]
  BY <1>1 DEF Capture
<1>4. ready' \in [Sessions -> BOOLEAN]
  BY <1>1 DEF Capture
<1> QED
  BY <1>2, <1>3, <1>4

(* A failing start and the manager's destroy both capture. *)
LEMMA DestroyInv ==
  ASSUME Inv, NEW s \in Sessions, StartFails(s) \/ Destroy(s)
  PROVE  Inv'
<1>1. /\ Capture({s}) /\ {s} \in SUBSET Sessions
      /\ pc' = pc \/ pc' = [pc EXCEPT ![s] = "done"]
      /\ live' = live \/ live' = live \ {s}
      /\ UNCHANGED <<claimed, pool, soiled, stamped, old, caps, shuttingDown, draining, home, rm, dirty>>
  BY DEF StartFails, Destroy, Goto, marks, docker
<1>2. \A u \in Sessions : pc'[u] = pc[u] \/ pc'[u] = "done"
  BY <1>1 DEF Inv, SessionTypes
<1>3. Held' /\ Progress' /\ DirtyOK' /\ ShutIsEmpty'
  BY <1>1, <1>2, CaptureInv
<1>4. /\ cid' \in [Sessions -> DOMAIN home' \cup {None}] /\ ready' \in [Sessions -> BOOLEAN]
      /\ teardowns' \subseteq [container : DOMAIN home', pooling : BOOLEAN]
  BY <1>1, CaptureTypes
<1>5. SessionTypes'
  BY <1>1, <1>4 DEF Inv, SessionTypes
<1>6. PoolTypes'
  BY <1>1, <1>4 DEF Inv, PoolTypes
<1>7. WithinCaps'
  BY <1>1, CapsKept
<1> QED
  BY <1>3, <1>5, <1>6, <1>7 DEF Inv

(* The shutdown captures every session it knows and empties the pool. *)
LEMMA ShutdownInv ==
  ASSUME Inv, Shutdown
  PROVE  Inv'
<1>1. /\ Capture(live) /\ live' = {} /\ shuttingDown' = TRUE
      /\ rm' = rm \cup pool /\ pool' = {} /\ soiled' = {} /\ stamped' = {} /\ old' = {}
      /\ UNCHANGED <<pc, claimed, caps, draining, home, dirty>>
  BY DEF Shutdown
<1>2. live \in SUBSET Sessions
  BY DEF Inv, SessionTypes
<1>3. Held' /\ Progress' /\ DirtyOK' /\ ShutIsEmpty'
  BY <1>1, <1>2, CaptureInv
<1>4. /\ cid' \in [Sessions -> DOMAIN home' \cup {None}] /\ ready' \in [Sessions -> BOOLEAN]
      /\ teardowns' \subseteq [container : DOMAIN home', pooling : BOOLEAN]
  BY <1>1, <1>2, CaptureTypes
<1>5. SessionTypes'
  BY <1>1, <1>4 DEF Inv, SessionTypes
<1>6. PoolTypes'
  BY <1>1, <1>4 DEF Inv, PoolTypes
<1>7. WithinCaps'
  BY <1>1, CapsKept
<1> QED
  BY <1>3, <1>5, <1>6, <1>7 DEF Inv

(* A teardown ends in docker rm. *)
LEMMA GoneInv ==
  ASSUME Inv, NEW t \in teardowns, teardowns' = teardowns \ {t},
         rm' = rm \cup {t.container}, soiled \ {t.container} \subseteq soiled', soiled' \subseteq soiled,
         stamped' \subseteq stamped, old' \subseteq stamped',
         UNCHANGED <<session, live, pool, caps, shuttingDown, draining, home, dirty>>
  PROVE  Inv'
<1> DEFINE c == t.container
<1>1. /\ c \in DOMAIN home /\ c \notin pool /\ (\A s \in Sessions : cid[s] # c)
      /\ \A u \in teardowns' : u.container # c
  BY DEF Inv, PoolTypes, Held, TeardownsApart
<1> HIDE DEF c
<1>2. /\ rm' = rm \cup {c} /\ soiled \ {c} \subseteq soiled'
      /\ \A u \in teardowns : u \in teardowns' \/ u.container = c
      /\ UNCHANGED <<pc, cid, ready, claimed, live, pool, caps, shuttingDown, draining, home, dirty>>
  BY DEF session, c
<1>3. SessionTypes'
  BY <1>2 DEF Inv, SessionTypes
<1>4. PoolTypes'
  BY <1>1, <1>2 DEF Inv, PoolTypes
<1>5. Covered'
  BY <1>2 DEF Inv, Held, Covered
<1>6. SessionsApart' /\ PoolApart' /\ TeardownsApart'
  BY <1>2 DEF Inv, Held, SessionsApart, PoolApart, TeardownsApart
<1>7. RemovedOut'
  BY <1>1, <1>2 DEF Inv, Held, RemovedOut
<1>8. Progress'
  <2>1. \A d : Going(d) => d \in rm' \/ [container |-> d, pooling |-> FALSE] \in teardowns'
    <3> SUFFICES ASSUME NEW d, [container |-> d, pooling |-> FALSE] \in teardowns
                 PROVE  d \in rm' \/ [container |-> d, pooling |-> FALSE] \in teardowns'
      BY <1>2 DEF Going
    <3>1. [container |-> d, pooling |-> FALSE].container = d
      OBVIOUS
    <3> QED
      BY <1>2, <3>1
  <2> QED
    BY <1>2, <2>1 DEF Inv, Progress, Going
<1>9. DirtyOK'
  BY <1>1, <1>2 DEF Inv, DirtyOK, SoiledStaysOut, Told
<1>10. ShutIsEmpty' /\ WithinCaps'
  BY <1>2, CapsKept DEF Inv, ShutIsEmpty
<1> QED
  BY <1>3, <1>4, <1>5, <1>6, <1>7, <1>8, <1>9, <1>10 DEF Inv, Held

(* A teardown returns its container to a pool that has room for it. *)
LEMMA PooledInv ==
  ASSUME Inv, NEW t \in teardowns, t.pooling, teardowns' = teardowns \ {t},
         ~shuttingDown, t.container \notin Bad, HasRoom(home[t.container]),
         pool' = pool \cup {t.container}, stamped' = stamped \cup {t.container},
         UNCHANGED <<soiled, old, rm, session, live, caps, shuttingDown, draining, home, dirty>>
  PROVE  Inv'
<1> DEFINE c == t.container
<1>1. /\ c \in DOMAIN home /\ c \notin pool /\ (\A s \in Sessions : cid[s] # c)
      /\ c \notin rm /\ c \notin dirty /\ \A u \in teardowns' : u.container # c
  BY DEF Inv, PoolTypes, Held, TeardownsApart, RemovedOut, DirtyOK, Told, Bad
<1> HIDE DEF c
<1>2. /\ pool' = pool \cup {c} /\ stamped' = stamped \cup {c} /\ HasRoom(home[c])
      /\ \A u \in teardowns : u \in teardowns' \/ (u.container = c /\ u.pooling)
      /\ UNCHANGED <<pc, cid, ready, claimed>>
  BY DEF session, c
<1>3. SessionTypes'
  BY <1>2 DEF Inv, SessionTypes
<1>4. PoolTypes'
  BY <1>1, <1>2 DEF Inv, PoolTypes
<1>5. Covered'
  BY <1>2 DEF Inv, Held, Covered
<1>6. SessionsApart' /\ PoolApart' /\ TeardownsApart'
  BY <1>1, <1>2 DEF Inv, Held, SessionsApart, PoolApart, TeardownsApart
<1>7. RemovedOut'
  BY <1>1, <1>2 DEF Inv, Held, RemovedOut
<1>8. Progress'
  <2>1. \A d : Going(d) => d \in rm' \/ [container |-> d, pooling |-> FALSE] \in teardowns'
    <3> SUFFICES ASSUME NEW d, [container |-> d, pooling |-> FALSE] \in teardowns
                 PROVE  [container |-> d, pooling |-> FALSE] \in teardowns'
      BY <1>2 DEF Going
    <3>1. ~[container |-> d, pooling |-> FALSE].pooling
      OBVIOUS
    <3> QED
      BY <1>2, <3>1
  <2> QED
    BY <1>2, <2>1 DEF Inv, Progress, Going
<1>9. DirtyOK'
  BY <1>1, <1>2 DEF Inv, DirtyOK, SoiledStaysOut, Told
<1>10. ShutIsEmpty'
  BY DEF ShutIsEmpty
<1>11. WithinCaps'
  <2>1. IsFiniteSet(pool) /\ Cardinality(pool) \in Nat
    BY PoolFinite
  <2>2. Cardinality(pool') = Cardinality(pool) + 1
    BY <1>1, <1>2, <2>1, FS_AddElement
  <2>3. Cardinality(pool) < caps.total /\ Cardinality(Bucket(home[c])) < caps.perKey
        /\ caps.total \in Nat /\ caps.perKey \in Nat
    BY <1>2 DEF HasRoom, Inv, PoolTypes
  <2>4. ASSUME NEW k \in Keys PROVE Cardinality(Bucket(k)') <= caps.perKey
    <3>1. IsFiniteSet(Bucket(k)) /\ Cardinality(Bucket(k)) \in Nat /\ c \notin Bucket(k)
      BY <1>1, PoolFinite DEF Bucket
    <3>2. Cardinality(Bucket(k) \cup {c}) = Cardinality(Bucket(k)) + 1
      BY <3>1, FS_AddElement
    <3>3. Bucket(k)' = IF home[c] = k THEN Bucket(k) \cup {c} ELSE Bucket(k)
      BY <1>2 DEF Bucket
    <3>4. Cardinality(Bucket(k)) <= caps.perKey
      BY DEF Inv, WithinCaps
    <3> QED
      BY <2>3, <3>1, <3>2, <3>3, <3>4
  <2> QED
    BY <2>1, <2>2, <2>3, <2>4 DEF WithinCaps
<1> QED
  BY <1>3, <1>4, <1>5, <1>6, <1>7, <1>8, <1>9, <1>10, <1>11 DEF Inv, Held

(* What happens to idle containers only: they leave the pool for docker    *)
(* rm, or age; the caps may shrink with the pool.                          *)
LEMMA IdleInv ==
  ASSUME Inv, NEW S \in SUBSET pool, pool' = pool \ S, rm' = rm \cup S,
         soiled \ S \subseteq soiled', soiled' \subseteq soiled,
         stamped' \subseteq stamped, old' \subseteq stamped',
         draining' \subseteq Keys, WithinCaps',
         caps' \in [perKey : 1..ConfiguredPerKey, total : 1..ConfiguredTotal],
         UNCHANGED <<session, live, teardowns, shuttingDown, home, dirty>>
  PROVE  Inv'
<1> USE DEF session
<1>1. SessionTypes'
  BY DEF Inv, SessionTypes
<1>2. PoolTypes'
  BY DEF Inv, PoolTypes
<1>3. Held' /\ Progress' /\ DirtyOK' /\ ShutIsEmpty'
  BY EvictInv
<1> QED
  BY <1>1, <1>2, <1>3 DEF Inv

(* resize() trims the pool to the caps it sets, never above the            *)
(* configured ones.                                                        *)
LEMMA ResizeInv ==
  ASSUME Inv, NEW perKey \in 1..(ConfiguredPerKey + 1), NEW total \in 1..(ConfiguredTotal + 1),
         Resize(perKey, total)
  PROVE  Inv'
<1>1. PICK trimmed \in SUBSET pool, kept \in SUBSET pool :
        /\ kept \subseteq trimmed
        /\ \A k \in Keys : Cardinality(Bucket(k) \cap trimmed)
                              = Least(Cardinality(Bucket(k)), caps'.perKey)
        /\ Cardinality(kept) = Least(Cardinality(trimmed), caps'.total)
        /\ Evict(pool \ kept) /\ pool' = kept
  BY DEF Resize
<1>2. /\ caps' = [perKey |-> Least(perKey, ConfiguredPerKey), total |-> Least(total, ConfiguredTotal)]
      /\ UNCHANGED <<session, live, teardowns, shuttingDown, draining, home, dirty>>
  BY DEF Resize
<1>3. /\ caps' \in [perKey : 1..ConfiguredPerKey, total : 1..ConfiguredTotal]
      /\ caps'.perKey \in Nat /\ caps'.total \in Nat
  BY <1>2 DEF Least
<1>4. WithinCaps'
  <2>1. Cardinality(kept) <= caps'.total
    BY <1>1, <1>3, PoolFinite DEF Least
  <2>2. ASSUME NEW k \in Keys PROVE Cardinality(Bucket(k)') <= caps'.perKey
    <3>1. /\ Bucket(k)' \subseteq Bucket(k) \cap trimmed /\ Bucket(k) \cap trimmed \in SUBSET pool
          /\ Bucket(k) \in SUBSET pool
      BY <1>1, <1>2 DEF Bucket
    <3>2. /\ IsFiniteSet(Bucket(k) \cap trimmed) /\ Cardinality(Bucket(k) \cap trimmed) \in Nat
          /\ Cardinality(Bucket(k)) \in Nat
      BY <3>1, PoolFinite
    <3>3. Cardinality(Bucket(k)') <= Cardinality(Bucket(k) \cap trimmed)
          /\ Cardinality(Bucket(k)') \in Nat
      BY <3>1, <3>2, FS_Subset, FS_CardinalityType
    <3>4. Cardinality(Bucket(k) \cap trimmed) <= caps'.perKey
      BY <1>1, <1>3, <3>2 DEF Least
    <3> QED
      BY <1>3, <3>2, <3>3, <3>4
  <2> QED
    BY <1>1, <2>1, <2>2 DEF WithinCaps
<1>5. /\ pool \ kept \in SUBSET pool /\ pool' = pool \ (pool \ kept)
      /\ draining \subseteq Keys /\ old \subseteq stamped
  BY <1>1 DEF Inv, PoolTypes
<1> DEFINE S == pool \ kept
<1>6. /\ S \in SUBSET pool /\ pool' = pool \ S /\ rm' = rm \cup S
      /\ soiled \ S \subseteq soiled' /\ soiled' \subseteq soiled
      /\ stamped' \subseteq stamped /\ old' \subseteq stamped'
  BY <1>1, <1>5 DEF Evict
<1> HIDE DEF S
<1> QED
  BY <1>2, <1>3, <1>4, <1>5, <1>6, IdleInv

(* The other ways out of the pool, idle timers, drains and recycling, move *)
(* some of it to docker rm.                                                *)
LEMMA OutOfPool ==
  ASSUME Inv, (\E c \in Containers : IdleOut(c) \/ GrowOld(c)) \/ DrainAll \/ DrainNext \/ Recycle
  PROVE  \E S \in SUBSET pool : /\ pool' = pool \ S /\ rm' = rm \cup S
                                /\ soiled \ S \subseteq soiled' /\ soiled' \subseteq soiled
                                /\ stamped' \subseteq stamped /\ old' \subseteq stamped'
<1>1. ASSUME NEW c \in Containers, IdleOut(c)
      PROVE  /\ {c} \in SUBSET pool /\ pool' = pool \ {c} /\ rm' = rm \cup {c}
             /\ soiled' = soiled /\ stamped' \subseteq stamped /\ old' \subseteq stamped'
  BY <1>1 DEF IdleOut, Inv, PoolTypes
<1>2. ASSUME NEW c \in Containers, GrowOld(c)
      PROVE  /\ pool' = pool \ {} /\ rm' = rm \cup {}
             /\ soiled' = soiled /\ stamped' \subseteq stamped /\ old' \subseteq stamped'
  BY <1>2 DEF GrowOld, docker, Inv, PoolTypes
<1>3. ASSUME NEW k, DrainBucket(k)
      PROVE  /\ Bucket(k) \in SUBSET pool /\ pool' = pool \ Bucket(k) /\ rm' = rm \cup Bucket(k)
             /\ soiled \ Bucket(k) \subseteq soiled' /\ soiled' \subseteq soiled
             /\ stamped' \subseteq stamped /\ old' \subseteq stamped'
  BY <1>3 DEF DrainBucket, Evict, Bucket, Inv, PoolTypes
<1>4. CASE \E c \in Containers : IdleOut(c)
  <2>1. PICK c \in Containers : IdleOut(c)
    BY <1>4
  <2>2. /\ {c} \in SUBSET pool /\ pool' = pool \ {c} /\ rm' = rm \cup {c}
        /\ soiled \ {c} \subseteq soiled' /\ soiled' \subseteq soiled
        /\ stamped' \subseteq stamped /\ old' \subseteq stamped'
    BY <1>1, <2>1
  <2> QED
    BY <2>2
<1>5. CASE \E c \in Containers : GrowOld(c)
  <2>1. PICK c \in Containers : GrowOld(c)
    BY <1>5
  <2>2. /\ {} \in SUBSET pool /\ pool' = pool \ {} /\ rm' = rm \cup {}
        /\ soiled \ {} \subseteq soiled' /\ soiled' \subseteq soiled
        /\ stamped' \subseteq stamped /\ old' \subseteq stamped'
    BY <1>2, <2>1
  <2> QED
    BY <2>2
<1>6. CASE DrainAll \/ DrainNext \/ Recycle
  BY <1>3, <1>6 DEF DrainAll, DrainNext, Recycle
<1> QED
  BY <1>4, <1>5, <1>6

(* They leave the rest alone. *)
LEMMA OutOfPoolFrame ==
  ASSUME Inv, (\E c \in Containers : IdleOut(c) \/ GrowOld(c)) \/ DrainAll \/ DrainNext \/ Recycle
  PROVE  /\ draining' \subseteq Keys
         /\ UNCHANGED <<session, live, teardowns, caps, shuttingDown, home, dirty>>
<1>1. \A c \in pool : home[c] \in Keys
  BY DEF Inv, PoolTypes
<1> QED
  BY <1>1 DEF IdleOut, GrowOld, DrainAll, DrainNext, Recycle, DrainBucket, docker, Inv, PoolTypes

(* They keep the invariant. *)
LEMMA OutOfPoolInv ==
  ASSUME Inv, (\E c \in Containers : IdleOut(c) \/ GrowOld(c)) \/ DrainAll \/ DrainNext \/ Recycle
  PROVE  Inv'
<1>1. PICK S \in SUBSET pool : /\ pool' = pool \ S /\ rm' = rm \cup S
                              /\ soiled \ S \subseteq soiled' /\ soiled' \subseteq soiled
                              /\ stamped' \subseteq stamped /\ old' \subseteq stamped'
  BY OutOfPool
<1>2. /\ draining' \subseteq Keys
      /\ UNCHANGED <<session, live, teardowns, caps, shuttingDown, home, dirty>>
  BY OutOfPoolFrame
<1>3. WithinCaps'
  BY <1>1, <1>2, CapsKept
<1>4. caps' \in [perKey : 1..ConfiguredPerKey, total : 1..ConfiguredTotal]
  BY <1>2 DEF Inv, PoolTypes
<1> QED
  BY <1>1, <1>2, <1>3, <1>4, IdleInv

(* Every step keeps the invariant. *)
LEMMA NextInv == Inv /\ [Next]_vars => Inv'
<1> SUFFICES ASSUME Inv, [Next]_vars PROVE Inv'
  OBVIOUS
<1>1. ASSUME NEW s \in Sessions, Create(s) \/ Verified(s) \/ SetUp(s) \/ PostCreated(s) PROVE Inv'
  BY <1>1, MoveInv
<1>2. ASSUME NEW s \in Sessions, PostCreateUnmarked(s) \/ Ready(s) PROVE Inv'
  BY <1>2, SoilInv
<1>3. ASSUME NEW s \in Sessions, AcquireMiss(s) \/ AcquireHit(s) PROVE Inv'
  BY <1>3, AcquireMissInv, AcquireHitInv
<1>4. ASSUME NEW s \in Sessions, VerifyFails(s) \/ Launched(s) PROVE Inv'
  BY <1>4, VerifyFailsInv, LaunchedInv
<1>5. ASSUME NEW s \in Sessions, StartFails(s) \/ Destroy(s) PROVE Inv'
  BY <1>5, DestroyInv
<1>6. CASE Remove
  <2>1. PICK t \in teardowns :
          /\ teardowns' = teardowns \ {t} /\ rm' = rm \cup {t.container}
          /\ UNCHANGED <<session, live, pool, marks, caps, shuttingDown, draining, home, dirty>>
    BY <1>6 DEF Remove
  <2>2. /\ soiled \ {t.container} \subseteq soiled' /\ soiled' \subseteq soiled
        /\ stamped' \subseteq stamped /\ old' \subseteq stamped'
    BY <2>1 DEF marks, Inv, PoolTypes
  <2> QED
    BY <2>1, <2>2, GoneInv
<1>7. CASE Release
  <2>1. PICK t \in teardowns :
          /\ t.pooling /\ teardowns' = teardowns \ {t}
          /\ IF shuttingDown \/ t.container \in Bad \/ ~HasRoom(home[t.container])
             THEN Evict({t.container}) /\ UNCHANGED pool
             ELSE /\ pool' = pool \cup {t.container} /\ stamped' = stamped \cup {t.container}
                  /\ UNCHANGED <<soiled, old, rm>>
          /\ UNCHANGED <<session, live, caps, shuttingDown, draining, home, dirty>>
    BY <1>7 DEF Release
  <2>2. CASE shuttingDown \/ t.container \in Bad \/ ~HasRoom(home[t.container])
    <3>1. /\ rm' = rm \cup {t.container} /\ UNCHANGED pool
          /\ soiled \ {t.container} \subseteq soiled' /\ soiled' \subseteq soiled
          /\ stamped' \subseteq stamped /\ old' \subseteq stamped'
      BY <2>1, <2>2 DEF Evict, Inv, PoolTypes
    <3> QED
      BY <2>1, <3>1, GoneInv
  <2>3. CASE ~(shuttingDown \/ t.container \in Bad \/ ~HasRoom(home[t.container]))
    BY <2>1, <2>3, PooledInv
  <2> QED
    BY <2>2, <2>3
<1>8. CASE (\E c \in Containers : IdleOut(c) \/ GrowOld(c)) \/ DrainAll \/ DrainNext \/ Recycle
  BY <1>8, OutOfPoolInv
<1>9. ASSUME NEW perKey \in 1..(ConfiguredPerKey + 1), NEW total \in 1..(ConfiguredTotal + 1),
             Resize(perKey, total)
      PROVE  Inv'
  BY <1>9, ResizeInv
<1>10. CASE Shutdown
  BY <1>10, ShutdownInv
<1>11. CASE UNCHANGED vars
  <2> USE DEF vars, session, marks, docker
  <2>1. SessionTypes' /\ PoolTypes' /\ WithinCaps'
    BY <1>11, CapsKept DEF Inv, SessionTypes, PoolTypes
  <2>2. Held' /\ Progress' /\ DirtyOK' /\ ShutIsEmpty'
    BY <1>11 DEF Inv, Held, Covered, SessionsApart, TeardownsApart, PoolApart, RemovedOut,
                 Progress, Going, DirtyOK, SoiledStaysOut, Told, ShutIsEmpty
  <2> QED
    BY <2>1, <2>2 DEF Inv
<1> QED
  BY <1>1, <1>2, <1>3, <1>4, <1>5, <1>6, <1>7, <1>8, <1>9, <1>10, <1>11 DEF Next
-----------------------------------------------------------------------------
(* Every variable keeps its type; the caps only ever shrink. *)
THEOREM Types == Spec => []TypeOK
<1>1. Inv => TypeOK
  BY DEF Inv, SessionTypes, PoolTypes, TypeOK
<1> QED
  BY <1>1, InitInv, NextInv, PTL DEF Spec

(* The pool never holds more containers than it was last told to, in all   *)
(* and per key, however releases and resizes interleave.                   *)
THEOREM CapsHold == Spec => []WithinCaps
<1>1. Inv => WithinCaps
  BY DEF Inv
<1> QED
  BY <1>1, InitInv, NextInv, PTL DEF Spec

(* A running container has one holder, for any number of sessions and any  *)
(* interleaving of their starts and destroys with the pool's own work.     *)
THEOREM OneHolder == Spec => []HeldOnce
<1>1. Inv => HeldOnce
  <2> SUFFICES ASSUME Inv PROVE HeldOnce
    OBVIOUS
  <2>1. DOMAIN home \ rm \subseteq
          pool \cup {t.container : t \in teardowns} \cup {cid[s] : s \in Sessions}
    BY DEF Inv, Held, Covered
  <2>2. rm \cap (pool \cup {cid[s] : s \in Sessions}) = {}
    BY DEF Inv, Held, RemovedOut
  <2> QED
    BY <2>1, <2>2 DEF Inv, Held, SessionsApart, TeardownsApart, PoolApart, HeldOnce
<1> QED
  BY <1>1, InitInv, NextInv, PTL DEF Spec

(* A container unfit for another session never reaches the pool.           *)
THEOREM SoiledNeverPooled == Spec => []SoiledStaysOut
<1>1. Inv => SoiledStaysOut
  BY DEF Inv, DirtyOK
<1> QED
  BY <1>1, InitInv, NextInv, PTL DEF Spec
-----------------------------------------------------------------------------
(* Where a container is, by who has it. *)
LEMMA StageCases ==
  ASSUME Inv, NEW c \in Containers
  PROVE  /\ c \notin DOMAIN home => StageOf(c) = "unborn"
         /\ c \in rm => StageOf(c) = "gone"
         /\ c \in pool => StageOf(c) = "idle"
         /\ \A t \in teardowns : t.container = c => StageOf(c) = IF c \in rm THEN "gone" ELSE "leaving"
         /\ \A s \in Sessions : cid[s] = c => StageOf(c) = "held"
<1>1. /\ None # c /\ pool \subseteq DOMAIN home /\ rm \subseteq DOMAIN home
      /\ \A t \in teardowns : t.container \in DOMAIN home
      /\ \A s \in Sessions : cid[s] \in DOMAIN home \cup {None}
  BY DEF Inv, PoolTypes, SessionTypes
<1>2. c \in rm => c \notin pool
  BY DEF Inv, Held, RemovedOut
<1>3. \A t \in teardowns : t.container = c => c \notin pool
  BY DEF Inv, Held, TeardownsApart
<1>4. \A s \in Sessions : cid[s] = c => /\ c \notin pool /\ c \notin rm
                                        /\ \A t \in teardowns : t.container # c
  BY DEF Inv, Held, TeardownsApart, PoolApart, RemovedOut
<1> QED
  BY <1>1, <1>2, <1>3, <1>4 DEF StageOf

(* A container whose places are as they were is where it was. *)
LEMMA SameStage ==
  ASSUME NEW c, c \in DOMAIN home' <=> c \in DOMAIN home, c \in rm' <=> c \in rm, c \in pool' <=> c \in pool,
         (\E t \in teardowns' : t.container = c) <=> (\E t \in teardowns : t.container = c)
  PROVE  StageOf(c)' = StageOf(c)
BY DEF StageOf

(* Steps that move no container and spoil none. *)
LEMMA SameLease ==
  ASSUME UNCHANGED <<cid, home, rm, pool, teardowns, dirty, shuttingDown>>
  PROVE  UNCHANGED Lease!vars
<1>1. \A c \in Containers : StageOf(c)' = StageOf(c)
  BY SameStage
<1>2. [c \in Containers |-> StageOf(c)]' = [c \in Containers |-> StageOf(c)]
  BY <1>1
<1> QED
  BY <1>2 DEF Lease!vars

(* Containers leave the pool or a teardown for docker rm, some of them     *)
(* perhaps a second time.                                                  *)
LEMMA DiscardLease ==
  ASSUME Inv, NEW S,
         \A c \in S : c \in pool \/ c \in rm \/ \E t \in teardowns : t.container = c,
         rm' = rm \cup S, pool' = pool \ S,
         \A c \in Containers \ S : (\E t \in teardowns' : t.container = c) <=> (\E t \in teardowns : t.container = c),
         UNCHANGED <<cid, home, dirty, shuttingDown>>
  PROVE  Lease!Next
<1> DEFINE stage == [c \in Containers |-> StageOf(c)]
           Out == (S \cap Containers) \ rm
<1>1. \A c \in Containers : c \in S => c \in DOMAIN home
  BY DEF Inv, PoolTypes
<1>2. \A c \in Containers : c \in Out => StageOf(c) \in {"idle", "leaving"} /\ StageOf(c)' = "gone"
  BY <1>1, StageCases DEF StageOf
<1>3. \A c \in Containers \ Out : StageOf(c)' = StageOf(c)
  <2> SUFFICES ASSUME NEW c \in Containers \ Out PROVE StageOf(c)' = StageOf(c)
    OBVIOUS
  <2>1. CASE c \in S
    BY <1>1, <2>1, StageCases DEF StageOf
  <2>2. CASE c \notin S
    BY <2>2, SameStage
  <2> QED
    BY <2>1, <2>2
<1>4. Out \in SUBSET {c \in Containers : stage[c] \in {"idle", "leaving"}}
  BY <1>2
<1>5. stage' = [c \in Containers |-> IF c \in Out THEN "gone" ELSE stage[c]]
  BY <1>2, <1>3
<1> HIDE DEF Out
<1>6. Lease!Discard
  BY <1>4, <1>5 DEF Lease!Discard, Lease!Move
<1> QED
  BY <1>6 DEF Lease!Next

(* acquire() lends an idle container of the session's key. *)
LEMMA AcquireHitLease ==
  ASSUME Inv, NEW s \in Sessions, AcquireHit(s)
  PROVE  Lease!Next
<1>1. PICK c \in Bucket(KeyOf[s]) \ Bad, E \in SUBSET (Bucket(KeyOf[s]) \cap Bad) :
        /\ Evict(E) /\ pool' = pool \ (E \cup {c}) /\ cid' = [cid EXCEPT ![s] = c]
  BY DEF AcquireHit
<1>2. /\ pc[s] = "preflight" /\ ~shuttingDown
      /\ UNCHANGED <<teardowns, home, dirty, shuttingDown>>
  BY DEF AcquireHit
<1>3. /\ c \in Containers /\ c \in pool /\ home[c] = KeyOf[s] /\ c \notin E /\ c \notin dirty
      /\ E \subseteq pool /\ pool \subseteq DOMAIN home /\ DOMAIN home \subseteq Containers
      /\ c \notin rm /\ \A t \in teardowns : t.container # c
  BY <1>1 DEF Bucket, Inv, PoolTypes, DirtyOK, SoiledStaysOut, Held, RemovedOut, TeardownsApart
<1>4. cid[s] = None
  BY <1>2 DEF Inv, Progress
<1> DEFINE stage == [d \in Containers |-> StageOf(d)]
<1>5. \A d \in pool : StageOf(d) = "idle"
  BY <1>3, StageCases
<1>6. StageOf(c)' = "held"
  BY <1>1, <1>2, <1>3 DEF StageOf, Evict
<1>7. \A d \in E : StageOf(d)' = "gone"
  BY <1>1, <1>2, <1>3 DEF StageOf, Evict
<1>8. \A d \in Containers : d # c /\ d \notin E => StageOf(d)' = StageOf(d)
  BY <1>1, <1>2, SameStage DEF Evict
<1>9. E \in SUBSET (Lease!Idle \ {c})
  BY <1>3, <1>5 DEF Lease!Idle
<1>10. stage' = [d \in Containers |-> IF d = c THEN "held" ELSE IF d \in E THEN "gone" ELSE stage[d]]
  BY <1>3, <1>6, <1>7, <1>8
<1>11. stage[c] = "idle"
  BY <1>3, <1>5
<1>12. Lease!Lend(s, c)
  BY <1>1, <1>2, <1>3, <1>4, <1>9, <1>10, <1>11 DEF Lease!Lend
<1> QED
  BY <1>3, <1>12 DEF Lease!Next

(* docker run starts one. *)
LEMMA LaunchedLease ==
  ASSUME Inv, NEW s \in Sessions, Launched(s)
  PROVE  Lease!Next
<1>1. PICK c \in Containers \ DOMAIN home :
        /\ cid' = [cid EXCEPT ![s] = c]
        /\ home' = [d \in DOMAIN home \cup {c} |-> IF d = c THEN KeyOf[s] ELSE home[d]]
        /\ dirty' = IF s \in Restored THEN dirty \cup {c} ELSE dirty
  BY DEF Launched
<1>2. pc[s] = "run" /\ UNCHANGED <<teardowns, pool, rm, shuttingDown>>
  BY DEF Launched
<1>3. /\ cid[s] = None /\ c \notin rm /\ c \notin pool /\ \A t \in teardowns : t.container # c
  BY <1>2 DEF Inv, Progress, PoolTypes
<1> DEFINE stage == [d \in Containers |-> StageOf(d)]
<1>4. StageOf(c)' = "held" /\ StageOf(c) = "unborn"
  BY <1>1, <1>2, <1>3 DEF StageOf
<1>5. DOMAIN home' = DOMAIN home \cup {c}
  BY <1>1
<1>6. \A d \in Containers : d # c => StageOf(d)' = StageOf(d)
  BY <1>2, <1>5, SameStage
<1>7. stage' = [stage EXCEPT ![c] = "held"] /\ stage[c] = "unborn"
  BY <1>4, <1>6
<1>8. dirty' \in {dirty, dirty \cup {c}}
  BY <1>1
<1>9. Lease!Start(s, c)
  BY <1>1, <1>2, <1>3, <1>7, <1>8 DEF Lease!Start
<1> QED
  BY <1>9 DEF Lease!Next

(* A pooled container is found dead.  If the session is gone by then, its  *)
(* teardown has the container, or docker rm had it already.                *)
LEMMA VerifyFailsLease ==
  ASSUME Inv, NEW s \in Sessions, VerifyFails(s)
  PROVE  Lease!Next
<1> DEFINE stage == [d \in Containers |-> StageOf(d)]
<1>0. PICK c : c = claimed[s]
  OBVIOUS
<1>1. /\ pc[s] = "verify" /\ rm' = rm \cup {c} /\ cid' = [cid EXCEPT ![s] = None]
      /\ UNCHANGED <<teardowns, pool, home, dirty, shuttingDown>>
  BY <1>0 DEF VerifyFails, Evict
<1>2. /\ c # None /\ c \in DOMAIN home /\ c \in Containers
      /\ cid[s] = c \/ (cid[s] = None /\ Going(c))
  BY <1>0, <1>1 DEF Inv, Progress, SessionTypes, PoolTypes
<1>3. CASE cid[s] = c
  <2>1. StageOf(c)' = "gone"
    <3>1. c \in DOMAIN home' /\ c \in rm' /\ c \notin pool'
      BY <1>1, <1>2, <1>3 DEF Inv, Held, PoolApart
    <3> QED
      BY <3>1 DEF StageOf
  <2>2. \A d \in Containers : d # c => StageOf(d)' = StageOf(d)
    BY <1>1, SameStage
  <2>3. stage' = [d \in Containers |-> IF d \in {cid[s]} THEN "gone" ELSE stage[d]]
    BY <1>3, <2>1, <2>2
  <2>4. cid' = [u \in Sessions |-> IF u \in {s} THEN None ELSE cid[u]]
    BY <1>1 DEF Inv, SessionTypes
  <2>5. Lease!TakeBack(s)
    BY <1>1, <1>2, <1>3, <2>3, <2>4 DEF Lease!TakeBack, Lease!Move, Lease!TakenFrom
  <2> QED
    BY <2>5 DEF Lease!Next
<1>4. CASE cid[s] = None /\ Going(c)
  <2>1. cid' = cid
    BY <1>1, <1>4 DEF Inv, SessionTypes
  <2>2. c \in rm \/ \E t \in teardowns : t.container = c
    <3>1. [container |-> c, pooling |-> FALSE].container = c
      OBVIOUS
    <3> QED
      BY <1>4, <3>1 DEF Going
  <2>3. c \notin pool
    BY <2>2 DEF Inv, Held, RemovedOut, TeardownsApart
  <2>4. pool' = pool \ {c} /\ \A d \in {c} : d \in pool \/ d \in rm \/ \E t \in teardowns : t.container = d
    BY <1>1, <2>2, <2>3
  <2> QED
    BY <1>1, <2>1, <2>4, DiscardLease
<1> QED
  BY <1>2, <1>3, <1>4

(* The set-up of a session's container could not be marked. *)
LEMMA UnmarkedLease ==
  ASSUME Inv, NEW s \in Sessions, PostCreateUnmarked(s)
  PROVE  [Lease!Next]_(Lease!vars)
<1>1. dirty' = (dirty \cup {cid[s]}) \ {None} /\ UNCHANGED <<cid, home, rm, pool, teardowns, shuttingDown>>
  BY DEF PostCreateUnmarked
<1>2. \A c \in Containers : StageOf(c)' = StageOf(c)
  BY <1>1, SameStage
<1>3. [c \in Containers |-> StageOf(c)]' = [c \in Containers |-> StageOf(c)]
  BY <1>2
<1>4. None \notin dirty
  BY DEF Inv, PoolTypes
<1>5. CASE cid[s] = None
  <2>1. dirty' = dirty
    BY <1>1, <1>4, <1>5
  <2> QED
    BY <1>1, <2>1, SameLease
<1>6. CASE cid[s] # None
  <2>1. dirty' = dirty \cup {cid[s]}
    BY <1>1, <1>4, <1>6
  <2>2. Lease!Spoil(s)
    BY <1>1, <1>3, <1>6, <2>1 DEF Lease!Spoil
  <2> QED
    BY <2>2 DEF Lease!Next
<1> QED
  BY <1>5, <1>6

(* Capturing takes the containers of its sessions back, and the pool stays *)
(* or goes to docker rm.                                                   *)
LEMMA CaptureStages ==
  ASSUME Inv, NEW S \in SUBSET Sessions, Capture(S), UNCHANGED home,
         UNCHANGED <<pool, rm>> \/ (pool' = {} /\ rm' = rm \cup pool)
  PROVE  \A c \in Containers :
           StageOf(c)' = IF c \in Lease!HeldBy(S) THEN "leaving"
                         ELSE IF c \in pool /\ c \notin pool' THEN "gone" ELSE StageOf(c)
<1> DEFINE Down(s) == [container |-> cid[s], pooling |-> ready[s]]
<1>1. /\ \A t \in teardowns : t \in teardowns'
      /\ \A s \in S : cid[s] # None => Down(s) \in teardowns'
      /\ \A t \in teardowns' : t \in teardowns \/ \E s \in S : cid[s] # None /\ t = Down(s)
  BY DEF Capture
<1>2. \A s : Down(s).container = cid[s]
  OBVIOUS
<1> HIDE DEF Down
<1>3. \A c : c \in Lease!HeldBy(S) <=> c # None /\ \E s \in S : cid[s] = c
  BY DEF Lease!HeldBy
<1>4. /\ pool \subseteq DOMAIN home /\ None \notin Containers
      /\ \A s \in Sessions : cid[s] \in DOMAIN home \cup {None}
      /\ \A s \in Sessions : cid[s] \notin pool /\ cid[s] \notin rm
  BY DEF Inv, PoolTypes, SessionTypes, Held, PoolApart, RemovedOut
<1> SUFFICES ASSUME NEW c \in Containers
             PROVE  StageOf(c)' = IF c \in Lease!HeldBy(S) THEN "leaving"
                                  ELSE IF c \in pool /\ c \notin pool' THEN "gone" ELSE StageOf(c)
  OBVIOUS
<1>5. (\E t \in teardowns' : t.container = c) <=>
        (\E t \in teardowns : t.container = c) \/ c \in Lease!HeldBy(S)
  BY <1>1, <1>2, <1>3, <1>4
<1>6. CASE c \in Lease!HeldBy(S)
  <2>1. c \in DOMAIN home' /\ c \notin rm' /\ c \notin pool' /\ \E t \in teardowns' : t.container = c
    BY <1>3, <1>4, <1>5, <1>6
  <2> QED
    BY <1>6, <2>1 DEF StageOf
<1>7. CASE c \notin Lease!HeldBy(S) /\ c \in pool /\ c \notin pool'
  <2>1. c \in DOMAIN home' /\ c \in rm'
    BY <1>4, <1>7
  <2> QED
    BY <1>7, <2>1 DEF StageOf
<1>8. CASE c \notin Lease!HeldBy(S) /\ ~(c \in pool /\ c \notin pool')
  BY <1>5, <1>8, SameStage
<1> QED
  BY <1>6, <1>7, <1>8

(* A session that is destroyed, or fails to start, gives back what it has. *)
LEMMA DestroyLease ==
  ASSUME Inv, NEW s \in Sessions, StartFails(s) \/ Destroy(s)
  PROVE  [Lease!Next]_(Lease!vars)
<1> DEFINE stage == [c \in Containers |-> StageOf(c)]
<1>1. Capture({s}) /\ UNCHANGED <<pool, home, rm, dirty, shuttingDown>>
  BY DEF StartFails, Destroy, docker
<1>2. \A c \in Containers : StageOf(c)' = IF c \in Lease!HeldBy({s}) THEN "leaving" ELSE StageOf(c)
  BY <1>1, CaptureStages
<1>3. Lease!HeldBy({s}) = {cid[s]} \ {None}
  BY DEF Lease!HeldBy
<1>4. cid' = [u \in Sessions |-> IF u \in {s} THEN None ELSE cid[u]]
  BY <1>1 DEF Capture
<1>5. CASE cid[s] # None
  <2>1. stage' = [c \in Containers |-> IF c \in {cid[s]} THEN "leaving" ELSE stage[c]]
    BY <1>2, <1>3, <1>5
  <2>2. Lease!TakeBack(s)
    BY <1>1, <1>4, <1>5, <2>1 DEF Lease!TakeBack, Lease!Move, Lease!TakenFrom
  <2> QED
    BY <2>2 DEF Lease!Next
<1>6. CASE cid[s] = None
  <2>1. cid' = cid
    BY <1>4, <1>6 DEF Inv, SessionTypes
  <2>2. stage' = stage
    BY <1>2, <1>3, <1>6
  <2> QED
    BY <1>1, <2>1, <2>2 DEF Lease!vars
<1> QED
  BY <1>5, <1>6

(* The shutdown closes the lease. *)
LEMMA ShutdownLease ==
  ASSUME Inv, Shutdown
  PROVE  Lease!Next
<1> DEFINE stage == [c \in Containers |-> StageOf(c)]
<1>1. /\ Capture(live) /\ ~shuttingDown /\ shuttingDown' = TRUE
      /\ rm' = rm \cup pool /\ pool' = {} /\ UNCHANGED <<home, dirty>>
  BY DEF Shutdown
<1>2. live \in SUBSET Sessions
  BY DEF Inv, SessionTypes
<1>3. \A c \in Containers : c \in pool <=> StageOf(c) = "idle"
  BY StageCases DEF StageOf
<1>4. stage' = [c \in Containers |-> IF c \in Lease!HeldBy(live) THEN "leaving"
                                     ELSE IF c \in Lease!Idle THEN "gone" ELSE stage[c]]
  BY <1>1, <1>2, <1>3, CaptureStages DEF Lease!Idle
<1>5. cid' = [u \in Sessions |-> IF u \in live THEN None ELSE cid[u]]
  BY <1>1 DEF Capture
<1>6. Lease!Close
  BY <1>1, <1>2, <1>4, <1>5 DEF Lease!Close, Lease!TakenFrom
<1> QED
  BY <1>6 DEF Lease!Next

(* A teardown ends in docker rm or in the pool. *)
LEMMA TeardownLease ==
  ASSUME Inv, Remove \/ Release
  PROVE  Lease!Next
<1> DEFINE stage == [d \in Containers |-> StageOf(d)]
<1>1. PICK t \in teardowns :
        /\ teardowns' = teardowns \ {t} /\ UNCHANGED <<cid, home, dirty, shuttingDown>>
        /\ \/ rm' = rm \cup {t.container} /\ pool' = pool
           \/ /\ t.pooling /\ ~shuttingDown /\ t.container \notin Bad
              /\ pool' = pool \cup {t.container} /\ rm' = rm
  BY DEF Remove, Release, Evict, session
<1> DEFINE c == t.container
<1>2. /\ c \in Containers /\ c \in DOMAIN home /\ c \notin pool
      /\ \A u \in teardowns : u.container = c => u = t
  BY DEF Inv, PoolTypes, Held, TeardownsApart
<1>3. \A d \in Containers \ {c} :
        (\E u \in teardowns' : u.container = d) <=> (\E u \in teardowns : u.container = d)
  BY <1>1
<1>4. CASE rm' = rm \cup {c} /\ pool' = pool
  <2>1. pool' = pool \ {c} /\ \A d \in {c} : d \in pool \/ d \in rm \/ \E u \in teardowns : u.container = d
    BY <1>2, <1>4
  <2> QED
    BY <1>1, <1>3, <1>4, <2>1, DiscardLease
<1>5. CASE t.pooling /\ ~shuttingDown /\ c \notin Bad /\ pool' = pool \cup {c} /\ rm' = rm
  <2>1. c \notin rm /\ c \notin dirty
    BY <1>5 DEF Inv, Held, RemovedOut, DirtyOK, Told, Bad
  <2>2. StageOf(c) = "leaving"
    BY <1>2, <2>1, StageCases
  <2>3. StageOf(c)' = "idle"
    BY <1>1, <1>2, <1>5, <2>1 DEF StageOf
  <2>4. \A d \in Containers : d # c => StageOf(d)' = StageOf(d)
    BY <1>1, <1>3, <1>5, SameStage
  <2> HIDE DEF c
  <2>5. stage' = [d \in Containers |-> IF d \in {c} THEN "idle" ELSE stage[d]]
    BY <2>3, <2>4
  <2>6. stage[c] = "leaving"
    BY <1>2, <2>2
  <2>7. Lease!Keep(c)
    BY <1>1, <1>5, <2>1, <2>5, <2>6 DEF Lease!Keep, Lease!Move
  <2> QED
    BY <1>2, <2>7 DEF Lease!Next
<1> QED
  BY <1>1, <1>4, <1>5

(* What goes on inside the pool only discards idle containers. *)
LEMMA IdleLease ==
  ASSUME Inv, NEW S \in SUBSET pool, pool' = pool \ S, rm' = rm \cup S,
         UNCHANGED <<cid, teardowns, home, dirty, shuttingDown>>
  PROVE  Lease!Next
BY DiscardLease

(* Every step is one of the lease, or none. *)
LEMMA LeaseStep == Inv /\ [Next]_vars => [Lease!Next]_(Lease!vars)
<1> SUFFICES ASSUME Inv, [Next]_vars PROVE [Lease!Next]_(Lease!vars)
  OBVIOUS
<1>1. ASSUME NEW s \in Sessions, Create(s) \/ Verified(s) \/ SetUp(s) \/ PostCreated(s) \/ Ready(s)
      PROVE  UNCHANGED <<cid, home, rm, pool, teardowns, dirty, shuttingDown>>
  BY <1>1 DEF Create, Verified, SetUp, PostCreated, Ready, docker
<1>2. ASSUME NEW s \in Sessions, AcquireMiss(s)
      PROVE  Lease!Next
  <2>1. PICK S \in SUBSET pool : rm' = rm \cup S /\ pool' = pool \ S
    BY <1>2 DEF AcquireMiss, Bucket, Evict
  <2>2. UNCHANGED <<cid, teardowns, home, dirty, shuttingDown>>
    BY <1>2 DEF AcquireMiss
  <2> QED
    BY <2>1, <2>2, IdleLease
<1>3. CASE (\E c \in Containers : IdleOut(c) \/ GrowOld(c)) \/ DrainAll \/ DrainNext \/ Recycle
  <2>1. /\ \E S \in SUBSET pool : pool' = pool \ S /\ rm' = rm \cup S
        /\ UNCHANGED <<cid, teardowns, home, dirty, shuttingDown>>
    BY <1>3, OutOfPool, OutOfPoolFrame DEF session
  <2> QED
    BY <2>1, IdleLease
<1>4. ASSUME NEW perKey, NEW total, Resize(perKey, total)
      PROVE  Lease!Next
  <2>1. PICK kept \in SUBSET pool : Evict(pool \ kept) /\ pool' = kept
    BY <1>4 DEF Resize
  <2>2. UNCHANGED <<cid, teardowns, home, dirty, shuttingDown>>
    BY <1>4 DEF Resize, session
  <2>3. pool \ kept \in SUBSET pool /\ pool' = pool \ (pool \ kept) /\ rm' = rm \cup (pool \ kept)
    BY <2>1 DEF Evict
  <2> QED
    BY <2>2, <2>3, IdleLease
<1>5. CASE UNCHANGED vars
  BY <1>5, SameLease DEF vars, session, docker
<1> QED
  BY <1>1, <1>2, <1>3, <1>4, <1>5, SameLease, AcquireHitLease, VerifyFailsLease, LaunchedLease,
     UnmarkedLease, DestroyLease, TeardownLease, ShutdownLease DEF Next

(* Sessions and pool implement the lease: a container has one holder after *)
(* the other, an unfit one no second session, and none comes back from     *)
(* docker rm or from a pool that was shut.                                 *)
THEOREM ImplementsLease == Spec => LeaseSpec
<1>1. Init => Lease!Init
  <2> SUFFICES ASSUME Init PROVE Lease!Init
    OBVIOUS
  <2>1. DOMAIN home = {} /\ rm = {} /\ pool = {} /\ teardowns = {}
    BY DEF Init
  <2>2. \A c \in Containers : StageOf(c) = "unborn"
    BY <2>1 DEF StageOf
  <2> QED
    BY <2>2 DEF Init, Lease!Init
<1> QED
  BY <1>1, InitInv, NextInv, LeaseStep, PTL DEF Spec, LeaseSpec, Lease!Spec
=============================================================================
