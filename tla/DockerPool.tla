----------------------------- MODULE DockerPool -----------------------------
(***************************************************************************)
(* Containers of Docker sessions: DockerContainerPool                      *)
(* (packages/server/src/docker-byok-pool.js) and the part of               *)
(* DockerByokSession (docker-byok-session.js) that acquires a container,   *)
(* sets it up and gives it back, under the session manager's destroy       *)
(* (session-manager.js) and the daemon's shutdown (server-orchestrator.js).*)
(*                                                                         *)
(* start() and destroy() of one session are separate call chains: every    *)
(* await inside start() (docker info, exec, run; the MCP fleet) is a place *)
(* where the manager may destroy the session, and start() goes on.  The    *)
(* teardown of the agent loop is awaited between capturing the container   *)
(* and giving it back.                                                     *)
(*                                                                         *)
(* A bucket is a set: which idle container is handed out or trimmed first  *)
(* is left open.  Lifetime is a flag a stamped container may get at any    *)
(* moment.  Sessions own their container (no external one, no compose      *)
(* stack, which bypasses the pool).                                        *)
(***************************************************************************)
EXTENDS Integers, FiniteSets, Functions

CONSTANTS
  Sessions,          \* sessions that may be created, each once
  Keys,              \* pool keys (image, cwd, limits, user, fingerprint)
  KeyOf,             \* the key of each session
  Restored,          \* sessions started from a snapshot image
  Containers,        \* bound: container ids docker may give out
  ConfiguredPerKey,  \* maxPerKey as configured
  ConfiguredTotal,   \* maxTotal as configured
  None

ASSUME DockerPoolAssumption ==
  /\ KeyOf \in [Sessions -> Keys] /\ Restored \subseteq Sessions
  /\ ConfiguredPerKey \in Nat \ {0} /\ ConfiguredTotal \in Nat \ {0}
  /\ IsFiniteSet(Containers) /\ None \notin Containers

VARIABLES
  pc,            \* where start() of each session stands
  cid,           \* _containerId of each session
  ready,         \* _containerReady of each session
  claimed,       \* start()'s local copy of a pooled id it verifies
  live,          \* the session manager's map
  teardowns,     \* containers whose destroy() awaits the agent loop's end
  pool,          \* _entries, all buckets
  soiled,        \* _soiledIds
  stamped,       \* _createdAt
  old,           \* stamped containers past maxAgeMs
  caps,          \* _maxPerKey and _maxTotal
  shuttingDown,  \* _shuttingDown
  draining,      \* buckets a drainAll() has still to visit
  home,          \* history: key under which each container was started
  rm,            \* history: containers given to docker rm -f
  dirty          \* history: containers unfit for another session

session == <<pc, cid, ready, claimed>>
marks == <<soiled, stamped, old>>
docker == <<home, rm, dirty>>
vars == <<session, live, teardowns, pool, marks, caps, shuttingDown, draining, docker>>

Bucket(k) == {c \in pool : home[c] = k}

(* Mutant: the pool looks at the age alone.                                *)
BadByAge == old
Bad == soiled \cup old

(* Mutant: resize() takes what it is asked for.                            *)
Asked(m, n) == m
Least(m, n) == IF m < n THEN m ELSE n
Goto(s, label) == pc' = [pc EXCEPT ![s] = label]
----------------------------------------------------------------------------
Init ==
  /\ pc = [s \in Sessions |-> "new"]
  /\ cid = [s \in Sessions |-> None] /\ ready = [s \in Sessions |-> FALSE]
  /\ claimed = [s \in Sessions |-> None]
  /\ live = {} /\ teardowns = {}
  /\ pool = {} /\ soiled = {} /\ stamped = {} /\ old = {}
  /\ caps = [perKey |-> ConfiguredPerKey, total |-> ConfiguredTotal]
  /\ shuttingDown = FALSE /\ draining = {}
  /\ home = [c \in {} |-> None] /\ rm = {} /\ dirty = {}

(* The bookkeeping of an eviction inside the pool.                         *)
Evict(S) ==
  /\ rm' = rm \cup S
  /\ soiled' = soiled \ S /\ stamped' = stamped \ S /\ old' = old \ S

(* Mutant: destroy() leaves the id where start() and a second destroy()    *)
(* find it.                                                                *)
CaptureKeepingId(S) ==
  /\ teardowns' = teardowns \cup
       {[container |-> cid[s], pooling |-> ready[s]] : s \in {u \in S : cid[u] # None}}
  /\ ready' = [s \in Sessions |-> s \notin S /\ ready[s]]
  /\ UNCHANGED cid

(* destroy() up to its await: the container is captured, the session's     *)
(* fields are cleared.                                                     *)
Capture(S) ==
  /\ teardowns' = teardowns \cup
       {[container |-> cid[s], pooling |-> ready[s]] : s \in {u \in S : cid[u] # None}}
  /\ cid' = [s \in Sessions |-> IF s \in S THEN None ELSE cid[s]]
  /\ ready' = [s \in Sessions |-> s \notin S /\ ready[s]]

(* createSession puts the session in the map and calls start().            *)
Create(s) ==
  /\ pc[s] = "new" /\ Goto(s, "preflight") /\ live' = live \cup {s}
  /\ UNCHANGED <<cid, ready, claimed, teardowns, pool, marks, caps, shuttingDown, draining, docker>>

(* A step of start() fails, or super.start() does not make the session     *)
(* ready: start() destroys its own session, which stays in the map.        *)
StartFails(s) ==
  /\ pc[s] \in {"preflight", "run", "setup", "postCreate", "super"}
  /\ Goto(s, "done") /\ Capture({s})
  /\ UNCHANGED <<claimed, live, pool, marks, caps, shuttingDown, draining, docker>>

(* docker info answered: _acquireOrStartContainer looks into the pool,     *)
(* unless it restores a snapshot.  acquire() evicts what it finds soiled   *)
(* or over age on its way.                                                 *)
AcquireMiss(s) ==
  /\ pc[s] = "preflight" /\ Goto(s, "run")
  /\ LET bypass == s \in Restored \/ shuttingDown
         bucket == IF bypass THEN {} ELSE Bucket(KeyOf[s])
     IN  /\ bucket \subseteq Bad
         /\ Evict(bucket) /\ pool' = pool \ bucket
  /\ UNCHANGED <<cid, ready, claimed, live, teardowns, caps, shuttingDown, draining, home, dirty>>

AcquireHit(s) ==
  /\ pc[s] = "preflight" /\ Goto(s, "verify")
  /\ s \notin Restored /\ ~shuttingDown
  /\ \E c \in Bucket(KeyOf[s]) \ Bad, E \in SUBSET (Bucket(KeyOf[s]) \cap Bad) :
       /\ Evict(E) /\ pool' = pool \ (E \cup {c})
       /\ cid' = [cid EXCEPT ![s] = c] /\ claimed' = [claimed EXCEPT ![s] = c]
  /\ UNCHANGED <<ready, live, teardowns, caps, shuttingDown, draining, home, dirty>>

Verified(s) ==
  /\ pc[s] = "verify" /\ Goto(s, "postCreate") /\ claimed' = [claimed EXCEPT ![s] = None]
  /\ UNCHANGED <<cid, ready, live, teardowns, pool, marks, caps, shuttingDown, draining, docker>>

(* The pooled container died while idle: forget() it, start a fresh one.   *)
VerifyFails(s) ==
  /\ pc[s] = "verify" /\ Goto(s, "run")
  /\ Evict({claimed[s]})
  /\ cid' = [cid EXCEPT ![s] = None] /\ claimed' = [claimed EXCEPT ![s] = None]
  /\ UNCHANGED <<ready, live, teardowns, pool, caps, shuttingDown, draining, home, dirty>>

(* docker run answered.  A snapshot brings its user with it and its        *)
(* history.                                                                *)
Launched(s) ==
  /\ pc[s] = "run"
  /\ Goto(s, IF s \in Restored THEN "postCreate" ELSE "setup")
  /\ \E c \in Containers \ DOMAIN home :
       /\ cid' = [cid EXCEPT ![s] = c]
       /\ home' = [d \in DOMAIN home \cup {c} |-> IF d = c THEN KeyOf[s] ELSE home[d]]
       /\ dirty' = IF s \in Restored THEN dirty \cup {c} ELSE dirty
  /\ UNCHANGED <<ready, claimed, live, teardowns, pool, marks, caps, shuttingDown, draining, rm>>

SetUp(s) ==
  /\ pc[s] = "setup" /\ Goto(s, "postCreate")
  /\ UNCHANGED <<cid, ready, claimed, live, teardowns, pool, marks, caps, shuttingDown, draining, docker>>

(* markActiveContainerSoiled: a session without a container soils nothing. *)
Soil(s) == soiled' = (soiled \cup {cid[s]}) \ {None}

(* The post-create command is not configured, or done.                     *)
PostCreated(s) ==
  /\ pc[s] = "postCreate" /\ Goto(s, "super")
  /\ UNCHANGED <<cid, ready, claimed, live, teardowns, pool, marks, caps, shuttingDown, draining, docker>>

(* The command succeeded but its marker could not be written.              *)
PostCreateUnmarked(s) ==
  /\ pc[s] = "postCreate" /\ Goto(s, "super")
  /\ Soil(s) /\ dirty' = (dirty \cup {cid[s]}) \ {None}
  /\ UNCHANGED <<cid, ready, claimed, live, teardowns, pool, stamped, old, caps, shuttingDown,
                 draining, home, rm>>

(* super.start() made the session ready.                                   *)
Ready(s) ==
  /\ pc[s] = "super" /\ Goto(s, "done")
  /\ ready' = [ready EXCEPT ![s] = TRUE]
  /\ IF s \in Restored THEN Soil(s) ELSE UNCHANGED soiled
  /\ UNCHANGED <<cid, claimed, live, teardowns, pool, stamped, old, caps, shuttingDown, draining,
                 docker>>

(* destroySession: the session leaves the map, whatever start() is doing.  *)
Destroy(s) ==
  /\ s \in live /\ live' = live \ {s} /\ Capture({s})
  /\ UNCHANGED <<pc, claimed, pool, marks, caps, shuttingDown, draining, docker>>

(* The rest of destroy(): a container that was ready is released, any      *)
(* other is removed.                                                       *)
Remove ==
  \E t \in teardowns :
    /\ ~t.pooling
    /\ teardowns' = teardowns \ {t} /\ rm' = rm \cup {t.container}
    /\ UNCHANGED <<session, live, pool, marks, caps, shuttingDown, draining, home, dirty>>

HasRoom(k) == Cardinality(Bucket(k)) < caps.perKey /\ Cardinality(pool) < caps.total

Release ==
  \E t \in teardowns :
    LET c == t.container IN
    /\ t.pooling
    /\ teardowns' = teardowns \ {t}
    /\ IF shuttingDown \/ c \in Bad \/ ~HasRoom(home[c])
       THEN Evict({c}) /\ UNCHANGED pool
       ELSE /\ pool' = pool \cup {c} /\ stamped' = stamped \cup {c}
            /\ UNCHANGED <<soiled, old, rm>>
    /\ UNCHANGED <<session, live, caps, shuttingDown, draining, home, dirty>>

(* The idle timer of an entry; it does not clear a soil mark.              *)
IdleOut(c) ==
  /\ c \in pool /\ pool' = pool \ {c}
  /\ rm' = rm \cup {c} /\ stamped' = stamped \ {c} /\ old' = old \ {c}
  /\ UNCHANGED <<session, live, teardowns, soiled, caps, shuttingDown, draining, home, dirty>>

GrowOld(c) ==
  /\ c \in stamped \ old /\ old' = old \cup {c}
  /\ UNCHANGED <<session, live, teardowns, pool, soiled, stamped, caps, shuttingDown, draining, docker>>

(* byok_pool_action: one at a time, which matters for the drain, whose     *)
(* loop awaits the removal of each bucket before the next.  The keys are   *)
(* those it saw at the start.                                              *)
DrainBucket(k) ==
  /\ Evict(Bucket(k)) /\ pool' = pool \ Bucket(k)
  /\ UNCHANGED <<session, live, teardowns, caps, shuttingDown, home, dirty>>

DrainAll ==
  /\ ~shuttingDown /\ draining = {}
  /\ \E c \in pool : DrainBucket(home[c]) /\ draining' = {home[d] : d \in pool} \ {home[c]}

DrainNext == \E k \in draining : DrainBucket(k) /\ draining' = draining \ {k}

Recycle ==
  /\ ~shuttingDown /\ draining = {}
  /\ \E c \in pool : DrainBucket(home[c])
  /\ UNCHANGED draining

(* resize: never above what was configured; each bucket is trimmed first,  *)
(* then the total.                                                         *)
Resize(perKey, total) ==
  /\ ~shuttingDown /\ draining = {}
  /\ caps' = [perKey |-> Least(perKey, ConfiguredPerKey), total |-> Least(total, ConfiguredTotal)]
  /\ \E trimmed \in SUBSET pool : \E kept \in SUBSET trimmed :
       /\ \A k \in Keys : Cardinality(Bucket(k) \cap trimmed)
                            = Least(Cardinality(Bucket(k)), caps'.perKey)
       /\ Cardinality(kept) = Least(Cardinality(trimmed), caps'.total)
       /\ Evict(pool \ kept) /\ pool' = kept
  /\ UNCHANGED <<session, live, teardowns, shuttingDown, draining, home, dirty>>

(* The daemon's shutdown: destroyAll() starts every teardown, and before   *)
(* any of them goes on pool.shutdown() empties the pool.                   *)
Shutdown ==
  /\ ~shuttingDown /\ shuttingDown' = TRUE
  /\ Capture(live) /\ live' = {}
  /\ rm' = rm \cup pool /\ pool' = {} /\ soiled' = {} /\ stamped' = {} /\ old' = {}
  /\ UNCHANGED <<pc, claimed, caps, draining, home, dirty>>

Next ==
  \/ \E s \in Sessions :
       \/ Create(s) \/ StartFails(s) \/ AcquireMiss(s) \/ AcquireHit(s)
       \/ Verified(s) \/ VerifyFails(s) \/ Launched(s) \/ SetUp(s)
       \/ PostCreated(s) \/ PostCreateUnmarked(s) \/ Ready(s) \/ Destroy(s)
  \/ Remove \/ Release
  \/ \E c \in Containers : IdleOut(c) \/ GrowOld(c)
  \/ DrainAll \/ DrainNext \/ Recycle
  \/ \E perKey \in 1..(ConfiguredPerKey + 1), total \in 1..(ConfiguredTotal + 1) : Resize(perKey, total)
  \/ Shutdown

Spec == Init /\ [][Next]_vars
----------------------------------------------------------------------------
(* The types of the variables; the caps only ever shrink.                  *)
TypeOK ==
  /\ pc \in [Sessions -> {"new", "preflight", "verify", "run", "setup", "postCreate", "super", "done"}]
  /\ cid \in [Sessions -> DOMAIN home \cup {None}] /\ ready \in [Sessions -> BOOLEAN]
  /\ claimed \in [Sessions -> DOMAIN home \cup {None}]
  /\ live \subseteq Sessions
  /\ teardowns \subseteq [container : DOMAIN home, pooling : BOOLEAN]
  /\ pool \subseteq DOMAIN home
  /\ soiled \subseteq DOMAIN home /\ stamped \subseteq DOMAIN home /\ old \subseteq stamped
  /\ caps \in [perKey : 1..ConfiguredPerKey, total : 1..ConfiguredTotal]
  /\ shuttingDown \in BOOLEAN /\ draining \subseteq Keys
  /\ DOMAIN home \subseteq Containers /\ home \in [DOMAIN home -> Keys]
  /\ rm \subseteq DOMAIN home /\ dirty \subseteq DOMAIN home

(* The caps hold, whatever is resized or released meanwhile.               *)
WithinCaps ==
  /\ Cardinality(pool) <= caps.total
  /\ \A k \in Keys : Cardinality(Bucket(k)) <= caps.perKey

(* A container that runs has exactly one holder, however start, destroy,   *)
(* eviction and shutdown interleave: it idles in the pool, or one session  *)
(* has it, or it is being given back once.  What was given to docker rm    *)
(* is in no pool and no session has it.                                    *)
HeldOnce ==
  /\ DOMAIN home \ rm \subseteq
       pool \cup {t.container : t \in teardowns} \cup {cid[s] : s \in Sessions}
  /\ \A s, u \in Sessions : cid[s] # None /\ cid[s] = cid[u] => s = u
  /\ \A t, u \in teardowns : t.container = u.container => t = u
  /\ \A t \in teardowns : t.container \notin pool /\ \A s \in Sessions : cid[s] # t.container
  /\ \A s \in Sessions : cid[s] \notin pool
  /\ rm \cap (pool \cup {cid[s] : s \in Sessions}) = {}

(* A container that was restored from a snapshot, or whose set-up could    *)
(* not be marked, is never offered to another session: neither the order   *)
(* of soiling and release nor a cleared mark lets it into the pool.        *)
SoiledStaysOut == dirty \cap pool = {}

(* Where a container is.                                                   *)
StageOf(c) == CASE c \notin DOMAIN home -> "unborn"
                [] c \in rm -> "gone"
                [] c \in pool -> "idle"
                [] c \notin rm /\ \E t \in teardowns : t.container = c -> "leaving"
                [] OTHER -> "held"

(* Implementation of ContainerLease: at whatever await a session is        *)
(* destroyed, and whoever evicts, drains or shuts down meanwhile, its      *)
(* container passes from one holder to the next, and an unfit one is       *)
(* never lent again.                                                       *)
Lease == INSTANCE ContainerLease WITH
           has <- cid, stage <- [c \in Containers |-> StageOf(c)],
           unfit <- dirty, closed <- shuttingDown

LeaseSpec == Lease!Spec
============================================================================
