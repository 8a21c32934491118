--------------------------- MODULE SessionTokens ---------------------------
(***************************************************************************)
(* The session tokens of paired devices: the token half of PairingManager  *)
(* (packages/server/src/pairing.js), the file it keeps them in             *)
(* (session-token-store.js, platform.js writeFileRestricted) and the       *)
(* `chroxy tokens revoke` command (cli/tokens-cmd.js) that edits the file. *)
(*                                                                         *)
(* A daemon may crash or be stopped at any moment and the machine may lose *)
(* power, which takes back what the file system had not yet flushed.  Any  *)
(* write may fail, and a start may find the file unreadable (keychain      *)
(* locked, wrong mode).  Where a token came from (a scanned code or an     *)
(* approved request) makes no difference here: both end in                 *)
(* _storeSessionToken.                                                     *)
(*                                                                         *)
(* Tokens are numbered in the order they are minted.  The Map keeps that   *)
(* order through eviction, sliding, saving and loading, so it needs no     *)
(* representation of its own.                                              *)
(***************************************************************************)
EXTENDS Integers, FiniteSets, FiniteSetsExt, Functions

CONSTANTS
  MaxSessionTokens,   \* MAX_SESSION_TOKENS
  Ttl,                \* sessionTokenTtlMs
  SlideThrottle,      \* SLIDE_PERSIST_THROTTLE_MS
  WritesFail,         \* a save may fail
  DirSyncFails,       \* the directory's fsync may fail after the rename
  MaxMints,           \* bound: tokens minted
  MaxTime             \* bound: the clock

ASSUME SessionTokensAssumption ==
  /\ MaxSessionTokens \in Nat \ {0}
  /\ Ttl \in Nat /\ SlideThrottle \in Nat
  /\ WritesFail \in BOOLEAN /\ DirSyncFails \in BOOLEAN
  /\ MaxMints \in Nat /\ MaxTime \in Nat

VARIABLES
  now,         \* Date.now()
  up,          \* the daemon runs
  tokens,      \* _sessionTokens: token -> createdAt
  lastSlide,   \* _lastSlidePersistMs
  sweeping,    \* _sessionTokenSweepTimer is armed
  file,        \* the store as a reader sees it
  flushed,     \* the store as a power loss would leave it
  minted,      \* history: tokens issued so far
  revoked,     \* history: tokens reported as revoked
  lapsed       \* history: tokens the daemon has dropped as expired

memory == <<up, tokens, lastSlide, sweeping>>
disk == <<file, flushed>>
history == <<minted, revoked, lapsed>>
vars == <<now, memory, disk, history>>

Empty == [t \in {} |-> 0]
Without(m, S) == Restrict(m, DOMAIN m \ S)
ExpiredIn(m) == {t \in DOMAIN m : now - m[t] > Ttl}
Never == -SlideThrottle
----------------------------------------------------------------------------
Init ==
  /\ now = 0 /\ up = TRUE
  /\ tokens = Empty /\ lastSlide = Never /\ sweeping = FALSE
  /\ file = Empty /\ flushed = Empty
  /\ minted = 0 /\ revoked = {} /\ lapsed = {}

(* _persistSessionTokens: the store logs and swallows a failure.  The      *)
(* rename is atomic but not flushed.                                       *)
Persist(m) ==
  /\ \/ file' = m
     \/ WritesFail /\ UNCHANGED file
  /\ UNCHANGED flushed

(* Mutant: a revocation is saved like anything else.                       *)
PersistSoon(m) == file' = m /\ UNCHANGED flushed

(* A durable save that reports success.  The file was flushed before the   *)
(* rename; if the directory could not be, the rename stands and            *)
(* confirmRenameDurable reports a caveat that the store drops.             *)
PersistDurably(m) ==
  /\ file' = m
  /\ \/ flushed' = m
     \/ DirSyncFails /\ UNCHANGED flushed

(* Mutant: the oldest token goes although an expired one could.            *)
NothingExpired == {}
ExpiredAtCap ==
  IF Cardinality(DOMAIN tokens) >= MaxSessionTokens THEN ExpiredIn(tokens) ELSE {}

(* Mutant: the cap is noticed one token too late.                          *)
MakeRoomLate(m) ==
  IF Cardinality(DOMAIN m) > MaxSessionTokens THEN Without(m, {Min(DOMAIN m)}) ELSE m
MakeRoom(m) ==
  IF Cardinality(DOMAIN m) >= MaxSessionTokens THEN Without(m, {Min(DOMAIN m)}) ELSE m

(* _storeSessionToken: at the cap, sweep, and only then evict the oldest.  *)
(* The sweep saves on its own when it removed something; if the save that  *)
(* follows fails, its result is what stays.                                *)
Mint ==
  /\ up /\ minted < MaxMints
  /\ LET expired == ExpiredAtCap
         swept == Without(tokens, expired)
         kept == MakeRoom(swept)
         token == minted + 1
     IN  /\ tokens' = [t \in DOMAIN kept \cup {token} |->
                         IF t = token THEN now ELSE kept[t]]
         /\ lapsed' = lapsed \cup expired
         /\ minted' = token
         /\ \/ Persist(tokens')
            \/ WritesFail /\ expired # {} /\ file' = swept /\ UNCHANGED flushed
  /\ sweeping' = TRUE
  /\ UNCHANGED <<now, up, lastSlide, revoked>>

(* _lookupToken walks the map in order and drops the expired tokens it     *)
(* meets on the way to a match, from memory only.                          *)
Valid(t) == t \in DOMAIN tokens \ ExpiredIn(tokens)
MetBefore(t) == {u \in ExpiredIn(tokens) : Valid(t) => u < t}

(* getSessionIdForToken, and a lookup that finds nothing.                  *)
LookUp(t) ==
  /\ up
  /\ tokens' = Without(tokens, MetBefore(t))
  /\ lapsed' = lapsed \cup MetBefore(t)
  /\ UNCHANGED <<now, up, lastSlide, sweeping, disk, minted, revoked>>

(* isSessionTokenValid on a live token: the clock slides, and the slide is *)
(* saved unless one was less than SlideThrottle ago.                       *)
Authenticate(t) ==
  /\ up /\ Valid(t)
  /\ tokens' = [Without(tokens, MetBefore(t)) EXCEPT ![t] = now]
  /\ lapsed' = lapsed \cup MetBefore(t)
  /\ IF now - lastSlide < SlideThrottle
     THEN UNCHANGED <<lastSlide, disk>>
     ELSE lastSlide' = now /\ Persist(tokens')
  /\ UNCHANGED <<now, up, sweeping, minted, revoked>>

(* _sweepSessionTokens, from the hourly timer or from the roster           *)
(* (listSessionTokens).                                                    *)
Sweep ==
  /\ up
  /\ LET expired == ExpiredIn(tokens)
     IN  /\ tokens' = Without(tokens, expired)
         /\ lapsed' = lapsed \cup expired
         /\ sweeping' = (sweeping /\ DOMAIN tokens' # {})
         /\ IF expired = {} THEN UNCHANGED disk ELSE Persist(tokens')
  /\ UNCHANGED <<now, up, lastSlide, minted, revoked>>

(* revokeSessionTokenById for one device, revokeAllSessionTokens for all:  *)
(* memory follows only if the save reports success, so one that fails      *)
(* changes nothing.                                                        *)
Revoke(S) ==
  /\ up /\ S # {} /\ S \subseteq DOMAIN tokens
  /\ Cardinality(S) = 1 \/ S = DOMAIN tokens
  /\ PersistDurably(Without(tokens, S))
  /\ tokens' = Without(tokens, S)
  /\ revoked' = revoked \cup S
  /\ UNCHANGED <<now, up, lastSlide, sweeping, minted, lapsed>>

(* runTokensRevoke edits the file behind the daemon's back: it is said to  *)
(* be enforced by the next start, so it counts while no daemon runs.       *)
RevokeInFile(S) ==
  /\ S # {} /\ S \subseteq DOMAIN file
  /\ Cardinality(S) = 1 \/ S = DOMAIN file
  /\ PersistDurably(Without(file, S))
  /\ revoked' = IF up THEN revoked ELSE revoked \cup S
  /\ UNCHANGED <<now, memory, minted, lapsed>>

(* Mutant: a restored token starts a new life.                             *)
StartAfresh ==
  /\ ~up /\ up' = TRUE
  /\ tokens' \in {[t \in DOMAIN file |-> now], Empty}
  /\ sweeping' = (DOMAIN tokens' # {})
  /\ lastSlide' = Never
  /\ UNCHANGED <<now, disk, history>>

(* The constructor restores what the file holds, expired or not, and       *)
(* nothing when it cannot read it.                                         *)
Start ==
  /\ ~up /\ up' = TRUE
  /\ tokens' \in {file, Empty}
  /\ sweeping' = (DOMAIN tokens' # {})
  /\ lastSlide' = Never
  /\ UNCHANGED <<now, disk, history>>

(* A crash or destroy(): memory is gone, and destroy saves nothing.        *)
Down ==
  /\ up' = FALSE /\ tokens' = Empty /\ sweeping' = FALSE /\ lastSlide' = Never

Stop == up /\ Down /\ UNCHANGED <<now, disk, history>>

PowerLoss == Down /\ file' = flushed /\ UNCHANGED <<now, flushed, history>>

(* The operating system flushes in its own time.                           *)
Writeback ==
  /\ flushed # file /\ flushed' = file
  /\ UNCHANGED <<now, memory, file, history>>

Tick == now < MaxTime /\ now' = now + 1 /\ UNCHANGED <<memory, disk, history>>

Next ==
  \/ Mint
  \/ \E t \in 1..MaxMints : LookUp(t) \/ Authenticate(t)
  \/ Sweep
  \/ \E S \in SUBSET (1..MaxMints) : Revoke(S) \/ RevokeInFile(S)
  \/ Start \/ Stop \/ PowerLoss \/ Writeback \/ Tick

Spec == Init /\ [][Next]_vars
----------------------------------------------------------------------------
Times == 0..MaxTime
Stores == UNION {[S -> Times] : S \in SUBSET (1..minted)}

(* The cap holds, and whatever is held or stored was minted.               *)
TypeOK ==
  /\ now \in Times /\ up \in BOOLEAN /\ sweeping \in BOOLEAN
  /\ minted \in 0..MaxMints
  /\ tokens \in Stores /\ file \in Stores /\ flushed \in Stores
  /\ lastSlide \in {Never} \cup Times
  /\ revoked \subseteq 1..minted /\ lapsed \subseteq 1..minted
  /\ Cardinality(DOMAIN tokens) <= MaxSessionTokens

(* A device whose revocation was reported never authenticates again:       *)
(* neither a crash, nor a power loss, nor a write that is lost or late     *)
(* brings its token back.                                                  *)
RevokedStaysOut == revoked \cap DOMAIN tokens = {}

(* A token the daemon has once refused as expired is never valid again:    *)
(* the copy of it that a restart restores is no younger.                   *)
LapsedStaysOut == \A t \in lapsed : ~Valid(t)

(* While the daemon holds tokens the hourly sweep is armed, whatever       *)
(* emptied and refilled the map, so an expired one cannot stay for good.   *)
SweepIsArmed == up /\ DOMAIN tokens # {} => sweeping

(* A device that is still valid loses its place only to a full house of    *)
(* valid ones, or to a revocation or the end of the process.               *)
EvictedOnlyFromFullHouse ==
  [][\A t \in DOMAIN tokens : Valid(t) /\ up' /\ revoked' = revoked /\ t \notin DOMAIN tokens' =>
       Cardinality(DOMAIN tokens \ ExpiredIn(tokens)) = MaxSessionTokens]_vars
============================================================================
