------------------------ MODULE SessionTokensProofs ------------------------
(***************************************************************************)
(* Proofs about SessionTokens for every cap, time to live and throttle.    *)
(*                                                                         *)
(* What is true of the tokens in memory must be true of every copy they    *)
(* can be restored from: the file, and what a power loss leaves of it.     *)
(***************************************************************************)
EXTENDS SessionTokens, FiniteSetTheorems, WellFoundedInduction, TLAPS

(* A copy of the tokens: at most a full house of the n minted ones, each   *)
(* last used by the given time.                                            *)
Store(m, n, time) ==
  /\ n \in Nat /\ time \in Nat
  /\ m \in [DOMAIN m -> 0..time]
  /\ DOMAIN m \subseteq 1..n
  /\ Cardinality(DOMAIN m) <= MaxSessionTokens

Older(m1, m2) == \A t \in DOMAIN m1 \cap DOMAIN m2 : m1[t] <= m2[t]

FlagsOK == up \in BOOLEAN /\ sweeping \in BOOLEAN

BaseOK ==
  /\ now \in Times
  /\ minted \in 0..MaxMints
  /\ lastSlide \in {Never} \cup Times
  /\ revoked \subseteq 1..minted /\ lapsed \subseteq 1..minted

StoresOK ==
  Store(tokens, minted, now) /\ Store(file, minted, now) /\ Store(flushed, minted, now)

(* A copy further from the program never shows a younger token. *)
AgesOK == Older(file, tokens) /\ Older(flushed, tokens) /\ Older(flushed, file)

StaleIn(m) == \A t \in lapsed \cap DOMAIN m : now - m[t] > Ttl
LapsedOK == StaleIn(tokens) /\ StaleIn(file) /\ StaleIn(flushed)

DownOK == ~up => DOMAIN tokens = {}

(* With directories that can be flushed no copy holds a revoked token. *)
RevokedOK ==
  ~DirSyncFails => revoked \cap (DOMAIN tokens \cup DOMAIN file \cup DOMAIN flushed) = {}

Inv == FlagsOK /\ BaseOK /\ StoresOK /\ AgesOK /\ LapsedOK /\ DownOK /\ SweepIsArmed /\ RevokedOK

USE SessionTokensAssumption DEF SessionTokensAssumption
-----------------------------------------------------------------------------
(* The minted tokens are finitely many, so every copy is finite. *)
LEMMA FiniteStore ==
  ASSUME NEW n \in Nat, NEW S \in SUBSET (1..n)
  PROVE  IsFiniteSet(S) /\ Cardinality(S) \in Nat
<1>1. IsFiniteSet(1..n)
  BY FS_Interval
<1>2. IsFiniteSet(S)
  BY <1>1, FS_Subset
<1> QED
  BY <1>2, FS_CardinalityType

(* Some token is the oldest. *)
LEMMA MinIsFirst ==
  ASSUME NEW n \in Nat, NEW S \in SUBSET (1..n), S # {}
  PROVE  Min(S) \in S /\ \A t \in S : Min(S) <= t
<1> DEFINE R == {ss \in Nat \X Nat : ss[1] < ss[2]}
<1>1. IsWellFoundedOn(R, Nat)
  BY NatLessThanWellFounded DEF OpToRel
<1>2. S \subseteq Nat
  OBVIOUS
<1>3. \A x, y \in Nat : y < x => <<y, x>> \in R
  OBVIOUS
<1> HIDE DEF R
<1>4. PICK x \in S : \A y \in S : ~(<<y, x>> \in R)
  BY <1>1, <1>2, WFMin
<1>5. ASSUME NEW y \in S PROVE x =< y
  <2>1. x \in Nat /\ y \in Nat
    BY <1>2
  <2>2. ~(y < x)
    BY <1>3, <1>4, <2>1, Zenon
  <2> QED
    BY <2>1, <2>2
<1> QED
  BY <1>5 DEF Min

(* Dropping tokens leaves a copy with the same times. *)
Shrinks(m, S, n, k) ==
  /\ Store(Without(m, S), n, k)
  /\ DOMAIN Without(m, S) = DOMAIN m \ S
  /\ \A t \in DOMAIN m \ S : Without(m, S)[t] = m[t]

LEMMA WithoutShrinks ==
  ASSUME NEW n, NEW k, NEW m, Store(m, n, k), NEW S
  PROVE  Shrinks(m, S, n, k)
<1>1. IsFiniteSet(DOMAIN m) /\ Cardinality(DOMAIN m) \in Nat
  BY FiniteStore DEF Store
<1>2. Cardinality(DOMAIN m \ S) <= Cardinality(DOMAIN m) /\ Cardinality(DOMAIN m \ S) \in Nat
  BY <1>1, FS_Subset, FS_CardinalityType
<1> QED
  BY <1>1, <1>2 DEF Shrinks, Store, Without, Restrict

(* A copy stays one as time passes and tokens are minted. *)
LEMMA StoreLasts ==
  ASSUME NEW n \in Nat, NEW k \in Nat, NEW m, Store(m, n, k),
         NEW n2 \in Nat, n <= n2, NEW k2 \in Nat, k <= k2
  PROVE  Store(m, n2, k2)
BY DEF Store

(* No copy at all is a copy. *)
LEMMA EmptyStore ==
  ASSUME NEW n \in Nat, NEW k \in Nat
  PROVE  Store(Empty, n, k) /\ DOMAIN Empty = {}
BY FS_EmptySet DEF Store, Empty

(* MakeRoom leaves room for one more, and evicts only from a full house. *)
LEMMA MakeRoomMakesRoom ==
  ASSUME NEW n \in Nat, NEW k \in Nat, NEW m, Store(m, n, k)
  PROVE  /\ Store(MakeRoom(m), n, k)
         /\ DOMAIN MakeRoom(m) \subseteq DOMAIN m
         /\ \A t \in DOMAIN MakeRoom(m) : MakeRoom(m)[t] = m[t]
         /\ Cardinality(DOMAIN MakeRoom(m)) < MaxSessionTokens
         /\ Cardinality(DOMAIN m) # MaxSessionTokens => MakeRoom(m) = m
<1> DEFINE oldest == Min(DOMAIN m)
<1>1. IsFiniteSet(DOMAIN m) /\ Cardinality(DOMAIN m) \in Nat
  BY FiniteStore DEF Store
<1>2. CASE Cardinality(DOMAIN m) < MaxSessionTokens
  BY <1>1, <1>2 DEF MakeRoom, Store
<1>3. CASE Cardinality(DOMAIN m) = MaxSessionTokens
  <2>1. DOMAIN m # {}
    BY <1>3, FS_EmptySet
  <2>2. oldest \in DOMAIN m
    BY <2>1, MinIsFirst DEF Store
  <2>3. Cardinality(DOMAIN m \ {oldest}) = Cardinality(DOMAIN m) - 1
    BY <1>1, <2>2, FS_RemoveElement
  <2>4. MakeRoom(m) = Without(m, {oldest})
    BY <1>3 DEF MakeRoom
  <2>5. \A S : /\ Store(Without(m, S), n, k)
               /\ DOMAIN Without(m, S) = DOMAIN m \ S
               /\ \A t \in DOMAIN m \ S : Without(m, S)[t] = m[t]
    BY WithoutShrinks DEF Shrinks
  <2> HIDE DEF oldest
  <2> QED
    BY <1>3, <2>3, <2>4, <2>5
<1> QED
  BY <1>1, <1>2, <1>3 DEF Store
-----------------------------------------------------------------------------
(* Initially there is nothing to restore. *)
LEMMA InitInv == Init => Inv
<1> SUFFICES ASSUME Init PROVE Inv
  OBVIOUS
<1>1. BaseOK
  BY DEF Init, BaseOK, Times
<1>2. StoresOK
  BY <1>1, EmptyStore DEF Init, StoresOK
<1>a. FlagsOK
  BY DEF Init, FlagsOK
<1>3. DOMAIN tokens = {} /\ DOMAIN file = {} /\ DOMAIN flushed = {}
  BY EmptyStore DEF Init
<1> QED
  BY <1>1, <1>2, <1>3, <1>a
  DEF Inv, AgesOK, Older, LapsedOK, StaleIn, DownOK, SweepIsArmed, RevokedOK

(* What Without does to the tokens in memory. *)
LEMMA TokensWithout ==
  ASSUME Inv
  PROVE  \A S : /\ Store(Without(tokens, S), minted, now)
                /\ DOMAIN Without(tokens, S) = DOMAIN tokens \ S
                /\ \A t \in DOMAIN tokens \ S : Without(tokens, S)[t] = tokens[t]
<1>1. Store(tokens, minted, now)
  BY DEF Inv, StoresOK
<1>2. \A S : Shrinks(tokens, S, minted, now)
  BY <1>1, WithoutShrinks
<1> QED
  BY <1>2 DEF Shrinks

(* What Without does to the file. *)
LEMMA FileWithout ==
  ASSUME Inv
  PROVE  \A S : /\ Store(Without(file, S), minted, now)
                /\ DOMAIN Without(file, S) = DOMAIN file \ S
                /\ \A t \in DOMAIN file \ S : Without(file, S)[t] = file[t]
<1>1. Store(file, minted, now)
  BY DEF Inv, StoresOK
<1>2. \A S : Shrinks(file, S, minted, now)
  BY <1>1, WithoutShrinks
<1> QED
  BY <1>2 DEF Shrinks

(* What the room a new token needs leaves of the old ones. *)
LEMMA RoomToMint ==
  ASSUME Inv
  PROVE  LET swept == Without(tokens, ExpiredAtCap)
             kept == MakeRoom(swept)
         IN  /\ Store(swept, minted, now) /\ Store(kept, minted, now)
             /\ Cardinality(DOMAIN kept) < MaxSessionTokens
             /\ DOMAIN kept \subseteq DOMAIN swept
             /\ DOMAIN swept = DOMAIN tokens \ ExpiredAtCap
             /\ \A t \in DOMAIN swept : swept[t] = tokens[t]
             /\ \A t \in DOMAIN kept : kept[t] = tokens[t]
             /\ Cardinality(DOMAIN swept) # MaxSessionTokens => kept = swept
<1> DEFINE swept == Without(tokens, ExpiredAtCap)
<1>1. minted \in Nat /\ now \in Nat /\ Store(tokens, minted, now)
  BY DEF Inv, BaseOK, StoresOK, Times
<1>2. /\ Store(swept, minted, now)
      /\ DOMAIN swept = DOMAIN tokens \ ExpiredAtCap
      /\ \A t \in DOMAIN tokens \ ExpiredAtCap : swept[t] = tokens[t]
  BY TokensWithout
<1> HIDE DEF swept
<1>3. /\ Store(MakeRoom(swept), minted, now)
      /\ DOMAIN MakeRoom(swept) \subseteq DOMAIN swept
      /\ \A t \in DOMAIN MakeRoom(swept) : MakeRoom(swept)[t] = swept[t]
      /\ Cardinality(DOMAIN MakeRoom(swept)) < MaxSessionTokens
      /\ Cardinality(DOMAIN swept) # MaxSessionTokens => MakeRoom(swept) = swept
  BY <1>1, <1>2, MakeRoomMakesRoom
<1>4. \A t \in DOMAIN MakeRoom(swept) : MakeRoom(swept)[t] = tokens[t]
  BY <1>2, <1>3
<1> QED
  BY <1>2, <1>3, <1>4 DEF swept

(* A new token joins the kept ones; the file follows, or stays at what the *)
(* sweep saved, or as it was.                                              *)
LEMMA MintInv == Inv /\ Mint => Inv'
<1> SUFFICES ASSUME Inv, Mint PROVE Inv'
  OBVIOUS
<1> DEFINE swept == Without(tokens, ExpiredAtCap)
           kept == MakeRoom(swept)
           token == minted + 1
<1>1. /\ Store(swept, minted, now) /\ Store(kept, minted, now)
      /\ Cardinality(DOMAIN kept) < MaxSessionTokens
      /\ DOMAIN kept \subseteq DOMAIN swept
      /\ DOMAIN swept = DOMAIN tokens \ ExpiredAtCap
      /\ \A t \in DOMAIN swept : swept[t] = tokens[t]
      /\ \A t \in DOMAIN kept : kept[t] = tokens[t]
  BY RoomToMint
<1>2. /\ tokens' = [t \in DOMAIN kept \cup {token} |-> IF t = token THEN now ELSE kept[t]]
      /\ lapsed' = lapsed \cup ExpiredAtCap
      /\ minted' = token /\ up
      /\ minted < MaxMints
      /\ flushed' = flushed /\ sweeping' = TRUE
      /\ file' = tokens' \/ file' = file \/ file' = swept
      /\ UNCHANGED <<now, up, lastSlide, revoked>>
  BY DEF Mint, Persist
<1> HIDE DEF swept, kept
<1>3. minted \in Nat /\ now \in Nat /\ token \in Nat /\ ExpiredAtCap \subseteq ExpiredIn(tokens)
  BY DEF Inv, BaseOK, Times, ExpiredAtCap
<1>4. /\ DOMAIN tokens' = DOMAIN kept \cup {token}
      /\ tokens'[token] = now
      /\ token \notin DOMAIN kept
      /\ \A t \in DOMAIN kept : tokens'[t] = tokens[t]
  BY <1>1, <1>2, <1>3 DEF Store
<1>5. Store(tokens', token, now)
  <2>1. IsFiniteSet(DOMAIN kept) /\ Cardinality(DOMAIN kept) \in Nat
    BY <1>1, <1>3, FiniteStore DEF Store
  <2>2. Cardinality(DOMAIN kept \cup {token}) = Cardinality(DOMAIN kept) + 1
    BY <1>4, <2>1, FS_AddElement
  <2>3. Cardinality(DOMAIN tokens') <= MaxSessionTokens
    BY <1>1, <1>4, <2>1, <2>2
  <2> QED
    BY <1>1, <1>2, <1>3, <1>4, <2>3 DEF Store
<1>6. ExpiredIn(tokens) \subseteq DOMAIN tokens /\ DOMAIN tokens \subseteq 1..minted
  BY DEF ExpiredIn, Inv, StoresOK, Store
<1>7. BaseOK'
  <2>1. now' \in Times /\ minted' \in 0..MaxMints /\ lastSlide' \in {Never} \cup Times
    BY <1>2, <1>3 DEF Inv, BaseOK, Times
  <2>2. revoked' \subseteq 1..minted' /\ lapsed' \subseteq 1..minted'
    <3>1. lapsed \cup ExpiredAtCap \subseteq 1..minted /\ revoked \subseteq 1..minted
      BY <1>3, <1>6 DEF Inv, BaseOK
    <3>2. 1..minted \subseteq 1..token
      BY <1>3
    <3> QED
      BY <1>2, <3>1, <3>2, Zenon
  <2> QED
    BY <2>1, <2>2 DEF BaseOK, Times
<1>8. StoresOK'
  BY <1>1, <1>2, <1>3, <1>5, StoreLasts DEF Inv, StoresOK
<1>9. AgesOK'
  <2>1. token \notin DOMAIN file /\ token \notin DOMAIN flushed
    BY <1>3 DEF Inv, StoresOK, Store
  <2> QED
    BY <1>1, <1>2, <1>4, <2>1, <1>5 DEF Inv, AgesOK, Older, Store
<1>10. LapsedOK'
  <2>1. \A t \in ExpiredAtCap : now - tokens[t] > Ttl
    BY <1>3 DEF ExpiredIn
  <2>2. token \notin lapsed'
    BY <1>2, <1>3, <1>6 DEF Inv, BaseOK
  <2>3. StaleIn(tokens)' /\ \A t \in lapsed' \cap DOMAIN swept : now - swept[t] > Ttl
    BY <1>1, <1>2, <1>4, <2>1, <2>2 DEF Inv, LapsedOK, StaleIn
  <2>4. StaleIn(file)' /\ StaleIn(flushed)'
    <3>1. \A t \in DOMAIN tokens : tokens[t] \in 0..now
      BY DEF Inv, StoresOK, Store
    <3>2. \A t \in DOMAIN file : file[t] \in 0..now
      BY DEF Inv, StoresOK, Store
    <3>3. \A t \in DOMAIN flushed : flushed[t] \in 0..now
      BY DEF Inv, StoresOK, Store
    <3>4. \A t \in lapsed' \cap DOMAIN file : now - file[t] > Ttl
      BY <1>2, <1>3, <1>6, <2>1, <3>1, <3>2 DEF Inv, LapsedOK, StaleIn, AgesOK, Older
    <3>5. \A t \in lapsed' \cap DOMAIN flushed : now - flushed[t] > Ttl
      BY <1>2, <1>3, <1>6, <2>1, <3>1, <3>3 DEF Inv, LapsedOK, StaleIn, AgesOK, Older
    <3> QED
      BY <1>2, <2>3, <3>4, <3>5 DEF StaleIn
  <2> QED
    BY <2>3, <2>4 DEF LapsedOK
<1>a. FlagsOK'
  BY <1>2 DEF FlagsOK
<1>11. DownOK' /\ SweepIsArmed'
  BY <1>2 DEF DownOK, SweepIsArmed
<1>12. RevokedOK'
  BY <1>1, <1>2, <1>3, <1>4 DEF Inv, RevokedOK, BaseOK
<1> QED
  BY <1>7, <1>8, <1>9, <1>10, <1>11, <1>12, <1>a DEF Inv

(* Dropping expired tokens and sliding a live one: what is dropped is      *)
(* expired in every copy, as no copy is younger.                           *)
LEMMA DropInv ==
  ASSUME Inv, NEW S \in SUBSET ExpiredIn(tokens),
         Store(tokens', minted, now), DOMAIN tokens' = DOMAIN tokens \ S,
         \A t \in DOMAIN tokens' :
           tokens'[t] = tokens[t] \/ (t \notin ExpiredIn(tokens) /\ tokens'[t] = now),
         lapsed' = lapsed \cup S, file' = file \/ file' = tokens',
         lastSlide' = lastSlide \/ lastSlide' = now, up,
         UNCHANGED <<now, up, flushed, minted, revoked>>
  PROVE  BaseOK' /\ StoresOK' /\ AgesOK' /\ LapsedOK' /\ DownOK' /\ RevokedOK'
<1>1. /\ minted \in Nat /\ now \in Nat
      /\ S \subseteq DOMAIN tokens /\ DOMAIN tokens \subseteq 1..minted
      /\ \A t \in S : now - tokens[t] > Ttl
  BY DEF ExpiredIn, Inv, BaseOK, StoresOK, Store, Times
<1>2. /\ \A t \in DOMAIN tokens : tokens[t] \in 0..now
      /\ \A t \in DOMAIN file : file[t] \in 0..now
      /\ \A t \in DOMAIN flushed : flushed[t] \in 0..now
  BY DEF Inv, StoresOK, Store
<1>3. BaseOK'
  <2>1. lapsed' \subseteq 1..minted'
    BY <1>1 DEF Inv, BaseOK
  <2> QED
    BY <2>1 DEF Inv, BaseOK, Times
<1>4. StoresOK'
  BY DEF Inv, StoresOK
<1>5. AgesOK'
  BY <1>1, <1>2 DEF Inv, AgesOK, Older
<1>6. LapsedOK'
  <2>1. \A t \in lapsed \cap DOMAIN tokens : t \in ExpiredIn(tokens)
    BY DEF Inv, LapsedOK, StaleIn, ExpiredIn
  <2>2. StaleIn(tokens)'
    BY <1>1, <2>1 DEF Inv, LapsedOK, StaleIn
  <2>3. \A t \in lapsed' \cap DOMAIN file : now - file[t] > Ttl
    BY <1>1, <1>2 DEF Inv, LapsedOK, StaleIn, AgesOK, Older
  <2>4. \A t \in lapsed' \cap DOMAIN flushed : now - flushed[t] > Ttl
    BY <1>1, <1>2 DEF Inv, LapsedOK, StaleIn, AgesOK, Older
  <2> QED
    BY <2>2, <2>3, <2>4 DEF LapsedOK, StaleIn
<1>7. DownOK'
  BY DEF DownOK
<1>8. RevokedOK'
  BY DEF Inv, RevokedOK
<1> QED
  BY <1>3, <1>4, <1>5, <1>6, <1>7, <1>8

(* A lookup drops the expired tokens it meets. *)
LEMMA LookUpInv ==
  ASSUME Inv, NEW t, LookUp(t)
  PROVE  Inv'
<1>1. /\ tokens' = Without(tokens, MetBefore(t)) /\ lapsed' = lapsed \cup MetBefore(t)
      /\ up /\ UNCHANGED <<now, up, lastSlide, sweeping, file, flushed, minted, revoked>>
      /\ MetBefore(t) \subseteq ExpiredIn(tokens)
  BY DEF LookUp, disk, MetBefore
<1>2. /\ Store(tokens', minted, now) /\ DOMAIN tokens' = DOMAIN tokens \ MetBefore(t)
      /\ \A u \in DOMAIN tokens' : tokens'[u] = tokens[u]
  BY <1>1, TokensWithout
<1>3. BaseOK' /\ StoresOK' /\ AgesOK' /\ LapsedOK' /\ DownOK' /\ RevokedOK'
  BY <1>1, <1>2, DropInv
<1>4. FlagsOK' /\ SweepIsArmed'
  BY <1>1, <1>2 DEF Inv, FlagsOK, SweepIsArmed
<1> QED
  BY <1>3, <1>4 DEF Inv

(* Authenticating slides the time of one live token. *)
LEMMA AuthenticateInv ==
  ASSUME Inv, NEW t, Authenticate(t)
  PROVE  Inv'
<1> DEFINE rest == Without(tokens, MetBefore(t))
<1>1. /\ tokens' = [rest EXCEPT ![t] = now] /\ lapsed' = lapsed \cup MetBefore(t)
      /\ up /\ UNCHANGED <<now, up, sweeping, flushed, minted, revoked>>
      /\ file' = file \/ file' = tokens'
      /\ lastSlide' = lastSlide \/ lastSlide' = now
      /\ MetBefore(t) \subseteq ExpiredIn(tokens)
      /\ t \in DOMAIN tokens \ ExpiredIn(tokens)
  BY DEF Authenticate, Persist, disk, MetBefore, Valid
<1>2. /\ Store(rest, minted, now) /\ DOMAIN rest = DOMAIN tokens \ MetBefore(t)
      /\ \A u \in DOMAIN rest : rest[u] = tokens[u]
  BY <1>1, TokensWithout
<1> HIDE DEF rest
<1>3. now \in Nat
  BY DEF Inv, BaseOK, Times
<1>4. /\ DOMAIN tokens' = DOMAIN rest /\ Store(tokens', minted, now)
      /\ \A u \in DOMAIN rest : tokens'[u] = IF u = t THEN now ELSE rest[u]
  BY <1>1, <1>2, <1>3 DEF Store
<1>5. \A u \in DOMAIN tokens' :
        tokens'[u] = tokens[u] \/ (u \notin ExpiredIn(tokens) /\ tokens'[u] = now)
  BY <1>1, <1>2, <1>4
<1>6. DOMAIN tokens' = DOMAIN tokens \ MetBefore(t)
  BY <1>2, <1>4
<1>7. BaseOK' /\ StoresOK' /\ AgesOK' /\ LapsedOK' /\ DownOK' /\ RevokedOK'
  BY <1>1, <1>4, <1>5, <1>6, DropInv
<1>8. FlagsOK' /\ SweepIsArmed'
  BY <1>1, <1>6 DEF Inv, FlagsOK, SweepIsArmed
<1> QED
  BY <1>7, <1>8 DEF Inv

(* The sweep disarms itself only when it leaves nothing. *)
LEMMA SweepInv ==
  ASSUME Inv, Sweep
  PROVE  Inv'
<1>1. /\ tokens' = Without(tokens, ExpiredIn(tokens)) /\ lapsed' = lapsed \cup ExpiredIn(tokens)
      /\ up /\ UNCHANGED <<now, up, lastSlide, flushed, minted, revoked>>
      /\ file' = file \/ file' = tokens'
      /\ sweeping' = (sweeping /\ DOMAIN tokens' # {})
  BY DEF Sweep, Persist, disk
<1>2. /\ Store(tokens', minted, now) /\ DOMAIN tokens' = DOMAIN tokens \ ExpiredIn(tokens)
      /\ \A u \in DOMAIN tokens' : tokens'[u] = tokens[u]
  BY <1>1, TokensWithout
<1>3. BaseOK' /\ StoresOK' /\ AgesOK' /\ LapsedOK' /\ DownOK' /\ RevokedOK'
  BY <1>1, <1>2, DropInv
<1>4. FlagsOK' /\ SweepIsArmed'
  <2>1. DOMAIN tokens' # {} => DOMAIN tokens # {}
    BY <1>2
  <2> QED
    BY <1>1, <2>1 DEF Inv, FlagsOK, SweepIsArmed
<1> QED
  BY <1>3, <1>4 DEF Inv

(* A revocation that reports success has removed the tokens from memory,   *)
(* from the file and, if directories are flushed, from the disk.           *)
LEMMA RevokeInv ==
  ASSUME Inv, NEW S, Revoke(S)
  PROVE  Inv'
<1>1. /\ tokens' = Without(tokens, S) /\ revoked' = revoked \cup S
      /\ file' = tokens' /\ (flushed' = tokens' \/ (DirSyncFails /\ flushed' = flushed))
      /\ S \subseteq DOMAIN tokens /\ UNCHANGED <<now, up, lastSlide, sweeping, minted, lapsed>>
  BY DEF Revoke, PersistDurably
<1>2. /\ Store(tokens', minted, now) /\ DOMAIN tokens' = DOMAIN tokens \ S
      /\ \A t \in DOMAIN tokens' : tokens'[t] = tokens[t]
  BY <1>1, TokensWithout
<1>3. BaseOK'
  <2>1. S \subseteq 1..minted
    BY <1>1 DEF Inv, StoresOK, Store
  <2>2. revoked' \subseteq 1..minted'
    BY <1>1, <2>1 DEF Inv, BaseOK
  <2> QED
    BY <1>1, <2>2 DEF Inv, BaseOK, Times
<1>4. StoresOK'
  BY <1>1, <1>2 DEF Inv, StoresOK
<1>5. AgesOK'
  <2>1. \A t \in DOMAIN tokens' : tokens'[t] <= tokens'[t]
    BY <1>2 DEF Store
  <2> QED
    BY <1>1, <1>2, <2>1 DEF Inv, AgesOK, Older
<1>6. LapsedOK'
  BY <1>1, <1>2 DEF Inv, LapsedOK, StaleIn
<1>7. FlagsOK' /\ DownOK' /\ SweepIsArmed'
  BY <1>1, <1>2 DEF Inv, FlagsOK, DownOK, SweepIsArmed
<1>8. RevokedOK'
  BY <1>1, <1>2 DEF Inv, RevokedOK
<1> QED
  BY <1>3, <1>4, <1>5, <1>6, <1>7, <1>8 DEF Inv

(* The command edits the file only; it counts while no daemon could write  *)
(* its own copy back.                                                      *)
LEMMA RevokeInFileInv ==
  ASSUME Inv, NEW S, RevokeInFile(S)
  PROVE  Inv'
<1>1. /\ file' = Without(file, S) /\ revoked' \in {revoked, revoked \cup S}
      /\ up => revoked' = revoked
      /\ flushed' = file' \/ (DirSyncFails /\ flushed' = flushed)
      /\ S \subseteq DOMAIN file /\ UNCHANGED <<now, up, tokens, lastSlide, sweeping, minted, lapsed>>
  BY DEF RevokeInFile, PersistDurably, memory
<1>2. /\ Store(file', minted, now) /\ DOMAIN file' = DOMAIN file \ S
      /\ \A t \in DOMAIN file' : file'[t] = file[t]
  BY <1>1, FileWithout
<1>3. BaseOK'
  <2>1. S \subseteq 1..minted
    BY <1>1 DEF Inv, StoresOK, Store
  <2>2. revoked' \subseteq 1..minted'
    BY <1>1, <2>1 DEF Inv, BaseOK
  <2> QED
    BY <1>1, <2>2 DEF Inv, BaseOK, Times
<1>4. StoresOK'
  BY <1>1, <1>2 DEF Inv, StoresOK
<1>5. AgesOK'
  <2>1. \A t \in DOMAIN file' : file'[t] <= file'[t]
    BY <1>2 DEF Store
  <2> QED
    BY <1>1, <1>2, <2>1 DEF Inv, AgesOK, Older
<1>6. LapsedOK'
  BY <1>1, <1>2 DEF Inv, LapsedOK, StaleIn
<1>7. FlagsOK' /\ DownOK' /\ SweepIsArmed'
  BY <1>1, <1>2 DEF Inv, FlagsOK, DownOK, SweepIsArmed
<1>8. RevokedOK'
  BY <1>1, <1>2 DEF Inv, RevokedOK, DownOK
<1> QED
  BY <1>3, <1>4, <1>5, <1>6, <1>7, <1>8 DEF Inv

(* A start restores the file or nothing, a stop keeps the disk, a power    *)
(* loss what was flushed: each copy already satisfied what memory must.    *)
LEMMA LifeInv ==
  ASSUME Inv, Start \/ Stop \/ PowerLoss \/ Writeback
  PROVE  Inv'
<1>1. now \in Nat /\ minted \in Nat
  BY DEF Inv, BaseOK, Times
<1>2. Store(Empty, minted, now) /\ DOMAIN Empty = {}
  BY <1>1, EmptyStore
<1>3. /\ \A t \in DOMAIN file : file[t] \in 0..now
      /\ \A t \in DOMAIN flushed : flushed[t] \in 0..now
      /\ \A t \in DOMAIN tokens : tokens[t] \in 0..now
  BY DEF Inv, StoresOK, Store
<1> USE DEF history, disk, memory, Down
<1>4. CASE Start
  <2>1. StoresOK' /\ BaseOK'
    BY <1>2, <1>4 DEF Start, Inv, StoresOK, BaseOK, Times
  <2>2. AgesOK' /\ LapsedOK' /\ RevokedOK'
    BY <1>2, <1>3, <1>4 DEF Start, Inv, AgesOK, Older, LapsedOK, StaleIn, RevokedOK
  <2>3. FlagsOK' /\ DownOK' /\ SweepIsArmed'
    BY <1>4, Zenon DEF Start, FlagsOK, DownOK, SweepIsArmed
  <2> QED
    BY <2>1, <2>2, <2>3 DEF Inv
<1>5. CASE Stop
  <2>1. StoresOK' /\ BaseOK'
    BY <1>2, <1>5 DEF Stop, Inv, StoresOK, BaseOK, Times
  <2>2. AgesOK' /\ LapsedOK' /\ RevokedOK'
    BY <1>2, <1>3, <1>5 DEF Stop, Inv, AgesOK, Older, LapsedOK, StaleIn, RevokedOK
  <2>3. FlagsOK' /\ DownOK' /\ SweepIsArmed'
    BY <1>2, <1>5 DEF Stop, FlagsOK, DownOK, SweepIsArmed
  <2> QED
    BY <2>1, <2>2, <2>3 DEF Inv
<1>6. CASE PowerLoss
  <2>1. StoresOK' /\ BaseOK'
    BY <1>2, <1>6 DEF PowerLoss, Inv, StoresOK, BaseOK, Times
  <2>2. AgesOK' /\ LapsedOK' /\ RevokedOK'
    BY <1>2, <1>3, <1>6 DEF PowerLoss, Inv, AgesOK, Older, LapsedOK, StaleIn, RevokedOK
  <2>3. FlagsOK' /\ DownOK' /\ SweepIsArmed'
    BY <1>2, <1>6 DEF PowerLoss, FlagsOK, DownOK, SweepIsArmed
  <2> QED
    BY <2>1, <2>2, <2>3 DEF Inv
<1>7. CASE Writeback
  <2>1. StoresOK' /\ BaseOK'
    BY <1>7 DEF Writeback, Inv, StoresOK, BaseOK, Times
  <2>2. AgesOK' /\ LapsedOK' /\ RevokedOK'
    BY <1>3, <1>7 DEF Writeback, Inv, AgesOK, Older, LapsedOK, StaleIn, RevokedOK
  <2>3. FlagsOK' /\ DownOK' /\ SweepIsArmed'
    BY <1>7 DEF Writeback, Inv, FlagsOK, DownOK, SweepIsArmed
  <2> QED
    BY <2>1, <2>2, <2>3 DEF Inv
<1> QED
  BY <1>4, <1>5, <1>6, <1>7

(* Time only makes tokens older. *)
LEMMA TickInv ==
  ASSUME Inv, Tick
  PROVE  Inv'
<1>1. now' = now + 1 /\ now < MaxTime /\ UNCHANGED <<memory, disk, history>>
  BY DEF Tick
<1>2. now \in Nat /\ minted \in Nat
  BY DEF Inv, BaseOK, Times
<1> USE DEF memory, disk, history
<1>3. BaseOK'
  BY <1>1, <1>2 DEF Inv, BaseOK, Times
<1>4. StoresOK'
  BY <1>1, <1>2, StoreLasts DEF Inv, StoresOK
<1>5. AgesOK' /\ RevokedOK'
  BY <1>1 DEF Inv, AgesOK, Older, RevokedOK
<1>6. LapsedOK'
  <2>1. \A t \in DOMAIN tokens : tokens[t] \in 0..now
    BY DEF Inv, StoresOK, Store
  <2>2. \A t \in DOMAIN file : file[t] \in 0..now
    BY DEF Inv, StoresOK, Store
  <2>3. \A t \in DOMAIN flushed : flushed[t] \in 0..now
    BY DEF Inv, StoresOK, Store
  <2> QED
    BY <1>1, <1>2, <2>1, <2>2, <2>3 DEF Inv, LapsedOK, StaleIn
<1>7. FlagsOK' /\ DownOK' /\ SweepIsArmed'
  BY <1>1 DEF Inv, FlagsOK, DownOK, SweepIsArmed
<1> QED
  BY <1>3, <1>4, <1>5, <1>6, <1>7 DEF Inv

(* Every step keeps the invariant. *)
LEMMA NextInv == Inv /\ [Next]_vars => Inv'
<1> SUFFICES ASSUME Inv, [Next]_vars PROVE Inv'
  OBVIOUS
<1>1. CASE Mint
  BY <1>1, MintInv
<1>2. ASSUME NEW t \in 1..MaxMints, LookUp(t) \/ Authenticate(t) PROVE Inv'
  BY <1>2, LookUpInv, AuthenticateInv
<1>3. CASE Sweep
  BY <1>3, SweepInv
<1>4. ASSUME NEW S \in SUBSET (1..MaxMints), Revoke(S) \/ RevokeInFile(S) PROVE Inv'
  BY <1>4, RevokeInv, RevokeInFileInv
<1>5. CASE Start \/ Stop \/ PowerLoss \/ Writeback
  BY <1>5, LifeInv
<1>6. CASE Tick
  BY <1>6, TickInv
<1>7. CASE UNCHANGED vars
  BY <1>7 DEF vars, memory, disk, history, Inv, FlagsOK, BaseOK, Times, StoresOK, Store, AgesOK,
              Older, LapsedOK, StaleIn, DownOK, SweepIsArmed, RevokedOK
<1> QED
  BY <1>1, <1>2, <1>3, <1>4, <1>5, <1>6, <1>7 DEF Next
-----------------------------------------------------------------------------
(* Every copy of the tokens is what its type says, and memory never holds  *)
(* more than the cap: _storeSessionToken makes room before it adds.        *)
THEOREM TypesAndCap == Spec => []TypeOK
<1>1. Inv => TypeOK
  <2> SUFFICES ASSUME Inv PROVE TypeOK
    OBVIOUS
  <2>1. now \in Nat /\ 0..now \subseteq Times
    BY DEF Inv, BaseOK, Times
  <2>2. tokens \in Stores /\ file \in Stores /\ flushed \in Stores
    BY <2>1 DEF Inv, StoresOK, Store, Stores
  <2>3. Cardinality(DOMAIN tokens) <= MaxSessionTokens
    BY DEF Inv, StoresOK, Store
  <2> QED
    BY <2>2, <2>3 DEF TypeOK, Inv, FlagsOK, BaseOK
<1> QED
  BY <1>1, InitInv, NextInv, PTL DEF Spec

(* A token once dropped as expired is never valid again: it is as old in   *)
(* every copy a restart or a power loss can bring back.                    *)
THEOREM LapsedForGood == Spec => []LapsedStaysOut
<1>1. Inv => LapsedStaysOut
  BY DEF Inv, LapsedOK, StaleIn, LapsedStaysOut, Valid, ExpiredIn
<1> QED
  BY <1>1, InitInv, NextInv, PTL DEF Spec

(* While the daemon holds tokens the hourly sweep is armed. *)
THEOREM SweepArmed == Spec => []SweepIsArmed
<1>1. Inv => SweepIsArmed
  BY DEF Inv
<1> QED
  BY <1>1, InitInv, NextInv, PTL DEF Spec

(* If the directory of the store can be flushed, a token whose revocation  *)
(* was reported never authenticates again.                                 *)
THEOREM RevokedForGood ==
  ASSUME ~DirSyncFails
  PROVE  Spec => []RevokedStaysOut
<1>1. Inv => RevokedStaysOut
  BY DEF Inv, RevokedOK, RevokedStaysOut
<1> QED
  BY <1>1, InitInv, NextInv, PTL DEF Spec

(* Under the same assumption a live device loses its place only to a full  *)
(* house of live ones: minting sweeps before it evicts, and only at the    *)
(* cap.                                                                    *)
THEOREM FairEviction ==
  ASSUME ~DirSyncFails
  PROVE  Spec => EvictedOnlyFromFullHouse
<1> DEFINE live == DOMAIN tokens \ ExpiredIn(tokens)
           Fair == \A t \in DOMAIN tokens :
                     Valid(t) /\ up' /\ revoked' = revoked /\ t \notin DOMAIN tokens' =>
                       Cardinality(live) = MaxSessionTokens
<1>1. ASSUME Inv, [Next]_vars PROVE [Fair]_vars
  <2> SUFFICES ASSUME NEW t \in DOMAIN tokens, Valid(t), up', revoked' = revoked,
                      t \notin DOMAIN tokens'
               PROVE  Cardinality(live) = MaxSessionTokens
    OBVIOUS
  <2>1. t \notin ExpiredIn(tokens)
    BY DEF Valid
  <2>2. CASE Mint
    <3> DEFINE swept == Without(tokens, ExpiredAtCap)
               kept == MakeRoom(swept)
    <3>1. /\ DOMAIN swept = DOMAIN tokens \ ExpiredAtCap
          /\ Cardinality(DOMAIN swept) # MaxSessionTokens => kept = swept
      BY <1>1, RoomToMint
    <3>2. DOMAIN kept \subseteq DOMAIN tokens'
      BY <2>2 DEF Mint
    <3> HIDE DEF swept, kept
    <3>3. t \in DOMAIN swept
      BY <2>1, <3>1 DEF ExpiredAtCap
    <3>4. Cardinality(DOMAIN swept) = MaxSessionTokens
      BY <3>1, <3>2, <3>3
    <3>5. ExpiredAtCap # {} => ExpiredAtCap = ExpiredIn(tokens)
      BY DEF ExpiredAtCap
    <3>6. ExpiredAtCap = ExpiredIn(tokens)
      BY <3>1, <3>4, <3>5 DEF ExpiredAtCap
    <3> QED
      BY <3>1, <3>4, <3>6
  <2>3. CASE \E u \in 1..MaxMints : LookUp(u)
    BY <1>1, <2>1, <2>3, TokensWithout DEF LookUp, MetBefore
  <2>4. CASE \E u \in 1..MaxMints : Authenticate(u)
    BY <1>1, <2>1, <2>4, TokensWithout DEF Authenticate, MetBefore
  <2>5. CASE Sweep
    BY <1>1, <2>1, <2>5, TokensWithout DEF Sweep
  <2>6. CASE \E S \in SUBSET (1..MaxMints) : Revoke(S)
    <3>1. PICK S : Revoke(S)
      BY <2>6
    <3>2. S \subseteq revoked /\ DOMAIN tokens' = DOMAIN tokens \ S
      BY <1>1, <3>1, TokensWithout DEF Revoke
    <3> QED
      BY <1>1, <3>2 DEF Inv, RevokedOK
  <2>7. CASE \E S \in SUBSET (1..MaxMints) : RevokeInFile(S)
    BY <2>7 DEF RevokeInFile, memory
  <2>8. CASE Start
    BY <1>1, <2>8 DEF Start, Inv, DownOK
  <2>9. CASE Stop \/ PowerLoss
    BY <2>9 DEF Stop, PowerLoss, Down
  <2>10. CASE Writeback \/ Tick \/ UNCHANGED vars
    BY <2>10 DEF Writeback, Tick, vars, memory
  <2> QED
    BY <1>1, <2>2, <2>3, <2>4, <2>5, <2>6, <2>7, <2>8, <2>9, <2>10 DEF Next
<1> QED
  BY <1>1, InitInv, NextInv, PTL DEF Spec, EvictedOnlyFromFullHouse
=============================================================================
