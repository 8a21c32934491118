----------------------- MODULE PermissionRoutesProofs -----------------------
(***************************************************************************)
(* Proofs about PermissionRoutes for any sessions, clients, bindings and   *)
(* finite set of requests.                                                 *)
(*                                                                         *)
(* A prompt belongs to an in-process session and a held request does not,  *)
(* so the two ways of ending a request never meet; and a client that chose *)
(* a session has no count on it, so no release can unsubscribe it.         *)
(***************************************************************************)
EXTENDS PermissionRoutes, FiniteSetTheorems, TLAPS

Routed(s) == {r \in DOMAIN route : route[r] = s}

ClientTypes ==
  /\ alive \subseteq Sessions /\ connected \subseteq Clients
  /\ active \in [Clients -> Sessions \cup {None}]
  /\ subscribed \in [Clients -> SUBSET Sessions] /\ asked \in [Clients -> SUBSET Sessions]
  /\ counted \in [Clients -> [Sessions -> Nat]]

RequestTypes ==
  /\ DOMAIN owner \subseteq Requests /\ owner \in [DOMAIN owner -> Sessions \cup {None}]
  /\ DOMAIN route \subseteq DOMAIN owner /\ route \in [DOMAIN route -> Sessions]
  /\ prompts \subseteq DOMAIN owner /\ held \subseteq DOMAIN owner /\ paused \subseteq held

SettledTypes ==
  /\ DOMAIN settled \subseteq DOMAIN owner
  /\ settled \in [DOMAIN settled -> Sessions \cup {None}]

(* Prompts are asked in process, held requests are not. *)
Kinds ==
  /\ \A r \in prompts : owner[r] \in InProcess
  /\ \A r \in held : owner[r] \notin InProcess

(* The code tells a chosen subscription by its lack of a count. *)
AskedUncounted == \A c \in Clients : \A s \in asked[c] : counted[c][s] = 0

Inv ==
  /\ ClientTypes /\ RequestTypes /\ SettledTypes /\ Kinds /\ RoutesMatchRequests
  /\ BoundStaysHome /\ AskedStays /\ AskedUncounted /\ HookCountsEnd

USE PermissionRoutesAssumption DEF PermissionRoutesAssumption
-----------------------------------------------------------------------------
(* Initially nobody is connected and nothing waits. *)
LEMMA InitInv == Init => Inv
<1> SUFFICES ASSUME Init PROVE Inv
  OBVIOUS
<1>1. ClientTypes /\ AskedStays /\ AskedUncounted
  BY DEF Init, ClientTypes, AskedStays, AskedUncounted
<1>2. RequestTypes /\ SettledTypes /\ Kinds /\ RoutesMatchRequests /\ BoundStaysHome
  BY DEF Init, Empty, RequestTypes, SettledTypes, Kinds, RoutesMatchRequests, BoundStaysHome
<1>3. HookCountsEnd
  <2>1. \A s : {r \in DOMAIN route : route[r] = s} = {}
    BY DEF Init, Empty
  <2> QED
    BY <2>1, FS_EmptySet DEF Init, HookCountsEnd
<1> QED
  BY <1>1, <1>2, <1>3 DEF Inv

(* The requests routed to a session are finitely many. *)
LEMMA RoutedFinite ==
  ASSUME Inv
  PROVE  \A s : IsFiniteSet(Routed(s)) /\ Cardinality(Routed(s)) \in Nat
<1>1. \A s : Routed(s) \in SUBSET Requests
  BY DEF Inv, RequestTypes, Routed
<1>2. \A s : IsFiniteSet(Routed(s))
  BY <1>1, FS_Subset
<1> QED
  BY <1>2, FS_CardinalityType

(* Dropping requests from the map leaves the others where they were. *)
LEMMA WithoutRoutes ==
  ASSUME Inv
  PROVE  \A S : /\ DOMAIN Without(route, S) = DOMAIN route \ S
                /\ Without(route, S) \in [DOMAIN route \ S -> Sessions]
                /\ \A r \in DOMAIN route \ S : Without(route, S)[r] = route[r]
BY DEF Without, Restrict, Inv, RequestTypes

(* A new request: its route is new, and whoever is counted for it was not  *)
(* watching by choice.                                                     *)
LEMMA RegisterClients ==
  ASSUME Inv, NEW r \in Requests \ DOMAIN owner, NEW s \in Sessions, Register(r, s),
         UNCHANGED <<alive, connected, active, asked>>
  PROVE  /\ DOMAIN route' = DOMAIN route \cup {r} /\ route' \in [DOMAIN route' -> Sessions]
         /\ route'[r] = s /\ \A q \in DOMAIN route : route'[q] = route[q]
         /\ ClientTypes' /\ AskedStays' /\ AskedUncounted' /\ HookCountsEnd'
<1>1. r \notin DOMAIN route
  BY DEF Inv, RequestTypes
<1>2. /\ DOMAIN route' = DOMAIN route \cup {r} /\ route' \in [DOMAIN route' -> Sessions]
      /\ route'[r] = s /\ \A q \in DOMAIN route : route'[q] = route[q]
  BY <1>1 DEF Register, Inv, RequestTypes
<1>3. \A c \in Clients :
        subscribed'[c] = IF c \in connected /\ Eligible(c, s) THEN subscribed[c] \cup {s}
                         ELSE subscribed[c]
  BY DEF Register
<1>4. \A c \in Clients :
        counted'[c] = IF c \in connected /\ Eligible(c, s) /\ ~(s \in subscribed[c] /\ counted[c][s] = 0)
                      THEN [counted[c] EXCEPT ![s] = counted[c][s] + 1] ELSE counted[c]
  BY DEF Register
<1>5. \A c \in Clients : \A z \in Sessions :
        /\ counted'[c][z] \in {counted[c][z], counted[c][z] + 1}
        /\ counted'[c][z] # counted[c][z] => z = s /\ ~(s \in subscribed[c] /\ counted[c][s] = 0)
  <2> SUFFICES ASSUME NEW c \in Clients, NEW z \in Sessions
               PROVE  /\ counted'[c][z] \in {counted[c][z], counted[c][z] + 1}
                      /\ counted'[c][z] # counted[c][z] =>
                           z = s /\ ~(s \in subscribed[c] /\ counted[c][s] = 0)
    BY Zenon
  <2>1. counted[c] \in [Sessions -> Nat]
    BY DEF Inv, ClientTypes
  <2> QED
    BY <1>4, <2>1
<1>6. ClientTypes'
  <2>1. subscribed' \in [Clients -> SUBSET Sessions]
    BY DEF Register, Inv, ClientTypes
  <2>2. counted' \in [Clients -> [Sessions -> Nat]]
    BY DEF Register, Inv, ClientTypes
  <2> QED
    BY <2>1, <2>2 DEF Inv, ClientTypes
<1>7. AskedStays'
  BY <1>3 DEF Inv, AskedStays
<1>8. AskedUncounted'
  BY <1>5 DEF Inv, ClientTypes, AskedStays, AskedUncounted
<1>9. HookCountsEnd'
  <2> SUFFICES ASSUME NEW c \in Clients, NEW z \in Sessions \ InProcess
               PROVE  counted'[c][z] <= Cardinality(Routed(z)')
    BY DEF HookCountsEnd, Routed
  <2>1. counted[c][z] <= Cardinality(Routed(z)) /\ counted[c][z] \in Nat
    BY DEF Inv, HookCountsEnd, Routed, ClientTypes
  <2>2. Routed(z)' = IF z = s THEN Routed(z) \cup {r} ELSE Routed(z)
    BY <1>1, <1>2 DEF Routed
  <2>3. r \notin Routed(z) /\ IsFiniteSet(Routed(z)) /\ Cardinality(Routed(z)) \in Nat
    BY <1>1, RoutedFinite DEF Routed
  <2>4. Cardinality(Routed(z) \cup {r}) = Cardinality(Routed(z)) + 1
    BY <2>3, FS_AddElement
  <2> QED
    BY <1>5, <2>1, <2>2, <2>3, <2>4
<1> QED
  BY <1>2, <1>6, <1>7, <1>8, <1>9

(* Releasing requests of one session: whoever loses its last count had not *)
(* chosen the session, and as many counts go as requests do.               *)
LEMMA UnregisterClients ==
  ASSUME Inv, NEW s \in Sessions, NEW R \in SUBSET Routed(s), Unregister(R, s),
         alive' \subseteq alive, UNCHANGED <<connected, active, asked>>
  PROVE  /\ route' = Without(route, R)
         /\ ClientTypes' /\ AskedStays' /\ AskedUncounted' /\ HookCountsEnd'
<1> DEFINE n == Cardinality(R)
<1>1. /\ IsFiniteSet(R) /\ n \in Nat
      /\ Cardinality(Routed(s) \ R) = Cardinality(Routed(s)) - n
      /\ Cardinality(Routed(s) \ R) \in Nat
  <2>1. IsFiniteSet(Routed(s))
    BY RoutedFinite
  <2>2. IsFiniteSet(R)
    BY <2>1, FS_Subset
  <2>3. Routed(s) \cap R = R
    OBVIOUS
  <2>4. Cardinality(Routed(s) \ R) = Cardinality(Routed(s)) - Cardinality(Routed(s) \cap R)
        /\ IsFiniteSet(Routed(s) \ R)
    BY <2>1, FS_Difference
  <2> QED
    BY <2>2, <2>3, <2>4, FS_CardinalityType
<1>2. Cardinality(R \cap DOMAIN route) = n
  <2>1. R \cap DOMAIN route = R
    BY DEF Routed
  <2> QED
    BY <2>1
<1> HIDE DEF n
<1>3. /\ route' = Without(route, R)
      /\ counted' = [c \in Clients |->
           [counted[c] EXCEPT ![s] = IF counted[c][s] > n THEN counted[c][s] - n
                                     ELSE IF n > 0 THEN 0 ELSE counted[c][s]]]
      /\ subscribed' = [c \in Clients |->
           IF counted[c][s] \in 1..n /\ active[c] # s THEN subscribed[c] \ {s} ELSE subscribed[c]]
  BY <1>2 DEF Unregister
<1>4. ASSUME NEW c \in Clients, NEW z \in Sessions
      PROVE  /\ counted[c][z] \in Nat
             /\ counted'[c][z] = IF z # s THEN counted[c][z]
                                 ELSE IF counted[c][z] > n THEN counted[c][z] - n
                                 ELSE IF n > 0 THEN 0 ELSE counted[c][z]
  <2>1. counted[c] \in [Sessions -> Nat]
    BY DEF Inv, ClientTypes
  <2> QED
    BY <1>3, <2>1
<1>5. ClientTypes'
  <2>1. subscribed' \in [Clients -> SUBSET Sessions]
    BY <1>3 DEF Inv, ClientTypes
  <2>2. counted' \in [Clients -> [Sessions -> Nat]]
    BY <1>1, <1>3 DEF Inv, ClientTypes
  <2> QED
    BY <2>1, <2>2 DEF Inv, ClientTypes
<1>6. AskedStays'
  <2> SUFFICES ASSUME NEW c \in Clients, NEW z \in asked[c]
               PROVE  z \in subscribed'[c]
    BY DEF AskedStays
  <2>1. z \in subscribed[c] /\ counted[c][z] = 0
    BY DEF Inv, AskedStays, AskedUncounted
  <2>2. z = s => counted[c][s] \notin 1..n
    BY <1>1, <2>1
  <2> QED
    BY <1>3, <2>1, <2>2
<1>7. AskedUncounted'
  <2> SUFFICES ASSUME NEW c \in Clients, NEW z \in asked[c]
               PROVE  counted'[c][z] = 0
    BY DEF AskedUncounted
  <2>1. z \in Sessions /\ counted[c][z] = 0
    BY DEF Inv, ClientTypes, AskedUncounted
  <2> QED
    BY <1>1, <1>4, <2>1
<1>8. HookCountsEnd'
  <2> SUFFICES ASSUME NEW c \in Clients, NEW z \in Sessions \ InProcess
               PROVE  counted'[c][z] <= Cardinality(Routed(z)')
    BY DEF HookCountsEnd, Routed
  <2>1. counted[c][z] <= Cardinality(Routed(z))
    BY DEF Inv, HookCountsEnd, Routed
  <2>2. Routed(z)' = IF z = s THEN Routed(z) \ R ELSE Routed(z)
    <3>1. /\ DOMAIN route' = DOMAIN route \ R
          /\ \A r \in DOMAIN route \ R : route'[r] = route[r]
      BY <1>3, WithoutRoutes
    <3>2. \A r \in R : route[r] = s
      BY DEF Routed
    <3> QED
      BY <3>1, <3>2 DEF Routed
  <2>3. Cardinality(Routed(z)) \in Nat
    BY RoutedFinite
  <2>4. CASE z = s
    BY <1>1, <1>4, <2>1, <2>2, <2>3, <2>4
  <2>5. CASE z # s
    BY <1>4, <2>1, <2>2, <2>5
  <2> QED
    BY <2>4, <2>5
<1> QED
  BY <1>3, <1>5, <1>6, <1>7, <1>8

(* The same for one request, routed or not. *)
LEMMA UnregisterOneClients ==
  ASSUME Inv, NEW r, UnregisterOne(r), UNCHANGED <<alive, connected, active, asked>>
  PROVE  /\ route' = Without(route, {r})
         /\ ClientTypes' /\ AskedStays' /\ AskedUncounted' /\ HookCountsEnd'
<1>1. CASE r \in DOMAIN route
  <2>1. route[r] \in Sessions
    BY <1>1 DEF Inv, RequestTypes
  <2>2. {r} \in SUBSET Routed(route[r])
    BY <1>1 DEF Routed
  <2>3. Unregister({r}, route[r])
    BY <1>1 DEF UnregisterOne
  <2> QED
    BY <2>1, <2>2, <2>3, UnregisterClients
<1>2. CASE r \notin DOMAIN route
  <2>1. UNCHANGED <<route, counted, subscribed>>
    BY <1>2 DEF UnregisterOne
  <2>2. Without(route, {r}) = route
    BY <1>2 DEF Without, Restrict, Inv, RequestTypes
  <2> QED
    BY <2>1, <2>2
    DEF Inv, ClientTypes, AskedStays, AskedUncounted, HookCountsEnd
<1> QED
  BY <1>1, <1>2

(* A prompt takes its map entry with it; no hook session loses a request.  *)
LEMMA EndPromptClients ==
  ASSUME Inv, NEW r \in prompts, EndPrompt(r), UNCHANGED <<alive, connected, active, asked>>
  PROVE  /\ route' = Without(route, {r})
         /\ ClientTypes' /\ AskedStays' /\ AskedUncounted' /\ HookCountsEnd'
<1>1. route' = Without(route, {r}) /\ UNCHANGED <<subscribed, counted>>
  BY DEF EndPrompt
<1>2. r \in DOMAIN route => route[r] \in InProcess
  BY DEF Inv, Kinds, RoutesMatchRequests
<1>3. \A z \in Sessions \ InProcess : Routed(z)' = Routed(z)
  <2>1. /\ DOMAIN route' = DOMAIN route \ {r}
        /\ \A q \in DOMAIN route \ {r} : route'[q] = route[q]
    BY <1>1, WithoutRoutes
  <2> QED
    BY <1>2, <2>1 DEF Routed
<1>4. HookCountsEnd'
  BY <1>1, <1>3 DEF Inv, HookCountsEnd, Routed
<1> QED
  BY <1>1, <1>4 DEF Inv, ClientTypes, AskedStays, AskedUncounted

(* Whatever ends requests takes them out of the map, their store and the   *)
(* paused clock together.                                                  *)
LEMMA EndRequests ==
  ASSUME Inv, NEW R, route' = Without(route, R), prompts' = prompts \ R,
         held' = held \ R, paused' = paused \ R, UNCHANGED owner
  PROVE  RequestTypes' /\ Kinds' /\ RoutesMatchRequests'
<1>1. /\ DOMAIN route' = DOMAIN route \ R /\ route' \in [DOMAIN route \ R -> Sessions]
      /\ \A r \in DOMAIN route \ R : route'[r] = route[r]
  BY WithoutRoutes
<1>2. RequestTypes'
  BY <1>1 DEF Inv, RequestTypes
<1>3. Kinds'
  BY DEF Inv, Kinds
<1>4. RoutesMatchRequests'
  BY <1>1 DEF Inv, RoutesMatchRequests
<1> QED
  BY <1>2, <1>3, <1>4

(* One request ends, as a prompt or as a held one, never as both. *)
LEMMA EndOne ==
  ASSUME Inv, NEW r, (r \in prompts /\ EndPrompt(r)) \/ (r \in held /\ EndHeld(r)),
         UNCHANGED <<alive, connected, active, asked, owner>>
  PROVE  /\ RequestTypes' /\ Kinds' /\ RoutesMatchRequests'
         /\ ClientTypes' /\ AskedStays' /\ AskedUncounted' /\ HookCountsEnd'
<1>1. CASE r \in prompts /\ EndPrompt(r)
  <2>1. r \notin held /\ r \notin paused
    BY <1>1 DEF Inv, Kinds, RequestTypes
  <2>2. prompts' = prompts \ {r} /\ held' = held \ {r} /\ paused' = paused \ {r}
    BY <1>1, <2>1 DEF EndPrompt
  <2>3. /\ route' = Without(route, {r})
        /\ ClientTypes' /\ AskedStays' /\ AskedUncounted' /\ HookCountsEnd'
    BY <1>1, EndPromptClients
  <2> QED
    BY <2>2, <2>3, EndRequests
<1>2. CASE r \in held /\ EndHeld(r)
  <2>1. r \notin prompts
    BY <1>2 DEF Inv, Kinds
  <2>2. prompts' = prompts \ {r} /\ held' = held \ {r} /\ paused' = paused \ {r} /\ UnregisterOne(r)
    BY <1>2, <2>1 DEF EndHeld
  <2>3. /\ route' = Without(route, {r})
        /\ ClientTypes' /\ AskedStays' /\ AskedUncounted' /\ HookCountsEnd'
    BY <2>2, UnregisterOneClients
  <2> QED
    BY <2>2, <2>3, EndRequests
<1> QED
  BY <1>1, <1>2

(* A request that is just made is new to every map. *)
LEMMA AskInv ==
  ASSUME Inv, NEW r \in Requests, NEW s, Ask(r, s) \/ AskByHook(r, s)
  PROVE  Inv'
<1>1. /\ r \notin DOMAIN owner /\ s \in Sessions \cup {None}
      /\ owner' = [q \in DOMAIN owner \cup {r} |-> IF q = r THEN s ELSE owner[q]]
      /\ UNCHANGED <<alive, connected, active, asked, settled>>
  BY DEF Ask, AskByHook, Inv, ClientTypes
<1>2. /\ DOMAIN owner' = DOMAIN owner \cup {r} /\ owner'[r] = s
      /\ owner' \in [DOMAIN owner' -> Sessions \cup {None}]
      /\ \A q \in DOMAIN owner : owner'[q] = owner[q]
  BY <1>1 DEF Inv, RequestTypes
<1>3. /\ r \notin prompts /\ r \notin held /\ r \notin paused /\ r \notin DOMAIN route
      /\ r \notin DOMAIN settled
  BY <1>1 DEF Inv, RequestTypes, SettledTypes
<1>4. SettledTypes' /\ BoundStaysHome'
  BY <1>1, <1>2 DEF Inv, SettledTypes, BoundStaysHome
<1>5. CASE s \in Sessions /\ Register(r, s)
  <2>1. /\ DOMAIN route' = DOMAIN route \cup {r} /\ route' \in [DOMAIN route' -> Sessions]
        /\ route'[r] = s /\ \A q \in DOMAIN route : route'[q] = route[q]
        /\ ClientTypes' /\ AskedStays' /\ AskedUncounted' /\ HookCountsEnd'
    BY <1>1, <1>5, RegisterClients
  <2>2. \/ prompts' = prompts \cup {r} /\ s \in InProcess /\ UNCHANGED <<held, paused>>
        \/ /\ held' = held \cup {r} /\ paused' = paused \cup {r} /\ s \notin InProcess
           /\ UNCHANGED prompts
    BY <1>5 DEF Ask, AskByHook
  <2>3. RequestTypes'
    BY <1>2, <2>1, <2>2 DEF Inv, RequestTypes
  <2>4. Kinds'
    BY <1>2, <1>3, <2>2 DEF Inv, Kinds, RequestTypes
  <2>5. RoutesMatchRequests'
    BY <1>2, <1>3, <1>5, <2>1, <2>2 DEF Inv, RoutesMatchRequests, RequestTypes
  <2> QED
    BY <1>4, <2>1, <2>3, <2>4, <2>5 DEF Inv
<1>6. CASE s = None
  <2>1. /\ held' = held \cup {r} /\ UNCHANGED <<prompts, paused, route, subscribed, counted>>
    BY <1>6 DEF Ask, AskByHook, Inv, ClientTypes
  <2>2. RequestTypes' /\ Kinds'
    BY <1>2, <1>3, <1>6, <2>1 DEF Inv, RequestTypes, Kinds
  <2>3. RoutesMatchRequests'
    BY <1>2, <1>3, <1>6, <2>1 DEF Inv, RoutesMatchRequests, RequestTypes
  <2>4. ClientTypes' /\ AskedStays' /\ AskedUncounted' /\ HookCountsEnd'
    BY <1>1, <2>1 DEF Inv, ClientTypes, AskedStays, AskedUncounted, HookCountsEnd
  <2> QED
    BY <1>4, <2>2, <2>3, <2>4 DEF Inv
<1> QED
  BY <1>5, <1>6, <1>1 DEF Ask, AskByHook, Inv, ClientTypes

(* Timeout, abort, clear and lost connection. *)
LEMMA LapseInv ==
  ASSUME Inv, NEW r, Lapse(r)
  PROVE  Inv'
<1>1. /\ (r \in prompts /\ EndPrompt(r)) \/ (r \in held /\ EndHeld(r))
      /\ UNCHANGED <<alive, connected, active, asked, owner, settled>>
  BY DEF Lapse
<1>2. /\ RequestTypes' /\ Kinds' /\ RoutesMatchRequests'
      /\ ClientTypes' /\ AskedStays' /\ AskedUncounted' /\ HookCountsEnd'
  BY <1>1, EndOne
<1>3. SettledTypes' /\ BoundStaysHome'
  BY <1>1 DEF Inv, SettledTypes, BoundStaysHome
<1> QED
  BY <1>2, <1>3 DEF Inv

(* An answer ends a request of the session the map names, or finds nothing *)
(* and leaves the map alone; its binding was that session.                 *)
LEMMA ResolveInv ==
  ASSUME Inv, NEW r \in DOMAIN owner, NEW binding \in Sessions \cup {None}, NEW fallback,
         Resolve(r, binding, fallback)
  PROVE  Inv'
<1> DEFINE origin == Origin(r, fallback)
           dispatched == origin \in alive \cap InProcess
           found == IF dispatched THEN r \in prompts /\ owner[r] = origin ELSE r \in held
<1>1. /\ binding \in {None, Mapped(r)}
      /\ \/ dispatched /\ found /\ EndPrompt(r)
         \/ dispatched /\ ~found /\ UnregisterOne(r) /\ UNCHANGED <<prompts, held, paused>>
         \/ ~dispatched /\ found /\ EndHeld(r)
      /\ settled' = IF found
                    THEN [q \in DOMAIN settled \cup {r} |-> IF q = r THEN binding ELSE settled[q]]
                    ELSE settled
      /\ UNCHANGED <<alive, connected, active, asked, owner>>
  BY DEF Resolve, MayResolve
<1>2. CASE ~dispatched /\ ~found
  BY <1>1, <1>2
<1>3. CASE dispatched /\ ~found
  <2>1. r \notin DOMAIN route
    <3> SUFFICES ASSUME r \in DOMAIN route PROVE FALSE
      OBVIOUS
    <3>1. route[r] = owner[r] /\ owner[r] # None /\ r \in prompts \cup held
      BY DEF Inv, RoutesMatchRequests
    <3>2. origin = owner[r]
      BY <3>1 DEF Origin, Mapped
    <3> QED
      BY <1>3, <3>1, <3>2 DEF Inv, Kinds
  <2>2. UNCHANGED <<prompts, held, paused, route, counted, subscribed, settled>>
    BY <1>1, <1>3, <2>1 DEF UnregisterOne
  <2> QED
    BY <1>1, <2>2 DEF Inv, ClientTypes, RequestTypes, SettledTypes, Kinds, RoutesMatchRequests,
                      BoundStaysHome, AskedStays, AskedUncounted, HookCountsEnd
<1>4. CASE found
  <2>1. (r \in prompts /\ EndPrompt(r)) \/ (r \in held /\ EndHeld(r))
    BY <1>1, <1>4
  <2>2. /\ RequestTypes' /\ Kinds' /\ RoutesMatchRequests'
        /\ ClientTypes' /\ AskedStays' /\ AskedUncounted' /\ HookCountsEnd'
    BY <1>1, <2>1, EndOne
  <2>3. binding \in {None, owner[r]}
    BY <1>1 DEF Mapped, Inv, RoutesMatchRequests
  <2>4. settled' = [q \in DOMAIN settled \cup {r} |-> IF q = r THEN binding ELSE settled[q]]
    BY <1>1, <1>4
  <2>5. SettledTypes' /\ BoundStaysHome'
    BY <1>1, <2>3, <2>4 DEF Inv, SettledTypes, BoundStaysHome
  <2> QED
    BY <2>2, <2>5 DEF Inv
<1> QED
  BY <1>2, <1>3, <1>4

(* Steps that touch the clients only. *)
LEMMA ClientStep ==
  ASSUME Inv, UNCHANGED <<route, requests, settled>>,
         ClientTypes', AskedStays', AskedUncounted', HookCountsEnd'
  PROVE  Inv'
BY DEF requests, Inv, RequestTypes, SettledTypes, Kinds, RoutesMatchRequests, BoundStaysHome

(* Counts that are dropped or kept stay within the waiting requests. *)
LEMMA CountsFall ==
  ASSUME Inv, UNCHANGED route,
         \A d \in Clients, z \in Sessions :
           counted'[d][z] = 0 \/ counted'[d][z] = counted[d][z]
  PROVE  HookCountsEnd'
<1> SUFFICES ASSUME NEW d \in Clients, NEW z \in Sessions \ InProcess
             PROVE  counted'[d][z] <= Cardinality(Routed(z)')
  BY DEF HookCountsEnd, Routed
<1>1. Routed(z)' = Routed(z)
  BY DEF Routed
<1>2. counted[d][z] <= Cardinality(Routed(z)) /\ Cardinality(Routed(z)) \in Nat
  BY RoutedFinite DEF Inv, HookCountsEnd, Routed
<1>3. counted'[d][z] = 0 \/ counted'[d][z] = counted[d][z]
  OBVIOUS
<1> QED
  BY <1>1, <1>2, <1>3

(* A client comes: everyone may gain subscriptions, nobody a count. *)
LEMMA ConnectInv ==
  ASSUME Inv, NEW c \in Clients, Connect(c)
  PROVE  Inv'
<1>1. /\ connected' = connected \cup {c}
      /\ UNCHANGED <<alive, counted, asked, route, requests, settled>>
      /\ (\E s \in alive : active' = [active EXCEPT ![c] = s]) \/ UNCHANGED active
  BY DEF Connect
<1>2. subscribed' = [d \in Clients |->
        IF d \in connected'
        THEN subscribed[d] \cup {s \in {owner[r] : r \in prompts} : Eligible(d, s)}
        ELSE subscribed[d]]
  BY DEF Connect
<1>3. {owner[r] : r \in prompts} \subseteq Sessions
  BY DEF Inv, Kinds
<1>4. ClientTypes'
  <2>1. subscribed' \in [Clients -> SUBSET Sessions]
    BY <1>2, <1>3 DEF Inv, ClientTypes
  <2>2. active' \in [Clients -> Sessions \cup {None}]
    BY <1>1 DEF Inv, ClientTypes
  <2> QED
    BY <1>1, <2>1, <2>2 DEF Inv, ClientTypes
<1>5. AskedStays'
  BY <1>1, <1>2 DEF Inv, AskedStays
<1>6. AskedUncounted' /\ HookCountsEnd'
  BY <1>1 DEF Inv, AskedUncounted, HookCountsEnd
<1> QED
  BY <1>1, <1>4, <1>5, <1>6, ClientStep

(* A client goes with all it had. *)
LEMMA DisconnectInv ==
  ASSUME Inv, NEW c \in Clients, Disconnect(c)
  PROVE  Inv'
<1>1. /\ connected' = connected \ {c}
      /\ active' = [active EXCEPT ![c] = None] /\ subscribed' = [subscribed EXCEPT ![c] = {}]
      /\ counted' = [counted EXCEPT ![c] = [s \in Sessions |-> 0]]
      /\ asked' = [asked EXCEPT ![c] = {}]
      /\ UNCHANGED <<alive, route, requests, settled>>
  BY DEF Disconnect
<1>2. ClientTypes' /\ AskedStays'
  BY <1>1 DEF Inv, ClientTypes, AskedStays
<1>3. AskedUncounted'
  BY <1>1 DEF Inv, ClientTypes, AskedUncounted
<1>4. HookCountsEnd'
  <2>1. \A d \in Clients, s \in Sessions :
          counted'[d][s] = 0 \/ counted'[d][s] = counted[d][s]
    BY <1>1 DEF Inv, ClientTypes
  <2> QED
    BY <1>1, <2>1, CountsFall
<1> QED
  BY <1>1, <1>2, <1>3, <1>4, ClientStep

(* Choosing a session or leaving it drops the count. *)
LEMMA AdoptClients ==
  ASSUME Inv, NEW c \in Clients, NEW s \in Sessions, Adopt(c, s), UNCHANGED route
  PROVE  /\ counted' \in [Clients -> [Sessions -> Nat]] /\ counted'[c][s] = 0 /\ HookCountsEnd'
         /\ \A d \in Clients, z \in Sessions :
              counted'[d][z] = 0 \/ counted'[d][z] = counted[d][z]
<1>1. counted' = [counted EXCEPT ![c] = [counted[c] EXCEPT ![s] = 0]]
  BY DEF Adopt
<1>2. counted[c] \in [Sessions -> Nat]
  BY DEF Inv, ClientTypes
<1>3. /\ counted' \in [Clients -> [Sessions -> Nat]] /\ counted'[c][s] = 0
      /\ \A d \in Clients, z \in Sessions :
           counted'[d][z] = 0 \/ counted'[d][z] = counted[d][z]
  BY <1>1, <1>2 DEF Inv, ClientTypes
<1>4. HookCountsEnd'
  BY <1>3, CountsFall
<1> QED
  BY <1>3, <1>4

(* What a client chooses it is subscribed to, and holds no count on. *)
LEMMA SubscribeInv ==
  ASSUME Inv, NEW c \in Clients, NEW s \in Sessions, Subscribe(c, s) \/ Unsubscribe(c, s)
  PROVE  Inv'
<1>1. /\ Adopt(c, s)
      /\ active' = [active EXCEPT ![c] = s] \/ UNCHANGED active
      /\ UNCHANGED <<alive, connected, route, requests, settled>>
  BY DEF Subscribe, Unsubscribe
<1>a. \/ /\ subscribed' = [subscribed EXCEPT ![c] = subscribed[c] \cup {s}]
         /\ asked' = [asked EXCEPT ![c] = asked[c] \cup {s}]
      \/ /\ subscribed' = [subscribed EXCEPT ![c] = subscribed[c] \ {s}]
         /\ asked' = [asked EXCEPT ![c] = asked[c] \ {s}]
  BY DEF Subscribe, Unsubscribe
<1>b. /\ asked \in [Clients -> SUBSET Sessions] /\ subscribed \in [Clients -> SUBSET Sessions]
      /\ asked[c] \subseteq subscribed[c]
  BY DEF Inv, ClientTypes, AskedStays
<1>2. /\ counted' \in [Clients -> [Sessions -> Nat]] /\ counted'[c][s] = 0 /\ HookCountsEnd'
      /\ \A d \in Clients, z \in Sessions :
           counted'[d][z] = 0 \/ counted'[d][z] = counted[d][z]
  BY <1>1, AdoptClients
<1>3. ClientTypes'
  <2>1. subscribed' \in [Clients -> SUBSET Sessions] /\ asked' \in [Clients -> SUBSET Sessions]
    <3>1. /\ subscribed[c] \cup {s} \in SUBSET Sessions /\ asked[c] \cup {s} \in SUBSET Sessions
          /\ subscribed[c] \ {s} \in SUBSET Sessions /\ asked[c] \ {s} \in SUBSET Sessions
      BY <1>b
    <3> QED
      BY <1>a, <1>b, <3>1
  <2>2. active' \in [Clients -> Sessions \cup {None}]
    BY <1>1 DEF Inv, ClientTypes
  <2> QED
    BY <1>1, <1>2, <2>1, <2>2 DEF Inv, ClientTypes
<1>4. AskedStays'
  <2>1. \A d \in Clients : d # c => asked'[d] = asked[d] /\ subscribed'[d] = subscribed[d]
    BY <1>a, <1>b
  <2>2. asked'[c] \subseteq subscribed'[c]
    <3>1. CASE /\ subscribed' = [subscribed EXCEPT ![c] = subscribed[c] \cup {s}]
               /\ asked' = [asked EXCEPT ![c] = asked[c] \cup {s}]
      BY <1>b, <3>1
    <3>2. CASE /\ subscribed' = [subscribed EXCEPT ![c] = subscribed[c] \ {s}]
               /\ asked' = [asked EXCEPT ![c] = asked[c] \ {s}]
      BY <1>b, <3>2
    <3> QED
      BY <1>a, <3>1, <3>2
  <2> QED
    BY <2>1, <2>2 DEF Inv, AskedStays
<1>5. AskedUncounted'
  <2>1. \A d \in Clients : asked'[d] \subseteq asked[d] \/ (d = c /\ asked'[d] = asked[d] \cup {s})
    BY <1>a, <1>b
  <2>2. \A d \in Clients : asked'[d] \subseteq Sessions
    BY <1>3 DEF ClientTypes
  <2> QED
    BY <1>2, <2>1, <2>2 DEF Inv, AskedUncounted
<1> QED
  BY <1>1, <1>2, <1>3, <1>4, <1>5, ClientStep

(* The end of a session releases everything routed to it at once. *)
LEMMA DestroySessionInv ==
  ASSUME Inv, NEW s \in Sessions, DestroySession(s)
  PROVE  Inv'
<1> DEFINE R == Routed(s)
<1>1. /\ alive' = alive \ {s} /\ prompts' = {r \in prompts : owner[r] # s}
      /\ held' = held \ R /\ paused' = paused \ R /\ Unregister(R, s)
      /\ UNCHANGED <<connected, active, asked, owner, settled>>
  BY DEF DestroySession, Routed
<1>2. prompts' = prompts \ R
  <2>1. \A r \in prompts : r \in R <=> owner[r] = s
    BY DEF Routed, Inv, Kinds, RoutesMatchRequests
  <2> QED
    BY <1>1, <2>1
<1>3. R \in SUBSET Routed(s)
  OBVIOUS
<1> HIDE DEF R
<1>4. /\ route' = Without(route, R)
      /\ ClientTypes' /\ AskedStays' /\ AskedUncounted' /\ HookCountsEnd'
  BY <1>1, <1>3, UnregisterClients
<1>5. RequestTypes' /\ Kinds' /\ RoutesMatchRequests'
  BY <1>1, <1>2, <1>4, EndRequests
<1>6. SettledTypes' /\ BoundStaysHome'
  BY <1>1 DEF Inv, SettledTypes, BoundStaysHome
<1> QED
  BY <1>4, <1>5, <1>6 DEF Inv

(* Taking every client off a session takes its choice and its count. *)
LEMMA RehomeInv ==
  ASSUME Inv, NEW s \in Sessions, Rehome(s)
  PROVE  Inv'
<1>1. /\ counted' = [c \in Clients |-> [counted[c] EXCEPT ![s] = 0]]
      /\ subscribed' = [c \in Clients |-> subscribed[c] \ {s}]
      /\ asked' = [c \in Clients |-> asked[c] \ {s}]
      /\ \E first \in alive \cup {None} :
           active' = [c \in Clients |-> IF active[c] = s THEN first ELSE active[c]]
      /\ UNCHANGED <<alive, connected, route, requests, settled>>
  BY DEF Rehome
<1>2. /\ counted' \in [Clients -> [Sessions -> Nat]]
      /\ \A d \in Clients, z \in Sessions :
           counted'[d][z] = 0 \/ counted'[d][z] = counted[d][z]
  BY <1>1 DEF Inv, ClientTypes
<1>3. ClientTypes'
  <2>1. active' \in [Clients -> Sessions \cup {None}]
    BY <1>1 DEF Inv, ClientTypes
  <2> QED
    BY <1>1, <1>2, <2>1 DEF Inv, ClientTypes
<1>4. AskedStays'
  BY <1>1 DEF Inv, AskedStays
<1>5. AskedUncounted'
  BY <1>1, <1>2, <1>3 DEF Inv, ClientTypes, AskedUncounted
<1>6. HookCountsEnd'
  BY <1>1, <1>2, CountsFall
<1> QED
  BY <1>1, <1>3, <1>4, <1>5, <1>6, ClientStep

(* Every step keeps the invariant. *)
LEMMA NextInv == Inv /\ [Next]_vars => Inv'
<1> SUFFICES ASSUME Inv, [Next]_vars PROVE Inv'
  OBVIOUS
<1>1. ASSUME NEW r \in Requests, NEW s \in Sessions \cup {None}, Ask(r, s) \/ AskByHook(r, s)
      PROVE  Inv'
  BY <1>1, AskInv
<1>2. ASSUME NEW r \in Requests, NEW s \in Sessions \cup {None}, AnswerByHttp(r, s)
      PROVE  Inv'
  BY <1>2, ResolveInv DEF AnswerByHttp
<1>3. ASSUME NEW r \in Requests, Lapse(r) PROVE Inv'
  BY <1>3, LapseInv
<1>4. ASSUME NEW r \in Requests, NEW c \in Clients, Answer(c, r) PROVE Inv'
  <2>1. Bound[c] \in Sessions \cup {None}
    OBVIOUS
  <2>2. r \in DOMAIN owner /\ Resolve(r, Bound[c], active[c])
    BY <1>4 DEF Answer
  <2> QED
    BY <2>1, <2>2, ResolveInv
<1>5. ASSUME NEW c \in Clients, Connect(c) \/ Disconnect(c) PROVE Inv'
  BY <1>5, ConnectInv, DisconnectInv
<1>6. ASSUME NEW c \in Clients, NEW s \in Sessions, Subscribe(c, s) \/ Unsubscribe(c, s)
      PROVE  Inv'
  BY <1>6, SubscribeInv
<1>7. ASSUME NEW s \in Sessions, DestroySession(s) \/ Rehome(s) PROVE Inv'
  BY <1>7, DestroySessionInv, RehomeInv
<1>8. CASE UNCHANGED vars
  BY <1>8 DEF vars, clients, requests, Inv, ClientTypes, RequestTypes, SettledTypes, Kinds,
              RoutesMatchRequests, BoundStaysHome, AskedStays, AskedUncounted, HookCountsEnd
<1> QED
  BY <1>1, <1>2, <1>3, <1>4, <1>5, <1>6, <1>7, <1>8 DEF Next
-----------------------------------------------------------------------------
(* The maps, counts and histories stay of their types; no count of the     *)
(* subscriptions ever goes below zero.                                     *)
THEOREM Types == Spec => []TypeOK
<1>1. Inv => TypeOK
  BY DEF Inv, ClientTypes, RequestTypes, SettledTypes, TypeOK
<1> QED
  BY <1>1, InitInv, NextInv, PTL DEF Spec

(* The routing map holds exactly the waiting requests that have a session, *)
(* each at that session, and the clock of a hook session is paused for     *)
(* exactly its waiting ones.                                               *)
THEOREM RoutesAreRequests == Spec => []RoutesMatchRequests
<1>1. Inv => RoutesMatchRequests
  BY DEF Inv
<1> QED
  BY <1>1, InitInv, NextInv, PTL DEF Spec

(* A bound token settles requests of its own session only, over WebSocket  *)
(* and over HTTP.                                                          *)
THEOREM BindingHolds == Spec => []BoundStaysHome
<1>1. Inv => BoundStaysHome
  BY DEF Inv
<1> QED
  BY <1>1, InitInv, NextInv, PTL DEF Spec

(* A chosen subscription survives any registering and releasing, and one   *)
(* induced by a hook session's requests ends with the last of them.        *)
THEOREM SubscriptionsAreRight == Spec => []SubscriptionsFollow
<1>1. Inv => SubscriptionsFollow
  BY DEF Inv, SubscriptionsFollow
<1> QED
  BY <1>1, InitInv, NextInv, PTL DEF Spec
-----------------------------------------------------------------------------
(* Implementation of PermissionDesk.                                       *)

(* What was answered no longer waits. *)
AnsweredIsOver == DOMAIN settled \cap (prompts \cup held) = {}

(* A step that makes a request, with an owner and no answer. *)
LEMMA DeskAsk ==
  ASSUME Inv, AnsweredIsOver, NEW r \in Requests, NEW s, Ask(r, s) \/ AskByHook(r, s)
  PROVE  AnsweredIsOver' /\ Desk!Next
<1>1. /\ r \notin DOMAIN owner /\ s \in Sessions \cup {None}
      /\ owner' = [q \in DOMAIN owner \cup {r} |-> IF q = r THEN s ELSE owner[q]]
      /\ prompts' \cup held' = prompts \cup held \cup {r}
      /\ UNCHANGED settled
  BY DEF Ask, AskByHook, Inv, ClientTypes
<1>2. DOMAIN owner' = DOMAIN owner \cup {r}
  BY <1>1
<1>3. r \notin DOMAIN settled /\ r \notin prompts \cup held
  BY <1>1 DEF Inv, RequestTypes, SettledTypes
<1>4. AnsweredIsOver'
  BY <1>1, <1>3 DEF AnsweredIsOver
<1>5. DeskOf(r) = "new" /\ DeskOf(r)' = "waiting"
  <2>1. r \in DOMAIN owner' /\ r \in prompts' \cup held'
    BY <1>1, <1>2
  <2>2. DeskOf(r) = "new"
    BY <1>1, <1>3 DEF DeskOf
  <2>3. DeskOf(r)' = "waiting"
    BY <2>1 DEF DeskOf
  <2> QED
    BY <2>2, <2>3
<1>6. \A q \in Requests : q # r => DeskOf(q)' = DeskOf(q)
  BY <1>1, <1>2 DEF DeskOf
<1>7. Desk!Ask(r, s)
  BY <1>1, <1>5, <1>6 DEF Desk!Ask, Desk!With
<1> QED
  BY <1>1, <1>4, <1>7 DEF Desk!Next

(* A step that ends waiting requests without an answer, or none. *)
LEMMA DeskLapse ==
  ASSUME Inv, AnsweredIsOver, prompts' \cup held' \subseteq prompts \cup held,
         UNCHANGED <<owner, settled>>
  PROVE  AnsweredIsOver' /\ Desk!Next
<1>1. AnsweredIsOver'
  BY DEF AnsweredIsOver
<1> DEFINE S == (prompts \cup held) \ (prompts' \cup held')
<1>2. S \subseteq DOMAIN owner /\ S \subseteq Requests /\ S \cap DOMAIN settled = {}
  BY DEF Inv, RequestTypes, AnsweredIsOver
<1>3. \A q \in S : DeskOf(q) = "waiting" /\ DeskOf(q)' = "lapsed"
  BY <1>2 DEF DeskOf
<1>4. \A q \in Requests \ S : DeskOf(q)' = DeskOf(q)
  BY DEF DeskOf
<1>5. S \in SUBSET Desk!Waiting
  BY <1>2, <1>3 DEF Desk!Waiting
<1>6. [q \in Requests |-> DeskOf(q)]'
        = [q \in Requests |-> IF q \in S THEN "lapsed" ELSE [z \in Requests |-> DeskOf(z)][q]]
  BY <1>3, <1>4
<1> HIDE DEF S
<1>7. Desk!Lapse
  BY <1>5, <1>6 DEF Desk!Lapse
<1> QED
  BY <1>1, <1>7 DEF Desk!Next

(* One request ends, and no other. *)
LEMMA WaitingFalls ==
  ASSUME Inv, NEW r, (r \in prompts /\ EndPrompt(r)) \/ (r \in held /\ EndHeld(r))
  PROVE  /\ r \in prompts \cup held
         /\ prompts' \cup held' = (prompts \cup held) \ {r}
<1>1. r \notin prompts \/ r \notin held
  BY DEF Inv, Kinds
<1> QED
  BY <1>1 DEF EndPrompt, EndHeld

(* An answer that finds its request ends it for good; it comes from an     *)
(* unbound caller or from one bound to the owner, to which the map routes. *)
LEMMA DeskAnswer ==
  ASSUME Inv, AnsweredIsOver, NEW r \in DOMAIN owner, NEW binding \in Sessions \cup {None},
         NEW fallback, Resolve(r, binding, fallback)
  PROVE  AnsweredIsOver' /\ Desk!Next
<1> DEFINE origin == Origin(r, fallback)
           dispatched == origin \in alive \cap InProcess
           found == IF dispatched THEN r \in prompts /\ owner[r] = origin ELSE r \in held
<1>1. /\ binding \in {None, Mapped(r)}
      /\ \/ dispatched /\ found /\ EndPrompt(r)
         \/ dispatched /\ ~found /\ UNCHANGED <<prompts, held>>
         \/ ~dispatched /\ found /\ EndHeld(r)
      /\ settled' = IF found
                    THEN [q \in DOMAIN settled \cup {r} |-> IF q = r THEN binding ELSE settled[q]]
                    ELSE settled
      /\ UNCHANGED owner
  BY DEF Resolve, MayResolve
<1>2. CASE ~found
  BY <1>1, <1>2, DeskLapse
<1>3. CASE found
  <2>1. (r \in prompts /\ EndPrompt(r)) \/ (r \in held /\ EndHeld(r))
    BY <1>1, <1>3
  <2>2. settled' = [q \in DOMAIN settled \cup {r} |-> IF q = r THEN binding ELSE settled[q]]
    BY <1>1, <1>3
  <2> HIDE DEF found, dispatched, origin
  <2>3. r \in prompts \cup held /\ prompts' \cup held' = (prompts \cup held) \ {r}
    BY <2>1, WaitingFalls
  <2>4. DOMAIN settled' = DOMAIN settled \cup {r}
    BY <2>2
  <2>5. AnsweredIsOver'
    BY <2>3, <2>4 DEF AnsweredIsOver
  <2>6. DeskOf(r) = "waiting" /\ DeskOf(r)' = "answered"
    BY <1>1, <2>3, <2>4 DEF DeskOf
  <2>7. \A q \in Requests : q # r => DeskOf(q)' = DeskOf(q)
    BY <1>1, <2>3, <2>4 DEF DeskOf
  <2>8. binding \in {None, owner[r]} /\ r \in Requests
    BY <1>1 DEF Mapped, Inv, RoutesMatchRequests, RequestTypes
  <2>9. Desk!Answer(r, binding)
    BY <1>1, <2>2, <2>6, <2>7, <2>8 DEF Desk!Answer, Desk!With
  <2> QED
    BY <2>5, <2>8, <2>9 DEF Desk!Next
<1> QED
  BY <1>2, <1>3

(* Every step is one of the desk or none. *)
LEMMA DeskStep ==
  ASSUME Inv, AnsweredIsOver, [Next]_vars
  PROVE  AnsweredIsOver' /\ Desk!Next
<1>1. ASSUME NEW r \in Requests, NEW s \in Sessions \cup {None}, Ask(r, s) \/ AskByHook(r, s)
      PROVE  AnsweredIsOver' /\ Desk!Next
  BY <1>1, DeskAsk
<1>2. ASSUME NEW r \in Requests, NEW s \in Sessions \cup {None}, AnswerByHttp(r, s)
      PROVE  AnsweredIsOver' /\ Desk!Next
  BY <1>2, DeskAnswer DEF AnswerByHttp
<1>3. ASSUME NEW r \in Requests, Lapse(r)
      PROVE  AnsweredIsOver' /\ Desk!Next
  <2>1. prompts' \cup held' \subseteq prompts \cup held /\ UNCHANGED <<owner, settled>>
    BY <1>3, WaitingFalls DEF Lapse
  <2> QED
    BY <2>1, DeskLapse
<1>4. ASSUME NEW r \in Requests, NEW c \in Clients, Answer(c, r)
      PROVE  AnsweredIsOver' /\ Desk!Next
  <2>1. Bound[c] \in Sessions \cup {None}
    OBVIOUS
  <2>2. r \in DOMAIN owner /\ Resolve(r, Bound[c], active[c])
    BY <1>4 DEF Answer
  <2> QED
    BY <2>1, <2>2, DeskAnswer
<1>5. ASSUME UNCHANGED <<requests, settled>>
      PROVE  AnsweredIsOver' /\ Desk!Next
  BY <1>5, DeskLapse DEF requests
<1>8. ASSUME NEW c \in Clients, Connect(c) \/ Disconnect(c)
      PROVE  AnsweredIsOver' /\ Desk!Next
  BY <1>5, <1>8 DEF Connect, Disconnect
<1>9. ASSUME NEW c \in Clients, NEW s \in Sessions, Subscribe(c, s) \/ Unsubscribe(c, s)
      PROVE  AnsweredIsOver' /\ Desk!Next
  BY <1>5, <1>9 DEF Subscribe, Unsubscribe
<1>10. ASSUME NEW s \in Sessions, Rehome(s)
       PROVE  AnsweredIsOver' /\ Desk!Next
  BY <1>5, <1>10 DEF Rehome
<1>6. ASSUME NEW s \in Sessions, DestroySession(s)
      PROVE  AnsweredIsOver' /\ Desk!Next
  <2>1. prompts' \cup held' \subseteq prompts \cup held /\ UNCHANGED <<owner, settled>>
    BY <1>6 DEF DestroySession
  <2> QED
    BY <2>1, DeskLapse
<1>7. CASE UNCHANGED vars
  BY <1>5, <1>7 DEF vars
<1> QED
  BY <1>1, <1>2, <1>3, <1>4, <1>6, <1>7, <1>8, <1>9, <1>10 DEF Next

(* Whatever answers, lapses, connects or is destroyed meanwhile, a request *)
(* is answered at most once, by a caller who may, and what has ended never *)
(* waits again (createPermissionResolver, cleanup and the manager agree).  *)
THEOREM ImplementsDesk == Spec => DeskSpec
<1>1. Init => AnsweredIsOver /\ Desk!Init
  <2> SUFFICES ASSUME Init PROVE AnsweredIsOver /\ Desk!Init
    OBVIOUS
  <2>1. \A r : DeskOf(r) = "new"
    BY DEF Init, Empty, DeskOf
  <2> QED
    BY <2>1 DEF Init, Empty, AnsweredIsOver, Desk!Init
<1>2. Inv /\ AnsweredIsOver /\ [Next]_vars => AnsweredIsOver' /\ [Desk!Next]_(Desk!vars)
  BY DeskStep
<1> QED
  BY <1>1, <1>2, InitInv, NextInv, PTL DEF Spec, DeskSpec, Desk!Spec
=============================================================================
