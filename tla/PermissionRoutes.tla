-------------------------- MODULE PermissionRoutes --------------------------
(***************************************************************************)
(* Who may answer a permission request, and what the answer releases: the  *)
(* routing map and the subscriptions it induces (ws-server.js              *)
(* _registerPermissionRoute and its counterpart), requests held by the     *)
(* hook's POST /permission (ws-permissions.js), the shared resolver        *)
(* (permission-resolver.js) behind a WebSocket answer                      *)
(* (handlers/settings-handlers.js) and an HTTP one, and the pruning of the *)
(* map on permission_resolved (ws-forwarding.js, event-normalizer.js).     *)
(*                                                                         *)
(* A session either answers in process (it has respondToPermission, its    *)
(* prompts live in a PermissionManager) or through the hook, whose request *)
(* is an HTTP response held open.  A hook request is attributed to the     *)
(* session whose secret it presents; it has no owner when there is none or *)
(* the session is just being destroyed.                                    *)
(***************************************************************************)
EXTENDS Integers, FiniteSets, Functions

CONSTANTS
  Sessions,
  InProcess,   \* sessions with respondToPermission
  Clients,
  Bound,       \* the session each client's token is bound to, or None
  Requests,    \* bound: request ids
  None

ASSUME PermissionRoutesAssumption ==
  /\ None \notin Sessions /\ InProcess \subseteq Sessions
  /\ Bound \in [Clients -> Sessions \cup {None}]
  /\ IsFiniteSet(Requests)

VARIABLES
  alive,       \* sessions getSession() returns
  connected,   \* authenticated clients
  active,      \* activeSessionId of each client
  subscribed,  \* subscribedSessionIds
  counted,     \* _permissionSubs: client -> session -> refcount
  route,       \* permissionSessionMap
  prompts,     \* requests in some PermissionManager's _pendingPermissions
  held,        \* pendingPermissions: hook requests whose response is held
  paused,      \* requests that pause their session's inactivity timer
  owner,       \* history: the session each request was attributed to
  asked,       \* history: sessions a client itself chose to watch
  settled      \* history: request -> binding of the caller that answered it

clients == <<connected, active, subscribed, counted, asked>>
requests == <<prompts, held, paused, owner>>
vars == <<alive, clients, route, requests, settled>>

Without(f, S) == Restrict(f, DOMAIN f \ S)
Empty == [x \in {} |-> None]
Eligible(c, s) == Bound[c] \in {None, s}
IsSessionViewer(c, s) == active[c] = s \/ s \in subscribed[c]
----------------------------------------------------------------------------
Init ==
  /\ alive = Sessions /\ connected = {}
  /\ active = [c \in Clients |-> None] /\ subscribed = [c \in Clients |-> {}]
  /\ counted = [c \in Clients |-> [s \in Sessions |-> 0]]
  /\ route = Empty /\ prompts = {} /\ held = {} /\ paused = {}
  /\ owner = Empty /\ asked = [c \in Clients |-> {}] /\ settled = Empty

(* _registerPermissionRoute for a new request: every eligible client is    *)
(* subscribed, and counted unless it asked for the session before, which   *)
(* the code tells by a subscription without a count.                       *)
Register(r, s) ==
  /\ route' = [q \in DOMAIN route \cup {r} |-> IF q = r THEN s ELSE route[q]]
  /\ subscribed' = [c \in Clients |->
       IF c \in connected /\ Eligible(c, s) THEN subscribed[c] \cup {s} ELSE subscribed[c]]
  /\ counted' = [c \in Clients |->
       IF c \in connected /\ Eligible(c, s) /\ ~(s \in subscribed[c] /\ counted[c][s] = 0)
       THEN [counted[c] EXCEPT ![s] = @ + 1] ELSE counted[c]]

(* Mutant: a count is taken from clients that never got one.               *)
UnregisterBlindly(R, s) ==
  LET n == Cardinality(R \cap DOMAIN route)
  IN  /\ route' = Without(route, R)
      /\ counted' = [c \in Clients |-> [counted[c] EXCEPT ![s] = @ - n]]
      /\ subscribed' = [c \in Clients |->
           IF counted[c][s] = n /\ active[c] # s THEN subscribed[c] \ {s} ELSE subscribed[c]]

(* _unregisterPermissionRoute for the requests R of session s, one by one: *)
(* every client that holds a count loses one per request, whichever        *)
(* request it was counted for; at zero it is unsubscribed unless active.   *)
Unregister(R, s) ==
  LET n == Cardinality(R \cap DOMAIN route)
      Ends(c) == counted[c][s] \in 1..n
  IN  /\ route' = Without(route, R)
      /\ counted' = [c \in Clients |->
           [counted[c] EXCEPT ![s] = IF @ > n THEN @ - n ELSE IF n > 0 THEN 0 ELSE @]]
      /\ subscribed' = [c \in Clients |->
           IF Ends(c) /\ active[c] # s THEN subscribed[c] \ {s} ELSE subscribed[c]]

UnregisterOne(r) ==
  IF r \in DOMAIN route THEN Unregister({r}, route[r])
  ELSE UNCHANGED <<route, counted, subscribed>>

(* An in-process session asks; wirePermissionManager, the normalizer and   *)
(* ws-forwarding register the route in the same step.                      *)
Ask(r, s) ==
  /\ r \notin DOMAIN owner /\ s \in alive \cap InProcess
  /\ prompts' = prompts \cup {r}
  /\ owner' = [q \in DOMAIN owner \cup {r} |-> IF q = r THEN s ELSE owner[q]]
  /\ Register(r, s)
  /\ UNCHANGED <<alive, connected, active, asked, held, paused, settled>>

(* POST /permission by the hook of session s, or of none.                  *)
AskByHook(r, s) ==
  /\ r \notin DOMAIN owner /\ s \in (alive \ InProcess) \cup {None}
  /\ held' = held \cup {r}
  /\ owner' = [q \in DOMAIN owner \cup {r} |-> IF q = r THEN s ELSE owner[q]]
  /\ IF s = None THEN UNCHANGED <<paused, route, subscribed, counted>>
     ELSE paused' = paused \cup {r} /\ Register(r, s)
  /\ UNCHANGED <<alive, connected, active, asked, prompts, settled>>

(* The PermissionManager ends a prompt; its permission_resolved event      *)
(* makes ws-forwarding delete the map entry, and only that.                *)
EndPrompt(r) ==
  /\ prompts' = prompts \ {r}
  /\ route' = Without(route, {r})
  /\ UNCHANGED <<held, paused, subscribed, counted>>

(* Mutant: the map entry and the counts of a held request stay behind.     *)
EndHeldKeepingRoute(r) ==
  /\ held' = held \ {r} /\ paused' = paused \ {r}
  /\ UNCHANGED <<prompts, route, subscribed, counted>>

(* cleanup() of a held request.                                            *)
EndHeld(r) ==
  /\ held' = held \ {r} /\ paused' = paused \ {r}
  /\ UnregisterOne(r)
  /\ UNCHANGED prompts

(* Timeout, abort or clear of a prompt; timeout of a held request or loss  *)
(* of its connection.                                                      *)
Lapse(r) ==
  /\ \/ r \in prompts /\ EndPrompt(r)
     \/ r \in held /\ EndHeld(r)
  /\ UNCHANGED <<alive, connected, active, asked, owner, settled>>

(* resolveOriginSessionId: where an answer is dispatched to.               *)
Mapped(r) == IF r \in DOMAIN route THEN route[r] ELSE None
Origin(r, fallback) == IF Mapped(r) # None THEN Mapped(r) ELSE fallback

(* Mutant: the binding is checked against the session dispatched to.       *)
MayResolveByOrigin(r, binding, fallback) == binding \in {None, Origin(r, fallback)}

(* The binding is checked against the map alone: the fallback serves the   *)
(* dispatch only.                                                          *)
MayResolve(r, binding, fallback) == binding \in {None, Mapped(r)}

(* createPermissionResolver().resolve.  respondToPermission finds a prompt *)
(* only in the manager of the session it is asked of.                      *)
Resolve(r, binding, fallback) ==
  LET origin == Origin(r, fallback)
      dispatched == origin \in alive \cap InProcess
      found == IF dispatched THEN r \in prompts /\ owner[r] = origin ELSE r \in held
  IN  /\ MayResolve(r, binding, fallback)
      /\ \/ dispatched /\ found /\ EndPrompt(r)
         \/ dispatched /\ ~found /\ UnregisterOne(r) /\ UNCHANGED <<prompts, held, paused>>
         \/ ~dispatched /\ found /\ EndHeld(r)
      /\ settled' = IF found
                    THEN [q \in DOMAIN settled \cup {r} |-> IF q = r THEN binding ELSE settled[q]]
                    ELSE settled
  /\ UNCHANGED <<alive, connected, active, asked, owner>>

(* permission_response over WebSocket: an unbound client must be a viewer  *)
(* of the session the answer would go to.                                  *)
Answer(c, r) ==
  /\ c \in connected /\ r \in DOMAIN owner
  /\ LET origin == Origin(r, active[c])
     IN  Bound[c] # None \/ origin = None \/ IsSessionViewer(c, origin)
  /\ Resolve(r, Bound[c], active[c])

(* POST /permission-response, by a bound token or the primary one.         *)
AnswerByHttp(r, binding) == r \in DOMAIN owner /\ Resolve(r, binding, None)

(* Post-auth: a bound client views its session or nothing, any other some  *)
(* session if there is one.  Then resendPendingPermissions registers the   *)
(* route of every prompt again: it is known, so clients are subscribed and *)
(* nobody is counted.                                                      *)
Connect(c) ==
  /\ c \notin connected /\ connected' = connected \cup {c}
  /\ \E s \in IF Bound[c] # None THEN alive \cap {Bound[c]} ELSE alive :
          active' = [active EXCEPT ![c] = s]
     \/ /\ Bound[c] \notin alive /\ (Bound[c] = None => alive = {})
        /\ UNCHANGED active
  /\ subscribed' = [d \in Clients |->
       IF d \in connected'
       THEN subscribed[d] \cup {s \in {owner[r] : r \in prompts} : Eligible(d, s)}
       ELSE subscribed[d]]
  /\ UNCHANGED <<alive, counted, asked, route, requests, settled>>

Disconnect(c) ==
  /\ c \in connected /\ connected' = connected \ {c}
  /\ active' = [active EXCEPT ![c] = None]
  /\ subscribed' = [subscribed EXCEPT ![c] = {}]
  /\ counted' = [counted EXCEPT ![c] = [s \in Sessions |-> 0]]
  /\ asked' = [asked EXCEPT ![c] = {}]
  /\ UNCHANGED <<alive, route, requests, settled>>

(* Mutant: the count outlives the choice to watch the session.             *)
AdoptNothing(c, s) == UNCHANGED counted

(* switch_session and subscribe_sessions adopt the subscription: the count *)
(* is dropped.  So does an explicit unsubscribe.                           *)
Adopt(c, s) == counted' = [counted EXCEPT ![c][s] = 0]

Subscribe(c, s) ==
  /\ c \in connected /\ s \in alive /\ Eligible(c, s)
  /\ Adopt(c, s)
  /\ subscribed' = [subscribed EXCEPT ![c] = @ \cup {s}]
  /\ asked' = [asked EXCEPT ![c] = @ \cup {s}]
  /\ \/ active' = [active EXCEPT ![c] = s]
     \/ UNCHANGED active
  /\ UNCHANGED <<alive, connected, route, requests, settled>>

Unsubscribe(c, s) ==
  /\ c \in connected /\ active[c] # s
  /\ Adopt(c, s)
  /\ subscribed' = [subscribed EXCEPT ![c] = @ \ {s}]
  /\ asked' = [asked EXCEPT ![c] = @ \ {s}]
  /\ UNCHANGED <<alive, connected, active, route, requests, settled>>

(* The session is destroyed: its listeners are gone before its prompts are *)
(* cleared, so no event prunes the map; the session_destroyed handler      *)
(* denies what the session's hook holds and sweeps the rest.               *)
DestroySession(s) ==
  LET R == {r \in DOMAIN route : route[r] = s}
  IN  /\ s \in alive /\ alive' = alive \ {s}
      /\ prompts' = {r \in prompts : owner[r] # s}
      /\ held' = held \ R /\ paused' = paused \ R
      /\ Unregister(R, s)
      /\ UNCHANGED <<connected, active, asked, owner, settled>>

(* After destroy_session the handler takes every client off the session    *)
(* and sends its viewers to the first one left.                            *)
Rehome(s) ==
  /\ s \notin alive
  /\ counted' = [c \in Clients |-> [counted[c] EXCEPT ![s] = 0]]
  /\ subscribed' = [c \in Clients |-> subscribed[c] \ {s}]
  /\ asked' = [c \in Clients |-> asked[c] \ {s}]
  /\ \E first \in IF alive = {} THEN {None} ELSE alive :
       active' = [c \in Clients |-> IF active[c] = s THEN first ELSE active[c]]
  /\ UNCHANGED <<alive, connected, route, requests, settled>>

Next ==
  \/ \E r \in Requests :
       \/ \E s \in Sessions \cup {None} : Ask(r, s) \/ AskByHook(r, s) \/ AnswerByHttp(r, s)
       \/ Lapse(r)
       \/ \E c \in Clients : Answer(c, r)
  \/ \E c \in Clients :
       \/ Connect(c) \/ Disconnect(c)
       \/ \E s \in Sessions : Subscribe(c, s) \/ Unsubscribe(c, s)
  \/ \E s \in Sessions : DestroySession(s) \/ Rehome(s)

Spec == Init /\ [][Next]_vars
----------------------------------------------------------------------------
(* The types of the variables; only a known request is routed or settled.  *)
TypeOK ==
  /\ alive \subseteq Sessions /\ connected \subseteq Clients
  /\ active \in [Clients -> Sessions \cup {None}]
  /\ subscribed \in [Clients -> SUBSET Sessions] /\ asked \in [Clients -> SUBSET Sessions]
  /\ counted \in [Clients -> [Sessions -> Nat]]
  /\ DOMAIN owner \subseteq Requests /\ owner \in [DOMAIN owner -> Sessions \cup {None}]
  /\ DOMAIN route \subseteq DOMAIN owner /\ route \in [DOMAIN route -> Sessions]
  /\ prompts \subseteq DOMAIN owner /\ held \subseteq DOMAIN owner /\ paused \subseteq held
  /\ DOMAIN settled \subseteq DOMAIN owner
  /\ settled \in [DOMAIN settled -> Sessions \cup {None}]

(* Every request that waits and has an owner is routed to it, so a bound   *)
(* device can answer it; nothing else is routed, and the inactivity clock  *)
(* of a hook session stands still for exactly its waiting requests.  So a  *)
(* request is released once, whichever of answer, timeout, lost            *)
(* connection and end of the session comes first.                          *)
RoutesMatchRequests ==
  /\ DOMAIN route = {r \in prompts \cup held : owner[r] # None}
  /\ \A r \in DOMAIN route : route[r] = owner[r]
  /\ paused = {r \in held : owner[r] # None}

(* A caller whose token is bound to a session only ever settled requests   *)
(* of that session, whatever the map held when it answered.                *)
BoundStaysHome == \A r \in DOMAIN settled : settled[r] \in {None, owner[r]}

(* A client that chose to watch a session keeps its subscription, however  *)
(* many requests of that session are registered and released meanwhile.    *)
AskedStays == \A c \in Clients : asked[c] \subseteq subscribed[c]

(* A client never holds more counts on a hook session than requests of it  *)
(* wait, so the subscription they induced does not outlive the last one.   *)
(* This is not so of an in-process session, whose prompts take their map   *)
(* entry with them and leave the count.                                    *)
HookCountsEnd ==
  \A c \in Clients, s \in Sessions \ InProcess :
    counted[c][s] <= Cardinality({r \in DOMAIN route : route[r] = s})

(* A client stays subscribed for as long as it has a reason to be, and the *)
(* requests of a hook session give it one only while they wait.            *)
SubscriptionsFollow == AskedStays /\ HookCountsEnd

(* What becomes of a request, however many maps and managers know of it.   *)
DeskOf(r) == CASE r \notin DOMAIN owner -> "new"
               [] r \in prompts \cup held -> "waiting"
               [] r \in DOMAIN settled \ (prompts \cup held) -> "answered"
               [] OTHER -> "lapsed"

(* Implementation of PermissionDesk: over WebSocket and HTTP, mapped or    *)
(* not, a request is answered once, by a caller who may, and whichever of  *)
(* answer, timeout, lost connection and end of the session comes first     *)
(* ends it for good.                                                       *)
Desk == INSTANCE PermissionDesk WITH desk <- [r \in Requests |-> DeskOf(r)]

DeskSpec == Desk!Spec
============================================================================
