------------------------- MODULE PermissionManager -------------------------
(***************************************************************************)
(* packages/server/src/permission-manager.js, with the parts of            *)
(* permission-floor.js, permission-rule-store.js, base-session.js and      *)
(* handlers/settings-handlers.js that change its state.                    *)
(*                                                                         *)
(* One session's permission manager answers the agent's canUseTool calls.  *)
(* A call is decided at once (by the mode, a rule or the cap) or becomes a *)
(* prompt, which ends with a user's answer, its timer, the abort of its    *)
(* signal, a switch to auto mode or the end of the turn, in any order.     *)
(* The code runs on one thread, so a handler is one action.                *)
(***************************************************************************)
EXTENDS Naturals, Sequences, FiniteSets

CONSTANTS
  ToolCalls,        \* calls of handlePermission for an ordinary tool
  TrustCalls,       \* calls of requestMcpTrust
  RemoteTrustCalls, \* those whose server has a url: its host is resolved first
  Questions,        \* calls of handlePermission for AskUserQuestion
  NoCall,
  ToolNames,        \* names that tools have
  Tool,             \* [ToolCalls -> ToolNames]
  Targets,          \* [ToolCalls -> set of paths the input names]
  Paths,
  ProtectedPaths,   \* paths of the write floor (config dirs and secrets)
  SecretPaths,      \* paths of the read floor (secrets)
  SignalOf,         \* the abort signal handed over with each tool call and question
  NoScope,          \* the scope of a rule without a path
  RuleLists,        \* the rule lists a client may send
  MaxPendingPermissions,
  MaxSessionRules,
  MaxRulesPerProject,
  QuestionsOverlap, \* may a question arrive while another one waits?
  MaxChanges        \* bound on mode and rule changes

Calls == ToolCalls \cup TrustCalls \cup Questions
Signals == {SignalOf[c] : c \in ToolCalls \cup Questions}

ASSUME CallsAssumption ==
  /\ ToolCalls \cap TrustCalls = {}
  /\ ToolCalls \cap Questions = {}
  /\ TrustCalls \cap Questions = {}
  /\ RemoteTrustCalls \subseteq TrustCalls
  /\ NoCall \notin Calls

ASSUME LimitsAssumption ==
  /\ MaxPendingPermissions \in Nat \ {0}
  /\ MaxSessionRules \in Nat
  /\ MaxRulesPerProject \in Nat \ {0}
  /\ QuestionsOverlap \in BOOLEAN
  /\ MaxChanges \in Nat

ASSUME FloorAssumption ==
  /\ SecretPaths \subseteq ProtectedPaths
  /\ ProtectedPaths \subseteq Paths

Modes == {"approve", "acceptEdits", "auto", "plan"}
Decisions == {"allow", "deny"}

AcceptEditsTools ==
  {"Read", "Write", "Edit", "NotebookEdit", "Glob", "Grep", "apply_patch"}
EligibleTools ==
  {"Read", "Write", "Edit", "NotebookEdit", "Glob", "Grep", "apply_patch"}
SecretReadFloorTools == {"Read", "Glob", "Grep"}

VARIABLES
  permissionMode,       \* the session's mode
  isBusy,               \* is a turn running?
  sessionRules,         \* rules of the session, first match first
  persistentRules,      \* the session's copy of the project's rules
  storeRules,           \* the project's rules in the store, on disk
  changes,              \* mode and rule changes so far (MaxChanges)
  pendingPermissions,   \* calls waiting for respondToPermission
  permissionTimers,     \* calls whose timer is armed
  lastPermissionData,   \* calls whose payload is kept for re-sending
  resolving,            \* remote trust calls awaiting the host lookup
  pendingUserAnswer,    \* the one question that can be answered, or NoCall
  questionTimer,        \* the question whose timer the handle names, or NoCall
  liveQuestionTimers,   \* questions whose timeout will still fire
  waitingForAnswer,
  asked,                \* questions in the order their abort listeners were added
  aborted,              \* signals that were aborted
  decision,             \* what each call's promise resolved to
  announced,            \* calls a client was shown
  answered,             \* calls a user answered
  told                  \* permission_resolved events per call

policyVars == <<permissionMode, isBusy, sessionRules, persistentRules, storeRules, changes>>
mapVars == <<pendingPermissions, permissionTimers, lastPermissionData>>
questionVars == <<pendingUserAnswer, questionTimer, liveQuestionTimers, waitingForAnswer>>
vars == <<policyVars, mapVars, questionVars, resolving, asked, aborted,
          decision, announced, answered, told>>
----------------------------------------------------------------------------
(* Rules and the protected-path floor.                                     *)

Rule == [tool : ToolNames, decision : Decisions, scope : (SUBSET Paths) \cup {NoScope}]

(* Messages are parsed before they get here. *)
ASSUME RulesAssumption ==
  /\ EligibleTools \subseteq ToolNames
  /\ RuleLists \subseteq Seq(Rule)

IsFlooredTarget(c) ==
  LET floor == IF Tool[c] \in SecretReadFloorTools THEN SecretPaths ELSE ProtectedPaths
  IN  Targets[c] \cap floor # {}

RuleScopeMatches(rule, c) ==
  \/ rule.scope = NoScope
  \/ Targets[c] # {} /\ Targets[c] \subseteq rule.scope

(* Session rules are consulted before the project's; the first match wins. *)
MatchesRule(c) ==
  LET rules == sessionRules \o persistentRules
      hits  == {i \in DOMAIN rules :
                  rules[i].tool = Tool[c] /\ RuleScopeMatches(rules[i], c)}
  IN  IF hits = {} THEN "none"
      ELSE rules[CHOOSE i \in hits : \A j \in hits : i <= j].decision

SameKey(r, s) == r.tool = s.tool /\ r.scope = s.scope

(* The rules with another key, in their order. *)
Others(rules, rule) ==
  LET kept[i \in 0 .. Len(rules)] ==
        IF i = 0 THEN <<>>
        ELSE IF SameKey(rules[i], rule) THEN kept[i - 1] ELSE Append(kept[i - 1], rules[i])
  IN  kept[Len(rules)]

(* PermissionRuleStore.addRule: refuse, or replace the rule with this key.  *)
AcceptsRule(rules, rule) ==
  /\ rule.decision = "deny" \/ rule.tool \in EligibleTools
  /\ Len(rules) < MaxRulesPerProject \/ Len(Others(rules, rule)) < Len(rules)

AddRule(rules, rule) == Append(Others(rules, rule), rule)

(* PermissionRuleStore.setRules: what may not be persisted is dropped, a   *)
(* later rule takes the place of one with its key, and the list is capped. *)
KeepRule(kept, rule) ==
  LET same == {i \in DOMAIN kept : SameKey(kept[i], rule)}
  IN  IF \/ rule.decision = "allow" /\ rule.tool \notin EligibleTools
         \/ Len(kept) >= MaxRulesPerProject
      THEN kept
      ELSE IF same = {} THEN Append(kept, rule)
      ELSE [kept EXCEPT ![CHOOSE i \in same : TRUE] = rule]

StoredRules(rules) ==
  LET kept[i \in 0 .. Len(rules)] ==
        IF i = 0 THEN <<>> ELSE KeepRule(kept[i - 1], rules[i])
  IN  kept[Len(rules)]
----------------------------------------------------------------------------
(* Promises and events.                                                    *)

Fresh(c) == decision[c] = "none" /\ c \notin announced /\ c \notin resolving

Waiting(c) == decision[c] = "none" /\ c \in announced

(* A promise keeps the first value it is resolved with. *)
Settle(allowed, denied) ==
  decision' = [c \in Calls |-> IF decision[c] # "none" THEN decision[c]
                              ELSE IF c \in allowed THEN "allow"
                              ELSE IF c \in denied THEN "deny" ELSE "none"]

EmitResolved(S) ==
  told' = [c \in Calls |-> IF c \in S THEN told[c] + 1 ELSE told[c]]

(* Mutant: the payload kept for re-sending is left behind. *)
ForgetKeepingPayload(S) ==
  /\ pendingPermissions' = pendingPermissions \ S
  /\ permissionTimers' = permissionTimers \ S
  /\ UNCHANGED lastPermissionData

(* Delete calls from the three maps and cancel their timers. *)
Forget(S) ==
  /\ pendingPermissions' = pendingPermissions \ S
  /\ lastPermissionData' = lastPermissionData \ S
  /\ permissionTimers' = permissionTimers \ S

(* Mutant: the timer is not armed. *)
InsertWithoutTimer(c) ==
  /\ pendingPermissions' = pendingPermissions \cup {c}
  /\ lastPermissionData' = lastPermissionData \cup {c}
  /\ announced' = announced \cup {c}
  /\ UNCHANGED permissionTimers

(* Insert a call into the three maps, arm its timer and announce it. *)
Insert(c) ==
  /\ pendingPermissions' = pendingPermissions \cup {c}
  /\ lastPermissionData' = lastPermissionData \cup {c}
  /\ permissionTimers' = permissionTimers \cup {c}
  /\ announced' = announced \cup {c}

(* Empty the question slot; the timer the handle names is cancelled. *)
ClearQuestion ==
  /\ pendingUserAnswer' = NoCall
  /\ waitingForAnswer' = FALSE
  /\ liveQuestionTimers' = liveQuestionTimers \ {questionTimer}
  /\ questionTimer' = NoCall

Open == {c \in Calls : Waiting(c)}
Slot == {pendingUserAnswer} \ {NoCall}
----------------------------------------------------------------------------
Init ==
  /\ permissionMode \in Modes /\ isBusy = FALSE /\ changes = 0
  /\ sessionRules = <<>> /\ persistentRules = <<>> /\ storeRules = <<>>
  /\ pendingPermissions = {} /\ permissionTimers = {} /\ lastPermissionData = {}
  /\ resolving = {}
  /\ pendingUserAnswer = NoCall /\ questionTimer = NoCall
  /\ liveQuestionTimers = {} /\ waitingForAnswer = FALSE
  /\ asked = <<>> /\ aborted = {}
  /\ decision = [c \in Calls |-> "none"]
  /\ announced = {} /\ answered = {}
  /\ told = [c \in Calls |-> 0]
----------------------------------------------------------------------------
(* handlePermission and requestMcpTrust.                                   *)

(* Mutant: rules and modes are consulted before the floor. *)
AllowSilentlyIgnoringFloor(c) ==
  /\ Fresh(c)
  /\ \/ permissionMode = "auto"
     \/ MatchesRule(c) = "allow"
     \/ /\ MatchesRule(c) = "none"
        /\ permissionMode = "acceptEdits" /\ Tool[c] \in AcceptEditsTools
  /\ Settle({c}, {})
  /\ UNCHANGED <<policyVars, mapVars, questionVars, resolving, asked, aborted,
                 announced, answered, told>>

AllowSilently(c) ==
  /\ Fresh(c) /\ ~IsFlooredTarget(c)
  /\ \/ permissionMode = "auto"
     \/ MatchesRule(c) = "allow"
     \/ /\ MatchesRule(c) = "none"
        /\ permissionMode = "acceptEdits" /\ Tool[c] \in AcceptEditsTools
  /\ Settle({c}, {})
  /\ UNCHANGED <<policyVars, mapVars, questionVars, resolving, asked, aborted,
                 announced, answered, told>>

DenySilently(c) ==
  /\ Fresh(c)
  /\ permissionMode # "auto" \/ IsFlooredTarget(c)
  /\ MatchesRule(c) = "deny"
  /\ Settle({}, {c})
  /\ UNCHANGED <<policyVars, mapVars, questionVars, resolving, asked, aborted,
                 announced, answered, told>>

(* Neither the mode nor a rule decides the call. *)
NeedsPrompt(c) ==
  /\ Fresh(c)
  /\ \/ IsFlooredTarget(c) /\ MatchesRule(c) # "deny"
     \/ /\ permissionMode # "auto" /\ MatchesRule(c) = "none"
        /\ ~(permissionMode = "acceptEdits" /\ Tool[c] \in AcceptEditsTools)

AtCap == Cardinality(pendingPermissions) >= MaxPendingPermissions

DenyAtCap(c) ==
  /\ NeedsPrompt(c) /\ AtCap
  /\ Settle({}, {c})
  /\ UNCHANGED <<policyVars, mapVars, questionVars, resolving, asked, aborted,
                 announced, answered, told>>

PromptForTool(c) ==
  /\ NeedsPrompt(c) /\ ~AtCap
  /\ Insert(c)
  /\ UNCHANGED <<policyVars, questionVars, resolving, asked, aborted,
                 decision, answered, told>>

(* Mutant: the question's timer is kept in the map of the permission timers. *)
AskUserQuestionSharingTimers(q) ==
  /\ Fresh(q)
  /\ QuestionsOverlap \/ Open \cap Questions = {}
  /\ pendingUserAnswer' = q /\ waitingForAnswer' = TRUE
  /\ questionTimer' = q /\ permissionTimers' = permissionTimers \cup {q}
  /\ asked' = Append(asked, q)
  /\ announced' = announced \cup {q}
  /\ UNCHANGED <<policyVars, pendingPermissions, lastPermissionData, liveQuestionTimers,
                 resolving, aborted, decision, answered, told>>

(* The slot is overwritten; an older question's timer is not cancelled. *)
AskUserQuestion(q) ==
  /\ Fresh(q)
  /\ QuestionsOverlap \/ Open \cap Questions = {}
  /\ pendingUserAnswer' = q /\ waitingForAnswer' = TRUE
  /\ questionTimer' = q /\ liveQuestionTimers' = liveQuestionTimers \cup {q}
  /\ asked' = Append(asked, q)
  /\ announced' = announced \cup {q}
  /\ UNCHANGED <<policyVars, mapVars, resolving, aborted, decision, answered, told>>

(* A local server is prompted for at once, a remote one after the lookup.  *)
(* This path has no cap and no abort signal.                               *)
RequestMcpTrust(c) ==
  /\ Fresh(c)
  /\ \/ /\ c \in RemoteTrustCalls
        /\ resolving' = resolving \cup {c}
        /\ UNCHANGED <<mapVars, announced>>
     \/ /\ c \notin RemoteTrustCalls
        /\ Insert(c)
        /\ UNCHANGED resolving
  /\ UNCHANGED <<policyVars, questionVars, asked, aborted, decision, answered, told>>

TrustAddressResolved(c) ==
  /\ c \in resolving
  /\ resolving' = resolving \ {c}
  /\ Insert(c)
  /\ UNCHANGED <<policyVars, questionVars, asked, aborted, decision, answered, told>>
----------------------------------------------------------------------------
(* The ways a prompt ends.                                                 *)

ToolName(c) == IF c \in ToolCalls THEN Tool[c] ELSE "mcp_spawn"

(* allowAlways also persists an unscoped rule and re-reads the store.      *)
PersistAlways(c) ==
  LET rule == [tool |-> ToolName(c), decision |-> "allow", scope |-> NoScope]
  IN  /\ IF AcceptsRule(storeRules, rule)
         THEN /\ storeRules' = AddRule(storeRules, rule)
              /\ persistentRules' = storeRules'
         ELSE UNCHANGED <<storeRules, persistentRules>>
      /\ UNCHANGED <<permissionMode, isBusy, sessionRules, changes>>

RespondToPermission(c, d) ==
  /\ c \in pendingPermissions
  /\ Forget({c})
  /\ EmitResolved({c})
  /\ IF d = "deny" THEN Settle({}, {c}) ELSE Settle({c}, {})
  /\ answered' = answered \cup {c}
  /\ IF d = "allowAlways" THEN PersistAlways(c) ELSE UNCHANGED policyVars
  /\ UNCHANGED <<questionVars, resolving, asked, aborted, announced>>

RespondToQuestion ==
  /\ pendingUserAnswer # NoCall
  /\ ClearQuestion
  /\ EmitResolved(Slot)
  /\ Settle(Slot, {})
  /\ answered' = answered \cup Slot
  /\ UNCHANGED <<policyVars, mapVars, resolving, asked, aborted, announced>>

PermissionTimeout(c) ==
  /\ c \in permissionTimers
  /\ permissionTimers' = permissionTimers \ {c}
  /\ LET ended == pendingPermissions \cap {c}
     IN  /\ pendingPermissions' = pendingPermissions \ ended
         /\ lastPermissionData' = lastPermissionData \ ended
         /\ EmitResolved(ended)
         /\ Settle({}, ended)
  /\ UNCHANGED <<policyVars, questionVars, resolving, asked, aborted, announced, answered>>

(* The timer of q empties the slot whichever question holds it, and drops  *)
(* the handle without cancelling the timer it names.                       *)
QuestionTimeout(q) ==
  /\ q \in liveQuestionTimers
  /\ liveQuestionTimers' = liveQuestionTimers \ {q}
  /\ questionTimer' = NoCall
  /\ pendingUserAnswer' = NoCall
  /\ waitingForAnswer' = (waitingForAnswer /\ pendingUserAnswer = NoCall)
  /\ LET ended == IF pendingUserAnswer = NoCall THEN {} ELSE {q}
     IN  EmitResolved(ended) /\ Settle({}, ended)
  /\ UNCHANGED <<policyVars, mapVars, resolving, asked, aborted, announced, answered>>

(* A signal is aborted while a call it was handed with waits.  Every       *)
(* listener of a question runs when the slot is full, so the one added     *)
(* first empties it, and settles its own question, whoever holds the slot. *)
FirstListener(s) ==
  LET on == {i \in DOMAIN asked : SignalOf[asked[i]] = s}
  IN  IF on = {} THEN NoCall ELSE asked[CHOOSE i \in on : \A j \in on : i <= j]

Abort(s) ==
  LET tools    == {c \in pendingPermissions \cap ToolCalls : SignalOf[c] = s}
      question == IF pendingUserAnswer = NoCall THEN {} ELSE {FirstListener(s)} \ {NoCall}
  IN  /\ s \notin aborted
      /\ \E c \in Open \ TrustCalls : SignalOf[c] = s
      /\ aborted' = aborted \cup {s}
      /\ Forget(tools)
      /\ IF question = {} THEN UNCHANGED questionVars ELSE ClearQuestion
      /\ EmitResolved(tools \cup question)
      /\ Settle({}, tools \cup question)
      /\ UNCHANGED <<policyVars, resolving, asked, announced, answered>>

(* Mutant: the question that was cleared is not announced as resolved. *)
ClearAllForgettingQuestion ==
  /\ isBusy' = FALSE
  /\ pendingPermissions' = {} /\ permissionTimers' = {} /\ lastPermissionData' = {}
  /\ ClearQuestion
  /\ EmitResolved(pendingPermissions)
  /\ Settle({}, pendingPermissions \cup Slot)
  /\ UNCHANGED <<permissionMode, sessionRules, persistentRules, storeRules, changes,
                 resolving, asked, aborted, announced, answered>>

(* clearAll, called by _clearMessageState at the end of a turn, and by     *)
(* destroy.                                                                *)
ClearAll ==
  /\ isBusy' = FALSE
  /\ pendingPermissions' = {} /\ permissionTimers' = {} /\ lastPermissionData' = {}
  /\ ClearQuestion
  /\ EmitResolved(pendingPermissions \cup Slot)
  /\ Settle({}, pendingPermissions \cup Slot)
  /\ UNCHANGED <<permissionMode, sessionRules, persistentRules, storeRules, changes,
                 resolving, asked, aborted, announced, answered>>
----------------------------------------------------------------------------
(* Modes and rules.                                                        *)

BeginTurn ==
  /\ ~isBusy /\ isBusy' = TRUE
  /\ UNCHANGED <<permissionMode, sessionRules, persistentRules, storeRules, changes,
                 mapVars, questionVars, resolving, asked, aborted,
                 decision, announced, answered, told>>

(* Mutant: trust prompts are allowed like any other. *)
AutoAllowEverything ==
  /\ Forget(pendingPermissions)
  /\ EmitResolved(pendingPermissions)
  /\ Settle(pendingPermissions, {})

(* Every pending tool prompt is allowed, every trust prompt denied. *)
AutoAllowPending ==
  /\ Forget(pendingPermissions)
  /\ EmitResolved(pendingPermissions)
  /\ Settle(pendingPermissions \ TrustCalls, pendingPermissions \cap TrustCalls)

(* Mutant: the prompts on screen are left to their timers. *)
ModeChangedWithoutDrain(mode) == sessionRules' = <<>> /\ UNCHANGED <<mapVars, decision, told>>

(* _onPermissionModeChanged: the session rules go, auto mode ends the prompts. *)
OnPermissionModeChanged(mode) ==
  /\ sessionRules' = <<>>
  /\ IF mode = "auto" THEN AutoAllowPending ELSE UNCHANGED <<mapVars, decision, told>>

SetPermissionMode(mode) ==
  /\ changes < MaxChanges /\ changes' = changes + 1
  /\ ~isBusy \/ mode = "auto"
  /\ mode # permissionMode
  /\ permissionMode' = mode
  /\ OnPermissionModeChanged(mode)
  /\ UNCHANGED <<isBusy, persistentRules, storeRules, questionVars, resolving, asked,
                 aborted, announced, answered>>

(* setRules throws unless every rule is for an eligible tool. *)
SetPermissionRules(rules) ==
  /\ changes < MaxChanges /\ changes' = changes + 1
  /\ Len(rules) <= MaxSessionRules
  /\ \A i \in DOMAIN rules : rules[i].tool \in EligibleTools
  /\ sessionRules' = rules
  /\ UNCHANGED <<permissionMode, isBusy, persistentRules, storeRules, mapVars, questionVars,
                 resolving, asked, aborted, decision, announced, answered, told>>

(* A client replaces the project's rules through this session, whose       *)
(* session rules it re-sends, or through another session of the project:   *)
(* then this session keeps its old copy.                                   *)
SetProjectRules(rules) ==
  /\ changes < MaxChanges /\ changes' = changes + 1
  /\ storeRules' = StoredRules(rules)
  /\ persistentRules' \in {persistentRules, StoredRules(rules)}
  /\ UNCHANGED <<permissionMode, isBusy, sessionRules, mapVars, questionVars, resolving,
                 asked, aborted, decision, announced, answered, told>>
----------------------------------------------------------------------------
Next ==
  \/ \E c \in ToolCalls : \/ AllowSilently(c) \/ DenySilently(c)
                         \/ DenyAtCap(c) \/ PromptForTool(c)
  \/ \E q \in Questions : AskUserQuestion(q) \/ QuestionTimeout(q)
  \/ \E c \in TrustCalls : RequestMcpTrust(c) \/ TrustAddressResolved(c)
  \/ \E c \in ToolCalls \cup TrustCalls :
       \/ PermissionTimeout(c)
       \/ \E d \in {"allow", "allowAlways", "deny"} : RespondToPermission(c, d)
  \/ RespondToQuestion
  \/ \E s \in Signals : Abort(s)
  \/ ClearAll
  \/ BeginTurn
  \/ \E mode \in Modes : SetPermissionMode(mode)
  \/ \E rules \in RuleLists : SetPermissionRules(rules) \/ SetProjectRules(rules)

Spec == Init /\ [][Next]_vars

(* An armed timer fires and a lookup returns; nobody has to answer.        *)
Fairness ==
  /\ \A c \in ToolCalls \cup TrustCalls : WF_vars(PermissionTimeout(c))
  /\ \A q \in Questions : WF_vars(QuestionTimeout(q))
  /\ \A c \in TrustCalls : WF_vars(TrustAddressResolved(c))

FairSpec == Spec /\ Fairness
----------------------------------------------------------------------------
(* Properties.                                                             *)

(* Rules of a session are for eligible tools only.                         *)
SessionRules ==
  {rules \in Seq(Rule) : /\ Len(rules) <= MaxSessionRules
                         /\ \A i \in DOMAIN rules : rules[i].tool \in EligibleTools}

(* A project's rules: at most the cap, one for each key, and allowing      *)
(* nothing but eligible tools.                                             *)
ProjectRules ==
  {rules \in Seq(Rule) :
     /\ Len(rules) <= MaxRulesPerProject
     /\ \A i, j \in DOMAIN rules : SameKey(rules[i], rules[j]) => i = j
     /\ \A i \in DOMAIN rules :
          rules[i].decision = "allow" => rules[i].tool \in EligibleTools}

(* The state has the shape the code gives it, and every list of rules, in  *)
(* memory and in the store, is fit to decide calls.                        *)
TypeOK ==
  /\ permissionMode \in Modes /\ isBusy \in BOOLEAN /\ changes \in 0..MaxChanges
  /\ sessionRules \in SessionRules
  /\ persistentRules \in ProjectRules /\ storeRules \in ProjectRules
  /\ pendingPermissions \subseteq ToolCalls \cup TrustCalls
  /\ permissionTimers \subseteq ToolCalls \cup TrustCalls
  /\ lastPermissionData \subseteq ToolCalls \cup TrustCalls
  /\ resolving \subseteq RemoteTrustCalls
  /\ pendingUserAnswer \in Questions \cup {NoCall}
  /\ questionTimer \in Questions \cup {NoCall}
  /\ liveQuestionTimers \subseteq Questions /\ waitingForAnswer \in BOOLEAN
  /\ asked \in Seq(Questions) /\ aborted \subseteq Signals
  /\ decision \in [Calls -> Decisions \cup {"none"}]
  /\ announced \subseteq Calls /\ answered \subseteq Calls
  /\ told \in [Calls -> Nat]

(* Every prompt a client was shown and that is not settled can still be    *)
(* answered, times out, and can be re-sent: the maps and timers of the     *)
(* manager (pendingPermissions, permissionTimers, lastPermissionData, the  *)
(* question slot and its timer) name exactly the waiting calls.            *)
MapsInStep ==
  /\ permissionTimers = pendingPermissions
  /\ lastPermissionData = pendingPermissions
  /\ Open = pendingPermissions \cup Slot
  /\ questionTimer = pendingUserAnswer
  /\ liveQuestionTimers = Slot
  /\ waitingForAnswer = (pendingUserAnswer # NoCall)

(* A protected or secret path is never touched unless a client was shown   *)
(* the prompt first: no mode and no rule reaches it silently.              *)
FlooredNeverSilent ==
  \A c \in ToolCalls :
    IsFlooredTarget(c) /\ decision[c] = "allow" => c \in announced

(* Trust in an MCP server is kept on disk for ever, so only a user's own   *)
(* answer grants it: neither auto mode nor any rule or timer does.         *)
TrustOnlyByUser ==
  \A c \in TrustCalls : decision[c] = "allow" => c \in answered

(* Switching to auto mode empties the screen: while the mode is auto only  *)
(* protected targets are still prompted for.                               *)
AutoModeLeavesNoPrompt ==
  permissionMode = "auto" => \A c \in pendingPermissions \cap ToolCalls : IsFlooredTarget(c)

(* A tool outside EligibleTools (Bash, a subagent, the web) runs unseen in *)
(* auto mode only: no other mode allows it, and no rule, be it sent by a   *)
(* client, stored by "always allow" or read from the store.                *)
UnseenOnlyIfEligible ==
  [][\A c \in ToolCalls :
       /\ decision[c] = "none" /\ decision'[c] = "allow"
       /\ c \notin announced /\ permissionMode # "auto"
       => Tool[c] \in EligibleTools]_vars

(* The flood cap holds for tool calls whatever trust prompts are added.    *)
PendingBounded ==
  Cardinality(pendingPermissions \cap ToolCalls) <= MaxPendingPermissions

(* Agent and clients see each prompt opened once and ended once, with one  *)
(* decision and one permission_resolved: the abstract PermissionGate.      *)
Gate == INSTANCE PermissionGate WITH
  gate <- [c \in Calls |-> IF decision[c] # "none" THEN decision[c]
                          ELSE IF c \in announced THEN "open" ELSE "idle"],
  told <- told

GateSpec == Gate!Spec

(* Every prompt is settled in the end even if no user ever answers: the    *)
(* SDK's turn waits for it.                                                *)
EveryPromptSettles == Gate!EveryPromptSettles
=============================================================================
