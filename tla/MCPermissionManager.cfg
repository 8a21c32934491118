SPECIFICATION FairSpec
CONSTANTS
  edit = edit
  secretEdit = secretEdit
  local = local
  remote = remote
  q1 = q1
  q2 = q2
  src = src
  env = env
  sig1 = sig1
  sig2 = sig2
  sig3 = sig3
  NoCall = NoCall
  NoScope = NoScope
  ToolCalls = {edit, secretEdit}
  TrustCalls = {remote}
  RemoteTrustCalls = {remote}
  Questions = {q1, q2}
  ToolNames <- MCToolNames
  Tool <- MCTool
  Targets <- MCTargets
  Paths = {src, env}
  ProtectedPaths = {env}
  SecretPaths = {env}
  SignalOf <- MCSignalOf
  RuleLists <- MCRuleLists
  MaxPendingPermissions = 1
  MaxSessionRules = 2
  MaxRulesPerProject = 2
  QuestionsOverlap = FALSE
  MaxChanges = 1
INVARIANTS
  TypeOK
  MapsInStep
  
  TrustOnlyByUser
  AutoModeLeavesNoPrompt
PROPERTIES
  GateSpec
  EveryPromptSettles
