------------------------ MODULE MCPermissionManager ------------------------
(***************************************************************************)
(* PermissionManager on small instances: an edit of a secret file and an   *)
(* edit of an ordinary file, a local and a remote MCP trust prompt, and    *)
(* two questions.                                                          *)
(***************************************************************************)
EXTENDS PermissionManager, TLC

CONSTANTS edit, secretEdit, local, remote, q1, q2, src, env, sig1, sig2, sig3

(* A tool no rule may allow, and the name a trust prompt is stored under. *)
MCToolNames == EligibleTools \cup {"Bash", "mcp_spawn"}

MCTool == (edit :> "Edit") @@ (secretEdit :> "Edit")

MCTargets == (edit :> {src}) @@ (secretEdit :> {env})

(* The SDK hands over a signal of its own with each request. *)
MCSignalOf == (edit :> sig1) @@ (secretEdit :> sig1)
              @@ (q1 :> sig2) @@ (q2 :> sig3)

MCRule(t, d, s) == [tool |-> t, decision |-> d, scope |-> s]

MCRuleLists ==
  { <<MCRule("Edit", "deny", {env}), MCRule("Edit", "allow", NoScope)>>,
    <<MCRule("Bash", "allow", NoScope), MCRule("Edit", "deny", {src}),
      MCRule("Edit", "allow", {src})>> }
=============================================================================
