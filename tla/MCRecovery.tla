------------------------------ MODULE MCRecovery ------------------------------
(* An adapter at its default version, at one that is too old, and one that *)
(* prints no version; requirements both adapters meet, one meets, and one  *)
(* that may be overridden.                                                 *)
EXTENDS Recovery

CONSTANT deploy

Requires(kind, value, category, required) ==
    [kind |-> kind, value |-> value, category |-> category, required |-> required]

SomeVersions == {<<>>, [codex |-> <<0, 0, 9>>], [claude_code |-> <<>>]}
SomeRequirements ==
    {{Requires("access", "workspace_write", "safety", TRUE)},
     {Requires("capability", "planning", "technical", TRUE), Requires("capability", "debugging", "quality", TRUE)},
     {Requires("adapter", "codex", "quality", FALSE)}}
=============================================================================
