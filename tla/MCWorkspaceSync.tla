---- MODULE MCWorkspaceSync ----
(* Model checking instance of WorkspaceSync: a starter file and another. *)
EXTENDS WorkspaceSync

CONSTANTS main, util

MCPaths    == {main, util}
MCStarters == {main}
====
