---------------------------- MODULE MCSandboxRun ----------------------------
(* SandboxRun with two container names.                                    *)
EXTENDS SandboxRun

CONSTANTS c1, c2

MCContainers == {c1, c2}
=============================================================================
