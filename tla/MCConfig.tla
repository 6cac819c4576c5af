----------------------------- MODULE MCConfig -----------------------------
(***************************************************************************)
(* Instances of ConfigState: three contents, one of them the template, one *)
(* that prepare_desktop_draft rewrites, and two credentials.               *)
(***************************************************************************)
EXTENDS ConfigState

CONSTANTS c0, c1, c2

MCContents == {c0, c1, c2}
MCPreparedOf == [c \in MCContents |-> IF c = c2 THEN c1 ELSE c]
=============================================================================
