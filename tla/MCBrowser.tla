------------------------------- MODULE MCBrowser -------------------------------
(***************************************************************************)
(* A small frontend: two projects, environments and groups for the role    *)
(* editor, and for every other page the least that lets each action        *)
(* happen twice.                                                           *)
(***************************************************************************)
EXTENDS Browser

MCSampleAtoms ==
  {MkAtom("write", "project_values", "p", "dev"), MkAtom("read", "project_values", "q", "dev"),
   MkAtom("delete", "project_values", "p", Wildcard),
   MkAtom("write", "project_values", Wildcard, "dev"),
   MkAtom("write", "project_templates", "p", NoKey),
   MkAtom("create", "project_templates", "p", NoKey),
   MkGroupAtom("write", "g"), MkGroupAtom("read", "h")}

MCStoredRoles ==
  {{MkAtom("read", "project", "p", NoKey), MkAtom("write", "project_values", "p", "dev"),
    MkAtom("create", "env_values", "p", "dev"),
    MkAtom("create", "project_templates", "p", NoKey),
    MkAtom("read", "project", "q", NoKey), MkGroupAtom("read", "g")}}

MCKeyKinds == {<<"g", "k", "string">>, <<"g", "l", "list">>, <<"h", "k", "string">>}

MCCandidates == <<"u", "v">>

MCParts ==
  {[count |-> 1, mark |-> "x", role |-> "admin"], [count |-> 1, mark |-> "X", role |-> "admin"],
   [count |-> 1, mark |-> "x", role |-> "release"],
   [count |-> 0, mark |-> "x", role |-> "admin"], [count |-> 1, mark |-> "x", role |-> NoRole]}
=============================================================================
