--------------------- MODULE MCExecDefinitionRegistry ----------------------
(* Small instances of ExecDefinitionRegistry for TLC.                      *)
EXTENDS ExecDefinitionRegistry

CONSTANTS base, derived, api, ext, n1, n2, k1, k2

\* Libraries that are linked register for base and derived, a plugin for api;
\* ext has no registry function.
LinkedFunctions == <<base, derived>>
PluginFunctions == <<api>>
RegisteredNames == (base :> <<n1, n2>>) @@ (derived :> <<n1>>) @@ (api :> <<n2>>)

\* A prim of the derived type with an API schema, one of the base with another.
ExpandedSchemas == (k1 :> <<derived, base, api>>) @@ (k2 :> <<api, ext>>)

\* Swift registers nothing, or for a schema without a function or with a linked one.
NoScript == {<<>>}
SwiftScripts == {<<>>, << <<ext, n1>> >>, << <<derived, n2>> >>}
TwoForOneSchema == {<< <<ext, n1>>, <<ext, n2>> >>}
=============================================================================
