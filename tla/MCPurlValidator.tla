---------------------------- MODULE MCPurlValidator ----------------------------
(***************************************************************************)
(* PurlValidator for TLC: npm packages with a scope, without one, and with *)
(* a name that holds a "/", given as objects and as strings.               *)
(***************************************************************************)
EXTENDS PurlValidator, TLC

CONSTANTS core_string, not_a_purl, empty_list, c1, c2, v1, d1, d2

Purl(namespace, name, rest) ==
  [type |-> "npm", namespace |-> namespace, name |-> name, rest |-> rest]

angularCore   == Purl(<<"@angular">>, <<"core">>, "")
angularCoreV5 == Purl(<<"@angular">>, <<"core">>, "5.0.0")
core          == Purl(<<>>, <<"core">>, "")
coreCore      == Purl(<<"core">>, <<"core">>, "")
\* pkg:npm/%40angular%2Fcore
slashed       == Purl(<<>>, <<"@angular", "core">>, "")

MCSegment == {"npm", "@angular", "core"}
MCPackageURLs == {angularCore, angularCoreV5, core, coreCore}
MCSlashedPackageURLs == MCPackageURLs \cup {slashed}
MCStrings == {core_string, not_a_purl}
MCOthers == {empty_list}
MCFromString == core_string :> core @@ not_a_purl :> Unparsable
MCPackagedPurls == {core}

MCRequests == {{}, {core, core_string, angularCore, angularCoreV5},
               {core_string, coreCore, angularCoreV5},
               {core, not_a_purl}, {empty_list}}

\* The order of the bytes: "@" comes before "c".
ByteOrder == <<<<"npm", "@angular", "core">>, <<"npm", "core">>,
               <<"npm", "core", "core">>>>
MCRank == [e \in Entry |-> CHOOSE i \in DOMAIN ByteOrder : ByteOrder[i] = e]
================================================================================
