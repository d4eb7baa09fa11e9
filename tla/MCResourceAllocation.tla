------------------------ MODULE MCResourceAllocation ------------------------
\* A cluster of three NICs, of the two kinds the script lists (many cores, or
\* fewer cores and engines), and a pipeline of a core stage, a regex stage and
\* a core stage; a unit of regex processes more than a core.
EXTENDS ResourceAllocation, TLC

MCResource == {"core", "regex"}
MCKind == (0 :> "core") @@ (1 :> "regex") @@ (2 :> "core")
MCW == (0 :> 2) @@ (1 :> 3) @@ (2 :> 2)
MCNicTypes == {("core" :> 3) @@ ("regex" :> 0), ("core" :> 2) @@ ("regex" :> 1)}

=============================================================================
