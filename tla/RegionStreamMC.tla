--------------------------- MODULE RegionStreamMC ---------------------------
(***************************************************************************)
(* Small instances of RegionStream: a strip of regions, a player on or off  *)
(* it, and a reduced layer table with the shape of the declared one: a      *)
(* halo-reading terrain (0), a macro layer (1) and a layer that reads both  *)
(* (2).                                                                     *)
(***************************************************************************)
EXTENDS RegionStream, LayerGraphFacts, FiniteSetsExt

Abs(n) == IF n < 0 THEN -n ELSE n

\* ---- the reduced table ----
MCTable == [l \in 0 .. 2 |->
              CASE l = 0 -> Decl({}, {"P"}, 2)
                [] l = 1 -> Decl({0}, {}, 3)
                [] l = 2 -> Decl({0, 1}, {"H"}, 1)]

MCDeps     == [l \in DOMAIN MCTable |-> MCTable[l].deps]
MCReads    == [l \in DOMAIN MCTable |-> MCTable[l].domains]
MCCostOf   == [S \in SUBSET DOMAIN MCTable |-> MapThenSumSet(LAMBDA l : MCTable[l].cost, S)]
MCClosure  == [l \in DOMAIN MCTable |-> DependentsClosure(MCTable, l)]
MCUpstream == KeyLayers(MCTable, 1)

\* ---- a strip of regions, two to a macro cell ----
MCNeighbours == [c \in Coords |-> {d \in Coords : Abs(c - d) <= 1}]
MCMacroOf    == [c \in Coords |-> 10 + c \div 2]
MCMacros     == {MCMacroOf[c] : c \in Coords}
MCDistance   == [p \in Players |-> [c \in Coords |-> Abs(p - c)]]
MCMacroDistance == [p \in Players |-> [m \in Macros |-> Abs(10 + p \div 2 - m)]]

\* ---- the field: recipe r and steering s pull every bucket to one value ----
MCCellRegions == [r \in Recipes |-> 8 + r]
MCSample    == [r \in Recipes |-> [c \in Coords |-> [d \in Domains |-> r]]]
MCTargetFor == [r \in Recipes |-> [s \in Steerings |-> [c \in Coords |->
                  [d \in Domains |-> IF s = 0 THEN r ELSE 1 - r]]]]
MCRestored  == {[d \in Domains |-> IF d = "P" THEN 1 ELSE 0]}
\* Preserves pin the terrain pair alike and differ in the other domain.
MCSignature == [i \in PreserveIds |-> [c \in Coords |->
                  [d \in Domains |-> IF d = "P" THEN 1 ELSE i % 2]]]
=============================================================================
