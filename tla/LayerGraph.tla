----------------------------- MODULE LayerGraph -----------------------------
(***************************************************************************)
(* The declared layer dependency graph (world-core/src/layer.rs): every    *)
(* generated layer names the layers it reads and the possibility domains it *)
(* reads directly.  Dirtiness, expected dependency keys and dispatch order *)
(* all follow these declarations, so the streaming map is correct only if   *)
(* the closures below say exactly what a change can reach.                 *)
(***************************************************************************)
EXTENDS Integers, FiniteSets

\* The nine layer ids (the const LAYER_... declarations); id order is topological.
LAYER_TERRAIN    == 0
LAYER_GEOLOGY    == 1
LAYER_DRAINAGE   == 2
LAYER_CLIMATE    == 3
LAYER_HYDROLOGY  == 4
LAYER_SOILS      == 5
LAYER_BIOME      == 6
LAYER_VEGETATION == 7
LAYER_ECOLOGY    == 8
LAYER_COUNT == 9

LayerIds == 0 .. LAYER_COUNT - 1

\* The five domains some layer reads, by the one-letter names of layer.rs.
DomainIds == {"G", "P", "C", "H", "E"}

Decl(deps, domains, cost) == [deps |-> deps, domains |-> domains, cost |-> cost]

\* The static declaration table.  algorithm_revision is part of the run state of
\* RegionStream (revision_bumps) and is not repeated here.
LAYERS ==
  [l \in LayerIds |->
    CASE l = LAYER_TERRAIN    -> Decl({}, {"G", "P"}, 4)
      [] l = LAYER_GEOLOGY    -> Decl({}, {"G"}, 2)
      [] l = LAYER_DRAINAGE   -> Decl({LAYER_TERRAIN}, {}, 31)
      [] l = LAYER_CLIMATE    -> Decl({LAYER_TERRAIN}, {"C", "H", "P"}, 1)
      [] l = LAYER_HYDROLOGY  -> Decl({LAYER_TERRAIN, LAYER_DRAINAGE, LAYER_CLIMATE}, {"H", "P"}, 1)
      [] l = LAYER_SOILS      -> Decl({LAYER_TERRAIN, LAYER_GEOLOGY, LAYER_CLIMATE, LAYER_HYDROLOGY}, {}, 2)
      [] l = LAYER_BIOME      -> Decl({LAYER_TERRAIN, LAYER_CLIMATE, LAYER_HYDROLOGY, LAYER_SOILS}, {}, 1)
      [] l = LAYER_VEGETATION -> Decl({LAYER_CLIMATE, LAYER_SOILS, LAYER_BIOME}, {"E"}, 1)
      [] l = LAYER_ECOLOGY    -> Decl({LAYER_CLIMATE, LAYER_SOILS, LAYER_BIOME, LAYER_VEGETATION}, {"E"}, 2)]

\* dependents_closure: one ascending pass; pass[i] is the closure after the ids
\* below i have been visited.  One pass suffices only because deps have lower ids.
DependentsClosure(table, layer) ==
  LET Count == Cardinality(DOMAIN table)
      pass[i \in 0 .. Count] ==
        IF i = 0 THEN {layer}
        ELSE pass[i - 1] \cup
             {l \in {i - 1} : table[l].deps \cap pass[i - 1] # {}}
  IN  pass[Count]

DomainReaders(table, domain) == {l \in DOMAIN table : domain \in table[l].domains}

\* domain_dirty_mask: the readers of every flipped domain, each closed over its
\* dependents.
DirtyMask(table, flipped) ==
  UNION {DependentsClosure(table, l) :
           l \in UNION {DomainReaders(table, d) : d \in flipped}}

\* max_layer_cost: the least budget under which every layer can be dispatched.
MaxLayerCost(table) ==
  CHOOSE m \in {table[l].cost : l \in DOMAIN table} :
    \A l \in DOMAIN table : table[l].cost <= m

\* The layers whose keys expected_layer_hash_inner folds for `layer': the layer
\* itself and, recursively, its inputs.  A macro tile has its own key
\* (drainage_dep_hash), so the recursion stops at the drainage layer.
KeyLayers(table, drainage) ==
  LET up[l \in DOMAIN table] ==
        IF l = drainage THEN {l}
        ELSE {l} \cup UNION {up[d] : d \in table[l].deps}
  IN  up
=============================================================================
