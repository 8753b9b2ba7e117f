--------------------------- MODULE LayerGraphFacts ---------------------------
(***************************************************************************)
(* What the graph algorithms of LayerGraph compute, against reference       *)
(* definitions: assumptions that TLC evaluates, on the declared table and   *)
(* on every table of four layers and two domains that keeps the one rule of *)
(* the code: deps have strictly lower ids (deps_are_strictly_lower_id).     *)
(* RegionStreamProofs proves the same of every table that keeps the rule.   *)
(***************************************************************************)
EXTENDS LayerGraph

\* Ids are dense and deps have strictly lower ones; the macro layer reads terrain.
LegalTable(table, drainage) ==
  /\ IsFiniteSet(DOMAIN table) /\ DOMAIN table = 0 .. Cardinality(DOMAIN table) - 1
  /\ \A l \in DOMAIN table : table[l].deps \subseteq 0 .. l - 1
  /\ drainage \in DOMAIN table /\ 0 \in table[drainage].deps

\* The macro layer, 1, keeps its shape: it reads layer 0 and no domain.
SmallTables ==
  {[l \in 0 .. 3 |-> CASE l = 0 -> Decl({}, reads0, 1)
                       [] l = 1 -> Decl({0}, {}, 1)
                       [] l = 2 -> Decl(deps2, reads2, 1)
                       [] l = 3 -> Decl(deps3, reads3, 1)] :
     reads0, reads2, reads3 \in SUBSET {"P", "H"},
     deps2 \in SUBSET (0 .. 1), deps3 \in SUBSET (0 .. 2)}

\* The tables checked, each with the layer whose key folds the macro algorithm.
CheckedTables == {<<LAYERS, LAYER_DRAINAGE>>} \cup (SmallTables \X {1})

ClosedUnderDependents(table, S) ==
  \A l \in DOMAIN table : table[l].deps \cap S # {} => l \in S

\* The single ascending pass of dependents_closure reaches the least set that holds
\* the layer and everything that reads it, directly or through other layers.
ClosureIsLeast(table) ==
  \A l \in DOMAIN table :
    LET closure == DependentsClosure(table, l) IN
    /\ l \in closure /\ ClosedUnderDependents(table, closure)
    /\ \A S \in SUBSET (DOMAIN table) :
         l \in S /\ ClosedUnderDependents(table, S) => closure \subseteq S

\* The revision of a layer reaches every key it is folded into, and the terrain
\* closure every key that folds the macro key: what RegionStream takes for granted.
ClosuresCoverKeys(table, drainage) ==
  LET upstream == KeyLayers(table, drainage) IN
  \A l \in DOMAIN table :
    /\ \A u \in upstream[l] : u \in DOMAIN table /\ l \in DependentsClosure(table, u)
    /\ drainage \in upstream[l] => l \in DependentsClosure(table, 0)

\* A drift marks every layer whose dependency key it changes, and no layer that reads
\* the flipped domains neither itself nor through any input (ADR 0007).
DirtyMaskIsExact(table, drainage) ==
  LET upstream == KeyLayers(table, drainage) IN
  \A flipped \in SUBSET UNION {table[l].domains : l \in DOMAIN table}, l \in DOMAIN table :
    LET ReadsFlipped(u) == table[u].domains \cap flipped # {}
        marked == DirtyMask(table, flipped)
    IN  /\ (\E u \in upstream[l] : ReadsFlipped(u)) => l \in marked
        /\ l \in marked => \E u \in DOMAIN table : ReadsFlipped(u)
                                                 /\ l \in DependentsClosure(table, u)

ASSUME TablesAreLegal == \A t \in CheckedTables : LegalTable(t[1], t[2])

ASSUME ClosuresAreExact ==
  \A t \in CheckedTables : ClosureIsLeast(t[1]) /\ ClosuresCoverKeys(t[1], t[2])

ASSUME DirtyMasksAreExact == \A t \in CheckedTables : DirtyMaskIsExact(t[1], t[2])
=============================================================================
