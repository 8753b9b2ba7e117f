------------------------------- MODULE LoomMC -------------------------------
(* Four atoms, where it is cheaper to let a trait die and another be born than *)
(* to move it from end to end.                                                *)
EXTENDS Loom

Do(subject, atom, influence, amount, weight) ==
  [subject |-> subject, atom |-> atom, influence |-> influence, amount |-> amount, weight |-> weight]
Plans ==
  {{Do("material", 4, "accentuate", 2, 1)},
   {Do("material", 1, "accentuate", 1, 2), Do("material", 4, "repress", 3, 1)},
   {Do("habitat", 1, "accentuate", 1, 2), Do("material", 2, "accentuate", 1, 1)},
   {Do("organism", 4, "accentuate", 2, 1), Do("habitat", 1, "repress", 1, 1)},
   {Do("organism", 4, "accentuate", 4, 2), Do("organism", 4, "hold", 0, 1),
    Do("habitat", 4, "accentuate", 1, 1)},
   {Do("habitat", 1, "repress", 3, 1), Do("organism", 4, "repress", 2, 1)}}
AllInOne == {[material |-> <<2, 0, 0, 0>>, trait |-> <<0, 0, 0, 0>>]}
=============================================================================
