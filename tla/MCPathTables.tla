---------------------------- MODULE MCPathTables ----------------------------
(* Instances of PathTables for TLC. *)
EXTENDS PathTables

CONSTANTS A, B, D, Absent

ASSUME AbsentAssumption == Absent \notin Views

Path(v) == [vf |-> v, dst |-> D]

\* Two vfabs, listed by the SM in either order, both reaching the destination.
SwappedFabrics ==
  { [up |-> TRUE, pkeys |-> {A, B}, vfabs |-> <<A, B>>, paths |-> <<Path(A), Path(B)>>],
    [up |-> TRUE, pkeys |-> {A, B}, vfabs |-> <<B, A>>, paths |-> <<Path(B), Path(A)>>] }

\* The source port goes down in the second view.
PortFabrics ==
  { [up |-> TRUE, pkeys |-> {A}, vfabs |-> <<A, B>>, paths |-> <<Path(A)>>],
    [up |-> FALSE, pkeys |-> {}, vfabs |-> <<A>>, paths |-> <<>>] }

\* The value of table k that a reader opening it now would get.
Latest(k) ==
  IF Unopenable(k) THEN Absent ELSE mem[k][<<dir[k][name[k]], name[k]>>]

Held(r, k) == IF rmap[r][k] = None THEN Absent ELSE mem[k][rmap[r][k]]

Store == INSTANCE TableStore WITH
  Values <- Views, Absent <- Absent,
  latest <- [k \in Tables |-> Latest(k)],
  held <- [r \in Readers |-> [k \in Tables |-> Held(r, k)]]

\* The tables implement the register store.
ImplementsStore == Store!StoreSpec

=============================================================================
