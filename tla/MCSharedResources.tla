------------------------- MODULE MCSharedResources -------------------------
(***************************************************************************)
(* Jobs of up to five modules.  With legacy modules and without: two users *)
(* of the same two resources, one of which gets a product of a third       *)
(* module; a legacy module that gets that product too; a module with a     *)
(* resource of its own.                                                    *)
(***************************************************************************)
EXTENDS SharedResources, TLC

CONSTANTS both, caller, callee, old, alone

Job(b, c, d, o, a, needs) ==
    [uses |-> both :> b @@ caller :> c @@ callee :> d @@ old :> o @@ alone :> a,
     needs |-> [m \in Modules |-> IF m \in needs THEN {callee} ELSE {}]]

Jobs == {
    Job({1, 2}, {1, 2}, {2}, {0}, {3}, {caller, old}),
    Job({1, 2}, {1, 2}, {2}, {}, {3}, {caller}),
    Job({0}, {0}, {2}, {}, {}, {caller}),
    Job({0}, {0}, {0}, {}, {}, {caller, both}),
    Job({0, 1}, {1, 2}, {2}, {}, {1}, {caller})}

Symmetry == Permutations(Threads)
=============================================================================
