----------------------------- MODULE MCProducers -----------------------------
(***************************************************************************)
(* Instances for TLC of the two kinds of producers of a queue.  The        *)
(* variable program says which one a behaviour is of; the variables of the *)
(* other one stay as they are at first.                                    *)
(***************************************************************************)
EXTENDS ImplicitProducer, TLC

CONSTANTS EXPLICIT_INITIAL_INDEX_SIZE, MaxInRing    \* of ExplicitProducer

VARIABLES
    program,
    e_tailIndex, e_headIndex, e_headers, slotsUsed, size, front, ring, e_tailBlock,
    e_cells, emptyFlags, e_ppc, e_pc, e_local

explicitVars ==
    <<e_tailIndex, e_headIndex, e_headers, slotsUsed, size, front, ring, e_tailBlock,
      e_cells, emptyFlags, e_ppc, e_pc, e_local>>

Explicit == INSTANCE ExplicitProducer WITH
    MaxElements <- MaxInRing,
    tailIndex <- e_tailIndex, headIndex <- e_headIndex, headers <- e_headers,
    tailBlock <- e_tailBlock, cells <- e_cells, ppc <- e_ppc, pc <- e_pc, local <- e_local

ASSUME ExplicitAssumption == Explicit!ExplicitAssumption

MCInit ==
    /\ program \in {"implicit", "explicit"}
    /\ Init /\ Explicit!Init
    /\ program = "implicit" => e_headers # <<>>     \* one of the initial states of Explicit

MCNext ==
    /\ UNCHANGED program
    /\ \/ program = "implicit" /\ Next /\ UNCHANGED explicitVars
       \/ program = "explicit" /\ Explicit!Next /\ UNCHANGED vars

MCSpec == MCInit /\ [][MCNext]_<<program, vars, explicitVars>>

Symmetry == Permutations(Consumers) \union Permutations(Blocks)

-----------------------------------------------------------------------------
\* The ring of an explicit producer keeps every element, and its index has room.
FindsInRing == Explicit!FindsInRing
=============================================================================
