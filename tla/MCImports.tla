------------------------------ MODULE MCImports ------------------------------
(* Imports on small instances, and what its documents say of it. *)
EXTENDS Imports, TLC

Symmetry == Permutations(Slot) \cup Permutations(Apply) \cup Permutations(PostId)

\* docs/plans/007-import/plan.md, "Never re-convert an applied import": while
\* an import is linked to its draft, handleJob does not write a conversion.
AppliedIsNeverReconverted ==
    [][\A i \in Job : imports[i].post # NoPost =>
         /\ imports'[i].status = imports[i].status
         /\ imports'[i].md = imports[i].md]_allVars
=============================================================================
