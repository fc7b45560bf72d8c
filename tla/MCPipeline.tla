----------------------------- MODULE MCPipeline -----------------------------
(***************************************************************************)
(* Constant values for model-checking Pipeline.                            *)
(***************************************************************************)
EXTENDS Pipeline

Kind(levels, contract, draft, given, tests, protected) ==
    [visual |-> levels # {0}, contract |-> contract, draft |-> draft, given |-> given,
     tests |-> tests, protected |-> protected, levels |-> levels]

\* Two visual tasks, one with a product to protect; one without
\* a contract; one the Chief Engineer writes, with a product to protect; one a local
\* model drafts, with and without a contract; one whose actions are given; and one without
\* tests.
Lanes == {Kind(0..2, TRUE, FALSE, FALSE, TRUE, FALSE),
          Kind({0, 2}, TRUE, FALSE, FALSE, TRUE, TRUE),
          Kind({1, 2}, FALSE, TRUE, TRUE, TRUE, FALSE),
          Kind({0}, TRUE, FALSE, FALSE, TRUE, TRUE),
          Kind({0}, TRUE, TRUE, FALSE, TRUE, TRUE),
          Kind({0}, TRUE, TRUE, FALSE, TRUE, FALSE),
          Kind({0}, FALSE, TRUE, FALSE, TRUE, FALSE),
          Kind({0}, TRUE, FALSE, TRUE, TRUE, FALSE),
          Kind({0}, TRUE, TRUE, FALSE, FALSE, FALSE)}
=============================================================================
