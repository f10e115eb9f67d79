------------------------ MODULE MCInMemoryExperiment --------------------------
(***************************************************************************)
(* Two generators and two runners; five matrices (three for the leftover    *)
(* chunk) in chunks of two, so that the last chunk of a generator is short. *)
(***************************************************************************)
EXTENDS InMemoryExperiment

CONSTANTS g1, g2, r1, r2

MCGenerators == {g1, g2}
MCRunners == {r1, r2}
===============================================================================
