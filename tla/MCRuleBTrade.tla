---------------------------- MODULE MCRuleBTrade ----------------------------
(***************************************************************************)
(* Instances of RuleBTrade for TLC.                                        *)
(***************************************************************************)
EXTENDS RuleBTrade

CONSTANTS d1, d2

\* Two decisions of different structures.
MCStructureOf == [d \in Decisions |-> d]
=============================================================================
