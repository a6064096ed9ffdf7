---------------------------- MODULE MCCollection ----------------------------
(* A small object with two words, a large one with one and one that holds  *)
(* no pointer, and one root.                                               *)
EXTENDS Collection

CONSTANTS small, large, leaf, fiber

MCObjects == {small, large, leaf}
MCRoots == <<fiber>>
MCSize == [r \in MCObjects \cup {fiber} |->
              CASE r = small -> 2 [] r = leaf -> 0 [] OTHER -> 1]
=============================================================================
