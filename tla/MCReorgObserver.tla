---------------------------- MODULE MCReorgObserver ----------------------------
(***************************************************************************)
(* A small block tree for TLC: two branches that part above the first      *)
(* block and one that replaces that block too.                             *)
(*                                                                         *)
(*      g --- a1 --- a2 --- a3 --- a4                                      *)
(*       |      `--- b2 --- b3                                             *)
(*       `--- c1 --- c2                                                    *)
(***************************************************************************)
EXTENDS ReorgObserverProps

CONSTANTS g, a1, a2, a3, a4, b2, b3, c1, c2

MCBlocks  == {g, a1, a2, a3, a4, b2, b3, c1, c2}
MCCarries == {a1, a2, a3, b3, c1}

Path == {<<g>>, <<g, a1>>, <<g, a1, a2>>, <<g, a1, a2, a3>>,
         <<g, a1, a2, a3, a4>>, <<g, a1, b2>>, <<g, a1, b2, b3>>, <<g, c1>>, <<g, c1, c2>>}

Last(p) == p[Cardinality(DOMAIN p)]
To(b)   == CHOOSE p \in Path : Last(p) = b

MCNumber == [b \in MCBlocks |-> Cardinality(DOMAIN To(b)) - 1]
MCBranch == [b \in MCBlocks |-> {To(b)[i] : i \in DOMAIN To(b)}]
=============================================================================
