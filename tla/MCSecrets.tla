---------------------------- MODULE MCSecrets ----------------------------
(***************************************************************************)
(* Values the codecs could confuse, some of which one of them or both lose,*)
(* with and without a second key; and the second key alone, for merging.   *)
(***************************************************************************)
EXTENDS Secrets

MCFields == {"f1", "f2"}

MCMap(v, w) == [f \in MCFields |-> IF f = "f1" THEN v ELSE w]

MCMaps ==
  {MCMap(v, None) : v \in 
      {<<>>, <<Dq, Dq>>, <<Bs, "n">>, <<Bs, Lf, Bs>>, <<Sq, Tab>>, <<Ff, Hash>>, <<Nul, Uni>>}}
    \cup {MCMap(None, <<"a">>), MCMap(<<Cr, Dq>>, <<Tilde>>), MCMap(None, None)}

(* The programs are alike.                                                 *)
MCSymmetry == Permutations(Programs)
===========================================================================
