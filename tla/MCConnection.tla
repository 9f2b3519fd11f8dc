---------------------------- MODULE MCConnection ----------------------------
(* Instances of Connection for TLC.                                        *)
EXTENDS Connection

(* Version numbers 1.1, 1.2, another 1.2 and 1.4; algorithm sets that      *)
(* differ in what the two ends have in common.                             *)
V(header, update) == header * 256 + update
Offer(hash, asym, pqc, dhe, kem) ==
    [HASH |-> hash, ASYM |-> asym, PQC_ASYM |-> pqc, DHE |-> dhe, KEM |-> kem]
Offers ==
    {Offer({1, 2}, {1}, {1, 2}, {1, 2}, {1}), Offer({2}, {1, 2}, {}, {2}, {}),
     Offer({2, 3}, {}, {2}, {}, {1}), Offer({3}, {1}, {}, {2, 3}, {1})}

ConnectionLocals ==
    [reqVer : {<<V(17, 0), V(20, 0)>>, <<V(18, 0), V(18, 1), V(17, 0)>>, <<V(18, 1)>>},
     rspVer : {<<V(20, 0), V(17, 0), V(18, 0)>>, <<V(17, 0), V(20, 1)>>},
     reqAlg : Offers, rspAlg : Offers, pqcFirst : BOOLEAN]

OneLocal ==
    {[reqVer |-> <<V(18, 0)>>, rspVer |-> <<V(18, 0)>>,
      reqAlg |-> Offer({1}, {1}, {}, {1}, {}), rspAlg |-> Offer({1}, {1}, {}, {1}, {}),
      pqcFirst |-> FALSE]}
=============================================================================
