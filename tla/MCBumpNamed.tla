---------------------------- MODULE MCBumpNamed -----------------------------
(* Two c8s releases of one protocol, moved for any choice of profiles.     *)
EXTENDS C8sBump

MCKind == [t \in C8sTag |-> "release"]
MCSame == [t \in C8sTag |-> 1]
MCOrder == <<"v2", "v1">>

MCInit == \E shared \in BOOLEAN : BumpInit("v1", shared, NoTag)
MCNext ==
  \/ \E t \in C8sTag, named \in SUBSET BumpProfile \ {{}} :
       BumpMain(t, named, CHOOSE seen \in TagFacts : TRUE)
  \/ BumpStep \/ BumpFails \/ CommitBump \/ RestoreTree
MCSpec == MCInit /\ [][MCNext]_bumpVars
=============================================================================
