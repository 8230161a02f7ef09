------------------------- MODULE MCReleasePipeline --------------------------
(* The release pipeline, and the c8s bump that prepares a release: they    *)
(* share no state of the model, one per behaviour.                         *)
EXTENDS ReleasePipeline, C8sBump, FiniteSets

CONSTANT MaxLocked                  \* bound: tags pinned in one history
VARIABLE part

(* Two images, a staging and a production release of one version and a     *)
(* staging release of a second one, with its transition.  The history      *)
(* starts with a commit that added the images; later commits take one      *)
(* back, change the other one, or change the chart with the c8s pin.       *)
T(v, p, x) == [version |-> v, profile |-> p, transition |-> x]
MCTag == {T("v1", "staging", FALSE), T("v1", "production", FALSE),
          T("v2", "staging", FALSE), T("v2", "staging", TRUE)}
MCNamed == [p \in Profile |-> Image]
MCRendered == [p \in Profile |-> IF p = "staging" THEN Image ELSE {"gateway"}]
S(g, r, chart, c8s) ==
  [images |-> [i \in Image |-> IF i = "gateway" THEN g ELSE r], chart |-> chart,
   c8s |-> c8s]
MCHistory == <<S(0, 0, 1, "stable"), S(1, 1, 1, "stable")>>
MCTree == {S(0, 1, 1, "stable"), S(1, 2, 1, "stable"), S(1, 1, 2, "beta")}

(* c8s releases v1, v2 (new comments in its protocol sources) and v3 (a    *)
(* new protocol and driver), a development build and a beta of v3.         *)
MCKind == [t \in C8sTag |-> IF t \in {"dev", "beta"} THEN t ELSE "release"]
MCProtocol == [t \in C8sTag |-> IF t \in {"v3", "beta"} THEN 2 ELSE 1]
MCComments == [t \in C8sTag |-> IF t = "v2" THEN 2 ELSE 1]
MCDriver == [t \in C8sTag |-> IF t = "v3" THEN 2 ELSE 1]
MCRef == [t \in C8sTag |-> CASE t = "v3" -> 3 [] t = "dev" -> 2 [] OTHER -> 1]
MCOrder == <<"v2", "beta", "v1", "v3", "dev">>

(* What is seen of a beta: what a good one shows, and each single flaw.    *)
GoodBeta == [signed |-> TRUE, beta |-> TRUE, main |-> FALSE, prerelease |-> TRUE,
             assets |-> {"statement", "bundle"}, verifies |-> TRUE, names |-> TRUE,
             local |-> TRUE]
SeenOf(t) ==
  IF Kind[t] # "beta" THEN {GoodBeta}
  ELSE {GoodBeta, [GoodBeta EXCEPT !.assets = {"statement"}]}
         \cup {[GoodBeta EXCEPT ![f] = ~@] : f \in DOMAIN GoodBeta \ {"assets"}}

(* Production alone is not moved while staging shares its layer: the case  *)
(* of MCBumpNamed.  By hand, the records of the new protocol are captured. *)
MCBumpNext ==
  \/ \E t \in C8sTag, named \in SUBSET BumpProfile \ {{}} : \E seen \in SeenOf(t) :
       /\ named = {"production"} => tree.spec["staging"] # NoTag
       /\ Cardinality(tree.lock.commits \cup {t}) <= MaxLocked
       /\ BumpMain(t, named, seen)
  \/ BumpStep \/ BumpFails \/ CommitBump \/ RestoreTree
  \/ \E t \in {"v3", "beta"} : CaptureByHand(t)

MCInit ==
  /\ part \in {"release", "bump"} /\ Init
  /\ \E shared \in BOOLEAN, top \in {NoTag, "v2"} :
       /\ BumpInit("v1", shared, top)
       /\ part = "release" => shared /\ top = NoTag

MCNext ==
  /\ \/ part = "release" /\ Next /\ UNCHANGED bumpVars
     \/ part = "bump" /\ MCBumpNext /\ UNCHANGED vars
  /\ UNCHANGED part

MCSpec == MCInit /\ [][MCNext]_<<vars, bumpVars, part>>
=============================================================================
