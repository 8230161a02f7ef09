---------------------------- MODULE ReleaseProof ----------------------------
(* The records the release scripts keep.  bump-c8s.py leaves only          *)
(* committed trees that the release build can use, and protocol manifests  *)
(* that stand for what they were captured from, for any c8s tags and any   *)
(* sequence of moves, failures and restored trees.  The image digests, the *)
(* chart package and the policy of every published release are right, for  *)
(* any history, any profiles and any set of tags.                          *)
EXTENDS ReleasePipeline, C8sBump, TLAPS

(* Digests that were audited and built from the inputs of commit c.        *)
BuiltFrom(ds, c) ==
  \A i \in Image : ds[i] # NoDigest =>
    ds[i] = [inputs |-> main[c].images[i], audited |-> TRUE]

RunsRight ==
  \A r \in DOMAIN runs :
    /\ runs[r].commit \in 1 .. Len(main) /\ runs[r].baseCommit \in 1 .. Len(main)
    /\ runs[r].trusted => BuiltFrom(runs[r].digests, runs[r].commit)

(* What holds of a manifest from its build on.                             *)
ImagesRight(t, m) ==
  /\ m.commit \in 1 .. Len(main)
  /\ BuiltFrom(m.publication, m.commit)
  /\ BuiltFrom(m.images, m.commit)
  /\ BuiltFrom(m.values, m.commit)
  /\ \A i \in Named[t.profile] : m.values[i] # NoDigest

ChartRight(t, m) ==
  /\ m.chart = main[m.commit].chart
  /\ t # StagingOf(t) =>
       releases[StagingOf(t)] # None /\ releases[StagingOf(t)].commit = m.commit

PolicyRight(t, m) ==
  /\ \A v, w \in m.allow : v.name = w.name => v = w
  /\ \A v \in m.allow : t.transition \/ v.name[2] # "helper"
  /\ AllowedImages(m) \subseteq Inventory(m)
  /\ t.transition => releases[Final(t)] # None /\ releases[Final(t)].allow \subseteq m.allow

Right(t, m) == ImagesRight(t, m) /\ ChartRight(t, m) /\ PolicyRight(t, m)

IInv ==
  /\ TypeOK /\ RunsRight
  /\ \A t \in Tag : tags[t] \in 0 .. Len(main)
  /\ \A t \in Tag : built[t] # None => releases[t] = None /\ Right(t, built[t])
  /\ \A t \in Tag : releases[t] # None =>
       Right(t, releases[t]) /\ registry[t.version] = releases[t].chart

-----------------------------------------------------------------------------
(* Tags are records of a version, a profile and a kind.                    *)
LEMMA TagShape ==
  ASSUME NEW t \in Tag
  PROVE  /\ t.version \in Version /\ t.profile \in Profile /\ t.transition \in BOOLEAN
         /\ Final(t) \in Tag /\ StagingOf(t) \in Tag
         /\ StagingOf(t).version = t.version
         /\ t.profile = "staging" => Final(t) = StagingOf(t)
         /\ t.profile = "staging" /\ ~t.transition => t = StagingOf(t)
BY ReleaseAssumption DEF Final, StagingOf, Profile

(* Commits and releases stay: what is right of a manifest stays right.     *)
LEMMA RightStays ==
  ASSUME IInv, NEW t \in Tag, NEW m, Right(t, m),
         Len(main') \in Nat, Len(main) <= Len(main'),
         \A c \in 1 .. Len(main) : main'[c] = main[c],
         \A u \in Tag : releases[u] # None => releases'[u] = releases[u]
  PROVE  Right(t, m)'
<1>0. Len(main) \in Nat
  BY DEF IInv, TypeOK
<1>1. ImagesRight(t, m)'
  BY <1>0 DEF Right, ImagesRight, BuiltFrom
<1>2. ChartRight(t, m)'
  BY <1>0, TagShape DEF Right, ImagesRight, ChartRight
<1>3. PolicyRight(t, m)'
  BY TagShape DEF Right, PolicyRight, AllowedImages, Inventory, Published
<1> QED BY <1>1, <1>2, <1>3 DEF Right

LEMMA InitRight == Init => IInv
BY ReleaseAssumption DEF Init, IInv, TypeOK, RunsRight

-----------------------------------------------------------------------------
(* One lemma per kind of step                                              *)

LEMMA CommitStep ==
  ASSUME IInv, NEW s \in Tree, Commit(s)
  PROVE  IInv'
<1> USE DEF Commit
<1>1. /\ s \in Source /\ main \in Seq(Source) /\ Len(main) \in Nat
      /\ Len(main') = Len(main) + 1 /\ main' \in Seq(Source)
      /\ \A c \in 1 .. Len(main) : main'[c] = main[c]
  BY ReleaseAssumption DEF IInv, TypeOK
<1>2. TypeOK'
  BY <1>1 DEF IInv, TypeOK
<1>3. RunsRight'
  BY <1>1 DEF IInv, RunsRight, BuiltFrom
<1>4. \A t \in Tag : tags'[t] \in 0 .. Len(main')
  BY <1>1 DEF IInv
<1>5. ASSUME NEW t \in Tag, built[t] # None
      PROVE  Right(t, built[t])'
  <2>1. PICK m : m = built[t]
    OBVIOUS
  <2>2. Right(t, m)'
    BY <1>1, <1>5, <2>1, RightStays DEF IInv
  <2> QED BY <2>1, <2>2
<1>6. ASSUME NEW t \in Tag, releases[t] # None
      PROVE  Right(t, releases[t])'
  <2>1. PICK m : m = releases[t]
    OBVIOUS
  <2>2. Right(t, m)'
    BY <1>1, <1>6, <2>1, RightStays DEF IInv
  <2> QED BY <2>1, <2>2
<1> QED BY <1>2, <1>3, <1>4, <1>5, <1>6 DEF IInv

LEMMA SameManifest ==
  ASSUME UNCHANGED <<main, releases>>, NEW t, NEW m
  PROVE  Right(t, m)' <=> Right(t, m)
<1>1. ImagesRight(t, m)' <=> ImagesRight(t, m)
  BY DEF ImagesRight, BuiltFrom
<1>2. ChartRight(t, m)' <=> ChartRight(t, m)
  BY DEF ChartRight
<1>3. PolicyRight(t, m)' <=> PolicyRight(t, m)
  BY DEF PolicyRight, AllowedImages, Inventory
<1> QED BY Zenon, <1>1, <1>2, <1>3 DEF Right

(* Steps that leave the commits, the manifests and the registry alone.     *)
LEMMA ManifestsKept ==
  ASSUME IInv, UNCHANGED <<main, built, releases, registry>>,
         TypeOK', RunsRight', \A t \in Tag : tags'[t] \in 0 .. Len(main)
  PROVE  IInv'
<1>1. ASSUME NEW t \in Tag, built'[t] # None
      PROVE  releases'[t] = None /\ Right(t, built[t])'
  <2>1. PICK m : m = built[t] /\ m = built'[t]
    BY Zenon
  <2>2. releases[t] = None /\ Right(t, m)
    BY Zenon, <1>1, <2>1 DEF IInv
  <2>3. Right(t, m)'
    BY Zenon, <2>2, SameManifest
  <2> QED BY <2>1, <2>2, <2>3
<1>2. ASSUME NEW t \in Tag, releases'[t] # None
      PROVE  Right(t, releases[t])' /\ registry'[t.version] = releases'[t].chart
  <2>1. PICK m : m = releases[t] /\ m = releases'[t]
    BY Zenon
  <2>2. registry[t.version] = m.chart /\ Right(t, m)
    BY Zenon, <1>2, <2>1 DEF IInv
  <2>3. Right(t, m)'
    BY Zenon, <2>2, SameManifest
  <2> QED BY <2>1, <2>2, <2>3
<1>3. \A t \in Tag : tags'[t] \in 0 .. Len(main')
  BY Zenon
<1> QED BY Zenon, <1>1, <1>2, <1>3 DEF IInv

LEMMA PushTagStep ==
  ASSUME IInv, NEW t \in Tag, NEW c \in 1 .. Len(main), PushTag(t, c)
  PROVE  IInv'
<1> USE DEF PushTag
<1>1. TypeOK' /\ \A u \in Tag : tags'[u] \in 0 .. Len(main)
  BY DEF IInv, TypeOK
<1>2. RunsRight'
  BY DEF IInv, RunsRight, BuiltFrom
<1> QED BY <1>1, <1>2, ManifestsKept

LEMMA DispatchStep ==
  ASSUME IInv, NEW base \in Tag \cup {None}, NEW b \in 1 .. Len(main),
         NEW trusted \in BOOLEAN, Dispatch(base, b, trusted)
  PROVE  IInv'
<1> DEFINE ds == [i \in Image |->
             IF i \in Affected(b, Len(main))
             THEN [inputs |-> main[Len(main)].images[i], audited |-> trusted]
             ELSE NoDigest]
           run == [commit |-> Len(main), base |-> base, baseCommit |-> b,
                   trusted |-> trusted, state |-> "running", digests |-> ds]
<1>1. /\ runs' = Append(runs, run) /\ Len(main) \in Nat /\ Len(main) \in 1 .. Len(main)
      /\ UNCHANGED <<main, tags, moves, built, pushed, releases, registry>>
      /\ runs \in Seq(Run) /\ main[Len(main)] \in Source
  BY DEF Dispatch, IInv, TypeOK
<1>2. ds \in Digests
  BY Zenon, <1>1 DEF Digests, Digest, NoDigest, Source
<1>3. run \in Run
  BY <1>1, <1>2 DEF Run
<1>4. TypeOK'
  BY <1>1, <1>3 DEF IInv, TypeOK
<1>5. trusted => BuiltFrom(ds, Len(main))
  BY DEF BuiltFrom
<1> HIDE DEF ds
<1>6. RunsRight'
  BY <1>1, <1>5 DEF IInv, RunsRight, BuiltFrom
<1> QED BY <1>1, <1>4, <1>6, ManifestsKept DEF IInv

LEMMA RunStep ==
  ASSUME IInv, NEW r \in DOMAIN runs, Conclude(r) \/ Expire(r)
  PROVE  IInv'
<1>1. PICK x \in {"success", "expired"} : runs' = [runs EXCEPT ![r].state = x]
  BY DEF Conclude, Expire
<1>2. UNCHANGED <<main, tags, moves, built, pushed, releases, registry>>
  BY DEF Conclude, Expire
<1>3. runs \in Seq(Run) /\ runs[r] \in Run
  BY DEF IInv, TypeOK
<1>4. runs' = [runs EXCEPT ![r] = [runs[r] EXCEPT !.state = x]]
  BY <1>1
<1>5. [runs[r] EXCEPT !.state = x] \in Run
  BY Zenon, <1>3 DEF Run
<1>6. TypeOK'
  BY <1>2, <1>3, <1>4, <1>5 DEF IInv, TypeOK
<1>7. DOMAIN runs' = DOMAIN runs /\ \A q \in DOMAIN runs :
        /\ runs'[q].commit = runs[q].commit /\ runs'[q].baseCommit = runs[q].baseCommit
        /\ runs'[q].trusted = runs[q].trusted /\ runs'[q].digests = runs[q].digests
  BY <1>3, <1>4 DEF Run
<1>8. RunsRight'
  BY <1>2, <1>7 DEF IInv, RunsRight, BuiltFrom
<1> QED BY <1>2, <1>6, <1>8, ManifestsKept DEF IInv

-----------------------------------------------------------------------------
(* The release build                                                       *)

(* A digest comes from the run, whose inputs are those of the release      *)
(* commit, or from a base release whose inputs of that image are.          *)
LEMMA DigestRight ==
  ASSUME IInv, NEW t \in Tag, NEW named, NEW r \in DOMAIN runs, Buildable(t, named, r),
         NEW i \in Image
  PROVE  /\ ReleaseDigest(r, i) \in Digest
         /\ ReleaseDigest(r, i) # NoDigest =>
              ReleaseDigest(r, i) = [inputs |-> main[tags[t]].images[i], audited |-> TRUE]
<1> DEFINE c == tags[t]
           k == runs[r].commit
           b == runs[r].baseCommit
<1>1. /\ c \in 1 .. Len(main) /\ k \in 1 .. Len(main) /\ b \in 1 .. Len(main)
      /\ runs[r] \in Run /\ runs[r].trusted /\ BuiltFrom(runs[r].digests, k)
  BY DEF Buildable, Evidence, TrustedRuns, IInv, RunsRight, TypeOK
<1>2. main[k].images[i] = main[c].images[i]
  BY DEF Buildable, ImagesUnchanged, Affected
<1>3. CASE i \in Published(runs[r].digests)
  BY Zenon, <1>1, <1>2, <1>3 DEF ReleaseDigest, Published, BuiltFrom, Run, Digests
<1>4. CASE i \notin Published(runs[r].digests) /\ runs[r].base = None
  BY Zenon, <1>4 DEF ReleaseDigest, BaseDigest, NoDigest, Digest
<1>5. CASE i \notin Published(runs[r].digests) /\ runs[r].base # None
  <2>1. PICK base : base = releases[runs[r].base]
    OBVIOUS
  <2>2. /\ runs[r].base \in Tag /\ base # None /\ base.commit = b
        /\ main[b].images[i] = main[k].images[i]
    BY Zenon, <1>1, <1>5, <2>1 DEF Buildable, BaseFits, Affected, Run
  <2>3. base \in Manifest /\ ImagesRight(runs[r].base, base)
    BY <2>1, <2>2 DEF IInv, TypeOK, Right
  <2>4. ReleaseDigest(r, i) \in {base.publication[i], base.images[i], base.values[i]}
    BY Zenon, <1>5, <2>1 DEF ReleaseDigest, BaseDigest
  <2>5. base.publication[i] \in Digest /\ base.images[i] \in Digest /\ base.values[i] \in Digest
    BY <2>3 DEF Manifest, Digests
  <2>6. BuiltFrom(base.publication, b) /\ BuiltFrom(base.images, b) /\ BuiltFrom(base.values, b)
    BY <2>2, <2>3 DEF ImagesRight
  <2>7. \A d \in {base.publication[i], base.images[i], base.values[i]} :
          d # NoDigest => d = [inputs |-> main[b].images[i], audited |-> TRUE]
    BY Zenon, <2>6 DEF BuiltFrom
  <2> QED BY Zenon, <1>2, <2>2, <2>4, <2>5, <2>7
<1> QED BY <1>3, <1>4, <1>5

(* The manifest every build starts from                                    *)
LEMMA ManifestRight ==
  ASSUME IInv, NEW t \in Tag, NEW named, NEW r \in DOMAIN runs, Buildable(t, named, r),
         NEW m, m = ManifestOf(t, r)
  PROVE  /\ m \in Manifest /\ ImagesRight(t, m)
         /\ m.commit = tags[t] /\ m.chart = main[m.commit].chart
         /\ m.inputs = {}
         /\ \A i \in Rendered[t.profile] : m.images[i] # NoDigest
         /\ m.allow = {[name |-> WorkloadName(t, i), image |-> i, digest |-> m.images[i],
                           process |-> m.chart] :
                         i \in Rendered[t.profile]}
<1> DEFINE ds == [i \in Image |-> ReleaseDigest(r, i)]
<1>1. /\ t.profile \in Profile /\ t.version \in Version
      /\ Named[t.profile] \subseteq Image /\ Rendered[t.profile] \subseteq Named[t.profile]
  BY Zenon, TagShape, ReleaseAssumption
<1>2. tags[t] \in 1 .. Len(main) /\ main[tags[t]] \in Source /\ runs[r] \in Run
  BY DEF Buildable, IInv, TypeOK
<1>3. ds \in Digests /\ BuiltFrom(ds, tags[t])
  BY DigestRight DEF Digests, BuiltFrom
<1>4. \A i \in Named[t.profile] : ds[i] # NoDigest
  BY Zenon, <1>1 DEF Buildable
<1>5. BuiltFrom(runs[r].digests, tags[t])
  <2>1. \A i \in Image : runs[r].digests[i] # NoDigest => ds[i] = runs[r].digests[i]
    BY DEF ReleaseDigest, Published
  <2> QED BY Zenon, <1>3, <2>1 DEF BuiltFrom
<1>6. m = [commit |-> tags[t], c8s |-> main[tags[t]].c8s, publication |-> runs[r].digests,
           images |-> Only(Rendered[t.profile], ds), values |-> Only(Named[t.profile], ds),
           chart |-> main[tags[t]].chart, allow |-> Entries(t, ds, main[tags[t]].chart),
           inputs |-> {}]
  BY Zenon DEF ManifestOf
<1> HIDE DEF ds
<1>7. \A is : Only(is, ds) \in Digests /\ BuiltFrom(Only(is, ds), tags[t])
  BY Zenon, <1>3 DEF Only, BuiltFrom, Digests, Digest, NoDigest
<1>8. /\ \A i \in Rendered[t.profile] : Only(Rendered[t.profile], ds)[i] = ds[i]
      /\ \A i \in Named[t.profile] : Only(Named[t.profile], ds)[i] = ds[i]
  BY Zenon, <1>1 DEF Only
<1>9. Entries(t, ds, main[tags[t]].chart) \in SUBSET Workload
  BY <1>1, <1>2, <1>3 DEF Entries, Workload, WorkloadName, Digests, Source
<1>10. m \in Manifest
  BY <1>2, <1>6, <1>7, <1>9 DEF Manifest, Source, Run
<1>11. ImagesRight(t, m)
  BY <1>2, <1>4, <1>5, <1>6, <1>7, <1>8 DEF ImagesRight
<1>12. m.allow = {[name |-> WorkloadName(t, i), image |-> i, digest |-> m.images[i],
                           process |-> m.chart] :
                    i \in Rendered[t.profile]}
  BY <1>6, <1>8 DEF Entries
<1> QED BY <1>1, <1>4, <1>6, <1>8, <1>10, <1>11, <1>12

(* A manifest that is right joins the builds.                              *)
LEMMA BuiltRight ==
  ASSUME IInv, NEW t \in Tag, NEW m \in Manifest, Right(t, m), releases[t] = None,
         built' = [built EXCEPT ![t] = m],
         UNCHANGED <<main, runs, tags, moves, pushed, releases, registry>>
  PROVE  IInv'
<1>1. TypeOK' /\ RunsRight'
  BY DEF IInv, TypeOK, RunsRight, BuiltFrom
<1>2. \A u, n : Right(u, n)' <=> Right(u, n)
  BY Zenon, SameManifest
<1>3. \A u \in Tag : built'[u] = IF u = t THEN m ELSE built[u]
  BY DEF IInv, TypeOK
<1>4. \A u \in Tag : built'[u] # None => releases'[u] = None /\ Right(u, built'[u])
  BY <1>3 DEF IInv
<1>5. \A u \in Tag : built'[u] # None => releases'[u] = None /\ Right(u, built[u])'
  <2> SUFFICES ASSUME NEW u \in Tag, built'[u] # None PROVE releases'[u] = None /\ Right(u, built[u])'
    OBVIOUS
  <2>1. PICK n : n = built'[u]
    OBVIOUS
  <2>2. Right(u, n)'
    BY <1>2, <1>4, <2>1
  <2> QED BY <1>4, <2>1, <2>2
<1>6. \A u \in Tag : releases'[u] # None =>
        Right(u, releases[u])' /\ registry'[u.version] = releases'[u].chart
  <2> SUFFICES ASSUME NEW u \in Tag, releases'[u] # None
               PROVE  Right(u, releases[u])' /\ registry'[u.version] = releases'[u].chart
    OBVIOUS
  <2>1. PICK n : n = releases'[u]
    OBVIOUS
  <2>2. Right(u, n)'
    BY Zenon, <1>2, <2>1 DEF IInv
  <2> QED BY <2>1, <2>2 DEF IInv
<1> QED BY Zenon, <1>1, <1>5, <1>6 DEF IInv

LEMMA BuildStep ==
  ASSUME IInv, NEW t \in Tag, NEW named, NEW r \in DOMAIN runs, Build(t, named, r)
  PROVE  IInv'
<1>1. PICK m : m = ManifestOf(t, r)
  OBVIOUS
<1>2. /\ ~t.transition /\ Buildable(t, named, r) /\ built' = [built EXCEPT ![t] = m]
      /\ releases[t] = None
      /\ UNCHANGED <<main, runs, tags, moves, pushed, releases, registry>>
  BY Zenon, <1>1 DEF Build, Buildable
<1>3. /\ m \in Manifest /\ ImagesRight(t, m)
      /\ m.commit = tags[t] /\ m.chart = main[m.commit].chart /\ m.inputs = {}
      /\ \A i \in Rendered[t.profile] : m.images[i] # NoDigest
      /\ m.allow = {[name |-> WorkloadName(t, i), image |-> i, digest |-> m.images[i],
                           process |-> m.chart] :
                      i \in Rendered[t.profile]}
  BY SMTT(30), <1>1, <1>2, ManifestRight
<1>4. ChartRight(t, m)
  BY Zenon, <1>2, <1>3, TagShape DEF ChartRight, Buildable, ChartBound, Profile
<1>5. PolicyRight(t, m)
  <2>1. Rendered[t.profile] \subseteq Image /\ t.version \in Version
    BY TagShape, ReleaseAssumption
  <2>2. \A v, w \in m.allow : v.name = w.name => v = w
    BY <1>3 DEF WorkloadName
  <2>3. \A v \in m.allow : v.name[2] # "helper"
    BY <1>3, <2>1, ReleaseAssumption DEF WorkloadName
  <2>4. AllowedImages(m) \subseteq Inventory(m)
    BY SMTT(30), <1>3, <2>1 DEF AllowedImages, Inventory, Published
  <2> QED BY Zenon, <1>2, <2>2, <2>3, <2>4 DEF PolicyRight
<1> QED BY ZenonT(30), <1>2, <1>3, <1>4, <1>5, BuiltRight DEF Right

LEMMA TransitionStep ==
  ASSUME IInv, NEW t \in Tag, NEW named, NEW r \in DOMAIN runs, NEW from \in Tag,
         BuildTransition(t, named, r, from)
  PROVE  IInv'
<1>1. PICK m : m = ManifestOf(t, r)
  OBVIOUS
<1>2. PICK old : old = releases[from]
  OBVIOUS
<1>3. PICK new : new = releases[Final(t)]
  OBVIOUS
<1>4. PICK permitted : permitted = Inventory(old) \cup Inventory(new)
                                     \cup AllowedImages(old) \cup AllowedImages(new)
  BY Zenon
<1>5. PICK n : n = [m EXCEPT !.allow = old.allow \cup new.allow \cup HelperEntries(m),
                            !.inputs = permitted \ Inventory(m)]
  OBVIOUS
<1>6. /\ t.transition /\ Buildable(t, named, r) /\ ~from.transition
      /\ old # None /\ new # None /\ new.commit = m.commit
      /\ Helpers \subseteq Published(m.images) /\ Composable(old, new)
      /\ built' = [built EXCEPT ![t] = n] /\ releases[t] = None
      /\ UNCHANGED <<main, runs, tags, moves, pushed, releases, registry>>
  BY <1>1, <1>2, <1>3, <1>4, <1>5 DEF BuildTransition, Buildable
<1>7. /\ m \in Manifest /\ ImagesRight(t, m)
      /\ m.commit = tags[t] /\ m.chart = main[m.commit].chart
  BY <1>1, <1>6, ManifestRight
<1>8. /\ old \in Manifest /\ new \in Manifest /\ Final(t) \in Tag /\ ~Final(t).transition
      /\ PolicyRight(from, old) /\ PolicyRight(Final(t), new)
  BY ZenonT(30), <1>2, <1>3, <1>6, TagShape, ReleaseAssumption DEF IInv, TypeOK, Right, Final
<1>9. /\ HelperEntries(m) \subseteq Workload
      /\ \A v \in HelperEntries(m) : v.name[2] = "helper"
      /\ \A v, w \in HelperEntries(m) : v.name = w.name => v = w
  BY <1>6, <1>7 DEF HelperEntries, Workload, Manifest, Digests, Published
<1>10. permitted \subseteq Image \X Digest
  <2>1. \A x \in Manifest : Inventory(x) \subseteq Image \X Digest
    BY DEF Inventory, Published, Manifest, Digests
  <2>2. \A x \in Manifest : AllowedImages(x) \subseteq Image \X Digest
    BY DEF AllowedImages, Manifest, Workload
  <2> QED BY <1>4, <1>8, <2>1, <2>2
<1>11. /\ n \in Manifest
       /\ n.commit = m.commit /\ n.publication = m.publication /\ n.images = m.images
       /\ n.values = m.values /\ n.chart = m.chart
       /\ n.allow = old.allow \cup new.allow \cup HelperEntries(m)
       /\ n.inputs = permitted \ Inventory(m)
  BY ZenonT(30), <1>5, <1>7, <1>8, <1>9, <1>10 DEF Manifest
<1>12. ImagesRight(t, n)
  BY Zenon, <1>7, <1>11 DEF ImagesRight
<1>13. ChartRight(t, n)
  BY Zenon, <1>3, <1>6, <1>7, <1>11, TagShape DEF ChartRight, Buildable, ChartBound, Profile
<1>14. PolicyRight(t, n)
  <2>1. \A v \in old.allow \cup new.allow : v.name[2] # "helper"
    BY Zenon, <1>6, <1>8 DEF PolicyRight
  <2>2. \A v, w \in n.allow : v.name = w.name => v = w
    BY Zenon, <1>6, <1>9, <1>11, <2>1 DEF Composable
  <2>3. AllowedImages(n) \subseteq Inventory(n)
    <3>1. AllowedImages(n) = AllowedImages(old) \cup AllowedImages(new)
                               \cup {<<v.image, v.digest>> : v \in HelperEntries(m)}
      BY Zenon, <1>11 DEF AllowedImages
    <3>2. {<<v.image, v.digest>> : v \in HelperEntries(m)} \subseteq Inventory(m)
      BY <1>6 DEF HelperEntries, Inventory
    <3>3. Inventory(m) \cup permitted \subseteq Inventory(n) \cup m.inputs
      BY Zenon, <1>11 DEF Inventory
    <3>4. m.inputs = {}
      BY Zenon, <1>1, <1>6, ManifestRight
    <3> QED BY <1>4, <3>1, <3>2, <3>3, <3>4
  <2> QED BY Zenon, <1>3, <1>6, <1>11, <2>2, <2>3 DEF PolicyRight
<1> QED BY Zenon, <1>6, <1>11, <1>12, <1>13, <1>14, BuiltRight DEF Right

-----------------------------------------------------------------------------
(* The publish job                                                         *)

(* The first push under a version is of its staging release, and no other  *)
(* release of the version is out before that; a later push is of a         *)
(* transition release of the same commit and repeats the package.          *)
LEMMA PushChartStep ==
  ASSUME IInv, NEW t \in Tag, PushChart(t)
  PROVE  IInv'
<1> USE DEF PushChart
<1>1. built[t] \in Manifest /\ Right(t, built[t]) /\ releases[t] = None
  BY SMTT(30) DEF IInv, TypeOK
<1>2. TypeOK' /\ RunsRight'
  BY ZenonT(30), <1>1, TagShape DEF IInv, TypeOK, RunsRight, BuiltFrom, Manifest
<1>3. ASSUME NEW u \in Tag, releases[u] # None
      PROVE  registry'[u.version] = releases[u].chart
  <2>1. registry \in [Version -> Content \cup {None}] /\ u.version \in Version
    BY Zenon, TagShape DEF IInv, TypeOK
  <2>2. registry[u.version] = releases[u].chart /\ Right(u, releases[u])
    BY Zenon, <1>3 DEF IInv
  <2>3. CASE t.profile # "staging" \/ t.version # u.version
    BY <2>1, <2>2, <2>3
  <2>4. CASE t.profile = "staging" /\ t.version = u.version
    <3>1. StagingOf(t) = StagingOf(u) /\ StagingOf(t) \in Tag
      BY <2>4, TagShape DEF StagingOf
    <3>2. releases[StagingOf(t)] # None
      BY Zenon, <1>3, <2>2, <3>1 DEF Right, ChartRight
    <3>3. t # StagingOf(t)
      BY Zenon, <1>1, <3>2
    <3>4. releases[StagingOf(t)].commit = built[t].commit
      BY Zenon, <1>1, <3>3 DEF Right, ChartRight
    <3>5. releases[StagingOf(t)].chart = built[t].chart
      BY Zenon, <1>1, <3>1, <3>2, <3>4 DEF IInv, Right, ChartRight
    <3>6. registry[StagingOf(t).version] = built[t].chart /\ StagingOf(t).version = u.version
      BY Zenon, <2>4, <3>1, <3>2, <3>5, TagShape DEF IInv
    <3> QED BY <2>1, <2>2, <2>4, <3>6
  <2> QED BY Zenon, <2>3, <2>4
<1>4. ASSUME NEW u \in Tag, NEW n, Right(u, n)
      PROVE  Right(u, n)'
  BY SMTT(30), <1>4, RightStays DEF IInv, TypeOK
<1>5. ASSUME NEW u \in Tag, built'[u] # None
      PROVE  releases'[u] = None /\ Right(u, built[u])'
  <2>1. PICK n : n = built[u]
    BY Zenon
  <2>2. Right(u, n) /\ releases[u] = None
    BY Zenon, <1>5, <2>1 DEF IInv
  <2> QED BY Zenon, <1>4, <2>1, <2>2
<1>6. ASSUME NEW u \in Tag, releases'[u] # None
      PROVE  Right(u, releases[u])'
  <2>1. PICK n : n = releases[u]
    OBVIOUS
  <2>2. Right(u, n)
    BY Zenon, <1>6, <2>1 DEF IInv
  <2> QED BY Zenon, <1>4, <2>1, <2>2
<1> QED BY Zenon, <1>2, <1>3, <1>5, <1>6 DEF IInv

LEMMA PublishStep ==
  ASSUME IInv, NEW t \in Tag, Publish(t)
  PROVE  IInv'
<1>1. PICK m : m = built[t]
  OBVIOUS
<1>2. m \in Manifest /\ Right(t, m) /\ releases[t] = None
  BY Zenon, <1>1 DEF Publish, IInv, TypeOK
<1>3. /\ built' = [built EXCEPT ![t] = None] /\ pushed' = pushed \ {t}
      /\ UNCHANGED <<main, runs, tags, moves, registry>>
      /\ \/ releases' = releases
         \/ releases' = [releases EXCEPT ![t] = m] /\ registry[t.version] = m.chart
  BY Zenon, <1>1 DEF Publish, Publishable
<1>4. \A u \in Tag : releases[u] # None => releases'[u] = releases[u]
  BY Zenon, <1>2, <1>3 DEF IInv, TypeOK
<1>5. TypeOK' /\ RunsRight'
  BY ZenonT(30), <1>2, <1>3 DEF IInv, TypeOK, RunsRight, BuiltFrom
<1>6. ASSUME NEW u \in Tag, NEW n, Right(u, n)
      PROVE  Right(u, n)'
  <2>1. main' = main /\ Len(main) \in Nat
    BY <1>3 DEF IInv, TypeOK
  <2>2. Len(main') \in Nat /\ Len(main) <= Len(main') /\ \A c \in 1 .. Len(main) : main'[c] = main[c]
    BY <2>1
  <2> QED BY Zenon, <1>4, <1>6, <2>2, RightStays
<1>7. ASSUME NEW u \in Tag, built'[u] # None
      PROVE  releases'[u] = None /\ Right(u, built[u])'
  <2>1. u # t /\ built'[u] = built[u]
    BY Zenon, <1>3, <1>7 DEF IInv, TypeOK
  <2>2. PICK n : n = built[u]
    OBVIOUS
  <2>3. Right(u, n) /\ releases[u] = None
    BY Zenon, <1>7, <2>1, <2>2 DEF IInv
  <2>4. releases'[u] = None
    BY Zenon, <1>3, <2>1, <2>3 DEF IInv, TypeOK
  <2> QED BY Zenon, <1>6, <2>1, <2>2, <2>3, <2>4
<1>8. ASSUME NEW u \in Tag, releases'[u] # None
      PROVE  Right(u, releases[u])' /\ registry'[u.version] = releases'[u].chart
  <2>1. PICK n : n = releases'[u]
    OBVIOUS
  <2>2. Right(u, n) /\ registry[u.version] = n.chart
    <3>1. CASE u = t
      BY Zenon, <1>2, <1>3, <1>8, <2>1, <3>1 DEF IInv, TypeOK
    <3>2. CASE u # t
      BY Zenon, <1>3, <1>8, <2>1, <3>2 DEF IInv, TypeOK
    <3> QED BY Zenon, <3>1, <3>2
  <2> QED BY Zenon, <1>3, <1>6, <2>1, <2>2
<1> QED BY Zenon, <1>3, <1>5, <1>7, <1>8 DEF IInv

-----------------------------------------------------------------------------
LEMMA NextRight == IInv /\ [Next]_vars => IInv'
<1> SUFFICES ASSUME IInv, [Next]_vars PROVE IInv'
  OBVIOUS
<1>1. CASE Next
  BY <1>1, CommitStep, PushTagStep, DispatchStep, RunStep, BuildStep, TransitionStep,
     PushChartStep, PublishStep DEF Next
<1>2. CASE UNCHANGED vars
  <2>1. TypeOK' /\ RunsRight'
    BY Zenon, <1>2 DEF vars, IInv, TypeOK, RunsRight, BuiltFrom
  <2> QED BY Zenon, <1>2, <2>1, ManifestsKept DEF vars, IInv
<1> QED BY <1>1, <1>2

LEMMA AlwaysRight == Spec => []IInv
BY InitRight, NextRight, PTL DEF Spec

(* The variables of the release tooling keep their types: every manifest   *)
(* the build writes has the fields later builds read from it.              *)
THEOREM ReleaseTypes == Spec => []TypeOK
BY AlwaysRight, PTL DEF IInv

(* Every image of every published release was audited and built from the   *)
(* inputs of the release commit, however long the chain of base releases   *)
(* is that base_release_images follows.                                    *)
THEOREM ImagesAlwaysCurrent == Spec => []ImagesCurrent
<1>1. IInv => ImagesCurrent
  <2> SUFFICES ASSUME IInv, NEW t \in Tag, releases[t] # None, NEW i \in Named[t.profile]
               PROVE  /\ releases[t].values[i].audited
                      /\ releases[t].values[i].inputs = main[releases[t].commit].images[i]
    BY DEF ImagesCurrent
  <2>1. i \in Image
    BY Zenon, TagShape, ReleaseAssumption
  <2>2. ImagesRight(t, releases[t])
    BY ZenonT(30) DEF IInv, Right
  <2>3. releases[t].values[i]
          = [inputs |-> main[releases[t].commit].images[i], audited |-> TRUE]
    BY Zenon, <2>1, <2>2 DEF ImagesRight, BuiltFrom
  <2>4. releases[t].values[i].audited = TRUE
    BY <2>3
  <2>5. releases[t].values[i].inputs = main[releases[t].commit].images[i]
    BY <2>3
  <2> QED BY <2>4, <2>5
<1> QED BY <1>1, AlwaysRight, PTL

(* The chart reference of a published release keeps naming the package its *)
(* manifest binds, and production has the commit that staging had.         *)
THEOREM ChartAlwaysPromoted == Spec => []ChartPromoted
<1>1. IInv => ChartPromoted
  <2> SUFFICES ASSUME IInv, NEW t \in Tag, releases[t] # None
               PROVE  /\ registry[t.version] = releases[t].chart
                      /\ releases[t].chart = main[releases[t].commit].chart
                      /\ t.profile = "production" =>
                           /\ releases[StagingOf(t)] # None
                           /\ releases[StagingOf(t)].commit = releases[t].commit
    BY DEF ChartPromoted
  <2>1. registry[t.version] = releases[t].chart /\ ChartRight(t, releases[t])
    BY Zenon DEF IInv, Right
  <2>2. t.profile = "production" => t # StagingOf(t)
    BY SMTT(30) DEF StagingOf
  <2> QED BY <2>1, <2>2 DEF ChartRight
<1> QED BY <1>1, AlwaysRight, PTL

(* compose_transition_policy never gives a name two definitions, and no    *)
(* published policy allows an image outside the manifest's inventory.      *)
THEOREM PolicyAlwaysCovers == Spec => []PolicyCovers
<1>1. IInv => PolicyCovers
  BY Zenon DEF IInv, Right, PolicyRight, PolicyCovers
<1> QED BY <1>1, AlwaysRight, PTL
-----------------------------------------------------------------------------
(* bump-c8s.py.                                                            *)

(* The steps of the running script, and its files.                         *)
Stage == {"idle", "failed", "spec", "values", "module", "lock", "protocol", "cdi", "seed",
          "nodes", "fixture", "check", "done"}
LayerFile == [Layer -> C8sTag \cup {NoTag}]
Files ==
  [spec : LayerFile, values : LayerFile, nodes : LayerFile, gomod : C8sTag,
   lock : [top : C8sTag \cup {NoTag}, commits : SUBSET C8sTag],
   protocols : [C8sTag -> SUBSET C8sTag], noted : SUBSET C8sTag,
   cdi : [{Driver[x] : x \in C8sTag} -> SUBSET C8sTag],
   seeds : SUBSET C8sTag, fixture : C8sTag]

(* The shared layer always sets c8s.                                       *)
BumpTypes ==
  /\ tree \in Files /\ tree.spec["release"] # NoTag
  /\ head \in Files /\ head.spec["release"] # NoTag
  /\ bump \in [at : Stage, tag : C8sTag \cup {NoTag}, named : SUBSET BumpProfile,
               moved : SUBSET BumpProfile, old : C8sTag \cup {NoTag},
               before : [BumpProfile -> C8sTag \cup {NoTag}]]
  /\ bump.at # "idle" => bump.tag \in C8sTag /\ bump.old \in C8sTag
  /\ channel \in [C8sTag -> SUBSET TagFacts]

(* The layer a profile takes its c8s from.                                 *)
LEMMA Owners ==
  ASSUME NEW file, file["release"] # NoTag
  PROVE  /\ owning_file(file, "production") = "release"
         /\ owning_file(file, "staging") =
              IF file["staging"] # NoTag THEN "staging" ELSE "release"
<1>1. owning_file(file, "production") = "release"
  <2> DEFINE own == {i \in DOMAIN Layers("production") : file[Layers("production")[i]] # NoTag}
  <2>1. Layers("production") = <<"release">> BY DEF Layers
  <2>2. own = {1} BY <2>1
  <2> DEFINE last == CHOOSE i \in own : \A j \in own : j <= i
  <2>3. owning_file(file, "production") = Layers("production")[last] BY DEF owning_file
  <2>4. last = 1
    <3> HIDE DEF own
    <3> QED BY <2>2
  <2> HIDE DEF last, own
  <2> QED BY <2>1, <2>3, <2>4
<1>2. owning_file(file, "staging") = IF file["staging"] # NoTag THEN "staging" ELSE "release"
  <2> DEFINE own == {i \in DOMAIN Layers("staging") : file[Layers("staging")[i]] # NoTag}
  <2>1. Layers("staging") = <<"release", "staging">> BY DEF Layers
  <2>2. own = IF file["staging"] # NoTag THEN {1, 2} ELSE {1} BY <2>1
  <2> DEFINE last == CHOOSE i \in own : \A j \in own : j <= i
  <2>3. owning_file(file, "staging") = Layers("staging")[last] BY DEF owning_file
  <2>4. last = IF file["staging"] # NoTag THEN 2 ELSE 1
    <3> HIDE DEF own
    <3> QED BY <2>2
  <2> HIDE DEF last, own
  <2> QED BY <2>1, <2>3, <2>4
<1> QED BY <1>1, <1>2

LEMMA PinnedTags ==
  ASSUME NEW f \in Files, f.spec["release"] # NoTag
  PROVE  /\ ReadSpec(f, "production") = f.spec["release"]
         /\ ReadSpec(f, "staging") =
              IF f.spec["staging"] # NoTag THEN f.spec["staging"] ELSE f.spec["release"]
         /\ \A p \in BumpProfile : ReadSpec(f, p) \in C8sTag
<1>1. f.spec \in LayerFile BY DEF Files
<1>2. /\ owning_file(f.spec, "production") = "release"
      /\ owning_file(f.spec, "staging") =
           IF f.spec["staging"] # NoTag THEN "staging" ELSE "release"
  BY Owners
<1> QED BY <1>1, <1>2 DEF ReadSpec, BumpProfile, LayerFile, Layer

LEMMA PinKeepsType ==
  ASSUME NEW file \in LayerFile, bump.tag \in C8sTag
  PROVE  Pinned(file) \in LayerFile
BY DEF Pinned, edit_yaml, LayerFile

LEMMA BumpTypesInit ==
  ASSUME NEW t \in C8sTag, NEW shared \in BOOLEAN, NEW top \in C8sTag \cup {NoTag},
         BumpInit(t, shared, top)
  PROVE  BumpTypes
<1>1. StartTree(t, shared, top) \in Files
  BY Zenon DEF StartTree, Files, LayerFile
<1>2. StartTree(t, shared, top).spec["release"] # NoTag
  BY Zenon, BumpAssumption DEF StartTree, Layer
<1>3. bump.at = "idle" /\ bump \in [at : Stage, tag : C8sTag \cup {NoTag},
          named : SUBSET BumpProfile, moved : SUBSET BumpProfile, old : C8sTag \cup {NoTag},
          before : [BumpProfile -> C8sTag \cup {NoTag}]]
  BY Zenon DEF BumpInit, NoBump, Stage
<1> QED BY Zenon, <1>1, <1>2, <1>3 DEF BumpTypes, BumpInit

LEMMA StepTypes ==
  ASSUME BumpTypes, NEW from \in Stage, NEW to \in Stage \ {"idle"}, from # "idle",
         Step(from, to), tree' \in Files, tree'.spec["release"] # NoTag
  PROVE  BumpTypes'
BY DEF BumpTypes, Step

LEMMA BumpTypesStep ==
  ASSUME BumpTypes, [BumpNext]_bumpVars
  PROVE  BumpTypes'
<1>1. ASSUME NEW t \in C8sTag, NEW named \in SUBSET BumpProfile, NEW seen \in TagFacts,
             BumpMain(t, named, seen)
      PROVE  BumpTypes'
  <2>1. PICK old \in C8sTag :
          bump' = [at |-> "spec", tag |-> t, named |-> named,
                   moved |-> {p \in named : ReadSpec(tree, p) # t}, old |-> old,
                   before |-> [p \in BumpProfile |-> ReadSpec(tree, p)]]
    BY Zenon, <1>1 DEF BumpMain
  <2>2. \A p \in BumpProfile : ReadSpec(tree, p) \in C8sTag
    BY Zenon, PinnedTags DEF BumpTypes
  <2>3. channel' \in [C8sTag -> SUBSET TagFacts] /\ UNCHANGED <<tree, head>>
    BY Zenon, <1>1 DEF BumpMain, BumpTypes
  <2> QED BY Zenon, <2>1, <2>2, <2>3 DEF BumpTypes, Stage
<1> USE DEF BumpTypes
<1>2. CASE PinSpec
  <2>1. bump.tag \in C8sTag /\ tree.spec \in LayerFile BY <1>2 DEF PinSpec, Step, Files
  <2>2. Pinned(tree.spec) \in LayerFile BY Zenon, <2>1, PinKeepsType
  <2>3. Pinned(tree.spec)["release"] # NoTag
    BY Zenon, <2>1, BumpAssumption DEF Pinned, edit_yaml, Layer
  <2>4. tree' \in Files /\ tree'.spec["release"] # NoTag
    BY Zenon, <1>2, <2>2, <2>3 DEF PinSpec, Files
  <2> QED BY <1>2, <2>4, StepTypes DEF PinSpec, Stage
<1>3. CASE PinValues
  <2>1. bump.tag \in C8sTag /\ tree.values \in LayerFile BY <1>3 DEF PinValues, Step, Files
  <2>2. Pinned(tree.values) \in LayerFile BY <2>1, PinKeepsType
  <2>3. tree' \in Files /\ tree'.spec["release"] # NoTag
    BY Zenon, <1>3, <2>2 DEF PinValues, Files
  <2> QED BY <1>3, <2>3, StepTypes DEF PinValues, Stage
<1>4. CASE bump_module
  <2>1. tree' \in Files /\ tree'.spec["release"] # NoTag
    BY Zenon, <1>4 DEF bump_module, Step, Files
  <2> QED BY <1>4, <2>1, StepTypes DEF bump_module, Stage
<1>5. CASE add_source_lock
  <2>1. tree' \in Files /\ tree'.spec["release"] # NoTag
    BY ZenonT(30), <1>5 DEF add_source_lock, Step, Files
  <2> QED BY Zenon, <1>5, <2>1, StepTypes DEF add_source_lock, Stage
<1>6. ASSUME NEW review, share_protocol_manifest(review) PROVE BumpTypes'
  <2>1. PICK m \in C8sTag :
          tree' = [tree EXCEPT
            !.protocols[m] = @ \cup {bump.tag},
            !.noted = IF bump.tag \in tree.protocols[m] \/ only_comments_changed
                      THEN @ ELSE @ \cup {bump.tag}]
    BY Zenon, <1>6 DEF share_protocol_manifest
  <2> DEFINE review_notes == IF bump.tag \in tree.protocols[m] \/ only_comments_changed
                             THEN tree.noted ELSE tree.noted \cup {bump.tag}
  <2>2. /\ bump.tag \in C8sTag /\ review_notes \in SUBSET C8sTag
        /\ tree' = [tree EXCEPT !.protocols[m] = @ \cup {bump.tag}, !.noted = review_notes]
    BY <1>6, <2>1 DEF share_protocol_manifest, Step, Files
  <2> HIDE DEF review_notes
  <2>3. tree' \in Files /\ tree'.spec["release"] # NoTag
    BY ZenonT(30), <2>2 DEF Files
  <2> QED BY Zenon, <1>6, <2>3, StepTypes DEF share_protocol_manifest, Stage
<1>7. ASSUME NEW confos, extend_cdi_record(confos) PROVE BumpTypes'
  <2>1. tree' \in Files /\ tree'.spec["release"] # NoTag
    BY ZenonT(30), <1>7 DEF extend_cdi_record, Step, Files
  <2> QED BY Zenon, <1>7, <2>1, StepTypes DEF extend_cdi_record, Stage
<1>8. CASE move_core_seed
  <2>1. tree' \in Files /\ tree'.spec["release"] # NoTag
    BY Zenon, <1>8 DEF move_core_seed, Step, Files
  <2> QED BY Zenon, <1>8, <2>1, StepTypes DEF move_core_seed, Stage
<1>9. CASE regenerate
  <2>1. tree' \in Files /\ tree'.spec["release"] # NoTag
    BY Zenon, <1>9 DEF regenerate, Step, Files, fetch, LayerFile
  <2> QED BY Zenon, <1>9, <2>1, StepTypes DEF regenerate, Stage
<1>10. CASE regenerate_staging_fixture
  <2>1. ReadSpec(tree, "staging") \in C8sTag BY PinnedTags DEF BumpProfile
  <2>2. tree' \in Files /\ tree'.spec["release"] # NoTag
    BY ZenonT(30), <1>10, <2>1 DEF regenerate_staging_fixture, Step, Files
  <2> QED BY Zenon, <1>10, <2>2, StepTypes DEF regenerate_staging_fixture, Stage
<1>11. CASE check
  BY Zenon, <1>11, StepTypes DEF check, Stage
<1>12. CASE BumpFails
  BY <1>12 DEF BumpFails, Stage
<1>13. CASE CommitBump \/ RestoreTree
  BY <1>13 DEF CommitBump, RestoreTree, NoBump, Stage
<1>14. ASSUME NEW t \in C8sTag, CaptureByHand(t) PROVE BumpTypes'
  <2>1. CASE tree' = [tree EXCEPT !.protocols[t] = {t}]
    BY ZenonT(30), <1>14, <2>1 DEF CaptureByHand, Files
  <2>2. CASE tree' = [tree EXCEPT !.cdi[Driver[t]] = @ \cup {t}]
    BY ZenonT(30), <1>14, <2>2 DEF CaptureByHand, Files
  <2> QED BY <1>14, <2>1, <2>2 DEF CaptureByHand
<1>15. CASE UNCHANGED bumpVars
  BY Zenon, <1>15 DEF bumpVars
<1> QED BY Zenon, <1>1, <1>2, <1>3, <1>4, <1>5, <1>6, <1>7, <1>8, <1>9, <1>10, <1>11, <1>12, <1>13,
           <1>14, <1>15 DEF BumpNext, BumpStep

(* The files of a repository the release build can use, and no seed that    *)
(* no profile pins.                                                         *)
Pins(f) == {ReadSpec(f, p) : p \in BumpProfile}
Whole(f) ==
  /\ f.values = f.spec /\ f.nodes = f.spec
  /\ Pins(f) \subseteq f.lock.commits /\ f.lock.top \notin f.lock.commits
  /\ \A t \in Pins(f) : t \in f.cdi[Driver[t]] /\ \E m \in C8sTag : t \in f.protocols[m]
  /\ f.seeds = {t \in Pins(f) : Kind[t] = "dev"}
  /\ f.gomod \in Pins(f) /\ f.fixture = ReadSpec(f, "staging")
  /\ Kind[ReadSpec(f, "production")] = "release"
  /\ \A t \in Pins(f) : Kind[t] = "beta" => \E seen \in channel[t] : verify_c8s_tag(seen)

(* A driver record lists only node images with that driver.                 *)
DriversRight(f) == \A d \in DOMAIN f.cdi : \A t \in f.cdi[d] : Driver[t] = d

(* What main() read, and what it will have written of c8s.                  *)
Plan ==
  /\ bump.moved # {}
  /\ \A p \in bump.moved : ReadSpec(head, p) = bump.old
  /\ bump.moved = {"production"} => head.spec["staging"] # NoTag
  /\ Kind[bump.tag] # "release" => bump.moved = {"staging"}
  /\ Kind[bump.tag] = "beta" => \E seen \in channel[bump.tag] : verify_c8s_tag(seen)
MovedLayers ==
  {l \in Layer : \/ l = "release" /\ "production" \in bump.moved
                 \/ /\ l = "staging" /\ "staging" \in bump.moved
                    /\ "production" \in bump.moved => head.spec["staging"] # NoTag}
NewSpec == [l \in Layer |-> IF l \in MovedLayers THEN bump.tag ELSE head.spec[l]]

(* How far the steps of the script have come; nothing of the old files that *)
(* the unmoved profile needs is lost.                                       *)
UpToValues == {"spec", "values"}
UpToModule == UpToValues \cup {"module"}
UpToLock == UpToModule \cup {"lock"}
UpToProtocol == UpToLock \cup {"protocol"}
UpToCdi == UpToProtocol \cup {"cdi"}
UpToSeed == UpToCdi \cup {"seed"}
UpToNodes == UpToSeed \cup {"nodes"}
UpToFixture == UpToNodes \cup {"fixture"}
Edited ==
  /\ tree.spec = IF bump.at = "spec" THEN head.spec ELSE NewSpec
  /\ tree.values = IF bump.at \in UpToValues THEN head.spec ELSE NewSpec
  /\ bump.at \notin UpToModule => tree.gomod = bump.tag
  /\ head.lock.commits \subseteq tree.lock.commits
  /\ bump.at \notin UpToLock => bump.tag \in tree.lock.commits
  /\ bump.at = "done" => tree.lock.top \notin tree.lock.commits
  /\ \A m \in C8sTag : head.protocols[m] \subseteq tree.protocols[m]
  /\ bump.at \notin UpToProtocol => \E m \in C8sTag : bump.tag \in tree.protocols[m]
  /\ \A d \in DOMAIN head.cdi : head.cdi[d] \subseteq tree.cdi[d]
  /\ bump.at \notin UpToCdi => bump.tag \in tree.cdi[Driver[bump.tag]]
  /\ tree.seeds = IF bump.at \in UpToSeed THEN head.seeds
                  ELSE {t \in Pins(tree) : Kind[t] = "dev"}
  /\ tree.nodes = IF bump.at \in UpToNodes THEN head.spec ELSE NewSpec
  /\ bump.at \notin UpToFixture => tree.fixture = ReadSpec(tree, "staging")
  /\ bump.at \in UpToFixture => tree.fixture = head.fixture

BumpInv ==
  /\ Whole(head) /\ DriversRight(head) /\ DriversRight(tree)
  /\ bump.at = "idle" => tree = head
  /\ bump.at \notin {"idle", "failed"} => Plan /\ Edited

(* Production is not named alone while staging takes c8s from its layer.    *)
NamedApart == bump.named = {"production"} => tree.spec["staging"] # NoTag
Honest(f) ==
  \A m \in C8sTag : \A t \in f.protocols[m] :
    \E u \in {m} \cup (f.noted \cap f.protocols[m]) : Protocol[t] = Protocol[u]
BumpManifests == Honest(tree) /\ Honest(head)

(* A step that leaves the manifests alone.                                  *)
LEMMA ManifestsFramed ==
  ASSUME BumpTypes, [BumpNext]_bumpVars,
         ~ \E review \in BOOLEAN : share_protocol_manifest(review),
         ~ \E t \in C8sTag : CaptureByHand(t), ~ RestoreTree
  PROVE  tree'.protocols = tree.protocols /\ tree'.noted = tree.noted
BY DEF BumpTypes, Files, BumpNext, BumpStep, bumpVars, BumpMain, PinSpec, PinValues, bump_module,
       add_source_lock, extend_cdi_record, move_core_seed, regenerate, check,
       regenerate_staging_fixture, BumpFails, CommitBump

LEMMA ManifestsStep ==
  ASSUME BumpTypes, BumpManifests, [BumpNext]_bumpVars
  PROVE  BumpManifests'
<1>1. ASSUME NEW review, share_protocol_manifest(review) PROVE BumpManifests'
  <2>1. PICK m \in C8sTag :
          /\ Deciding(m) /\ Step("protocol", "cdi")
          /\ tree' = [tree EXCEPT
               !.protocols[m] = @ \cup {bump.tag},
               !.noted = IF bump.tag \in tree.protocols[m] \/ only_comments_changed
                         THEN @ ELSE @ \cup {bump.tag}]
    BY Zenon, <1>1 DEF share_protocol_manifest
  <2>2. bump.tag \in C8sTag /\ bump.old \in C8sTag /\ head' = head
    BY <2>1 DEF Step, BumpTypes
  <2>3. /\ \A n \in C8sTag : tree'.protocols[n] =
             IF n = m THEN tree.protocols[m] \cup {bump.tag} ELSE tree.protocols[n]
        /\ tree'.noted = IF bump.tag \in tree.protocols[m] \/ only_comments_changed
                         THEN tree.noted ELSE tree.noted \cup {bump.tag}
    BY <2>1 DEF BumpTypes, Files
  <2>4. bump.tag \in tree.protocols[m] \/ bump.old \in tree.protocols[m]
    BY <2>1 DEF Deciding, Covers
  <2>5. ASSUME NEW n \in C8sTag, NEW t \in tree'.protocols[n]
        PROVE  \E u \in {n} \cup (tree'.noted \cap tree'.protocols[n]) : Protocol[t] = Protocol[u]
    <3>1. CASE t \in tree.protocols[n]
      <4>1. PICK u \in {n} \cup (tree.noted \cap tree.protocols[n]) : Protocol[t] = Protocol[u]
        BY <3>1 DEF BumpManifests, Honest
      <4> QED BY <2>3, <4>1
    <3>2. CASE t \notin tree.protocols[n]
      <4>1. n = m /\ t = bump.tag BY <2>3, <3>2
      <4>2. CASE only_comments_changed
        <5>1. bump.old \in tree.protocols[m] /\ Protocol[bump.tag] = Protocol[bump.old]
          BY <2>4, <3>2, <4>1, <4>2 DEF only_comments_changed
        <5>2. PICK u \in {m} \cup (tree.noted \cap tree.protocols[m]) :
                Protocol[bump.old] = Protocol[u]
          BY <5>1 DEF BumpManifests, Honest
        <5> QED BY <2>3, <4>1, <5>1, <5>2
      <4>3. CASE ~ only_comments_changed
        BY <2>3, <3>2, <4>1, <4>3
      <4> QED BY <4>2, <4>3
    <3> QED BY <3>1, <3>2
  <2> QED BY <2>2, <2>5 DEF BumpManifests, Honest
<1>2. ASSUME NEW t \in C8sTag, CaptureByHand(t) PROVE BumpManifests'
  <2>1. /\ \A n \in C8sTag : n # t => tree'.protocols[n] = tree.protocols[n]
        /\ tree'.protocols[t] \in {tree.protocols[t], {t}}
        /\ tree'.noted = tree.noted /\ head' = tree'
    <3>1. CASE tree' = [tree EXCEPT !.protocols[t] = {t}]
      BY <1>2, <3>1 DEF CaptureByHand, BumpTypes, Files
    <3>2. CASE tree' = [tree EXCEPT !.cdi[Driver[t]] = @ \cup {t}]
      BY <1>2, <3>2 DEF CaptureByHand, BumpTypes, Files
    <3> QED BY <1>2, <3>1, <3>2 DEF CaptureByHand
  <2>2. Honest(tree)'
    BY <2>1 DEF BumpManifests, Honest
  <2> QED BY <2>1, <2>2 DEF BumpManifests, Honest
<1>3. CASE RestoreTree
  BY <1>3 DEF RestoreTree, BumpManifests, Honest
<1>4. CASE CommitBump
  BY <1>4 DEF CommitBump, BumpManifests, Honest
<1>5. ASSUME ~ \E review \in BOOLEAN : share_protocol_manifest(review),
             ~ \E t \in C8sTag : CaptureByHand(t), ~ RestoreTree, ~ CommitBump
      PROVE  BumpManifests'
  <2>1. head' = head
    BY <1>5 DEF BumpNext, BumpStep, bumpVars, BumpMain, PinSpec, PinValues, bump_module, Step,
                add_source_lock, extend_cdi_record, move_core_seed, regenerate, check,
                regenerate_staging_fixture, BumpFails
  <2>2. tree'.protocols = tree.protocols /\ tree'.noted = tree.noted
    BY <1>5, ManifestsFramed
  <2> QED BY <2>1, <2>2 DEF BumpManifests, Honest
<1> QED BY <1>1, <1>2, <1>3, <1>4, <1>5

(* share_protocol_manifest never makes a manifest stand for protocol       *)
(* sources it was not captured from, unless a person was told to review    *)
(* them, over any sequence of moves, failures and restored trees.          *)
THEOREM ManifestsStayHonest == BumpSpec => []ManifestsHonest
<1>1. ASSUME NEW t \in C8sTag, NEW shared \in BOOLEAN, NEW top \in C8sTag \cup {NoTag},
             BumpInit(t, shared, top)
      PROVE  BumpManifests
  BY Zenon, <1>1 DEF BumpInit, StartTree, BumpManifests, Honest
<1>2. (\E t \in C8sTag, shared \in BOOLEAN, top \in C8sTag \cup {NoTag} :
         Kind[t] = "release" /\ t # top /\ BumpInit(t, shared, top))
      => BumpTypes /\ BumpManifests
  BY <1>1, BumpTypesInit
<1>3. BumpManifests => ManifestsHonest
  BY DEF BumpManifests, Honest, ManifestsHonest
<1> QED BY <1>2, <1>3, BumpTypesStep, ManifestsStep, PTL DEF BumpSpec

(* The layers pin_profiles edits, for the spec and for the values alike.    *)
LEMMA PlannedTargets ==
  ASSUME BumpTypes, Plan, NEW file \in LayerFile, file["release"] # NoTag,
         file["staging"] = NoTag <=> head.spec["staging"] = NoTag
  PROVE  Targets(file) = MovedLayers
<1>1. bump.moved \in SUBSET BumpProfile BY DEF BumpTypes
<1>2. Directory("production") = "release" /\ Directory("staging") = "staging"
  BY DEF Directory, Layers
<1>3. target_file(file, "production") = "release"
  BY <1>2, Owners DEF target_file
<1>4. target_file(file, "staging") =
        IF file["staging"] = NoTag /\ bump.moved = BumpProfile THEN "release" ELSE "staging"
  <2>1. CASE file["staging"] # NoTag
    BY <1>2, <2>1, Owners DEF target_file
  <2>2. CASE file["staging"] = NoTag
    <3>1. {q \in BumpProfile : owning_file(file, q) = owning_file(file, "staging")} = BumpProfile
      BY <2>2, Owners DEF BumpProfile
    <3> QED BY <1>1, <1>2, <2>2, <3>1, Owners DEF target_file
  <2> QED BY <2>1, <2>2
<1>5. bump.moved = {"production"} \/ bump.moved = {"staging"} \/ bump.moved = BumpProfile
  BY <1>1 DEF Plan, BumpProfile
<1>6. CASE bump.moved = {"production"}
  <2>1. Targets(file) = {"release"} BY <1>3, <1>6 DEF Targets
  <2> QED BY <1>6, <2>1 DEF MovedLayers, Layer
<1>7. CASE bump.moved = {"staging"}
  <2>1. Targets(file) = {"staging"} BY <1>4, <1>7 DEF Targets, BumpProfile
  <2> QED BY <1>7, <2>1 DEF MovedLayers, Layer
<1>8. CASE bump.moved = BumpProfile
  <2>1. Targets(file) = {"release", IF file["staging"] = NoTag THEN "release" ELSE "staging"}
    BY <1>3, <1>4, <1>8 DEF Targets, BumpProfile
  <2> QED BY <1>8, <2>1 DEF MovedLayers, Layer, BumpProfile
<1> QED BY <1>5, <1>6, <1>7, <1>8

(* Then the moved profiles, and no other, read the new tag.                 *)
LEMMA NewPins ==
  ASSUME BumpTypes, Plan, bump.tag \in C8sTag, NEW f \in Files, f.spec = NewSpec
  PROVE  /\ f.spec["release"] # NoTag
         /\ \A p \in BumpProfile :
              ReadSpec(f, p) = IF p \in bump.moved THEN bump.tag ELSE ReadSpec(head, p)
<1>1. f.spec["release"] = IF "production" \in bump.moved THEN bump.tag ELSE head.spec["release"]
  BY DEF NewSpec, MovedLayers, Layer
<1>2. f.spec["staging"] = IF /\ "staging" \in bump.moved
                             /\ "production" \in bump.moved => head.spec["staging"] # NoTag
                          THEN bump.tag ELSE head.spec["staging"]
  BY DEF NewSpec, MovedLayers, Layer
<1>3. f.spec["release"] # NoTag BY <1>1, BumpAssumption DEF BumpTypes
<1>4. ReadSpec(f, "production") =
        IF "production" \in bump.moved THEN bump.tag ELSE ReadSpec(head, "production")
  BY Zenon, <1>1, <1>3, PinnedTags DEF BumpTypes
<1>5. ReadSpec(f, "staging") =
        IF "staging" \in bump.moved THEN bump.tag ELSE ReadSpec(head, "staging")
  <2>1. bump.tag # NoTag BY BumpAssumption
  <2>2. "staging" \notin bump.moved => head.spec["staging"] # NoTag
    BY Zenon DEF Plan, BumpTypes, BumpProfile
  <2>3. ReadSpec(f, "staging") =
          IF f.spec["staging"] # NoTag THEN f.spec["staging"] ELSE f.spec["release"]
    BY Zenon, <1>3, PinnedTags
  <2>4. ReadSpec(head, "staging") =
          IF head.spec["staging"] # NoTag THEN head.spec["staging"] ELSE head.spec["release"]
    BY PinnedTags DEF BumpTypes
  <2> QED BY <1>1, <1>2, <2>1, <2>2, <2>3, <2>4
<1> QED BY <1>3, <1>4, <1>5 DEF BumpProfile

LEMMA PlanKept ==
  ASSUME Plan, NEW from, NEW to, BumpTypes, Step(from, to)
  PROVE  /\ Plan' /\ NewSpec' = NewSpec
         /\ bump.at = from /\ bump'.at = to /\ bump'.tag = bump.tag
         /\ head' = head /\ channel' = channel
<1>1. /\ bump.at = from /\ bump'.at = to /\ head' = head /\ channel' = channel
      /\ bump'.tag = bump.tag /\ bump'.moved = bump.moved /\ bump'.old = bump.old
  BY DEF Step, BumpTypes
<1>2. NewSpec' = NewSpec BY <1>1 DEF NewSpec, MovedLayers
<1>3. Plan' BY Zenon, <1>1 DEF Plan, ReadSpec
<1> QED BY Zenon, <1>1, <1>2, <1>3

LEMMA WholeMoves ==
  ASSUME NEW f, head' = f, channel' = channel, Whole(f)
  PROVE  Whole(head)'
<1>1. Pins(head)' = Pins(f) /\ \A p : ReadSpec(head, p)' = ReadSpec(f, p)
  BY Zenon DEF Pins, ReadSpec
<1> QED BY Zenon, <1>1 DEF Whole

LEMMA StepInv ==
  ASSUME BumpTypes, BumpInv, NEW from \in Stage \ {"idle", "failed"},
         NEW to \in Stage \ {"idle", "failed"}, Step(from, to), DriversRight(tree)', Edited'
  PROVE  BumpInv'
<1>1. Plan BY DEF BumpInv, Step
<1>2. Plan' /\ bump'.at = to /\ head' = head /\ channel' = channel BY <1>1, PlanKept
<1>3. Whole(head)'
  <2>1. PICK f : f = head /\ Whole(f) BY Zenon DEF BumpInv
  <2> QED BY Zenon, <1>2, <2>1, WholeMoves
<1>4. DriversRight(head)' BY Zenon, <1>2 DEF BumpInv, DriversRight
<1> QED BY <1>2, <1>3, <1>4 DEF BumpInv

(* What a step that leaves the spec alone leaves to read.                   *)
LEMMA SameReads ==
  ASSUME tree'.spec = tree.spec
  PROVE  Pins(tree)' = Pins(tree) /\ \A p \in BumpProfile : ReadSpec(tree, p)' = ReadSpec(tree, p)
BY DEF Pins, ReadSpec

LEMMA PinSpecInv ==
  ASSUME BumpTypes, BumpInv, PinSpec
  PROVE  BumpInv'
<1>1. Step("spec", "values") BY DEF PinSpec
<1>2. /\ bump.at = "spec" /\ Plan /\ Edited /\ DriversRight(tree)
      /\ bump.tag \in C8sTag /\ bump.old \in C8sTag
  BY <1>1 DEF Step, BumpInv, BumpTypes
<1>3. /\ Plan' /\ NewSpec' = NewSpec /\ head' = head
      /\ bump'.at = "values" /\ bump'.tag = bump.tag
  BY <1>1, <1>2, PlanKept
<1>4. /\ tree'.values = tree.values /\ tree'.nodes = tree.nodes /\ tree'.gomod = tree.gomod
      /\ tree'.lock = tree.lock /\ tree'.protocols = tree.protocols /\ tree'.noted = tree.noted
      /\ tree'.cdi = tree.cdi /\ tree'.seeds = tree.seeds /\ tree'.fixture = tree.fixture
      /\ tree'.spec = Pinned(tree.spec)
  BY <1>1, <1>2 DEF PinSpec, BumpTypes, Files
<1>5. Pinned(tree.spec) = NewSpec
  <2>1. tree.spec = head.spec /\ tree.spec \in LayerFile BY Zenon, <1>2 DEF Edited, BumpTypes, Files
  <2>2. Targets(tree.spec) = MovedLayers BY Zenon, <1>2, <2>1, PlannedTargets DEF BumpTypes
  <2> QED BY <2>1, <2>2 DEF Pinned, edit_yaml, NewSpec
<1>6. DriversRight(tree)' BY <1>2, <1>4 DEF DriversRight
<1>7. Edited'
  BY Zenon, <1>2, <1>3, <1>4, <1>5 DEF Edited, UpToValues, UpToModule, UpToLock, UpToProtocol, UpToCdi,
                                UpToSeed, UpToNodes, UpToFixture
<1> QED BY <1>1, <1>6, <1>7, StepInv DEF Stage

LEMMA PinValuesInv ==
  ASSUME BumpTypes, BumpInv, PinValues
  PROVE  BumpInv'
<1>1. Step("values", "module") BY DEF PinValues
<1>2. /\ bump.at = "values" /\ Plan /\ Edited /\ DriversRight(tree)
      /\ bump.tag \in C8sTag /\ bump.old \in C8sTag
  BY <1>1 DEF Step, BumpInv, BumpTypes
<1>3. /\ Plan' /\ NewSpec' = NewSpec /\ head' = head
      /\ bump'.at = "module" /\ bump'.tag = bump.tag
  BY <1>1, <1>2, PlanKept
<1>4. /\ tree'.spec = tree.spec /\ tree'.nodes = tree.nodes /\ tree'.gomod = tree.gomod
      /\ tree'.lock = tree.lock /\ tree'.protocols = tree.protocols /\ tree'.noted = tree.noted
      /\ tree'.cdi = tree.cdi /\ tree'.seeds = tree.seeds /\ tree'.fixture = tree.fixture
      /\ tree'.values = Pinned(tree.values)
  BY <1>1, <1>2 DEF PinValues, BumpTypes, Files
<1>5. Pinned(tree.values) = NewSpec
  <2>1. tree.values = head.spec /\ tree.values \in LayerFile
    BY Zenon, <1>2 DEF Edited, BumpTypes, Files, UpToValues
  <2>2. Targets(tree.values) = MovedLayers BY Zenon, <1>2, <2>1, PlannedTargets DEF BumpTypes
  <2> QED BY <2>1, <2>2 DEF Pinned, edit_yaml, NewSpec
<1>6. DriversRight(tree)' BY Zenon, <1>2, <1>4 DEF DriversRight
<1>7. Edited'
  BY Zenon, <1>2, <1>3, <1>4, <1>5 DEF Edited, UpToValues, UpToModule, UpToLock, UpToProtocol, UpToCdi,
                                UpToSeed, UpToNodes, UpToFixture
<1> QED BY <1>1, <1>6, <1>7, StepInv DEF Stage

LEMMA ModuleInv ==
  ASSUME BumpTypes, BumpInv, bump_module
  PROVE  BumpInv'
<1>1. Step("module", "lock") BY DEF bump_module
<1>2. /\ bump.at = "module" /\ Plan /\ Edited /\ DriversRight(tree)
      /\ bump.tag \in C8sTag /\ bump.old \in C8sTag
  BY <1>1 DEF Step, BumpInv, BumpTypes
<1>3. /\ Plan' /\ NewSpec' = NewSpec /\ head' = head
      /\ bump'.at = "lock" /\ bump'.tag = bump.tag
  BY <1>1, <1>2, PlanKept
<1>4. /\ tree'.spec = tree.spec /\ tree'.values = tree.values /\ tree'.nodes = tree.nodes
      /\ tree'.lock = tree.lock /\ tree'.protocols = tree.protocols /\ tree'.noted = tree.noted
      /\ tree'.cdi = tree.cdi /\ tree'.seeds = tree.seeds /\ tree'.fixture = tree.fixture
      /\ tree'.gomod = bump.tag
  BY <1>1, <1>2 DEF bump_module, BumpTypes, Files
<1>6. DriversRight(tree)' BY <1>2, <1>4 DEF DriversRight
<1>7. Edited'
  BY Zenon, <1>2, <1>3, <1>4 DEF Edited, UpToValues, UpToModule, UpToLock, UpToProtocol, UpToCdi,
                          UpToSeed, UpToNodes, UpToFixture
<1> QED BY <1>1, <1>6, <1>7, StepInv DEF Stage

LEMMA LockInv ==
  ASSUME BumpTypes, BumpInv, add_source_lock
  PROVE  BumpInv'
<1>1. Step("lock", "protocol") BY DEF add_source_lock
<1>2. /\ bump.at = "lock" /\ Plan /\ Edited /\ DriversRight(tree)
      /\ bump.tag \in C8sTag /\ bump.old \in C8sTag
  BY <1>1 DEF Step, BumpInv, BumpTypes
<1>3. /\ Plan' /\ NewSpec' = NewSpec /\ head' = head
      /\ bump'.at = "protocol" /\ bump'.tag = bump.tag
  BY <1>1, <1>2, PlanKept
<1>4. /\ tree'.spec = tree.spec /\ tree'.values = tree.values /\ tree'.nodes = tree.nodes
      /\ tree'.gomod = tree.gomod /\ tree'.protocols = tree.protocols /\ tree'.noted = tree.noted
      /\ tree'.cdi = tree.cdi /\ tree'.seeds = tree.seeds /\ tree'.fixture = tree.fixture
      /\ tree'.lock.commits = tree.lock.commits \cup {bump.tag}
  BY <1>1, <1>2 DEF add_source_lock, BumpTypes, Files
<1>6. DriversRight(tree)' BY <1>2, <1>4 DEF DriversRight
<1>7. Edited'
  BY Zenon, <1>2, <1>3, <1>4 DEF Edited, UpToValues, UpToModule, UpToLock, UpToProtocol, UpToCdi,
                          UpToSeed, UpToNodes, UpToFixture
<1> QED BY <1>1, <1>6, <1>7, StepInv DEF Stage

LEMMA FixtureInv ==
  ASSUME BumpTypes, BumpInv, regenerate_staging_fixture
  PROVE  BumpInv'
<1>1. Step("fixture", "check") BY DEF regenerate_staging_fixture
<1>2. /\ bump.at = "fixture" /\ Plan /\ Edited /\ DriversRight(tree)
      /\ bump.tag \in C8sTag /\ bump.old \in C8sTag
  BY <1>1 DEF Step, BumpInv, BumpTypes
<1>3. /\ Plan' /\ NewSpec' = NewSpec /\ head' = head
      /\ bump'.at = "check" /\ bump'.tag = bump.tag
  BY <1>1, <1>2, PlanKept
<1>4. /\ tree'.spec = tree.spec /\ tree'.values = tree.values /\ tree'.nodes = tree.nodes
      /\ tree'.gomod = tree.gomod /\ tree'.lock = tree.lock /\ tree'.protocols = tree.protocols
      /\ tree'.noted = tree.noted /\ tree'.cdi = tree.cdi /\ tree'.seeds = tree.seeds
      /\ tree'.fixture = IF "staging" \in bump.moved THEN ReadSpec(tree, "staging")
                         ELSE tree.fixture
  BY <1>1, <1>2 DEF regenerate_staging_fixture, BumpTypes, Files
<1>5. Pins(tree)' = Pins(tree) /\ ReadSpec(tree, "staging")' = ReadSpec(tree, "staging")
  BY Zenon, <1>4, SameReads DEF BumpProfile
<1>8. "staging" \notin bump.moved => tree.fixture = ReadSpec(tree, "staging")
  <2>1. ReadSpec(tree, "staging") =
          IF "staging" \in bump.moved THEN bump.tag ELSE ReadSpec(head, "staging")
    BY Zenon, <1>2, NewPins DEF Edited, BumpTypes, BumpProfile
  <2>2. tree.fixture = head.fixture
    BY Zenon, <1>2 DEF Edited, UpToValues, UpToModule, UpToLock, UpToProtocol, UpToCdi, UpToSeed,
                UpToNodes, UpToFixture
  <2>3. head.fixture = ReadSpec(head, "staging") BY Zenon DEF BumpInv, Whole
  <2> QED BY <2>1, <2>2, <2>3
<1>6. DriversRight(tree)' BY Zenon, <1>2, <1>4 DEF DriversRight
<1>7. Edited'
  BY Zenon, <1>2, <1>3, <1>4, <1>5, <1>8 DEF Edited, UpToValues, UpToModule, UpToLock, UpToProtocol,
                                      UpToCdi, UpToSeed, UpToNodes, UpToFixture
<1> QED BY <1>1, <1>6, <1>7, StepInv DEF Stage

LEMMA CheckInv ==
  ASSUME BumpTypes, BumpInv, check
  PROVE  BumpInv'
<1>1. Step("check", "done") BY DEF check
<1>2. /\ bump.at = "check" /\ Plan /\ Edited /\ DriversRight(tree)
      /\ bump.tag \in C8sTag /\ bump.old \in C8sTag
  BY <1>1 DEF Step, BumpInv, BumpTypes
<1>3. /\ Plan' /\ NewSpec' = NewSpec /\ head' = head
      /\ bump'.at = "done" /\ bump'.tag = bump.tag
  BY Zenon, <1>1, <1>2, PlanKept
<1>4. /\ tree'.spec = tree.spec /\ tree'.values = tree.values /\ tree'.nodes = tree.nodes
      /\ tree'.gomod = tree.gomod /\ tree'.lock = tree.lock /\ tree'.protocols = tree.protocols
      /\ tree'.noted = tree.noted /\ tree'.cdi = tree.cdi /\ tree'.seeds = tree.seeds
      /\ tree'.fixture = tree.fixture
      /\ tree.lock.top \notin tree.lock.commits
  BY Zenon, <1>1, <1>2 DEF check, BumpTypes, Files, verify, read_lock, validate_entry
<1>5. Pins(tree)' = Pins(tree) /\ ReadSpec(tree, "staging")' = ReadSpec(tree, "staging")
  BY Zenon, <1>4, SameReads DEF BumpProfile
<1>6. DriversRight(tree)' BY Zenon, <1>2, <1>4 DEF DriversRight
<1>7. Edited'
  BY Zenon, <1>2, <1>3, <1>4, <1>5 DEF Edited, UpToValues, UpToModule, UpToLock, UpToProtocol, UpToCdi,
                                UpToSeed, UpToNodes, UpToFixture
<1> QED BY <1>1, <1>6, <1>7, StepInv DEF Stage

LEMMA ProtocolInv ==
  ASSUME BumpTypes, BumpInv, NEW review, share_protocol_manifest(review)
  PROVE  BumpInv'
<1>1. PICK m \in C8sTag :
        /\ Step("protocol", "cdi")
        /\ tree' = [tree EXCEPT
             !.protocols[m] = @ \cup {bump.tag},
             !.noted = IF bump.tag \in tree.protocols[m] \/ only_comments_changed
                       THEN @ ELSE @ \cup {bump.tag}]
  BY Zenon DEF share_protocol_manifest
<1>2. /\ bump.at = "protocol" /\ Plan /\ Edited /\ DriversRight(tree)
      /\ bump.tag \in C8sTag /\ bump.old \in C8sTag
  BY <1>1 DEF Step, BumpInv, BumpTypes
<1>3. /\ Plan' /\ NewSpec' = NewSpec /\ head' = head
      /\ bump'.at = "cdi" /\ bump'.tag = bump.tag
  BY <1>1, <1>2, PlanKept
<1>4. /\ tree'.spec = tree.spec /\ tree'.values = tree.values /\ tree'.nodes = tree.nodes
      /\ tree'.gomod = tree.gomod /\ tree'.lock = tree.lock /\ tree'.cdi = tree.cdi
      /\ tree'.seeds = tree.seeds /\ tree'.fixture = tree.fixture
      /\ tree'.protocols = [tree.protocols EXCEPT ![m] = @ \cup {bump.tag}]
  BY <1>1 DEF BumpTypes, Files
<1>5. /\ bump.tag \in tree'.protocols[m]
      /\ \A n \in C8sTag : tree.protocols[n] \subseteq tree'.protocols[n]
  <2>1. tree.protocols \in [C8sTag -> SUBSET C8sTag] BY Zenon DEF BumpTypes, Files
  <2> QED BY Zenon, <1>4, <2>1
<1>6. DriversRight(tree)' BY Zenon, <1>2, <1>4 DEF DriversRight
<1>7. Edited'
  BY Zenon, <1>2, <1>3, <1>4, <1>5
     DEF Edited, UpToValues, UpToModule, UpToLock, UpToProtocol, UpToCdi, UpToSeed, UpToNodes,
         UpToFixture
<1> QED BY <1>1, <1>6, <1>7, StepInv DEF Stage

(* A record that lists the old image has its driver, and a record is        *)
(* extended only when the new image has the same.                           *)
LEMMA CdiInv ==
  ASSUME BumpTypes, BumpInv, NEW confos, extend_cdi_record(confos)
  PROVE  BumpInv'
<1>1. Step("cdi", "seed") BY DEF extend_cdi_record
<1>2. /\ bump.at = "cdi" /\ Plan /\ Edited /\ DriversRight(tree)
      /\ bump.tag \in C8sTag /\ bump.old \in C8sTag
  BY <1>1 DEF Step, BumpInv, BumpTypes
<1>3. /\ Plan' /\ NewSpec' = NewSpec /\ head' = head
      /\ bump'.at = "seed" /\ bump'.tag = bump.tag
  BY Zenon, <1>1, <1>2, PlanKept
<1>4. /\ tree'.spec = tree.spec /\ tree'.values = tree.values /\ tree'.nodes = tree.nodes
      /\ tree'.gomod = tree.gomod /\ tree'.lock = tree.lock /\ tree'.protocols = tree.protocols
      /\ tree'.seeds = tree.seeds /\ tree'.fixture = tree.fixture
      /\ tree'.cdi = [d \in DOMAIN tree.cdi |->
                        IF Extends(d) THEN tree.cdi[d] \cup {bump.tag} ELSE tree.cdi[d]]
  BY DEF extend_cdi_record, BumpTypes, Files
<1>5. DOMAIN tree.cdi = {Driver[x] : x \in C8sTag} BY Zenon DEF BumpTypes, Files
<1>8. ASSUME NEW d \in DOMAIN tree.cdi, Extends(d)
      PROVE  Driver[bump.tag] = d
  <2>1. Driver[bump.old] = d BY <1>2, <1>8 DEF Extends, DriversRight
  <2>2. Ref[bump.old] = Ref[bump.tag] \/ d = Driver[bump.tag]
    BY <1>8 DEF extend_cdi_record, driver_inputs
  <2> QED BY Zenon, <1>2, <2>1, <2>2, BumpAssumption
<1>6. DriversRight(tree)'
  BY <1>2, <1>4, <1>8 DEF DriversRight
<1>9. bump.tag \in tree'.cdi[Driver[bump.tag]]
  <2>1. PICK p \in BumpProfile : p \in bump.moved /\ ReadSpec(head, p) = bump.old
    BY Zenon, <1>2 DEF Plan, BumpTypes
  <2>2. bump.old \in head.cdi[Driver[bump.old]]
    BY Zenon, <2>1 DEF BumpInv, Whole, Pins
  <2>3. DOMAIN head.cdi = {Driver[x] : x \in C8sTag} BY Zenon DEF BumpTypes, Files
  <2>4. bump.old \in tree.cdi[Driver[bump.old]] /\ Driver[bump.old] \in DOMAIN tree.cdi
    BY Zenon, <1>2, <1>5, <2>2, <2>3 DEF Edited
  <2>5. Driver[bump.tag] = Driver[bump.old]
    BY Zenon, <1>2, <1>8, <2>4 DEF Extends, DriversRight
  <2> QED BY Zenon, <1>4, <2>4, <2>5 DEF Extends
<1>10. \A d \in DOMAIN head.cdi : head.cdi[d] \subseteq tree'.cdi[d]
  <2>1. DOMAIN head.cdi = DOMAIN tree.cdi BY Zenon DEF BumpTypes, Files
  <2>2. \A d \in DOMAIN head.cdi : head.cdi[d] \subseteq tree.cdi[d] BY Zenon, <1>2 DEF Edited
  <2> QED BY <1>4, <2>1, <2>2
<1>7. Edited'
  BY Zenon, <1>2, <1>3, <1>4, <1>9, <1>10
     DEF Edited, UpToValues, UpToModule, UpToLock, UpToProtocol, UpToCdi, UpToSeed, UpToNodes,
         UpToFixture
<1> QED BY <1>1, <1>6, <1>7, StepInv DEF Stage

(* move_core_seed drops the old seed just when no profile pins it any more. *)
LEMMA SeedInv ==
  ASSUME BumpTypes, BumpInv, move_core_seed
  PROVE  BumpInv'
<1>1. Step("seed", "nodes") BY DEF move_core_seed
<1>2. /\ bump.at = "seed" /\ Plan /\ Edited /\ DriversRight(tree)
      /\ bump.tag \in C8sTag /\ bump.old \in C8sTag
  BY <1>1 DEF Step, BumpInv, BumpTypes
<1>3. /\ Plan' /\ NewSpec' = NewSpec /\ head' = head
      /\ bump'.at = "nodes" /\ bump'.tag = bump.tag
  BY Zenon, <1>1, <1>2, PlanKept
<1>4. /\ tree'.spec = tree.spec /\ tree'.values = tree.values /\ tree'.nodes = tree.nodes
      /\ tree'.gomod = tree.gomod /\ tree'.lock = tree.lock /\ tree'.protocols = tree.protocols
      /\ tree'.cdi = tree.cdi /\ tree'.fixture = tree.fixture
      /\ tree'.seeds = (IF Kind[bump.tag] = "dev" THEN tree.seeds \cup {bump.tag}
                        ELSE tree.seeds) \ StaleSeed
  BY DEF move_core_seed, BumpTypes, Files
<1>5. Pins(tree)' = Pins(tree) /\ ReadSpec(tree, "staging")' = ReadSpec(tree, "staging")
  BY Zenon, <1>4, SameReads DEF BumpProfile
<1>8. tree'.seeds = {t \in Pins(tree) : Kind[t] = "dev"}
  <2>1. \A p \in BumpProfile :
          ReadSpec(tree, p) = IF p \in bump.moved THEN bump.tag ELSE ReadSpec(head, p)
    BY Zenon, <1>2, NewPins DEF Edited, BumpTypes
  <2>2. tree.seeds = {t \in Pins(head) : Kind[t] = "dev"}
    BY Zenon, <1>2 DEF Edited, UpToValues, UpToModule, UpToLock, UpToProtocol, UpToCdi, UpToSeed,
                BumpInv, Whole
  <2>3. bump.tag \in Pins(tree) BY Zenon, <1>2, <2>1 DEF Plan, Pins, BumpTypes
  <2>4. \A t \in Pins(tree) : t = bump.tag \/ t \in Pins(head) BY Zenon, <2>1 DEF Pins
  <2>5. \A t \in Pins(head) : t = bump.old \/ t \in Pins(tree) BY Zenon, <1>2, <2>1 DEF Pins, Plan
  <2>6. StaleSeed = {bump.old} \ Pins(tree) BY DEF StaleSeed, Pins
  <2> QED BY Zenon, <1>4, <2>2, <2>3, <2>4, <2>5, <2>6
<1>6. DriversRight(tree)' BY Zenon, <1>2, <1>4 DEF DriversRight
<1>7. Edited'
  BY Zenon, <1>2, <1>3, <1>4, <1>5, <1>8
     DEF Edited, UpToValues, UpToModule, UpToLock, UpToProtocol, UpToCdi, UpToSeed, UpToNodes,
         UpToFixture
<1> QED BY <1>1, <1>6, <1>7, StepInv DEF Stage

(* The node manifests written are those of the layers edited.               *)
LEMMA NodesInv ==
  ASSUME BumpTypes, BumpInv, regenerate
  PROVE  BumpInv'
<1>1. Step("nodes", "fixture") BY DEF regenerate
<1>2. /\ bump.at = "nodes" /\ Plan /\ Edited /\ DriversRight(tree)
      /\ bump.tag \in C8sTag /\ bump.old \in C8sTag
  BY <1>1 DEF Step, BumpInv, BumpTypes
<1>3. /\ Plan' /\ NewSpec' = NewSpec /\ head' = head
      /\ bump'.at = "fixture" /\ bump'.tag = bump.tag
  BY Zenon, <1>1, <1>2, PlanKept
<1> DEFINE written == {node_manifest(tree, p) : p \in bump.moved}
<1>4. /\ tree'.spec = tree.spec /\ tree'.values = tree.values /\ tree'.seeds = tree.seeds
      /\ tree'.gomod = tree.gomod /\ tree'.lock = tree.lock /\ tree'.protocols = tree.protocols
      /\ tree'.cdi = tree.cdi /\ tree'.fixture = tree.fixture
      /\ tree'.nodes = [l \in Layer |-> IF l \in written THEN tree.spec[l] ELSE tree.nodes[l]]
  BY DEF regenerate, fetch, BumpTypes, Files
<1>5. Pins(tree)' = Pins(tree) /\ ReadSpec(tree, "staging")' = ReadSpec(tree, "staging")
  BY Zenon, <1>4, SameReads DEF BumpProfile
<1>8. tree'.nodes = NewSpec
  <2>1. tree.spec = NewSpec /\ tree.nodes = head.spec
    BY Zenon, <1>2 DEF Edited, UpToValues, UpToModule, UpToLock, UpToProtocol, UpToCdi, UpToSeed, UpToNodes
  <2>2. written = {owning_file(tree.spec, p) : p \in bump.moved} BY Zenon DEF node_manifest
  <2> HIDE DEF written
  <2>3. /\ owning_file(tree.spec, "production") = "release"
        /\ owning_file(tree.spec, "staging") =
             IF tree.spec["staging"] # NoTag THEN "staging" ELSE "release"
    BY Zenon, Owners DEF BumpTypes
  <2>4. bump.moved \in SUBSET BumpProfile /\ bump.tag # NoTag
    BY Zenon, <1>2, BumpAssumption DEF BumpTypes
  <2>5. tree.spec["staging"] =
          IF "staging" \in MovedLayers THEN bump.tag ELSE head.spec["staging"]
    BY Zenon, <2>1 DEF NewSpec, Layer
  <2>6. ASSUME NEW l \in MovedLayers PROVE l \in written
    <3>1. CASE l = "release"
      BY <2>2, <2>3, <3>1, <2>6 DEF MovedLayers
    <3>2. CASE l = "staging"
      BY Zenon, <2>2, <2>3, <2>4, <2>5, <3>2, <2>6 DEF MovedLayers
    <3> QED BY <3>1, <3>2 DEF MovedLayers, Layer
  <2>7. NewSpec = [l \in Layer |-> IF l \in MovedLayers THEN bump.tag ELSE head.spec[l]]
    BY DEF NewSpec
  <2>8. \A l \in Layer : tree'.nodes[l] = NewSpec[l]
    BY <1>4, <2>1, <2>6, <2>7
  <2> QED BY Zenon, <1>4, <2>7, <2>8
<1>6. DriversRight(tree)' BY Zenon, <1>2, <1>4 DEF DriversRight
<1>7. Edited'
  BY Zenon, <1>2, <1>3, <1>4, <1>5, <1>8
     DEF Edited, UpToValues, UpToModule, UpToLock, UpToProtocol, UpToCdi, UpToSeed, UpToNodes,
         UpToFixture
<1> QED BY <1>1, <1>6, <1>7, StepInv DEF Stage

(* A move that may start: one old tag, and no layer of an unmoved profile.  *)
LEMMA MainInv ==
  ASSUME BumpTypes, BumpInv, NamedApart', NEW tag \in C8sTag,
         NEW named \in SUBSET BumpProfile, NEW seen \in TagFacts, BumpMain(tag, named, seen)
  PROVE  BumpInv'
<1> DEFINE moved == {p \in named : ReadSpec(tree, p) # tag}
<1>1. PICK old \in C8sTag :
        /\ {ReadSpec(tree, p) : p \in moved} = {old}
        /\ bump' = [at |-> "spec", tag |-> tag, named |-> named, moved |-> moved, old |-> old,
                    before |-> [p \in BumpProfile |-> ReadSpec(tree, p)]]
  BY Zenon DEF BumpMain
<1>2. /\ tree = head /\ UNCHANGED <<tree, head>> /\ bump.at = "idle"
      /\ channel' = IF Kind[tag] = "beta" THEN [channel EXCEPT ![tag] = {seen}] ELSE channel
      /\ Kind[tag] # "release" => named = {"staging"}
      /\ Kind[tag] = "beta" => verify_c8s_tag(seen)
  BY Zenon DEF BumpMain, Permitted
<1>3. /\ bump'.at = "spec" /\ bump'.tag = tag /\ bump'.moved = moved /\ bump'.old = old
      /\ bump'.named = named
  BY Zenon, <1>1
<1>4. moved # {} /\ \A p \in moved : ReadSpec(head, p) = old
  BY Zenon, <1>1, <1>2
<1>5. moved = {"production"} => head.spec["staging"] # NoTag
  <2>1. ReadSpec(head, "production") = head.spec["release"] /\
        ReadSpec(head, "staging") =
          IF head.spec["staging"] # NoTag THEN head.spec["staging"] ELSE head.spec["release"]
    BY Zenon, PinnedTags DEF BumpTypes
  <2>2. CASE named = {"production"}
    BY Zenon, <1>2, <1>3, <2>2 DEF NamedApart
  <2>3. CASE "staging" \in named
    BY <1>2, <2>1, <2>3
  <2> QED BY Zenon, <2>2, <2>3 DEF BumpProfile
<1>6. Plan'
  <2>1. Kind[tag] # "release" => moved = {"staging"} BY Zenon, <1>2, <1>4
  <2>2. Kind[tag] = "beta" => \E s \in channel'[tag] : verify_c8s_tag(s)
    BY Zenon, <1>2 DEF BumpTypes
  <2> QED BY Zenon, <1>2, <1>3, <1>4, <1>5, <2>1, <2>2 DEF Plan, ReadSpec
<1>7. Whole(head)'
  <2>1. \A t \in Pins(head) : Kind[t] = "beta" => \E s \in channel'[t] : verify_c8s_tag(s)
    <3>1. \A t \in C8sTag : channel'[t] = channel[t] \/ (t = tag /\ channel'[t] = {seen})
      BY Zenon, <1>2 DEF BumpTypes
    <3>2. Pins(head) \subseteq C8sTag BY Zenon, PinnedTags DEF BumpTypes, Pins
    <3> QED BY ZenonT(30), <1>2, <3>1, <3>2 DEF BumpInv, Whole
  <2>2. Pins(head)' = Pins(head) /\ \A p \in BumpProfile : ReadSpec(head, p)' = ReadSpec(head, p)
    BY Zenon, <1>2 DEF Pins, ReadSpec
  <2> QED BY Zenon, <1>2, <2>1, <2>2 DEF BumpInv, Whole, BumpProfile
<1>8. DriversRight(head)' /\ DriversRight(tree)' BY Zenon, <1>2 DEF BumpInv, DriversRight
<1>9. Edited'
  BY Zenon, <1>2, <1>3 DEF Edited, BumpInv, Whole, UpToValues, UpToModule, UpToLock, UpToProtocol, UpToCdi,
                    UpToSeed, UpToNodes, UpToFixture
<1> QED BY Zenon, <1>3, <1>6, <1>7, <1>8, <1>9 DEF BumpInv

(* At the end the working tree is one the release build can use.            *)
LEMMA DoneWhole ==
  ASSUME BumpTypes, BumpInv, bump.at = "done"
  PROVE  Whole(tree)
<1>1. Plan /\ Edited /\ bump.tag \in C8sTag BY Zenon DEF BumpInv, BumpTypes
<1>2. \A p \in BumpProfile :
        ReadSpec(tree, p) = IF p \in bump.moved THEN bump.tag ELSE ReadSpec(head, p)
  BY Zenon, <1>1, NewPins DEF Edited, BumpTypes
<1>3. \A t \in Pins(tree) : t = bump.tag \/ t \in Pins(head) BY Zenon, <1>2 DEF Pins
<1>4. bump.tag \in Pins(tree) BY Zenon, <1>1, <1>2 DEF Pins, Plan, BumpTypes
<1>5. /\ tree.spec = NewSpec /\ tree.values = NewSpec /\ tree.nodes = NewSpec
      /\ tree.gomod = bump.tag /\ bump.tag \in tree.lock.commits
      /\ head.lock.commits \subseteq tree.lock.commits
      /\ tree.lock.top \notin tree.lock.commits
      /\ \A m \in C8sTag : head.protocols[m] \subseteq tree.protocols[m]
      /\ \E m \in C8sTag : bump.tag \in tree.protocols[m]
      /\ \A d \in DOMAIN head.cdi : head.cdi[d] \subseteq tree.cdi[d]
      /\ bump.tag \in tree.cdi[Driver[bump.tag]]
      /\ tree.seeds = {t \in Pins(tree) : Kind[t] = "dev"}
      /\ tree.fixture = ReadSpec(tree, "staging")
  BY Zenon, <1>1 DEF Edited, UpToValues, UpToModule, UpToLock, UpToProtocol, UpToCdi, UpToSeed, UpToNodes,
              UpToFixture
<1>6. Pins(tree) \subseteq tree.lock.commits
  BY Zenon, <1>3, <1>5 DEF BumpInv, Whole
<1>7. ASSUME NEW t \in Pins(tree)
      PROVE  t \in tree.cdi[Driver[t]] /\ \E m \in C8sTag : t \in tree.protocols[m]
  <2>1. CASE t = bump.tag BY Zenon, <1>5, <2>1
  <2>2. CASE t \in Pins(head)
    <3>1. t \in head.cdi[Driver[t]] /\ \E m \in C8sTag : t \in head.protocols[m]
      BY Zenon, <2>2 DEF BumpInv, Whole
    <3>2. t \in C8sTag BY Zenon, <2>2, PinnedTags DEF BumpTypes, Pins
    <3>3. Driver[t] \in DOMAIN head.cdi BY <3>2 DEF BumpTypes, Files
    <3> QED BY Zenon, <1>5, <3>1, <3>3
  <2> QED BY <1>3, <1>7, <2>1, <2>2
<1>8. Kind[ReadSpec(tree, "production")] = "release"
  BY Zenon, <1>1, <1>2 DEF BumpInv, Whole, Plan, BumpProfile
<1>9. \A t \in Pins(tree) : Kind[t] = "beta" => \E seen \in channel[t] : verify_c8s_tag(seen)
  BY Zenon, <1>1, <1>3 DEF BumpInv, Whole, Plan
<1> QED BY Zenon, <1>4, <1>5, <1>6, <1>7, <1>8, <1>9 DEF Whole

LEMMA CaptureInv ==
  ASSUME BumpTypes, BumpInv, NEW t \in C8sTag, CaptureByHand(t)
  PROVE  BumpInv'
<1>1. tree = head /\ head' = tree' /\ bump' = bump /\ channel' = channel /\ bump.at = "idle"
  BY DEF CaptureByHand, BumpInv
<1>2. /\ tree'.spec = tree.spec /\ tree'.values = tree.values /\ tree'.nodes = tree.nodes
      /\ tree'.gomod = tree.gomod /\ tree'.lock = tree.lock
      /\ tree'.seeds = tree.seeds /\ tree'.fixture = tree.fixture
  BY DEF CaptureByHand, BumpTypes, Files
<1>3. /\ \A m \in C8sTag : tree.protocols[m] \subseteq tree'.protocols[m]
      /\ DOMAIN tree'.cdi = DOMAIN tree.cdi
      /\ \A d \in DOMAIN tree.cdi : /\ tree.cdi[d] \subseteq tree'.cdi[d]
                                    /\ \A u \in tree'.cdi[d] : u \in tree.cdi[d] \/ Driver[u] = d
  <2>1. CASE tree.protocols[t] = {} /\ tree' = [tree EXCEPT !.protocols[t] = {t}]
    BY <2>1 DEF BumpTypes, Files
  <2>2. CASE tree' = [tree EXCEPT !.cdi[Driver[t]] = @ \cup {t}]
    BY <2>2 DEF BumpTypes, Files
  <2> QED BY <2>1, <2>2 DEF CaptureByHand
<1>4. DriversRight(tree)' BY Zenon, <1>3 DEF BumpInv, DriversRight
<1>5. Pins(tree)' = Pins(tree) /\ \A p \in BumpProfile : ReadSpec(tree, p)' = ReadSpec(tree, p)
  BY <1>2, SameReads
<1>6. Whole(tree)'
  <2>1. Whole(tree) BY <1>1 DEF BumpInv
  <2>2. \A u \in Pins(tree) :
          u \in tree'.cdi[Driver[u]] /\ \E m \in C8sTag : u \in tree'.protocols[m]
    <3>1. Pins(tree) \subseteq C8sTag BY Zenon, PinnedTags DEF BumpTypes, Pins
    <3>2. DOMAIN tree.cdi = {Driver[x] : x \in C8sTag} BY Zenon DEF BumpTypes, Files
    <3> QED BY ZenonT(30), <1>3, <2>1, <3>1, <3>2 DEF Whole
  <2> QED BY Zenon, <1>1, <1>2, <1>5, <2>1, <2>2 DEF Whole, BumpProfile
<1>7. Whole(head)'
  <2>1. Pins(head)' = Pins(tree)' /\ \A p : ReadSpec(head, p)' = ReadSpec(tree, p)'
    BY Zenon, <1>1 DEF Pins, ReadSpec
  <2> QED BY Zenon, <1>1, <1>6, <2>1 DEF Whole
<1>8. DriversRight(head)' BY Zenon, <1>1, <1>4 DEF DriversRight
<1> QED BY <1>1, <1>4, <1>7, <1>8 DEF BumpInv

LEMMA BumpInvInit ==
  ASSUME NEW t \in C8sTag, NEW shared \in BOOLEAN, NEW top \in C8sTag \cup {NoTag},
         Kind[t] = "release", t # top, BumpInit(t, shared, top)
  PROVE  BumpInv
<1>1. BumpTypes BY BumpTypesInit
<1>2. tree = head /\ head = StartTree(t, shared, top) /\ bump.at = "idle"
  BY Zenon DEF BumpInit, NoBump
<1>3. /\ ReadSpec(head, "production") = t /\ ReadSpec(head, "staging") = t
      /\ Pins(head) = {t}
  <2>1. head.spec["release"] = t /\ head.spec["staging"] \in {t, NoTag}
    BY Zenon, <1>2 DEF StartTree, Layer
  <2>2. ReadSpec(head, "production") = t /\ ReadSpec(head, "staging") = t
    BY Zenon, <1>1, <2>1, PinnedTags DEF BumpTypes
  <2> QED BY SMTT(30), <2>2 DEF Pins, BumpProfile
<1>4. DriversRight(head) BY Zenon, <1>2 DEF StartTree, DriversRight
<1>5. t \in head.cdi[Driver[t]] /\ t \in head.protocols[t] BY Zenon, <1>2 DEF StartTree
<1>6. Whole(head)
  <2>1. /\ head.values = head.spec /\ head.nodes = head.spec /\ head.lock.commits = {t}
        /\ head.lock.top = top /\ head.seeds = {} /\ head.gomod = t /\ head.fixture = t
    BY Zenon, <1>2 DEF StartTree
  <2> QED BY Zenon, <1>3, <1>5, <2>1 DEF Whole
<1> QED BY <1>2, <1>4, <1>6 DEF BumpInv

LEMMA BumpInvStep ==
  ASSUME BumpTypes, BumpInv, NamedApart', [BumpNext]_bumpVars
  PROVE  BumpInv'
<1>1. CASE BumpStep
  BY SMTT(30), <1>1, PinSpecInv, PinValuesInv, ModuleInv, LockInv, ProtocolInv, CdiInv, SeedInv,
     NodesInv,
     FixtureInv, CheckInv DEF BumpStep
<1>2. CASE BumpFails
  <2>1. bump'.at = "failed" /\ UNCHANGED <<tree, head, channel>>
    BY SMTT(30), <1>2 DEF BumpFails, BumpTypes
  <2>2. PICK f : f = head /\ Whole(f) BY Zenon DEF BumpInv
  <2>3. Whole(head)' BY Zenon, <2>1, <2>2, WholeMoves
  <2>4. DriversRight(head)' /\ DriversRight(tree)' BY Zenon, <2>1 DEF BumpInv, DriversRight
  <2> QED BY Zenon, <2>1, <2>3, <2>4 DEF BumpInv
<1>3. CASE CommitBump
  <2>1. head' = tree /\ tree' = tree /\ channel' = channel /\ bump'.at = "idle"
    BY Zenon, <1>3 DEF CommitBump, NoBump
  <2>2. Whole(tree) BY SMTT(30), <1>3, DoneWhole DEF CommitBump
  <2>3. PICK f : f = tree /\ Whole(f) BY Zenon, <2>2
  <2>4. Whole(head)' BY Zenon, <2>1, <2>3, WholeMoves
  <2>5. DriversRight(head)' /\ DriversRight(tree)' BY Zenon, <2>1 DEF BumpInv, DriversRight
  <2>6. tree' = head' BY Zenon, <2>1
  <2> QED BY Zenon, <2>1, <2>4, <2>5, <2>6 DEF BumpInv
<1>4. CASE RestoreTree
  <2>1. tree' = head /\ head' = head /\ channel' = channel /\ bump'.at = "idle"
    BY Zenon, <1>4 DEF RestoreTree, NoBump
  <2>2. PICK f : f = head /\ Whole(f) BY Zenon DEF BumpInv
  <2>3. Whole(head)' BY Zenon, <2>1, <2>2, WholeMoves
  <2>4. DriversRight(head)' /\ DriversRight(tree)' BY Zenon, <2>1 DEF BumpInv, DriversRight
  <2>5. tree' = head' BY Zenon, <2>1
  <2> QED BY Zenon, <2>1, <2>3, <2>4, <2>5 DEF BumpInv
<1>5. CASE UNCHANGED bumpVars
  <2>1. tree' = tree /\ head' = head /\ bump' = bump /\ channel' = channel BY <1>5 DEF bumpVars
  <2>2. NewSpec' = NewSpec BY Zenon, <2>1 DEF NewSpec, MovedLayers
  <2>3. Pins(tree)' = Pins(tree) /\ ReadSpec(tree, "staging")' = ReadSpec(tree, "staging")
    BY <2>1, SameReads DEF BumpProfile
  <2>4. Edited => Edited' BY Zenon, <2>1, <2>2, <2>3 DEF Edited
  <2>5. Plan => Plan' BY Zenon, <2>1 DEF Plan, ReadSpec
  <2>6. Whole(head) => Whole(head)'
    <3>1. PICK f : f = head BY Zenon
    <3> QED BY Zenon, <2>1, <3>1, WholeMoves
  <2> QED BY Zenon, <2>1, <2>4, <2>5, <2>6 DEF BumpInv, DriversRight
<1> QED BY <1>1, <1>2, <1>3, <1>4, <1>5, MainInv, CaptureInv DEF BumpNext

(* Whatever bump-c8s.py moved, failed at and was rerun for, the release     *)
(* build can use each committed tree, unless production was named alone     *)
(* while staging still took its c8s from the shared layer.                  *)
THEOREM ReleaseStaysCovered == BumpSpec /\ []NamedApart => []ReleaseCovered
<1>1. (\E t \in C8sTag, shared \in BOOLEAN, top \in C8sTag \cup {NoTag} :
         Kind[t] = "release" /\ t # top /\ BumpInit(t, shared, top))
      => BumpTypes /\ BumpInv
  BY Zenon, BumpTypesInit, BumpInvInit
<1>2. BumpTypes /\ BumpInv => ReleaseCovered
  <2> SUFFICES ASSUME BumpTypes, BumpInv PROVE ReleaseCovered OBVIOUS
  <2>1. Whole(head) BY DEF BumpInv
  <2>2. ASSUME NEW p \in BumpProfile PROVE CoveredBy(head, p)
    <3>1. ReadSpec(head, p) \in Pins(head) BY DEF Pins
    <3>2. ReadOperator(head, p) = ReadSpec(head, p)
      BY Zenon, <2>1 DEF Whole, ReadOperator, ReadSpec
    <3>3. head.nodes[node_manifest(head, p)] = ReadSpec(head, p)
      BY Zenon, <2>1 DEF Whole, node_manifest, ReadSpec
    <3> QED BY Zenon, <2>1, <3>1, <3>2, <3>3
            DEF CoveredBy, require_c8s_agreement, node_measurements, source_lock_entry, read_cdi,
                core_seed, Whole, BumpProfile
  <2> QED BY Zenon, <2>1, <2>2 DEF ReleaseCovered, Whole, Pins
<1> QED BY <1>1, <1>2, BumpTypesStep, BumpInvStep, PTL DEF BumpSpec
=============================================================================
