--------------------------- MODULE ReleasePipeline --------------------------
(* How a release gets its images, its chart and its policy: the image runs *)
(* (release-images.yml, affected-release-images.py,                        *)
(* image-publication-manifest.py), the search for their evidence           *)
(* (find-image-publication-run.py), the release build                      *)
(* (build-release-manifest.py) and its signing and publication             *)
(* (release-bundle.yml).                                                   *)
(*                                                                         *)
(* A commit is its position on main.  An image digest is the content of    *)
(* the inputs it was built from (input_revision), and whether two clean    *)
(* builds agreed on it.  Schemas, signatures and the rendered chart are    *)
(* reduced to what they identify.  The selector of the image inputs is the *)
(* same at every commit.                                                   *)
EXTENDS Integers, Sequences, FiniteSets

CONSTANTS
  Image,                            \* repository images
  Named, Rendered,                  \* per profile: in the values, in the chart
  Versioned,                        \* images whose workload name has the release
  Helpers,                          \* images of the transition helpers
  Version, Tag, None,
  Content,                          \* contents of an image's inputs or a chart
  Tree, History,                    \* source trees; the commits at the start
  WalkLimit,                        \* MAX_COMMITS of the evidence search
  MaxCommits, MaxRuns, MaxMoves,    \* bounds of the model
  MaxOpen                           \* tags pushed and not yet released

Profile == {"production", "staging"}
C8s     == {"stable", "beta", "dev"}
Final(t)     == [t EXCEPT !.transition = FALSE]
StagingOf(t) == [version |-> t.version, profile |-> "staging", transition |-> FALSE]
Source  == [images : [Image -> Content], chart : Content, c8s : C8s]

ASSUME ReleaseAssumption ==
  /\ Named \in [Profile -> SUBSET Image] /\ Rendered \in [Profile -> SUBSET Image]
  /\ \A p \in Profile : Rendered[p] \subseteq Named[p]
  /\ Tag \subseteq [version : Version, profile : Profile, transition : BOOLEAN]
  /\ \A t \in Tag : Final(t) \in Tag /\ StagingOf(t) \in Tag
  /\ WalkLimit \in Nat /\ MaxCommits \in Nat /\ MaxRuns \in Nat
  /\ MaxMoves \in Nat /\ MaxOpen \in Nat
  /\ Tree \subseteq Source /\ History \in Seq(Source)
  /\ None \notin Content /\ "helper" \notin Version \cup {None}
  /\ None \notin Tag

VARIABLES
  main,                             \* the commits of main
  runs,                             \* the image runs, with their evidence
  tags,                             \* the commit of each tag, 0 before its push
  moves,                            \* how often a tag was moved
  built,                            \* signed manifests on their way to publication
  pushed,                           \* tags whose chart was pushed
  releases,                         \* published manifests
  registry                          \* the chart package of each version

vars == <<main, runs, tags, moves, built, pushed, releases, registry>>

Digest   == [inputs : Content \cup {None}, audited : BOOLEAN]
NoDigest == [inputs |-> None, audited |-> FALSE]
Digests  == [Image -> Digest]
Published(ds) == {i \in Image : ds[i] # NoDigest}

Workload == [name : Image \X (Version \cup {None, "helper"}), image : Image, digest : Digest,
             process : Content]
Manifest ==
  [commit : Nat, c8s : C8s, publication : Digests, images : Digests, values : Digests,
   chart : Content, allow : SUBSET Workload, inputs : SUBSET (Image \X Digest)]
Run    == [commit : Nat, base : Tag \cup {None}, baseCommit : Nat, trusted : BOOLEAN,
           state : {"running", "success", "expired"}, digests : Digests]

TypeOK ==
  /\ main \in Seq(Source) /\ runs \in Seq(Run)
  /\ tags \in [Tag -> Nat] /\ moves \in Nat
  /\ built \in [Tag -> Manifest \cup {None}] /\ pushed \subseteq Tag
  /\ releases \in [Tag -> Manifest \cup {None}]
  /\ registry \in [Version -> Content \cup {None}]

Init ==
  /\ main = History
  /\ runs = << >> /\ moves = 0 /\ pushed = {}
  /\ tags = [t \in Tag |-> 0]
  /\ built = [t \in Tag |-> None] /\ releases = [t \in Tag |-> None]
  /\ registry = [v \in Version |-> None]

-----------------------------------------------------------------------------
(* The repository                                                          *)

(* A merge changes image inputs, the chart or the c8s pins, or none of it. *)
Commit(s) ==
  /\ Len(main) < MaxCommits
  /\ main' = Append(main, s)
  /\ UNCHANGED <<runs, tags, moves, built, pushed, releases, registry>>

(* A tag is pushed.  Tags must not move, but the workflow expects that one *)
(* does.                                                                   *)
PushTag(t, c) ==
  /\ tags[t] # c
  /\ Cardinality({u \in Tag \ {t} : tags[u] # 0 /\ releases[u] = None}) < MaxOpen
  /\ moves' = IF tags[t] = 0 THEN moves ELSE moves + 1
  /\ moves' <= MaxMoves
  /\ tags' = [tags EXCEPT ![t] = c]
  /\ UNCHANGED <<main, runs, built, pushed, releases, registry>>

-----------------------------------------------------------------------------
(* The image runs                                                          *)

(* affected_images of the difference between two commits                   *)
Affected(b, c) == {i \in Image : main[b].images[i] # main[c].images[i]}

(* The run is dispatched at the head.  Its base is a tag or a commit, and  *)
(* resolves to an ancestor.  A single build, for an unsigned release, has  *)
(* a staging tag as its base and no audit, and is not trusted.             *)
Dispatch(base, b, trusted) ==
  /\ Len(runs) < MaxRuns
  /\ IF base = None THEN b \in 1 .. Len(main) ELSE b = tags[base]
  /\ trusted \/ (base # None /\ base.profile = "staging")
  /\ Affected(b, Len(main)) # {}
  /\ runs' = Append(runs,
       [commit |-> Len(main), base |-> base, baseCommit |-> b, trusted |-> trusted,
        state |-> "running",
        digests |-> [i \in Image |->
          IF i \in Affected(b, Len(main))
          THEN [inputs |-> main[Len(main)].images[i], audited |-> trusted]
          ELSE NoDigest]])
  /\ UNCHANGED <<main, tags, moves, built, pushed, releases, registry>>

(* Every selected image was built, on main twice with one digest, pushed   *)
(* and recorded; the records are merged.  A run that fails leaves nothing. *)
Conclude(r) ==
  /\ runs[r].state = "running"
  /\ runs' = [runs EXCEPT ![r].state = "success"]
  /\ UNCHANGED <<main, tags, moves, built, pushed, releases, registry>>

(* GitHub deletes the artifact.                                            *)
Expire(r) ==
  /\ runs[r].state = "success"
  /\ runs' = [runs EXCEPT ![r].state = "expired"]
  /\ UNCHANGED <<main, tags, moves, built, pushed, releases, registry>>

TrustedRuns(c) ==
  {r \in DOMAIN runs :
     runs[r].commit = c /\ runs[r].trusted /\ runs[r].state = "success"}

ChangesImages(c) == c = 1 \/ Affected(c - 1, c) # {}

(* find_nearest: the walk from commit c ends at the evidence of run r,     *)
(* which the annotation of the tag names unless it is the only one.        *)
Evidence(c, named, r) ==
  LET k == runs[r].commit
  IN  /\ k <= c /\ c - k < WalkLimit
      /\ r \in TrustedRuns(k)
      /\ \A j \in k + 1 .. c : TrustedRuns(j) = {} /\ ~ChangesImages(j)
      /\ named \/ TrustedRuns(k) = {r}

-----------------------------------------------------------------------------
(* The release build                                                       *)

(* verify_image_source_boundary                                            *)
ImagesUnchanged(r, c) == Affected(runs[r].commit, c) = {}

(* Mutant: the commit of the base release is not compared.                 *)
BaseIgnoresCommit(r) ==
  runs[r].base # None =>
    /\ releases[runs[r].base] # None
    /\ Affected(runs[r].baseCommit, runs[r].commit) \subseteq Published(runs[r].digests)

(* base_release_images: the checks of the base release                     *)
BaseFits(r) ==
  runs[r].base # None =>
    LET base == releases[runs[r].base]
    IN  /\ base # None
        /\ base.commit = runs[r].baseCommit
        /\ Affected(runs[r].baseCommit, runs[r].commit) \subseteq Published(runs[r].digests)
        /\ \A i \in Published(base.publication) \cap Published(base.images) :
             base.publication[i] = base.images[i]

(* and the digest it gives an image, from the publication it binds, its    *)
(* rendered images or its values                                           *)
BaseDigest(r, i) ==
  LET base == releases[runs[r].base]
  IN  IF runs[r].base = None THEN NoDigest
      ELSE IF i \in Published(base.publication) THEN base.publication[i]
      ELSE IF i \in Published(base.images) THEN base.images[i]
      ELSE base.values[i]

(* release_images                                                          *)
ReleaseDigest(r, i) ==
  IF i \in Published(runs[r].digests) THEN runs[r].digests[i] ELSE BaseDigest(r, i)

Only(is, ds) == [i \in Image |-> IF i \in is THEN ds[i] ELSE NoDigest]

(* generate: one exact entry per rendered workload; its process,           *)
(* environment and mounts come from the chart                              *)
WorkloadName(t, i) == <<i, IF i \in Versioned THEN t.version ELSE None>>
Entries(t, ds, chart) ==
  {[name |-> WorkloadName(t, i), image |-> i, digest |-> ds[i], process |-> chart] :
     i \in Rendered[t.profile]}

(* The manifest of tag t at its commit with the evidence of run r.         *)
ManifestOf(t, r) ==
  LET c  == tags[t]
      ds == [i \in Image |-> ReleaseDigest(r, i)]
  IN  [commit |-> c, c8s |-> main[c].c8s, publication |-> runs[r].digests,
       images |-> Only(Rendered[t.profile], ds), values |-> Only(Named[t.profile], ds),
       chart |-> main[c].chart, allow |-> Entries(t, ds, main[c].chart), inputs |-> {}]

(* Mutant: any staging release of the version will do.                     *)
ChartBoundToVersion(t) ==
  t.profile = "production" => releases[StagingOf(t)] # None

(* staging_chart_binding: production promotes the package of staging.      *)
ChartBound(t) ==
  t.profile = "production" =>
    LET staging == releases[StagingOf(t)]
    IN  /\ staging # None
        /\ staging.commit = tags[t]
        /\ staging.chart = main[tags[t]].chart

(* read_spec and the c8s test before signing                               *)
PinAllowed(t) ==
  LET pin == main[tags[t]].c8s
  IN  pin # "dev" /\ (t.profile = "production" => pin = "stable")

(* What every build requires.                                              *)
Buildable(t, named, r) ==
  /\ tags[t] # 0 /\ built[t] = None /\ releases[t] = None
  /\ Evidence(tags[t], named, r)
  /\ ImagesUnchanged(r, tags[t])
  /\ BaseFits(r)
  /\ \A i \in Named[t.profile] : ReleaseDigest(r, i) # NoDigest
  /\ ChartBound(t) /\ PinAllowed(t)

Build(t, named, r) ==
  /\ ~t.transition /\ Buildable(t, named, r)
  /\ built' = [built EXCEPT ![t] = ManifestOf(t, r)]
  /\ UNCHANGED <<main, runs, tags, moves, pushed, releases, registry>>

(* Mutant: the policies are joined without a look at shared names.         *)
ComposableAlways(old, new) == TRUE

(* compose_transition_policy: no identity has two definitions.             *)
Composable(old, new) ==
  \A v, w \in old.allow \cup new.allow : v.name = w.name => v = w

(* resolve_transition_helpers: image keys of the release, names of their   *)
(* own                                                                     *)
HelperEntries(m) ==
  {[name |-> <<i, "helper">>, image |-> i, digest |-> m.images[i], process |-> m.chart] :
     i \in Helpers}

AllowedImages(m) == {<<w.image, w.digest>> : w \in m.allow}
Inventory(m) == {<<i, m.images[i]>> : i \in Published(m.images)} \cup m.inputs

(* transition_policy: from an earlier final release to the final release   *)
(* of the same commit.                                                     *)
BuildTransition(t, named, r, from) ==
  LET old == releases[from]
      new == releases[Final(t)]
      m   == ManifestOf(t, r)
      permitted == Inventory(old) \cup Inventory(new)
                     \cup AllowedImages(old) \cup AllowedImages(new)
  IN  /\ t.transition /\ Buildable(t, named, r)
      /\ ~from.transition /\ from.profile = t.profile
      /\ old # None /\ new # None
      /\ new.commit = m.commit
      /\ old.c8s = new.c8s
      /\ Inventory(m) \subseteq Inventory(new)
      /\ m.allow = new.allow
      /\ Helpers \subseteq Published(m.images)
      /\ Composable(old, new)
      /\ built' = [built EXCEPT ![t] =
           [m EXCEPT !.allow = old.allow \cup new.allow \cup HelperEntries(m),
                     !.inputs = permitted \ Inventory(m)]]
      /\ UNCHANGED <<main, runs, tags, moves, pushed, releases, registry>>

-----------------------------------------------------------------------------
(* The publish job                                                         *)

(* A staging release pushes its chart package under its version.           *)
PushChart(t) ==
  /\ built[t] # None /\ t \notin pushed
  /\ pushed' = pushed \cup {t}
  /\ registry' = IF t.profile = "staging"
                 THEN [registry EXCEPT ![t.version] = built[t].chart] ELSE registry
  /\ UNCHANGED <<main, runs, tags, moves, built, releases>>

(* The chart at the reference is the signed one, the tag did not move and  *)
(* there is no release yet.                                                *)
Publishable(t) ==
  /\ registry[t.version] = built[t].chart
  /\ tags[t] = built[t].commit
  /\ releases[t] = None

Publish(t) ==
  /\ built[t] # None /\ t \in pushed
  /\ releases' = IF Publishable(t) THEN [releases EXCEPT ![t] = built[t]] ELSE releases
  /\ built' = [built EXCEPT ![t] = None]
  /\ pushed' = pushed \ {t}
  /\ UNCHANGED <<main, runs, tags, moves, registry>>

Next ==
  \/ \E s \in Tree : Commit(s)
  \/ \E t \in Tag, c \in 1 .. Len(main) : PushTag(t, c)
  \/ \E base \in Tag \cup {None}, b \in 1 .. Len(main), trusted \in BOOLEAN :
       Dispatch(base, b, trusted)
  \/ \E r \in DOMAIN runs : Conclude(r) \/ Expire(r)
  \/ \E t \in Tag, named \in BOOLEAN, r \in DOMAIN runs :
       Build(t, named, r) \/ \E from \in Tag : BuildTransition(t, named, r, from)
  \/ \E t \in Tag : PushChart(t) \/ Publish(t)

Spec == Init /\ [][Next]_vars

-----------------------------------------------------------------------------
(* Every image a published release names was built, under audit, from the  *)
(* inputs that the release commit has, through any chain of base releases  *)
(* whose digests it took over, moved tags and expired evidence included.   *)
ImagesCurrent ==
  \A t \in Tag : releases[t] # None =>
    \A i \in Named[t.profile] :
      LET d == releases[t].values[i]
      IN  d.audited /\ d.inputs = main[releases[t].commit].images[i]

(* The package at the chart reference of a published release stays the one *)
(* its manifest binds, whatever is pushed under that version afterwards,   *)
(* and production runs the chart that staging ran.                         *)
ChartPromoted ==
  \A t \in Tag : releases[t] # None =>
    /\ registry[t.version] = releases[t].chart
    /\ releases[t].chart = main[releases[t].commit].chart
    /\ t.profile = "production" =>
         /\ releases[StagingOf(t)] # None
         /\ releases[StagingOf(t)].commit = releases[t].commit

(* A published policy gives a workload name one definition and allows only *)
(* images its manifest lists, and the policy of a transition release       *)
(* allows every workload of the release it leads to.                       *)
PolicyCovers ==
  \A t \in Tag : releases[t] # None =>
    /\ \A v, w \in releases[t].allow : v.name = w.name => v = w
    /\ AllowedImages(releases[t]) \subseteq Inventory(releases[t])
    /\ t.transition => releases[Final(t)].allow \subseteq releases[t].allow
=============================================================================
