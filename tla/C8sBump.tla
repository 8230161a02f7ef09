------------------------------- MODULE C8sBump -------------------------------
(* scripts/bump-c8s.py: a person moves release profiles to another c8s tag, *)
(* step by step over the files of the repository. A step that fails leaves  *)
(* the edits of the steps before it; the person then restores the tree, and *)
(* commits it when every step succeeded.                                    *)
(*                                                                          *)
(* A tag stands for its commit, its images and its digests. A file is the   *)
(* tag, or the set of tags, it records.                                     *)
EXTENDS Integers, Sequences

CONSTANTS
  C8sTag, NoTag,
  Kind,             \* "release", "beta" or "dev" (an untagged commit)
  Protocol,         \* the protocol sources of a tag without their comments
  Comments,         \* and their comments
  Driver,           \* what bin/confos-fetch-gpu pins at the tag's ref
  Ref,              \* that ref
  HashOrder         \* the tags in the order of their commit hashes

ASSUME BumpAssumption ==
  /\ NoTag \notin C8sTag /\ Kind \in [C8sTag -> {"release", "beta", "dev"}]
  /\ \A t, u \in C8sTag : Ref[t] = Ref[u] => Driver[t] = Driver[u]
  /\ HashOrder \in Seq(C8sTag)
  /\ \A t \in C8sTag : \E i \in DOMAIN HashOrder :
       HashOrder[i] = t /\ \A j \in DOMAIN HashOrder \ {i} : HashOrder[j] # t

VARIABLES
  tree,             \* the working tree
  head,             \* the committed tree
  bump,             \* the running script: step, arguments and what it read
  channel           \* history: what verify_c8s_tag saw of each pinned beta

bumpVars == <<tree, head, bump, channel>>

BumpProfile == {"production", "staging"}
Layer == {"release", "staging"}
Layers(p) == IF p = "production" THEN <<"release">> ELSE <<"release", "staging">>
Directory(p) == Layers(p)[Len(Layers(p))]

(* spec, values: the c8s mapping and the operator image a layer sets;       *)
(* nodes: the node manifest of a layer; protocols: the commits each         *)
(* protocol manifest covers; noted: those a person has to review; cdi: the  *)
(* node images of the record of a driver. lock: the source lock, with an    *)
(* entry at its top level and a list of others.                             *)
StartTree(t, shared, top) ==
  LET set == [l \in Layer |-> IF shared /\ l = "staging" THEN NoTag ELSE t] IN
  [spec |-> set, values |-> set, nodes |-> set, gomod |-> t,
   lock |-> [top |-> top, commits |-> {t}],
   protocols |-> [m \in C8sTag |-> IF m = t THEN {t} ELSE {}],
   noted |-> {},
   cdi |-> [d \in {Driver[x] : x \in C8sTag} |-> IF d = Driver[t] THEN {t} ELSE {}],
   seeds |-> {}, fixture |-> t]

NoBump == [at |-> "idle", tag |-> NoTag, named |-> {}, moved |-> {}, old |-> NoTag,
           before |-> [p \in BumpProfile |-> NoTag]]

BumpInit(t, shared, top) ==
  /\ tree = StartTree(t, shared, top) /\ head = tree
  /\ bump = NoBump
  /\ channel = [x \in C8sTag |-> {}]

-----------------------------------------------------------------------------
(* release_profiles: the last layer that sets a key owns it, for the value  *)
(* a profile reads and for the file its node manifest lies beside.          *)
owning_file(file, p) ==
  LET own == {i \in DOMAIN Layers(p) : file[Layers(p)[i]] # NoTag}
  IN Layers(p)[CHOOSE i \in own : \A j \in own : j <= i]
ReadSpec(f, p) == f.spec[owning_file(f.spec, p)]
ReadOperator(f, p) == f.values[owning_file(f.values, p)]
node_manifest(f, p) == owning_file(f.spec, p)

(* verify_c8s_tag of a beta. seen: the facts GitHub and cosign report.      *)
TagFacts == [signed : BOOLEAN, beta : BOOLEAN, main : BOOLEAN, prerelease : BOOLEAN,
             assets : SUBSET {"statement", "bundle"}, verifies : BOOLEAN,
             names : BOOLEAN, local : BOOLEAN]
signed_statement(seen) == seen.verifies /\ seen.names
verify_c8s_tag(seen) ==
  /\ seen.signed /\ seen.beta /\ ~seen.main
  /\ seen.prerelease /\ seen.assets = {"statement", "bundle"}
  /\ signed_statement(seen)

(* The arguments main() takes for a tag: a beta and a dev build move only   *)
(* staging; the checkout is at the commit the verified tag names.           *)
Permitted(tag, named, seen) ==
  /\ Kind[tag] # "release" => named = {"staging"}
  /\ Kind[tag] = "beta" => verify_c8s_tag(seen) /\ seen.local

(* main() up to new_c8s. Any refusal here leaves the tree as it is.         *)
BumpMain(tag, named, seen) ==
  LET moved == {p \in named : ReadSpec(tree, p) # tag} IN
  /\ bump.at = "idle" /\ tree = head
  /\ Permitted(tag, named, seen)
  /\ \E old \in C8sTag :
       /\ {ReadSpec(tree, p) : p \in moved} = {old}
       /\ bump' = [at |-> "spec", tag |-> tag, named |-> named, moved |-> moved, old |-> old,
                   before |-> [p \in BumpProfile |-> ReadSpec(tree, p)]]
  /\ channel' = IF Kind[tag] = "beta" THEN [channel EXCEPT ![tag] = {seen}] ELSE channel
  /\ UNCHANGED <<tree, head>>

Step(from, to) == bump.at = from /\ bump' = [bump EXCEPT !.at = to] /\ UNCHANGED <<head, channel>>

-----------------------------------------------------------------------------
(* Mutant: the layer that holds the pin is edited, whoever else uses it.    *)
target_file_shared(file, p) == owning_file(file, p)

(* A layer is edited in place when every profile that uses it moves, and    *)
(* otherwise the profile's own directory gets the pin.                      *)
target_file(file, p) ==
  LET layer == owning_file(file, p)
      users == {q \in BumpProfile : owning_file(file, q) = layer}
  IN IF users \subseteq bump.moved THEN layer ELSE Directory(p)

Targets(file) == {target_file(file, p) : p \in bump.moved}

(* edit_yaml changes that key of a file and nothing else, or fails.         *)
edit_yaml(file, layers) == [l \in Layer |-> IF l \in layers THEN bump.tag ELSE file[l]]
Pinned(file) == edit_yaml(file, Targets(file))

PinSpec == Step("spec", "values") /\ tree' = [tree EXCEPT !.spec = Pinned(tree.spec)]
PinValues == Step("values", "module") /\ tree' = [tree EXCEPT !.values = Pinned(tree.values)]

bump_module ==
  /\ tree.gomod \in {bump.old, bump.tag}
  /\ Step("module", "lock") /\ tree' = [tree EXCEPT !.gomod = bump.tag]

(* An entry of the new commit is kept; a new one is made from the old's.    *)
(* The entry at the top level is not looked at.                             *)
add_source_lock ==
  /\ tree.lock.commits \cap {bump.tag, bump.old} # {}
  /\ Step("lock", "protocol") /\ tree' = [tree EXCEPT !.lock.commits = @ \cup {bump.tag}]

(* The first manifest, in the order of file names, that covers the new or   *)
(* the old commit decides.                                                  *)
Covers(m) == tree.protocols[m] \cap {bump.tag, bump.old} # {}
Deciding(m) ==
  \E i \in DOMAIN HashOrder :
    m = HashOrder[i] /\ Covers(m) /\ \A j \in 1 .. i - 1 : ~Covers(HashOrder[j])
Unchanged == Protocol[bump.old] = Protocol[bump.tag] /\ Comments[bump.old] = Comments[bump.tag]

(* Mutant: a change of the protocol sources is not looked at.               *)
only_comments_assumed == TRUE

only_comments_changed == Protocol[bump.old] = Protocol[bump.tag]

(* review: --protocol-review, which the script uses here only.              *)
share_protocol_manifest(review) ==
  \E m \in C8sTag :
    /\ Deciding(m)
    /\ bump.tag \notin tree.protocols[m] => Unchanged \/ only_comments_changed \/ review
    /\ Step("protocol", "cdi")
    /\ tree' = [tree EXCEPT
         !.protocols[m] = @ \cup {bump.tag},
         !.noted = IF bump.tag \in tree.protocols[m] \/ only_comments_changed
                   THEN @ ELSE @ \cup {bump.tag}]

(* Every record that lists the old node image takes the new one when the    *)
(* ref, or with --confos-repo the script at the ref, did not change.        *)
driver_inputs(confos) == IF confos THEN {Driver[bump.tag]} ELSE {}
Extends(d) == bump.old \in tree.cdi[d] /\ bump.tag \notin tree.cdi[d]
extend_cdi_record(confos) ==
  /\ \A d \in DOMAIN tree.cdi :
       Extends(d) => Ref[bump.old] = Ref[bump.tag] \/ d \in driver_inputs(confos)
  /\ Step("cdi", "seed")
  /\ tree' = [tree EXCEPT !.cdi = [d \in DOMAIN @ |-> IF Extends(d) THEN @[d] \cup {bump.tag} ELSE @[d]]]

StaleSeed == {bump.old} \ {ReadSpec(tree, p) : p \in BumpProfile}

(* A dev build comes with its seed; a release tag's is its signed asset.    *)
move_core_seed ==
  /\ Step("seed", "nodes")
  /\ tree' = [tree EXCEPT !.seeds =
       (IF Kind[bump.tag] = "dev" THEN @ \cup {bump.tag} ELSE @) \ StaleSeed]

(* The artifact the spec pins, with the digests it pins, or a failure; it   *)
(* is written beside the spec that pins it.                                 *)
fetch(layer) == tree.spec[layer]
regenerate ==
  /\ Step("nodes", "fixture")
  /\ LET written == {node_manifest(tree, p) : p \in bump.moved}
     IN tree' = [tree EXCEPT !.nodes = [l \in Layer |-> IF l \in written THEN fetch(l) ELSE @[l]]]

regenerate_staging_fixture ==
  /\ Step("fixture", "check")
  /\ tree' = IF "staging" \in bump.moved THEN [tree EXCEPT !.fixture = ReadSpec(tree, "staging")]
             ELSE tree

(* verify-c8s-admission-source.py with --commit, and the release tests. No  *)
(* commit may be pinned twice, at the top level and in the list included.   *)
validate_entry(commit, seen_commits) == commit \notin seen_commits
read_lock == \A c \in tree.lock.commits : validate_entry(c, {tree.lock.top})
select_entry == bump.tag \in tree.lock.commits \cup {tree.lock.top}
verify == read_lock /\ select_entry
check == verify /\ Step("check", "done") /\ UNCHANGED tree

(* A command, the registry or a check fails, or a step needs a person.      *)
BumpFails ==
  /\ bump.at \notin {"idle", "done", "failed"}
  /\ bump' = [bump EXCEPT !.at = "failed"]
  /\ UNCHANGED <<tree, head, channel>>

-----------------------------------------------------------------------------
(* The person: commits the reviewed result, restores a failed one, or       *)
(* captures a protocol manifest or a CDI record by hand.                    *)
CommitBump ==
  /\ bump.at = "done"
  /\ head' = tree /\ bump' = NoBump /\ UNCHANGED <<tree, channel>>

RestoreTree ==
  /\ bump.at = "failed"
  /\ tree' = head /\ bump' = NoBump /\ UNCHANGED <<head, channel>>

CaptureByHand(t) ==
  /\ bump.at = "idle"
  /\ \/ /\ tree.protocols[t] = {} /\ \A m \in C8sTag : t \notin tree.protocols[m]
        /\ tree' = [tree EXCEPT !.protocols[t] = {t}]
     \/ /\ t \notin tree.cdi[Driver[t]]
        /\ tree' = [tree EXCEPT !.cdi[Driver[t]] = @ \cup {t}]
  /\ head' = tree' /\ UNCHANGED <<bump, channel>>

BumpStep ==
  \/ PinSpec \/ PinValues \/ bump_module \/ add_source_lock \/ move_core_seed \/ regenerate \/ regenerate_staging_fixture \/ check
  \/ \E option \in BOOLEAN : share_protocol_manifest(option) \/ extend_cdi_record(option)

BumpNext ==
  \/ \E t \in C8sTag, named \in SUBSET BumpProfile, seen \in TagFacts : BumpMain(t, named, seen)
  \/ BumpStep \/ BumpFails \/ CommitBump \/ RestoreTree
  \/ \E t \in C8sTag : CaptureByHand(t)

(* The repository starts at a release tag, with one lock entry for it.      *)
BumpSpec ==
  /\ \E t \in C8sTag, shared \in BOOLEAN, top \in C8sTag \cup {NoTag} :
       Kind[t] = "release" /\ t # top /\ BumpInit(t, shared, top)
  /\ [][BumpNext]_bumpVars

-----------------------------------------------------------------------------
(* What the release build (build-release-manifest.py and                    *)
(* generate-release-allowlist.py) reads of the files for a profile that     *)
(* pins t, each check named after its function.                             *)
require_c8s_agreement(f, p) == ReadOperator(f, p) = ReadSpec(f, p)
node_measurements(f, p) == f.nodes[node_manifest(f, p)] = ReadSpec(f, p)
source_lock_entry(f, t) == (t \in f.lock.commits) # (t = f.lock.top)
read_cdi(f, t) == t \in f.cdi[Driver[t]]
core_seed(f, t) == t \in f.seeds \/ Kind[t] # "dev"

(* No reader stops; a manifest records the protocol; a beta or a dev build  *)
(* is staging's, and a beta was verified when it was pinned.                *)
CoveredBy(f, p) ==
  LET t == ReadSpec(f, p) IN
  /\ require_c8s_agreement(f, p) /\ node_measurements(f, p)
  /\ source_lock_entry(f, t) /\ read_cdi(f, t) /\ core_seed(f, t)
  /\ \E m \in C8sTag : t \in f.protocols[m]
  /\ Kind[t] # "release" => p = "staging"
  /\ Kind[t] = "beta" => \E seen \in channel[t] : verify_c8s_tag(seen)

(* Whatever bump-c8s.py moved, failed at and was rerun for, and whatever    *)
(* was restored and captured by hand before: for each profile of the        *)
(* committed tree the release build finds the operator image, node          *)
(* manifest, one lock entry, driver record and seed of the c8s it pins,     *)
(* there is no seed that nobody pins, and the Go module and the staging     *)
(* fixture are of a pinned tag.                                             *)
ReleaseCovered ==
  /\ \A p \in BumpProfile : CoveredBy(head, p)
  /\ head.seeds \subseteq {t \in {ReadSpec(head, p) : p \in BumpProfile} : Kind[t] = "dev"}
  /\ head.gomod \in {ReadSpec(head, p) : p \in BumpProfile}
  /\ head.fixture = ReadSpec(head, "staging")

(* A manifest stands only for commits with the protocol sources it was     *)
(* captured from, up to comments, or with those of a commit it notes for    *)
(* review: sharing does not drift over a chain of moves.                    *)
ManifestsHonest ==
  \A m \in C8sTag : \A t \in head.protocols[m] :
    Protocol[t] \in {Protocol[u] : u \in {m} \cup (head.noted \cap head.protocols[m])}

(* "With --profile, it moves only the named profiles" (bump-c8s.py): at no  *)
(* step of the script does another profile read a different c8s.            *)
NamedOnly ==
  bump.at # "idle" => \A p \in BumpProfile \ bump.named : ReadSpec(tree, p) = bump.before[p]
==============================================================================
