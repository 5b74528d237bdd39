----------------------------- MODULE MCBundler -----------------------------
(***************************************************************************)
(* All routes on small instances: an app with a Siphonfile, a source file  *)
(* and an asset, and one submission.                                       *)
(***************************************************************************)
EXTENDS Bundler, TLC

CONSTANTS p1, p2, q1, w1, w2, h1, dev, sub, sf, a, b, m1, m2, bad, c1, c2

\* With one request at a time, requests do not overlap as the proofs assume.
ASSUME SerialAssumption == MaxActive = 1 => OneAtATime

MCKeys ==
  {prefixed(ns, k) : ns \in Namespaces, k \in Contents \cup FooterFiles} \cup {ProbeKey}
MCDomain ==
  [k \in MCKeys |-> CASE k = ProbeKey -> {Probe}
                      [] k[2] \in Contents -> {k[2]}
                      [] OTHER -> Footers]

Project(s, x, y) ==
  [n \in Names |-> CASE n = sf -> s [] n = a -> x [] n = b -> y]

\* The asset changes, and is removed.
MCAssetProjects == {Project(m1, c1, None), Project(m1, c2, None), Project(m1, None, None)}

\* The Siphonfile and the asset change together.
MCTwoVersions == {Project(m1, c1, None), Project(m2, c2, None)}

\* The asset changes.
MCAssetVersions == {Project(m1, c1, None), Project(m1, c2, None)}

\* The Siphonfile changes while the asset is removed or comes back.
MCAssetRemoved == {Project(m1, c1, None), Project(m2, None, None)}

\* The asset changes, is removed, or comes with a Siphonfile that is refused.
MCOverlapProjects == MCAssetProjects \cup {Project(bad, c1, None)}

MCShakes ==
  {[signed |-> TRUE, action |-> act, user |-> s = None, submission |-> s, app |-> TRUE] :
     act \in Actions, s \in {None, sub}}

MCNothing == {NoFiles}
MCOldOrNothing == {NoFiles, Project(None, c1, None)}

\* m1 exhausts every limit of ParseMetadata, bad exceeds one of them.
MCParsed ==
  [c \in Contents \ Malformed |->
     [base |-> "number",
      length |-> CASE c = m1 -> Maximum
                   [] c = bad -> [Maximum EXCEPT !["android.store_name"] = 31]
                   [] OTHER -> [t \in Texts |-> 0]]]

MCSymmetry == Permutations({p1, p2})

MCBothFooters == {{"ios", "android"}}
MCIosFooter == {{"ios"}}
=============================================================================
