------------------------------- MODULE MCPush -------------------------------
(***************************************************************************)
(* The /push route on small instances: an app with a Siphonfile, a source  *)
(* file and an icon.                                                       *)
(***************************************************************************)
EXTENDS Push, TLC

CONSTANTS p1, p2, dev, sf, a, b, m1, m2, bad, c1, c2

MCKeys == {prefixed(dev, k) : k \in Contents \cup FooterFiles}
MCDomain ==
  [k \in MCKeys |-> IF k[2] \in Contents THEN {k[2]} ELSE Footers]

Project(s, x, y) ==
  [n \in Names |-> CASE n = sf -> s [] n = a -> x [] n = b -> y]

\* m1 exhausts every limit of ParseMetadata, bad exceeds one of them.
MCParsed ==
  [c \in Contents \ Malformed |->
     [base |-> "number",
      length |-> CASE c = m1 -> Maximum
                   [] c = bad -> [Maximum EXCEPT !["android.store_name"] = 31]
                   [] OTHER -> [t \in Texts |-> 0]]]

\* a is renamed to the icon b and back, which leaves both with the same content
\* when a push stops in between, and the Siphonfile changes, is invalid or is
\* missing; b may not be an image.
MCProjects ==
  {Project(m1, c1, None), Project(m2, None, c1), Project(m1, c1, c2),
   Project(bad, c1, None), Project(None, c1, None)}

\* Files are added, changed and removed, and no two of them have the same content.
MCUnshared == {Project(m1, c1, None), Project(m1, None, c2), Project(m2, c1, c2)}

MCBothFooters == {{"ios", "android"}}
MCSomeFooters == {{"ios", "android"}, {"android"}}
=============================================================================
