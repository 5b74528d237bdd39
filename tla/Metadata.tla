------------------------------ MODULE Metadata ------------------------------
(***************************************************************************)
(* metadata.go: what makes a Siphonfile acceptable.  Of a parsed           *)
(* Siphonfile only what ParseMetadata looks at is kept: the shape of       *)
(* base_version and the lengths of the other values, in bytes, which is    *)
(* what Go's len counts.  An absent key has length 0, and keys Metadata    *)
(* does not declare are dropped by json.Unmarshal.                         *)
(***************************************************************************)
EXTENDS Files

CONSTANTS
  Malformed,  \* the contents json.Unmarshal cannot read into a Metadata
  Parsed      \* Parsed[c]: what it makes of any other content c

\* The values ParseMetadata checks the length of.
Texts == {"display_name", "facebook_app_id", "ios.store_name", "ios.language",
          "android.store_name", "android.language"}

\* base is "" when empty, "number" when strconv.ParseFloat accepts it.
Siphonfiles == [base : {"", "number", "text"}, length : [Texts -> Nat]]

ASSUME MetadataAssumption ==
  /\ Malformed \subseteq Contents
  /\ Parsed \in [Contents \ Malformed -> Siphonfiles]

\* Mutated form of TooLong: an Android name may be as long as an iOS one.
TooLongSharedLimit(m) ==
  \/ m.length["display_name"] > 32
  \/ m.length["facebook_app_id"] > 32
  \/ m.length["ios.store_name"] > 255
  \/ m.length["ios.language"] > 7
  \/ m.length["android.store_name"] > 255
  \/ m.length["android.language"] > 7

TooLong(m) ==
  \/ m.length["display_name"] > 32
  \/ m.length["facebook_app_id"] > 32
  \/ m.length["ios.store_name"] > 255
  \/ m.length["ios.language"] > 7
  \/ m.length["android.store_name"] > 30
  \/ m.length["android.language"] > 7

\* The contents ParseMetadata rejects.
BadMeta ==
  Malformed \cup
  {c \in Contents \ Malformed : Parsed[c].base # "number" \/ TooLong(Parsed[c])}

\* What the error messages announce: "it should be a string like "0.1"", and
\* the maximum of each key.
Maximum ==
  [t \in Texts |-> CASE t \in {"display_name", "facebook_app_id"} -> 32
                     [] t = "ios.store_name" -> 255
                     [] t = "android.store_name" -> 30
                     [] OTHER -> 7]

WithinLimits(c) ==
  /\ c \notin Malformed
  /\ Parsed[c].base = "number"
  /\ \A t \in Texts : Parsed[c].length[t] <= Maximum[t]
=============================================================================
