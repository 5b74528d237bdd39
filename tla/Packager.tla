------------------------------ MODULE Packager ------------------------------
(***************************************************************************)
(* What the routes share: where the files and footers of an app are kept,  *)
(* and what siphon-packager makes of them (packager.go, cache.go).         *)
(***************************************************************************)
EXTENDS Cache, Archive, Metadata

CONSTANTS
  Siphonfile,       \* MetadataName
  PackagerOutputs   \* the sets of platforms the packager may return footers for

Platforms == {"ios", "android"}

\* What a request may give as its platform: any string, and no footer is built
\* for those that "other" stands for.
AnyPlatform == Platforms \cup {"other"}

BundleFooterFile(platform) ==
  CASE platform = "ios"     -> "bundle-footer-ios"
    [] platform = "android" -> "bundle-footer-android"
    [] platform = "other"   -> "bundle-footer-other"

\* The key of the only footer there was before Android was supported.
OldFooterFile == "bundle-footer"

FooterFiles == {BundleFooterFile(platform) : platform \in AnyPlatform} \cup {OldFooterFile}

\* A footer is determined by its platform, the files of the directory it was
\* built from and the base version, which is a part of the Siphonfile.
Footers == [platform : Platforms, project : Listings, base : Contents]

ASSUME StoreAssumption ==
  /\ Siphonfile \in Names
  /\ None \notin Contents
  /\ Contents \cap FooterFiles = {}
  /\ PackagerOutputs \subseteq SUBSET Platforms
  /\ \A ns \in Namespaces :
       /\ \A c \in Contents :
            prefixed(ns, c) \in Keys /\ Domain[prefixed(ns, c)] = {c}
       /\ \A f \in FooterFiles :
            prefixed(ns, f) \in Keys /\ Domain[prefixed(ns, f)] = Footers

FileKey(c) == prefixed(Dev, c)

FooterKey(platform) == prefixed(Dev, BundleFooterFile(platform))

\* CleanupFooters: the packager's directory is found by the path of a footer of
\* out, and is left among the directories d when there is none.
CleanupFooters(out, d) == IF out = {} THEN d ELSE d \ {"footers"}
=============================================================================
