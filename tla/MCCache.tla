------------------------------ MODULE MCCache ------------------------------
(***************************************************************************)
(* The cache on small instances: one key that holds a single content (a    *)
(* file, stored under its hash) and one that is overwritten (a footer).    *)
(***************************************************************************)
EXTENDS Cache

CONSTANTS p1, p2, blob, v1, v2

FileKey == prefixed("dev", "hash")
FooterKey == prefixed("dev", "bundle-footer-ios")

MCKeys == {FileKey, FooterKey}
MCDomain == [k \in MCKeys |-> IF k = FileKey THEN {blob} ELSE {v1, v2}]
=============================================================================
