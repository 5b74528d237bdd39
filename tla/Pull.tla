-------------------------------- MODULE Pull --------------------------------
(***************************************************************************)
(* pull.go: the /pull route.                                               *)
(*                                                                         *)
(* A puller is a client and the goroutine that serves it.  The client says *)
(* which assets it has; the answer is a zip file with the names of all the *)
(* assets, the assets it lacks and the footer of its platform.  A step is  *)
(* one database statement, one message of a cache call, or the answer.     *)
(*                                                                         *)
(* NewCache cannot fail: S3Wrapper.Open only refuses a bucket name that is *)
(* no DNS name, and getBucketName returns none of those.                   *)
(***************************************************************************)
EXTENDS Packager, Auth

CONSTANTS
  Pullers,       \* the clients that pull
  PullPlatforms, \* the platforms they ask for
  AssetNames,    \* the names that match assetsLike
  ClientHashes   \* the asset_hashes they send

VARIABLES
  \* Of each puller q: its request, and the state of its handler.
  pullAt,        \* where the handler is
  pullNs,        \* the submission ID, or Dev
  pullPlatform,  \* the platform, "ios" when the client names none
  hashes,        \* assetHashes
  assetFiles,    \* a.assetFiles
  unsent,        \* the assets writeAssets still has to get
  asset,         \* the one it is getting
  sent,          \* the assets written
  footer,        \* the footer written, or None
  pullDir,       \* whether a.tempDir exists
  answer         \* how the request ended

requestVars == <<pullNs, pullPlatform, hashes>>
zipVars == <<assetFiles, unsent, asset, sent, footer>>
pullVars == <<pullAt, requestVars, zipVars, pullDir, answer>>

PullGoto(q, l) == pullAt' = [pullAt EXCEPT ![q] = l]

\* The handler returns, and the deferred close() removes the directory.
PullFinish(q, a) ==
  /\ PullGoto(q, "done")
  /\ answer' = [answer EXCEPT ![q] = a]
  /\ pullDir' = [pullDir EXCEPT ![q] = FALSE]

\* The answer of the cache call the handler is in at one of the steps L.
PullGot(q, L) == pullAt[q] \in L /\ call[q].at = "ok"

PullMissed(q, L) == pullAt[q] \in L /\ call[q].at = "err"

-----------------------------------------------------------------------------
(* The request.                                                            *)

newPullArchive(q) ==
  /\ pullAt[q] = "idle"
  /\ \E h \in Handshakes, ns \in Namespaces, platform \in PullPlatforms,
        client \in ClientHashes :
       /\ AuthMiddleware("pull", h)
       /\ OwnNamespace(h, ns)
       /\ pullNs' = [pullNs EXCEPT ![q] = ns]
       /\ pullPlatform' = [pullPlatform EXCEPT ![q] = platform]
       /\ hashes' = [hashes EXCEPT ![q] = client]
  /\ pullDir' = [pullDir EXCEPT ![q] = TRUE]
  /\ PullGoto(q, "check")
  /\ UNCHANGED <<cacheVars, rows, zipVars, answer>>

\* A handshake AuthMiddleware or Pull refuses, or a payload parseAssetHashes does.
PullRefused(q) ==
  /\ pullAt[q] = "idle"
  /\ PullFinish(q, "refused")
  /\ UNCHANGED <<cacheVars, rows, requestVars, zipVars>>

\* Without a directory newPullArchive returns nil, which is then dereferenced.
PullNoTempDir(q) ==
  /\ pullAt[q] = "idle"
  /\ \E h \in Handshakes : AuthMiddleware("pull", h)
  /\ Fault("disk")
  /\ PullFinish(q, "aborted")
  /\ UNCHANGED <<s3, mc, call, rows, requestVars, zipVars>>

assertNotEmpty(q) ==
  /\ pullAt[q] = "check"
  /\ \E f \in Listings :
       /\ GetFiles(pullNs[q], f)
       /\ \/ f # NoFiles /\ PullGoto(q, "assets") /\ UNCHANGED <<answer, pullDir>>
          \/ f = NoFiles /\ PullFinish(q, "empty")
  /\ UNCHANGED <<s3, mc, call, rows, requestVars, zipVars>>

-----------------------------------------------------------------------------
(* The contents of the zip file.                                           *)

\* Mutated form of Lacking: an asset that has changed is not sent again.
LackingByName(client, listed) == {n \in In(listed) : client[n] = None}

\* The assets the client does not have, or has with another hash.
Lacking(client, listed) == {n \in In(listed) : client[n] # listed[n]}

\* getAssetFiles and writeAssetsListing.
getAssetFiles(q) ==
  /\ pullAt[q] = "assets"
  /\ \E f \in Listings :
       /\ GetSliceFilteredFiles(pullNs[q], AssetNames, f)
       /\ assetFiles' = [assetFiles EXCEPT ![q] = f]
       /\ unsent' = [unsent EXCEPT ![q] = Lacking(hashes[q], f)]
  /\ PullGoto(q, "write")
  /\ UNCHANGED <<s3, mc, call, rows, requestVars, asset, sent, footer, pullDir, answer>>

writeAssets(q) ==
  /\ pullAt[q] = "write"
  /\ \E n \in unsent[q] :
       /\ asset' = [asset EXCEPT ![q] = n]
       /\ BeginGet(q, prefixed(pullNs[q], assetFiles[q][n]))
  /\ PullGoto(q, "asset")
  /\ UNCHANGED <<s3, mc, faults, rows, requestVars, assetFiles, unsent, sent, footer,
                 pullDir, answer>>

AssetWritten(q) ==
  /\ PullGot(q, {"asset"})
  /\ sent' = [sent EXCEPT ![q] = [@ EXCEPT ![asset[q]] = call[q].val]]
  /\ unsent' = [unsent EXCEPT ![q] = @ \ {asset[q]}]
  /\ Hangup(q)
  /\ PullGoto(q, "write")
  /\ UNCHANGED <<s3, mc, faults, rows, requestVars, assetFiles, asset, footer, pullDir,
                 answer>>

\* Mutated form of writeBundleFooter: the submission ID is left out of the key.
WriteDevFooter(q) ==
  /\ pullAt[q] = "write"
  /\ unsent[q] = {}
  /\ BeginGet(q, FooterKey(pullPlatform[q]))
  /\ PullGoto(q, "footer")
  /\ UNCHANGED <<s3, mc, faults, rows, requestVars, zipVars, pullDir, answer>>

writeBundleFooter(q) ==
  /\ pullAt[q] = "write"
  /\ unsent[q] = {}
  /\ BeginGet(q, prefixed(pullNs[q], BundleFooterFile(pullPlatform[q])))
  /\ PullGoto(q, "footer")
  /\ UNCHANGED <<s3, mc, faults, rows, requestVars, zipVars, pullDir, answer>>

\* "If we encounter an error, then we check for an old-style bundle footer".
OldBundleFooter(q) ==
  /\ PullMissed(q, {"footer"})
  /\ BeginGet(q, prefixed(pullNs[q], OldFooterFile))
  /\ PullGoto(q, "oldfooter")
  /\ UNCHANGED <<s3, mc, faults, rows, requestVars, zipVars, pullDir, answer>>

\* The footer is written, and the zip file sent.
writeZip(q) ==
  /\ PullGot(q, {"footer", "oldfooter"})
  /\ footer' = [footer EXCEPT ![q] = call[q].val]
  /\ Hangup(q)
  /\ PullFinish(q, "ok")
  /\ UNCHANGED <<s3, mc, faults, rows, requestVars, assetFiles, unsent, asset, sent>>

\* "Internal error.": an asset or both footers are missing ...
PullMissing(q) ==
  /\ PullMissed(q, {"asset", "oldfooter"})
  /\ Hangup(q)
  /\ PullFinish(q, "error")
  /\ UNCHANGED <<s3, mc, faults, rows, requestVars, zipVars>>

\* ... or a statement fails, or a file of the directory or the answer cannot be
\* written.
PullFails(q) ==
  /\ \/ pullAt[q] \in {"check", "assets"} /\ Fault("dbread")
     \/ pullAt[q] = "write" /\ In(assetFiles[q]) # {} /\ Fault("disk")
     \/ PullGot(q, {"asset", "footer", "oldfooter"}) /\ Fault("disk")
  /\ Hangup(q)
  /\ PullFinish(q, "error")
  /\ UNCHANGED <<s3, mc, rows, requestVars, zipVars>>

-----------------------------------------------------------------------------

\* The state of the pullers in Q is gone: their requests are over.
PullReset(Q) ==
  LET Blank(f, v) == [q \in Pullers |-> IF q \in Q THEN v ELSE f[q]]
  IN  /\ pullAt' = Blank(pullAt, "idle")
      /\ pullNs' = Blank(pullNs, Dev)
      /\ pullPlatform' = Blank(pullPlatform, "ios")
      /\ hashes' = Blank(hashes, NoFiles)
      /\ assetFiles' = Blank(assetFiles, NoFiles)
      /\ unsent' = Blank(unsent, {})
      /\ asset' = Blank(asset, None)
      /\ sent' = Blank(sent, NoFiles)
      /\ footer' = Blank(footer, None)
      /\ answer' = Blank(answer, "none")

\* The client has read the answer.
PullReturn(q) ==
  /\ pullAt[q] = "done"
  /\ PullReset({q})
  /\ UNCHANGED <<cacheVars, rows, pullDir>>

PullRequest(q) == newPullArchive(q) \/ PullRefused(q) \/ PullNoTempDir(q)

\* A step of the goroutine that serves q, between its cache calls.
PullStep(q) ==
  \/ assertNotEmpty(q) \/ getAssetFiles(q)
  \/ writeAssets(q) \/ AssetWritten(q)
  \/ writeBundleFooter(q) \/ OldBundleFooter(q) \/ writeZip(q)
  \/ PullMissing(q) \/ PullFails(q)

PullInit ==
  /\ pullAt = [q \in Pullers |-> "idle"]
  /\ pullNs = [q \in Pullers |-> Dev]
  /\ pullPlatform = [q \in Pullers |-> "ios"]
  /\ hashes = [q \in Pullers |-> NoFiles]
  /\ assetFiles = [q \in Pullers |-> NoFiles]
  /\ unsent = [q \in Pullers |-> {}]
  /\ asset = [q \in Pullers |-> None]
  /\ sent = [q \in Pullers |-> NoFiles]
  /\ footer = [q \in Pullers |-> None]
  /\ pullDir = [q \in Pullers |-> FALSE]
  /\ answer = [q \in Pullers |-> "none"]

-----------------------------------------------------------------------------
(* Properties.                                                             *)

\* The types of the variables of a pull.
PullTypeOK ==
  /\ pullAt \in [Pullers -> {"idle", "check", "assets", "write", "asset", "footer",
                             "oldfooter", "done"}]
  /\ pullNs \in [Pullers -> Namespaces]
  /\ pullPlatform \in [Pullers -> AnyPlatform]
  /\ hashes \in [Pullers -> Listings]
  /\ assetFiles \in [Pullers -> Listings]
  /\ unsent \in [Pullers -> SUBSET Names]
  /\ asset \in [Pullers -> Names \cup {None}]
  /\ sent \in [Pullers -> Listings]
  /\ footer \in [Pullers -> Footers \cup {None}]
  /\ pullDir \in [Pullers -> BOOLEAN]
  /\ answer \in [Pullers -> {"none", "ok", "empty", "refused", "error", "aborted"}]

Pulled(q) == pullAt[q] = "done" /\ answer[q] = "ok"

\* "adds any assets that the client does not have (or assets that have changed)"
\* (pull.go:77): whatever is pushed or removed while a pull is under way, a
\* client whose pull succeeds ends up with each asset of the listing it was
\* sent, and with the content the row had when the listing was read.
PullDelivers ==
  \A q \in Pullers : Pulled(q) =>
    \A n \in In(assetFiles[q]) :
      assetFiles[q][n] = IF sent[q][n] # None THEN sent[q][n] ELSE hashes[q][n]
=============================================================================
