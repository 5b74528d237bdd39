--------------------------- MODULE BundlerProofs ---------------------------
(***************************************************************************)
(* Proofs about the routes together, for any number of clients of each     *)
(* route, any overlap of their requests, any faults and restarts.  They    *)
(* build on the invariant of the pushes (module PushProofs), which the     *)
(* other routes leave alone: they use the cache as a push does, and write  *)
(* no row of the development files.                                        *)
(***************************************************************************)
EXTENDS Bundler, PushProofs

\* What a submission relies on at each step: the calls it waits for, and the
\* values it will write.
SubmitOK(w) ==
  /\ subAt[w] \notin {"idle", "done"} => subID[w] \in Subs
  /\ subAt[w] \in {"copy", "copyget", "copyset", "fetch", "fetching", "rows"} =>
       todo[w] \subseteq In(list[w])
  /\ subAt[w] \in {"copyget", "copyset", "fetching"} => item[w] \in todo[w]
  /\ subAt[w] \in {"copyget", "fetching"} =>
       call[w].op = "get" /\ call[w].key = FileKey(list[w][item[w]])
  /\ subAt[w] = "meta" =>
       call[w].op = "get" /\ \E c \in Contents : call[w].key = prefixed(subID[w], c)
  /\ subAt[w] \in {"build", "fetch", "fetching"} => base[w] \in Contents
  /\ subAt[w] \in {"store", "snapshot", "rows"} => subPlatform[w] \in Platforms

SubmitInv == SubmitTypeOK /\ \A w \in Submitters : SubmitOK(w)

\* The client has asset n, or is sent it, with the hash it was told.
Delivered(q, n) ==
  assetFiles[q][n] = IF sent[q][n] # None THEN sent[q][n] ELSE hashes[q][n]

\* What a pull relies on: every asset that is not left to send is delivered, and
\* the call it waits for is the Get of an asset of its listing or of a footer.
PullOK(q) ==
  /\ pullAt[q] \in {"idle", "check", "assets"} => sent[q] = NoFiles
  /\ pullAt[q] \in {"write", "asset", "footer", "oldfooter"} \/ Pulled(q) =>
       /\ unsent[q] \subseteq In(assetFiles[q])
       /\ \A n \in In(assetFiles[q]) \ unsent[q] : Delivered(q, n)
  /\ pullAt[q] \in {"footer", "oldfooter"} \/ Pulled(q) => unsent[q] = {}
  /\ pullAt[q] = "asset" =>
       /\ asset[q] \in unsent[q]
       /\ call[q].op = "get" /\ call[q].key = prefixed(pullNs[q], assetFiles[q][asset[q]])
  /\ pullAt[q] \in {"footer", "oldfooter"} =>
       /\ call[q].op = "get"
       /\ \E f \in FooterFiles : call[q].key = prefixed(pullNs[q], f)

PullInv == PullTypeOK /\ \A q \in Pullers : PullOK(q)

\* A health check gives up on S3 at the last attempt.
HealthInv ==
  /\ HealthTypeOK
  /\ \A m \in Monitors : hcAt[m] \in {"idle", "hashes", "s3"} => attempt[m] < MaxAttempts

\* The inductive invariant.
BundlerInv ==
  /\ PushInv
  /\ SubmitInv
  /\ PullInv
  /\ HealthInv
  /\ requests \in 0 .. MaxRequests
  /\ settled \in Listings

USE DEF Goto, Finish, Fail, Panic, Fault, NoFault, archiveVars, metaVars, todoVars,
        buildVars, worldVars, cacheVars

-----------------------------------------------------------------------------
(* What the parts of the invariant are about.                              *)

\* The call of x may have moved on, but is still the same call.
SameCall(x) == call'[x].op = call[x].op /\ call'[x].key = call[x].key

\* The parts about the routes depend on their variables and calls alone.
LEMMA SubmitFrame ==
  ASSUME SubmitInv, UNCHANGED submitVars, \A w \in Submitters : SameCall(w)
  PROVE  SubmitInv'
<1>1. UNCHANGED <<subAt, subID, subPlatform, list, todo, item, base, project, subDirs,
                  outcome, submitted>>
  BY Zenon DEF submitVars, subRequestVars, loopVars
<1>2. SubmitTypeOK'
  BY <1>1, Zenon DEF SubmitInv, SubmitTypeOK
<1>3. ASSUME NEW w \in Submitters
      PROVE  SubmitOK(w)'
  BY <1>1, Zenon DEF SubmitInv, SubmitOK, SameCall
<1> QED
  BY <1>2, <1>3, Zenon DEF SubmitInv

\* The same of pulls.
LEMMA PullFrame ==
  ASSUME PullInv, UNCHANGED pullVars, \A q \in Pullers : SameCall(q)
  PROVE  PullInv'
<1>1. UNCHANGED <<pullAt, pullNs, pullPlatform, hashes, assetFiles, unsent, asset, sent,
                  footer, pullDir, answer>>
  BY Zenon DEF pullVars, requestVars, zipVars
<1>2. PullTypeOK'
  BY <1>1, Zenon DEF PullInv, PullTypeOK
<1>3. ASSUME NEW q \in Pullers
      PROVE  PullOK(q)'
  BY <1>1 DEF PullInv, PullOK, SameCall, Pulled, Delivered
<1> QED
  BY <1>2, <1>3, Zenon DEF PullInv

\* The same of health checks.
LEMMA HealthFrame ==
  ASSUME HealthInv, UNCHANGED healthVars
  PROVE  HealthInv'
  BY Zenon DEF HealthInv, HealthTypeOK, healthVars

\* The same of pushes, which also depend on the rows of Dev.
LEMMA PushFrame ==
  ASSUME PushInv, UNCHANGED pushVars, CacheInv', FilesTypeOK', rows'[Dev] = rows[Dev],
         \A p \in Pushers : call'[p] = call[p]
  PROVE  PushInv'
<1>1. UNCHANGED <<pc, listing, diffs, meta, metaDirty, added, changed, removed, cur, dirty,
                  files, fetch, tmp, built, stored, dirs, result, notified, doomed>>
  BY Zenon DEF pushVars
<1>2. CacheTypeOK'
  BY Zenon DEF CacheInv
<1>3. PushTypeOK'
  BY <1>1, <1>2, Zenon DEF PushInv, PushTypeOK
<1>4. ASSUME NEW p \in Pushers
      PROVE  HandlerOK(p)'
  BY <1>1, Zenon DEF PushInv, HandlerOK
<1>5. StoredAccepted'
  BY Zenon DEF PushInv, StoredAccepted
<1> QED
  BY <1>3, <1>4, <1>5, Zenon DEF PushInv

\* What a step does to the calls when it is one of x's, outside a cache call.
CallsKeys(x) ==
  /\ UNCHANGED <<s3, mc>>
  /\ FaultsGrow
  /\ \/ UNCHANGED call
     \/ Hangup(x)
     \/ \E k \in Keys : BeginGet(x, k) \/ \E v \in Domain[k] : BeginSet(x, k, v)

\* Such a step keeps the invariant of the cache and the calls of the others.
LEMMA CallsKeysInv ==
  ASSUME CacheInv, NEW x \in Procs, CallsKeys(x)
  PROVE  CacheInv' /\ \A y \in Procs : y # x => call'[y] = call[y]
<1>1. DOMAIN call = Procs
  BY Zenon DEF CacheInv, CacheTypeOK
<1>2. CacheInv'
  BY FaultInv, HangupInv, BeginInv, Zenon DEF CallsKeys
<1>3. \A y \in Procs : y # x => call'[y] = call[y]
  BY <1>1, Zenon DEF CallsKeys, Hangup, BeginGet, BeginSet, Begin
<1> QED
  BY <1>2, <1>3, Zenon

\* The routes are served by different goroutines.
LEMMA Roles ==
  /\ Pushers \subseteq Procs /\ Pullers \subseteq Procs
  /\ Submitters \subseteq Procs /\ Monitors \subseteq Procs
  /\ \A p \in Pushers : p \notin Pullers /\ p \notin Submitters /\ p \notin Monitors
  /\ \A q \in Pullers : q \notin Pushers /\ q \notin Submitters /\ q \notin Monitors
  /\ \A w \in Submitters : w \notin Pushers /\ w \notin Pullers /\ w \notin Monitors
  /\ \A m \in Monitors : m \notin Pushers /\ m \notin Pullers /\ m \notin Submitters
  BY PushAssumption, BundlerAssumption, Zenon

\* The keys of every namespace.
LEMMA NamespaceKeys ==
  /\ Dev \in Namespaces /\ Subs \subseteq Namespaces
  /\ \A ns \in Namespaces, c \in Contents :
       prefixed(ns, c) \in Keys /\ Domain[prefixed(ns, c)] = {c}
  /\ \A ns \in Namespaces, f \in FooterFiles :
       prefixed(ns, f) \in Keys /\ Domain[prefixed(ns, f)] = Footers
  /\ \A platform \in AnyPlatform : BundleFooterFile(platform) \in FooterFiles
  /\ OldFooterFile \in FooterFiles
  BY StoreAssumption, Zenon DEF Namespaces, FooterFiles

\* A read of rows, with or without a fault, is a listing; the faults grow.
LEMMA ReadFacts ==
  ASSUME BundlerInv, NEW kind
  PROVE  /\ Fault(kind) => FaultsGrow
         /\ NoFault => FaultsGrow
         /\ \A ns, f : GetFiles(ns, f) => FaultsGrow
         /\ \A ns, like, f : GetSliceFilteredFiles(ns, like, f) => FaultsGrow
<1>1. PushInv
  BY Zenon DEF BundlerInv
<1>2. NoFault => FaultsGrow
  BY <1>1, FaultGrows, Zenon
<1>3. \A k : Fault(k) => FaultsGrow
  BY <1>1, FaultGrows, Zenon
<1> QED
  BY <1>2, <1>3, Zenon DEF GetFiles, GetSliceFilteredFiles

\* A step outside the pushes that writes no row of Dev keeps their invariant.
LEMMA RouteKeepsPush ==
  ASSUME BundlerInv, NEW x \in Procs, x \notin Pushers, CallsKeys(x), UNCHANGED pushVars,
         FilesTypeOK', rows'[Dev] = rows[Dev]
  PROVE  PushInv' /\ \A y \in Procs : y # x => call'[y] = call[y]
<1>1. CacheInv' /\ \A y \in Procs : y # x => call'[y] = call[y]
  BY CallsKeysInv, Zenon DEF BundlerInv, PushInv
<1>2. \A p \in Pushers : call'[p] = call[p]
  BY <1>1, Roles, Zenon
<1> QED
  BY <1>1, <1>2, PushFrame, Zenon DEF BundlerInv

-----------------------------------------------------------------------------
(* Pulls.                                                                  *)

\* The step changes nothing of a pull other than q.
PullOthers(q) ==
  \A y \in Pullers :
    y # q =>
      /\ pullAt'[y] = pullAt[y] /\ pullNs'[y] = pullNs[y] /\ hashes'[y] = hashes[y]
      /\ assetFiles'[y] = assetFiles[y] /\ unsent'[y] = unsent[y]
      /\ asset'[y] = asset[y] /\ sent'[y] = sent[y] /\ answer'[y] = answer[y]

\* So a step of q keeps the invariant if it keeps the parts that are about q.
LEMMA PullLocal ==
  ASSUME PullInv, NEW q \in Pullers, PullOthers(q), PullTypeOK', PullOK(q)',
         \A y \in Procs : y # q => call'[y] = call[y]
  PROVE  PullInv'
<1>1. ASSUME NEW y \in Pullers, y # q
      PROVE  PullOK(y)'
  <2>1. PullOK(y) /\ call'[y] = call[y]
    BY <1>1, Roles, Zenon DEF PullInv
  <2>2. /\ pullAt'[y] = pullAt[y] /\ pullNs'[y] = pullNs[y] /\ hashes'[y] = hashes[y]
        /\ assetFiles'[y] = assetFiles[y] /\ unsent'[y] = unsent[y]
        /\ asset'[y] = asset[y] /\ sent'[y] = sent[y] /\ answer'[y] = answer[y]
    BY <1>1, Zenon DEF PullOthers
  <2>3. Pulled(y)' <=> Pulled(y)
    BY <2>2, Zenon DEF Pulled
  <2>4. \A n : Delivered(y, n)' <=> Delivered(y, n)
    BY <2>2, Zenon DEF Delivered
  <2> QED
    BY <2>1, <2>2, <2>3, <2>4, Zenon DEF PullOK
<1> QED
  BY <1>1, Zenon DEF PullInv

\* What a successful Get returns to a pull.
LEMMA PullGets ==
  ASSUME BundlerInv, NEW q \in Pullers, call[q].at = "ok"
  PROVE  /\ pullAt[q] = "asset" => call[q].val = assetFiles[q][asset[q]]
         /\ pullAt[q] \in {"footer", "oldfooter"} => call[q].val \in Footers
<1>1. CallOK(q) /\ PullOK(q)
  BY Roles, Zenon DEF BundlerInv, PushInv, CacheInv, PullInv
<1>2. assetFiles[q] \in Listings /\ pullNs[q] \in Namespaces
  BY Zenon DEF BundlerInv, PullInv, PullTypeOK
<1>3. CASE pullAt[q] = "asset"
  <2>1. assetFiles[q][asset[q]] \in Contents
    BY <1>1, <1>2, <1>3, ListingFacts, Zenon DEF PullOK
  <2>2. call[q].key = prefixed(pullNs[q], assetFiles[q][asset[q]]) /\ call[q].op = "get"
    BY <1>1, <1>3, Zenon DEF PullOK
  <2>3. call[q].val \in Domain[call[q].key]
    BY <1>1, <2>2, Zenon DEF CallOK
  <2>4. Domain[call[q].key] = {assetFiles[q][asset[q]]}
    BY <1>2, <2>1, <2>2, NamespaceKeys, Zenon
  <2> QED
    BY <1>3, <2>3, <2>4, Zenon
<1>4. CASE pullAt[q] \in {"footer", "oldfooter"}
  <2>1. /\ \E f \in FooterFiles : call[q].key = prefixed(pullNs[q], f)
        /\ call[q].op = "get"
    BY <1>1, <1>4, NamespaceKeys, Zenon DEF PullOK
  <2>2. call[q].val \in Domain[call[q].key]
    BY <1>1, <2>1, Zenon DEF CallOK
  <2>3. Domain[call[q].key] = Footers
    BY <1>2, <2>1, NamespaceKeys, Zenon
  <2> QED
    BY <1>4, <2>2, <2>3, Zenon
<1> QED
  BY <1>3, <1>4, Zenon

\* A pull makes no call but Gets of keys of its namespace.
LEMMA PullCalls ==
  ASSUME BundlerInv, NEW q \in Pullers, PullRequest(q) \/ PullStep(q) \/ PullReturn(q)
  PROVE  CallsKeys(q) /\ UNCHANGED rows
<1>g. \A kind : (Fault(kind) => FaultsGrow) /\ (NoFault => FaultsGrow)
  BY ReadFacts, Zenon
<1>r. \A ns, like, f : (GetFiles(ns, f) => FaultsGrow)
                       /\ (GetSliceFilteredFiles(ns, like, f) => FaultsGrow)
  BY ReadFacts, Zenon
<1>t. /\ pullNs[q] \in Namespaces /\ pullPlatform[q] \in AnyPlatform
      /\ assetFiles[q] \in Listings /\ PullOK(q)
  BY Zenon DEF BundlerInv, PullInv, PullTypeOK
<1>1. CASE newPullArchive(q) \/ PullRefused(q) \/ PullReturn(q)
  BY <1>1, <1>g, Zenon DEF newPullArchive, PullRefused, PullReturn, CallsKeys
<1>2. CASE PullNoTempDir(q)
  BY <1>2, <1>g, Zenon DEF PullNoTempDir, CallsKeys
<1>3. CASE assertNotEmpty(q) \/ getAssetFiles(q)
  BY <1>3, <1>r, Zenon DEF assertNotEmpty, getAssetFiles, CallsKeys
<1>4. CASE writeAssets(q)
  <2>1. PICK n \in unsent[q] : BeginGet(q, prefixed(pullNs[q], assetFiles[q][n]))
    BY <1>4, Zenon DEF writeAssets
  <2>2. assetFiles[q][n] \in Contents
    BY <1>4, <1>t, ListingFacts, Zenon DEF writeAssets, PullOK
  <2>3. prefixed(pullNs[q], assetFiles[q][n]) \in Keys
    BY <1>t, <2>2, NamespaceKeys, Zenon
  <2> QED
    BY <1>4, <1>g, <2>1, <2>3, Zenon DEF writeAssets, CallsKeys
<1>5. CASE writeBundleFooter(q)
  <2>1. prefixed(pullNs[q], BundleFooterFile(pullPlatform[q])) \in Keys
    BY <1>t, NamespaceKeys, Zenon
  <2> QED
    BY <1>5, <1>g, <2>1, Zenon DEF writeBundleFooter, CallsKeys
<1>6. CASE OldBundleFooter(q)
  <2>1. prefixed(pullNs[q], OldFooterFile) \in Keys
    BY <1>t, NamespaceKeys, Zenon
  <2> QED
    BY <1>6, <1>g, <2>1, Zenon DEF OldBundleFooter, CallsKeys
<1>7. CASE AssetWritten(q) \/ writeZip(q) \/ PullMissing(q)
  BY <1>7, <1>g, Zenon DEF AssetWritten, writeZip, PullMissing, CallsKeys
<1>8. CASE PullFails(q)
  BY <1>8, <1>g, Zenon DEF PullFails, CallsKeys
<1> QED
  BY <1>1, <1>2, <1>3, <1>4, <1>5, <1>6, <1>7, <1>8, Zenon DEF PullRequest, PullStep

\* A pull that ends without success, or has only begun, has delivered nothing
\* yet.
LEMMA PullEnds ==
  ASSUME PullInv, NEW q \in Pullers, NEW a \in {"empty", "refused", "error", "aborted"},
         PullFinish(q, a), UNCHANGED <<requestVars, zipVars>>
  PROVE  PullTypeOK' /\ PullOK(q)' /\ PullOthers(q)
<1>1. PullTypeOK'
  BY Zenon DEF PullInv, PullTypeOK, PullFinish, PullGoto, requestVars, zipVars
<1>2. PullOK(q)' /\ PullOthers(q)
  BY Zenon DEF PullInv, PullTypeOK, PullFinish, PullGoto, requestVars, zipVars, PullOK,
     PullOthers,
         Pulled
<1> QED
  BY <1>1, <1>2, Zenon

\* Every step of a pull keeps its invariant.
LEMMA PullStepInv ==
  ASSUME BundlerInv, NEW q \in Pullers, PullRequest(q) \/ PullStep(q)
  PROVE  PullTypeOK' /\ PullOK(q)' /\ PullOthers(q)
<1>i. PullInv /\ PullTypeOK /\ PullOK(q)
  BY Zenon DEF BundlerInv, PullInv
<1>p. q \in Procs /\ DOMAIN call = Procs
  BY Roles, Zenon DEF BundlerInv, PushInv, CacheInv, CacheTypeOK
<1> USE DEF requestVars, zipVars
<1>1. CASE newPullArchive(q)
  <2>1. PullTypeOK'
    BY <1>1, <1>i, BundlerAssumption DEF newPullArchive, PullGoto, PullTypeOK
  <2>2. PullOK(q)' /\ PullOthers(q)
    BY <1>1, <1>i, Zenon DEF newPullArchive, PullGoto, PullTypeOK, PullOK, PullOthers, Pulled
  <2> QED
    BY <2>1, <2>2, Zenon
<1>2. CASE PullRefused(q) \/ PullNoTempDir(q)
  BY <1>2, <1>i, PullEnds, Zenon DEF PullRefused, PullNoTempDir
<1>3. CASE PullMissing(q) \/ PullFails(q)
  BY <1>3, <1>i, PullEnds, Zenon DEF PullMissing, PullFails
<1>4. CASE assertNotEmpty(q)
  <2>1. CASE PullFinish(q, "empty")
    BY <1>4, <1>i, <2>1, PullEnds, Zenon DEF assertNotEmpty
  <2>2. CASE PullGoto(q, "assets") /\ UNCHANGED <<answer, pullDir>>
    BY <1>4, <1>i, <2>2, Zenon DEF assertNotEmpty, PullGoto, PullTypeOK, PullOK,
       PullOthers, Pulled
  <2> QED
    BY <1>4, <2>1, <2>2, Zenon DEF assertNotEmpty
<1>5. CASE getAssetFiles(q)
  <2>1. PICK f \in Listings :
          /\ assetFiles' = [assetFiles EXCEPT ![q] = f]
          /\ unsent' = [unsent EXCEPT ![q] = Lacking(hashes[q], f)]
    BY <1>5, Zenon DEF getAssetFiles
  <2>2. Lacking(hashes[q], f) \subseteq In(f) /\ In(f) \subseteq Names
    BY Zenon DEF Lacking, In
  <2>3. PullTypeOK'
    BY <1>5, <1>i, <2>1, <2>2, Zenon DEF getAssetFiles, PullGoto, PullTypeOK
  <2>4. \A n \in In(f) \ Lacking(hashes[q], f) : f[n] = hashes[q][n] /\ sent[q][n] = None
    BY <1>5, <1>i, Zenon DEF getAssetFiles, PullOK, Lacking, In, NoFiles
  <2>5. PullOthers(q)
    BY <1>5, <1>i, <2>1, Zenon DEF getAssetFiles, PullGoto, PullTypeOK, PullOthers
  <2>6. /\ pullAt'[q] = "write" /\ assetFiles'[q] = f /\ unsent'[q] = Lacking(hashes[q], f)
        /\ UNCHANGED <<sent, hashes>>
    BY <1>5, <1>i, <2>1, Zenon DEF getAssetFiles, PullGoto, PullTypeOK
  <2>7. PullOK(q)'
    BY <2>2, <2>4, <2>6, Zenon DEF PullOK, Pulled, Delivered
  <2> QED
    BY <2>3, <2>5, <2>7, Zenon
<1>6. CASE writeAssets(q)
  <2>1. PICK n \in unsent[q] :
          /\ asset' = [asset EXCEPT ![q] = n]
          /\ BeginGet(q, prefixed(pullNs[q], assetFiles[q][n]))
    BY <1>6, Zenon DEF writeAssets
  <2>2. n \in Names
    BY <1>i, <2>1, Zenon DEF PullTypeOK
  <2>3. PullTypeOK' /\ PullOthers(q)
    BY <1>6, <1>i, <2>1, <2>2, Zenon DEF writeAssets, PullGoto, PullTypeOK, PullOthers
  <2>4. /\ call'[q].op = "get" /\ call'[q].key = prefixed(pullNs[q], assetFiles[q][n])
        /\ asset'[q] = n /\ pullAt'[q] = "asset" /\ pullAt[q] = "write"
        /\ UNCHANGED <<pullNs, assetFiles, unsent, sent, hashes>>
    BY <1>6, <1>i, <1>p, <2>1, Zenon DEF writeAssets, PullGoto, PullTypeOK, BeginGet, Begin
  <2>5. PullOK(q)'
    BY <1>i, <2>1, <2>4, Zenon DEF PullOK, Pulled, Delivered
  <2> QED
    BY <2>3, <2>5, Zenon
<1>7. CASE AssetWritten(q)
  <2>1. /\ pullAt[q] = "asset" /\ asset[q] \in Names /\ asset[q] \in unsent[q]
        /\ call[q].val = assetFiles[q][asset[q]] /\ call[q].val \in Contents
    <3>1. pullAt[q] = "asset" /\ call[q].at = "ok"
      BY <1>7, Zenon DEF AssetWritten, PullGot
    <3>2. assetFiles[q] \in Listings /\ asset[q] \in unsent[q] /\ asset[q] \in In(assetFiles[q])
      BY <1>i, <3>1, Zenon DEF PullOK, PullTypeOK
    <3>3. asset[q] \in Names /\ assetFiles[q][asset[q]] \in Contents
      BY <3>2, ListingFacts, Zenon
    <3> QED
      BY <3>1, <3>2, <3>3, PullGets, Zenon
  <2>2. /\ sent'[q] = [sent[q] EXCEPT ![asset[q]] = call[q].val]
        /\ unsent'[q] = unsent[q] \ {asset[q]}
        /\ pullAt'[q] = "write"
        /\ UNCHANGED <<pullNs, assetFiles, hashes>>
    BY <1>7, <1>i, Zenon DEF AssetWritten, PullGoto, PullTypeOK
  <2>3. PullTypeOK'
    <3>1. [sent[q] EXCEPT ![asset[q]] = call[q].val] \in Listings
      BY <1>i, <2>1, ListingFacts, Zenon DEF PullTypeOK
    <3> QED
      BY <1>7, <1>i, <3>1, Zenon DEF AssetWritten, PullGoto, PullTypeOK
  <2>4. PullOthers(q)
    BY <1>7, <1>i, Zenon DEF AssetWritten, PullGoto, PullTypeOK, PullOthers
  <2>5. \A n \in In(assetFiles[q]) \ unsent'[q] : Delivered(q, n)'
    <3>1. sent[q] \in Listings /\ None \notin Contents
      BY <1>i, StoreAssumption, Zenon DEF PullTypeOK
    <3>2. \A n \in In(assetFiles[q]) \ unsent[q] : Delivered(q, n) /\ n # asset[q] /\ n \in Names
      BY <1>i, <2>1, Zenon DEF PullOK, In
    <3>3. \A n \in Names : n # asset[q] => sent'[q][n] = sent[q][n]
      BY <2>2, <3>1, Zenon DEF Listings
    <3>4. sent'[q][asset[q]] = assetFiles[q][asset[q]] /\ sent'[q][asset[q]] # None
      BY <2>1, <2>2, <3>1, Zenon DEF Listings
    <3> QED
      BY <2>2, <3>2, <3>3, <3>4, Zenon DEF Delivered
  <2>6. PullOK(q)'
    BY <1>i, <2>1, <2>2, <2>5, Zenon DEF PullOK, Pulled
  <2> QED
    BY <2>3, <2>4, <2>6, Zenon
<1>8. CASE writeBundleFooter(q)
  <2>1. PullTypeOK' /\ PullOthers(q)
    BY <1>8, <1>i, Zenon DEF writeBundleFooter, PullGoto, PullTypeOK, PullOthers
  <2>2. BundleFooterFile(pullPlatform[q]) \in FooterFiles
    BY <1>i, NamespaceKeys, Zenon DEF PullTypeOK
  <2>3. /\ call'[q].op = "get"
        /\ call'[q].key = prefixed(pullNs[q], BundleFooterFile(pullPlatform[q]))
        /\ pullAt'[q] = "footer" /\ pullAt[q] = "write" /\ unsent[q] = {}
    BY <1>8, <1>i, <1>p, Zenon DEF writeBundleFooter, PullGoto, PullTypeOK, BeginGet, Begin
  <2>4. PullOK(q)'
    BY <1>8, <1>i, <2>2, <2>3, Zenon DEF writeBundleFooter, PullOK, Pulled, Delivered
  <2> QED
    BY <2>1, <2>4, Zenon
<1>9. CASE OldBundleFooter(q)
  <2>1. PullTypeOK' /\ PullOthers(q)
    BY <1>9, <1>i, Zenon DEF OldBundleFooter, PullGoto, PullTypeOK, PullOthers
  <2>2. /\ call'[q].op = "get" /\ call'[q].key = prefixed(pullNs[q], OldFooterFile)
        /\ pullAt'[q] = "oldfooter" /\ pullAt[q] = "footer"
    BY <1>9, <1>i, <1>p, Zenon DEF OldBundleFooter, PullMissed, PullGoto, PullTypeOK,
       BeginGet, Begin
  <2>3. PullOK(q)'
    BY <1>9, <1>i, <2>2, NamespaceKeys, Zenon DEF OldBundleFooter, PullOK, Pulled, Delivered
  <2> QED
    BY <2>1, <2>3, Zenon
<1>10. CASE writeZip(q)
  <2>1. pullAt[q] \in {"footer", "oldfooter"} /\ call[q].val \in Footers
    BY <1>10, PullGets, Zenon DEF writeZip, PullGot
  <2>2. PullTypeOK' /\ PullOthers(q)
    BY <1>10, <1>i, <2>1, Zenon DEF writeZip, PullFinish, PullGoto, PullTypeOK, PullOthers
  <2>3. PullOK(q)'
    BY <1>10, <1>i, <2>1, Zenon DEF writeZip, PullFinish, PullGoto, PullTypeOK, PullOK,
       Pulled, Delivered
  <2> QED
    BY <2>2, <2>3, Zenon
<1> QED
  BY <1>1, <1>2, <1>3, <1>4, <1>5, <1>6, <1>7, <1>8, <1>9, <1>10, Zenon DEF PullRequest,
     PullStep

-----------------------------------------------------------------------------
(* Submissions.                                                            *)

\* The step changes nothing of a submission other than w.
SubmitOthers(w) ==
  \A y \in Submitters :
    y # w =>
      /\ subAt'[y] = subAt[y] /\ subID'[y] = subID[y] /\ list'[y] = list[y]
      /\ todo'[y] = todo[y] /\ item'[y] = item[y] /\ base'[y] = base[y]
      /\ subPlatform'[y] = subPlatform[y]

\* So a step of w keeps the invariant if it keeps the parts that are about w.
LEMMA SubmitLocal ==
  ASSUME SubmitInv, NEW w \in Submitters, SubmitOthers(w), SubmitTypeOK', SubmitOK(w)',
         \A y \in Procs : y # w => call'[y] = call[y]
  PROVE  SubmitInv'
<1>1. ASSUME NEW y \in Submitters, y # w
      PROVE  SubmitOK(y)'
  <2>1. SubmitOK(y) /\ call'[y] = call[y]
    BY <1>1, Roles, Zenon DEF SubmitInv
  <2>2. /\ subAt'[y] = subAt[y] /\ subID'[y] = subID[y] /\ list'[y] = list[y]
        /\ todo'[y] = todo[y] /\ item'[y] = item[y] /\ base'[y] = base[y]
        /\ subPlatform'[y] = subPlatform[y]
    BY <1>1, Zenon DEF SubmitOthers
  <2> QED
    BY <2>1, <2>2, Zenon DEF SubmitOK
<1> QED
  BY <1>1, Zenon DEF SubmitInv

\* What a successful Get returns to a submission.
LEMMA SubmitGets ==
  ASSUME BundlerInv, NEW w \in Submitters, call[w].at = "ok"
  PROVE  /\ subAt[w] \in {"copyget", "fetching"} =>
              /\ item[w] \in Names /\ list[w][item[w]] \in Contents
              /\ call[w].val = list[w][item[w]]
         /\ subAt[w] = "meta" => call[w].val \in Contents
<1>1. CallOK(w) /\ SubmitOK(w)
  BY Roles, Zenon DEF BundlerInv, PushInv, CacheInv, SubmitInv
<1>2. list[w] \in Listings
  BY Zenon DEF BundlerInv, SubmitInv, SubmitTypeOK
<1>3. CASE subAt[w] \in {"copyget", "fetching"}
  <2>1. item[w] \in Names /\ list[w][item[w]] \in Contents
    BY <1>1, <1>2, <1>3, ListingFacts, Zenon DEF SubmitOK
  <2>2. call[w].val \in Domain[FileKey(list[w][item[w]])]
    BY <1>1, <1>3, Zenon DEF SubmitOK, CallOK
  <2> QED
    BY <1>3, <2>1, <2>2, KeyFacts, Zenon
<1>4. CASE subAt[w] = "meta"
  <2>1. PICK c \in Contents : call[w].key = prefixed(subID[w], c)
    BY <1>1, <1>4, Zenon DEF SubmitOK
  <2>2. subID[w] \in Namespaces /\ call[w].val \in Domain[call[w].key]
    BY <1>1, <1>4, NamespaceKeys, Zenon DEF SubmitOK, CallOK
  <2>3. Domain[prefixed(subID[w], c)] = {c}
    BY <2>2, NamespaceKeys, Zenon
  <2> QED
    BY <1>4, <2>1, <2>2, <2>3, Zenon
<1> QED
  BY <1>3, <1>4, Zenon

\* A row of a submission is added with a hash, and is no row of Dev.
LEMMA SnapshotRow ==
  ASSUME FilesTypeOK, NEW s \in Subs, NEW n \in Names, NEW c \in Contents, AddFile(s, n, c)
  PROVE  FilesTypeOK' /\ rows'[Dev] = rows[Dev]
<1>1. rows[s] \in Listings /\ s # Dev /\ s \in Namespaces
  BY NamespaceKeys, FilesAssumption, Zenon DEF FilesTypeOK
<1>2. [rows[s] EXCEPT ![n] = c] \in Listings
  BY <1>1, ListingFacts, Zenon
<1> QED
  BY <1>1, <1>2, NamespaceKeys, Zenon DEF FilesTypeOK, AddFile

\* The calls and rows of a submission: it Sets files and footers of its own
\* namespace, to values that belong at their keys.
LEMMA SubmitCalls ==
  ASSUME BundlerInv, NEW w \in Submitters,
         SubmitRequest(w) \/ SubmitRefused(w) \/ SubmitStep(w) \/ SubmitReturn(w)
  PROVE  CallsKeys(w) /\ FilesTypeOK' /\ rows'[Dev] = rows[Dev]
<1>g. \A kind : (Fault(kind) => FaultsGrow) /\ (NoFault => FaultsGrow)
  BY ReadFacts, Zenon
<1>r. \A ns, f : GetFiles(ns, f) => FaultsGrow
  BY ReadFacts, Zenon
<1>t. FilesTypeOK /\ SubmitTypeOK /\ SubmitOK(w)
  BY Zenon DEF BundlerInv, PushInv, PushTypeOK, SubmitInv
<1>l. list[w] \in Listings /\ subPlatform[w] \in AnyPlatform /\ project[w] \in Listings
  BY <1>t, Zenon DEF SubmitTypeOK
<1>u. UNCHANGED rows => FilesTypeOK' /\ rows'[Dev] = rows[Dev]
  BY <1>t, Zenon DEF FilesTypeOK
<1>s. subAt[w] \notin {"idle", "done"} => subID[w] \in Namespaces
  BY <1>t, NamespaceKeys, Zenon DEF SubmitOK
<1>1. CASE \/ SubmitRequest(w) \/ SubmitRefused(w) \/ CheckSubmission(w) \/ CheckApp(w)
           \/ SubmitReturn(w)
  <2>1. UNCHANGED <<s3, mc, call, faults, rows>>
    BY <1>1, Zenon DEF SubmitRequest, SubmitRefused, CheckSubmission, CheckApp, SubmitReturn
  <2> QED
    BY <1>g, <1>u, <2>1, Zenon DEF CallsKeys
<1>2. CASE copyFiles(w) \/ makeBundleFooter(w) \/ MakeSnapshot(w)
  <2>1. UNCHANGED <<s3, mc, call, rows>> /\ \E f \in Listings : GetFiles(Dev, f)
    BY <1>2, Zenon DEF copyFiles, makeBundleFooter, MakeSnapshot, Loop
  <2> QED
    BY <1>r, <1>u, <2>1, Zenon DEF CallsKeys
<1>3. CASE CopyGet(w) \/ FetchFile(w)
  <2>1. PICK n \in todo[w] : BeginGet(w, FileKey(list[w][n]))
    BY <1>3, Zenon DEF CopyGet, FetchFile
  <2>2. todo[w] \subseteq In(list[w])
    BY <1>3, <1>t, Zenon DEF CopyGet, FetchFile, SubmitOK
  <2>3. FileKey(list[w][n]) \in Keys
    BY <1>l, <2>1, <2>2, ListingFacts, KeyFacts, Zenon
  <2>4. UNCHANGED <<s3, mc, faults, rows>>
    BY <1>3, Zenon DEF CopyGet, FetchFile
  <2> QED
    BY <1>g, <1>u, <2>1, <2>3, <2>4, Zenon DEF CallsKeys
<1>4. CASE CopySet(w)
  <2>1. list[w][item[w]] \in Contents /\ call[w].val = list[w][item[w]]
    BY <1>4, SubmitGets, Zenon DEF CopySet, SubGot
  <2>2. subID[w] \in Namespaces
    BY <1>4, <1>s, Zenon DEF CopySet, SubGot
  <2>3. /\ prefixed(subID[w], list[w][item[w]]) \in Keys
        /\ call[w].val \in Domain[prefixed(subID[w], list[w][item[w]])]
    <3>1. \A c \in Contents :
            prefixed(subID[w], c) \in Keys /\ Domain[prefixed(subID[w], c)] = {c}
      BY <2>2, NamespaceKeys, Zenon
    <3> QED
      BY <2>1, <3>1, Zenon
  <2>4. /\ BeginSet(w, prefixed(subID[w], list[w][item[w]]), call[w].val)
        /\ UNCHANGED <<s3, mc, faults, rows>>
    BY <1>4, Zenon DEF CopySet
  <2> QED
    BY <1>g, <1>u, <2>3, <2>4, Zenon DEF CallsKeys
<1>5. CASE loadMetaData(w)
  <2>1. rows[Dev][Siphonfile] \in Contents /\ subID[w] \in Namespaces
    BY <1>5, <1>t, <1>s, KeyFacts, ListingFacts, StoreAssumption, Zenon DEF loadMetaData,
       FilesTypeOK
  <2>2. prefixed(subID[w], rows[Dev][Siphonfile]) \in Keys
    BY <2>1, NamespaceKeys, Zenon
  <2>3. /\ BeginGet(w, prefixed(subID[w], rows[Dev][Siphonfile]))
        /\ UNCHANGED <<s3, mc, faults, rows>>
    BY <1>5, Zenon DEF loadMetaData
  <2> QED
    BY <1>g, <1>u, <2>2, <2>3, Zenon DEF CallsKeys
<1>6. CASE StoreFooter(w)
  <2>1. base[w] \in Contents /\ subID[w] \in Namespaces
    BY <1>6, <1>t, <1>s, Zenon DEF StoreFooter, SubmitOK
  <2>2. SnapshotFooterFile(subPlatform[w]) \in FooterFiles
    BY <1>l, NamespaceKeys, Zenon DEF SnapshotFooterFile
  <2>3. [platform |-> subPlatform[w], project |-> project[w], base |-> base[w]] \in Footers
    <3>1. subPlatform[w] \in Platforms
      BY <1>6, StoreAssumption, Zenon DEF StoreFooter
    <3> QED
      BY <1>l, <2>1, <3>1, Zenon DEF Footers
  <2>4. /\ prefixed(subID[w], SnapshotFooterFile(subPlatform[w])) \in Keys
        /\ Domain[prefixed(subID[w], SnapshotFooterFile(subPlatform[w]))] = Footers
    BY <2>1, <2>2, NamespaceKeys, Zenon
  <2>5. /\ BeginSet(w, prefixed(subID[w], SnapshotFooterFile(subPlatform[w])),
                    [platform |-> subPlatform[w], project |-> project[w], base |-> base[w]])
        /\ UNCHANGED <<s3, mc, faults, rows>>
    BY <1>6, Zenon DEF StoreFooter
  <2> QED
    BY <1>g, <1>u, <2>3, <2>4, <2>5, Zenon DEF CallsKeys
<1>7. CASE \/ Copied(w) \/ MetaDataLoaded(w) \/ FetchFileFails(w) \/ StoreFails(w)
           \/ FooterStored(w)
  <2>1. Hangup(w) /\ UNCHANGED <<s3, mc, faults, rows>>
    BY <1>7, Zenon DEF Copied, MetaDataLoaded, FetchFileFails, StoreFails, FooterStored
  <2> QED
    BY <1>g, <1>u, <2>1, Zenon DEF CallsKeys
<1>8. CASE FileFetched(w) \/ SubmitFails(w)
  <2>1. Hangup(w) /\ UNCHANGED <<s3, mc, rows>> /\ (NoFault \/ \E kind : Fault(kind))
    BY <1>8, Zenon DEF FileFetched, SubmitFails
  <2> QED
    BY <1>g, <1>u, <2>1, Zenon DEF CallsKeys
<1>9. CASE BuildFails(w) \/ NoSnapshotFooter(w)
  <2>1. UNCHANGED <<s3, mc, call, rows>> /\ (NoFault \/ \E kind : Fault(kind))
    BY <1>9, Zenon DEF BuildFails, NoSnapshotFooter
  <2> QED
    BY <1>g, <1>u, <2>1, Zenon DEF CallsKeys
<1>10. CASE AddRow(w) \/ AddRowFails(w)
  <2>1. UNCHANGED <<s3, mc, call>> /\ (NoFault \/ \E kind : Fault(kind))
    BY <1>10, Zenon DEF AddRow, AddRowFails
  <2>2. /\ subAt[w] = "rows"
        /\ \E n \in todo[w] : UNCHANGED rows \/ AddFile(subID[w], n, list[w][n])
    BY <1>10, Zenon DEF AddRow, AddRowFails
  <2>3. subID[w] \in Subs /\ todo[w] \subseteq In(list[w])
    BY <1>t, <2>2, Zenon DEF SubmitOK
  <2>4. \A n \in todo[w] : n \in Names /\ list[w][n] \in Contents
    BY <1>l, <2>3, ListingFacts, Zenon
  <2>5. FilesTypeOK' /\ rows'[Dev] = rows[Dev]
    BY <1>t, <1>u, <2>2, <2>3, <2>4, SnapshotRow, Zenon
  <2> QED
    BY <1>g, <2>1, <2>5, Zenon DEF CallsKeys
<1>11. CASE SubmitDone(w)
  <2>1. UNCHANGED <<s3, mc, call, faults, rows>>
    BY <1>11, Zenon DEF SubmitDone
  <2> QED
    BY <1>g, <1>u, <2>1, Zenon DEF CallsKeys
<1> QED
  BY <1>1, <1>2, <1>3, <1>4, <1>5, <1>6, <1>7, <1>8, <1>9, <1>10, <1>11, Zenon DEF SubmitStep

\* A submission that ends keeps its invariant.
LEMMA SubmitEnds ==
  ASSUME SubmitInv, NEW w \in Submitters,
         NEW o \in {"ok", "exists", "noapp", "refused", "error", "aborted"},
         NEW d \in SUBSET {"project", "footers"}, SubFinish(w, o, d),
         submitted' \subseteq Subs \X Platforms,
         UNCHANGED <<subRequestVars, loopVars, base, project>>
  PROVE  SubmitTypeOK' /\ SubmitOK(w)' /\ SubmitOthers(w)
<1> USE DEF SubFinish, SubGoto, subRequestVars, loopVars
<1>1. SubmitTypeOK'
  BY Zenon DEF SubmitInv, SubmitTypeOK
<1>2. SubmitOK(w)'
  BY Zenon DEF SubmitInv, SubmitTypeOK, SubmitOK
<1>3. SubmitOthers(w)
  BY Zenon DEF SubmitInv, SubmitTypeOK, SubmitOthers
<1> QED
  BY <1>1, <1>2, <1>3, Zenon

\* One that goes on to step l of its handler does, when what SubmitOK says of l
\* holds.
LEMMA SubmitGoes ==
  ASSUME SubmitInv, NEW w \in Submitters,
         NEW l \in {"exists", "app", "start", "copy", "copyget", "copyset", "meta", "build",
                    "fetch", "fetching", "store", "snapshot", "rows"},
         SubGoto(w, l),
         UNCHANGED subDirs \/ \E d \in SUBSET {"project", "footers"} :
                                subDirs' = [subDirs EXCEPT ![w] = d],
         UNCHANGED subRequestVars, UNCHANGED <<outcome, submitted>>,
         list' \in [Submitters -> Listings], todo' \in [Submitters -> SUBSET Names],
         item' \in [Submitters -> Names \cup {None}],
         base' \in [Submitters -> Contents \cup {None}],
         project' \in [Submitters -> Listings],
         \A y \in Submitters :
           y # w => /\ list'[y] = list[y] /\ todo'[y] = todo[y] /\ item'[y] = item[y]
                    /\ base'[y] = base[y]
  PROVE  /\ SubmitTypeOK' /\ SubmitOthers(w) /\ subAt'[w] = l /\ subID'[w] = subID[w]
         /\ subPlatform'[w] = subPlatform[w]
<1> USE DEF SubGoto, subRequestVars
<1>1. subAt \in [Submitters -> {"idle", "exists", "app", "start", "copy", "copyget",
                                "copyset", "meta", "build", "fetch", "fetching", "store",
                                "snapshot", "rows", "done"}]
  BY Zenon DEF SubmitInv, SubmitTypeOK
<1>2. subDirs' \in [Submitters -> SUBSET {"project", "footers"}]
  BY ZenonT(30) DEF SubmitInv, SubmitTypeOK
<1>3. SubmitTypeOK'
  BY <1>1, <1>2, Zenon DEF SubmitInv, SubmitTypeOK
<1>4. /\ SubmitOthers(w) /\ subAt'[w] = l /\ subID'[w] = subID[w]
      /\ subPlatform'[w] = subPlatform[w]
  BY <1>1, Zenon DEF SubmitOthers
<1> QED
  BY <1>3, <1>4, Zenon

\* Every step of a submission keeps its invariant.
LEMMA SubmitStepInv ==
  ASSUME BundlerInv, NEW w \in Submitters,
         SubmitRequest(w) \/ SubmitRefused(w) \/ SubmitStep(w)
  PROVE  SubmitTypeOK' /\ SubmitOK(w)' /\ SubmitOthers(w)
<1>i. SubmitInv /\ SubmitTypeOK /\ SubmitOK(w)
  BY Zenon DEF BundlerInv, SubmitInv
<1>p. w \in Procs /\ DOMAIN call = Procs
  BY Roles, Zenon DEF BundlerInv, PushInv, CacheInv, CacheTypeOK
<1>g. \A k : BeginGet(w, k) => call'[w].op = "get" /\ call'[w].key = k
  BY <1>p DEF BeginGet, Begin
<1>t. /\ list \in [Submitters -> Listings] /\ todo \in [Submitters -> SUBSET Names]
      /\ item \in [Submitters -> Names \cup {None}]
      /\ base \in [Submitters -> Contents \cup {None}]
      /\ project \in [Submitters -> Listings] /\ submitted \subseteq Subs \X Platforms
      /\ subDirs[w] \in SUBSET {"project", "footers"}
      /\ CleanupProject(w) \in SUBSET {"project", "footers"}
      /\ Packaged(w) \in SUBSET {"project", "footers"}
      /\ CleanupSnapshotFooters(w) \in SUBSET {"project", "footers"}
      /\ \A out : CleanupFooters(out, Packaged(w)) \in SUBSET {"project", "footers"}
  BY <1>i, Zenon DEF SubmitTypeOK, CleanupProject, Packaged, CleanupSnapshotFooters,
     CleanupFooters
<1> USE DEF subRequestVars, loopVars
<1>1. CASE SubmitRequest(w)
  <2>1. SubmitTypeOK'
    <3>1. /\ subAt' = [subAt EXCEPT ![w] = "exists"]
          /\ subDirs' = [subDirs EXCEPT ![w] = {}]
          /\ UNCHANGED <<list, todo, item, base, project, outcome, submitted>>
      BY <1>1, Zenon DEF SubmitRequest, SubGoto
    <3>2. subID' \in [Submitters -> Subs \cup {None}]
      BY <1>1, <1>i, Zenon DEF SubmitRequest, SubmitTypeOK
    <3>3. subPlatform' \in [Submitters -> AnyPlatform]
      BY <1>1, <1>i, BundlerAssumption, Zenon DEF SubmitRequest, SubmitTypeOK
    <3> QED
      BY <1>i, <3>1, <3>2, <3>3, Zenon DEF SubmitTypeOK
  <2>2. SubmitOK(w)' /\ SubmitOthers(w)
    BY <1>1, <1>i, Zenon DEF SubmitRequest, SubGoto, SubmitTypeOK, SubmitOK, SubmitOthers
  <2> QED
    BY <2>1, <2>2, Zenon
<1>2. CASE SubmitRefused(w)
  BY <1>2, <1>i, <1>t, SubmitEnds, Zenon DEF SubmitRefused
<1>3. CASE FetchFileFails(w) \/ BuildFails(w) \/ NoSnapshotFooter(w) \/ StoreFails(w)
  BY <1>3, <1>i, <1>t, SubmitEnds, Zenon
     DEF FetchFileFails, BuildFails, NoSnapshotFooter, StoreFails
<1>4. CASE AddRowFails(w) \/ SubmitFails(w)
  BY <1>4, <1>i, <1>t, SubmitEnds, Zenon DEF AddRowFails, SubmitFails, SubAnswer
<1>5. CASE SubmitDone(w)
  <2>1. subID[w] \in Subs /\ subPlatform[w] \in Platforms
    BY <1>5, <1>i, Zenon DEF SubmitDone, SubmitOK, SubmitTypeOK
  <2>2. submitted' \subseteq Subs \X Platforms
    <3> DEFINE Entry == <<subID[w], subPlatform[w]>>
    <3>1. Entry \in Subs \X Platforms
      BY <2>1, Zenon
    <3> HIDE DEF Entry
    <3>2. submitted' = submitted \/ submitted' = submitted \cup {Entry}
      BY <1>5, Zenon DEF SubmitDone, Entry
    <3> QED
      BY <1>t, <3>1, <3>2, Zenon
  <2> QED
    BY <1>5, <1>i, <1>t, <2>2, SubmitEnds, Zenon DEF SubmitDone, SubAnswer
<1>6. CASE CheckSubmission(w) \/ CheckApp(w)
  <2>1. /\ UNCHANGED <<subRequestVars, loopVars, base, project, submitted>>
        /\ subAt[w] \in {"exists", "app"}
        /\ \/ SubFinish(w, "exists", subDirs[w]) \/ SubFinish(w, "noapp", subDirs[w])
           \/ SubFinish(w, "refused", subDirs[w])
           \/ (SubGoto(w, "app") \/ SubGoto(w, "start")) /\ UNCHANGED <<subDirs, outcome>>
    BY <1>6, Zenon DEF CheckSubmission, CheckApp, SubAnswer
  <2>2. CASE \/ SubFinish(w, "exists", subDirs[w]) \/ SubFinish(w, "noapp", subDirs[w])
             \/ SubFinish(w, "refused", subDirs[w])
    BY <1>i, <1>t, <2>1, <2>2, SubmitEnds, Zenon
  <2>3. ASSUME NEW l \in {"app", "start"}, SubGoto(w, l), UNCHANGED <<subDirs, outcome>>
        PROVE  SubmitTypeOK' /\ SubmitOK(w)' /\ SubmitOthers(w)
    <3>1. SubmitTypeOK' /\ SubmitOthers(w) /\ subAt'[w] = l /\ subID'[w] = subID[w]
      BY <1>i, <1>t, <2>1, <2>3, SubmitGoes, Zenon
    <3>2. SubmitOK(w)'
      BY <1>i, <2>1, <3>1, Zenon DEF SubmitOK
    <3> QED
      BY <3>1, <3>2, Zenon
  <2> QED
    BY <2>1, <2>2, <2>3, Zenon
<1>7. CASE copyFiles(w) \/ makeBundleFooter(w) \/ MakeSnapshot(w)
  <2>1. PICK l \in {"copy", "fetch", "rows"}, f \in Listings :
          /\ list' = [list EXCEPT ![w] = f] /\ todo' = [todo EXCEPT ![w] = In(f)]
          /\ SubGoto(w, l)
          /\ l = "fetch" => subAt[w] = "build"
          /\ l = "rows" => subAt[w] = "snapshot"
    BY <1>7, Zenon DEF copyFiles, makeBundleFooter, MakeSnapshot, Loop
  <2>2. /\ UNCHANGED <<subRequestVars, item, base, project, outcome, submitted>>
        /\ subAt[w] \in {"start", "build", "snapshot"}
        /\ UNCHANGED subDirs \/ subDirs' = [subDirs EXCEPT ![w] = subDirs[w] \cup {"project"}]
    BY <1>7, Zenon DEF copyFiles, makeBundleFooter, MakeSnapshot
  <2>3. /\ list' \in [Submitters -> Listings] /\ todo' \in [Submitters -> SUBSET Names]
        /\ list'[w] = f /\ todo'[w] = In(f)
        /\ \A y \in Submitters : y # w => list'[y] = list[y] /\ todo'[y] = todo[y]
    BY <1>t, <2>1, ListingFacts, Zenon
  <2>4. \/ UNCHANGED subDirs
        \/ \E d \in SUBSET {"project", "footers"} : subDirs' = [subDirs EXCEPT ![w] = d]
    <3>1. subDirs[w] \cup {"project"} \in SUBSET {"project", "footers"}
      BY <1>t, Zenon
    <3> QED
      BY <2>2, <3>1, Zenon
  <2>5. /\ SubmitTypeOK' /\ SubmitOthers(w) /\ subAt'[w] = l /\ subID'[w] = subID[w]
        /\ subPlatform'[w] = subPlatform[w]
    <3>1. /\ item' \in [Submitters -> Names \cup {None}]
          /\ base' \in [Submitters -> Contents \cup {None}]
          /\ project' \in [Submitters -> Listings]
      BY <1>t, <2>2, Zenon
    <3>2. /\ UNCHANGED subRequestVars /\ UNCHANGED <<outcome, submitted>>
          /\ \A y \in Submitters :
               y # w => /\ list'[y] = list[y] /\ todo'[y] = todo[y] /\ item'[y] = item[y]
                        /\ base'[y] = base[y]
      BY <2>2, <2>3, Zenon
    <3>3. l \in {"exists", "app", "start", "copy", "copyget", "copyset", "meta", "build",
                 "fetch", "fetching", "store", "snapshot", "rows"}
      BY Zenon
    <3> QED
      BY <1>i, <2>1, <2>3, <2>4, <3>1, <3>2, <3>3, SubmitGoes, ZenonT(60)
  <2>6. SubmitOK(w)'
    BY <1>i, <2>1, <2>2, <2>3, <2>5, Zenon DEF SubmitOK
  <2> QED
    BY <2>5, <2>6, Zenon
<1>8. CASE CopyGet(w) \/ FetchFile(w)
  <2>1. PICK n \in todo[w] :
          item' = [item EXCEPT ![w] = n] /\ BeginGet(w, FileKey(list[w][n]))
    BY <1>8, Zenon DEF CopyGet, FetchFile
  <2>2. PICK l \in {"copyget", "fetching"} :
          SubGoto(w, l) /\ (l = "fetching" => subAt[w] = "fetch")
    BY <1>8, Zenon DEF CopyGet, FetchFile
  <2>3. /\ UNCHANGED <<subRequestVars, list, todo, base, project, subDirs, outcome, submitted>>
        /\ subAt[w] \in {"copy", "fetch"}
    BY <1>8, Zenon DEF CopyGet, FetchFile
  <2>4. /\ item' \in [Submitters -> Names \cup {None}] /\ item'[w] = n
        /\ \A y \in Submitters : y # w => item'[y] = item[y]
    BY <1>t, <2>1, Zenon
  <2>5. SubmitTypeOK' /\ SubmitOthers(w) /\ subAt'[w] = l /\ subID'[w] = subID[w]
    BY <1>i, <1>t, <2>2, <2>3, <2>4, SubmitGoes, Zenon
  <2>6. call'[w].op = "get" /\ call'[w].key = FileKey(list[w][n])
    BY <1>g, <2>1, Zenon
  <2>7. SubmitOK(w)'
    BY <1>i, <2>1, <2>2, <2>3, <2>4, <2>5, <2>6, Zenon DEF SubmitOK
  <2> QED
    BY <2>5, <2>7, Zenon
<1>9. CASE CopySet(w) \/ StoreFooter(w) \/ FooterStored(w) \/ loadMetaData(w)
  <2>1. PICK l \in {"copyset", "store", "snapshot", "meta"} :
          /\ SubGoto(w, l)
          /\ l = "copyset" => subAt[w] = "copyget"
          /\ l = "store" => \E out \in PackagerOutputs : subPlatform[w] \in out
          /\ l = "snapshot" => subAt[w] = "store"
          /\ l = "meta" => /\ rows[Dev][Siphonfile] # None
                           /\ BeginGet(w, prefixed(subID[w], rows[Dev][Siphonfile]))
    BY <1>9, Zenon DEF CopySet, SubGot, StoreFooter, FooterStored, loadMetaData
  <2>2. /\ UNCHANGED <<subRequestVars, loopVars, base, project, outcome, submitted>>
        /\ subAt[w] \in {"copyget", "fetch", "store", "copy"}
    BY <1>9, Zenon DEF CopySet, SubGot, StoreFooter, FooterStored, loadMetaData
  <2>3. \/ UNCHANGED subDirs
        \/ \E d \in SUBSET {"project", "footers"} : subDirs' = [subDirs EXCEPT ![w] = d]
    BY <1>9, <1>t, Zenon DEF CopySet, StoreFooter, FooterStored, loadMetaData
  <2>4. /\ SubmitTypeOK' /\ SubmitOthers(w) /\ subAt'[w] = l /\ subID'[w] = subID[w]
        /\ subPlatform'[w] = subPlatform[w]
    BY <1>i, <1>t, <2>1, <2>2, <2>3, SubmitGoes, Zenon
  <2>5. l = "meta" => /\ call'[w].op = "get"
                      /\ \E c \in Contents : call'[w].key = prefixed(subID[w], c)
    <3> SUFFICES ASSUME l = "meta"
                 PROVE  /\ call'[w].op = "get"
                        /\ \E c \in Contents : call'[w].key = prefixed(subID[w], c)
      BY Zenon
    <3>1. rows[Dev][Siphonfile] \in Contents
      BY <2>1, KeyFacts, ListingFacts, StoreAssumption, Zenon
         DEF BundlerInv, PushInv, PushTypeOK, FilesTypeOK
    <3>2. /\ call'[w].op = "get"
          /\ call'[w].key = prefixed(subID[w], rows[Dev][Siphonfile])
      BY <1>g, <2>1, Zenon
    <3> QED
      BY <3>1, <3>2, Zenon
  <2>6. l = "store" => subPlatform[w] \in Platforms
    BY <2>1, StoreAssumption, Zenon
  <2>7. SubmitOK(w)'
    BY <1>i, <2>1, <2>2, <2>4, <2>5, <2>6, Zenon DEF SubmitOK
  <2> QED
    BY <2>4, <2>7, Zenon
<1>10. CASE Copied(w) \/ FileFetched(w) \/ AddRow(w)
  <2>1. PICK n : todo' = [todo EXCEPT ![w] = @ \ {n}]
    BY <1>10, Zenon DEF Copied, FileFetched, AddRow
  <2>2. PICK l \in {"copy", "fetch", "rows"} :
          /\ SubGoto(w, l)
          /\ l = "copy" => subAt[w] = "copyset"
          /\ l = "fetch" => subAt[w] = "fetching"
          /\ l = "rows" => subAt[w] = "rows"
    <3>1. AddRow(w) => SubGoto(w, "rows") /\ subAt[w] = "rows"
      BY <1>i, Zenon DEF AddRow, SubGoto, SubmitTypeOK
    <3> QED
      BY <1>10, <3>1, Zenon DEF Copied, FileFetched, SubGot
  <2>3. UNCHANGED <<subRequestVars, list, item, base, subDirs, outcome, submitted>>
    BY <1>10, Zenon DEF Copied, FileFetched, AddRow
  <2>4. project' \in [Submitters -> Listings]
    <3>1. CASE FileFetched(w)
      <4>1. item[w] \in Names /\ call[w].val \in Contents
        BY <3>1, SubmitGets, Zenon DEF FileFetched, SubGot
      <4>2. [project[w] EXCEPT ![item[w]] = call[w].val] \in Listings
        BY <1>t, <4>1, ListingFacts, Zenon
      <4> QED
        BY <1>t, <3>1, <4>2, Zenon DEF FileFetched
    <3>2. CASE Copied(w) \/ AddRow(w)
      BY <1>t, <3>2, Zenon DEF Copied, AddRow
    <3> QED
      BY <1>10, <3>1, <3>2, Zenon
  <2>5. /\ todo' \in [Submitters -> SUBSET Names] /\ todo'[w] = todo[w] \ {n}
        /\ \A y \in Submitters : y # w => todo'[y] = todo[y]
    BY <1>t, <2>1, Zenon
  <2>6. /\ SubmitTypeOK' /\ SubmitOthers(w) /\ subAt'[w] = l /\ subID'[w] = subID[w]
        /\ subPlatform'[w] = subPlatform[w]
    <3>1. /\ list' \in [Submitters -> Listings]
          /\ item' \in [Submitters -> Names \cup {None}]
          /\ base' \in [Submitters -> Contents \cup {None}]
          /\ UNCHANGED subDirs /\ UNCHANGED subRequestVars /\ UNCHANGED <<outcome, submitted>>
      BY <1>t, <2>3, Zenon
    <3>2. \A y \in Submitters :
            y # w => /\ list'[y] = list[y] /\ todo'[y] = todo[y] /\ item'[y] = item[y]
                     /\ base'[y] = base[y]
      BY <2>3, <2>5, Zenon
    <3>3. l \in {"exists", "app", "start", "copy", "copyget", "copyset", "meta", "build",
                 "fetch", "fetching", "store", "snapshot", "rows"}
      BY Zenon
    <3> QED
      BY <1>i, <2>2, <2>4, <2>5, <3>1, <3>2, <3>3, SubmitGoes, ZenonT(60)
  <2>7. SubmitOK(w)'
    BY <1>i, <2>2, <2>3, <2>5, <2>6, Zenon DEF SubmitOK
  <2> QED
    BY <2>6, <2>7, Zenon
<1>11. CASE MetaDataLoaded(w)
  <2>1. call[w].val \in Contents /\ subAt[w] = "meta"
    BY <1>11, SubmitGets, Zenon DEF MetaDataLoaded, SubGot
  <2>2. /\ base' \in [Submitters -> Contents \cup {None}] /\ base'[w] \in Contents
        /\ \A y \in Submitters : y # w => base'[y] = base[y]
    BY <1>11, <1>t, <2>1, Zenon DEF MetaDataLoaded
  <2>3. SubmitTypeOK' /\ SubmitOthers(w) /\ subAt'[w] = "build" /\ subID'[w] = subID[w]
    BY <1>11, <1>i, <1>t, <2>2, SubmitGoes, Zenon DEF MetaDataLoaded
  <2>4. SubmitOK(w)'
    BY <1>i, <2>1, <2>2, <2>3, Zenon DEF SubmitOK
  <2> QED
    BY <2>3, <2>4, Zenon
<1> QED
  BY <1>1, <1>2, <1>3, <1>4, <1>5, <1>6, <1>7, <1>8, <1>9, <1>10, <1>11, Zenon DEF SubmitStep

-----------------------------------------------------------------------------
(* Health checks.                                                          *)

\* A health check Sets its probe, to the content S3 has for it.
LEMMA HealthCalls ==
  ASSUME BundlerInv, NEW m \in Monitors, HealthRequest(m) \/ HealthStep(m) \/ HealthReturn(m)
  PROVE  CallsKeys(m) /\ UNCHANGED rows
<1>g. \A kind : (Fault(kind) => FaultsGrow) /\ (NoFault => FaultsGrow)
  BY ReadFacts, Zenon
<1>r. \A ns, f : GetFiles(ns, f) => FaultsGrow
  BY ReadFacts, Zenon
<1>1. CASE HealthRequest(m) \/ HealthReturn(m)
  BY <1>1, <1>g, Zenon DEF HealthRequest, HealthReturn, CallsKeys
<1>2. CASE CheckHashes(m)
  BY <1>2, <1>r, Zenon DEF CheckHashes, CallsKeys
<1>3. CASE CheckS3Fails(m)
  BY <1>3, <1>g, Zenon DEF CheckS3Fails, CallsKeys
<1>4. CASE CheckS3(m)
  <2>1. s3[FileKey(Probe)] = Probe
    <3>1. FileKey(Probe) \in Keys /\ Domain[FileKey(Probe)] = {Probe}
      BY HealthAssumption, KeyFacts, Zenon
    <3>2. s3[FileKey(Probe)] \in Domain[FileKey(Probe)] \cup {None}
      BY <3>1, Zenon DEF BundlerInv, PushInv, CacheInv, OwnValues
    <3> QED
      BY <1>4, <3>1, <3>2, Zenon DEF CheckS3
  <2>2. ProbeKey \in Keys /\ Probe \in Domain[ProbeKey]
    BY HealthAssumption, Zenon
  <2>3. BeginSet(m, ProbeKey, Probe) /\ UNCHANGED <<s3, mc, faults, rows>>
    BY <1>4, <2>1, Zenon DEF CheckS3
  <2> QED
    BY <1>g, <2>2, <2>3, Zenon DEF CallsKeys
<1>5. CASE CheckCache(m)
  BY <1>5, <1>g, HealthAssumption, Zenon DEF CheckCache, CallsKeys
<1>6. CASE HealthPassed(m) \/ CheckCacheFails(m)
  BY <1>6, <1>g, Zenon DEF HealthPassed, CheckCacheFails, CallsKeys
<1> QED
  BY <1>1, <1>2, <1>3, <1>4, <1>5, <1>6, Zenon DEF HealthStep

\* The checks whose state is dropped start afresh.
LEMMA HealthResets ==
  ASSUME HealthInv, NEW M \in SUBSET Monitors, HealthReset(M)
  PROVE  HealthInv'
  BY CacheAssumption DEF HealthInv, HealthTypeOK, HealthReset

\* Every step of a check keeps its invariant.
LEMMA HealthStepInv ==
  ASSUME HealthInv, NEW m \in Monitors, HealthRequest(m) \/ HealthStep(m) \/ HealthReturn(m)
  PROVE  HealthInv'
<1>t. HealthTypeOK /\ MaxAttempts \in Nat
  BY CacheAssumption, Zenon DEF HealthInv
<1> USE DEF HealthGoto, HealthFinish
<1>1. CASE HealthRequest(m) \/ CheckHashes(m)
  BY <1>1, <1>t, Zenon DEF HealthRequest, CheckHashes, HealthInv, HealthTypeOK
<1>2. CASE CheckS3(m) \/ CheckCache(m) \/ HealthPassed(m) \/ CheckCacheFails(m)
  BY <1>2, <1>t, Zenon DEF CheckS3, CheckCache, HealthPassed, CheckCacheFails, HealthInv,
     HealthTypeOK
<1>3. CASE CheckS3Fails(m)
  <2>1. attempt[m] \in Nat /\ attempt[m] < MaxAttempts /\ hcAt[m] = "s3"
    BY <1>3, <1>t, SMTT(60) DEF CheckS3Fails, HealthInv, HealthTypeOK
  <2> QED
    BY <1>3, <1>t, <2>1, SMTT(90) DEF CheckS3Fails, HealthInv, HealthTypeOK
<1>4. CASE HealthReturn(m)
  BY <1>4, HealthResets, Zenon DEF HealthReturn
<1> QED
  BY <1>1, <1>2, <1>3, <1>4, Zenon DEF HealthStep

-----------------------------------------------------------------------------
(* The end of requests.                                                    *)

\* No files are a listing.
LEMMA NoFilesListing == NoFiles \in Listings /\ In(NoFiles) = {}
  BY Zenon DEF NoFiles, Listings, In

\* The pulls whose state is dropped start afresh; the others go on.
LEMMA PullResets ==
  ASSUME PullInv, NEW Q \in SUBSET Pullers, PullReset(Q), UNCHANGED pullDir,
         \A y \in Pullers \ Q : call'[y] = call[y]
  PROVE  PullInv'
<1>1. PullTypeOK'
  BY NoFilesListing, NamespaceKeys, Zenon
     DEF PullInv, PullTypeOK, PullReset, AnyPlatform, Platforms
<1>2. ASSUME NEW y \in Q
      PROVE  PullOK(y)'
  <2>1. pullAt'[y] = "idle" /\ sent'[y] = NoFiles
    BY <1>2, Zenon DEF PullReset
  <2> QED
    BY <2>1, Zenon DEF PullOK, Pulled
<1>3. ASSUME NEW y \in Pullers \ Q
      PROVE  PullOK(y)'
  <2>1. /\ pullAt'[y] = pullAt[y] /\ pullNs'[y] = pullNs[y] /\ hashes'[y] = hashes[y]
        /\ assetFiles'[y] = assetFiles[y] /\ unsent'[y] = unsent[y]
        /\ asset'[y] = asset[y] /\ sent'[y] = sent[y] /\ answer'[y] = answer[y]
    BY <1>3, Zenon DEF PullReset
  <2>2. PullOK(y)
    BY Zenon DEF PullInv
  <2> QED
    BY <2>1, <2>2, Zenon DEF PullOK, Pulled, Delivered
<1> QED
  BY <1>1, <1>2, <1>3, Zenon DEF PullInv

\* The same of submissions.
LEMMA SubmitResets ==
  ASSUME SubmitInv, NEW W \in SUBSET Submitters, SubReset(W), UNCHANGED <<subDirs, submitted>>,
         \A y \in Submitters \ W : call'[y] = call[y]
  PROVE  SubmitInv'
<1>1. SubmitTypeOK'
  BY NoFilesListing, Zenon DEF SubmitInv, SubmitTypeOK, SubReset, AnyPlatform, Platforms
<1>2. ASSUME NEW y \in W
      PROVE  SubmitOK(y)'
  <2>1. subAt'[y] = "idle"
    BY <1>2, Zenon DEF SubReset
  <2> QED
    BY <2>1, Zenon DEF SubmitOK
<1>3. ASSUME NEW y \in Submitters \ W
      PROVE  SubmitOK(y)'
  <2>1. /\ subAt'[y] = subAt[y] /\ subID'[y] = subID[y] /\ list'[y] = list[y]
        /\ todo'[y] = todo[y] /\ item'[y] = item[y] /\ base'[y] = base[y]
        /\ subPlatform'[y] = subPlatform[y]
    BY <1>3, Zenon DEF SubReset
  <2>2. SubmitOK(y)
    BY Zenon DEF SubmitInv
  <2> QED
    BY <2>1, <2>2, Zenon DEF SubmitOK
<1> QED
  BY <1>1, <1>2, <1>3, Zenon DEF SubmitInv

-----------------------------------------------------------------------------
(* Pushes.                                                                 *)

\* A step of a push leaves the calls of everyone else alone.
LEMMA PushOwnCall ==
  ASSUME PushInv, NEW p \in Pushers, GetHashes(p) \/ Handler(p) \/ Return(p)
  PROVE  \A y \in Procs : y # p => call'[y] = call[y]
<1> DEFINE Own == \A y \in Procs : y # p => call'[y] = call[y]
<1>0. p \in Procs /\ DOMAIN call = Procs /\ CacheTypeOK
  BY PushAssumption, Zenon DEF PushInv, CacheInv, CacheTypeOK
<1>1. UNCHANGED call => Own
  BY Zenon
<1>2. Hangup(p) => Own
  BY <1>0, Zenon DEF Hangup
<1>3. \A k : BeginGet(p, k) => Own
  BY <1>0, Zenon DEF BeginGet, Begin
<1>4. \A k : BeginDelete(p, k) => Own
  BY <1>0, Zenon DEF BeginDelete, Begin
<1>5. \A k, v : BeginSet(p, k, v) => Own
  BY <1>0, Zenon DEF BeginSet, Begin
<1>6. CASE GetHashes(p) \/ Return(p)
  BY <1>1, <1>6, Zenon DEF GetHashes, Return
<1>7. CASE LoadStep(p)
  <2>1. CASE \/ Decompress(p) \/ DecompressFails(p) \/ LoadFromArchive(p)
             \/ LoadHashFails(p) \/ Compare(p)
    BY <1>1, <2>1, Zenon DEF Decompress, DecompressFails, LoadFromArchive, LoadHashFails,
       Compare
  <2>2. CASE LoadHash(p) \/ LoadFromCache(p) \/ LoadFails(p)
    BY <1>2, <1>3, <2>2, Zenon DEF LoadHash, LoadFromCache, LoadFails
  <2> QED
    BY <1>7, <2>1, <2>2, Zenon DEF LoadStep
<1>8. CASE ApplyStep(p)
  <2>1. CASE ArchiveUnreadable(p) \/ RemoveHashMissing(p)
    BY <1>1, <2>1, Zenon DEF ArchiveUnreadable, RemoveHashMissing
  <2>2. CASE UpdateCache(p)
    BY <1>5, <2>2, Zenon DEF UpdateCache
  <2>3. CASE RemoveCache(p)
    BY <1>1, <1>4, <2>3, Zenon DEF RemoveCache
  <2>4. CASE \/ UpdateCacheFails(p) \/ RemoveCacheFails(p) \/ UpdateRow(p)
             \/ UpdateRowFails(p) \/ RemoveRow(p) \/ RemoveRowFails(p)
    BY <1>2, <2>4, Zenon DEF UpdateCacheFails, RemoveCacheFails, UpdateRow, UpdateRowFails,
                             RemoveRow, RemoveRowFails
  <2> QED
    BY <1>8, <2>1, <2>2, <2>3, <2>4, Zenon DEF ApplyStep
<1>9. CASE FooterStep(p)
  <2>1. CASE \/ NoChanges(p) \/ FilesToTemp(p) \/ ContentUnreadable(p) \/ WriteLost(p)
             \/ BadIcon(p) \/ Package(p) \/ PackageFails(p)
    BY <1>1, <2>1, Zenon DEF NoChanges, FilesToTemp, ContentUnreadable, WriteLost, BadIcon,
                             Package, PackageFails
  <2>2. CASE PutMetadata(p) \/ PutMetadataFails(p) \/ FooterUnreadable(p) \/ Done(p)
    BY <1>1, <2>2, Zenon DEF PutMetadata, PutMetadataFails, FooterUnreadable, Done
  <2>3. CASE Fetch(p) \/ SetBundleFooter(p)
    BY <1>3, <1>5, <2>3, Zenon DEF Fetch, SetBundleFooter
  <2>4. CASE Fetched(p) \/ FetchFails(p) \/ BundleFooterSet(p) \/ SetBundleFooterFails(p)
    BY <1>2, <2>4, Zenon DEF Fetched, FetchFails, BundleFooterSet, SetBundleFooterFails
  <2> QED
    BY <1>9, <2>1, <2>2, <2>3, <2>4, Zenon DEF FooterStep
<1>10. CASE CacheCall(p)
  BY <1>0, <1>10, CacheStepKeeps, Zenon DEF CacheCall
<1> QED
  BY <1>6, <1>7, <1>8, <1>9, <1>10, Zenon DEF Handler

-----------------------------------------------------------------------------
(* The routes together.                                                    *)

\* The rows a push leaves behind when it settles are a listing.
LEMMA SettleInv ==
  ASSUME settled \in Listings, FilesTypeOK', Settle
  PROVE  settled' \in Listings
  BY NamespaceKeys, Zenon DEF Settle, FilesTypeOK

\* The number of requests stays within its bound.
LEMMA AcceptInv ==
  ASSUME requests \in 0 .. MaxRequests, Accept \/ UNCHANGED requests
  PROVE  requests' \in 0 .. MaxRequests
  BY BundlerAssumption DEF Accept

\* A step of a push keeps the invariant.
LEMMA PushRouteInv ==
  ASSUME BundlerInv, NEW p \in Pushers, PushRoute(p)
  PROVE  BundlerInv'
<1>1. GetHashes(p) \/ Handler(p) \/ Return(p)
  BY Zenon DEF PushRoute, PushHandler
<1>2. /\ UNCHANGED <<pullVars, submitVars, healthVars>> /\ Settle
      /\ Accept \/ UNCHANGED requests
  BY Zenon DEF PushRoute, PushHandler
<1>3. PushInv'
  BY <1>1, PushNextInv, Zenon DEF BundlerInv, PushNext
<1>4. \A y \in Procs : y # p => call'[y] = call[y]
  BY <1>1, PushOwnCall, Zenon DEF BundlerInv
<1>5. \A y \in Pullers \cup Submitters : SameCall(y)
  BY <1>4, Roles, Zenon DEF SameCall
<1>6. PullInv' /\ SubmitInv' /\ HealthInv'
  BY <1>2, <1>5, PullFrame, SubmitFrame, HealthFrame, Zenon DEF BundlerInv
<1>7. FilesTypeOK'
  BY <1>3, Zenon DEF PushInv, PushTypeOK
<1> QED
  BY <1>2, <1>3, <1>6, <1>7, SettleInv, AcceptInv, Zenon DEF BundlerInv

\* A step of a cache call of another route keeps the invariant.
LEMMA CallingInv ==
  ASSUME BundlerInv, NEW x \in Procs \ Pushers, Calling(x),
         UNCHANGED <<pushVars, pullVars, submitVars, healthVars, requests, settled>>
  PROVE  BundlerInv'
<1>1. CacheInv /\ CacheTypeOK /\ FilesTypeOK /\ PushInv
  BY Zenon DEF BundlerInv, PushInv, PushTypeOK, CacheInv
<1>2. CacheStep(x) /\ UNCHANGED rows
  BY Zenon DEF Calling
<1>3. CacheInv'
  BY <1>1, <1>2, CacheStepInv, Zenon
<1>4. \A y \in Procs : SameCall(y) /\ (y # x => call'[y] = call[y])
  BY <1>1, <1>2, CacheStepKeeps, Zenon DEF SameCall
<1>5. FilesTypeOK' /\ rows'[Dev] = rows[Dev]
  BY <1>1, <1>2, Zenon DEF FilesTypeOK
<1>6. \A p \in Pushers : call'[p] = call[p]
  BY <1>4, Roles, Zenon
<1>7. PushInv'
  BY <1>1, <1>3, <1>5, <1>6, PushFrame, Zenon
<1>8. (\A q \in Pullers : SameCall(q)) /\ \A w \in Submitters : SameCall(w)
  BY <1>4, Roles, Zenon
<1>9. PullInv' /\ SubmitInv' /\ HealthInv'
  BY <1>8, PullFrame, SubmitFrame, HealthFrame, Zenon DEF BundlerInv
<1> QED
  BY <1>7, <1>9, Zenon DEF BundlerInv

\* A step of a pull keeps the invariant.
LEMMA PullRouteInv ==
  ASSUME BundlerInv, NEW q \in Pullers, PullRoute(q)
  PROVE  BundlerInv'
<1>0. q \in Procs \ Pushers /\ q \notin Submitters
  BY Roles, Zenon
<1>1. CASE Calling(q) /\ UNCHANGED <<pullVars, pushVars, submitVars, healthVars, requests, settled>>
  BY <1>0, <1>1, CallingInv, Zenon
<1>2. CASE /\ PullRequest(q) \/ PullStep(q) \/ PullReturn(q)
           /\ Accept \/ UNCHANGED requests
           /\ UNCHANGED <<pushVars, submitVars, healthVars, settled>>
  <2>1. CallsKeys(q) /\ UNCHANGED rows
    BY <1>2, PullCalls, Zenon
  <2>2. FilesTypeOK' /\ rows'[Dev] = rows[Dev]
    BY <2>1, Zenon DEF BundlerInv, PushInv, PushTypeOK, FilesTypeOK
  <2>3. PushInv' /\ \A y \in Procs : y # q => call'[y] = call[y]
    BY <1>0, <1>2, <2>1, <2>2, RouteKeepsPush, Zenon
  <2>4. \A w \in Submitters : SameCall(w)
    BY <1>0, <2>3, Roles, Zenon DEF SameCall
  <2>5. SubmitInv' /\ HealthInv'
    BY <1>2, <2>4, SubmitFrame, HealthFrame, Zenon DEF BundlerInv
  <2>6. PullInv'
    <3>1. CASE PullRequest(q) \/ PullStep(q)
      BY <2>3, <3>1, PullStepInv, PullLocal, Zenon DEF BundlerInv
    <3>2. CASE PullReturn(q)
      <4>1. \A y \in Pullers \ {q} : call'[y] = call[y]
        BY <2>3, Roles, Zenon
      <4> QED
        BY <3>2, <4>1, PullResets, Zenon DEF PullReturn, BundlerInv
    <3> QED
      BY <1>2, <3>1, <3>2, Zenon
  <2> QED
    BY <1>2, <2>3, <2>5, <2>6, AcceptInv, Zenon DEF BundlerInv
<1> QED
  BY <1>1, <1>2, Zenon DEF PullRoute, PullHandler

\* A step of a submission keeps the invariant.
LEMMA SubmitRouteInv ==
  ASSUME BundlerInv, NEW w \in Submitters, SubmitRoute(w)
  PROVE  BundlerInv'
<1>0. w \in Procs \ Pushers /\ w \notin Pullers
  BY Roles, Zenon
<1>1. CASE Calling(w) /\ UNCHANGED <<submitVars, pushVars, pullVars, healthVars, requests, settled>>
  BY <1>0, <1>1, CallingInv, Zenon
<1>2. CASE /\ SubmitRequest(w) \/ SubmitRefused(w) \/ SubmitStep(w) \/ SubmitReturn(w)
           /\ Accept \/ UNCHANGED requests
           /\ UNCHANGED <<pushVars, pullVars, healthVars, settled>>
  <2>1. CallsKeys(w) /\ FilesTypeOK' /\ rows'[Dev] = rows[Dev]
    BY <1>2, SubmitCalls, Zenon
  <2>2. PushInv' /\ \A y \in Procs : y # w => call'[y] = call[y]
    BY <1>0, <1>2, <2>1, RouteKeepsPush, Zenon
  <2>3. \A q \in Pullers : SameCall(q)
    BY <1>0, <2>2, Roles, Zenon DEF SameCall
  <2>4. PullInv' /\ HealthInv'
    BY <1>2, <2>3, PullFrame, HealthFrame, Zenon DEF BundlerInv
  <2>5. SubmitInv'
    <3>1. CASE SubmitRequest(w) \/ SubmitRefused(w) \/ SubmitStep(w)
      BY <2>2, <3>1, SubmitStepInv, SubmitLocal, Zenon DEF BundlerInv
    <3>2. CASE SubmitReturn(w)
      <4>1. \A y \in Submitters \ {w} : call'[y] = call[y]
        BY <2>2, Roles, Zenon
      <4> QED
        BY <3>2, <4>1, SubmitResets, Zenon DEF SubmitReturn, BundlerInv
    <3> QED
      BY <1>2, <3>1, <3>2, Zenon
  <2> QED
    BY <1>2, <2>2, <2>4, <2>5, AcceptInv, Zenon DEF BundlerInv
<1> QED
  BY <1>1, <1>2, Zenon DEF SubmitRoute, SubmitHandler

\* A step of a health check keeps the invariant.
LEMMA HealthRouteInv ==
  ASSUME BundlerInv, NEW m \in Monitors, HealthRoute(m)
  PROVE  BundlerInv'
<1>0. m \in Procs \ Pushers /\ m \notin Pullers /\ m \notin Submitters
  BY Roles, Zenon
<1>1. CASE Calling(m) /\ UNCHANGED <<healthVars, pushVars, pullVars, submitVars, requests, settled>>
  BY <1>0, <1>1, CallingInv, Zenon
<1>2. CASE /\ HealthRequest(m) \/ HealthStep(m) \/ HealthReturn(m)
           /\ Accept \/ UNCHANGED requests
           /\ UNCHANGED <<pushVars, pullVars, submitVars, settled>>
  <2>1. CallsKeys(m) /\ UNCHANGED rows
    BY <1>2, HealthCalls, Zenon
  <2>2. FilesTypeOK' /\ rows'[Dev] = rows[Dev]
    BY <2>1, Zenon DEF BundlerInv, PushInv, PushTypeOK, FilesTypeOK
  <2>3. PushInv' /\ \A y \in Procs : y # m => call'[y] = call[y]
    BY <1>0, <1>2, <2>1, <2>2, RouteKeepsPush, Zenon
  <2>4. (\A q \in Pullers : SameCall(q)) /\ \A w \in Submitters : SameCall(w)
    BY <1>0, <2>3, Roles, Zenon DEF SameCall
  <2>5. PullInv' /\ SubmitInv'
    BY <1>2, <2>4, PullFrame, SubmitFrame, Zenon DEF BundlerInv
  <2>6. HealthInv'
    BY <1>2, HealthStepInv, Zenon DEF BundlerInv
  <2> QED
    BY <1>2, <2>3, <2>5, <2>6, AcceptInv, Zenon DEF BundlerInv
<1> QED
  BY <1>1, <1>2, Zenon DEF HealthRoute, HealthHandler

\* A restart and an eviction keep the invariant.
LEMMA EnvironmentInv ==
  ASSUME BundlerInv, Restart \/ Eviction
  PROVE  BundlerInv'
<1>1. CASE Restart
  <2>1. PushInv'
    BY <1>1, CrashInv, Zenon DEF Restart, BundlerInv
  <2>2. PullInv'
    <3>1. \A y \in Pullers \ Pullers : call'[y] = call[y]
      BY Zenon
    <3> QED
      BY <1>1, <3>1, PullResets, Zenon DEF Restart, BundlerInv
  <2>3. SubmitInv'
    <3>1. \A y \in Submitters \ Submitters : call'[y] = call[y]
      BY Zenon
    <3> QED
      BY <1>1, <3>1, SubmitResets, Zenon DEF Restart, BundlerInv
  <2>4. HealthInv'
    BY <1>1, HealthResets, Zenon DEF Restart, BundlerInv
  <2>5. settled' \in Listings
    BY <1>1, <2>1, SettleInv, Zenon DEF Restart, BundlerInv, PushInv, PushTypeOK
  <2> QED
    BY <1>1, <2>1, <2>2, <2>3, <2>4, <2>5, Zenon DEF Restart, BundlerInv
<1>2. CASE Eviction
  <2>1. EvictItem /\ UNCHANGED <<call, pullVars, submitVars, healthVars, requests, settled>>
    BY <1>2, Zenon DEF Eviction, EvictItem, Evict
  <2>2. PushInv'
    BY <2>1, EvictItemInv, Zenon DEF BundlerInv
  <2>3. \A y : SameCall(y)
    BY <2>1, Zenon DEF SameCall
  <2>4. PullInv' /\ SubmitInv' /\ HealthInv'
    BY <2>1, <2>3, PullFrame, SubmitFrame, HealthFrame, Zenon DEF BundlerInv
  <2> QED
    BY <2>1, <2>2, <2>4, Zenon DEF BundlerInv
<1> QED
  BY <1>1, <1>2, Zenon

\* The bundler starts with the invariant.
LEMMA BundlerInitInv == BundlerInit => BundlerInv
<1> SUFFICES ASSUME BundlerInit
             PROVE  BundlerInv
  BY Zenon
<1>1. PushInv
  BY PushInitInv, Zenon DEF BundlerInit
<1>2. PullInv
  <2>1. PullTypeOK
    BY NoFilesListing, NamespaceKeys, Zenon
       DEF BundlerInit, PullInit, PullTypeOK, AnyPlatform, Platforms
  <2>2. \A q \in Pullers : PullOK(q)
    BY Zenon DEF BundlerInit, PullInit, PullOK, Pulled
  <2> QED
    BY <2>1, <2>2, Zenon DEF PullInv
<1>3. SubmitInv
  <2>1. SubmitTypeOK
    BY NoFilesListing, Zenon
       DEF BundlerInit, SubmitInit, SubmitTypeOK, AnyPlatform, Platforms
  <2>2. \A w \in Submitters : SubmitOK(w)
    BY Zenon DEF BundlerInit, SubmitInit, SubmitOK
  <2> QED
    BY <2>1, <2>2, Zenon DEF SubmitInv
<1>4. HealthInv
  BY CacheAssumption DEF BundlerInit, HealthInit, HealthInv, HealthTypeOK
<1>5. requests \in 0 .. MaxRequests /\ settled \in Listings
  BY BundlerAssumption, NoFilesListing DEF BundlerInit
<1> QED
  BY <1>1, <1>2, <1>3, <1>4, <1>5, Zenon DEF BundlerInv

\* Every step of the bundler keeps the invariant.
LEMMA BundlerNextInv == BundlerInv /\ [BundlerNext]_bundlerVars => BundlerInv'
<1> SUFFICES ASSUME BundlerInv, [BundlerNext]_bundlerVars
             PROVE  BundlerInv'
  BY Zenon
<1>1. CASE UNCHANGED bundlerVars
  <2>1. /\ UNCHANGED allPushVars /\ UNCHANGED pullVars /\ UNCHANGED submitVars
        /\ UNCHANGED healthVars /\ UNCHANGED requests /\ UNCHANGED settled
    BY <1>1, Zenon DEF bundlerVars
  <2>2. PushInv'
    BY <2>1, PushNextInv, Zenon DEF BundlerInv
  <2>3. \A y : SameCall(y)
    BY <2>1, Zenon DEF allPushVars, SameCall
  <2>4. PullInv' /\ SubmitInv' /\ HealthInv'
    BY <2>1, <2>3, PullFrame, SubmitFrame, HealthFrame, Zenon DEF BundlerInv
  <2> QED
    BY <2>1, <2>2, <2>4, Zenon DEF BundlerInv
<1> QED
  BY <1>1, PushRouteInv, PullRouteInv, SubmitRouteInv, HealthRouteInv, EnvironmentInv, Zenon
     DEF BundlerNext

\* The invariant holds in every reachable state.
THEOREM BundlerInvariant == BundlerSpec => []BundlerInv
  BY BundlerInitInv, BundlerNextInv, PTL DEF BundlerSpec

\* The variables of all routes keep their types, whatever overlaps and whatever
\* fails.
THEOREM BundlerTypes == BundlerSpec => []BundlerTypeOK
<1>1. BundlerInv => BundlerTypeOK
  BY Zenon DEF BundlerInv, PushInv, PullInv, SubmitInv, HealthInv, BundlerTypeOK
<1> QED
  BY <1>1, BundlerInvariant, PTL

\* No route ever puts at a key of memcached or S3 a value that does not belong
\* there: the files of the app and of every submission have the hash in their
\* key, and footers are kept apart from files.
THEOREM BundlerOwnValues == BundlerSpec => []OwnValues
<1>1. BundlerInv => OwnValues
  BY Zenon DEF BundlerInv, PushInv, CacheInv, OwnValues, CallOK
<1> QED
  BY <1>1, BundlerInvariant, PTL

\* A pull that is answered with success leaves the client with every asset of
\* the listing it was sent, with the hash the listing gives, also when pushes
\* change the app while the archive is written (pull.go:77-106).
THEOREM PullsDeliver == BundlerSpec => []PullDelivers
<1>1. ASSUME BundlerInv
      PROVE  PullDelivers
  BY <1>1, Zenon DEF BundlerInv, PullInv, PullOK, Delivered, PullDelivers
<1> QED
  BY <1>1, BundlerInvariant, PTL
=============================================================================
