----------------------------- MODULE PullProofs -----------------------------
(***************************************************************************)
(* Proof that a pull of a submission delivers its files and its footer,    *)
(* when the requests do not overlap.                                       *)
(***************************************************************************)
EXTENDS SubmissionProofs

USE DEF Goto, Finish, Fail, Panic, Fault, NoFault, archiveVars, metaVars, todoVars,
        buildVars, worldVars, cacheVars

-----------------------------------------------------------------------------
(* What the footers of submissions are served from.                        *)

\* No footer of a submission is stored under the new name of Android's.
AndroidKey(s) == prefixed(s, BundleFooterFile("android"))

NoAndroid == \A s \in Subs : s3[AndroidKey(s)] = None /\ mc[AndroidKey(s)] = None

\* The footer of a submission that was made is in S3, and memcached holds no
\* other.
SnapItems ==
  \A x \in submitted :
    s3[SnapKey(x)] # None /\ mc[SnapKey(x)] \in {s3[SnapKey(x)], None}

\* Nobody writes at these keys: a submission writes under its own ID, which is
\* that of no submission that was made, files and the footer it is to store,
\* and the others write under no submission's ID.
LEMMA WritesElsewhere ==
  ASSUME SoloInv, \A w \in Submitters : SubWhole(w), NEW x \in Procs, call[x].at \in Writes
  PROVE  /\ \A s \in Subs : call[x].key # AndroidKey(s)
         /\ \A y \in submitted : call[x].key # SnapKey(y)
<1>0. \A y \in submitted : y[1] \in Snapshots /\ y[1] \in Subs
  BY Zenon DEF SoloInv, FrozenInv, Snapshots
<1>1. OwnPrefix(x)
  BY Zenon DEF SoloInv, FrozenInv
<1>2. CASE x \notin Submitters
  BY <1>0, <1>1, <1>2, FilesAssumption DEF OwnPrefix, AndroidKey, SnapKey, prefixed
<1>3. CASE x \in Submitters
  <2>1. /\ subAt[x] \in {"copyset", "store"} /\ call[x].key[1] = subID[x]
        /\ subID[x] \notin Snapshots
    BY <1>1, <1>3, Zenon DEF OwnPrefix, SoloInv, FrozenInv, Fresh, Working
  <2>2. \A y \in submitted : call[x].key # SnapKey(y)
    BY <1>0, <2>1 DEF SnapKey, prefixed
  <2>3. CASE subAt[x] = "copyset"
    <3>1. call[x].key = prefixed(subID[x], list[x][item[x]])
      BY <1>3, <2>3, Zenon DEF SubWhole, SubFiles
    <3>2. item[x] \in In(list[x]) /\ list[x] \in Listings
      BY <1>3, <2>3, SubFacts, Zenon DEF SubmitOK
    <3>3. list[x][item[x]] \in Contents
      BY <3>2, ListingFacts, Zenon
    <3>4. list[x][item[x]] # BundleFooterFile("android")
      BY <3>3, StoreAssumption, NamespaceKeys, Zenon DEF AnyPlatform, Platforms
    <3> QED
      BY <2>2, <3>1, <3>4 DEF AndroidKey, prefixed
  <2>4. CASE subAt[x] = "store"
    <3>1. call[x].key = SnapKey(<<subID[x], subPlatform[x]>>)
      BY <1>3, <2>4, Zenon DEF SubWhole, SubFooter
    <3>2. SnapshotFooterFile(subPlatform[x]) # BundleFooterFile("android")
      BY Zenon DEF SnapshotFooterFile, BundleFooterFile, OldFooterFile
    <3> QED
      BY <2>2, <3>1, <3>2 DEF AndroidKey, SnapKey, prefixed
  <2> QED
    BY <2>1, <2>3, <2>4, Zenon
<1> QED
  BY <1>2, <1>3, Zenon

\* So what memcached holds at them comes from S3.
LEMMA ItemsKeep ==
  ASSUME SoloInv, \A w \in Submitters : SubWhole(w), NEW x \in Procs, CacheStep(x),
         NEW k \in Keys,
         (\E s \in Subs : k = AndroidKey(s)) \/ (\E y \in submitted : k = SnapKey(y))
  PROVE  s3'[k] = s3[k] /\ mc'[k] \in {mc[k], s3[k]}
<1>1. CacheTypeOK /\ CallOK(x)
  BY Zenon DEF SoloInv, BundlerInv, PushInv, CacheInv
<1>2. ~(k = call[x].key /\ call[x].at \in Writes)
  BY WritesElsewhere, Zenon
<1>3. call[x].at = "fill" => call[x].val = s3[call[x].key]
  BY Zenon DEF SoloInv, CallsOK
<1> QED
  BY <1>1, <1>2, <1>3, KeyStep, Zenon

\* Any step is one of a single request, or leaves S3 alone and stores nothing
\* in memcached.
LEMMA NextSolo ==
  ASSUME OneAtATime, SoloInv, [BundlerNext]_bundlerVars
  PROVE  \/ \E x \in Procs : Solo(x)
         \/ UNCHANGED s3 /\ \A k \in Keys : mc'[k] \in {mc[k], None}
<1>0. CacheTypeOK
  BY Zenon DEF SoloInv, BundlerInv, PushInv, CacheInv
<1>1. ASSUME NEW p \in Pushers, PushRoute(p)
      PROVE  p \in Procs /\ Solo(p)
  BY <1>1, PushSolo, Roles, Zenon
<1>2. ASSUME NEW q \in Pullers, PullRoute(q)
      PROVE  q \in Procs /\ Solo(q)
  BY <1>2, PullSolo, Roles, Zenon
<1>3. ASSUME NEW w \in Submitters, SubmitRoute(w)
      PROVE  w \in Procs /\ Solo(w)
  BY <1>3, SubmitSolo, Roles, Zenon
<1>4. ASSUME NEW m \in Monitors, HealthRoute(m)
      PROVE  m \in Procs /\ Solo(m)
  BY <1>4, HealthSolo, Roles, Zenon
<1>5. CASE Eviction
  BY <1>0, <1>5, EvictionFacts, Zenon
<1>6. CASE Restart
  BY <1>6, RestartFacts, Zenon
<1>7. CASE UNCHANGED bundlerVars
  BY <1>7, Zenon DEF bundlerVars, allPushVars
<1> QED
  BY <1>1, <1>2, <1>3, <1>4, <1>5, <1>6, <1>7, Zenon DEF BundlerNext

\* Every step keeps this.
LEMMA ItemsNextInv ==
  ASSUME OneAtATime, SoloInv, \A w \in Submitters : SubWhole(w), NoAndroid, SnapItems,
         [BundlerNext]_bundlerVars
  PROVE  NoAndroid' /\ SnapItems'
<1>1. /\ \A s \in Subs : AndroidKey(s) \in Keys
      /\ \A y \in submitted : SnapKey(y) \in Keys
  <2>1. \A y \in submitted : y[1] \in Subs
    BY Zenon DEF SoloInv, FrozenInv, Snapshots
  <2> QED
    BY <2>1, NamespaceKeys, Zenon DEF AndroidKey, SnapKey, SnapshotFooterFile, AnyPlatform,
       Platforms
<1>2. ASSUME NEW k \in Keys,
             (\E s \in Subs : k = AndroidKey(s)) \/ (\E y \in submitted : k = SnapKey(y))
      PROVE  s3'[k] = s3[k] /\ mc'[k] \in {mc[k], s3[k], None}
  <2>1. ASSUME NEW x \in Procs, Solo(x)
        PROVE  s3'[k] = s3[k] /\ mc'[k] \in {mc[k], s3[k]}
    BY <1>2, <2>1, ItemsKeep, Zenon DEF Solo, MakesCall
  <2> QED
    BY <2>1, NextSolo, Zenon
<1>3. NoAndroid'
  BY <1>1, <1>2, Zenon DEF NoAndroid, AndroidKey
<1>4. \A y \in submitted : s3'[SnapKey(y)] # None /\ mc'[SnapKey(y)] \in {s3'[SnapKey(y)], None}
  BY <1>1, <1>2, Zenon DEF SnapItems
<1>5. ASSUME NEW w \in Submitters, SubmitDone(w)
      PROVE  LET k == SnapKey(<<subID[w], subPlatform[w]>>)
             IN  s3'[k] # None /\ mc'[k] \in {s3'[k], None}
  <2> DEFINE k == SnapKey(<<subID[w], subPlatform[w]>>)
  <2>1. subAt[w] = "rows" /\ UNCHANGED <<s3, mc>>
    BY <1>5, Zenon DEF SubmitDone
  <2>2. s3[k] \in Footers /\ mc[k] \in {s3[k], None}
    BY <2>1, Zenon DEF SubWhole, SubFooter
  <2>3. s3[k] # None
    <3>1. subID[w] \in Namespaces /\ subPlatform[w] \in AnyPlatform
      BY <2>1, SubFacts, NamespaceKeys, Zenon DEF Working
    <3>2. k \in Keys /\ Domain[k] = Footers
      BY <3>1, NamespaceKeys, Zenon DEF SnapKey, SnapshotFooterFile
    <3> QED
      BY <2>2, <3>2, DomainValues, CacheAssumption, Zenon
  <2> QED
    BY <2>1, <2>2, <2>3, Zenon
<1>6. SnapItems'
  <2>1. CASE submitted' = submitted
    BY <1>4, <2>1, Zenon DEF SnapItems, SnapKey
  <2>2. ASSUME NEW w \in Submitters, SubmitDone(w),
               submitted' = submitted \cup {<<subID[w], subPlatform[w]>>}
        PROVE  SnapItems'
    BY <1>4, <1>5, <2>2, Zenon DEF SnapItems, SnapKey
  <2> QED
    BY <2>1, <2>2, SubmittedGrows, Zenon
<1> QED
  BY <1>3, <1>6, Zenon

-----------------------------------------------------------------------------
(* Pulls.                                                                  *)

\* The last hypothesis: the services behind the cache answer.
CacheAnswers == "s3" \notin FaultKinds /\ "memcached" \notin FaultKinds

\* The assets of a pull are those of the rows.
PullSame(q) ==
  pullAt[q] \in {"write", "asset", "footer", "oldfooter"} \/ Pulled(q) =>
    assetFiles[q] = Matching(rows[pullNs[q]], AssetNames)

\* The submission and the platform a pull asks for.
Wanted(q) == <<pullNs[q], pullPlatform[q]>>

\* A pull of a submission, for the platform it was made for, gets the footer
\* the submission stored: on iOS it finds it at once, on Android it finds none
\* under the new name and falls back to the old one.
PullFooter(q) ==
  Wanted(q) \in submitted =>
    /\ pullAt[q] = "footer" =>
         IF pullPlatform[q] = "android"
         THEN call[q].key = AndroidKey(pullNs[q]) /\ call[q].at \notin {"fill", "ok"}
         ELSE call[q].key = SnapKey(Wanted(q)) /\ call[q].at # "err"
    /\ pullAt[q] = "oldfooter" => call[q].key = SnapKey(Wanted(q))
    /\ pullAt[q] \in {"footer", "oldfooter"} /\ call[q].at = "ok" =>
         call[q].val = SnapshotFooter(Wanted(q))
    /\ Pulled(q) => footer[q] = SnapshotFooter(Wanted(q))

\* A pull that has not read the assets, or fails, relies on nothing.
LEMMA PullQuits ==
  ASSUME NEW q \in Pullers,
         pullAt'[q] \in {"idle", "check", "assets"} \/ (pullAt'[q] = "done" /\ answer'[q] # "ok")
  PROVE  PullSame(q)' /\ PullFooter(q)'
<1>1. pullAt'[q] \notin {"write", "asset", "footer", "oldfooter"} /\ ~(Pulled(q)')
  BY Zenon DEF Pulled
<1>2. PullSame(q)'
  BY <1>1, Zenon DEF PullSame
<1>3. PullFooter(q)'
  BY <1>1, Zenon DEF PullFooter
<1> QED
  BY <1>2, <1>3, Zenon

\* What the steps of a pull rely on.
PullShapes ==
  /\ DOMAIN pullAt = Pullers /\ DOMAIN pullNs = Pullers /\ DOMAIN pullPlatform = Pullers
  /\ DOMAIN assetFiles = Pullers /\ DOMAIN footer = Pullers /\ DOMAIN answer = Pullers

\* They hold of the invariant.
LEMMA PullFacts ==
  ASSUME SoloInv, NEW q \in Pullers
  PROVE  /\ PullShapes /\ q \in Procs /\ DOMAIN call = Procs /\ CacheTypeOK /\ CallOK(q)
         /\ PullOK(q) /\ pullNs[q] \in Namespaces /\ pullPlatform[q] \in AnyPlatform
<1>1. PullTypeOK /\ PullOK(q) /\ CacheTypeOK /\ CallOK(q) /\ q \in Procs
  BY Roles, Zenon DEF SoloInv, BundlerInv, PullInv, PushInv, CacheInv
<1> QED
  BY <1>1, Zenon DEF PullTypeOK, PullShapes, CacheTypeOK

\* Submissions were made for platforms the packager builds for.
LEMMA SubmittedPlatforms ==
  ASSUME SoloInv, NEW s, NEW platform, <<s, platform>> \in submitted
  PROVE  platform \in Platforms
  BY Zenon DEF SoloInv, BundlerInv, SubmitInv, SubmitTypeOK

\* The steps of a pull but the last change neither the request nor the answer.
LEMMA PullKinds ==
  ASSUME SoloInv, NEW q \in Pullers, PullStep(q)
  PROVE  \/ pullAt'[q] \in {"idle", "check", "assets"}
         \/ pullAt'[q] = "done" /\ answer'[q] # "ok"
         \/ getAssetFiles(q) \/ writeAssets(q) \/ AssetWritten(q)
         \/ writeBundleFooter(q) \/ OldBundleFooter(q) \/ writeZip(q)
<1> USE PullFacts DEF PullShapes, PullGoto, PullFinish
<1>1. CASE assertNotEmpty(q)
  BY <1>1, Zenon DEF assertNotEmpty
<1>2. CASE PullMissing(q)
  BY <1>2, Zenon DEF PullMissing
<1>3. CASE PullFails(q)
  <2>1. PullFinish(q, "error")
    BY <1>3, Zenon DEF PullFails
  <2> QED
    BY <2>1, Zenon
<1> QED
  BY <1>1, <1>2, <1>3, Zenon DEF PullStep

\* The assets.
LEMMA PullStepSame ==
  ASSUME SoloInv, ReadsComplete, NEW q \in Pullers, PullSame(q), PullStep(q)
  PROVE  PullSame(q)'
<1> USE PullFacts DEF PullShapes, PullGoto, PullFinish
<1>1. CASE getAssetFiles(q)
  <2>1. /\ pullAt'[q] = "write" /\ pullNs' = pullNs /\ rows' = rows
    BY <1>1, Zenon DEF getAssetFiles, requestVars
  <2>2. assetFiles'[q] = Matching(rows[pullNs[q]], AssetNames)
    BY <1>1, Zenon DEF getAssetFiles, GetSliceFilteredFiles, ReadsComplete
  <2> QED
    BY <2>1, <2>2, Zenon DEF PullSame, Matching
<1>2. CASE writeAssets(q) \/ AssetWritten(q) \/ writeBundleFooter(q) \/ OldBundleFooter(q)
           \/ writeZip(q)
  <2>1. UNCHANGED <<pullNs, rows, assetFiles>>
    BY <1>2, Zenon DEF writeAssets, AssetWritten, writeBundleFooter, OldBundleFooter, writeZip,
           requestVars, zipVars
  <2>2. pullAt[q] \in {"write", "asset", "footer", "oldfooter"}
    BY <1>2, Zenon DEF writeAssets, AssetWritten, writeBundleFooter, OldBundleFooter, writeZip,
           PullGot, PullMissed
  <2> QED
    BY <2>1, <2>2, Zenon DEF PullSame, Matching
<1> QED
  BY <1>1, <1>2, PullKinds, PullQuits, Zenon

\* The footer.
LEMMA PullStepFooter ==
  ASSUME SoloInv, NEW q \in Pullers, PullFooter(q), PullStep(q), UNCHANGED submitted
  PROVE  PullFooter(q)'
<1> USE PullFacts DEF PullShapes, PullGoto, PullFinish
<1>0. UNCHANGED s3
  BY PullCalls, Zenon DEF SoloInv, CallsKeys
<1>1. CASE getAssetFiles(q) \/ writeAssets(q) \/ AssetWritten(q)
  <2>1. pullAt'[q] \in {"write", "asset"}
    BY <1>1, Zenon DEF getAssetFiles, writeAssets, AssetWritten
  <2> QED
    BY <2>1, Zenon DEF PullFooter, Pulled
<1>2. CASE writeBundleFooter(q)
  <2>1. /\ pullAt'[q] = "footer" /\ UNCHANGED <<pullNs, pullPlatform>>
        /\ call'[q].key = prefixed(pullNs[q], BundleFooterFile(pullPlatform[q]))
        /\ call'[q].at \in {"mcget", "s3get"}
    BY <1>2, Zenon DEF writeBundleFooter, BeginGet, Begin, requestVars
  <2>2. Wanted(q) \in submitted =>
          IF pullPlatform[q] = "android"
          THEN call'[q].key = AndroidKey(pullNs[q])
          ELSE call'[q].key = SnapKey(Wanted(q))
    <3>1. Wanted(q) \in submitted => pullPlatform[q] \in Platforms
      BY SubmittedPlatforms, Zenon DEF Wanted
    <3> QED
      BY <2>1, <3>1, Zenon DEF AndroidKey, SnapKey, Wanted, SnapshotFooterFile, Platforms
  <2> QED
    BY <2>1, <2>2, Zenon DEF PullFooter, Pulled, Wanted, AndroidKey, SnapKey
<1>3. CASE OldBundleFooter(q)
  <2>1. /\ pullAt[q] = "footer" /\ call[q].at = "err"
        /\ pullAt'[q] = "oldfooter" /\ UNCHANGED <<pullNs, pullPlatform>>
        /\ call'[q].key = prefixed(pullNs[q], OldFooterFile)
        /\ call'[q].at \in {"mcget", "s3get"}
    BY <1>3, Zenon DEF OldBundleFooter, PullMissed, BeginGet, Begin, requestVars
  <2>2. Wanted(q) \in submitted => pullPlatform[q] = "android"
    BY <2>1, Zenon DEF PullFooter
  <2>3. Wanted(q) \in submitted => call'[q].key = SnapKey(Wanted(q))
    BY <2>1, <2>2, Zenon DEF SnapKey, Wanted, SnapshotFooterFile
  <2> QED
    BY <2>1, <2>3, Zenon DEF PullFooter, Pulled, Wanted, SnapKey
<1>4. CASE writeZip(q)
  <2>1. /\ pullAt[q] \in {"footer", "oldfooter"} /\ call[q].at = "ok"
        /\ pullAt'[q] = "done" /\ UNCHANGED <<pullNs, pullPlatform>>
        /\ footer'[q] = call[q].val
    BY <1>4, Zenon DEF writeZip, PullGot, requestVars
  <2>2. Wanted(q) \in submitted => footer'[q] = SnapshotFooter(Wanted(q))
    BY <2>1, Zenon DEF PullFooter
  <2> QED
    BY <1>0, <2>1, <2>2, Zenon DEF PullFooter, Pulled, Wanted, SnapshotFooter
<1> QED
  BY <1>1, <1>2, <1>3, <1>4, PullKinds, PullQuits, Zenon

\* The Get of a footer, while S3 and memcached answer.
LEMMA PullCallFooter ==
  ASSUME SoloInv, CacheAnswers, NoAndroid, SnapItems, NEW q \in Pullers, PullFooter(q),
         Calling(q), InCall(q), UNCHANGED pullVars, UNCHANGED submitted
  PROVE  PullFooter(q)'
<1> USE PullFacts
<1>1. /\ UNCHANGED <<pullAt, pullNs, pullPlatform, footer, answer>> /\ CacheStep(q)
      /\ pullAt[q] \in {"asset", "footer", "oldfooter"}
  BY Roles, Zenon DEF Calling, InCall, pullVars, requestVars, zipVars
<1>2. call[q].op = "get"
  BY <1>1, Zenon DEF PullOK
<1> DEFINE k == call[q].key
<1>3. /\ UNCHANGED s3
      /\ call'[q].key = k
      /\ call'[q].at = "fill" => s3[k] # None
      /\ call'[q].at = "ok" =>
              \/ call'[q].val \in {s3[k], mc[k]} \ {None}
              \/ call[q].at = "fill" /\ call'[q].val = call[q].val
      /\ call'[q].at = "err" => s3[k] = None
  BY <1>1, <1>2, GetFacts, Zenon DEF CacheAnswers
<1>4. CASE Wanted(q) \notin submitted
  BY <1>1, <1>4, Zenon DEF PullFooter, Wanted
<1>5. CASE Wanted(q) \in submitted /\ pullAt[q] = "footer" /\ pullPlatform[q] = "android"
  <2>1. k = AndroidKey(pullNs[q]) /\ call[q].at \notin {"fill", "ok"}
    BY <1>5, Zenon DEF PullFooter
  <2>2. pullNs[q] \in Subs
    <3>1. Wanted(q)[1] \in Snapshots
      BY <1>5, Zenon DEF Snapshots
    <3>2. Wanted(q)[1] = pullNs[q]
      BY Zenon DEF Wanted
    <3> QED
      BY <3>1, <3>2, Zenon DEF SoloInv, FrozenInv
  <2>3. s3[k] = None /\ mc[k] = None
    BY <2>1, <2>2, Zenon DEF NoAndroid
  <2>4. call'[q].at \notin {"fill", "ok"}
    BY <1>3, <2>1, <2>3, Zenon
  <2> QED
    BY <1>1, <1>3, <1>5, <2>1, <2>4, Zenon DEF PullFooter, Wanted, AndroidKey, Pulled
<1>6. CASE Wanted(q) \in submitted
           /\ (pullAt[q] = "oldfooter" \/ (pullAt[q] = "footer" /\ pullPlatform[q] # "android"))
  <2>1. k = SnapKey(Wanted(q))
    BY <1>6, Zenon DEF PullFooter
  <2>2. s3[k] # None /\ mc[k] \in {s3[k], None}
    BY <1>6, <2>1, Zenon DEF SnapItems
  <2>3. call[q].at = "fill" => call[q].val = s3[k]
    BY Zenon DEF SoloInv, CallsOK
  <2>4. /\ call'[q].at # "err"
        /\ call'[q].at = "ok" => call'[q].val = s3[k]
    BY <1>3, <2>2, <2>3, Zenon
  <2>5. s3[k] = SnapshotFooter(Wanted(q))
    BY <2>1, Zenon DEF SnapKey, SnapshotFooter
  <2>6. SnapshotFooter(Wanted(q))' = s3[k] /\ SnapKey(Wanted(q))' = k /\ call'[q].key = k
    BY <1>1, <1>3, <2>1, <2>5, Zenon DEF Wanted, SnapKey, SnapshotFooter
  <2> HIDE DEF k
  <2> QED
    BY <1>1, <1>6, <2>4, <2>6, Zenon DEF PullFooter, Wanted, Pulled
<1>7. CASE pullAt[q] = "asset"
  BY <1>1, <1>7, Zenon DEF PullFooter, Pulled
<1> QED
  BY <1>1, <1>4, <1>5, <1>6, <1>7, Zenon

\* Every step keeps what pulls rely on.
LEMMA PullSameNext ==
  ASSUME OneAtATime, ReadsComplete, SoloInv, \A q \in Pullers : PullSame(q),
         [BundlerNext]_bundlerVars
  PROVE  \A q \in Pullers : PullSame(q)'
<1>b. ASSUME NEW x, x \notin Pullers, OnlyActive(x)'
      PROVE  \A q \in Pullers : PullSame(q)'
  <2>1. \A q \in Pullers : pullAt'[q] = "idle"
    BY <1>b, Zenon DEF OnlyActive, Active
  <2> QED
    BY <2>1, PullQuits, Zenon
<1>1. ASSUME NEW q \in Pullers, PullRoute(q)
      PROVE  \A y \in Pullers : PullSame(y)'
  <2>1. /\ Solo(q) /\ UNCHANGED rows
        /\ \/ PullRequest(q) \/ PullStep(q) \/ PullReturn(q)
           \/ Calling(q) /\ InCall(q) /\ UNCHANGED pullVars
    BY <1>1, PullSolo, Zenon
  <2>2. \A y \in Pullers : y # q => pullAt'[y] = "idle"
    BY <2>1, Zenon DEF Solo, OnlyActive, Active
  <2>3. PullSame(q)'
    <3>1. CASE PullRequest(q) \/ PullReturn(q)
      <4>1. \/ pullAt'[q] \in {"idle", "check", "assets"}
            \/ pullAt'[q] = "done" /\ answer'[q] # "ok"
        BY <3>1, PullFacts, Zenon DEF PullRequest, newPullArchive, PullRefused, PullNoTempDir,
               PullReturn, PullReset, PullGoto, PullFinish, PullShapes
      <4> QED
        BY <4>1, PullQuits, Zenon
    <3>2. CASE UNCHANGED pullVars
      BY <2>1, <3>2, Zenon DEF pullVars, requestVars, zipVars, PullSame, Pulled, Matching
    <3> QED
      BY <2>1, <3>1, <3>2, PullStepSame, Zenon
  <2> QED
    BY <2>2, <2>3, PullQuits, Zenon
<1>2. CASE Eviction \/ UNCHANGED bundlerVars
  <2>1. UNCHANGED <<rows, pullVars>>
    BY <1>2, EvictionFacts, Zenon DEF bundlerVars, allPushVars, SoloInv, BundlerInv,
       PushInv, CacheInv
  <2> QED
    BY <2>1, Zenon DEF pullVars, requestVars, zipVars, PullSame, Pulled, Matching
<1>3. CASE Restart
  BY <1>3, RestartFacts, PullQuits, Zenon
<1>4. ASSUME NEW p \in Pushers, PushRoute(p)
      PROVE  \A q \in Pullers : PullSame(q)'
  BY <1>4, <1>b, PushSolo, Roles, Zenon DEF Solo
<1>5. ASSUME NEW w \in Submitters, SubmitRoute(w)
      PROVE  \A q \in Pullers : PullSame(q)'
  BY <1>5, <1>b, SubmitSolo, Roles, Zenon DEF Solo
<1>6. ASSUME NEW m \in Monitors, HealthRoute(m)
      PROVE  \A q \in Pullers : PullSame(q)'
  BY <1>6, <1>b, HealthSolo, Roles, Zenon DEF Solo
<1> QED
  BY <1>1, <1>2, <1>3, <1>4, <1>5, <1>6, Zenon DEF BundlerNext

\* And what their footers do.
LEMMA PullFooterNext ==
  ASSUME OneAtATime, CacheAnswers, SoloInv, NoAndroid, SnapItems,
         \A q \in Pullers : PullFooter(q), [BundlerNext]_bundlerVars
  PROVE  \A q \in Pullers : PullFooter(q)'
<1>b. ASSUME NEW x, x \notin Pullers, OnlyActive(x)'
      PROVE  \A q \in Pullers : PullFooter(q)'
  <2>1. \A q \in Pullers : pullAt'[q] = "idle"
    BY <1>b, Zenon DEF OnlyActive, Active
  <2> QED
    BY <2>1, PullQuits, Zenon
<1>1. ASSUME NEW q \in Pullers, PullRoute(q)
      PROVE  \A y \in Pullers : PullFooter(y)'
  <2>1. /\ Solo(q) /\ submitted' = submitted
        /\ \/ PullRequest(q) \/ PullStep(q) \/ PullReturn(q)
           \/ Calling(q) /\ InCall(q) /\ UNCHANGED pullVars
    BY <1>1, PullSolo, Zenon DEF submitVars
  <2>2. \A y \in Pullers : y # q => pullAt'[y] = "idle"
    BY <2>1, Zenon DEF Solo, OnlyActive, Active
  <2>3. PullFooter(q)'
    <3>1. CASE PullRequest(q) \/ PullReturn(q)
      <4>1. \/ pullAt'[q] \in {"idle", "check", "assets"}
            \/ pullAt'[q] = "done" /\ answer'[q] # "ok"
        BY <3>1, PullFacts, Zenon DEF PullRequest, newPullArchive, PullRefused, PullNoTempDir,
               PullReturn, PullReset, PullGoto, PullFinish, PullShapes
      <4> QED
        BY <4>1, PullQuits, Zenon
    <3> QED
      BY <2>1, <3>1, PullStepFooter, PullCallFooter, Zenon
  <2> QED
    BY <2>2, <2>3, PullQuits, Zenon
<1>2. CASE Eviction \/ UNCHANGED bundlerVars
  <2>1. UNCHANGED <<s3, call, submitted, pullVars>>
    BY <1>2, EvictionFacts, Zenon
       DEF bundlerVars, allPushVars, submitVars, SoloInv, BundlerInv, PushInv, CacheInv
  <2>2. ASSUME NEW q \in Pullers
        PROVE  Wanted(q)' = Wanted(q) /\ SnapshotFooter(Wanted(q))' = SnapshotFooter(Wanted(q))
    BY <2>1, Zenon DEF pullVars, requestVars, Wanted, SnapshotFooter
  <2>3. UNCHANGED <<pullAt, pullNs, pullPlatform, footer, answer>>
    BY <2>1, Zenon DEF pullVars, requestVars, zipVars
  <2> QED
    BY <2>1, <2>2, <2>3, Zenon DEF PullFooter, Pulled, SnapKey, AndroidKey
<1>3. CASE Restart
  BY <1>3, RestartFacts, PullQuits, Zenon
<1>4. ASSUME NEW p \in Pushers, PushRoute(p)
      PROVE  \A q \in Pullers : PullFooter(q)'
  BY <1>4, <1>b, PushSolo, Roles, Zenon DEF Solo
<1>5. ASSUME NEW w \in Submitters, SubmitRoute(w)
      PROVE  \A q \in Pullers : PullFooter(q)'
  BY <1>5, <1>b, SubmitSolo, Roles, Zenon DEF Solo
<1>6. ASSUME NEW m \in Monitors, HealthRoute(m)
      PROVE  \A q \in Pullers : PullFooter(q)'
  BY <1>6, <1>b, HealthSolo, Roles, Zenon DEF Solo
<1> QED
  BY <1>1, <1>2, <1>3, <1>4, <1>5, <1>6, Zenon DEF BundlerNext

\* A pull of a submission, for the platform it was made for, delivers its assets
\* and the footer built from the same files (pull.go, submit.go).  This holds
\* when requests do not overlap, no read of rows or write of a fetched file
\* stops half-way unnoticed, and S3 and memcached answer: an error of theirs
\* sends the pull to the old-style footer, which another submission of the same
\* ID, one that failed, may have left there.
THEOREM SerialProductionPullWhole ==
  ASSUME OneAtATime, ReadsComplete, WritesComplete, CacheAnswers
  PROVE  BundlerSpec => []ProductionPullWhole
<1> DEFINE Inv == /\ SoloInv /\ (\A w \in Submitters : SubWhole(w)) /\ SubmissionWhole
                  /\ NoAndroid /\ SnapItems
                  /\ (\A q \in Pullers : PullSame(q)) /\ (\A q \in Pullers : PullFooter(q))
<1>1. BundlerInit => Inv
  <2> SUFFICES ASSUME BundlerInit PROVE Inv
    BY Zenon
  <2>1. SoloInv
    BY SoloInitInv, Zenon
  <2>2. /\ submitted = {} /\ \A w \in Submitters : subAt[w] = "idle" /\ project[w] = NoFiles
        /\ \A q \in Pullers : pullAt[q] = "idle"
        /\ \A k \in Keys : s3[k] = None /\ mc[k] = None
    BY Zenon DEF BundlerInit, SubmitInit, PullInit, PushInit, CacheInit
  <2>3. \A w \in Submitters : SubWhole(w)
    BY <2>2, Zenon DEF SubWhole, SubRows, SubFiles, SubFooter, Working, Copying
  <2>4. NoAndroid /\ SnapItems /\ SubmissionWhole
    BY <2>2, NamespaceKeys, Zenon DEF NoAndroid, SnapItems, AndroidKey, SubmissionWhole,
       AnyPlatform, Platforms
  <2>5. \A q \in Pullers : PullSame(q) /\ PullFooter(q)
    BY <2>2, Zenon DEF PullSame, PullFooter, Pulled
  <2> QED
    BY <2>1, <2>3, <2>4, <2>5, Zenon
<1>2. Inv /\ [BundlerNext]_bundlerVars => Inv'
  BY SoloNextInv, WholeNextInv, ItemsNextInv, PullSameNext, PullFooterNext, Zenon
<1>3. Inv => ProductionPullWhole
  <2> SUFFICES ASSUME Inv, NEW q \in Pullers, Pulled(q), Wanted(q) \in submitted
               PROVE  /\ assetFiles[q] = Matching(rows[pullNs[q]], AssetNames)
                      /\ footer[q].project = rows[pullNs[q]]
                      /\ footer[q].platform = pullPlatform[q]
    BY Zenon DEF ProductionPullWhole, Wanted
  <2>1. assetFiles[q] = Matching(rows[pullNs[q]], AssetNames)
    BY Zenon DEF PullSame
  <2>2. footer[q] = SnapshotFooter(Wanted(q))
    BY Zenon DEF PullFooter
  <2>3. Whole(Wanted(q))
    BY Zenon DEF SubmissionWhole, Whole
  <2>4. Wanted(q)[1] = pullNs[q] /\ Wanted(q)[2] = pullPlatform[q]
    BY Zenon DEF Wanted
  <2>5. SnapshotFooter(Wanted(q)) =
          [platform |-> pullPlatform[q], project |-> rows[pullNs[q]],
           base |-> rows[pullNs[q]][Siphonfile]]
    BY <2>3, <2>4, Zenon DEF Whole
  <2> HIDE DEF Inv
  <2> QED
    BY <2>1, <2>2, <2>5
<1> QED
  BY <1>1, <1>2, <1>3, PTL DEF BundlerSpec
=============================================================================
