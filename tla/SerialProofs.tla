---------------------------- MODULE SerialProofs ----------------------------
(***************************************************************************)
(* Proofs about clients that do not overlap: the bundler serves one        *)
(* request after another, of any number of clients of each route.  Faults, *)
(* retries, evictions and restarts happen as before, except where a        *)
(* theorem says otherwise.                                                 *)
(***************************************************************************)
EXTENDS BundlerProofs, FrozenProofs

\* No two requests are under way.
Alone == \A x, y \in Active : x = y

\* Where the request of x waits for a cache call.
InCall(x) ==
  \/ x \in Pushers /\ pc[x] \in Waits
  \/ x \in Pullers /\ pullAt[x] \in {"asset", "footer", "oldfooter"}
  \/ x \in Submitters /\ subAt[x] \in {"copyget", "copyset", "meta", "fetching", "store"}
  \/ x \in Monitors /\ hcAt[x] \in {"set", "get"}

\* A goroutine that waits for no call is in none; a fill stores what S3 holds.
CallsOK ==
  \A x \in Procs :
    /\ ~InCall(x) => call[x].op = "none"
    /\ call[x].at = "fill" => call[x].val = s3[call[x].key]

SoloInv ==
  /\ BundlerInv /\ FrozenInv
  /\ Alone /\ CallsOK /\ NoItems


USE DEF Goto, Finish, Fail, Panic, Fault, NoFault, archiveVars, metaVars, todoVars,
        buildVars, worldVars, cacheVars

OnlyActive(x) == Active \subseteq {x}

-----------------------------------------------------------------------------
(* Who takes a step.                                                       *)

\* The router takes a request only when no other is under way.
LEMMA AcceptAlone ==
  ASSUME OneAtATime, Accept
  PROVE  Active = {}
<1>1. Active \subseteq Procs
  BY Roles, Zenon DEF Active
<1> QED
  BY <1>1, Zenon DEF OneAtATime, Accept

\* A goroutine that takes a step of a cache call waits for one.
LEMMA CallersWait ==
  ASSUME CallsOK, NEW x \in Procs, CallOK(x), CacheStep(x)
  PROVE  InCall(x) /\ x \in Active
<1>1. call[x].at \notin {"idle", "ok", "err"}
  BY Zenon DEF CacheStep, GetStep, SetStep, DeleteStep, McHit, McMiss, McGetFails, S3Get,
         S3GetFails, Fill, FillFails, S3Put, S3PutFails, McSet, McSetFails, S3Del,
         S3DelFails, McDel, McDelFails
<1>2. call[x].op # "none"
  BY <1>1, Zenon DEF CallOK, CacheStep, GetStep, SetStep, DeleteStep, McHit, McMiss,
     McGetFails, S3Get,
         S3GetFails, Fill, FillFails, S3Put, S3PutFails, McSet, McSetFails, S3Del,
         S3DelFails, McDel, McDelFails
<1>3. InCall(x)
  BY <1>2, Zenon DEF CallsOK
<1> QED
  BY <1>3, Zenon DEF InCall, Active, Waits

\* Whose step it is.
LEMMA OnlyOne ==
  ASSUME Alone, OneAtATime, NEW x, Accept \/ x \in Active
  PROVE  OnlyActive(x)
  BY AcceptAlone, Zenon DEF Alone, OnlyActive

\* A step of the request of x, while no other is under way.
Solo(x) ==
  /\ OnlyActive(x) /\ OnlyActive(x)'
  /\ \A y \in Procs : y # x => call'[y] = call[y]
  /\ MakesCall(x) \/ (CacheStep(x) /\ InCall(x)')
  /\ ~InCall(x)' => call'[x].op = "none"

\* A step of a push is one.
LEMMA PushSolo ==
  ASSUME SoloInv, OneAtATime, NEW p \in Pushers, PushRoute(p)
  PROVE  /\ Solo(p)
         /\ GetHashes(p) \/ Handler(p) \/ Return(p)
         /\ PushApart(p)
         /\ UNCHANGED <<pullVars, submitVars, healthVars>> /\ Settle
<1>1. /\ GetHashes(p) \/ Handler(p) \/ Return(p)
      /\ UNCHANGED <<pullVars, submitVars, healthVars>> /\ Settle
  BY Zenon DEF PushRoute, PushHandler
<1>2. p \in Procs /\ CacheInv /\ PushInv /\ CacheTypeOK /\ CallOK(p) /\ WaitsOK(p)
  BY Roles, Zenon DEF SoloInv, BundlerInv, PushInv, CacheInv, CallsOK, WaitsOK, InCall
<1>3. Accept \/ p \in Active
  <2>1. CASE LoadStep(p) \/ ApplyStep(p)
    BY <2>1, Zenon DEF Active, LoadStep, Decompress, DecompressFails, LoadFromArchive, LoadHash,
           LoadHashFails, LoadFromCache, LoadFails, Compare, Waiting, CallFailed,
           ApplyStep, ArchiveUnreadable, UpdateCache, UpdateCacheFails, UpdateRow,
           UpdateRowFails, RemoveCache, RemoveHashMissing, RemoveCacheFails, RemoveRow,
           RemoveRowFails, Removing
  <2>2. CASE FooterStep(p)
    BY <2>2, Zenon DEF Active, FooterStep, NoChanges, FilesToTemp, ContentUnreadable, Fetch,
           Fetched, FetchFails, WriteLost, BadIcon, Package, PackageFails, PutMetadata,
           PutMetadataFails, SetBundleFooter, FooterUnreadable, BundleFooterSet,
           SetBundleFooterFails, Done, Applied, Waiting, CallFailed
  <2>3. CASE CacheCall(p)
    BY <1>2, <2>3, CallersWait, Zenon DEF SoloInv, CacheCall
  <2>4. CASE Return(p)
    BY <2>4, Zenon DEF Return, Active
  <2> QED
    BY <2>1, <2>2, <2>3, <2>4, Zenon DEF PushRoute, PushHandler, Handler
<1>4. OnlyActive(p)
  BY <1>3, OnlyOne, Zenon DEF SoloInv
<1>5. PushApart(p)
  BY <1>1, <1>2, PushStepsApart, Zenon
<1>6. OnlyActive(p)'
  BY <1>1, <1>4, <1>5, Zenon DEF OnlyActive, Active, PushApart, pullVars, submitVars, healthVars
<1>7. \A y \in Procs : y # p => call'[y] = call[y]
  BY <1>1, <1>2, PushOwnCall, Zenon
<1>8. WaitsOK(p)'
  BY <1>1, <1>2, HandlerWaits, Zenon
<1>9. ~InCall(p)' => call'[p].op = "none"
  BY <1>8, Zenon DEF WaitsOK, InCall
<1>10. MakesCall(p) \/ (CacheStep(p) /\ InCall(p)')
  <2>1. CASE CacheCall(p)
    <3>1. CacheStep(p) /\ UNCHANGED pc /\ pc[p] \in Waits
      BY <1>2, <2>1, NoStepWithoutCall, CallMoves, Zenon DEF CacheCall
    <3> QED
      BY <3>1, Zenon DEF InCall
  <2> QED
    BY <1>1, <2>1, HandlerCalls, Zenon DEF Handler
<1> QED
  BY <1>1, <1>4, <1>5, <1>6, <1>7, <1>9, <1>10, Zenon DEF Solo

\* The calls a route makes outside its cache steps are calls.
LEMMA RouteCalls ==
  ASSUME CacheInv, NEW x \in Procs, CallsKeys(x)
  PROVE  MakesCall(x) /\ \A y \in Procs : y # x => call'[y] = call[y]
  BY CallsKeysInv, Zenon DEF CallsKeys, MakesCall

\* A call that is hung up is none.
LEMMA HungUp ==
  ASSUME CacheTypeOK, NEW x \in Procs, Hangup(x)
  PROVE  call'[x].op = "none"
  BY Zenon DEF Hangup, CacheTypeOK, NoCall

\* A step of a pull.
LEMMA PullSolo ==
  ASSUME SoloInv, OneAtATime, NEW q \in Pullers, PullRoute(q)
  PROVE  /\ Solo(q) /\ \A y \in Pullers : y # q => pullAt'[y] = pullAt[y]
         /\ \/ PullRequest(q) \/ PullStep(q) \/ PullReturn(q)
            \/ Calling(q) /\ InCall(q) /\ UNCHANGED pullVars
         /\ UNCHANGED <<rows, pushVars, submitVars, healthVars, settled>>
<1>1. /\ \/ PullRequest(q) \/ PullStep(q) \/ PullReturn(q)
         \/ Calling(q) /\ UNCHANGED pullVars
      /\ UNCHANGED <<pushVars, submitVars, healthVars, settled>>
  BY Zenon DEF PullRoute, PullHandler
<1>2. q \in Procs /\ CacheInv /\ CacheTypeOK /\ CallOK(q) /\ DOMAIN pullAt = Pullers
  BY Roles, Zenon DEF SoloInv, BundlerInv, PushInv, CacheInv, PullInv, PullTypeOK
<1>a. OnlyActive(q)
  <2>1. CASE PullStep(q) \/ PullReturn(q)
    BY <2>1, OnlyOne, Zenon DEF SoloInv, Active, PullStep, assertNotEmpty, getAssetFiles,
       writeAssets,
           AssetWritten, writeBundleFooter, OldBundleFooter, writeZip, PullMissing,
           PullFails, PullGot, PullMissed, PullReturn
  <2>2. CASE Calling(q)
    BY <1>2, <2>2, OnlyOne, CallersWait, Zenon DEF SoloInv, Calling
  <2>3. CASE Accept
    BY <2>3, OnlyOne, Zenon DEF SoloInv
  <2> QED
    BY <2>1, <2>2, <2>3, Zenon DEF PullRoute, PullHandler
<1>3. CASE Calling(q) /\ UNCHANGED pullVars
  <2>1. CacheStep(q) /\ UNCHANGED rows /\ InCall(q) /\ q \in Active
    BY <1>2, <1>3, CallersWait, Zenon DEF Calling, SoloInv
  <2>2. InCall(q)' /\ UNCHANGED pullAt
    BY <2>1, <1>1, <1>3, Zenon DEF InCall, pullVars, pushVars, submitVars, healthVars
  <2>4. OnlyActive(q)'
    BY <1>a, <1>1, <2>2, Zenon DEF OnlyActive, Active, pushVars, submitVars, healthVars
  <2>5. \A y \in Procs : y # q => call'[y] = call[y]
    BY <1>2, <2>1, CacheStepKeeps, Zenon
  <2> QED
    BY <1>a, <1>1, <1>3, <2>1, <2>2, <2>4, <2>5, Zenon DEF Solo
<1>4. CASE PullRequest(q) \/ PullStep(q) \/ PullReturn(q)
  <2>1. CallsKeys(q) /\ UNCHANGED rows
    BY <1>4, PullCalls, Zenon DEF SoloInv
  <2>2. MakesCall(q) /\ \A y \in Procs : y # q => call'[y] = call[y]
    BY <1>2, <2>1, RouteCalls, Zenon
  <2>3. /\ \A y \in Pullers : y # q => pullAt'[y] = pullAt[y]
        /\ \/ Hangup(q)
           \/ UNCHANGED call /\ pullAt[q] \notin {"asset", "footer", "oldfooter"}
           \/ pullAt'[q] \in {"asset", "footer", "oldfooter"}
    <3>1. CASE PullRequest(q)
      BY <1>2, <3>1, Zenon DEF PullRequest, newPullArchive, PullRefused, PullNoTempDir,
         PullGoto,
             PullFinish
    <3>2. CASE PullStep(q)
      BY <1>2, <3>2, Zenon DEF PullStep, assertNotEmpty, getAssetFiles, writeAssets,
         AssetWritten,
             writeBundleFooter, OldBundleFooter, writeZip, PullMissing, PullFails, PullGot,
             PullMissed, PullGoto, PullFinish
    <3>3. CASE PullReturn(q)
      BY <1>2, <3>3, Zenon DEF PullReturn, PullReset
    <3> QED
      BY <1>4, <3>1, <3>2, <3>3, Zenon
  <2>5. OnlyActive(q)'
    BY <1>a, <1>1, <2>3, Zenon DEF OnlyActive, Active, pushVars, submitVars, healthVars
  <2>6. ~InCall(q)' => call'[q].op = "none"
    BY <1>2, <2>3, HungUp, Roles, Zenon DEF SoloInv, CallsOK, InCall
  <2> QED
    BY <1>a, <1>1, <1>4, <2>1, <2>2, <2>3, <2>5, <2>6, Zenon DEF Solo
<1> QED
  BY <1>1, <1>3, <1>4, Zenon

\* A step of a submission.
LEMMA SubmitSolo ==
  ASSUME SoloInv, OneAtATime, NEW w \in Submitters, SubmitRoute(w)
  PROVE  /\ Solo(w) /\ \A y \in Submitters : y # w => subAt'[y] = subAt[y]
         /\ \/ SubmitRequest(w) \/ SubmitRefused(w) \/ SubmitStep(w) \/ SubmitReturn(w)
            \/ Calling(w) /\ InCall(w) /\ UNCHANGED submitVars
         /\ UNCHANGED <<pushVars, pullVars, healthVars, settled>> /\ rows'[Dev] = rows[Dev]
<1>1. /\ \/ SubmitRequest(w) \/ SubmitRefused(w) \/ SubmitStep(w) \/ SubmitReturn(w)
         \/ Calling(w) /\ UNCHANGED submitVars
      /\ UNCHANGED <<pushVars, pullVars, healthVars, settled>>
  BY Zenon DEF SubmitRoute, SubmitHandler
<1>2. w \in Procs /\ CacheInv /\ CacheTypeOK /\ CallOK(w) /\ DOMAIN subAt = Submitters
  BY Roles, Zenon DEF SoloInv, BundlerInv, PushInv, CacheInv, SubmitInv, SubmitTypeOK
<1>a. OnlyActive(w)
  <2>1. CASE SubmitStep(w) \/ SubmitReturn(w)
    BY <2>1, OnlyOne, Zenon DEF SoloInv, Active, SubmitStep, CheckSubmission, CheckApp,
           copyFiles, CopyGet, CopySet, Copied, loadMetaData, MetaDataLoaded,
           makeBundleFooter, FetchFile, FileFetched, FetchFileFails, StoreFooter,
           BuildFails, NoSnapshotFooter, StoreFails, FooterStored, MakeSnapshot, AddRow, AddRowFails,
           SubmitDone, SubmitFails, SubGot, SubMissed, SubmitReturn
  <2>2. CASE Calling(w)
    BY <1>2, <2>2, OnlyOne, CallersWait, Zenon DEF SoloInv, Calling
  <2>3. CASE Accept
    BY <2>3, OnlyOne, Zenon DEF SoloInv
  <2> QED
    BY <2>1, <2>2, <2>3, Zenon DEF SubmitRoute, SubmitHandler
<1>3. CASE Calling(w) /\ UNCHANGED submitVars
  <2>1. CacheStep(w) /\ UNCHANGED rows /\ InCall(w) /\ w \in Active
    BY <1>2, <1>3, CallersWait, Zenon DEF Calling, SoloInv
  <2>2. InCall(w)' /\ UNCHANGED subAt
    BY <2>1, <1>1, <1>3, Zenon DEF InCall, submitVars, pushVars, pullVars, healthVars
  <2>4. OnlyActive(w)'
    BY <1>a, <1>1, <2>2, Zenon DEF OnlyActive, Active, pushVars, pullVars, healthVars
  <2>5. \A y \in Procs : y # w => call'[y] = call[y]
    BY <1>2, <2>1, CacheStepKeeps, Zenon
  <2> QED
    BY <1>a, <1>1, <1>3, <2>1, <2>2, <2>4, <2>5, Zenon DEF Solo
<1>4. CASE SubmitRequest(w) \/ SubmitRefused(w) \/ SubmitStep(w) \/ SubmitReturn(w)
  <2>1. CallsKeys(w) /\ rows'[Dev] = rows[Dev]
    BY <1>4, SubmitCalls, Zenon DEF SoloInv
  <2>2. MakesCall(w) /\ \A y \in Procs : y # w => call'[y] = call[y]
    BY <1>2, <2>1, RouteCalls, Zenon
  <2>3. /\ \A y \in Submitters : y # w => subAt'[y] = subAt[y]
        /\ \/ Hangup(w)
           \/ UNCHANGED call /\ subAt[w] \notin {"copyget", "copyset", "meta", "fetching", "store"}
           \/ subAt'[w] \in {"copyget", "copyset", "meta", "fetching", "store"}
    <3>1. CASE SubmitRequest(w) \/ SubmitRefused(w)
      BY <1>2, <3>1, Zenon DEF SubmitRequest, SubmitRefused, SubGoto, SubFinish
    <3>2. CASE SubmitStep(w)
      BY <1>2, <3>2, Zenon DEF SubmitStep, SubGoto, SubAnswer, SubFinish, SubGot, SubMissed,
             Loop, CheckSubmission, CheckApp, copyFiles, CopyGet, CopySet, Copied,
             loadMetaData, MetaDataLoaded, makeBundleFooter, FetchFile, FileFetched,
             FetchFileFails, StoreFooter, BuildFails, NoSnapshotFooter, StoreFails, FooterStored,
             MakeSnapshot, AddRow, AddRowFails, SubmitDone, SubmitFails
    <3>3. CASE SubmitReturn(w)
      BY <1>2, <3>3, Zenon DEF SubmitReturn, SubReset
    <3> QED
      BY <1>4, <3>1, <3>2, <3>3, Zenon
  <2>5. OnlyActive(w)'
    BY <1>a, <1>1, <2>3, Zenon DEF OnlyActive, Active, pushVars, pullVars, healthVars
  <2>6. ~InCall(w)' => call'[w].op = "none"
    BY <1>2, <2>3, HungUp, Roles, Zenon DEF SoloInv, CallsOK, InCall
  <2> QED
    BY <1>a, <1>1, <1>4, <2>1, <2>2, <2>3, <2>5, <2>6, Zenon DEF Solo
<1> QED
  BY <1>1, <1>3, <1>4, Zenon

\* A step of a health check.
LEMMA HealthSolo ==
  ASSUME SoloInv, OneAtATime, NEW m \in Monitors, HealthRoute(m)
  PROVE  /\ Solo(m) /\ \A y \in Monitors : y # m => hcAt'[y] = hcAt[y]
         /\ \/ HealthRequest(m) \/ HealthStep(m) \/ HealthReturn(m)
            \/ Calling(m) /\ InCall(m) /\ UNCHANGED healthVars
         /\ UNCHANGED <<rows, pushVars, pullVars, submitVars, settled>>
<1>1. /\ \/ HealthRequest(m) \/ HealthStep(m) \/ HealthReturn(m)
         \/ Calling(m) /\ UNCHANGED healthVars
      /\ UNCHANGED <<pushVars, pullVars, submitVars, settled>>
  BY Zenon DEF HealthRoute, HealthHandler
<1>2. m \in Procs /\ CacheInv /\ CacheTypeOK /\ CallOK(m) /\ DOMAIN hcAt = Monitors
  BY Roles, Zenon DEF SoloInv, BundlerInv, PushInv, CacheInv, HealthInv, HealthTypeOK
<1>a. OnlyActive(m)
  <2>1. CASE HealthStep(m) \/ HealthReturn(m)
    BY <2>1, OnlyOne, Zenon DEF SoloInv, Active, HealthStep, CheckHashes, CheckS3,
           CheckS3Fails, CheckCache, HealthPassed, CheckCacheFails, HealthReturn
  <2>2. CASE Calling(m)
    BY <1>2, <2>2, OnlyOne, CallersWait, Zenon DEF SoloInv, Calling
  <2>3. CASE Accept
    BY <2>3, OnlyOne, Zenon DEF SoloInv
  <2> QED
    BY <2>1, <2>2, <2>3, Zenon DEF HealthRoute, HealthHandler
<1>3. CASE Calling(m) /\ UNCHANGED healthVars
  <2>1. CacheStep(m) /\ UNCHANGED rows /\ InCall(m) /\ m \in Active
    BY <1>2, <1>3, CallersWait, Zenon DEF Calling, SoloInv
  <2>2. InCall(m)' /\ UNCHANGED hcAt
    BY <2>1, <1>1, <1>3, Zenon DEF InCall, healthVars, pushVars, pullVars, submitVars
  <2>4. OnlyActive(m)'
    BY <1>a, <1>1, <2>2, Zenon DEF OnlyActive, Active, pushVars, pullVars, submitVars
  <2>5. \A y \in Procs : y # m => call'[y] = call[y]
    BY <1>2, <2>1, CacheStepKeeps, Zenon
  <2> QED
    BY <1>a, <1>1, <1>3, <2>1, <2>2, <2>4, <2>5, Zenon DEF Solo
<1>4. CASE HealthRequest(m) \/ HealthStep(m) \/ HealthReturn(m)
  <2>1. CallsKeys(m) /\ UNCHANGED rows
    BY <1>4, HealthCalls, Zenon DEF SoloInv
  <2>2. MakesCall(m) /\ \A y \in Procs : y # m => call'[y] = call[y]
    BY <1>2, <2>1, RouteCalls, Zenon
  <2>3. /\ \A y \in Monitors : y # m => hcAt'[y] = hcAt[y]
        /\ \/ Hangup(m)
           \/ UNCHANGED call /\ hcAt[m] \notin {"set", "get"}
           \/ hcAt'[m] \in {"set", "get"}
    <3>1. CASE HealthRequest(m)
      BY <1>2, <3>1, Zenon DEF HealthRequest, HealthGoto
    <3>2. CASE HealthStep(m)
      BY <1>2, <3>2, Zenon DEF HealthStep, HealthGoto, HealthFinish, CheckHashes, CheckS3,
             CheckS3Fails, CheckCache, HealthPassed, CheckCacheFails
    <3>3. CASE HealthReturn(m)
      BY <1>2, <3>3, Zenon DEF HealthReturn, HealthReset
    <3> QED
      BY <1>4, <3>1, <3>2, <3>3, Zenon
  <2>5. OnlyActive(m)'
    BY <1>a, <1>1, <2>3, Zenon DEF OnlyActive, Active, pushVars, pullVars, submitVars
  <2>6. ~InCall(m)' => call'[m].op = "none"
    BY <1>2, <2>3, HungUp, Roles, Zenon DEF SoloInv, CallsOK, InCall
  <2> QED
    BY <1>a, <1>1, <1>4, <2>1, <2>2, <2>3, <2>5, <2>6, Zenon DEF Solo
<1> QED
  BY <1>1, <1>3, <1>4, Zenon

-----------------------------------------------------------------------------
(* The calls of a request that is alone.                                   *)

\* A request that is alone leaves the calls consistent.
LEMMA SoloKeeps ==
  ASSUME SoloInv, BundlerInv', NEW x \in Procs, Solo(x)
  PROVE  Alone' /\ CallsOK' /\ NoItems'
<1>1. CacheInv /\ CacheTypeOK /\ CacheInv' /\ \A y \in Procs : CallOK(y)
  BY Zenon DEF SoloInv, BundlerInv, PushInv, CacheInv
<1>2. Alone'
  BY Zenon DEF Solo, OnlyActive, Alone
<1>3. NoItems'
  BY <1>1, NoItemsStep, Zenon DEF SoloInv, Solo
<1>4. ASSUME NEW y \in Procs, y # x
      PROVE  (~InCall(y) => call[y].op = "none")' /\ call'[y].at # "fill"
  <2>1. call'[y] = call[y] /\ ~InCall(y)
    BY <1>4 DEF Solo, OnlyActive, InCall, Active, Waits
  <2> QED
    BY <1>1, <2>1, Zenon DEF SoloInv, CallsOK, CallOK
<1>5. ASSUME call'[x].at = "fill"
      PROVE  call'[x].val = s3'[call'[x].key]
  <2>1. CASE MakesCall(x)
    <3>1. DOMAIN call = Procs
      BY <1>1, Zenon DEF CacheTypeOK
    <3>2. UNCHANGED <<s3, call>>
      BY <1>5, <2>1, <3>1 DEF MakesCall, Hangup, NoCall, BeginGet, BeginSet, BeginDelete, Begin
    <3> QED
      BY <1>5, <3>2, Zenon DEF SoloInv, CallsOK
  <2>2. CASE CacheStep(x)
    <3>1. call[x].op = "get"
      BY <1>1, <1>5, <2>2, CacheStepKeeps, Zenon DEF CacheInv, CallOK
    <3> QED
      BY <1>1, <1>5, <2>2, <3>1, GetFacts, Zenon
  <2> QED
    BY <2>1, <2>2, Zenon DEF Solo
<1>6. CallsOK'
  BY <1>4, <1>5, Zenon DEF CallsOK, Solo
<1> QED
  BY <1>2, <1>3, <1>6, Zenon

\* What an eviction does.
LEMMA EvictionFacts ==
  ASSUME CacheTypeOK, Eviction
  PROVE  /\ UNCHANGED <<s3, call, rows, pushVars, pullVars, submitVars, healthVars, settled>>
         /\ \A k \in Keys : mc'[k] \in {mc[k], None}
         /\ faults' \in Nat /\ faults' >= faults
  BY FaultAssumption DEF CacheTypeOK, Eviction, EvictItem, Evict

\* What a restart does.
LEMMA RestartFacts ==
  ASSUME Restart
  PROVE  /\ UNCHANGED <<s3, mc, rows, submitted>>
         /\ \A x \in Procs : call'[x] = NoCall
         /\ \A p \in Pushers : pc'[p] = "idle"
         /\ \A q \in Pullers : pullAt'[q] = "idle"
         /\ \A w \in Submitters : subAt'[w] = "idle" /\ project'[w] = NoFiles
         /\ \A m \in Monitors : hcAt'[m] = "idle"
         /\ Active' = {}
<1>1. UNCHANGED <<s3, mc, rows, submitted>> /\ \A x \in Procs : call'[x] = NoCall
  BY Zenon DEF Restart, Crash
<1>2. \A p \in Pushers : pc'[p] = "idle"
  BY Zenon DEF Restart, Crash, Reset
<1>3. \A q \in Pullers : pullAt'[q] = "idle"
  BY Zenon DEF Restart, PullReset
<1>4. \A w \in Submitters : subAt'[w] = "idle" /\ project'[w] = NoFiles
  BY Zenon DEF Restart, SubReset
<1>5. \A m \in Monitors : hcAt'[m] = "idle"
  BY Zenon DEF Restart, HealthReset
<1> QED
  BY <1>1, <1>2, <1>3, <1>4, <1>5, Zenon DEF Active

\* The invariant holds before the first request.
LEMMA SoloInitInv == BundlerInit => SoloInv
<1> SUFFICES ASSUME BundlerInit
             PROVE  SoloInv
  BY Zenon
<1>1. BundlerInv /\ FrozenInv
  BY BundlerInitInv, FrozenInitInv, Zenon
<1>2. NoItems
  BY Zenon DEF BundlerInit, PushInit, CacheInit, NoCall, NoItems
<1>3. Active = {}
  BY Zenon DEF BundlerInit, PushInit, PullInit, SubmitInit, HealthInit, Active
<1>4. CallsOK
  BY Zenon DEF BundlerInit, PushInit, CacheInit, CallsOK, NoCall
<1> QED
  BY <1>1, <1>2, <1>3, <1>4, Zenon DEF SoloInv, Alone

\* Every step keeps it, and every submission that was made.
LEMMA SoloNextInv ==
  ASSUME OneAtATime, SoloInv, [BundlerNext]_bundlerVars
  PROVE  SoloInv' /\ \A s \in Snapshots : Untouched(s)
<1>1. BundlerInv' /\ CacheTypeOK
  BY BundlerNextInv, Zenon DEF SoloInv, BundlerInv, PushInv, CacheInv
<1>2. OneWorking
  BY Zenon DEF SoloInv, Alone, Active, OneWorking, Working
<1>3. FrozenInv' /\ \A s \in Snapshots : Untouched(s)
  BY <1>2, NextKeeps, Zenon DEF SoloInv, Keeps
<1>4. Alone' /\ CallsOK' /\ NoItems'
  <2>1. ASSUME NEW x \in Procs, Solo(x)
        PROVE  Alone' /\ CallsOK' /\ NoItems'
    BY <1>1, <2>1, SoloKeeps, Zenon
  <2>2. CASE Eviction
    <3>1. Alone' /\ CallsOK'
      BY <1>1, <2>2, EvictionFacts, Zenon
         DEF SoloInv, Alone, Active, CallsOK, InCall, pushVars, pullVars, submitVars, healthVars
    <3>2. NoItems'
      BY <1>1, <2>2, EvictionFacts, Zenon DEF SoloInv, NoItems
    <3> QED
      BY <3>1, <3>2, Zenon
  <2>3. CASE Restart
    <3>1. \A x \in Procs : call'[x].op = "none" /\ call'[x].at = "idle"
      BY <2>3, RestartFacts DEF NoCall
    <3> QED
      BY <2>3, <3>1, RestartFacts, Zenon DEF SoloInv, Alone, CallsOK, NoItems
  <2>4. CASE UNCHANGED bundlerVars
    BY <2>4, Zenon DEF bundlerVars, allPushVars, SoloInv, Alone, Active, CallsOK, InCall,
       NoItems,
           pushVars, pullVars, submitVars, healthVars
  <2> QED
    BY <2>1, <2>2, <2>3, <2>4, PushSolo, PullSolo, SubmitSolo, HealthSolo, Roles, Zenon
       DEF BundlerNext
<1> QED
  BY <1>1, <1>3, <1>4, Zenon DEF SoloInv

-----------------------------------------------------------------------------
(* Health checks.                                                          *)

\* What a health check has seen stays true while it is under way, and its Set
\* and Get of the probe fail by faults only.
HealthOK(m) ==
  /\ hcAt[m] \in {"s3", "set", "get"} => rows[Dev] # NoFiles
  /\ hcAt[m] \in {"set", "get"} => s3[FileKey(Probe)] # None
  /\ hcAt[m] = "set" =>
       /\ call[m].op = "set" /\ call[m].key = ProbeKey
       /\ call[m].at \in {"mcset", "ok"} => s3[ProbeKey] # None
  /\ hcAt[m] = "get" =>
       /\ call[m].op = "get" /\ call[m].key = ProbeKey /\ s3[ProbeKey] # None
       /\ call[m].at = "err" => faults > 0

\* What HealthcheckTruthful says of m.
Truthful(m) ==
  LET up == rows[Dev] # NoFiles /\ s3[FileKey(Probe)] # None
  IN  hcAt[m] = "done" =>
        /\ verdict[m] = "passed" => up
        /\ verdict[m] = "alarm" /\ faults = 0 => ~up

TruthInv == \A m \in Monitors : HealthOK(m) /\ Truthful(m)

\* The steps of a check outside its cache calls.
LEMMA HealthStepTruth ==
  ASSUME SoloInv, NEW m \in Monitors, HealthOK(m), Truthful(m), HealthStep(m)
  PROVE  HealthOK(m)' /\ Truthful(m)'
<1>1. /\ UNCHANGED <<s3, rows>> /\ DOMAIN hcAt = Monitors /\ DOMAIN verdict = Monitors
      /\ faults \in Nat /\ faults' \in Nat /\ faults' >= faults /\ m \in Procs
      /\ DOMAIN call = Procs /\ CallOK(m) /\ MaxAttempts \in Nat \ {0}
  BY HealthCalls, Roles, FaultAssumption, CacheAssumption
     DEF SoloInv, BundlerInv, PushInv, CacheInv, CacheTypeOK, HealthInv, HealthTypeOK,
         CallsKeys, FaultsGrow
<1> USE DEF HealthOK, Truthful, HealthGoto, HealthFinish
<1>2. CASE CheckHashes(m)
  <2>1. PICK f \in Listings :
          /\ GetFiles(Dev, f)
          /\ \/ f # NoFiles /\ HealthGoto(m, "s3") /\ UNCHANGED verdict
             \/ f = NoFiles /\ HealthFinish(m, "alarm")
    BY <1>2, Zenon DEF CheckHashes
  <2>2. f # NoFiles => rows[Dev] # NoFiles
    <3>1. CASE \A n \in Names : f[n] \in {rows[Dev][n], None}
      BY <3>1, Zenon DEF Listings, NoFiles
    <3> QED
      BY <2>1, <3>1, Zenon DEF GetFiles
  <2>3. f = NoFiles => rows[Dev] = NoFiles \/ faults' > 0
    BY <1>1, <2>1 DEF GetFiles
  <2>4. CASE f # NoFiles
    BY <1>1, <2>1, <2>2, <2>4, Zenon
  <2>5. CASE f = NoFiles
    BY <1>1, <2>1, <2>3, <2>5
  <2> QED
    BY <2>4, <2>5, Zenon
<1>3. CASE CheckS3(m)
  BY <1>1, <1>3, Zenon DEF CheckS3, BeginSet, Begin
<1>4. CASE CheckS3Fails(m)
  BY <1>1, <1>4 DEF CheckS3Fails
<1>5. CASE CheckCache(m)
  BY <1>1, <1>5, Zenon DEF CheckCache, BeginGet, Begin
<1>6. CASE HealthPassed(m)
  BY <1>1, <1>6, Zenon DEF HealthPassed
<1>7. CASE CheckCacheFails(m)
  <2>1. faults > 0
    BY <1>1, <1>7 DEF CheckCacheFails, CallOK
  <2> QED
    BY <1>1, <1>7, <2>1 DEF CheckCacheFails
<1> QED
  BY <1>2, <1>3, <1>4, <1>5, <1>6, <1>7, Zenon DEF HealthStep

\* The steps of its cache calls.
LEMMA HealthCallTruth ==
  ASSUME SoloInv, NEW m \in Monitors, HealthOK(m), Calling(m), InCall(m), UNCHANGED healthVars,
         BundlerInv'
  PROVE  HealthOK(m)' /\ Truthful(m)'
<1>1. /\ hcAt[m] \in {"set", "get"} /\ UNCHANGED <<hcAt, rows>> /\ CacheStep(m)
      /\ m \in Procs /\ CacheInv /\ CacheTypeOK /\ CallOK(m) /\ CacheInv'
      /\ FileKey(Probe) \in Keys /\ ProbeKey \in Keys
  BY Roles, KeyFacts, HealthAssumption, Zenon
     DEF SoloInv, BundlerInv, PushInv, CacheInv, InCall, Calling, healthVars
<1>2. /\ call'[m].op = call[m].op /\ call'[m].key = call[m].key
      /\ \A k \in Keys : s3[k] # None =>
              s3'[k] # None \/ (call[m].op = "delete" /\ k = call[m].key)
      /\ call[m].op = "set" /\ call'[m].at \in {"mcset", "ok"} =>
              \/ s3'[call[m].key] # None
              \/ call[m].at \in {"mcset", "ok"} /\ UNCHANGED s3
  BY <1>1, S3Facts, CacheStepKeeps, Zenon
<1>3. CASE hcAt[m] = "set"
  BY <1>1, <1>2, <1>3, Zenon DEF HealthOK, Truthful
<1>4. CASE hcAt[m] = "get"
  BY <1>1, <1>2, <1>4, GetFacts, Zenon DEF HealthOK, Truthful
<1> QED
  BY <1>1, <1>3, <1>4, Zenon

\* Every step keeps what the checks rely on.
LEMMA TruthNextInv ==
  ASSUME OneAtATime, SoloInv, TruthInv, [BundlerNext]_bundlerVars
  PROVE  TruthInv'
<1>a. BundlerInv' /\ CacheTypeOK
  BY BundlerNextInv, Zenon DEF SoloInv, BundlerInv, PushInv, CacheInv
<1>b. ASSUME NEW m \in Monitors, hcAt'[m] \in {"idle", "hashes"}
      PROVE  HealthOK(m)' /\ Truthful(m)'
  BY <1>b, Zenon DEF HealthOK, Truthful
<1>c. ASSUME NEW x, x \notin Monitors, OnlyActive(x)'
      PROVE  TruthInv'
  BY <1>b, <1>c, Zenon DEF OnlyActive, Active, TruthInv
<1>1. ASSUME NEW m \in Monitors, HealthRoute(m)
      PROVE  TruthInv'
  <2>1. /\ Solo(m)
        /\ \/ HealthRequest(m) \/ HealthStep(m) \/ HealthReturn(m)
           \/ Calling(m) /\ InCall(m) /\ UNCHANGED healthVars
    BY <1>1, HealthSolo, Zenon
  <2>2. \A y \in Monitors : y # m => hcAt'[y] = "idle"
    BY <2>1, Zenon DEF Solo, OnlyActive, Active
  <2>3. DOMAIN hcAt = Monitors
    BY Zenon DEF SoloInv, BundlerInv, HealthInv, HealthTypeOK
  <2>4. CASE HealthRequest(m) \/ HealthReturn(m)
    BY <1>b, <2>2, <2>3, <2>4, Zenon
       DEF HealthRequest, HealthReturn, HealthReset, HealthGoto, TruthInv
  <2>5. CASE HealthStep(m) \/ (Calling(m) /\ InCall(m) /\ UNCHANGED healthVars)
    <3>1. HealthOK(m)' /\ Truthful(m)'
      BY <1>a, <2>5, HealthStepTruth, HealthCallTruth, Zenon DEF TruthInv
    <3> QED
      BY <1>b, <2>2, <3>1, Zenon DEF TruthInv
  <2> QED
    BY <2>1, <2>4, <2>5, Zenon
<1>2. CASE Eviction
  <2>1. /\ UNCHANGED <<s3, call, rows, hcAt, verdict>>
        /\ faults \in Nat /\ faults' \in Nat /\ faults' >= faults
    BY <1>a, <1>2, EvictionFacts, FaultAssumption DEF healthVars, CacheTypeOK
  <2>2. \A m \in Monitors : HealthOK(m)'
    BY <2>1 DEF TruthInv, HealthOK
  <2>3. ASSUME NEW m \in Monitors
        PROVE  Truthful(m)'
    BY <2>1 DEF TruthInv, Truthful
  <2> QED
    BY <2>2, <2>3, Zenon DEF TruthInv
<1>3. CASE Restart
  BY <1>b, <1>3, RestartFacts, Zenon DEF TruthInv
<1>4. CASE UNCHANGED bundlerVars
  BY <1>4, Zenon DEF bundlerVars, allPushVars, healthVars, TruthInv, HealthOK, Truthful
<1>5. ASSUME NEW p \in Pushers, PushRoute(p)
      PROVE  TruthInv'
  BY <1>5, <1>c, PushSolo, Roles, Zenon DEF Solo
<1>6. ASSUME NEW q \in Pullers, PullRoute(q)
      PROVE  TruthInv'
  BY <1>6, <1>c, PullSolo, Roles, Zenon DEF Solo
<1>7. ASSUME NEW w \in Submitters, SubmitRoute(w)
      PROVE  TruthInv'
  BY <1>7, <1>c, SubmitSolo, Roles, Zenon DEF Solo
<1> QED
  BY <1>1, <1>2, <1>3, <1>4, <1>5, <1>6, <1>7, Zenon DEF BundlerNext

\* One request at a time: a health check that passes has found an app with rows
\* and its file in S3, and one that raises the alarm while no service has failed
\* has found one of them missing, whatever pushes, failed or not, went before.
THEOREM SerialHealthcheckTruthful ==
  ASSUME OneAtATime
  PROVE  BundlerSpec => []HealthcheckTruthful
<1>1. BundlerInit => SoloInv /\ TruthInv
  BY SoloInitInv, Zenon DEF BundlerInit, HealthInit, TruthInv, HealthOK, Truthful
<1>2. SoloInv /\ TruthInv /\ [BundlerNext]_bundlerVars => (SoloInv /\ TruthInv)'
  BY SoloNextInv, TruthNextInv, Zenon
<1>3. TruthInv => HealthcheckTruthful
  BY Zenon DEF TruthInv, Truthful, HealthcheckTruthful
<1> QED
  BY <1>1, <1>2, <1>3, PTL DEF BundlerSpec

=============================================================================
