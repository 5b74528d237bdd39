---------------------------- MODULE StoreProofs ----------------------------
(***************************************************************************)
(* Proof that the routes implement AppStore, when the requests do not      *)
(* overlap.                                                                *)
(***************************************************************************)
EXTENDS PullProofs, CurrentProofs

USE DEF Goto, Finish, Fail, Panic, Fault, NoFault, archiveVars, metaVars, todoVars,
        buildVars, worldVars, cacheVars

-----------------------------------------------------------------------------
(* The pushes of a service that takes one request at a time.               *)

\* A push that is idle before and after a step relies on nothing.
LEMMA IdleCurrent ==
  ASSUME NEW p \in Pushers, WaitsOK(p), CurrentOK(p), pc[p] = "idle", pc'[p] = "idle",
         stored'[p] = stored[p], p \in notified' => p \in notified, call'[p] = call[p]
  PROVE  WaitsOK(p)' /\ CurrentOK(p)'
<1>1. FootersOK(p)
  BY Zenon DEF CurrentOK
<1>2. stored[p] = {} /\ p \notin notified
  BY <1>1, Zenon DEF FootersOK, SaidDone, Steps
<1>3. Quits(p)
  BY <1>2, Zenon DEF Quits
<1>4. WaitsOK(p)'
  BY Zenon DEF WaitsOK
<1> QED
  BY <1>3, <1>4, QuitsCurrent, Zenon

\* While a request of another route is under way every push is idle.
LEMMA OthersIdle ==
  ASSUME NEW x, NEW p \in Pushers, p # x
  PROVE  (OnlyActive(x) => pc[p] = "idle") /\ (OnlyActive(x)' => pc'[p] = "idle")
<1>1. /\ pc[p] # "idle" => p \in Active
      /\ pc'[p] # "idle" => p \in Active'
  BY Zenon DEF Active
<1>2. p \notin {x}
  BY Zenon
<1> QED
  BY <1>1, <1>2, Zenon DEF OnlyActive

\* What a push relies on, whatever the other routes do before and after.
PushesCurrent == \A p \in Pushers : WaitsOK(p) /\ CurrentOK(p)

\* A step of another route changes none of it.
LEMMA ElsewhereCurrent ==
  ASSUME PushesCurrent, NEW x \in Procs \ Pushers, Solo(x), UNCHANGED pushVars
  PROVE  PushesCurrent'
<1> SUFFICES ASSUME NEW p \in Pushers
             PROVE  WaitsOK(p)' /\ CurrentOK(p)'
  BY Zenon DEF PushesCurrent
<1>1. p # x /\ p \in Procs /\ WaitsOK(p) /\ CurrentOK(p)
  BY PushAssumption, Zenon DEF PushesCurrent
<1>2. pc[p] = "idle" /\ pc'[p] = "idle" /\ call'[p] = call[p]
  BY <1>1, OthersIdle, Zenon DEF Solo
<1>3. UNCHANGED <<stored, notified>>
  BY Zenon DEF pushVars
<1> QED
  BY <1>1, <1>2, <1>3, IdleCurrent, Zenon

\* Every step keeps it.
LEMMA PushesCurrentNext ==
  ASSUME OneAtATime, ReadsComplete, SoloInv, PushesCurrent, [BundlerNext]_bundlerVars
  PROVE  PushesCurrent'
<1>0. PushInv /\ NoItems /\ CacheTypeOK
  BY Zenon DEF SoloInv, BundlerInv, PushInv, CacheInv
<1>d. \A x \in Pullers \cup Submitters \cup Monitors : x \in Procs \ Pushers
  BY BundlerAssumption, Zenon
<1>1. ASSUME NEW p \in Pushers, PushRoute(p)
      PROVE  PushesCurrent'
  <2>1. Solo(p) /\ (GetHashes(p) \/ Handler(p) \/ Return(p)) /\ PushApart(p)
    BY <1>1, PushSolo, Zenon
  <2>2. WaitsOK(p)' /\ CurrentOK(p)'
    BY <1>0, <2>1, HandlerCurrent, Zenon DEF PushesCurrent
  <2>3. ASSUME NEW y \in Pushers, y # p
        PROVE  WaitsOK(y)' /\ CurrentOK(y)'
    <3>1. WaitsOK(y) /\ CurrentOK(y) /\ y \in Procs
      BY PushAssumption, Zenon DEF PushesCurrent
    <3>2. pc[y] = "idle" /\ pc'[y] = "idle" /\ call'[y] = call[y]
      BY <2>1, <2>3, <3>1, OthersIdle, Zenon DEF Solo
    <3>3. stored'[y] = stored[y] /\ (y \in notified' => y \in notified)
      BY <2>1, <2>3, Zenon DEF PushApart
    <3> QED
      BY <3>1, <3>2, <3>3, IdleCurrent, Zenon
  <2> QED
    BY <2>2, <2>3, Zenon DEF PushesCurrent
<1>2. ASSUME NEW q \in Pullers, PullRoute(q)
      PROVE  PushesCurrent'
  BY <1>2, <1>d, PullSolo, ElsewhereCurrent, Zenon
<1>3. ASSUME NEW w \in Submitters, SubmitRoute(w)
      PROVE  PushesCurrent'
  BY <1>3, <1>d, SubmitSolo, ElsewhereCurrent, Zenon
<1>4. ASSUME NEW m \in Monitors, HealthRoute(m)
      PROVE  PushesCurrent'
  BY <1>4, <1>d, HealthSolo, ElsewhereCurrent, Zenon
<1>5. CASE Eviction \/ UNCHANGED bundlerVars
  <2>1. /\ UNCHANGED <<s3, call, rows, pushVars>>
        /\ \A k \in Keys : mc'[k] \in {mc[k], None}
    BY <1>0, <1>5, EvictionFacts, Zenon DEF bundlerVars, allPushVars
  <2> QED
    BY <1>0, <2>1, EvictCurrent, Zenon DEF PushesCurrent
<1>6. CASE Restart
  BY <1>6, CrashCurrent, Zenon DEF Restart, PushesCurrent
<1> QED
  BY <1>1, <1>2, <1>3, <1>4, <1>5, <1>6, Zenon DEF BundlerNext

\* No push has begun.
LEMMA PushesCurrentInit == BundlerInit => PushesCurrent
BY CurrentInitInv, Zenon DEF BundlerInit, CurrentInv, PushesCurrent

\* A push to a service that takes one request after another, pulls, submissions
\* and health checks among them: one that ends with "Done." or "No changes
\* detected." leaves the app with exactly the files it listed.
THEOREM ServiceStoresListing ==
  ASSUME OneAtATime, ReadsComplete
  PROVE  BundlerSpec => []SuccessStoresListing
<1>1. BundlerInit => SoloInv /\ PushesCurrent
  BY SoloInitInv, PushesCurrentInit, Zenon
<1>2. SoloInv /\ PushesCurrent /\ [BundlerNext]_bundlerVars => (SoloInv /\ PushesCurrent)'
  BY SoloNextInv, PushesCurrentNext, Zenon
<1>3. PushesCurrent => SuccessStoresListing
  BY Zenon DEF PushesCurrent, CurrentOK, StoreOK, SuccessStoresListing
<1> QED
  BY <1>1, <1>2, <1>3, PTL DEF BundlerSpec

\* And after "Done." or the notification the footers in S3, those in memcached
\* and Django are those of the rows, if moreover no write to a temporary
\* directory is lost.
THEOREM ServiceDoneMeansCurrent ==
  ASSUME OneAtATime, ReadsComplete, WritesComplete
  PROVE  BundlerSpec => []DoneMeansCurrent
<1>1. BundlerInit => SoloInv /\ PushesCurrent
  BY SoloInitInv, PushesCurrentInit, Zenon
<1>2. SoloInv /\ PushesCurrent /\ [BundlerNext]_bundlerVars => (SoloInv /\ PushesCurrent)'
  BY SoloNextInv, PushesCurrentNext, Zenon
<1>3. PushesCurrent => DoneMeansCurrent
  BY DoneCurrent, Zenon DEF PushesCurrent
<1> QED
  BY <1>1, <1>2, <1>3, PTL DEF BundlerSpec

-----------------------------------------------------------------------------
(* The refinement mapping.                                                 *)

\* The state of AppStore that the routes implement: what each submission has
\* frozen, and what each client was shown.
FrozenRows == [s \in Subs |-> IF s \in Snapshots THEN rows[s] ELSE None]

Shown(q) ==
  IF Pulled(q) /\ pullNs[q] \in Snapshots \cup {Dev}
  THEN <<pullNs[q], assetFiles[q]>> ELSE None

SeenBy == [q \in Pullers |-> Shown(q)]

storeVars == <<settled, LastReply, FrozenRows, SeenBy>>

\* The initial state and the actions of AppStore, in these terms.
LEMMA AsInit ==
  ASSUME settled = NoFiles, LastReply = None,
         FrozenRows = [s \in Subs |-> None], SeenBy = [q \in Pullers |-> None]
  PROVE  Store!Init
BY Zenon DEF Store!Init, NoFiles, FrozenRows, SeenBy, Shown

\* A successful push.
LEMMA AsPush ==
  ASSUME settled' \in Projects, LastReply' = <<"ok", settled'>>,
         FrozenRows' = FrozenRows, SeenBy' = SeenBy
  PROVE  Store!Next
<1>1. Store!Push
  BY Zenon DEF Store!Push, FrozenRows, SeenBy, Shown
<1> QED
  BY <1>1, Zenon DEF Store!Next

\* A push that fails, or is cut off.
LEMMA AsFailedPush ==
  ASSUME NEW l \in Projects, settled' \in Listings,
         \A n \in Names : settled'[n] \in {settled[n], l[n]},
         LastReply' \in {<<"failed", l>>, None},
         FrozenRows' = FrozenRows, SeenBy' = SeenBy
  PROVE  Store!Next
<1>1. Store!FailedPush
  BY Zenon DEF Store!FailedPush, FrozenRows, SeenBy, Shown
<1> QED
  BY <1>1, Zenon DEF Store!Next

\* A submission.
LEMMA AsSubmit ==
  ASSUME NEW s \in Subs, FrozenRows[s] = None, FrozenRows' = [FrozenRows EXCEPT ![s] = settled],
         settled' = settled, LastReply' = LastReply, SeenBy' = SeenBy
  PROVE  Store!Next
<1>1. Store!Submit(s)
  BY Zenon DEF Store!Submit, FrozenRows, SeenBy, Shown
<1> QED
  BY <1>1, Zenon DEF Store!Next

\* A pull of the app or of a submission.
LEMMA AsPull ==
  ASSUME NEW q \in Pullers,
         \/ SeenBy' = [SeenBy EXCEPT ![q] = <<Dev, Matching(settled, AssetNames)>>]
         \/ \E s \in Subs :
              /\ FrozenRows[s] # None
              /\ SeenBy' = [SeenBy EXCEPT ![q] = <<s, Matching(FrozenRows[s], AssetNames)>>],
         settled' = settled, LastReply' = LastReply, FrozenRows' = FrozenRows
  PROVE  Store!Next
<1>1. Store!Pull(q)
  BY Zenon DEF Store!Pull, FrozenRows, SeenBy, Shown
<1> QED
  BY <1>1, Zenon DEF Store!Next

\* Answered clients that go on.
LEMMA AsForget ==
  ASSUME LastReply' \in {LastReply, None}, \A q \in Pullers : SeenBy'[q] \in {SeenBy[q], None},
         settled' = settled, FrozenRows' = FrozenRows
  PROVE  Store!Next
<1>1. SeenBy' \in [Pullers -> {SeenBy[q] : q \in Pullers} \cup {None}]
  <2>1. \A q \in Pullers : SeenBy'[q] \in {SeenBy[r] : r \in Pullers} \cup {None}
    BY Zenon
  <2>2. SeenBy' = [q \in Pullers |-> SeenBy'[q]]
    BY Zenon DEF SeenBy
  <2> QED
    BY <2>1, <2>2, Zenon
<1>2. Store!Forget
  BY <1>1, Zenon DEF Store!Forget, FrozenRows, SeenBy, Shown
<1> QED
  BY <1>2, Zenon DEF Store!Next

-----------------------------------------------------------------------------
(* The invariant.                                                          *)

\* No push is under way.
NoPush == \A p \in Pushers : pc[p] \in {"idle", "done"}

\* While a push is under way every row is that of the app before the push or
\* that of the project that is pushed; otherwise the rows are the app.
SettledOK ==
  /\ NoPush => settled = rows[Dev]
  /\ \A p \in Pushers :
       pc[p] \notin {"idle", "done"} =>
         /\ listing[p] \in Projects
         /\ \A n \in Names : rows[Dev][n] \in {settled[n], listing[p][n]}

StoreInv ==
  /\ SoloInv /\ PushesCurrent /\ SettledOK
  /\ \A w \in Submitters : SubWhole(w)
  /\ \A q \in Pullers : PullSame(q)

\* What a step of a push does to the rows, the settled app and the listing.
LEMMA PushSettles ==
  ASSUME StoreInv, OneAtATime, NEW p \in Pushers, PushRoute(p)
  PROVE  /\ \A y \in Pushers : y # p => pc[y] = "idle" /\ pc'[y] = "idle"
         /\ settled' = IF pc'[p] \in {"idle", "done"} THEN rows'[Dev] ELSE settled
         /\ pc[p] = "idle" => settled = rows[Dev] /\ rows' = rows /\ pc'[p] = "post"
                              /\ listing'[p] \in Projects
         /\ pc[p] = "done" => settled = rows[Dev] /\ rows' = rows /\ pc'[p] = "idle"
         /\ pc[p] \notin {"idle", "done"} =>
              /\ listing[p] \in Projects /\ listing' = listing
              /\ \A n \in Names : rows'[Dev][n] \in {settled[n], listing[p][n]}
<1>0. /\ PushInv /\ WaitsOK(p) /\ StoreOK(p) /\ FootersOK(p) /\ SoloInv /\ SettledOK
      /\ DOMAIN pc = Pushers /\ DOMAIN listing = Pushers
  BY PushShapes, Zenon DEF StoreInv, SoloInv, BundlerInv, PushesCurrent, CurrentOK, Shapes
<1>1. Solo(p) /\ (GetHashes(p) \/ Handler(p) \/ Return(p)) /\ Settle
  BY <1>0, PushSolo, Zenon
<1>2. \A y \in Pushers : y # p => pc[y] = "idle" /\ pc'[y] = "idle"
  BY <1>1, OthersIdle, Zenon DEF Solo
<1>3. settled' = IF pc'[p] \in {"idle", "done"} THEN rows'[Dev] ELSE settled
  BY <1>1, <1>2, Zenon DEF Settle
<1>4. pc[p] \in {"idle", "done"} => settled = rows[Dev]
  BY <1>0, <1>2, Zenon DEF SettledOK, NoPush
<1>5. CASE GetHashes(p)
  <2>1. pc[p] = "idle" /\ rows' = rows /\ pc'[p] = "post" /\ listing'[p] \in Projects
    BY <1>0, <1>5, Zenon DEF GetHashes
  <2> QED
    BY <1>2, <1>3, <1>4, <2>1, Zenon
<1>6. CASE Return(p)
  <2>1. pc[p] = "done" /\ rows' = rows /\ pc'[p] = "idle"
    BY <1>0, <1>6, Zenon DEF Return, Reset
  <2> QED
    BY <1>2, <1>3, <1>4, <2>1, Zenon
<1>7. CASE Handler(p)
  <2>1. pc[p] \notin {"idle", "done"} /\ listing' = listing /\ RowsMix(p)
    BY <1>0, <1>7, HandlerUnderWay, HandlerListing, HandlerRows, Zenon
  <2>2. /\ listing[p] \in Projects
        /\ \A n \in Names : rows[Dev][n] \in {settled[n], listing[p][n]}
    BY <1>0, <2>1, Zenon DEF SettledOK
  <2>3. \A n \in Names : rows'[Dev][n] \in {settled[n], listing[p][n]}
    BY <2>1, <2>2, Zenon DEF RowsMix
  <2> QED
    BY <1>2, <1>3, <2>1, <2>2, <2>3, Zenon
<1> QED
  BY <1>1, <1>5, <1>6, <1>7, Zenon

\* A push keeps SettledOK.
LEMMA PushKeepsSettled ==
  ASSUME StoreInv, OneAtATime, NEW p \in Pushers, PushRoute(p)
  PROVE  SettledOK'
<1>1. NoPush' => settled' = rows'[Dev]
  BY PushSettles, Zenon DEF NoPush
<1>2. ASSUME NEW y \in Pushers, pc'[y] \notin {"idle", "done"}
      PROVE  /\ listing'[y] \in Projects
             /\ \A n \in Names : rows'[Dev][n] \in {settled'[n], listing'[y][n]}
  <2>1. y = p
    BY <1>2, PushSettles, Zenon
  <2>2. settled' = settled
    BY <1>2, <2>1, PushSettles, Zenon
  <2>3. CASE pc[p] = "idle"
    BY <2>1, <2>2, <2>3, PushSettles, Zenon
  <2>4. CASE pc[p] = "done"
    BY <1>2, <2>1, <2>4, PushSettles, Zenon
  <2>5. CASE pc[p] \notin {"idle", "done"}
    BY <2>1, <2>2, <2>5, PushSettles, Zenon
  <2> QED
    BY <2>3, <2>4, <2>5, Zenon
<1> QED
  BY <1>1, <1>2, Zenon DEF SettledOK

\* Every step keeps the invariant.
LEMMA StoreNextInv ==
  ASSUME OneAtATime, ReadsComplete, StoreInv, [BundlerNext]_bundlerVars
  PROVE  StoreInv' /\ \A s \in Snapshots : Untouched(s)
<1>0. SoloInv /\ CacheTypeOK /\ SettledOK /\ DOMAIN listing = Pushers
  BY PushShapes, Zenon DEF StoreInv, SoloInv, BundlerInv, PushInv, CacheInv, Shapes
<1>k. ASSUME UNCHANGED <<pc, listing, settled>>, rows'[Dev] = rows[Dev]
      PROVE  SettledOK'
  BY <1>k, <1>0, Zenon DEF SettledOK, NoPush
<1>v. UNCHANGED pushVars => UNCHANGED <<pc, listing>>
  BY Zenon DEF pushVars
<1>1. ASSUME NEW p \in Pushers, PushRoute(p)
      PROVE  SettledOK'
  BY <1>1, PushKeepsSettled, Zenon
<1>2. ASSUME NEW q \in Pullers, PullRoute(q)
      PROVE  SettledOK'
  BY <1>2, <1>0, <1>k, <1>v, PullSolo, Zenon
<1>3. ASSUME NEW w \in Submitters, SubmitRoute(w)
      PROVE  SettledOK'
  BY <1>3, <1>0, <1>k, <1>v, SubmitSolo, Zenon
<1>4. ASSUME NEW m \in Monitors, HealthRoute(m)
      PROVE  SettledOK'
  BY <1>4, <1>0, <1>k, <1>v, HealthSolo, Zenon
<1>5. ASSUME Eviction
      PROVE  SettledOK'
  BY <1>5, <1>0, <1>k, <1>v, EvictionFacts, Zenon
<1>6. ASSUME Restart
      PROVE  SettledOK'
  <2>1. /\ \A p \in Pushers : pc'[p] = "idle"
        /\ rows' = rows /\ Settle
    BY <1>6, RestartFacts, Zenon DEF Restart
  <2> QED
    BY <2>1, Zenon DEF SettledOK, Settle
<1>7. ASSUME UNCHANGED bundlerVars
      PROVE  SettledOK'
  <2>1. UNCHANGED <<rows, pushVars, settled>>
    BY <1>7, Zenon DEF bundlerVars, allPushVars
  <2> QED
    BY <2>1, <1>k, <1>v, Zenon
<1>8. SettledOK'
  BY <1>1, <1>2, <1>3, <1>4, <1>5, <1>6, <1>7, Zenon DEF BundlerNext
<1> QED
  BY <1>8, SoloNextInv, PushesCurrentNext, SubWholeNext, PullSameNext, Zenon DEF StoreInv

-----------------------------------------------------------------------------
(* The steps.                                                              *)

\* What the last push was told, when at most one request is under way.
LEMMA ReplyFacts ==
  ASSUME NEW p \in Pushers, \A y \in Pushers : y # p => pc[y] = "idle" /\ pc'[y] = "idle"
  PROVE  /\ pc[p] # "done" => LastReply = None
         /\ pc'[p] # "done" => LastReply' = None
         /\ pc'[p] = "done" =>
              LastReply' = <<IF Succeeded(p)' THEN "ok" ELSE "failed", listing'[p]>>
<1>1. pc[p] # "done" => LastReply = None
  BY Zenon DEF LastReply
<1>2. pc'[p] # "done" => LastReply' = None
  BY Zenon DEF LastReply
<1>3. ASSUME pc'[p] = "done"
      PROVE  LastReply' = <<IF Succeeded(p)' THEN "ok" ELSE "failed", listing'[p]>>
  <2>1. \A y \in Pushers : pc'[y] = "done" => y = p
    BY Zenon
  <2>2. (CHOOSE y \in Pushers : pc'[y] = "done") = p
    BY <1>3, <2>1, Zenon
  <2> QED
    BY <1>3, <2>2, Zenon DEF LastReply
<1> QED
  BY <1>1, <1>2, <1>3, Zenon

\* Without a step of a push it is told nothing else.
LEMMA ReplySame ==
  ASSUME UNCHANGED pushVars
  PROVE  LastReply' = LastReply
<1>1. UNCHANGED <<pc, listing, result>>
  BY Zenon DEF pushVars
<1> QED
  BY <1>1, Zenon DEF LastReply, Succeeded

\* A step that records no submission leaves what is frozen as it is.
LEMMA FrozenSame ==
  ASSUME UNCHANGED submitted, \A s \in Snapshots : Untouched(s)
  PROVE  Snapshots' = Snapshots /\ FrozenRows' = FrozenRows
<1>1. Snapshots' = Snapshots
  BY Zenon DEF Snapshots
<1>2. \A s \in Snapshots : rows'[s] = rows[s]
  BY Zenon DEF Untouched
<1> QED
  BY <1>1, <1>2, Zenon DEF FrozenRows

\* A client that has pulled nothing was shown nothing.
LEMMA ShownNothing ==
  ASSUME NEW q \in Pullers
  PROVE  (pullAt[q] = "idle" => Shown(q) = None) /\ (pullAt'[q] = "idle" => Shown(q)' = None)
BY Zenon DEF Shown, Pulled

\* The clients are shown nothing else.
LEMMA SeenSame ==
  ASSUME \A q \in Pullers : Shown(q)' = Shown(q)
  PROVE  SeenBy' = SeenBy
BY Zenon DEF SeenBy

\* Pulls are left alone.
LEMMA PullsSame ==
  ASSUME UNCHANGED pullVars, Snapshots' = Snapshots
  PROVE  SeenBy' = SeenBy
<1>1. UNCHANGED <<pullAt, answer, pullNs, assetFiles>>
  BY Zenon DEF pullVars, requestVars, zipVars
<1> QED
  BY <1>1, SeenSame, Zenon DEF Shown, Pulled

\* While another request is under way no pull is.
LEMMA OthersShown ==
  ASSUME NEW x, OnlyActive(x), OnlyActive(x)', NEW q \in Pullers, q # x
  PROVE  pullAt[q] = "idle" /\ pullAt'[q] = "idle" /\ Shown(q) = None /\ Shown(q)' = None
<1>1. /\ pullAt[q] # "idle" => q \in Active
      /\ pullAt'[q] # "idle" => q \in Active'
  BY Zenon DEF Active
<1>2. q \notin {x}
  BY Zenon
<1>3. pullAt[q] = "idle" /\ pullAt'[q] = "idle"
  BY <1>1, <1>2, Zenon DEF OnlyActive
<1> QED
  BY <1>3, ShownNothing, Zenon

\* The last step of a push that succeeds is Push, and of one that fails
\* FailedPush; that the answer is read is Forget.
LEMMA PushImplements ==
  ASSUME OneAtATime, StoreInv, StoreInv', \A s \in Snapshots : Untouched(s),
         NEW p \in Pushers, PushRoute(p)
  PROVE  Store!Next \/ UNCHANGED storeVars
<1>1. UNCHANGED <<pullVars, submitVars>>
  BY PushSolo, Zenon DEF StoreInv
<1>2. FrozenRows' = FrozenRows /\ SeenBy' = SeenBy
  BY <1>1, FrozenSame, PullsSame, Zenon DEF submitVars
<1>3. /\ pc[p] # "done" => LastReply = None
      /\ pc'[p] # "done" => LastReply' = None
      /\ pc'[p] = "done" =>
           LastReply' = <<IF Succeeded(p)' THEN "ok" ELSE "failed", listing'[p]>>
  BY PushSettles, ReplyFacts, Zenon
<1>4. CASE pc[p] = "idle"
  <2>1. settled' = settled /\ LastReply' = LastReply
    BY <1>3, <1>4, PushSettles, Zenon
  <2> QED
    BY <1>2, <2>1, Zenon DEF storeVars
<1>5. CASE pc[p] = "done"
  <2>1. settled' = settled /\ LastReply' = None
    BY <1>3, <1>5, PushSettles, Zenon
  <2> QED
    BY <1>2, <2>1, AsForget, Zenon
<1>6. CASE pc[p] \notin {"idle", "done"} /\ pc'[p] \notin {"idle", "done"}
  <2>1. settled' = settled /\ LastReply' = LastReply
    BY <1>3, <1>6, PushSettles, Zenon
  <2> QED
    BY <1>2, <2>1, Zenon DEF storeVars
<1>7. CASE pc[p] \notin {"idle", "done"} /\ pc'[p] \in {"idle", "done"}
  <2>1. /\ listing[p] \in Projects /\ listing' = listing /\ settled' = rows'[Dev]
        /\ \A n \in Names : settled'[n] \in {settled[n], listing[p][n]}
    BY <1>7, PushSettles, Zenon
  <2>2. settled' \in Listings
    BY Zenon DEF StoreInv, SoloInv, BundlerInv
  <2>3. CASE Succeeded(p)'
    <3>1. StoreOK(p)'
      BY Zenon DEF StoreInv, PushesCurrent, CurrentOK
    <3>2. rows'[Dev] = listing'[p]
      BY <2>3, <3>1, Zenon DEF StoreOK
    <3>3. pc'[p] = "done"
      BY <2>3, Zenon DEF Succeeded
    <3>4. settled' \in Projects /\ LastReply' = <<"ok", settled'>>
      BY <1>3, <2>1, <2>3, <3>2, <3>3, Zenon
    <3> QED
      BY <1>2, <3>4, AsPush, Zenon
  <2>4. CASE ~Succeeded(p)'
    <3>1. LastReply' \in {<<"failed", listing[p]>>, None}
      BY <1>3, <2>1, <2>4, Zenon
    <3> QED
      BY <1>2, <2>1, <2>2, <3>1, AsFailedPush, Zenon
  <2> QED
    BY <2>3, <2>4, Zenon
<1> QED
  BY <1>4, <1>5, <1>6, <1>7, Zenon

\* A step of a pull shows its client the app or a submission, as Pull does, or
\* nothing new, which is Forget.
LEMMA PullImplements ==
  ASSUME OneAtATime, StoreInv, StoreInv', \A s \in Snapshots : Untouched(s),
         NEW q \in Pullers, PullRoute(q)
  PROVE  Store!Next
<1>1. Solo(q) /\ UNCHANGED <<rows, pushVars, submitVars, settled>>
  BY PullSolo, Zenon DEF StoreInv
<1>2. LastReply' = LastReply /\ Snapshots' = Snapshots /\ FrozenRows' = FrozenRows
  BY <1>1, ReplySame, FrozenSame, Zenon DEF submitVars
<1>3. \A y \in Pullers : y # q => Shown(y) = None /\ Shown(y)' = None
  BY <1>1, OthersShown, Zenon DEF Solo
<1>4. SeenBy' = [SeenBy EXCEPT ![q] = Shown(q)']
  BY <1>3, Zenon DEF SeenBy
<1>5. settled = rows[Dev]
  <2>1. \A p \in Pushers : p # q
    BY BundlerAssumption, Zenon
  <2>2. \A p \in Pushers : pc[p] = "idle"
    BY <1>1, <2>1, OthersIdle, Zenon DEF Solo
  <2> QED
    BY <2>2, Zenon DEF StoreInv, SettledOK, NoPush
<1>6. CASE Shown(q)' = None
  <2>1. \A y \in Pullers : SeenBy'[y] \in {SeenBy[y], None}
    BY <1>3, <1>6, Zenon DEF SeenBy
  <2> QED
    BY <1>1, <1>2, <2>1, AsForget, Zenon
<1>7. CASE Shown(q)' # None
  <2>1. Pulled(q)' /\ pullNs'[q] \in Snapshots' \cup {Dev} /\ Shown(q)' = <<pullNs'[q], assetFiles'[q]>>
    BY <1>7, Zenon DEF Shown
  <2>2. assetFiles'[q] = Matching(rows[pullNs'[q]], AssetNames)
    <3>1. PullSame(q)'
      BY Zenon DEF StoreInv
    <3>2. assetFiles'[q] = Matching(rows[pullNs[q]], AssetNames)'
      BY <2>1, <3>1, Zenon DEF PullSame
    <3> QED
      BY <1>1, <3>2, Zenon DEF Matching
  <2>3. CASE pullNs'[q] = Dev
    <3>1. SeenBy' = [SeenBy EXCEPT ![q] = <<Dev, Matching(settled, AssetNames)>>]
      BY <1>4, <1>5, <2>1, <2>2, <2>3, Zenon
    <3> QED
      BY <1>1, <1>2, <3>1, AsPull, Zenon
  <2>4. CASE pullNs'[q] \in Snapshots
    <3> DEFINE s == pullNs'[q]
    <3>1. s \in Subs /\ rows[s] \in Listings
      BY <2>4, Zenon DEF StoreInv, SoloInv, FrozenInv, BundlerInv, PushInv, PushTypeOK,
         FilesTypeOK, Namespaces
    <3>2. FrozenRows[s] = rows[s]
      BY <2>4, <3>1, Zenon DEF FrozenRows
    <3>3. rows[s] # None
      BY <3>1, ListingsAssumption, Zenon
    <3>4. SeenBy' = [SeenBy EXCEPT ![q] = <<s, Matching(FrozenRows[s], AssetNames)>>]
      BY <1>4, <2>1, <2>2, <3>2, Zenon
    <3> HIDE DEF s
    <3> QED
      BY <1>1, <1>2, <3>1, <3>2, <3>3, <3>4, AsPull, Zenon
  <2> QED
    BY <1>2, <2>1, <2>3, <2>4, Zenon
<1> QED
  BY <1>6, <1>7, Zenon

\* The last step of a submission freezes the app, as Submit does; its other
\* steps show nothing.
LEMMA SubmitImplements ==
  ASSUME OneAtATime, StoreInv, StoreInv', \A s \in Snapshots : Untouched(s),
         NEW w \in Submitters, SubmitRoute(w), [BundlerNext]_bundlerVars
  PROVE  Store!Next \/ UNCHANGED storeVars
<1>1. /\ SoloInv /\ Solo(w) /\ UNCHANGED <<pushVars, pullVars, settled>>
  BY SubmitSolo, Zenon DEF StoreInv
<1>2. LastReply' = LastReply
  BY <1>1, ReplySame, Zenon
<1>3. SeenBy' = SeenBy
  <2>1. \A q \in Pullers : q # w
    BY BundlerAssumption, Zenon
  <2>2. \A q \in Pullers : Shown(q)' = Shown(q)
    BY <1>1, <2>1, OthersShown, Zenon DEF Solo
  <2> QED
    BY <2>2, SeenSame, Zenon
<1>4. settled = rows[Dev]
  <2>1. \A p \in Pushers : p # w
    BY BundlerAssumption, Zenon
  <2>2. \A p \in Pushers : pc[p] = "idle"
    BY <1>1, <2>1, OthersIdle, Zenon DEF Solo
  <2> QED
    BY <2>2, Zenon DEF StoreInv, SettledOK, NoPush
<1>5. CASE submitted' = submitted
  <2>1. FrozenRows' = FrozenRows
    BY <1>5, FrozenSame, Zenon
  <2> QED
    BY <1>1, <1>2, <1>3, <2>1, Zenon DEF storeVars
<1>6. ASSUME NEW v \in Submitters, SubmitDone(v), SubmissionExists(subID[v]),
             submitted' = submitted \cup {<<subID[v], subPlatform[v]>>}
      PROVE  Store!Next
  <2> DEFINE s == subID[v]
  <2>1. rows[s] = rows[Dev] /\ rows' = rows
    BY <1>1, <1>6, DoneRows, Zenon DEF StoreInv
  <2>2. s \in Subs /\ s \notin Snapshots
    <3>1. subAt[v] \in Working
      BY <1>6, Zenon DEF SubmitDone, Working
    <3> QED
      BY <1>1, <3>1, Zenon DEF SoloInv, FrozenInv, Fresh
  <2>3. \A r : r \in Snapshots' <=> r \in Snapshots \/ r = s
    <3>1. <<subID[v], subPlatform[v]>>[1] = s
      BY Zenon
    <3>2. \A x : x \in submitted' <=> x \in submitted \/ x = <<subID[v], subPlatform[v]>>
      BY <1>6, Zenon
    <3> QED
      BY <3>1, <3>2, Zenon DEF Snapshots
  <2>4. FrozenRows[s] = None
    BY <2>2, Zenon DEF FrozenRows
  <2>5. FrozenRows' = [FrozenRows EXCEPT ![s] = settled]
    <3>1. \A r \in Subs : FrozenRows'[r] = IF r = s THEN settled ELSE FrozenRows[r]
      BY <1>4, <2>1, <2>3, Zenon DEF FrozenRows
    <3>2. FrozenRows' = [r \in Subs |-> FrozenRows'[r]] /\ DOMAIN FrozenRows = Subs
      BY Zenon DEF FrozenRows
    <3> HIDE DEF s
    <3> QED
      BY <3>1, <3>2, Zenon
  <2> HIDE DEF s
  <2> QED
    BY <1>1, <1>2, <1>3, <2>2, <2>4, <2>5, AsSubmit, Zenon
<1> QED
  BY <1>1, <1>5, <1>6, SubmittedGrows, Zenon

\* A restart cuts off a push, which FailedPush does too, or nothing that changes
\* the app; the clients that were answered are gone.
LEMMA RestartImplements ==
  ASSUME StoreInv, StoreInv', \A s \in Snapshots : Untouched(s), Restart
  PROVE  Store!Next
<1>1. /\ UNCHANGED <<rows, submitted>> /\ Settle
      /\ \A p \in Pushers : pc'[p] = "idle"
      /\ \A q \in Pullers : pullAt'[q] = "idle"
  BY RestartFacts, Zenon DEF Restart
<1>2. FrozenRows' = FrozenRows
  BY <1>1, FrozenSame, Zenon
<1>3. LastReply' = None
  BY <1>1, Zenon DEF LastReply
<1>4. settled' = rows[Dev]
  BY <1>1, Zenon DEF Settle
<1>5. \A q \in Pullers : Shown(q)' = None
  BY <1>1, ShownNothing, Zenon
<1>6. CASE NoPush
  <2>1. settled' = settled
    BY <1>4, <1>6, Zenon DEF StoreInv, SettledOK
  <2>2. \A q \in Pullers : SeenBy'[q] \in {SeenBy[q], None}
    BY <1>5, Zenon DEF SeenBy
  <2> QED
    BY <1>2, <1>3, <2>1, <2>2, AsForget, Zenon
<1>7. CASE ~NoPush
  <2>1. PICK p \in Pushers : pc[p] \notin {"idle", "done"}
    BY <1>7, Zenon DEF NoPush
  <2>2. /\ listing[p] \in Projects
        /\ \A n \in Names : rows[Dev][n] \in {settled[n], listing[p][n]}
    BY <2>1, Zenon DEF StoreInv, SettledOK
  <2>3. settled' \in Listings
    BY Zenon DEF StoreInv, SoloInv, BundlerInv
  <2>4. \A q \in Pullers : Shown(q)' = Shown(q)
    <3>1. ASSUME NEW q \in Pullers
          PROVE  pullAt[q] = "idle"
      <4>1. q # p
        BY BundlerAssumption, Zenon
      <4>2. p \in Active /\ (pullAt[q] # "idle" => q \in Active)
        BY <2>1, Zenon DEF Active
      <4> QED
        BY <4>1, <4>2, Zenon DEF StoreInv, SoloInv, Alone
    <3> QED
      BY <1>5, <3>1, ShownNothing, Zenon
  <2>5. SeenBy' = SeenBy
    BY <2>4, SeenSame, Zenon
  <2> QED
    BY <1>2, <1>3, <1>4, <2>2, <2>3, <2>5, AsFailedPush, Zenon
<1> QED
  BY <1>6, <1>7, Zenon

\* Every step of the bundler is one of AppStore, or changes nothing its clients
\* can tell.
LEMMA StepImplements ==
  ASSUME OneAtATime, StoreInv, StoreInv', \A s \in Snapshots : Untouched(s),
         [BundlerNext]_bundlerVars
  PROVE  Store!Next \/ UNCHANGED storeVars
<1>0. SoloInv /\ CacheTypeOK
  BY Zenon DEF StoreInv, SoloInv, BundlerInv, PushInv, CacheInv
<1>s. ASSUME UNCHANGED <<pushVars, pullVars, submitVars, settled>>
      PROVE  UNCHANGED storeVars
  <2>1. LastReply' = LastReply /\ Snapshots' = Snapshots /\ FrozenRows' = FrozenRows
    BY <1>s, ReplySame, FrozenSame, Zenon DEF submitVars
  <2>2. SeenBy' = SeenBy
    BY <1>s, <2>1, PullsSame, Zenon
  <2> QED
    BY <1>s, <2>1, <2>2, Zenon DEF storeVars
<1>1. ASSUME NEW p \in Pushers, PushRoute(p)
      PROVE  Store!Next \/ UNCHANGED storeVars
  BY <1>1, PushImplements, Zenon
<1>2. ASSUME NEW q \in Pullers, PullRoute(q)
      PROVE  Store!Next
  BY <1>2, PullImplements, Zenon
<1>3. ASSUME NEW w \in Submitters, SubmitRoute(w)
      PROVE  Store!Next \/ UNCHANGED storeVars
  BY <1>3, SubmitImplements, Zenon
<1>4. ASSUME NEW m \in Monitors, HealthRoute(m)
      PROVE  UNCHANGED storeVars
  BY <1>4, <1>0, <1>s, HealthSolo, Zenon
<1>5. ASSUME Eviction
      PROVE  UNCHANGED storeVars
  BY <1>5, <1>0, <1>s, EvictionFacts, Zenon
<1>6. ASSUME Restart
      PROVE  Store!Next
  BY <1>6, RestartImplements, Zenon
<1>7. ASSUME UNCHANGED bundlerVars
      PROVE  UNCHANGED storeVars
  BY <1>7, <1>s, Zenon DEF bundlerVars, allPushVars
<1> QED
  BY <1>1, <1>2, <1>3, <1>4, <1>5, <1>6, <1>7, Zenon DEF BundlerNext

\* The first state is one of AppStore.
LEMMA InitImplements == BundlerInit => StoreInv /\ Store!Init
<1> SUFFICES ASSUME BundlerInit
             PROVE  StoreInv /\ Store!Init
  OBVIOUS
<1>1. /\ rows = [ns \in Namespaces |-> NoFiles] /\ settled = NoFiles
      /\ submitted = {}
      /\ \A p \in Pushers : pc[p] = "idle"
      /\ \A q \in Pullers : pullAt[q] = "idle"
      /\ \A w \in Submitters : subAt[w] = "idle" /\ project[w] = NoFiles
  BY Zenon DEF BundlerInit, PushInit, FilesInit, PullInit, SubmitInit
<1>2. settled = rows[Dev]
  BY <1>1, KeyFacts, Zenon
<1>3. SettledOK
  BY <1>1, <1>2, Zenon DEF SettledOK
<1>4. \A w \in Submitters : SubWhole(w)
  BY <1>1, Zenon DEF SubWhole, SubRows, SubFiles, SubFooter, Working, Copying
<1>5. \A q \in Pullers : PullSame(q)
  BY <1>1, Zenon DEF PullSame, Pulled
<1>6. StoreInv
  BY <1>3, <1>4, <1>5, SoloInitInv, PushesCurrentInit, Zenon DEF StoreInv
<1>7. LastReply = None
  BY <1>1, Zenon DEF LastReply
<1>8. FrozenRows = [s \in Subs |-> None]
  BY <1>1, Zenon DEF FrozenRows, Snapshots
<1>9. SeenBy = [q \in Pullers |-> None]
  BY <1>1, ShownNothing, Zenon DEF SeenBy
<1> QED
  BY <1>1, <1>6, <1>7, <1>8, <1>9, AsInit, Zenon

\* The routes implement AppStore when the requests do not overlap and no read of
\* rows stops half-way unnoticed, for any number of clients, names, contents,
\* projects and submission IDs, and whatever else fails: a push that succeeds
\* takes effect as a whole, a push that fails or is cut off leaves each file as
\* it was or as it was pushed, a submission freezes the app once, and a pull
\* shows one version of the app or of a submission.
THEOREM SerialImplementsAppStore ==
  ASSUME OneAtATime, ReadsComplete
  PROVE  BundlerSpec => ImplementsAppStore
<1>1. BundlerInit => StoreInv /\ Store!Init
  BY InitImplements, Zenon
<1>2. StoreInv /\ [BundlerNext]_bundlerVars => StoreInv'
  BY StoreNextInv, Zenon
<1>3. StoreInv /\ StoreInv' /\ [BundlerNext]_bundlerVars => Store!Next \/ UNCHANGED storeVars
  BY StoreNextInv, StepImplements, Zenon
<1>4. UNCHANGED storeVars =>
        UNCHANGED <<settled, LastReply, [s \in Subs |-> IF s \in Snapshots THEN rows[s] ELSE None],
                    [q \in Pullers |->
                       IF Pulled(q) /\ pullNs[q] \in Snapshots \cup {Dev}
                       THEN <<pullNs[q], assetFiles[q]>> ELSE None]>>
  BY Zenon DEF storeVars, FrozenRows, SeenBy, Shown
<1> QED
  BY <1>1, <1>2, <1>3, <1>4, PTL DEF BundlerSpec, ImplementsAppStore, Store!Spec
=============================================================================
