------------------------------ MODULE Bundler ------------------------------
(***************************************************************************)
(* The routes of the bundler together (routes.go), serving one app: pushes *)
(* change its rows, files and footers, pulls read them, submissions copy   *)
(* them, and health checks probe them, each request in a goroutine of its  *)
(* own and with nothing to exclude one from another.                       *)
(***************************************************************************)
EXTENDS Push, Pull, Submit, Healthcheck, FiniteSets

CONSTANTS
  MaxActive,   \* bound on the number of requests under way at once
  MaxRequests  \* bound on the number of requests of a behaviour, 0 for none

ASSUME BundlerAssumption ==
  /\ Pullers \cup Submitters \cup Monitors \subseteq Procs
  /\ Pushers \cap Pullers = {} /\ Pushers \cap Submitters = {}
  /\ Pushers \cap Monitors = {} /\ Pullers \cap Submitters = {}
  /\ Pullers \cap Monitors = {} /\ Submitters \cap Monitors = {}
  /\ ClientHashes \subseteq Listings
  /\ PullPlatforms \cup SubmitPlatforms \subseteq AnyPlatform
  /\ MaxActive \in Nat /\ MaxRequests \in Nat

VARIABLES
  requests,   \* the number of requests so far, 0 where they are not bounded
  settled     \* history: the rows of the app when no push was last under way

bundlerVars == <<allPushVars, pullVars, submitVars, healthVars, requests, settled>>

Active ==
  {p \in Pushers : pc[p] # "idle"} \cup {q \in Pullers : pullAt[q] # "idle"} \cup
  {w \in Submitters : subAt[w] # "idle"} \cup {m \in Monitors : hcAt[m] # "idle"}

\* The router takes a request.
Accept ==
  /\ Cardinality(Active) < MaxActive
  /\ MaxRequests = 0 \/ requests < MaxRequests
  /\ requests' = IF MaxRequests = 0 THEN 0 ELSE requests + 1

\* What MaxActive = 1 says of finitely many clients, and the hypothesis of the
\* proofs about requests that do not overlap: Accept needs Active = {}.
OneAtATime == \A S \in SUBSET Procs : Cardinality(S) < MaxActive => S = {}

\* A step of a cache call that a pull, a submission or a check is waiting for.
Calling(x) == CacheStep(x) /\ UNCHANGED rows

Settle ==
  settled' = IF \A p \in Pushers : pc'[p] \in {"idle", "done"}
             THEN rows'[Dev] ELSE settled

PushHandler(p) ==
  /\ Handler(p)
  /\ Settle
  /\ UNCHANGED <<pullVars, submitVars, healthVars, requests>>

PushRoute(p) ==
  \/ PushHandler(p)
  \/ /\ \/ /\ Accept
           /\ \E h \in Handshakes : AuthMiddleware("push", h)
           /\ GetHashes(p)
        \/ Return(p) /\ UNCHANGED requests
     /\ Settle
     /\ UNCHANGED <<pullVars, submitVars, healthVars>>

PullHandler(q) ==
  /\ PullStep(q) \/ (Calling(q) /\ UNCHANGED pullVars)
  /\ UNCHANGED <<pushVars, submitVars, healthVars, requests, settled>>

PullRoute(q) ==
  \/ PullHandler(q)
  \/ /\ (Accept /\ PullRequest(q)) \/ (PullReturn(q) /\ UNCHANGED requests)
     /\ UNCHANGED <<pushVars, submitVars, healthVars, settled>>

SubmitHandler(w) ==
  /\ SubmitStep(w) \/ (Calling(w) /\ UNCHANGED submitVars)
  /\ UNCHANGED <<pushVars, pullVars, healthVars, requests, settled>>

SubmitRoute(w) ==
  \/ SubmitHandler(w)
  \/ /\ \/ Accept /\ (SubmitRequest(w) \/ SubmitRefused(w))
        \/ SubmitReturn(w) /\ UNCHANGED requests
     /\ UNCHANGED <<pushVars, pullVars, healthVars, settled>>

HealthHandler(m) ==
  /\ HealthStep(m) \/ (Calling(m) /\ UNCHANGED healthVars)
  /\ UNCHANGED <<pushVars, pullVars, submitVars, requests, settled>>

HealthRoute(m) ==
  \/ HealthHandler(m)
  \/ /\ (Accept /\ HealthRequest(m)) \/ (HealthReturn(m) /\ UNCHANGED requests)
     /\ UNCHANGED <<pushVars, pullVars, submitVars, settled>>

\* The container is restarted: no request survives.
Restart ==
  /\ Crash
  /\ PullReset(Pullers) /\ SubReset(Submitters) /\ HealthReset(Monitors)
  /\ UNCHANGED <<pullDir, subDirs, submitted, requests>>
  /\ Settle

Eviction ==
  EvictItem /\ UNCHANGED <<pullVars, submitVars, healthVars, requests, settled>>

BundlerInit ==
  /\ PushInit
  /\ PullInit
  /\ SubmitInit
  /\ HealthInit
  /\ requests = 0
  /\ settled = NoFiles

BundlerNext ==
  \/ \E p \in Pushers : PushRoute(p)
  \/ \E q \in Pullers : PullRoute(q)
  \/ \E w \in Submitters : SubmitRoute(w)
  \/ \E m \in Monitors : HealthRoute(m)
  \/ Eviction
  \/ Restart

BundlerSpec == BundlerInit /\ [][BundlerNext]_bundlerVars

\* The goroutine of a request keeps running until its handler returns.
FairBundlerSpec ==
  /\ BundlerSpec
  /\ \A p \in Pushers : WF_bundlerVars(PushHandler(p))
  /\ \A q \in Pullers : WF_bundlerVars(PullHandler(q))
  /\ \A w \in Submitters : WF_bundlerVars(SubmitHandler(w))
  /\ \A m \in Monitors : WF_bundlerVars(HealthHandler(m))

-----------------------------------------------------------------------------
(* Properties.                                                             *)

\* The types of the variables of all routes.
BundlerTypeOK ==
  /\ PushTypeOK
  /\ PullTypeOK
  /\ SubmitTypeOK
  /\ HealthTypeOK
  /\ requests \in 0 .. MaxRequests
  /\ settled \in Listings

\* No pull and no submission leaves a temporary directory behind once it is
\* answered, whatever failed on the way.
TempDirsRemoved ==
  /\ \A q \in Pullers : pullAt[q] = "done" => ~pullDir[q]
  /\ \A w \in Submitters : subAt[w] = "done" => subDirs[w] = {}

Snapshots == {x[1] : x \in submitted}

Untouched(s) ==
  /\ rows'[s] = rows[s]
  /\ \A k \in Keys : k[1] = s => s3'[k] = s3[k]

SnapshotFooter(x) == s3[prefixed(x[1], SnapshotFooterFile(x[2]))]

\* "We need to run this against the app files, which is fine because they're
\* identical" (submit.go:56): a submission that was answered with success is one
\* version of the app.  Every row it has names a file that was copied for it,
\* and its footer was built from exactly these rows and their Siphonfile.
SubmissionWhole ==
  \A x \in submitted :
    LET s == x[1]
    IN  /\ \A n \in In(rows[s]) : s3[prefixed(s, rows[s][n])] = rows[s][n]
        /\ SnapshotFooter(x) = [platform |-> x[2], project |-> rows[s],
                                base |-> rows[s][Siphonfile]]

\* "Submission files should not change if the corresponding app is pushed to
\* after it is submitted" (tests/test_submit.py:79): no step of any request, and
\* no fault, changes a row of a submission that was answered with success, or
\* any object under its prefix, be it a file or a footer.
SubmissionFrozen == [][\A s \in Snapshots : Untouched(s)]_bundlerVars

\* "Do a production pull to check that the submit was OK" (tests/test_submit.py):
\* a pull of a submission, for the platform it was made for, delivers its assets
\* and the footer built from the same files.
ProductionPullWhole ==
  \A q \in Pullers :
    Pulled(q) /\ <<pullNs[q], pullPlatform[q]>> \in submitted =>
      /\ assetFiles[q] = Matching(rows[pullNs[q]], AssetNames)
      /\ footer[q].project = rows[pullNs[q]]
      /\ footer[q].platform = pullPlatform[q]

\* writeBundleFooter is asked for the footer of a platform, and the old-style
\* footer it falls back to is that of a "user [who] may have pushed their app
\* before Android support" (pull.go:112): an iOS client gets no Android footer.
PullServesPlatform ==
  \A q \in Pullers :
    Pulled(q) /\ pullPlatform[q] = "ios" => footer[q].platform = "ios"

\* "for Uptime Robot to check real uptime" (healthcheck.go:9): a check that
\* passes has seen an app with rows and its file in S3, and one that raises the
\* alarm when no service has failed has seen one of them missing.
HealthcheckTruthful ==
  \A m \in Monitors :
    LET up == rows[Dev] # NoFiles /\ s3[FileKey(Probe)] # None
    IN  hcAt[m] = "done" =>
          /\ verdict[m] = "passed" => up
          /\ verdict[m] = "alarm" /\ faults = 0 => ~up

\* Every request that is under way is answered, unless a restart cuts it off.
RequestsAnswered ==
  /\ PushAnswered
  /\ \A q \in Pullers : pullAt[q] = "check" ~> pullAt[q] \in {"done", "idle"}
  /\ \A w \in Submitters : subAt[w] = "exists" ~> subAt[w] \in {"done", "idle"}
  /\ \A m \in Monitors : hcAt[m] = "hashes" ~> hcAt[m] \in {"done", "idle"}

-----------------------------------------------------------------------------
(* The atomic store the routes implement for clients that do not overlap.  *)

LastReply ==
  IF \E p \in Pushers : pc[p] = "done"
  THEN LET p == CHOOSE p \in Pushers : pc[p] = "done"
       IN  <<IF Succeeded(p) THEN "ok" ELSE "failed", listing[p]>>
  ELSE None

Store == INSTANCE AppStore WITH
  Assets <- LAMBDA f : Matching(f, AssetNames),
  Clients <- Pullers,
  app <- settled,
  reply <- LastReply,
  frozen <- [s \in Subs |-> IF s \in Snapshots THEN rows[s] ELSE None],
  seen <- [q \in Pullers |->
             IF Pulled(q) /\ pullNs[q] \in Snapshots \cup {Dev}
             THEN <<pullNs[q], assetFiles[q]>> ELSE None]

\* The routes implement AppStore: a successful push takes effect as a whole, a
\* failed one mixes the app only with the project that was pushed, a submission
\* is the app at one moment, and a pull shows one version.
ImplementsAppStore == Store!Spec
=============================================================================
