---------------------------- MODULE Healthcheck ----------------------------
(***************************************************************************)
(* healthcheck.go: the /healthcheck route, "for Uptime Robot to check real *)
(* uptime of the bundler".  It looks at the app of the model: that the app *)
(* has rows, that one of its files is in S3, and that a copy of that file  *)
(* can be written to and read from the cache.                              *)
(***************************************************************************)
EXTENDS Packager, Sequences

CONSTANTS
  Monitors,   \* the clients that check
  Probe       \* the content of the file that is checked

\* The key is prefixed by hand, and the cache prefixes it once more.
ProbeKey == <<Dev>> \o FileKey(Probe)

ASSUME HealthAssumption ==
  Probe \in Contents /\ ProbeKey \in Keys /\ Domain[ProbeKey] = {Probe}

VARIABLES
  hcAt,      \* where the handler of each monitor is
  attempt,   \* the attempts of S3Wrapper.GetKey that have failed
  verdict    \* what it answered

healthVars == <<hcAt, attempt, verdict>>

HealthGoto(m, l) == hcAt' = [hcAt EXCEPT ![m] = l]

HealthFinish(m, v) ==
  HealthGoto(m, "done") /\ verdict' = [verdict EXCEPT ![m] = v]

HealthRequest(m) ==
  /\ hcAt[m] = "idle"
  /\ HealthGoto(m, "hashes")
  /\ UNCHANGED <<cacheVars, rows, attempt, verdict>>

\* Mutated form of CheckHashes: that there are hashes is not checked.
CheckHashesUnread(m) ==
  /\ hcAt[m] = "hashes"
  /\ \E f \in Listings : GetFiles(Dev, f)
  /\ HealthGoto(m, "s3")
  /\ UNCHANGED <<s3, mc, call, rows, attempt, verdict>>

\* MakeJSONHashes, and "Hashes error" when it fails or finds none.
CheckHashes(m) ==
  /\ hcAt[m] = "hashes"
  /\ \E f \in Listings :
       /\ GetFiles(Dev, f)
       /\ \/ f # NoFiles /\ HealthGoto(m, "s3") /\ UNCHANGED verdict
          \/ f = NoFiles /\ HealthFinish(m, "alarm")
  /\ UNCHANGED <<s3, mc, call, rows, attempt>>

\* "Check S3", without memcached, and "Write to the cache".
CheckS3(m) ==
  /\ hcAt[m] = "s3"
  /\ s3[FileKey(Probe)] # None
  /\ BeginSet(m, ProbeKey, s3[FileKey(Probe)])
  /\ HealthGoto(m, "set")
  /\ UNCHANGED <<s3, mc, faults, rows, attempt, verdict>>

\* Mutated form of CheckS3Fails: the attempts are not counted.
CheckS3Stuck(m) ==
  /\ hcAt[m] = "s3"
  /\ (s3[FileKey(Probe)] = None /\ NoFault) \/ Fault("s3")
  /\ HealthGoto(m, "s3")
  /\ UNCHANGED <<s3, mc, call, rows, attempt, verdict>>

\* Mutated form of CheckS3Fails: one attempt too many.
CheckS3OneMore(m) ==
  /\ hcAt[m] = "s3"
  /\ (s3[FileKey(Probe)] = None /\ NoFault) \/ Fault("s3")
  /\ attempt' = [attempt EXCEPT ![m] = @ + 1]
  /\ IF attempt[m] < MaxAttempts
     THEN UNCHANGED <<hcAt, verdict>>
     ELSE HealthFinish(m, "alarm")
  /\ UNCHANGED <<s3, mc, call, rows>>

CheckS3Fails(m) ==
  /\ hcAt[m] = "s3"
  /\ (s3[FileKey(Probe)] = None /\ NoFault) \/ Fault("s3")
  /\ attempt' = [attempt EXCEPT ![m] = @ + 1]
  /\ IF attempt[m] + 1 < MaxAttempts
     THEN UNCHANGED <<hcAt, verdict>>
     ELSE HealthFinish(m, "alarm")
  /\ UNCHANGED <<s3, mc, call, rows>>

\* "Read from the cache".
CheckCache(m) ==
  /\ hcAt[m] = "set" /\ call[m].at = "ok"
  /\ BeginGet(m, ProbeKey)
  /\ HealthGoto(m, "get")
  /\ UNCHANGED <<s3, mc, faults, rows, attempt, verdict>>

HealthPassed(m) ==
  /\ hcAt[m] = "get" /\ call[m].at = "ok"
  /\ Hangup(m)
  /\ HealthFinish(m, "passed")
  /\ UNCHANGED <<s3, mc, faults, rows, attempt>>

CheckCacheFails(m) ==
  /\ hcAt[m] \in {"set", "get"} /\ call[m].at = "err"
  /\ Hangup(m)
  /\ HealthFinish(m, "alarm")
  /\ UNCHANGED <<s3, mc, faults, rows, attempt>>

\* The state of the monitors in M is gone.
HealthReset(M) ==
  LET Blank(f, v) == [m \in Monitors |-> IF m \in M THEN v ELSE f[m]]
  IN  /\ hcAt' = Blank(hcAt, "idle")
      /\ attempt' = Blank(attempt, 0)
      /\ verdict' = Blank(verdict, "none")

HealthReturn(m) ==
  /\ hcAt[m] = "done"
  /\ HealthReset({m})
  /\ UNCHANGED <<cacheVars, rows>>

HealthStep(m) ==
  \/ CheckHashes(m) \/ CheckS3(m) \/ CheckS3Fails(m)
  \/ CheckCache(m) \/ HealthPassed(m) \/ CheckCacheFails(m)

HealthInit ==
  /\ hcAt = [m \in Monitors |-> "idle"]
  /\ attempt = [m \in Monitors |-> 0]
  /\ verdict = [m \in Monitors |-> "none"]

\* The types of the variables of a check.
HealthTypeOK ==
  /\ hcAt \in [Monitors -> {"idle", "hashes", "s3", "set", "get", "done"}]
  /\ attempt \in [Monitors -> 0 .. MaxAttempts]
  /\ verdict \in [Monitors -> {"none", "passed", "alarm"}]
=============================================================================
