------------------------------- MODULE Cache -------------------------------
(***************************************************************************)
(* cache.go and s3.go: the two-level store of an app's files and bundle    *)
(* footers, memcached in front of S3.                                      *)
(*                                                                         *)
(* Every request goroutine p has at most one call to the cache under way,  *)
(* call[p].  One step of a call is one message to S3 or to memcached, so   *)
(* the calls of several goroutines interleave between those messages.  A   *)
(* call ends at "ok" or "err" and stays there until its caller takes the   *)
(* answer.                                                                 *)
(***************************************************************************)
EXTENDS Common

CONSTANTS
  Procs,        \* the goroutines that use the cache
  Keys,         \* full keys, already prefixed
  Domain,       \* Domain[k]: the values callers write at key k
  Memcached,    \* FALSE when SIPHON_ENV is "testing": there is no memcached
  MaxAttempts   \* maxAttempts of s3.go

Values == UNION {Domain[k] : k \in Keys}

ASSUME CacheAssumption ==
  /\ None \notin Keys
  /\ None \notin Values
  /\ Memcached \in BOOLEAN
  /\ MaxAttempts \in Nat \ {0}

VARIABLES
  s3,     \* s3[k]: the object at key k of the bucket, or None
  mc,     \* mc[k]: the memcached item at key k, or None
  call    \* call[p]: the call goroutine p is in

cacheVars == <<s3, mc, call, faults>>

\* Cache.prefixed: no ID or key holds a "/", so the joined string is the pair.
\* The app ID is left out: every key of a model belongs to the same app.
prefixed(submissionID, key) == <<submissionID, key>>

NoCall ==
  [op |-> "none", at |-> "idle", key |-> None, val |-> None, tries |-> 0]

Answered(p) == call[p].at \in {"ok", "err"}

-----------------------------------------------------------------------------
(* Starting a call.                                                        *)

Begin(p, op, at, k, v) ==
  call' = [call EXCEPT ![p] =
             [op |-> op, at |-> at, key |-> k, val |-> v, tries |-> 0]]

\* Cache.Get, Cache.Set and Cache.Delete.
BeginGet(p, k) == Begin(p, "get", IF Memcached THEN "mcget" ELSE "s3get", k, None)

BeginSet(p, k, v) == Begin(p, "set", "s3put", k, v)

BeginDelete(p, k) == Begin(p, "delete", "s3del", k, None)

\* The caller has taken the answer.
Hangup(p) == call' = [call EXCEPT ![p] = NoCall]

-----------------------------------------------------------------------------
(* The steps of a call.                                                    *)

Move(p, at, v, tries) ==
  call' = [call EXCEPT ![p] =
             [op |-> call[p].op, at |-> at, key |-> call[p].key,
              val |-> v, tries |-> tries]]

\* Where a call goes once S3 has answered it: on to memcached, if there is one.
AfterS3(at) == IF Memcached THEN at ELSE "ok"

\* Mutated forms of Retry: one attempt too many, one too few, no limit.
RetryOneMore(p) ==
  LET n == call[p].tries + 1
  IN  Move(p, IF n <= MaxAttempts THEN call[p].at ELSE "err", call[p].val, n)

RetryOneLess(p) ==
  LET n == call[p].tries + 1
  IN  Move(p, IF n < MaxAttempts - 1 THEN call[p].at ELSE "err", call[p].val, n)

RetryForever(p) == Move(p, call[p].at, call[p].val, call[p].tries)

\* The loop of WriteKey, DeleteKey and GetKey after an attempt that failed.
Retry(p) ==
  LET n == call[p].tries + 1
  IN  Move(p, IF n < MaxAttempts THEN call[p].at ELSE "err", call[p].val, n)

\* Mutated form of McHit: the miss is not told from a hit.
McHitOrMiss(p) ==
  /\ call[p].at = "mcget"
  /\ Move(p, "ok", mc[call[p].key], 0)
  /\ UNCHANGED <<s3, mc>> /\ NoFault

McHit(p) ==
  /\ call[p].at = "mcget"
  /\ mc[call[p].key] # None
  /\ Move(p, "ok", mc[call[p].key], 0)
  /\ UNCHANGED <<s3, mc>> /\ NoFault

McMiss(p) ==
  /\ call[p].at = "mcget"
  /\ mc[call[p].key] = None
  /\ Move(p, "s3get", None, 0)
  /\ UNCHANGED <<s3, mc>> /\ NoFault

\* Any memcached error other than ErrCacheMiss ends the Get.
McGetFails(p) ==
  /\ call[p].at = "mcget"
  /\ Fault("memcached")
  /\ Move(p, "err", None, 0)
  /\ UNCHANGED <<s3, mc>>

S3Get(p) ==
  /\ call[p].at = "s3get"
  /\ s3[call[p].key] # None
  /\ Move(p, AfterS3("fill"), s3[call[p].key], 0)
  /\ UNCHANGED <<s3, mc>> /\ NoFault

\* An absent key is an error like any other, and is retried like any other.
S3GetFails(p) ==
  /\ call[p].at = "s3get"
  /\ (s3[call[p].key] = None /\ NoFault) \/ Fault("s3")
  /\ Retry(p)
  /\ UNCHANGED <<s3, mc>>

\* cacheMiss persists what S3 returned in memcached.
Fill(p) ==
  /\ call[p].at = "fill"
  /\ mc' = [mc EXCEPT ![call[p].key] = call[p].val]
  /\ Move(p, "ok", call[p].val, 0)
  /\ UNCHANGED s3 /\ NoFault

\* An error of memcached's set drops the value S3 returned.  The item may
\* have been stored all the same.
FillFails(p) ==
  /\ call[p].at = "fill"
  /\ Fault("memcached")
  /\ mc' \in {mc, [mc EXCEPT ![call[p].key] = call[p].val]}
  /\ Move(p, "err", None, 0)
  /\ UNCHANGED s3

S3Put(p) ==
  /\ call[p].at = "s3put"
  /\ s3' = [s3 EXCEPT ![call[p].key] = call[p].val]
  /\ Move(p, AfterS3("mcset"), call[p].val, 0)
  /\ UNCHANGED mc /\ NoFault

\* A Put that reports an error may have been carried out.
S3PutFails(p) ==
  /\ call[p].at = "s3put"
  /\ Fault("s3")
  /\ s3' \in {s3, [s3 EXCEPT ![call[p].key] = call[p].val]}
  /\ Retry(p)
  /\ UNCHANGED mc

McSet(p) ==
  /\ call[p].at = "mcset"
  /\ mc' = [mc EXCEPT ![call[p].key] = call[p].val]
  /\ Move(p, "ok", call[p].val, 0)
  /\ UNCHANGED s3 /\ NoFault

McSetFails(p) ==
  /\ call[p].at = "mcset"
  /\ Fault("memcached")
  /\ mc' \in {mc, [mc EXCEPT ![call[p].key] = call[p].val]}
  /\ Move(p, "err", call[p].val, 0)
  /\ UNCHANGED s3

\* Bucket.Del reads no status code: a refused delete is a success to it.
S3Del(p) ==
  /\ call[p].at = "s3del"
  /\ \/ s3' = [s3 EXCEPT ![call[p].key] = None] /\ NoFault
     \/ UNCHANGED s3 /\ Fault("s3")
  /\ Move(p, AfterS3("mcdel"), None, 0)
  /\ UNCHANGED mc

S3DelFails(p) ==
  /\ call[p].at = "s3del"
  /\ Fault("s3")
  /\ s3' \in {s3, [s3 EXCEPT ![call[p].key] = None]}
  /\ Retry(p)
  /\ UNCHANGED mc

\* Mutated form of McDel: memcached is not asked.
McDelKeeps(p) ==
  /\ call[p].at = "mcdel"
  /\ Move(p, "ok", None, 0)
  /\ UNCHANGED <<s3, mc>> /\ NoFault

\* ErrCacheMiss is no error here: the item need not be there.
McDel(p) ==
  /\ call[p].at = "mcdel"
  /\ mc' = [mc EXCEPT ![call[p].key] = None]
  /\ Move(p, "ok", None, 0)
  /\ UNCHANGED s3 /\ NoFault

McDelFails(p) ==
  /\ call[p].at = "mcdel"
  /\ Fault("memcached")
  /\ mc' \in {mc, [mc EXCEPT ![call[p].key] = None]}
  /\ Move(p, "err", None, 0)
  /\ UNCHANGED s3

GetStep(p) ==
  \/ McHit(p) \/ McMiss(p) \/ McGetFails(p)
  \/ S3Get(p) \/ S3GetFails(p)
  \/ Fill(p) \/ FillFails(p)

SetStep(p) == S3Put(p) \/ S3PutFails(p) \/ McSet(p) \/ McSetFails(p)

DeleteStep(p) == S3Del(p) \/ S3DelFails(p) \/ McDel(p) \/ McDelFails(p)

CacheStep(p) == GetStep(p) \/ SetStep(p) \/ DeleteStep(p)

\* memcached (-m 128) drops items to make room, and all of them on a restart.
Evict(k) ==
  /\ mc[k] # None
  /\ Fault("evict")
  /\ mc' = [mc EXCEPT ![k] = None]
  /\ UNCHANGED <<s3, call>>

CacheInit ==
  /\ s3 = [k \in Keys |-> None]
  /\ mc = [k \in Keys |-> None]
  /\ call = [p \in Procs |-> NoCall]
  /\ faults = 0

-----------------------------------------------------------------------------
(* The cache on its own, with callers that make any call at any time.      *)

Ask(p) ==
  /\ call[p] = NoCall
  /\ \E k \in Keys :
       \/ BeginGet(p, k)
       \/ BeginDelete(p, k)
       \/ \E v \in Domain[k] : BeginSet(p, k, v)
  /\ UNCHANGED <<s3, mc, faults>>

Take(p) ==
  /\ Answered(p)
  /\ Hangup(p)
  /\ UNCHANGED <<s3, mc, faults>>

CacheNext ==
  \/ \E p \in Procs : Ask(p) \/ CacheStep(p) \/ Take(p)
  \/ \E k \in Keys : Evict(k)

CacheSpec == CacheInit /\ [][CacheNext]_cacheVars

\* A goroutine in a call keeps running; whether it makes a call is its own
\* affair.
FairCacheSpec == CacheSpec /\ \A p \in Procs : WF_cacheVars(CacheStep(p))

-----------------------------------------------------------------------------
(* Properties.                                                             *)

Calls ==
  [op    : {"none", "get", "set", "delete"},
   at    : {"idle", "mcget", "s3get", "fill", "s3put", "mcset", "s3del",
            "mcdel", "ok", "err"},
   key   : Keys \cup {None},
   val   : Values \cup {None},
   tries : 0 .. MaxAttempts]

\* The types of the variables.  The bound on tries is the code's: no S3
\* operation makes more than maxAttempts attempts.
CacheTypeOK ==
  /\ s3 \in [Keys -> Values \cup {None}]
  /\ mc \in [Keys -> Values \cup {None}]
  /\ call \in [Procs -> Calls]
  /\ faults \in 0 .. MaxFaults

\* Whatever the interleaving and whatever fails, a key of S3 or memcached
\* holds only values written at that key, and a Get that succeeds returns one
\* of them, never nil.  For a key that is a SHA-256, where Domain[k] is the one
\* content with that hash, Get returns that content.
OwnValues ==
  /\ \A k \in Keys : {s3[k], mc[k]} \subseteq Domain[k] \cup {None}
  /\ \A p \in Procs :
       call[p].op = "get" /\ call[p].at = "ok" => call[p].val \in Domain[call[p].key]

\* The retries of s3.go: a Set or a Delete that S3 made fail has had maxAttempts
\* faults, and one that S3 did not fail only fails by a fault of memcached.
RetriesMaskFaults ==
  \A p \in Procs :
    call[p].op \in {"set", "delete"} /\ call[p].at = "err" =>
      IF call[p].tries > 0
      THEN faults >= MaxAttempts
      ELSE faults >= 1 /\ "memcached" \in FaultKinds

Quiet == \A p \in Procs : call[p].at \in {"idle", "ok", "err"}

\* "Set() updates both memcache and S3" (cache.go:14) and "Delete removes the
\* key in both S3 and memcache" (cache.go:113): when no call is under way, an
\* item in memcached is the object S3 holds.
CacheCoherent ==
  Quiet => \A k \in Keys : mc[k] \in {s3[k], None}

\* Every call is answered: no retry loop runs forever.
CallsReturn ==
  \A p \in Procs : call[p].at # "idle" ~> (Answered(p) \/ call[p].at = "idle")
=============================================================================
