----------------------------- MODULE PushProofs -----------------------------
(***************************************************************************)
(* Proofs about the cache, for any number of goroutines, keys and faults,  *)
(* and about /push, for any number of clients, names, contents, projects   *)
(* and faults.                                                             *)
(***************************************************************************)
EXTENDS Push, TLAPS

-----------------------------------------------------------------------------
(* The cache.                                                              *)

\* What the fields of a call say at each of its steps.
CallOK(p) ==
  LET c == call[p]
  IN  /\ c.at # "idle" => c.key \in Keys
      /\ c.at \in {"mcget", "s3get", "fill"} => c.op = "get"
      /\ c.at \in {"s3put", "mcset"} => c.op = "set"
      /\ c.at \in {"s3del", "mcdel"} => c.op = "delete"
      /\ c.at \in {"fill", "s3put", "mcset"} => c.val \in Domain[c.key]
      /\ c.at = "idle" => c.op = "none"
      /\ c.op = "get" /\ c.at = "ok" => c.val \in Domain[c.key]
      /\ c.at \in {"s3get", "s3put", "s3del"} => c.tries < MaxAttempts
      /\ c.op \in {"set", "delete"} => c.tries <= faults
      /\ c.op \in {"set", "delete"} /\ c.at = "err" =>
           \/ c.tries = MaxAttempts
           \/ c.tries = 0 /\ "memcached" \in FaultKinds /\ faults >= 1

\* The inductive invariant: types, the keys' own values, and consistent calls.
CacheInv ==
  /\ CacheTypeOK
  /\ \A k \in Keys : s3[k] \in Domain[k] \cup {None} /\ mc[k] \in Domain[k] \cup {None}
  /\ \A p \in Procs : CallOK(p)

USE DEF Fault, NoFault, Move, Begin

\* A value some key accepts is a value.
LEMMA DomainValues == \A k \in Keys : Domain[k] \subseteq Values
  BY Zenon DEF Values

\* The initial state of the cache satisfies the invariant.
LEMMA CacheInitInv == CacheInit => CacheInv
  BY FaultAssumption, CacheAssumption, SMTT(30)
     DEF CacheInit, CacheInv, CacheTypeOK, CallOK, NoCall, Calls

\* The number of faults has not gone down, nor beyond its bound.
FaultsGrow == faults' \in faults .. MaxFaults

\* The invariant survives a fault outside the cache.
LEMMA FaultInv ==
  ASSUME CacheInv, UNCHANGED <<s3, mc, call>>, FaultsGrow
  PROVE  CacheInv'
  BY FaultAssumption, SMTT(30) DEF FaultsGrow, CacheInv, CacheTypeOK, CallOK, Calls

\* Starting a call keeps the invariant, whoever the caller is.
LEMMA BeginInv ==
  ASSUME CacheInv, UNCHANGED <<s3, mc>>, FaultsGrow, NEW p \in Procs, NEW k \in Keys,
         \/ BeginGet(p, k) \/ BeginDelete(p, k)
         \/ \E v \in Domain[k] : BeginSet(p, k, v)
  PROVE  CacheInv'
  BY DomainValues, FaultAssumption, CacheAssumption, SMTT(30)
     DEF BeginGet, BeginSet, BeginDelete, FaultsGrow, CacheInv, CacheTypeOK, CallOK,
         Calls

\* So does taking an answer.
LEMMA HangupInv ==
  ASSUME CacheInv, UNCHANGED <<s3, mc>>, FaultsGrow, NEW p \in Procs, Hangup(p)
  PROVE  CacheInv'
  BY FaultAssumption, CacheAssumption, SMTT(30)
     DEF Hangup, NoCall, FaultsGrow, CacheInv, CacheTypeOK, CallOK, Calls

\* A step of Get keeps the invariant.
LEMMA GetStepInv ==
  ASSUME CacheInv, NEW p \in Procs, GetStep(p)
  PROVE  CacheInv'
<1> USE DomainValues, FaultAssumption, CacheAssumption
    DEF CacheInv, CacheTypeOK, CallOK, Calls
<1>1. CASE McHit(p)
  BY <1>1, SMTT(30) DEF McHit
<1>2. CASE McMiss(p)
  BY <1>2, SMTT(30) DEF McMiss
<1>3. CASE McGetFails(p)
  BY <1>3, SMTT(30) DEF McGetFails
<1>4. CASE S3Get(p)
  BY <1>4, SMTT(30) DEF S3Get, AfterS3
<1>5. CASE S3GetFails(p)
  BY <1>5, SMTT(30) DEF S3GetFails, Retry
<1>6. CASE Fill(p)
  BY <1>6, SMTT(30) DEF Fill
<1>7. CASE FillFails(p)
  BY <1>7, SMTT(30) DEF FillFails
<1> QED
  BY <1>1, <1>2, <1>3, <1>4, <1>5, <1>6, <1>7, Zenon DEF GetStep

\* A step of Set keeps the invariant.
LEMMA SetStepInv ==
  ASSUME CacheInv, NEW p \in Procs, SetStep(p)
  PROVE  CacheInv'
<1> USE DomainValues, FaultAssumption, CacheAssumption
    DEF CacheInv, CacheTypeOK, CallOK, Calls
<1>1. CASE S3Put(p)
  BY <1>1, SMTT(30) DEF S3Put, AfterS3
<1>2. CASE S3PutFails(p)
  <2>1. CacheTypeOK'
    BY <1>2, SMTT(30) DEF S3PutFails, Retry
  <2>2. \A k \in Keys : s3'[k] \in Domain[k] \cup {None} /\ mc'[k] \in Domain[k] \cup {None}
    BY <1>2, SMTT(30) DEF S3PutFails
  <2>3. \A q \in Procs : CallOK(q)'
    BY <1>2, SMTT(30) DEF S3PutFails, Retry
  <2> QED
    BY <2>1, <2>2, <2>3, Zenon
<1>3. CASE McSet(p)
  BY <1>3, SMTT(30) DEF McSet
<1>4. CASE McSetFails(p)
  BY <1>4, SMTT(30) DEF McSetFails
<1> QED
  BY <1>1, <1>2, <1>3, <1>4, Zenon DEF SetStep

\* A step of Delete keeps the invariant.
LEMMA DeleteStepInv ==
  ASSUME CacheInv, NEW p \in Procs, DeleteStep(p)
  PROVE  CacheInv'
<1> USE DomainValues, FaultAssumption, CacheAssumption
    DEF CacheInv, CacheTypeOK, CallOK, Calls
<1>1. CASE S3Del(p)
  BY <1>1, SMTT(30) DEF S3Del, AfterS3
<1>2. CASE S3DelFails(p)
  <2>1. CacheTypeOK'
    BY <1>2, SMTT(30) DEF S3DelFails, Retry
  <2>2. \A k \in Keys : s3'[k] \in Domain[k] \cup {None} /\ mc'[k] \in Domain[k] \cup {None}
    BY <1>2, SMTT(30) DEF S3DelFails
  <2>3. \A q \in Procs : CallOK(q)'
    BY <1>2, SMTT(30) DEF S3DelFails, Retry
  <2> QED
    BY <2>1, <2>2, <2>3, Zenon
<1>3. CASE McDel(p)
  BY <1>3, SMTT(30) DEF McDel
<1>4. CASE McDelFails(p)
  BY <1>4, SMTT(30) DEF McDelFails
<1> QED
  BY <1>1, <1>2, <1>3, <1>4, Zenon DEF DeleteStep

\* Every step of a call keeps the invariant.
LEMMA CacheStepInv ==
  ASSUME CacheInv, NEW p \in Procs, CacheStep(p)
  PROVE  CacheInv'
  BY GetStepInv, SetStepInv, DeleteStepInv, Zenon DEF CacheStep

\* So does an eviction.
LEMMA EvictInv ==
  ASSUME CacheInv, NEW k \in Keys, Evict(k)
  PROVE  CacheInv'
  BY FaultAssumption, CacheAssumption, SMTT(30)
     DEF Evict, CacheInv, CacheTypeOK, CallOK, Calls

\* The invariant depends on the cache's variables only.
LEMMA CacheStutterInv ==
  ASSUME CacheInv, UNCHANGED cacheVars
  PROVE  CacheInv'
  BY Zenon DEF cacheVars, CacheInv, CacheTypeOK, CallOK, Calls

\* Every step of the cache and its callers keeps the invariant.
LEMMA CacheNextInv == CacheInv /\ [CacheNext]_cacheVars => CacheInv'
<1> SUFFICES ASSUME CacheInv, [CacheNext]_cacheVars
             PROVE  CacheInv'
  BY Zenon
<1>0. UNCHANGED faults => FaultsGrow
  BY FaultAssumption DEF FaultsGrow, CacheInv, CacheTypeOK
<1>1. ASSUME NEW p \in Procs, Ask(p)
      PROVE  CacheInv'
  BY <1>0, <1>1, BeginInv, Zenon DEF Ask
<1>2. ASSUME NEW p \in Procs, Take(p)
      PROVE  CacheInv'
  BY <1>0, <1>2, HangupInv, Zenon DEF Take
<1> QED
  BY <1>1, <1>2, CacheStepInv, EvictInv, CacheStutterInv, Zenon DEF CacheNext

\* The invariant holds in every reachable state.
THEOREM CacheInvariant == CacheSpec => []CacheInv
  BY CacheInitInv, CacheNextInv, PTL DEF CacheSpec

\* The variables keep their types; in particular no S3 operation of s3.go is
\* attempted more than maxAttempts times.
THEOREM CacheTypes == CacheSpec => []CacheTypeOK
<1>1. CacheInv => CacheTypeOK
  BY Zenon DEF CacheInv
<1> QED
  BY <1>1, CacheInvariant, PTL

\* Under any interleaving and any faults, S3 and memcached hold at a key only
\* values written at it, and a successful Get returns one of them.
THEOREM CacheOwnValues == CacheSpec => []OwnValues
<1>1. CacheInv => OwnValues
  BY Zenon DEF CacheInv, OwnValues, CallOK
<1> QED
  BY <1>1, CacheInvariant, PTL

\* WriteKey and DeleteKey report an error only after maxAttempts failed
\* attempts, so fewer faults of S3 than that never reach a caller of Set or
\* Delete.
THEOREM CacheRetries == CacheSpec => []RetriesMaskFaults
<1>1. CacheInv => RetriesMaskFaults
  BY CacheAssumption, FaultAssumption, SMTT(30)
     DEF CacheInv, CallOK, RetriesMaskFaults, CacheTypeOK, Calls
<1> QED
  BY <1>1, CacheInvariant, PTL

-----------------------------------------------------------------------------
(* Coherence of a cache that one goroutine uses.                           *)

\* Between the S3 message and the memcached message of a Set or a Delete, and
\* only there, memcached may disagree with S3, and only at the call's own key;
\* a fill writes what S3 still holds.  Without memcached there are no items.
SerialInv ==
  /\ \A k \in Keys :
       \/ mc[k] \in {s3[k], None}
       \/ \E p \in Procs : call[p].at \in {"mcset", "mcdel"} /\ call[p].key = k
  /\ \A p \in Procs :
       /\ call[p].at \in {"fill", "mcset"} => s3[call[p].key] = call[p].val
       /\ call[p].at = "mcdel" => s3[call[p].key] = None
       /\ call[p].at \in {"fill", "mcset", "mcdel"} => Memcached
  /\ ~Memcached => \A k \in Keys : mc[k] = None

\* A single goroutine, with neither S3 nor memcached failing, keeps memcached
\* equal to S3 between calls, whatever memcached evicts: this is the sense in
\* which cache.go's "Set() updates both memcache and S3" is true.
THEOREM SerialCoherence ==
  ASSUME \A p, q \in Procs : p = q,
         "s3" \notin FaultKinds, "memcached" \notin FaultKinds
  PROVE  CacheSpec => []CacheCoherent
<1>1. CacheInit => SerialInv
  BY DEF CacheInit, SerialInv, NoCall
<1>2. ASSUME CacheInv, SerialInv, [CacheNext]_cacheVars
      PROVE  SerialInv'
  <2>0. /\ DOMAIN call = Procs /\ DOMAIN s3 = Keys /\ DOMAIN mc = Keys
        /\ \A p \in Procs : CallOK(p)
    BY <1>2, Zenon DEF CacheInv, CacheTypeOK
  <2>a. ASSUME NEW p \in Procs, call[p].at \notin {"mcset", "mcdel"}, UNCHANGED <<s3, mc>>,
               \/ call'[p].at \notin {"fill", "mcset", "mcdel"}
               \/ call'[p].at = "fill" /\ Memcached /\ s3[call'[p].key] = call'[p].val
        PROVE  SerialInv'
    <3>1. \A k \in Keys : mc[k] \in {s3[k], None}
      BY <1>2, <2>a, Zenon DEF SerialInv
    <3>2. ~Memcached => \A k \in Keys : mc[k] = None
      BY <1>2, Zenon DEF SerialInv
    <3>3. \A q \in Procs : q = p
      BY Zenon
    <3> QED
      BY <2>a, <3>1, <3>2, <3>3, Zenon DEF SerialInv
  <2>b. ASSUME NEW p \in Procs, call'[p].at \notin {"fill", "mcset", "mcdel"},
               \A k \in Keys : mc'[k] \in {s3'[k], None} /\ (~Memcached => mc'[k] = None)
        PROVE  SerialInv'
    <3>1. \A q \in Procs : q = p
      BY Zenon
    <3> QED
      BY <2>b, <3>1, Zenon DEF SerialInv
  <2>1. ASSUME NEW p \in Procs, Ask(p)
        PROVE  SerialInv'
    <3>1. call[p].at = "idle" /\ UNCHANGED <<s3, mc>>
      BY <2>1 DEF Ask, NoCall
    <3>2. call'[p].at \in {"mcget", "s3get", "s3put", "s3del"}
      BY <2>0, <2>1 DEF Ask, BeginGet, BeginSet, BeginDelete
    <3> QED
      BY <2>a, <3>1, <3>2, Zenon
  <2>2. ASSUME NEW p \in Procs, Take(p)
        PROVE  SerialInv'
    <3>1. call[p].at \in {"ok", "err"} /\ UNCHANGED <<s3, mc>> /\ call'[p].at = "idle"
      BY <2>0, <2>2, Zenon DEF Take, Answered, Hangup, NoCall
    <3> QED
      BY <2>a, <3>1, Zenon
  <2>3. ASSUME NEW p \in Procs, McHit(p) \/ McMiss(p) \/ S3GetFails(p)
        PROVE  SerialInv'
    <3>1. /\ call[p].at \in {"mcget", "s3get"} /\ UNCHANGED <<s3, mc>>
          /\ call'[p].at \in {"ok", "s3get", "err"}
      BY <2>0, <2>3 DEF McHit, McMiss, S3GetFails, Retry
    <3> QED
      BY <2>a, <3>1, Zenon
  <2>4. ASSUME NEW p \in Procs, S3Get(p)
        PROVE  SerialInv'
    <3>1. call[p].at = "s3get" /\ UNCHANGED <<s3, mc>>
      BY <2>4, Zenon DEF S3Get
    <3>2. /\ call'[p].at = AfterS3("fill")
          /\ call'[p].key = call[p].key /\ call'[p].val = s3[call[p].key]
      BY <2>0, <2>4, Zenon DEF S3Get
    <3> QED
      BY <2>a, <3>1, <3>2, Zenon DEF AfterS3
  <2>5. ASSUME NEW p \in Procs, Fill(p) \/ McSet(p)
        PROVE  SerialInv'
    <3>1. /\ call[p].at \in {"fill", "mcset"} /\ call[p].key \in Keys
          /\ s3[call[p].key] = call[p].val /\ Memcached
      BY <1>2, <2>0, <2>5, Zenon DEF Fill, McSet, SerialInv, CallOK
    <3>2. /\ UNCHANGED s3 /\ mc' = [mc EXCEPT ![call[p].key] = call[p].val]
          /\ call'[p].at = "ok"
      BY <2>0, <2>5 DEF Fill, McSet
    <3>3. \A k \in Keys : k # call[p].key => mc[k] \in {s3[k], None}
      BY <1>2, Zenon DEF SerialInv
    <3> QED
      BY <2>0, <2>b, <3>1, <3>2, <3>3, Zenon
  <2>6. ASSUME NEW p \in Procs, S3Put(p) \/ S3Del(p)
        PROVE  SerialInv'
    <3> DEFINE v == IF S3Put(p) THEN call[p].val ELSE None
    <3>1. call[p].at \in {"s3put", "s3del"} /\ call[p].key \in Keys
      BY <2>0, <2>6, Zenon DEF S3Put, S3Del, CallOK
    <3>2. /\ UNCHANGED mc /\ s3' = [s3 EXCEPT ![call[p].key] = v]
          /\ call'[p].key = call[p].key /\ call'[p].val = v
          /\ call'[p].at = IF Memcached THEN IF S3Put(p) THEN "mcset" ELSE "mcdel" ELSE "ok"
      BY <2>0, <2>6 DEF S3Put, S3Del, AfterS3
    <3>3. \A k \in Keys : mc[k] \in {s3[k], None} /\ (~Memcached => mc[k] = None)
      BY <1>2, <3>1, Zenon DEF SerialInv
    <3>4. ~S3Put(p) => v = None
      BY Zenon
    <3> HIDE DEF v
    <3>5. /\ \A k \in Keys : k # call[p].key => mc'[k] \in {s3'[k], None}
          /\ s3'[call[p].key] = v
      BY <2>0, <3>1, <3>2, <3>3, Zenon
    <3>6. CASE Memcached
      <4>1. \A q \in Procs : q = p
        BY Zenon
      <4> QED
        BY <3>2, <3>4, <3>5, <3>6, <4>1, Zenon DEF SerialInv
    <3>7. CASE ~Memcached
      BY <2>b, <3>2, <3>3, <3>7, Zenon
    <3> QED
      BY <3>6, <3>7, Zenon
  <2>7. ASSUME NEW p \in Procs, McDel(p)
        PROVE  SerialInv'
    <3>1. call[p].at = "mcdel" /\ call[p].key \in Keys
      BY <2>0, <2>7, Zenon DEF McDel, CallOK
    <3>2. UNCHANGED s3 /\ mc' = [mc EXCEPT ![call[p].key] = None] /\ call'[p].at = "ok"
      BY <2>0, <2>7, Zenon DEF McDel
    <3>3. \A k \in Keys : k # call[p].key =>
              mc[k] \in {s3[k], None} /\ (~Memcached => mc[k] = None)
      BY <1>2, Zenon DEF SerialInv
    <3> QED
      BY <2>0, <2>b, <3>1, <3>2, <3>3, Zenon
  <2>8. ASSUME NEW k \in Keys, Evict(k)
        PROVE  SerialInv'
    <3>1. UNCHANGED <<s3, call>> /\ \A j \in Keys : mc'[j] \in {mc[j], None}
      BY <2>0, <2>8, Zenon DEF Evict
    <3> QED
      BY <1>2, <3>1, Zenon DEF SerialInv
  <2>9. CASE UNCHANGED cacheVars
    BY <1>2, <2>9, Zenon DEF cacheVars, SerialInv
  <2>10. ASSUME NEW p \in Procs, CacheStep(p)
         PROVE  SerialInv'
    BY <2>3, <2>4, <2>5, <2>6, <2>7, <2>10, Zenon
       DEF CacheStep, GetStep, SetStep, DeleteStep, McGetFails, FillFails, S3PutFails, McSetFails,
           S3DelFails, McDelFails
  <2> QED
    BY <1>2, <2>1, <2>2, <2>8, <2>9, <2>10, Zenon DEF CacheNext
<1>3. SerialInv => CacheCoherent
  BY Zenon DEF SerialInv, CacheCoherent, Quiet
<1> QED
  BY <1>1, <1>2, <1>3, CacheInvariant, PTL DEF CacheSpec

-----------------------------------------------------------------------------
(* Facts about single steps that the other proofs rest on.                 *)

\* Without memcached there are no items, and no call is about to write one.
NoItems ==
  ~Memcached =>
    /\ \A k \in Keys : mc[k] = None
    /\ \A x \in Procs : call[x].at \notin {"fill", "mcset", "mcdel"}

\* The steps of a cache call that are about to change S3 or, for a Set or a
\* Delete, memcached.
Writes == {"s3put", "s3del", "mcset", "mcdel"}

\* A step of a call leaves its operation and key, and all other calls, alone.
LEMMA CacheStepKeeps ==
  ASSUME CacheTypeOK, NEW p \in Procs, CacheStep(p)
  PROVE  /\ call'[p].op = call[p].op /\ call'[p].key = call[p].key
         /\ \A q \in Procs : q # p => call'[q] = call[q]
<1>1. \A at, v, n : Move(p, at, v, n) =>
        /\ call'[p].op = call[p].op /\ call'[p].key = call[p].key
        /\ \A q \in Procs : q # p => call'[q] = call[q]
  BY SMTT(30) DEF Move, CacheTypeOK
<1>2. \E at, v, n : Move(p, at, v, n)
  <2>1. CASE GetStep(p)
    BY <2>1, Zenon
       DEF GetStep, McHit, McMiss, McGetFails, S3Get, S3GetFails, Fill, FillFails, Retry
  <2>2. CASE SetStep(p)
    BY <2>2, Zenon DEF SetStep, S3Put, S3PutFails, McSet, McSetFails, Retry
  <2>3. CASE DeleteStep(p)
    BY <2>3, Zenon DEF DeleteStep, S3Del, S3DelFails, McDel, McDelFails, Retry
  <2> QED
    BY <2>1, <2>2, <2>3, Zenon DEF CacheStep
<1> QED
  BY <1>1, <1>2, Zenon

\* Only a Delete takes an object out of S3, and only its own; a Set that has
\* got past S3 has put its object there.
LEMMA S3Facts ==
  ASSUME CacheInv, NEW p \in Procs, CacheStep(p)
  PROVE  /\ \A k \in Keys : s3[k] # None =>
              s3'[k] # None \/ (call[p].op = "delete" /\ k = call[p].key)
         /\ call[p].op = "set" /\ call'[p].at \in {"mcset", "ok"} =>
              \/ s3'[call[p].key] # None
              \/ call[p].at \in {"mcset", "ok"} /\ UNCHANGED s3
<1>1. CacheTypeOK /\ CallOK(p)
  BY Zenon DEF CacheInv
<1>2. call[p].at \in {"s3put"} => call[p].key \in Keys /\ call[p].val # None
  BY <1>1, CacheAssumption, DomainValues, Zenon DEF CallOK
<1>a. \A at, v, n : Move(p, at, v, n) => call'[p].at = at
  BY <1>1, SMTT(30) DEF Move, CacheTypeOK
<1>3. CASE GetStep(p)
  <2>1. UNCHANGED s3 /\ call[p].at \in {"mcget", "s3get", "fill"}
    BY <1>3, Zenon DEF GetStep, McHit, McMiss, McGetFails, S3Get, S3GetFails, Fill, FillFails
  <2> QED
    BY <1>1, <2>1, Zenon DEF CallOK
<1>4. CASE S3Put(p) \/ S3PutFails(p)
  <2>1. call[p].at = "s3put" /\ s3' \in {s3, [s3 EXCEPT ![call[p].key] = call[p].val]}
    BY <1>4, Zenon DEF S3Put, S3PutFails
  <2>2. \A k \in Keys : s3[k] # None => s3'[k] # None
    BY <1>1, <1>2, <2>1, Zenon DEF CacheTypeOK
  <2>3. CASE S3Put(p)
    BY <1>1, <1>2, <2>1, <2>2, <2>3, Zenon DEF CacheTypeOK, S3Put
  <2>4. CASE S3PutFails(p)
    <3>1. call'[p].at \in {"s3put", "err"}
      BY <1>a, <2>1, <2>4, Zenon DEF S3PutFails, Retry
    <3> QED
      BY <2>2, <3>1, Zenon
  <2> QED
    BY <1>4, <2>3, <2>4, Zenon
<1>5. CASE McSet(p) \/ McSetFails(p)
  <2>1. UNCHANGED s3 /\ call[p].at = "mcset"
    BY <1>5, Zenon DEF McSet, McSetFails
  <2> QED
    BY <2>1, Zenon
<1>6. CASE DeleteStep(p)
  <2>1. /\ call[p].at \in {"s3del", "mcdel"}
        /\ s3' \in {s3, [s3 EXCEPT ![call[p].key] = None]}
    BY <1>6, Zenon DEF DeleteStep, S3Del, S3DelFails, McDel, McDelFails
  <2>2. call[p].op = "delete"
    BY <1>1, <2>1, Zenon DEF CallOK
  <2> QED
    BY <1>1, <2>1, <2>2, Zenon DEF CacheTypeOK
<1> QED
  BY <1>3, <1>4, <1>5, <1>6, Zenon DEF CacheStep, SetStep

\* A step of x outside a cache call begins one, ends one, or makes none.
MakesCall(x) ==
  /\ UNCHANGED <<s3, mc>>
  /\ \/ UNCHANGED call
     \/ Hangup(x)
     \/ \E k : BeginGet(x, k)
     \/ \E k : BeginDelete(x, k)
     \/ \E k, v : BeginSet(x, k, v)

\* Such a step, a step of a call, and an eviction leave a bundler without
\* memcached without items.
LEMMA NoItemsStep ==
  ASSUME CacheTypeOK, NoItems, NEW x \in Procs,
         MakesCall(x) \/ CacheStep(x) \/ \E k \in Keys : Evict(k)
  PROVE  NoItems'
<1> DEFINE Filling == {"fill", "mcset", "mcdel"}
           NoneFills == \A y \in Procs : call'[y].at \notin Filling
<1> SUFFICES ASSUME ~Memcached
             PROVE  (\A k \in Keys : mc'[k] = None) /\ NoneFills
  BY Zenon DEF NoItems
<1>i. /\ \A k \in Keys : mc[k] = None
      /\ \A y \in Procs : call[y].at \notin Filling
      /\ DOMAIN call = Procs
  BY Zenon DEF NoItems, CacheTypeOK
<1>m. \A at, v, n : Move(x, at, v, n) /\ at \notin Filling => NoneFills
  BY <1>i DEF Move
<1>r. Retry(x) => NoneFills
  <2>1. call[x].at \notin Filling /\ "err" \notin Filling
    BY <1>i, Zenon
  <2> QED
    BY <2>1, <1>m, Zenon DEF Retry
<1>a. \A at, v, n : Move(x, AfterS3(at), v, n) => NoneFills
  <2>1. \A at : AfterS3(at) \notin Filling
    BY Zenon DEF AfterS3
  <2> QED
    BY <2>1, <1>m, Zenon
<1>1. CASE MakesCall(x)
  <2>1. ASSUME NEW op, NEW at, NEW k, NEW v, Begin(x, op, at, k, v), at \notin Filling
        PROVE  NoneFills
    BY <1>i, <2>1, Zenon DEF Begin
  <2>2. ASSUME Hangup(x)
        PROVE  NoneFills
    BY <1>i, <2>2, Zenon DEF Hangup, NoCall
  <2>3. NoneFills
    BY <1>1, <1>i, <2>1, <2>2 DEF MakesCall, BeginGet, BeginDelete, BeginSet
  <2> QED
    BY <1>1, <1>i, <2>3, Zenon DEF MakesCall
<1>e. /\ call[x].at \notin Filling
      /\ "ok" \notin Filling /\ "err" \notin Filling /\ "s3get" \notin Filling
  BY <1>i, Zenon
<1> HIDE DEF NoneFills
<1>2. CASE GetStep(x)
  <2>0. ~Fill(x) /\ ~FillFails(x)
    BY <1>e, Zenon DEF Fill, FillFails
  <2>1. UNCHANGED mc /\ NoneFills
    BY <1>2, <1>e, <1>m, <1>r, <1>a, <2>0, Zenon
       DEF GetStep, McHit, McMiss, McGetFails, S3Get, S3GetFails
  <2> QED
    BY <1>i, <2>1, Zenon
<1>3. CASE SetStep(x)
  <2>0. ~McSet(x) /\ ~McSetFails(x)
    BY <1>e, Zenon DEF McSet, McSetFails
  <2>1. UNCHANGED mc /\ NoneFills
    BY <1>3, <1>r, <1>a, <2>0, Zenon DEF SetStep, S3Put, S3PutFails
  <2> QED
    BY <1>i, <2>1, Zenon
<1>4. CASE DeleteStep(x)
  <2>0. ~McDel(x) /\ ~McDelFails(x)
    BY <1>e, Zenon DEF McDel, McDelFails
  <2>1. UNCHANGED mc /\ NoneFills
    BY <1>4, <1>r, <1>a, <2>0, Zenon DEF DeleteStep, S3Del, S3DelFails
  <2> QED
    BY <1>i, <2>1, Zenon
<1>5. CASE \E k \in Keys : Evict(k)
  <2>1. PICK k \in Keys : mc' = [mc EXCEPT ![k] = None] /\ call' = call
    BY <1>5, Zenon DEF Evict
  <2> QED
    BY <1>i, <2>1, Zenon DEF CacheTypeOK, NoneFills
<1> QED
  BY <1>1, <1>2, <1>3, <1>4, <1>5, Zenon DEF CacheStep

\* A step of a Set writes only at its key and only its value; past S3 the object
\* is its value, and when it is answered memcached has no other.
LEMMA SetFacts ==
  ASSUME CacheTypeOK, NoItems, NEW p \in Procs, CallOK(p), CacheStep(p), call[p].op = "set",
         call[p].at \in {"mcset", "ok"} => s3[call[p].key] = call[p].val
  PROVE  /\ call'[p].key = call[p].key /\ call'[p].val = call[p].val
         /\ call'[p].at \in {"mcset", "ok"} => s3'[call[p].key] = call[p].val
         /\ call'[p].at = "ok" => mc'[call[p].key] \in {call[p].val, None}
         /\ \A k \in Keys :
              /\ s3'[k] = s3[k] \/ (k = call[p].key /\ s3'[k] = call[p].val)
              /\ mc'[k] = mc[k] \/ (k = call[p].key /\ mc'[k] = call[p].val)
<1> DEFINE k0 == call[p].key
           v0 == call[p].val
<1>1. SetStep(p) /\ k0 \in Keys
  BY Zenon DEF CacheStep, GetStep, DeleteStep, McHit, McMiss, McGetFails, S3Get,
     S3GetFails, Fill,
         FillFails, S3Del, S3DelFails, McDel, McDelFails, SetStep, S3Put, S3PutFails, McSet,
         McSetFails, CallOK
<1>t. DOMAIN call = Procs /\ DOMAIN s3 = Keys /\ DOMAIN mc = Keys
  BY Zenon DEF CacheTypeOK
<1>m. \A at, n : Move(p, at, v0, n) =>
        call'[p].key = k0 /\ call'[p].val = v0 /\ call'[p].at = at
  BY <1>t DEF Move
<1>2. CASE S3Put(p)
  <2>1. /\ s3' = [s3 EXCEPT ![k0] = v0] /\ mc' = mc
        /\ call'[p].key = k0 /\ call'[p].val = v0 /\ call'[p].at = AfterS3("mcset")
    BY <1>2, <1>m, Zenon DEF S3Put
  <2>2. call'[p].at = "ok" => mc[k0] = None
    BY <1>1, <2>1, Zenon DEF AfterS3, NoItems
  <2> QED
    BY <1>1, <1>t, <2>1, <2>2, Zenon
<1>3. CASE S3PutFails(p)
  <2>1. /\ s3' \in {s3, [s3 EXCEPT ![k0] = v0]} /\ mc' = mc /\ call[p].at = "s3put"
        /\ call'[p].key = k0 /\ call'[p].val = v0 /\ call'[p].at \in {call[p].at, "err"}
    BY <1>3, <1>m, Zenon DEF S3PutFails, Retry
  <2> QED
    BY <1>1, <1>t, <2>1, Zenon
<1>4. CASE McSet(p)
  <2>1. /\ s3' = s3 /\ mc' = [mc EXCEPT ![k0] = v0] /\ call[p].at = "mcset"
        /\ call'[p].key = k0 /\ call'[p].val = v0
    BY <1>4, <1>m, Zenon DEF McSet
  <2> QED
    BY <1>1, <1>t, <2>1, Zenon
<1>5. CASE McSetFails(p)
  <2>1. /\ s3' = s3 /\ mc' \in {mc, [mc EXCEPT ![k0] = v0]}
        /\ call'[p].key = k0 /\ call'[p].val = v0 /\ call'[p].at = "err"
    BY <1>5, <1>m, Zenon DEF McSetFails
  <2> QED
    BY <1>1, <1>t, <2>1, Zenon
<1> QED
  BY <1>1, <1>2, <1>3, <1>4, <1>5, Zenon DEF SetStep

\* A step of a Get leaves S3 alone, and memcached but for the item it fills; it
\* returns what one of them has; without a fault it only fails for want of an
\* object.
LEMMA GetFacts ==
  ASSUME CacheTypeOK, NEW x \in Procs, CallOK(x), CacheStep(x), call[x].op = "get"
  PROVE  /\ UNCHANGED s3
         /\ call'[x].key = call[x].key
         /\ call'[x].at = "fill" =>
              call'[x].val = s3[call[x].key] /\ s3[call[x].key] # None
         /\ call'[x].at = "ok" =>
              \/ call'[x].val \in {s3[call[x].key], mc[call[x].key]} \ {None}
              \/ call[x].at = "fill" /\ call'[x].val = call[x].val
         /\ call'[x].at = "err" =>
              \/ s3[call[x].key] = None
              \/ faults' > 0 /\ FaultKinds \cap {"s3", "memcached"} # {}
         /\ \A k \in Keys : \/ mc'[k] = mc[k]
                            \/ call[x].at = "fill" /\ k = call[x].key /\ mc'[k] = call[x].val
<1> DEFINE k0 == call[x].key
<1>1. GetStep(x)
  BY Zenon DEF CacheStep, CallOK, SetStep, DeleteStep, S3Put, S3PutFails, McSet,
     McSetFails, S3Del,
         S3DelFails, McDel, McDelFails
<1>2. /\ k0 \in Keys /\ faults \in Nat
      /\ DOMAIN call = Procs /\ DOMAIN mc = Keys
  BY <1>1, FaultAssumption DEF CacheTypeOK, CallOK, GetStep, McHit, McMiss, McGetFails, S3Get,
         S3GetFails, Fill, FillFails
<1>3. CASE McHit(x) \/ McMiss(x) \/ McGetFails(x)
  BY <1>2, <1>3 DEF McHit, McMiss, McGetFails, Move
<1>4. CASE S3Get(x)
  BY <1>2, <1>4, Zenon DEF S3Get, AfterS3, Move
<1>5. CASE S3GetFails(x)
  BY <1>2, <1>5 DEF S3GetFails, Retry, Move
<1>6. CASE Fill(x) \/ FillFails(x)
  BY <1>2, <1>6 DEF Fill, FillFails, Move
<1> QED
  BY <1>1, <1>3, <1>4, <1>5, <1>6, Zenon DEF GetStep

\* What a step of a call does at a key.
LEMMA KeyStep ==
  ASSUME CacheTypeOK, NEW x \in Procs, CallOK(x), CacheStep(x), NEW k \in Keys
  PROVE  \/ s3'[k] = s3[k] /\ mc'[k] = mc[k]
         \/ k = call[x].key /\ call[x].at \in Writes
         \/ /\ k = call[x].key /\ call[x].at = "fill"
            /\ s3'[k] = s3[k] /\ mc'[k] \in {mc[k], call[x].val}
<1>1. DOMAIN s3 = Keys /\ DOMAIN mc = Keys
  BY Zenon DEF CacheTypeOK
<1>2. CASE GetStep(x)
  BY <1>1, <1>2, Zenon DEF GetStep, McHit, McMiss, McGetFails, S3Get, S3GetFails, Fill,
     FillFails
<1>3. CASE SetStep(x)
  BY <1>1, <1>3, Zenon DEF SetStep, S3Put, S3PutFails, McSet, McSetFails, Writes
<1>4. CASE DeleteStep(x)
  BY <1>1, <1>4, Zenon DEF DeleteStep, S3Del, S3DelFails, McDel, McDelFails, Writes
<1> QED
  BY <1>2, <1>3, <1>4, Zenon DEF CacheStep

HIDE DEF Move, Begin

-----------------------------------------------------------------------------
(* Pushes.                                                                 *)

\* Where a handler has parsed its Siphonfile and not returned yet.
Loaded ==
  {"compare", "apply", "setting", "deleting", "rowdel", "fetch", "fetching", "put",
   "footer", "storing"}

\* The cache call a handler is in, and the values it relies on at each step.
HandlerOK(p) ==
  /\ diffs[p] \subseteq In(listing[p])
  /\ pc[p] \in {"metaget", "fetching"} =>
       call[p].op = "get" /\ \E c \in Contents : call[p].key = FileKey(c)
  /\ pc[p] = "metaget" => Siphonfile \notin diffs[p]
  /\ pc[p] \in Loaded =>
       /\ meta[p] \in Contents
       /\ Siphonfile \in diffs[p] => listing[p][Siphonfile] \notin BadMeta
  /\ pc[p] \in {"apply", "setting", "deleting", "rowdel"} =>
       added[p] \cup changed[p] \subseteq diffs[p]
  /\ pc[p] = "setting" => cur[p] \in added[p] \cup changed[p]
  /\ pc[p] \in {"deleting", "rowdel"} => cur[p] \in removed[p]
  /\ pc[p] \in {"fetch", "fetching"} => fetch[p] \subseteq In(files[p])
  /\ pc[p] = "fetching" => cur[p] \in fetch[p]

\* The Siphonfile of the app, if there is one, is one ParseMetadata accepted.
StoredAccepted == rows[Dev][Siphonfile] \notin BadMeta

\* The inductive invariant.
PushInv ==
  /\ CacheInv
  /\ PushTypeOK
  /\ \A p \in Pushers : HandlerOK(p)
  /\ StoredAccepted

USE DEF Goto, Finish, Fail, Panic, Fault, NoFault, archiveVars, metaVars, todoVars,
        buildVars, worldVars, cacheVars

\* The keys of files and footers are keys, and hold contents and footers.
LEMMA KeyFacts ==
  /\ Dev \in Namespaces
  /\ \A c \in Contents : FileKey(c) \in Keys /\ Domain[FileKey(c)] = {c}
  /\ \A platform \in Platforms :
       FooterKey(platform) \in Keys /\ Domain[FooterKey(platform)] = Footers
<1>1. Dev \in Namespaces
  BY Zenon DEF Namespaces
<1>2. \A platform \in Platforms : BundleFooterFile(platform) \in FooterFiles
  BY Zenon DEF FooterFiles, AnyPlatform
<1> QED
  BY <1>1, <1>2, StoreAssumption, Zenon DEF FileKey, FooterKey

\* Lookups and updates of a listing.
LEMMA ListingFacts ==
  /\ \A f \in Listings, n \in Names : f[n] \in Contents \cup {None}
  /\ \A f \in Listings : In(f) \subseteq Names
  /\ \A f \in Listings : \A n \in In(f) : f[n] \in Contents
  /\ \A f \in Listings, n \in Names, c \in Contents \cup {None} :
       [f EXCEPT ![n] = c] \in Listings
  BY Zenon DEF Listings, In

\* A missing Siphonfile is not a rejected one.
LEMMA NoneAccepted == None \notin BadMeta
  BY StoreAssumption, MetadataAssumption, Zenon DEF BadMeta

\* What ParseMetadata accepts keeps to the limits its messages announce.
LEMMA AcceptedWithinLimits ==
  ASSUME NEW c \in Contents, c \notin BadMeta
  PROVE  WithinLimits(c)
<1>1. /\ c \notin Malformed
      /\ Parsed[c].base = "number"
      /\ ~TooLong(Parsed[c])
  BY Zenon DEF BadMeta
<1>2. Parsed[c].length \in [Texts -> Nat]
  BY <1>1, MetadataAssumption, Zenon DEF Siphonfiles
<1>3. ASSUME NEW t \in Texts
      PROVE  Parsed[c].length[t] <= Maximum[t]
  <2>1. Parsed[c].length[t] \in Nat
    BY <1>2, Zenon
  <2> QED
    BY <1>1, <1>3, <2>1 DEF TooLong, Maximum, Texts
<1> QED
  BY <1>1, <1>3, Zenon DEF WithinLimits

\* What AddFile and UpdateFile may do to the rows.
LEMMA WriteRowFacts ==
  ASSUME FilesTypeOK, NEW n \in Names, NEW c \in Contents,
         AddFile(Dev, n, c) \/ UpdateFile(Dev, n, c)
  PROVE  /\ FilesTypeOK'
         /\ \A m \in Names : rows'[Dev][m] = rows[Dev][m] \/ (m = n /\ rows'[Dev][m] = c)
<1>1. rows[Dev] \in Listings
  BY KeyFacts, Zenon DEF FilesTypeOK
<1>2. [rows[Dev] EXCEPT ![n] = c] \in Listings
  BY <1>1, ListingFacts, Zenon
<1>3. CASE rows' = rows
  BY <1>3, Zenon DEF FilesTypeOK
<1>4. CASE rows' = [rows EXCEPT ![Dev] = [@ EXCEPT ![n] = c]]
  <2>1. FilesTypeOK'
    BY <1>2, <1>4, Zenon DEF FilesTypeOK
  <2>2. rows'[Dev] = [rows[Dev] EXCEPT ![n] = c]
    BY <1>4, KeyFacts, Zenon DEF FilesTypeOK
  <2> QED
    BY <1>1, <2>1, <2>2, Zenon DEF Listings
<1> QED
  BY <1>3, <1>4, Zenon DEF AddFile, UpdateFile

\* The same of WriteRow, which is one or the other.
LEMMA UpdateFacts ==
  ASSUME FilesTypeOK, NEW p \in Pushers, cur[p] \in Names, listing[p][cur[p]] \in Contents,
         WriteRow(p)
  PROVE  /\ FilesTypeOK'
         /\ \A m \in Names : \/ rows'[Dev][m] = rows[Dev][m]
                             \/ m = cur[p] /\ rows'[Dev][m] = listing[p][m]
<1> DEFINE n == cur[p]
           c == listing[p][n]
<1>1. AddFile(Dev, n, c) \/ UpdateFile(Dev, n, c)
  BY Zenon DEF WriteRow
<1>2. n \in Names /\ c \in Contents
  BY Zenon
<1>3. /\ FilesTypeOK'
      /\ \A m \in Names : rows'[Dev][m] = rows[Dev][m] \/ (m = n /\ rows'[Dev][m] = c)
  <2> HIDE DEF n, c
  <2> QED
    BY <1>1, <1>2, WriteRowFacts, Zenon
<1> QED
  BY <1>3, Zenon

\* What DeleteFile does to them.
LEMMA DeleteFileFacts ==
  ASSUME FilesTypeOK, NEW n \in Names, DeleteFile(Dev, n)
  PROVE  /\ FilesTypeOK'
         /\ \A m \in Names : rows'[Dev][m] = IF m = n THEN None ELSE rows[Dev][m]
<1>1. rows[Dev] \in Listings
  BY KeyFacts, Zenon DEF FilesTypeOK
<1>2. [rows[Dev] EXCEPT ![n] = None] \in Listings
  BY <1>1, ListingFacts, Zenon
<1>3. FilesTypeOK'
  BY <1>2, Zenon DEF FilesTypeOK, DeleteFile
<1>4. rows'[Dev] = [rows[Dev] EXCEPT ![n] = None]
  BY KeyFacts, Zenon DEF FilesTypeOK, DeleteFile
<1> QED
  BY <1>1, <1>3, <1>4, Zenon DEF Listings

\* The initial state satisfies the invariant.
LEMMA PushInitInv == PushInit => PushInv
<1> SUFFICES ASSUME PushInit
             PROVE  PushInv
  BY Zenon
<1>1. CacheInv
  BY CacheInitInv, Zenon DEF PushInit
<1>2. PushTypeOK
  BY <1>1, KeyFacts, Zenon
     DEF PushInit, PushTypeOK, CacheInv, FilesInit, FilesTypeOK, Listings, NoFiles, Steps
<1>3. \A p \in Pushers : HandlerOK(p)
  BY Zenon DEF PushInit, HandlerOK, In, NoFiles, Loaded
<1>4. StoredAccepted
  BY StoreAssumption, NoneAccepted, KeyFacts, Zenon
     DEF PushInit, FilesInit, StoredAccepted, NoFiles
<1> QED
  BY <1>1, <1>2, <1>3, <1>4, Zenon DEF PushInv

-----------------------------------------------------------------------------
(* What the proofs about the single steps share.                           *)

\* A fault, or none, lets the count of faults grow.
LEMMA FaultGrows ==
  ASSUME PushInv, NEW kind, Fault(kind) \/ NoFault
  PROVE  FaultsGrow
  BY FaultAssumption, SMTT(30) DEF PushInv, PushTypeOK, CacheTypeOK, FaultsGrow

\* Reading the rows, with or without a fault, lets it grow too.
LEMMA ReadGrows ==
  ASSUME PushInv, NEW f, GetFiles(Dev, f)
  PROVE  FaultsGrow
  BY FaultGrows, Zenon DEF GetFiles

\* The variables of the handlers are functions on the pushers.
Shapes ==
  /\ DOMAIN pc = Pushers /\ DOMAIN listing = Pushers /\ DOMAIN diffs = Pushers
  /\ DOMAIN meta = Pushers /\ DOMAIN added = Pushers /\ DOMAIN changed = Pushers
  /\ DOMAIN removed = Pushers /\ DOMAIN cur = Pushers /\ DOMAIN files = Pushers
  /\ DOMAIN fetch = Pushers /\ DOMAIN call = Procs /\ Pushers \subseteq Procs

\* The invariant implies it.
LEMMA PushShapes == PushInv => Shapes
  BY PushAssumption, StoreAssumption, Zenon DEF PushInv, PushTypeOK, CacheTypeOK, Shapes

\* The step changes nothing that HandlerOK says of a pusher other than p.
Others(p) ==
  \A q \in Pushers :
    q # p =>
      /\ pc'[q] = pc[q] /\ call'[q] = call[q]
      /\ listing'[q] = listing[q] /\ diffs'[q] = diffs[q] /\ meta'[q] = meta[q]
      /\ added'[q] = added[q] /\ changed'[q] = changed[q]
      /\ removed'[q] = removed[q] /\ cur'[q] = cur[q]
      /\ files'[q] = files[q] /\ fetch'[q] = fetch[q]

\* So a step of p keeps the invariant if it keeps the parts that are about p.
LEMMA StepInv ==
  ASSUME PushInv, NEW p \in Pushers, Others(p), CacheInv', PushTypeOK', HandlerOK(p)',
         StoredAccepted'
  PROVE  PushInv'
<1>1. ASSUME NEW q \in Pushers, q # p
      PROVE  HandlerOK(q)'
  <2>1. HandlerOK(q)
    BY Zenon DEF PushInv
  <2> QED
    BY <1>1, <2>1, Zenon DEF Others, HandlerOK
<1> QED
  BY <1>1, Zenon DEF PushInv

\* The step in which a handler returns keeps the invariant.
LEMMA ReturnInv ==
  ASSUME PushInv, NEW p \in Pushers, Others(p), CacheInv', CacheTypeOK',
         FilesTypeOK', StoredAccepted',
         NEW r \in {"ok", "nochange", "error", "aborted"},
         NEW d \in SUBSET {"archive", "project", "footers"}, Finish(p, r, d),
         UNCHANGED <<listing, diffs, meta, added, changed, removed, cur, dirty, buildVars>>,
         metaDirty' \in [Pushers -> BOOLEAN],
         notified' \subseteq Pushers, doomed' \subseteq Names
  PROVE  PushInv'
<1>1. PushTypeOK /\ HandlerOK(p) /\ Shapes
  BY PushShapes, Zenon DEF PushInv
<1>2. PushTypeOK'
  BY <1>1, Zenon DEF PushTypeOK, Steps
<1>3. HandlerOK(p)'
  BY <1>1, Zenon DEF HandlerOK, Shapes, Loaded
<1> QED
  BY <1>2, <1>3, StepInv, Zenon

\* A Get of a file's hash that succeeds returns a content.
LEMMA GotContent ==
  ASSUME PushInv, NEW p \in Pushers, pc[p] \in {"metaget", "fetching"}, call[p].at = "ok"
  PROVE  call[p].val \in Contents
<1>1. HandlerOK(p) /\ CallOK(p)
  BY PushAssumption, StoreAssumption, Zenon DEF PushInv, CacheInv
<1>2. PICK c \in Contents : call[p].key = FileKey(c)
  BY <1>1, Zenon DEF HandlerOK
<1>3. call[p].val \in Domain[call[p].key]
  BY <1>1, Zenon DEF HandlerOK, CallOK
<1> QED
  BY <1>2, <1>3, KeyFacts, Zenon

\* A handler returns, having changed nothing but the answer: not the files, the
\* rows or the cache.
Ends(p) ==
  /\ \E r \in {"ok", "nochange", "error", "aborted"},
        d \in SUBSET {"archive", "project", "footers"} : Finish(p, r, d)
  /\ Hangup(p) \/ UNCHANGED call
  /\ FaultsGrow
  /\ notified' = notified \/ notified' = notified \cup {p}
  /\ UNCHANGED <<s3, mc, rows, listing, diffs, meta, metaDirty, added, changed, removed,
                 cur, dirty, buildVars, doomed>>

\* Such a step keeps the invariant.
LEMMA EndsInv ==
  ASSUME PushInv, NEW p \in Pushers, Ends(p)
  PROVE  PushInv'
<1>i. CacheInv /\ PushTypeOK /\ StoredAccepted /\ p \in Procs
  BY PushAssumption, StoreAssumption, Zenon DEF PushInv
<1>s. Shapes
  BY PushShapes, Zenon
<1>1. PICK r \in {"ok", "nochange", "error", "aborted"},
           d \in SUBSET {"archive", "project", "footers"} : Finish(p, r, d)
  BY Zenon DEF Ends
<1>2. Others(p)
  BY <1>s, <1>1, Zenon DEF Ends, Hangup, Others, Shapes
<1>3. CacheInv'
  <2>1. CASE Hangup(p)
    BY <1>i, <2>1, HangupInv, Zenon DEF Ends
  <2>2. CASE UNCHANGED call
    BY <1>i, <2>2, FaultInv, Zenon DEF Ends
  <2> QED
    BY <2>1, <2>2, Zenon DEF Ends
<1>4. CacheTypeOK'
  BY <1>3, Zenon DEF CacheInv
<1>5. StoredAccepted' /\ FilesTypeOK'
  BY <1>i, Zenon DEF Ends, StoredAccepted, PushTypeOK, FilesTypeOK
<1>6. notified' \subseteq Pushers /\ doomed' \subseteq Names /\ metaDirty' \in [Pushers -> BOOLEAN]
  BY <1>i, Zenon DEF Ends, PushTypeOK
<1> QED
  BY <1>1, <1>2, <1>3, <1>4, <1>5, <1>6, ReturnInv, Zenon DEF Ends

-----------------------------------------------------------------------------
(* The steps of a handler, one by one.                                     *)

\* The client's choice of an archive keeps the invariant.
LEMMA GetHashesInv ==
  ASSUME PushInv, NEW p \in Pushers, GetHashes(p)
  PROVE  PushInv'
<1>i. CacheInv /\ PushTypeOK /\ HandlerOK(p) /\ StoredAccepted
  BY Zenon DEF PushInv
<1>s. Shapes
  BY PushShapes, Zenon
<1>a. PICK l \in Projects, f \in Listings :
        /\ GetFiles(Dev, f) \/ NoFault
        /\ listing' = [listing EXCEPT ![p] = l]
        /\ diffs' = [diffs EXCEPT ![p] = ShouldPush(l, f)]
  BY Zenon DEF GetHashes
<1>b. l \in Listings /\ ShouldPush(l, f) \subseteq In(l) /\ In(l) \subseteq Names
  BY PushAssumption, StoreAssumption, ListingFacts, Zenon DEF ShouldPush
<1>1. Others(p)
  BY <1>a, <1>s, Zenon DEF GetHashes, Others, Shapes
<1>2. FaultsGrow
  BY <1>a, FaultGrows, ReadGrows, Zenon
<1>3. CacheInv'
  BY <1>i, <1>2, FaultInv, Zenon DEF GetHashes
<1>4. CacheTypeOK'
  BY <1>3, Zenon DEF CacheInv
<1>5. PushTypeOK'
  BY <1>i, <1>a, <1>b, <1>4, Zenon DEF GetHashes, PushTypeOK, FilesTypeOK, Steps
<1>6. HandlerOK(p)'
  BY <1>i, <1>a, <1>b, <1>s, Zenon DEF GetHashes, HandlerOK, Loaded, Shapes
<1>7. StoredAccepted'
  BY <1>i, Zenon DEF GetHashes, StoredAccepted
<1> QED
  BY <1>1, <1>3, <1>5, <1>6, <1>7, StepInv, Zenon

\* Reading the archive, the Siphonfile and the rows keeps the invariant.
LEMMA LoadStepInv ==
  ASSUME PushInv, NEW p \in Pushers, LoadStep(p)
  PROVE  PushInv'
<1>i. CacheInv /\ PushTypeOK /\ HandlerOK(p) /\ StoredAccepted /\ p \in Procs
  BY PushAssumption, StoreAssumption, Zenon DEF PushInv
<1>s. Shapes
  BY PushShapes, Zenon
<1>d. dirs[p] \subseteq {"archive", "project", "footers"}
  BY <1>i, Zenon DEF PushTypeOK
<1>g. \A kind : Fault(kind) \/ NoFault => FaultsGrow
  BY FaultGrows, Zenon
<1>1. CASE Decompress(p)
  <2>1. Others(p)
    BY <1>1, <1>s, Zenon DEF Decompress, Others, Shapes
  <2>2. FaultsGrow
    BY <1>1, FaultGrows, Zenon DEF Decompress
  <2>3. CacheInv'
    BY <1>1, <1>i, <2>2, FaultInv, Zenon DEF Decompress
  <2>4. CacheTypeOK'
    BY <2>3, Zenon DEF CacheInv
  <2>v. StoredAccepted'
    BY <1>1, <1>i, Zenon DEF Decompress, StoredAccepted
  <2>5. PushTypeOK'
    BY <1>1, <1>i, <2>4, Zenon DEF Decompress, PushTypeOK, FilesTypeOK, Steps
  <2>6. HandlerOK(p)'
    BY <1>1, <1>i, <1>s, Zenon DEF Decompress, HandlerOK, Loaded, Shapes
  <2> QED
    BY <2>1, <2>3, <2>5, <2>6, <2>v, StepInv, Zenon
<1>2. CASE DecompressFails(p)
  <2>1. Ends(p)
    BY <1>2, <1>d, <1>g, Zenon DEF DecompressFails, Ends
  <2> QED
    BY <2>1, EndsInv, Zenon
<1>3. CASE LoadFromArchive(p)
  <2>a. listing[p][Siphonfile] \in Contents
    BY <1>i, <1>3, ListingFacts, Zenon DEF LoadFromArchive, PushTypeOK, HandlerOK
  <2>1. Others(p)
    BY <1>3, <1>s, Zenon DEF LoadFromArchive, ParseMetadata, Others, Shapes
  <2>2. FaultsGrow
    BY <1>3, FaultGrows, Zenon DEF LoadFromArchive
  <2>3. CacheInv'
    BY <1>3, <1>i, <2>2, FaultInv, Zenon DEF LoadFromArchive
  <2>4. CacheTypeOK'
    BY <2>3, Zenon DEF CacheInv
  <2>v. StoredAccepted'
    BY <1>3, <1>i, Zenon DEF LoadFromArchive, StoredAccepted
  <2>5. PushTypeOK'
    <3>1. /\ metaDirty' \in [Pushers -> BOOLEAN]
          /\ meta' \in [Pushers -> Contents \cup {None}]
      BY <1>3, <1>i, <2>a, Zenon DEF LoadFromArchive, ParseMetadata, PushTypeOK
    <3>2. /\ pc' \in [Pushers -> Steps]
          /\ result' \in [Pushers -> {"none", "ok", "nochange", "error", "aborted"}]
          /\ dirs' \in [Pushers -> SUBSET {"archive", "project", "footers"}]
      BY <1>3, <1>i, SMTT(30) DEF LoadFromArchive, ParseMetadata, PushTypeOK, Steps
    <3> QED
      BY <1>3, <1>i, <2>4, <3>1, <3>2, Zenon DEF LoadFromArchive, PushTypeOK, FilesTypeOK
  <2>6. HandlerOK(p)'
    BY <1>3, <1>i, <1>s, <2>a, Zenon DEF LoadFromArchive, HandlerOK, Loaded, Shapes,
       ParseMetadata
  <2> QED
    BY <2>1, <2>3, <2>5, <2>6, <2>v, StepInv, Zenon
<1>4. CASE LoadHash(p)
  <2>a. rows[Dev][Siphonfile] \in Contents
    BY <1>i, <1>4, PushAssumption, StoreAssumption, KeyFacts, ListingFacts, Zenon
       DEF LoadHash, PushTypeOK, FilesTypeOK
  <2>b. FileKey(rows[Dev][Siphonfile]) \in Keys
    BY <2>a, KeyFacts, Zenon
  <2>c. call'[p].op = "get" /\ call'[p].key = FileKey(rows[Dev][Siphonfile])
    BY <1>i, <1>s, <1>4, Zenon DEF LoadHash, BeginGet, Begin, Shapes
  <2>1. Others(p)
    BY <1>4, <1>s, Zenon DEF LoadHash, BeginGet, BeginSet, BeginDelete, Begin, Others, Shapes
  <2>2. FaultsGrow
    BY <1>4, FaultGrows, Zenon DEF LoadHash
  <2>3. CacheInv'
    BY <1>4, <1>i, <2>2, BeginInv, <2>b, Zenon DEF LoadHash
  <2>4. CacheTypeOK'
    BY <2>3, Zenon DEF CacheInv
  <2>v. StoredAccepted'
    BY <1>4, <1>i, Zenon DEF LoadHash, StoredAccepted
  <2>5. PushTypeOK'
    BY <1>4, <1>i, <2>4, Zenon DEF LoadHash, PushTypeOK, FilesTypeOK, Steps
  <2>6. HandlerOK(p)'
    BY <1>4, <1>i, <1>s, <2>a, <2>c, Zenon DEF LoadHash, HandlerOK, Loaded, Shapes
  <2> QED
    BY <2>1, <2>3, <2>5, <2>6, <2>v, StepInv, Zenon
<1>5. CASE LoadHashFails(p)
  <2>1. Ends(p)
    BY <1>5, <1>d, <1>g, Zenon DEF LoadHashFails, Ends
  <2> QED
    BY <2>1, EndsInv, Zenon
<1>6. CASE LoadFromCache(p)
  <2>a. call[p].val \in Contents
    BY <1>6, GotContent, Zenon DEF LoadFromCache, Waiting
  <2>1. Others(p)
    BY <1>6, <1>s, Zenon DEF LoadFromCache, Hangup, ParseMetadata, Others, Shapes
  <2>2. FaultsGrow
    BY <1>6, FaultGrows, Zenon DEF LoadFromCache
  <2>3. CacheInv'
    BY <1>6, <1>i, <2>2, HangupInv, Zenon DEF LoadFromCache
  <2>4. CacheTypeOK'
    BY <2>3, Zenon DEF CacheInv
  <2>v. StoredAccepted'
    BY <1>6, <1>i, Zenon DEF LoadFromCache, StoredAccepted
  <2>5. PushTypeOK'
    BY <1>6, <1>i, <2>4, <2>a, SMTT(30) DEF LoadFromCache, PushTypeOK, FilesTypeOK, Steps,
       ParseMetadata
  <2>6. HandlerOK(p)'
    BY <1>6, <1>i, <1>s, <2>a, Zenon DEF LoadFromCache, HandlerOK, Loaded, Shapes,
       ParseMetadata, Waiting
  <2> QED
    BY <2>1, <2>3, <2>5, <2>6, <2>v, StepInv, Zenon
<1>7. CASE LoadFails(p)
  <2>1. Ends(p)
    BY <1>7, <1>d, <1>g, Zenon DEF LoadFails, Ends
  <2> QED
    BY <2>1, EndsInv, Zenon
<1>8. CASE Compare(p)
  <2>a. \A f \in Listings : /\ Added(listing[p], f) \in SUBSET Names
                           /\ Changed(listing[p], f) \in SUBSET Names
                           /\ Removed(listing[p], f) \in SUBSET Names
    BY Zenon DEF Added, Changed, Removed, In
  <2>b. \A f \in Listings :
          DiffsComplete(listing[p], f, diffs[p]) =>
            Added(listing[p], f) \cup Changed(listing[p], f) \subseteq diffs[p]
    BY Zenon DEF DiffsComplete
  <2>1. Others(p)
    BY <1>8, <1>s, Zenon DEF Compare, Others, Shapes
  <2>2. FaultsGrow
    BY <1>8, ReadGrows, Zenon DEF Compare
  <2>3. CacheInv'
    BY <1>8, <1>i, <2>2, FaultInv, Zenon DEF Compare
  <2>4. CacheTypeOK'
    BY <2>3, Zenon DEF CacheInv
  <2>v. StoredAccepted'
    BY <1>8, <1>i, Zenon DEF Compare, StoredAccepted
  <2>5. PushTypeOK'
    BY <1>8, <1>i, <2>4, <2>a, SMTT(30) DEF Compare, PushTypeOK, FilesTypeOK, Steps
  <2>6. HandlerOK(p)'
    BY <1>8, <1>i, <1>s, <2>b, Zenon DEF Compare, HandlerOK, Loaded, Shapes
  <2> QED
    BY <2>1, <2>3, <2>5, <2>6, <2>v, StepInv, Zenon
<1> QED
  BY <1>1, <1>2, <1>3, <1>4, <1>5, <1>6, <1>7, <1>8, Zenon DEF LoadStep

\* Updating and removing files keeps the invariant.
LEMMA ApplyStepInv ==
  ASSUME PushInv, NEW p \in Pushers, ApplyStep(p)
  PROVE  PushInv'
<1>i. CacheInv /\ PushTypeOK /\ HandlerOK(p) /\ StoredAccepted /\ p \in Procs
  BY PushAssumption, StoreAssumption, Zenon DEF PushInv
<1>s. Shapes
  BY PushShapes, Zenon
<1>d. dirs[p] \subseteq {"archive", "project", "footers"}
  BY <1>i, Zenon DEF PushTypeOK
<1>g. \A kind : Fault(kind) \/ NoFault => FaultsGrow
  BY FaultGrows, Zenon
<1>1. CASE UpdateCache(p)
  <2>a. PICK n \in Updates(p) :
          /\ cur' = [cur EXCEPT ![p] = n]
          /\ BeginSet(p, FileKey(listing[p][n]), listing[p][n])
    BY <1>1, Zenon DEF UpdateCache
  <2>c. n \in In(listing[p]) /\ listing[p] \in Listings
    BY <1>i, <1>1, <2>a, Zenon DEF UpdateCache, Updates, HandlerOK, PushTypeOK
  <2>d. n \in Names /\ listing[p][n] \in Contents
    BY <2>c, ListingFacts, Zenon
  <2>b. /\ n \in Names
        /\ FileKey(listing[p][n]) \in Keys
        /\ listing[p][n] \in Domain[FileKey(listing[p][n])]
    BY <2>d, KeyFacts, Zenon
  <2>1. Others(p)
    BY <1>1, <1>s, <2>a, Zenon DEF UpdateCache, BeginGet, BeginSet, BeginDelete, Begin,
       Others, Shapes
  <2>2. FaultsGrow
    BY <1>1, FaultGrows, Zenon DEF UpdateCache
  <2>3. CacheInv'
    BY <1>1, <1>i, <2>2, BeginInv, <2>a, <2>b, Zenon DEF UpdateCache
  <2>4. CacheTypeOK'
    BY <2>3, Zenon DEF CacheInv
  <2>v. StoredAccepted'
    BY <1>1, <1>i, Zenon DEF UpdateCache, StoredAccepted
  <2>5. PushTypeOK'
    BY <1>1, <1>i, <2>4, <2>a, <2>b, Zenon DEF UpdateCache, PushTypeOK, FilesTypeOK, Steps
  <2>6. HandlerOK(p)'
    BY <1>1, <1>i, <1>s, <2>a, Zenon DEF UpdateCache, HandlerOK, Loaded, Shapes, Updates
  <2> QED
    BY <2>1, <2>3, <2>5, <2>6, <2>v, StepInv, Zenon
<1>2. CASE UpdateCacheFails(p)
  <2>1. Ends(p)
    BY <1>2, <1>d, <1>g, Zenon DEF UpdateCacheFails, Ends
  <2> QED
    BY <2>1, EndsInv, Zenon
<1>3. CASE UpdateRow(p)
  <2>a. cur[p] \in Names /\ listing[p][cur[p]] \in Contents
    BY <1>i, <1>3, ListingFacts, Zenon DEF UpdateRow, PushTypeOK, HandlerOK, Waiting
  <2>b. Siphonfile = cur[p] => listing[p][cur[p]] \notin BadMeta
    BY <1>i, <1>3, Zenon DEF UpdateRow, HandlerOK, Loaded, Waiting
  <2>c. /\ FilesTypeOK'
        /\ \A m \in Names : \/ rows'[Dev][m] = rows[Dev][m]
                            \/ m = cur[p] /\ rows'[Dev][m] = listing[p][m]
    BY <1>i, <1>3, <2>a, UpdateFacts, Zenon DEF UpdateRow, PushTypeOK
  <2>1. Others(p)
    BY <1>3, <1>s, Zenon DEF UpdateRow, Hangup, Others, Shapes
  <2>2. FaultsGrow
    BY <1>3, FaultGrows, Zenon DEF UpdateRow
  <2>3. CacheInv'
    BY <1>3, <1>i, <2>2, HangupInv, Zenon DEF UpdateRow
  <2>4. CacheTypeOK'
    BY <2>3, Zenon DEF CacheInv
  <2>v. StoredAccepted'
    BY PushAssumption, StoreAssumption, <1>i, <2>b, <2>c, Zenon DEF StoredAccepted
  <2>5. PushTypeOK'
    BY <1>3, <1>i, <2>4, <2>a, <2>c, Zenon DEF UpdateRow, PushTypeOK, Steps
  <2>d. added'[p] \cup changed'[p] \subseteq diffs[p]
    BY <1>3, <1>i, <1>s, Zenon DEF UpdateRow, Waiting, HandlerOK, Shapes
  <2>6. HandlerOK(p)'
    BY <1>3, <1>i, <1>s, <2>d, Zenon DEF UpdateRow, Waiting, HandlerOK, Loaded, Shapes
  <2> QED
    BY <2>1, <2>3, <2>5, <2>6, <2>v, StepInv, Zenon
<1>4. CASE UpdateRowFails(p)
  <2>a. cur[p] \in Names /\ listing[p][cur[p]] \in Contents
    BY <1>i, <1>4, ListingFacts, Zenon DEF UpdateRowFails, PushTypeOK, HandlerOK, Waiting
  <2>b. Siphonfile = cur[p] => listing[p][cur[p]] \notin BadMeta
    BY <1>i, <1>4, Zenon DEF UpdateRowFails, HandlerOK, Loaded, Waiting
  <2>c. /\ FilesTypeOK'
        /\ \A m \in Names : \/ rows'[Dev][m] = rows[Dev][m]
                            \/ m = cur[p] /\ rows'[Dev][m] = listing[p][m]
    <3>1. CASE WriteRow(p)
      BY <1>i, <2>a, <3>1, UpdateFacts, Zenon DEF PushTypeOK
    <3>2. CASE UNCHANGED rows
      BY <1>i, <3>2, Zenon DEF PushTypeOK, FilesTypeOK
    <3> QED
      BY <1>4, <3>1, <3>2, Zenon DEF UpdateRowFails
  <2>1. Others(p)
    BY <1>4, <1>s, Zenon DEF UpdateRowFails, Hangup, Others, Shapes
  <2>2. FaultsGrow
    BY <1>4, FaultGrows, Zenon DEF UpdateRowFails
  <2>3. CacheInv'
    BY <1>4, <1>i, <2>2, HangupInv, Zenon DEF UpdateRowFails
  <2>4. CacheTypeOK'
    BY <2>3, Zenon DEF CacheInv
  <2>v. StoredAccepted'
    BY PushAssumption, StoreAssumption, <1>i, <2>b, <2>c, Zenon DEF StoredAccepted
  <2> QED
    BY <1>4, <1>i, <2>1, <2>3, <2>4, <2>v, ReturnInv, <2>c, Zenon DEF UpdateRowFails, PushTypeOK
<1>5. CASE RemoveCache(p)
  <2>a. PICK n \in removed[p], f \in Listings :
          /\ f[n] # None
          /\ cur' = [cur EXCEPT ![p] = n]
          /\ \/ Goto(p, "rowdel") /\ UNCHANGED <<call, doomed>>
             \/ /\ BeginDelete(p, FileKey(f[n]))
                /\ doomed' = doomed \cup {n}
                /\ Goto(p, "deleting")
    BY <1>5, Zenon DEF RemoveCache
  <2>b. n \in Names /\ FileKey(f[n]) \in Keys
    BY <1>i, <2>a, KeyFacts, ListingFacts, Zenon DEF PushTypeOK
  <2>1. Others(p)
    BY <1>5, <1>s, <2>a, Zenon DEF RemoveCache, BeginGet, BeginSet, BeginDelete, Begin,
       Others, Shapes
  <2>2. FaultsGrow
    BY <1>5, ReadGrows, Zenon DEF RemoveCache
  <2>3. CacheInv'
    BY <1>5, <1>i, <2>2, BeginInv, <2>a, <2>b, FaultInv, Zenon DEF RemoveCache
  <2>4. CacheTypeOK'
    BY <2>3, Zenon DEF CacheInv
  <2>v. StoredAccepted'
    BY <1>5, <1>i, Zenon DEF RemoveCache, StoredAccepted
  <2>5. PushTypeOK'
    BY <1>5, <1>i, <2>4, <2>a, <2>b, Zenon DEF RemoveCache, PushTypeOK, FilesTypeOK, Steps
  <2>6. HandlerOK(p)'
    BY <1>5, <1>i, <1>s, <2>a, Zenon DEF RemoveCache, HandlerOK, Loaded, Shapes, Removing
  <2> QED
    BY <2>1, <2>3, <2>5, <2>6, <2>v, StepInv, Zenon
<1>6. CASE RemoveHashMissing(p)
  <2>1. Ends(p)
    <3>1. FaultsGrow
      BY <1>6, ReadGrows, Zenon DEF RemoveHashMissing
    <3> QED
      BY <1>6, <1>d, <3>1, Zenon DEF RemoveHashMissing, Ends
  <2> QED
    BY <2>1, EndsInv, Zenon
<1>7. CASE RemoveCacheFails(p)
  <2>1. Ends(p)
    BY <1>7, <1>d, <1>g, Zenon DEF RemoveCacheFails, Ends
  <2> QED
    BY <2>1, EndsInv, Zenon
<1>8. CASE RemoveRow(p)
  <2>a. cur[p] \in Names /\ FilesTypeOK
    BY <1>i, <1>8, Zenon DEF RemoveRow, PushTypeOK, HandlerOK, Waiting
  <2>b. FilesTypeOK' /\ \A m \in Names : rows'[Dev][m] \in {rows[Dev][m], None}
    BY <1>8, <2>a, DeleteFileFacts, Zenon DEF RemoveRow, FilesTypeOK
  <2>1. Others(p)
    BY <1>8, <1>s, Zenon DEF RemoveRow, Hangup, Others, Shapes
  <2>2. FaultsGrow
    BY <1>8, FaultGrows, Zenon DEF RemoveRow
  <2>3. CacheInv'
    BY <1>8, <1>i, <2>2, HangupInv, Zenon DEF RemoveRow
  <2>4. CacheTypeOK'
    BY <2>3, Zenon DEF CacheInv
  <2>v. StoredAccepted'
    BY StoreAssumption, NoneAccepted, <1>i, <2>b, Zenon DEF StoredAccepted
  <2>5. PushTypeOK'
    BY <1>8, <1>i, <2>4, <2>b, Zenon DEF RemoveRow, PushTypeOK, Steps
  <2>6. HandlerOK(p)'
    BY <1>8, <1>i, <1>s, Zenon DEF RemoveRow, HandlerOK, Loaded, Shapes, Waiting
  <2> QED
    BY <2>1, <2>3, <2>5, <2>6, <2>v, StepInv, Zenon
<1>9. CASE RemoveRowFails(p)
  <2>a. cur[p] \in Names /\ FilesTypeOK
    BY <1>i, <1>9, Zenon DEF RemoveRowFails, PushTypeOK, HandlerOK, Waiting
  <2>b. FilesTypeOK' /\ \A m \in Names : rows'[Dev][m] \in {rows[Dev][m], None}
    BY <1>9, <2>a, DeleteFileFacts, Zenon DEF RemoveRowFails, FilesTypeOK
  <2>1. Others(p)
    BY <1>9, <1>s, Zenon DEF RemoveRowFails, Hangup, Others, Shapes
  <2>2. FaultsGrow
    BY <1>9, FaultGrows, Zenon DEF RemoveRowFails
  <2>3. CacheInv'
    BY <1>9, <1>i, <2>2, HangupInv, Zenon DEF RemoveRowFails
  <2>4. CacheTypeOK'
    BY <2>3, Zenon DEF CacheInv
  <2>v. StoredAccepted'
    BY StoreAssumption, NoneAccepted, <1>i, <2>b, Zenon DEF StoredAccepted
  <2> QED
    BY <1>9, <1>i, <2>1, <2>3, <2>4, <2>v, ReturnInv, <2>b, Zenon DEF RemoveRowFails, PushTypeOK
<1>10. CASE ArchiveUnreadable(p)
  <2>1. Ends(p)
    BY <1>10, <1>d, <1>g, Zenon DEF ArchiveUnreadable, Ends
  <2> QED
    BY <2>1, EndsInv, Zenon
<1> QED
  BY <1>1, <1>2, <1>3, <1>4, <1>5, <1>6, <1>7, <1>8, <1>9, <1>10, Zenon DEF ApplyStep

\* Building and storing the footers keeps the invariant.
LEMMA FooterStepInv ==
  ASSUME PushInv, NEW p \in Pushers, FooterStep(p)
  PROVE  PushInv'
<1>i. CacheInv /\ PushTypeOK /\ HandlerOK(p) /\ StoredAccepted /\ p \in Procs
  BY PushAssumption, StoreAssumption, Zenon DEF PushInv
<1>s. Shapes
  BY PushShapes, Zenon
<1>d. dirs[p] \subseteq {"archive", "project", "footers"}
  BY <1>i, Zenon DEF PushTypeOK
<1>g. \A kind : Fault(kind) \/ NoFault => FaultsGrow
  BY FaultGrows, Zenon
<1>1. CASE NoChanges(p)
  <2>1. Ends(p)
    BY <1>1, <1>d, <1>g, Zenon DEF NoChanges, Ends
  <2> QED
    BY <2>1, EndsInv, Zenon
<1>2. CASE FilesToTemp(p)
  <2>a. PICK f \in Listings :
          /\ files' = [files EXCEPT ![p] = f]
          /\ fetch' = [fetch EXCEPT ![p] = In(f) \ diffs[p]]
          /\ tmp' = [tmp EXCEPT ![p] =
                       [n \in Names |-> IF n \in In(f) \cap diffs[p]
                                        THEN listing[p][n] ELSE None]]
    BY <1>2, Zenon DEF FilesToTemp
  <2>b. /\ In(f) \ diffs[p] \in SUBSET Names
        /\ [n \in Names |-> IF n \in In(f) \cap diffs[p] THEN listing[p][n] ELSE None]
             \in Listings
    BY <1>i, SMTT(30) DEF PushTypeOK, Listings, In
  <2>1. Others(p)
    BY <1>2, <1>s, <2>a, Zenon DEF FilesToTemp, Others, Shapes
  <2>2. FaultsGrow
    BY <1>2, ReadGrows, Zenon DEF FilesToTemp
  <2>3. CacheInv'
    BY <1>2, <1>i, <2>2, FaultInv, Zenon DEF FilesToTemp
  <2>4. CacheTypeOK'
    BY <2>3, Zenon DEF CacheInv
  <2>v. StoredAccepted'
    BY <1>2, <1>i, Zenon DEF FilesToTemp, StoredAccepted
  <2>5. PushTypeOK'
    BY <1>2, <1>i, <2>4, <2>a, <2>b, Zenon DEF FilesToTemp, PushTypeOK, FilesTypeOK, Steps
  <2>c. fetch'[p] \subseteq In(files'[p])
    BY <1>s, <2>a, Zenon DEF Shapes
  <2>6. HandlerOK(p)'
    BY <1>2, <1>i, <1>s, <2>c, Zenon DEF FilesToTemp, Applied, HandlerOK, Loaded, Shapes
  <2> QED
    BY <2>1, <2>3, <2>5, <2>6, <2>v, StepInv, Zenon
<1>3. CASE Fetch(p)
  <2>a. PICK n \in fetch[p] :
          /\ cur' = [cur EXCEPT ![p] = n]
          /\ BeginGet(p, FileKey(files[p][n]))
    BY <1>3, Zenon DEF Fetch
  <2>b. /\ n \in Names
        /\ files[p][n] \in Contents
        /\ FileKey(files[p][n]) \in Keys
    BY <1>i, <1>3, KeyFacts, ListingFacts, Zenon DEF Fetch, HandlerOK, PushTypeOK
  <2>c. call'[p].op = "get" /\ call'[p].key = FileKey(files[p][n])
    BY <1>i, <1>s, <2>a, Zenon DEF BeginGet, Begin, Shapes
  <2>1. Others(p)
    BY <1>3, <1>s, <2>a, Zenon DEF Fetch, BeginGet, BeginSet, BeginDelete, Begin, Others, Shapes
  <2>2. FaultsGrow
    BY <1>3, FaultGrows, Zenon DEF Fetch
  <2>3. CacheInv'
    BY <1>3, <1>i, <2>2, BeginInv, <2>a, <2>b, Zenon DEF Fetch
  <2>4. CacheTypeOK'
    BY <2>3, Zenon DEF CacheInv
  <2>v. StoredAccepted'
    BY <1>3, <1>i, Zenon DEF Fetch, StoredAccepted
  <2>5. PushTypeOK'
    BY <1>3, <1>i, <2>4, <2>a, <2>b, Zenon DEF Fetch, PushTypeOK, FilesTypeOK, Steps
  <2>6. HandlerOK(p)'
    BY <1>3, <1>i, <1>s, <2>a, <2>b, <2>c, Zenon DEF Fetch, HandlerOK, Loaded, Shapes
  <2> QED
    BY <2>1, <2>3, <2>5, <2>6, <2>v, StepInv, Zenon
<1>4. CASE Fetched(p)
  <2>a. cur[p] \in Names
    BY <1>i, <1>4, Zenon DEF Fetched, HandlerOK, Waiting, PushTypeOK
  <2>b. call[p].val \in Contents
    BY <1>4, GotContent, Zenon DEF Fetched, Waiting
  <2>c. [tmp[p] EXCEPT ![cur[p]] = call[p].val] \in Listings
    BY <1>i, <2>a, <2>b, ListingFacts, Zenon DEF PushTypeOK
  <2>1. Others(p)
    BY <1>4, <1>s, Zenon DEF Fetched, Hangup, Others, Shapes
  <2>2. FaultsGrow
    BY <1>4, FaultGrows, Zenon DEF Fetched
  <2>3. CacheInv'
    BY <1>4, <1>i, <2>2, HangupInv, Zenon DEF Fetched
  <2>4. CacheTypeOK'
    BY <2>3, Zenon DEF CacheInv
  <2>v. StoredAccepted'
    BY <1>4, <1>i, Zenon DEF Fetched, StoredAccepted
  <2>5. PushTypeOK'
    BY <1>4, <1>i, <2>4, <2>c, Zenon DEF Fetched, PushTypeOK, FilesTypeOK, Steps
  <2>6. HandlerOK(p)'
    BY <1>4, <1>i, <1>s, Zenon DEF Fetched, HandlerOK, Loaded, Shapes, Waiting
  <2> QED
    BY <2>1, <2>3, <2>5, <2>6, <2>v, StepInv, Zenon
<1>5. CASE FetchFails(p)
  <2>1. Ends(p)
    BY <1>5, <1>d, <1>g, Zenon DEF FetchFails, Ends, Cleanup
  <2> QED
    BY <2>1, EndsInv, Zenon
<1>6. CASE WriteLost(p)
  <2>a. PICK n \in In(tmp[p]) : tmp' = [tmp EXCEPT ![p] = [@ EXCEPT ![n] = None]]
    BY <1>6, Zenon DEF WriteLost
  <2>b. [tmp[p] EXCEPT ![n] = None] \in Listings
    BY <1>i, ListingFacts, Zenon DEF PushTypeOK
  <2>1. Others(p)
    BY <1>6, <1>s, Zenon DEF WriteLost, Others, Shapes
  <2>2. FaultsGrow
    BY <1>6, FaultGrows, Zenon DEF WriteLost
  <2>3. CacheInv'
    BY <1>6, <1>i, <2>2, FaultInv, Zenon DEF WriteLost
  <2>4. CacheTypeOK'
    BY <2>3, Zenon DEF CacheInv
  <2>v. StoredAccepted'
    BY <1>6, <1>i, Zenon DEF WriteLost, StoredAccepted
  <2>5. PushTypeOK'
    BY <1>6, <1>i, <2>4, <2>a, <2>b, Zenon DEF WriteLost, PushTypeOK, FilesTypeOK, Steps
  <2>6. HandlerOK(p)'
    BY <1>6, <1>i, <1>s, Zenon DEF WriteLost, HandlerOK, Loaded, Shapes
  <2> QED
    BY <2>1, <2>3, <2>5, <2>6, <2>v, StepInv, Zenon
<1>7. CASE BadIcon(p)
  <2>1. Ends(p)
    BY <1>7, <1>d, <1>g, Zenon DEF BadIcon, Ends, Cleanup
  <2> QED
    BY <2>1, EndsInv, Zenon
<1>8. CASE Package(p)
  <2>a. PICK out \in SUBSET Platforms : built' = [built EXCEPT ![p] = out]
    BY <1>8, PushAssumption, StoreAssumption, Zenon DEF Package
  <2>1. Others(p)
    BY <1>8, <1>s, Zenon DEF Package, Others, Shapes
  <2>2. FaultsGrow
    BY <1>8, FaultGrows, Zenon DEF Package
  <2>3. CacheInv'
    BY <1>8, <1>i, <2>2, FaultInv, Zenon DEF Package
  <2>4. CacheTypeOK'
    BY <2>3, Zenon DEF CacheInv
  <2>v. StoredAccepted'
    BY <1>8, <1>i, Zenon DEF Package, StoredAccepted
  <2>5. PushTypeOK'
    BY <1>8, <1>i, <2>4, <2>a, Zenon DEF Package, PushTypeOK, FilesTypeOK, Steps, Cleanup
  <2>6. HandlerOK(p)'
    BY <1>8, <1>i, <1>s, Zenon DEF Package, HandlerOK, Loaded, Shapes
  <2> QED
    BY <2>1, <2>3, <2>5, <2>6, <2>v, StepInv, Zenon
<1>9. CASE PackageFails(p)
  <2>1. Ends(p)
    BY <1>9, <1>d, <1>g, Zenon DEF PackageFails, Ends, Cleanup
  <2> QED
    BY <2>1, EndsInv, Zenon
<1>10. CASE PutMetadata(p)
  <2>1. Others(p)
    BY <1>10, <1>s, Zenon DEF PutMetadata, Others, Shapes
  <2>2. FaultsGrow
    BY <1>10, FaultGrows, Zenon DEF PutMetadata
  <2>3. CacheInv'
    BY <1>10, <1>i, <2>2, FaultInv, Zenon DEF PutMetadata
  <2>4. CacheTypeOK'
    BY <2>3, Zenon DEF CacheInv
  <2>v. StoredAccepted'
    BY <1>10, <1>i, Zenon DEF PutMetadata, StoredAccepted
  <2>5. PushTypeOK'
    BY <1>10, <1>i, <2>4, Zenon DEF PutMetadata, PushTypeOK, FilesTypeOK, Steps
  <2>6. HandlerOK(p)'
    BY <1>10, <1>i, <1>s, Zenon DEF PutMetadata, HandlerOK, Loaded, Shapes
  <2> QED
    BY <2>1, <2>3, <2>5, <2>6, <2>v, StepInv, Zenon
<1>11. CASE PutMetadataFails(p)
  <2>1. Ends(p)
    BY <1>11, <1>d, <1>g, Zenon DEF PutMetadataFails, Ends
  <2> QED
    BY <2>1, EndsInv, Zenon
<1>12. CASE SetBundleFooter(p)
  <2>a. NextPlatform(p) \in Platforms /\ meta[p] \in Contents /\ tmp[p] \in Listings
    BY <1>i, <1>12, Zenon DEF SetBundleFooter, NextPlatform, Platforms, PushTypeOK,
       HandlerOK, Loaded
  <2>b. /\ FooterKey(NextPlatform(p)) \in Keys
        /\ Footer(p, NextPlatform(p)) \in Domain[FooterKey(NextPlatform(p))]
    BY <2>a, KeyFacts, Zenon DEF Footer, Footers
  <2>1. Others(p)
    BY <1>12, <1>s, Zenon DEF SetBundleFooter, BeginGet, BeginSet, BeginDelete, Begin,
       Others, Shapes
  <2>2. FaultsGrow
    BY <1>12, FaultGrows, Zenon DEF SetBundleFooter
  <2>3. CacheInv'
    BY <1>12, <1>i, <2>2, BeginInv, <2>b, Zenon DEF SetBundleFooter
  <2>4. CacheTypeOK'
    BY <2>3, Zenon DEF CacheInv
  <2>v. StoredAccepted'
    BY <1>12, <1>i, Zenon DEF SetBundleFooter, StoredAccepted
  <2>5. PushTypeOK'
    BY <1>12, <1>i, <2>4, Zenon DEF SetBundleFooter, PushTypeOK, FilesTypeOK, Steps
  <2>6. HandlerOK(p)'
    BY <1>12, <1>i, <1>s, Zenon DEF SetBundleFooter, HandlerOK, Loaded, Shapes
  <2> QED
    BY <2>1, <2>3, <2>5, <2>6, <2>v, StepInv, Zenon
<1>13. CASE BundleFooterSet(p)
  <2>1. Others(p)
    BY <1>13, <1>s, Zenon DEF BundleFooterSet, Hangup, Others, Shapes
  <2>2. FaultsGrow
    BY <1>13, FaultGrows, Zenon DEF BundleFooterSet
  <2>3. CacheInv'
    BY <1>13, <1>i, <2>2, HangupInv, Zenon DEF BundleFooterSet
  <2>4. CacheTypeOK'
    BY <2>3, Zenon DEF CacheInv
  <2>v. StoredAccepted'
    BY <1>13, <1>i, Zenon DEF BundleFooterSet, StoredAccepted
  <2>5. PushTypeOK'
    BY <1>13, <1>i, <2>4, Zenon DEF BundleFooterSet, PushTypeOK, FilesTypeOK, Steps,
       NextPlatform, Platforms
  <2>6. HandlerOK(p)'
    BY <1>13, <1>i, <1>s, Zenon DEF BundleFooterSet, HandlerOK, Loaded, Shapes, Waiting
  <2> QED
    BY <2>1, <2>3, <2>5, <2>6, <2>v, StepInv, Zenon
<1>14. CASE SetBundleFooterFails(p)
  <2>1. Ends(p)
    BY <1>14, <1>d, <1>g, Zenon DEF SetBundleFooterFails, Ends, CleanupFooters
  <2> QED
    BY <2>1, EndsInv, Zenon
<1>15. CASE Done(p)
  <2>1. Ends(p)
    BY <1>15, <1>d, <1>g, Zenon DEF Done, PostAppUpdated, Ends, CleanupFooters
  <2> QED
    BY <2>1, EndsInv, Zenon
<1>16. CASE ContentUnreadable(p)
  <2>a. PICK n \in In(files[p]) \cap diffs[p] :
          /\ fetch' = [fetch EXCEPT ![p] = @ \cup {n}]
          /\ tmp' = [tmp EXCEPT ![p] = [@ EXCEPT ![n] = None]]
    BY <1>16, Zenon DEF ContentUnreadable
  <2>n. n \in Names /\ n \in In(files[p])
    BY <2>a, Zenon DEF In
  <2>b. [tmp[p] EXCEPT ![n] = None] \in Listings
    BY <1>i, <2>n, ListingFacts, Zenon DEF PushTypeOK
  <2>c. fetch[p] \cup {n} \subseteq Names
    BY <1>i, <2>n, Zenon DEF PushTypeOK
  <2>1. Others(p)
    BY <1>16, <1>s, <2>a, Zenon DEF ContentUnreadable, Others, Shapes
  <2>2. FaultsGrow
    BY <1>16, FaultGrows, Zenon DEF ContentUnreadable
  <2>3. CacheInv'
    BY <1>16, <1>i, <2>2, FaultInv, Zenon DEF ContentUnreadable
  <2>4. CacheTypeOK'
    BY <2>3, Zenon DEF CacheInv
  <2>v. StoredAccepted'
    BY <1>16, <1>i, Zenon DEF ContentUnreadable, StoredAccepted
  <2>5. PushTypeOK'
    <3>1. fetch' \in [Pushers -> SUBSET Names] /\ tmp' \in [Pushers -> Listings]
      BY <1>i, <2>a, <2>b, <2>c, Zenon DEF PushTypeOK
    <3> QED
      BY <1>16, <1>i, <2>4, <3>1, Zenon DEF ContentUnreadable, PushTypeOK, FilesTypeOK
  <2>6. HandlerOK(p)'
    <3>1. fetch'[p] = fetch[p] \cup {n}
      BY <1>s, <2>a, Zenon DEF Shapes
    <3> QED
      BY <1>16, <1>i, <2>n, <3>1, Zenon DEF ContentUnreadable, HandlerOK
  <2> QED
    BY <2>1, <2>3, <2>5, <2>6, <2>v, StepInv, Zenon
<1>17. CASE FooterUnreadable(p)
  <2>1. Ends(p)
    BY <1>17, <1>d, <1>g, Zenon DEF FooterUnreadable, Ends, CleanupFooters
  <2> QED
    BY <2>1, EndsInv, Zenon
<1> QED
  BY <1>1, <1>2, <1>3, <1>4, <1>5, <1>6, <1>7, <1>8, <1>9, <1>10, <1>11, <1>12, <1>13,
     <1>14, <1>15, <1>16, <1>17, Zenon DEF FooterStep

-----------------------------------------------------------------------------
(* The other steps, and the theorems.                                      *)

\* A step of a cache call keeps the invariant.
LEMMA CacheCallInv ==
  ASSUME PushInv, NEW p \in Pushers, CacheCall(p)
  PROVE  PushInv'
<1>i. CacheInv /\ CacheTypeOK /\ PushTypeOK /\ HandlerOK(p) /\ StoredAccepted /\ p \in Procs
  BY PushAssumption, StoreAssumption, Zenon DEF PushInv, PushTypeOK
<1>u. UNCHANGED <<pc, listing, diffs, meta, metaDirty, added, changed, removed, cur, dirty,
                  files, fetch, tmp, built, stored, dirs, result, notified, doomed, rows>>
  BY Zenon DEF CacheCall, pushVars
<1>k. /\ call'[p].op = call[p].op /\ call'[p].key = call[p].key
      /\ \A q \in Procs : q # p => call'[q] = call[q]
  BY <1>i, CacheStepKeeps, Zenon DEF CacheCall
<1>1. Others(p)
  BY <1>k, <1>u, PushAssumption, StoreAssumption, Zenon DEF Others
<1>2. CacheInv'
  BY <1>i, CacheStepInv, Zenon DEF CacheCall
<1>3. CacheTypeOK'
  BY <1>2, Zenon DEF CacheInv
<1>4. PushTypeOK'
  BY <1>i, <1>u, <1>3, Zenon DEF PushTypeOK, FilesTypeOK
<1>5. HandlerOK(p)'
  BY <1>i, <1>u, <1>k, Zenon DEF HandlerOK
<1>6. StoredAccepted'
  BY <1>i, <1>u, Zenon DEF StoredAccepted
<1> QED
  BY <1>1, <1>2, <1>4, <1>5, <1>6, StepInv, Zenon

\* So does an eviction.
LEMMA EvictItemInv ==
  ASSUME PushInv, EvictItem
  PROVE  PushInv'
<1>i. CacheInv /\ PushTypeOK /\ StoredAccepted /\ \A p \in Pushers : HandlerOK(p)
  BY Zenon DEF PushInv
<1>u. UNCHANGED <<pc, listing, diffs, meta, metaDirty, added, changed, removed, cur, dirty,
                  files, fetch, tmp, built, stored, dirs, result, notified, doomed, rows,
                  call>>
  BY Zenon DEF EvictItem, Evict, pushVars
<1>2. CacheInv'
  BY <1>i, EvictInv, Zenon DEF EvictItem
<1>3. CacheTypeOK'
  BY <1>2, Zenon DEF CacheInv
<1>4. PushTypeOK'
  BY <1>i, <1>u, <1>3, Zenon DEF PushTypeOK, FilesTypeOK
<1>5. \A p \in Pushers : HandlerOK(p)'
  BY <1>i, <1>u, Zenon DEF HandlerOK
<1> QED
  BY <1>i, <1>u, <1>2, <1>4, <1>5, Zenon DEF PushInv, StoredAccepted

\* What is left of the handlers after a reset.
LEMMA ResetFacts ==
  ASSUME PushInv, NEW P \in SUBSET Pushers, Reset(P), UNCHANGED <<rows, dirs, doomed>>,
         CacheInv', CacheTypeOK',
         \A q \in Pushers \ P : call'[q] = call[q]
  PROVE  PushInv'
<1>i. PushTypeOK /\ StoredAccepted /\ NoFiles \in Listings
  BY Zenon DEF PushInv, NoFiles, Listings
<1>1. PushTypeOK'
  BY <1>i, Zenon DEF Reset, PushTypeOK, FilesTypeOK, Steps
<1>2. ASSUME NEW q \in Pushers
      PROVE  HandlerOK(q)'
  <2>1. CASE q \in P
    BY <2>1, Zenon DEF Reset, HandlerOK, Loaded
  <2>2. CASE q \notin P
    <3>1. HandlerOK(q)
      BY Zenon DEF PushInv
    <3> QED
      BY <2>2, <3>1, Zenon DEF Reset, HandlerOK
  <2> QED
    BY <2>1, <2>2, Zenon
<1> QED
  BY <1>i, <1>1, <1>2, Zenon DEF PushInv, StoredAccepted

\* The end of a request keeps the invariant.
LEMMA EndInv ==
  ASSUME PushInv, NEW p \in Pushers, Return(p)
  PROVE  PushInv'
<1>1. CacheInv' /\ CacheTypeOK'
  BY CacheStutterInv, Zenon DEF PushInv, PushTypeOK, Return, CacheTypeOK
<1> QED
  BY <1>1, ResetFacts, Zenon DEF Return

\* A crash keeps the invariant.
LEMMA CrashInv ==
  ASSUME PushInv, Crash
  PROVE  PushInv'
<1>1. CacheInv
  BY Zenon DEF PushInv
<1>2. FaultsGrow
  BY FaultGrows, Zenon DEF Crash
<1>3. CacheInv'
  <2>1. UNCHANGED <<s3, mc>> /\ call' = [q \in Procs |-> NoCall]
    BY Zenon DEF Crash
  <2>2. NoCall \in Calls
    BY CacheAssumption DEF NoCall, Calls
  <2>3. faults' \in 0 .. MaxFaults
    BY <1>1, <1>2, FaultAssumption DEF CacheInv, CacheTypeOK, FaultsGrow
  <2>4. CacheTypeOK'
    BY <1>1, <2>1, <2>2, <2>3, Zenon DEF CacheInv, CacheTypeOK
  <2>5. \A q \in Procs : CallOK(q)'
    <3>1. faults' >= 0
      BY <2>3, FaultAssumption
    <3> QED
      BY <2>1, <3>1, Zenon DEF CallOK, NoCall
  <2> QED
    BY <1>1, <2>1, <2>4, <2>5, Zenon DEF CacheInv
<1>4. CacheTypeOK'
  BY <1>3, Zenon DEF CacheInv
<1> QED
  BY <1>3, <1>4, ResetFacts, Zenon DEF Crash

\* Every step keeps the invariant.
LEMMA PushNextInv == PushInv /\ [PushNext]_allPushVars => PushInv'
<1> SUFFICES ASSUME PushInv, [PushNext]_allPushVars
             PROVE  PushInv'
  BY Zenon
<1>1. ASSUME NEW p \in Pushers, Handler(p)
      PROVE  PushInv'
  BY <1>1, LoadStepInv, ApplyStepInv, FooterStepInv, CacheCallInv, Zenon DEF Handler
<1>2. CASE UNCHANGED allPushVars
  <2>1. UNCHANGED <<pc, listing, diffs, meta, metaDirty, added, changed, removed, cur,
                    dirty, files, fetch, tmp, built, stored, dirs, result, notified, doomed,
                    rows, call, s3, mc, faults>>
    BY <1>2, Zenon DEF allPushVars, pushVars
  <2>2. CacheInv'
    BY <2>1, CacheStutterInv, Zenon DEF PushInv
  <2>3. PushTypeOK'
    BY <2>1, Zenon DEF PushInv, PushTypeOK, CacheTypeOK, FilesTypeOK
  <2>4. \A p \in Pushers : HandlerOK(p)'
    BY <2>1, Zenon DEF PushInv, HandlerOK
  <2> QED
    BY <2>1, <2>2, <2>3, <2>4, Zenon DEF PushInv, StoredAccepted
<1> QED
  BY <1>1, <1>2, GetHashesInv, EndInv, EvictItemInv, CrashInv, Zenon DEF PushNext

\* The invariant holds in every reachable state.
THEOREM PushInvariant == PushSpec => []PushInv
  BY PushInitInv, PushNextInv, PTL DEF PushSpec

\* The variables of the handlers, of the cache and of the table keep their
\* types, whatever overlaps and whatever fails.
THEOREM PushTypes == PushSpec => []PushTypeOK
<1>1. PushInv => PushTypeOK
  BY Zenon DEF PushInv
<1> QED
  BY <1>1, PushInvariant, PTL

\* No push stores a Siphonfile that ParseMetadata rejects, for any number of
\* overlapping pushes of any projects and any faults, crashes included.
THEOREM PushSiphonfileValid == PushSpec => []StoredSiphonfileValid
<1>1. ASSUME PushInv
      PROVE  StoredSiphonfileValid
  <2>1. rows[Dev][Siphonfile] \in Contents \cup {None}
    BY <1>1, KeyFacts, ListingFacts, StoreAssumption, Zenon DEF PushInv, PushTypeOK, FilesTypeOK
  <2> QED
    BY <1>1, <2>1, AcceptedWithinLimits, Zenon DEF PushInv, StoredAccepted,
       StoredSiphonfileValid
<1> QED
  BY <1>1, PushInvariant, PTL

\* In S3 and in memcached every file is stored under its own hash, and a Get of
\* a hash that succeeds returns that file, for any number of pushes.
THEOREM PushOwnValues == PushSpec => []OwnValues
<1>1. PushInv => OwnValues
  BY Zenon DEF PushInv, CacheInv, OwnValues, CallOK
<1> QED
  BY <1>1, PushInvariant, PTL
-----------------------------------------------------------------------------
(* The calls of the handlers, for the other proofs about pushes.           *)

\* Hypotheses of the theorems that need them: the rows are read completely, and
\* no file of a temporary directory is lost.
ReadsComplete == "dbread" \notin FaultKinds
WritesComplete == "disk" \notin FaultKinds

\* The steps at which a handler waits for the cache.
Waits == {"metaget", "fetching", "setting", "storing", "deleting"}

\* A handler that waits for no call is in none.
WaitsOK(p) == pc[p] \notin Waits => call[p].op = "none"

\* The variables are functions on the pushers.
LEMMA LocalShapes ==
  ASSUME PushInv
  PROVE  /\ Shapes
         /\ DOMAIN tmp = Pushers /\ DOMAIN built = Pushers /\ DOMAIN stored = Pushers
         /\ DOMAIN result = Pushers /\ DOMAIN dirs = Pushers
         /\ DOMAIN metaDirty = Pushers /\ DOMAIN dirty = Pushers
<1>1. PushTypeOK
  BY Zenon DEF PushInv
<1> QED
  BY <1>1, PushShapes, Zenon DEF PushTypeOK

\* The handler of p does not wait for the cache after the step, which leaves
\* S3 and the rows alone.
Idles(p) ==
  /\ pc'[p] \notin Waits
  /\ call'[p].op = "none"
  /\ UNCHANGED <<s3, rows, doomed>>

\* The steps of a handler that are of this kind.
LEMMA HandlerIdles ==
  ASSUME PushInv, NEW p \in Pushers, pc[p] \notin Waits => call[p].op = "none",
         \/ GetHashes(p) \/ Return(p)
         \/ Decompress(p) \/ DecompressFails(p) \/ LoadFromArchive(p)
         \/ LoadHashFails(p) \/ LoadFromCache(p) \/ LoadFails(p) \/ Compare(p)
         \/ ArchiveUnreadable(p) \/ UpdateCacheFails(p) \/ RemoveHashMissing(p)
         \/ RemoveCacheFails(p) \/ NoChanges(p) \/ FilesToTemp(p)
         \/ ContentUnreadable(p) \/ Fetched(p) \/ FetchFails(p) \/ WriteLost(p)
         \/ BadIcon(p) \/ Package(p) \/ PackageFails(p) \/ PutMetadata(p)
         \/ PutMetadataFails(p) \/ FooterUnreadable(p) \/ BundleFooterSet(p)
         \/ SetBundleFooterFails(p) \/ Done(p)
  PROVE  Idles(p)
<1>s. Shapes /\ p \in Procs
  BY PushShapes, PushAssumption, StoreAssumption, Zenon
<1>b. pc[p] \notin Waits => call[p].op = "none"
  BY Zenon
<1>h. Hangup(p) => call'[p].op = "none"
  <2>1. DOMAIN call = Procs /\ p \in Procs
    BY <1>s, Zenon DEF Shapes
  <2> QED
    BY <2>1 DEF Hangup, NoCall
<1>1. CASE Decompress(p)
  BY <1>1, <1>s, <1>b, Zenon DEF Decompress, Idles, Waits, Shapes
<1>2. CASE DecompressFails(p)
  BY <1>2, <1>s, <1>b, Zenon DEF DecompressFails, Idles, Waits, Shapes
<1>3. CASE LoadFromArchive(p)
  BY <1>3, <1>s, <1>b, Zenon DEF LoadFromArchive, Idles, Waits, Shapes, ParseMetadata
<1>4. CASE LoadHashFails(p)
  BY <1>4, <1>s, <1>b, Zenon DEF LoadHashFails, Idles, Waits, Shapes
<1>5. CASE LoadFromCache(p)
  BY <1>5, <1>s, <1>h, Zenon DEF LoadFromCache, Idles, Waits, Shapes, ParseMetadata,
     Waiting, CallFailed
<1>6. CASE LoadFails(p)
  BY <1>6, <1>s, <1>h, Zenon DEF LoadFails, Idles, Waits, Shapes, Waiting, CallFailed
<1>7. CASE Compare(p)
  BY <1>7, <1>s, <1>b, Zenon DEF Compare, Idles, Waits, Shapes
<1>8. CASE ArchiveUnreadable(p)
  BY <1>8, <1>s, <1>b, Zenon DEF ArchiveUnreadable, Idles, Waits, Shapes
<1>9. CASE UpdateCacheFails(p)
  BY <1>9, <1>s, <1>h, Zenon DEF UpdateCacheFails, Idles, Waits, Shapes, Waiting, CallFailed
<1>10. CASE RemoveHashMissing(p)
  BY <1>10, <1>s, <1>b, Zenon DEF RemoveHashMissing, Idles, Waits, Shapes, Removing
<1>11. CASE RemoveCacheFails(p)
  BY <1>11, <1>s, <1>h, Zenon DEF RemoveCacheFails, Idles, Waits, Shapes, Waiting, CallFailed
<1>12. CASE NoChanges(p)
  BY <1>12, <1>s, <1>b, Zenon DEF NoChanges, Idles, Waits, Shapes, Applied
<1>13. CASE FilesToTemp(p)
  BY <1>13, <1>s, <1>b, Zenon DEF FilesToTemp, Idles, Waits, Shapes, Applied
<1>14. CASE ContentUnreadable(p)
  BY <1>14, <1>s, <1>b, Zenon DEF ContentUnreadable, Idles, Waits, Shapes
<1>15. CASE Fetched(p)
  BY <1>15, <1>s, <1>h, Zenon DEF Fetched, Idles, Waits, Shapes, Waiting, CallFailed
<1>16. CASE FetchFails(p)
  BY <1>16, <1>s, <1>h, Zenon DEF FetchFails, Idles, Waits, Shapes, Waiting, CallFailed
<1>17. CASE WriteLost(p)
  BY <1>17, <1>s, <1>b, Zenon DEF WriteLost, Idles, Waits, Shapes
<1>18. CASE BadIcon(p)
  BY <1>18, <1>s, <1>b, Zenon DEF BadIcon, Idles, Waits, Shapes
<1>19. CASE Package(p)
  BY <1>19, <1>s, <1>b, Zenon DEF Package, Idles, Waits, Shapes
<1>20. CASE PackageFails(p)
  BY <1>20, <1>s, <1>b, Zenon DEF PackageFails, Idles, Waits, Shapes
<1>21. CASE PutMetadata(p)
  BY <1>21, <1>s, <1>b, Zenon DEF PutMetadata, Idles, Waits, Shapes
<1>22. CASE PutMetadataFails(p)
  BY <1>22, <1>s, <1>b, Zenon DEF PutMetadataFails, Idles, Waits, Shapes
<1>23. CASE FooterUnreadable(p)
  BY <1>23, <1>s, <1>b, Zenon DEF FooterUnreadable, Idles, Waits, Shapes
<1>24. CASE BundleFooterSet(p)
  BY <1>24, <1>s, <1>h, Zenon DEF BundleFooterSet, Idles, Waits, Shapes, Waiting, CallFailed
<1>25. CASE SetBundleFooterFails(p)
  BY <1>25, <1>s, <1>h, Zenon DEF SetBundleFooterFails, Idles, Waits, Shapes, Waiting,
     CallFailed
<1>26. CASE Done(p)
  BY <1>26, <1>s, <1>b, Zenon DEF Done, PostAppUpdated, Idles, Waits, Shapes
<1>27. CASE GetHashes(p)
  BY <1>27, <1>s, <1>b, Zenon DEF GetHashes, Idles, Waits, Shapes
<1>28. CASE Return(p)
  BY <1>28, <1>b, Zenon DEF Return, Reset, Idles, Waits
<1> QED
  BY <1>1, <1>2, <1>3, <1>4, <1>5, <1>6, <1>7, <1>8, <1>9, <1>10, <1>11, <1>12, <1>13, <1>14,
     <1>15, <1>16, <1>17, <1>18, <1>19, <1>20, <1>21, <1>22, <1>23, <1>24, <1>25, <1>26, <1>27, <1>28, Zenon

\* A step of a call leaves the handler where it is.
LEMMA CallMoves ==
  ASSUME NEW p \in Pushers, CacheCall(p)
  PROVE  UNCHANGED <<rows, pc, listing, diffs, meta, added, changed, removed, cur, files,
                     fetch, tmp, built, stored, result, django, notified>>
  BY Zenon DEF CacheCall, pushVars

\* All steps of a handler are of this kind.
LEMMA HandlerCalls ==
  ASSUME NEW p \in Pushers,
         GetHashes(p) \/ Return(p) \/ LoadStep(p) \/ ApplyStep(p) \/ FooterStep(p)
  PROVE  MakesCall(p)
<1>1. CASE GetHashes(p) \/ Return(p)
  BY <1>1, Zenon DEF GetHashes, Return, MakesCall
<1>2. CASE \/ Decompress(p) \/ DecompressFails(p) \/ LoadFromArchive(p)
           \/ LoadHashFails(p) \/ Compare(p)
  BY <1>2, Zenon DEF Decompress, DecompressFails, LoadFromArchive, LoadHashFails, Compare,
                     MakesCall
<1>3. CASE LoadHash(p) \/ LoadFromCache(p) \/ LoadFails(p)
  BY <1>3, Zenon DEF LoadHash, LoadFromCache, LoadFails, MakesCall
<1>4. CASE ArchiveUnreadable(p) \/ RemoveHashMissing(p)
  BY <1>4, Zenon DEF ArchiveUnreadable, RemoveHashMissing, MakesCall
<1>5. CASE UpdateCache(p) \/ RemoveCache(p)
  BY <1>5, Zenon DEF UpdateCache, RemoveCache, MakesCall
<1>6. CASE \/ UpdateCacheFails(p) \/ RemoveCacheFails(p) \/ UpdateRow(p)
           \/ UpdateRowFails(p) \/ RemoveRow(p) \/ RemoveRowFails(p)
  BY <1>6, Zenon DEF UpdateCacheFails, RemoveCacheFails, UpdateRow, UpdateRowFails,
                     RemoveRow, RemoveRowFails, MakesCall
<1>7. CASE \/ NoChanges(p) \/ FilesToTemp(p) \/ ContentUnreadable(p) \/ WriteLost(p)
           \/ BadIcon(p) \/ Package(p) \/ PackageFails(p)
  BY <1>7, Zenon DEF NoChanges, FilesToTemp, ContentUnreadable, WriteLost, BadIcon, Package,
                     PackageFails, MakesCall
<1>8. CASE PutMetadata(p) \/ PutMetadataFails(p) \/ FooterUnreadable(p) \/ Done(p)
  BY <1>8, Zenon DEF PutMetadata, PutMetadataFails, FooterUnreadable, Done, MakesCall
<1>9. CASE Fetch(p) \/ SetBundleFooter(p)
  BY <1>9, Zenon DEF Fetch, SetBundleFooter, MakesCall
<1>10. CASE Fetched(p) \/ FetchFails(p) \/ BundleFooterSet(p) \/ SetBundleFooterFails(p)
  BY <1>10, Zenon DEF Fetched, FetchFails, BundleFooterSet, SetBundleFooterFails, MakesCall
<1> QED
  BY <1>1, <1>2, <1>3, <1>4, <1>5, <1>6, <1>7, <1>8, <1>9, <1>10, Zenon
     DEF LoadStep, ApplyStep, FooterStep

\* A handler that waits for no call is in none after any of its steps.
LEMMA HandlerWaits ==
  ASSUME PushInv, NEW p \in Pushers, WaitsOK(p),
         GetHashes(p) \/ Return(p) \/ Handler(p)
  PROVE  WaitsOK(p)'
<1>s. Shapes /\ p \in Procs
  BY PushShapes, PushAssumption, StoreAssumption, Zenon
<1>w. pc[p] \notin Waits => call[p].op = "none"
  BY Zenon DEF WaitsOK
<1>h. Hangup(p) => WaitsOK(p)'
  BY <1>s DEF Hangup, NoCall, Shapes, WaitsOK
<1>1. CASE Idles(p)
  BY <1>1, Zenon DEF Idles, WaitsOK
<1>2. CASE LoadHash(p) \/ UpdateCache(p) \/ Fetch(p) \/ SetBundleFooter(p)
  <2>1. pc'[p] \in {"metaget", "setting", "fetching", "storing"}
    BY <1>2, <1>s, Zenon DEF LoadHash, UpdateCache, Fetch, SetBundleFooter, Shapes
  <2> QED
    BY <2>1, Zenon DEF WaitsOK, Waits
<1>3. CASE UpdateRow(p) \/ UpdateRowFails(p) \/ RemoveRow(p) \/ RemoveRowFails(p)
  BY <1>3, <1>h, Zenon DEF UpdateRow, UpdateRowFails, RemoveRow, RemoveRowFails
<1>4. CASE RemoveCache(p)
  <2>1. pc[p] = "apply" /\ (pc'[p] = "deleting" \/ call' = call)
    BY <1>4, <1>s, Zenon DEF RemoveCache, Removing, Shapes
  <2> QED
    BY <1>w, <2>1, Zenon DEF WaitsOK, Waits
<1>5. CASE CacheCall(p)
  <2>1. UNCHANGED pc
    BY <1>5, CallMoves, Zenon
  <2>2. call'[p].op = call[p].op
    BY <1>5, <1>s, CacheStepKeeps, Zenon DEF CacheCall, PushInv, PushTypeOK
  <2> QED
    BY <1>w, <2>1, <2>2, Zenon DEF WaitsOK
<1> QED
  BY <1>w, <1>1, <1>2, <1>3, <1>4, <1>5, HandlerIdles, Zenon
     DEF Handler, LoadStep, ApplyStep, FooterStep

\* Between two calls, no step of a call can happen.
LEMMA NoStepWithoutCall ==
  ASSUME PushInv, NEW p \in Pushers, WaitsOK(p), CacheCall(p)
  PROVE  pc[p] \in Waits
<1>1. CallOK(p)
  BY PushAssumption, Zenon DEF PushInv, CacheInv
<1>2. call[p].at \notin {"idle", "ok", "err"}
  BY Zenon DEF CacheCall, CacheStep, GetStep, SetStep, DeleteStep, McHit, McMiss,
     McGetFails, S3Get,
         S3GetFails, Fill, FillFails, S3Put, S3PutFails, McSet, McSetFails, S3Del,
         S3DelFails, McDel, McDelFails
<1>3. call[p].at \in {"mcget", "s3get", "fill", "s3put", "mcset", "s3del", "mcdel"}
  BY <1>2, PushAssumption, Zenon DEF PushInv, CacheInv, CacheTypeOK, Calls
<1> QED
  BY <1>1, <1>3, Zenon DEF CallOK, WaitsOK

\* The handlers of the other pushes are left where they are.
PushApart(p) ==
  \A q \in Pushers :
    q # p => pc'[q] = pc[q] /\ stored'[q] = stored[q] /\ (q \in notified' => q \in notified)

\* So they are by every step of a push.
LEMMA PushStepsApart ==
  ASSUME PushInv, NEW p \in Pushers, GetHashes(p) \/ Handler(p) \/ Return(p)
  PROVE  PushApart(p)
<1> USE LocalShapes DEF PushApart
<1>1. CASE GetHashes(p) \/ LoadStep(p)
  BY <1>1, Zenon DEF GetHashes, LoadStep, Decompress, DecompressFails, LoadFromArchive,
     LoadHash,
         LoadHashFails, LoadFromCache, LoadFails, Compare, ParseMetadata, Shapes
<1>2. CASE ApplyStep(p)
  BY <1>2, Zenon DEF ApplyStep, ArchiveUnreadable, UpdateCache, UpdateCacheFails, UpdateRow,
         UpdateRowFails, RemoveCache, RemoveHashMissing, RemoveCacheFails, RemoveRow,
         RemoveRowFails, Shapes
<1>3. CASE FooterStep(p)
  <2>1. CASE NoChanges(p) \/ FilesToTemp(p) \/ ContentUnreadable(p) \/ Fetch(p)
    BY <2>1, Zenon DEF NoChanges, FilesToTemp, ContentUnreadable, Fetch, Shapes
  <2>2. CASE Fetched(p) \/ FetchFails(p) \/ WriteLost(p) \/ BadIcon(p) \/ Package(p)
    BY <2>2, Zenon DEF Fetched, FetchFails, WriteLost, BadIcon, Package, Shapes
  <2>3. CASE PackageFails(p) \/ PutMetadata(p) \/ PutMetadataFails(p) \/ SetBundleFooter(p)
    BY <2>3, Zenon DEF PackageFails, PutMetadata, PutMetadataFails, SetBundleFooter, Shapes
  <2>4. CASE FooterUnreadable(p) \/ BundleFooterSet(p) \/ SetBundleFooterFails(p)
    BY <2>4, Zenon DEF FooterUnreadable, BundleFooterSet, SetBundleFooterFails, Shapes
  <2>5. CASE Done(p)
    <3>1. pc' = [pc EXCEPT ![p] = "done"] /\ UNCHANGED stored
      BY <2>5, Zenon DEF Done
    <3>2. notified' = notified \/ notified' = notified \cup {p}
      BY <2>5, Zenon DEF Done, PostAppUpdated
    <3> QED
      BY <3>1, <3>2, Zenon DEF Shapes
  <2> QED
    BY <1>3, <2>1, <2>2, <2>3, <2>4, <2>5, Zenon DEF FooterStep
<1>4. CASE CacheCall(p)
  BY <1>4, CallMoves, Zenon
<1>5. CASE Return(p)
  BY <1>5, Zenon DEF Return, Reset
<1> QED
  BY <1>1, <1>2, <1>3, <1>4, <1>5, Zenon DEF Handler

=============================================================================
