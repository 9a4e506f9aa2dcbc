------------------------------ MODULE Mesh_proofs ------------------------------
(***************************************************************************)
(* What holds of every log and every agent, for all sets of members,       *)
(* manifests, texts and bodies; and, at the end, of every plan an agent    *)
(* makes from what is wanted (Reconcile).                                  *)
(***************************************************************************)
EXTENDS Mesh, SequenceTheorems, TLAPS

CONSTANTS Domains, Nodes, ThisNode \* of Reconcile, the rest of whose constants are the mesh's
INSTANCE Reconcile

(* Every envelope in a log was signed properly. *)
Signed(l) == \A i \in 1..Len(l.events) : l.events[i].signature = "good"

Core(env) == [issuer |-> env.issuer, seq |-> env.seq,
              lease_epoch |-> env.lease_epoch, body |-> env.body]

(* The hash of the head names the cores of the log, and each prev_hash the  *)
(* cores before it.                                                         *)
Chained(l) ==
  /\ Len(HeadHash(l)) = Len(l.events)
  /\ \A i \in 1..Len(l.events) :
       /\ HeadHash(l)[i] = Core(l.events[i])
       /\ Len(l.events[i].prev_hash) = i - 1
       /\ \A j \in 1..(i - 1) : l.events[i].prev_hash[j] = Core(l.events[j])

(* OneIssuerPerEpoch of one log. *)
Ordered(l) ==
  \A i, j \in 1..Len(l.events) : i < j =>
    /\ l.events[i].lease_epoch <= l.events[j].lease_epoch
    /\ l.events[i].lease_epoch = l.events[j].lease_epoch =>
         /\ l.events[i].issuer = l.events[j].issuer
         /\ l.events[j].seq = l.events[i].seq + (j - i)

LogOK(l) == /\ l \in EventLogs
            /\ HeadCached(l)
            /\ Signed(l) /\ Chained(l) /\ Ordered(l)

CoreType == [issuer : Members, seq : Nat, lease_epoch : Nat, body : EventBody]

LEMMA HashType == Hash = Seq(CoreType)
BY DEF Hash, CoreType

LEMMA HeadHashType == ASSUME NEW l \in EventLogs PROVE HeadHash(l) \in Hash
<1>1. l.head_hash \in Hash \cup {None}
  BY DEF EventLogs
<1>2. <<>> \in Hash
  BY HashType
<1> QED BY <1>1, <1>2 DEF HeadHash

LEMMA HashOfType ==
  ASSUME NEW env \in Envelope
  PROVE  /\ HashOf(env) \in Hash
         /\ HashOf(env) = Append(env.prev_hash, Core(env))
         /\ env.prev_hash \in Hash /\ Core(env) \in CoreType
<1>1. env.prev_hash \in Seq(CoreType)
  BY HashType DEF Envelope
<1>2. Core(env) \in CoreType
  BY DEF Envelope, Core, CoreType
<1>3. HashOf(env) = Append(env.prev_hash, Core(env))
  BY DEF HashOf, Core
<1> HIDE DEF CoreType
<1> QED BY <1>1, <1>2, <1>3, HashType

LEMMA EmptyLogOK == LogOK(EmptyLog)
<1>1. EmptyLog \in EventLogs
  BY DEF EmptyLog, EventLogs
<1>2. HeadHash(EmptyLog) = <<>>
  BY DEF HeadHash, EmptyLog
<1> QED BY <1>1, <1>2 DEF LogOK, EmptyLog, HeadCached, Signed, Chained, Ordered

(* What append makes of a log. *)
LEMMA Appended ==
  ASSUME NEW l \in EventLogs, NEW env \in Envelope
  PROVE  LET k == Committed(l, env)
         IN  /\ k \in EventLogs
             /\ Len(k.events) = Len(l.events) + 1
             /\ Len(l.events) \in Nat
             /\ k.events # <<>>
             /\ \A i \in 1..Len(l.events) : k.events[i] = l.events[i]
             /\ k.events[Len(l.events) + 1] = env
             /\ k.head_hash = HashOf(env) /\ k.head_epoch = env.lease_epoch
             /\ k.head_issuer = env.issuer /\ k.head_seq = env.seq
             /\ k.events = Append(l.events, env)
<1>1. l.events \in Seq(Envelope)
  BY DEF EventLogs
<1>2. /\ Append(l.events, env) \in Seq(Envelope)
      /\ Len(Append(l.events, env)) = Len(l.events) + 1
      /\ Len(l.events) \in Nat
      /\ \A i \in 1..Len(l.events) : Append(l.events, env)[i] = l.events[i]
      /\ Append(l.events, env)[Len(l.events) + 1] = env
  BY <1>1
<1>3. Append(l.events, env) # <<>>
  BY <1>1, AppendProperties
<1>4. /\ env.issuer \in Members /\ env.seq \in Nat /\ env.lease_epoch \in Nat
      /\ HashOf(env) \in Hash
  BY HashOfType DEF Envelope
<1> HIDE DEF Envelope, Hash
<1>5. Committed(l, env) \in EventLogs
  BY <1>2, <1>4 DEF Committed, EventLogs
<1> QED BY <1>2, <1>3, <1>5 DEF Committed

(* The head of a log that is not empty, in full. *)
LEMMA HeadOf ==
  ASSUME NEW l, LogOK(l), l.events # <<>>
  PROVE  /\ Len(l.events) \in Nat /\ Len(l.events) >= 1
         /\ l.events[Len(l.events)] \in Envelope
         /\ l.head_epoch = l.events[Len(l.events)].lease_epoch
         /\ l.head_issuer = l.events[Len(l.events)].issuer
         /\ l.head_seq = l.events[Len(l.events)].seq
<1>1. l.events \in Seq(Envelope)
  BY DEF LogOK, EventLogs
<1>2. Len(l.events) \in Nat /\ Len(l.events) >= 1
  BY <1>1, EmptySeq
<1>3. l.events[Len(l.events)] \in Envelope
  BY <1>1, <1>2, ElementOfSeq
<1> QED BY <1>2, <1>3 DEF LogOK, HeadCached

(* append keeps the order of epochs, issuers and seqs. *)
LEMMA AppendOrdered ==
  ASSUME NEW l, LogOK(l), NEW env \in Envelope, NEW trusted, Accepts(l, env, trusted)
  PROVE  Ordered(Committed(l, env))
<1> DEFINE k == Committed(l, env)
           n == Len(l.events)
<1>1. /\ Len(k.events) = n + 1 /\ n \in Nat
      /\ \A i \in 1..n : k.events[i] = l.events[i]
      /\ k.events[n + 1] = env
  BY Appended DEF LogOK
<1>2. \A i \in 1..n : l.events[i] \in Envelope
  BY ElementOfSeq DEF LogOK, EventLogs
<1>3. ASSUME NEW i \in 1..n
      PROVE  /\ l.events[i].lease_epoch <= env.lease_epoch
             /\ l.events[i].lease_epoch = env.lease_epoch =>
                  l.events[i].issuer = env.issuer /\ env.seq = l.events[i].seq + (n + 1 - i)
  <2>1. l.events # <<>>
    BY <1>1, <1>3
  <2>2. /\ l.events[n] \in Envelope
        /\ l.head_epoch = l.events[n].lease_epoch
        /\ l.head_issuer = l.events[n].issuer
        /\ l.head_seq = l.events[n].seq
    BY <2>1, HeadOf
  <2>3. /\ env.lease_epoch >= l.head_epoch
        /\ ~ (env.lease_epoch > l.head_epoch) => /\ env.issuer = l.head_issuer
                                                 /\ env.seq = l.head_seq + 1
    BY <2>1 DEF Accepts, EpochMonotonic, Continues, SameIssuerNextSeq
  <2>4. /\ l.events[i].lease_epoch <= l.events[n].lease_epoch
        /\ l.events[i].lease_epoch = l.events[n].lease_epoch =>
             l.events[i].issuer = l.events[n].issuer /\ l.events[n].seq = l.events[i].seq + (n - i)
    <3>1. CASE i = n
      <4>1. l.events[n].lease_epoch \in Nat /\ l.events[n].seq \in Nat
        BY <2>2 DEF Envelope
      <4> QED BY <3>1, <4>1, <1>1
    <3>2. CASE i # n
      <4>1. i \in 1..n /\ n \in 1..n /\ i < n
        BY <1>1, <1>3, <3>2
      <4> QED BY <4>1 DEF LogOK, Ordered
    <3> QED BY <3>1, <3>2
  <2>5. /\ env.lease_epoch \in Nat /\ env.seq \in Nat
        /\ l.events[i].lease_epoch \in Nat /\ l.events[i].seq \in Nat
        /\ l.events[n].lease_epoch \in Nat /\ l.events[n].seq \in Nat
    BY <1>2, <1>3, <2>2 DEF Envelope
  <2>6. l.events[i].lease_epoch <= env.lease_epoch
    BY <2>2, <2>3, <2>4, <2>5
  <2>7. ASSUME l.events[i].lease_epoch = env.lease_epoch
        PROVE  l.events[i].issuer = env.issuer /\ env.seq = l.events[i].seq + (n + 1 - i)
    <3>1. l.events[n].lease_epoch = env.lease_epoch
      BY <2>2, <2>3, <2>4, <2>5, <2>7
    <3>2. env.issuer = l.events[n].issuer /\ env.seq = l.events[n].seq + 1
      BY <3>1, <2>2, <2>3, <2>5
    <3>3. l.events[i].issuer = l.events[n].issuer /\ l.events[n].seq = l.events[i].seq + (n - i)
      BY <3>1, <2>7, <2>4
    <3>4. env.issuer = l.events[i].issuer
      BY <3>2, <3>3
    <3>5. env.seq = l.events[i].seq + (n + 1 - i)
      <4> DEFINE first == l.events[i].seq
                 last == l.events[n].seq
      <4>1. /\ first \in Nat /\ last \in Nat /\ env.seq \in Nat
            /\ n \in Nat /\ i \in Nat
        BY <2>5, <1>1, <1>3
      <4>2. env.seq = last + 1 /\ last = first + (n - i)
        BY <3>2, <3>3
      <4> HIDE DEF n, first, last
      <4>3. env.seq = first + (n + 1 - i)
        BY <4>1, <4>2
      <4> QED BY <4>3 DEF first
    <3> QED BY <3>4, <3>5
  <2> QED BY <2>6, <2>7
<1>4. ASSUME NEW i \in 1..Len(k.events), NEW j \in 1..Len(k.events), i < j
      PROVE  /\ k.events[i].lease_epoch <= k.events[j].lease_epoch
             /\ k.events[i].lease_epoch = k.events[j].lease_epoch =>
                  k.events[i].issuer = k.events[j].issuer /\ k.events[j].seq = k.events[i].seq + (j - i)
  <2>1. i \in 1..n /\ (j \in 1..n \/ j = n + 1)
    BY <1>1, <1>4
  <2>2. CASE j \in 1..n
    BY <2>1, <2>2, <1>1, <1>4, SMTT(30) DEF LogOK, Ordered
  <2>3. CASE j = n + 1
    BY <2>1, <2>3, <1>1, <1>3, SMTT(30)
  <2> QED BY <2>1, <2>2, <2>3
<1> QED BY <1>4 DEF Ordered

(* append keeps the chain of hashes. *)
LEMMA AppendChained ==
  ASSUME NEW l, LogOK(l), NEW env \in Envelope, NEW trusted, Accepts(l, env, trusted)
  PROVE  Chained(Committed(l, env))
<1> DEFINE k == Committed(l, env)
           n == Len(l.events)
<1>1. /\ Len(k.events) = n + 1 /\ n \in Nat
      /\ \A i \in 1..n : k.events[i] = l.events[i]
      /\ k.events[n + 1] = env
      /\ k.head_hash = HashOf(env)
  BY Appended DEF LogOK
<1>2. env.prev_hash = HeadHash(l) /\ HeadHash(l) \in Hash
  BY HeadHashType DEF Accepts, Linked, LogOK
<1>3. /\ HashOf(env) = Append(HeadHash(l), Core(env))
      /\ HashOf(env) \in Hash /\ Core(env) \in CoreType
  BY <1>2, HashOfType
<1>4. HeadHash(k) = HashOf(env)
  BY <1>1, <1>3, NoneAssumption DEF HeadHash
<1>5. Len(HeadHash(l)) = n
  BY DEF LogOK, Chained
<1>6. /\ Len(HeadHash(k)) = n + 1
      /\ \A i \in 1..n : HeadHash(k)[i] = HeadHash(l)[i]
      /\ HeadHash(k)[n + 1] = Core(env)
  <2>1. HeadHash(l) \in Seq(CoreType)
    BY <1>2, HashType
  <2> HIDE DEF CoreType, n, k
  <2> QED BY <2>1, <1>3, <1>4, <1>5, AppendProperties
<1>7. \A i \in 1..n : HeadHash(k)[i] = Core(k.events[i])
  BY <1>1, <1>6 DEF LogOK, Chained
<1>8. ASSUME NEW i \in 1..Len(k.events)
      PROVE  /\ HeadHash(k)[i] = Core(k.events[i])
             /\ Len(k.events[i].prev_hash) = i - 1
             /\ \A j \in 1..(i - 1) : k.events[i].prev_hash[j] = Core(k.events[j])
  <2>1. CASE i \in 1..n
    <3>1. /\ Len(l.events[i].prev_hash) = i - 1
          /\ \A j \in 1..(i - 1) : l.events[i].prev_hash[j] = Core(l.events[j])
      BY <2>1 DEF LogOK, Chained
    <3>2. \A j \in 1..(i - 1) : j \in 1..n
      BY <2>1, <1>1
    <3> QED BY <3>1, <3>2, <2>1, <1>1, <1>7
  <2>2. CASE i = n + 1
    <3>1. k.events[i].prev_hash = HeadHash(l)
      BY <2>2, <1>1, <1>2
    <3>2. \A j \in 1..n : HeadHash(l)[j] = Core(k.events[j])
      BY <1>6, <1>7
    <3>3. i - 1 = n
      BY <2>2, <1>1
    <3> QED BY <3>1, <3>2, <3>3, <2>2, <1>1, <1>5, <1>6
  <2> QED BY <2>1, <2>2, <1>1, <1>8
<1> QED BY <1>1, <1>6, <1>8 DEF Chained

LEMMA AppendOK ==
  ASSUME NEW l, LogOK(l), NEW env \in Envelope, NEW trusted, Accepts(l, env, trusted)
  PROVE  LogOK(Committed(l, env))
<1> DEFINE k == Committed(l, env)
           n == Len(l.events)
<1>1. /\ k \in EventLogs /\ k.events # <<>>
      /\ Len(k.events) = n + 1 /\ n \in Nat
      /\ \A i \in 1..n : k.events[i] = l.events[i]
      /\ k.events[n + 1] = env
      /\ k.head_hash = HashOf(env) /\ k.head_epoch = env.lease_epoch
      /\ k.head_issuer = env.issuer /\ k.head_seq = env.seq
  BY Appended DEF LogOK
<1>2. HeadCached(k)
  <2>1. k.events[Len(k.events)] = env
    BY <1>1
  <2> QED BY <1>1, <2>1 DEF HeadCached
<1>3. Signed(k)
  <2>1. env.signature = "good"
    BY DEF Accepts, Verifies
  <2>2. \A i \in 1..Len(k.events) : i \in 1..n \/ i = n + 1
    BY <1>1
  <2> QED BY <1>1, <2>1, <2>2 DEF Signed, LogOK
<1> QED BY <1>1, <1>2, <1>3, AppendOrdered, AppendChained DEF LogOK

-----------------------------------------------------------------------------
(* The agents. *)

LEMMA BodyCases ==
  ASSUME NEW body \in EventBody
  PROVE  \/ body = Claim \/ body = Release \/ body = Heartbeat
         \/ \E id \in Manifests, toml \in Tomls : body = Assign(id, toml)
         \/ \E id \in Manifests : body = Unassign(id)
         \/ \E id \in Manifests : body = Balloon(id)
BY DEF EventBody

(* What an accepted event does to the lease an agent honours. *)
LeaseAfter(w, env, v) ==
  /\ env.body.kind = "claim_lease" =>
       \/ StaleClaim(w, env.lease_epoch) /\ v = w
       \/ ~ StaleClaim(w, env.lease_epoch) /\ v.lease_holder = env.issuer
                                          /\ v.lease_epoch = env.lease_epoch
  /\ env.body.kind = "release_lease" =>
       /\ v.lease_holder = IF w.lease_holder = env.issuer THEN None ELSE w.lease_holder
       /\ v.lease_epoch = w.lease_epoch
  /\ env.body.kind \notin {"claim_lease", "release_lease"} =>
       v.lease_holder = w.lease_holder /\ v.lease_epoch = w.lease_epoch

LEMMA Reacted ==
  ASSUME NEW w \in WantedStates, NEW env \in Envelope
  PROVE  /\ React(w, env) \in WantedStates
         /\ LeaseAfter(w, env, React(w, env))
<1> DEFINE v == React(w, env)
<1>1. /\ env.issuer \in Members /\ env.lease_epoch \in Nat /\ env.body \in EventBody
      /\ w.lease_holder \in Members \cup {None} /\ w.lease_epoch \in Nat
      /\ w.manifests \in [Manifests -> WantedEntry \cup {None}]
      /\ None \notin Members
  BY MeshAssumption DEF Envelope, WantedStates, Members
<1>2. CASE env.body = Claim
  <2>1. v = ApplyClaim(w, env.issuer, env.lease_epoch)
    BY <1>2 DEF React, MayApply, ApplyEvent, Claim
  <2>2. CASE StaleClaim(w, env.lease_epoch)
    BY <1>2, <2>1, <2>2 DEF ApplyClaim, LeaseAfter, Claim
  <2>3. CASE ~ StaleClaim(w, env.lease_epoch)
    <3>1. v = [w EXCEPT !.lease_holder = env.issuer, !.lease_epoch = env.lease_epoch]
      BY <2>1, <2>3 DEF ApplyClaim
    <3>2. v \in WantedStates
      BY <1>1, <3>1 DEF WantedStates
    <3>3. v.lease_holder = env.issuer /\ v.lease_epoch = env.lease_epoch
      BY <3>1 DEF WantedStates
    <3>4. env.body.kind = "claim_lease"
      BY <1>2 DEF Claim
    <3> QED BY <2>3, <3>2, <3>3, <3>4 DEF LeaseAfter
  <2> QED BY <2>2, <2>3
<1>3. CASE env.body = Release
  <2>1. v = ApplyRelease(w, env.issuer)
    BY <1>3 DEF React, MayApply, ApplyEvent, Release
  <2> QED BY <1>1, <1>3, <2>1 DEF ApplyRelease, HoldsLease, LeaseAfter, Release, WantedStates
<1>4. CASE env.body = Heartbeat
  <2>1. v = w
    BY <1>4 DEF React, ApplyEvent, Heartbeat
  <2> QED BY <1>4, <2>1 DEF LeaseAfter, Heartbeat
<1>5. ASSUME NEW id \in Manifests, NEW toml \in Tomls, env.body = Assign(id, toml)
      PROVE  v \in WantedStates /\ LeaseAfter(w, env, v)
  <2>1. v = w \/ (toml # None /\ v = [w EXCEPT !.manifests[id] = Entry(toml, env.lease_epoch)])
    BY <1>5 DEF React, ApplyEvent, ApplyAssign, Assign
  <2>2. CASE v = w
    BY <1>5, <2>2 DEF LeaseAfter, Assign
  <2>3. CASE toml # None /\ v = [w EXCEPT !.manifests[id] = Entry(toml, env.lease_epoch)]
    <3>1. Entry(toml, env.lease_epoch) \in WantedEntry
      BY <1>1, <2>3 DEF Entry, WantedEntry
    <3> QED BY <1>1, <1>5, <2>3, <3>1 DEF LeaseAfter, Assign, WantedStates
  <2> QED BY <2>1, <2>2, <2>3
<1>6. ASSUME NEW id \in Manifests, env.body = Unassign(id)
      PROVE  v \in WantedStates /\ LeaseAfter(w, env, v)
  <2>1. v = w \/ v = [w EXCEPT !.manifests[id] = None]
    BY <1>6 DEF React, ApplyEvent, ApplyUnassign, Unassign
  <2> QED BY <1>1, <1>6, <2>1 DEF LeaseAfter, Unassign, WantedStates
<1>7. ASSUME NEW id \in Manifests, env.body = Balloon(id)
      PROVE  v \in WantedStates /\ LeaseAfter(w, env, v)
  <2>1. v = w
    BY <1>7 DEF React, ApplyEvent, Balloon
  <2> QED BY <1>7, <2>1 DEF LeaseAfter, Balloon
<1> QED BY <1>1, <1>2, <1>3, <1>4, <1>5, <1>6, <1>7, BodyCases

-----------------------------------------------------------------------------
(* Every step takes an envelope into one log, or leaves logs and agents     *)
(* alone.                                                                   *)

Signable == {env \in Envelope : env.lease_epoch \in 1..MaxEpoch}

Shape == /\ log \in [Members -> EventLogs]
         /\ trust \in [Members -> SUBSET Members]
         /\ sent \subseteq Signable
         /\ wanted \in [Agents -> WantedStates]

LEMMA StepCases ==
  ASSUME Shape, [Next]_vars
  PROVE  /\ trust' \in [Members -> SUBSET Members] /\ sent' \subseteq Signable
         /\ \/ log' = log /\ wanted' = wanted
            \/ \E m \in Members, env \in Signable : Take(m, env)
<1> USE DEF Shape
<1>1. ASSUME NEW m \in Members, NEW seq \in 0..MaxSent, NEW epoch \in 1..MaxEpoch,
             NEW body \in Bodies, Sign(m, seq, epoch, body)
      PROVE  /\ trust' = trust /\ sent' \subseteq Signable
             /\ \E env \in Signable : Take(m, env)
  <2> DEFINE env == SignEnvelope(m, seq, epoch, HeadHash(log[m]), body)
  <2>1. HeadHash(log[m]) \in Hash
    BY HeadHashType
  <2>2. seq \in Nat /\ epoch \in Nat /\ body \in EventBody
    BY MeshAssumption
  <2> HIDE DEF Hash, EventBody
  <2>3. env \in Signable
    BY <2>1, <2>2 DEF SignEnvelope, Envelope, Signable
  <2>4. Take(m, env) /\ trust' = trust /\ sent' = sent \cup {env}
    BY <1>1 DEF Sign
  <2> HIDE DEF env, Signable
  <2> QED BY <2>3, <2>4
<1>2. ASSUME NEW m \in Members, NEW sentEnv \in sent, Deliver(m, sentEnv)
      PROVE  /\ trust' = trust /\ sent' \subseteq Signable
             /\ \E env \in Signable : Take(m, env)
  <2>1. sentEnv \in Signable /\ Damaged(sentEnv) \in Signable
    BY DEF Damaged, Envelope, Signable
  <2> QED BY <1>2, <2>1 DEF Deliver
<1>3. ASSUME NEW m \in Members, NEW issuer \in Members, Trust(m, issuer)
      PROVE  /\ trust' \in [Members -> SUBSET Members] /\ sent' = sent
             /\ log' = log /\ wanted' = wanted
  BY <1>3 DEF Trust
<1>4. CASE UNCHANGED vars
  BY <1>4 DEF vars
<1> QED BY <1>1, <1>2, <1>3, <1>4 DEF Next

LEMMA Taken ==
  ASSUME Shape, NEW m \in Members, NEW env \in Envelope, Take(m, env)
  PROVE  /\ Accepts(log[m], env, trust[m])
         /\ log'[m] = Committed(log[m], env)
         /\ \A n \in Members \ {m} : log'[n] = log[n]
         /\ log' \in [Members -> EventLogs]
         /\ wanted' \in [Agents -> WantedStates]
         /\ m \in Agents => wanted'[m] = React(wanted[m], env)
         /\ \A a \in Agents \ {m} : wanted'[a] = wanted[a]
<1>1. /\ Accepts(log[m], env, trust[m])
      /\ log' = [log EXCEPT ![m] = Committed(log[m], env)]
      /\ wanted' = IF m \in Agents THEN [wanted EXCEPT ![m] = React(wanted[m], env)] ELSE wanted
  BY DEF Take
<1>2. Committed(log[m], env) \in EventLogs
  BY Appended DEF Shape
<1>3. m \in Agents => React(wanted[m], env) \in WantedStates
  BY Reacted DEF Shape
<1> HIDE DEF EventLogs, WantedStates
<1> QED BY <1>1, <1>2, <1>3 DEF Shape

(* An agent's lease is no later than its log's head. *)
LeaseBehind == \A a \in Agents : wanted[a].lease_epoch <= log[a].head_epoch

MeshInv == /\ Shape
           /\ \A m \in Members : LogOK(log[m])
           /\ LeaseBehind

LEMMA InitInv == Init => MeshInv
<1> SUFFICES ASSUME Init PROVE MeshInv
  OBVIOUS
<1>1. EmptyLog \in EventLogs /\ LogOK(EmptyLog)
  BY EmptyLogOK DEF LogOK
<1>2. NoWanted \in WantedStates
  BY DEF NoWanted, WantedStates
<1>3. Agents \subseteq Members /\ \A m \in Members : {m} \in SUBSET Members
  BY DEF Members
<1>4. Shape
  BY <1>1, <1>2, <1>3 DEF Init, Shape
<1>5. LeaseBehind
  BY <1>3 DEF Init, LeaseBehind, NoWanted, EmptyLog
<1> QED BY <1>1, <1>4, <1>5 DEF Init, MeshInv

LEMMA TakeInv ==
  ASSUME MeshInv, NEW m \in Members, NEW env \in Envelope, Take(m, env)
  PROVE  /\ \A n \in Members : LogOK(log'[n])
         /\ LeaseBehind'
         /\ \A a \in Agents : wanted'[a].lease_epoch >= wanted[a].lease_epoch
<1>1. /\ Accepts(log[m], env, trust[m])
      /\ log'[m] = Committed(log[m], env)
      /\ \A n \in Members \ {m} : log'[n] = log[n]
      /\ wanted' \in [Agents -> WantedStates]
      /\ m \in Agents => wanted'[m] = React(wanted[m], env)
      /\ \A a \in Agents \ {m} : wanted'[a] = wanted[a]
  BY Taken DEF MeshInv
<1>2. \A n \in Members : LogOK(log'[n])
  BY <1>1, AppendOK DEF MeshInv
<1>3. /\ \A a \in Agents : wanted[a] \in WantedStates /\ wanted[a].lease_epoch \in Nat
      /\ \A n \in Members : log[n].head_epoch \in Nat
      /\ env.lease_epoch \in Nat
      /\ Agents \subseteq Members
  BY DEF MeshInv, Shape, WantedStates, EventLogs, Envelope, Members
<1>4. log'[m].head_epoch = env.lease_epoch /\ env.lease_epoch >= log[m].head_epoch
  BY <1>1 DEF Committed, Accepts, EpochMonotonic
<1>5. ASSUME NEW a \in Agents
      PROVE  /\ wanted'[a].lease_epoch <= log'[a].head_epoch
             /\ wanted'[a].lease_epoch >= wanted[a].lease_epoch
  <2>1. wanted[a].lease_epoch <= log[a].head_epoch
    BY DEF MeshInv, LeaseBehind
  <2>2. CASE a = m
    <3>1. LeaseAfter(wanted[a], env, wanted'[a])
      BY <1>1, <1>3, <2>2, Reacted
    <3>2. \/ wanted'[a].lease_epoch = wanted[a].lease_epoch
          \/ wanted'[a].lease_epoch = env.lease_epoch
      BY <3>1 DEF LeaseAfter
    <3> QED BY <3>2, <2>1, <2>2, <1>3, <1>4
  <2>3. CASE a # m
    BY <2>1, <2>3, <1>1, <1>3
  <2> QED BY <2>2, <2>3
<1> QED BY <1>2, <1>5 DEF LeaseBehind

LEMMA NextInv == MeshInv /\ [Next]_vars => MeshInv'
<1> SUFFICES ASSUME MeshInv, [Next]_vars PROVE MeshInv'
  OBVIOUS
<1>1. /\ Shape
      /\ trust' \in [Members -> SUBSET Members] /\ sent' \subseteq Signable
  BY StepCases DEF MeshInv
<1>2. CASE log' = log /\ wanted' = wanted
  BY <1>1, <1>2 DEF MeshInv, Shape, LeaseBehind
<1>3. ASSUME NEW m \in Members, NEW env \in Signable, Take(m, env)
      PROVE  MeshInv'
  <2>1. log' \in [Members -> EventLogs] /\ wanted' \in [Agents -> WantedStates]
    BY <1>1, <1>3, Taken DEF Signable
  <2>2. Shape'
    BY <1>1, <2>1 DEF Shape
  <2>3. (\A n \in Members : LogOK(log'[n])) /\ LeaseBehind'
    BY <1>3, TakeInv DEF Signable
  <2> QED BY <2>2, <2>3 DEF MeshInv
<1> QED BY <1>1, <1>2, <1>3, StepCases

THEOREM Invariance == Spec => []MeshInv
<1> QED BY InitInv, NextInv, PTL DEF Spec

(* Every log and every agent keeps its type, and the cached head of a log   *)
(* is its last event's (chain.rs, append).                                  *)
THEOREM TypeCorrect == Spec => []TypeOK
<1>1. MeshInv => TypeOK
  BY DEF MeshInv, Shape, Signable, LogOK, TypeOK
<1> QED BY <1>1, Invariance, PTL

(* The rules of append keep one issuer per epoch and its seqs without gaps, *)
(* for any number of members, epochs and envelopes.                         *)
THEOREM IssuersAlone == Spec => []OneIssuerPerEpoch
<1>1. MeshInv => OneIssuerPerEpoch
  BY DEF MeshInv, LogOK, Ordered, OneIssuerPerEpoch
<1> QED BY <1>1, Invariance, PTL

(* An agent's lease epoch never falls, because its log never takes an older *)
(* epoch than its head's, and the lease is never ahead of the head.         *)
THEOREM LeaseEpochsGrow == Spec => LeaseEpochGrows
<1>1. MeshInv /\ [Next]_vars
        => [\A a \in Agents : wanted'[a].lease_epoch >= wanted[a].lease_epoch]_vars
  <2> SUFFICES ASSUME MeshInv, [Next]_vars, NEW a \in Agents
               PROVE  wanted'[a].lease_epoch >= wanted[a].lease_epoch
    OBVIOUS
  <2>1. CASE wanted' = wanted
    BY <2>1 DEF MeshInv, Shape, WantedStates
  <2>2. ASSUME NEW m \in Members, NEW env \in Signable, Take(m, env)
        PROVE  wanted'[a].lease_epoch >= wanted[a].lease_epoch
    BY <2>2, TakeInv DEF Signable
  <2>3. Shape
    BY DEF MeshInv
  <2> QED BY <2>1, <2>2, <2>3, StepCases
<1> QED BY <1>1, Invariance, PTL DEF Spec, LeaseEpochGrows

-----------------------------------------------------------------------------
(* Hashes. *)

(* Equal head hashes mean equal histories: the hash of the head fixes the   *)
(* core of every event and every prev_hash, and signatures are good.        *)
THEOREM HeadsTellHistories == Spec => []SameHeadSameHistory
<1>1. ASSUME NEW k, NEW l, LogOK(k), LogOK(l), HeadHash(k) = HeadHash(l)
      PROVE  k.events = l.events
  <2>1. /\ k.events \in Seq(Envelope) /\ l.events \in Seq(Envelope)
        /\ Len(k.events) = Len(l.events)
    BY <1>1 DEF LogOK, EventLogs, Chained
  <2>2. ASSUME NEW i \in 1..Len(k.events)
        PROVE  k.events[i] = l.events[i]
    <3>1. k.events[i] \in Envelope /\ l.events[i] \in Envelope
      BY <2>1, <2>2, ElementOfSeq
    <3>2. \A j \in 1..Len(k.events) : Core(k.events[j]) = Core(l.events[j])
      BY <1>1, <2>1 DEF LogOK, Chained
    <3>3. i \in Nat /\ \A j \in 1..(i - 1) : j \in 1..Len(k.events)
      <4>1. Len(k.events) \in Nat
        BY <2>1
      <4> QED BY <4>1, <2>2
    <3>4. /\ Len(k.events[i].prev_hash) = i - 1 /\ Len(l.events[i].prev_hash) = i - 1
          /\ \A j \in 1..(i - 1) : k.events[i].prev_hash[j] = l.events[i].prev_hash[j]
      BY <1>1, <2>1, <2>2, <3>2, <3>3 DEF LogOK, Chained
    <3>5. k.events[i].prev_hash = l.events[i].prev_hash
      <4>1. k.events[i].prev_hash \in Seq(CoreType) /\ l.events[i].prev_hash \in Seq(CoreType)
        BY <3>1, HashType DEF Envelope
      <4> HIDE DEF CoreType
      <4> QED BY <3>4, <4>1, SeqEqual
    <3>6. k.events[i].signature = l.events[i].signature
      BY <1>1, <2>1, <2>2 DEF LogOK, Signed
    <3>7. /\ k.events[i].issuer = l.events[i].issuer /\ k.events[i].seq = l.events[i].seq
          /\ k.events[i].lease_epoch = l.events[i].lease_epoch
          /\ k.events[i].body = l.events[i].body
      BY <3>2, <2>2 DEF Core
    <3> QED BY <3>1, <3>5, <3>6, <3>7 DEF Envelope
  <2> HIDE DEF Envelope
  <2> QED BY <2>1, <2>2, SeqEqual
<1>2. MeshInv => SameHeadSameHistory
  BY <1>1 DEF MeshInv, SameHeadSameHistory
<1> QED BY <1>2, Invariance, PTL

-----------------------------------------------------------------------------
(* Leases and manifests. *)

(* LeaseFollowsLog of one agent: l is its log and w its desired state. *)
Claims(l) == {i \in 1..Len(l.events) : l.events[i].body.kind = "claim_lease"}

Released(l, last) == \E i \in last..Len(l.events) :
                       /\ l.events[i].body.kind = "release_lease"
                       /\ l.events[i].issuer = l.events[last].issuer

Follows(w, l) ==
  IF Claims(l) = {}
  THEN w.lease_holder = None /\ w.lease_epoch = 0
  ELSE \E last \in Claims(l) :
         /\ \A i \in Claims(l) : i <= last
         /\ w.lease_epoch = l.events[last].lease_epoch
         /\ w.lease_holder = IF Released(l, last) THEN None ELSE l.events[last].issuer

LEMMA TakeFollows ==
  ASSUME NEW l, LogOK(l), NEW w \in WantedStates, NEW env \in Envelope, NEW trusted,
         Accepts(l, env, trusted), w.lease_epoch <= l.head_epoch, Follows(w, l)
  PROVE  Follows(React(w, env), Committed(l, env))
<1> DEFINE k == Committed(l, env)
           v == React(w, env)
           n == Len(l.events)
<1>1. /\ Len(k.events) = n + 1 /\ n \in Nat
      /\ \A i \in 1..n : k.events[i] = l.events[i]
      /\ k.events[n + 1] = env
  BY Appended DEF LogOK
<1>2. LeaseAfter(w, env, v)
  BY Reacted
<1>3. None \notin Members /\ env.issuer \in Members /\ env.lease_epoch \in Nat
  BY MeshAssumption DEF Members, Envelope
<1>4. \A i \in 1..n : l.events[i] \in Envelope
  BY ElementOfSeq DEF LogOK, EventLogs
<1>5. CASE env.body.kind = "claim_lease"
  <2>1. /\ n + 1 \in Claims(k)
        /\ \A i \in Claims(k) : i <= n + 1
        /\ Claims(k) # {}
    BY <1>1, <1>5 DEF Claims
  <2>2. ~ Released(k, n + 1)
    BY <1>1, <1>5 DEF Released
  <2>3. v.lease_holder = env.issuer /\ v.lease_epoch = env.lease_epoch
    <3>1. CASE ~ StaleClaim(w, env.lease_epoch)
      BY <1>2, <1>5, <3>1 DEF LeaseAfter
    <3>2. CASE StaleClaim(w, env.lease_epoch)
      <4>1. v = w /\ env.lease_epoch <= w.lease_epoch /\ w.lease_holder # None
        BY <1>2, <1>5, <3>2 DEF LeaseAfter, StaleClaim
      <4>2. PICK last \in Claims(l) : /\ w.lease_epoch = l.events[last].lease_epoch
                                      /\ w.lease_holder = l.events[last].issuer
        BY <4>1 DEF Follows
      <4>3. last \in 1..n /\ l.events # <<>>
        BY <1>1, <4>2 DEF Claims
      <4>4. /\ env.lease_epoch >= l.head_epoch /\ l.head_epoch \in Nat /\ w.lease_epoch \in Nat
            /\ ~ (env.lease_epoch > l.head_epoch) => env.issuer = l.head_issuer
        BY <4>3 DEF Accepts, EpochMonotonic, Continues, SameIssuerNextSeq, LogOK, EventLogs, WantedStates
      <4>5. /\ env.lease_epoch = l.head_epoch /\ w.lease_epoch = l.head_epoch
            /\ env.issuer = l.head_issuer
        BY <4>1, <4>4, <1>3
      <4>6. l.head_epoch = l.events[n].lease_epoch /\ l.head_issuer = l.events[n].issuer
        BY <4>3, HeadOf
      <4>7. l.events[last].issuer = l.events[n].issuer
        <5>1. CASE last = n
          BY <5>1
        <5>2. CASE last # n
          <6>1. last \in 1..n /\ n \in 1..n /\ last < n
            BY <5>2, <4>3, <1>1
          <6>2. l.events[last].lease_epoch = l.events[n].lease_epoch
            BY <4>2, <4>5, <4>6
          <6> QED BY <6>1, <6>2 DEF LogOK, Ordered
        <5> QED BY <5>1, <5>2
      <4> QED BY <4>1, <4>2, <4>5, <4>6, <4>7
    <3> QED BY <3>1, <3>2
  <2> HIDE DEF k, v, n
  <2>4. v.lease_epoch = k.events[n + 1].lease_epoch /\ v.lease_holder = k.events[n + 1].issuer
    BY <2>3, <1>1
  <2>5. Follows(v, k)
    BY <2>1, <2>2, <2>4 DEF Follows
  <2> QED BY <2>5 DEF k, v
<1>6. CASE env.body.kind # "claim_lease"
  <2>1. Claims(k) = Claims(l)
    <3>1. \A i : i \in 1..(n + 1) <=> i \in 1..n \/ i = n + 1
      BY <1>1
    <3> QED BY <1>1, <1>6, <3>1 DEF Claims
  <2>2. CASE Claims(l) = {}
    <3>1. w.lease_holder = None /\ w.lease_epoch = 0
      BY <2>2 DEF Follows
    <3>2. v.lease_holder = None /\ v.lease_epoch = 0
      BY <3>1, <1>2, <1>6 DEF LeaseAfter
    <3> QED BY <3>2, <2>1, <2>2 DEF Follows
  <2>3. CASE Claims(l) # {}
    <3>1. PICK last \in Claims(l) :
                 /\ \A i \in Claims(l) : i <= last
                 /\ w.lease_epoch = l.events[last].lease_epoch
                 /\ w.lease_holder = IF Released(l, last) THEN None ELSE l.events[last].issuer
      BY <2>3 DEF Follows
    <3>2. /\ last \in 1..n /\ k.events[last] = l.events[last]
          /\ l.events[last].issuer \in Members
      BY <1>1, <1>4, <3>1 DEF Claims, Envelope
    <3>3. v.lease_epoch = k.events[last].lease_epoch
      BY <1>2, <1>6, <3>1, <3>2 DEF LeaseAfter
    <3>4. Released(k, last) <=> \/ Released(l, last)
                                \/ /\ env.body.kind = "release_lease"
                                   /\ env.issuer = l.events[last].issuer
      <4>1. \A i : i \in last..(n + 1) <=> i \in last..n \/ i = n + 1
        BY <1>1, <3>2
      <4>2. \A i \in last..n : k.events[i] = l.events[i]
        BY <1>1, <3>2
      <4> QED BY <4>1, <4>2, <1>1, <3>2 DEF Released
    <3>5. v.lease_holder = IF Released(k, last) THEN None ELSE k.events[last].issuer
      <4>1. CASE env.body.kind = "release_lease"
        <5>1. v.lease_holder = IF w.lease_holder = env.issuer THEN None ELSE w.lease_holder
          BY <1>2, <4>1 DEF LeaseAfter
        <5> QED BY <5>1, <4>1, <3>1, <3>2, <3>4, <1>3
      <4>2. CASE env.body.kind # "release_lease"
        <5>1. v.lease_holder = w.lease_holder
          BY <1>2, <1>6, <4>2 DEF LeaseAfter
        <5> QED BY <5>1, <4>2, <3>1, <3>2, <3>4
      <4> QED BY <4>1, <4>2
    <3> HIDE DEF k, v, n
    <3>6. Follows(v, k)
      BY <2>1, <2>3, <3>1, <3>3, <3>5 DEF Follows
    <3> QED BY <3>6 DEF k, v
  <2> QED BY <2>2, <2>3
<1> QED BY <1>5, <1>6

AllFollow == \A a \in Agents : Follows(wanted[a], log[a])

LEMMA NextFollows == MeshInv /\ AllFollow /\ [Next]_vars => AllFollow'
<1> SUFFICES ASSUME MeshInv, AllFollow, [Next]_vars, NEW a \in Agents
             PROVE  Follows(wanted'[a], log'[a])
  BY DEF AllFollow
<1>1. /\ Shape /\ a \in Members /\ LogOK(log[a]) /\ wanted[a] \in WantedStates
      /\ wanted[a].lease_epoch <= log[a].head_epoch /\ Follows(wanted[a], log[a])
  BY DEF MeshInv, Shape, LeaseBehind, AllFollow, Members
<1>2. CASE log' = log /\ wanted' = wanted
  BY <1>1, <1>2
<1>3. ASSUME NEW m \in Members, NEW env \in Signable, Take(m, env)
      PROVE  Follows(wanted'[a], log'[a])
  <2>1. CASE a = m
    BY <1>1, <1>3, <2>1, Taken, TakeFollows DEF Signable
  <2>2. CASE a # m
    BY <1>1, <1>3, <2>2, Taken DEF Signable
  <2> QED BY <2>1, <2>2
<1> QED BY <1>1, <1>2, <1>3, StepCases

(* The lease an agent honours is the one of the last claim in its log,      *)
(* although apply_event compares no epochs after a release.                 *)
THEOREM LeasesFollowLogs == Spec => []LeaseFollowsLog
<1>1. Init => AllFollow
  <2> SUFFICES ASSUME Init, NEW a \in Agents PROVE Follows(wanted[a], log[a])
    BY DEF AllFollow
  <2>1. wanted[a] = NoWanted /\ log[a] = EmptyLog
    BY DEF Init, Members
  <2> QED BY <2>1 DEF Follows, Claims, NoWanted, EmptyLog
<1>2. AllFollow => LeaseFollowsLog
  BY DEF AllFollow, Follows, Claims, Released, LeaseFollowsLog
<1> QED BY <1>1, <1>2, NextFollows, Invariance, PTL DEF Spec

(* A manifest is set or withdrawn only by the lease holder, and only one    *)
(* whose lease policy allows that controller.                               *)
THEOREM ManifestsUnderLease == Spec => ManifestsMoveUnderLease
<1> DEFINE Moves(a, id) ==
             wanted'[a].manifests[id] # wanted[a].manifests[id] =>
               LET actor  == log'[a].head_issuer
                   policy == IF wanted'[a].manifests[id] # None
                             THEN wanted'[a].manifests[id].toml ELSE wanted[a].manifests[id].toml
               IN  /\ actor = wanted[a].lease_holder
                   /\ policy.controllers_allowed = {} \/ actor \in policy.controllers_allowed
<1>1. ASSUME NEW w \in WantedStates, NEW env \in Envelope, NEW id \in Manifests,
             React(w, env).manifests[id] # w.manifests[id]
      PROVE  LET v == React(w, env)
                 policy == IF v.manifests[id] # None THEN v.manifests[id].toml
                           ELSE w.manifests[id].toml
             IN  /\ env.issuer = w.lease_holder
                 /\ policy.controllers_allowed = {} \/ env.issuer \in policy.controllers_allowed
  <2> DEFINE v == React(w, env)
             policy == IF v.manifests[id] # None THEN v.manifests[id].toml
                       ELSE w.manifests[id].toml
  <2>1. /\ env.body \in EventBody
        /\ w.manifests \in [Manifests -> WantedEntry \cup {None}]
    BY DEF Envelope, WantedStates
  <2>2. MayApply(w, env.issuer, env.body) /\ v = ApplyEvent(w, env.issuer, env.lease_epoch, env.body)
    BY <1>1 DEF React
  <2>3. CASE env.body \in {Claim, Release, Heartbeat} \/ \E i \in Manifests : env.body = Balloon(i)
    <3>1. CASE env.body = Claim
      <4>1. v = ApplyClaim(w, env.issuer, env.lease_epoch)
        BY <2>2, <3>1 DEF ApplyEvent, Claim
      <4>2. v.manifests = w.manifests
        BY <4>1 DEF ApplyClaim, WantedStates
      <4> QED BY <4>2, <1>1
    <3>2. CASE env.body = Release
      <4>1. v = ApplyRelease(w, env.issuer)
        BY <2>2, <3>2 DEF ApplyEvent, Release
      <4>2. v.manifests = w.manifests
        BY <4>1 DEF ApplyRelease, WantedStates
      <4> QED BY <4>2, <1>1
    <3>3. CASE env.body = Heartbeat
      <4>1. v = w
        BY <3>3 DEF React, ApplyEvent, Heartbeat
      <4> QED BY <4>1, <1>1
    <3>4. ASSUME NEW i \in Manifests, env.body = Balloon(i)
          PROVE  FALSE
      <4>1. v = w
        BY <3>4 DEF React, ApplyEvent, Balloon
      <4> QED BY <4>1, <1>1
    <3> QED BY <2>3, <3>1, <3>2, <3>3, <3>4
  <2>4. ASSUME NEW i \in Manifests, NEW toml \in Tomls, env.body = Assign(i, toml)
        PROVE  /\ env.issuer = w.lease_holder
               /\ policy.controllers_allowed = {} \/ env.issuer \in policy.controllers_allowed
    <3>1. v = ApplyAssign(w, env.issuer, env.lease_epoch, env.body)
      BY <2>2, <2>4 DEF ApplyEvent, Assign
    <3>2. /\ HoldsLease(w, env.issuer) /\ toml # None
          /\ v = [w EXCEPT !.manifests[i] = Entry(toml, env.lease_epoch)]
      BY <1>1, <3>1, <2>4 DEF ApplyAssign, Assign
    <3>3. id = i /\ v.manifests[id] = Entry(toml, env.lease_epoch)
      BY <1>1, <2>1, <3>2 DEF WantedStates
    <3>4. v.manifests[id] # None /\ v.manifests[id].toml = toml
      <4>1. Entry(toml, env.lease_epoch).toml = toml
        BY DEF Entry
      <4>2. Entry(toml, env.lease_epoch) \in WantedEntry
        BY <3>2 DEF Entry, WantedEntry, Envelope
      <4> QED BY <4>1, <4>2, <3>3, NoneAssumption
    <3>5. ControllerAllowed(toml, env.issuer)
      BY <2>2, <2>4 DEF MayApply, GoverningPolicy, Assign
    <3> QED BY <3>2, <3>4, <3>5 DEF HoldsLease, ControllerAllowed
  <2>5. ASSUME NEW i \in Manifests, env.body = Unassign(i)
        PROVE  /\ env.issuer = w.lease_holder
               /\ policy.controllers_allowed = {} \/ env.issuer \in policy.controllers_allowed
    <3>1. v = ApplyUnassign(w, env.issuer, env.body)
      BY <2>2, <2>5 DEF ApplyEvent, Unassign
    <3>2. /\ HoldsLease(w, env.issuer)
          /\ v = [w EXCEPT !.manifests[i] = None]
      BY <1>1, <3>1, <2>5 DEF ApplyUnassign, Unassign
    <3>3. id = i /\ v.manifests[id] = None /\ w.manifests[id] # None
      BY <1>1, <2>1, <3>2 DEF WantedStates
    <3>4. ControllerAllowed(w.manifests[id].toml, env.issuer)
      BY <2>2, <2>5, <3>3 DEF MayApply, GoverningPolicy, Unassign
    <3> QED BY <3>2, <3>3, <3>4 DEF HoldsLease, ControllerAllowed
  <2> QED BY <2>1, <2>3, <2>4, <2>5, BodyCases
<1>2. MeshInv /\ [Next]_vars => [\A a \in Agents, id \in Manifests : Moves(a, id)]_vars
  <2> SUFFICES ASSUME MeshInv, [Next]_vars, NEW a \in Agents, NEW id \in Manifests
               PROVE  Moves(a, id)
    OBVIOUS
  <2>1. Shape /\ a \in Members /\ wanted[a] \in WantedStates
    BY DEF MeshInv, Shape, Members
  <2>2. CASE wanted' = wanted
    BY <2>2
  <2>3. ASSUME NEW m \in Members, NEW env \in Signable, Take(m, env)
        PROVE  Moves(a, id)
    <3>1. CASE a = m
      <4>1. wanted'[a] = React(wanted[a], env) /\ log'[a].head_issuer = env.issuer
        <5>1. LogOK(log[a]) /\ env \in Envelope
          BY <2>1 DEF MeshInv, Signable
        <5>2. wanted'[a] = React(wanted[a], env) /\ log'[a] = Committed(log[a], env)
          BY <5>1, <2>1, <2>3, <3>1, Taken
        <5> QED BY <5>2 DEF Committed
      <4>2. env \in Envelope
        BY DEF Signable
      <4> DEFINE v == React(wanted[a], env)
                 policy == IF v.manifests[id] # None THEN v.manifests[id].toml
                           ELSE wanted[a].manifests[id].toml
      <4>3. v.manifests[id] # wanted[a].manifests[id] =>
              /\ env.issuer = wanted[a].lease_holder
              /\ policy.controllers_allowed = {} \/ env.issuer \in policy.controllers_allowed
        BY <4>2, <2>1, <1>1
      <4> HIDE DEF v
      <4>4. wanted'[a] = v
        BY <4>1 DEF v
      <4> QED BY <4>1, <4>3, <4>4
    <3>2. CASE a # m
      <4>1. wanted'[a] = wanted[a]
        BY <2>1, <2>3, <3>2, Taken DEF Signable
      <4> QED BY <4>1
    <3> QED BY <3>1, <3>2
  <2> QED BY <2>1, <2>2, <2>3, StepCases
<1> QED BY <1>2, Invariance, PTL DEF Spec, ManifestsMoveUnderLease

-----------------------------------------------------------------------------
(* Refinement. *)

(* Every log implements the abstract sequence of tenures: an envelope of a  *)
(* later epoch is a take-over, any other is one more act of the issuer of   *)
(* the latest epoch.                                                        *)
THEOREM LogsImplementTenures == Spec => ImplementsTenures
<1> DEFINE tenures == [m \in Members |-> {<<log[m].events[i].lease_epoch, log[m].events[i].issuer>> :
                                           i \in 1..Len(log[m].events)}]
           acts == [m \in Members |-> IF log[m].events = <<>> THEN 0 ELSE log[m].head_seq + 1]
<1>1. Init => Tenures!Init
  BY DEF Init, Tenures!Init, EmptyLog
<1>2. MeshInv /\ [Next]_vars => [Tenures!Next]_<<tenures, acts>>
  <2> SUFFICES ASSUME MeshInv, [Next]_vars
               PROVE  [Tenures!Next]_<<tenures, acts>>
    OBVIOUS
  <2>1. Shape
    BY DEF MeshInv
  <2>2. CASE log' = log /\ wanted' = wanted
    BY <2>2
  <2>3. ASSUME NEW m \in Members, NEW env \in Signable, Take(m, env)
        PROVE  Tenures!Next
    <3> DEFINE n == Len(log[m].events)
    <3>1. /\ Accepts(log[m], env, trust[m])
          /\ log'[m] = Committed(log[m], env)
          /\ \A k \in Members \ {m} : log'[k] = log[k]
          /\ LogOK(log[m]) /\ log[m] \in EventLogs
      BY <2>1, <2>3, Taken DEF MeshInv, LogOK, Signable
    <3>2. /\ Len(log'[m].events) = n + 1 /\ n \in Nat
          /\ \A i \in 1..n : log'[m].events[i] = log[m].events[i]
          /\ log'[m].events[n + 1] = env
          /\ log'[m].events # <<>> /\ log'[m].head_seq = env.seq
      BY <3>1, Appended, SMTT(30) DEF Signable
    <3>3. tenures'[m] = tenures[m] \cup {<<env.lease_epoch, env.issuer>>}
      <4>1. \A i : i \in 1..(n + 1) <=> i \in 1..n \/ i = n + 1
        BY <3>2
      <4> QED BY <4>1, <3>2
    <3>4. acts'[m] = env.seq + 1
      BY <3>2
    <3>5. /\ tenures' = [tenures EXCEPT ![m] = @ \cup {<<env.lease_epoch, env.issuer>>}]
          /\ acts' = [acts EXCEPT ![m] = env.seq + 1]
      <4>1. \A k \in Members \ {m} : tenures'[k] = tenures[k] /\ acts'[k] = acts[k]
        BY <3>1
      <4>2. /\ tenures = [k \in Members |-> tenures[k]]
            /\ tenures' = [k \in Members |-> tenures'[k]]
            /\ acts = [k \in Members |-> acts[k]]
            /\ acts' = [k \in Members |-> acts'[k]]
        OBVIOUS
      <4> HIDE DEF tenures, acts
      <4>3. tenures' = [tenures EXCEPT ![m] = @ \cup {<<env.lease_epoch, env.issuer>>}]
        BY <4>1, <4>2, <3>3
      <4>4. acts' = [acts EXCEPT ![m] = env.seq + 1]
        BY <4>1, <4>2, <3>4
      <4> QED BY <4>3, <4>4
    <3>6. /\ env.issuer \in Members /\ env.lease_epoch \in 1..MaxEpoch
          /\ env.lease_epoch \in Nat /\ env.seq \in Nat
      BY DEF Envelope, Signable
    <3>7. CASE log[m].events = <<>> \/ env.lease_epoch > log[m].head_epoch
      <4>1. env.seq = 0
        BY <3>1, <3>7 DEF Accepts, Continues, StartsAtZero
      <4>2. \A t \in tenures[m] : t[1] < env.lease_epoch
        <5>1. ASSUME NEW i \in 1..n
              PROVE  log[m].events[i].lease_epoch < env.lease_epoch
          <6>1. /\ log[m].events # <<>> /\ env.lease_epoch > log[m].head_epoch
                /\ log[m].head_epoch = log[m].events[n].lease_epoch
                /\ log[m].head_epoch \in Nat
            BY <3>1, <3>7, <5>1, HeadOf DEF EventLogs
          <6>2. log[m].events[i].lease_epoch \in Nat
            <7>1. log[m].events \in Seq(Envelope)
              BY <3>1 DEF EventLogs
            <7>2. log[m].events[i] \in Envelope
              BY <7>1, <5>1, ElementOfSeq
            <7> QED BY <7>2 DEF Envelope
          <6>3. CASE i = n
            BY <6>1, <6>3, <3>6
          <6>4. CASE i # n
            <7>1. i < n /\ n \in 1..n
              BY <3>2, <5>1, <6>4
            <7>2. log[m].events[i].lease_epoch <= log[m].events[n].lease_epoch
              BY <3>1, <5>1, <7>1 DEF LogOK, Ordered
            <7> QED BY <7>2, <6>1, <6>2, <3>6
          <6> QED BY <6>3, <6>4
        <5> QED BY <5>1
      <4>3. Tenures!TakeOver(m, env.lease_epoch, env.issuer)
        BY <4>1, <4>2, <3>5, SMTT(30) DEF Tenures!TakeOver
      <4> QED BY <4>3, <3>6 DEF Tenures!Next
    <3>8. CASE log[m].events # <<>> /\ ~ (env.lease_epoch > log[m].head_epoch)
      <4>1. /\ env.issuer = log[m].head_issuer /\ env.seq = log[m].head_seq + 1
            /\ env.lease_epoch >= log[m].head_epoch /\ log[m].head_epoch \in Nat
        BY <3>1, <3>8 DEF Accepts, EpochMonotonic, Continues, SameIssuerNextSeq, EventLogs
      <4>2. /\ n \in 1..n
            /\ env.lease_epoch = log[m].events[n].lease_epoch
            /\ env.issuer = log[m].events[n].issuer
        BY <3>1, <3>6, <3>8, <4>1, HeadOf
      <4>3. <<env.lease_epoch, env.issuer>> \in tenures[m]
        BY <4>2
      <4>4. tenures' = tenures /\ acts' = [acts EXCEPT ![m] = @ + 1]
        <5>1. tenures = [k \in Members |-> tenures[k]] /\ acts[m] = log[m].head_seq + 1
          BY <3>8
        <5> HIDE DEF tenures, acts
        <5> QED BY <5>1, <3>5, <4>1, <4>3
      <4>5. Tenures!Act(m)
        BY <4>3, <4>4 DEF Tenures!Act
      <4> QED BY <4>5 DEF Tenures!Next
    <3> QED BY <3>7, <3>8
  <2> QED BY <2>1, <2>2, <2>3, StepCases
<1> QED BY <1>1, <1>2, Invariance, PTL DEF Spec, ImplementsTenures, Tenures!Spec

------------------------------------------------- (* the plan of an agent *)

LEMMA FindMatches ==
    ASSUME NEW truth, NEW m, Matching(truth, m) # {}
    PROVE  Find(truth, m) \in DOMAIN truth /\ truth[Find(truth, m)].manifest = m
  BY DEF Find, Matching

LEMMA PlanIs ==
    ASSUME NEW want, NEW truth, NEW a \in Plan(want, truth)
    PROVE  \/ \E m \in DOMAIN want : Bad(want, m) /\ a = Action("bad_manifest", m, None, 0)
           \/ \E m \in DOMAIN want : WrongAnchor(want, m) /\ a = Action("wrong_anchor", m, None, 0)
           \/ \E m \in DOMAIN want :
                Ours(want, m) /\ Missing(truth, m) /\ a = Action("create", m, None, 0)
           \/ \E m \in DOMAIN want : Ours(want, m) /\ Drifted(want, truth, m)
                /\ a = Action("balloon", m, Find(truth, m), want[m].active)
           \/ \E d \in Withdrawn(want, truth) : a = Action("destroy", None, d, 0)
  BY DEF Plan, ConsiderWanted

LEMMA Fields ==
    ASSUME NEW op, NEW m, NEW d, NEW mb
    PROVE  /\ Action(op, m, d, mb).op = op /\ Action(op, m, d, mb).manifest = m
           /\ Action(op, m, d, mb).domain = d /\ Action(op, m, d, mb).mb = mb
  BY DEF Action

\* A domain somebody made by hand, which carries no manifest, is in no action of any
\* plan: "destroying them would race against operator intent" (truth.rs).
THEOREM OrphansUntouched ==
    ASSUME NEW want, NEW truth, NEW a \in Plan(want, truth),
           IsWanted(want), a.domain # None, None \notin Manifests
    PROVE  truth[a.domain].manifest # None
<1>1. \A m \in DOMAIN want : m # None
  BY DEF IsWanted
<1>2. CASE \E m \in DOMAIN want : Ours(want, m) /\ Drifted(want, truth, m)
             /\ a = Action("balloon", m, Find(truth, m), want[m].active)
  <2>1. PICK m \in DOMAIN want : Drifted(want, truth, m)
             /\ a = Action("balloon", m, Find(truth, m), want[m].active)
    BY <1>2
  <2>2. truth[Find(truth, m)].manifest = m
    BY <2>1, FindMatches DEF Drifted, Present
  <2>3. QED
    BY <1>1, <2>1, <2>2, Fields
<1>3. CASE \E d \in Withdrawn(want, truth) : a = Action("destroy", None, d, 0)
  BY <1>3, Fields DEF Withdrawn
<1>4. CASE \/ \E m \in DOMAIN want : Bad(want, m) /\ a = Action("bad_manifest", m, None, 0)
           \/ \E m \in DOMAIN want : WrongAnchor(want, m) /\ a = Action("wrong_anchor", m, None, 0)
           \/ \E m \in DOMAIN want :
                Ours(want, m) /\ Missing(truth, m) /\ a = Action("create", m, None, 0)
  BY <1>4, Fields
<1>5. QED
  BY <1>2, <1>3, <1>4, PlanIs

\* Only a withdrawn manifest costs a domain its life: what is destroyed belongs to a
\* manifest that is not wanted, and what is ballooned to one that is, and that is ours.
THEOREM WantedSurvive ==
    ASSUME NEW want, NEW truth, NEW a \in Plan(want, truth)
    PROVE  /\ a.op = "destroy" => truth[a.domain].manifest \notin DOMAIN want
           /\ a.op = "balloon" => /\ truth[a.domain].manifest = a.manifest
                                  /\ a.manifest \in DOMAIN want /\ Ours(want, a.manifest)
<1>1. CASE \E m \in DOMAIN want : Ours(want, m) /\ Drifted(want, truth, m)
             /\ a = Action("balloon", m, Find(truth, m), want[m].active)
  <2>1. PICK m \in DOMAIN want : Ours(want, m) /\ Drifted(want, truth, m)
             /\ a = Action("balloon", m, Find(truth, m), want[m].active)
    BY <1>1
  <2>2. truth[Find(truth, m)].manifest = m
    BY <2>1, FindMatches DEF Drifted, Present
  <2>3. QED
    BY <2>1, <2>2, Fields
<1>2. CASE \E d \in Withdrawn(want, truth) : a = Action("destroy", None, d, 0)
  BY <1>2, Fields DEF Withdrawn
<1>3. CASE \/ \E m \in DOMAIN want : Bad(want, m) /\ a = Action("bad_manifest", m, None, 0)
           \/ \E m \in DOMAIN want : WrongAnchor(want, m) /\ a = Action("wrong_anchor", m, None, 0)
           \/ \E m \in DOMAIN want :
                Ours(want, m) /\ Missing(truth, m) /\ a = Action("create", m, None, 0)
  BY <1>3, Fields
<1>4. QED
  BY <1>1, <1>2, <1>3, PlanIs

\* A manifest that is anchored to another node is only reported: nothing is created for
\* it here, and a domain that already runs it here is in no action: it runs on, also when
\* the other node starts its own.
THEOREM ElsewhereOnlyReported ==
    ASSUME NEW want, NEW truth, NEW a \in Plan(want, truth),
           NEW m \in DOMAIN want, WrongAnchor(want, m), None \notin DOMAIN want
    PROVE  /\ a.manifest = m => a.op = "wrong_anchor"
           /\ a.op \in {"balloon", "destroy"} => truth[a.domain].manifest # m
<1>1. ~Bad(want, m) /\ ~Ours(want, m)
  BY DEF Bad, Ours, WrongAnchor
<1>2. CASE \E n \in DOMAIN want : Bad(want, n) /\ a = Action("bad_manifest", n, None, 0)
  BY <1>1, <1>2, Fields
<1>3. CASE \E n \in DOMAIN want : WrongAnchor(want, n) /\ a = Action("wrong_anchor", n, None, 0)
  BY <1>3, Fields
<1>4. CASE \E n \in DOMAIN want :
              Ours(want, n) /\ Missing(truth, n) /\ a = Action("create", n, None, 0)
  BY <1>1, <1>4, Fields
<1>5. CASE \E n \in DOMAIN want : Ours(want, n) /\ Drifted(want, truth, n)
              /\ a = Action("balloon", n, Find(truth, n), want[n].active)
  <2>1. PICK n \in DOMAIN want : Ours(want, n) /\ Drifted(want, truth, n)
              /\ a = Action("balloon", n, Find(truth, n), want[n].active)
    BY <1>5
  <2>2. truth[Find(truth, n)].manifest = n
    BY <2>1, FindMatches DEF Drifted, Present
  <2>3. QED
    BY <1>1, <2>1, <2>2, Fields
<1>6. CASE \E d \in Withdrawn(want, truth) : a = Action("destroy", None, d, 0)
  BY <1>6, Fields DEF Withdrawn
<1>7. QED
  BY <1>2, <1>3, <1>4, <1>5, <1>6, PlanIs

\* Reconciling once is enough: on a host with one running domain for each manifest at
\* most, once the plan is done the next one asks for nothing but the operator's help.
THEOREM OnceIsEnough ==
    ASSUME NEW want, NEW truth, NEW after, NEW born,
           Plain(truth), IsDone(after, want, truth, born), NEW a \in Plan(want, after)
    PROVE  a.op \in {"bad_manifest", "wrong_anchor"}
<1>1. \A d \in DOMAIN after : after[d].state = "running"
  BY DEF IsDone, Plain, Left
<1>2. ASSUME NEW m \in DOMAIN want, Ours(want, m)
      PROVE  Matching(after, m) # {}
  <2>1. CASE m \in Created(want, truth)
    BY <2>1 DEF IsDone, Matching
  <2>2. CASE m \notin Created(want, truth)
    <3>1. Matching(truth, m) # {}
      BY <1>2, <2>2 DEF Created, Missing
    <3>2. Find(truth, m) \in Left(want, truth) /\ truth[Find(truth, m)].manifest = m
      BY <3>1, FindMatches DEF Left, Withdrawn
    <3>3. QED
      BY <3>2 DEF IsDone, Matching
  <2>3. QED
    BY <2>1, <2>2
<1>3. ASSUME NEW m \in DOMAIN want, Ours(want, m), Missing(after, m)
      PROVE  FALSE
  <2>1. Find(after, m) \in DOMAIN after
    BY <1>2, <1>3, FindMatches
  <2>2. QED
    BY <1>1, <1>2, <1>3, <2>1 DEF Missing
<1>4. ASSUME NEW m \in DOMAIN want, Ours(want, m), Drifted(want, after, m)
      PROVE  FALSE
  <2> DEFINE d == Find(after, m)
  <2>1. d \in DOMAIN after /\ after[d].manifest = m /\ after[d].memory # want[m].active
    BY <1>2, <1>4, FindMatches DEF Drifted
  <2> HIDE DEF d
  <2>2. CASE d \in {born[n] : n \in Created(want, truth)}
    <3>1. PICK n \in Created(want, truth) : d = born[n]
      BY <2>2
    <3>2. after[d].manifest = n /\ after[d].memory = want[n].active
      BY <3>1 DEF IsDone
    <3>3. QED
      BY <2>1, <3>2
  <2>3. CASE d \in Left(want, truth)
    <3>1. truth[d].manifest = m /\ d \in Matching(truth, m) /\ truth[d].state = "running"
      BY <2>1, <2>3 DEF IsDone, Left, Matching, Plain
    <3>2. d = Find(truth, m)
      <4>1. Find(truth, m) \in Matching(truth, m)
        BY <3>1, FindMatches DEF Matching
      <4>2. QED
        BY <3>1, <4>1 DEF Plain
    <3>3. after[d].memory = IF Ballooned(want, truth, d)
                            THEN want[m].active ELSE truth[d].memory
      BY <2>3, <3>1 DEF IsDone
    <3>4. ~Ballooned(want, truth, d) => truth[d].memory = want[m].active
      BY <1>4, <3>1, <3>2 DEF Ballooned, Drifted, Present
    <3>5. QED
      BY <2>1, <3>3, <3>4
  <2>4. QED
    BY <2>1, <2>2, <2>3 DEF IsDone
<1>5. ASSUME NEW d \in Withdrawn(want, after)
      PROVE  FALSE
  <2>1. d \in DOMAIN after /\ after[d].manifest # None /\ after[d].manifest \notin DOMAIN want
    BY <1>5 DEF Withdrawn
  <2>2. CASE d \in {born[n] : n \in Created(want, truth)}
    <3>1. PICK n \in Created(want, truth) : d = born[n]
      BY <2>2
    <3>2. after[d].manifest = n /\ n \in DOMAIN want
      BY <3>1 DEF IsDone, Created
    <3>3. QED
      BY <2>1, <3>2
  <2>3. CASE d \in Left(want, truth)
    <3>1. after[d].manifest = truth[d].manifest
      BY <2>3 DEF IsDone
    <3>2. QED
      BY <2>1, <2>3, <3>1 DEF Left, Withdrawn
  <2>4. QED
    BY <2>1, <2>2, <2>3 DEF IsDone
<1>6. QED
  BY <1>3, <1>4, <1>5, PlanIs, Fields

=============================================================================
