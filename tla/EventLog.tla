------------------------------- MODULE EventLog -------------------------------
(***************************************************************************)
(* The signed, hash-chained event log every member of the mesh keeps       *)
(* (fabric/src/event.rs, fabric/src/chain.rs), as functions of one log.    *)
(*                                                                         *)
(* A hash is modelled by what it commits to: an envelope's signed bytes    *)
(* contain prev_hash, so its SHA-256 stands, collisions apart, for the     *)
(* list of the cores from the genesis up to it. The genesis prev_hash (32  *)
(* zero bytes) is the empty list. A signature is good or bad: it was made  *)
(* over these very bytes with the issuer's key, or it was not.             *)
(***************************************************************************)
EXTENDS Integers, Sequences

CONSTANTS Issuers,   \* node ids that may sign events
          Bodies,    \* the events' payloads
          None       \* Option::None

Hash == Seq([issuer : Issuers, seq : Nat, lease_epoch : Nat, body : Bodies])

Envelope == [issuer : Issuers, seq : Nat, lease_epoch : Nat, body : Bodies,
             prev_hash : Hash, signature : {"good", "bad"}]

(* The hash of an envelope covers every field but the signature. *)
HashOf(env) ==
  Append(env.prev_hash, [issuer |-> env.issuer, seq |-> env.seq,
                         lease_epoch |-> env.lease_epoch, body |-> env.body])

SignEnvelope(issuer, seq, epoch, prev, body) ==
  [issuer |-> issuer, seq |-> seq, lease_epoch |-> epoch, body |-> body,
   prev_hash |-> prev, signature |-> "good"]

(* The envelope after something on the way changed it. *)
Damaged(env) == [env EXCEPT !.signature = "bad"]

Verifies(env) == env.signature = "good"

EmptyLog == [events |-> <<>>, head_hash |-> None, head_epoch |-> 0,
             head_issuer |-> None, head_seq |-> None]

HeadHash(log) == IF log.head_hash = None THEN <<>> ELSE log.head_hash

-----------------------------------------------------------------------------
(* append, check by check: its early returns are the conjuncts. *)

(* Mutant: the chain link is not compared. *)
LinkedToAnything(log, env) == TRUE

Linked(log, env) == env.prev_hash = HeadHash(log)

(* Mutant: the comparison of epochs is missing. *)
AnyEpoch(log, env) == TRUE

EpochMonotonic(log, env) == env.lease_epoch >= log.head_epoch

StartsAtZero(env) == env.seq = 0

(* Mutant: within an epoch the issuer may change. *)
NextSeqOnly(log, env) == env.seq = log.head_seq + 1

SameIssuerNextSeq(log, env) == /\ env.issuer = log.head_issuer
                               /\ env.seq = log.head_seq + 1

(* Mutant: a new epoch goes on counting instead of starting over. *)
ContinuesCounting(log, env) ==
  IF log.events = <<>>
  THEN StartsAtZero(env)
  ELSE env.lease_epoch > log.head_epoch \/ SameIssuerNextSeq(log, env)

(* seq and issuer: an empty log and a new epoch start at 0; within the      *)
(* epoch the same issuer counts on.                                         *)
Continues(log, env) ==
  IF log.events = <<>> \/ env.lease_epoch > log.head_epoch
  THEN StartsAtZero(env)
  ELSE SameIssuerNextSeq(log, env)

Accepts(log, env, trusted) == /\ env.issuer \in trusted
                              /\ Verifies(env)
                              /\ Linked(log, env)
                              /\ EpochMonotonic(log, env)
                              /\ Continues(log, env)

(* Mutant: the cached seq is left behind when the epoch moves. *)
CommittedStaleSeq(log, env) ==
  [events |-> Append(log.events, env), head_hash |-> HashOf(env),
   head_epoch |-> env.lease_epoch, head_issuer |-> env.issuer,
   head_seq |-> IF env.lease_epoch > log.head_epoch /\ log.events # <<>>
                THEN log.head_seq ELSE env.seq]

Committed(log, env) ==
  [events |-> Append(log.events, env), head_hash |-> HashOf(env),
   head_epoch |-> env.lease_epoch, head_issuer |-> env.issuer, head_seq |-> env.seq]
=============================================================================
