---------------------------- MODULE RelayIdentity ----------------------------
(***************************************************************************)
(* Which node a relay byte stands for.  A frame names its last hop by the  *)
(* low byte of the node number only.  The cache keeps, for each byte, the  *)
(* nodes heard straight from themselves during the last Ttl: a bucket of   *)
(* at most MaxCandidates entries that remembers when it overflowed.  A     *)
(* cache is a set of buckets [byte, heard : set of [id, at], overflow].    *)
(***************************************************************************)
EXTENDS Integers, FiniteSets

CONSTANTS Clock, IdTtl, MaxCandidates, MaxBuckets, NoNode, Never,
          Low(_)                          \* the byte that names a node

Since(now, t) == (now - t) % Clock
FreshEntries(bucket, now) == {e \in bucket.heard : Since(now, e.at) <= IdTtl}
Bucket(cache, byte) ==
  IF \E b \in cache : b.byte = byte THEN CHOOSE b \in cache : b.byte = byte
  ELSE [byte |-> byte, heard |-> {}, overflow |-> Never]

(* A node that is not in a full bucket only leaves the mark. *)
FaultyNoted(bucket, id, now) ==
  LET kept == FreshEntries(bucket, now)
      others == {e \in kept : e.id # id}
  IN IF others # kept \/ Cardinality(kept) < MaxCandidates
     THEN [bucket EXCEPT !.heard = others \cup {[id |-> id, at |-> now]}]
     ELSE [bucket EXCEPT !.heard = kept]
Noted(bucket, id, now) ==
  LET kept == FreshEntries(bucket, now)
      others == {e \in kept : e.id # id}
  IN IF others # kept \/ Cardinality(kept) < MaxCandidates
     THEN [bucket EXCEPT !.heard = others \cup {[id |-> id, at |-> now]}]
     ELSE [bucket EXCEPT !.heard = kept, !.overflow = now]

RememberRelayIdentity(cache, id, now) ==
  LET old == Bucket(cache, Low(id))
  IN IF id = NoNode \/ Low(id) = 0 \/ (old \notin cache /\ Cardinality(cache) >= MaxBuckets)
     THEN cache
     ELSE (cache \ {old}) \cup {Noted(old, id, now)}

(* A bucket that lost its last entry goes, and its overflow mark with it. *)
PruneRelayIdentity(cache, now) ==
  {[b EXCEPT !.heard = FreshEntries(b, now)] : b \in {c \in cache : FreshEntries(c, now) # {}}}

(* Among several direct neighbours with the byte, the one whose link is    *)
(* nearest to the signal of this frame; a tie or no reading names nobody.  *)
PickBestDirect(links, near, signal) ==
  LET Off(n) == IF links[n] > signal THEN links[n] - signal ELSE signal - links[n]
      best == {n \in near : \A m \in near : Off(n) <= Off(m)}
  IN IF Cardinality(near) = 1 THEN CHOOSE n \in near : TRUE
     ELSE IF signal = 0 \/ Cardinality(best) # 1 THEN NoNode
     ELSE CHOOSE n \in best : TRUE

(* links: the price of the link to each node, 0 for none. *)
ResolveRelayIdentity(cache, byte, links, signal, now) ==
  LET b == Bucket(cache, byte)
      near == {n \in DOMAIN links : links[n] # 0 /\ Low(n) = byte}
      heard == {e.id : e \in FreshEntries(b, now)}
  IN IF \/ byte = 0
        \/ b.overflow # Never /\ Since(now, b.overflow) <= IdTtl
        \/ Cardinality(near) > MaxCandidates THEN NoNode
     ELSE IF near # {} THEN PickBestDirect(links, near, signal)
     ELSE IF Cardinality(heard) = 1 THEN CHOOSE n \in heard : TRUE ELSE NoNode
=============================================================================
