------------------------ MODULE MetadataCacheProofs ------------------------
(***************************************************************************)
(* Proofs about MetadataCache, the client's cache of statuses and listings *)
(* (src/metadata_cache.rs) with its callers, for a client used by one task *)
(* at a time.                                                              *)
(***************************************************************************)
EXTENDS MetadataCache, SequenceTheorems, TLAPS

\* The time limits of the provers, in seconds.
USE SMTT(30), ZenonT(60)

\* r is s without its element at i.
Removed(s, i, r) ==
  Len(r) = Len(s) - 1 /\ \A j \in 1 .. Len(s) - 1 : r[j] = IF j < i THEN s[j] ELSE s[j + 1]

\* A sequence without its element at i.
LEMMA RemoveAtFacts ==
  ASSUME NEW S, NEW s \in Seq(S), NEW i \in 1 .. Len(s),
         NEW r, r = SubSeq(s, 1, i - 1) \o SubSeq(s, i + 1, Len(s))
  PROVE  r \in Seq(S) /\ Removed(s, i, r)
<1> DEFINE a == SubSeq(s, 1, i - 1)
           b == SubSeq(s, i + 1, Len(s))
<1>1. Len(s) \in Nat /\ i \in Nat /\ 1 <= i /\ i <= Len(s) /\ DOMAIN s = 1 .. Len(s)
  OBVIOUS
<1>2. a \in Seq(S) /\ Len(a) = i - 1 /\ \A j \in 1 .. i - 1 : a[j] = s[j]
  BY <1>1
<1>3. b \in Seq(S) /\ Len(b) = Len(s) - i /\ \A j \in 1 .. Len(s) - i : b[j] = s[i + j]
  <2>1. i + 1 \in Int /\ Len(s) \in Int /\ \A j \in i + 1 .. Len(s) : s[j] \in S
    BY <1>1
  <2>2. /\ b \in Seq(S)
        /\ Len(b) = IF i + 1 <= Len(s) THEN Len(s) - (i + 1) + 1 ELSE 0
        /\ \A j \in 1 .. Len(s) - (i + 1) + 1 : b[j] = s[(i + 1) + j - 1]
    BY <2>1
  <2> HIDE DEF b
  <2>3. \A j \in 1 .. Len(s) - i : j \in 1 .. Len(s) - (i + 1) + 1 /\ (i + 1) + j - 1 = i + j
    BY <1>1
  <2>4. \A j \in 1 .. Len(s) - i : b[j] = s[i + j]
    BY <2>2, <2>3, ZenonT(60)
  <2>5. Len(b) = Len(s) - i
    <3>1. CASE i + 1 <= Len(s)
      <4>1. Len(b) = Len(s) - (i + 1) + 1
        BY <2>2, <3>1, ZenonT(60)
      <4> QED
        BY <1>1, <4>1
    <3>2. CASE ~(i + 1 <= Len(s))
      <4>1. Len(b) = 0
        BY <2>2, <3>2, ZenonT(60)
      <4>2. \A m, n \in Nat : n <= m /\ ~(n + 1 <= m) => m - n = 0
        OBVIOUS
      <4>3. Len(s) - i = 0
        BY <1>1, <3>2, <4>2, ZenonT(60)
      <4> QED
        BY <4>1, <4>3, ZenonT(60)
    <3> QED
      BY <3>1, <3>2, ZenonT(60)
  <2> QED
    BY <2>2, <2>4, <2>5, ZenonT(60)
<1> HIDE DEF a, b
<1>4. /\ a \o b \in Seq(S) /\ Len(a \o b) = Len(s) - 1
      /\ \A j \in 1 .. Len(a) + Len(b) : (a \o b)[j] = IF j <= Len(a) THEN a[j] ELSE b[j - Len(a)]
  <2>1. /\ a \o b \in Seq(S) /\ Len(a \o b) = Len(a) + Len(b)
        /\ \A j \in 1 .. Len(a) + Len(b) : (a \o b)[j] = IF j <= Len(a) THEN a[j] ELSE b[j - Len(a)]
    BY <1>2, <1>3, ConcatProperties, ZenonT(60)
  <2>2. Len(a) + Len(b) = Len(s) - 1
    BY <1>1, <1>2, <1>3
  <2> QED
    BY <2>1, <2>2, ZenonT(60)
<1>5. ASSUME NEW j \in 1 .. Len(s) - 1
      PROVE  (a \o b)[j] = IF j < i THEN s[j] ELSE s[j + 1]
  <2>1. CASE j < i
    <3>1. j \in 1 .. Len(a) /\ j \in 1 .. i - 1
      BY <1>1, <1>2, <2>1
    <3>2. (a \o b)[j] = a[j]
      BY <1>1, <1>2, <1>3, <1>4, <3>1
    <3> QED
      BY <1>2, <2>1, <3>1, <3>2
  <2>2. CASE ~(j < i)
    <3>1. j - Len(a) \in 1 .. Len(b) /\ j - Len(a) = j - i + 1 /\ i + (j - i + 1) = j + 1
      BY <1>1, <1>2, <1>3, <2>2
    <3>2. (a \o b)[j] = b[j - Len(a)]
      BY <1>1, <1>2, <1>3, <1>4, <2>2, <3>1
    <3>3. b[j - i + 1] = s[i + (j - i + 1)]
      BY <1>3, <3>1, ZenonT(60)
    <3> QED
      BY <2>2, <3>1, <3>2, <3>3, ZenonT(60)
  <2> QED
    BY <2>1, <2>2, ZenonT(60)
<1>6. r = a \o b
  BY ZenonT(60) DEF a, b
<1> QED
  BY <1>4, <1>5, <1>6, ZenonT(60) DEF Removed

\* A sequence without repetitions, without its element at i.
LEMMA RemoveFacts ==
  ASSUME NEW S, NEW s \in Seq(S), IsInjective(s), NEW i \in 1 .. Len(s), NEW p, s[i] = p,
         NEW r \in Seq(S), Removed(s, i, r)
  PROVE  IsInjective(r) /\ Range(r) = Range(s) \ {p}
<1>0. DOMAIN s = 1 .. Len(s) /\ Len(s) \in Nat
  OBVIOUS
<1>1. s[i] = p
  OBVIOUS
<1>3. /\ r \in Seq(S) /\ Len(r) = Len(s) - 1
      /\ \A j \in 1 .. Len(s) - 1 : r[j] = IF j < i THEN s[j] ELSE s[j + 1]
  BY ZenonT(60) DEF Removed
<1>4. DOMAIN r = 1 .. Len(s) - 1
  BY <1>0, <1>3
<1>5. \A j, k \in DOMAIN s : s[j] = s[k] => j = k
  BY ZenonT(60) DEF IsInjective
<1>6. ASSUME NEW j \in DOMAIN r, NEW k \in DOMAIN r, r[j] = r[k] PROVE j = k
  <2>1. PICK m \in DOMAIN s : m = (IF j < i THEN j ELSE j + 1) /\ r[j] = s[m]
    BY <1>0, <1>3, <1>4
  <2>2. PICK n \in DOMAIN s : n = (IF k < i THEN k ELSE k + 1) /\ r[k] = s[n]
    BY <1>0, <1>3, <1>4
  <2>3. m = n
    BY <1>5, <1>6, <2>1, <2>2, ZenonT(60)
  <2> QED
    BY <1>0, <1>4, <2>1, <2>2, <2>3
<1>7. ASSUME NEW x \in Range(r) PROVE x \in Range(s) \ {p}
  <2>1. PICK j \in DOMAIN r : r[j] = x
    BY ZenonT(60) DEF Range
  <2>2. PICK m \in DOMAIN s : m # i /\ x = s[m]
    BY <1>0, <1>3, <1>4, <2>1
  <2>3. i \in DOMAIN s
    BY <1>0, <1>1, ZenonT(60)
  <2> QED
    BY <1>1, <1>5, <2>2, <2>3, ZenonT(60) DEF Range
<1>8. ASSUME NEW x \in Range(s) \ {p} PROVE x \in Range(r)
  <2>1. PICK m \in DOMAIN s : s[m] = x
    BY ZenonT(60) DEF Range
  <2>2. m # i
    BY <1>1, <2>1, ZenonT(60)
  <2>3. PICK j \in DOMAIN r : r[j] = s[m]
    <3>1. CASE m < i
      <4>1. m \in DOMAIN r /\ r[m] = s[m]
        BY <1>0, <1>3, <1>4, <3>1
      <4> QED
        BY <4>1, ZenonT(60)
    <3>2. CASE m > i
      <4>1. m - 1 \in DOMAIN r /\ r[m - 1] = s[m]
        BY <1>0, <1>3, <1>4, <3>2
      <4> QED
        BY <4>1, ZenonT(60)
    <3> QED
      BY <1>0, <2>2, <3>1, <3>2
  <2> QED
    BY <2>1, <2>3, ZenonT(60) DEF Range
<1>9. IsInjective(r) /\ Range(r) = Range(s) \ {p}
  BY <1>6, <1>7, <1>8, ZenonT(60) DEF IsInjective
<1> QED
  BY <1>9, ZenonT(60)

\* A map without a key (LruCache::pop).
LEMMA WithoutFacts ==
  ASSUME NEW S, lru \in Seq(S), IsInjective(lru), NEW p
  PROVE  /\ Without(p) \in Seq(S) /\ IsInjective(Without(p))
         /\ Range(Without(p)) = Range(lru) \ {p}
         /\ Len(Without(p)) = IF p \in Range(lru) THEN Len(lru) - 1 ELSE Len(lru)
<1>1. CASE p \notin Range(lru)
  <2>1. Without(p) = lru
    BY <1>1, ZenonT(60) DEF Without
  <2>2. Range(lru) \ {p} = Range(lru)
    BY <1>1, ZenonT(60)
  <2> QED
    BY <1>1, <2>1, <2>2, ZenonT(60)
<1>2. CASE p \in Range(lru)
  <2> DEFINE i == CHOOSE j \in DOMAIN lru : lru[j] = p
  <2>1. \E j \in DOMAIN lru : lru[j] = p
    BY <1>2, ZenonT(60) DEF Range
  <2>2. i \in DOMAIN lru /\ lru[i] = p
    BY <2>1, ZenonT(60)
  <2>3. Without(p) = SubSeq(lru, 1, i - 1) \o SubSeq(lru, i + 1, Len(lru))
    BY <1>2, ZenonT(60) DEF Without
  <2> HIDE DEF i
  <2>4. DOMAIN lru = 1 .. Len(lru)
    OBVIOUS
  <2>5. i \in 1 .. Len(lru)
    BY <2>2, <2>4, ZenonT(60)
  <2> DEFINE r == Without(p)
  <2>6. r \in Seq(S) /\ Removed(lru, i, r)
    BY <2>3, <2>5, RemoveAtFacts, ZenonT(60)
  <2> HIDE DEF r
  <2>7. IsInjective(r) /\ Range(r) = Range(lru) \ {p}
    BY <2>2, <2>5, <2>6, RemoveFacts
  <2> QED
    BY <1>2, <2>6, <2>7, ZenonT(60) DEF r, Removed
<1> QED
  BY <1>1, <1>2, ZenonT(60)

\* A key put at the end of a map that does not have it.
LEMMA AppendFacts ==
  ASSUME NEW S, NEW s \in Seq(S), IsInjective(s), NEW p \in S, p \notin Range(s)
  PROVE  /\ Append(s, p) \in Seq(S) /\ IsInjective(Append(s, p))
         /\ Range(Append(s, p)) = Range(s) \cup {p} /\ Len(Append(s, p)) = Len(s) + 1
<1> DEFINE r == Append(s, p)
<1>1. /\ r \in Seq(S) /\ Len(r) = Len(s) + 1 /\ Len(s) \in Nat
      /\ DOMAIN s = 1 .. Len(s) /\ DOMAIN r = 1 .. Len(s) + 1
      /\ r[Len(s) + 1] = p /\ \A i \in 1 .. Len(s) : r[i] = s[i]
  OBVIOUS
<1> HIDE DEF r
<1>2. \A i \in DOMAIN s : s[i] # p
  BY ZenonT(60) DEF Range
<1>3. \A j, k \in DOMAIN s : s[j] = s[k] => j = k
  BY ZenonT(60) DEF IsInjective
<1>4. \A i \in DOMAIN r : (i \in DOMAIN s /\ r[i] = s[i]) \/ (i = Len(s) + 1 /\ r[i] = p)
  BY <1>1
<1>5. \A j, k \in DOMAIN r : r[j] = r[k] => j = k
  BY <1>2, <1>3, <1>4, ZenonT(60)
<1>6. \A i \in DOMAIN s : i \in DOMAIN r /\ r[i] = s[i]
  BY <1>1
<1>7. Len(s) + 1 \in DOMAIN r
  BY <1>1
<1>8. ASSUME NEW x PROVE x \in Range(r) <=> x \in Range(s) \cup {p}
  BY <1>1, <1>4, <1>6, <1>7, ZenonT(60) DEF Range
<1>9. Range(r) = Range(s) \cup {p}
  BY <1>8, ZenonT(60)
<1> QED
  BY <1>1, <1>5, <1>9, ZenonT(60) DEF IsInjective, r

\* A map without its least recently used key.
LEMMA TailFacts ==
  ASSUME NEW S, NEW s \in Seq(S), IsInjective(s), s # <<>>
  PROVE  /\ Tail(s) \in Seq(S) /\ IsInjective(Tail(s)) /\ Head(s) \in Range(s)
         /\ Range(Tail(s)) = Range(s) \ {Head(s)} /\ Len(Tail(s)) = Len(s) - 1
<1>1. /\ Len(s) \in Nat /\ Len(s) >= 1 /\ DOMAIN s = 1 .. Len(s) /\ Head(s) = s[1]
      /\ Tail(s) \in Seq(S) /\ Len(Tail(s)) = Len(s) - 1
      /\ DOMAIN Tail(s) = 1 .. Len(s) - 1
      /\ \A i \in 1 .. Len(s) - 1 : Tail(s)[i] = s[i + 1]
  OBVIOUS
<1> DEFINE r == Tail(s)
<1> HIDE DEF r
<1>2. \A j, k \in DOMAIN s : s[j] = s[k] => j = k
  BY ZenonT(60) DEF IsInjective
<1>3. \A j \in DOMAIN r : j + 1 \in DOMAIN s /\ j + 1 # 1 /\ r[j] = s[j + 1]
  BY <1>1 DEF r
<1>4. \A j, k \in DOMAIN r : r[j] = r[k] => j = k
  <2> SUFFICES ASSUME NEW j \in DOMAIN r, NEW k \in DOMAIN r, r[j] = r[k] PROVE j = k
    BY ZenonT(60)
  <2>1. j + 1 = k + 1
    BY <1>2, <1>3, ZenonT(60)
  <2> QED
    BY <1>1, <2>1 DEF r
<1>5. \A i \in DOMAIN s : i = 1 \/ (i - 1 \in DOMAIN r /\ r[i - 1] = s[i])
  BY <1>1 DEF r
<1>6. 1 \in DOMAIN s
  BY <1>1
<1>7. ASSUME NEW x PROVE x \in Range(r) <=> x \in Range(s) \ {Head(s)}
  <2>1. ASSUME x \in Range(r) PROVE x \in Range(s) \ {Head(s)}
    <3>1. PICK j \in DOMAIN r : r[j] = x
      BY <2>1, ZenonT(60) DEF Range
    <3>2. j + 1 \in DOMAIN s /\ j + 1 # 1 /\ s[j + 1] = x
      BY <1>3, <3>1, ZenonT(60)
    <3>3. x # s[1]
      BY <1>2, <1>6, <3>2, ZenonT(60)
    <3> QED
      BY <1>1, <3>2, <3>3, ZenonT(60) DEF Range
  <2>2. ASSUME x \in Range(s) \ {Head(s)} PROVE x \in Range(r)
    <3>1. PICK i \in DOMAIN s : s[i] = x
      BY <2>2, ZenonT(60) DEF Range
    <3>2. i # 1
      BY <1>1, <2>2, <3>1, ZenonT(60)
    <3> QED
      BY <1>5, <3>1, <3>2, ZenonT(60) DEF Range
  <2> QED
    BY <2>1, <2>2, ZenonT(60)
<1>8. Range(r) = Range(s) \ {Head(s)}
  BY <1>7, ZenonT(60)
<1>9. Head(s) \in Range(s)
  BY <1>1, <1>6, ZenonT(60) DEF Range
<1> QED
  BY <1>1, <1>4, <1>8, <1>9, ZenonT(60) DEF IsInjective, r

-----------------------------------------------------------------------------
(* What the master can answer. *)
Snaps == [Paths -> -1 .. MaxRev]

(* The keys of the LRU map are those of the entries it holds, each once. *)
Held == {p \in Paths : status[p] # NoSnap \/ (p = Dir /\ listing # NoSnap)}
Keys ==
    /\ lru \in Seq(Paths) /\ IsInjective(lru) /\ Len(lru) <= Capacity
    /\ Range(lru) = Held

(* What the cache holds is at least as new as the changes whose invalidation is *)
(* done.                                                                        *)
Current ==
    /\ \A p, q \in Paths : status[p][q] # -1 => q = p /\ status[p][q] >= synced[q]
    /\ \A q \in Paths : listing[q] # -1 => q # Dir /\ listing[q] >= synced[q]

CacheInv ==
    /\ status \in [Paths -> Snaps] /\ listing \in Snaps /\ inserted \in [Paths -> 0 .. now]
    /\ Keys /\ Current

(* The other types; and no change is ahead of the master. *)
CallTypes ==
    /\ pc \in [Tasks -> {"idle", "status", "list", "invalidate"}]
    /\ path \in [Tasks -> Paths] /\ skip \in [Tasks -> BOOLEAN]
    /\ got \in [Tasks -> Snaps] /\ todo \in [Tasks -> Seq(Paths)]
    /\ answer \in [Tasks -> Snaps] /\ floor \in [Tasks -> [Paths -> 0 .. MaxRev]]
MasterTypes ==
    /\ rev \in [Paths -> 0 .. MaxRev] /\ synced \in [Paths -> 0 .. MaxRev]
    /\ now \in 0 .. MaxTime /\ \A p \in Paths : synced[p] <= rev[p]

(* What a call knows: an answer on its way is at least as new as the changes that *)
(* were invalidated before the call, and a change that has a file to invalidate   *)
(* has dropped the listing of the directory first.                                *)
Called(t) ==
    /\ \A p \in Paths : floor[t][p] <= synced[p]
    /\ \A p \in Paths : answer[t][p] # -1 => answer[t][p] >= floor[t][p]
    /\ pc[t] = "idle" => got[t] = NoSnap
    /\ pc[t] \in {"status", "list"} =>
          \A p \in Paths : got[t][p] # -1 => got[t][p] >= synced[p]
    /\ pc[t] = "status" => \A p \in Paths : got[t][p] # -1 => p = path[t]
    /\ pc[t] = "list" => got[t][Dir] = -1
    /\ pc[t] = "invalidate" =>
          /\ todo[t] # <<>> /\ (Head(todo[t]) = Dir \/ listing = NoSnap)
          /\ \A p \in Paths : got[t][p] <= rev[p]

(* The inductive invariant. *)
CacheIsCurrent == CacheInv /\ CallTypes /\ MasterTypes /\ \A t \in Tasks : Called(t)

(* The client is used by one task at a time. *)
OneTask == \A t, u \in Tasks : t = u

\* The snapshot that is none.
LEMMA NoSnapFacts ==
  /\ NoSnap \in Snaps /\ Dir \in Paths
  /\ \A p \in Paths : NoSnap[p] = -1
  /\ MaxRev \in Nat /\ MaxTime \in Nat /\ Capacity \in Nat /\ Capacity >= 1
<1>1. MaxRev \in Nat /\ MaxTime \in Nat /\ Capacity \in Nat /\ Capacity >= 1
  BY MetadataAssumption
<1>2. -1 \in -1 .. MaxRev
  BY <1>1
<1> QED
  BY <1>1, <1>2 DEF NoSnap, Snaps, Paths

\* The inductive invariant gives the types and what a task sees.
LEMMA CurrentIsSeen == CacheIsCurrent => TypeOK /\ ReadYourWrites
<1> SUFFICES ASSUME CacheIsCurrent PROVE TypeOK /\ ReadYourWrites
  BY ZenonT(60)
<1>1. ReadYourWrites
  BY ZenonT(60) DEF CacheIsCurrent, Called, ReadYourWrites
<1>2. \A t \in Tasks : todo[t] \in Seq(Paths)
  BY DEF CacheIsCurrent, CallTypes
<1>3. TypeOK
  BY <1>2, ZenonT(60)
  DEF CacheIsCurrent, CacheInv, Keys, Held, CallTypes, MasterTypes, TypeOK, Snaps
<1> QED
  BY <1>1, <1>3, ZenonT(60)

-----------------------------------------------------------------------------
\* invalidate: the entry of p goes.  The revision of p that counts as known may
\* grow, if p is the directory or no listing is held.
LEMMA GoneStep ==
  ASSUME CacheInv, NEW p \in Paths, Gone(p), now' = now, now \in Nat,
         \A q \in Paths \ {p} : synced'[q] = synced[q],
         synced' = synced \/ p = Dir \/ listing = NoSnap
  PROVE  /\ CacheInv' /\ (p = Dir => listing' = NoSnap)
         /\ (listing = NoSnap => listing' = NoSnap)
<1>1. /\ lru' = Without(p) /\ status' = [status EXCEPT ![p] = NoSnap]
      /\ listing' = (IF p = Dir THEN NoSnap ELSE listing)
      /\ inserted' = [inserted EXCEPT ![p] = 0]
  BY ZenonT(60) DEF Gone
<1>2. /\ status \in [Paths -> Snaps] /\ listing \in Snaps
      /\ inserted \in [Paths -> 0 .. now] /\ Keys /\ Current
  BY ZenonT(60) DEF CacheInv
<1>3. /\ status' \in [Paths -> Snaps] /\ status'[p] = NoSnap
      /\ \A q \in Paths \ {p} : status'[q] = status[q]
  BY <1>1, <1>2, NoSnapFacts
<1>4. listing' \in Snaps
  BY <1>1, <1>2, NoSnapFacts, ZenonT(60)
<1>5. inserted' \in [Paths -> 0 .. now']
  <2>1. 0 \in 0 .. now
    OBVIOUS
  <2> QED
    BY <1>1, <1>2, <2>1
<1>6. Keys'
  <2>1. lru \in Seq(Paths) /\ IsInjective(lru) /\ Len(lru) <= Capacity /\ Range(lru) = Held
    BY <1>2, ZenonT(60) DEF Keys
  <2>2. /\ lru' \in Seq(Paths) /\ IsInjective(lru') /\ Range(lru') = Range(lru) \ {p}
        /\ Len(lru') = IF p \in Range(lru) THEN Len(lru) - 1 ELSE Len(lru)
    BY <1>1, <2>1, WithoutFacts, ZenonT(60)
  <2>3. Len(lru') <= Capacity
    <3>1. Len(lru) \in Nat
      BY <2>1
    <3>2. CASE p \in Range(lru)
      BY <2>1, <2>2, <3>1, <3>2, NoSnapFacts
    <3>3. CASE p \notin Range(lru)
      BY <2>1, <2>2, <3>3, ZenonT(60)
    <3> QED
      BY <3>2, <3>3, ZenonT(60)
  <2>4. Held' = Held \ {p}
    BY <1>1, <1>3, ZenonT(60) DEF Held
  <2> QED
    BY <2>1, <2>2, <2>3, <2>4, ZenonT(60) DEF Keys
<1>7. Current'
  <2>1. ASSUME NEW a \in Paths, NEW b \in Paths, status'[a][b] # -1
        PROVE  b = a /\ status'[a][b] >= synced'[b]
    <3>1. a # p
      BY <1>3, <2>1, NoSnapFacts, ZenonT(60)
    <3>2. status'[a] = status[a]
      BY <1>3, <3>1, ZenonT(60)
    <3>3. b = a /\ status[a][b] >= synced[b]
      BY <1>2, <2>1, <3>2, ZenonT(60) DEF Current
    <3>4. synced'[b] = synced[b]
      BY <3>1, <3>3, ZenonT(60)
    <3> QED
      BY <3>2, <3>3, <3>4, ZenonT(60)
  <2>2. ASSUME NEW b \in Paths, listing'[b] # -1
        PROVE  b # Dir /\ listing'[b] >= synced'[b]
    <3>1. listing' # NoSnap
      BY <2>2, NoSnapFacts, ZenonT(60)
    <3>2. p # Dir /\ listing' = listing /\ listing # NoSnap
      BY <1>1, <3>1, ZenonT(60)
    <3>3. synced' = synced
      BY <3>2, ZenonT(60)
    <3> QED
      BY <1>2, <2>2, <3>2, <3>3, ZenonT(60) DEF Current
  <2> QED
    BY <2>1, <2>2, ZenonT(60) DEF Current
<1> QED
  BY <1>1, <1>3, <1>4, <1>5, <1>6, <1>7, ZenonT(60) DEF CacheInv

\* A fresh entry that is looked up becomes the most recently used one.
LEMMA TouchStep ==
  ASSUME CacheInv, NEW p \in Paths, p \in Range(lru), lru' = Touch(p),
         UNCHANGED <<status, listing, inserted, now, synced>>
  PROVE  CacheInv'
<1>1. lru \in Seq(Paths) /\ IsInjective(lru) /\ Len(lru) <= Capacity /\ Range(lru) = Held
  BY ZenonT(60) DEF CacheInv, Keys
<1> DEFINE r == Without(p)
<1>2. /\ r \in Seq(Paths) /\ IsInjective(r) /\ Range(r) = Range(lru) \ {p}
      /\ Len(r) = IF p \in Range(lru) THEN Len(lru) - 1 ELSE Len(lru)
  BY <1>1, WithoutFacts, ZenonT(60)
<1>3. lru' = Append(r, p)
  BY ZenonT(60) DEF Touch
<1> HIDE DEF r
<1>4. p \notin Range(r)
  BY <1>2, ZenonT(60)
<1>5. /\ lru' \in Seq(Paths) /\ IsInjective(lru') /\ Range(lru') = Range(r) \cup {p}
      /\ Len(lru') = Len(r) + 1
  <2>1. /\ Append(r, p) \in Seq(Paths) /\ IsInjective(Append(r, p))
        /\ Range(Append(r, p)) = Range(r) \cup {p} /\ Len(Append(r, p)) = Len(r) + 1
    BY <1>2, <1>4, AppendFacts, ZenonT(60)
  <2> QED
    BY <1>3, <2>1, ZenonT(60)
<1>6. Len(r) = Len(lru) - 1 /\ Len(lru) \in Nat
  <2>1. Len(r) = Len(lru) - 1
    BY <1>2, ZenonT(60)
  <2> QED
    BY <1>1, <2>1
<1>7. Len(lru') <= Capacity
  BY <1>1, <1>5, <1>6, NoSnapFacts
<1>8. Range(lru') = Range(lru)
  BY <1>2, <1>5, ZenonT(60)
<1>9. Held' = Held
  BY ZenonT(60) DEF Held
<1> QED
  BY <1>1, <1>5, <1>7, <1>8, <1>9, ZenonT(60) DEF CacheInv, Keys, Current

\* The LRU map after a key is put: what it pushes out is not the key itself.
LEMMA PutFacts ==
  ASSUME Keys, NEW p \in Paths
  PROVE  /\ Put(p).keys \in Seq(Paths) /\ IsInjective(Put(p).keys)
         /\ Len(Put(p).keys) <= Capacity /\ p \notin Put(p).out
         /\ Range(Put(p).keys) = (Range(lru) \ Put(p).out) \cup {p}
<1>1. lru \in Seq(Paths) /\ IsInjective(lru) /\ Len(lru) <= Capacity /\ Len(lru) \in Nat
  BY DEF Keys
<1> DEFINE full == p \notin Range(lru) /\ Len(lru) = Capacity
<1>2. /\ Put(p).keys = (IF full THEN Append(Tail(lru), p) ELSE Touch(p))
      /\ Put(p).out = (IF full THEN {Head(lru)} ELSE {})
  BY DEF Put
<1>3. CASE full
  <2>1. lru # <<>>
    BY <1>1, <1>3, NoSnapFacts
  <2>2. /\ Tail(lru) \in Seq(Paths) /\ IsInjective(Tail(lru)) /\ Head(lru) \in Range(lru)
        /\ Range(Tail(lru)) = Range(lru) \ {Head(lru)} /\ Len(Tail(lru)) = Len(lru) - 1
    BY <1>1, <2>1, TailFacts, ZenonT(60)
  <2>3. p \notin Range(Tail(lru)) /\ p # Head(lru)
    BY <1>3, <2>2, ZenonT(60)
  <2>4. /\ Append(Tail(lru), p) \in Seq(Paths) /\ IsInjective(Append(Tail(lru), p))
        /\ Range(Append(Tail(lru), p)) = Range(Tail(lru)) \cup {p}
        /\ Len(Append(Tail(lru), p)) = Len(Tail(lru)) + 1
    BY <2>2, <2>3, AppendFacts, ZenonT(60)
  <2>5. Len(Append(Tail(lru), p)) <= Capacity
    BY <1>1, <2>2, <2>4, NoSnapFacts
  <2>6. Put(p).keys = Append(Tail(lru), p) /\ Put(p).out = {Head(lru)}
    BY <1>2, <1>3, ZenonT(60)
  <2> QED
    BY <2>2, <2>3, <2>4, <2>5, <2>6, ZenonT(60)
<1>4. CASE ~full
  <2> DEFINE r == Without(p)
  <2>1. /\ r \in Seq(Paths) /\ IsInjective(r) /\ Range(r) = Range(lru) \ {p}
        /\ Len(r) = IF p \in Range(lru) THEN Len(lru) - 1 ELSE Len(lru)
    BY <1>1, WithoutFacts, ZenonT(60)
  <2>2. Put(p).keys = Append(r, p) /\ Put(p).out = {}
    BY <1>2, <1>4, ZenonT(60) DEF Touch
  <2> HIDE DEF r
  <2>3. p \notin Range(r)
    BY <2>1, ZenonT(60)
  <2>4. /\ Append(r, p) \in Seq(Paths) /\ IsInjective(Append(r, p))
        /\ Range(Append(r, p)) = Range(r) \cup {p} /\ Len(Append(r, p)) = Len(r) + 1
    BY <2>1, <2>3, AppendFacts, ZenonT(60)
  <2>5. Len(r) + 1 <= Capacity
    <3>1. CASE p \in Range(lru)
      <4>1. Len(r) = Len(lru) - 1
        BY <2>1, <3>1, ZenonT(60)
      <4> QED
        BY <1>1, <4>1, NoSnapFacts
    <3>2. CASE p \notin Range(lru)
      <4>1. Len(r) = Len(lru) /\ Len(lru) # Capacity
        BY <1>4, <2>1, <3>2, ZenonT(60)
      <4> QED
        BY <1>1, <4>1, NoSnapFacts
    <3> QED
      BY <3>1, <3>2, ZenonT(60)
  <2>6. Range(r) \cup {p} = (Range(lru) \ {}) \cup {p}
    BY <2>1, ZenonT(60)
  <2>7. Len(Append(r, p)) <= Capacity
    BY <2>4, <2>5, ZenonT(60)
  <2> QED
    BY <2>2, <2>4, <2>6, <2>7, ZenonT(60)
<1> QED
  BY <1>3, <1>4, ZenonT(60)

\* An entry of p is stored; s and l are the statuses and the listing then.
LEMMA StoredStep ==
  ASSUME CacheInv, NEW p \in Paths, lru' = Put(p).keys, inserted' = Stamp(Put(p).out, p),
         UNCHANGED <<now, synced>>, now \in Nat,
         status' \in [Paths -> Snaps], listing' \in Snaps, Current',
         status'[p] # NoSnap \/ (p = Dir /\ listing' # NoSnap),
         \A q \in Paths \ {p} : status'[q] = IF q \in Put(p).out THEN NoSnap ELSE status[q],
         p # Dir => listing' = IF Dir \in Put(p).out THEN NoSnap ELSE listing
  PROVE  CacheInv'
<1>1. Keys /\ inserted \in [Paths -> 0 .. now]
  BY ZenonT(60) DEF CacheInv
<1>2. /\ lru' \in Seq(Paths) /\ IsInjective(lru') /\ Len(lru') <= Capacity
      /\ p \notin Put(p).out /\ Range(lru') = (Range(lru) \ Put(p).out) \cup {p}
  BY <1>1, PutFacts, ZenonT(60)
<1>3. Range(lru) = Held
  BY <1>1, ZenonT(60) DEF Keys
<1>4. ASSUME NEW q \in Paths PROVE q \in Held' <=> q \in (Held \ Put(p).out) \cup {p}
  <2>1. CASE q = p
    BY <2>1, ZenonT(60) DEF Held
  <2>2. CASE q # p
    <3>1. status'[q] = IF q \in Put(p).out THEN NoSnap ELSE status[q]
      BY <2>2, ZenonT(60)
    <3>2. q = Dir => listing' = IF q \in Put(p).out THEN NoSnap ELSE listing
      BY <2>2, ZenonT(60)
    <3>3. q \in Held' <=> status'[q] # NoSnap \/ (q = Dir /\ listing' # NoSnap)
      BY ZenonT(60) DEF Held
    <3>4. q \in Held <=> status[q] # NoSnap \/ (q = Dir /\ listing # NoSnap)
      BY ZenonT(60) DEF Held
    <3> QED
      BY <2>2, <3>1, <3>2, <3>3, <3>4, ZenonT(60)
  <2> QED
    BY <2>1, <2>2, ZenonT(60)
<1>5. Held' \subseteq Paths /\ Held \subseteq Paths
  BY ZenonT(60) DEF Held
<1>6. Held' = (Held \ Put(p).out) \cup {p}
  BY <1>4, <1>5, ZenonT(60)
<1>7. Keys'
  BY <1>2, <1>3, <1>6, ZenonT(60) DEF Keys
<1>8. inserted' \in [Paths -> 0 .. now']
  <2>1. 0 \in 0 .. now /\ now \in 0 .. now
    OBVIOUS
  <2> QED
    BY <1>1, <2>1 DEF Stamp
<1> QED
  BY <1>7, <1>8, ZenonT(60) DEF CacheInv

\* insert_arc and insert_not_found: a status as new as the known changes.
LEMMA StatusStep ==
  ASSUME CacheInv, NEW p \in Paths, NEW snap \in Snaps, snap # NoSnap, put_status(p, snap),
         UNCHANGED <<now, synced>>, now \in Nat,
         \A q \in Paths : snap[q] # -1 => q = p /\ snap[q] >= synced[q]
  PROVE  CacheInv'
<1> DEFINE out == Put(p).out
<1>1. /\ lru' = Put(p).keys /\ inserted' = Stamp(out, p)
      /\ status' = [q \in Paths |-> IF q = p THEN snap ELSE IF q \in out THEN NoSnap ELSE status[q]]
      /\ listing' = IF Dir \in out THEN NoSnap ELSE listing
  BY ZenonT(60) DEF put_status
<1> HIDE DEF out
<1>2. status \in [Paths -> Snaps] /\ listing \in Snaps /\ Current
  BY ZenonT(60) DEF CacheInv
<1>3. /\ status' \in [Paths -> Snaps] /\ status'[p] = snap
      /\ \A q \in Paths \ {p} : status'[q] = IF q \in out THEN NoSnap ELSE status[q]
  BY <1>1, <1>2, NoSnapFacts
<1>4. listing' \in Snaps
  BY <1>1, <1>2, NoSnapFacts, ZenonT(60)
<1>5. Current'
  <2>1. ASSUME NEW a \in Paths, NEW b \in Paths, status'[a][b] # -1
        PROVE  b = a /\ status'[a][b] >= synced'[b]
    <3>1. CASE a = p
      BY <1>3, <2>1, <3>1, ZenonT(60)
    <3>2. CASE a # p
      <4>1. status'[a] = status[a]
        BY <1>3, <2>1, <3>2, NoSnapFacts, ZenonT(60)
      <4> QED
        BY <1>2, <2>1, <4>1, ZenonT(60) DEF Current
    <3> QED
      BY <3>1, <3>2, ZenonT(60)
  <2>2. ASSUME NEW b \in Paths, listing'[b] # -1
        PROVE  b # Dir /\ listing'[b] >= synced'[b]
    <3>1. listing' = listing
      BY <1>1, <2>2, NoSnapFacts, ZenonT(60)
    <3> QED
      BY <1>2, <2>2, <3>1, ZenonT(60) DEF Current
  <2> QED
    BY <2>1, <2>2, ZenonT(60) DEF Current
<1> QED
  BY <1>1, <1>3, <1>4, <1>5, StoredStep, ZenonT(60) DEF out

\* insert_listing: a listing as new as the known changes.
LEMMA ListingStep ==
  ASSUME CacheInv, NEW snap \in Snaps, snap # NoSnap, insert_listing(snap),
         UNCHANGED <<now, synced>>, now \in Nat,
         \A q \in Paths : snap[q] # -1 => q # Dir /\ snap[q] >= synced[q]
  PROVE  CacheInv'
<1> DEFINE out == Put(Dir).out
<1>1. /\ lru' = Put(Dir).keys /\ inserted' = Stamp(out, Dir) /\ listing' = snap
      /\ status' = [q \in Paths |-> IF q \in out THEN NoSnap ELSE status[q]]
  BY ZenonT(60) DEF insert_listing
<1> HIDE DEF out
<1>2. status \in [Paths -> Snaps] /\ Current
  BY ZenonT(60) DEF CacheInv
<1>3. /\ status' \in [Paths -> Snaps]
      /\ \A q \in Paths : status'[q] = IF q \in out THEN NoSnap ELSE status[q]
  BY <1>1, <1>2, NoSnapFacts
<1>4. Current'
  <2>1. ASSUME NEW a \in Paths, NEW b \in Paths, status'[a][b] # -1
        PROVE  b = a /\ status'[a][b] >= synced'[b]
    <3>1. status'[a] = status[a]
      BY <1>3, <2>1, NoSnapFacts, ZenonT(60)
    <3> QED
      BY <1>2, <2>1, <3>1, ZenonT(60) DEF Current
  <2>2. ASSUME NEW b \in Paths, listing'[b] # -1
        PROVE  b # Dir /\ listing'[b] >= synced'[b]
    BY <1>1, <2>2, ZenonT(60)
  <2> QED
    BY <2>1, <2>2, ZenonT(60) DEF Current
<1>5. Dir \in Paths
  BY NoSnapFacts, ZenonT(60)
<1> QED
  BY <1>1, <1>3, <1>4, <1>5, StoredStep, ZenonT(60) DEF out

-----------------------------------------------------------------------------
\* With one task, a step is judged by what becomes of its call.
LEMMA OneCall ==
  ASSUME OneTask, NEW t \in Tasks, CacheInv', CallTypes', MasterTypes', Called(t)'
  PROVE  CacheIsCurrent'
<1>1. \A u \in Tasks : Called(u)'
  <2> SUFFICES ASSUME NEW u \in Tasks PROVE Called(u)'
    BY ZenonT(60)
  <2>1. u = t
    BY ZenonT(60) DEF OneTask
  <2> QED
    BY <2>1, ZenonT(60)
<1> QED
  BY <1>1, ZenonT(60) DEF CacheIsCurrent

\* A step that does not touch the cache.
LEMMA CacheSame ==
  ASSUME CacheInv, UNCHANGED <<cache, now, synced>>
  PROVE  CacheInv'
BY ZenonT(60) DEF CacheInv, Keys, Held, Current, cache

\* get and get_listing: the entry is touched, or goes if it has expired.
LEMMA LookupStep ==
  ASSUME CacheInv, NEW p \in Paths, Lookup(p), UNCHANGED <<now, synced>>, now \in Nat
  PROVE  CacheInv'
<1>1. CASE Fresh(p)
  <2>1. p \in Range(lru) /\ lru' = Touch(p) /\ UNCHANGED <<status, listing, inserted>>
    BY <1>1, ZenonT(60) DEF Lookup, Fresh
  <2> QED
    BY <2>1, TouchStep, ZenonT(60)
<1>2. CASE ~Fresh(p)
  <2>1. Gone(p) /\ now' = now /\ synced' = synced
    BY <1>2, ZenonT(60) DEF Lookup
  <2>2. \A q \in Paths \ {p} : synced'[q] = synced[q]
    BY <2>1, ZenonT(60)
  <2> QED
    BY <2>1, <2>2, GoneStep, ZenonT(60)
<1> QED
  BY <1>1, <1>2, ZenonT(60)

\* A call begins, and may end at once with what the cache has.
LEMMA BeginStep ==
  ASSUME OneTask, CacheIsCurrent, CacheInv', NEW t \in Tasks, pc[t] = "idle",
         NEW at \in {"idle", "status", "list"}, NEW p \in Paths, NEW b \in BOOLEAN,
         NEW a \in Snaps, Begin(t, at, p, b), answer' = [answer EXCEPT ![t] = a],
         \A q \in Paths : a[q] # -1 => a[q] >= synced[q],
         UNCHANGED <<rev, now, got, todo, synced>>
  PROVE  CacheIsCurrent'
<1>1. CallTypes /\ MasterTypes /\ Called(t)
  BY ZenonT(60) DEF CacheIsCurrent
<1>2. synced \in [Paths -> 0 .. MaxRev]
  BY <1>1, ZenonT(60) DEF MasterTypes
<1>3. /\ pc' \in [Tasks -> {"idle", "status", "list", "invalidate"}] /\ pc'[t] = at
      /\ path' \in [Tasks -> Paths] /\ path'[t] = p /\ skip' \in [Tasks -> BOOLEAN]
      /\ floor' \in [Tasks -> [Paths -> 0 .. MaxRev]] /\ floor'[t] = synced
      /\ answer' \in [Tasks -> Snaps] /\ answer'[t] = a
  BY <1>1, <1>2 DEF CallTypes, Begin
<1>4. got[t] = NoSnap
  BY <1>1, ZenonT(60) DEF Called
<1>5. CallTypes'
  BY <1>1, <1>3, ZenonT(60) DEF CallTypes
<1>6. MasterTypes'
  BY <1>1, ZenonT(60) DEF MasterTypes
<1>7. \A q \in Paths : got'[t][q] = -1
  BY <1>4, NoSnapFacts, ZenonT(60)
<1>8. \A q \in Paths : floor'[t][q] <= synced'[q]
  <2>1. \A q \in Paths : synced[q] <= synced[q]
    BY <1>2
  <2> QED
    BY <1>3, <2>1, ZenonT(60)
<1>9. Called(t)'
  BY <1>3, <1>4, <1>7, <1>8, NoSnapFacts, ZenonT(60) DEF Called
<1> QED
  BY <1>5, <1>6, <1>9, OneCall, ZenonT(60)

\* get_status_through_cache.
LEMMA GetStatusStep ==
  ASSUME OneTask, CacheIsCurrent, NEW t \in Tasks, NEW p \in Paths, NEW b \in BOOLEAN,
         GetStatus(t, p, b)
  PROVE  CacheIsCurrent'
<1>1. /\ pc[t] = "idle" /\ (IF b THEN UNCHANGED cache ELSE Lookup(p))
      /\ UNCHANGED <<rev, now, got, todo, synced>>
      /\ \/ /\ Begin(t, "idle", Dir, FALSE) /\ answer' = [answer EXCEPT ![t] = status[p]]
         \/ /\ Begin(t, "status", p, b) /\ answer' = [answer EXCEPT ![t] = NoSnap]
  BY ZenonT(60) DEF GetStatus
<1>2. CacheInv /\ now \in 0 .. MaxTime
  BY ZenonT(60) DEF CacheIsCurrent, MasterTypes
<1>3. now \in Nat
  BY <1>2, NoSnapFacts
<1>4. CacheInv'
  <2>1. CASE b
    BY <1>1, <1>2, <2>1, CacheSame, ZenonT(60)
  <2>2. CASE ~b
    BY <1>1, <1>2, <1>3, <2>2, LookupStep, ZenonT(60)
  <2> QED
    BY <2>1, <2>2, ZenonT(60)
<1>5. /\ status[p] \in Snaps
      /\ \A q \in Paths : status[p][q] # -1 => status[p][q] >= synced[q]
  BY <1>2, ZenonT(60) DEF CacheInv, Current
<1>6. \A q \in Paths : NoSnap[q] # -1 => NoSnap[q] >= synced[q]
  BY NoSnapFacts, ZenonT(60)
<1>7. CASE Begin(t, "idle", Dir, FALSE) /\ answer' = [answer EXCEPT ![t] = status[p]]
  BY <1>1, <1>4, <1>5, <1>7, BeginStep, NoSnapFacts, ZenonT(60)
<1>8. CASE Begin(t, "status", p, b) /\ answer' = [answer EXCEPT ![t] = NoSnap]
  BY <1>1, <1>4, <1>6, <1>8, BeginStep, NoSnapFacts, ZenonT(60)
<1> QED
  BY <1>1, <1>7, <1>8, ZenonT(60)

\* list_status_through_cache.
LEMMA ListStatusStep ==
  ASSUME OneTask, CacheIsCurrent, NEW t \in Tasks, NEW b \in BOOLEAN, ListStatus(t, b)
  PROVE  CacheIsCurrent'
<1>1. /\ pc[t] = "idle" /\ (IF b THEN UNCHANGED cache ELSE Lookup(Dir))
      /\ UNCHANGED <<rev, now, got, todo, synced>>
      /\ \/ /\ Begin(t, "idle", Dir, FALSE) /\ answer' = [answer EXCEPT ![t] = listing]
         \/ /\ Begin(t, "list", Dir, b) /\ answer' = [answer EXCEPT ![t] = NoSnap]
  BY ZenonT(60) DEF ListStatus
<1>2. CacheInv /\ now \in 0 .. MaxTime /\ Dir \in Paths
  BY NoSnapFacts, ZenonT(60) DEF CacheIsCurrent, MasterTypes
<1>3. now \in Nat
  BY <1>2, NoSnapFacts
<1>4. CacheInv'
  <2>1. CASE b
    BY <1>1, <1>2, <2>1, CacheSame, ZenonT(60)
  <2>2. CASE ~b
    BY <1>1, <1>2, <1>3, <2>2, LookupStep, ZenonT(60)
  <2> QED
    BY <2>1, <2>2, ZenonT(60)
<1>5. /\ listing \in Snaps
      /\ \A q \in Paths : listing[q] # -1 => listing[q] >= synced[q]
  BY <1>2, ZenonT(60) DEF CacheInv, Current
<1>6. \A q \in Paths : NoSnap[q] # -1 => NoSnap[q] >= synced[q]
  BY NoSnapFacts, ZenonT(60)
<1>7. CASE Begin(t, "idle", Dir, FALSE) /\ answer' = [answer EXCEPT ![t] = listing]
  BY <1>1, <1>2, <1>4, <1>5, <1>7, BeginStep, NoSnapFacts, ZenonT(60)
<1>8. CASE Begin(t, "list", Dir, b) /\ answer' = [answer EXCEPT ![t] = NoSnap]
  BY <1>1, <1>2, <1>4, <1>6, <1>8, BeginStep, NoSnapFacts, ZenonT(60)
<1> QED
  BY <1>1, <1>7, <1>8, ZenonT(60)

\* A call returns what it got, or nothing.
LEMMA ReturnStep ==
  ASSUME OneTask, CacheIsCurrent, CacheInv', NEW t \in Tasks, NEW a \in Snaps, Return(t, a),
         \A q \in Paths : a[q] # -1 => a[q] >= synced[q],
         UNCHANGED <<rev, now, todo, synced, floor>>
  PROVE  CacheIsCurrent'
<1>1. CallTypes /\ MasterTypes /\ Called(t)
  BY ZenonT(60) DEF CacheIsCurrent
<1>2. /\ pc' \in [Tasks -> {"idle", "status", "list", "invalidate"}] /\ pc'[t] = "idle"
      /\ path' \in [Tasks -> Paths] /\ skip' \in [Tasks -> BOOLEAN]
      /\ got' \in [Tasks -> Snaps] /\ got'[t] = NoSnap
      /\ answer' \in [Tasks -> Snaps] /\ answer'[t] = a
  BY <1>1, NoSnapFacts DEF CallTypes, Return
<1>3. CallTypes'
  BY <1>1, <1>2, ZenonT(60) DEF CallTypes
<1>4. MasterTypes'
  BY <1>1, ZenonT(60) DEF MasterTypes
<1>5. \A q \in Paths : floor'[t][q] <= synced'[q]
  BY <1>1, ZenonT(60) DEF Called
<1>6. \A q \in Paths : answer'[t][q] # -1 => answer'[t][q] >= floor'[t][q]
  <2> SUFFICES ASSUME NEW q \in Paths, a[q] # -1 PROVE a[q] >= floor[t][q]
    BY <1>2, ZenonT(60)
  <2>1. a[q] >= synced[q] /\ floor[t][q] <= synced[q]
    BY <1>1, ZenonT(60) DEF Called
  <2>2. a[q] \in -1 .. MaxRev
    BY DEF Snaps
  <2>3. floor[t][q] \in 0 .. MaxRev
    <3>1. floor[t] \in [Paths -> 0 .. MaxRev]
      BY <1>1, ZenonT(60) DEF CallTypes
    <3> QED
      BY <3>1, ZenonT(60)
  <2>4. synced[q] \in 0 .. MaxRev
    BY <1>1, ZenonT(60) DEF MasterTypes
  <2> QED
    BY <2>1, <2>2, <2>3, <2>4, NoSnapFacts
<1>7. Called(t)'
  BY <1>2, <1>5, <1>6, ZenonT(60) DEF Called
<1> QED
  BY <1>3, <1>4, <1>7, OneCall, ZenonT(60)

\* The master answers, or the call fails.
LEMMA FetchStep ==
  ASSUME OneTask, CacheIsCurrent, NEW t \in Tasks, Fetch(t)
  PROVE  CacheIsCurrent'
<1>1. CallTypes /\ MasterTypes /\ Called(t) /\ CacheInv
  BY ZenonT(60) DEF CacheIsCurrent
<1>2. pc[t] \in {"status", "list"} /\ UNCHANGED <<rev, cache, now, todo, synced, floor>>
  BY ZenonT(60) DEF Fetch
<1>3. CacheInv'
  BY <1>1, <1>2, CacheSame, ZenonT(60)
<1>4. CASE Return(t, NoSnap)
  <2>1. \A q \in Paths : NoSnap[q] # -1 => NoSnap[q] >= synced[q]
    BY NoSnapFacts, ZenonT(60)
  <2> QED
    BY <1>2, <1>3, <1>4, <2>1, NoSnapFacts, ReturnStep, ZenonT(60)
<1>5. CASE /\ got' = [got EXCEPT ![t] =
                        IF pc[t] = "list" THEN [rev EXCEPT ![Dir] = -1]
                        ELSE [NoSnap EXCEPT ![path[t]] = rev[path[t]]]]
           /\ UNCHANGED <<pc, path, skip, answer>>
  <2> DEFINE g == IF pc[t] = "list" THEN [rev EXCEPT ![Dir] = -1]
                  ELSE [NoSnap EXCEPT ![path[t]] = rev[path[t]]]
  <2>1. /\ rev \in [Paths -> 0 .. MaxRev] /\ synced \in [Paths -> 0 .. MaxRev]
        /\ \A p \in Paths : synced[p] <= rev[p]
    BY <1>1, ZenonT(60) DEF MasterTypes
  <2>2. rev \in Snaps /\ -1 \in -1 .. MaxRev /\ \A p \in Paths : rev[p] \in -1 .. MaxRev
    BY <2>1, NoSnapFacts DEF Snaps
  <2>3. path[t] \in Paths /\ Dir \in Paths
    BY <1>1, NoSnapFacts, ZenonT(60) DEF CallTypes
  <2>4. CASE pc[t] = "list"
    <3>1. g = [rev EXCEPT ![Dir] = -1]
      BY <2>4, ZenonT(60)
    <3> HIDE DEF g
    <3>2. g \in Snaps /\ g[Dir] = -1 /\ \A p \in Paths \ {Dir} : g[p] = rev[p]
      BY <2>2, <2>3, <3>1 DEF Snaps
    <3>3. \A p \in Paths : g[p] # -1 => g[p] >= synced[p]
      <4> SUFFICES ASSUME NEW p \in Paths, g[p] # -1 PROVE g[p] >= synced[p]
        BY ZenonT(60)
      <4>1. g[p] = rev[p] /\ synced[p] <= rev[p]
        BY <2>1, <3>2, ZenonT(60)
      <4>2. rev[p] \in 0 .. MaxRev /\ synced[p] \in 0 .. MaxRev
        BY <2>1, ZenonT(60)
      <4> QED
        BY <4>1, <4>2, NoSnapFacts
    <3>4. got' = [got EXCEPT ![t] = g]
      BY <1>5, ZenonT(60) DEF g
    <3>5. got' \in [Tasks -> Snaps] /\ got'[t] = g
      BY <1>1, <3>2, <3>4 DEF CallTypes
    <3>6. CallTypes'
      BY <1>1, <1>2, <1>5, <3>5, ZenonT(60) DEF CallTypes
    <3>7. MasterTypes'
      BY <1>1, <1>2, ZenonT(60) DEF MasterTypes
    <3>8. pc' = pc /\ answer' = answer /\ floor' = floor /\ synced' = synced
      BY <1>2, <1>5, ZenonT(60)
    <3>9. Called(t)'
      BY <1>1, <2>4, <3>2, <3>3, <3>5, <3>8, ZenonT(60) DEF Called
    <3> QED
      BY <1>3, <3>6, <3>7, <3>9, OneCall, ZenonT(60)
  <2>5. CASE pc[t] # "list"
    <3>1. g = [NoSnap EXCEPT ![path[t]] = rev[path[t]]] /\ pc[t] = "status"
      BY <1>2, <2>5, ZenonT(60)
    <3> HIDE DEF g
    <3>2. /\ g \in Snaps /\ g[path[t]] = rev[path[t]]
          /\ \A p \in Paths \ {path[t]} : g[p] = -1
      BY <2>2, <2>3, <3>1, NoSnapFacts DEF Snaps
    <3>3. \A p \in Paths : g[p] # -1 => p = path[t] /\ g[p] >= synced[p]
      <4> SUFFICES ASSUME NEW p \in Paths, g[p] # -1 PROVE p = path[t] /\ g[p] >= synced[p]
        BY ZenonT(60)
      <4>1. p = path[t] /\ g[p] = rev[p] /\ synced[p] <= rev[p]
        BY <2>1, <3>2, ZenonT(60)
      <4>2. rev[p] \in 0 .. MaxRev /\ synced[p] \in 0 .. MaxRev
        BY <2>1, ZenonT(60)
      <4> QED
        BY <4>1, <4>2, NoSnapFacts
    <3>4. got' = [got EXCEPT ![t] = g]
      BY <1>5, ZenonT(60) DEF g
    <3>5. got' \in [Tasks -> Snaps] /\ got'[t] = g
      BY <1>1, <3>2, <3>4 DEF CallTypes
    <3>6. CallTypes'
      BY <1>1, <1>2, <1>5, <3>5, ZenonT(60) DEF CallTypes
    <3>7. MasterTypes'
      BY <1>1, <1>2, ZenonT(60) DEF MasterTypes
    <3>8. pc' = pc /\ answer' = answer /\ floor' = floor /\ synced' = synced /\ path' = path
      BY <1>2, <1>5, ZenonT(60)
    <3>9. Called(t)'
      BY <1>1, <3>1, <3>3, <3>5, <3>8, ZenonT(60) DEF Called
    <3> QED
      BY <1>3, <3>6, <3>7, <3>9, OneCall, ZenonT(60)
  <2> QED
    BY <2>4, <2>5, ZenonT(60)
<1> QED
  BY <1>4, <1>5, ZenonT(60) DEF Fetch

\* What the master answered is stored, unless the listing was to skip the cache.
LEMMA StoreStep ==
  ASSUME OneTask, CacheIsCurrent, NEW t \in Tasks, Store(t)
  PROVE  CacheIsCurrent'
<1>1. CallTypes /\ MasterTypes /\ Called(t) /\ CacheInv
  BY ZenonT(60) DEF CacheIsCurrent
<1>2. /\ pc[t] \in {"status", "list"} /\ got[t] # NoSnap /\ Return(t, got[t])
      /\ UNCHANGED <<rev, now, todo, synced, floor>>
      /\ IF pc[t] = "status" THEN put_status(path[t], got[t])
         ELSE IF skip[t] THEN UNCHANGED cache ELSE insert_listing(got[t])
  BY ZenonT(60) DEF Store
<1>3. /\ got[t] \in Snaps /\ path[t] \in Paths
      /\ \A q \in Paths : got[t][q] # -1 => got[t][q] >= synced[q]
  BY <1>1, <1>2, ZenonT(60) DEF CallTypes, Called
<1>4. now \in Nat
  <2>1. now \in 0 .. MaxTime
    BY <1>1, ZenonT(60) DEF MasterTypes
  <2> QED
    BY <2>1, NoSnapFacts
<1>5. CacheInv'
  <2>1. CASE pc[t] = "status"
    <3>1. \A q \in Paths : got[t][q] # -1 => q = path[t] /\ got[t][q] >= synced[q]
      BY <1>1, <1>3, <2>1, ZenonT(60) DEF Called
    <3> QED
      BY <1>1, <1>2, <1>3, <1>4, <2>1, <3>1, StatusStep, ZenonT(60)
  <2>2. CASE pc[t] # "status" /\ skip[t]
    BY <1>1, <1>2, <2>2, CacheSame, ZenonT(60)
  <2>3. CASE pc[t] # "status" /\ ~skip[t]
    <3>1. pc[t] = "list" /\ insert_listing(got[t])
      BY <1>2, <2>3, ZenonT(60)
    <3>2. \A q \in Paths : got[t][q] # -1 => q # Dir /\ got[t][q] >= synced[q]
      BY <1>1, <1>3, <3>1, ZenonT(60) DEF Called
    <3> QED
      BY <1>1, <1>2, <1>3, <1>4, <3>1, <3>2, ListingStep, ZenonT(60)
  <2> QED
    BY <2>1, <2>2, <2>3, ZenonT(60)
<1> QED
  BY <1>2, <1>3, <1>5, ReturnStep, ZenonT(60)

-----------------------------------------------------------------------------
\* The master's changes only add to the revisions.
LEMMA ChangeStep ==
  ASSUME MasterTypes, NEW p \in Paths, NEW q \in Paths,
         Create(p) \/ Complete(p) \/ Delete(p) \/ Rename(p, q) \/ Mkdir \/ DeleteDir
  PROVE  rev' \in [Paths -> Nat] /\ \A r \in Paths : rev[r] <= rev'[r]
<1>1. rev \in [Paths -> Nat] /\ Dir \in Paths
  <2>1. rev \in [Paths -> 0 .. MaxRev]
    BY ZenonT(60) DEF MasterTypes
  <2>2. 0 .. MaxRev \subseteq Nat
    OBVIOUS
  <2> QED
    BY <2>1, <2>2, NoSnapFacts
<1>2. CASE rev' = [rev EXCEPT ![p] = @ + 1]
  BY <1>1, <1>2
<1>3. CASE p # q /\ rev' = [rev EXCEPT ![p] = @ + 1, ![q] = @ + 2]
  BY <1>1, <1>3
<1>4. CASE rev' = [rev EXCEPT ![Dir] = @ + 2]
  BY <1>1, <1>4
<1>5. CASE rev' = [r \in Paths |-> IF Exists(r) THEN rev[r] + 3 - (rev[r] % 3) ELSE rev[r]]
  <2>1. \A n \in Nat : n + 3 - (n % 3) \in Nat /\ n <= n + 3 - (n % 3) /\ n <= n
    OBVIOUS
  <2>2. ASSUME NEW r \in Paths PROVE rev'[r] \in Nat /\ rev[r] <= rev'[r]
    <3>1. rev[r] \in Nat
      BY <1>1, ZenonT(60)
    <3>2. rev'[r] = IF Exists(r) THEN rev[r] + 3 - (rev[r] % 3) ELSE rev[r]
      BY <1>5
    <3> QED
      BY <2>1, <3>1, <3>2, ZenonT(60)
  <2>3. rev' = [r \in Paths |-> rev'[r]]
    BY <1>5
  <2> QED
    BY <2>2, <2>3
<1>6. ASSUME Rename(p, q) PROVE p # q
  BY <1>6, ZenonT(60) DEF Rename, State
<1> QED
  BY <1>2, <1>3, <1>4, <1>5, <1>6, ZenonT(60)
  DEF Create, Complete, Delete, Rename, Mkdir, DeleteDir

\* A change the master made: if it succeeded, the directory is first to go.
LEMMA AppliedStep ==
  ASSUME OneTask, CacheIsCurrent, NEW t \in Tasks, pc[t] = "idle",
         NEW drop \in Seq(Paths), drop # <<>>, Head(drop) = Dir, Applied(t, drop),
         rev' \in [Paths -> Nat], \A p \in Paths : rev[p] <= rev'[p],
         answer' = [answer EXCEPT ![t] = NoSnap], floor' = [floor EXCEPT ![t] = synced],
         UNCHANGED <<cache, now, path, skip, synced>>
  PROVE  CacheIsCurrent'
<1>1. CallTypes /\ MasterTypes /\ Called(t) /\ CacheInv
  BY ZenonT(60) DEF CacheIsCurrent
<1>2. CacheInv'
  BY <1>1, CacheSame, ZenonT(60)
<1>3. /\ rev \in [Paths -> 0 .. MaxRev] /\ synced \in [Paths -> 0 .. MaxRev]
      /\ now \in 0 .. MaxTime /\ \A p \in Paths : synced[p] <= rev[p]
  BY <1>1, ZenonT(60) DEF MasterTypes
<1>4. \A p \in Paths : rev'[p] <= MaxRev
  BY ZenonT(60) DEF Applied
<1>5. rev' \in [Paths -> 0 .. MaxRev] /\ rev' \in Snaps
  BY <1>4, NoSnapFacts DEF Snaps
<1>6. \A p \in Paths : synced[p] <= rev'[p]
  <2> SUFFICES ASSUME NEW p \in Paths PROVE synced[p] <= rev'[p]
    BY ZenonT(60)
  <2>1. synced[p] \in 0 .. MaxRev /\ rev[p] \in 0 .. MaxRev /\ rev'[p] \in Nat
    BY <1>3, ZenonT(60)
  <2>2. synced[p] <= rev[p] /\ rev[p] <= rev'[p]
    BY <1>3, ZenonT(60)
  <2> QED
    BY <2>1, <2>2
<1>7. MasterTypes'
  BY <1>3, <1>5, <1>6, ZenonT(60) DEF MasterTypes
<1>8. /\ answer' \in [Tasks -> Snaps] /\ answer'[t] = NoSnap
      /\ floor' \in [Tasks -> [Paths -> 0 .. MaxRev]] /\ floor'[t] = synced
  BY <1>1, <1>3, NoSnapFacts, ZenonT(60) DEF CallTypes
<1>9. \A p \in Paths : floor'[t][p] <= synced'[p]
  <2>1. \A p \in Paths : synced[p] <= synced[p]
    BY <1>3
  <2> QED
    BY <1>8, <2>1, ZenonT(60)
<1>10. CASE /\ pc' = [pc EXCEPT ![t] = "invalidate"] /\ todo' = [todo EXCEPT ![t] = drop]
            /\ got' = [got EXCEPT ![t] = rev']
  <2>1. /\ pc' \in [Tasks -> {"idle", "status", "list", "invalidate"}]
        /\ pc'[t] = "invalidate" /\ todo' \in [Tasks -> Seq(Paths)] /\ todo'[t] = drop
        /\ got' \in [Tasks -> Snaps] /\ got'[t] = rev'
    BY <1>1, <1>5, <1>10 DEF CallTypes
  <2>2. CallTypes'
    BY <1>1, <1>8, <2>1, ZenonT(60) DEF CallTypes
  <2>3. \A p \in Paths : got'[t][p] <= rev'[p]
    <3>1. \A p \in Paths : rev'[p] <= rev'[p]
      OBVIOUS
    <3> QED
      BY <2>1, <3>1, ZenonT(60)
  <2>4. Called(t)'
    BY <1>8, <1>9, <2>1, <2>3, NoSnapFacts, ZenonT(60) DEF Called
  <2> QED
    BY <1>2, <1>7, <2>2, <2>4, OneCall, ZenonT(60)
<1>11. CASE UNCHANGED <<pc, todo, got>>
  <2>1. CallTypes'
    BY <1>1, <1>8, <1>11, ZenonT(60) DEF CallTypes
  <2>2. Called(t)'
    BY <1>1, <1>8, <1>9, <1>11, NoSnapFacts, ZenonT(60) DEF Called
  <2> QED
    BY <1>2, <1>7, <2>1, <2>2, OneCall, ZenonT(60)
<1> QED
  BY <1>10, <1>11, ZenonT(60) DEF Applied

\* What invalidate_with_parent is to drop starts with the directory.
LEMMA DroppedFacts ==
  ASSUME NEW p \in Paths, NEW q \in Paths
  PROVE  /\ Dropped(p) \in Seq(Paths) /\ Dropped(p) # <<>> /\ Head(Dropped(p)) = Dir
         /\ Dropped(p) \o Dropped(q) \in Seq(Paths) /\ Dropped(p) \o Dropped(q) # <<>>
         /\ Head(Dropped(p) \o Dropped(q)) = Dir
<1>1. ASSUME NEW r \in Paths
      PROVE  Dropped(r) \in Seq(Paths) /\ Dropped(r) # <<>> /\ Head(Dropped(r)) = Dir
  <2>1. CASE r = Dir
    <3>1. Dropped(r) = <<Dir>>
      BY <2>1, ZenonT(60) DEF Dropped
    <3> QED
      BY <3>1, NoSnapFacts
  <2>2. CASE r # Dir
    <3>1. Dropped(r) = <<Dir, r>>
      BY <2>2, ZenonT(60) DEF Dropped
    <3> QED
      BY <3>1, NoSnapFacts
  <2> QED
    BY <2>1, <2>2, ZenonT(60)
<1>2. ASSUME NEW a \in Seq(Paths), NEW b \in Seq(Paths), a # <<>>
      PROVE  a \o b \in Seq(Paths) /\ a \o b # <<>> /\ Head(a \o b) = Head(a)
  BY <1>2
<1> QED
  BY <1>1, <1>2, ZenonT(60)

\* create, complete, delete, rename, mkdir and the recursive delete.
LEMMA MutateStep ==
  ASSUME OneTask, CacheIsCurrent, NEW t \in Tasks, Mutate(t)
  PROVE  CacheIsCurrent'
<1>1. /\ pc[t] = "idle" /\ answer' = [answer EXCEPT ![t] = NoSnap]
      /\ floor' = [floor EXCEPT ![t] = synced]
      /\ UNCHANGED <<cache, now, path, skip, synced>>
  BY ZenonT(60) DEF Mutate
<1>2. MasterTypes /\ Files \subseteq Paths /\ Dir \in Paths
  BY NoSnapFacts, ZenonT(60) DEF CacheIsCurrent, Paths
<1>3. CASE \E p \in Files : (Create(p) \/ Complete(p) \/ Delete(p)) /\ Applied(t, Dropped(p))
  <2>1. PICK p \in Paths : (Create(p) \/ Complete(p) \/ Delete(p)) /\ Applied(t, Dropped(p))
    BY <1>2, <1>3, ZenonT(60)
  <2>2. rev' \in [Paths -> Nat] /\ \A r \in Paths : rev[r] <= rev'[r]
    BY <1>2, <2>1, ChangeStep, ZenonT(60)
  <2>3. Dropped(p) \in Seq(Paths) /\ Dropped(p) # <<>> /\ Head(Dropped(p)) = Dir
    BY DroppedFacts, ZenonT(60)
  <2> QED
    BY <1>1, <2>1, <2>2, <2>3, AppliedStep, ZenonT(60)
<1>4. CASE \E p, q \in Files : Rename(p, q) /\ Applied(t, Dropped(p) \o Dropped(q))
  <2>1. PICK p \in Paths, q \in Paths : Rename(p, q) /\ Applied(t, Dropped(p) \o Dropped(q))
    BY <1>2, <1>4, ZenonT(60)
  <2>2. rev' \in [Paths -> Nat] /\ \A r \in Paths : rev[r] <= rev'[r]
    BY <1>2, <2>1, ChangeStep, ZenonT(60)
  <2>3. /\ Dropped(p) \o Dropped(q) \in Seq(Paths) /\ Dropped(p) \o Dropped(q) # <<>>
        /\ Head(Dropped(p) \o Dropped(q)) = Dir
    BY DroppedFacts, ZenonT(60)
  <2> QED
    BY <1>1, <2>1, <2>2, <2>3, AppliedStep, ZenonT(60)
<1>5. CASE (Mkdir \/ DeleteDir) /\ Applied(t, Dropped(Dir))
  <2>1. rev' \in [Paths -> Nat] /\ \A r \in Paths : rev[r] <= rev'[r]
    BY <1>2, <1>5, ChangeStep, ZenonT(60)
  <2>2. Dropped(Dir) \in Seq(Paths) /\ Dropped(Dir) # <<>> /\ Head(Dropped(Dir)) = Dir
    BY <1>2, DroppedFacts, ZenonT(60)
  <2> QED
    BY <1>1, <1>5, <2>1, <2>2, AppliedStep, ZenonT(60)
<1> QED
  BY <1>3, <1>4, <1>5, ZenonT(60) DEF Mutate

\* invalidate: the next path of a change goes, and the change counts as known.
LEMMA InvalidateStep ==
  ASSUME OneTask, CacheIsCurrent, NEW t \in Tasks, Invalidate(t)
  PROVE  CacheIsCurrent'
<1> DEFINE p == Head(todo[t])
<1>1. CallTypes /\ MasterTypes /\ Called(t) /\ CacheInv
  BY ZenonT(60) DEF CacheIsCurrent
<1>2. /\ pc[t] = "invalidate" /\ Gone(p)
      /\ synced' = [synced EXCEPT ![p] = IF @ < got[t][p] THEN got[t][p] ELSE @]
      /\ todo' = [todo EXCEPT ![t] = Tail(@)]
      /\ \/ Len(todo[t]) > 1 /\ UNCHANGED <<pc, got>>
         \/ pc' = [pc EXCEPT ![t] = "idle"] /\ got' = [got EXCEPT ![t] = NoSnap]
      /\ UNCHANGED <<rev, now, path, skip, answer, floor>>
  BY ZenonT(60) DEF Invalidate
<1>3. /\ todo[t] # <<>> /\ (p = Dir \/ listing = NoSnap)
      /\ \A q \in Paths : got[t][q] <= rev[q]
  BY <1>1, <1>2, ZenonT(60) DEF Called
<1>4. todo \in [Tasks -> Seq(Paths)] /\ todo[t] \in Seq(Paths)
  BY <1>1, ZenonT(60) DEF CallTypes
<1>5. p \in Paths /\ Tail(todo[t]) \in Seq(Paths)
  BY <1>3, <1>4
<1> HIDE DEF p
<1>6. /\ rev \in [Paths -> 0 .. MaxRev] /\ synced \in [Paths -> 0 .. MaxRev]
      /\ now \in 0 .. MaxTime /\ \A q \in Paths : synced[q] <= rev[q]
  BY <1>1, ZenonT(60) DEF MasterTypes
<1>7. got[t] \in Snaps /\ got[t][p] \in -1 .. MaxRev
  <2>1. got[t] \in Snaps
    BY <1>1, ZenonT(60) DEF CallTypes
  <2> QED
    BY <1>5, <2>1 DEF Snaps
<1> DEFINE m == IF synced[p] < got[t][p] THEN got[t][p] ELSE synced[p]
<1>8. m \in 0 .. MaxRev /\ synced[p] <= m /\ m <= rev[p]
  <2>1. synced[p] \in 0 .. MaxRev /\ rev[p] \in 0 .. MaxRev
    BY <1>5, <1>6, ZenonT(60)
  <2>2. synced[p] <= rev[p] /\ got[t][p] <= rev[p]
    BY <1>3, <1>5, <1>6, ZenonT(60)
  <2> QED
    BY <1>7, <2>1, <2>2, NoSnapFacts
<1>9. synced' = [synced EXCEPT ![p] = m]
  BY <1>2, ZenonT(60)
<1> HIDE DEF m
<1>10. /\ synced' \in [Paths -> 0 .. MaxRev] /\ synced'[p] = m
       /\ \A q \in Paths \ {p} : synced'[q] = synced[q]
  BY <1>5, <1>6, <1>8, <1>9
<1>11. \A q \in Paths : synced[q] <= synced'[q] /\ synced'[q] <= rev[q]
  <2> SUFFICES ASSUME NEW q \in Paths PROVE synced[q] <= synced'[q] /\ synced'[q] <= rev[q]
    BY ZenonT(60)
  <2>1. CASE q = p
    BY <1>8, <1>10, <2>1, ZenonT(60)
  <2>2. CASE q # p
    <3>1. synced'[q] = synced[q] /\ synced[q] <= rev[q] /\ synced[q] \in 0 .. MaxRev
      BY <1>6, <1>10, <2>2, ZenonT(60)
    <3> QED
      BY <3>1
  <2> QED
    BY <2>1, <2>2, ZenonT(60)
<1>12. now \in Nat /\ now' = now
  BY <1>2, <1>6, NoSnapFacts
<1>13. /\ CacheInv' /\ (p = Dir => listing' = NoSnap)
       /\ (listing = NoSnap => listing' = NoSnap)
  BY <1>1, <1>2, <1>3, <1>5, <1>10, <1>12, GoneStep, ZenonT(60) DEF p
<1>14. MasterTypes'
  BY <1>2, <1>6, <1>10, <1>11, ZenonT(60) DEF MasterTypes
<1>15. todo' \in [Tasks -> Seq(Paths)] /\ todo'[t] = Tail(todo[t])
  BY <1>2, <1>4, <1>5
<1>16. \A q \in Paths : floor'[t][q] <= synced'[q]
  <2> SUFFICES ASSUME NEW q \in Paths PROVE floor[t][q] <= synced'[q]
    BY <1>2, ZenonT(60)
  <2>1. floor[t][q] <= synced[q] /\ synced[q] <= synced'[q]
    BY <1>1, <1>11, ZenonT(60) DEF Called
  <2>2. synced[q] \in 0 .. MaxRev /\ synced'[q] \in 0 .. MaxRev
    BY <1>6, <1>10, ZenonT(60)
  <2>3. floor[t][q] \in 0 .. MaxRev
    <3>1. floor[t] \in [Paths -> 0 .. MaxRev]
      BY <1>1, ZenonT(60) DEF CallTypes
    <3> QED
      BY <3>1, ZenonT(60)
  <2> QED
    BY <2>1, <2>2, <2>3
<1>17. \A q \in Paths : answer'[t][q] # -1 => answer'[t][q] >= floor'[t][q]
  BY <1>1, <1>2, ZenonT(60) DEF Called
<1>18. listing' = NoSnap
  BY <1>3, <1>13, ZenonT(60)
<1>19. CASE Len(todo[t]) > 1 /\ UNCHANGED <<pc, got>>
  <2>1. CallTypes'
    BY <1>1, <1>2, <1>15, <1>19, ZenonT(60) DEF CallTypes
  <2>2. Tail(todo[t]) # <<>>
    <3>0. ASSUME NEW s \in Seq(Paths), s # <<>>
          PROVE  Len(Tail(s)) = Len(s) - 1 /\ Len(s) \in Nat
      BY <3>0, HeadTailProperties, LenProperties, ZenonT(60)
    <3>1. Len(Tail(todo[t])) = Len(todo[t]) - 1 /\ Len(todo[t]) \in Nat
      BY <1>3, <1>4, <3>0, ZenonT(60)
    <3>2. Len(todo[t]) > 1
      BY <1>19, ZenonT(60)
    <3>3. Len(<<>>) = 0
      OBVIOUS
    <3>4. \A n \in Nat : n > 1 => n - 1 # 0
      OBVIOUS
    <3> QED
      BY <3>1, <3>2, <3>3, <3>4, ZenonT(60)
  <2>3. pc'[t] = "invalidate" /\ got' = got /\ rev' = rev
    BY <1>2, <1>19, ZenonT(60)
  <2>4. Called(t)'
    BY <1>3, <1>15, <1>16, <1>17, <1>18, <2>2, <2>3, NoSnapFacts, ZenonT(60) DEF Called
  <2> QED
    BY <1>13, <1>14, <2>1, <2>4, OneCall, ZenonT(60)
<1>20. CASE pc' = [pc EXCEPT ![t] = "idle"] /\ got' = [got EXCEPT ![t] = NoSnap]
  <2>1. /\ pc' \in [Tasks -> {"idle", "status", "list", "invalidate"}] /\ pc'[t] = "idle"
        /\ got' \in [Tasks -> Snaps] /\ got'[t] = NoSnap
    BY <1>1, <1>20, NoSnapFacts DEF CallTypes
  <2>2. CallTypes'
    BY <1>1, <1>2, <1>15, <2>1, ZenonT(60) DEF CallTypes
  <2>3. Called(t)'
    BY <1>16, <1>17, <2>1, ZenonT(60) DEF Called
  <2> QED
    BY <1>13, <1>14, <2>2, <2>3, OneCall, ZenonT(60)
<1> QED
  BY <1>2, <1>19, <1>20, ZenonT(60)

\* Time passes.
LEMMA TickStep ==
  ASSUME CacheIsCurrent, Tick
  PROVE  CacheIsCurrent'
<1>1. /\ now < MaxTime /\ now' = now + 1
      /\ UNCHANGED <<rev, cache, calls, answer, synced, floor>>
  BY ZenonT(60) DEF Tick
<1>2. CacheInv /\ CallTypes /\ MasterTypes /\ \A t \in Tasks : Called(t)
  BY ZenonT(60) DEF CacheIsCurrent
<1>3. now \in 0 .. MaxTime
  BY <1>2, ZenonT(60) DEF MasterTypes
<1>4. now' \in 0 .. MaxTime /\ 0 .. now \subseteq 0 .. now'
  BY <1>1, <1>3, NoSnapFacts
<1>5. inserted' \in [Paths -> 0 .. now']
  <2>1. inserted \in [Paths -> 0 .. now] /\ inserted' = inserted
    BY <1>1, <1>2, ZenonT(60) DEF CacheInv, cache
  <2> QED
    BY <1>4, <2>1
<1>6. CacheInv'
  BY <1>1, <1>2, <1>5, ZenonT(60) DEF CacheInv, Keys, Held, Current, cache
<1>7. CallTypes'
  BY <1>1, <1>2, ZenonT(60) DEF CallTypes, calls
<1>8. MasterTypes'
  BY <1>1, <1>2, <1>4, ZenonT(60) DEF MasterTypes
<1>9. \A t \in Tasks : Called(t)'
  BY <1>1, <1>2, ZenonT(60) DEF Called, calls, cache
<1> QED
  BY <1>6, <1>7, <1>8, <1>9, ZenonT(60) DEF CacheIsCurrent

\* Every step keeps the inductive invariant.
LEMMA CacheStep ==
  ASSUME OneTask, CacheIsCurrent, [Next]_vars
  PROVE  CacheIsCurrent'
<1>1. CASE Next
  BY <1>1, GetStatusStep, ListStatusStep, FetchStep, StoreStep, MutateStep, InvalidateStep,
     TickStep, ZenonT(60) DEF Next
<1>2. CASE UNCHANGED vars
  BY <1>2, ZenonT(60)
  DEF vars, calls, CacheIsCurrent, CacheInv, Keys, Held, Current, cache, CallTypes,
      MasterTypes, Called
<1> QED
  BY <1>1, <1>2, ZenonT(60)

\* A client that has asked for nothing has cached nothing.
LEMMA CacheStart == Init => CacheIsCurrent
<1> SUFFICES ASSUME Init PROVE CacheIsCurrent
  BY ZenonT(60)
<1>1. /\ rev = [p \in Paths |-> IF p = Dir THEN 2 ELSE 0] /\ synced = rev /\ now = 0
      /\ status = [p \in Paths |-> NoSnap] /\ listing = NoSnap
      /\ inserted = [p \in Paths |-> 0] /\ lru = <<>>
      /\ pc = [t \in Tasks |-> "idle"] /\ path = [t \in Tasks |-> Dir]
      /\ skip = [t \in Tasks |-> FALSE] /\ got = [t \in Tasks |-> NoSnap]
      /\ todo = [t \in Tasks |-> <<>>] /\ answer = [t \in Tasks |-> NoSnap]
      /\ floor = [t \in Tasks |-> rev]
  BY ZenonT(60) DEF Init
<1>2. 0 \in 0 .. MaxRev /\ 2 \in 0 .. MaxRev /\ 0 \in 0 .. MaxTime /\ 0 \in 0 .. 0
  BY MetadataAssumption
<1>3. rev \in [Paths -> 0 .. MaxRev]
  BY <1>1, <1>2
<1>4. MasterTypes
  <2>1. \A p \in Paths : rev[p] <= rev[p]
    BY <1>3
  <2> QED
    BY <1>1, <1>2, <1>3, <2>1, ZenonT(60) DEF MasterTypes
<1>5. CallTypes
  BY <1>1, <1>3, NoSnapFacts DEF CallTypes
<1>6. status \in [Paths -> Snaps] /\ listing \in Snaps /\ inserted \in [Paths -> 0 .. now]
  BY <1>1, <1>2, NoSnapFacts
<1>7. \A p \in Paths : status[p] = NoSnap
  BY <1>1
<1>8. Current
  BY <1>1, <1>7, NoSnapFacts, ZenonT(60) DEF Current
<1>9. Keys
  <2>1. lru \in Seq(Paths) /\ Len(lru) = 0 /\ DOMAIN lru = {}
    BY <1>1
  <2>2. Len(lru) <= Capacity
    BY <2>1, NoSnapFacts
  <2>3. IsInjective(lru) /\ Range(lru) = {}
    BY <2>1, ZenonT(60) DEF IsInjective, Range
  <2>4. Held = {}
    BY <1>1, <1>7, ZenonT(60) DEF Held
  <2> QED
    BY <2>1, <2>2, <2>3, <2>4, ZenonT(60) DEF Keys
<1>10. ASSUME NEW t \in Tasks PROVE Called(t)
  <2>1. pc[t] = "idle" /\ got[t] = NoSnap /\ answer[t] = NoSnap /\ floor[t] = synced
    BY <1>1
  <2>2. \A p \in Paths : synced[p] <= synced[p]
    BY <1>1, <1>3
  <2> QED
    BY <2>1, <2>2, NoSnapFacts, ZenonT(60) DEF Called
<1> QED
  BY <1>4, <1>5, <1>6, <1>8, <1>9, <1>10, ZenonT(60) DEF CacheIsCurrent, CacheInv

\* For any files, capacity, TTL and revisions, and a client used by one task at a
\* time: the cache has a key for exactly the entries it holds and never more than
\* its capacity, and every status and listing a call returns is at least as new
\* as the changes whose invalidation was done before the call
\* (get_status_through_cache, list_status_through_cache, invalidate_with_parent).
THEOREM OwnChangesAreSeen ==
  ASSUME OneTask
  PROVE  Spec => []SeesOwnChanges
<1>1. CacheIsCurrent => SeesOwnChanges
  BY CurrentIsSeen, ZenonT(60) DEF SeesOwnChanges
<1>2. CacheIsCurrent /\ [Next]_vars => CacheIsCurrent'
  BY CacheStep, ZenonT(60)
<1> QED
  BY <1>1, <1>2, CacheStart, PTL DEF Spec
=============================================================================
