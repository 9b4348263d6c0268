-------------------------- MODULE PyGoosefsProofs --------------------------
(***************************************************************************)
(* Proofs about PyGoosefs, the file system objects of the Python bindings  *)
(* (bindings/python/src/filesystem.rs, sync_fs.rs).                        *)
(***************************************************************************)
EXTENDS PyGoosefs, FiniteSetTheorems, WellFoundedInduction, TLAPS

\* The time limits of the provers, in seconds.
USE SMTT(30), ZenonT(60)

\* A set of numbers that is not empty has a least one.
LEMMA LeastExists ==
  ASSUME NEW S, S \subseteq Nat, S # {}
  PROVE  \E i \in S : \A j \in S : i <= j
<1>1. PICK i \in S : \A j \in S : ~(<<j, i>> \in OpToRel(<, Nat))
  BY NatLessThanWellFounded, WFMin, ZenonT(60)
<1>2. ASSUME NEW j \in S PROVE i <= j
  <2>1. i \in Nat /\ j \in Nat
    BY ZenonT(60)
  <2>2. ~(<<j, i>> \in OpToRel(<, Nat))
    BY <1>1, ZenonT(60)
  <2>3. ~(j < i)
    BY <2>1, <2>2 DEF OpToRel
  <2> QED BY <2>1, <2>3
<1> QED BY <1>2, ZenonT(60)

\* What tells the methods apart.
Kinds == [many : BOOLEAN, limit : Nat, effect : {"query", "change", "open"}, checked : BOOLEAN]

\* Every method is one of the kinds, in both classes.
LEMMA MethodKinds ==
  ASSUME BatchAssumption
  PROVE  Methods \subseteq Kinds /\ get_status \in Methods
<1>1. BATCH_CONCURRENCY_LIMIT \in Nat /\ RESOURCE_BATCH_CONCURRENCY_LIMIT \in Nat
  BY DEF BatchAssumption
<1>2. ASSUME NEW e \in {"query", "change", "open"}
      PROVE  Single(e) \in Kinds /\ Checked(Single(e)) \in Kinds
  BY ZenonT(60) DEF Kinds, Single, Checked
<1>3. ASSUME NEW e \in {"query", "change", "open"}, NEW n \in Nat
      PROVE  Buffered(e, n) \in Kinds /\ Checked(Buffered(e, n)) \in Kinds
  BY ZenonT(60) DEF Kinds, Buffered, Checked
<1>4. PyAsyncGoosefs \subseteq Kinds
  BY <1>1, <1>2, <1>3, ZenonT(60)
  DEF PyAsyncGoosefs, get_status, list_status, list_status_grouped, exists, mkdir, delete,
     delete_with_options, rename, read_file, read_range, write_file, open_file,
     create_file, batch_get_status, batch_exists, batch_open_file, batch_create_file,
     batch_create_dir, batch_rename, batch_delete, batch_list_status,
     batch_list_status_grouped
<1>5. PyGoosefsMethods = PyAsyncGoosefs
  BY ZenonT(60) DEF PyGoosefsMethods, PyAsyncGoosefs,
     sync_get_status, sync_list_status, sync_list_status_grouped, sync_exists,
     sync_mkdir, sync_delete, sync_delete_with_options, sync_rename, sync_read_file,
     sync_read_range, sync_write_file, sync_open_file, sync_create_file,
     sync_batch_get_status, sync_batch_exists, sync_batch_open_file,
     sync_batch_create_file, sync_batch_create_dir, sync_batch_rename,
     sync_batch_delete, sync_batch_list_status, sync_batch_list_status_grouped
<1>6. get_status \in PyAsyncGoosefs
  BY ZenonT(60) DEF PyAsyncGoosefs
<1> QED
  BY <1>4, <1>5, <1>6, ZenonT(60) DEF Methods

\* The paths of c answered well, the clients in a call, what a call can return.
Oks(c) == {i \in Paths : fate[c][i] = "ok"}
Active == {c \in Clients : at[c] \in {"entry", "running"}}
Outcomes == {"none", "ok", "err", "refused", "dropped"}
Results == {Result(k, i) : k \in {"none", "ok", "err", "refused", "dropped"}, i \in 0 .. MaxPaths}

\* What a result says of a call.
LEMMA ResultValues ==
  ASSUME BatchAssumption
  PROVE  /\ Pending \in Results /\ Pending.kind = "none"
         /\ \A k \in Outcomes, i \in 0 .. MaxPaths :
              Result(k, i) \in Results /\ Result(k, i).kind = k /\ Result(k, i).path = i
<1>1. 0 \in 0 .. MaxPaths
  BY DEF BatchAssumption
<1>2. \A k \in Outcomes, i \in 0 .. MaxPaths : Result(k, i) \in Results
  BY DEF Results, Outcomes
<1>3. \A k, i : Result(k, i).kind = k /\ Result(k, i).path = i
  BY DEF Result
<1> QED
  BY <1>1, <1>2, <1>3, ZenonT(60) DEF Pending, Outcomes

(* TypeOK, in two parts: what the clients share, and what each has. *)
Shared ==
    /\ class \in {"AsyncGoosefs", "Goosefs"}
    /\ handle \in BOOLEAN /\ context \in {"open", "closed"}
    /\ readers \in Nat /\ calls \in 0 .. MaxCalls
Locals ==
    /\ at \in [Clients -> {"idle", "entry", "running", "closing"}]
    /\ method \in [Clients -> Methods] /\ paths \in [Clients -> 0 .. MaxPaths]
    /\ fate \in [Clients -> [Paths -> {"queued", "flight", "ok", "err"}]]
    /\ yielded \in [Clients -> 0 .. MaxPaths] /\ streams \in [Clients -> 0 .. MaxPaths]
    /\ result \in [Clients -> Results]

(* The futures started are the first n of the input, those yielded are answered, *)
(* and a call that is under way has no result yet.                               *)
Progress(c, n) ==
    /\ Sent(c) = 1 .. n /\ yielded[c] <= n /\ n - yielded[c] <= method[c].limit
    /\ \A i \in 1 .. yielded[c] : fate[c][i] \in {"ok", "err"}
    /\ at[c] = "entry" => n = 0
    /\ at[c] = "running" => n <= paths[c]
    /\ at[c] \in {"entry", "running"} => result[c].kind = "none"
    /\ at[c] = "closing" => paths[c] = 0

(* What a result says of the paths: FirstErrorRaised, of one client. *)
Raised(c) ==
    /\ result[c].kind = "ok" => \A i \in 1 .. paths[c] : fate[c][i] = "ok"
    /\ result[c].kind = "err" =>
          /\ fate[c][result[c].path] = "err"
          /\ \A i \in 1 .. result[c].path - 1 : fate[c][i] = "ok"
          /\ \A i \in 1 .. paths[c] : fate[c][i] \in {"ok", "err"}

(* The streams a call owns are those of its successful paths: NoStreamLeaks, of *)
(* one client.                                                                  *)
Owned(c) ==
    streams[c] = IF at[c] = "running" /\ method[c].effect = "open" THEN Cardinality(Oks(c)) ELSE 0
Good(c) == (\E n \in 0 .. MaxPaths : Progress(c, n)) /\ Raised(c) /\ Owned(c)

(* A call hands over at most MaxPaths streams, when it ends. *)
Handed == readers + Cardinality(Active) * MaxPaths <= calls * MaxPaths

(* The inductive invariant. *)
ClientInv == Shared /\ Locals /\ Handed /\ \A c \in Clients : Good(c)

(* What a step of another client leaves to c. *)
Same(c) ==
    /\ at'[c] = at[c] /\ method'[c] = method[c] /\ paths'[c] = paths[c] /\ fate'[c] = fate[c]
    /\ yielded'[c] = yielded[c] /\ streams'[c] = streams[c] /\ result'[c] = result[c]

\* The futures started, when they are the first n.
LEMMA SentCount ==
  ASSUME BatchAssumption, NEW c, NEW n \in Nat, Sent(c) = 1 .. n
  PROVE  Cardinality(Sent(c)) = n
<1>1. Cardinality(1 .. n) = IF 1 > n THEN 0 ELSE n - 1 + 1
  BY FS_Interval
<1> QED
  BY <1>1

\* The paths answered well are at most all of them.
LEMMA OksCount ==
  ASSUME BatchAssumption, NEW c
  PROVE  /\ IsFiniteSet(Oks(c)) /\ Cardinality(Oks(c)) \in 0 .. MaxPaths
         /\ \A i : i \notin Oks(c) => Cardinality(Oks(c) \cup {i}) = Cardinality(Oks(c)) + 1
         /\ Oks(c) = {} => Cardinality(Oks(c)) = 0
<1>1. MaxPaths \in Nat
  BY DEF BatchAssumption
<1>2. IsFiniteSet(1 .. MaxPaths) /\ Cardinality(1 .. MaxPaths) = MaxPaths
  <2>1. IsFiniteSet(1 .. MaxPaths) /\ Cardinality(1 .. MaxPaths) = IF 1 > MaxPaths THEN 0 ELSE MaxPaths - 1 + 1
    BY <1>1, FS_Interval
  <2> QED
    BY <1>1, <2>1
<1>3. Oks(c) \in SUBSET (1 .. MaxPaths)
  BY ZenonT(60) DEF Oks, Paths
<1>4. IsFiniteSet(Oks(c)) /\ Cardinality(Oks(c)) <= MaxPaths
  BY <1>2, <1>3, FS_Subset, ZenonT(60)
<1>5. Cardinality(Oks(c)) \in Nat
  BY <1>4, FS_CardinalityType, ZenonT(60)
<1>6. \A i : i \notin Oks(c) => Cardinality(Oks(c) \cup {i}) = Cardinality(Oks(c)) + 1
  BY <1>4, FS_AddElement, ZenonT(60)
<1>7. Oks(c) = {} => Cardinality(Oks(c)) = 0
  BY FS_EmptySet, ZenonT(60)
<1>8. Cardinality(Oks(c)) \in 0 .. MaxPaths
  BY <1>1, <1>4, <1>5
<1> QED
  BY <1>4, <1>6, <1>7, <1>8, ZenonT(60)

\* The clients in a call are finitely many.
LEMMA ActiveCount ==
  ASSUME BatchAssumption
  PROVE  /\ IsFiniteSet(Active) /\ Cardinality(Active) \in Nat
         /\ \A c : /\ c \notin Active => Cardinality(Active \cup {c}) = Cardinality(Active) + 1
                   /\ c \in Active => Cardinality(Active \ {c}) = Cardinality(Active) - 1
<1>1. IsFiniteSet(Active)
  <2>1. Active \in SUBSET Clients
    BY ZenonT(60) DEF Active
  <2> QED
    BY <2>1, FS_Subset, ZenonT(60) DEF BatchAssumption
<1> QED
  BY <1>1, FS_CardinalityType, FS_AddElement, FS_RemoveElement, ZenonT(60)

\* The futures in flight are among those started and not yielded: the window.
LEMMA WindowFollows ==
  ASSUME BatchAssumption
  PROVE  ClientInv => WindowKept
<1> SUFFICES ASSUME ClientInv, NEW c \in Clients PROVE Cardinality(InFlight(c)) <= method[c].limit
  BY ZenonT(60) DEF WindowKept
<1>1. PICK n \in 0 .. MaxPaths : Progress(c, n)
  BY ZenonT(60) DEF ClientInv, Good
<1>2. yielded[c] \in Nat /\ n \in Nat /\ MaxPaths \in Nat /\ method[c].limit \in Nat
  <2>1. method[c] \in Kinds
    BY MethodKinds, ZenonT(60) DEF ClientInv, Locals
  <2>2. yielded[c] \in 0 .. MaxPaths
    BY ZenonT(60) DEF ClientInv, Locals
  <2> QED
    BY <2>1, <2>2 DEF BatchAssumption, Kinds
<1>3. InFlight(c) \subseteq yielded[c] + 1 .. n
  <2> SUFFICES ASSUME NEW i \in Paths, fate[c][i] = "flight" PROVE i \in yielded[c] + 1 .. n
    BY ZenonT(60) DEF InFlight
  <2>1. i \in Sent(c)
    BY DEF Sent
  <2>2. i \in 1 .. n /\ ~(i \in 1 .. yielded[c])
    BY <1>1, <2>1, ZenonT(60) DEF Progress
  <2> QED
    BY <1>2, <2>2
<1>4. /\ IsFiniteSet(yielded[c] + 1 .. n)
      /\ Cardinality(yielded[c] + 1 .. n) = IF yielded[c] + 1 > n THEN 0 ELSE n - (yielded[c] + 1) + 1
  <2>1. yielded[c] + 1 \in Int /\ n \in Int
    BY <1>2
  <2> QED
    BY <2>1, FS_Interval, ZenonT(60)
<1>5. Cardinality(InFlight(c)) <= Cardinality(yielded[c] + 1 .. n) /\ IsFiniteSet(InFlight(c))
  BY <1>3, <1>4, FS_Subset, ZenonT(60)
<1>6. Cardinality(InFlight(c)) \in Nat
  BY <1>5, FS_CardinalityType, ZenonT(60)
<1>7. n - yielded[c] <= method[c].limit /\ yielded[c] <= n
  BY <1>1, ZenonT(60) DEF Progress
<1> QED
  BY <1>2, <1>4, <1>5, <1>6, <1>7

\* The two parts make the types.
LEMMA ClientTypes ==
  ASSUME BatchAssumption
  PROVE  ClientInv => TypeOK
<1> SUFFICES ASSUME ClientInv PROVE TypeOK
  OBVIOUS
<1>1. readers \in 0 .. MaxCalls * MaxPaths
  <2>1. readers \in Nat /\ calls \in 0 .. MaxCalls /\ Handed
    BY ZenonT(60) DEF ClientInv, Shared
  <2>2. MaxPaths \in Nat /\ MaxCalls \in Nat /\ Cardinality(Active) \in Nat
    BY ActiveCount, ZenonT(60) DEF BatchAssumption
  <2>3. ASSUME NEW a \in Nat, NEW b \in Nat PROVE a * b \in Nat
    OBVIOUS
  <2>4. Cardinality(Active) * MaxPaths \in Nat /\ calls * MaxPaths <= MaxCalls * MaxPaths
    <3>1. calls \in Nat /\ MaxCalls - calls \in Nat
      BY <2>1, <2>2
    <3>2. (MaxCalls - calls) * MaxPaths \in Nat
      BY <2>2, <2>3, <3>1, ZenonT(60)
    <3>3. (MaxCalls - calls) * MaxPaths = MaxCalls * MaxPaths - calls * MaxPaths
      BY <2>2, <3>1
    <3> QED
      BY <2>2, <2>3, <3>1, <3>2, <3>3
  <2>5. calls * MaxPaths \in Nat /\ MaxCalls * MaxPaths \in Nat
    BY <2>1, <2>2, <2>3
  <2> QED
    BY <2>1, <2>4, <2>5 DEF Handed
<1> QED
  BY <1>1 DEF ClientInv, Shared, Locals, TypeOK, Results

\* The inductive invariant gives what a batch promises.
LEMMA ClientSound ==
  ASSUME BatchAssumption
  PROVE  ClientInv => TypeOK /\ FirstErrorRaised /\ WindowKept /\ NoStreamLeaks
<1>1. ClientInv => FirstErrorRaised /\ NoStreamLeaks
  BY ZenonT(60) DEF ClientInv, Good, Raised, Owned, Oks, FirstErrorRaised, NoStreamLeaks
<1> QED
  BY <1>1, ClientTypes, WindowFollows, ZenonT(60)

\* What a step that sets one entry of a function does to it.
LEMMA Put ==
  ASSUME NEW S, NEW T, NEW f \in [S -> T], NEW c \in S, NEW v \in T, NEW g, g = [f EXCEPT ![c] = v]
  PROVE  g \in [S -> T] /\ g[c] = v /\ \A d \in S \ {c} : g[d] = f[d]
OBVIOUS

\* A client whose part of the state is the same stays as it was.
LEMMA GoodKept ==
  ASSUME BatchAssumption, NEW d \in Clients, Good(d), Same(d)
  PROVE  Good(d)'
<1>1. Sent(d)' = Sent(d) /\ Oks(d)' = Oks(d)
  BY ZenonT(60) DEF Same, Sent, Oks
<1>2. PICK n \in 0 .. MaxPaths : Progress(d, n)
  BY ZenonT(60) DEF Good
<1>3. Progress(d, n)'
  BY <1>1, <1>2, ZenonT(60) DEF Progress, Same
<1>4. Raised(d)'
  BY ZenonT(60) DEF Good, Raised, Same
<1>5. Owned(d)'
  BY <1>1, ZenonT(60) DEF Good, Owned, Same
<1> QED
  BY <1>3, <1>4, <1>5, ZenonT(60) DEF Good

\* The clients in a call after one of them has moved.
LEMMA ActiveMoves ==
  ASSUME BatchAssumption, NEW c \in Clients, \A d \in Clients \ {c} : at'[d] = at[d]
  PROVE  /\ Cardinality(Active)' \in Nat /\ Cardinality(Active) \in Nat
         /\ (c \in Active <=> at'[c] \in {"entry", "running"}) => Cardinality(Active)' = Cardinality(Active)
         /\ c \in Active /\ at'[c] \notin {"entry", "running"} => Cardinality(Active)' = Cardinality(Active) - 1
         /\ c \notin Active /\ at'[c] \in {"entry", "running"} => Cardinality(Active)' = Cardinality(Active) + 1
<1>1. (c \in Active <=> at'[c] \in {"entry", "running"}) => Active' = Active
  BY ZenonT(60) DEF Active
<1>2. at'[c] \notin {"entry", "running"} => Active' = Active \ {c}
  BY ZenonT(60) DEF Active
<1>3. at'[c] \in {"entry", "running"} => Active' = Active \cup {c}
  BY ZenonT(60) DEF Active
<1>4. Cardinality(Active)' \in Nat
  <2>1. IsFiniteSet(Active \ {c}) /\ IsFiniteSet(Active \cup {c})
    BY ActiveCount, FS_AddElement, FS_RemoveElement, ZenonT(60)
  <2>2. IsFiniteSet(Active')
    BY <1>2, <1>3, <2>1, ZenonT(60)
  <2> QED
    BY <2>2, FS_CardinalityType, ZenonT(60)
<1> QED
  BY <1>1, <1>2, <1>3, <1>4, ActiveCount, ZenonT(60)

\* The arithmetic of the streams handed over.
LEMMA HandedOver ==
  ASSUME NEW r \in Nat, NEW a \in Nat, NEW m \in Nat, NEW k \in Nat, r + a * m <= k * m
  PROVE  /\ r + (a + 1) * m <= (k + 1) * m /\ r + a * m <= (k + 1) * m
         /\ \A s \in 0 .. m : (r + s) + (a - 1) * m <= k * m
         /\ r + (a - 1) * m <= k * m /\ r + (a - 1) * m <= (k + 1) * m
<1>1. a * m \in Int /\ k * m \in Int /\ (a + 1) * m = a * m + m /\ (k + 1) * m = k * m + m
      /\ (a - 1) * m = a * m - m
  OBVIOUS
<1>2. (a + 1) * m \in Int /\ (k + 1) * m \in Int /\ (a - 1) * m \in Int
  OBVIOUS
<1> QED
  BY <1>1, <1>2

\* A call hands over its streams when it ends, and no more than MaxPaths.
LEMMA HandedKept ==
  ASSUME BatchAssumption, ClientInv, NEW c \in Clients, \A d \in Clients \ {c} : at'[d] = at[d],
         \/ readers' = readers /\ calls' = calls /\ (c \in Active \/ at'[c] \notin {"entry", "running"})
         \/ readers' = readers /\ calls' = calls + 1
         \/ readers' = readers + streams[c] /\ calls' = calls /\ c \in Active /\ at'[c] = "idle"
  PROVE  Handed' /\ readers' \in Nat
<1> DEFINE A == Cardinality(Active)
           B == Cardinality(Active)'
<1>1. readers \in Nat /\ A \in Nat /\ MaxPaths \in Nat /\ calls \in Nat /\ streams[c] \in 0 .. MaxPaths
  <2>1. calls \in 0 .. MaxCalls /\ MaxCalls \in Nat
    BY ZenonT(60) DEF BatchAssumption, ClientInv, Shared
  <2>2. calls \in Nat
    BY <2>1
  <2> QED
    BY <2>2, ActiveCount, ZenonT(60) DEF BatchAssumption, ClientInv, Shared, Locals
<1>2. readers + A * MaxPaths <= calls * MaxPaths
  BY ZenonT(60) DEF ClientInv, Handed
<1>3. /\ readers + (A + 1) * MaxPaths <= (calls + 1) * MaxPaths
      /\ readers + A * MaxPaths <= (calls + 1) * MaxPaths
      /\ (readers + streams[c]) + (A - 1) * MaxPaths <= calls * MaxPaths
      /\ readers + (A - 1) * MaxPaths <= calls * MaxPaths
      /\ readers + (A - 1) * MaxPaths <= (calls + 1) * MaxPaths
  BY <1>1, <1>2, HandedOver, ZenonT(60)
<1>4. /\ (c \in Active <=> at'[c] \in {"entry", "running"}) => B = A
      /\ c \in Active /\ at'[c] \notin {"entry", "running"} => B = A - 1
      /\ c \notin Active /\ at'[c] \in {"entry", "running"} => B = A + 1
  BY ActiveMoves, ZenonT(60)
<1>5. Handed'
  <2>1. CASE readers' = readers /\ calls' = calls /\ (c \in Active \/ at'[c] \notin {"entry", "running"})
    BY <1>2, <1>3, <1>4, <2>1, ZenonT(60) DEF Handed
  <2>2. CASE readers' = readers /\ calls' = calls + 1
    BY <1>3, <1>4, <2>2, ZenonT(60) DEF Handed
  <2>3. CASE readers' = readers + streams[c] /\ calls' = calls /\ c \in Active /\ at'[c] = "idle"
    <3>1. at'[c] \notin {"entry", "running"}
      BY <2>3
    <3> QED
      BY <1>3, <1>4, <2>3, <3>1, ZenonT(60) DEF Handed
  <2> QED
    BY <2>1, <2>2, <2>3, ZenonT(60)
<1>6. readers' \in Nat
  BY <1>1
<1> QED
  BY <1>5, <1>6, ZenonT(60)

\* A step of one client is judged by what becomes of that client.
LEMMA OneClient ==
  ASSUME BatchAssumption, ClientInv, NEW c \in Clients, Shared', Locals', Handed', Good(c)',
         \A d \in Clients \ {c} : Same(d)
  PROVE  ClientInv'
<1>1. ASSUME NEW d \in Clients PROVE Good(d)'
  <2>1. CASE d = c
    BY <2>1, ZenonT(60)
  <2>2. CASE d # c
    BY <2>2, GoodKept, ZenonT(60) DEF ClientInv
  <2> QED
    BY <2>1, <2>2, ZenonT(60)
<1> QED
  BY <1>1, ZenonT(60) DEF ClientInv

\* No client is in a call after connect.
LEMMA ClientStart ==
  ASSUME BatchAssumption
  PROVE  Init => ClientInv
<1> SUFFICES ASSUME Init PROVE ClientInv
  OBVIOUS
<1>1. Shared
  <2>1. 0 \in 0 .. MaxCalls /\ 0 \in Nat
    BY DEF BatchAssumption
  <2> QED
    BY <2>1, ZenonT(60) DEF Init, connect, Shared
<1>2. Locals
  <2>1. 0 \in 0 .. MaxPaths
    BY DEF BatchAssumption
  <2> QED
    BY <2>1, ResultValues, MethodKinds, ZenonT(60) DEF Init, connect, Locals
<1>3. Handed
  <2>1. Active = {} /\ readers = 0 /\ calls = 0
    BY DEF Active, Init, connect
  <2>2. Cardinality(Active) = 0
    BY <2>1, FS_EmptySet, ZenonT(60)
  <2> QED
    BY <2>1, <2>2 DEF Handed, BatchAssumption
<1>4. ASSUME NEW c \in Clients PROVE Good(c)
  <2>1. /\ at[c] = "idle" /\ method[c] = get_status /\ yielded[c] = 0 /\ streams[c] = 0
        /\ result[c] = Pending /\ \A i \in Paths : fate[c][i] = "queued"
    BY ZenonT(60) DEF Init, connect
  <2>2. Sent(c) = 1 .. 0 /\ method[c].limit \in Nat /\ 0 \in 0 .. MaxPaths
    BY <2>1, MethodKinds DEF Sent, Kinds, BatchAssumption
  <2>3. Progress(c, 0)
    BY <2>1, <2>2, ResultValues DEF Progress
  <2>4. Raised(c)
    BY <2>1, ResultValues DEF Raised
  <2>5. Owned(c)
    BY <2>1 DEF Owned
  <2> QED
    BY <2>2, <2>3, <2>4, <2>5, ZenonT(60) DEF Good
<1> QED
  BY <1>1, <1>2, <1>3, <1>4, ZenonT(60) DEF ClientInv

(* A client's call moves it from one place to another and answers it. *)
LEMMA ClientFacts ==
  ASSUME BatchAssumption, ClientInv, NEW c \in Clients
  PROVE  \E n \in 0 .. MaxPaths :
           /\ Progress(c, n) /\ Cardinality(Sent(c)) = n /\ n \in Nat /\ MaxPaths \in Nat
           /\ Raised(c) /\ Owned(c)
           /\ yielded[c] \in 0 .. MaxPaths /\ yielded[c] \in Nat
           /\ paths[c] \in 0 .. MaxPaths /\ paths[c] \in Nat /\ method[c].limit \in Nat
<1>1. PICK n \in 0 .. MaxPaths : Progress(c, n)
  BY ZenonT(60) DEF ClientInv, Good
<1>2. yielded[c] \in 0 .. MaxPaths /\ paths[c] \in 0 .. MaxPaths /\ method[c] \in Kinds
  BY MethodKinds, ZenonT(60) DEF ClientInv, Locals
<1>3. n \in Nat /\ MaxPaths \in Nat /\ yielded[c] \in Nat /\ paths[c] \in Nat /\ method[c].limit \in Nat
  BY <1>2 DEF BatchAssumption, Kinds
<1>4. Cardinality(Sent(c)) = n
  BY <1>1, <1>3, SentCount, ZenonT(60) DEF Progress
<1>5. Raised(c) /\ Owned(c)
  BY ZenonT(60) DEF ClientInv, Good
<1> QED
  BY <1>1, <1>2, <1>3, <1>4, <1>5, ZenonT(60)

\* A method is called.
LEMMA CallStep ==
  ASSUME BatchAssumption, ClientInv, NEW c \in Clients, Call(c)
  PROVE  ClientInv'
<1>1. PICK m \in Methods, n \in 0 .. MaxPaths :
         method' = [method EXCEPT ![c] = m] /\ paths' = [paths EXCEPT ![c] = n]
  BY ZenonT(60) DEF Call
<1>2. /\ at[c] = "idle" /\ at' = [at EXCEPT ![c] = "entry"] /\ calls < MaxCalls /\ calls' = calls + 1
      /\ fate' = [fate EXCEPT ![c] = [i \in Paths |-> "queued"]]
      /\ yielded' = [yielded EXCEPT ![c] = 0] /\ result' = [result EXCEPT ![c] = Pending]
      /\ class' = class /\ handle' = handle /\ context' = context /\ streams' = streams /\ readers' = readers
  BY ZenonT(60) DEF Call
<1>3. PICK k \in 0 .. MaxPaths : Progress(c, k) /\ Owned(c) /\ MaxPaths \in Nat
  BY ClientFacts, ZenonT(60)
<1>4. at' \in [Clients -> {"idle", "entry", "running", "closing"}] /\ at'[c] = "entry"
      /\ \A d \in Clients \ {c} : at'[d] = at[d]
  BY <1>2, Put, ZenonT(60) DEF ClientInv, Locals
<1>5. method' \in [Clients -> Methods] /\ method'[c] = m /\ \A d \in Clients \ {c} : method'[d] = method[d]
  BY <1>1, Put, ZenonT(60) DEF ClientInv, Locals
<1>6. paths' \in [Clients -> 0 .. MaxPaths] /\ paths'[c] = n /\ \A d \in Clients \ {c} : paths'[d] = paths[d]
  BY <1>1, Put, ZenonT(60) DEF ClientInv, Locals
<1>7. /\ fate' \in [Clients -> [Paths -> {"queued", "flight", "ok", "err"}]]
      /\ fate'[c] = [i \in Paths |-> "queued"] /\ \A d \in Clients \ {c} : fate'[d] = fate[d]
  <2>1. [i \in Paths |-> "queued"] \in [Paths -> {"queued", "flight", "ok", "err"}]
    BY ZenonT(60)
  <2> QED
    BY <1>2, <2>1, Put, ZenonT(60) DEF ClientInv, Locals
<1>8. yielded' \in [Clients -> 0 .. MaxPaths] /\ yielded'[c] = 0 /\ \A d \in Clients \ {c} : yielded'[d] = yielded[d]
  <2>1. 0 \in 0 .. MaxPaths
    BY <1>3
  <2> QED
    BY <1>2, <2>1, Put, ZenonT(60) DEF ClientInv, Locals
<1>9. result' \in [Clients -> Results] /\ result'[c] = Pending /\ \A d \in Clients \ {c} : result'[d] = result[d]
  BY <1>2, ResultValues, Put, ZenonT(60) DEF ClientInv, Locals
<1>10. Methods' = Methods
  BY <1>2, ZenonT(60) DEF Methods
<1>11. Locals'
  BY <1>2, <1>4, <1>5, <1>6, <1>7, <1>8, <1>9, <1>10, ZenonT(60) DEF ClientInv, Locals
<1>12. \A d \in Clients \ {c} : Same(d)
  BY <1>2, <1>4, <1>5, <1>6, <1>7, <1>8, <1>9, ZenonT(60) DEF Same
<1>13. Handed'
  BY <1>2, <1>4, HandedKept, ZenonT(60)
<1>14. Shared'
  <2>1. calls' \in 0 .. MaxCalls
    BY <1>2 DEF ClientInv, Shared, BatchAssumption
  <2> QED
    BY <1>2, <2>1, ZenonT(60) DEF ClientInv, Shared
<1>15. Good(c)'
  <2>1. Sent(c)' = 1 .. 0 /\ 0 \in 0 .. MaxPaths
    BY <1>3, <1>7 DEF Sent
  <2>2. method'[c].limit \in Nat
    BY <1>5, MethodKinds DEF Kinds
  <2>3. Progress(c, 0)'
    BY <1>4, <1>8, <1>9, <2>1, <2>2, ResultValues DEF Progress
  <2>4. Raised(c)'
    BY <1>9, ResultValues DEF Raised
  <2>5. streams[c] = 0
    BY <1>2, <1>3 DEF Owned
  <2>6. Owned(c)'
    BY <1>2, <1>4, <2>5 DEF Owned
  <2> QED
    BY <2>1, <2>3, <2>4, <2>6, ZenonT(60) DEF Good
<1> QED
  BY <1>11, <1>12, <1>13, <1>14, <1>15, OneClient, ZenonT(60)

\* A call is refused, or takes the handle.
LEMMA EntryStep ==
  ASSUME BatchAssumption, ClientInv, NEW c \in Clients, Refuse(c) \/ get_handle(c)
  PROVE  ClientInv'
<1>1. PICK v \in {"idle", "running"}, r \in Results :
         /\ at[c] = "entry" /\ at' = [at EXCEPT ![c] = v] /\ result' = [result EXCEPT ![c] = r]
         /\ r.kind # "ok" /\ r.kind # "err" /\ (v = "running" => r.kind = "none")
         /\ UNCHANGED <<class, handle, context, method, paths, fate, yielded, streams, readers, calls>>
  <2>1. CASE Refuse(c)
    <3>1. 0 \in 0 .. MaxPaths /\ "refused" \in Outcomes
      BY DEF BatchAssumption, Outcomes
    <3>2. Result("refused", 0) \in Results /\ Result("refused", 0).kind = "refused"
      BY <3>1, ResultValues, ZenonT(60)
    <3> QED
      BY <2>1, <3>2, ZenonT(60) DEF Refuse, Finish
  <2>2. CASE get_handle(c)
    <3>1. result[c] \in Results /\ result = [result EXCEPT ![c] = result[c]]
      BY ZenonT(60) DEF ClientInv, Locals
    <3>2. at[c] = "entry" /\ result[c].kind = "none"
      BY <2>2, ClientFacts, ZenonT(60) DEF get_handle, Progress
    <3> QED
      BY <2>2, <3>1, <3>2, ZenonT(60) DEF get_handle
  <2> QED
    BY <2>1, <2>2, ZenonT(60)
<1>2. PICK k \in 0 .. MaxPaths : Progress(c, k) /\ Owned(c) /\ MaxPaths \in Nat /\ paths[c] \in Nat
  BY ClientFacts, ZenonT(60)
<1>4. at' \in [Clients -> {"idle", "entry", "running", "closing"}] /\ at'[c] = v
      /\ \A d \in Clients \ {c} : at'[d] = at[d]
  BY <1>1, Put, ZenonT(60) DEF ClientInv, Locals
<1>9. result' \in [Clients -> Results] /\ result'[c] = r /\ \A d \in Clients \ {c} : result'[d] = result[d]
  BY <1>1, Put, ZenonT(60) DEF ClientInv, Locals
<1>10. Methods' = Methods
  BY <1>1, ZenonT(60) DEF Methods
<1>11. Locals'
  BY <1>1, <1>4, <1>9, <1>10, ZenonT(60) DEF ClientInv, Locals
<1>12. \A d \in Clients \ {c} : Same(d)
  BY <1>1, <1>4, <1>9, ZenonT(60) DEF Same
<1>13. Handed'
  <2>1. c \in Active
    BY <1>1, ZenonT(60) DEF Active
  <2> QED
    BY <1>1, <1>4, <2>1, HandedKept, ZenonT(60)
<1>14. Shared'
  BY <1>1, ZenonT(60) DEF ClientInv, Shared
<1>15. Good(c)'
  <2>1. Sent(c)' = Sent(c) /\ Oks(c)' = Oks(c) /\ k = 0
    BY <1>1, <1>2, ZenonT(60) DEF Sent, Oks, Progress
  <2>2. /\ Sent(c)' = 1 .. 0 /\ yielded'[c] <= 0 /\ 0 - yielded'[c] <= method'[c].limit
        /\ \A i \in 1 .. yielded'[c] : fate'[c][i] \in {"ok", "err"}
        /\ paths'[c] \in Nat
    BY <1>1, <1>2, <2>1, ZenonT(60) DEF Progress
  <2>3. Progress(c, 0)'
    BY <1>1, <1>4, <1>9, <2>2 DEF Progress
  <2>4. Raised(c)'
    BY <1>1, <1>9, ZenonT(60) DEF Raised
  <2>5. Oks(c) = {} /\ streams[c] = 0
    <3>1. Sent(c) = {}
      BY <1>2, <2>1 DEF Progress
    <3>2. Oks(c) \subseteq Sent(c)
      BY DEF Oks, Sent
    <3>3. streams[c] = 0
      BY <1>1, <1>2 DEF Owned
    <3> QED
      BY <3>1, <3>2, <3>3, ZenonT(60)
  <2>6. Cardinality(Oks(c)') = 0 /\ streams'[c] = 0
    BY <1>1, <2>1, <2>5, FS_EmptySet, ZenonT(60)
  <2>7. Owned(c)'
    BY <2>6, ZenonT(60) DEF Owned
  <2>8. 0 \in 0 .. MaxPaths
    BY <1>2
  <2> QED
    BY <2>3, <2>4, <2>7, <2>8, ZenonT(60) DEF Good
<1> QED
  BY <1>11, <1>12, <1>13, <1>14, <1>15, OneClient, ZenonT(60)

\* The buffer starts the next future.
LEMMA DispatchStep ==
  ASSUME BatchAssumption, ClientInv, NEW c \in Clients, Dispatch(c)
  PROVE  ClientInv'
<1>1. PICK n \in 0 .. MaxPaths :
        /\ Progress(c, n) /\ Cardinality(Sent(c)) = n /\ n \in Nat /\ MaxPaths \in Nat
        /\ Raised(c) /\ Owned(c) /\ yielded[c] \in Nat
        /\ paths[c] \in 0 .. MaxPaths /\ method[c].limit \in Nat
  BY ClientFacts, ZenonT(60)
<1>2. /\ at[c] = "running" /\ n < paths[c] /\ n - yielded[c] < method[c].limit
      /\ fate' = [fate EXCEPT ![c][n + 1] = "flight"]
      /\ UNCHANGED <<class, handle, context, at, method, paths, yielded, streams, readers, result, calls>>
  BY <1>1, ZenonT(60) DEF Dispatch
<1>3. n + 1 \in Paths /\ n + 1 \in 0 .. MaxPaths /\ n + 1 \notin 1 .. n
  BY <1>1, <1>2 DEF Paths
<1>4. fate[c] \in [Paths -> {"queued", "flight", "ok", "err"}] /\ fate[c][n + 1] = "queued"
  <2>1. fate[c] \in [Paths -> {"queued", "flight", "ok", "err"}]
    BY ZenonT(60) DEF ClientInv, Locals
  <2>2. n + 1 \notin Sent(c)
    BY <1>1, <1>3, ZenonT(60) DEF Progress
  <2> QED
    BY <1>3, <2>1, <2>2, ZenonT(60) DEF Sent
<1>5. /\ fate' \in [Clients -> [Paths -> {"queued", "flight", "ok", "err"}]]
      /\ fate'[c] = [fate[c] EXCEPT ![n + 1] = "flight"] /\ \A d \in Clients \ {c} : fate'[d] = fate[d]
  <2>1. [fate[c] EXCEPT ![n + 1] = "flight"] \in [Paths -> {"queued", "flight", "ok", "err"}]
    BY <1>4, ZenonT(60)
  <2> QED
    BY <1>2, <2>1, Put, ZenonT(60) DEF ClientInv, Locals
<1>6. fate'[c][n + 1] = "flight" /\ \A i \in Paths \ {n + 1} : fate'[c][i] = fate[c][i]
  BY <1>3, <1>4, <1>5, ZenonT(60)
<1>10. Methods' = Methods
  BY <1>2, ZenonT(60) DEF Methods
<1>11. Locals'
  BY <1>2, <1>5, <1>10, ZenonT(60) DEF ClientInv, Locals
<1>12. \A d \in Clients \ {c} : Same(d)
  BY <1>2, <1>5, ZenonT(60) DEF Same
<1>13. Handed'
  <2>1. c \in Active
    BY <1>2, ZenonT(60) DEF Active
  <2> QED
    BY <1>2, <2>1, HandedKept, ZenonT(60)
<1>14. Shared'
  BY <1>2, ZenonT(60) DEF ClientInv, Shared
<1>15. Good(c)'
  <2>1. Sent(c)' = Sent(c) \cup {n + 1}
    BY <1>3, <1>6, ZenonT(60) DEF Sent
  <2>2. Oks(c)' = Oks(c)
    <3>1. "flight" # "ok" /\ "queued" # "ok"
      BY ZenonT(60)
    <3> QED
      BY <1>3, <1>4, <1>6, <3>1, ZenonT(60) DEF Oks
  <2>3. Sent(c)' = 1 .. n + 1
    BY <1>1, <2>1 DEF Progress
  <2>4. \A i \in 1 .. yielded[c] : fate'[c][i] = fate[c][i]
    BY <1>1, <1>6 DEF Progress, Paths
  <2>5. PICK m \in 0 .. MaxPaths : m = n + 1
    BY <1>3, ZenonT(60)
  <2>8. Progress(c, m)'
    <3>1. yielded'[c] <= m /\ m - yielded'[c] <= method'[c].limit /\ m <= paths'[c] /\ Sent(c)' = 1 .. m
      BY <1>1, <1>2, <2>3, <2>5 DEF Progress
    <3>2. \A i \in 1 .. yielded'[c] : fate'[c][i] \in {"ok", "err"}
      BY <1>1, <1>2, <2>4, ZenonT(60) DEF Progress
    <3>3. at'[c] = "running" /\ result'[c].kind = "none"
      BY <1>1, <1>2, ZenonT(60) DEF Progress
    <3>4. at'[c] # "entry" /\ at'[c] # "closing"
      BY <3>3
    <3> QED
      BY <3>1, <3>2, <3>3, <3>4, ZenonT(60) DEF Progress
  <2>6. Raised(c)'
    BY <1>1, <1>2, ZenonT(60) DEF Raised, Progress
  <2>7. Owned(c)'
    BY <1>1, <1>2, <2>2, ZenonT(60) DEF Owned
  <2> QED
    BY <2>8, <2>6, <2>7, ZenonT(60) DEF Good
<1> QED
  BY <1>11, <1>12, <1>13, <1>14, <1>15, OneClient, ZenonT(60)

\* A future is answered: one stream more of an open that succeeds.
LEMMA AnswerStep ==
  ASSUME BatchAssumption, ClientInv, NEW c \in Clients, NEW i \in Paths, Answer(c, i)
  PROVE  ClientInv'
<1>1. PICK n \in 0 .. MaxPaths :
        /\ Progress(c, n) /\ n \in Nat /\ MaxPaths \in Nat /\ Raised(c) /\ Owned(c) /\ yielded[c] \in Nat
  BY ClientFacts, ZenonT(60)
<1>2. PICK f \in {"ok", "err"} :
        /\ fate' = [fate EXCEPT ![c][i] = f]
        /\ streams' = [streams EXCEPT ![c] =
                            IF f = "ok" /\ method[c].effect = "open" THEN @ + 1 ELSE @]
  BY ZenonT(60) DEF Answer
<1>3. /\ at[c] = "running" /\ fate[c][i] = "flight"
      /\ UNCHANGED <<class, handle, context, at, method, paths, yielded, readers, result, calls>>
  BY ZenonT(60) DEF Answer
<1>4. fate[c] \in [Paths -> {"queued", "flight", "ok", "err"}] /\ streams[c] \in 0 .. MaxPaths
  BY ZenonT(60) DEF ClientInv, Locals
<1>5. /\ fate' \in [Clients -> [Paths -> {"queued", "flight", "ok", "err"}]]
      /\ fate'[c] = [fate[c] EXCEPT ![i] = f] /\ \A d \in Clients \ {c} : fate'[d] = fate[d]
  <2>1. [fate[c] EXCEPT ![i] = f] \in [Paths -> {"queued", "flight", "ok", "err"}]
    BY <1>4, ZenonT(60)
  <2> QED
    BY <1>2, <2>1, Put, ZenonT(60) DEF ClientInv, Locals
<1>6. fate'[c][i] = f /\ \A j \in Paths \ {i} : fate'[c][j] = fate[c][j]
  BY <1>4, <1>5, ZenonT(60)
<1>7. Sent(c)' = Sent(c)
  <2>1. "flight" # "queued" /\ f # "queued"
    BY <1>2
  <2> QED
    BY <1>3, <1>6, <2>1, ZenonT(60) DEF Sent
<1>8. i \notin Oks(c) /\ (f = "ok" => Oks(c)' = Oks(c) \cup {i}) /\ (f # "ok" => Oks(c)' = Oks(c))
  <2>1. fate[c][i] # "ok"
    BY <1>3
  <2> QED
    BY <1>6, <2>1, ZenonT(60) DEF Oks
<1>9. /\ streams' \in [Clients -> 0 .. MaxPaths]
      /\ streams'[c] = (IF f = "ok" /\ method[c].effect = "open" THEN streams[c] + 1 ELSE streams[c])
      /\ \A d \in Clients \ {c} : streams'[d] = streams[d]
      /\ Owned(c)'
  <2> DEFINE v == IF f = "ok" /\ method[c].effect = "open" THEN streams[c] + 1 ELSE streams[c]
  <2>1. streams' = [streams EXCEPT ![c] = v]
    BY <1>2
  <2>2. /\ Cardinality(Oks(c)) \in 0 .. MaxPaths /\ Cardinality(Oks(c))' \in 0 .. MaxPaths
        /\ f = "ok" => Cardinality(Oks(c))' = Cardinality(Oks(c)) + 1
        /\ f # "ok" => Cardinality(Oks(c))' = Cardinality(Oks(c))
    <3>1. /\ Cardinality(Oks(c)) \in 0 .. MaxPaths
          /\ \A j : j \notin Oks(c) => Cardinality(Oks(c) \cup {j}) = Cardinality(Oks(c)) + 1
      BY OksCount, ZenonT(60)
    <3>2. Cardinality(Oks(c))' \in 0 .. MaxPaths
      <4>1. Oks(c)' \in SUBSET (1 .. MaxPaths)
        BY ZenonT(60) DEF Oks, Paths
      <4>2. IsFiniteSet(1 .. MaxPaths) /\ Cardinality(1 .. MaxPaths) = MaxPaths
        <5>1. IsFiniteSet(1 .. MaxPaths) /\ Cardinality(1 .. MaxPaths) = IF 1 > MaxPaths THEN 0 ELSE MaxPaths - 1 + 1
          <6>1. 1 \in Int /\ MaxPaths \in Int
            BY <1>1
          <6> QED
            BY <6>1, FS_Interval, ZenonT(60)
        <5> QED
          BY <1>1, <5>1
      <4>3. IsFiniteSet(Oks(c)') /\ Cardinality(Oks(c)') <= MaxPaths
        BY <4>1, <4>2, FS_Subset, ZenonT(60)
      <4>4. Cardinality(Oks(c)') \in Nat
        BY <4>3, FS_CardinalityType, ZenonT(60)
      <4> QED
        BY <1>1, <4>3, <4>4
    <3> QED
      BY <1>8, <3>1, <3>2, ZenonT(60)
  <2>3. streams[c] = IF method[c].effect = "open" THEN Cardinality(Oks(c)) ELSE 0
    BY <1>1, <1>3, ZenonT(60) DEF Owned
  <2>4. v = IF method[c].effect = "open" THEN Cardinality(Oks(c))' ELSE 0
    BY <2>2, <2>3, ZenonT(60)
  <2>5. v \in 0 .. MaxPaths
    <3>1. 0 \in 0 .. MaxPaths
      BY <1>1
    <3> QED
      BY <2>2, <2>4, <3>1, ZenonT(60)
  <2>6. streams' \in [Clients -> 0 .. MaxPaths] /\ streams'[c] = v /\ \A d \in Clients \ {c} : streams'[d] = streams[d]
    <3> HIDE DEF v
    <3> QED
      BY <2>1, <2>5, Put, ZenonT(60) DEF ClientInv, Locals
  <2>7. Owned(c)'
    BY <1>3, <2>4, <2>6, ZenonT(60) DEF Owned
  <2> QED
    BY <2>6, <2>7, ZenonT(60)
<1>10. Methods' = Methods
  BY <1>3, ZenonT(60) DEF Methods
<1>11. Locals'
  BY <1>3, <1>5, <1>9, <1>10, ZenonT(60) DEF ClientInv, Locals
<1>12. \A d \in Clients \ {c} : Same(d)
  BY <1>3, <1>5, <1>9, ZenonT(60) DEF Same
<1>13. Handed'
  <2>1. c \in Active
    BY <1>3, ZenonT(60) DEF Active
  <2> QED
    BY <1>3, <2>1, HandedKept, ZenonT(60)
<1>14. Shared'
  BY <1>3, ZenonT(60) DEF ClientInv, Shared
<1>15. Good(c)'
  <2>1. \A j \in 1 .. yielded[c] : fate'[c][j] \in {"ok", "err"}
    <3>1. \A j \in 1 .. yielded[c] : j \in Paths /\ fate[c][j] \in {"ok", "err"}
      BY <1>1 DEF Progress, Paths
    <3> QED
      BY <1>2, <1>6, <3>1, ZenonT(60)
  <2>2. Progress(c, n)'
    BY <1>1, <1>3, <1>7, <2>1, ZenonT(60) DEF Progress
  <2>3. Raised(c)'
    BY <1>1, <1>3, ZenonT(60) DEF Raised, Progress
  <2> QED
    BY <1>9, <2>2, <2>3, ZenonT(60) DEF Good
<1> QED
  BY <1>11, <1>12, <1>13, <1>14, <1>15, OneClient, ZenonT(60)

\* The buffer yields the next result in input order.
LEMMA YieldStep ==
  ASSUME BatchAssumption, ClientInv, NEW c \in Clients, Yield(c)
  PROVE  ClientInv'
<1>1. PICK n \in 0 .. MaxPaths :
        /\ Progress(c, n) /\ Cardinality(Sent(c)) = n /\ n \in Nat /\ MaxPaths \in Nat
        /\ Raised(c) /\ Owned(c) /\ yielded[c] \in Nat /\ yielded[c] \in 0 .. MaxPaths /\ method[c].limit \in Nat
  BY ClientFacts, ZenonT(60)
<1>2. /\ at[c] = "running" /\ yielded[c] < n /\ fate[c][yielded[c] + 1] \in {"ok", "err"}
      /\ yielded' = [yielded EXCEPT ![c] = yielded[c] + 1]
      /\ UNCHANGED <<class, handle, context, at, method, paths, fate, streams, readers, result, calls>>
  BY <1>1 DEF Yield
<1>3. /\ yielded' \in [Clients -> 0 .. MaxPaths] /\ yielded'[c] = yielded[c] + 1
      /\ \A d \in Clients \ {c} : yielded'[d] = yielded[d]
  <2>1. yielded[c] + 1 \in 0 .. MaxPaths
    BY <1>1, <1>2
  <2> QED
    BY <1>2, <2>1, Put, ZenonT(60) DEF ClientInv, Locals
<1>10. Methods' = Methods
  BY <1>2, ZenonT(60) DEF Methods
<1>11. Locals'
  BY <1>2, <1>3, <1>10, ZenonT(60) DEF ClientInv, Locals
<1>12. \A d \in Clients \ {c} : Same(d)
  BY <1>2, <1>3, ZenonT(60) DEF Same
<1>13. Handed'
  <2>1. c \in Active
    BY <1>2, ZenonT(60) DEF Active
  <2> QED
    BY <1>2, <2>1, HandedKept, ZenonT(60)
<1>14. Shared'
  BY <1>2, ZenonT(60) DEF ClientInv, Shared
<1>15. Good(c)'
  <2>1. Sent(c)' = Sent(c) /\ Oks(c)' = Oks(c)
    BY <1>2, ZenonT(60) DEF Sent, Oks
  <2>2. yielded'[c] <= n /\ n - yielded'[c] <= method[c].limit
    BY <1>1, <1>2, <1>3 DEF Progress
  <2>3. \A j \in 1 .. yielded'[c] : fate'[c][j] \in {"ok", "err"}
    <3>1. \A j \in 1 .. yielded'[c] : j \in 1 .. yielded[c] \/ j = yielded[c] + 1
      BY <1>1, <1>3
    <3> QED
      BY <1>1, <1>2, <3>1, ZenonT(60) DEF Progress
  <2>4. Progress(c, n)'
    BY <1>1, <1>2, <2>1, <2>2, <2>3, ZenonT(60) DEF Progress
  <2>5. Raised(c)' /\ Owned(c)'
    BY <1>1, <1>2, <2>1, ZenonT(60) DEF Raised, Owned
  <2> QED
    BY <2>4, <2>5, ZenonT(60) DEF Good
<1> QED
  BY <1>11, <1>12, <1>13, <1>14, <1>15, OneClient, ZenonT(60)

(* Every way out of a call: the client is idle again, or waits for the context to *)
(* close, and owns no stream.                                                      *)
Leaves(c, v, r, p) ==
    /\ at' = [at EXCEPT ![c] = v] /\ result' = [result EXCEPT ![c] = r]
    /\ paths' = [paths EXCEPT ![c] = p]
    /\ streams' = [streams EXCEPT ![c] = 0]
    /\ UNCHANGED <<class, method, fate, yielded>>

\* A call ends: its streams go to Python or are dropped.
LEMMA LeaveStep ==
  ASSUME BatchAssumption, ClientInv, NEW c \in Clients, NEW v \in {"idle", "closing"},
         NEW r \in Results,
         NEW p \in 0 .. MaxPaths, Leaves(c, v, r, p), v = "closing" => p = 0,
         Shared', Raised(c)',
         \/ readers' = readers /\ calls' = calls
         \/ readers' = readers /\ calls' = calls + 1
         \/ readers' = readers + streams[c] /\ calls' = calls /\ c \in Active /\ v = "idle"
  PROVE  ClientInv'
<1>1. PICK n \in 0 .. MaxPaths : Progress(c, n) /\ MaxPaths \in Nat
  BY ClientFacts, ZenonT(60)
<1>2. v \in {"idle", "entry", "running", "closing"} /\ v \notin {"entry", "running"} /\ v # "running" /\ v # "entry"
  OBVIOUS
<1>3. at' \in [Clients -> {"idle", "entry", "running", "closing"}] /\ at'[c] = v
      /\ \A d \in Clients \ {c} : at'[d] = at[d]
  BY <1>2, Put, ZenonT(60) DEF ClientInv, Locals, Leaves
<1>4. result' \in [Clients -> Results] /\ \A d \in Clients \ {c} : result'[d] = result[d]
  BY Put, ZenonT(60) DEF ClientInv, Locals, Leaves
<1>5. paths' \in [Clients -> 0 .. MaxPaths] /\ paths'[c] = p /\ \A d \in Clients \ {c} : paths'[d] = paths[d]
  BY Put, ZenonT(60) DEF ClientInv, Locals, Leaves
<1>6. /\ streams' \in [Clients -> 0 .. MaxPaths] /\ streams'[c] = 0
      /\ \A d \in Clients \ {c} : streams'[d] = streams[d]
  <2>1. 0 \in 0 .. MaxPaths
    BY <1>1
  <2> QED
    BY <2>1, Put, ZenonT(60) DEF ClientInv, Locals, Leaves
<1>7. Methods' = Methods
  BY ZenonT(60) DEF Methods, Leaves
<1>8. Locals'
  BY <1>3, <1>4, <1>5, <1>6, <1>7, ZenonT(60) DEF ClientInv, Locals, Leaves
<1>9. \A d \in Clients \ {c} : Same(d)
  BY <1>3, <1>4, <1>5, <1>6, ZenonT(60) DEF Same, Leaves
<1>10. Handed'
  BY <1>2, <1>3, HandedKept, ZenonT(60)
<1>11. Good(c)'
  <2>1. Sent(c)' = Sent(c)
    BY ZenonT(60) DEF Sent, Leaves
  <2>2. Progress(c, n)'
    BY <1>1, <1>2, <1>3, <1>5, <2>1, ZenonT(60) DEF Progress, Leaves
  <2>3. Owned(c)'
    BY <1>2, <1>3, <1>6, ZenonT(60) DEF Owned
  <2> QED
    BY <2>2, <2>3, ZenonT(60) DEF Good
<1> QED
  BY <1>8, <1>9, <1>10, <1>11, OneClient, ZenonT(60)

\* A function set to what it is.
LEMMA Unput ==
  ASSUME NEW S, NEW T, NEW f \in [S -> T], NEW c \in S
  PROVE  f = [f EXCEPT ![c] = f[c]]
BY ZenonT(60)

\* The two collects: the results, or the first error.
LEMMA CollectStep ==
  ASSUME BatchAssumption, ClientInv, NEW c \in Clients, Collect(c)
  PROVE  ClientInv'
<1>1. PICK n \in 0 .. MaxPaths :
        /\ Progress(c, n) /\ n \in Nat /\ MaxPaths \in Nat /\ Owned(c)
        /\ paths[c] \in 0 .. MaxPaths /\ paths[c] \in Nat
  BY ClientFacts, ZenonT(60)
<1>2. /\ at[c] = "running" /\ yielded[c] = paths[c] /\ streams' = [streams EXCEPT ![c] = 0]
      /\ UNCHANGED <<class, handle, context, method, paths, fate, yielded, calls>>
  BY ZenonT(60) DEF Collect
<1>3. \A i \in 1 .. paths[c] : fate[c][i] \in {"ok", "err"}
  BY <1>1, <1>2, ZenonT(60) DEF Progress
<1>4. PICK r \in Results :
        /\ Finish(c, r)
        /\ r.kind = "ok" => \A i \in 1 .. paths[c] : fate[c][i] = "ok"
        /\ r.kind = "err" => /\ fate[c][r.path] = "err"
                             /\ \A i \in 1 .. r.path - 1 : fate[c][i] = "ok"
        /\ readers' = readers + streams[c] \/ readers' = readers
  <2>1. CASE Failed(c) = {}
    <3>1. Result("ok", 0) \in Results /\ Result("ok", 0).kind = "ok" /\ "ok" # "err"
      <4>1. 0 \in 0 .. MaxPaths /\ "ok" \in Outcomes
        BY <1>1 DEF Outcomes
      <4> QED
        BY <4>1, ResultValues, ZenonT(60)
    <3>2. \A i \in 1 .. paths[c] : fate[c][i] = "ok"
      BY <1>3, <2>1, ZenonT(60) DEF Failed
    <3>3. Finish(c, Result("ok", 0)) /\ readers' = readers + streams[c]
      BY <2>1, ZenonT(60) DEF Collect
    <3> QED
      BY <3>1, <3>2, <3>3, ZenonT(60)
  <2>2. CASE Failed(c) # {}
    <3>1. Failed(c) \subseteq Nat
      BY <1>1 DEF Failed
    <3>2. \E i \in Failed(c) : \A j \in Failed(c) : i <= j
      BY <2>2, <3>1, LeastExists, ZenonT(60)
    <3>3. FirstFailed(c) \in Failed(c) /\ \A j \in Failed(c) : FirstFailed(c) <= j
      BY <3>2, ZenonT(60) DEF FirstFailed
    <3>4. FirstFailed(c) \in 1 .. paths[c] /\ fate[c][FirstFailed(c)] = "err"
      BY <3>3, ZenonT(60) DEF Failed
    <3>5. FirstFailed(c) \in 0 .. MaxPaths /\ "err" \in Outcomes /\ "err" # "ok"
      BY <1>1, <3>4 DEF Outcomes
    <3>6. \A i \in 1 .. FirstFailed(c) - 1 : i \in 1 .. paths[c] /\ ~(FirstFailed(c) <= i)
      BY <1>1, <3>4
    <3>7. \A i \in 1 .. FirstFailed(c) - 1 : fate[c][i] = "ok"
      BY <1>3, <3>3, <3>6, ZenonT(60) DEF Failed
    <3>8. Finish(c, Result("err", FirstFailed(c))) /\ readers' = readers
      BY <2>2, ZenonT(60) DEF Collect
    <3>9. /\ Result("err", FirstFailed(c)) \in Results /\ Result("err", FirstFailed(c)).kind = "err"
          /\ Result("err", FirstFailed(c)).path = FirstFailed(c)
      BY <3>5, ResultValues, ZenonT(60)
    <3> QED
      BY <3>4, <3>5, <3>7, <3>8, <3>9, ZenonT(60)
  <2> QED
    BY <2>1, <2>2, ZenonT(60)
<1>5. Leaves(c, "idle", r, paths[c])
  <2>1. paths = [paths EXCEPT ![c] = paths[c]]
    BY Unput, ZenonT(60) DEF ClientInv, Locals
  <2> QED
    BY <1>2, <1>4, <2>1, ZenonT(60) DEF Leaves, Finish
<1>6. Raised(c)'
  <2>1. result'[c] = r
    BY <1>4, Put, ZenonT(60) DEF Finish, ClientInv, Locals
  <2> QED
    BY <1>2, <1>3, <1>4, <2>1, ZenonT(60) DEF Raised
<1>7. Shared'
  <2>1. readers' \in Nat
    <3>1. readers \in Nat /\ streams[c] \in 0 .. MaxPaths
      BY ZenonT(60) DEF ClientInv, Shared, Locals
    <3> QED
      BY <1>1, <1>4, <3>1
  <2> QED
    BY <1>2, <2>1, ZenonT(60) DEF ClientInv, Shared
<1>8. c \in Active /\ "idle" \in {"idle", "closing"} /\ "idle" # "closing"
  BY <1>2 DEF Active
<1> QED
  BY <1>1, <1>2, <1>4, <1>5, <1>6, <1>7, <1>8, LeaveStep, ZenonT(60)

\* A call is dropped, or the client closed.
LEMMA EndStep ==
  ASSUME BatchAssumption, ClientInv, NEW c \in Clients, Dropped(c) \/ close(c) \/ ContextClosed(c)
  PROVE  ClientInv'
<1>1. PICK n \in 0 .. MaxPaths :
        /\ Progress(c, n) /\ n \in Nat /\ MaxPaths \in Nat /\ Owned(c) /\ Raised(c)
        /\ paths[c] \in 0 .. MaxPaths /\ paths[c] \in Nat
  BY ClientFacts, ZenonT(60)
<1>2. paths = [paths EXCEPT ![c] = paths[c]] /\ streams = [streams EXCEPT ![c] = streams[c]]
      /\ result = [result EXCEPT ![c] = result[c]] /\ at = [at EXCEPT ![c] = at[c]] /\ result[c] \in Results
  BY Unput, ZenonT(60) DEF ClientInv, Locals
<1>3. /\ Result("ok", 0) \in Results /\ Result("ok", 0).kind = "ok"
      /\ Result("refused", 0) \in Results /\ Result("refused", 0).kind = "refused"
      /\ Result("dropped", 0) \in Results /\ Result("dropped", 0).kind = "dropped" /\ 0 \in 0 .. MaxPaths
  <2>1. 0 \in 0 .. MaxPaths /\ "ok" \in Outcomes /\ "refused" \in Outcomes /\ "dropped" \in Outcomes
    BY <1>1 DEF Outcomes
  <2> QED
    BY <2>1, ResultValues, ZenonT(60)
<1>4. "idle" \in {"idle", "closing"} /\ "closing" \in {"idle", "closing"} /\ "idle" # "closing"
  OBVIOUS
<1>5. \A r \in Results : result' = [result EXCEPT ![c] = r] => result'[c] = r
  BY Put, ZenonT(60) DEF ClientInv, Locals
<1>6. \A p \in 0 .. MaxPaths : paths' = [paths EXCEPT ![c] = p] => paths'[c] = p
  BY Put, ZenonT(60) DEF ClientInv, Locals
<1>7. CASE Dropped(c)
  <2>1. Leaves(c, "idle", Result("dropped", 0), paths[c]) /\ readers' = readers /\ calls' = calls
    BY <1>2, <1>7, ZenonT(60) DEF Dropped, Finish, Leaves
  <2>2. Raised(c)'
    <3>1. result'[c].kind = "dropped"
      BY <1>3, <1>5, <2>1, ZenonT(60) DEF Leaves
    <3> QED
      BY <3>1 DEF Raised
  <2>3. Shared'
    BY <1>7, ZenonT(60) DEF Dropped, ClientInv, Shared
  <2> QED
    BY <1>1, <1>3, <1>4, <2>1, <2>2, <2>3, LeaveStep, ZenonT(60)
<1>8. CASE close(c)
  <2>1. /\ at[c] = "idle" /\ calls < MaxCalls /\ calls' = calls + 1 /\ paths' = [paths EXCEPT ![c] = 0]
        /\ UNCHANGED <<class, context, method, fate, yielded, streams, readers>>
    BY <1>8, ZenonT(60) DEF close
  <2>2. streams' = [streams EXCEPT ![c] = 0]
    <3>1. streams[c] = 0
      BY <1>1, <2>1 DEF Owned
    <3> QED
      BY <1>2, <2>1, <3>1, ZenonT(60)
  <2>3. Shared'
    <3>1. calls' \in 0 .. MaxCalls
      BY <2>1 DEF ClientInv, Shared, BatchAssumption
    <3>2. handle' \in BOOLEAN
      <4>1. handle' = FALSE \/ handle' = handle
        BY <1>8, ZenonT(60) DEF close
      <4> QED
        BY <4>1, ZenonT(60) DEF ClientInv, Shared
    <3> QED
      BY <2>1, <3>1, <3>2, ZenonT(60) DEF ClientInv, Shared
  <2>4. PICK v \in {"idle", "closing"}, r \in Results :
          /\ at' = [at EXCEPT ![c] = v] /\ result' = [result EXCEPT ![c] = r]
          /\ r = result[c] \/ r = Result("ok", 0) \/ r = Result("refused", 0)
    <3>1. \/ Finish(c, Result("refused", 0)) \/ Finish(c, Result("ok", 0))
          \/ at' = [at EXCEPT ![c] = "closing"] /\ UNCHANGED result
      BY <1>8, ZenonT(60) DEF close
    <3> QED
      BY <1>2, <1>3, <1>4, <3>1, ZenonT(60) DEF Finish
  <2>5. Leaves(c, v, r, 0)
    BY <2>1, <2>2, <2>4, ZenonT(60) DEF Leaves
  <2>6. Raised(c)'
    <3>1. result'[c] = r /\ paths'[c] = 0
      BY <1>3, <1>5, <1>6, <2>1, <2>4, ZenonT(60)
    <3>2. \A i \in 1 .. paths'[c] : FALSE
      BY <3>1
    <3>3. r.kind = "err" => r = result[c]
      BY <1>3, <2>4
    <3> QED
      BY <1>1, <2>1, <3>1, <3>2, <3>3, ZenonT(60) DEF Raised
  <2> QED
    BY <1>3, <2>1, <2>3, <2>5, <2>6, LeaveStep, ZenonT(60)
<1>9. CASE ContextClosed(c)
  <2>1. /\ at[c] = "closing" /\ context' = "closed" /\ Finish(c, Result("ok", 0))
        /\ UNCHANGED <<class, handle, method, paths, fate, yielded, streams, readers, calls>>
    BY <1>9, ZenonT(60) DEF ContextClosed
  <2>2. streams[c] = 0 /\ paths[c] = 0
    BY <1>1, <2>1 DEF Owned, Progress
  <2>3. Leaves(c, "idle", Result("ok", 0), 0)
    BY <1>2, <2>1, <2>2, ZenonT(60) DEF Finish, Leaves
  <2>4. Raised(c)'
    <3>1. result'[c].kind = "ok" /\ paths'[c] = 0
      BY <1>3, <1>5, <2>1, <2>2, ZenonT(60) DEF Finish
    <3>2. \A i \in 1 .. paths'[c] : FALSE
      BY <3>1
    <3>3. result'[c].kind # "err"
      BY <3>1
    <3> QED
      BY <3>2, <3>3, ZenonT(60) DEF Raised
  <2>5. Shared'
    BY <2>1, ZenonT(60) DEF ClientInv, Shared
  <2> QED
    BY <1>3, <1>4, <2>1, <2>3, <2>4, <2>5, LeaveStep, ZenonT(60)
<1> QED
  BY <1>7, <1>8, <1>9, ZenonT(60)

\* Every step of every client keeps the inductive invariant.
LEMMA ClientStep ==
  ASSUME BatchAssumption
  PROVE  ClientInv /\ [Next]_vars => ClientInv'
<1> SUFFICES ASSUME ClientInv, [Next]_vars PROVE ClientInv'
  OBVIOUS
<1>1. ASSUME NEW c \in Clients, Step(c) PROVE ClientInv'
  BY <1>1, CallStep, EntryStep, DispatchStep, AnswerStep, YieldStep, CollectStep, EndStep,
     ZenonT(60) DEF Step
<1>2. CASE UNCHANGED vars
  <2>1. UNCHANGED <<class, handle, context, at, method, paths, fate, yielded, streams, readers, result, calls>>
    BY <1>2, ZenonT(60) DEF vars
  <2>2. Methods' = Methods /\ Active' = Active
    BY <2>1, ZenonT(60) DEF Methods, Active
  <2>3. Shared' /\ Locals' /\ Handed'
    BY <2>1, <2>2, ZenonT(60) DEF ClientInv, Shared, Locals, Handed
  <2>4. \A c \in Clients : Same(c)
    BY <2>1, ZenonT(60) DEF Same
  <2> QED
    BY <2>3, <2>4, GoodKept, ZenonT(60) DEF ClientInv
<1> QED
  BY <1>1, <1>2, ZenonT(60) DEF Next, Idle

-----------------------------------------------------------------------------
\* For any number of clients, paths, calls and any width of the buffers: a batch
\* raises the error of the first failing path in input order, has never more
\* calls in flight than its window, and drops the streams it opened when it
\* fails (AsyncGoosefs and Goosefs: the batch methods' buffered and collect).
THEOREM BatchIsSound ==
  ASSUME BatchAssumption
  PROVE  Spec => []BatchSound
<1>1. Init => ClientInv
  BY ClientStart
<1>2. ClientInv /\ [Next]_vars => ClientInv'
  BY ClientStep
<1>3. ClientInv => BatchSound
  BY ClientSound, ZenonT(60) DEF BatchSound
<1> QED
  BY <1>1, <1>2, <1>3, PTL DEF Spec
=============================================================================
