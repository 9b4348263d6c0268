-------------------------- MODULE StreamingProofs --------------------------
(***************************************************************************)
(* Proofs about the file objects of the Python bindings                    *)
(* (bindings/python/src/streaming.rs): PyReader, which this module extends,*)
(* and PyWriter.                                                           *)
(***************************************************************************)
EXTENDS PyReader, FiniteSetTheorems, TLAPS

CONSTANTS Tasks, MaxData, MaxBroken

VARIABLES kind, slot, guard, busy, doing, told, file, data, size, body,
          explicit, asked, broken

saver == INSTANCE PyWriter

\* The time limits of the provers, in seconds.
USE SMTT(30), ZenonT(60)

\* What a step that sets one entry of a function does to it.
LEMMA Put ==
  ASSUME NEW S, NEW T, NEW f \in [S -> T], NEW c \in S, NEW v \in T, NEW g, g = [f EXCEPT ![c] = v]
  PROVE  g \in [S -> T] /\ g[c] = v /\ \A d \in S \ {c} : g[d] = f[d]
OBVIOUS

-----------------------------------------------------------------------------
\* The runs of bytes of the file.
Runs == {r \in [from : 0 .. FileLength, to : 0 .. FileLength] : r.from <= r.to}

\* Runs of bytes: their ends and lengths.
LEMMA RunValues ==
  ASSUME ReaderAssumption
  PROVE  /\ NoBytes \in Runs /\ Length(NoBytes) = 0
         /\ \A a, b \in 0 .. FileLength :
              /\ Run(a, b).from = a /\ Run(a, b).to = b /\ Length(Run(a, b)) = b - a
              /\ a <= b => Run(a, b) \in Runs
         /\ \A r \in Runs : /\ r.from \in 0 .. FileLength /\ r.to \in 0 .. FileLength /\ r.from <= r.to
                            /\ Length(r) = r.to - r.from /\ Length(r) \in 0 .. FileLength
         /\ FileLength \in Nat
<1>1. FileLength \in Nat
  BY DEF ReaderAssumption
<1> QED
  BY <1>1 DEF Runs, NoBytes, Run, Length

\* What a caller can have asked.
Asks == Calls \cup {NoCall}

\* The calls a program can make.
LEMMA AskValues ==
  ASSUME ReaderAssumption
  PROVE  \A k \in Asks :
            /\ k.n \in Int
            /\ k.op = "read" => k.n \in -1 .. MaxSize
            /\ k.op \in {"none", "read", "set", "cur", "end", "read_at", "close"}
BY DEF ReaderAssumption, Asks, Calls, NoCall

(* The types, in two parts: what the callers share, and what each has. *)
Shared ==
    /\ reader \in {"async", "sync"} /\ inner \in -1 .. FileLength
    /\ holder \in Callers \cup {Nobody} /\ prefetch \in Runs /\ due \in 0 .. FileLength
    /\ reads \in 0 .. MaxReads /\ failures \in 0 .. MaxFailed
Locals ==
    /\ step \in [Callers -> {"idle", "entry", "lock", "pull", "park"}]
    /\ ask \in [Callers -> Asks]
    /\ parked \in [Callers -> Runs] /\ pulled \in [Callers -> Runs] /\ given \in [Callers -> Runs]

(* Where a caller is tells who holds the lock and what it may have taken out of *)
(* the buffer.                                                                  *)
Place(c) ==
    /\ holder = c <=> step[c] = "pull"
    /\ step[c] # "idle" => c \in Users
    /\ step[c] \in {"entry", "park"} => reader = "sync"
    /\ step[c] \in {"idle", "entry"} => parked[c] = NoBytes
    /\ step[c] = "lock" /\ reader = "async" => parked[c] = NoBytes
    /\ step[c] = "lock" /\ reader = "sync" /\ ask[c].op # "read_at" =>
         Length(prefetch) = 0 /\ (ask[c].op = "read" /\ ask[c].n >= 0 => parked[c] = NoBytes)
    /\ step[c] = "lock" /\ ask[c].op = "read_at" => parked[c] = NoBytes
    /\ step[c] \in {"pull", "park"} =>
         ask[c].op = "read" /\ (ask[c].n >= 0 => parked[c] = NoBytes)

(* The stream stands at the end of what is buffered and of the run p that a caller *)
(* has taken out of the buffer.                                                    *)
Level(p) ==
    /\ Closed => Length(prefetch) = 0
    /\ ~Closed => due = inner - Length(prefetch) - Length(p)
    /\ ~Closed /\ Length(prefetch) > 0 => prefetch.to = inner
    /\ ~Closed /\ Length(p) > 0 => p.to = inner
    /\ Length(p) = 0 \/ Length(prefetch) = 0
(* What a caller has pulled ends where the stream stands and follows what it took. *)
Pulling(c) ==
    /\ ~Closed /\ Length(prefetch) = 0 /\ pulled[c].to = inner
    /\ due = pulled[c].from - Length(parked[c])
    /\ Length(parked[c]) > 0 => parked[c].to = pulled[c].from
    /\ step[c] = "park" => Length(pulled[c]) = Target(c) \/ inner = FileLength

(* Whoever is inside, the stream is level with what its caller holds. *)
Levels ==
    /\ \A c \in Callers : step[c] \in {"pull", "park"} => Pulling(c)
    /\ (\A c \in Callers : step[c] \notin {"pull", "park"}) =>
         /\ \A c \in Callers : step[c] = "lock" => Level(parked[c])
         /\ (\A c \in Callers : parked[c] = NoBytes) => Level(NoBytes)

(* The inductive invariant. *)
ReaderInv == Shared /\ Locals /\ Levels /\ \A c \in Callers : Place(c)

\* The inductive invariant gives the types and tell().
LEMMA ReaderTypes ==
  ASSUME ReaderAssumption
  PROVE  ReaderInv => TypeOK /\ TellExact
<1> SUFFICES ASSUME ReaderInv PROVE TypeOK /\ TellExact
  OBVIOUS
<1>1. prefetch \in Runs /\ prefetch.from \in 0 .. FileLength /\ prefetch.to \in 0 .. FileLength /\ prefetch.from <= prefetch.to
  BY RunValues, ZenonT(60) DEF ReaderInv, Shared
<1>2. prefetch.to \in prefetch.from .. FileLength
  BY <1>1, RunValues
<1>3. TypeOK
  BY <1>1, <1>2, ZenonT(60) DEF ReaderInv, Shared, Locals, TypeOK, Asks
<1>4. ASSUME Quiet PROVE Level(NoBytes)
  <2>1. \A c \in Callers : step[c] \notin {"pull", "park"} /\ parked[c] = NoBytes
    BY <1>4 DEF Quiet
  <2> QED
    BY <2>1, ZenonT(60) DEF ReaderInv, Levels
<1>5. ASSUME Level(NoBytes), ~Closed PROVE inner - Length(prefetch) = due
  <2>1. due = inner - Length(prefetch) - 0 /\ Length(prefetch) \in 0 .. FileLength /\ inner \in -1 .. FileLength
    BY <1>1, <1>5, RunValues, ZenonT(60) DEF Level, ReaderInv, Shared
  <2> QED
    BY <2>1, RunValues
<1>6. ASSUME Level(NoBytes), Length(prefetch) > 0 PROVE ~Closed /\ prefetch.to = inner
  <2>1. Length(prefetch) # 0
    BY <1>6
  <2> QED
    BY <1>6, <2>1, ZenonT(60) DEF Level
<1> QED
  BY <1>3, <1>4, <1>5, <1>6, ZenonT(60) DEF TellExact

\* A new reader stands at the start of the file with an empty buffer.
LEMMA ReaderStart ==
  ASSUME ReaderAssumption
  PROVE  Init => ReaderInv
<1> SUFFICES ASSUME Init PROVE ReaderInv
  OBVIOUS
<1>1. FileLength \in Nat /\ 0 \in 0 .. FileLength /\ 0 \in -1 .. FileLength /\ 0 \in 0 .. MaxReads /\ 0 \in 0 .. MaxFailed
  BY DEF ReaderAssumption
<1>2. Shared
  BY <1>1, RunValues, ZenonT(60) DEF Init, from_sdk, Shared
<1>3. Locals
  BY RunValues, ZenonT(60) DEF Init, from_sdk, Locals, Asks
<1>4. \A c \in Callers : step[c] = "idle" /\ parked[c] = NoBytes /\ holder # c
  BY ZenonT(60) DEF Init, from_sdk, ReaderAssumption
<1>5. \A c \in Callers : Place(c)
  BY <1>4 DEF Place
<1>6. Level(NoBytes)
  <2>1. prefetch = NoBytes /\ due = 0 /\ inner = 0
    BY ZenonT(60) DEF Init, from_sdk
  <2>2. Length(NoBytes) = 0
    BY RunValues, ZenonT(60)
  <2> QED
    BY <2>1, <2>2 DEF Level, Closed
<1>7. Levels
  <2>1. \A c \in Callers : step[c] \notin {"pull", "park"} /\ step[c] # "lock"
    BY <1>4
  <2> QED
    BY <1>6, <2>1, ZenonT(60) DEF Levels
<1> QED
  BY <1>2, <1>3, <1>5, <1>7, ZenonT(60) DEF ReaderInv

(* FileReader is used by one thread: while it is inside a call, nobody else is. *)
LEMMA SyncAlone ==
  ASSUME ReaderAssumption, ReaderInv, NEW c \in Callers, step[c] # "idle", reader = "sync"
  PROVE  \A d \in Callers \ {c} : step[d] = "idle"
<1>1. \A d \in Callers : step[d] # "idle" => d \in SyncThreads
  <2>1. Users = SyncThreads
    BY DEF Users
  <2> QED
    BY <2>1, ZenonT(60) DEF ReaderInv, Place
<1> QED
  BY <1>1, ZenonT(60) DEF ReaderAssumption

(* Nobody else is at the stream while c holds the lock or finds it free. *)
LEMMA NoneElse ==
  ASSUME ReaderAssumption, ReaderInv, NEW c \in Callers, step[c] # "idle", holder \in {c, Nobody}
  PROVE  \A d \in Callers \ {c} : step[d] \notin {"pull", "park"}
<1> SUFFICES ASSUME NEW d \in Callers \ {c}, step[d] \in {"pull", "park"} PROVE FALSE
  BY ZenonT(60)
<1>1. CASE step[d] = "pull"
  <2>1. holder = d
    BY <1>1, ZenonT(60) DEF ReaderInv, Place
  <2> QED
    BY <2>1, ZenonT(60) DEF ReaderAssumption
<1>2. CASE step[d] = "park"
  <2>1. reader = "sync" /\ step[d] # "idle"
    BY <1>2 DEF ReaderInv, Place
  <2> QED
    BY <2>1, SyncAlone, ZenonT(60)
<1> QED
  BY <1>1, <1>2

\* A caller about to lock finds the stream level with what it took.
LEMMA LevelAtLock ==
  ASSUME ReaderAssumption, ReaderInv, NEW c \in Callers, step[c] = "lock", holder = Nobody
  PROVE  Level(parked[c])
<1>1. step[c] # "idle" /\ step[c] \notin {"pull", "park"}
  OBVIOUS
<1>2. \A d \in Callers : step[d] \notin {"pull", "park"}
  BY <1>1, NoneElse, ZenonT(60)
<1> QED
  BY <1>2, ZenonT(60) DEF ReaderInv, Levels

\* A sync caller finds the stream level with the buffer.
LEMMA LevelAtEntry ==
  ASSUME ReaderAssumption, ReaderInv, NEW c \in Callers, step[c] = "entry"
  PROVE  Level(NoBytes)
<1>1. step[c] # "idle" /\ step[c] \in {"entry", "park"} /\ step[c] \in {"idle", "entry"} /\ step[c] \notin {"pull", "park"}
  OBVIOUS
<1>2. reader = "sync" /\ parked[c] = NoBytes
  BY <1>1, ZenonT(60) DEF ReaderInv, Place
<1>3. \A d \in Callers \ {c} : step[d] = "idle"
  BY <1>1, <1>2, SyncAlone, ZenonT(60)
<1>4. \A d \in Callers \ {c} : step[d] \notin {"pull", "park"} /\ step[d] \in {"idle", "entry"}
  BY <1>3
<1>5. \A d \in Callers : parked[d] = NoBytes /\ step[d] \notin {"pull", "park"}
  BY <1>1, <1>2, <1>4, ZenonT(60) DEF ReaderInv, Place
<1> QED
  BY <1>5, ZenonT(60) DEF ReaderInv, Levels

(* A call ends: the stream and the buffer agree, and nobody is inside. *)
LEMMA Settles ==
  ASSUME ReaderAssumption, ReaderInv, NEW c \in Callers, NEW r \in Runs, step[c] # "idle",
         Return(c, r),
         holder \in {c, Nobody}, holder' = Nobody, Shared', Level(NoBytes)'
  PROVE  ReaderInv'
<1>1. /\ step' \in [Callers -> {"idle", "entry", "lock", "pull", "park"}] /\ step'[c] = "idle"
      /\ \A d \in Callers \ {c} : step'[d] = step[d]
  <2>1. "idle" \in {"idle", "entry", "lock", "pull", "park"}
    BY ZenonT(60)
  <2> QED
    BY <2>1, Put, ZenonT(60) DEF Return, ReaderInv, Locals
<1>2. given' \in [Callers -> Runs] /\ given'[c] = r /\ \A d \in Callers \ {c} : given'[d] = given[d]
  BY Put, ZenonT(60) DEF Return, ReaderInv, Locals
<1>3. parked' \in [Callers -> Runs] /\ parked'[c] = NoBytes /\ \A d \in Callers \ {c} : parked'[d] = parked[d]
  BY RunValues, Put, ZenonT(60) DEF Return, ReaderInv, Locals
<1>4. pulled' \in [Callers -> Runs]
  BY RunValues, Put, ZenonT(60) DEF Return, ReaderInv, Locals
<1>5. ask' = ask /\ reader' = reader /\ Users' = Users
  BY ZenonT(60) DEF Return, Users
<1>6. Locals'
  BY <1>1, <1>2, <1>3, <1>4, <1>5, ZenonT(60) DEF ReaderInv, Locals
<1>7. \A d \in Callers \ {c} : step[d] \notin {"pull", "park"} /\ holder' # d
  BY NoneElse, ZenonT(60) DEF ReaderAssumption
<1>8. \A d \in Callers : step'[d] \notin {"pull", "park"}
  BY <1>1, <1>7
<1>9. ASSUME NEW d \in Callers \ {c} PROVE Place(d)' /\ parked'[d] = NoBytes
  <2>1. step'[d] = step[d] /\ parked'[d] = parked[d] /\ ask'[d] = ask[d] /\ Place(d) /\ step[d] \notin {"pull", "park"} /\ holder' # d
    BY <1>1, <1>3, <1>5, <1>7, ZenonT(60) DEF ReaderInv
  <2>2. reader = "sync" => step[d] = "idle"
    BY SyncAlone, ZenonT(60)
  <2>3. step[d] \in {"idle", "entry", "lock", "pull", "park"} /\ reader \in {"async", "sync"}
    BY ZenonT(60) DEF ReaderInv, Locals, Shared
  <2>4. parked[d] = NoBytes
    BY <2>1, <2>2, <2>3 DEF Place
  <2>5. ~(step[d] = "lock" /\ reader = "sync") /\ step[d] # "pull"
    BY <2>1, <2>2
  <2> QED
    BY <1>5, <2>1, <2>4, <2>5, ZenonT(60) DEF Place
<1>10. Place(c)'
  <2>1. holder' # c
    BY ZenonT(60) DEF ReaderAssumption
  <2> QED
    BY <1>1, <1>3, <2>1 DEF Place
<1>11. Levels'
  <2>1. \A d \in Callers : parked'[d] = NoBytes
    BY <1>3, <1>9, ZenonT(60)
  <2> QED
    BY <1>8, <2>1, ZenonT(60) DEF Levels
<1> QED
  BY <1>6, <1>9, <1>10, <1>11, ZenonT(60) DEF ReaderInv

(* InOrder, of one caller. *)
Ordered(c) ==
    (ask[c].op = "read" /\ step[c] # "idle" /\ step'[c] = "idle" /\ ~Closed /\ failures' = failures)
    => /\ Length(given'[c]) > 0 => given'[c].from = due /\ given'[c].to = due'
       /\ (ask[c].n # 0 /\ Length(given'[c]) = 0) => due = FileLength
       /\ ask[c].n < 0 => due' = FileLength

\* A step of one caller is judged by the run that caller returns.
LEMMA OneOrdered ==
  ASSUME NEW c \in Callers, \A d \in Callers \ {c} : step'[d] = step[d], Ordered(c)
  PROVE  InOrder
<1>1. ASSUME NEW d \in Callers PROVE Ordered(d)
  <2>1. CASE d = c
    BY <2>1, ZenonT(60)
  <2>2. CASE d # c
    BY <2>2, ZenonT(60) DEF Ordered
  <2> QED
    BY <2>1, <2>2, ZenonT(60)
<1> QED
  BY <1>1, ZenonT(60) DEF InOrder, Ordered

\* What the end of a call does to the callers.
LEMMA Returned ==
  ASSUME ReaderAssumption, ReaderInv, NEW c \in Callers, NEW r \in Runs, Return(c, r)
  PROVE  /\ step'[c] = "idle" /\ \A d \in Callers \ {c} : step'[d] = step[d]
         /\ given'[c] = r /\ reader' = reader /\ ask' = ask /\ reads' = reads
<1>1. "idle" \in {"idle", "entry", "lock", "pull", "park"}
  BY ZenonT(60)
<1> QED
  BY <1>1, Put, ZenonT(60) DEF Return, ReaderInv, Locals

\* A read served from the buffer.
LEMMA ServeStep ==
  ASSUME ReaderAssumption, ReaderInv, NEW c \in Callers, step[c] # "idle", holder = Nobody,
         Level(NoBytes),
         Length(prefetch) > 0, ask[c].n >= 0, ask[c].op = "read", Serve(c, ask[c].n),
         UNCHANGED <<inner, holder, failures>>
  PROVE  ReaderInv' /\ InOrder
<1> DEFINE p == prefetch
           cut == p.from + Least(ask[c].n, Length(p))
<1>1. /\ p \in Runs /\ p.from \in 0 .. FileLength /\ p.to \in 0 .. FileLength /\ p.from <= p.to
      /\ Length(p) = p.to - p.from /\ FileLength \in Nat
  BY RunValues, ZenonT(60) DEF ReaderInv, Shared
<1>2. ask[c].n \in Int
  BY AskValues, ZenonT(60) DEF ReaderInv, Locals
<1>3. cut \in 0 .. FileLength /\ p.from <= cut /\ cut <= p.to /\ (ask[c].n # 0 => p.from < cut)
  BY <1>1, <1>2 DEF Least
<1>4. inner \in -1 .. FileLength /\ ~Closed /\ p.to = inner /\ due = p.from
  <2>1. inner \in -1 .. FileLength
    BY ZenonT(60) DEF ReaderInv, Shared
  <2>2. Length(NoBytes) = 0
    BY RunValues, ZenonT(60)
  <2>4. Length(prefetch) # 0
    OBVIOUS
  <2>3. ~Closed /\ p.to = inner /\ due = inner - Length(p) - 0
    BY <2>2, <2>4, ZenonT(60) DEF Level
  <2> QED
    BY <1>1, <2>1, <2>3
<1>5. prefetch' = Run(cut, p.to) /\ due' = cut /\ Return(c, Run(p.from, cut))
  BY ZenonT(60) DEF Serve
<1> HIDE DEF cut
<1>6. /\ Run(cut, p.to) \in Runs /\ Run(cut, p.to).to = p.to /\ Length(Run(cut, p.to)) = p.to - cut
      /\ Run(p.from, cut) \in Runs /\ Run(p.from, cut).from = p.from /\ Run(p.from, cut).to = cut
      /\ Length(Run(p.from, cut)) = cut - p.from /\ Length(NoBytes) = 0
  BY <1>1, <1>3, RunValues, ZenonT(60)
<1>7. /\ step'[c] = "idle" /\ \A d \in Callers \ {c} : step'[d] = step[d]
      /\ given'[c] = Run(p.from, cut) /\ reader' = reader /\ reads' = reads
  BY <1>5, <1>6, Returned, ZenonT(60)
<1>8. Shared'
  BY <1>3, <1>5, <1>6, <1>7, ZenonT(60) DEF ReaderInv, Shared
<1>9. Level(NoBytes)'
  <2>1. /\ Length(prefetch)' = inner - cut /\ due' = cut /\ inner' = inner /\ prefetch'.to = inner
        /\ Length(NoBytes)' = 0 /\ ~Closed'
    BY <1>4, <1>5, <1>6, ZenonT(60) DEF Closed
  <2>2. cut \in Int /\ inner \in Int
    BY <1>3, <1>4
  <2> QED
    BY <2>1, <2>2 DEF Level
<1>10. ReaderInv'
  BY <1>5, <1>6, <1>8, <1>9, Settles, ZenonT(60)
<1>11. Ordered(c)
  <2>1. ask[c].n # 0 => ~(Length(given'[c]) = 0)
    BY <1>1, <1>3, <1>6, <1>7
  <2>2. ~(ask[c].n < 0)
    BY <1>2
  <2> QED
    BY <1>4, <1>5, <1>6, <1>7, <2>1, <2>2, ZenonT(60) DEF Ordered
<1> QED
  BY <1>7, <1>10, <1>11, OneOrdered, ZenonT(60)

(* A call ends with nothing read: it fails, or is no read, or finds the reader closed. *)
LEMMA EmptyStep ==
  ASSUME ReaderAssumption, ReaderInv, NEW c \in Callers, step[c] # "idle", Return(c, NoBytes),
         holder \in {c, Nobody}, holder' = Nobody, Shared', Level(NoBytes)',
         failures' # failures \/ ask[c].op # "read" \/ Closed
  PROVE  ReaderInv' /\ InOrder
<1>1. Ordered(c)
  BY ZenonT(60) DEF Ordered
<1>2. NoBytes \in Runs
  BY RunValues, ZenonT(60)
<1> QED
  BY <1>1, <1>2, Settles, Returned, OneOrdered, ZenonT(60)

(* Steps that end no call keep to the order. *)
LEMMA StillInside ==
  ASSUME NEW c \in Callers, \A d \in Callers \ {c} : step'[d] = step[d], step'[c] # "idle"
  PROVE  InOrder
<1>1. Ordered(c)
  BY ZenonT(60) DEF Ordered
<1> QED
  BY <1>1, OneOrdered, ZenonT(60)

\* A call begins.
LEMMA BeginStep ==
  ASSUME ReaderAssumption, ReaderInv, NEW c \in Callers, Begin(c)
  PROVE  ReaderInv' /\ InOrder
<1>1. PICK k \in Calls : ask' = [ask EXCEPT ![c] = k]
  BY ZenonT(60) DEF Begin
<1>2. PICK v \in {"lock", "entry"} :
        /\ step' = [step EXCEPT ![c] = v] /\ (v = "entry" <=> reader = "sync")
  <2>1. reader \in {"async", "sync"}
    BY ZenonT(60) DEF ReaderInv, Shared
  <2> QED
    BY <2>1, ZenonT(60) DEF Begin
<1>3. /\ step[c] = "idle" /\ reads < MaxReads /\ reads' = reads + 1 /\ c \in Users
      /\ UNCHANGED <<inner, holder, prefetch, due, reader, parked, pulled, given, failures>>
  BY ZenonT(60) DEF Begin, world
<1>4. v \in {"idle", "entry", "lock", "pull", "park"} /\ v # "idle" /\ v # "pull" /\ v \notin {"pull", "park"}
  BY ZenonT(60)
<1>5. /\ step' \in [Callers -> {"idle", "entry", "lock", "pull", "park"}] /\ step'[c] = v
      /\ \A d \in Callers \ {c} : step'[d] = step[d]
  BY <1>2, <1>4, Put, ZenonT(60) DEF ReaderInv, Locals
<1>6. ask' \in [Callers -> Asks] /\ \A d \in Callers \ {c} : ask'[d] = ask[d]
  <2>1. k \in Asks
    BY ZenonT(60) DEF Asks
  <2> QED
    BY <1>1, <2>1, Put, ZenonT(60) DEF ReaderInv, Locals
<1>7. Shared'
  <2>1. reads' \in 0 .. MaxReads
    BY <1>3 DEF ReaderInv, Shared, ReaderAssumption
  <2> QED
    BY <1>3, <2>1, ZenonT(60) DEF ReaderInv, Shared
<1>8. Locals'
  BY <1>3, <1>5, <1>6, ZenonT(60) DEF ReaderInv, Locals
<1>9. Users' = Users
  BY <1>3, ZenonT(60) DEF Users
<1>10. parked[c] = NoBytes /\ holder # c
  <2>1. step[c] \in {"idle", "entry"} /\ step[c] # "pull"
    BY <1>3
  <2> QED
    BY <2>1, ZenonT(60) DEF ReaderInv, Place
<1>11. Place(c)'
  <2>1. v = "entry" => reader = "sync"
    BY <1>2, ZenonT(60)
  <2>2. v = "lock" => reader = "async"
    <3>1. reader \in {"async", "sync"}
      BY ZenonT(60) DEF ReaderInv, Shared
    <3> QED
      BY <1>2, <3>1
  <2>3. /\ holder' # c /\ step'[c] # "pull" /\ c \in Users' /\ parked'[c] = NoBytes
        /\ step'[c] \in {"entry", "park"} => reader' = "sync"
        /\ ~(step'[c] = "lock" /\ reader' = "sync") /\ step'[c] \notin {"pull", "park"}
    BY <1>3, <1>4, <1>5, <1>9, <1>10, <2>1, <2>2
  <2> QED
    BY <2>3, ZenonT(60) DEF Place
<1>12. ASSUME NEW d \in Callers \ {c} PROVE Place(d)'
  BY <1>3, <1>5, <1>6, <1>9, ZenonT(60) DEF ReaderInv, Place
<1>13. \A p : Level(p) => Level(p)'
  BY <1>3, ZenonT(60) DEF Level, Closed
<1>14. Levels'
  <2>1. ASSUME NEW d \in Callers, step'[d] \in {"pull", "park"} PROVE Pulling(d)'
    <3>1. d # c /\ step'[d] = step[d] /\ ask'[d] = ask[d]
      BY <1>4, <1>5, <1>6, <2>1, ZenonT(60)
    <3>2. Pulling(d)
      BY <2>1, <3>1, ZenonT(60) DEF ReaderInv, Levels
    <3> QED
      BY <1>3, <3>1, <3>2, ZenonT(60) DEF Pulling, Closed, Target
  <2>2. ASSUME \A d \in Callers : step'[d] \notin {"pull", "park"}
        PROVE  /\ \A d \in Callers : step'[d] = "lock" => Level(parked[d])
               /\ (\A d \in Callers : parked[d] = NoBytes) => Level(NoBytes)
    <3>1. \A d \in Callers : step[d] \notin {"pull", "park"}
      BY <1>3, <1>5, <2>2
    <3>2. (\A d \in Callers : parked[d] = NoBytes) => Level(NoBytes)
      BY <3>1, ZenonT(60) DEF ReaderInv, Levels
    <3>3. \A d \in Callers \ {c} : step'[d] = "lock" => Level(parked[d])
      BY <1>5, <3>1, ZenonT(60) DEF ReaderInv, Levels
    <3>4. ASSUME step'[c] = "lock" PROVE Level(parked[c])
      <4>1. reader = "async"
        <5>1. reader \in {"async", "sync"}
          BY ZenonT(60) DEF ReaderInv, Shared
        <5> QED
          BY <1>2, <1>5, <3>4, <5>1
      <4>2. \A d \in Callers : step[d] \in {"idle", "lock"}
        <5>1. \A d \in Callers : step[d] \in {"idle", "entry", "lock", "pull", "park"} /\ step[d] \notin {"entry", "park"}
          BY <4>1 DEF ReaderInv, Locals, Place
        <5> QED
          BY <3>1, <5>1
      <4>3. \A d \in Callers : parked[d] = NoBytes
        BY <4>1, <4>2 DEF ReaderInv, Place
      <4> QED
        BY <3>2, <4>3, ZenonT(60)
    <3> QED
      BY <3>2, <3>3, <3>4, ZenonT(60)
  <2> QED
    BY <1>3, <1>13, <2>1, <2>2, ZenonT(60) DEF Levels
<1>15. ReaderInv'
  BY <1>7, <1>8, <1>11, <1>12, <1>14, ZenonT(60) DEF ReaderInv
<1> QED
  BY <1>4, <1>5, <1>15, StillInside, ZenonT(60)

\* A sync call before the lock: served from the buffer, or its buffer taken.
LEMMA EntryStep ==
  ASSUME ReaderAssumption, ReaderInv, NEW c \in Callers, SyncEntry(c)
  PROVE  ReaderInv' /\ InOrder
<1>1. step[c] = "entry" /\ step[c] # "idle" /\ Level(NoBytes)
  BY LevelAtEntry DEF SyncEntry
<1>2. reader = "sync" /\ parked[c] = NoBytes /\ c \in Users
  <2>1. step[c] \in {"entry", "park"} /\ step[c] \in {"idle", "entry"}
    BY <1>1
  <2> QED
    BY <1>1, <2>1, ZenonT(60) DEF ReaderInv, Place
<1>3. \A d \in Callers \ {c} : step[d] = "idle"
  BY <1>1, <1>2, SyncAlone, ZenonT(60)
<1>4. holder = Nobody
  <2>1. \A d \in Callers : step[d] # "pull"
    BY <1>1, <1>3
  <2> QED
    BY <2>1, ZenonT(60) DEF ReaderInv, Place, Shared
<1>5. CASE ask[c].op = "read" /\ ask[c].n >= 0 /\ Length(prefetch) > 0
  BY <1>1, <1>4, <1>5, ServeStep, ZenonT(60) DEF SyncEntry
<1>6. CASE ~(ask[c].op = "read" /\ ask[c].n >= 0 /\ Length(prefetch) > 0)
  <2>1. /\ step' = [step EXCEPT ![c] = "lock"]
        /\ UNCHANGED <<reader, inner, holder, due, ask, pulled, given, reads, failures>>
        /\ IF ask[c].op = "read_at" \/ (ask[c].op = "read" /\ ask[c].n >= 0)
             THEN UNCHANGED <<prefetch, parked>>
             ELSE prefetch' = NoBytes /\ parked' = [parked EXCEPT ![c] = prefetch]
    BY <1>6, ZenonT(60) DEF SyncEntry
  <2>2. /\ step' \in [Callers -> {"idle", "entry", "lock", "pull", "park"}] /\ step'[c] = "lock"
        /\ \A d \in Callers \ {c} : step'[d] = step[d]
    <3>1. "lock" \in {"idle", "entry", "lock", "pull", "park"}
      BY ZenonT(60)
    <3> QED
      BY <2>1, <3>1, Put, ZenonT(60) DEF ReaderInv, Locals
  <2>3. ask[c] \in Asks /\ prefetch \in Runs /\ Length(prefetch) \in 0 .. FileLength /\ FileLength \in Nat /\ ask[c].n \in Int
    BY RunValues, AskValues, ZenonT(60) DEF ReaderInv, Locals, Shared
  <2>4. PICK q \in Runs :
          /\ parked' \in [Callers -> Runs] /\ parked'[c] = q /\ \A d \in Callers \ {c} : parked'[d] = parked[d]
          /\ \/ prefetch' = prefetch /\ q = NoBytes /\ (ask[c].op # "read_at" => ask[c].op = "read" /\ ask[c].n >= 0)
             \/ prefetch' = NoBytes /\ q = prefetch /\ ~(ask[c].op = "read" /\ ask[c].n >= 0) /\ ask[c].op # "read_at"
    <3>1. CASE ask[c].op = "read_at" \/ (ask[c].op = "read" /\ ask[c].n >= 0)
      <4>1. ask[c].op # "read_at" => ask[c].op = "read" /\ ask[c].n >= 0
        BY <3>1, ZenonT(60)
      <4>2. parked' = parked /\ prefetch' = prefetch /\ parked \in [Callers -> Runs]
        BY <2>1, <3>1, ZenonT(60) DEF ReaderInv, Locals
      <4> QED
        BY <1>2, <4>1, <4>2, RunValues, ZenonT(60)
    <3>2. CASE ~(ask[c].op = "read_at" \/ (ask[c].op = "read" /\ ask[c].n >= 0))
      <4>1. prefetch' = NoBytes /\ parked' = [parked EXCEPT ![c] = prefetch]
        BY <2>1, <3>2, ZenonT(60)
      <4>2. parked' \in [Callers -> Runs] /\ parked'[c] = prefetch /\ \A d \in Callers \ {c} : parked'[d] = parked[d]
        BY <2>3, <4>1, Put, ZenonT(60) DEF ReaderInv, Locals
      <4>3. ~(ask[c].op = "read" /\ ask[c].n >= 0) /\ ask[c].op # "read_at"
        BY <3>2, ZenonT(60)
      <4> QED
        BY <2>3, <4>1, <4>2, <4>3, ZenonT(60)
    <3> QED
      BY <3>1, <3>2, ZenonT(60)
  <2>5. Shared'
    BY <2>1, <2>4, RunValues, ZenonT(60) DEF ReaderInv, Shared
  <2>6. Locals'
    BY <2>1, <2>2, <2>4, ZenonT(60) DEF ReaderInv, Locals
  <2>7. Users' = Users
    BY <2>1, ZenonT(60) DEF Users
  <2>8. ASSUME NEW d \in Callers \ {c} PROVE Place(d)'
    <3>1. step'[d] = "idle" /\ parked'[d] = NoBytes /\ holder' # d
      <4>1. step[d] \in {"idle", "entry"} /\ step[d] # "pull"
        BY <1>3
      <4> QED
        BY <1>3, <2>1, <2>2, <2>4, <4>1, ZenonT(60) DEF ReaderInv, Place
    <3> QED
      BY <3>1 DEF Place
  <2>9. Place(c)'
    <3>1. holder' # c
      BY <1>4, <2>1, ZenonT(60) DEF ReaderAssumption
    <3>2. ask[c].op # "read_at" => /\ Length(prefetch)' = 0
                                   /\ ask[c].op = "read" /\ ask[c].n >= 0 => parked'[c] = NoBytes
      <4>1. ASSUME ask[c].op = "read", ask[c].n >= 0 PROVE Length(prefetch) = 0
        BY <1>6, <2>3, <4>1
      <4>2. Length(NoBytes) = 0
        BY RunValues, ZenonT(60)
      <4> QED
        BY <2>4, <4>1, <4>2, ZenonT(60)
    <3>3. ask[c].op = "read_at" => parked'[c] = NoBytes
      BY <2>4, ZenonT(60)
    <3> QED
      BY <1>2, <2>1, <2>2, <2>7, <3>1, <3>2, <3>3 DEF Place
  <2>10. Level(q)'
    <3>1. Length(NoBytes) = 0
      BY RunValues, ZenonT(60)
    <3>2. CASE prefetch' = prefetch /\ q = NoBytes
      BY <1>1, <2>1, <3>2, ZenonT(60) DEF Level, Closed
    <3>3. CASE prefetch' = NoBytes /\ q = prefetch
      <4>1. inner \in -1 .. FileLength
        BY ZenonT(60) DEF ReaderInv, Shared
      <4>2. /\ Closed' <=> Closed
            /\ Length(prefetch)' = 0 /\ due' = due /\ inner' = inner /\ ~(0 > 0)
        BY <2>1, <3>1, <3>3 DEF Closed
      <4>3. ~Closed => due = inner - Length(prefetch) - 0
        BY <1>1, <3>1, ZenonT(60) DEF Level
      <4>4. ~Closed => due = inner - 0 - Length(prefetch)
        BY <2>3, <4>1, <4>3
      <4> QED
        BY <1>1, <3>3, <4>2, <4>4, ZenonT(60) DEF Level
    <3> QED
      BY <2>4, <3>2, <3>3, ZenonT(60)
  <2>11. Levels'
    <3>1. \A d \in Callers : step'[d] \notin {"pull", "park"} /\ (step'[d] = "lock" => d = c)
      BY <1>3, <2>2
    <3>2. (\A d \in Callers : parked'[d] = NoBytes) => Level(NoBytes)'
      BY <2>4, <2>10, ZenonT(60)
    <3>3. \A d \in Callers : step'[d] = "lock" => Level(parked[d])'
      BY <2>4, <2>10, <3>1, ZenonT(60)
    <3> QED
      BY <3>1, <3>2, <3>3, ZenonT(60) DEF Levels
  <2>12. ReaderInv'
    BY <2>5, <2>6, <2>8, <2>9, <2>11, ZenonT(60) DEF ReaderInv
  <2>13. step'[c] # "idle"
    BY <2>2
  <2> QED
    BY <2>2, <2>12, <2>13, StillInside, ZenonT(60)
<1> QED
  BY <1>5, <1>6, ZenonT(60)

(* A call that waits for the lock, or for an event loop, is given up. *)
LEMMA MishapBound ==
  ASSUME ReaderAssumption, ReaderInv, Mishap
  PROVE  failures' \in 0 .. MaxFailed /\ failures' # failures
BY DEF ReaderInv, Shared, Mishap, ReaderAssumption

\* A call is abandoned before or while it has the lock.
LEMMA CancelledStep ==
  ASSUME ReaderAssumption, ReaderInv, NEW c \in Callers, Cancelled(c)
  PROVE  ReaderInv' /\ InOrder
<1>1. /\ step[c] = "lock" /\ reader = "async" /\ Return(c, NoBytes) /\ NoBytes \in Runs
      /\ UNCHANGED <<inner, holder, prefetch, due, reader, ask, reads>>
      /\ failures' \in 0 .. MaxFailed /\ failures' # failures
  BY MishapBound, RunValues, ZenonT(60) DEF Cancelled, world, Return
<1>2. step[c] # "idle" /\ step[c] # "pull" /\ step[c] \notin {"pull", "park"}
  BY <1>1
<1>3. parked[c] = NoBytes /\ holder # c
  BY <1>1, <1>2, ZenonT(60) DEF ReaderInv, Place
<1>4. /\ step' \in [Callers -> {"idle", "entry", "lock", "pull", "park"}] /\ step'[c] = "idle"
      /\ \A d \in Callers \ {c} : step'[d] = step[d]
  <2>1. "idle" \in {"idle", "entry", "lock", "pull", "park"}
    BY ZenonT(60)
  <2> QED
    BY <1>1, <2>1, Put, ZenonT(60) DEF Return, ReaderInv, Locals
<1>5. /\ given' \in [Callers -> Runs]
      /\ parked' \in [Callers -> Runs] /\ parked'[c] = NoBytes /\ \A d \in Callers \ {c} : parked'[d] = parked[d]
      /\ pulled' \in [Callers -> Runs] /\ \A d \in Callers \ {c} : pulled'[d] = pulled[d]
  BY <1>1, Put, ZenonT(60) DEF Return, ReaderInv, Locals
<1>6. Shared' /\ Locals' /\ Users' = Users
  BY <1>1, <1>4, <1>5, ZenonT(60) DEF ReaderInv, Shared, Locals, Users
<1>7. Place(c)'
  <2>1. step'[c] \notin {"entry", "park"} /\ step'[c] \notin {"pull", "park"} /\ step'[c] # "lock" /\ step'[c] # "pull"
    BY <1>4
  <2> QED
    BY <1>1, <1>3, <1>4, <1>5, <2>1, ZenonT(60) DEF Place
<1>8. ASSUME NEW d \in Callers \ {c} PROVE Place(d)'
  BY <1>1, <1>4, <1>5, <1>6, ZenonT(60) DEF ReaderInv, Place
<1>9. \A p : Level(p) => Level(p)'
  BY <1>1, ZenonT(60) DEF Level, Closed
<1>10. \A d \in Callers : parked'[d] = parked[d]
  BY <1>3, <1>5, ZenonT(60)
<1>11. Levels'
  <2>1. ASSUME NEW d \in Callers, step'[d] \in {"pull", "park"} PROVE Pulling(d)'
    <3>1. d # c
      BY <1>4, <2>1
    <3>2. Pulling(d)
      BY <1>4, <2>1, <3>1, ZenonT(60) DEF ReaderInv, Levels
    <3> QED
      BY <1>1, <1>4, <1>5, <3>1, <3>2, ZenonT(60) DEF Pulling, Closed, Target
  <2>2. ASSUME \A d \in Callers : step'[d] \notin {"pull", "park"}
        PROVE  /\ \A d \in Callers : step'[d] = "lock" => Level(parked[d])
               /\ (\A d \in Callers : parked[d] = NoBytes) => Level(NoBytes)
    <3>1. \A d \in Callers : step[d] \notin {"pull", "park"} /\ (step'[d] = "lock" => step[d] = "lock")
      BY <1>2, <1>4, <2>2
    <3> QED
      BY <3>1, ZenonT(60) DEF ReaderInv, Levels
  <2> QED
    BY <1>9, <1>10, <2>1, <2>2, ZenonT(60) DEF Levels
<1>12. ReaderInv'
  BY <1>6, <1>7, <1>8, <1>11, ZenonT(60) DEF ReaderInv
<1>13. Ordered(c)
  BY <1>1, ZenonT(60) DEF Ordered
<1> QED
  BY <1>4, <1>12, <1>13, OneOrdered, ZenonT(60)

(* What `due` becomes when a call fails with nothing parked. *)
LEMMA FailLevel ==
  ASSUME ReaderAssumption, ReaderInv, NEW p \in Runs, NEW c \in Callers, Fail(c, p),
         inner' = inner, prefetch' = p,
         Closed => Length(p) = 0, ~Closed /\ Length(p) > 0 => p.to = inner
  PROVE  Level(NoBytes)' /\ due' \in 0 .. FileLength
<1>1. /\ p.from \in 0 .. FileLength /\ p.to \in 0 .. FileLength /\ p.from <= p.to
      /\ Length(p) = p.to - p.from /\ Length(NoBytes) = 0 /\ FileLength \in Nat
      /\ inner \in -1 .. FileLength /\ due \in 0 .. FileLength
  BY RunValues, ZenonT(60) DEF ReaderInv, Shared
<1>2. due' = IF Closed THEN due ELSE inner - Length(p)
  BY ZenonT(60) DEF Fail
<1>3. due' \in 0 .. FileLength
  BY <1>1, <1>2 DEF Closed
<1>4. Length(prefetch)' = Length(p) /\ prefetch'.to = p.to /\ (Closed' <=> Closed)
  BY ZenonT(60) DEF Closed
<1>5. ~Closed => due' = inner' - Length(p) - 0
  BY <1>1, <1>2
<1>6. ~(0 > 0)
  OBVIOUS
<1>7. Level(NoBytes)'
  BY <1>1, <1>4, <1>5, <1>6, ZenonT(60) DEF Level
<1> QED
  BY <1>3, <1>7, ZenonT(60)

\* The SDK call fails, or is refused in an event loop.
LEMMA BlockedStep ==
  ASSUME ReaderAssumption, ReaderInv, NEW c \in Callers, guarded_block_on(c) \/ pull_fails(c)
  PROVE  ReaderInv' /\ InOrder
<1>1. /\ step[c] # "idle" /\ Mishap /\ Fail(c, prefetch) /\ UNCHANGED <<inner, prefetch>>
      /\ \/ step[c] = "lock" /\ reader = "sync" /\ holder' = holder
         \/ step[c] = "pull" /\ holder' = Nobody
  BY DEF guarded_block_on, pull_fails
<1>2. holder \in {c, Nobody} /\ holder' = Nobody
  <2>1. CASE step[c] = "pull"
    <3>1. holder = c /\ holder' = Nobody
      BY <1>1, <2>1 DEF ReaderInv, Place
    <3> QED
      BY <3>1, ZenonT(60)
  <2>2. CASE step[c] = "lock" /\ reader = "sync" /\ holder' = holder
    <3>1. \A d \in Callers : step[d] # "pull"
      BY <1>1, <2>2, SyncAlone
    <3>2. holder = Nobody
      BY <3>1, ZenonT(60) DEF ReaderInv, Place, Shared
    <3> QED
      BY <2>2, <3>2, ZenonT(60)
  <2> QED
    BY <1>1, <2>1, <2>2, ZenonT(60)
<1>3. /\ Closed => Length(prefetch) = 0
      /\ ~Closed /\ Length(prefetch) > 0 => prefetch.to = inner
  <2>1. CASE step[c] = "pull"
    <3>1. ~Closed /\ Length(prefetch) = 0
      <4>1. step[c] \in {"pull", "park"}
        BY <2>1
      <4> QED
        BY <4>1, ZenonT(60) DEF ReaderInv, Levels, Pulling
    <3> QED
      BY <3>1
  <2>2. CASE step[c] = "lock"
    <3>1. holder = Nobody
      <4>1. step[c] # "pull"
        BY <2>2
      <4> QED
        BY <1>2, <4>1 DEF ReaderInv, Place
    <3>2. Level(parked[c])
      BY <2>2, <3>1, LevelAtLock, ZenonT(60)
    <3> QED
      BY <3>2, ZenonT(60) DEF Level
  <2> QED
    BY <1>1, <2>1, <2>2, ZenonT(60)
<1>4. prefetch \in Runs
  BY ZenonT(60) DEF ReaderInv, Shared
<1>5. Level(NoBytes)' /\ due' \in 0 .. FileLength
  BY <1>1, <1>3, <1>4, FailLevel, ZenonT(60)
<1>6. failures' \in 0 .. MaxFailed /\ failures' # failures
  BY <1>1, MishapBound, ZenonT(60)
<1>7. Return(c, NoBytes)
  BY <1>1, ZenonT(60) DEF Fail
<1>8. Shared'
  BY <1>1, <1>2, <1>5, <1>6, <1>7, ZenonT(60) DEF ReaderInv, Shared, Return
<1> QED
  BY <1>1, <1>2, <1>5, <1>6, <1>7, <1>8, EmptyStep, ZenonT(60)

\* read_at, close and calls on a closed reader.
LEMMA OtherStep ==
  ASSUME ReaderAssumption, ReaderInv, NEW c \in Callers, read_at(c) \/ close(c) \/ is_closed(c)
  PROVE  ReaderInv' /\ InOrder
<1>1. /\ step[c] = "lock" /\ step[c] # "idle" /\ holder = Nobody /\ Return(c, NoBytes)
      /\ UNCHANGED <<holder, due, failures>> /\ (ask[c].op # "read" \/ Closed)
      /\ \/ inner' = -1 /\ prefetch' = NoBytes
         \/ UNCHANGED <<inner, prefetch>> /\ (ask[c].op = "read_at" \/ Closed)
  BY DEF read_at, close, is_closed, world
<1>2. Level(parked[c])
  BY <1>1, LevelAtLock, ZenonT(60)
<1>3. Length(NoBytes) = 0 /\ NoBytes \in Runs /\ FileLength \in Nat
  BY RunValues, ZenonT(60)
<1>4. Shared'
  <2>1. -1 \in -1 .. FileLength
    BY <1>3
  <2> QED
    BY <1>1, <1>3, <2>1, ZenonT(60) DEF ReaderInv, Shared, Return
<1>5. Level(NoBytes)'
  <2>1. CASE inner' = -1 /\ prefetch' = NoBytes
    <3>1. Closed' /\ Length(prefetch)' = 0 /\ Length(NoBytes)' = 0
      BY <1>3, <2>1, ZenonT(60) DEF Closed
    <3> QED
      BY <3>1, ZenonT(60) DEF Level
  <2>2. CASE UNCHANGED <<inner, prefetch>> /\ Closed
    <3>1. Closed' /\ Length(prefetch)' = 0 /\ Length(NoBytes)' = 0
      BY <1>2, <1>3, <2>2, ZenonT(60) DEF Level, Closed
    <3> QED
      BY <3>1, ZenonT(60) DEF Level
  <2>3. CASE UNCHANGED <<inner, prefetch>> /\ ask[c].op = "read_at"
    <3>1. Level(NoBytes)
      BY <1>1, <1>2, <2>3, ZenonT(60) DEF ReaderInv, Place
    <3> QED
      BY <1>1, <2>3, <3>1, ZenonT(60) DEF Level, Closed
  <2> QED
    BY <1>1, <2>1, <2>2, <2>3, ZenonT(60)
<1> QED
  BY <1>1, <1>4, <1>5, EmptyStep, ZenonT(60)

\* A read has the lock: served from the buffer, or about to pull.
LEMMA ReadStep ==
  ASSUME ReaderAssumption, ReaderInv, NEW c \in Callers, read(c)
  PROVE  ReaderInv' /\ InOrder
<1>1. step[c] = "lock" /\ step[c] # "idle" /\ ask[c].op = "read" /\ holder = Nobody /\ ~Closed
  BY DEF read
<1>2. Level(parked[c])
  BY <1>1, LevelAtLock, ZenonT(60)
<1>3. CASE reader = "async" /\ ask[c].n >= 0 /\ Length(prefetch) > 0
  <2>1. Serve(c, ask[c].n) /\ UNCHANGED <<inner, holder, failures>>
    BY <1>3, ZenonT(60) DEF read
  <2>2. Level(NoBytes)
    BY <1>1, <1>2, <1>3, ZenonT(60) DEF ReaderInv, Place
  <2> QED
    BY <1>1, <1>3, <2>1, <2>2, ServeStep, ZenonT(60)
<1>4. CASE ~(reader = "async" /\ ask[c].n >= 0 /\ Length(prefetch) > 0)
  <2>1. /\ holder' = c /\ step' = [step EXCEPT ![c] = "pull"]
        /\ pulled' = [pulled EXCEPT ![c] = Run(inner, inner)]
        /\ UNCHANGED <<reader, inner, due, ask, given, reads, failures>>
        /\ IF reader = "async" /\ ask[c].n < 0
           THEN prefetch' = NoBytes /\ parked' = [parked EXCEPT ![c] = prefetch]
           ELSE UNCHANGED <<prefetch, parked>>
    BY <1>4, ZenonT(60) DEF read
  <2>2. /\ step' \in [Callers -> {"idle", "entry", "lock", "pull", "park"}] /\ step'[c] = "pull"
        /\ \A d \in Callers \ {c} : step'[d] = step[d]
    <3>1. "pull" \in {"idle", "entry", "lock", "pull", "park"}
      BY ZenonT(60)
    <3> QED
      BY <2>1, <3>1, Put, ZenonT(60) DEF ReaderInv, Locals
  <2>3. /\ prefetch \in Runs /\ Length(prefetch) \in 0 .. FileLength /\ parked[c] \in Runs
        /\ Length(parked[c]) \in 0 .. FileLength /\ FileLength \in Nat /\ ask[c].n \in Int
        /\ inner \in -1 .. FileLength /\ Length(NoBytes) = 0
    BY RunValues, AskValues, ZenonT(60) DEF ReaderInv, Locals, Shared
  <2>4. inner \in 0 .. FileLength /\ inner <= inner
    BY <1>1, <2>3 DEF Closed
  <2>5. Run(inner, inner) \in Runs /\ Run(inner, inner).from = inner /\ Run(inner, inner).to = inner
    BY <2>4, RunValues, ZenonT(60)
  <2>6. pulled' \in [Callers -> Runs] /\ pulled'[c] = Run(inner, inner)
    BY <2>1, <2>5, Put, ZenonT(60) DEF ReaderInv, Locals
  <2>7. PICK q \in Runs :
          /\ parked' \in [Callers -> Runs] /\ parked'[c] = q /\ \A d \in Callers \ {c} : parked'[d] = parked[d]
          /\ prefetch' \in Runs /\ Length(prefetch)' = 0
          /\ due = inner - Length(q) /\ (Length(q) > 0 => q.to = inner)
          /\ ask[c].n >= 0 => q = NoBytes
    <3>1. CASE reader = "async" /\ ask[c].n < 0
      <4>1. prefetch' = NoBytes /\ parked' = [parked EXCEPT ![c] = prefetch]
        BY <2>1, <3>1, ZenonT(60)
      <4>2. parked' \in [Callers -> Runs] /\ parked'[c] = prefetch /\ \A d \in Callers \ {c} : parked'[d] = parked[d]
        BY <2>3, <4>1, Put, ZenonT(60) DEF ReaderInv, Locals
      <4>3. parked[c] = NoBytes
        BY <1>1, <3>1, ZenonT(60) DEF ReaderInv, Place
      <4>4. due = inner - Length(prefetch) - 0 /\ (Length(prefetch) > 0 => prefetch.to = inner)
        BY <1>1, <1>2, <2>3, <4>3, ZenonT(60) DEF Level
      <4>5. due = inner - Length(prefetch) /\ ~(ask[c].n >= 0)
        BY <2>3, <3>1, <4>4
      <4>6. NoBytes \in Runs
        BY RunValues, ZenonT(60)
      <4> QED
        BY <2>3, <4>1, <4>2, <4>4, <4>5, <4>6, ZenonT(60)
    <3>2. CASE ~(reader = "async" /\ ask[c].n < 0)
      <4>1. prefetch' = prefetch /\ parked' = parked /\ parked \in [Callers -> Runs]
        BY <2>1, <3>2, ZenonT(60) DEF ReaderInv, Locals
      <4>2. Length(prefetch) = 0 /\ (ask[c].n >= 0 => parked[c] = NoBytes)
        <5>1. reader \in {"async", "sync"}
          BY ZenonT(60) DEF ReaderInv, Shared
        <5>2. CASE reader = "sync"
          <6>1. ask[c].op # "read_at"
            BY <1>1
          <6> QED
            BY <1>1, <5>2, <6>1, ZenonT(60) DEF ReaderInv, Place
        <5>3. CASE reader = "async"
          <6>1. parked[c] = NoBytes
            BY <1>1, <5>3, ZenonT(60) DEF ReaderInv, Place
          <6> QED
            BY <1>4, <2>3, <3>2, <5>3, <6>1
        <5> QED
          BY <5>1, <5>2, <5>3
      <4>3. due = inner - 0 - Length(parked[c]) /\ (Length(parked[c]) > 0 => parked[c].to = inner)
        BY <1>1, <1>2, <4>2, ZenonT(60) DEF Level
      <4>4. due = inner - Length(parked[c])
        BY <2>3, <4>3
      <4> QED
        BY <2>3, <4>1, <4>2, <4>3, <4>4, ZenonT(60)
    <3> QED
      BY <3>1, <3>2, ZenonT(60)
  <2>8. Shared'
    BY <2>1, <2>7, ZenonT(60) DEF ReaderInv, Shared
  <2>9. Locals' /\ Users' = Users
    BY <2>1, <2>2, <2>6, <2>7, ZenonT(60) DEF ReaderInv, Locals, Users
  <2>10. \A d \in Callers \ {c} : step'[d] \notin {"pull", "park"} /\ step'[d] # "pull"
    <3>1. \A d \in Callers \ {c} : step[d] \notin {"pull", "park"}
      BY <1>1, NoneElse
    <3> QED
      BY <2>2, <3>1
  <2>11. ASSUME NEW d \in Callers \ {c} PROVE Place(d)'
    <3>1. reader = "sync" => step[d] = "idle"
      BY <1>1, SyncAlone, ZenonT(60)
    <3>2. ~(step[d] = "lock" /\ reader = "sync")
      BY <3>1
    <3>3. step'[d] = step[d] /\ parked'[d] = parked[d] /\ ask'[d] = ask[d] /\ holder' # d /\ reader' = reader
      BY <2>1, <2>2, <2>7, ZenonT(60)
    <3> QED
      BY <2>9, <2>10, <3>2, <3>3, ZenonT(60) DEF ReaderInv, Place
  <2>12. Place(c)'
    <3>1. c \in Users
      BY <1>1, ZenonT(60) DEF ReaderInv, Place
    <3> QED
      BY <1>1, <2>1, <2>2, <2>7, <2>9, <3>1 DEF Place
  <2>13. Pulling(c)'
    <3>1. step'[c] # "park"
      BY <2>2
    <3> QED
      BY <1>1, <2>1, <2>5, <2>6, <2>7, <3>1, ZenonT(60) DEF Pulling, Closed
  <2>14. Levels'
    <3>1. step'[c] \in {"pull", "park"}
      BY <2>2
    <3> QED
      BY <2>10, <2>13, <3>1, ZenonT(60) DEF Levels
  <2>15. ReaderInv'
    BY <2>8, <2>9, <2>11, <2>12, <2>14, ZenonT(60) DEF ReaderInv
  <2>16. step'[c] # "idle"
    BY <2>2
  <2> QED
    BY <2>2, <2>15, <2>16, StillInside, ZenonT(60)
<1> QED
  BY <1>3, <1>4, ZenonT(60)

(* The callers that are not at the stream, when one that is moves on. *)
LEMMA PullMoves ==
  ASSUME ReaderAssumption, ReaderInv, NEW c \in Callers, step[c] = "pull", Shared',
         step' \in [Callers -> {"idle", "entry", "lock", "pull", "park"}],
         step'[c] \in {"pull", "park"}, step'[c] = "park" => reader = "sync",
         \A d \in Callers \ {c} : step'[d] = step[d],
         pulled' \in [Callers -> Runs], holder' = c <=> step'[c] = "pull",
         holder' \in {c, Nobody}, UNCHANGED <<reader, prefetch, ask, parked, given, due>>,
         Pulling(c)'
  PROVE  ReaderInv' /\ InOrder
<1>1. step[c] # "idle" /\ holder = c
  BY DEF ReaderInv, Place
<1>2. Locals' /\ Users' = Users
  BY ZenonT(60) DEF ReaderInv, Locals, Users
<1>3. \A d \in Callers \ {c} : step[d] \notin {"pull", "park"} /\ step[d] # "pull"
  <2>1. \A d \in Callers \ {c} : step[d] \notin {"pull", "park"}
    BY <1>1, NoneElse, ZenonT(60)
  <2> QED
    BY <2>1
<1>4. ASSUME NEW d \in Callers \ {c} PROVE Place(d)'
  <2>1. holder' # d
    BY ZenonT(60) DEF ReaderAssumption
  <2> QED
    BY <1>2, <1>3, <2>1, ZenonT(60) DEF ReaderInv, Place
<1>5. Place(c)'
  <2>1. /\ c \in Users /\ ask[c].op = "read" /\ (ask[c].n >= 0 => parked[c] = NoBytes)
    <3>1. step[c] \in {"pull", "park"}
      BY ZenonT(60)
    <3> QED
      BY <1>1, <3>1, ZenonT(60) DEF ReaderInv, Place
  <2>2. step'[c] # "idle" /\ step'[c] # "entry" /\ step'[c] # "lock" /\ step'[c] \notin {"idle", "entry"}
    OBVIOUS
  <2>3. step'[c] \in {"entry", "park"} => reader' = "sync"
    BY <2>2, ZenonT(60)
  <2> QED
    BY <1>2, <2>1, <2>2, <2>3, ZenonT(60) DEF Place
<1>6. Levels'
  BY <1>3, ZenonT(60) DEF Levels
<1>7. step'[c] # "idle"
  OBVIOUS
<1>8. ReaderInv'
  BY <1>2, <1>4, <1>5, <1>6, ZenonT(60) DEF ReaderInv
<1> QED
  BY <1>7, <1>8, StillInside, ZenonT(60)

\* A piece is pulled; a sync reader releases the lock.
LEMMA PullStep ==
  ASSUME ReaderAssumption, ReaderInv, NEW c \in Callers, pull_prefetched(c) \/ SyncRelease(c)
  PROVE  ReaderInv' /\ InOrder
<1>1. step[c] = "pull" /\ step[c] \in {"pull", "park"} /\ UNCHANGED <<reader, prefetch, ask, parked, given, due, reads, failures>>
  BY DEF pull_prefetched, SyncRelease, Pulled
<1>2. Pulling(c) /\ holder = c
  BY <1>1, ZenonT(60) DEF ReaderInv, Levels, Place
<1>3. /\ pulled[c] \in Runs /\ pulled[c].from \in 0 .. FileLength /\ pulled[c].to \in 0 .. FileLength
      /\ pulled[c].from <= pulled[c].to /\ FileLength \in Nat
  BY RunValues, ZenonT(60) DEF ReaderInv, Locals
<1>4. CASE pull_prefetched(c)
  <2>1. PICK n \in 1 .. Least(Target(c) - Length(pulled[c]), FileLength - inner) :
          inner' = inner + n /\ pulled' = [pulled EXCEPT ![c].to = pulled[c].to + n]
    BY <1>4, ZenonT(60) DEF pull_prefetched
  <2>2. step' = step /\ holder' = holder /\ inner < FileLength
    BY <1>4, ZenonT(60) DEF pull_prefetched
  <2>3. n \in Int /\ 1 <= n /\ n <= FileLength - inner /\ inner \in -1 .. FileLength
    <3>1. inner \in -1 .. FileLength /\ Length(pulled[c]) \in Int
      BY <1>3, RunValues DEF ReaderInv, Shared
    <3>2. Target(c) \in Int
      <4>1. ask[c].n \in Int
        BY AskValues, ZenonT(60) DEF ReaderInv, Locals
      <4> QED
        BY <1>3, <4>1 DEF Target, Most, ReaderAssumption
    <3> QED
      BY <1>3, <3>1, <3>2 DEF Least
  <2>4. pulled[c].to = inner /\ ~Closed
    BY <1>2, ZenonT(60) DEF Pulling
  <2>5. pulled[c].to + n \in 0 .. FileLength /\ inner + n \in -1 .. FileLength /\ inner + n # -1
    BY <1>3, <2>3, <2>4
  <2>6. [pulled[c] EXCEPT !.to = pulled[c].to + n] \in Runs
    BY <1>3, <2>3, <2>5 DEF Runs
  <2>7. /\ [pulled[c] EXCEPT !.to = pulled[c].to + n].from = pulled[c].from
        /\ [pulled[c] EXCEPT !.to = pulled[c].to + n].to = pulled[c].to + n
    BY <1>3 DEF Runs
  <2>8. pulled' \in [Callers -> Runs] /\ pulled'[c] = [pulled[c] EXCEPT !.to = pulled[c].to + n]
    BY <2>1, <2>6, Put, ZenonT(60) DEF ReaderInv, Locals
  <2>9. Pulling(c)'
    <3>1. step'[c] # "park" /\ ~Closed'
      BY <1>1, <2>1, <2>2, <2>5 DEF Closed
    <3> QED
      BY <1>1, <1>2, <2>1, <2>4, <2>7, <2>8, <3>1, ZenonT(60) DEF Pulling
  <2>10. Shared'
    BY <1>1, <2>1, <2>2, <2>5, ZenonT(60) DEF ReaderInv, Shared
  <2>11. step' \in [Callers -> {"idle", "entry", "lock", "pull", "park"}] /\ step'[c] # "park" /\ step'[c] = "pull"
         /\ step'[c] \in {"pull", "park"}
    BY <1>1, <2>2 DEF ReaderInv, Locals
  <2>12. holder' = c /\ holder' \in {c, Nobody} /\ \A d \in Callers \ {c} : step'[d] = step[d]
    BY <1>2, <2>2, ZenonT(60)
  <2> QED
    BY <1>1, <2>8, <2>9, <2>10, <2>11, <2>12, PullMoves, ZenonT(60)
<1>5. CASE SyncRelease(c)
  <2>1. /\ reader = "sync" /\ Pulled(c) /\ holder' = Nobody /\ step' = [step EXCEPT ![c] = "park"]
        /\ inner' = inner /\ pulled' = pulled
    BY <1>5, ZenonT(60) DEF SyncRelease
  <2>2. /\ step' \in [Callers -> {"idle", "entry", "lock", "pull", "park"}] /\ step'[c] = "park"
        /\ \A d \in Callers \ {c} : step'[d] = step[d]
    <3>1. "park" \in {"idle", "entry", "lock", "pull", "park"}
      BY ZenonT(60)
    <3> QED
      BY <2>1, <3>1, Put, ZenonT(60) DEF ReaderInv, Locals
  <2>3. Pulling(c)'
    BY <1>1, <1>2, <2>1, ZenonT(60) DEF Pulling, Pulled, Closed, Target
  <2>4. Shared'
    BY <1>1, <2>1, ZenonT(60) DEF ReaderInv, Shared
  <2>5. step'[c] \in {"pull", "park"} /\ step'[c] # "pull"
    BY <2>2
  <2>6. holder' # c /\ holder' \in {c, Nobody}
    BY <2>1, ZenonT(60) DEF ReaderAssumption
  <2>7. pulled' \in [Callers -> Runs]
    BY <2>1, ZenonT(60) DEF ReaderInv, Locals
  <2> QED
    BY <1>1, <2>1, <2>2, <2>3, <2>4, <2>5, <2>6, <2>7, PullMoves, ZenonT(60)
<1> QED
  BY <1>4, <1>5, ZenonT(60)

\* What was pulled is handed out, the rest goes to the buffer.
LEMMA AnswerStep ==
  ASSUME ReaderAssumption, ReaderInv, NEW c \in Callers, AsyncAnswer(c) \/ SyncAnswer(c)
  PROVE  ReaderInv' /\ InOrder
<1>1. /\ step[c] \in {"pull", "park"} /\ step[c] # "idle" /\ Answer(c) /\ UNCHANGED <<inner, failures>>
      /\ Length(pulled[c]) = Target(c) \/ inner = FileLength
      /\ \/ step[c] = "pull" /\ holder' = Nobody
         \/ step[c] = "park" /\ reader = "sync" /\ holder' = holder
  <2>1. CASE AsyncAnswer(c)
    BY <2>1 DEF AsyncAnswer, Pulled
  <2>2. CASE SyncAnswer(c)
    <3>1. step[c] = "park" /\ reader = "sync" /\ Answer(c) /\ UNCHANGED <<inner, holder, failures>>
      BY <2>2, ZenonT(60) DEF SyncAnswer
    <3>2. step[c] \in {"pull", "park"} /\ step[c] # "idle"
      BY <3>1
    <3> QED
      BY <3>1, <3>2, ZenonT(60) DEF ReaderInv, Levels, Pulling
  <2> QED
    BY <2>1, <2>2, ZenonT(60)
<1>2. holder \in {c, Nobody} /\ holder' = Nobody
  <2>1. CASE step[c] = "pull"
    <3>1. holder = c /\ holder' = Nobody
      BY <1>1, <2>1 DEF ReaderInv, Place
    <3> QED
      BY <3>1, ZenonT(60)
  <2>2. CASE step[c] = "park" /\ reader = "sync" /\ holder' = holder
    <3>1. \A d \in Callers : step[d] # "pull"
      BY <1>1, <2>2, SyncAlone
    <3>2. holder = Nobody
      BY <3>1, ZenonT(60) DEF ReaderInv, Place, Shared
    <3> QED
      BY <2>2, <3>2, ZenonT(60)
  <2> QED
    BY <1>1, <2>1, <2>2, ZenonT(60)
<1>3. Pulling(c) /\ ask[c].op = "read" /\ (ask[c].n >= 0 => parked[c] = NoBytes)
  BY <1>1, ZenonT(60) DEF ReaderInv, Levels, Place
<1> DEFINE p == pulled[c]
           q == parked[c]
<1>4. /\ p \in Runs /\ p.from \in 0 .. FileLength /\ p.to \in 0 .. FileLength /\ p.from <= p.to
      /\ Length(p) = p.to - p.from /\ FileLength \in Nat
      /\ q \in Runs /\ q.from \in 0 .. FileLength /\ q.to \in 0 .. FileLength /\ q.from <= q.to
      /\ Length(q) = q.to - q.from /\ Length(NoBytes) = 0 /\ inner \in -1 .. FileLength
  BY RunValues, ZenonT(60) DEF ReaderInv, Locals, Shared
<1>5. ask[c].n \in Int
  BY AskValues, ZenonT(60) DEF ReaderInv, Locals
<1>6. /\ ~Closed /\ Length(prefetch) = 0 /\ p.to = inner /\ due = p.from - Length(q)
      /\ Length(q) > 0 => q.to = p.from
  BY <1>3, ZenonT(60) DEF Pulling
<1>7. CASE ask[c].n < 0
  <2> DEFINE r == IF Length(q) > 0 THEN Run(q.from, p.to) ELSE p
  <2>1. Return(c, r) /\ due' = p.to /\ prefetch' = prefetch
    BY <1>1, <1>7, ZenonT(60) DEF Answer
  <2>2. r \in Runs /\ r.from = due /\ r.to = p.to
    <3>1. CASE Length(q) > 0
      <4>1. q.from <= p.to /\ q.from = due
        BY <1>4, <1>6, <3>1
      <4>2. Run(q.from, p.to) \in Runs /\ Run(q.from, p.to).from = q.from /\ Run(q.from, p.to).to = p.to
        <5>1. PICK a \in 0 .. FileLength, b \in 0 .. FileLength : a = q.from /\ b = p.to
          BY <1>4, ZenonT(60)
        <5>2. a <= b
          BY <4>1, <5>1, ZenonT(60)
        <5>3. Run(a, b) \in Runs /\ Run(a, b).from = a /\ Run(a, b).to = b
          BY <5>2, RunValues, ZenonT(60)
        <5> QED
          BY <5>1, <5>3, ZenonT(60)
      <4> QED
        BY <3>1, <4>1, <4>2, ZenonT(60)
    <3>2. CASE ~(Length(q) > 0)
      <4>1. p.from = due
        BY <1>4, <1>6, <3>2
      <4> QED
        BY <1>4, <3>2, <4>1, ZenonT(60)
    <3> QED
      BY <3>1, <3>2, ZenonT(60)
  <2> HIDE DEF r
  <2>3. p.to = FileLength
    <3>1. Length(p) = FileLength \/ inner = FileLength
      BY <1>1, <1>7, ZenonT(60) DEF Target
    <3> QED
      BY <1>4, <1>6, <3>1
  <2>4. /\ step'[c] = "idle" /\ \A d \in Callers \ {c} : step'[d] = step[d]
        /\ given'[c] = r /\ reader' = reader /\ reads' = reads
    BY <2>1, <2>2, Returned, ZenonT(60)
  <2>5. Shared'
    <3>1. Nobody \in Callers \cup {Nobody}
      BY ZenonT(60)
    <3> QED
      BY <1>1, <1>2, <1>4, <2>1, <2>4, <3>1, ZenonT(60) DEF ReaderInv, Shared
  <2>6. Level(NoBytes)'
    <3>1. /\ Length(prefetch)' = 0 /\ due' = inner /\ inner' = inner /\ Length(NoBytes)' = 0 /\ ~Closed'
      BY <1>1, <1>4, <1>6, <2>1, ZenonT(60) DEF Closed
    <3> QED
      BY <1>4, <3>1 DEF Level
  <2>7. ReaderInv'
    BY <1>1, <1>2, <2>1, <2>2, <2>5, <2>6, Settles, ZenonT(60)
  <2>8. Ordered(c)
    <3>1. Length(given'[c]) = 0 => due = FileLength
      BY <1>4, <2>2, <2>3, <2>4, RunValues
    <3> QED
      BY <2>1, <2>2, <2>3, <2>4, <3>1, ZenonT(60) DEF Ordered
  <2> QED
    BY <2>4, <2>7, <2>8, OneOrdered, ZenonT(60)
<1>8. CASE ~(ask[c].n < 0)
  <2> DEFINE cut == p.from + Least(ask[c].n, Length(p))
  <2>1. prefetch' = Run(cut, p.to) /\ due' = cut /\ Return(c, Run(p.from, cut))
    BY <1>1, <1>8, ZenonT(60) DEF Answer
  <2>2. cut \in 0 .. FileLength /\ p.from <= cut /\ cut <= p.to
    BY <1>4, <1>5, <1>8 DEF Least
  <2>3. ask[c].n # 0 /\ cut = p.from => p.from = FileLength
    <3> SUFFICES ASSUME ask[c].n # 0, cut = p.from PROVE p.from = FileLength
      BY ZenonT(60)
    <3>1. Length(p) = 0
      BY <1>4, <1>5, <1>8 DEF Least
    <3>2. Target(c) # 0
      BY <1>5, <1>8 DEF Target, Most, ReaderAssumption
    <3>3. inner = FileLength
      BY <1>1, <3>1, <3>2, ZenonT(60)
    <3>4. p.to = FileLength /\ p.to - p.from = 0 /\ p.from \in 0 .. FileLength
      BY <1>4, <1>6, <3>1, <3>3, ZenonT(60)
    <3> HIDE DEF p, cut
    <3> QED
      BY <1>4, <3>4
  <2>4. due = p.from
    <3>1. ask[c].n >= 0
      BY <1>5, <1>8
    <3>2. Length(q) = 0
      BY <1>3, <1>4, <3>1, ZenonT(60)
    <3> QED
      BY <1>4, <1>6, <3>2
  <2> HIDE DEF cut
  <2>5. /\ Run(cut, p.to) \in Runs /\ Run(cut, p.to).to = p.to /\ Length(Run(cut, p.to)) = p.to - cut
        /\ Run(p.from, cut) \in Runs /\ Run(p.from, cut).from = p.from /\ Run(p.from, cut).to = cut
        /\ Length(Run(p.from, cut)) = cut - p.from
    BY <1>4, <2>2, RunValues, ZenonT(60)
  <2>6. /\ step'[c] = "idle" /\ \A d \in Callers \ {c} : step'[d] = step[d]
        /\ given'[c] = Run(p.from, cut) /\ reader' = reader /\ reads' = reads
    BY <2>1, <2>5, Returned, ZenonT(60)
  <2>7. Shared'
    <3>1. Nobody \in Callers \cup {Nobody}
      BY ZenonT(60)
    <3> QED
      BY <1>1, <1>2, <2>1, <2>2, <2>5, <2>6, <3>1, ZenonT(60) DEF ReaderInv, Shared
  <2>8. Level(NoBytes)'
    <3>1. /\ Length(prefetch)' = inner - cut /\ due' = cut /\ inner' = inner /\ prefetch'.to = inner
          /\ Length(NoBytes)' = 0 /\ ~Closed'
      BY <1>1, <1>4, <1>6, <2>1, <2>5, ZenonT(60) DEF Closed
    <3>2. cut \in Int /\ inner \in Int
      BY <1>4, <2>2
    <3> QED
      BY <3>1, <3>2 DEF Level
  <2>9. ReaderInv'
    BY <1>1, <1>2, <2>1, <2>5, <2>7, <2>8, Settles, ZenonT(60)
  <2>10. Ordered(c)
    <3>1. Length(given'[c]) = 0 => cut = p.from
      <4>1. \A a, b \in 0 .. FileLength : b - a = 0 => b = a
        BY <1>4
      <4> QED
        BY <1>4, <2>2, <2>5, <2>6, <4>1, ZenonT(60)
    <3> QED
      BY <1>8, <2>1, <2>3, <2>4, <2>5, <2>6, <3>1, ZenonT(60) DEF Ordered
  <2> QED
    BY <2>6, <2>9, <2>10, OneOrdered, ZenonT(60)
<1> QED
  BY <1>7, <1>8, ZenonT(60)

\* seek: the buffer is dropped and the stream moved.
LEMMA SeekStep ==
  ASSUME ReaderAssumption, ReaderInv, NEW c \in Callers, seek(c)
  PROVE  ReaderInv' /\ InOrder
<1>1. /\ step[c] = "lock" /\ step[c] # "idle" /\ ask[c].op # "read" /\ holder = Nobody /\ ~Closed
      /\ prefetch' = NoBytes /\ UNCHANGED <<holder, failures>>
  BY DEF seek
<1>2. Level(parked[c])
  BY <1>1, LevelAtLock, ZenonT(60)
<1>3. Length(NoBytes) = 0 /\ NoBytes \in Runs /\ FileLength \in Nat
  BY RunValues, ZenonT(60)
<1>4. Return(c, NoBytes) /\ inner' \in 0 .. FileLength /\ due' = inner'
  <2>1. /\ inner \in -1 .. FileLength /\ due \in 0 .. FileLength /\ prefetch \in Runs /\ parked[c] \in Runs
        /\ Length(prefetch) \in 0 .. FileLength /\ Length(parked[c]) \in 0 .. FileLength /\ ask[c].n \in Int
    BY RunValues, AskValues, ZenonT(60) DEF ReaderInv, Shared, Locals
  <2>2. inner \in 0 .. FileLength
    BY <1>1, <1>3, <2>1 DEF Closed
  <2>3. CASE ask[c].op = "set" /\ ask[c].n < 0
    <3>1. Fail(c, NoBytes) /\ inner' = inner
      BY <2>3, ZenonT(60) DEF seek
    <3>2. due' = inner - 0 /\ Return(c, NoBytes)
      BY <1>1, <1>3, <3>1, ZenonT(60) DEF Fail
    <3> QED
      BY <2>2, <3>1, <3>2
  <2>4. CASE ~(ask[c].op = "set" /\ ask[c].n < 0)
    <3>1. /\ inner' = Clamp(Whence(c, logical_pos(c))) /\ due' = Clamp(Whence(c, due)) /\ Return(c, NoBytes)
      BY <2>4, ZenonT(60) DEF seek
    <3>2. logical_pos(c) = due
      <4>1. reader \in {"async", "sync"} /\ (reader = "async" => Length(parked[c]) = 0)
        BY <1>1, <1>3, ZenonT(60) DEF ReaderInv, Shared, Place
      <4>2. /\ due = inner - Length(prefetch) - Length(parked[c])
            /\ Length(parked[c]) = 0 \/ Length(prefetch) = 0
        BY <1>1, <1>2, ZenonT(60) DEF Level
      <4>3. CASE reader = "async"
        BY <2>1, <4>1, <4>2, <4>3 DEF logical_pos
      <4>4. CASE reader # "async"
        <5>1. Length(prefetch) = 0
          <6>1. ask[c].op # "read_at" /\ reader = "sync"
            BY <4>1, <4>4 DEF seek
          <6> QED
            BY <1>1, <6>1, ZenonT(60) DEF ReaderInv, Place
        <5> QED
          BY <2>1, <4>2, <4>4, <5>1 DEF logical_pos
      <4> QED
        BY <4>3, <4>4, ZenonT(60)
    <3>3. Whence(c, due) \in Int
      BY <1>3, <2>1 DEF Whence
    <3>4. Clamp(Whence(c, due)) \in 0 .. FileLength
      <4> DEFINE o == Whence(c, due)
      <4> HIDE DEF o
      <4>1. Clamp(o) \in 0 .. FileLength
        BY <1>3, <3>3 DEF Clamp, Most, Least, o
      <4> QED
        BY <4>1 DEF o
    <3> QED
      BY <3>1, <3>2, <3>4, ZenonT(60)
  <2> QED
    BY <2>3, <2>4, ZenonT(60)
<1>5. Shared'
  <2>1. inner' \in -1 .. FileLength
    BY <1>3, <1>4
  <2> QED
    BY <1>1, <1>3, <1>4, <2>1, ZenonT(60) DEF ReaderInv, Shared, Return
<1>6. Level(NoBytes)'
  <2>1. /\ Length(prefetch)' = 0 /\ due' = inner' /\ inner' \in Int /\ Length(NoBytes)' = 0
    BY <1>1, <1>3, <1>4
  <2>3. (\A x \in Int : x = x - 0 - 0) /\ ~(0 > 0)
    OBVIOUS
  <2>2. due' = inner' - 0 - 0 /\ ~(0 > 0)
    BY <2>1, <2>3, ZenonT(60)
  <2> QED
    BY <2>1, <2>2, ZenonT(60) DEF Level
<1>7. holder \in {c, Nobody} /\ holder' = Nobody
  BY <1>1, ZenonT(60)
<1> QED
  BY <1>1, <1>4, <1>5, <1>6, <1>7, EmptyStep, ZenonT(60)

\* Every step of every caller keeps the inductive invariant and the order.
LEMMA ReaderStep ==
  ASSUME ReaderAssumption
  PROVE  ReaderInv /\ [Next]_vars => ReaderInv' /\ [InOrder]_vars
<1> SUFFICES ASSUME ReaderInv, [Next]_vars PROVE ReaderInv' /\ [InOrder]_vars
  OBVIOUS
<1>1. ASSUME NEW c \in Callers, Step(c) PROVE ReaderInv' /\ InOrder
  BY <1>1, BeginStep, EntryStep, BlockedStep, CancelledStep, ReadStep, PullStep, AnswerStep,
     SeekStep, OtherStep, ZenonT(60) DEF Step
<1>2. CASE UNCHANGED vars
  <2>1. UNCHANGED <<reader, inner, holder, prefetch, step, ask, parked, pulled, given, due, reads, failures>>
    BY <1>2, ZenonT(60) DEF vars
  <2>2. Shared' /\ Locals' /\ Users' = Users
    BY <2>1, ZenonT(60) DEF ReaderInv, Shared, Locals, Users
  <2>3. \A c \in Callers : Place(c)'
    BY <2>1, <2>2, ZenonT(60) DEF ReaderInv, Place
  <2>4. \A p : Level(p) => Level(p)'
    BY <2>1, ZenonT(60) DEF Level, Closed
  <2>5. \A c \in Callers : Pulling(c) => Pulling(c)'
    BY <2>1, ZenonT(60) DEF Pulling, Closed, Target
  <2>6. Levels'
    BY <2>1, <2>4, <2>5, ZenonT(60) DEF ReaderInv, Levels
  <2> QED
    BY <1>2, <2>2, <2>3, <2>6, ZenonT(60) DEF ReaderInv
<1> QED
  BY <1>1, <1>2, ZenonT(60) DEF Next, Over

-----------------------------------------------------------------------------
\* PyWriter: the tasks that share a writer are finitely many.
SaversAssumption == IsFiniteSet(Tasks) /\ saver!SaverAssumption

(* PyWriter: the task inside the SDK is the one that holds the mutex, and what *)
(* it finishes has been taken out of it.                                       *)
OneInside ==
    /\ \A t \in Tasks : busy[t] = "sdk" => guard = t /\ file = "open"
    /\ \A t \in Tasks : busy[t] = "sdk" /\ doing[t] # "write" => ~slot
    /\ slot => file = "open"
    /\ guard # saver!Nobody => busy[guard] = "sdk"

(* PyWriter: only the program's own close() or a block left normally closes. *)
Closers ==
    file = "complete" \/ (\E t \in Tasks : busy[t] # "idle" /\ doing[t] = "close")
      => explicit \/ body = "left"

(* PyWriter: the write calls under way are among those asked. *)
Writing == {t \in Tasks : busy[t] # "idle" /\ doing[t] = "write"}
Counted == data + Cardinality(Writing) <= asked

SaverInv == saver!TypeOK /\ OneInside /\ Closers /\ Counted

\* A new writer is open and nobody is inside.
LEMMA SaverStart ==
  ASSUME SaversAssumption
  PROVE  saver!Init => SaverInv
<1> SUFFICES ASSUME saver!Init PROVE SaverInv
  OBVIOUS
<1>1. MaxData \in Nat /\ MaxBroken \in Nat
  BY DEF SaversAssumption, saver!SaverAssumption
<1>2. saver!TypeOK
  <2>1. slot \in BOOLEAN /\ explicit \in BOOLEAN
    BY ZenonT(60) DEF saver!Init, saver!from_sdk
  <2>2. 0 \in 0 .. MaxData /\ 0 \in 0 .. MaxBroken
    BY <1>1
  <2>3. /\ busy \in [Tasks -> {"idle", "lock", "sdk"}]
        /\ doing \in [Tasks -> {"none", "write", "close", "cancel"}]
        /\ told \in [Tasks -> {"none", "ok", "error", "closed"}]
    BY DEF saver!Init, saver!from_sdk
  <2> QED
    BY <2>1, <2>2, <2>3, ZenonT(60) DEF saver!Init, saver!from_sdk, saver!TypeOK
<1>3. \A t \in Tasks : busy[t] = "idle"
  BY ZenonT(60) DEF saver!Init, saver!from_sdk
<1>4. OneInside /\ Closers
  BY <1>3, ZenonT(60) DEF saver!Init, saver!from_sdk, OneInside, Closers
<1>5. Counted
  <2>1. Writing = {}
    BY <1>3, ZenonT(60) DEF Writing
  <2>2. Cardinality(Writing) = 0
    BY <2>1, FS_EmptySet, ZenonT(60)
  <2>3. data = 0 /\ asked = 0
    BY ZenonT(60) DEF saver!Init, saver!from_sdk
  <2> QED
    BY <2>2, <2>3 DEF Counted
<1> QED
  BY <1>2, <1>4, <1>5, ZenonT(60) DEF SaverInv

(* The calls a step leaves under way. *)
LEMMA WritingFinite ==
  ASSUME SaversAssumption
  PROVE  /\ IsFiniteSet(Writing) /\ Cardinality(Writing) \in Nat
         /\ \A t \in Tasks : /\ Cardinality(Writing \cup {t}) <= Cardinality(Writing) + 1
                             /\ Cardinality(Writing \ {t}) <= Cardinality(Writing)
                             /\ t \in Writing => Cardinality(Writing \ {t}) = Cardinality(Writing) - 1
                             /\ Cardinality(Writing \cup {t}) \in Nat /\ Cardinality(Writing \ {t}) \in Nat
<1>1. IsFiniteSet(Writing)
  <2>1. Writing \subseteq Tasks
    BY ZenonT(60) DEF Writing
  <2> QED
    BY <2>1, FS_Subset, ZenonT(60) DEF SaversAssumption, saver!SaverAssumption
<1>2. Cardinality(Writing) \in Nat
  BY <1>1, FS_CardinalityType, ZenonT(60)
<1>3. ASSUME NEW t \in Tasks
      PROVE  /\ IsFiniteSet(Writing \cup {t}) /\ IsFiniteSet(Writing \ {t})
             /\ Cardinality(Writing \cup {t}) = IF t \in Writing THEN Cardinality(Writing) ELSE Cardinality(Writing) + 1
             /\ Cardinality(Writing \ {t}) = IF t \in Writing THEN Cardinality(Writing) - 1 ELSE Cardinality(Writing)
  BY <1>1, FS_AddElement, FS_RemoveElement, ZenonT(60)
<1>4. ASSUME NEW t \in Tasks
      PROVE  Cardinality(Writing \cup {t}) \in Nat /\ Cardinality(Writing \ {t}) \in Nat
  BY <1>3, FS_CardinalityType, ZenonT(60)
<1>5. ASSUME NEW t \in Tasks
      PROVE  /\ Cardinality(Writing \cup {t}) <= Cardinality(Writing) + 1
             /\ Cardinality(Writing \ {t}) <= Cardinality(Writing)
             /\ t \in Writing => Cardinality(Writing \ {t}) = Cardinality(Writing) - 1
  BY <1>2, <1>3, SMTT(30)
<1> QED
  BY <1>1, <1>2, <1>4, <1>5, ZenonT(60)

(* What the steps of a writer do to the calls. *)
Moved(t, b, d) ==
    /\ busy'[t] = b /\ doing'[t] = d
    /\ \A u \in Tasks \ {t} : busy'[u] = busy[u] /\ doing'[u] = doing[u]
SaverCalls == {"write", "close", "cancel"}

\* What the steps of a writer do to the task that takes them.
LEMMA SaverTypes ==
  ASSUME SaversAssumption, saver!TypeOK
  PROVE  /\ \A t \in Tasks, c \in SaverCalls : saver!Ask(t, c) => Moved(t, "lock", c) /\ busy[t] = "idle"
         /\ \A t \in Tasks, a \in {"ok", "error", "closed"} : saver!Told(t, a) => Moved(t, "idle", doing[t])
         /\ \A t \in Tasks : saver!Lock(t) => Moved(t, "sdk", doing[t])
         /\ \A t \in Tasks : saver!close(t) => Moved(t, "idle", doing[t])
         /\ \A t \in Tasks, c \in SaverCalls : saver!Ask(t, c) =>
              /\ busy' \in [Tasks -> {"idle", "lock", "sdk"}]
              /\ doing' \in [Tasks -> {"none", "write", "close", "cancel"}]
              /\ told' \in [Tasks -> {"none", "ok", "error", "closed"}]
         /\ \A t \in Tasks, a \in {"ok", "error", "closed"} : saver!Told(t, a) =>
              /\ busy' \in [Tasks -> {"idle", "lock", "sdk"}] /\ doing' = doing
              /\ told' \in [Tasks -> {"none", "ok", "error", "closed"}]
<1>1. /\ busy \in [Tasks -> {"idle", "lock", "sdk"}]
      /\ doing \in [Tasks -> {"none", "write", "close", "cancel"}]
      /\ told \in [Tasks -> {"none", "ok", "error", "closed"}]
  BY ZenonT(60) DEF saver!TypeOK
<1>2. ASSUME NEW t \in Tasks, NEW c \in SaverCalls, saver!Ask(t, c)
      PROVE  /\ Moved(t, "lock", c) /\ busy[t] = "idle"
             /\ busy' \in [Tasks -> {"idle", "lock", "sdk"}]
             /\ doing' \in [Tasks -> {"none", "write", "close", "cancel"}]
             /\ told' \in [Tasks -> {"none", "ok", "error", "closed"}]
  BY <1>1, <1>2 DEF saver!Ask, Moved, SaverCalls
<1>3. ASSUME NEW t \in Tasks, NEW a \in {"ok", "error", "closed"}, saver!Told(t, a)
      PROVE  /\ Moved(t, "idle", doing[t]) /\ doing' = doing
             /\ busy' \in [Tasks -> {"idle", "lock", "sdk"}]
             /\ told' \in [Tasks -> {"none", "ok", "error", "closed"}]
  BY <1>1, <1>3 DEF saver!Told, Moved
<1>4. ASSUME NEW t \in Tasks, saver!Lock(t) \/ saver!close(t)
      PROVE  /\ saver!Lock(t) => Moved(t, "sdk", doing[t])
             /\ saver!close(t) => Moved(t, "idle", doing[t])
  BY <1>1, <1>4 DEF saver!Lock, saver!close, Moved
<1> QED
  BY <1>2, <1>3, <1>4, ZenonT(60)

(* A step of one task, by what it does to the mutex and the file. *)
LEMMA SaverStep ==
  ASSUME SaversAssumption
  PROVE  SaverInv /\ [saver!Next]_saver!vars => SaverInv'
<1> SUFFICES ASSUME SaverInv, [saver!Next]_saver!vars PROVE SaverInv'
  OBVIOUS
<1>1. saver!TypeOK /\ OneInside /\ Closers /\ Counted
  BY ZenonT(60) DEF SaverInv
<1>0. \A t \in Tasks :
         /\ Cardinality(Writing \cup {t}) <= Cardinality(Writing) + 1
         /\ Cardinality(Writing \ {t}) <= Cardinality(Writing)
         /\ t \in Writing => Cardinality(Writing \ {t}) = Cardinality(Writing) - 1
         /\ Cardinality(Writing \cup {t}) \in Nat /\ Cardinality(Writing \ {t}) \in Nat
  BY WritingFinite, ZenonT(60)
<1>2. /\ data \in Nat /\ asked \in Nat /\ Cardinality(Writing) \in Nat /\ MaxData \in Nat
      /\ data <= asked /\ (Writing # {} => data + 1 <= asked) /\ asked <= MaxData
      /\ broken \in Nat /\ MaxBroken \in Nat /\ size \in 0 .. MaxData /\ broken <= MaxBroken
  <2>1. Writing # {} => Cardinality(Writing) # 0
    BY WritingFinite, FS_EmptySet, ZenonT(60)
  <2> QED
    BY <1>1, <2>1, WritingFinite DEF saver!TypeOK, Counted, SaversAssumption, saver!SaverAssumption
<1>3. /\ kind \in {"AsyncFileWriter", "FileWriter"} /\ slot \in BOOLEAN /\ explicit \in BOOLEAN
      /\ guard \in Tasks \cup {saver!Nobody} /\ saver!Nobody \notin Tasks
      /\ busy \in [Tasks -> {"idle", "lock", "sdk"}]
      /\ doing \in [Tasks -> {"none", "write", "close", "cancel"}]
      /\ told \in [Tasks -> {"none", "ok", "error", "closed"}]
      /\ file \in {"open", "complete", "discarded"} /\ body \in {"in", "left", "raised"}
  BY <1>1, ZenonT(60) DEF saver!TypeOK, SaversAssumption, saver!SaverAssumption
\* A call begins.
<1>4. ASSUME NEW t \in Tasks, NEW c \in SaverCalls, saver!Ask(t, c), asked \in Nat, asked' \in Nat,
             asked' <= MaxData, asked <= asked', c = "write" => asked' = asked + 1,
             explicit' \in BOOLEAN, explicit => explicit', body' \in {"in", "left", "raised"},
             body = "left" => body' = "left", c = "close" => explicit' \/ body' = "left"
      PROVE  SaverInv'
  <2>1. /\ busy' \in [Tasks -> {"idle", "lock", "sdk"}]
        /\ doing' \in [Tasks -> {"none", "write", "close", "cancel"}]
        /\ told' \in [Tasks -> {"none", "ok", "error", "closed"}]
        /\ Moved(t, "lock", c) /\ busy[t] = "idle"
    BY <1>1, <1>4, SaverTypes, ZenonT(60)
  <2>2. UNCHANGED <<kind, slot, guard, file, data, size, broken>>
    BY <1>4, ZenonT(60) DEF saver!Ask
  <2>3. asked' \in 0 .. MaxData
    BY <1>2, <1>4
  <2>4. saver!TypeOK'
    BY <1>1, <1>4, <2>1, <2>2, <2>3, ZenonT(60) DEF saver!TypeOK
  <2>5. OneInside'
    BY <1>1, <1>3, <2>1, <2>2, ZenonT(60) DEF OneInside, Moved
  <2>6. Closers'
    BY <1>1, <1>3, <1>4, <2>1, <2>2, ZenonT(60) DEF Closers, Moved
  <2>7. Writing' = IF c = "write" THEN Writing \cup {t} ELSE Writing
    BY <1>4, <2>1, ZenonT(60) DEF Writing, Moved, SaverCalls
  <2>8. Cardinality(Writing') <= Cardinality(Writing) + (asked' - asked) /\ Cardinality(Writing') \in Nat
    BY <1>0, <1>2, <1>4, <2>7
  <2>9. Counted'
    BY <1>1, <1>2, <1>4, <2>2, <2>8 DEF Counted
  <2> QED
    BY <2>4, <2>5, <2>6, <2>9, ZenonT(60) DEF SaverInv
\* A call returns, or gets hold of the writer.
<1>5. ASSUME NEW t \in Tasks, NEW b \in {"idle", "sdk"}, Moved(t, b, doing[t]), busy[t] # "idle",
             doing' = doing, busy' \in [Tasks -> {"idle", "lock", "sdk"}],
             told' \in [Tasks -> {"none", "ok", "error", "closed"}],
             UNCHANGED <<kind, body, explicit, asked>>,
             data' = data \/ (data' = data + 1 /\ doing[t] = "write" /\ b = "idle"),
             size' \in {size, data}, broken' \in 0 .. MaxBroken,
             file' \in {"open", "complete", "discarded"},
             file' = "complete" => file = "complete" \/ doing[t] = "close",
             guard' \in Tasks \cup {saver!Nobody}, slot' \in BOOLEAN, OneInside'
      PROVE  SaverInv'
  <2>1. data' \in 0 .. MaxData /\ data \in 0 .. MaxData
    <3>1. doing[t] = "write" => Writing # {}
      BY <1>5, ZenonT(60) DEF Writing
    <3> QED
      BY <1>2, <1>5, <3>1
  <2>2. size' \in 0 .. MaxData
    BY <1>2, <1>5, <2>1, ZenonT(60)
  <2>3. saver!TypeOK'
    BY <1>1, <1>5, <2>1, <2>2, ZenonT(60) DEF saver!TypeOK
  <2>4. Closers'
    BY <1>1, <1>5, ZenonT(60) DEF Closers, Moved
  <2>5. Writing' = IF b = "idle" THEN Writing \ {t} ELSE Writing
    <3>1. busy'[t] = b /\ \A u \in Tasks \ {t} : busy'[u] = busy[u]
      BY <1>5, ZenonT(60) DEF Moved
    <3> QED
      BY <1>5, <3>1 DEF Writing
  <2>6. doing[t] = "write" => t \in Writing
    BY <1>5, ZenonT(60) DEF Writing
  <2>7. Cardinality(Writing') \in Nat /\ Cardinality(Writing') <= Cardinality(Writing)
        /\ (b = "idle" /\ doing[t] = "write" => Cardinality(Writing') = Cardinality(Writing) - 1)
    <3>1. /\ Cardinality(Writing \ {t}) \in Nat /\ Cardinality(Writing \ {t}) <= Cardinality(Writing)
          /\ t \in Writing => Cardinality(Writing \ {t}) = Cardinality(Writing) - 1
      BY <1>0, <1>5, ZenonT(60)
    <3>2. CASE b = "idle"
      BY <2>5, <2>6, <3>1, <3>2, ZenonT(60)
    <3>3. CASE b # "idle"
      <4>1. Cardinality(Writing') = Cardinality(Writing)
        BY <2>5, <3>3, ZenonT(60)
      <4> QED
        BY <1>2, <3>3, <4>1
    <3> QED
      BY <3>2, <3>3, ZenonT(60)
  <2>8. Counted'
    BY <1>1, <1>2, <1>5, <2>7 DEF Counted
  <2> QED
    BY <1>5, <2>3, <2>4, <2>8, ZenonT(60) DEF SaverInv
<1>6. ASSUME NEW t \in Tasks, saver!Write(t) \/ saver!exit(t) \/ saver!End(t) PROVE SaverInv'
  <2>0. "write" \in SaverCalls /\ "close" \in SaverCalls /\ "cancel" \in SaverCalls
    BY DEF SaverCalls
  <2>1. CASE saver!Write(t)
    <3>1. asked' = asked + 1 /\ asked < MaxData /\ saver!Ask(t, "write") /\ UNCHANGED <<body, explicit>>
      BY <2>1, ZenonT(60) DEF saver!Write
    <3>2. asked' \in Nat /\ asked' <= MaxData /\ asked <= asked'
      BY <1>2, <3>1
    <3> QED
      BY <1>2, <1>3, <1>4, <2>0, <3>1, <3>2, ZenonT(60)
  <2>2. CASE saver!exit(t)
    <3>1. asked <= asked
      BY <1>2
    <3>2. body = "in" /\ asked' = asked /\ explicit' = explicit
          /\ ((body' = "left" /\ saver!Ask(t, "close")) \/ (body' = "raised" /\ saver!Ask(t, "cancel")))
      BY <2>2, ZenonT(60) DEF saver!exit
    <3>3. CASE body' = "left" /\ saver!Ask(t, "close")
      BY <1>2, <1>3, <1>4, <2>0, <3>1, <3>2, <3>3, ZenonT(60)
    <3>4. CASE body' = "raised" /\ saver!Ask(t, "cancel")
      BY <1>2, <1>3, <1>4, <2>0, <3>1, <3>2, <3>4, ZenonT(60)
    <3> QED
      BY <3>2, <3>3, <3>4, ZenonT(60)
  <2>3. CASE saver!End(t)
    <3>1. asked' = asked + 1 /\ asked < MaxData /\ body' = body
      BY <2>3, ZenonT(60) DEF saver!End
    <3>2. asked' \in Nat /\ asked' <= MaxData /\ asked <= asked'
      BY <1>2, <3>1
    <3>3. PICK c \in {"close", "cancel"} : saver!Ask(t, c) /\ explicit' = (explicit \/ c = "close")
      BY <2>3, ZenonT(60) DEF saver!End
    <3>4. explicit' \in BOOLEAN /\ (explicit => explicit') /\ (c = "close" => explicit')
      BY <1>3, <3>3, ZenonT(60)
    <3>5. c \in SaverCalls /\ c # "write"
      BY <2>0, <3>3
    <3> QED
      BY <1>2, <1>3, <1>4, <3>1, <3>2, <3>3, <3>4, <3>5, ZenonT(60)
  <2> QED
    BY <1>6, <2>1, <2>2, <2>3, ZenonT(60)
<1>7. ASSUME NEW t \in Tasks, saver!Lock(t) PROVE SaverInv'
  <2>1. Moved(t, "sdk", doing[t]) /\ busy' \in [Tasks -> {"idle", "lock", "sdk"}]
    BY <1>1, <1>3, <1>7, SaverTypes, ZenonT(60) DEF saver!Lock
  <2>2. /\ guard = saver!Nobody /\ slot /\ guard' = t /\ busy[t] = "lock" /\ slot' = (doing[t] = "write")
        /\ UNCHANGED <<kind, doing, told, file, data, size, body, explicit, asked, broken>>
    BY <1>7, ZenonT(60) DEF saver!Lock
  <2>3. OneInside'
    BY <1>1, <1>3, <2>1, <2>2, ZenonT(60) DEF OneInside, Moved
  <2>4. broken \in 0 .. MaxBroken
    BY <1>2
  <2>5. slot' \in BOOLEAN
    BY <2>2, ZenonT(60)
  <2> QED
    BY <1>3, <1>5, <2>1, <2>2, <2>3, <2>4, <2>5, ZenonT(60)
<1>8. ASSUME NEW t \in Tasks, saver!Taken(t) PROVE SaverInv'
  <2>1. PICK a \in {"ok", "error", "closed"} : saver!Told(t, a)
    BY <1>8, ZenonT(60) DEF saver!Taken
  <2>2. /\ Moved(t, "idle", doing[t]) /\ busy' \in [Tasks -> {"idle", "lock", "sdk"}] /\ doing' = doing
        /\ told' \in [Tasks -> {"none", "ok", "error", "closed"}]
    BY <1>1, <2>1, SaverTypes, ZenonT(60)
  <2>3. /\ busy[t] = "lock" /\ guard = saver!Nobody
        /\ UNCHANGED <<kind, slot, guard, file, data, size, body, explicit, asked, broken>>
    BY <1>8, <2>1, ZenonT(60) DEF saver!Taken, saver!Told
  <2>4. OneInside'
    BY <1>1, <1>3, <2>2, <2>3, ZenonT(60) DEF OneInside, Moved
  <2>5. broken \in 0 .. MaxBroken
    BY <1>2
  <2> QED
    BY <1>3, <1>5, <2>2, <2>3, <2>4, <2>5, ZenonT(60)
<1>9. ASSUME NEW t \in Tasks, saver!write(t) \/ saver!close(t) \/ saver!cancel(t) PROVE SaverInv'
  <2>1. /\ Moved(t, "idle", doing[t]) /\ busy' \in [Tasks -> {"idle", "lock", "sdk"}] /\ doing' = doing
        /\ told' \in [Tasks -> {"none", "ok", "error", "closed"}]
    <3>1. CASE saver!write(t) \/ saver!cancel(t)
      BY <1>1, <3>1, SaverTypes, ZenonT(60) DEF saver!write, saver!cancel
    <3>2. CASE saver!close(t)
      <4>1. Moved(t, "idle", doing[t]) /\ doing' = doing
        BY <1>1, <3>2, SaverTypes, ZenonT(60) DEF saver!close
      <4> QED
        BY <1>3, <3>2, <4>1 DEF saver!close
    <3> QED BY <1>9, <3>1, <3>2, ZenonT(60)
  <2>2. /\ busy[t] = "sdk" /\ guard' = saver!Nobody
        /\ UNCHANGED <<kind, slot, body, explicit, asked, broken>>
        /\ data' = data \/ (data' = data + 1 /\ doing[t] = "write")
        /\ size' \in {size, data}
        /\ \/ doing[t] = "write" /\ file' = file
           \/ doing[t] = "close" /\ file' = "complete"
           \/ doing[t] = "cancel" /\ file' = "discarded"
    BY <1>9, ZenonT(60) DEF saver!write, saver!close, saver!cancel, saver!Told
  <2>3. OneInside'
    <3>1. \A u \in Tasks : busy'[u] # "sdk"
      BY <1>1, <2>1, <2>2, ZenonT(60) DEF OneInside, Moved
    <3>2. slot => doing[t] = "write" /\ file = "open"
      BY <1>1, <2>2, ZenonT(60) DEF OneInside
    <3> QED
      BY <2>2, <3>1, <3>2, ZenonT(60) DEF OneInside
  <2>4. broken \in 0 .. MaxBroken
    BY <1>2
  <2>5. file' \in {"open", "complete", "discarded"} /\ (file' = "complete" => file = "complete" \/ doing[t] = "close")
    BY <1>3, <2>2
  <2> QED
    BY <1>3, <1>5, <2>1, <2>2, <2>3, <2>4, <2>5, ZenonT(60)
<1>10. ASSUME NEW t \in Tasks, saver!sdk_fails(t) PROVE SaverInv'
  <2>1. saver!Told(t, "error")
    BY <1>10, ZenonT(60) DEF saver!sdk_fails
  <2>2. /\ Moved(t, "idle", doing[t]) /\ busy' \in [Tasks -> {"idle", "lock", "sdk"}] /\ doing' = doing
        /\ told' \in [Tasks -> {"none", "ok", "error", "closed"}]
    BY <1>1, <2>1, SaverTypes, ZenonT(60)
  <2>3. /\ (busy[t] = "sdk" /\ guard' = saver!Nobody) \/ (busy[t] = "lock" /\ guard' = guard)
        /\ broken < MaxBroken /\ broken' = broken + 1
        /\ UNCHANGED <<kind, slot, file, data, size, body, explicit, asked>>
    BY <1>10, <2>1, ZenonT(60) DEF saver!sdk_fails, saver!Told
  <2>4. OneInside'
    <3>1. CASE busy[t] = "sdk" /\ guard' = saver!Nobody
      <4>1. \A u \in Tasks : busy'[u] # "sdk"
        BY <1>1, <2>2, <3>1, ZenonT(60) DEF OneInside, Moved
      <4> QED
        BY <1>1, <2>3, <3>1, <4>1, ZenonT(60) DEF OneInside
    <3>2. CASE busy[t] = "lock" /\ guard' = guard
      BY <1>1, <1>3, <2>2, <2>3, <3>2, ZenonT(60) DEF OneInside, Moved
    <3> QED BY <2>3, <3>1, <3>2, ZenonT(60)
  <2>5. broken' \in 0 .. MaxBroken
    BY <1>2, <2>3
  <2> QED
    BY <1>3, <1>5, <2>2, <2>3, <2>4, <2>5, ZenonT(60)
<1>11. CASE UNCHANGED saver!vars
  BY <1>1, <1>11, ZenonT(60) DEF saver!vars, SaverInv, saver!TypeOK, OneInside, Closers, Counted,
     Writing
<1> QED
  BY <1>6, <1>7, <1>8, <1>9, <1>10, <1>11, ZenonT(60) DEF saver!Next, saver!Step, saver!Over

(* What an ended file is spared. *)
LEMMA SaverEnds ==
  ASSUME SaversAssumption
  PROVE  SaverInv /\ [saver!Next]_saver!vars => [saver!StaysEnded]_saver!vars
<1> SUFFICES ASSUME SaverInv, saver!Next, file # "open" PROVE file' = file /\ data' = data
  BY ZenonT(60) DEF saver!StaysEnded
<1>1. \A t \in Tasks : busy[t] # "sdk"
  BY ZenonT(60) DEF SaverInv, OneInside
<1> QED
  BY <1>1, ZenonT(60) DEF saver!Next, saver!Step, saver!Over, saver!vars, saver!Write, saver!exit,
     saver!End, saver!Ask, saver!Lock, saver!Taken, saver!write, saver!close, saver!cancel,
     saver!sdk_fails, saver!Told

\* The inductive invariant gives the types and the with block.
LEMMA SaverRaised ==
  ASSUME SaversAssumption
  PROVE  SaverInv => saver!TypeOK /\ saver!RaisedNeverCommits
  BY ZenonT(60) DEF SaverInv, Closers, saver!RaisedNeverCommits

-----------------------------------------------------------------------------
\* For any number of tasks, sizes, calls and failures: the reads of a Python
\* reader hand out the file in order, none of them twice, and between calls
\* tell() is where the next one starts (AsyncFileReader and FileReader: read,
\* seek, tell; a FileReader by the one thread it is made for).
THEOREM ReadsAreInOrder ==
  ASSUME ReaderAssumption
  PROVE  Spec => [](TypeOK /\ TellExact) /\ ReadsInOrder
<1>1. Init => ReaderInv
  BY ReaderStart
<1>2. ReaderInv /\ [Next]_vars => ReaderInv' /\ [InOrder]_vars
  BY ReaderStep
<1>3. ReaderInv => TypeOK /\ TellExact
  BY ReaderTypes
<1> QED
  BY <1>1, <1>2, <1>3, PTL DEF Spec, ReadsInOrder

\* For any number of tasks, writes and failures: a Python writer ends its file
\* once, and a with block left by an exception does not commit it unless the
\* program itself called close() (AsyncFileWriter and FileWriter: write, close,
\* cancel, __exit__).
THEOREM FileIsEndedOnce ==
  ASSUME SaversAssumption
  PROVE  saver!Spec => [](saver!TypeOK /\ saver!RaisedNeverCommits) /\ saver!EndedOnce
<1>1. saver!Init => SaverInv
  BY SaverStart
<1>2. SaverInv /\ [saver!Next]_saver!vars => SaverInv'
  BY SaverStep
<1>3. SaverInv /\ [saver!Next]_saver!vars => [saver!StaysEnded]_saver!vars
  BY SaverEnds
<1>4. SaverInv => saver!TypeOK /\ saver!RaisedNeverCommits
  BY SaverRaised
<1> QED
  BY <1>1, <1>2, <1>3, <1>4, PTL DEF saver!Spec, saver!EndedOnce
=============================================================================
