---------------------------- MODULE StoreProofs -----------------------------
(***************************************************************************)
(* Proofs about what is kept in files: the raw spool, whose retention      *)
(* never removes a live writer's file, for any number of artifacts, any    *)
(* caps and any interleaving; the trust document, for any number of roots  *)
(* and calls; and the audit log, for any number of requests, rotations and *)
(* lives.                                                                  *)
(***************************************************************************)
EXTENDS RawSpool, TrustStore, AuditSink, FiniteSetTheorems, SequenceTheorems, TLAPS

-----------------------------------------------------------------------------
(* The raw spool                                                           *)

(* The maintenance lock: the call between its retention and its last audit *)
(* record is the one that holds it, and while it prunes, its clone of the  *)
(* active set covers every live writer.                                    *)
LockInv ==
  /\ \A a \in Artifacts : create[a] \in {"pruning", "fitting", "created"} <=> holder = a
  /\ \A a \in Artifacts : create[a] \in {"pruning", "fitting"} => active \subseteq snapshot

SpoolInv == TypeOK /\ LockInv /\ ActiveIsKept

LEMMA SpoolInit == Init => SpoolInv
  BY CapAssumption, TimeAssumption, NobodyAssumption
  DEF Init, SpoolInv, TypeOK, LockInv, ActiveIsKept, CreateStates

(* Every state of the spool is well typed; a file never outgrows its cap.  *)
LEMMA SpoolTypeStep == TypeOK /\ [Next]_vars => TypeOK'
<1> SUFFICES ASSUME TypeOK, [Next]_vars PROVE TypeOK'
  OBVIOUS
<1> USE CapAssumption, TimeAssumption, NobodyAssumption
    DEF TypeOK, CreateStates, Step, Release, files
<1>1. ASSUME NEW a \in Artifacts, BeginCreate(a) PROVE TypeOK'
  BY <1>1 DEF BeginCreate
<1>2. ASSUME NEW a \in Artifacts, RemoveExpired(a) PROVE TypeOK'
  BY <1>2 DEF RemoveExpired
<1>3. ASSUME NEW a \in Artifacts, RemoveOldest(a) PROVE TypeOK'
  BY <1>3 DEF RemoveOldest
<1>4. ASSUME NEW a \in Artifacts, RefuseCreate(a) \/ CreateFileFails(a) \/ CreateFile(a) \/ FinishCreate(a)
      PROVE TypeOK'
  BY <1>4 DEF RefuseCreate, CreateFileFails, CreateFile, FinishCreate
<1>5. ASSUME NEW a \in Artifacts, WriteSource(a) PROVE TypeOK'
  BY <1>5 DEF WriteSource, Acceptable
<1>6. ASSUME NEW a \in Artifacts, DropWriter(a) PROVE TypeOK'
  BY <1>6 DEF DropWriter
<1>7. CASE AuditBreaks \/ Tick \/ Restart
  BY <1>7 DEF AuditBreaks, Tick, Restart
<1>8. CASE UNCHANGED vars
  BY <1>8 DEF vars
<1> QED
  BY <1>1, <1>2, <1>3, <1>4, <1>5, <1>6, <1>7, <1>8 DEF Next, Create

(* The lock and the clone of the active set do what retention relies on.   *)
LEMMA LockStep == SpoolInv /\ [Next]_vars => LockInv' /\ ActiveIsKept'
<1> SUFFICES ASSUME SpoolInv, [Next]_vars PROVE LockInv' /\ ActiveIsKept'
  OBVIOUS
<1> USE NobodyAssumption DEF SpoolInv, TypeOK, LockInv, ActiveIsKept, CreateStates, Step, Release,
                             files
<1>1. ASSUME NEW a \in Artifacts, BeginCreate(a) PROVE LockInv' /\ ActiveIsKept'
  BY <1>1 DEF BeginCreate, LockFree
<1>2. ASSUME NEW a \in Artifacts, RemoveExpired(a) PROVE LockInv' /\ ActiveIsKept'
  BY <1>2 DEF RemoveExpired, Expired, Completed
<1>3. ASSUME NEW a \in Artifacts, RemoveOldest(a) PROVE LockInv' /\ ActiveIsKept'
  BY <1>3 DEF RemoveOldest, OldestOf, Completed
<1>4. ASSUME NEW a \in Artifacts, RefuseCreate(a) \/ CreateFileFails(a)
      PROVE LockInv' /\ ActiveIsKept'
  BY <1>4 DEF RefuseCreate, CreateFileFails
<1>5. ASSUME NEW a \in Artifacts, CreateFile(a) PROVE LockInv' /\ ActiveIsKept'
  BY <1>5 DEF CreateFile
<1>6. ASSUME NEW a \in Artifacts, FinishCreate(a) PROVE LockInv' /\ ActiveIsKept'
  BY <1>6 DEF FinishCreate
<1>7. ASSUME NEW a \in Artifacts, WriteSource(a) \/ DropWriter(a)
      PROVE LockInv' /\ ActiveIsKept'
  BY <1>7 DEF WriteSource, DropWriter
<1>8. CASE AuditBreaks \/ Tick
  BY <1>8 DEF AuditBreaks, Tick
<1>9. CASE Restart
  BY <1>9 DEF Restart
<1>10. CASE UNCHANGED vars
  BY <1>10 DEF vars
<1> QED
  BY <1>1, <1>2, <1>3, <1>4, <1>5, <1>6, <1>7, <1>8, <1>9, <1>10 DEF Next, Create

LEMMA SpoolInductive == Safety => []SpoolInv
<1>1. SpoolInv /\ [Next]_vars => SpoolInv'
  BY SpoolTypeStep, LockStep DEF SpoolInv
<1> QED
  BY <1>1, SpoolInit, PTL DEF Safety

(* Every state of the spool is well typed.                                 *)
THEOREM SpoolTypeCorrect == Safety => []TypeOK
<1>1. SpoolInv => TypeOK
  BY DEF SpoolInv
<1> QED
  BY <1>1, SpoolInductive, PTL

(* The file of a live writer is never removed.                             *)
THEOREM LiveFilesAreKept == Safety => []ActiveIsKept
<1>1. SpoolInv => ActiveIsKept
  BY DEF SpoolInv
<1> QED
  BY <1>1, SpoolInductive, PTL

(* A file only vanishes for one of the three documented reasons.           *)
THEOREM RetentionJustified == Safety => RetentionIsJustified
<1> DEFINE Justified(a) == \/ now - mtime[a] >= Ttl
                           \/ create[a] = "created"
                           \/ /\ Projected > Target
                              /\ \A b \in Completed : mtime[a] <= mtime[b]
<1>1. SpoolInv /\ [Next]_vars => [\A a \in Artifacts : Vanishes(a) => Justified(a)]_vars
  <2> SUFFICES ASSUME SpoolInv, Next, NEW a \in Artifacts, Vanishes(a) PROVE Justified(a)
    OBVIOUS
  <2> USE DEF Vanishes, files
  <2>1. ASSUME NEW c \in Artifacts, RemoveExpired(c) PROVE Justified(a)
    BY <2>1 DEF RemoveExpired, Expired
  <2>2. ASSUME NEW c \in Artifacts, RemoveOldest(c) PROVE Justified(a)
    BY <2>2 DEF RemoveOldest, OldestOf
  <2>3. ASSUME NEW c \in Artifacts, FinishCreate(c) PROVE Justified(a)
    BY <2>3 DEF FinishCreate, Step
  <2>4. ASSUME NEW c \in Artifacts,
               \/ BeginCreate(c) \/ RefuseCreate(c) \/ CreateFileFails(c)
               \/ CreateFile(c) \/ WriteSource(c) \/ DropWriter(c)
        PROVE FALSE
    BY <2>4 DEF BeginCreate, RefuseCreate, CreateFileFails, CreateFile, WriteSource, DropWriter
  <2>5. CASE AuditBreaks \/ Tick \/ Restart
    BY <2>5 DEF AuditBreaks, Tick, Restart
  <2> QED
    BY <2>1, <2>2, <2>3, <2>4, <2>5 DEF Next, Create
<1> QED
  BY <1>1, SpoolInductive, PTL DEF Safety, RetentionIsJustified
-----------------------------------------------------------------------------
(* Sums over finite sets                                                   *)

(* Induction over a finite set, without a predicate: a set of sets that    *)
(* has every set all of whose proper subsets it has, has every set.        *)
LEMMA SubsetInduction ==
  ASSUME NEW S, IsFiniteSet(S), NEW G,
         \A T \in SUBSET S : (\A U \in SUBSET T : U # T => U \in G) => T \in G
  PROVE  S \in G
<1> SUFFICES ASSUME S \notin G PROVE FALSE
  OBVIOUS
<1> DEFINE bad == {T \in SUBSET S : T \notin G}
<1>1. IsWellFoundedOn(StrictSubsetOrdering(S), SUBSET S)
  <2>1. FiniteSubsetsOf(S) = SUBSET S
    BY FS_FiniteSubsetsOfFinite
  <2>2. IsWellFoundedOn(StrictSubsetOrdering(S), FiniteSubsetsOf(S))
    BY FS_StrictSubsetOrderingWellFounded
  <2> QED
    BY <2>1, <2>2
<1>2. bad \subseteq SUBSET S /\ bad # {}
  OBVIOUS
<1>3. PICK T \in bad : \A U \in bad : <<U, T>> \notin StrictSubsetOrdering(S)
  <2> HIDE DEF bad
  <2> QED
    BY <1>1, <1>2, WFMin
<1>4. ASSUME NEW U \in SUBSET T, U # T PROVE U \in G
  <2>1. <<U, T>> \in StrictSubsetOrdering(S)
    BY <1>4 DEF StrictSubsetOrdering
  <2> QED
    BY <1>3, <2>1
<1> QED
  BY <1>4

(* The sum as the community modules define it: a recursive function on the *)
(* subsets, which takes out an element it chooses.                         *)
Chosen(s) == CHOOSE x \in s : TRUE
Sum(f, S) == MapThenSumSet(LAMBDA a : f[a], S)
Adds(f, S, g) == g = [s \in SUBSET S |-> IF s = {} THEN 0 ELSE f[Chosen(s)] + g[s \ {Chosen(s)}]]
TheSums(f, S) == CHOOSE g : Adds(f, S, g)

LEMMA SumIs == ASSUME NEW f, NEW S PROVE Sum(f, S) = TheSums(f, S)[S]
  BY DEF Sum, MapThenSumSet, MapThenFoldSet, TheSums, Adds, Chosen

LEMMA ChosenIn == ASSUME NEW s, s # {} PROVE Chosen(s) \in s
  BY DEF Chosen

(* Two such functions agree, and there is one.                             *)
LEMMA AddsUnique ==
  ASSUME NEW f, NEW S, NEW T, IsFiniteSet(T), T \subseteq S, NEW g, NEW h, Adds(f, S, g), Adds(f, T, h)
  PROVE  g[T] = h[T]
<1> DEFINE G == {U \in SUBSET T : g[U] = h[U]}
<1>1. ASSUME NEW U \in SUBSET T, \A V \in SUBSET U : V # U => V \in G PROVE U \in G
  <2>1. g[U] = (IF U = {} THEN 0 ELSE f[Chosen(U)] + g[U \ {Chosen(U)}])
    BY DEF Adds
  <2>2. h[U] = (IF U = {} THEN 0 ELSE f[Chosen(U)] + h[U \ {Chosen(U)}])
    BY DEF Adds
  <2>3. U # {} => U \ {Chosen(U)} \in G
    BY <1>1, ChosenIn
  <2> QED
    BY <2>1, <2>2, <2>3
<1>2. T \in G
  <2> HIDE DEF G
  <2> QED
    BY <1>1, SubsetInduction
<1> QED
  BY <1>2

LEMMA AddsExist == ASSUME NEW f, NEW S, IsFiniteSet(S) PROVE Adds(f, S, TheSums(f, S))
<1> DEFINE G == {T \in SUBSET S : Adds(f, T, TheSums(f, T))}
<1>1. ASSUME NEW T \in SUBSET S, \A U \in SUBSET T : U # T => U \in G PROVE T \in G
  <2> DEFINE rest(s) == s \ {Chosen(s)}
             g == [s \in SUBSET T |-> IF s = {} THEN 0 ELSE f[Chosen(s)] + TheSums(f, rest(s))[rest(s)]]
  <2>1. ASSUME NEW s \in SUBSET T, s # {} PROVE g[rest(s)] = TheSums(f, rest(s))[rest(s)]
    <3> DEFINE V == rest(s)
    <3>1. V \in SUBSET T /\ V # T
      BY <2>1, ChosenIn
    <3>2. Adds(f, V, TheSums(f, V))
      BY <1>1, <3>1
    <3>3. TheSums(f, V)[V] = (IF V = {} THEN 0 ELSE f[Chosen(V)] + TheSums(f, V)[rest(V)])
      BY <3>2 DEF Adds
    <3>4. V # {} => TheSums(f, V)[rest(V)] = TheSums(f, rest(V))[rest(V)]
      <4> SUFFICES ASSUME V # {} PROVE TheSums(f, V)[rest(V)] = TheSums(f, rest(V))[rest(V)]
        OBVIOUS
      <4>1. rest(V) \in SUBSET T /\ rest(V) # T
        BY <3>1
      <4>2. Adds(f, rest(V), TheSums(f, rest(V)))
        BY <1>1, <4>1
      <4>3. IsFiniteSet(rest(V)) /\ rest(V) \subseteq V
        BY <4>1, FS_Subset
      <4> QED
        BY <3>2, <4>2, <4>3, AddsUnique
    <3>5. g[V] = (IF V = {} THEN 0 ELSE f[Chosen(V)] + TheSums(f, rest(V))[rest(V)])
      BY <3>1
    <3> QED
      BY <3>3, <3>4, <3>5
  <2>2. g = [s \in SUBSET T |-> IF s = {} THEN 0 ELSE f[Chosen(s)] + g[rest(s)]]
    BY <2>1
  <2>3. Adds(f, T, g)
    <3> HIDE DEF g
    <3> QED
      BY <2>2 DEF Adds
  <2>4. Adds(f, T, TheSums(f, T))
    <3> HIDE DEF g
    <3> QED
      BY <2>3 DEF TheSums
  <2> QED
    BY <2>4
<1>2. S \in G
  <2> HIDE DEF G
  <2> QED
    BY <1>1, SubsetInduction
<1> QED
  BY <1>2

(* The sum over a finite set, one element at a time.                       *)
LEMMA SumEmpty == ASSUME NEW f PROVE Sum(f, {}) = 0
<1>1. Adds(f, {}, TheSums(f, {}))
  BY AddsExist, FS_EmptySet
<1> QED
  BY <1>1, SumIs DEF Adds

LEMMA SumChosen ==
  ASSUME NEW f, NEW S, IsFiniteSet(S), S # {}
  PROVE  Sum(f, S) = f[Chosen(S)] + Sum(f, S \ {Chosen(S)})
<1> DEFINE T == S \ {Chosen(S)}
<1>1. Adds(f, S, TheSums(f, S)) /\ IsFiniteSet(T)
  BY AddsExist, FS_Subset
<1>2. Adds(f, T, TheSums(f, T))
  BY <1>1, AddsExist
<1>3. TheSums(f, S)[T] = TheSums(f, T)[T]
  BY <1>1, <1>2, AddsUnique
<1>4. TheSums(f, S)[S] = f[Chosen(S)] + TheSums(f, S)[T]
  BY <1>1 DEF Adds
<1> QED
  BY <1>3, <1>4, SumIs

LEMMA SumType ==
  ASSUME NEW f, NEW S, IsFiniteSet(S), \A x \in S : f[x] \in Nat
  PROVE  Sum(f, S) \in Nat
<1> DEFINE G == {T \in SUBSET S : Sum(f, T) \in Nat}
<1>1. ASSUME NEW T \in SUBSET S, \A U \in SUBSET T : U # T => U \in G PROVE T \in G
  <2>1. CASE T = {}
    BY <2>1, SumEmpty
  <2>2. CASE T # {}
    <3>1. Chosen(T) \in T /\ IsFiniteSet(T)
      BY <2>2, ChosenIn, FS_Subset
    <3>2. T \ {Chosen(T)} \in G /\ f[Chosen(T)] \in Nat
      BY <1>1, <3>1
    <3>3. Sum(f, T) = f[Chosen(T)] + Sum(f, T \ {Chosen(T)})
      BY <2>2, <3>1, SumChosen
    <3> QED
      BY <3>2, <3>3
  <2> QED
    BY <2>1, <2>2
<1>2. S \in G
  <2> HIDE DEF G
  <2> QED
    BY <1>1, SubsetInduction
<1> QED
  BY <1>2

(* Any element may be the one that is taken out.                           *)
LEMMA SumRemove ==
  ASSUME NEW f, NEW S, IsFiniteSet(S), \A x \in S : f[x] \in Nat
  PROVE  \A x \in S : Sum(f, S) = f[x] + Sum(f, S \ {x})
<1> DEFINE G == {T \in SUBSET S : \A x \in T : Sum(f, T) = f[x] + Sum(f, T \ {x})}
<1>1. ASSUME NEW T \in SUBSET S, \A U \in SUBSET T : U # T => U \in G PROVE T \in G
  <2> SUFFICES ASSUME NEW x \in T PROVE Sum(f, T) = f[x] + Sum(f, T \ {x})
    OBVIOUS
  <2> DEFINE c == Chosen(T)
  <2>1. c \in T /\ \A U \in SUBSET T : IsFiniteSet(U) /\ Sum(f, U) \in Nat
    BY ChosenIn, FS_Subset, SumType
  <2>2. Sum(f, T) = f[c] + Sum(f, T \ {c})
    BY <2>1, SumChosen
  <2>3. CASE c = x
    BY <2>2, <2>3
  <2>4. CASE c # x
    <3> DEFINE both == T \ {c, x}
    <3>1. T \ {c} \in G /\ T \ {x} \in G
      BY <1>1, <2>1
    <3> HIDE DEF c
    <3>2. (T \ {c}) \ {x} = both /\ (T \ {x}) \ {c} = both
      OBVIOUS
    <3>3. Sum(f, T \ {c}) = f[x] + Sum(f, both)
      BY <2>4, <3>1, <3>2
    <3>4. Sum(f, T \ {x}) = f[c] + Sum(f, both)
      BY <2>1, <2>4, <3>1, <3>2
    <3>5. f[c] \in Nat /\ f[x] \in Nat /\ Sum(f, both) \in Nat
      BY <2>1
    <3> QED
      BY <2>2, <3>3, <3>4, <3>5
  <2> QED
    BY <2>3, <2>4
<1>2. S \in G
  <2> HIDE DEF G
  <2> QED
    BY <1>1, SubsetInduction
<1> QED
  BY <1>2

(* The sum depends on the summands only, grows by at most c for each, and  *)
(* the sum over a set is that over its parts.                              *)
LEMMA SumSame ==
  ASSUME NEW f, NEW g, NEW S, IsFiniteSet(S), \A x \in S : f[x] = g[x]
  PROVE  Sum(f, S) = Sum(g, S)
<1> DEFINE G == {T \in SUBSET S : Sum(f, T) = Sum(g, T)}
<1>1. ASSUME NEW T \in SUBSET S, \A U \in SUBSET T : U # T => U \in G PROVE T \in G
  <2>1. CASE T = {}
    BY <2>1, SumEmpty
  <2>2. CASE T # {}
    <3>1. Chosen(T) \in T /\ IsFiniteSet(T)
      BY <2>2, ChosenIn, FS_Subset
    <3>2. T \ {Chosen(T)} \in G /\ f[Chosen(T)] = g[Chosen(T)]
      BY <1>1, <3>1
    <3>3. Sum(f, T) = f[Chosen(T)] + Sum(f, T \ {Chosen(T)})
      BY <2>2, <3>1, SumChosen
    <3>4. Sum(g, T) = g[Chosen(T)] + Sum(g, T \ {Chosen(T)})
      BY <2>2, <3>1, SumChosen
    <3> QED
      BY <3>2, <3>3, <3>4
  <2> QED
    BY <2>1, <2>2
<1>2. S \in G
  <2> HIDE DEF G
  <2> QED
    BY <1>1, SubsetInduction
<1> QED
  BY <1>2

LEMMA SumBound ==
  ASSUME NEW f, NEW S, IsFiniteSet(S), NEW c \in Nat, \A x \in S : f[x] \in 0..c
  PROVE  Sum(f, S) <= Cardinality(S) * c
<1> DEFINE G == {T \in SUBSET S : Sum(f, T) <= Cardinality(T) * c}
<1>1. ASSUME NEW T \in SUBSET S, \A U \in SUBSET T : U # T => U \in G PROVE T \in G
  <2>1. CASE T = {}
    BY <2>1, SumEmpty, FS_EmptySet
  <2>2. CASE T # {}
    <3> DEFINE x == Chosen(T)
               U == T \ {x}
    <3>1. x \in T /\ IsFiniteSet(T) /\ IsFiniteSet(U)
      BY <2>2, ChosenIn, FS_Subset
    <3>2. Sum(f, U) <= Cardinality(U) * c /\ f[x] \in 0..c
      BY <1>1, <3>1
    <3>3. Sum(f, T) = f[x] + Sum(f, U)
      BY <2>2, <3>1, SumChosen
    <3>4. Cardinality(T) = Cardinality(U) + 1 /\ Cardinality(U) \in Nat
      BY <3>1, FS_RemoveElement, FS_CardinalityType
    <3>5. PICK n \in Nat : n = Cardinality(U)
      BY <3>4
    <3>6. (n + 1) * c = n * c + c /\ n * c \in Nat
      BY <3>5
    <3>7. Sum(f, U) \in Nat
      BY <3>1, SumType
    <3> HIDE DEF U, x
    <3>8. Sum(f, T) <= (n + 1) * c
      BY <3>2, <3>3, <3>5, <3>6, <3>7
    <3> QED
      BY <3>4, <3>5, <3>8
  <2> QED
    BY <2>1, <2>2
<1>2. S \in G
  <2> HIDE DEF G
  <2> QED
    BY <1>1, SubsetInduction
<1> QED
  BY <1>2

LEMMA SumUnion ==
  ASSUME NEW f, NEW S, NEW T, IsFiniteSet(S), IsFiniteSet(T), S \intersect T = {},
         \A x \in S \union T : f[x] \in Nat
  PROVE  Sum(f, S \union T) = Sum(f, S) + Sum(f, T)
<1> DEFINE G == {U \in SUBSET S : Sum(f, U \union T) = Sum(f, U) + Sum(f, T)}
<1>1. ASSUME NEW U \in SUBSET S, \A V \in SUBSET U : V # U => V \in G PROVE U \in G
  <2>1. \A V \in SUBSET S : IsFiniteSet(V \union T) /\ IsFiniteSet(V) /\ Sum(f, V) \in Nat
    BY FS_Subset, FS_Union, SumType
  <2>2. Sum(f, T) \in Nat
    BY SumType
  <2>3. CASE U = {}
    BY <2>2, <2>3, SumEmpty
  <2>4. CASE U # {}
    <3> DEFINE V == U \ {Chosen(U)}
    <3>1. Chosen(U) \in U
      BY <2>4, ChosenIn
    <3>2. Sum(f, V \union T) = Sum(f, V) + Sum(f, T)
      BY <1>1, <3>1
    <3>3. Sum(f, U) = f[Chosen(U)] + Sum(f, V)
      BY <2>1, <2>4, SumChosen
    <3>4. Sum(f, U \union T) = f[Chosen(U)] + Sum(f, (U \union T) \ {Chosen(U)})
      <4>1. Chosen(U) \in U \union T /\ IsFiniteSet(U \union T) /\ \A x \in U \union T : f[x] \in Nat
        BY <2>1, <3>1
      <4> QED
        BY <4>1, SumRemove
    <3>5. (U \union T) \ {Chosen(U)} = V \union T
      BY <3>1
    <3>6. f[Chosen(U)] \in Nat /\ Sum(f, V) \in Nat
      BY <2>1, <3>1
    <3> QED
      BY <2>2, <3>2, <3>3, <3>4, <3>5, <3>6
  <2> QED
    BY <2>3, <2>4
<1>2. S \in G
  <2> HIDE DEF G
  <2> QED
    BY <1>1, SubsetInduction
<1> QED
  BY <1>2

(* A smaller set has a smaller sum.                                        *)
LEMMA SumMonotone ==
  ASSUME NEW f, NEW S, IsFiniteSet(S), NEW T \in SUBSET S, \A x \in S : f[x] \in Nat
  PROVE  Sum(f, T) <= Sum(f, S)
<1>1. IsFiniteSet(T) /\ IsFiniteSet(S \ T)
  BY FS_Subset
<1>2. Sum(f, T \union (S \ T)) = Sum(f, T) + Sum(f, S \ T)
  BY <1>1, SumUnion
<1>3. T \union (S \ T) = S
  OBVIOUS
<1>4. Sum(f, S) = Sum(f, T) + Sum(f, S \ T)
  BY <1>2, <1>3
<1>5. PICK m \in Nat, n \in Nat : m = Sum(f, T) /\ n = Sum(f, S \ T)
  BY <1>1, SumType
<1> QED
  BY <1>4, <1>5

-----------------------------------------------------------------------------
(* The aggregate cap of the spool                                          *)

(* Before it has created its file a call has written nothing, and the one  *)
(* that may write is active; what is on disk is finite.                    *)
QuotaInv ==
  /\ IsFiniteSet(present) /\ IsFiniteSet(snapshot)
  /\ \A a \in Artifacts : create[a] \in {"idle", "pruning", "fitting"} => a \notin present /\ size[a] = 0
  /\ \A a \in Artifacts : create[a] \in {"created", "open"} => a \in active
  /\ AggregateIsRespected

Quota == Sum(size, present \ active) + Cardinality(active) * SourceCap

LEMMA BytesAreSums ==
  /\ \A S : Bytes(S) = Sum(size, S)
  /\ AggregateIsRespected <=> Quota <= AggregateCap
<1>1. \A S : Bytes(S) = Sum(size, S)
  BY DEF Bytes, Sum
<1> QED
  BY <1>1 DEF AggregateIsRespected, Quota

LEMMA BytesThen ==
  AggregateIsRespected' <=>
    Sum(size', present' \ active') + Cardinality(active') * SourceCap <= AggregateCap
<1>1. AggregateIsRespected <=> Quota <= AggregateCap
  BY BytesAreSums
<1>2. AggregateIsRespected' <=> (Quota <= AggregateCap)'
  BY <1>1, PTL
<1> QED
  BY <1>2 DEF Quota

LEMMA QuotaStarts == Init => QuotaInv
<1> SUFFICES ASSUME Init PROVE QuotaInv
  OBVIOUS
<1>1. present \ active = {} /\ Cardinality(active) = 0 /\ IsFiniteSet(present) /\ IsFiniteSet(snapshot)
  BY FS_EmptySet DEF Init
<1>2. Quota = 0
  BY <1>1, SumEmpty, CapAssumption DEF Quota
<1>3. AggregateIsRespected
  BY <1>2, BytesAreSums, CapAssumption
<1> QED
  BY <1>1, <1>3 DEF QuotaInv, Init

LEMMA ProductsGrow ==
  ASSUME NEW m \in Nat, NEW k \in Nat, NEW l \in Nat, l <= k, NEW c \in Nat
  PROVE  /\ (m + k) * c = m * c + k * c /\ l * c <= k * c /\ (m + 1) * c = m * c + c
         /\ m * c \in Nat /\ k * c \in Nat /\ l * c \in Nat
<1>1. k - l \in Nat /\ k = l + (k - l)
  OBVIOUS
<1>2. PICK j \in Nat : k = l + j
  BY <1>1
<1>3. k * c = l * c + j * c /\ j * c \in Nat /\ l * c \in Nat
  BY <1>2
<1>4. (m + k) * c = m * c + k * c /\ (m + 1) * c = m * c + c /\ m * c \in Nat
  OBVIOUS
<1> QED
  BY <1>3, <1>4

(* What takes nothing more keeps the cap: a writer that ends leaves at     *)
(* most what was reserved for it.                                          *)
LEMMA NothingMore ==
  ASSUME SpoolInv, QuotaInv, present' \subseteq present, active' \subseteq active,
         \A a \in present' \ active' : size'[a] = size[a]
  PROVE  AggregateIsRespected'
<1> DEFINE ended == (active \ active') \intersect present'
           left  == present' \ active'
<1>1. /\ IsFiniteSet(present \ active) /\ IsFiniteSet(active) /\ IsFiniteSet(active')
      /\ IsFiniteSet(left) /\ IsFiniteSet(ended) /\ IsFiniteSet(active \ active')
  BY FS_Subset DEF SpoolInv, ActiveIsKept, QuotaInv
<1>2. \A a \in Artifacts : size[a] \in 0..SourceCap
  BY DEF SpoolInv, TypeOK
<1>3. present \subseteq Artifacts /\ active \subseteq Artifacts
  BY DEF SpoolInv, TypeOK
<1>4. left \subseteq (present \ active) \union ended /\ (present \ active) \intersect ended = {}
  OBVIOUS
<1>5. Sum(size, left) <= Sum(size, (present \ active) \union ended)
  <2>1. IsFiniteSet((present \ active) \union ended)
    BY <1>1, FS_Union
  <2> QED
    BY <1>2, <1>3, <1>4, <2>1, SumMonotone
<1>6. Sum(size, (present \ active) \union ended) = Sum(size, present \ active) + Sum(size, ended)
  BY <1>1, <1>2, <1>3, SumUnion
<1>7. Sum(size, present \ active) \in Nat /\ Sum(size, ended) \in Nat /\ Sum(size, left) \in Nat
  BY <1>1, <1>2, <1>3, SumType
<1>8. SourceCap \in Nat
  BY CapAssumption
<1>9. PICK m \in Nat, n \in Nat, k \in Nat, l \in Nat :
        /\ m = Cardinality(active') /\ n = Cardinality(active) /\ k = Cardinality(active \ active')
        /\ l = Cardinality(ended) /\ n = m + k /\ l <= k
  <2>1. active \intersect active' = active'
    OBVIOUS
  <2>2. Cardinality(active \ active') = Cardinality(active) - Cardinality(active')
    BY <1>1, <2>1, FS_Difference
  <2>3. Cardinality(ended) <= Cardinality(active \ active')
    BY <1>1, FS_Subset
  <2> QED
    BY <1>1, <2>2, <2>3, FS_CardinalityType
<1>10. Sum(size, ended) <= l * SourceCap
  BY <1>1, <1>2, <1>3, <1>8, <1>9, SumBound
<1>11. /\ n * SourceCap = m * SourceCap + k * SourceCap /\ l * SourceCap <= k * SourceCap
       /\ m * SourceCap \in Nat /\ k * SourceCap \in Nat /\ l * SourceCap \in Nat
  BY <1>8, <1>9, ProductsGrow
<1>12. Sum(size, present \ active) + n * SourceCap <= AggregateCap
  BY <1>9, BytesAreSums DEF QuotaInv, Quota
<1>13. Sum(size, left) + m * SourceCap <= AggregateCap
  <2> HIDE DEF left, ended
  <2> QED
    BY <1>5, <1>6, <1>7, <1>10, <1>11, <1>12, CapAssumption
<1>14. Sum(size', left) = Sum(size, left)
  BY <1>1, SumSame
<1> QED
  BY <1>9, <1>13, <1>14, BytesThen

(* A file is created below the cap, its source cap included.               *)
LEMMA CreateKeepsQuota ==
  ASSUME SpoolInv, QuotaInv, NEW a \in Artifacts, CreateFile(a)
  PROVE  AggregateIsRespected'
<1> DEFINE ended == (snapshot \ active) \intersect present
           spared == present \ snapshot
           left  == present' \ active'
<1>1. /\ create[a] = "fitting" /\ a \notin present /\ active \subseteq snapshot /\ size' = size
      /\ present' = present \union {a} /\ active' = active \union {a} /\ Projected <= Target
      /\ active \subseteq present
  BY DEF CreateFile, Step, QuotaInv, SpoolInv, LockInv, ActiveIsKept
<1>2. /\ IsFiniteSet(snapshot) /\ IsFiniteSet(active) /\ IsFiniteSet(spared) /\ IsFiniteSet(ended)
      /\ IsFiniteSet(snapshot \ active)
  BY FS_Subset DEF QuotaInv, SpoolInv, ActiveIsKept
<1>3. (\A b \in Artifacts : size[b] \in 0..SourceCap) /\ present \subseteq Artifacts
  BY DEF SpoolInv, TypeOK
<1>4. left = spared \union ended /\ spared \intersect ended = {}
  BY <1>1
<1>5. Sum(size, left) = Sum(size, spared) + Sum(size, ended)
  BY <1>2, <1>3, <1>4, SumUnion
<1>6. PICK x \in Nat, y \in Nat : x = Sum(size, spared) /\ y = Sum(size, ended)
  BY <1>2, <1>3, SumType
<1>7. SourceCap \in Nat /\ AggregateCap \in Nat /\ SourceCap <= AggregateCap
  BY CapAssumption
<1>8. PICK m \in Nat, n \in Nat, k \in Nat, l \in Nat :
        /\ m = Cardinality(active) /\ n = Cardinality(snapshot) /\ k = Cardinality(snapshot \ active)
        /\ l = Cardinality(ended) /\ n = m + k /\ l <= k
  <2>1. snapshot \intersect active = active
    BY <1>1
  <2>2. Cardinality(snapshot \ active) = Cardinality(snapshot) - Cardinality(active)
    BY <1>2, <2>1, FS_Difference
  <2>3. Cardinality(ended) <= Cardinality(snapshot \ active)
    BY <1>2, FS_Subset
  <2> QED
    BY <1>2, <2>2, <2>3, FS_CardinalityType
<1>9. y <= l * SourceCap
  BY <1>2, <1>3, <1>6, <1>7, <1>8, SumBound
<1>10. /\ n * SourceCap = m * SourceCap + k * SourceCap /\ l * SourceCap <= k * SourceCap
       /\ (m + 1) * SourceCap = m * SourceCap + SourceCap
       /\ m * SourceCap \in Nat /\ k * SourceCap \in Nat /\ l * SourceCap \in Nat
  BY <1>7, <1>8, ProductsGrow
<1>11. x + n * SourceCap <= AggregateCap - SourceCap
  BY <1>1, <1>6, <1>8, BytesAreSums DEF Projected, Target, Completed
<1>12. (x + y) + (m + 1) * SourceCap <= AggregateCap
  BY <1>7, <1>9, <1>10, <1>11
<1>13. Cardinality(active') = m + 1
  BY <1>1, <1>2, <1>8, FS_AddElement
<1>14. Sum(size', left) = x + y
  BY <1>1, <1>5, <1>6
<1> QED
  BY <1>12, <1>13, <1>14, BytesThen

LEMMA QuotaStep == SpoolInv /\ QuotaInv /\ [Next]_vars => QuotaInv'
<1> SUFFICES ASSUME SpoolInv, QuotaInv, [Next]_vars PROVE QuotaInv'
  OBVIOUS
<1> DEFINE Others ==
      /\ IsFiniteSet(present') /\ IsFiniteSet(snapshot')
      /\ \A a \in Artifacts : create'[a] \in {"idle", "pruning", "fitting"} => a \notin present' /\ size'[a] = 0
      /\ \A a \in Artifacts : create'[a] \in {"created", "open"} => a \in active'
    Less ==
      /\ present' \subseteq present /\ active' \subseteq active
      /\ \A a \in present' \ active' : size'[a] = size[a]
<1>a. SUFFICES Others /\ AggregateIsRespected'
  BY DEF QuotaInv
<1>b. Less => AggregateIsRespected'
  BY NothingMore
<1>c. IsFiniteSet(active) /\ \A S \in SUBSET present : IsFiniteSet(S)
  BY FS_Subset DEF QuotaInv, SpoolInv, ActiveIsKept
<1> USE DEF Step, Release, files, SpoolInv, TypeOK, CreateStates, QuotaInv
<1>1. ASSUME NEW a \in Artifacts, BeginCreate(a) PROVE Others /\ Less
  BY <1>1, <1>c DEF BeginCreate
<1>2. ASSUME NEW a \in Artifacts, RemoveExpired(a) PROVE Others /\ Less
  BY <1>2, <1>c, FS_EmptySet DEF RemoveExpired
<1>3. ASSUME NEW a \in Artifacts, RemoveOldest(a) PROVE Others /\ Less
  BY <1>3, <1>c, FS_EmptySet DEF RemoveOldest
<1>4. ASSUME NEW a \in Artifacts, RefuseCreate(a) \/ FinishCreate(a) PROVE Others /\ Less
  BY <1>4, <1>c, FS_EmptySet DEF RefuseCreate, FinishCreate
<1>5. ASSUME NEW a \in Artifacts, CreateFileFails(a) PROVE Others /\ AggregateIsRespected'
  <2>1. CASE UNCHANGED <<present, mtime>>
    <3>1. Others /\ Less
      BY <1>5, <2>1, FS_EmptySet DEF CreateFileFails
    <3> QED
      BY <1>b, <3>1
  <2>2. CASE present' = present \union {a}
    <3> DEFINE left == present' \ active'
    <3>1. a \notin present /\ size[a] = 0 /\ size' = size /\ active' = active /\ active \subseteq present
      BY <1>5 DEF CreateFileFails, ActiveIsKept
    <3>2. left \ {a} = present \ active /\ a \in left
      BY <2>2, <3>1
    <3>3. IsFiniteSet(left) /\ IsFiniteSet(present') /\ IsFiniteSet(present \ active)
      BY <1>c, <2>2, FS_AddElement, FS_Subset
    <3>4. left \subseteq Artifacts /\ \A b \in left : size[b] \in Nat
      BY <2>2, CapAssumption
    <3>5. Sum(size, left) = size[a] + Sum(size, left \ {a})
      BY <3>2, <3>3, <3>4, SumRemove
    <3>6. PICK n \in Nat : n = Sum(size, present \ active)
      BY <3>2, <3>3, <3>4, SumType
    <3>7. Sum(size', left) = Sum(size, present \ active)
      <4> HIDE DEF left
      <4> QED
        BY <3>1, <3>2, <3>5, <3>6
    <3>8. AggregateIsRespected'
      BY <3>1, <3>7, BytesThen, BytesAreSums DEF Quota
    <3>9. Others
      BY <1>5, <2>2, <3>3, FS_EmptySet DEF CreateFileFails
    <3> QED
      BY <3>8, <3>9
  <2> QED
    BY <1>5, <2>1, <2>2 DEF CreateFileFails
<1>6. ASSUME NEW a \in Artifacts, CreateFile(a) PROVE Others /\ AggregateIsRespected'
  <2>1. AggregateIsRespected'
    BY <1>6, CreateKeepsQuota
  <2>2. IsFiniteSet(present \union {a})
    BY FS_AddElement
  <2> QED
    BY <1>6, <2>1, <2>2 DEF CreateFile
<1>7. ASSUME NEW a \in Artifacts, WriteSource(a) \/ DropWriter(a) PROVE Others /\ Less
  BY <1>7 DEF WriteSource, DropWriter
<1>8. ASSUME AuditBreaks \/ Tick \/ Restart PROVE Others /\ Less
  BY <1>8, FS_EmptySet DEF AuditBreaks, Tick, Restart
<1>9. ASSUME UNCHANGED vars PROVE Others /\ Less
  BY <1>9 DEF vars
<1> QED
  BY <1>a, <1>b, <1>1, <1>2, <1>3, <1>4, <1>5, <1>6, <1>7, <1>8, <1>9 DEF Next, Create

(* Whoever writes, ends, is cleaned up or restarted, the artifacts and     *)
(* what is reserved for their writers stay within the aggregate cap        *)
(* (RawSpoolStore::create, the retention scan, RawSpoolWriter).            *)
THEOREM QuotaIsKept == Safety => []AggregateIsRespected
<1>1. QuotaInv => AggregateIsRespected
  BY DEF QuotaInv
<1> QED
  BY <1>1, QuotaStarts, QuotaStep, SpoolInductive, PTL DEF Safety

-----------------------------------------------------------------------------
(* The trust document                                                      *)

Replacing == {"opening", "writing", "renaming"}    \* has read the document, has yet to rename it

(* Where a call stands determines what it carries.                         *)
CallInv ==
  \A c \in Calls :
    /\ at[c] = "idle" <=> asked[c] = NoRequest
    /\ at[c] \in {"idle", "reading"} => answer[c] = NoTrust
    /\ at[c] = "renaming" => temporary[c] = "whole"
    /\ at[c] \in Replacing \union {"syncing"} => asked[c].op \in {"trust", "untrust"}

(* No reader has met a torn document, and none will.                       *)
WholeInv == TrustTypeOK /\ CallInv /\ whole

(* An id that is in the document, or was ever answered, has been issued.   *)
IssuedInv ==
  /\ \A r \in Roots : entries[r] \in issued \union {NoTrust}
  /\ \A c \in Calls : answer[c] \in issued \union {NoTrust}

(* What the one call in flight is about to rename over the document is the *)
(* document with the change it was asked for, and an untrust that has      *)
(* renamed has removed its id.                                             *)
ChangeInv ==
  \A c \in Calls :
    /\ at[c] \in Replacing /\ asked[c].op = "trust" =>
         /\ document[c] = [entries EXCEPT ![asked[c].root] = answer[c]]
         /\ answer[c] \in issued /\ ~Untrusted(answer[c])
    /\ at[c] \in Replacing /\ asked[c].op = "untrust" => document[c] = Without(asked[c].id)
    /\ at[c] = "syncing" /\ asked[c].op = "untrust" => \A r \in Roots : entries[r] # asked[c].id

TrustInv == WholeInv /\ OneAtATime /\ IssuedInv /\ ChangeInv /\ UntrustIsDurable

LEMMA TrustStarts == TrustInit => TrustInv
  BY NoTrustAssumption
  DEF TrustInit, TrustInv, WholeInv, TrustTypeOK, CallInv, OneAtATime, IssuedInv, ChangeInv,
      UntrustIsDurable, Untrusted, Empty, Documents, MaybeTrust, InFlight, Replacing, NoRequest

(* The document, the ids and the calls keep their types.                   *)
LEMMA TrustTypeStep == TrustTypeOK /\ [TrustNext]_trustVars => TrustTypeOK'
<1> SUFFICES ASSUME TrustTypeOK, [TrustNext]_trustVars PROVE TrustTypeOK'
  OBVIOUS
<1> USE DEF TrustTypeOK, Await, InFlight
<1>1. ASSUME NEW c \in Calls, NEW req \in TrustRequests, Ask(c, req) PROVE TrustTypeOK'
  BY <1>1 DEF Ask
<1>2. ASSUME NEW c \in Calls, ReadToTrust(c) PROVE TrustTypeOK'
  <2>1. PICK id \in IdsFor(asked[c].root) :
             /\ document' = [document EXCEPT ![c] = [entries EXCEPT ![asked[c].root] = id]]
             /\ answer' = [answer EXCEPT ![c] = id]
             /\ issued' = issued \union {id}
    BY <1>2 DEF ReadToTrust
  <2>2. asked[c].root \in Roots
    BY <1>2 DEF ReadToTrust, TrustRequests, NoRequest
  <2>3. id \in TrustIds
    BY <2>2 DEF IdsFor, Documents, MaybeTrust
  <2>4. [entries EXCEPT ![asked[c].root] = id] \in Documents
    BY <2>2, <2>3 DEF Documents, MaybeTrust
  <2> QED
    BY <1>2, <2>1, <2>3, <2>4 DEF ReadToTrust, MaybeTrust
<1>3. ASSUME NEW c \in Calls, ReadToUntrust(c) PROVE TrustTypeOK'
  <2>1. asked[c].id \in TrustIds
    BY <1>3 DEF ReadToUntrust, TrustRequests, NoRequest
  <2>2. Without(asked[c].id) \in Documents
    BY DEF Without, Documents, MaybeTrust
  <2> QED
    BY <1>3, <2>1, <2>2 DEF ReadToUntrust, MaybeTrust
<1>4. ASSUME NEW c \in Calls, ReadToRequire(c) PROVE TrustTypeOK'
  <2>1. asked[c].root \in Roots
    BY <1>4 DEF ReadToRequire, TrustRequests, NoRequest
  <2> QED
    BY <1>4, <2>1 DEF ReadToRequire, Documents
<1>5. ASSUME NEW c \in Calls, ReadFails(c) \/ Sync(c) \/ ReplaceFails(c) \/ Die(c) PROVE TrustTypeOK'
  BY <1>5 DEF ReadFails, Sync, ReplaceFails, Die
<1>6. ASSUME NEW c \in Calls, OpenTemporary(c) \/ WriteTemporary(c) \/ CleanUp(c)
      PROVE TrustTypeOK'
  BY <1>6 DEF OpenTemporary, OpenAside, WriteTemporary, CleanUp
<1>7. ASSUME NEW c \in Calls, Rename(c) PROVE TrustTypeOK'
  <2>1. whole' \in BOOLEAN
    BY <1>7, Zenon DEF Rename
  <2>2. entries' = document[c] /\ temporary' = [temporary EXCEPT ![c] = "none"]
    BY <1>7 DEF Rename
  <2>3. at' = [at EXCEPT ![c] = "syncing"] /\ UNCHANGED <<issued, asked, document, answer>>
    BY <1>7 DEF Rename
  <2> QED
    BY <2>1, <2>2, <2>3
<1>8. CASE UNCHANGED trustVars
  BY <1>8 DEF trustVars
<1> QED
  BY <1>1, <1>2, <1>3, <1>4, <1>5, <1>6, <1>7, <1>8 DEF TrustNext, TrustStep

(* A document that is renamed over the store is whole.                     *)
LEMMA WholeStep == WholeInv /\ [TrustNext]_trustVars => WholeInv'
<1> SUFFICES ASSUME WholeInv, [TrustNext]_trustVars PROVE CallInv' /\ whole'
  BY TrustTypeStep DEF WholeInv
<1> USE DEF WholeInv, TrustTypeOK, CallInv, Await, InFlight, Replacing
<1>1. ASSUME NEW c \in Calls, NEW req \in TrustRequests, Ask(c, req)
      PROVE CallInv' /\ whole'
  BY <1>1 DEF Ask, TrustRequests, NoRequest
<1>2. ASSUME NEW c \in Calls, ReadToTrust(c) PROVE CallInv' /\ whole'
  BY <1>2 DEF ReadToTrust
<1>3. ASSUME NEW c \in Calls, ReadToUntrust(c) PROVE CallInv' /\ whole'
  BY <1>3 DEF ReadToUntrust
<1>4. ASSUME NEW c \in Calls, ReadToRequire(c) PROVE CallInv' /\ whole'
  BY <1>4 DEF ReadToRequire
<1>5. ASSUME NEW c \in Calls, ReadFails(c) \/ Sync(c) \/ ReplaceFails(c) \/ Die(c)
      PROVE CallInv' /\ whole'
  BY ZenonT(60), <1>5 DEF ReadFails, Sync, ReplaceFails, Die
<1>6. ASSUME NEW c \in Calls, OpenTemporary(c) \/ WriteTemporary(c) \/ CleanUp(c)
      PROVE CallInv' /\ whole'
  BY ZenonT(60), <1>6 DEF OpenTemporary, OpenAside, WriteTemporary, CleanUp
<1>7. ASSUME NEW c \in Calls, Rename(c) PROVE CallInv' /\ whole'
  <2>1. temporary[c] = "whole" /\ whole' = whole
    BY <1>7 DEF Rename
  <2> QED
    BY <1>7, <2>1 DEF Rename
<1>8. CASE UNCHANGED trustVars
  BY <1>8 DEF trustVars
<1> QED
  BY <1>1, <1>2, <1>3, <1>4, <1>5, <1>6, <1>7, <1>8 DEF TrustNext, TrustStep

(* Any number of concurrent calls, failing or killed anywhere, leave a     *)
(* document that parses: the store stays usable.                           *)
THEOREM StoreStaysWhole == TrustSafety => []DocumentIsWhole
<1>1. WholeInv => DocumentIsWhole
  BY DEF WholeInv, DocumentIsWhole
<1>2. TrustInit => WholeInv
  BY TrustStarts DEF TrustInv
<1> QED
  BY <1>1, <1>2, WholeStep, PTL DEF TrustSafety

(* While a call is in flight the others are not, and stay where they are.  *)
LEMMA AloneInFlight ==
  ASSUME WholeInv, OneAtATime, OneAtATime', NEW c \in Calls,
         TrustStep(c) \/ Die(c) \/ \E req \in TrustRequests : Ask(c, req)
  PROVE  \A d \in Calls \ {c} : at'[d] = at[d] /\ at[d] \notin InFlight
<1> USE DEF WholeInv, TrustTypeOK
<1>1. PICK to \in InFlight \union {"resolved", "rejected", "dead"} : at' = [at EXCEPT ![c] = to]
  BY DEF TrustStep, ReadFails, ReadToTrust, ReadToUntrust, ReadToRequire, OpenTemporary,
         WriteTemporary, Rename, Sync, ReplaceFails, CleanUp, Die, Ask, Await, InFlight
<1>2. at[c] \in InFlight \/ at'[c] \in InFlight
  BY DEF TrustStep, ReadFails, ReadToTrust, ReadToUntrust, ReadToRequire, OpenTemporary,
         WriteTemporary, Rename, Sync, ReplaceFails, CleanUp, Die, Ask, Await, InFlight
<1>3. \A d \in Calls \ {c} : at'[d] = at[d]
  BY <1>1
<1>4. ASSUME NEW d \in Calls \ {c}, at[d] \in InFlight PROVE FALSE
  <2>1. CASE at[c] \in InFlight
    BY <1>4, <2>1 DEF OneAtATime
  <2>2. CASE at'[c] \in InFlight
    <3>1. {at'[c], at'[d]} \subseteq InFlight
      BY <1>3, <1>4, <2>2
    <3> QED
      BY <3>1 DEF OneAtATime
  <2> QED
    BY <1>2, <2>1, <2>2
<1> QED
  BY <1>3, <1>4

(* A step at most answers, and changes the request of, the call it is of.  *)
LEMMA OwnCallOnly ==
  ASSUME TrustTypeOK, NEW c \in Calls,
         TrustStep(c) \/ Die(c) \/ \E req \in TrustRequests : Ask(c, req)
  PROVE  \A d \in Calls \ {c} : asked'[d] = asked[d] /\ answer'[d] = answer[d]
<1> USE DEF TrustTypeOK
<1>1. CASE ReadToTrust(c)
  BY <1>1 DEF ReadToTrust
<1>2. CASE ReadToUntrust(c) \/ ReadToRequire(c)
  BY <1>2 DEF ReadToUntrust, ReadToRequire
<1> QED
  BY <1>1, <1>2
  DEF TrustStep, ReadFails, OpenTemporary, WriteTemporary, Rename, Sync, ReplaceFails, CleanUp, Die, Ask

(* One user's calls carry the changes they were asked for.                 *)
LEMMA ChangeStep ==
  TrustInv /\ [TrustNext /\ OneAtATime']_trustVars => IssuedInv' /\ ChangeInv'
<1> SUFFICES ASSUME TrustInv, [TrustNext /\ OneAtATime']_trustVars PROVE IssuedInv' /\ ChangeInv'
  OBVIOUS
<1>0. WholeInv /\ OneAtATime /\ TrustTypeOK /\ CallInv
  BY DEF TrustInv, WholeInv
<1>1. CASE UNCHANGED trustVars
  BY <1>1 DEF trustVars, TrustInv, IssuedInv, ChangeInv, Untrusted, Without
<1>2. ASSUME OneAtATime', NEW c \in Calls,
             TrustStep(c) \/ Die(c) \/ \E req \in TrustRequests : Ask(c, req)
      PROVE  IssuedInv' /\ ChangeInv'
  <2>1. \A d \in Calls \ {c} : at'[d] = at[d] /\ at[d] \notin InFlight
    BY <1>0, <1>2, AloneInFlight
  <2> DEFINE Carries ==
        /\ at'[c] \in Replacing /\ asked'[c].op = "trust" =>
             /\ document'[c] = [entries' EXCEPT ![asked'[c].root] = answer'[c]]
             /\ answer'[c] \in issued' /\ ~Untrusted(answer[c])'
        /\ at'[c] \in Replacing /\ asked'[c].op = "untrust" => document'[c] = Without(asked[c].id)'
        /\ at'[c] = "syncing" /\ asked'[c].op = "untrust" =>
             \A r \in Roots : entries'[r] # asked'[c].id
  <2>2. Carries => ChangeInv'
    BY <2>1 DEF ChangeInv, Replacing, InFlight
  <2>3. SUFFICES IssuedInv' /\ Carries
    BY <2>2
  <2> HIDE <2>2
  <2> USE <1>0 DEF TrustInv, TrustTypeOK, CallInv, IssuedInv, Await, InFlight, Replacing
  <2>4. ASSUME NEW req \in TrustRequests, Ask(c, req) PROVE IssuedInv' /\ Carries
    BY <2>4 DEF Ask
  <2>5. CASE ReadToTrust(c)
    <3>1. PICK id \in IdsFor(asked[c].root) :
               /\ document' = [document EXCEPT ![c] = [entries EXCEPT ![asked[c].root] = id]]
               /\ answer' = [answer EXCEPT ![c] = id]
               /\ issued' = issued \union {id}
      BY <2>5 DEF ReadToTrust
    <3>2. IssuedInv'
      BY <2>5, <3>1 DEF ReadToTrust
    <3>3. at'[c] = "opening" /\ asked'[c] = asked[c] /\ asked[c].op = "trust" /\ entries' = entries
      BY <2>5 DEF ReadToTrust
    <3>4. asked[c].root \in Roots
      BY <3>3 DEF TrustRequests, NoRequest
    <3>5. ~Untrusted(id)
      <4>1. CASE entries[asked[c].root] # NoTrust
        BY <4>1, <3>1, <3>4 DEF IdsFor, UntrustIsDurable, Documents, MaybeTrust
      <4>2. CASE entries[asked[c].root] = NoTrust
        BY <4>2, <3>1, NoTrustAssumption DEF IdsFor, Untrusted
      <4> QED
        BY <4>1, <4>2
    <3>6. ~Untrusted(id)'
      <4>1. \A d \in Calls \ {c} : asked'[d] = asked[d] /\ answer'[d] = answer[d]
        BY <1>0, <1>2, OwnCallOnly
      <4> QED
        BY <4>1, <3>3, <3>5, <2>1 DEF Untrusted
    <3> QED
      BY <3>1, <3>2, <3>3, <3>6
  <2>6. CASE ReadToUntrust(c)
    BY <2>6 DEF ReadToUntrust, Without
  <2>7. CASE ReadToRequire(c)
    <3>1. asked[c].root \in Roots
      BY <2>7 DEF ReadToRequire, TrustRequests, NoRequest
    <3>2. IssuedInv'
      BY <2>7, <3>1 DEF ReadToRequire
    <3>3. at'[c] \in {"resolved", "rejected"}
      BY <2>7 DEF ReadToRequire
    <3> QED
      BY <3>2, <3>3
  <2>8. CASE ReadFails(c) \/ ReplaceFails(c) \/ CleanUp(c) \/ Sync(c) \/ Die(c)
    BY <2>8 DEF ReadFails, ReplaceFails, CleanUp, Sync, Die
  <2>9. CASE OpenTemporary(c) \/ WriteTemporary(c)
    BY <2>9 DEF OpenTemporary, WriteTemporary, ChangeInv, Untrusted, Without
  <2>10. CASE Rename(c)
    <3>1. /\ at[c] = "renaming" /\ at'[c] = "syncing" /\ entries' = document[c]
          /\ UNCHANGED <<issued, asked, document, answer>>
      BY <2>10 DEF Rename
    <3>2. CASE asked[c].op = "trust"
      <4>1. document[c] = [entries EXCEPT ![asked[c].root] = answer[c]] /\ answer[c] \in issued
        BY <3>1, <3>2 DEF ChangeInv
      <4>2. IssuedInv'
        BY <3>1, <4>1 DEF Documents
      <4> QED
        BY <3>1, <3>2, <4>2
    <3>3. CASE asked[c].op = "untrust"
      <4>1. document[c] = Without(asked[c].id)
        BY <3>1, <3>3 DEF ChangeInv
      <4>2. asked[c].id \in TrustIds
        BY <3>3 DEF TrustRequests, NoRequest
      <4>3. IssuedInv'
        BY <3>1, <4>1 DEF Without
      <4>4. \A r \in Roots : entries'[r] # asked'[c].id
        BY <3>1, <4>1, <4>2, NoTrustAssumption DEF Without
      <4> QED
        BY <3>1, <3>3, <4>3, <4>4
    <3> QED
      BY <3>1, <3>2, <3>3
  <2> QED
    BY <1>2, <2>4, <2>5, <2>6, <2>7, <2>8, <2>9, <2>10 DEF TrustStep
<1> QED
  BY <1>1, <1>2 DEF TrustNext

(* No id comes back whose removal was acknowledged.                        *)
LEMMA UntrustStep == TrustInv /\ [TrustNext /\ OneAtATime']_trustVars => UntrustIsDurable'
<1> SUFFICES ASSUME TrustInv, [TrustNext /\ OneAtATime']_trustVars PROVE UntrustIsDurable'
  OBVIOUS
<1>0. WholeInv /\ OneAtATime /\ TrustTypeOK /\ CallInv
  BY DEF TrustInv, WholeInv
<1>1. CASE UNCHANGED trustVars
  BY <1>1 DEF trustVars, TrustInv, UntrustIsDurable, Untrusted
<1>2. ASSUME OneAtATime', NEW c \in Calls,
             TrustStep(c) \/ Die(c) \/ \E req \in TrustRequests : Ask(c, req)
      PROVE  UntrustIsDurable'
  <2> SUFFICES ASSUME NEW id \in TrustIds, Untrusted(id)' PROVE \A r \in Roots : entries'[r] # id
    BY DEF UntrustIsDurable
  <2>1. \A d \in Calls \ {c} : at'[d] = at[d] /\ asked'[d] = asked[d] /\ answer'[d] = answer[d]
    BY <1>0, <1>2, AloneInFlight, OwnCallOnly
  <2> DEFINE Removed(d) == /\ asked[d] = [op |-> "untrust", id |-> id] /\ at[d] = "resolved"
                           /\ answer[d] = id
  <2>2. PICK d \in Calls : Removed(d)'
    BY DEF Untrusted
  <2>3. asked'[d].op = "untrust" /\ asked'[d].id = id /\ at'[d] = "resolved" /\ answer'[d] = id
    BY <2>2
  <2>4. CASE d = c
    <3> USE <1>0, <2>3, <2>4 DEF TrustTypeOK, Await
    <3>1. CASE Sync(c)
      <4>1. at[c] = "syncing" /\ entries' = entries /\ asked' = asked
        BY <3>1 DEF Sync
      <4> QED
        BY <4>1 DEF TrustInv, ChangeInv
    <3>2. CASE ReadToUntrust(c)
      <4>1. at[c] = "reading" /\ answer'[c] = answer[c]
        BY <3>2 DEF ReadToUntrust
      <4> QED
        BY <4>1, NoTrustAssumption DEF CallInv
    <3>3. ~Sync(c) /\ ~ReadToUntrust(c) => FALSE
      BY <1>2 DEF TrustStep, ReadFails, ReadToTrust, ReadToRequire, OpenTemporary, WriteTemporary,
                  Rename, ReplaceFails, CleanUp, Die, Ask, InFlight
    <3> QED
      BY <3>1, <3>2, <3>3
  <2>5. CASE d # c
    <3>1. Untrusted(id)
      BY <2>1, <2>2, <2>5 DEF Untrusted
    <3>2. \A r \in Roots : entries[r] # id
      BY <3>1 DEF TrustInv, UntrustIsDurable
    <3>3. CASE Rename(c)
      <4> USE DEF TrustTypeOK
      <4>1. at[c] = "renaming" /\ entries' = document[c]
        BY <3>3 DEF Rename, Await
      <4>2. CASE asked[c].op = "trust"
        <5>1. document[c] = [entries EXCEPT ![asked[c].root] = answer[c]] /\ ~Untrusted(answer[c])
          BY <4>1, <4>2 DEF TrustInv, ChangeInv, Replacing
        <5> QED
          BY <1>0, <3>1, <3>2, <4>1, <5>1 DEF Documents
      <4>3. CASE asked[c].op = "untrust"
        <5>1. document[c] = Without(asked[c].id)
          BY <4>1, <4>3 DEF TrustInv, ChangeInv, Replacing
        <5> QED
          BY <3>2, <4>1, <5>1, NoTrustAssumption DEF Without
      <4> QED
        BY <1>0, <4>1, <4>2, <4>3 DEF CallInv, Replacing
    <3>4. ~Rename(c) => entries' = entries
      BY <1>2 DEF TrustStep, ReadFails, ReadToTrust, ReadToUntrust, ReadToRequire, OpenTemporary,
                  WriteTemporary, Sync, ReplaceFails, CleanUp, Die, Ask
    <3> QED
      BY <3>2, <3>3, <3>4
  <2> QED
    BY <2>4, <2>5
<1> QED
  BY <1>1, <1>2 DEF TrustNext

LEMMA OneStays == OneAtATime /\ [TrustNext /\ OneAtATime']_trustVars => OneAtATime'
  BY DEF trustVars, OneAtATime

LEMMA TrustInductive == Sequential => []TrustInv
<1>1. TrustInv /\ [TrustNext /\ OneAtATime']_trustVars => TrustInv'
  <2> SUFFICES ASSUME TrustInv, [TrustNext /\ OneAtATime']_trustVars PROVE TrustInv'
    OBVIOUS
  <2>1. WholeInv /\ OneAtATime /\ [TrustNext]_trustVars
    BY DEF TrustInv
  <2> QED
    BY <2>1, WholeStep, OneStays, ChangeStep, UntrustStep DEF TrustInv
<1> QED
  BY <1>1, TrustStarts, PTL DEF Sequential

(* One user's commands, failing and killed anywhere, leave a document that *)
(* parses, change the entry they name and no other, and never bring back   *)
(* an id whose removal was acknowledged.                                   *)
THEOREM TrustDocumentIsKept == Sequential => DocumentIsKept
<1>1. TrustInv => DocumentIsWhole /\ UntrustIsDurable
  BY DEF TrustInv, WholeInv, DocumentIsWhole
<1> DEFINE Named == \A r \in Roots : entries'[r] # entries[r] =>
                      \E c \in Calls : at[c] = "renaming" /\ IsNamed(c, r)
<1>2. TrustInv /\ [TrustNext /\ OneAtATime']_trustVars => [Named]_trustVars
  <2> SUFFICES ASSUME TrustInv, TrustNext, NEW r \in Roots, entries'[r] # entries[r]
               PROVE  \E c \in Calls : at[c] = "renaming" /\ IsNamed(c, r)
    OBVIOUS
  <2>0. TrustTypeOK /\ CallInv
    BY DEF TrustInv, WholeInv
  <2>1. PICK c \in Calls : Rename(c)
    BY DEF TrustNext, TrustStep, ReadFails, ReadToTrust, ReadToUntrust, ReadToRequire,
           OpenTemporary, WriteTemporary, Sync, ReplaceFails, CleanUp, Die, Ask
  <2>2. at[c] = "renaming" /\ entries'[r] = document[c][r]
    BY <2>1 DEF Rename, Await
  <2>3. CASE asked[c].op = "trust"
    <3>1. document[c] = [entries EXCEPT ![asked[c].root] = answer[c]]
      BY <2>2, <2>3 DEF TrustInv, ChangeInv, Replacing
    <3> QED
      BY <2>0, <2>2, <2>3, <3>1 DEF IsNamed, TrustTypeOK, Documents
  <2>4. CASE asked[c].op = "untrust"
    <3>1. document[c] = Without(asked[c].id)
      BY <2>2, <2>4 DEF TrustInv, ChangeInv, Replacing
    <3> QED
      BY <2>2, <2>4, <3>1 DEF IsNamed, Without
  <2> QED
    BY <2>0, <2>2, <2>3, <2>4 DEF CallInv, Replacing
<1> QED
  BY <1>1, <1>2, TrustInductive, PTL DEF Sequential, DocumentIsKept, OnlyTheNamedChanges

-----------------------------------------------------------------------------
(* The audit log                                                           *)

Serving == {"writing"} \union Rotating    \* a request's append holds the mutex

(* A sink at work is healthy, has a file open, and appends for a request   *)
(* of its own process that is waiting for it.                              *)
HolderInv ==
  \A p \in Processes :
    /\ pc[p] \in Serving =>
         /\ p \in healthy /\ sinkHolder[p] \in Requests
         /\ ProcOf[sinkHolder[p]] = p /\ request[sinkHolder[p]] \in Waiting
    /\ p \in healthy => fd[p] \in LogFiles

NamesInv == \A n \in Names : name[n] = 0 \/ name[n] \in LogFiles

(* The record a request needs is there before the request goes on.         *)
RecordInv ==
  /\ \A r \in effects : Recorded(r, "decision")
  /\ \A r \in Requests :
       /\ request[r] \in {"allowed", "concluding", "ok"} => Recorded(r, "decision")
       /\ request[r] = "ok" => Recorded(r, "outcome")

SinkInv == SinkTypeOK /\ HolderInv /\ NamesInv /\ RecordInv

(* What holds when one process has the log to itself.  While it rotates,   *)
(* one name is free: the one the next file moves to.                       *)
FreeName(p) == IF pc[p] = "removing" THEN Retained
               ELSE IF pc[p] = "shifting" THEN index[p] + 1 ELSE 0

OwnerInv ==
  \A p \in Processes :
    /\ pc[p] = "shifting" => index[p] < Retained /\ name[index[p] + 1] = 0
    /\ pc[p] = "reopening" => name[0] = 0
    /\ p \in healthy /\ pc[p] \notin Rotating =>
         name[0] # 0 /\ fd[p] = name[0] /\ bytes[p] = Len(data[fd[p]])
    /\ pc[p] = "writing" => bytes[p] + 1 <= Cap

(* The names in order hold ever older files, and no lost file is newer     *)
(* than a kept one.                                                        *)
OrderInv ==
  /\ \A m, n \in Names : m < n /\ name[m] # 0 /\ name[n] # 0 => name[m] > name[n]
  /\ \A f \in LogFiles \ Kept, g \in Kept : f < g

(* The names that should hold a file and do not: once a file is lost every *)
(* free one, before that those below a name in use.  An ended life leaves  *)
(* at most one of them behind.                                             *)
Lost == LogFiles \ Kept # {}
Gaps == {n \in Names : name[n] = 0 /\ (Lost \/ \E m \in Names : m > n /\ name[m] # 0)}

GapInv ==
  \A p \in Processes :
    /\ Cardinality(Gaps) <= lives[p]
    /\ p \in healthy /\ pc[p] \notin Rotating => Cardinality(Gaps) < lives[p]
    /\ pc[p] \in Rotating => Cardinality(Gaps \ {FreeName(p)}) < lives[p]

LogInv == SinkInv /\ OwnerInv /\ OrderInv /\ GapInv /\ FilesAreBounded

(* A file with one more piece.                                             *)
LEMMA AppendToFile ==
  ASSUME SinkTypeOK, NEW f \in LogFiles, NEW x \in Pieces,
         data' = [data EXCEPT ![f] = Append(@, x)]
  PROVE  /\ data' \in Seq(Seq(Pieces)) /\ Len(data') = Len(data)
         /\ \A g \in LogFiles \ {f} : data'[g] = data[g]
         /\ data[f] \in Seq(Pieces) /\ data'[f] \in Seq(Pieces)
         /\ Len(data[f]) \in Nat /\ Len(data'[f]) = Len(data[f]) + 1
         /\ \A k \in DOMAIN data[f] : k \in DOMAIN data'[f] /\ data'[f][k] = data[f][k]
         /\ Len(data'[f]) \in DOMAIN data'[f] /\ data'[f][Len(data'[f])] = x
<1>1. data \in Seq(Seq(Pieces)) /\ f \in 1..Len(data)
  BY DEF SinkTypeOK, LogFiles
<1>2. data[f] \in Seq(Pieces) /\ Len(data[f]) \in Nat
  BY <1>1, ElementOfSeq
<1> DEFINE t == Append(data[f], x)
<1>3. /\ t \in Seq(Pieces) /\ Len(t) = Len(data[f]) + 1 /\ t[Len(data[f]) + 1] = x
      /\ \A k \in 1..Len(data[f]) : t[k] = data[f][k]
  BY <1>2, AppendProperties
<1>4. DOMAIN t = 1..Len(t) /\ DOMAIN data[f] = 1..Len(data[f])
  BY <1>2, <1>3
<1>5. data' = [data EXCEPT ![f] = t]
  OBVIOUS
<1> HIDE DEF t
<1>6. /\ data' \in Seq(Seq(Pieces)) /\ Len(data') = Len(data)
      /\ \A j \in 1..Len(data) : data'[j] = IF j = f THEN t ELSE data[j]
  <2> DEFINE S == Seq(Pieces)
  <2>1. data \in Seq(S) /\ t \in S /\ f \in 1..Len(data)
    BY <1>1, <1>3
  <2> HIDE DEF S
  <2>2. /\ [data EXCEPT ![f] = t] \in Seq(S) /\ Len([data EXCEPT ![f] = t]) = Len(data)
        /\ \A j \in 1..Len(data) : [data EXCEPT ![f] = t][j] = IF j = f THEN t ELSE data[j]
    BY <2>1, ExceptSeq
  <2> QED
    BY <2>2, <1>5 DEF S
<1> QED
  BY <1>1, <1>2, <1>3, <1>4, <1>6 DEF LogFiles

(* What every step does to the files: it keeps them and what is in them.   *)
Grown ==
  /\ data' \in Seq(Seq(Pieces)) /\ Len(data') <= MaxFiles /\ LogFiles \subseteq LogFiles'
  /\ \A f \in LogFiles : \A k \in DOMAIN data[f] : k \in DOMAIN data'[f] /\ data'[f][k] = data[f][k]

LEMMA AppendPieceGrows ==
  ASSUME SinkTypeOK, HolderInv, NEW p \in Processes, pc[p] = "writing", NEW w \in BOOLEAN,
         AppendPiece(p, w)
  PROVE  /\ Grown /\ LogFiles' = LogFiles /\ fd[p] \in LogFiles
         /\ \A g \in LogFiles \ {fd[p]} : data'[g] = data[g]
         /\ Len(data[fd[p]]) \in Nat /\ Len(data'[fd[p]]) = Len(data[fd[p]]) + 1
         /\ \E k \in DOMAIN data'[fd[p]] : data'[fd[p]][k] = Piece(p, w)
<1>1. fd[p] \in LogFiles /\ sinkHolder[p] \in Requests
  BY DEF HolderInv, Serving
<1>2. lives[p] \in 0..MaxLives
  BY DEF SinkTypeOK
<1>3. Piece(p, w) \in Pieces
  BY <1>1, <1>2 DEF Piece, Pieces, Phase
<1>4. data' = [data EXCEPT ![fd[p]] = Append(@, Piece(p, w))]
  BY DEF AppendPiece
<1> DEFINE f == fd[p]
<1> DEFINE x == Piece(p, w)
<1> HIDE DEF Piece
<1>5. /\ data' \in Seq(Seq(Pieces)) /\ Len(data') = Len(data) /\ DOMAIN data' = DOMAIN data
      /\ \A g \in LogFiles \ {f} : data'[g] = data[g]
      /\ Len(data[f]) \in Nat /\ Len(data'[f]) = Len(data[f]) + 1
      /\ \A k \in DOMAIN data[f] : k \in DOMAIN data'[f] /\ data'[f][k] = data[f][k]
      /\ Len(data'[f]) \in DOMAIN data'[f] /\ data'[f][Len(data'[f])] = x
  BY <1>1, <1>3, <1>4, AppendToFile DEF SinkTypeOK
<1> HIDE DEF f, x
<1>6. Grown /\ LogFiles' = LogFiles
  BY <1>5 DEF Grown, SinkTypeOK, LogFiles
<1> QED
  BY <1>1, <1>5, <1>6 DEF f, x

LEMMA DebrisGrows ==
  ASSUME SinkTypeOK, HolderInv, NEW p \in Processes, pc[p] = "writing", LeaveDebris(p)
  PROVE  Grown /\ LogFiles' = LogFiles
<1>1. CASE data' = data
  BY <1>1 DEF Grown, SinkTypeOK, LogFiles
<1>2. ASSUME NEW w \in BOOLEAN, AppendPiece(p, w) PROVE Grown /\ LogFiles' = LogFiles
  BY <1>2, AppendPieceGrows
<1> QED
  BY <1>1, <1>2 DEF LeaveDebris

(* The file that is opened: the newest one, or a new one.                  *)
LEMMA OpenFileOpens ==
  ASSUME SinkTypeOK, NamesInv, NEW p \in Processes, OpenFile(p)
  PROVE  /\ Grown /\ NamesInv' /\ name' \in [Names -> 0..MaxFiles]
         /\ fd' \in [Processes -> 0..MaxFiles] /\ bytes' \in [Processes -> Nat]
         /\ fd'[p] = name'[0] /\ fd'[p] \in LogFiles' /\ bytes'[p] = Len(data'[fd'[p]])
         /\ \A q \in Processes \ {p} : fd'[q] = fd[q] /\ bytes'[q] = bytes[q]
         /\ \A n \in Names \ {0} : name'[n] = name[n]
         /\ \A f \in LogFiles : data'[f] = data[f]
         /\ \/ name[0] # 0 /\ name' = name /\ LogFiles' = LogFiles
            \/ /\ name[0] = 0 /\ name'[0] = Len(data) + 1 /\ Len(data'[Len(data) + 1]) = 0
               /\ LogFiles' = LogFiles \union {Len(data) + 1}
<1>0. Len(data) \in Nat /\ LogFiles = 1..Len(data) /\ 0 \in Names /\ Len(data) <= MaxFiles
  BY SinkAssumption DEF SinkTypeOK, LogFiles, Names
<1>1. CASE name[0] # 0
  <2>1. name[0] \in LogFiles
    BY <1>0, <1>1 DEF NamesInv
  <2>2. data[name[0]] \in Seq(Pieces) /\ Len(data[name[0]]) \in Nat
    BY <2>1, <1>0, ElementOfSeq DEF SinkTypeOK
  <2>3. /\ fd' = [fd EXCEPT ![p] = name[0]] /\ bytes' = [bytes EXCEPT ![p] = Len(data[name[0]])]
        /\ name' = name /\ data' = data
    BY <1>1 DEF OpenFile
  <2>4. Grown /\ NamesInv' /\ LogFiles' = LogFiles
    BY <2>3 DEF Grown, SinkTypeOK, LogFiles, NamesInv
  <2>5. name[0] \in 0..MaxFiles
    BY <1>0 DEF SinkTypeOK
  <2> QED
    BY <1>1, <2>1, <2>2, <2>3, <2>4, <2>5 DEF SinkTypeOK
<1>2. CASE name[0] = 0
  <2>1. /\ Len(data) < MaxFiles /\ data' = Append(data, <<>>)
        /\ name' = [name EXCEPT ![0] = Len(data) + 1]
        /\ fd' = [fd EXCEPT ![p] = Len(data) + 1] /\ bytes' = [bytes EXCEPT ![p] = 0]
    BY <1>2 DEF OpenFile
  <2>2. <<>> \in Seq(Pieces) /\ Len(<<>>) = 0
    OBVIOUS
  <2>3. /\ data' \in Seq(Seq(Pieces)) /\ Len(data') = Len(data) + 1
        /\ \A f \in 1..Len(data) : data'[f] = data[f]
        /\ data'[Len(data) + 1] = <<>>
    BY <2>1, <2>2, AppendProperties DEF SinkTypeOK
  <2>4. LogFiles' = 1..(Len(data) + 1)
    BY <2>3 DEF LogFiles
  <2>5. Grown
    <3>1. Len(data') <= MaxFiles /\ LogFiles \subseteq LogFiles'
      BY <1>0, <2>1, <2>3, <2>4, SinkAssumption
    <3>2. \A f \in LogFiles : data'[f] = data[f]
      BY <1>0, <2>3
    <3> QED
      BY <2>3, <3>1, <3>2 DEF Grown
  <2>6. name' \in [Names -> 0..MaxFiles] /\ \A n \in Names \ {0} : name'[n] = name[n]
    BY <1>0, <2>1, SinkAssumption DEF SinkTypeOK
  <2>7. name'[0] = Len(data) + 1
    BY <1>0, <2>1 DEF SinkTypeOK
  <2>8. NamesInv'
    BY <1>0, <2>4, <2>6, <2>7 DEF NamesInv
  <2>9. /\ fd' \in [Processes -> 0..MaxFiles] /\ bytes' \in [Processes -> Nat]
        /\ fd'[p] = Len(data) + 1 /\ bytes'[p] = 0
        /\ \A q \in Processes \ {p} : fd'[q] = fd[q] /\ bytes'[q] = bytes[q]
    BY <1>0, <2>1, SinkAssumption DEF SinkTypeOK
  <2>10. LogFiles' = LogFiles \union {Len(data) + 1} /\ Len(data) + 1 \in LogFiles'
    BY <1>0, <2>4
  <2> QED
    BY <1>0, <1>2, <2>2, <2>3, <2>5, <2>6, <2>7, <2>8, <2>9, <2>10
<1> QED
  BY <1>1, <1>2

LEMMA SinkStarts == SinkInit => LogInv
<1> SUFFICES ASSUME SinkInit PROVE LogInv
  OBVIOUS
<1>1. LogFiles = {} /\ Kept = {}
  BY SinkAssumption DEF SinkInit, LogFiles, Kept
<1>2. SinkTypeOK
  <2>1. data \in Seq(Seq(Pieces)) /\ Len(data) = 0
    BY DEF SinkInit
  <2> QED
    BY <2>1, SinkAssumption DEF SinkInit, SinkTypeOK, Names
<1>3. HolderInv /\ NamesInv /\ RecordInv /\ OwnerInv
  BY DEF SinkInit, HolderInv, NamesInv, RecordInv, OwnerInv, Serving, Rotating
<1>4. OrderInv /\ FilesAreBounded
  BY <1>1 DEF SinkInit, OrderInv, FilesAreBounded
<1>5. Gaps = {}
  BY <1>1 DEF SinkInit, Gaps, Lost, Names
<1>6. GapInv
  BY <1>5, FS_EmptySet DEF SinkInit, GapInv, Rotating
<1> QED
  BY <1>2, <1>3, <1>4, <1>6 DEF LogInv, SinkInv

(* The types, the mutex and the names.                                     *)
LEMMA HolderStep ==
  SinkTypeOK /\ HolderInv /\ NamesInv /\ [SinkNext]_auditVars =>
    SinkTypeOK' /\ HolderInv' /\ NamesInv' /\ Grown
<1> DEFINE Goal == SinkTypeOK' /\ HolderInv' /\ NamesInv' /\ Grown
<1> SUFFICES ASSUME SinkTypeOK, HolderInv, NamesInv, [SinkNext]_auditVars PROVE Goal
  OBVIOUS
<1>0. data' = data => Grown /\ LogFiles' = LogFiles
  BY DEF SinkTypeOK, Grown, LogFiles
<1>1. ASSUME NEW p \in Processes, Start(p) PROVE Goal
  <2>1. /\ Grown /\ NamesInv' /\ name' \in [Names -> 0..MaxFiles] /\ fd' \in [Processes -> 0..MaxFiles]
        /\ bytes' \in [Processes -> Nat] /\ (p \in healthy' => fd'[p] \in LogFiles')
        /\ \A q \in Processes \ {p} : fd'[q] = fd[q]
    <3>1. CASE OpenFile(p)
      BY <3>1, OpenFileOpens
    <3>2. CASE UNCHANGED <<name, data, fd, bytes>> /\ healthy' = healthy \ {p}
      BY <3>2, <1>0 DEF SinkTypeOK, NamesInv
    <3> QED
      BY <1>1, <3>1, <3>2 DEF Start
  <2>2. /\ pc' = [pc EXCEPT ![p] = "idle"] /\ lives' = [lives EXCEPT ![p] = @ + 1]
        /\ healthy' \in {healthy \union {p}, healthy \ {p}} /\ lives[p] < MaxLives
        /\ UNCHANGED <<index, request, sinkHolder, effects>>
    BY <1>1 DEF Start
  <2>3. SinkTypeOK'
    BY SMTT(60), <2>1, <2>2, SinkAssumption DEF SinkTypeOK, Grown
  <2>4. HolderInv'
    BY <2>1, <2>2 DEF SinkTypeOK, HolderInv, Grown, Serving, Rotating
  <2> QED
    BY <2>1, <2>3, <2>4
<1>2. ASSUME NEW p \in Processes, SinkCrash(p) PROVE Goal
  <2>1. Grown /\ LogFiles' = LogFiles
    BY <1>2, <1>0, DebrisGrows DEF SinkCrash
  <2>2. /\ pc' = [pc EXCEPT ![p] = "down"] /\ sinkHolder' = [sinkHolder EXCEPT ![p] = Unheld]
        /\ healthy' = healthy \ {p} /\ UNCHANGED <<name, index, fd, bytes, lives, effects>>
        /\ request' = [r \in Requests |->
             IF ProcOf[r] = p /\ request[r] \notin {"new"} \union Answered THEN "lost" ELSE request[r]]
    BY <1>2 DEF SinkCrash
  <2>3. request' \in [Requests -> {"new", "allowed"} \union Waiting \union Answered]
    BY <2>2 DEF SinkTypeOK, Waiting, Answered
  <2>4. SinkTypeOK'
    BY <2>1, <2>2, <2>3 DEF SinkTypeOK, Grown
  <2>5. HolderInv'
    BY <2>1, <2>2 DEF SinkTypeOK, HolderInv, Serving, Rotating
  <2>6. NamesInv'
    BY <2>1, <2>2 DEF NamesInv
  <2> QED
    BY <2>1, <2>4, <2>5, <2>6
<1>3. ASSUME NEW p \in Processes, RemoveRetained(p) PROVE Goal
  <2>1. /\ Grown /\ LogFiles' = LogFiles /\ name' = [name EXCEPT ![Retained] = 0]
        /\ pc[p] = "removing" /\ pc' = [pc EXCEPT ![p] = "shifting"]
        /\ index' = [index EXCEPT ![p] = Retained - 1]
        /\ UNCHANGED <<data, fd, bytes, healthy, lives, request, sinkHolder, effects>>
    BY <1>3, <1>0 DEF RemoveRetained, Oldest
  <2>2. Retained - 1 \in Names
    BY SinkAssumption DEF Names
  <2>3. SinkTypeOK'
    <3>0. 0 \in 0..MaxFiles
      BY SinkAssumption
    <3>1. name' \in [Names -> 0..MaxFiles]
      BY <2>1, <3>0 DEF SinkTypeOK
    <3>2. pc' \in [Processes -> {"down", "idle", "writing"} \union Rotating]
      BY <2>1 DEF SinkTypeOK, Rotating
    <3> QED
      BY <2>1, <2>2, <3>1, <3>2 DEF SinkTypeOK
  <2>4. HolderInv'
    BY <2>1 DEF SinkTypeOK, HolderInv, Serving, Rotating
  <2>5. NamesInv'
    BY <2>1 DEF SinkTypeOK, NamesInv
  <2> QED
    BY <2>1, <2>3, <2>4, <2>5
<1>4. ASSUME NEW p \in Processes, Shift(p) PROVE Goal
  <2>1. /\ Grown /\ LogFiles' = LogFiles /\ pc[p] = "shifting"
        /\ UNCHANGED <<data, fd, bytes, healthy, lives, request, sinkHolder, effects>>
    BY <1>4, <1>0 DEF Shift
  <2>2. index[p] \in Names
    BY DEF SinkTypeOK
  <2>3. name' \in [Names -> 0..MaxFiles] /\ NamesInv'
    <3>1. CASE name' = name
      BY <3>1, <2>1 DEF SinkTypeOK, NamesInv
    <3>2. CASE name' = [name EXCEPT ![index[p] + 1] = name[index[p]], ![index[p]] = 0]
      <4> DEFINE i == index[p]
      <4>1. name[i] \in 0..MaxFiles /\ 0 \in 0..MaxFiles /\ (name[i] = 0 \/ name[i] \in LogFiles)
        BY <2>2, SinkAssumption DEF SinkTypeOK, NamesInv
      <4>2. \A n \in Names : name'[n] \in {name[n], name[i], 0}
        BY <3>2 DEF SinkTypeOK
      <4>3. name' = [n \in Names |-> name'[n]]
        BY <3>2 DEF SinkTypeOK
      <4> QED
        BY <2>1, <4>1, <4>2, <4>3 DEF SinkTypeOK, NamesInv
    <3> QED
      BY <1>4, <3>1, <3>2 DEF Shift
  <2>4. \/ pc' = [pc EXCEPT ![p] = "reopening"] /\ index' = index
        \/ pc' = pc /\ index[p] # 0 /\ index' = [index EXCEPT ![p] = index[p] - 1]
    BY <1>4 DEF Shift, LoopEnds
  <2>5. SinkTypeOK'
    <3>1. index[p] # 0 => index[p] - 1 \in Names
      BY <2>2, SinkAssumption DEF Names
    <3>2. pc' \in [Processes -> {"down", "idle", "writing"} \union Rotating]
      BY <2>4 DEF SinkTypeOK, Rotating
    <3>3. index' \in [Processes -> Names]
      BY <2>4, <3>1 DEF SinkTypeOK
    <3> QED
      BY <2>1, <2>3, <3>2, <3>3 DEF SinkTypeOK
  <2>6. HolderInv'
    BY <2>1, <2>4 DEF SinkTypeOK, HolderInv, Serving, Rotating
  <2> QED
    BY <2>1, <2>3, <2>5, <2>6
<1>5. ASSUME NEW p \in Processes, Reopen(p) PROVE Goal
  <2>1. /\ pc[p] = "reopening" /\ OpenFile(p) /\ pc' = [pc EXCEPT ![p] = "writing"]
        /\ UNCHANGED <<index, healthy, lives, request, sinkHolder, effects>>
    BY <1>5 DEF Reopen
  <2>2. /\ Grown /\ NamesInv' /\ name' \in [Names -> 0..MaxFiles] /\ fd' \in [Processes -> 0..MaxFiles]
        /\ bytes' \in [Processes -> Nat] /\ fd'[p] \in LogFiles'
        /\ \A q \in Processes \ {p} : fd'[q] = fd[q]
    BY <2>1, OpenFileOpens
  <2>3. SinkTypeOK'
    BY <2>1, <2>2 DEF SinkTypeOK, Grown
  <2>4. HolderInv'
    BY <2>1, <2>2 DEF SinkTypeOK, HolderInv, Grown, Serving, Rotating
  <2> QED
    BY <2>2, <2>3, <2>4
<1>6. ASSUME NEW p \in Processes, RotationFails(p) \/ WriteFails(p) PROVE Goal
  <2>1. /\ pc[p] \in Serving /\ pc' = [pc EXCEPT ![p] = "idle"] /\ healthy' = healthy \ {p}
        /\ request' = [request EXCEPT ![sinkHolder[p]] = "unavailable"]
        /\ sinkHolder' = [sinkHolder EXCEPT ![p] = Unheld]
        /\ UNCHANGED <<index, lives, effects>>
    BY <1>6 DEF RotationFails, WriteFails, Fails, Poisoned, Serving
  <2>2. /\ Grown /\ NamesInv' /\ name' \in [Names -> 0..MaxFiles] /\ fd' \in [Processes -> 0..MaxFiles]
        /\ bytes' \in [Processes -> Nat] /\ \A q \in Processes \ {p} : fd'[q] = fd[q]
    <3>1. CASE OpenFile(p)
      BY <3>1, OpenFileOpens
    <3>2. CASE UNCHANGED <<name, data, fd, bytes>>
      BY <3>2, <1>0 DEF SinkTypeOK, NamesInv
    <3>3. CASE WriteFails(p)
      <4>1. Grown /\ LogFiles' = LogFiles /\ UNCHANGED <<name, fd, bytes>>
        BY <3>3, DebrisGrows DEF WriteFails
      <4> QED
        BY <4>1 DEF SinkTypeOK, NamesInv
    <3> QED
      BY <1>6, <3>1, <3>2, <3>3 DEF RotationFails
  <2>3. SinkTypeOK'
    BY <2>1, <2>2 DEF SinkTypeOK, Grown, Answered
  <2>4. HolderInv'
    BY <2>1, <2>2 DEF SinkTypeOK, HolderInv, Grown, Serving, Rotating
  <2> QED
    BY <2>2, <2>3, <2>4
<1>7. ASSUME NEW p \in Processes, Write(p) PROVE Goal
  <2>1. /\ pc[p] = "writing" /\ AppendPiece(p, TRUE) /\ pc' = [pc EXCEPT ![p] = "idle"]
        /\ bytes' = [bytes EXCEPT ![p] = @ + 1]
        /\ request' = [request EXCEPT ![sinkHolder[p]] = NextState(sinkHolder[p])]
        /\ sinkHolder' = [sinkHolder EXCEPT ![p] = Unheld]
        /\ UNCHANGED <<name, index, fd, healthy, lives, effects>>
    BY <1>7 DEF Write
  <2>2. Grown /\ LogFiles' = LogFiles
    BY <2>1, AppendPieceGrows
  <2>3. request' \in [Requests -> {"new", "allowed"} \union Waiting \union Answered]
    BY <2>1 DEF SinkTypeOK, NextState, Answered
  <2>4. SinkTypeOK'
    BY <2>1, <2>2, <2>3 DEF SinkTypeOK, Grown
  <2>5. HolderInv'
    BY <2>1, <2>2 DEF SinkTypeOK, HolderInv, Serving, Rotating
  <2>6. NamesInv'
    BY <2>1, <2>2 DEF NamesInv
  <2> QED
    BY <2>2, <2>4, <2>5, <2>6
<1>8. ASSUME NEW r \in Requests, Receive(r) \/ Act(r) PROVE Goal
  <2>1. Grown /\ LogFiles' = LogFiles /\ UNCHANGED <<name, data, sinkVars>>
    BY <1>8, <1>0 DEF Receive, Act
  <2>2. /\ request[r] \in {"new", "allowed"} /\ effects' \in {effects, effects \union {r}}
        /\ \/ request' = [request EXCEPT ![r] = "deciding"]
           \/ request' = [request EXCEPT ![r] = "concluding"]
    BY <1>8 DEF Receive, Act, Decided
  <2>3. SinkTypeOK'
    BY <2>1, <2>2 DEF SinkTypeOK, Waiting, sinkVars
  <2>4. HolderInv'
    BY <2>1, <2>2 DEF SinkTypeOK, HolderInv, Waiting, sinkVars
  <2>5. NamesInv'
    BY <2>1 DEF NamesInv
  <2> QED
    BY <2>1, <2>3, <2>4, <2>5
<1>9. ASSUME NEW r \in Requests, BeginAppend(r) PROVE Goal
  <2> DEFINE p == ProcOf[r]
  <2>1. p \in Processes
    BY SinkAssumption
  <2>2. Grown /\ LogFiles' = LogFiles
    BY <1>9, <1>0 DEF BeginAppend
  <2>3. /\ request[r] \in Waiting /\ pc[p] = "idle"
        /\ UNCHANGED <<name, data, index, fd, bytes, healthy, lives, effects>>
    BY <1>9 DEF BeginAppend
  <2>4. CASE p \in healthy
    <3>1. /\ pc' = [pc EXCEPT ![p] = IF MustRotate(p) THEN "removing" ELSE "writing"]
          /\ sinkHolder' = [sinkHolder EXCEPT ![p] = r] /\ request' = request
      BY <1>9, <2>4 DEF BeginAppend
    <3>2. SinkTypeOK'
      BY <2>1, <2>3, <3>1 DEF SinkTypeOK, Rotating
    <3>3. HolderInv'
      BY <2>1, <2>2, <2>3, <2>4, <3>1 DEF SinkTypeOK, HolderInv, Serving, Rotating
    <3> QED
      BY <2>2, <2>3, <3>2, <3>3 DEF NamesInv
  <2>5. CASE p \notin healthy
    <3>1. request' = [request EXCEPT ![r] = "unavailable"] /\ UNCHANGED <<pc, sinkHolder>>
      BY <1>9, <2>5 DEF BeginAppend, Refused
    <3>2. SinkTypeOK'
      BY <2>3, <3>1 DEF SinkTypeOK, Answered
    <3>3. HolderInv'
      BY <2>1, <2>2, <2>3, <2>5, <3>1 DEF SinkTypeOK, HolderInv, Serving, Rotating
    <3> QED
      BY <2>2, <2>3, <3>2, <3>3 DEF NamesInv
  <2> QED
    BY <2>4, <2>5
<1>10. CASE UNCHANGED auditVars
  BY <1>10, <1>0 DEF auditVars, sinkVars, SinkTypeOK, HolderInv, NamesInv
<1> QED
  BY <1>1, <1>2, <1>3, <1>4, <1>5, <1>6, <1>7, <1>8, <1>9, <1>10 DEF SinkNext

LEMMA RecordedStays ==
  ASSUME Grown, NEW r \in Requests, NEW phase, Recorded(r, phase)
  PROVE  Recorded(r, phase)'
  BY DEF Grown, Recorded

(* A request goes on only when the record it needs has been appended.      *)
LEMMA RecordStep ==
  SinkTypeOK /\ HolderInv /\ NamesInv /\ RecordInv /\ [SinkNext]_auditVars => RecordInv'
<1> SUFFICES ASSUME SinkTypeOK, HolderInv, NamesInv, RecordInv, [SinkNext]_auditVars PROVE RecordInv'
  OBVIOUS
<1>0. Grown
  BY HolderStep
<1>1. \A r \in Requests : /\ Recorded(r, "decision") => Recorded(r, "decision")'
                          /\ Recorded(r, "outcome") => Recorded(r, "outcome")'
  BY <1>0, RecordedStays
<1>2. effects \subseteq Requests
  BY DEF SinkTypeOK
<1> USE DEF RecordInv
<1>3. ASSUME NEW p \in Processes, Write(p) PROVE RecordInv'
  <2> DEFINE q == sinkHolder[p]
  <2>1. /\ pc[p] = "writing" /\ AppendPiece(p, TRUE) /\ effects' = effects
        /\ request' = [request EXCEPT ![q] = NextState(q)]
    BY <1>3 DEF Write
  <2>2. q \in Requests /\ request[q] \in Waiting
    BY <2>1 DEF HolderInv, Serving
  <2>3. PICK k \in DOMAIN data'[fd[p]] : data'[fd[p]][k] = Piece(p, TRUE)
    BY <2>1, AppendPieceGrows
  <2>4. fd[p] \in LogFiles'
    BY <2>1, AppendPieceGrows
  <2>5. ASSUME NEW r \in Requests, NEW phase \in {"decision", "outcome"}, r = q, phase = Phase(q)
        PROVE  Recorded(r, phase)'
    <3>1. Piece(p, TRUE).req = q /\ Piece(p, TRUE).phase = Phase(q) /\ Piece(p, TRUE).whole
      BY DEF Piece
    <3> HIDE DEF Piece
    <3>2. data'[fd[p]][k].req = r /\ data'[fd[p]][k].phase = phase /\ data'[fd[p]][k].whole
      BY <2>3, <2>5, <3>1, Zenon
    <3> QED
      BY <2>3, <2>4, <3>2 DEF Recorded
  <2>6. /\ request[q] = "deciding" => \A r \in Requests : r = q => Recorded(r, "decision")'
        /\ request[q] = "concluding" => \A r \in Requests : r = q => Recorded(r, "outcome")'
    BY <2>5 DEF Phase
  <2>7. ASSUME NEW r \in Requests
        PROVE  /\ request'[r] \in {"allowed", "concluding", "ok"} => Recorded(r, "decision")'
               /\ request'[r] = "ok" => Recorded(r, "outcome")'
    BY <1>1, <2>1, <2>2, <2>6 DEF SinkTypeOK, NextState, Waiting
  <2> QED
    BY <1>1, <1>2, <2>1, <2>7
<1>4. ASSUME NEW r \in Requests, Receive(r) \/ BeginAppend(r) \/ Act(r) PROVE RecordInv'
  BY <1>1, <1>2, <1>4 DEF Receive, BeginAppend, Act, Decided, Refused, SinkTypeOK
<1>5. ASSUME NEW p \in Processes, SinkCrash(p) PROVE RecordInv'
  BY <1>1, <1>2, <1>5 DEF SinkCrash, Answered
<1>6. ASSUME NEW p \in Processes, RotationFails(p) \/ WriteFails(p) PROVE RecordInv'
  BY <1>1, <1>2, <1>6 DEF RotationFails, WriteFails, Fails, SinkTypeOK
<1>7. ASSUME NEW p \in Processes, Start(p) \/ RemoveRetained(p) \/ Shift(p) \/ Reopen(p)
      PROVE RecordInv'
  BY <1>1, <1>2, <1>7 DEF Start, RemoveRetained, Shift, Reopen
<1>8. CASE UNCHANGED auditVars
  BY <1>1, <1>2, <1>8 DEF auditVars
<1> QED
  BY <1>3, <1>4, <1>5, <1>6, <1>7, <1>8 DEF SinkNext

LEMMA SinkInductive == SinkSafety => []SinkInv
<1>1. SinkInit => SinkInv
  BY SinkStarts DEF LogInv
<1>2. SinkInv /\ [SinkNext]_auditVars => SinkInv'
  BY HolderStep, RecordStep DEF SinkInv
<1> QED
  BY <1>1, <1>2, PTL DEF SinkSafety

(* However many processes share the log, and wherever they end: no request *)
(* acts before its decision is on disk, and none answers success without   *)
(* both its records.                                                       *)
THEOREM EffectsAreAudited == SinkSafety => []EffectIsAudited
<1>1. SinkInv => EffectIsAudited
  BY DEF SinkInv, RecordInv, EffectIsAudited
<1> QED
  BY <1>1, SinkInductive, PTL

(* A rename moves a file to the free name above, which stays a file's own. *)
LEMMA ShiftMoves ==
  ASSUME SinkTypeOK, OwnerInv, NEW p \in Processes, Shift(p), NEW i, i = index[p]
  PROVE  /\ i \in Nat /\ i < Retained /\ i \in Names /\ i + 1 \in Names
         /\ name[i + 1] = 0 /\ name'[i + 1] = name[i] /\ name'[i] = 0
         /\ \A n \in Names \ {i, i + 1} : name'[n] = name[n]
         /\ data' = data /\ LogFiles' = LogFiles /\ Kept' = Kept
<1>1. i \in Nat /\ i < Retained /\ i \in Names /\ i + 1 \in Names /\ name[i + 1] = 0
  BY SinkAssumption DEF SinkTypeOK, OwnerInv, Shift, Names
<1>2. name'[i + 1] = name[i] /\ name'[i] = 0 /\ \A n \in Names \ {i, i + 1} : name'[n] = name[n]
  <2>1. CASE name[i] = 0
    BY <1>1, <2>1 DEF Shift
  <2>2. CASE name[i] # 0
    <3>1. name' = [name EXCEPT ![i + 1] = name[i], ![i] = 0]
      BY <2>2 DEF Shift
    <3> QED
      BY <1>1, <3>1 DEF SinkTypeOK
  <2> QED
    BY <2>1, <2>2
<1>3. data' = data /\ LogFiles' = LogFiles
  BY DEF Shift, LogFiles
<1>4. Kept' = Kept
  <2>1. ASSUME NEW n \in Names, name[n] # 0 PROVE \E m \in Names : name'[m] = name[n]
    BY <1>1, <1>2, <2>1
  <2>2. ASSUME NEW n \in Names, name'[n] # 0 PROVE \E m \in Names : name[m] = name'[n]
    BY <1>1, <1>2, <2>2
  <2> QED
    BY <2>1, <2>2 DEF Kept
<1> QED
  BY <1>1, <1>2, <1>3, <1>4

(* The owner's sink knows the file it appends to and how full it is.       *)
LEMMA OwnerStep ==
  ASSUME \A p, q \in Processes : p = q, LogInv, [SinkNext]_auditVars
  PROVE  OwnerInv' /\ FilesAreBounded'
<1> DEFINE Goal == OwnerInv' /\ FilesAreBounded'
<1>0. SinkTypeOK /\ HolderInv /\ NamesInv /\ OwnerInv /\ FilesAreBounded
  BY DEF LogInv, SinkInv
<1> DEFINE Owned(p) ==
      /\ pc[p] = "shifting" => index[p] < Retained /\ name[index[p] + 1] = 0
      /\ pc[p] = "reopening" => name[0] = 0
      /\ p \in healthy /\ pc[p] \notin Rotating =>
           name[0] # 0 /\ fd[p] = name[0] /\ bytes[p] = Len(data[fd[p]])
      /\ pc[p] = "writing" => bytes[p] + 1 <= Cap
<1>a. ASSUME NEW p \in Processes, Owned(p)' PROVE OwnerInv'
  BY <1>a DEF OwnerInv
<1>b. ASSUME NEW p \in Processes PROVE Owned(p)
  BY <1>0 DEF OwnerInv
<1>c. ASSUME data' = data PROVE FilesAreBounded'
  BY <1>0, <1>c DEF FilesAreBounded, LogFiles
<1>d. ASSUME NEW p \in Processes, OpenFile(p)
      PROVE  /\ FilesAreBounded' /\ name'[0] # 0 /\ fd'[p] = name'[0] /\ bytes'[p] = Len(data'[fd'[p]])
             /\ name[0] = 0 => bytes'[p] = 0
  <2>1. /\ fd'[p] = name'[0] /\ fd'[p] \in LogFiles' /\ bytes'[p] = Len(data'[fd'[p]])
        /\ \A f \in LogFiles : data'[f] = data[f]
        /\ \/ name[0] # 0 /\ name' = name /\ LogFiles' = LogFiles
           \/ /\ name[0] = 0 /\ name'[0] = Len(data) + 1 /\ Len(data'[Len(data) + 1]) = 0
              /\ LogFiles' = LogFiles \union {Len(data) + 1}
    BY <1>0, <1>d, OpenFileOpens
  <2>2. LogFiles = 1..Len(data) /\ Len(data) \in Nat
    BY <1>0 DEF SinkTypeOK, LogFiles
  <2>3. FilesAreBounded'
    BY <1>0, <2>1, SinkAssumption DEF FilesAreBounded
  <2> QED
    BY <1>0, <2>1, <2>2, <2>3 DEF SinkTypeOK
<1>1. ASSUME NEW p \in Processes, Start(p) PROVE Goal
  <2>1. pc'[p] = "idle" /\ (OpenFile(p) \/ (data' = data /\ p \notin healthy'))
    BY <1>0, <1>1 DEF Start, SinkTypeOK
  <2>2. Owned(p)'
    BY <2>1, <1>d DEF Rotating
  <2> QED
    BY <1>a, <1>c, <1>d, <2>1, <2>2
<1>2. ASSUME NEW p \in Processes, pc[p] = "writing",
             LeaveDebris(p) \/ AppendPiece(p, TRUE)
      PROVE  /\ FilesAreBounded'
             /\ AppendPiece(p, TRUE) => Len(data'[fd[p]]) = bytes[p] + 1
  <2>1. fd[p] = name[0] /\ bytes[p] = Len(data[fd[p]]) /\ bytes[p] + 1 <= Cap /\ bytes[p] \in Nat
    BY <1>0, <1>2, <1>b DEF HolderInv, Serving, Rotating, SinkTypeOK
  <2>2. ASSUME NEW w \in BOOLEAN, AppendPiece(p, w)
        PROVE  FilesAreBounded' /\ Len(data'[fd[p]]) = bytes[p] + 1
    <3>1. /\ LogFiles' = LogFiles /\ fd[p] \in LogFiles
          /\ \A g \in LogFiles \ {fd[p]} : data'[g] = data[g]
          /\ Len(data'[fd[p]]) = Len(data[fd[p]]) + 1
      BY <1>0, <1>2, <2>2, AppendPieceGrows
    <3> QED
      BY <1>0, <2>1, <3>1 DEF FilesAreBounded
  <2> QED
    BY <1>2, <1>c, <2>2 DEF LeaveDebris
<1>3. ASSUME NEW p \in Processes, SinkCrash(p) PROVE Goal
  <2>1. pc'[p] = "down" /\ p \notin healthy'
    BY <1>0, <1>3 DEF SinkCrash, SinkTypeOK
  <2>2. Owned(p)'
    BY <2>1
  <2> QED
    BY <1>2, <1>3, <1>a, <1>c, <2>2 DEF SinkCrash
<1>4. ASSUME NEW p \in Processes, RemoveRetained(p) PROVE Goal
  <2>1. /\ name' = [name EXCEPT ![Retained] = 0] /\ pc'[p] = "shifting" /\ index'[p] = Retained - 1
        /\ data' = data
    BY <1>0, <1>4 DEF RemoveRetained, Oldest, SinkTypeOK
  <2>2. name'[Retained] = 0
    BY <1>0, <2>1, SinkAssumption DEF SinkTypeOK, Names
  <2>3. index'[p] < Retained /\ index'[p] + 1 = Retained
    BY <2>1, SinkAssumption
  <2>4. Owned(p)'
    BY <2>1, <2>2, <2>3 DEF Rotating
  <2> QED
    BY <1>a, <1>c, <2>1, <2>4
<1>5. ASSUME NEW p \in Processes, Shift(p) PROVE Goal
  <2> DEFINE i == index[p]
  <2>1. i \in Nat /\ i < Retained /\ name'[i] = 0 /\ data' = data
    BY <1>0, <1>5, ShiftMoves
  <2>2. \/ pc'[p] = "reopening" /\ i = 0
        \/ pc'[p] = "shifting" /\ index'[p] = i - 1
    BY <1>0, <1>5 DEF Shift, LoopEnds, SinkTypeOK
  <2>3. Owned(p)'
    BY <2>1, <2>2, SinkAssumption DEF Rotating
  <2> QED
    BY <1>a, <1>c, <2>1, <2>3
<1>6. ASSUME NEW p \in Processes, Reopen(p) PROVE Goal
  <2>1. pc'[p] = "writing" /\ OpenFile(p) /\ name[0] = 0
    BY <1>0, <1>6, <1>b DEF Reopen, SinkTypeOK
  <2>2. bytes'[p] = 0 /\ bytes'[p] + 1 <= Cap
    BY <2>1, <1>d, SinkAssumption
  <2>3. Owned(p)'
    BY <2>1, <2>2, <1>d DEF Rotating
  <2> QED
    BY <1>a, <1>d, <2>1, <2>3
<1>7. ASSUME NEW p \in Processes, RotationFails(p) \/ WriteFails(p) PROVE Goal
  <2>1. pc'[p] = "idle" /\ p \notin healthy'
    BY <1>0, <1>7 DEF RotationFails, WriteFails, Fails, Poisoned, SinkTypeOK
  <2>2. Owned(p)'
    BY <2>1
  <2>3. FilesAreBounded'
    BY <1>2, <1>7, <1>c, <1>d DEF RotationFails, WriteFails
  <2> QED
    BY <1>a, <2>2, <2>3
<1>8. ASSUME NEW p \in Processes, Write(p) PROVE Goal
  <2>1. /\ pc[p] = "writing" /\ pc'[p] = "idle" /\ AppendPiece(p, TRUE) /\ bytes'[p] = bytes[p] + 1
        /\ UNCHANGED <<name, fd, healthy>>
    BY <1>0, <1>8 DEF Write, SinkTypeOK
  <2>2. name[0] # 0 /\ fd[p] = name[0]
    BY <1>0, <2>1, <1>b DEF HolderInv, Serving, Rotating
  <2>3. Len(data'[fd[p]]) = bytes[p] + 1 /\ FilesAreBounded'
    BY <1>2, <2>1
  <2>4. Owned(p)'
    BY <2>1, <2>2, <2>3
  <2> QED
    BY <1>a, <2>3, <2>4
<1>9. ASSUME NEW r \in Requests, BeginAppend(r) PROVE Goal
  <2> DEFINE p == ProcOf[r]
  <2>1. p \in Processes /\ bytes[p] \in Nat
    BY <1>0, SinkAssumption DEF SinkTypeOK
  <2>2. /\ pc[p] = "idle" /\ UNCHANGED <<name, data, index, fd, bytes, healthy>>
        /\ \/ pc'[p] = "idle"
           \/ pc'[p] = "removing"
           \/ pc'[p] = "writing" /\ ~MustRotate(p) /\ p \in healthy
    BY <1>0, <1>9, <2>1 DEF BeginAppend, SinkTypeOK
  <2>3. ~MustRotate(p) => bytes[p] + 1 <= Cap
    BY <2>1, SinkAssumption DEF MustRotate
  <2>4. Owned(p)
    BY <2>1, <1>b
  <2>5. /\ pc'[p] = "shifting" => index'[p] < Retained /\ name'[index'[p] + 1] = 0
        /\ pc'[p] = "reopening" => name'[0] = 0
        /\ p \in healthy' /\ pc'[p] \notin Rotating =>
             name'[0] # 0 /\ fd'[p] = name'[0] /\ bytes'[p] = Len(data'[fd'[p]])
        /\ pc'[p] = "writing" => bytes'[p] + 1 <= Cap
    BY <2>2, <2>3, <2>4 DEF Rotating
  <2> HIDE DEF p
  <2>6. OwnerInv'
    BY <2>1, <2>5 DEF OwnerInv
  <2> QED
    BY <1>c, <2>2, <2>6
<1>10. CASE UNCHANGED <<name, data, pc, index, fd, bytes, healthy>>
  <2>1. OwnerInv'
    BY <1>0, <1>10 DEF OwnerInv
  <2> QED
    BY <1>10, <1>c, <2>1
<1>11. ASSUME NEW r \in Requests, Receive(r) \/ Act(r) PROVE Goal
  <2>1. UNCHANGED <<name, data, pc, index, fd, bytes, healthy>>
    BY <1>11 DEF Receive, Act, sinkVars
  <2> QED
    BY <1>10, <2>1
<1>12. CASE UNCHANGED auditVars
  <2>1. UNCHANGED <<name, data, pc, index, fd, bytes, healthy>>
    BY <1>12 DEF auditVars, sinkVars
  <2> QED
    BY <1>10, <2>1
<1> QED
  BY <1>1, <1>3, <1>4, <1>5, <1>6, <1>7, <1>8, <1>9, <1>11, <1>12 DEF SinkNext

(* A step opens a file, removes the oldest, renames one, or leaves all the *)
(* names and files as they are.                                            *)
LEMMA NamesChange ==
  ASSUME SinkTypeOK, HolderInv, [SinkNext]_auditVars
  PROVE  \/ name' = name /\ LogFiles' = LogFiles
         \/ \E p \in Processes : OpenFile(p) \/ RemoveRetained(p) \/ Shift(p)
<1> USE DEF LogFiles
<1>1. ASSUME NEW p \in Processes, SinkCrash(p) \/ Write(p) \/ WriteFails(p)
      PROVE  name' = name /\ LogFiles' = LogFiles
  <2>1. CASE data' = data
    BY <1>1, <2>1 DEF SinkCrash, Write, WriteFails
  <2>2. CASE pc[p] = "writing" /\ \E w \in BOOLEAN : AppendPiece(p, w)
    BY <1>1, <2>2, AppendPieceGrows DEF SinkCrash, Write, WriteFails
  <2> QED
    BY <1>1, <2>1, <2>2 DEF SinkCrash, Write, WriteFails, LeaveDebris
<1>2. ASSUME NEW p \in Processes, Start(p) \/ Reopen(p) \/ RotationFails(p)
      PROVE  (name' = name /\ LogFiles' = LogFiles) \/ OpenFile(p)
  BY <1>2 DEF Start, Reopen, RotationFails
<1>3. ASSUME NEW r \in Requests, Receive(r) \/ BeginAppend(r) \/ Act(r)
      PROVE  name' = name /\ LogFiles' = LogFiles
  BY <1>3 DEF Receive, BeginAppend, Act
<1>4. CASE UNCHANGED auditVars
  BY <1>4 DEF auditVars
<1> QED
  BY <1>1, <1>2, <1>3, <1>4 DEF SinkNext

(* What opening does to the names in use.                                  *)
LEMMA OpenKeeps ==
  ASSUME SinkTypeOK, NamesInv, NEW p \in Processes, OpenFile(p)
  PROVE  \/ name' = name /\ LogFiles' = LogFiles /\ name[0] # 0
         \/ \E new \in Nat \ {0} :
              /\ \A f \in LogFiles : f < new
              /\ \A n \in Names : name[n] < new
              /\ name[0] = 0 /\ name'[0] = new /\ \A n \in Names \ {0} : name'[n] = name[n]
              /\ LogFiles' = LogFiles \union {new} /\ Kept' = Kept \union {new}
<1>1. /\ \A n \in Names \ {0} : name'[n] = name[n]
      /\ \/ name[0] # 0 /\ name' = name /\ LogFiles' = LogFiles
         \/ /\ name[0] = 0 /\ name'[0] = Len(data) + 1
            /\ LogFiles' = LogFiles \union {Len(data) + 1}
  BY OpenFileOpens
<1>2. LogFiles = 1..Len(data) /\ Len(data) \in Nat /\ 0 \in Names
  BY SinkAssumption DEF SinkTypeOK, LogFiles, Names
<1>3. ASSUME name[0] = 0, name'[0] = Len(data) + 1 PROVE Kept' = Kept \union {Len(data) + 1}
  <2>1. Len(data) + 1 # 0
    BY <1>2
  <2> QED
    BY <1>1, <1>2, <1>3, <2>1 DEF Kept
<1>4. (\A f \in LogFiles : f < Len(data) + 1) /\ (\A n \in Names : name[n] < Len(data) + 1)
  BY <1>2 DEF NamesInv
<1>5. Len(data) + 1 \in Nat \ {0}
  BY <1>2
<1> QED
  BY <1>1, <1>3, <1>4, <1>5

(* Rotation keeps the order, and what it loses is older than what it keeps. *)
LEMMA OrderStep == LogInv /\ [SinkNext]_auditVars => OrderInv'
<1> SUFFICES ASSUME LogInv, [SinkNext]_auditVars PROVE OrderInv'
  OBVIOUS
<1>0. SinkTypeOK /\ HolderInv /\ NamesInv /\ OwnerInv /\ OrderInv
  BY DEF LogInv, SinkInv
<1>a. /\ \A n \in Names : name[n] \in Nat
      /\ \A f \in LogFiles : f \in Nat
      /\ Names = 0..Retained /\ Retained \in Nat \ {0}
  BY <1>0, SinkAssumption DEF SinkTypeOK, Names, LogFiles
<1>1. CASE name' = name /\ LogFiles' = LogFiles
  BY <1>0, <1>1 DEF OrderInv, Kept
<1>2. ASSUME NEW p \in Processes, OpenFile(p) PROVE OrderInv'
  <2>1. ASSUME NEW new \in Nat \ {0},
               \A f \in LogFiles : f < new, \A n \in Names : name[n] < new,
               name'[0] = new, \A n \in Names \ {0} : name'[n] = name[n],
               LogFiles' = LogFiles \union {new}, Kept' = Kept \union {new}
        PROVE  OrderInv'
    <3>1. ASSUME NEW m \in Names, NEW n \in Names, m < n, name'[m] # 0, name'[n] # 0
          PROVE  name'[m] > name'[n]
      <4>1. n # 0 /\ name'[n] = name[n]
        BY <1>a, <2>1, <3>1
      <4> QED
        BY <1>0, <1>a, <2>1, <3>1, <4>1 DEF OrderInv
    <3>2. \A f \in LogFiles' \ Kept', g \in Kept' : f < g
      BY <1>0, <2>1 DEF OrderInv
    <3> QED
      BY <3>1, <3>2 DEF OrderInv
  <2> QED
    BY <1>0, <1>1, <1>2, <2>1, OpenKeeps
<1>3. ASSUME NEW p \in Processes, RemoveRetained(p) PROVE OrderInv'
  <2>1. LogFiles' = LogFiles /\ name'[Retained] = 0 /\ \A n \in Names \ {Retained} : name'[n] = name[n]
    <3>1. name' = [name EXCEPT ![Retained] = 0] /\ data' = data
      BY <1>3 DEF RemoveRetained, Oldest
    <3>2. name \in [Names -> 0..MaxFiles] /\ Retained \in Names
      BY <1>0, <1>a DEF SinkTypeOK
    <3> HIDE <1>a
    <3> QED
      BY <3>1, <3>2 DEF LogFiles
  <2>2. \A m, n \in Names : m < n /\ name'[m] # 0 /\ name'[n] # 0 => name'[m] > name'[n]
    BY <1>0, <2>1 DEF OrderInv
  <2>3. ASSUME NEW f \in LogFiles' \ Kept', NEW g \in Kept' PROVE f < g
    <3>1. PICK n \in Names : name[n] = g /\ n # Retained /\ g # 0
      BY <2>1 DEF Kept
    <3>2. CASE f \in Kept
      <4>1. f = name[Retained] /\ f # 0
        BY <2>1, <2>3, <3>2 DEF Kept
      <4>2. Retained \in Names /\ n < Retained
        BY <1>a, <3>1
      <4> QED
        BY <1>0, <1>a, <3>1, <4>1, <4>2 DEF OrderInv
    <3>3. CASE f \notin Kept
      <4>1. g \in Kept /\ f \in LogFiles
        BY <2>1, <3>1 DEF Kept
      <4> QED
        BY <1>0, <3>3, <4>1 DEF OrderInv
    <3> QED
      BY <3>2, <3>3
  <2> QED
    BY <2>2, <2>3 DEF OrderInv
<1>4. ASSUME NEW p \in Processes, Shift(p) PROVE OrderInv'
  <2> DEFINE i == index[p]
  <2>1. /\ i \in Nat /\ i \in Names /\ i + 1 \in Names /\ name[i + 1] = 0 /\ name'[i + 1] = name[i]
        /\ name'[i] = 0 /\ \A n \in Names \ {i, i + 1} : name'[n] = name[n]
        /\ LogFiles' = LogFiles /\ Kept' = Kept
    BY <1>0, <1>4, ShiftMoves
  <2> HIDE DEF i
  <2>2. ASSUME NEW m \in Names, NEW n \in Names, m < n, name'[m] # 0, name'[n] # 0
        PROVE  name'[m] > name'[n]
    <3>1. CASE m = i + 1
      BY <1>0, <1>a, <2>1, <2>2, <3>1 DEF OrderInv
    <3>2. CASE n = i + 1
      BY <1>0, <1>a, <2>1, <2>2, <3>2 DEF OrderInv
    <3>3. CASE m # i + 1 /\ n # i + 1
      BY <1>0, <1>a, <2>1, <2>2, <3>3 DEF OrderInv
    <3> QED
      BY <3>1, <3>2, <3>3
  <2> QED
    BY <1>0, <2>1, <2>2 DEF OrderInv
<1> QED
  BY <1>0, <1>1, <1>2, <1>3, <1>4, NamesChange

LEMMA GapsAreFinite == IsFiniteSet(Names) /\ Cardinality(Names) = Retained + 1 /\ Gaps \subseteq Names
  BY SinkAssumption, FS_Interval DEF Names, Gaps

LEMMA FewerThan ==
  ASSUME NEW S, NEW T, IsFiniteSet(T), S \subseteq T, NEW k \in Nat
  PROVE  /\ Cardinality(S) \in Nat /\ Cardinality(T) \in Nat
         /\ Cardinality(T) <= k => Cardinality(S) <= k
         /\ Cardinality(T) < k => Cardinality(S) < k
<1>1. IsFiniteSet(S) /\ Cardinality(S) <= Cardinality(T)
  BY FS_Subset
<1>2. Cardinality(S) \in Nat /\ Cardinality(T) \in Nat
  BY <1>1, FS_CardinalityType
<1> QED
  BY <1>1, <1>2

LEMMA OneMore ==
  ASSUME NEW S, IsFiniteSet(S), NEW x, NEW k \in Nat, Cardinality(S \ {x}) < k
  PROVE  Cardinality(S) <= k
<1>1. Cardinality(S) \in Nat /\ Cardinality(S \ {x}) = IF x \in S THEN Cardinality(S) - 1 ELSE Cardinality(S)
  BY FS_RemoveElement, FS_CardinalityType
<1> QED
  BY <1>1

(* An open file fills the first name, and opens no gap.                    *)
LEMMA OpenFillsGap ==
  ASSUME SinkTypeOK, NamesInv, NEW p \in Processes, OpenFile(p)
  PROVE  Gaps' \subseteq Gaps /\ (name[0] = 0 => Gaps' \subseteq Gaps \ {0})
<1>1. CASE name' = name /\ LogFiles' = LogFiles /\ name[0] # 0
  BY <1>1 DEF Gaps, Lost, Kept
<1>2. ASSUME NEW new \in Nat \ {0}, \A f \in LogFiles : f < new, \A n \in Names : name[n] < new,
             name[0] = 0, name'[0] = new, \A n \in Names \ {0} : name'[n] = name[n],
             LogFiles' = LogFiles \union {new}, Kept' = Kept \union {new}
      PROVE  Gaps' \subseteq Gaps \ {0}
  <2>1. Lost' => Lost
    BY <1>2 DEF Lost
  <2>2. ASSUME NEW n \in Names, name'[n] = 0, NEW m \in Names, m > n, name'[m] # 0
        PROVE  name[n] = 0 /\ name[m] # 0
    <3>1. n # 0 /\ m # 0
      BY <1>2, <2>2, SinkAssumption DEF Names
    <3> QED
      BY <1>2, <2>2, <3>1
  <2> QED
    BY <1>2, <2>1, <2>2 DEF Gaps
<1> QED
  BY <1>1, <1>2, OpenKeeps

(* A removal opens no gap but the one at the name it frees.                *)
LEMMA RemoveOpensOne ==
  ASSUME SinkTypeOK, NEW p \in Processes, RemoveRetained(p)
  PROVE  Gaps' \ {Retained} \subseteq Gaps \ {Retained}
<1>1. Names = 0..Retained /\ Retained \in Names /\ Retained \in Nat
  BY SinkAssumption DEF Names
<1>2. LogFiles' = LogFiles /\ name'[Retained] = 0 /\ \A n \in Names \ {Retained} : name'[n] = name[n]
  <2>1. name' = [name EXCEPT ![Retained] = 0] /\ data' = data
    BY DEF RemoveRetained, Oldest
  <2>2. name \in [Names -> 0..MaxFiles] /\ Retained \in Names
    BY <1>1 DEF SinkTypeOK
  <2> QED
    BY <2>1, <2>2 DEF LogFiles
<1>3. Lost' => Lost \/ name[Retained] # 0
  BY <1>2 DEF Lost, Kept
<1>4. ASSUME NEW n \in Names \ {Retained}, n \in Gaps' PROVE n \in Gaps
  <2>1. name[n] = 0 /\ n < Retained
    BY <1>1, <1>2, <1>4 DEF Gaps
  <2>2. CASE Lost'
    BY <1>1, <1>3, <2>1, <2>2 DEF Gaps
  <2>3. ASSUME NEW m \in Names, m > n, name'[m] # 0 PROVE n \in Gaps
    BY <1>2, <2>1, <2>3 DEF Gaps
  <2> QED
    BY <1>4, <2>2, <2>3 DEF Gaps
<1> QED
  BY <1>4 DEF Gaps

(* A rename moves the free name down, and opens no other gap.              *)
LEMMA ShiftMovesGap ==
  ASSUME SinkTypeOK, OwnerInv, NEW p \in Processes, Shift(p), NEW i, i = index[p],
         NEW k \in Nat, Cardinality(Gaps \ {i + 1}) < k
  PROVE  Cardinality(Gaps' \ {i}) < k
<1>1. /\ i \in Nat /\ i \in Names /\ i + 1 \in Names /\ name[i + 1] = 0 /\ name'[i + 1] = name[i]
      /\ name'[i] = 0 /\ \A n \in Names \ {i, i + 1} : name'[n] = name[n]
      /\ LogFiles' = LogFiles /\ Kept' = Kept
  BY ShiftMoves
<1>2. IsFiniteSet(Gaps)
  BY GapsAreFinite, FS_Subset
<1>3. \A n \in Names : n \in Nat
  BY SinkAssumption DEF Names
<1>4. CASE name[i] # 0
  <2>1. ASSUME NEW n \in Gaps' \ {i} PROVE n \in Gaps \ {i + 1}
    <3>1. n \in Names /\ name'[n] = 0 /\ n # i /\ n # i + 1 /\ name[n] = 0
      BY <1>1, <1>4, <2>1 DEF Gaps
    <3>2. CASE Lost'
      BY <1>1, <3>1, <3>2 DEF Gaps, Lost
    <3>3. ASSUME NEW m \in Names, m > n, name'[m] # 0 PROVE n \in Gaps
      <4>1. CASE m = i + 1
        <5>1. i > n
          BY <1>1, <1>3, <3>1, <3>3, <4>1
        <5> QED
          BY <1>1, <1>4, <3>1, <5>1 DEF Gaps
      <4>2. CASE m # i + 1
        <5>1. name[m] # 0
          BY <1>1, <3>3, <4>2
        <5> QED
          BY <3>1, <3>3, <5>1 DEF Gaps
      <4> QED
        BY <4>1, <4>2
    <3> QED
      BY <2>1, <3>1, <3>2, <3>3 DEF Gaps
  <2>2. IsFiniteSet(Gaps \ {i + 1})
    BY <1>2, FS_RemoveElement
  <2>3. Gaps' \ {i} \subseteq Gaps \ {i + 1}
    BY <2>1
  <2> QED
    BY <2>2, <2>3, FewerThan
<1>5. CASE name[i] = 0
  <2>1. \A n \in Names : name'[n] = name[n]
    BY <1>1, <1>5
  <2>2. Gaps' = Gaps
    BY <1>1, <2>1 DEF Gaps, Lost
  <2>3. i \in Gaps <=> i + 1 \in Gaps
    <3>1. ASSUME NEW m \in Names, name[m] # 0 PROVE m > i <=> m > i + 1
      BY <1>1, <1>3, <1>5, <3>1
    <3> QED
      BY <1>1, <1>5, <3>1 DEF Gaps
  <2>4. Cardinality(Gaps \ {i}) = Cardinality(Gaps \ {i + 1})
    <3>1. Cardinality(Gaps \ {i}) = IF i \in Gaps THEN Cardinality(Gaps) - 1 ELSE Cardinality(Gaps)
      BY <1>2, FS_RemoveElement
    <3>2. Cardinality(Gaps \ {i + 1}) =
            IF i + 1 \in Gaps THEN Cardinality(Gaps) - 1 ELSE Cardinality(Gaps)
      BY <1>2, FS_RemoveElement
    <3> QED
      BY <2>3, <3>1, <3>2
  <2> QED
    BY <2>2, <2>4
<1> QED
  BY <1>4, <1>5

(* An ended life leaves at most one gap behind.                            *)
LEMMA GapStep ==
  ASSUME \A p, q \in Processes : p = q, LogInv, [SinkNext]_auditVars
  PROVE  GapInv'
<1>0. SinkTypeOK /\ HolderInv /\ NamesInv /\ OwnerInv /\ GapInv
  BY DEF LogInv, SinkInv
<1>a. /\ IsFiniteSet(Gaps) /\ IsFiniteSet(Gaps') /\ Cardinality(Gaps) \in Nat
      /\ Cardinality(Gaps') \in Nat
  <2>1. Gaps' \subseteq Names
    BY DEF Gaps
  <2>2. IsFiniteSet(Gaps) /\ IsFiniteSet(Gaps')
    BY <2>1, GapsAreFinite, FS_Subset
  <2> QED
    BY <2>2, FS_CardinalityType
<1>b. \A p \in Processes : lives[p] \in Nat
  BY <1>0 DEF SinkTypeOK
<1> DEFINE Bounded(p) ==
      /\ Cardinality(Gaps) <= lives[p]
      /\ p \in healthy /\ pc[p] \notin Rotating => Cardinality(Gaps) < lives[p]
      /\ pc[p] \in Rotating => Cardinality(Gaps \ {FreeName(p)}) < lives[p]
<1>c. ASSUME NEW p \in Processes, Bounded(p)' PROVE GapInv'
  BY <1>c DEF GapInv
<1>d. ASSUME NEW p \in Processes PROVE Bounded(p)
  BY <1>0 DEF GapInv
<1>e. name' = name /\ LogFiles' = LogFiles => Gaps' = Gaps
  BY DEF Gaps, Lost, Kept
<1>1. ASSUME NEW p \in Processes, Start(p) PROVE GapInv'
  <2>1. pc'[p] = "idle" /\ lives'[p] = lives[p] + 1
    BY <1>0, <1>1 DEF Start, SinkTypeOK
  <2>2. Gaps' \subseteq Gaps
    BY <1>0, <1>1, <1>e, OpenFillsGap DEF Start, LogFiles
  <2>3. Cardinality(Gaps') <= lives[p]
    BY <1>a, <1>b, <1>d, <2>2, FewerThan
  <2>4. Bounded(p)'
    BY <1>a, <1>b, <2>1, <2>3 DEF Rotating
  <2> QED
    BY <1>c, <2>4
<1>2. ASSUME NEW p \in Processes, SinkCrash(p) \/ RotationFails(p) \/ WriteFails(p) PROVE GapInv'
  <2>1. pc'[p] \in {"down", "idle"} /\ p \notin healthy' /\ lives' = lives
    BY <1>0, <1>2 DEF SinkCrash, RotationFails, WriteFails, Fails, Poisoned, SinkTypeOK
  <2>2. Gaps' \subseteq Gaps
    <3>1. CASE OpenFile(p)
      BY <1>0, <3>1, OpenFillsGap
    <3>2. CASE UNCHANGED <<name, data>>
      BY <1>e, <3>2 DEF LogFiles
    <3>3. CASE pc[p] = "writing" /\ LeaveDebris(p) /\ name' = name
      BY <1>0, <1>e, <3>3, DebrisGrows
    <3> QED
      BY <1>2, <3>1, <3>2, <3>3 DEF SinkCrash, RotationFails, WriteFails
  <2>3. Cardinality(Gaps') <= lives[p]
    BY <1>a, <1>b, <1>d, <2>2, FewerThan
  <2>4. Bounded(p)'
    BY <2>1, <2>3 DEF Rotating
  <2> QED
    BY <1>c, <2>4
<1>3. ASSUME NEW p \in Processes, RemoveRetained(p) PROVE GapInv'
  <2>1. /\ pc[p] = "removing" /\ pc'[p] = "shifting" /\ index'[p] = Retained - 1 /\ lives' = lives
    BY <1>0, <1>3 DEF RemoveRetained, SinkTypeOK
  <2>2. Cardinality(Gaps \ {Retained}) < lives[p]
    BY <1>d, <2>1 DEF FreeName, Rotating
  <2>3. IsFiniteSet(Gaps \ {Retained})
    BY <1>a, FS_RemoveElement
  <2>4. Cardinality(Gaps' \ {Retained}) < lives[p]
    BY <1>0, <1>3, <1>b, <2>2, <2>3, RemoveOpensOne, FewerThan
  <2>5. Cardinality(Gaps') <= lives[p]
    BY <1>a, <1>b, <2>4, OneMore
  <2>6. FreeName(p)' = Retained
    BY <2>1, SinkAssumption DEF FreeName
  <2>7. Bounded(p)'
    BY <2>1, <2>4, <2>5, <2>6 DEF Rotating
  <2> QED
    BY <1>c, <2>7
<1>4. ASSUME NEW p \in Processes, Shift(p) PROVE GapInv'
  <2>1. pc[p] = "shifting" /\ lives' = lives /\ index[p] \in Nat
    BY <1>0, <1>4, ShiftMoves DEF Shift
  <2>2. Cardinality(Gaps \ {index[p] + 1}) < lives[p]
    BY <1>d, <2>1 DEF FreeName, Rotating
  <2>3. Cardinality(Gaps' \ {index[p]}) < lives[p]
    BY <1>0, <1>4, <1>b, <2>2, ShiftMovesGap
  <2>4. Cardinality(Gaps') <= lives[p]
    BY <1>a, <1>b, <2>3, OneMore
  <2>5. \/ pc'[p] = "reopening" /\ index[p] = 0
        \/ pc'[p] = "shifting" /\ index'[p] = index[p] - 1
    BY <1>0, <1>4 DEF Shift, LoopEnds, SinkTypeOK
  <2>6. FreeName(p)' = index[p]
    BY <2>1, <2>5 DEF FreeName
  <2>7. Bounded(p)'
    BY <2>1, <2>3, <2>4, <2>5, <2>6 DEF Rotating
  <2> QED
    BY <1>c, <2>7
<1>5. ASSUME NEW p \in Processes, Reopen(p) PROVE GapInv'
  <2>1. pc[p] = "reopening" /\ pc'[p] = "writing" /\ lives' = lives /\ OpenFile(p) /\ name[0] = 0
    BY <1>0, <1>5 DEF Reopen, SinkTypeOK, OwnerInv
  <2>2. Gaps' \subseteq Gaps \ {0} /\ IsFiniteSet(Gaps \ {0})
    BY <1>0, <1>a, <2>1, OpenFillsGap, FS_RemoveElement
  <2>3. Cardinality(Gaps \ {0}) < lives[p]
    BY <1>d, <2>1 DEF FreeName, Rotating
  <2>4. Cardinality(Gaps') < lives[p]
    BY <1>b, <2>2, <2>3, FewerThan
  <2>5. Bounded(p)'
    BY <1>a, <1>b, <2>1, <2>4 DEF Rotating
  <2> QED
    BY <1>c, <2>5
<1>6. ASSUME NEW p \in Processes, Write(p) PROVE GapInv'
  <2>1. pc[p] = "writing" /\ pc'[p] = "idle" /\ lives' = lives /\ p \in healthy
    BY <1>0, <1>6 DEF Write, SinkTypeOK, HolderInv, Serving
  <2>2. Gaps' = Gaps
    BY <1>0, <1>6, <1>e, AppendPieceGrows DEF Write
  <2>3. Cardinality(Gaps) < lives[p] /\ Cardinality(Gaps) <= lives[p]
    BY <1>d, <2>1 DEF Rotating
  <2>4. Bounded(p)'
    BY <2>1, <2>2, <2>3 DEF Rotating
  <2> QED
    BY <1>c, <2>4
<1>7. ASSUME NEW r \in Requests, BeginAppend(r) PROVE GapInv'
  <2> DEFINE p == ProcOf[r]
  <2>1. p \in Processes
    BY SinkAssumption
  <2>2. /\ pc[p] = "idle" /\ UNCHANGED <<name, data, lives, healthy>>
        /\ \/ pc'[p] = "idle"
           \/ pc'[p] \in {"removing", "writing"} /\ p \in healthy
    BY <1>0, <1>7, <2>1 DEF BeginAppend, SinkTypeOK
  <2> HIDE DEF p
  <2>3. Gaps' = Gaps
    BY <1>e, <2>2 DEF LogFiles
  <2>4. Bounded(p)
    BY <2>1, <1>d
  <2>5. p \in healthy => Cardinality(Gaps) < lives[p]
    BY <2>2, <2>4 DEF Rotating
  <2>6. p \in healthy => \A x : Cardinality(Gaps \ {x}) < lives[p]
    BY <1>a, <1>b, <2>1, <2>5, FewerThan
  <2>7. ASSUME NEW q \in Processes PROVE Bounded(q)'
    <3>1. q = p
      BY <2>1
    <3>2. /\ Cardinality(Gaps') <= lives'[q]
          /\ q \in healthy' /\ pc'[q] \notin Rotating => Cardinality(Gaps') < lives'[q]
      BY <2>2, <2>3, <2>4, <2>5, <3>1
    <3>3. pc'[q] \in Rotating => Cardinality(Gaps' \ {FreeName(q)'}) < lives'[q]
      BY <2>2, <2>3, <2>6, <3>1 DEF Rotating
    <3> QED
      BY <3>2, <3>3
  <2> QED
    BY <2>7 DEF GapInv
<1>8. CASE UNCHANGED <<name, data, pc, index, healthy, lives>>
  <2>1. Gaps' = Gaps
    BY <1>e, <1>8 DEF LogFiles
  <2> QED
    BY <1>0, <1>8, <2>1 DEF GapInv, FreeName
<1>9. ASSUME NEW r \in Requests, Receive(r) \/ Act(r) PROVE GapInv'
  <2>1. UNCHANGED <<name, data, pc, index, healthy, lives>>
    BY <1>9 DEF Receive, Act, sinkVars
  <2> QED
    BY <1>8, <2>1
<1>10. CASE UNCHANGED auditVars
  <2>1. UNCHANGED <<name, data, pc, index, healthy, lives>>
    BY <1>10 DEF auditVars, sinkVars
  <2> QED
    BY <1>8, <2>1
<1> QED
  BY <1>1, <1>2, <1>3, <1>4, <1>5, <1>6, <1>7, <1>9, <1>10 DEF SinkNext

LEMMA LogInductive == ASSUME \A p, q \in Processes : p = q PROVE SinkSafety => []LogInv
<1>1. LogInv /\ [SinkNext]_auditVars => LogInv'
  <2> SUFFICES ASSUME LogInv, [SinkNext]_auditVars PROVE LogInv'
    OBVIOUS
  <2>1. SinkTypeOK' /\ HolderInv' /\ NamesInv' /\ RecordInv'
    BY HolderStep, RecordStep DEF LogInv, SinkInv
  <2>2. OwnerInv' /\ FilesAreBounded'
    BY OwnerStep
  <2>3. OrderInv' /\ GapInv'
    BY OrderStep, GapStep
  <2> QED
    BY <2>1, <2>2, <2>3 DEF LogInv, SinkInv
<1> QED
  BY <1>1, SinkStarts, PTL DEF SinkSafety

(* After a loss every free name is a gap, so the names in use are as many  *)
(* as the lives leave.                                                     *)
LEMMA KeptAreCounted ==
  ASSUME LogInv, Lost, NEW p \in Processes
  PROVE  Cardinality(Kept) + lives[p] > Retained
<1> DEFINE Used == Names \ Gaps
<1>0. SinkTypeOK /\ OrderInv /\ Cardinality(Gaps) <= lives[p] /\ lives[p] \in Nat
  <2>1. SinkTypeOK /\ OrderInv /\ Cardinality(Gaps) <= lives[p]
    BY DEF LogInv, SinkInv, GapInv
  <2> QED
    BY <2>1 DEF SinkTypeOK
<1>1. Used = {n \in Names : name[n] # 0}
  BY DEF Gaps
<1>2. /\ IsFiniteSet(Gaps) /\ IsFiniteSet(Used) /\ Cardinality(Gaps) \in Nat
      /\ Cardinality(Used) = Retained + 1 - Cardinality(Gaps)
  <2> DEFINE T == Names \cap Gaps
  <2>1. T = Gaps
    BY GapsAreFinite
  <2>2. IsFiniteSet(Gaps)
    BY GapsAreFinite, FS_Subset
  <2>3. Cardinality(Gaps) \in Nat
    BY <2>2, FS_CardinalityType
  <2>4. IsFiniteSet(Used) /\ Cardinality(Used) = Cardinality(Names) - Cardinality(T)
    BY GapsAreFinite, FS_Difference
  <2>5. Cardinality(Names) = Retained + 1
    BY GapsAreFinite
  <2> HIDE DEF Used, T
  <2>6. Cardinality(T) = Cardinality(Gaps)
    BY <2>1
  <2>7. Cardinality(Used) = Retained + 1 - Cardinality(Gaps)
    BY <2>3, <2>4, <2>5, <2>6, SinkAssumption
  <2> QED
    BY <2>2, <2>3, <2>4, <2>7
<1> HIDE DEF Used
<1>3. Cardinality(Kept) = Cardinality(Used)
  <2> DEFINE f == [n \in Used |-> name[n]]
  <2>1. f \in [Used -> Kept]
    BY <1>1 DEF Kept
  <2>2. \A m, n \in Used : f[m] = f[n] => m = n
    <3>1. \A n \in Names : n \in Nat /\ name[n] \in Nat
      BY <1>0, SinkAssumption DEF Names, SinkTypeOK
    <3> QED
      BY <1>0, <1>1, <3>1 DEF OrderInv
  <2>3. \A g \in Kept : \E n \in Used : f[n] = g
    BY <1>1 DEF Kept
  <2> HIDE DEF f
  <2>4. f \in Bijection(Used, Kept)
    BY <2>1, <2>2, <2>3 DEF Bijection, Injection, Surjection, IsInjective
  <2> QED
    BY <1>2, <2>4, FS_Bijection DEF ExistsBijection
<1> QED
  BY <1>0, <1>2, <1>3, SinkAssumption

(* A log that one process has to itself keeps what it is for: the record   *)
(* of every effect, the newest files in order, and no file beyond the      *)
(* limit; for any sizes, and wherever the process ends and starts again.   *)
THEOREM OneProcessKeepsTheAudit ==
  ASSUME \A p, q \in Processes : p = q
  PROVE  SinkSafety => []AuditIsKept
<1>1. LogInv => AuditIsKept
  <2> SUFFICES ASSUME LogInv PROVE AuditIsKept
    OBVIOUS
  <2>1. EffectIsAudited /\ FilesAreBounded /\ OrderInv
    BY DEF LogInv, SinkInv, RecordInv, EffectIsAudited
  <2>2. LogFiles \ Kept # {} => \A p \in Processes : Cardinality(Kept) + lives[p] > Retained
    BY KeptAreCounted DEF Lost
  <2> QED
    BY <2>1, <2>2 DEF AuditIsKept, LogIsASuffix, OrderInv
<1> QED
  BY <1>1, LogInductive, PTL

=============================================================================
