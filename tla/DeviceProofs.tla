---------------------------- MODULE DeviceProofs ----------------------------
(***************************************************************************)
(* Proofs about Devices, for any callers, memory blocks, streams, events   *)
(* and sizes, and each of the three backends.                              *)
(*                                                                         *)
(* DInv is inductive.  It says where an object of the driver is accounted  *)
(* for (Placed), what the label of a call says of its object and of its    *)
(* helper (CallOK), that a block which is not allocated has no bytes, and  *)
(* that a helper which waits for its stream waits for its own copy         *)
(* (HelperOK).  A step of a caller leaves the calls of the others alone    *)
(* (Moves), and concerns at most one object unless it is open or close.    *)
(***************************************************************************)
EXTENDS Devices, FiniteSetTheorems, WellFoundedInduction, TLAPS

-----------------------------------------------------------------------------
(* Sums over a finite set.                                                 *)

\* g gives every subset of S the sum of f over it, as MapThenSumSet goes about it.
Pick(s) == CHOOSE x \in s : TRUE
Sums(g, f, S) ==
    g = [s \in SUBSET S |-> IF s = {} THEN 0 ELSE f[Pick(s)] + g[s \ {Pick(s)}]]

\* As many cells as the sum of f over s.
Cells(f, s) == UNION {{x} \X (1 .. f[x]) : x \in s}

\* A non-empty set of subsets has one that is left by the removal of any element.
LEMMA SmallestSet ==
    ASSUME NEW S, IsFiniteSet(S), NEW B, B \subseteq SUBSET S, B # {}
    PROVE  \E s \in B : \A x \in s : s \ {x} \notin B
<1>1. IsWellFoundedOn(StrictSubsetOrdering(S), SUBSET S)
  BY FS_StrictSubsetOrderingWellFounded, FS_FiniteSubsetsOfFinite, Zenon
<1>2. PICK s \in B : \A r \in B : ~(<<r, s>> \in StrictSubsetOrdering(S))
  BY <1>1, WFMin, Zenon
<1>3. ASSUME NEW x \in s, s \ {x} \in B PROVE FALSE
  <2>1. /\ s \ {x} \in SUBSET S /\ s \in SUBSET S
        /\ s \ {x} \subseteq s /\ s \ {x} # s
    BY <1>2, <1>3, Zenon
  <2>2. <<s \ {x}, s>> \in StrictSubsetOrdering(S)
    BY <2>1, Zenon DEF StrictSubsetOrdering
  <2> QED
    BY <1>2, <1>3, <2>2, Zenon
<1> QED
  BY <1>2, <1>3, Zenon

LEMMA PickIsIn ==
    ASSUME NEW s, s # {}
    PROVE  Pick(s) \in s
  BY Zenon DEF Pick

LEMMA UpTo ==
    ASSUME NEW n \in Nat
    PROVE  IsFiniteSet(1 .. n) /\ Cardinality(1 .. n) = n
<1>1. /\ IsFiniteSet(1 .. n)
      /\ Cardinality(1 .. n) = IF 1 > n THEN 0 ELSE n - 1 + 1
  BY FS_Interval
<1> QED
  BY <1>1

LEMMA Column ==
    ASSUME NEW x, NEW n \in Nat
    PROVE  IsFiniteSet({x} \X (1 .. n)) /\ Cardinality({x} \X (1 .. n)) = n
<1>1. /\ IsFiniteSet({x}) /\ Cardinality({x}) = 1
      /\ IsFiniteSet(1 .. n) /\ Cardinality(1 .. n) = n
  BY UpTo, FS_Singleton, Zenon
<1>2. /\ IsFiniteSet({x} \X (1 .. n))
      /\ Cardinality({x} \X (1 .. n)) = Cardinality({x}) * Cardinality(1 .. n)
  BY <1>1, FS_Product, Zenon
<1> QED
  BY <1>1, <1>2

LEMMA CellsSplit ==
    ASSUME NEW f, NEW s, NEW x \in s
    PROVE  /\ Cells(f, s) = Cells(f, s \ {x}) \cup ({x} \X (1 .. f[x]))
           /\ Cells(f, s \ {x}) \cap ({x} \X (1 .. f[x])) = {}
  BY DEF Cells

LEMMA CellsFinite ==
    ASSUME NEW S, IsFiniteSet(S), NEW f \in [S -> Nat], NEW s \in SUBSET S
    PROVE  IsFiniteSet(Cells(f, s))
<1> DEFINE B == {r \in SUBSET S : ~IsFiniteSet(Cells(f, r))}
<1>1. SUFFICES ASSUME B # {} PROVE FALSE
  BY Zenon
<1>2. PICK r \in B : \A x \in r : r \ {x} \notin B
  BY <1>1, SmallestSet, Zenon
<1>3. CASE r = {}
  <2>1. Cells(f, r) = {}
    BY <1>3, Zenon DEF Cells
  <2> QED
    BY <1>2, <2>1, FS_EmptySet, Zenon
<1>4. CASE r # {}
  <2>1. PICK x \in r : TRUE
    BY <1>4, Zenon
  <2>2. IsFiniteSet(Cells(f, r \ {x})) /\ f[x] \in Nat
    BY <1>2, <2>1, Zenon
  <2>3. IsFiniteSet({x} \X (1 .. f[x]))
    BY <2>2, Column, Zenon
  <2>4. Cells(f, r) = Cells(f, r \ {x}) \cup ({x} \X (1 .. f[x]))
    BY <2>1, CellsSplit, ZenonT(40)
  <2>5. IsFiniteSet(Cells(f, r \ {x}) \cup ({x} \X (1 .. f[x])))
    BY <2>2, <2>3, FS_Union, Zenon
  <2> QED
    BY <1>2, <2>4, <2>5, Zenon
<1> QED
  BY <1>3, <1>4, Zenon

\* The sum exists.
LEMMA SumsExist ==
    ASSUME NEW S, IsFiniteSet(S), NEW f \in [S -> Nat]
    PROVE  \E g : Sums(g, f, S)
<1> DEFINE g == [s \in SUBSET S |-> Cardinality(Cells(f, s))]
<1>1. ASSUME NEW s \in SUBSET S
      PROVE  g[s] = IF s = {} THEN 0 ELSE f[Pick(s)] + g[s \ {Pick(s)}]
  <2>1. CASE s = {}
    <3>1. Cells(f, s) = {}
      BY <2>1, Zenon DEF Cells
    <3> QED
      BY <2>1, <3>1, FS_EmptySet, Zenon
  <2>2. CASE s # {}
    <3> DEFINE x == Pick(s)
    <3>1. x \in s /\ f[x] \in Nat /\ s \ {x} \in SUBSET S
      BY <2>2, PickIsIn, Zenon
    <3>2. /\ IsFiniteSet(Cells(f, s \ {x})) /\ IsFiniteSet({x} \X (1 .. f[x]))
          /\ Cardinality({x} \X (1 .. f[x])) = f[x]
      BY <3>1, CellsFinite, Column, Zenon
    <3>3. /\ Cells(f, s) = Cells(f, s \ {x}) \cup ({x} \X (1 .. f[x]))
          /\ Cells(f, s \ {x}) \cap ({x} \X (1 .. f[x])) = {}
      BY <3>1, CellsSplit, Zenon
    <3>4. Cardinality(Cells(f, s) ) =
            Cardinality(Cells(f, s \ {x})) + Cardinality({x} \X (1 .. f[x]))
                - Cardinality(Cells(f, s \ {x}) \cap ({x} \X (1 .. f[x])))
      BY <3>2, <3>3, FS_Union, Zenon
    <3>5. Cardinality(Cells(f, s)) = Cardinality(Cells(f, s \ {x})) + f[x] - 0
      BY <3>2, <3>3, <3>4, FS_EmptySet, Zenon
    <3>6. Cardinality(Cells(f, s \ {x})) \in Nat
      BY <3>2, FS_CardinalityType, Zenon
    <3>7. Cardinality(Cells(f, s)) = f[x] + Cardinality(Cells(f, s \ {x}))
      BY <3>1, <3>5, <3>6
    <3>8. g[s] = f[x] + g[s \ {x}]
      BY <3>1, <3>7, Zenon
    <3> QED
      BY <2>2, <3>8, Zenon
  <2> QED
    BY <2>1, <2>2, Zenon
<1>2. g = [s \in SUBSET S |-> IF s = {} THEN 0 ELSE f[Pick(s)] + g[s \ {Pick(s)}]]
  <2> DEFINE h == [s \in SUBSET S |-> IF s = {} THEN 0 ELSE f[Pick(s)] + g[s \ {Pick(s)}]]
  <2>1. ASSUME NEW s \in SUBSET S PROVE g[s] = h[s]
    <3> HIDE DEF g
    <3> QED
      BY <1>1, <2>1, Zenon
  <2>2. DOMAIN g = SUBSET S /\ DOMAIN h = SUBSET S
    BY Zenon
  <2>3. g = [s \in SUBSET S |-> g[s]] /\ h = [s \in SUBSET S |-> h[s]]
    BY Zenon
  <2> HIDE DEF g, h
  <2>4. g = h
    BY <2>1, <2>3, Zenon
  <2> QED
    BY <2>4, Zenon DEF h
<1> HIDE DEF g
<1> QED
  BY <1>2, Zenon DEF Sums

SumOf(f, S) == CHOOSE g : Sums(g, f, S)

LEMMA SumUnfold ==
    ASSUME NEW S, IsFiniteSet(S), NEW f \in [S -> Nat]
    PROVE  /\ Sums(SumOf(f, S), f, S)
           /\ MapThenSumSet(LAMBDA b : f[b], S) = SumOf(f, S)[S]
<1>1. Sums(SumOf(f, S), f, S)
  BY SumsExist, Zenon DEF SumOf
<1>2. MapThenSumSet(LAMBDA b : f[b], S) = SumOf(f, S)[S]
  BY Zenon DEF MapThenSumSet, MapThenFoldSet, SumOf, Sums, Pick
<1> QED
  BY <1>1, <1>2, Zenon

LEMMA SumsStep ==
    ASSUME NEW S, NEW f, NEW g, Sums(g, f, S), NEW s \in SUBSET S
    PROVE  /\ s = {} => g[s] = 0
           /\ s # {} => g[s] = f[Pick(s)] + g[s \ {Pick(s)}]
<1>1. g[s] = IF s = {} THEN 0 ELSE f[Pick(s)] + g[s \ {Pick(s)}]
  BY Zenon DEF Sums
<1> QED
  BY <1>1, Zenon

\* What the sum is after f changed at b.
LEMMA SumsDiffer ==
    ASSUME NEW S, IsFiniteSet(S), NEW f \in [S -> Nat], NEW e \in [S -> Nat],
           NEW b \in S, \A x \in S \ {b} : e[x] = f[x],
           NEW g, Sums(g, f, S), NEW h, Sums(h, e, S)
    PROVE  /\ g[S] \in Nat /\ h[S] \in Nat
           /\ h[S] + f[b] = g[S] + e[b]
<1> DEFINE At(s, n) == IF b \in s THEN n ELSE 0
           Good(s) == /\ g[s] \in Nat /\ h[s] \in Nat
                      /\ h[s] + At(s, f[b]) = g[s] + At(s, e[b])
           B == {s \in SUBSET S : ~Good(s)}
<1>1. SUFFICES ASSUME B # {} PROVE FALSE
  <2>1. ASSUME B = {} PROVE Good(S)
    BY <2>1, Zenon
  <2> QED
    BY <2>1, Zenon
<1>2. PICK s \in B : \A x \in s : s \ {x} \notin B
  BY <1>1, SmallestSet, Zenon
<1> s \in SUBSET S
  BY <1>2, Zenon
<1>3. CASE s = {}
  <2>1. g[s] = 0 /\ h[s] = 0
    BY <1>3, Zenon DEF Sums
  <2>2. Good(s)
    BY <1>3, <2>1
  <2> QED
    BY <1>2, <2>2, Zenon
<1>4. CASE s # {}
  <2> DEFINE x == Pick(s)
             r == s \ {x}
  <2>1. x \in s /\ x \in S /\ r \in SUBSET S
    BY <1>2, <1>4, PickIsIn, Zenon
  <2>2. Good(r)
    BY <1>2, <2>1, Zenon
  <2>3. g[s] = f[x] + g[r] /\ h[s] = e[x] + h[r]
    <3>1. g[s] = f[x] + g[r]
      BY <1>4, Zenon DEF Sums
    <3>2. h[s] = e[x] + h[r]
      BY <1>4, Zenon DEF Sums
    <3> QED
      BY <3>1, <3>2, Zenon
  <2>4. f[x] \in Nat /\ e[x] \in Nat /\ f[b] \in Nat /\ e[b] \in Nat
    BY <2>1, Zenon
  <2>5. x # b => e[x] = f[x]
    BY <2>1, Zenon
  <2>6. (b \in r <=> b \in s /\ b # x)
    BY Zenon
  <2> HIDE DEF x, r
  <2>7. Good(s)
    <3>1. CASE x = b
      <4>1. g[r] \in Nat /\ h[r] \in Nat /\ h[r] + 0 = g[r] + 0
        BY <2>2, <2>6, <3>1, Zenon
      <4>2. At(s, f[b]) = f[b] /\ At(s, e[b]) = e[b]
        BY <2>1, <3>1, Zenon
      <4> QED
        BY <2>3, <2>4, <3>1, <4>1, <4>2
    <3>2. CASE x # b
      <4>1. At(s, f[b]) = At(r, f[b]) /\ At(s, e[b]) = At(r, e[b])
        BY <2>6, <3>2, Zenon
      <4>2. At(r, f[b]) \in Nat /\ At(r, e[b]) \in Nat
        BY <2>4
      <4> HIDE DEF At
      <4> QED
        BY <2>2, <2>3, <2>4, <2>5, <3>2, <4>1, <4>2
    <3> QED
      BY <3>1, <3>2, Zenon
  <2> QED
    BY <1>2, <2>7, Zenon
<1> QED
  BY <1>3, <1>4, Zenon

LEMMA SumsZero ==
    ASSUME NEW S, IsFiniteSet(S), NEW f, \A x \in S : f[x] = 0,
           NEW g, Sums(g, f, S)
    PROVE  g[S] = 0
<1> DEFINE B == {s \in SUBSET S : g[s] # 0}
<1>1. SUFFICES ASSUME B # {} PROVE FALSE
  BY Zenon
<1>2. PICK s \in B : \A x \in s : s \ {x} \notin B
  BY <1>1, SmallestSet, Zenon
<1> s \in SUBSET S
  BY <1>2, Zenon
<1>3. CASE s = {}
  BY <1>2, <1>3, SumsStep, Zenon
<1>4. CASE s # {}
  <2> DEFINE x == Pick(s)
  <2>1. x \in s /\ f[x] = 0 /\ s \ {x} \in SUBSET S
    BY <1>2, <1>4, PickIsIn, Zenon
  <2>2. g[s \ {x}] = 0
    BY <1>2, <2>1, Zenon
  <2>3. g[s] = f[x] + g[s \ {x}]
    BY <1>4, Zenon DEF Sums
  <2>4. g[s] = 0
    <3> HIDE DEF x
    <3>1. g[s] = 0 + 0
      BY <2>1, <2>2, <2>3, Zenon
    <3> QED
      BY <3>1
  <2> QED
    BY <1>2, <2>4, Zenon
<1> QED
  BY <1>3, <1>4, Zenon

LEMMA SumChanges ==
    ASSUME NEW S, IsFiniteSet(S), NEW f \in [S -> Nat], NEW e \in [S -> Nat],
           NEW b \in S, \A x \in S \ {b} : e[x] = f[x]
    PROVE  LET F == MapThenSumSet(LAMBDA x : f[x], S)
               E == MapThenSumSet(LAMBDA x : e[x], S)
           IN  F \in Nat /\ E \in Nat /\ E + f[b] = F + e[b]
<1>1. /\ Sums(SumOf(f, S), f, S) /\ Sums(SumOf(e, S), e, S)
      /\ MapThenSumSet(LAMBDA x : f[x], S) = SumOf(f, S)[S]
      /\ MapThenSumSet(LAMBDA x : e[x], S) = SumOf(e, S)[S]
  BY SumUnfold, Zenon
<1>2. /\ SumOf(f, S)[S] \in Nat /\ SumOf(e, S)[S] \in Nat
      /\ SumOf(e, S)[S] + f[b] = SumOf(f, S)[S] + e[b]
  <2> DEFINE g == SumOf(f, S)
             h == SumOf(e, S)
  <2>1. Sums(g, f, S) /\ Sums(h, e, S)
    BY <1>1, Zenon
  <2> HIDE DEF g, h
  <2>2. g[S] \in Nat /\ h[S] \in Nat /\ h[S] + f[b] = g[S] + e[b]
    BY <2>1, SumsDiffer
  <2> QED
    BY <2>2, Zenon DEF g, h
<1> QED
  BY <1>1, <1>2, Zenon

LEMMA SumZero ==
    ASSUME NEW S, IsFiniteSet(S), NEW f \in [S -> Nat], \A x \in S : f[x] = 0
    PROVE  MapThenSumSet(LAMBDA x : f[x], S) = 0
<1>1. /\ Sums(SumOf(f, S), f, S)
      /\ MapThenSumSet(LAMBDA x : f[x], S) = SumOf(f, S)[S]
  BY SumUnfold, Zenon
<1> QED
  BY <1>1, SumsZero, Zenon
-----------------------------------------------------------------------------
(* The invariant.                                                          *)

Classes == MemoryClass \cup {"stream", "event", "none"}

RecordTypes ==
    /\ record \in [Objects -> Classes]
    /\ \A o \in Objects : record[o] \in ClassOf(o) \cup {"none"}

DriverTypes ==
    /\ driver \in [Objects -> Classes]
    /\ \A o \in Objects : driver[o] \in ClassOf(o) \cup {"none"}
    /\ size \in [Buffers -> 0 .. DeviceBytes]
    /\ \A b \in Buffers : driver[b] = "none" => size[b] = 0

CallTypes ==
    /\ backend \in {"cpu", "cuda", "hip"} /\ isOpen \in BOOLEAN
    /\ pc \in [Callers -> {"idle", "made", "failed", "waiting", "draining"}]
    /\ obj \in [Callers -> Objects \cup {NoObject}]
    /\ helper \in [Callers -> {"none"} \cup DOMAIN HelperNext]
    /\ helperStream \in [Callers -> AnyStream]

WorkTypes ==
    /\ pend \subseteq WorkItems /\ recorded \in [Events -> SUBSET pend]
    /\ awaits \in [Callers -> SUBSET pend]
    /\ \A t \in Callers : pc[t] \notin {"waiting", "draining"} => awaits[t] = {}
    /\ backend = "cpu" => pend = {}

\* The object is in the hands of a call that made it and has to record it.
InHand(o) == \E t \in Callers : pc[t] = "made" /\ obj[t] = o

\* Only CUDA calls are seen while they run, and only in an open backend.
CallOK(t) ==
    /\ pc[t] # "idle" => backend = "cuda" /\ isOpen
    /\ pc[t] = "made" => /\ obj[t] \in Objects /\ helper[t] \in {"none", "create"}
                         /\ helper[t] = "create" => obj[t] \in Streams
    /\ pc[t] = "waiting" => helper[t] \in {"none", "sync"}
    /\ pc[t] = "draining" => helper[t] = "none"

CallShape ==
    /\ \A t \in Callers : CallOK(t)
    /\ \A t, u \in Callers :
           pc[t] = "made" /\ pc[u] = "made" /\ obj[t] = obj[u] => t = u

\* Where an object is accounted for.
Placed(o) ==
    /\ driver[o] # "none" <=> record[o] # "none" \/ InHand(o) \/ o \in leaked
    /\ record[o] # "none" => record[o] = driver[o] /\ o \notin leaked /\ ~InHand(o)
    /\ InHand(o) => o \notin leaked

LedgerShape ==
    /\ leaked \subseteq Objects /\ (backend # "cuda" => leaked = {})
    /\ Ledgered => /\ \A o \in Objects : Placed(o)
                   /\ ~isOpen => \A o \in Objects : record[o] = "none"

SizeSum == MapThenSumSet(LAMBDA b : size[b], Buffers)

Counted ==
    /\ backend = "cpu" => outBytes = SizeSum /\ outBytes <= DeviceBytes
    /\ backend # "cpu" => outBytes = 0

Lands ==
    backend = "cuda" =>
        \A w \in pend : driver[w.buf] \in {"device", "unified"} /\ w.bytes <= size[w.buf]

\* The copy of a helper is over when its stream was waited for.
HelperOK(t) ==
    /\ helper[t] = "destroy" =>
           \A w \in pend : w.stream = helperStream[t] => w.by # t
    /\ helper[t] = "sync" /\ pc[t] = "waiting" =>
           \A w \in pend : w.stream = helperStream[t] /\ w.by = t => w \in awaits[t]

DInv ==
    /\ RecordTypes /\ DriverTypes /\ CallTypes /\ WorkTypes
    /\ CallShape /\ LedgerShape /\ Counted /\ Lands
    /\ \A t \in Callers : HelperOK(t)

\* A step of t leaves the calls of the others alone.
CallMoves(t) ==
    /\ pc' = [pc EXCEPT ![t] = pc'[t]] /\ obj' = [obj EXCEPT ![t] = obj'[t]]
    /\ helper' = [helper EXCEPT ![t] = helper'[t]]
    /\ helperStream' = [helperStream EXCEPT ![t] = helperStream'[t]]

Moves(t) == CallMoves(t) /\ awaits' = [awaits EXCEPT ![t] = awaits'[t]]

-----------------------------------------------------------------------------
(* What a step does to the call it belongs to.                             *)

LEMMA HelperStages ==
    DOMAIN HelperNext = {"create", "copy", "sync", "destroy", "cleanup"}
  BY DEF HelperNext

LEMMA HelperGoes ==
    ASSUME NEW t \in Callers, NEW ok \in BOOLEAN, CallTypes
    PROVE  /\ HelperAfter(t, ok) \in {"none"} \cup DOMAIN HelperNext
           /\ HelperAfter(t, ok) = "destroy" => ok /\ helper[t] = "sync"
           /\ helper[t] = "none" => HelperAfter(t, ok) = "none"
           /\ helper[t] = "create" /\ ~ok => HelperAfter(t, ok) = "none"
<1>1. helper[t] \in {"none", "create", "copy", "sync", "destroy", "cleanup"}
  BY HelperStages, Zenon DEF CallTypes
<1> QED
  BY <1>1, HelperStages DEF HelperAfter, HelperNext

LEMMA ReturnDoes ==
    ASSUME NEW t \in Callers, NEW ok \in BOOLEAN, CallTypes, WorkTypes, Return(t, ok),
           UNCHANGED <<backend, isOpen>>,
           ok /\ helper[t] = "create" => obj[t] \in Streams
    PROVE  /\ CallTypes' /\ Moves(t) /\ pc'[t] = "idle" /\ awaits'[t] = {}
           /\ CallOK(t)'
           /\ helper'[t] = "destroy" =>
                ok /\ helper[t] = "sync" /\ helperStream'[t] = helperStream[t]
<1> DEFINE h == HelperAfter(t, ok)
           s == IF h = "none" THEN NoObject
                ELSE IF helper[t] = "create" THEN obj[t] ELSE helperStream[t]
<1>1. /\ h \in {"none"} \cup DOMAIN HelperNext
      /\ h = "destroy" => ok /\ helper[t] = "sync"
      /\ helper[t] = "create" /\ ~ok => h = "none"
  BY HelperGoes, Zenon
<1>2. s \in AnyStream /\ (helper[t] = "sync" /\ h = "destroy" => s = helperStream[t])
  BY <1>1, Zenon DEF AnyStream, CallTypes
<1>3. /\ pc' = [pc EXCEPT ![t] = "idle"] /\ obj' = [obj EXCEPT ![t] = NoObject]
      /\ awaits' = [awaits EXCEPT ![t] = {}] /\ helper' = [helper EXCEPT ![t] = h]
      /\ helperStream' = [helperStream EXCEPT ![t] = s]
  BY DEF Return
<1> HIDE DEF h, s
<1>4. /\ pc'[t] = "idle" /\ awaits'[t] = {} /\ helper'[t] = h
      /\ helperStream'[t] = s /\ obj'[t] = NoObject
  BY <1>3, Zenon DEF CallTypes, WorkTypes
<1>5. CallTypes'
  BY <1>1, <1>2, <1>3, Zenon DEF CallTypes
<1>6. Moves(t)
  BY <1>3, <1>4, Zenon DEF Moves, CallMoves
<1>7. CallOK(t)'
  BY <1>4, Zenon DEF CallOK
<1> QED
  BY <1>1, <1>2, <1>4, <1>5, <1>6, <1>7, Zenon

LEMMA ContinueDoes ==
    ASSUME NEW t \in Callers, NEW where \in {"made", "failed"}, NEW o \in Objects \cup {NoObject},
           CallTypes, WorkTypes, Continue(t, where, o), UNCHANGED <<backend, isOpen>>,
           backend = "cuda", isOpen,
           where = "made" => /\ o \in Objects /\ helper[t] \in {"none", "create"}
                             /\ helper[t] = "create" => o \in Streams
    PROVE  /\ CallTypes' /\ Moves(t) /\ pc'[t] = where /\ obj'[t] = o /\ awaits'[t] = {}
           /\ CallOK(t)' /\ helper'[t] = helper[t] /\ helperStream'[t] = helperStream[t]
<1>1. /\ pc' = [pc EXCEPT ![t] = where] /\ obj' = [obj EXCEPT ![t] = o]
      /\ awaits' = [awaits EXCEPT ![t] = {}] /\ helper' = helper /\ helperStream' = helperStream
  BY Zenon DEF Continue
<1>2. pc'[t] = where /\ awaits'[t] = {} /\ obj'[t] = o
  BY <1>1, Zenon DEF CallTypes, WorkTypes
<1>3. CallTypes'
  BY <1>1, Zenon DEF CallTypes
<1>4. Moves(t)
  BY <1>1, <1>2, Zenon DEF Moves, CallMoves, CallTypes
<1>5. CallOK(t)'
  BY <1>1, <1>2, Zenon DEF CallOK
<1> QED
  BY <1>1, <1>2, <1>3, <1>4, <1>5, Zenon

LEMMA WaitDoes ==
    ASSUME NEW t \in Callers, NEW where \in {"waiting", "draining"}, NEW ws \in SUBSET pend,
           CallTypes, WorkTypes, WaitFor(t, where, ws), UNCHANGED <<backend, isOpen>>,
           backend = "cuda", isOpen,
           helper[t] = "none" \/ (helper[t] = "sync" /\ where = "waiting")
    PROVE  /\ CallTypes' /\ Moves(t) /\ pc'[t] = where /\ awaits'[t] = ws
           /\ CallOK(t)' /\ helper'[t] = helper[t] /\ helperStream'[t] = helperStream[t]
<1>1. /\ pc' = [pc EXCEPT ![t] = where] /\ obj' = obj
      /\ awaits' = [awaits EXCEPT ![t] = ws] /\ helper' = helper /\ helperStream' = helperStream
  BY Zenon DEF WaitFor
<1>2. pc'[t] = where /\ awaits'[t] = ws
  BY <1>1, Zenon DEF CallTypes, WorkTypes
<1>3. CallTypes'
  BY <1>1, Zenon DEF CallTypes
<1>4. Moves(t)
  BY <1>1, <1>2, Zenon DEF Moves, CallMoves, CallTypes
<1>5. CallOK(t)'
  BY <1>1, <1>2 DEF CallOK
<1> QED
  BY <1>1, <1>2, <1>3, <1>4, <1>5, Zenon

\* The call of t changes, those of the others do not.
LEMMA CallsChange ==
    ASSUME NEW t \in Callers, CallTypes, CallShape, CallMoves(t), CallOK(t)',
           backend' = backend, isOpen => isOpen',
           pc'[t] = "made" => ~InHand(obj'[t])
    PROVE  /\ CallShape'
           /\ \A o \in Objects : InHand(o)' <=>
                \/ pc'[t] = "made" /\ obj'[t] = o
                \/ InHand(o) /\ ~(pc[t] = "made" /\ obj[t] = o)
<1>1. ASSUME NEW u \in Callers, u # t
      PROVE  pc'[u] = pc[u] /\ obj'[u] = obj[u] /\ helper'[u] = helper[u]
  BY <1>1, Zenon DEF Moves, CallMoves, CallTypes
<1>2. ASSUME NEW u \in Callers PROVE CallOK(u)'
  <2>1. CASE u # t
    <3>1. CallOK(u)
      BY Zenon DEF CallShape
    <3> QED
      BY <1>1, <2>1, <3>1, Zenon DEF CallOK
  <2> QED
    BY <2>1, Zenon
<1>3. ASSUME NEW u \in Callers, NEW v \in Callers,
             pc'[u] = "made", pc'[v] = "made", obj'[u] = obj'[v]
      PROVE  u = v
  <2>1. CASE u # t /\ v # t
    BY <1>1, <1>3, <2>1, Zenon DEF CallShape
  <2>2. ASSUME u = t, v # t PROVE FALSE
    BY <1>1, <1>3, <2>2, Zenon DEF InHand
  <2>3. ASSUME v = t, u # t PROVE FALSE
    BY <1>1, <1>3, <2>3, Zenon DEF InHand
  <2> QED
    BY <2>1, <2>2, <2>3, Zenon
<1>4. ASSUME NEW o \in Objects
      PROVE  InHand(o)' <=>
                \/ pc'[t] = "made" /\ obj'[t] = o
                \/ InHand(o) /\ ~(pc[t] = "made" /\ obj[t] = o)
  <2>1. ASSUME InHand(o)', ~(pc'[t] = "made" /\ obj'[t] = o)
        PROVE  InHand(o) /\ ~(pc[t] = "made" /\ obj[t] = o)
    <3>1. PICK u \in Callers : pc'[u] = "made" /\ obj'[u] = o
      BY <2>1, Zenon DEF InHand
    <3>2. u # t /\ pc[u] = "made" /\ obj[u] = o
      BY <1>1, <2>1, <3>1, Zenon
    <3> QED
      BY <3>2, Zenon DEF InHand, CallShape
  <2>2. ASSUME InHand(o), ~(pc[t] = "made" /\ obj[t] = o) PROVE InHand(o)'
    <3>1. PICK u \in Callers : pc[u] = "made" /\ obj[u] = o
      BY <2>2, Zenon DEF InHand
    <3>2. u # t /\ pc'[u] = "made" /\ obj'[u] = o
      BY <1>1, <2>2, <3>1, Zenon
    <3> QED
      BY <3>2, Zenon DEF InHand
  <2>3. ASSUME pc'[t] = "made" /\ obj'[t] = o PROVE InHand(o)'
    BY <2>3, Zenon DEF InHand
  <2> QED
    BY <2>1, <2>2, <2>3, Zenon
<1> QED
  BY <1>2, <1>3, <1>4, Zenon DEF CallShape

LEMMA HelpersChange ==
    ASSUME NEW t \in Callers, CallTypes, WorkTypes, Moves(t),
           \A u \in Callers : HelperOK(u), HelperOK(t)',
           \A w \in pend' : w \in pend \/ w.by \in {t, NoObject}
    PROVE  \A u \in Callers : HelperOK(u)'
<1>1. SUFFICES ASSUME NEW u \in Callers, u # t PROVE HelperOK(u)'
  BY Zenon
<1>2. /\ pc'[u] = pc[u] /\ helper'[u] = helper[u] /\ helperStream'[u] = helperStream[u]
      /\ awaits'[u] = awaits[u] /\ HelperOK(u)
  BY <1>1, Zenon DEF Moves, CallMoves, CallTypes, WorkTypes
<1>3. ASSUME NEW w \in pend', w.by = u PROVE w \in pend
  BY <1>1, <1>3, DevicesAssumption, Zenon
<1> QED
  BY <1>2, <1>3, Zenon DEF HelperOK

LEMMA HelperStays ==
    ASSUME NEW t \in Callers, HelperOK(t), pend' \subseteq pend, pc'[t] # "waiting",
           helper'[t] = "destroy" => helper[t] = "destroy" /\ helperStream'[t] = helperStream[t]
    PROVE  HelperOK(t)'
  BY Zenon DEF HelperOK

\* Work is added, or stays.
LEMMA WorkKept ==
    ASSUME NEW t \in Callers, CallTypes, WorkTypes, Moves(t), backend' = backend,
           pend \subseteq pend', pend' \subseteq WorkItems, recorded' \in [Events -> SUBSET pend'],
           awaits'[t] \subseteq pend',
           pc'[t] \notin {"waiting", "draining"} => awaits'[t] = {},
           backend = "cpu" => pend' = {}
    PROVE  WorkTypes'
<1>1. ASSUME NEW u \in Callers, u # t PROVE pc'[u] = pc[u] /\ awaits'[u] = awaits[u]
  BY <1>1, Zenon DEF Moves, CallMoves, CallTypes, WorkTypes
<1>2. ASSUME NEW u \in Callers PROVE pc'[u] \notin {"waiting", "draining"} => awaits'[u] = {}
  BY <1>1, Zenon DEF WorkTypes
<1>3. awaits' \in [Callers -> SUBSET pend']
  <2>1. awaits \in [Callers -> SUBSET pend'] /\ awaits'[t] \in SUBSET pend'
    BY Zenon DEF WorkTypes
  <2>2. awaits' = [awaits EXCEPT ![t] = awaits'[t]]
    BY Zenon DEF Moves, CallMoves
  <2> QED
    BY <2>1, <2>2
<1> QED
  BY <1>2, <1>3, Zenon DEF WorkTypes

LEMMA WorkSame ==
    ASSUME NEW t \in Callers, CallTypes, WorkTypes, Moves(t), UNCHANGED <<backend, pend, recorded>>,
           awaits'[t] \subseteq pend,
           pc'[t] \notin {"waiting", "draining"} => awaits'[t] = {}
    PROVE  WorkTypes'
<1>1. /\ pend \subseteq pend' /\ pend' \subseteq WorkItems /\ awaits'[t] \subseteq pend'
      /\ recorded' \in [Events -> SUBSET pend'] /\ (backend = "cpu" => pend' = {})
  BY Zenon DEF WorkTypes
<1> QED
  BY <1>1, WorkKept, Zenon

LEMMA WorkDropped ==
    ASSUME DropWork, awaits' = [u \in Callers |-> {}]
    PROVE  WorkTypes'
  BY Zenon DEF DropWork, WorkTypes

-----------------------------------------------------------------------------
(* What a step does to the ledgers.                                        *)

LEMMA SumSame ==
    ASSUME size' = size
    PROVE  SizeSum' = SizeSum
  BY Zenon DEF SizeSum, MapThenSumSet, MapThenFoldSet

LEMMA LedgerSame ==
    ASSUME RecordTypes, DriverTypes, LedgerShape, Counted,
           UNCHANGED <<backend, record, driver, size, leaked, outBytes>>,
           Ledgered /\ isOpen => isOpen',
           \A o \in Objects : InHand(o)' <=> InHand(o)
    PROVE  RecordTypes' /\ DriverTypes' /\ LedgerShape' /\ Counted'
<1>1. RecordTypes' /\ DriverTypes' /\ Counted'
  BY SumSame, Zenon DEF RecordTypes, DriverTypes, Counted
<1>2. ASSUME Ledgered, NEW o \in Objects PROVE Placed(o)'
  <2>1. Placed(o)
    BY <1>2, Zenon DEF LedgerShape
  <2> QED
    BY <2>1, Zenon DEF Placed
<1> QED
  BY <1>1, <1>2, Zenon DEF LedgerShape, Ledgered

\* The step concerns the object o.
LEMMA LedgerStep ==
    ASSUME LedgerShape, NEW o \in Objects, backend' = backend, Ledgered => isOpen' /\ Placed(o)',
           leaked' \subseteq leaked \cup {o}, backend # "cuda" => leaked' = {},
           \A p \in Objects \ {o} :
                /\ record'[p] = record[p] /\ driver'[p] = driver[p]
                /\ p \in leaked' <=> p \in leaked
                /\ InHand(p)' <=> InHand(p)
    PROVE  LedgerShape'
<1>1. ASSUME Ledgered, NEW p \in Objects PROVE Placed(p)'
  <2>1. CASE p # o
    <3>1. Placed(p)
      BY <1>1, Zenon DEF LedgerShape
    <3> QED
      BY <2>1, <3>1, Zenon DEF Placed
  <2> QED
    BY <1>1, <2>1, Zenon
<1> QED
  BY <1>1, Zenon DEF LedgerShape, Ledgered

\* The driver makes an object.
LEMMA MakeDoes ==
    ASSUME DriverTypes, NEW o \in Objects, NEW cls \in ClassOf(o), DriverMake(o, cls)
    PROVE  /\ DriverTypes' /\ driver[o] = "none" /\ driver'[o] = cls /\ cls # "none"
           /\ \A p \in Objects \ {o} : driver'[p] = driver[p]
           /\ \A b \in Buffers \ {o} : size'[b] = size[b]
           /\ o \notin Buffers => size' = size
<1>1. cls \in Classes /\ cls # "none"
  BY DEF ClassOf, Classes, MemoryClass
<1>2. driver[o] = "none" /\ driver' = [driver EXCEPT ![o] = cls]
  BY Zenon DEF DriverMake
<1>3. PICK n \in AllocBytes :
        /\ n <= DeviceBytes
        /\ size' = IF o \in Buffers THEN [size EXCEPT ![o] = n] ELSE size
  BY Zenon DEF DriverMake
<1>4. n \in 0 .. DeviceBytes
  BY <1>3, DevicesAssumption
<1>5. /\ size' \in [Buffers -> 0 .. DeviceBytes]
      /\ \A b \in Buffers \ {o} : size'[b] = size[b]
      /\ o \notin Buffers => size' = size
  BY <1>3, <1>4, Zenon DEF DriverTypes
<1>6. /\ driver' \in [Objects -> Classes] /\ driver'[o] = cls
      /\ \A p \in Objects \ {o} : driver'[p] = driver[p]
  BY <1>1, <1>2, Zenon DEF DriverTypes
<1>7. \A p \in Objects : driver'[p] \in ClassOf(p) \cup {"none"}
  BY <1>6, Zenon DEF DriverTypes
<1>8. ASSUME NEW b \in Buffers, driver'[b] = "none" PROVE size'[b] = 0
  BY <1>1, <1>5, <1>6, <1>8, Zenon DEF DriverTypes, Objects
<1> QED
  BY <1>1, <1>2, <1>5, <1>6, <1>7, <1>8, Zenon DEF DriverTypes

LEMMA MakeLands ==
    ASSUME DriverTypes, WorkTypes, Lands, NEW o \in Objects, NEW cls \in ClassOf(o),
           DriverMake(o, cls), UNCHANGED <<backend, pend>>
    PROVE  Lands'
<1>1. /\ driver[o] = "none"
      /\ \A p \in Objects \ {o} : driver'[p] = driver[p]
      /\ \A b \in Buffers \ {o} : size'[b] = size[b]
  BY MakeDoes, Zenon
<1>2. SUFFICES ASSUME backend = "cuda", NEW w \in pend
               PROVE  driver'[w.buf] \in {"device", "unified"} /\ w.bytes <= size'[w.buf]
  BY Zenon DEF Lands
<1>3. driver[w.buf] \in {"device", "unified"} /\ w.bytes <= size[w.buf]
  BY <1>2, Zenon DEF Lands
<1>4. w.buf \in Buffers
  BY <1>2 DEF WorkTypes, WorkItems
<1>5. w.buf # o
  BY <1>1, <1>3
<1> QED
  BY <1>1, <1>3, <1>4, <1>5, Zenon DEF Objects

\* The driver releases objects.
LEMMA DestroyDoes ==
    ASSUME DriverTypes, NEW os, DriverDestroy(os)
    PROVE  /\ DriverTypes'
           /\ \A p \in Objects : driver'[p] = IF p \in os THEN "none" ELSE driver[p]
           /\ \A b \in Buffers : size'[b] = IF b \in os THEN 0 ELSE size[b]
           /\ \A w \in pend : w.buf \notin os
<1>1. /\ \A w \in pend : w.buf \notin os
      /\ driver' = [o \in Objects |-> IF o \in os THEN "none" ELSE driver[o]]
      /\ size' = [b \in Buffers |-> IF b \in os THEN 0 ELSE size[b]]
  BY Zenon DEF DriverDestroy
<1>2. /\ \A p \in Objects : driver'[p] = IF p \in os THEN "none" ELSE driver[p]
      /\ \A b \in Buffers : size'[b] = IF b \in os THEN 0 ELSE size[b]
  BY <1>1, Zenon
<1>3. driver' \in [Objects -> Classes]
  BY <1>1, Zenon DEF DriverTypes, Classes
<1>4. size' \in [Buffers -> 0 .. DeviceBytes]
  BY <1>1, DevicesAssumption DEF DriverTypes
<1>5. \A p \in Objects : driver'[p] \in ClassOf(p) \cup {"none"}
  BY <1>2, Zenon DEF DriverTypes
<1>6. \A b \in Buffers : driver'[b] = "none" => size'[b] = 0
  BY <1>2, Zenon DEF DriverTypes, Objects
<1> QED
  BY <1>1, <1>2, <1>3, <1>4, <1>5, <1>6, Zenon DEF DriverTypes

LEMMA DestroyLands ==
    ASSUME DriverTypes, WorkTypes, Lands, NEW os, DriverDestroy(os), UNCHANGED <<backend, pend>>
    PROVE  Lands'
<1>1. /\ \A p \in Objects : driver'[p] = IF p \in os THEN "none" ELSE driver[p]
      /\ \A b \in Buffers : size'[b] = IF b \in os THEN 0 ELSE size[b]
      /\ \A w \in pend : w.buf \notin os
  BY DestroyDoes, Zenon
<1>2. \A w \in pend : w.buf \in Buffers
  BY DEF WorkTypes, WorkItems
<1>3. \A w \in pend : driver'[w.buf] = driver[w.buf] /\ size'[w.buf] = size[w.buf]
  BY <1>1, <1>2, Zenon DEF Objects
<1> QED
  BY <1>3, Zenon DEF Lands

LEMMA LandsSame ==
    ASSUME Lands, UNCHANGED <<backend, driver, size>>, pend' \subseteq pend
    PROVE  Lands'
  BY Zenon DEF Lands

LEMMA CountedOther ==
    ASSUME Counted, backend # "cpu", UNCHANGED <<backend, outBytes>>
    PROVE  Counted'
  BY Zenon DEF Counted

LEMMA CountedSame ==
    ASSUME Counted, UNCHANGED <<backend, outBytes, size>>
    PROVE  Counted'
  BY SumSame, Zenon DEF Counted

\* The classes of the objects.
LEMMA ObjectClass ==
    /\ \A b \in Buffers : b \in Objects /\ ClassOf(b) = MemoryClass
    /\ \A s \in Streams : s \in Objects /\ s \notin Buffers /\ ClassOf(s) = {"stream"}
    /\ \A e \in Events : e \in Objects /\ e \notin Buffers /\ ClassOf(e) = {"event"}
<1>1. \A b \in Buffers : b \notin Streams /\ b \notin Events
  BY DevicesAssumption, Zenon
<1>2. \A e \in Events : e \notin Streams
  BY DevicesAssumption, Zenon
<1> QED
  BY <1>1, <1>2, Zenon DEF Objects, ClassOf

LEMMA SizeChanges ==
    ASSUME DriverTypes, DriverTypes', NEW b \in Buffers,
           \A x \in Buffers \ {b} : size'[x] = size[x]
    PROVE  /\ SizeSum \in Nat /\ SizeSum' \in Nat /\ size[b] \in Nat /\ size'[b] \in Nat
           /\ SizeSum' + size[b] = SizeSum + size'[b]
<1>1. size \in [Buffers -> Nat] /\ size' \in [Buffers -> Nat] /\ IsFiniteSet(Buffers)
  BY DevicesAssumption DEF DriverTypes
<1> DEFINE F == MapThenSumSet(LAMBDA x : size[x], Buffers)
           E == MapThenSumSet(LAMBDA x : size'[x], Buffers)
<1>2. F \in Nat /\ E \in Nat /\ E + size[b] = F + size'[b]
  BY <1>1, SumChanges, Zenon
<1>3. SizeSum = F
  BY Zenon DEF SizeSum
<1>4. SizeSum' = E
  BY Zenon DEF SizeSum, MapThenSumSet, MapThenFoldSet
<1> HIDE DEF F, E
<1> QED
  BY <1>1, <1>2, <1>3, <1>4, Zenon

LEMMA SizesGone ==
    ASSUME DriverTypes', \A b \in Buffers : size'[b] = 0
    PROVE  SizeSum' = 0
<1>1. size' \in [Buffers -> Nat] /\ IsFiniteSet(Buffers)
  BY DevicesAssumption DEF DriverTypes
<1>2. MapThenSumSet(LAMBDA x : size'[x], Buffers) = 0
  BY <1>1, SumZero, Zenon
<1>3. SizeSum' = MapThenSumSet(LAMBDA x : size'[x], Buffers)
  BY Zenon DEF SizeSum, MapThenSumSet, MapThenFoldSet
<1> QED
  BY <1>2, <1>3, Zenon

-----------------------------------------------------------------------------
(* Steps that have an effect in common.                                    *)

\* The ledgers stay, and no object is in the hands of the call.
LEMMA QuietStep ==
    ASSUME NEW t \in Callers, DInv, CallTypes', WorkTypes', Lands', Moves(t), CallOK(t)',
           HelperOK(t)', pc[t] # "made", pc'[t] # "made",
           UNCHANGED <<backend, isOpen, record, driver, size, leaked, outBytes>>,
           \A w \in pend' : w \in pend \/ w.by \in {t, NoObject}
    PROVE  DInv'
<1>1. CallShape' /\ \A o \in Objects : InHand(o)' <=> InHand(o)
  BY CallsChange, Zenon DEF DInv, Moves
<1>2. RecordTypes' /\ DriverTypes' /\ LedgerShape' /\ Counted'
  BY <1>1, LedgerSame, Zenon DEF DInv
<1>3. \A u \in Callers : HelperOK(u)'
  BY HelpersChange, Zenon DEF DInv
<1> QED
  BY <1>1, <1>2, <1>3, Zenon DEF DInv

LEMMA QuietReturn ==
    ASSUME NEW t \in Callers, NEW ok \in BOOLEAN, DInv, Return(t, ok), pc[t] # "made",
           UNCHANGED <<backend, isOpen, ledgerVars, streamVars>>,
           ok => helper[t] # "create",
           ok /\ helper[t] = "sync" => \A w \in pend : w.stream = helperStream[t] => w.by # t
    PROVE  DInv'
<1>1. UNCHANGED <<backend, isOpen, record, driver, size, leaked, outBytes, pend, recorded>>
  BY Zenon DEF ledgerVars, streamVars
<1>2. /\ CallTypes' /\ Moves(t) /\ pc'[t] = "idle" /\ awaits'[t] = {} /\ CallOK(t)'
      /\ helper'[t] = "destroy" =>
            ok /\ helper[t] = "sync" /\ helperStream'[t] = helperStream[t]
  BY <1>1, ReturnDoes, Zenon DEF DInv
<1>3. HelperOK(t)'
  BY <1>1, <1>2, Zenon DEF HelperOK
<1>4. WorkTypes'
  BY <1>1, <1>2, WorkSame, Zenon DEF DInv
<1>5. Lands'
  BY <1>1, LandsSame, Zenon DEF DInv
<1> QED
  BY <1>1, <1>2, <1>3, <1>4, <1>5, QuietStep, Zenon

LEMMA QuietFail ==
    ASSUME NEW t \in Callers, DInv, CudaFails(t), pc[t] # "made", backend = "cuda", isOpen,
           UNCHANGED <<backend, isOpen, record, driver, size, leaked, outBytes, pend, recorded>>
    PROVE  DInv'
<1>1. /\ CallTypes' /\ Moves(t) /\ pc'[t] = "failed" /\ awaits'[t] = {} /\ CallOK(t)'
      /\ helper'[t] = helper[t] /\ helperStream'[t] = helperStream[t]
  BY ContinueDoes, Zenon DEF DInv, CudaFails
<1>2. HelperOK(t)'
  BY <1>1, HelperStays, Zenon DEF DInv
<1>3. WorkTypes'
  BY <1>1, WorkSame, Zenon DEF DInv
<1>4. Lands'
  BY LandsSame, Zenon DEF DInv
<1> QED
  BY <1>1, <1>2, <1>3, <1>4, QuietStep, Zenon

LEMMA QuietWait ==
    ASSUME NEW t \in Callers, NEW where \in {"waiting", "draining"}, NEW ws \in SUBSET pend,
           DInv, WaitFor(t, where, ws), pc[t] # "made", backend = "cuda", isOpen,
           UNCHANGED <<backend, isOpen, record, driver, size, leaked, outBytes, pend, recorded>>,
           helper[t] = "none" \/ (helper[t] = "sync" /\ where = "waiting"),
           helper[t] = "sync" =>
                \A w \in pend : w.stream = helperStream[t] /\ w.by = t => w \in ws
    PROVE  DInv'
<1>1. /\ CallTypes' /\ Moves(t) /\ pc'[t] = where /\ awaits'[t] = ws /\ CallOK(t)'
      /\ helper'[t] = helper[t] /\ helperStream'[t] = helperStream[t]
  BY WaitDoes, Zenon DEF DInv
<1>2. HelperOK(t)'
  BY <1>1, Zenon DEF HelperOK
<1>3. WorkTypes'
  BY <1>1, WorkSame, Zenon DEF DInv
<1>4. Lands'
  BY LandsSame, Zenon DEF DInv
<1>5. pc'[t] # "made"
  BY <1>1
<1> QED
  BY <1>1, <1>2, <1>3, <1>4, <1>5, QuietStep, Zenon

\* The step concerns one object.
LEMMA OneObject ==
    ASSUME NEW t \in Callers, NEW o \in Objects, DInv, CallTypes', Moves(t), CallOK(t)',
           HelperOK(t)', WorkTypes', Lands', RecordTypes', DriverTypes', Counted',
           UNCHANGED <<backend, isOpen, pend>>, Ledgered => isOpen,
           pc[t] = "made" => obj[t] = o, pc'[t] = "made" => obj'[t] = o /\ ~InHand(o),
           leaked' \subseteq leaked \cup {o}, backend # "cuda" => leaked' = {},
           \A p \in Objects \ {o} : /\ record'[p] = record[p] /\ driver'[p] = driver[p]
                                    /\ p \in leaked' <=> p \in leaked,
           NEW hand, hand <=> pc'[t] = "made" \/ (InHand(o) /\ pc[t] # "made"),
           Ledgered =>
               /\ driver'[o] # "none" <=> record'[o] # "none" \/ hand \/ o \in leaked'
               /\ record'[o] # "none" => record'[o] = driver'[o] /\ o \notin leaked' /\ ~hand
               /\ hand => o \notin leaked'
    PROVE  DInv'
<1>1. /\ CallShape'
      /\ \A p \in Objects : InHand(p)' <=>
            \/ pc'[t] = "made" /\ obj'[t] = p
            \/ InHand(p) /\ ~(pc[t] = "made" /\ obj[t] = p)
  <2>1. /\ CallTypes /\ CallShape /\ CallMoves(t) /\ backend' = backend /\ (isOpen => isOpen')
        /\ pc'[t] = "made" => ~InHand(obj'[t])
    BY Zenon DEF DInv, Moves
  <2> QED
    BY <2>1, CallsChange, Zenon
<1>2. (InHand(o)' <=> hand) /\ \A p \in Objects \ {o} : InHand(p)' <=> InHand(p)
  BY <1>1, Zenon
<1>3. Ledgered => Placed(o)'
  BY <1>2, Zenon DEF Placed
<1>4. LedgerShape'
  <2>1. LedgerShape /\ backend' = backend
    BY Zenon DEF DInv
  <2>2. Ledgered => isOpen' /\ Placed(o)'
    BY <1>3, Zenon
  <2> QED
    BY <1>2, <2>1, <2>2, LedgerStep, Zenon
<1>5. \A u \in Callers : HelperOK(u)'
  BY HelpersChange, Zenon DEF DInv
<1> QED
  BY <1>1, <1>4, <1>5, Zenon DEF DInv

\* No call is changed.
LEMMA CallsSame ==
    ASSUME DInv, UNCHANGED <<backend, callVars>>, isOpen' \in BOOLEAN,
           isOpen => isOpen' \/ (\A t \in Callers : pc[t] = "idle")
    PROVE  /\ CallTypes' /\ CallShape' /\ \A o \in Objects : InHand(o)' <=> InHand(o)
           /\ pend' \subseteq pend => \A t \in Callers : HelperOK(t)'
<1>1. UNCHANGED <<backend, pc, obj, awaits, helper, helperStream>>
  BY Zenon DEF callVars
<1>2. CallTypes'
  BY <1>1, Zenon DEF DInv, CallTypes
<1>3. \A t \in Callers : CallOK(t)'
  BY <1>1, Zenon DEF DInv, CallShape, CallOK
<1>4. CallShape'
  BY <1>1, <1>3, Zenon DEF DInv, CallShape
<1>5. \A o \in Objects : InHand(o)' <=> InHand(o)
  BY <1>1, Zenon DEF InHand
<1>6. pend' \subseteq pend => \A t \in Callers : HelperOK(t)'
  BY <1>1, Zenon DEF DInv, HelperOK
<1> QED
  BY <1>2, <1>4, <1>5, <1>6, Zenon

LEMMA IdleOutsideCuda ==
    ASSUME DInv, backend # "cuda" \/ ~isOpen
    PROVE  /\ \A t \in Callers : pc[t] = "idle" /\ awaits[t] = {}
           /\ \A o \in Objects : ~InHand(o)
<1>1. \A t \in Callers : pc[t] = "idle"
  BY Zenon DEF DInv, CallShape, CallOK
<1>2. \A t \in Callers : awaits[t] = {}
  <2>1. ASSUME NEW t \in Callers PROVE pc[t] \notin {"waiting", "draining"}
    BY <1>1
  <2> QED
    BY <2>1, Zenon DEF DInv, WorkTypes
<1>3. "idle" # "made"
  OBVIOUS
<1> QED
  BY <1>1, <1>2, <1>3, Zenon DEF InHand

-----------------------------------------------------------------------------
(* The helpers and the driver.                                             *)

LEMMA CopySyncKeeps ==
    ASSUME NEW t \in Callers, DInv, CopySync(t)
    PROVE  DInv'
<1>1. /\ pc[t] = "idle" /\ helper' = [helper EXCEPT ![t] = "create"]
      /\ UNCHANGED <<backend, isOpen, record, driver, size, leaked, outBytes, pend, recorded>>
      /\ UNCHANGED <<pc, obj, awaits, helperStream>>
  BY Zenon DEF CopySync, ledgerVars, streamVars
<1>2. helper'[t] = "create" /\ awaits'[t] = {} /\ pc'[t] = "idle"
  <2>1. pc[t] \notin {"waiting", "draining"}
    BY <1>1
  <2> QED
    BY <1>1, <2>1, Zenon DEF DInv, CallTypes, WorkTypes
<1>3. CallTypes'
  BY <1>1, HelperStages, Zenon DEF DInv, CallTypes
<1>4. Moves(t)
  BY <1>1, <1>2, Zenon DEF Moves, CallMoves, DInv, CallTypes, WorkTypes
<1>5. CallOK(t)' /\ HelperOK(t)'
  BY <1>2, Zenon DEF CallOK, HelperOK
<1>6. WorkTypes' /\ Lands'
  BY <1>1, <1>2, <1>4, WorkSame, LandsSame, Zenon DEF DInv
<1> QED
  BY <1>1, <1>2, <1>3, <1>4, <1>5, <1>6, QuietStep, Zenon

LEMMA HelperRefusedKeeps ==
    ASSUME NEW t \in Callers, DInv, HelperRefused(t)
    PROVE  DInv'
<1>1. Return(t, FALSE) /\ UNCHANGED <<backend, isOpen, ledgerVars, streamVars>> /\ pc[t] # "made"
  BY Zenon DEF HelperRefused
<1> QED
  BY <1>1, QuietReturn, Zenon

\* A copy is finished: nobody waits for it any more.
LEMMA DriverFinishesKeeps ==
    ASSUME DInv, DriverFinishes
    PROVE  DInv'
<1>1. /\ pend' \subseteq pend
      /\ recorded' = [e \in Events |-> recorded[e] \cap pend']
      /\ awaits' = [t \in Callers |-> awaits[t] \cap pend']
      /\ UNCHANGED <<backend, isOpen, record, driver, size, leaked, outBytes>>
      /\ UNCHANGED <<pc, obj, helper, helperStream>>
  BY Zenon DEF DriverFinishes, ledgerVars
<1>2. CallTypes' /\ CallShape'
  BY <1>1, Zenon DEF DInv, CallTypes, CallShape, CallOK
<1>3. \A o \in Objects : InHand(o)' <=> InHand(o)
  BY <1>1, Zenon DEF InHand
<1>4. RecordTypes' /\ DriverTypes' /\ LedgerShape' /\ Counted'
  BY <1>1, <1>3, LedgerSame, Zenon DEF DInv
<1>5. WorkTypes'
  <2>1. recorded' \in [Events -> SUBSET pend'] /\ awaits' \in [Callers -> SUBSET pend']
    BY <1>1, Zenon
  <2>2. \A t \in Callers : pc'[t] \notin {"waiting", "draining"} => awaits'[t] = {}
    BY <1>1, Zenon DEF DInv, WorkTypes
  <2> QED
    BY <1>1, <2>1, <2>2, Zenon DEF DInv, WorkTypes
<1>6. Lands'
  BY <1>1, LandsSame, Zenon DEF DInv
<1>7. ASSUME NEW t \in Callers PROVE HelperOK(t)'
  <2>1. HelperOK(t) /\ awaits'[t] = awaits[t] \cap pend'
    BY <1>1, Zenon DEF DInv
  <2> QED
    BY <1>1, <2>1, Zenon DEF HelperOK
<1> QED
  BY <1>2, <1>4, <1>5, <1>6, <1>7, Zenon DEF DInv

-----------------------------------------------------------------------------
(* CPU backend.                                                            *)

\* open() and close() release what is recorded, and that is all there is.
LEMMA CpuReleaseKeeps ==
    ASSUME NEW t \in Callers, DInv, CpuOpen(t) \/ CpuClose(t)
    PROVE  DInv'
<1>1. /\ backend = "cpu" /\ CpuReleaseOwned /\ isOpen' \in BOOLEAN
      /\ UNCHANGED <<backend, leaked, pend, recorded, callVars>>
  BY Zenon DEF CpuOpen, CpuClose, Cpu, streamVars
<1>2. /\ DriverDestroy(Recorded) /\ record' = [o \in Objects |-> "none"] /\ outBytes' = 0
  BY <1>1, Zenon DEF CpuReleaseOwned
<1>3. /\ \A u \in Callers : pc[u] = "idle" /\ awaits[u] = {}
      /\ \A o \in Objects : ~InHand(o)
  BY <1>1, IdleOutsideCuda, Zenon
<1>4. /\ CallTypes' /\ CallShape' /\ \A o \in Objects : ~InHand(o)'
      /\ \A u \in Callers : HelperOK(u)'
  BY <1>1, <1>3, CallsSame, Zenon
<1>5. /\ DriverTypes'
      /\ \A p \in Objects : driver'[p] = IF p \in Recorded THEN "none" ELSE driver[p]
      /\ \A b \in Buffers : size'[b] = IF b \in Recorded THEN 0 ELSE size[b]
  BY <1>2, DestroyDoes, Zenon DEF DInv
<1>6. ASSUME NEW p \in Objects PROVE p \notin Recorded => driver[p] = "none"
  <2>1. Placed(p) /\ leaked = {}
    BY <1>1, Zenon DEF DInv, LedgerShape, Ledgered
  <2> QED
    BY <1>3, <2>1, Zenon DEF Placed, Recorded
<1>7. \A p \in Objects : driver'[p] = "none" /\ record'[p] = "none"
  BY <1>2, <1>5, <1>6, Zenon
<1>8. \A b \in Buffers : size'[b] = 0
  BY <1>5, <1>7, Zenon DEF DriverTypes, Objects
<1>9. RecordTypes'
  BY <1>2, Zenon DEF RecordTypes, Classes
<1>10. LedgerShape'
  <2>1. leaked' = {}
    BY <1>1, Zenon DEF DInv, LedgerShape
  <2>2. \A p \in Objects : Placed(p)'
    BY <1>4, <1>7, <2>1, Zenon DEF Placed
  <2> QED
    BY <1>7, <2>1, <2>2, Zenon DEF LedgerShape
<1>11. Counted'
  <2>1. SizeSum' = 0
    BY <1>5, <1>8, SizesGone, Zenon
  <2>2. 0 <= DeviceBytes
    BY DevicesAssumption
  <2> QED
    BY <1>1, <1>2, <2>1, <2>2, Zenon DEF Counted
<1>12. WorkTypes' /\ Lands'
  <2>1. UNCHANGED <<backend, pend, recorded, pc, awaits>>
    BY <1>1, Zenon DEF callVars
  <2> QED
    BY <1>1, <2>1, Zenon DEF DInv, WorkTypes, Lands
<1> QED
  BY <1>4, <1>5, <1>9, <1>10, <1>11, <1>12, Zenon DEF DInv

\* A call of the CPU backend whose caller is as it was.
LEMMA CpuCaller ==
    ASSUME NEW t \in Callers, DInv, UNCHANGED <<backend, isOpen, callVars, pend, recorded>>
    PROVE  /\ CallTypes' /\ Moves(t) /\ CallOK(t)' /\ HelperOK(t)' /\ WorkTypes'
           /\ pc'[t] = pc[t] /\ obj'[t] = obj[t]
<1>1. UNCHANGED <<pc, obj, awaits, helper, helperStream>>
  BY Zenon DEF callVars
<1>2. CallTypes'
  BY <1>1, Zenon DEF DInv, CallTypes
<1>3. Moves(t)
  BY <1>1, Zenon DEF Moves, CallMoves, DInv, CallTypes, WorkTypes
<1>4. CallOK(t)' /\ HelperOK(t)'
  BY <1>1, Zenon DEF DInv, CallShape, CallOK, HelperOK
<1>5. WorkTypes'
  BY <1>1, Zenon DEF DInv, WorkTypes
<1> QED
  BY <1>1, <1>2, <1>3, <1>4, <1>5, Zenon

\* What the ledger of an open CPU backend says of an object.
LEMMA CpuPlaced ==
    ASSUME DInv, backend = "cpu", NEW o \in Objects
    PROVE  /\ ~InHand(o) /\ leaked = {} /\ Ledgered
           /\ driver[o] # "none" <=> record[o] # "none"
           /\ record[o] # "none" => record[o] = driver[o] /\ isOpen
<1>1. ~InHand(o)
  BY IdleOutsideCuda, Zenon
<1>2. Placed(o) /\ leaked = {} /\ Ledgered
  BY Zenon DEF DInv, LedgerShape, Ledgered
<1>3. ~isOpen => record[o] = "none"
  BY <1>2, Zenon DEF DInv, LedgerShape
<1> QED
  BY <1>1, <1>2, <1>3, Zenon DEF Placed

\* A call that changes the record of one object with the object.
LEMMA CpuObject ==
    ASSUME NEW t \in Callers, NEW o \in Objects, DInv, backend = "cpu", isOpen,
           UNCHANGED <<backend, isOpen, pend, recorded, leaked>>, pc[t] = "idle", pc'[t] = "idle",
           CallTypes', Moves(t), CallOK(t)', HelperOK(t)', WorkTypes',
           RecordTypes', DriverTypes', Counted', record'[o] = driver'[o],
           \A p \in Objects \ {o} : record'[p] = record[p] /\ driver'[p] = driver[p]
    PROVE  DInv'
<1>1. ~InHand(o) /\ leaked = {} /\ leaked' = {} /\ Ledgered
  BY CpuPlaced, Zenon
<1>2. Lands'
  BY Zenon DEF Lands
<1> DEFINE hand == FALSE
<1>3. /\ hand <=> pc'[t] = "made" \/ (InHand(o) /\ pc[t] # "made")
      /\ driver'[o] # "none" <=> record'[o] # "none" \/ hand \/ o \in leaked'
      /\ record'[o] # "none" => record'[o] = driver'[o] /\ o \notin leaked' /\ ~hand
      /\ hand => o \notin leaked'
  BY <1>1
<1> HIDE DEF hand
<1>4. /\ leaked' \subseteq leaked \cup {o} /\ (backend # "cuda" => leaked' = {})
      /\ (pc[t] = "made" => obj[t] = o) /\ (pc'[t] = "made" => obj'[t] = o /\ ~InHand(o))
      /\ \A p \in Objects \ {o} : /\ record'[p] = record[p] /\ driver'[p] = driver[p]
                                  /\ p \in leaked' <=> p \in leaked
  BY <1>1, Zenon
<1> QED
  BY <1>2, <1>3, <1>4, OneObject, Zenon

LEMMA CpuAllocateKeeps ==
    ASSUME NEW t \in Callers, NEW b \in Buffers, DInv, CpuAllocate(t, b)
    PROVE  DInv'
<1>1. /\ backend = "cpu" /\ isOpen /\ DriverMake(b, "device") /\ CpuFits(size'[b])
      /\ record' = [record EXCEPT ![b] = "device"] /\ outBytes' = outBytes + size'[b]
      /\ UNCHANGED <<backend, isOpen, callVars, pend, recorded, leaked>> /\ pc[t] = "idle"
  BY Zenon DEF CpuAllocate, Cpu, Calls, streamVars
<1>2. b \in Objects /\ "device" \in ClassOf(b) /\ "device" \in Classes
  BY ObjectClass, Zenon DEF MemoryClass, Classes
<1>3. /\ DriverTypes' /\ driver[b] = "none" /\ driver'[b] = "device"
      /\ \A p \in Objects \ {b} : driver'[p] = driver[p]
      /\ \A x \in Buffers \ {b} : size'[x] = size[x]
  BY <1>1, <1>2, MakeDoes, Zenon DEF DInv
<1>4. /\ CallTypes' /\ Moves(t) /\ CallOK(t)' /\ HelperOK(t)' /\ WorkTypes' /\ pc'[t] = "idle"
  BY <1>1, CpuCaller, Zenon
<1>5. /\ RecordTypes' /\ record'[b] = driver'[b]
      /\ \A p \in Objects \ {b} : record'[p] = record[p] /\ driver'[p] = driver[p]
  BY <1>1, <1>2, <1>3, Zenon DEF DInv, RecordTypes
<1>6. /\ SizeSum \in Nat /\ SizeSum' \in Nat /\ size'[b] \in Nat /\ size[b] = 0
      /\ SizeSum' + size[b] = SizeSum + size'[b]
  BY <1>3, SizeChanges, Zenon DEF DInv, DriverTypes
<1>7. Counted'
  <2>1. outBytes = SizeSum /\ outBytes <= DeviceBytes /\ size'[b] <= DeviceBytes - outBytes
    BY <1>1, Zenon DEF DInv, Counted, CpuFits
  <2>2. outBytes' = SizeSum' /\ outBytes' <= DeviceBytes
    BY <1>1, <1>6, <2>1, DevicesAssumption
  <2> QED
    BY <1>1, <2>2, Zenon DEF Counted
<1> QED
  BY <1>1, <1>2, <1>3, <1>4, <1>5, <1>7, CpuObject, Zenon

LEMMA CpuFreeKeeps ==
    ASSUME NEW t \in Callers, NEW b \in Buffers, DInv, CpuFree(t, b)
    PROVE  DInv'
<1>1. /\ backend = "cpu" /\ isOpen /\ DriverDestroy({b})
      /\ record' = [record EXCEPT ![b] = "none"] /\ outBytes' = outBytes - size[b]
      /\ UNCHANGED <<backend, isOpen, callVars, pend, recorded, leaked>> /\ pc[t] = "idle"
  BY Zenon DEF CpuFree, Cpu, Calls, streamVars
<1>2. b \in Objects
  BY ObjectClass, Zenon
<1>3. /\ DriverTypes'
      /\ \A p \in Objects : driver'[p] = IF p \in {b} THEN "none" ELSE driver[p]
      /\ \A x \in Buffers : size'[x] = IF x \in {b} THEN 0 ELSE size[x]
  BY <1>1, DestroyDoes, Zenon DEF DInv
<1>4. /\ CallTypes' /\ Moves(t) /\ CallOK(t)' /\ HelperOK(t)' /\ WorkTypes' /\ pc'[t] = "idle"
  BY <1>1, CpuCaller, Zenon
<1>5. /\ RecordTypes' /\ record'[b] = driver'[b]
      /\ \A p \in Objects \ {b} : record'[p] = record[p] /\ driver'[p] = driver[p]
  BY <1>1, <1>2, <1>3, Zenon DEF DInv, RecordTypes, Classes
<1>6. /\ SizeSum \in Nat /\ SizeSum' \in Nat /\ size[b] \in Nat /\ size'[b] = 0
      /\ SizeSum' + size[b] = SizeSum + size'[b]
  BY <1>3, SizeChanges, Zenon DEF DInv
<1>7. Counted'
  <2>1. outBytes = SizeSum /\ outBytes <= DeviceBytes
    BY <1>1, Zenon DEF DInv, Counted
  <2>2. outBytes' = SizeSum' /\ outBytes' <= DeviceBytes
    BY <1>1, <1>6, <2>1, DevicesAssumption
  <2> QED
    BY <1>1, <2>2, Zenon DEF Counted
<1> QED
  BY <1>1, <1>2, <1>3, <1>4, <1>5, <1>7, CpuObject, Zenon

\* The helper of t goes on with the stream it was given.
LEMMA HelperAdvances ==
    ASSUME NEW t \in Callers, NEW o \in Objects, DInv, pc[t] = "idle",
           helper[t] = "none" \/ (helper[t] = "create" /\ o \in Streams),
           helper' = [helper EXCEPT ![t] = HelperAfter(t, TRUE)],
           helperStream' = [helperStream EXCEPT ![t] = IF helper[t] = "none" THEN NoObject ELSE o],
           UNCHANGED <<backend, isOpen, pend, recorded, pc, obj, awaits>>
    PROVE  /\ CallTypes' /\ Moves(t) /\ CallOK(t)' /\ HelperOK(t)' /\ WorkTypes'
           /\ pc'[t] = "idle" /\ obj'[t] = obj[t]
<1>1. /\ HelperAfter(t, TRUE) \in {"none"} \cup DOMAIN HelperNext
      /\ HelperAfter(t, TRUE) # "destroy"
  BY HelperGoes, Zenon DEF DInv
<1>2. CallTypes'
  BY <1>1, Zenon DEF DInv, CallTypes, AnyStream
<1>3. helper'[t] = HelperAfter(t, TRUE)
  BY Zenon DEF DInv, CallTypes
<1>4. Moves(t)
  BY <1>3, Zenon DEF Moves, CallMoves, DInv, CallTypes, WorkTypes
<1>5. CallOK(t)'
  BY Zenon DEF CallOK
<1>6. HelperOK(t)'
  BY <1>1, <1>3, Zenon DEF HelperOK
<1>7. WorkTypes'
  BY Zenon DEF DInv, WorkTypes
<1> QED
  BY <1>2, <1>4, <1>5, <1>6, <1>7, Zenon

LEMMA CpuCreateKeeps ==
    ASSUME NEW t \in Callers, NEW o, DInv,
           (o \in Streams /\ CpuCreate(t, o, {"create"})) \/ (o \in Events /\ CpuCreate(t, o, {}))
    PROVE  DInv'
<1>1. /\ backend = "cpu" /\ isOpen /\ \E cls \in ClassOf(o) : DriverMake(o, cls)
      /\ record' = [record EXCEPT ![o] = driver'[o]]
      /\ helper' = [helper EXCEPT ![t] = HelperAfter(t, TRUE)]
      /\ helperStream' = [helperStream EXCEPT ![t] = IF helper[t] = "none" THEN NoObject ELSE o]
      /\ UNCHANGED <<backend, isOpen, pend, recorded, leaked, outBytes, pc, obj, awaits>>
      /\ pc[t] = "idle" /\ (helper[t] = "none" \/ (helper[t] = "create" /\ o \in Streams))
  BY Zenon DEF CpuCreate, Cpu, Calls, streamVars
<1>2. o \in Objects /\ o \notin Buffers
  BY ObjectClass, Zenon
<1>3. PICK cls \in ClassOf(o) : DriverMake(o, cls)
  BY <1>1, Zenon
<1>4. /\ DriverTypes' /\ driver'[o] = cls /\ size' = size
      /\ \A p \in Objects \ {o} : driver'[p] = driver[p]
  BY <1>2, <1>3, MakeDoes, Zenon DEF DInv
<1>5. /\ CallTypes' /\ Moves(t) /\ CallOK(t)' /\ HelperOK(t)' /\ WorkTypes' /\ pc'[t] = "idle"
  BY <1>1, <1>2, HelperAdvances, Zenon
<1>6. /\ RecordTypes' /\ record'[o] = driver'[o]
      /\ \A p \in Objects \ {o} : record'[p] = record[p] /\ driver'[p] = driver[p]
  BY <1>1, <1>2, <1>4, Zenon DEF DInv, RecordTypes, DriverTypes
<1>7. Counted'
  BY <1>1, <1>4, CountedSame, Zenon DEF DInv
<1> QED
  BY <1>1, <1>2, <1>4, <1>5, <1>6, <1>7, CpuObject, Zenon

LEMMA CpuDestroyKeeps ==
    ASSUME NEW t \in Callers, NEW o \in Streams \cup Events, NEW stages,
           stages \subseteq {"destroy", "cleanup"}, DInv, CpuDestroy(t, o, stages)
    PROVE  DInv'
<1>1. /\ backend = "cpu" /\ o \in Recorded /\ DriverDestroy({o})
      /\ record' = [record EXCEPT ![o] = "none"] /\ Return(t, TRUE)
      /\ UNCHANGED <<backend, isOpen, pend, recorded, leaked, outBytes>>
      /\ pc[t] = "idle" /\ helper[t] \in {"none"} \cup stages
  BY Zenon DEF CpuDestroy, Cpu, Calls, streamVars
<1>2. o \in Objects /\ o \notin Buffers /\ isOpen
  BY <1>1, ObjectClass, CpuPlaced, Zenon DEF Recorded
<1>3. helper[t] # "create" /\ helper[t] # "sync"
  BY <1>1
<1>4. /\ DriverTypes'
      /\ \A p \in Objects : driver'[p] = IF p \in {o} THEN "none" ELSE driver[p]
      /\ \A x \in Buffers : size'[x] = IF x \in {o} THEN 0 ELSE size[x]
  BY <1>1, DestroyDoes, Zenon DEF DInv
<1>5. size' = size
  <2>1. \A x \in Buffers : size'[x] = size[x]
    BY <1>2, <1>4, Zenon
  <2>2. size = [x \in Buffers |-> size[x]] /\ size' = [x \in Buffers |-> size'[x]]
    BY <1>4, Zenon DEF DInv, DriverTypes
  <2> QED
    BY <2>1, <2>2, Zenon
<1>6. /\ CallTypes' /\ Moves(t) /\ pc'[t] = "idle" /\ awaits'[t] = {} /\ CallOK(t)'
      /\ helper'[t] # "destroy"
  BY <1>1, <1>3, ReturnDoes, Zenon DEF DInv
<1>7. WorkTypes' /\ HelperOK(t)'
  <2>1. WorkTypes'
    BY <1>1, <1>6, WorkSame, Zenon DEF DInv
  <2>2. HelperOK(t)'
    BY <1>6, Zenon DEF HelperOK
  <2> QED
    BY <2>1, <2>2, Zenon
<1>8. /\ RecordTypes' /\ record'[o] = driver'[o]
      /\ \A p \in Objects \ {o} : record'[p] = record[p] /\ driver'[p] = driver[p]
  BY <1>1, <1>2, <1>4, Zenon DEF DInv, RecordTypes, Classes
<1>9. Counted'
  BY <1>1, <1>5, CountedSame, Zenon DEF DInv
<1> QED
  BY <1>1, <1>2, <1>4, <1>6, <1>7, <1>8, <1>9, CpuObject, Zenon

LEMMA CpuReturnKeeps ==
    ASSUME NEW t \in Callers, NEW s, DInv,
           CpuSyncStream(t, s) \/ \E b \in Buffers, n \in AllocBytes : CpuCopy(t, s, b, n)
    PROVE  DInv'
<1>1. /\ backend = "cpu" /\ pc[t] = "idle" /\ Return(t, TRUE) /\ helper[t] \in {"copy", "sync"}
      /\ UNCHANGED <<backend, isOpen, ledgerVars, streamVars>>
  BY Zenon DEF CpuSyncStream, CpuCopy, Cpu, Calls, ledgerVars
<1>2. pc[t] # "made" /\ helper[t] # "create"
  BY <1>1
<1>3. pend = {}
  BY <1>1, Zenon DEF DInv, WorkTypes
<1> QED
  BY <1>1, <1>2, <1>3, QuietReturn, Zenon

-----------------------------------------------------------------------------
(* CUDA backend.                                                           *)

\* What the ledgers of the CUDA backend say of an object.
LEMMA CudaPlaced ==
    ASSUME DInv, backend = "cuda", NEW o \in Objects
    PROVE  Placed(o) /\ Ledgered
  BY Zenon DEF DInv, LedgerShape, Ledgered

\* A call that made an object, or failed to.
LEMMA CudaAcquireKeeps ==
    ASSUME NEW t \in Callers, NEW o \in Objects, NEW cls \in ClassOf(o), NEW stages, DInv,
           CudaAcquire(t, o, cls, stages),
           stages = {} \/ (stages = {"create"} /\ o \in Streams)
    PROVE  DInv'
<1>1. /\ backend = "cuda" /\ isOpen /\ pc[t] = "idle" /\ driver[o] = "none"
      /\ helper[t] = "none" \/ (helper[t] = "create" /\ o \in Streams)
      /\ UNCHANGED <<backend, isOpen, outBytes, record, leaked, pend, recorded>>
  BY Zenon DEF CudaAcquire, Cuda, Calls, DriverMake, streamVars
<1>2. CASE CudaFails(t) /\ UNCHANGED <<driver, size>>
  BY <1>1, <1>2, QuietFail
<1>3. CASE DriverMake(o, cls) /\ Continue(t, "made", o)
  <2>1. /\ CallTypes' /\ Moves(t) /\ pc'[t] = "made" /\ obj'[t] = o /\ awaits'[t] = {}
        /\ CallOK(t)' /\ helper'[t] = helper[t] /\ helperStream'[t] = helperStream[t]
    BY <1>1, <1>3, ContinueDoes, Zenon DEF DInv
  <2>2. HelperOK(t)'
    BY <1>1, <2>1, HelperStays, Zenon DEF DInv
  <2>3. WorkTypes'
    BY <1>1, <2>1, WorkSame, Zenon DEF DInv
  <2>4. /\ DriverTypes' /\ driver'[o] # "none"
        /\ \A p \in Objects \ {o} : driver'[p] = driver[p]
    BY <1>3, MakeDoes, Zenon DEF DInv
  <2>5. Lands'
    BY <1>1, <1>3, MakeLands, Zenon DEF DInv
  <2>6. RecordTypes' /\ Counted'
    <3>1. Counted'
      BY <1>1, CountedOther DEF DInv
    <3> QED
      BY <1>1, <3>1, Zenon DEF DInv, RecordTypes
  <2>7. record[o] = "none" /\ ~InHand(o) /\ o \notin leaked /\ Ledgered
    BY <1>1, CudaPlaced, Zenon DEF Placed
  <2> DEFINE hand == TRUE
  <2>8. /\ hand <=> pc'[t] = "made" \/ (InHand(o) /\ pc[t] # "made")
        /\ driver'[o] # "none" <=> record'[o] # "none" \/ hand \/ o \in leaked'
        /\ record'[o] # "none" => record'[o] = driver'[o] /\ o \notin leaked' /\ ~hand
        /\ hand => o \notin leaked'
    BY <1>1, <2>1, <2>4, <2>7, Zenon
  <2> HIDE DEF hand
  <2>9. /\ leaked' \subseteq leaked \cup {o} /\ (backend # "cuda" => leaked' = {})
        /\ (pc[t] = "made" => obj[t] = o) /\ (pc'[t] = "made" => obj'[t] = o /\ ~InHand(o))
        /\ \A p \in Objects \ {o} : /\ record'[p] = record[p] /\ driver'[p] = driver[p]
                                    /\ p \in leaked' <=> p \in leaked
    BY <1>1, <2>1, <2>4, <2>7, Zenon
  <2> QED
    BY <1>1, <2>1, <2>2, <2>3, <2>4, <2>5, <2>6, <2>8, <2>9, OneObject, Zenon
<1> QED
  BY <1>2, <1>3, Zenon DEF CudaAcquire

\* A call that returns from a step on one object that nobody has in hand after it.
LEMMA CudaObject ==
    ASSUME NEW t \in Callers, NEW o \in Objects, DInv, backend = "cuda", isOpen,
           UNCHANGED <<backend, isOpen, outBytes, pend, recorded>>,
           CallTypes', Moves(t), CallOK(t)', HelperOK(t)', awaits'[t] = {},
           pc'[t] \in {"idle", "failed"}, RecordTypes', DriverTypes', Lands',
           IF pc[t] = "made" THEN obj[t] = o ELSE record[o] # "none",
           leaked' \subseteq leaked \cup {o},
           \A p \in Objects \ {o} : /\ record'[p] = record[p] /\ driver'[p] = driver[p]
                                    /\ p \in leaked' <=> p \in leaked,
           driver'[o] # "none" <=> record'[o] # "none" \/ o \in leaked',
           record'[o] # "none" => record'[o] = driver'[o] /\ o \notin leaked'
    PROVE  DInv'
<1>1. pc'[t] \notin {"made", "waiting", "draining"}
  OBVIOUS
<1>2. WorkTypes'
  BY <1>1, WorkSame, Zenon DEF DInv
<1>3. Counted'
  BY CountedOther DEF DInv
<1>4. pc[t] # "made" => ~InHand(o)
  BY CudaPlaced, Zenon DEF Placed
<1> DEFINE hand == FALSE
<1>5. hand <=> pc'[t] = "made" \/ (InHand(o) /\ pc[t] # "made")
  BY <1>1, <1>4, Zenon
<1>6. /\ driver'[o] # "none" <=> record'[o] # "none" \/ hand \/ o \in leaked'
      /\ record'[o] # "none" => record'[o] = driver'[o] /\ o \notin leaked' /\ ~hand
      /\ hand => o \notin leaked'
  BY Zenon
<1> HIDE DEF hand
<1>7. /\ pc[t] = "made" => obj[t] = o
      /\ pc'[t] = "made" => obj'[t] = o /\ ~InHand(o)
  BY <1>1, Zenon
<1> QED
  BY <1>2, <1>3, <1>5, <1>6, <1>7, OneObject, Zenon

\* The object is recorded; or released, or lost, when it cannot be.
LEMMA CudaRecordKeeps ==
    ASSUME NEW t \in Callers, DInv, CudaRecord(t)
    PROVE  DInv'
<1> DEFINE o == obj[t]
<1>1. /\ backend = "cuda" /\ pc[t] = "made"
      /\ UNCHANGED <<backend, isOpen, outBytes, pend, recorded>>
  BY Zenon DEF CudaRecord, streamVars
<1>2. /\ isOpen /\ o \in Objects /\ helper[t] \in {"none", "create"}
      /\ helper[t] = "create" => o \in Streams
  BY <1>1, Zenon DEF DInv, CallShape, CallOK
<1>3. /\ record[o] = "none" /\ driver[o] # "none" /\ o \notin leaked
  <2>1. Placed(o) /\ InHand(o)
    BY <1>1, <1>2, CudaPlaced, Zenon DEF InHand
  <2> QED
    BY <2>1, Zenon DEF Placed
<1>4. helper[t] # "sync"
  BY <1>2
<1>5. ASSUME NEW ok \in BOOLEAN, Return(t, ok)
      PROVE  /\ CallTypes' /\ Moves(t) /\ pc'[t] = "idle" /\ awaits'[t] = {}
             /\ CallOK(t)' /\ HelperOK(t)'
  <2>1. /\ CallTypes' /\ Moves(t) /\ pc'[t] = "idle" /\ awaits'[t] = {} /\ CallOK(t)'
        /\ helper'[t] # "destroy"
    BY <1>1, <1>2, <1>4, <1>5, ReturnDoes, Zenon DEF DInv
  <2> QED
    BY <2>1, Zenon DEF HelperOK
<1>6. CASE /\ record' = [record EXCEPT ![o] = driver[o]]
           /\ Return(t, TRUE) /\ UNCHANGED <<driver, size, leaked>>
  <2>1. /\ RecordTypes' /\ record'[o] = driver[o]
        /\ \A p \in Objects \ {o} : record'[p] = record[p]
    BY <1>2, <1>6, Zenon DEF DInv, RecordTypes, DriverTypes
  <2>2. DriverTypes' /\ Lands'
    BY <1>1, <1>6, LandsSame, Zenon DEF DInv, DriverTypes
  <2>3. /\ CallTypes' /\ Moves(t) /\ pc'[t] \in {"idle", "failed"} /\ awaits'[t] = {}
        /\ CallOK(t)' /\ HelperOK(t)'
    BY <1>5, <1>6, Zenon
  <2> HIDE DEF o
  <2> QED
    BY <1>1, <1>2, <1>3, <1>6, <2>1, <2>2, <2>3, CudaObject, Zenon DEF o
<1>7. CASE DriverDestroy({o}) /\ Return(t, FALSE) /\ UNCHANGED <<record, leaked>>
  <2>1. /\ DriverTypes' /\ driver'[o] = "none"
        /\ \A p \in Objects \ {o} : driver'[p] = driver[p]
    BY <1>2, <1>7, DestroyDoes, Zenon DEF DInv
  <2>2. RecordTypes' /\ Lands'
    BY <1>1, <1>7, DestroyLands, Zenon DEF DInv, RecordTypes
  <2>3. /\ CallTypes' /\ Moves(t) /\ pc'[t] \in {"idle", "failed"} /\ awaits'[t] = {}
        /\ CallOK(t)' /\ HelperOK(t)'
    BY <1>5, <1>7, Zenon
  <2> HIDE DEF o
  <2> QED
    BY <1>1, <1>2, <1>3, <1>7, <2>1, <2>2, <2>3, CudaObject, Zenon DEF o
<1>8. CASE /\ leaked' = leaked \cup {o} /\ Return(t, FALSE)
           /\ UNCHANGED <<record, driver, size>>
  <2>1. RecordTypes' /\ DriverTypes' /\ Lands'
    BY <1>1, <1>8, LandsSame, Zenon DEF DInv, DriverTypes, RecordTypes
  <2>2. /\ CallTypes' /\ Moves(t) /\ pc'[t] \in {"idle", "failed"} /\ awaits'[t] = {}
        /\ CallOK(t)' /\ HelperOK(t)'
    BY <1>5, <1>8, Zenon
  <2> HIDE DEF o
  <2> QED
    BY <1>1, <1>2, <1>3, <1>8, <2>1, <2>2, CudaObject, Zenon DEF o
<1> QED
  BY <1>6, <1>7, <1>8, Zenon DEF CudaRecord

LEMMA CudaFreeKeeps ==
    ASSUME NEW t \in Callers, NEW b \in Buffers, NEW cls \in MemoryClass, DInv,
           CudaFreeMemory(t, b, cls)
    PROVE  DInv'
<1>1. /\ backend = "cuda" /\ isOpen /\ pc[t] = "idle" /\ helper[t] = "none" /\ record[b] = cls
      /\ UNCHANGED <<backend, isOpen, outBytes, leaked, pend, recorded>>
  BY Zenon DEF CudaFreeMemory, Cuda, Calls, streamVars
<1>2. b \in Objects /\ cls # "none"
  BY ObjectClass DEF MemoryClass
<1>3. CASE CudaFails(t) /\ UNCHANGED <<driver, size, record>>
  BY <1>1, <1>3, QuietFail
<1>4. CASE DriverDestroy({b}) /\ record' = [record EXCEPT ![b] = "none"] /\ Return(t, TRUE)
  <2>1. /\ DriverTypes' /\ driver'[b] = "none"
        /\ \A p \in Objects \ {b} : driver'[p] = driver[p]
    BY <1>2, <1>4, DestroyDoes, Zenon DEF DInv
  <2>2. /\ RecordTypes' /\ record'[b] = "none" /\ Lands'
        /\ \A p \in Objects \ {b} : record'[p] = record[p]
    BY <1>1, <1>2, <1>4, DestroyLands, Zenon DEF DInv, RecordTypes, Classes
  <2>3. /\ CallTypes' /\ Moves(t) /\ pc'[t] = "idle" /\ awaits'[t] = {} /\ CallOK(t)'
        /\ helper'[t] # "destroy"
    BY <1>1, <1>4, ReturnDoes, Zenon DEF DInv
  <2>4. HelperOK(t)' /\ pc'[t] \in {"idle", "failed"}
    BY <2>3, Zenon DEF HelperOK
  <2>5. b \notin leaked /\ pc[t] # "made"
    BY <1>1, <1>2, CudaPlaced, Zenon DEF Placed
  <2> QED
    BY <1>1, <1>2, <2>1, <2>2, <2>3, <2>4, <2>5, CudaObject, Zenon
<1> QED
  BY <1>3, <1>4, Zenon DEF CudaFreeMemory

LEMMA CudaDestroyKeeps ==
    ASSUME NEW t \in Callers, NEW o \in Objects, NEW stages,
           stages \subseteq {"destroy", "cleanup"}, DInv, CudaDestroy(t, o, stages)
    PROVE  DInv'
<1>1. /\ backend = "cuda" /\ isOpen /\ pc[t] = "idle" /\ helper[t] \in {"none"} \cup stages
      /\ o \in Recorded /\ record' = [record EXCEPT ![o] = "none"]
      /\ UNCHANGED <<backend, isOpen, outBytes, pend, recorded>>
  BY Zenon DEF CudaDestroy, Cuda, Calls, streamVars
<1>2. /\ RecordTypes' /\ record'[o] = "none" /\ record[o] # "none" /\ pc[t] # "made"
      /\ \A p \in Objects \ {o} : record'[p] = record[p]
  BY <1>1, Zenon DEF DInv, RecordTypes, Classes, Recorded
<1>3. helper[t] # "create" /\ helper[t] # "sync"
  BY <1>1
<1>4. o \notin leaked /\ driver[o] # "none"
  BY <1>1, <1>2, CudaPlaced, Zenon DEF Placed
<1>5. CASE DriverDestroy({o}) /\ Return(t, TRUE) /\ UNCHANGED leaked
  <2>1. /\ DriverTypes' /\ driver'[o] = "none"
        /\ \A p \in Objects \ {o} : driver'[p] = driver[p]
    BY <1>5, DestroyDoes, Zenon DEF DInv
  <2>2. Lands'
    BY <1>1, <1>5, DestroyLands, Zenon DEF DInv
  <2>3. /\ CallTypes' /\ Moves(t) /\ pc'[t] = "idle" /\ awaits'[t] = {} /\ CallOK(t)'
        /\ helper'[t] # "destroy"
    BY <1>1, <1>3, <1>5, ReturnDoes, Zenon DEF DInv
  <2>4. HelperOK(t)' /\ pc'[t] \in {"idle", "failed"}
    BY <2>3, Zenon DEF HelperOK
  <2> QED
    BY <1>1, <1>2, <1>4, <1>5, <2>1, <2>2, <2>3, <2>4, CudaObject, Zenon
<1>6. CASE leaked' = leaked \cup {o} /\ CudaFails(t) /\ UNCHANGED <<driver, size>>
  <2>1. DriverTypes' /\ Lands'
    BY <1>1, <1>6, LandsSame, Zenon DEF DInv, DriverTypes
  <2>2. /\ CallTypes' /\ Moves(t) /\ pc'[t] = "failed" /\ awaits'[t] = {} /\ CallOK(t)'
        /\ helper'[t] = helper[t] /\ helperStream'[t] = helperStream[t]
    BY <1>1, <1>6, ContinueDoes, Zenon DEF DInv, CudaFails
  <2>3. HelperOK(t)' /\ pc'[t] \in {"idle", "failed"}
    BY <1>1, <2>2, HelperStays, Zenon DEF DInv
  <2> QED
    BY <1>1, <1>2, <1>4, <1>6, <2>1, <2>2, <2>3, CudaObject, Zenon
<1> QED
  BY <1>5, <1>6, Zenon DEF CudaDestroy

\* The copies are given to the driver: of memory that is recorded.
LEMMA CudaCopyKeeps ==
    ASSUME NEW t \in Callers, NEW s \in AnyStream, NEW bs \in SUBSET Buffers,
           NEW n \in AllocBytes, DInv, CudaCopy(t, s, bs, n)
    PROVE  DInv'
<1>1. /\ backend = "cuda" /\ isOpen /\ pc[t] = "idle" /\ helper[t] \in {"none", "copy"}
      /\ \A b \in bs : record[b] \in {"device", "unified"} /\ n <= size[b]
      /\ UNCHANGED <<backend, isOpen, outBytes, record, driver, size, leaked, recorded>>
  BY Zenon DEF CudaCopy, Cuda, Calls, CudaOwnsRange
<1>2. CASE CudaFails(t) /\ UNCHANGED pend
  BY <1>1, <1>2, QuietFail
<1> DEFINE by == IF helper[t] = "none" THEN NoObject ELSE t
           new == {[stream |-> s, buf |-> b, bytes |-> n, by |-> by] : b \in bs}
<1>3. CASE pend' = pend \cup new /\ Return(t, TRUE)
  <2>1. by \in {t, NoObject} /\ by \in Callers \cup {NoObject}
    BY Zenon
  <2> HIDE DEF by
  <2>2. /\ new \subseteq WorkItems
        /\ \A w \in new : w.by \in {t, NoObject} /\ w.buf \in bs /\ w.bytes = n
    BY <2>1 DEF WorkItems
  <2> HIDE DEF new
  <2>3. helper[t] # "create" /\ helper[t] # "sync"
    BY <1>1
  <2>4. /\ CallTypes' /\ Moves(t) /\ pc'[t] = "idle" /\ awaits'[t] = {} /\ CallOK(t)'
        /\ helper'[t] # "destroy"
    BY <1>1, <1>3, <2>3, ReturnDoes, Zenon DEF DInv
  <2>5. HelperOK(t)'
    BY <2>4, Zenon DEF HelperOK
  <2>6. WorkTypes'
    <3>1. /\ pend \subseteq pend' /\ pend' \subseteq WorkItems /\ awaits'[t] \subseteq pend'
          /\ recorded' \in [Events -> SUBSET pend'] /\ backend # "cpu"
      BY <1>1, <1>3, <2>2, <2>4 DEF DInv, WorkTypes
    <3> QED
      BY <1>1, <2>4, <3>1, WorkKept, Zenon DEF DInv
  <2>7. Lands'
    <3>1. ASSUME NEW b \in bs PROVE driver[b] = record[b]
      <4>1. b \in Objects /\ record[b] # "none"
        BY <1>1, ObjectClass
      <4> QED
        BY <1>1, <4>1, CudaPlaced, Zenon DEF Placed
    <3>2. \A w \in new : driver[w.buf] \in {"device", "unified"} /\ w.bytes <= size[w.buf]
      BY <1>1, <2>2, <3>1, Zenon
    <3> QED
      BY <1>1, <1>3, <3>2, Zenon DEF DInv, Lands
  <2>8. \A w \in pend' : w \in pend \/ w.by \in {t, NoObject}
    BY <1>3, <2>2, Zenon
  <2> QED
    BY <1>1, <2>4, <2>5, <2>6, <2>7, <2>8, QuietStep, Zenon
<1> QED
  BY <1>2, <1>3, Zenon DEF CudaCopy

LEMMA CudaWaitsKeep ==
    ASSUME NEW t \in Callers, DInv,
           \/ CudaSyncAll(t)
           \/ \E s \in AnyStream : CudaSyncStream(t, s)
           \/ \E e \in Events : CudaWaitEvent(t, e)
    PROVE  DInv'
<1>1. CASE CudaSyncAll(t)
  <2>1. /\ backend = "cuda" /\ isOpen /\ pc[t] = "idle" /\ helper[t] = "none"
        /\ WaitFor(t, "draining", pend)
        /\ UNCHANGED <<backend, isOpen, outBytes, record, driver, size, leaked, pend, recorded>>
    BY <1>1, Zenon DEF CudaSyncAll, Cuda, Calls, streamVars
  <2> QED
    BY <2>1, QuietWait, Zenon
<1>2. ASSUME NEW s \in AnyStream, CudaSyncStream(t, s) PROVE DInv'
  <2>1. /\ backend = "cuda" /\ isOpen /\ pc[t] = "idle" /\ helper[t] \in {"none", "sync"}
        /\ helper[t] # "none" => s = helperStream[t]
        /\ WaitFor(t, "waiting", Work(s))
        /\ UNCHANGED <<backend, isOpen, outBytes, record, driver, size, leaked, pend, recorded>>
    BY <1>2, Zenon DEF CudaSyncStream, Cuda, Calls, OnStream, streamVars
  <2>2. /\ Work(s) \in SUBSET pend
        /\ helper[t] = "sync" =>
              \A w \in pend : w.stream = helperStream[t] /\ w.by = t => w \in Work(s)
    BY <2>1, Zenon DEF Work
  <2> QED
    BY <2>1, <2>2, QuietWait, Zenon
<1>3. ASSUME NEW e \in Events, CudaWaitEvent(t, e) PROVE DInv'
  <2>1. /\ backend = "cuda" /\ isOpen /\ pc[t] = "idle" /\ helper[t] = "none"
        /\ WaitFor(t, "waiting", recorded[e])
        /\ UNCHANGED <<backend, isOpen, outBytes, record, driver, size, leaked, pend, recorded>>
    BY <1>3, Zenon DEF CudaWaitEvent, Cuda, Calls, streamVars
  <2>2. recorded[e] \in SUBSET pend
    BY Zenon DEF DInv, WorkTypes
  <2> QED
    BY <2>1, <2>2, QuietWait, Zenon
<1> QED
  BY <1>1, <1>2, <1>3, Zenon

\* A helper comes back from its wait when nothing of its stream is left.
LEMMA CudaWaitOverKeeps ==
    ASSUME NEW t \in Callers, DInv, CudaWaitOver(t)
    PROVE  DInv'
<1>1. /\ pc[t] \in {"waiting", "draining"} /\ awaits[t] = {} /\ Return(t, TRUE)
      /\ UNCHANGED <<backend, isOpen, ledgerVars, streamVars>>
  BY Zenon DEF CudaWaitOver
<1>2. CallOK(t) /\ HelperOK(t)
  BY Zenon DEF DInv, CallShape
<1>3. pc[t] # "made" /\ helper[t] # "create" /\ (helper[t] = "sync" => pc[t] = "waiting")
  BY <1>1, <1>2 DEF CallOK
<1>4. helper[t] = "sync" => \A w \in pend : w.stream = helperStream[t] => w.by # t
  BY <1>1, <1>2, <1>3, Zenon DEF HelperOK
<1> QED
  BY <1>1, <1>3, <1>4, QuietReturn, Zenon

LEMMA CudaWaitFailsKeeps ==
    ASSUME NEW t \in Callers, DInv, CudaWaitFails(t)
    PROVE  DInv'
<1>1. /\ pc[t] \in {"waiting", "draining"} /\ DropWork
      /\ pc' = [pc EXCEPT ![t] = "failed"] /\ awaits' = [u \in Callers |-> {}]
      /\ UNCHANGED <<backend, isOpen, record, driver, size, leaked, outBytes>>
      /\ UNCHANGED <<obj, helper, helperStream>>
  BY Zenon DEF CudaWaitFails, ledgerVars
<1>2. pc'[t] = "failed" /\ pend' = {}
  BY <1>1, Zenon DEF DInv, CallTypes, DropWork
<1>3. CallTypes' /\ CallMoves(t)
  BY <1>1, <1>2, Zenon DEF DInv, CallTypes, CallMoves
<1>4. CallOK(t)' /\ pc[t] # "made"
  <2>1. CallOK(t) /\ pc[t] # "idle" /\ pc[t] # "made"
    BY <1>1 DEF DInv, CallShape
  <2> QED
    BY <1>1, <1>2, <2>1, Zenon DEF CallOK
<1>5. CallShape' /\ \A o \in Objects : InHand(o)' <=> InHand(o)
  BY <1>1, <1>2, <1>3, <1>4, CallsChange, Zenon DEF DInv
<1>6. RecordTypes' /\ DriverTypes' /\ LedgerShape' /\ Counted'
  BY <1>1, <1>5, LedgerSame, Zenon DEF DInv
<1>7. WorkTypes'
  BY <1>1, WorkDropped, Zenon
<1>8. Lands' /\ \A u \in Callers : HelperOK(u)'
  BY <1>2, Zenon DEF Lands, HelperOK
<1> QED
  BY <1>3, <1>5, <1>6, <1>7, <1>8, Zenon DEF DInv

\* An event is recorded behind the work of a stream; no call is changed.
LEMMA EventKeeps ==
    ASSUME NEW e \in Events, NEW s, DInv,
           recorded' = [recorded EXCEPT ![e] = Work(s)], 
           UNCHANGED <<backend, isOpen, record, driver, size, leaked, outBytes, pend, callVars>>
    PROVE  DInv'
<1>1. /\ CallTypes' /\ CallShape' /\ (\A o \in Objects : InHand(o)' <=> InHand(o))
      /\ \A t \in Callers : HelperOK(t)'
  BY CallsSame, Zenon DEF DInv, CallTypes
<1>2. RecordTypes' /\ DriverTypes' /\ LedgerShape' /\ Counted'
  BY <1>1, LedgerSame, Zenon DEF DInv
<1>3. WorkTypes'
  <2>1. UNCHANGED <<pc, awaits>>
    BY Zenon DEF callVars
  <2>2. Work(s) \in SUBSET pend
    BY Zenon DEF Work
  <2>3. recorded' \in [Events -> SUBSET pend]
    BY <2>2, Zenon DEF DInv, WorkTypes
  <2> QED
    BY <2>1, <2>3, Zenon DEF DInv, WorkTypes
<1>4. Lands'
  BY LandsSame, Zenon DEF DInv
<1> QED
  BY <1>1, <1>2, <1>3, <1>4, Zenon DEF DInv

LEMMA CudaEventsKeep ==
    ASSUME NEW t \in Callers, NEW e \in Events, DInv,
           CudaElapsed(t, e) \/ \E s \in AnyStream : CudaRecordEvent(t, e, s)
    PROVE  DInv'
<1>1. /\ backend = "cuda" /\ isOpen /\ pc[t] = "idle"
      /\ UNCHANGED <<backend, isOpen, outBytes, record, driver, size, leaked, pend>>
  BY Zenon DEF CudaElapsed, CudaRecordEvent, Cuda, Calls, streamVars
<1>2. CASE CudaFails(t) /\ UNCHANGED recorded
  BY <1>1, <1>2, QuietFail
<1>3. ASSUME NEW s, recorded' = [recorded EXCEPT ![e] = Work(s)], UNCHANGED callVars
      PROVE  DInv'
  BY <1>1, <1>3, EventKeeps, Zenon
<1> QED
  BY <1>2, <1>3, Zenon DEF CudaElapsed, CudaRecordEvent, streamVars

LEMMA CudaCheckKeeps ==
    ASSUME NEW t \in Callers, DInv, CudaCheck(t)
    PROVE  DInv'
<1>1. /\ pc[t] # "made" /\ Return(t, FALSE)
      /\ UNCHANGED <<backend, isOpen, ledgerVars, streamVars>>
  BY Zenon DEF CudaCheck
<1> QED
  BY <1>1, QuietReturn, Zenon

\* close() finds no call inside: what it does not release was recorded, and is lost.
LEMMA CudaCloseKeeps ==
    ASSUME NEW t \in Callers, DInv, CudaClose(t)
    PROVE  DInv'
<1>1. /\ backend = "cuda" /\ CudaCloseLocked /\ isOpen' = FALSE
      /\ \A u \in Callers : pc[u] = "idle"
      /\ UNCHANGED <<backend, outBytes, callVars>>
  BY Zenon DEF CudaClose, CloseAlone, NoCallInside
<1>2. PICK failed \in SUBSET Recorded :
        /\ record' = [o \in Objects |-> "none"] /\ leaked' = leaked \cup failed /\ DropWork
        /\ driver' = [o \in Objects |-> IF o \in Recorded \ failed THEN "none" ELSE driver[o]]
        /\ size' = [b \in Buffers |-> IF b \in Recorded \ failed THEN 0 ELSE size[b]]
  BY <1>1, Zenon DEF CudaCloseLocked
<1>3. pend' = {}
  BY <1>2, Zenon DEF DropWork
<1>4. /\ CallTypes' /\ CallShape' /\ (\A o \in Objects : InHand(o)' <=> InHand(o))
      /\ \A u \in Callers : HelperOK(u)'
  BY <1>1, <1>3, CallsSame, Zenon
<1>5. \A o \in Objects : ~InHand(o)
  <2>1. "idle" # "made"
    OBVIOUS
  <2> QED
    BY <1>1, <2>1, Zenon DEF InHand
<1>6. WorkTypes'
  <2>1. ASSUME NEW u \in Callers PROVE awaits[u] = {}
    <3>1. pc[u] \notin {"waiting", "draining"}
      BY <1>1
    <3> QED
      BY <3>1, Zenon DEF DInv, WorkTypes
  <2>2. awaits' = [u \in Callers |-> {}]
    BY <1>1, <2>1, Zenon DEF DInv, WorkTypes, callVars
  <2> QED
    BY <1>2, <2>2, WorkDropped, Zenon
<1>7. RecordTypes'
  BY <1>2, Zenon DEF RecordTypes, Classes
<1>8. DriverTypes'
  <2>1. driver' \in [Objects -> Classes]
    BY <1>2, Zenon DEF DInv, DriverTypes, Classes
  <2>2. size' \in [Buffers -> 0 .. DeviceBytes]
    BY <1>2, DevicesAssumption DEF DInv, DriverTypes
  <2>3. \A o \in Objects : driver'[o] \in ClassOf(o) \cup {"none"}
    BY <1>2, Zenon DEF DInv, DriverTypes
  <2>4. \A b \in Buffers : driver'[b] = "none" => size'[b] = 0
    BY <1>2, Zenon DEF DInv, DriverTypes, Objects
  <2> QED
    BY <2>1, <2>2, <2>3, <2>4, Zenon DEF DriverTypes
<1>9. LedgerShape'
  <2>1. leaked' \subseteq Objects
    BY <1>2, Zenon DEF DInv, LedgerShape, Recorded
  <2>2. ASSUME NEW o \in Objects PROVE Placed(o)'
    <3>1. Placed(o) /\ ~InHand(o) /\ ~InHand(o)'
      BY <1>1, <1>4, <1>5, CudaPlaced, Zenon
    <3>2. /\ record'[o] = "none" /\ (o \in leaked' <=> o \in leaked \/ o \in failed)
          /\ driver'[o] = IF o \in Recorded \ failed THEN "none" ELSE driver[o]
      BY <1>2, Zenon
    <3>3. /\ o \in Recorded <=> record[o] # "none"
          /\ o \in failed => o \in Recorded
      BY <1>2, Zenon DEF Recorded
    <3> QED
      BY <3>1, <3>2, <3>3, Zenon DEF Placed
  <2> QED
    BY <1>1, <1>2, <2>1, <2>2, Zenon DEF LedgerShape
<1>10. Counted' /\ Lands'
  <2>1. Counted'
    BY <1>1, CountedOther DEF DInv
  <2> QED
    BY <1>3, <2>1, Zenon DEF Lands
<1> QED
  BY <1>4, <1>6, <1>7, <1>8, <1>9, <1>10, Zenon DEF DInv

\* open(), and close() of the HIP backend: no object and no call is changed.
LEMMA OpensKeep ==
    ASSUME DInv, isOpen' \in BOOLEAN, isOpen' \/ backend = "hip",
           UNCHANGED <<backend, record, driver, size, leaked, outBytes, pend, recorded, callVars>>
    PROVE  DInv'
<1>1. isOpen => isOpen' \/ \A t \in Callers : pc[t] = "idle"
  <2>1. backend = "hip" => backend # "cuda"
    OBVIOUS
  <2> QED
    BY <2>1, IdleOutsideCuda, Zenon
<1>2. /\ CallTypes' /\ CallShape' /\ (\A o \in Objects : InHand(o)' <=> InHand(o))
      /\ \A t \in Callers : HelperOK(t)'
  BY <1>1, CallsSame, Zenon
<1>3. Ledgered /\ isOpen => isOpen'
  BY DEF Ledgered
<1>4. RecordTypes' /\ DriverTypes' /\ LedgerShape' /\ Counted'
  BY <1>2, <1>3, LedgerSame, Zenon DEF DInv
<1>5. WorkTypes' /\ Lands'
  <2>1. UNCHANGED <<pc, awaits>>
    BY Zenon DEF callVars
  <2> QED
    BY <2>1, LandsSame, Zenon DEF DInv, WorkTypes
<1> QED
  BY <1>2, <1>4, <1>5, Zenon DEF DInv

-----------------------------------------------------------------------------
(* HIP backend.                                                            *)

\* A call that makes or releases one object.
LEMMA HipObject ==
    ASSUME NEW t \in Callers, NEW o \in Objects, DInv, backend = "hip",
           UNCHANGED <<backend, isOpen, record, leaked, outBytes, pend, recorded>>,
           pc[t] = "idle", pc'[t] = "idle",
           CallTypes', Moves(t), CallOK(t)', HelperOK(t)', WorkTypes', DriverTypes',
           \A p \in Objects \ {o} : driver'[p] = driver[p]
    PROVE  DInv'
<1>1. leaked = {} /\ ~Ledgered /\ backend # "cuda" /\ backend # "cpu"
  BY DEF DInv, LedgerShape, Ledgered
<1>2. Lands' /\ Counted' /\ RecordTypes'
  <2>1. Counted'
    BY <1>1, CountedOther, Zenon DEF DInv
  <2> QED
    BY <1>1, <2>1, Zenon DEF Lands, DInv, RecordTypes
<1> DEFINE hand == pc'[t] = "made" \/ (InHand(o) /\ pc[t] # "made")
<1>3. hand <=> pc'[t] = "made" \/ (InHand(o) /\ pc[t] # "made")
  BY Zenon
<1> HIDE DEF hand
<1>4. /\ leaked' \subseteq leaked \cup {o} /\ (backend # "cuda" => leaked' = {})
      /\ (pc[t] = "made" => obj[t] = o) /\ (pc'[t] = "made" => obj'[t] = o /\ ~InHand(o))
      /\ \A p \in Objects \ {o} : /\ record'[p] = record[p] /\ driver'[p] = driver[p]
                                  /\ p \in leaked' <=> p \in leaked
  BY <1>1, Zenon
<1> QED
  BY <1>1, <1>2, <1>3, <1>4, OneObject, Zenon

LEMMA HipAcquireKeeps ==
    ASSUME NEW t \in Callers, NEW o \in Objects, NEW cls \in ClassOf(o), NEW stages, DInv,
           HipAcquire(t, o, cls, stages),
           stages = {} \/ (stages = {"create"} /\ o \in Streams)
    PROVE  DInv'
<1>1. /\ backend = "hip" /\ pc[t] = "idle" /\ DriverMake(o, cls)
      /\ helper[t] = "none" \/ (helper[t] = "create" /\ o \in Streams)
      /\ helper' = [helper EXCEPT ![t] = HelperAfter(t, TRUE)]
      /\ helperStream' = [helperStream EXCEPT ![t] = IF helper[t] = "none" THEN NoObject ELSE o]
      /\ UNCHANGED <<backend, isOpen, record, leaked, outBytes, pend, recorded, pc, obj, awaits>>
  BY Zenon DEF HipAcquire, Hip, Calls, streamVars
<1>2. DriverTypes' /\ \A p \in Objects \ {o} : driver'[p] = driver[p]
  BY <1>1, MakeDoes, Zenon DEF DInv
<1>3. /\ CallTypes' /\ Moves(t) /\ CallOK(t)' /\ HelperOK(t)' /\ WorkTypes' /\ pc'[t] = "idle"
  BY <1>1, HelperAdvances, Zenon
<1> QED
  BY <1>1, <1>2, <1>3, HipObject, Zenon

LEMMA HipReleaseKeeps ==
    ASSUME NEW t \in Callers, NEW o \in Objects, NEW stages,
           stages \subseteq {"destroy", "cleanup"}, DInv, HipRelease(t, o, stages)
    PROVE  DInv'
<1>1. /\ backend = "hip" /\ pc[t] = "idle" /\ helper[t] \in {"none"} \cup stages
      /\ DriverDestroy({o}) /\ Return(t, TRUE)
      /\ UNCHANGED <<backend, isOpen, record, leaked, outBytes, pend, recorded>>
  BY Zenon DEF HipRelease, Hip, Calls, streamVars
<1>2. helper[t] # "create" /\ helper[t] # "sync"
  BY <1>1
<1>3. DriverTypes' /\ \A p \in Objects \ {o} : driver'[p] = driver[p]
  BY <1>1, DestroyDoes, Zenon DEF DInv
<1>4. /\ CallTypes' /\ Moves(t) /\ pc'[t] = "idle" /\ awaits'[t] = {} /\ CallOK(t)'
      /\ helper'[t] # "destroy"
  BY <1>1, <1>2, ReturnDoes, Zenon DEF DInv
<1>5. HelperOK(t)'
  BY <1>4, Zenon DEF HelperOK
<1>6. WorkTypes'
  BY <1>1, <1>4, WorkSame, Zenon DEF DInv
<1> QED
  BY <1>1, <1>3, <1>4, <1>5, <1>6, HipObject, Zenon

LEMMA HipCopyKeeps ==
    ASSUME NEW t \in Callers, NEW s \in AnyStream, NEW b \in Buffers, NEW n \in AllocBytes, DInv,
           HipCopy(t, s, b, n)
    PROVE  DInv'
<1> DEFINE by == IF helper[t] = "none" THEN NoObject ELSE t
           w == [stream |-> s, buf |-> b, bytes |-> n, by |-> by]
<1>1. /\ backend = "hip" /\ pc[t] = "idle" /\ helper[t] \in {"none", "copy"}
      /\ pend' = pend \cup {w} /\ Return(t, TRUE)
      /\ UNCHANGED <<backend, isOpen, record, driver, size, leaked, outBytes, recorded>>
  BY Zenon DEF HipCopy, Hip, Calls
<1>2. w \in WorkItems /\ w.by \in {t, NoObject}
  BY DEF WorkItems
<1> HIDE DEF w
<1>3. helper[t] # "create" /\ helper[t] # "sync" /\ backend # "cuda" /\ backend # "cpu"
  BY <1>1
<1>4. /\ CallTypes' /\ Moves(t) /\ pc'[t] = "idle" /\ awaits'[t] = {} /\ CallOK(t)'
      /\ helper'[t] # "destroy"
  BY <1>1, <1>3, ReturnDoes, Zenon DEF DInv
<1>5. HelperOK(t)'
  BY <1>4, Zenon DEF HelperOK
<1>6. WorkTypes'
  <2>1. /\ pend \subseteq pend' /\ pend' \subseteq WorkItems /\ awaits'[t] \subseteq pend'
        /\ recorded' \in [Events -> SUBSET pend']
    BY <1>1, <1>2, <1>4 DEF DInv, WorkTypes
  <2> QED
    BY <1>1, <1>3, <1>4, <2>1, WorkKept, Zenon DEF DInv
<1>7. Lands' /\ \A x \in pend' : x \in pend \/ x.by \in {t, NoObject}
  BY <1>1, <1>2, <1>3, Zenon DEF Lands
<1> QED
  BY <1>1, <1>4, <1>5, <1>6, <1>7, QuietStep, Zenon

LEMMA HipWaitsKeep ==
    ASSUME NEW t \in Callers, DInv,
           \/ \E s \in AnyStream : HipSyncStream(t, s)
           \/ \E e \in Events : HipWaitEvent(t, e)
    PROVE  DInv'
<1>1. /\ backend = "hip" /\ pc[t] = "idle" /\ pc[t] # "made"
      /\ UNCHANGED <<backend, isOpen, record, driver, size, leaked, outBytes>>
  BY Zenon DEF HipSyncStream, HipWaitEvent, Hip, Calls
<1>2. backend # "cuda" /\ ledgerVars' = ledgerVars
  BY <1>1 DEF ledgerVars
<1>3. ASSUME NEW s \in AnyStream, OnStream(t, s), helper[t] = "sync", Work(s) = {},
             Return(t, TRUE), UNCHANGED streamVars
      PROVE  DInv'
  <2>1. helper[t] # "none" /\ helper[t] # "create"
    BY <1>3
  <2>2. \A w \in pend : w.stream = helperStream[t] => w.by # t
    BY <1>3, <2>1, Zenon DEF OnStream, Work
  <2> QED
    BY <1>1, <1>2, <1>3, <2>1, <2>2, QuietReturn, Zenon
<1>4. ASSUME Return(t, FALSE), DropWork PROVE DInv'
  <2>1. /\ CallTypes' /\ Moves(t) /\ pc'[t] = "idle" /\ awaits'[t] = {} /\ CallOK(t)'
        /\ helper'[t] # "destroy"
    BY <1>1, <1>4, ReturnDoes, Zenon DEF DInv
  <2>2. \A u \in Callers : awaits[u] = {}
    BY <1>2, IdleOutsideCuda, Zenon
  <2>3. awaits' = [u \in Callers |-> {}]
    BY <1>4, <2>2, Zenon DEF Return, DInv, WorkTypes
  <2>4. WorkTypes'
    BY <1>4, <2>3, WorkDropped, Zenon
  <2>5. HelperOK(t)' /\ Lands'
    BY <1>1, <1>2, <2>1, Zenon DEF HelperOK, Lands
  <2>6. pend' = {}
    BY <1>4, Zenon DEF DropWork
  <2> QED
    BY <1>1, <2>1, <2>4, <2>5, <2>6, QuietStep, Zenon
<1> QED
  BY <1>3, <1>4, Zenon DEF HipSyncStream, HipWaitEvent

-----------------------------------------------------------------------------
(* All steps.                                                              *)

LEMMA CpuKeeps ==
    ASSUME NEW t \in Callers, DInv, CpuNext(t)
    PROVE  DInv'
<1>1. ASSUME NEW b \in Buffers, CpuAllocate(t, b) \/ CpuFree(t, b) PROVE DInv'
  BY <1>1, CpuAllocateKeeps, CpuFreeKeeps, Zenon
<1>2. ASSUME NEW s \in Streams, CpuCreateStream(t, s) \/ CpuDestroyStream(t, s) PROVE DInv'
  BY <1>2, CpuCreateKeeps, CpuDestroyKeeps, Zenon DEF CpuCreateStream, CpuDestroyStream
<1>3. ASSUME NEW e \in Events, CpuCreateEvent(t, e) \/ CpuDestroyEvent(t, e) PROVE DInv'
  BY <1>3, CpuCreateKeeps, CpuDestroyKeeps, Zenon DEF CpuCreateEvent, CpuDestroyEvent
<1> QED
  BY <1>1, <1>2, <1>3, CpuReleaseKeeps, CpuReturnKeeps, Zenon DEF CpuNext

LEMMA CudaKeeps ==
    ASSUME NEW t \in Callers, DInv, CudaNext(t)
    PROVE  DInv'
<1>1. \A b \in GpuBuffers : b \in Buffers /\ b \in Objects /\ ClassOf(b) = MemoryClass
  BY DevicesAssumption, ObjectClass, Zenon
<1>2. CASE CudaOpen(t)
  <2>1. /\ isOpen' = TRUE /\ UNCHANGED <<backend, callVars>>
        /\ UNCHANGED <<record, driver, size, leaked, outBytes, pend, recorded>>
    BY <1>2, Zenon DEF CudaOpen, ledgerVars, streamVars
  <2> QED
    BY <2>1, OpensKeep, Zenon
<1>3. ASSUME NEW b \in GpuBuffers,
             CudaAllocate(t, b) \/ CudaAllocatePinned(t, b) \/ CudaAllocateUnified(t, b)
      PROVE  DInv'
  <2>1. PICK cls \in MemoryClass : CudaAcquire(t, b, cls, {})
    BY <1>3, Zenon DEF CudaAllocate, CudaAllocatePinned, CudaAllocateUnified, MemoryClass
  <2>2. b \in Objects /\ cls \in ClassOf(b)
    BY <1>1, <2>1, Zenon
  <2> QED
    BY <2>1, <2>2, CudaAcquireKeeps, Zenon
<1>4. ASSUME NEW b \in GpuBuffers,
             CudaFree(t, b) \/ CudaFreePinned(t, b) \/ CudaFreeUnified(t, b)
      PROVE  DInv'
  <2>1. PICK cls \in MemoryClass : CudaFreeMemory(t, b, cls)
    BY <1>4, Zenon DEF CudaFree, CudaFreePinned, CudaFreeUnified, MemoryClass
  <2> QED
    BY <1>1, <2>1, CudaFreeKeeps, Zenon
<1>5. ASSUME NEW s \in Streams, CudaCreateStream(t, s) \/ CudaDestroyStream(t, s) PROVE DInv'
  <2>1. s \in Objects /\ "stream" \in ClassOf(s)
    BY ObjectClass, Zenon
  <2> QED
    BY <1>5, <2>1, CudaAcquireKeeps, CudaDestroyKeeps, Zenon DEF CudaCreateStream, CudaDestroyStream
<1>6. ASSUME NEW e \in Events, CudaCreateEvent(t, e) \/ CudaDestroyEvent(t, e) PROVE DInv'
  <2>1. e \in Objects /\ "event" \in ClassOf(e)
    BY ObjectClass, Zenon
  <2>2. CASE CudaCreateEvent(t, e)
    BY <2>1, <2>2, CudaAcquireKeeps, Zenon DEF CudaCreateEvent
  <2>3. CASE CudaDestroyEvent(t, e)
    BY <2>1, <2>3, CudaDestroyKeeps, Zenon DEF CudaDestroyEvent
  <2> QED
    BY <1>6, <2>2, <2>3, Zenon
<1>7. ASSUME NEW s \in AnyStream, NEW b \in GpuBuffers, NEW c \in GpuBuffers, NEW n \in AllocBytes,
             CudaCopyH2D(t, s, b, n) \/ CudaCopyD2H(t, s, b, n) \/ CudaCopyD2D(t, s, b, c, n)
      PROVE  DInv'
  <2>1. PICK bs \in SUBSET Buffers : CudaCopy(t, s, bs, n)
    <3>1. {b} \in SUBSET Buffers /\ {b, c} \in SUBSET Buffers
      BY <1>1, Zenon
    <3> QED
      BY <1>7, <3>1, Zenon DEF CudaCopyH2D, CudaCopyD2H, CudaCopyD2D
  <2> QED
    BY <2>1, CudaCopyKeeps, Zenon
<1>8. CASE \/ CudaSyncAll(t) \/ \E s \in AnyStream : CudaSyncStream(t, s)
           \/ \E e \in Events : CudaWaitEvent(t, e)
  BY <1>8, CudaWaitsKeep, Zenon
<1>9. ASSUME NEW e \in Events, CudaElapsed(t, e) \/ \E s \in AnyStream : CudaRecordEvent(t, e, s)
      PROVE  DInv'
  BY <1>9, CudaEventsKeep, Zenon
<1> QED
  BY <1>2, <1>3, <1>4, <1>5, <1>6, <1>7, <1>8, <1>9, CudaCloseKeeps, CudaRecordKeeps,
     CudaCheckKeeps, CudaWaitOverKeeps, CudaWaitFailsKeeps, Zenon DEF CudaNext

LEMMA HipKeeps ==
    ASSUME NEW t \in Callers, DInv, HipNext(t)
    PROVE  DInv'
<1>1. \A b \in GpuBuffers : b \in Buffers /\ b \in Objects /\ ClassOf(b) = MemoryClass
  BY DevicesAssumption, ObjectClass, Zenon
<1>2. CASE HipOpen(t) \/ HipClose(t)
  <2>1. /\ isOpen' \in BOOLEAN /\ backend = "hip" /\ UNCHANGED <<backend, callVars>>
        /\ UNCHANGED <<record, driver, size, leaked, outBytes, pend, recorded>>
    BY <1>2, Zenon DEF HipOpen, HipClose, Hip, streamVars
  <2> QED
    BY <2>1, OpensKeep, Zenon
<1>3. ASSUME NEW b \in GpuBuffers,
             HipAllocate(t, b) \/ HipAllocatePinned(t, b) \/ HipAllocateUnified(t, b)
      PROVE  DInv'
  <2>1. PICK cls \in MemoryClass : HipAcquire(t, b, cls, {})
    BY <1>3, Zenon DEF HipAllocate, HipAllocatePinned, HipAllocateUnified, MemoryClass
  <2>2. b \in Objects /\ cls \in ClassOf(b)
    BY <1>1, <2>1, Zenon
  <2> QED
    BY <2>1, <2>2, HipAcquireKeeps, Zenon
<1>4. ASSUME NEW b \in GpuBuffers, HipFree(t, b) PROVE DInv'
  <2>1. HipRelease(t, b, {}) /\ {} \subseteq {"destroy", "cleanup"}
    BY <1>4, Zenon DEF HipFree
  <2> QED
    BY <1>1, <2>1, HipReleaseKeeps, Zenon
<1>5. ASSUME NEW s \in Streams, HipCreateStream(t, s) \/ HipDestroyStream(t, s) PROVE DInv'
  <2>1. s \in Objects /\ "stream" \in ClassOf(s)
    BY ObjectClass, Zenon
  <2> QED
    BY <1>5, <2>1, HipAcquireKeeps, HipReleaseKeeps, Zenon DEF HipCreateStream, HipDestroyStream
<1>6. ASSUME NEW e \in Events, HipCreateEvent(t, e) \/ HipDestroyEvent(t, e) PROVE DInv'
  <2>1. e \in Objects /\ "event" \in ClassOf(e)
    BY ObjectClass, Zenon
  <2>2. CASE HipCreateEvent(t, e)
    BY <2>1, <2>2, HipAcquireKeeps, Zenon DEF HipCreateEvent
  <2>3. CASE HipDestroyEvent(t, e)
    BY <2>1, <2>3, HipReleaseKeeps, Zenon DEF HipDestroyEvent
  <2> QED
    BY <1>6, <2>2, <2>3, Zenon
<1>7. ASSUME NEW s \in AnyStream, NEW b \in GpuBuffers, NEW n \in AllocBytes, HipCopy(t, s, b, n)
      PROVE  DInv'
  BY <1>1, <1>7, HipCopyKeeps, Zenon
<1>8. ASSUME NEW e \in Events, NEW s \in AnyStream, HipRecordEvent(t, e, s) PROVE DInv'
  <2>1. /\ recorded' = [recorded EXCEPT ![e] = Work(s)]
        /\ UNCHANGED <<backend, isOpen, record, driver, size, leaked, outBytes, pend, callVars>>
    BY <1>8, Zenon DEF HipRecordEvent, Hip
  <2> QED
    BY <2>1, EventKeeps, Zenon
<1> QED
  BY <1>2, <1>3, <1>4, <1>5, <1>6, <1>7, <1>8, HipWaitsKeep, Zenon DEF HipNext

LEMMA DInitInv ==
    ASSUME DInit
    PROVE  DInv
<1>1. /\ RecordTypes /\ record = [o \in Objects |-> "none"] /\ leaked = {} /\ pend = {}
      /\ driver = [o \in Objects |-> "none"] /\ helper = [t \in Callers |-> "none"]
      /\ pc = [t \in Callers |-> "idle"]
  BY Zenon DEF DInit, RecordTypes, Classes
<1>2. DriverTypes /\ \A b \in Buffers : size[b] = 0
  BY DevicesAssumption DEF DInit, DriverTypes, Classes
<1>3. CallTypes
  BY Zenon DEF DInit, CallTypes, AnyStream
<1>4. WorkTypes
  BY Zenon DEF DInit, WorkTypes
<1>5. \A t \in Callers : pc[t] = "idle" /\ helper[t] = "none"
  BY <1>1, Zenon
<1>6. CallShape /\ (\A o : ~InHand(o)) /\ \A t \in Callers : HelperOK(t)
  BY <1>5 DEF CallShape, CallOK, InHand, HelperOK
<1>7. \A o \in Objects : record[o] = "none" /\ driver[o] = "none"
  BY <1>1, Zenon
<1>8. LedgerShape /\ Lands
  BY <1>1, <1>6, <1>7, Zenon DEF LedgerShape, Placed, Lands
<1>9. Counted
  <2>1. SizeSum = 0
    <3>1. size \in [Buffers -> Nat] /\ IsFiniteSet(Buffers)
      BY <1>2, DevicesAssumption DEF DriverTypes
    <3> QED
      BY <1>2, <3>1, SumZero, Zenon DEF SizeSum
  <2>2. outBytes = 0 /\ 0 <= DeviceBytes
    BY DevicesAssumption DEF DInit
  <2> QED
    BY <2>1, <2>2, Zenon DEF Counted
<1> QED
  BY <1>1, <1>2, <1>3, <1>4, <1>6, <1>8, <1>9, Zenon DEF DInv

\* DInv is an invariant.
THEOREM DeviceInvariant == DSpec => []DInv
<1>1. DInit => DInv
  BY DInitInv
<1>2. DInv /\ [DNext]_dvars => DInv'
  <2>1. ASSUME DInv, DNext PROVE DInv'
    BY <2>1, DriverFinishesKeeps, CopySyncKeeps, HelperRefusedKeeps, CpuKeeps, CudaKeeps,
       HipKeeps, Zenon DEF DNext
  <2>2. ASSUME DInv, UNCHANGED dvars PROVE DInv'
    <3>1. /\ UNCHANGED <<backend, isOpen, callVars>>
          /\ UNCHANGED <<record, driver, size, leaked, outBytes, pend, recorded>>
      BY <2>2, Zenon DEF dvars, ledgerVars, streamVars
    <3>2. /\ CallTypes' /\ CallShape' /\ (\A o \in Objects : InHand(o)' <=> InHand(o))
          /\ \A t \in Callers : HelperOK(t)'
      BY <2>2, <3>1, CallsSame, Zenon DEF DInv, CallTypes
    <3>3. RecordTypes' /\ DriverTypes' /\ LedgerShape' /\ Counted'
      BY <2>2, <3>1, <3>2, LedgerSame, Zenon DEF DInv
    <3>4. WorkTypes' /\ Lands'
      <4>1. UNCHANGED <<pc, awaits>>
        BY <3>1, Zenon DEF callVars
      <4> QED
        BY <2>2, <3>1, <4>1, LandsSame, Zenon DEF DInv, WorkTypes
    <3> QED
      BY <3>2, <3>3, <3>4, Zenon DEF DInv
  <2> QED
    BY <2>1, <2>2
<1> QED
  BY <1>1, <1>2, PTL DEF DSpec

LEMMA LedgerExactHolds ==
    ASSUME DInv
    PROVE  LedgerExact
<1>1. ASSUME Ledgered
      PROVE  /\ Held = Recorded \cup Making \cup leaked
             /\ Recorded \cap leaked = {} /\ Making \cap (Recorded \cup leaked) = {}
             /\ \A o \in Recorded : record[o] = driver[o]
             /\ ~isOpen => Held \subseteq leaked
  <2>1. \A o : o \in Making <=> InHand(o)
    BY Zenon DEF Making, InHand
  <2>2. \A o \in Making : o \in Objects
    BY Zenon DEF Making, DInv, CallShape, CallOK
  <2>3. leaked \subseteq Objects /\ \A o \in Objects : Placed(o)
    BY <1>1, Zenon DEF DInv, LedgerShape
  <2>4. /\ \A o : o \in Held <=> o \in Objects /\ driver[o] # "none"
        /\ \A o : o \in Recorded <=> o \in Objects /\ record[o] # "none"
    BY Zenon DEF Held, Recorded
  <2>5. \A o : o \in Held <=> o \in Recorded \/ o \in Making \/ o \in leaked
    BY <2>1, <2>2, <2>3, <2>4, Zenon DEF Placed
  <2>6. /\ \A o \in Recorded : record[o] = driver[o] /\ o \notin leaked /\ o \notin Making
        /\ \A o \in Making : o \notin leaked
    BY <2>1, <2>2, <2>3, <2>4, Zenon DEF Placed
  <2>7. ~isOpen => \A o : o \notin Recorded /\ o \notin Making
    BY <1>1, <2>1, <2>2, <2>4, IdleOutsideCuda, Zenon DEF DInv, LedgerShape
  <2> QED
    BY <2>5, <2>6, <2>7, Zenon
<1>2. backend = "cpu" =>
        outBytes = MapThenSumSet(LAMBDA b : size[b], Buffers) /\ outBytes <= DeviceBytes
  BY Zenon DEF DInv, Counted, SizeSum
<1> QED
  BY <1>1, <1>2, Zenon DEF LedgerExact

\* Every object the driver of the CPU and CUDA backends holds is recorded in one
\* ledger, in the hands of one call or known to be lost, and nothing else is; a
\* closed backend holds only what was lost; and allocated_bytes_ of the CPU backend
\* is the sum of the live blocks, within the emulated device.
THEOREM LedgersAreExact == DSpec => []LedgerExact
  BY DeviceInvariant, LedgerExactHolds, PTL

LEMMA CopiesLandHolds ==
    ASSUME DInv
    PROVE  CopiesLand
  BY Zenon DEF DInv, Lands, HelperOK, CopiesLand, Work

\* Whatever the other threads allocate and free, a copy that the CUDA driver has
\* still to do stays inside memory it holds; and when copy_host_to_device_sync or
\* copy_device_to_host_sync is about to return normally, its copy is over.
THEOREM CopiesAlwaysLand == DSpec => []CopiesLand
  BY DeviceInvariant, CopiesLandHolds, PTL

LEMMA DTypesHold ==
    ASSUME DInv
    PROVE  DTypeOK
<1>1. \A o \in Objects : {record[o], driver[o]} \subseteq ClassOf(o) \cup {"none"}
  BY Zenon DEF DInv, RecordTypes, DriverTypes
<1>2. leaked \subseteq Held
  BY Zenon DEF DInv, LedgerShape, Ledgered, CallTypes, Placed, Held
<1>3. outBytes \in 0 .. DeviceBytes * Cardinality(Buffers)
  <2>1. Cardinality(Buffers) \in Nat /\ DeviceBytes \in Nat
    BY DevicesAssumption, FS_CardinalityType, Zenon
  <2>2. size \in [Buffers -> Nat] /\ IsFiniteSet(Buffers)
    BY DevicesAssumption DEF DInv, DriverTypes
  <2>3. CASE backend # "cpu"
    <3>1. outBytes = 0
      BY <2>3, Zenon DEF DInv, Counted
    <3>2. DeviceBytes * Cardinality(Buffers) \in Nat
      BY <2>1
    <3> QED
      BY <3>1, <3>2
  <2>4. CASE backend = "cpu" /\ Buffers = {}
    <3>1. SizeSum = 0
      BY <2>2, <2>4, SumZero, Zenon DEF SizeSum
    <3>2. outBytes = 0
      BY <2>4, <3>1, Zenon DEF DInv, Counted
    <3>3. DeviceBytes * Cardinality(Buffers) \in Nat
      BY <2>1
    <3> QED
      BY <3>2, <3>3
  <2>5. CASE backend = "cpu" /\ Buffers # {}
    <3>1. PICK b \in Buffers : TRUE
      BY <2>5, Zenon
    <3>2. LET F == MapThenSumSet(LAMBDA x : size[x], Buffers) IN F \in Nat
      BY <2>2, <3>1, SumChanges, Zenon
    <3>3. outBytes \in Nat /\ outBytes <= DeviceBytes
      BY <2>5, <3>2, Zenon DEF DInv, Counted, SizeSum
    <3>4. Cardinality(Buffers) # 0
      BY <2>2, <2>5, FS_EmptySet, Zenon
    <3>5. DeviceBytes <= DeviceBytes * Cardinality(Buffers)
      BY <2>1, <3>4
    <3> QED
      BY <2>1, <3>3, <3>5
  <2> QED
    BY <2>3, <2>4, <2>5, Zenon
<1> QED
  BY <1>1, <1>2, <1>3, Zenon DEF DTypeOK, DInv, DriverTypes, CallTypes, WorkTypes

\* The variables keep their types: every handle is recorded under its own class, and
\* events and waiting calls refer to copies that the driver has.
THEOREM DeviceTypes == DSpec => []DTypeOK
  BY DeviceInvariant, DTypesHold, PTL
=============================================================================
