------------------------ MODULE TransferQueueProofs -------------------------
(***************************************************************************)
(* Proofs about TransferQueue, for any sets of callers, workers and pages, *)
(* any depths of the queue and any number of starts.                       *)
(*                                                                         *)
(* QueueInv is inductive.  It follows the demands of a caller and the      *)
(* prefetch of a page through the queue, the hands of the workers and the  *)
(* requests that shutdown() took, where there is at most one of them       *)
(* (Once), and ties the promise and pending_prefetches_ to whether there   *)
(* is one (Held).  The argument: a step keeps a request where it is, adds  *)
(* one that was nowhere, moves one on, or ends the only one (the lemmas    *)
(* PlacesSame to PlacesCancel); the rest is what an action does to labels. *)
(***************************************************************************)
EXTENDS TransferQueue, FiniteSetTheorems, WellFoundedInduction, TLAPS

-----------------------------------------------------------------------------
(* The queue as a sequence.                                                *)

\* The sequence s without what is at position m.
Cut(s, m) == [i \in 1 .. Len(s) - 1 |-> IF i < m THEN s[i] ELSE s[i + 1]]

\* What is kept of the first i positions of s, given what is kept of fewer.
Keeps(k, s, r) ==
    k = [i \in 0 .. Len(s) |->
            IF i = 0 THEN <<>>
            ELSE IF s[i] = r THEN k[i - 1] ELSE Append(k[i - 1], s[i])]

\* A non-empty set of naturals has a least element.
LEMMA Least ==
    ASSUME NEW S, S \subseteq Nat, S # {}
    PROVE  \E e \in S : \A f \in S : e <= f
<1>1. PICK e \in S : \A f \in S : ~(<<f, e>> \in OpToRel(<, Nat))
  BY NatLessThanWellFounded, WFMin, Zenon
<1>2. ASSUME NEW f \in S PROVE e <= f
  <2>1. e \in Nat /\ f \in Nat
    BY <1>1, <1>2, Zenon
  <2>2. ~(<<f, e>> \in OpToRel(<, Nat))
    BY <1>1, <1>2, Zenon
  <2>3. ~(f < e)
    BY <2>1, <2>2, Zenon DEF OpToRel
  <2> QED
    BY <2>1, <2>3
<1> QED
  BY <1>2, Zenon

\* The loop determines what is kept.
LEMMA KeepsUnique ==
    ASSUME NEW s, Len(s) \in Nat, NEW r, NEW k, NEW l,
           Keeps(k, s, r), Keeps(l, s, r)
    PROVE  k = l
<1> DEFINE S == {i \in 0 .. Len(s) : k[i] # l[i]}
<1>1. SUFFICES ASSUME S # {} PROVE FALSE
  <2>1. ASSUME S = {} PROVE k = l
    <3>1. /\ k = [i \in 0 .. Len(s) |-> k[i]] /\ l = [i \in 0 .. Len(s) |-> l[i]]
      BY Zenon DEF Keeps
    <3> QED
      BY <2>1, <3>1, Zenon
  <2> QED
    BY <2>1, Zenon
<1>2. PICK e \in S : \A f \in S : e <= f
  <2>1. S \subseteq Nat
    OBVIOUS
  <2> QED
    BY <1>1, <2>1, Least, Zenon
<1>3. e \in 0 .. Len(s) /\ k[e] # l[e]
  BY <1>2, Zenon
<1>4. e # 0
  BY <1>3, Zenon DEF Keeps
<1>5. e - 1 \in 0 .. Len(s) /\ e - 1 \notin S
  BY <1>2, <1>3, <1>4
<1>6. k[e - 1] = l[e - 1]
  BY <1>5, Zenon
<1> QED
  BY <1>3, <1>4, <1>6, ZenonT(40) DEF Keeps

LEMMA WithoutIs ==
    ASSUME NEW s, Len(s) \in Nat, NEW r, NEW k, Keeps(k, s, r)
    PROVE  Without(s, r) = k[Len(s)]
<1>1. Without(s, r) = (CHOOSE l : Keeps(l, s, r))[Len(s)]
  BY Zenon DEF Without, Keeps
<1>2. Keeps(CHOOSE l : Keeps(l, s, r), s, r)
  BY Zenon
<1> QED
  BY <1>1, <1>2, KeepsUnique, Zenon

LEMMA KeepsFrom ==
    ASSUME NEW s, Len(s) \in Nat, NEW r, NEW k,
           k = [i \in 0 .. Len(s) |-> k[i]], k[0] = <<>>,
           \A i \in 1 .. Len(s) :
                k[i] = IF s[i] = r THEN k[i - 1] ELSE Append(k[i - 1], s[i])
    PROVE  Without(s, r) = k[Len(s)]
<1>1. \A i \in 0 .. Len(s) :
        k[i] = IF i = 0 THEN <<>>
               ELSE IF s[i] = r THEN k[i - 1] ELSE Append(k[i - 1], s[i])
  <2>1. ASSUME NEW i \in 0 .. Len(s) PROVE i = 0 \/ i \in 1 .. Len(s)
    OBVIOUS
  <2>2. ~(0 \in 1 .. Len(s))
    OBVIOUS
  <2> QED
    BY <2>1, <2>2, Zenon
<1>2. Keeps(k, s, r)
  BY <1>1, Zenon DEF Keeps
<1> QED
  BY <1>2, WithoutIs, Zenon

\* Nothing is erased from a sequence without r.
LEMMA WithoutNone ==
    ASSUME NEW S, NEW s \in Seq(S), NEW r, \A i \in 1 .. Len(s) : s[i] # r
    PROVE  Without(s, r) = s
<1> DEFINE k == [i \in 0 .. Len(s) |-> SubSeq(s, 1, i)]
<1>1. Len(s) \in Nat
  OBVIOUS
<1>2. k[0] = <<>>
  BY SMTT(30)
<1>3. ASSUME NEW i \in 1 .. Len(s)
      PROVE  SubSeq(s, 1, i) = Append(SubSeq(s, 1, i - 1), s[i])
  BY <1>3, SMTT(30)
<1>4. ASSUME NEW i \in 1 .. Len(s) PROVE k[i] = Append(k[i - 1], s[i])
  BY <1>3, <1>4
<1>5. k = [i \in 0 .. Len(s) |-> k[i]]
  OBVIOUS
<1>6. Without(s, r) = k[Len(s)]
  <2> HIDE DEF k
  <2>1. \A i \in 1 .. Len(s) :
            k[i] = IF s[i] = r THEN k[i - 1] ELSE Append(k[i - 1], s[i])
    BY <1>4, Zenon
  <2> QED
    BY <1>1, <1>2, <1>5, <2>1, KeepsFrom, ZenonT(40)
<1> QED
  BY <1>1, <1>6

\* Cutting moves the positions after m by one.
LEMMA CutIs ==
    ASSUME NEW S, NEW s \in Seq(S), NEW m \in 1 .. Len(s)
    PROVE  /\ Cut(s, m) \in Seq(S) /\ Len(Cut(s, m)) = Len(s) - 1
           /\ \A i \in 1 .. Len(s) - 1 :
                Cut(s, m)[i] = IF i < m THEN s[i] ELSE s[i + 1]
<1>1. Len(s) - 1 \in Nat /\ \A i \in 1 .. Len(s) : s[i] \in S
  OBVIOUS
<1> QED
  BY <1>1 DEF Cut

\* Sequences are equal when they have the same elements.
LEMMA SameSeq ==
    ASSUME NEW S, NEW s \in Seq(S), NEW u \in Seq(S), Len(s) = Len(u),
           \A i \in 1 .. Len(s) : s[i] = u[i]
    PROVE  s = u
OBVIOUS

LEMMA TailIsCut ==
    ASSUME NEW S, NEW s \in Seq(S), s # <<>>
    PROVE  1 \in 1 .. Len(s) /\ Tail(s) = Cut(s, 1) /\ Head(s) = s[1]
<1>1. /\ 1 \in 1 .. Len(s) /\ Head(s) = s[1]
      /\ Tail(s) \in Seq(S) /\ Len(Tail(s)) = Len(s) - 1
      /\ \A i \in 1 .. Len(s) - 1 : Tail(s)[i] = s[i + 1]
  OBVIOUS
<1>2. /\ Cut(s, 1) \in Seq(S) /\ Len(Cut(s, 1)) = Len(s) - 1
      /\ \A i \in 1 .. Len(s) - 1 : Cut(s, 1)[i] = s[i + 1]
  <2>1. /\ Cut(s, 1) \in Seq(S) /\ Len(Cut(s, 1)) = Len(s) - 1
        /\ \A i \in 1 .. Len(s) - 1 :
                Cut(s, 1)[i] = IF i < 1 THEN s[i] ELSE s[i + 1]
    BY <1>1, CutIs, Zenon
  <2>2. \A i \in 1 .. Len(s) - 1 : ~(i < 1)
    OBVIOUS
  <2> QED
    BY <2>1, <2>2, Zenon
<1>3. Tail(s) = Cut(s, 1)
  BY <1>1, <1>2, SameSeq, Zenon
<1> QED
  BY <1>1, <1>3, Zenon

\* The one occurrence of r is cut.
LEMMA WithoutOne ==
    ASSUME NEW S, NEW s \in Seq(S), NEW m \in 1 .. Len(s), NEW r,
           \A i \in 1 .. Len(s) : s[i] = r <=> i = m
    PROVE  Without(s, r) = Cut(s, m)
<1> DEFINE e(j) == IF j < m THEN s[j] ELSE s[j + 1]
           k == [i \in 0 .. Len(s) |->
                    IF i < m THEN [j \in 1 .. i |-> s[j]]
                    ELSE [j \in 1 .. i - 1 |-> e(j)]]
<1>1. Len(s) \in Nat /\ k = [i \in 0 .. Len(s) |-> k[i]]
  OBVIOUS
<1>2. k[0] = <<>>
  OBVIOUS
<1>3. ASSUME NEW i \in 1 .. Len(s), i < m
      PROVE  k[i] = Append(k[i - 1], s[i]) /\ s[i] # r
  <2>1. /\ k[i] = [j \in 1 .. i |-> s[j]]
        /\ k[i - 1] = [j \in 1 .. i - 1 |-> s[j]]
    BY <1>3
  <2>2. k[i - 1] \in Seq(S) /\ Len(k[i - 1]) = i - 1
    BY <2>1
  <2> HIDE DEF k
  <2>3. /\ k[i] \in Seq(S) /\ Len(k[i]) = i
        /\ Append(k[i - 1], s[i]) \in Seq(S)
        /\ Len(Append(k[i - 1], s[i])) = i
        /\ \A j \in 1 .. i : k[i][j] = Append(k[i - 1], s[i])[j]
    BY <2>1, <2>2
  <2> QED
    BY <1>3, <2>3, SameSeq, SMTT(30)
<1>4. k[m] = k[m - 1]
  <2>1. /\ k[m] = [j \in 1 .. m - 1 |-> e(j)]
        /\ k[m - 1] = [j \in 1 .. m - 1 |-> s[j]]
    OBVIOUS
  <2>2. \A j \in 1 .. m - 1 : e(j) = s[j]
    OBVIOUS
  <2> HIDE DEF k, e
  <2> QED
    BY <2>1, <2>2, Zenon
<1>5. ASSUME NEW i \in 1 .. Len(s), i > m
      PROVE  k[i] = Append(k[i - 1], s[i]) /\ s[i] # r
  <2>1. /\ k[i] = [j \in 1 .. i - 1 |-> e(j)]
        /\ k[i - 1] = [j \in 1 .. i - 2 |-> e(j)]
    BY <1>5, SMTT(30)
  <2>2. \A j \in 1 .. i - 1 : e(j) \in S
    OBVIOUS
  <2>3. e(i - 1) = s[i]
    BY <1>5
  <2> HIDE DEF k, e
  <2>4. k[i - 1] \in Seq(S) /\ Len(k[i - 1]) = i - 2
    BY <1>5, <2>1, <2>2
  <2>5. /\ k[i] \in Seq(S) /\ Len(k[i]) = i - 1
        /\ Append(k[i - 1], s[i]) \in Seq(S)
        /\ Len(Append(k[i - 1], s[i])) = i - 1
    BY <1>5, <2>1, <2>2, <2>4
  <2>6. ASSUME NEW j \in 1 .. i - 1
        PROVE  k[i][j] = Append(k[i - 1], s[i])[j]
    <3>1. k[i][j] = e(j)
      BY <2>1, Zenon
    <3>2. CASE j = i - 1
      BY <1>5, <2>3, <2>4, <3>1, <3>2
    <3>3. CASE j \in 1 .. i - 2
      <4>1. k[i - 1][j] = e(j)
        BY <2>1, <3>3, Zenon
      <4> QED
        BY <1>5, <2>4, <3>1, <3>3, <4>1
    <3>4. j = i - 1 \/ j \in 1 .. i - 2
      OBVIOUS
    <3> QED
      BY <3>2, <3>3, <3>4, Zenon
  <2> QED
    BY <1>5, <2>5, <2>6, SameSeq, SMTT(30)
<1>6. k[Len(s)] = Cut(s, m)
  BY DEF Cut
<1> HIDE DEF k
<1>7. ASSUME NEW i \in 1 .. Len(s)
      PROVE  k[i] = IF s[i] = r THEN k[i - 1] ELSE Append(k[i - 1], s[i])
  <2>1. i < m \/ i = m \/ i > m
    OBVIOUS
  <2> QED
    BY <2>1, <1>3, <1>4, <1>5, Zenon
<1>8. \A i \in 1 .. Len(s) :
        k[i] = IF s[i] = r THEN k[i - 1] ELSE Append(k[i - 1], s[i])
  BY <1>7, Zenon
<1>9. Without(s, r) = k[Len(s)]
  BY <1>1, <1>2, <1>8, KeepsFrom, ZenonT(40)
<1> QED
  BY <1>6, <1>9, Zenon

\* What is left after a cut, by the position it had before.
Survives(s, u, m) ==
    \E f \in [1 .. Len(u) -> 1 .. Len(s)] :
        /\ \A i \in 1 .. Len(u) : f[i] # m /\ u[i] = s[f[i]]
        /\ \A i, j \in 1 .. Len(u) : f[i] = f[j] => i = j
        /\ \A k \in 1 .. Len(s) : k = m \/ \E i \in 1 .. Len(u) : f[i] = k

LEMMA CutSurvives ==
    ASSUME NEW S, NEW s \in Seq(S), NEW m \in 1 .. Len(s)
    PROVE  Survives(s, Cut(s, m), m)
<1> DEFINE f == [i \in 1 .. Len(s) - 1 |-> IF i < m THEN i ELSE i + 1]
<1>1. PICK u : u = Cut(s, m)
  OBVIOUS
<1>2. /\ Len(s) \in Nat /\ Len(u) = Len(s) - 1
      /\ \A i \in 1 .. Len(s) - 1 : u[i] = IF i < m THEN s[i] ELSE s[i + 1]
  BY <1>1, CutIs, SMTT(30)
<1>3. f \in [1 .. Len(u) -> 1 .. Len(s)]
  BY <1>2
<1>4. ASSUME NEW i \in 1 .. Len(u) PROVE f[i] # m /\ u[i] = s[f[i]]
  BY <1>2
<1>5. ASSUME NEW i \in 1 .. Len(u), NEW j \in 1 .. Len(u), f[i] = f[j]
      PROVE  i = j
  BY <1>2, <1>5
<1>6. ASSUME NEW k \in 1 .. Len(s), k # m
      PROVE  \E i \in 1 .. Len(u) : f[i] = k
  <2>1. CASE k < m
    <3>1. k \in 1 .. Len(u) /\ f[k] = k
      BY <1>2, <2>1
    <3> QED
      BY <3>1, Zenon
  <2>2. CASE k > m
    <3>1. k - 1 \in 1 .. Len(u) /\ f[k - 1] = k
      BY <1>2, <2>2
    <3> QED
      BY <3>1, Zenon
  <2>3. k < m \/ k > m
    BY <1>6
  <2> QED
    BY <2>1, <2>2, <2>3, Zenon
<1> HIDE DEF f
<1> QED
  BY <1>1, <1>3, <1>4, <1>5, <1>6, ZenonT(40) DEF Survives

-----------------------------------------------------------------------------
(* Where a request is.  R is a set of requests of which there may be one:  *)
(* the demands of a caller, or the prefetch of a page.                     *)

InQueue(R) == {i \in 1 .. Len(queue) : queue[i] \in R}
InHand(R) == {w \in Workers : wreq[w] \in R}
InCancelled(R) == {i \in 1 .. Len(cancelled) : cancelled[i] \in R}

AtMostOne(A) == \A a, b \in A : a = b

Held(R) == InQueue(R) # {} \/ InHand(R) # {} \/ InCancelled(R) # {}

Once(R) ==
    /\ AtMostOne(InQueue(R)) /\ AtMostOne(InHand(R))
    /\ AtMostOne(InCancelled(R))
    /\ InQueue(R) = {} \/ (InHand(R) = {} /\ InCancelled(R) = {})
    /\ InHand(R) = {} \/ InCancelled(R) = {}

DemandsOf(c) == {Demand(p, c) : p \in Pages}

\* The demand of caller c is somewhere exactly while its promise is unset.
DemandOK(c) ==
    /\ Once(DemandsOf(c))
    /\ promise[c] = "unset" <=> Held(DemandsOf(c))
    /\ promise[c] = "unset" => cpc[c] \in {"notify", "future"}

\* While the engine runs, the pages with a prefetch are the pending ones.
PrefetchOK(p) ==
    /\ Once({Prefetch(p)})
    /\ ~stopping => (p \in pending <=> Held({Prefetch(p)}))

CallerOK(c) == cpc[c] # "idle" => cpage[c] \in Pages

\* A worker has a request from the pop until it is done with it.
WorkerOK(w) ==
    /\ wreq[w] # NoRequest <=> wpc[w] \in {"popped", "load", "erase"}
    /\ wpc[w] = "erase" => \E p \in Pages : wreq[w] = Prefetch(p)

Stopping == {"cancel", "notify", "lifecycle", "lockedCancel", "join", "down"}

\* What the phase of start() and shutdown() says about the engine: requests are
\* in the queue only while it is up, and no worker has one before that.
PhaseOK ==
    /\ running <=> lpc = "up"
    /\ lpc \in {"starting", "started", "up"} => ~stopping
    /\ lpc \in Stopping => stopping
    /\ queue # <<>> => lpc = "up"
    /\ cancelled # <<>> => lpc \in {"cancel", "lockedCancel"}
    /\ lpc \in {"down", "starting"} => \A w \in Workers : wpc[w] = "exited"
    /\ ~stopping /\ lpc # "up" =>
            pending = {} /\ \A w \in Workers : wreq[w] = NoRequest

QueueInv ==
    /\ TypeOK /\ PhaseOK
    /\ \A c \in Callers : CallerOK(c) /\ DemandOK(c)
    /\ \A w \in Workers : WorkerOK(w)
    /\ \A p \in Pages : PrefetchOK(p)

-----------------------------------------------------------------------------
(* What the steps do to the places of a request.                           *)

KeepsPlace(R) == Once(R)' /\ (Held(R)' <=> Held(R))
Gains(R) == Once(R)' /\ Held(R)'
Loses(R) == Once(R)' /\ ~Held(R)'

\* Requests, and the absence of one, are told apart.
LEMMA Distinct ==
    /\ \A p \in Pages : Prefetch(p) \in Request
    /\ \A p \in Pages, c \in Callers : Demand(p, c) \in Request
    /\ \A c \in Callers : NoRequest \notin DemandsOf(c)
    /\ \A p \in Pages : NoRequest \notin {Prefetch(p)}
    /\ \A p \in Pages, c \in Callers : Prefetch(p) \notin DemandsOf(c)
    /\ \A c, d \in Callers, p \in Pages : Demand(p, c) \in DemandsOf(d) <=> c = d
    /\ \A p, q \in Pages : Prefetch(p) \in {Prefetch(q)} <=> p = q
    /\ \A p, q \in Pages, c \in Callers : Demand(p, c) \notin {Prefetch(q)}
<1>1. /\ \A p \in Pages : Prefetch(p) \in Request
      /\ \A p \in Pages, c \in Callers : Demand(p, c) \in Request
  BY DEF Request
<1>2. \A p, q \in Pages, c \in Callers : Demand(p, c) # Prefetch(q)
  BY Zenon DEF Demand, Prefetch
<1>3. \A p, q \in Pages : Prefetch(p) = Prefetch(q) => p = q
  BY Zenon DEF Prefetch
<1>4. \A c, d \in Callers, p, q \in Pages : Demand(p, c) = Demand(q, d) => c = d
  BY Zenon DEF Demand
<1>5. /\ \A c \in Callers : NoRequest \notin DemandsOf(c)
      /\ \A p \in Pages : NoRequest \notin {Prefetch(p)}
  BY <1>1, RequestAssumption, Zenon DEF DemandsOf
<1>6. /\ \A p \in Pages, c \in Callers : Prefetch(p) \notin DemandsOf(c)
      /\ \A c, d \in Callers, p \in Pages : Demand(p, c) \in DemandsOf(d) <=> c = d
  BY <1>2, <1>4, Zenon DEF DemandsOf
<1> QED
  BY <1>1, <1>2, <1>3, <1>5, <1>6, Zenon

LEMMA PlacesSame ==
    ASSUME NEW R, Once(R), UNCHANGED <<queue, wreq, cancelled>>
    PROVE  KeepsPlace(R)
BY Zenon DEF KeepsPlace, Once, Held, InQueue, InHand, InCancelled

\* A request is pushed.
LEMMA PlacesPush ==
    ASSUME NEW R, Once(R), NEW r, queue \in Seq(Request), r \in Request,
           queue' = Append(queue, r), UNCHANGED <<wreq, cancelled>>
    PROVE  /\ r \notin R => KeepsPlace(R)
           /\ r \in R /\ ~Held(R) => Gains(R)
<1>1. InHand(R)' = InHand(R) /\ InCancelled(R)' = InCancelled(R)
  BY Zenon DEF InHand, InCancelled
<1>2. /\ Len(queue') = Len(queue) + 1 /\ Len(queue) \in Nat
      /\ \A i \in 1 .. Len(queue) : queue'[i] = queue[i]
      /\ queue'[Len(queue) + 1] = r
  OBVIOUS
<1>3. ASSUME r \notin R PROVE InQueue(R)' = InQueue(R)
  BY <1>2, <1>3 DEF InQueue
<1>4. ASSUME r \in R, InQueue(R) = {} PROVE InQueue(R)' = {Len(queue) + 1}
  BY <1>2, <1>4 DEF InQueue
<1>5. CASE r \notin R
  BY <1>1, <1>3, <1>5, Zenon DEF KeepsPlace, Once, Held
<1>6. CASE r \in R /\ ~Held(R)
  BY <1>1, <1>4, <1>6, Zenon DEF Gains, Once, Held, AtMostOne
<1> QED
  BY <1>5, <1>6, Zenon

\* The request at position m is removed.
LEMMA PlacesCut ==
    ASSUME NEW R, Once(R), NEW m \in 1 .. Len(queue),
           Survives(queue, queue', m), UNCHANGED <<wreq, cancelled>>
    PROVE  /\ queue[m] \notin R => KeepsPlace(R)
           /\ queue[m] \in R => Loses(R)
<1>1. InHand(R)' = InHand(R) /\ InCancelled(R)' = InCancelled(R)
  BY Zenon DEF InHand, InCancelled
<1>2. PICK f \in [1 .. Len(queue') -> 1 .. Len(queue)] :
        /\ \A i \in 1 .. Len(queue') : f[i] # m /\ queue'[i] = queue[f[i]]
        /\ \A i, j \in 1 .. Len(queue') : f[i] = f[j] => i = j
        /\ \A k \in 1 .. Len(queue) :
                k = m \/ \E i \in 1 .. Len(queue') : f[i] = k
  BY Zenon DEF Survives
<1>3. \A i \in 1 .. Len(queue') : i \in InQueue(R)' <=> f[i] \in InQueue(R)
  BY <1>2, Zenon DEF InQueue
<1>4. \A i \in InQueue(R)' : i \in 1 .. Len(queue')
  BY Zenon DEF InQueue
<1>5. \A k \in InQueue(R) : k \in 1 .. Len(queue)
  BY Zenon DEF InQueue
<1>6. m \in InQueue(R) <=> queue[m] \in R
  BY Zenon DEF InQueue
<1>7. AtMostOne(InQueue(R)')
  <2>1. ASSUME NEW a \in InQueue(R)', NEW b \in InQueue(R)' PROVE a = b
    <3>1. /\ a \in 1 .. Len(queue') /\ b \in 1 .. Len(queue')
          /\ f[a] \in InQueue(R) /\ f[b] \in InQueue(R)
      BY <1>3, <1>4, Zenon
    <3>2. f[a] = f[b]
      BY <3>1, Zenon DEF Once, AtMostOne
    <3> QED
      BY <1>2, <3>1, <3>2, Zenon
  <2> QED
    BY <2>1, Zenon DEF AtMostOne
<1>8. CASE queue[m] \in R
  <2>1. InQueue(R)' = {}
    BY <1>2, <1>3, <1>4, <1>6, <1>8, ZenonT(40) DEF Once, AtMostOne
  <2>2. InHand(R) = {} /\ InCancelled(R) = {}
    BY <1>6, <1>8, Zenon DEF Once
  <2> QED
    BY <1>1, <1>8, <2>1, <2>2, Zenon DEF Loses, Once, Held, AtMostOne
<1>9. CASE queue[m] \notin R
  <2>1. InQueue(R)' = {} <=> InQueue(R) = {}
    <3>1. ASSUME NEW k \in InQueue(R) PROVE InQueue(R)' # {}
      <4>1. k \in 1 .. Len(queue) /\ k # m
        BY <1>5, <1>6, <1>9, Zenon
      <4>2. PICK i \in 1 .. Len(queue') : f[i] = k
        BY <1>2, <4>1, Zenon
      <4> QED
        BY <1>3, <4>2, Zenon
    <3> QED
      BY <1>3, <1>4, <3>1, Zenon
  <2> QED
    BY <1>1, <1>7, <1>9, <2>1, Zenon DEF KeepsPlace, Once, Held
<1> QED
  BY <1>8, <1>9, Zenon

\* The request at position m goes to worker w.
LEMMA PlacesPop ==
    ASSUME NEW R, Once(R), NEW m \in 1 .. Len(queue),
           Survives(queue, queue', m), NEW w \in Workers,
           wreq \in [Workers -> Request \cup {NoRequest}], wreq[w] \notin R,
           wreq' = [wreq EXCEPT ![w] = queue[m]], UNCHANGED cancelled
    PROVE  KeepsPlace(R)
<1>1. InCancelled(R)' = InCancelled(R)
  BY Zenon DEF InCancelled
<1>2. PICK f \in [1 .. Len(queue') -> 1 .. Len(queue)] :
        /\ \A i \in 1 .. Len(queue') : f[i] # m /\ queue'[i] = queue[f[i]]
        /\ \A i, j \in 1 .. Len(queue') : f[i] = f[j] => i = j
        /\ \A k \in 1 .. Len(queue) :
                k = m \/ \E i \in 1 .. Len(queue') : f[i] = k
  BY Zenon DEF Survives
<1>3. \A i \in InQueue(R)' : i \in 1 .. Len(queue') /\ f[i] \in InQueue(R)
  BY <1>2, Zenon DEF InQueue
<1>4. m \in InQueue(R) <=> queue[m] \in R
  BY Zenon DEF InQueue
<1>5. CASE queue[m] \in R
  <2>1. InQueue(R)' = {}
    <3>1. ASSUME NEW i \in InQueue(R)' PROVE FALSE
      <4>1. f[i] \in InQueue(R) /\ i \in 1 .. Len(queue')
        BY <1>3, Zenon
      <4>2. f[i] = m
        BY <1>4, <1>5, <4>1, Zenon DEF Once, AtMostOne
      <4> QED
        BY <1>2, <4>1, <4>2, Zenon
    <3> QED
      BY <3>1, Zenon
  <2>2. InHand(R) = {} /\ InCancelled(R) = {}
    BY <1>4, <1>5, Zenon DEF Once
  <2>3. InHand(R)' = {w}
    BY <1>5, <2>2, Zenon DEF InHand
  <2>4. Held(R) /\ Held(R)'
    BY <1>4, <1>5, <2>3, Zenon DEF Held
  <2> QED
    BY <1>1, <2>1, <2>2, <2>3, <2>4, Zenon DEF KeepsPlace, Once, AtMostOne
<1>6. CASE queue[m] \notin R
  <2>1. InHand(R)' = InHand(R)
    BY <1>6, Zenon DEF InHand
  <2>2. AtMostOne(InQueue(R)')
    <3>1. ASSUME NEW a \in InQueue(R)', NEW b \in InQueue(R)' PROVE a = b
      <4>1. f[a] = f[b]
        BY <1>3, Zenon DEF Once, AtMostOne
      <4> QED
        BY <1>2, <1>3, <4>1, Zenon
    <3> QED
      BY <3>1, Zenon DEF AtMostOne
  <2>3. InQueue(R)' = {} <=> InQueue(R) = {}
    <3>1. ASSUME NEW k \in InQueue(R) PROVE InQueue(R)' # {}
      <4>1. k \in 1 .. Len(queue) /\ k # m /\ queue[k] \in R
        BY <1>6, Zenon DEF InQueue
      <4>2. PICK i \in 1 .. Len(queue') : f[i] = k
        BY <1>2, <4>1, Zenon
      <4>3. i \in InQueue(R)'
        BY <1>2, <4>1, <4>2, Zenon DEF InQueue
      <4> QED
        BY <4>3, Zenon
    <3> QED
      BY <1>3, <3>1, Zenon
  <2> QED
    BY <1>1, <2>1, <2>2, <2>3, Zenon DEF KeepsPlace, Once, Held
<1> QED
  BY <1>5, <1>6, Zenon

\* Worker w is done with its request.
LEMMA PlacesDone ==
    ASSUME NEW R, Once(R), NoRequest \notin R, NEW w \in Workers,
           wreq \in [Workers -> Request \cup {NoRequest}],
           wreq' = [wreq EXCEPT ![w] = NoRequest],
           UNCHANGED <<queue, cancelled>>
    PROVE  /\ wreq[w] \notin R => KeepsPlace(R)
           /\ wreq[w] \in R => Loses(R)
<1>1. InQueue(R)' = InQueue(R) /\ InCancelled(R)' = InCancelled(R)
  BY Zenon DEF InQueue, InCancelled
<1>2. CASE wreq[w] \notin R
  <2>1. InHand(R)' = InHand(R)
    BY <1>2, Zenon DEF InHand
  <2> QED
    BY <1>1, <1>2, <2>1, Zenon DEF KeepsPlace, Once, Held
<1>3. CASE wreq[w] \in R
  <2>1. w \in InHand(R)
    BY <1>3, Zenon DEF InHand
  <2>2. InHand(R)' = {}
    BY <2>1, Zenon DEF InHand, Once, AtMostOne
  <2> QED
    BY <1>1, <1>3, <2>1, <2>2, Zenon DEF Loses, Once, Held, AtMostOne
<1> QED
  BY <1>2, <1>3, Zenon

\* The queue is taken by shutdown.
LEMMA PlacesStop ==
    ASSUME NEW R, Once(R), cancelled = <<>>, cancelled' = queue,
           queue' = <<>>, UNCHANGED wreq
    PROVE  KeepsPlace(R)
<1>1. InHand(R)' = InHand(R) /\ InCancelled(R)' = InQueue(R)
  BY Zenon DEF InHand, InCancelled, InQueue
<1>2. InQueue(R)' = {} /\ InCancelled(R) = {}
  BY DEF InQueue, InCancelled
<1> QED
  BY <1>1, <1>2, Zenon DEF KeepsPlace, Once, Held, AtMostOne

\* The requests that shutdown took are answered.
LEMMA PlacesCancel ==
    ASSUME NEW R, Once(R), cancelled' = <<>>, UNCHANGED <<queue, wreq>>
    PROVE  /\ InCancelled(R) = {} => KeepsPlace(R)
           /\ InCancelled(R) # {} => Loses(R)
<1>1. InHand(R)' = InHand(R) /\ InQueue(R)' = InQueue(R)
  BY Zenon DEF InHand, InQueue
<1>2. InCancelled(R)' = {}
  BY DEF InCancelled
<1> QED
  BY <1>1, <1>2, Zenon DEF KeepsPlace, Loses, Once, Held, AtMostOne

-----------------------------------------------------------------------------
(* Types, and the bounds of the queue.                                     *)

Demands == {i \in DOMAIN queue : queue[i].kind = "demand"}

QueueTypes ==
    /\ queue \in Seq(Request) /\ Len(queue) <= QueueDepth + PrefetchDepth
    /\ Cardinality(Demands) <= QueueDepth

\* The types of everything else.
ThreadTypes ==
    /\ pending \subseteq Pages
    /\ running \in BOOLEAN /\ stopping \in BOOLEAN
    /\ waiting \subseteq Callers \cup Workers
    /\ cpc \in [Callers -> {"idle", "submit", "notify", "future", "prefetch",
                            "prefetchNotify", "remove", "removeNotify"}]
    /\ cpage \in [Callers -> Pages \cup {NoPage}]
    /\ promise \in [Callers -> {"none", "unset", "value", "error", "cancelled"}]
    /\ wpc \in [Workers -> {"loop", "popped", "load", "erase", "eraseNotify",
                            "exited"}]
    /\ wreq \in [Workers -> Request \cup {NoRequest}]
    /\ lpc \in {"down", "starting", "started", "up", "cancel", "notify",
                "lifecycle", "locked", "lockedCancel", "join"}
    /\ cancelled \in Seq(Request)
    /\ starts \in 0 .. MaxStarts

TypesSplit == TypeOK <=> QueueTypes /\ ThreadTypes

LEMMA TypesSplitHold == TypesSplit /\ TypesSplit'
<1>1. TypesSplit
  BY Zenon DEF TypesSplit, TypeOK, QueueTypes, ThreadTypes, Demands
<1> QED
  BY <1>1, PTL

LEMMA UpTo ==
    ASSUME NEW n \in Nat
    PROVE  IsFiniteSet(1 .. n) /\ Cardinality(1 .. n) = n
<1>1. /\ IsFiniteSet(1 .. n)
      /\ Cardinality(1 .. n) = IF 1 > n THEN 0 ELSE n - 1 + 1
  BY FS_Interval
<1> QED
  BY <1>1

LEMMA DemandsFinite ==
    ASSUME queue \in Seq(Request)
    PROVE  /\ IsFiniteSet(Demands) /\ Cardinality(Demands) \in Nat
           /\ Cardinality(Demands) <= Len(queue)
           /\ Demands \subseteq 1 .. Len(queue)
<1>1. Demands \subseteq 1 .. Len(queue) /\ Len(queue) \in Nat
  BY DEF Demands
<1>2. /\ IsFiniteSet(1 .. Len(queue))
      /\ Cardinality(1 .. Len(queue)) = Len(queue)
  BY <1>1, UpTo, Zenon
<1>3. /\ IsFiniteSet(Demands)
      /\ Cardinality(Demands) <= Cardinality(1 .. Len(queue))
  BY <1>1, <1>2, FS_Subset, Zenon
<1> QED
  BY <1>1, <1>2, <1>3, FS_CardinalityType, Zenon

\* A push within the bounds.
LEMMA TypesPush ==
    ASSUME QueueTypes, NEW r \in Request, queue' = Append(queue, r),
           Len(queue) < QueueDepth + PrefetchDepth,
           r.kind = "demand" => Len(queue) < QueueDepth
    PROVE  QueueTypes'
<1>1. /\ queue \in Seq(Request) /\ queue' \in Seq(Request)
      /\ Len(queue') = Len(queue) + 1 /\ Len(queue) \in Nat
      /\ DOMAIN queue = 1 .. Len(queue) /\ DOMAIN queue' = 1 .. Len(queue')
      /\ \A i \in 1 .. Len(queue) : queue'[i] = queue[i]
      /\ queue'[Len(queue) + 1] = r
  BY DEF QueueTypes
<1>2. Len(queue') <= QueueDepth + PrefetchDepth
  BY <1>1, QueueAssumption
<1>3. CASE r.kind = "demand"
  <2>1. Demands' \subseteq 1 .. Len(queue') /\ Len(queue') \in Nat
    BY <1>1 DEF Demands
  <2>2. /\ IsFiniteSet(1 .. Len(queue'))
        /\ Cardinality(1 .. Len(queue')) = Len(queue')
    BY <2>1, UpTo, Zenon
  <2>3. /\ IsFiniteSet(Demands')
        /\ Cardinality(Demands') <= Cardinality(1 .. Len(queue'))
    BY <2>1, <2>2, FS_Subset, Zenon
  <2>4. Cardinality(Demands') \in Nat
    BY <2>3, FS_CardinalityType, Zenon
  <2>5. Cardinality(Demands') <= QueueDepth
    BY <1>1, <1>3, <2>2, <2>3, <2>4, QueueAssumption
  <2> QED
    BY <1>1, <1>2, <2>5, Zenon DEF QueueTypes
<1>4. CASE r.kind # "demand"
  <2>1. Demands' = Demands
    BY <1>1, <1>4 DEF Demands
  <2> QED
    BY <1>1, <1>2, <2>1, Zenon DEF QueueTypes
<1> QED
  BY <1>3, <1>4, Zenon

\* A removal keeps the bounds.
LEMMA TypesCut ==
    ASSUME QueueTypes, NEW m \in 1 .. Len(queue), queue' = Cut(queue, m)
    PROVE  QueueTypes'
<1>1. /\ queue \in Seq(Request) /\ queue' \in Seq(Request)
      /\ Len(queue') = Len(queue) - 1 /\ Len(queue) \in Nat
      /\ DOMAIN queue = 1 .. Len(queue) /\ DOMAIN queue' = 1 .. Len(queue')
  <2>1. queue \in Seq(Request)
    BY Zenon DEF QueueTypes
  <2>2. queue' \in Seq(Request) /\ Len(queue') = Len(queue) - 1
    BY <2>1, CutIs, Zenon
  <2> QED
    BY <2>1, <2>2
<1>2. PICK f \in [1 .. Len(queue') -> 1 .. Len(queue)] :
        /\ \A i \in 1 .. Len(queue') : f[i] # m /\ queue'[i] = queue[f[i]]
        /\ \A i, j \in 1 .. Len(queue') : f[i] = f[j] => i = j
        /\ \A k \in 1 .. Len(queue) :
                k = m \/ \E i \in 1 .. Len(queue') : f[i] = k
  <2>1. Survives(queue, queue', m)
    BY <1>1, CutSurvives, Zenon
  <2> QED
    BY <2>1, Zenon DEF Survives
<1> DEFINE g == [i \in Demands' |-> f[i]]
<1>3. \A i \in Demands' : i \in 1 .. Len(queue') /\ f[i] \in Demands
  BY <1>1, <1>2, Zenon DEF Demands
<1>4. g \in [Demands' -> Demands]
  BY <1>3, Zenon
<1>5. \A i, j \in Demands' : g[i] = g[j] => i = j
  BY <1>2, <1>3, Zenon
<1> HIDE DEF g
<1>6. g \in Injection(Demands', Demands)
  BY <1>4, <1>5, Zenon DEF Injection, IsInjective
<1>7. IsFiniteSet(Demands) /\ Cardinality(Demands) \in Nat
  BY <1>1, DemandsFinite, Zenon
<1>8. IsFiniteSet(Demands') /\ Cardinality(Demands') <= Cardinality(Demands)
  BY <1>6, <1>7, FS_Injection, Zenon
<1>9. Cardinality(Demands') \in Nat
  BY <1>8, FS_CardinalityType, Zenon
<1>10. /\ Len(queue) <= QueueDepth + PrefetchDepth
       /\ Cardinality(Demands) <= QueueDepth
  BY Zenon DEF QueueTypes
<1>11. /\ Len(queue') <= QueueDepth + PrefetchDepth
       /\ Cardinality(Demands') <= QueueDepth
  BY <1>1, <1>7, <1>8, <1>9, <1>10, QueueAssumption
<1> QED
  BY <1>1, <1>11, Zenon DEF QueueTypes

LEMMA TypesSame ==
    ASSUME QueueTypes, UNCHANGED queue
    PROVE  QueueTypes'
BY Zenon DEF QueueTypes, Demands

LEMMA TypesEmpty ==
    ASSUME queue' = <<>>
    PROVE  QueueTypes'
<1>1. Demands' = {}
  BY DEF Demands
<1>2. Cardinality(Demands') = 0
  BY <1>1, FS_EmptySet, Zenon
<1> QED
  BY <1>2, QueueAssumption DEF QueueTypes

-----------------------------------------------------------------------------
(* Steps that leave every request where it is.                             *)

LEMMA DemandKept ==
    ASSUME NEW c, DemandOK(c), KeepsPlace(DemandsOf(c)),
           promise'[c] = "unset" <=> promise[c] = "unset",
           promise[c] = "unset" => cpc'[c] \in {"notify", "future"}
    PROVE  DemandOK(c)'
BY Zenon DEF DemandOK, KeepsPlace, DemandsOf, Demand

LEMMA PrefetchKept ==
    ASSUME NEW p, PrefetchOK(p), KeepsPlace({Prefetch(p)}),
           ~stopping' => ~stopping /\ (p \in pending' <=> p \in pending)
    PROVE  PrefetchOK(p)'
BY Zenon DEF PrefetchOK, KeepsPlace, Prefetch

LEMMA Unfolded ==
    ASSUME QueueInv
    PROVE  /\ QueueTypes /\ ThreadTypes /\ PhaseOK
           /\ \A c \in Callers : CallerOK(c) /\ DemandOK(c)
           /\ \A w \in Workers : WorkerOK(w)
           /\ \A p \in Pages : PrefetchOK(p)
           /\ \A c \in Callers : Once(DemandsOf(c))
           /\ \A p \in Pages : Once({Prefetch(p)})
BY TypesSplitHold, Zenon DEF QueueInv, TypesSplit, DemandOK, PrefetchOK

LEMMA Folded ==
    ASSUME QueueTypes', ThreadTypes', PhaseOK',
           \A c \in Callers : CallerOK(c)', \A c \in Callers : DemandOK(c)',
           \A w \in Workers : WorkerOK(w)', \A p \in Pages : PrefetchOK(p)'
    PROVE  QueueInv'
BY TypesSplitHold, Zenon DEF QueueInv, TypesSplit

\* A caller, or a thread that is woken, moves.
CallerMoves ==
    /\ UNCHANGED <<queue, pending, workerVars, controlVars>>
    /\ ThreadTypes'
    /\ \A c \in Callers :
          /\ CallerOK(c)'
          /\ promise'[c] = "unset" <=> promise[c] = "unset"
          /\ promise[c] = "unset" => cpc'[c] \in {"notify", "future"}

\* A worker, start() or shutdown() moves.
EngineMoves ==
    /\ UNCHANGED <<queue, callerVars, wreq, cancelled>>
    /\ ThreadTypes' /\ PhaseOK'
    /\ \A w \in Workers : WorkerOK(w)'
    /\ ~stopping' => ~stopping /\ UNCHANGED pending

LEMMA CallerMovesKeep ==
    ASSUME QueueInv, CallerMoves
    PROVE  QueueInv'
<1>1. UNCHANGED <<queue, wreq, cancelled, pending, stopping, wpc, running, lpc>>
  BY Zenon DEF CallerMoves, workerVars, controlVars
<1>2. QueueTypes'
  BY <1>1, Unfolded, TypesSame, Zenon
<1>3. PhaseOK'
  BY <1>1, Unfolded, Zenon DEF PhaseOK
<1>4. \A w \in Workers : WorkerOK(w)'
  BY <1>1, Unfolded, Zenon DEF WorkerOK
<1>5. ASSUME NEW c \in Callers PROVE DemandOK(c)'
  <2>1. KeepsPlace(DemandsOf(c))
    BY <1>1, Unfolded, PlacesSame, Zenon
  <2> QED
    BY <2>1, Unfolded, DemandKept, Zenon DEF CallerMoves
<1>6. ASSUME NEW p \in Pages PROVE PrefetchOK(p)'
  <2>1. KeepsPlace({Prefetch(p)})
    BY <1>1, Unfolded, PlacesSame, Zenon
  <2> QED
    BY <1>1, <2>1, Unfolded, PrefetchKept, Zenon
<1> QED
  BY <1>2, <1>3, <1>4, <1>5, <1>6, Folded, Zenon DEF CallerMoves

LEMMA EngineMovesKeep ==
    ASSUME QueueInv, EngineMoves
    PROVE  QueueInv'
<1>1. UNCHANGED <<queue, wreq, cancelled, promise, cpc, cpage>>
  BY Zenon DEF EngineMoves, callerVars
<1>2. QueueTypes'
  BY <1>1, Unfolded, TypesSame, Zenon
<1>3. \A c \in Callers : CallerOK(c)'
  BY <1>1, Unfolded, Zenon DEF CallerOK
<1>4. ASSUME NEW c \in Callers PROVE DemandOK(c)'
  <2>1. KeepsPlace(DemandsOf(c))
    BY <1>1, Unfolded, PlacesSame, Zenon
  <2>2. promise[c] = "unset" => cpc[c] \in {"notify", "future"}
    BY Unfolded, Zenon DEF DemandOK
  <2>3. promise[c] = "unset" => cpc'[c] \in {"notify", "future"}
    BY <1>1, <2>2, Zenon
  <2> QED
    BY <1>1, <2>1, <2>3, Unfolded, DemandKept, Zenon
<1>5. ASSUME NEW p \in Pages PROVE PrefetchOK(p)'
  <2>1. KeepsPlace({Prefetch(p)})
    BY <1>1, Unfolded, PlacesSame, Zenon
  <2>2. ~stopping' => ~stopping /\ (p \in pending' <=> p \in pending)
    BY Zenon DEF EngineMoves
  <2> QED
    BY <2>1, <2>2, Unfolded, PrefetchKept, Zenon
<1> QED
  BY <1>2, <1>3, <1>4, <1>5, Folded, Zenon DEF EngineMoves

-----------------------------------------------------------------------------
(* The steps of a caller.                                                  *)

CallerLabels == {"idle", "submit", "notify", "future", "prefetch",
                 "prefetchNotify", "remove", "removeNotify"}

LEMMA CallerGoes ==
    ASSUME ThreadTypes, NEW c \in Callers, NEW label \in CallerLabels,
           GotoCaller(c, label)
    PROVE  /\ cpc' \in [Callers -> CallerLabels]
           /\ cpage' \in [Callers -> Pages \cup {NoPage}]
           /\ \A d \in Callers : d # c => cpc'[d] = cpc[d] /\ cpage'[d] = cpage[d]
           /\ cpc'[c] = label
           /\ label # "idle" => cpage'[c] = cpage[c]
<1>1. /\ cpc \in [Callers -> CallerLabels]
      /\ cpage \in [Callers -> Pages \cup {NoPage}]
  BY Zenon DEF ThreadTypes, CallerLabels
<1>2. cpc' = [cpc EXCEPT ![c] = label]
  BY Zenon DEF GotoCaller
<1>3. CASE label = "idle"
  <2>1. cpage' = [cpage EXCEPT ![c] = NoPage]
    BY <1>3, Zenon DEF GotoCaller
  <2> QED
    BY <1>1, <1>2, <1>3, <2>1, Zenon
<1>4. CASE label # "idle"
  <2>1. cpage' = cpage
    BY <1>4, Zenon DEF GotoCaller
  <2> QED
    BY <1>1, <1>2, <2>1, Zenon
<1> QED
  BY <1>3, <1>4, Zenon

LEMMA CallerOKAfter ==
    ASSUME QueueInv, NEW c \in Callers, NEW label \in CallerLabels,
           GotoCaller(c, label), cpc[c] # "idle"
    PROVE  \A d \in Callers : CallerOK(d)'
<1>1. ThreadTypes /\ \A d \in Callers : CallerOK(d)
  BY Unfolded, Zenon
<1> QED
  BY <1>1, CallerGoes, Zenon DEF CallerOK

\* The types when neither a worker nor start() or shutdown() moves.
LEMMA CallerTypes ==
    ASSUME ThreadTypes, cpc' \in [Callers -> CallerLabels],
           cpage' \in [Callers -> Pages \cup {NoPage}],
           promise' \in [Callers -> {"none", "unset", "value", "error", "cancelled"}],
           waiting' \subseteq Callers \cup Workers, pending' \subseteq Pages,
           UNCHANGED <<workerVars, controlVars>>
    PROVE  ThreadTypes'
BY Zenon DEF ThreadTypes, CallerLabels, workerVars, controlVars

LEMMA QuietCaller ==
    ASSUME QueueInv, NEW c \in Callers, NEW label \in CallerLabels,
           GotoCaller(c, label), cpc[c] # "idle",
           promise[c] = "unset" => label \in {"notify", "future"},
           waiting' \subseteq waiting,
           UNCHANGED <<queue, pending, promise, workerVars, controlVars>>
    PROVE  CallerMoves
<1>1. ThreadTypes /\ \A d \in Callers : DemandOK(d)
  BY Unfolded, Zenon
<1>2. ThreadTypes'
  BY <1>1, CallerGoes, CallerTypes, Zenon DEF ThreadTypes
<1>3. \A d \in Callers : CallerOK(d)'
  BY CallerOKAfter, Zenon
<1>4. \A d \in Callers : promise[d] = "unset" => cpc'[d] \in {"notify", "future"}
  BY <1>1, CallerGoes, ZenonT(40) DEF DemandOK
<1> QED
  BY <1>2, <1>3, <1>4, Zenon DEF CallerMoves

LEMMA Wakes ==
    ASSUME NotifyOne \/ NotifyAll
    PROVE  waiting' \subseteq waiting
BY Zenon DEF NotifyOne, NotifyAll

\* A caller outside "notify" and "future" has no demand.
LEMMA NoDemand ==
    ASSUME QueueInv, NEW c \in Callers, cpc[c] \notin {"notify", "future"}
    PROVE  promise[c] # "unset" /\ ~Held(DemandsOf(c))
BY Unfolded, Zenon DEF DemandOK

LEMMA EnterKeeps ==
    ASSUME QueueInv, NEW c \in Callers, NEW p \in Pages,
           NEW label \in CallerLabels, Enter(c, p, label)
    PROVE  QueueInv'
<1>1. ThreadTypes /\ \A d \in Callers : CallerOK(d) /\ DemandOK(d)
  BY Unfolded, Zenon
<1>2. /\ cpc' = [cpc EXCEPT ![c] = label] /\ cpage' = [cpage EXCEPT ![c] = p]
      /\ UNCHANGED <<queue, pending, waiting, promise, workerVars, controlVars>>
      /\ cpc[c] = "idle"
  BY Zenon DEF Enter
<1>3. /\ cpc \in [Callers -> CallerLabels]
      /\ cpage \in [Callers -> Pages \cup {NoPage}]
  BY <1>1, Zenon DEF ThreadTypes, CallerLabels
<1>4. ThreadTypes'
  <2>1. /\ cpc' \in [Callers -> CallerLabels]
        /\ cpage' \in [Callers -> Pages \cup {NoPage}]
    BY <1>2, <1>3, Zenon
  <2> QED
    BY <1>1, <1>2, <2>1, CallerTypes, Zenon DEF ThreadTypes
<1>5. promise[c] # "unset"
  BY <1>2, NoDemand, Zenon
<1>6. ASSUME NEW d \in Callers
      PROVE  /\ CallerOK(d)'
             /\ promise[d] = "unset" => cpc'[d] \in {"notify", "future"}
  <2>1. CASE d = c
    BY <1>2, <1>3, <1>5, <2>1, Zenon DEF CallerOK
  <2>2. CASE d # c
    <3>1. cpc'[d] = cpc[d] /\ cpage'[d] = cpage[d]
      BY <1>2, <1>3, <2>2, Zenon
    <3> QED
      BY <1>1, <3>1, Zenon DEF CallerOK, DemandOK
  <2> QED
    BY <2>1, <2>2, Zenon
<1>7. CallerMoves
  BY <1>2, <1>4, <1>6, Zenon DEF CallerMoves
<1> QED
  BY <1>7, CallerMovesKeep, Zenon

LEMMA CallKeeps ==
    ASSUME QueueInv, NEW c \in Callers, CallerCall(c)
    PROVE  QueueInv'
<1>1. PICK p \in Pages : CallDemand(c, p) \/ CallPrefetch(c, p) \/ CallFree(c, p)
  BY Zenon DEF CallerCall
<1>2. Enter(c, p, "submit") \/ Enter(c, p, "prefetch") \/ Enter(c, p, "remove")
  BY <1>1, Zenon DEF CallDemand, CallPrefetch, CallFree
<1>3. /\ "submit" \in CallerLabels /\ "prefetch" \in CallerLabels
      /\ "remove" \in CallerLabels
  BY Zenon DEF CallerLabels
<1> QED
  BY <1>2, <1>3, EnterKeeps, Zenon

LEMMA NotifyDemandKeeps ==
    ASSUME QueueInv, NEW c \in Callers, NotifyDemand(c)
    PROVE  QueueInv'
<1>1. /\ GotoCaller(c, "future") /\ cpc[c] = "notify" /\ NotifyOne
      /\ UNCHANGED <<queue, pending, promise, workerVars, controlVars>>
  BY Zenon DEF NotifyDemand
<1>2. "future" \in CallerLabels /\ cpc[c] # "idle"
  BY <1>1, Zenon DEF CallerLabels
<1>3. CallerMoves
  BY <1>1, <1>2, Wakes, QuietCaller, Zenon
<1> QED
  BY <1>3, CallerMovesKeep, Zenon

\* The notifications that end a prefetch and a free.
LEMMA NotifiesKeep ==
    ASSUME QueueInv, NEW c \in Callers, NotifyPrefetch(c) \/ NotifyRemove(c)
    PROVE  QueueInv'
<1>1. /\ GotoCaller(c, "idle") /\ cpc[c] \in {"prefetchNotify", "removeNotify"}
      /\ NotifyOne \/ NotifyAll
      /\ UNCHANGED <<queue, pending, promise, workerVars, controlVars>>
  BY Zenon DEF NotifyPrefetch, NotifyRemove
<1>2. "idle" \in CallerLabels /\ cpc[c] # "idle"
  BY <1>1, Zenon DEF CallerLabels
<1>3. promise[c] # "unset"
  BY <1>1, NoDemand, Zenon
<1>4. CallerMoves
  BY <1>1, <1>2, <1>3, Wakes, QuietCaller, Zenon
<1> QED
  BY <1>4, CallerMovesKeep, Zenon

LEMMA FutureGetKeeps ==
    ASSUME QueueInv, NEW c \in Callers, FutureGet(c)
    PROVE  QueueInv'
<1>1. ThreadTypes /\ \A d \in Callers : CallerOK(d) /\ DemandOK(d)
  BY Unfolded, Zenon
<1>2. /\ GotoCaller(c, "idle") /\ cpc[c] = "future" /\ promise[c] # "unset"
      /\ promise' = [promise EXCEPT ![c] = "none"]
      /\ UNCHANGED <<queue, pending, waiting, workerVars, controlVars>>
      /\ "idle" \in CallerLabels
  BY Zenon DEF FutureGet, CallerLabels
<1>3. promise \in [Callers -> {"none", "unset", "value", "error", "cancelled"}]
  BY <1>1, Zenon DEF ThreadTypes
<1>4. /\ promise' \in [Callers -> {"none", "unset", "value", "error", "cancelled"}]
      /\ \A d \in Callers : promise'[d] = "unset" <=> promise[d] = "unset"
  BY <1>2, <1>3, Zenon
<1>5. ThreadTypes'
  BY <1>1, <1>2, <1>4, CallerGoes, CallerTypes, Zenon DEF ThreadTypes
<1>6. \A d \in Callers : CallerOK(d)'
  BY <1>2, CallerOKAfter, Zenon
<1>7. \A d \in Callers : promise[d] = "unset" => cpc'[d] \in {"notify", "future"}
  BY <1>1, <1>2, CallerGoes, Zenon DEF DemandOK
<1>8. CallerMoves
  BY <1>2, <1>4, <1>5, <1>6, <1>7, Zenon DEF CallerMoves
<1> QED
  BY <1>8, CallerMovesKeep, Zenon

\* A step of a caller while the engine is up.
LEMMA PhaseWhileUp ==
    ASSUME QueueInv, lpc = "up", UNCHANGED <<workerVars, controlVars>>
    PROVE  /\ PhaseOK' /\ \A w \in Workers : WorkerOK(w)'
           /\ ~stopping /\ UNCHANGED <<wreq, cancelled, stopping>>
<1>1. PhaseOK /\ \A w \in Workers : WorkerOK(w)
  BY Unfolded, Zenon
<1>2. UNCHANGED <<wreq, wpc, cancelled, stopping, running, lpc>>
  BY Zenon DEF workerVars, controlVars
<1>3. PhaseOK' /\ ~stopping
  BY <1>1, <1>2, Zenon DEF PhaseOK
<1> QED
  BY <1>1, <1>2, <1>3, Zenon DEF WorkerOK

LEMMA AcceptingUp ==
    ASSUME QueueInv, Accepting
    PROVE  lpc = "up"
BY Unfolded, Zenon DEF PhaseOK, Accepting

LEMMA PushDemandKeeps ==
    ASSUME QueueInv, NEW c \in Callers, cpc[c] = "submit", Accepting, HasRoom,
           queue' = Append(queue, Demand(cpage[c], c)),
           promise' = [promise EXCEPT ![c] = "unset"], GotoCaller(c, "notify"),
           UNCHANGED <<waiting, pending, workerVars, controlVars>>
    PROVE  QueueInv'
<1>1. /\ QueueTypes /\ ThreadTypes
      /\ \A d \in Callers : DemandOK(d) /\ Once(DemandsOf(d))
      /\ \A q \in Pages : PrefetchOK(q) /\ Once({Prefetch(q)})
  BY Unfolded, Zenon
<1>2. /\ PhaseOK' /\ \A w \in Workers : WorkerOK(w)'
      /\ ~stopping /\ UNCHANGED <<wreq, cancelled, stopping>>
  BY AcceptingUp, PhaseWhileUp, Zenon
<1>3. PICK p \in Pages : p = cpage[c]
  BY Unfolded, Zenon DEF CallerOK
<1>4. Demand(p, c) \in Request /\ queue' = Append(queue, Demand(p, c))
  BY <1>3, Distinct, Zenon
<1>5. QueueTypes'
  <2>1. queue \in Seq(Request)
    BY <1>1, Zenon DEF QueueTypes
  <2>2. /\ Len(queue) < QueueDepth + PrefetchDepth /\ Len(queue) < QueueDepth
    BY <2>1, QueueAssumption DEF HasRoom
  <2> QED
    BY <1>1, <1>4, <2>2, TypesPush, Zenon
<1>6. "notify" \in CallerLabels
  BY Zenon DEF CallerLabels
<1>7. promise \in [Callers -> {"none", "unset", "value", "error", "cancelled"}]
  BY <1>1, Zenon DEF ThreadTypes
<1>8. /\ promise' \in [Callers -> {"none", "unset", "value", "error", "cancelled"}]
      /\ promise'[c] = "unset"
      /\ \A d \in Callers : d # c => promise'[d] = promise[d]
  BY <1>7, Zenon
<1>9. ThreadTypes'
  BY <1>1, <1>6, <1>8, CallerGoes, CallerTypes, Zenon DEF ThreadTypes
<1>10. \A d \in Callers : CallerOK(d)'
  BY <1>6, CallerOKAfter, Zenon
<1>11. ASSUME NEW d \in Callers PROVE DemandOK(d)'
  <2>1. queue \in Seq(Request)
    BY <1>1, Zenon DEF QueueTypes
  <2>2. CASE d = c
    <3>1. ~Held(DemandsOf(d)) /\ Demand(p, c) \in DemandsOf(d)
      BY <2>2, NoDemand, Distinct, Zenon
    <3>2. Gains(DemandsOf(d))
      BY <1>1, <1>2, <1>4, <2>1, <3>1, PlacesPush, Zenon
    <3>3. promise'[d] = "unset" /\ cpc'[d] \in {"notify", "future"}
      BY <1>1, <1>6, <1>8, <2>2, CallerGoes, Zenon
    <3> QED
      BY <3>2, <3>3, Zenon DEF DemandOK, Gains, DemandsOf, Demand
  <2>3. CASE d # c
    <3>1. Demand(p, c) \notin DemandsOf(d)
      BY <2>3, Distinct, Zenon
    <3>2. KeepsPlace(DemandsOf(d))
      BY <1>1, <1>2, <1>4, <2>1, <3>1, PlacesPush, Zenon
    <3>3. /\ promise'[d] = "unset" <=> promise[d] = "unset"
          /\ promise[d] = "unset" => cpc'[d] \in {"notify", "future"}
      BY <1>1, <1>6, <1>8, <2>3, CallerGoes, ZenonT(40) DEF DemandOK
    <3> QED
      BY <1>1, <3>2, <3>3, DemandKept, Zenon
  <2> QED
    BY <2>2, <2>3, Zenon
<1>12. ASSUME NEW q \in Pages PROVE PrefetchOK(q)'
  <2>1. Demand(p, c) \notin {Prefetch(q)} /\ queue \in Seq(Request)
    BY <1>1, Distinct, Zenon DEF QueueTypes
  <2>2. KeepsPlace({Prefetch(q)})
    BY <1>1, <1>2, <1>4, <2>1, PlacesPush, Zenon
  <2> QED
    BY <1>1, <1>2, <2>2, PrefetchKept, Zenon
<1> QED
  BY <1>2, <1>5, <1>9, <1>10, <1>11, <1>12, Folded, Zenon

LEMMA SubmitDemandKeeps ==
    ASSUME QueueInv, NEW c \in Callers, SubmitDemand(c)
    PROVE  QueueInv'
<1>1. /\ cpc[c] = "submit" /\ "idle" \in CallerLabels
      /\ UNCHANGED <<pending, workerVars, controlVars>>
      /\ promise[c] # "unset"
  BY NoDemand, Zenon DEF SubmitDemand, CallerLabels
<1>2. CASE GotoCaller(c, "idle") /\ UNCHANGED <<queue, waiting, promise>>
  <2>1. CallerMoves
    BY <1>1, <1>2, QuietCaller, Zenon
  <2> QED
    BY <2>1, CallerMovesKeep, Zenon
<1>3. CASE /\ Accepting /\ HasRoom
           /\ queue' = Append(queue, Demand(cpage[c], c))
           /\ promise' = [promise EXCEPT ![c] = "unset"]
           /\ GotoCaller(c, "notify")
           /\ UNCHANGED waiting
  BY <1>1, <1>3, PushDemandKeeps, Zenon
<1>4. CASE /\ waiting' = waiting \cup {c}
           /\ UNCHANGED <<queue, promise, cpc, cpage>>
  <2>1. ThreadTypes /\ \A d \in Callers : CallerOK(d) /\ DemandOK(d)
    BY Unfolded, Zenon
  <2>2. ThreadTypes'
    BY <1>1, <1>4, <2>1, CallerTypes, Zenon DEF ThreadTypes, CallerLabels
  <2>3. CallerMoves
    BY <1>1, <1>4, <2>1, <2>2, Zenon DEF CallerMoves, CallerOK, DemandOK
  <2> QED
    BY <2>3, CallerMovesKeep, Zenon
<1> QED
  BY <1>2, <1>3, <1>4, Zenon DEF SubmitDemand

LEMMA PushPrefetchKeeps ==
    ASSUME QueueInv, NEW c \in Callers, cpc[c] = "prefetch", Accepting,
           cpage[c] \notin pending, Len(queue) < QueueDepth + PrefetchDepth,
           queue' = Append(queue, Prefetch(cpage[c])),
           pending' = pending \cup {cpage[c]}, GotoCaller(c, "prefetchNotify"),
           UNCHANGED <<waiting, promise, workerVars, controlVars>>
    PROVE  QueueInv'
<1>1. /\ QueueTypes /\ ThreadTypes
      /\ \A d \in Callers : DemandOK(d) /\ Once(DemandsOf(d))
      /\ \A q \in Pages : PrefetchOK(q) /\ Once({Prefetch(q)})
  BY Unfolded, Zenon
<1>2. /\ PhaseOK' /\ \A w \in Workers : WorkerOK(w)'
      /\ ~stopping /\ UNCHANGED <<wreq, cancelled, stopping>>
  BY AcceptingUp, PhaseWhileUp, Zenon
<1>3. PICK p \in Pages : p = cpage[c]
  BY Unfolded, Zenon DEF CallerOK
<1>4. Prefetch(p) \in Request /\ queue' = Append(queue, Prefetch(p))
  BY <1>3, Distinct, Zenon
<1>5. QueueTypes'
  <2>1. Prefetch(p).kind # "demand"
    BY Zenon DEF Prefetch
  <2> QED
    BY <1>1, <1>4, <2>1, TypesPush, Zenon
<1>6. "prefetchNotify" \in CallerLabels /\ promise[c] # "unset"
  BY NoDemand, Zenon DEF CallerLabels
<1>7. ThreadTypes'
  <2>1. pending' \subseteq Pages
    BY <1>1, <1>3, Zenon DEF ThreadTypes
  <2> QED
    BY <1>1, <1>6, <2>1, CallerGoes, CallerTypes, Zenon DEF ThreadTypes
<1>8. \A d \in Callers : CallerOK(d)'
  BY <1>6, CallerOKAfter, Zenon
<1>9. queue \in Seq(Request)
  BY <1>1, Zenon DEF QueueTypes
<1>10. ASSUME NEW d \in Callers PROVE DemandOK(d)'
  <2>1. Prefetch(p) \notin DemandsOf(d)
    BY Distinct, Zenon
  <2>2. KeepsPlace(DemandsOf(d))
    BY <1>1, <1>2, <1>4, <1>9, <2>1, PlacesPush, Zenon
  <2>3. promise[d] = "unset" => cpc'[d] \in {"notify", "future"}
    BY <1>1, <1>6, CallerGoes, Zenon DEF DemandOK
  <2> QED
    BY <1>1, <2>2, <2>3, DemandKept, Zenon
<1>11. ASSUME NEW q \in Pages PROVE PrefetchOK(q)'
  <2>1. CASE q = p
    <3>1. ~Held({Prefetch(q)}) /\ Prefetch(p) \in {Prefetch(q)}
      BY <1>1, <1>2, <1>3, <2>1, Zenon DEF PrefetchOK
    <3>2. Gains({Prefetch(q)})
      BY <1>1, <1>2, <1>4, <1>9, <3>1, PlacesPush, Zenon
    <3>3. q \in pending'
      BY <1>3, <2>1, Zenon
    <3> QED
      BY <3>2, <3>3, Zenon DEF PrefetchOK, Gains, Prefetch
  <2>2. CASE q # p
    <3>1. Prefetch(p) \notin {Prefetch(q)}
      BY <2>2, Distinct, Zenon
    <3>2. KeepsPlace({Prefetch(q)})
      BY <1>1, <1>2, <1>4, <1>9, <3>1, PlacesPush, Zenon
    <3>3. q \in pending' <=> q \in pending
      BY <1>3, <2>2, Zenon
    <3> QED
      BY <1>1, <1>2, <3>2, <3>3, PrefetchKept, Zenon
  <2> QED
    BY <2>1, <2>2, Zenon
<1> QED
  BY <1>2, <1>5, <1>7, <1>8, <1>10, <1>11, Folded, Zenon

LEMMA SubmitPrefetchKeeps ==
    ASSUME QueueInv, NEW c \in Callers, SubmitPrefetch(c)
    PROVE  QueueInv'
<1>1. /\ cpc[c] = "prefetch" /\ promise[c] # "unset"
      /\ "idle" \in CallerLabels /\ "prefetchNotify" \in CallerLabels
      /\ UNCHANGED <<waiting, promise, workerVars, controlVars>>
  BY NoDemand, Zenon DEF SubmitPrefetch, CallerLabels
<1>2. CASE /\ GotoCaller(c, "idle") \/ GotoCaller(c, "prefetchNotify")
           /\ UNCHANGED <<queue, pending>>
  <2>1. CallerMoves
    BY <1>1, <1>2, QuietCaller, Zenon
  <2> QED
    BY <2>1, CallerMovesKeep, Zenon
<1>3. CASE /\ Accepting /\ cpage[c] \notin pending
           /\ Len(queue) < QueueDepth + PrefetchDepth
           /\ queue' = Append(queue, Prefetch(cpage[c]))
           /\ pending' = pending \cup {cpage[c]}
           /\ GotoCaller(c, "prefetchNotify")
  BY <1>1, <1>3, PushPrefetchKeeps, Zenon
<1> QED
  BY <1>2, <1>3, Zenon DEF SubmitPrefetch

LEMMA RemoveKeeps ==
    ASSUME QueueInv, NEW c \in Callers, RemoveQueuedPrefetch(c)
    PROVE  QueueInv'
<1>1. /\ QueueTypes /\ ThreadTypes /\ PhaseOK
      /\ \A d \in Callers : DemandOK(d) /\ Once(DemandsOf(d))
      /\ \A q \in Pages : PrefetchOK(q) /\ Once({Prefetch(q)})
  BY Unfolded, Zenon
<1>2. /\ cpc[c] = "remove" /\ promise[c] # "unset"
      /\ "idle" \in CallerLabels /\ "removeNotify" \in CallerLabels
      /\ UNCHANGED <<waiting, promise, workerVars, controlVars>>
      /\ queue \in Seq(Request)
  BY <1>1, NoDemand, Zenon DEF RemoveQueuedPrefetch, CallerLabels, QueueTypes
<1>3. PICK p \in Pages : p = cpage[c]
  BY <1>2, Unfolded, Zenon DEF CallerOK
<1>4. CASE \A i \in 1 .. Len(queue) : queue[i] # Prefetch(p)
  <2>1. Without(queue, Prefetch(p)) = queue
    BY <1>2, <1>4, WithoutNone, Zenon
  <2>2. GotoCaller(c, "idle") /\ UNCHANGED <<queue, pending>>
    BY <1>3, <2>1, Zenon DEF RemoveQueuedPrefetch
  <2>3. CallerMoves
    BY <1>2, <2>2, QuietCaller, Zenon
  <2> QED
    BY <2>3, CallerMovesKeep, Zenon
<1>5. CASE \E i \in 1 .. Len(queue) : queue[i] = Prefetch(p)
  <2>1. PICK m \in 1 .. Len(queue) : queue[m] = Prefetch(p)
    BY <1>5, Zenon
  <2>2. \A i \in 1 .. Len(queue) : queue[i] = Prefetch(p) <=> i = m
    <3>1. AtMostOne(InQueue({Prefetch(p)}))
      BY <1>1, Zenon DEF Once
    <3> QED
      BY <2>1, <3>1, Zenon DEF AtMostOne, InQueue
  <2>3. Without(queue, Prefetch(p)) = Cut(queue, m)
    BY <1>2, <2>2, WithoutOne, Zenon
  <2>4. Cut(queue, m) # queue /\ queue # <<>>
    <3>1. Len(Cut(queue, m)) = Len(queue) - 1
      BY <1>2, CutIs, Zenon
    <3> QED
      BY <1>2, <3>1
  <2>5. /\ queue' = Cut(queue, m) /\ pending' = pending \ {p}
        /\ GotoCaller(c, "removeNotify")
    BY <1>3, <2>3, <2>4, Zenon DEF RemoveQueuedPrefetch
  <2>6. Survives(queue, queue', m)
    BY <1>2, <2>5, CutSurvives, Zenon
  <2>7. QueueTypes'
    BY <1>1, <2>5, TypesCut, Zenon
  <2>8. /\ PhaseOK' /\ \A w \in Workers : WorkerOK(w)'
        /\ ~stopping /\ UNCHANGED <<wreq, cancelled, stopping>>
    BY <1>1, <1>2, <2>4, PhaseWhileUp, Zenon DEF PhaseOK
  <2>9. ThreadTypes'
    <3>1. pending' \subseteq Pages
      BY <1>1, <2>5, Zenon DEF ThreadTypes
    <3> QED
      BY <1>1, <1>2, <2>5, <3>1, CallerGoes, CallerTypes, Zenon DEF ThreadTypes
  <2>10. \A d \in Callers : CallerOK(d)'
    BY <1>2, <2>5, CallerOKAfter, Zenon
  <2>11. ASSUME NEW d \in Callers PROVE DemandOK(d)'
    <3>1. queue[m] \notin DemandsOf(d)
      <4>1. Prefetch(p) \notin DemandsOf(d)
        BY Distinct, Zenon
      <4> QED
        BY <2>1, <4>1, Zenon
    <3>2. KeepsPlace(DemandsOf(d))
      BY <1>1, <2>6, <2>8, <3>1, PlacesCut, Zenon
    <3>3. promise[d] = "unset" => cpc'[d] \in {"notify", "future"}
      BY <1>1, <1>2, <2>5, CallerGoes, Zenon DEF DemandOK
    <3> QED
      BY <1>1, <1>2, <3>2, <3>3, DemandKept, Zenon
  <2>12. ASSUME NEW q \in Pages PROVE PrefetchOK(q)'
    <3>1. CASE q = p
      <4>1. queue[m] \in {Prefetch(q)}
        BY <2>1, <3>1, Zenon
      <4>2. Loses({Prefetch(q)})
        BY <1>1, <2>6, <2>8, <4>1, PlacesCut, Zenon
      <4>3. q \notin pending'
        BY <2>5, <3>1, Zenon
      <4> QED
        BY <4>2, <4>3, Zenon DEF PrefetchOK, Loses, Prefetch
    <3>2. CASE q # p
      <4>1. queue[m] \notin {Prefetch(q)}
        BY <2>1, <3>2, Distinct, Zenon
      <4>2. KeepsPlace({Prefetch(q)})
        BY <1>1, <2>6, <2>8, <4>1, PlacesCut, Zenon
      <4>3. q \in pending' <=> q \in pending
        BY <2>5, <3>2, Zenon
      <4> QED
        BY <1>1, <2>8, <4>2, <4>3, PrefetchKept, Zenon
    <3> QED
      BY <3>1, <3>2, Zenon
  <2> QED
    BY <2>7, <2>8, <2>9, <2>10, <2>11, <2>12, Folded, Zenon
<1> QED
  BY <1>4, <1>5, Zenon

-----------------------------------------------------------------------------
(* The steps of a worker.                                                  *)

WorkerLabels == {"loop", "popped", "load", "erase", "eraseNotify", "exited"}

LEMMA WorkerGoes ==
    ASSUME ThreadTypes, NEW w \in Workers, NEW label \in WorkerLabels,
           GotoWorker(w, label)
    PROVE  /\ wpc' \in [Workers -> WorkerLabels]
           /\ \A v \in Workers : v # w => wpc'[v] = wpc[v]
           /\ wpc'[w] = label
<1>1. wpc \in [Workers -> WorkerLabels]
  BY Zenon DEF ThreadTypes, WorkerLabels
<1> QED
  BY <1>1, Zenon DEF GotoWorker

LEMMA WorkerTypes ==
    ASSUME ThreadTypes, wpc' \in [Workers -> WorkerLabels],
           wreq' \in [Workers -> Request \cup {NoRequest}],
           promise' \in [Callers -> {"none", "unset", "value", "error", "cancelled"}],
           waiting' \subseteq Callers \cup Workers, pending' \subseteq Pages,
           UNCHANGED <<cpc, cpage, controlVars>>
    PROVE  ThreadTypes'
BY Zenon DEF ThreadTypes, WorkerLabels, controlVars

\* A worker that is not where it ended runs in a started engine.
LEMMA WorkerRuns ==
    ASSUME QueueInv, NEW w \in Workers, wpc[w] # "exited"
    PROVE  lpc \notin {"down", "starting"}
BY Unfolded, Zenon DEF PhaseOK

LEMMA QuietWorker ==
    ASSUME QueueInv, NEW w \in Workers, NEW label \in WorkerLabels,
           GotoWorker(w, label), wpc[w] # "exited",
           label \in {"popped", "load", "erase"} <=>
                wpc[w] \in {"popped", "load", "erase"},
           label = "erase" => \E p \in Pages : wreq[w] = Prefetch(p),
           waiting' \subseteq waiting,
           UNCHANGED <<queue, pending, callerVars, wreq, controlVars>>
    PROVE  QueueInv'
<1>1. ThreadTypes /\ PhaseOK /\ \A v \in Workers : WorkerOK(v)
  BY Unfolded, Zenon
<1>2. UNCHANGED <<cpc, cpage, promise, cancelled, lpc, stopping, running>>
  BY Zenon DEF callerVars, controlVars
<1>3. ThreadTypes'
  BY <1>1, <1>2, WorkerGoes, WorkerTypes, Zenon DEF ThreadTypes
<1>4. PhaseOK'
  <2>1. lpc \notin {"down", "starting"}
    BY WorkerRuns, Zenon
  <2> QED
    BY <1>1, <1>2, <2>1, Zenon DEF PhaseOK
<1>5. ASSUME NEW v \in Workers PROVE WorkerOK(v)'
  <2>1. CASE v = w
    <3>1. wpc'[v] = label /\ WorkerOK(v)
      BY <1>1, <2>1, WorkerGoes, Zenon
    <3>2. wreq'[v] # NoRequest <=> wpc'[v] \in {"popped", "load", "erase"}
      BY <2>1, <3>1, Zenon DEF WorkerOK
    <3>3. wpc'[v] = "erase" => \E p \in Pages : wreq'[v] = Prefetch(p)
      BY <2>1, <3>1, Zenon
    <3> QED
      BY <3>2, <3>3, Zenon DEF WorkerOK, Prefetch
  <2>2. CASE v # w
    <3>1. wpc'[v] = wpc[v]
      BY <1>1, <2>2, WorkerGoes, Zenon
    <3> QED
      BY <1>1, <3>1, Zenon DEF WorkerOK, Prefetch
  <2> QED
    BY <2>1, <2>2, Zenon
<1>6. EngineMoves
  BY <1>2, <1>3, <1>4, <1>5, Zenon DEF EngineMoves, callerVars
<1> QED
  BY <1>6, EngineMovesKeep, Zenon

LEMMA WorkerWaitKeeps ==
    ASSUME QueueInv, NEW w \in Workers, WorkerWait(w)
    PROVE  QueueInv'
<1>1. ThreadTypes /\ PhaseOK /\ \A v \in Workers : WorkerOK(v)
  BY Unfolded, Zenon
<1>2. /\ UNCHANGED <<queue, pending, cpc, cpage, promise, wpc, wreq, controlVars>>
      /\ waiting' = waiting \cup {w}
  BY Zenon DEF WorkerWait, callerVars, workerVars
<1>3. UNCHANGED <<cancelled, lpc, stopping, running>>
  BY <1>2, Zenon DEF controlVars
<1>4. ThreadTypes'
  BY <1>1, <1>2, WorkerTypes, Zenon DEF ThreadTypes, WorkerLabels
<1>5. PhaseOK' /\ \A v \in Workers : WorkerOK(v)'
  BY <1>1, <1>2, <1>3, Zenon DEF PhaseOK, WorkerOK, Prefetch
<1>6. EngineMoves
  BY <1>2, <1>3, <1>4, <1>5, Zenon DEF EngineMoves, callerVars
<1> QED
  BY <1>6, EngineMovesKeep, Zenon

\* The moves of a worker that keep its request.
LEMMA WorkerMovesKeep ==
    ASSUME QueueInv, NEW w \in Workers,
           WorkerExit(w) \/ WorkerNotify(w) \/ WorkerEraseNotify(w)
    PROVE  QueueInv'
<1>1. /\ "exited" \in WorkerLabels /\ "load" \in WorkerLabels
      /\ "loop" \in WorkerLabels
  BY Zenon DEF WorkerLabels
<1>2. CASE WorkerExit(w)
  <2>1. /\ wpc[w] = "loop" /\ GotoWorker(w, "exited")
        /\ UNCHANGED <<queue, pending, waiting, callerVars, wreq, controlVars>>
    BY <1>2, Zenon DEF WorkerExit
  <2> QED
    BY <1>1, <2>1, QuietWorker, Zenon
<1>3. CASE WorkerNotify(w)
  <2>1. /\ wpc[w] = "popped" /\ GotoWorker(w, "load") /\ NotifyAll
        /\ UNCHANGED <<queue, pending, callerVars, wreq, controlVars>>
    BY <1>3, Zenon DEF WorkerNotify
  <2> QED
    BY <1>1, <2>1, Wakes, QuietWorker, Zenon
<1>4. CASE WorkerEraseNotify(w)
  <2>1. /\ wpc[w] = "eraseNotify" /\ GotoWorker(w, "loop") /\ NotifyAll
        /\ UNCHANGED <<queue, pending, callerVars, wreq, controlVars>>
    BY <1>4, Zenon DEF WorkerEraseNotify
  <2> QED
    BY <1>1, <2>1, Wakes, QuietWorker, Zenon
<1> QED
  BY <1>2, <1>3, <1>4, Zenon

LEMMA WorkerPopKeeps ==
    ASSUME QueueInv, NEW w \in Workers, WorkerPop(w)
    PROVE  QueueInv'
<1>1. /\ QueueTypes /\ ThreadTypes /\ PhaseOK
      /\ \A c \in Callers : CallerOK(c) /\ DemandOK(c) /\ Once(DemandsOf(c))
      /\ \A q \in Pages : PrefetchOK(q) /\ Once({Prefetch(q)})
      /\ \A v \in Workers : WorkerOK(v)
  BY Unfolded, Zenon
<1>2. /\ wpc[w] = "loop" /\ queue # <<>> /\ GotoWorker(w, "popped")
      /\ wreq' = [wreq EXCEPT ![w] = Head(queue)] /\ queue' = Tail(queue)
      /\ UNCHANGED <<pending, waiting, callerVars, controlVars>>
      /\ "popped" \in WorkerLabels
  BY Zenon DEF WorkerPop, WorkerLabels
<1>3. /\ UNCHANGED <<cpc, cpage, promise, cancelled, stopping, running, lpc>>
      /\ lpc = "up" /\ queue \in Seq(Request)
      /\ wreq \in [Workers -> Request \cup {NoRequest}]
  BY <1>1, <1>2, Zenon
     DEF PhaseOK, QueueTypes, ThreadTypes, callerVars, controlVars
<1>4. /\ 1 \in 1 .. Len(queue) /\ queue' = Cut(queue, 1) /\ Head(queue) = queue[1]
  BY <1>2, <1>3, TailIsCut, Zenon
<1>5. queue[1] \in Request /\ queue[1] # NoRequest
  BY <1>3, <1>4, RequestAssumption
<1>6. wreq[w] = NoRequest
  BY <1>1, <1>2, Zenon DEF WorkerOK
<1>7. Survives(queue, queue', 1)
  BY <1>3, <1>4, CutSurvives, Zenon
<1>8. wreq' = [wreq EXCEPT ![w] = queue[1]]
  BY <1>2, <1>4, Zenon
<1>9. QueueTypes'
  BY <1>1, <1>4, TypesCut, Zenon
<1>10. /\ wreq' \in [Workers -> Request \cup {NoRequest}]
       /\ wreq'[w] = queue[1] /\ \A v \in Workers : v # w => wreq'[v] = wreq[v]
  BY <1>3, <1>5, <1>8, Zenon
<1>11. ThreadTypes'
  BY <1>1, <1>2, <1>3, <1>10, WorkerGoes, WorkerTypes, Zenon DEF ThreadTypes
<1>12. PhaseOK'
  BY <1>1, <1>3, Zenon DEF PhaseOK, Stopping
<1>13. \A c \in Callers : CallerOK(c)'
  BY <1>1, <1>3, Zenon DEF CallerOK
<1>14. ASSUME NEW v \in Workers PROVE WorkerOK(v)'
  <2>1. CASE v = w
    <3>1. wpc'[v] = "popped" /\ wreq'[v] # NoRequest
      BY <1>1, <1>2, <1>5, <1>10, <2>1, WorkerGoes, Zenon
    <3> QED
      BY <3>1, Zenon DEF WorkerOK
  <2>2. CASE v # w
    <3>1. wpc'[v] = wpc[v] /\ wreq'[v] = wreq[v]
      BY <1>1, <1>2, <1>10, <2>2, WorkerGoes, ZenonT(40)
    <3> QED
      BY <1>1, <3>1, Zenon DEF WorkerOK, Prefetch
  <2> QED
    BY <2>1, <2>2, Zenon
<1>15. ASSUME NEW c \in Callers PROVE DemandOK(c)'
  <2>1. wreq[w] \notin DemandsOf(c)
    <3>1. NoRequest \notin DemandsOf(c)
      BY Distinct, Zenon
    <3> QED
      BY <1>6, <3>1, Zenon
  <2>2. KeepsPlace(DemandsOf(c))
    BY <1>1, <1>3, <1>4, <1>7, <1>8, <2>1, PlacesPop, Zenon
  <2>3. promise[c] = "unset" => cpc'[c] \in {"notify", "future"}
    BY <1>1, <1>3, Zenon DEF DemandOK
  <2> QED
    BY <1>1, <1>3, <2>2, <2>3, DemandKept, Zenon
<1>16. ASSUME NEW q \in Pages PROVE PrefetchOK(q)'
  <2>1. wreq[w] \notin {Prefetch(q)}
    <3>1. NoRequest \notin {Prefetch(q)}
      BY Distinct, Zenon
    <3> QED
      BY <1>6, <3>1, Zenon
  <2>2. KeepsPlace({Prefetch(q)})
    BY <1>1, <1>3, <1>4, <1>7, <1>8, <2>1, PlacesPop, Zenon
  <2> QED
    BY <1>1, <1>2, <1>3, <2>2, PrefetchKept, Zenon
<1> QED
  BY <1>9, <1>11, <1>12, <1>13, <1>14, <1>15, <1>16, Folded, Zenon

\* Worker w is done with its request, and the promise of a demand or the
\* pending prefetch goes with it.
WorkerDone(w, label) ==
    /\ GotoWorker(w, label) /\ wreq' = [wreq EXCEPT ![w] = NoRequest]
    /\ wpc[w] \in {"load", "erase"}
    /\ UNCHANGED <<queue, waiting, cpc, cpage, controlVars>>

LEMMA WorkerDoneFrame ==
    ASSUME QueueInv, NEW w \in Workers, NEW label \in {"loop", "eraseNotify"},
           WorkerDone(w, label), pending' \subseteq pending,
           promise' \in [Callers -> {"none", "unset", "value", "error", "cancelled"}]
    PROVE  /\ QueueTypes' /\ ThreadTypes' /\ PhaseOK'
           /\ \A c \in Callers : CallerOK(c)'
           /\ \A v \in Workers : WorkerOK(v)'
           /\ UNCHANGED <<cancelled, stopping>>
           /\ wreq \in [Workers -> Request \cup {NoRequest}]
<1>1. /\ QueueTypes /\ ThreadTypes /\ PhaseOK
      /\ \A c \in Callers : CallerOK(c)
      /\ \A v \in Workers : WorkerOK(v)
  BY Unfolded, Zenon
<1>2. /\ GotoWorker(w, label) /\ wreq' = [wreq EXCEPT ![w] = NoRequest]
      /\ wpc[w] \in {"load", "erase"}
      /\ UNCHANGED <<queue, waiting, cpc, cpage, controlVars>>
      /\ UNCHANGED <<cancelled, stopping, running, lpc>>
      /\ label \in WorkerLabels
  BY Zenon DEF WorkerDone, controlVars, WorkerLabels
<1>3. wreq \in [Workers -> Request \cup {NoRequest}]
  BY <1>1, Zenon DEF ThreadTypes
<1>4. /\ wreq' \in [Workers -> Request \cup {NoRequest}]
      /\ wreq'[w] = NoRequest /\ \A v \in Workers : v # w => wreq'[v] = wreq[v]
  BY <1>2, <1>3, Zenon
<1>5. QueueTypes'
  BY <1>1, <1>2, TypesSame, Zenon
<1>6. ThreadTypes'
  BY <1>1, <1>2, <1>4, WorkerGoes, WorkerTypes, Zenon DEF ThreadTypes
<1>7. PhaseOK'
  <2>1. lpc \notin {"down", "starting"}
    BY <1>2, WorkerRuns, Zenon
  <2>2. ~stopping /\ lpc # "up" =>
            pending' = {} /\ \A v \in Workers : wreq'[v] = NoRequest
    BY <1>1, <1>4, Zenon DEF PhaseOK
  <2> QED
    BY <1>1, <1>2, <2>1, <2>2, Zenon DEF PhaseOK
<1>8. \A c \in Callers : CallerOK(c)'
  BY <1>1, <1>2, Zenon DEF CallerOK
<1>9. ASSUME NEW v \in Workers PROVE WorkerOK(v)'
  <2>1. CASE v = w
    <3>1. wpc'[v] = label /\ wreq'[v] = NoRequest
      BY <1>1, <1>2, <1>4, <2>1, WorkerGoes, Zenon
    <3> QED
      BY <3>1, Zenon DEF WorkerOK
  <2>2. CASE v # w
    <3>1. wpc'[v] = wpc[v] /\ wreq'[v] = wreq[v]
      BY <1>1, <1>2, <1>4, <2>2, WorkerGoes, Zenon
    <3> QED
      BY <1>1, <3>1, Zenon DEF WorkerOK, Prefetch
  <2> QED
    BY <2>1, <2>2, Zenon
<1> QED
  BY <1>2, <1>3, <1>5, <1>6, <1>7, <1>8, <1>9, Zenon

LEMMA Kinds ==
    ASSUME NEW r \in Request
    PROVE  /\ r.kind = "demand" =>
                \E p \in Pages, c \in Callers : r = Demand(p, c) /\ r.by = c
           /\ r.kind = "prefetch" =>
                \E p \in Pages : r = Prefetch(p) /\ r.page = p
           /\ \A c \in Callers : r.by = c <=> r \in DemandsOf(c)
<1>1. CASE \E p \in Pages, c \in Callers : r = Demand(p, c)
  <2>1. PICK p \in Pages, c \in Callers : r = Demand(p, c)
    BY <1>1, Zenon
  <2>2. r.kind = "demand" /\ r.by = c
    BY <2>1, Zenon DEF Demand
  <2>3. \A d \in Callers : Demand(p, c) \in DemandsOf(d) <=> c = d
    BY Distinct, Zenon
  <2>4. \A d \in Callers : r.by = d <=> r \in DemandsOf(d)
    BY <2>1, <2>2, <2>3, Zenon
  <2> QED
    BY <2>1, <2>2, <2>4, Zenon
<1>2. CASE \E p \in Pages : r = Prefetch(p)
  <2>1. PICK p \in Pages : r = Prefetch(p)
    BY <1>2, Zenon
  <2>2. r.kind = "prefetch" /\ r.by = NoCaller /\ r.page = p
    BY <2>1, Zenon DEF Prefetch
  <2>3. \A d \in Callers : Prefetch(p) \notin DemandsOf(d)
    BY Distinct, Zenon
  <2>4. \A d \in Callers : ~(r.by = d) /\ r \notin DemandsOf(d)
    BY <2>1, <2>2, <2>3, QueueAssumption, Zenon
  <2> QED
    BY <2>1, <2>2, <2>4, Zenon
<1>3. \/ \E p \in Pages, c \in Callers : r = Demand(p, c)
      \/ \E p \in Pages : r = Prefetch(p)
  BY DEF Request
<1> QED
  BY <1>1, <1>2, <1>3, Zenon

LEMMA LoadDemandKeeps ==
    ASSUME QueueInv, NEW w \in Workers, WorkerLoad(w), wreq[w].kind = "demand"
    PROVE  QueueInv'
<1>1. /\ \A c \in Callers : DemandOK(c) /\ Once(DemandsOf(c))
      /\ \A q \in Pages : PrefetchOK(q) /\ Once({Prefetch(q)})
      /\ ThreadTypes /\ WorkerOK(w)
  BY Unfolded, Zenon
<1>2. PICK a \in {"value", "error"} :
        promise' = [promise EXCEPT ![wreq[w].by] = a]
  BY Zenon DEF WorkerLoad
<1>3. WorkerDone(w, "loop") /\ UNCHANGED pending /\ wpc[w] = "load"
  BY Zenon DEF WorkerLoad, WorkerDone
<1>4. wreq[w] \in Request
  BY <1>1, <1>3, Zenon DEF WorkerOK, ThreadTypes
<1>5. PICK p \in Pages, c \in Callers : wreq[w] = Demand(p, c) /\ wreq[w].by = c
  BY <1>4, Kinds, Zenon
<1>6. promise \in [Callers -> {"none", "unset", "value", "error", "cancelled"}]
  BY <1>1, Zenon DEF ThreadTypes
<1>7. promise' = [promise EXCEPT ![c] = a]
  BY <1>2, <1>5, Zenon
<1>8. /\ promise' \in [Callers -> {"none", "unset", "value", "error", "cancelled"}]
      /\ promise'[c] # "unset"
      /\ \A d \in Callers : d # c => promise'[d] = promise[d]
  BY <1>6, <1>7, Zenon
<1>9. /\ QueueTypes' /\ ThreadTypes' /\ PhaseOK'
      /\ \A d \in Callers : CallerOK(d)'
      /\ \A v \in Workers : WorkerOK(v)'
      /\ UNCHANGED <<cancelled, stopping>>
      /\ wreq \in [Workers -> Request \cup {NoRequest}]
  BY <1>3, <1>8, WorkerDoneFrame, Zenon
<1>10. /\ wreq' = [wreq EXCEPT ![w] = NoRequest]
       /\ UNCHANGED <<queue, cancelled, cpc>>
  BY <1>3, <1>9, Zenon DEF WorkerDone
<1>11. ASSUME NEW d \in Callers PROVE DemandOK(d)'
  <2>1. NoRequest \notin DemandsOf(d)
    BY Distinct, Zenon
  <2>2. CASE d = c
    <3>1. wreq[w] \in DemandsOf(d)
      BY <1>4, <1>5, <2>2, Kinds, Zenon
    <3>2. Loses(DemandsOf(d))
      BY <1>1, <1>9, <1>10, <2>1, <3>1, PlacesDone, Zenon
    <3>3. promise'[d] # "unset"
      BY <1>8, <2>2, Zenon
    <3> QED
      BY <3>2, <3>3, Zenon DEF DemandOK, Loses, DemandsOf, Demand
  <2>3. CASE d # c
    <3>1. wreq[w] \notin DemandsOf(d)
      BY <1>4, <1>5, <2>3, Kinds, Zenon
    <3>2. KeepsPlace(DemandsOf(d))
      BY <1>1, <1>9, <1>10, <2>1, <3>1, PlacesDone, Zenon
    <3>3. /\ promise'[d] = "unset" <=> promise[d] = "unset"
          /\ promise[d] = "unset" => cpc'[d] \in {"notify", "future"}
      BY <1>1, <1>8, <1>10, <2>3, Zenon DEF DemandOK
    <3> QED
      BY <1>1, <3>2, <3>3, DemandKept, Zenon
  <2> QED
    BY <2>2, <2>3, Zenon
<1>12. ASSUME NEW q \in Pages PROVE PrefetchOK(q)'
  <2>1. NoRequest \notin {Prefetch(q)} /\ Demand(p, c) \notin {Prefetch(q)}
    BY Distinct, Zenon
  <2>2. wreq[w] \notin {Prefetch(q)}
    BY <1>5, <2>1, Zenon
  <2>3. KeepsPlace({Prefetch(q)})
    BY <1>1, <1>9, <1>10, <2>1, <2>2, PlacesDone, Zenon
  <2> QED
    BY <1>1, <1>3, <1>9, <2>3, PrefetchKept, Zenon
<1> QED
  BY <1>9, <1>11, <1>12, Folded, Zenon

LEMMA LoadPrefetchKeeps ==
    ASSUME QueueInv, NEW w \in Workers, WorkerLoad(w), wreq[w].kind = "prefetch"
    PROVE  QueueInv'
<1>1. ThreadTypes /\ WorkerOK(w)
  BY Unfolded, Zenon
<1>2. /\ wpc[w] = "load" /\ GotoWorker(w, "erase") /\ UNCHANGED <<promise, wreq>>
      /\ UNCHANGED <<queue, pending, waiting, cpc, cpage, controlVars>>
  BY Zenon DEF WorkerLoad
<1>3. wreq[w] \in Request
  BY <1>1, <1>2, Zenon DEF WorkerOK, ThreadTypes
<1>4. \E p \in Pages : wreq[w] = Prefetch(p)
  BY <1>3, Kinds, Zenon
<1>5. "erase" \in WorkerLabels
  BY Zenon DEF WorkerLabels
<1>6. UNCHANGED <<queue, pending, callerVars, wreq, controlVars>>
  BY <1>2, Zenon DEF callerVars
<1> QED
  BY <1>2, <1>4, <1>5, <1>6, QuietWorker, Zenon

LEMMA EraseKeeps ==
    ASSUME QueueInv, NEW w \in Workers, WorkerErase(w)
    PROVE  QueueInv'
<1>1. /\ \A c \in Callers : DemandOK(c) /\ Once(DemandsOf(c))
      /\ \A q \in Pages : PrefetchOK(q) /\ Once({Prefetch(q)})
      /\ ThreadTypes /\ WorkerOK(w)
  BY Unfolded, Zenon
<1>2. /\ WorkerDone(w, "eraseNotify") /\ wpc[w] = "erase" /\ UNCHANGED promise
      /\ pending' = pending \ {wreq[w].page}
  BY Zenon DEF WorkerErase, WorkerDone, callerVars
<1>3. PICK p \in Pages : wreq[w] = Prefetch(p)
  BY <1>1, <1>2, Zenon DEF WorkerOK
<1>4. pending' = pending \ {p}
  BY <1>2, <1>3 DEF Prefetch
<1>5. /\ QueueTypes' /\ ThreadTypes' /\ PhaseOK'
      /\ \A d \in Callers : CallerOK(d)'
      /\ \A v \in Workers : WorkerOK(v)'
      /\ UNCHANGED <<cancelled, stopping>>
      /\ wreq \in [Workers -> Request \cup {NoRequest}]
  <2>1. promise' \in [Callers -> {"none", "unset", "value", "error", "cancelled"}]
    BY <1>1, <1>2, Zenon DEF ThreadTypes
  <2> QED
    BY <1>2, <2>1, WorkerDoneFrame, Zenon
<1>6. /\ wreq' = [wreq EXCEPT ![w] = NoRequest]
      /\ UNCHANGED <<queue, cancelled, cpc>>
  BY <1>2, <1>5, Zenon DEF WorkerDone
<1>7. ASSUME NEW d \in Callers PROVE DemandOK(d)'
  <2>1. NoRequest \notin DemandsOf(d) /\ Prefetch(p) \notin DemandsOf(d)
    BY Distinct, Zenon
  <2>2. wreq[w] \notin DemandsOf(d)
    BY <1>3, <2>1, Zenon
  <2>3. KeepsPlace(DemandsOf(d))
    BY <1>1, <1>5, <1>6, <2>1, <2>2, PlacesDone, Zenon
  <2>4. promise[d] = "unset" => cpc'[d] \in {"notify", "future"}
    BY <1>1, <1>6, Zenon DEF DemandOK
  <2> QED
    BY <1>1, <1>2, <2>3, <2>4, DemandKept, Zenon
<1>8. ASSUME NEW q \in Pages PROVE PrefetchOK(q)'
  <2>1. NoRequest \notin {Prefetch(q)}
    BY Distinct, Zenon
  <2>2. CASE q = p
    <3>1. wreq[w] \in {Prefetch(q)}
      BY <1>3, <2>2, Zenon
    <3>2. Loses({Prefetch(q)})
      BY <1>1, <1>5, <1>6, <2>1, <3>1, PlacesDone, Zenon
    <3>3. q \notin pending'
      BY <1>4, <2>2, Zenon
    <3> QED
      BY <3>2, <3>3, Zenon DEF PrefetchOK, Loses, Prefetch
  <2>3. CASE q # p
    <3>1. Prefetch(p) \notin {Prefetch(q)}
      BY <2>3, Distinct, Zenon
    <3>2. wreq[w] \notin {Prefetch(q)}
      BY <1>3, <3>1, Zenon
    <3>3. KeepsPlace({Prefetch(q)})
      BY <1>1, <1>5, <1>6, <2>1, <3>2, PlacesDone, Zenon
    <3>4. q \in pending' <=> q \in pending
      BY <1>4, <2>3, Zenon
    <3> QED
      BY <1>1, <1>5, <3>3, <3>4, PrefetchKept, Zenon
  <2> QED
    BY <2>2, <2>3, Zenon
<1> QED
  BY <1>5, <1>7, <1>8, Folded, Zenon

-----------------------------------------------------------------------------
(* The steps of start() and shutdown().                                    *)

LEMMA StartWorkersKeeps ==
    ASSUME QueueInv, StartWorkers
    PROVE  QueueInv'
<1>1. ThreadTypes /\ PhaseOK /\ \A w \in Workers : WorkerOK(w)
  BY Unfolded, Zenon
<1>2. /\ lpc = "starting" /\ lpc' = "started" /\ wpc' = [w \in Workers |-> "loop"]
      /\ UNCHANGED <<queue, pending, waiting, cpc, cpage, promise, wreq, running,
                     stopping, cancelled, starts>>
  BY Zenon DEF StartWorkers, callerVars
<1>3. ThreadTypes'
  <2>1. /\ wpc' \in [Workers -> {"loop", "popped", "load", "erase", "eraseNotify",
                                 "exited"}]
        /\ lpc' \in {"down", "starting", "started", "up", "cancel", "notify",
                     "lifecycle", "locked", "lockedCancel", "join"}
    BY <1>2, Zenon
  <2> QED
    BY <1>1, <1>2, <2>1, Zenon DEF ThreadTypes
<1>4. PhaseOK'
  BY <1>1, <1>2, Zenon DEF PhaseOK, Stopping
<1>5. \A w \in Workers : WorkerOK(w)'
  <2>1. \A w \in Workers : wreq'[w] = NoRequest /\ wpc'[w] = "loop"
    BY <1>1, <1>2, Zenon DEF PhaseOK
  <2> QED
    BY <2>1, Zenon DEF WorkerOK
<1>6. EngineMoves
  BY <1>2, <1>3, <1>4, <1>5, Zenon DEF EngineMoves, callerVars
<1> QED
  BY <1>6, EngineMovesKeep, Zenon

LEMMA StartFailsKeeps ==
    ASSUME QueueInv, StartFails
    PROVE  QueueInv'
<1>1. ThreadTypes /\ PhaseOK /\ \A w \in Workers : WorkerOK(w)
  BY Unfolded, Zenon
<1>2. /\ lpc = "starting" /\ lpc' = "locked"
      /\ UNCHANGED <<queue, pending, waiting, cpc, cpage, promise, wreq, running,
                     stopping, cancelled, starts>>
  BY Zenon DEF StartFails, callerVars
<1>3. PICK created \in SUBSET Workers :
        wpc' = [w \in Workers |-> IF w \in created THEN "loop" ELSE wpc[w]]
  BY Zenon DEF StartFails
<1>4. \A w \in Workers : wreq[w] = NoRequest /\ wpc[w] = "exited"
  BY <1>1, <1>2, Zenon DEF PhaseOK
<1>5. \A w \in Workers : wpc'[w] \in {"loop", "exited"}
  BY <1>3, <1>4, Zenon
<1>6. ThreadTypes'
  <2>1. /\ wpc' \in [Workers -> {"loop", "popped", "load", "erase", "eraseNotify",
                                 "exited"}]
        /\ lpc' \in {"down", "starting", "started", "up", "cancel", "notify",
                     "lifecycle", "locked", "lockedCancel", "join"}
    BY <1>2, <1>3, <1>5, Zenon
  <2> QED
    BY <1>1, <1>2, <2>1, Zenon DEF ThreadTypes
<1>7. PhaseOK'
  BY <1>1, <1>2, Zenon DEF PhaseOK, Stopping
<1>8. \A w \in Workers : WorkerOK(w)'
  BY <1>2, <1>4, <1>5, Zenon DEF WorkerOK
<1>9. EngineMoves
  BY <1>2, <1>6, <1>7, <1>8, Zenon DEF EngineMoves, callerVars
<1> QED
  BY <1>9, EngineMovesKeep, Zenon

\* The moves of start() and shutdown() that change nothing but their phase and
\* whether the engine runs, or wake every thread.
LEMMA PhaseMovesKeep ==
    ASSUME QueueInv, StartRun \/ ShutdownNotify \/ ShutdownLock \/ ShutdownJoin
    PROVE  QueueInv'
<1>1. ThreadTypes /\ PhaseOK /\ \A w \in Workers : WorkerOK(w)
  BY Unfolded, Zenon
<1>2. /\ UNCHANGED <<queue, pending, cpc, cpage, promise, wpc, wreq, stopping,
                     cancelled, starts>>
      /\ waiting' \subseteq waiting
  BY Zenon DEF StartRun, ShutdownNotify, ShutdownLock, ShutdownJoin, NotifyAll,
               callerVars, workerVars
<1>3. ThreadTypes'
  <2>1. /\ lpc' \in {"down", "starting", "started", "up", "cancel", "notify",
                     "lifecycle", "locked", "lockedCancel", "join"}
        /\ running' \in BOOLEAN
    BY <1>1, Zenon
       DEF ThreadTypes, StartRun, ShutdownNotify, ShutdownLock, ShutdownJoin
  <2> QED
    BY <1>1, <1>2, <2>1, Zenon DEF ThreadTypes
<1>4. PhaseOK'
  <2>1. CASE StartRun
    BY <1>1, <1>2, <2>1 DEF StartRun, PhaseOK, Stopping
  <2>2. CASE ShutdownNotify
    BY <1>1, <1>2, <2>2 DEF ShutdownNotify, PhaseOK, Stopping
  <2>3. CASE ShutdownLock
    BY <1>1, <1>2, <2>3 DEF ShutdownLock, PhaseOK, Stopping
  <2>4. CASE ShutdownJoin
    BY <1>1, <1>2, <2>4 DEF ShutdownJoin, PhaseOK, Stopping
  <2> QED
    BY <2>1, <2>2, <2>3, <2>4, Zenon
<1>5. \A w \in Workers : WorkerOK(w)'
  BY <1>1, <1>2, Zenon DEF WorkerOK, Prefetch
<1>6. EngineMoves
  BY <1>2, <1>3, <1>4, <1>5, Zenon DEF EngineMoves, callerVars
<1> QED
  BY <1>6, EngineMovesKeep, Zenon

LEMMA StartBeginKeeps ==
    ASSUME QueueInv, StartBegin
    PROVE  QueueInv'
<1>1. /\ QueueTypes /\ ThreadTypes /\ PhaseOK
      /\ \A c \in Callers : CallerOK(c) /\ DemandOK(c) /\ Once(DemandsOf(c))
      /\ \A q \in Pages : Once({Prefetch(q)})
      /\ \A w \in Workers : WorkerOK(w)
  BY Unfolded, Zenon
<1>2. /\ lpc = "down" /\ lpc' = "starting" /\ starts < MaxStarts
      /\ starts' = starts + 1 /\ pending' = {} /\ stopping' = FALSE
      /\ UNCHANGED <<queue, waiting, cpc, cpage, promise, wpc, wreq, running,
                     cancelled>>
  BY Zenon DEF StartBegin, callerVars, workerVars
<1>3. QueueTypes'
  BY <1>1, <1>2, TypesSame, Zenon
<1>4. ThreadTypes'
  <2>1. starts' \in 0 .. MaxStarts
    BY <1>1, <1>2, QueueAssumption DEF ThreadTypes
  <2>2. /\ lpc' \in {"down", "starting", "started", "up", "cancel", "notify",
                     "lifecycle", "locked", "lockedCancel", "join"}
        /\ pending' \subseteq Pages /\ stopping' \in BOOLEAN
    BY <1>2, Zenon
  <2> QED
    BY <1>1, <1>2, <2>1, <2>2, Zenon DEF ThreadTypes
<1>5. /\ queue = <<>> /\ cancelled = <<>>
      /\ \A w \in Workers : wpc[w] = "exited" /\ wreq[w] = NoRequest
  BY <1>1, <1>2, Zenon DEF PhaseOK, WorkerOK
<1>6. PhaseOK'
  BY <1>1, <1>2, <1>5, Zenon DEF PhaseOK, Stopping
<1>7. /\ \A c \in Callers : CallerOK(c)'
      /\ \A w \in Workers : WorkerOK(w)'
  BY <1>1, <1>2, Zenon DEF CallerOK, WorkerOK, Prefetch
<1>8. ASSUME NEW c \in Callers PROVE DemandOK(c)'
  <2>1. KeepsPlace(DemandsOf(c))
    BY <1>1, <1>2, PlacesSame, Zenon
  <2>2. promise[c] = "unset" => cpc'[c] \in {"notify", "future"}
    BY <1>1, <1>2, Zenon DEF DemandOK
  <2> QED
    BY <1>1, <1>2, <2>1, <2>2, DemandKept, Zenon
<1>9. ASSUME NEW q \in Pages PROVE PrefetchOK(q)'
  <2>1. KeepsPlace({Prefetch(q)})
    BY <1>1, <1>2, PlacesSame, Zenon
  <2>2. NoRequest \notin {Prefetch(q)}
    BY Distinct, Zenon
  <2>3. InQueue({Prefetch(q)}) = {} /\ InCancelled({Prefetch(q)}) = {}
    BY <1>5 DEF InQueue, InCancelled
  <2>4. InHand({Prefetch(q)}) = {}
    BY <1>5, <2>2, Zenon DEF InHand
  <2>5. ~Held({Prefetch(q)})'
    BY <2>1, <2>3, <2>4, Zenon DEF KeepsPlace, Held
  <2> QED
    BY <1>2, <2>1, <2>5, Zenon DEF PrefetchOK, KeepsPlace, Prefetch
<1> QED
  BY <1>3, <1>4, <1>6, <1>7, <1>8, <1>9, Folded, Zenon

LEMMA StopKeeps ==
    ASSUME QueueInv, ShutdownStop \/ ShutdownLocked
    PROVE  QueueInv'
<1>1. /\ QueueTypes /\ ThreadTypes /\ PhaseOK
      /\ \A c \in Callers : CallerOK(c) /\ DemandOK(c) /\ Once(DemandsOf(c))
      /\ \A q \in Pages : Once({Prefetch(q)})
      /\ \A w \in Workers : WorkerOK(w)
  BY Unfolded, Zenon
<1>2. /\ lpc \in {"up", "locked"} /\ lpc' \in {"cancel", "lockedCancel"}
      /\ StopAdmission
      /\ UNCHANGED <<waiting, cpc, cpage, promise, wpc, wreq, starts>>
  BY Zenon DEF ShutdownStop, ShutdownLocked, callerVars, workerVars
<1>3. /\ running' = FALSE /\ stopping' = TRUE /\ cancelled' = queue
      /\ queue' = <<>> /\ pending' = {} /\ cancelled = <<>>
  BY <1>1, <1>2, Zenon DEF StopAdmission, PhaseOK
<1>4. QueueTypes'
  BY <1>3, TypesEmpty, Zenon
<1>5. ThreadTypes'
  <2>1. /\ lpc' \in {"down", "starting", "started", "up", "cancel", "notify",
                     "lifecycle", "locked", "lockedCancel", "join"}
        /\ pending' \subseteq Pages /\ stopping' \in BOOLEAN
        /\ running' \in BOOLEAN /\ cancelled' \in Seq(Request)
    BY <1>1, <1>2, <1>3, Zenon DEF QueueTypes
  <2> QED
    BY <1>1, <1>2, <2>1, Zenon DEF ThreadTypes
<1>6. PhaseOK'
  BY <1>2, <1>3, Zenon DEF PhaseOK, Stopping
<1>7. /\ \A c \in Callers : CallerOK(c)'
      /\ \A w \in Workers : WorkerOK(w)'
  BY <1>1, <1>2, Zenon DEF CallerOK, WorkerOK, Prefetch
<1>8. ASSUME NEW c \in Callers PROVE DemandOK(c)'
  <2>1. KeepsPlace(DemandsOf(c))
    BY <1>1, <1>2, <1>3, PlacesStop, Zenon
  <2>2. promise[c] = "unset" => cpc'[c] \in {"notify", "future"}
    BY <1>1, <1>2, Zenon DEF DemandOK
  <2> QED
    BY <1>1, <1>2, <2>1, <2>2, DemandKept, Zenon
<1>9. ASSUME NEW q \in Pages PROVE PrefetchOK(q)'
  <2>1. KeepsPlace({Prefetch(q)})
    BY <1>1, <1>2, <1>3, PlacesStop, Zenon
  <2> QED
    BY <1>3, <2>1, Zenon DEF PrefetchOK, KeepsPlace, Prefetch
<1> QED
  BY <1>4, <1>5, <1>6, <1>7, <1>8, <1>9, Folded, Zenon

LEMMA CancelKeeps ==
    ASSUME QueueInv, ShutdownCancel \/ ShutdownLockedCancel
    PROVE  QueueInv'
<1>1. /\ QueueTypes /\ ThreadTypes /\ PhaseOK
      /\ \A c \in Callers : CallerOK(c) /\ DemandOK(c) /\ Once(DemandsOf(c))
      /\ \A q \in Pages : Once({Prefetch(q)})
      /\ \A w \in Workers : WorkerOK(w)
  BY Unfolded, Zenon
<1>2. /\ lpc \in {"cancel", "lockedCancel"} /\ lpc' \in {"notify", "join"}
      /\ CancelDemands /\ waiting' \subseteq waiting
      /\ UNCHANGED <<queue, pending, cpc, cpage, wpc, wreq, running, stopping,
                     starts>>
  BY Zenon DEF ShutdownCancel, ShutdownLockedCancel, NotifyAll, workerVars
<1>3. /\ cancelled' = <<>>
      /\ promise' = [c \in Callers |->
                        IF \E r \in Range(cancelled) : r.by = c
                        THEN "cancelled" ELSE promise[c]]
  BY <1>2, Zenon DEF CancelDemands
<1>4. QueueTypes'
  BY <1>1, <1>2, TypesSame, Zenon
<1>5. ThreadTypes'
  <2>1. promise' \in [Callers -> {"none", "unset", "value", "error", "cancelled"}]
    BY <1>1, <1>3, Zenon DEF ThreadTypes
  <2>2. /\ lpc' \in {"down", "starting", "started", "up", "cancel", "notify",
                     "lifecycle", "locked", "lockedCancel", "join"}
        /\ cancelled' \in Seq(Request)
    BY <1>2, <1>3
  <2> QED
    BY <1>1, <1>2, <2>1, <2>2, Zenon DEF ThreadTypes
<1>6. stopping /\ stopping' /\ PhaseOK'
  BY <1>1, <1>2, <1>3, Zenon DEF PhaseOK, Stopping
<1>7. /\ \A c \in Callers : CallerOK(c)'
      /\ \A w \in Workers : WorkerOK(w)'
  BY <1>1, <1>2, Zenon DEF CallerOK, WorkerOK, Prefetch
<1>8. ASSUME NEW c \in Callers PROVE DemandOK(c)'
  <2>1. (\E r \in Range(cancelled) : r.by = c) <=> InCancelled(DemandsOf(c)) # {}
    <3>1. /\ DOMAIN cancelled = 1 .. Len(cancelled)
          /\ \A i \in 1 .. Len(cancelled) : cancelled[i] \in Request
      BY <1>1 DEF ThreadTypes
    <3>2. \A i \in 1 .. Len(cancelled) :
            cancelled[i].by = c <=> cancelled[i] \in DemandsOf(c)
      BY <3>1, Kinds, Zenon
    <3> QED
      BY <3>1, <3>2, Zenon DEF Range, InCancelled
  <2>2. CASE InCancelled(DemandsOf(c)) # {}
    <3>1. Loses(DemandsOf(c))
      BY <1>1, <1>2, <1>3, <2>2, PlacesCancel, Zenon
    <3>2. promise'[c] = "cancelled"
      BY <1>3, <2>1, <2>2, Zenon
    <3>3. promise'[c] # "unset"
      BY <3>2, Zenon
    <3> QED
      BY <3>1, <3>3, Zenon DEF DemandOK, Loses, DemandsOf, Demand
  <2>3. CASE InCancelled(DemandsOf(c)) = {}
    <3>1. KeepsPlace(DemandsOf(c))
      BY <1>1, <1>2, <1>3, <2>3, PlacesCancel, Zenon
    <3>2. promise'[c] = promise[c]
      BY <1>3, <2>1, <2>3, Zenon
    <3>3. promise[c] = "unset" => cpc'[c] \in {"notify", "future"}
      BY <1>1, <1>2, Zenon DEF DemandOK
    <3> QED
      BY <1>1, <3>1, <3>2, <3>3, DemandKept, Zenon
  <2> QED
    BY <2>2, <2>3, Zenon
<1>9. ASSUME NEW q \in Pages PROVE PrefetchOK(q)'
  <2>1. KeepsPlace({Prefetch(q)}) \/ Loses({Prefetch(q)})
    BY <1>1, <1>2, <1>3, PlacesCancel, Zenon
  <2> QED
    BY <1>6, <2>1, Zenon DEF PrefetchOK, KeepsPlace, Loses, Prefetch
<1> QED
  BY <1>4, <1>5, <1>6, <1>7, <1>8, <1>9, Folded, Zenon

-----------------------------------------------------------------------------
(* Every step.                                                             *)

\* A step that changes none of the variables but the waiting threads.
LEMMA WakeupKeeps ==
    ASSUME QueueInv, SpuriousWakeup \/ UNCHANGED vars
    PROVE  QueueInv'
<1>1. ThreadTypes /\ \A c \in Callers : CallerOK(c) /\ DemandOK(c)
  BY Unfolded, Zenon
<1>2. /\ UNCHANGED <<queue, pending, cpc, cpage, promise, workerVars, controlVars>>
      /\ waiting' \subseteq waiting
  BY Zenon DEF SpuriousWakeup, vars, callerVars
<1>3. ThreadTypes'
  BY <1>1, <1>2, CallerTypes, Zenon DEF ThreadTypes, CallerLabels
<1>4. CallerMoves
  BY <1>1, <1>2, <1>3, Zenon DEF CallerMoves, CallerOK, DemandOK
<1> QED
  BY <1>4, CallerMovesKeep, Zenon

LEMMA InitQueueInv ==
    ASSUME Init
    PROVE  QueueInv
<1>1. TypeOK
  <2>1. {i \in DOMAIN queue : queue[i].kind = "demand"} = {}
    BY DEF Init
  <2>2. Cardinality({i \in DOMAIN queue : queue[i].kind = "demand"}) = 0
    BY <2>1, FS_EmptySet, Zenon
  <2>3. /\ queue \in Seq(Request) /\ Len(queue) <= QueueDepth + PrefetchDepth
        /\ Cardinality({i \in DOMAIN queue : queue[i].kind = "demand"}) <= QueueDepth
        /\ cancelled \in Seq(Request) /\ starts \in 0 .. MaxStarts
    BY <2>2, QueueAssumption DEF Init
  <2> QED
    BY <2>3, Zenon DEF Init, TypeOK
<1>2. PhaseOK
  BY Zenon DEF Init, PhaseOK, Stopping
<1>3. ASSUME NEW R, NoRequest \notin R PROVE Once(R) /\ ~Held(R)
  <2>1. InQueue(R) = {} /\ InCancelled(R) = {}
    BY DEF Init, InQueue, InCancelled
  <2>2. InHand(R) = {}
    BY <1>3, Zenon DEF Init, InHand
  <2> QED
    BY <2>1, <2>2, Zenon DEF Once, Held, AtMostOne
<1>4. ASSUME NEW c \in Callers PROVE CallerOK(c) /\ DemandOK(c)
  <2>1. promise[c] # "unset" /\ cpc[c] = "idle"
    BY Zenon DEF Init
  <2> QED
    BY <1>3, <2>1, Distinct, Zenon DEF CallerOK, DemandOK
<1>5. ASSUME NEW w \in Workers PROVE WorkerOK(w)
  BY Zenon DEF Init, WorkerOK
<1>6. ASSUME NEW p \in Pages PROVE PrefetchOK(p)
  <2>1. Once({Prefetch(p)}) /\ ~Held({Prefetch(p)})
    BY <1>3, Distinct, Zenon
  <2> QED
    BY <2>1, Zenon DEF PrefetchOK, Init
<1> QED
  BY <1>1, <1>2, <1>4, <1>5, <1>6, Zenon DEF QueueInv

LEMMA StepKeepsQueueInv ==
    ASSUME QueueInv, [Next]_vars
    PROVE  QueueInv'
<1>1. ASSUME NEW c \in Callers, CallerStep(c) \/ CallerCall(c) PROVE QueueInv'
  BY <1>1, CallKeeps, SubmitDemandKeeps, NotifyDemandKeeps, FutureGetKeeps,
     SubmitPrefetchKeeps, NotifiesKeep, RemoveKeeps, Zenon DEF CallerStep
<1>2. ASSUME NEW w \in Workers, WorkerLoad(w) PROVE QueueInv'
  <2>1. wreq[w].kind = "demand" \/ wreq[w].kind = "prefetch"
    BY <1>2, Zenon DEF WorkerLoad
  <2> QED
    BY <1>2, <2>1, LoadDemandKeeps, LoadPrefetchKeeps, Zenon
<1>3. ASSUME NEW w \in Workers, WorkerStep(w) PROVE QueueInv'
  BY <1>2, <1>3, WorkerWaitKeeps, WorkerMovesKeep, WorkerPopKeeps, EraseKeeps,
     Zenon DEF WorkerStep
<1>4. CASE ControlStep \/ StartBegin \/ ShutdownStop
  BY <1>4, StartWorkersKeeps, StartFailsKeeps, PhaseMovesKeep, StartBeginKeeps,
     StopKeeps, CancelKeeps, Zenon DEF ControlStep
<1>5. CASE SpuriousWakeup \/ UNCHANGED vars
  BY <1>5, WakeupKeeps, Zenon
<1>6. CASE Finished
  BY <1>6, WakeupKeeps, Zenon DEF Finished
<1> QED
  BY <1>1, <1>3, <1>4, <1>5, <1>6, Zenon DEF Next

-----------------------------------------------------------------------------
(* What the runs check, from the inductive invariant.                      *)

\* The places of the requests of R, as DemandHeldOnce and PrefetchDeduplicated
\* count them.
Places(R) == {<<"queue", i>> : i \in InQueue(R)}
                \cup {<<"worker", w>> : w \in InHand(R)}
                \cup {<<"cancelled", i>> : i \in InCancelled(R)}

LEMMA PlacesCount ==
    ASSUME NEW R, Once(R)
    PROVE  /\ Held(R) => Cardinality(Places(R)) = 1
           /\ ~Held(R) => Places(R) = {}
           /\ Places(R) # {} => Held(R)
<1>1. \A a, b \in Places(R) : a = b
  BY Zenon DEF Places, Once, AtMostOne
<1>2. Places(R) # {} <=> Held(R)
  BY Zenon DEF Places, Held
<1>3. ASSUME Held(R) PROVE Cardinality(Places(R)) = 1
  <2>1. PICK a : a \in Places(R)
    BY <1>2, <1>3, Zenon
  <2>2. Places(R) = {a}
    BY <1>1, <2>1, Zenon
  <2> QED
    BY <2>2, FS_Singleton, Zenon
<1> QED
  BY <1>2, <1>3, Zenon

LEMMA DemandPlaces ==
    ASSUME queue \in Seq(Request), cancelled \in Seq(Request), NEW c
    PROVE  UNION {QueuedAt(Demand(p, c)) \cup HeldBy(Demand(p, c))
                    \cup CancelledAt(Demand(p, c)) : p \in Pages}
              = Places(DemandsOf(c))
<1>1. DOMAIN queue = 1 .. Len(queue) /\ DOMAIN cancelled = 1 .. Len(cancelled)
  OBVIOUS
<1> DEFINE At(p) == QueuedAt(Demand(p, c)) \cup HeldBy(Demand(p, c))
                       \cup CancelledAt(Demand(p, c))
<1>2. ASSUME NEW p \in Pages, NEW x \in At(p) PROVE x \in Places(DemandsOf(c))
  <2>1. Demand(p, c) \in DemandsOf(c)
    BY Zenon DEF DemandsOf
  <2> QED
    BY <1>1, <2>1, Zenon DEF QueuedAt, HeldBy, CancelledAt, Places, InQueue,
                             InHand, InCancelled
<1>3. ASSUME NEW x \in Places(DemandsOf(c)) PROVE \E p \in Pages : x \in At(p)
  <2>1. CASE \E i \in InQueue(DemandsOf(c)) : x = <<"queue", i>>
    BY <1>1, <2>1, Zenon DEF QueuedAt, InQueue, DemandsOf
  <2>2. CASE \E w \in InHand(DemandsOf(c)) : x = <<"worker", w>>
    BY <2>2, Zenon DEF HeldBy, InHand, DemandsOf
  <2>3. CASE \E i \in InCancelled(DemandsOf(c)) : x = <<"cancelled", i>>
    BY <1>1, <2>3, Zenon DEF CancelledAt, InCancelled, DemandsOf
  <2> QED
    BY <2>1, <2>2, <2>3, Zenon DEF Places
<1> HIDE DEF At
<1>4. UNION {At(p) : p \in Pages} = Places(DemandsOf(c))
  BY <1>2, <1>3, Zenon
<1> QED
  BY <1>4, Zenon DEF At

LEMMA PrefetchPlaces ==
    ASSUME queue \in Seq(Request), NEW p
    PROVE  QueuedAt(Prefetch(p)) \cup HeldBy(Prefetch(p)) =
              {<<"queue", i>> : i \in InQueue({Prefetch(p)})}
                \cup {<<"worker", w>> : w \in InHand({Prefetch(p)})}
<1>1. DOMAIN queue = 1 .. Len(queue)
  OBVIOUS
<1> QED
  BY <1>1, Zenon DEF QueuedAt, HeldBy, InQueue, InHand

LEMMA InvDemandHeldOnce ==
    ASSUME QueueInv
    PROVE  DemandHeldOnce
<1>1. QueueTypes /\ ThreadTypes /\ \A c \in Callers : DemandOK(c)
  BY Unfolded, Zenon
<1>2. queue \in Seq(Request) /\ cancelled \in Seq(Request)
  BY <1>1, Zenon DEF QueueTypes, ThreadTypes
<1>3. ASSUME NEW c \in Callers
      PROVE  /\ promise[c] = "unset" => Cardinality(Places(DemandsOf(c))) = 1
             /\ promise[c] # "unset" => Places(DemandsOf(c)) = {}
             /\ promise[c] = "unset" => cpc[c] \in {"notify", "future"}
  BY <1>1, PlacesCount, Zenon DEF DemandOK
<1>4. ASSUME NEW c \in Callers
      PROVE  LET places == UNION {QueuedAt(Demand(p, c)) \cup HeldBy(Demand(p, c))
                                     \cup CancelledAt(Demand(p, c)) : p \in Pages}
             IN  /\ promise[c] = "unset" => Cardinality(places) = 1
                 /\ promise[c] # "unset" => places = {}
                 /\ promise[c] = "unset" => cpc[c] \in {"notify", "future"}
  BY <1>2, <1>3, DemandPlaces, Zenon
<1> QED
  BY <1>4, Zenon DEF DemandHeldOnce

LEMMA InvPrefetchDeduplicated ==
    ASSUME QueueInv
    PROVE  PrefetchDeduplicated
<1>1. QueueTypes /\ PhaseOK /\ \A p \in Pages : PrefetchOK(p)
  BY Unfolded, Zenon
<1>2. queue \in Seq(Request)
  BY <1>1, Zenon DEF QueueTypes
<1>3. ~stopping => cancelled = <<>>
  BY <1>1, Zenon DEF PhaseOK, Stopping
<1>4. ASSUME NEW p \in Pages
      PROVE  LET places == QueuedAt(Prefetch(p)) \cup HeldBy(Prefetch(p))
             IN  /\ Cardinality(places) <= 1
                 /\ ~stopping => (p \in pending <=> places # {})
  <2> DEFINE R == {Prefetch(p)}
             places == QueuedAt(Prefetch(p)) \cup HeldBy(Prefetch(p))
  <2>1. Once(R) /\ (~stopping => (p \in pending <=> Held(R)))
    BY <1>1, Zenon DEF PrefetchOK
  <2>2. places = {<<"queue", i>> : i \in InQueue(R)}
                    \cup {<<"worker", w>> : w \in InHand(R)}
    BY <1>2, PrefetchPlaces, Zenon
  <2>3. ~stopping => InCancelled(R) = {}
    BY <1>3 DEF InCancelled
  <2> HIDE DEF places, R
  <2>4. places \subseteq Places(R) /\ (places # {} <=> InQueue(R) # {} \/ InHand(R) # {})
    BY <2>2, Zenon DEF Places
  <2>5. Cardinality(places) <= 1
    <3>1. CASE places = {}
      <4>1. Cardinality(places) = 0
        BY <3>1, FS_EmptySet, Zenon
      <4> QED
        BY <4>1
    <3>2. CASE places # {}
      <4>1. PICK a : a \in places
        BY <3>2, Zenon
      <4>2. \A b \in places : b = a
        <5>1. \A b, d \in Places(R) : b = d
          BY <2>1, Zenon DEF Places, Once, AtMostOne
        <5> QED
          BY <2>4, <4>1, <5>1, Zenon
      <4>3. places = {a}
        BY <4>1, <4>2, Zenon
      <4>4. Cardinality(places) = 1
        BY <4>3, FS_Singleton, Zenon
      <4> QED
        BY <4>4
    <3> QED
      BY <3>1, <3>2, Zenon
  <2>6. ~stopping => (p \in pending <=> places # {})
    BY <2>1, <2>3, <2>4, Zenon DEF Held
  <2> QED
    BY <2>5, <2>6, Zenon DEF places
<1> QED
  BY <1>4, Zenon DEF PrefetchDeduplicated

-----------------------------------------------------------------------------
\* The queue, its callers, its workers and start() and shutdown() agree on where
\* every request is, for any number of callers, workers, pages and starts, and
\* any depth of the queue.
THEOREM QueueInvariant == Spec => []QueueInv
<1>1. Init => QueueInv
  BY InitQueueInv, Zenon
<1>2. QueueInv /\ [Next]_vars => QueueInv'
  BY StepKeepsQueueInv, Zenon
<1> QED
  BY <1>1, <1>2, PTL DEF Spec

\* submit_demand and submit_prefetch keep the queue, and the demands in it,
\* within queue_depth and prefetch_depth.
THEOREM QueueIsBounded == Spec => []TypeOK
<1>1. QueueInv => TypeOK
  BY Zenon DEF QueueInv
<1> QED
  BY <1>1, QueueInvariant, PTL

\* The promise of every demand is satisfied from exactly one place: by the
\* worker that popped it or by the shutdown that took it from the queue.
THEOREM DemandsAreHeldOnce == Spec => []DemandHeldOnce
<1>1. QueueInv => DemandHeldOnce
  BY InvDemandHeldOnce, Zenon
<1> QED
  BY <1>1, QueueInvariant, PTL

\* pending_prefetches_ admits one prefetch of a page at a time, from its
\* submission to the end of its load, also when free_page removes it.
THEOREM PrefetchesAreDeduplicated == Spec => []PrefetchDeduplicated
<1>1. QueueInv => PrefetchDeduplicated
  BY InvPrefetchDeduplicated, Zenon
<1> QED
  BY <1>1, QueueInvariant, PTL

\* Nothing enters the queue after shutdown() has stopped admission.
THEOREM StoppedQueueIsEmpty == Spec => []StoppedStaysEmpty
<1>1. QueueInv => StoppedStaysEmpty
  BY Zenon DEF QueueInv, PhaseOK, StoppedStaysEmpty
<1> QED
  BY <1>1, QueueInvariant, PTL
=============================================================================
